----------------------------- MODULE RunCommand -----------------------------
(***************************************************************************)
(* The `tessariq run' command around the runner: what it acquires, in      *)
(* which order, and how it lets go of it again (cmd/tessariq/run.go), with *)
(* the egress proxy of a run in proxy mode (internal/proxy).               *)
(*                                                                         *)
(* The resources are the per-run Docker network, the Squid container, the  *)
(* worktree and the scratch directory with the copied credentials.  The    *)
(* telemetry is what Squid has logged, which the teardown must extract     *)
(* before it removes the container the log is in.                          *)
(*                                                                         *)
(* Module Egress computes what the options come to, module Mounts what the *)
(* container is to see of the host.                                        *)
(*                                                                         *)
(* Runner.Run appears by what it does to the agent container and to        *)
(* status.json; module RunLifecycle is about its inside.  A definition     *)
(* whose name extends that of the one below it is a faulty variant, kept   *)
(* for the mutation runs.                                                  *)
(***************************************************************************)
EXTENDS Egress, Mounts, FiniteSets

CONSTANTS
  Invocations,  \* the options the command may be called with, and the home
                \* directories it may be called in
  RequestPool,  \* the requests the agent may make
  MaxLogged,    \* bound on the different requests in Squid's access.log
  MaxFailures,  \* bound on the calls that fail of themselves
  Faults        \* subset of {"signal", "crash", "slow", "sharing"}

ASSUME InvocationsAssumption ==
  \A i \in Invocations :
    /\ i.options \in Options
    /\ i.home \in Homes(i.options.agent)
    /\ i.options.agent = "opencode" =>
         (i.options.auth = "missing" <=> OpenCodeAuth \notin i.home.files)
ASSUME RequestPoolAssumption == \A r \in RequestPool : r \in Requests
ASSUME BoundsAssumption == MaxLogged \in Nat /\ MaxFailures \in Nat
ASSUME FaultsAssumption == Faults \subseteq {"signal", "crash", "slow", "sharing"}

NoFile == [exists |-> FALSE, blocked |-> {}]

VARIABLES
  options,   \* what the command was called with; never changes
  home,      \* what the user's home directory has; never changes
  pc,        \* what the command does next
  armed,     \* the deferred cleanups of the worktree and the scratch files
  topology,  \* the proxy.Topology: "none", "up", "failed", "down" (tornDown)
  extracted, \* Topology.evidenceExtracted
  retrying,  \* this Teardown is the deferred one
  erred,     \* this Teardown has met an error
  late,      \* this Teardown has used up its 60 s
  out,       \* runErr: what the run or the attach to it returned, or "none"
  sig,       \* a signal has cancelled the command context
  failures,  \* calls that have failed of themselves
  missed,    \* attempts at a cleanup of the proxy that left something undone
  network,   \* the per-run Docker network exists
  squid,     \* the Squid container
  agent,     \* the agent container
  worktree,  \* the worktree exists
  scratch,   \* the scratch directory exists
  log,       \* Squid's access.log
  logData,   \* the copy of it that Teardown works on
  compiled,  \* egress.compiled.yaml exists
  events,    \* egress.events.jsonl: the destinations in it, or NoFile
  updated,   \* the init container has updated the agent
  cache,     \* what the agent's cache on the host holds
  shared,    \* the init container of another run has written to it meanwhile
  status     \* status.json; "uncleaned" is failed with a cleanup_error

\* Only the update of the agent changes any of these.
settled == <<options, home, updated, cache, shared>>
cmdVars == <<armed, topology, extracted, retrying, erred, late, out>>
faultVars == <<sig, failures, missed>>
dockerVars == <<network, squid, agent>>
logs == <<log, logData>>
fileVars == <<worktree, scratch, compiled, events, status>>
vars == <<settled, pc, cmdVars, faultVars, dockerVars, logs, fileVars>>

SetupPcs ==
  {"compile", "network", "create", "copy", "connect", "start", "ready",
   "undo", "undoSquid", "undoNetwork"}
TeardownPcs == {"extract", "events", "squidLog", "stop", "rmNetwork"}
Pcs ==
  SetupPcs \cup TeardownPcs \cup
  {"resolve", "bootstrap", "discover", "probe", "provision", "prepare", "update", "assemble",
   "launch", "run", "dropScratch", "dropTree", "dropProxy", "done", "crashed"}

CacheStates == {"none", "partial", "whole"}

TypeOK ==
  /\ options \in Options
  /\ home.files \subseteq AuthFiles(options.agent) \cup StateFiles(options.agent)
  /\ home.configDir \in ConfigDirStates
  /\ pc \in Pcs
  /\ armed \subseteq {"worktree", "scratch"}
  /\ topology \in {"none", "up", "failed", "down"}
  /\ topology = "down" => extracted  \* tornDown comes after evidenceExtracted
  /\ {extracted, retrying, erred, late, sig} \subseteq BOOLEAN
  /\ out \in {"none", "success", "error"}
  /\ failures \in 0..MaxFailures
  /\ missed \in Nat
  /\ {network, worktree, scratch, compiled} \subseteq BOOLEAN
  /\ squid \in {"absent", "created", "up"}
  /\ agent \in {"absent", "running", "exited"}
  /\ log \subseteq [request : RequestPool, result : {"TCP_TUNNEL", "TCP_DENIED"}]
  /\ logData \subseteq log
  /\ events = NoFile \/ (events.exists /\ events.blocked \subseteq {DestinationOf(l) : l \in log})
  /\ {updated, shared} \subseteq BOOLEAN
  /\ cache \in CacheStates
  /\ status \in {"none", "running", "success", "failed", "uncleaned"}

Init ==
  /\ \E i \in Invocations : options = i.options /\ home = i.home
  /\ cache \in (IF options.noUpdate THEN {"none"} ELSE CacheStates)
  /\ updated = FALSE
  /\ shared = FALSE
  /\ pc = "resolve"
  /\ armed = {}
  /\ topology = "none"
  /\ extracted = FALSE
  /\ retrying = FALSE
  /\ erred = FALSE
  /\ late = FALSE
  /\ out = "none"
  /\ sig = FALSE
  /\ failures = 0
  /\ missed = 0
  /\ network = FALSE
  /\ squid = "absent"
  /\ agent = "absent"
  /\ worktree = FALSE
  /\ scratch = FALSE
  /\ log = {}
  /\ logData = {}
  /\ compiled = FALSE
  /\ events = NoFile
  /\ status = "none"

-----------------------------------------------------------------------------
(* Calls that may fail.                                                    *)

\* A call fails of itself and has no effect, it is not made because its
\* context is over, or it is killed when its context ends: what it was to do
\* may then be done all the same.
Results(over, ending) ==
  (IF over \/ failures < MaxFailures THEN {"undone"} ELSE {}) \cup
  (IF over THEN {} ELSE {"ok"} \cup {"half" : e \in Faults \cap {ending}})
CommandResults == Results(sig, "signal")
TeardownResults == Results(late, "slow")
BackgroundResults == Results(FALSE, "none")

Effective(result) == result \in {"ok", "half"}
Count(result, over) ==
  failures' = IF result = "undone" /\ ~over THEN failures + 1 ELSE failures
Cut(result) == sig' = (sig \/ result = "half")
CutLate(result) == late' = (late \/ result = "half")

-----------------------------------------------------------------------------
(* Acquiring.                                                              *)

\* Where an error after the bootstrap leads: through the deferred cleanups.
Unwind == "dropScratch"

\* The checks of the host, the task file, the repository (which may fail)
\* and the options, resolveRunAllowlist among them.
ResolveOptions ==
  /\ pc = "resolve"
  /\ pc' \in {"done"} \cup (IF Refused(options) THEN {} ELSE {"bootstrap"})
  /\ UNCHANGED <<settled, cmdVars, faultVars, dockerVars, logs, fileVars>>

Proxied == Mode(options) = "proxy"

\* BootstrapManifest and CopyTaskFile.
Bootstrap ==
  /\ pc = "bootstrap"
  /\ \E r \in BackgroundResults :
       /\ pc' = IF r # "ok" THEN Unwind ELSE IF Proxied THEN "compile" ELSE "discover"
       /\ Count(r, FALSE)
  /\ UNCHANGED <<settled, cmdVars, sig, missed, dockerVars, logs, fileVars>>

\* Topology.Setup, first the compiled allowlist and its evidence file.
WriteCompiledYAML ==
  /\ pc = "compile"
  /\ IF Compiles(ResolveAllowlist(options))
     THEN \E r \in BackgroundResults :
            /\ compiled' = Effective(r)
            /\ pc' = IF r = "ok" THEN "network" ELSE Unwind
            /\ topology' = IF r = "ok" THEN topology ELSE "failed"
            /\ Count(r, FALSE)
     ELSE /\ topology' = "failed"
          /\ pc' = Unwind
          /\ UNCHANGED <<compiled, failures>>
  /\ UNCHANGED <<settled, armed, extracted, retrying, erred, late, out, sig, missed,
                 dockerVars, logs, worktree, scratch, events, status>>

\* A failure here is returned at once.
CreateNetwork ==
  /\ pc = "network"
  /\ \E r \in CommandResults :
       /\ network' = Effective(r)
       /\ pc' = IF r = "ok" THEN "create" ELSE Unwind
       /\ topology' = IF r = "ok" THEN topology ELSE "failed"
       /\ Count(r, sig)
       /\ Cut(r)
  /\ UNCHANGED <<settled, armed, extracted, retrying, erred, late, out, missed,
                 squid, agent, logs, fileVars>>

\* StartSquid: once the container is created a deferred StopSquid is armed,
\* in front of the one in Setup.
CreateSquid ==
  /\ pc = "create"
  /\ \E r \in CommandResults :
       /\ squid' = IF Effective(r) THEN "created" ELSE squid
       /\ pc' = IF r = "ok" THEN "copy" ELSE "undoSquid"
       /\ Count(r, sig)
       /\ Cut(r)
  /\ UNCHANGED <<settled, cmdVars, missed, network, agent, logs, fileVars>>

AfterSquidStep ==
  CASE pc = "copy" -> "connect" [] pc = "connect" -> "start" [] pc = "start" -> "ready"
    [] pc = "ready" -> "discover"

\* The deferred StopSquid comes first.
SquidStepFailedForgetting == "undoNetwork"
SquidStepFailed == "undo"

\* docker cp of squid.conf, docker network connect, docker start, and the
\* probe of the listening port, which has 30 s of its own.
StartSquid ==
  /\ pc \in {"copy", "connect", "start", "ready"}
  /\ \E r \in CommandResults :
       /\ squid' = IF pc = "start" /\ Effective(r) THEN "up" ELSE squid
       /\ pc' = IF r = "ok" THEN AfterSquidStep ELSE SquidStepFailed
       /\ topology' = IF r = "ok" /\ pc = "ready" THEN "up" ELSE topology
       /\ Count(r, sig)
       /\ Cut(r)
  /\ UNCHANGED <<settled, armed, extracted, retrying, erred, late, out, missed,
                 network, agent, logs, fileVars>>

\* docker network rm fails while a running container is on the network.
NetworkBusy == squid = "up" \/ agent = "running"

\* The cleanup after a failed Setup runs under the same context as Setup:
\* StopSquid in StartSquid, StopSquid and RemoveNetwork in Setup.
SetupUndoResults == CommandResults
UndoSquid ==
  /\ pc \in {"undo", "undoSquid"}
  /\ \E r \in SetupUndoResults :
       /\ squid' = IF Effective(r) THEN "absent" ELSE squid
       /\ missed' = IF r = "ok" THEN missed ELSE missed + 1
       /\ Count(r, sig)
       /\ Cut(r)
  /\ pc' = IF pc = "undo" THEN "undoSquid" ELSE "undoNetwork"
  /\ UNCHANGED <<settled, cmdVars, network, agent, logs, fileVars>>

UndoNetwork ==
  /\ pc = "undoNetwork"
  /\ \E r \in SetupUndoResults :
       /\ network' = (network /\ (NetworkBusy \/ ~Effective(r)))
       /\ missed' = IF r = "ok" THEN missed ELSE missed + 1
       /\ Count(r, sig)
       /\ Cut(r)
  /\ topology' = "failed"
  /\ pc' = Unwind
  /\ UNCHANGED <<settled, armed, extracted, retrying, erred, late, out,
                 squid, agent, logs, fileVars>>

\* The agent's files in the home directory, and the contract about them.
Auth == AuthMounts(options.agent, home)
Config == ConfigMounts(options.agent, home, options.mountConfig)
DiscoverMounts ==
  /\ pc = "discover"
  /\ pc' = IF AuthMissing(options.agent, home) \/ ~ValidateContract(Auth \cup Config)
           THEN Unwind ELSE "probe"
  /\ UNCHANGED <<settled, cmdVars, faultVars, dockerVars, logs, fileVars>>

\* ProbeImageBinaries and ProbeRuntimeIdentity: nothing is acquired.
ProbeImage ==
  /\ pc = "probe"
  /\ \E r \in CommandResults :
       /\ pc' = IF r = "ok" THEN "provision" ELSE Unwind
       /\ Count(r, sig)
       /\ Cut(r)
  /\ UNCHANGED <<settled, cmdVars, missed, dockerVars, logs, fileVars>>

\* workspace.Provision cleans up after itself, on a context of its own; only
\* a worktree that git was killed on while adding it is left.
Provision ==
  /\ pc = "provision"
  /\ \E r \in CommandResults :
       /\ worktree' = Effective(r)
       /\ pc' = IF r = "ok" THEN "prepare" ELSE Unwind
       /\ armed' = IF r = "ok" THEN armed \cup {"worktree"} ELSE armed
       /\ Count(r, sig)
       /\ Cut(r)
  /\ UNCHANGED <<settled, topology, extracted, retrying, erred, late, out, missed,
                 dockerVars, logs, scratch, compiled, events, status>>

\* PrepareAndHardenRuntimeState removes the scratch directory when it fails;
\* there is none when no file is to be copied.
PrepareRuntimeState ==
  /\ pc = "prepare"
  /\ \E r \in IF NeedsScratch(Auth) THEN CommandResults ELSE {"ok"} :
       /\ scratch' = (r = "ok" /\ NeedsScratch(Auth))
       /\ pc' = IF r = "ok" THEN "update" ELSE Unwind
       /\ armed' = IF r = "ok" THEN armed \cup {"scratch"} ELSE armed
       /\ Count(r, sig)
       /\ Cut(r)
  /\ UNCHANGED <<settled, topology, extracted, retrying, erred, late, out, missed,
                 dockerVars, logs, worktree, compiled, events, status>>

\* RunInitContainer installs the newest agent in the cache on the host.  Its
\* failure is a warning; when its client is killed, by a signal or after two
\* minutes, the container goes on.  The version probes and the repair of the
\* cache's ownership have no say in the result.
UpdateAgent ==
  /\ pc = "update"
  /\ ~options.noUpdate
  /\ \/ \E r \in CommandResults :
          /\ updated' = (r = "ok")
          /\ cache' \in CASE r = "ok" -> {"whole"} [] r = "half" -> {cache, "partial", "whole"}
                          [] OTHER -> {cache} \cup (IF sig THEN {} ELSE {"partial"})
          /\ Count(r, sig)
          /\ Cut(r)
     \/ /\ "slow" \in Faults
        /\ ~sig
        /\ updated' = FALSE
        /\ cache' \in {cache, "partial", "whole"}
        /\ UNCHANGED <<failures, sig>>
  /\ pc' = "assemble"
  /\ UNCHANGED <<options, home, shared, cmdVars, missed, dockerVars, logs, fileVars>>

\* --no-update-agent, or no cache directory could be made.
SkipUpdate ==
  /\ pc = "update"
  /\ \/ options.noUpdate /\ pc' = "assemble" /\ UNCHANGED failures
     \/ /\ ~options.noUpdate
        /\ failures < MaxFailures
        /\ failures' = failures + 1
        /\ pc' = Unwind
  /\ UNCHANGED <<settled, cmdVars, sig, missed, dockerVars, logs, fileVars>>

\* The cache is there for all runs of the agent: another one's init container
\* may write to it at any time, also one whose client is long gone.
OtherWritesCache ==
  /\ "sharing" \in Faults
  /\ ~options.noUpdate
  /\ pc \in {"update", "assemble", "launch", "run"}
  /\ cache' \in {"partial", "whole"}
  /\ shared' = TRUE
  /\ UNCHANGED <<options, home, updated, pc, cmdVars, faultVars, dockerVars, logs, fileVars>>

\* NewProcess: the cache comes first in the agent's PATH when it is mounted.
CacheIsMountedIfThere == cache # "none"
CacheIsMounted == updated
Tmpfs == WritableDirs(EffectiveMounts(Auth), Config)
AgentMounts ==
  AssembleMounts(EffectiveMounts(Auth), Config)
    \cup {CacheMount : u \in {TRUE} \cap {CacheIsMounted}}

\* NewProcess, agent.json, runtime.json and the running entry of the index.
Assemble ==
  /\ pc = "assemble"
  /\ \E r \in BackgroundResults :
       /\ pc' = IF r = "ok" THEN "launch" ELSE Unwind
       /\ Count(r, FALSE)
  /\ UNCHANGED <<settled, cmdVars, sig, missed, dockerVars, logs, fileVars>>

-----------------------------------------------------------------------------
(* Running.                                                                *)

\* After Runner.Run, whatever it returned: the explicit Teardown.
AfterRun == IF Proxied THEN "extract" ELSE Unwind

\* The agent starts, or the run ends without one: the initial status, the
\* logs, a hook, or the start failed, or the context was cancelled.
LaunchAgent ==
  /\ pc = "launch"
  /\ \/ /\ ~sig
        /\ agent' = "running"
        /\ status' = "running"
        /\ pc' = "run"
        /\ UNCHANGED <<out, failures>>
     \/ /\ sig \/ failures < MaxFailures
        /\ failures' = IF sig THEN failures ELSE failures + 1
        /\ status' \in {"none", "running", "failed"}
        /\ out' = "error"
        /\ pc' = AfterRun
        /\ UNCHANGED agent
  /\ UNCHANGED <<settled, armed, topology, extracted, retrying, erred, late, sig, missed,
                 network, squid, logs, worktree, scratch, compiled, events>>

\* What the runner records: nothing, when status.json cannot be written.
Outcomes(uncleaned, unwritten) ==
  IF unwritten THEN {status}
  ELSE IF uncleaned THEN {"uncleaned"}
  ELSE IF agent = "exited" /\ ~sig THEN {"success", "failed"} ELSE {"failed"}

\* What newRunCmd gets to know: an error of the runner's or, of a run that
\* was a success, the attach's, because tmux failed or a signal came.
Errors(state) == IF state = "success" THEN {"success", "error"} ELSE {"error"}

\* The runner is done with the agent: it has exited, or was sent a signal.
\* Its container is removed, or the removal failed and status.json says so.
FinishRun ==
  /\ pc = "run"
  /\ \E uncleaned, unwritten \in BOOLEAN :
       /\ failures' = failures + (IF uncleaned THEN 1 ELSE 0) + (IF unwritten THEN 1 ELSE 0)
       /\ failures' <= MaxFailures
       /\ agent' \in (IF uncleaned THEN {agent, "exited"} ELSE {"absent"})
       /\ status' \in Outcomes(uncleaned, unwritten)
  /\ out' \in Errors(status')
  /\ pc' = AfterRun
  /\ UNCHANGED <<settled, armed, topology, extracted, retrying, erred, late, sig, missed,
                 network, squid, logs, worktree, scratch, compiled, events>>

\* The configuration docker cp has put into the Squid container.
SquidConf == GenerateSquidConf(CompiledAllowlist(options))

\* The agent (external) makes a request, which Squid answers and logs.
AgentRequests ==
  /\ agent = "running"
  /\ squid = "up"
  /\ Cardinality(log) < MaxLogged
  /\ \E r \in RequestPool :
       log' = log \cup {[request |-> r, result |-> ResultCode(SquidConf, r)]}
  /\ UNCHANGED <<settled, pc, cmdVars, faultVars, dockerVars, logData, fileVars>>

AgentExits ==
  /\ agent = "running"
  /\ agent' = "exited"
  /\ UNCHANGED <<settled, pc, cmdVars, faultVars, network, squid, logs, fileVars>>

-----------------------------------------------------------------------------
(* Topology.Teardown: the telemetry first, then what it was read from.     *)

TeardownFailed == erred' = TRUE /\ pc' = "stop"

\* evidenceExtracted: what has been extracted is not extracted again.
Extracts == ~extracted

\* docker exec cat access.log needs the container to run.
ReadableLogOrNone == TRUE
ReadableLog == squid = "up"

CopyAccessLog ==
  /\ pc = "extract"
  /\ IF Extracts
     THEN \E r \in TeardownResults :
            /\ IF r = "ok" /\ ReadableLog
               THEN pc' = "events" /\ UNCHANGED erred
               ELSE TeardownFailed
            /\ logData' = IF squid = "up" THEN log ELSE {}
            /\ Count(r, late)
            /\ CutLate(r)
     ELSE pc' = "stop" /\ UNCHANGED <<erred, failures, late, logData>>
  /\ UNCHANGED <<settled, armed, topology, extracted, retrying, out, sig, missed,
                 dockerVars, log, fileVars>>

\* WriteExtractedEvidence: the events, then the log itself.  When the log
\* cannot be written the events are removed again.
WriteEventsJSONL ==
  /\ pc = "events"
  /\ \E r \in BackgroundResults :
       /\ events' = IF r = "ok"
                   THEN [exists |-> TRUE, blocked |-> ParseSquidAccessLog(logData)]
                   ELSE events
       /\ IF r = "ok" THEN pc' = "squidLog" /\ UNCHANGED erred ELSE TeardownFailed
       /\ Count(r, FALSE)
  /\ UNCHANGED <<settled, armed, topology, extracted, retrying, late, out, sig, missed,
                 dockerVars, logs, worktree, scratch, compiled, status>>

CopySquidLog ==
  /\ pc = "squidLog"
  /\ \E r \in BackgroundResults :
       /\ events' = IF r = "ok" THEN events ELSE NoFile
       /\ extracted' = (r = "ok")
       /\ IF r = "ok" THEN pc' = "stop" /\ UNCHANGED erred ELSE TeardownFailed
       /\ Count(r, FALSE)
  /\ UNCHANGED <<settled, armed, topology, retrying, late, out, sig, missed,
                 dockerVars, logs, worktree, scratch, compiled, status>>

StopSquid ==
  /\ pc = "stop"
  /\ \E r \in TeardownResults :
       /\ squid' = IF Effective(r) THEN "absent" ELSE squid
       /\ erred' = (erred \/ r # "ok")
       /\ Count(r, late)
       /\ CutLate(r)
  /\ pc' = "rmNetwork"
  /\ UNCHANGED <<settled, armed, topology, extracted, retrying, out, sig, missed,
                 network, agent, logs, fileVars>>

\* The last step of Teardown: it latches when every step has succeeded.
AlwaysLatches(failed) == TRUE
Latches(failed) == ~failed

RemoveNetwork ==
  /\ pc = "rmNetwork"
  /\ \E r \in TeardownResults :
       LET failed == erred \/ r # "ok" \/ (network /\ NetworkBusy) IN
       /\ network' = (network /\ (NetworkBusy \/ ~Effective(r)))
       /\ topology' = IF Latches(failed) THEN "down" ELSE topology
       /\ missed' = IF squid # "absent" \/ network' THEN missed + 1 ELSE missed
       /\ Count(r, late)
  /\ erred' = FALSE
  /\ late' = FALSE
  /\ pc' = IF retrying THEN "done" ELSE Unwind
  /\ UNCHANGED <<settled, armed, extracted, retrying, out, sig, squid, agent, logs, fileVars>>

-----------------------------------------------------------------------------
(* The deferred cleanups of newRunCmd, last armed first.                   *)

DropScratch ==
  /\ pc = "dropScratch"
  /\ IF "scratch" \in armed
     THEN \E r \in BackgroundResults : scratch' = (scratch /\ r # "ok") /\ Count(r, FALSE)
     ELSE UNCHANGED <<scratch, failures>>
  /\ armed' = armed \ {"scratch"}
  /\ pc' = "dropTree"
  /\ UNCHANGED <<settled, topology, extracted, retrying, erred, late, out, sig, missed,
                 dockerVars, logs, worktree, compiled, events, status>>

\* cleanupWorktree: the worktree is left in place when there is no error at
\* all.
CleansWorktreeOnError == out = "none"
CleansWorktree == out # "success"

DropWorktree ==
  /\ pc = "dropTree"
  /\ IF "worktree" \in armed /\ CleansWorktree
     THEN \E r \in BackgroundResults : worktree' = (worktree /\ r # "ok") /\ Count(r, FALSE)
     ELSE UNCHANGED <<worktree, failures>>
  /\ armed' = armed \ {"worktree"}
  /\ pc' = "dropProxy"
  /\ UNCHANGED <<settled, topology, extracted, retrying, erred, late, out, sig, missed,
                 dockerVars, logs, scratch, compiled, events, status>>

\* The deferred Teardown, armed once Setup has returned without an error.
\* It has nothing to do after one that latched.
DropProxy ==
  /\ pc = "dropProxy"
  /\ pc' = IF topology = "up" THEN "extract" ELSE "done"
  /\ retrying' = TRUE
  /\ UNCHANGED <<settled, armed, topology, extracted, erred, late, out, faultVars,
                 dockerVars, logs, fileVars>>

-----------------------------------------------------------------------------
(* What happens to the command.                                            *)

Over == pc \in {"done", "crashed"}

SignalArrives ==
  /\ "signal" \in Faults
  /\ ~Over
  /\ ~sig
  /\ sig' = TRUE
  /\ UNCHANGED <<settled, pc, cmdVars, failures, missed, dockerVars, logs, fileVars>>

\* A Docker call of Teardown hangs until proxyTeardownTimeout.
TeardownIsLate ==
  /\ "slow" \in Faults
  /\ pc \in TeardownPcs
  /\ ~late
  /\ late' = TRUE
  /\ UNCHANGED <<settled, pc, armed, topology, extracted, retrying, erred, out, faultVars,
                 dockerVars, logs, fileVars>>

Crash ==
  /\ "crash" \in Faults
  /\ ~Over
  /\ pc' = "crashed"
  /\ UNCHANGED <<settled, cmdVars, faultVars, dockerVars, logs, fileVars>>

Next ==
  \/ ResolveOptions \/ Bootstrap \/ WriteCompiledYAML \/ CreateNetwork \/ CreateSquid \/ StartSquid
  \/ UndoSquid \/ UndoNetwork \/ DiscoverMounts \/ ProbeImage \/ Provision \/ PrepareRuntimeState \/ UpdateAgent
  \/ SkipUpdate \/ OtherWritesCache \/ Assemble
  \/ LaunchAgent \/ FinishRun \/ AgentRequests \/ AgentExits
  \/ CopyAccessLog \/ WriteEventsJSONL \/ CopySquidLog \/ StopSquid \/ RemoveNetwork
  \/ DropScratch \/ DropWorktree \/ DropProxy
  \/ SignalArrives \/ TeardownIsLate \/ Crash

Spec == Init /\ [][Next]_vars

-----------------------------------------------------------------------------
(* Properties.                                                             *)

ProxyReleased == ~network /\ squid = "absent"

\* A command that comes to its end leaves no Squid container and no network
\* behind, although a Teardown after the run may have failed or been late:
\* the deferred one repeats it (topology.go:109-113, run.go:187-197).  Only
\* a Setup under a cancelled context is excused here.
ProxyReleasedAtExit ==
  (pc = "done" /\ ~(topology = "failed" /\ sig)
               /\ missed <= (IF out = "none" THEN 0 ELSE 1))
    => ProxyReleased

\* When no call has failed of itself, the scratch directory is gone at the
\* end and the worktree is kept exactly for a run that returned no error,
\* which is a recorded success: not for a success that could not be attached
\* to.  A signal that came before Runner.Run returned anything is excused
\* (run.go:269-277, 289, 400-406).
FilesReleasedAtExit ==
  (pc = "done" /\ failures = 0 /\ ~(sig /\ out = "none"))
    => /\ ~scratch
       /\ worktree <=> out = "success"
       /\ worktree => status = "success"

\* The destinations that the specification grants: those of the command
\* line and no others, else those of the user's configuration and no others,
\* else the built-in ones, and never a default that was to be discarded.
Granted ==
  IF options.allow # {} THEN {ParseDestination(e) : e \in options.allow}
  ELSE IF options.noDefaults THEN {}
  ELSE IF options.userConfig # {} THEN {ParseDestination(e) : e \in options.userConfig}
  ELSE [host : BaselineHosts \cup AgentHosts(options), port : {443}]

GrantedRequests ==
  CASE Mode(options) = "open" -> RequestPool
    [] Mode(options) = "none" -> {}
    [] OTHER -> {r \in RequestPool :
                   r.method = "CONNECT" /\ [host |-> r.host, port |-> r.port] \in Granted}

\* The container is on Docker's default network, on none, or on the per-run
\* network, which only Squid leads out of.
Reachable ==
  IF agent # "running" THEN {}
  ELSE IF Mode(options) = "open" THEN RequestPool
  ELSE IF Mode(options) = "none" \/ squid # "up" THEN {}
  ELSE {r \in RequestPool : SquidAllows(SquidConf, r)}

\* What the agent can reach never exceeds what its options grant, pair of
\* host and port by pair, however Setup, Teardown and a signal interleave
\* with it; as long as the runner waits for it, it is all of that
\* (squidconf.go:11-13, allowlist.go:97-98).
EgressIsExact ==
  /\ Reachable \subseteq GrantedRequests
  /\ (pc = "run" /\ agent = "running") => Reachable = GrantedRequests

\* Options that cannot be used are refused before anything is made: a
\* command whose Setup fails without a call failing had a host with a colon,
\* whose brackets were lost, or a provider host, which nobody checks
\* (run.go:149-157, allowlist.go:84-95).
BadOptionsAreRefusedEarly ==
  (topology = "failed" /\ failures = 0 /\ ~sig) =>
    \/ ResolvesProvider(options)
    \/ \E e \in ResolveAllowlist(options) : e.host \in Colons

\* The telemetry of a run that promote would accept has every destination
\* its agent was denied and no other: partial telemetry never passes for
\* complete telemetry (topology.go:115-117, completeness.go:33-39).
Promotable == status \in {"success", "failed"} /\ compiled /\ events.exists
TelemetryIsWhole ==
  (Proxied /\ Promotable) =>
    events.blocked = {DestinationOf(l) : l \in {m \in log : ~SquidAllows(SquidConf, m.request)}}

\* What has been extracted once stays as it is, however often Teardown is
\* repeated (topology.go:113).
TelemetryIsKept == [][extracted => extracted' /\ events' = events]_vars

\* However the home directory is furnished, Docker can set up what the agent's
\* container is to have mounted, and the agent can write to every directory
\* that one of its files is in, unless that is its configuration
\* (factory.go:136-139, 154-155).
ContainerIsMountable ==
  pc = "launch" =>
    /\ Mountable(AgentMounts, Tmpfs)
    /\ FileDirs(Auth) \subseteq Tmpfs \cup {c.containerPath : c \in Config}

\* Of the host an agent that is started can write to the worktree and to the
\* copies made for it: never to the user's credentials, configuration or evidence
\* (runtime_state.go:45-50, mount.go:25-26).
HostIsReadOnly ==
  pc = "launch" =>
    \A m \in AgentMounts :
      m.readOnly \/ m.source = Worktree \/ SubSeq(m.source, 1, 1) = ScratchRoot

\* An agent is not started from a cache that its own update has left in
\* pieces, failed, late or interrupted as it may have been; nobody sees to it
\* that other runs leave the cache alone (init.go:29-31).
FallsBackToBaked ==
  agent = "running" /\ CacheIsMounted => cache = "whole" \/ shared

-----------------------------------------------------------------------------
(* What the documentation says and the code does not do.                   *)

\* planning/tasks/T-067.md:22: if docker start or the readiness check fails,
\* the Squid container is removed; no removal fails of itself here.
FailedSetupIsUndone ==
  (pc = "done" /\ topology = "failed" /\ failures = 0) => squid # "up"

=============================================================================
