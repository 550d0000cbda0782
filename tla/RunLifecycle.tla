---------------------------- MODULE RunLifecycle ----------------------------
(***************************************************************************)
(* One run of tessariq, from the moment its worktree exists to the moment  *)
(* nobody works on it any more.  Three kinds of process share its state:   *)
(*                                                                         *)
(*  - the supervisor: `tessariq run', that is Runner.Run of                *)
(*    internal/runner/runner.go and the tail of newRunCmd around it;       *)
(*  - the agent container and the Docker daemon that owns it (external);   *)
(*  - the reconcilers: every `tessariq attach' and `tessariq promote'      *)
(*    given this run, which call lifecycle.ReconcileRun.                   *)
(*                                                                         *)
(* They communicate through files and through Docker only, with no lock:   *)
(* status.json, timeout.flag, runner.log, diff.patch, the run index, the   *)
(* container (found by its deterministic name) and the worktree.           *)
(* Writing status.json and adding to the index is one step each here;      *)
(* module RunFiles looks inside them.  A definition whose name extends     *)
(* that of the one below it is a faulty variant, kept for the mutation     *)
(* runs; no specification uses it.                                         *)
(***************************************************************************)
EXTENDS Integers

CONSTANTS
  Attachers,   \* the `attach' commands given this run
  Promoters,   \* the `promote' commands given this run
  ExitCodes,   \* the exit statuses the agent may end with
  MaxHooks,    \* bound on the number of --pre and of --verify commands
  HookOutput,  \* what a pre-hook's output may do to runner.log
  Faults       \* what the environment may do wrong

ASSUME ActorsAssumption == Attachers \cap Promoters = {}
ASSUME ExitCodesAssumption == ExitCodes \subseteq 0..255
ASSUME MaxHooksAssumption == MaxHooks \in Nat
ASSUME HookOutputAssumption ==
  HookOutput # {} /\ HookOutput \subseteq {"plain", "fills", "mentions"}
ASSUME FaultsAssumption ==
  Faults \subseteq
    {"signal", "crash", "disk", "docker", "prune", "git", "tmux", "client"}

Clients == Attachers \cup Promoters

Signals == {"interrupted", "killed"}
TerminalStates == {"success", "failed", "timeout"} \cup Signals
NoCode == 256     \* not an exit status: the agent has not exited
WaitFailed == -1  \* what Process.Wait returns when `docker wait' fails

VARIABLES
  cfg,        \* the options of the run; never changes
  pc,         \* where the supervisor is in Runner.Run and newRunCmd
  left,       \* hook commands of the current phase still to run
  hookBad,    \* some verify hook has failed
  sig,        \* cause of the cancelled CLI context, or "none"
  expired,    \* the shared wall-clock deadline has passed
  ctxErr,     \* Err() of the context the current operation runs under
  out,        \* processState
  rmFailed,   \* cleanupCause is not nil
  owned,      \* container.Process.created
  waitRes,    \* what the Wait goroutine has put on waitCh
  cmdErr,     \* `run' fails by an error other than a TerminalStateError
  container,  \* the container Docker has under the run's name
  exitCode,   \* the exit status it ended with
  status,     \* status.json: its state and whether it has a cleanup_error
  flag,       \* timeout.flag exists
  flagLost,   \* writing timeout.flag has failed
  marker,     \* runner.log contains "starting process"
  logFull,    \* runner.log has reached its cap: later lines are dropped
  patch,      \* diff.patch and diffstat.txt exist
  indexLast,  \* state of the run's last entry in index.jsonl
  worktree,   \* the run's worktree
  cpc,        \* where each client is
  view,       \* the status each client has read or inferred
  snap,       \* the container state each client has seen
  branch      \* state the run was last promoted in, or "none"

supVars == <<pc, left, hookBad, sig, expired, ctxErr, out, rmFailed, owned, waitRes,
             cmdErr>>
ctrVars == <<container, exitCode>>
evVars == <<status, flag, flagLost, marker, logFull, patch, indexLast>>
cliVars == <<cpc, view, snap, branch>>
vars == <<cfg, supVars, ctrVars, evVars, worktree, cliVars>>

Configs == [interactive : BOOLEAN, pre : 0..MaxHooks, verify : 0..MaxHooks]
Statuses == [state : {"none", "running"} \cup TerminalStates, cleanupErr : BOOLEAN]
NoStatus == [state |-> "none", cleanupErr |-> FALSE]
Recorded(s) == [state |-> s, cleanupErr |-> FALSE]
IsTerminal(s) == s \in TerminalStates

SupervisorPcs ==
  {"enroll", "begin", "logs", "session", "pre", "preRun", "create", "creating", "start",
   "mark", "select", "term", "kill", "verify", "verifyRun", "diff", "cleanup",
   "finish", "attached", "index", "unwind", "done", "crashed"}
ClientPcs ==
  {"idle", "reconcile", "inspect", "marker", "flag", "write", "index",
   "container", "worktree", "decide"}

SupervisorGone == pc \in {"done", "crashed"}

SupervisorTypeOK ==
  /\ cfg \in Configs
  /\ pc \in SupervisorPcs
  /\ left \in 0..MaxHooks
  /\ hookBad \in BOOLEAN
  /\ sig \in {"none"} \cup Signals
  /\ expired \in BOOLEAN
  /\ ctxErr \in {"live", "deadline", "canceled"}
  /\ out \in TerminalStates
  /\ rmFailed \in BOOLEAN
  /\ owned \in BOOLEAN
  /\ waitRes \in WaitFailed..NoCode
  /\ cmdErr \in BOOLEAN

SharedTypeOK ==
  /\ container \in {"absent", "created", "running", "exited"}
  /\ exitCode \in 0..NoCode
  /\ status \in Statuses
  /\ flag \in BOOLEAN
  /\ flagLost \in BOOLEAN
  /\ marker \in BOOLEAN
  /\ logFull \in BOOLEAN
  /\ patch \in BOOLEAN
  /\ indexLast \in {"none", "running"} \cup TerminalStates
  /\ worktree \in {"clean", "dirty", "removed"}

ClientTypeOK ==
  /\ cpc \in [Clients -> ClientPcs]
  /\ view \in [Clients -> Statuses]
  /\ snap \in [Clients -> {"none", "absent", "exited"}]
  /\ branch \in {"none"} \cup TerminalStates

TypeOK == SupervisorTypeOK /\ SharedTypeOK /\ ClientTypeOK

Init ==
  /\ cfg \in Configs
  /\ pc = "enroll"
  /\ left = cfg.pre
  /\ hookBad = FALSE
  /\ sig = "none"
  /\ expired = FALSE
  /\ ctxErr = "live"
  /\ out = "success"
  /\ rmFailed = FALSE
  /\ owned = FALSE
  /\ waitRes = NoCode
  /\ cmdErr = FALSE
  /\ container = "absent"
  /\ exitCode = NoCode
  /\ status = NoStatus
  /\ flag = FALSE
  /\ flagLost = FALSE
  /\ marker = FALSE
  /\ logFull = FALSE
  /\ patch = FALSE
  /\ indexLast = "none"
  /\ worktree = "clean"
  /\ cpc = [c \in Clients |-> "idle"]
  /\ view = [c \in Clients |-> NoStatus]
  /\ snap = [c \in Clients |-> "none"]
  /\ branch = "none"

-----------------------------------------------------------------------------
(* The supervisor: bootstrap and pre-hooks.                                *)

\* A context derived now from the CLI context with the run deadline: a
\* cancelled parent wins over a deadline that has passed as well.
FreshCtx ==
  IF sig # "none" THEN "canceled" ELSE IF expired THEN "deadline" ELSE "live"

\* The deferred cancel releases a derived context; its error is of no
\* consequence any more.
ReleaseCtx == ctxErr' = "live"

\* The context of docker create and docker start: an interactive agent is
\* bounded by its activity timer, not by the run deadline.
ProcessCtx == IF cfg.interactive /\ sig = "none" THEN "live" ELSE FreshCtx

\* The hooks of a phase are done, or there are none.
AfterBootstrap == IF cfg.pre > 0 THEN "pre" ELSE "create"

\* A file may not be written: the disk is full or the directory is gone.
DiskFails == "disk" \in Faults

\* Runner.Run returns an error that is not a TerminalStateError, or the
\* attach does; newRunCmd goes on to the index with it.
RunReturnsError == cmdErr' = TRUE /\ pc' = "index"

\* Without its index entry the run goes on: a warning.
AppendRunningIndexEntry ==
  /\ pc = "enroll"
  /\ \/ indexLast' = "running"
     \/ DiskFails /\ UNCHANGED indexLast
  /\ pc' = "begin"
  /\ UNCHANGED <<cfg, left, hookBad, sig, expired, ctxErr, out, rmFailed, owned, waitRes,
                 cmdErr, ctrVars, status, flag, flagLost, marker, logFull, patch, worktree,
                 cliVars>>

WriteInitialStatus ==
  /\ pc = "begin"
  /\ \/ status' = Recorded("running") /\ pc' = "logs" /\ UNCHANGED cmdErr
     \/ DiskFails /\ RunReturnsError /\ UNCHANGED status
  /\ UNCHANGED <<cfg, left, hookBad, sig, expired, ctxErr, out, rmFailed, owned, waitRes,
                 ctrVars, flag, flagLost, marker, logFull, patch, indexLast, worktree, cliVars>>

\* Logs that cannot be opened leave "running" behind.
OpenLogs ==
  /\ pc = "logs"
  /\ \/ pc' = (IF cfg.interactive THEN AfterBootstrap ELSE "session") /\ UNCHANGED cmdErr
     \/ DiskFails /\ RunReturnsError
  /\ UNCHANGED <<cfg, left, hookBad, sig, expired, ctxErr, out, rmFailed, owned, waitRes,
                 ctrVars, evVars, worktree, cliVars>>

\* tmux new-session under the CLI context.  A failure ends the run at once:
\* no diff evidence, no cleanup.
StartSession ==
  /\ pc = "session"
  /\ \/ /\ sig = "none"
        /\ pc' = AfterBootstrap
        /\ UNCHANGED out
     \/ /\ sig # "none" \/ "tmux" \in Faults
        /\ pc' = "finish"
        /\ out' = "failed"
  /\ UNCHANGED <<cfg, left, hookBad, sig, expired, ctxErr, rmFailed, owned, waitRes, cmdErr,
                 ctrVars, evVars, worktree, cliVars>>

\* The error of writing timeout.flag is ignored, wherever it is written: the
\* timeout stands without the flag.
WriteTimeoutFlag ==
  \/ flag' = TRUE /\ UNCHANGED flagLost
  \/ DiskFails /\ flagLost' = TRUE /\ UNCHANGED flag

\* runHook refuses to launch a command under a context that is over.
StartPreHook ==
  /\ pc = "pre"
  /\ pc' = IF FreshCtx = "live" THEN "preRun" ELSE "finish"
  /\ out' = CASE FreshCtx = "deadline" -> "timeout"
              [] FreshCtx = "canceled" -> "failed"
              [] OTHER -> out
  /\ IF FreshCtx = "deadline" THEN WriteTimeoutFlag ELSE UNCHANGED <<flag, flagLost>>
  /\ UNCHANGED <<cfg, left, hookBad, sig, expired, ctxErr, rmFailed, owned, waitRes, cmdErr,
                 ctrVars, status, marker, logFull, patch, indexLast, worktree, cliVars>>

\* A pre-hook that runs into the deadline is a timeout whatever it exits
\* with; a cancelled one counts by its exit status.  Its output went to
\* runner.log, under the log's cap.
FinishPreHook ==
  /\ pc = "preRun"
  /\ \E o \in HookOutput :
       /\ marker' = (marker \/ (o = "mentions" /\ ~logFull))
       /\ logFull' = (logFull \/ o = "fills")
  /\ \/ /\ ctxErr = "deadline"
        /\ pc' = "finish"
        /\ out' = "timeout"
        /\ WriteTimeoutFlag
        /\ UNCHANGED left
     \/ /\ ctxErr # "deadline"
        /\ pc' = "finish"
        /\ out' = "failed"
        /\ UNCHANGED <<left, flag, flagLost>>
     \/ /\ ctxErr # "deadline"
        /\ left' = left - 1
        /\ pc' = IF left = 1 THEN "create" ELSE "pre"
        /\ UNCHANGED <<out, flag, flagLost>>
  /\ ReleaseCtx
  /\ UNCHANGED <<cfg, hookBad, sig, expired, rmFailed, owned, waitRes, cmdErr, ctrVars,
                 status, patch, indexLast, worktree, cliVars>>

-----------------------------------------------------------------------------
(* The supervisor: the agent process.                                      *)

\* Process.Start returned an error: the outcome is failed, exit 1, and the
\* verify hooks are skipped.
StartFailed == out' = "failed" /\ pc' = "diff" /\ ReleaseCtx

BeginCreate ==
  /\ pc = "create"
  /\ IF ProcessCtx = "live" THEN pc' = "creating" /\ UNCHANGED <<out, ctxErr>> ELSE StartFailed
  /\ UNCHANGED <<cfg, left, hookBad, sig, expired, rmFailed, owned, waitRes, cmdErr,
                 ctrVars, evVars, worktree, cliVars>>

\* docker create: when its CLI is killed by the context the daemon may have
\* created the container already, and Process.created stays false.
CreateContainer ==
  /\ pc = "creating"
  /\ \/ /\ container' = "created"
        /\ owned' = TRUE
        /\ pc' = "start"
        /\ UNCHANGED <<out, ctxErr>>
     \/ /\ ctxErr # "live" \/ "docker" \in Faults
        /\ container' \in {"absent", "created"}
        /\ StartFailed
        /\ UNCHANGED owned
  /\ UNCHANGED <<cfg, left, hookBad, sig, expired, rmFailed, waitRes, cmdErr, exitCode,
                 evVars, worktree, cliVars>>

\* docker start; on failure, which may come after the daemon has started the
\* container, it is removed on a background context, best effort.
StartContainer ==
  /\ pc = "start"
  /\ \/ /\ ctxErr = "live"
        /\ container = "created"
        /\ container' = "running"
        /\ pc' = "mark"
        /\ UNCHANGED <<owned, out, ctxErr>>
     \/ /\ ctxErr # "live" \/ container # "created" \/ "docker" \in Faults
        /\ \/ container' = "absent" /\ owned' = FALSE
           \/ /\ "docker" \in Faults
              /\ \/ UNCHANGED container
                 \/ container = "created" /\ container' = "running"
              /\ UNCHANGED owned
        /\ StartFailed
  /\ UNCHANGED <<cfg, left, hookBad, sig, expired, rmFailed, waitRes, cmdErr, exitCode,
                 evVars, worktree, cliVars>>

\* "starting process" goes to runner.log once Start has returned; a full
\* log drops the line.
MarkStarted ==
  /\ pc = "mark"
  /\ marker' = (marker \/ ~logFull)
  /\ pc' = "select"
  /\ UNCHANGED <<cfg, left, hookBad, sig, expired, ctxErr, out, rmFailed, owned, waitRes,
                 cmdErr, ctrVars, status, flag, flagLost, logFull, patch, indexLast, worktree,
                 cliVars>>

\* The goroutine that runs Process.Wait: a container removed under it makes
\* docker wait fail, unless docker wait had the exit status already; and
\* docker wait may fail of itself, even while the container runs.
WaitReturns ==
  /\ pc \in {"select", "term", "kill"}
  /\ waitRes = NoCode
  /\ \/ container = "exited" /\ waitRes' = exitCode
     \/ /\ container = "absent"
        /\ \/ waitRes' = WaitFailed
           \/ exitCode # NoCode /\ waitRes' = exitCode
     \/ "docker" \in Faults /\ waitRes' = WaitFailed
  /\ UNCHANGED <<cfg, pc, left, hookBad, sig, expired, ctxErr, out, rmFailed, owned, cmdErr,
                 ctrVars, evVars, worktree, cliVars>>

\* After an agent that ended well: all the verify hooks are still to run.
ToVerifyKeepingLeft == pc' = (IF cfg.verify > 0 THEN "verify" ELSE "diff") /\ UNCHANGED left
ToVerify == pc' = (IF cfg.verify > 0 THEN "verify" ELSE "diff") /\ left' = cfg.verify

AgentFinished ==
  /\ pc = "select"
  /\ waitRes # NoCode
  /\ IF waitRes = 0
     THEN ToVerify /\ UNCHANGED out
     ELSE /\ pc' = "diff"
          /\ out' = "failed"
          /\ UNCHANGED left
  /\ waitRes' = NoCode
  /\ ReleaseCtx
  /\ UNCHANGED <<cfg, hookBad, sig, expired, rmFailed, owned, cmdErr,
                 ctrVars, evVars, worktree, cliVars>>

\* The deadline, or for an interactive run the activity timer, ends the
\* wait.  timeout.flag is written before SIGTERM is sent.
AgentTimedOut ==
  /\ pc = "select"
  /\ cfg.interactive \/ ctxErr = "deadline"
  /\ WriteTimeoutFlag
  /\ out' = "timeout"
  /\ pc' = "term"
  /\ ReleaseCtx
  /\ UNCHANGED <<cfg, left, hookBad, sig, expired, rmFailed, owned, waitRes, cmdErr,
                 ctrVars, status, marker, logFull, patch, indexLast, worktree, cliVars>>

\* The CLI context was cancelled by a signal: SIGTERM goes to the container
\* and the signal names the outcome.
AgentCancelled ==
  /\ pc = "select"
  /\ ctxErr = "canceled"
  /\ out' = sig
  /\ pc' = "term"
  /\ ReleaseCtx
  /\ UNCHANGED <<cfg, left, hookBad, sig, expired, rmFailed, owned, waitRes, cmdErr,
                 ctrVars, evVars, worktree, cliVars>>

\* After SIGTERM the container exits within the grace period, or SIGKILL is
\* sent and the container gets five more seconds.
Escalate ==
  /\ \/ /\ pc = "term"
        /\ waitRes # NoCode
        /\ pc' = "diff"
        /\ waitRes' = NoCode
        /\ UNCHANGED ctrVars
     \/ /\ pc = "term"
        /\ pc' = "kill"
        /\ UNCHANGED waitRes
        /\ \/ /\ container = "running"
              /\ container' = "exited"
              /\ exitCode' = 137
           \/ /\ container # "running" \/ "docker" \in Faults
              /\ UNCHANGED ctrVars
     \/ /\ pc = "kill"
        /\ pc' = "diff"
        /\ waitRes' = NoCode
        /\ UNCHANGED ctrVars
  /\ UNCHANGED <<cfg, left, hookBad, sig, expired, ctxErr, out, rmFailed, owned, cmdErr,
                 evVars, worktree, cliVars>>

-----------------------------------------------------------------------------
(* The supervisor: verify hooks, evidence, cleanup and the final status.   *)

\* Verify hooks all run: a failure is remembered, a timeout ends the phase.
AfterVerifyHook(bad) ==
  /\ hookBad' = (hookBad \/ bad)
  /\ left' = left - 1
  /\ pc' = IF left = 1 THEN "diff" ELSE "verify"
  /\ out' = IF left = 1 /\ (hookBad \/ bad) THEN "failed" ELSE out
  /\ UNCHANGED <<flag, flagLost>>

VerifyTimedOutUnflagged ==
  /\ UNCHANGED <<flag, flagLost, hookBad, left>>
  /\ out' = "timeout"
  /\ pc' = "diff"
VerifyTimedOut ==
  /\ WriteTimeoutFlag
  /\ out' = "timeout"
  /\ pc' = "diff"
  /\ UNCHANGED <<hookBad, left>>

StartVerifyHook ==
  /\ pc = "verify"
  /\ CASE FreshCtx = "live" ->
            pc' = "verifyRun" /\ UNCHANGED <<hookBad, left, out, flag, flagLost>>
       [] FreshCtx = "deadline" -> VerifyTimedOut
       [] FreshCtx = "canceled" -> AfterVerifyHook(TRUE)
  /\ UNCHANGED <<cfg, sig, expired, ctxErr, rmFailed, owned, waitRes, cmdErr, ctrVars, status,
                 marker, logFull, patch, indexLast, worktree, cliVars>>

FinishVerifyHook ==
  /\ pc = "verifyRun"
  /\ \/ ctxErr = "deadline" /\ VerifyTimedOut
     \/ ctxErr # "deadline" /\ \E bad \in BOOLEAN : AfterVerifyHook(bad)
  /\ ReleaseCtx
  /\ UNCHANGED <<cfg, sig, expired, rmFailed, owned, waitRes, cmdErr, ctrVars, status,
                 marker, logFull, patch, indexLast, worktree, cliVars>>

\* Neither a failed diff nor a failed removal masks an outcome that is not
\* success already.
DowngradeNever(o) == o
Downgrade(o) == IF o = "success" THEN "failed" ELSE o

\* git diff runs under the CLI context, in the worktree.  No change leaves
\* no artifact.
WriteDiffArtifacts ==
  /\ pc = "diff"
  /\ pc' = "cleanup"
  /\ \/ /\ sig = "none"
        /\ worktree # "removed"
        /\ patch' = (worktree = "dirty")
        /\ UNCHANGED out
     \/ /\ sig # "none" \/ worktree = "removed" \/ "git" \in Faults
        /\ out' = Downgrade(out)
        /\ UNCHANGED patch
  /\ UNCHANGED <<cfg, left, hookBad, sig, expired, ctxErr, rmFailed, owned, waitRes, cmdErr,
                 ctrVars, status, flag, flagLost, marker, logFull, indexLast, worktree,
                 cliVars>>

\* docker rm -f under its own 30 s bound; nothing to do for a container the
\* Process does not know it created.  A failed rm may have removed it.
CleanupContainer ==
  /\ pc = "cleanup"
  /\ pc' = "finish"
  /\ \/ /\ owned
        /\ container' = "absent"
        /\ owned' = FALSE
        /\ UNCHANGED <<out, rmFailed>>
     \/ /\ ~owned
        /\ UNCHANGED <<container, owned, out, rmFailed>>
     \/ /\ owned
        /\ "docker" \in Faults
        /\ container' \in {container, "absent"}
        /\ rmFailed' = TRUE
        /\ out' = Downgrade(out)
        /\ UNCHANGED owned
  /\ UNCHANGED <<cfg, left, hookBad, sig, expired, ctxErr, waitRes, cmdErr, exitCode,
                 evVars, worktree, cliVars>>

\* Written or not, Run is over.  A user who started the run with --attach may
\* still be in its tmux session then; who did is told only here, for nothing
\* before depends on it.
WriteTerminalStatus ==
  /\ pc = "finish"
  /\ \/ status' = [state |-> out, cleanupErr |-> rmFailed] /\ UNCHANGED cmdErr
     \/ DiskFails /\ cmdErr' = TRUE /\ UNCHANGED status
  /\ pc' \in {"attached", "index"}
  /\ UNCHANGED <<cfg, left, hookBad, sig, expired, ctxErr, out, rmFailed, owned, waitRes,
                 ctrVars, flag, flagLost, marker, logFull, patch, indexLast, worktree, cliVars>>

\* attachWhenSessionReady returns the run's error, or else the attach's own:
\* tmux failed, or a signal ended it.
EndAttach ==
  /\ pc = "attached"
  /\ pc' = "index"
  /\ \/ UNCHANGED cmdErr
     \/ out = "success" /\ cmdErr' = TRUE
  /\ UNCHANGED <<cfg, left, hookBad, sig, expired, ctxErr, out, rmFailed, owned, waitRes,
                 ctrVars, evVars, worktree, cliVars>>

\* The final index entry copies whatever state status.json holds now; it is
\* skipped, with a warning, when there is none or the index is not writable.
AppendFinalIndexEntry ==
  /\ pc = "index"
  /\ \/ status.state # "none" /\ indexLast' = status.state
     \/ (status.state = "none" \/ DiskFails) /\ UNCHANGED indexLast
  /\ pc' = "unwind"
  /\ UNCHANGED <<cfg, left, hookBad, sig, expired, ctxErr, out, rmFailed, owned, waitRes,
                 cmdErr, ctrVars, status, flag, flagLost, marker, logFull, patch, worktree,
                 cliVars>>

\* The deferred worktree cleanup of newRunCmd, skipped when the command
\* succeeds.  Its own failure is a warning.
KeepsWorktree == out = "success" /\ ~cmdErr

UnwindRun ==
  /\ pc = "unwind"
  /\ pc' = "done"
  /\ IF KeepsWorktree
     THEN UNCHANGED worktree
     ELSE worktree' = "removed" \/ ("git" \in Faults /\ UNCHANGED worktree)
  /\ UNCHANGED <<cfg, left, hookBad, sig, expired, ctxErr, out, rmFailed, owned, waitRes,
                 cmdErr, ctrVars, evVars, cliVars>>

SupervisorStep ==
  \/ AppendRunningIndexEntry \/ WriteInitialStatus \/ OpenLogs \/ StartSession
  \/ StartPreHook \/ FinishPreHook
  \/ BeginCreate \/ CreateContainer \/ StartContainer \/ MarkStarted
  \/ WaitReturns \/ AgentFinished \/ AgentTimedOut \/ AgentCancelled \/ Escalate
  \/ StartVerifyHook \/ FinishVerifyHook
  \/ WriteDiffArtifacts \/ CleanupContainer \/ WriteTerminalStatus
  \/ EndAttach \/ AppendFinalIndexEntry \/ UnwindRun

-----------------------------------------------------------------------------
(* What happens to the supervisor: time, signals and sudden death.         *)

\* The operation under way has a context of its own; an interactive agent's
\* has no deadline.
InContext == pc \in {"preRun", "creating", "start", "mark", "select", "verifyRun"}
AnyAgentContext == pc \in {"creating", "start", "mark", "select"}
InAgentContext == cfg.interactive /\ pc \in {"creating", "start", "mark", "select"}

\* After the verify hooks neither time nor signals can change anything but
\* the diff, which a signal still stops, and the attach, which may fail anyway.
BeforeEvidence ==
  ~SupervisorGone /\ pc \notin {"cleanup", "finish", "attached", "index", "unwind"}

\* --timeout elapses, counted from just before the pre-hooks.
DeadlinePasses ==
  /\ BeforeEvidence
  /\ pc \notin {"enroll", "begin", "logs", "session"}
  /\ ~expired
  /\ expired' = TRUE
  /\ ctxErr' = IF InContext /\ ~InAgentContext /\ ctxErr = "live" THEN "deadline" ELSE ctxErr
  /\ UNCHANGED <<cfg, pc, left, hookBad, sig, out, rmFailed, owned, waitRes, cmdErr, ctrVars,
                 evVars, worktree, cliVars>>

\* The first SIGINT or SIGTERM cancels the CLI context; later ones are
\* swallowed by newSignalContext.
SignalArrives(s) ==
  /\ "signal" \in Faults
  /\ BeforeEvidence
  /\ sig = "none"
  /\ sig' = s
  /\ ctxErr' = IF InContext /\ ctxErr = "live" THEN "canceled" ELSE ctxErr
  /\ UNCHANGED <<cfg, pc, left, hookBad, expired, out, rmFailed, owned, waitRes, cmdErr,
                 ctrVars, evVars, worktree, cliVars>>

\* SIGKILL, a panic or a reboot takes the supervisor and its memory away;
\* Docker and the files stay as they are.
Crash ==
  /\ "crash" \in Faults
  /\ ~SupervisorGone
  /\ pc' = "crashed"
  /\ left' = 0
  /\ hookBad' = FALSE
  /\ expired' = FALSE
  /\ ctxErr' = "live"
  /\ out' = "success"
  /\ rmFailed' = FALSE
  /\ owned' = FALSE
  /\ waitRes' = NoCode
  /\ UNCHANGED <<cfg, sig, cmdErr, ctrVars, evVars, worktree, cliVars>>

-----------------------------------------------------------------------------
(* The agent in its container (external).                                  *)

AgentEdits ==
  /\ container = "running"
  /\ worktree = "clean"
  /\ worktree' = "dirty"
  /\ UNCHANGED <<cfg, supVars, ctrVars, evVars, cliVars>>

AgentExits(code) ==
  /\ container = "running"
  /\ container' = "exited"
  /\ exitCode' = code
  /\ UNCHANGED <<cfg, supVars, evVars, worktree, cliVars>>

\* docker prune, or a manual docker rm of a container that is not running.
Prune ==
  /\ "prune" \in Faults
  /\ container \in {"created", "exited"}
  /\ container' = "absent"
  /\ UNCHANGED <<cfg, supVars, exitCode, evVars, worktree, cliVars>>

-----------------------------------------------------------------------------
(* The reconcilers.                                                        *)

Goto(c, label) == cpc' = [cpc EXCEPT ![c] = label]

\* The command is over and forgets what it has read.
Leave(c) ==
  /\ Goto(c, "idle")
  /\ view' = [view EXCEPT ![c] = NoStatus]
  /\ snap' = [snap EXCEPT ![c] = "none"]

\* ReconcileRun returns: to attach, which ends, or to promote.
Return(c) ==
  IF c \in Promoters
  THEN /\ Goto(c, "decide")
       /\ snap' = [snap EXCEPT ![c] = "none"]
       /\ UNCHANGED view
  ELSE Leave(c)

\* promote.Run reads the status itself and reconciles only a run that is
\* not terminal.
PromoteReadStatus(c) ==
  /\ c \in Promoters
  /\ status.state # "none"
  /\ IF IsTerminal(status.state)
     THEN Goto(c, "decide") /\ view' = [view EXCEPT ![c] = status]
     ELSE Goto(c, "reconcile") /\ UNCHANGED view
  /\ UNCHANGED <<cfg, supVars, ctrVars, evVars, worktree, snap, branch>>

ReadRunStatus(c) ==
  /\ \/ c \in Attachers /\ cpc[c] = "idle"
     \/ cpc[c] = "reconcile"
  /\ status.state # "none"
  /\ view' = [view EXCEPT ![c] = status]
  /\ Goto(c, IF IsTerminal(status.state) THEN "index" ELSE "inspect")
  /\ UNCHANGED <<cfg, supVars, ctrVars, evVars, worktree, snap, branch>>

\* A running container, and one that was created and never ran, mean a live
\* run: promote then refuses and attach goes on to the tmux session.
ShowsLifeIfThere == container # "absent"
ShowsLife == container \in {"running", "created"}

InspectContainer(c) ==
  /\ cpc[c] = "inspect"
  /\ IF ShowsLife
     THEN Leave(c)
     ELSE /\ snap' = [snap EXCEPT ![c] = container]
          /\ Goto(c, IF container = "exited" THEN "flag" ELSE "marker")
          /\ UNCHANGED view
  /\ UNCHANGED <<cfg, supVars, ctrVars, evVars, worktree, branch>>

\* processStartObserved tells a container that is not there yet from one
\* that is gone.
ReadStartMarker(c) ==
  /\ cpc[c] = "marker"
  /\ IF marker THEN Goto(c, "flag") /\ UNCHANGED <<view, snap>> ELSE Leave(c)
  /\ UNCHANGED <<cfg, supVars, ctrVars, evVars, worktree, branch>>

\* inferReconciledState, and the fail-closed rule for a vanished container.
OutcomeOfExit ==
  CASE exitCode = 0 -> "success"
    [] exitCode = 130 -> "interrupted"
    [] exitCode \in {137, 143} -> "killed"
    [] OTHER -> "failed"
InferredStateTrusting(seen) ==
  IF flag THEN "timeout"
  ELSE IF seen = "absent" THEN "success"
  ELSE OutcomeOfExit
InferredStateAllKilled(seen) ==
  IF flag THEN "timeout" ELSE IF exitCode = 0 THEN "success" ELSE "killed"
InferredStateStillRunning(seen) ==
  IF seen = "absent" THEN "running" ELSE "failed"
InferredState(seen) ==
  IF flag THEN "timeout"
  ELSE IF seen = "absent" THEN "failed"
  ELSE OutcomeOfExit

InferOutcome(c) ==
  /\ cpc[c] = "flag"
  /\ view' = [view EXCEPT ![c] = Recorded(InferredState(snap[c]))]
  /\ Goto(c, "write")
  /\ UNCHANGED <<cfg, supVars, ctrVars, evVars, worktree, snap, branch>>

WriteReconciledStatusSkipped(c) ==
  /\ cpc[c] = "write"
  /\ Goto(c, "index")
  /\ UNCHANGED <<cfg, supVars, ctrVars, evVars, worktree, view, snap, branch>>
WriteReconciledStatus(c) ==
  /\ cpc[c] = "write"
  /\ status' = view[c]
  /\ Goto(c, "index")
  /\ UNCHANGED <<cfg, supVars, ctrVars, flag, flagLost, marker, logFull, patch, indexLast,
                 worktree, view, snap, branch>>

\* ensureIndexState: append unless the run's last entry has the state.
\* Module RunFiles splits the read from the append.
EnsureIndexState(c) ==
  /\ cpc[c] = "index"
  /\ indexLast' = view[c].state
  /\ Goto(c, "container")
  /\ UNCHANGED <<cfg, supVars, ctrVars, status, flag, flagLost, marker, logFull, patch,
                 worktree, view, snap, branch>>

\* cleanupTerminalRun: docker rm -f by name, whatever the container does,
\* and the worktree of a run that is not a success.
DiscardsAlways(c) == TRUE
DiscardsNever(c) == FALSE
Discards(c) == view[c].state # "success"

RemoveRunContainer(c) ==
  /\ cpc[c] = "container"
  /\ container' = "absent"
  /\ IF Discards(c)
     THEN Goto(c, "worktree") /\ UNCHANGED <<view, snap>>
     ELSE Return(c)
  /\ UNCHANGED <<cfg, supVars, exitCode, evVars, worktree, branch>>

RemoveRunWorktree(c) ==
  /\ cpc[c] = "worktree"
  /\ worktree' = "removed"
  /\ Return(c)
  /\ UNCHANGED <<cfg, supVars, ctrVars, evVars, branch>>

\* promote.Run after the status checks, up to the creation of the branch,
\* as one step.  Each promotion asks for a branch name of its own and is
\* refused when that name is taken: a run can be promoted again.
PromotableDespiteError(c) == patch
Promotable(c) == ~view[c].cleanupErr /\ patch

DecidePromotion(c) ==
  /\ cpc[c] = "decide"
  /\ \/ Promotable(c) /\ branch' = view[c].state
     \/ UNCHANGED branch
  /\ Leave(c)
  /\ UNCHANGED <<cfg, supVars, ctrVars, evVars, worktree>>

\* A docker or git call fails, or the command is interrupted: it ends where
\* it is and what it has done stays done.
GiveUp(c) ==
  /\ "client" \in Faults
  /\ cpc[c] # "idle"
  /\ Leave(c)
  /\ UNCHANGED <<cfg, supVars, ctrVars, evVars, worktree, branch>>

BeginClient(c) == cpc[c] = "idle" /\ (PromoteReadStatus(c) \/ ReadRunStatus(c))

ContinueClient(c) ==
  \/ cpc[c] # "idle" /\ ReadRunStatus(c)
  \/ InspectContainer(c) \/ ReadStartMarker(c) \/ InferOutcome(c)
  \/ WriteReconciledStatus(c) \/ EnsureIndexState(c)
  \/ RemoveRunContainer(c) \/ RemoveRunWorktree(c) \/ DecidePromotion(c)

-----------------------------------------------------------------------------
(* Specifications.                                                         *)

Environment ==
  \/ DeadlinePasses
  \/ \E s \in Signals : SignalArrives(s)
  \/ Crash
  \/ AgentEdits
  \/ \E code \in ExitCodes : AgentExits(code)
  \/ Prune

\* attach and promote are used at any time, several at once.
Next ==
  \/ SupervisorStep
  \/ Environment
  \/ \E c \in Clients : BeginClient(c) \/ ContinueClient(c) \/ GiveUp(c)

Spec == Init /\ [][Next]_vars

\* attach and promote are used one at a time, on a run whose supervisor has
\* returned or died.
NoneActive == \A c \in Clients : cpc[c] = "idle"

SequentialNext ==
  \/ SupervisorStep
  \/ Environment
  \/ \E c \in Clients :
       \/ SupervisorGone /\ NoneActive /\ BeginClient(c)
       \/ ContinueClient(c)
       \/ GiveUp(c)

SequentialSpec == Init /\ [][SequentialNext]_vars

\* A hook that its context has not stopped may hang; so may an agent, and
\* nothing ends the wait for it but its context, which for an interactive
\* agent limits its active time only; and the user of --attach may stay in
\* the tmux session after the run.
\* Everything else the supervisor does comes to an end: docker and git
\* commands return and the waits have timers.
MayHang ==
  \/ pc = "attached"
  \/ pc \in {"preRun", "verifyRun"} /\ ctxErr = "live"
  \/ pc = "select" /\ container = "running" /\ waitRes = NoCode /\ ctxErr = "live"

SupervisorFairness ==
  /\ WF_vars(SupervisorStep /\ ~MayHang)
  /\ WF_vars(DeadlinePasses)

\* Users keep attaching to the run and their commands run to completion.
ClientFairness ==
  /\ \A c \in Attachers : WF_vars(SupervisorGone /\ NoneActive /\ BeginClient(c))
  /\ \A c \in Clients : WF_vars(ContinueClient(c))

FairSpec == SequentialSpec /\ SupervisorFairness /\ ClientFairness

-----------------------------------------------------------------------------
(* Properties of every use, concurrent attach and promote included.        *)

\* Whoever recorded it, a success means that the agent exited with 0: a
\* container that was never started, vanished or was killed is not read as
\* a success (runner.go:318, reconcile.go:91-109).
SuccessNeedsExitZero == status.state = "success" => exitCode = 0

\* A timeout is recorded only by someone who saw timeout.flag, or who wrote
\* it; the flag is missing then only if that write failed, for its error is
\* ignored (runner.go:157, 189, 321, 488).
TimeoutNeedsFlag == status.state = "timeout" => flag \/ flagLost

\* killed and interrupted have a cause: a signal to the supervisor, or an
\* exit status that stands for one.
SignalledOutcomeHasCause ==
  status.state \in Signals => sig # "none" \/ exitCode \in {130, 137, 143}

\* Once a run is terminal nobody makes it run again, however late the
\* writer (runner.go:111, reconcile.go:122).
NeverRunsAgain ==
  [][IsTerminal(status.state) => IsTerminal(status'.state)]_status

-----------------------------------------------------------------------------
(* Properties of sequential use.                                           *)

\* The run keeps the promise of module RunRecord.
Record == INSTANCE RunRecord WITH
  state <- status.state,
  blocked <- status.cleanupErr,
  tree <- IF worktree = "removed" THEN "removed" ELSE "kept",
  failed <- cmdErr,
  promoted <- branch

RefinesRunRecord == Record!Spec

\* The index may lag behind status.json, it never names another terminal
\* state (T-085: status.json and index.jsonl must agree).
IndexNeverDisagrees == IsTerminal(indexLast) => indexLast = status.state

\* A terminal run that has a timeout.flag is a timeout, and the other way
\* round unless writing the flag failed; also when the supervisor died
\* between the flag and the status.
FlagMatchesTimeout ==
  IsTerminal(status.state) =>
    /\ flag => status.state = "timeout"
    /\ status.state = "timeout" => flag \/ flagLost

\* A run recorded as a success, whose command did not fail of itself, keeps
\* its worktree and has, unless its supervisor died, its edits in diff.patch;
\* its supervisor has left no container behind.
SuccessIsComplete ==
  (status.state = "success" /\ ~cmdErr) =>
    /\ worktree # "removed"
    /\ pc # "crashed" => (worktree = "dirty" => patch)
    /\ pc = "done" => container = "absent"

\* What is promoted is the work of an agent that is no longer at it: a diff
\* taken while the container still ran (SIGKILL went unanswered) does not
\* become a branch before the container is gone.
PromotedAgentIsGone == branch # "none" => container # "running"

\* A detached run ends on its own: hooks, agent and cleanup together are
\* bounded by --timeout and --grace.  Only its user may stay attached to it.
DetachedRunEnds ==
  (pc # "enroll" /\ ~cfg.interactive) ~> SupervisorGone \/ pc = "attached"

\* An orphan whose agent has exited is given a terminal state by the users
\* who keep attaching to it, as long as nobody prunes the container.
ExitedOrphanResolved ==
  (pc = "crashed" /\ status.state = "running" /\ container = "exited")
    ~> IsTerminal(status.state)

\* A terminal run gives its container up, whoever ended it and whatever the
\* supervisor forgot, and its worktree too unless it is a success; the
\* index catches up with the status.  A run its user is attached to waits.
TerminalRunReleased ==
  (IsTerminal(status.state) /\ pc # "attached") ~>
    /\ container = "absent"
    /\ status.state # "success" => worktree = "removed"
    /\ indexLast = status.state

-----------------------------------------------------------------------------
(* What the documentation says and the code does not do.                   *)

\* runner.go:72-73: killed runs must still emit diff evidence when changes
\* exist.
CancelledRunKeepsDiff ==
  (pc = "finish" /\ out \in Signals /\ worktree = "dirty") => patch

\* runner.go:287-290: the start marker distinguishes a container about to be
\* created from one that was pruned, so a run whose agent works is live.
WorkingRunIsLive ==
  (pc = "select" /\ container = "running") => status.state = "running"

=============================================================================
