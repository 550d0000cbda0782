-------------------------- MODULE RunCommandProofs --------------------------
(***************************************************************************)
(* Theorems about the `tessariq run' command around the runner.            *)
(***************************************************************************)
EXTENDS RunCommand, SequenceTheorems, TLAPS

-----------------------------------------------------------------------------
(* Calls that may fail.                                                    *)

\* A call that is not made under a deadline succeeds, or its failure counts.
LEMMA BackgroundOutcome ==
  ASSUME failures \in 0..MaxFailures,
         NEW r \in BackgroundResults, Count(r, FALSE)
  PROVE  /\ failures' \in 0..MaxFailures /\ failures <= failures'
         /\ failures > 0 => failures' > 0
         /\ r \in {"ok", "undone"}
         /\ r = "undone" => failures' > 0
<1>1. "none" \notin Faults
  BY FaultsAssumption
<1>2. r \in {"ok", "undone"} /\ (r = "undone" => failures < MaxFailures)
  BY <1>1 DEF BackgroundResults, Results
<1>3. failures' = IF r = "undone" THEN failures + 1 ELSE failures
  BY DEF Count
<1> QED
  <2>1. failures \in Nat /\ MaxFailures \in Nat
    BY BoundsAssumption
  <2> QED
    BY <1>2, <1>3, <2>1

\* A call under the command's context that does not succeed has failed of
\* itself, which counts, or a signal has arrived by the time it returns.
LEMMA CommandOutcome ==
  ASSUME failures \in 0..MaxFailures, sig \in BOOLEAN,
         NEW r \in CommandResults, Count(r, sig), Cut(r)
  PROVE  /\ failures' \in 0..MaxFailures /\ failures <= failures'
         /\ sig' \in BOOLEAN /\ (sig => sig')
         /\ r \in {"ok", "half", "undone"}
         /\ r # "ok" => sig' \/ failures' > 0
         /\ r = "half" => sig'
         /\ failures' = 0 => failures = 0
<1>1. r \in {"ok", "half", "undone"} /\ (r = "undone" => sig \/ failures < MaxFailures)
  BY DEF CommandResults, Results
<1>2. failures' = IF r = "undone" /\ ~sig THEN failures + 1 ELSE failures
  BY DEF Count
<1>3. sig' \in BOOLEAN /\ (sig => sig') /\ (r = "half" => sig')
  BY DEF Cut
<1>4. failures' \in 0..MaxFailures /\ failures <= failures'
  BY <1>1, <1>2, BoundsAssumption
<1>5. r = "undone" => sig \/ failures' > 0
  BY <1>2, BoundsAssumption
<1>6. failures' = 0 => failures = 0
  BY <1>4, BoundsAssumption
<1> QED
  BY <1>1, <1>3, <1>4, <1>5, <1>6

\* The same of a call under the deadline of Teardown.
LEMMA TeardownOutcome ==
  ASSUME failures \in 0..MaxFailures, late \in BOOLEAN,
         NEW r \in TeardownResults, Count(r, late)
  PROVE  /\ failures' \in 0..MaxFailures /\ failures <= failures'
         /\ r \in {"ok", "half", "undone"}
         /\ (late \/ r = "half") \in BOOLEAN
<1>1. r \in {"ok", "half", "undone"} /\ (r = "undone" => late \/ failures < MaxFailures)
  BY DEF TeardownResults, Results
<1>2. failures' = IF r = "undone" /\ ~late THEN failures + 1 ELSE failures
  BY DEF Count
<1> QED
  BY <1>1, <1>2, BoundsAssumption

-----------------------------------------------------------------------------
(* Types.                                                                  *)

\* A Teardown that has met no error has extracted the evidence by the time it
\* stops Squid: what it latches on.  What has been extracted it skips.
TypeInv ==
  /\ TypeOK
  /\ pc \in {"events", "squidLog"} => ~extracted
  /\ pc \in {"stop", "rmNetwork"} /\ ~erred => extracted

\* What the configuration is when the command starts.
LEMMA InvocationTypes ==
  ASSUME NEW i \in Invocations
  PROVE  /\ i.options \in Options
         /\ i.home.files \subseteq AuthFiles(i.options.agent) \cup StateFiles(i.options.agent)
         /\ i.home.configDir \in ConfigDirStates
BY InvocationsAssumption DEF Homes

LEMMA InitTypeInv == Init => TypeInv
<1> SUFFICES ASSUME Init PROVE TypeInv
  OBVIOUS
<1>1. /\ options \in Options
      /\ home.files \subseteq AuthFiles(options.agent) \cup StateFiles(options.agent)
      /\ home.configDir \in ConfigDirStates
  <2>1. PICK i \in Invocations : options = i.options /\ home = i.home
    BY DEF Init
  <2> QED
    BY <2>1, InvocationTypes
<1>2. cache \in CacheStates
  BY DEF Init, CacheStates
<1>3. failures \in 0..MaxFailures
  BY BoundsAssumption DEF Init
<1> QED
  BY <1>1, <1>2, <1>3 DEF Init, TypeInv, TypeOK, Pcs, NoFile

\* Acquiring keeps the types.
LEMMA AcquiringTypes ==
  ASSUME TypeInv,
         \/ ResolveOptions \/ Bootstrap \/ WriteCompiledYAML \/ CreateNetwork \/ CreateSquid
         \/ StartSquid \/ UndoSquid \/ UndoNetwork \/ DiscoverMounts \/ ProbeImage \/ Provision
         \/ PrepareRuntimeState \/ UpdateAgent \/ SkipUpdate \/ OtherWritesCache \/ Assemble
  PROVE  TypeInv'
<1> USE DEF TypeInv, TypeOK, Pcs, SetupPcs, TeardownPcs, Unwind, settled, cmdVars, faultVars,
            dockerVars, logs, fileVars
<1>1. CASE ResolveOptions \/ DiscoverMounts
  <2>1. pc' \in {"done", "bootstrap", "dropScratch", "probe"}
    BY <1>1 DEF ResolveOptions, DiscoverMounts
  <2>2. UNCHANGED <<settled, cmdVars, faultVars, dockerVars, logs, fileVars>>
    BY <1>1 DEF ResolveOptions, DiscoverMounts
  <2> QED
    BY <2>1, <2>2
<1>2. CASE Bootstrap
  <2>1. PICK r \in BackgroundResults : Count(r, FALSE)
    BY <1>2 DEF Bootstrap
  <2>2. failures' \in 0..MaxFailures
    BY <2>1, BackgroundOutcome
  <2> QED
    BY <1>2, <2>2 DEF Bootstrap
<1>3. CASE WriteCompiledYAML
  <2>1. failures' \in 0..MaxFailures
    <3>1. CASE Compiles(ResolveAllowlist(options))
      BY <1>3, <3>1, BackgroundOutcome DEF WriteCompiledYAML
    <3>2. CASE ~Compiles(ResolveAllowlist(options))
      BY <1>3, <3>2 DEF WriteCompiledYAML
    <3> QED
      BY <3>1, <3>2
  <2>2. compiled' \in BOOLEAN
    <3>1. CASE Compiles(ResolveAllowlist(options))
      <4>1. PICK r \in BackgroundResults : compiled' = Effective(r)
        BY <1>3, <3>1 DEF WriteCompiledYAML
      <4> QED
        BY <4>1 DEF Effective
    <3>2. CASE ~Compiles(ResolveAllowlist(options))
      BY <1>3, <3>2 DEF WriteCompiledYAML
    <3> QED
      BY <3>1, <3>2
  <2>3. topology' \in {topology, "failed"} /\ pc' \in {"network", Unwind}
    BY <1>3 DEF WriteCompiledYAML
  <2> QED
    BY <1>3, <2>1, <2>2, <2>3 DEF WriteCompiledYAML
<1>4. CASE CreateNetwork
  <2>1. PICK r \in CommandResults : Count(r, sig) /\ Cut(r)
    BY <1>4 DEF CreateNetwork
  <2>2. failures' \in 0..MaxFailures /\ sig' \in BOOLEAN
    BY <2>1, CommandOutcome
  <2>3. network' \in BOOLEAN /\ topology' \in {topology, "failed"} /\ pc' \in {"create", Unwind}
    BY <1>4 DEF CreateNetwork, Effective
  <2> QED
    BY <1>4, <2>2, <2>3 DEF CreateNetwork
<1>5. CASE CreateSquid
  <2>1. PICK r \in CommandResults : Count(r, sig) /\ Cut(r)
    BY <1>5 DEF CreateSquid
  <2>2. failures' \in 0..MaxFailures /\ sig' \in BOOLEAN
    BY <2>1, CommandOutcome
  <2> QED
    BY <1>5, <2>2 DEF CreateSquid
<1>6. CASE StartSquid
  <2>1. PICK r \in CommandResults : Count(r, sig) /\ Cut(r)
    BY <1>6 DEF StartSquid
  <2>2. failures' \in 0..MaxFailures /\ sig' \in BOOLEAN
    BY <2>1, CommandOutcome
  <2>3. /\ squid' \in {squid, "up"} /\ topology' \in {topology, "up"}
        /\ pc' \in {"connect", "start", "ready", "discover", "undo"}
    BY <1>6 DEF StartSquid, AfterSquidStep, SquidStepFailed
  <2> QED
    BY <1>6, <2>2, <2>3 DEF StartSquid
<1>7. CASE UndoSquid
  <2>1. PICK r \in CommandResults : Count(r, sig) /\ Cut(r)
    BY <1>7 DEF UndoSquid, SetupUndoResults
  <2>2. failures' \in 0..MaxFailures /\ sig' \in BOOLEAN
    BY <2>1, CommandOutcome
  <2>3. missed' \in Nat /\ squid' \in {squid, "absent"}
    BY <1>7 DEF UndoSquid
  <2> QED
    BY <1>7, <2>2, <2>3 DEF UndoSquid
<1>8. CASE UndoNetwork
  <2>1. PICK r \in CommandResults : Count(r, sig) /\ Cut(r)
    BY <1>8 DEF UndoNetwork, SetupUndoResults
  <2>2. failures' \in 0..MaxFailures /\ sig' \in BOOLEAN
    BY <2>1, CommandOutcome
  <2>3. missed' \in Nat
    BY <1>8 DEF UndoNetwork
  <2>4. network' \in BOOLEAN
    BY <1>8 DEF UndoNetwork, Effective
  <2> QED
    BY <1>8, <2>2, <2>3, <2>4 DEF UndoNetwork
<1>9. CASE ProbeImage
  <2>1. PICK r \in CommandResults : Count(r, sig) /\ Cut(r)
    BY <1>9 DEF ProbeImage
  <2>2. failures' \in 0..MaxFailures /\ sig' \in BOOLEAN
    BY <2>1, CommandOutcome
  <2> QED
    BY <1>9, <2>2 DEF ProbeImage
<1>10. CASE Provision
  <2>1. PICK r \in CommandResults : Count(r, sig) /\ Cut(r)
    BY <1>10 DEF Provision
  <2>2. failures' \in 0..MaxFailures /\ sig' \in BOOLEAN
    BY <2>1, CommandOutcome
  <2>3. worktree' \in BOOLEAN
    BY <1>10 DEF Provision, Effective
  <2> QED
    BY <1>10, <2>2, <2>3 DEF Provision
<1>11. CASE PrepareRuntimeState
  <2>1. PICK r \in IF NeedsScratch(Auth) THEN CommandResults ELSE {"ok"} : Count(r, sig) /\ Cut(r)
    BY <1>11 DEF PrepareRuntimeState
  <2>2. r \in CommandResults \/ r = "ok"
    BY <2>1
  <2>3. failures' \in 0..MaxFailures /\ sig' \in BOOLEAN
    <3>1. CASE r \in CommandResults
      BY <2>1, <3>1, CommandOutcome
    <3>2. CASE r = "ok"
      BY <2>1, <3>2 DEF Count, Cut
    <3> QED
      BY <2>2, <3>1, <3>2
  <2>4. scratch' \in BOOLEAN
    BY <1>11 DEF PrepareRuntimeState
  <2> QED
    BY <1>11, <2>3, <2>4 DEF PrepareRuntimeState
<1>12. CASE UpdateAgent
  <2>1. failures' \in 0..MaxFailures /\ sig' \in BOOLEAN
    BY <1>12, CommandOutcome DEF UpdateAgent
  <2>2. updated' \in BOOLEAN
    BY <1>12 DEF UpdateAgent
  <2>3. cache' \in CacheStates
    BY <1>12 DEF UpdateAgent, CacheStates
  <2> QED
    BY <1>12, <2>1, <2>2, <2>3 DEF UpdateAgent
<1>13. CASE SkipUpdate
  BY <1>13, BoundsAssumption DEF SkipUpdate
<1>14. CASE OtherWritesCache
  BY <1>14 DEF OtherWritesCache, CacheStates
<1>15. CASE Assemble
  <2>1. PICK r \in BackgroundResults : Count(r, FALSE)
    BY <1>15 DEF Assemble
  <2>2. failures' \in 0..MaxFailures
    BY <2>1, BackgroundOutcome
  <2> QED
    BY <1>15, <2>2 DEF Assemble
<1> QED
  BY <1>1, <1>2, <1>3, <1>4, <1>5, <1>6, <1>7, <1>8, <1>9, <1>10, <1>11, <1>12, <1>13, <1>14, <1>15

\* So do the run, its end and the cleanups.
LEMMA RunningTypes ==
  ASSUME TypeInv,
         \/ LaunchAgent \/ FinishRun \/ AgentRequests \/ AgentExits
         \/ DropScratch \/ DropWorktree \/ DropProxy
         \/ SignalArrives \/ TeardownIsLate \/ Crash
  PROVE  TypeInv'
<1> USE DEF TypeInv, TypeOK, Pcs, SetupPcs, TeardownPcs, Unwind, settled, cmdVars, faultVars,
            dockerVars, logs, fileVars
<1>1. CASE LaunchAgent
  <2>1. failures' \in 0..MaxFailures
    BY <1>1, BoundsAssumption DEF LaunchAgent
  <2>2. pc' \in {"run", "extract", "dropScratch"}
    BY <1>1 DEF LaunchAgent, AfterRun
  <2> QED
    BY <1>1, <2>1, <2>2 DEF LaunchAgent
<1>2. CASE FinishRun
  <2>1. failures' \in 0..MaxFailures
    <3>1. PICK uncleaned, unwritten \in BOOLEAN :
            /\ failures' = failures + (IF uncleaned THEN 1 ELSE 0) + (IF unwritten THEN 1 ELSE 0)
            /\ failures' <= MaxFailures
      BY <1>2 DEF FinishRun
    <3> QED
      BY <3>1, BoundsAssumption
  <2>2. pc' \in {"extract", "dropScratch"}
    BY <1>2 DEF FinishRun, AfterRun
  <2>3. /\ agent' \in {"absent", "running", "exited"}
        /\ status' \in {"success", "failed", "uncleaned", status}
    BY <1>2 DEF FinishRun, Outcomes
  <2>4. out' \in {"success", "error"}
    BY <1>2 DEF FinishRun, Errors
  <2> QED
    BY <1>2, <2>1, <2>2, <2>3, <2>4 DEF FinishRun
<1>3. CASE AgentRequests
  <2>1. PICK r \in RequestPool :
          log' = log \cup {[request |-> r, result |-> ResultCode(SquidConf, r)]}
    BY <1>3 DEF AgentRequests
  <2>2. ResultCode(SquidConf, r) \in {"TCP_TUNNEL", "TCP_DENIED"}
    BY DEF ResultCode
  <2>3. log \subseteq log' /\ log' \subseteq [request : RequestPool, result : {"TCP_TUNNEL", "TCP_DENIED"}]
    BY <2>1, <2>2
  <2>4. UNCHANGED <<settled, pc, cmdVars, faultVars, dockerVars, logData, fileVars>>
    BY <1>3 DEF AgentRequests
  <2>5. {DestinationOf(l) : l \in log} \subseteq {DestinationOf(l) : l \in log'}
    BY <2>3
  <2>6. logData' \subseteq log'
    BY <2>3, <2>4
  <2>7. (events = NoFile \/ (events.exists /\ events.blocked \subseteq {DestinationOf(l) : l \in log}))'
    BY <2>4, <2>5
  <2> QED
    BY <2>3, <2>4, <2>6, <2>7
<1>4. CASE AgentExits
  BY <1>4 DEF AgentExits
<1>5. CASE DropScratch
  <2>1. failures' \in 0..MaxFailures
    <3>1. CASE "scratch" \in armed
      BY <1>5, <3>1, BackgroundOutcome DEF DropScratch
    <3>2. CASE "scratch" \notin armed
      BY <1>5, <3>2 DEF DropScratch
    <3> QED
      BY <3>1, <3>2
  <2>2. scratch' \in BOOLEAN
    BY <1>5 DEF DropScratch
  <2> QED
    BY <1>5, <2>1, <2>2 DEF DropScratch
<1>6. CASE DropWorktree
  <2>1. failures' \in 0..MaxFailures
    <3>1. CASE "worktree" \in armed /\ CleansWorktree
      BY <1>6, <3>1, BackgroundOutcome DEF DropWorktree
    <3>2. CASE ~("worktree" \in armed /\ CleansWorktree)
      BY <1>6, <3>2 DEF DropWorktree
    <3> QED
      BY <3>1, <3>2
  <2>2. worktree' \in BOOLEAN
    BY <1>6 DEF DropWorktree
  <2> QED
    BY <1>6, <2>1, <2>2 DEF DropWorktree
<1>7. CASE DropProxy
  BY <1>7 DEF DropProxy
<1>8. CASE SignalArrives \/ TeardownIsLate
  <2>1. CASE SignalArrives
    BY <2>1 DEF SignalArrives
  <2>2. CASE TeardownIsLate
    BY <2>2 DEF TeardownIsLate
  <2> QED
    BY <1>8, <2>1, <2>2
<1>9. CASE Crash
  BY <1>9 DEF Crash
<1> QED
  BY <1>1, <1>2, <1>3, <1>4, <1>5, <1>6, <1>7, <1>8, <1>9

\* So does Teardown.
LEMMA TeardownTypes ==
  ASSUME TypeInv,
         CopyAccessLog \/ WriteEventsJSONL \/ CopySquidLog \/ StopSquid \/ RemoveNetwork
  PROVE  TypeInv'
<1> USE DEF TypeInv, TypeOK, Pcs, SetupPcs, TeardownPcs, Unwind, settled, cmdVars, faultVars,
            dockerVars, logs, fileVars, TeardownFailed
<1>1. CASE CopyAccessLog
  <2>1. CASE extracted
    BY <1>1, <2>1 DEF CopyAccessLog, Extracts
  <2>2. CASE ~extracted
    <3>1. PICK r \in TeardownResults :
            /\ IF r = "ok" /\ ReadableLog
               THEN pc' = "events" /\ UNCHANGED erred
               ELSE erred' = TRUE /\ pc' = "stop"
            /\ logData' = IF squid = "up" THEN log ELSE {}
            /\ Count(r, late)
            /\ CutLate(r)
      BY <1>1, <2>2 DEF CopyAccessLog, Extracts
    <3>2. failures' \in 0..MaxFailures /\ late' \in BOOLEAN
      BY <3>1, TeardownOutcome DEF CutLate
    <3>3. \/ pc' = "events" /\ UNCHANGED erred
          \/ pc' = "stop" /\ erred' = TRUE
      BY <3>1
    <3>4. logData' \subseteq log
      BY <3>1
    <3>5. UNCHANGED <<settled, armed, topology, extracted, retrying, out, sig, missed,
                      dockerVars, log, fileVars>>
      BY <1>1 DEF CopyAccessLog
    <3> QED
      <4>1. (events = NoFile \/ (events.exists /\ events.blocked \subseteq {DestinationOf(l) : l \in log}))'
        BY <3>5
      <4>2. logData' \subseteq log' /\ log' \subseteq [request : RequestPool, result : {"TCP_TUNNEL", "TCP_DENIED"}]
        BY <3>4, <3>5
      <4>3. ({extracted, retrying, erred, late, sig} \subseteq BOOLEAN)'
        BY <3>2, <3>3, <3>5
      <4>4. (/\ pc \in Pcs
             /\ pc \in {"events", "squidLog"} => ~extracted
             /\ pc \in {"stop", "rmNetwork"} /\ ~erred => extracted
             /\ topology = "down" => extracted)'
        BY <2>2, <3>3, <3>5
      <4> QED
        BY <3>2, <3>5, <4>1, <4>2, <4>3, <4>4
  <2> QED
    BY <2>1, <2>2
<1>2. CASE WriteEventsJSONL
  <2>1. PICK r \in BackgroundResults :
          /\ events' = IF r = "ok"
                      THEN [exists |-> TRUE, blocked |-> ParseSquidAccessLog(logData)]
                      ELSE events
          /\ IF r = "ok" THEN pc' = "squidLog" /\ UNCHANGED erred ELSE erred' = TRUE /\ pc' = "stop"
          /\ Count(r, FALSE)
    BY <1>2 DEF WriteEventsJSONL
  <2>2. failures' \in 0..MaxFailures
    BY <2>1, BackgroundOutcome
  <2>3. ParseSquidAccessLog(logData) \subseteq {DestinationOf(l) : l \in log}
    BY DEF ParseSquidAccessLog
  <2>4. events' = NoFile \/ (events'.exists /\ events'.blocked \subseteq {DestinationOf(l) : l \in log})
    BY <2>1, <2>3
  <2>5. log' = log
    BY <1>2 DEF WriteEventsJSONL
  <2>6. (events = NoFile \/ (events.exists /\ events.blocked \subseteq {DestinationOf(l) : l \in log}))'
    BY <2>4, <2>5
  <2>7. \/ pc' = "squidLog" /\ UNCHANGED erred
        \/ pc' = "stop" /\ erred' = TRUE
    BY <2>1
  <2>8. /\ pc = "events"
        /\ UNCHANGED <<settled, armed, topology, extracted, retrying, late, out, sig, missed,
                       dockerVars, logs, worktree, scratch, compiled, status>>
    BY <1>2 DEF WriteEventsJSONL
  <2> QED
    <3>1. (topology = "down" => extracted)' /\ ({extracted, retrying, erred, late, sig} \subseteq BOOLEAN)'
      BY <2>7, <2>8
    <3>2. /\ (pc \in Pcs)'
          /\ (pc \in {"events", "squidLog"} => ~extracted)'
          /\ (pc \in {"stop", "rmNetwork"} /\ ~erred => extracted)'
      BY <2>7, <2>8
    <3>3. /\ (log \subseteq [request : RequestPool, result : {"TCP_TUNNEL", "TCP_DENIED"}])'
          /\ (logData \subseteq log)'
      BY <2>8
    <3> QED
      BY <2>2, <2>6, <2>8, <3>1, <3>2, <3>3
<1>3. CASE CopySquidLog
  <2>1. PICK r \in BackgroundResults :
          /\ events' = IF r = "ok" THEN events ELSE NoFile
          /\ extracted' = (r = "ok")
          /\ IF r = "ok" THEN pc' = "stop" /\ UNCHANGED erred ELSE erred' = TRUE /\ pc' = "stop"
          /\ Count(r, FALSE)
    BY <1>3 DEF CopySquidLog
  <2>2. failures' \in 0..MaxFailures
    BY <2>1, BackgroundOutcome
  <2>3. (events = NoFile \/ (events.exists /\ events.blocked \subseteq {DestinationOf(l) : l \in log}))'
    BY <1>3, <2>1 DEF CopySquidLog
  <2>4. topology # "down"
    BY <1>3 DEF CopySquidLog
  <2>5. extracted' \in BOOLEAN /\ erred' \in BOOLEAN /\ pc' = "stop" /\ (~erred' => extracted')
    BY <2>1
  <2> QED
    BY <1>3, <2>2, <2>3, <2>4, <2>5 DEF CopySquidLog
<1>4. CASE StopSquid
  <2>1. PICK r \in TeardownResults :
          /\ squid' = IF Effective(r) THEN "absent" ELSE squid
          /\ erred' = (erred \/ r # "ok")
          /\ Count(r, late)
          /\ CutLate(r)
    BY <1>4 DEF StopSquid
  <2>2. failures' \in 0..MaxFailures /\ late' \in BOOLEAN
    BY <2>1, TeardownOutcome DEF CutLate
  <2>3. erred' \in BOOLEAN /\ (~erred' => ~erred) /\ squid' \in {squid, "absent"}
    BY <2>1
  <2> QED
    BY <1>4, <2>2, <2>3 DEF StopSquid
<1>5. CASE RemoveNetwork
  <2>1. PICK r \in TeardownResults :
          LET failed == erred \/ r # "ok" \/ (network /\ NetworkBusy) IN
          /\ network' = (network /\ (NetworkBusy \/ ~Effective(r)))
          /\ topology' = IF Latches(failed) THEN "down" ELSE topology
          /\ missed' = IF squid # "absent" \/ network' THEN missed + 1 ELSE missed
          /\ Count(r, late)
    BY <1>5 DEF RemoveNetwork
  <2>2. failures' \in 0..MaxFailures
    BY <2>1, TeardownOutcome
  <2>3. network' \in BOOLEAN
    BY <2>1
  <2>4. missed' \in Nat
    BY <2>1
  <2>5. topology' = topology \/ (topology' = "down" /\ extracted)
    BY <1>5, <2>1 DEF RemoveNetwork, Latches
  <2>6. pc' \in {"done", "dropScratch"} /\ erred' = FALSE /\ late' = FALSE
    BY <1>5 DEF RemoveNetwork
  <2>7. UNCHANGED <<settled, armed, extracted, retrying, out, sig, squid, agent, logs, fileVars>>
    BY <1>5 DEF RemoveNetwork
  <2>8. extracted \in BOOLEAN
    OBVIOUS
  <2> QED
    <3>1. (topology = "down" => extracted)' /\ (topology \in {"none", "up", "failed", "down"})'
      BY <2>5, <2>7
    <3>2. ({extracted, retrying, erred, late, sig} \subseteq BOOLEAN)'
      BY <2>6, <2>7
    <3>3. ({network, worktree, scratch, compiled} \subseteq BOOLEAN)'
      BY <2>3, <2>7
    <3> QED
      BY <2>2, <2>4, <2>6, <2>7, <3>1, <3>2, <3>3
<1> QED
  BY <1>1, <1>2, <1>3, <1>4, <1>5

LEMMA TypeStep ==
  ASSUME TypeInv, [Next]_vars PROVE TypeInv'
<1>1. CASE UNCHANGED vars
  BY <1>1 DEF vars, settled, cmdVars, faultVars, dockerVars, logs, fileVars, TypeInv, TypeOK
<1> QED
  BY <1>1, AcquiringTypes, RunningTypes, TeardownTypes DEF Next

\* The options stay, and what has happened to the command's calls stays so.
LEMMA CallsStep ==
  ASSUME TypeInv, [Next]_vars
  PROVE  options' = options /\ (sig => sig') /\ (failures > 0 => failures' > 0)
<1> USE DEF settled, cmdVars, faultVars, dockerVars, logs, fileVars
<1> DEFINE Grows == (sig => sig') /\ (failures > 0 => failures' > 0)
<1>0. failures \in 0..MaxFailures /\ failures \in Int /\ sig \in BOOLEAN /\ late \in BOOLEAN
  BY BoundsAssumption DEF TypeInv, TypeOK
<1>1. options' = options
  <2>1. CASE \/ ResolveOptions \/ Bootstrap \/ WriteCompiledYAML \/ CreateNetwork \/ CreateSquid
             \/ StartSquid \/ UndoSquid \/ UndoNetwork \/ DiscoverMounts \/ ProbeImage
    BY <2>1 DEF ResolveOptions, Bootstrap, WriteCompiledYAML, CreateNetwork, CreateSquid,
                StartSquid, UndoSquid, UndoNetwork, DiscoverMounts, ProbeImage
  <2>2. CASE \/ Provision \/ PrepareRuntimeState \/ UpdateAgent \/ SkipUpdate \/ OtherWritesCache
             \/ Assemble \/ LaunchAgent \/ FinishRun \/ AgentRequests \/ AgentExits
    BY <2>2 DEF Provision, PrepareRuntimeState, UpdateAgent, SkipUpdate, OtherWritesCache,
                Assemble, LaunchAgent, FinishRun, AgentRequests, AgentExits
  <2>3. CASE \/ CopyAccessLog \/ WriteEventsJSONL \/ CopySquidLog \/ StopSquid \/ RemoveNetwork
             \/ DropScratch \/ DropWorktree \/ DropProxy \/ SignalArrives \/ TeardownIsLate \/ Crash
             \/ UNCHANGED vars
    BY <2>3 DEF CopyAccessLog, WriteEventsJSONL, CopySquidLog, StopSquid, RemoveNetwork,
                DropScratch, DropWorktree, DropProxy, SignalArrives, TeardownIsLate, Crash, vars
  <2> QED
    BY <2>1, <2>2, <2>3 DEF Next
<1>2. ASSUME NEW r \in BackgroundResults, Count(r, FALSE), UNCHANGED sig PROVE Grows
  BY <1>0, <1>2, BackgroundOutcome
<1>3. ASSUME NEW r \in CommandResults, Count(r, sig), Cut(r) PROVE Grows
  <2>1. failures' \in 0..MaxFailures /\ failures <= failures' /\ (sig => sig')
    BY <1>0, <1>3, CommandOutcome
  <2> QED
    BY <1>0, <2>1, BoundsAssumption
<1>4. ASSUME NEW r \in TeardownResults, Count(r, late), UNCHANGED sig PROVE Grows
  <2>1. failures' \in 0..MaxFailures /\ failures <= failures'
    BY <1>0, <1>4, TeardownOutcome
  <2> QED
    BY <1>0, <1>4, <2>1, BoundsAssumption
<1>5. ASSUME UNCHANGED <<failures, sig>> PROVE Grows
  BY <1>5
<1> HIDE DEF Grows
<1>6. CASE Bootstrap \/ Assemble \/ WriteEventsJSONL \/ CopySquidLog
  <2>1. UNCHANGED sig /\ \E r \in BackgroundResults : Count(r, FALSE)
    BY <1>6 DEF Bootstrap, Assemble, WriteEventsJSONL, CopySquidLog
  <2> QED
    BY <1>1, <1>2, <2>1 DEF Grows
<1>7. CASE \/ CreateNetwork \/ CreateSquid \/ StartSquid \/ UndoSquid \/ UndoNetwork \/ ProbeImage
           \/ Provision
  <2>1. \E r \in CommandResults : Count(r, sig) /\ Cut(r)
    BY <1>7 DEF CreateNetwork, CreateSquid, StartSquid, UndoSquid, UndoNetwork, ProbeImage,
                Provision, SetupUndoResults
  <2> QED
    BY <1>1, <1>3, <2>1 DEF Grows
<1>8. CASE StopSquid \/ RemoveNetwork
  <2>1. UNCHANGED sig /\ \E r \in TeardownResults : Count(r, late)
    BY <1>8 DEF StopSquid, RemoveNetwork
  <2> QED
    BY <1>1, <1>4, <2>1 DEF Grows
<1>9. CASE WriteCompiledYAML \/ DropScratch \/ DropWorktree
  <2>1. /\ UNCHANGED sig
        /\ UNCHANGED failures \/ \E r \in BackgroundResults : Count(r, FALSE)
    BY <1>9 DEF WriteCompiledYAML, DropScratch, DropWorktree
  <2> QED
    BY <1>1, <1>2, <1>5, <2>1 DEF Grows
<1>10. CASE PrepareRuntimeState
  <2>1. PICK r \in IF NeedsScratch(Auth) THEN CommandResults ELSE {"ok"} : Count(r, sig) /\ Cut(r)
    BY <1>10 DEF PrepareRuntimeState
  <2>2. CASE r \in CommandResults
    BY <1>1, <1>3, <2>1, <2>2 DEF Grows
  <2>3. CASE r = "ok"
    BY <1>1, <2>1, <2>3 DEF Count, Cut, Grows
  <2> QED
    BY <2>1, <2>2, <2>3
<1>11. CASE UpdateAgent
  <2>1. UNCHANGED <<failures, sig>> \/ \E r \in CommandResults : Count(r, sig) /\ Cut(r)
    BY <1>11 DEF UpdateAgent
  <2> QED
    BY <1>1, <1>3, <1>5, <2>1 DEF Grows
<1>12. CASE CopyAccessLog
  <2>1. /\ UNCHANGED sig
        /\ UNCHANGED failures \/ \E r \in TeardownResults : Count(r, late)
    BY <1>12 DEF CopyAccessLog
  <2> QED
    BY <1>1, <1>4, <1>5, <2>1 DEF Grows
<1>13. CASE SkipUpdate \/ LaunchAgent \/ FinishRun
  BY <1>0, <1>1, <1>13 DEF SkipUpdate, LaunchAgent, FinishRun
<1>14. CASE SignalArrives
  BY <1>1, <1>14 DEF SignalArrives
<1>15. CASE \/ ResolveOptions \/ DiscoverMounts \/ OtherWritesCache \/ AgentRequests \/ AgentExits
            \/ DropProxy \/ TeardownIsLate \/ Crash \/ UNCHANGED vars
  <2>1. UNCHANGED <<failures, sig>>
    BY <1>15 DEF ResolveOptions, DiscoverMounts, OtherWritesCache, AgentRequests, AgentExits,
                 DropProxy, TeardownIsLate, Crash, vars
  <2> QED
    BY <1>1, <2>1
<1> QED
  BY <1>6, <1>7, <1>8, <1>9, <1>10, <1>11, <1>12, <1>13, <1>14, <1>15 DEF Next

\* The command keeps its types, and Teardown latches only on telemetry that
\* it has extracted (topology.go).
THEOREM TypeCorrect == Spec => []TypeOK
<1>1. TypeInv => TypeOK
  BY DEF TypeInv
<1> QED
  BY <1>1, InitTypeInv, TypeStep, PTL DEF Spec

-----------------------------------------------------------------------------
(* The proxy.                                                              *)

Before == {"resolve", "bootstrap"}
Working ==
  {"discover", "probe", "provision", "prepare", "update", "assemble", "launch", "run"}
Dropping == {"dropScratch", "dropTree", "dropProxy"}

\* Where the command is tells what the topology is and what there is yet.
PcInv ==
  /\ pc \in Before \cup SetupPcs => topology = "none"
  /\ pc \in SetupPcs => Proxied
  /\ pc \in Working => topology = IF Proxied THEN "up" ELSE "none"
  /\ pc \in TeardownPcs => topology = "up"
  /\ pc \in Before \cup SetupPcs \cup Working =>
       out = "none" /\ ~retrying /\ events = NoFile /\ ~extracted
  /\ pc \in Before \cup SetupPcs \cup (Working \ {"run"}) => agent = "absent" /\ status = "none"
  /\ pc = "run" => status = "running"
  /\ retrying => pc \in TeardownPcs \cup {"done", "crashed"}

\* Only between the network and the end of Setup, or of its undoing, is there
\* something that no topology answers for.  A topology that failed has been
\* undone, unless a signal or a miss excuses it; one that latched is gone; and
\* when the first of two Teardowns misses nothing it leaves nothing.
ReleaseInv ==
  /\ topology = "none" /\ pc \notin SetupPcs \ {"compile", "network"} /\ pc # "crashed"
       => ProxyReleased
  /\ pc = "undoNetwork" => squid = "absent" \/ missed > 0
  /\ topology = "failed" => out = "none" /\ (sig \/ missed > 0 \/ ProxyReleased)
  /\ pc = "rmNetwork" /\ ~erred => squid = "absent"
  /\ topology = "down" => ProxyReleased
  /\ topology = "up" /\ out # "none" /\ (retrying \/ pc \in Dropping) /\ missed = 0 => ProxyReleased
  /\ ProxyReleasedAtExit

ProxyInv == TypeInv /\ PcInv /\ ReleaseInv

LEMMA InitProxyInv == Init => ProxyInv
<1>1. Init => PcInv
  BY DEF Init, PcInv, Before, SetupPcs, Working, TeardownPcs
<1>2. Init => ReleaseInv
  BY DEF Init, ReleaseInv, ProxyReleased, ProxyReleasedAtExit
<1> QED
  BY <1>1, <1>2, InitTypeInv DEF ProxyInv

\* Where a step leads from where, and what it makes on the way.
LEMMA PcStep ==
  ASSUME TypeInv, PcInv, [Next]_vars PROVE PcInv'
<1> USE DEF PcInv, Before, SetupPcs, Working, TeardownPcs, Unwind, settled, cmdVars,
            faultVars, dockerVars, logs, fileVars, Proxied
<1>1. CASE ResolveOptions \/ Bootstrap
  <2>1. CASE ResolveOptions
    BY <2>1 DEF ResolveOptions
  <2>2. CASE Bootstrap
    BY <2>2 DEF Bootstrap
  <2> QED
    BY <1>1, <2>1, <2>2
<1>2. CASE WriteCompiledYAML
  BY <1>2 DEF WriteCompiledYAML
<1>3. CASE CreateNetwork \/ CreateSquid
  BY <1>3 DEF CreateNetwork, CreateSquid
<1>4. CASE StartSquid
  <2>1. CASE pc = "ready"
    BY <1>4, <2>1 DEF StartSquid, AfterSquidStep, SquidStepFailed
  <2>2. CASE pc # "ready"
    BY <1>4, <2>2 DEF StartSquid, AfterSquidStep, SquidStepFailed
  <2> QED
    BY <2>1, <2>2
<1>5. CASE UndoSquid \/ UndoNetwork
  BY <1>5 DEF UndoSquid, UndoNetwork
<1>6. CASE DiscoverMounts \/ ProbeImage \/ Assemble
  <2>1. CASE DiscoverMounts
    BY <2>1 DEF DiscoverMounts
  <2>2. CASE ProbeImage
    BY <2>2 DEF ProbeImage
  <2>3. CASE Assemble
    BY <2>3 DEF Assemble
  <2> QED
    BY <1>6, <2>1, <2>2, <2>3
<1>7. CASE Provision \/ PrepareRuntimeState
  BY <1>7 DEF Provision, PrepareRuntimeState
<1>8. CASE UpdateAgent \/ SkipUpdate \/ OtherWritesCache
  BY <1>8 DEF UpdateAgent, SkipUpdate, OtherWritesCache
<1>9. CASE LaunchAgent
  BY <1>9 DEF LaunchAgent, AfterRun
<1>10. CASE FinishRun
  BY <1>10 DEF FinishRun, AfterRun
<1>11. CASE AgentRequests \/ AgentExits \/ SignalArrives \/ TeardownIsLate
  BY <1>11 DEF AgentRequests, AgentExits, SignalArrives, TeardownIsLate
<1>12. CASE CopyAccessLog \/ WriteEventsJSONL \/ CopySquidLog \/ StopSquid
  BY <1>12 DEF CopyAccessLog, WriteEventsJSONL, CopySquidLog, StopSquid, TeardownFailed
<1>13. CASE RemoveNetwork
  BY <1>13 DEF RemoveNetwork
<1>14. CASE DropScratch \/ DropWorktree \/ DropProxy
  <2>1. CASE DropScratch
    BY <2>1 DEF DropScratch
  <2>2. CASE DropWorktree
    BY <2>2 DEF DropWorktree
  <2>3. CASE DropProxy
    BY <2>3 DEF DropProxy
  <2> QED
    BY <1>14, <2>1, <2>2, <2>3
<1>15. CASE Crash
  BY <1>15 DEF Crash
<1>16. CASE UNCHANGED vars
  BY <1>16 DEF vars
<1> QED
  BY <1>1, <1>2, <1>3, <1>4, <1>5, <1>6, <1>7, <1>8, <1>9, <1>10, <1>11, <1>12, <1>13, <1>14,
     <1>15, <1>16 DEF Next

\* What Setup does to the network and to Squid, and its undoing.
LEMMA SetupRelease ==
  ASSUME ProxyInv,
         WriteCompiledYAML \/ CreateNetwork \/ CreateSquid \/ StartSquid \/ UndoSquid \/ UndoNetwork
  PROVE  ReleaseInv'
<1> USE DEF ProxyInv, PcInv, ReleaseInv, ProxyReleased, ProxyReleasedAtExit, Before, SetupPcs,
            Working, TeardownPcs, Dropping, Unwind, settled, cmdVars, faultVars, dockerVars, logs,
            fileVars
<1>0. missed \in Nat /\ failures \in 0..MaxFailures /\ sig \in BOOLEAN
  BY DEF TypeInv, TypeOK
<1>1. CASE WriteCompiledYAML
  BY <1>1 DEF WriteCompiledYAML
<1>2. CASE CreateNetwork
  <2>1. PICK r \in CommandResults :
          /\ network' = Effective(r)
          /\ pc' = IF r = "ok" THEN "create" ELSE "dropScratch"
          /\ topology' = IF r = "ok" THEN topology ELSE "failed"
          /\ Count(r, sig)
          /\ Cut(r)
    BY <1>2 DEF CreateNetwork
  <2>2. r \in {"ok", "half", "undone"} /\ (r = "half" => sig')
    BY <1>0, <2>1, CommandOutcome
  <2>3. r = "undone" => ~network'
    BY <2>1 DEF Effective
  <2>4. /\ squid' = squid /\ missed' = missed /\ out' = out /\ squid = "absent"
        /\ out = "none" /\ topology = "none"
    BY <1>2 DEF CreateNetwork
  <2> QED
    BY <2>1, <2>2, <2>3, <2>4
<1>3. CASE CreateSquid
  BY <1>3 DEF CreateSquid
<1>4. CASE StartSquid
  BY <1>4 DEF StartSquid, AfterSquidStep, SquidStepFailed
<1>5. CASE UndoSquid
  <2>1. PICK r \in CommandResults :
          /\ squid' = IF Effective(r) THEN "absent" ELSE squid
          /\ missed' = IF r = "ok" THEN missed ELSE missed + 1
    BY <1>5 DEF UndoSquid, SetupUndoResults
  <2>2. squid' = "absent" \/ missed' > 0
    BY <1>0, <2>1 DEF Effective
  <2>3. /\ pc' \in {"undoSquid", "undoNetwork"} /\ topology = "none"
        /\ UNCHANGED <<topology, out, network>>
    BY <1>5 DEF UndoSquid
  <2> QED
    BY <2>2, <2>3
<1>6. CASE UndoNetwork
  <2>1. PICK r \in CommandResults :
          /\ network' = (network /\ (NetworkBusy \/ ~Effective(r)))
          /\ missed' = IF r = "ok" THEN missed ELSE missed + 1
          /\ Count(r, sig)
          /\ Cut(r)
    BY <1>6 DEF UndoNetwork, SetupUndoResults
  <2>2. /\ topology' = "failed" /\ pc' = "dropScratch" /\ squid' = squid /\ out' = out
        /\ out = "none" /\ agent' = agent
    BY <1>6 DEF UndoNetwork
  <2>3. missed' > 0 \/ (~network' /\ squid = "absent")
    <3>1. CASE r # "ok" \/ missed > 0
      BY <1>0, <2>1, <3>1
    <3>2. CASE r = "ok" /\ ~(missed > 0)
      <4>1. squid = "absent"
        BY <1>6, <3>2 DEF UndoNetwork
      <4>2. agent # "running"
        BY <1>6 DEF UndoNetwork
      <4>3. ~NetworkBusy /\ Effective(r)
        BY <3>2, <4>1, <4>2 DEF NetworkBusy, Effective
      <4> QED
        BY <2>1, <4>1, <4>3
    <3> QED
      BY <3>1, <3>2
  <2> QED
    BY <2>2, <2>3
<1> QED
  BY <1>1, <1>2, <1>3, <1>4, <1>5, <1>6

\* What Teardown does to them.
LEMMA TeardownRelease ==
  ASSUME ProxyInv,
         CopyAccessLog \/ WriteEventsJSONL \/ CopySquidLog \/ StopSquid \/ RemoveNetwork
  PROVE  ReleaseInv'
<1> USE DEF ProxyInv, PcInv, ReleaseInv, ProxyReleased, ProxyReleasedAtExit, Before, SetupPcs,
            Working, TeardownPcs, Dropping, Unwind, settled, cmdVars, faultVars, dockerVars, logs,
            fileVars
<1>0. missed \in Nat /\ erred \in BOOLEAN /\ network \in BOOLEAN
  BY DEF TypeInv, TypeOK
<1>1. CASE CopyAccessLog
  BY <1>1 DEF CopyAccessLog, TeardownFailed
<1>2. CASE WriteEventsJSONL \/ CopySquidLog
  <2>1. /\ pc' # "done" /\ pc' \in TeardownPcs /\ pc' # "rmNetwork"
        /\ UNCHANGED <<topology, out, sig, network, squid, retrying, missed>>
    BY <1>2 DEF WriteEventsJSONL, CopySquidLog, TeardownFailed
  <2> QED
    BY <2>1, <1>2 DEF WriteEventsJSONL, CopySquidLog
<1>3. CASE StopSquid
  <2>1. PICK r \in TeardownResults :
          /\ squid' = IF Effective(r) THEN "absent" ELSE squid
          /\ erred' = (erred \/ r # "ok")
    BY <1>3 DEF StopSquid
  <2>2. ~erred' => squid' = "absent"
    BY <2>1 DEF Effective
  <2>3. squid = "absent" => squid' = "absent"
    BY <2>1
  <2>4. /\ pc' = "rmNetwork" /\ topology = "up"
        /\ UNCHANGED <<topology, out, network, retrying, missed>>
    BY <1>3 DEF StopSquid
  <2> QED
    BY <2>2, <2>3, <2>4, <1>3 DEF StopSquid
<1>4. CASE RemoveNetwork
  <2> DEFINE failed(r) == erred \/ r # "ok" \/ (network /\ NetworkBusy)
  <2>1. PICK r \in TeardownResults :
          /\ network' = (network /\ (NetworkBusy \/ ~Effective(r)))
          /\ topology' = IF Latches(failed(r)) THEN "down" ELSE topology
          /\ missed' = IF squid # "absent" \/ network' THEN missed + 1 ELSE missed
    BY <1>4 DEF RemoveNetwork
  <2>2. /\ pc = "rmNetwork" /\ topology = "up" /\ pc' = IF retrying THEN "done" ELSE "dropScratch"
        /\ UNCHANGED <<out, retrying, squid, sig>>
    BY <1>4 DEF RemoveNetwork
  <2>3. CASE squid = "absent" /\ ~network'
    BY <2>1, <2>2, <2>3
  <2>4. CASE ~(squid = "absent" /\ ~network')
    <3>1. missed' = missed + 1
      BY <2>1, <2>4
    <3>2. topology' = "up"
      <4>1. CASE squid # "absent"
        BY <2>1, <2>2, <4>1 DEF Latches
      <4>2. CASE network'
        <5>1. network /\ (NetworkBusy \/ ~Effective(r))
          BY <2>1, <4>2
        <5>2. failed(r)
          BY <5>1 DEF Effective
        <5> QED
          BY <2>1, <2>2, <5>2 DEF Latches
      <4> QED
        BY <2>4, <4>1, <4>2
    <3>3. out # "none" /\ retrying => missed > 0
      <4>1. SUFFICES ASSUME out # "none", retrying, missed = 0 PROVE FALSE
        BY <1>0
      <4>2. squid = "absent" /\ ~network
        BY <2>2, <4>1
      <4>3. ~network'
        BY <2>1, <4>2
      <4> QED
        BY <2>4, <4>2, <4>3
    <3>4. missed' > 0 /\ (out # "none" /\ retrying => missed' > 1)
      BY <1>0, <3>1, <3>3
    <3>5. missed' \in Nat
      BY <1>0, <3>1
    <3> QED
      BY <2>2, <3>2, <3>4, <3>5
  <2> QED
    BY <2>3, <2>4
<1> QED
  BY <1>1, <1>2, <1>3, <1>4

\* What all other steps leave of them.
LEMMA OtherRelease ==
  ASSUME ProxyInv,
         \/ ResolveOptions \/ Bootstrap \/ DiscoverMounts \/ ProbeImage \/ Provision
         \/ PrepareRuntimeState \/ UpdateAgent \/ SkipUpdate \/ OtherWritesCache \/ Assemble
         \/ LaunchAgent \/ FinishRun \/ AgentRequests \/ AgentExits
         \/ DropScratch \/ DropWorktree \/ DropProxy
         \/ SignalArrives \/ TeardownIsLate \/ Crash \/ UNCHANGED vars
  PROVE  ReleaseInv'
<1> USE DEF ProxyInv, PcInv, ReleaseInv, ProxyReleased, ProxyReleasedAtExit, Before, SetupPcs,
            Working, TeardownPcs, Dropping, Unwind, settled, cmdVars, faultVars, dockerVars, logs,
            fileVars, Over
<1>0. missed \in Nat /\ sig \in BOOLEAN
  BY DEF TypeInv, TypeOK
<1>1. CASE ResolveOptions
  BY <1>1 DEF ResolveOptions
<1>2. CASE Bootstrap
  BY <1>2 DEF Bootstrap
<1>3. CASE DiscoverMounts
  BY <1>3 DEF DiscoverMounts
<1>4. CASE ProbeImage \/ Provision \/ PrepareRuntimeState
  BY <1>4 DEF ProbeImage, Provision, PrepareRuntimeState
<1>5. CASE UpdateAgent \/ SkipUpdate \/ OtherWritesCache
  BY <1>5 DEF UpdateAgent, SkipUpdate, OtherWritesCache
<1>6. CASE Assemble
  BY <1>6 DEF Assemble
<1>7. CASE LaunchAgent
  BY <1>7 DEF LaunchAgent, AfterRun
<1>8. CASE FinishRun
  BY <1>8 DEF FinishRun, AfterRun
<1>9. CASE AgentRequests \/ AgentExits \/ TeardownIsLate \/ Crash
  BY <1>9 DEF AgentRequests, AgentExits, TeardownIsLate, Crash
<1>10. CASE DropScratch \/ DropWorktree
  <2>1. CASE DropScratch
    BY <2>1 DEF DropScratch
  <2>2. CASE DropWorktree
    BY <2>2 DEF DropWorktree
  <2> QED
    BY <1>10, <2>1, <2>2
<1>11. CASE DropProxy
  <2>1. CASE topology = "up"
    BY <1>11, <2>1 DEF DropProxy
  <2>2. CASE topology # "up"
    <3>1. /\ pc = "dropProxy" /\ pc' = "done" /\ retrying' = TRUE
          /\ UNCHANGED <<topology, out, sig, missed, network, squid>>
      BY <1>11, <2>2 DEF DropProxy
    <3>2. topology \in {"none", "failed", "down"}
      BY <2>2 DEF TypeInv, TypeOK
    <3>3. topology = "failed" /\ ~sig /\ missed <= (IF out = "none" THEN 0 ELSE 1) => ProxyReleased
      BY <1>0
    <3>4. topology \in {"none", "down"} => ProxyReleased
      BY <3>1
    <3> QED
      BY <2>2, <3>1, <3>2, <3>3, <3>4
  <2> QED
    BY <2>1, <2>2
<1>12. CASE SignalArrives
  BY <1>12 DEF SignalArrives
<1>13. CASE UNCHANGED vars
  BY <1>13 DEF vars
<1> QED
  BY <1>1, <1>2, <1>3, <1>4, <1>5, <1>6, <1>7, <1>8, <1>9, <1>10, <1>11, <1>12, <1>13

LEMMA ProxyStep ==
  ASSUME ProxyInv, [Next]_vars PROVE ProxyInv'
<1>1. TypeInv' /\ PcInv'
  BY TypeStep, PcStep DEF ProxyInv
<1>2. ReleaseInv'
  BY SetupRelease, TeardownRelease, OtherRelease DEF Next
<1> QED
  BY <1>1, <1>2 DEF ProxyInv

\* A command that comes to its end leaves no Squid container and no network
\* behind, whichever call of the first Teardown failed or was late (run.go,
\* topology.go).
THEOREM ProxyIsReleased == Spec => []ProxyReleasedAtExit
<1>1. ProxyInv => ProxyReleasedAtExit
  BY DEF ProxyInv, ReleaseInv
<1> QED
  BY <1>1, InitProxyInv, ProxyStep, PTL DEF Spec

-----------------------------------------------------------------------------
(* The worktree and the scratch directory.                                 *)

\* Each of the two is there only while its cleanup is armed, or that cleanup
\* has failed; a worktree also after a success, or when git was killed while
\* adding it; and it is there for certain from its provision to the end of a
\* run without an error, which is recorded as a success.
FilesInv ==
  /\ pc \in Before \cup SetupPcs \cup {"discover", "probe", "provision"} =>
       armed = {} /\ ~worktree /\ ~scratch
  /\ pc \in {"prepare", "update", "assemble", "launch", "run"} => worktree /\ "worktree" \in armed
  /\ scratch => "scratch" \in armed \/ failures > 0
  /\ worktree => "worktree" \in armed \/ failures > 0 \/ out = "success" \/ (sig /\ out = "none")
  /\ out = "success" => worktree /\ status = "success"
  /\ pc \in {"dropTree", "dropProxy", "done"} \/ retrying => "scratch" \notin armed
  /\ pc \in {"dropProxy", "done"} \/ retrying => "worktree" \notin armed

LEMMA FilesStep ==
  ASSUME TypeInv, PcInv, FilesInv, [Next]_vars PROVE FilesInv'
<1> USE DEF FilesInv, PcInv, Before, SetupPcs, Working, TeardownPcs, Unwind, settled, cmdVars,
            faultVars, dockerVars, logs, fileVars, Over
<1>0. /\ failures \in 0..MaxFailures /\ failures \in Int
      /\ sig \in BOOLEAN /\ late \in BOOLEAN /\ worktree \in BOOLEAN /\ scratch \in BOOLEAN
  BY BoundsAssumption DEF TypeInv, TypeOK
<1>1. CASE ResolveOptions \/ DiscoverMounts
  <2>1. CASE ResolveOptions
    BY <2>1 DEF ResolveOptions
  <2>2. CASE DiscoverMounts
    BY <2>2 DEF DiscoverMounts
  <2> QED
    BY <1>1, <2>1, <2>2
<1>2. CASE Bootstrap
  BY <1>2 DEF Bootstrap
<1>3. CASE WriteCompiledYAML
  BY <1>3 DEF WriteCompiledYAML
<1>4. CASE CreateNetwork \/ CreateSquid
  BY <1>4 DEF CreateNetwork, CreateSquid
<1>5. CASE StartSquid
  BY <1>5 DEF StartSquid, AfterSquidStep, SquidStepFailed
<1>6. CASE UndoSquid \/ UndoNetwork
  BY <1>6 DEF UndoSquid, UndoNetwork
<1>7. CASE ProbeImage
  BY <1>7 DEF ProbeImage
<1>8. CASE Provision
  <2>1. PICK r \in CommandResults :
          /\ worktree' = Effective(r)
          /\ pc' = IF r = "ok" THEN "prepare" ELSE "dropScratch"
          /\ armed' = IF r = "ok" THEN armed \cup {"worktree"} ELSE armed
          /\ Count(r, sig)
          /\ Cut(r)
    BY <1>8 DEF Provision
  <2>2. r \in {"ok", "half", "undone"} /\ (r = "half" => sig')
    BY <1>0, <2>1, CommandOutcome
  <2>3. r = "undone" => ~worktree'
    BY <2>1 DEF Effective
  <2>4. r = "ok" => worktree'
    BY <2>1 DEF Effective
  <2>5. /\ armed = {} /\ ~scratch /\ ~retrying /\ out = "none"
        /\ UNCHANGED <<scratch, retrying, out, status>>
    BY <1>8 DEF Provision
  <2> QED
    BY <2>1, <2>2, <2>3, <2>4, <2>5
<1>9. CASE PrepareRuntimeState
  <2>1. PICK r \in IF NeedsScratch(Auth) THEN CommandResults ELSE {"ok"} :
          /\ scratch' = (r = "ok" /\ NeedsScratch(Auth))
          /\ pc' = IF r = "ok" THEN "update" ELSE "dropScratch"
          /\ armed' = IF r = "ok" THEN armed \cup {"scratch"} ELSE armed
    BY <1>9 DEF PrepareRuntimeState
  <2>2. scratch' => "scratch" \in armed'
    BY <2>1
  <2>3. /\ worktree /\ "worktree" \in armed /\ ~retrying /\ out = "none"
        /\ UNCHANGED <<worktree, retrying, out, status>>
    BY <1>9 DEF PrepareRuntimeState
  <2>4. "worktree" \in armed' /\ pc' \in {"update", "dropScratch"}
    BY <2>1, <2>3
  <2> QED
    BY <2>2, <2>3, <2>4
<1>10. CASE UpdateAgent
  <2>1. (sig => sig') /\ (failures > 0 => failures' > 0)
    BY CallsStep
  <2> QED
    BY <1>10, <2>1 DEF UpdateAgent
<1>11. CASE SkipUpdate
  BY <1>0, <1>11 DEF SkipUpdate
<1>12. CASE OtherWritesCache
  BY <1>12 DEF OtherWritesCache
<1>13. CASE Assemble
  <2>1. failures > 0 => failures' > 0
    BY CallsStep
  <2> QED
    BY <1>13, <2>1 DEF Assemble
<1>14. CASE LaunchAgent
  BY <1>0, <1>14 DEF LaunchAgent, AfterRun
<1>15. CASE FinishRun
  <2>1. /\ out' \in {"success", "error"} /\ pc' \in {"extract", "dropScratch"} /\ pc = "run"
        /\ out' = "success" => status' = "success"
    BY <1>15 DEF FinishRun, AfterRun, Errors
  <2>2. UNCHANGED <<armed, retrying, worktree, scratch>>
    BY <1>15 DEF FinishRun
  <2>3. worktree /\ "worktree" \in armed /\ ~retrying
    BY <2>1
  <2>4. failures > 0 => failures' > 0
    BY <1>15, CallsStep
  <2> QED
    BY <2>1, <2>2, <2>3, <2>4
<1>16. CASE AgentRequests \/ AgentExits \/ TeardownIsLate
  BY <1>16 DEF AgentRequests, AgentExits, TeardownIsLate
<1>17. CASE CopyAccessLog \/ WriteEventsJSONL \/ CopySquidLog \/ StopSquid \/ RemoveNetwork
  <2>1. failures > 0 => failures' > 0
    BY CallsStep
  <2>2. /\ UNCHANGED <<armed, retrying, out, status, sig, worktree, scratch>>
        /\ pc \in TeardownPcs
        /\ pc' \in TeardownPcs \cup {"dropScratch"} \/ (pc' = "done" /\ retrying)
    BY <1>17 DEF CopyAccessLog, WriteEventsJSONL, CopySquidLog, StopSquid, RemoveNetwork,
       TeardownFailed
  <2> QED
    BY <2>1, <2>2
<1>18. CASE DropScratch
  <2>1. CASE "scratch" \in armed
    <3>1. PICK r \in BackgroundResults : scratch' = (scratch /\ r # "ok") /\ Count(r, FALSE)
      BY <1>18, <2>1 DEF DropScratch
    <3>2. r \in {"ok", "undone"} /\ (r = "undone" => failures' > 0) /\ (failures > 0 => failures' > 0)
      BY <1>0, <3>1, BackgroundOutcome
    <3>3. (scratch' => failures' > 0) /\ (failures > 0 => failures' > 0)
      BY <3>1, <3>2
    <3> QED
      BY <1>18, <3>3 DEF DropScratch
  <2>2. CASE "scratch" \notin armed
    BY <1>18, <2>2 DEF DropScratch
  <2> QED
    BY <2>1, <2>2
<1>19. CASE DropWorktree
  <2>1. CASE "worktree" \in armed /\ CleansWorktree
    <3>1. PICK r \in BackgroundResults : worktree' = (worktree /\ r # "ok") /\ Count(r, FALSE)
      BY <1>19, <2>1 DEF DropWorktree
    <3>2. r \in {"ok", "undone"} /\ (r = "undone" => failures' > 0) /\ (failures > 0 => failures' > 0)
      BY <1>0, <3>1, BackgroundOutcome
    <3>3. (worktree' => failures' > 0) /\ (failures > 0 => failures' > 0)
      BY <3>1, <3>2
    <3>4. out # "success" /\ out' = out /\ pc' = "dropProxy" /\ "scratch" \notin armed
      BY <1>19, <2>1 DEF DropWorktree, CleansWorktree
    <3>5. armed' = armed \ {"worktree"} /\ UNCHANGED <<scratch, retrying, sig>>
      BY <1>19 DEF DropWorktree
    <3> QED
      BY <3>3, <3>4, <3>5
  <2>2. CASE ~("worktree" \in armed /\ CleansWorktree)
    BY <1>19, <2>2 DEF DropWorktree, CleansWorktree
  <2> QED
    BY <2>1, <2>2
<1>20. CASE DropProxy
  BY <1>20 DEF DropProxy
<1>21. CASE SignalArrives \/ Crash
  BY <1>21 DEF SignalArrives, Crash
<1>22. CASE UNCHANGED vars
  BY <1>22 DEF vars
<1> QED
  BY <1>1, <1>2, <1>3, <1>4, <1>5, <1>6, <1>7, <1>8, <1>9, <1>10, <1>11, <1>12, <1>13, <1>14,
     <1>15, <1>16, <1>17, <1>18, <1>19, <1>20, <1>21, <1>22 DEF Next

\* When no call has failed of itself, the scratch directory is gone at the end
\* of the command and the worktree is kept exactly for a run that returned no
\* error, which is a recorded success, whatever Teardown meets and also when a
\* signal ended the run (run.go:269-277, 289, 400-406).
THEOREM FilesAreReleased == Spec => []FilesReleasedAtExit
<1> DEFINE Inv == TypeInv /\ PcInv /\ FilesInv
<1>1. Init => Inv
  <2>1. Init => PcInv
    BY InitProxyInv DEF ProxyInv
  <2>2. Init => FilesInv
    BY DEF Init, FilesInv, Before, SetupPcs
  <2> QED
    BY <2>1, <2>2, InitTypeInv
<1>2. Inv /\ [Next]_vars => Inv'
  BY TypeStep, PcStep, FilesStep
<1>3. Inv => FilesReleasedAtExit
  <2> SUFFICES ASSUME Inv, pc = "done", failures = 0, ~(sig /\ out = "none")
               PROVE  ~scratch /\ (worktree <=> out = "success") /\ (worktree => status = "success")
    BY DEF FilesReleasedAtExit
  <2>1. ~(failures > 0)
    OBVIOUS
  <2> QED
    BY <2>1 DEF FilesInv, TypeInv, TypeOK
<1> HIDE DEF Inv
<1> QED
  BY <1>1, <1>2, <1>3, PTL DEF Spec

-----------------------------------------------------------------------------
(* Egress.                                                                 *)

LEMMA ModeType ==
  ASSUME NEW o \in Options PROVE Mode(o) \in {"proxy", "open", "none"}
BY DEF Options, Mode

\* A destination survives the way through its canonical text.
LEMMA CanonicalParses ==
  ASSUME NEW e \in Entries
  PROVE  /\ ParseDestination(e) \in Destinations
         /\ ParseDestination(Canonical(ParseDestination(e))) = ParseDestination(e)
<1> DEFINE d == ParseDestination(e)
<1>1. d = [host |-> e.host, port |-> IF e.port = NoPort THEN 443 ELSE e.port]
  BY DEF ParseDestination
<1>2. e.host \in Hosts /\ e.port \in {NoPort} \cup Nat
  BY DEF Entries
<1>3. d \in Destinations /\ d.port # NoPort
  BY <1>1, <1>2 DEF Destinations, NoPort
<1> HIDE DEF d
<1>4. Canonical(d).host = d.host /\ Canonical(d).port = d.port
  BY DEF Canonical
<1>5. ParseDestination(Canonical(d)) = [host |-> d.host, port |-> d.port]
  BY <1>3, <1>4 DEF ParseDestination
<1>6. d = [host |-> d.host, port |-> d.port]
  BY <1>3 DEF Destinations
<1> QED
  BY <1>3, <1>5, <1>6 DEF d

\* So a whole list of entries does.
LEMMA ListParses ==
  ASSUME NEW entries \in SUBSET Entries
  PROVE  {ParseDestination(c) : c \in ParseDestinations(entries)} = {ParseDestination(e) : e \in entries}
<1>1. \A e \in entries : ParseDestination(Canonical(ParseDestination(e))) = ParseDestination(e)
  BY CanonicalParses
<1> QED
  BY <1>1 DEF ParseDestinations

\* And a list of hosts that is built in.
LEMMA HostsParse ==
  ASSUME NEW hosts
  PROVE  {ParseDestination(c) : c \in {Canonical([host |-> h, port |-> 443]) : h \in hosts}}
           = [host : hosts, port : {443}]
<1>1. \A h : ParseDestination(Canonical([host |-> h, port |-> 443])) = [host |-> h, port |-> 443]
  BY DEF ParseDestination, Canonical, NoPort
<1> DEFINE dest(h) == [host |-> h, port |-> 443]
<1>2. \A x : x \in {ParseDestination(c) : c \in {Canonical(dest(h)) : h \in hosts}}
               <=> \E h \in hosts : x = ParseDestination(Canonical(dest(h)))
  <2> HIDE DEF dest
  <2> QED
    OBVIOUS
<1>3. \A x : x \in [host : hosts, port : {443}] <=> \E h \in hosts : x = dest(h)
  <2>1. ASSUME NEW x \in [host : hosts, port : {443}] PROVE \E h \in hosts : x = dest(h)
    <3>1. x.host \in hosts /\ x = dest(x.host)
      OBVIOUS
    <3> QED
      BY <3>1
  <2> QED
    BY <2>1
<1>4. \A x : x \in {ParseDestination(c) : c \in {Canonical(dest(h)) : h \in hosts}}
               <=> x \in [host : hosts, port : {443}]
  <2> HIDE DEF dest
  <2>1. \A h : ParseDestination(Canonical(dest(h))) = dest(h)
    BY <1>1 DEF dest
  <2> QED
    BY <1>2, <1>3, <2>1
<1> HIDE DEF dest
<1>5. {ParseDestination(c) : c \in {Canonical(dest(h)) : h \in hosts}} = [host : hosts, port : {443}]
  BY <1>4
<1> QED
  BY <1>5 DEF dest

\* What is compiled for Squid is what the options grant.
LEMMA CompiledIsGranted ==
  ASSUME options \in Options, Proxied
  PROVE  CompiledAllowlist(options) = Granted
<1>1. options.allow \in SUBSET Entries /\ options.userConfig \in SUBSET Entries
  BY DEF Options
<1>2. Mode(options) = "proxy"
  BY DEF Proxied
<1>3. CASE options.allow # {}
  <2>1. ResolveAllowlist(options) = ParseDestinations(options.allow)
    BY <1>3 DEF ResolveAllowlist, AllowlistSource
  <2> QED
    BY <1>1, <1>3, <2>1, ListParses DEF CompiledAllowlist, Granted
<1>4. CASE options.allow = {} /\ options.noDefaults
  <2>1. ResolveAllowlist(options) = ParseDestinations(options.allow)
    BY <1>2, <1>4 DEF ResolveAllowlist, AllowlistSource
  <2> QED
    BY <1>1, <1>4, <2>1, ListParses DEF CompiledAllowlist, Granted
<1>5. CASE options.allow = {} /\ ~options.noDefaults /\ options.userConfig # {}
  <2>1. UserAllow(options) = options.userConfig
    BY <1>2, <1>5 DEF UserAllow, ReadsUserConfig
  <2>2. ResolveAllowlist(options) = ParseDestinations(options.userConfig)
    BY <1>5, <2>1 DEF ResolveAllowlist, AllowlistSource
  <2> QED
    BY <1>1, <1>5, <2>2, ListParses DEF CompiledAllowlist, Granted
<1>6. CASE options.allow = {} /\ ~options.noDefaults /\ options.userConfig = {}
  <2>1. UserAllow(options) = {}
    BY <1>6 DEF UserAllow
  <2>2. ResolveAllowlist(options) = FullBuiltInAllowlist(options)
    BY <1>6, <2>1 DEF ResolveAllowlist, AllowlistSource
  <2>3. CompiledAllowlist(options) = [host : BaselineHosts \cup AgentHosts(options), port : {443}]
    <3> DEFINE hosts == BaselineHosts \cup AgentHosts(options)
    <3>1. CompiledAllowlist(options)
            = {ParseDestination(c) : c \in {Canonical([host |-> h, port |-> 443]) : h \in hosts}}
      BY <2>2 DEF CompiledAllowlist, FullBuiltInAllowlist
    <3> HIDE DEF hosts
    <3>2. CompiledAllowlist(options) = [host : hosts, port : {443}]
      BY <3>1, HostsParse
    <3> QED
      BY <3>2 DEF hosts
  <2> QED
    BY <1>6, <2>3 DEF Granted
<1> QED
  BY <1>3, <1>4, <1>5, <1>6

\* Squid lets through the pairs it is configured with and no other pair of a
\* configured host and a configured port.
LEMMA SquidAllowsPairs ==
  ASSUME NEW dests, NEW r, \A d \in dests : d = [host |-> d.host, port |-> d.port]
  PROVE  SquidAllows(GenerateSquidConf(dests), r)
           <=> r.method = "CONNECT" /\ [host |-> r.host, port |-> r.port] \in dests
<1> DEFINE conf == GenerateSquidConf(dests)
<1>1. DOMAIN conf = {d.port : d \in dests}
  BY DEF GenerateSquidConf
<1>2. ASSUME r.port \in DOMAIN conf
      PROVE  conf[r.port] = {d.host : d \in {e \in dests : e.port = r.port}}
  BY <1>1, <1>2 DEF GenerateSquidConf
<1>3. ASSUME SquidAllows(conf, r)
      PROVE  r.method = "CONNECT" /\ [host |-> r.host, port |-> r.port] \in dests
  <2>1. r.method = "CONNECT" /\ r.port \in DOMAIN conf /\ r.host \in conf[r.port]
    BY <1>3 DEF SquidAllows
  <2>2. PICK d \in dests : d.port = r.port /\ d.host = r.host
    BY <1>2, <2>1
  <2> QED
    BY <2>1, <2>2
<1>4. ASSUME r.method = "CONNECT", [host |-> r.host, port |-> r.port] \in dests
      PROVE  SquidAllows(conf, r)
  <2>1. r.port \in DOMAIN conf
    BY <1>1, <1>4
  <2>2. r.host \in conf[r.port]
    BY <1>2, <1>4, <2>1
  <2> QED
    BY <1>4, <2>1, <2>2 DEF SquidAllows
<1> QED
  BY <1>3, <1>4

\* What Squid is configured to let through of the agent's requests.
LEMMA SquidGrants ==
  ASSUME options \in Options, Proxied
  PROVE  {r \in RequestPool : SquidAllows(SquidConf, r)} = GrantedRequests
<1>1. Granted \subseteq CompiledAllowlist(options) /\ CompiledAllowlist(options) \subseteq Granted
  BY CompiledIsGranted
<1>2. \A d \in CompiledAllowlist(options) : d = [host |-> d.host, port |-> d.port]
  BY DEF CompiledAllowlist, ParseDestination
<1>3. \A r : SquidAllows(SquidConf, r)
               <=> r.method = "CONNECT" /\ [host |-> r.host, port |-> r.port] \in CompiledAllowlist(options)
  BY <1>2, SquidAllowsPairs DEF SquidConf
<1> QED
  BY <1>1, <1>3 DEF GrantedRequests, Proxied

\* Squid answers from its readiness to the end of the run.
SquidIsUp ==
  /\ pc = "ready" => squid = "up"
  /\ Proxied /\ pc \in Working => squid = "up"

LEMMA SquidStep ==
  ASSUME PcInv, SquidIsUp, [Next]_vars PROVE SquidIsUp'
<1> USE DEF SquidIsUp, PcInv, Before, SetupPcs, Working, TeardownPcs, Unwind, settled, cmdVars,
            faultVars, dockerVars, logs, fileVars, Proxied
<1>1. CASE ResolveOptions \/ Bootstrap \/ WriteCompiledYAML \/ CreateNetwork \/ CreateSquid
  BY <1>1 DEF ResolveOptions, Bootstrap, WriteCompiledYAML, CreateNetwork, CreateSquid
<1>2. CASE StartSquid
  <2>1. PICK r \in CommandResults :
          /\ squid' = IF pc = "start" /\ Effective(r) THEN "up" ELSE squid
          /\ pc' = IF r = "ok" THEN AfterSquidStep ELSE SquidStepFailed
    BY <1>2 DEF StartSquid
  <2>2. pc \in {"copy", "connect", "start", "ready"} /\ options' = options
    BY <1>2 DEF StartSquid
  <2> QED
    BY <2>1, <2>2 DEF Effective, AfterSquidStep, SquidStepFailed
<1>3. CASE UndoSquid \/ UndoNetwork
  BY <1>3 DEF UndoSquid, UndoNetwork
<1>4. CASE DiscoverMounts \/ ProbeImage \/ Provision \/ PrepareRuntimeState \/ Assemble
  BY <1>4 DEF DiscoverMounts, ProbeImage, Provision, PrepareRuntimeState, Assemble
<1>5. CASE UpdateAgent \/ SkipUpdate \/ OtherWritesCache
  BY <1>5 DEF UpdateAgent, SkipUpdate, OtherWritesCache
<1>6. CASE LaunchAgent \/ FinishRun
  BY <1>6 DEF LaunchAgent, FinishRun, AfterRun
<1>7. CASE AgentRequests \/ AgentExits \/ SignalArrives \/ TeardownIsLate \/ Crash
  BY <1>7 DEF AgentRequests, AgentExits, SignalArrives, TeardownIsLate, Crash
<1>8. CASE CopyAccessLog \/ WriteEventsJSONL \/ CopySquidLog \/ StopSquid \/ RemoveNetwork
  BY <1>8 DEF CopyAccessLog, WriteEventsJSONL, CopySquidLog, StopSquid, RemoveNetwork,
     TeardownFailed
<1>9. CASE DropScratch \/ DropWorktree \/ DropProxy
  BY <1>9 DEF DropScratch, DropWorktree, DropProxy
<1>10. CASE UNCHANGED vars
  BY <1>10 DEF vars
<1> QED
  BY <1>1, <1>2, <1>3, <1>4, <1>5, <1>6, <1>7, <1>8, <1>9, <1>10 DEF Next

\* Whatever the options, the agent reaches no pair of host and port that they
\* do not grant, at any moment of the command; and all of them as long as the
\* runner waits for it (allowlist.go, compiled.go, squidconf.go, run.go).
THEOREM EgressNeverExceeds == Spec => []EgressIsExact
<1> DEFINE Inv == TypeInv /\ PcInv /\ SquidIsUp
<1>1. Init => Inv
  <2>1. Init => PcInv
    BY InitProxyInv DEF ProxyInv
  <2>2. Init => SquidIsUp
    BY DEF Init, SquidIsUp, Working
  <2> QED
    BY <2>1, <2>2, InitTypeInv
<1>2. Inv /\ [Next]_vars => Inv'
  BY TypeStep, PcStep, SquidStep
<1>3. Inv => EgressIsExact
  <2> SUFFICES ASSUME Inv PROVE EgressIsExact
    OBVIOUS
  <2>1. options \in Options /\ Mode(options) \in {"proxy", "open", "none"}
    BY ModeType DEF TypeInv, TypeOK
  <2>2. CASE Mode(options) = "proxy"
    <3>1. {r \in RequestPool : SquidAllows(SquidConf, r)} = GrantedRequests
      BY <2>1, <2>2, SquidGrants DEF Proxied
    <3>2. Reachable = IF agent # "running" \/ squid # "up" THEN {} ELSE GrantedRequests
      BY <2>2, <3>1 DEF Reachable
    <3>3. pc = "run" => squid = "up"
      BY <2>2 DEF SquidIsUp, Proxied, Working
    <3> QED
      BY <3>2, <3>3 DEF EgressIsExact
  <2>3. CASE Mode(options) = "open"
    BY <2>3 DEF EgressIsExact, Reachable, GrantedRequests
  <2>4. CASE Mode(options) = "none"
    BY <2>4 DEF EgressIsExact, Reachable, GrantedRequests
  <2> QED
    BY <2>1, <2>2, <2>3, <2>4
<1> HIDE DEF Inv
<1> QED
  BY <1>1, <1>2, <1>3, PTL DEF Spec

-----------------------------------------------------------------------------
(* The telemetry.                                                          *)

\* Squid's log tells what Squid did, and once the agent's container is gone
\* what has been copied of the log is all that there will ever be.
TelemetryInv ==
  /\ \A l \in log : l.result = ResultCode(SquidConf, l.request)
  /\ status \in {"success", "failed"} => agent = "absent"
  /\ agent = "absent" /\ pc \in {"events", "squidLog"} => logData = log
  /\ agent = "absent" /\ events.exists => events.blocked = ParseSquidAccessLog(log)

\* A step after which the agent's container is as absent as before.
LEMMA TelemetryIsLeft ==
  ASSUME TelemetryInv, UNCHANGED <<options, log, events>>,
         agent' = "absent" => agent = "absent",
         status' \in {"success", "failed"} => agent' = "absent",
         pc' \in {"events", "squidLog"} => UNCHANGED <<pc, logData>>
  PROVE  TelemetryInv'
<1>1. SquidConf' = SquidConf
  BY DEF SquidConf
<1>2. \A l \in log : l.result = ResultCode(SquidConf, l.request)
  BY DEF TelemetryInv
<1>3. (\A l \in log : l.result = ResultCode(SquidConf, l.request))'
  BY <1>1, <1>2 DEF ResultCode
<1>4. ParseSquidAccessLog(log)' = ParseSquidAccessLog(log)
  OBVIOUS
<1> QED
  BY <1>3, <1>4 DEF TelemetryInv

LEMMA TelemetryStep ==
  ASSUME TypeInv, PcInv, TelemetryInv, [Next]_vars PROVE TelemetryInv'
<1> USE DEF PcInv, Before, SetupPcs, Working, TeardownPcs, Unwind, settled, cmdVars, faultVars,
            dockerVars, logs, fileVars
<1>0. status \in {"success", "failed"} => agent = "absent"
  BY DEF TelemetryInv
<1>1. CASE \/ ResolveOptions \/ Bootstrap \/ WriteCompiledYAML \/ CreateNetwork \/ CreateSquid
           \/ StartSquid \/ UndoSquid \/ UndoNetwork \/ DiscoverMounts \/ ProbeImage
  <2>1. UNCHANGED <<options, log, events, agent, status>> /\ pc' \notin {"events", "squidLog"}
    BY <1>1 DEF ResolveOptions, Bootstrap, WriteCompiledYAML, CreateNetwork, CreateSquid,
                StartSquid, AfterSquidStep, SquidStepFailed, UndoSquid, UndoNetwork,
                DiscoverMounts, ProbeImage
  <2> QED
    BY <1>0, <2>1, TelemetryIsLeft
<1>2. CASE \/ Provision \/ PrepareRuntimeState \/ UpdateAgent \/ SkipUpdate \/ OtherWritesCache
           \/ Assemble \/ DropScratch \/ DropWorktree \/ DropProxy \/ Crash
  <2>1. UNCHANGED <<options, log, events, agent, status>> /\ pc' \notin {"events", "squidLog"}
    BY <1>2 DEF Provision, PrepareRuntimeState, UpdateAgent, SkipUpdate, OtherWritesCache,
                Assemble, DropScratch, DropWorktree, DropProxy, Crash
  <2> QED
    BY <1>0, <2>1, TelemetryIsLeft
<1>3. CASE SignalArrives \/ TeardownIsLate \/ UNCHANGED vars
  <2>1. UNCHANGED <<options, log, logData, events, agent, status, pc>>
    BY <1>3 DEF SignalArrives, TeardownIsLate, vars
  <2> QED
    BY <1>0, <2>1, TelemetryIsLeft
<1>4. CASE StopSquid \/ RemoveNetwork
  <2>1. UNCHANGED <<options, log, events, agent, status>> /\ pc' \notin {"events", "squidLog"}
    BY <1>4 DEF StopSquid, RemoveNetwork
  <2> QED
    BY <1>0, <2>1, TelemetryIsLeft
<1>5. CASE LaunchAgent
  <2>1. /\ UNCHANGED <<options, log, events>> /\ pc' \notin {"events", "squidLog"}
        /\ agent = "absent"
        /\ \/ agent' = "running" /\ status' = "running"
           \/ agent' = agent
    BY <1>5 DEF LaunchAgent, AfterRun
  <2> QED
    BY <2>1, TelemetryIsLeft
<1>6. CASE FinishRun
  <2>1. /\ UNCHANGED <<options, log, events>> /\ pc' \notin {"events", "squidLog"}
        /\ events = NoFile
        /\ status' \in {"success", "failed"} => agent' = "absent"
    BY <1>6 DEF FinishRun, AfterRun, Outcomes
  <2>2. SquidConf' = SquidConf
    BY <2>1 DEF SquidConf
  <2>3. \A l \in log : l.result = ResultCode(SquidConf, l.request)
    BY DEF TelemetryInv
  <2>4. (\A l \in log : l.result = ResultCode(SquidConf, l.request))'
    BY <2>1, <2>2, <2>3 DEF ResultCode
  <2>5. ~events'.exists
    BY <2>1 DEF NoFile
  <2> QED
    BY <2>1, <2>4, <2>5 DEF TelemetryInv
<1>7. CASE AgentRequests
  <2>1. PICK r \in RequestPool :
          log' = log \cup {[request |-> r, result |-> ResultCode(SquidConf, r)]}
    BY <1>7 DEF AgentRequests
  <2>2. agent = "running" /\ UNCHANGED <<options, agent, status>>
    BY <1>7 DEF AgentRequests
  <2>3. SquidConf' = SquidConf
    BY <2>2 DEF SquidConf
  <2>4. \A l \in log' : l.result = ResultCode(SquidConf, l.request)
    BY <2>1 DEF TelemetryInv
  <2>5. (\A l \in log : l.result = ResultCode(SquidConf, l.request))'
    BY <2>3, <2>4 DEF ResultCode
  <2> QED
    BY <1>0, <2>2, <2>5 DEF TelemetryInv
<1>8. CASE AgentExits
  <2>1. UNCHANGED <<options, log, logData, events, status, pc>> /\ agent = "running" /\ agent' = "exited"
    BY <1>8 DEF AgentExits
  <2> QED
    BY <1>0, <2>1, TelemetryIsLeft
<1>9. CASE CopyAccessLog
  <2>1. UNCHANGED <<options, log, events, agent, status>>
    BY <1>9 DEF CopyAccessLog
  <2>2. pc' \in {"stop", "events"} /\ (pc' = "events" => logData' = log')
    BY <1>9 DEF CopyAccessLog, TeardownFailed, ReadableLog
  <2>3. SquidConf' = SquidConf
    BY <2>1 DEF SquidConf
  <2>4. \A l \in log : l.result = ResultCode(SquidConf, l.request)
    BY DEF TelemetryInv
  <2>5. (\A l \in log : l.result = ResultCode(SquidConf, l.request))'
    BY <2>1, <2>3, <2>4 DEF ResultCode
  <2>6. ParseSquidAccessLog(log)' = ParseSquidAccessLog(log)
    BY <2>1
  <2> QED
    BY <2>1, <2>2, <2>5, <2>6 DEF TelemetryInv
<1>10. CASE WriteEventsJSONL
  <2>1. PICK r \in BackgroundResults :
          /\ events' = IF r = "ok"
                      THEN [exists |-> TRUE, blocked |-> ParseSquidAccessLog(logData)]
                      ELSE events
          /\ r # "ok" => pc' = "stop"
    BY <1>10 DEF WriteEventsJSONL, TeardownFailed
  <2>2. pc = "events" /\ UNCHANGED <<options, log, logData, agent, status>>
    BY <1>10 DEF WriteEventsJSONL
  <2>3. SquidConf' = SquidConf
    BY <2>2 DEF SquidConf
  <2>4. \A l \in log : l.result = ResultCode(SquidConf, l.request)
    BY DEF TelemetryInv
  <2>5. (\A l \in log : l.result = ResultCode(SquidConf, l.request))'
    BY <2>2, <2>3, <2>4 DEF ResultCode
  <2>6. ParseSquidAccessLog(log)' = ParseSquidAccessLog(log)
    BY <2>2
  <2> QED
    BY <2>1, <2>2, <2>5, <2>6 DEF TelemetryInv
<1>11. CASE CopySquidLog
  <2>1. events' = events \/ events' = NoFile
    BY <1>11 DEF CopySquidLog
  <2>2. pc' = "stop" /\ UNCHANGED <<options, log, agent, status>>
    BY <1>11 DEF CopySquidLog, TeardownFailed
  <2>3. SquidConf' = SquidConf
    BY <2>2 DEF SquidConf
  <2>4. \A l \in log : l.result = ResultCode(SquidConf, l.request)
    BY DEF TelemetryInv
  <2>5. (\A l \in log : l.result = ResultCode(SquidConf, l.request))'
    BY <2>2, <2>3, <2>4 DEF ResultCode
  <2>6. ParseSquidAccessLog(log)' = ParseSquidAccessLog(log)
    BY <2>2
  <2> QED
    BY <2>1, <2>2, <2>5, <2>6 DEF TelemetryInv, NoFile
<1> QED
  BY <1>1, <1>2, <1>3, <1>4, <1>5, <1>6, <1>7, <1>8, <1>9, <1>10, <1>11 DEF Next

\* The telemetry of a run that promote would accept has every destination the
\* agent was denied and no other, wherever an extraction before it has stopped
\* (topology.go, accesslog.go, completeness.go).
THEOREM PromotableTelemetryIsWhole == Spec => []TelemetryIsWhole
<1> DEFINE Inv == TypeInv /\ PcInv /\ TelemetryInv
<1>1. Init => Inv
  <2>1. Init => PcInv
    BY InitProxyInv DEF ProxyInv
  <2>2. Init => TelemetryInv
    BY DEF Init, TelemetryInv, NoFile
  <2> QED
    BY <2>1, <2>2, InitTypeInv
<1>2. Inv /\ [Next]_vars => Inv'
  BY TypeStep, PcStep, TelemetryStep
<1>3. Inv => TelemetryIsWhole
  <2> SUFFICES ASSUME Inv, Proxied, Promotable
               PROVE  events.blocked =
                        {DestinationOf(l) : l \in {m \in log : ~SquidAllows(SquidConf, m.request)}}
    BY DEF TelemetryIsWhole
  <2>1. events.blocked = {DestinationOf(l) : l \in {m \in log : m.result = "TCP_DENIED"}}
    BY DEF TelemetryInv, Promotable, ParseSquidAccessLog
  <2>2. \A m \in log : m.result = "TCP_DENIED" <=> ~SquidAllows(SquidConf, m.request)
    BY DEF TelemetryInv, ResultCode
  <2>3. {m \in log : m.result = "TCP_DENIED"} = {m \in log : ~SquidAllows(SquidConf, m.request)}
    BY <2>2
  <2> QED
    BY <2>1, <2>3
<1> HIDE DEF Inv
<1> QED
  BY <1>1, <1>2, <1>3, PTL DEF Spec

\* What one step may do to telemetry that has been extracted.
TelemetryKept == extracted => extracted' /\ events' = events

LEMMA TelemetryKeptStep ==
  ASSUME TypeInv, [Next]_vars PROVE TelemetryKept
<1> USE DEF TelemetryKept, settled, cmdVars, faultVars, dockerVars, logs, fileVars
<1>0. extracted => pc \notin {"events", "squidLog"}
  BY DEF TypeInv
<1>1. CASE WriteEventsJSONL \/ CopySquidLog
  BY <1>0, <1>1 DEF WriteEventsJSONL, CopySquidLog
<1>2. CASE \/ ResolveOptions \/ Bootstrap \/ WriteCompiledYAML \/ CreateNetwork \/ CreateSquid
           \/ StartSquid \/ UndoSquid \/ UndoNetwork \/ DiscoverMounts \/ ProbeImage
  BY <1>2 DEF ResolveOptions, Bootstrap, WriteCompiledYAML, CreateNetwork, CreateSquid,
              StartSquid, UndoSquid, UndoNetwork, DiscoverMounts, ProbeImage
<1>3. CASE \/ Provision \/ PrepareRuntimeState \/ UpdateAgent \/ SkipUpdate \/ OtherWritesCache
           \/ Assemble \/ DropScratch \/ DropWorktree \/ DropProxy \/ Crash
  BY <1>3 DEF Provision, PrepareRuntimeState, UpdateAgent, SkipUpdate, OtherWritesCache,
              Assemble, DropScratch, DropWorktree, DropProxy, Crash
<1>4. CASE \/ LaunchAgent \/ FinishRun \/ AgentRequests \/ AgentExits \/ SignalArrives
           \/ TeardownIsLate \/ UNCHANGED vars
  BY <1>4 DEF LaunchAgent, FinishRun, AgentRequests, AgentExits, SignalArrives, TeardownIsLate,
     vars
<1>5. CASE CopyAccessLog \/ StopSquid \/ RemoveNetwork
  BY <1>5 DEF CopyAccessLog, StopSquid, RemoveNetwork
<1> QED
  BY <1>1, <1>2, <1>3, <1>4, <1>5 DEF Next

\* What one Teardown has extracted the next leaves alone (topology.go): Squid's
\* log may be gone with its container by then.
THEOREM ExtractedIsKept == Spec => TelemetryIsKept
<1>1. Init => TypeInv
  BY InitTypeInv
<1>2. TypeInv /\ [Next]_vars => TypeInv'
  BY TypeStep
<1>3. TypeInv /\ [Next]_vars => [TelemetryKept]_vars
  BY TelemetryKeptStep
<1>4. [TelemetryKept]_vars <=> [extracted => extracted' /\ events' = events]_vars
  BY DEF TelemetryKept
<1> QED
  BY <1>1, <1>2, <1>3, <1>4, PTL DEF Spec, TelemetryIsKept

-----------------------------------------------------------------------------
(* The options.                                                            *)

\* What a list that has been accepted may still hold.
Unchecked ==
  \/ ResolvesProvider(options)
  \/ \E e \in ResolveAllowlist(options) : e.host \in Colons

LEMMA DefaultPort == 443 \in Ports
BY SMT DEF Ports

\* An entry that parses does so again as canonical text, unless its host has
\* a colon.
LEMMA ParsedParses ==
  ASSUME NEW e \in Entries, Parses(e), e.host \notin Colons
  PROVE  Parses(Canonical(ParseDestination(e)))
<1> DEFINE c == Canonical(ParseDestination(e))
<1>1. /\ c.host = e.host /\ c.bracketed = FALSE
      /\ c.port = IF e.port = NoPort THEN 443 ELSE e.port
  BY DEF Canonical, ParseDestination
<1>2. e.host \notin BadHosts /\ (e.port = NoPort \/ e.port \in Ports)
  BY DEF Parses
<1>3. c.port \in Ports
  BY <1>1, <1>2, DefaultPort
<1> HIDE DEF c
<1>4. Parses(c)
  BY <1>1, <1>2, <1>3 DEF Parses
<1> QED
  BY <1>4 DEF c

LEMMA AcceptedParses ==
  ASSUME NEW entries \in SUBSET Entries, Accepts(entries), ~Compiles(ParseDestinations(entries))
  PROVE  \E c \in ParseDestinations(entries) : c.host \in Colons
<1>1. PICK e \in entries : ~Parses(Canonical(ParseDestination(e)))
  BY DEF Compiles, ParseDestinations
<1>2. e \in Entries /\ Parses(e)
  BY DEF Accepts
<1>3. e.host \in Colons
  BY <1>1, <1>2, ParsedParses
<1>4. Canonical(ParseDestination(e)).host = e.host
  BY DEF Canonical, ParseDestination
<1> QED
  BY <1>3, <1>4 DEF ParseDestinations

\* What Setup cannot compile of options that were accepted.
LEMMA OnlyUncheckedFails ==
  ASSUME options \in Options, Proxied, ~Refused(options), ~Compiles(ResolveAllowlist(options))
  PROVE  Unchecked
<1>1. options.allow \in SUBSET Entries /\ options.userConfig \in SUBSET Entries
  BY DEF Options
<1>2. UserAllow(options) \in SUBSET Entries
  BY <1>1 DEF UserAllow
<1>3. Accepts(options.allow) /\ Accepts(UserAllow(options)) /\ AllowlistSource(options) # "refused"
  BY DEF Refused
<1>4. CASE AllowlistSource(options) = "user_config"
  <2>1. ResolveAllowlist(options) = ParseDestinations(UserAllow(options))
    BY <1>4 DEF ResolveAllowlist
  <2> QED
    BY <1>2, <1>3, <2>1, AcceptedParses DEF Unchecked
<1>5. CASE AllowlistSource(options) = "built_in"
  <2>1. SUFFICES ASSUME ~ResolvesProvider(options)
                 PROVE  \E e \in ResolveAllowlist(options) : e.host \in Colons
    BY DEF Unchecked
  <2>2. AgentHosts(options) \subseteq ClaudeCodeHosts
    BY <2>1 DEF AgentHosts
  <2>3. ResolveAllowlist(options) = FullBuiltInAllowlist(options)
    BY <1>5 DEF ResolveAllowlist
  <2> DEFINE entry(h) == Canonical([host |-> h, port |-> 443])
  <2>4. PICK h \in BaselineHosts \cup AgentHosts(options) : ~Parses(entry(h))
    BY <2>3 DEF Compiles, FullBuiltInAllowlist
  <2>5. entry(h) = [host |-> h, bracketed |-> FALSE, port |-> 443]
    BY DEF Canonical
  <2>6. h \notin BadHosts
    BY <2>2, BuiltInsAssumption
  <2>7. h \in Colons
    BY <2>4, <2>5, <2>6, DefaultPort DEF Parses, NoPort
  <2>8. entry(h) \in ResolveAllowlist(options)
    BY <2>3 DEF FullBuiltInAllowlist
  <2> QED
    BY <2>5, <2>7, <2>8
<1>6. CASE AllowlistSource(options) \notin {"user_config", "built_in"}
  <2>1. ResolveAllowlist(options) = ParseDestinations(options.allow)
    BY <1>6 DEF ResolveAllowlist
  <2> QED
    BY <1>1, <1>3, <2>1, AcceptedParses DEF Unchecked
<1> QED
  BY <1>4, <1>5, <1>6

\* The options that reach Setup have been accepted; Setup fails because of a
\* call that failed, of a signal, or of what nobody has checked.
OptionsInv ==
  /\ pc \in {"bootstrap", "compile"} => ~Refused(options)
  /\ pc \in {"undo", "undoSquid", "undoNetwork"} => failures > 0 \/ sig
  /\ topology = "failed" => failures > 0 \/ sig \/ Unchecked

LEMMA OptionsStep ==
  ASSUME TypeInv, PcInv, OptionsInv, [Next]_vars PROVE OptionsInv'
<1> USE DEF PcInv, Before, SetupPcs, Working, TeardownPcs, Unwind, settled, cmdVars, faultVars,
            dockerVars, logs, fileVars
<1>0. /\ failures \in 0..MaxFailures /\ failures \in Int /\ sig \in BOOLEAN /\ late \in BOOLEAN
      /\ options \in Options
  BY BoundsAssumption DEF TypeInv, TypeOK
<1>1. options' = options /\ (sig => sig') /\ (failures > 0 => failures' > 0)
  BY CallsStep
<1>2. Refused(options)' = Refused(options) /\ Unchecked' = Unchecked
  BY <1>1 DEF Unchecked
<1>3. CASE ResolveOptions
  <2>1. pc' = "done" \/ (pc' = "bootstrap" /\ ~Refused(options))
    BY <1>3 DEF ResolveOptions
  <2>2. topology' = topology
    BY <1>3 DEF ResolveOptions
  <2> QED
    BY <1>1, <1>2, <2>1, <2>2 DEF OptionsInv
<1>4. CASE Bootstrap
  <2>1. pc = "bootstrap" /\ pc' \in {"compile", "discover", "dropScratch"} /\ topology' = topology
    BY <1>4 DEF Bootstrap
  <2> QED
    BY <1>1, <1>2, <2>1 DEF OptionsInv
<1>5. CASE WriteCompiledYAML
  <2>1. pc = "compile" /\ pc' \in {"network", "dropScratch"}
    BY <1>5 DEF WriteCompiledYAML
  <2>2. CASE Compiles(ResolveAllowlist(options))
    <3>1. PICK r \in BackgroundResults :
            /\ topology' = IF r = "ok" THEN topology ELSE "failed"
            /\ Count(r, FALSE)
      BY <1>5, <2>2 DEF WriteCompiledYAML
    <3>2. topology' = topology \/ failures' > 0
      BY <1>0, <3>1, BackgroundOutcome
    <3> QED
      BY <1>1, <1>2, <2>1, <3>2 DEF OptionsInv
  <2>3. CASE ~Compiles(ResolveAllowlist(options))
    <3>1. Unchecked
      BY <1>0, <2>1, <2>3, OnlyUncheckedFails DEF OptionsInv
    <3> QED
      BY <1>2, <2>1, <3>1 DEF OptionsInv
  <2> QED
    BY <2>2, <2>3
<1>6. CASE CreateNetwork \/ CreateSquid \/ StartSquid
  <2>1. /\ pc' \notin {"bootstrap", "compile", "undoNetwork"}
        /\ topology # "failed"
    BY <1>6 DEF CreateNetwork, CreateSquid, StartSquid, AfterSquidStep, SquidStepFailed
  <2>2. PICK r \in CommandResults :
          /\ Count(r, sig) /\ Cut(r)
          /\ topology' = "failed" \/ pc' \in {"undo", "undoSquid"} => r # "ok"
    <3>1. CASE CreateNetwork
      BY <2>1, <3>1 DEF CreateNetwork
    <3>2. CASE CreateSquid
      BY <2>1, <3>2 DEF CreateSquid
    <3>3. CASE StartSquid
      BY <2>1, <3>3 DEF StartSquid, AfterSquidStep
    <3> QED
      BY <1>6, <3>1, <3>2, <3>3
  <2>3. r # "ok" => failures' > 0 \/ sig'
    BY <1>0, <2>2, CommandOutcome
  <2> QED
    BY <2>1, <2>2, <2>3 DEF OptionsInv
<1>7. CASE UndoSquid \/ UndoNetwork
  <2>1. /\ pc \in {"undo", "undoSquid", "undoNetwork"}
        /\ pc' \in {"undoSquid", "undoNetwork", "dropScratch"}
    BY <1>7 DEF UndoSquid, UndoNetwork
  <2> QED
    BY <1>1, <1>2, <2>1 DEF OptionsInv
<1>8. ASSUME pc' \notin Before \cup SetupPcs, topology' = "failed" => topology = "failed"
      PROVE  OptionsInv'
  BY <1>1, <1>2, <1>8 DEF OptionsInv
<1>9. CASE \/ DiscoverMounts \/ ProbeImage \/ Provision \/ PrepareRuntimeState \/ UpdateAgent
           \/ SkipUpdate \/ Assemble
  <2>1. pc' \notin Before \cup SetupPcs /\ topology' = topology
    BY <1>9 DEF DiscoverMounts, ProbeImage, Provision, PrepareRuntimeState, UpdateAgent,
                SkipUpdate, Assemble
  <2> QED
    BY <1>8, <2>1
<1>10. CASE LaunchAgent \/ FinishRun \/ CopyAccessLog \/ WriteEventsJSONL \/ CopySquidLog \/ StopSquid
  <2>1. pc' \notin Before \cup SetupPcs /\ topology' = topology
    BY <1>10 DEF LaunchAgent, FinishRun, CopyAccessLog, WriteEventsJSONL, CopySquidLog,
                 StopSquid, AfterRun, TeardownFailed
  <2> QED
    BY <1>8, <2>1
<1>11. CASE RemoveNetwork \/ DropScratch \/ DropWorktree \/ DropProxy \/ Crash
  <2>1. pc' \notin Before \cup SetupPcs /\ topology' \in {topology, "down"}
    BY <1>11 DEF RemoveNetwork, DropScratch, DropWorktree, DropProxy, Crash
  <2> QED
    BY <1>8, <2>1
<1>12. CASE OtherWritesCache \/ AgentRequests \/ AgentExits \/ SignalArrives \/ TeardownIsLate \/ UNCHANGED vars
  <2>1. pc' = pc /\ topology' = topology
    BY <1>12 DEF OtherWritesCache, AgentRequests, AgentExits, SignalArrives, TeardownIsLate,
       vars
  <2> QED
    BY <1>1, <1>2, <2>1 DEF OptionsInv
<1> QED
  BY <1>3, <1>4, <1>5, <1>6, <1>7, <1>9, <1>10, <1>11, <1>12 DEF Next

\* Options that cannot be used are refused before anything is made, but for a
\* host with a colon and a provider's host (allowlist.go, run.go).
THEOREM BadOptionsRefused == Spec => []BadOptionsAreRefusedEarly
<1> DEFINE Inv == TypeInv /\ PcInv /\ OptionsInv
<1>1. Init => Inv
  <2>1. Init => PcInv
    BY InitProxyInv DEF ProxyInv
  <2>2. Init => OptionsInv
    BY DEF Init, OptionsInv
  <2> QED
    BY <2>1, <2>2, InitTypeInv
<1>2. Inv /\ [Next]_vars => Inv'
  BY TypeStep, PcStep, OptionsStep
<1>3. Inv => BadOptionsAreRefusedEarly
  <2> SUFFICES ASSUME Inv, topology = "failed", failures = 0, ~sig PROVE Unchecked
    BY DEF BadOptionsAreRefusedEarly, Unchecked
  <2>1. ~(failures > 0)
    OBVIOUS
  <2> QED
    BY <2>1 DEF OptionsInv
<1> HIDE DEF Inv
<1> QED
  BY <1>1, <1>2, <1>3, PTL DEF Spec

-----------------------------------------------------------------------------
(* The agent's container.                                                  *)

\* The cache is mounted only when the agent's own update has made it whole.
CacheInv == updated => cache = "whole" \/ shared

LEMMA CacheStep ==
  ASSUME CacheInv, [Next]_vars PROVE CacheInv'
<1> USE DEF CacheInv, settled
<1>1. CASE UpdateAgent
  BY <1>1 DEF UpdateAgent
<1>2. CASE OtherWritesCache
  BY <1>2 DEF OtherWritesCache
<1>3. CASE \/ ResolveOptions \/ Bootstrap \/ WriteCompiledYAML \/ CreateNetwork \/ CreateSquid
           \/ StartSquid \/ UndoSquid \/ UndoNetwork \/ DiscoverMounts \/ ProbeImage
  BY <1>3 DEF ResolveOptions, Bootstrap, WriteCompiledYAML, CreateNetwork, CreateSquid,
              StartSquid, UndoSquid, UndoNetwork, DiscoverMounts, ProbeImage
<1>4. CASE \/ Provision \/ PrepareRuntimeState \/ SkipUpdate \/ Assemble \/ LaunchAgent \/ FinishRun
           \/ AgentRequests \/ AgentExits
  BY <1>4 DEF Provision, PrepareRuntimeState, SkipUpdate, Assemble, LaunchAgent, FinishRun,
              AgentRequests, AgentExits
<1>5. CASE \/ CopyAccessLog \/ WriteEventsJSONL \/ CopySquidLog \/ StopSquid \/ RemoveNetwork
           \/ DropScratch \/ DropWorktree \/ DropProxy \/ SignalArrives \/ TeardownIsLate \/ Crash
           \/ UNCHANGED vars
  BY <1>5 DEF CopyAccessLog, WriteEventsJSONL, CopySquidLog, StopSquid, RemoveNetwork,
              DropScratch, DropWorktree, DropProxy, SignalArrives, TeardownIsLate, Crash, vars
<1> QED
  BY <1>1, <1>2, <1>3, <1>4, <1>5 DEF Next

\* The agent is not started from a cache that its update has left in pieces
\* (init.go), failed, late or interrupted as it may have been.
THEOREM BakedAgentIsFallback == Spec => []FallsBackToBaked
<1>1. Init => CacheInv
  BY DEF Init, CacheInv
<1>2. CacheInv /\ [Next]_vars => CacheInv'
  BY CacheStep
<1>3. CacheInv => FallsBackToBaked
  BY DEF CacheInv, FallsBackToBaked, CacheIsMounted
<1> QED
  BY <1>1, <1>2, <1>3, PTL DEF Spec

\* A path in the scratch directory begins with it.
LEMMA FirstOfAppend ==
  ASSUME NEW x PROVE SubSeq(Append(ScratchRoot, x), 1, 1) = ScratchRoot
<1> DEFINE S == {"scratch", x}
           path == Append(ScratchRoot, x)
<1>1. ScratchRoot \in Seq(S) /\ Len(ScratchRoot) = 1
  BY DEF ScratchRoot
<1>2. Len(path) = 2 /\ path \in Seq(S) /\ path[1] = ScratchRoot[1]
  <2>1. x \in S
    OBVIOUS
  <2> HIDE DEF S
  <2>2. Append(ScratchRoot, x) \in Seq(S)
    BY <1>1, <2>1, AppendProperties
  <2>3. Len(Append(ScratchRoot, x)) = Len(ScratchRoot) + 1
    BY <1>1, <2>1, AppendProperties
  <2>4. \A i \in 1..Len(ScratchRoot) : Append(ScratchRoot, x)[i] = ScratchRoot[i]
    BY <1>1, <2>1, AppendProperties
  <2> QED
    BY <1>1, <2>2, <2>3, <2>4
<1> HIDE DEF path
<1>3. \A i \in 1..1 : path[i] \in S
  BY <1>2, ElementOfSeq
<1>4. /\ SubSeq(path, 1, 1) \in Seq(S) /\ Len(SubSeq(path, 1, 1)) = 1
      /\ SubSeq(path, 1, 1)[1] = path[1]
  BY <1>3, SubSeqProperties
<1>5. SubSeq(path, 1, 1) = ScratchRoot
  BY <1>1, <1>2, <1>4, SeqEqual
<1> QED
  BY <1>5 DEF path

\* What is discovered is read-only, and a copy stands in for the rest.
LEMMA StagedIsHarmless ==
  ASSUME NEW path
  PROVE  LET s == Staged(HostMount(path, Seeded(path)))
         IN  s.readOnly \/ SubSeq(s.hostPath, 1, 1) = ScratchRoot
<1> DEFINE m == HostMount(path, Seeded(path))
<1>1. CASE ~Seeded(path)
  <2>1. m.seedIntoRuntime = FALSE /\ m.readOnly = TRUE
    BY <1>1 DEF HostMount, Seeded
  <2> QED
    BY <2>1 DEF Staged
<1>2. CASE Seeded(path)
  <2>1. m.seedIntoRuntime
    BY <1>2 DEF HostMount
  <2>2. Staged(m).hostPath = Append(ScratchRoot, m.containerPath[Len(m.containerPath)])
    BY <2>1 DEF Staged
  <2> QED
    BY <2>2, FirstOfAppend
<1> QED
  BY <1>1, <1>2

\* Of the host the agent can write to the worktree and to the copies made for
\* it, whatever the home directory holds (runtime_state.go, mount.go): also
\* when the user's own configuration is mounted.
THEOREM HostStaysReadOnly == Spec => []HostIsReadOnly
<1>1. HostIsReadOnly
  <2> SUFFICES ASSUME NEW m \in AgentMounts
               PROVE  m.readOnly \/ m.source = Worktree \/ SubSeq(m.source, 1, 1) = ScratchRoot
    BY DEF HostIsReadOnly
  <2>1. CASE m = Mount(Worktree, <<"work">>, FALSE)
    BY <2>1 DEF Mount
  <2>2. CASE m = Mount(<<"evidence">>, <<"evidence">>, TRUE) \/ m = CacheMount
    BY <2>2 DEF Mount, CacheMount
  <2>3. CASE \E s \in EffectiveMounts(Auth) : m = Mount(s.hostPath, s.containerPath, s.readOnly)
    <3>1. PICK s \in EffectiveMounts(Auth) : m = Mount(s.hostPath, s.containerPath, s.readOnly)
      BY <2>3
    <3>2. PICK path : s = Staged(HostMount(path, Seeded(path)))
      BY DEF EffectiveMounts, Auth, AuthMounts
    <3>3. s.readOnly \/ SubSeq(s.hostPath, 1, 1) = ScratchRoot
      BY <3>2, StagedIsHarmless
    <3> QED
      BY <3>1, <3>3 DEF Mount
  <2>4. CASE \E s \in Config : m = Mount(s.hostPath, s.containerPath, s.readOnly)
    BY <2>4 DEF Config, ConfigMounts, HostMount, Mount
  <2> QED
    BY <2>1, <2>2, <2>3, <2>4 DEF AgentMounts, AssembleMounts
<1> QED
  BY <1>1, PTL

-----------------------------------------------------------------------------
(* Where the mounts of the agent's container are.                          *)

\* What follows a beginning of a path is what was appended to it.
LEMMA RestOfConcat ==
  ASSUME NEW S, NEW s \in Seq(S), NEW t \in Seq(S)
  PROVE  SubSeq(s \o t, Len(s) + 1, Len(s \o t)) = t
<1> DEFINE c == s \o t
           m == Len(s) + 1
           n == Len(c)
<1>1. Len(s) \in Nat /\ Len(t) \in Nat
  BY LenProperties
<1>2. /\ c \in Seq(S) /\ n = Len(s) + Len(t)
      /\ \A i \in 1..(Len(s) + Len(t)) : c[i] = IF i <= Len(s) THEN s[i] ELSE t[i - Len(s)]
  BY ConcatProperties
<1> HIDE DEF c
<1>3. /\ m \in Int /\ n \in Int
      /\ \A i \in m..n : c[i] \in S
  BY <1>1, <1>2, ElementOfSeq
<1>4. /\ SubSeq(c, m, n) \in Seq(S)
      /\ Len(SubSeq(c, m, n)) = IF m <= n THEN n - m + 1 ELSE 0
      /\ \A i \in 1..(n - m + 1) : SubSeq(c, m, n)[i] = c[m + i - 1]
  <2> HIDE DEF m, n
  <2> QED
    BY <1>3, SubSeqProperties
<1>5. Len(SubSeq(c, m, n)) = Len(t)
  BY <1>1, <1>2, <1>4
<1>6. \A i \in 1..Len(t) : SubSeq(c, m, n)[i] = t[i]
  <2> TAKE i \in 1..Len(t)
  <2>1. i \in 1..(n - m + 1) /\ m + i - 1 = Len(s) + i
    BY <1>1, <1>2
  <2>2. Len(s) + i \in 1..(Len(s) + Len(t)) /\ ~ (Len(s) + i <= Len(s)) /\ (Len(s) + i) - Len(s) = i
    BY <1>1
  <2> QED
    BY <1>2, <1>4, <2>1, <2>2
<1>7. SubSeq(c, m, n) = t
  BY <1>4, <1>5, <1>6, SeqEqual
<1> QED
  BY <1>7 DEF c

\* What begins a path agrees with it as far as it goes.
Begins(dir, path) == Len(dir) <= Len(path) /\ \A i \in 1..Len(dir) : path[i] = dir[i]

LEMMA PrefixBegins ==
  ASSUME NEW S, NEW path \in Seq(S), NEW k \in Nat, k <= Len(path)
  PROVE  Len(SubSeq(path, 1, k)) = k /\ Begins(SubSeq(path, 1, k), path)
<1>1. Len(path) \in Nat
  BY LenProperties
<1>2. \A i \in 1..k : path[i] \in S
  BY <1>1, ElementOfSeq
<1>3. /\ Len(SubSeq(path, 1, k)) = IF 1 <= k THEN k - 1 + 1 ELSE 0
      /\ \A i \in 1..(k - 1 + 1) : SubSeq(path, 1, k)[i] = path[1 + i - 1]
  BY <1>2, SubSeqProperties
<1>4. Len(SubSeq(path, 1, k)) = k
  BY <1>3
<1>5. \A i \in 1..k : SubSeq(path, 1, k)[i] = path[i]
  <2> TAKE i \in 1..k
  <2>1. i \in 1..(k - 1 + 1) /\ 1 + i - 1 = i
    OBVIOUS
  <2> QED
    BY <1>3, <2>1
<1> QED
  BY <1>4, <1>5 DEF Begins

\* A path in the home directory of the container.
LEMMA PathInHome ==
  ASSUME NEW S, "home" \in S, "tessariq" \in S, NEW p \in Seq(S)
  PROVE  LET t == ContainerHome \o p
         IN  /\ t \in Seq(S) /\ Len(t) = Len(p) + 2 /\ Len(p) \in Nat
             /\ t[1] = "home" /\ t[2] = "tessariq"
             /\ \A i \in 1..Len(p) : t[i + 2] = p[i]
<1>1. /\ ContainerHome \in Seq(S) /\ Len(ContainerHome) = 2
      /\ ContainerHome[1] = "home" /\ ContainerHome[2] = "tessariq"
  BY DEF ContainerHome
<1>2. Len(p) \in Nat
  BY LenProperties
<1> DEFINE t == ContainerHome \o p
<1>3. /\ t \in Seq(S) /\ Len(t) = Len(ContainerHome) + Len(p)
      /\ \A i \in 1..(Len(ContainerHome) + Len(p)) :
           t[i] = IF i <= Len(ContainerHome) THEN ContainerHome[i] ELSE p[i - Len(ContainerHome)]
  BY <1>1, ConcatProperties
<1> HIDE DEF t
<1>4. t[1] = "home" /\ t[2] = "tessariq" /\ Len(t) = Len(p) + 2
  BY <1>1, <1>2, <1>3
<1>5. \A i \in 1..Len(p) : t[i + 2] = p[i]
  <2> TAKE i \in 1..Len(p)
  <2>1. i + 2 \in 1..(Len(ContainerHome) + Len(p)) /\ ~ (i + 2 <= Len(ContainerHome))
        /\ (i + 2) - Len(ContainerHome) = i
    BY <1>1, <1>2
  <2> QED
    BY <1>3, <2>1
<1> QED
  BY <1>2, <1>3, <1>4, <1>5 DEF t

\* One path in the home directory begins another just when it does so there.
LEMMA BeginsInHome ==
  ASSUME NEW S, "home" \in S, "tessariq" \in S, NEW p \in Seq(S), NEW q \in Seq(S),
         Begins(ContainerHome \o p, ContainerHome \o q)
  PROVE  Begins(p, q)
<1> DEFINE s == ContainerHome \o p
           t == ContainerHome \o q
<1>1. /\ Len(s) = Len(p) + 2 /\ Len(p) \in Nat
      /\ \A i \in 1..Len(p) : s[i + 2] = p[i]
  BY PathInHome
<1>2. /\ Len(t) = Len(q) + 2 /\ Len(q) \in Nat
      /\ \A i \in 1..Len(q) : t[i + 2] = q[i]
  BY PathInHome
<1>3. Len(s) <= Len(t) /\ \A i \in 1..Len(s) : t[i] = s[i]
  BY DEF Begins
<1> HIDE DEF s, t
<1>4. Len(p) <= Len(q)
  BY <1>1, <1>2, <1>3
<1>5. \A i \in 1..Len(p) : q[i] = p[i]
  <2> TAKE i \in 1..Len(p)
  <2>1. i + 2 \in 1..Len(s) /\ i \in 1..Len(q)
    BY <1>1, <1>2, <1>4
  <2> QED
    BY <1>1, <1>2, <1>3, <2>1
<1> QED
  BY <1>4, <1>5 DEF Begins

LEMMA InsideBegins ==
  ASSUME NEW S, NEW path \in Seq(S), NEW dir \in Seq(S), Inside(path, dir)
  PROVE  Begins(dir, path)
<1>1. Len(dir) \in Nat /\ Len(dir) <= Len(path) /\ SubSeq(path, 1, Len(dir)) = dir
  BY LenProperties DEF Inside
<1> QED
  BY <1>1, PrefixBegins

\* The names of which the paths of the agents consist.
Names ==
  {"home", "tessariq", ".claude", ".credentials.json", ".claude.json", ".local", "share", "opencode",
   "auth.json", "state", "model.json", ".config", "work", "evidence", "cache"}

FilesOf(who) == AuthFiles(who) \cup StateFiles(who)

LEMMA PathsOfAgent ==
  ASSUME NEW who
  PROVE  /\ "home" \in Names /\ "tessariq" \in Names
         /\ \A f \in FilesOf(who) : f \in Seq(Names) /\ f # ConfigDir(who)
         /\ ConfigDir(who) \in Seq(Names)
<1>1. /\ Credentials \in Seq(Names) /\ ClaudeJSON \in Seq(Names)
      /\ OpenCodeAuth \in Seq(Names) /\ ModelJSON \in Seq(Names)
  BY DEF Credentials, ClaudeJSON, OpenCodeAuth, ModelJSON, Names
<1>2. <<".claude">> \in Seq(Names) /\ <<".config", "opencode">> \in Seq(Names)
  BY DEF Names
<1>3. /\ Credentials # <<".claude">> /\ ClaudeJSON # <<".claude">>
      /\ OpenCodeAuth # <<".config", "opencode">> /\ ModelJSON # <<".config", "opencode">>
  BY DEF Credentials, ClaudeJSON, OpenCodeAuth, ModelJSON
<1>4. "home" \in Names /\ "tessariq" \in Names
  BY DEF Names
<1> QED
  BY <1>1, <1>2, <1>3, <1>4 DEF FilesOf, AuthFiles, StateFiles, ConfigDir

\* No file of an agent is in another, none has the configuration in it, and the
\* configuration has only the credentials of Claude Code in it.
LEMMA NothingInside ==
  ASSUME NEW who
  PROVE  /\ \A f, g \in FilesOf(who) : Begins(f, g) => f = g
         /\ \A f \in FilesOf(who) : ~ Begins(f, ConfigDir(who))
         /\ \A f \in FilesOf(who) :
              Begins(ConfigDir(who), f) => f = Credentials /\ ConfigDir(who) = <<".claude">>
<1>1. /\ Len(Credentials) = 2 /\ Credentials[1] = ".claude"
      /\ Len(ClaudeJSON) = 1 /\ ClaudeJSON[1] = ".claude.json"
  BY DEF Credentials, ClaudeJSON
<1>2. /\ Len(OpenCodeAuth) = 4 /\ OpenCodeAuth[1] = ".local" /\ OpenCodeAuth[2] = "share"
      /\ Len(ModelJSON) = 4 /\ ModelJSON[1] = ".local" /\ ModelJSON[2] = "state"
  BY DEF OpenCodeAuth, ModelJSON
<1>3. CASE who = "claude-code"
  <2> DEFINE d == <<".claude">>
  <2>1. FilesOf(who) = {Credentials, ClaudeJSON} /\ ConfigDir(who) = d
    BY <1>3 DEF FilesOf, AuthFiles, StateFiles, ConfigDir
  <2>2. Len(d) = 1 /\ d[1] = ".claude"
    OBVIOUS
  <2> HIDE DEF d
  <2>3. ~ Begins(Credentials, ClaudeJSON) /\ ~ Begins(ClaudeJSON, Credentials)
    BY <1>1 DEF Begins
  <2>4. ~ Begins(Credentials, d) /\ ~ Begins(ClaudeJSON, d) /\ ~ Begins(d, ClaudeJSON)
    BY <1>1, <2>2 DEF Begins
  <2> QED
    BY <2>1, <2>3, <2>4 DEF d
<1>4. CASE who # "claude-code"
  <2> DEFINE d == <<".config", "opencode">>
  <2>1. FilesOf(who) = {OpenCodeAuth, ModelJSON} /\ ConfigDir(who) = d
    BY <1>4 DEF FilesOf, AuthFiles, StateFiles, ConfigDir
  <2>2. Len(d) = 2 /\ d[1] = ".config"
    OBVIOUS
  <2> HIDE DEF d
  <2>3. ~ Begins(OpenCodeAuth, ModelJSON) /\ ~ Begins(ModelJSON, OpenCodeAuth)
    BY <1>2 DEF Begins
  <2>4. /\ ~ Begins(OpenCodeAuth, d) /\ ~ Begins(ModelJSON, d)
        /\ ~ Begins(d, OpenCodeAuth) /\ ~ Begins(d, ModelJSON)
    BY <1>2, <2>2 DEF Begins
  <2> QED
    BY <2>1, <2>3, <2>4
<1> QED
  BY <1>3, <1>4

\* What lies behind the credentials of Claude Code is what its configuration
\* directory has at that place.
LEMMA CredentialsAreInPlace ==
  LET d == <<".claude">>
      t == ContainerHome \o d
      c == ContainerHome \o Credentials
  IN  Host(Credentials) = Host(d) \o SubSeq(c, Len(t) + 1, Len(c))
<1> DEFINE d == <<".claude">>
           r == <<".credentials.json">>
           h == <<"home">>
<1>1. d \in Seq(Names) /\ r \in Seq(Names) /\ h \in Seq(Names) /\ ContainerHome \in Seq(Names)
  BY DEF Names, ContainerHome
<1>2. Credentials = d \o r
  <2>1. /\ Credentials \in Seq(Names) /\ Len(Credentials) = 2
        /\ Credentials[1] = ".claude" /\ Credentials[2] = ".credentials.json"
    BY DEF Credentials, Names
  <2>2. Len(d) = 1 /\ Len(r) = 1 /\ d[1] = ".claude" /\ r[1] = ".credentials.json"
    OBVIOUS
  <2> HIDE DEF d, r
  <2>3. /\ d \o r \in Seq(Names) /\ Len(d \o r) = Len(d) + Len(r)
        /\ \A i \in 1..(Len(d) + Len(r)) : (d \o r)[i] = IF i <= Len(d) THEN d[i] ELSE r[i - Len(d)]
    BY <1>1, ConcatProperties
  <2>4. Len(d \o r) = 2 /\ (d \o r)[1] = d[1] /\ (d \o r)[2] = r[1]
    BY <2>2, <2>3
  <2>5. \A i \in 1..2 : i = 1 \/ i = 2
    OBVIOUS
  <2>6. \A i \in 1..Len(Credentials) : Credentials[i] = (d \o r)[i]
    BY <2>1, <2>2, <2>4, <2>5
  <2> QED
    BY <2>1, <2>3, <2>4, <2>6, SeqEqual
<1> HIDE DEF d, r, h
<1> DEFINE t == ContainerHome \o d
<1>3. t \in Seq(Names)
  BY <1>1, ConcatProperties
<1>4. ContainerHome \o Credentials = t \o r
  <2>1. (ContainerHome \o d) \o r = ContainerHome \o (d \o r)
    BY <1>1, ConcatAssociative, SMTT(20)
  <2> QED
    BY <1>2, <2>1
<1>5. h \o Credentials = (h \o d) \o r
  <2>1. (h \o d) \o r = h \o (d \o r)
    BY <1>1, ConcatAssociative, SMTT(20)
  <2> QED
    BY <1>2, <2>1
<1>6. SubSeq(t \o r, Len(t) + 1, Len(t \o r)) = r
  <2> HIDE DEF t
  <2> QED
    BY <1>1, <1>3, RestOfConcat
<1> QED
  BY <1>4, <1>5, <1>6 DEF Host, d, h

\* The mounts of the agent's container: of a file, of the configuration, or one
\* of those that every agent may have.
FileMount(f) ==
  Mount(Staged(HostMount(f, Seeded(f))).hostPath, ContainerHome \o f,
        Staged(HostMount(f, Seeded(f))).readOnly)
DirMount(d) == Mount(Host(d), ContainerHome \o d, TRUE)
CommonMounts ==
  {Mount(Worktree, <<"work">>, FALSE), Mount(<<"evidence">>, <<"evidence">>, TRUE), CacheMount}

LEMMA StagedStaysInPlace ==
  ASSUME NEW f
  PROVE  Staged(HostMount(f, Seeded(f))).containerPath = ContainerHome \o f
BY DEF Staged, HostMount

LEMMA MountsOfAgent ==
  ASSUME NEW m \in AgentMounts
  PROVE  \/ m \in CommonMounts
         \/ \E f \in FilesOf(options.agent) : m = FileMount(f)
         \/ m = DirMount(ConfigDir(options.agent)) /\ Config # {}
<1> DEFINE Common == {Mount(Worktree, <<"work">>, FALSE), Mount(<<"evidence">>, <<"evidence">>, TRUE)}
           Eff == EffectiveMounts(Auth)
<1>1. \/ m \in Common
      \/ \E s \in Eff \cup Config : m = Mount(s.hostPath, s.containerPath, s.readOnly)
      \/ m = CacheMount
  BY DEF AgentMounts, AssembleMounts
<1>2. CASE m \in Common \/ m = CacheMount
  BY <1>2 DEF CommonMounts
<1>3. CASE \E s \in Eff : m = Mount(s.hostPath, s.containerPath, s.readOnly)
  <2>1. PICK s \in Eff : m = Mount(s.hostPath, s.containerPath, s.readOnly)
    BY <1>3
  <2>2. PICK f \in FilesOf(options.agent) : s = Staged(HostMount(f, Seeded(f)))
    BY DEF EffectiveMounts, Auth, AuthMounts, FilesOf
  <2> QED
    BY <2>1, <2>2, StagedStaysInPlace DEF FileMount
<1>4. CASE \E s \in Config : m = Mount(s.hostPath, s.containerPath, s.readOnly)
  <2>1. PICK s \in Config : m = Mount(s.hostPath, s.containerPath, s.readOnly)
    BY <1>4
  <2>2. s = HostMount(ConfigDir(options.agent), FALSE)
    BY DEF Config, ConfigMounts
  <2> QED
    BY <2>1, <2>2 DEF DirMount, HostMount
<1> QED
  BY <1>1, <1>2, <1>3, <1>4

\* No tmpfs is needed but on the way to a file.
LEMMA DirsOfFiles ==
  ASSUME NEW d \in FileDirs(EffectiveMounts(Auth))
  PROVE  \E f \in FilesOf(options.agent) :
           Begins(d, ContainerHome \o f) /\ 3 <= Len(d) /\ Len(d) < Len(ContainerHome \o f)
<1>1. PICK s \in EffectiveMounts(Auth) : d \in DirsBelowHome(s.containerPath)
  BY DEF FileDirs
<1>2. PICK f \in FilesOf(options.agent) : s = Staged(HostMount(f, Seeded(f)))
  BY DEF EffectiveMounts, Auth, AuthMounts, FilesOf
<1> DEFINE c == ContainerHome \o f
<1>3. s.containerPath = c
  BY <1>2, StagedStaysInPlace
<1>4. f \in Seq(Names) /\ "home" \in Names /\ "tessariq" \in Names
  BY PathsOfAgent
<1>5. c \in Seq(Names) /\ Len(c) = Len(f) + 2 /\ Len(f) \in Nat
  BY <1>4, PathInHome
<1> HIDE DEF c
<1>6. Len(ContainerHome) = 2
  BY DEF ContainerHome
<1>7. PICK k \in 3..(Len(c) - 1) : d = SubSeq(c, 1, k)
  BY <1>1, <1>3, <1>6 DEF DirsBelowHome
<1>8. k \in Nat /\ 3 <= k /\ k <= Len(c) /\ k < Len(c)
  BY <1>5, <1>7
<1>9. Len(d) = k /\ Begins(d, c)
  BY <1>5, <1>7, <1>8, PrefixBegins
<1> QED
  BY <1>8, <1>9 DEF c

\* The two kinds of place: outside the home directory, and in it.
LEMMA PlacesOfMounts ==
  /\ \A m \in CommonMounts :
       /\ Len(m.target) = 1 /\ m.target[1] # "home"
       /\ \A n \in CommonMounts : n.target[1] = m.target[1] => m = n
  /\ \A p \in Seq(Names) :
       Len(ContainerHome \o p) \in Nat /\ Len(ContainerHome \o p) >= 2 /\ (ContainerHome \o p)[1] = "home"
<1>1. /\ Len(<<"work">>) = 1 /\ <<"work">>[1] = "work"
      /\ Len(<<"evidence">>) = 1 /\ <<"evidence">>[1] = "evidence"
      /\ Len(<<"cache">>) = 1 /\ <<"cache">>[1] = "cache"
  OBVIOUS
<1>2. \A m \in CommonMounts :
        \/ m = Mount(Worktree, <<"work">>, FALSE) /\ m.target = <<"work">>
        \/ m = Mount(<<"evidence">>, <<"evidence">>, TRUE) /\ m.target = <<"evidence">>
        \/ m = CacheMount /\ m.target = <<"cache">>
  BY DEF CommonMounts, Mount, CacheMount
<1>3. ASSUME NEW p \in Seq(Names)
      PROVE  Len(ContainerHome \o p) \in Nat /\ Len(ContainerHome \o p) >= 2 /\ (ContainerHome \o p)[1] = "home"
  <2>1. "home" \in Names /\ "tessariq" \in Names
    BY DEF Names
  <2>2. Len(ContainerHome \o p) = Len(p) + 2 /\ Len(p) \in Nat /\ (ContainerHome \o p)[1] = "home"
    BY <2>1, PathInHome
  <2> QED
    BY <2>2
<1>4. ASSUME NEW m \in CommonMounts, NEW n \in CommonMounts, n.target[1] = m.target[1]
      PROVE  m = n
  BY <1>1, <1>2, <1>4
<1>5. ASSUME NEW m \in CommonMounts
      PROVE  Len(m.target) = 1 /\ m.target[1] # "home"
  BY <1>1, <1>2
<1> QED
  BY <1>3, <1>4, <1>5

\* Of two mounts one is inside the other only where Claude Code has its
\* credentials in its configuration directory.
LEMMA OnlyCredentialsInside ==
  ASSUME NEW m \in AgentMounts, NEW n \in AgentMounts, m # n, Begins(n.target, m.target)
  PROVE  /\ n = DirMount(<<".claude">>)
         /\ m = FileMount(Credentials)
         /\ ~ Begins(m.target, n.target)
<1> DEFINE a == options.agent
           dir == ConfigDir(a)
           Files == FilesOf(a)
<1>0. /\ "home" \in Names /\ "tessariq" \in Names
      /\ dir \in Seq(Names) /\ \A f \in Files : f \in Seq(Names) /\ f # dir
  BY PathsOfAgent
<1>1. /\ \A f, g \in Files : Begins(f, g) => f = g
      /\ \A f \in Files : ~ Begins(f, dir)
      /\ \A f \in Files : Begins(dir, f) => f = Credentials /\ dir = <<".claude">>
  BY NothingInside
<1>2. \A x \in AgentMounts :
        x \in CommonMounts \/ (\E f \in Files : x = FileMount(f)) \/ x = DirMount(dir)
  BY MountsOfAgent
<1>3. /\ \A f \in Files : FileMount(f).target = ContainerHome \o f
      /\ DirMount(dir).target = ContainerHome \o dir
  BY DEF FileMount, DirMount, Mount
<1> HIDE DEF dir, Files
<1>4. /\ \A x \in CommonMounts :
           /\ Len(x.target) = 1 /\ x.target[1] # "home"
           /\ \A y \in CommonMounts : y.target[1] = x.target[1] => x = y
      /\ \A p \in Seq(Names) :
           /\ Len(ContainerHome \o p) \in Nat /\ Len(ContainerHome \o p) >= 2
           /\ (ContainerHome \o p)[1] = "home"
  BY PlacesOfMounts
<1>5. \A p, q \in Seq(Names) : Begins(ContainerHome \o p, ContainerHome \o q) => Begins(p, q)
  BY <1>0, BeginsInHome
<1>6. \A x \in AgentMounts :
        \/ x \in CommonMounts
        \/ \E p \in Seq(Names) : x.target = ContainerHome \o p
  BY <1>0, <1>2, <1>3
<1>7. Len(n.target) <= Len(m.target) /\ \A i \in 1..Len(n.target) : m.target[i] = n.target[i]
  BY DEF Begins
<1>8. m \notin CommonMounts /\ n \notin CommonMounts
  <2>1. CASE n \in CommonMounts
    <3>1. m.target[1] = n.target[1]
      BY <1>4, <1>7, <2>1
    <3>2. m \in CommonMounts
      BY <1>4, <1>6, <2>1, <3>1
    <3> QED
      BY <1>4, <2>1, <3>1, <3>2
  <2>2. CASE m \in CommonMounts /\ n \notin CommonMounts
    <3>1. Len(n.target) <= 1
      BY <1>4, <1>7, <2>2
    <3>2. PICK p \in Seq(Names) : n.target = ContainerHome \o p
      BY <1>6, <2>2
    <3> QED
      BY <1>4, <3>1, <3>2
  <2> QED
    BY <2>1, <2>2
<1>9. CASE m = DirMount(dir)
  <2>1. PICK f \in Files : n = FileMount(f)
    BY <1>2, <1>8, <1>9
  <2>2. Begins(f, dir)
    BY <1>0, <1>3, <1>5, <1>9, <2>1
  <2> QED
    BY <1>1, <2>2
<1>10. ASSUME NEW g \in Files, m = FileMount(g)
       PROVE  n = DirMount(<<".claude">>) /\ m = FileMount(Credentials) /\ ~ Begins(m.target, n.target)
  <2>1. CASE n = DirMount(dir)
    <3>1. Begins(dir, g)
      BY <1>0, <1>3, <1>5, <1>10, <2>1
    <3>2. ~ Begins(m.target, n.target)
      <4>1. m.target = ContainerHome \o g /\ n.target = ContainerHome \o dir
        BY <1>3, <1>10, <2>1
      <4>2. Begins(m.target, n.target) => Begins(g, dir)
        BY <1>0, <1>5, <4>1
      <4> QED
        BY <1>1, <4>2
    <3> QED
      BY <1>1, <1>10, <2>1, <3>1, <3>2
  <2>2. ASSUME NEW f \in Files, n = FileMount(f) PROVE FALSE
    <3>1. Begins(f, g)
      BY <1>0, <1>3, <1>5, <1>10, <2>2
    <3> QED
      BY <1>1, <1>10, <2>2, <3>1
  <2> QED
    BY <1>2, <1>8, <2>1, <2>2
<1> QED
  BY <1>2, <1>8, <1>9, <1>10

LEMMA TargetsArePaths ==
  ASSUME NEW m \in AgentMounts PROVE m.target \in Seq(Names)
<1>1. CASE m \in CommonMounts
  <2>1. <<"work">> \in Seq(Names) /\ <<"evidence">> \in Seq(Names) /\ <<"cache">> \in Seq(Names)
    BY DEF Names
  <2>2. m.target = <<"work">> \/ m.target = <<"evidence">> \/ m.target = <<"cache">>
    BY <1>1 DEF CommonMounts, Mount, CacheMount
  <2> QED
    BY <2>1, <2>2
<1>2. ASSUME NEW p \in Seq(Names), m.target = ContainerHome \o p PROVE m.target \in Seq(Names)
  BY <1>2, PathsOfAgent, PathInHome
<1>3. \/ m \in CommonMounts
      \/ \E f \in FilesOf(options.agent) : m = FileMount(f)
      \/ m = DirMount(ConfigDir(options.agent))
  BY MountsOfAgent
<1>4. /\ \A f \in FilesOf(options.agent) : f \in Seq(Names) /\ FileMount(f).target = ContainerHome \o f
      /\ ConfigDir(options.agent) \in Seq(Names)
      /\ DirMount(ConfigDir(options.agent)).target = ContainerHome \o ConfigDir(options.agent)
  BY PathsOfAgent DEF FileMount, DirMount, Mount
<1> QED
  BY <1>1, <1>2, <1>3, <1>4

\* However the home directory is furnished, whichever agent, with or without
\* the user's configuration and the cache: no two mounts are at one place, none
\* is where a tmpfs is, and what lies in a read-only mount has its place there.
LEMMA MountsFit == Mountable(AgentMounts, Tmpfs)
<1>1. ASSUME NEW m \in AgentMounts, NEW n \in AgentMounts, m.target = n.target PROVE m = n
  <2>1. Begins(n.target, m.target) /\ Begins(m.target, n.target)
    <3>1. Len(m.target) \in Nat
      BY TargetsArePaths, LenProperties
    <3> QED
      BY <1>1, <3>1 DEF Begins
  <2> QED
    BY <2>1, OnlyCredentialsInside
<1>2. ASSUME NEW m \in AgentMounts PROVE m.target \notin Tmpfs
  <2> DEFINE a == options.agent
             d == m.target
  <2> SUFFICES ASSUME d \in FileDirs(EffectiveMounts(Auth)), d \notin {s.containerPath : s \in Config}
               PROVE  FALSE
    BY DEF Tmpfs, WritableDirs
  <2>1. PICK f \in FilesOf(a) :
          Begins(d, ContainerHome \o f) /\ 3 <= Len(d) /\ Len(d) < Len(ContainerHome \o f)
    BY DirsOfFiles
  <2>2. f \in Seq(Names) /\ "home" \in Names /\ "tessariq" \in Names
    BY PathsOfAgent
  <2>3. m \notin CommonMounts
    <3>1. m \in CommonMounts => Len(d) = 1
      BY PlacesOfMounts
    <3>2. ~ (3 <= 1)
      OBVIOUS
    <3> QED
      BY <2>1, <3>1, <3>2
  <2>4. ASSUME NEW g \in FilesOf(a), m = FileMount(g) PROVE FALSE
    <3>1. g \in Seq(Names) /\ d = ContainerHome \o g
      BY <2>4, PathsOfAgent DEF FileMount, Mount
    <3>2. Begins(g, f)
      BY <2>1, <2>2, <3>1, BeginsInHome
    <3>3. g = f
      BY <3>2, NothingInside
    <3>4. Len(d) \in Nat
      BY <2>2, <3>1, PathInHome
    <3> QED
      BY <2>1, <3>1, <3>3, <3>4
  <2>5. ASSUME m = DirMount(ConfigDir(a)), Config # {} PROVE FALSE
    <3>1. PICK s \in Config : s = HostMount(ConfigDir(a), FALSE)
      BY <2>5 DEF Config, ConfigMounts
    <3>2. d = s.containerPath
      BY <2>5, <3>1 DEF DirMount, Mount, HostMount
    <3> QED
      BY <3>2
  <2> QED
    BY <2>3, <2>4, <2>5, MountsOfAgent
<1>3. ASSUME NEW m \in AgentMounts, NEW n \in AgentMounts, m # n, Inside(m.target, n.target)
      PROVE  m.source = n.source \o SubSeq(m.target, Len(n.target) + 1, Len(m.target))
  <2>1. Begins(n.target, m.target)
    BY <1>3, TargetsArePaths, InsideBegins
  <2>2. n = DirMount(<<".claude">>) /\ m = FileMount(Credentials)
    BY <1>3, <2>1, OnlyCredentialsInside
  <2>3. n.source = Host(<<".claude">>) /\ n.target = ContainerHome \o <<".claude">>
    BY <2>2 DEF DirMount, Mount
  <2>4. m.target = ContainerHome \o Credentials
    BY <2>2 DEF FileMount, Mount
  <2>5. m.source = Host(Credentials)
    <3>1. Len(Credentials) = 2 /\ Len(ClaudeJSON) = 1
      BY DEF Credentials, ClaudeJSON
    <3>2. ~ Seeded(Credentials)
      BY <3>1 DEF Seeded
    <3> QED
      BY <2>2, <3>2 DEF FileMount, Mount, Staged, HostMount
  <2> QED
    BY <2>3, <2>4, <2>5, CredentialsAreInPlace
<1> QED
  BY <1>1, <1>2, <1>3 DEF Mountable

\* However the home directory is furnished, Docker can set up what the agent's
\* container is to have mounted, and the agent can write to every directory
\* that one of its files is in, unless that is its configuration
\* (factory.go:136-139, 154-155).
THEOREM MountsAlwaysFit == Spec => []ContainerIsMountable
<1>1. FileDirs(Auth) \subseteq Tmpfs \cup {c.containerPath : c \in Config}
  <2>1. \A s \in Auth : Staged(s) \in EffectiveMounts(Auth) /\ Staged(s).containerPath = s.containerPath
    BY DEF EffectiveMounts, Staged
  <2>2. FileDirs(Auth) \subseteq FileDirs(EffectiveMounts(Auth))
    BY <2>1 DEF FileDirs
  <2> QED
    BY <2>2 DEF Tmpfs, WritableDirs
<1>2. ContainerIsMountable
  BY <1>1, MountsFit DEF ContainerIsMountable
<1> QED
  BY <1>2, PTL
=============================================================================
