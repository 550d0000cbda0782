------------------------- MODULE RunLifecycleProofs -------------------------
(***************************************************************************)
(* What TLAPS proves of RunLifecycle, for any number of concurrent attach  *)
(* and promote commands, any number of hooks, any exit statuses and any    *)
(* selection of faults: type correctness and the four properties of module *)
(* RunLifecycle that hold however the commands overlap.  SequentialNext    *)
(* allows no step that Next does not, so SequentialSpec has them as well.  *)
(***************************************************************************)
EXTENDS RunLifecycle, TLAPS

-----------------------------------------------------------------------------
(* Who leaves what alone.                                                  *)

ClientStep(c) == BeginClient(c) \/ ContinueClient(c) \/ GiveUp(c)

AgentStep == AgentEdits \/ (\E code \in ExitCodes : AgentExits(code)) \/ Prune

\* A step of the agent or of a client is none of the supervisor.
LEMMA SupervisorFrame ==
  ASSUME AgentStep \/ \E c \in Clients : ClientStep(c)
  PROVE  UNCHANGED <<cfg, supVars>>
  <1>1. AgentStep => UNCHANGED <<cfg, supVars>>
    BY DEF AgentStep, AgentEdits, AgentExits, Prune
  <1>2. ASSUME NEW c \in Clients, ClientStep(c) PROVE UNCHANGED <<cfg, supVars>>
    BY <1>2 DEF ClientStep, BeginClient, ContinueClient, GiveUp, PromoteReadStatus,
         ReadRunStatus, InspectContainer, ReadStartMarker, InferOutcome, WriteReconciledStatus,
         EnsureIndexState, RemoveRunContainer, RemoveRunWorktree, DecidePromotion
  <1>3. QED
    BY <1>1, <1>2

\* A step of the supervisor or of its surroundings is none of a client.
LEMMA ClientFrame ==
  ASSUME SupervisorStep \/ Environment
  PROVE  UNCHANGED cliVars
  <1>1. SupervisorStep => UNCHANGED cliVars
    BY DEF SupervisorStep, AppendRunningIndexEntry, WriteInitialStatus, OpenLogs,
         StartSession, StartPreHook, FinishPreHook, BeginCreate, CreateContainer,
         StartContainer, MarkStarted, WaitReturns, AgentFinished, AgentTimedOut,
         AgentCancelled, Escalate, StartVerifyHook, FinishVerifyHook, WriteDiffArtifacts,
         CleanupContainer, WriteTerminalStatus, EndAttach, AppendFinalIndexEntry, UnwindRun
  <1>2. Environment => UNCHANGED cliVars
    BY DEF Environment, DeadlinePasses, SignalArrives, Crash, AgentEdits, AgentExits, Prune
  <1>3. QED
    BY <1>1, <1>2

\* A step is one of four kinds, or changes nothing.
LEMMA StepKinds ==
  ASSUME [Next]_vars
  PROVE  \/ SupervisorStep
         \/ DeadlinePasses \/ (\E s \in Signals : SignalArrives(s)) \/ Crash
         \/ AgentStep
         \/ \E c \in Clients : ClientStep(c)
         \/ UNCHANGED vars
  BY DEF Next, Environment, AgentStep, ClientStep

-----------------------------------------------------------------------------
(* Type correctness.                                                       *)

\* The countdown of hook commands never drops below zero: a phase is
\* entered with at least one command to run.
HooksLeft ==
  /\ pc \in {"enroll", "begin", "logs", "session"} => left = cfg.pre
  /\ pc \in {"pre", "preRun", "verify", "verifyRun"} => left > 0

\* A context is cancelled by a signal only, so there is one to name.
CancelHasSignal == ctxErr = "canceled" => sig # "none"

\* A command that has got as far as writing holds a terminal state.
Concluding == {"write", "index", "container", "worktree", "decide"}
ConcludedView == \A c \in Clients : cpc[c] \in Concluding => IsTerminal(view[c].state)

TypeInv == TypeOK /\ HooksLeft /\ CancelHasSignal /\ ConcludedView

SupervisorInv == SupervisorTypeOK /\ HooksLeft /\ CancelHasSignal

\* The initial states are typed.
LEMMA TypeInit == Init => TypeInv
  <1> SUFFICES ASSUME Init PROVE TypeInv
    OBVIOUS
  <1>1. cfg.pre \in 0..MaxHooks
    BY DEF Init, Configs
  <1>2. NoStatus \in Statuses /\ NoCode \in 0..NoCode /\ NoCode \in WaitFailed..NoCode
    BY DEF NoStatus, Statuses, NoCode, WaitFailed
  <1>3. SupervisorTypeOK
    BY <1>1, <1>2 DEF Init, SupervisorTypeOK, SupervisorPcs, TerminalStates
  <1>4. SharedTypeOK
    BY <1>2 DEF Init, SharedTypeOK
  <1>5. ClientTypeOK
    BY <1>2 DEF Init, ClientTypeOK, ClientPcs
  <1>6. HooksLeft /\ CancelHasSignal /\ ConcludedView
    BY DEF Init, HooksLeft, CancelHasSignal, ConcludedView, Concluding
  <1>7. QED
    BY <1>3, <1>4, <1>5, <1>6 DEF TypeInv, TypeOK

\* Every step keeps the types of the supervisor's own state
\* (runner.go:107-252).
LEMMA SupervisorTypes ==
  ASSUME TypeInv, [Next]_vars
  PROVE  SupervisorInv'
  <1>0. /\ cfg.pre \in 0..MaxHooks
        /\ cfg.verify \in 0..MaxHooks
    BY DEF TypeInv, TypeOK, SupervisorTypeOK, Configs
  <1>1. CASE SupervisorStep
    <2> USE <1>0, MaxHooksAssumption
        DEF TypeInv, TypeOK, SupervisorInv, SupervisorTypeOK, HooksLeft, CancelHasSignal,
            SupervisorPcs, TerminalStates, Signals, ReleaseCtx, StartFailed
    <2>1. CASE AppendRunningIndexEntry
      BY <2>1 DEF AppendRunningIndexEntry
    <2>2. CASE WriteInitialStatus \/ OpenLogs
      <3>1. cmdErr' \in BOOLEAN
        BY <2>2 DEF WriteInitialStatus, OpenLogs, RunReturnsError
      <3>2. /\ UNCHANGED <<cfg, left, hookBad, sig, expired, ctxErr, out, rmFailed, owned,
                           waitRes>>
            /\ pc \in {"begin", "logs"}
            /\ pc' \in {"logs", "session", AfterBootstrap, "index"}
        BY <2>2 DEF WriteInitialStatus, OpenLogs, RunReturnsError
      <3> QED
        BY <3>1, <3>2 DEF AfterBootstrap
    <2>3. CASE StartSession
      BY <2>3 DEF StartSession, AfterBootstrap
    <2>4. CASE StartPreHook
      BY <2>4 DEF StartPreHook
    <2>5. CASE FinishPreHook
      BY <2>5 DEF FinishPreHook
    <2>6. CASE BeginCreate
      BY <2>6 DEF BeginCreate
    <2>7. CASE CreateContainer
      <3>1. /\ UNCHANGED <<cfg, left, hookBad, sig, expired, rmFailed, waitRes, cmdErr>>
            /\ \/ pc' = "start" /\ owned' = TRUE /\ UNCHANGED <<out, ctxErr>>
               \/ StartFailed /\ UNCHANGED owned
        BY <2>7 DEF CreateContainer
      <3>2. pc = "creating"
        BY <2>7 DEF CreateContainer
      <3>3. out' \in TerminalStates /\ owned' \in BOOLEAN /\ ctxErr' \in {ctxErr, "live"}
        BY <3>1
      <3>4. pc' \in {"start", "diff"}
        BY <3>1
      <3> QED
        BY <3>1, <3>2, <3>3, <3>4
    <2>8. CASE StartContainer
      BY <2>8 DEF StartContainer
    <2>9. CASE MarkStarted
      BY <2>9 DEF MarkStarted
    <2>10. CASE WaitReturns
      BY <2>10 DEF WaitReturns, SharedTypeOK, NoCode, WaitFailed
    <2>11. CASE AgentFinished
      BY <2>11 DEF AgentFinished, ToVerify, NoCode, WaitFailed
    <2>12. CASE AgentTimedOut
      BY <2>12 DEF AgentTimedOut
    <2>13. CASE AgentCancelled
      BY <2>13 DEF AgentCancelled
    <2>14. CASE Escalate
      BY <2>14 DEF Escalate, NoCode, WaitFailed
    <2>15. CASE StartVerifyHook
      <3>1. \/ pc' = "verifyRun" /\ UNCHANGED <<hookBad, left, out>>
            \/ VerifyTimedOut
            \/ AfterVerifyHook(TRUE)
        BY <2>15 DEF StartVerifyHook, FreshCtx
      <3>2. hookBad' \in BOOLEAN
        BY <3>1 DEF VerifyTimedOut, AfterVerifyHook
      <3>3. QED
        BY <2>15, <3>1, <3>2 DEF StartVerifyHook, VerifyTimedOut, AfterVerifyHook
    <2>16. CASE FinishVerifyHook
      BY <2>16 DEF FinishVerifyHook, VerifyTimedOut, AfterVerifyHook
    <2>17. CASE WriteDiffArtifacts
      BY <2>17 DEF WriteDiffArtifacts, Downgrade
    <2>18. CASE CleanupContainer
      <3>1. /\ UNCHANGED <<cfg, left, hookBad, sig, expired, ctxErr, waitRes, cmdErr>>
            /\ pc' = "finish" /\ owned' \in {owned, FALSE} /\ rmFailed' \in {rmFailed, TRUE}
            /\ out' = out \/ out' = Downgrade(out)
        BY <2>18 DEF CleanupContainer
      <3>2. pc = "cleanup"
        BY <2>18 DEF CleanupContainer
      <3>3. out' \in TerminalStates /\ owned' \in BOOLEAN /\ rmFailed' \in BOOLEAN
        BY <3>1 DEF Downgrade
      <3> QED
        BY <3>1, <3>2, <3>3
    <2>19. CASE WriteTerminalStatus \/ EndAttach \/ AppendFinalIndexEntry \/ UnwindRun
      <3>1. cmdErr' \in BOOLEAN
        BY <2>19 DEF WriteTerminalStatus, EndAttach, AppendFinalIndexEntry, UnwindRun
      <3>2. /\ UNCHANGED <<cfg, left, hookBad, sig, expired, ctxErr, out, rmFailed, owned,
                           waitRes>>
            /\ pc' \in {"attached", "index", "unwind", "done"}
        BY <2>19 DEF WriteTerminalStatus, EndAttach, AppendFinalIndexEntry, UnwindRun
      <3> QED
        BY <3>1, <3>2
    <2>20. QED
      BY <1>1, <2>1, <2>2, <2>3, <2>4, <2>5, <2>6, <2>7, <2>8, <2>9, <2>10, <2>11, <2>12,
         <2>13, <2>14, <2>15, <2>16, <2>17, <2>18, <2>19 DEF SupervisorStep
  <1>2. CASE DeadlinePasses
    BY <1>2 DEF DeadlinePasses, TypeInv, TypeOK, SupervisorInv, SupervisorTypeOK, HooksLeft,
         CancelHasSignal
  <1>3. ASSUME NEW s \in Signals, SignalArrives(s) PROVE SupervisorInv'
    BY <1>3 DEF SignalArrives, TypeInv, TypeOK, SupervisorInv, SupervisorTypeOK, HooksLeft,
         CancelHasSignal, Signals
  <1>4. CASE Crash
    <2>1. left' \in 0..MaxHooks /\ waitRes' \in WaitFailed..NoCode
      BY <1>4, MaxHooksAssumption DEF Crash, NoCode, WaitFailed
    <2>2. QED
      BY <1>4, <2>1 DEF Crash, TypeInv, TypeOK, SupervisorInv, SupervisorTypeOK, HooksLeft,
           CancelHasSignal, SupervisorPcs, TerminalStates
  <1>5. CASE UNCHANGED <<cfg, supVars>>
    BY <1>5 DEF supVars, TypeInv, TypeOK, SupervisorInv, SupervisorTypeOK, HooksLeft,
         CancelHasSignal
  <1>6. QED
    BY <1>1, <1>2, <1>3, <1>4, <1>5, StepKinds, SupervisorFrame DEF vars

\* Every step keeps the types of what the processes share: the container,
\* the evidence files, the index and the worktree.
LEMMA SharedTypes ==
  ASSUME TypeInv, [Next]_vars
  PROVE  SharedTypeOK'
  <1> USE DEF TypeInv, TypeOK, SharedTypeOK
  <1>1. CASE SupervisorStep
    <2> USE DEF ctrVars, evVars
    <2>1. CASE AppendRunningIndexEntry \/ OpenLogs \/ StartSession \/ BeginCreate
               \/ WaitReturns \/ AgentFinished \/ AgentTimedOut \/ AgentCancelled \/ EndAttach
               \/ UnwindRun
      BY <2>1, ZenonT(40)
       DEF AppendRunningIndexEntry, OpenLogs, StartSession, BeginCreate, WaitReturns,
           AgentFinished, AgentTimedOut, AgentCancelled, EndAttach, UnwindRun, WriteTimeoutFlag
    <2>2. CASE WriteInitialStatus
      <3>1. status' \in Statuses
        <4>1. Recorded("running") \in Statuses
          BY DEF Recorded, Statuses
        <4>2. status' \in {status, Recorded("running")}
          BY <2>2 DEF WriteInitialStatus
        <4>3. QED
          BY <4>1, <4>2
      <3>2. UNCHANGED <<ctrVars, flag, flagLost, marker, logFull, patch, indexLast, worktree>>
        BY <2>2 DEF WriteInitialStatus
      <3>3. QED
        BY <3>1, <3>2
    <2>3. CASE StartPreHook \/ FinishPreHook
      BY <2>3 DEF StartPreHook, FinishPreHook, WriteTimeoutFlag
    <2>4. CASE CreateContainer \/ StartContainer
      BY <2>4 DEF CreateContainer, StartContainer
    <2>5. CASE MarkStarted
      BY <2>5 DEF MarkStarted
    <2>6. CASE Escalate
      BY <2>6 DEF Escalate, NoCode
    <2>7. CASE StartVerifyHook \/ FinishVerifyHook
      BY <2>7 DEF StartVerifyHook, FinishVerifyHook, FreshCtx, VerifyTimedOut, AfterVerifyHook,
           WriteTimeoutFlag
    <2>8. CASE WriteDiffArtifacts \/ CleanupContainer
      BY <2>8 DEF WriteDiffArtifacts, CleanupContainer
    <2>9. CASE WriteTerminalStatus
      BY <2>9 DEF WriteTerminalStatus, SupervisorTypeOK, Statuses
    <2>10. CASE AppendFinalIndexEntry
      BY <2>10 DEF AppendFinalIndexEntry, Statuses
    <2>11. QED
      BY <1>1, <2>1, <2>2, <2>3, <2>4, <2>5, <2>6, <2>7, <2>8, <2>9, <2>10 DEF SupervisorStep
  <1>2. CASE DeadlinePasses \/ (\E s \in Signals : SignalArrives(s)) \/ Crash
    BY <1>2 DEF DeadlinePasses, SignalArrives, Crash, ctrVars, evVars
  <1>3. CASE AgentStep
    BY <1>3, ExitCodesAssumption DEF AgentStep, AgentEdits, AgentExits, Prune, ctrVars, evVars,
         NoCode
  <1>4. ASSUME NEW c \in Clients, ClientStep(c) PROVE SharedTypeOK'
    <2> USE DEF ctrVars, evVars
    <2>1. CASE WriteReconciledStatus(c)
      BY <2>1 DEF WriteReconciledStatus, ClientTypeOK
    <2>2. CASE EnsureIndexState(c)
      BY <2>2 DEF EnsureIndexState, ClientTypeOK, Statuses
    <2>3. CASE RemoveRunContainer(c) \/ RemoveRunWorktree(c)
      BY <2>3 DEF RemoveRunContainer, RemoveRunWorktree
    <2>4. CASE \/ BeginClient(c) \/ GiveUp(c) \/ ReadRunStatus(c) \/ InspectContainer(c)
               \/ ReadStartMarker(c) \/ InferOutcome(c) \/ DecidePromotion(c)
      BY <2>4 DEF BeginClient, GiveUp, PromoteReadStatus, ReadRunStatus, InspectContainer,
           ReadStartMarker, InferOutcome, DecidePromotion
    <2>5. QED
      BY <1>4, <2>1, <2>2, <2>3, <2>4 DEF ClientStep, ContinueClient
  <1>5. CASE UNCHANGED vars
    BY <1>5 DEF vars, ctrVars, evVars
  <1>6. QED
    BY <1>1, <1>2, <1>3, <1>4, <1>5, StepKinds

\* What the reconciler infers is a state a status file may hold
\* (reconcile.go:176-190).
LEMMA InferredIsTerminal ==
  ASSUME NEW seen
  PROVE  InferredState(seen) \in TerminalStates
  BY DEF InferredState, OutcomeOfExit, TerminalStates, Signals

\* Every step keeps the types of the attach and promote commands, and their
\* views terminal where they act on them.
LEMMA ClientTypes ==
  ASSUME TypeInv, [Next]_vars
  PROVE  ClientTypeOK' /\ ConcludedView'
  <1>1. CASE UNCHANGED cliVars
    BY <1>1 DEF TypeInv, TypeOK, ClientTypeOK, ConcludedView, IsTerminal, cliVars
  <1>2. ASSUME NEW c \in Clients, ClientStep(c) PROVE ClientTypeOK' /\ ConcludedView'
    <2> USE DEF TypeInv, TypeOK, ClientTypeOK, ClientPcs, ConcludedView, Concluding, IsTerminal,
                Goto
    <2>0. NoStatus \in Statuses
      BY DEF NoStatus, Statuses
    <2>1. CASE PromoteReadStatus(c) \/ ReadRunStatus(c)
      BY <2>1 DEF PromoteReadStatus, ReadRunStatus, SharedTypeOK
    <2>2. CASE InspectContainer(c)
      BY <2>0, <2>2 DEF InspectContainer, ShowsLife, Leave, SharedTypeOK
    <2>3. CASE ReadStartMarker(c)
      BY <2>0, <2>3 DEF ReadStartMarker, Leave
    <2>4. CASE InferOutcome(c)
      <3>1. /\ Recorded(InferredState(snap[c])) \in Statuses
            /\ IsTerminal(Recorded(InferredState(snap[c])).state)
        BY InferredIsTerminal DEF Recorded, Statuses
      <3>2. QED
        BY <2>4, <3>1 DEF InferOutcome
    <2>5. CASE WriteReconciledStatus(c) \/ EnsureIndexState(c)
      BY <2>5 DEF WriteReconciledStatus, EnsureIndexState
    <2>6. CASE RemoveRunContainer(c) \/ RemoveRunWorktree(c)
      BY <2>0, <2>6 DEF RemoveRunContainer, RemoveRunWorktree, Return, Leave
    <2>7. CASE DecidePromotion(c)
      <3>1. branch' \in {"none"} \cup TerminalStates
        BY <2>7 DEF DecidePromotion
      <3>2. QED
        BY <2>0, <2>7, <3>1 DEF DecidePromotion, Leave
    <2>8. CASE GiveUp(c)
      BY <2>0, <2>8 DEF GiveUp, Leave
    <2>9. QED
      BY <1>2, <2>1, <2>2, <2>3, <2>4, <2>5, <2>6, <2>7, <2>8
      DEF ClientStep, BeginClient, ContinueClient
  <1>3. QED
    BY <1>1, <1>2, StepKinds, ClientFrame DEF vars, Environment, AgentStep

\* Every step keeps the types.
LEMMA TypeStep == TypeInv /\ [Next]_vars => TypeInv'
  BY SupervisorTypes, SharedTypes, ClientTypes DEF TypeInv, TypeOK, SupervisorInv

\* The state of a run is always one the code knows, whatever overlaps.
THEOREM TypeCorrect == Spec => []TypeOK
  <1>1. TypeInv => TypeOK
    BY DEF TypeInv
  <1>2. QED
    BY <1>1, TypeInit, TypeStep, PTL DEF Spec

-----------------------------------------------------------------------------
(* What stands behind a recorded outcome.                                  *)

\* The evidence there must be for state s: an exit status of 0, the timeout
\* flag unless its write failed, or a signal or an exit status that stands
\* for one.
Founded(s) ==
  /\ s = "success" => exitCode = 0
  /\ s = "timeout" => flag \/ flagLost
  /\ s \in Signals => sig # "none" \/ exitCode \in {130, 137, 143}

\* The container runs once: its exit status is set once and for all.
BeforeAgent ==
  {"enroll", "begin", "logs", "session", "pre", "preRun", "create", "creating", "start"}
ExitedOnce ==
  /\ pc \in BeforeAgent => exitCode = NoCode /\ container \in {"absent", "created"}
  /\ container = "running" => exitCode = NoCode
  /\ container = "exited" => exitCode # NoCode
  /\ waitRes \in {NoCode, WaitFailed, exitCode}

\* The supervisor's outcome starts as success and is only as good as the
\* exit status once the agent is behind it; a run it is putting an end to
\* has another outcome already.
AfterAgent == {"verify", "verifyRun", "diff", "cleanup", "finish"}
Written == {"attached", "index", "unwind", "done"}
OutcomeFounded ==
  /\ out = "success" /\ pc \in AfterAgent => exitCode = 0
  /\ out = "success" /\ pc \in Written /\ ~cmdErr => exitCode = 0
  /\ out = "success" => pc \notin {"term", "kill"}
  /\ out = "timeout" => flag \/ flagLost
  /\ out \in Signals => sig # "none"

ViewsFounded == \A c \in Clients : Founded(view[c].state)

\* The run's first status is the supervisor's; no command starts before.
FirstStatus ==
  pc \in {"enroll", "begin"} => status.state = "none" /\ \A c \in Clients : cpc[c] = "idle"

FoundedInv ==
  TypeInv /\ ExitedOnce /\ OutcomeFounded /\ ViewsFounded /\ Founded(status.state) /\ FirstStatus

\* Nothing is recorded at first, so there is nothing to found.
LEMMA FoundedInit == Init => FoundedInv
  <1> SUFFICES ASSUME Init PROVE FoundedInv
    OBVIOUS
  <1>1. ExitedOnce
    BY DEF Init, ExitedOnce, NoCode
  <1>2. OutcomeFounded
    BY DEF Init, OutcomeFounded, AfterAgent, Written, Signals
  <1>3. ViewsFounded /\ Founded(status.state) /\ FirstStatus
    BY DEF Init, ViewsFounded, Founded, FirstStatus, NoStatus, Signals
  <1>4. QED
    BY <1>1, <1>2, <1>3, TypeInit DEF FoundedInv

\* Evidence never goes away: the exit status, the flag, its failed write and
\* the signal are each set at most once.
LEMMA EvidenceStays ==
  ASSUME FoundedInv, [Next]_vars
  PROVE  /\ exitCode # NoCode => exitCode' = exitCode
         /\ flag \/ flagLost => (flag \/ flagLost)'
         /\ sig # "none" => sig' = sig
  <1> USE DEF ctrVars, evVars, supVars
  <1>0. flag \in BOOLEAN /\ flagLost \in BOOLEAN
    BY DEF FoundedInv, TypeInv, TypeOK, SharedTypeOK
  <1>1. CASE SupervisorStep
    <2>1. CASE AppendRunningIndexEntry \/ WriteInitialStatus \/ OpenLogs \/ StartSession
               \/ BeginCreate \/ CreateContainer \/ StartContainer \/ MarkStarted
               \/ WaitReturns \/ AgentFinished \/ AgentCancelled
      BY <2>1 DEF AppendRunningIndexEntry, WriteInitialStatus, OpenLogs, StartSession,
           BeginCreate, CreateContainer, StartContainer, MarkStarted, WaitReturns,
           AgentFinished, AgentCancelled
    <2>2. CASE StartPreHook \/ FinishPreHook \/ AgentTimedOut
      BY <1>0, <2>2 DEF StartPreHook, FinishPreHook, AgentTimedOut, WriteTimeoutFlag
    <2>3. CASE StartVerifyHook \/ FinishVerifyHook
      <3>1. UNCHANGED <<flag, flagLost>> \/ WriteTimeoutFlag
        BY <2>3 DEF StartVerifyHook, FinishVerifyHook, FreshCtx, VerifyTimedOut,
             AfterVerifyHook
      <3>2. UNCHANGED <<exitCode, sig>>
        BY <2>3 DEF StartVerifyHook, FinishVerifyHook
      <3>3. QED
        BY <1>0, <3>1, <3>2 DEF WriteTimeoutFlag
    <2>4. CASE Escalate
      BY <2>4 DEF Escalate, FoundedInv, ExitedOnce
    <2>5. CASE WriteDiffArtifacts \/ CleanupContainer \/ WriteTerminalStatus \/ EndAttach
               \/ AppendFinalIndexEntry \/ UnwindRun
      BY <2>5 DEF WriteDiffArtifacts, CleanupContainer, WriteTerminalStatus, EndAttach,
           AppendFinalIndexEntry, UnwindRun
    <2>6. QED
      BY <1>1, <2>1, <2>2, <2>3, <2>4, <2>5 DEF SupervisorStep
  <1>2. CASE DeadlinePasses \/ (\E s \in Signals : SignalArrives(s)) \/ Crash
    BY <1>2 DEF DeadlinePasses, SignalArrives, Crash
  <1>3. CASE AgentStep
    BY <1>3 DEF AgentStep, AgentEdits, AgentExits, Prune, FoundedInv, ExitedOnce
  <1>4. ASSUME NEW c \in Clients, ClientStep(c)
        PROVE  UNCHANGED <<exitCode, flag, flagLost, sig>>
    BY <1>4 DEF ClientStep, BeginClient, ContinueClient, GiveUp, PromoteReadStatus,
         ReadRunStatus, InspectContainer, ReadStartMarker, InferOutcome, WriteReconciledStatus,
         EnsureIndexState, RemoveRunContainer, RemoveRunWorktree, DecidePromotion
  <1>5. QED
    BY <1>1, <1>2, <1>3, <1>4, StepKinds DEF vars

\* So what is founded stays founded.
LEMMA FoundedStays ==
  ASSUME FoundedInv, [Next]_vars, NEW s, Founded(s)
  PROVE  Founded(s)'
  BY EvidenceStays DEF Founded, NoCode

\* The container exits at most once, and an exited one has its exit status:
\* Docker starts it only out of the created state (process.go:147-153).
LEMMA ExitedOnceStep ==
  ASSUME FoundedInv, [Next]_vars
  PROVE  ExitedOnce'
  <1> USE DEF FoundedInv, ExitedOnce, BeforeAgent, ctrVars, supVars
  <1>1. CASE SupervisorStep
    <2>1. CASE AppendRunningIndexEntry \/ WriteInitialStatus \/ OpenLogs \/ StartSession
               \/ StartPreHook \/ BeginCreate
      BY <2>1 DEF AppendRunningIndexEntry, WriteInitialStatus, OpenLogs, RunReturnsError,
           AfterBootstrap, StartSession, StartPreHook, BeginCreate, StartFailed
    <2>2. CASE FinishPreHook
      BY <2>2 DEF FinishPreHook
    <2>3. CASE CreateContainer
      BY <2>3 DEF CreateContainer, StartFailed
    <2>4. CASE StartContainer
      BY <2>4 DEF StartContainer, StartFailed
    <2>5. CASE MarkStarted \/ WaitReturns
      BY <2>5 DEF MarkStarted, WaitReturns
    <2>6. CASE AgentFinished \/ AgentTimedOut \/ AgentCancelled
      BY <2>6 DEF AgentFinished, ToVerify, AgentTimedOut, AgentCancelled
    <2>7. CASE Escalate
      BY <2>7 DEF Escalate, NoCode, WaitFailed
    <2>8. CASE StartVerifyHook
      <3>1. pc' \notin BeforeAgent
        BY <2>8 DEF StartVerifyHook, FreshCtx, VerifyTimedOut, AfterVerifyHook
      <3>2. QED
        BY <2>8, <3>1 DEF StartVerifyHook
    <2>9. CASE FinishVerifyHook
      <3>1. pc' \notin BeforeAgent
        BY <2>9 DEF FinishVerifyHook, VerifyTimedOut, AfterVerifyHook
      <3>2. QED
        BY <2>9, <3>1 DEF FinishVerifyHook
    <2>10. CASE WriteDiffArtifacts \/ CleanupContainer
      BY <2>10 DEF WriteDiffArtifacts, CleanupContainer
    <2>11. CASE WriteTerminalStatus \/ EndAttach \/ AppendFinalIndexEntry \/ UnwindRun
      BY <2>11 DEF WriteTerminalStatus, EndAttach, AppendFinalIndexEntry, UnwindRun
    <2>12. QED
      BY <1>1, <2>1, <2>2, <2>3, <2>4, <2>5, <2>6, <2>7, <2>8, <2>9, <2>10, <2>11
      DEF SupervisorStep
  <1>2. CASE DeadlinePasses \/ (\E s \in Signals : SignalArrives(s)) \/ Crash
    BY <1>2 DEF DeadlinePasses, SignalArrives, Crash
  <1>3. CASE AgentStep
    BY <1>3, ExitCodesAssumption DEF AgentStep, AgentEdits, AgentExits, Prune, NoCode,
       WaitFailed
  <1>4. ASSUME NEW c \in Clients, ClientStep(c)
        PROVE  /\ UNCHANGED <<pc, exitCode, waitRes>>
               /\ container' \in {container, "absent"}
    BY <1>4 DEF ClientStep, BeginClient, ContinueClient, GiveUp, PromoteReadStatus,
         ReadRunStatus, InspectContainer, ReadStartMarker, InferOutcome, WriteReconciledStatus,
         EnsureIndexState, RemoveRunContainer, RemoveRunWorktree, DecidePromotion
  <1>5. QED
    BY <1>1, <1>2, <1>3, <1>4, StepKinds DEF vars

\* The supervisor's outcome (runner.go:148-228, 292-343).
LEMMA OutcomeFoundedStep ==
  ASSUME FoundedInv, [Next]_vars
  PROVE  OutcomeFounded'
  <1>0. FoundedInv /\ SupervisorTypeOK /\ CancelHasSignal /\ ExitedOnce /\ OutcomeFounded
    BY DEF FoundedInv, TypeInv, TypeOK
  <1> USE DEF OutcomeFounded, AfterAgent, Written, Signals, ctrVars, supVars
  <1>1. CASE SupervisorStep
    <2>1. CASE \/ AppendRunningIndexEntry \/ WriteInitialStatus \/ OpenLogs \/ MarkStarted
               \/ WaitReturns \/ WriteTerminalStatus \/ EndAttach \/ AppendFinalIndexEntry
               \/ UnwindRun
      BY <1>0, <2>1 DEF AppendRunningIndexEntry, WriteInitialStatus, OpenLogs, RunReturnsError,
           AfterBootstrap, MarkStarted, WaitReturns, WriteTerminalStatus, EndAttach,
           AppendFinalIndexEntry, UnwindRun, evVars
    <2>2. CASE StartSession
      BY <1>0, <2>2 DEF StartSession, AfterBootstrap, evVars
    <2>3. CASE StartPreHook
      BY <1>0, <2>3 DEF StartPreHook, FreshCtx, WriteTimeoutFlag
    <2>4. CASE FinishPreHook
      BY <1>0, <2>4 DEF FinishPreHook, WriteTimeoutFlag
    <2>5. CASE BeginCreate \/ CreateContainer \/ StartContainer
      BY <1>0, <2>5 DEF BeginCreate, CreateContainer, StartContainer, StartFailed, evVars
    <2>6. CASE AgentFinished
      BY <1>0, <2>6 DEF AgentFinished, ToVerify, ExitedOnce, NoCode, WaitFailed, evVars
    <2>7. CASE AgentTimedOut
      BY <1>0, <2>7 DEF AgentTimedOut, WriteTimeoutFlag
    <2>8. CASE AgentCancelled
      BY <1>0, <2>8 DEF AgentCancelled, CancelHasSignal, SupervisorTypeOK, evVars
    <2>9. CASE Escalate
      <3>1. /\ UNCHANGED <<out, flag, flagLost, sig>>
            /\ out # "success" /\ pc' \in {"kill", "diff"}
        BY <1>0, <2>9 DEF Escalate, evVars
      <3>2. QED
        BY <1>0, <3>1
    <2>10. CASE StartVerifyHook
      <3>1. \/ pc' = "verifyRun" /\ UNCHANGED <<out, flag, flagLost>>
            \/ VerifyTimedOut
            \/ AfterVerifyHook(TRUE)
        BY <2>10 DEF StartVerifyHook, FreshCtx
      <3>2. pc = "verify" /\ UNCHANGED <<exitCode, sig>>
        BY <2>10 DEF StartVerifyHook
      <3>3. QED
        BY <1>0, <3>1, <3>2 DEF VerifyTimedOut, AfterVerifyHook, WriteTimeoutFlag
    <2>11. CASE FinishVerifyHook
      <3>1. \/ VerifyTimedOut
            \/ \E bad \in BOOLEAN : AfterVerifyHook(bad)
        BY <2>11 DEF FinishVerifyHook
      <3>2. pc = "verifyRun" /\ UNCHANGED <<exitCode, sig>>
        BY <2>11 DEF FinishVerifyHook
      <3>3. QED
        BY <1>0, <3>1, <3>2 DEF VerifyTimedOut, AfterVerifyHook, WriteTimeoutFlag
    <2>12. CASE WriteDiffArtifacts
      BY <1>0, <2>12 DEF WriteDiffArtifacts, Downgrade
    <2>13. CASE CleanupContainer
      BY <1>0, <2>13 DEF CleanupContainer, Downgrade, evVars
    <2>14. QED
      BY <1>1, <2>1, <2>2, <2>3, <2>4, <2>5, <2>6, <2>7, <2>8, <2>9, <2>10, <2>11, <2>12,
         <2>13 DEF SupervisorStep
  <1>2. CASE DeadlinePasses
    BY <1>0, <1>2 DEF DeadlinePasses, evVars
  <1>3. ASSUME NEW s \in Signals, SignalArrives(s) PROVE OutcomeFounded'
    BY <1>0, <1>3 DEF SignalArrives, evVars
  <1>4. CASE Crash
    BY <1>4 DEF Crash, evVars
  <1>5. CASE UNCHANGED <<cfg, supVars>>
    <2>1. exitCode = 0 => exitCode' = 0
      BY <1>0, EvidenceStays DEF NoCode
    <2>2. flag \/ flagLost => (flag \/ flagLost)'
      BY <1>0, EvidenceStays
    <2>3. QED
      BY <1>0, <1>5, <2>1, <2>2
  <1>6. QED
    BY <1>1, <1>2, <1>3, <1>4, <1>5, StepKinds, SupervisorFrame DEF vars

\* What the reconciler infers is founded on what it has seen.
LEMMA InferredIsFounded ==
  ASSUME NEW seen
  PROVE  Founded(InferredState(seen))
  BY DEF InferredState, OutcomeOfExit, Founded, Signals

\* What a client has read or inferred stays founded until it is done with it
\* (reconcile.go:59-124, promote.go:77-91).
LEMMA ViewsFoundedStep ==
  ASSUME FoundedInv, [Next]_vars
  PROVE  ViewsFounded'
  <1>1. CASE UNCHANGED view
    <2> SUFFICES ASSUME NEW c \in Clients PROVE Founded(view[c].state)'
      BY DEF ViewsFounded
    <2> QED
      BY <1>1, EvidenceStays DEF FoundedInv, ViewsFounded, Founded, NoCode
  <1>2. ASSUME NEW c \in Clients, ClientStep(c), view' # view PROVE ViewsFounded'
    <2>1. view'[c] \in {status, NoStatus, Recorded(InferredState(snap[c]))}
      BY <1>2 DEF ClientStep, BeginClient, ContinueClient, GiveUp, PromoteReadStatus,
           ReadRunStatus, InspectContainer, ReadStartMarker, InferOutcome,
           WriteReconciledStatus, EnsureIndexState, RemoveRunContainer, RemoveRunWorktree,
           DecidePromotion, Leave, Return, Goto, FoundedInv, TypeInv, TypeOK, ClientTypeOK
    <2>2. Founded(view'[c].state)
      BY <2>1, InferredIsFounded DEF FoundedInv, NoStatus, Recorded, Founded, Signals
    <2>3. \A d \in Clients \ {c} : view'[d] = view[d]
      BY <1>2 DEF ClientStep, BeginClient, ContinueClient, GiveUp, PromoteReadStatus,
           ReadRunStatus, InspectContainer, ReadStartMarker, InferOutcome,
           WriteReconciledStatus, EnsureIndexState, RemoveRunContainer, RemoveRunWorktree,
           DecidePromotion, Leave, Return, Goto, FoundedInv, TypeInv, TypeOK, ClientTypeOK
    <2>4. \A d \in Clients : Founded(view'[d].state)
      BY <2>2, <2>3 DEF FoundedInv, ViewsFounded
    <2>5. QED
      BY <2>4, EvidenceStays DEF ViewsFounded, Founded, NoCode
  <1>3. QED
    BY <1>1, <1>2, StepKinds, ClientFrame DEF vars, cliVars, Environment, AgentStep

\* A status is written by the supervisor at its start and its end, and by a
\* reconciler (runner.go:111, 521-539, reconcile.go:122).
LEMMA StatusWriters ==
  ASSUME [Next]_vars, status' # status
  PROVE  \/ WriteInitialStatus
         \/ WriteTerminalStatus
         \/ \E c \in Clients : WriteReconciledStatus(c)
  <1>1. SupervisorStep => WriteInitialStatus \/ WriteTerminalStatus
    BY DEF SupervisorStep, AppendRunningIndexEntry, OpenLogs, StartSession, StartPreHook,
         FinishPreHook, BeginCreate, CreateContainer, StartContainer, MarkStarted, WaitReturns,
         AgentFinished, AgentTimedOut, AgentCancelled, Escalate, StartVerifyHook,
         FinishVerifyHook, WriteDiffArtifacts, CleanupContainer, EndAttach,
         AppendFinalIndexEntry, UnwindRun, evVars
  <1>2. ~ (DeadlinePasses \/ (\E s \in Signals : SignalArrives(s)) \/ Crash \/ AgentStep)
    BY DEF DeadlinePasses, SignalArrives, Crash, AgentStep, AgentEdits, AgentExits, Prune,
         evVars
  <1>3. ASSUME NEW c \in Clients, ClientStep(c) PROVE WriteReconciledStatus(c)
    BY <1>3 DEF ClientStep, BeginClient, ContinueClient, GiveUp, PromoteReadStatus,
         ReadRunStatus, InspectContainer, ReadStartMarker, InferOutcome,
         EnsureIndexState, RemoveRunContainer, RemoveRunWorktree, DecidePromotion, evVars
  <1>4. QED
    BY <1>1, <1>2, <1>3, StepKinds DEF vars, evVars

\* Each of its writers puts a founded state into status.json.
LEMMA StatusFoundedStep ==
  ASSUME FoundedInv, [Next]_vars
  PROVE  Founded(status.state)'
  <1>1. Founded(status'.state)
    <2>1. CASE UNCHANGED status
      BY <2>1 DEF FoundedInv
    <2>2. CASE WriteInitialStatus
      BY <2>2 DEF WriteInitialStatus, RunReturnsError, Recorded, Founded, FoundedInv, Signals
    <2>3. CASE WriteTerminalStatus
      BY <2>3 DEF WriteTerminalStatus, Founded, FoundedInv, OutcomeFounded, AfterAgent
    <2>4. ASSUME NEW c \in Clients, WriteReconciledStatus(c) PROVE Founded(status'.state)
      BY <2>4 DEF WriteReconciledStatus, FoundedInv, ViewsFounded
    <2>5. QED
      BY <2>1, <2>2, <2>3, <2>4, StatusWriters
  <1>2. QED
    BY <1>1, EvidenceStays DEF Founded, NoCode

\* Nobody writes status.json before the supervisor has (runner.go:111).
LEMMA FirstStatusStep ==
  ASSUME FoundedInv, [Next]_vars
  PROVE  FirstStatus'
  <1> SUFFICES ASSUME pc' \in {"enroll", "begin"}
               PROVE  status'.state = "none" /\ \A c \in Clients : cpc'[c] = "idle"
    BY DEF FirstStatus
  <1>1. UNCHANGED pc \/ AppendRunningIndexEntry
    BY StepKinds, SupervisorFrame
    DEF SupervisorStep, WriteInitialStatus, OpenLogs, RunReturnsError, AfterBootstrap,
         StartSession, StartPreHook, FinishPreHook, BeginCreate, CreateContainer,
         StartContainer, MarkStarted, WaitReturns, AgentFinished, ToVerify, AgentTimedOut,
         AgentCancelled, Escalate, StartVerifyHook, FinishVerifyHook, VerifyTimedOut,
         AfterVerifyHook, FreshCtx, WriteDiffArtifacts, CleanupContainer, WriteTerminalStatus,
         EndAttach, AppendFinalIndexEntry, UnwindRun, StartFailed, DeadlinePasses,
         SignalArrives, Crash, supVars, vars
  <1>2. status.state = "none" /\ \A c \in Clients : cpc[c] = "idle"
    BY <1>1 DEF FoundedInv, FirstStatus, AppendRunningIndexEntry
  <1>3. ~ \E c \in Clients : ClientStep(c)
    BY <1>2 DEF ClientStep, BeginClient, ContinueClient, GiveUp, PromoteReadStatus,
         ReadRunStatus, InspectContainer, ReadStartMarker, InferOutcome, WriteReconciledStatus,
         EnsureIndexState, RemoveRunContainer, RemoveRunWorktree, DecidePromotion
  <1>4. UNCHANGED cpc
    BY <1>3, StepKinds, ClientFrame DEF vars, cliVars, Environment, AgentStep
  <1>5. UNCHANGED status
    BY <1>1, <1>2, StatusWriters DEF WriteInitialStatus, RunReturnsError, WriteTerminalStatus,
         WriteReconciledStatus, AppendRunningIndexEntry
  <1>6. QED
    BY <1>2, <1>4, <1>5

\* Every step keeps the inductive invariant.
LEMMA FoundedStep == FoundedInv /\ [Next]_vars => FoundedInv'
  BY TypeStep, ExitedOnceStep, OutcomeFoundedStep, ViewsFoundedStep, StatusFoundedStep,
     FirstStatusStep DEF FoundedInv

\* So the inductive invariant always holds.
LEMMA FoundedAlways == Spec => []FoundedInv
  BY FoundedInit, FoundedStep, PTL DEF Spec

-----------------------------------------------------------------------------
(* The properties.                                                         *)

\* Whoever recorded it, a success means that the agent exited with 0
\* (runner.go:318, reconcile.go:91-109).
THEOREM SuccessIsEarned == Spec => []SuccessNeedsExitZero
  <1>1. FoundedInv => SuccessNeedsExitZero
    BY DEF FoundedInv, Founded, SuccessNeedsExitZero
  <1>2. QED
    BY <1>1, FoundedAlways, PTL

\* A timeout is recorded only on the strength of timeout.flag, or by a
\* supervisor that tried to write it and ignored its failure
\* (runner.go:157, 189, 321, 488, reconcile.go:176-195).
THEOREM TimeoutIsFlagged == Spec => []TimeoutNeedsFlag
  <1>1. FoundedInv => TimeoutNeedsFlag
    BY DEF FoundedInv, Founded, TimeoutNeedsFlag
  <1>2. QED
    BY <1>1, FoundedAlways, PTL

\* killed and interrupted have a cause (runner.go:345-363,
\* reconcile.go:176-190).
THEOREM SignalledIsCaused == Spec => []SignalledOutcomeHasCause
  <1>1. FoundedInv => SignalledOutcomeHasCause
    BY DEF FoundedInv, Founded, SignalledOutcomeHasCause
  <1>2. QED
    BY <1>1, FoundedAlways, PTL

\* A terminal run never runs again (runner.go:111, reconcile.go:122): the
\* only write of "running" comes before any other.
THEOREM TerminalStaysTerminal == Spec => NeverRunsAgain
  <1>1. FoundedInv /\ [Next]_vars
          => [IsTerminal(status.state) => IsTerminal(status'.state)]_status
    <2> SUFFICES ASSUME FoundedInv, [Next]_vars, IsTerminal(status.state), status' # status
                 PROVE  IsTerminal(status'.state)
      OBVIOUS
    <2>1. CASE WriteInitialStatus
      BY <2>1 DEF WriteInitialStatus, FoundedInv, FirstStatus, IsTerminal, TerminalStates,
           Signals
    <2>2. CASE WriteTerminalStatus
      BY <2>2 DEF WriteTerminalStatus, FoundedInv, TypeInv, TypeOK, SupervisorTypeOK, IsTerminal
    <2>3. ASSUME NEW c \in Clients, WriteReconciledStatus(c) PROVE IsTerminal(status'.state)
      BY <2>3 DEF WriteReconciledStatus, FoundedInv, TypeInv, ConcludedView, Concluding
    <2>4. QED
      BY <2>1, <2>2, <2>3, StatusWriters
  <1>2. QED
    BY <1>1, FoundedAlways, PTL DEF Spec, NeverRunsAgain

\* What holds of every use holds of sequential use.
LEMMA SequentialIsSpec == SequentialSpec => Spec
  <1>1. [SequentialNext]_vars => [Next]_vars
    BY DEF SequentialNext, Next
  <1>2. QED
    BY <1>1, PTL DEF SequentialSpec, Spec

=============================================================================
