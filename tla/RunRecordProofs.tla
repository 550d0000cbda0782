--------------------------- MODULE RunRecordProofs ---------------------------
(***************************************************************************)
(* What TLAPS proves of RunLifecycle when attach and promote are used one  *)
(* at a time and after the supervisor (SequentialSpec): the run keeps the  *)
(* promise of module RunRecord, and status.json, timeout.flag, the index,  *)
(* the diff artifacts, the container, the worktree and the branch agree.   *)
(***************************************************************************)
EXTENDS RunLifecycleProofs

-----------------------------------------------------------------------------
(* The inductive invariant.                                                *)

\* While the supervisor is at work it is alone, and what only others take
\* away or make is as it was.
SupervisorAlone ==
  ~SupervisorGone => NoneActive /\ worktree # "removed" /\ branch = "none"

OneClient == \A c, d \in Clients : cpc[c] # "idle" /\ cpc[d] # "idle" => c = d

\* What status.json says in each phase of the supervisor, unless its command
\* has failed.
Unwritten == {"enroll", "begin"}
StatusOfPhase ==
  /\ pc \in Unwritten => status.state = "none"
  /\ pc \in SupervisorPcs \ (Unwritten \cup Written \cup {"crashed"}) => status.state = "running"
  /\ pc \in Written /\ ~cmdErr => status.state = out /\ status.cleanupErr = rmFailed
  /\ status.cleanupErr => IsTerminal(status.state)

\* A removal that failed is never part of a success.
RemovalOfPhase == rmFailed => out # "success" /\ pc \in {"finish"} \cup Written

\* A client knows what status.json says: it is still running while the
\* client finds out how the run ended, and what the client acts on after.
StatusOfClient ==
  \A c \in Clients :
    /\ cpc[c] \in {"inspect", "marker", "flag", "write"} => status.state = "running"
    /\ cpc[c] = "write" => ~view[c].cleanupErr
    /\ cpc[c] \in {"index", "container", "worktree", "decide"} => view[c] = status
    /\ cpc[c] = "worktree" => view[c].state # "success"

\* The flag, or the failure to write it, goes with the supervisor's outcome,
\* and the flag with what a client has made of it.
Undecided ==
  {"enroll", "begin", "logs", "session", "pre", "preRun", "create", "creating", "start", "mark",
   "select", "verify", "verifyRun"}
FlagOfPhase ==
  /\ pc \in Undecided => out = "success"
  /\ pc # "crashed" => (flag \/ flagLost <=> out = "timeout")
  /\ \A c \in Clients : cpc[c] = "write" => (flag <=> view[c].state = "timeout")

\* Past the diff the edits of a successful agent are in the artifacts.
PastDiff == {"cleanup", "finish"} \cup Written
EditsKept ==
  pc \in PastDiff /\ out = "success" /\ ~cmdErr /\ worktree = "dirty" => patch

\* The container belongs to the supervisor until it is removed.
Holding == {"start", "mark", "select", "term", "kill", "verify", "verifyRun", "diff", "cleanup"}
ContainerOwned ==
  /\ pc \in Holding /\ (out = "success" \/ container = "running") => owned
  /\ pc \in {"finish"} \cup Written /\ out = "success" /\ ~cmdErr => container = "absent"
  /\ pc \in {"finish"} \cup Written /\ container = "running" => rmFailed
  /\ \A c \in Clients : cpc[c] \in {"marker", "flag", "write"} => container # "running"
  /\ IsTerminal(status.state) /\ container = "running" => status.cleanupErr

\* The worktree goes after a bad end or a failed command.
TreeKept ==
  worktree = "removed" => cmdErr \/ (IsTerminal(status.state) /\ status.state # "success")

RecordInv ==
  /\ FoundedInv
  /\ SupervisorAlone /\ OneClient
  /\ StatusOfPhase /\ RemovalOfPhase /\ StatusOfClient

AgreementInv ==
  /\ RecordInv
  /\ FlagOfPhase /\ EditsKept /\ ContainerOwned /\ TreeKept
  /\ IndexNeverDisagrees /\ FlagMatchesTimeout /\ PromotedAgentIsGone

-----------------------------------------------------------------------------
(* Who acts when.                                                          *)

SequentialClientStep(c) ==
  \/ SupervisorGone /\ NoneActive /\ BeginClient(c)
  \/ ContinueClient(c)
  \/ GiveUp(c)

SupervisorSide ==
  SupervisorStep \/ DeadlinePasses \/ (\E s \in Signals : SignalArrives(s)) \/ Crash

\* A sequential step is one of the supervisor's side, of the agent or of a
\* client.
LEMMA SequentialKinds ==
  ASSUME [SequentialNext]_vars
  PROVE  \/ SupervisorSide
         \/ AgentStep
         \/ \E c \in Clients : SequentialClientStep(c)
         \/ UNCHANGED vars
  BY DEF SequentialNext, Environment, SupervisorSide, AgentStep, SequentialClientStep

\* And it is a step of Next.
LEMMA SequentialStepIsStep == [SequentialNext]_vars => [Next]_vars
  BY DEF SequentialNext, Next

\* The supervisor's side acts only as long as there is a supervisor.
LEMMA SupervisorSideIsThere ==
  ASSUME SupervisorSide
  PROVE  ~SupervisorGone /\ UNCHANGED cliVars
  <1>1. SupervisorStep => ~SupervisorGone
    BY DEF SupervisorGone, SupervisorStep, AppendRunningIndexEntry, WriteInitialStatus,
         OpenLogs, StartSession, StartPreHook, FinishPreHook, BeginCreate, CreateContainer,
         StartContainer, MarkStarted, WaitReturns, AgentFinished, AgentTimedOut,
         AgentCancelled, Escalate, StartVerifyHook, FinishVerifyHook, WriteDiffArtifacts,
         CleanupContainer, WriteTerminalStatus, EndAttach, AppendFinalIndexEntry, UnwindRun
  <1>2. DeadlinePasses \/ (\E s \in Signals : SignalArrives(s)) \/ Crash => ~SupervisorGone
    BY DEF DeadlinePasses, SignalArrives, Crash, BeforeEvidence
  <1>3. UNCHANGED cliVars
    BY ClientFrame DEF SupervisorSide, Environment
  <1> QED
    BY <1>1, <1>2, <1>3 DEF SupervisorSide

\* A client leaves the supervisor and the other clients alone.
LEMMA ClientActsAlone ==
  ASSUME TypeOK, NEW c \in Clients, SequentialClientStep(c)
  PROVE  /\ UNCHANGED <<cfg, supVars>>
         /\ \A d \in Clients \ {c} : cpc'[d] = cpc[d] /\ view'[d] = view[d]
         /\ cpc[c] # "idle" \/ (SupervisorGone /\ NoneActive)
  <1>1. ClientStep(c)
    BY DEF SequentialClientStep, ClientStep
  <1>2. UNCHANGED <<cfg, supVars>>
    BY <1>1, SupervisorFrame
  <1>3. \A d \in Clients \ {c} : cpc'[d] = cpc[d] /\ view'[d] = view[d]
    BY <1>1 DEF ClientStep, BeginClient, ContinueClient, GiveUp, PromoteReadStatus,
         ReadRunStatus, InspectContainer, ReadStartMarker, InferOutcome, WriteReconciledStatus,
         EnsureIndexState, RemoveRunContainer, RemoveRunWorktree, DecidePromotion, Leave,
         Return, Goto, TypeOK, ClientTypeOK
  <1>4. cpc[c] # "idle" \/ (SupervisorGone /\ NoneActive)
    BY DEF SequentialClientStep, ContinueClient, GiveUp, InspectContainer, ReadStartMarker,
         InferOutcome, WriteReconciledStatus, EnsureIndexState, RemoveRunContainer,
         RemoveRunWorktree, DecidePromotion
  <1> QED
    BY <1>2, <1>3, <1>4

\* So when a client acts there is no supervisor and no other client.
LEMMA ClientIsAlone ==
  ASSUME RecordInv, NEW c \in Clients, SequentialClientStep(c)
  PROVE  /\ SupervisorGone /\ UNCHANGED <<cfg, supVars>>
         /\ \A d \in Clients \ {c} : cpc[d] = "idle" /\ cpc'[d] = "idle"
  <1>1. TypeOK
    BY DEF RecordInv, FoundedInv, TypeInv
  <1>2. CASE cpc[c] # "idle"
    <2>1. SupervisorGone
      BY <1>2 DEF RecordInv, SupervisorAlone, NoneActive
    <2>2. \A d \in Clients \ {c} : cpc[d] = "idle"
      BY <1>2 DEF RecordInv, OneClient
    <2> QED
      BY <1>1, <2>1, <2>2, ClientActsAlone
  <1>3. CASE SupervisorGone /\ NoneActive
    BY <1>1, <1>3, ClientActsAlone DEF NoneActive
  <1> QED
    BY <1>1, <1>2, <1>3, ClientActsAlone

\* While the supervisor's side acts no client is under way.
LEMMA SupervisorIsAlone ==
  ASSUME RecordInv, SupervisorSide
  PROVE  /\ ~SupervisorGone /\ NoneActive /\ worktree # "removed" /\ branch = "none"
         /\ NoneActive' /\ UNCHANGED cliVars
  BY SupervisorSideIsThere DEF RecordInv, SupervisorAlone, NoneActive, cliVars

\* Who leaves status.json alone.
LEMMA StatusOfOthers ==
  ASSUME [SequentialNext]_vars, ~WriteInitialStatus, ~WriteTerminalStatus,
         \A c \in Clients : ~WriteReconciledStatus(c)
  PROVE  UNCHANGED status
  BY StatusWriters, SequentialStepIsStep

-----------------------------------------------------------------------------
(* The record.                                                             *)

\* Initially nobody works on the run.
LEMMA RecordInit == Init => RecordInv
  <1> SUFFICES ASSUME Init PROVE RecordInv
    OBVIOUS
  <1>1. FoundedInv
    BY FoundedInit
  <1>2. SupervisorAlone /\ OneClient
    BY DEF Init, SupervisorAlone, OneClient, NoneActive
  <1>3. StatusOfPhase /\ RemovalOfPhase /\ StatusOfClient
    BY DEF Init, StatusOfPhase, RemovalOfPhase, StatusOfClient, NoStatus, Unwritten, Written
  <1> QED
    BY <1>1, <1>2, <1>3 DEF RecordInv

\* Only the supervisor's last step takes the worktree away.
LEMMA SupervisorAloneStep ==
  ASSUME RecordInv, [SequentialNext]_vars
  PROVE  SupervisorAlone'
  <1>1. CASE SupervisorSide
    <2>1. worktree' # "removed" \/ pc' = "done"
      <3>1. SupervisorStep => worktree' = worktree \/ pc' = "done"
        BY DEF SupervisorStep, AppendRunningIndexEntry, WriteInitialStatus, OpenLogs,
             StartSession, StartPreHook, FinishPreHook, BeginCreate, CreateContainer,
             StartContainer, MarkStarted, WaitReturns, AgentFinished, AgentTimedOut,
             AgentCancelled, Escalate, StartVerifyHook, FinishVerifyHook, WriteDiffArtifacts,
             CleanupContainer, WriteTerminalStatus, EndAttach, AppendFinalIndexEntry, UnwindRun
      <3>2. DeadlinePasses \/ (\E s \in Signals : SignalArrives(s)) \/ Crash
              => worktree' = worktree
        BY DEF DeadlinePasses, SignalArrives, Crash
      <3> QED
        BY <1>1, <3>1, <3>2, SupervisorIsAlone DEF SupervisorSide
    <2> QED
      BY <1>1, <2>1, SupervisorIsAlone DEF SupervisorAlone, SupervisorGone, cliVars
  <1>2. CASE AgentStep
    BY <1>2 DEF AgentStep, AgentEdits, AgentExits, Prune, RecordInv, SupervisorAlone,
         SupervisorGone, NoneActive, supVars, cliVars
  <1>3. ASSUME NEW c \in Clients, SequentialClientStep(c) PROVE SupervisorAlone'
    BY <1>3, ClientIsAlone DEF SupervisorAlone, SupervisorGone, supVars
  <1>4. CASE UNCHANGED vars
    BY <1>4 DEF vars, supVars, cliVars, RecordInv, SupervisorAlone, SupervisorGone, NoneActive
  <1> QED
    BY <1>1, <1>2, <1>3, <1>4, SequentialKinds

\* A client starts when there is no other.
LEMMA OneClientStep ==
  ASSUME RecordInv, [SequentialNext]_vars
  PROVE  OneClient'
  <1>1. CASE UNCHANGED cpc
    BY <1>1 DEF RecordInv, OneClient
  <1>2. ASSUME NEW c \in Clients, SequentialClientStep(c) PROVE OneClient'
    BY <1>2, ClientIsAlone DEF OneClient
  <1>3. SupervisorSide => UNCHANGED cpc
    BY SupervisorSideIsThere DEF cliVars
  <1>4. AgentStep => UNCHANGED cpc
    BY DEF AgentStep, AgentEdits, AgentExits, Prune, cliVars
  <1> QED
    BY <1>1, <1>2, <1>3, <1>4, SequentialKinds DEF vars, cliVars

\* The supervisor records running first and its outcome last; in between
\* and after its end only a client may have written (runner.go:107-252).
LEMMA StatusOfPhaseStep ==
  ASSUME RecordInv, [SequentialNext]_vars
  PROVE  StatusOfPhase'
  <1>0. /\ TypeOK /\ StatusOfPhase /\ RemovalOfPhase /\ FirstStatus
        /\ pc \in SupervisorPcs /\ out \in TerminalStates
    BY DEF RecordInv, FoundedInv, TypeInv, TypeOK, SupervisorTypeOK
  <1> USE DEF Unwritten, Written, SupervisorPcs, IsTerminal
  <1>1. CASE SupervisorStep
    <2>1. CASE UNCHANGED status
      <3>1. CASE \/ AppendRunningIndexEntry \/ OpenLogs \/ StartSession \/ StartPreHook
                 \/ FinishPreHook \/ BeginCreate \/ CreateContainer \/ StartContainer
                 \/ MarkStarted \/ WaitReturns
        BY <1>0, <2>1, <3>1 DEF StatusOfPhase, AppendRunningIndexEntry, OpenLogs,
             RunReturnsError, StartSession, AfterBootstrap, StartPreHook, FinishPreHook,
             BeginCreate, CreateContainer, StartContainer, StartFailed, MarkStarted, WaitReturns
      <3>2. CASE AgentFinished \/ AgentTimedOut \/ AgentCancelled \/ Escalate
        BY <1>0, <2>1, <3>2 DEF StatusOfPhase, AgentFinished, ToVerify, AgentTimedOut,
             AgentCancelled, Escalate
      <3>3. CASE StartVerifyHook \/ FinishVerifyHook
        <4>1. pc \in {"verify", "verifyRun"} /\ pc' \in {"verify", "verifyRun", "diff"}
          BY <3>3 DEF StartVerifyHook, FinishVerifyHook, FreshCtx, VerifyTimedOut,
               AfterVerifyHook
        <4> QED
          BY <1>0, <2>1, <4>1 DEF StatusOfPhase
      <3>4. CASE WriteDiffArtifacts \/ CleanupContainer
        BY <1>0, <2>1, <3>4 DEF StatusOfPhase, WriteDiffArtifacts, CleanupContainer
      <3>5. CASE EndAttach \/ AppendFinalIndexEntry \/ UnwindRun
        BY <1>0, <2>1, <3>5 DEF StatusOfPhase, EndAttach, AppendFinalIndexEntry, UnwindRun
      <3>6. CASE WriteInitialStatus \/ WriteTerminalStatus
        BY <1>0, <2>1, <3>6 DEF StatusOfPhase, WriteInitialStatus, RunReturnsError,
             WriteTerminalStatus, Recorded
      <3> QED
        BY <1>1, <3>1, <3>2, <3>3, <3>4, <3>5, <3>6 DEF SupervisorStep
    <2>2. CASE WriteInitialStatus
      <3>1. CASE pc' = "logs" /\ status' = Recorded("running")
        BY <3>1 DEF StatusOfPhase, Recorded
      <3>2. CASE pc' = "index" /\ cmdErr' = TRUE /\ UNCHANGED status
        BY <1>0, <3>2 DEF StatusOfPhase
      <3> QED
        BY <2>2, <3>1, <3>2 DEF WriteInitialStatus, RunReturnsError
    <2>3. CASE WriteTerminalStatus
      BY <1>0, <2>3 DEF WriteTerminalStatus, StatusOfPhase
    <2> QED
      BY <1>1, <2>1, <2>2, <2>3, StatusOfOthers, SupervisorSideIsThere
      DEF SupervisorSide, WriteReconciledStatus, SupervisorStep, AppendRunningIndexEntry,
          OpenLogs, StartSession, StartPreHook, FinishPreHook, BeginCreate, CreateContainer,
          StartContainer, MarkStarted, WaitReturns, AgentFinished, AgentTimedOut,
          AgentCancelled, Escalate, StartVerifyHook, FinishVerifyHook, WriteDiffArtifacts,
          CleanupContainer, EndAttach, AppendFinalIndexEntry, UnwindRun, evVars
  <1>2. CASE DeadlinePasses \/ (\E s \in Signals : SignalArrives(s))
    BY <1>0, <1>2 DEF StatusOfPhase, DeadlinePasses, SignalArrives, evVars
  <1>3. CASE Crash
    BY <1>0, <1>3 DEF StatusOfPhase, Crash, evVars
  <1>4. CASE AgentStep
    BY <1>0, <1>4 DEF StatusOfPhase, AgentStep, AgentEdits, AgentExits, Prune, supVars, evVars
  <1>5. ASSUME NEW c \in Clients, SequentialClientStep(c) PROVE StatusOfPhase'
    <2>1. SupervisorGone /\ UNCHANGED <<pc, out, rmFailed, cmdErr>>
      BY <1>5, ClientIsAlone DEF supVars
    <2>2. CASE UNCHANGED status
      BY <1>0, <2>1, <2>2 DEF StatusOfPhase
    <2>3. CASE WriteReconciledStatus(c)
      <3>1. status.state = "running" /\ ~view[c].cleanupErr /\ status' = view[c]
        BY <2>3 DEF WriteReconciledStatus, RecordInv, StatusOfClient
      <3>2. pc = "crashed" \/ cmdErr
        BY <1>0, <2>1, <3>1 DEF SupervisorGone, StatusOfPhase, TerminalStates, Signals
      <3>3. UNCHANGED <<pc, cmdErr>> /\ ~status'.cleanupErr
        BY <2>1, <3>1
      <3> QED
        BY <1>0, <2>1, <3>2, <3>3 DEF StatusOfPhase, SupervisorGone
    <2> QED
      BY <1>5, <2>2, <2>3 DEF SequentialClientStep, BeginClient, ContinueClient, GiveUp,
           PromoteReadStatus, ReadRunStatus, InspectContainer, ReadStartMarker, InferOutcome,
           EnsureIndexState, RemoveRunContainer, RemoveRunWorktree, DecidePromotion, evVars
  <1>6. CASE UNCHANGED vars
    BY <1>0, <1>6 DEF StatusOfPhase, vars, supVars, evVars
  <1> QED
    BY <1>1, <1>2, <1>3, <1>4, <1>5, <1>6, SequentialKinds DEF SupervisorSide

\* A removal that fails turns a success into a failure (runner.go:219-247).
LEMMA RemovalOfPhaseStep ==
  ASSUME RecordInv, [SequentialNext]_vars
  PROVE  RemovalOfPhase'
  <1>0. RemovalOfPhase /\ rmFailed \in BOOLEAN
    BY DEF RecordInv, FoundedInv, TypeInv, TypeOK, SupervisorTypeOK
  <1> USE DEF Written
  <1>1. CASE SupervisorStep
    <2>1. CASE rmFailed' = rmFailed
      BY <1>0, <1>1, <2>1
      DEF RemovalOfPhase, SupervisorStep, AppendRunningIndexEntry, WriteInitialStatus, OpenLogs,
          StartSession, StartPreHook, FinishPreHook, BeginCreate, CreateContainer,
          StartContainer, MarkStarted, WaitReturns, AgentFinished, AgentTimedOut,
          AgentCancelled, Escalate, StartVerifyHook, FinishVerifyHook, WriteDiffArtifacts,
          CleanupContainer, WriteTerminalStatus, EndAttach, AppendFinalIndexEntry, UnwindRun
    <2>2. CASE CleanupContainer
      BY <1>0, <2>2 DEF RemovalOfPhase, CleanupContainer, Downgrade
    <2> QED
      BY <1>1, <2>1, <2>2
      DEF SupervisorStep, AppendRunningIndexEntry, WriteInitialStatus, OpenLogs,
          StartSession, StartPreHook, FinishPreHook, BeginCreate, CreateContainer,
          StartContainer, MarkStarted, WaitReturns, AgentFinished, AgentTimedOut,
          AgentCancelled, Escalate, StartVerifyHook, FinishVerifyHook, WriteDiffArtifacts,
          WriteTerminalStatus, EndAttach, AppendFinalIndexEntry, UnwindRun
  <1>2. CASE DeadlinePasses \/ (\E s \in Signals : SignalArrives(s)) \/ Crash
    BY <1>0, <1>2 DEF RemovalOfPhase, DeadlinePasses, SignalArrives, Crash
  <1>3. CASE UNCHANGED <<pc, out, rmFailed>>
    BY <1>0, <1>3 DEF RemovalOfPhase
  <1>4. ASSUME NEW c \in Clients, SequentialClientStep(c) PROVE UNCHANGED <<pc, out, rmFailed>>
    BY <1>4, ClientIsAlone DEF supVars
  <1>5. AgentStep => UNCHANGED <<pc, out, rmFailed>>
    BY DEF AgentStep, AgentEdits, AgentExits, Prune, supVars
  <1> QED
    BY <1>1, <1>2, <1>3, <1>4, <1>5, SequentialKinds DEF SupervisorSide, vars, supVars

\* A client that is alone finds status.json as it last saw it
\* (reconcile.go:46-142, promote.go:77-91).
LEMMA StatusOfClientStep ==
  ASSUME RecordInv, [SequentialNext]_vars
  PROVE  StatusOfClient'
  <1>0. TypeOK /\ StatusOfClient
    BY DEF RecordInv, FoundedInv, TypeInv
  <1>1. CASE SupervisorSide
    BY <1>1, SupervisorIsAlone DEF StatusOfClient, NoneActive
  <1>2. CASE UNCHANGED <<status, cpc, view>>
    BY <1>0, <1>2 DEF StatusOfClient
  <1>3. ASSUME NEW c \in Clients, SequentialClientStep(c) PROVE StatusOfClient'
    <2>1. \A d \in Clients \ {c} : cpc'[d] = "idle"
      BY <1>3, ClientIsAlone
    <2> DEFINE Informed ==
          /\ cpc'[c] \in {"inspect", "marker", "flag", "write"} => status'.state = "running"
          /\ cpc'[c] = "write" => ~view'[c].cleanupErr
          /\ cpc'[c] \in {"index", "container", "worktree", "decide"} => view'[c] = status'
          /\ cpc'[c] = "worktree" => view'[c].state # "success"
    <2>2. Informed
      <3>0. /\ cpc \in [Clients -> ClientPcs] /\ view \in [Clients -> Statuses]
            /\ status \in Statuses
        BY <1>0 DEF TypeOK, ClientTypeOK, SharedTypeOK
      <3> USE <3>0 DEF Goto, evVars
      <3>1. CASE PromoteReadStatus(c)
        BY <3>1 DEF PromoteReadStatus
      <3>2. CASE ReadRunStatus(c)
        BY <3>2 DEF ReadRunStatus, Statuses, IsTerminal
      <3>3. CASE InspectContainer(c) \/ ReadStartMarker(c)
        BY <1>0, <3>3 DEF InspectContainer, ReadStartMarker, StatusOfClient, Leave
      <3>4. CASE InferOutcome(c)
        BY <1>0, <3>4 DEF InferOutcome, StatusOfClient, Recorded
      <3>5. CASE WriteReconciledStatus(c)
        BY <3>5 DEF WriteReconciledStatus
      <3>6. CASE EnsureIndexState(c)
        BY <1>0, <3>6 DEF EnsureIndexState, StatusOfClient
      <3>7. CASE RemoveRunContainer(c) \/ RemoveRunWorktree(c)
        BY <1>0, <3>7 DEF RemoveRunContainer, RemoveRunWorktree, StatusOfClient, Discards,
             Return, Leave
      <3>8. CASE DecidePromotion(c) \/ GiveUp(c)
        BY <3>8 DEF DecidePromotion, GiveUp, Leave
      <3> QED
        BY <1>3, <3>1, <3>2, <3>3, <3>4, <3>5, <3>6, <3>7, <3>8
        DEF SequentialClientStep, BeginClient, ContinueClient
    <2> QED
      BY <2>1, <2>2 DEF StatusOfClient
  <1>4. AgentStep \/ UNCHANGED vars => UNCHANGED <<status, cpc, view>>
    BY DEF AgentStep, AgentEdits, AgentExits, Prune, vars, evVars, cliVars
  <1> QED
    BY <1>1, <1>2, <1>3, <1>4, SequentialKinds

\* Every sequential step keeps the invariant of the record.
LEMMA RecordStep == RecordInv /\ [SequentialNext]_vars => RecordInv'
  BY FoundedStep, SequentialStepIsStep, SupervisorAloneStep, OneClientStep, StatusOfPhaseStep,
     RemovalOfPhaseStep, StatusOfClientStep DEF RecordInv

\* So it always holds.
LEMMA RecordAlways == SequentialSpec => []RecordInv
  BY RecordInit, RecordStep, PTL DEF SequentialSpec

-----------------------------------------------------------------------------
(* The refinement of RunRecord.                                            *)

\* What RunRecord sees of the worktree.
Tree == IF worktree = "removed" THEN "removed" ELSE "kept"

\* The record starts empty.
LEMMA RecordStarts == Init => Record!Init
  BY DEF Init, NoStatus, Record!Init

\* A step that touches none of status.json, the worktree's existence, the
\* command's own error and the branch is a stutter of the record.
LEMMA RecordStutters ==
  ASSUME UNCHANGED <<status, Tree, cmdErr, branch>>
  PROVE  UNCHANGED Record!vars
  BY DEF Tree, Record!vars

\* The supervisor begins the record, finishes it or fails at writing it, and
\* when it unwinds after anything but a success discards the worktree
\* (runner.go:107-252, cmd/tessariq/run.go:265-276, 374-406).
LEMMA SupervisorKeepsRecord ==
  ASSUME RecordInv, SupervisorSide
  PROVE  [Record!Next]_(Record!vars)
  <1>0. /\ StatusOfPhase /\ RemovalOfPhase /\ FirstStatus /\ out \in TerminalStates
        /\ rmFailed \in BOOLEAN /\ worktree # "removed" /\ UNCHANGED branch
        /\ pc \in SupervisorPcs /\ status \in Statuses /\ cmdErr \in BOOLEAN
    BY SupervisorIsAlone DEF RecordInv, FoundedInv, TypeInv, TypeOK, SupervisorTypeOK,
       SharedTypeOK, cliVars
  <1>1. CASE WriteInitialStatus /\ UNCHANGED cmdErr /\ status' = Recorded("running")
    <2>1. status.state = "none" /\ ~status.cleanupErr
      BY <1>0, <1>1 DEF WriteInitialStatus, StatusOfPhase, Unwritten, IsTerminal,
           TerminalStates, Signals
    <2>2. Record!Begin
      BY <1>0, <1>1, <2>1 DEF WriteInitialStatus, Recorded, Record!Begin, Statuses
    <2> QED
      BY <2>2 DEF Record!Next
  <1>2. CASE /\ WriteTerminalStatus /\ UNCHANGED cmdErr
             /\ status' = [state |-> out, cleanupErr |-> rmFailed]
    <2>1. status.state = "running"
      BY <1>0, <1>2 DEF WriteTerminalStatus, StatusOfPhase, Unwritten, Written, SupervisorPcs
    <2>2. Record!Finish
      BY <1>0, <1>2, <2>1 DEF WriteTerminalStatus, RemovalOfPhase, Record!Finish, Record!Final,
           TerminalStates, Signals
    <2> QED
      BY <2>2 DEF Record!Next
  <1>3. CASE UnwindRun /\ worktree' = "removed"
    <2>1. /\ status.state \in Record!Final \ {"success"} \/ cmdErr
          /\ UNCHANGED <<status, cmdErr>>
      BY <1>0, <1>3 DEF UnwindRun, KeepsWorktree, StatusOfPhase, Written, evVars, Record!Final,
           TerminalStates, Signals
    <2>2. Record!Discard
      BY <1>0, <1>3, <2>1 DEF Record!Discard
    <2> QED
      BY <2>2 DEF Record!Next
  <1>4. CASE cmdErr' = TRUE /\ UNCHANGED <<status, worktree>>
    <2>1. Record!Fail
      BY <1>0, <1>4 DEF Record!Fail
    <2> QED
      BY <2>1 DEF Record!Next
  <1>5. CASE UNCHANGED <<status, worktree, cmdErr>>
    <2>1. UNCHANGED <<status, Tree, cmdErr, branch>>
      BY <1>0, <1>5 DEF Tree
    <2> QED
      BY <2>1, RecordStutters
  <1>6. SupervisorStep =>
          \/ WriteInitialStatus \/ WriteTerminalStatus \/ OpenLogs \/ EndAttach
          \/ UnwindRun /\ worktree' = "removed"
          \/ UNCHANGED <<status, worktree, cmdErr>>
    BY DEF SupervisorStep, AppendRunningIndexEntry, StartSession, StartPreHook, FinishPreHook,
         BeginCreate, CreateContainer, StartContainer, MarkStarted, WaitReturns, AgentFinished,
         AgentTimedOut, AgentCancelled, Escalate, StartVerifyHook, FinishVerifyHook,
         WriteDiffArtifacts, CleanupContainer, AppendFinalIndexEntry, UnwindRun, evVars
  <1>7. WriteInitialStatus =>
          \/ UNCHANGED cmdErr /\ status' = Recorded("running")
          \/ cmdErr' = TRUE /\ UNCHANGED <<status, worktree>>
    BY DEF WriteInitialStatus, RunReturnsError
  <1>8. WriteTerminalStatus =>
          \/ UNCHANGED cmdErr /\ status' = [state |-> out, cleanupErr |-> rmFailed]
          \/ cmdErr' = TRUE /\ UNCHANGED <<status, worktree>>
    BY DEF WriteTerminalStatus
  <1>9. OpenLogs \/ EndAttach =>
          UNCHANGED <<status, worktree>> /\ (cmdErr' = TRUE \/ UNCHANGED cmdErr)
    BY DEF OpenLogs, EndAttach, RunReturnsError, evVars
  <1>10. DeadlinePasses \/ (\E s \in Signals : SignalArrives(s)) \/ Crash
          => UNCHANGED <<status, worktree, cmdErr>>
    BY DEF DeadlinePasses, SignalArrives, Crash, evVars
  <1> QED
    BY <1>1, <1>2, <1>3, <1>4, <1>5, <1>6, <1>7, <1>8, <1>9, <1>10 DEF SupervisorSide

\* A client finishes the record of a run whose supervisor has died, discards
\* the worktree of one that was no success, and promotes a run
\* (reconcile.go:97-142, promote.go:93-171).
LEMMA ClientKeepsRecord ==
  ASSUME RecordInv, NEW c \in Clients, SequentialClientStep(c)
  PROVE  [Record!Next]_(Record!vars)
  <1>0. /\ StatusOfClient /\ status \in Statuses /\ view[c] \in Statuses
        /\ cpc[c] \in Concluding => IsTerminal(view[c].state)
        /\ StatusOfPhase /\ UNCHANGED cmdErr
    BY ClientIsAlone DEF RecordInv, FoundedInv, TypeInv, TypeOK, ClientTypeOK, SharedTypeOK,
       ConcludedView, supVars
  <1>1. CASE WriteReconciledStatus(c)
    <2>1. /\ status.state = "running" /\ ~status.cleanupErr
          /\ view[c].state \in Record!Final /\ ~view[c].cleanupErr
      BY <1>0, <1>1 DEF WriteReconciledStatus, StatusOfClient, StatusOfPhase, Concluding,
           IsTerminal, TerminalStates, Signals, Record!Final
    <2>2. Record!Finish
      BY <1>0, <1>1, <2>1 DEF WriteReconciledStatus, Record!Finish, Statuses
    <2> QED
      BY <2>2 DEF Record!Next
  <1>2. CASE RemoveRunWorktree(c)
    <2>1. status.state \in Record!Final \ {"success"}
      BY <1>0, <1>2 DEF RemoveRunWorktree, StatusOfClient, Concluding, IsTerminal,
           TerminalStates, Signals, Record!Final
    <2>2. CASE worktree = "removed"
      BY <1>0, <1>2, <2>2, RecordStutters DEF RemoveRunWorktree, evVars, Tree
    <2>3. CASE worktree # "removed"
      <3>1. Record!Discard
        BY <1>0, <1>2, <2>1, <2>3 DEF RemoveRunWorktree, evVars, Record!Discard
      <3> QED
        BY <3>1 DEF Record!Next
    <2> QED
      BY <2>2, <2>3
  <1>3. CASE DecidePromotion(c)
    <2>1. view[c] = status /\ status.state \in Record!Final
      BY <1>0, <1>3 DEF DecidePromotion, StatusOfClient, Concluding, IsTerminal,
           TerminalStates, Signals, Record!Final
    <2>2. CASE Promotable(c) /\ branch' = view[c].state
      <3>1. Record!Promote
        BY <1>0, <1>3, <2>1, <2>2 DEF DecidePromotion, Promotable, Record!Promote, evVars,
             Statuses
      <3> QED
        BY <3>1 DEF Record!Next
    <2>3. CASE UNCHANGED branch
      BY <1>0, <1>3, <2>3, RecordStutters DEF DecidePromotion, evVars, Tree
    <2> QED
      BY <1>3, <2>2, <2>3 DEF DecidePromotion
  <1>4. CASE UNCHANGED <<status, worktree, branch>>
    BY <1>0, <1>4, RecordStutters DEF Tree
  <1>5. \/ WriteReconciledStatus(c) \/ RemoveRunWorktree(c) \/ DecidePromotion(c)
        \/ UNCHANGED <<status, worktree, branch>>
    BY DEF SequentialClientStep, BeginClient, ContinueClient, GiveUp, PromoteReadStatus,
         ReadRunStatus, InspectContainer, ReadStartMarker, InferOutcome, EnsureIndexState,
         RemoveRunContainer, evVars
  <1> QED
    BY <1>1, <1>2, <1>3, <1>4, <1>5

\* The agent does nothing the record sees.
LEMMA AgentKeepsRecord ==
  ASSUME AgentStep \/ UNCHANGED vars
  PROVE  UNCHANGED Record!vars
  <1>1. UNCHANGED <<status, cmdErr, branch>> /\ Tree' = Tree
    BY DEF AgentStep, AgentEdits, AgentExits, Prune, Tree, supVars, evVars, cliVars, vars
  <1> QED
    BY <1>1, RecordStutters

\* Used one command at a time, a run keeps the promise of RunRecord for any
\* number of commands, hooks and exit statuses and whatever goes wrong: it
\* starts once, ends once, gives its worktree up only after it ended badly or
\* its command failed, and is promoted only in the state it ended in, never
\* with a cleanup error recorded.
THEOREM RunKeepsRecord == SequentialSpec => RefinesRunRecord
  <1>1. Init => Record!Init
    BY RecordStarts
  <1>2. RecordInv /\ [SequentialNext]_vars => [Record!Next]_(Record!vars)
    BY SequentialKinds, SupervisorKeepsRecord, ClientKeepsRecord, AgentKeepsRecord
  <1> QED
    BY <1>1, <1>2, RecordAlways, PTL DEF SequentialSpec, RefinesRunRecord, Record!Spec

-----------------------------------------------------------------------------
(* What goes with the record.                                              *)

\* A client changes the worktree, the container, the flag and the artifacts
\* in no other way than by removing the first two.
LEMMA ClientRemoves ==
  ASSUME NEW c \in Clients, SequentialClientStep(c)
  PROVE  /\ UNCHANGED <<flag, flagLost, patch, exitCode>>
         /\ container' \in {container, "absent"}
         /\ worktree' = worktree \/ RemoveRunWorktree(c)
         /\ branch' = branch \/ DecidePromotion(c)
         /\ status' = status \/ WriteReconciledStatus(c)
         /\ indexLast' = indexLast \/ EnsureIndexState(c)
  BY DEF SequentialClientStep, BeginClient, ContinueClient, GiveUp, PromoteReadStatus,
       ReadRunStatus, InspectContainer, ReadStartMarker, InferOutcome, WriteReconciledStatus,
       EnsureIndexState, RemoveRunContainer, RemoveRunWorktree, DecidePromotion, ctrVars, evVars

\* At first there is nothing to disagree about.
LEMMA AgreementInit == Init => AgreementInv
  <1> SUFFICES ASSUME Init PROVE AgreementInv
    OBVIOUS
  <1>1. RecordInv
    BY RecordInit
  <1>2. FlagOfPhase /\ EditsKept /\ ContainerOwned /\ TreeKept
    BY DEF Init, FlagOfPhase, Undecided, EditsKept, PastDiff, Written, ContainerOwned, Holding,
         TreeKept, NoStatus, IsTerminal, TerminalStates, Signals
  <1>3. IndexNeverDisagrees /\ FlagMatchesTimeout /\ PromotedAgentIsGone
    BY DEF Init, IndexNeverDisagrees, FlagMatchesTimeout, PromotedAgentIsGone, NoStatus,
         IsTerminal, TerminalStates, Signals
  <1> QED
    BY <1>1, <1>2, <1>3 DEF AgreementInv

\* timeout.flag is written together with the outcome, and a client infers a
\* timeout from nothing else (runner.go:148-192, 322-333, reconcile.go:176-195).
LEMMA FlagOfPhaseStep ==
  ASSUME AgreementInv, [SequentialNext]_vars
  PROVE  FlagOfPhase'
  <1>0. RecordInv /\ FlagOfPhase /\ flag \in BOOLEAN /\ flagLost \in BOOLEAN /\ TypeOK
    BY DEF AgreementInv, RecordInv, FoundedInv, TypeInv, TypeOK, SharedTypeOK
  <1>1. CASE SupervisorSide
    <2>1. NoneActive' /\ pc # "crashed"
      BY <1>0, <1>1, SupervisorIsAlone DEF SupervisorGone
    <2> DEFINE Goes == /\ pc' \in Undecided => out' = "success"
                       /\ pc' # "crashed" => (flag' \/ flagLost' <=> out' = "timeout")
    <2>2. Goes
      <3> USE <1>0, <2>1 DEF FlagOfPhase, Undecided
      <3>1. CASE SupervisorStep
        <4>1. CASE \/ AppendRunningIndexEntry \/ WriteInitialStatus \/ OpenLogs
                   \/ StartSession \/ MarkStarted \/ WaitReturns \/ AppendFinalIndexEntry
                   \/ WriteTerminalStatus \/ EndAttach \/ UnwindRun
          BY <4>1 DEF AppendRunningIndexEntry, WriteInitialStatus, OpenLogs, RunReturnsError,
               StartSession, AfterBootstrap, MarkStarted, WaitReturns, AppendFinalIndexEntry,
               WriteTerminalStatus, EndAttach, UnwindRun, evVars
        <4>2. CASE StartPreHook
          BY <4>2 DEF StartPreHook, FreshCtx, WriteTimeoutFlag
        <4>3. CASE FinishPreHook
          BY <4>3 DEF FinishPreHook, WriteTimeoutFlag
        <4>4. CASE BeginCreate \/ CreateContainer \/ StartContainer
          BY <4>4 DEF BeginCreate, CreateContainer, StartContainer, StartFailed, evVars
        <4>5. CASE AgentFinished
          BY <4>5 DEF AgentFinished, ToVerify, evVars
        <4>6. CASE AgentTimedOut
          BY <4>6 DEF AgentTimedOut, WriteTimeoutFlag
        <4>7. CASE AgentCancelled
          BY <4>7 DEF AgentCancelled, TypeOK, SupervisorTypeOK, evVars, Signals, RecordInv,
               FoundedInv, TypeInv, CancelHasSignal
        <4>8. CASE Escalate
          <5>1. /\ pc \in {"term", "kill"} /\ pc' \in {"kill", "diff"}
                /\ UNCHANGED <<out, flag, flagLost>>
            BY <4>8 DEF Escalate, evVars
          <5> QED
            BY <5>1
        <4>9. CASE StartVerifyHook
          <5>1. \/ pc' = "verifyRun" /\ UNCHANGED <<out, flag, flagLost>>
                \/ VerifyTimedOut
                \/ AfterVerifyHook(TRUE)
            BY <4>9 DEF StartVerifyHook, FreshCtx
          <5>2. pc = "verify"
            BY <4>9 DEF StartVerifyHook
          <5> QED
            BY <5>1, <5>2 DEF VerifyTimedOut, AfterVerifyHook, WriteTimeoutFlag
        <4>10. CASE FinishVerifyHook
          <5>1. \/ VerifyTimedOut
                \/ \E bad \in BOOLEAN : AfterVerifyHook(bad)
            BY <4>10 DEF FinishVerifyHook
          <5>2. pc = "verifyRun"
            BY <4>10 DEF FinishVerifyHook
          <5> QED
            BY <5>1, <5>2 DEF VerifyTimedOut, AfterVerifyHook, WriteTimeoutFlag
        <4>11. CASE WriteDiffArtifacts \/ CleanupContainer
          BY <4>11 DEF WriteDiffArtifacts, CleanupContainer, Downgrade, evVars
        <4> QED
          BY <3>1, <4>1, <4>2, <4>3, <4>4, <4>5, <4>6, <4>7, <4>8, <4>9, <4>10, <4>11
          DEF SupervisorStep
      <3>2. CASE DeadlinePasses \/ (\E s \in Signals : SignalArrives(s))
        BY <3>2 DEF DeadlinePasses, SignalArrives, evVars
      <3>3. CASE Crash
        BY <3>3 DEF Crash
      <3> QED
        BY <1>1, <3>1, <3>2, <3>3 DEF SupervisorSide
    <2> QED
      BY <2>1, <2>2 DEF FlagOfPhase, NoneActive
  <1>2. ASSUME NEW c \in Clients, SequentialClientStep(c) PROVE FlagOfPhase'
    <2>1. UNCHANGED <<pc, out, flag, flagLost>> /\ \A d \in Clients \ {c} : cpc'[d] = "idle"
      BY <1>0, <1>2, ClientIsAlone, ClientRemoves DEF supVars
    <2>2. CASE cpc'[c] = "write"
      <3>1. InferOutcome(c)
        BY <1>0, <1>2, <2>2
        DEF SequentialClientStep, BeginClient, ContinueClient, GiveUp, PromoteReadStatus,
            ReadRunStatus, InspectContainer, ReadStartMarker, WriteReconciledStatus,
            EnsureIndexState, RemoveRunContainer, RemoveRunWorktree, DecidePromotion, Leave,
            Return, Goto, TypeOK, ClientTypeOK
      <3>2. view'[c].state = InferredState(snap[c])
        BY <1>0, <3>1 DEF InferOutcome, Recorded, TypeOK, ClientTypeOK
      <3>3. flag <=> InferredState(snap[c]) = "timeout"
        BY DEF InferredState, OutcomeOfExit
      <3> QED
        BY <1>0, <2>1, <3>2, <3>3 DEF FlagOfPhase
    <2>3. CASE cpc'[c] # "write"
      BY <1>0, <2>1, <2>3 DEF FlagOfPhase
    <2> QED
      BY <2>2, <2>3
  <1>3. CASE UNCHANGED <<pc, out, flag, flagLost, cpc, view>>
    BY <1>0, <1>3 DEF FlagOfPhase
  <1>4. AgentStep \/ UNCHANGED vars => UNCHANGED <<pc, out, flag, flagLost, cpc, view>>
    BY DEF AgentStep, AgentEdits, AgentExits, Prune, vars, supVars, evVars, cliVars
  <1> QED
    BY <1>1, <1>2, <1>3, <1>4, SequentialKinds

\* The diff is taken when the agent of a success has exited, so that no edit
\* follows it (runner.go:202-217, diff.go:12-72).
LEMMA EditsKeptStep ==
  ASSUME AgreementInv, [SequentialNext]_vars
  PROVE  EditsKept'
  <1>0. /\ EditsKept /\ ExitedOnce /\ OutcomeFounded /\ RecordInv
    BY DEF AgreementInv, RecordInv, FoundedInv
  <1> USE DEF EditsKept, PastDiff, Written
  <1>1. CASE SupervisorStep
    <2>1. CASE \/ AppendRunningIndexEntry \/ WriteInitialStatus \/ OpenLogs \/ StartSession
               \/ StartPreHook \/ FinishPreHook
      BY <2>1 DEF AppendRunningIndexEntry, WriteInitialStatus, OpenLogs, RunReturnsError,
           StartSession, AfterBootstrap, StartPreHook, FreshCtx, FinishPreHook
    <2>2. CASE \/ BeginCreate \/ CreateContainer \/ StartContainer \/ MarkStarted \/ AgentFinished
               \/ AgentTimedOut \/ AgentCancelled \/ Escalate
      BY <2>2 DEF BeginCreate, CreateContainer, StartContainer, StartFailed, MarkStarted,
           AgentFinished, ToVerify, AgentTimedOut, AgentCancelled, Escalate
    <2>3. CASE StartVerifyHook \/ FinishVerifyHook
      <3>1. pc' \in {"verify", "verifyRun", "diff"}
        BY <2>3 DEF StartVerifyHook, FinishVerifyHook, FreshCtx, VerifyTimedOut, AfterVerifyHook
      <3> QED
        BY <3>1
    <2>4. CASE WaitReturns \/ WriteTerminalStatus \/ EndAttach \/ AppendFinalIndexEntry
               \/ UnwindRun
      BY <1>0, <2>4 DEF WaitReturns, WriteTerminalStatus, EndAttach, AppendFinalIndexEntry,
           UnwindRun, KeepsWorktree, evVars
    <2>5. CASE WriteDiffArtifacts
      BY <2>5 DEF WriteDiffArtifacts, Downgrade
    <2>6. CASE CleanupContainer
      BY <1>0, <2>6 DEF CleanupContainer, Downgrade, evVars
    <2> QED
      BY <1>1, <2>1, <2>2, <2>3, <2>4, <2>5, <2>6 DEF SupervisorStep
  <1>2. CASE DeadlinePasses \/ (\E s \in Signals : SignalArrives(s)) \/ Crash
    BY <1>0, <1>2 DEF DeadlinePasses, SignalArrives, Crash, evVars
  <1>3. CASE AgentStep
    <2>1. CASE AgentEdits
      <3>1. container = "running" /\ exitCode = NoCode /\ UNCHANGED <<pc, out>>
        BY <1>0, <2>1 DEF AgentEdits, ExitedOnce, supVars
      <3>2. ~(pc \in PastDiff /\ out = "success" /\ ~cmdErr) /\ UNCHANGED cmdErr
        BY <1>0, <2>1, <3>1 DEF OutcomeFounded, AfterAgent, NoCode, AgentEdits, supVars
      <3> QED
        BY <3>1, <3>2
    <2> QED
      BY <1>0, <1>3, <2>1 DEF AgentStep, AgentExits, Prune, supVars, evVars
  <1>4. ASSUME NEW c \in Clients, SequentialClientStep(c) PROVE EditsKept'
    BY <1>0, <1>4, ClientIsAlone, ClientRemoves DEF RemoveRunWorktree, supVars
  <1>5. CASE UNCHANGED vars
    BY <1>0, <1>5 DEF vars, supVars, evVars
  <1> QED
    BY <1>1, <1>2, <1>3, <1>4, <1>5, SequentialKinds DEF SupervisorSide

\* The container runs only while its Process knows it, or after a removal
\* that failed; nobody concludes a run whose container is running
\* (process.go:147-153, runner.go:214-234, reconcile.go:84-96).
LEMMA ContainerOwnedStep ==
  ASSUME AgreementInv, [SequentialNext]_vars
  PROVE  ContainerOwned'
  <1>0. /\ ContainerOwned /\ ExitedOnce /\ RecordInv /\ FlagOfPhase /\ StatusOfPhase
        /\ owned \in BOOLEAN /\ rmFailed \in BOOLEAN /\ RemovalOfPhase /\ TypeOK
    BY DEF AgreementInv, RecordInv, FoundedInv, TypeInv, TypeOK, SupervisorTypeOK
  <1>1. CASE SupervisorSide
    <2>1. NoneActive' /\ pc # "crashed"
      BY <1>0, <1>1, SupervisorIsAlone DEF SupervisorGone
    <2> DEFINE Own == /\ pc' \in Holding /\ (out' = "success" \/ container' = "running") => owned'
                      /\ pc' \in {"finish"} \cup Written /\ out' = "success" /\ ~cmdErr'
                           => container' = "absent"
                      /\ pc' \in {"finish"} \cup Written /\ container' = "running" => rmFailed'
    <2>2. Own
      <3> USE <1>0 DEF ContainerOwned, Holding, Written
      <3>1. CASE SupervisorStep
        <4>1. CASE AppendRunningIndexEntry \/ WriteInitialStatus \/ OpenLogs \/ StartSession
          BY <4>1 DEF AppendRunningIndexEntry, WriteInitialStatus, OpenLogs, RunReturnsError,
               StartSession, AfterBootstrap, ExitedOnce, BeforeAgent, ctrVars
        <4>2. CASE StartPreHook
          BY <4>2 DEF StartPreHook, ExitedOnce, BeforeAgent, FreshCtx, FlagOfPhase, Undecided,
               ctrVars
        <4>3. CASE FinishPreHook
          BY <4>3 DEF FinishPreHook, ExitedOnce, BeforeAgent, ctrVars
        <4>4. CASE BeginCreate
          BY <4>4 DEF BeginCreate, StartFailed, ExitedOnce, BeforeAgent, ctrVars
        <4>5. CASE CreateContainer
          BY <4>5 DEF CreateContainer, StartFailed, ExitedOnce, BeforeAgent
        <4>6. CASE StartContainer
          BY <4>6 DEF StartContainer, StartFailed, FlagOfPhase, Undecided
        <4>7. CASE MarkStarted \/ WaitReturns
          BY <4>7 DEF MarkStarted, WaitReturns, ctrVars
        <4>8. CASE AgentFinished \/ AgentTimedOut \/ AgentCancelled
          BY <4>8 DEF AgentFinished, ToVerify, AgentTimedOut, AgentCancelled, FlagOfPhase,
               Undecided, ctrVars
        <4>9. CASE Escalate
          BY <4>9 DEF Escalate, ctrVars
        <4>10. CASE StartVerifyHook \/ FinishVerifyHook
          <5>1. /\ pc \in {"verify", "verifyRun"} /\ pc' \in {"verify", "verifyRun", "diff"}
                /\ UNCHANGED <<container, owned>>
            BY <4>10 DEF StartVerifyHook, FinishVerifyHook, FreshCtx, VerifyTimedOut,
                 AfterVerifyHook, ctrVars
          <5>2. owned \/ (out # "success" /\ container # "running")
            BY <5>1
          <5>3. out = "success"
            BY <5>1 DEF FlagOfPhase, Undecided
          <5> QED
            BY <5>1, <5>2, <5>3
        <4>11. CASE WriteDiffArtifacts
          BY <4>11 DEF WriteDiffArtifacts, Downgrade, ctrVars
        <4>12. CASE CleanupContainer
          BY <4>12 DEF CleanupContainer, Downgrade
        <4>13. CASE WriteTerminalStatus \/ EndAttach \/ AppendFinalIndexEntry \/ UnwindRun
          BY <4>13 DEF WriteTerminalStatus, EndAttach, AppendFinalIndexEntry, UnwindRun, ctrVars
        <4> QED
          BY <3>1, <4>1, <4>2, <4>3, <4>4, <4>5, <4>6, <4>7, <4>8, <4>9, <4>10, <4>11, <4>12,
             <4>13 DEF SupervisorStep
      <3>2. CASE DeadlinePasses \/ (\E s \in Signals : SignalArrives(s))
        BY <3>2 DEF DeadlinePasses, SignalArrives, ctrVars
      <3>3. CASE Crash
        BY <3>3 DEF Crash
      <3> QED
        BY <1>1, <3>1, <3>2, <3>3 DEF SupervisorSide
    <2>3. IsTerminal(status'.state) /\ container' = "running" => status'.cleanupErr
      <3>1. CASE UNCHANGED status
        <4>1. container' \in {container, "absent", "created", "exited"} \/ StartContainer
          BY <1>1
          DEF SupervisorSide, SupervisorStep, AppendRunningIndexEntry, WriteInitialStatus,
              OpenLogs, StartSession, StartPreHook, FinishPreHook, BeginCreate, CreateContainer,
              MarkStarted, WaitReturns, AgentFinished, AgentTimedOut, AgentCancelled, Escalate,
              StartVerifyHook, FinishVerifyHook, WriteDiffArtifacts, CleanupContainer,
              WriteTerminalStatus, EndAttach, AppendFinalIndexEntry, UnwindRun, DeadlinePasses,
              SignalArrives, Crash, ctrVars
        <4>2. StartContainer => ~IsTerminal(status.state)
          BY <1>0 DEF StartContainer, StatusOfPhase, Unwritten, Written, SupervisorPcs,
               IsTerminal, TerminalStates, Signals
        <4> QED
          BY <1>0, <3>1, <4>1, <4>2 DEF ContainerOwned
      <3>2. CASE WriteInitialStatus /\ status' # status
        BY <3>2 DEF WriteInitialStatus, Recorded, IsTerminal, TerminalStates, Signals
      <3>3. CASE WriteTerminalStatus /\ status' # status
        <4>1. pc = "finish" /\ status'.cleanupErr = rmFailed /\ UNCHANGED container
          BY <3>3 DEF WriteTerminalStatus, ctrVars
        <4> QED
          BY <1>0, <4>1 DEF ContainerOwned
      <3> QED
        BY <1>1, <3>1, <3>2, <3>3, ClientFrame
        DEF SupervisorSide, SupervisorStep, AppendRunningIndexEntry, OpenLogs,
            StartSession, StartPreHook, FinishPreHook, BeginCreate, CreateContainer,
            StartContainer, MarkStarted, WaitReturns, AgentFinished, AgentTimedOut,
            AgentCancelled, Escalate, StartVerifyHook, FinishVerifyHook, WriteDiffArtifacts,
            CleanupContainer, EndAttach, AppendFinalIndexEntry, UnwindRun, DeadlinePasses,
            SignalArrives, Crash, evVars
    <2> QED
      BY <2>1, <2>2, <2>3 DEF ContainerOwned, NoneActive
  <1>2. CASE AgentStep
    <2>1. /\ container' # "running" \/ container = "running"
          /\ container = "absent" => container' = "absent"
          /\ UNCHANGED <<pc, out, owned, rmFailed, cmdErr, status, cpc>>
      BY <1>2 DEF AgentStep, AgentEdits, AgentExits, Prune, supVars, ctrVars, evVars, cliVars
    <2> QED
      BY <1>0, <2>1 DEF ContainerOwned
  <1>3. ASSUME NEW c \in Clients, SequentialClientStep(c) PROVE ContainerOwned'
    <2>1. /\ UNCHANGED <<pc, out, owned, rmFailed, cmdErr>> /\ SupervisorGone
          /\ \A d \in Clients \ {c} : cpc'[d] = "idle"
          /\ container' \in {container, "absent"}
      BY <1>0, <1>3, ClientIsAlone, ClientRemoves DEF supVars
    <2>2. cpc'[c] \in {"marker", "flag", "write"} => container' # "running"
      BY <1>0, <1>3, <2>1
      DEF SequentialClientStep, BeginClient, ContinueClient, GiveUp, PromoteReadStatus,
          ReadRunStatus, InspectContainer, ShowsLife, ReadStartMarker, InferOutcome,
          WriteReconciledStatus, EnsureIndexState, RemoveRunContainer, RemoveRunWorktree,
          DecidePromotion, Leave, Return, Goto, TypeOK, ClientTypeOK, ContainerOwned
    <2>3. IsTerminal(status'.state) /\ container' = "running" => status'.cleanupErr
      BY <1>0, <1>3, <2>1, ClientRemoves DEF WriteReconciledStatus, ContainerOwned, ctrVars
    <2> QED
      BY <1>0, <2>1, <2>2, <2>3 DEF ContainerOwned
  <1>4. CASE UNCHANGED vars
    BY <1>0, <1>4 DEF vars, supVars, ctrVars, evVars, cliVars, ContainerOwned
  <1> QED
    BY <1>1, <1>2, <1>3, <1>4, SequentialKinds

\* The worktree is given up after the end of a run that was no success, or
\* by a command that failed (cmd/tessariq/run.go:265-276, 374-406,
\* reconcile.go:139-173).
LEMMA TreeKeptStep ==
  ASSUME AgreementInv, [SequentialNext]_vars
  PROVE  TreeKept'
  <1>0. /\ TreeKept /\ RecordInv /\ StatusOfPhase /\ RemovalOfPhase /\ StatusOfClient
        /\ out \in TerminalStates /\ ConcludedView
    BY DEF AgreementInv, RecordInv, FoundedInv, TypeInv, TypeOK, SupervisorTypeOK
  <1>1. CASE SupervisorSide
    <2>1. worktree' = "removed" => UnwindRun /\ (out # "success" \/ cmdErr)
      <3>1. worktree # "removed"
        BY <1>0, <1>1, SupervisorIsAlone
      <3>2. SupervisorStep /\ worktree' = "removed" => UnwindRun
        BY <3>1 DEF SupervisorStep, AppendRunningIndexEntry, WriteInitialStatus, OpenLogs,
             StartSession, StartPreHook, FinishPreHook, BeginCreate, CreateContainer,
             StartContainer, MarkStarted, WaitReturns, AgentFinished, AgentTimedOut,
             AgentCancelled, Escalate, StartVerifyHook, FinishVerifyHook, WriteDiffArtifacts,
             CleanupContainer, WriteTerminalStatus, EndAttach, AppendFinalIndexEntry
      <3>3. ~SupervisorStep => UNCHANGED worktree
        BY <1>1 DEF SupervisorSide, DeadlinePasses, SignalArrives, Crash
      <3>4. UnwindRun /\ worktree' = "removed" => out # "success" \/ cmdErr
        BY <3>1 DEF UnwindRun, KeepsWorktree
      <3> QED
        BY <3>1, <3>2, <3>3, <3>4
    <2>2. UnwindRun => UNCHANGED <<status, cmdErr>> /\ (cmdErr \/ status.state = out)
      BY <1>0 DEF UnwindRun, StatusOfPhase, Written, evVars
    <2> QED
      BY <1>0, <2>1, <2>2 DEF TreeKept, IsTerminal
  <1>2. ASSUME NEW c \in Clients, SequentialClientStep(c) PROVE TreeKept'
    <2>0. UNCHANGED cmdErr
      BY <1>0, <1>2, ClientIsAlone DEF supVars
    <2>1. CASE RemoveRunWorktree(c)
      BY <1>0, <2>1 DEF RemoveRunWorktree, StatusOfClient, ConcludedView, Concluding, TreeKept,
           evVars
    <2>2. CASE WriteReconciledStatus(c)
      BY <1>0, <2>0, <2>2 DEF WriteReconciledStatus, StatusOfClient, TreeKept, IsTerminal,
           TerminalStates, Signals
    <2>3. CASE UNCHANGED <<status, worktree>>
      BY <1>0, <2>0, <2>3 DEF TreeKept
    <2>4. WriteReconciledStatus(c) \/ UNCHANGED status
      BY <1>2, ClientRemoves
    <2>5. RemoveRunWorktree(c) \/ UNCHANGED worktree
      BY <1>2, ClientRemoves
    <2> QED
      BY <2>1, <2>2, <2>3, <2>4, <2>5
  <1>3. CASE AgentStep \/ UNCHANGED vars
    <2>1. UNCHANGED <<status, cmdErr>> /\ (worktree' = "removed" => worktree = "removed")
      BY <1>3 DEF AgentStep, AgentEdits, AgentExits, Prune, vars, supVars, evVars
    <2> QED
      BY <1>0, <2>1 DEF TreeKept
  <1> QED
    BY <1>1, <1>2, <1>3, SequentialKinds

\* The index is given a terminal state only after status.json has it, and
\* status.json then no longer changes (runner.go:541-561,
\* reconcile.go:125-142).
LEMMA IndexStep ==
  ASSUME AgreementInv, [SequentialNext]_vars
  PROVE  IndexNeverDisagrees'
  <1>0. /\ IndexNeverDisagrees /\ RecordInv /\ StatusOfPhase /\ StatusOfClient
        /\ FoundedInv /\ pc \in SupervisorPcs
    BY DEF AgreementInv, RecordInv, FoundedInv, TypeInv, TypeOK, SupervisorTypeOK
  <1> USE DEF IsTerminal, TerminalStates, Signals
  <1>1. status' # status => ~IsTerminal(status.state) /\ UNCHANGED indexLast
    <2>1. CASE WriteInitialStatus
      BY <1>0, <2>1 DEF WriteInitialStatus, StatusOfPhase, Unwritten
    <2>2. CASE WriteTerminalStatus
      BY <1>0, <2>2 DEF WriteTerminalStatus, StatusOfPhase, Unwritten, Written, SupervisorPcs
    <2>3. ASSUME NEW c \in Clients, WriteReconciledStatus(c)
          PROVE  ~IsTerminal(status.state) /\ UNCHANGED indexLast
      BY <1>0, <2>3 DEF WriteReconciledStatus, StatusOfClient
    <2> QED
      BY <2>1, <2>2, <2>3, StatusOfOthers DEF evVars
  <1>2. CASE UNCHANGED indexLast
    BY <1>0, <1>1, <1>2 DEF IndexNeverDisagrees
  <1>3. CASE AppendRunningIndexEntry
    <2>1. indexLast' = "running" \/ UNCHANGED indexLast
      BY <1>3 DEF AppendRunningIndexEntry
    <2> QED
      BY <1>2, <2>1 DEF IndexNeverDisagrees
  <1>4. CASE AppendFinalIndexEntry
    <2>1. UNCHANGED status /\ (indexLast' = status.state \/ UNCHANGED indexLast)
      BY <1>4 DEF AppendFinalIndexEntry
    <2> QED
      BY <1>2, <2>1 DEF IndexNeverDisagrees
  <1>5. ASSUME NEW c \in Clients, EnsureIndexState(c) PROVE IndexNeverDisagrees'
    BY <1>0, <1>5 DEF EnsureIndexState, StatusOfClient, IndexNeverDisagrees
  <1>6. SupervisorSide =>
          AppendRunningIndexEntry \/ AppendFinalIndexEntry \/ UNCHANGED indexLast
    BY DEF SupervisorSide, SupervisorStep, WriteInitialStatus, OpenLogs, StartSession,
         StartPreHook, FinishPreHook, BeginCreate, CreateContainer, StartContainer,
         MarkStarted, WaitReturns, AgentFinished, AgentTimedOut, AgentCancelled, Escalate,
         StartVerifyHook, FinishVerifyHook, WriteDiffArtifacts, CleanupContainer,
         WriteTerminalStatus, EndAttach, UnwindRun, DeadlinePasses, SignalArrives, Crash, evVars
  <1>7. AgentStep \/ UNCHANGED vars => UNCHANGED indexLast
    BY DEF AgentStep, AgentEdits, AgentExits, Prune, vars, evVars
  <1> QED
    BY <1>2, <1>3, <1>4, <1>5, <1>6, <1>7, ClientRemoves, SequentialKinds

\* Nobody writes timeout.flag any more when status.json is terminal, and
\* what is written to status.json goes with the flag (runner.go:148-260,
\* reconcile.go:106-124).
LEMMA FlagMatchesStep ==
  ASSUME AgreementInv, [SequentialNext]_vars
  PROVE  FlagMatchesTimeout'
  <1>0. /\ FlagMatchesTimeout /\ RecordInv /\ StatusOfPhase /\ StatusOfClient /\ FlagOfPhase
        /\ pc \in SupervisorPcs
    BY DEF AgreementInv, RecordInv, FoundedInv, TypeInv, TypeOK, SupervisorTypeOK
  <1> USE DEF IsTerminal, TerminalStates, Signals
  <1>1. CASE UNCHANGED status
    <2>1. CASE UNCHANGED <<flag, flagLost>>
      BY <1>0, <1>1, <2>1 DEF FlagMatchesTimeout
    <2>2. CASE StartPreHook \/ FinishPreHook \/ AgentTimedOut \/ StartVerifyHook \/ FinishVerifyHook
      <3>1. ~IsTerminal(status.state)
        BY <1>0, <2>2 DEF StartPreHook, FinishPreHook, AgentTimedOut, StartVerifyHook,
             FinishVerifyHook, StatusOfPhase, Unwritten, Written, SupervisorPcs
      <3> QED
        BY <1>1, <3>1 DEF FlagMatchesTimeout
    <2>3. SupervisorSide => \/ StartPreHook \/ FinishPreHook \/ AgentTimedOut \/ StartVerifyHook
                            \/ FinishVerifyHook \/ UNCHANGED <<flag, flagLost>>
      BY DEF SupervisorSide, SupervisorStep, AppendRunningIndexEntry, WriteInitialStatus,
           OpenLogs, StartSession, BeginCreate, CreateContainer, StartContainer, MarkStarted,
           WaitReturns, AgentFinished, AgentCancelled, Escalate, WriteDiffArtifacts,
           CleanupContainer, WriteTerminalStatus, EndAttach, AppendFinalIndexEntry, UnwindRun,
           DeadlinePasses, SignalArrives, Crash, evVars
    <2>4. AgentStep \/ UNCHANGED vars => UNCHANGED <<flag, flagLost>>
      BY DEF AgentStep, AgentEdits, AgentExits, Prune, vars, evVars
    <2> QED
      BY <2>1, <2>2, <2>3, <2>4, ClientRemoves, SequentialKinds
  <1>2. CASE WriteInitialStatus /\ status' # status
    BY <1>2 DEF WriteInitialStatus, Recorded, FlagMatchesTimeout
  <1>3. CASE WriteTerminalStatus /\ status' # status
    BY <1>0, <1>3 DEF WriteTerminalStatus, FlagOfPhase, FlagMatchesTimeout
  <1>4. ASSUME NEW c \in Clients, WriteReconciledStatus(c) PROVE FlagMatchesTimeout'
    BY <1>0, <1>4 DEF WriteReconciledStatus, FlagOfPhase, FlagMatchesTimeout
  <1> QED
    BY <1>1, <1>2, <1>3, <1>4, StatusOfOthers

\* A branch is made of a terminal run without a cleanup error, and such a
\* run has no running container (promote.go:93-171).
LEMMA PromotedGoneStep ==
  ASSUME AgreementInv, [SequentialNext]_vars
  PROVE  PromotedAgentIsGone'
  <1>0. /\ PromotedAgentIsGone /\ RecordInv /\ StatusOfClient /\ ContainerOwned /\ ConcludedView
    BY DEF AgreementInv, RecordInv, FoundedInv, TypeInv
  <1>1. CASE SupervisorSide
    BY <1>0, <1>1, SupervisorIsAlone DEF PromotedAgentIsGone, cliVars
  <1>2. CASE AgentStep \/ UNCHANGED vars
    <2>1. UNCHANGED branch /\ (container' = "running" => container = "running")
      BY <1>2 DEF AgentStep, AgentEdits, AgentExits, Prune, vars, ctrVars, cliVars
    <2> QED
      BY <1>0, <2>1 DEF PromotedAgentIsGone
  <1>3. ASSUME NEW c \in Clients, SequentialClientStep(c) PROVE PromotedAgentIsGone'
    <2>1. CASE UNCHANGED branch
      BY <1>0, <1>3, <2>1, ClientRemoves DEF PromotedAgentIsGone
    <2>2. CASE DecidePromotion(c) /\ branch' # branch
      <3>1. IsTerminal(status.state) /\ ~status.cleanupErr
        BY <1>0, <2>2 DEF DecidePromotion, Promotable, StatusOfClient, ConcludedView, Concluding
      <3> QED
        BY <1>0, <2>2, <3>1 DEF DecidePromotion, ContainerOwned, PromotedAgentIsGone, ctrVars
    <2> QED
      BY <1>3, <2>1, <2>2, ClientRemoves
  <1> QED
    BY <1>1, <1>2, <1>3, SequentialKinds

\* Every step keeps the agreement.
LEMMA AgreementAlways == SequentialSpec => []AgreementInv
  <1>1. AgreementInv /\ [SequentialNext]_vars => AgreementInv'
    BY RecordStep, FlagOfPhaseStep, EditsKeptStep, ContainerOwnedStep, TreeKeptStep, IndexStep,
       FlagMatchesStep, PromotedGoneStep DEF AgreementInv
  <1> QED
    BY <1>1, AgreementInit, PTL DEF SequentialSpec

\* Used one command at a time, status.json and the index never name two
\* different ends of the run, also when the supervisor or a command dies
\* between the two writes (T-085, runner.go:541-561, reconcile.go:125-142).
THEOREM IndexAgrees == SequentialSpec => []IndexNeverDisagrees
  <1>1. AgreementInv => IndexNeverDisagrees
    BY DEF AgreementInv
  <1> QED
    BY <1>1, AgreementAlways, PTL

\* A terminal run with a timeout.flag is a timeout, and a timeout has its
\* flag unless writing it failed (runner.go:157, 189, 321, 488,
\* reconcile.go:176-195).
THEOREM FlagTellsTimeout == SequentialSpec => []FlagMatchesTimeout
  <1>1. AgreementInv => FlagMatchesTimeout
    BY DEF AgreementInv
  <1> QED
    BY <1>1, AgreementAlways, PTL

\* A success whose command did not fail keeps its worktree, has its edits in
\* diff.patch unless its supervisor died, and leaves no container behind
\* (runner.go:202-252, cmd/tessariq/run.go:374-406, reconcile.go:139-173).
THEOREM SuccessKeepsItsWork == SequentialSpec => []SuccessIsComplete
  <1>1. AgreementInv => SuccessIsComplete
    <2> SUFFICES ASSUME AgreementInv, status.state = "success", ~cmdErr
                 PROVE  SuccessIsComplete
      BY DEF SuccessIsComplete
    <2>1. /\ TreeKept /\ EditsKept /\ ContainerOwned /\ StatusOfPhase /\ pc \in SupervisorPcs
      BY DEF AgreementInv, RecordInv, FoundedInv, TypeInv, TypeOK, SupervisorTypeOK
    <2>2. pc # "crashed" => pc \in Written /\ out = "success"
      BY <2>1 DEF StatusOfPhase, Unwritten, Written, SupervisorPcs
    <2> QED
      BY <2>1, <2>2 DEF TreeKept, EditsKept, PastDiff, ContainerOwned, Written,
           SuccessIsComplete
  <1> QED
    BY <1>1, AgreementAlways, PTL

\* What is promoted is the work of an agent that is no longer at it
\* (runner.go:214-234, promote.go:93-171).
THEOREM PromotedIsOver == SequentialSpec => []PromotedAgentIsGone
  <1>1. AgreementInv => PromotedAgentIsGone
    BY DEF AgreementInv
  <1> QED
    BY <1>1, AgreementAlways, PTL
=============================================================================
