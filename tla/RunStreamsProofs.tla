-------------------------- MODULE RunStreamsProofs --------------------------
(***************************************************************************)
(* Theorems about the activity timer, by itself and as RunStreams uses it. *)
(***************************************************************************)
EXTENDS RunStreams, TLAPS

TimerRecords ==
  [elapsed : Int, lastActive : 0..MaxTime, lastCheckpoint : 0..MaxTime, fired : BOOLEAN]

\* The channel is closed by firing alone.
TimerInv ==
  /\ TimerTypeOK
  /\ closes > 0 => timer.fired

-----------------------------------------------------------------------------
(* The timer.                                                              *)

\* Advance keeps the types, closes the channel only when it fires the timer,
\* and does nothing to a timer that has fired.
LEMMA AdvanceIsFinal ==
  ASSUME NEW t \in TimerRecords, NEW reading \in 0..MaxTime,
         closes \in 0..1, closes > 0 => t.fired, Advance(t, reading)
  PROVE  /\ timer' \in TimerRecords
         /\ closes' \in 0..1
         /\ closes' > 0 => timer'.fired
         /\ t.fired => closes' = closes /\ timer'.fired
<1>1. Advanced(t, reading) \in TimerRecords /\ Advanced(t, reading).fired = t.fired
  <2>1. /\ t.elapsed \in Int /\ t.lastActive \in Int /\ t.lastCheckpoint \in Int
        /\ reading \in Int
    BY MaxTimeAssumption DEF TimerRecords
  <2>2. CASE t.fired
    BY <2>2 DEF Advanced
  <2>3. CASE ~t.fired
    <3> DEFINE e == IF reading - t.lastActive <= IdleThreshold
                    THEN t.elapsed + reading - t.lastCheckpoint ELSE t.elapsed
    <3>1. e \in Int
      BY <2>1, IdleThresholdAssumption
    <3>2. Advanced(t, reading) = [t EXCEPT !.elapsed = e, !.lastCheckpoint = reading]
      BY <2>3 DEF Advanced
    <3> HIDE DEF e
    <3> QED
      BY <3>1, <3>2 DEF TimerRecords
  <2> QED
    BY <2>2, <2>3
<1> DEFINE a == Advanced(t, reading)
           over == ~t.fired /\ a.elapsed >= Timeout
<1>2. timer' = [a EXCEPT !.fired = @ \/ over] /\ closes' = IF over THEN closes + 1 ELSE closes
  BY DEF Advance
<1> HIDE DEF a
<1>3. over \in BOOLEAN
  OBVIOUS
<1> HIDE DEF over
<1>4. over => ~t.fired
  BY DEF over
<1>5. a.fired = t.fired /\ a \in TimerRecords
  BY <1>1 DEF a
<1>6. CASE over
  <2>1. timer' = [a EXCEPT !.fired = TRUE]
    <3>1. (a.fired \/ over) = TRUE
      BY <1>6
    <3> QED
      BY <1>2, <3>1
  <2>2. timer' \in TimerRecords /\ timer'.fired = TRUE
    BY <1>5, <2>1 DEF TimerRecords
  <2>3. closes = 0 /\ closes' = 1
    BY <1>2, <1>4, <1>6
  <2> QED
    BY <1>4, <1>6, <2>2, <2>3
<1>7. CASE ~over
  <2>1. timer' = a
    <3>1. a.fired \in BOOLEAN
      BY <1>5 DEF TimerRecords
    <3>2. (a.fired \/ over) = a.fired
      BY <1>7, <3>1
    <3>3. timer' = [a EXCEPT !.fired = a.fired]
      BY <1>2, <3>2
    <3> QED
      BY <1>5, <3>3 DEF TimerRecords
  <2>2. timer' \in TimerRecords /\ timer'.fired = t.fired
    BY <1>5, <2>1
  <2>3. closes' = closes
    BY <1>2, <1>7
  <2> QED
    BY <2>2, <2>3
<1> QED
  BY <1>6, <1>7

\* The invariant holds initially.
LEMMA TimerInitInv == TimerInit => TimerInv
<1> SUFFICES ASSUME TimerInit PROVE TimerInv
  OBVIOUS
<1>1. 0 \in 0..MaxTime
  BY MaxTimeAssumption
<1>2. timer \in TimerRecords
  BY <1>1 DEF TimerInit, TimerRecords
<1>3. /\ loop \in [at : {"off", "select", "read", "done"}, reading : 0..MaxTime]
      /\ recorder \in [busy : BOOLEAN, reading : 0..MaxTime]
      /\ heard \in [last : 0..MaxTime, active : Nat, silences : Nat]
  BY <1>1 DEF TimerInit
<1>4. now \in 0..MaxTime /\ closes = 0 /\ stopped \in BOOLEAN /\ ticker \in BOOLEAN
  BY <1>1 DEF TimerInit
<1> QED
  BY <1>2, <1>3, <1>4 DEF TimerInv, TimerTypeOK, TimerRecords

\* Every step of the timer keeps it, and what has fired stays fired.
LEMMA TimerStepInv ==
  ASSUME TimerInv, [TimerNext]_timerVars
  PROVE  TimerInv' /\ (timer.fired => closes' = closes /\ timer'.fired)
<1> USE MaxTimeAssumption DEF TimerInv, TimerTypeOK
<1>1. CASE TimerStart
  BY <1>1 DEF TimerStart
<1>2. CASE LoopReads
  BY <1>2 DEF LoopReads
<1>3. CASE LoopChecks
  <2>1. timer \in TimerRecords /\ loop.reading \in 0..MaxTime
    BY DEF TimerRecords
  <2>2. Advance(timer, loop.reading)
    BY <1>3 DEF LoopChecks
  <2>3. /\ timer' \in TimerRecords
        /\ closes' \in 0..1
        /\ closes' > 0 => timer'.fired
        /\ timer.fired => closes' = closes /\ timer'.fired
    BY <2>1, <2>2, AdvanceIsFinal
  <2>4. loop' \in [at : {"off", "select", "read", "done"}, reading : 0..MaxTime]
    BY <1>3 DEF LoopChecks
  <2>5. UNCHANGED <<now, stopped, ticker, recorder, heard>>
    BY <1>3 DEF LoopChecks
  <2> QED
    BY <2>3, <2>4, <2>5 DEF TimerRecords
<1>4. CASE LoopStops
  BY <1>4 DEF LoopStops
<1>5. CASE RecordReads
  <2>1. recorder' \in [busy : BOOLEAN, reading : 0..MaxTime]
    BY <1>5 DEF RecordReads
  <2> DEFINE s == IF now - heard.last >= IdleThreshold THEN heard.silences + 1 ELSE heard.silences
  <2>2. s \in Nat
    OBVIOUS
  <2>3. heard' = [heard EXCEPT !.last = now, !.silences = s]
    BY <1>5 DEF RecordReads
  <2>4. heard' \in [last : 0..MaxTime, active : Nat, silences : Nat]
    <3> HIDE DEF s
    <3> QED
      BY <2>2, <2>3
  <2>5. UNCHANGED <<now, timer, closes, stopped, ticker, loop>>
    BY <1>5 DEF RecordReads
  <2> QED
    BY <2>1, <2>4, <2>5
<1>6. CASE RecordApplies
  <2> DEFINE t == [timer EXCEPT !.lastActive = recorder.reading]
  <2>1. t \in TimerRecords /\ t.fired = timer.fired /\ recorder.reading \in 0..MaxTime
    BY DEF TimerRecords
  <2>2. Advance(t, recorder.reading)
    BY <1>6 DEF RecordApplies
  <2>3. /\ timer' \in TimerRecords
        /\ closes' \in 0..1
        /\ closes' > 0 => timer'.fired
        /\ timer.fired => closes' = closes /\ timer'.fired
    <3> HIDE DEF t
    <3> QED
      BY <2>1, <2>2, AdvanceIsFinal
  <2>4. recorder' \in [busy : BOOLEAN, reading : 0..MaxTime]
    BY <1>6 DEF RecordApplies
  <2>5. UNCHANGED <<now, stopped, ticker, loop, heard>>
    BY <1>6 DEF RecordApplies
  <2> QED
    BY <2>3, <2>4, <2>5 DEF TimerRecords
<1>7. CASE StopDisarms
  BY <1>7 DEF StopDisarms
<1>8. CASE StopCloses
  BY <1>8 DEF StopCloses
<1>9. CASE ClockTicks
  <2>1. now' \in 0..MaxTime /\ ticker' \in BOOLEAN
    BY <1>9 DEF ClockTicks
  <2>2. heard' \in [last : 0..MaxTime, active : Nat, silences : Nat]
    <3>1. CASE now' - heard.last <= IdleThreshold
      BY <1>9, <3>1 DEF ClockTicks
    <3>2. CASE ~(now' - heard.last <= IdleThreshold)
      BY <1>9, <3>2 DEF ClockTicks
    <3> QED
      BY <3>1, <3>2
  <2>3. UNCHANGED <<timer, closes, stopped, loop, recorder>>
    BY <1>9 DEF ClockTicks
  <2> QED
    BY <2>1, <2>2, <2>3
<1>10. CASE UNCHANGED timerVars
  BY <1>10 DEF timerVars
<1> QED
  BY <1>1, <1>2, <1>3, <1>4, <1>5, <1>6, <1>7, <1>8, <1>9, <1>10 DEF TimerNext, LoopStep

\* What the timer promises to whoever keeps to its steps.
TimerFinal == timer.fired => closes' = closes /\ timer'.fired

\* However its three goroutines interleave, and at whatever moment each has
\* read the clock, the timer closes its channel at most once (activity.go
\* closes it in two places, and a second close would panic).
THEOREM TimerTypeCorrect == TimerSpec => []TimerTypeOK
<1>1. TimerInit => TimerInv
  BY TimerInitInv
<1>2. TimerInv /\ [TimerNext]_timerVars => TimerInv'
  BY TimerStepInv
<1>3. TimerInv => TimerTypeOK
  BY DEF TimerInv
<1> QED
  BY <1>1, <1>2, <1>3, PTL DEF TimerSpec

-----------------------------------------------------------------------------
(* The timer in the run.                                                   *)

\* Every step of the run is a step of the timer or leaves it alone.
LEMMA RunKeepsToTimer ==
  ASSUME [Next]_vars PROVE [TimerNext]_timerVars
<1>1. CASE RunnerStep
  <2>1. CASE StartSession
    BY <2>1 DEF StartSession
  <2>2. CASE RunPreHooks
    BY <2>2 DEF RunPreHooks
  <2>3. CASE PrepareOutput
    BY <2>3 DEF PrepareOutput, TimerNext
  <2>4. CASE StartProcess
    BY <2>4 DEF StartProcess
  <2>5. CASE Launch
    BY <2>5 DEF Launch
  <2>6. CASE MakeAttachable
    BY <2>6 DEF MakeAttachable
  <2>7. CASE AwaitAgent
    BY <2>7 DEF AwaitAgent
  <2>8. CASE Unwind
    BY <2>8 DEF Unwind, TimerNext
  <2>9. CASE FinishLog
    BY <2>9 DEF FinishLog, WriteEndLine, CapRunLog
  <2>10. CASE FinishRun
    BY <2>10 DEF FinishRun
  <2> QED
    BY <1>1, <2>1, <2>2, <2>3, <2>4, <2>5, <2>6, <2>7, <2>8, <2>9, <2>10 DEF RunnerStep
<1>2. CASE StreamStep
  <2>1. CASE StartStream
    BY <2>1 DEF StartStream
  <2>2. CASE PassOn
    BY <2>2 DEF PassOn, TimerNext
  <2>3. CASE RecordActivity
    BY <2>3 DEF RecordActivity, TimerNext
  <2>4. CASE EndStream
    BY <2>4 DEF EndStream
  <2>5. CASE CloseStream
    BY <2>5 DEF CloseStream
  <2> QED
    BY <1>2, <2>1, <2>2, <2>3, <2>4, <2>5 DEF StreamStep
<1>3. CASE TimerStep
  BY <1>3 DEF TimerStep, TimerNext
<1>4. CASE WaiterStep \/ MonitorStep \/ CommandStep
  BY <1>4 DEF WaiterStep, MonitorStep, CommandStep
<1>5. CASE UserDetaches \/ AgentStep \/ SessionEnds \/ SignalArrives \/ DockerHangs
  BY <1>5 DEF UserDetaches, AgentStep, SessionEnds, SignalArrives, DockerHangs
<1>6. CASE UNCHANGED vars
  BY <1>6 DEF vars
<1> QED
  BY <1>1, <1>2, <1>3, <1>4, <1>5, <1>6 DEF Next

\* The run implements the timer's specification: the runner, the goroutine
\* that copies the output and the timer's own loop (runner.go, process.go)
\* call it in no way and in no order that activity.go does not provide for.
THEOREM RunImplementsTimer == Spec => TimerSpec
<1>1. Init => TimerInit
  BY DEF Init
<1>2. [Next]_vars => [TimerNext]_timerVars
  BY RunKeepsToTimer
<1> QED
  BY <1>1, <1>2, PTL DEF Spec, TimerSpec

\* Whichever of the expiry and the deferred Stop comes first, no reading of
\* the clock that another goroutine took before closes the channel again.
THEOREM RunExpiryIsFinal == Spec => ExpiryIsFinal
<1>1. TimerInit => TimerInv
  BY TimerInitInv
<1>2. TimerInv /\ [TimerNext]_timerVars => TimerInv'
  BY TimerStepInv
<1>3. TimerInv /\ [TimerNext]_timerVars => [TimerFinal]_timerVars
  BY TimerStepInv DEF TimerFinal
<1>4. TimerSpec => [][TimerFinal]_timerVars
  BY <1>1, <1>2, <1>3, PTL DEF TimerSpec
<1>5. [TimerFinal]_timerVars <=> [timer.fired => closes' = closes /\ timer'.fired]_timerVars
  BY DEF TimerFinal
<1> QED
  BY <1>4, <1>5, RunImplementsTimer, PTL DEF ExpiryIsFinal

-----------------------------------------------------------------------------
(* What the command returns.                                               *)

\* A command that attaches the terminal does so before it waits for the run,
\* and returns without it only when the run is done and no session was made.
ReturnInv ==
  /\ main \in {"select", "attach", "attaching", "await", "returned"}
  /\ mode.attach /\ main \in {"attaching", "await"} => attached # "no"
  /\ main = "returned" =>
       /\ runner = "done"
       /\ returned = "run" <=> outcome = "failure"
       /\ mode.attach /\ ready => attached # "no"

\* What the invariant is about.
returnVars == <<mode, main, attached, returned, runner, outcome, ready>>

\* A run that is done makes no more steps.
LEMMA RunnerStepsBeforeDone ==
  ASSUME RunnerStep
  PROVE  runner # "done" /\ UNCHANGED <<mode, main, attached, returned>>
<1>1. UNCHANGED <<mode, main, attached, returned>>
  BY DEF RunnerStep, commandVars
<1>2. runner # "done"
  <2>1. StartSession \/ RunPreHooks \/ PrepareOutput => runner # "done"
    BY DEF StartSession, RunPreHooks, PrepareOutput
  <2>2. StartProcess \/ Launch \/ MakeAttachable => runner # "done"
    BY DEF StartProcess, Launch, MakeAttachable
  <2>3. AwaitAgent => runner # "done"
    BY DEF AwaitAgent, AgentFinished, AgentIsEnded, SendSIGTERM, GraceExpires,
           SendSIGKILL, AnswerInTime, GiveUpWaiting
  <2>4. Unwind \/ FinishLog \/ FinishRun => runner # "done"
    BY DEF Unwind, FinishLog, WriteEndLine, CapRunLog, FinishRun
  <2> QED
    BY <2>1, <2>2, <2>3, <2>4 DEF RunnerStep
<1> QED
  BY <1>1, <1>2

\* No other goroutine touches what the invariant is about.
LEMMA OthersKeepReturn ==
  ASSUME \/ WaiterStep \/ MonitorStep \/ StreamStep \/ AgentStep \/ SessionEnds
         \/ SignalArrives \/ DockerHangs \/ TimerStep \/ UNCHANGED vars
  PROVE  UNCHANGED returnVars
<1> USE DEF returnVars, commandVars, runnerVars
<1>1. CASE WaiterStep \/ MonitorStep \/ StreamStep
  BY <1>1 DEF WaiterStep, MonitorStep, StreamStep
<1>2. CASE AgentStep \/ SessionEnds \/ SignalArrives \/ DockerHangs
  BY <1>2 DEF AgentStep, SessionEnds, SignalArrives, DockerHangs
<1>3. CASE TimerStep
  BY <1>3 DEF TimerStep
<1>4. CASE UNCHANGED vars
  BY <1>4 DEF vars
<1> QED
  BY <1>1, <1>2, <1>3, <1>4

\* Every step keeps the invariant.
LEMMA ReturnStepInv ==
  ASSUME ReturnInv, [Next]_vars PROVE ReturnInv'
<1>1. CASE RunnerStep
  BY <1>1, RunnerStepsBeforeDone DEF ReturnInv
<1>2. CASE CommandStep
  <2>1. UNCHANGED <<mode, runner, outcome, ready>>
    BY <1>2 DEF CommandStep, runnerVars
  <2>2. CASE AwaitSession
    BY <2>1, <2>2 DEF AwaitSession, RunIsDone, ReturnInv
  <2>3. CASE Attach
    BY <2>1, <2>3 DEF Attach, ReturnInv
  <2>4. CASE EndAttach
    BY <2>1, <2>4 DEF EndAttach, ReturnInv
  <2>5. CASE AwaitRun
    BY <2>1, <2>5 DEF AwaitRun, RunIsDone, ReturnInv
  <2> QED
    BY <1>2, <2>2, <2>3, <2>4, <2>5 DEF CommandStep
<1>3. CASE UserDetaches
  <2>1. UNCHANGED <<mode, attached, returned, runner, outcome, ready>>
    BY <1>3 DEF UserDetaches, runnerVars
  <2> QED
    BY <1>3, <2>1 DEF UserDetaches, ReturnInv
<1>4. CASE UNCHANGED returnVars
  BY <1>4 DEF returnVars, ReturnInv
<1> QED
  BY <1>1, <1>2, <1>3, <1>4, OthersKeepReturn DEF Next

\* Whatever fails, hangs or is cancelled, and however fast the run is, the
\* command returns the run's own outcome once the run is done, and with
\* --attach passes over no session that was ready (runWithAttach and
\* attachWhenSessionReady, cmd/tessariq/run.go).
THEOREM CommandTellsTheTruth == Spec => []ReturnIsTrue
<1>1. Init => ReturnInv
  BY DEF Init, ReturnInv
<1>2. ReturnInv /\ [Next]_vars => ReturnInv'
  BY ReturnStepInv
<1>3. ReturnInv => ReturnIsTrue
  BY DEF ReturnInv, ReturnIsTrue
<1> QED
  BY <1>1, <1>2, <1>3, PTL DEF Spec
=============================================================================
