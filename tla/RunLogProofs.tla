---------------------------- MODULE RunLogProofs ----------------------------
(***************************************************************************)
(* Theorems about run.log, which up to three goroutines and a process      *)
(* write, each at an offset of its own.                                    *)
(***************************************************************************)
EXTENDS RunStreamsProofs, SequenceTheorems

-----------------------------------------------------------------------------
(* Types.                                                                  *)

\* What TypeOK says of the goroutines, and of what they pass on.
ControlOK ==
  /\ mode \in [interactive : BOOLEAN, attach : BOOLEAN]
  /\ main \in {"select", "attach", "attaching", "await", "returned"}
  /\ attached \in {"no", "yes", "failed"}
  /\ returned \in {"none", "ok", "run", "attach"}
  /\ runner \in RunnerPcs
  /\ outcome \in {"none", "success", "failure"}
  /\ broken \in {"no", "failed", "hung"}
  /\ waiter \in {"off", "waiting", "draining", "done"}
  /\ waitCh \in {"empty", "code", "error", "read"}
  /\ monitor \in {"off", "select", "truncated", "stopping", "done"}
  /\ stream \in Following \cup {"off", "spawning", "dead", "closed"}
  /\ container \in {"none", "up", "exited", "removed"}

FlagsOK ==
  /\ answered \in BOOLEAN /\ ready \in BOOLEAN /\ session \in BOOLEAN
  /\ capped \in BOOLEAN /\ killed \in BOOLEAN /\ cancelled \in BOOLEAN

DataOK ==
  /\ mode \in Modes
  /\ produced \in 0..Writes[mode]
  /\ streamed \in 0..produced
  /\ offset \in Nat
  /\ log \in Seq(Hole..produced)

LEMMA InitTypes == Init => ControlOK /\ FlagsOK /\ DataOK
<1> SUFFICES ASSUME Init PROVE ControlOK /\ FlagsOK /\ DataOK
  OBVIOUS
<1>1. mode \in Modes /\ mode \in [interactive : BOOLEAN, attach : BOOLEAN]
  BY ModesAssumption DEF Init
<1>2. ControlOK
  BY <1>1 DEF Init, ControlOK, RunnerPcs
<1>3. log \in Seq(Hole..produced)
  BY EmptySeq DEF Init
<1>4. Writes[mode] \in Nat
  BY <1>1, WritesAssumption
<1>5. FlagsOK
  BY DEF Init, FlagsOK
<1> QED
  BY <1>1, <1>2, <1>3, <1>4, <1>5 DEF Init, DataOK

LEMMA RunnerControl ==
  ASSUME ControlOK, RunnerStep PROVE ControlOK'
<1>0. UNCHANGED <<mode, main, attached, returned, cancelled>>
  BY DEF RunnerStep, commandVars
<1> USE DEF ControlOK, Goto, Settle, Holds, Breaks, Answers, Fails, RunnerPcs, MayBreak,
            waiterVars, streamVars, agentVars, logVars
<1>1. CASE StartSession
  BY <1>0, <1>1 DEF StartSession
<1>2. CASE RunPreHooks
  BY <1>0, <1>2 DEF RunPreHooks
<1>3. CASE PrepareOutput
  BY <1>0, <1>3 DEF PrepareOutput
<1>4. CASE StartProcess
  BY <1>0, <1>4 DEF StartProcess
<1>5. CASE Launch
  BY <1>0, <1>5 DEF Launch
<1>6. CASE MakeAttachable
  BY <1>0, <1>6 DEF MakeAttachable
<1>7. CASE AwaitAgent
  <2>1. UNCHANGED <<capped, monitor, stream, container>>
    BY <1>7 DEF AwaitAgent
  <2>2. CASE AgentFinished \/ AnswerInTime
    BY <1>0, <2>1, <2>2 DEF AgentFinished, AnswerInTime, TakeAnswer
  <2>3. CASE AgentIsEnded \/ SendSIGTERM \/ GraceExpires \/ SendSIGKILL \/ GiveUpWaiting
    BY <1>0, <2>1, <2>3 DEF AgentIsEnded, SendSIGTERM, GraceExpires, SendSIGKILL, GiveUpWaiting
  <2> QED
    BY <1>7, <2>2, <2>3 DEF AwaitAgent
<1>8. CASE Unwind
  BY <1>0, <1>8 DEF Unwind
<1>9. CASE FinishLog
  BY <1>0, <1>9 DEF FinishLog, WriteEndLine, CapRunLog, Truncate, AppendMarker
<1>10. CASE FinishRun
  BY <1>0, <1>10 DEF FinishRun
<1> QED
  BY <1>1, <1>2, <1>3, <1>4, <1>5, <1>6, <1>7, <1>8, <1>9, <1>10 DEF RunnerStep

LEMMA OtherControl ==
  ASSUME ControlOK, [Next]_vars, ~RunnerStep PROVE ControlOK'
<1> USE DEF ControlOK, Holds, Breaks, Answers, MayBreak, commandVars, runnerVars,
            waiterVars, streamVars, agentVars, logVars, faultVars
<1>1. CASE WaiterStep
  BY <1>1 DEF WaiterStep, DockerWait, WaitForLogs
<1>2. CASE MonitorStep
  <2>1. UNCHANGED <<mode, commandVars, runnerVars, waiterVars, agentVars>>
    BY <1>2 DEF MonitorStep
  <2>2. monitor' \in {"off", "select", "truncated", "stopping", "done"}
    BY <1>2 DEF MonitorStep, MonitorStops, MonitorCaps, StopLogStream
  <2>3. broken' \in {"no", "failed", "hung"} /\ stream' \in Following \cup {"off", "spawning", "dead", "closed"}
    BY <1>2 DEF MonitorStep, MonitorStops, MonitorCaps, StopLogStream, Following
  <2> QED
    BY <2>1, <2>2, <2>3
<1>3. CASE StreamStep
  <2>1. UNCHANGED <<mode, commandVars, runnerVars, waiterVars, monitor, agentVars, cancelled>>
    BY <1>3 DEF StreamStep
  <2>2. broken' \in {"no", "failed", "hung"} /\ stream' \in Following \cup {"off", "spawning", "dead", "closed"}
    BY <1>3 DEF StreamStep, StartStream, PassOn, RecordActivity, EndStream, CloseStream, Following
  <2> QED
    BY <2>1, <2>2
<1>4. CASE CommandStep
  <2>1. returned' \in {"none", "ok", "run", "attach"}
    BY <1>4 DEF CommandStep, AwaitSession, Attach, EndAttach, AwaitRun
  <2>2. main' \in {"select", "attach", "attaching", "await", "returned"}
        /\ attached' \in {"no", "yes", "failed"}
    BY <1>4 DEF CommandStep, AwaitSession, Attach, EndAttach, AwaitRun
  <2> QED
    BY <1>4, <2>1, <2>2 DEF CommandStep
<1>5. CASE UserDetaches \/ SessionEnds \/ SignalArrives \/ DockerHangs
  BY <1>5 DEF UserDetaches, SessionEnds, SignalArrives, DockerHangs
<1>6. CASE AgentStep
  BY <1>6 DEF AgentStep, AgentWrites, AgentExits
<1>7. CASE TimerStep
  BY <1>7 DEF TimerStep
<1>8. CASE UNCHANGED vars
  BY <1>8 DEF vars
<1> QED
  BY <1>1, <1>2, <1>3, <1>4, <1>5, <1>6, <1>7, <1>8 DEF Next

\* The flags stay flags.
LEMMA WriteFlags ==
  ASSUME NEW c, capped \in BOOLEAN,
         WriteFile(c) \/ WriteCapped(c) \/ WriteLine(c) \/ UNCHANGED logVars
  PROVE  capped' \in BOOLEAN
BY DEF WriteFile, WriteCapped, WriteLine, logVars

LEMMA FlagsStep ==
  ASSUME FlagsOK, [Next]_vars PROVE FlagsOK'
<1> USE DEF FlagsOK, commandVars, runnerVars, waiterVars, streamVars, agentVars, logVars, faultVars
<1>1. CASE RunnerStep
  <2>0. UNCHANGED cancelled
    BY <1>1 DEF RunnerStep
  <2>1. CASE StartSession
    BY <2>0, <2>1 DEF StartSession
  <2>2. CASE RunPreHooks
    BY <2>0, <2>2 DEF RunPreHooks
  <2>3. CASE PrepareOutput
    BY <2>0, <2>3, WriteFlags DEF PrepareOutput
  <2>4. CASE StartProcess
    BY <2>0, <2>4 DEF StartProcess
  <2>5. CASE Launch
    BY <2>0, <2>5 DEF Launch
  <2>6. CASE MakeAttachable
    <3>1. session' \in BOOLEAN
      BY <2>6 DEF MakeAttachable
    <3>2. ready' \in BOOLEAN /\ UNCHANGED <<answered, capped, killed>>
      BY <2>6 DEF MakeAttachable
    <3> QED
      BY <2>0, <3>1, <3>2
  <2>7. CASE AwaitAgent
    <3>1. answered' \in BOOLEAN
      BY <2>7 DEF AwaitAgent, AgentFinished, AgentIsEnded, SendSIGTERM, GraceExpires, SendSIGKILL,
                  AnswerInTime, GiveUpWaiting, TakeAnswer
    <3>2. killed' \in BOOLEAN
      BY <2>7 DEF AwaitAgent, AgentFinished, AgentIsEnded, SendSIGTERM, GraceExpires, SendSIGKILL,
                  AnswerInTime, GiveUpWaiting
    <3>3. UNCHANGED <<ready, session, capped>>
      BY <2>7 DEF AwaitAgent, AgentFinished, AgentIsEnded, SendSIGTERM, GraceExpires, SendSIGKILL,
                  AnswerInTime, GiveUpWaiting
    <3> QED
      BY <2>0, <3>1, <3>2, <3>3
  <2>8. CASE Unwind
    BY <2>0, <2>8 DEF Unwind
  <2>9. CASE FinishLog
    <3>1. capped' \in BOOLEAN
      BY <2>9, WriteFlags DEF FinishLog, WriteEndLine, CapRunLog, Truncate, AppendMarker
    <3> QED
      BY <2>0, <2>9, <3>1 DEF FinishLog
  <2>10. CASE FinishRun
    BY <2>0, <2>10 DEF FinishRun
  <2> QED
    BY <1>1, <2>1, <2>2, <2>3, <2>4, <2>5, <2>6, <2>7, <2>8, <2>9, <2>10 DEF RunnerStep
<1>2. CASE MonitorStep
  <2>1. UNCHANGED capped
    BY <1>2 DEF MonitorStep, MonitorStops, MonitorCaps, StopLogStream, Truncate, AppendMarker
  <2> QED
    BY <1>2, <2>1 DEF MonitorStep
<1>3. CASE StreamStep
  <2>1. capped' \in BOOLEAN
    BY <1>3, WriteFlags DEF StreamStep, StartStream, PassOn, RecordActivity, EndStream, CloseStream
  <2> QED
    BY <1>3, <2>1 DEF StreamStep
<1>4. CASE WaiterStep \/ CommandStep \/ TimerStep
  BY <1>4 DEF WaiterStep, CommandStep, TimerStep
<1>5. CASE UserDetaches \/ SessionEnds \/ DockerHangs
  BY <1>5 DEF UserDetaches, SessionEnds, DockerHangs
<1>6. CASE SignalArrives
  BY <1>6 DEF SignalArrives
<1>7. CASE AgentStep
  BY <1>7 DEF AgentStep, AgentWrites, AgentExits
<1>8. CASE UNCHANGED vars
  BY <1>8 DEF vars
<1> QED
  BY <1>1, <1>2, <1>3, <1>4, <1>5, <1>6, <1>7, <1>8 DEF Next

-----------------------------------------------------------------------------
(* Operations on run.log.                                                  *)

\* A write at position i changes nothing else and leaves a hole before it.
LEMMA PutProperties ==
  ASSUME NEW S, NEW f \in Seq(S), NEW i \in Nat \ {0}, NEW c \in S, Hole \in S
  PROVE  /\ Put(f, i, c) \in Seq(S)
         /\ Len(f) \in Nat
         /\ Len(Put(f, i, c)) = IF i > Len(f) THEN i ELSE Len(f)
         /\ Put(f, i, c)[i] = c
         /\ \A k \in 1..Len(f) : k # i => Put(f, i, c)[k] = f[k]
<1> DEFINE m == IF i > Len(f) THEN i ELSE Len(f)
           p == Put(f, i, c)
<1>1. Len(f) \in Nat /\ f \in [1..Len(f) -> S]
  BY LenProperties
<1>2. m \in Nat /\ i \in 1..m /\ Len(f) <= m
  BY <1>1
<1>3. p = [k \in 1..m |-> CASE k = i -> c [] k # i /\ k <= Len(f) -> f[k] [] OTHER -> Hole]
  BY DEF Put
<1> HIDE DEF m, p
<1>4. p[i] = c
  BY <1>2, <1>3
<1>5. \A k \in 1..Len(f) : k # i => p[k] = f[k]
  BY <1>1, <1>2, <1>3
<1>6. \A k \in 1..m : p[k] \in S
  BY <1>1, <1>2, <1>3
<1>7. p \in [1..m -> S]
  BY <1>3, <1>6
<1>8. p \in Seq(S) /\ Len(p) = m
  BY <1>2, <1>7
<1> QED
  BY <1>1, <1>4, <1>5, <1>8 DEF m, p

\* What the cap makes of a file that is too long.
LEMMA TruncateProperties ==
  ASSUME NEW S, NEW f \in Seq(S), Cap <= Len(f)
  PROVE  /\ SubSeq(f, 1, Cap) \in Seq(S)
         /\ Len(SubSeq(f, 1, Cap)) = Cap
         /\ \A k \in 1..Cap : SubSeq(f, 1, Cap)[k] = f[k]
<1>1. Len(f) \in Nat /\ f \in [1..Len(f) -> S] /\ Cap \in Nat /\ Cap >= 1
  BY LenProperties, CapAssumption
<1>2. \A k \in 1..Cap : f[k] \in S
  BY <1>1
<1>3. SubSeq(f, 1, Cap) \in Seq(S)
  BY <1>1, <1>2, SubSeqProperties
<1>4. Len(SubSeq(f, 1, Cap)) = IF 1 <= Cap THEN Cap - 1 + 1 ELSE 0
  BY <1>1, <1>2, SubSeqProperties
<1>5. \A k \in 1..(Cap - 1 + 1) : SubSeq(f, 1, Cap)[k] = f[1 + k - 1]
  BY <1>1, <1>2, SubSeqProperties
<1>6. \A k \in 1..Cap : SubSeq(f, 1, Cap)[k] = f[k]
  <2>1. ASSUME NEW k \in 1..Cap PROVE SubSeq(f, 1, Cap)[k] = f[k]
    <3>1. k \in 1..(Cap - 1 + 1) /\ 1 + k - 1 = k
      BY <1>1
    <3> QED
      BY <1>5, <3>1
  <2> QED
    BY <2>1
<1> QED
  BY <1>1, <1>3, <1>4, <1>6

\* A write of any line keeps the types.
LEMMA WriteTypes ==
  ASSUME offset \in Nat, log \in Seq(Hole..produced), produced \in Nat, NEW c \in Hole..produced,
         WriteFile(c) \/ WriteCapped(c)
  PROVE  offset' \in Nat /\ log' \in Seq(Hole..produced)
<1>1. /\ Hole \in Hole..produced /\ Marker \in Hole..produced
  BY DEF Hole, Marker
<1>2. ASSUME NEW d \in Hole..produced
      PROVE  Put(log, offset + 1, d) \in Seq(Hole..produced)
  <2>1. offset + 1 \in Nat \ {0}
    OBVIOUS
  <2> QED
    BY <1>1, <2>1, PutProperties
<1>3. CASE WriteFile(c)
  BY <1>2, <1>3 DEF WriteFile
<1>4. CASE WriteCapped(c)
  BY <1>1, <1>2, <1>4 DEF WriteCapped, logVars
<1> QED
  BY <1>3, <1>4

\* So does the cap.
LEMMA CapTypes ==
  ASSUME offset \in Nat, log \in Seq(Hole..produced), produced \in Nat,
         (TooLong /\ Truncate) \/ AppendMarker
  PROVE  offset' \in Nat /\ log' \in Seq(Hole..produced)
<1>1. CASE TooLong /\ Truncate
  <2>1. Len(log) \in Nat /\ Cap \in Nat
    BY LenProperties, CapAssumption
  <2>2. SubSeq(log, 1, Cap) \in Seq(Hole..produced)
    <3>1. Cap <= Len(log)
      BY <1>1, <2>1 DEF TooLong
    <3> QED
      BY <3>1, TruncateProperties
  <2> QED
    BY <1>1, <2>2 DEF Truncate
<1>2. CASE AppendMarker
  <2>1. Marker \in Hole..produced
    BY DEF Hole, Marker
  <2>2. Append(log, Marker) \in Seq(Hole..produced)
    BY <2>1, AppendProperties
  <2> QED
    BY <1>2, <2>2 DEF AppendMarker
<1> QED
  BY <1>1, <1>2

\* What happens to run.log in a step.
LEMMA LogSteps ==
  ASSUME [Next]_vars
  PROVE  \/ UNCHANGED logVars
         \/ runner = "prepare" /\ WriteLine(StartLine)
         \/ runner = "unwound" /\ WriteLine(EndLine)
         \/ /\ PassOn /\ ~mode.interactive
            /\ WriteFile(streamed')
         \/ /\ PassOn /\ mode.interactive /\ runner # "done"
            /\ WriteCapped(streamed')
         \/ (monitor = "select" \/ runner = "cap") /\ TooLong /\ Truncate
         \/ (monitor = "truncated" \/ runner = "mark") /\ AppendMarker
<1>1. CASE RunnerStep
  <2>1. StartSession \/ RunPreHooks \/ StartProcess \/ Launch => UNCHANGED logVars
    BY DEF StartSession, RunPreHooks, StartProcess, Launch
  <2>2. MakeAttachable \/ AwaitAgent \/ Unwind \/ FinishRun => UNCHANGED logVars
    BY DEF MakeAttachable, AwaitAgent, Unwind, FinishRun
  <2>3. PrepareOutput => runner = "prepare" /\ WriteLine(StartLine)
    BY DEF PrepareOutput
  <2>4. FinishLog => \/ UNCHANGED logVars
                     \/ runner = "unwound" /\ WriteLine(EndLine)
                     \/ runner = "cap" /\ TooLong /\ Truncate
                     \/ runner = "mark" /\ AppendMarker
    BY DEF FinishLog, WriteEndLine, CapRunLog
  <2> QED
    BY <1>1, <2>1, <2>2, <2>3, <2>4 DEF RunnerStep
<1>2. CASE MonitorStep
  BY <1>2 DEF MonitorStep, MonitorStops, MonitorCaps, StopLogStream
<1>3. CASE StreamStep
  BY <1>3 DEF StreamStep, StartStream, PassOn, RecordActivity, EndStream, CloseStream
<1>4. CASE WaiterStep \/ CommandStep \/ UserDetaches \/ AgentStep
  BY <1>4 DEF WaiterStep, CommandStep, UserDetaches, AgentStep
<1>5. CASE SessionEnds \/ SignalArrives \/ DockerHangs \/ TimerStep
  BY <1>5 DEF SessionEnds, SignalArrives, DockerHangs, TimerStep
<1>6. CASE UNCHANGED vars
  BY <1>6 DEF vars
<1> QED
  BY <1>1, <1>2, <1>3, <1>4, <1>5, <1>6 DEF Next

\* What happens to the counts.
LEMMA CountSteps ==
  ASSUME [Next]_vars
  PROVE  /\ UNCHANGED mode
         /\ UNCHANGED streamed \/ (PassOn /\ streamed' = streamed + 1)
         /\ UNCHANGED produced
              \/ (AgentWrites /\ UNCHANGED <<streamVars, logVars, monitor, runnerVars>>)
<1>1. CASE RunnerStep
  <2>0. UNCHANGED mode
    BY <1>1 DEF RunnerStep
  <2>1. StartSession \/ RunPreHooks \/ PrepareOutput \/ StartProcess \/ Launch =>
          UNCHANGED <<streamed, produced>>
    BY DEF StartSession, RunPreHooks, PrepareOutput, StartProcess, Launch, streamVars, agentVars
  <2>2. MakeAttachable \/ AwaitAgent \/ Unwind \/ FinishLog \/ FinishRun =>
          UNCHANGED <<streamed, produced>>
    BY DEF MakeAttachable, AwaitAgent, Unwind, FinishLog, FinishRun, streamVars, agentVars
  <2> QED
    BY <1>1, <2>0, <2>1, <2>2 DEF RunnerStep
<1>2. CASE StreamStep
  BY <1>2 DEF StreamStep, StartStream, PassOn, RecordActivity, EndStream, CloseStream, agentVars
<1>3. CASE AgentStep
  BY <1>3 DEF AgentStep, AgentExits, streamVars
<1>4. CASE MonitorStep \/ WaiterStep \/ CommandStep \/ UserDetaches
  BY <1>4 DEF MonitorStep, WaiterStep, CommandStep, UserDetaches, streamVars, agentVars
<1>5. CASE SessionEnds \/ SignalArrives \/ DockerHangs \/ TimerStep
  BY <1>5 DEF SessionEnds, SignalArrives, DockerHangs, TimerStep, streamVars, agentVars
<1>6. CASE UNCHANGED vars
  BY <1>6 DEF vars, streamVars, agentVars
<1> QED
  BY <1>1, <1>2, <1>3, <1>4, <1>5, <1>6 DEF Next

LEMMA DataStep ==
  ASSUME DataOK, [Next]_vars PROVE DataOK'
<1>0. /\ mode \in Modes /\ Writes[mode] \in Nat /\ produced \in Nat /\ produced <= Writes[mode]
      /\ streamed \in Nat /\ streamed <= produced
      /\ offset \in Nat /\ log \in Seq(Hole..produced)
  BY WritesAssumption DEF DataOK
<1>1. UNCHANGED mode
  BY CountSteps
<1>2. CASE UNCHANGED produced
  <2>1. streamed' \in 0..produced
    BY <1>0, CountSteps DEF PassOn
  <2>2. StartLine \in Hole..produced /\ EndLine \in Hole..produced
    BY <1>0 DEF StartLine, EndLine, Hole
  <2>3. PassOn => streamed' \in Hole..produced
    BY <1>0, <2>1 DEF Hole
  <2>4. offset' \in Nat /\ log' \in Seq(Hole..produced)
    <3>1. CASE UNCHANGED logVars
      BY <1>0, <3>1 DEF logVars
    <3>2. CASE WriteLine(StartLine) \/ WriteLine(EndLine)
      BY <1>0, <2>2, <3>2, WriteTypes DEF WriteLine
    <3>3. CASE PassOn /\ (WriteFile(streamed') \/ WriteCapped(streamed'))
      BY <1>0, <2>3, <3>3, WriteTypes
    <3>4. CASE (TooLong /\ Truncate) \/ AppendMarker
      BY <1>0, <3>4, CapTypes
    <3> QED
      BY <3>1, <3>2, <3>3, <3>4, LogSteps
  <2> QED
    BY <1>0, <1>1, <1>2, <2>1, <2>4 DEF DataOK
<1>3. CASE AgentWrites /\ UNCHANGED <<streamVars, logVars>>
  <2>1. produced' = produced + 1 /\ produced < Writes[mode]
    BY <1>3 DEF AgentWrites
  <2>2. Hole..produced \subseteq Hole..produced'
    BY <1>0, <2>1 DEF Hole
  <2>3. log \in Seq(Hole..produced')
    BY <1>0, <2>2, SeqMonotonic
  <2>4. UNCHANGED <<streamed, log, offset>>
    BY <1>3 DEF streamVars, logVars
  <2> QED
    BY <1>0, <1>1, <2>1, <2>3, <2>4 DEF DataOK
<1> QED
  BY <1>2, <1>3, CountSteps

\* Whatever fails, hangs or is cancelled, the goroutines, processes and
\* channels of a run stay in their states, run.log stays one of lines, and the
\* timer's channel is closed at most once (runner.go, process.go, logcap.go).
THEOREM TypeCorrect == Spec => []TypeOK
<1> DEFINE TypeInv == TimerInv /\ ControlOK /\ FlagsOK /\ DataOK
<1>1. Init => TypeInv
  BY InitTypes, TimerInitInv DEF Init
<1>2. TypeInv /\ [Next]_vars => TypeInv'
  <2> SUFFICES ASSUME TypeInv, [Next]_vars PROVE TypeInv'
    OBVIOUS
  <2>1. TimerInv'
    BY RunKeepsToTimer, TimerStepInv
  <2>2. ControlOK'
    BY RunnerControl, OtherControl
  <2> QED
    BY <2>1, <2>2, FlagsStep, DataStep
<1>3. TypeInv => TypeOK
  BY DEF TypeOK, TimerInv, ControlOK, FlagsOK, DataOK
<1> QED
  BY <1>1, <1>2, <1>3, PTL DEF Spec

-----------------------------------------------------------------------------
(* Who still works on run.log.                                             *)

BeforeProcess == {"session", "hooks", "prepare", "start"}
AfterMonitor == {"disarmed", "unwound", "cap", "mark", "finish", "done"}
Over == {"exited", "removed"}

\* Nothing runs before its process is started; there is a monitor only in a
\* detached run, and none once the runner has unwound; an exit code comes from
\* a container that is over, and after the end of its output; the container is
\* removed last.
WorkersInv ==
  /\ runner \in BeforeProcess =>
       /\ container = "none" /\ stream = "off" /\ streamed = 0 /\ monitor = "off"
       /\ waiter = "off" /\ waitCh = "empty" /\ ~answered
  /\ runner = "launch" \/ mode.interactive => monitor = "off"
  /\ mode.interactive => stream # "killed"
  /\ runner \in AfterMonitor => monitor \in {"off", "done"}
  /\ waiter = "draining" \/ waitCh = "code" \/ answered => container \in Over
  /\ waitCh = "code" \/ answered => stream = "closed"
  /\ container = "removed" => runner = "done"

\* The runner's steps, by what they do to the others.
LEMMA RunnerKeepsWorkers ==
  ASSUME ControlOK, WorkersInv, RunnerStep PROVE WorkersInv'
<1>0. UNCHANGED mode
  BY DEF RunnerStep
<1> USE DEF ControlOK, WorkersInv, BeforeProcess, AfterMonitor, Over, Goto,
            waiterVars, streamVars, agentVars
<1>1. CASE StartSession \/ RunPreHooks \/ PrepareOutput
  BY <1>0, <1>1 DEF StartSession, RunPreHooks, PrepareOutput
<1>2. CASE StartProcess
  BY <1>0, <1>2 DEF StartProcess
<1>3. CASE Launch \/ MakeAttachable
  BY <1>0, <1>3 DEF Launch, MakeAttachable
<1>4. CASE AwaitAgent
  <2>1. UNCHANGED <<monitor, stream, streamed, container>>
    BY <1>4 DEF AwaitAgent
  <2>2. /\ runner' \in {"term", "grace", "kill", "last", "unwind"}
        /\ runner \notin BeforeProcess /\ runner # "done"
    BY <1>4 DEF AwaitAgent, AgentFinished, AgentIsEnded, SendSIGTERM, GraceExpires, SendSIGKILL,
                AnswerInTime, GiveUpWaiting, TakeAnswer
  <2>3. CASE AgentFinished \/ AnswerInTime
    <3>1. waitCh' = "read" /\ UNCHANGED waiter /\ (answered' => waitCh = "code")
      BY <2>3 DEF AgentFinished, AnswerInTime, TakeAnswer
    <3> QED
      BY <1>0, <2>1, <2>2, <3>1
  <2>4. CASE AgentIsEnded \/ SendSIGTERM \/ GraceExpires \/ SendSIGKILL \/ GiveUpWaiting
    <3>1. UNCHANGED <<answered, waiter, waitCh>>
      BY <2>4 DEF AgentIsEnded, SendSIGTERM, GraceExpires, SendSIGKILL, GiveUpWaiting
    <3> QED
      BY <1>0, <2>1, <2>2, <3>1
  <2> QED
    BY <1>4, <2>3, <2>4 DEF AwaitAgent
<1>5. CASE Unwind
  BY <1>0, <1>5 DEF Unwind, MonitorIsGone
<1>6. CASE FinishLog
  BY <1>0, <1>6 DEF FinishLog, WriteEndLine, CapRunLog
<1>7. CASE FinishRun
  <2>1. container' = container \/ (container # "none" /\ container' = "removed")
    BY <1>7 DEF FinishRun
  <2>2. /\ runner' = "done" /\ runner = "finish"
        /\ UNCHANGED <<answered, waiter, waitCh, monitor, stream, streamed>>
    BY <1>7 DEF FinishRun
  <2> QED
    BY <1>0, <2>1, <2>2
<1> QED
  BY <1>1, <1>2, <1>3, <1>4, <1>5, <1>6, <1>7 DEF RunnerStep

LEMMA OthersKeepWorkers ==
  ASSUME ControlOK, WorkersInv, [Next]_vars, ~RunnerStep PROVE WorkersInv'
<1> USE DEF ControlOK, WorkersInv, BeforeProcess, AfterMonitor, Over, commandVars, runnerVars,
            waiterVars, streamVars, agentVars, faultVars
<1>1. CASE WaiterStep
  BY <1>1 DEF WaiterStep, DockerWait, WaitForLogs
<1>2. CASE MonitorStep
  BY <1>2 DEF MonitorStep, MonitorStops, MonitorCaps, StopLogStream
<1>3. CASE StreamStep
  <2>1. UNCHANGED <<mode, runner, answered, waiter, waitCh, monitor, container>>
    BY <1>3 DEF StreamStep
  <2>2. stream \in {"off", "closed"} => stream' = stream
    BY <1>3 DEF StreamStep, StartStream, PassOn, RecordActivity, EndStream, CloseStream, Following
  <2>3. stream # "killed" => stream' # "killed"
    BY <1>3 DEF StreamStep, StartStream, PassOn, RecordActivity, EndStream, CloseStream, Following
  <2>4. stream = "off" => streamed' = streamed
    BY <1>3 DEF StreamStep, StartStream, PassOn, RecordActivity, EndStream, CloseStream, Following
  <2> QED
    BY <2>1, <2>2, <2>3, <2>4
<1>4. CASE AgentStep
  BY <1>4 DEF AgentStep, AgentWrites, AgentExits
<1>5. CASE CommandStep \/ UserDetaches \/ SessionEnds
  BY <1>5 DEF CommandStep, UserDetaches, SessionEnds
<1>6. CASE SignalArrives \/ DockerHangs \/ TimerStep
  BY <1>6 DEF SignalArrives, DockerHangs, TimerStep
<1>7. CASE UNCHANGED vars
  BY <1>7 DEF vars
<1> QED
  BY <1>1, <1>2, <1>3, <1>4, <1>5, <1>6, <1>7 DEF Next

-----------------------------------------------------------------------------
(* What run.log holds.                                                     *)

\* The lines in their order: the runner's first line is number 0, and the
\* agent's writes follow.  With the runner's last line as the n-th:
Lines == [k \in Nat |-> k - 1]
LinesEndingAt(n) == [Lines EXCEPT ![n] = EndLine]

\* Of the first n lines run.log holds those that the cap allows, and whatever
\* has come to lie beyond them makes it too long until it is truncated.
Holding(lines, n) ==
  /\ n <= Cap => Len(log) = n
  /\ n > Cap => Len(log) >= Cap /\ (monitor = "truncated" \/ TooLong)
  /\ \A k \in 1..n : k <= Cap => log[k] = lines[k]
  /\ IF mode.interactive
     THEN offset = (IF n <= Cap THEN n ELSE Cap + 1) /\ (capped <=> n > Cap)
     ELSE offset = n

\* What a write after the n-th position does to a file.
LEMMA PutNext ==
  ASSUME NEW f, Len(f) \in Nat, NEW n \in Nat, NEW c
  PROVE  /\ Len(Put(f, n + 1, c)) = IF n + 1 > Len(f) THEN n + 1 ELSE Len(f)
         /\ Put(f, n + 1, c)[n + 1] = c
         /\ \A k \in 1..Len(f) : k # n + 1 => Put(f, n + 1, c)[k] = f[k]
<1> DEFINE m == IF n + 1 > Len(f) THEN n + 1 ELSE Len(f)
           p == Put(f, n + 1, c)
           S == {p[k] : k \in 1..m}
<1>1. m \in Nat /\ n + 1 \in 1..m /\ Len(f) <= m
  OBVIOUS
<1>2. p = [k \in 1..m |-> CASE k = n + 1 -> c [] k # n + 1 /\ k <= Len(f) -> f[k] [] OTHER -> Hole]
  BY DEF Put
<1> HIDE DEF m, p
<1>3. p[n + 1] = c
  BY <1>1, <1>2
<1>4. \A k \in 1..Len(f) : k # n + 1 => p[k] = f[k]
  BY <1>1, <1>2
<1>5. p \in [1..m -> S]
  BY <1>2
<1>6. Len(p) = m
  BY <1>1, <1>5
<1> QED
  BY <1>3, <1>4, <1>6 DEF m, p

\* A write at the offset adds the next line, wherever that is.
LEMMA WriteFileHolds ==
  ASSUME NEW lines, NEW n \in Nat, Holding(lines, n), DataOK, ~mode.interactive,
         WriteFile(lines[n + 1]), lines[n + 1] \in Hole..produced, UNCHANGED <<mode, monitor>>
  PROVE  Holding(lines, n + 1)'
<1>1. offset = n /\ log' = Put(log, n + 1, lines[n + 1]) /\ offset' = n + 1
  BY DEF Holding, WriteFile
<1>2. log \in Seq(Hole..produced) /\ Hole \in Hole..produced /\ n + 1 \in Nat \ {0}
      /\ Cap \in Nat
  BY CapAssumption DEF DataOK, Hole
<1>3. /\ Len(log) \in Nat
      /\ Len(log') = IF n + 1 > Len(log) THEN n + 1 ELSE Len(log)
      /\ log'[n + 1] = lines[n + 1]
      /\ \A k \in 1..Len(log) : k # n + 1 => log'[k] = log[k]
  BY <1>1, <1>2, LenProperties, PutNext
<1>4. \A k \in 1..(n + 1) : k <= Cap => log'[k] = lines[k]
  BY <1>2, <1>3 DEF Holding
<1>5. n + 1 <= Cap => Len(log') = n + 1
  BY <1>2, <1>3 DEF Holding
<1>6. n + 1 > Cap => Len(log') > Cap
  BY <1>2, <1>3 DEF Holding
<1> QED
  BY <1>1, <1>2, <1>3, <1>4, <1>5, <1>6 DEF Holding, TooLong

\* A write through the CappedWriter adds it, or the marker, or nothing.
LEMMA WriteCappedHolds ==
  ASSUME NEW lines, NEW n \in Nat, Holding(lines, n), DataOK, mode.interactive, FlagsOK,
         monitor # "truncated",
         WriteCapped(lines[n + 1]), lines[n + 1] \in Hole..produced, UNCHANGED <<mode, monitor>>
  PROVE  Holding(lines, n + 1)'
<1>0. log \in Seq(Hole..produced) /\ Hole \in Hole..produced /\ Marker \in Hole..produced
      /\ n + 1 \in Nat \ {0} /\ Cap \in Nat /\ Len(log) \in Nat
  BY CapAssumption, LenProperties DEF DataOK, Hole, Marker
<1>1. CASE capped
  <2>1. n > Cap /\ offset = Cap + 1 /\ UNCHANGED <<log, offset, capped>>
    BY <1>0, <1>1 DEF Holding, WriteCapped, logVars
  <2>2. \A k \in 1..(n + 1) : k <= Cap => log[k] = lines[k]
    BY <1>0, <2>1 DEF Holding
  <2> QED
    BY <1>0, <1>1, <2>1, <2>2 DEF Holding, TooLong
<1>2. CASE ~capped
  <2> DEFINE c == IF offset < Cap THEN lines[n + 1] ELSE Marker
  <2>1. n <= Cap /\ offset = n /\ Len(log) = n
    BY <1>0, <1>2 DEF Holding
  <2>2. log' = Put(log, n + 1, c) /\ offset' = n + 1
    BY <1>2, <2>1 DEF WriteCapped
  <2>3. capped' <=> ~(n < Cap)
    BY <1>2, <2>1 DEF WriteCapped
  <2>4. c \in Hole..produced
    BY <1>0
  <2>5. c = IF n < Cap THEN lines[n + 1] ELSE Marker
    BY <2>1
  <2> HIDE DEF c
  <2>6. Len(log') = IF n + 1 > Len(log) THEN n + 1 ELSE Len(log)
    BY <1>0, <2>2, PutNext
  <2>7. log'[n + 1] = c
    BY <1>0, <2>2, PutNext
  <2>8. \A k \in 1..Len(log) : k # n + 1 => log'[k] = log[k]
    BY <1>0, <2>2, PutNext
  <2>9. Len(log') = n + 1
    BY <1>0, <2>1, <2>6
  <2>10. \A k \in 1..(n + 1) : k <= Cap => log'[k] = lines[k]
    BY <1>0, <2>1, <2>5, <2>7, <2>8 DEF Holding
  <2>11. capped' <=> n + 1 > Cap
    BY <1>0, <2>3
  <2>12. n + 1 > Cap => n + 1 = Cap + 1
    BY <1>0, <2>1
  <2> QED
    BY <1>0, <2>2, <2>9, <2>10, <2>11, <2>12 DEF Holding, TooLong
<1> QED
  BY <1>1, <1>2

Begun == {"start", "remove", "launch", "attachable", "select", "term", "grace", "kill", "last",
          "unwind", "disarmed", "unwound"}

\* Until the runner writes its last line: every line so far.
SoFarInv ==
  /\ runner \in {"session", "hooks", "prepare"} => Holding(Lines, 0)
  /\ runner \in Begun => Holding(Lines, 1 + streamed)

\* The monitor cuts, and kills `docker logs', only when there is more than the
\* cap allows.
CutInv == monitor \in {"truncated", "stopping"} \/ stream = "killed" => offset > Cap

\* `docker logs' ends early only when it is killed for that, or with the
\* container after a run that has not awaited the agent.
StreamEndInv ==
  stream \in {"dead", "closed"} /\ broken = "no" =>
    \/ container \in Over /\ Delivered
    \/ ~mode.interactive /\ offset > Cap
    \/ container = "removed" /\ runner = "done" /\ ~answered

\* From the last line on, when the agent was awaited.
AtEndInv ==
  answered /\ broken = "no" =>
    /\ runner = "cap" => Holding(LinesEndingAt(streamed + 2), streamed + 2)
    /\ runner = "mark" => /\ Len(log) = Cap /\ streamed + 2 > Cap
                          /\ \A k \in 1..Cap : log[k] = Lines[k]
    /\ runner \in {"finish", "done"} => log = Kept

LogInv ==
  /\ ControlOK /\ FlagsOK /\ DataOK
  /\ WorkersInv /\ SoFarInv /\ CutInv /\ StreamEndInv /\ AtEndInv

\* An offset never goes back.
LEMMA OffsetGrows ==
  ASSUME DataOK, [Next]_vars PROVE offset \in Int /\ offset' \in Int /\ offset' >= offset
<1>1. offset \in Nat
  BY DEF DataOK
<1>2. ASSUME NEW c, WriteFile(c) \/ WriteCapped(c) \/ WriteLine(c)
      PROVE  offset' = offset \/ offset' = offset + 1
  BY <1>2 DEF WriteFile, WriteCapped, WriteLine, logVars
<1>3. offset' = offset \/ offset' = offset + 1
  <2>1. (TooLong /\ Truncate) \/ AppendMarker \/ UNCHANGED logVars => offset' = offset
    BY DEF Truncate, AppendMarker, logVars
  <2> QED
    BY <1>2, <2>1, LogSteps
<1> QED
  BY <1>1, <1>3

\* The ways of the monitor and of `docker logs'.
LEMMA CutSteps ==
  ASSUME WorkersInv, [Next]_vars
  PROVE  /\ monitor' \in {"truncated", "stopping"} =>
              monitor \in {"truncated", "stopping"} \/ (monitor = "select" /\ TooLong)
         /\ stream' = "killed" => stream = "killed" \/ monitor = "stopping"
<1>1. CASE RunnerStep
  <2>1. monitor' = monitor \/ monitor' = "select"
    BY <1>1 DEF RunnerStep, StartSession, RunPreHooks, PrepareOutput, StartProcess, Launch,
                MakeAttachable, AwaitAgent, Unwind, FinishLog, FinishRun
  <2>2. stream' = stream \/ stream' = "spawning"
    BY <1>1 DEF RunnerStep, StartSession, RunPreHooks, PrepareOutput, StartProcess, Launch,
                MakeAttachable, AwaitAgent, Unwind, FinishLog, FinishRun, streamVars
  <2> QED
    BY <2>1, <2>2
<1>2. CASE MonitorStep
  BY <1>2 DEF MonitorStep, MonitorStops, MonitorCaps, StopLogStream
<1>3. CASE StreamStep
  BY <1>3 DEF StreamStep, StartStream, PassOn, RecordActivity, EndStream, CloseStream
<1>4. CASE WaiterStep \/ CommandStep \/ UserDetaches \/ AgentStep
  BY <1>4 DEF WaiterStep, CommandStep, UserDetaches, AgentStep, streamVars
<1>5. CASE SessionEnds \/ SignalArrives \/ DockerHangs \/ TimerStep
  BY <1>5 DEF SessionEnds, SignalArrives, DockerHangs, TimerStep, streamVars
<1>6. CASE UNCHANGED vars
  BY <1>6 DEF vars, streamVars
<1> QED
  BY <1>1, <1>2, <1>3, <1>4, <1>5, <1>6 DEF Next

LEMMA CutStep ==
  ASSUME LogInv, [Next]_vars PROVE CutInv'
<1>1. offset \in Int /\ offset' \in Int /\ offset' >= offset /\ Cap \in Int
  BY OffsetGrows, CapAssumption DEF LogInv
<1>2. monitor = "select" /\ TooLong => offset > Cap
  <2> SUFFICES ASSUME monitor = "select", TooLong PROVE offset > Cap
    OBVIOUS
  <2>1. runner \in Begun /\ ~mode.interactive
    BY DEF LogInv, ControlOK, WorkersInv, RunnerPcs, Begun, BeforeProcess, AfterMonitor
  <2>2. Holding(Lines, 1 + streamed) /\ 1 + streamed \in Nat
    BY <2>1 DEF LogInv, SoFarInv, DataOK
  <2>3. Cap \in Nat
    BY CapAssumption
  <2> QED
    BY <2>1, <2>2, <2>3 DEF Holding, TooLong
<1>3. monitor' \in {"truncated", "stopping"} \/ stream' = "killed" => offset > Cap
  BY <1>2, CutSteps DEF LogInv, CutInv
<1> QED
  BY <1>1, <1>3 DEF CutInv

\* How `docker logs' comes to its end, and what stays as it is after it.
LEMMA EndSteps ==
  ASSUME WorkersInv, [Next]_vars
  PROVE  /\ broken' = "no" => broken = "no"
         /\ container \in Over => container' \in Over
         /\ container = "removed" => container' = "removed"
         /\ runner = "done" => runner' = "done" /\ answered' = answered
         /\ stream' \in {"dead", "closed"} /\ broken' = "no" =>
              \/ stream \in {"dead", "closed"}
              \/ /\ stream \in Following /\ UNCHANGED <<runner, answered, container, produced, streamed>>
                 /\ (container = "exited" /\ Delivered) \/ container = "removed" \/ stream = "killed"
<1> USE DEF WorkersInv, Over, Following, commandVars, runnerVars, waiterVars, streamVars,
            agentVars, faultVars, Holds, Breaks, Answers, Fails
<1>1. CASE RunnerStep
  <2>1. broken' = "no" => broken = "no"
    BY <1>1 DEF RunnerStep, StartSession, RunPreHooks, PrepareOutput, StartProcess, Launch,
                MakeAttachable, AwaitAgent, AgentFinished, AgentIsEnded, SendSIGTERM, GraceExpires,
                SendSIGKILL, AnswerInTime, GiveUpWaiting, Unwind, FinishLog, WriteEndLine,
                CapRunLog, FinishRun
  <2>2. stream' = stream \/ stream' = "spawning"
    BY <1>1 DEF RunnerStep, StartSession, RunPreHooks, PrepareOutput, StartProcess, Launch,
                MakeAttachable, AwaitAgent, Unwind, FinishLog, FinishRun
  <2>3. \/ container' = container \/ container' = "removed"
        \/ runner = "start"
    BY <1>1 DEF RunnerStep, StartSession, RunPreHooks, PrepareOutput, StartProcess, Launch,
                MakeAttachable, AwaitAgent, Unwind, FinishLog, FinishRun
  <2>4. runner # "done"
    BY <1>1, RunnerStepsBeforeDone
  <2> QED
    BY <2>1, <2>2, <2>3, <2>4 DEF BeforeProcess
<1>2. CASE MonitorStep
  BY <1>2 DEF MonitorStep, MonitorStops, MonitorCaps, StopLogStream
<1>3. CASE StreamStep
  <2>1. UNCHANGED <<runner, answered, container, produced>>
    BY <1>3 DEF StreamStep
  <2>2. broken' = "no" => broken = "no"
    BY <1>3 DEF StreamStep, StartStream, PassOn, RecordActivity, EndStream, CloseStream
  <2>3. stream' \in {"dead", "closed"} /\ broken' = "no" =>
              \/ stream \in {"dead", "closed"}
              \/ /\ stream \in Following /\ UNCHANGED streamed
                 /\ (container = "exited" /\ Delivered) \/ container = "removed" \/ stream = "killed"
    BY <1>3 DEF StreamStep, StartStream, PassOn, RecordActivity, EndStream, CloseStream
  <2> QED
    BY <2>1, <2>2, <2>3
<1>4. CASE WaiterStep
  BY <1>4 DEF WaiterStep, DockerWait, WaitForLogs
<1>5. CASE CommandStep \/ UserDetaches \/ AgentStep
  BY <1>5 DEF CommandStep, UserDetaches, AgentStep, AgentWrites, AgentExits
<1>6. CASE SessionEnds \/ SignalArrives \/ DockerHangs \/ TimerStep
  BY <1>6 DEF SessionEnds, SignalArrives, DockerHangs, TimerStep
<1>7. CASE UNCHANGED vars
  BY <1>7 DEF vars
<1> QED
  BY <1>1, <1>2, <1>3, <1>4, <1>5, <1>6, <1>7 DEF Next

LEMMA StreamEndStep ==
  ASSUME LogInv, [Next]_vars PROVE StreamEndInv'
<1>0. /\ offset \in Int /\ offset' \in Int /\ offset' >= offset /\ Cap \in Int /\ mode' = mode
      /\ WorkersInv /\ streamed \in Int /\ produced \in Int
  BY OffsetGrows, CountSteps, CapAssumption DEF LogInv, DataOK
<1> SUFFICES ASSUME stream' \in {"dead", "closed"}, broken' = "no"
             PROVE  \/ container' \in Over /\ Delivered'
                    \/ ~mode.interactive /\ offset' > Cap
                    \/ container' = "removed" /\ runner' = "done" /\ ~answered'
  BY <1>0 DEF StreamEndInv
<1>1. broken = "no"
  BY <1>0, EndSteps
<1>2. CASE stream \in {"dead", "closed"}
  <2>1. CASE container \in Over /\ Delivered
    <3>1. ~AgentWrites /\ ~PassOn
      BY <1>0, <2>1 DEF AgentWrites, PassOn, Delivered, Over
    <3>2. UNCHANGED <<streamed, produced>>
      BY <3>1, CountSteps
    <3> QED
      BY <1>0, <2>1, <3>2, EndSteps DEF Delivered
  <2>2. CASE ~mode.interactive /\ offset > Cap
    BY <1>0, <2>2
  <2>3. CASE container = "removed" /\ runner = "done" /\ ~answered
    BY <1>0, <2>3, EndSteps
  <2> QED
    BY <1>1, <1>2, <2>1, <2>2, <2>3 DEF LogInv, StreamEndInv
<1>3. CASE stream \notin {"dead", "closed"}
  <2>1. /\ stream \in Following /\ UNCHANGED <<runner, answered, container, produced, streamed>>
        /\ (container = "exited" /\ Delivered) \/ container = "removed" \/ stream = "killed"
    BY <1>0, <1>3, EndSteps
  <2>2. CASE container = "exited" /\ Delivered
    BY <2>1, <2>2 DEF Over, Delivered
  <2>3. CASE container = "removed"
    BY <1>0, <1>3, <2>1, <2>3 DEF WorkersInv
  <2>4. CASE stream = "killed"
    <3>1. offset > Cap /\ ~mode.interactive
      BY <1>0, <2>4 DEF LogInv, CutInv, WorkersInv
    <3> QED
      BY <1>0, <3>1
  <2> QED
    BY <2>1, <2>2, <2>3, <2>4
<1> QED
  BY <1>2, <1>3

\* The steps that change run.log or the count of what has been passed on, and
\* what they leave alone.
LEMMA LogChanges ==
  ASSUME WorkersInv, [Next]_vars
  PROVE  /\ UNCHANGED mode
         /\ \/ PrepareOutput
            \/ FinishLog
            \/ /\ PassOn
               /\ UNCHANGED <<runner, answered, monitor, container, produced>>
            \/ /\ MonitorCaps
               /\ UNCHANGED <<runner, answered, streamed, container, produced>>
            \/ /\ UNCHANGED <<logVars, streamed>>
               /\ monitor = "truncated" => monitor' = "truncated"
<1>0. UNCHANGED mode
  BY CountSteps
<1> USE DEF commandVars, runnerVars, waiterVars, streamVars, agentVars, faultVars
<1>1. CASE RunnerStep
  <2>1. CASE StartSession \/ RunPreHooks \/ StartProcess \/ MakeAttachable \/ AwaitAgent \/ Unwind
               \/ FinishRun
    BY <1>0, <2>1 DEF StartSession, RunPreHooks, StartProcess, MakeAttachable, AwaitAgent, Unwind,
                      FinishRun
  <2>2. CASE Launch
    <3>1. UNCHANGED <<logVars, streamed>> /\ (monitor' = monitor \/ monitor' = "select")
      BY <2>2 DEF Launch
    <3> QED
      BY <1>0, <2>2, <3>1 DEF Launch, WorkersInv
  <2> QED
    BY <1>0, <1>1, <2>1, <2>2 DEF RunnerStep
<1>2. CASE MonitorStep
  BY <1>0, <1>2 DEF MonitorStep, MonitorStops, StopLogStream
<1>3. CASE StreamStep
  BY <1>0, <1>3 DEF StreamStep, StartStream, RecordActivity, EndStream, CloseStream
<1>4. CASE WaiterStep \/ CommandStep \/ UserDetaches \/ AgentStep
  BY <1>0, <1>4 DEF WaiterStep, CommandStep, UserDetaches, AgentStep
<1>5. CASE SessionEnds \/ SignalArrives \/ DockerHangs \/ TimerStep
  BY <1>0, <1>5 DEF SessionEnds, SignalArrives, DockerHangs, TimerStep
<1>6. CASE UNCHANGED vars
  BY <1>0, <1>6 DEF vars
<1> QED
  BY <1>1, <1>2, <1>3, <1>4, <1>5, <1>6 DEF Next

\* The runner's way through a run.
LEMMA RunnerMoves ==
  ASSUME [Next]_vars
  PROVE  /\ runner' \in {"session", "hooks", "prepare"} =>
              runner \in {"session", "hooks", "prepare"} /\ ~PrepareOutput /\ ~FinishLog
         /\ runner' \in Begun => runner \in Begun \/ PrepareOutput
         /\ runner' \in Begun => ~FinishLog
         /\ runner' \in {"cap", "mark", "finish", "done"} =>
              \/ FinishLog
              \/ UNCHANGED <<runner, answered>>
              \/ runner \in BeforeProcess /\ UNCHANGED answered
              \/ runner = "finish" /\ runner' = "done" /\ UNCHANGED <<answered, produced>>
<1>1. CASE RunnerStep
  <2> USE DEF Begun, BeforeProcess, Goto
  <2>1. CASE StartSession \/ RunPreHooks
    BY <2>1 DEF StartSession, RunPreHooks, PrepareOutput, FinishLog, WriteEndLine, CapRunLog
  <2>2. CASE PrepareOutput
    BY <2>2 DEF PrepareOutput, FinishLog, WriteEndLine, CapRunLog
  <2>3. CASE StartProcess \/ Launch \/ MakeAttachable
    BY <2>3 DEF StartProcess, Launch, MakeAttachable, FinishLog, WriteEndLine, CapRunLog
  <2>4. CASE AwaitAgent
    <3>1. runner \in {"select", "term", "grace", "kill", "last"}
          /\ runner' \in {"term", "grace", "kill", "last", "unwind"}
      BY <2>4 DEF AwaitAgent, AgentFinished, AgentIsEnded, SendSIGTERM, GraceExpires, SendSIGKILL,
                  AnswerInTime, GiveUpWaiting, TakeAnswer
    <3> QED
      BY <3>1 DEF FinishLog, WriteEndLine, CapRunLog
  <2>5. CASE Unwind
    BY <2>5 DEF Unwind, FinishLog, WriteEndLine, CapRunLog
  <2>6. CASE FinishLog
    BY <2>6 DEF FinishLog, WriteEndLine, CapRunLog
  <2>7. CASE FinishRun
    BY <2>7 DEF FinishRun, FinishLog, WriteEndLine, CapRunLog
  <2> QED
    BY <1>1, <2>1, <2>2, <2>3, <2>4, <2>5, <2>6, <2>7 DEF RunnerStep
<1>2. CASE ~RunnerStep
  <2>1. UNCHANGED <<runner, answered>>
    BY <1>2 DEF Next, WaiterStep, MonitorStep, StreamStep, CommandStep, UserDetaches, AgentStep,
                SessionEnds, SignalArrives, DockerHangs, TimerStep, vars, runnerVars
  <2>2. PrepareOutput => runner' = "start"
    BY DEF PrepareOutput, Goto
  <2>3. FinishLog => runner' \in {"cap", "mark", "finish"}
    BY DEF FinishLog, WriteEndLine, CapRunLog, Goto
  <2> QED
    BY <2>1, <2>2, <2>3 DEF Begun
<1> QED
  BY <1>1, <1>2

\* What leaves run.log alone leaves what it holds.
LEMMA HoldingKept ==
  ASSUME NEW lines, NEW n, Holding(lines, n), UNCHANGED <<mode, logVars>>,
         monitor = "truncated" => monitor' = "truncated"
  PROVE  Holding(lines, n)'
BY DEF Holding, TooLong, logVars

\* One more line, as the runner writes it and as the agent's are passed on.
LEMMA LineHolds ==
  ASSUME NEW lines, NEW n \in Nat, Holding(lines, n), DataOK, FlagsOK, WorkersInv,
         lines[n + 1] \in Hole..produced, UNCHANGED <<mode, monitor>>,
         WriteLine(lines[n + 1])
  PROVE  Holding(lines, n + 1)'
<1>1. CASE mode.interactive
  <2>1. monitor # "truncated"
    BY <1>1 DEF WorkersInv
  <2> QED
    BY <1>1, <2>1, WriteCappedHolds DEF WriteLine
<1>2. CASE ~mode.interactive
  BY <1>2, WriteFileHolds DEF WriteLine
<1> QED
  BY <1>1, <1>2

LEMMA SoFarStep ==
  ASSUME LogInv, [Next]_vars PROVE SoFarInv'
<1>0. /\ WorkersInv /\ SoFarInv /\ DataOK /\ FlagsOK /\ ControlOK
      /\ streamed \in Nat /\ produced \in Nat /\ streamed <= produced
  BY DEF LogInv, DataOK
<1>1. ASSUME runner' \in {"session", "hooks", "prepare"} PROVE Holding(Lines, 0)'
  <2>1. runner \in {"session", "hooks", "prepare"} /\ ~PrepareOutput /\ ~FinishLog
    BY <1>1, RunnerMoves
  <2>2. Holding(Lines, 0) /\ monitor = "off" /\ stream = "off"
    BY <1>0, <2>1 DEF SoFarInv, WorkersInv, BeforeProcess
  <2>3. ~PassOn /\ ~MonitorCaps
    BY <2>2 DEF PassOn, MonitorCaps, Following
  <2>4. UNCHANGED <<mode, logVars>>
    BY <1>0, <2>1, <2>3, LogChanges
  <2> QED
    BY <2>2, <2>4, HoldingKept
<1>2. CASE PrepareOutput
  <2>1. /\ runner = "prepare" /\ WriteLine(StartLine) /\ UNCHANGED <<monitor, streamed>>
        /\ runner' = "start"
    BY <1>2 DEF PrepareOutput, Goto, streamVars
  <2>2. Holding(Lines, 0) /\ streamed = 0 /\ UNCHANGED mode
    BY <1>0, <2>1, CountSteps DEF SoFarInv, WorkersInv, BeforeProcess
  <2>3. Lines[0 + 1] = StartLine /\ StartLine \in Hole..produced
    BY <1>0 DEF Lines, StartLine, Hole
  <2>4. Holding(Lines, 0 + 1)'
    BY <1>0, <2>1, <2>2, <2>3, LineHolds
  <2>5. 0 + 1 = 1 + streamed'
    BY <2>1, <2>2
  <2>6. Holding(Lines, 1 + streamed)'
    BY <2>4, <2>5 DEF Holding
  <2> QED
    BY <2>1, <2>6 DEF SoFarInv
<1>3. ASSUME runner' \in Begun, ~PrepareOutput PROVE Holding(Lines, 1 + streamed)'
  <2>1. runner \in Begun /\ ~FinishLog
    BY <1>3, RunnerMoves
  <2>2. Holding(Lines, 1 + streamed) /\ 1 + streamed \in Nat
    BY <1>0, <2>1 DEF SoFarInv
  <2>3. PICK n \in Nat : n = 1 + streamed
    BY <2>2
  <2>4. Holding(Lines, n)
    BY <2>2, <2>3
  <2>5. UNCHANGED mode
    BY CountSteps
  <2>6. CASE PassOn /\ UNCHANGED <<runner, answered, monitor, container, produced>>
    <3>1. streamed' = streamed + 1 /\ streamed < produced
      BY <2>6 DEF PassOn
    <3>2. Lines[n + 1] = streamed' /\ Lines[n + 1] \in Hole..produced
      BY <1>0, <2>3, <3>1 DEF Lines, Hole
    <3>3. runner # "done"
      BY <2>1 DEF Begun
    <3>4. WriteLine(Lines[n + 1])
      BY <2>6, <3>2, <3>3 DEF PassOn, WriteLine
    <3>5. Holding(Lines, n + 1)'
      BY <1>0, <2>4, <2>5, <2>6, <3>2, <3>4, LineHolds
    <3>6. n + 1 = 1 + streamed'
      BY <1>0, <2>3, <3>1
    <3> QED
      BY <3>5, <3>6 DEF Holding
  <2>7. CASE MonitorCaps /\ UNCHANGED <<runner, answered, streamed, container, produced>>
    <3>1. log \in Seq(Hole..produced) /\ Len(log) \in Nat /\ Cap \in Nat /\ ~mode.interactive
      BY <1>0, <2>7, CapAssumption, LenProperties DEF DataOK, MonitorCaps, WorkersInv
    <3>2. CASE monitor = "select" /\ TooLong /\ Truncate /\ monitor' = "truncated"
      <4>1. n > Cap
        BY <2>4, <3>1, <3>2 DEF Holding, TooLong
      <4>2. Cap <= Len(log) /\ log' = SubSeq(log, 1, Cap) /\ UNCHANGED <<offset, capped>>
        BY <3>1, <3>2 DEF TooLong, Truncate
      <4>3. Len(log') = Cap /\ \A k \in 1..Cap : log'[k] = log[k]
        BY <3>1, <4>2, TruncateProperties
      <4>4. \A k \in 1..n : k <= Cap => log'[k] = Lines[k]
        BY <2>4, <3>1, <4>3 DEF Holding
      <4>5. Holding(Lines, n)'
        BY <2>4, <2>5, <3>1, <3>2, <4>1, <4>2, <4>3, <4>4 DEF Holding
      <4> QED
        BY <2>3, <2>7, <4>5 DEF Holding
    <3>3. CASE monitor = "truncated" /\ AppendMarker
      <4>1. n > Cap /\ Len(log) >= Cap
        BY <1>0, <2>4, <3>1, <3>3 DEF Holding, LogInv, CutInv
      <4>2. Marker \in Hole..produced
        BY <1>0 DEF Marker, Hole
      <4>3. log' = Append(log, Marker) /\ UNCHANGED <<offset, capped>>
        BY <3>3 DEF AppendMarker
      <4>4. Len(log') = Len(log) + 1
        BY <3>1, <4>2, <4>3, AppendProperties
      <4>5. \A k \in 1..Len(log) : log'[k] = log[k]
        BY <3>1, <4>2, <4>3, AppendProperties
      <4>6. \A k \in 1..n : k <= Cap => log'[k] = Lines[k]
        BY <2>4, <3>1, <4>1, <4>5 DEF Holding
      <4>7. Len(log') > Cap
        BY <3>1, <4>1, <4>4
      <4>8. Holding(Lines, n)'
        BY <2>4, <2>5, <3>1, <4>1, <4>3, <4>6, <4>7 DEF Holding, TooLong
      <4> QED
        BY <2>3, <2>7, <4>8 DEF Holding
    <3> QED
      BY <2>7, <3>2, <3>3 DEF MonitorCaps
  <2>8. CASE UNCHANGED <<logVars, streamed>> /\ (monitor = "truncated" => monitor' = "truncated")
    <3>1. Holding(Lines, n)'
      BY <2>4, <2>5, <2>8, HoldingKept
    <3> QED
      BY <2>3, <2>8, <3>1 DEF Holding
  <2> QED
    BY <1>0, <1>3, <2>1, <2>6, <2>7, <2>8, LogChanges
<1> QED
  BY <1>1, <1>2, <1>3 DEF SoFarInv

\* What run.log would hold without a cap, line by line.
LEMMA WrittenIsLines ==
  ASSUME produced \in Nat
  PROVE  /\ Written \in Seq(Hole..produced)
         /\ Len(Written) = produced + 2
         /\ \A k \in 1..(produced + 2) : Written[k] = LinesEndingAt(produced + 2)[k]
<1> DEFINE S == Hole..produced
           m == [i \in 1..produced |-> i]
<1>1. StartLine \in S /\ EndLine \in S /\ \A i \in 1..produced : i \in S
  BY DEF StartLine, EndLine, Hole
<1>2. m \in [1..produced -> S]
  BY <1>1
<1> HIDE DEF S
<1>3. m \in Seq(S) /\ Len(m) = produced
  BY <1>2
<1>4. \A i \in 1..produced : m[i] = i
  OBVIOUS
<1> HIDE DEF m
<1>5. <<StartLine>> \in Seq(S) /\ Len(<<StartLine>>) = 1 /\ <<StartLine>>[1] = StartLine
  BY <1>1
<1>6. <<EndLine>> \in Seq(S) /\ Len(<<EndLine>>) = 1 /\ <<EndLine>>[1] = EndLine
  BY <1>1
<1>7. <<StartLine>> \o m \in Seq(S)
  BY <1>3, <1>5, ConcatProperties
<1>8. Len(<<StartLine>> \o m) = 1 + produced
  BY <1>3, <1>5, ConcatProperties
<1>9. \A k \in 1..(1 + produced) : (<<StartLine>> \o m)[k] = IF k <= 1 THEN <<StartLine>>[k] ELSE m[k - 1]
  <2>1. \A k \in 1..(Len(<<StartLine>>) + Len(m)) :
          (<<StartLine>> \o m)[k] =
            IF k <= Len(<<StartLine>>) THEN <<StartLine>>[k] ELSE m[k - Len(<<StartLine>>)]
    BY <1>3, <1>5, ConcatProperties
  <2> QED
    BY <1>3, <1>5, <2>1
<1> DEFINE h == <<StartLine>> \o m
<1>10. \A k \in 1..(1 + produced) : h[k] = k - 1
  <2>1. ASSUME NEW k \in 1..(1 + produced) PROVE h[k] = k - 1
    <3>1. h[k] = IF k <= 1 THEN <<StartLine>>[k] ELSE m[k - 1]
      BY <1>9
    <3>2. CASE k = 1
      BY <1>5, <3>1, <3>2 DEF StartLine
    <3>3. CASE k # 1
      <4>1. k - 1 \in 1..produced /\ ~(k <= 1)
        BY <3>3
      <4>2. m[k - 1] = k - 1
        BY <1>4, <4>1
      <4> HIDE DEF h
      <4> QED
        BY <3>1, <4>1, <4>2
    <3> QED
      BY <3>2, <3>3
  <2> QED
    BY <2>1
<1>11. h \in Seq(S) /\ Len(h) = 1 + produced
  BY <1>7, <1>8
<1>12. Written = h \o <<EndLine>>
  BY DEF Written, m
<1> HIDE DEF h
<1>13. h \o <<EndLine>> \in Seq(S)
  BY <1>6, <1>11, ConcatProperties
<1>14. Len(h \o <<EndLine>>) = produced + 2
  <2>1. Len(h \o <<EndLine>>) = Len(h) + Len(<<EndLine>>)
    BY <1>6, <1>11, ConcatProperties
  <2> QED
    BY <1>6, <1>11, <2>1
<1>15. \A k \in 1..(produced + 2) :
         (h \o <<EndLine>>)[k] = IF k <= 1 + produced THEN h[k] ELSE <<EndLine>>[k - (1 + produced)]
  <2>1. \A k \in 1..(Len(h) + Len(<<EndLine>>)) :
          (h \o <<EndLine>>)[k] = IF k <= Len(h) THEN h[k] ELSE <<EndLine>>[k - Len(h)]
    BY <1>6, <1>11, ConcatProperties
  <2> QED
    BY <1>6, <1>11, <2>1
<1>16. ASSUME NEW k \in 1..(produced + 2)
       PROVE  Written[k] = LinesEndingAt(produced + 2)[k]
  <2>1. CASE k = produced + 2
    <3>1. Written[k] = EndLine
      <4>1. (h \o <<EndLine>>)[k] = <<EndLine>>[1]
        <5>1. ~(k <= 1 + produced) /\ k - (1 + produced) = 1
          BY <2>1
        <5> QED
          BY <1>15, <5>1
      <4> QED
        BY <1>6, <1>12, <4>1
    <3>2. LinesEndingAt(produced + 2)[k] = EndLine
      BY <2>1 DEF LinesEndingAt, Lines
    <3> QED
      BY <3>1, <3>2
  <2>2. CASE k # produced + 2
    <3>1. k \in 1..(1 + produced)
      BY <2>2
    <3>2. Written[k] = k - 1
      <4>1. (h \o <<EndLine>>)[k] = h[k]
        <5>1. k <= 1 + produced
          BY <3>1
        <5> QED
          BY <1>15, <5>1
      <4> QED
        BY <1>10, <1>12, <3>1, <4>1
    <3>3. LinesEndingAt(produced + 2)[k] = k - 1
      BY <2>2 DEF LinesEndingAt, Lines
    <3> QED
      BY <3>2, <3>3
  <2> QED
    BY <2>1, <2>2
<1> QED
  BY <1>12, <1>13, <1>14, <1>16 DEF S

\* A log with every line is what was to be kept, where the cap allows it ...
LEMMA WholeIsKept ==
  ASSUME DataOK, produced + 2 <= Cap, Len(log) = produced + 2,
         \A k \in 1..(produced + 2) : log[k] = LinesEndingAt(produced + 2)[k]
  PROVE  log = Kept
<1>1. log \in Seq(Hole..produced) /\ produced \in Nat
  BY DEF DataOK
<1>2. /\ Written \in Seq(Hole..produced) /\ Len(Written) = produced + 2
      /\ \A k \in 1..(produced + 2) : Written[k] = LinesEndingAt(produced + 2)[k]
  BY <1>1, WrittenIsLines
<1>3. log = Written
  BY <1>1, <1>2, SeqEqual
<1> QED
  BY <1>2, <1>3 DEF Kept

\* ... and otherwise so is one with the first lines and a marker.
LEMMA CutIsKept ==
  ASSUME DataOK, produced + 2 > Cap, Len(log) = Cap, UNCHANGED produced,
         \A k \in 1..Cap : log[k] = Lines[k], AppendMarker
  PROVE  log' = Kept'
<1>1. log \in Seq(Hole..produced) /\ produced \in Nat /\ Cap \in Nat
  BY CapAssumption DEF DataOK
<1>2. /\ Written \in Seq(Hole..produced) /\ Len(Written) = produced + 2
      /\ \A k \in 1..(produced + 2) : Written[k] = LinesEndingAt(produced + 2)[k]
  BY <1>1, WrittenIsLines
<1>3. /\ SubSeq(Written, 1, Cap) \in Seq(Hole..produced)
      /\ Len(SubSeq(Written, 1, Cap)) = Cap
      /\ \A k \in 1..Cap : SubSeq(Written, 1, Cap)[k] = Written[k]
  <2>1. Cap <= Len(Written)
    BY <1>1, <1>2
  <2> QED
    BY <1>2, <2>1, TruncateProperties
<1>4. \A k \in 1..Cap : Written[k] = Lines[k]
  BY <1>1, <1>2 DEF LinesEndingAt, Lines
<1>5. log = SubSeq(Written, 1, Cap)
  BY <1>1, <1>3, <1>4, SeqEqual
<1>6. Kept = Append(SubSeq(Written, 1, Cap), Marker)
  BY <1>1, <1>2 DEF Kept
<1>7. Kept' = Kept
  BY DEF Kept, Written
<1> QED
  BY <1>5, <1>6, <1>7 DEF AppendMarker

\* The last line, and the cap that the runner applies after it.
LEMMA EndLineHolds ==
  ASSUME LogInv, answered, WriteEndLine, UNCHANGED <<mode, monitor, streamed>>
  PROVE  Holding(LinesEndingAt(streamed + 2), streamed + 2)'
<1>0. /\ WorkersInv /\ SoFarInv /\ DataOK /\ FlagsOK
      /\ streamed \in Nat /\ produced \in Nat
  BY DEF LogInv, DataOK
<1>1. runner = "unwound" /\ WriteLine(EndLine)
  BY DEF WriteEndLine
<1>2. PICK n \in Nat : n = 1 + streamed
  BY <1>0
<1>3. Holding(Lines, n)
  BY <1>0, <1>1, <1>2 DEF SoFarInv, Begun
<1>4. /\ \A k \in 1..n : LinesEndingAt(n + 1)[k] = Lines[k]
      /\ LinesEndingAt(n + 1)[n + 1] = EndLine
  BY <1>2 DEF LinesEndingAt, Lines
<1>5. PICK lines : lines = LinesEndingAt(n + 1)
  OBVIOUS
<1>6. Holding(lines, n)
  BY <1>3, <1>4, <1>5 DEF Holding
<1>7. lines[n + 1] = EndLine /\ lines[n + 1] \in Hole..produced
  BY <1>0, <1>4, <1>5 DEF EndLine, Hole
<1>8. Holding(lines, n + 1)'
  BY <1>0, <1>1, <1>6, <1>7, LineHolds
<1>9. n + 1 = streamed' + 2
  BY <1>0, <1>2
<1> QED
  BY <1>5, <1>8, <1>9 DEF Holding, LinesEndingAt, Lines

LEMMA CapHolds ==
  ASSUME LogInv, answered, broken' = "no", broken = "no", CapRunLog,
         UNCHANGED <<mode, monitor, streamed, container, produced, answered>>
  PROVE  /\ runner' = "mark" => /\ Len(log') = Cap /\ streamed' + 2 > Cap
                                /\ \A k \in 1..Cap : log'[k] = Lines[k]
         /\ runner' = "finish" => log' = Kept'
         /\ runner' \in {"mark", "finish"}
<1>0. /\ WorkersInv /\ AtEndInv /\ DataOK /\ streamed \in Nat /\ produced \in Nat
      /\ streamed <= produced /\ Cap \in Nat /\ log \in Seq(Hole..produced) /\ Len(log) \in Nat
  BY CapAssumption, LenProperties DEF LogInv, DataOK
<1>1. CASE runner = "cap"
  <2>1. Holding(LinesEndingAt(streamed + 2), streamed + 2) /\ monitor \in {"off", "done"}
    BY <1>0, <1>1 DEF AtEndInv, WorkersInv, AfterMonitor
  <2>2. CASE TooLong
    <3>1. Truncate /\ runner' = "mark"
      BY <1>1, <2>2 DEF CapRunLog, Breaks, Goto
    <3>2. streamed + 2 > Cap
      BY <1>0, <2>1, <2>2 DEF Holding, TooLong
    <3>3. Cap <= Len(log) /\ log' = SubSeq(log, 1, Cap)
      BY <1>0, <2>2, <3>1 DEF TooLong, Truncate
    <3>4. Len(log') = Cap /\ \A k \in 1..Cap : log'[k] = log[k]
      BY <1>0, <3>3, TruncateProperties
    <3>5. \A k \in 1..Cap : log[k] = LinesEndingAt(streamed + 2)[k]
      BY <1>0, <2>1, <3>2 DEF Holding
    <3>6. \A k \in 1..Cap : LinesEndingAt(streamed + 2)[k] = Lines[k]
      BY <1>0, <3>2 DEF LinesEndingAt, Lines
    <3> QED
      BY <3>1, <3>2, <3>4, <3>5, <3>6
  <2>3. CASE ~TooLong
    <3>1. UNCHANGED <<log, produced>> /\ runner' = "finish"
      BY <1>1, <2>3 DEF CapRunLog, Goto, logVars
    <3>2. streamed + 2 <= Cap
      BY <1>0, <2>1, <2>3 DEF Holding
    <3>3. Len(log) = streamed + 2
      BY <2>1, <3>2 DEF Holding
    <3>4. streamed = produced
      <4>1. ~(~mode.interactive /\ offset > Cap)
        BY <1>0, <2>1, <3>2 DEF Holding
      <4>2. stream = "closed"
        BY <1>0 DEF WorkersInv
      <4> QED
        BY <4>1, <4>2 DEF LogInv, StreamEndInv, Delivered
    <3>5. \A k \in 1..(produced + 2) : log[k] = LinesEndingAt(produced + 2)[k]
      BY <1>0, <2>1, <3>2, <3>4 DEF Holding
    <3>6. log = Kept
      BY <1>0, <3>2, <3>3, <3>4, <3>5, WholeIsKept
    <3>7. Kept' = Kept
      BY DEF Kept, Written
    <3> QED
      BY <3>1, <3>6, <3>7
  <2> QED
    BY <2>2, <2>3
<1>2. CASE runner = "mark"
  <2>1. /\ Len(log) = Cap /\ streamed + 2 > Cap
        /\ \A k \in 1..Cap : log[k] = Lines[k]
    BY <1>2 DEF LogInv, AtEndInv
  <2>2. AppendMarker /\ runner' = "finish"
    BY <1>2 DEF CapRunLog, Goto
  <2>3. produced + 2 > Cap
    BY <1>0, <2>1
  <2>4. log' = Kept'
    BY <1>0, <2>1, <2>2, <2>3, CutIsKept
  <2> QED
    BY <2>2, <2>4
<1> QED
  BY <1>1, <1>2 DEF CapRunLog

LEMMA AtEndStep ==
  ASSUME LogInv, [Next]_vars PROVE AtEndInv'
<1> SUFFICES ASSUME answered', broken' = "no", runner' \in {"cap", "mark", "finish", "done"}
             PROVE  AtEndInv'
  BY DEF AtEndInv
<1>0. WorkersInv /\ AtEndInv /\ DataOK /\ ControlOK /\ broken = "no"
  BY EndSteps DEF LogInv
<1>1. CASE FinishLog
  <2>1. UNCHANGED <<monitor, streamed, container, produced, answered>> /\ UNCHANGED mode
    BY <1>1, CountSteps DEF FinishLog, streamVars, agentVars
  <2>2. CASE WriteEndLine
    <3>1. Holding(LinesEndingAt(streamed + 2), streamed + 2)' /\ runner' = "cap"
      BY <2>1, <2>2, EndLineHolds DEF WriteEndLine, Goto
    <3> QED
      BY <3>1 DEF AtEndInv
  <2>3. CASE CapRunLog
    <3>1. /\ runner' = "mark" => /\ Len(log') = Cap /\ streamed' + 2 > Cap
                                 /\ \A k \in 1..Cap : log'[k] = Lines[k]
          /\ runner' = "finish" => log' = Kept'
          /\ runner' \in {"mark", "finish"}
      BY <1>0, <2>1, <2>3, CapHolds
    <3> QED
      BY <3>1 DEF AtEndInv, Lines
  <2> QED
    BY <1>1, <2>2, <2>3 DEF FinishLog
<1>2. CASE ~FinishLog
  <2>1. \/ UNCHANGED <<runner, answered>>
        \/ runner = "finish" /\ runner' = "done" /\ UNCHANGED <<answered, produced>>
    BY <1>0, <1>2, RunnerMoves DEF WorkersInv
  <2>2. answered /\ stream = "closed" /\ container \in Over /\ monitor \in {"off", "done"}
    BY <1>0, <2>1 DEF WorkersInv, AfterMonitor
  <2>3. ~PassOn /\ ~MonitorCaps /\ ~AgentWrites
    BY <2>2 DEF PassOn, MonitorCaps, AgentWrites, Following, Over
  <2>4. ~PrepareOutput
    BY <2>1 DEF PrepareOutput, Goto
  <2>5. UNCHANGED <<mode, logVars, streamed, produced>> /\ (monitor = "truncated" => monitor' = "truncated")
    BY <1>0, <1>2, <2>3, <2>4, LogChanges, CountSteps
  <2>6. Kept' = Kept
    BY <2>5 DEF Kept, Written
  <2>7. CASE runner' = "cap"
    <3>1. Holding(LinesEndingAt(streamed + 2), streamed + 2)
      BY <1>0, <2>1, <2>2, <2>7 DEF AtEndInv
    <3>2. PICK lines, n : lines = LinesEndingAt(streamed + 2) /\ n = streamed + 2
      OBVIOUS
    <3>3. Holding(lines, n)'
      BY <2>5, <3>1, <3>2, HoldingKept
    <3>4. Holding(LinesEndingAt(streamed + 2), streamed + 2)'
      BY <2>5, <3>2, <3>3 DEF Holding, LinesEndingAt, Lines
    <3> QED
      BY <2>7, <3>4 DEF AtEndInv
  <2>8. CASE runner' \in {"mark", "finish", "done"}
    BY <1>0, <2>1, <2>2, <2>5, <2>6, <2>8 DEF AtEndInv, logVars, Lines
  <2> QED
    BY <2>7, <2>8
<1> QED
  BY <1>1, <1>2

LEMMA InitLog == Init => LogInv
<1> SUFFICES ASSUME Init PROVE LogInv
  OBVIOUS
<1>1. ControlOK /\ FlagsOK /\ DataOK
  BY InitTypes
<1>2. /\ runner \in {"session", "hooks"} /\ container = "none" /\ stream = "off" /\ streamed = 0
      /\ monitor = "off" /\ waiter = "off" /\ waitCh = "empty" /\ answered = FALSE
      /\ offset = 0 /\ capped = FALSE /\ log = <<>>
  BY DEF Init
<1>3. WorkersInv /\ CutInv /\ StreamEndInv /\ AtEndInv
  BY <1>2 DEF WorkersInv, CutInv, StreamEndInv, AtEndInv, BeforeProcess, AfterMonitor
<1>4. Len(log) = 0
  BY <1>2
<1>5. Holding(Lines, 0)
  BY <1>2, <1>4, CapAssumption DEF Holding
<1>6. SoFarInv
  BY <1>2, <1>5 DEF SoFarInv, Begun
<1> QED
  BY <1>1, <1>3, <1>6 DEF LogInv

LEMMA LogStep ==
  ASSUME LogInv, [Next]_vars PROVE LogInv'
<1>1. ControlOK' /\ FlagsOK' /\ DataOK'
  BY RunnerControl, OtherControl, FlagsStep, DataStep DEF LogInv
<1>2. WorkersInv'
  BY RunnerKeepsWorkers, OthersKeepWorkers DEF LogInv
<1> QED
  BY <1>1, <1>2, SoFarStep, CutStep, StreamEndStep, AtEndStep DEF LogInv

\* When the exit code of the agent was awaited and no call has failed, run.log
\* holds the runner's first line, every write of the agent in order and the
\* runner's last line, or exactly the first Cap of them and one marker, at
\* whatever moments the monitor has truncated it under the offset of `docker
\* logs' (logcap.go, process.go and runner.go).
THEOREM LogStaysWhole == Spec => []LogIsWhole
<1>1. LogInv => LogIsWhole
  BY DEF LogInv, AtEndInv, LogIsWhole
<1>2. LogInv /\ [Next]_vars => LogInv'
  BY LogStep
<1> QED
  BY <1>1, <1>2, InitLog, PTL DEF Spec
=============================================================================
