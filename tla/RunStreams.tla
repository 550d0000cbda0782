----------------------------- MODULE RunStreams -----------------------------
(***************************************************************************)
(* The goroutines, channels and processes of one `tessariq run' while the  *)
(* agent works: the command that attaches the terminal                     *)
(* (cmd/tessariq/run.go), the runner (internal/runner/runner.go), the      *)
(* goroutine that waits for the container, the one that follows its output *)
(* (internal/container/process.go), the monitor that caps run.log          *)
(* (internal/runner/logcap.go), and in an interactive run the activity     *)
(* timer (module ActivityTimer).                                           *)
(*                                                                         *)
(* A detached run hands the descriptor of run.log to `docker logs', which  *)
(* shares the runner's file offset; an interactive run copies the output   *)
(* itself, through the ActivityWriter and the CappedWriter.                *)
(*                                                                         *)
(* What surrounds these steps (hooks, evidence, status, index) is the      *)
(* business of module RunLifecycle.  A definition whose name extends that  *)
(* of the one below it is a faulty variant, kept for the mutation runs.    *)
(***************************************************************************)
EXTENDS ActivityTimer, Sequences

CONSTANTS
  Cap,        \* the cap of run.log, in writes
  Modes,      \* the options --interactive and --attach a run may have
  Writes,     \* bound: how often the agent writes, in each mode
  Timed,      \* bound: the modes in which the clock advances
  Faults      \* subset of {"signal", "failure", "hang"}

ASSUME CapAssumption == Cap \in Nat \ {0}
ASSUME ModesAssumption == Modes \subseteq [interactive : BOOLEAN, attach : BOOLEAN]
ASSUME WritesAssumption == Writes \in [Modes -> Nat]
ASSUME TimedAssumption == Timed \subseteq Modes
ASSUME FaultsAssumption == Faults \subseteq {"signal", "failure", "hang"}

VARIABLES
  mode,        \* the options --interactive and --attach; never changes
  main,        \* the goroutine of the command
  attached,    \* attachFn: "no", "yes" when it has been called, "failed"
  returned,    \* what the command returns: "none" yet, "ok", "run", "attach"
  runner,      \* the goroutine of Runner.Run
  outcome,     \* how the run ends: "none" yet, "success", "failure"
  answered,    \* the exit code came from the waiter
  ready,       \* the channel sessionReady is closed
  session,     \* the tmux session exists
  waiter,      \* the goroutine that calls Process.Wait
  waitCh,      \* the channel it answers on: "empty", "code", "error", "read"
  monitor,     \* the goroutine of startDetachedLogCapMonitor
  stream,      \* the goroutine and the process of `docker logs --follow'
  streamed,    \* the writes of the agent that `docker logs' has passed on
  log,         \* run.log
  offset,      \* the offset of the descriptor opened by OpenLogs
  capped,      \* CappedWriter.capped
  container,   \* the agent's container: "none", "up", "exited", "removed"
  killed,      \* it has been sent SIGKILL
  produced,    \* the writes of the agent
  cancelled,   \* a signal has cancelled the context of the run
  broken       \* "no", a call has "failed" of itself, or Docker is "hung"

commandVars == <<main, attached, returned>>
runnerVars == <<runner, outcome, answered, ready, session>>
waiterVars == <<waiter, waitCh>>
streamVars == <<stream, streamed>>
logVars == <<log, offset, capped>>
agentVars == <<container, killed, produced>>
faultVars == <<cancelled, broken>>
vars == <<mode, commandVars, runnerVars, waiterVars, monitor, streamVars, logVars,
          agentVars, faultVars, timerVars>>

RunnerPcs ==
  {"session", "hooks", "prepare", "start", "remove", "launch", "attachable", "select",
   "term", "grace", "kill", "last", "unwind", "disarmed", "unwound", "cap", "mark", "finish", "done"}
Following == {"unrecorded", "up", "killed"}

\* What run.log consists of: the runner's first line, the agent's writes by
\* number, the runner's last line, the truncation marker, and holes.
StartLine == 0
EndLine == -1
Marker == -2
Hole == -3

TypeOK ==
  /\ TimerTypeOK
  /\ mode \in Modes
  /\ main \in {"select", "attach", "attaching", "await", "returned"}
  /\ attached \in {"no", "yes", "failed"}
  /\ returned \in {"none", "ok", "run", "attach"}
  /\ runner \in RunnerPcs
  /\ outcome \in {"none", "success", "failure"}
  /\ {answered, ready, session, capped, killed, cancelled} \subseteq BOOLEAN
  /\ broken \in {"no", "failed", "hung"}
  /\ waiter \in {"off", "waiting", "draining", "done"}
  /\ waitCh \in {"empty", "code", "error", "read"}
  /\ monitor \in {"off", "select", "truncated", "stopping", "done"}
  /\ stream \in Following \cup {"off", "spawning", "dead", "closed"}
  /\ log \in Seq(Hole..produced)
  /\ offset \in Nat
  /\ container \in {"none", "up", "exited", "removed"}
  /\ produced \in 0..Writes[mode]
  /\ streamed \in 0..produced

Init ==
  /\ TimerInit
  /\ mode \in Modes
  /\ main = IF mode.attach THEN "select" ELSE "await"
  /\ attached = "no"
  /\ returned = "none"
  /\ runner = IF mode.interactive THEN "hooks" ELSE "session"
  /\ outcome = "none"
  /\ answered = FALSE
  /\ ready = FALSE
  /\ session = FALSE
  /\ waiter = "off"
  /\ waitCh = "empty"
  /\ monitor = "off"
  /\ stream = "off"
  /\ streamed = 0
  /\ log = <<>>
  /\ offset = 0
  /\ capped = FALSE
  /\ container = "none"
  /\ killed = FALSE
  /\ produced = 0
  /\ cancelled = FALSE
  /\ broken = "no"

-----------------------------------------------------------------------------
(* run.log.                                                                *)

\* Writing c at position i of f; what lies between becomes a hole.
Put(f, i, c) ==
  [k \in 1..(IF i > Len(f) THEN i ELSE Len(f)) |->
     CASE k = i -> c [] k # i /\ k <= Len(f) -> f[k] [] OTHER -> Hole]

\* A write through the descriptor itself, at its own offset.
WriteFile(c) ==
  /\ log' = Put(log, offset + 1, c)
  /\ offset' = offset + 1
  /\ UNCHANGED capped

\* A write through the CappedWriter.
WriteCapped(c) ==
  IF capped THEN UNCHANGED logVars
  ELSE LET fits == offset < Cap
       IN  /\ log' = Put(log, offset + 1, IF fits THEN c ELSE Marker)
           /\ offset' = offset + 1
           /\ capped' = ~fits

WriteLine(c) == IF mode.interactive THEN WriteCapped(c) ELSE WriteFile(c)

\* CapLogFile opens the file anew: it truncates, seeks to the end and writes
\* the marker there, and the offset of the other descriptor stays.
TooLong == Len(log) > Cap
Truncate == log' = SubSeq(log, 1, Cap) /\ UNCHANGED <<offset, capped>>
AppendMarker == log' = Append(log, Marker) /\ UNCHANGED <<offset, capped>>

-----------------------------------------------------------------------------
(* The runner.                                                             *)

\* One call at most fails of itself, or Docker hangs from some moment on and
\* answers no call any more.  Under a context that is over every call fails.
MayBreak == broken = "no" /\ mode \notin Timed
Breaks == "failure" \in Faults /\ MayBreak /\ broken' = "failed"
Holds == UNCHANGED broken
Hung == broken = "hung"
Answers == Holds /\ ~Hung
Fails(over) == (over /\ Holds) \/ Breaks

Goto(pc) == runner' = pc
Settle(result) == outcome' = result

\* The session of a detached run, which follows run.log.
StartSession ==
  /\ runner = "session"
  /\ \/ /\ Holds
        /\ ~cancelled
        /\ session' = TRUE
        /\ ready' = TRUE
        /\ Goto("hooks")
        /\ UNCHANGED outcome
     \/ /\ Fails(cancelled)
        /\ Settle("failure")
        /\ Goto("finish")
        /\ UNCHANGED <<ready, session>>
  /\ UNCHANGED <<answered, logVars, waiterVars, monitor, streamVars, agentVars, timerVars>>

RunPreHooks ==
  /\ runner = "hooks"
  /\ \/ Goto("prepare") /\ UNCHANGED outcome
     \/ Goto("finish") /\ Settle("failure")
  /\ UNCHANGED <<answered, ready, session, broken, logVars, waiterVars, monitor,
                 streamVars, agentVars, timerVars>>

\* The first line, and the timer before the process.
PrepareOutput ==
  /\ runner = "prepare"
  /\ WriteLine(StartLine)
  /\ IF mode.interactive THEN TimerStart ELSE UNCHANGED timerVars
  /\ Goto("start")
  /\ UNCHANGED <<outcome, answered, ready, session, broken, waiterVars, monitor,
                 streamVars, agentVars>>

\* Process.Start runs docker create and docker start under the context, and
\* in a detached run under the deadline as well; what is created and does not
\* start is removed under no deadline at all.
StartProcess ==
  /\ \/ /\ runner = "start"
        /\ Answers
        /\ ~cancelled
        /\ container' = "up"
        /\ stream' = "spawning"
        /\ Goto("launch")
        /\ UNCHANGED outcome
     \/ /\ runner = "start"
        /\ Fails(cancelled \/ ~mode.interactive)
        /\ Settle("failure")
        /\ Goto("unwind") \/ Goto("remove")
        /\ UNCHANGED <<container, stream>>
     \/ /\ runner = "remove"
        /\ Answers
        /\ Goto("unwind")
        /\ UNCHANGED <<outcome, container, stream>>
  /\ UNCHANGED <<answered, ready, session, logVars, waiterVars, monitor, streamed,
                 killed, produced, timerVars>>

\* The monitor and the waiter are started.
Launch ==
  /\ runner = "launch"
  /\ waiter' = "waiting"
  /\ monitor' = IF mode.interactive THEN monitor ELSE "select"
  /\ Goto(IF mode.interactive THEN "attachable" ELSE "select")
  /\ UNCHANGED <<outcome, answered, ready, session, broken, waitCh, logVars, streamVars,
                 agentVars, timerVars>>

\* The session of an interactive run, which is `docker attach'; the run goes
\* on without it.
MakeAttachable ==
  /\ runner = "attachable"
  /\ \/ Holds /\ ~cancelled /\ session' = (container = "up")
     \/ Fails(cancelled) /\ UNCHANGED session
  /\ ready' = TRUE
  /\ Goto("select")
  /\ UNCHANGED <<outcome, answered, logVars, waiterVars, monitor, streamVars, agentVars,
                 timerVars>>

\* The answer of the waiter is taken from the channel.
TakeAnswer ==
  /\ waitCh \in {"code", "error"}
  /\ waitCh' = "read"
  /\ answered' = (waitCh = "code")
  /\ Goto("unwind")

\* The agent has ended by itself: its exit code decides.
AgentFinished ==
  /\ runner = "select"
  /\ TakeAnswer
  /\ \/ Settle("failure")
     \/ waitCh = "code" /\ Settle("success")
  /\ UNCHANGED <<ready, session, broken, waiter, killed>>

\* The deadline, the activity timer or a signal ends the agent: docker kill
\* with SIGTERM, and again with SIGKILL when the grace period has passed.  It
\* may fail, which is ignored; it has no deadline.
Ended == cancelled \/ IF mode.interactive THEN closes > 0 ELSE TRUE
AgentIsEnded ==
  /\ runner = "select"
  /\ Ended
  /\ Settle("failure")
  /\ Goto("term")
  /\ UNCHANGED <<answered, ready, session, broken, waiterVars, killed>>

SendSIGTERM ==
  /\ runner = "term"
  /\ Answers
  /\ Goto("grace")
  /\ UNCHANGED <<outcome, answered, ready, session, waiterVars, killed>>

GraceExpires ==
  /\ runner = "grace"
  /\ Goto("kill")
  /\ UNCHANGED <<outcome, answered, ready, session, broken, waiterVars, killed>>

SendSIGKILL ==
  /\ runner = "kill"
  /\ \/ Answers /\ killed' = TRUE
     \/ Breaks /\ UNCHANGED killed
  /\ Goto("last")
  /\ UNCHANGED <<outcome, answered, ready, session, waiterVars>>

AnswerInTime ==
  /\ runner \in {"grace", "last"}
  /\ TakeAnswer
  /\ UNCHANGED <<outcome, ready, session, broken, waiter, killed>>

GiveUpWaitingOnAnswer ==
  /\ runner = "last"
  /\ waitCh # "empty"
  /\ Goto("unwind")
  /\ UNCHANGED <<outcome, answered, ready, session, broken, waiterVars, killed>>

\* Five seconds after SIGKILL the runner gives up waiting.
GiveUpWaiting ==
  /\ runner = "last"
  /\ Goto("unwind")
  /\ UNCHANGED <<outcome, answered, ready, session, broken, waiterVars, killed>>

AwaitAgent ==
  /\ \/ AgentFinished \/ AgentIsEnded \/ SendSIGTERM \/ GraceExpires \/ SendSIGKILL
     \/ AnswerInTime \/ GiveUpWaiting
  /\ UNCHANGED <<logVars, monitor, streamVars, container, produced, timerVars>>

\* The deferred stopLogCapMonitor closes stopCh and waits for the monitor;
\* the deferred timer.Stop disarms the timer.
StopRequested == runner = "unwind"
MonitorIsGone == monitor \in {"off", "done"}
Unwind ==
  /\ \/ /\ runner = "unwind"
        /\ ~mode.interactive
        /\ MonitorIsGone
        /\ Goto("unwound")
        /\ UNCHANGED timerVars
     \/ /\ runner = "unwind"
        /\ mode.interactive
        /\ StopDisarms
        /\ Goto("disarmed")
     \/ /\ runner = "disarmed"
        /\ StopCloses
        /\ Goto("unwound")
  /\ UNCHANGED <<outcome, answered, ready, session, broken, logVars, waiterVars, monitor,
                 streamVars, agentVars>>

WriteEndLine ==
  /\ runner = "unwound"
  /\ WriteLine(EndLine)
  /\ Goto("cap")
  /\ UNCHANGED <<broken, timerVars>>

\* Run caps run.log once more, whoever has written to it.
CapRunLog ==
  /\ \/ /\ runner = "cap"
        /\ \/ TooLong /\ Holds /\ Truncate /\ Goto("mark")
           \/ TooLong /\ Breaks /\ Goto("finish") /\ UNCHANGED logVars
           \/ ~TooLong /\ Holds /\ Goto("finish") /\ UNCHANGED logVars
     \/ /\ runner = "mark"
        /\ AppendMarker
        /\ Goto("finish")
        /\ Holds
  /\ UNCHANGED timerVars

FinishLog ==
  /\ WriteEndLine \/ CapRunLog
  /\ UNCHANGED <<outcome, answered, ready, session, waiterVars, monitor, streamVars, agentVars>>

\* The rest of Runner.Run: what is still to do may fail the run, and the
\* container is removed, within its own 30 seconds.
FinishRun ==
  /\ runner = "finish"
  /\ Settle("failure") \/ UNCHANGED outcome
  /\ \/ container = "none" /\ Holds /\ UNCHANGED container
     \/ container # "none" /\ Answers /\ container' = "removed"
     \/ container # "none" /\ ((Hung /\ Holds) \/ Breaks) /\ outcome' = "failure"
        /\ UNCHANGED container
  /\ Goto("done")
  /\ UNCHANGED <<answered, ready, session, logVars, waiterVars, monitor, streamVars,
                 killed, produced, timerVars>>

RunnerStep ==
  /\ \/ StartSession \/ RunPreHooks \/ PrepareOutput \/ StartProcess \/ Launch
     \/ MakeAttachable \/ AwaitAgent \/ Unwind \/ FinishLog \/ FinishRun
  /\ UNCHANGED <<mode, commandVars, cancelled>>

-----------------------------------------------------------------------------
(* The waiter: `docker wait', then the end of the output.                  *)

DockerWait ==
  /\ waiter = "waiting"
  /\ \/ Answers /\ container = "exited" /\ waiter' = "draining" /\ UNCHANGED waitCh
     \/ Answers /\ container = "removed" /\ waiter' = "done" /\ waitCh' = "error"
     \/ Breaks /\ waiter' = "done" /\ waitCh' = "error"

WaitForLogsNot ==
  /\ waiter = "draining"
  /\ waitCh' = "code"
  /\ waiter' = "done"
  /\ Holds

WaitForLogs ==
  /\ waiter = "draining"
  /\ stream = "closed"
  /\ waitCh' = "code"
  /\ waiter' = "done"
  /\ Holds

WaiterStep ==
  /\ DockerWait \/ WaitForLogs
  /\ UNCHANGED <<mode, commandVars, runnerVars, monitor, streamVars, logVars, agentVars,
                 cancelled, timerVars>>

-----------------------------------------------------------------------------
(* The monitor of a detached run.                                          *)

MonitorStops ==
  /\ monitor = "select"
  /\ StopRequested
  /\ monitor' = "done"
  /\ UNCHANGED <<stream, logVars, broken>>

\* A tick finds run.log too long and caps it.  A failure to do so is met
\* again at the next tick.
MonitorCaps ==
  /\ \/ monitor = "select" /\ TooLong /\ Truncate /\ monitor' = "truncated"
     \/ monitor = "truncated" /\ AppendMarker /\ monitor' = "stopping"
  /\ UNCHANGED <<stream, broken>>

\* StopLogStream kills `docker logs' if os/exec has recorded its process by
\* then, and the monitor has done its work either way.
StopLogStream ==
  /\ monitor = "stopping"
  /\ \/ /\ stream = "up"
        /\ \/ Holds /\ stream' = "killed" /\ monitor' = "done"
           \/ Breaks /\ UNCHANGED stream /\ monitor' = "select"
     \/ /\ stream # "up"
        /\ Holds
        /\ monitor' = "done"
        /\ UNCHANGED stream
  /\ UNCHANGED logVars

MonitorStep ==
  /\ MonitorStops \/ MonitorCaps \/ StopLogStream
  /\ UNCHANGED <<mode, commandVars, runnerVars, waiterVars, streamed, agentVars, cancelled,
                 timerVars>>

-----------------------------------------------------------------------------
(* `docker logs --follow' and the goroutine around it.                     *)

\* os/exec starts the process; the record of it follows.
StartStream ==
  /\ \/ stream = "spawning" /\ Holds /\ stream' = "unrecorded"
     \/ stream = "spawning" /\ Breaks /\ stream' = "closed"
     \/ stream = "unrecorded" /\ Holds /\ stream' = "up"
  /\ UNCHANGED <<streamed, logVars, timerVars>>

\* One write of the agent reaches run.log: through the shared descriptor, or
\* by the goroutine that copies it and then records activity.  The runner has
\* closed its own descriptor when it is done.
PassOn ==
  /\ stream \in Following \cup (IF mode.interactive THEN {"dead"} ELSE {})
  /\ Answers \/ (stream = "dead" /\ Holds)
  /\ streamed < produced
  /\ streamed' = streamed + 1
  /\ \/ /\ ~mode.interactive
        /\ WriteFile(streamed')
        /\ UNCHANGED timerVars
     \/ /\ mode.interactive
        /\ runner # "done"
        /\ WriteCapped(streamed')
        /\ RecordReads
     \/ /\ mode.interactive
        /\ runner = "done"
        /\ UNCHANGED <<logVars, timerVars>>
  /\ UNCHANGED stream

RecordActivity ==
  /\ RecordApplies
  /\ UNCHANGED <<stream, streamed, logVars, broken>>

\* `docker logs' ends with the container, when it is killed, or of itself.
Delivered == streamed = produced
EndStream ==
  /\ stream \in Following
  /\ \/ container = "exited" /\ Delivered /\ Answers
     \/ container = "removed" /\ Answers
     \/ stream = "killed" /\ Holds
     \/ Breaks
  /\ stream' = "dead"
  /\ UNCHANGED <<streamed, logVars, timerVars>>

\* Cmd.Run returns when the process has ended and its output is copied.
CloseStream ==
  /\ stream = "dead"
  /\ mode.interactive => Delivered /\ ~recorder.busy
  /\ stream' = "closed"
  /\ UNCHANGED <<streamed, logVars, broken, timerVars>>

StreamStep ==
  /\ StartStream \/ PassOn \/ RecordActivity \/ EndStream \/ CloseStream
  /\ UNCHANGED <<mode, commandVars, runnerVars, waiterVars, monitor, agentVars, cancelled>>

-----------------------------------------------------------------------------
(* The command: runWithAttach and attachWhenSessionReady.                  *)

RunIsDone == runner = "done"

AwaitSessionOrRun ==
  /\ main = "select"
  /\ \/ ready /\ main' = "attach" /\ UNCHANGED returned
     \/ RunIsDone /\ main' = "returned"
        /\ returned' = IF outcome = "failure" THEN "run" ELSE "ok"
  /\ UNCHANGED attached

AwaitSessionOnly ==
  /\ main = "select"
  /\ ready
  /\ main' = "attach"
  /\ UNCHANGED <<attached, returned>>

\* select takes either channel; a run that is done may be ready as well.
AwaitSession ==
  /\ main = "select"
  /\ \/ ready /\ main' = "attach" /\ UNCHANGED returned
     \/ RunIsDone /\ ready /\ main' = "attach" /\ UNCHANGED returned
     \/ RunIsDone /\ ~ready /\ main' = "returned"
        /\ returned' = IF outcome = "failure" THEN "run" ELSE "ok"
  /\ UNCHANGED attached

\* tmux attach fails when there is no session, or under a cancelled context.
Attach ==
  /\ main = "attach"
  /\ \/ session /\ ~cancelled /\ attached' = "yes" /\ main' = "attaching"
     \/ (~session \/ cancelled) /\ attached' = "failed" /\ main' = "await"
  /\ UNCHANGED returned

\* It ends with the session, or when the context is cancelled; otherwise it
\* is for the user to detach.
EndAttach ==
  /\ main = "attaching"
  /\ \/ cancelled /\ attached' = "failed"
     \/ ~session /\ UNCHANGED attached
  /\ main' = "await"
  /\ UNCHANGED returned

AwaitRun ==
  /\ main = "await"
  /\ RunIsDone
  /\ main' = "returned"
  /\ returned' = CASE outcome = "failure" -> "run"
                   [] outcome # "failure" /\ attached = "failed" -> "attach"
                   [] OTHER -> "ok"
  /\ UNCHANGED attached

CommandStep ==
  /\ AwaitSession \/ Attach \/ EndAttach \/ AwaitRun
  /\ UNCHANGED <<mode, runnerVars, waiterVars, monitor, streamVars, logVars, agentVars,
                 faultVars, timerVars>>

UserDetaches ==
  /\ main = "attaching"
  /\ main' = "await"
  /\ UNCHANGED <<mode, attached, returned, runnerVars, waiterVars, monitor, streamVars,
                 logVars, agentVars, faultVars, timerVars>>

-----------------------------------------------------------------------------
(* The surroundings.                                                       *)

AgentWrites ==
  /\ container = "up"
  /\ produced < Writes[mode]
  /\ produced' = produced + 1
  /\ UNCHANGED <<container, killed>>

AgentExits ==
  /\ container = "up"
  /\ container' = "exited"
  /\ UNCHANGED <<killed, produced>>

AgentStep ==
  /\ AgentWrites \/ AgentExits
  /\ UNCHANGED <<mode, commandVars, runnerVars, waiterVars, monitor, streamVars, logVars,
                 faultVars, timerVars>>

\* `docker attach' ends with the container, `tail -f' does not end.
SessionEnds ==
  /\ session
  /\ mode.interactive
  /\ container # "up"
  /\ session' = FALSE
  /\ UNCHANGED <<mode, commandVars, runner, outcome, answered, ready, waiterVars, monitor,
                 streamVars, logVars, agentVars, faultVars, timerVars>>

SignalArrives ==
  /\ "signal" \in Faults
  /\ ~cancelled
  /\ main # "returned"
  /\ cancelled' = TRUE
  /\ UNCHANGED <<mode, commandVars, runnerVars, waiterVars, monitor, streamVars, logVars,
                 agentVars, broken, timerVars>>

DockerHangs ==
  /\ "hang" \in Faults
  /\ MayBreak
  /\ broken' = "hung"
  /\ UNCHANGED <<mode, commandVars, runnerVars, waiterVars, monitor, streamVars, logVars,
                 agentVars, cancelled, timerVars>>

\* Bound: the clock advances only while the runner awaits the agent.
TimerStep ==
  /\ LoopStep \/ (mode \in Timed /\ runner = "select" /\ ClockTicks)
  /\ UNCHANGED <<mode, commandVars, runnerVars, waiterVars, monitor, streamVars, logVars,
                 agentVars, faultVars>>

Next ==
  \/ RunnerStep \/ WaiterStep \/ MonitorStep \/ StreamStep \/ CommandStep
  \/ UserDetaches \/ AgentStep \/ SessionEnds \/ SignalArrives \/ DockerHangs
  \/ TimerStep

\* The goroutines of the runner, the monitor and the command run.  Nothing is
\* asked of Docker: `docker wait' need not answer, `docker logs' need not end,
\* nor the agent when it is killed.
Fairness ==
  /\ WF_vars(RunnerStep)
  /\ WF_vars(MonitorStep)
  /\ WF_vars(CommandStep)

Spec == Init /\ [][Next]_vars /\ Fairness

-----------------------------------------------------------------------------
(* Properties.                                                             *)

\* What run.log would hold without a cap, and what the cap leaves of it.
Written ==
  <<StartLine>> \o [i \in 1..produced |-> i] \o <<EndLine>>
Kept ==
  IF Len(Written) <= Cap THEN Written ELSE Append(SubSeq(Written, 1, Cap), Marker)

\* When the exit code of the agent was awaited, run.log holds every write in
\* order between the runner's lines, or exactly the first Cap of them and one
\* marker: whoever truncated it while others wrote at an offset of their own.
LogIsWhole ==
  runner = "done" /\ answered /\ broken = "no" => log = Kept

\* The command returns what the run came to: no failed run passes for a
\* success, and with --attach no session that was ready is passed over,
\* however fast the run was.
ReturnIsTrue ==
  main = "returned" =>
    /\ runner = "done"
    /\ returned = "run" <=> outcome = "failure"
    /\ mode.attach /\ ready => attached # "no"

\* A detached run ends, and a run of either kind after a signal, though the
\* wait for the agent or for its output may never come to an end: no
\* goroutine waits for one that need not answer.  The three calls without a
\* deadline are where a hung Docker pins it, whatever runner.go:230-232 says.
Pinned == Hung /\ runner \in {"remove", "term", "kill"}
RunEnds == (cancelled \/ ~mode.interactive) ~> runner = "done" \/ Pinned

\* Once the run is done the command returns, unless the user is attached.
CommandReturns == runner = "done" ~> main \in {"returned", "attaching"}
=============================================================================
