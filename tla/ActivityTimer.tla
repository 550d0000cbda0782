--------------------------- MODULE ActivityTimer ---------------------------
(***************************************************************************)
(* The timer of an interactive run (internal/runner/activity.go), which    *)
(* counts the time in which the agent shows life and closes a channel when *)
(* that time is used up.                                                   *)
(*                                                                         *)
(* Three goroutines use it: its own loop, the one that copies the agent's  *)
(* output (RecordActivity), and the runner (Start, Stop).  Each reads the  *)
(* clock before it takes the mutex, so what it applies may be older than   *)
(* what another has applied meanwhile.                                     *)
(*                                                                         *)
(* Time is counted in ticks of the loop's ticker.  No goroutine is more    *)
(* than one tick late: see ClockTicks.  A definition whose name extends    *)
(* that of the one below it is a faulty variant, kept for the mutation     *)
(* runs.                                                                   *)
(***************************************************************************)
EXTENDS Integers

CONSTANTS
  Timeout,        \* active time granted
  IdleThreshold,  \* silence after which the timer pauses
  MaxTime         \* bound on the clock

ASSUME TimeoutAssumption == Timeout \in Nat \ {0}
ASSUME IdleThresholdAssumption == IdleThreshold \in Nat \ {0}
ASSUME MaxTimeAssumption == MaxTime \in Nat

VARIABLES
  now,       \* the clock
  timer,     \* what the mutex guards
  closes,    \* how often the channel `expired' has been closed
  stopped,   \* the channel `stopped' is closed
  ticker,    \* a tick waits in ticker.C
  loop,      \* the loop: where it is, and the clock reading it carries
  recorder,  \* RecordActivity: whether it is under way, and its reading
  heard      \* history: when output came last, the ticks that followed
             \* an output within the threshold, the silences as long that
             \* an output has ended

timerVars == <<now, timer, closes, stopped, ticker, loop, recorder, heard>>

TimerTypeOK ==
  /\ now \in 0..MaxTime
  /\ timer \in [elapsed : Int, lastActive : 0..MaxTime,
                lastCheckpoint : 0..MaxTime, fired : BOOLEAN]
  /\ closes \in 0..1  \* a second close would panic
  /\ {stopped, ticker} \subseteq BOOLEAN
  /\ loop \in [at : {"off", "select", "read", "done"}, reading : 0..MaxTime]
  /\ recorder \in [busy : BOOLEAN, reading : 0..MaxTime]
  /\ heard \in [last : 0..MaxTime, active : Nat, silences : Nat]

TimerInit ==
  /\ now = 0
  /\ timer = [elapsed |-> 0, lastActive |-> 0, lastCheckpoint |-> 0, fired |-> FALSE]
  /\ closes = 0
  /\ stopped = FALSE
  /\ ticker = FALSE
  /\ loop = [at |-> "off", reading |-> 0]
  /\ recorder = [busy |-> FALSE, reading |-> 0]
  /\ heard = [last |-> 0, active |-> 0, silences |-> 0]

-----------------------------------------------------------------------------
(* Under the mutex.                                                        *)

AdvancedIdleOrNot(t, reading) ==
  IF t.fired THEN t
  ELSE [t EXCEPT !.elapsed = @ + reading - t.lastCheckpoint, !.lastCheckpoint = reading]

\* Counts the time since the last checkpoint unless the agent is idle.
Advanced(t, reading) ==
  IF t.fired THEN t
  ELSE [t EXCEPT
    !.elapsed = IF reading - t.lastActive <= IdleThreshold
                THEN @ + reading - t.lastCheckpoint ELSE @,
    !.lastCheckpoint = reading]

AdvanceUnguarded(t, reading) ==
  LET a == Advanced(t, reading)
      over == a.elapsed >= Timeout
  IN  /\ timer' = [a EXCEPT !.fired = @ \/ over]
      /\ closes' = IF over THEN closes + 1 ELSE closes

AdvanceForgetting(t, reading) ==
  LET a == Advanced(t, reading)
      over == ~t.fired /\ a.elapsed >= Timeout
  IN  /\ timer' = [a EXCEPT !.fired = over]
      /\ closes' = IF over THEN closes + 1 ELSE closes

\* Advances the timer t, and fires it when its time is used up.
Advance(t, reading) ==
  LET a == Advanced(t, reading)
      over == ~t.fired /\ a.elapsed >= Timeout
  IN  /\ timer' = [a EXCEPT !.fired = @ \/ over]
      /\ closes' = IF over THEN closes + 1 ELSE closes

-----------------------------------------------------------------------------
(* The goroutines.                                                         *)

TimerStart ==
  /\ loop.at = "off"
  /\ timer' = [timer EXCEPT !.lastActive = now, !.lastCheckpoint = now]
  /\ loop' = [loop EXCEPT !.at = "select"]
  /\ UNCHANGED <<now, closes, stopped, ticker, recorder, heard>>

\* The loop takes a tick and reads the clock ...
LoopReads ==
  /\ loop.at = "select"
  /\ ticker
  /\ ticker' = FALSE
  /\ loop' = [at |-> "read", reading |-> now]
  /\ UNCHANGED <<now, timer, closes, stopped, recorder, heard>>

\* ... and then takes the mutex.
LoopChecks ==
  /\ loop.at = "read"
  /\ Advance(timer, loop.reading)
  /\ loop' = [loop EXCEPT !.at = IF timer.fired \/ closes' # closes THEN "done" ELSE "select"]
  /\ UNCHANGED <<now, stopped, ticker, recorder, heard>>

LoopStops ==
  /\ loop.at = "select"
  /\ stopped
  /\ loop' = [loop EXCEPT !.at = "done"]
  /\ UNCHANGED <<now, timer, closes, stopped, ticker, recorder, heard>>

LoopStep == LoopReads \/ LoopChecks \/ LoopStops

\* An output has been written: RecordActivity reads the clock ...
RecordReads ==
  /\ loop.at # "off"
  /\ ~recorder.busy
  /\ recorder' = [busy |-> TRUE, reading |-> now]
  /\ heard' = [heard EXCEPT !.last = now,
                 !.silences = IF now - heard.last >= IdleThreshold THEN @ + 1 ELSE @]
  /\ UNCHANGED <<now, timer, closes, stopped, ticker, loop>>

\* ... and then takes the mutex.
RecordApplies ==
  /\ recorder.busy
  /\ recorder' = [recorder EXCEPT !.busy = FALSE]
  /\ Advance([timer EXCEPT !.lastActive = recorder.reading], recorder.reading)
  /\ UNCHANGED <<now, stopped, ticker, loop, heard>>

\* Stop disarms the timer under the mutex, and then ends the loop.
StopDisarms ==
  /\ loop.at # "off"
  /\ timer' = [timer EXCEPT !.fired = TRUE]
  /\ UNCHANGED <<now, closes, stopped, ticker, loop, recorder, heard>>

StopCloses ==
  /\ timer.fired
  /\ stopped' = TRUE
  /\ UNCHANGED <<now, timer, closes, ticker, loop, recorder, heard>>

\* The clock waits for a goroutine that is a whole tick late.
ClockTicks ==
  /\ now < MaxTime
  /\ loop.at \in {"select", "read"}
  /\ ~ticker
  /\ loop.at = "read" => loop.reading = now
  /\ recorder.busy => recorder.reading = now
  /\ now' = now + 1
  /\ ticker' = TRUE
  /\ heard' = IF now' - heard.last <= IdleThreshold
              THEN [heard EXCEPT !.active = @ + 1] ELSE heard
  /\ UNCHANGED <<timer, closes, stopped, loop, recorder>>

TimerNext ==
  \/ TimerStart
  \/ LoopStep
  \/ RecordReads \/ RecordApplies
  \/ StopDisarms \/ StopCloses
  \/ ClockTicks

\* What the composing specification must keep to when it uses the timer.
TimerSpec == TimerInit /\ [][TimerNext]_timerVars

-----------------------------------------------------------------------------
(* Properties.                                                             *)

\* What has fired is final, whichever goroutine was first: after the expiry,
\* or after Stop, no reading that was taken before closes the channel again.
ExpiryIsFinal == [][timer.fired => closes' = closes /\ timer'.fired]_timerVars

\* How far the counted time may be from the active time.  Each silence of
\* the length of the threshold is seen to begin and to end a tick late.
Overcount == 2 * heard.silences
Undercount == 2 * heard.silences + 2

\* The timer counts what the agent uses, and no silence beyond the
\* threshold: it neither expires early nor lets active time go uncounted.
CountsActiveTime ==
  /\ closes > 0 => Timeout <= heard.active + Overcount
  /\ ~timer.fired =>
       /\ timer.elapsed <= heard.active + Overcount
       /\ heard.active <= Timeout + Undercount
       /\ ~recorder.busy /\ loop.at = "select" => heard.active <= timer.elapsed + Undercount
=============================================================================
