------------------------ MODULE ActivityTimerProofs ------------------------
(***************************************************************************)
(* The activity timer counts the agent's active time: a proof for every    *)
(* timeout and every threshold, of the timer by itself and in the run.     *)
(***************************************************************************)
EXTENDS RunStreamsProofs

-----------------------------------------------------------------------------
(* The inductive invariant.                                                *)

\* Before Start nothing has happened, and the loop ends only when the timer
\* has fired.
Phases ==
  /\ stopped \/ loop.at = "done" => timer.fired
  /\ loop.at = "off" =>
       /\ now = 0 /\ ~recorder.busy /\ ~ticker
       /\ timer.elapsed = 0 /\ timer.lastActive = 0 /\ timer.lastCheckpoint = 0
       /\ heard.last = 0 /\ heard.active = 0 /\ heard.silences = 0

\* The tick that the loop has dealt with last.
Ticked ==
  IF loop.at = "read" THEN loop.reading - 1
  ELSE IF ticker THEN now - 1 ELSE now

\* How far the timer lags behind: its users by a tick, and its checkpoint by
\* one more only when it comes from an output.
Pace ==
  /\ timer.lastActive <= now /\ timer.lastCheckpoint <= now
  /\ ~recorder.busy => heard.last = timer.lastActive
  /\ recorder.busy =>
       /\ heard.last = recorder.reading
       /\ timer.lastActive <= recorder.reading
       /\ now - 1 <= recorder.reading /\ recorder.reading <= now
  /\ loop.at = "read" =>
       /\ loop.reading = IF ticker THEN now - 1 ELSE now
       /\ timer.lastCheckpoint > loop.reading => timer.lastActive = timer.lastCheckpoint
  /\ Ticked - 1 <= timer.lastCheckpoint
  /\ Ticked - 1 = timer.lastCheckpoint => timer.lastActive = timer.lastCheckpoint

\* The end of what is heard up to k, if no output follows the last the timer
\* knows of.
Heard(k) ==
  IF k - timer.lastActive <= IdleThreshold THEN k ELSE timer.lastActive + IdleThreshold

\* Up to where the history has followed the timer's last output.
Seen == IF recorder.busy THEN recorder.reading ELSE now

\* What the timer has counted too much, once it has counted up to Seen, and
\* the ticks after it.
Excess ==
  timer.elapsed - heard.active + Heard(Seen) - Heard(timer.lastCheckpoint) + (now - Seen)

\* The silences that the timer knows to have ended.
Noticed ==
  IF recorder.busy /\ recorder.reading - timer.lastActive >= IdleThreshold
  THEN heard.silences - 1 ELSE heard.silences

\* With a threshold of one tick, a check that is a tick late misses one.
Missed ==
  IF IdleThreshold = 1 /\ timer.lastCheckpoint - timer.lastActive >= 2 THEN 1 ELSE 0

Balance == -(2 * Noticed + Missed) <= Excess /\ Excess <= 2 * Noticed

CountInv ==
  /\ TimerInv /\ Phases
  /\ closes > 0 => Timeout <= heard.active + Overcount
  /\ ~timer.fired => Pace /\ Balance /\ timer.elapsed < Timeout

-----------------------------------------------------------------------------
(* The numbers.                                                            *)

LEMMA Numbers ==
  ASSUME TimerInv
  PROVE  /\ now \in Int /\ now >= 0
         /\ timer.elapsed \in Int /\ timer.lastActive \in Int /\ timer.lastCheckpoint \in Int
         /\ loop.reading \in Int /\ recorder.reading \in Int
         /\ heard.last \in Int /\ heard.active \in Int /\ heard.silences \in Int
         /\ heard.active >= 0 /\ heard.silences >= 0
         /\ IdleThreshold \in Int /\ IdleThreshold >= 1 /\ Timeout \in Int /\ Timeout >= 1
         /\ recorder.busy \in BOOLEAN /\ ticker \in BOOLEAN /\ timer.fired \in BOOLEAN
  BY MaxTimeAssumption, IdleThresholdAssumption, TimeoutAssumption DEF TimerInv, TimerTypeOK

\* What the bound on the excess says of the time counted.
LEMMA BalanceCounts ==
  ASSUME TimerInv, Pace, Balance
  PROVE  /\ timer.elapsed <= heard.active + Overcount
         /\ heard.active <= timer.elapsed + 1 + Undercount
         /\ ~recorder.busy /\ loop.at = "select" => heard.active <= timer.elapsed + Undercount
<1> USE Numbers DEF Pace, Balance, Overcount, Undercount, Heard, Seen, Excess, Noticed, Missed, Ticked
<1>1. CASE recorder.busy
  BY <1>1
<1>2. CASE ~recorder.busy
  BY <1>2
<1> QED
  BY <1>1, <1>2

\* The bound moves with what is counted, what is missed and what has ended.
LEMMA BoundMoves ==
  ASSUME NEW x \in Int, NEW e \in Int, NEW m \in Int, NEW y \in Int, NEW f \in Int, NEW n \in Int,
         x = Excess, e = Noticed, m = Missed, Balance,
         y - x <= 2 * (f - e), x - y <= 2 * (f - e) + n - m
  PROVE  -(2 * f + n) <= y /\ y <= 2 * f
<1>1. -(2 * e + m) <= x /\ x <= 2 * e
  BY DEF Balance
<1> QED
  BY <1>1

\* Advance counts the time since the last checkpoint unless the agent has been
\* silent for longer than the threshold (activity.go:117-129).
LEMMA AdvanceCounts ==
  ASSUME NEW t \in TimerRecords, NEW reading \in 0..MaxTime, ~t.fired,
         closes = 0, Advance(t, reading)
  PROVE  /\ timer'.lastActive = t.lastActive /\ timer'.lastCheckpoint = reading
         /\ timer'.elapsed = IF reading - t.lastActive <= IdleThreshold
                             THEN t.elapsed + reading - t.lastCheckpoint ELSE t.elapsed
         /\ ~timer'.fired => timer'.elapsed < Timeout /\ closes' = 0
         /\ timer'.fired => timer'.elapsed >= Timeout
<1> DEFINE e == IF reading - t.lastActive <= IdleThreshold
                THEN t.elapsed + reading - t.lastCheckpoint ELSE t.elapsed
<1>1. e \in Int
  BY MaxTimeAssumption, IdleThresholdAssumption DEF TimerRecords
<1>2. Advanced(t, reading) = [t EXCEPT !.elapsed = e, !.lastCheckpoint = reading]
  BY DEF Advanced
<1> HIDE DEF e
<1> DEFINE a == [t EXCEPT !.elapsed = e, !.lastCheckpoint = reading]
<1>3. a \in TimerRecords /\ a.elapsed = e /\ a.lastCheckpoint = reading
      /\ a.lastActive = t.lastActive /\ a.fired = FALSE
  BY <1>1 DEF TimerRecords
<1> HIDE DEF a
<1>4. /\ timer' = [a EXCEPT !.fired = @ \/ (e >= Timeout)]
      /\ closes' = IF e >= Timeout THEN closes + 1 ELSE closes
  BY <1>2, <1>3 DEF Advance, a
<1>5. CASE e >= Timeout
  <2>1. timer' = [a EXCEPT !.fired = TRUE]
    BY <1>3, <1>4, <1>5
  <2>2. /\ timer'.elapsed = e /\ timer'.lastCheckpoint = reading
        /\ timer'.lastActive = t.lastActive /\ timer'.fired = TRUE
    BY <1>3, <2>1 DEF TimerRecords
  <2> QED
    BY <1>5, <2>2 DEF e
<1>6. CASE ~(e >= Timeout)
  <2>1. timer' = [a EXCEPT !.fired = FALSE]
    BY <1>3, <1>4, <1>6
  <2>2. /\ timer'.elapsed = e /\ timer'.lastCheckpoint = reading
        /\ timer'.lastActive = t.lastActive /\ timer'.fired = FALSE
    BY <1>3, <2>1 DEF TimerRecords
  <2>3. e < Timeout
    BY <1>1, <1>6, TimeoutAssumption
  <2> QED
    BY <1>4, <1>6, <2>2, <2>3 DEF e
<1> QED
  BY <1>5, <1>6

-----------------------------------------------------------------------------
(* The steps of a timer that has not fired.                                *)

\* Start: the counting begins with nothing counted.
LEMMA StartCounts ==
  ASSUME TimerInv, Phases, TimerStart PROVE Pace' /\ Balance'
<1>1. /\ now = 0 /\ recorder.busy = FALSE /\ ticker = FALSE /\ loop' = [loop EXCEPT !.at = "select"]
      /\ timer.elapsed = 0 /\ heard.last = 0 /\ heard.active = 0 /\ heard.silences = 0
      /\ timer' = [timer EXCEPT !.lastActive = now, !.lastCheckpoint = now]
      /\ UNCHANGED <<now, ticker, recorder, heard>>
  BY Numbers DEF Phases, TimerStart
<1>2. timer'.lastActive = 0 /\ timer'.lastCheckpoint = 0 /\ timer'.elapsed = 0 /\ loop'.at = "select"
  BY <1>1 DEF TimerInv, TimerTypeOK
<1> QED
  BY <1>1, <1>2, Numbers DEF Pace, Balance, Heard, Seen, Excess, Noticed, Missed, Ticked

\* The loop takes a tick: nothing is counted yet.
LEMMA LoopReadsCounts ==
  ASSUME TimerInv, Pace, Balance, LoopReads PROVE Pace' /\ Balance'
<1>1. /\ loop.at = "select" /\ ticker = TRUE /\ ticker' = FALSE
      /\ loop'.at = "read" /\ loop'.reading = now
      /\ UNCHANGED <<now, timer, recorder, heard>>
  BY Numbers DEF LoopReads
<1>2. Pace'
  BY <1>1, Numbers DEF Pace, Ticked
<1>3. Balance'
  BY <1>1 DEF Balance, Heard, Seen, Excess, Noticed, Missed
<1> QED
  BY <1>2, <1>3

\* The loop counts up to its reading, or finds the agent silent.
LEMMA LoopChecksCounts ==
  ASSUME TimerInv, Pace, Balance, ~timer.fired, LoopChecks PROVE Pace' /\ Balance'
<1>1. /\ loop.at = "read" /\ Advance(timer, loop.reading)
      /\ loop'.at \in {"select", "done"}
      /\ UNCHANGED <<now, ticker, recorder, heard>>
  BY DEF LoopChecks, TimerInv, TimerTypeOK
<1>2. timer \in TimerRecords /\ loop.reading \in 0..MaxTime /\ closes = 0
  BY DEF TimerInv, TimerTypeOK, TimerRecords
<1>3. /\ timer'.lastActive = timer.lastActive /\ timer'.lastCheckpoint = loop.reading
      /\ timer'.elapsed = IF loop.reading - timer.lastActive <= IdleThreshold
                          THEN timer.elapsed + loop.reading - timer.lastCheckpoint
                          ELSE timer.elapsed
  BY <1>1, <1>2, AdvanceCounts
<1>4. loop'.at # "read"
  BY <1>1
<1>5. Pace'
  BY <1>1, <1>3, <1>4, Numbers DEF Pace, Ticked
<1>6. PICK x \in Int, y \in Int : x = Excess /\ y = Excess'
  BY <1>1, <1>3, Numbers DEF Excess, Heard, Seen
<1>7. PICK m \in Int, n \in Int : m = Missed /\ n = Missed'
  BY DEF Missed
<1>8. PICK e \in Int : e = Noticed /\ e = Noticed'
  BY <1>1, <1>3, Numbers DEF Noticed
<1>9. /\ timer.lastCheckpoint > loop.reading => timer.lastActive = timer.lastCheckpoint
      /\ loop.reading - 2 <= timer.lastCheckpoint
      /\ loop.reading - 2 = timer.lastCheckpoint => timer.lastActive = timer.lastCheckpoint
  BY <1>1, Numbers DEF Pace, Ticked
<1>10. y - x = IF IdleThreshold = 1 /\ timer.lastCheckpoint = loop.reading - 2
                    /\ timer.lastActive = loop.reading - 2
               THEN -1 ELSE 0
  <2>1. /\ Seen' = Seen /\ Seen \in Int /\ Heard(Seen)' = Heard(Seen) /\ Heard(Seen) \in Int
        /\ now' = now /\ heard'.active = heard.active
    BY <1>1, <1>3, Numbers DEF Seen, Heard
  <2>2. Excess' - Excess = (timer'.elapsed - timer.elapsed)
                             - (Heard(timer.lastCheckpoint)' - Heard(timer.lastCheckpoint))
    BY <1>3, <2>1, Numbers DEF Excess, Heard
  <2>3. Heard(timer.lastCheckpoint)' = Heard(loop.reading)
    BY <1>3 DEF Heard
  <2>4. y - x = (timer'.elapsed - timer.elapsed)
                  - (Heard(loop.reading) - Heard(timer.lastCheckpoint))
    BY <1>6, <2>2, <2>3
  <2> QED
    BY <1>3, <1>9, <2>4, Numbers DEF Heard
<1>11. n - m >= IF IdleThreshold = 1 /\ timer.lastCheckpoint = loop.reading - 2
                     /\ timer.lastActive = loop.reading - 2
                THEN 1 ELSE 0
  BY <1>3, <1>7, <1>9, Numbers DEF Missed
<1>12. y - x <= 2 * (e - e) /\ x - y <= 2 * (e - e) + n - m
  BY <1>10, <1>11
<1>13. Balance'
  <2>1. -(2 * e + n) <= y /\ y <= 2 * e
    BY <1>6, <1>7, <1>8, <1>12, BoundMoves
  <2> QED
    BY <1>6, <1>7, <1>8, <2>1 DEF Balance
<1> QED
  BY <1>5, <1>13

\* An output is written: if a silence has ended with it, the timer has yet to
\* notice.
LEMMA RecordReadsCounts ==
  ASSUME TimerInv, Pace, Balance, RecordReads PROVE Pace' /\ Balance'
<1>1. /\ recorder.busy = FALSE /\ recorder'.busy = TRUE /\ recorder'.reading = now
      /\ UNCHANGED <<now, timer, ticker, loop>>
      /\ heard' = [heard EXCEPT !.last = now,
                     !.silences = IF now - heard.last >= IdleThreshold THEN @ + 1 ELSE @]
  BY Numbers DEF RecordReads
<1>2. /\ heard'.last = now /\ heard'.active = heard.active
      /\ heard'.silences = IF now - heard.last >= IdleThreshold
                           THEN heard.silences + 1 ELSE heard.silences
  BY <1>1 DEF TimerInv, TimerTypeOK
<1>3. Pace'
  BY <1>1, <1>2, Numbers DEF Pace, Ticked
<1>4. Balance'
  BY <1>1, <1>2, Numbers DEF Balance, Pace, Heard, Seen, Excess, Noticed, Missed
<1> QED
  BY <1>3, <1>4

\* RecordActivity counts up to the output, whatever silence came before it.
LEMMA RecordAppliesCounts ==
  ASSUME TimerInv, Pace, Balance, ~timer.fired, RecordApplies PROVE Pace' /\ Balance'
<1> DEFINE t == [timer EXCEPT !.lastActive = recorder.reading]
<1>1. /\ recorder.busy = TRUE /\ Advance(t, recorder.reading)
      /\ recorder' = [recorder EXCEPT !.busy = FALSE]
      /\ UNCHANGED <<now, ticker, loop, heard>>
  BY Numbers DEF RecordApplies
<1>2. /\ t \in TimerRecords /\ t.lastActive = recorder.reading
      /\ t.lastCheckpoint = timer.lastCheckpoint /\ t.elapsed = timer.elapsed /\ ~t.fired
      /\ recorder.reading \in 0..MaxTime /\ closes = 0
  BY DEF TimerInv, TimerTypeOK, TimerRecords
<1>3. recorder'.busy = FALSE
  BY <1>1 DEF TimerInv, TimerTypeOK
<1> HIDE DEF t
<1>4. /\ timer'.lastActive = recorder.reading /\ timer'.lastCheckpoint = recorder.reading
      /\ timer'.elapsed = timer.elapsed + recorder.reading - timer.lastCheckpoint
  BY <1>1, <1>2, AdvanceCounts, Numbers
<1>5. Pace'
  BY <1>1, <1>3, <1>4, Numbers DEF Pace, Ticked
<1>6. PICK x \in Int, y \in Int : x = Excess /\ y = Excess'
  BY <1>1, <1>3, <1>4, Numbers DEF Excess, Heard, Seen
<1>7. PICK m \in Int, n \in Int : m = Missed /\ n = Missed' /\ m \in 0..1
  BY DEF Missed
<1>8. PICK e \in Int, f \in Int : e = Noticed /\ f = Noticed'
  BY <1>1, <1>3, <1>4, Numbers DEF Noticed
<1>9. n = 0
  BY <1>4, <1>7, Numbers DEF Missed
<1>10. f - e = IF recorder.reading - timer.lastActive >= IdleThreshold THEN 1 ELSE 0
  BY <1>1, <1>3, <1>8, Numbers DEF Noticed
<1>11. y - x = recorder.reading - Heard(recorder.reading)
                 - (timer.lastCheckpoint - Heard(timer.lastCheckpoint))
  <2>1. /\ Seen = recorder.reading /\ Seen' = now /\ Heard(now)' = now
        /\ Heard(timer.lastCheckpoint)' = recorder.reading
    BY <1>1, <1>3, <1>4, Numbers DEF Seen, Heard, Pace
  <2>2. y = timer.elapsed + recorder.reading - timer.lastCheckpoint - heard.active
              + now - recorder.reading
    BY <1>1, <1>4, <1>6, <2>1, Numbers DEF Excess
  <2>3. x = timer.elapsed - heard.active + Heard(recorder.reading)
              - Heard(timer.lastCheckpoint) + (now - recorder.reading)
    BY <1>6, <2>1 DEF Excess
  <2>4. Heard(recorder.reading) \in Int /\ Heard(timer.lastCheckpoint) \in Int
    BY Numbers DEF Heard
  <2> QED
    BY <2>2, <2>3, <2>4, Numbers
<1>12. y - x <= 2 * (f - e) /\ x - y <= 2 * (f - e) + n - m
  <2>1. CASE recorder.reading - timer.lastActive >= IdleThreshold
    <3>1. y - x <= 2 /\ y - x >= m - 2
      <4>1. /\ Ticked - 1 <= timer.lastCheckpoint /\ now - 2 <= Ticked
            /\ Ticked - 1 = timer.lastCheckpoint => timer.lastActive = timer.lastCheckpoint
            /\ timer.lastCheckpoint <= now /\ now - 1 <= recorder.reading
            /\ recorder.reading <= now /\ Ticked \in Int
        BY <1>1, Numbers DEF Pace, Ticked
      <4> QED
        BY <1>7, <1>11, <2>1, <4>1, Numbers DEF Heard
    <3> QED
      BY <1>9, <1>10, <2>1, <3>1
  <2>2. CASE ~(recorder.reading - timer.lastActive >= IdleThreshold)
    <3>1. y - x = 0 /\ m = 0
      BY <1>1, <1>7, <1>11, <2>2, Numbers DEF Pace, Ticked, Heard, Missed
    <3> QED
      BY <1>9, <1>10, <2>2, <3>1
  <2> QED
    BY <2>1, <2>2
<1>13. Balance'
  <2>1. -(2 * f + n) <= y /\ y <= 2 * f
    BY <1>6, <1>7, <1>8, <1>12, BoundMoves
  <2> QED
    BY <1>6, <1>7, <1>8, <2>1 DEF Balance
<1> QED
  BY <1>5, <1>13

\* A tick that follows an output within the threshold is heard as active.
LEMMA ClockTicksCounts ==
  ASSUME TimerInv, Pace, Balance, ClockTicks PROVE Pace' /\ Balance'
<1>1. /\ ticker = FALSE /\ ticker' = TRUE /\ now' = now + 1
      /\ loop.at = "read" => loop.reading = now
      /\ recorder.busy => recorder.reading = now
      /\ heard' = IF now + 1 - heard.last <= IdleThreshold
                  THEN [heard EXCEPT !.active = @ + 1] ELSE heard
      /\ UNCHANGED <<timer, loop, recorder>>
  BY Numbers DEF ClockTicks
<1>2. /\ heard'.last = heard.last /\ heard'.silences = heard.silences
      /\ heard'.active = IF now + 1 - heard.last <= IdleThreshold
                         THEN heard.active + 1 ELSE heard.active
  BY <1>1 DEF TimerInv, TimerTypeOK
<1>3. Pace'
  BY <1>1, <1>2, Numbers DEF Pace, Ticked
<1>4. Balance'
  BY <1>1, <1>2, Numbers DEF Balance, Pace, Heard, Seen, Excess, Noticed, Missed
<1> QED
  BY <1>3, <1>4

-----------------------------------------------------------------------------
(* All steps.                                                              *)

\* Who fires the timer, and how the loop's place goes with it.
LEMMA PhasesStep ==
  ASSUME TimerInv, Phases, [TimerNext]_timerVars PROVE Phases'
<1>1. TimerInv' /\ (timer.fired => timer'.fired)
  BY TimerStepInv
<1>2. CASE TimerStart
  BY <1>1, <1>2 DEF TimerStart, Phases, TimerInv, TimerTypeOK
<1>3. CASE LoopReads \/ LoopStops
  BY <1>1, <1>3 DEF LoopReads, LoopStops, Phases, TimerInv, TimerTypeOK
<1>4. CASE LoopChecks
  <2>1. closes' # closes => timer'.fired
    <3>1. closes \in 0..1 /\ closes' \in 0..1 /\ (closes > 0 => timer.fired)
          /\ (closes' > 0 => timer'.fired)
      BY <1>1 DEF TimerInv, TimerTypeOK
    <3> QED
      BY <1>1, <3>1
  <2>2. /\ loop.at = "read" /\ stopped' = stopped
        /\ loop' = [loop EXCEPT !.at = IF timer.fired \/ closes' # closes THEN "done" ELSE "select"]
    BY <1>4 DEF LoopChecks
  <2>3. loop'.at = IF timer.fired \/ closes' # closes THEN "done" ELSE "select"
    BY <2>2 DEF TimerInv, TimerTypeOK
  <2> QED
    BY <1>1, <2>1, <2>2, <2>3 DEF Phases
<1>5. CASE RecordReads \/ RecordApplies
  <2>1. loop' = loop /\ stopped' = stopped /\ loop.at # "off"
    BY <1>5 DEF RecordReads, RecordApplies, Phases
  <2> QED
    BY <1>1, <2>1 DEF Phases
<1>6. CASE StopDisarms \/ StopCloses
  <2>1. loop' = loop /\ timer'.fired
    BY <1>1, <1>6 DEF StopDisarms, StopCloses, TimerInv, TimerTypeOK
  <2>2. loop.at = "off" => ~StopDisarms /\ UNCHANGED <<now, timer, ticker, recorder, heard>>
    BY <1>6 DEF StopDisarms, StopCloses
  <2> QED
    BY <2>1, <2>2 DEF Phases
<1>7. CASE ClockTicks
  BY <1>7 DEF ClockTicks, Phases
<1>8. CASE UNCHANGED timerVars
  BY <1>8 DEF timerVars, Phases
<1> QED
  BY <1>2, <1>3, <1>4, <1>5, <1>6, <1>7, <1>8 DEF TimerNext, LoopStep

\* While the timer has not fired, every step keeps pace and balance, also the
\* one that fires it, whose time counted is then used up.
LEMMA CountStep ==
  ASSUME CountInv, ~timer.fired, TimerNext, ~StopDisarms
  PROVE  /\ Pace' /\ Balance'
         /\ ~timer'.fired => timer'.elapsed < Timeout /\ closes' = 0
         /\ timer'.fired => timer'.elapsed >= Timeout
<1>0. /\ TimerInv /\ Phases /\ Pace /\ Balance /\ timer.elapsed < Timeout /\ closes = 0
      /\ timer.elapsed \in Int
  BY DEF CountInv, TimerInv, TimerTypeOK
<1> DEFINE Fires == /\ ~timer'.fired => timer'.elapsed < Timeout /\ closes' = 0
                    /\ timer'.fired => timer'.elapsed >= Timeout
<1>1. CASE TimerStart
  <2>1. timer'.elapsed = timer.elapsed /\ timer'.fired = timer.fired /\ closes' = closes
    BY <1>0, <1>1 DEF TimerStart, TimerInv, TimerTypeOK
  <2> QED
    BY <1>0, <1>1, <2>1, StartCounts
<1>2. CASE LoopReads
  BY <1>0, <1>2, LoopReadsCounts DEF LoopReads
<1>3. CASE LoopChecks
  <2>1. timer \in TimerRecords /\ loop.reading \in 0..MaxTime /\ Advance(timer, loop.reading)
    BY <1>0, <1>3 DEF TimerInv, TimerTypeOK, TimerRecords, LoopChecks
  <2>2. Fires
    BY <1>0, <2>1, AdvanceCounts
  <2> QED
    BY <1>0, <1>3, <2>2, LoopChecksCounts
<1>4. CASE RecordReads
  BY <1>0, <1>4, RecordReadsCounts DEF RecordReads
<1>5. CASE RecordApplies
  <2> DEFINE t == [timer EXCEPT !.lastActive = recorder.reading]
  <2>1. t \in TimerRecords /\ ~t.fired /\ recorder.reading \in 0..MaxTime
        /\ Advance(t, recorder.reading)
    BY <1>0, <1>5 DEF TimerInv, TimerTypeOK, TimerRecords, RecordApplies
  <2> HIDE DEF t
  <2>2. Fires
    BY <1>0, <2>1, AdvanceCounts
  <2> QED
    BY <1>0, <1>5, <2>2, RecordAppliesCounts
<1>6. CASE LoopStops \/ StopCloses
  BY <1>0, <1>6 DEF LoopStops, StopCloses, Phases
<1>7. CASE ClockTicks
  BY <1>0, <1>7, ClockTicksCounts DEF ClockTicks
<1> QED
  BY <1>1, <1>2, <1>3, <1>4, <1>5, <1>6, <1>7 DEF TimerNext, LoopStep

\* What has been heard is not forgotten.
LEMMA HeardGrows ==
  ASSUME TimerInv, [TimerNext]_timerVars
  PROVE  heard.active <= heard'.active /\ heard.silences <= heard'.silences
<1>0. heard.active \in Int /\ heard.silences \in Int
  BY Numbers
<1>1. CASE RecordReads
  <2>1. heard'.active = heard.active /\ heard'.silences \in {heard.silences, heard.silences + 1}
    BY <1>1 DEF RecordReads, TimerInv, TimerTypeOK
  <2> QED
    BY <1>0, <2>1
<1>2. CASE ClockTicks
  <2>1. heard'.active \in {heard.active, heard.active + 1} /\ heard'.silences = heard.silences
    BY <1>2 DEF ClockTicks, TimerInv, TimerTypeOK
  <2> QED
    BY <1>0, <2>1
<1>3. CASE ~(RecordReads \/ ClockTicks)
  <2>1. UNCHANGED heard
    BY <1>3 DEF TimerNext, LoopStep, TimerStart, LoopReads, LoopChecks, LoopStops, RecordApplies,
         StopDisarms, StopCloses, timerVars
  <2> QED
    BY <1>0, <2>1
<1> QED
  BY <1>1, <1>2, <1>3

LEMMA CountInitInv == TimerInit => CountInv
<1> SUFFICES ASSUME TimerInit PROVE CountInv
  OBVIOUS
<1>1. TimerInv
  BY TimerInitInv
<1>2. Phases /\ closes = 0
  BY DEF TimerInit, Phases
<1>3. Pace /\ Balance /\ timer.elapsed < Timeout
  BY <1>1, Numbers
  DEF TimerInit, Pace, Balance, Heard, Seen, Excess, Noticed, Missed, Ticked
<1> QED
  BY <1>1, <1>2, <1>3 DEF CountInv

LEMMA CountStepInv ==
  ASSUME CountInv, [TimerNext]_timerVars PROVE CountInv'
<1>1. TimerInv /\ Phases /\ TimerInv' /\ Phases'
      /\ (timer.fired => closes' = closes /\ timer'.fired)
  BY TimerStepInv, PhasesStep DEF CountInv
<1>2. heard.active <= heard'.active /\ heard.silences <= heard'.silences
  BY <1>1, HeardGrows
<1>3. /\ heard.active \in Int /\ heard.silences \in Int /\ Timeout \in Int
      /\ heard'.active \in Int /\ heard'.silences \in Int
  BY <1>1, TimeoutAssumption DEF TimerInv, TimerTypeOK
<1>4. closes > 0 => Timeout <= heard'.active + 2 * heard'.silences
  BY <1>2, <1>3 DEF CountInv, Overcount
<1>5. CASE timer.fired \/ StopDisarms
  <2>1. closes' = closes /\ timer'.fired
    BY <1>1, <1>5 DEF StopDisarms, TimerInv, TimerTypeOK
  <2> QED
    BY <1>1, <1>4, <2>1 DEF CountInv, Overcount
<1>6. CASE ~timer.fired /\ ~StopDisarms /\ TimerNext
  <2>1. /\ Pace' /\ Balance'
        /\ ~timer'.fired => timer'.elapsed < Timeout /\ closes' = 0
        /\ timer'.fired => timer'.elapsed >= Timeout
    BY <1>6, CountStep
  <2>2. timer'.elapsed <= heard'.active + 2 * heard'.silences
    <3>1. (TimerInv /\ Pace /\ Balance => timer.elapsed <= heard.active + Overcount)'
      BY BalanceCounts, PTL
    <3> QED
      BY <1>1, <2>1, <3>1 DEF Overcount
  <2>3. timer'.elapsed \in Int
    BY <1>1 DEF TimerInv, TimerTypeOK
  <2>4. closes' > 0 => Timeout <= heard'.active + 2 * heard'.silences
    BY <1>3, <2>1, <2>2, <2>3
  <2> QED
    BY <1>1, <2>1, <2>4 DEF CountInv, Overcount
<1>7. CASE UNCHANGED timerVars
  BY <1>7 DEF timerVars, CountInv, TimerInv, TimerTypeOK, Phases, Pace, Balance, Heard, Seen,
              Excess, Noticed, Missed, Ticked, Overcount
<1> QED
  BY <1>5, <1>6, <1>7

\* The invariant says what the property does.
LEMMA CountInvCounts == CountInv => CountsActiveTime
<1> SUFFICES ASSUME CountInv PROVE CountsActiveTime
  OBVIOUS
<1>1. TimerInv /\ (closes > 0 => Timeout <= heard.active + Overcount)
  BY DEF CountInv
<1>2. ASSUME ~timer.fired
      PROVE  /\ timer.elapsed <= heard.active + Overcount
             /\ heard.active <= Timeout + Undercount
             /\ ~recorder.busy /\ loop.at = "select" => heard.active <= timer.elapsed + Undercount
  <2>1. Pace /\ Balance /\ timer.elapsed < Timeout
    BY <1>2 DEF CountInv
  <2>2. heard.active <= timer.elapsed + 1 + Undercount
    BY <1>1, <2>1, BalanceCounts
  <2>3. heard.active <= Timeout + Undercount
    BY <1>1, <2>1, <2>2, Numbers DEF Undercount
  <2> QED
    BY <1>1, <2>1, <2>3, BalanceCounts
<1> QED
  BY <1>1, <1>2 DEF CountsActiveTime

-----------------------------------------------------------------------------
(* The theorems.                                                           *)

\* The timer counts what the agent uses and no silence beyond the threshold,
\* to within two ticks for each silence, whichever of the loop, RecordActivity
\* and Stop takes the mutex first (activity.go:90-155).
THEOREM TimerCountsActiveTime == TimerSpec => []CountsActiveTime
<1>1. CountInv /\ [TimerNext]_timerVars => CountInv'
  BY CountStepInv
<1> QED
  BY <1>1, CountInitInv, CountInvCounts, PTL DEF TimerSpec

\* So does the timer of a run, which keeps to the timer's specification.
THEOREM RunCountsActiveTime == Spec => []CountsActiveTime
  BY TimerCountsActiveTime, RunImplementsTimer, PTL
=============================================================================
