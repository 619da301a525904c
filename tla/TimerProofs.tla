----------------------------- MODULE TimerProofs -----------------------------
(***************************************************************************)
(* Proofs about Timer, for every timeout, poll interval and slack.         *)
(*                                                                         *)
(* The properties are about a future that has been woken; what is true     *)
(* while it sleeps is that its tokio timer fires early enough, counted     *)
(* from the guest timer, from the deadline and from the moment the signal  *)
(* was tripped.                                                            *)
(***************************************************************************)
EXTENDS Timer, TLAPS

\* A tokio timer fires at its deadline or a little later.
SleepFitsDeadline ==
    sleep # None =>
      /\ deadline # None
      /\ deadline <= sleep
      /\ sleep <= deadline + Rounding

\* A future that waits for a guest timer, and is not due to be polled, has a
\* tokio timer that fires in time for everything it waits for.
ParkedInTime ==
    (Waits /\ ~woken) =>
      /\ sleep # None
      /\ sleep >= 1
      /\ sleep <= due + Lag
      /\ sleep <= budget + Lag
      /\ sleep <= Interval + Lag
      /\ overrun # None => sleep + overrun <= Interval + Lag

IInv ==
    /\ TypeOK
    /\ SleepFitsDeadline
    /\ ParkedInTime
    /\ SleepsInTime
    /\ TimesOutInTime
    /\ CancelledInTime

\* The waits the timer is asked for are no longer than what each clamp allows.
LEMMA ClampBounds ==
    ASSUME TimerAssumption,
           NEW delay \in Nat \ {0}, budget \in Int, budget > 0
    PROVE  /\ Clamp(delay) \in Nat
           /\ Clamp(delay) <= delay
           /\ Clamp(delay) <= budget
           /\ Clamp(delay) <= Interval
BY DEF TimerAssumption, Clamp, Earlier

\* A timer that is polled has fired, or is kept with what it fires at.
LEMMA StartedBounds ==
    ASSUME TimerAssumption,
           NEW remaining \in Nat, NEW target \in Nat,
           target <= remaining, remaining <= target + Rounding,
           Started(remaining, target)
    PROVE  /\ woken' \in BOOLEAN
           /\ sleep' \in Nat \union {None}
           /\ deadline' \in Nat \union {None}
           /\ SleepFitsDeadline'
           /\ ~woken' => sleep' = remaining /\ sleep' # None /\ sleep' >= 1
<1>1. CASE remaining = 0
  <2>1. sleep' = None /\ deadline' = None /\ woken' = TRUE
    BY <1>1 DEF Started
  <2>2. QED
    BY <2>1 DEF SleepFitsDeadline
<1>2. CASE remaining # 0
  <2>1. sleep' = remaining /\ deadline' = target
    BY <1>2 DEF Started
  <2>2. woken' = FALSE
    BY <1>2 DEF Started
  <2>3. remaining # None /\ target # None
    BY DEF TimerAssumption
  <2>4. remaining >= 1
    BY <1>2
  <2>5. SleepFitsDeadline'
    BY <2>1, <2>3 DEF SleepFitsDeadline
  <2>6. QED
    BY <2>1, <2>2, <2>3, <2>4, <2>5
<1>3. QED
  BY <1>1, <1>2

\* poll_after wakes the task at once, or leaves a timer that fires within
\* SLACK and the rounding of what was asked.
LEMMA PollAfterBounds ==
    ASSUME TimerAssumption, TypeOK, SleepFitsDeadline,
           NEW duration \in Nat, PollAfter(duration)
    PROVE  /\ woken' \in BOOLEAN
           /\ sleep' \in Nat \union {None}
           /\ deadline' \in Nat \union {None}
           /\ SleepFitsDeadline'
           /\ ~woken' => /\ sleep' # None
                         /\ sleep' >= 1
                         /\ sleep' <= duration + Lag
<1>1. PICK remaining \in Nat, target \in Nat :
           /\ target <= remaining
           /\ remaining <= target + Rounding
           /\ remaining <= duration + Lag
           /\ Started(remaining, target)
  <2>1. CASE Reuses(duration) /\ Started(sleep, deadline)
    <3>1. /\ sleep \in Nat /\ deadline \in Nat
          /\ deadline <= sleep /\ sleep <= deadline + Rounding
          /\ deadline <= duration + Slack
      BY <2>1 DEF Reuses, SleepFitsDeadline, TypeOK
    <3>2. sleep <= duration + Lag
      BY <3>1 DEF Lag, TimerAssumption
    <3>3. QED
      BY <2>1, <3>1, <3>2
  <2>2. CASE \E late \in 0..Rounding : Started(duration + late, duration)
    <3>1. PICK late \in 0..Rounding : Started(duration + late, duration)
      BY <2>2
    <3>2. /\ duration + late \in Nat
          /\ duration <= duration + late
          /\ duration + late <= duration + Rounding
          /\ duration + late <= duration + Lag
      BY DEF Lag, TimerAssumption
    <3>3. QED
      BY <3>1, <3>2
  <2>3. QED
    BY <2>1, <2>2 DEF PollAfter
<1>2. /\ woken' \in BOOLEAN
      /\ sleep' \in Nat \union {None}
      /\ deadline' \in Nat \union {None}
      /\ SleepFitsDeadline'
      /\ ~woken' => sleep' = remaining /\ sleep' # None /\ sleep' >= 1
  BY <1>1, StartedBounds
<1>3. QED
  BY <1>1, <1>2

\* The invariant holds after the first poll has begun the operation.
LEMMA InitIInv == TimerAssumption /\ Init => IInv
BY DEF TimerAssumption, Init, IInv, TypeOK, SleepFitsDeadline, ParkedInTime,
       SleepsInTime, TimesOutInTime, CancelledInTime, Waits, Lag

\* The invariant is inductive.
LEMMA StepIInv == TimerAssumption /\ IInv /\ [Next]_vars => IInv'
<1> SUFFICES ASSUME TimerAssumption, IInv, [Next]_vars
             PROVE  IInv'
  OBVIOUS
<1> USE DEF IInv
<1>1. CASE PollAborted
  BY <1>1 DEF PollAborted, TypeOK, SleepFitsDeadline, ParkedInTime,
     SleepsInTime, TimesOutInTime, CancelledInTime, Waits
<1>2. CASE PollRuns
  <2>1. overrun = None /\ budget \in Int /\ budget > 0
    BY <1>2 DEF PollRuns, ShouldAbort, TypeOK
  <2>2. TypeOK' /\ SleepFitsDeadline'
    <3>1. woken' \in BOOLEAN /\ ready' \in BOOLEAN
      BY <1>2 DEF PollRuns, TypeOK
    <3>2. due' \in Int \union {None} /\ fut' \in {"pending", "ended"}
      BY <1>2 DEF PollRuns, TypeOK, TimerAssumption
    <3>3. UNCHANGED <<budget, overrun, deadline, sleep>>
      BY <1>2 DEF PollRuns
    <3>4. QED
      BY <3>1, <3>2, <3>3 DEF TypeOK, SleepFitsDeadline
  <2>3. Waits' => woken' /\ due' >= 0
    BY <1>2 DEF PollRuns, Polled, Waits, TimerAssumption
  <2>4. overrun' = None /\ budget' = budget
    BY <1>2, <2>1 DEF PollRuns
  <2>5. QED
    BY <2>1, <2>2, <2>3, <2>4 DEF ParkedInTime, SleepsInTime, TimesOutInTime,
       CancelledInTime, Waits, Lag, TimerAssumption, TypeOK
<1>3. CASE PollWaits
  <2>1. overrun = None /\ budget \in Int /\ budget > 0 /\ due \in Nat \ {0}
    BY <1>3 DEF PollWaits, ShouldAbort, Runnable, TypeOK
  <2>2. /\ Clamp(due) \in Nat
        /\ Clamp(due) <= due
        /\ Clamp(due) <= budget
        /\ Clamp(due) <= Interval
    BY <2>1, ClampBounds
  <2>3. PollAfter(Clamp(due))
    BY <1>3 DEF PollWaits
  <2>4. /\ woken' \in BOOLEAN
        /\ sleep' \in Nat \union {None}
        /\ deadline' \in Nat \union {None}
        /\ SleepFitsDeadline'
        /\ ~woken' => /\ sleep' # None
                      /\ sleep' >= 1
                      /\ sleep' <= Clamp(due) + Lag
    BY <2>2, <2>3, PollAfterBounds
  <2>5. UNCHANGED <<due, ready, budget, overrun, fut>>
    BY <1>3 DEF PollWaits
  <2>6. TypeOK'
    BY <2>4, <2>5 DEF TypeOK
  <2>7. ParkedInTime'
    BY <2>1, <2>2, <2>4, <2>5 DEF ParkedInTime, Waits, Lag, TimerAssumption
  <2>8. SleepsInTime' /\ TimesOutInTime' /\ CancelledInTime'
    BY <2>5 DEF SleepsInTime, TimesOutInTime, CancelledInTime, Waits
  <2>9. QED
    BY <2>4, <2>6, <2>7, <2>8
<1>4. CASE PollBlocks
  BY <1>4 DEF PollBlocks, TypeOK, SleepFitsDeadline, ParkedInTime,
     SleepsInTime, TimesOutInTime, CancelledInTime, Waits
<1>5. CASE Wake
  BY <1>5 DEF Wake, TypeOK, SleepFitsDeadline, ParkedInTime,
     SleepsInTime, TimesOutInTime, CancelledInTime, Waits
<1>6. CASE Cancel
  BY <1>6 DEF Cancel, TypeOK, SleepFitsDeadline, ParkedInTime,
     SleepsInTime, TimesOutInTime, CancelledInTime, Waits, Lag, TimerAssumption
<1>7. CASE Tick
  <2>1. TypeOK'
    BY <1>7 DEF Tick, TypeOK, TimerAssumption, Overdue, Lag
  <2>2. SleepFitsDeadline'
    BY <1>7 DEF Tick, TypeOK, TimerAssumption, SleepFitsDeadline
  <2>3. CASE due = None
    BY <1>7, <2>1, <2>2, <2>3 DEF Tick, ParkedInTime, SleepsInTime,
       TimesOutInTime, CancelledInTime, Waits
  <2>4. CASE due # None
    <3>1. /\ sleep \in Nat /\ sleep >= 1
          /\ sleep <= due + Lag
          /\ sleep <= budget + Lag
          /\ sleep <= Interval + Lag
          /\ overrun # None => sleep + overrun <= Interval + Lag
      BY <1>7, <2>4 DEF Tick, ParkedInTime, Waits, TypeOK
    <3>2. due' = due - 1 /\ budget' = budget - 1 /\ sleep' = sleep - 1
      BY <1>7, <2>4, <3>1 DEF Tick, Overdue, Lag, TypeOK, TimerAssumption
    <3>3. overrun' = IF overrun = None THEN None ELSE overrun + 1
      BY <1>7, <3>1 DEF Tick, Lag, TypeOK, TimerAssumption
    <3>4. woken' = (sleep = 1) /\ fut' = fut
      BY <1>7 DEF Tick
    <3>5. ParkedInTime'
      <4>1. ~woken' => sleep # 1
        BY <3>4
      <4>2. sleep # 1 => sleep' # None /\ sleep' >= 1
        BY <3>1, <3>2 DEF TimerAssumption
      <4>3. /\ sleep' <= due' + Lag
            /\ sleep' <= budget' + Lag
            /\ sleep' <= Interval + Lag
        BY <2>4, <3>1, <3>2 DEF Lag, TypeOK, TimerAssumption
      <4>4. overrun' # None => sleep' + overrun' <= Interval + Lag
        BY <3>1, <3>2, <3>3 DEF Lag, TypeOK, TimerAssumption
      <4>5. QED
        BY <4>1, <4>2, <4>3, <4>4 DEF ParkedInTime
    <3>6. SleepsInTime' /\ TimesOutInTime'
      BY <3>1, <3>2 DEF SleepsInTime, TimesOutInTime, Lag, TypeOK,
         TimerAssumption
    <3>7. CancelledInTime'
      BY <3>1, <3>3 DEF CancelledInTime, Lag, TypeOK, TimerAssumption
    <3>8. QED
      BY <2>1, <2>2, <3>5, <3>6, <3>7
  <2>5. QED
    BY <2>3, <2>4
<1>8. CASE UNCHANGED vars
  BY <1>8 DEF vars, TypeOK, SleepFitsDeadline, ParkedInTime,
     SleepsInTime, TimesOutInTime, CancelledInTime, Waits
<1>9. QED
  BY <1>1, <1>2, <1>3, <1>4, <1>5, <1>6, <1>7, <1>8 DEF Next

-----------------------------------------------------------------------------
(* The theorems.                                                           *)

\* The invariant holds in every reachable state.
LEMMA Inductive == Spec => []IInv
BY TimerAssumption, InitIInv, StepIInv, PTL DEF Spec

\* The state of the timer and of what it is asked for is always well typed.
THEOREM TypeCorrect == Spec => []TypeOK
<1>1. IInv => TypeOK
  BY DEF IInv
<1>2. QED
  BY <1>1, Inductive, PTL

\* However often the future is polled, and whatever timers it keeps, a guest
\* that sleeps is woken within SLACK and the rounding of its time.
THEOREM WokenInTime == Spec => []SleepsInTime
<1>1. IInv => SleepsInTime
  BY DEF IInv
<1>2. QED
  BY <1>1, Inductive, PTL

\* A guest that sleeps past its timeout is stopped as promptly.
THEOREM StoppedInTime == Spec => []TimesOutInTime
<1>1. IInv => TimesOutInTime
  BY DEF IInv
<1>2. QED
  BY <1>1, Inductive, PTL

\* A guest that sleeps when the signal is tripped is stopped within one poll
\* interval, SLACK and the rounding.
THEOREM SignalledInTime == Spec => []CancelledInTime
<1>1. IInv => CancelledInTime
  BY DEF IInv
<1>2. QED
  BY <1>1, Inductive, PTL

\* The timer that poll_after keeps from one poll to the next is late for no sleep, no
\* deadline and no signal.
THEOREM PolledInTime == Spec => []InTime
<1>1. IInv => InTime
  BY DEF IInv, InTime
<1>2. QED
  BY <1>1, Inductive, PTL
=============================================================================
