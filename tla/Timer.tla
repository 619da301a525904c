-------------------------------- MODULE Timer --------------------------------
(***************************************************************************)
(* When a CoroutineFuture that waits for the guest's clock is polled again. *)
(*                                                                         *)
(* The asyncio loop has no selector of its own: it tells how long it would *)
(* have slept, and the future starts a tokio timer for that long, or less  *)
(* if its policy has to be looked at sooner.  A timer that is running is   *)
(* kept when it fires early enough, so that a future that is polled often  *)
(* does not start a timer each time.                                       *)
(*                                                                         *)
(* Times are ticks from now, so that the clock needs no bound; those that  *)
(* have passed are counted down to Overdue and no further.  The executor   *)
(* polls a woken task within the tick.                                     *)
(***************************************************************************)
EXTENDS Integers

CONSTANTS
    Delays,     \* how long guest code sleeps
    Budget,     \* the guest's timeout
    Interval,   \* ExecutionPolicy::poll_interval
    Slack,      \* Timer::SLACK
    Rounding,   \* how much later than asked a tokio timer may fire
    None

Lag == Slack + Rounding

\* Bound: nothing is counted past this many ticks late.
Overdue == -(Lag + 1)

ASSUME TimerAssumption ==
    /\ Delays \subseteq Nat \ {0}
    /\ Budget \in Nat \ {0}
    /\ Interval \in Nat
    /\ Slack \in Nat
    /\ Rounding \in Nat
    /\ None \notin Int

VARIABLES
    due,        \* the guest timer that fires first, or None
    ready,      \* the loop has callbacks that are ready
    budget,     \* what is left until the policy's deadline
    overrun,    \* how long the signal has been tripped, or None
    deadline,   \* Timer::deadline, or None
    sleep,      \* the tokio timer in Timer::sleep, or None; 0 once it fired
    woken,      \* the future's task is due to be polled
    fut         \* the CoroutineFuture

vars == <<due, ready, budget, overrun, deadline, sleep, woken, fut>>

TypeOK ==
    /\ due \in Int \union {None}
    /\ ready \in BOOLEAN
    /\ budget \in Int
    /\ overrun \in Nat \union {None}
    /\ deadline \in Nat \union {None}
    /\ sleep \in Nat \union {None}
    /\ woken \in BOOLEAN
    /\ fut \in {"pending", "ended"}

\* The first poll has begun the operation and made the task.
Init ==
    /\ due = None
    /\ ready = TRUE
    /\ budget = Budget
    /\ overrun = None
    /\ deadline = None
    /\ sleep = None
    /\ woken = TRUE
    /\ fut = "pending"

-----------------------------------------------------------------------------
(* Timer::poll_after.                                                      *)

Earlier(x, y) == IF x <= y THEN x ELSE y

\* Slip: any timer that is running is kept.
ReusesAny(duration) == sleep # None /\ deadline > 0

Reuses(duration) ==
    /\ sleep # None
    /\ deadline > 0
    /\ deadline <= duration + Slack

\* A timer that has fired is polled ready and forgotten; the caller's task is
\* woken at once then, and by the timer otherwise.
Started(remaining, target) ==
    IF remaining = 0
    THEN sleep' = None /\ deadline' = None /\ woken' = TRUE
    ELSE sleep' = remaining /\ deadline' = target /\ woken' = FALSE

PollAfter(duration) ==
    \/ Reuses(duration) /\ Started(sleep, deadline)
    \/ /\ ~Reuses(duration)
       /\ \E late \in 0..Rounding : Started(duration + late, duration)

Clamp(delay) == Earlier(Earlier(delay, budget), Interval)

-----------------------------------------------------------------------------
(* CoroutineFuture::poll.                                                  *)

Polled == woken /\ fut = "pending"

ShouldAbort == overrun # None \/ budget <= 0

PollAborted ==
    /\ Polled
    /\ ShouldAbort
    /\ fut' = "ended"
    /\ woken' = FALSE
    /\ UNCHANGED <<due, ready, budget, overrun, deadline, sleep>>

Runnable == ready \/ (due # None /\ due <= 0)

\* Callbacks run: the coroutine ends, or the future wakes itself.  The guest
\* has what timers it likes then, and leaves the tokio timer as it is.
PollRuns ==
    /\ Polled
    /\ ~ShouldAbort
    /\ Runnable
    /\ due' \in Delays \union {None}
    /\ ready' \in BOOLEAN
    /\ \/ fut' = "ended" /\ woken' = FALSE
       \/ UNCHANGED <<fut, woken>>
    /\ UNCHANGED <<budget, overrun, deadline, sleep>>

\* Nothing runs before the next guest timer.
PollWaits ==
    /\ Polled
    /\ ~ShouldAbort
    /\ ~Runnable
    /\ due # None
    /\ PollAfter(Clamp(due))
    /\ UNCHANGED <<due, ready, budget, overrun, fut>>

\* Nothing runs before a host future has its outcome, and no timer is set.
PollBlocks ==
    /\ Polled
    /\ ~ShouldAbort
    /\ ~Runnable
    /\ due = None
    /\ woken' = FALSE
    /\ UNCHANGED <<due, ready, budget, overrun, deadline, sleep, fut>>

-----------------------------------------------------------------------------
(* The world.                                                              *)

\* A host future has its outcome, or the task is woken for something else.
Wake ==
    /\ fut = "pending"
    /\ woken' = TRUE
    /\ \/ ready' = TRUE
       \/ UNCHANGED ready
    /\ UNCHANGED <<due, budget, overrun, deadline, sleep, fut>>

Cancel ==
    /\ fut = "pending"
    /\ overrun = None
    /\ overrun' = 0
    /\ UNCHANGED <<due, ready, budget, deadline, sleep, woken, fut>>

\* A tick; a tokio timer that fires wakes the task.
Tick ==
    /\ fut = "pending"
    /\ ~woken
    /\ due' = IF due = None \/ due = Overdue THEN due ELSE due - 1
    /\ budget' = IF budget = Overdue THEN budget ELSE budget - 1
    /\ overrun' = IF overrun = None \/ overrun > Interval + Lag THEN overrun
                  ELSE overrun + 1
    /\ deadline' = IF deadline \in {None, 0} THEN deadline ELSE deadline - 1
    /\ sleep' = IF sleep \in {None, 0} THEN sleep ELSE sleep - 1
    /\ woken' = (sleep = 1)
    /\ UNCHANGED <<ready, fut>>

Next ==
    \/ PollAborted \/ PollRuns \/ PollWaits \/ PollBlocks
    \/ Wake \/ Cancel \/ Tick

Spec == Init /\ [][Next]_vars

-----------------------------------------------------------------------------
(* Properties.                                                             *)

Waits == fut = "pending" /\ due # None

\* A guest that sleeps is woken in time: keeping an earlier timer costs it no
\* more than SLACK, however its sleeps change between polls.
SleepsInTime == Waits => due >= -Lag

\* A guest that sleeps past its timeout is stopped in time.
TimesOutInTime == Waits => budget >= -Lag

\* A guest that sleeps when the signal is tripped is stopped within one poll
\* interval, though nothing wakes the future for it.
CancelledInTime == (Waits /\ overrun # None) => overrun <= Interval + Lag

\* One timer serves all three, and poll_after keeps it when it fires within SLACK of what is
\* asked next (timer.rs:28): it is late for none of them.
InTime == SleepsInTime /\ TimesOutInTime /\ CancelledInTime
=============================================================================
