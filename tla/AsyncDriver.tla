----------------------------- MODULE AsyncDriver -----------------------------
(***************************************************************************)
(* How a guest's asyncio loop is driven by host futures.                   *)
(*                                                                         *)
(* A guest has at most one async driver: a bare asyncio loop that does one *)
(* pass when it is told to, and the host futures its tasks await.  Nothing *)
(* drives it in the background.  Each of these drives it when polled:      *)
(*   - a CoroutineFuture, awaited by the host;                             *)
(*   - a drain: Guest::run_until_idle, or ActiveAsyncDriver::close;        *)
(*   - Guest::advance, a plain call.                                       *)
(* They are polled by tasks of a single-threaded executor, which polls a   *)
(* task only after a waker of that task was woken.  Whether anything moves *)
(* on therefore depends on which waker was left with which host future and *)
(* with which timer, which is what this module follows.                    *)
(***************************************************************************)
EXTENDS Integers, FiniteSets

CONSTANTS
    Coroutines, \* awaited coroutines: a CoroutineFuture and its asyncio task
    Drains,     \* calls of run_until_idle and of close
    Closers,    \* the drains that are calls of ActiveAsyncDriver::close
    Tasks,      \* the executor's tasks
    NoTask,     \* the waker that wakes nothing
    TaskOf,     \* the executor task that polls each coroutine and drain
    Calls,      \* calls of async host functions, each made at most once
    CallerOf,   \* the coroutine that makes each call
    NoCall,
    NoPoller,
    Faulty,     \* the calls whose result does not convert for the guest
    Sleepers,   \* the coroutines that may call asyncio.sleep
    Droppable,  \* the coroutines whose future the host may drop
    Advances,   \* TRUE: the host calls Guest::advance between polls
    Cancels,    \* TRUE: the host may trip the cancellation signal
    MaxMoves,   \* bound: awaits of one coroutine
    CloseBudget \* CLOSE_DRIVE_BUDGET: the rounds a close may take

Pollers == Coroutines \union Drains

ASSUME DriverAssumption ==
    /\ Coroutines \intersect Drains = {}
    /\ Closers \subseteq Drains
    /\ NoTask \notin Tasks
    /\ TaskOf \in [Pollers -> Tasks]
    /\ CallerOf \in [Calls -> Coroutines]
    /\ Calls \intersect {NoCall, "finish", "yield", "sleep"} = {}
    /\ NoPoller \notin Pollers
    /\ Faulty \subseteq Calls
    /\ Sleepers \subseteq Coroutines
    /\ Droppable \subseteq Coroutines
    /\ Advances \in BOOLEAN
    /\ Cancels \in BOOLEAN
    /\ MaxMoves \in Nat
    /\ CloseBudget \in Nat

VARIABLES
    driver,     \* the guest's AsyncDriverSlot is filled
    py,         \* the asyncio task of each coroutine
    on,         \* the host call a waiting task awaits
    left,       \* the awaits each task may still make
    call,       \* each host call: its place in PendingHostFutures
    finished,   \* the calls whose Rust future has its outcome
    waker,      \* the waker each pending host future was polled with last
    fut,        \* each CoroutineFuture
    drain,      \* where each drain is
    rounds,     \* the rounds each drain has left
    armed,      \* the pollers with a tokio timer running
    woken,      \* the executor tasks due to be polled
    todo,       \* what is left of the task poll under way
    turn,       \* the drain in the middle of its poll, or NoPoller
    cancelled   \* the cancellation signal

vars == <<driver, py, on, left, call, finished, waker, fut, drain, rounds,
          armed, woken, todo, turn, cancelled>>

guest == <<driver, py, on, left, call, waker>>

TypeOK ==
    /\ driver \in BOOLEAN
    /\ py \in [Coroutines -> {"none", "runnable", "waiting", "sleeping", "due",
                              "done", "closed"}]
    /\ on \in [Coroutines -> Calls \union {NoCall}]
    /\ left \in [Coroutines -> 0..MaxMoves]
    /\ call \in [Calls -> {"unused", "pending", "ready", "settled", "dropped"}]
    /\ finished \subseteq Calls
    /\ waker \in [Calls -> Tasks \union {NoTask}]
    /\ fut \in [Coroutines -> {"idle", "pending", "ready", "dropped"}]
    /\ drain \in [Drains -> {"idle", "start", "round", "blocked", "waiting", "end",
                             "done", "panicked"}]
    /\ rounds \in [Drains -> 0..CloseBudget]
    /\ armed \subseteq Pollers
    /\ woken \subseteq Tasks
    /\ todo \subseteq Pollers
    /\ turn \in Drains \union {NoPoller}
    /\ cancelled \in BOOLEAN

\* Every executor task has been spawned, and a spawned task is polled once.
Init ==
    /\ driver = FALSE
    /\ py = [c \in Coroutines |-> "none"]
    /\ on = [c \in Coroutines |-> NoCall]
    /\ left = [c \in Coroutines |-> MaxMoves]
    /\ call = [k \in Calls |-> "unused"]
    /\ finished = {}
    /\ waker = [k \in Calls |-> NoTask]
    /\ fut = [c \in Coroutines |-> "idle"]
    /\ drain = [d \in Drains |-> IF d \in Closers THEN "idle" ELSE "start"]
    /\ rounds = [d \in Drains |-> CloseBudget]
    /\ armed = {}
    /\ woken = Tasks
    /\ todo = {}
    /\ turn = NoPoller
    /\ cancelled = FALSE

-----------------------------------------------------------------------------
(* One round of the driver: poll_all, then publish, then one loop pass.    *)

Pending == {k \in Calls : call[k] = "pending"}

\* What publish finds: the completions kept from earlier polls, and those
\* that poll_all has just collected.
Batch == {k \in Calls : call[k] = "ready"} \union (Pending \intersect finished)

\* poll_all leaves waker w with every host future that is still pending.
\* Slip: it leaves none.
LeaveNone(w) ==
    [k \in Calls |-> IF k \in Pending \ finished THEN NoTask
                     ELSE IF k \in Batch THEN NoTask ELSE waker[k]]

Leave(w) ==
    [k \in Calls |-> IF k \in Pending \ finished THEN w
                     ELSE IF k \in Batch THEN NoTask ELSE waker[k]]

\* The tasks whose callbacks are ready once S has been published.
RunnableAfter(S) ==
    {c \in Coroutines : \/ py[c] \in {"runnable", "due"}
                        \/ py[c] = "waiting" /\ on[c] \in S}

\* EventLoop::step reports the timeout _run_once gave its selector, and that
\* is settled before any callback runs.
Progress(running) ==
    IF running # {} THEN "ready"
    ELSE IF \E c \in Coroutines : py[c] = "sleeping" THEN "waiting"
    ELSE IF Pending \ finished # {} THEN "blocked"
    ELSE "idle"

\* What a task does until its next await: it ends, yields, sleeps, or calls
\* an async host function.
Moves(c) ==
    {"finish"} \union
    (IF left[c] = 0 THEN {}
     ELSE {"yield"} \union (IF c \in Sleepers THEN {"sleep"} ELSE {})
            \union {k \in Calls : CallerOf[k] = c /\ call[k] = "unused"})

Runs(running) ==
    {mv \in [running -> UNION {Moves(c) : c \in running}] :
       \A c \in running : mv[c] \in Moves(c)}

\* One pass over the running tasks, after poll_all with w.
Pass(w, running, mv) ==
    LET made == {mv[c] : c \in running} \intersect Calls
    IN  /\ py' = [c \in Coroutines |->
                    IF c \notin running THEN py[c]
                    ELSE IF mv[c] = "finish" THEN "done"
                    ELSE IF mv[c] = "yield" THEN "runnable"
                    ELSE IF mv[c] = "sleep" THEN "sleeping"
                    ELSE "waiting"]
        /\ on' = [c \in Coroutines |->
                    IF c \notin running THEN on[c]
                    ELSE IF mv[c] \in Calls THEN mv[c]
                    ELSE NoCall]
        /\ left' = [c \in Coroutines |->
                    IF c \in running /\ mv[c] # "finish" THEN left[c] - 1
                    ELSE left[c]]
        /\ call' = [k \in Calls |-> IF k \in Batch THEN "settled"
                                    ELSE IF k \in made THEN "pending"
                                    ELSE call[k]]
        /\ waker' = Leave(w)

\* The completions whose conversion fails; one whose awaiter was cancelled is
\* passed over first.
Failing == {k \in Batch \intersect Faulty :
              \E c \in Coroutines : py[c] = "waiting" /\ on[c] = k}

\* publish stops at the first result that does not convert: the completions
\* behind it were drained with the rest and are gone, and no pass is made.
PublishFails(w) ==
    /\ Failing # {}
    /\ \E S \in SUBSET (Batch \ Failing) :
         /\ py' = [c \in Coroutines |->
                     IF py[c] = "waiting" /\ on[c] \in S THEN "runnable"
                     ELSE py[c]]
         /\ on' = [c \in Coroutines |->
                     IF py[c] = "waiting" /\ on[c] \in S THEN NoCall ELSE on[c]]
    /\ call' = [k \in Calls |-> IF k \in Batch THEN "settled" ELSE call[k]]
    /\ waker' = Leave(w)
    /\ UNCHANGED left

Publishes == Failing = {}

-----------------------------------------------------------------------------
(* The executor.                                                           *)

Live(p) == IF p \in Coroutines THEN fut[p] \in {"idle", "pending"}
           ELSE drain[p] \notin {"idle", "done", "panicked"}

\* The futures of one task are polled one at a time.
Turn(p) == p \in todo /\ turn \in {p, NoPoller}

\* The executor polls a woken task; the task polls its futures in turn.
PollTask(t) ==
    /\ todo = {}
    /\ t \in woken
    /\ woken' = woken \ {t}
    /\ todo' = {p \in Pollers : TaskOf[p] = t /\ Live(p)}
    /\ UNCHANGED <<guest, finished, fut, drain, rounds, armed, turn, cancelled>>

\* A future has been polled, and its task's waker woken or not.
Polled(p, wake) ==
    /\ todo' = todo \ {p}
    /\ turn' = NoPoller
    /\ woken' = IF wake THEN woken \union {TaskOf[p]} ELSE woken

\* A drain goes on within the same poll.
GoesOn(d) == turn' = d /\ UNCHANGED <<woken, todo>>

\* The signal refuses an operation unless one is under way, and a pending
\* CoroutineFuture is one.
Refused == cancelled /\ \A c \in Coroutines : fut[c] # "pending"

-----------------------------------------------------------------------------
(* CoroutineFuture::poll.                                                  *)

Resolve(c) ==
    /\ fut' = [fut EXCEPT ![c] = "ready"]
    /\ armed' = armed \ {c}
    /\ Polled(c, FALSE)

\* begin_operation fails.
PollRefused(c) ==
    /\ c \in Coroutines /\ Turn(c)
    /\ fut[c] = "idle"
    /\ Refused
    /\ Resolve(c)
    /\ UNCHANGED <<guest, finished, drain, rounds, cancelled>>

\* The policy aborts the poll, after poll_all.
PollAborted(c) ==
    /\ c \in Coroutines /\ Turn(c)
    /\ ~(fut[c] = "idle" /\ Refused)
    /\ cancelled
    /\ call' = [k \in Calls |-> IF k \in Batch THEN "ready" ELSE call[k]]
    /\ waker' = Leave(TaskOf[c])
    /\ Resolve(c)
    /\ UNCHANGED <<driver, py, on, left, finished, drain, rounds, cancelled>>

\* The round fails in publish, and the future with it.
PollFails(c) ==
    /\ c \in Coroutines /\ Turn(c)
    /\ ~cancelled
    /\ PublishFails(TaskOf[c])
    /\ driver' = TRUE
    /\ Resolve(c)
    /\ UNCHANGED <<finished, drain, rounds, cancelled>>

\* Slips: a poll that ran callbacks does not wake itself, or one that saw the
\* loop wait for a timer starts none.
NoSelfWake(c, progress) ==
    /\ fut' = [fut EXCEPT ![c] = "pending"]
    /\ armed' = IF progress = "waiting" THEN armed \union {c} ELSE armed
    /\ Polled(c, FALSE)

NoTimer(c, progress) ==
    /\ fut' = [fut EXCEPT ![c] = "pending"]
    /\ UNCHANGED armed
    /\ Polled(c, progress = "ready")

\* What the poll leaves behind for the coroutine that is not done: its own
\* waker woken, a timer, or nothing but the wakers poll_all left.
Suspend(c, progress) ==
    /\ fut' = [fut EXCEPT ![c] = "pending"]
    /\ armed' = IF progress = "waiting" THEN armed \union {c} ELSE armed
    /\ Polled(c, progress = "ready")

\* The first poll makes the driver and the task; each makes one round.
Poll(c) ==
    /\ c \in Coroutines /\ Turn(c)
    /\ ~cancelled
    /\ Publishes
    /\ driver' = TRUE
    /\ LET running == RunnableAfter(Batch)
                        \union (IF py[c] = "none" THEN {c} ELSE {})
       IN  /\ \E mv \in Runs(running) : Pass(TaskOf[c], running, mv)
           /\ IF py'[c] = "done" THEN Resolve(c)
              ELSE Suspend(c, Progress(running))
    /\ UNCHANGED <<finished, drain, rounds, cancelled>>

-----------------------------------------------------------------------------
(* run_until_idle and close.                                               *)

Stop(d, how) ==
    /\ drain' = [drain EXCEPT ![d] = how]
    /\ armed' = armed \ {d}
    /\ Polled(d, FALSE)

Activation(d) == IF d \in Closers THEN "cleanup" ELSE "operation"

RefusedTo(d) == Refused /\ Activation(d) = "operation"

\* run_until_idle makes the driver when there is none.
StartDrain(d) ==
    /\ d \notin Closers /\ Turn(d)
    /\ drain[d] = "start"
    /\ \/ /\ RefusedTo(d)
          /\ Stop(d, "done")
          /\ UNCHANGED driver
       \/ /\ ~RefusedTo(d)
          /\ driver' = TRUE
          /\ drain' = [drain EXCEPT ![d] = "round"]
          /\ GoesOn(d)
          /\ UNCHANGED armed
    /\ UNCHANGED <<py, on, left, call, waker, finished, fut, rounds, cancelled>>

\* Slip: close takes the driver out of its slot when it starts.
TakeFirst(d) ==
    /\ d \in Closers /\ Turn(d)
    /\ drain[d] = "start"
    /\ driver
    /\ driver' = FALSE
    /\ drain' = [drain EXCEPT ![d] = "round"]
    /\ GoesOn(d)
    /\ UNCHANGED <<py, on, left, call, waker, finished, fut, rounds, armed, cancelled>>

\* close cancels every task that is not done: each is resumed, and what it
\* awaited is cancelled, but the host future of a call stays registered.
StartClose(d) ==
    /\ d \in Closers /\ Turn(d)
    /\ drain[d] = "start"
    /\ driver
    /\ py' = [c \in Coroutines |->
                 IF py[c] \in {"waiting", "sleeping", "due"} THEN "runnable"
                 ELSE py[c]]
    /\ on' = [c \in Coroutines |-> NoCall]
    /\ drain' = [drain EXCEPT ![d] = "round"]
    /\ GoesOn(d)
    /\ UNCHANGED <<driver, left, call, waker, finished, fut, rounds, armed, cancelled>>

\* Slip: close does not look at what is left of its budget.
Unbounded(d) == FALSE

OutOfBudget(d) == d \in Closers /\ rounds[d] = 0

\* The driver a drain counts on is gone: an expect fails.
DriverGone(d) ==
    /\ Turn(d)
    /\ \/ drain[d] \in {"round", "blocked", "end"}
       \/ drain[d] = "start" /\ d \in Closers
    /\ ~driver
    /\ ~(drain[d] = "round" /\ (OutOfBudget(d) \/ RefusedTo(d)))
    /\ Stop(d, "panicked")
    /\ UNCHANGED <<guest, finished, fut, rounds, cancelled>>

\* Only close has a budget.
Spend(d) ==
    rounds' = IF d \in Closers THEN [rounds EXCEPT ![d] = @ - 1] ELSE rounds

Enough(d) ==
    /\ Turn(d)
    /\ drain[d] = "round"
    /\ OutOfBudget(d)
    /\ drain' = [drain EXCEPT ![d] = "end"]
    /\ GoesOn(d)
    /\ UNCHANGED <<guest, finished, fut, rounds, armed, cancelled>>

\* The round is refused by the signal, or fails in publish.
RoundFails(d) ==
    /\ Turn(d)
    /\ drain[d] = "round"
    /\ ~OutOfBudget(d)
    /\ \/ RefusedTo(d) /\ UNCHANGED guest
       \/ ~RefusedTo(d) /\ driver /\ PublishFails(NoTask) /\ UNCHANGED driver
    /\ Stop(d, "done")
    /\ UNCHANGED <<finished, fut, rounds, cancelled>>

\* A round polls with a waker that wakes nothing, so it takes every host
\* future away from whoever was waiting on it; only when the loop is blocked
\* on host futures are they polled again, for the drain's own task.
Round(d) ==
    /\ Turn(d)
    /\ drain[d] = "round"
    /\ ~OutOfBudget(d)
    /\ ~RefusedTo(d)
    /\ driver
    /\ Publishes
    /\ LET running == RunnableAfter(Batch)
           progress == Progress(running)
           w == IF progress = "blocked" THEN TaskOf[d] ELSE NoTask
       IN  /\ \E mv \in Runs(running) : Pass(w, running, mv)
           /\ \/ /\ progress = "idle"
                 /\ \/ d \notin Closers /\ Stop(d, "done")
                    \/ /\ d \in Closers
                       /\ drain' = [drain EXCEPT ![d] = "end"]
                       /\ GoesOn(d)
                       /\ UNCHANGED armed
                 /\ UNCHANGED rounds
              \/ /\ progress = "ready"
                 /\ Spend(d)
                 /\ Polled(d, TRUE)
                 /\ UNCHANGED <<drain, armed>>
              \/ /\ progress = "blocked"
                 /\ drain' = [drain EXCEPT ![d] = "blocked"]
                 /\ Polled(d, FALSE)
                 /\ UNCHANGED <<rounds, armed>>
              \/ /\ progress = "waiting"
                 /\ drain' = [drain EXCEPT ![d] = "waiting"]
                 /\ armed' = armed \union {d}
                 /\ Polled(d, FALSE)
                 /\ UNCHANGED rounds
    /\ UNCHANGED <<driver, finished, fut, cancelled>>

\* The poll_fn of a blocked drain: on with the next round once a host future
\* has its outcome, or none is left.
Blocked(d) ==
    /\ Turn(d)
    /\ drain[d] = "blocked"
    /\ driver
    /\ call' = [k \in Calls |-> IF k \in Batch THEN "ready" ELSE call[k]]
    /\ waker' = Leave(TaskOf[d])
    /\ IF Batch # {} \/ Pending = {}
       THEN /\ drain' = [drain EXCEPT ![d] = "round"]
            /\ Spend(d)
            /\ GoesOn(d)
       ELSE /\ Polled(d, FALSE)
            /\ UNCHANGED <<drain, rounds>>
    /\ UNCHANGED <<driver, py, on, left, finished, fut, armed, cancelled>>

\* WaitTimer::poll starts a new sleep of the whole delay whenever the one it
\* had has elapsed (poll_after reuses only a deadline that is still ahead), so it
\* is never ready.
Waiting(d) ==
    /\ Turn(d)
    /\ drain[d] = "waiting"
    /\ armed' = armed \union {d}
    /\ Polled(d, FALSE)
    /\ UNCHANGED <<guest, finished, fut, drain, rounds, cancelled>>

Unfinished == {c \in Coroutines : py[c] \notin {"none", "done", "closed"}}

\* The last pass of close: the coroutines of the tasks that are left are
\* closed, and the driver is dropped with its host futures.  A coroutine that
\* refuses to be closed fails the whole call: the driver stays, with tasks
\* whose coroutines are closed and that end when they are next resumed.
EndClose(d) ==
    /\ d \in Closers /\ Turn(d)
    /\ drain[d] = "end"
    /\ driver
    /\ \/ /\ py' = [c \in Coroutines |-> IF c \in Unfinished THEN "closed" ELSE py[c]]
          /\ driver' = FALSE
          /\ call' = [k \in Calls |-> IF call[k] \in {"pending", "ready"}
                                      THEN "dropped" ELSE call[k]]
          /\ waker' = [k \in Calls |-> NoTask]
          /\ UNCHANGED left
       \/ /\ \E S \in SUBSET Unfinished :
               /\ S # Unfinished
               /\ left' = [c \in Coroutines |-> IF c \in S THEN 0 ELSE left[c]]
          /\ UNCHANGED <<driver, py, call, waker>>
    /\ Stop(d, "done")
    /\ UNCHANGED <<on, finished, fut, rounds, cancelled>>

-----------------------------------------------------------------------------
(* The host and the world.                                                 *)

\* Guest::advance, called between two polls: one round, for no waker.
Advance ==
    /\ Advances
    /\ todo = {}
    /\ ~Refused
    /\ driver' = TRUE
    /\ \/ PublishFails(NoTask)
       \/ /\ Publishes
          /\ \E mv \in Runs(RunnableAfter(Batch)) :
               Pass(NoTask, RunnableAfter(Batch), mv)
    /\ UNCHANGED <<finished, fut, drain, rounds, armed, woken, todo, turn, cancelled>>

\* The host drops a pending future; its asyncio task stays in the loop.
DropFuture(c) ==
    /\ todo = {}
    /\ c \in Droppable
    /\ fut[c] = "pending"
    /\ fut' = [fut EXCEPT ![c] = "dropped"]
    /\ armed' = armed \ {c}
    /\ UNCHANGED <<guest, finished, drain, rounds, woken, todo, turn, cancelled>>

Cancel ==
    /\ Cancels
    /\ ~cancelled
    /\ cancelled' = TRUE
    /\ UNCHANGED <<guest, finished, fut, drain, rounds, armed, woken, todo, turn>>

\* The host calls close on the driver it has.
CallClose(d) ==
    /\ todo = {}
    /\ driver
    /\ drain[d] = "idle"
    /\ drain' = [drain EXCEPT ![d] = "start"]
    /\ woken' = woken \union {TaskOf[d]}
    /\ UNCHANGED <<guest, finished, fut, rounds, armed, todo, turn, cancelled>>

\* A host future gets its outcome and wakes the waker it was polled with.
Complete(k) ==
    /\ k \in Pending \ finished
    /\ finished' = finished \union {k}
    /\ woken' = IF waker[k] = NoTask THEN woken ELSE woken \union {waker[k]}
    /\ UNCHANGED <<guest, fut, drain, rounds, armed, todo, turn, cancelled>>

\* The time a task sleeps to has come; so has the time of a tokio timer.
Elapse(c) ==
    /\ py[c] = "sleeping"
    /\ py' = [py EXCEPT ![c] = "due"]
    /\ UNCHANGED <<driver, on, left, call, waker, finished, fut, drain, rounds,
                   armed, woken, todo, turn, cancelled>>

TimerFires(p) ==
    /\ p \in armed
    /\ armed' = armed \ {p}
    /\ woken' = woken \union {TaskOf[p]}
    /\ UNCHANGED <<guest, finished, fut, drain, rounds, todo, turn, cancelled>>

PollFuture(c) == PollRefused(c) \/ PollAborted(c) \/ PollFails(c) \/ Poll(c)

PollDrain(d) ==
    \/ StartDrain(d) \/ StartClose(d) \/ DriverGone(d)
    \/ Enough(d) \/ RoundFails(d) \/ Round(d)
    \/ Blocked(d) \/ Waiting(d) \/ EndClose(d)

Next ==
    \/ \E t \in Tasks : PollTask(t)
    \/ \E c \in Coroutines : PollFuture(c) \/ DropFuture(c) \/ Elapse(c)
    \/ \E d \in Drains : PollDrain(d) \/ CallClose(d)
    \/ \E k \in Calls : Complete(k)
    \/ \E p \in Pollers : TimerFires(p)
    \/ Advance
    \/ Cancel

\* The executor polls what is woken, to the end, and time passes.
Scheduled ==
    /\ \A t \in Tasks : WF_vars(PollTask(t))
    /\ \A c \in Coroutines : WF_vars(PollFuture(c)) /\ WF_vars(Elapse(c))
    /\ \A d \in Drains : WF_vars(PollDrain(d))
    /\ \A p \in Pollers : WF_vars(TimerFires(p))

\* Every host future has its outcome in the end.
Completes == \A k \in Calls : WF_vars(Complete(k))

Spec == Init /\ [][Next]_vars

FairSpec == Spec /\ Scheduled /\ Completes

-----------------------------------------------------------------------------
(* Properties.                                                             *)

\* A coroutine the host awaits is resolved in the end: whatever it waits for,
\* some waker that polls it is woken when that happens.
AwaitsResolve ==
    \A c \in Coroutines : fut[c] = "pending" ~> fut[c] \in {"ready", "dropped"}

\* A pending future that no wake-up and no timer is on its way to waits for a
\* host future that holds its own task's waker, and has not fired yet.
ParkedIsRegistered ==
    \A c \in Coroutines :
        (/\ fut[c] = "pending"
         /\ todo = {}
         /\ TaskOf[c] \notin woken
         /\ c \notin armed)
        => /\ py[c] = "waiting"
           /\ on[c] \in Pending \ finished
           /\ waker[on[c]] = TaskOf[c]

\* A task that waits for a host call waits for one the driver still holds.
WaitingIsHeld ==
    \A c \in Coroutines : py[c] = "waiting" => call[on[c]] \in {"pending", "ready"}

\* run_until_idle and close return once they are called.
DrainsReturn == \A d \in Drains : drain[d] = "start" ~> drain[d] = "done"

\* No drain finds the driver it counts on gone.
DriverStays == \A d \in Drains : drain[d] # "panicked"

\* What others count on while a close takes the driver apart between its awaits is there: the
\* driver, and the host call each task waits for (guest/mod.rs, ActiveAsyncDriver::close).
DriverHolds == DriverStays /\ WaitingIsHeld
=============================================================================
