-------------------------- MODULE AsyncDriverProofs --------------------------
(***************************************************************************)
(* Theorems about AsyncDriver, for any coroutines, drains, host calls and  *)
(* executor tasks.                                                         *)
(***************************************************************************)
EXTENDS AsyncDriver, TLAPS

-----------------------------------------------------------------------------
(* The parts of the type invariant.                                        *)

PyStates == {"none", "runnable", "waiting", "sleeping", "due", "done", "closed"}
CallStates == {"unused", "pending", "ready", "settled", "dropped"}
DrainStates == {"idle", "start", "round", "blocked", "waiting", "end", "done",
                "panicked"}

GuestTyped ==
    /\ driver \in BOOLEAN
    /\ py \in [Coroutines -> PyStates]
    /\ on \in [Coroutines -> Calls \union {NoCall}]
    /\ left \in [Coroutines -> 0 .. MaxMoves]
    /\ call \in [Calls -> CallStates]
    /\ waker \in [Calls -> Tasks \union {NoTask}]

ExecutorTyped ==
    /\ finished \subseteq Calls
    /\ fut \in [Coroutines -> {"idle", "pending", "ready", "dropped"}]
    /\ armed \subseteq Pollers
    /\ woken \subseteq Tasks
    /\ todo \subseteq Pollers
    /\ turn \in Drains \union {NoPoller}
    /\ cancelled \in BOOLEAN

DrainsTyped ==
    /\ drain \in [Drains -> DrainStates]
    /\ rounds \in [Drains -> 0 .. CloseBudget]

LEMMA Parts == TypeOK <=> GuestTyped /\ ExecutorTyped /\ DrainsTyped
BY DEF TypeOK, GuestTyped, ExecutorTyped, DrainsTyped, PyStates, CallStates,
       DrainStates

-----------------------------------------------------------------------------
(* The operators of a round.                                               *)

\* poll_all and publish move host calls between their places only.
LEMMA BatchFacts ==
    ASSUME GuestTyped
    PROVE  /\ Batch \subseteq Calls /\ Pending \subseteq Calls
           /\ \A k \in Batch : call[k] \in {"pending", "ready"}
           /\ \A k \in Calls : call[k] \in {"pending", "ready"} =>
                                   k \in Batch \/ k \in Pending \ finished
           /\ \A k \in Pending \ finished : k \notin Batch
BY DEF Batch, Pending, GuestTyped

\* poll_all leaves its waker with the calls that are still pending.
LEMMA LeaveFacts ==
    ASSUME GuestTyped, NEW w \in Tasks \union {NoTask}
    PROVE  /\ Leave(w) \in [Calls -> Tasks \union {NoTask}]
           /\ \A k \in Pending \ finished : Leave(w)[k] = w
BY DEF Leave, GuestTyped, Pending

\* A pass gives each task that runs a move of its own, and ends what was
\* published.
LEMMA PassFacts ==
    ASSUME GuestTyped, NEW running \in SUBSET Coroutines, NEW mv \in Runs(running),
           NEW w, Pass(w, running, mv)
    PROVE  /\ \A c \in Coroutines \ running : /\ py'[c] = py[c]
                                              /\ on'[c] = on[c]
                                              /\ left'[c] = left[c]
           /\ \A c \in running :
                  \/ py'[c] = "done" /\ left'[c] = left[c]
                  \/ py'[c] \in {"runnable", "sleeping"} /\ left[c] > 0 /\ left'[c] = left[c] - 1
                  \/ /\ py'[c] = "waiting" /\ left[c] > 0 /\ left'[c] = left[c] - 1
                     /\ on'[c] \in Calls /\ call[on'[c]] = "unused"
                     /\ call'[on'[c]] = "pending"
           /\ \A c \in running : on'[c] \in Calls \union {NoCall}
           /\ \A k \in Batch : call'[k] = "settled"
           /\ \A k \in Calls \ Batch : call'[k] = call[k] \/ (call'[k] = "pending" /\ call[k] = "unused")
           /\ waker' = Leave(w)
<1>1. /\ \A c \in Coroutines : left[c] \in Nat
      /\ \A k \in Batch : call[k] # "unused"
  BY DriverAssumption, BatchFacts DEF GuestTyped
<1>2. ASSUME NEW c \in running
      PROVE  \/ mv[c] = "finish"
             \/ left[c] > 0 /\ mv[c] \in {"yield", "sleep"}
             \/ left[c] > 0 /\ mv[c] \in Calls /\ call[mv[c]] = "unused"
  BY <1>1 DEF Runs, Moves
<1>3. ASSUME NEW c \in Coroutines \ running
      PROVE  py'[c] = py[c] /\ on'[c] = on[c] /\ left'[c] = left[c]
  BY DEF Pass
<1>4. ASSUME NEW c \in running
      PROVE  /\ py'[c] = IF mv[c] = "finish" THEN "done"
                         ELSE IF mv[c] = "yield" THEN "runnable"
                         ELSE IF mv[c] = "sleep" THEN "sleeping"
                         ELSE "waiting"
             /\ on'[c] = IF mv[c] \in Calls THEN mv[c] ELSE NoCall
             /\ left'[c] = IF mv[c] # "finish" THEN left[c] - 1 ELSE left[c]
  BY DEF Pass
<1>5. \A k \in Calls : call'[k] = IF k \in Batch THEN "settled"
                                  ELSE IF \E c \in running : mv[c] = k THEN "pending"
                                  ELSE call[k]
  BY DEF Pass
<1>6. waker' = Leave(w)
  BY DEF Pass
<1>7. ASSUME NEW k \in Calls \ Batch
      PROVE  call'[k] = call[k] \/ (call'[k] = "pending" /\ call[k] = "unused")
  <2>1. k \notin {"finish", "yield", "sleep"}
    BY DriverAssumption
  <2>2. QED
    BY <1>2, <1>5, <2>1
<1>8. ASSUME NEW c \in running
      PROVE  \/ py'[c] = "done" /\ left'[c] = left[c]
             \/ py'[c] \in {"runnable", "sleeping"} /\ left[c] > 0 /\ left'[c] = left[c] - 1
             \/ /\ py'[c] = "waiting" /\ left[c] > 0 /\ left'[c] = left[c] - 1
                /\ on'[c] \in Calls /\ call[on'[c]] = "unused"
                /\ call'[on'[c]] = "pending"
  <2>1. CASE mv[c] \in {"finish", "yield", "sleep"}
    BY <1>2, <1>4, <2>1
  <2>2. CASE mv[c] \notin {"finish", "yield", "sleep"}
    <3>1. /\ left[c] > 0 /\ mv[c] \in Calls /\ call[mv[c]] = "unused"
          /\ py'[c] = "waiting" /\ on'[c] = mv[c] /\ left'[c] = left[c] - 1
      BY <1>2, <1>4, <2>2
    <3>2. call'[mv[c]] = "pending"
      BY <1>1, <1>5, <3>1
    <3>3. QED
      BY <3>1, <3>2
  <2>3. QED
    BY <2>1, <2>2
<1>9. \A c \in running : on'[c] \in Calls \union {NoCall}
  BY <1>4
<1>10. \A k \in Batch : call'[k] = "settled"
  BY <1>5, BatchFacts
<1>11. QED
  BY <1>3, <1>6, <1>7, <1>8, <1>9, <1>10

\* A publish that fails ends what it had, and lets some of the waiting run.
LEMMA FailFacts ==
    ASSUME GuestTyped, NEW w, PublishFails(w)
    PROVE  /\ \A c \in Coroutines :
                  \/ py'[c] = py[c] /\ on'[c] = on[c]
                  \/ py'[c] = "runnable" /\ py[c] = "waiting" /\ on'[c] = NoCall
           /\ py' = [c \in Coroutines |-> py'[c]]
           /\ on' = [c \in Coroutines |-> on'[c]]
           /\ call' = [k \in Calls |-> IF k \in Batch THEN "settled" ELSE call[k]]
           /\ waker' = Leave(w)
           /\ left' = left
           /\ \E k \in Faulty : k \in Batch
<1>1. PICK S \in SUBSET (Batch \ Failing) :
         /\ py' = [c \in Coroutines |->
                     IF py[c] = "waiting" /\ on[c] \in S THEN "runnable"
                     ELSE py[c]]
         /\ on' = [c \in Coroutines |->
                     IF py[c] = "waiting" /\ on[c] \in S THEN NoCall ELSE on[c]]
  BY DEF PublishFails
<1>2. \A c \in Coroutines :
         \/ py'[c] = py[c] /\ on'[c] = on[c]
         \/ py'[c] = "runnable" /\ py[c] = "waiting" /\ on'[c] = NoCall
  BY <1>1
<1>3. py' = [c \in Coroutines |-> py'[c]] /\ on' = [c \in Coroutines |-> on'[c]]
  BY <1>1
<1>4. \E k \in Faulty : k \in Batch
  BY DEF PublishFails, Failing
<1>5. QED
  BY <1>2, <1>3, <1>4 DEF PublishFails

-----------------------------------------------------------------------------
(* Type correctness.                                                       *)

LEMMA PassTyped ==
    ASSUME GuestTyped, NEW running \in SUBSET Coroutines, NEW mv \in Runs(running),
           NEW w \in Tasks \union {NoTask}, Pass(w, running, mv), driver' \in BOOLEAN
    PROVE  GuestTyped'
<1>1. \A c \in Coroutines : py'[c] \in PyStates /\ on'[c] \in Calls \union {NoCall}
  BY PassFacts DEF GuestTyped, PyStates
<1>2. ASSUME NEW c \in Coroutines PROVE left'[c] \in 0 .. MaxMoves
  <2>1. left[c] \in 0 .. MaxMoves /\ MaxMoves \in Nat
    BY DriverAssumption DEF GuestTyped
  <2>2. left'[c] = left[c] \/ (left[c] > 0 /\ left'[c] = left[c] - 1)
    BY PassFacts
  <2>3. QED
    BY <2>1, <2>2
<1>3. \A k \in Calls : call'[k] \in CallStates
  BY PassFacts DEF GuestTyped, CallStates
<1>4. waker' \in [Calls -> Tasks \union {NoTask}]
  BY PassFacts, LeaveFacts
<1>5. /\ py' = [c \in Coroutines |-> py'[c]] /\ on' = [c \in Coroutines |-> on'[c]]
      /\ left' = [c \in Coroutines |-> left'[c]] /\ call' = [k \in Calls |-> call'[k]]
  BY DEF Pass
<1>6. QED
  BY <1>1, <1>2, <1>3, <1>4, <1>5 DEF GuestTyped

LEMMA FailTyped ==
    ASSUME GuestTyped, NEW w \in Tasks \union {NoTask}, PublishFails(w),
           driver' \in BOOLEAN
    PROVE  GuestTyped'
<1>1. \A c \in Coroutines : py'[c] \in PyStates /\ on'[c] \in Calls \union {NoCall}
  BY FailFacts DEF GuestTyped, PyStates
<1>2. call' \in [Calls -> CallStates]
  BY FailFacts DEF GuestTyped, CallStates
<1>3. QED
  BY <1>1, <1>2, FailFacts, LeaveFacts DEF GuestTyped

\* poll_all alone, with what it collects kept for later.
LEMMA CollectTyped ==
    ASSUME GuestTyped, NEW w \in Tasks \union {NoTask},
           call' = [k \in Calls |-> IF k \in Batch THEN "ready" ELSE call[k]],
           waker' = Leave(w), UNCHANGED <<driver, py, on, left>>
    PROVE  GuestTyped'
BY LeaveFacts DEF GuestTyped, CallStates

\* A blocked close has a round to spend: its budget is looked at before a
\* round, and spent when the blocked drain goes on.
BlockedHasRound == \A d \in Closers : drain[d] = "blocked" => rounds[d] > 0

TInv == TypeOK /\ BlockedHasRound

\* What the actions of the executor and the drains may change.
RestTyped == ExecutorTyped /\ DrainsTyped /\ BlockedHasRound

LEMMA TInvParts == TInv <=> GuestTyped /\ RestTyped
BY Parts DEF TInv, RestTyped

LEMMA PollerFacts ==
    /\ \A p \in Pollers : TaskOf[p] \in Tasks
    /\ Coroutines \subseteq Pollers /\ Drains \subseteq Pollers /\ Closers \subseteq Drains
    /\ \A c \in Coroutines : TaskOf[c] \in Tasks \union {NoTask}
BY DriverAssumption DEF Pollers

\* A poll that leaves its drain alone.
LEMMA PolledTyped ==
    ASSUME RestTyped, NEW p \in Pollers, NEW wake, Polled(p, wake)
    PROVE  todo' \subseteq Pollers /\ turn' = NoPoller /\ woken' \subseteq Tasks
BY PollerFacts DEF RestTyped, ExecutorTyped, Polled

\* A poll of a coroutine.
LEMMA CoroutineTyped ==
    ASSUME RestTyped, NEW c \in Coroutines, NEW wake, Polled(c, wake),
           NEW now \in {"pending", "ready"}, fut' = [fut EXCEPT ![c] = now],
           armed' \subseteq Pollers,
           UNCHANGED <<finished, drain, rounds, cancelled>>
    PROVE  RestTyped'
<1>1. todo' \subseteq Pollers /\ turn' = NoPoller /\ woken' \subseteq Tasks
  BY PolledTyped, PollerFacts
<1>2. QED
  BY <1>1 DEF RestTyped, ExecutorTyped, DrainsTyped, BlockedHasRound

LEMMA ResolveTyped ==
    ASSUME RestTyped, NEW c \in Coroutines, Resolve(c),
           UNCHANGED <<finished, drain, rounds, cancelled>>
    PROVE  RestTyped'
BY CoroutineTyped DEF Resolve, RestTyped, ExecutorTyped

LEMMA SuspendTyped ==
    ASSUME RestTyped, NEW c \in Coroutines, NEW progress, Suspend(c, progress),
           UNCHANGED <<finished, drain, rounds, cancelled>>
    PROVE  RestTyped'
<1>1. armed' \subseteq Pollers
  BY PollerFacts DEF Suspend, RestTyped, ExecutorTyped
<1>2. QED
  BY <1>1, CoroutineTyped DEF Suspend

\* A poll of a drain ends it, or leaves it in one of its states.
LEMMA StopTyped ==
    ASSUME RestTyped, NEW d \in Drains, NEW how \in {"done", "panicked"}, Stop(d, how),
           UNCHANGED <<finished, fut, rounds, cancelled>>
    PROVE  RestTyped'
<1>1. todo' \subseteq Pollers /\ turn' = NoPoller /\ woken' \subseteq Tasks
  BY PolledTyped, PollerFacts DEF Stop
<1>2. armed' \subseteq Pollers /\ drain' \in [Drains -> DrainStates]
  BY DEF Stop, RestTyped, ExecutorTyped, DrainsTyped, DrainStates
<1>3. BlockedHasRound'
  BY PollerFacts DEF Stop, RestTyped, DrainsTyped, BlockedHasRound
<1>4. QED
  BY <1>1, <1>2, <1>3 DEF RestTyped, ExecutorTyped, DrainsTyped

LEMMA DrainTyped ==
    ASSUME RestTyped, NEW d \in Drains, NEW to \in DrainStates,
           drain' = [drain EXCEPT ![d] = to],
           to = "blocked" => (d \in Closers => rounds'[d] > 0),
           rounds' \in [Drains -> 0 .. CloseBudget],
           \A x \in Drains \ {d} : rounds'[x] = rounds[x],
           GoesOn(d) \/ \E wake : Polled(d, wake),
           armed' \subseteq Pollers,
           UNCHANGED <<finished, fut, cancelled>>
    PROVE  RestTyped'
<1>1. todo' \subseteq Pollers /\ turn' \in Drains \union {NoPoller} /\ woken' \subseteq Tasks
  <2>1. CASE GoesOn(d)
    BY <2>1 DEF GoesOn, RestTyped, ExecutorTyped
  <2>2. CASE \E wake : Polled(d, wake)
    BY <2>2, PolledTyped, PollerFacts
  <2>3. QED
    BY <2>1, <2>2
<1>2. drain' \in [Drains -> DrainStates] /\ BlockedHasRound'
  BY PollerFacts DEF RestTyped, DrainsTyped, BlockedHasRound
<1>3. QED
  BY <1>1, <1>2 DEF RestTyped, ExecutorTyped, DrainsTyped

\* A drain that is not refused for its budget has a round to spend.
LEMMA SpendTyped ==
    ASSUME RestTyped, NEW d \in Drains, Spend(d), d \in Closers => rounds[d] > 0
    PROVE  /\ rounds' \in [Drains -> 0 .. CloseBudget]
           /\ \A x \in Drains \ {d} : rounds'[x] = rounds[x]
<1>1. rounds \in [Drains -> 0 .. CloseBudget] /\ rounds[d] \in 0 .. CloseBudget /\ CloseBudget \in Nat
  BY DriverAssumption DEF RestTyped, DrainsTyped
<1>2. d \in Closers => rounds[d] - 1 \in 0 .. CloseBudget
  BY <1>1
<1>3. QED
  BY <1>1, <1>2 DEF Spend

\* A round that runs callbacks, whoever makes it.
LEMMA RunsTyped ==
    ASSUME GuestTyped, NEW extra \in SUBSET Coroutines, NEW w \in Tasks \union {NoTask},
           \E mv \in Runs(RunnableAfter(Batch) \union extra) :
               Pass(w, RunnableAfter(Batch) \union extra, mv),
           driver' \in BOOLEAN
    PROVE  GuestTyped'
<1>1. RunnableAfter(Batch) \union extra \in SUBSET Coroutines
  BY DEF RunnableAfter
<1>2. QED
  BY <1>1, PassTyped

\* The polls of a CoroutineFuture.
LEMMA PollFutureTyped ==
    ASSUME TInv, NEW c \in Coroutines, PollFuture(c)
    PROVE  GuestTyped' /\ RestTyped'
<1>1. GuestTyped /\ RestTyped /\ TaskOf[c] \in Tasks \union {NoTask}
  BY TInvParts, PollerFacts
<1>2. CASE PollRefused(c)
  BY <1>1, <1>2, ResolveTyped DEF PollRefused, guest, GuestTyped
<1>3. CASE PollAborted(c)
  <2>1. GuestTyped'
    BY <1>1, <1>3, CollectTyped DEF PollAborted
  <2>2. QED
    BY <1>1, <1>3, <2>1, ResolveTyped DEF PollAborted
<1>4. CASE PollFails(c)
  <2>1. GuestTyped'
    BY <1>1, <1>4, FailTyped DEF PollFails
  <2>2. QED
    BY <1>1, <1>4, <2>1, ResolveTyped DEF PollFails
<1>5. CASE Poll(c)
  <2> DEFINE extra == IF py[c] = "none" THEN {c} ELSE {}
  <2>1. /\ \E mv \in Runs(RunnableAfter(Batch) \union extra) :
              Pass(TaskOf[c], RunnableAfter(Batch) \union extra, mv)
        /\ driver' = TRUE /\ extra \in SUBSET Coroutines
    BY <1>5 DEF Poll
  <2>2. GuestTyped'
    BY <1>1, <2>1, RunsTyped
  <2>3. /\ Resolve(c) \/ \E progress : Suspend(c, progress)
        /\ UNCHANGED <<finished, drain, rounds, cancelled>>
    BY <1>5 DEF Poll
  <2>4. QED
    BY <1>1, <2>2, <2>3, ResolveTyped, SuspendTyped
<1>6. QED
  BY <1>2, <1>3, <1>4, <1>5 DEF PollFuture

\* The polls of a drain.
LEMMA PollDrainTyped ==
    ASSUME TInv, NEW d \in Drains, PollDrain(d)
    PROVE  GuestTyped' /\ RestTyped'
<1>1. /\ GuestTyped /\ RestTyped /\ TaskOf[d] \in Tasks \union {NoTask}
      /\ NoTask \in Tasks \union {NoTask} /\ d \in Pollers
  BY TInvParts, PollerFacts
<1>2. /\ rounds \in [Drains -> 0 .. CloseBudget] /\ armed \subseteq Pollers
      /\ armed \union {d} \subseteq Pollers
      /\ {"start", "round", "blocked", "waiting", "end"} \subseteq DrainStates
      /\ drain = [drain EXCEPT ![d] = drain[d]] /\ drain[d] \in DrainStates
  BY <1>1 DEF RestTyped, DrainsTyped, ExecutorTyped, DrainStates
<1>3. ~OutOfBudget(d) => (d \in Closers => rounds[d] > 0)
  BY <1>1, DriverAssumption DEF OutOfBudget, RestTyped, DrainsTyped
<1>4. CASE StartDrain(d)
  <2>1. GuestTyped'
    BY <1>1, <1>4 DEF StartDrain, GuestTyped
  <2>2. CASE Stop(d, "done")
    BY <1>1, <1>4, <2>1, <2>2, StopTyped DEF StartDrain
  <2>3. CASE drain' = [drain EXCEPT ![d] = "round"] /\ GoesOn(d) /\ UNCHANGED armed
    BY <1>1, <1>2, <1>4, <2>1, <2>3, DrainTyped DEF StartDrain
  <2>4. QED
    BY <1>4, <2>2, <2>3 DEF StartDrain
<1>5. CASE StartClose(d)
  <2>1. GuestTyped'
    BY <1>1, <1>5 DEF StartClose, GuestTyped, PyStates
  <2>2. QED
    BY <1>1, <1>2, <1>5, <2>1, DrainTyped DEF StartClose
<1>6. CASE DriverGone(d)
  BY <1>1, <1>6, StopTyped DEF DriverGone, guest, GuestTyped
<1>7. CASE Enough(d)
  <2>1. GuestTyped'
    BY <1>1, <1>7 DEF Enough, guest, GuestTyped
  <2>2. QED
    BY <1>1, <1>2, <1>7, <2>1, DrainTyped DEF Enough
<1>8. CASE RoundFails(d)
  <2>1. GuestTyped'
    <3>1. CASE UNCHANGED guest
      BY <1>1, <3>1 DEF guest, GuestTyped
    <3>2. CASE PublishFails(NoTask) /\ UNCHANGED driver
      BY <1>1, <3>2, FailTyped DEF GuestTyped
    <3>3. QED
      BY <1>8, <3>1, <3>2 DEF RoundFails
  <2>2. QED
    BY <1>1, <1>8, <2>1, StopTyped DEF RoundFails
<1>9. CASE Round(d)
  <2> DEFINE running == RunnableAfter(Batch)
             progress == Progress(running)
             w == IF progress = "blocked" THEN TaskOf[d] ELSE NoTask
  <2>1. GuestTyped'
    <3>1. /\ \E mv \in Runs(running \union {}) : Pass(w, running \union {}, mv)
          /\ driver' \in BOOLEAN
      BY <1>1, <1>9 DEF Round, GuestTyped
    <3>2. QED
      BY <1>1, <3>1, RunsTyped
  <2>2. UNCHANGED <<finished, fut, cancelled>>
    BY <1>9 DEF Round
  <2>3. CASE Stop(d, "done") /\ UNCHANGED rounds
    BY <1>1, <2>1, <2>2, <2>3, StopTyped
  <2>4. CASE drain' = [drain EXCEPT ![d] = "end"] /\ GoesOn(d) /\ UNCHANGED <<armed, rounds>>
    BY <1>1, <1>2, <2>1, <2>2, <2>4, DrainTyped
  <2>5. CASE Spend(d) /\ Polled(d, TRUE) /\ UNCHANGED <<drain, armed>>
    <3>1. drain[d] = "round"
      BY <1>9 DEF Round
    <3>2. /\ rounds' \in [Drains -> 0 .. CloseBudget]
          /\ \A x \in Drains \ {d} : rounds'[x] = rounds[x]
      BY <1>1, <1>3, <1>9, <2>5, SpendTyped DEF Round
    <3>3. drain' = [drain EXCEPT ![d] = "round"]
      BY <1>2, <2>5, <3>1
    <3>4. QED
      BY <1>1, <1>2, <2>1, <2>2, <2>5, <3>2, <3>3, DrainTyped
  <2>6. CASE drain' = [drain EXCEPT ![d] = "blocked"] /\ Polled(d, FALSE) /\ UNCHANGED <<rounds, armed>>
    BY <1>1, <1>2, <1>3, <1>9, <2>1, <2>2, <2>6, DrainTyped DEF Round
  <2>7. CASE /\ drain' = [drain EXCEPT ![d] = "waiting"] /\ armed' = armed \union {d}
             /\ Polled(d, FALSE) /\ UNCHANGED rounds
    BY <1>1, <1>2, <2>1, <2>2, <2>7, DrainTyped
  <2>8. QED
    BY <1>9, <2>3, <2>4, <2>5, <2>6, <2>7 DEF Round
<1>10. CASE Blocked(d)
  <2>1. GuestTyped'
    BY <1>1, <1>10, CollectTyped DEF Blocked
  <2>2. /\ UNCHANGED <<finished, fut, armed, cancelled>> /\ drain[d] = "blocked"
        /\ d \in Closers => rounds[d] > 0
    BY <1>1, <1>10 DEF Blocked, RestTyped, BlockedHasRound
  <2>3. CASE drain' = [drain EXCEPT ![d] = "round"] /\ Spend(d) /\ GoesOn(d)
    BY <1>1, <1>2, <2>1, <2>2, <2>3, SpendTyped, DrainTyped
  <2>4. CASE Polled(d, FALSE) /\ UNCHANGED <<drain, rounds>>
    <3>1. drain' = [drain EXCEPT ![d] = "blocked"]
      BY <1>2, <2>2, <2>4
    <3>2. QED
      BY <1>1, <1>2, <2>1, <2>2, <2>4, <3>1, DrainTyped
  <2>5. QED
    BY <1>10, <2>3, <2>4 DEF Blocked
<1>11. CASE Waiting(d)
  <2>1. GuestTyped'
    BY <1>1, <1>11 DEF Waiting, guest, GuestTyped
  <2>2. drain' = [drain EXCEPT ![d] = "waiting"]
    BY <1>2, <1>11 DEF Waiting
  <2>3. QED
    BY <1>1, <1>2, <1>11, <2>1, <2>2, DrainTyped DEF Waiting
<1>12. CASE EndClose(d)
  <2>1. GuestTyped'
    <3>1. CASE /\ py' = [c \in Coroutines |-> IF c \in Unfinished THEN "closed" ELSE py[c]]
               /\ driver' = FALSE
               /\ call' = [k \in Calls |-> IF call[k] \in {"pending", "ready"}
                                           THEN "dropped" ELSE call[k]]
               /\ waker' = [k \in Calls |-> NoTask]
               /\ UNCHANGED left
      BY <1>1, <1>12, <3>1 DEF EndClose, GuestTyped, PyStates, CallStates
    <3>2. CASE /\ \E S \in SUBSET Unfinished :
                      left' = [c \in Coroutines |-> IF c \in S THEN 0 ELSE left[c]]
               /\ UNCHANGED <<driver, py, call, waker>>
      BY <1>1, <1>12, <3>2, DriverAssumption DEF EndClose, GuestTyped
    <3>3. QED
      BY <1>12, <3>1, <3>2 DEF EndClose
  <2>2. QED
    BY <1>1, <1>12, <2>1, StopTyped DEF EndClose
<1>13. QED
  BY <1>4, <1>5, <1>6, <1>7, <1>8, <1>9, <1>10, <1>11, <1>12 DEF PollDrain

\* What the executor, the host and time do between the polls.
LEMMA WorldTyped ==
    ASSUME TInv,
           \/ \E t \in Tasks : PollTask(t)
           \/ \E c \in Coroutines : DropFuture(c) \/ Elapse(c)
           \/ \E d \in Drains : CallClose(d)
           \/ \E k \in Calls : Complete(k)
           \/ \E p \in Pollers : TimerFires(p)
           \/ Advance \/ Cancel \/ UNCHANGED vars
    PROVE  GuestTyped' /\ RestTyped'
<1>1. GuestTyped /\ RestTyped /\ NoTask \in Tasks \union {NoTask}
  BY TInvParts
<1>2. ASSUME NEW t \in Tasks, PollTask(t) PROVE GuestTyped' /\ RestTyped'
  BY <1>1, <1>2 DEF PollTask, guest, GuestTyped, RestTyped, ExecutorTyped, DrainsTyped,
                    BlockedHasRound
<1>3. ASSUME NEW c \in Coroutines, DropFuture(c) PROVE GuestTyped' /\ RestTyped'
  BY <1>1, <1>3 DEF DropFuture, guest, GuestTyped, RestTyped, ExecutorTyped, DrainsTyped,
                    BlockedHasRound
<1>4. ASSUME NEW c \in Coroutines, Elapse(c) PROVE GuestTyped' /\ RestTyped'
  <2>1. py' \in [Coroutines -> PyStates]
    BY <1>1, <1>4 DEF Elapse, GuestTyped, PyStates
  <2>2. QED
    BY <1>1, <1>4, <2>1 DEF Elapse, GuestTyped, RestTyped, ExecutorTyped, DrainsTyped,
                            BlockedHasRound
<1>5. ASSUME NEW d \in Drains, CallClose(d) PROVE GuestTyped' /\ RestTyped'
  <2>1. woken \union {TaskOf[d]} \subseteq Tasks
    BY <1>1, PollerFacts DEF RestTyped, ExecutorTyped
  <2>2. drain' \in [Drains -> DrainStates] /\ BlockedHasRound'
    BY <1>1, <1>5, PollerFacts DEF CallClose, RestTyped, DrainsTyped, DrainStates,
                                   BlockedHasRound
  <2>3. QED
    BY <1>1, <1>5, <2>1, <2>2 DEF CallClose, guest, GuestTyped, RestTyped, ExecutorTyped,
                                  DrainsTyped
<1>6. ASSUME NEW k \in Calls, Complete(k) PROVE GuestTyped' /\ RestTyped'
  <2>1. waker[k] = NoTask \/ woken \union {waker[k]} \subseteq Tasks
    BY <1>1 DEF GuestTyped, RestTyped, ExecutorTyped
  <2>2. QED
    BY <1>1, <1>6, <2>1 DEF Complete, guest, GuestTyped, RestTyped, ExecutorTyped,
                            DrainsTyped, BlockedHasRound
<1>7. ASSUME NEW p \in Pollers, TimerFires(p) PROVE GuestTyped' /\ RestTyped'
  <2>1. woken \union {TaskOf[p]} \subseteq Tasks
    BY <1>1, PollerFacts DEF RestTyped, ExecutorTyped
  <2>2. QED
    BY <1>1, <1>7, <2>1 DEF TimerFires, guest, GuestTyped, RestTyped, ExecutorTyped,
                            DrainsTyped, BlockedHasRound
<1>8. ASSUME Advance PROVE GuestTyped' /\ RestTyped'
  <2>1. driver' = TRUE /\ UNCHANGED <<finished, fut, drain, rounds, armed, woken, todo, turn, cancelled>>
    BY <1>8 DEF Advance
  <2>2. RestTyped'
    BY <1>1, <2>1 DEF RestTyped, ExecutorTyped, DrainsTyped, BlockedHasRound
  <2>3. CASE PublishFails(NoTask)
    BY <1>1, <2>1, <2>2, <2>3, FailTyped
  <2>4. CASE \E mv \in Runs(RunnableAfter(Batch)) : Pass(NoTask, RunnableAfter(Batch), mv)
    <3>1. \E mv \in Runs(RunnableAfter(Batch) \union {}) :
             Pass(NoTask, RunnableAfter(Batch) \union {}, mv)
      BY <2>4
    <3>2. QED
      BY <1>1, <2>1, <2>2, <3>1, RunsTyped
  <2>5. QED
    BY <1>8, <2>3, <2>4 DEF Advance
<1>9. ASSUME Cancel PROVE GuestTyped' /\ RestTyped'
  BY <1>1, <1>9 DEF Cancel, guest, GuestTyped, RestTyped, ExecutorTyped, DrainsTyped,
                    BlockedHasRound
<1>10. ASSUME UNCHANGED vars PROVE GuestTyped' /\ RestTyped'
  BY <1>1, <1>10 DEF vars, GuestTyped, RestTyped, ExecutorTyped, DrainsTyped, BlockedHasRound
<1>11. QED
  BY <1>2, <1>3, <1>4, <1>5, <1>6, <1>7, <1>8, <1>9, <1>10

LEMMA StepTyped == TInv /\ [Next]_vars => TInv'
<1>1. SUFFICES ASSUME TInv, [Next]_vars PROVE GuestTyped' /\ RestTyped'
  BY TInvParts, Parts DEF TInv, RestTyped, TypeOK, GuestTyped, ExecutorTyped, DrainsTyped,
                          PyStates, CallStates, DrainStates
<1>2. QED
  BY <1>1, PollFutureTyped, PollDrainTyped, WorldTyped DEF Next

LEMMA InitTyped == Init => TInv
<1>1. SUFFICES ASSUME Init PROVE GuestTyped /\ RestTyped
  BY TInvParts
<1>2. GuestTyped
  <2>1. MaxMoves \in 0 .. MaxMoves
    BY DriverAssumption
  <2>2. left \in [Coroutines -> 0 .. MaxMoves]
    BY <1>1, <2>1 DEF Init
  <2>3. QED
    BY <1>1, <2>2 DEF Init, GuestTyped, PyStates, CallStates
<1>3. ExecutorTyped
  BY <1>1, PollerFacts DEF Init, ExecutorTyped
<1>4. DrainsTyped
  BY <1>1, DriverAssumption DEF Init, DrainsTyped, DrainStates
<1>5. BlockedHasRound
  BY <1>1, PollerFacts DEF Init, BlockedHasRound
<1>6. QED
  BY <1>2, <1>3, <1>4, <1>5 DEF RestTyped

LEMMA Typing == Spec => []TInv
BY InitTyped, StepTyped, PTL DEF Spec

\* Whatever tasks, drains, drops, faults and signals meet, the state stays what the code
\* can hold: a task is in one of its states, and a close never spends more rounds than its
\* budget has.
THEOREM TypeCorrect == Spec => []TypeOK
<1>1. TInv => TypeOK
  BY DEF TInv
<1>2. QED
  BY <1>1, Typing, PTL

-----------------------------------------------------------------------------
(* What is over stays over.                                                *)

\* The six things a step may do to the tasks and their host calls.
KeepsTasks == UNCHANGED <<py, on, call>>

Collects ==
    /\ UNCHANGED <<py, on>>
    /\ call' = [k \in Calls |-> IF k \in Batch THEN "ready" ELSE call[k]]

RunsTasks ==
    \E running \in SUBSET Coroutines : \E mv \in Runs(running) : \E w :
        /\ RunnableAfter(Batch) \subseteq running
        /\ \A c \in running : py[c] \notin {"done", "closed"}
        /\ Pass(w, running, mv)

FailsToPublish == \E w : PublishFails(w)

WakesTasks ==
    /\ UNCHANGED call
    /\ \A c \in Coroutines :
           \/ py'[c] = py[c] /\ (on'[c] = on[c] \/ py[c] # "waiting")
           \/ py'[c] \in {"runnable", "due"} /\ py[c] \in {"waiting", "sleeping", "due"}

EndsTasks ==
    /\ Closers # {}
    /\ \A c \in Coroutines : IF py[c] \in {"none", "done", "closed"} THEN py'[c] = py[c]
                                                                      ELSE py'[c] = "closed"
    /\ call' = [k \in Calls |-> IF call[k] \in {"pending", "ready"} THEN "dropped" ELSE call[k]]

LEMMA FutureSteps ==
    ASSUME TInv, NEW c \in Coroutines, PollFuture(c)
    PROVE  KeepsTasks \/ Collects \/ RunsTasks \/ FailsToPublish
<1>1. CASE PollRefused(c)
  BY <1>1 DEF PollRefused, guest, KeepsTasks
<1>2. CASE PollAborted(c)
  BY <1>2 DEF PollAborted, Collects
<1>3. CASE PollFails(c)
  BY <1>3 DEF PollFails, FailsToPublish
<1>4. CASE Poll(c)
  <2> DEFINE running == RunnableAfter(Batch) \union (IF py[c] = "none" THEN {c} ELSE {})
  <2>1. PICK mv \in Runs(running) : Pass(TaskOf[c], running, mv)
    BY <1>4 DEF Poll
  <2>2. /\ running \in SUBSET Coroutines /\ RunnableAfter(Batch) \subseteq running
        /\ \A q \in running : py[q] \notin {"done", "closed"}
    BY DEF RunnableAfter
  <2>3. QED
    BY <2>1, <2>2 DEF RunsTasks
<1>5. QED
  BY <1>1, <1>2, <1>3, <1>4 DEF PollFuture

LEMMA RoundSteps ==
    ASSUME NEW w, \E mv \in Runs(RunnableAfter(Batch)) : Pass(w, RunnableAfter(Batch), mv)
    PROVE  RunsTasks
<1>1. /\ RunnableAfter(Batch) \in SUBSET Coroutines
      /\ \A q \in RunnableAfter(Batch) : py[q] \notin {"done", "closed"}
  BY DEF RunnableAfter
<1>2. QED
  BY <1>1 DEF RunsTasks

LEMMA DrainSteps ==
    ASSUME TInv, NEW d \in Drains, PollDrain(d)
    PROVE  KeepsTasks \/ Collects \/ RunsTasks \/ FailsToPublish \/ WakesTasks \/ EndsTasks
<1>1. CASE StartDrain(d) \/ DriverGone(d) \/ Enough(d) \/ Waiting(d)
  BY <1>1 DEF StartDrain, DriverGone, Enough, Waiting, guest, KeepsTasks
<1>2. CASE StartClose(d)
  <2>1. /\ UNCHANGED call
        /\ py' = [c \in Coroutines |->
                    IF py[c] \in {"waiting", "sleeping", "due"} THEN "runnable" ELSE py[c]]
    BY <1>2 DEF StartClose
  <2>2. QED
    BY <2>1 DEF WakesTasks
<1>3. CASE RoundFails(d)
  BY <1>3 DEF RoundFails, guest, KeepsTasks, FailsToPublish
<1>4. CASE Round(d)
  BY <1>4, RoundSteps DEF Round
<1>5. CASE Blocked(d)
  BY <1>5 DEF Blocked, Collects
<1>6. CASE EndClose(d)
  <2>1. CASE UNCHANGED <<driver, py, call, waker>>
    BY <1>6, <2>1 DEF EndClose, KeepsTasks
  <2>2. CASE /\ py' = [c \in Coroutines |-> IF c \in Unfinished THEN "closed" ELSE py[c]]
             /\ call' = [k \in Calls |-> IF call[k] \in {"pending", "ready"}
                                         THEN "dropped" ELSE call[k]]
    BY <1>6, <2>2 DEF EndClose, EndsTasks, Unfinished
  <2>3. QED
    BY <1>6, <2>1, <2>2 DEF EndClose
<1>7. QED
  BY <1>1, <1>2, <1>3, <1>4, <1>5, <1>6 DEF PollDrain

LEMMA TaskSteps ==
    ASSUME TInv, [Next]_vars
    PROVE  KeepsTasks \/ Collects \/ RunsTasks \/ FailsToPublish \/ WakesTasks \/ EndsTasks
<1>1. ASSUME NEW t \in Tasks, PollTask(t) PROVE KeepsTasks
  BY <1>1 DEF PollTask, guest, KeepsTasks
<1>2. ASSUME NEW c \in Coroutines, DropFuture(c) PROVE KeepsTasks
  BY <1>2 DEF DropFuture, guest, KeepsTasks
<1>3. ASSUME NEW c \in Coroutines, Elapse(c) PROVE WakesTasks
  <2>1. py \in [Coroutines -> PyStates] /\ UNCHANGED <<on, call>>
    BY <1>3, TInvParts DEF Elapse, GuestTyped
  <2>2. \A q \in Coroutines : py'[q] = py[q] \/ (py'[q] = "due" /\ py[q] = "sleeping")
    BY <1>3, <2>1 DEF Elapse
  <2>3. QED
    BY <2>1, <2>2 DEF WakesTasks
<1>4. ASSUME NEW d \in Drains, CallClose(d) PROVE KeepsTasks
  BY <1>4 DEF CallClose, guest, KeepsTasks
<1>5. ASSUME NEW k \in Calls, Complete(k) PROVE KeepsTasks
  BY <1>5 DEF Complete, guest, KeepsTasks
<1>6. ASSUME NEW p \in Pollers, TimerFires(p) PROVE KeepsTasks
  BY <1>6 DEF TimerFires, guest, KeepsTasks
<1>7. CASE Advance
  BY <1>7, RoundSteps DEF Advance, FailsToPublish
<1>8. CASE Cancel \/ UNCHANGED vars
  BY <1>8 DEF Cancel, guest, vars, KeepsTasks
<1>9. QED
  BY <1>1, <1>2, <1>3, <1>4, <1>5, <1>6, <1>7, <1>8, FutureSteps, DrainSteps DEF Next

\* What is left of the poll under way can still be polled.
TodoIsLive == \A p \in todo : Live(p)

\* No step revives a future, a drain, a task or a host call that is over.
OverStaysOver ==
    /\ \A c \in Coroutines : /\ fut[c] \in {"ready", "dropped"} => fut'[c] = fut[c]
                             /\ py[c] \in {"done", "closed"} => py'[c] = py[c]
    /\ \A d \in Drains : drain[d] \in {"done", "panicked"} => drain'[d] = drain[d]
    /\ \A k \in Calls : /\ call[k] \in {"settled", "dropped"} => call'[k] = call[k]
                        /\ call[k] = "ready" => call'[k] # "pending"

LEMMA TasksStayOver ==
    ASSUME TInv, [Next]_vars
    PROVE  /\ \A c \in Coroutines : py[c] \in {"done", "closed"} => py'[c] = py[c]
           /\ \A k \in Calls : /\ call[k] \in {"settled", "dropped"} => call'[k] = call[k]
                               /\ call[k] = "ready" => call'[k] # "pending"
<1>1. GuestTyped
  BY TInvParts
<1>2. CASE KeepsTasks
  BY <1>2 DEF KeepsTasks
<1>3. CASE Collects
  BY <1>1, <1>3, BatchFacts DEF Collects
<1>4. CASE RunsTasks
  <2>0. PICK running \in SUBSET Coroutines :
            /\ \A c \in running : py[c] \notin {"done", "closed"}
            /\ \E mv \in Runs(running) : \E w : Pass(w, running, mv)
    BY <1>4 DEF RunsTasks
  <2>a. PICK mv \in Runs(running) : \E w : Pass(w, running, mv)
    BY <2>0
  <2>1. PICK w : Pass(w, running, mv)
    BY <2>a
  <2>2. /\ \A c \in Coroutines \ running : py'[c] = py[c]
        /\ \A k \in Batch : call'[k] = "settled"
        /\ \A k \in Calls \ Batch : call'[k] = call[k] \/ (call'[k] = "pending" /\ call[k] = "unused")
    BY <1>1, <2>1, PassFacts
  <2>3. QED
    BY <1>1, <2>0, <2>2, BatchFacts
<1>5. CASE FailsToPublish
  <2>1. PICK w : PublishFails(w)
    BY <1>5 DEF FailsToPublish
  <2>2. /\ \A c \in Coroutines : py'[c] = py[c] \/ py[c] = "waiting"
        /\ call' = [k \in Calls |-> IF k \in Batch THEN "settled" ELSE call[k]]
    BY <1>1, <2>1, FailFacts
  <2>3. QED
    BY <1>1, <2>2, BatchFacts
<1>6. CASE WakesTasks
  BY <1>6 DEF WakesTasks
<1>7. CASE EndsTasks
  BY <1>7 DEF EndsTasks
<1>8. QED
  BY <1>2, <1>3, <1>4, <1>5, <1>6, <1>7, TaskSteps

\* What a poll of a drain does to the executor and the driver.  CountsOn says that the
\* drain's next poll takes the driver out of its slot.
CountsOn(d) ==
    \/ drain[d] \in {"round", "blocked", "end"}
    \/ d \in Closers /\ drain[d] = "start"

LEMMA DrainPolled ==
    ASSUME TInv, NEW d \in Drains, PollDrain(d)
    PROVE  /\ d \in todo
           /\ UNCHANGED fut
           /\ \E to \in DrainStates : drain' = [drain EXCEPT ![d] = to]
           /\ todo' = todo \ {d} \/ (todo' = todo /\ drain'[d] \in {"round", "end"})
           /\ drain'[d] = "panicked" => ~driver /\ CountsOn(d)
           /\ \/ driver'
              \/ ~driver /\ (CountsOn(d)' => CountsOn(d))
              \/ d \in Closers /\ drain'[d] = "done"
<1> DEFINE Goal == /\ d \in todo
                   /\ UNCHANGED fut
                   /\ \E to \in DrainStates : drain' = [drain EXCEPT ![d] = to]
                   /\ todo' = todo \ {d} \/ (todo' = todo /\ drain'[d] \in {"round", "end"})
                   /\ drain'[d] = "panicked" => ~driver /\ CountsOn(d)
                   /\ \/ driver'
                      \/ ~driver /\ (CountsOn(d)' => CountsOn(d))
                      \/ d \in Closers /\ drain'[d] = "done"
<1>1. /\ drain \in [Drains -> DrainStates] /\ drain = [drain EXCEPT ![d] = drain[d]]
      /\ driver \in BOOLEAN
      /\ drain[d] \in DrainStates
      /\ {"start", "round", "blocked", "waiting", "end", "done", "panicked"} \subseteq DrainStates
  BY TInvParts DEF RestTyped, DrainsTyped, GuestTyped, DrainStates
<1>2. ASSUME NEW to, drain' = [drain EXCEPT ![d] = to] PROVE drain'[d] = to
  BY <1>1, <1>2
<1>3. CASE StartDrain(d)
  <2>1. CASE Stop(d, "done") /\ UNCHANGED driver
    BY <1>1, <1>2, <1>3, <2>1 DEF StartDrain, Turn, Stop, Polled, CountsOn
  <2>2. CASE driver' = TRUE /\ drain' = [drain EXCEPT ![d] = "round"] /\ GoesOn(d)
    BY <1>1, <1>2, <1>3, <2>2 DEF StartDrain, Turn, GoesOn
  <2>3. QED
    BY <1>3, <2>1, <2>2 DEF StartDrain
<1>4. CASE StartClose(d)
  BY <1>1, <1>2, <1>4 DEF StartClose, Turn, GoesOn
<1>5. CASE DriverGone(d)
  BY <1>1, <1>2, <1>5 DEF DriverGone, Turn, Stop, Polled, CountsOn, guest
<1>6. CASE Enough(d)
  BY <1>1, <1>2, <1>6 DEF Enough, Turn, GoesOn, CountsOn, guest
<1>7. CASE RoundFails(d)
  <2>1. UNCHANGED driver
    BY <1>7 DEF RoundFails, guest
  <2>2. QED
    BY <1>1, <1>2, <1>7, <2>1 DEF RoundFails, Turn, Stop, Polled, CountsOn
<1>8. CASE Round(d)
  <2>1. driver' = TRUE /\ d \in todo /\ UNCHANGED fut
    BY <1>1, <1>8 DEF Round, Turn
  <2>2. CASE Stop(d, "done")
    BY <1>1, <1>2, <2>1, <2>2 DEF Stop, Polled
  <2>3. CASE drain' = [drain EXCEPT ![d] = "end"] /\ GoesOn(d)
    BY <1>1, <1>2, <2>1, <2>3 DEF GoesOn
  <2>4. CASE Polled(d, TRUE) /\ UNCHANGED drain
    <3>1. drain[d] = "round"
      BY <1>8 DEF Round
    <3>2. QED
      BY <1>1, <1>2, <2>1, <2>4, <3>1 DEF Polled
  <2>5. CASE drain' = [drain EXCEPT ![d] = "blocked"] /\ Polled(d, FALSE)
    BY <1>1, <1>2, <2>1, <2>5 DEF Polled
  <2>6. CASE drain' = [drain EXCEPT ![d] = "waiting"] /\ Polled(d, FALSE)
    BY <1>1, <1>2, <2>1, <2>6 DEF Polled
  <2>7. QED
    BY <1>8, <2>2, <2>3, <2>4, <2>5, <2>6 DEF Round
<1>9. CASE Blocked(d)
  <2>1. driver' = TRUE /\ d \in todo /\ UNCHANGED fut /\ drain[d] = "blocked"
    BY <1>1, <1>9 DEF Blocked, Turn
  <2>2. CASE drain' = [drain EXCEPT ![d] = "round"] /\ GoesOn(d)
    BY <1>1, <1>2, <2>1, <2>2 DEF GoesOn
  <2>3. CASE Polled(d, FALSE) /\ UNCHANGED drain
    BY <1>1, <1>2, <2>1, <2>3 DEF Polled
  <2>4. QED
    BY <1>9, <2>2, <2>3 DEF Blocked
<1>10. CASE Waiting(d)
  BY <1>1, <1>2, <1>10 DEF Waiting, Turn, Polled, CountsOn, guest
<1>11. CASE EndClose(d)
  BY <1>1, <1>2, <1>11 DEF EndClose, Turn, Stop, Polled
<1>12. QED
  BY <1>3, <1>4, <1>5, <1>6, <1>7, <1>8, <1>9, <1>10, <1>11 DEF PollDrain

\* What a poll of a future does.
LEMMA FuturePolled ==
    ASSUME TInv, NEW c \in Coroutines, PollFuture(c)
    PROVE  /\ c \in todo
           /\ UNCHANGED drain
           /\ \E to \in {"pending", "ready"} : fut' = [fut EXCEPT ![c] = to]
           /\ todo' = todo \ {c}
           /\ UNCHANGED driver \/ driver'
<1>1. /\ c \in todo /\ UNCHANGED drain
      /\ Resolve(c) \/ \E progress : Suspend(c, progress)
  BY DEF PollFuture, PollRefused, PollAborted, PollFails, Poll, Turn
<1>2. UNCHANGED driver \/ driver' = TRUE
  BY DEF PollFuture, PollRefused, PollAborted, PollFails, Poll, guest
<1>3. QED
  BY <1>1, <1>2 DEF Resolve, Suspend, Polled

\* What the other steps do to the futures and drains.
LEMMA OtherSteps ==
    ASSUME TInv,
           \/ \E t \in Tasks : PollTask(t)
           \/ \E c \in Coroutines : DropFuture(c) \/ Elapse(c)
           \/ \E d \in Drains : CallClose(d)
           \/ \E k \in Calls : Complete(k)
           \/ \E p \in Pollers : TimerFires(p)
           \/ Advance \/ Cancel \/ UNCHANGED vars
    PROVE  /\ UNCHANGED driver \/ driver'
           /\ \/ UNCHANGED <<fut, drain>> /\ (UNCHANGED todo \/ \A p \in todo' : p \in Pollers /\ Live(p))
              \/ /\ todo' = {} /\ UNCHANGED drain
                 /\ \E c \in Coroutines : fut[c] = "pending" /\ fut' = [fut EXCEPT ![c] = "dropped"]
              \/ /\ todo' = {} /\ UNCHANGED fut
                 /\ driver
                 /\ \E d \in Drains : drain[d] = "idle" /\ drain' = [drain EXCEPT ![d] = "start"]
<1> DEFINE Calm == UNCHANGED <<fut, drain>> /\ (UNCHANGED todo \/ \A p \in todo' : p \in Pollers /\ Live(p))
           Drops == /\ todo' = {} /\ UNCHANGED drain
                    /\ \E c \in Coroutines : fut[c] = "pending" /\ fut' = [fut EXCEPT ![c] = "dropped"]
           Closes == /\ todo' = {} /\ UNCHANGED fut
                     /\ driver
                     /\ \E d \in Drains : drain[d] = "idle" /\ drain' = [drain EXCEPT ![d] = "start"]
           Kept == UNCHANGED driver \/ driver'
<1>1. ASSUME NEW t \in Tasks, PollTask(t) PROVE Kept /\ Calm
  BY <1>1 DEF PollTask, guest
<1>2. ASSUME NEW c \in Coroutines, DropFuture(c) PROVE Kept /\ Drops
  BY <1>2 DEF DropFuture, guest
<1>3. ASSUME NEW c \in Coroutines, Elapse(c) PROVE Kept /\ Calm
  BY <1>3 DEF Elapse
<1>4. ASSUME NEW d \in Drains, CallClose(d) PROVE Kept /\ Closes
  BY <1>4 DEF CallClose, guest
<1>5. ASSUME NEW k \in Calls, Complete(k) PROVE Kept /\ Calm
  BY <1>5 DEF Complete, guest
<1>6. ASSUME NEW p \in Pollers, TimerFires(p) PROVE Kept /\ Calm
  BY <1>6 DEF TimerFires, guest
<1>7. CASE Advance
  BY <1>7 DEF Advance
<1>8. CASE Cancel \/ UNCHANGED vars
  BY <1>8 DEF Cancel, guest, vars
<1>9. QED
  BY <1>1, <1>2, <1>3, <1>4, <1>5, <1>6, <1>7, <1>8

\* A drain finds its driver gone, or is about to, only once a close that is not its own has
\* returned.
GoneOnlyAfterClose ==
    \A d \in Drains :
        (drain[d] = "panicked" \/ (~driver /\ CountsOn(d)))
        => \E x \in Closers \ {d} : drain[x] = "done"

LInv == TInv /\ TodoIsLive /\ GoneOnlyAfterClose

LEMMA StepLive ==
    ASSUME LInv, [Next]_vars
    PROVE  /\ TodoIsLive'
           /\ \A c \in Coroutines : fut[c] \in {"ready", "dropped"} => fut'[c] = fut[c]
           /\ \A d \in Drains : drain[d] \in {"done", "panicked"} => drain'[d] = drain[d]
           /\ GoneOnlyAfterClose'
<1>1. /\ fut \in [Coroutines -> {"idle", "pending", "ready", "dropped"}]
      /\ drain \in [Drains -> DrainStates]
      /\ todo \subseteq Pollers
      /\ driver \in BOOLEAN
      /\ \A p \in todo : Live(p)
      /\ TInv
  BY TInvParts DEF LInv, GuestTyped, RestTyped, ExecutorTyped, DrainsTyped, TodoIsLive
<1>2. /\ Closers \subseteq Drains /\ Coroutines \intersect Drains = {}
      /\ Pollers = Coroutines \union Drains
  BY DriverAssumption DEF Pollers
<1>3. CASE \E c \in Coroutines : PollFuture(c)
  <2>1. PICK c \in Coroutines : PollFuture(c)
    BY <1>3
  <2>2. /\ c \in todo /\ UNCHANGED drain /\ todo' = todo \ {c}
        /\ UNCHANGED driver \/ driver'
    BY <1>1, <2>1, FuturePolled
  <2>3. PICK to \in {"pending", "ready"} : fut' = [fut EXCEPT ![c] = to]
    BY <1>1, <2>1, FuturePolled
  <2>4. TodoIsLive'
    BY <1>1, <1>2, <2>2, <2>3 DEF TodoIsLive, Live
  <2>5. GoneOnlyAfterClose'
    BY <1>1, <2>2 DEF LInv, GoneOnlyAfterClose, CountsOn
  <2>6. fut[c] \notin {"ready", "dropped"}
    BY <1>1, <2>2 DEF Live
  <2>7. QED
    BY <1>1, <2>2, <2>3, <2>4, <2>5, <2>6
<1>4. CASE \E d \in Drains : PollDrain(d)
  <2>1. PICK d \in Drains : PollDrain(d)
    BY <1>4
  <2>2. /\ d \in todo /\ UNCHANGED fut
        /\ todo' = todo \ {d} \/ (todo' = todo /\ drain'[d] \in {"round", "end"})
        /\ drain'[d] = "panicked" => ~driver /\ CountsOn(d)
        /\ \/ driver'
           \/ ~driver /\ (CountsOn(d)' => CountsOn(d))
           \/ d \in Closers /\ drain'[d] = "done"
    BY <1>1, <2>1, DrainPolled
  <2>3. PICK to \in DrainStates : drain' = [drain EXCEPT ![d] = to]
    BY <1>1, <2>1, DrainPolled
  <2>4. drain'[d] = to /\ \A x \in Drains \ {d} : drain'[x] = drain[x]
    BY <1>1, <2>3
  <2>5. drain[d] \notin {"done", "panicked"}
    BY <1>1, <1>2, <2>2 DEF Live
  <2>6. ASSUME NEW p \in todo' PROVE Live(p)'
    BY <1>1, <1>2, <2>2, <2>4 DEF Live
  <2>7. ASSUME NEW x \in Drains, drain'[x] = "panicked" \/ (~driver' /\ CountsOn(x)')
        PROVE  \E y \in Closers \ {x} : drain'[y] = "done"
    <3>1. ASSUME NEW y \in Closers, drain[y] = "done" PROVE drain'[y] = "done"
      BY <1>2, <2>4, <2>5, <3>1
    <3>2. CASE drain[x] = "panicked" \/ (~driver /\ CountsOn(x))
      BY <3>1, <3>2 DEF LInv, GoneOnlyAfterClose
    <3>3. CASE drain[x] # "panicked" /\ ~(~driver /\ CountsOn(x))
      <4>1. drain'[x] # "panicked"
        BY <2>2, <2>4, <3>3
      <4>2. ~driver' /\ CountsOn(x)'
        BY <2>7, <4>1
      <4>3. CASE x = d
        <5>1. drain'[d] \in {"round", "blocked", "end", "start"}
          BY <4>2, <4>3 DEF CountsOn
        <5>2. QED
          BY <2>2, <3>3, <4>2, <4>3, <5>1
      <4>4. CASE x # d
        <5>1. CountsOn(x)
          BY <2>4, <4>2, <4>4 DEF CountsOn
        <5>2. d \in Closers /\ drain'[d] = "done"
          BY <2>2, <3>3, <4>2, <5>1
        <5>3. QED
          BY <4>4, <5>2
      <4>5. QED
        BY <4>3, <4>4
    <3>4. QED
      BY <3>2, <3>3
  <2>8. QED
    BY <2>2, <2>4, <2>5, <2>6, <2>7 DEF TodoIsLive, GoneOnlyAfterClose
<1>5. CASE \/ \E t \in Tasks : PollTask(t)
           \/ \E c \in Coroutines : DropFuture(c) \/ Elapse(c)
           \/ \E d \in Drains : CallClose(d)
           \/ \E k \in Calls : Complete(k)
           \/ \E p \in Pollers : TimerFires(p)
           \/ Advance \/ Cancel \/ UNCHANGED vars
  <2>1. UNCHANGED driver \/ driver'
    BY <1>1, <1>5, OtherSteps
  <2>2. CASE UNCHANGED <<fut, drain>> /\ (UNCHANGED todo \/ \A p \in todo' : p \in Pollers /\ Live(p))
    BY <1>1, <1>2, <2>1, <2>2 DEF LInv, TodoIsLive, Live, GoneOnlyAfterClose, CountsOn
  <2>3. CASE /\ todo' = {} /\ UNCHANGED drain
             /\ \E c \in Coroutines : fut[c] = "pending" /\ fut' = [fut EXCEPT ![c] = "dropped"]
    <3>1. TodoIsLive'
      BY <2>3 DEF TodoIsLive
    <3>2. GoneOnlyAfterClose'
      BY <1>1, <2>1, <2>3 DEF LInv, GoneOnlyAfterClose, CountsOn
    <3>3. QED
      BY <1>1, <2>3, <3>1, <3>2
  <2>4. CASE /\ todo' = {} /\ UNCHANGED fut
             /\ driver
             /\ \E d \in Drains : drain[d] = "idle" /\ drain' = [drain EXCEPT ![d] = "start"]
    <3>1. TodoIsLive'
      BY <2>4 DEF TodoIsLive
    <3>2. driver'
      BY <2>1, <2>4
    <3>3. PICK d \in Drains : drain[d] = "idle" /\ drain' = [drain EXCEPT ![d] = "start"]
      BY <2>4
    <3>4. /\ \A x \in Drains : drain'[x] = drain[x] \/ (drain[x] = "idle" /\ drain'[x] = "start")
      BY <1>1, <3>3
    <3>5. GoneOnlyAfterClose'
      BY <1>2, <3>2, <3>4 DEF LInv, GoneOnlyAfterClose
    <3>6. QED
      BY <2>4, <3>1, <3>4, <3>5
  <2>5. QED
    BY <1>1, <1>5, <2>2, <2>3, <2>4, OtherSteps
<1>6. QED
  BY <1>3, <1>4, <1>5 DEF Next

LEMMA InitLive == Init => TodoIsLive /\ GoneOnlyAfterClose
<1>1. SUFFICES ASSUME Init PROVE TodoIsLive /\ GoneOnlyAfterClose
  OBVIOUS
<1>2. \A d \in Drains : drain[d] = (IF d \in Closers THEN "idle" ELSE "start")
  BY <1>1 DEF Init
<1>3. QED
  BY <1>1, <1>2 DEF Init, TodoIsLive, GoneOnlyAfterClose, CountsOn

LEMMA PollingIsLive == Spec => []LInv
<1>1. Init => LInv
  BY InitTyped, InitLive DEF LInv
<1>2. LInv /\ [Next]_vars => LInv'
  BY StepTyped, StepLive DEF LInv
<1>3. QED
  BY <1>1, <1>2, PTL DEF Spec

\* A future that was resolved or dropped, a task that ended or was closed, a drain that
\* returned and a host call that was delivered or thrown away stay so, and what poll_all has
\* collected is never polled again: nothing that is left in a task's poll, or comes in late,
\* brings it back (driver/host_futures.rs, publish; driver/coroutine.rs, poll).
THEOREM Finality == Spec => [][OverStaysOver]_vars
<1>1. LInv /\ [Next]_vars => OverStaysOver
  BY StepLive, TasksStayOver DEF LInv, OverStaysOver
<1>2. LInv /\ [Next]_vars => [OverStaysOver]_vars
  BY <1>1
<1>3. QED
  BY <1>2, PollingIsLive, PTL DEF Spec

\* Two awaits of a drain that count on the driver being in its slot are only let down by a
\* close: no await, no other drain, no drop and no signal takes the driver away
\* (guest/mod.rs, ActiveAsyncDriver::close).
THEOREM DriverGoneAfterClose == Spec => []GoneOnlyAfterClose
<1>1. LInv => GoneOnlyAfterClose
  BY DEF LInv
<1>2. QED
  BY <1>1, PollingIsLive, PTL

-----------------------------------------------------------------------------
(* What a waiting task waits for.                                          *)

\* A task waits for a call the driver holds, unless a result that does not convert has
\* taken the completions behind it along.
HeldUnlessFault ==
    \A c \in Coroutines :
        py[c] = "waiting"
        => /\ on[c] \in Calls
           /\ call[on[c]] \in {"pending", "ready"} \/ \E k \in Faulty : call[k] = "settled"

LEMMA StepHeld ==
    ASSUME TInv, HeldUnlessFault, [Next]_vars
    PROVE  HeldUnlessFault'
<1>1. GuestTyped /\ Faulty \subseteq Calls
  BY TInvParts, DriverAssumption
<1>2. \A k \in Calls : call[k] = "settled" => call'[k] = "settled"
  BY TasksStayOver
<1>3. CASE KeepsTasks
  BY <1>3 DEF KeepsTasks, HeldUnlessFault
<1>4. CASE Collects
  BY <1>1, <1>2, <1>4 DEF Collects, HeldUnlessFault
<1>5. CASE RunsTasks
  <2>0. PICK running \in SUBSET Coroutines :
            /\ RunnableAfter(Batch) \subseteq running
            /\ \E mv \in Runs(running) : \E w : Pass(w, running, mv)
    BY <1>5 DEF RunsTasks
  <2>a. PICK mv \in Runs(running) : \E w : Pass(w, running, mv)
    BY <2>0
  <2>1. PICK w : Pass(w, running, mv)
    BY <2>a
  <2>2. /\ \A c \in Coroutines \ running : py'[c] = py[c] /\ on'[c] = on[c]
        /\ \A c \in running : py'[c] = "waiting" => on'[c] \in Calls /\ call'[on'[c]] = "pending"
        /\ \A k \in Calls \ Batch : call'[k] = call[k] \/ call'[k] = "pending"
    BY <1>1, <2>1, PassFacts
  <2>3. ASSUME NEW c \in Coroutines \ running, py[c] = "waiting"
        PROVE  /\ on'[c] \in Calls
               /\ call'[on'[c]] \in {"pending", "ready"} \/ \E k \in Faulty : call'[k] = "settled"
    <3>1. /\ on[c] \in Calls /\ on[c] \notin Batch
          /\ call[on[c]] \in {"pending", "ready"} \/ \E k \in Faulty : call[k] = "settled"
      BY <2>0, <2>3 DEF RunnableAfter, HeldUnlessFault
    <3>2. QED
      BY <1>1, <1>2, <2>2, <3>1
  <2>4. QED
    BY <2>2, <2>3 DEF HeldUnlessFault
<1>6. CASE FailsToPublish
  <2>1. PICK w : PublishFails(w)
    BY <1>6 DEF FailsToPublish
  <2>2. /\ \A c \in Coroutines : py'[c] = "waiting" => py[c] = "waiting" /\ on'[c] = on[c]
        /\ \E k \in Faulty : k \in Batch
        /\ call' = [k \in Calls |-> IF k \in Batch THEN "settled" ELSE call[k]]
    BY <1>1, <2>1, FailFacts
  <2>3. \E k \in Faulty : call'[k] = "settled"
    BY <1>1, <2>2
  <2>4. QED
    BY <2>2, <2>3 DEF HeldUnlessFault
<1>7. CASE WakesTasks
  BY <1>7 DEF WakesTasks, HeldUnlessFault
<1>8. CASE EndsTasks
  BY <1>8 DEF EndsTasks, HeldUnlessFault
<1>9. QED
  BY <1>3, <1>4, <1>5, <1>6, <1>7, <1>8, TaskSteps

\* A task that awaits a host call awaits one the driver still holds, whatever drains, closes,
\* drops and signals come between; only a publish that a bad result has cut short leaves a
\* task waiting for a completion that is gone (driver/host_futures.rs, publish).
THEOREM Held == Spec => []HeldUnlessFault
<1>1. Init => HeldUnlessFault
  BY DEF Init, HeldUnlessFault
<1>2. TInv /\ HeldUnlessFault /\ [Next]_vars => HeldUnlessFault'
  BY StepHeld
<1>3. QED
  BY <1>1, <1>2, Typing, PTL DEF Spec

\* The host drains the driver with nothing but one call of close.
CloseAlone == \A x \in Closers : Drains = {x}

\* Where every result converts and a close shares its driver with no other drain, what the
\* others count on is there: no await and no drain panics on a missing driver, and no task
\* waits for a host call that is gone (guest/mod.rs, ActiveAsyncDriver::close).
THEOREM DriverIsHeld ==
    ASSUME CloseAlone, Faulty = {}
    PROVE  Spec => []DriverHolds
<1>1. LInv => DriverStays
  <2>1. SUFFICES ASSUME GoneOnlyAfterClose, NEW d \in Drains, drain[d] = "panicked"
                 PROVE  FALSE
    BY DEF LInv, DriverStays
  <2>2. PICK x \in Closers \ {d} : drain[x] = "done"
    BY <2>1 DEF GoneOnlyAfterClose
  <2>3. QED
    BY <2>1, <2>2, CloseAlone DEF CloseAlone
<1>2. HeldUnlessFault => WaitingIsHeld
  BY Faulty = {} DEF HeldUnlessFault, WaitingIsHeld
<1>3. QED
  BY <1>1, <1>2, PollingIsLive, Held, PTL DEF DriverHolds

-----------------------------------------------------------------------------
(* Whose waker is where.                                                   *)

\* One executor task polls everything, nothing is closed, Guest::advance is not called and
\* every result converts.  Each is needed: without any of them a pending future can be left
\* with a waker that is not its own.
Undisturbed ==
    /\ \A p, q \in Pollers : TaskOf[p] = TaskOf[q]
    /\ Closers = {}
    /\ ~Advances
    /\ Faulty = {}

\* Something that polls q again is on its way.
Due(q) == q \in todo \/ TaskOf[q] \in woken \/ q \in armed

\* Nothing in the loop can run before a host future that holds t's waker has its outcome.
QuietAt(q, t) ==
    \/ py[q] \in {"none", "done"}
    \/ /\ py[q] = "waiting"
       /\ on[q] \in Pending \ finished
       /\ waker[on[q]] = t

Quiet(t) == \A q \in Coroutines : QuietAt(q, t)

Parked(q) == py[q] = "waiting" /\ Quiet(TaskOf[q])

DueOrParked == \A q \in Coroutines : fut[q] = "pending" => Due(q) \/ Parked(q)

NothingClosed == \A q \in Coroutines : py[q] # "closed"

PInv == DueOrParked /\ NothingClosed

\* In a quiet loop no callback is ready and nobody sleeps.
LEMMA QuietRunsNothing ==
    ASSUME TInv, NEW t, Quiet(t)
    PROVE  RunnableAfter(Batch) = {} /\ \A q \in Coroutines : py[q] # "sleeping"
BY TInvParts, BatchFacts DEF Quiet, QuietAt, RunnableAfter

\* A task that poll_all leaves waiting, and that does not run, holds the waker poll_all
\* was given.
LEMMA LeftQuiet ==
    ASSUME TInv, NEW t \in Tasks \union {NoTask}, waker' = Leave(t), UNCHANGED finished,
           \A k \in Pending \ finished : call'[k] = call[k],
           NEW q \in Coroutines, py'[q] = py[q], on'[q] = on[q],
           py[q] \in {"none", "done"} \/ (py[q] = "waiting" /\ on[q] \in Pending \ finished)
    PROVE  QuietAt(q, t)'
<1>1. CASE py[q] \in {"none", "done"}
  BY <1>1 DEF QuietAt
<1>2. CASE py[q] = "waiting" /\ on[q] \in Pending \ finished
  <2>1. waker'[on[q]] = t
    BY TInvParts, LeaveFacts, <1>2
  <2>2. on[q] \in Calls /\ call'[on[q]] = "pending" /\ on[q] \notin finished'
    BY <1>2 DEF Pending
  <2>3. QED
    BY <1>2, <2>1, <2>2 DEF QuietAt, Pending
<1>3. QED
  BY <1>1, <1>2

\* A round in which nothing runs and nobody sleeps leaves everyone parked.
LEMMA RoundLeavesQuiet ==
    ASSUME TInv, HeldUnlessFault, NothingClosed, Faulty = {},
           NEW running \in SUBSET Coroutines, RunnableAfter(Batch) \subseteq running,
           NEW mv \in Runs(running), NEW t \in Tasks, Pass(t, running, mv),
           UNCHANGED finished,
           \A q \in running : py'[q] = "done",
           \A q \in Coroutines : py[q] # "sleeping"
    PROVE  Quiet(t)'
<1>1. /\ GuestTyped
      /\ \A q \in Coroutines \ running : py'[q] = py[q] /\ on'[q] = on[q]
      /\ \A k \in Calls \ Batch : call'[k] = call[k] \/ (call'[k] = "pending" /\ call[k] = "unused")
      /\ waker' = Leave(t)
  BY TInvParts, PassFacts
<1>2. \A k \in Pending \ finished : call'[k] = call[k]
  BY <1>1, BatchFacts DEF Pending
<1>3. ASSUME NEW q \in Coroutines \ running PROVE QuietAt(q, t)'
  <2>1. py[q] \in {"none", "done", "waiting"}
    BY <1>1, Faulty = {} DEF GuestTyped, PyStates, RunnableAfter, NothingClosed
  <2>2. py[q] = "waiting" => on[q] \in Calls /\ on[q] \notin Batch /\ call[on[q]] \in {"pending", "ready"}
    BY Faulty = {} DEF RunnableAfter, HeldUnlessFault
  <2>3. py[q] = "waiting" => on[q] \in Pending \ finished
    BY <1>1, <2>2, BatchFacts
  <2>4. QED
    BY <1>1, <1>2, <2>1, <2>3, LeftQuiet
<1>4. QED
  BY <1>3 DEF Quiet, QuietAt

\* poll_all alone disturbs nobody who is parked.
LEMMA CollectLeavesQuiet ==
    ASSUME TInv, NEW t \in Tasks, Quiet(t), Collects, waker' = Leave(t), UNCHANGED finished
    PROVE  Quiet(t)'
<1>1. GuestTyped /\ \A k \in Pending \ finished : call'[k] = call[k]
  BY TInvParts, BatchFacts DEF Collects, Pending
<1>2. \A q \in Coroutines : py'[q] = py[q] /\ on'[q] = on[q]
  BY DEF Collects
<1>3. QED
  BY <1>1, <1>2, LeftQuiet DEF Quiet, QuietAt

LEMMA SameIsQuiet ==
    ASSUME NEW t, Quiet(t), UNCHANGED <<py, on, call, waker, finished>>
    PROVE  Quiet(t)'
BY DEF Quiet, QuietAt, Pending

\* A poll of a drain, or a timer or a call that is dropped, takes no due coroutine's turn.
LEMMA DueStays ==
    ASSUME NEW p, NEW q, q # p, Due(q), todo \ {p} \subseteq todo', woken \subseteq woken',
           armed \ {p} \subseteq armed'
    PROVE  Due(q)'
BY DEF Due

LEMMA FutureParks ==
    ASSUME Undisturbed, TInv, TodoIsLive, HeldUnlessFault, PInv,
           NEW c \in Coroutines, PollFuture(c)
    PROVE  DueOrParked'
<1>1. /\ GuestTyped /\ RestTyped /\ TaskOf[c] \in Tasks
      /\ \A q \in Coroutines : TaskOf[q] = TaskOf[c]
      /\ fut \in [Coroutines -> {"idle", "pending", "ready", "dropped"}]
      /\ Faulty = {} /\ NothingClosed
  BY TInvParts, PollerFacts DEF Undisturbed, RestTyped, ExecutorTyped, PInv
<1> DEFINE t == TaskOf[c]
<1>2. /\ todo' = todo \ {c}
      /\ \A q \in Coroutines \ {c} : fut'[q] = fut[q]
      /\ woken \subseteq woken' /\ armed \ {c} \subseteq armed' /\ UNCHANGED finished
      /\ Resolve(c) \/ \E progress : Suspend(c, progress)
  <2>1. /\ Resolve(c) \/ \E progress : Suspend(c, progress)
        /\ UNCHANGED finished
    BY DEF PollFuture, PollRefused, PollAborted, PollFails, Poll
  <2>2. QED
    BY <1>1, <2>1 DEF Resolve, Suspend, Polled
\* whoever was due is so still, and whoever was parked shares one quiet loop
<1>3. ASSUME NEW q \in Coroutines \ {c}, fut'[q] = "pending"
      PROVE  Due(q)' \/ (py[q] = "waiting" /\ Quiet(t))
  <2>1. Due(q) \/ (py[q] = "waiting" /\ Quiet(t))
    BY <1>1, <1>2, <1>3 DEF PInv, DueOrParked, Parked
  <2>2. QED
    BY <1>2, <2>1, DueStays
<1>4. CASE Resolve(c) /\ UNCHANGED <<py, on, call, waker>>
  <2>1. fut'[c] # "pending"
    BY <1>1, <1>4 DEF Resolve
  <2>2. Quiet(t) => Quiet(t)'
    BY <1>2, <1>4, SameIsQuiet
  <2>3. QED
    BY <1>1, <1>3, <1>4, <2>1, <2>2 DEF DueOrParked, Parked
<1>5. CASE PollAborted(c)
  <2>1. fut'[c] # "pending"
    BY <1>1, <1>5 DEF PollAborted, Resolve
  <2>2. Collects /\ waker' = Leave(t)
    BY <1>5 DEF PollAborted, Collects
  <2>3. Quiet(t) => Quiet(t)'
    BY <1>1, <1>2, <2>2, CollectLeavesQuiet
  <2>4. UNCHANGED py
    BY <2>2 DEF Collects
  <2>5. QED
    BY <1>1, <1>3, <2>1, <2>3, <2>4 DEF DueOrParked, Parked
<1>6. CASE Poll(c)
  <2> DEFINE running == RunnableAfter(Batch) \union (IF py[c] = "none" THEN {c} ELSE {})
  <2>1. PICK mv \in Runs(running) : Pass(t, running, mv)
    BY <1>6 DEF Poll
  <2>2. running \in SUBSET Coroutines /\ RunnableAfter(Batch) \subseteq running
    BY DEF RunnableAfter
  <2>3. IF py'[c] = "done" THEN Resolve(c) ELSE Suspend(c, Progress(running))
    BY <1>6 DEF Poll
  <2>4. \A q \in Coroutines \ running : py'[q] = py[q] /\ on'[q] = on[q]
    BY <1>1, <2>1, <2>2, PassFacts
  <2> HIDE DEF running
  <2>5. CASE py'[c] = "done"
    <3>1. fut'[c] # "pending"
      BY <1>1, <2>3, <2>5 DEF Resolve
    <3>2. ASSUME NEW q \in Coroutines \ {c}, fut'[q] = "pending", py[q] = "waiting", Quiet(t)
          PROVE  Parked(q)'
      <4>1. /\ RunnableAfter(Batch) = {} /\ \A r \in Coroutines : py[r] # "sleeping"
        BY <3>2, QuietRunsNothing
      <4>2. running \subseteq {c}
        BY <4>1 DEF running
      <4>3. Quiet(t)'
        BY <1>1, <1>2, <2>1, <2>2, <2>5, <4>1, <4>2, RoundLeavesQuiet
      <4>4. py'[q] = "waiting"
        BY <2>4, <3>2, <4>2
      <4>5. QED
        BY <1>1, <4>3, <4>4 DEF Parked
    <3>3. QED
      BY <1>3, <3>1, <3>2 DEF DueOrParked
  <2>6. CASE py'[c] # "done" /\ running # {}
    <3>1. Suspend(c, "ready")
      BY <2>3, <2>6 DEF Progress
    <3>2. t \in woken'
      BY <3>1 DEF Suspend, Polled
    <3>3. QED
      BY <1>1, <3>2 DEF DueOrParked, Due
  <2>7. CASE py'[c] # "done" /\ running = {} /\ \E q \in Coroutines : py[q] = "sleeping"
    <3>1. Suspend(c, "waiting")
      BY <2>3, <2>7 DEF Progress
    <3>2. c \in armed'
      BY <3>1 DEF Suspend
    <3>3. ~Quiet(t)
      BY <2>7, QuietRunsNothing
    <3>4. QED
      BY <1>3, <3>2, <3>3 DEF DueOrParked, Due
  <2>8. CASE py'[c] # "done" /\ running = {} /\ \A q \in Coroutines : py[q] # "sleeping"
    <3>1. Quiet(t)'
      BY <1>1, <1>2, <2>1, <2>2, <2>8, RoundLeavesQuiet
    <3>2. py[c] # "none" /\ py'[c] = py[c]
      BY <2>4, <2>8 DEF running
    <3>3. py'[c] = "waiting"
      BY <2>8, <3>1, <3>2 DEF Quiet, QuietAt
    <3>4. \A q \in Coroutines : py[q] = "waiting" => py'[q] = "waiting"
      BY <2>4, <2>8
    <3>5. QED
      BY <1>1, <1>3, <3>1, <3>3, <3>4 DEF DueOrParked, Parked
  <2>9. QED
    BY <2>5, <2>6, <2>7, <2>8
<1>7. CASE PollRefused(c)
  BY <1>4, <1>7 DEF PollRefused, guest
<1>8. CASE PollFails(c)
  BY <1>1, <1>8, FailFacts DEF PollFails
<1>9. QED
  BY <1>5, <1>6, <1>7, <1>8 DEF PollFuture

LEMMA DrainParks ==
    ASSUME Undisturbed, TInv, TodoIsLive, HeldUnlessFault, PInv,
           NEW d \in Drains, PollDrain(d)
    PROVE  DueOrParked'
<1>1. /\ GuestTyped /\ RestTyped /\ TaskOf[d] \in Tasks
      /\ \A q \in Coroutines : TaskOf[q] = TaskOf[d]
      /\ Faulty = {} /\ NothingClosed /\ d \notin Closers /\ d \notin Coroutines
      /\ UNCHANGED fut
  BY TInvParts, PollerFacts, DrainPolled, DriverAssumption DEF Undisturbed, PInv
<1> DEFINE t == TaskOf[d]
<1>2. /\ todo \ {d} \subseteq todo' /\ woken \subseteq woken'
      /\ armed \ {d} \subseteq armed' /\ UNCHANGED finished
  BY DEF PollDrain, StartDrain, StartClose, DriverGone, Enough, RoundFails, Round, Blocked,
         Waiting, EndClose, Stop, Polled, GoesOn
<1>3. ASSUME NEW q \in Coroutines, fut'[q] = "pending"
      PROVE  Due(q)' \/ (py[q] = "waiting" /\ Quiet(t))
  <2>1. Due(q) \/ (py[q] = "waiting" /\ Quiet(t))
    BY <1>1, <1>3 DEF PInv, DueOrParked, Parked
  <2>2. QED
    BY <1>1, <1>2, <2>1, DueStays
<1>4. CASE UNCHANGED <<py, on, call, waker>>
  <2>1. Quiet(t) => Quiet(t)'
    BY <1>2, <1>4, SameIsQuiet
  <2>2. QED
    BY <1>1, <1>3, <1>4, <2>1 DEF DueOrParked, Parked
<1>5. CASE StartDrain(d) \/ DriverGone(d) \/ Waiting(d)
  BY <1>4, <1>5 DEF StartDrain, DriverGone, Waiting, guest
<1>6. CASE StartClose(d) \/ Enough(d) \/ EndClose(d)
  BY <1>1, <1>6 DEF StartClose, Enough, OutOfBudget, EndClose
<1>7. CASE RoundFails(d)
  <2>1. ~PublishFails(NoTask)
    BY <1>1, FailFacts
  <2>2. QED
    BY <1>4, <1>7, <2>1 DEF RoundFails, guest
<1>8. CASE Round(d)
  <2> DEFINE running == RunnableAfter(Batch)
             progress == Progress(running)
             w == IF progress = "blocked" THEN t ELSE NoTask
  <2>1. PICK mv \in Runs(running) : Pass(w, running, mv)
    BY <1>8 DEF Round
  <2>2. running \in SUBSET Coroutines /\ w \in Tasks \union {NoTask}
    BY <1>1 DEF RunnableAfter
  <2>3. \A q \in Coroutines \ running : py'[q] = py[q] /\ on'[q] = on[q]
    BY <1>1, <2>1, <2>2, PassFacts
  <2>4. CASE running # {}
    <3>1. Polled(d, TRUE)
      BY <1>8, <2>4 DEF Round, Progress
    <3>2. QED
      BY <1>1, <3>1 DEF Polled, DueOrParked, Due
  <2>5. CASE Quiet(t)
    <3>1. running = {} /\ \A q \in Coroutines : py[q] # "sleeping"
      BY <2>5, QuietRunsNothing
    <3>2. CASE Pending \ finished = {}
      <4>1. \A q \in Coroutines : py[q] # "waiting"
        BY <2>5, <3>2 DEF Quiet, QuietAt
      <4>2. QED
        BY <1>3, <4>1 DEF DueOrParked
    <3>3. CASE Pending \ finished # {}
      <4>1. Pass(t, running, mv)
        BY <2>1, <3>1, <3>3 DEF Progress
      <4>2. Quiet(t)'
        BY <1>1, <1>2, <2>1, <2>2, <3>1, <4>1, RoundLeavesQuiet
      <4>3. QED
        BY <1>1, <1>3, <2>3, <3>1, <4>2 DEF DueOrParked, Parked
    <3>4. QED
      BY <3>2, <3>3
  <2>6. CASE ~Quiet(t)
    BY <1>3, <2>6 DEF DueOrParked
  <2>7. QED
    BY <2>5, <2>6
<1>9. CASE Blocked(d)
  <2>1. Collects /\ waker' = Leave(t)
    BY <1>9 DEF Blocked, Collects
  <2>2. Quiet(t) => Quiet(t)'
    BY <1>1, <1>2, <2>1, CollectLeavesQuiet
  <2>3. UNCHANGED py
    BY <2>1 DEF Collects
  <2>4. QED
    BY <1>1, <1>3, <2>2, <2>3 DEF DueOrParked, Parked
<1>10. QED
  BY <1>5, <1>6, <1>7, <1>8, <1>9 DEF PollDrain

LEMMA WorldParks ==
    ASSUME Undisturbed, TInv, TodoIsLive, HeldUnlessFault, PInv,
           \/ \E t \in Tasks : PollTask(t)
           \/ \E c \in Coroutines : DropFuture(c) \/ Elapse(c)
           \/ \E d \in Drains : CallClose(d)
           \/ \E k \in Calls : Complete(k)
           \/ \E p \in Pollers : TimerFires(p)
           \/ Advance \/ Cancel \/ UNCHANGED vars
    PROVE  DueOrParked'
<1>1. /\ GuestTyped
      /\ fut \in [Coroutines -> {"idle", "pending", "ready", "dropped"}]
      /\ \A p, q \in Pollers : TaskOf[p] = TaskOf[q]
      /\ Coroutines \subseteq Pollers
      /\ \A q \in Coroutines : TaskOf[q] \in Tasks
      /\ NoTask \notin Tasks
      /\ \A q \in Coroutines : fut[q] = "pending" => Due(q) \/ Parked(q)
  BY TInvParts, PollerFacts, DriverAssumption DEF Undisturbed, RestTyped, ExecutorTyped, PInv,
                                                 DueOrParked
<1>2. ASSUME NEW t \in Tasks, PollTask(t) PROVE DueOrParked'
  <2>1. UNCHANGED <<py, on, call, waker, finished, fut, armed>>
    BY <1>2 DEF PollTask, guest
  <2>2. ASSUME NEW q \in Coroutines, fut[q] = "pending", Due(q) PROVE Due(q)'
    BY <1>1, <1>2, <2>1, <2>2 DEF PollTask, Due, Live
  <2>3. ASSUME NEW q \in Coroutines, Parked(q) PROVE Parked(q)'
    BY <2>1, <2>3, SameIsQuiet DEF Parked
  <2>4. QED
    BY <1>1, <2>1, <2>2, <2>3 DEF DueOrParked
<1>3. ASSUME NEW c \in Coroutines, DropFuture(c) PROVE DueOrParked'
  <2>1. /\ UNCHANGED <<py, on, call, waker, finished, todo, woken>> /\ armed' = armed \ {c}
        /\ fut' = [fut EXCEPT ![c] = "dropped"]
    BY <1>3 DEF DropFuture, guest
  <2>2. \A q \in Coroutines : fut'[q] = "pending" => q # c /\ fut[q] = "pending"
    BY <1>1, <2>1
  <2>3. ASSUME NEW q \in Coroutines, Parked(q) PROVE Parked(q)'
    BY <2>1, <2>3, SameIsQuiet DEF Parked
  <2>4. ASSUME NEW q \in Coroutines \ {c}, Due(q) PROVE Due(q)'
    BY <2>1, <2>4, DueStays
  <2>5. QED
    BY <1>1, <2>2, <2>3, <2>4 DEF DueOrParked
<1>4. ASSUME NEW c \in Coroutines, Elapse(c) PROVE DueOrParked'
  <2>1. UNCHANGED <<fut, armed, todo, woken>> /\ py[c] = "sleeping"
    BY <1>4 DEF Elapse
  <2>2. \A q \in Coroutines : ~Parked(q)
    BY <2>1, QuietRunsNothing DEF Parked
  <2>3. QED
    BY <1>1, <2>1, <2>2 DEF DueOrParked, Due
<1>5. ASSUME NEW d \in Drains, CallClose(d) PROVE DueOrParked'
  <2>1. UNCHANGED <<py, on, call, waker, finished, fut, armed, todo>> /\ woken \subseteq woken'
    BY <1>5 DEF CallClose, guest
  <2>2. ASSUME NEW q \in Coroutines, Parked(q) PROVE Parked(q)'
    BY <2>1, <2>2, SameIsQuiet DEF Parked
  <2>3. QED
    BY <1>1, <2>1, <2>2 DEF DueOrParked, Due
<1>6. ASSUME NEW k \in Calls, Complete(k) PROVE DueOrParked'
  <2>1. /\ UNCHANGED <<py, on, call, waker, fut, armed, todo>> /\ woken \subseteq woken'
        /\ finished' = finished \union {k}
        /\ waker[k] # NoTask => waker[k] \in woken'
    BY <1>6 DEF Complete, guest
  <2>2. ASSUME NEW q \in Coroutines, Parked(q), ~Parked(q)' PROVE Due(q)'
    <3>1. PICK r \in Coroutines : ~QuietAt(r, TaskOf[q])'
      BY <2>1, <2>2 DEF Parked, Quiet
    <3>2. QuietAt(r, TaskOf[q])
      BY <2>2 DEF Parked, Quiet
    <3>3. on[r] = k /\ waker[k] = TaskOf[q]
      BY <2>1, <3>1, <3>2 DEF QuietAt, Pending
    <3>4. QED
      BY <1>1, <2>1, <3>3 DEF Due
  <2>3. QED
    BY <1>1, <2>1, <2>2 DEF DueOrParked, Due
<1>7. ASSUME NEW p \in Pollers, TimerFires(p) PROVE DueOrParked'
  BY <1>1, <1>7 DEF TimerFires, DueOrParked, Due
<1>8. CASE Advance
  BY <1>8 DEF Advance, Undisturbed
<1>9. CASE Cancel \/ UNCHANGED vars
  <2>1. UNCHANGED <<py, on, call, waker, finished, fut, armed, todo, woken>>
    BY <1>9 DEF Cancel, guest, vars
  <2>2. ASSUME NEW q \in Coroutines, Parked(q) PROVE Parked(q)'
    BY <2>1, <2>2, SameIsQuiet DEF Parked
  <2>3. QED
    BY <1>1, <2>1, <2>2 DEF DueOrParked, Due
<1>10. QED
  BY <1>2, <1>3, <1>4, <1>5, <1>6, <1>7, <1>8, <1>9

\* Without a close no task is closed.
LEMMA NothingCloses ==
    ASSUME Closers = {}, TInv, NothingClosed, [Next]_vars
    PROVE  NothingClosed'
<1>1. GuestTyped
  BY TInvParts
<1>2. CASE KeepsTasks \/ Collects
  BY <1>2 DEF KeepsTasks, Collects, NothingClosed
<1>3. CASE RunsTasks
  <2>0. PICK running \in SUBSET Coroutines : \E mv \in Runs(running) : \E w : Pass(w, running, mv)
    BY <1>3 DEF RunsTasks
  <2>a. PICK mv \in Runs(running) : \E w : Pass(w, running, mv)
    BY <2>0
  <2>1. PICK w : Pass(w, running, mv)
    BY <2>a
  <2>2. QED
    BY <1>1, <2>1, PassFacts DEF NothingClosed
<1>4. CASE FailsToPublish
  BY <1>1, <1>4, FailFacts DEF FailsToPublish, NothingClosed
<1>5. CASE WakesTasks
  BY <1>5 DEF WakesTasks, NothingClosed
<1>6. QED
  BY <1>2, <1>3, <1>4, <1>5, TaskSteps DEF EndsTasks

\* The wake-ups are never lost: while one executor task polls everything, a pending future is
\* either about to be polled, or waits for a host future that holds its task's waker and has
\* not fired (driver/coroutine.rs, CoroutineFuture::poll).
THEOREM WakersAreKept ==
    ASSUME Undisturbed
    PROVE  Spec => []ParkedIsRegistered
<1>1. Init => PInv
  BY DEF Init, PInv, DueOrParked, NothingClosed
<1>2. LInv /\ HeldUnlessFault /\ PInv /\ [Next]_vars => PInv'
  <2>1. SUFFICES ASSUME TInv, TodoIsLive, HeldUnlessFault, PInv, [Next]_vars
                 PROVE  DueOrParked' /\ NothingClosed'
    BY DEF LInv, PInv
  <2>2. NothingClosed'
    BY <2>1, Undisturbed, NothingCloses DEF Undisturbed, PInv
  <2>3. DueOrParked'
    BY <2>1, Undisturbed, FutureParks, DrainParks, WorldParks DEF Next
  <2>4. QED
    BY <2>2, <2>3
<1>3. PInv => ParkedIsRegistered
  BY DEF PInv, DueOrParked, Due, Parked, Quiet, QuietAt, ParkedIsRegistered
<1>4. QED
  BY <1>1, <1>2, <1>3, PollingIsLive, Held, PTL DEF Spec
=============================================================================
