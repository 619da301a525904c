------------------------------ MODULE Activation ------------------------------
(***************************************************************************)
(* Which guest is running, and under which deadline.                       *)
(*                                                                         *)
(* A runtime serves several guests on one thread.  Before guest code runs  *)
(* an ActiveGuest guard counts the guest one level deeper, arms the        *)
(* guest's deadline when it is the outermost level, and pushes the guest   *)
(* on a stack that the whole runtime shares.  The top of that stack is the *)
(* "innermost" guest: enter_with takes no guard for it, and the runtime's  *)
(* import dispatcher attributes imports to it.                             *)
(*                                                                         *)
(* Synchronous calls hold their guard on the Rust call stack, so theirs    *)
(* are dropped last in, first out.  A CoroutineFuture and a Guest::scope   *)
(* keep theirs in a future: it survives between polls and is dropped when  *)
(* the future is, in any order.                                            *)
(***************************************************************************)
EXTENDS Integers, Sequences, FiniteSets

CONSTANTS
    Guests,     \* the guests of one runtime
    NoGuest,    \* no guest is innermost
    Futures,    \* host futures that keep a guard from poll to poll
    NoFuture,   \* the frame polls no future
    GuestOf,    \* the guest each future works for
    Scopes,     \* the futures made by Guest::scope; the others are coroutines
    Budget,     \* each guest's timeout, or Unlimited
    Unlimited,
    ByExecutor, \* TRUE: only an executor polls and drops futures
    MaxFrames,  \* bound: nested host and guest calls
    MaxTime     \* bound: ticks of the clock

ASSUME GuestsAssumption ==
    /\ NoGuest \notin Guests
    /\ NoFuture \notin Futures
    /\ IsFiniteSet(Futures)
    /\ GuestOf \in [Futures -> Guests]
    /\ Scopes \subseteq Futures
    /\ Budget \in [Guests -> Nat \union {Unlimited}]
    /\ Unlimited \notin Nat
    /\ ByExecutor \in BOOLEAN
    /\ MaxFrames \in Nat
    /\ MaxTime \in Nat

VARIABLES
    active,     \* GuestRegistry::active, outermost guest first
    depth,      \* GuestActivity::depth of each guest
    deadline,   \* Deadline::at of each guest, Disarmed when there is none
    frames,     \* the Rust call stack: the calls into guests under way
    phase,      \* each future: not polled yet, pending, or ready but not dropped
    held,       \* the futures that hold a guard
    driven,     \* the guests whose async driver is initialised
    closed,     \* the guests that Guest::close has closed
    dropped,    \* the guests no handle refers to any more
    cancelled,  \* the shared cancellation signal
    now         \* the clock

vars == <<active, depth, deadline, frames, phase, held, driven, closed,
          dropped, cancelled, now>>

guards == <<active, depth, deadline>>

Disarmed == -1

Kinds == {"operation", "cleanup", "callback", "advance", "drain", "poll"}

Frame == [kind : Kinds, guest : Guests, owns : BOOLEAN,
          fut : Futures \union {NoFuture}]

TypeOK ==
    /\ active \in Seq(Guests)
    /\ depth \in [Guests -> Nat]
    /\ deadline \in [Guests -> Nat \union {Disarmed}]
    /\ frames \in Seq(Frame)
    /\ phase \in [Futures -> {"idle", "pending", "ready"}]
    /\ held \subseteq Futures
    /\ driven \subseteq Guests
    /\ closed \subseteq Guests
    /\ dropped \subseteq Guests
    /\ cancelled \in BOOLEAN
    /\ now \in Nat

Init ==
    /\ active = <<>>
    /\ depth = [g \in Guests |-> 0]
    /\ deadline = [g \in Guests |-> Disarmed]
    /\ frames = <<>>
    /\ phase = [f \in Futures |-> "idle"]
    /\ held = {}
    /\ driven = {}
    /\ closed = {}
    /\ dropped = {}
    /\ cancelled = FALSE
    /\ now = 0

-----------------------------------------------------------------------------
(* The guard and the policy it begins.                                     *)

\* The guest on top of the stack; a dropped one no longer upgrades.
Innermost ==
    IF active # <<>> /\ active[Len(active)] \notin dropped
    THEN active[Len(active)]
    ELSE NoGuest

Expired(g) == deadline[g] # Disarmed /\ now >= deadline[g]

ShouldAbort(g) == cancelled \/ Expired(g)

\* Slip: the signal is never asked.
MayBeginUnasked(g, activation) == TRUE

\* An outermost operation is refused once the signal is cancelled; a nested
\* one, and any cleanup, is let through.
MayBegin(g, activation) ==
    (depth[g] = 0 /\ activation = "operation") => ~cancelled

\* ActiveGuest::new, once the policy has let it begin.
Activate(g, activation) ==
    /\ depth' = [depth EXCEPT ![g] = @ + 1]
    /\ deadline' =
         IF /\ depth[g] = 0
            /\ activation = "operation"
            /\ Budget[g] # Unlimited
            /\ deadline[g] = Disarmed
         THEN [deadline EXCEPT ![g] = now + Budget[g]]
         ELSE deadline
    /\ active' = Append(active, g)

\* Slip in Drop: the deadline goes with the first guard dropped.
ReleaseDisarmed(g) ==
    /\ active' = SubSeq(active, 1, Len(active) - 1)
    /\ depth' = [depth EXCEPT ![g] = @ - 1]
    /\ deadline' = [deadline EXCEPT ![g] = Disarmed]

\* Drop for ActiveGuest: the entry popped is the top one, whoever pushed it.
Release(g) ==
    /\ active' = SubSeq(active, 1, Len(active) - 1)
    /\ depth' = [depth EXCEPT ![g] = @ - 1]
    /\ deadline' = IF depth[g] = 1
                   THEN [deadline EXCEPT ![g] = Disarmed]
                   ELSE deadline

-----------------------------------------------------------------------------
(* Calls into a guest, and their return.                                   *)

Room == Len(frames) < MaxFrames

Open(kind, g, owns, f) ==
    frames' = Append(frames, [kind |-> kind, guest |-> g, owns |-> owns,
                              fut |-> f])

Top == frames[Len(frames)]

PopFrame == frames' = SubSeq(frames, 1, Len(frames) - 1)

\* Slips: a guest that is active anywhere on the stack takes no guard, or
\* none does.
EnterWithActive(kind, activation, g) ==
    /\ Room
    /\ g \notin closed \union dropped
    /\ \/ /\ depth[g] > 0
          /\ Open(kind, g, FALSE, NoFuture)
          /\ UNCHANGED guards
       \/ /\ depth[g] = 0
          /\ MayBegin(g, activation)
          /\ Activate(g, activation)
          /\ Open(kind, g, TRUE, NoFuture)

EnterWithout(kind, activation, g) ==
    /\ Room
    /\ g \notin closed \union dropped
    /\ Open(kind, g, FALSE, NoFuture)
    /\ UNCHANGED guards

\* enter_with: no guard for the guest that is innermost already.
EnterWith(kind, activation, g) ==
    /\ Room
    /\ g \notin closed \union dropped
    /\ \/ /\ Innermost = g
          /\ Open(kind, g, FALSE, NoFuture)
          /\ UNCHANGED guards
       \/ /\ Innermost # g
          /\ MayBegin(g, activation)
          /\ Activate(g, activation)
          /\ Open(kind, g, TRUE, NoFuture)

\* exec, eval, import, load, a call through a handle: Guest::enter.
Enter(g) ==
    /\ EnterWith("operation", "operation", g)
    /\ UNCHANGED <<phase, held, driven, closed, dropped, cancelled, now>>

\* Guest::close clears the context; it refuses while there is a driver.
Close(g) ==
    /\ g \notin driven
    /\ EnterWith("cleanup", "cleanup", g)
    /\ UNCHANGED <<phase, held, driven, closed, dropped, cancelled, now>>

\* A host function bound to g is called by code that is already running.
Callback(g) ==
    /\ Room
    /\ frames # <<>>
    /\ g \notin dropped
    /\ MayBegin(g, "operation")
    /\ Activate(g, "operation")
    /\ Open("callback", g, TRUE, NoFuture)
    /\ UNCHANGED <<phase, held, driven, closed, dropped, cancelled, now>>

\* Guest::advance and each round of run_until_idle.  The call that makes the
\* driver looks at closed; a round takes its guard and polls host futures first.
Advance(g) ==
    /\ Room
    /\ g \notin dropped
    /\ g \in closed => g \in driven
    /\ MayBegin(g, "operation")
    /\ Activate(g, "operation")
    /\ Open("advance", g, TRUE, NoFuture)
    /\ driven' = driven \union {g}
    /\ UNCHANGED <<phase, held, closed, dropped, cancelled, now>>

\* ActiveAsyncDriver::close enters to cancel the tasks and to close their
\* coroutines, and between the two drives the loop in rounds of its own.
DrainPass(g) ==
    /\ g \in driven
    /\ EnterWith("drain", "cleanup", g)
    /\ UNCHANGED <<phase, held, driven, closed, dropped, cancelled, now>>

DrainRound(g) ==
    /\ Room
    /\ g \in driven \ dropped
    /\ Activate(g, "cleanup")
    /\ Open("drain", g, TRUE, NoFuture)
    /\ UNCHANGED <<phase, held, driven, closed, dropped, cancelled, now>>

\* The last step of ActiveAsyncDriver::close takes the driver away.
CloseDriver(g) ==
    /\ g \in driven \ dropped
    /\ driven' = driven \ {g}
    /\ UNCHANGED <<guards, frames, phase, held, closed, dropped, cancelled, now>>

\* Slip: a call that took no guard drops one.
ReleaseAlways(frame) == Release(frame.guest)

ReleaseIfOwned(frame) ==
    \/ frame.owns /\ Release(frame.guest)
    \/ ~frame.owns /\ UNCHANGED guards

\* The innermost call returns.  Guest::close marks the guest closed once its
\* context is cleared, and not when clearing failed.
Return ==
    /\ frames # <<>>
    /\ Top.kind # "poll"
    /\ PopFrame
    /\ ReleaseIfOwned(Top)
    /\ \/ UNCHANGED closed
       \/ /\ Top.kind = "cleanup"
          /\ closed' = closed \union {Top.guest}
    /\ UNCHANGED <<phase, held, driven, dropped, cancelled, now>>

-----------------------------------------------------------------------------
(* Futures that keep their guard.                                          *)

BeingPolled(f) == \E i \in DOMAIN frames : frames[i].fut = f

\* An executor touches futures between calls, or from the body of a scope;
\* any other code may poll or drop one in the middle of a call.
MayTouch == ByExecutor => \A i \in DOMAIN frames : frames[i].fut \in Scopes

MayPoll(f) ==
    /\ MayTouch
    /\ phase[f] # "ready"
    /\ ~BeingPolled(f)
    /\ GuestOf[f] \notin dropped

\* The first poll is refused: the future is ready and never had a guard.
PollRefused(f) ==
    /\ MayPoll(f)
    /\ f \notin held
    /\ \/ ~MayBegin(GuestOf[f], "operation")
       \/ f \in Scopes /\ GuestOf[f] \in closed
    /\ phase' = [phase EXCEPT ![f] = "ready"]
    /\ UNCHANGED <<guards, frames, held, driven, closed, dropped, cancelled, now>>

\* The first poll takes the guard.
Hold(f) ==
    \/ f \in held /\ UNCHANGED guards /\ UNCHANGED held
    \/ /\ f \notin held
       /\ MayBegin(GuestOf[f], "operation")
       /\ f \in Scopes => GuestOf[f] \notin closed
       /\ Activate(GuestOf[f], "operation")
       /\ held' = held \union {f}

\* CoroutineFuture::poll fails before any guest code runs; the guard stays
\* until the future is dropped.
PollAborted(f) ==
    /\ MayPoll(f)
    /\ f \notin Scopes
    /\ Hold(f)
    /\ UNCHANGED <<frames, driven, closed, dropped, cancelled, now>>
    /\ ShouldAbort(GuestOf[f])'
    /\ phase' = [phase EXCEPT ![f] = "ready"]

\* A poll that runs: guest code for a coroutine, host code for a scope.
Poll(f) ==
    /\ Room
    /\ MayPoll(f)
    /\ Hold(f)
    /\ UNCHANGED <<closed, dropped, cancelled, now>>
    /\ f \in Scopes \/ ~ShouldAbort(GuestOf[f])'
    /\ Open("poll", GuestOf[f], FALSE, f)
    /\ phase' = [phase EXCEPT ![f] = "pending"]
    /\ driven' = IF f \in Scopes THEN driven ELSE driven \union {GuestOf[f]}

\* The poll ends.  A finished scope drops its guard, which is a local of its
\* async body; a finished coroutine keeps it.
PollReturns ==
    /\ frames # <<>>
    /\ Top.kind = "poll"
    /\ PopFrame
    /\ \/ UNCHANGED <<phase, held, guards>>
       \/ /\ phase' = [phase EXCEPT ![Top.fut] = "ready"]
          /\ IF Top.fut \in Scopes
             THEN Release(Top.guest) /\ held' = held \ {Top.fut}
             ELSE UNCHANGED <<held, guards>>
    /\ UNCHANGED <<driven, closed, dropped, cancelled, now>>

\* The host drops the future, finished or not.
DropFuture(f) ==
    /\ MayTouch
    /\ phase[f] # "idle"
    /\ ~BeingPolled(f)
    /\ phase' = [phase EXCEPT ![f] = "idle"]
    /\ \/ f \in held /\ Release(GuestOf[f])
       \/ f \notin held /\ UNCHANGED guards
    /\ held' = held \ {f}
    /\ UNCHANGED <<frames, driven, closed, dropped, cancelled, now>>

-----------------------------------------------------------------------------
(* The environment.                                                        *)

Cancel ==
    /\ ~cancelled
    /\ cancelled' = TRUE
    /\ UNCHANGED <<guards, frames, phase, held, driven, closed, dropped, now>>

Tick ==
    /\ now < MaxTime
    /\ now' = now + 1
    /\ UNCHANGED <<guards, frames, phase, held, driven, closed, dropped, cancelled>>

\* The last handle of a guest that no call and no future refers to.
DropGuest(g) ==
    /\ g \notin dropped
    /\ \A i \in DOMAIN frames : frames[i].guest # g
    /\ \A f \in Futures : GuestOf[f] = g => phase[f] = "idle"
    /\ dropped' = dropped \union {g}
    /\ UNCHANGED <<guards, frames, phase, held, driven, closed, cancelled, now>>

Next ==
    \/ \E g \in Guests :
         \/ Enter(g) \/ Callback(g) \/ Close(g)
         \/ Advance(g) \/ DrainPass(g) \/ DrainRound(g) \/ CloseDriver(g)
         \/ DropGuest(g)
    \/ \E f \in Futures :
         \/ PollRefused(f) \/ PollAborted(f) \/ Poll(f) \/ DropFuture(f)
    \/ Return \/ PollReturns
    \/ Cancel \/ Tick

Spec == Init /\ [][Next]_vars

-----------------------------------------------------------------------------
(* Properties.                                                             *)

FrameGuards(g) == {i \in DOMAIN frames : frames[i].owns /\ frames[i].guest = g}

FutureGuards(g) == {f \in held : GuestOf[f] = g}

\* Every guard alive is counted once in its guest's depth and has one entry
\* on the stack, so neither "is balanced" expectation of Drop for ActiveGuest
\* can fail, whatever the order in which futures are dropped.
GuardsBalanced ==
    /\ \A g \in Guests :
         depth[g] = Cardinality(FrameGuards(g)) + Cardinality(FutureGuards(g))
    /\ Len(active) = Cardinality({i \in DOMAIN frames : frames[i].owns})
                       + Cardinality(held)

\* A deadline never outlives the activity it was armed for: a guest with no
\* guard has none, so the next operation starts with a budget of its own.
IdleIsDisarmed ==
    \A g \in Guests : depth[g] = 0 => deadline[g] = Disarmed

\* Nested operations, repolls and the end of inner guards leave an armed
\* deadline where it is; only the end of the outermost activity disarms it.
DeadlineStep ==
    \A g \in Guests :
        deadline[g] # Disarmed =>
          \/ deadline'[g] = deadline[g]
          \/ deadline'[g] = Disarmed /\ depth'[g] = 0

DeadlineKept == [][DeadlineStep]_vars

\* A poll runs on a guard its own future holds, from the first to the last.
PolledIsHeld ==
    \A i \in DOMAIN frames : frames[i].kind = "poll" =>
        /\ frames[i].fut \in held
        /\ depth[frames[i].guest] > 0

\* Guest code is running: everything but the host code of a scope.
RunsGuestCode == frames # <<>> /\ Top.fut \notin Scopes

\* The innermost guest is the one whose code runs, so the dispatcher, which
\* falls back to it, resolves an import with the running guest's bindings.
RunningIsInnermost == RunsGuestCode => Innermost = Top.guest

\* Code that runs in a guest runs under an activity of that guest, so its
\* policy was asked first and its deadline is counted.
RunningIsActive == RunsGuestCode => depth[Top.guest] > 0

\* A guest with a budget runs under a deadline in every operation that is not
\* part of its cleanup.
OperationsAreBudgeted ==
    \A i \in DOMAIN frames :
        \/ Budget[frames[i].guest] = Unlimited
        \/ deadline[frames[i].guest] # Disarmed
        \/ \E j \in 1..i : /\ frames[j].guest = frames[i].guest
                           /\ frames[j].kind \in {"cleanup", "drain"}

\* Once the signal is cancelled the host opens no operation from outside:
\* cleanup is all that still enters a guest.
CancelledAdmitsNothing ==
    [][(cancelled /\ frames = <<>> /\ frames' # <<>>) =>
         frames'[1].kind \in {"cleanup", "drain"}]_vars
=============================================================================
