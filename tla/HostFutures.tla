----------------------------- MODULE HostFutures -----------------------------
(***************************************************************************)
(* The host futures of one async driver.                                   *)
(*                                                                         *)
(* A call of an async host function registers its Rust future here beside  *)
(* the asyncio future the guest awaits.  poll_all moves the whole list out *)
(* and polls it, publish moves the outcomes out and settles the asyncio    *)
(* futures.  Polling a host future and converting an outcome run code that *)
(* may come back: register more futures, and poll and publish again while  *)
(* the outer list is moved out.  So the calls of poll_all and publish that *)
(* are under way form a stack, of which only the top one moves.            *)
(***************************************************************************)
EXTENDS Integers, Sequences, FiniteSets, SequencesExt

CONSTANTS
    MaxCalls,   \* bound: calls of async host functions
    MaxDepth,   \* bound: nested calls of poll_all and publish
    MaxDrivers  \* bound: drivers, one after the other

Calls == 1..MaxCalls

ASSUME HostFuturesAssumption ==
    /\ MaxCalls \in Nat
    /\ MaxDepth \in Nat
    /\ MaxDrivers \in Nat

VARIABLES
    entries,    \* PendingHostFutureState::entries
    polling,    \* PendingHostFutureState::polling
    ready,      \* PendingHostFutureState::ready
    frames,     \* the calls of poll_all and publish under way
    asyncio,    \* the asyncio future of each call, in the order they are made
    lost,       \* the calls whose future or outcome was dropped unpublished
    opened      \* the drivers so far

vars == <<entries, polling, ready, frames, asyncio, lost, opened>>

\* A batch: what is left to poll or publish, and what polling gave so far.
Frame == [kind : {"poll", "publish"}, todo : Seq(Calls),
          pending : Seq(Calls), ready : Seq(Calls)]

TypeOK ==
    /\ entries \in Seq(Calls)
    /\ polling \in Nat
    /\ ready \in Seq(Calls)
    /\ frames \in Seq(Frame)
    /\ asyncio \in [Calls -> {"none", "pending", "set", "cancelled"}]
    /\ lost \subseteq Calls
    /\ opened \in Nat

Init ==
    /\ entries = <<>>
    /\ polling = 0
    /\ ready = <<>>
    /\ frames = <<>>
    /\ asyncio = [k \in Calls |-> "none"]
    /\ lost = {}
    /\ opened = 1

-----------------------------------------------------------------------------

Batch(kind, todo) ==
    [kind |-> kind, todo |-> todo, pending |-> <<>>, ready |-> <<>>]

Top == frames[Len(frames)]

SetTop(frame) == frames' = [frames EXCEPT ![Len(frames)] = frame]

PopTop == frames' = Front(frames)

\* Code outside this module runs: no batch is under way, or the top one polls
\* or converts its head.
CodeRuns == frames # <<>> => Top.todo # <<>>

Room == Len(frames) < MaxDepth

-----------------------------------------------------------------------------
(* register.                                                               *)

Register(k) ==
    /\ CodeRuns
    /\ asyncio[k] = "none"
    /\ \A j \in Calls : j < k => asyncio[j] # "none"
    /\ asyncio' = [asyncio EXCEPT ![k] = "pending"]
    /\ entries' = Append(entries, k)
    /\ UNCHANGED <<polling, ready, frames, lost, opened>>

-----------------------------------------------------------------------------
(* poll_all.                                                               *)

\* Slip: the list that is moved out is not counted.
TakeUncounted ==
    /\ CodeRuns
    /\ Room
    /\ frames' = Append(frames, Batch("poll", entries))
    /\ entries' = <<>>
    /\ UNCHANGED <<polling, ready, asyncio, lost, opened>>

TakeEntries ==
    /\ CodeRuns
    /\ Room
    /\ frames' = Append(frames, Batch("poll", entries))
    /\ polling' = polling + Len(entries)
    /\ entries' = <<>>
    /\ UNCHANGED <<ready, asyncio, lost, opened>>

Polls == frames # <<>> /\ Top.kind = "poll" /\ Top.todo # <<>>

\* The head of the batch is pending, or has its outcome.
PollPending ==
    /\ Polls
    /\ SetTop([Top EXCEPT !.todo = Tail(@), !.pending = Append(@, Head(Top.todo))])
    /\ UNCHANGED <<entries, polling, ready, asyncio, lost, opened>>

PollReady ==
    /\ Polls
    /\ SetTop([Top EXCEPT !.todo = Tail(@), !.ready = Append(@, Head(Top.todo))])
    /\ UNCHANGED <<entries, polling, ready, asyncio, lost, opened>>

\* Slips: what was registered meanwhile is overwritten, or goes first.
SettleOver ==
    /\ frames # <<>> /\ Top.kind = "poll" /\ Top.todo = <<>>
    /\ polling' = polling - (Len(Top.pending) + Len(Top.ready))
    /\ entries' = Top.pending
    /\ ready' = ready \o Top.ready
    /\ PopTop
    /\ UNCHANGED <<asyncio, lost, opened>>

SettleBehind ==
    /\ frames # <<>> /\ Top.kind = "poll" /\ Top.todo = <<>>
    /\ polling' = polling - (Len(Top.pending) + Len(Top.ready))
    /\ entries' = entries \o Top.pending
    /\ ready' = ready \o Top.ready
    /\ PopTop
    /\ UNCHANGED <<asyncio, lost, opened>>

\* What was registered meanwhile stays queued behind the batch.
Settle ==
    /\ frames # <<>> /\ Top.kind = "poll" /\ Top.todo = <<>>
    /\ polling' = polling - (Len(Top.pending) + Len(Top.ready))
    /\ entries' = Top.pending \o entries
    /\ ready' = ready \o Top.ready
    /\ PopTop
    /\ UNCHANGED <<asyncio, lost, opened>>

-----------------------------------------------------------------------------
(* publish.                                                                *)

DrainReady ==
    /\ CodeRuns
    /\ Room
    /\ ready # <<>>
    /\ frames' = Append(frames, Batch("publish", ready))
    /\ ready' = <<>>
    /\ UNCHANGED <<entries, polling, asyncio, lost, opened>>

Publishes == frames # <<>> /\ Top.kind = "publish"

PublishHead ==
    /\ Publishes
    /\ Top.todo # <<>>
    /\ asyncio' = IF asyncio[Head(Top.todo)] = "cancelled" THEN asyncio
                  ELSE [asyncio EXCEPT ![Head(Top.todo)] = "set"]
    /\ SetTop([Top EXCEPT !.todo = Tail(@)])
    /\ UNCHANGED <<entries, polling, ready, lost, opened>>

\* The outcome does not convert, or the guest settled the asyncio future while
\* it was converted: publish returns, and the rest of its batch is dropped.
PublishFails ==
    /\ Publishes
    /\ Top.todo # <<>>
    /\ lost' = lost \union
                 {k \in ToSet(Top.todo) : asyncio[k] = "pending"}
    /\ PopTop
    /\ UNCHANGED <<entries, polling, ready, asyncio, opened>>

PublishEnds ==
    /\ Publishes
    /\ Top.todo = <<>>
    /\ PopTop
    /\ UNCHANGED <<entries, polling, ready, asyncio, lost, opened>>

-----------------------------------------------------------------------------
(* The guest, and close.                                                   *)

\* The guest cancels the task that awaits the call.
CancelCall(k) ==
    /\ CodeRuns
    /\ asyncio[k] = "pending"
    /\ asyncio' = [asyncio EXCEPT ![k] = "cancelled"]
    /\ UNCHANGED <<entries, polling, ready, frames, lost, opened>>

\* close drops the driver; the slot cannot be emptied while a batch is out,
\* because the caller of poll_all or publish borrows it.
DropDriver ==
    /\ opened < MaxDrivers
    /\ frames = <<>>
    /\ entries' = <<>>
    /\ polling' = 0
    /\ ready' = <<>>
    /\ lost' = lost \union {k \in ToSet(entries) \union ToSet(ready) :
                              asyncio[k] = "pending"}
    /\ opened' = opened + 1
    /\ UNCHANGED <<frames, asyncio>>

Next ==
    \/ \E k \in Calls : Register(k) \/ CancelCall(k)
    \/ TakeEntries \/ PollPending \/ PollReady \/ Settle
    \/ DrainReady \/ PublishHead \/ PublishFails \/ PublishEnds
    \/ DropDriver

Spec == Init /\ [][Next]_vars

-----------------------------------------------------------------------------
(* Properties.                                                             *)

PollFrames == {n \in DOMAIN frames : frames[n].kind = "poll"}

\* The futures of a batch that have no outcome, and all of them.
Unfinished(frame) ==
    IF frame.kind = "poll" THEN ToSet(frame.pending) \union ToSet(frame.todo) ELSE {}
Waiting == ToSet(entries) \union UNION {Unfinished(frames[n]) : n \in DOMAIN frames}

\* The outcomes of a batch that are not published, and all of them.
Outcomes(frame) == ToSet(IF frame.kind = "poll" THEN frame.ready ELSE frame.todo)
Completed == ToSet(ready) \union UNION {Outcomes(frames[n]) : n \in DOMAIN frames}

Increasing(s) == \A i, j \in DOMAIN s : i < j => s[i] < s[j]
Before(S, T) == \A j \in S, k \in T : j < k

InOrder(frame) ==
    frame.kind = "poll" =>
        /\ Increasing(frame.pending) /\ Increasing(frame.todo)
        /\ Before(ToSet(frame.pending), ToSet(frame.todo))

\* They are in the order of their calls, outermost batch first, and none is there twice,
\* however the batches are nested: an older call is always polled before a younger one
\* (driver/host_futures.rs, poll_all and settle).
InCallOrder ==
    /\ Increasing(entries)
    /\ \A n \in DOMAIN frames :
           /\ InOrder(frames[n])
           /\ Before(Unfinished(frames[n]), ToSet(entries))
           /\ \A m \in DOMAIN frames :
                  m < n => Before(Unfinished(frames[m]), Unfinished(frames[n]))

\* Where a call is, as the guest may see it.
Status(k) ==
    IF asyncio[k] = "none" THEN "unused"
    ELSE IF asyncio[k] = "set" THEN "answered"
    ELSE IF asyncio[k] = "cancelled" THEN "cancelled"
    ELSE IF k \in lost THEN "lost"
    ELSE IF k \in Completed THEN "completed"
    ELSE IF k \in Waiting THEN "pending"
    ELSE "forgotten"

Promise == INSTANCE HostCalls WITH status <- [k \in Calls |-> Status(k)]

\* Every step of the lists is one the guest was promised, or none it can see.
KeepsPromise == Promise!Spec

IsEmpty == entries = <<>> /\ polling = 0 /\ ready = <<>>

\* The loop is reported idle, and not blocked, only when no call is without
\* its outcome: run_until_idle cannot end before them.
EmptyIsHonest ==
    IsEmpty => \A k \in Calls : Status(k) # "pending"
=============================================================================
