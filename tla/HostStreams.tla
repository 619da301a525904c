----------------------------- MODULE HostStreams -----------------------------
(***************************************************************************)
(* A host stream that the guest iterates (guestpy-core, host/iter.rs), on  *)
(* the host futures of a driver.  Each __anext__ registers a host future   *)
(* that polls the one stream; which call gets which item is decided by the *)
(* order in which poll_all gets to them.  The stream is borrowed while it  *)
(* is polled, and a call polled from within is refused.                    *)
(***************************************************************************)
EXTENDS HostFutures

CONSTANT MaxItems   \* bound: items before the stream ends

ASSUME HostStreamsAssumption == MaxItems \in Nat

VARIABLES
    nexts,      \* the calls that are calls of __anext__
    taken,      \* how many items the stream has given
    got,        \* what each call took from the stream
    ahead       \* history: calls that took an item an older one in a batch was passed over for

\* What a call has when it has no item.
Nothing == 0
Busy == MaxItems + 1
Ended == MaxItems + 2

streamVars == <<nexts, taken, got, ahead>>
allVars == <<vars, streamVars>>

StreamTypeOK ==
    /\ TypeOK
    /\ nexts \subseteq Calls
    /\ taken \in 0..MaxItems
    /\ got \in [Calls -> 0..Ended]
    /\ ahead \subseteq nexts

StreamInit ==
    /\ Init
    /\ nexts = {}
    /\ taken = 0
    /\ got = [k \in Calls |-> Nothing]
    /\ ahead = {}

-----------------------------------------------------------------------------
\* __anext__ makes a host future of its own and registers it, as any async function does.
Anext(k) ==
    /\ Register(k)
    /\ nexts' = nexts \cup {k}
    /\ UNCHANGED <<taken, got, ahead>>

\* The calls of the stream whose turn in a batch under way is over, or comes after the poll
\* that goes on in it; the one in the stream's poll is not among them.
Passed ==
    nexts \cap
        ((UNION {ToSet(frames[n].pending) : n \in PollFrames}) \cup
         (UNION {ToSet(Tail(frames[n].todo)) :
                    n \in {m \in PollFrames \ {Len(frames)} : frames[m].todo # <<>>}}))

\* A batch below the top one is in the stream's own poll.
Borrowed ==
    \E n \in PollFrames \ {Len(frames)} : frames[n].todo # <<>> /\ Head(frames[n].todo) \in nexts

PollsStream == Polls /\ Head(Top.todo) \in nexts

\* Slip: the stream is polled although it is borrowed.
NextItemBorrowed ==
    /\ PollsStream
    /\ taken < MaxItems
    /\ PollReady
    /\ taken' = taken + 1
    /\ got' = [got EXCEPT ![Head(Top.todo)] = taken + 1]
    /\ ahead' = IF \E j \in Passed : j < Head(Top.todo)
                THEN ahead \cup {Head(Top.todo)} ELSE ahead
    /\ UNCHANGED nexts

\* poll_next has an item, or the stream's error, which counts as one.
NextItem ==
    /\ PollsStream
    /\ ~Borrowed
    /\ taken < MaxItems
    /\ PollReady
    /\ taken' = taken + 1
    /\ got' = [got EXCEPT ![Head(Top.todo)] = taken + 1]
    /\ ahead' = IF \E j \in Passed : j < Head(Top.todo)
                THEN ahead \cup {Head(Top.todo)} ELSE ahead
    /\ UNCHANGED nexts

NextPending ==
    /\ PollsStream
    /\ ~Borrowed
    /\ PollPending
    /\ UNCHANGED streamVars

\* StopAsyncIteration, and the same for every call that comes after.
NextEnds ==
    /\ PollsStream
    /\ ~Borrowed
    /\ taken = MaxItems
    /\ PollReady
    /\ got' = [got EXCEPT ![Head(Top.todo)] = Ended]
    /\ UNCHANGED <<nexts, taken, ahead>>

\* try_borrow_mut fails.
NextBusy ==
    /\ PollsStream
    /\ Borrowed
    /\ PollReady
    /\ got' = [got EXCEPT ![Head(Top.todo)] = Busy]
    /\ UNCHANGED <<nexts, taken, ahead>>

\* Another async function of the host's.
OtherPolled ==
    /\ Polls /\ Head(Top.todo) \notin nexts
    /\ PollPending \/ PollReady
    /\ UNCHANGED streamVars

Lists ==
    /\ \/ \E k \in Calls : Register(k) \/ CancelCall(k)
       \/ TakeEntries \/ Settle
       \/ DrainReady \/ PublishHead \/ PublishFails \/ PublishEnds
       \/ DropDriver
    /\ UNCHANGED streamVars

StreamNext ==
    \/ \E k \in Calls : Anext(k)
    \/ NextItem \/ NextPending \/ NextEnds \/ NextBusy
    \/ OtherPolled
    \/ Lists

StreamSpec == StreamInit /\ [][StreamNext]_allVars

-----------------------------------------------------------------------------
HasItem(k) == got[k] \in 1..MaxItems

\* Items reach the calls in the order in which the guest made them: an older call has the
\* earlier item, whatever was registered, cancelled and polled meanwhile.  A younger one gets
\* ahead of it only within one batch, when the item comes after the older one's poll or when
\* it is polled from within another host future, and never of the call that is in the
\* stream's poll (host/iter.rs, HostStream::next; driver/host_futures.rs, settle).
ItemsInCallOrder ==
    \A j, k \in nexts : j < k /\ HasItem(j) /\ HasItem(k) /\ got[k] < got[j] => k \in ahead
=============================================================================
