----------------------------- MODULE GuestStreams -----------------------------
(***************************************************************************)
(* A generator of the guest's that the host reads (guestpy-core,           *)
(* handle/generator.rs, handle/iter.rs, driver/step.rs, driver/cursor.rs). *)
(* Several handles may share the one generator.  A step of an async        *)
(* generator is an asyncio task of its own, which goes on when the host    *)
(* has given up the future that waits for it; a Stream keeps its step in a *)
(* cursor from one poll to the next.  A step of a plain generator ends     *)
(* before the call returns, but its body may call the host, and the host   *)
(* the generator.  When the loop's passes run is left to AsyncDriver: here *)
(* a task that is due runs at any time.                                    *)
(***************************************************************************)
EXTENDS Integers, Sequences

CONSTANTS
    Pollers,    \* the readers that poll an async handle as a Stream, or iterate a plain one
    Callers,    \* the readers that call a handle's methods
    MaxSteps,   \* bound: steps that are made
    MaxItems    \* bound: items the generator yields

Readers == Pollers \cup Callers

ASSUME GuestStreamsAssumption ==
    /\ Pollers \cap Callers = {}
    /\ MaxSteps \in Nat
    /\ MaxItems \in Nat

VARIABLES
    generator,  \* where the generator is
    steps,      \* the steps that were made of it, in order
    current,    \* the step whose future each reader holds
    open        \* the readers whose handle is still there

streamVars == <<generator, steps, current, open>>

Operations == {"next", "send", "throw", "close"}
Item(n) == [is |-> "item", n |-> n]
Other(what) == [is |-> what, n |-> 0]
Busy(i) == [is |-> "busy", n |-> i]     \* another step, i, is inside the generator
NoStep == 0

\* A generator, plain or async, that nothing has been asked of.
Generators == [async: BOOLEAN, state: {"fresh"}, by: {NoStep}, yielded: {0}]

StreamsInit ==
    /\ generator \in Generators
    /\ steps = <<>>
    /\ current = [r \in Readers |-> NoStep]
    /\ open = Readers

StreamsTypeOK ==
    /\ generator.state \in {"fresh", "running", "suspended", "finished"}
    /\ generator.by \in 0..Len(steps)
    /\ Len(steps) <= MaxSteps
    /\ current \in [Readers -> 0..Len(steps)]
    /\ open \subseteq Readers

\* What a step has come to: its task, and what the host has of it.
SetTask(i, task, result) == [steps EXCEPT ![i].task = task, ![i].result = result]
SetHost(i, host, answer) == [steps EXCEPT ![i].host = host, ![i].answer = answer]

Waiting(r) == current[r] # NoStep
Ready(i) == steps[i].task = "done"

\* A plain generator has the thread: a call into it ends before its caller goes on.
Underway == {i \in DOMAIN steps : steps[i].host = "open" /\ steps[i].task \in {"due", "done"}}
Free == generator.async \/ Underway = {}

-----------------------------------------------------------------------------
(* The host.                                                               *)

\* The step that a cursor or a future holds after a poll.
\* Slip: it holds none.
ForgottenAfterPoll(i, ready) == NoStep
HeldAfterPoll(i, ready) == IF ready THEN NoStep ELSE i

\* A Stream and an Iterator only go on to the next item.
Asks(r) == IF r \in Pollers THEN {"next"} ELSE Operations

\* A reader has a step made: it enters the guest, and the generator's method is called or,
\* for an async one, gives an awaitable that becomes a task with the first poll.  A guest
\* that is not entered leaves all as it was.
Ask(r, operation) ==
    /\ r \in open /\ ~Waiting(r)
    /\ operation \in Asks(r)
    /\ Free
    /\ Len(steps) < MaxSteps
    /\ steps' = Append(steps, [reader |-> r, operation |-> operation, task |-> "due",
                               result |-> Other("none"), host |-> "open",
                               answer |-> Other("none")])
    /\ current' = [current EXCEPT ![r] = HeldAfterPoll(Len(steps) + 1, FALSE)]
    /\ UNCHANGED <<generator, open>>

\* AsyncStep::settle, and Option and Step of the plain calls: the end is not an error.
Settle(result) == result

\* The future of a finished task gives its outcome; an item may not convert, and is lost.
Answer(r) ==
    /\ Waiting(r) /\ Ready(current[r])
    /\ \E answer \in {Settle(steps[current[r]].result)}
                     \cup (IF steps[current[r]].result.is = "item"
                           THEN {Other("unconverted")} ELSE {}) :
           steps' = SetHost(current[r], "answered", answer)
    /\ current' = [current EXCEPT ![r] = HeldAfterPoll(current[r], TRUE)]
    /\ UNCHANGED <<generator, open>>

\* The poll of an async step finds a deadline passed or the signal tripped; its task stays.
PollRefused(r) ==
    /\ generator.async
    /\ Waiting(r)
    /\ steps' = SetHost(current[r], "gone", Other("none"))
    /\ current' = [current EXCEPT ![r] = HeldAfterPoll(current[r], TRUE)]
    /\ UNCHANGED <<generator, open>>

\* The future of a call is dropped, and of a Stream the handle with its cursor: a `next` of
\* StreamExt that is dropped leaves the cursor as it is.
GiveUp(r) ==
    /\ generator.async
    /\ r \in open
    /\ r \in Callers => Waiting(r)
    /\ steps' = IF Waiting(r) THEN SetHost(current[r], "gone", Other("none")) ELSE steps
    /\ current' = [current EXCEPT ![r] = NoStep]
    /\ open' = open \ (Pollers \cap {r})
    /\ UNCHANGED generator

-----------------------------------------------------------------------------
(* The generator, as Python has it.                                        *)

Due(i) == steps[i].task = "due"
Inside(i) == generator.by = i

\* A step of a generator that runs is refused.
StepBusy(i) ==
    /\ Due(i) /\ generator.by # NoStep
    /\ steps' = SetTask(i, "done", Busy(generator.by))
    /\ UNCHANGED <<generator, current, open>>

\* One that has finished is at its end or closed already; a plain one raises what is thrown
\* into it, an async one ignores it.
StepFinished(i) ==
    /\ Due(i) /\ generator.state = "finished"
    /\ \E what \in CASE steps[i].operation = "close" -> {"closed"}
                     [] steps[i].operation = "throw" ->
                           IF generator.async THEN {"closed"} ELSE {"end", "error"}
                     [] OTHER -> {"end"} :
           steps' = SetTask(i, "done", Other(what))
    /\ UNCHANGED <<generator, current, open>>

\* One that has not begun takes no value, and finishes when it is closed or thrown into.
StepFresh(i) ==
    /\ Due(i) /\ generator.state = "fresh"
    /\ steps[i].operation # "next"
    /\ steps' = SetTask(i, "done", Other(IF steps[i].operation = "close" THEN "closed" ELSE "error"))
    /\ generator' = IF steps[i].operation = "send" THEN generator
                    ELSE [generator EXCEPT !.state = "finished"]
    /\ UNCHANGED <<current, open>>

\* Its body goes on; None may be sent into one that has not begun.
StepEnters(i) ==
    /\ Due(i)
    /\ \/ generator.state = "suspended"
       \/ generator.state = "fresh" /\ steps[i].operation \in {"next", "send"}
    /\ steps' = SetTask(i, "inside", Other("none"))
    /\ generator' = [generator EXCEPT !.state = "running", !.by = i]
    /\ UNCHANGED <<current, open>>

\* It yields an item; when it is being closed, that is an error.
Yields(i) ==
    /\ Inside(i) /\ Free
    /\ \/ /\ steps[i].operation # "close"
          /\ generator.yielded < MaxItems
          /\ steps' = SetTask(i, "done", Item(generator.yielded + 1))
          /\ generator' = [generator EXCEPT !.state = "suspended", !.by = NoStep, !.yielded = @ + 1]
       \/ /\ steps[i].operation = "close"
          /\ steps' = SetTask(i, "done", Other("error"))
          /\ generator' = [generator EXCEPT !.state = "suspended", !.by = NoStep]
    /\ UNCHANGED <<current, open>>

\* It returns, or an exception leaves it.
Finishes(i) ==
    /\ Inside(i) /\ Free
    /\ \E what \in {"error", IF steps[i].operation = "close" THEN "closed" ELSE "end"} :
           steps' = SetTask(i, "done", Other(what))
    /\ generator' = [generator EXCEPT !.state = "finished", !.by = NoStep]
    /\ UNCHANGED <<current, open>>

GuestSteps ==
    \E i \in DOMAIN steps :
        StepBusy(i) \/ StepFinished(i) \/ StepFresh(i) \/ StepEnters(i) \/ Yields(i) \/ Finishes(i)

StreamsNext ==
    \/ \E r \in Readers, operation \in Operations : Ask(r, operation)
    \/ \E r \in Readers : Answer(r) \/ PollRefused(r) \/ GiveUp(r)
    \/ GuestSteps

-----------------------------------------------------------------------------
GaveUp(i) == steps[i].host = "gone"
Answered(i) == steps[i].host = "answered"

\* An item that the generator has yielded reaches the host, unless the host gave up the step
\* that took it or the item does not convert: a reader that is not there yet still holds it.
ItemsKept ==
    \A i \in DOMAIN steps :
        steps[i].result.is = "item" =>
            \/ GaveUp(i)
            \/ Answered(i) /\ steps[i].answer \in {steps[i].result, Other("unconverted")}
            \/ current[steps[i].reader] = i

\* A reader never stands in its own way: a step is refused because another reader's is inside
\* the generator, or one that the reader itself gave up.
BusyWithAnother ==
    \A i \in DOMAIN steps :
        Answered(i) /\ steps[i].answer.is = "busy" =>
            LET j == steps[i].answer.n IN steps[j].reader # steps[i].reader \/ GaveUp(j)

\* Who is told of the end is told the truth: the generator has finished, and gives no item to
\* anyone after.
EndIsTheEnd ==
    \A i \in DOMAIN steps :
        Answered(i) /\ steps[i].answer.is = "end" => generator.state = "finished"

\* What several readers of one generator can rely on, whatever they drop and whichever of them
\* is refused (driver/cursor.rs, AsyncCursor::poll; driver/step.rs, AsyncStep::settle).
ReadersAreServed == ItemsKept /\ BusyWithAnother /\ EndIsTheEnd

StreamsSpec == StreamsInit /\ [][StreamsNext]_streamVars
=============================================================================
