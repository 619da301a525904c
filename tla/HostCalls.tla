------------------------------ MODULE HostCalls ------------------------------
(***************************************************************************)
(* What a guest is promised about the async host functions it calls: each  *)
(* call is answered at most once, with the outcome its Rust future came    *)
(* to, unless the guest has cancelled the call; a call is lost only when   *)
(* publishing an answer fails or when the driver is closed.                *)
(***************************************************************************)
EXTENDS Naturals

CONSTANTS Calls

VARIABLES
    status,     \* each call
    opened      \* the drivers of this guest so far

vars == <<status, opened>>

Statuses == {"unused", "pending", "completed", "answered", "cancelled", "lost"}

Init ==
    /\ status = [k \in Calls |-> "unused"]
    /\ opened = 1

Becomes(S, from, to) ==
    /\ \A k \in S : status[k] \in from
    /\ status' = [k \in Calls |-> IF k \in S THEN to ELSE status[k]]

Call == \E k \in Calls : Becomes({k}, {"unused"}, "pending") /\ UNCHANGED opened

Complete == \E k \in Calls : Becomes({k}, {"pending"}, "completed") /\ UNCHANGED opened

Answer == \E k \in Calls : Becomes({k}, {"completed"}, "answered") /\ UNCHANGED opened

Cancel == \E k \in Calls :
              /\ Becomes({k}, {"pending", "completed", "lost"}, "cancelled")
              /\ UNCHANGED opened

\* An answer that cannot be published may take others with it that are
\* complete, but none that is still pending.
Fail ==
    /\ \E S \in SUBSET Calls : S # {} /\ Becomes(S, {"completed"}, "lost")
    /\ UNCHANGED opened

\* A driver that is closed leaves no call open.
Close ==
    /\ Becomes({k \in Calls : status[k] \in {"pending", "completed"}},
               {"pending", "completed"}, "lost")
    /\ opened' = opened + 1

Next == Call \/ Complete \/ Answer \/ Cancel \/ Fail \/ Close

Spec == Init /\ [][Next]_vars
=============================================================================
