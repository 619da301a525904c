---------------------------- MODULE MCActivation ----------------------------
(* Small instances of Activation: guests a and b, futures f and h.         *)
EXTENDS Activation, TLC

CONSTANTS a, b, f, h

\* a coroutine of a's and a scope of b's, whose lifetimes may cross
CrossingGuests == (f :> a) @@ (h :> b)
\* no future
NoFutures == <<>>

\* a has a budget of one tick and b none
MixedBudget == (a :> 1) @@ (b :> Unlimited)
=============================================================================
