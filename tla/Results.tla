------------------------------- MODULE Results -------------------------------
(***************************************************************************)
(* What a conversion gives (guestpy-core, errors.rs and marshal/).         *)
(***************************************************************************)
EXTENDS Integers, Sequences, FiniteSetsExt

\* An Option.
None == [h |-> "none"]
Some(v) == [h |-> "some", v |-> v]

\* Results: a value, or one of the two kinds of error a conversion has.
Ok(v) == [r |-> "ok", v |-> v]
Conversion == [r |-> "conversion"]
GuestError == [r |-> "guest"]
IsResult(x) == x \in {Conversion, GuestError} \/ x = Ok(x.v)

\* The results of the parts in order: the first error, or all the values.
Collect(results) ==
    LET failed == {i \in DOMAIN results : results[i].r # "ok"}
    IN IF failed = {} THEN Ok([i \in DOMAIN results |-> results[i].v]) ELSE results[Min(failed)]

Then(result, Make(_)) == IF result.r = "ok" THEN Ok(Make(result.v)) ELSE result

\* The parts of a container, converted one after the other.
Each(items, Convert(_)) == Collect([i \in DOMAIN items |-> Convert(items[i])])
=============================================================================
