------------------------------- MODULE MCTimer -------------------------------
(* A guest that sleeps for a short, a middling or a long time, under a     *)
(* budget that is longer than a poll interval.                             *)
EXTENDS Timer

MCDelays == {1, 3, 8}
=============================================================================
