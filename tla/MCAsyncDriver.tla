---------------------------- MODULE MCAsyncDriver ----------------------------
(* Small instances of AsyncDriver: coroutines c and e, drains d and x,     *)
(* executor tasks s and t, host calls i, j and k.                          *)
EXTENDS AsyncDriver, TLC

CONSTANTS c, e, d, x, s, t, i, j, k

\* everything in one executor task
OneTask == [p \in Pollers |-> t]
\* the calls of close in a task of their own
CloserApart == [p \in Pollers |-> IF p \in Closers THEN s ELSE t]
\* each coroutine in a task of its own
TwoTasks == (c :> s) @@ (e :> t)

\* c calls i and then j; e calls k
Callers == (i :> c) @@ (j :> c) @@ (k :> e)
EachCalls == (i :> c) @@ (k :> e)
OneCall == (i :> c)
NoCallers == <<>>
=============================================================================
