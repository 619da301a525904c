\* Everything the host may do at once.
SPECIFICATION Spec
CONSTANTS
    c = c
    e = e
    d = d
    x = x
    s = s
    t = t
    i = i
    j = j
    k = k
    Coroutines = {c, e}
    Drains = {d, x}
    Closers = {x}
    Tasks = {s, t}
    NoTask = NoTask
    TaskOf <- CloserApart
    Calls = {i, k}
    CallerOf <- EachCalls
    NoCall = NoCall
    NoPoller = NoPoller
    Faulty = {k}
    Sleepers = {c}
    Droppable = {c}
    Advances = TRUE
    Cancels = TRUE
    MaxMoves = 1
    CloseBudget = 2
INVARIANT TypeOK
\* When every future is resolved the executor has nothing left to poll.
CHECK_DEADLOCK FALSE
