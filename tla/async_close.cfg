\* close joined with two awaited coroutines.
SPECIFICATION FairSpec
CONSTANTS
    c = c
    e = e
    d = d
    x = x
    s = s
    t = t
    i = i
    j = j
    k = k
    Coroutines = {c, e}
    Drains = {x}
    Closers = {x}
    Tasks = {t}
    NoTask = NoTask
    TaskOf <- OneTask
    Calls = {i, j, k}
    CallerOf <- Callers
    NoCall = NoCall
    NoPoller = NoPoller
    Faulty = {}
    Sleepers = {}
    Droppable = {c}
    Advances = FALSE
    Cancels = FALSE
    MaxMoves = 2
    CloseBudget = 3
INVARIANT DriverHolds
PROPERTY DrainsReturn
\* When every future is resolved the executor has nothing left to poll.
CHECK_DEADLOCK FALSE
