\* The same coroutines awaited by two executor tasks.
SPECIFICATION FairSpec
CONSTANTS
    c = c
    e = e
    d = d
    x = x
    s = s
    t = t
    i = i
    j = j
    k = k
    Coroutines = {c, e}
    Drains = {}
    Closers = {}
    Tasks = {s, t}
    NoTask = NoTask
    TaskOf <- TwoTasks
    Calls = {i, k}
    CallerOf <- EachCalls
    NoCall = NoCall
    NoPoller = NoPoller
    Faulty = {}
    Sleepers = {}
    Droppable = {}
    Advances = FALSE
    Cancels = FALSE
    MaxMoves = 2
    CloseBudget = 3
PROPERTY AwaitsResolve
\* When every future is resolved the executor has nothing left to poll.
CHECK_DEADLOCK FALSE
