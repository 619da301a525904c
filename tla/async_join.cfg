\* Two coroutines joined in one executor task; the signal may be tripped.
SPECIFICATION FairSpec
CONSTANTS
    c = c
    e = e
    d = d
    x = x
    s = s
    t = t
    i = i
    j = j
    k = k
    Coroutines = {c, e}
    Drains = {}
    Closers = {}
    Tasks = {t}
    NoTask = NoTask
    TaskOf <- OneTask
    Calls = {i, j, k}
    CallerOf <- Callers
    NoCall = NoCall
    NoPoller = NoPoller
    Faulty = {}
    Sleepers = {c, e}
    Droppable = {}
    Advances = FALSE
    Cancels = TRUE
    MaxMoves = 2
    CloseBudget = 3
INVARIANT ParkedIsRegistered
PROPERTY AwaitsResolve
\* When every future is resolved the executor has nothing left to poll.
CHECK_DEADLOCK FALSE
