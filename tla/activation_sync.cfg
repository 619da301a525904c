\* Synchronous use: two guests, no future.
SPECIFICATION Spec
CONSTANTS
    a = a
    b = b
    f = f
    h = h
    Guests = {a, b}
    NoGuest = NoGuest
    Futures = {}
    NoFuture = NoFuture
    GuestOf <- NoFutures
    Scopes = {}
    Budget <- MixedBudget
    Unlimited = Unlimited
    ByExecutor = TRUE
    MaxFrames = 4
    MaxTime = 2
INVARIANT RunningIsInnermost
INVARIANT RunningIsActive
INVARIANT OperationsAreBudgeted
PROPERTY CancelledAdmitsNothing
\* A runtime whose guests are all dropped does nothing more.
CHECK_DEADLOCK FALSE
