\* Two guests, a coroutine of one and a scope of the other.
SPECIFICATION Spec
CONSTANTS
    a = a
    b = b
    f = f
    h = h
    Guests = {a, b}
    NoGuest = NoGuest
    Futures = {f, h}
    NoFuture = NoFuture
    GuestOf <- CrossingGuests
    Scopes = {h}
    Budget <- MixedBudget
    Unlimited = Unlimited
    ByExecutor = FALSE
    MaxFrames = 2
    MaxTime = 2
INVARIANT GuardsBalanced
PROPERTY DeadlineKept
\* A runtime whose guests are all dropped does nothing more.
CHECK_DEADLOCK FALSE
