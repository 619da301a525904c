\* Three calls, of a stream or not, in up to three nested batches.
SPECIFICATION StreamSpec
CONSTANTS
    MaxCalls = 3
    MaxDepth = 3
    MaxDrivers = 2
    MaxItems = 2
INVARIANT StreamTypeOK
INVARIANT InCallOrder
INVARIANT EmptyIsHonest
INVARIANT ItemsInCallOrder
PROPERTY KeepsPromise
