\* Three guests on two threads load extensions from one another's code; it stops when
\* every guest has, or is refused, what it may load.
SPECIFICATION Spec
CONSTANTS
    Threads = {"t1", "t2"}
    Guests = {"a", "b", "c"}
    ThreadOf <- MCThreadOf
    BundleOf <- MCBundleOf
    Extensions = {"p.x", "p.y", "p.s.z"}
    Packages = {"p", "p.s"}
    PackagesOf <- MCPackagesOf
    Contents <- MCContents
    Squatted = {"p.x", "p"}
    Reimports = FALSE
    MaxDepth = 3
    None = None
    Foreign = Foreign
INVARIANT OwnBinary
INVARIANT NothingHalfMade
INVARIANT RunningHasParents
PROPERTY LoadedForGood
CHECK_DEADLOCK FALSE
