\* Two guests and four classes, of which two run code; it stops when the guests are gone.
CONSTANTS
    g1 = g1
    g2 = g2
    Base = Base
    Left = Left
    Both = Both
    Plain = Plain
    common = common
    private = private
    Guests = {g1, g2}
    Classes = {Base, Left, Both, Plain}
    Modules = {common, private}
    HostBases <- MCHostBases
    Statics <- MCStatics
    Declares <- MCDeclares
    Shared = {common}
    Own <- MCOwn
    RunsCode = {Left, Plain}
    Reenters = FALSE
    MaxDepth = 4
    MaxMade = 2
    None = None
SPECIFICATION Spec
INVARIANT OneClassEach
INVARIANT OnlyWholeClasses
CHECK_DEADLOCK FALSE
