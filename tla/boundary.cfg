\* Cases of every kind; a behaviour that copies ends with its case.
SPECIFICATION Spec
CONSTANTS
    Wide = 4
    Narrow = 2
    Exact = 2
    Coarse = 1
    Reach = 5
    ParameterLists <- MCParameterLists
    Calls <- MCCalls
    ClassFunctions <- MCClassFunctions
    ModuleFunctions <- MCModuleFunctions
    Impls <- MCImpls
    Types <- MCTypes
    Streams <- MCStreams
    SerdeTypes <- MCSerdeTypes
    HostValues <- MCHostValues
    SerdeValues <- MCSerdeValues
    GuestValues <- MCGuestValues
    BuiltinExceptions <- MCBuiltinExceptions
    OtherBuiltins = {"int"}
    Registries <- MCRegistries
    GuestClasses <- MCGuestClasses
    Errors <- MCErrors
    ExceptionModules <- MCExceptionModules
    FieldValues <- MCFieldValues
    GuestExceptions <- MCGuestExceptions
    BundleName = "p"
    Trees <- MCTrees
    DeclarationLists <- MCDeclarationLists
    Libraries <- MCLibraries
    GuestLibraries <- MCGuestLibraries
    Heaps <- MCHeaps
    CalledHeaps <- MCCalledHeaps
    HostArguments <- MCHostArguments
    HostKeywords <- MCHostKeywords
    Facades <- MCFacades
    Lineage <- MCLineage
    Requires <- MCRequires
    Identifiers <- MCIdentifiers
    ExtensionSuffixes <- MCSuffixes
    Instances = {"o", "q"}
    HostClasses = {"B", "D"}
    GuestTypes = {"B", "D", "A"}
    TypeOf <- MCTypeOf
    Abstract = {"A"}
    MaxUses = 3
    Pollers = {"s"}
    Callers = {"c"}
    MaxSteps = 3
    MaxItems = 2
    NoClass = NoClass
INVARIANT CallsLikePython
INVARIANT GeneratedCodeCompiles
INVARIANT ConversionsAreFaithful
INVARIANT UnionSelectsFirst
INVARIANT SerdeWidens
INVARIANT RaisesAsDeclared
INVARIANT FieldsAreKept
INVARIANT SameToAll
INVARIANT PayloadsHold
INVARIANT ReadersAreServed
INVARIANT MembersAreReached
INVARIANT GuestsAreWhole
CHECK_DEADLOCK FALSE
