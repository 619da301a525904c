------------------------------ MODULE Interfaces ------------------------------
(***************************************************************************)
(* What is declared on one side and used from the other, a case at a time: *)
(* the arguments of a call, what a macro makes of a function and of an     *)
(* impl, a directory of modules, a list of declarations, the objects of a  *)
(* guest, the libraries that it is built of, and the errors of the host's  *)
(* that it gets.  A behaviour takes one case and ends with its result; the *)
(* invariants compare it with what is promised.                            *)
(***************************************************************************)
EXTENDS HostDefinitions, Bundles, Declarations, Handles, Exceptions

CONSTANTS
    ParameterLists, Calls,          \* signatures of host callables, and guest calls of them
    ClassFunctions, ModuleFunctions,
    Impls(_),                       \* impl blocks of host classes and host modules
    BundleName, Trees,              \* a directory's name, and what may be in it
    DeclarationLists(_),            \* what a module, an object or a class declares
    Heaps, CalledHeaps,             \* the objects of a guest, to be asked and to be called
    HostArguments, HostKeywords,    \* what the host calls them with
    Facades,                        \* declarations of guest facades
    Libraries, GuestLibraries,      \* what a runtime and a guest may bind
    Registries,                     \* the exceptions that the host's modules declare
    GuestClasses,                   \* the exception classes that guests define
    Errors                          \* host errors

\* Arguments and named arguments as the host writes them, each with what converting it gives.
Written(args, kwargs) ==
    /\ args \in Seq(ToSet(args)) /\ \A i \in DOMAIN args : IsResult(args[i])
    /\ kwargs \in Seq(ToSet(kwargs))
    /\ \A i \in DOMAIN kwargs : kwargs[i] = <<kwargs[i][1], kwargs[i][2]>> /\ IsResult(kwargs[i][2])

ASSUME ParametersAssumption ==
    ParameterLists \subseteq Signatures /\ \A call \in Calls : call.positional \in Nat

ASSUME FunctionsAssumption ==
    /\ ClassFunctions \subseteq Functions(ClassRoles, Seq(Parameters))
    /\ ModuleFunctions \subseteq Functions(ModuleRoles, Seq(Parameters))

\* Python has no two parameters of one name.
ASSUME HostCallsAssumption ==
    /\ \A heap \in CalledHeaps : \A o \in DOMAIN heap :
           heap[o].params \in Seq(STRING) /\ IsInjective(heap[o].params)
    /\ \A args \in HostArguments, kwargs \in HostKeywords : Written(args, kwargs)

\* A directory has one file of a path.
ASSUME TreesAssumption ==
    /\ BundleName \in STRING
    /\ \A tree \in Trees :
           tree \subseteq Files /\ IsFiniteSet(tree) /\ \A f, g \in tree : f.path = g.path => f = g

ASSUME DeclarationsAssumption ==
    \A container \in Containers : DeclarationLists(container) \subseteq Seq(DeclarationsOf(container))

ASSUME HeapsAssumption == \A heap \in Heaps \cup CalledHeaps : IsHeap(heap)

ASSUME FacadesAssumption ==
    \A facade \in Facades : \A i \in DOMAIN facade.members : facade.members[i].params \in Seq(STRING)

ASSUME LibrariesAssumption ==
    \A library \in Libraries \cup GuestLibraries : library \in Seq(ToSet(library))

\* The references of a guest's exception class.
Refs(class) == {class[i].ref : i \in DOMAIN class}
IsRaisable(class) == Builtin("BaseException") \in Refs(class)

\* A catalog keeps one declaration of a class, of which a type has one; a class that is declared
\* by name is of the module that declares it, and none is among its own bases.
IsCatalog(specs) ==
    /\ IsFiniteSet(specs)
    /\ \A s \in specs :
           /\ s.key = Host(s.module, s.key.name) \/ s.key = Typed(s.key.id, s.key.name)
           /\ Ends(specs, s.key) # {}
    /\ \A s, d \in specs : s # d =>
           s.key # d.key /\ (s.key.ref = "typed" /\ d.key.ref = "typed" => s.key.id # d.key.id)

IsReference(class) == class.ref \in {"builtin", "host", "typed", "guest"}
IsSequence(seq) == seq \in Seq(ToSet(seq)) /\ seq # <<>>
IsException(exception) == IsSequence(exception) /\ \A i \in DOMAIN exception : IsRaisable(exception[i])
IsError(error) ==
    /\ IsSequence(error)
    /\ \A i \in DOMAIN error :
           /\ i # Len(error) => error[i].error = "raise"
           /\ error[i].error = "raise" => IsReference(error[i].class)
           /\ error[i].error = "guest" => IsException(error[i].exception)

ASSUME ExceptionsAssumption ==
    /\ \A declared \in Registries : IsCatalog(FatalSpecs \cup declared)
    /\ \A name \in DOMAIN GuestClasses : GuestClasses[name] = <<>> \/ IsRaisable(GuestClasses[name])
    /\ \A error \in Errors : IsError(error)

ASSUME ImplsAssumption ==
    \A kind \in {"class", "module"} : \A item \in Impls(kind) : item.kind = kind /\ WellFormed(item)

VARIABLE case

InterfacesInit == case = [kind |-> "none"]

Unchosen == case.kind = "none"
Chosen(record) == case' = record

\* A guest calls a host callable.
Call ==
    Unchosen /\ \E params \in ParameterLists, call \in Calls :
        Parses(params) /\ Chosen([kind |-> "call", params |-> params, call |-> call,
                                  bound |-> Bind(call, params)])

\* A macro meets a function of a host class or a host module.
Expand ==
    \/ Unchosen /\ \E f \in ClassFunctions :
           Chosen([kind |-> "member", function |-> f, role |-> ClassMember(f)])
    \/ Unchosen /\ \E f \in ModuleFunctions :
           Chosen([kind |-> "member", function |-> f, role |-> ModuleMember(f)])

\* A macro meets the impl block of a host class or a host module.
ExpandItem ==
    Unchosen /\ \E kind \in {"class", "module"} : \E item \in Impls(kind) :
        Chosen([kind |-> "definition", item |-> item, made |-> Define(item)])

\* A directory is read in one order, and was embedded in another.
ReadBundle ==
    Unchosen /\ \E tree \in Trees : \E read, embedded \in TupleOf(tree, Cardinality(tree)) :
        /\ ToSet(read) = tree /\ ToSet(embedded) = tree /\ InDirOrder(read)
        /\ Chosen([kind |-> "bundle", tree |-> tree,
                   read |-> FromDir(BundleName, read),
                   embedded |-> FromEmbedded(BundleName, embedded)])

\* The host declares a module, an object or a class.
DeclareMembers ==
    Unchosen /\ \E container \in Containers : \E decls \in DeclarationLists(container) :
        Chosen([kind |-> "declare", container |-> container, decls |-> decls,
                accepted |-> container = "class" => Accepted(decls)])

\* The host asks a guest's class or function for its annotations and its generic bases,
Reflect ==
    Unchosen /\ \E heap \in Heaps : \E o, base \in DOMAIN heap :
        /\ heap[o].is \in {"class", "function"} /\ heap[base].is = "class"
        /\ Chosen([kind |-> "reflect", heap |-> heap, object |-> o, base |-> base,
                   listed |-> Annotations(heap, o),
                   alias |-> IF heap[o].is = "class" THEN GenericBaseOf(heap, o, base) ELSE Ok(None)])

\* calls a guest's object,
CallGuest ==
    Unchosen /\ \E heap \in CalledHeaps, args \in HostArguments, kwargs \in HostKeywords :
        \E o \in DOMAIN heap, type \in HandleTypes :
            LET held == Held(type, heap, o)
            IN Chosen([kind |-> "host_call", heap |-> heap, object |-> o, held |-> held,
                       args |-> args, kwargs |-> kwargs,
                       result |-> IF held.r # "ok" THEN held
                                  ELSE IF type = "class" THEN Construct(heap, o, args, kwargs)
                                  ELSE CallWith(heap, o, args, kwargs)])

\* or uses a member of a facade around it.
UseFacade ==
    Unchosen /\ \E heap \in CalledHeaps, facade \in Facades, kind \in FacadeKinds :
        \E o \in DOMAIN heap, i \in DOMAIN facade.members :
            \E given \in [ToSet(facade.members[i].params) -> {Ok(1), Ok(2), Conversion}] :
                /\ FacadeParses(facade, kind) /\ FacadeCompiles(facade)
                /\ Chosen([kind |-> "facade", heap |-> heap, object |-> o, given |-> given,
                           member |-> facade.members[i],
                           result |-> FacadeMember(heap, o, facade.members[i], given)])

\* A runtime and a guest are built.
BuildGuest ==
    Unchosen /\ \E runtime \in Libraries, guest \in GuestLibraries :
        LET admitted == Admits(Modules(runtime, <<>>)) /\ AdmitsGuest(runtime, guest)
        IN Chosen([kind |-> "guest", runtime |-> runtime, guest |-> guest, admitted |-> admitted,
                   ran |-> IF admitted THEN RunUpTo(Steps(runtime, guest)) ELSE <<>>])

\* A host error reaches the guest, from a callback that has a guest or from one that has none.
RaiseError ==
    Unchosen /\ \E declared \in Registries, error \in Errors, inGuest \in BOOLEAN :
        LET specs == FatalSpecs \cup declared
        IN Chosen([kind |-> "raise", specs |-> specs, error |-> error,
                   exception |-> Convert(inGuest, specs, GuestClasses, error)])

InterfacesNext ==
    \/ Call
    \/ Expand
    \/ ExpandItem
    \/ ReadBundle
    \/ DeclareMembers
    \/ Reflect
    \/ CallGuest
    \/ UseFacade
    \/ BuildGuest
    \/ RaiseError

InterfacesSpec == InterfacesInit /\ [][InterfacesNext]_case

-----------------------------------------------------------------------------
\* The accessors that run one after another, each seeing only its own parameter, and the
\* final count of what was consumed add up to Python's rule: a call goes through exactly when
\* every argument has one place and every place its argument, and then each argument is
\* where the rule puts it (callable.rs, argument_setup; marshal/args.rs, Args::finish).
GuestCallsLikePython ==
    case.kind = "call" =>
        /\ case.bound.ok <=> Legal(case.call, case.params)
        /\ case.bound.ok =>
               \A a \in Given(case.call), i \in DOMAIN case.params :
                   a \in case.bound.taken[i] <=> i \in Targets(case.params, a)

\* The other way round: the host's call of a guest's function goes through exactly when every
\* argument converts and Python would take the call written out, and then each argument is in
\* its place; but of an argument given twice by name, which Python refuses, the last is taken
\* and the others are lost (handle/traits.rs, call_with; the dict of both backends' call).
HostCallsLikePython ==
    case.kind = "host_call" =>
        LET names == case.heap[case.object].params
            params == [i \in DOMAIN names |-> Param("value", names[i], FALSE)]
            call == [positional |-> Len(case.args), keywords |-> {kw[1] : kw \in ToSet(case.kwargs)}]
        IN /\ case.result.r = "ok" <=>
                  /\ case.held.r = "ok" /\ case.heap[case.object].is \in {"class", "function"}
                  /\ \A a \in ToSet(case.args) \cup {kw[2] : kw \in ToSet(case.kwargs)} : a.r = "ok"
                  /\ Legal(call, params)
           /\ case.result.r = "ok" =>
                  \A i \in DOMAIN params :
                      \/ i \in DOMAIN case.args /\ case.args[i].v = case.result.v[i]
                      \/ \E j \in DOMAIN case.kwargs :
                             /\ case.kwargs[j] = <<names[i], Ok(case.result.v[i])>>
                             /\ \A k \in DOMAIN case.kwargs : case.kwargs[k][1] = names[i] => k <= j

\* A call means what Python takes it for, whichever side it is from.
CallsLikePython == GuestCallsLikePython /\ HostCallsLikePython

\* Each member's body uses no name that the closure around it does not bind.
ClosedCode ==
    case.kind = "member" /\ case.role # "rejected" =>
        Body(case.role, case.function) \subseteq Binds(case.role, case.function)

\* The predicates that hold in the whole impl, and the traits that B has in the definition.
ImplWheres(item) ==
    item.wheres \cup UNION {Wants(g.name, g.bounds) : g \in ToSet(item.generics)}
InScope(item, made) == made.bounds \cup Asked(made.backend.name, ImplWheres(item))

\* Every type parameter is declared once, and the calls that name the backend name no other.
DeclaredOnce(item, made) ==
    /\ NamesOf(item) \cap ToSet(made.adds) = {}
    /\ \A i \in Exported(item) :
           /\ NamesOf(item) \cap ToSet(made.functions[i].own) = {}
           /\ IsInjective(made.functions[i].own)
           /\ Invokes(made.backend, made.functions[i])

\* What an author asked of a parameter still holds in the function that asked it, and the
\* definition that calls the function has it.
BoundsInForce(item, made) ==
    \A i \in DOMAIN item.functions : \A w \in item.functions[i].wheres :
        /\ w.bound \in Implied(Asked(w.on, made.functions[i].wheres \cup ImplWheres(item)))
        /\ i \in Exported(item) /\ w.on = made.backend.name =>
               w.bound \in Implied(InScope(item, made))

\* Four shapes are accepted and do not compile: a hook with a parameter of its own that has
\* bounds or meets a backend of the attribute's; a bound on the impl's own backend that only
\* a function asks, which absorb takes from it; a borrowed parameter in a module that declares
\* no class; and an asynchronous base of a class that is not.
Misfit(item, made) ==
    \/ \E i \in Exported(item) :
           LET f == item.functions[i]
           IN /\ f.own # <<>>
              /\ made.backend.k = "introduced" \/ \E w \in f.wheres : w.on \in ToSet(f.own)
    \/ /\ made.backend.k = "declared"
       /\ \E i \in Exported(item) :
              ~(Asked(made.backend.name, item.functions[i].wheres)
                    \subseteq Implied(Asked(made.backend.name, ImplWheres(item))))
    \/ /\ item.kind = "module" /\ ~item.classes
       /\ \E i \in Exported(item) : item.functions[i].borrows
    \/ "async" \in item.bases /\ ~HasAsync(item)

DefinitionsCompile ==
    case.kind = "definition" /\ case.made.ok /\ ~Misfit(case.item, case.made) =>
        /\ DeclaredOnce(case.item, case.made)
        /\ BoundsInForce(case.item, case.made)
        /\ case.made.backend.k # "concrete" =>
               Needs(case.item) \subseteq Implied(InScope(case.item, case.made))

\* Whatever function classify_method lets through, the code generated for it is closed; and
\* whatever impl from_impl lets through, four shapes apart, the definition made of it declares
\* every parameter once, has all the backend traits that its calls need, and leaves the
\* author's bounds in force.  What is accepted, what is generated and what the builders ask
\* for are written in different places (host/class.rs, host/module.rs, host/backend.rs, and
\* core's host/class.rs and host/module.rs); a combination that one of them forgets does not
\* compile in the user's crate.
GeneratedCodeCompiles == ClosedCode /\ DefinitionsCompile

-----------------------------------------------------------------------------
\* The bundles that were built.
Built == {builder \in {case.read, case.embedded} : Builds(builder)}

\* A module runs what the bundle's files have at its origin, the path where the CPython
\* backend writes them and where a traceback looks (bundle.rs, insert_entry and origin;
\* native_extensions.rs, write_bundle).
SourcesAreFiled ==
    case.kind = "bundle" =>
        \A builder \in Built : \A dotted \in DOMAIN builder.modules :
            LET module == builder.modules[dotted]
            IN module.origin \in DOMAIN builder.files /\ builder.files[module.origin] = module.source

\* A directory without a module that is both a file and a package is the same bundle whether
\* it is read or embedded, whatever order its entries come in (bundle.rs, from_dir and
\* from_embedded, and its test from_dir_builds_the_same_bundle_shape).
SameEitherWay ==
    /\ case.kind = "bundle"
    /\ \A f, g \in case.tree :
           f # g /\ IsPython(f.path) /\ IsPython(g.path) => Dotted(f.path) # Dotted(g.path)
    => /\ Builds(case.read) <=> Builds(case.embedded)
       /\ Builds(case.read) => case.read = case.embedded

\* Both backends take the same names for native modules, those the interpreter cannot load
\* as well, so that a module is never looked for elsewhere on one of them
\* (guestpy-pyo3, native_extensions.rs, names; guestpy-core, backend/native_extensions.rs).
ClaimsAgree ==
    case.kind = "bundle" =>
        \A builder \in Built : CPythonClaims(builder) = RustPythonClaims(builder)

\* What a directory gives depends on nobody who looks at it: one bundle, read or embedded, one
\* source for a module, imported or opened, and one set of native modules for both backends.
SameToAll == SourcesAreFiled /\ SameEitherWay /\ ClaimsAgree

-----------------------------------------------------------------------------
\* The uses that a declaration is for, and how its function is to be run.
UsesOf(declaration, via) ==
    IF declaration.kind \in AccessorKinds /\ via = "class" THEN {}
    ELSE CASE declaration.kind \in {"constant", "getter"} -> {"get"}
           [] declaration.kind = "property" -> {"get", "set"}
           [] declaration.kind = "setter" -> {"set"}
           [] declaration.kind = "deleter" -> {"delete"}
           [] OTHER -> {"call"}

Promised(container, decls, i, via, args) ==
    IF container # "class" \/ decls[i].static \/ decls[i].kind \in {"static_method", "constant"}
    THEN Runs(i, "none", args)
    ELSE IF decls[i].kind = "class_method" THEN Runs(i, "class", args)
    ELSE IF via = "class" THEN Runs(i, Head(args), Tail(args))
    ELSE Runs(i, "instance", args)

\* Declarations of the same name that may hide one: any other, but an accessor of another use.
Rivals(container, decls, i, via, use) ==
    {j \in Declaring(decls, decls[i].name) \ {i} :
        \/ container # "class"
        \/ \E k \in {i, j} : decls[k].static \/ decls[k].kind \notin AccessorKinds
        \/ use \in UsesOf(decls[j], via)}

Vias(container) ==
    CASE container = "module" -> {"module"}
      [] container = "object" -> {"instance"}
      [] container = "class" -> {"instance", "class"}
Passed(use) == CASE use = "call" -> <<"a", "b">> [] use = "set" -> <<"a">> [] OTHER -> <<>>
Own(container, decls, name) == Attribute(container, decls, name).is = "own"

\* Members are collected one by one, realised in order into a dict, wrapped by builtins and
\* bound by descriptors, and each step goes by position.  What a guest reaches under a name
\* was declared with it and for that use, and its function gets the receiver and the
\* arguments that its declaration promises; and what nothing else of its name can hide is
\* reached (host/namespace.rs, host/class.rs and imports/realise.rs, module_getattr).
DeclaredIsReached ==
    case.kind = "declare" /\ case.accepted =>
        \A name \in {case.decls[i].name : i \in DOMAIN case.decls} \cup {"y"},
           via \in Vias(case.container), use \in AttributeUses :
            LET run == UseAttribute(case.container, case.decls, name, via, use, Passed(use))
            IN /\ run # Fails =>
                      \/ /\ case.decls[run.of].name = name
                         /\ use \in UsesOf(case.decls[run.of], via)
                         /\ run = Promised(case.container, case.decls, run.of, via, Passed(use))
                      \/ case.decls[run.of].name = "__getattr__" /\ run = Runs(run.of, "none", <<name>>)
               /\ \A i \in Declaring(case.decls, name) :
                      /\ use \in UsesOf(case.decls[i], via)
                      /\ Rivals(case.container, case.decls, i, via, use) = {}
                      /\ ~Own(case.container, case.decls, name)
                      => run.of = i

\* All the annotations of an object are what each of them is, and when they cannot be told
\* there is one that cannot, although only the others are asked (handle/traits.rs, Annotated).
AnnotationsAgree ==
    case.kind = "reflect" =>
        LET One(name) == Annotation(case.heap, case.object, name)
        IN IF case.listed.r = "ok"
           THEN \A i \in DOMAIN case.listed.v : One(case.listed.v[i][1]) = Ok(Some(case.listed.v[i][2]))
           ELSE LET dict == case.heap[GetAttr(case.heap, case.object, "__annotations__").v]
                IN dict.is = "dict" => \E i \in DOMAIN dict.items : One(dict.items[i][1]) = case.listed

\* A generic base is told of a base of the class, as the nearest of its ancestors that has any
\* names it, and of none that it does not name (handle/traits.rs, TypeProtocol).
GenericBasesAgree ==
    case.kind = "reflect" /\ case.heap[case.object].is = "class" =>
        LET has == {i \in DOMAIN case.heap[case.object].lineage :
                        "__orig_bases__" \in DOMAIN case.heap[case.heap[case.object].lineage[i]].attrs}
            nearest == case.heap[case.heap[case.object].lineage[Min(has)]]
            named == IF has = {} THEN {} ELSE ToSet(case.heap[nearest.attrs["__orig_bases__"]].items)
            of == {b \in named : AliasOrigin(case.heap, b) = Ok(case.base)}
        IN CASE case.alias.r # "ok" -> \E b \in named : AliasOrigin(case.heap, b) = case.alias
             [] case.alias.r = "ok" /\ case.alias.v = None -> of = {}
             [] OTHER -> /\ case.alias.v.v \in of
                         /\ case.base \in ToSet(case.heap[case.object].lineage)

\* A facade's method is the guest's attribute of its name, or a call of it that passes to each
\* place the argument of the parameter declared there (guest/member.rs, render, and
\* handle/traits.rs, call_method).
FacadesServe ==
    case.kind = "facade" =>
        LET there == GetAttr(case.heap, case.object, GuestName(case.member))
            asked == [i \in DOMAIN case.member.params |-> case.given[case.member.params[i]]]
        IN IF case.member.is = "value" \/ there.r # "ok" THEN case.result = there
           ELSE /\ case.result = CallWith(case.heap, there.v, asked, <<>>)
                /\ case.result.r = "ok" => \A i \in DOMAIN asked : asked[i] = Ok(case.result.v[i])

\* What is declared to be reached by name is reached: the host's members by the guest, and the
\* guest's by the host.
MembersAreReached == DeclaredIsReached /\ AnnotationsAgree /\ GenericBasesAgree /\ FacadesServe

-----------------------------------------------------------------------------
\* The modules of a guest, and what their functions and classes require when they are called.
Bound == Modules(case.runtime, case.guest)
Resolves(owner, required) == Satisfies(Bound[OwningModule(Bound, owner)], required)

\* A guest is refused for a reason; in one that is not, whatever a function of a module or of
\* a class asks of its own module when it is called is there, and it is the module that
\* brought it: modules hide one another by name, while a class stays with the first of them
\* (imports/bindings.rs, new; host/context.rs, owning_module; host/state.rs, from_context).
StateIsFound ==
    /\ case.admitted =>
           /\ \A i \in DOMAIN Bound :
                  LET owner == [is |-> "module", name |-> Bound[i].name]
                  IN OwningModule(Bound, owner) = i => Resolves(owner, Bound[i].requires)
           /\ \A i \in DOMAIN Bound : \A c \in LineageOf(Bound[i]) :
                  LET owner == [is |-> "class", class |-> c]
                  IN Requires(c) # {} => OwningModule(Bound, owner) = i /\ Resolves(owner, Requires(c))
    /\ ~case.admitted =>
           \E i \in DOMAIN Bound :
               \/ Bound[i].name = "guestpy"
               \/ ~Satisfies(Bound[i], Bound[i].requires)
               \/ \E c \in LineageOf(Bound[i]) :
                      Requires(c) # {} /\ (~Satisfies(Bound[i], Requires(c)) \/ \E j \in DOMAIN Bound \ {i} : c \in LineageOf(Bound[j]))

\* Wherever a library lists it, an initializer runs when the hook of every module has, and
\* nothing runs after a failure (guest/builder.rs, build).
RunsInOrder ==
    \A i, j \in DOMAIN case.ran :
        i < j => /\ case.ran[i].hook # "fails"
                 /\ case.ran[j].is = "module" => case.ran[i].is = "module"

\* What a guest is built of is all there when its code runs.
GuestsAreWhole == case.kind = "guest" => StateIsFound /\ RunsInOrder

-----------------------------------------------------------------------------
\* Whatever fails while an error is turned into an exception, the guest gets an exception:
\* the error, the reason it cannot be raised, or SystemError, and so for every cause
\* (guest/errors.rs, convert and fallback).
AlwaysRaises == case.kind = "raise" => IsException(case.exception)

\* A class and its bases: the least set that has the class, and the base of whatever it has.
Bases(specs, class) ==
    LET known == {class} \cup {s.base : s \in specs}
    IN {c \in known : \A up \in SUBSET known :
            class \in up /\ (\A s \in specs : s.key \in up => s.base \in up) => c \in up}

\* No two classes have one dotted name, and none has that of a class of Python's own.
DistinctNames(specs) ==
    /\ \A s \in specs, name \in BuiltinExceptions : Qualified(s.module, s.key.name) # Qualified("builtins", name)
    /\ \A s, d \in specs : s # d => Qualified(s.module, s.key.name) # Qualified(d.module, d.key.name)

\* A class matches an exception exactly when it is the class raised or one of its declared
\* bases, although the guest's exception is known only by the dotted names of its classes
\* (errors.rs, GuestException::matches; catalog.rs, exception_types).
MatchesAsDeclared ==
    /\ case.kind = "raise" /\ case.error[1].error = "raise" /\ DistinctNames(case.specs)
    /\ case.exception[1][1].ref = case.error[1].class /\ case.error[1].class.ref # "guest"
    => \A s \in case.specs :
           Matches(case.specs, s.key, case.exception[1]) <=> s.key \in Bases(case.specs, case.error[1].class)

\* `except Exception` in a guest stops every error of the host's but those that must end the
\* guest: a timeout, a cancellation, an interrupt and a closed guest (host/exception.rs,
\* FatalExceptions; errors.rs, is_fatal).
OnlyFatalEscapes ==
    case.kind = "raise" /\ case.error[1].error \notin {"raise", "guest"} =>
        (Builtin("Exception") \notin Refs(case.exception[1]) <=> case.error[1].error \in Fatal)

\* Every error of the host's is an exception in the guest, and what catches it is what its
\* declarations say: the classes declared, in the host that gets it back, and
\* `except Exception` in a guest, unless the guest must end.
RaisesAsDeclared == AlwaysRaises /\ MatchesAsDeclared /\ OnlyFatalEscapes
=============================================================================
