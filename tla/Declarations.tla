---------------------------- MODULE Declarations ----------------------------
(***************************************************************************)
(* What the host declares, and what guests get of it (guestpy-core, host/; *)
(* runtime.rs, guest/builder.rs): the members of a module, of a nested     *)
(* object and of a class, each at its place in the order of declaration;   *)
(* how a use of one reaches the host's function; and the modules, hooks    *)
(* and initializers that a runtime and a guest are built of.               *)
(***************************************************************************)
EXTENDS Integers, SequencesExt

CONSTANTS
    Lineage(_),     \* a host class and its host bases, as host_lineage lists them
    Requires(_)     \* the types of module state that a class requires

-----------------------------------------------------------------------------
(* Declarations, in the order in which they are made.                      *)

\* One that declares a constant stands for an object, a class and an exception as well.
Declaration(kind, name) == [kind |-> kind, name |-> name, static |-> FALSE]
Static(declaration) == [declaration EXCEPT !.static = TRUE]

NamespaceKinds == {"constant", "function", "async_function", "getter", "property"}
ModuleKinds == NamespaceKinds \ {"property"}
AccessorKinds == {"getter", "setter", "deleter", "property"}
ClassKinds ==
    AccessorKinds \cup {"constant", "method", "async_method", "class_method", "static_method"}

\* What each of the containers may declare; a class sets its statics on the class object.
Containers == {"module", "object", "class"}
DeclarationsOf(container) ==
    [kind: CASE container = "module" -> ModuleKinds
             [] container = "object" -> NamespaceKinds
             [] container = "class" -> ClassKinds,
     name: STRING, static: {FALSE}]
    \cup IF container = "class" THEN [kind: NamespaceKinds, name: STRING, static: {TRUE}] ELSE {}

Declaring(decls, name) == {i \in DOMAIN decls : decls[i].name = name}
Statics(decls) == {i \in DOMAIN decls : decls[i].static}

\* Special methods, of which those that give their result to the guest's expression may be async.
AcceptsAwaitable ==
    {"__call__", "__eq__", "__ne__", "__lt__", "__le__", "__gt__", "__ge__", "__getitem__",
     "__next__", "__enter__", "__aenter__", "__aexit__", "__anext__", "__await__", "__getattr__",
     "__add__", "__sub__", "__mul__", "__truediv__", "__floordiv__", "__mod__", "__pow__",
     "__neg__", "__abs__"}
Dunders ==
    AcceptsAwaitable \cup
    {"__repr__", "__str__", "__bool__", "__hash__", "__len__", "__setitem__", "__delitem__",
     "__contains__", "__iter__", "__exit__", "__aiter__", "__setattr__", "__delattr__",
     "__index__", "__int__", "__float__", "__format__"}

-----------------------------------------------------------------------------
(* Attributes.                                                             *)

\* What an attribute holds: a value, a function or method of the backend, or one of them
\* wrapped by a builtin; `of` is the place of its declaration, or of its getter.
Holding(is, i) == [is |-> is, of |-> i, set |-> 0, del |-> 0]
Property(get, set, del) == [is |-> "property", of |-> get, set |-> set, del |-> del]
Missing == Holding("missing", 0)

\* DeclareMember::realise, for what a Namespace declares.
RealiseMember(decls, i) ==
    CASE decls[i].kind = "constant" -> Holding("value", i)
      [] decls[i].kind \in {"function", "async_function"} -> Holding("function", i)
      [] decls[i].kind = "getter" -> Property(i, 0, 0)
      [] decls[i].kind = "property" -> Property(i, i, 0)

\* A nested object: an instance of a class made of its members' dict.
ObjectAttribute(decls, name) ==
    IF Declaring(decls, name) = {} THEN Missing
    ELSE RealiseMember(decls, Max(Declaring(decls, name)))

\* A module: what is set, and for the getters the module's __getattr__, which Python asks for
\* names that are not set.
Getters(decls) == {i \in DOMAIN decls : decls[i].kind = "getter"}
ValuesOf(decls, name) == Declaring(decls, name) \ Getters(decls)

ModuleGetattr(decls, name) ==
    LET getters == Declaring(decls, name) \cap Getters(decls)
        asked == ValuesOf(decls, "__getattr__")
    IN IF getters # {} THEN Holding("got", Min(getters))
       ELSE IF Getters(decls) = {} /\ asked # {} /\ decls[Max(asked)].kind # "constant"
            THEN Holding("asked", Max(asked))
       ELSE Missing

ModuleAttribute(decls, name) ==
    IF name = "__getattr__" /\ Getters(decls) # {} THEN Holding("own", 0)
    ELSE IF ValuesOf(decls, name) # {} THEN RealiseMember(decls, Max(ValuesOf(decls, name)))
    ELSE ModuleGetattr(decls, name)

-----------------------------------------------------------------------------
(* The builder of a class.                                                 *)

NewBuilder == [members |-> <<>>, slots |-> <<>>, error |-> 0]

PushMember(builder, decls, i, is) ==
    [builder EXCEPT !.members = Append(@, [name |-> decls[i].name, of |-> i, is |-> is])]

\* push_async: the first error is the one that finish reports.
PushAsync(builder, decls, i) ==
    LET name == decls[i].name
    IN [PushMember(builder, decls, i, "method") EXCEPT
           !.error = IF @ = 0 /\ name \in Dunders /\ name \notin AcceptsAwaitable THEN i ELSE @]

\* property_slot: the member is pushed with its first accessor.
SlotOf(builder, name) == {k \in DOMAIN builder.slots : builder.slots[k].name = name}

PropertySlot(builder, name) ==
    IF SlotOf(builder, name) # {} THEN builder
    ELSE [builder EXCEPT !.members = Append(@, [name |-> name, of |-> 0, is |-> "slot"]),
                         !.slots = Append(@, [name |-> name, holds |-> Property(0, 0, 0)])]

SetSlot(builder, decls, i) ==
    LET k == CHOOSE k \in SlotOf(builder, decls[i].name) : TRUE
        kind == decls[i].kind
    IN [builder EXCEPT !.slots[k].holds =
            Property(IF kind \in {"getter", "property"} THEN i ELSE @.of,
                     IF kind \in {"setter", "property"} THEN i ELSE @.set,
                     IF kind = "deleter" THEN i ELSE @.del)]

Declare(builder, decls, i) ==
    IF decls[i].static THEN builder
    ELSE CASE decls[i].kind = "async_method" -> PushAsync(builder, decls, i)
           [] decls[i].kind \in AccessorKinds -> SetSlot(PropertySlot(builder, decls[i].name), decls, i)
           [] decls[i].kind = "constant" -> PushMember(builder, decls, i, "value")
           [] decls[i].kind = "method" -> PushMember(builder, decls, i, "method")
           [] decls[i].kind = "class_method" -> PushMember(builder, decls, i, "classmethod")
           [] decls[i].kind = "static_method" -> PushMember(builder, decls, i, "staticmethod")

\* The builder after each number of declarations.
Building(decls) ==
    LET built[n \in 0..Len(decls)] == IF n = 0 THEN NewBuilder ELSE Declare(built[n - 1], decls, n)
    IN built
BuiltOf(decls) == Building(decls)[Len(decls)]

\* finish
Accepted(decls) == BuiltOf(decls).error = 0

\* The namespace of the class, and then its statics, set on the class object.
ClassAttribute(decls, name) ==
    LET builder == BuiltOf(decls)
        members == {k \in DOMAIN builder.members : builder.members[k].name = name}
        member == builder.members[Max(members)]
        statics == Declaring(decls, name) \cap Statics(decls)
    IN IF statics # {} THEN RealiseMember(decls, Max(statics))
       ELSE IF name \in {"__new__", "__init__", "__doc__", "__module__"} THEN Holding("own", 0)
       ELSE IF members = {} THEN Missing
       ELSE IF member.is = "slot"
            THEN builder.slots[CHOOSE k \in SlotOf(builder, name) : TRUE].holds
       ELSE Holding(member.is, member.of)

Attribute(container, decls, name) ==
    CASE container = "module" -> ModuleAttribute(decls, name)
      [] container = "object" -> ObjectAttribute(decls, name)
      [] container = "class" -> ClassAttribute(decls, name)

-----------------------------------------------------------------------------
(* A guest's use of an attribute, through a module, an instance or a class. *)

AttributeUses == {"call", "get", "set", "delete"}

\* The function of a declaration runs, with the receiver it is given and its arguments.
Runs(i, receiver, args) == [of |-> i, receiver |-> receiver, args |-> args]
Fails == Runs(0, "none", <<>>)

SplitReceiver(i, positional) ==
    IF positional = <<>> THEN Fails ELSE Runs(i, Head(positional), Tail(positional))

\* What Python and the descriptors of the backends put before the arguments: a method of the
\* backend binds like a function of Python, a function of the backend does not.
BoundTo(holds, via) ==
    CASE holds.is = "method" /\ via = "instance" -> <<"instance">>
      [] holds.is = "classmethod" -> <<"class">>
      [] OTHER -> <<>>

CallAttribute(holds, via, args) ==
    CASE holds.is \in {"method", "classmethod"} -> SplitReceiver(holds.of, BoundTo(holds, via) \o args)
      [] holds.is \in {"staticmethod", "function"} -> Runs(holds.of, "none", args)
      [] OTHER -> Fails

\* An accessor of a class splits the receiver off its arguments, that of a namespace ignores
\* it; a getter of a module is called without it.
GetAttribute(member, holds, via, name) ==
    CASE holds.is = "property" /\ via = "instance" /\ holds.of # 0 ->
             IF member THEN SplitReceiver(holds.of, <<"instance">>) ELSE Runs(holds.of, "none", <<>>)
      [] holds.is \in {"got", "value"} -> Runs(holds.of, "none", <<>>)
      [] holds.is = "asked" -> Runs(holds.of, "none", <<name>>)
      [] OTHER -> Fails

\* Slip: a setter of a namespace takes its first argument for the value.
SetFirst(member, holds, via, value) ==
    LET positional == <<"instance", value>>
    IN IF holds.is # "property" \/ via # "instance" \/ holds.set = 0 THEN Fails
       ELSE IF member THEN SplitReceiver(holds.set, positional)
       ELSE Runs(holds.set, "none", <<positional[1]>>)

SetAttribute(member, holds, via, value) ==
    LET positional == <<"instance", value>>
    IN IF holds.is # "property" \/ via # "instance" \/ holds.set = 0 THEN Fails
       ELSE IF member THEN SplitReceiver(holds.set, positional)
       ELSE Runs(holds.set, "none", <<positional[2]>>)

DeleteAttribute(holds, via) ==
    IF holds.is # "property" \/ via # "instance" \/ holds.del = 0 THEN Fails
    ELSE SplitReceiver(holds.del, <<"instance">>)

UseAttribute(container, decls, name, via, use, args) ==
    LET holds == Attribute(container, decls, name)
        member == container = "class" /\ ~(holds.of \in Statics(decls) \/ holds.set \in Statics(decls))
    IN CASE use = "call" -> CallAttribute(holds, via, args)
         [] use = "get" -> GetAttribute(member, holds, via, name)
         [] use = "set" -> SetAttribute(member, holds, via, args[1])
         [] use = "delete" -> DeleteAttribute(holds, via)

-----------------------------------------------------------------------------
(* What a runtime and a guest are built of.                                *)

\* A library's entries; what a module requires is required by its own functions.
Module(name, state, requires, classes, hook) ==
    [is |-> "module", name |-> name, state |-> state, requires |-> requires,
     classes |-> classes, hook |-> hook]
Initializer(is, hook) == [is |-> is, hook |-> hook]

\* The entries at the positions S, in their order.
Nth(S, n) == CHOOSE i \in S : Cardinality({j \in S : j <= i}) = n
Selected(entries, S) == [n \in 1..Cardinality(S) |-> entries[Nth(S, n)]]

\* `bind` and `bind_native` sort the entries; each kind keeps its order, the runtime's first.
OfKind(runtime, guest, kind) ==
    LET entries == runtime \o guest
    IN Selected(entries, {i \in DOMAIN entries : entries[i].is = kind})
Modules(runtime, guest) == OfKind(runtime, guest, "module")

LineageOf(module) == UNION {Lineage(c) : c \in module.classes}
Satisfies(module, required) == required \subseteq {module.state}

\* ModuleSpec::validate.  Slip: the bases of its classes are not asked.
ValidatesClasses(module) ==
    /\ Satisfies(module, module.requires)
    /\ \A c \in module.classes : Satisfies(module, Requires(c))
Validates(module) ==
    /\ Satisfies(module, module.requires)
    /\ \A c \in LineageOf(module) : Satisfies(module, Requires(c))

\* GuestBindings::new: a name is its last module's, a class is its first module's.
ModulesWith(modules, class) == {i \in DOMAIN modules : class \in LineageOf(modules[i])}
OwnedTwice(modules) ==
    \E c \in UNION {LineageOf(modules[i]) : i \in DOMAIN modules} :
        Requires(c) # {} /\ Cardinality(ModulesWith(modules, c)) > 1

OwningModule(modules, owner) ==
    IF owner.is = "class" THEN Min(ModulesWith(modules, owner.class))
    ELSE Max({i \in DOMAIN modules : modules[i].name = owner.name})

\* FatalExceptions::reserve and the checks of both builders.
Admits(modules) ==
    \A i \in DOMAIN modules : modules[i].name # "guestpy" /\ Validates(modules[i])
AdmitsGuest(runtime, guest) ==
    Admits(Modules(<<>>, guest)) /\ ~OwnedTwice(Modules(runtime, guest))

\* The steps of GuestBuilder::build, up to the first that fails.
Steps(runtime, guest) ==
    LET entries == OfKind(runtime, guest, "module") \o OfKind(runtime, guest, "initializer")
                       \o OfKind(runtime, guest, "native_initializer")
    IN Selected(entries, {i \in DOMAIN entries : entries[i].hook # "none"})
RunUpTo(steps) ==
    LET failing == {i \in DOMAIN steps : steps[i].hook = "fails"}
    IN IF failing = {} THEN steps ELSE SubSeq(steps, 1, Min(failing))
=============================================================================
