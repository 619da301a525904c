--------------------------- MODULE HostDefinitions ---------------------------
(***************************************************************************)
(* What #[host_class] and #[host_module] make of a whole impl block        *)
(* (guestpy-macros, host/backend.rs and the from_impl and render of        *)
(* host/class.rs and host/module.rs).  The generated definition is generic *)
(* over a backend B: BackendParameter::resolve decides what B is called    *)
(* and who declares it, capabilities which backend traits the members      *)
(* need, and BackendBounds::absorb takes over what the author's own        *)
(* functions ask of B.  A type parameter is a name, a where predicate the  *)
(* record of a name and the trait it must have.                            *)
(***************************************************************************)
EXTENDS HostMembers, SequencesExt

\* What each backend trait implies, guestpy-core's backend/*.rs.
Supertraits ==
    [t \in {"Backend", "Values", "Callables", "Classes", "Modules", "Coroutines", "Exceptions",
            "Interrupt"} |->
        CASE t = "Backend" -> {"Backend"}
          [] t \in {"Values", "Interrupt"} -> {t, "Backend"}
          [] t = "Classes" -> {t, "Backend", "Values", "Callables"}
          [] OTHER -> {t, "Backend", "Values"}]

Implied(bounds) == UNION {Supertraits[t] : t \in bounds}
Wants(name, bounds) == {[on |-> name, bound |-> t] : t \in bounds}
Asked(name, predicates) == {w.bound : w \in {p \in predicates : p.on = name}}

\* A function with its role, its own type parameters and where clause.  signature is "plain"
\* when it is safe, not variadic and gives a Result.
Function(role, own, wheres, asks) ==
    [role |-> role, receiver |-> "none", signature |-> "plain", own |-> own, wheres |-> wheres,
     borrows |-> asks = "borrow"]

Hooks == {"statics", "init", "object"}
Async == {"async_method", "async_function"}

\* Receiver::of, and Callable::parse of what is not a hook.
BorrowsReceiver(f) == f.receiver # "owned"
GivesResult(f) == f.signature # "no Result"
ValidSignature(f) == f.own = <<>> /\ f.signature \notin {"unsafe", "variadic"}
WellSigned(f) == BorrowsReceiver(f) /\ (f.role \in Hooks \/ (ValidSignature(f) /\ GivesResult(f)))

\* HelperAttributes::is_empty: the functions without an attribute are left as they are.
Exported(item) == {i \in DOMAIN item.functions : item.functions[i].role # "none"}
HasAsync(item) == \E i \in Exported(item) : item.functions[i].role \in Async

\* An impl block as rustc takes it without the attribute: every parameter is declared, and
\* once; a class has no classes or exceptions of its own, and a module no bases.  The name
\* that the macro keeps for itself is nobody's.
Idents == STRING \ {"_"}
Predicates == [on: Idents, bound: DOMAIN Supertraits]
ItemFunctions ==
    [role: STRING, receiver: STRING, signature: STRING, own: Seq(Idents),
     wheres: SUBSET Predicates, borrows: BOOLEAN]
NamesOf(item) == {g.name : g \in ToSet(item.generics)}

WellFormed(item) ==
    /\ item.functions \in Seq(ItemFunctions)
    /\ {"_", "__GuestpyBackend"} \cap NamesOf(item) = {}
    /\ \A i \in DOMAIN item.functions :
           LET f == item.functions[i]
               named == IF item.option.k = "named" THEN {item.option.name} ELSE {}
           IN /\ IsInjective(f.own) /\ ToSet(f.own) \cap NamesOf(item) = {}
              /\ \A w \in f.wheres : w.on \in NamesOf(item) \cup ToSet(f.own) \cup named
    /\ item.kind = "class" => ~item.classes /\ ~item.exceptions
    /\ item.kind = "module" => item.bases = {}

-----------------------------------------------------------------------------
\* BackendOption: backend = <name>, or backend(pin = <type>).
BackendOptions(names) ==
    {[k |-> k, name |-> "_"] : k \in {"none", "pin"}} \cup [k: {"named"}, name: names]

\* BackendParameter.
Declares(item, name) == name \in NamesOf(item)
BoundedInline(item) == \E i \in DOMAIN item.generics : "Backend" \in item.generics[i].bounds

\* Slip: whatever the impl declares, the backend is called as if it did not.
ResolveBlind(item) ==
    CASE item.option.k = "named" -> [k |-> "introduced", name |-> item.option.name]
      [] item.option.k = "pin" -> [k |-> "concrete", name |-> "_"]
      [] OTHER -> [k |-> "synthesized", name |-> "B"]

ResolveBackend(item) ==
    CASE item.option.k = "named" /\ Declares(item, item.option.name) ->
             [k |-> "declared", name |-> item.option.name]
      [] item.option.k = "named" /\ ~Declares(item, item.option.name) ->
             [k |-> "introduced", name |-> item.option.name]
      [] item.option.k = "pin" -> [k |-> "concrete", name |-> "_"]
      [] item.option.k = "none" /\ BoundedInline(item) -> [k |-> "rejected", name |-> "_"]
      [] OTHER -> [k |-> "synthesized",
                   name |-> IF Declares(item, "B") THEN "__GuestpyBackend" ELSE "B"]

\* method_generics and definition_generics: what is declared with the definition.
Adds(backend) == IF backend.k \in {"synthesized", "introduced"} THEN <<backend.name>> ELSE <<>>

\* turbofish, and the calls that give it: a function has just the parameters that are given.
Turbofish(backend) == IF backend.k = "introduced" THEN <<backend.name>> ELSE <<>>
Invokes(backend, f) == Turbofish(backend) # <<>> => f.own = Turbofish(backend)

-----------------------------------------------------------------------------
\* The traits of a class's definition, and of a module's.
ClassCapabilities(async) ==
    {"Backend", "Values", "Callables", "Classes"}
        \cup (IF async THEN {"Modules", "Coroutines", "Exceptions"} ELSE {})

ModuleCapabilities(async, classes, exceptions) ==
    {"Backend", "Values", "Callables"}
        \cup (IF classes THEN {"Classes"} ELSE {})
        \cup (IF async \/ classes \/ exceptions THEN {"Modules"} ELSE {})
        \cup (IF async THEN {"Coroutines", "Exceptions"} ELSE {})

Capabilities(item) ==
    IF item.kind = "class" THEN ClassCapabilities(HasAsync(item))
    ELSE ModuleCapabilities(HasAsync(item), item.classes, item.exceptions)

\* absorb: what the exported functions ask of the backend becomes the definition's.
Absorbed(item, backend) ==
    IF backend.k = "concrete" THEN {}
    ELSE UNION {Asked(backend.name, item.functions[i].wheres) : i \in Exported(item)}

\* A function as it is left: absorb takes its predicates on the backend away, and
\* inject_backend_parameter gives it a backend that it introduces, with all the bounds.
Injected(f, backend, bounds) ==
    [f EXCEPT !.own = Append(@, backend.name), !.wheres = @ \cup Wants(backend.name, bounds)]

Rewritten(f, backend, bounds) ==
    LET left == [f EXCEPT !.wheres = {w \in @ : backend.k = "concrete" \/ w.on # backend.name}]
    IN IF backend.k = "introduced" THEN Injected(left, backend, bounds) ELSE left

\* from_impl: a named type's own impl, at most one constructor or init hook.
AcceptsItem(item) ==
    /\ item.target = "inherent"
    /\ \A i \in Exported(item) : WellSigned(item.functions[i])
    /\ Cardinality({i \in Exported(item) : item.functions[i].role \in {"constructor", "init"}}) <= 1
    /\ ResolveBackend(item).k # "rejected"

\* from_impl and render: the functions as they are rewritten, and the definition's backend,
\* type parameters and where clause.
Define(item) ==
    IF ~AcceptsItem(item) THEN [ok |-> FALSE]
    ELSE LET backend == ResolveBackend(item)
             bounds == Capabilities(item) \cup Absorbed(item, backend)
         IN [ok |-> TRUE, backend |-> backend, adds |-> Adds(backend),
             bounds |-> IF backend.k = "concrete" THEN {} ELSE bounds,
             functions |-> [i \in DOMAIN item.functions |->
                 IF i \in Exported(item) THEN Rewritten(item.functions[i], backend, bounds)
                 ELSE item.functions[i]]]

-----------------------------------------------------------------------------
\* What ClassBuilder and ModuleSpec ask of B for the calls in a rendered body, host/class.rs
\* and host/module.rs; base<P> asks what P's definition asks.
FunctionNeeds(f) ==
    (IF f.role \in Async THEN {"Modules", "Coroutines"} ELSE {})
        \cup (IF f.borrows THEN {"Classes"} ELSE {})

NewNeeds == {"Callables"}
ExceptionNeeds == {"Modules"}
ClassNeeds == {"Classes", "Modules"}

BuilderNeeds(item) ==
    (IF item.kind = "class" THEN {"Classes"} ELSE NewNeeds)
        \cup (IF item.exceptions THEN ExceptionNeeds ELSE {})
        \cup (IF item.classes THEN ClassNeeds ELSE {})

BaseNeeds(item) == UNION {ClassCapabilities(base = "async") : base \in item.bases}

Needs(item) ==
    BuilderNeeds(item) \cup BaseNeeds(item)
        \cup UNION {FunctionNeeds(item.functions[i]) : i \in Exported(item)}

=============================================================================
