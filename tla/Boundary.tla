------------------------------- MODULE Boundary -------------------------------
(***************************************************************************)
(* What crosses the boundary between host and guest.  A behaviour takes    *)
(* one case, of Interfaces or a value copied either way or an error, and   *)
(* ends with its result; the invariants compare it with what is promised.  *)
(* What is shared and not copied goes on being used: a behaviour that      *)
(* takes instances of host classes goes on as Instances does, and one that *)
(* takes a generator of the guest's as GuestStreams.                       *)
(***************************************************************************)
EXTENDS Interfaces, Serde, ExceptionFields, Instances, GuestStreams

CONSTANTS
    Types, Streams, SerdeTypes,     \* host types converted both ways, only taken, and by serde
    HostValues(_), SerdeValues(_),  \* values of these types
    GuestValues,
    ExceptionModules,               \* modules that declare structs which derive HostException
    FieldValues(_),                 \* the values of a field
    GuestExceptions(_)              \* what guests raise, of classes that the host declares

sharedVars == <<instanceVars, streamVars>>
vars == <<case, sharedVars>>

\* A generator is chosen with its case.
Init ==
    /\ InterfacesInit
    /\ InstancesInit
    /\ StreamsInit /\ ~generator.async

\* The host gives a value to the guest, and takes it back.
Give ==
    Unchosen /\ \E T \in Types, engine \in Engines : \E v \in HostValues(T) :
        LET given == ToGuest(T, v)
        IN given.r = "ok" /\ Chosen([kind |-> "give", type |-> T, value |-> v,
                                     back |-> FromGuest(engine, T, given.v)])

\* The host takes a value of the guest's.
Take ==
    Unchosen /\ \E T \in Types \cup Streams, g \in GuestValues, engine \in Engines :
        Chosen([kind |-> "take", type |-> T, value |-> g, engine |-> engine,
                taken |-> FromGuest(engine, T, g)])

\* The same with a type's serde representation.
GiveSerde ==
    Unchosen /\ \E T \in SerdeTypes, engine \in Engines : \E v \in SerdeValues(T) :
        LET given == Serialize(T, v)
        IN given.r = "ok" /\ Chosen([kind |-> "give_serde", type |-> T, value |-> v,
                                     back |-> Deserialize(engine, T, given.v)])

TakeSerde ==
    Unchosen /\ \E T \in SerdeTypes, g \in GuestValues, engine \in Engines :
        Chosen([kind |-> "take_serde", type |-> T, value |-> g, engine |-> engine,
                taken |-> Deserialize(engine, T, g)])

\* Modules whose structs all derive.
Derivable == {m \in ExceptionModules : \A s \in StructsOf(m) : Derives(s)}

\* The host raises a struct in a guest, or a guest an exception of its own, and the host
\* catches it as one of its structs.
RaiseFields ==
    Unchosen /\ \E modules \in Derivable, built, engine, scope \in Engines :
        \E struct, as \in StructsOf(modules) : \E values \in FieldValues(struct) :
            LET specs == DeclaredBy(modules)
                object == Deliver(specs, built, engine, struct, values)
            IN Chosen([kind |-> "host_raise", specs |-> specs, struct |-> struct, values |-> values,
                       object |-> object, as |-> as, here |-> {built, engine, scope} = {engine},
                       caught |-> Caught(specs, engine, scope, as, object)])

CatchFields ==
    Unchosen /\ \E specs \in {DeclaredBy(m) : m \in Derivable}, engine \in Engines :
        \E as \in UNION {StructsOf(m) : m \in {m \in Derivable : DeclaredBy(m) = specs}},
           object \in GuestExceptions(specs) :
            Chosen([kind |-> "guest_raise", specs |-> specs, object |-> object, as |-> as,
                    caught |-> Caught(specs, engine, engine, as, object)])

\* Instances of host classes are made, initialised and borrowed.
Share ==
    \/ Unchosen /\ Chosen([kind |-> "instances"]) /\ UNCHANGED sharedVars
    \/ case.kind = "instances" /\ InstancesNext /\ UNCHANGED <<case, streamVars>>

\* Readers share a generator of the guest's.
ReadGenerator ==
    \/ Unchosen /\ Chosen([kind |-> "generator"]) /\ generator' \in Generators
       /\ UNCHANGED <<instanceVars, steps, current, open>>
    \/ case.kind = "generator" /\ StreamsNext /\ UNCHANGED <<case, instanceVars>>

Next ==
    \/ UNCHANGED sharedVars /\ InterfacesNext
    \/ UNCHANGED sharedVars /\ Give
    \/ UNCHANGED sharedVars /\ Take
    \/ UNCHANGED sharedVars /\ GiveSerde
    \/ UNCHANGED sharedVars /\ TakeSerde
    \/ UNCHANGED sharedVars /\ RaiseFields
    \/ UNCHANGED sharedVars /\ CatchFields
    \/ Share
    \/ ReadGenerator

Spec == Init /\ [][Next]_vars

-----------------------------------------------------------------------------
\* The types of the guest values that a host type gives and takes.
RECURSIVE Gives(_)
Gives(T) ==
    CASE T.k = "unit" -> {"none"}
      [] T.k = "bool" -> {"bool"}
      [] T.k \in {"signed", "unsigned"} -> {"int"}
      [] T.k \in {"float", "single"} -> {"float"}
      [] T.k \in {"string", "char"} -> {"str"}
      [] T.k \in {"vec", "array"} -> {"list"}
      [] T.k = "pair" -> {"tuple"}
      [] T.k = "map" -> {"dict"}
      [] T.k = "hashset" -> {"set"}
      [] T.k = "option" -> {"none"} \cup Gives(T.of)
      [] T.k = "union" -> Gives(T.of) \cup Gives(T.with)

RECURSIVE Takes(_)
Takes(T) ==
    CASE T.k \in {"signed", "unsigned"} -> {"int", "bool"}
      [] T.k \in {"float", "single"} -> {"float", "int", "bool"}
      [] T.k = "vec" -> {"list", "tuple"}
      [] T.k = "option" -> {"none"} \cup Takes(T.of)
      [] T.k = "union" -> Takes(T.of) \cup Takes(T.with)
      [] OTHER -> Gives(T)

\* Types whose values the guest cannot tell apart: an Option of what may be None, a union
\* whose first variant takes what its second gives, and keys that are numbers of two types.
RECURSIVE Ambiguous(_)
Ambiguous(T) ==
    \/ T.k = "option" /\ "none" \in Gives(T.of)
    \/ T.k = "union" /\ Takes(T.of) \cap Gives(T.with) # {}
    \/ T.k = "hashset" /\ Cardinality(Gives(T.of) \cap Numbers) > 1
    \/ T.k = "map" /\ Cardinality(Gives(T.key) \cap Numbers) > 1
    \/ "of" \in DOMAIN T /\ Ambiguous(T.of)
    \/ "with" \in DOMAIN T /\ Ambiguous(T.with)
    \/ "key" \in DOMAIN T /\ Ambiguous(T.key)

RECURSIVE HasSingle(_)
HasSingle(T) ==
    T = Single \/ \E part \in (DOMAIN T) \cap {"of", "with", "key"} : HasSingle(T[part])

\* The numbers with a significand of so many bits, and those of them that are closest to n.
Floats(bits) ==
    {n \in -Infinity..Infinity : \E e \in 0..Reach : n % 2 ^ e = 0 /\ Size(n) < 2 ^ (bits + e)}
Closest(bits, n) == {m \in Floats(bits) : \A k \in Floats(bits) : Size(n - m) <= Size(n - k)}

\* What may stand for n where a type has only floats of so many bits, below 2^reach.
StandsFor(bits, reach, n, m) ==
    \E k \in Closest(bits, n) : m = IF Size(k) < 2 ^ reach THEN k ELSE IF n < 0 THEN -Infinity ELSE Infinity

\* The same value: lists and tuples are both sequences, and a float stands for an int, or, where
\* there is an f32 on the way, an f32 for any number.
RECURSIVE Alike(_, _, _)
Alike(single, g, h) ==
    CASE g.t \in Numbers /\ h.t \in Numbers ->
             \/ h.n = g.n
             \/ h.t = "float" /\ g.t # "float" /\ StandsFor(Exact, Reach + 1, g.n, h.n)
             \/ h.t = "float" /\ single /\ StandsFor(Coarse, Reach, g.n, h.n)
      [] g.t \in {"list", "tuple"} /\ h.t \in {"list", "tuple"} ->
             /\ Len(g.items) = Len(h.items)
             /\ \A i \in DOMAIN g.items : Alike(single, g.items[i], h.items[i])
      [] g.t = "set" /\ h.t = "set" ->
             /\ \A x \in g.elements : \E y \in h.elements : Alike(single, x, y)
             /\ \A y \in h.elements : \E x \in g.elements : Alike(single, x, y)
      [] g.t = "dict" /\ h.t = "dict" ->
             LET Both(x, y) == Alike(single, x[1], y[1]) /\ Alike(single, x[2], y[2])
             IN /\ \A x \in g.pairs : \E y \in h.pairs : Both(x, y)
                /\ \A y \in h.pairs : \E x \in g.pairs : Both(x, y)
      [] OTHER -> g = h

\* A guest value that the host accepts is the guest's own value when it is given back: no int
\* truncated or wrapped to the width of its type, no element dropped (signed_int and
\* unsigned_int of marshal/primitives.rs, the loops of collections.rs).  Only where the host's
\* type is a float does a number give way, to the closest of that type: an int beyond the
\* significand of f64, and any number where the type is f32, which is narrowed unasked and is
\* infinite if it is too large (primitives.rs:212, 216 and 250).
CopiesAreFaithful ==
    case.kind = "take" /\ case.type \notin Streams /\ case.taken.r = "ok" =>
        LET again == ToGuest(case.type, case.taken.v)
        IN again.r = "ok" => Alike(HasSingle(case.type), case.value, again.v)

-----------------------------------------------------------------------------
\* The variants of a union, those of the unions among them in their places.
RECURSIVE Leaves(_)
Leaves(T) == IF T.k = "union" THEN Leaves(T.of) \o Leaves(T.with) ELSE <<T>>

\* The variant that a value of a union is of, and what it holds.
RECURSIVE Leaf(_, _)
Leaf(T, v) ==
    IF T.k # "union" THEN [at |-> 1, v |-> v]
    ELSE IF v.i = 1 THEN Leaf(T.of, v.v)
    ELSE LET leaf == Leaf(T.with, v.v) IN [leaf EXCEPT !.at = @ + Len(Leaves(T.of))]

\* A union, however nested, is a single choice: the first variant that does not answer with a
\* mismatch decides, its error reaches the caller and no later variant hides it (README.md:439
\* "tries variants in declaration order ... A conversion mismatch continues to the next
\* variant, while guest exceptions and other failures return immediately").
UnionSelectsFirst ==
    case.kind = "take" /\ case.type.k = "union" /\ case.value.t # "iterator" =>
        LET results == [i \in DOMAIN Leaves(case.type) |->
                            FromGuest(case.engine, Leaves(case.type)[i], case.value)]
            decides == {i \in DOMAIN results : results[i].r # "conversion"}
            first == CHOOSE i \in decides : \A j \in decides : i <= j
        IN IF decides = {} THEN case.taken.r = "conversion"
           ELSE /\ case.taken.r = results[first].r
                /\ case.taken.r = "ok" =>
                       Leaf(case.type, case.taken.v) = [at |-> first, v |-> results[first].v]

-----------------------------------------------------------------------------
\* Types of which some value is serialised as None.
RECURSIVE Nullable(_)
Nullable(T) == T.k \in {"unit", "option"} \/ (T.k = "newtype" /\ Nullable(T.of))

RECURSIVE NullHidden(_)
NullHidden(T) ==
    \/ T.k = "option" /\ Nullable(T.of)
    \/ \E part \in (DOMAIN T) \cap {"of", "with", "key"} : NullHidden(T[part])
    \/ "fields" \in DOMAIN T /\ \E i \in DOMAIN T.fields : NullHidden(T.fields[i].of)
    \/ /\ "variants" \in DOMAIN T
       /\ \E i \in DOMAIN T.variants : T.variants[i].shape # "unit" /\ NullHidden(T.variants[i].of)

\* A value that the host gives the guest and takes back is the same value: converted, for each
\* type whose values the guest can tell apart (the pairs of ToGuest and FromGuest in
\* marshal/primitives.rs, marshal/collections.rs and derive.rs, and the integer accessors of
\* both backends), or by serde, unless an Option hides what is itself None (marshal/serde.rs,
\* whose deserializer guesses from the guest's value what the serializer made it from).
ComesBack ==
    /\ case.kind = "give" /\ ~Ambiguous(case.type) => case.back = Ok(case.value)
    /\ case.kind = "give_serde" /\ ~NullHidden(case.type) => case.back = Ok(case.value)

\* Whichever side the value is from, it arrives as what it is, or as the closest float.
ConversionsAreFaithful == ComesBack /\ CopiesAreFaithful

\* A guest value with no bool in it.
RECURSIVE NoBool(_)
NoBool(g) ==
    CASE g.t = "bool" -> FALSE
      [] g.t \in {"list", "tuple"} -> \A i \in DOMAIN g.items : NoBool(g.items[i])
      [] g.t = "set" -> \A e \in g.elements : NoBool(e)
      [] g.t = "dict" -> \A p \in g.pairs : NoBool(p[1]) /\ NoBool(p[2])
      [] OTHER -> TRUE

\* Wrapping a type in Serde refuses nothing that the type itself accepts, and reads it as the
\* same value, but for a bool where a number is wanted (marshal/serde.rs, deserialize_any,
\* against marshal/primitives.rs and collections.rs).
SerdeWidens ==
    case.kind = "take_serde" /\ case.type \in Types /\ NoBool(case.value) =>
        LET direct == FromGuest(case.engine, case.type, case.value)
        IN direct.r = "ok" => case.taken = direct

-----------------------------------------------------------------------------
\* A struct whose fields get in each other's way: two attributes of one name, one that is
\* Python's own, or arguments that an OSError takes for a file's.
Clashes(specs, struct) ==
    LET names == [i \in DOMAIN struct.fields |-> NameOf(struct.fields[i])]
        attrs == {i \in DOMAIN struct.fields : ~struct.fields[i].arg}
    IN \/ \E i, j \in attrs : i # j /\ names[i] = names[j]
       \/ \E i \in attrs : names[i] \in {"args", "__cause__"}
       \/ Builtin("OSError") \in Bases(specs, ClassOf(struct)) /\ Len(struct.fields) - Cardinality(attrs) > 2

\* The field of one struct that is at the place of a field of another.
Counterpart(struct, i, as, j) ==
    LET f == struct.fields[i]  g == as.fields[j]
    IN /\ f.arg = g.arg /\ f.type = g.type
       /\ IF f.arg THEN NumberOf(struct.fields, i) = NumberOf(as.fields, j) ELSE NameOf(f) = NameOf(g)

\* A struct of a declared chain that is raised in a guest is caught as the struct itself and as
\* every struct that it declares as a base, and as no other; each field that the two agree on
\* comes back with its value, although the numbers of one derive and the names of another meet
\* only in the guest's exception (into_raise and from_raised of host/exception.rs).
FieldsComeBack ==
    /\ case.kind = "host_raise" /\ case.here
    /\ Realise(case.specs, ClassOf(case.struct)).made /\ ~Clashes(case.specs, case.struct)
    =>  /\ case.caught = NotCaught <=>
               ClassOf(case.as) \notin Bases(case.specs, ClassOf(case.struct))
        /\ case.caught # NotCaught /\ (\A j \in DOMAIN case.as.fields :
               \E i \in DOMAIN case.struct.fields : Counterpart(case.struct, i, case.as, j)) =>
               /\ case.caught.r = "ok"
               /\ \A i \in DOMAIN case.struct.fields, j \in DOMAIN case.as.fields :
                      Counterpart(case.struct, i, case.as, j) => case.caught.v[j] = case.values[i]

\* What is raised for one backend, or caught by it, is never read in another.
StaysInBackend == case.kind = "host_raise" /\ ~case.here => case.caught.r # "ok"

\* An exception that the host catches and raises again tells the guest what it told the host:
\* the arguments and attributes that the struct has are those of the guest's own exception.
RaisedAgain ==
    case.kind = "guest_raise" /\ case.caught.r = "ok" /\ ~Clashes(case.specs, case.as) =>
        LET again == RaiseStruct(case.specs, case.as, case.caught.v)
        IN /\ again.made
           /\ Len(again.is.args) <= Len(case.object.args)
           /\ \A n \in DOMAIN again.is.args : Alike(FALSE, case.object.args[n], again.is.args[n])
           /\ \A name \in DOMAIN again.is.attrs :
                  Alike(FALSE, case.object.attrs[name], again.is.attrs[name])

\* Typed exceptions keep their fields, in both directions and between backends.
FieldsAreKept == FieldsComeBack /\ StaysInBackend /\ RaisedAgain
=============================================================================
