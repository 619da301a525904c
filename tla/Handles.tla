------------------------------- MODULE Handles -------------------------------
(***************************************************************************)
(* How the host reaches into guest objects (guestpy-core, handle/, and the *)
(* facades of guestpy-macros, guest/): attributes, annotations, generic    *)
(* bases and calls through a handle, and the methods that guest_class and  *)
(* guest_module generate.                                                  *)
(*                                                                         *)
(* objects maps what may be held to a record of what it is, its own        *)
(* attributes, the objects that Python asks for an attribute, itself       *)
(* first, the entries of a dict or tuple, and the parameters of a          *)
(* function, which returns the tuple of its arguments.  An argument is     *)
(* written as the result of its to_guest.                                  *)
(***************************************************************************)
EXTENDS Results, SequencesExt

\* B::get_attr; has_attr takes every error for an absence.
Holders(objects, o, name) ==
    {i \in DOMAIN objects[o].lineage : name \in DOMAIN objects[objects[o].lineage[i]].attrs}
GetAttr(objects, o, name) ==
    LET holders == Holders(objects, o, name)
    IN IF holders = {} THEN GuestError
       ELSE Ok(objects[objects[o].lineage[Min(holders)]].attrs[name])
HasAttr(objects, o, name) == GetAttr(objects, o, name).r = "ok"

\* FromGuest for the handles of classes and of functions, which may be classes; any object is
\* an Object.
ToClass(objects, o) == IF objects[o].is = "class" THEN Ok(o) ELSE Conversion
ToFunction(objects, o) == IF objects[o].is \in {"class", "function"} THEN Ok(o) ELSE Conversion
HandleTypes == {"class", "function", "object"}
Held(type, objects, o) ==
    CASE type = "class" -> ToClass(objects, o)
      [] type = "function" -> ToFunction(objects, o)
      [] type = "object" -> Ok(o)

-----------------------------------------------------------------------------
\* Annotated.
Annotations(objects, o) ==
    IF ~HasAttr(objects, o, "__annotations__") THEN Ok(<<>>)
    ELSE LET dict == objects[GetAttr(objects, o, "__annotations__").v]
         IN IF dict.is # "dict" THEN GuestError
            ELSE Each(dict.items, LAMBDA entry :
                          Then(ToClass(objects, entry[2]), LAMBDA c : <<entry[1], c>>))

Annotation(objects, o, name) ==
    IF ~HasAttr(objects, o, "__annotations__") THEN Ok(None)
    ELSE LET dict == objects[GetAttr(objects, o, "__annotations__").v]
             found == {i \in DOMAIN dict.items : dict.items[i][1] = name}
         IN IF dict.is # "dict" THEN GuestError
            ELSE IF found = {} THEN Ok(None)
            ELSE Then(ToClass(objects, dict.items[Min(found)][2]), LAMBDA c : Some(c))

-----------------------------------------------------------------------------
\* TypeProtocol's generic bases: what is no alias is left out.
OriginalBases(objects, class) ==
    IF ~HasAttr(objects, class, "__orig_bases__") THEN <<>>
    ELSE objects[GetAttr(objects, class, "__orig_bases__").v].items
GenericBases(objects, class) ==
    LET bases == OriginalBases(objects, class)
    IN {i \in DOMAIN bases : HasAttr(objects, bases[i], "__origin__")}

AliasOrigin(objects, alias) ==
    LET origin == GetAttr(objects, alias, "__origin__")
    IN IF origin.r = "ok" THEN ToClass(objects, origin.v) ELSE origin

\* generic_base_of: the first alias of the class, unless an origin before it is no class.
GenericBaseOf(objects, class, base) ==
    LET bases == OriginalBases(objects, class)
        ends == {i \in GenericBases(objects, class) :
                     AliasOrigin(objects, bases[i]) \in {Ok(base), Conversion, GuestError}}
        first == bases[Min(ends)]
    IN IF ends = {} THEN Ok(None) ELSE Then(AliasOrigin(objects, first), LAMBDA c : Some(first))

\* What Python makes sure of: a dict has a key once, and what a class's bases are aliases of
\* are bases of it.
IsDict(items) ==
    \A i, j \in DOMAIN items : items[i] = <<items[i][1], items[i][2]>> /\ (items[i][1] = items[j][1] => i = j)
IsHeap(objects) ==
    \A o \in DOMAIN objects :
        /\ objects[o].lineage \in Seq(DOMAIN objects)
        /\ objects[o].items \in Seq(ToSet(objects[o].items))
        /\ objects[o].is = "dict" => IsDict(objects[o].items)
        /\ \A name \in DOMAIN objects[o].attrs : objects[o].attrs[name] \in DOMAIN objects
        /\ \A b \in ToSet(OriginalBases(objects, o)), c \in DOMAIN objects :
               objects[o].is = "class" /\ AliasOrigin(objects, b) = Ok(c) => c \in ToSet(objects[o].lineage)

-----------------------------------------------------------------------------
\* ToGuestArgs and ToGuestKwargs: each argument is converted in turn.
IntoArgs(args) == Collect(args)
IntoKwargs(kwargs) ==
    Collect([i \in DOMAIN kwargs |-> Then(kwargs[i][2], LAMBDA v : <<kwargs[i][1], v>>)])

\* B::call puts the named arguments into a dict, where a later one replaces an earlier.
NamedArguments(kwargs) ==
    [name \in {kw[1] : kw \in ToSet(kwargs)} |->
        kwargs[Max({i \in DOMAIN kwargs : kwargs[i][1] = name})][2]]

\* Python's binding: the first parameters by position, and the rest by name.
Calling(objects, f, args, named) ==
    LET params == objects[f].params
        rest == SubSeq(params, Len(args) + 1, Len(params))
    IN IF /\ objects[f].is \in {"class", "function"}
          /\ Len(args) <= Len(params) /\ ToSet(rest) = DOMAIN named
       THEN Ok(args \o [i \in DOMAIN rest |-> named[rest[i]]])
       ELSE GuestError

CallWith(objects, f, args, kwargs) ==
    LET named == IntoKwargs(kwargs)
        given == IntoArgs(args)
    IN IF named.r # "ok" THEN named ELSE IF given.r # "ok" THEN given
       ELSE Calling(objects, f, given.v, NamedArguments(named.v))

CallMethod(objects, o, name, args) ==
    LET method == GetAttr(objects, o, name)
        given == IntoArgs(args)
    IN IF method.r # "ok" THEN method ELSE IF given.r # "ok" THEN given
       ELSE Calling(objects, method.v, given.v, [n \in {} |-> n])

\* Class::construct_as_with.
Construct(objects, class, args, kwargs) == CallWith(objects, class, args, kwargs)

-----------------------------------------------------------------------------
\* The declaration of a facade, its keyword and its members.
FacadeKinds == {"class", "module"}
Member(is, ident, name, params) == [is |-> is, ident |-> ident, name |-> name, params |-> params]
MemberParses(m) == m.is \in {"fn", "value"} /\ (m.is = "value" => m.params = <<>>)
FacadeParses(facade, kind) ==
    facade.keyword = kind /\ \A i \in DOMAIN facade.members : MemberParses(facade.members[i])

\* The methods that render gives a facade beside its members'.
OwnMethods(kind) == IF kind = "class" THEN {"new", "instance", "into_instance"} ELSE {}

\* What rustc asks of the impl: no two methods of one name.
FacadeCompiles(facade) ==
    /\ \A i, j \in DOMAIN facade.members :
           facade.members[i].ident = facade.members[j].ident => i = j
    /\ \A i \in DOMAIN facade.members : facade.members[i].ident \notin OwnMethods(facade.keyword)

GuestName(m) == IF m.name = "" THEN m.ident ELSE m.name

\* A member's method, with the arguments of its parameters.
FacadeArguments(m, given) == [i \in DOMAIN m.params |-> given[m.params[i]]]

FacadeMember(objects, o, m, given) ==
    IF m.is = "value" THEN GetAttr(objects, o, GuestName(m))
    ELSE CallMethod(objects, o, GuestName(m), FacadeArguments(m, given))
=============================================================================
