-------------------------------- MODULE Values --------------------------------
(***************************************************************************)
(* The copies of values that cross the boundary (guestpy-core,             *)
(* marshal/primitives.rs and marshal/collections.rs, the unions of         *)
(* guestpy-macros, derive.rs, and the values.rs of both backends).         *)
(*                                                                         *)
(* A guest value is a record of its type and its contents; a host type is  *)
(* a record of its kind and its parameters, and its values are written as  *)
(* guest values are, with the kinds of the host.  Widths are scaled down:  *)
(* Wide stands for 64 bits and Narrow for the other widths.  Floats are    *)
(* whole: Exact and Coarse are the bits of the significands of f64 and of  *)
(* f32, and the numbers of f32 stop below 2^Reach.                         *)
(***************************************************************************)
EXTENDS Results, FiniteSets

CONSTANTS Wide, Narrow, Exact, Coarse, Reach

Engines == {"cpython", "rustpython"}

ASSUME WidthAssumption ==
    /\ {Wide, Narrow, Exact, Coarse, Reach} \subseteq Nat \ {0}
    /\ Narrow < Wide /\ Wide < Reach /\ Coarse < Exact

\* Beyond every float that is finite.
Infinity == 2 ^ (Reach + 1)

-----------------------------------------------------------------------------
\* Guest values; a string is a sequence of characters, and Lone one that is no UTF-8.
Lone == "lone surrogate"
Nothing == [t |-> "none"]
Bool(b) == [t |-> "bool", n |-> IF b THEN 1 ELSE 0]
Integer(n) == [t |-> "int", n |-> n]
Float(n) == [t |-> "float", n |-> n]
Str(s) == [t |-> "str", s |-> s]
List(items) == [t |-> "list", items |-> items]
Tuple(items) == [t |-> "tuple", items |-> items]
Iterator(items) == [t |-> "iterator", items |-> items]
Dict(pairs) == [t |-> "dict", pairs |-> pairs]
Set(elements) == [t |-> "set", elements |-> elements]

Numbers == {"bool", "int", "float"}

\* Python's ==, on what may be a key: numbers of any type compare by value.
RECURSIVE SameKey(_, _)
SameKey(g, h) ==
    CASE g.t \in Numbers /\ h.t \in Numbers -> g.n = h.n
      [] g.t = "tuple" /\ h.t = "tuple" ->
             /\ Len(g.items) = Len(h.items)
             /\ \A i \in DOMAIN g.items : SameKey(g.items[i], h.items[i])
      [] OTHER -> g = h

RECURSIVE Hashable(_)
Hashable(g) ==
    IF g.t = "tuple" THEN \A i \in DOMAIN g.items : Hashable(g.items[i])
    ELSE g.t \notin {"list", "dict", "set"}

\* Of pairs whose keys are the same, B::set and B::dict keep one.
KeepOne(pairs) ==
    CHOOSE kept \in SUBSET pairs :
        /\ \A e \in pairs : \E d \in kept : SameKey(d[1], e[1])
        /\ \A d, e \in kept : SameKey(d[1], e[1]) => d = e

-----------------------------------------------------------------------------
\* Host types.
Unit == [k |-> "unit"]
Boolean == [k |-> "bool"]
Signed(bits) == [k |-> "signed", bits |-> bits]
Unsigned(bits) == [k |-> "unsigned", bits |-> bits]
Real == [k |-> "float"]
Single == [k |-> "single"]
String == [k |-> "string"]
Char == [k |-> "char"]
Vec(T) == [k |-> "vec", of |-> T]
Array(T, n) == [k |-> "array", of |-> T, len |-> n]
Pair(T, U) == [k |-> "pair", of |-> T, with |-> U]
Map(K, T) == [k |-> "map", key |-> K, of |-> T]
Iterable(T) == [k |-> "iterable", of |-> T]
HashSet(T) == [k |-> "hashset", of |-> T]
Option(T) == [k |-> "option", of |-> T]
Union(T, U) == [k |-> "union", of |-> T, with |-> U]

\* Host values.
Number(n) == [h |-> "number", n |-> n]
Text(s) == [h |-> "text", s |-> s]
Items(items) == [h |-> "items", items |-> items]
Entries(pairs) == [h |-> "entries", pairs |-> pairs]
Elements(elements) == [h |-> "elements", elements |-> elements]
Variant(i, v) == [h |-> "variant", i |-> i, v |-> v]

Low(T) == IF T.k = "signed" THEN -(2 ^ (T.bits - 1)) ELSE 0
High(T) == IF T.k = "signed" THEN 2 ^ (T.bits - 1) - 1 ELSE 2 ^ T.bits - 1

-----------------------------------------------------------------------------
\* A set in the order the engine iterates it; no property depends on which.
Listed(S) == CHOOSE s \in [1..Cardinality(S) -> S] : {s[i] : i \in DOMAIN s} = S

RECURSIVE ToGuest(_, _)

ToItems(T, items) == Each(items, LAMBDA v : ToGuest(T, v))

ToPair(T, v) == Then(Collect(<<ToGuest(T.of, v.items[1]), ToGuest(T.with, v.items[2])>>), Tuple)

ToGuestSet(T, v) ==
    LET made == ToItems(T.of, Listed(v.elements))
    IN IF made.r = "ok" /\ \E i \in DOMAIN made.v : ~Hashable(made.v[i])
       THEN GuestError
       ELSE Then(made, LAMBDA items :
                     Set({e[1] : e \in KeepOne({<<items[i], Nothing>> : i \in DOMAIN items})}))

\* The keys are converted, and must be hashable, before the values.
ToDict(T, v) ==
    LET entries == Listed(v.pairs)
        keys == ToItems(T.key, [i \in DOMAIN entries |-> entries[i][1]])
        values == ToItems(T.of, [i \in DOMAIN entries |-> entries[i][2]])
    IN IF keys.r # "ok" THEN keys
       ELSE IF \E i \in DOMAIN keys.v : ~Hashable(keys.v[i]) THEN GuestError
       ELSE Then(values, LAMBDA vs : Dict(KeepOne({<<keys.v[i], vs[i]>> : i \in DOMAIN vs})))

\* to_guest.
ToGuest(T, v) ==
    CASE T.k = "unit" -> Ok(Nothing)
      [] T.k = "bool" -> Ok(Bool(v.n = 1))
      [] T.k \in {"signed", "unsigned"} -> Ok(Integer(v.n))
      [] T.k \in {"float", "single"} -> Ok(Float(v.n))
      [] T.k \in {"string", "char"} -> Ok(Str(v.s))
      [] T.k \in {"vec", "array"} -> Then(ToItems(T.of, v.items), List)
      [] T.k = "pair" -> ToPair(T, v)
      [] T.k = "hashset" -> ToGuestSet(T, v)
      [] T.k = "map" -> ToDict(T, v)
      [] T.k = "option" -> IF v.h = "none" THEN Ok(Nothing) ELSE ToGuest(T.of, v.v)
      [] T.k = "union" -> ToGuest(IF v.i = 1 THEN T.of ELSE T.with, v.v)

-----------------------------------------------------------------------------
Size(n) == IF n < 0 THEN -n ELSE n

\* A number as a float: rounded to a significand of so many bits, half to even.
RoundedTo(bits, n) ==
    LET size == Size(n)
        step == 2 ^ (CHOOSE e \in 0..(Reach + 1) :
                         /\ size < 2 ^ (bits + e)
                         /\ e > 0 => size >= 2 ^ (bits + e - 1))
        down == size \div step
        twice == 2 * (size % step)
        near == IF twice > step \/ (twice = step /\ down % 2 = 1) THEN down + 1 ELSE down
    IN IF n < 0 THEN -(near * step) ELSE near * step

\* An int `as f64`, and a number `as f32`: what is too large for one becomes infinite.
Rounded(n) == RoundedTo(Exact, n)
Narrowed(n) ==
    LET near == RoundedTo(Coarse, n)
    IN IF Size(near) < 2 ^ Reach THEN near ELSE IF n < 0 THEN -Infinity ELSE Infinity

IsInt(g) == g.t \in {"bool", "int"}
FitsWide(g) == g.n \in Low(Signed(Wide))..High(Signed(Wide))

\* as_i64 raises OverflowError in the guest; what fits is narrowed.
AsSigned(T, g) ==
    IF ~IsInt(g) THEN Conversion
    ELSE IF ~FitsWide(g) THEN GuestError
    ELSE IF g.n \notin Low(T)..High(T) THEN Conversion
    ELSE Ok(Number(g.n))

\* Slip: an unsigned int is read as a signed one.
AsUnsignedSigned(T, g) ==
    IF ~IsInt(g) THEN Conversion
    ELSE IF ~FitsWide(g) THEN GuestError
    ELSE IF g.n \in Low(T)..High(T) THEN Ok(Number(g.n))
    ELSE Conversion

\* Every error of as_u64 is a conversion.
AsUnsigned(T, g) ==
    IF IsInt(g) /\ g.n \in Low(T)..High(T) THEN Ok(Number(g.n)) ELSE Conversion

AsFloat(g) ==
    IF g.t = "float" THEN Ok(Number(g.n))
    ELSE IF ~IsInt(g) THEN Conversion
    ELSE IF ~FitsWide(g) THEN GuestError
    ELSE Ok(Number(Rounded(g.n)))

\* Nothing asks whether an f32 holds the number.
AsSingle(g) ==
    IF g.t # "float" /\ ~IsInt(g) THEN Conversion
    ELSE IF IsInt(g) /\ ~FitsWide(g) THEN GuestError
    ELSE Ok(Number(Narrowed(g.n)))

\* as_str: CPython raises in the guest, RustPython reports a conversion.
AsText(engine, g) ==
    IF g.t # "str" THEN Conversion
    ELSE IF Lone \in {g.s[i] : i \in DOMAIN g.s}
    THEN IF engine = "cpython" THEN GuestError ELSE Conversion
    ELSE Ok(Text(g.s))

\* What B::iter gives of a value, and whether there is an iterator at all.
IsIterable(g) == g.t \in {"list", "tuple", "set", "dict", "str", "iterator"}
Iterated(g) ==
    CASE g.t \in {"list", "tuple", "iterator"} -> g.items
      [] g.t = "set" -> Listed(g.elements)
      [] g.t = "dict" -> Listed({e[1] : e \in g.pairs})
      [] g.t = "str" -> [i \in DOMAIN g.s |-> Str(<<g.s[i]>>)]

\* A char is a str of one character.
AsChar(engine, g) ==
    LET text == AsText(engine, g)
    IN IF text.r = "ok" /\ Len(g.s) # 1 THEN Conversion ELSE text

RECURSIVE FromGuest(_, _, _)

FromItems(engine, T, items) == Each(items, LAMBDA g : FromGuest(engine, T, g))

FromVec(engine, T, g) ==
    IF g.t \in {"list", "tuple"} THEN Then(FromItems(engine, T.of, g.items), Items)
    ELSE Conversion

FromArray(engine, T, g) ==
    IF g.t = "list" /\ Len(g.items) = T.len
    THEN Then(FromItems(engine, T.of, g.items), Items) ELSE Conversion

FromPair(engine, T, g) ==
    IF g.t = "tuple" /\ Len(g.items) = 2
    THEN Then(Collect(<<FromGuest(engine, T.of, g.items[1]),
                        FromGuest(engine, T.with, g.items[2])>>), Items)
    ELSE Conversion

FromIterable(engine, T, g) ==
    IF IsIterable(g) THEN Then(FromItems(engine, T.of, Iterated(g)), Items) ELSE Conversion

FromSet(engine, T, g) ==
    IF g.t = "set"
    THEN Then(FromItems(engine, T.of, Iterated(g)),
              LAMBDA items : Elements({items[i] : i \in DOMAIN items}))
    ELSE Conversion

FromDict(engine, T, g) ==
    LET Entry(e) == Collect(<<FromGuest(engine, T.key, e[1]), FromGuest(engine, T.of, e[2])>>)
    IN IF g.t = "dict"
       THEN Then(Each(Listed(g.pairs), Entry),
                 LAMBDA pairs : Entries({pairs[i] : i \in DOMAIN pairs}))
       ELSE Conversion

FromOption(engine, T, g) ==
    IF g = Nothing THEN Ok(None) ELSE Then(FromGuest(engine, T.of, g), Some)

\* Slip: a union goes on after any error.
GoesOnAlways(result) == result.r # "ok"

\* Error::is_conversion, which a union asks of a variant's error.
GoesOn(result) == result.r = "conversion"

\* What a failed attempt leaves of the value: an iterator has moved past the item it failed at.
RECURSIVE Left(_, _, _)

Left(engine, T, g) ==
    CASE T.k = "iterable" /\ g.t = "iterator" ->
             LET bad == CHOOSE i \in DOMAIN g.items :
                            /\ FromGuest(engine, T.of, g.items[i]).r # "ok"
                            /\ \A j \in 1..(i - 1) : FromGuest(engine, T.of, g.items[j]).r = "ok"
             IN Iterator(SubSeq(g.items, bad + 1, Len(g.items)))
      [] T.k = "option" -> Left(engine, T.of, g)
      [] T.k = "union" -> Left(engine, T.with, Left(engine, T.of, g))
      [] OTHER -> g

\* The variants are tried in order, on what the attempt before has left.
FromUnion(engine, T, g) ==
    LET first == FromGuest(engine, T.of, g)
    IN IF ~GoesOn(first) THEN Then(first, LAMBDA v : Variant(1, v))
       ELSE Then(FromGuest(engine, T.with, Left(engine, T.of, g)), LAMBDA v : Variant(2, v))

\* from_guest.
FromGuest(engine, T, g) ==
    CASE T.k = "unit" -> IF g = Nothing THEN Ok(None) ELSE Conversion
      [] T.k = "bool" -> IF g.t = "bool" THEN Ok(Number(g.n)) ELSE Conversion
      [] T.k = "signed" -> AsSigned(T, g)
      [] T.k = "unsigned" -> AsUnsigned(T, g)
      [] T.k = "float" -> AsFloat(g)
      [] T.k = "single" -> AsSingle(g)
      [] T.k = "string" -> AsText(engine, g)
      [] T.k = "char" -> AsChar(engine, g)
      [] T.k = "vec" -> FromVec(engine, T, g)
      [] T.k = "array" -> FromArray(engine, T, g)
      [] T.k = "pair" -> FromPair(engine, T, g)
      [] T.k = "iterable" -> FromIterable(engine, T, g)
      [] T.k = "hashset" -> FromSet(engine, T, g)
      [] T.k = "map" -> FromDict(engine, T, g)
      [] T.k = "option" -> FromOption(engine, T, g)
      [] T.k = "union" -> FromUnion(engine, T, g)
=============================================================================
