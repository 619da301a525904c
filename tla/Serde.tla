-------------------------------- MODULE Serde --------------------------------
(***************************************************************************)
(* The conversions of a type with a serde representation (guestpy-core,    *)
(* marshal/serde.rs).  The types are those of Values and, besides, i128,   *)
(* structs, newtype structs and enums; serde's own visitors are external   *)
(* and modelled by the events they accept.                                 *)
(***************************************************************************)
EXTENDS Values

Huge == [k |-> "huge"]
Struct(fields) == [k |-> "struct", fields |-> fields]
Newtype(T) == [k |-> "newtype", of |-> T]
Enum(variants) == [k |-> "enum", variants |-> variants]

\* A field is a name and a type; a variant is a name, a shape and the type of its payload,
\* which is a pair for a tuple and a struct for a struct.
Field(name, T) == [name |-> name, of |-> T]
Case(name, shape, T) == [name |-> name, shape |-> shape, of |-> T]

Name(name) == Str(<<name>>)

-----------------------------------------------------------------------------
RECURSIVE Serialize(_, _)

\* MapSerializer: an entry is converted before the next one, and the dict made in the end.
SerializeMap(T, v) ==
    LET Entry(e) == Collect(<<Serialize(T.key, e[1]), Serialize(T.of, e[2])>>)
        pairs == Each(Listed(v.pairs), Entry)
    IN IF pairs.r = "ok" /\ \E i \in DOMAIN pairs.v : ~Hashable(pairs.v[i][1])
       THEN GuestError
       ELSE Then(pairs, LAMBDA ps : Dict(KeepOne({ps[i] : i \in DOMAIN ps})))

\* StructSerializer.
SerializeStruct(fields, items) ==
    Then(Collect([i \in DOMAIN fields |-> Serialize(fields[i].of, items[i])]),
         LAMBDA gs : Dict({<<Name(fields[i].name), gs[i]>> : i \in DOMAIN gs}))

\* A variant without a payload is its name, any other a dict of one entry.
SerializeVariant(variant, v) ==
    IF variant.shape = "unit" THEN Ok(Name(variant.name))
    ELSE Then(Serialize(variant.of, v), LAMBDA g : Dict({<<Name(variant.name), g>>}))

\* Serializer.
Serialize(T, v) ==
    CASE T.k = "unit" -> Ok(Nothing)
      [] T.k = "bool" -> Ok(Bool(v.n = 1))
      [] T.k \in {"signed", "unsigned"} -> Ok(Integer(v.n))
      [] T.k = "huge" -> Conversion
      [] T.k \in {"float", "single"} -> Ok(Float(v.n))
      [] T.k \in {"string", "char"} -> Ok(Str(v.s))
      [] T.k = "option" -> IF v.h = "none" THEN Ok(Nothing) ELSE Serialize(T.of, v.v)
      [] T.k = "newtype" -> Serialize(T.of, v)
      [] T.k = "vec" -> Then(Each(v.items, LAMBDA x : Serialize(T.of, x)), List)
      [] T.k = "hashset" -> Then(Each(Listed(v.elements), LAMBDA x : Serialize(T.of, x)), List)
      [] T.k = "pair" ->
             Then(Collect(<<Serialize(T.of, v.items[1]), Serialize(T.with, v.items[2])>>), Tuple)
      [] T.k = "map" -> SerializeMap(T, v)
      [] T.k = "struct" -> SerializeStruct(T.fields, v.items)
      [] T.k = "enum" -> SerializeVariant(T.variants[v.i], v.v)

-----------------------------------------------------------------------------
\* Slip: a tuple is no sequence.
EventNoTuple(engine, g) ==
    CASE IsInt(g) /\ g.t # "bool" ->
             IF FitsWide(g) \/ g.n \in Low(Unsigned(Wide))..High(Unsigned(Wide))
             THEN Ok("int") ELSE GuestError
      [] g.t = "none" -> Ok("unit")
      [] g.t \in {"bool", "float"} -> Ok(g.t)
      [] g.t = "str" -> Then(AsText(engine, g), LAMBDA v : "string")
      [] g.t \in {"list", "set"} -> Ok("seq")
      [] g.t = "dict" -> Ok("map")
      [] OTHER -> Conversion

\* deserialize_any: the event a value is for a visitor, or the error of the accessor.
Event(engine, g) ==
    CASE IsInt(g) /\ g.t # "bool" ->
             IF FitsWide(g) \/ g.n \in Low(Unsigned(Wide))..High(Unsigned(Wide))
             THEN Ok("int") ELSE GuestError
      [] g.t = "none" -> Ok("unit")
      [] g.t \in {"bool", "float"} -> Ok(g.t)
      [] g.t = "str" -> Then(AsText(engine, g), LAMBDA v : "string")
      [] g.t \in {"list", "tuple", "set"} -> Ok("seq")
      [] g.t = "dict" -> Ok("map")
      [] OTHER -> Conversion

\* A value of a field that nobody asks for is still gone through.
RECURSIVE Ignored(_, _)
Ignored(engine, g) ==
    LET Skip(items) == Each(items, LAMBDA h : Ignored(engine, h))
        event == Event(engine, g)
    IN IF event.r # "ok" \/ event.v \notin {"seq", "map"} THEN event
       ELSE IF event.v = "seq" THEN Skip(Iterated(g))
       ELSE Each(Listed(g.pairs), Skip)

\* The events that the visitor of a type takes.
Accepts(T) ==
    CASE T.k = "unit" -> {"unit"}
      [] T.k = "bool" -> {"bool"}
      [] T.k \in {"signed", "unsigned", "huge"} -> {"int"}
      [] T.k \in {"float", "single"} -> {"float", "int"}
      [] T.k \in {"string", "char"} -> {"string"}
      [] T.k \in {"vec", "hashset", "pair"} -> {"seq"}
      [] T.k = "map" -> {"map"}
      [] T.k = "struct" -> {"seq", "map"}

\* The pairs a MapAccess goes through; get_item fails on what is no mapping.
MapPairs(g) ==
    IF g.t = "dict" THEN Ok(Listed(g.pairs))
    ELSE IF ~IsIterable(g) THEN GuestError
    ELSE IF Iterated(g) = <<>> THEN Ok(<<>>)
    ELSE LET first == Iterated(g)[1]
         IN IF /\ g.t \in {"list", "tuple"}
               /\ IsInt(first) /\ first.n \in -Len(g.items)..(Len(g.items) - 1)
            THEN Conversion ELSE GuestError

\* VariantAccess: whether the payload is there exactly when the variant has one.
PayloadFits(variant, payload) == variant.shape = "unit" <=> payload = <<>>

\* deserialize_enum: the name of a variant, and its payload if it is the value of the one
\* entry of a dict.
EnumAccess(g) ==
    CASE g.t = "str" -> Ok([name |-> g, payload |-> <<>>])
      [] g.t = "dict" /\ Cardinality(g.pairs) = 1 ->
             LET pair == CHOOSE p \in g.pairs : TRUE
             IN Ok([name |-> pair[1], payload |-> <<pair[2]>>])
      [] OTHER -> Conversion

RECURSIVE Deserialize(_, _, _)

\* A tuple or a struct takes as many items as it has; the rest is not looked at.
FromSeq(engine, types, items) ==
    IF Len(items) < Len(types)
    THEN Collect([i \in DOMAIN items |-> Deserialize(engine, types[i], items[i])] \o <<Conversion>>)
    ELSE Collect([i \in DOMAIN types |-> Deserialize(engine, types[i], items[i])])

\* A struct's fields by name: others are skipped, an Option may be missing.
FromPairs(engine, fields, pairs) ==
    LET Of(i) == {j \in DOMAIN fields : pairs[i][1] = Name(fields[j].name)}
        Read(i) ==
            LET key == Event(engine, pairs[i][1])
            IN IF key.r # "ok" THEN key
               ELSE IF key.v # "string" /\ ~(key.v = "int" /\ ~FitsWide(pairs[i][1])) THEN Conversion
               ELSE IF Of(i) = {} THEN Ignored(engine, pairs[i][2])
               ELSE Deserialize(engine, fields[CHOOSE j \in Of(i) : TRUE].of, pairs[i][2])
        Missing(j) == IF fields[j].of.k = "option" THEN Ok(None) ELSE Conversion
        read == Collect([i \in DOMAIN pairs |-> Read(i)])
    IN IF read.r # "ok" THEN read
       ELSE Collect([j \in DOMAIN fields |->
                LET found == {i \in DOMAIN pairs : j \in Of(i)}
                IN IF found = {} THEN Missing(j) ELSE Ok(read.v[CHOOSE i \in found : TRUE])])

\* VariantAccess: the payload of a variant by its shape.
FromPayload(engine, variant, payload) ==
    CASE variant.shape = "unit" -> Ok(None)
      [] variant.shape = "newtype" -> Deserialize(engine, variant.of, payload[1])
      [] variant.shape = "tuple" ->
             IF ~IsIterable(payload[1]) THEN GuestError
             ELSE Then(FromSeq(engine, <<variant.of.of, variant.of.with>>, Iterated(payload[1])),
                       Items)
      [] variant.shape = "struct" ->
             LET pairs == MapPairs(payload[1])
             IN IF pairs.r # "ok" THEN pairs
                ELSE Then(FromPairs(engine, variant.of.fields, pairs.v), Items)

FromVariant(engine, variants, access) ==
    LET key == Event(engine, access.name)
        found == {i \in DOMAIN variants : Name(variants[i].name) = access.name}
        i == CHOOSE i \in found : TRUE
    IN IF key.r # "ok" THEN key
       ELSE IF found = {} \/ ~PayloadFits(variants[i], access.payload) THEN Conversion
       ELSE Then(FromPayload(engine, variants[i], access.payload), LAMBDA v : Variant(i, v))

\* Deserializer.
Deserialize(engine, T, g) ==
    LET event == Event(engine, g)
        items == Each(Iterated(g), LAMBDA h : Deserialize(engine, T.of, h))
    IN IF T.k = "option"
       THEN IF g = Nothing THEN Ok(None) ELSE Then(Deserialize(engine, T.of, g), Some)
       ELSE IF T.k = "newtype" THEN Deserialize(engine, T.of, g)
       ELSE IF T.k = "enum"
       THEN LET access == EnumAccess(g)
            IN IF access.r # "ok" THEN access ELSE FromVariant(engine, T.variants, access.v)
       ELSE IF event.r # "ok" THEN event
       ELSE IF event.v \notin Accepts(T) THEN Conversion
       ELSE
       CASE T.k = "unit" -> Ok(None)
         [] T.k \in {"bool", "huge"} -> Ok(Number(g.n))
         [] T.k \in {"signed", "unsigned"} ->
                IF g.n \in Low(T)..High(T) THEN Ok(Number(g.n)) ELSE Conversion
         [] T.k = "float" -> Ok(Number(IF g.t = "int" THEN Rounded(g.n) ELSE g.n))
         [] T.k = "single" -> Ok(Number(Narrowed(g.n)))
         [] T.k \in {"string", "char"} ->
                IF T.k = "char" /\ Len(g.s) # 1 THEN Conversion ELSE Ok(Text(g.s))
         [] T.k = "vec" -> Then(items, Items)
         [] T.k = "hashset" -> Then(items, LAMBDA vs : Elements({vs[i] : i \in DOMAIN vs}))
         [] T.k = "pair" -> Then(FromSeq(engine, <<T.of, T.with>>, Iterated(g)), Items)
         [] T.k = "map" ->
                Then(Each(Listed(g.pairs), LAMBDA e : FromSeq(engine, <<T.key, T.of>>, e)),
                     LAMBDA vs : Entries({vs[i] : i \in DOMAIN vs}))
         [] T.k = "struct" ->
                Then(IF event.v = "map" THEN FromPairs(engine, T.fields, Listed(g.pairs))
                     ELSE FromSeq(engine, [i \in DOMAIN T.fields |-> T.fields[i].of], Iterated(g)),
                     Items)
=============================================================================
