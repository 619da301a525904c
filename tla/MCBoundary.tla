------------------------------ MODULE MCBoundary ------------------------------
EXTENDS Boundary, TLC

\* Signatures of at most three parameters; a parameter is named by its place.
MCNames == <<"a", "b", "c">>
MCParamsAt(i, roles) ==
    {Param(role, MCNames[i], FALSE) : role \in roles}
        \cup {Param(role, MCNames[i], TRUE) : role \in roles \cap {"value", "positional", "keyword"}}
MCLists(n, roles) ==
    UNION {{ps \in [1..k -> UNION {MCParamsAt(i, roles) : i \in 1..k}] :
                \A i \in 1..k : ps[i] \in MCParamsAt(i, roles)} : k \in 0..n}

MCParameterLists == MCLists(3, {"value", "positional", "keyword", "rest", "borrow", "enter"})
MCCalls == [positional: 0..4, keywords: SUBSET {"a", "b", "c", "z"}]

\* Functions with at most two parameters, of every role and attribute.
MCClassFunctions == Functions(ClassRoles, MCLists(2, Roles))
MCModuleFunctions ==
    {f \in Functions(ModuleRoles, MCLists(2, Roles)) : ~f.dunder /\ ~f.name}

\* Impl blocks: a backend of every kind, and two functions that ask something of it, of another
\* parameter, or of one of their own.
MCGenerics ==
    {<<>>, <<[name |-> "T", bounds |-> {}]>>}
    \cup {<<[name |-> "B", bounds |-> b]>> : b \in {{}, {"Backend"}, {"Interrupt"}}}
    \cup {<<[name |-> "B", bounds |-> {}], [name |-> "T", bounds |-> {"Backend"}]>>}
MCFunctionsOf(kind) ==
    LET plain == IF kind = "class" THEN "method" ELSE "function"
        hook == IF kind = "class" THEN "statics" ELSE "object"
    IN {Function(plain, <<>>, {}, "value"), Function(plain, <<>>, {}, "borrow"),
        Function(plain, <<>>, Wants("B", {"Interrupt"}), "value"),
        Function(plain, <<>>, Wants("T", {"Values"}), "value"),
        Function(plain, <<"U">>, {}, "value"),
        [Function(plain, <<>>, {}, "value") EXCEPT !.receiver = "owned"],
        [Function(plain, <<>>, {}, "value") EXCEPT !.signature = "no Result"],
        [Function(plain, <<>>, {}, "value") EXCEPT !.signature = "variadic"],
        Function(IF kind = "class" THEN "async_method" ELSE "async_function", <<>>, {}, "value"),
        Function(IF kind = "class" THEN "constructor" ELSE "init", <<>>, {}, "value"),
        Function(hook, <<"B">>, {}, "value"), Function(hook, <<"U">>, Wants("U", {"Interrupt"}), "value"),
        Function("none", <<"U">>, Wants("U", {"Values"}) \cup Wants("B", {"Interrupt"}), "value")}
MCTraits(kind) ==
    IF kind = "class" THEN [bases: {{}, {"plain"}, {"async"}}, classes: {FALSE}, exceptions: {FALSE}]
    ELSE [bases: {{}}, classes: BOOLEAN, exceptions: BOOLEAN]

MCInScope(item) == WellFormed(item) /\ \A w \in item.wheres : w.on \in NamesOf(item)
MCImpls(kind) ==
    {item \in {[kind |-> kind, target |-> "inherent", generics |-> g, wheres |-> w, option |-> o,
                functions |-> f, bases |-> r.bases, classes |-> r.classes, exceptions |-> r.exceptions] :
               g \in MCGenerics, w \in {{}, Wants("B", {"Interrupt"})}, o \in BackendOptions({"B", "T"}),
               f \in SeqOf(MCFunctionsOf(kind), 2), r \in MCTraits(kind)} : MCInScope(item)}
    \cup {[kind |-> kind, target |-> t, generics |-> <<>>, wheres |-> {}, bases |-> {},
           option |-> [k |-> "none", name |-> "_"], functions |-> <<>>, classes |-> FALSE,
           exceptions |-> FALSE] : t \in {"trait", "unnamed"}}

\* Host types: the numbers, and each shape over what its conversion could confuse.
MCI == Signed(Wide)
MCU == Unsigned(Wide)
MCNumbers == {Signed(Narrow), Unsigned(Narrow), MCI, MCU}
MCPlain == MCNumbers \cup {Unit, Boolean, Real, Single, String, Char}
MCTypes ==
    MCPlain
    \cup {Vec(T) : T \in {MCI, String, Option(Boolean)}}
    \cup {Array(Signed(Narrow), 2), HashSet(String), HashSet(Vec(MCU)), HashSet(Union(Boolean, MCI))}
    \cup {Pair(T, U) : T \in {MCU, String}, U \in {Boolean, Vec(Char)}}
    \cup {Vec(Single), Union(Single, Real), Union(Option(MCI), Single)}
    \cup {Map(String, Real), Map(Union(Boolean, MCI), Unit), Map(Pair(MCI, Boolean), MCI)}
    \cup {Option(T) : T \in MCPlain \cup {Option(MCI), Vec(MCU), Union(Unit, MCI)}}
    \cup {Union(T, U) : T, U \in {Signed(Narrow), MCU, Boolean, Real, String, Option(MCI), Vec(MCI),
                                  Union(Char, MCI), Union(Vec(String), HashSet(MCI))}}
MCStreams ==
    {Iterable(MCI), Iterable(String), Union(Iterable(MCI), Vec(String)),
     Union(Iterable(MCI), Iterable(Boolean))}

\* Their values: the ends of the widths, and collections of at most two members.
MCInts == {-8, -3, -2, -1, 0, 1, 2, 5, 7, 8, 15}
MCUpTo(n, S) == UNION {[1..k -> S] : k \in 0..n}
MCSubsets(S) == {{}} \cup {{x} : x \in S} \cup {{x, y} : x, y \in S}
MCFew(S) == {CHOOSE x \in S : \A y \in S : x.h = "number" => x.n <= y.n}
                \cup {CHOOSE x \in S : \A y \in S : x.h = "number" => x.n >= y.n}

RECURSIVE MCHostValues(_)
MCHostValues(T) ==
    CASE T.k = "unit" -> {None}
      [] T.k = "bool" -> {Number(0), Number(1)}
      [] T.k \in {"signed", "unsigned"} -> {Number(n) : n \in MCInts \cap (Low(T)..High(T))}
      [] T.k = "float" -> {Number(n) : n \in {-8, 0, 1, 6, 24, Infinity}}
      [] T.k = "single" -> {Number(n) : n \in {-Infinity, -8, 0, 4, 16}}
      [] T.k = "string" -> {Text(<<>>), Text(<<"f">>), Text(<<"x", "f">>)}
      [] T.k = "char" -> {Text(<<"f">>), Text(<<"x">>)}
      [] T.k = "vec" -> {Items(s) : s \in MCUpTo(2, MCHostValues(T.of))}
      [] T.k = "array" -> {Items(s) : s \in [1..T.len -> MCHostValues(T.of)]}
      [] T.k = "pair" -> {Items(<<v, w>>) : v \in MCHostValues(T.of), w \in MCHostValues(T.with)}
      [] T.k = "hashset" -> {Elements(S) : S \in MCSubsets(MCHostValues(T.of))}
      [] T.k = "map" ->
             {Entries(S) : S \in {S \in MCSubsets(MCHostValues(T.key) \X MCFew(MCHostValues(T.of))) :
                                  \A e, d \in S : e[1] = d[1] => e = d}}
      [] T.k = "option" -> {None} \cup {Some(v) : v \in MCHostValues(T.of)}
      [] T.k = "union" ->
             {Variant(1, v) : v \in MCHostValues(T.of)} \cup {Variant(2, v) : v \in MCHostValues(T.with)}

\* Types with a serde representation.
MCStruct == Struct(<<Field("x", MCI), Field("f", Option(String))>>)
MCEnum ==
    Enum(<<Case("f", "unit", Unit), Case("x", "newtype", Boolean), Case("p", "tuple", Pair(MCI, MCU)),
           Case("q", "struct", MCStruct)>>)
MCSerdeTypes ==
    MCPlain
    \cup {Huge, MCStruct, MCEnum, Newtype(MCU), Newtype(Unit), Struct(<<Field("p", MCEnum)>>),
          Option(Newtype(Unit)), Option(MCEnum), Option(MCI), Option(Option(MCI)),
          Vec(MCI), Vec(Option(Boolean)), HashSet(String), HashSet(Vec(MCU)), Map(String, Real),
          Map(Pair(MCI, Boolean), MCI), Pair(MCU, Boolean), Pair(String, Vec(Char))}

RECURSIVE MCSerdeValues(_)
MCSerdeValues(T) ==
    CASE T.k = "huge" -> {Number(n) : n \in {-17, 0, 16}}
      [] T.k = "newtype" -> MCSerdeValues(T.of)
      [] T.k = "struct" ->
             {Items(vs) : vs \in {vs \in [DOMAIN T.fields -> UNION {MCSerdeValues(T.fields[i].of) : i \in DOMAIN T.fields}] :
                                  \A i \in DOMAIN vs : vs[i] \in MCSerdeValues(T.fields[i].of)}}
      [] T.k = "enum" ->
             UNION {{Variant(i, v) : v \in MCSerdeValues(T.variants[i].of)} : i \in DOMAIN T.variants}
      [] T.k = "option" -> {None} \cup {Some(v) : v \in MCSerdeValues(T.of)}
      [] OTHER -> MCHostValues(T)

\* Guest values: numbers at and beyond the widths, and what holds them.
MCScalars ==
    {Nothing, Bool(TRUE), Bool(FALSE)} \cup {Float(n) : n \in {-48, 0, 3, 6, 16, 24, Infinity}}
        \cup {Integer(n) : n \in {-9, -8, -3, -1, 0, 1, 2, 5, 7, 8, 15, 16}}
MCTexts == {Str(<<>>), Name("f"), Name("x"), Name("p"), Name("q"), Str(<<"x", "f">>), Str(<<Lone>>)}
MCElements == {Nothing, Bool(TRUE), Integer(1), Integer(2), Integer(16), Float(1), Name("f"), Str(<<Lone>>)}
MCKeys == {Integer(1), Integer(8), Name("f"), Name("x"), Bool(FALSE), Tuple(<<Integer(2), Bool(TRUE)>>)}
MCGuestValues ==
    MCScalars \cup MCTexts
    \cup {List(s) : s \in MCUpTo(2, MCElements)}
    \cup {Tuple(s) : s \in MCUpTo(2, MCElements)}
    \cup {Tuple(<<Name("f"), List(<<Name("x")>>)>>), List(<<Integer(1), Nothing, Integer(2)>>)}
    \cup {Iterator(s) : s \in MCUpTo(3, {Integer(1), Bool(TRUE), Name("f")})}
    \cup {Set(S) : S \in MCSubsets({Integer(1), Integer(8), Name("f"), Bool(FALSE)})}
    \cup {Set({Tuple(<<Integer(2), Integer(5)>>)})}
    \cup {Dict(S) : S \in {S \in MCSubsets(MCKeys \X {Nothing, Integer(2), Float(6), Bool(TRUE),
                                                      Tuple(<<Integer(2), Integer(5)>>)}) :
                           \A e, d \in S : SameKey(e[1], d[1]) => e = d}}
    \cup {Dict({<<Name("p"), v>>}) : v \in {Name("f"), List(<<Integer(5)>>), Dict({})}}
    \cup {Dict({<<Name("q"), v>>}) :
              v \in {Name("f"), List(<<Integer(0)>>), List(<<>>), Dict({<<Name("x"), Integer(5)>>}),
                     Dict({<<Name("x"), Integer(5)>>, <<Name("z"), Iterator(<<>>)>>})}}

\* Exceptions of three modules, some of a chain, and some with bases that are none; T3 has the
\* dotted name of an H.
MCBuiltinExceptions ==
    {"BaseException", "Exception", "LookupError", "KeyError", "RuntimeError", "NotImplementedError",
     "TypeError", "ImportError", "AttributeError", "OSError", "StopIteration", "StopAsyncIteration",
     "SystemError", "ValueError"}
MCH1 == Host("m", "H1")
MCT1 == Typed("t1", "T1")
MCT2 == Typed("t2", "T2")
MCG == Guest("g", "G")
MCRegistries ==
    {{},
     {Declared(MCH1, "m", Builtin("Exception")), Declared(MCT1, "m", MCH1),
      Declared(MCT2, "n", MCT1)},
     {Declared(MCH1, "m", MCT1), Declared(MCT1, "n", Host("guestpy", "TimeoutError")),
      Declared(MCT2, "m", Builtin("BaseException"))},
     {Declared(MCH1, "m", MCG), Declared(MCT1, "m", Host("m", "unknown")),
      Declared(MCT2, "n", Builtin("RuntimeError"))},
     {Declared(MCH1, "m", Builtin("Exception")), Declared(Typed("t3", "H1"), "m", MCH1)},
     {Declared(MCH1, "m", Builtin("ValueError")), Declared(MCT1, "m.sub", Builtin("int")),
      Declared(MCT2, "n", Builtin("no_name"))}}
MCGuestClasses ==
    (MCG :> <<Entry(MCG, "g", "G")>> \o BuiltinOrder("Exception"))
        @@ (Guest("g", "no_class") :> <<>>)

MCKinds ==
    {"conversion", "import", "bundle", "ambiguous", "name_in_use", "attribute", "borrow", "host",
     "foreign_guest", "foreign_raise", "unsupported", "io", "stop", "async_stop", "engine",
     "unexpected"} \cup Fatal
MCRaised == {MCH1, MCT1, MCT2, MCG, Guest("g", "no_class"), Guest("g", "missing"),
             Builtin("ValueError"), Builtin("int"), Builtin("no_name"), Host("guestpy", "ClosedError")}
MCErrors ==
    {<<Error(kind)>> : kind \in MCKinds}
        \cup {<<Raise(class, args)>> \o causes :
                class \in MCRaised,
                args \in {<<>>, <<"text">>, <<"text", "value">>, <<"failing">>},
                causes \in {<<>>, <<Error("io")>>, <<Raise(MCT1, <<"failing">>)>>,
                            <<Raise(MCH1, <<>>), Error("import")>>}}
        \cup {<<Thrown(<<<<Entry(MCG, "g", "G")>> \o BuiltinOrder("Exception"), BuiltinOrder("ValueError")>>)>>}

\* Structs of at most two fields, each on its own and on one of a few bases.
MCFields(ident) ==
    {FieldInput(ident, T, TRUE, "") : T \in {MCI, String}}
        \cup {FieldInput(ident, T, FALSE, name) : T \in {MCI, Vec(String)}, name \in {"", "x", "args"}}
        \cup {FieldInput(ident, Option(MCI), FALSE, "__cause__"), FieldInput(ident, MCI, TRUE, "x")}
MCFieldLists ==
    {<<>>} \cup {<<f>> : f \in MCFields("x")} \cup {<<f, g>> : f \in MCFields("x"), g \in MCFields("y")}
MCArg(ident) == FieldInput(ident, MCI, TRUE, "")
MCFiled == <<MCArg("x"), MCArg("y"), FieldInput("z", Option(MCI), TRUE, ""), FieldInput("w", MCI, FALSE, "")>>
MCBases ==
    {DeriveInput("E", 0, <<>>, "", fields) :
        fields \in {<<>>, <<MCArg("x")>>, <<FieldInput("a", String, FALSE, "y"), MCArg("x")>>,
                   <<MCArg("x"), FieldInput("y", MCI, FALSE, "")>>}}
        \cup {DeriveInput("E", 0, <<>>, "OSError", <<MCArg("y")>>)}
MCDerived(base, fields) == {base, DeriveInput("F", 0, <<Typed("E", "E")>>, "", fields)}
MCStructs ==
    {MCDerived(base, fields) : base \in MCBases, fields \in MCFieldLists \cup {MCFiled}}
        \cup {{DeriveInput("F", parameters, <<>>, builtin, fields)} :
                  parameters \in 0..2, builtin \in {"", "OSError"}, fields \in {<<MCArg("x")>>, MCFiled}}
        \cup {{DeriveInput("F", 0, <<Typed("E", "E")>>, builtin, <<>>)} : builtin \in {"", "OSError"}}
MCExceptionModules ==
    {<<DeclaringModule("m", structs)>> : structs \in MCStructs}
        \cup {<<DeclaringModule("n", {DeriveInput("F", 0, <<Typed("E", "E")>>, "", fields)}),
                DeclaringModule("m", MCDerived(base, fields))>> : base \in MCBases, fields \in {<<>>, <<MCArg("x")>>}}
MCOf(T) ==
    CASE T = MCI -> {Number(1), Number(2)}
      [] T = String -> {Text(<<"x">>)}
      [] T = Vec(String) -> {Items(<<Text(<<"x">>)>>)}
      [] T = Option(MCI) -> {None, Some(Number(1))}
MCFieldValues(struct) ==
    {vs \in [DOMAIN struct.fields -> UNION {MCOf(struct.fields[i].type) : i \in DOMAIN struct.fields}] :
        \A i \in DOMAIN vs : vs[i] \in MCOf(struct.fields[i].type)}
MCGuestExceptions(specs) ==
    LET classes == {Realise(specs, s.key) : s \in {s \in specs : s.key.ref = "typed"}}
        orders == {c.is : c \in {c \in classes : c.made}}
        attrs == UNION {[names -> {Integer(1), List(<<Name("x")>>)}] : names \in {{}, {"x"}, {"x", "y"}}}
    IN {[NewObject(order, args) EXCEPT !.attrs = attr] :
            order \in orders \cup {<<Entry(MCG, "g", "G")>> \o order : order \in orders}, attr \in attrs,
            args \in MCUpTo(2, {Integer(16), Name("x")}) \cup {<<Integer(1), Bool(TRUE)>>}}

\* Directories of at most three files.
MCIdentifiers == {"p", "a", "b", "__init__"}
MCSuffixes == {<<"cp313", "so">>, <<"abi3", "so">>, <<"so">>}
MCPaths ==
    {Path(dir, stem, <<"py">>) : dir \in {<<>>, <<"a">>, <<"a", "b">>}, stem \in {"__init__", "b"}}
        \cup {Path(<<>>, "a", <<"py">>), Path(<<"my-dir">>, "b", <<"py">>), Path(<<>>, "b", <<"x", "py">>)}
        \cup {Path(<<"a">>, "b", tags) : tags \in MCSuffixes \cup {<<"cp312", "so">>, <<"pyd">>, <<"json">>, <<>>}}
        \cup {Path(<<"my-dir">>, "b", <<"so">>)}
MCFiles == {File(path, "one") : path \in MCPaths} \cup {File(Path(<<>>, "b", <<"py">>), "not utf-8")}
MCTrees ==
    {tree \in {{f, g, h} : f, g, h \in MCFiles} \cup {{}} :
        \A f, g \in tree : f # g => f.path # g.path}

\* Each host class is realised as the type of its name; guests add an abstract one.
MCTypeOf == [c \in HostClasses |-> c]

\* Declarations of at most three members; every special method on its own.
MCMember(kinds, names) == {Declaration(kind, name) : kind \in kinds, name \in names}
MCMembers ==
    [module |-> MCMember(ModuleKinds, {"x", "z", "__getattr__"}),
     object |-> MCMember(NamespaceKinds, {"x", "z"}),
     class |-> MCMember(ClassKinds, {"x", "__getitem__"})
                   \cup MCMember({"constant", "method"}, {"__init__"})
                   \cup {Static(d) : d \in MCMember(NamespaceKinds, {"x"})}]
MCDeclarationLists(container) ==
    MCUpTo(3, MCMembers[container])
        \cup (IF container = "class" THEN {<<Declaration("async_method", d)>> : d \in Dunders} ELSE {})

\* Guests of a class whose bases, or those of the class between, may be generic, a function and
\* an instance; an alias names a base as its origin, and an odd one names what is no class.
MCIs(is, attrs, items, params) ==
    [is |-> is, lineage |-> <<is>>, attrs |-> attrs, items |-> items, params |-> params]
MCClass(attrs, params, lineage) == [MCIs("class", attrs, <<>>, params) EXCEPT !.lineage = lineage]
MCAttr(name, o) == [n \in {name} |-> o]
MCNoAttrs == [n \in {} |-> n]
MCAnnotations == {MCNoAttrs, MCAttr("__annotations__", "dict"), MCAttr("__annotations__", "odd")}
MCHeap(dict, bases, onMiddle, onClass, noted, params) ==
    [dict |-> MCIs("dict", MCNoAttrs, dict, <<>>),
     tuple |-> MCIs("tuple", MCNoAttrs, bases, <<>>),
     alias |-> MCIs("alias", MCAttr("__origin__", "base"), <<>>, <<>>),
     far |-> MCIs("far", MCAttr("__origin__", "other"), <<>>, <<>>),
     odd |-> MCIs("odd", MCAttr("__origin__", "dict"), <<>>, <<>>),
     base |-> MCClass(MCNoAttrs, <<>>, <<"base">>),
     other |-> MCClass(MCNoAttrs, <<>>, <<"other">>),
     middle |-> MCClass(onMiddle, <<>>, <<"middle", "base", "other">>),
     class |-> MCClass(onClass, params, <<"class", "middle", "base", "other">>),
     function |-> MCIs("function", noted, <<>>, params),
     instance |-> [MCIs("instance", [n \in {"x", "f"} |-> "function"], <<>>, <<>>)
                       EXCEPT !.lineage = <<"instance", "class", "middle", "base", "other">>]]
MCGeneric == {MCNoAttrs, MCAttr("__orig_bases__", "tuple")}
MCHeaps ==
    {MCHeap(dict, bases, onMiddle, onClass, noted, <<>>) :
        dict \in {<<>>, <<<<"a", "base">>>>, <<<<"a", "base">>, <<"return", "odd">>>>,
                 <<<<"a", "class">>, <<"b", "base">>>>},
        bases \in {<<>>, <<"far", "alias">>, <<"odd", "alias">>, <<"other">>, <<"alias", "other">>},
        onMiddle \in MCGeneric, onClass \in MCGeneric \cup MCAnnotations, noted \in MCAnnotations}
MCCalledHeaps ==
    {MCHeap(<<>>, <<>>, attrs, MCNoAttrs, MCNoAttrs, params) :
        attrs \in {MCNoAttrs, MCAttr("y", "class")}, params \in {<<>>, <<"a">>, <<"a", "b">>}}
MCHostArguments == MCUpTo(2, {Ok(1), Ok(2), Conversion})
MCHostKeywords == MCUpTo(2, {"a", "b"} \X {Ok(3), Ok(4), Conversion})
MCGuestMembers(ident) ==
    {Member("fn", ident, name, params) : name \in {"", "f", "y"}, params \in {<<>>, <<"a">>, <<"p", "a">>}}
        \cup {Member("value", ident, name, <<>>) : name \in {"", "y"}}
        \cup {Member("value", ident, "", <<"a">>), Member("const", ident, "", <<>>)}
MCFacades ==
    {[keyword |-> keyword, members |-> members] : keyword \in FacadeKinds \cup {"object"},
        members \in MCUpTo(1, UNION {MCGuestMembers(n) : n \in {"x", "y", "instance"}})
                        \cup {<<m, Member("fn", "x", "", <<>>)>> : m \in MCGuestMembers("x")}}

\* B requires state S, and D derives from B; E requires none.
MCLineage(class) == IF class = "D" THEN {"D", "B"} ELSE {class}
MCRequires(class) == IF class = "B" THEN {"S"} ELSE {}
MCModules ==
    {Module(name, state, requires, classes, "ok") :
        name \in {"m", "n"}, state \in {"none", "S", "T"}, requires \in {{}, {"S"}},
        classes \in {{}, {"D"}, {"B", "E"}}}
MCEntries ==
    MCModules \cup {Module("m", "S", {}, {}, "fails"), Module("n", "none", {}, {"E"}, "none"),
                    Module("guestpy", "none", {}, {}, "none")}
        \cup {Initializer(is, hook) : is \in {"initializer", "native_initializer"}, hook \in {"ok", "fails"}}
MCLibraries == MCUpTo(2, MCEntries)
MCGuestLibraries == MCUpTo(1, MCEntries)
=============================================================================
