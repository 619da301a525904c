--------------------------- MODULE ExceptionFields ---------------------------
(***************************************************************************)
(* Structs that derive HostException (guestpy-macros, host/exception.rs):  *)
(* how the fields of one become the arguments and attributes of a guest's  *)
(* exception, and how they are read from an exception that a guest raises  *)
(* or lets through (guestpy-core, host/exception.rs and guest/errors.rs).  *)
(*                                                                         *)
(* A guest's exception is a record of its class, as Exceptions has it, its *)
(* arguments and its attributes; their values are those of Values.         *)
(***************************************************************************)
EXTENDS Exceptions, Values, SequencesExt

\* A field and a struct as they are written; an empty name or base is none.
FieldInput(ident, type, arg, name) == [ident |-> ident, type |-> type, arg |-> arg, name |-> name]
DeriveInput(id, parameters, base, builtin, fields) ==
    [id |-> id, parameters |-> parameters, base |-> base, builtin |-> builtin, fields |-> fields]

\* HostExceptionDerive::new and ExceptionField::new, and what they reject.
Derives(input) ==
    /\ input.parameters <= 1
    /\ input.base = <<>> \/ input.builtin = ""
    /\ \A i \in DOMAIN input.fields : ~(input.fields[i].arg /\ input.fields[i].name # "")

\* host_exception: HostException::class and base of the struct.
ClassOf(struct) == Typed(struct.id, struct.id)
BaseOf(struct) ==
    IF struct.base # <<>> THEN struct.base[1]
    ELSE Builtin(IF struct.builtin = "" THEN "Exception" ELSE struct.builtin)

\* ModuleSpec::exception_type of every struct of a module, absorbed in the runtime's cache, which
\* keeps the first declaration of a class.
DeclaringModule(name, structs) == [name |-> name, structs |-> structs]
Absorb(specs, module) ==
    specs \cup {Declared(ClassOf(s), module.name, BaseOf(s)) :
                    s \in {s \in module.structs : \A d \in specs : d.key # ClassOf(s)}}
DeclaredBy(modules) == FoldLeft(Absorb, FatalSpecs, modules)
StructsOf(modules) == UNION {modules[i].structs : i \in DOMAIN modules}

\* ExceptionFieldKind: the number of an argument, and the name of an attribute.
\* Slip: every field before it counts.
NumberAmongFields(fields, i) == i
NumberOf(fields, i) == Cardinality({j \in 1..i : fields[j].arg})
NameOf(field) == IF field.name = "" THEN field.ident ELSE field.name

-----------------------------------------------------------------------------
\* A guest's exception.  Python itself keeps what it is made with, but for an OSError, whose
\* arguments after the second are a file's.
NewObject(class, args) ==
    LET file == /\ Builtin("OSError") \in {class[i].ref : i \in DOMAIN class}
                /\ Len(args) \in 3..5 /\ args[3] # Nothing
    IN [class |-> class, args |-> IF file THEN SubSeq(args, 1, 2) ELSE args, attrs |-> <<>>]

\* Setting an attribute, of which two are Python's own.
SetOn(object, name, g) ==
    CASE name = "args" ->
             IF IsIterable(g) THEN Made([object EXCEPT !.args = Iterated(g)])
             ELSE Failed(Thrown(<<BuiltinOrder("TypeError")>>))
      [] name = "__cause__" ->
             IF g = Nothing THEN Made(object)
             ELSE Failed(Thrown(<<BuiltinOrder("TypeError")>>))
      [] OTHER -> Made([object EXCEPT !.attrs =
                            [n \in DOMAIN @ \cup {name} |-> IF n = name THEN g ELSE @[n]]])

\* into_raise: the values of the struct, one call of Raise::arg or Raise::attr for each field.
FieldValue(struct, values, i) == ToGuest(struct.fields[i].type, values[i]).v
Positions(struct, arg) ==
    SelectSeq([i \in DOMAIN struct.fields |-> i], LAMBDA i : struct.fields[i].arg = arg)
RaiseArgs(struct, values) ==
    [k \in DOMAIN Positions(struct, TRUE) |-> FieldValue(struct, values, Positions(struct, TRUE)[k])]

\* ExceptionRaiser::raise_value of Raise::host: the class is called with the arguments, and the
\* attributes are set one after another.
RaiseStruct(specs, struct, values) ==
    LET class == Realise(specs, ClassOf(struct))
        SetEach(made, i) ==
            IF ~made.made THEN made
            ELSE SetOn(made.is, NameOf(struct.fields[i]), FieldValue(struct, values, i))
    IN IF ~class.made THEN class
       ELSE FoldLeft(SetEach, Made(NewObject(class.is, RaiseArgs(struct, values))), Positions(struct, FALSE))

\* ErasedOwned and ErasedRaise: what was kept for one backend is nothing to another.
KeptFor(built, engine) == built = engine
FromErased(built, engine, raised) ==
    IF KeptFor(built, engine) THEN raised ELSE Failed(Error("foreign_raise"))

\* What the guest gets of it: the exception, or the one that says why not.
Deliver(specs, built, engine, struct, values) ==
    LET raised == FromErased(built, engine, RaiseStruct(specs, struct, values))
    IN IF raised.made THEN raised.is
       ELSE NewObject(Convert(TRUE, specs, <<>>, <<raised.is>>)[1], <<>>)

-----------------------------------------------------------------------------
NotCaught == [r |-> "none"]
NoAttribute == [r |-> "attribute"]

\* get_item_opt: a place that a tuple does not have is none, as a key of a dict.
GetItemOpt(items, n) == IF n \in DOMAIN items THEN <<items[n]>> ELSE <<>>

\* Raised::arg and Raised::attr.
ReadArg(engine, type, object, n) ==
    LET item == GetItemOpt(object.args, n)
    IN IF item = <<>> THEN Conversion ELSE FromGuest(engine, type, item[1])

ReadAttr(engine, type, object, name) ==
    IF name = "args" THEN FromGuest(engine, type, Tuple(object.args))
    ELSE IF name = "__cause__" THEN FromGuest(engine, type, Nothing)
    ELSE IF name \in DOMAIN object.attrs THEN FromGuest(engine, type, object.attrs[name])
    ELSE NoAttribute

\* ExceptionField::read, and from_raised of all of them in order.
ReadField(engine, fields, i, object) ==
    IF fields[i].arg THEN ReadArg(engine, fields[i].type, object, NumberOf(fields, i))
    ELSE ReadAttr(engine, fields[i].type, object, NameOf(fields[i]))

FromRaised(engine, struct, object) ==
    Collect([i \in DOMAIN struct.fields |-> ReadField(engine, struct.fields, i, object)])

\* caught, in a scope of one engine, of an exception of a guest of another.
Caught(specs, engine, scope, struct, object) ==
    IF ~Matches(specs, ClassOf(struct), object.class) THEN NotCaught
    ELSE IF ~KeptFor(engine, scope) THEN Conversion
    ELSE FromRaised(engine, struct, object)
=============================================================================
