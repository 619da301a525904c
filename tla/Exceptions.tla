------------------------------ MODULE Exceptions ------------------------------
(***************************************************************************)
(* What the guest sees of a host error, and what the host makes of the     *)
(* guest's exceptions (guestpy-core, errors.rs, guest/errors.rs,           *)
(* host/exception.rs, and the exceptions of catalog.rs).                   *)
(*                                                                         *)
(* A class is named by a reference; realised, it is its method resolution  *)
(* order: a sequence of entries, each the reference it was made for and    *)
(* its dotted name.  An error is the sequence of itself, its cause, the     *)
(* cause of that and so on, and so is an exception, of which only the      *)
(* classes matter.                                                         *)
(***************************************************************************)
EXTENDS Sequences, FiniteSetsExt, Naturals

CONSTANTS
    BuiltinExceptions,  \* names of Python's exception classes
    OtherBuiltins       \* names of what else is in builtins

\* What errors.rs raises, and the bases of that.
ASSUME BuiltinsAssumption ==
    /\ {"BaseException", "Exception", "LookupError", "KeyError", "RuntimeError", "NotImplementedError",
        "TypeError", "ImportError", "AttributeError", "OSError", "StopIteration", "StopAsyncIteration",
        "SystemError"} \subseteq BuiltinExceptions
    /\ BuiltinExceptions \cap OtherBuiltins = {}

\* ExceptionClass.
Builtin(name) == [ref |-> "builtin", module |-> "builtins", name |-> name]
Host(module, name) == [ref |-> "host", module |-> module, name |-> name]
Guest(module, qualname) == [ref |-> "guest", module |-> module, name |-> qualname]
Typed(id, name) == [ref |-> "typed", id |-> id, name |-> name]

Key(class) == class.ref \in {"host", "typed"}

\* A declaration: ExceptionSpec.  Its key is a reference itself.
Declared(key, module, base) == [key |-> key, module |-> module, base |-> base]

Fatal == {"TimeoutError", "CancelledError", "InterruptedError", "ClosedError"}

\* FatalExceptions::spec, which the runtime's builder absorbs before the host's modules.
FatalSpecs == {Declared(Host("guestpy", name), "guestpy", Builtin("BaseException")) : name \in Fatal}

\* The name an exception's class is known by.
Qualified(module, name) == module \o "." \o name

Entry(ref, module, name) == [ref |-> ref, dotted |-> Qualified(module, name)]

\* Python's own exceptions, as far as errors.rs uses them.
BuiltinOrder(name) ==
    LET names == CASE name = "BaseException" -> <<name>>
                   [] name = "Exception" -> <<name, "BaseException">>
                   [] name = "NotImplementedError" ->
                          <<name, "RuntimeError", "Exception", "BaseException">>
                   [] name = "KeyError" -> <<name, "LookupError", "Exception", "BaseException">>
                   [] OTHER -> <<name, "Exception", "BaseException">>
    IN [i \in DOMAIN names |-> Entry(Builtin(names[i]), "builtins", names[i])]

-----------------------------------------------------------------------------
\* Links of a host error; a Raise may have a cause, which is the next link.
Error(kind) == [error |-> kind]
Raise(class, args) == [error |-> "raise", class |-> class, args |-> args]
Thrown(exception) == [error |-> "guest", exception |-> exception]

\* Arguments of a Raise: text, a value of the host's made in a guest, and one that fails.
Argument == {"text", "value", "failing"}

Made(x) == [made |-> TRUE, is |-> x]
Failed(link) == [made |-> FALSE, is |-> link]

\* A guest's ImportError, when a module has no such class.
MissingInGuest == Thrown(<<BuiltinOrder("ImportError")>>)

\* Python's KeyError, when builtins has no such name.
MissingInBuiltins == Thrown(<<BuiltinOrder("KeyError")>>)

\* ExceptionRealiser::builtin and exception_class.
BuiltinClass(name) ==
    IF name \in BuiltinExceptions THEN Made(BuiltinOrder(name))
    ELSE IF name \in OtherBuiltins THEN Failed(Error("conversion"))
    ELSE Failed(MissingInBuiltins)

\* RealisationCache::exception_spec.
IsDeclared(specs, class) == \E s \in specs : s.key = class
SpecOf(specs, class) == CHOOSE s \in specs : s.key = class

\* A class, its base, the base of that and so on, until one that is not declared; and how many
\* of them are.
Upward(specs, class) ==
    LET up[n \in 0..Cardinality(specs)] ==
            IF n = 0 THEN class
            ELSE IF IsDeclared(specs, up[n - 1]) THEN SpecOf(specs, up[n - 1]).base ELSE up[n - 1]
    IN up
Ends(specs, class) == {n \in 0..Cardinality(specs) : ~IsDeclared(specs, Upward(specs, class)[n])}
Height(specs, class) == Min(Ends(specs, class))

\* ExceptionRealiser::create, for each of own, on a class that may have failed.
Upon(base, own) == IF base.made THEN Made(own \o base.is) ELSE base

\* ExceptionRealiser::host: the class of a declaration, made on its base's.
DeclaredEntry(specs, class) == Entry(class, SpecOf(specs, class).module, class.name)
Realise(specs, class) ==
    LET up == Upward(specs, class)
        height == Height(specs, class)
        top == up[height]
    IN IF Key(top) THEN Failed(Error("unexpected"))
       ELSE IF top.ref # "builtin" THEN Failed(Error("unsupported"))
       ELSE Upon(BuiltinClass(top.name), [i \in 1..height |-> DeclaredEntry(specs, up[i - 1])])

\* Slip: what a guest's name stands for is raised without asking whether it is an exception.
ClassForUnchecked(inGuest, specs, classes, class) ==
    IF class.ref = "builtin" THEN BuiltinClass(class.name)
    ELSE IF Key(class) THEN Realise(specs, class)
    ELSE IF ~inGuest THEN Failed(Error("unexpected"))
    ELSE IF class \notin DOMAIN classes THEN Failed(MissingInGuest)
    ELSE Made(classes[class])

\* ExceptionRaiser::class.  classes gives what guests define: a class's order, or <<>> for a
\* value that is no exception class.
ClassFor(inGuest, specs, classes, class) ==
    IF class.ref = "builtin" THEN BuiltinClass(class.name)
    ELSE IF Key(class) THEN Realise(specs, class)
    ELSE IF ~inGuest THEN Failed(Error("unexpected"))
    ELSE IF class \notin DOMAIN classes THEN Failed(MissingInGuest)
    ELSE IF classes[class] = <<>> THEN Failed(Error("conversion"))
    ELSE Made(classes[class])

\* raise_value: what each link stands for, its attributes among the arguments.  A guest's
\* exception and a Raise of another backend are foreign_guest and foreign_raise.
Standing(link) ==
    CASE link.error = "raise" -> link
      [] link.error = "conversion" -> Raise(Builtin("TypeError"), <<"text">>)
      [] link.error \in {"import", "bundle", "ambiguous", "name_in_use"} ->
             Raise(Builtin("ImportError"), <<"text", "value">>)
      [] link.error = "attribute" -> Raise(Builtin("AttributeError"), <<"text">>)
      [] link.error \in {"borrow", "host", "foreign_guest"} ->
             Raise(Builtin("RuntimeError"), <<"text">>)
      [] link.error = "unsupported" ->
             Raise(Builtin("NotImplementedError"), <<"text">>)
      [] link.error = "io" -> Raise(Builtin("OSError"), <<"text">>)
      [] link.error = "stop" -> Raise(Builtin("StopIteration"), <<>>)
      [] link.error = "async_stop" -> Raise(Builtin("StopAsyncIteration"), <<>>)
      [] link.error \in Fatal -> Raise(Host("guestpy", link.error), <<"text">>)
      [] OTHER -> Raise(Builtin("SystemError"), <<"text">>)

\* value: an argument that is made in a guest needs one, and may fail there.
ArgumentError(inGuest, args) ==
    LET bad == {i \in DOMAIN args : args[i] = "failing" \/ (~inGuest /\ args[i] = "value")}
        first == CHOOSE i \in bad : \A j \in bad : i <= j
    IN IF bad = {} THEN <<>>
       ELSE IF ~inGuest THEN <<Error("unexpected")>> ELSE <<Error("conversion")>>

\* RaiseValue: the exception for a link, without the causes that follow it.
RaiseValue(inGuest, specs, classes, link) ==
    LET raise == Standing(link)
        class == ClassFor(inGuest, specs, classes, raise.class)
        failed == ArgumentError(inGuest, raise.args)
    IN IF link.error = "guest" THEN Made(link.exception)
       ELSE IF ~class.made THEN class
       ELSE IF failed # <<>> THEN Failed(failed[1])
       ELSE Made(<<class.is>>)

\* convert: the first link that cannot be raised is replaced by the reason, and at last by
\* SystemError, and its own causes are lost.
Convert(inGuest, specs, classes, error) ==
    LET Try(link) == RaiseValue(inGuest, specs, classes, link)
        broken == {i \in DOMAIN error : ~Try(error[i]).made}
        last == IF broken = {} THEN Len(error) ELSE Min(broken)
        end == Try(error[last])
        reason == Try(end.is)
    IN [i \in 1..(last - 1) |-> Try(error[i]).is[1]]
           \o (IF end.made THEN end.is
               ELSE IF reason.made THEN reason.is ELSE <<BuiltinOrder("SystemError")>>)

-----------------------------------------------------------------------------
\* GuestException::matches, of an exception's class.
MatchesName(class, module, name) == \E i \in DOMAIN class : class[i].dotted = Qualified(module, name)

\* RealisationCache::exception_types, which identify records when the guest is left.
ExceptionTypes(specs, class) ==
    {s.key.id : s \in {s \in specs : s.key.ref = "typed" /\ MatchesName(class, s.module, s.key.name)}}

\* ExceptionClass::matches.
Matches(specs, class, raised) ==
    IF class.ref = "typed" THEN class.id \in ExceptionTypes(specs, raised)
    ELSE MatchesName(raised, class.module, class.name)
=============================================================================
