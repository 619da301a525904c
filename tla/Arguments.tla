------------------------------ MODULE Arguments ------------------------------
(***************************************************************************)
(* How the arguments of a guest's call reach the parameters of a host      *)
(* callable (guestpy-core, marshal/args.rs, and the code that              *)
(* guestpy-macros, host/callable.rs, generates for it).  Every parameter   *)
(* takes its arguments in turn and marks them consumed; in the end         *)
(* whatever is not consumed is refused.                                    *)
(*                                                                         *)
(* A parameter is a record of its role, its name and whether it is an      *)
(* Option; a call is the number of its positional arguments and the names  *)
(* of its keyword arguments.                                               *)
(***************************************************************************)
EXTENDS Naturals, Sequences, FiniteSets

Roles ==
    {"value", "positional", "keyword", "rest", "borrow", "borrow_mut", "enter", "this",
     "context"}

Param(role, name, optional) == [role |-> role, name |-> name, optional |-> optional]

\* A signature as rustc lets it through: no two parameters have one name.
Parameters == [role: Roles, name: STRING, optional: BOOLEAN]
Signatures ==
    {params \in Seq(Parameters) :
        \A i, j \in DOMAIN params : params[i].name = params[j].name => i = j}

ConsumesPositional(p) == p.role \in {"value", "positional", "rest", "borrow", "borrow_mut"}
ConsumesArg(p) == p.role \notin {"enter", "this", "context"}
IsRest(p) == p.role = "rest"

Uses(params, role) == \E i \in DOMAIN params : params[i].role = role
UsesArgs(params) == \E i \in DOMAIN params : ConsumesArg(params[i])

\* guest_index: how many of the parameters before take positional arguments.
GuestIndex(params, i) == Cardinality({j \in 1..(i - 1) : ConsumesPositional(params[j])})

\* What Parameter::parse_all accepts.
Parses(params) ==
    /\ ~\E i, j \in DOMAIN params :
           i < j /\ params[i].role = "value" /\ params[j].role = "positional"
    /\ \A i \in DOMAIN params : IsRest(params[i]) => i = Len(params)

-----------------------------------------------------------------------------
At(k) == [kind |-> "at", at |-> k]
Named(n) == [kind |-> "named", name |-> n]

\* The arguments of a call, positions counted from zero.
Given(call) == {At(k) : k \in 0..(call.positional - 1)} \cup {Named(n) : n \in call.keywords}

\* Slip: a keyword is looked at first, and the position is looked at all the same.
TakenBoth(call, params, i) ==
    LET p == params[i]
        here == {At(GuestIndex(params, i))} \cap Given(call)
        named == {Named(p.name)} \cap Given(call)
    IN CASE p.role \in {"positional", "borrow", "borrow_mut"} -> here
         [] p.role = "keyword" -> named
         [] p.role = "value" -> here \cup named
         [] p.role = "rest" -> {At(k) : k \in GuestIndex(params, i)..(call.positional - 1)}
         [] OTHER -> {}

\* The arguments that parameter i takes, by Args::value or Args::rest_values.
Taken(call, params, i) ==
    LET p == params[i]
        here == {At(GuestIndex(params, i))} \cap Given(call)
        named == {Named(p.name)} \cap Given(call)
    IN CASE p.role \in {"positional", "borrow", "borrow_mut"} -> here
         [] p.role = "keyword" -> named
         [] p.role = "value" -> IF here # {} THEN here ELSE named
         [] p.role = "rest" -> {At(k) : k \in GuestIndex(params, i)..(call.positional - 1)}
         [] OTHER -> {}

Required(p) == ConsumesArg(p) /\ ~p.optional /\ ~IsRest(p)

\* argument_setup: what each parameter takes, or an error of an accessor or of finish.
Bind(call, params) ==
    LET taken == [i \in DOMAIN params |-> Taken(call, params, i)]
    IN [taken |-> taken,
        ok |-> /\ \A i \in DOMAIN params : Required(params[i]) => taken[i] # {}
               /\ Given(call) = UNION {taken[i] : i \in DOMAIN params}]

-----------------------------------------------------------------------------
\* Python's rule, to compare: the parameters an argument may go to.
Targets(params, arg) ==
    {i \in DOMAIN params :
        IF arg.kind = "named"
        THEN params[i].role \in {"value", "keyword"} /\ params[i].name = arg.name
        ELSE /\ ConsumesPositional(params[i])
             /\ IF IsRest(params[i]) THEN arg.at >= GuestIndex(params, i)
                ELSE arg.at = GuestIndex(params, i)}

\* A call is legal when each argument has one place to go to, no parameter gets two, and
\* none that must have one goes without.
Legal(call, params) ==
    /\ \A a \in Given(call) : Cardinality(Targets(params, a)) = 1
    /\ \A a, b \in Given(call) :
           a # b => \A i \in Targets(params, a) \cap Targets(params, b) : IsRest(params[i])
    /\ \A i \in DOMAIN params :
           Required(params[i]) => \E a \in Given(call) : i \in Targets(params, a)
=============================================================================
