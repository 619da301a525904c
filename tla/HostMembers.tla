----------------------------- MODULE HostMembers -----------------------------
(***************************************************************************)
(* What #[host_class] and #[host_module] make of a Rust function           *)
(* (guestpy-macros, host/class.rs, host/module.rs, host/callable.rs).      *)
(* classify_method looks at the function's role, receiver and parameters,  *)
(* and rejects it or registers it with a closure.  The body of the closure *)
(* uses names that not every closure binds.                                *)
(***************************************************************************)
EXTENDS Arguments

ClassRoles ==
    {"none", "constructor", "method", "async_method", "class_method", "static_method", "get",
     "set", "delete", "statics", "constant"}
ModuleRoles == {"none", "function", "getter", "constant", "init", "object"}

\* A function with its attributes; dunder and name say whether they are given.
Functions(roles, params) ==
    [role: roles, dunder: BOOLEAN, name: BOOLEAN, receiver: {"none", "shared", "exclusive"},
     asynchronous: BOOLEAN, params: params]

Count(params, role) == Cardinality({i \in DOMAIN params : params[i].role = role})
Arity(params) == Cardinality({i \in DOMAIN params : ConsumesArg(params[i])})
UsesContext(params) == Uses(params, "context")
UsesThis(params) == Uses(params, "this")
UsesEnter(params) == UsesArgs(params) \/ UsesContext(params) \/ Uses(params, "enter")
NonPlainValue(p) == ConsumesArg(p) /\ p.role # "value"

\* The roles that call reject_this.
WithoutThis == {"constructor", "static_method", "function", "getter"}

SetsPlainly(params) == Arity(params) = 1 /\ ~\E i \in DOMAIN params : NonPlainValue(params[i])

\* Whether a function fits its role, once it is parsed as a callable.
Fits(f) ==
    /\ f.role \in WithoutThis => ~UsesThis(f.params)
    /\ f.role \in {"constructor", "class_method", "static_method"} => f.receiver = "none"
    /\ f.role \in {"method", "async_method"} => f.receiver # "none" \/ UsesThis(f.params)
    /\ f.role \in {"async_method", "function", "getter"} => f.receiver # "exclusive"
    /\ f.role = "class_method" => Count(f.params, "this") = 1
    /\ f.role = "get" => f.receiver = "shared"
    /\ f.role \in {"set", "delete"} => f.receiver = "exclusive"
    /\ f.role \in {"get", "delete", "getter"} => Arity(f.params) = 0
    /\ f.role = "set" => SetsPlainly(f.params)
    /\ f.role \notin {"none", "constant"}

\* classify_method of a host class: what the function becomes.
ClassMember(f) ==
    LET g == IF f.role = "none" /\ f.dunder THEN [f EXCEPT !.role = "method"] ELSE f
    IN IF /\ ~(f.dunder /\ f.name)
          /\ f.dunder => g.role \in {"method", "async_method"}
          /\ \/ f.role = "statics" /\ f.receiver = "none"
             \/ f.role # "statics" /\ Parses(f.params) /\ ~f.asynchronous /\ Fits(g)
       THEN g.role ELSE "rejected"

\* classify_method of a host module.
ModuleMember(f) ==
    IF \/ /\ f.role \in {"init", "object"}
          /\ f.receiver # "exclusive" /\ ~f.asynchronous
          /\ f.role = "init" => Len(f.params) <= 1
       \/ /\ f.role \in {"function", "getter"} /\ Parses(f.params) /\ Fits(f)
          /\ f.asynchronous => f.role # "getter" /\ ~Uses(f.params, "enter")
    THEN f.role ELSE "rejected"

-----------------------------------------------------------------------------
\* Members whose parameters are given by accessor_expressions.
Accessors == {"get", "set", "delete", "getter"}

\* The names in the expression for parameter p; an accessor has none for most roles.
Expression(role, p) ==
    CASE p.role = "enter" -> {"enter"}
      [] p.role = "this" -> {"receiver"}
      [] p.role = "context" -> {"context"}
      [] ConsumesArg(p) /\ role \notin Accessors -> {"args", "enter"}
      [] p.role = "value" /\ role \in Accessors -> {"value"}
      [] OTHER -> {"unreachable"}

\* The names in the body that registration and render give a member.
Body(role, f) ==
    CASE role = "statics" -> {"ns"}
      [] role = "object" -> {"ns"} \cup (IF f.receiver = "none" THEN {} ELSE {"self"})
      [] role = "init" ->
             (IF f.params = <<>> THEN {} ELSE {"enter"})
                 \cup (IF f.receiver = "none" THEN {} ELSE {"state", "enter"})
      [] OTHER ->
             (UNION {Expression(role, f.params[i]) : i \in DOMAIN f.params})
                 \cup (IF UsesContext(f.params) THEN {"enter"} ELSE {})
                 \cup (IF f.receiver = "none" THEN {}
                       ELSE IF role \in ModuleRoles THEN {"state", "enter"} ELSE {"receiver"})

\* The names its closure binds: the parameters, those that are used under their own names,
\* and what the body binds first.
Binds(role, f) ==
    (CASE role \in {"statics", "object"} -> {"ns"}
       [] role \in {"method", "async_method", "class_method", "get", "delete"} -> {"receiver"}
       [] role = "set" -> {"receiver", "value"}
       [] OTHER -> {})
    \cup (IF role \in ModuleRoles /\ f.receiver = "shared" THEN {"enter", "state"} ELSE {})
    \cup (IF role = "object" THEN {"self"} ELSE {})
    \cup (IF \/ role = "init" /\ f.params # <<>>
             \/ role \notin {"init", "object", "statics"} /\ UsesEnter(f.params)
          THEN {"enter"} ELSE {})
    \cup (IF UsesArgs(f.params) /\ role \notin Accessors THEN {"args"} ELSE {})
    \cup (IF UsesContext(f.params) THEN {"context"} ELSE {})
=============================================================================
