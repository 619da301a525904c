------------------------------ MODULE Instances ------------------------------
(***************************************************************************)
(* Instances of host classes and their Rust payloads (guestpy-core,        *)
(* host/class.rs and handle/class.rs, and the classes.rs of both           *)
(* backends).  An instance is made by the __new__ of some host class and   *)
(* gets its payload from the __init__ of some host class.  A payload is    *)
(* borrowed while host code uses it, and that code may call the guest,     *)
(* which may use the instance again.                                       *)
(*                                                                         *)
(* CPython keeps a payload of any class in one box.  RustPython makes the  *)
(* instance for one class of payload, and takes and gives no other.  Both  *)
(* are followed through the same calls; a guest may catch what one of them *)
(* refuses and go on.                                                      *)
(***************************************************************************)
EXTENDS Naturals, Sequences, FiniteSets

CONSTANTS
    Instances,
    HostClasses,
    GuestTypes,     \* the interpreter's classes made for host classes, or derived from them
    TypeOf,         \* the one made for each host class
    Abstract,       \* those with abstract methods
    MaxUses,        \* bound on calls under way
    NoClass

Backends == {"cpython", "rustpython"}

ASSUME InstancesAssumption ==
    /\ TypeOf \in [HostClasses -> GuestTypes]
    /\ Abstract \subseteq GuestTypes
    /\ MaxUses \in Nat
    /\ NoClass \notin HostClasses \cup GuestTypes

VARIABLES
    typeOf,     \* the class of each instance
    maker,      \* the host class whose __new__ made it
    box,        \* CPython: the class of the payload
    filled,     \* RustPython: the instances that have their payload
    uses,       \* calls that construct or borrow a payload, innermost last
    crossed     \* history: instances that took a payload of another class than their maker

instanceVars == <<typeOf, maker, box, filled, uses, crossed>>

\* A use is on the backends that accept it.
PayloadUses ==
    [instance: Instances, class: HostClasses, access: {"construct", "shared", "exclusive"},
     on: SUBSET Backends]

InstancesTypeOK ==
    /\ typeOf \in [Instances -> GuestTypes \cup {NoClass}]
    /\ maker \in [Instances -> HostClasses \cup {NoClass}]
    /\ box \in [Instances -> HostClasses \cup {NoClass}]
    /\ filled \subseteq Instances
    /\ uses \in Seq(PayloadUses) /\ Len(uses) <= MaxUses
    /\ crossed \subseteq Instances

InstancesInit ==
    /\ typeOf = [o \in Instances |-> NoClass]
    /\ maker = [o \in Instances |-> NoClass]
    /\ box = [o \in Instances |-> NoClass]
    /\ filled = {}
    /\ uses = <<>>
    /\ crossed = {}

-----------------------------------------------------------------------------
\* The uses that hold a borrow of o, on backend b.
Borrows(b, o) ==
    {i \in DOMAIN uses :
        uses[i].instance = o /\ uses[i].access # "construct" /\ b \in uses[i].on}

\* try_borrow and try_borrow_mut.
Allows(b, o, access) ==
    IF access = "shared" THEN \A i \in Borrows(b, o) : uses[i].access = "shared"
    ELSE Borrows(b, o) = {}

\* Whether a payload of class c is there to be borrowed.
BoxHolds(o, c) == box[o] = c
CellHolds(o, c) == maker[o] = c /\ o \in filled

Holds(b, o, c) == IF b = "cpython" THEN BoxHolds(o, c) ELSE CellHolds(o, c)

\* Slip: the box is replaced whoever borrows it.
BoxTakesAlways(o, c) == TRUE

\* Whether set_payload takes one of class c.
BoxTakes(o, c) == Allows("cpython", o, "exclusive")
CellTakes(o, c) == maker[o] = c /\ Allows("rustpython", o, "exclusive")

-----------------------------------------------------------------------------
\* The __new__ of host class c; it is static, and may be asked for an instance of any class.
New(o, t, c) ==
    /\ typeOf[o] = NoClass
    /\ t \notin Abstract
    /\ typeOf' = [typeOf EXCEPT ![o] = t]
    /\ maker' = [maker EXCEPT ![o] = c]
    /\ UNCHANGED <<box, filled, uses, crossed>>

\* The host gives the guest a value of a host class.
Instantiate(o, c) ==
    /\ typeOf[o] = NoClass
    /\ TypeOf[c] \notin Abstract
    /\ typeOf' = [typeOf EXCEPT ![o] = TypeOf[c]]
    /\ maker' = [maker EXCEPT ![o] = c]
    /\ box' = [box EXCEPT ![o] = c]
    /\ filled' = filled \cup {o}
    /\ UNCHANGED <<uses, crossed>>

Use(o, c, access, on) == [instance |-> o, class |-> c, access |-> access, on |-> on]
Top == uses[Len(uses)]
Outer == SubSeq(uses, 1, Len(uses) - 1)

\* The __init__ of a host class, on any instance: its constructor makes the payload, and may
\* run any code.
StartInit(o, c) ==
    /\ typeOf[o] # NoClass
    /\ Len(uses) < MaxUses
    /\ uses' = Append(uses, Use(o, c, "construct", Backends))
    /\ UNCHANGED <<typeOf, maker, box, filled, crossed>>

\* Then set_payload, which either backend may refuse.
FinishInit ==
    /\ uses # <<>> /\ Top.access = "construct"
    /\ LET o == Top.instance
           c == Top.class
       IN /\ box' = IF BoxTakes(o, c) THEN [box EXCEPT ![o] = c] ELSE box
          /\ filled' = IF CellTakes(o, c) THEN filled \cup {o} ELSE filled
          /\ crossed' = IF BoxTakes(o, c) /\ c # maker[o] THEN crossed \cup {o} ELSE crossed
    /\ uses' = Outer
    /\ UNCHANGED <<typeOf, maker>>

\* The class has no constructor, or it fails.
FailInit ==
    /\ uses # <<>> /\ Top.access = "construct"
    /\ uses' = Outer
    /\ UNCHANGED <<typeOf, maker, box, filled, crossed>>

\* A method, an argument or a handle borrows the payload as one of class c.
Borrow(o, c, access) ==
    /\ typeOf[o] # NoClass
    /\ Len(uses) < MaxUses
    /\ LET on == {b \in Backends : Holds(b, o, c) /\ Allows(b, o, access)}
       IN on # {} /\ uses' = Append(uses, Use(o, c, access, on))
    /\ UNCHANGED <<typeOf, maker, box, filled, crossed>>

\* The borrow ends with the call it was made for.
EndBorrow ==
    /\ uses # <<>> /\ Top.access # "construct"
    /\ uses' = Outer
    /\ UNCHANGED <<typeOf, maker, box, filled, crossed>>

InstancesNext ==
    \/ \E o \in Instances, t \in GuestTypes, c \in HostClasses : New(o, t, c)
    \/ \E o \in Instances, c \in HostClasses : Instantiate(o, c) \/ StartInit(o, c)
    \/ FinishInit \/ FailInit
    \/ \E o \in Instances, c \in HostClasses, access \in {"shared", "exclusive"} :
           Borrow(o, c, access)
    \/ EndBorrow

InstancesSpec == InstancesInit /\ [][InstancesNext]_instanceVars

-----------------------------------------------------------------------------
\* A payload that is borrowed stays there, of the class it was borrowed as, although the code
\* that uses it may have the instance initialised again: the expect in the guards' deref holds
\* ("payload was validated as C in BackendClasses::borrow", guestpy-pyo3, classes.rs:66), and
\* so does what RustPython's Ref::filter_map relies on.
PayloadIsThere ==
    \A b \in Backends, o \in Instances : \A i \in Borrows(b, o) : Holds(b, o, uses[i].class)

\* The same code works on both backends: an instance that only its maker has initialised is
\* borrowed on both or on neither, although one checks the class of a payload when it is
\* borrowed and the other when the instance is made and when the payload is set.
BackendsAgree ==
    \A i \in DOMAIN uses : uses[i].instance \notin crossed => uses[i].on = Backends

PayloadsHold == PayloadIsThere /\ BackendsAgree
=============================================================================
