----------------------------- MODULE Realisation -----------------------------
(***************************************************************************)
(* Host classes become classes of the interpreter once per runtime         *)
(* (guestpy-core, catalog.rs and host/class.rs).  The first guest that     *)
(* needs a class realises it: its host bases first, then the class; the    *)
(* others get the same object.  What the class calls, it calls as the      *)
(* guest that realised it.                                                 *)
(*                                                                         *)
(* Declarations enter the registry when a guest is built, for good, even   *)
(* if the build then fails.  A class may run code while it is realised: an *)
(* imported base, a metaclass, a getter of a static member.  That code may *)
(* need other host classes.                                                *)
(***************************************************************************)
EXTENDS Naturals, Sequences, FiniteSets

CONSTANTS
    Guests, Classes,
    Modules,        \* declarations of host modules
    HostBases,      \* the host bases of each class, in order
    Statics,        \* how many static members each class has
    Declares,       \* the classes each module declares
    Shared,         \* modules bound to the runtime
    Own,            \* modules bound to each guest
    RunsCode,       \* classes that run code while they are realised
    Reenters,       \* whether that code needs the classes that are being realised
    MaxDepth,       \* bound on classes being realised at once
    MaxMade,        \* bound on the objects made for one class
    None

\* Each class with the host classes it inherits from.
LineageOf ==
    [c \in Classes |->
        {d \in Classes :
            \A S \in SUBSET Classes :
                /\ c \in S
                /\ \A b \in S : \A i \in DOMAIN HostBases[b] : HostBases[b][i] \in S
                => d \in S}]

Lineage(c) == LineageOf[c]

Bound(g) == Shared \cup Own[g]
Has(m, c) == \E d \in Declares[m] : c \in Lineage(d)

ASSUME RealisationAssumption ==
    /\ HostBases \in [Classes -> Seq(Classes)]
    /\ \A c \in Classes : \A i \in DOMAIN HostBases[c] : c \notin Lineage(HostBases[c][i])
    /\ Statics \in [Classes -> Nat]
    /\ Declares \in [Modules -> SUBSET Classes]
    /\ Shared \subseteq Modules
    /\ Own \in [Guests -> SUBSET Modules]
    /\ RunsCode \subseteq Classes
    /\ Reenters \in BOOLEAN
    /\ None \notin Modules
    \* Which of several modules of one library comes first is left out.
    /\ \A c \in Classes, S \in {Shared} \cup {Own[g] : g \in Guests} :
           \A m, n \in S : Has(m, c) /\ Has(n, c) => m = n

VARIABLES
    guests,         \* "new", "alive" or "gone"
    registered,     \* the module whose declaration of a class was the first
    realised,       \* the object made for each class
    making,         \* the classes being realised, innermost last
    statics,        \* the objects made for each class: how many static members each has
    given           \* the class objects each guest has

vars == <<guests, registered, realised, making, statics, given>>

\* What RealisationCache knows once the modules ms were absorbed as well.
Absorb(ms) ==
    [c \in Classes |->
        IF registered[c] = None /\ \E m \in ms : Has(m, c)
        THEN CHOOSE m \in ms : Has(m, c) ELSE registered[c]]

\* What there is in place of a class object.
NoClass == [nth |-> 0]

Init ==
    /\ guests = [g \in Guests |-> "new"]
    /\ registered = [c \in Classes |->
           IF \E m \in Shared : Has(m, c) THEN CHOOSE m \in Shared : Has(m, c) ELSE None]
    /\ realised = [c \in Classes |-> NoClass]
    /\ making = <<>>
    /\ statics = [c \in Classes |-> <<>>]
    /\ given = [g \in Guests |-> [c \in Classes |-> NoClass]]

-----------------------------------------------------------------------------
Top == making[Len(making)]
Below == SubSeq(making, 1, Len(making) - 1)
Under == {making[i].class : i \in DOMAIN making}

\* Code that may ask for a class: the host's, or what runs for the class being realised.
CodeRuns == making # <<>> => Top.class \in RunsCode

Frame(g, c, m, use) ==
    [guest |-> g, class |-> c, of |-> m, use |-> use, bases |-> <<>>, nth |-> 0]

Build(g) ==
    /\ guests[g] = "new"
    /\ guests' = [guests EXCEPT ![g] = "alive"]
    /\ registered' = Absorb(Own[g])
    /\ UNCHANGED <<realised, making, statics, given>>

\* The bindings are refused, or an initializer fails.
BuildFails(g) ==
    /\ guests[g] = "new"
    /\ guests' = [guests EXCEPT ![g] = "gone"]
    /\ registered' = Absorb(Own[g])
    /\ UNCHANGED <<realised, making, statics, given>>

DropGuest(g) ==
    /\ guests[g] = "alive"
    /\ \A i \in DOMAIN making : making[i].guest # g
    /\ guests' = [guests EXCEPT ![g] = "gone"]
    /\ given' = [given EXCEPT ![g] = [c \in Classes |-> NoClass]]
    /\ UNCHANGED <<registered, realised, making, statics>>

\* ClassRealiser::realise for a class that is realised.
Cached(g, c) ==
    /\ realised[c] # NoClass
    /\ given' = [given EXCEPT ![g][c] = realised[c]]
    /\ UNCHANGED <<guests, registered, realised, making, statics>>

\* For a class that is not.
Begin(g, c, m) ==
    /\ registered[c] # None
    /\ realised[c] = NoClass
    /\ Len(making) < MaxDepth
    /\ Reenters \/ \A d \in Under : d \notin Lineage(c)
    /\ making' = Append(making, Frame(g, c, m, "code"))
    /\ UNCHANGED <<guests, registered, realised, statics, given>>

\* A host module of the guest is realised: it uses its own declaration.
ImportMember(g, c) ==
    /\ guests[g] = "alive" /\ CodeRuns
    /\ \E m \in Bound(g) :
           /\ c \in Declares[m]
           /\ Cached(g, c) \/ Begin(g, c, m)

\* Class::of: it uses the declaration that was the first.
ClassOf(g, c) ==
    /\ guests[g] = "alive" /\ CodeRuns
    /\ Cached(g, c) \/ Begin(g, c, registered[c])

-----------------------------------------------------------------------------
Made(f) == f.nth # 0
NextBase(f) == HostBases[f.class][Len(f.bases) + 1]

WithBase(f, class) == [f EXCEPT !.bases = Append(@, class)]

\* The next host base is realised already.
UseBase ==
    /\ making # <<>> /\ Len(Top.bases) < Len(HostBases[Top.class])
    /\ realised[NextBase(Top)] # NoClass
    /\ making' = [making EXCEPT ![Len(making)] = WithBase(Top, realised[NextBase(Top)])]
    /\ UNCHANGED <<guests, registered, realised, statics, given>>

\* Or it is realised now, from the declaration the class came with.
RealiseBase ==
    /\ making # <<>> /\ Len(Top.bases) < Len(HostBases[Top.class])
    /\ registered[NextBase(Top)] # None
    /\ realised[NextBase(Top)] = NoClass
    /\ Len(making) < MaxDepth
    /\ making' = Append(making, Frame(Top.guest, NextBase(Top), Top.of, "base"))
    /\ UNCHANGED <<guests, registered, realised, statics, given>>

\* The class object of f.
Object(f) == [class |-> f.class, nth |-> f.nth, guest |-> f.guest, of |-> f.of, bases |-> f.bases]

\* The metaclass makes an object for the class, with members bound to the guest.
NewObject ==
    /\ making # <<>> /\ Len(Top.bases) = Len(HostBases[Top.class]) /\ ~Made(Top)
    /\ Len(statics[Top.class]) < MaxMade
    /\ statics' = [statics EXCEPT ![Top.class] = Append(@, 0)]
    /\ making' = [making EXCEPT ![Len(making)].nth = Len(statics[Top.class]) + 1]
    /\ UNCHANGED <<guests, registered, given>>

\* Slip: the class is kept as soon as there is one, before its static members are set.
CreateKept ==
    /\ NewObject
    /\ realised' = [realised EXCEPT ![Top.class] =
                        Object([Top EXCEPT !.nth = Len(statics[Top.class]) + 1])]

Create == NewObject /\ UNCHANGED realised

\* The static members that the class object o has so far.
Set(o) == statics[o.class][o.nth]

\* The next static member is realised and set, after the code it may run.
SetStatic ==
    /\ making # <<>> /\ Made(Top) /\ Set(Top) < Statics[Top.class]
    /\ statics' = [statics EXCEPT ![Top.class][Top.nth] = @ + 1]
    /\ UNCHANGED <<guests, registered, realised, making, given>>

\* The realisation of f is over and gives a class to who asked for it.
Return(f) ==
    IF f.use = "base"
    THEN /\ making' = [Below EXCEPT ![Len(Below)] = WithBase(@, Object(f))]
         /\ UNCHANGED given
    ELSE /\ making' = Below
         /\ given' = [given EXCEPT ![f.guest][f.class] = Object(f)]

\* Slip: the class is not kept when it is the base of another one.
PublishOuter ==
    /\ making # <<>> /\ Made(Top) /\ Set(Top) = Statics[Top.class]
    /\ realised' = IF Top.use = "base" THEN realised
                   ELSE [realised EXCEPT ![Top.class] = Object(Top)]
    /\ Return(Top)
    /\ UNCHANGED <<guests, registered, statics>>

\* The loop over the static members ends, and set_realised_class comes last.
Publish ==
    /\ making # <<>> /\ Made(Top) /\ Set(Top) = Statics[Top.class]
    /\ realised' = [realised EXCEPT ![Top.class] = Object(Top)]
    /\ Return(Top)
    /\ UNCHANGED <<guests, registered, statics>>

\* An error goes up to the call that code made.
Unwind ==
    \E n \in DOMAIN making :
        /\ making[n].use = "code"
        /\ \A i \in (n + 1)..Len(making) : making[i].use = "base"
        /\ making' = SubSeq(making, 1, n - 1)

\* An imported base, a member, the metaclass or a static member fails.
Fail ==
    /\ Unwind
    /\ UNCHANGED <<guests, registered, realised, statics, given>>

Next ==
    \/ \E g \in Guests : Build(g) \/ BuildFails(g) \/ DropGuest(g)
    \/ \E g \in Guests, c \in Classes : ImportMember(g, c) \/ ClassOf(g, c)
    \/ UseBase \/ RealiseBase \/ Create \/ SetStatic \/ Publish \/ Fail

Spec == Init /\ [][Next]_vars

-----------------------------------------------------------------------------
\* Objects are nested in the classes derived from them; this is one without its bases.
Outline == [nth: 1..MaxMade, guest: Guests, of: Modules]

IsObject(o, c) ==
    /\ o.class = c
    /\ [nth |-> o.nth, guest |-> o.guest, of |-> o.of] \in Outline
    /\ Len(o.bases) = Len(HostBases[c])

TypeOK ==
    /\ guests \in [Guests -> {"new", "alive", "gone"}]
    /\ registered \in [Classes -> Modules \cup {None}]
    /\ \A c \in Classes : realised[c] = NoClass \/ IsObject(realised[c], c)
    /\ Len(making) <= MaxDepth
    /\ \A i \in DOMAIN making :
           LET f == making[i]
           IN /\ f.guest \in Guests /\ f.class \in Classes /\ f.of \in Modules
              /\ f.use \in {"code", "base"}
              /\ f.nth \in 0..MaxMade /\ (Made(f) => IsObject(Object(f), f.class))
    /\ DOMAIN statics = Classes
    /\ \A c \in Classes :
           /\ Len(statics[c]) <= MaxMade
           /\ \A n \in DOMAIN statics[c] : statics[c][n] \in 0..Statics[c]
    /\ \A g \in Guests, c \in Classes : given[g][c] = NoClass \/ IsObject(given[g][c], c)

\* The declarations of the host bases are known wherever that of a class is, so that no
\* realisation stops half-way at a base nobody declared.
LineageRegistered ==
    \A c \in Classes : registered[c] # None => \A b \in Lineage(c) : registered[b] # None

\* A class is one object for the whole runtime: what a guest has, and what its classes
\* inherit from, is what conversions of host values will make instances of, for that guest
\* and for the others.
OneClassEach ==
    /\ \A g \in Guests, c \in Classes : given[g][c] # NoClass => given[g][c] = realised[c]
    /\ \A c \in Classes :
           realised[c] # NoClass =>
               \A i \in DOMAIN HostBases[c] : realised[c].bases[i] = realised[HostBases[c][i]]

Whole(o) == Set(o) = Statics[o.class]

\* The realiser gives no guest a class, and no class a base, before its static members are
\* set, nor after one of them failed, although the code those members run may ask for the
\* class again: set_realised_class comes last.  (A metaclass has the object earlier.)
OnlyWholeClasses ==
    /\ \A g \in Guests, c \in Classes : given[g][c] # NoClass => Whole(given[g][c])
    /\ \A i \in DOMAIN making : \A k \in DOMAIN making[i].bases : Whole(making[i].bases[k])

\* A class that is realised stays what it is, whichever guests come, fail to be built, ask
\* for it again and go: instances made before keep their class.
ClassStays ==
    [][\A c \in Classes : realised[c] # NoClass => realised'[c] = realised[c]]_vars
=============================================================================
