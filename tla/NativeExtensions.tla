-------------------------- MODULE NativeExtensions --------------------------
(***************************************************************************)
(* The native extensions of CPython guests (guestpy-pyo3,                  *)
(* native_extensions.rs).  An extension can be in a process only once, so  *)
(* all guests of all threads share sys.modules and one registry of what is *)
(* loaded.  A load holds a lock that its own thread may take again: the    *)
(* code of an extension runs when it is created and when it is executed,   *)
(* and may import others.                                                  *)
(*                                                                         *)
(* A package is the module object of one guest; the same package of two    *)
(* guests is two objects.  What other Python code of the process puts into *)
(* sys.modules is Foreign.                                                 *)
(***************************************************************************)
EXTENDS Naturals, Sequences, FiniteSets

CONSTANTS
    Threads,        \* threads with a runtime
    Guests,
    ThreadOf,       \* the thread of each guest
    BundleOf,       \* the bundle each guest is built with
    Extensions,     \* dotted names of extensions
    Packages,       \* dotted names of packages
    PackagesOf,     \* the packages above each extension
    Contents,       \* the binary each bundle has for each extension
    Squatted,       \* names that other code may put into sys.modules
    Reimports,      \* whether an extension that is being created is imported again
    MaxDepth,       \* bound on nested loads
    None, Foreign

Names == Extensions \cup Packages
Bundles == {BundleOf[g] : g \in Guests}

\* The binary that guest g has for d.
Artifact(g, d) == Contents[BundleOf[g]][d]

\* The module object that guest g has for a package.
Parent(g) == [kind |-> "parent", of |-> g]

\* The object made by the load of d at nesting depth n; two such objects for one d and n
\* are never alive together.
Created(d, n) == [kind |-> "extension", of |-> <<d, n>>]

Objects ==
    {Parent(g) : g \in Guests} \cup {Created(d, n) : d \in Extensions, n \in 1..MaxDepth}
Modules == {Foreign} \cup Objects

Record(g, d, n) == [contents |-> Artifact(g, d), module |-> Created(d, n)]
Records == {Record(g, d, n) : g \in Guests, d \in Extensions, n \in 1..MaxDepth}

\* A package that is itself an extension is left out.
ASSUME NativeAssumption ==
    /\ ThreadOf \in [Guests -> Threads]
    /\ PackagesOf \in [Extensions -> SUBSET Packages]
    /\ Squatted \subseteq Extensions \cup Packages
    /\ Reimports \in BOOLEAN
    /\ MaxDepth \in Nat \ {0}
    /\ Extensions \cap Packages = {}
    /\ Foreign \notin Objects
    /\ None \notin Modules \cup Records

VARIABLES
    materialised,   \* bundles written to the store
    built,          \* guests that exist
    sysModules,     \* sys.modules of the interpreter
    loaded,         \* the registry's record of each extension
    held,           \* the extension modules in each guest's own cache
    loads           \* per thread, the calls of load under way, innermost last

vars == <<materialised, built, sysModules, loaded, held, loads>>

Loads ==
    [guest: Guests, name: Extensions, at: {"register", "create", "execute"},
     inserted: SUBSET Packages]

Init ==
    /\ materialised = {}
    /\ built = {}
    /\ sysModules = [n \in Names |-> None]
    /\ loaded = [d \in Extensions |-> None]
    /\ held = [g \in Guests |-> [d \in Extensions |-> None]]
    /\ loads = [t \in Threads |-> <<>>]

-----------------------------------------------------------------------------
Top(t) == loads[t][Len(loads[t])]
Below(t) == SubSeq(loads[t], 1, Len(loads[t]) - 1)
At(t, step) == loads[t] # <<>> /\ Top(t).at = step
Own(t) == Created(Top(t).name, Len(loads[t]))

\* Slip: the bundles' binaries are not compared.
SameUnasked(g, d) == TRUE

\* Whether the binary in the process is the one of the guest's bundle.
Same(g, d) == loaded[d].contents = Artifact(g, d)

\* Slip: no lock.
AcquiredNot(t) == TRUE

\* threading.RLock: free, or taken by this thread already.
Acquired(t) == \A u \in Threads \ {t} : loads[u] = <<>>

\* A call from outside, or from the code of the extension that is being loaded.
MayCall(t) ==
    /\ Len(loads[t]) < MaxDepth
    /\ loads[t] # <<>> => Top(t).at \in {"create", "execute"}

BeingCreated(t) == {loads[t][i].name : i \in {j \in DOMAIN loads[t] : loads[t][j].at = "create"}}

-----------------------------------------------------------------------------
\* A guest is built: its bundle is materialised unless it is already.  When writing
\* fails, what was written is removed, and so is the guest.
Prepare(g) ==
    /\ g \notin built
    /\ built' = built \cup {g}
    /\ materialised' = materialised \cup {BundleOf[g]}
    /\ UNCHANGED <<sysModules, loaded, held, loads>>

\* load, for a name the guest has not cached, of a binary that is in the process already.
Reuse(t, g, d) ==
    /\ g \in built /\ ThreadOf[g] = t /\ held[g][d] = None
    /\ MayCall(t) /\ Acquired(t)
    /\ loaded[d] # None
    /\ Same(g, d)
    /\ held' = [held EXCEPT ![g][d] = loaded[d].module]
    /\ UNCHANGED <<materialised, built, sysModules, loaded, loads>>

\* load of a binary that is not: the name must be free.  A load that is refused, here or
\* because another binary has the name, changes nothing.
Start(t, g, d) ==
    /\ g \in built /\ ThreadOf[g] = t /\ held[g][d] = None
    /\ MayCall(t) /\ Acquired(t)
    /\ Reimports \/ d \notin BeingCreated(t)
    /\ loaded[d] = None
    /\ sysModules[d] = None
    /\ loads' = [loads EXCEPT ![t] = Append(@,
           [guest |-> g, name |-> d, at |-> "register", inserted |-> {}])]
    /\ UNCHANGED <<materialised, built, sysModules, loaded, held>>

-----------------------------------------------------------------------------
\* sys.modules after rollback and remove_if_same: of the names in gone, those that still
\* hold what this load put there.
RemoveIfSame(t, gone) ==
    [n \in Names |->
        IF /\ n \in gone
           /\ sysModules[n] = IF n \in Packages THEN Parent(Top(t).guest) ELSE Own(t)
        THEN None ELSE sysModules[n]]

Rollback(t, child) ==
    /\ sysModules' = RemoveIfSame(t, Top(t).inserted \cup child)
    /\ loads' = [loads EXCEPT ![t] = Below(t)]
    /\ UNCHANGED <<materialised, built, loaded, held>>

\* Slip: they are put in without a look at what is there.
MissingAll(t) == PackagesOf[Top(t).name]

Missing(t) == {p \in PackagesOf[Top(t).name] : sysModules[p] = None}
Matching(t) == {p \in PackagesOf[Top(t).name] : sysModules[p] = Parent(Top(t).guest)}

\* register_parents: those that are missing are put in, those that are there must be the
\* guest's own.
RegisterParents(t) ==
    /\ At(t, "register")
    /\ PackagesOf[Top(t).name] = Missing(t) \cup Matching(t)
    /\ sysModules' = [n \in Names |->
           IF n \in Missing(t) THEN Parent(Top(t).guest) ELSE sysModules[n]]
    /\ loads' = [loads EXCEPT ![t] = Append(Below(t),
           [Top(t) EXCEPT !.at = "create", !.inserted = Missing(t)])]
    /\ UNCHANGED <<materialised, built, loaded, held>>

\* A different parent module: those put in before it was met are taken out again.
RefuseParents(t) ==
    /\ At(t, "register")
    /\ PackagesOf[Top(t).name] # Missing(t) \cup Matching(t)
    /\ Rollback(t, {})

\* module_from_spec, which may run code of the extension, then the entry in sys.modules.
Create(t) ==
    /\ At(t, "create")
    /\ sysModules' = [sysModules EXCEPT ![Top(t).name] = Own(t)]
    /\ loads' = [loads EXCEPT ![t] = Append(Below(t), [Top(t) EXCEPT !.at = "execute"])]
    /\ UNCHANGED <<materialised, built, loaded, held>>

FailCreate(t) ==
    /\ At(t, "create")
    /\ Rollback(t, {})

\* exec_module has succeeded: record_loaded, and realise_extension caches the module.
Finish(t) ==
    /\ At(t, "execute")
    /\ LET d == Top(t).name
       IN /\ loaded' = [loaded EXCEPT ![d] = Record(Top(t).guest, d, Len(loads[t]))]
          /\ held' = [held EXCEPT ![Top(t).guest][d] = Own(t)]
    /\ loads' = [loads EXCEPT ![t] = Below(t)]
    /\ UNCHANGED <<materialised, built, sysModules>>

\* Slip: only the parents are taken out.
FailExecuteHalf(t) ==
    /\ At(t, "execute")
    /\ Rollback(t, {})

FailExecute(t) ==
    /\ At(t, "execute")
    /\ Rollback(t, {Top(t).name})

-----------------------------------------------------------------------------
\* The code of the extension that is executed puts another object in its own place.
Replace(t) ==
    /\ At(t, "execute")
    /\ Top(t).name \in Squatted
    /\ sysModules[Top(t).name] = Own(t)
    /\ sysModules' = [sysModules EXCEPT ![Top(t).name] = Foreign]
    /\ UNCHANGED <<materialised, built, loaded, held, loads>>

\* An ordinary import of any thread: the interpreter lets other threads run between the
\* steps of a load, and they need no lock of guestpy's.
Squat(n) ==
    /\ n \in Squatted
    /\ sysModules[n] = None
    /\ sysModules' = [sysModules EXCEPT ![n] = Foreign]
    /\ UNCHANGED <<materialised, built, loaded, held, loads>>

Next ==
    \/ \E g \in Guests : Prepare(g)
    \/ \E t \in Threads, g \in Guests, d \in Extensions : Reuse(t, g, d) \/ Start(t, g, d)
    \/ \E t \in Threads :
           \/ RegisterParents(t) \/ RefuseParents(t)
           \/ Create(t) \/ FailCreate(t)
           \/ Finish(t) \/ FailExecute(t)
           \/ Replace(t)
    \/ \E n \in Names : Squat(n)

Spec == Init /\ [][Next]_vars

-----------------------------------------------------------------------------
TypeOK ==
    /\ materialised \subseteq Bundles
    /\ built \subseteq Guests
    /\ sysModules \in [Names -> Modules \cup {None}]
    /\ loaded \in [Extensions -> Records \cup {None}]
    /\ held \in [Guests -> [Extensions -> Modules \cup {None}]]
    /\ loads \in [Threads -> Seq(Loads)]
    /\ \A t \in Threads : Len(loads[t]) <= MaxDepth

\* README.md:234: separate guests cannot load different binaries under one name.  The
\* module a guest holds is the one of the process, and was made from the binary in the
\* guest's own bundle, however the loads were nested, failed and were raced.
OwnBinary ==
    \A g \in Guests, d \in Extensions :
        held[g][d] # None =>
            /\ loaded[d] # None
            /\ loaded[d].module = held[g][d]
            /\ loaded[d].contents = Artifact(g, d)

\* An extension stays loaded as the object it is: no guest's load takes the place of what
\* other guests hold already.
LoadedForGood ==
    [][\A d \in Extensions : loaded[d] # None => loaded'[d] = loaded[d]]_vars

\* sys.modules has no extension that failed: one that is in there is loaded, or its load
\* is under way.  Otherwise its name would be taken by an ambient module for good.
NothingHalfMade ==
    \A d \in Extensions, n \in 1..MaxDepth :
        sysModules[d] = Created(d, n) =>
            \/ loaded[d] # None /\ loaded[d].module = Created(d, n)
            \/ \E t \in Threads : n \in DOMAIN loads[t] /\ loads[t][n].name = d

\* While the code of an extension runs, the packages above it are in sys.modules, and are
\* those of the guest that loads it: loads nested in it, and failing there, take nothing
\* that they did not put in.
RunningHasParents ==
    \A t \in Threads : \A i \in DOMAIN loads[t] :
        loads[t][i].at # "register" =>
            \A p \in PackagesOf[loads[t][i].name] : sysModules[p] = Parent(loads[t][i].guest)

\* A package of a guest is in sys.modules only for an extension below it that is loaded or
\* being loaded: a load that fails does not keep other guests from theirs.
ParentsAreUsed ==
    \A p \in Packages, g \in Guests :
        sysModules[p] = Parent(g) =>
            \/ \E d \in Extensions : p \in PackagesOf[d] /\ loaded[d] # None
            \/ \E t \in Threads : \E i \in DOMAIN loads[t] :
                   loads[t][i].at # "register" /\ p \in PackagesOf[loads[t][i].name]
=============================================================================
