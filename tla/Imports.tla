------------------------------- MODULE Imports -------------------------------
(***************************************************************************)
(* How a guest's modules are realised.                                     *)
(*                                                                         *)
(* A guest has module definitions from four sources, asked in this order:  *)
(* host modules, native modules, the modules of mounted bundles and their  *)
(* native extensions.  Importing a dotted name realises each of its        *)
(* prefixes in turn and binds it in its parent.  A module is cached before *)
(* its body runs, so that circular imports find it, and removed again when *)
(* the body fails; its body imports modules and calls host functions,      *)
(* which load bundles.  So imports nest, and each is in the middle of its  *)
(* prefixes while the ones above it run.                                   *)
(*                                                                         *)
(* One guest, on one thread; names that are not bound to it go to the      *)
(* interpreter's own import and touch none of this state.                  *)
(***************************************************************************)
EXTENDS Integers, Sequences, SequencesExt

CONSTANTS
    Names,      \* dotted names
    PrefixesOf, \* the prefixes of each name, shortest first, ending in it
    Specs,      \* names of host modules
    Natives,    \* names and aliases of native modules
    Bundles,
    NamesOf,    \* the modules of each bundle
    ExtensionsOf, \* and its native extensions
    RootOf,     \* the one top-level module of each bundle
    Mounted,    \* the bundle each name is bound to when the guest is built
    None,
    MaxDepth    \* bound: nested imports

Origins == Bundles \union {"host", "native", "extension"}

Parent(n) == PrefixesOf[n][Len(PrefixesOf[n]) - 1]

IsRoot(n) == Len(PrefixesOf[n]) = 1

ASSUME ImportsAssumption ==
    /\ PrefixesOf \in [Names -> Seq(Names)]
    /\ \A n \in Names : PrefixesOf[n] # <<>> /\ Last(PrefixesOf[n]) = n
    /\ \A n \in Names : \A k \in DOMAIN PrefixesOf[n] :
           PrefixesOf[PrefixesOf[n][k]] = SubSeq(PrefixesOf[n], 1, k)
    /\ Specs \subseteq Names /\ Natives \subseteq Names
    /\ NamesOf \in [Bundles -> SUBSET Names]
    /\ ExtensionsOf \in [Bundles -> SUBSET Names]
    /\ RootOf \in [Bundles -> Names]
    /\ \A b \in Bundles : /\ RootOf[b] \in NamesOf[b]
                          /\ \A n \in NamesOf[b] : PrefixesOf[n][1] = RootOf[b]
                          /\ \A n \in NamesOf[b] : ToSet(PrefixesOf[n]) \subseteq NamesOf[b]
    /\ Mounted \in [Names -> Bundles \union {None}]
    /\ None \notin Origins
    /\ MaxDepth \in Nat

VARIABLES
    sources,    \* BindingState::sources
    extensions, \* BindingState::extensions, as the set of their names
    loaded,     \* BindingState::loaded
    realised,   \* BindingState::realised: where each cached module came from
    whole,      \* the cached modules whose body has run to its end
    bound,      \* the cached modules that their parent has as an attribute
    imports     \* the imports under way, outermost first

vars == <<sources, extensions, loaded, realised, whole, bound, imports>>

\* The name imported, the prefix it is at, whether the body of that prefix is
\* running, and the bundle when the import is Guest::load's.
Import == [name : Names, at : Nat \ {0}, runs : BOOLEAN, load : Bundles \union {None}]

TypeOK ==
    /\ sources \in [Names -> Bundles \union {None}]
    /\ extensions \subseteq Names
    /\ loaded \in [Names -> Bundles \union {None}]
    /\ realised \in [Names -> Origins \union {None}]
    /\ whole \subseteq Names
    /\ bound \subseteq Names
    /\ imports \in Seq(Import)

Init ==
    /\ sources = Mounted
    /\ extensions = UNION {ExtensionsOf[b] : b \in {Mounted[n] : n \in Names} \ {None}}
    /\ loaded = [n \in Names |-> None]
    /\ realised = [n \in Names |-> None]
    /\ whole = {}
    /\ bound = {}
    /\ imports = <<>>

-----------------------------------------------------------------------------

Top == imports[Len(imports)]

Finished == Top.at > Len(PrefixesOf[Top.name])

\* The prefix the innermost import is at.
At(import) == PrefixesOf[import.name][import.at]

Running == {At(imports[i]) : i \in {j \in DOMAIN imports : imports[j].runs}}

\* The host may call, or the innermost module body may import or call it.
CodeRuns == imports # <<>> => Top.runs

Begin(n, b) ==
    imports' = Append(imports, [name |-> n, at |-> 1, runs |-> FALSE, load |-> b])

IsBound(n) ==
    \/ n \in Specs \union Natives \union extensions
    \/ sources[n] # None
    \/ realised[n] # None

-----------------------------------------------------------------------------
(* What starts an import.                                                  *)

\* Guest::import, or an import statement.
ImportName(n) ==
    /\ CodeRuns
    /\ Len(imports) < MaxDepth
    /\ IsBound(PrefixesOf[n][1])
    /\ Begin(n, None)
    /\ UNCHANGED <<sources, extensions, loaded, realised, whole, bound>>

\* Slip: only host modules keep their root.
OccupiedByHost(b) == RootOf[b] \in Specs

\* A host module or another bundle that was loaded there keeps the root: the
\* bundle is refused, and nothing changes.
Occupied(b) ==
    \/ RootOf[b] \in Specs
    \/ loaded[RootOf[b]] \notin {None, b}

\* Guest::load mounts a bundle unless it is mounted already, and imports its
\* root; a host module or another bundle that was loaded there keeps the root.
Load(b) ==
    /\ CodeRuns
    /\ Len(imports) < MaxDepth
    /\ ~Occupied(b)
    /\ IF loaded[RootOf[b]] = b
       THEN UNCHANGED <<sources, extensions, loaded>>
       ELSE /\ sources' = [n \in Names |-> IF n \in NamesOf[b] THEN b ELSE sources[n]]
            /\ extensions' = extensions \union ExtensionsOf[b]
            /\ loaded' = [loaded EXCEPT ![RootOf[b]] = b]
    /\ Begin(RootOf[b], b)
    /\ UNCHANGED <<realised, whole, bound>>

-----------------------------------------------------------------------------
(* Realiser: one prefix after the other.                                   *)

Realises(n) == imports # <<>> /\ ~Top.runs /\ ~Finished /\ n = At(Top)

\* The import is given up.  Its error goes to the body that imports, which may
\* catch it.
GiveUp == imports' = Front(imports)

\* What was realised is bound in its parent, and the import moves on.  The
\* error for a parent that is not cached is unreachable (ParentsCached).
Bind(n) ==
    /\ bound' = IF IsRoot(n) THEN bound ELSE bound \union {n}
    /\ imports' = [imports EXCEPT ![Len(imports)] =
                     [Top EXCEPT !.at = @ + 1, !.runs = FALSE]]

\* Slip: only what was just realised is bound.
UseCachedUnbound(n) ==
    /\ Realises(n)
    /\ realised[n] # None
    /\ imports' = [imports EXCEPT ![Len(imports)].at = @ + 1]
    /\ UNCHANGED <<sources, extensions, loaded, realised, whole, bound>>

UseCached(n) ==
    /\ Realises(n)
    /\ realised[n] # None
    /\ Bind(n)
    /\ UNCHANGED <<sources, extensions, loaded, realised, whole>>

\* A module with a body: a host module's members, or a bundle's source.
Defined(n) ==
    IF n \in Specs THEN "host"
    ELSE IF n \in Natives THEN None
    ELSE sources[n]

RunBody(n) ==
    /\ Realises(n)
    /\ realised[n] = None
    /\ Defined(n) # None
    /\ realised' = [realised EXCEPT ![n] = Defined(n)]
    /\ imports' = [imports EXCEPT ![Len(imports)].runs = TRUE]
    /\ UNCHANGED <<sources, extensions, loaded, whole, bound>>

BodyEnds ==
    /\ imports # <<>> /\ Top.runs
    /\ whole' = whole \union {At(Top)}
    /\ Bind(At(Top))
    /\ UNCHANGED <<sources, extensions, loaded, realised>>

\* Slip: the module stays cached.
BodyFailsCached ==
    /\ imports # <<>> /\ Top.runs
    /\ GiveUp
    /\ UNCHANGED <<sources, extensions, loaded, realised, whole, bound>>

\* Slip: its parents are removed as well.
BodyFailsWithParents ==
    /\ imports # <<>> /\ Top.runs
    /\ realised' = [n \in Names |->
                      IF n \in ToSet(PrefixesOf[At(Top)]) THEN None ELSE realised[n]]
    /\ bound' = {n \in bound : IsRoot(n) \/ Parent(n) # At(Top)} \ {At(Top)}
    /\ GiveUp
    /\ UNCHANGED <<sources, extensions, loaded, whole>>

\* The module is removed again, and with it what was bound in it; the modules
\* its body imported stay cached.
BodyFails ==
    /\ imports # <<>> /\ Top.runs
    /\ realised' = [realised EXCEPT ![At(Top)] = None]
    /\ bound' = {n \in bound : IsRoot(n) \/ Parent(n) # At(Top)} \ {At(Top)}
    /\ GiveUp
    /\ UNCHANGED <<sources, extensions, loaded, whole>>

\* Native code declares the whole module; an extension needs its parents.
Declared(n) ==
    IF n \in Natives \ Specs THEN "native"
    ELSE IF /\ Defined(n) = None
            /\ n \in extensions
            /\ \A m \in ToSet(Front(PrefixesOf[n])) : realised[m] # None
         THEN "extension"
    ELSE None

Declare(n) ==
    /\ Realises(n)
    /\ realised[n] = None
    /\ Declared(n) # None
    /\ realised' = [realised EXCEPT ![n] = Declared(n)]
    /\ whole' = whole \union {n}
    /\ Bind(n)
    /\ UNCHANGED <<sources, extensions, loaded>>

\* Native code fails, or there is no module of that name.
NotRealised(n) ==
    /\ Realises(n)
    /\ realised[n] = None
    /\ Defined(n) = None
    /\ GiveUp
    /\ UNCHANGED <<sources, extensions, loaded, realised, whole, bound>>

\* The import returns the module; it is handed on or read by attribute.
Deliver ==
    /\ imports # <<>> /\ ~Top.runs /\ Finished
    /\ imports' = Front(imports)
    /\ UNCHANGED <<sources, extensions, loaded, realised, whole, bound>>

Next ==
    \/ \E n \in Names : ImportName(n)
    \/ \E b \in Bundles : Load(b)
    \/ \E n \in Names : UseCached(n) \/ RunBody(n) \/ Declare(n) \/ NotRealised(n)
    \/ BodyEnds \/ BodyFails \/ Deliver

Spec == Init /\ [][Next]_vars

-----------------------------------------------------------------------------
(* Properties.                                                             *)

\* A cached module is complete, or its body is running: a body that failed
\* leaves nothing half-made for the next import to find, however imports nest.
CachedIsWhole ==
    \A n \in Names : realised[n] # None => n \in whole \union Running

\* A module's body does not run twice at a time: a circular import gets the
\* module that is being made.
RunsOnce ==
    \A i, j \in DOMAIN imports :
        (imports[i].runs /\ imports[j].runs /\ At(imports[i]) = At(imports[j])) => i = j

\* No import loses a parent while it realises the child: neither "its parent is
\* not realised" nor "its head module is not realised" can be reported.
ParentsCached ==
    \A i \in DOMAIN imports : \A k \in 1..(imports[i].at - 1) :
        realised[PrefixesOf[imports[i].name][k]] # None

\* What an import returns can be reached from its head by attributes, as an
\* import statement for a dotted name needs.
Reachable ==
    (imports # <<>> /\ Finished) =>
        \A n \in ToSet(PrefixesOf[Top.name]) : ~IsRoot(n) => n \in bound

\* A module that is complete is never realised again or removed, so that all
\* code of the guest shares it.
WholeStep ==
    \A n \in whole : n \in whole' /\ realised'[n] = realised[n]

WholeIsKept == [][WholeStep]_vars

\* Guest::load returns the root of the bundle it was given.
LoadGivesBundle ==
    (imports # <<>> /\ Finished /\ Top.load # None) =>
        realised[RootOf[Top.load]] = Top.load
=============================================================================
