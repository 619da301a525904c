---------------------------- MODULE NativeProofs ----------------------------
(***************************************************************************)
(* Theorems about NativeExtensions, for every set of threads, guests and   *)
(* extensions and any depth of nesting, as long as the code of an          *)
(* extension that is being created does not import that extension.         *)
(*                                                                         *)
(* Only one thread has loads, so that what is said of a frame has to be    *)
(* kept by pushing, replacing and popping the frames of that thread.  The  *)
(* names of its frames differ: one that is executed is in sys.modules, one *)
(* that is created is not started again, and only the innermost is still   *)
(* at its parents.  And what a load put into sys.modules was not there, so *)
(* the loads around it do not need it.                                     *)
(***************************************************************************)
EXTENDS NativeExtensions, SequenceTheorems, TLAPS

\* One thread has the lock.
Exclusive == \A t, u \in Threads : loads[t] # <<>> /\ loads[u] # <<>> => t = u

\* An extension is recorded when its load ends.
Unloaded == \A t \in Threads : \A i \in DOMAIN loads[t] : loaded[loads[t][i].name] = None

\* Nothing is called while parents are put in.
Suspended ==
    \A t \in Threads : \A i \in DOMAIN loads[t] :
        i # Len(loads[t]) => loads[t][i].at # "register"

Fresh ==
    \A t \in Threads : \A i \in DOMAIN loads[t] :
        loads[t][i].at = "register" => loads[t][i].inserted = {}

\* The name of an extension that is executed is taken.
Present ==
    \A t \in Threads : \A i \in DOMAIN loads[t] :
        loads[t][i].at = "execute" => sysModules[loads[t][i].name] # None

\* The module of one that is not executed yet is nowhere.
Absent ==
    \A t \in Threads : \A i \in DOMAIN loads[t] :
        loads[t][i].at # "execute" => sysModules[loads[t][i].name] # Created(loads[t][i].name, i)

Distinct ==
    \A t \in Threads : \A i, j \in DOMAIN loads[t] :
        i # j => loads[t][i].name # loads[t][j].name

\* What a load put in, the loads around it do without.
Apart ==
    \A t \in Threads : \A i, j \in DOMAIN loads[t] :
        i < j => loads[t][j].inserted \cap PackagesOf[loads[t][i].name] = {}

\* What a load found is used by something else.
Matched ==
    \A t \in Threads : \A i \in DOMAIN loads[t] :
        loads[t][i].at # "register" =>
            \A p \in PackagesOf[loads[t][i].name] \ loads[t][i].inserted :
                \/ \E d \in Extensions : p \in PackagesOf[d] /\ loaded[d] # None
                \/ \E j \in 1..(i - 1) : p \in PackagesOf[loads[t][j].name]

IInv ==
    /\ TypeOK
    /\ Exclusive
    /\ Unloaded /\ Suspended /\ Fresh /\ Present /\ Absent /\ Distinct /\ Apart /\ Matched
    /\ OwnBinary /\ NothingHalfMade /\ RunningHasParents /\ ParentsAreUsed

-----------------------------------------------------------------------------
(* The frames of one thread.                                               *)

LEMMA TopFacts ==
    ASSUME TypeOK, NEW t \in Threads, loads[t] # <<>>
    PROVE  /\ loads[t] \in Seq(Loads)
           /\ Len(loads[t]) \in Nat \ {0}
           /\ DOMAIN loads[t] = 1..Len(loads[t])
           /\ Len(loads[t]) <= MaxDepth
           /\ Top(t) \in Loads
           /\ Below(t) \in Seq(Loads)
           /\ Len(Below(t)) = Len(loads[t]) - 1
           /\ \A i \in 1..(Len(loads[t]) - 1) : Below(t)[i] = loads[t][i]
<1>1. loads[t] \in Seq(Loads) /\ Len(loads[t]) <= MaxDepth
  BY DEF TypeOK
<1>2. Len(loads[t]) \in Nat \ {0}
  BY <1>1, EmptySeq, LenProperties
<1>3. DOMAIN loads[t] = 1..Len(loads[t])
  BY <1>1, LenProperties
<1>4. Top(t) \in Loads
  BY <1>1, <1>2, ElementOfSeq DEF Top
<1>5. /\ Below(t) \in Seq(Loads)
      /\ Len(Below(t)) = Len(loads[t]) - 1
      /\ \A i \in 1..(Len(loads[t]) - 1) : Below(t)[i] = loads[t][i]
  BY <1>1, <1>2, SubSeqProperties, Z3 DEF Below
<1> QED BY <1>1, <1>2, <1>3, <1>4, <1>5

\* A load is over.
LEMMA PopFacts ==
    ASSUME TypeOK, NEW t \in Threads, loads[t] # <<>>,
           loads' = [loads EXCEPT ![t] = Below(t)]
    PROVE  /\ loads' \in [Threads -> Seq(Loads)]
           /\ \A u \in Threads : Len(loads'[u]) <= MaxDepth
           /\ \A u \in Threads \ {t} : loads'[u] = loads[u]
           /\ Len(loads'[t]) = Len(loads[t]) - 1
           /\ DOMAIN loads'[t] = 1..(Len(loads[t]) - 1)
           /\ \A i \in 1..(Len(loads[t]) - 1) : loads'[t][i] = loads[t][i]
<1>1. loads \in [Threads -> Seq(Loads)] /\ \A u \in Threads : Len(loads[u]) <= MaxDepth
  BY DEF TypeOK
<1>2. loads'[t] = Below(t) /\ \A u \in Threads \ {t} : loads'[u] = loads[u]
  BY <1>1
<1>3. loads' \in [Threads -> Seq(Loads)]
  BY <1>1, TopFacts
<1>4. DOMAIN Below(t) = 1..Len(Below(t))
  BY TopFacts, LenProperties
<1>5. \A u \in Threads : Len(loads'[u]) <= MaxDepth
  <2>1. MaxDepth \in Nat
    BY NativeAssumption
  <2> QED BY <1>1, <1>2, <2>1, TopFacts
<1> QED BY <1>2, <1>3, <1>4, <1>5, TopFacts

\* A load goes on.
LEMMA GoFacts ==
    ASSUME TypeOK, NEW t \in Threads, loads[t] # <<>>, NEW f \in Loads,
           loads' = [loads EXCEPT ![t] = Append(Below(t), f)]
    PROVE  /\ loads' \in [Threads -> Seq(Loads)]
           /\ \A u \in Threads : Len(loads'[u]) <= MaxDepth
           /\ \A u \in Threads \ {t} : loads'[u] = loads[u]
           /\ Len(loads'[t]) = Len(loads[t])
           /\ DOMAIN loads'[t] = 1..Len(loads[t])
           /\ \A i \in 1..(Len(loads[t]) - 1) : loads'[t][i] = loads[t][i]
           /\ loads'[t][Len(loads[t])] = f
<1>1. loads \in [Threads -> Seq(Loads)] /\ \A u \in Threads : Len(loads[u]) <= MaxDepth
  BY DEF TypeOK
<1>2. loads'[t] = Append(Below(t), f) /\ \A u \in Threads \ {t} : loads'[u] = loads[u]
  BY <1>1
<1>3. /\ Append(Below(t), f) \in Seq(Loads)
      /\ Len(Append(Below(t), f)) = Len(Below(t)) + 1
      /\ \A i \in 1..Len(Below(t)) : Append(Below(t), f)[i] = Below(t)[i]
      /\ Append(Below(t), f)[Len(Below(t)) + 1] = f
  BY TopFacts, AppendProperties
<1>4. loads' \in [Threads -> Seq(Loads)]
  BY <1>1, <1>3
<1>5. DOMAIN loads'[t] = 1..Len(loads'[t])
  BY <1>2, <1>3, LenProperties
<1>6. Len(loads'[t]) = Len(loads[t])
  BY <1>2, <1>3, TopFacts
<1>7. \A u \in Threads : Len(loads'[u]) <= MaxDepth
  BY <1>1, <1>2, <1>6
<1>8. \A i \in 1..(Len(loads[t]) - 1) : loads'[t][i] = loads[t][i]
  BY <1>2, <1>3, TopFacts
<1>9. loads'[t][Len(loads[t])] = f
  BY <1>2, <1>3, TopFacts
<1> QED BY <1>2, <1>4, <1>5, <1>6, <1>7, <1>8, <1>9

\* A load starts.
LEMMA PushFacts ==
    ASSUME TypeOK, NEW t \in Threads, Len(loads[t]) < MaxDepth, NEW f \in Loads,
           loads' = [loads EXCEPT ![t] = Append(@, f)]
    PROVE  /\ loads' \in [Threads -> Seq(Loads)]
           /\ \A u \in Threads : Len(loads'[u]) <= MaxDepth
           /\ \A u \in Threads \ {t} : loads'[u] = loads[u]
           /\ Len(loads[t]) \in Nat
           /\ DOMAIN loads[t] = 1..Len(loads[t])
           /\ Len(loads'[t]) = Len(loads[t]) + 1
           /\ DOMAIN loads'[t] = 1..(Len(loads[t]) + 1)
           /\ \A i \in 1..Len(loads[t]) : loads'[t][i] = loads[t][i]
           /\ loads'[t][Len(loads[t]) + 1] = f
<1>1. loads \in [Threads -> Seq(Loads)] /\ \A u \in Threads : Len(loads[u]) <= MaxDepth
  BY DEF TypeOK
<1>2. loads'[t] = Append(loads[t], f) /\ \A u \in Threads \ {t} : loads'[u] = loads[u]
  BY <1>1
<1>3. loads[t] \in Seq(Loads) /\ Len(loads[t]) \in Nat /\ DOMAIN loads[t] = 1..Len(loads[t])
  BY <1>1, LenProperties
<1>4. /\ Append(loads[t], f) \in Seq(Loads)
      /\ Len(Append(loads[t], f)) = Len(loads[t]) + 1
      /\ \A i \in 1..Len(loads[t]) : Append(loads[t], f)[i] = loads[t][i]
      /\ Append(loads[t], f)[Len(loads[t]) + 1] = f
  BY <1>3, AppendProperties
<1>5. loads' \in [Threads -> Seq(Loads)]
  BY <1>1, <1>4
<1>6. DOMAIN loads'[t] = 1..Len(loads'[t])
  BY <1>2, <1>4, LenProperties
<1>7. \A u \in Threads : Len(loads'[u]) <= MaxDepth
  <2>1. MaxDepth \in Nat
    BY NativeAssumption
  <2> QED BY <1>1, <1>2, <1>3, <1>4, <2>1
<1> QED BY <1>2, <1>3, <1>4, <1>5, <1>6, <1>7

\* While one thread has a load, the others have none.
LEMMA Alone ==
    ASSUME Exclusive, NEW t \in Threads, loads[t] # <<>>
    PROVE  \A u \in Threads \ {t} : loads[u] = <<>>
BY DEF Exclusive

LEMMA NoFrames ==
    ASSUME NEW s, s = <<>>
    PROVE  DOMAIN s = {}
OBVIOUS

\* What is in sys.modules can be told apart.
LEMMA ObjectFacts ==
    /\ \A g \in Guests : Parent(g) \in Modules /\ Parent(g) # None /\ Parent(g) # Foreign
    /\ \A d \in Extensions, n \in 1..MaxDepth :
           /\ Created(d, n) \in Modules /\ Created(d, n) # None /\ Created(d, n) # Foreign
    /\ Foreign \in Modules /\ Foreign # None
    /\ \A g, h : Parent(g) = Parent(h) => g = h
    /\ \A d, e, m, n : Created(d, m) = Created(e, n) => d = e /\ m = n
    /\ \A g, d, n : Parent(g) # Created(d, n)
    /\ \A r \in Records : r # None /\ r.module \in Modules
<1>1. \A g \in Guests : Parent(g) \in Objects
  BY DEF Objects
<1>2. \A d \in Extensions, n \in 1..MaxDepth : Created(d, n) \in Objects
  BY DEF Objects
<1>3. Foreign \in Modules /\ Objects \subseteq Modules
  BY DEF Modules
<1>4. Foreign \notin Objects /\ None \notin Modules \cup Records
  BY NativeAssumption
<1>5. \A g, h : Parent(g) = Parent(h) => g = h
  BY DEF Parent
<1>6. \A d, e, m, n : Created(d, m) = Created(e, n) => d = e /\ m = n
  BY DEF Created
<1>7. \A g, d, n : Parent(g) # Created(d, n)
  BY DEF Parent, Created
<1>8. \A r \in Records : r.module \in Modules
  BY <1>2, <1>3 DEF Records, Record
<1> QED BY <1>1, <1>2, <1>3, <1>4, <1>5, <1>6, <1>7, <1>8

\* The names and the places of frames.
LEMMA FrameFacts ==
    ASSUME TypeOK, NEW t \in Threads, NEW i \in DOMAIN loads[t]
    PROVE  /\ i \in 1..MaxDepth
           /\ loads[t][i] \in Loads
           /\ loads[t][i].name \in Extensions
           /\ loads[t][i].guest \in Guests
           /\ loads[t][i].inserted \subseteq Packages
           /\ loads[t][i].name \notin Packages
           /\ PackagesOf[loads[t][i].name] \subseteq Packages
           /\ loads[t] # <<>>
<1>1. loads[t] \in Seq(Loads) /\ Len(loads[t]) <= MaxDepth
  BY DEF TypeOK
<1>2. Len(loads[t]) \in Nat /\ DOMAIN loads[t] = 1..Len(loads[t])
  BY <1>1, LenProperties
<1>3. MaxDepth \in Nat
  BY NativeAssumption
<1>4. i \in 1..MaxDepth
  BY <1>1, <1>2, <1>3
<1>5. loads[t][i] \in Loads
  BY <1>1, <1>2, ElementOfSeq
<1>6. /\ loads[t][i].name \in Extensions
      /\ loads[t][i].guest \in Guests
      /\ loads[t][i].inserted \subseteq Packages
  BY <1>5 DEF Loads
<1>7. PackagesOf[loads[t][i].name] \subseteq Packages /\ loads[t][i].name \notin Packages
  BY <1>6, NativeAssumption
<1>8. loads[t] # <<>>
  BY NoFrames
<1> QED BY <1>4, <1>5, <1>6, <1>7, <1>8

-----------------------------------------------------------------------------
(* Steps that keep the frames as they are.                                 *)

LEMMA InitFits == Init => IInv
<1> SUFFICES ASSUME Init PROVE IInv
  OBVIOUS
<1>1. \A t \in Threads : loads[t] = <<>> /\ DOMAIN loads[t] = {}
  BY NoFrames DEF Init
<1>2. TypeOK
  <2>1. loads \in [Threads -> Seq(Loads)] /\ \A t \in Threads : Len(loads[t]) <= MaxDepth
    BY NativeAssumption, EmptySeq DEF Init
  <2> QED BY <2>1 DEF Init, TypeOK
<1>3. Exclusive /\ Unloaded /\ Suspended /\ Fresh /\ Present /\ Absent
  BY <1>1 DEF Exclusive, Unloaded, Suspended, Fresh, Present, Absent
<1>4. Distinct /\ Apart /\ Matched /\ RunningHasParents
  BY <1>1 DEF Distinct, Apart, Matched, RunningHasParents
<1>5. OwnBinary
  BY DEF Init, OwnBinary
<1>6. NothingHalfMade
  BY ObjectFacts DEF Init, NothingHalfMade, Names
<1>7. ParentsAreUsed
  BY ObjectFacts DEF Init, ParentsAreUsed, Names
<1> QED BY <1>2, <1>3, <1>4, <1>5, <1>6, <1>7 DEF IInv

\* An object that is not of guestpy's takes a free name, or that of an extension.
LEMMA ForeignKeeps ==
    ASSUME IInv, NEW n \in Names, sysModules[n] = None \/ n \in Extensions,
           sysModules' = [sysModules EXCEPT ![n] = Foreign],
           UNCHANGED <<materialised, built, loaded, held, loads>>
    PROVE  IInv'
<1>1. TypeOK
  BY DEF IInv
<1>2. /\ sysModules'[n] = Foreign
      /\ \A m \in Names \ {n} : sysModules'[m] = sysModules[m]
      /\ sysModules' \in [Names -> Modules \cup {None}]
  BY <1>1, ObjectFacts DEF TypeOK
<1>3. Extensions \subseteq Names /\ Packages \subseteq Names /\ Extensions \cap Packages = {}
  BY NativeAssumption DEF Names
<1>4. TypeOK'
  BY <1>1, <1>2 DEF TypeOK
<1>5. Exclusive' /\ Unloaded' /\ Suspended' /\ Fresh' /\ Distinct' /\ Apart' /\ OwnBinary'
  BY DEF IInv, Exclusive, Unloaded, Suspended, Fresh, Distinct, Apart, OwnBinary
<1>6. Matched'
  BY DEF IInv, Matched
<1>7. Present'
  BY <1>1, <1>2, <1>3, FrameFacts, ObjectFacts DEF IInv, Present
<1>8. Absent'
  BY <1>1, <1>2, <1>3, FrameFacts, ObjectFacts DEF IInv, Absent
<1>9. NothingHalfMade'
  BY <1>2, <1>3, ObjectFacts DEF IInv, NothingHalfMade
<1>10. RunningHasParents'
  <2> SUFFICES ASSUME NEW t \in Threads, NEW i \in DOMAIN loads[t],
                      loads[t][i].at # "register", NEW p \in PackagesOf[loads[t][i].name]
               PROVE  sysModules'[p] = Parent(loads[t][i].guest)
    BY DEF RunningHasParents
  <2>1. sysModules[p] = Parent(loads[t][i].guest) /\ p \in Packages
    BY <1>1, FrameFacts DEF IInv, RunningHasParents
  <2>2. p # n
    BY <1>1, <1>3, <2>1, FrameFacts, ObjectFacts
  <2> QED BY <1>2, <1>3, <2>1, <2>2
<1>11. ParentsAreUsed'
  BY <1>2, <1>3, ObjectFacts DEF IInv, ParentsAreUsed
<1> QED BY <1>4, <1>5, <1>6, <1>7, <1>8, <1>9, <1>10, <1>11 DEF IInv

LEMMA PrepareKeeps ==
    ASSUME IInv, NEW g \in Guests, Prepare(g)
    PROVE  IInv'
<1>1. TypeOK'
  BY DEF IInv, TypeOK, Prepare, Bundles
<1>2. Exclusive' /\ Unloaded' /\ Suspended' /\ Fresh' /\ Present' /\ Absent'
  BY DEF IInv, Prepare, Exclusive, Unloaded, Suspended, Fresh, Present, Absent
<1>3. Distinct' /\ Apart' /\ Matched'
  BY DEF IInv, Prepare, Distinct, Apart, Matched
<1>4. OwnBinary' /\ NothingHalfMade' /\ RunningHasParents' /\ ParentsAreUsed'
  BY DEF IInv, Prepare, OwnBinary, NothingHalfMade, RunningHasParents, ParentsAreUsed
<1> QED BY <1>1, <1>2, <1>3, <1>4 DEF IInv

LEMMA ReuseKeeps ==
    ASSUME IInv, NEW t \in Threads, NEW g \in Guests, NEW d \in Extensions, Reuse(t, g, d)
    PROVE  IInv'
<1>1. TypeOK /\ loaded[d] \in Records
  BY DEF IInv, TypeOK, Reuse
<1>2. TypeOK'
  BY <1>1, ObjectFacts DEF TypeOK, Reuse
<1>3. Exclusive' /\ Unloaded' /\ Suspended' /\ Fresh' /\ Present' /\ Absent'
  BY DEF IInv, Reuse, Exclusive, Unloaded, Suspended, Fresh, Present, Absent
<1>4. Distinct' /\ Apart' /\ Matched'
  BY DEF IInv, Reuse, Distinct, Apart, Matched
<1>5. NothingHalfMade' /\ RunningHasParents' /\ ParentsAreUsed'
  BY DEF IInv, Reuse, NothingHalfMade, RunningHasParents, ParentsAreUsed
<1>6. OwnBinary'
  BY <1>1 DEF IInv, TypeOK, OwnBinary, Reuse, Same
<1> QED BY <1>2, <1>3, <1>4, <1>5, <1>6 DEF IInv

-----------------------------------------------------------------------------
(* Steps of loads.                                                         *)

LEMMA StartKeeps ==
    ASSUME IInv, ~Reimports, NEW t \in Threads, NEW g \in Guests, NEW d \in Extensions,
           Start(t, g, d)
    PROVE  IInv'
<1> DEFINE f == [guest |-> g, name |-> d, at |-> "register", inserted |-> {}]
           m == Len(loads[t])
<1>1. /\ TypeOK
      /\ UNCHANGED <<materialised, built, sysModules, loaded, held>>
      /\ Acquired(t) /\ MayCall(t) /\ d \notin BeingCreated(t)
      /\ loaded[d] = None /\ sysModules[d] = None
      /\ loads' = [loads EXCEPT ![t] = Append(@, f)]
  BY DEF IInv, Start
<1>2. f \in Loads
  BY DEF Loads
<1>3. f.guest = g /\ f.name = d /\ f.at = "register" /\ f.inserted = {}
  OBVIOUS
<1> HIDE DEF f
<1>4. /\ loads' \in [Threads -> Seq(Loads)]
      /\ \A u \in Threads : Len(loads'[u]) <= MaxDepth
      /\ \A u \in Threads \ {t} : loads'[u] = loads[u]
      /\ m \in Nat /\ DOMAIN loads[t] = 1..m
      /\ Len(loads'[t]) = m + 1 /\ DOMAIN loads'[t] = 1..(m + 1)
      /\ \A i \in 1..m : loads'[t][i] = loads[t][i]
      /\ loads'[t][m + 1] = f
  BY <1>1, <1>2, PushFacts DEF MayCall
<1>5. \A u \in Threads \ {t} : DOMAIN loads'[u] = {} /\ loads'[u] = <<>>
  BY <1>1, <1>4, NoFrames DEF Acquired
<1>6. m # 0 => loads[t][m].at # "register"
  BY <1>1, <1>4 DEF MayCall, Top
<1> HIDE DEF m
<1>7. \A i \in 1..m : loads[t][i].at # "register"
  <2>1. Suspended
    BY DEF IInv
  <2> QED BY <1>4, <1>6, <2>1 DEF Suspended, m
<1>8. \A i \in 1..m : loads[t][i].name # d
  <2> SUFFICES ASSUME NEW i \in 1..m PROVE loads[t][i].name # d
    OBVIOUS
  <2>1. CASE loads[t][i].at = "create"
    BY <1>1, <1>4, <2>1 DEF BeingCreated
  <2>2. CASE loads[t][i].at = "execute"
    BY <1>1, <1>4, <2>2 DEF IInv, Present
  <2>3. loads[t][i].at \in {"register", "create", "execute"}
    BY <1>1, <1>4, FrameFacts DEF Loads
  <2> QED BY <1>7, <2>1, <2>2, <2>3
<1>9. TypeOK'
  BY <1>1, <1>4 DEF TypeOK
<1>10. Exclusive'
  BY <1>5 DEF Exclusive
<1>11. Unloaded'
  BY <1>1, <1>3, <1>4, <1>5 DEF IInv, Unloaded
<1>12. Suspended'
  BY <1>4, <1>5, <1>7 DEF Suspended
<1>13. Fresh'
  BY <1>3, <1>4, <1>5, <1>7 DEF Fresh
<1>14. Present'
  BY <1>1, <1>3, <1>4, <1>5 DEF IInv, Present
<1>15. Absent'
  <2>1. sysModules[d] # Created(d, m + 1)
    <3>1. m + 1 \in 1..MaxDepth
      BY <1>4, NativeAssumption
    <3> QED BY <1>1, <3>1, ObjectFacts
  <2> QED BY <1>1, <1>3, <1>4, <1>5, <2>1 DEF IInv, Absent
<1>16. Distinct'
  BY <1>3, <1>4, <1>5, <1>8 DEF IInv, Distinct
<1>17. Apart'
  BY <1>3, <1>4, <1>5 DEF IInv, Apart
<1>18. Matched'
  BY <1>1, <1>3, <1>4, <1>5 DEF IInv, Matched
<1>19. OwnBinary'
  BY <1>1 DEF IInv, OwnBinary
<1>20. NothingHalfMade'
  <2> SUFFICES ASSUME NEW e \in Extensions, NEW n \in 1..MaxDepth,
                      sysModules[e] = Created(e, n),
                      ~(loaded[e] # None /\ loaded[e].module = Created(e, n))
               PROVE  \E u \in Threads : n \in DOMAIN loads'[u] /\ loads'[u][n].name = e
    BY <1>1 DEF NothingHalfMade
  <2>1. PICK u \in Threads : n \in DOMAIN loads[u] /\ loads[u][n].name = e
    BY DEF IInv, NothingHalfMade
  <2> QED BY <1>4, <2>1
<1>21. RunningHasParents'
  BY <1>1, <1>3, <1>4, <1>5 DEF IInv, RunningHasParents
<1>22. ParentsAreUsed'
  <2> SUFFICES ASSUME NEW p \in Packages, NEW h \in Guests, sysModules[p] = Parent(h),
                      ~ \E e \in Extensions : p \in PackagesOf[e] /\ loaded[e] # None
               PROVE  \E u \in Threads : \E i \in DOMAIN loads'[u] :
                          loads'[u][i].at # "register" /\ p \in PackagesOf[loads'[u][i].name]
    BY <1>1 DEF ParentsAreUsed
  <2>1. PICK u \in Threads : \E i \in DOMAIN loads[u] :
            loads[u][i].at # "register" /\ p \in PackagesOf[loads[u][i].name]
    BY DEF IInv, ParentsAreUsed
  <2> QED BY <1>4, <2>1
<1> QED BY <1>9, <1>10, <1>11, <1>12, <1>13, <1>14, <1>15, <1>16, <1>17, <1>18, <1>19,
           <1>20, <1>21, <1>22 DEF IInv

LEMMA RegisterParentsKeeps ==
    ASSUME IInv, NEW t \in Threads, RegisterParents(t)
    PROVE  IInv'
<1> DEFINE m == Len(loads[t])
           d == Top(t).name
           f == [Top(t) EXCEPT !.at = "create", !.inserted = Missing(t)]
<1>1. /\ TypeOK
      /\ UNCHANGED <<materialised, built, loaded, held>>
      /\ loads[t] # <<>> /\ Top(t).at = "register"
      /\ PackagesOf[d] = Missing(t) \cup Matching(t)
      /\ sysModules' = [n \in Names |->
             IF n \in Missing(t) THEN Parent(Top(t).guest) ELSE sysModules[n]]
      /\ loads' = [loads EXCEPT ![t] = Append(Below(t), f)]
  BY DEF IInv, RegisterParents, At
<1>2. /\ m \in Nat \ {0} /\ DOMAIN loads[t] = 1..m
      /\ Top(t) \in Loads /\ Top(t) = loads[t][m] /\ m \in DOMAIN loads[t]
  BY <1>1, TopFacts DEF Top
<1>3. d \in Extensions /\ Top(t).guest \in Guests /\ PackagesOf[d] \subseteq Packages
  BY <1>1, <1>2, FrameFacts
<1>4. Missing(t) \subseteq PackagesOf[d] /\ \A p \in Missing(t) : sysModules[p] = None
  BY DEF Missing
<1>5. f \in Loads /\ f.guest = Top(t).guest /\ f.name = d /\ f.at = "create"
      /\ f.inserted = Missing(t)
  BY <1>2, <1>3, <1>4 DEF Loads
<1> HIDE DEF f, d, m
<1>6. /\ loads' \in [Threads -> Seq(Loads)]
      /\ \A u \in Threads : Len(loads'[u]) <= MaxDepth
      /\ \A u \in Threads \ {t} : loads'[u] = loads[u]
      /\ Len(loads'[t]) = m /\ DOMAIN loads'[t] = 1..m
      /\ \A i \in 1..(m - 1) : loads'[t][i] = loads[t][i]
      /\ loads'[t][m] = f
  BY <1>1, <1>5, GoFacts DEF m
<1>7. \A u \in Threads \ {t} : DOMAIN loads'[u] = {} /\ loads'[u] = <<>> /\ loads[u] = <<>>
  BY <1>1, <1>6, NoFrames, Alone DEF IInv
<1>7a. \A i \in 1..m : i \in DOMAIN loads[t] /\ loads'[t][i].name = loads[t][i].name
  BY <1>2, <1>5, <1>6 DEF d
<1>8. /\ \A n \in Names \ Missing(t) : sysModules'[n] = sysModules[n]
      /\ \A p \in Missing(t) : sysModules'[p] = Parent(Top(t).guest)
      /\ Extensions \subseteq Names /\ Packages \subseteq Names
      /\ \A e \in Extensions : sysModules'[e] = sysModules[e]
  BY <1>1, <1>3, <1>4, NativeAssumption DEF Names
<1>9. TypeOK'
  <2>1. sysModules' \in [Names -> Modules \cup {None}]
    BY <1>1, <1>3, ObjectFacts DEF TypeOK
  <2> QED BY <1>1, <1>6, <2>1 DEF TypeOK
<1>10. Exclusive'
  BY <1>7 DEF Exclusive
<1>11. Unloaded'
  BY <1>1, <1>6, <1>7, <1>7a DEF IInv, Unloaded
<1>12. Suspended'
  BY <1>2, <1>6, <1>7 DEF IInv, Suspended, m
<1>13. Fresh'
  BY <1>2, <1>5, <1>6, <1>7 DEF IInv, Fresh
<1>14. Present'
  <2> SUFFICES ASSUME NEW i \in 1..m, loads'[t][i].at = "execute"
               PROVE  sysModules'[loads'[t][i].name] # None
    BY <1>6, <1>7 DEF Present
  <2>1. i \in DOMAIN loads[t] /\ loads'[t][i] = loads[t][i]
    BY <1>2, <1>5, <1>6
  <2>2. sysModules[loads[t][i].name] # None /\ loads[t][i].name \in Extensions
    BY <1>1, <2>1, FrameFacts DEF IInv, Present
  <2> QED BY <1>8, <2>1, <2>2
<1>15. Absent'
  <2> SUFFICES ASSUME NEW i \in 1..m, loads'[t][i].at # "execute"
               PROVE  sysModules'[loads'[t][i].name] # Created(loads'[t][i].name, i)
    BY <1>6, <1>7 DEF Absent
  <2>1. loads[t][i].at # "execute"
    <3>1. CASE i = m
      BY <1>1, <1>2, <3>1
    <3>2. CASE i # m
      BY <1>2, <1>6, <3>2
    <3> QED BY <3>1, <3>2
  <2>2. /\ loads[t][i].name \in Extensions
        /\ sysModules[loads[t][i].name] # Created(loads[t][i].name, i)
    <3>1. i \in DOMAIN loads[t]
      BY <1>7a
    <3> QED BY <1>1, <2>1, <3>1, FrameFacts DEF IInv, Absent
  <2> QED BY <1>7a, <1>8, <2>2
<1>17. Distinct'
  BY <1>2, <1>6, <1>7, <1>7a DEF IInv, Distinct
<1>18. RunningHasParents'
  <2> SUFFICES ASSUME NEW i \in 1..m, loads'[t][i].at # "register",
                      NEW p \in PackagesOf[loads'[t][i].name]
               PROVE  sysModules'[p] = Parent(loads'[t][i].guest)
    BY <1>6, <1>7 DEF RunningHasParents
  <2>1. CASE i = m
    <3>1. p \in PackagesOf[d]
      BY <1>5, <1>6, <2>1
    <3>2. CASE p \in Missing(t)
      BY <1>5, <1>6, <1>8, <2>1, <3>2
    <3>3. CASE p \in Matching(t) \ Missing(t)
      BY <1>3, <1>5, <1>6, <1>8, <2>1, <3>1, <3>3 DEF Matching
    <3> QED BY <1>1, <3>1, <3>2, <3>3
  <2>2. CASE i # m
    <3>1. i \in 1..(m - 1) /\ i \in DOMAIN loads[t] /\ loads'[t][i] = loads[t][i]
      BY <1>2, <1>6, <2>2
    <3>2. sysModules[p] = Parent(loads[t][i].guest)
      BY <3>1 DEF IInv, RunningHasParents
    <3>3. p \in Packages /\ loads[t][i].guest \in Guests
      BY <1>1, <3>1, FrameFacts
    <3>4. p \in Names /\ p \notin Missing(t)
      BY <1>4, <1>8, <3>2, <3>3, ObjectFacts
    <3> QED BY <1>8, <3>1, <3>2, <3>4
  <2> QED BY <2>1, <2>2
<1>19. Apart'
  <2> SUFFICES ASSUME NEW i \in 1..m, NEW j \in 1..m, i < j
               PROVE  loads'[t][j].inserted \cap PackagesOf[loads'[t][i].name] = {}
    BY <1>6, <1>7 DEF Apart
  <2>1. i \in 1..(m - 1) /\ i \in DOMAIN loads[t] /\ j \in DOMAIN loads[t]
        /\ loads'[t][i] = loads[t][i]
    BY <1>2, <1>6
  <2>2. CASE j = m
    <3>1. loads[t][i].at # "register"
      BY <1>2, <2>1, <2>2 DEF IInv, Suspended, m
    <3>2. \A p \in PackagesOf[loads[t][i].name] : sysModules[p] # None
      BY <1>1, <2>1, <3>1, FrameFacts, ObjectFacts DEF IInv, RunningHasParents
    <3> QED BY <1>4, <1>5, <1>6, <2>1, <2>2, <3>2
  <2>3. CASE j # m
    BY <1>2, <1>6, <2>1, <2>3 DEF IInv, Apart
  <2> QED BY <2>2, <2>3
<1>20. Matched'
  <2> SUFFICES ASSUME NEW u \in Threads, NEW i \in DOMAIN loads'[u], loads'[u][i].at # "register",
                      NEW p \in PackagesOf[loads'[u][i].name] \ loads'[u][i].inserted
               PROVE  \/ \E e \in Extensions : p \in PackagesOf[e] /\ loaded'[e] # None
                      \/ \E j \in 1..(i - 1) : p \in PackagesOf[loads'[u][j].name]
    BY DEF Matched
  <2>0. u = t /\ i \in 1..m
    BY <1>6, <1>7
  <2> SUFFICES ASSUME ~ \E e \in Extensions : p \in PackagesOf[e] /\ loaded[e] # None
               PROVE  \E j \in 1..(i - 1) : p \in PackagesOf[loads'[t][j].name]
    BY <1>1, <2>0
  <2>1. CASE i = m
    <3>1. p \in Packages /\ sysModules[p] = Parent(Top(t).guest)
      BY <1>1, <1>3, <1>5, <1>6, <2>0, <2>1 DEF Matching
    <3>2. PICK v \in Threads : \E j \in DOMAIN loads[v] :
              loads[v][j].at # "register" /\ p \in PackagesOf[loads[v][j].name]
      BY <1>3, <3>1 DEF IInv, ParentsAreUsed
    <3>3. v = t
      BY <1>7, <3>2, NoFrames
    <3>4. PICK j \in 1..m : loads[t][j].at # "register" /\ p \in PackagesOf[loads[t][j].name]
      BY <1>2, <3>2, <3>3
    <3>5. j \in 1..(m - 1)
      BY <1>1, <1>2, <3>4
    <3> QED BY <1>7a, <2>0, <2>1, <3>4, <3>5
  <2>2. CASE i # m
    <3>1. i \in 1..(m - 1) /\ i \in DOMAIN loads[t] /\ loads'[t][i] = loads[t][i]
      BY <1>2, <1>6, <2>0, <2>2
    <3>2. PICK j \in 1..(i - 1) : p \in PackagesOf[loads[t][j].name]
      BY <2>0, <3>1 DEF IInv, Matched
    <3> QED BY <1>2, <1>7a, <2>0, <3>1, <3>2
  <2> QED BY <2>1, <2>2
<1>21. OwnBinary'
  BY <1>1 DEF IInv, OwnBinary
<1>22. NothingHalfMade'
  <2> SUFFICES ASSUME NEW e \in Extensions, NEW n \in 1..MaxDepth,
                      sysModules'[e] = Created(e, n),
                      ~(loaded[e] # None /\ loaded[e].module = Created(e, n))
               PROVE  \E u \in Threads : n \in DOMAIN loads'[u] /\ loads'[u][n].name = e
    BY <1>1 DEF NothingHalfMade
  <2>1. PICK u \in Threads : n \in DOMAIN loads[u] /\ loads[u][n].name = e
    BY <1>8 DEF IInv, NothingHalfMade
  <2> QED BY <1>2, <1>6, <1>7a, <2>1
<1>23. ParentsAreUsed'
  <2> SUFFICES ASSUME NEW p \in Packages, NEW h \in Guests, sysModules'[p] = Parent(h),
                      ~ \E e \in Extensions : p \in PackagesOf[e] /\ loaded[e] # None
               PROVE  \E i \in 1..m :
                          loads'[t][i].at # "register" /\ p \in PackagesOf[loads'[t][i].name]
    BY <1>1, <1>6 DEF ParentsAreUsed
  <2>1. CASE p \in Missing(t)
    BY <1>2, <1>4, <1>5, <1>6, <2>1
  <2>2. CASE p \notin Missing(t)
    <3>1. PICK u \in Threads : \E i \in DOMAIN loads[u] :
              loads[u][i].at # "register" /\ p \in PackagesOf[loads[u][i].name]
      BY <1>8, <2>2 DEF IInv, ParentsAreUsed
    <3>2. u = t
      BY <1>7, <3>1, NoFrames
    <3>3. PICK i \in 1..m : loads[t][i].at # "register" /\ p \in PackagesOf[loads[t][i].name]
      BY <1>2, <3>1, <3>2
    <3>4. i \in 1..(m - 1)
      BY <1>1, <1>2, <3>3
    <3> QED BY <1>2, <1>6, <3>3, <3>4
  <2> QED BY <2>1, <2>2
<1> QED BY <1>9, <1>10, <1>11, <1>12, <1>13, <1>14, <1>15, <1>17, <1>18, <1>19,
           <1>20, <1>21, <1>22, <1>23 DEF IInv

LEMMA CreateKeeps ==
    ASSUME IInv, NEW t \in Threads, Create(t)
    PROVE  IInv'
<1> DEFINE m == Len(loads[t])
           d == Top(t).name
           f == [Top(t) EXCEPT !.at = "execute"]
<1>1. /\ TypeOK
      /\ UNCHANGED <<materialised, built, loaded, held>>
      /\ loads[t] # <<>> /\ Top(t).at = "create"
      /\ sysModules' = [sysModules EXCEPT ![d] = Created(d, m)]
      /\ loads' = [loads EXCEPT ![t] = Append(Below(t), f)]
  BY DEF IInv, Create, At, Own
<1>2. /\ m \in Nat \ {0} /\ DOMAIN loads[t] = 1..m
      /\ Top(t) \in Loads /\ Top(t) = loads[t][m] /\ m \in DOMAIN loads[t]
  BY <1>1, TopFacts DEF Top
<1>3. d \in Extensions /\ m \in 1..MaxDepth
  BY <1>1, <1>2, FrameFacts
<1>4. f \in Loads /\ f.guest = Top(t).guest /\ f.name = d /\ f.at = "execute"
      /\ f.inserted = Top(t).inserted
  BY <1>2 DEF Loads
<1> HIDE DEF f, d, m
<1>5. /\ loads' \in [Threads -> Seq(Loads)]
      /\ \A u \in Threads : Len(loads'[u]) <= MaxDepth
      /\ \A u \in Threads \ {t} : loads'[u] = loads[u]
      /\ Len(loads'[t]) = m /\ DOMAIN loads'[t] = 1..m
      /\ \A i \in 1..(m - 1) : loads'[t][i] = loads[t][i]
      /\ loads'[t][m] = f
  BY <1>1, <1>4, GoFacts DEF m
<1>6. \A u \in Threads \ {t} : DOMAIN loads'[u] = {} /\ loads'[u] = <<>>
  BY <1>1, <1>5, NoFrames, Alone DEF IInv
<1>7. ASSUME NEW i \in 1..m
      PROVE  /\ i \in DOMAIN loads[t]
             /\ loads'[t][i].name = loads[t][i].name
             /\ loads'[t][i].guest = loads[t][i].guest
             /\ loads'[t][i].inserted = loads[t][i].inserted
             /\ loads[t][i].name \in Extensions
             /\ PackagesOf[loads[t][i].name] \subseteq Packages
  <2>1. i \in DOMAIN loads[t]
    BY <1>2
  <2>2. /\ loads[t][i].name \in Extensions
        /\ PackagesOf[loads[t][i].name] \subseteq Packages
    BY <1>1, <2>1, FrameFacts
  <2>3. CASE i = m
    BY <1>2, <1>4, <1>5, <2>1, <2>2, <2>3 DEF d
  <2>4. CASE i # m
    BY <1>2, <1>5, <2>1, <2>2, <2>4
  <2> QED BY <2>3, <2>4
<1>8. /\ sysModules'[d] = Created(d, m)
      /\ \A n \in Names \ {d} : sysModules'[n] = sysModules[n]
      /\ Extensions \subseteq Names /\ Packages \subseteq Names
      /\ \A p \in Packages : sysModules'[p] = sysModules[p]
      /\ sysModules' \in [Names -> Modules \cup {None}]
  <2>1. sysModules \in [Names -> Modules \cup {None}] /\ Created(d, m) \in Modules
    BY <1>1, <1>3, ObjectFacts DEF TypeOK
  <2> QED BY <1>1, <1>3, <2>1, NativeAssumption DEF Names
<1>9. TypeOK'
  BY <1>1, <1>5, <1>8 DEF TypeOK
<1>10. Exclusive'
  BY <1>6 DEF Exclusive
<1>11. Unloaded'
  BY <1>1, <1>5, <1>6, <1>7 DEF IInv, Unloaded
<1>12. \A i \in 1..m : loads'[t][i].at # "register" /\ loads[t][i].at # "register"
  <2> SUFFICES ASSUME NEW i \in 1..m
               PROVE  loads'[t][i].at # "register" /\ loads[t][i].at # "register"
    OBVIOUS
  <2>1. CASE i = m
    BY <1>1, <1>2, <1>4, <1>5, <2>1
  <2>2. CASE i # m
    BY <1>2, <1>5, <2>2 DEF IInv, Suspended, m
  <2> QED BY <2>1, <2>2
<1>13. Suspended' /\ Fresh'
  BY <1>5, <1>6, <1>12 DEF Suspended, Fresh
<1>14. Present'
  <2> SUFFICES ASSUME NEW i \in 1..m, loads'[t][i].at = "execute"
               PROVE  sysModules'[loads'[t][i].name] # None
    BY <1>5, <1>6 DEF Present
  <2>1. CASE loads[t][i].name = d
    BY <1>3, <1>7, <1>8, <2>1, ObjectFacts
  <2>2. CASE loads[t][i].name # d
    <3>1. i # m
      BY <1>2, <2>2 DEF d
    <3>2. loads[t][i].at = "execute"
      BY <1>2, <1>5, <3>1
    <3>3. sysModules[loads[t][i].name] # None
      BY <1>7, <3>2 DEF IInv, Present
    <3> QED BY <1>7, <1>8, <2>2, <3>3
  <2> QED BY <2>1, <2>2
<1>15. Absent'
  <2> SUFFICES ASSUME NEW i \in 1..m, loads'[t][i].at # "execute"
               PROVE  sysModules'[loads'[t][i].name] # Created(loads'[t][i].name, i)
    BY <1>5, <1>6 DEF Absent
  <2>1. i # m /\ loads[t][i].at # "execute"
    BY <1>2, <1>4, <1>5
  <2>2. loads[t][i].name # d
    BY <1>2, <1>7, <2>1 DEF IInv, Distinct, d
  <2>3. sysModules[loads[t][i].name] # Created(loads[t][i].name, i)
    BY <1>7, <2>1 DEF IInv, Absent
  <2> QED BY <1>7, <1>8, <2>2, <2>3
<1>16. Distinct'
  BY <1>5, <1>6, <1>7 DEF IInv, Distinct
<1>17. Apart'
  BY <1>5, <1>6, <1>7 DEF IInv, Apart
<1>18. Matched'
  <2> SUFFICES ASSUME NEW i \in 1..m,
                      NEW p \in PackagesOf[loads[t][i].name] \ loads[t][i].inserted
               PROVE  \/ \E e \in Extensions : p \in PackagesOf[e] /\ loaded[e] # None
                      \/ \E j \in 1..(i - 1) : p \in PackagesOf[loads'[t][j].name]
    <3>1. ASSUME NEW u \in Threads, NEW i \in DOMAIN loads'[u]
          PROVE  u = t /\ i \in 1..m
      BY <1>5, <1>6
    <3>2. SUFFICES ASSUME NEW u \in Threads, NEW i \in DOMAIN loads'[u],
                          NEW p \in PackagesOf[loads'[u][i].name] \ loads'[u][i].inserted
                   PROVE  \/ \E e \in Extensions : p \in PackagesOf[e] /\ loaded'[e] # None
                          \/ \E j \in 1..(i - 1) : p \in PackagesOf[loads'[u][j].name]
      BY DEF Matched
    <3>3. u = t /\ i \in 1..m /\ p \in PackagesOf[loads[t][i].name] \ loads[t][i].inserted
      BY <1>7, <3>1, <3>2
    <3> QED BY <1>1, <3>3
  <2>1. \/ \E e \in Extensions : p \in PackagesOf[e] /\ loaded[e] # None
        \/ \E j \in 1..(i - 1) : p \in PackagesOf[loads[t][j].name]
    BY <1>7, <1>12 DEF IInv, Matched
  <2>2. \A j \in 1..(i - 1) : loads'[t][j].name = loads[t][j].name
    BY <1>2, <1>7
  <2> QED BY <2>1, <2>2
<1>19. OwnBinary'
  BY <1>1 DEF IInv, OwnBinary
<1>20. NothingHalfMade'
  <2> SUFFICES ASSUME NEW e \in Extensions, NEW n \in 1..MaxDepth,
                      sysModules'[e] = Created(e, n),
                      ~(loaded[e] # None /\ loaded[e].module = Created(e, n))
               PROVE  \E u \in Threads : n \in DOMAIN loads'[u] /\ loads'[u][n].name = e
    BY <1>1 DEF NothingHalfMade
  <2>1. CASE e = d
    <3>1. n = m
      BY <1>8, <2>1, ObjectFacts
    <3> QED BY <1>2, <1>4, <1>5, <2>1, <3>1
  <2>2. CASE e # d
    <3>1. PICK u \in Threads : n \in DOMAIN loads[u] /\ loads[u][n].name = e
      BY <1>8, <2>2 DEF IInv, NothingHalfMade
    <3> QED BY <1>2, <1>5, <1>7, <3>1
  <2> QED BY <2>1, <2>2
<1>21. RunningHasParents'
  <2> SUFFICES ASSUME NEW i \in 1..m, NEW p \in PackagesOf[loads[t][i].name]
               PROVE  sysModules'[p] = Parent(loads[t][i].guest)
    BY <1>5, <1>6, <1>7 DEF RunningHasParents
  <2> QED BY <1>7, <1>8, <1>12 DEF IInv, RunningHasParents
<1>22. ParentsAreUsed'
  <2> SUFFICES ASSUME NEW p \in Packages, NEW h \in Guests, sysModules[p] = Parent(h),
                      ~ \E e \in Extensions : p \in PackagesOf[e] /\ loaded[e] # None
               PROVE  \E u \in Threads : \E i \in DOMAIN loads'[u] :
                          loads'[u][i].at # "register" /\ p \in PackagesOf[loads'[u][i].name]
    BY <1>1, <1>8 DEF ParentsAreUsed
  <2>1. PICK u \in Threads : \E i \in DOMAIN loads[u] :
            loads[u][i].at # "register" /\ p \in PackagesOf[loads[u][i].name]
    BY DEF IInv, ParentsAreUsed
  <2>2. CASE u = t
    BY <1>2, <1>5, <1>7, <1>12, <2>1, <2>2
  <2>3. CASE u # t
    BY <1>5, <2>1, <2>3
  <2> QED BY <2>2, <2>3
<1> QED BY <1>9, <1>10, <1>11, <1>13, <1>14, <1>15, <1>16, <1>17, <1>18, <1>19, <1>20,
           <1>21, <1>22 DEF IInv

LEMMA FinishKeeps ==
    ASSUME IInv, NEW t \in Threads, Finish(t)
    PROVE  IInv'
<1> DEFINE m == Len(loads[t])
           d == Top(t).name
           o == Top(t).guest
<1>1. /\ TypeOK
      /\ UNCHANGED <<materialised, built, sysModules>>
      /\ loads[t] # <<>> /\ Top(t).at = "execute"
      /\ loaded' = [loaded EXCEPT ![d] = Record(o, d, m)]
      /\ held' = [held EXCEPT ![o][d] = Created(d, m)]
      /\ loads' = [loads EXCEPT ![t] = Below(t)]
  BY DEF IInv, Finish, At, Own
<1>2. /\ m \in Nat \ {0} /\ DOMAIN loads[t] = 1..m
      /\ Top(t) = loads[t][m] /\ m \in DOMAIN loads[t]
  BY <1>1, TopFacts DEF Top
<1>3. d \in Extensions /\ m \in 1..MaxDepth /\ o \in Guests
  BY <1>1, <1>2, FrameFacts
<1>4. /\ Record(o, d, m) \in Records /\ Record(o, d, m) # None
      /\ Record(o, d, m).module = Created(d, m)
      /\ Record(o, d, m).contents = Artifact(o, d)
  BY <1>3, ObjectFacts DEF Record, Records
<1> HIDE DEF d, m, o
<1>5. /\ loads' \in [Threads -> Seq(Loads)]
      /\ \A u \in Threads : Len(loads'[u]) <= MaxDepth
      /\ \A u \in Threads \ {t} : loads'[u] = loads[u]
      /\ Len(loads'[t]) = m - 1 /\ DOMAIN loads'[t] = 1..(m - 1)
      /\ \A i \in 1..(m - 1) : loads'[t][i] = loads[t][i]
  BY <1>1, PopFacts DEF m
<1>6. \A u \in Threads \ {t} : DOMAIN loads'[u] = {} /\ loads'[u] = <<>> /\ loads[u] = <<>>
  BY <1>1, <1>5, NoFrames, Alone DEF IInv
<1>7. ASSUME NEW i \in 1..(m - 1)
      PROVE  /\ i \in DOMAIN loads[t] /\ i # m
             /\ loads[t][i].name \in Extensions
             /\ loads[t][i].name # d
             /\ loads[t][i].at # "register"
  <2>1. i \in DOMAIN loads[t] /\ i # m
    BY <1>2
  <2>2. loads[t][i].name # d
    BY <1>2, <2>1 DEF IInv, Distinct, d
  <2>3. loads[t][i].at # "register"
    BY <2>1 DEF IInv, Suspended, m
  <2>4. loads[t][i].name \in Extensions
    BY <1>1, <2>1, FrameFacts
  <2> QED BY <2>1, <2>2, <2>3, <2>4
<1>8. /\ loaded'[d] = Record(o, d, m)
      /\ \A e \in Extensions \ {d} : loaded'[e] = loaded[e]
      /\ loaded' \in [Extensions -> Records \cup {None}]
  BY <1>1, <1>3, <1>4 DEF TypeOK
<1>9. loaded[d] = None
  BY <1>2 DEF IInv, Unloaded, d
<1>10. /\ held'[o][d] = Created(d, m)
       /\ \A g \in Guests, e \in Extensions :
              g # o \/ e # d => held'[g][e] = held[g][e]
       /\ held' \in [Guests -> [Extensions -> Modules \cup {None}]]
  BY <1>1, <1>3, ObjectFacts DEF TypeOK
<1>11. TypeOK'
  BY <1>1, <1>5, <1>8, <1>10 DEF TypeOK
<1>12. Exclusive'
  BY <1>6 DEF Exclusive
<1>13. Unloaded'
  BY <1>5, <1>6, <1>7, <1>8 DEF IInv, Unloaded
<1>14. Suspended' /\ Fresh'
  BY <1>5, <1>6, <1>7 DEF Suspended, Fresh
<1>15. Present'
  BY <1>1, <1>5, <1>6, <1>7 DEF IInv, Present
<1>16. Absent'
  BY <1>1, <1>5, <1>6, <1>7 DEF IInv, Absent
<1>17. Distinct'
  BY <1>5, <1>6, <1>7 DEF IInv, Distinct
<1>18. Apart'
  BY <1>5, <1>6, <1>7 DEF IInv, Apart
<1>19. Matched'
  <2> SUFFICES ASSUME NEW i \in 1..(m - 1),
                      NEW p \in PackagesOf[loads[t][i].name] \ loads[t][i].inserted
               PROVE  \/ \E e \in Extensions : p \in PackagesOf[e] /\ loaded'[e] # None
                      \/ \E j \in 1..(i - 1) : p \in PackagesOf[loads'[t][j].name]
    <3>1. ASSUME NEW u \in Threads, NEW i \in DOMAIN loads'[u]
          PROVE  u = t /\ i \in 1..(m - 1)
      BY <1>5, <1>6
    <3>2. SUFFICES ASSUME NEW u \in Threads, NEW i \in DOMAIN loads'[u],
                          NEW p \in PackagesOf[loads'[u][i].name] \ loads'[u][i].inserted
                   PROVE  \/ \E e \in Extensions : p \in PackagesOf[e] /\ loaded'[e] # None
                          \/ \E j \in 1..(i - 1) : p \in PackagesOf[loads'[u][j].name]
      BY DEF Matched
    <3>3. /\ u = t /\ i \in 1..(m - 1)
          /\ p \in PackagesOf[loads[t][i].name] \ loads[t][i].inserted
      BY <1>5, <3>1, <3>2
    <3> QED BY <3>3
  <2>1. \/ \E e \in Extensions : p \in PackagesOf[e] /\ loaded[e] # None
        \/ \E j \in 1..(i - 1) : p \in PackagesOf[loads[t][j].name]
    BY <1>7 DEF IInv, Matched
  <2>2. \A j \in 1..(i - 1) : loads'[t][j] = loads[t][j]
    BY <1>2, <1>5
  <2> QED BY <1>8, <1>9, <2>1, <2>2
<1>20. OwnBinary'
  <2> SUFFICES ASSUME NEW g \in Guests, NEW e \in Extensions, held'[g][e] # None
               PROVE  /\ loaded'[e] # None
                      /\ loaded'[e].module = held'[g][e]
                      /\ loaded'[e].contents = Artifact(g, e)
    BY DEF OwnBinary
  <2>1. CASE g = o /\ e = d
    BY <1>4, <1>8, <1>10, <2>1
  <2>2. CASE ~(g = o /\ e = d)
    <3>1. held[g][e] # None
      BY <1>10, <2>2
    <3>2. e # d
      BY <1>9, <3>1 DEF IInv, OwnBinary
    <3> QED BY <1>8, <1>10, <3>1, <3>2 DEF IInv, OwnBinary
  <2> QED BY <2>1, <2>2
<1>21. NothingHalfMade'
  <2> SUFFICES ASSUME NEW e \in Extensions, NEW n \in 1..MaxDepth,
                      sysModules[e] = Created(e, n)
               PROVE  \/ loaded'[e] # None /\ loaded'[e].module = Created(e, n)
                      \/ \E u \in Threads : n \in DOMAIN loads'[u] /\ loads'[u][n].name = e
    BY <1>1 DEF NothingHalfMade
  <2>1. CASE loaded[e] # None /\ loaded[e].module = Created(e, n)
    BY <1>8, <1>9, <2>1
  <2>2. CASE \E u \in Threads : n \in DOMAIN loads[u] /\ loads[u][n].name = e
    <3>1. PICK u \in Threads : n \in DOMAIN loads[u] /\ loads[u][n].name = e
      BY <2>2
    <3>2. u = t
      BY <1>6, <3>1, NoFrames
    <3>3. CASE n = m
      BY <1>2, <1>4, <1>8, <3>1, <3>2, <3>3 DEF d
    <3>4. CASE n # m
      BY <1>2, <1>5, <3>1, <3>2, <3>4
    <3> QED BY <3>3, <3>4
  <2> QED BY <2>1, <2>2 DEF IInv, NothingHalfMade
<1>22. RunningHasParents'
  BY <1>1, <1>5, <1>6, <1>7 DEF IInv, RunningHasParents
<1>23. ParentsAreUsed'
  <2> SUFFICES ASSUME NEW p \in Packages, NEW h \in Guests, sysModules[p] = Parent(h),
                      ~ \E e \in Extensions : p \in PackagesOf[e] /\ loaded'[e] # None
               PROVE  \E u \in Threads : \E i \in DOMAIN loads'[u] :
                          loads'[u][i].at # "register" /\ p \in PackagesOf[loads'[u][i].name]
    BY <1>1 DEF ParentsAreUsed
  <2>1. ~ \E e \in Extensions : p \in PackagesOf[e] /\ loaded[e] # None
    BY <1>8, <1>9
  <2>2. PICK u \in Threads : \E i \in DOMAIN loads[u] :
            loads[u][i].at # "register" /\ p \in PackagesOf[loads[u][i].name]
    BY <2>1 DEF IInv, ParentsAreUsed
  <2>3. u = t
    BY <1>6, <2>2, NoFrames
  <2>4. PICK i \in 1..m : loads[t][i].at # "register" /\ p \in PackagesOf[loads[t][i].name]
    BY <1>2, <2>2, <2>3
  <2>5. i # m
    BY <1>2, <1>3, <1>4, <1>8, <2>4 DEF d
  <2> QED BY <1>2, <1>5, <2>4, <2>5
<1> QED BY <1>11, <1>12, <1>13, <1>14, <1>15, <1>16, <1>17, <1>18, <1>19, <1>20, <1>21,
           <1>22, <1>23 DEF IInv

\* A load that fails, wherever it fails.
LEMMA RollbackKeeps ==
    ASSUME IInv, NEW t \in Threads, loads[t] # <<>>,
           NEW child, child \subseteq {Top(t).name},
           Top(t).at = "execute" => child = {Top(t).name},
           Rollback(t, child)
    PROVE  IInv'
<1> DEFINE m == Len(loads[t])
           d == Top(t).name
           o == Top(t).guest
           ins == Top(t).inserted
<1>1. /\ TypeOK
      /\ UNCHANGED <<materialised, built, loaded, held>>
      /\ sysModules' = [n \in Names |->
             IF /\ n \in ins \cup child
                /\ sysModules[n] = IF n \in Packages THEN Parent(o) ELSE Created(d, m)
             THEN None ELSE sysModules[n]]
      /\ loads' = [loads EXCEPT ![t] = Below(t)]
  BY DEF IInv, Rollback, RemoveIfSame, Own
<1>2. /\ m \in Nat \ {0} /\ DOMAIN loads[t] = 1..m
      /\ Top(t) = loads[t][m] /\ m \in DOMAIN loads[t]
  BY <1>1, TopFacts DEF Top
<1>3. /\ d \in Extensions /\ m \in 1..MaxDepth /\ o \in Guests
      /\ ins \subseteq Packages
  BY <1>1, <1>2, FrameFacts
<1>4. child \subseteq {d} /\ (Top(t).at = "execute" => child = {d})
  OBVIOUS
<1> HIDE DEF d, m, o, ins
<1>5. /\ loads' \in [Threads -> Seq(Loads)]
      /\ \A u \in Threads : Len(loads'[u]) <= MaxDepth
      /\ \A u \in Threads \ {t} : loads'[u] = loads[u]
      /\ Len(loads'[t]) = m - 1 /\ DOMAIN loads'[t] = 1..(m - 1)
      /\ \A i \in 1..(m - 1) : loads'[t][i] = loads[t][i]
  BY <1>1, PopFacts DEF m
<1>6. \A u \in Threads \ {t} : DOMAIN loads'[u] = {} /\ loads'[u] = <<>> /\ loads[u] = <<>>
  BY <1>1, <1>5, NoFrames, Alone DEF IInv
<1>7. ASSUME NEW i \in 1..(m - 1)
      PROVE  /\ i \in DOMAIN loads[t] /\ i # m
             /\ loads[t][i].name \in Extensions
             /\ PackagesOf[loads[t][i].name] \subseteq Packages
             /\ loads[t][i].name # d
             /\ loads[t][i].at # "register"
             /\ ins \cap PackagesOf[loads[t][i].name] = {}
  <2>1. i \in DOMAIN loads[t] /\ i # m /\ i < m
    BY <1>2
  <2>2. loads[t][i].name # d
    BY <1>2, <2>1 DEF IInv, Distinct, d
  <2>3. loads[t][i].at # "register"
    BY <2>1 DEF IInv, Suspended, m
  <2>4. loads[t][i].name \in Extensions /\ PackagesOf[loads[t][i].name] \subseteq Packages
    BY <1>1, <2>1, FrameFacts
  <2>5. ins \cap PackagesOf[loads[t][i].name] = {}
    BY <1>2, <2>1 DEF IInv, Apart, ins
  <2> QED BY <2>1, <2>2, <2>3, <2>4, <2>5
<1>8. /\ Extensions \subseteq Names /\ Packages \subseteq Names
      /\ Extensions \cap Packages = {}
  BY NativeAssumption DEF Names
<1>9. /\ \A e \in Extensions \ {d} : sysModules'[e] = sysModules[e]
      /\ \A p \in Packages \ ins : sysModules'[p] = sysModules[p]
  BY <1>1, <1>3, <1>4, <1>8
<1>10. /\ \A n \in Names : sysModules'[n] \in {None, sysModules[n]}
       /\ \A p \in ins : sysModules[p] = Parent(o) => sysModules'[p] = None
  BY <1>1, <1>3, <1>8
<1>11. sysModules'[d] # Created(d, m)
  <2>1. CASE Top(t).at = "execute"
    BY <1>1, <1>3, <1>4, <1>8, <2>1, ObjectFacts
  <2>2. CASE Top(t).at # "execute"
    <3>1. sysModules[d] # Created(d, m)
      BY <1>2, <2>2 DEF IInv, Absent, d
    <3> QED BY <1>3, <1>8, <1>10, <3>1, ObjectFacts
  <2> QED BY <2>1, <2>2
<1>12. TypeOK'
  <2>1. sysModules' \in [Names -> Modules \cup {None}]
    BY <1>1, <1>10 DEF TypeOK
  <2> QED BY <1>1, <1>5, <2>1 DEF TypeOK
<1>13. Exclusive'
  BY <1>6 DEF Exclusive
<1>14. Unloaded'
  BY <1>1, <1>5, <1>6, <1>7 DEF IInv, Unloaded
<1>15. Suspended' /\ Fresh'
  BY <1>5, <1>6, <1>7 DEF Suspended, Fresh
<1>16. Present'
  BY <1>5, <1>6, <1>7, <1>9 DEF IInv, Present
<1>17. Absent'
  BY <1>5, <1>6, <1>7, <1>9 DEF IInv, Absent
<1>18. Distinct'
  BY <1>5, <1>6, <1>7 DEF IInv, Distinct
<1>19. Apart'
  BY <1>5, <1>6, <1>7 DEF IInv, Apart
<1>20. Matched'
  <2> SUFFICES ASSUME NEW i \in 1..(m - 1),
                      NEW p \in PackagesOf[loads[t][i].name] \ loads[t][i].inserted
               PROVE  \/ \E e \in Extensions : p \in PackagesOf[e] /\ loaded[e] # None
                      \/ \E j \in 1..(i - 1) : p \in PackagesOf[loads'[t][j].name]
    <3>1. ASSUME NEW u \in Threads, NEW i \in DOMAIN loads'[u]
          PROVE  u = t /\ i \in 1..(m - 1)
      BY <1>5, <1>6
    <3>2. SUFFICES ASSUME NEW u \in Threads, NEW i \in DOMAIN loads'[u],
                          NEW p \in PackagesOf[loads'[u][i].name] \ loads'[u][i].inserted
                   PROVE  \/ \E e \in Extensions : p \in PackagesOf[e] /\ loaded'[e] # None
                          \/ \E j \in 1..(i - 1) : p \in PackagesOf[loads'[u][j].name]
      BY DEF Matched
    <3>3. /\ u = t /\ i \in 1..(m - 1)
          /\ p \in PackagesOf[loads[t][i].name] \ loads[t][i].inserted
      BY <1>5, <3>1, <3>2
    <3> QED BY <1>1, <3>3
  <2>1. \/ \E e \in Extensions : p \in PackagesOf[e] /\ loaded[e] # None
        \/ \E j \in 1..(i - 1) : p \in PackagesOf[loads[t][j].name]
    BY <1>7 DEF IInv, Matched
  <2>2. \A j \in 1..(i - 1) : loads'[t][j] = loads[t][j]
    BY <1>2, <1>5
  <2> QED BY <2>1, <2>2
<1>21. OwnBinary'
  BY <1>1 DEF IInv, OwnBinary
<1>22. NothingHalfMade'
  <2> SUFFICES ASSUME NEW e \in Extensions, NEW n \in 1..MaxDepth,
                      sysModules'[e] = Created(e, n),
                      ~(loaded[e] # None /\ loaded[e].module = Created(e, n))
               PROVE  \E u \in Threads : n \in DOMAIN loads'[u] /\ loads'[u][n].name = e
    BY <1>1 DEF NothingHalfMade
  <2>1. sysModules[e] = Created(e, n)
    BY <1>8, <1>10, ObjectFacts
  <2>2. PICK u \in Threads : n \in DOMAIN loads[u] /\ loads[u][n].name = e
    BY <2>1 DEF IInv, NothingHalfMade
  <2>3. u = t
    BY <1>6, <2>2, NoFrames
  <2>4. n # m
    BY <1>2, <1>11, <2>2, <2>3 DEF d
  <2> QED BY <1>2, <1>5, <2>2, <2>3, <2>4
<1>23. RunningHasParents'
  <2> SUFFICES ASSUME NEW i \in 1..(m - 1), NEW p \in PackagesOf[loads[t][i].name]
               PROVE  sysModules'[p] = Parent(loads[t][i].guest)
    BY <1>5, <1>6 DEF RunningHasParents
  <2>1. sysModules[p] = Parent(loads[t][i].guest)
    BY <1>7 DEF IInv, RunningHasParents
  <2> QED BY <1>7, <1>9, <2>1
<1>24. ParentsAreUsed'
  <2> SUFFICES ASSUME NEW p \in Packages, NEW h \in Guests, sysModules'[p] = Parent(h),
                      ~ \E e \in Extensions : p \in PackagesOf[e] /\ loaded[e] # None
               PROVE  \E i \in 1..(m - 1) : p \in PackagesOf[loads[t][i].name]
    BY <1>1, <1>5, <1>7 DEF ParentsAreUsed
  <2>1. sysModules[p] = Parent(h)
    BY <1>8, <1>10, ObjectFacts
  <2>2. PICK u \in Threads : \E i \in DOMAIN loads[u] :
            loads[u][i].at # "register" /\ p \in PackagesOf[loads[u][i].name]
    BY <2>1 DEF IInv, ParentsAreUsed
  <2>3. u = t
    BY <1>6, <2>2, NoFrames
  <2>4. PICK i \in 1..m : loads[t][i].at # "register" /\ p \in PackagesOf[loads[t][i].name]
    BY <1>2, <2>2, <2>3
  <2>5. CASE i = m
    <3>1. p \in PackagesOf[d] /\ sysModules[p] = Parent(o)
      BY <1>2, <2>4, <2>5 DEF IInv, RunningHasParents, d, o
    <3>2. p \notin ins
      BY <1>3, <1>10, <3>1, ObjectFacts
    <3>3. \E j \in 1..(m - 1) : p \in PackagesOf[loads[t][j].name]
      BY <1>2, <2>4, <2>5, <3>2 DEF IInv, Matched, ins
    <3> QED BY <3>3
  <2>6. CASE i # m
    BY <1>2, <2>4, <2>6
  <2> QED BY <2>5, <2>6
<1> QED BY <1>12, <1>13, <1>14, <1>15, <1>16, <1>17, <1>18, <1>19, <1>20, <1>21, <1>22,
           <1>23, <1>24 DEF IInv

-----------------------------------------------------------------------------
(* The theorems.                                                           *)

LEMMA StepKeeps ==
    ASSUME ~Reimports, IInv, [Next]_vars
    PROVE  IInv'
<1>1. CASE UNCHANGED vars
  <2>1. TypeOK' /\ Exclusive' /\ Unloaded' /\ Suspended' /\ Fresh' /\ Present' /\ Absent'
    BY <1>1 DEF IInv, vars, TypeOK, Exclusive, Unloaded, Suspended, Fresh, Present, Absent
  <2>2. Distinct' /\ Apart' /\ Matched'
    BY <1>1 DEF IInv, vars, Distinct, Apart, Matched
  <2>3. OwnBinary' /\ NothingHalfMade' /\ RunningHasParents' /\ ParentsAreUsed'
    BY <1>1 DEF IInv, vars, OwnBinary, NothingHalfMade, RunningHasParents, ParentsAreUsed
  <2> QED BY <2>1, <2>2, <2>3 DEF IInv
<1>2. ASSUME NEW g \in Guests, Prepare(g) PROVE IInv'
  BY <1>2, PrepareKeeps
<1>3. ASSUME NEW t \in Threads, NEW g \in Guests, NEW d \in Extensions,
             Reuse(t, g, d) \/ Start(t, g, d)
      PROVE  IInv'
  BY <1>3, ReuseKeeps, StartKeeps
<1>4. ASSUME NEW t \in Threads, RegisterParents(t) PROVE IInv'
  BY <1>4, RegisterParentsKeeps
<1>5. ASSUME NEW t \in Threads, RefuseParents(t) PROVE IInv'
  BY <1>5, RollbackKeeps DEF RefuseParents, At
<1>6. ASSUME NEW t \in Threads, Create(t) PROVE IInv'
  BY <1>6, CreateKeeps
<1>7. ASSUME NEW t \in Threads, FailCreate(t) PROVE IInv'
  BY <1>7, RollbackKeeps DEF FailCreate, At
<1>8. ASSUME NEW t \in Threads, Finish(t) PROVE IInv'
  BY <1>8, FinishKeeps
<1>9. ASSUME NEW t \in Threads, FailExecute(t) PROVE IInv'
  BY <1>9, RollbackKeeps DEF FailExecute, At
<1>10. ASSUME NEW t \in Threads, Replace(t) PROVE IInv'
  <2>1. TypeOK /\ loads[t] # <<>>
    BY <1>10 DEF IInv, Replace, At
  <2>2. Top(t).name \in Extensions /\ Top(t).name \in Names
    BY <2>1, TopFacts DEF Loads, Names
  <2> QED BY <1>10, <2>2, ForeignKeeps DEF Replace
<1>11. ASSUME NEW n \in Names, Squat(n) PROVE IInv'
  BY <1>11, ForeignKeeps DEF Squat
<1> QED BY <1>1, <1>2, <1>3, <1>4, <1>5, <1>6, <1>7, <1>8, <1>9, <1>10, <1>11 DEF Next

LEMMA Invariance == ~Reimports /\ Spec => []IInv
<1>1. Init => IInv
  BY InitFits
<1>2. ~Reimports /\ IInv /\ [Next]_vars => IInv'
  BY StepKeeps
<1>3. SUFFICES ASSUME ~Reimports PROVE Spec => []IInv
  OBVIOUS
<1>4. IInv /\ [Next]_vars => IInv'
  BY <1>2, <1>3
<1> QED BY <1>1, <1>4, PTL DEF Spec

\* However the loads of any guests are nested, fail and are raced by other code, a guest
\* holds the module that is in the process, made from the binary of its own bundle.
THEOREM HoldsOwnBinary == ~Reimports /\ Spec => []OwnBinary
BY Invariance, PTL DEF IInv

\* A failed load leaves no extension in sys.modules that is not loaded.
THEOREM FailuresLeaveNothing == ~Reimports /\ Spec => []NothingHalfMade
BY Invariance, PTL DEF IInv

\* The packages above an extension whose code runs are the guest's own, whatever the loads
\* nested in it did.
THEOREM ParentsStay == ~Reimports /\ Spec => []RunningHasParents
BY Invariance, PTL DEF IInv

\* A failed load leaves no package of its guest in sys.modules that nothing uses.
THEOREM ParentsGo == ~Reimports /\ Spec => []ParentsAreUsed
BY Invariance, PTL DEF IInv

\* What is loaded once is never loaded again in another's place.
THEOREM LoadedOnce == ~Reimports /\ Spec => LoadedForGood
<1>1. ASSUME IInv, [Next]_vars
      PROVE  \A d \in Extensions : loaded[d] # None => loaded'[d] = loaded[d]
  <2> SUFFICES ASSUME NEW d \in Extensions, loaded[d] # None
               PROVE  loaded'[d] = loaded[d]
    OBVIOUS
  <2>1. CASE UNCHANGED loaded
    BY <2>1
  <2>2. ASSUME NEW t \in Threads, Finish(t)
        PROVE  loaded'[d] = loaded[d]
    <3>1. TypeOK /\ loads[t] # <<>>
      BY <1>1, <2>2 DEF IInv, Finish, At
    <3>2. Len(loads[t]) \in DOMAIN loads[t]
      BY <3>1, TopFacts
    <3>3. loaded[Top(t).name] = None
      BY <1>1, <3>2 DEF IInv, Unloaded, Top
    <3>4. loaded' = [loaded EXCEPT ![Top(t).name] =
              Record(Top(t).guest, Top(t).name, Len(loads[t]))]
      BY <2>2 DEF Finish
    <3> QED BY <3>1, <3>3, <3>4 DEF TypeOK
  <2>3. (\E t \in Threads : Finish(t)) \/ UNCHANGED loaded
    BY <1>1 DEF Next, vars, Prepare, Reuse, Start, RegisterParents, RefuseParents, Create,
           FailCreate, FailExecute, Rollback, Replace, Squat
  <2> QED BY <2>1, <2>2, <2>3
<1>2. IInv /\ [Next]_vars
          => [\A d \in Extensions : loaded[d] # None => loaded'[d] = loaded[d]]_vars
  BY <1>1
<1> QED BY <1>2, Invariance, PTL DEF Spec, LoadedForGood
=============================================================================
