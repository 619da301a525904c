--------------------------- MODULE BoundaryProofs ---------------------------
(***************************************************************************)
(* Theorems about what crosses the boundary between host and guest, for    *)
(* any signatures, calls, impls, libraries, instances and readers.         *)
(*                                                                         *)
(* A case of Interfaces is one step, so that its theorems are about the    *)
(* operators: what the accessors take of a call and where Python's rule    *)
(* puts it (BindsLikePython), what the host's call of a function makes of  *)
(* its arguments (HostCallBinds), what the generated code uses and binds   *)
(* (LetsIsClosed, BoundsStay, NeedsAreMet), and what selecting entries by  *)
(* their kind keeps (SelectedFacts, from HasNth), what a directory's       *)
(* entries make of a builder (BuiltOfFiles), and what a name of a class    *)
(* stands for when all its members were declared (BuildingFits, then       *)
(* StandsFor), which is all that its uses go by (UseServes), and what is   *)
(* made of a declared exception and its bases (RealisedFacts, from         *)
(* BasesAreUpward) and of whatever fails meanwhile (ConvertFacts).         *)
(*                                                                         *)
(* What is shared and not copied goes on being used.  A payload can only   *)
(* be replaced by set_payload, which is refused while any borrow of the    *)
(* instance is left on that backend; and as long as an instance takes      *)
(* payloads of its maker alone, the box of one backend and the cell of the *)
(* other hold the same, so that what one of them accepts the other does    *)
(* (Cells).  A step's task may go on after its reader gave it up, but a    *)
(* reader holds one step, which is its own and open, and only the step     *)
(* that is inside the generator moves it (Holder, Runner).                 *)
(***************************************************************************)
EXTENDS Interfaces, Instances, GuestStreams, SequenceTheorems, FiniteSetTheorems,
        WellFoundedInduction, TLAPS

\* Raising an error ends in a case of its own kind.
LEMMA RaisesOnly ==
    RaiseError => case'.kind = "raise"
<1>1. SUFFICES ASSUME RaiseError PROVE case'.kind = "raise"
  OBVIOUS
<1>2. PICK declared \in Registries, error \in Errors, inGuest \in BOOLEAN :
          case' = [kind |-> "raise", specs |-> FatalSpecs \cup declared, error |-> error,
                   exception |-> Convert(inGuest, FatalSpecs \cup declared, GuestClasses, error)]
  BY <1>1 DEF RaiseError, Chosen
<1> QED BY <1>2

\* The least and the greatest of numbers, and what is collected of results.
LEMMA HasLeast ==
    ASSUME NEW S, S \subseteq Nat, S # {}
    PROVE  \E i \in S : \A j \in S : i <= j
<1>1. PICK x \in S : \A y \in S : ~(<<y, x>> \in OpToRel(<, Nat))
  BY NatLessThanWellFounded, WFMin
<1>2. \A y \in S : ~(y < x)
  BY <1>1, Zenon DEF OpToRel
<1> QED BY <1>2

\* A set that holds the first of some numbers, and with each the next, holds all of them.
LEMMA Counting ==
    ASSUME NEW n \in Nat, NEW S, 0 \in S, \A k \in 1..n : k - 1 \in S => k \in S
    PROVE  \A k \in 0..n : k \in S
<1> DEFINE missing == (0..n) \ S
<1>1. SUFFICES ASSUME missing # {} PROVE FALSE
  OBVIOUS
<1>2. PICK k \in missing : \A j \in missing : k <= j
  <2>1. missing \subseteq Nat
    OBVIOUS
  <2> HIDE DEF missing
  <2> QED BY <1>1, <2>1, HasLeast
<1>3. k \in 1..n /\ k - 1 \in 0..n /\ k \notin S
  BY <1>2
<1>4. k - 1 \in S
  BY <1>2, <1>3
<1> QED BY <1>3, <1>4

LEMMA MinFacts ==
    ASSUME NEW S, S \subseteq Nat, S # {}
    PROVE  Min(S) \in S /\ \A j \in S : Min(S) <= j
BY HasLeast DEF Min

LEMMA MaxFacts ==
    ASSUME NEW n \in Nat, NEW S, S \subseteq 0..n, S # {}
    PROVE  Max(S) \in S /\ \A j \in S : j <= Max(S)
<1> DEFINE T == {n - j : j \in S}
<1>1. T \subseteq Nat /\ T # {}
  <2>1. ASSUME NEW j \in S PROVE n - j \in Nat
    <3>1. j \in 0..n
      OBVIOUS
    <3> QED BY <3>1
  <2> QED BY <2>1
<1>2. \E k \in T : \A l \in T : k <= l
  <2> HIDE DEF T
  <2> QED BY <1>1, HasLeast
<1>3. PICK i \in S : \A l \in T : n - i <= l
  BY <1>2
<1>4. \A j \in S : j <= i
  BY <1>3
<1> QED BY <1>4 DEF Max

\* What is collected of results.
LEMMA CollectFacts ==
    ASSUME NEW results, DOMAIN results \subseteq Nat
    PROVE  /\ (\A i \in DOMAIN results : results[i].r = "ok") =>
                  Collect(results).r = "ok"
                  /\ Collect(results).v = [i \in DOMAIN results |-> results[i].v]
           /\ (\E i \in DOMAIN results : results[i].r # "ok") => Collect(results).r # "ok"
<1> DEFINE failed == {i \in DOMAIN results : results[i].r # "ok"}
           values == [i \in DOMAIN results |-> results[i].v]
<1>1. Collect(results) = IF failed = {} THEN Ok(values) ELSE results[Min(failed)]
  BY DEF Collect
<1>2. failed # {} => Min(failed) \in failed
  BY MinFacts
<1>3. CASE failed = {}
  <2>1. \A i \in DOMAIN results : results[i].r = "ok"
    BY <1>3
  <2> HIDE DEF values, failed
  <2>2. Collect(results) = Ok(values)
    BY <1>1, <1>3
  <2>3. Collect(results).r = "ok" /\ Collect(results).v = values
    BY <2>2 DEF Ok
  <2> QED BY <2>1, <2>3 DEF values
<1>4. CASE failed # {}
  BY <1>1, <1>2, <1>4
<1> QED BY <1>3, <1>4

-----------------------------------------------------------------------------
(* The arguments of a guest's call.                                        *)

LEMMA GuestIndexType ==
    ASSUME NEW params \in Seq(Parameters), NEW i \in DOMAIN params
    PROVE  /\ GuestIndex(params, i) \in Nat
           /\ IsFiniteSet({j \in 1..(i - 1) : ConsumesPositional(params[j])})
<1> DEFINE before == {j \in 1..(i - 1) : ConsumesPositional(params[j])}
<1>1. i \in Nat /\ before \subseteq 1..(i - 1)
  OBVIOUS
<1>2. IsFiniteSet(1..(i - 1))
  BY <1>1, FS_Interval
<1>3. IsFiniteSet(before) /\ Cardinality(before) \in Nat
  BY <1>1, <1>2, FS_Subset, FS_CardinalityType
<1> QED BY <1>3 DEF GuestIndex

\* The places of those that take by position are in the order of the parameters.
LEMMA GuestIndexRises ==
    ASSUME NEW params \in Seq(Parameters), NEW i \in DOMAIN params, NEW j \in DOMAIN params, i < j,
           ConsumesPositional(params[i])
    PROVE  GuestIndex(params, i) < GuestIndex(params, j)
<1> DEFINE before(n) == {k \in 1..(n - 1) : ConsumesPositional(params[k])}
<1>1. /\ IsFiniteSet(before(i)) /\ IsFiniteSet(before(j))
      /\ Cardinality(before(i)) \in Nat /\ Cardinality(before(j)) \in Nat
  BY GuestIndexType DEF GuestIndex
<1>2. i \in Nat /\ j \in Nat /\ i \notin before(i)
  OBVIOUS
<1>3. before(i) \cup {i} \subseteq before(j)
  BY <1>2
<1>4. Cardinality(before(i) \cup {i}) = Cardinality(before(i)) + 1
  BY <1>1, <1>2, FS_AddElement
<1>5. Cardinality(before(i) \cup {i}) <= Cardinality(before(j))
  BY <1>1, <1>3, FS_Subset
<1> QED BY <1>1, <1>4, <1>5 DEF GuestIndex

LEMMA ArgumentFacts ==
    ASSUME NEW call, call.positional \in Nat, NEW arg \in Given(call)
    PROVE  \/ /\ arg.kind = "at" /\ arg = At(arg.at)
              /\ arg.at \in Nat /\ arg.at < call.positional
           \/ arg.kind = "named" /\ arg = Named(arg.name) /\ arg.name \in call.keywords
BY DEF Given, At, Named

LEMMA GivenFacts ==
    ASSUME NEW call, call.positional \in Nat
    PROVE  /\ \A k \in Nat : At(k).kind = "at" /\ At(k).at = k
                             /\ (At(k) \in Given(call) <=> k < call.positional)
           /\ \A n : Named(n).kind = "named" /\ Named(n).name = n
                     /\ (Named(n) \in Given(call) <=> n \in call.keywords)
<1>1. ASSUME NEW k \in Nat
      PROVE  At(k).kind = "at" /\ At(k).at = k /\ (At(k) \in Given(call) <=> k < call.positional)
  <2>1. At(k).kind = "at" /\ At(k).at = k
    BY DEF At
  <2>2. \A n : At(k) # Named(n)
    BY DEF At, Named
  <2>3. At(k) \in Given(call) => k < call.positional
    <3>1. SUFFICES ASSUME At(k) \in Given(call) PROVE k < call.positional
      OBVIOUS
    <3>2. PICK l \in 0..(call.positional - 1) : At(k) = At(l)
      BY <2>2, <3>1 DEF Given
    <3>3. k = l
      BY <2>1, <3>2 DEF At
    <3> QED BY <3>3
  <2>4. k < call.positional => k \in 0..(call.positional - 1)
    OBVIOUS
  <2> QED BY <2>1, <2>3, <2>4 DEF Given
<1>2. ASSUME NEW n
      PROVE  Named(n).kind = "named" /\ Named(n).name = n
             /\ (Named(n) \in Given(call) <=> n \in call.keywords)
  <2>1. Named(n).kind = "named" /\ Named(n).name = n
    BY DEF Named
  <2>2. \A k : At(k) # Named(n)
    BY DEF At, Named
  <2>3. \A m : Named(m) = Named(n) => m = n
    BY DEF Named
  <2> QED BY <2>1, <2>2, <2>3 DEF Given
<1> QED BY <1>1, <1>2

\* What a parameter takes that is not the rest.
LEMMA TakenByRole ==
    ASSUME NEW call, NEW params, NEW i \in DOMAIN params, params[i].role # "rest",
           NEW a \in Taken(call, params, i)
    PROVE  /\ a \in Given(call)
           /\ \/ a = At(GuestIndex(params, i)) /\ ConsumesPositional(params[i])
              \/ a = Named(params[i].name) /\ params[i].role \in {"value", "keyword"}
<1> DEFINE here == {At(GuestIndex(params, i))} \cap Given(call)
           named == {Named(params[i].name)} \cap Given(call)
<1>1. CASE params[i].role \in {"positional", "borrow", "borrow_mut"}
  <2>1. Taken(call, params, i) = here
    BY <1>1 DEF Taken
  <2> QED BY <1>1, <2>1 DEF ConsumesPositional
<1>2. CASE params[i].role = "keyword"
  <2>1. Taken(call, params, i) = named
    BY <1>2 DEF Taken
  <2> QED BY <1>2, <2>1
<1>3. CASE params[i].role = "value"
  <2>1. Taken(call, params, i) = IF here # {} THEN here ELSE named
    BY <1>3 DEF Taken
  <2> QED BY <1>3, <2>1 DEF ConsumesPositional
<1>4. CASE params[i].role \notin {"positional", "borrow", "borrow_mut", "keyword", "value", "rest"}
  <2>1. Taken(call, params, i) = {}
    BY <1>4 DEF Taken
  <2> QED BY <2>1
<1> QED BY <1>1, <1>2, <1>3, <1>4

\* An argument is taken by a parameter it may go to.
LEMMA TakenIsTarget ==
    ASSUME NEW call, call.positional \in Nat, NEW params \in Signatures, NEW i \in DOMAIN params,
           NEW a \in Taken(call, params, i)
    PROVE  a \in Given(call) /\ i \in Targets(params, a)
<1>1. params \in Seq(Parameters) /\ GuestIndex(params, i) \in Nat
  BY GuestIndexType DEF Signatures
<1>2. CASE params[i].role = "rest"
  <2>1. PICK k \in GuestIndex(params, i)..(call.positional - 1) : a = At(k)
    BY <1>2 DEF Taken
  <2>2. k \in Nat /\ k < call.positional /\ k >= GuestIndex(params, i)
    BY <1>1, <2>1
  <2>3. a \in Given(call) /\ a.kind = "at" /\ a.at = k
    BY <2>1, <2>2, GivenFacts
  <2>4. a.kind # "named" /\ ConsumesPositional(params[i]) /\ IsRest(params[i])
    BY <1>2, <2>3 DEF ConsumesPositional, IsRest
  <2> QED BY <2>2, <2>3, <2>4 DEF Targets
<1>3. CASE params[i].role # "rest"
  <2>1. /\ a \in Given(call)
        /\ \/ a = At(GuestIndex(params, i)) /\ ConsumesPositional(params[i])
           \/ a = Named(params[i].name) /\ params[i].role \in {"value", "keyword"}
    BY <1>3, TakenByRole
  <2> QED BY <1>1, <1>3, <2>1, GivenFacts DEF Targets, IsRest
<1> QED BY <1>2, <1>3

\* An argument may go to one parameter at most.
LEMMA OneTarget ==
    ASSUME NEW params \in Signatures, Parses(params), NEW a, a.kind = "named" \/ a.at \in Nat,
           NEW i \in Targets(params, a), NEW j \in Targets(params, a)
    PROVE  i = j
<1>1. params \in Seq(Parameters) /\ i \in DOMAIN params /\ j \in DOMAIN params
  BY DEF Signatures, Targets
<1>2. CASE a.kind = "named"
  BY <1>1, <1>2 DEF Targets, Signatures
<1>3. ASSUME a.kind # "named", NEW p \in Targets(params, a), NEW q \in Targets(params, a)
      PROVE  ~(p < q)
  <2>1. p \in DOMAIN params /\ q \in DOMAIN params /\ ConsumesPositional(params[p])
    BY <1>3 DEF Targets
  <2>2. SUFFICES ASSUME p < q PROVE FALSE
    OBVIOUS
  <2>3. GuestIndex(params, p) < GuestIndex(params, q) /\ GuestIndex(params, p) \in Nat
        /\ GuestIndex(params, q) \in Nat
    BY <1>1, <2>1, <2>2, GuestIndexRises, GuestIndexType
  <2>4. ~IsRest(params[p])
    BY <1>1, <2>1, <2>2 DEF Parses
  <2> QED BY <1>3, <2>3, <2>4 DEF Targets
<1>4. i \in Int /\ j \in Int
  BY <1>1
<1> QED BY <1>2, <1>3, <1>4

\* What a parameter that may be given an argument does with it.
LEMMA TargetTakes ==
    ASSUME NEW call, call.positional \in Nat, NEW params \in Signatures,
           NEW a \in Given(call), NEW i \in Targets(params, a)
    PROVE  \/ a \in Taken(call, params, i)
           \/ /\ params[i].role = "value" /\ a.kind = "named"
              /\ At(GuestIndex(params, i)) \in Taken(call, params, i)
<1> DEFINE here == {At(GuestIndex(params, i))} \cap Given(call)
           named == {Named(params[i].name)} \cap Given(call)
<1>1. i \in DOMAIN params /\ params \in Seq(Parameters) /\ GuestIndex(params, i) \in Nat
  BY GuestIndexType DEF Signatures, Targets
<1>2. CASE a.kind = "named"
  <2>1. a = Named(a.name) /\ params[i].role \in {"value", "keyword"} /\ params[i].name = a.name
    BY <1>2, ArgumentFacts DEF Targets
  <2>2. a \in named
    BY <2>1
  <2>3. CASE params[i].role = "keyword"
    <3>1. Taken(call, params, i) = named
      BY <2>3 DEF Taken
    <3> QED BY <2>2, <3>1
  <2>4. CASE params[i].role = "value"
    <3>1. Taken(call, params, i) = IF here # {} THEN here ELSE named
      BY <2>4 DEF Taken
    <3> QED BY <1>2, <2>2, <2>4, <3>1
  <2> QED BY <2>1, <2>3, <2>4
<1>3. CASE a.kind # "named"
  <2>1. /\ a = At(a.at) /\ a.at \in Nat /\ a.at < call.positional
        /\ ConsumesPositional(params[i])
        /\ IF IsRest(params[i]) THEN a.at >= GuestIndex(params, i) ELSE a.at = GuestIndex(params, i)
    BY <1>3, ArgumentFacts DEF Targets
  <2>2. CASE params[i].role = "rest"
    <3>1. Taken(call, params, i) = {At(k) : k \in GuestIndex(params, i)..(call.positional - 1)}
      BY <2>2 DEF Taken
    <3>2. a.at \in GuestIndex(params, i)..(call.positional - 1)
      BY <1>1, <2>1, <2>2 DEF IsRest
    <3> QED BY <2>1, <3>1, <3>2
  <2>3. CASE params[i].role # "rest"
    <3>1. a \in here
      BY <2>1, <2>3 DEF IsRest
    <3>2. CASE params[i].role = "value"
      <4>1. Taken(call, params, i) = IF here # {} THEN here ELSE named
        BY <3>2 DEF Taken
      <4> QED BY <3>1, <4>1
    <3>3. CASE params[i].role \in {"positional", "borrow", "borrow_mut"}
      <4>1. Taken(call, params, i) = here
        BY <3>3 DEF Taken
      <4> QED BY <3>1, <4>1
    <3> QED BY <2>1, <2>3, <3>2, <3>3 DEF ConsumesPositional
  <2> QED BY <2>2, <2>3
<1> QED BY <1>2, <1>3

LEMMA TakesOne ==
    ASSUME NEW call, NEW params, NEW i \in DOMAIN params, ~IsRest(params[i]),
           NEW a \in Taken(call, params, i), NEW b \in Taken(call, params, i)
    PROVE  a = b
<1> DEFINE here == {At(GuestIndex(params, i))} \cap Given(call)
           named == {Named(params[i].name)} \cap Given(call)
<1>1. Taken(call, params, i) \in {here, named, {}}
  <2>1. CASE params[i].role = "value"
    BY <2>1 DEF Taken
  <2>2. CASE params[i].role = "keyword"
    BY <2>2 DEF Taken
  <2>3. CASE params[i].role \in {"positional", "borrow", "borrow_mut"}
    BY <2>3 DEF Taken
  <2>4. CASE params[i].role \notin {"positional", "borrow", "borrow_mut", "keyword", "value", "rest"}
    BY <2>4 DEF Taken
  <2> QED BY <2>1, <2>2, <2>3, <2>4 DEF IsRest
<1> QED BY <1>1

BoundLikePython(call, params, bound) ==
    /\ bound.ok <=> Legal(call, params)
    /\ bound.ok =>
           \A a \in Given(call), i \in DOMAIN params : a \in bound.taken[i] <=> i \in Targets(params, a)

LEMMA BindFacts ==
    ASSUME NEW call, NEW params
    PROVE  /\ \A i \in DOMAIN params : Bind(call, params).taken[i] = Taken(call, params, i)
           /\ Bind(call, params).ok <=>
                  /\ \A i \in DOMAIN params : Required(params[i]) => Taken(call, params, i) # {}
                  /\ Given(call) = UNION {Taken(call, params, i) : i \in DOMAIN params}
<1> DEFINE taken == [i \in DOMAIN params |-> Taken(call, params, i)]
<1>1. UNION {taken[i] : i \in DOMAIN params} = UNION {Taken(call, params, i) : i \in DOMAIN params}
  OBVIOUS
<1>2. \A i \in DOMAIN params : taken[i] = Taken(call, params, i)
  OBVIOUS
<1>3. Bind(call, params) =
          [taken |-> taken,
           ok |-> /\ \A i \in DOMAIN params : Required(params[i]) => taken[i] # {}
                  /\ Given(call) = UNION {taken[i] : i \in DOMAIN params}]
  BY DEF Bind
<1> HIDE DEF taken
<1>4. Bind(call, params).taken = taken
      /\ Bind(call, params).ok = (/\ \A i \in DOMAIN params : Required(params[i]) => taken[i] # {}
                                  /\ Given(call) = UNION {taken[i] : i \in DOMAIN params})
  BY <1>3
<1> QED BY <1>1, <1>2, <1>4

LEMMA BindsLikePython ==
    ASSUME NEW call, call.positional \in Nat, NEW params \in Signatures, Parses(params)
    PROVE  BoundLikePython(call, params, Bind(call, params))
<1> DEFINE bound == Bind(call, params)
<1>a. \A a \in Given(call) : a.kind = "named" \/ a.at \in Nat
  BY ArgumentFacts
<1>b. \A a \in Given(call) : \A i, j \in Targets(params, a) : i = j
  BY <1>a, OneTarget
<1>c. \A i \in DOMAIN params : \A a \in Taken(call, params, i) :
          a \in Given(call) /\ i \in Targets(params, a)
  BY TakenIsTarget
<1>1. ASSUME bound.ok, NEW a \in Given(call)
      PROVE  \E i \in DOMAIN params : /\ a \in Taken(call, params, i) /\ Targets(params, a) = {i}
  <2>1. PICK i \in DOMAIN params : a \in Taken(call, params, i)
    BY <1>1, BindFacts
  <2> QED BY <1>b, <1>c, <2>1
<1>2. ASSUME bound.ok PROVE Legal(call, params)
  <2>1. \A a \in Given(call) : Cardinality(Targets(params, a)) = 1
    BY <1>1, <1>2, FS_Singleton
  <2>2. ASSUME NEW a \in Given(call), NEW b \in Given(call), a # b,
               NEW i \in Targets(params, a) \cap Targets(params, b)
        PROVE  IsRest(params[i])
    <3>1. a \in Taken(call, params, i) /\ b \in Taken(call, params, i) /\ i \in DOMAIN params
      BY <1>1, <1>2, <2>2
    <3> QED BY <2>2, <3>1, TakesOne
  <2>3. ASSUME NEW i \in DOMAIN params, Required(params[i])
        PROVE  \E a \in Given(call) : i \in Targets(params, a)
    BY <1>2, <1>c, <2>3, BindFacts
  <2> QED BY <2>1, <2>2, <2>3 DEF Legal
<1>3. ASSUME Legal(call, params) PROVE bound.ok
  <2>1. ASSUME NEW i \in DOMAIN params, Required(params[i]) PROVE Taken(call, params, i) # {}
    BY <1>3, <2>1, TargetTakes DEF Legal
  <2>2. ASSUME NEW a \in Given(call)
        PROVE  \E i \in DOMAIN params : a \in Taken(call, params, i)
    <3>1. PICK i \in Targets(params, a) : TRUE
      BY <1>3, FS_EmptySet DEF Legal
    <3>2. i \in DOMAIN params
      BY DEF Targets
    <3>3. SUFFICES ASSUME params[i].role = "value", a.kind = "named",
                          At(GuestIndex(params, i)) \in Taken(call, params, i)
                   PROVE  FALSE
      BY <3>2, TargetTakes
    <3>4. /\ At(GuestIndex(params, i)) \in Given(call)
          /\ i \in Targets(params, At(GuestIndex(params, i)))
      BY <1>c, <3>2, <3>3
    <3>5. At(GuestIndex(params, i)) # a
      BY <3>3 DEF At
    <3> QED BY <1>3, <3>3, <3>4, <3>5 DEF Legal, IsRest
  <2>3. Given(call) = UNION {Taken(call, params, i) : i \in DOMAIN params}
    BY <1>c, <2>2
  <2> QED BY <2>1, <2>3, BindFacts
<1>4. ASSUME bound.ok, NEW a \in Given(call), NEW i \in DOMAIN params
      PROVE  a \in bound.taken[i] <=> i \in Targets(params, a)
  BY <1>1, <1>4, <1>c, BindFacts
<1> QED BY <1>2, <1>3, <1>4 DEF BoundLikePython

-----------------------------------------------------------------------------
(* The arguments of the host's call.                                       *)

\* Signatures of functions that the host calls: every parameter is plain.
LEMMA PlainIndex ==
    ASSUME NEW names \in Seq(STRING), NEW params,
           params = [i \in DOMAIN names |-> Param("value", names[i], FALSE)], NEW i \in DOMAIN names
    PROVE  GuestIndex(params, i) = i - 1
<1>1. \A j \in DOMAIN names : ConsumesPositional(params[j])
  BY DEF ConsumesPositional, Param
<1>2. DOMAIN names = 1..Len(names) /\ i \in Nat /\ i <= Len(names) /\ Len(names) \in Nat
  OBVIOUS
<1>3. \A j \in 1..(i - 1) : j \in DOMAIN names
  BY <1>2
<1>4. {j \in 1..(i - 1) : ConsumesPositional(params[j])} = 1..(i - 1)
  BY <1>1, <1>3
<1>5. Cardinality(1..(i - 1)) = i - 1
  BY <1>2, FS_Interval
<1> QED BY <1>4, <1>5 DEF GuestIndex

PlainParams(names) == [i \in DOMAIN names |-> Param("value", names[i], FALSE)]
CallOf(n, keywords) == [positional |-> n, keywords |-> keywords]

LEMMA PlainTargets ==
    ASSUME NEW names \in Seq(STRING)
    PROVE  /\ \A k \in Nat, i \in DOMAIN names : i \in Targets(PlainParams(names), At(k)) <=> i = k + 1
           /\ \A n : \A i \in DOMAIN names : i \in Targets(PlainParams(names), Named(n)) <=> names[i] = n
           /\ \A a : Targets(PlainParams(names), a) \subseteq DOMAIN names
           /\ \A i \in DOMAIN names : Required(PlainParams(names)[i]) /\ ~IsRest(PlainParams(names)[i])
<1> DEFINE params == PlainParams(names)
<1>1. DOMAIN params = DOMAIN names
      /\ \A i \in DOMAIN names : params[i].role = "value" /\ params[i].name = names[i]
                                 /\ ~params[i].optional
  BY DEF PlainParams, Param
<1>2. \A i \in DOMAIN names : GuestIndex(params, i) = i - 1
  BY PlainIndex DEF PlainParams
<1>3. \A i \in DOMAIN names : ConsumesPositional(params[i]) /\ ~IsRest(params[i]) /\ ConsumesArg(params[i])
  BY <1>1 DEF ConsumesPositional, IsRest, ConsumesArg
<1>4. \A a : Targets(params, a) \subseteq DOMAIN names
  BY <1>1 DEF Targets
<1>5. ASSUME NEW k \in Nat, NEW i \in DOMAIN names PROVE i \in Targets(params, At(k)) <=> i = k + 1
  <2>1. At(k).kind # "named" /\ At(k).at = k
    BY DEF At
  <2>2. i \in Targets(params, At(k)) <=> k = GuestIndex(params, i)
    BY <1>1, <1>3, <2>1 DEF Targets
  <2>3. i \in Nat
    OBVIOUS
  <2> QED BY <1>2, <2>2, <2>3
<1>6. ASSUME NEW n, NEW i \in DOMAIN names PROVE i \in Targets(params, Named(n)) <=> names[i] = n
  <2>1. Named(n).kind = "named" /\ Named(n).name = n
    BY DEF Named
  <2> QED BY <1>1, <2>1 DEF Targets
<1>7. \A i \in DOMAIN names : Required(params[i])
  BY <1>1, <1>3 DEF Required
<1> QED BY <1>3, <1>4, <1>5, <1>6, <1>7

\* Python takes a call of plain parameters when the positional arguments are not too many and
\* the names are those of the parameters that are left.
LEMMA PlainLegal ==
    ASSUME NEW names \in Seq(STRING), IsInjective(names), NEW n \in Nat, NEW keywords
    PROVE  Legal(CallOf(n, keywords), PlainParams(names)) <=>
               n <= Len(names) /\ keywords = {names[i] : i \in {j \in DOMAIN names : j > n}}
<1> DEFINE call == CallOf(n, keywords)
           params == PlainParams(names)
           left == {j \in DOMAIN names : j > n}
<1>1. call.positional = n /\ call.keywords = keywords
  BY DEF CallOf
<1>2. /\ \A k \in Nat : At(k) \in Given(call) <=> k < n
      /\ \A m : Named(m) \in Given(call) <=> m \in keywords
      /\ \A k, m : At(k) # Named(m)
  <2> HIDE DEF call
  <2>1. \A k, m : At(k) # Named(m)
    BY DEF At, Named
  <2> QED BY <1>1, <2>1, GivenFacts
<1>3. \A a \in Given(call) : \/ \E k \in Nat : a = At(k) /\ k < n
                             \/ \E m \in keywords : a = Named(m)
  <2> HIDE DEF call
  <2> QED BY <1>1, ArgumentFacts
<1>4. DOMAIN params = DOMAIN names /\ DOMAIN names = 1..Len(names) /\ Len(names) \in Nat
  BY DEF PlainParams
<1>5. \A i, j \in DOMAIN names : names[i] = names[j] => i = j
  BY DEF IsInjective
<1>8. /\ \A k \in Nat, i \in DOMAIN names : i \in Targets(params, At(k)) <=> i = k + 1
      /\ \A m : \A i \in DOMAIN names : i \in Targets(params, Named(m)) <=> names[i] = m
      /\ \A a : Targets(params, a) \subseteq DOMAIN names
      /\ \A i \in DOMAIN names : Required(params[i]) /\ ~IsRest(params[i])
  BY PlainTargets
<1> HIDE DEF call, params
<1>6. ASSUME Legal(call, params) PROVE n <= Len(names) /\ keywords = {names[i] : i \in left}
  <2>1. \A a \in Given(call) : \E i \in DOMAIN names : i \in Targets(params, a)
    <3> SUFFICES ASSUME NEW a \in Given(call) PROVE \E i \in DOMAIN names : i \in Targets(params, a)
      OBVIOUS
    <3>1. Cardinality(Targets(params, a)) = 1
      BY <1>6 DEF Legal
    <3>2. Targets(params, a) # {}
      <4>1. SUFFICES ASSUME Targets(params, a) = {} PROVE FALSE
        OBVIOUS
      <4>2. Cardinality({}) = 1
        BY <3>1, <4>1, Zenon
      <4> QED BY <4>2, FS_EmptySet
    <3> QED BY <3>2, <1>8
  <2>2. n <= Len(names)
    <3>1. SUFFICES ASSUME n > 0 PROVE n <= Len(names)
      BY <1>4
    <3>2. n - 1 \in Nat /\ At(n - 1) \in Given(call)
      BY <1>2, <3>1
    <3>3. PICK i \in DOMAIN names : i = n - 1 + 1
      BY <2>1, <3>2, <1>8
    <3> QED BY <1>4, <3>3
  <2>3. ASSUME NEW m \in keywords PROVE m \in {names[i] : i \in left}
    <3>1. PICK i \in DOMAIN names : i \in Targets(params, Named(m)) /\ names[i] = m
      BY <1>2, <2>1, <1>8
    <3>2. i > n
      <4>1. SUFFICES ASSUME i <= n PROVE FALSE
        BY <1>4
      <4>2. i - 1 \in Nat /\ i - 1 < n
        BY <1>4, <4>1
      <4>3. At(i - 1) \in Given(call) /\ i \in Targets(params, At(i - 1))
        BY <1>2, <4>2, <1>8
      <4>4. i \in Targets(params, Named(m)) \cap Targets(params, At(i - 1))
        BY <3>1, <4>3
      <4>5. IsRest(params[i])
        BY <1>2, <1>6, <4>3, <4>4 DEF Legal
      <4> QED BY <4>5, <1>8
    <3> QED BY <3>1, <3>2
  <2>4. ASSUME NEW i \in left PROVE names[i] \in keywords
    <3>1. i \in DOMAIN names /\ Required(params[i])
      BY <1>8
    <3>2. PICK a \in Given(call) : i \in Targets(params, a)
      BY <1>4, <1>6, <3>1 DEF Legal
    <3>3. ASSUME NEW k \in Nat, a = At(k), k < n PROVE names[i] \in keywords
      <4>1. i = k + 1
        BY <3>1, <3>2, <3>3, <1>8
      <4> QED BY <3>3, <4>1
    <3>4. ASSUME NEW m \in keywords, a = Named(m) PROVE names[i] \in keywords
      BY <3>1, <3>2, <3>4, <1>8
    <3> QED BY <1>3, <3>3, <3>4
  <2> QED BY <2>2, <2>3, <2>4
<1>7. ASSUME n <= Len(names), keywords = {names[i] : i \in left} PROVE Legal(call, params)
  <2>1. ASSUME NEW a \in Given(call) PROVE \E i \in DOMAIN names : Targets(params, a) = {i}
    <3>1. ASSUME NEW k \in Nat, a = At(k), k < n PROVE \E i \in DOMAIN names : Targets(params, a) = {i}
      <4>1. k + 1 \in DOMAIN names
        BY <1>4, <1>7, <3>1
      <4>2. k + 1 \in Targets(params, a)
            /\ \A j \in DOMAIN names : j \in Targets(params, a) => j = k + 1
        BY <3>1, <4>1, <1>8
      <4>3. Targets(params, a) \subseteq DOMAIN names
        BY <1>8
      <4> QED BY <4>1, <4>2, <4>3
    <3>2. ASSUME NEW m \in keywords, a = Named(m) PROVE \E i \in DOMAIN names : Targets(params, a) = {i}
      <4>1. PICK i \in DOMAIN names : names[i] = m
        BY <1>7, <3>2
      <4>2. i \in Targets(params, a) /\ \A j \in DOMAIN names : j \in Targets(params, a) => j = i
        BY <1>5, <3>2, <4>1, <1>8
      <4>3. Targets(params, a) \subseteq DOMAIN names
        BY <1>8
      <4> QED BY <4>2, <4>3
    <3> QED BY <1>3, <3>1, <3>2
  <2>2. \A a \in Given(call) : Cardinality(Targets(params, a)) = 1
    BY <2>1, FS_Singleton
  <2>3. ASSUME NEW a \in Given(call), NEW b \in Given(call), a # b,
               NEW i \in Targets(params, a) \cap Targets(params, b)
        PROVE  FALSE
    <3>1. i \in DOMAIN names
      BY <1>8
    <3>2. \A c \in Given(call) : i \in Targets(params, c) =>
              \/ c = At(i - 1) /\ i <= n
              \/ c = Named(names[i]) /\ names[i] \in keywords
      <4> SUFFICES ASSUME NEW c \in Given(call), i \in Targets(params, c)
                   PROVE  \/ c = At(i - 1) /\ i <= n
                          \/ c = Named(names[i]) /\ names[i] \in keywords
        OBVIOUS
      <4>1. ASSUME NEW k \in Nat, c = At(k), k < n PROVE c = At(i - 1) /\ i <= n
        <5>1. i = k + 1
          BY <3>1, <4>1, <1>8
        <5>2. k = i - 1
          BY <4>1, <5>1
        <5> QED BY <4>1, <5>1, <5>2
      <4>2. ASSUME NEW m \in keywords, c = Named(m) PROVE c = Named(names[i]) /\ names[i] \in keywords
        BY <3>1, <4>2, <1>8
      <4> QED BY <1>3, <4>1, <4>2
    <3>3. ~(i <= n /\ names[i] \in keywords)
      <4>1. SUFFICES ASSUME i <= n, names[i] \in keywords PROVE FALSE
        OBVIOUS
      <4>2. PICK j \in left : names[i] = names[j]
        BY <1>7, <4>1
      <4>3. j = i /\ j > n
        BY <1>5, <3>1, <4>2
      <4> QED BY <1>4, <3>1, <4>1, <4>3
    <3> QED BY <2>3, <3>2, <3>3
  <2>4. ASSUME NEW i \in DOMAIN names
        PROVE  \E a \in Given(call) : i \in Targets(params, a)
    <3>1. CASE i <= n
      <4>1. i - 1 \in Nat /\ i - 1 < n /\ i = (i - 1) + 1
        BY <1>4, <3>1
      <4> QED BY <1>2, <4>1, <1>8
    <3>2. CASE i > n
      <4>1. names[i] \in keywords
        BY <1>7, <3>2
      <4> QED BY <1>2, <4>1, <1>8
    <3> QED BY <1>4, <3>1, <3>2
  <2> QED BY <1>4, <2>2, <2>3, <2>4 DEF Legal
<1> QED BY <1>6, <1>7 DEF call, params

\* What becomes of the arguments by position and by name.
LEMMA ArgumentsAreCollected ==
    ASSUME NEW args, args \in Seq(ToSet(args))
    PROVE  /\ IntoArgs(args).r = "ok" <=> \A i \in DOMAIN args : args[i].r = "ok"
           /\ IntoArgs(args).r = "ok" => IntoArgs(args).v = [i \in DOMAIN args |-> args[i].v]
<1>1. DOMAIN args \subseteq Nat
  OBVIOUS
<1> QED BY <1>1, CollectFacts DEF IntoArgs

LEMMA KeywordsAreCollected ==
    ASSUME NEW kwargs, kwargs \in Seq(ToSet(kwargs)),
           \A i \in DOMAIN kwargs : IsResult(kwargs[i][2])
    PROVE  /\ IntoKwargs(kwargs).r = "ok" <=> \A i \in DOMAIN kwargs : kwargs[i][2].r = "ok"
           /\ IntoKwargs(kwargs).r = "ok" =>
                  IntoKwargs(kwargs).v = [i \in DOMAIN kwargs |-> <<kwargs[i][1], kwargs[i][2].v>>]
<1> DEFINE pair(i) == <<kwargs[i][1], kwargs[i][2].v>>
           results == [i \in DOMAIN kwargs |-> Then(kwargs[i][2], LAMBDA v : <<kwargs[i][1], v>>)]
<1>1. IntoKwargs(kwargs) = Collect(results)
  BY DEF IntoKwargs
<1>a. DOMAIN results = DOMAIN kwargs
  BY Zenon
<1>b. DOMAIN kwargs \subseteq Nat
  <2> HIDE DEF results, pair
  <2> QED OBVIOUS
<1>2. DOMAIN results = DOMAIN kwargs /\ DOMAIN kwargs \subseteq Nat
  BY <1>a, <1>b, Zenon
<1>3. ASSUME NEW i \in DOMAIN kwargs
      PROVE  /\ results[i] = IF kwargs[i][2].r = "ok" THEN Ok(pair(i)) ELSE kwargs[i][2]
  BY DEF Then
<1>4. \A i \in DOMAIN kwargs : Ok(pair(i)).r = "ok" /\ Ok(pair(i)).v = pair(i)
  BY DEF Ok
<1> HIDE DEF pair, results
<1>5. \A i \in DOMAIN kwargs : /\ results[i].r = "ok" <=> kwargs[i][2].r = "ok"
                               /\ results[i].r = "ok" => results[i].v = pair(i)
  BY <1>3, <1>4
<1>6. /\ (\A i \in DOMAIN results : results[i].r = "ok") =>
             Collect(results).r = "ok"
             /\ Collect(results).v = [i \in DOMAIN results |-> results[i].v]
      /\ (\E i \in DOMAIN results : results[i].r # "ok") => Collect(results).r # "ok"
  BY <1>2, CollectFacts
<1>7. Collect(results).r = "ok" <=> \A i \in DOMAIN kwargs : kwargs[i][2].r = "ok"
  BY <1>2, <1>5, <1>6
<1>8. ASSUME Collect(results).r = "ok"
      PROVE  Collect(results).v = [i \in DOMAIN kwargs |-> pair(i)]
  BY <1>2, <1>5, <1>6, <1>8
<1> QED BY <1>1, <1>7, <1>8 DEF pair

\* Of the arguments of one name the last counts.
LEMMA LastOfAName ==
    ASSUME NEW kwargs, kwargs \in Seq(ToSet(kwargs))
    PROVE  /\ DOMAIN NamedArguments(kwargs) = {kwargs[i][1] : i \in DOMAIN kwargs}
           /\ \A name \in DOMAIN NamedArguments(kwargs) :
                  \E m \in DOMAIN kwargs :
                      /\ kwargs[m][1] = name /\ NamedArguments(kwargs)[name] = kwargs[m][2]
                      /\ \A k \in DOMAIN kwargs : kwargs[k][1] = name => k <= m
<1> DEFINE names == {kwargs[i][1] : i \in DOMAIN kwargs}
<1>1. {kw[1] : kw \in ToSet(kwargs)} = names
  BY DEF ToSet
<1>2. NamedArguments(kwargs) = [name \in names |-> kwargs[Max({i \in DOMAIN kwargs : kwargs[i][1] = name})][2]]
  BY <1>1, Zenon DEF NamedArguments
<1>3. ASSUME NEW name \in names
      PROVE  \E m \in DOMAIN kwargs :
                 /\ kwargs[m][1] = name /\ NamedArguments(kwargs)[name] = kwargs[m][2]
                 /\ \A k \in DOMAIN kwargs : kwargs[k][1] = name => k <= m
  <2> DEFINE S == {i \in DOMAIN kwargs : kwargs[i][1] = name}
  <2>1. Len(kwargs) \in Nat /\ DOMAIN kwargs = 1..Len(kwargs)
    OBVIOUS
  <2>2. S \subseteq 0..Len(kwargs)
    BY <2>1
  <2>3. S # {}
    OBVIOUS
  <2>4. Max(S) \in S /\ \A j \in S : j <= Max(S)
    <3> HIDE DEF S
    <3> QED BY <2>1, <2>2, <2>3, MaxFacts
  <2>5. NamedArguments(kwargs)[name] = kwargs[Max(S)][2]
    BY <1>2
  <2> QED BY <2>4, <2>5
<1> QED BY <1>2, <1>3

\* What GuestBinds and Python's rule have to say of one call.
CalledLikePython(object, held, args, kwargs, result) ==
    LET names == object.params
        params == [i \in DOMAIN names |-> Param("value", names[i], FALSE)]
        call == [positional |-> Len(args), keywords |-> {kw[1] : kw \in ToSet(kwargs)}]
    IN /\ result.r = "ok" <=>
              /\ held.r = "ok" /\ object.is \in {"class", "function"}
              /\ \A a \in ToSet(args) \cup {kw[2] : kw \in ToSet(kwargs)} : a.r = "ok"
              /\ Legal(call, params)
       /\ result.r = "ok" =>
              \A i \in DOMAIN params :
                  \/ i \in DOMAIN args /\ args[i].v = result.v[i]
                  \/ \E j \in DOMAIN kwargs :
                         /\ kwargs[j] = <<names[i], Ok(result.v[i])>>
                         /\ \A k \in DOMAIN kwargs : kwargs[k][1] = names[i] => k <= j

\* The parameters that are left when n arguments went by position.
LEMMA RestOf ==
    ASSUME NEW params \in Seq(STRING), NEW n \in Nat, n <= Len(params)
    PROVE  /\ SubSeq(params, n + 1, Len(params)) \in Seq(STRING)
           /\ DOMAIN SubSeq(params, n + 1, Len(params)) = 1..(Len(params) - n)
           /\ \A i \in 1..(Len(params) - n) : SubSeq(params, n + 1, Len(params))[i] = params[n + i]
           /\ ToSet(SubSeq(params, n + 1, Len(params))) = {params[i] : i \in {j \in DOMAIN params : j > n}}
<1> DEFINE rest == SubSeq(params, n + 1, Len(params))
<1>1. rest \in Seq(STRING) /\ DOMAIN rest = 1..(Len(params) - n)
      /\ \A i \in 1..(Len(params) - n) : rest[i] = params[n + i]
  OBVIOUS
<1> HIDE DEF rest
<1>2. ASSUME NEW j \in DOMAIN params, j > n PROVE params[j] \in ToSet(rest)
  <2>1. j - n \in 1..(Len(params) - n) /\ n + (j - n) = j
    BY <1>2
  <2>2. rest[j - n] = params[j]
    BY <1>1, <2>1
  <2> QED BY <1>1, <2>1, <2>2 DEF ToSet
<1>3. ASSUME NEW i \in 1..(Len(params) - n)
      PROVE  rest[i] \in {params[k] : k \in {j \in DOMAIN params : j > n}}
  <2>1. n + i \in DOMAIN params /\ n + i > n
    OBVIOUS
  <2> QED BY <1>1, <2>1
<1>4. ToSet(rest) = {params[i] : i \in {j \in DOMAIN params : j > n}}
  BY <1>1, <1>2, <1>3 DEF ToSet
<1> QED BY <1>1, <1>4 DEF rest

\* A function that is called with arguments that converted.
BindsTo(object, args, named, result) ==
    /\ result.r = "ok" <=>
           /\ object.is \in {"class", "function"}
           /\ Len(args) <= Len(object.params)
           /\ DOMAIN named = {object.params[i] : i \in {j \in DOMAIN object.params : j > Len(args)}}
    /\ result.r = "ok" =>
           \A i \in DOMAIN object.params :
               result.v[i] = IF i <= Len(args) THEN args[i] ELSE named[object.params[i]]

LEMMA CallingFacts ==
    ASSUME NEW objects, NEW f, objects[f].params \in Seq(STRING),
           NEW args, args \in Seq(ToSet(args)), NEW named
    PROVE  BindsTo(objects[f], args, named, Calling(objects, f, args, named))
<1> DEFINE params == objects[f].params
           n == Len(args)
           rest == SubSeq(params, n + 1, Len(params))
           tail == [i \in DOMAIN rest |-> named[rest[i]]]
           fits == /\ objects[f].is \in {"class", "function"}
                   /\ n <= Len(params) /\ ToSet(rest) = DOMAIN named
<1>1. Calling(objects, f, args, named) = IF fits THEN Ok(args \o tail) ELSE GuestError
  BY DEF Calling
<1>2. n \in Nat
  OBVIOUS
<1>3. fits <=> /\ objects[f].is \in {"class", "function"} /\ n <= Len(params)
               /\ DOMAIN named = {params[i] : i \in {j \in DOMAIN params : j > n}}
  <2> HIDE DEF n
  <2> QED BY <1>2, RestOf
<1>4. GuestError.r # "ok" /\ \A v : Ok(v).r = "ok" /\ Ok(v).v = v
  BY DEF GuestError, Ok
<1>5. ASSUME fits, NEW i \in DOMAIN params
      PROVE  (args \o tail)[i] = IF i <= n THEN args[i] ELSE named[params[i]]
  <2> DEFINE m == Len(params) - n
             joined == args \o tail
  <2>1. DOMAIN rest = 1..m /\ m \in Nat /\ \A j \in 1..m : rest[j] = params[n + j]
    <3> HIDE DEF n
    <3> QED BY <1>2, <1>5, RestOf
  <2>2. DOMAIN tail = 1..m /\ tail \in Seq({named[x] : x \in ToSet(rest)})
    BY <2>1 DEF ToSet
  <2>3. \A j \in 1..m : tail[j] = named[params[n + j]]
    BY <2>1
  <2> HIDE DEF tail, rest
  <2>4. \A j \in 1..n : joined[j] = args[j]
    BY <2>2
  <2>5. \A j \in 1..m : joined[n + j] = tail[j]
    BY <2>1, <2>2
  <2> HIDE DEF joined
  <2>6. i \in Nat /\ i >= 1 /\ i <= Len(params)
    OBVIOUS
  <2>7. joined[i] = IF i <= n THEN args[i] ELSE named[params[i]]
    <3>1. CASE i <= n
      BY <1>2, <2>4, <2>6, <3>1
    <3>2. CASE i > n
      <4>1. i - n \in 1..m /\ n + (i - n) = i
        BY <1>2, <2>6, <3>2
      <4>2. joined[n + (i - n)] = tail[i - n] /\ tail[i - n] = named[params[n + (i - n)]]
        BY <2>3, <2>5, <4>1
      <4>3. joined[i] = named[params[i]]
        <5> HIDE DEF n, params, m
        <5> QED BY <4>1, <4>2
      <4> QED BY <1>2, <2>6, <3>2, <4>3
    <3> QED BY <1>2, <2>6, <3>1, <3>2
  <2> QED BY <2>7 DEF joined
<1> HIDE DEF fits, tail
<1>6. Calling(objects, f, args, named).r = "ok" <=> fits
  BY <1>1, <1>4
<1>7. fits => Calling(objects, f, args, named).v = args \o tail
  BY <1>1, <1>4
<1> QED BY <1>3, <1>5, <1>6, <1>7 DEF BindsTo

\* What comes of a call with such arguments.
CallIs(object, args, kwargs, result) ==
    /\ result.r = "ok" <=>
           /\ object.is \in {"class", "function"}
           /\ \A i \in DOMAIN args : args[i].r = "ok"
           /\ \A i \in DOMAIN kwargs : kwargs[i][2].r = "ok"
           /\ Len(args) <= Len(object.params)
           /\ {kwargs[i][1] : i \in DOMAIN kwargs} =
                  {object.params[i] : i \in {j \in DOMAIN object.params : j > Len(args)}}
    /\ result.r = "ok" =>
           \A i \in DOMAIN object.params :
               \/ i \in DOMAIN args /\ args[i].v = result.v[i]
               \/ \E m \in DOMAIN kwargs :
                      /\ kwargs[m][1] = object.params[i] /\ kwargs[m][2].v = result.v[i]
                      /\ \A k \in DOMAIN kwargs : kwargs[k][1] = object.params[i] => k <= m

LEMMA CallWithFacts ==
    ASSUME NEW objects, NEW f, objects[f].params \in Seq(STRING),
           NEW args, NEW kwargs, Written(args, kwargs)
    PROVE  CallIs(objects[f], args, kwargs, CallWith(objects, f, args, kwargs))
<1> DEFINE names == objects[f].params
           result == CallWith(objects, f, args, kwargs)
           keywords == {kwargs[i][1] : i \in DOMAIN kwargs}
           given == IntoArgs(args)
           byName == IntoKwargs(kwargs)
           called == Calling(objects, f, given.v, NamedArguments(byName.v))
<1>1. result = IF byName.r # "ok" THEN byName ELSE IF given.r # "ok" THEN given ELSE called
  BY DEF CallWith
<1>a. /\ args \in Seq(ToSet(args)) /\ kwargs \in Seq(ToSet(kwargs))
      /\ \A i \in DOMAIN kwargs : IsResult(kwargs[i][2])
  BY DEF Written
<1>2. /\ given.r = "ok" <=> \A i \in DOMAIN args : args[i].r = "ok"
      /\ given.r = "ok" => given.v = [i \in DOMAIN args |-> args[i].v]
  BY <1>a, ArgumentsAreCollected
<1>3. /\ byName.r = "ok" <=> \A i \in DOMAIN kwargs : kwargs[i][2].r = "ok"
      /\ byName.r = "ok" => byName.v = [i \in DOMAIN kwargs |-> <<kwargs[i][1], kwargs[i][2].v>>]
  BY <1>a, KeywordsAreCollected
<1> HIDE DEF result, given, byName
<1>4. CASE byName.r # "ok" \/ given.r # "ok"
  <2>1. result.r # "ok"
    BY <1>1, <1>4
  <2> QED BY <1>2, <1>3, <1>4, <2>1 DEF result, CallIs
<1>5. CASE byName.r = "ok" /\ given.r = "ok"
  <2>1. given.v \in Seq(ToSet(given.v)) /\ Len(given.v) = Len(args)
        /\ DOMAIN given.v = DOMAIN args /\ \A i \in DOMAIN args : given.v[i] = args[i].v
    <3>1. Len(args) \in Nat /\ DOMAIN args = 1..Len(args)
      BY <1>a
    <3>2. given.v = [i \in DOMAIN args |-> args[i].v]
      BY <1>2, <1>5
    <3>3. given.v = [i \in 1..Len(args) |-> args[i].v]
      BY <3>1, <3>2, Zenon
    <3>4. given.v \in Seq(ToSet(given.v))
      BY <3>1, <3>3 DEF ToSet
    <3> QED BY <3>1, <3>3, <3>4
  <2>2. byName.v \in Seq(ToSet(byName.v))
    <3>1. Len(kwargs) \in Nat /\ DOMAIN kwargs = 1..Len(kwargs)
      BY <1>a
    <3>2. byName.v = [i \in DOMAIN kwargs |-> <<kwargs[i][1], kwargs[i][2].v>>]
      BY <1>3, <1>5
    <3>3. byName.v = [i \in 1..Len(kwargs) |-> <<kwargs[i][1], kwargs[i][2].v>>]
      BY <3>1, <3>2, Zenon
    <3> QED BY <3>1, <3>3 DEF ToSet
  <2>3. /\ DOMAIN NamedArguments(byName.v) = keywords
        /\ \A name \in keywords :
               \E m \in DOMAIN kwargs :
                   /\ kwargs[m][1] = name /\ NamedArguments(byName.v)[name] = kwargs[m][2].v
                   /\ \A k \in DOMAIN kwargs : kwargs[k][1] = name => k <= m
    <3>1. \A i \in DOMAIN kwargs : byName.v[i][1] = kwargs[i][1] /\ byName.v[i][2] = kwargs[i][2].v
      BY <1>3, <1>5
    <3>2. {byName.v[i][1] : i \in DOMAIN byName.v} = keywords
      BY <1>3, <1>5, <3>1
    <3>3. /\ DOMAIN NamedArguments(byName.v) = keywords
          /\ \A name \in keywords :
                 \E m \in DOMAIN byName.v :
                     /\ byName.v[m][1] = name /\ NamedArguments(byName.v)[name] = byName.v[m][2]
                     /\ \A k \in DOMAIN byName.v : byName.v[k][1] = name => k <= m
      <4> HIDE DEF keywords
      <4>1. /\ DOMAIN NamedArguments(byName.v) = {byName.v[i][1] : i \in DOMAIN byName.v}
            /\ \A name \in DOMAIN NamedArguments(byName.v) :
                  \E m \in DOMAIN byName.v :
                      /\ byName.v[m][1] = name /\ NamedArguments(byName.v)[name] = byName.v[m][2]
                      /\ \A k \in DOMAIN byName.v : byName.v[k][1] = name => k <= m
        BY <2>2, LastOfAName
      <4> QED BY <3>2, <4>1, Zenon
    <3> HIDE DEF keywords
    <3> QED BY <1>3, <1>5, <3>1, <3>3
  <2>4. result = called
    BY <1>1, <1>5
  <2>5. /\ called.r = "ok" <=>
               /\ objects[f].is \in {"class", "function"}
               /\ Len(args) <= Len(names)
               /\ keywords = {names[i] : i \in {j \in DOMAIN names : j > Len(args)}}
        /\ called.r = "ok" =>
               \A i \in DOMAIN names :
                   called.v[i] = IF i <= Len(args) THEN given.v[i] ELSE NamedArguments(byName.v)[names[i]]
    <3> DEFINE named == NamedArguments(byName.v)
               values == given.v
    <3>1. values \in Seq(ToSet(values)) /\ Len(values) = Len(args) /\ DOMAIN named = keywords
      BY <2>1, <2>3
    <3> HIDE DEF keywords, named, values
    <3>2. BindsTo(objects[f], values, named, Calling(objects, f, values, named))
      BY <3>1, CallingFacts
    <3> QED BY <3>1, <3>2 DEF named, values, BindsTo
  <2> HIDE DEF called, keywords, names
  <2>6. ASSUME result.r = "ok", NEW i \in DOMAIN names
        PROVE  \/ i \in DOMAIN args /\ args[i].v = result.v[i]
               \/ \E m \in DOMAIN kwargs :
                      /\ kwargs[m][1] = names[i] /\ kwargs[m][2].v = result.v[i]
                      /\ \A k \in DOMAIN kwargs : kwargs[k][1] = names[i] => k <= m
    <3>1. i \in Nat /\ i >= 1 /\ Len(args) \in Nat /\ DOMAIN args = 1..Len(args)
      BY <1>a DEF names
    <3>2. CASE i <= Len(args)
      <4>1. i \in DOMAIN args
        BY <3>1, <3>2
      <4> QED BY <2>1, <2>4, <2>5, <2>6, <3>2, <4>1
    <3>3. CASE i > Len(args)
      <4>1. names[i] \in keywords
        BY <2>4, <2>5, <2>6, <3>3
      <4>2. result.v[i] = NamedArguments(byName.v)[names[i]]
        BY <2>4, <2>5, <2>6, <3>1, <3>3
      <4> QED BY <2>3, <4>1, <4>2
    <3> QED BY <3>1, <3>2, <3>3
  <2>7. result.r = "ok" <=>
            /\ objects[f].is \in {"class", "function"}
            /\ \A i \in DOMAIN args : args[i].r = "ok"
            /\ \A i \in DOMAIN kwargs : kwargs[i][2].r = "ok"
            /\ Len(args) <= Len(names)
            /\ keywords = {names[i] : i \in {j \in DOMAIN names : j > Len(args)}}
    BY <1>2, <1>3, <1>5, <2>4, <2>5
  <2> QED BY <2>6, <2>7 DEF result, keywords, names, CallIs
<1> QED BY <1>4, <1>5

LEMMA HostCallBinds ==
    ASSUME NEW objects, NEW f, objects[f].params \in Seq(STRING), IsInjective(objects[f].params),
           NEW args, NEW kwargs, Written(args, kwargs), NEW held, NEW result,
           result = IF held.r # "ok" THEN held ELSE CallWith(objects, f, args, kwargs)
    PROVE  CalledLikePython(objects[f], held, args, kwargs, result)
<1> DEFINE names == objects[f].params
           keywords == {kwargs[i][1] : i \in DOMAIN kwargs}
           legal == Legal([positional |-> Len(args), keywords |-> {kw[1] : kw \in ToSet(kwargs)}],
                          [i \in DOMAIN names |-> Param("value", names[i], FALSE)])
           places == \A i \in DOMAIN names :
                         \/ i \in DOMAIN args /\ args[i].v = result.v[i]
                         \/ \E j \in DOMAIN kwargs :
                                /\ kwargs[j] = <<names[i], Ok(result.v[i])>>
                                /\ \A k \in DOMAIN kwargs : kwargs[k][1] = names[i] => k <= j
           convert == \A a \in ToSet(args) \cup {kw[2] : kw \in ToSet(kwargs)} : a.r = "ok"
<1>a. Len(args) \in Nat
  BY DEF Written
<1>1. legal <=> Len(args) <= Len(names)
                /\ keywords = {names[i] : i \in {j \in DOMAIN names : j > Len(args)}}
  <2>1. {kw[1] : kw \in ToSet(kwargs)} = keywords
    BY DEF ToSet
  <2>2. legal <=> Legal(CallOf(Len(args), keywords), PlainParams(names))
    BY <2>1, Zenon DEF CallOf, PlainParams
  <2> HIDE DEF legal, keywords
  <2> QED BY <1>a, <2>2, PlainLegal
<1>2. convert <=> /\ \A i \in DOMAIN args : args[i].r = "ok"
                  /\ \A i \in DOMAIN kwargs : kwargs[i][2].r = "ok"
  BY DEF ToSet
<1> HIDE DEF legal, convert
<1>3. result.r = "ok" <=> held.r = "ok" /\ objects[f].is \in {"class", "function"} /\ convert /\ legal
  <2>1. CallIs(objects[f], args, kwargs, CallWith(objects, f, args, kwargs))
    BY CallWithFacts
  <2>2. CASE held.r # "ok"
    BY <2>2
  <2>3. CASE held.r = "ok"
    <3>1. result = CallWith(objects, f, args, kwargs)
      BY <2>3
    <3>2. CallIs(objects[f], args, kwargs, result)
      BY <2>1, <3>1, Zenon
    <3> HIDE DEF keywords
    <3> QED BY <1>1, <1>2, <2>3, <3>2 DEF CallIs, keywords
  <2> QED BY <2>2, <2>3
<1>4. ASSUME result.r = "ok" PROVE places
  <2>1. result = CallWith(objects, f, args, kwargs)
    BY <1>3, <1>4
  <2>2. \A i \in DOMAIN names :
            \/ i \in DOMAIN args /\ args[i].v = result.v[i]
            \/ \E m \in DOMAIN kwargs :
                   /\ kwargs[m][1] = names[i] /\ kwargs[m][2].v = result.v[i]
                   /\ \A k \in DOMAIN kwargs : kwargs[k][1] = names[i] => k <= m
    <3>1. CallIs(objects[f], args, kwargs, result)
      BY <2>1, CallWithFacts, Zenon
    <3> QED BY <1>4, <3>1 DEF CallIs
  <2>3. ASSUME NEW m \in DOMAIN kwargs PROVE kwargs[m] = <<kwargs[m][1], Ok(kwargs[m][2].v)>>
    <3>1. kwargs[m] = <<kwargs[m][1], kwargs[m][2]>> /\ IsResult(kwargs[m][2])
      BY DEF Written
    <3>2. kwargs[m][2].r = "ok"
      BY <1>2, <1>3, <1>4
    <3>3. kwargs[m][2] = Ok(kwargs[m][2].v)
      BY <3>1, <3>2 DEF IsResult, Conversion, GuestError
    <3> QED BY <3>1, <3>3
  <2> QED BY <2>2, <2>3
<1>5. DOMAIN [i \in DOMAIN names |-> Param("value", names[i], FALSE)] = DOMAIN names
  BY Zenon
<1> QED BY <1>3, <1>4, <1>5, Zenon DEF CalledLikePython, legal, convert

\* Whatever the signature and the call, of the guest's or of the host's, it goes through when
\* Python would take it, and each argument is then in its place (marshal/args.rs and
\* macros host/callable.rs; handle/traits.rs, call_with).
THEOREM CallsAreLikePython == InterfacesSpec => []CallsLikePython
<1>1. InterfacesInit => CallsLikePython
  <2>1. InterfacesInit => case.kind = "none"
    BY DEF InterfacesInit
  <2> QED BY <2>1 DEF CallsLikePython, GuestCallsLikePython, HostCallsLikePython
<1>2. ASSUME CallsLikePython, [InterfacesNext]_case PROVE CallsLikePython'
  <2>0. CASE UNCHANGED case
    BY <1>2, <2>0 DEF CallsLikePython, GuestCallsLikePython, HostCallsLikePython
  <2>1. ASSUME case'.kind \notin {"call", "host_call"} PROVE CallsLikePython'
    BY <2>1 DEF CallsLikePython, GuestCallsLikePython, HostCallsLikePython
  <2>2. CASE Call
    <3>1. PICK params \in ParameterLists, call \in Calls :
              Parses(params) /\ case' = [kind |-> "call", params |-> params, call |-> call,
                                         bound |-> Bind(call, params)]
      BY <2>2 DEF Call, Chosen
    <3>2. BoundLikePython(call, params, Bind(call, params))
      BY <3>1, BindsLikePython, ParametersAssumption
    <3> DEFINE bound == Bind(call, params)
    <3> HIDE DEF bound
    <3>3. /\ case'.kind = "call" /\ case'.params = params /\ case'.call = call
          /\ case'.bound = bound
      BY <3>1 DEF bound
    <3>4. GuestCallsLikePython'
      BY <3>2, <3>3 DEF GuestCallsLikePython, BoundLikePython, bound
    <3> QED BY <3>3, <3>4 DEF CallsLikePython, HostCallsLikePython
  <2>3. CASE CallGuest
    <3>1. PICK heap \in CalledHeaps, args \in HostArguments, kwargs \in HostKeywords :
              \E o \in DOMAIN heap, type \in HandleTypes :
                  case' = [kind |-> "host_call", heap |-> heap, object |-> o,
                           held |-> Held(type, heap, o), args |-> args, kwargs |-> kwargs,
                           result |-> IF Held(type, heap, o).r # "ok" THEN Held(type, heap, o)
                                      ELSE IF type = "class" THEN Construct(heap, o, args, kwargs)
                                      ELSE CallWith(heap, o, args, kwargs)]
      BY <2>3, Zenon DEF CallGuest, Chosen
    <3>2. PICK o \in DOMAIN heap, type \in HandleTypes :
              case' = [kind |-> "host_call", heap |-> heap, object |-> o,
                       held |-> Held(type, heap, o), args |-> args, kwargs |-> kwargs,
                       result |-> IF Held(type, heap, o).r # "ok" THEN Held(type, heap, o)
                                  ELSE IF type = "class" THEN Construct(heap, o, args, kwargs)
                                  ELSE CallWith(heap, o, args, kwargs)]
      BY <3>1
    <3> DEFINE held == Held(type, heap, o)
               result == IF held.r # "ok" THEN held ELSE CallWith(heap, o, args, kwargs)
               object == heap[o]
    <3>3. /\ heap[o].params \in Seq(STRING) /\ IsInjective(heap[o].params)
          /\ Written(args, kwargs)
      BY HostCallsAssumption
    <3>4. CalledLikePython(heap[o], held, args, kwargs, result)
      <4> HIDE DEF held
      <4> QED BY <3>3, HostCallBinds
    <3> HIDE DEF held
    <3>5. case' = [kind |-> "host_call", heap |-> heap, object |-> o, held |-> held,
                   args |-> args, kwargs |-> kwargs, result |-> result]
      BY <3>2, Zenon DEF held, Construct
    <3> HIDE DEF result
    <3>6. /\ case'.kind = "host_call" /\ case'.heap[case'.object] = heap[o] /\ case'.held = held
          /\ case'.args = args /\ case'.kwargs = kwargs /\ case'.result = result
      BY <3>5
    <3>7. CalledLikePython(case'.heap[case'.object], case'.held, case'.args, case'.kwargs, case'.result)
      BY <3>4, <3>6, Zenon
    <3>8. HostCallsLikePython'
      BY <3>7, Zenon DEF HostCallsLikePython, CalledLikePython
    <3> QED BY <3>6, <3>8 DEF CallsLikePython, GuestCallsLikePython
  <2>4. CASE InterfacesNext /\ ~Call /\ ~CallGuest
    <3>1. case'.kind \notin {"call", "host_call"}
      BY <2>4, RaisesOnly DEF InterfacesNext, Expand, ExpandItem, ReadBundle, DeclareMembers, Reflect,
                  UseFacade, BuildGuest, Chosen
    <3> QED BY <2>1, <3>1
  <2> QED BY <1>2, <2>0, <2>2, <2>3, <2>4
<1> QED BY <1>1, <1>2, PTL DEF InterfacesSpec

-----------------------------------------------------------------------------
(* The code that the macros generate.                                      *)

LEMMA ArityFacts ==
    ASSUME NEW params \in Seq(Parameters)
    PROVE  /\ Arity(params) = 0 => \A i \in DOMAIN params : ~ConsumesArg(params[i])
<1> DEFINE S == {i \in DOMAIN params : ConsumesArg(params[i])}
<1>1. IsFiniteSet(DOMAIN params)
  BY FS_Interval
<1>2. IsFiniteSet(S)
  BY <1>1, FS_Subset
<1>3. Cardinality(S) = 0 => S = {}
  BY <1>2, FS_EmptySet
<1> QED BY <1>3 DEF Arity

\* What a member that is let through can have.
Lets(role, f) ==
    /\ role \notin {"none", "constant", "rejected"}
    /\ role \in WithoutThis => ~UsesThis(f.params)
    /\ role \in {"constructor", "class_method", "static_method", "statics"} => f.receiver = "none"
    /\ role \in ModuleRoles => f.receiver # "exclusive"
    /\ role \in {"get", "delete", "getter"} => Arity(f.params) = 0
    /\ role = "set" => \A i \in DOMAIN f.params : ~NonPlainValue(f.params[i])

LEMMA ClassMemberLets ==
    ASSUME NEW f \in Functions(ClassRoles, Seq(Parameters)), ClassMember(f) # "rejected"
    PROVE  ClassMember(f) \in ClassRoles /\ Lets(ClassMember(f), f)
<1> DEFINE g == IF f.role = "none" /\ f.dunder THEN [f EXCEPT !.role = "method"] ELSE f
<1>1. ClassMember(f) = g.role
      /\ ((f.role = "statics" /\ f.receiver = "none")
          \/ (f.role # "statics" /\ Parses(f.params) /\ ~f.asynchronous /\ Fits(g)))
  <2> DEFINE lets == /\ ~(f.dunder /\ f.name)
                     /\ f.dunder => g.role \in {"method", "async_method"}
                     /\ \/ f.role = "statics" /\ f.receiver = "none"
                        \/ f.role # "statics" /\ Parses(f.params) /\ ~f.asynchronous /\ Fits(g)
  <2>1. ClassMember(f) = IF lets THEN g.role ELSE "rejected"
    BY Zenon DEF ClassMember
  <2> HIDE DEF g, lets
  <2>2. lets /\ ClassMember(f) = g.role
    BY <2>1
  <2> QED BY <2>2, Zenon DEF lets
<1>2. g.params = f.params /\ g.receiver = f.receiver /\ g.role \in ClassRoles
  BY DEF Functions, ClassRoles
<1>3. CASE f.role = "statics"
  BY <1>1, <1>2, <1>3 DEF Lets, WithoutThis, ModuleRoles
<1>4. CASE f.role # "statics"
  <2>1. g.role # "statics"
    BY <1>4
  <2>2. Fits(g)
    BY <1>1, <1>4
  <2> HIDE DEF g
  <2> QED BY <1>1, <1>2, <2>1, <2>2 DEF Lets, WithoutThis, ModuleRoles, ClassRoles, Fits, SetsPlainly
<1> QED BY <1>3, <1>4

LEMMA ModuleMemberLets ==
    ASSUME NEW f \in Functions(ModuleRoles, Seq(Parameters)), ModuleMember(f) # "rejected"
    PROVE  ModuleMember(f) \in ModuleRoles /\ Lets(ModuleMember(f), f)
<1>1. ModuleMember(f) = f.role /\ f.role \in {"init", "object", "function", "getter"}
      /\ (f.role \in {"init", "object"} => f.receiver # "exclusive")
      /\ (f.role \in {"function", "getter"} => Fits(f))
  BY DEF ModuleMember
<1> QED BY <1>1 DEF Lets, WithoutThis, ModuleRoles, Fits

LEMMA LetsIsClosed ==
    ASSUME NEW role \in ClassRoles \cup ModuleRoles, NEW f,
           f.params \in Seq(Parameters), f.receiver \in {"none", "shared", "exclusive"}, Lets(role, f)
    PROVE  Body(role, f) \subseteq Binds(role, f)
<1> DEFINE expressions == UNION {Expression(role, f.params[i]) : i \in DOMAIN f.params}
           receiver == (IF f.receiver = "none" THEN {}
                        ELSE IF role \in ModuleRoles THEN {"state", "enter"} ELSE {"receiver"})
<1>1. CASE role = "statics"
  BY <1>1 DEF Body, Binds, Lets
<1>2. CASE role = "object"
  BY <1>2 DEF Body, Binds, Lets
<1>3. CASE role = "init"
  BY <1>3 DEF Body, Binds, Lets, ModuleRoles
<1>4. CASE role \notin {"statics", "object", "init"}
  <2>1. Body(role, f) = expressions \cup (IF UsesContext(f.params) THEN {"enter"} ELSE {}) \cup receiver
    BY <1>4 DEF Body
  <2>2. UsesEnter(f.params) => "enter" \in Binds(role, f)
    BY <1>4 DEF Binds
  <2>3. UsesContext(f.params) => "enter" \in Binds(role, f) /\ "context" \in Binds(role, f)
    BY <2>2 DEF Binds, UsesEnter
  <2>4. UsesArgs(f.params) /\ role \notin Accessors => "args" \in Binds(role, f)
    BY DEF Binds
  <2>5. role \in {"method", "async_method", "class_method", "get", "delete", "set"}
            => "receiver" \in Binds(role, f)
    BY DEF Binds
  <2>6. role = "set" => "value" \in Binds(role, f)
    BY DEF Binds
  <2>7. receiver \subseteq Binds(role, f)
    <3>1. CASE role \in ModuleRoles /\ f.receiver # "none"
      <4>1. f.receiver = "shared"
        BY <3>1 DEF Lets
      <4> QED BY <3>1, <4>1 DEF Binds
    <3>2. CASE role \notin ModuleRoles /\ f.receiver # "none"
      BY <1>4, <2>5, <3>2 DEF Lets, ClassRoles, ModuleRoles
    <3> QED BY <3>1, <3>2
  <2>8. ASSUME NEW i \in DOMAIN f.params PROVE Expression(role, f.params[i]) \subseteq Binds(role, f)
    <3> DEFINE p == f.params[i]
    <3>2. CASE p.role = "enter"
      <4>1. Expression(role, p) = {"enter"} /\ UsesEnter(f.params)
        BY <3>2 DEF Expression, ConsumesArg, UsesEnter, Uses
      <4> QED BY <2>2, <4>1
    <3>3. CASE p.role = "this"
      <4>1. Expression(role, p) = {"receiver"} /\ UsesThis(f.params)
        BY <3>3 DEF Expression, ConsumesArg, UsesThis, Uses
      <4>2. role \notin WithoutThis
        BY <4>1 DEF Lets
      <4> QED BY <1>4, <2>5, <4>1, <4>2 DEF Lets, WithoutThis, ClassRoles, ModuleRoles
    <3>4. CASE p.role = "context"
      <4>1. Expression(role, p) = {"context"} /\ UsesContext(f.params)
        BY <3>4 DEF Expression, ConsumesArg, UsesContext, Uses
      <4> QED BY <2>3, <4>1
    <3>5. CASE p.role \notin {"enter", "this", "context"}
      <4>1. ConsumesArg(p) /\ UsesArgs(f.params) /\ UsesEnter(f.params)
        BY <3>5 DEF ConsumesArg, UsesArgs, UsesEnter
      <4>2. CASE role \notin Accessors
        <5>1. Expression(role, p) = {"args", "enter"}
          BY <3>5, <4>1, <4>2 DEF Expression
        <5> QED BY <2>2, <2>4, <4>1, <4>2, <5>1
      <4>3. CASE role \in Accessors
        <5>1. role = "set"
          BY <4>1, <4>3, ArityFacts DEF Accessors, Lets
        <5>2. p.role = "value"
          BY <4>1, <5>1 DEF Lets, NonPlainValue
        <5>3. Expression(role, p) = {"value"}
          BY <3>5, <4>3, <5>2 DEF Expression
        <5> QED BY <2>6, <5>1, <5>3
      <4> QED BY <4>2, <4>3
    <3> QED BY <3>2, <3>3, <3>4, <3>5
  <2> QED BY <2>1, <2>3, <2>7, <2>8
<1> QED BY <1>1, <1>2, <1>3, <1>4

LEMMA ImpliesItself ==
    ASSUME NEW bounds, NEW t \in bounds, t \in DOMAIN Supertraits
    PROVE  t \in Implied(bounds)
<1>1. t \in Supertraits[t]
  BY DEF Supertraits
<1> QED BY <1>1 DEF Implied

LEMMA ImpliedGrows ==
    ASSUME NEW few, NEW many, few \subseteq many
    PROVE  Implied(few) \subseteq Implied(many)
BY DEF Implied

LEMMA AskedIs ==
    ASSUME NEW name, NEW predicates
    PROVE  \A t : t \in Asked(name, predicates) <=> \E w \in predicates : w.on = name /\ w.bound = t
BY DEF Asked

LEMMA BackendIs ==
    ASSUME NEW backend, NEW k, NEW name, backend = [k |-> k, name |-> name]
    PROVE  backend.k = k /\ backend.name = name
OBVIOUS

LEMMA WantsIs ==
    ASSUME NEW name, NEW bounds, NEW t \in bounds, NEW others
    PROVE  t \in Asked(name, others \cup Wants(name, bounds))
<1> DEFINE w == [on |-> name, bound |-> t]
<1>1. w \in others \cup Wants(name, bounds)
  BY DEF Wants
<1>2. w.on = name /\ w.bound = t
  OBVIOUS
<1> HIDE DEF w
<1> QED BY <1>1, <1>2, AskedIs

\* What resolve makes of the backend, of the names that are declared.
LEMMA BackendNames ==
    ASSUME NEW item, WellFormed(item), ResolveBackend(item).k # "rejected"
    PROVE  LET backend == ResolveBackend(item)
           IN \/ backend.k = "declared" /\ backend.name \in NamesOf(item)
              \/ /\ backend.k = "introduced" /\ item.option.k = "named"
                 /\ backend.name = item.option.name /\ backend.name \notin NamesOf(item)
              \/ backend.k = "concrete" /\ backend.name = "_" /\ item.option.k = "pin"
              \/ /\ backend.k = "synthesized" /\ item.option.k # "named"
                 /\ backend.name \notin NamesOf(item)
<1>1. CASE item.option.k = "named" /\ Declares(item, item.option.name)
  <2>1. ResolveBackend(item) = [k |-> "declared", name |-> item.option.name]
    BY <1>1 DEF ResolveBackend
  <2> QED BY <1>1, <2>1 DEF Declares
<1>2. CASE item.option.k = "named" /\ ~Declares(item, item.option.name)
  <2>1. ResolveBackend(item) = [k |-> "introduced", name |-> item.option.name]
    BY <1>2 DEF ResolveBackend
  <2> QED BY <1>2, <2>1 DEF Declares
<1>3. CASE item.option.k = "pin"
  <2>1. ResolveBackend(item) = [k |-> "concrete", name |-> "_"]
    BY <1>3 DEF ResolveBackend
  <2>2. ResolveBackend(item).k = "concrete" /\ ResolveBackend(item).name = "_"
    BY <2>1, BackendIs
  <2> QED BY <1>3, <2>2
<1>4. CASE item.option.k = "none" /\ BoundedInline(item)
  <2>1. ResolveBackend(item) = [k |-> "rejected", name |-> "_"]
    BY <1>4 DEF ResolveBackend
  <2>2. ResolveBackend(item).k = "rejected"
    BY <2>1, BackendIs
  <2> QED BY <2>2
<1>5. CASE item.option.k \notin {"named", "pin"} /\ ~(item.option.k = "none" /\ BoundedInline(item))
  <2>1. ResolveBackend(item) =
            [k |-> "synthesized", name |-> IF Declares(item, "B") THEN "__GuestpyBackend" ELSE "B"]
    BY <1>5 DEF ResolveBackend
  <2>2. /\ ResolveBackend(item).k = "synthesized"
        /\ ResolveBackend(item).name = IF Declares(item, "B") THEN "__GuestpyBackend" ELSE "B"
    BY <2>1, BackendIs
  <2>3. ResolveBackend(item).name \notin NamesOf(item)
    BY <2>2 DEF Declares, WellFormed
  <2> QED BY <1>5, <2>2, <2>3
<1> QED BY <1>1, <1>2, <1>3, <1>4, <1>5

LEMMA DefineIs ==
    ASSUME NEW item, Define(item).ok
    PROVE  LET backend == ResolveBackend(item)
               bounds == Capabilities(item) \cup Absorbed(item, backend)
               made == Define(item)
           IN /\ AcceptsItem(item)
              /\ made.backend = backend /\ made.adds = Adds(backend)
              /\ made.bounds = IF backend.k = "concrete" THEN {} ELSE bounds
              /\ \A i \in DOMAIN item.functions :
                     made.functions[i] = IF i \in Exported(item)
                                         THEN Rewritten(item.functions[i], backend, bounds)
                                         ELSE item.functions[i]
BY DEF Define

\* What is left of an exported function.
LEMMA RewrittenIs ==
    ASSUME NEW f \in ItemFunctions, NEW backend, NEW bounds
    PROVE  /\ Rewritten(f, backend, bounds).own =
                  IF backend.k = "introduced" THEN Append(f.own, backend.name) ELSE f.own
           /\ Rewritten(f, backend, bounds).wheres =
                  {w \in f.wheres : backend.k = "concrete" \/ w.on # backend.name}
                      \cup (IF backend.k = "introduced" THEN Wants(backend.name, bounds) ELSE {})
<1> DEFINE left == {w \in f.wheres : backend.k = "concrete" \/ w.on # backend.name}
           kept == [f EXCEPT !.wheres = {w \in @ : backend.k = "concrete" \/ w.on # backend.name}]
<1>1. kept.wheres = left /\ kept.own = f.own
      /\ kept = [f EXCEPT !.wheres = left]
  BY DEF ItemFunctions
<1>2. kept \in [role: STRING, receiver: STRING, signature: STRING, own: Seq(Idents),
                wheres: SUBSET Predicates, borrows: BOOLEAN]
  BY DEF ItemFunctions
<1>3. Rewritten(f, backend, bounds) =
          IF backend.k = "introduced" THEN Injected(kept, backend, bounds) ELSE kept
  BY DEF Rewritten
<1> HIDE DEF kept
<1>4. /\ Injected(kept, backend, bounds).own = Append(kept.own, backend.name)
      /\ Injected(kept, backend, bounds).wheres = kept.wheres \cup Wants(backend.name, bounds)
  BY <1>2 DEF Injected
<1> QED BY <1>1, <1>3, <1>4

LEMMA AppendToNone ==
    ASSUME NEW x
    PROVE  Append(<<>>, x) = <<x>>
OBVIOUS

\* A definition that fits: what is known of it in every case.
LEMMA FittingFacts ==
    ASSUME NEW item, WellFormed(item), Define(item).ok, ~Misfit(item, Define(item)),
           NEW i \in DOMAIN item.functions
    PROVE  LET backend == ResolveBackend(item)
               f == item.functions[i]
           IN /\ f \in ItemFunctions
              /\ IsInjective(f.own) /\ ToSet(f.own) \cap NamesOf(item) = {}
              /\ i \in Exported(item) /\ backend.k = "introduced" => f.own = <<>>
              /\ \A w \in f.wheres :
                     /\ w.bound \in DOMAIN Supertraits /\ w.on # "_"
                     /\ i \in Exported(item) /\ w.on = backend.name => backend.k # "synthesized"
              /\ i \in Exported(item) /\ backend.k = "declared" =>
                     Asked(backend.name, f.wheres) \subseteq Implied(Asked(backend.name, ImplWheres(item)))
<1> DEFINE backend == ResolveBackend(item)
           f == item.functions[i]
           made == Define(item)
<1>1. made.backend = backend /\ AcceptsItem(item)
  BY DefineIs
<1>2. backend.k # "rejected"
  BY <1>1 DEF AcceptsItem
<1>3. f \in ItemFunctions
  <2>1. item.functions \in Seq(ItemFunctions)
    BY DEF WellFormed
  <2> QED BY <2>1
<1>4. f.own \in Seq(Idents) /\ f.wheres \subseteq Predicates
  BY <1>3 DEF ItemFunctions
<1>5. IsInjective(f.own) /\ ToSet(f.own) \cap NamesOf(item) = {}
  BY DEF WellFormed
<1>6. ASSUME i \in Exported(item)
      PROVE  ~(f.own # <<>> /\ (backend.k = "introduced" \/ \E w \in f.wheres : w.on \in ToSet(f.own)))
  BY <1>1, <1>6 DEF Misfit
<1>7. ASSUME i \in Exported(item), backend.k = "declared"
      PROVE  Asked(backend.name, f.wheres) \subseteq Implied(Asked(backend.name, ImplWheres(item)))
  BY <1>1, <1>7 DEF Misfit
<1>8. ASSUME NEW w \in f.wheres
      PROVE  /\ w.bound \in DOMAIN Supertraits /\ w.on # "_"
             /\ i \in Exported(item) /\ w.on = backend.name => backend.k # "synthesized"
  <2>1. w \in Predicates
    BY <1>4
  <2>2. w.bound \in DOMAIN Supertraits /\ w.on # "_"
    BY <2>1 DEF Predicates, Idents
  <2>3. SUFFICES ASSUME i \in Exported(item), w.on = backend.name, backend.k = "synthesized"
                 PROVE  FALSE
    BY <2>2
  <2>4. item.option.k # "named" /\ backend.name \notin NamesOf(item)
    BY <1>2, <2>3, BackendNames
  <2>5. w.on \in NamesOf(item) \cup ToSet(f.own)
                \cup (IF item.option.k = "named" THEN {item.option.name} ELSE {})
    BY DEF WellFormed
  <2>6. w.on \in ToSet(f.own)
    BY <2>3, <2>4, <2>5
  <2>7. f.own # <<>>
    BY <2>6 DEF ToSet
  <2> QED BY <1>6, <2>3, <2>6, <2>7
<1> QED BY <1>3, <1>5, <1>6, <1>7, <1>8

LEMMA DeclaresOnce ==
    ASSUME NEW item, WellFormed(item), Define(item).ok, ~Misfit(item, Define(item))
    PROVE  DeclaredOnce(item, Define(item))
<1> DEFINE backend == ResolveBackend(item)
           bounds == Capabilities(item) \cup Absorbed(item, backend)
           made == Define(item)
<1>1. made.backend = backend /\ AcceptsItem(item) /\ made.adds = Adds(backend)
  BY DefineIs
<1>2. backend.k # "rejected"
  BY <1>1 DEF AcceptsItem
<1>3. \/ backend.k \in {"declared", "concrete"}
      \/ backend.k \in {"introduced", "synthesized"} /\ backend.name \notin NamesOf(item)
  BY <1>2, BackendNames
<1>4. NamesOf(item) \cap ToSet(made.adds) = {}
  BY <1>1, <1>3 DEF Adds, ToSet
<1>5. ASSUME NEW i \in Exported(item)
      PROVE  /\ NamesOf(item) \cap ToSet(made.functions[i].own) = {}
             /\ IsInjective(made.functions[i].own)
             /\ Invokes(backend, made.functions[i])
  <2> DEFINE f == item.functions[i]
  <2>1. i \in DOMAIN item.functions
    BY DEF Exported
  <2>2. f \in ItemFunctions /\ IsInjective(f.own) /\ ToSet(f.own) \cap NamesOf(item) = {}
        /\ (backend.k = "introduced" => f.own = <<>>)
    BY <2>1, FittingFacts
  <2>3. made.functions[i] = Rewritten(f, backend, bounds)
    BY <2>1, DefineIs
  <2>4. made.functions[i].own = IF backend.k = "introduced" THEN Append(f.own, backend.name) ELSE f.own
    BY <2>2, <2>3, RewrittenIs
  <2>5. CASE backend.k = "introduced"
    <3>1. made.functions[i].own = <<backend.name>>
      BY <2>2, <2>4, <2>5, AppendToNone
    <3>2. backend.name \notin NamesOf(item)
      BY <1>3, <2>5
    <3>3. IsInjective(made.functions[i].own)
      BY <3>1 DEF IsInjective
    <3>4. ToSet(made.functions[i].own) = {backend.name}
      BY <3>1 DEF ToSet
    <3> QED BY <2>5, <3>1, <3>2, <3>3, <3>4 DEF Invokes, Turbofish
  <2>6. CASE backend.k # "introduced"
    BY <2>2, <2>4, <2>6 DEF Invokes, Turbofish
  <2> QED BY <2>5, <2>6
<1> QED BY <1>1, <1>4, <1>5 DEF DeclaredOnce

LEMMA BoundsStay ==
    ASSUME NEW item, WellFormed(item), Define(item).ok, ~Misfit(item, Define(item))
    PROVE  BoundsInForce(item, Define(item))
<1> DEFINE backend == ResolveBackend(item)
           bounds == Capabilities(item) \cup Absorbed(item, backend)
           made == Define(item)
<1>1. made.backend = backend /\ AcceptsItem(item)
      /\ made.bounds = IF backend.k = "concrete" THEN {} ELSE bounds
  BY DefineIs
<1>2. backend.k # "rejected"
  BY <1>1 DEF AcceptsItem
<1>3. ASSUME NEW i \in DOMAIN item.functions, NEW w \in item.functions[i].wheres
      PROVE  /\ w.bound \in Implied(Asked(w.on, made.functions[i].wheres \cup ImplWheres(item)))
             /\ i \in Exported(item) /\ w.on = backend.name => w.bound \in Implied(InScope(item, made))
  <2> DEFINE f == item.functions[i]
             asked == Asked(w.on, made.functions[i].wheres \cup ImplWheres(item))
  <2>1. w.bound \in DOMAIN Supertraits /\ f \in ItemFunctions
    BY <1>3, FittingFacts
  <2>2. ASSUME w \in made.functions[i].wheres PROVE w.bound \in Implied(asked)
    <3>1. w.bound \in asked
      BY <2>2, AskedIs
    <3> QED BY <2>1, <3>1, ImpliesItself
  <2>3. ASSUME i \notin Exported(item) PROVE w.bound \in Implied(asked)
    <3>1. made.functions[i] = f
      BY <2>3, DefineIs
    <3> QED BY <2>2, <3>1
  <2>4. ASSUME i \in Exported(item), w.on = backend.name, backend.k # "concrete"
        PROVE  w.bound \in bounds
    <3>1. w.bound \in Asked(backend.name, f.wheres)
      BY <2>4, AskedIs
    <3>2. w.bound \in Absorbed(item, backend)
      BY <2>4, <3>1 DEF Absorbed
    <3> QED BY <3>2
  <2>5. ASSUME i \in Exported(item) PROVE w.bound \in Implied(asked)
    <3>1. made.functions[i] = Rewritten(f, backend, bounds)
      BY <2>5, DefineIs
    <3>2. made.functions[i].wheres =
              {v \in f.wheres : backend.k = "concrete" \/ v.on # backend.name}
                  \cup (IF backend.k = "introduced" THEN Wants(backend.name, bounds) ELSE {})
      BY <2>1, <3>1, RewrittenIs
    <3>3. CASE backend.k = "concrete" \/ w.on # backend.name
      <4>1. w \in made.functions[i].wheres
        BY <3>2, <3>3
      <4> QED BY <2>2, <4>1
    <3>4. CASE backend.k = "introduced" /\ w.on = backend.name
      <4>1. w.bound \in bounds
        BY <2>4, <2>5, <3>4
      <4>2. Wants(backend.name, bounds) \subseteq made.functions[i].wheres
        BY <3>2, <3>4
      <4>3. w.bound \in asked
        <5>1. w.bound \in Asked(backend.name, {} \cup Wants(backend.name, bounds))
          BY <4>1, WantsIs
        <5> QED BY <3>4, <4>2, <5>1, AskedIs
      <4> QED BY <2>1, <4>3, ImpliesItself
    <3>5. CASE backend.k = "declared" /\ w.on = backend.name
      <4>1. w.bound \in Asked(backend.name, f.wheres)
        BY <3>5, AskedIs
      <4>2. w.bound \in Implied(Asked(backend.name, ImplWheres(item)))
        BY <2>5, <3>5, <4>1, FittingFacts
      <4>3. Asked(backend.name, ImplWheres(item)) \subseteq asked
        BY <3>5, AskedIs
      <4> QED BY <4>2, <4>3, ImpliedGrows
    <3>6. backend.k # "synthesized" \/ w.on # backend.name
      BY <1>3, <2>5, FittingFacts
    <3>7. backend.k \in {"declared", "introduced", "concrete", "synthesized"}
      BY <1>2, BackendNames
    <3> QED BY <3>3, <3>4, <3>5, <3>6, <3>7
  <2>6. ASSUME i \in Exported(item), w.on = backend.name
        PROVE  w.bound \in Implied(InScope(item, made))
    <3>1. backend.k # "concrete"
      BY <1>2, <1>3, <2>6, BackendNames, FittingFacts
    <3>2. w.bound \in made.bounds
      BY <1>1, <2>4, <2>6, <3>1
    <3> QED BY <2>1, <3>2, ImpliesItself DEF InScope
  <2> QED BY <2>3, <2>5, <2>6
<1> QED BY <1>1, <1>3 DEF BoundsInForce

LEMMA CapabilitiesSuffice ==
    ASSUME NEW item, WellFormed(item), item.kind \in {"class", "module"},
           Define(item).ok, ~Misfit(item, Define(item))
    PROVE  Needs(item) \subseteq Capabilities(item)
<1> DEFINE made == Define(item)
<1>1. item.kind = "class" => ~item.classes /\ ~item.exceptions
  BY DEF WellFormed
<1>2. item.kind = "module" => item.bases = {}
  BY DEF WellFormed
<1>3. "async" \in item.bases => HasAsync(item)
  BY DEF Misfit
<1>4. ASSUME NEW i \in Exported(item)
      PROVE  FunctionNeeds(item.functions[i]) \subseteq Capabilities(item)
  <2>1. item.functions[i].role \in Async => HasAsync(item)
    BY DEF HasAsync
  <2>2. item.kind = "module" /\ item.functions[i].borrows => item.classes
    BY DEF Misfit
  <2> QED BY <2>1, <2>2 DEF FunctionNeeds, Capabilities, ClassCapabilities, ModuleCapabilities
<1>5. BuilderNeeds(item) \subseteq Capabilities(item)
  BY <1>1 DEF BuilderNeeds, NewNeeds, ExceptionNeeds, ClassNeeds, Capabilities, ClassCapabilities,
              ModuleCapabilities
<1>6. BaseNeeds(item) \subseteq Capabilities(item)
  <2>1. CASE item.kind = "module"
    BY <1>2, <2>1 DEF BaseNeeds
  <2>2. CASE item.kind = "class"
    <3>1. \A base \in item.bases : ClassCapabilities(base = "async") \subseteq Capabilities(item)
      BY <1>3, <2>2 DEF ClassCapabilities, Capabilities
    <3> QED BY <3>1 DEF BaseNeeds
  <2> QED BY <2>1, <2>2
<1> QED BY <1>4, <1>5, <1>6 DEF Needs

LEMMA NeedsAreMet ==
    ASSUME NEW item, WellFormed(item), item.kind \in {"class", "module"},
           Define(item).ok, ~Misfit(item, Define(item)), Define(item).backend.k # "concrete"
    PROVE  Needs(item) \subseteq Implied(InScope(item, Define(item)))
<1>1. Capabilities(item) \subseteq InScope(item, Define(item))
  BY DefineIs DEF InScope
<1>2. Capabilities(item) \subseteq DOMAIN Supertraits
  BY DEF Capabilities, ClassCapabilities, ModuleCapabilities, Supertraits
<1> QED BY <1>1, <1>2, CapabilitiesSuffice, ImpliesItself

\* Whatever function and whatever impl the macros let through, the code that they generate for
\* it uses only what it binds and has the bounds that it needs (guestpy-macros, host/class.rs,
\* host/module.rs, host/backend.rs and host/callable.rs).
THEOREM CodeCompiles == InterfacesSpec => []GeneratedCodeCompiles
<1>1. InterfacesInit => GeneratedCodeCompiles
  <2>1. InterfacesInit => case.kind = "none"
    BY DEF InterfacesInit
  <2> QED BY <2>1 DEF GeneratedCodeCompiles, ClosedCode, DefinitionsCompile
<1>2. ASSUME GeneratedCodeCompiles, [InterfacesNext]_case PROVE GeneratedCodeCompiles'
  <2>0. CASE UNCHANGED case
    BY <1>2, <2>0 DEF GeneratedCodeCompiles, ClosedCode, DefinitionsCompile
  <2>1. ASSUME case'.kind \notin {"member", "definition"} PROVE GeneratedCodeCompiles'
    BY <2>1 DEF GeneratedCodeCompiles, ClosedCode, DefinitionsCompile
  <2>2. CASE Expand
    <3>1. PICK f, role :
              /\ case' = [kind |-> "member", function |-> f, role |-> role]
              /\ \/ f \in ClassFunctions /\ role = ClassMember(f)
                 \/ f \in ModuleFunctions /\ role = ModuleMember(f)
      BY <2>2, Zenon DEF Expand, Chosen
    <3>2. case'.kind = "member" /\ case'.function = f /\ case'.role = role
      BY <3>1
    <3>3. ASSUME role # "rejected" PROVE Body(role, f) \subseteq Binds(role, f)
      <4>1. role \in ClassRoles \cup ModuleRoles /\ Lets(role, f)
        BY <3>1, <3>3, ClassMemberLets, ModuleMemberLets, FunctionsAssumption
      <4>2. f.params \in Seq(Parameters) /\ f.receiver \in {"none", "shared", "exclusive"}
        BY <3>1, FunctionsAssumption DEF Functions
      <4> QED BY <4>1, <4>2, LetsIsClosed
    <3> QED BY <3>2, <3>3 DEF GeneratedCodeCompiles, ClosedCode, DefinitionsCompile
  <2>3. CASE ExpandItem
    <3>1. PICK kind \in {"class", "module"} : \E item \in Impls(kind) :
              case' = [kind |-> "definition", item |-> item, made |-> Define(item)]
      BY <2>3 DEF ExpandItem, Chosen
    <3>2. PICK item \in Impls(kind) :
              case' = [kind |-> "definition", item |-> item, made |-> Define(item)]
      BY <3>1
    <3>3. WellFormed(item) /\ item.kind \in {"class", "module"}
      BY ImplsAssumption
    <3> DEFINE made == Define(item)
    <3>4. ASSUME made.ok, ~Misfit(item, made)
          PROVE  /\ DeclaredOnce(item, made) /\ BoundsInForce(item, made)
                 /\ made.backend.k # "concrete" => Needs(item) \subseteq Implied(InScope(item, made))
      BY <3>3, <3>4, DeclaresOnce, BoundsStay, NeedsAreMet
    <3> HIDE DEF made
    <3>5. case'.kind = "definition" /\ case'.item = item /\ case'.made = made
      BY <3>2 DEF made
    <3> QED BY <3>4, <3>5 DEF GeneratedCodeCompiles, ClosedCode, DefinitionsCompile
  <2>4. CASE InterfacesNext /\ ~Expand /\ ~ExpandItem
    <3>1. case'.kind \notin {"member", "definition"}
      BY <2>4, RaisesOnly DEF InterfacesNext, Call, ReadBundle, DeclareMembers, Reflect, CallGuest,
                  UseFacade, BuildGuest, Chosen
    <3> QED BY <2>1, <3>1
  <2> QED BY <1>2, <2>0, <2>2, <2>3, <2>4
<1> QED BY <1>1, <1>2, PTL DEF InterfacesSpec

-----------------------------------------------------------------------------
(* What a guest is built of.                                               *)

\* The elements of S up to i.
UpTo(S, i) == {j \in S : j <= i}

LEMMA UpToFacts ==
    ASSUME NEW n \in Nat, NEW S, S \subseteq 1..n
    PROVE  /\ IsFiniteSet(S) /\ Cardinality(S) \in Nat
           /\ \A i : IsFiniteSet(UpTo(S, i)) /\ Cardinality(UpTo(S, i)) \in Nat
                     /\ Cardinality(UpTo(S, i)) <= Cardinality(S)
           /\ \A i, j \in S : i < j => Cardinality(UpTo(S, i)) < Cardinality(UpTo(S, j))
<1>1. IsFiniteSet(1..n)
  BY FS_Interval
<1>2. IsFiniteSet(S) /\ Cardinality(S) \in Nat
  BY <1>1, FS_Subset, FS_CardinalityType
<1>3. ASSUME NEW i
      PROVE  IsFiniteSet(UpTo(S, i)) /\ Cardinality(UpTo(S, i)) \in Nat
             /\ Cardinality(UpTo(S, i)) <= Cardinality(S)
  <2>1. UpTo(S, i) \subseteq S
    BY DEF UpTo
  <2> QED BY <1>2, <2>1, FS_Subset, FS_CardinalityType
<1>4. ASSUME NEW i \in S, NEW j \in S, i < j
      PROVE  Cardinality(UpTo(S, i)) < Cardinality(UpTo(S, j))
  <2>1. \A l \in S : l \in Nat
    OBVIOUS
  <2>a. \A l \in UpTo(S, i) : l \in S /\ l <= j
    BY <1>4, <2>1 DEF UpTo
  <2>b. j \notin UpTo(S, i)
    BY <1>4, <2>1 DEF UpTo
  <2>c. j \in UpTo(S, j)
    BY <2>1 DEF UpTo
  <2>d. UpTo(S, i) \subseteq UpTo(S, j)
    BY <2>a DEF UpTo
  <2>2. j \notin UpTo(S, i) /\ UpTo(S, i) \cup {j} \subseteq UpTo(S, j)
    BY <2>b, <2>c, <2>d
  <2>3. Cardinality(UpTo(S, i) \cup {j}) = Cardinality(UpTo(S, i)) + 1
    BY <1>3, <2>2, FS_AddElement
  <2>4. Cardinality(UpTo(S, i) \cup {j}) <= Cardinality(UpTo(S, j))
    BY <1>3, <2>2, FS_Subset
  <2> QED BY <1>3, <2>3, <2>4
<1> QED BY <1>2, <1>3, <1>4

\* Every place up to the cardinality of a set of positions is that of one of them.
LEMMA HasNth ==
    ASSUME NEW n \in Nat, NEW S, S \subseteq 1..n, NEW k \in 1..Cardinality(S)
    PROVE  \E i \in S : Cardinality(UpTo(S, i)) = k
<1> DEFINE rank(i) == Cardinality(UpTo(S, i))
           enough == {i \in S : rank(i) >= k}
<1>a. \A i \in S : i \in Nat /\ i <= n
  OBVIOUS
<1>b. S \subseteq 0..n /\ S \subseteq Nat
  BY <1>a
<1>c. Cardinality(S) \in Nat
  BY UpToFacts
<1>1. S \subseteq 0..n /\ S \subseteq Nat /\ Cardinality(S) \in Nat /\ k \in Nat /\ k >= 1
  BY <1>b, <1>c
<1>2. S # {}
  <2>1. SUFFICES ASSUME S = {} PROVE FALSE
    OBVIOUS
  <2>2. Cardinality(S) = 0
    BY <2>1, FS_EmptySet
  <2> QED BY <1>1, <2>2
<1>3. Max(S) \in S /\ \A j \in S : j <= Max(S)
  BY <1>1, <1>2, MaxFacts
<1>4. UpTo(S, Max(S)) = S
  BY <1>3 DEF UpTo
<1>5. Max(S) \in enough
  BY <1>1, <1>3, <1>4
<1>6. enough \subseteq Nat /\ enough # {}
  BY <1>1, <1>5
<1>7. PICK i \in enough : \A j \in enough : i <= j
  <2> HIDE DEF enough
  <2> QED BY <1>6, HasLeast
<1>8. i \in S /\ i \in Nat /\ rank(i) \in Nat /\ rank(i) >= k
  BY <1>1, <1>7, UpToFacts
<1>9. SUFFICES ASSUME rank(i) > k PROVE FALSE
  BY <1>1, <1>8
<1> DEFINE before == {j \in S : j < i}
<1>d. \A j \in S : (j <= i <=> j < i \/ j = i) /\ ~(i < i)
  BY <1>a, <1>8
<1>e. UpTo(S, i) = before \cup {i}
  BY <1>8, <1>d DEF UpTo
<1>10. before \subseteq 0..n /\ i \notin before /\ UpTo(S, i) = before \cup {i}
  BY <1>b, <1>d, <1>e
<1>11. IsFiniteSet(before) /\ Cardinality(before) \in Nat
  <2>1. before \subseteq S /\ IsFiniteSet(S)
    BY UpToFacts
  <2> QED BY <2>1, FS_Subset, FS_CardinalityType
<1>12. rank(i) = Cardinality(before) + 1
  <2> HIDE DEF before
  <2> QED BY <1>10, <1>11, FS_AddElement
<1>13. Cardinality(before) >= k
  BY <1>1, <1>8, <1>9, <1>11, <1>12
<1>14. before # {}
  <2>1. SUFFICES ASSUME before = {} PROVE FALSE
    OBVIOUS
  <2>2. Cardinality(before) = 0
    BY <2>1, FS_EmptySet, Zenon
  <2> HIDE DEF before
  <2> QED BY <1>1, <1>13, <2>2
<1>15. Max(before) \in before /\ \A j \in before : j <= Max(before)
  <2> HIDE DEF before
  <2> QED BY <1>10, <1>14, MaxFacts
<1>16. UpTo(S, Max(before)) = before
  <2>1. Max(before) \in S /\ Max(before) < i
    BY <1>15
  <2>a. Max(before) \in Nat
    BY <1>a, <2>1
  <2>2. \A j \in S : j <= Max(before) => j < i
    <3> HIDE DEF before
    <3> QED BY <1>a, <1>8, <2>1, <2>a
  <2> QED BY <1>15, <2>2 DEF UpTo
<1>17. Max(before) \in S /\ Max(before) < i /\ rank(Max(before)) >= k
  BY <1>13, <1>15, <1>16
<1>18. Max(before) \in enough /\ Max(before) \in Nat
  BY <1>a, <1>17
<1>19. i <= Max(before)
  BY <1>7, <1>18
<1> HIDE DEF before
<1> QED BY <1>8, <1>17, <1>18, <1>19

LEMMA NthFacts ==
    ASSUME NEW n \in Nat, NEW S, S \subseteq 1..n
    PROVE  /\ Cardinality(S) \in Nat
           /\ \A k \in 1..Cardinality(S) : Nth(S, k) \in S
           /\ \A i \in S : \E k \in 1..Cardinality(S) : Nth(S, k) = i
           /\ \A k, l \in 1..Cardinality(S) : k < l => Nth(S, k) < Nth(S, l)
<1> DEFINE rank(i) == Cardinality(UpTo(S, i))
<1>1. /\ Cardinality(S) \in Nat
      /\ \A i : rank(i) \in Nat /\ rank(i) <= Cardinality(S)
      /\ \A i, j \in S : i < j => rank(i) < rank(j)
      /\ \A i \in S : i \in Nat
  <2>1. \A i \in S : i \in Nat
    OBVIOUS
  <2> QED BY <2>1, UpToFacts
<1>2. \A k \in 1..Cardinality(S) : \E i \in S : rank(i) = k
  BY HasNth
<1>3. \A k : Nth(S, k) = CHOOSE i \in S : rank(i) = k
  BY Zenon DEF Nth, UpTo
<1> HIDE DEF rank
<1>4. \A k \in 1..Cardinality(S) : Nth(S, k) \in S /\ rank(Nth(S, k)) = k
  BY <1>2, <1>3
<1>5. ASSUME NEW i \in S PROVE \E k \in 1..Cardinality(S) : Nth(S, k) = i
  <2>1. rank(i) >= 1
    <3>1. i \in UpTo(S, i)
      BY <1>1 DEF UpTo
    <3>2. SUFFICES ASSUME rank(i) = 0 PROVE FALSE
      BY <1>1
    <3>3. IsFiniteSet(UpTo(S, i))
      BY UpToFacts
    <3>4. Cardinality(UpTo(S, i)) = 0
      BY <3>2 DEF rank
    <3>5. UpTo(S, i) = {}
      BY <3>3, <3>4, FS_EmptySet
    <3> QED BY <3>1, <3>5
  <2>2. rank(i) \in 1..Cardinality(S)
    BY <1>1, <2>1
  <2>3. Nth(S, rank(i)) \in S /\ rank(Nth(S, rank(i))) = rank(i)
    BY <1>4, <2>2
  <2> DEFINE a == Nth(S, rank(i))
  <2>4. a \in S /\ rank(a) = rank(i) /\ rank(i) \in Nat /\ a \in Nat /\ i \in Nat
    BY <1>1, <2>3
  <2> HIDE DEF a
  <2>5. ~(i < a) /\ ~(a < i)
    BY <1>1, <2>4
  <2>6. a = i
    BY <2>4, <2>5
  <2> QED BY <2>2, <2>6 DEF a
<1>6. ASSUME NEW k \in 1..Cardinality(S), NEW l \in 1..Cardinality(S), k < l
      PROVE  Nth(S, k) < Nth(S, l)
  <2> DEFINE a == Nth(S, k)
             b == Nth(S, l)
  <2>1. a \in S /\ b \in S /\ rank(a) = k /\ rank(b) = l /\ a \in Nat /\ b \in Nat
    BY <1>1, <1>4
  <2> HIDE DEF a, b
  <2>2. a # b /\ ~(b < a)
    BY <1>1, <1>6, <2>1
  <2>3. a < b
    BY <2>1, <2>2
  <2> QED BY <2>3 DEF a, b
<1> QED BY <1>1, <1>4, <1>5, <1>6

\* What is selected is what was at the positions, in their order.
LEMMA SelectedFacts ==
    ASSUME NEW T, NEW entries \in Seq(T), NEW S, S \subseteq DOMAIN entries
    PROVE  /\ Selected(entries, S) \in Seq(T)
           /\ \A k \in DOMAIN Selected(entries, S) : Nth(S, k) \in S /\ Selected(entries, S)[k] = entries[Nth(S, k)]
           /\ \A i \in S : \E k \in DOMAIN Selected(entries, S) : Selected(entries, S)[k] = entries[i]
           /\ \A k, l \in DOMAIN Selected(entries, S) : k < l => Nth(S, k) < Nth(S, l)
<1>1. Len(entries) \in Nat /\ S \subseteq 1..Len(entries)
  OBVIOUS
<1>2. /\ Cardinality(S) \in Nat
      /\ \A k \in 1..Cardinality(S) : Nth(S, k) \in S
      /\ \A i \in S : \E k \in 1..Cardinality(S) : Nth(S, k) = i
      /\ \A k, l \in 1..Cardinality(S) : k < l => Nth(S, k) < Nth(S, l)
  BY <1>1, NthFacts
<1>3. /\ Selected(entries, S) = [k \in 1..Cardinality(S) |-> entries[Nth(S, k)]]
  BY DEF Selected
<1>4. \A k \in 1..Cardinality(S) : entries[Nth(S, k)] \in T
  BY <1>2
<1>5. Selected(entries, S) \in Seq(T)
  BY <1>2, <1>3, <1>4
<1>6. DOMAIN Selected(entries, S) = 1..Cardinality(S)
  BY <1>3
<1> QED BY <1>2, <1>3, <1>5, <1>6

Sequence(s) == s \in Seq(ToSet(s))

Joins(a, b, c) ==
    /\ Sequence(c) /\ Len(a) \in Nat /\ Len(b) \in Nat
    /\ DOMAIN a = 1..Len(a) /\ DOMAIN b = 1..Len(b) /\ DOMAIN c = 1..(Len(a) + Len(b))
    /\ \A i \in DOMAIN a : i \in DOMAIN c /\ c[i] = a[i]
    /\ \A i \in DOMAIN b : Len(a) + i \in DOMAIN c /\ c[Len(a) + i] = b[i]
    /\ \A i \in DOMAIN c :
           \/ i \in DOMAIN a
           \/ i > Len(a) /\ i - Len(a) \in DOMAIN b /\ c[i] = b[i - Len(a)]

LEMMA Joined ==
    ASSUME NEW a, NEW b, Sequence(a), Sequence(b)
    PROVE  Joins(a, b, a \o b)
<1> DEFINE T == ToSet(a) \cup ToSet(b)
           c == a \o b
<1>1. a \in Seq(T) /\ b \in Seq(T)
  <2>1. a \in Seq(ToSet(a)) /\ b \in Seq(ToSet(b)) /\ ToSet(a) \subseteq T /\ ToSet(b) \subseteq T
    BY DEF Sequence
  <2> HIDE DEF T
  <2> QED BY <2>1
<1>2. Len(a) \in Nat /\ Len(b) \in Nat /\ DOMAIN a = 1..Len(a) /\ DOMAIN b = 1..Len(b)
  <2> HIDE DEF T
  <2> QED BY <1>1
<1>3. c \in Seq(T) /\ Len(c) = Len(a) + Len(b) /\ DOMAIN c = 1..(Len(a) + Len(b))
  <2> HIDE DEF T
  <2> QED BY <1>1
<1>4. \A i \in 1..(Len(a) + Len(b)) : c[i] = IF i <= Len(a) THEN a[i] ELSE b[i - Len(a)]
  <2> HIDE DEF T
  <2> QED BY <1>1
<1> HIDE DEF T, c
<1>5. Sequence(c)
  <2>1. Len(c) \in Nat /\ DOMAIN c = 1..Len(c) /\ c = [i \in 1..Len(c) |-> c[i]]
    BY <1>3
  <2>2. \A i \in 1..Len(c) : c[i] \in ToSet(c)
    BY <2>1 DEF ToSet
  <2> HIDE DEF ToSet
  <2>3. c \in Seq(ToSet(c))
    BY <2>1, <2>2
  <2> QED BY <2>3 DEF Sequence
<1>6. \A i \in DOMAIN a : i \in DOMAIN c /\ c[i] = a[i]
  BY <1>2, <1>3, <1>4
<1>7. ASSUME NEW i \in DOMAIN b PROVE Len(a) + i \in DOMAIN c /\ c[Len(a) + i] = b[i]
  <2>1. Len(a) + i \in 1..(Len(a) + Len(b)) /\ ~(Len(a) + i <= Len(a)) /\ (Len(a) + i) - Len(a) = i
    BY <1>2
  <2> QED BY <1>3, <1>4, <2>1
<1>8. ASSUME NEW i \in DOMAIN c
      PROVE  \/ i \in DOMAIN a
             \/ i > Len(a) /\ i - Len(a) \in DOMAIN b /\ c[i] = b[i - Len(a)]
  <2>1. CASE i <= Len(a)
    BY <1>2, <1>3, <2>1
  <2>2. CASE i > Len(a)
    <3>1. i - Len(a) \in 1..Len(b) /\ i \in 1..(Len(a) + Len(b)) /\ ~(i <= Len(a))
      BY <1>2, <1>3, <2>2
    <3> QED BY <1>2, <1>4, <2>2, <3>1
  <2> QED BY <1>2, <1>3, <2>1, <2>2
<1>9. Joins(a, b, c)
  BY <1>2, <1>3, <1>5, <1>6, <1>7, <1>8, Zenon DEF Joins
<1> QED BY <1>9 DEF c

\* Of the entries of both libraries those of a kind, each with its place.
LEMMA OfKindFacts ==
    ASSUME NEW runtime, NEW guest, Sequence(runtime), Sequence(guest), NEW kind
    PROVE  /\ Sequence(OfKind(runtime, guest, kind))
           /\ \A k \in DOMAIN OfKind(runtime, guest, kind) :
                  /\ OfKind(runtime, guest, kind)[k].is = kind
                  /\ OfKind(runtime, guest, kind)[k] \in ToSet(runtime) \cup ToSet(guest)
           /\ \A x \in ToSet(runtime) \cup ToSet(guest) :
                  x.is = kind => \E k \in DOMAIN OfKind(runtime, guest, kind) : OfKind(runtime, guest, kind)[k] = x
<1> DEFINE entries == runtime \o guest
           S == {i \in DOMAIN entries : entries[i].is = kind}
           T == ToSet(entries)
           chosen == Selected(entries, S)
<1>1. OfKind(runtime, guest, kind) = chosen
  BY DEF OfKind
<1>a. Joins(runtime, guest, entries)
  BY Joined
<1> HIDE DEF entries
<1>2. entries \in Seq(T)
  BY <1>a DEF Sequence, Joins
<1>3. T = ToSet(runtime) \cup ToSet(guest)
  <2>1. ASSUME NEW i \in DOMAIN entries PROVE entries[i] \in ToSet(runtime) \cup ToSet(guest)
    BY <1>a DEF ToSet, Joins
  <2>2. ASSUME NEW i \in DOMAIN runtime PROVE runtime[i] \in T
    BY <1>a DEF ToSet, Joins
  <2>3. ASSUME NEW i \in DOMAIN guest PROVE guest[i] \in T
    BY <1>a DEF ToSet, Joins
  <2> QED BY <2>1, <2>2, <2>3 DEF ToSet
<1>4. /\ chosen \in Seq(T)
      /\ \A k \in DOMAIN chosen : Nth(S, k) \in S /\ chosen[k] = entries[Nth(S, k)]
      /\ \A i \in S : \E k \in DOMAIN chosen : chosen[k] = entries[i]
  <2>1. S \subseteq DOMAIN entries
    OBVIOUS
  <2> HIDE DEF S, T
  <2> QED BY <1>2, <2>1, SelectedFacts
<1> HIDE DEF chosen
<1>5. Sequence(chosen)
  <2>1. Len(chosen) \in Nat /\ DOMAIN chosen = 1..Len(chosen) /\ chosen = [i \in 1..Len(chosen) |-> chosen[i]]
    <3> HIDE DEF T
    <3> QED BY <1>4
  <2>2. \A i \in 1..Len(chosen) : chosen[i] \in ToSet(chosen)
    BY <2>1 DEF ToSet
  <2>3. chosen \in Seq(ToSet(chosen))
    BY <2>1, <2>2
  <2> QED BY <2>3 DEF Sequence
<1>6. ASSUME NEW k \in DOMAIN chosen PROVE chosen[k].is = kind /\ chosen[k] \in T
  BY <1>4 DEF ToSet
<1>7. ASSUME NEW x \in T, x.is = kind PROVE \E k \in DOMAIN chosen : chosen[k] = x
  <2>1. PICK i \in DOMAIN entries : entries[i] = x
    BY DEF ToSet
  <2> QED BY <1>4, <1>7, <2>1
<1> HIDE DEF T
<1> QED BY <1>1, <1>3, <1>5, <1>6, <1>7

\* A module that is validated has the state that its functions and its classes require.
LEMMA ValidatedHas ==
    ASSUME NEW module, Validates(module)
    PROVE  /\ Satisfies(module, module.requires)
           /\ \A c \in LineageOf(module) : Satisfies(module, Requires(c))
BY Zenon DEF Validates

\* A class that requires something and is not owned twice has one module.
LEMMA OwnedOnce ==
    ASSUME NEW modules, Sequence(modules), ~OwnedTwice(modules),
           NEW i \in DOMAIN modules, NEW c \in LineageOf(modules[i]), Requires(c) # {}
    PROVE  Min(ModulesWith(modules, c)) = i
<1> DEFINE S == ModulesWith(modules, c)
<1>1. i \in S /\ S \subseteq DOMAIN modules
  BY DEF ModulesWith
<1>2. DOMAIN modules = 1..Len(modules) /\ Len(modules) \in Nat
  BY DEF Sequence
<1>3. IsFiniteSet(S)
  <2>1. IsFiniteSet(1..Len(modules))
    BY <1>2, FS_Interval
  <2> HIDE DEF S
  <2> QED BY <1>1, <1>2, <2>1, FS_Subset
<1>4. ~(Cardinality(S) > 1)
  <2>1. c \in UNION {LineageOf(modules[j]) : j \in DOMAIN modules}
    OBVIOUS
  <2> QED BY <2>1, Zenon DEF OwnedTwice
<1> HIDE DEF S
<1>5. S = {i}
  <2>1. SUFFICES ASSUME NEW j \in S, j # i PROVE FALSE
    BY <1>1
  <2>2. /\ IsFiniteSet({i}) /\ Cardinality({i}) = 1
    BY FS_Singleton
  <2>3. {i} \cup {j} \subseteq S /\ j \notin {i}
    BY <1>1, <2>1
  <2>4. Cardinality({i} \cup {j}) = 1 + 1
    BY <2>2, <2>3, FS_AddElement
  <2>5. Cardinality({i} \cup {j}) <= Cardinality(S) /\ Cardinality(S) \in Nat
    BY <1>3, <2>3, FS_Subset, FS_CardinalityType
  <2> QED BY <1>4, <2>4, <2>5
<1>6. S \subseteq Nat /\ S # {}
  BY <1>1, <1>2
<1>7. Min(S) \in S
  BY <1>6, MinFacts
<1> QED BY <1>5, <1>7 DEF S

\* What is owned twice has two modules.
LEMMA OwnedTwiceHas ==
    ASSUME NEW modules, Sequence(modules), OwnedTwice(modules)
    PROVE  \E i \in DOMAIN modules : \E c \in LineageOf(modules[i]) :
               /\ Requires(c) # {}
               /\ \E j \in DOMAIN modules \ {i} : c \in LineageOf(modules[j])
<1>1. PICK i \in DOMAIN modules : \E c \in LineageOf(modules[i]) :
          Requires(c) # {} /\ Cardinality(ModulesWith(modules, c)) > 1
  BY Zenon DEF OwnedTwice
<1>2. PICK c \in LineageOf(modules[i]) :
          Requires(c) # {} /\ Cardinality(ModulesWith(modules, c)) > 1
  BY <1>1
<1>3. SUFFICES ASSUME \A j \in DOMAIN modules \ {i} : c \notin LineageOf(modules[j]) PROVE FALSE
  BY <1>2
<1>4. ModulesWith(modules, c) = {i}
  BY <1>3 DEF ModulesWith
<1>5. Cardinality(ModulesWith(modules, c)) = 1
  BY <1>4, FS_Singleton
<1> QED BY <1>2, <1>5

\* What a runtime and a guest are asked, and what they have.
StateFound(bound, admitted) ==
    /\ admitted =>
           /\ \A i \in DOMAIN bound :
                  OwningModule(bound, [is |-> "module", name |-> bound[i].name]) = i =>
                      Satisfies(bound[OwningModule(bound, [is |-> "module", name |-> bound[i].name])], bound[i].requires)
           /\ \A i \in DOMAIN bound : \A c \in LineageOf(bound[i]) :
                  Requires(c) # {} =>
                      /\ OwningModule(bound, [is |-> "class", class |-> c]) = i
                      /\ Satisfies(bound[OwningModule(bound, [is |-> "class", class |-> c])], Requires(c))
    /\ ~admitted =>
           \E i \in DOMAIN bound :
               \/ bound[i].name = "guestpy"
               \/ ~Satisfies(bound[i], bound[i].requires)
               \/ \E c \in LineageOf(bound[i]) :
                      Requires(c) # {} /\ (~Satisfies(bound[i], Requires(c)) \/ \E j \in DOMAIN bound \ {i} : c \in LineageOf(bound[j]))

LEMMA BuiltHasState ==
    ASSUME NEW runtime, NEW guest, Sequence(runtime), Sequence(guest)
    PROVE  StateFound(Modules(runtime, guest),
                      Admits(Modules(runtime, <<>>)) /\ AdmitsGuest(runtime, guest))
<1>0. PICK nothing : nothing = <<>>
  OBVIOUS
<1> DEFINE bound == Modules(runtime, guest)
           alone == Modules(runtime, nothing)
           own == Modules(nothing, guest)
           admitted == Admits(alone) /\ AdmitsGuest(runtime, guest)
<1>a. ToSet(nothing) = {} /\ Sequence(nothing)
  <2>1. ToSet(nothing) = {}
    BY <1>0 DEF ToSet
  <2>2. nothing \in Seq({})
    BY <1>0
  <2> QED BY <2>1, <2>2 DEF Sequence
<1>1. /\ Sequence(bound)
      /\ \A k \in DOMAIN bound : bound[k].is = "module" /\ bound[k] \in ToSet(runtime) \cup ToSet(guest)
      /\ \A x \in ToSet(runtime) \cup ToSet(guest) :
             x.is = "module" => \E k \in DOMAIN bound : bound[k] = x
  BY OfKindFacts DEF Modules
<1>2. /\ \A k \in DOMAIN alone : alone[k].is = "module" /\ alone[k] \in ToSet(runtime)
      /\ \A x \in ToSet(runtime) : x.is = "module" => \E k \in DOMAIN alone : alone[k] = x
  <2>1. /\ \A k \in DOMAIN alone : alone[k].is = "module" /\ alone[k] \in ToSet(runtime) \cup ToSet(nothing)
        /\ \A x \in ToSet(runtime) \cup ToSet(nothing) : x.is = "module" => \E k \in DOMAIN alone : alone[k] = x
    BY <1>a, OfKindFacts DEF Modules
  <2> HIDE DEF alone
  <2> QED BY <1>a, <2>1
<1>3. /\ \A k \in DOMAIN own : own[k].is = "module" /\ own[k] \in ToSet(guest)
      /\ \A x \in ToSet(guest) : x.is = "module" => \E k \in DOMAIN own : own[k] = x
  <2>1. /\ \A k \in DOMAIN own : own[k].is = "module" /\ own[k] \in ToSet(nothing) \cup ToSet(guest)
        /\ \A x \in ToSet(nothing) \cup ToSet(guest) : x.is = "module" => \E k \in DOMAIN own : own[k] = x
    BY <1>a, OfKindFacts DEF Modules
  <2> HIDE DEF own
  <2> QED BY <1>a, <2>1
<1>4. AdmitsGuest(runtime, guest) <=> Admits(own) /\ ~OwnedTwice(bound)
  BY <1>0, Zenon DEF AdmitsGuest
<1> HIDE DEF bound, alone, own
<1>5. ASSUME admitted
      PROVE  /\ \A i \in DOMAIN bound : bound[i].name # "guestpy" /\ Validates(bound[i])
             /\ ~OwnedTwice(bound)
  BY <1>1, <1>2, <1>3, <1>4, <1>5 DEF Admits
<1>6. ASSUME ~admitted
      PROVE  \/ \E i \in DOMAIN bound : bound[i].name = "guestpy" \/ ~Validates(bound[i])
             \/ OwnedTwice(bound)
  BY <1>1, <1>2, <1>3, <1>4, <1>6 DEF Admits
<1>7. ASSUME admitted, NEW i \in DOMAIN bound, NEW c \in LineageOf(bound[i]), Requires(c) # {}
      PROVE  /\ OwningModule(bound, [is |-> "class", class |-> c]) = i
             /\ Satisfies(bound[OwningModule(bound, [is |-> "class", class |-> c])], Requires(c))
  <2>1. OwningModule(bound, [is |-> "class", class |-> c]) = Min(ModulesWith(bound, c))
    BY DEF OwningModule
  <2>2. Min(ModulesWith(bound, c)) = i
    BY <1>1, <1>5, <1>7, OwnedOnce
  <2>3. Satisfies(bound[i], Requires(c))
    BY <1>5, <1>7, ValidatedHas
  <2> QED BY <2>1, <2>2, <2>3
<1>8. ASSUME admitted, NEW i \in DOMAIN bound PROVE Satisfies(bound[i], bound[i].requires)
  BY <1>5, <1>8, ValidatedHas
<1>9. ASSUME ~admitted
      PROVE  \E i \in DOMAIN bound :
                 \/ bound[i].name = "guestpy"
                 \/ ~Satisfies(bound[i], bound[i].requires)
                 \/ \E c \in LineageOf(bound[i]) :
                        Requires(c) # {} /\ (~Satisfies(bound[i], Requires(c))
                                             \/ \E j \in DOMAIN bound \ {i} : c \in LineageOf(bound[j]))
  <2>1. CASE OwnedTwice(bound)
    BY <1>1, <2>1, OwnedTwiceHas
  <2>2. ASSUME NEW i \in DOMAIN bound, ~Validates(bound[i])
        PROVE  \/ ~Satisfies(bound[i], bound[i].requires)
               \/ \E c \in LineageOf(bound[i]) : Requires(c) # {} /\ ~Satisfies(bound[i], Requires(c))
    <3>1. \A c : Requires(c) = {} => Satisfies(bound[i], Requires(c))
      BY DEF Satisfies
    <3> QED BY <2>2, <3>1, Zenon DEF Validates
  <2> QED BY <1>6, <1>9, <2>1, <2>2
<1> HIDE DEF admitted
<1>10. StateFound(bound, admitted)
  BY <1>7, <1>8, <1>9, Zenon DEF StateFound
<1> QED BY <1>0, <1>10, Zenon DEF bound, alone, admitted

LEMMA EntriesInOrder ==
    ASSUME NEW runtime, NEW guest, Sequence(runtime), Sequence(guest),
           NEW i \in DOMAIN Steps(runtime, guest), NEW j \in DOMAIN Steps(runtime, guest), i < j,
           Steps(runtime, guest)[j].is = "module"
    PROVE  Steps(runtime, guest)[i].is = "module"
<1> DEFINE modules == OfKind(runtime, guest, "module")
           first == modules \o OfKind(runtime, guest, "initializer")
           native == OfKind(runtime, guest, "native_initializer")
           entries == first \o native
           S == {k \in DOMAIN entries : entries[k].hook # "none"}
           hooks == Selected(entries, S)
<1>1. Steps(runtime, guest) = hooks
  BY DEF Steps
<1>2. /\ Sequence(modules) /\ Sequence(native) /\ Sequence(OfKind(runtime, guest, "initializer"))
      /\ \A k \in DOMAIN modules : modules[k].is = "module"
      /\ \A k \in DOMAIN native : native[k].is = "native_initializer"
      /\ \A k \in DOMAIN OfKind(runtime, guest, "initializer") :
             OfKind(runtime, guest, "initializer")[k].is = "initializer"
  BY OfKindFacts
<1>3. Joins(modules, OfKind(runtime, guest, "initializer"), first)
  <2> HIDE DEF modules
  <2> QED BY <1>2, Joined
<1>a. Sequence(first)
  BY <1>3 DEF Joins
<1> HIDE DEF modules, first, native
<1>4. Joins(first, native, entries)
  BY <1>2, <1>a, Joined
<1> HIDE DEF entries
<1>5. ASSUME NEW k \in DOMAIN entries
      PROVE  entries[k].is = "module" <=> k <= Len(modules)
  <2>1. k \in Nat /\ Len(modules) \in Nat /\ Len(first) \in Nat /\ Len(modules) <= Len(first)
    BY <1>3, <1>4 DEF Joins
  <2>2. CASE k \in DOMAIN first
    <3>1. entries[k] = first[k]
      BY <1>4, <2>2 DEF Joins
    <3>2. CASE k \in DOMAIN modules
      BY <1>2, <1>3, <3>1, <3>2 DEF Joins
    <3>3. CASE k \notin DOMAIN modules
      <4>1. k > Len(modules) /\ first[k].is = "initializer"
        BY <1>2, <1>3, <2>2, <3>3 DEF Joins
      <4> QED BY <2>1, <3>1, <4>1
    <3> QED BY <3>2, <3>3
  <2>3. CASE k \notin DOMAIN first
    <3>1. k > Len(first) /\ entries[k].is = "native_initializer"
      BY <1>2, <1>4, <2>3 DEF Joins
    <3> QED BY <2>1, <3>1
  <2> QED BY <2>2, <2>3
<1>6. /\ \A k \in DOMAIN hooks : Nth(S, k) \in S /\ hooks[k] = entries[Nth(S, k)]
      /\ \A k, l \in DOMAIN hooks : k < l => Nth(S, k) < Nth(S, l)
  <2>1. entries \in Seq(ToSet(entries)) /\ S \subseteq DOMAIN entries
    BY <1>4 DEF Joins, Sequence
  <2> HIDE DEF S
  <2> QED BY <2>1, SelectedFacts
<1> HIDE DEF hooks
<1>7. i \in DOMAIN hooks /\ j \in DOMAIN hooks /\ hooks[j].is = "module"
  BY <1>1
<1> DEFINE a == Nth(S, i)
           b == Nth(S, j)
<1>8. a \in DOMAIN entries /\ b \in DOMAIN entries /\ a < b
      /\ hooks[i] = entries[a] /\ hooks[j] = entries[b]
  BY <1>6, <1>7
<1> HIDE DEF a, b
<1>9. a \in Nat /\ b \in Nat /\ Len(modules) \in Nat
  BY <1>3, <1>4, <1>8 DEF Joins
<1>10. b <= Len(modules)
  BY <1>5, <1>7, <1>8
<1>11. a <= Len(modules)
  BY <1>8, <1>9, <1>10
<1> QED BY <1>1, <1>5, <1>8, <1>11

LEMMA StepsAreSequence ==
    ASSUME NEW runtime, NEW guest, Sequence(runtime), Sequence(guest)
    PROVE  Sequence(Steps(runtime, guest))
<1> DEFINE first == OfKind(runtime, guest, "module") \o OfKind(runtime, guest, "initializer")
           native == OfKind(runtime, guest, "native_initializer")
           entries == first \o native
           S == {k \in DOMAIN entries : entries[k].hook # "none"}
           hooks == Selected(entries, S)
<1>1. Steps(runtime, guest) = hooks
  BY DEF Steps
<1>2. /\ Sequence(OfKind(runtime, guest, "module")) /\ Sequence(native)
      /\ Sequence(OfKind(runtime, guest, "initializer"))
  BY OfKindFacts
<1>3. Sequence(first)
  BY <1>2, Joined DEF Joins
<1> HIDE DEF first, native
<1>4. Sequence(entries)
  BY <1>2, <1>3, Joined DEF Joins
<1> HIDE DEF entries
<1>5. hooks \in Seq(ToSet(entries))
  <2>1. entries \in Seq(ToSet(entries)) /\ S \subseteq DOMAIN entries
    BY <1>4 DEF Sequence
  <2> HIDE DEF S
  <2> QED BY <2>1, SelectedFacts
<1> HIDE DEF hooks
<1>6. Sequence(hooks)
  <2>1. Len(hooks) \in Nat /\ DOMAIN hooks = 1..Len(hooks) /\ hooks = [k \in 1..Len(hooks) |-> hooks[k]]
    BY <1>5
  <2>2. \A k \in 1..Len(hooks) : hooks[k] \in ToSet(hooks)
    BY <2>1 DEF ToSet
  <2>3. hooks \in Seq(ToSet(hooks))
    BY <2>1, <2>2
  <2> QED BY <2>3 DEF Sequence
<1> QED BY <1>1, <1>6

LEMMA RunUpToFacts ==
    ASSUME NEW hooks, Sequence(hooks),
           NEW j \in DOMAIN RunUpTo(hooks), NEW i \in DOMAIN RunUpTo(hooks), i < j
    PROVE  /\ i \in DOMAIN hooks /\ j \in DOMAIN hooks
           /\ RunUpTo(hooks)[i] = hooks[i] /\ RunUpTo(hooks)[j] = hooks[j]
           /\ hooks[i].hook # "fails"
<1> DEFINE failing == {k \in DOMAIN hooks : hooks[k].hook = "fails"}
<1>1. hooks \in Seq(ToSet(hooks)) /\ Len(hooks) \in Nat /\ DOMAIN hooks = 1..Len(hooks)
  BY DEF Sequence
<1>2. CASE failing = {}
  <2>1. RunUpTo(hooks) = hooks
    BY <1>2 DEF RunUpTo
  <2> QED BY <1>2, <2>1
<1>3. CASE failing # {}
  <2> DEFINE m == Min(failing)
  <2>1. failing \subseteq Nat
    BY <1>1
  <2>2. m \in failing /\ \A k \in failing : m <= k
    <3> HIDE DEF failing
    <3> QED BY <1>3, <2>1, MinFacts
  <2>3. RunUpTo(hooks) = SubSeq(hooks, 1, m)
    BY <1>3 DEF RunUpTo
  <2> HIDE DEF m
  <2>4. m \in Nat /\ m >= 1 /\ m <= Len(hooks)
    BY <1>1, <2>2
  <2>5. DOMAIN SubSeq(hooks, 1, m) = 1..m /\ \A k \in 1..m : SubSeq(hooks, 1, m)[k] = hooks[k]
    BY <1>1, <2>4
  <2>6. i \in 1..m /\ j \in 1..m
    BY <2>3, <2>5
  <2>7. i \notin failing
    BY <2>2, <2>4, <2>6
  <2>8. i \in DOMAIN hooks /\ j \in DOMAIN hooks
    BY <1>1, <2>4, <2>6
  <2> QED BY <2>3, <2>5, <2>6, <2>7, <2>8
<1> QED BY <1>2, <1>3

LEMMA BuiltRunsInOrder ==
    ASSUME NEW runtime, NEW guest, Sequence(runtime), Sequence(guest),
           NEW ran, ran = RunUpTo(Steps(runtime, guest)),
           NEW j \in DOMAIN ran, NEW i \in DOMAIN ran, i < j
    PROVE  ran[i].hook # "fails" /\ (ran[j].is = "module" => ran[i].is = "module")
<1> DEFINE hooks == Steps(runtime, guest)
<1>1. Sequence(hooks)
  BY StepsAreSequence
<1>2. /\ i \in DOMAIN hooks /\ j \in DOMAIN hooks
      /\ ran[i] = hooks[i] /\ ran[j] = hooks[j]
      /\ hooks[i].hook # "fails"
  <2> HIDE DEF hooks
  <2>1. ran = RunUpTo(hooks)
    BY DEF hooks
  <2> QED BY <1>1, <2>1, RunUpToFacts
<1>3. hooks[j].is = "module" => hooks[i].is = "module"
  BY <1>2, EntriesInOrder
<1> QED BY <1>2, <1>3

\* Whatever a runtime and a guest are built of, a guest that is not refused has what its modules
\* and their classes require, in the module that brought it, one that is refused is refused for
\* a reason, and initializers run after every module's hook and nothing after a failure
\* (imports/bindings.rs, new; host/context.rs, owning_module; guest/builder.rs, build).
THEOREM GuestsAreBuiltWhole == InterfacesSpec => []GuestsAreWhole
<1>1. InterfacesInit => GuestsAreWhole
  <2>1. InterfacesInit => case.kind = "none"
    BY DEF InterfacesInit
  <2> QED BY <2>1 DEF GuestsAreWhole
<1>2. ASSUME GuestsAreWhole, [InterfacesNext]_case PROVE GuestsAreWhole'
  <2>0. CASE UNCHANGED case
    BY <1>2, <2>0 DEF GuestsAreWhole, StateIsFound, RunsInOrder, Bound, Resolves
  <2>1. CASE BuildGuest
    <3>1. PICK runtime \in Libraries, guest \in GuestLibraries :
              LET admitted == Admits(Modules(runtime, <<>>)) /\ AdmitsGuest(runtime, guest)
              IN case' = [kind |-> "guest", runtime |-> runtime, guest |-> guest,
                          admitted |-> admitted,
                          ran |-> IF admitted THEN RunUpTo(Steps(runtime, guest)) ELSE <<>>]
      BY <2>1, Zenon DEF BuildGuest, Chosen
    <3> DEFINE admitted == Admits(Modules(runtime, <<>>)) /\ AdmitsGuest(runtime, guest)
               ran == IF admitted THEN RunUpTo(Steps(runtime, guest)) ELSE <<>>
    <3>2. Sequence(runtime) /\ Sequence(guest)
      BY LibrariesAssumption DEF Sequence
    <3>3. StateFound(Modules(runtime, guest), admitted)
      BY <3>2, BuiltHasState
    <3>4. \A i, j \in DOMAIN ran :
              i < j => ran[i].hook # "fails" /\ (ran[j].is = "module" => ran[i].is = "module")
      <4> HIDE DEF admitted
      <4>1. CASE admitted
        <5>1. ran = RunUpTo(Steps(runtime, guest))
          BY <4>1
        <5> HIDE DEF ran
        <5> QED BY <3>2, <5>1, BuiltRunsInOrder
      <4>2. CASE ~admitted
        BY <4>2
      <4> QED BY <4>1, <4>2
    <3>5. case' = [kind |-> "guest", runtime |-> runtime, guest |-> guest, admitted |-> admitted,
                   ran |-> ran]
      BY <3>1, Zenon
    <3> HIDE DEF admitted, ran
    <3>6. /\ case'.kind = "guest" /\ case'.runtime = runtime /\ case'.guest = guest
          /\ case'.admitted = admitted /\ case'.ran = ran
      BY <3>5
    <3>7. StateFound(Modules(case'.runtime, case'.guest), case'.admitted)
      BY <3>3, <3>6, Zenon
    <3>8. StateIsFound'
      BY <3>7, Zenon DEF StateFound, StateIsFound, Bound, Resolves
    <3>9. RunsInOrder'
      BY <3>4, <3>6 DEF RunsInOrder
    <3> QED BY <3>8, <3>9 DEF GuestsAreWhole
  <2>2. CASE InterfacesNext /\ ~BuildGuest
    <3>1. case'.kind # "guest"
      BY <2>2, RaisesOnly DEF InterfacesNext, Call, Expand, ExpandItem, ReadBundle, DeclareMembers, Reflect,
                  CallGuest, UseFacade, Chosen
    <3> QED BY <3>1 DEF GuestsAreWhole
  <2> QED BY <1>2, <2>0, <2>1, <2>2
<1> QED BY <1>1, <1>2, PTL DEF InterfacesSpec

-----------------------------------------------------------------------------
(* What a directory becomes.                                               *)

\* What the builder becomes with a file.
After(builder, file) == IF builder.failed THEN builder ELSE InsertEntry(builder, file)
IsReading(entries, n, read) ==
    read = [k \in 0..n |-> IF k = 0 THEN Empty ELSE After(read[k - 1], entries[k])]

LEMMA HasReading ==
    ASSUME NEW entries, NEW n \in Nat
    PROVE  \E read : IsReading(entries, n, read)
<1> DEFINE S == {m \in 0..n : \E read : IsReading(entries, m, read)}
<1>1. 0 \in S
  <2> DEFINE first == [k \in 0..0 |-> Empty]
  <2>1. IsReading(entries, 0, first)
    BY DEF IsReading
  <2> QED BY <2>1
<1>2. ASSUME NEW m \in 1..n, m - 1 \in S
      PROVE  m \in S
  <2>1. PICK read : IsReading(entries, m - 1, read)
    BY <1>2
  <2> DEFINE further == [k \in 0..m |-> IF k = m THEN After(read[m - 1], entries[m]) ELSE read[k]]
             ruled == [k \in 0..m |-> IF k = 0 THEN Empty ELSE After(further[k - 1], entries[k])]
  <2>2. \A k \in 0..m : further[k] = ruled[k]
    <3>1. SUFFICES ASSUME NEW k \in 0..m PROVE further[k] = ruled[k]
      OBVIOUS
    <3>2. CASE k = m
      <4>1. further[m - 1] = read[m - 1] /\ m # 0
        OBVIOUS
      <4> QED BY <3>2, <4>1
    <3>3. CASE k # m
      <4>1. k \in 0..(m - 1) /\ further[k] = read[k] /\ (k # 0 => further[k - 1] = read[k - 1])
        BY <3>3
      <4>2. read[k] = IF k = 0 THEN Empty ELSE After(read[k - 1], entries[k])
        BY <2>1, <4>1 DEF IsReading
      <4> QED BY <4>1, <4>2
    <3> QED BY <3>2, <3>3
  <2>3. further = ruled
    BY <2>2
  <2>4. IsReading(entries, m, further)
    BY <2>3 DEF IsReading
  <2> QED BY <2>4
<1> HIDE DEF S
<1>3. n \in S
  BY <1>1, <1>2, Counting
<1> QED BY <1>3 DEF S

LEMMA ReadingIs ==
    ASSUME NEW entries, Len(entries) \in Nat
    PROVE  IsReading(entries, Len(entries), Reading(entries))
<1> DEFINE read == CHOOSE read : IsReading(entries, Len(entries), read)
<1>1. IsReading(entries, Len(entries), read)
  BY HasReading
<1>2. Reading(entries) = read
  BY DEF Reading, IsReading, After
<1> QED BY <1>1, <1>2

\* A Python file that is no module, or no text.
Bad(f) ==
    /\ IsPython(f.path)
    /\ ~Plain(f.path, Front(f.path.tags)) \/ f.contents = "not utf-8" \/ Dotted(f.path) = <<>>

Sources(X) == {f \in X : IsPython(f.path)}
Entered(f) ==
    [source |-> f.contents, package |-> f.path.stem = Init_py, origin |-> f.path]

\* The files and the modules of the files X, whatever their order, and the builder of them.
Keeps(files, X) ==
    /\ files = [p \in {f.path : f \in X} |-> files[p]]
    /\ \A f \in X : files[f.path] = f.contents
Enters(modules, X) ==
    /\ modules = [d \in {Dotted(f.path) : f \in Sources(X)} |-> modules[d]]
    /\ \A d \in DOMAIN modules :
           \E f \in Sources(X) : Dotted(f.path) = d /\ modules[d] = Entered(f)
DataOf(X) == {f.path : f \in X \ Sources(X)}
BuilderIs(modules, files, data) ==
    [modules |-> modules, files |-> files, data |-> data, failed |-> FALSE]

BuiltOfFiles(builder, X) ==
    \E modules, files :
        Keeps(files, X) /\ Enters(modules, X) /\ builder = BuilderIs(modules, files, DataOf(X))

Apart(X) == \A f \in X, g \in X : f.path = g.path => f = g

LEMMA PlainFacts ==
    ASSUME NEW f \in Files, IsPython(f.path), ~Bad(f)
    PROVE  /\ f.path = Path(f.path.dir, f.path.stem, <<"py">>)
           /\ Dotted(f.path) # <<>> /\ IsIdentifiers(Dotted(f.path))
           /\ Origin(Dotted(f.path), f.path.stem = Init_py) = f.path
           /\ f.contents # "not utf-8" /\ Plain(f.path, Front(f.path.tags))
<1> DEFINE path == f.path
<1>1. /\ path.dir \in Seq(STRING) /\ path.stem \in STRING /\ path.tags \in Seq(STRING)
      /\ path = Path(path.dir, path.stem, path.tags)
  BY DEF Files, Paths, Path
<1>2. /\ Plain(path, Front(path.tags)) /\ f.contents # "not utf-8" /\ Dotted(path) # <<>>
  BY DEF Bad
<1> HIDE DEF path
<1>3. path.tags = <<"py">>
  <2>1. path.tags # <<>> /\ path.tags[Len(path.tags)] = "py"
    BY DEF IsPython, Last, path
  <2>2. Front(path.tags) = <<>>
    BY <1>2 DEF Plain
  <2>3. Len(path.tags) = 1
    <3>1. Len(path.tags) \in Nat /\ Len(path.tags) # 0
      BY <1>1, <2>1
    <3>2. SubSeq(path.tags, 1, Len(path.tags) - 1) = <<>>
      BY <2>2 DEF Front
    <3>3. Len(SubSeq(path.tags, 1, Len(path.tags) - 1)) = Len(path.tags) - 1
      BY <1>1, <3>1, SubSeqProperties
    <3>4. Len(path.tags) - 1 = 0
      BY <3>2, <3>3
    <3> QED BY <3>1, <3>4
  <2> QED BY <1>1, <2>1, <2>3
<1>4. IsIdentifiers(Append(path.dir, path.stem))
  BY <1>2 DEF Plain
<1>5. Front(Append(path.dir, path.stem)) = path.dir /\ Last(Append(path.dir, path.stem)) = path.stem
  <2>1. Len(Append(path.dir, path.stem)) = Len(path.dir) + 1
        /\ Append(path.dir, path.stem) \in Seq(STRING)
        /\ \A i \in 1..Len(path.dir) : Append(path.dir, path.stem)[i] = path.dir[i]
    BY <1>1
  <2>2. SubSeq(Append(path.dir, path.stem), 1, Len(path.dir)) = path.dir
    BY <1>1, <2>1
  <2> QED BY <1>1, <2>1, <2>2 DEF Front, Last
<1>6. IsIdentifiers(Dotted(path))
  <2>1. CASE path.stem = Init_py
    <3>1. Dotted(path) = path.dir
      BY <2>1 DEF Dotted
    <3>2. \A i \in DOMAIN path.dir : i \in DOMAIN Append(path.dir, path.stem)
                                     /\ Append(path.dir, path.stem)[i] = path.dir[i]
      BY <1>1
    <3> QED BY <1>4, <3>1, <3>2 DEF IsIdentifiers
  <2>2. CASE path.stem # Init_py
    BY <1>4, <2>2 DEF Dotted
  <2> QED BY <2>1, <2>2
<1>7. Origin(Dotted(path), path.stem = Init_py) = path
  <2>1. CASE path.stem = Init_py
    BY <1>1, <1>3, <2>1 DEF Dotted, Origin, Path
  <2>2. CASE path.stem # Init_py
    BY <1>1, <1>3, <1>5, <2>2 DEF Dotted, Origin, Path
  <2> QED BY <2>1, <2>2
<1> QED BY <1>1, <1>2, <1>3, <1>6, <1>7 DEF path

LEMMA NothingIsBuilt == BuiltOfFiles(Empty, {})
<1>1. {f.path : f \in {}} = {} /\ Sources({}) = {} /\ {Dotted(f.path) : f \in {}} = {}
      /\ DataOf({}) = {}
  BY DEF Sources, DataOf
<1>2. \A none : none = <<>> => none = [x \in {} |-> none[x]] /\ DOMAIN none = {}
  OBVIOUS
<1>3. Keeps(<<>>, {}) /\ Enters(<<>>, {})
  BY <1>1, <1>2 DEF Keeps, Enters
<1>4. Empty = BuilderIs(<<>>, <<>>, DataOf({}))
  BY <1>1 DEF Empty, BuilderIs
<1> QED BY <1>3, <1>4 DEF BuiltOfFiles

IsPut(f, x, y, p) ==
    /\ DOMAIN p = DOMAIN f \cup {x} /\ p = [z \in DOMAIN p |-> p[z]]
    /\ p[x] = y /\ \A z \in DOMAIN f : z # x => p[z] = f[z]
    /\ Put(p, x, y) = p

LEMMA PutFacts ==
    ASSUME NEW f, NEW x, NEW y
    PROVE  IsPut(f, x, y, Put(f, x, y))
<1>1. DOMAIN Put(f, x, y) = DOMAIN f \cup {x}
      /\ \A z \in DOMAIN f \cup {x} : Put(f, x, y)[z] = IF z = x THEN y ELSE f[z]
  BY DEF Put
<1>2. Put(Put(f, x, y), x, y) = Put(f, x, y)
  <2> DEFINE p == Put(f, x, y)
  <2>1. Put(p, x, y) = [z \in DOMAIN p \cup {x} |-> IF z = x THEN y ELSE p[z]]
    BY DEF Put
  <2>2. p = [z \in DOMAIN f \cup {x} |-> IF z = x THEN y ELSE f[z]]
    BY DEF Put
  <2>3. DOMAIN p \cup {x} = DOMAIN f \cup {x}
    BY <1>1
  <2>4. \A z \in DOMAIN f \cup {x} : (IF z = x THEN y ELSE p[z]) = (IF z = x THEN y ELSE f[z])
    BY <1>1
  <2> HIDE DEF p
  <2> QED BY <2>1, <2>2, <2>3, <2>4 DEF p
<1>3. Put(f, x, y) = [z \in DOMAIN Put(f, x, y) |-> Put(f, x, y)[z]]
  BY <1>1 DEF Put
<1> QED BY <1>1, <1>2, <1>3 DEF IsPut

\* The files that are kept, and the modules that are entered, with one more.
LEMMA KeptHolds ==
    ASSUME NEW X, NEW files, NEW f, Apart(X \cup {f}), Keeps(files, X)
    PROVE  Keeps(Put(files, f.path, f.contents), X \cup {f})
<1> DEFINE next == Put(files, f.path, f.contents)
<1>a. files = [p \in {g.path : g \in X} |-> files[p]] /\ \A g \in X : files[g.path] = g.contents
  BY DEF Keeps
<1> HIDE DEF next
<1>0. IsPut(files, f.path, f.contents, next)
  BY PutFacts DEF next
<1>1. DOMAIN files = {g.path : g \in X}
  BY <1>a
<1>2. {g.path : g \in X} \cup {f.path} = {g.path : g \in X \cup {f}}
  OBVIOUS
<1>3. next = [p \in {g.path : g \in X \cup {f}} |-> next[p]]
  <2>1. DOMAIN next = {g.path : g \in X \cup {f}} /\ next = [p \in DOMAIN next |-> next[p]]
    BY <1>0, <1>1, <1>2 DEF IsPut
  <2> QED BY <2>1, Zenon
<1>4. next[f.path] = f.contents /\ \A p \in DOMAIN files : p # f.path => next[p] = files[p]
  BY <1>0 DEF IsPut
<1>5. ASSUME NEW g \in X \cup {f} PROVE next[g.path] = g.contents
  <2>1. CASE g.path = f.path
    <3>1. g = f
      BY <2>1 DEF Apart
    <3> QED BY <1>4, <3>1
  <2>2. CASE g.path # f.path
    <3>1. g \in X /\ g.path \in DOMAIN files
      BY <1>1, <2>2
    <3> QED BY <1>a, <1>4, <2>2, <3>1
  <2> QED BY <2>1, <2>2
<1> QED BY <1>3, <1>5 DEF Keeps, next

LEMMA EnteredHolds ==
    ASSUME NEW X, NEW modules, NEW f, IsPython(f.path), Enters(modules, X)
    PROVE  Enters(Put(modules, Dotted(f.path), Entered(f)), X \cup {f})
<1> DEFINE next == Put(modules, Dotted(f.path), Entered(f))
<1>a. /\ modules = [d \in {Dotted(g.path) : g \in Sources(X)} |-> modules[d]]
      /\ \A d \in DOMAIN modules :
             \E g \in Sources(X) : Dotted(g.path) = d /\ modules[d] = Entered(g)
  BY DEF Enters
<1> HIDE DEF next
<1>0. IsPut(modules, Dotted(f.path), Entered(f), next)
  BY PutFacts DEF next
<1>1. Sources(X \cup {f}) = Sources(X) \cup {f}
  BY DEF Sources
<1>2. DOMAIN modules = {Dotted(g.path) : g \in Sources(X)}
  BY <1>a
<1>3. {Dotted(g.path) : g \in Sources(X)} \cup {Dotted(f.path)}
          = {Dotted(g.path) : g \in Sources(X) \cup {f}}
  OBVIOUS
<1>4. next = [d \in {Dotted(g.path) : g \in Sources(X \cup {f})} |-> next[d]]
      /\ DOMAIN next = DOMAIN modules \cup {Dotted(f.path)}
  <2>1. DOMAIN next = {Dotted(g.path) : g \in Sources(X \cup {f})}
        /\ next = [d \in DOMAIN next |-> next[d]]
    BY <1>0, <1>1, <1>2, <1>3 DEF IsPut
  <2>2. DOMAIN next = DOMAIN modules \cup {Dotted(f.path)}
    BY <1>0 DEF IsPut
  <2> QED BY <2>1, <2>2, Zenon
<1>5. next[Dotted(f.path)] = Entered(f)
      /\ \A d \in DOMAIN modules : d # Dotted(f.path) => next[d] = modules[d]
  BY <1>0 DEF IsPut
<1>6. ASSUME NEW d \in DOMAIN next
      PROVE  \E g \in Sources(X \cup {f}) : Dotted(g.path) = d /\ next[d] = Entered(g)
  <2>1. CASE d = Dotted(f.path)
    BY <1>1, <1>5, <2>1
  <2>2. CASE d # Dotted(f.path)
    BY <1>a, <1>1, <1>4, <1>5, <2>2
  <2> QED BY <2>1, <2>2
<1> QED BY <1>4, <1>6 DEF Enters, next

LEMMA InsertFails ==
    ASSUME NEW X, NEW builder, BuiltOfFiles(builder, X), NEW f, Bad(f)
    PROVE  InsertEntry(builder, f).failed = TRUE
<1> DEFINE kept == [builder EXCEPT !.files = Put(@, f.path, f.contents)]
<1>1. /\ "failed" \in DOMAIN kept
      /\ \A b : "failed" \in DOMAIN b => [b EXCEPT !.failed = TRUE].failed = TRUE
  BY DEF BuiltOfFiles, BuilderIs
<1>2. IsPython(f.path)
  BY DEF Bad
<1> HIDE DEF kept
<1>3. CASE ~Plain(f.path, Front(f.path.tags)) \/ f.contents = "not utf-8"
  BY <1>1, <1>2, <1>3 DEF InsertEntry, kept
<1>4. CASE ~(~Plain(f.path, Front(f.path.tags)) \/ f.contents = "not utf-8")
  <2>1. InsertEntry(builder, f) = InsertModule(kept, Dotted(f.path), f.contents, f.path.stem = Init_py)
    BY <1>2, <1>4 DEF InsertEntry, kept
  <2>2. Dotted(f.path) = <<>>
    BY <1>4 DEF Bad
  <2> QED BY <1>1, <2>1, <2>2 DEF InsertModule
<1> QED BY <1>3, <1>4

LEMMA InsertBuilds ==
    ASSUME NEW X, NEW builder, BuiltOfFiles(builder, X), NEW f \in Files, ~Bad(f), Apart(X \cup {f})
    PROVE  BuiltOfFiles(InsertEntry(builder, f), X \cup {f})
<1>0. PICK modules, files : Keeps(files, X) /\ Enters(modules, X)
                            /\ builder = BuilderIs(modules, files, DataOf(X))
  BY DEF BuiltOfFiles
<1> DEFINE keeps == Put(files, f.path, f.contents)
           kept == [builder EXCEPT !.files = Put(@, f.path, f.contents)]
           enters == Put(modules, Dotted(f.path), Entered(f))
<1>1. kept = BuilderIs(modules, keeps, DataOf(X))
  <2>1. builder.files = files
    BY <1>0 DEF BuilderIs
  <2>2. kept = [builder EXCEPT !.files = keeps]
    BY <2>1
  <2> HIDE DEF kept, keeps
  <2> QED BY <1>0, <2>2 DEF BuilderIs
<1>2. Keeps(keeps, X \cup {f}) /\ Put(keeps, f.path, f.contents) = keeps
  <2>1. Keeps(keeps, X \cup {f})
    BY <1>0, KeptHolds
  <2>2. IsPut(files, f.path, f.contents, keeps)
    BY PutFacts
  <2> QED BY <2>1, <2>2 DEF IsPut
<1>3. IsPython(f.path) => Enters(enters, X \cup {f})
  BY <1>0, EnteredHolds
<1> HIDE DEF keeps, kept, enters
<1>4. CASE ~IsPython(f.path)
  <2>1. InsertEntry(builder, f) = BuilderIs(modules, keeps, DataOf(X) \cup {f.path})
    <3>1. InsertEntry(builder, f) = [kept EXCEPT !.data = @ \cup {f.path}]
      BY <1>4 DEF InsertEntry, kept
    <3> QED BY <1>1, <3>1 DEF BuilderIs
  <2>2. Sources(X \cup {f}) = Sources(X) /\ (X \cup {f}) \ Sources(X) = (X \ Sources(X)) \cup {f}
    BY <1>4 DEF Sources
  <2>3. DataOf(X \cup {f}) = DataOf(X) \cup {f.path}
    BY <2>2 DEF DataOf
  <2>4. Enters(modules, X \cup {f})
    BY <1>0, <2>2 DEF Enters
  <2> QED BY <1>2, <2>1, <2>3, <2>4 DEF BuiltOfFiles
<1>5. CASE IsPython(f.path)
  <2>1. InsertEntry(builder, f) = InsertModule(kept, Dotted(f.path), f.contents, f.path.stem = Init_py)
    BY <1>5, PlainFacts DEF InsertEntry, kept
  <2>2. ~kept.failed
    BY <1>1 DEF BuilderIs
  <2>3. InsertEntry(builder, f) =
            [kept EXCEPT !.files = Put(@, f.path, f.contents),
                         !.modules = Put(@, Dotted(f.path), Entered(f))]
    BY <1>5, <2>1, <2>2, PlainFacts DEF InsertModule, Entered
  <2>4. InsertEntry(builder, f) = BuilderIs(enters, keeps, DataOf(X))
    BY <1>1, <1>2, <2>3 DEF BuilderIs, enters
  <2>5. DataOf(X \cup {f}) = DataOf(X)
    <3>1. (X \cup {f}) \ Sources(X \cup {f}) = X \ Sources(X)
      BY <1>5 DEF Sources
    <3> QED BY <3>1 DEF DataOf
  <2> QED BY <1>2, <1>3, <1>5, <2>4, <2>5 DEF BuiltOfFiles
<1> QED BY <1>4, <1>5

\* The builder of some entries.
SoundFor(builder, X) ==
    IF \E f \in X : Bad(f) THEN builder.failed = TRUE ELSE BuiltOfFiles(builder, X)

LEMMA ReadIsSound ==
    ASSUME NEW entries \in Seq(Files), Apart(ToSet(entries))
    PROVE  SoundFor(Read(entries), ToSet(entries))
<1> DEFINE n == Len(entries)
           read == Reading(entries)
           First(k) == {entries[i] : i \in 1..k}
           S == {k \in 0..n : SoundFor(read[k], First(k))}
<1>1. n \in Nat /\ DOMAIN entries = 1..n /\ \A i \in 1..n : entries[i] \in Files
  OBVIOUS
<1>2. \A k \in 0..n : read[k] = IF k = 0 THEN Empty ELSE After(read[k - 1], entries[k])
  BY <1>1, ReadingIs DEF IsReading
<1> HIDE DEF n, read
<1>3. 0 \in S
  <2>1. First(0) = {}
    OBVIOUS
  <2>2. SoundFor(Empty, {})
    BY NothingIsBuilt DEF SoundFor
  <2>3. read[0] = Empty /\ 0 \in 0..n
    BY <1>1, <1>2
  <2> HIDE DEF First
  <2> QED BY <2>1, <2>2, <2>3
<1>4. ASSUME NEW k \in 1..n, k - 1 \in S
      PROVE  k \in S
  <2> DEFINE before == First(k - 1)
             f == entries[k]
             builder == read[k - 1]
  <2>1. First(k) = before \cup {f} /\ f \in Files /\ First(k) \subseteq ToSet(entries)
    BY <1>1, <1>4 DEF ToSet
  <2>2. SoundFor(builder, before) /\ read[k] = After(builder, f)
    BY <1>1, <1>2, <1>4
  <2>3. Apart(before \cup {f})
    BY <2>1 DEF Apart
  <2> HIDE DEF before, f, builder
  <2>4. SoundFor(After(builder, f), before \cup {f})
    <3>1. CASE \E g \in before : Bad(g)
      BY <2>2, <3>1 DEF SoundFor, After
    <3>2. CASE ~\E g \in before : Bad(g)
      <4>1. BuiltOfFiles(builder, before) /\ ~builder.failed
        BY <2>2, <3>2 DEF SoundFor, BuiltOfFiles, BuilderIs
      <4>2. After(builder, f) = InsertEntry(builder, f)
        BY <4>1 DEF After
      <4>3. CASE Bad(f)
        BY <4>1, <4>2, <4>3, InsertFails DEF SoundFor
      <4>4. CASE ~Bad(f)
        BY <2>1, <2>3, <3>2, <4>1, <4>2, <4>4, InsertBuilds DEF SoundFor
      <4> QED BY <4>3, <4>4
    <3> QED BY <3>1, <3>2
  <2>5. SoundFor(read[k], First(k))
    BY <2>1, <2>2, <2>4
  <2>6. k \in 0..n
    BY <1>1
  <2> HIDE DEF First
  <2> QED BY <2>5, <2>6
<1>5. n \in S
  <2> HIDE DEF S
  <2> QED BY <1>1, <1>3, <1>4, Counting
<1>6. First(n) = ToSet(entries)
  BY <1>1 DEF ToSet
<1> QED BY <1>5, <1>6 DEF Read, n, read

LEMMA ConcatCancels ==
    ASSUME NEW S, NEW s \in Seq(S), NEW t \in Seq(S), NEW u \in Seq(S), s \o t = s \o u
    PROVE  t = u
<1>1. Len(s) \in Nat /\ Len(t) \in Nat /\ Len(u) \in Nat
  OBVIOUS
<1>2. Len(s \o t) = Len(s) + Len(t) /\ Len(s \o u) = Len(s) + Len(u)
  BY ConcatProperties
<1>3. Len(t) = Len(u)
  BY <1>1, <1>2
<1>4. ASSUME NEW i \in 1..Len(t) PROVE t[i] = u[i]
  <2>1. Len(s) + i \in 1..(Len(s) + Len(t)) /\ ~(Len(s) + i <= Len(s)) /\ Len(s) + i - Len(s) = i
    BY <1>1
  <2>2. (s \o t)[Len(s) + i] = t[i] /\ (s \o u)[Len(s) + i] = u[i]
    BY <1>3, <2>1, ConcatProperties
  <2> QED BY <2>2
<1> QED BY <1>3, <1>4, SeqEqual

\* The files of a directory, put below its name when it is a package.
PrefixOf(name, tree) == IF IsPackage(tree) THEN <<name>> ELSE <<>>
PutBelow(prefix, tree) == {Below(prefix, f) : f \in tree}
Distinct(X) ==
    \A f \in X, g \in X :
        f # g /\ IsPython(f.path) /\ IsPython(g.path) => Dotted(f.path) # Dotted(g.path)

LEMMA SingleIsSeq ==
    ASSUME NEW S, NEW x \in S
    PROVE  <<x>> \in Seq(S)
OBVIOUS

LEMMA PrefixIsSeq ==
    ASSUME NEW name \in STRING, NEW tree
    PROVE  PrefixOf(name, tree) \in Seq(STRING)
<1>1. <<name>> \in Seq(STRING)
  BY SingleIsSeq
<1>2. \A S : <<>> \in Seq(S)
  OBVIOUS
<1> QED BY <1>1, <1>2, Zenon DEF PrefixOf

LEMMA BelowFacts ==
    ASSUME NEW prefix \in Seq(STRING), NEW f \in Files
    PROVE  /\ Below(prefix, f) = File(Path(prefix \o f.path.dir, f.path.stem, f.path.tags), f.contents)
           /\ Below(prefix, f) \in Files
           /\ Below(prefix, f).path = Path(prefix \o f.path.dir, f.path.stem, f.path.tags)
           /\ IsPython(Below(prefix, f).path) <=> IsPython(f.path)
           /\ Dotted(f.path) \in Seq(STRING)
           /\ Dotted(Below(prefix, f).path) = prefix \o Dotted(f.path)
<1> DEFINE dir == f.path.dir
           stem == f.path.stem
           tags == f.path.tags
<1>1. /\ dir \in Seq(STRING) /\ stem \in STRING /\ tags \in Seq(STRING) /\ f.contents \in STRING
      /\ f = File(Path(dir, stem, tags), f.contents)
  BY DEF Files, Paths, File, Path
<1>2. Below(prefix, f) = File(Path(prefix \o dir, stem, tags), f.contents)
  <2> DEFINE contents == f.contents
             further == prefix \o dir
  <2>1. Below(prefix, f) = [f EXCEPT !.path.dir = further]
    BY DEF Below
  <2>2. f = File(Path(dir, stem, tags), contents)
    BY <1>1
  <2> HIDE DEF dir, stem, tags, contents, further
  <2>3. Below(prefix, f) = File(Path(further, stem, tags), contents)
    BY <2>1, <2>2 DEF File, Path
  <2> QED BY <2>3 DEF contents, further
<1> HIDE DEF dir, stem, tags
<1>3. Below(prefix, f).path = Path(prefix \o dir, stem, tags)
  BY <1>2 DEF File
<1>4. prefix \o dir \in Seq(STRING)
  BY <1>1
<1>5. Below(prefix, f) \in Files
  BY <1>1, <1>2, <1>4 DEF Files, Paths, File, Path
<1>6. IsPython(Below(prefix, f).path) <=> IsPython(f.path)
  BY <1>3 DEF IsPython, Path, tags
<1>7. Dotted(f.path) = (IF stem = Init_py THEN dir ELSE Append(dir, stem))
  BY DEF Dotted, dir, stem
<1>8. Dotted(Below(prefix, f).path) = (IF stem = Init_py THEN prefix \o dir ELSE Append(prefix \o dir, stem))
  BY <1>3 DEF Dotted, Path
<1>9. Append(prefix \o dir, stem) = prefix \o Append(dir, stem)
  <2>1. <<stem>> \in Seq(STRING) /\ Append(prefix \o dir, stem) = (prefix \o dir) \o <<stem>>
        /\ Append(dir, stem) = dir \o <<stem>>
    BY <1>1, <1>4, AppendIsConcat
  <2> QED BY <1>1, <2>1, ConcatAssociative
<1>10. Dotted(f.path) \in Seq(STRING)
  <2>1. Append(dir, stem) \in Seq(STRING)
    BY <1>1, AppendProperties
  <2> QED BY <1>1, <1>7, <2>1, Zenon
<1>11. Dotted(Below(prefix, f).path) = prefix \o Dotted(f.path)
  <2>1. CASE stem = Init_py
    BY <1>7, <1>8, <2>1
  <2>2. CASE stem # Init_py
    BY <1>7, <1>8, <1>9, <2>2
  <2> QED BY <2>1, <2>2
<1> QED BY <1>2, <1>3, <1>5, <1>6, <1>10, <1>11 DEF dir, stem, tags

LEMMA BelowKeeps ==
    ASSUME NEW prefix \in Seq(STRING), NEW tree, tree \subseteq Files, Apart(tree)
    PROVE  /\ PutBelow(prefix, tree) \subseteq Files
           /\ Apart(PutBelow(prefix, tree))
           /\ Distinct(tree) => Distinct(PutBelow(prefix, tree))
<1>1. PutBelow(prefix, tree) \subseteq Files
  BY BelowFacts DEF PutBelow
<1>2. ASSUME NEW f \in tree, NEW g \in tree, Below(prefix, f).path = Below(prefix, g).path
      PROVE  f = g
  <2>1. f \in Files /\ g \in Files
    OBVIOUS
  <2>2. /\ f.path = Path(f.path.dir, f.path.stem, f.path.tags) /\ f.path.dir \in Seq(STRING)
        /\ g.path = Path(g.path.dir, g.path.stem, g.path.tags) /\ g.path.dir \in Seq(STRING)
    BY <2>1 DEF Files, Paths, Path
  <2>3. /\ prefix \o f.path.dir = prefix \o g.path.dir
        /\ f.path.stem = g.path.stem /\ f.path.tags = g.path.tags
    <3>1. /\ Below(prefix, f).path = Path(prefix \o f.path.dir, f.path.stem, f.path.tags)
          /\ Below(prefix, g).path = Path(prefix \o g.path.dir, g.path.stem, g.path.tags)
      BY <2>1, BelowFacts
    <3>2. Path(prefix \o f.path.dir, f.path.stem, f.path.tags)
              = Path(prefix \o g.path.dir, g.path.stem, g.path.tags)
      BY <1>2, <3>1, Zenon
    <3> QED BY <3>2 DEF Path
  <2>4. f.path.dir = g.path.dir
    BY <2>2, <2>3, ConcatCancels
  <2>5. f.path = g.path
    BY <2>2, <2>3, <2>4
  <2> QED BY <2>5 DEF Apart
<1>3. ASSUME Distinct(tree), NEW f \in tree, NEW g \in tree, Below(prefix, f) # Below(prefix, g),
             IsPython(Below(prefix, f).path), IsPython(Below(prefix, g).path)
      PROVE  Dotted(Below(prefix, f).path) # Dotted(Below(prefix, g).path)
  <2>1. f \in Files /\ g \in Files /\ f # g /\ IsPython(f.path) /\ IsPython(g.path)
    BY <1>3, BelowFacts
  <2>2. Dotted(f.path) # Dotted(g.path)
    BY <1>3, <2>1 DEF Distinct
  <2>3. Dotted(f.path) \in Seq(STRING) /\ Dotted(g.path) \in Seq(STRING)
        /\ Dotted(Below(prefix, f).path) = prefix \o Dotted(f.path)
        /\ Dotted(Below(prefix, g).path) = prefix \o Dotted(g.path)
    BY <2>1, BelowFacts
  <2> QED BY <2>2, <2>3, ConcatCancels
<1> QED BY <1>1, <1>2, <1>3 DEF Apart, Distinct, PutBelow

\* What is read of a directory, from disk or embedded.
LEMMA DirectoryIsSound ==
    ASSUME NEW name \in STRING, NEW tree, tree \subseteq Files, Apart(tree), NEW entries,
           entries \in Seq(tree), ToSet(entries) = tree,
           NEW X, X = PutBelow(PrefixOf(name, tree), tree)
    PROVE  SoundFor(FromDir(name, entries), X) /\ SoundFor(FromEmbedded(name, entries), X)
<1> DEFINE prefix == PrefixOf(name, tree)
           below == [i \in DOMAIN entries |-> Below(prefix, entries[i])]
<1>1. prefix \in Seq(STRING)
  BY PrefixIsSeq
<1>2. FromDir(name, entries) = Read(below) /\ FromEmbedded(name, entries) = Read(below)
  <2>1. /\ FromDir(name, entries) =
               Read([i \in DOMAIN entries |-> Below(PrefixOf(name, ToSet(entries)), entries[i])])
        /\ FromEmbedded(name, entries) =
               Read([i \in DOMAIN entries |-> Below(PrefixOf(name, ToSet(entries)), entries[i])])
    BY Zenon DEF FromDir, FromEmbedded, PrefixOf
  <2>2. ToSet(entries) = tree
    OBVIOUS
  <2> QED BY <2>1, <2>2, Zenon
<1> HIDE DEF prefix
<1>3. below \in Seq(Files)
  <2>1. \A i \in DOMAIN entries : Below(prefix, entries[i]) \in Files
    <3>1. \A i \in DOMAIN entries : entries[i] \in Files
      OBVIOUS
    <3> QED BY <1>1, <3>1, BelowFacts
  <2> QED BY <2>1
<1>4. ToSet(below) = X
  <2>1. ToSet(below) = {Below(prefix, entries[i]) : i \in DOMAIN entries}
    BY DEF ToSet
  <2>2. tree = {entries[i] : i \in DOMAIN entries}
    BY DEF ToSet
  <2>3. X = {Below(prefix, f) : f \in tree}
    BY DEF PutBelow, prefix
  <2> HIDE DEF below
  <2> QED BY <2>1, <2>2, <2>3
<1>5. Apart(X)
  BY <1>1, BelowKeeps DEF prefix
<1> HIDE DEF below
<1> QED BY <1>2, <1>3, <1>4, <1>5, ReadIsSound

LEMMA OneBuilder ==
    ASSUME NEW X, Distinct(X), NEW a, BuiltOfFiles(a, X), NEW b, BuiltOfFiles(b, X)
    PROVE  a = b
<1>1. PICK am, af : Keeps(af, X) /\ Enters(am, X) /\ a = BuilderIs(am, af, DataOf(X))
  BY DEF BuiltOfFiles
<1>2. PICK bm, bf : Keeps(bf, X) /\ Enters(bm, X) /\ b = BuilderIs(bm, bf, DataOf(X))
  BY DEF BuiltOfFiles
<1>3. af = bf
  <2>1. \A p \in {f.path : f \in X} : af[p] = bf[p]
    BY <1>1, <1>2 DEF Keeps
  <2> QED BY <1>1, <1>2, <2>1 DEF Keeps
<1>4. am = bm
  <2>1. DOMAIN am = {Dotted(f.path) : f \in Sources(X)} /\ DOMAIN bm = DOMAIN am
        /\ am = [d \in DOMAIN am |-> am[d]] /\ bm = [d \in DOMAIN bm |-> bm[d]]
    BY <1>1, <1>2 DEF Enters
  <2>2. ASSUME NEW d \in DOMAIN am PROVE am[d] = bm[d]
    <3>1. PICK f \in Sources(X) : Dotted(f.path) = d /\ am[d] = Entered(f)
      BY <1>1 DEF Enters
    <3>2. PICK g \in Sources(X) : Dotted(g.path) = d /\ bm[d] = Entered(g)
      BY <1>2, <2>1 DEF Enters
    <3>3. f = g
      BY <3>1, <3>2 DEF Distinct, Sources
    <3> QED BY <3>1, <3>2, <3>3
  <2> QED BY <2>1, <2>2
<1> QED BY <1>1, <1>2, <1>3, <1>4

Filed(builder) ==
    \A dotted \in DOMAIN builder.modules :
        LET module == builder.modules[dotted]
        IN module.origin \in DOMAIN builder.files /\ builder.files[module.origin] = module.source

LEMMA ModulesAreFiled ==
    ASSUME NEW X, NEW builder, BuiltOfFiles(builder, X)
    PROVE  Filed(builder)
<1>1. PICK modules, files : Keeps(files, X) /\ Enters(modules, X)
                            /\ builder = BuilderIs(modules, files, DataOf(X))
  BY DEF BuiltOfFiles
<1>2. builder.modules = modules /\ builder.files = files
  BY <1>1 DEF BuilderIs
<1>3. ASSUME NEW dotted \in DOMAIN modules
      PROVE  modules[dotted].origin \in DOMAIN files
             /\ files[modules[dotted].origin] = modules[dotted].source
  <2>1. PICK f \in Sources(X) : modules[dotted] = Entered(f)
    BY <1>1 DEF Enters
  <2>2. f \in X /\ modules[dotted].origin = f.path /\ modules[dotted].source = f.contents
    BY <2>1 DEF Sources, Entered
  <2>3. DOMAIN files = {g.path : g \in X} /\ files[f.path] = f.contents
    BY <1>1, <2>2 DEF Keeps
  <2> QED BY <2>2, <2>3
<1> QED BY <1>2, <1>3 DEF Filed

\* A name that CPython loads from a path is the one that is claimed for it.
LEMMA CompatibleIsClaimed ==
    ASSUME NEW path \in Paths, CompatibleName(path) # {}
    PROVE  CompatibleName(path) = Claimed(path)
<1> DEFINE fitting == {s \in ExtensionSuffixes : IsSuffix(s, path.tags)}
           longest == CHOOSE s \in fitting : \A t \in fitting : Len(t) <= Len(s)
           left == SubSeq(path.tags, 1, Len(path.tags) - Len(longest))
           name == Append(path.dir, path.stem)
<1>1. CompatibleName(path) = IF fitting # {} /\ Plain(path, left) THEN {name} ELSE {}
  BY DEF CompatibleName
<1> HIDE DEF left, longest
<1>2. fitting # {} /\ Plain(path, left) /\ CompatibleName(path) = {name}
  BY <1>1
<1>3. IsIdentifiers(name)
  BY <1>2 DEF Plain
<1>4. PICK s \in ExtensionSuffixes : IsSuffix(s, path.tags)
  BY <1>2
<1>5. Ending(path)
  <2> DEFINE tags == path.tags
             rs == Reverse(s)
             rt == Reverse(tags)
  <2>1. s \in Seq(STRING) /\ s # <<>> /\ Last(s) \in LibraryExtensions /\ tags \in Seq(STRING)
    BY SuffixesAssumption DEF Paths
  <2> HIDE DEF tags
  <2>2. Len(s) \in Nat /\ Len(s) >= 1 /\ Len(tags) \in Nat
    BY <2>1
  <2>3. rs = [i \in 1..Len(s) |-> s[Len(s) - i + 1]]
        /\ rt = [i \in 1..Len(tags) |-> tags[Len(tags) - i + 1]]
    BY DEF Reverse
  <2>4. rs \in Seq(STRING) /\ rt \in Seq(STRING) /\ Len(rs) = Len(s) /\ Len(rt) = Len(tags)
    BY <2>1, <2>2, <2>3
  <2>5. Len(rs) <= Len(rt) /\ SubSeq(rs, 1, Len(rs)) = SubSeq(rt, 1, Len(rs))
    BY <1>4 DEF IsSuffix, IsPrefix, tags
  <2>6. rs[1] = s[Len(s)]
    BY <2>2, <2>3
  <2>7. Len(tags) >= 1 /\ rt[1] = tags[Len(tags)]
    BY <2>2, <2>3, <2>4, <2>5
  <2> HIDE DEF rs, rt
  <2>8. rs[1] = rt[1]
    <3>1. SubSeq(rs, 1, Len(rs))[1] = rs[1]
      BY <2>2, <2>4
    <3>2. SubSeq(rt, 1, Len(rs))[1] = rt[1]
      BY <2>2, <2>4, <2>5
    <3> QED BY <2>5, <3>1, <3>2
  <2>9. Last(tags) \in LibraryExtensions /\ tags # <<>>
    BY <2>1, <2>6, <2>7, <2>8 DEF Last
  <2> QED BY <2>9 DEF Ending, tags
<1> QED BY <1>2, <1>3, <1>5 DEF Claimed

LEMMA ClaimsAreOne ==
    ASSUME NEW X, X \subseteq Files, NEW builder, BuiltOfFiles(builder, X)
    PROVE  CPythonClaims(builder) = RustPythonClaims(builder)
<1>1. \A p \in DOMAIN builder.files : p \in Paths
  BY DEF BuiltOfFiles, BuilderIs, Keeps, Files
<1>2. \A p \in DOMAIN builder.files :
          (IF CompatibleName(p) # {} THEN CompatibleName(p) ELSE IncompatibleName(p)) = Claimed(p)
  BY <1>1, CompatibleIsClaimed DEF IncompatibleName
<1> QED BY <1>2 DEF CPythonClaims, RustPythonClaims

\* What is said of one case, without the state it stands in.
BundleServes(tree, read, embedded) ==
    LET built == {builder \in {read, embedded} : Builds(builder)}
    IN /\ \A builder \in built : Filed(builder) /\ CPythonClaims(builder) = RustPythonClaims(builder)
       /\ Distinct(tree) =>
              /\ Builds(read) <=> Builds(embedded)
              /\ Builds(read) => read = embedded

LEMMA DirectoryServes ==
    ASSUME NEW name \in STRING, NEW tree, tree \subseteq Files, Apart(tree),
           NEW one, one \in Seq(tree), ToSet(one) = tree, NEW other, other \in Seq(tree), ToSet(other) = tree
    PROVE  BundleServes(tree, FromDir(name, one), FromEmbedded(name, other))
<1> DEFINE X == PutBelow(PrefixOf(name, tree), tree)
           read == FromDir(name, one)
           embedded == FromEmbedded(name, other)
<1>1. PrefixOf(name, tree) \in Seq(STRING)
  BY PrefixIsSeq
<1>2. X \subseteq Files /\ Apart(X) /\ (Distinct(tree) => Distinct(X))
  BY <1>1, BelowKeeps
<1>3. SoundFor(read, X) /\ SoundFor(embedded, X)
  <2>1. \A Y : Y = X => SoundFor(FromDir(name, one), Y)
    BY DirectoryIsSound
  <2>2. \A Y : Y = X => SoundFor(FromEmbedded(name, other), Y)
    BY DirectoryIsSound
  <2> QED BY <2>1, <2>2
<1> HIDE DEF X, read, embedded
<1>4. CASE \E f \in X : Bad(f)
  <2>1. ~Builds(read) /\ ~Builds(embedded)
    BY <1>3, <1>4 DEF SoundFor, Builds
  <2> QED BY <2>1 DEF BundleServes, read, embedded
<1>5. CASE ~\E f \in X : Bad(f)
  <2>1. BuiltOfFiles(read, X) /\ BuiltOfFiles(embedded, X)
    BY <1>3, <1>5 DEF SoundFor
  <2>2. Filed(read) /\ Filed(embedded)
    BY <2>1, ModulesAreFiled
  <2>3. CPythonClaims(read) = RustPythonClaims(read) /\ CPythonClaims(embedded) = RustPythonClaims(embedded)
    BY <1>2, <2>1, ClaimsAreOne
  <2>4. Distinct(tree) => read = embedded
    BY <1>2, <2>1, OneBuilder
  <2> QED BY <2>2, <2>3, <2>4 DEF BundleServes, read, embedded
<1> QED BY <1>4, <1>5

\* What a directory gives depends on nobody who looks at it, for every directory: the builder
\* is a function of the files, whatever order they come in (bundle.rs, insert_entry).
THEOREM BundlesAreTheSame == InterfacesSpec => []SameToAll
<1>1. InterfacesInit => SameToAll
  BY DEF InterfacesInit, SameToAll, SourcesAreFiled, SameEitherWay, ClaimsAgree
<1>2. SameToAll /\ [InterfacesNext]_case => SameToAll'
  <2>1. SUFFICES ASSUME SameToAll, [InterfacesNext]_case PROVE SameToAll'
    OBVIOUS
  <2>2. CASE UNCHANGED case
    BY <2>1, <2>2 DEF SameToAll, SourcesAreFiled, SameEitherWay, ClaimsAgree, Built
  <2>3. CASE ReadBundle
    <3>1. PICK tree \in Trees :
              \E read, embedded \in TupleOf(tree, Cardinality(tree)) :
                  /\ ToSet(read) = tree /\ ToSet(embedded) = tree /\ InDirOrder(read)
                  /\ Chosen([kind |-> "bundle", tree |-> tree,
                             read |-> FromDir(BundleName, read),
                             embedded |-> FromEmbedded(BundleName, embedded)])
      BY <2>3 DEF ReadBundle
    <3>2. PICK read \in TupleOf(tree, Cardinality(tree)), embedded \in TupleOf(tree, Cardinality(tree)) :
                  /\ ToSet(read) = tree /\ ToSet(embedded) = tree
                  /\ case' = [kind |-> "bundle", tree |-> tree,
                              read |-> FromDir(BundleName, read),
                              embedded |-> FromEmbedded(BundleName, embedded)]
      BY <3>1 DEF Chosen
    <3>3. tree \subseteq Files /\ Apart(tree) /\ BundleName \in STRING /\ Cardinality(tree) \in Nat
      BY TreesAssumption, FS_CardinalityType DEF Apart
    <3>4. read \in Seq(tree) /\ embedded \in Seq(tree)
      BY <3>3 DEF TupleOf
    <3>5. BundleServes(tree, FromDir(BundleName, read), FromEmbedded(BundleName, embedded))
      BY <3>2, <3>3, <3>4, DirectoryServes
    <3>6. case'.kind = "bundle" /\ case'.tree = tree /\ BundleServes(tree, case'.read, case'.embedded)
      BY <3>2, <3>5
    <3>7. SourcesAreFiled' /\ ClaimsAgree'
      BY <3>6 DEF BundleServes, Filed, SourcesAreFiled, ClaimsAgree, Built
    <3>8. SameEitherWay'
      BY <3>6 DEF BundleServes, Distinct, SameEitherWay
    <3> QED BY <3>7, <3>8 DEF SameToAll
  <2>4. CASE InterfacesNext /\ ~ReadBundle
    <3>1. case'.kind # "bundle"
      BY <2>4, RaisesOnly DEF InterfacesNext, Call, Expand, ExpandItem, DeclareMembers, Reflect, CallGuest,
                  UseFacade, BuildGuest, Chosen
    <3> QED BY <3>1 DEF SameToAll, SourcesAreFiled, SameEitherWay, ClaimsAgree
  <2> QED BY <2>1, <2>2, <2>3, <2>4
<1> QED BY <1>1, <1>2, PTL DEF InterfacesSpec

-----------------------------------------------------------------------------
(* What the host reaches of a guest's objects.                             *)

Nearest(heap, o, name) == heap[o].lineage[Min(Holders(heap, o, name))]

\* An attribute is the one of the nearest object that has it, and is one of the objects.
LEMMA GetAttrFacts ==
    ASSUME NEW heap, IsHeap(heap), NEW o \in DOMAIN heap, NEW name
    PROVE  /\ HasAttr(heap, o, name) <=> Holders(heap, o, name) # {}
           /\ ~HasAttr(heap, o, name) => GetAttr(heap, o, name) = GuestError
           /\ HasAttr(heap, o, name) =>
                  /\ Min(Holders(heap, o, name)) \in Holders(heap, o, name)
                  /\ Nearest(heap, o, name) \in DOMAIN heap
                  /\ GetAttr(heap, o, name) = Ok(heap[Nearest(heap, o, name)].attrs[name])
                  /\ heap[Nearest(heap, o, name)].attrs[name] \in DOMAIN heap
<1> DEFINE holders == Holders(heap, o, name)
           i == Min(holders)
           there == Nearest(heap, o, name)
<1>0. there = heap[o].lineage[i]
  BY DEF Nearest
<1>1. heap[o].lineage \in Seq(DOMAIN heap)
  BY DEF IsHeap
<1>2. holders \subseteq DOMAIN heap[o].lineage /\ DOMAIN heap[o].lineage \subseteq Nat
  BY <1>1 DEF Holders
<1>3. GetAttr(heap, o, name) = IF holders = {} THEN GuestError ELSE Ok(heap[there].attrs[name])
  BY Zenon DEF GetAttr, Nearest
<1>4. GuestError.r # "ok" /\ \A v : Ok(v).r = "ok"
  BY DEF GuestError, Ok
<1>5. HasAttr(heap, o, name) <=> holders # {}
  <2> HIDE DEF holders, there
  <2> QED BY <1>3, <1>4 DEF HasAttr
<1>6. holders # {} => i \in holders
  <2> HIDE DEF holders
  <2> QED BY <1>2, MinFacts
<1>7. holders # {} => there \in DOMAIN heap /\ name \in DOMAIN heap[there].attrs
  <2>1. SUFFICES ASSUME holders # {} PROVE there \in DOMAIN heap /\ name \in DOMAIN heap[there].attrs
    OBVIOUS
  <2>2. i \in DOMAIN heap[o].lineage /\ name \in DOMAIN heap[heap[o].lineage[i]].attrs
    <3> HIDE DEF i
    <3> QED BY <1>6, <2>1 DEF Holders
  <2>3. heap[o].lineage[i] \in DOMAIN heap
    <3> DEFINE lineage == heap[o].lineage
    <3>1. \A j \in DOMAIN lineage : lineage[j] \in DOMAIN heap
      <4> HIDE DEF lineage, holders, i
      <4> QED BY <1>1 DEF lineage
    <3> QED BY <2>2, <3>1
  <2> HIDE DEF i, there, holders
  <2> QED BY <1>0, <2>2, <2>3
<1>8. holders # {} => heap[there].attrs[name] \in DOMAIN heap
  BY <1>7 DEF IsHeap
<1> HIDE DEF holders, i, there
<1>9. /\ ~HasAttr(heap, o, name) => GetAttr(heap, o, name) = GuestError
      /\ HasAttr(heap, o, name) => GetAttr(heap, o, name) = Ok(heap[there].attrs[name])
  BY <1>3, <1>5
<1> QED BY <1>5, <1>6, <1>7, <1>8, <1>9 DEF there, i, holders

\* A function on 1..n is a sequence.
LEMMA TupleIsSeq ==
    ASSUME NEW n \in Nat, NEW S, NEW f \in [1..n -> S]
    PROVE  f \in Seq(S)
OBVIOUS

\* A facade's member serves as an attribute of its name, or a call of it.
FacadeServes(heap, o, m, given, result) ==
    LET there == GetAttr(heap, o, GuestName(m))
        asked == FacadeArguments(m, given)
    IN IF m.is = "value" \/ there.r # "ok" THEN result = there
       ELSE /\ result = CallWith(heap, there.v, asked, <<>>)
            /\ result.r = "ok" => \A i \in DOMAIN asked : asked[i] = Ok(result.v[i])

\* No named arguments are none.
LEMMA NoKeywords ==
    /\ NamedArguments(<<>>) = [n \in {} |-> n]
    /\ IntoKwargs(<<>>).r = "ok" /\ IntoKwargs(<<>>).v = <<>>
<1>1. <<>> \in Seq(ToSet(<<>>)) /\ DOMAIN <<>> = {}
  OBVIOUS
<1>2. IntoKwargs(<<>>).r = "ok"
  BY <1>1, KeywordsAreCollected
<1>3. IntoKwargs(<<>>).v = [i \in DOMAIN <<>> |-> << <<>>[i][1], <<>>[i][2].v >>]
  BY <1>1, <1>2, KeywordsAreCollected
<1>4. \A f : f = [i \in DOMAIN <<>> |-> << <<>>[i][1], <<>>[i][2].v >>] => f = <<>>
  OBVIOUS
<1>5. {kw[1] : kw \in ToSet(<<>>)} = {}
  BY DEF ToSet
<1>6. NamedArguments(<<>>) = [n \in {} |-> n]
  BY <1>5 DEF NamedArguments
<1> QED BY <1>2, <1>3, <1>4, <1>6

\* A facade's member serves on any object.
LEMMA FacadeMemberServes ==
    ASSUME NEW heap, IsHeap(heap), NEW o \in DOMAIN heap,
           \A p \in DOMAIN heap : heap[p].params \in Seq(STRING),
           NEW m, m.params \in Seq(STRING),
           NEW given \in [ToSet(m.params) -> {Ok(1), Ok(2), Conversion}]
    PROVE  FacadeServes(heap, o, m, given, FacadeMember(heap, o, m, given))
<1> DEFINE name == GuestName(m)
           there == GetAttr(heap, o, name)
           asked == FacadeArguments(m, given)
           result == FacadeMember(heap, o, m, given)
           into == IntoArgs(asked)
           none == [n \in {} |-> n]
           called == Calling(heap, there.v, into.v, none)
<1>1. asked \in Seq(ToSet(asked)) /\ \A i \in DOMAIN asked : asked[i] \in {Ok(1), Ok(2), Conversion}
  <2>1. \A i \in DOMAIN m.params : m.params[i] \in ToSet(m.params)
    BY DEF ToSet
  <2>2. asked = [i \in 1..Len(m.params) |-> given[m.params[i]]] /\ Len(m.params) \in Nat
    BY DEF FacadeArguments
  <2>3. \A i \in 1..Len(m.params) : asked[i] \in {Ok(1), Ok(2), Conversion}
    <3> DEFINE answers == {Ok(1), Ok(2), Conversion}
    <3>1. given \in [ToSet(m.params) -> answers]
      OBVIOUS
    <3> HIDE DEF answers
    <3>2. \A x \in ToSet(m.params) : given[x] \in answers
      BY <3>1
    <3>3. \A i \in 1..Len(m.params) : asked[i] \in answers
      BY <2>1, <2>2, <3>2
    <3> QED BY <3>3 DEF answers
  <2>4. asked \in Seq(ToSet(asked))
    <3>1. DOMAIN asked = 1..Len(m.params) /\ asked = [i \in DOMAIN asked |-> asked[i]]
      BY <2>2
    <3> HIDE DEF asked
    <3>2. \A i \in DOMAIN asked : asked[i] \in ToSet(asked)
      BY DEF ToSet
    <3>3. asked \in [1..Len(m.params) -> ToSet(asked)]
      BY <3>1, <3>2
    <3> QED BY <2>2, <3>3, TupleIsSeq
  <2> QED BY <2>2, <2>3, <2>4
<1>2. /\ into.r = "ok" <=> \A i \in DOMAIN asked : asked[i].r = "ok"
      /\ into.r = "ok" => into.v = [i \in DOMAIN asked |-> asked[i].v]
  BY <1>1, ArgumentsAreCollected
<1>3. result = IF m.is = "value" \/ there.r # "ok" THEN there
               ELSE IF into.r # "ok" THEN into ELSE called
  BY Zenon DEF FacadeMember, CallMethod
<1>4. CallWith(heap, there.v, asked, <<>>) = IF into.r # "ok" THEN into ELSE called
  <2>1. IntoKwargs(<<>>).r = "ok" /\ NamedArguments(IntoKwargs(<<>>).v) = none
    BY NoKeywords
  <2> HIDE DEF there, asked, none
  <2> QED BY <2>1, Zenon DEF CallWith
<1>5. ASSUME there.r = "ok"
      PROVE  there.v \in DOMAIN heap
  <2>1. HasAttr(heap, o, name)
    BY <1>5 DEF HasAttr
  <2>2. there = Ok(heap[Nearest(heap, o, name)].attrs[name]) /\ heap[Nearest(heap, o, name)].attrs[name] \in DOMAIN heap
    BY <2>1, GetAttrFacts
  <2> QED BY <2>2 DEF Ok
<1>6. ASSUME there.r = "ok", into.r = "ok", called.r = "ok", NEW i \in DOMAIN asked
      PROVE  asked[i] = Ok(called.v[i])
  <2> DEFINE args == into.v
  <2>1. args = [j \in DOMAIN asked |-> asked[j].v]
    BY <1>2, <1>6
  <2>2. Len(asked) \in Nat /\ DOMAIN asked = 1..Len(asked)
    BY <1>1
  <2>3. args = [j \in 1..Len(asked) |-> asked[j].v]
    BY <2>1, <2>2, Zenon
  <2> HIDE DEF asked, args
  <2>4. args \in Seq(ToSet(args)) /\ Len(args) = Len(asked)
    BY <2>2, <2>3 DEF ToSet
  <2>5. BindsTo(heap[there.v], args, none, called)
    <3>1. heap[there.v].params \in Seq(STRING)
      BY <1>5, <1>6
    <3> HIDE DEF there, none
    <3> QED BY <2>4, <3>1, CallingFacts DEF args
  <2>6. /\ Len(args) <= Len(heap[there.v].params)
        /\ \A j \in DOMAIN heap[there.v].params :
               called.v[j] = IF j <= Len(args) THEN args[j] ELSE none[heap[there.v].params[j]]
    <3> HIDE DEF called, there, none
    <3> QED BY <1>6, <2>5, Zenon DEF BindsTo
  <2>7. heap[there.v].params \in Seq(STRING)
    BY <1>5, <1>6
  <2> DEFINE length == Len(heap[there.v].params)
  <2>8. DOMAIN heap[there.v].params = 1..length /\ length \in Nat
    BY <2>7
  <2>9. i \in 1..length /\ i <= Len(args)
    <3> HIDE DEF length
    <3> QED BY <1>6, <2>2, <2>4, <2>6, <2>8 DEF length
  <2>10. called.v[i] = args[i] /\ args[i] = asked[i].v
    <3> HIDE DEF called, there, none, length
    <3> QED BY <1>6, <2>1, <2>6, <2>8, <2>9
  <2>11. asked[i].r = "ok" /\ asked[i] \in {Ok(1), Ok(2), Conversion}
    BY <1>1, <1>2, <1>6
  <2>12. \A x \in {Ok(1), Ok(2), Conversion} : x.r = "ok" => x = Ok(x.v)
    BY DEF Ok, Conversion
  <2> QED BY <2>10, <2>11, <2>12
<1> HIDE DEF there, asked, result, into, called
<1>7. CASE m.is = "value" \/ there.r # "ok"
  <2>1. result = there
    BY <1>3, <1>7
  <2> QED BY <1>7, <2>1 DEF FacadeServes, there, result, name
<1>8. CASE ~(m.is = "value" \/ there.r # "ok")
  <2>1. result = CallWith(heap, there.v, asked, <<>>)
    BY <1>3, <1>4, <1>8
  <2>2. result.r = "ok" => \A i \in DOMAIN asked : asked[i] = Ok(result.v[i])
    BY <1>3, <1>6, <1>8
  <2> QED BY <1>8, <2>1, <2>2 DEF FacadeServes, there, result, asked, name
<1> QED BY <1>7, <1>8

\* What all the annotations of an object are, and each of them.
AnnotationsTell(heap, o, listed) ==
    IF listed.r = "ok"
    THEN \A i \in DOMAIN listed.v : Annotation(heap, o, listed.v[i][1]) = Ok(Some(listed.v[i][2]))
    ELSE LET dict == heap[GetAttr(heap, o, "__annotations__").v]
         IN dict.is = "dict" => \E i \in DOMAIN dict.items : Annotation(heap, o, dict.items[i][1]) = listed

\* An object is converted to itself or not at all.
LEMMA ToClassIs ==
    ASSUME NEW heap, NEW o
    PROVE  ToClass(heap, o) = Ok(o) \/ ToClass(heap, o) = Conversion
BY DEF ToClass

\* The least of one number is that number.
LEMMA OneIsLeast ==
    ASSUME NEW i \in Nat
    PROVE  Min({i}) = i
BY MinFacts

\* The first that failed of some results.
LEMMA FirstFails ==
    ASSUME NEW results, DOMAIN results \subseteq Nat, Collect(results).r # "ok"
    PROVE  \E i \in DOMAIN results : results[i].r # "ok" /\ Collect(results) = results[i]
<1> DEFINE failed == {i \in DOMAIN results : results[i].r # "ok"}
           values == [i \in DOMAIN results |-> results[i].v]
<1>1. Collect(results) = IF failed = {} THEN Ok(values) ELSE results[Min(failed)]
  BY DEF Collect
<1>2. Ok(values).r = "ok"
  BY DEF Ok
<1>3. failed # {}
  <2> HIDE DEF failed, values
  <2> QED BY <1>1, <1>2
<1>4. Min(failed) \in failed
  BY <1>3, MinFacts
<1>5. Collect(results) = results[Min(failed)]
  <2> HIDE DEF failed, values
  <2> QED BY <1>1, <1>3
<1> QED BY <1>4, <1>5

\* The annotations of an object tell what each is.
LEMMA AnnotationsAreTold ==
    ASSUME NEW heap, IsHeap(heap), NEW o \in DOMAIN heap
    PROVE  AnnotationsTell(heap, o, Annotations(heap, o))
<1> DEFINE there == GetAttr(heap, o, "__annotations__")
           dict == heap[there.v]
           items == dict.items
           has == HasAttr(heap, o, "__annotations__")
           results == [i \in DOMAIN items |->
                           Then(ToClass(heap, items[i][2]), LAMBDA c : <<items[i][1], c>>)]
           listed == Annotations(heap, o)
           One(name) == Annotation(heap, o, name)
<1>1. listed = IF ~has THEN Ok(<<>>) ELSE IF dict.is # "dict" THEN GuestError ELSE Collect(results)
  BY Zenon DEF Annotations, Each
<1>2. Ok(<<>>).r = "ok" /\ Ok(<<>>).v = <<>> /\ GuestError.r # "ok"
  BY DEF Ok, GuestError
<1>3. CASE ~has
  <2>1. listed.r = "ok" /\ DOMAIN listed.v = {}
    <3> HIDE DEF listed, has, results
    <3> QED BY <1>1, <1>2, <1>3
  <2> QED BY <2>1 DEF AnnotationsTell
<1>4. CASE has /\ dict.is # "dict"
  <2>1. listed.r # "ok"
    <3> HIDE DEF listed, has, results, dict
    <3> QED BY <1>1, <1>2, <1>4
  <2> QED BY <1>4, <2>1 DEF AnnotationsTell
<1>5. CASE has /\ dict.is = "dict"
  <2>1. there.v \in DOMAIN heap
    <3>1. there = Ok(heap[Nearest(heap, o, "__annotations__")].attrs["__annotations__"])
          /\ heap[Nearest(heap, o, "__annotations__")].attrs["__annotations__"] \in DOMAIN heap
      BY <1>5, GetAttrFacts
    <3> QED BY <3>1 DEF Ok
  <2>2. items \in Seq(ToSet(items)) /\ IsDict(items)
    BY <1>5, <2>1 DEF IsHeap
  <2>3. DOMAIN items \subseteq Nat
    <3> HIDE DEF items
    <3> QED BY <2>2
  <2>4. ASSUME NEW i \in DOMAIN items
        PROVE  One(items[i][1]) = Then(ToClass(heap, items[i][2]), LAMBDA c : Some(c))
    <3> DEFINE found == {j \in DOMAIN items : items[j][1] = items[i][1]}
    <3>1. One(items[i][1]) =
              IF found = {} THEN Ok(None) ELSE Then(ToClass(heap, items[Min(found)][2]), LAMBDA c : Some(c))
      BY <1>5, Zenon DEF Annotation
    <3>2. found = {i}
      BY <2>2, <2>4 DEF IsDict
    <3>3. Min(found) = i /\ found # {}
      BY <2>3, <3>2, OneIsLeast
    <3> HIDE DEF found
    <3> QED BY <3>1, <3>3, Zenon
  <2>5. listed = Collect(results) /\ DOMAIN results = DOMAIN items
    <3>1. DOMAIN results = DOMAIN items
      BY Zenon
    <3> HIDE DEF listed, has, results
    <3> QED BY <1>1, <1>5, <3>1
  <2>6. ASSUME NEW i \in DOMAIN items
        PROVE  \/ /\ results[i].r = "ok" /\ results[i].v[1] = items[i][1]
                  /\ One(items[i][1]) = Ok(Some(results[i].v[2]))
               \/ results[i].r # "ok" /\ One(items[i][1]) = results[i]
    <3> DEFINE c == ToClass(heap, items[i][2])
    <3>1. results[i] = IF c.r = "ok" THEN Ok(<<items[i][1], c.v>>) ELSE c
      BY Zenon DEF Then
    <3>2. One(items[i][1]) = IF c.r = "ok" THEN Ok(Some(c.v)) ELSE c
      BY <2>4, Zenon DEF Then
    <3>3. \A x : Ok(x).r = "ok" /\ Ok(x).v = x
      BY DEF Ok
    <3> HIDE DEF results, One, c, items
    <3>4. CASE c.r = "ok"
      <4>1. results[i] = Ok(<<items[i][1], c.v>>) /\ One(items[i][1]) = Ok(Some(c.v))
        BY <3>1, <3>2, <3>4
      <4>2. results[i].r = "ok" /\ results[i].v = <<items[i][1], c.v>>
        BY <3>3, <4>1
      <4> QED BY <4>1, <4>2
    <3>5. CASE c.r # "ok"
      BY <3>1, <3>2, <3>5
    <3> QED BY <3>4, <3>5
  <2> HIDE DEF results, items, listed
  <2>7. CASE listed.r = "ok"
    <3>1. \A i \in DOMAIN items : results[i].r = "ok"
      BY <2>3, <2>5, <2>7, CollectFacts
    <3>2. listed.v = [i \in DOMAIN items |-> results[i].v]
      BY <2>3, <2>5, <3>1, CollectFacts
    <3>3. \A i \in DOMAIN listed.v : One(listed.v[i][1]) = Ok(Some(listed.v[i][2]))
      BY <2>6, <3>1, <3>2
    <3> QED BY <2>7, <3>3 DEF AnnotationsTell, listed
  <2>8. CASE listed.r # "ok"
    <3>1. PICK i \in DOMAIN items : results[i].r # "ok" /\ listed = results[i]
      BY <2>3, <2>5, <2>8, FirstFails
    <3>2. One(items[i][1]) = listed
      BY <2>6, <3>1
    <3> QED BY <2>8, <3>1, <3>2 DEF AnnotationsTell, listed, items
  <2> QED BY <2>7, <2>8
<1> QED BY <1>3, <1>4, <1>5

\* A generic base is one that the nearest ancestor with any names, and is an ancestor.
NamedBases(heap, o) ==
    IF Holders(heap, o, "__orig_bases__") = {} THEN {}
    ELSE ToSet(heap[heap[Nearest(heap, o, "__orig_bases__")].attrs["__orig_bases__"]].items)
BaseIsTold(heap, o, base, named, alias) ==
    /\ alias.r # "ok" => \E b \in named : AliasOrigin(heap, b) = alias
    /\ alias.r = "ok" /\ alias.v = None => \A b \in named : AliasOrigin(heap, b) # Ok(base)
    /\ alias.r = "ok" /\ alias.v # None =>
           /\ alias.v.v \in named /\ AliasOrigin(heap, alias.v.v) = Ok(base)
           /\ base \in ToSet(heap[o].lineage)

\* The origin of an alias is its __origin__, if that is a class.
LEMMA AliasOriginIs ==
    ASSUME NEW heap, NEW b
    PROVE  /\ HasAttr(heap, b, "__origin__") =>
                  \/ AliasOrigin(heap, b) = Conversion
                  \/ AliasOrigin(heap, b) = Ok(GetAttr(heap, b, "__origin__").v)
           /\ ~HasAttr(heap, b, "__origin__") => AliasOrigin(heap, b).r # "ok"
BY ToClassIs DEF AliasOrigin, HasAttr

\* A class tells its generic bases.
LEMMA GenericBaseIsTold ==
    ASSUME NEW heap, IsHeap(heap), NEW o \in DOMAIN heap, heap[o].is = "class", NEW base \in DOMAIN heap
    PROVE  BaseIsTold(heap, o, base, NamedBases(heap, o), GenericBaseOf(heap, o, base))
<1> DEFINE bases == OriginalBases(heap, o)
           has == Holders(heap, o, "__orig_bases__")
           nearest == heap[Nearest(heap, o, "__orig_bases__")]
           named == NamedBases(heap, o)
           of == {b \in named : AliasOrigin(heap, b) = Ok(base)}
           ends == {i \in GenericBases(heap, o) :
                        AliasOrigin(heap, bases[i]) \in {Ok(base), Conversion, GuestError}}
           first == bases[Min(ends)]
           alias == GenericBaseOf(heap, o, base)
<1>1. bases \in Seq(ToSet(bases)) /\ named = ToSet(bases)
  <2>1. bases = IF has = {} THEN <<>> ELSE heap[nearest.attrs["__orig_bases__"]].items
    <3>1. HasAttr(heap, o, "__orig_bases__") <=> has # {}
      BY GetAttrFacts
    <3>2. has # {} => GetAttr(heap, o, "__orig_bases__") = Ok(nearest.attrs["__orig_bases__"])
      BY <3>1, GetAttrFacts
    <3>3. has # {} => GetAttr(heap, o, "__orig_bases__").v = nearest.attrs["__orig_bases__"]
      BY <3>2 DEF Ok
    <3>4. bases = IF ~HasAttr(heap, o, "__orig_bases__") THEN <<>>
                  ELSE heap[GetAttr(heap, o, "__orig_bases__").v].items
      BY DEF OriginalBases
    <3> HIDE DEF bases, has, nearest
    <3> QED BY <3>1, <3>3, <3>4
  <2>2. has # {} => nearest.attrs["__orig_bases__"] \in DOMAIN heap
    BY GetAttrFacts
  <2>3. has # {} => heap[nearest.attrs["__orig_bases__"]].items \in Seq(ToSet(heap[nearest.attrs["__orig_bases__"]].items))
    BY <2>2 DEF IsHeap
  <2>4. <<>> \in Seq(ToSet(<<>>)) /\ ToSet(<<>>) = {}
    BY DEF ToSet
  <2>5. named = IF has = {} THEN {} ELSE ToSet(heap[nearest.attrs["__orig_bases__"]].items)
    BY DEF NamedBases
  <2> HIDE DEF bases, has, nearest, named
  <2> QED BY <2>1, <2>3, <2>4, <2>5
<1>2. DOMAIN bases \subseteq Nat /\ ends \subseteq DOMAIN bases
  <2>1. DOMAIN bases \subseteq Nat
    <3> HIDE DEF bases
    <3> QED BY <1>1
  <2> QED BY <2>1 DEF GenericBases
<1>3. alias = IF ends = {} THEN Ok(None) ELSE Then(AliasOrigin(heap, first), LAMBDA c : Some(first))
  BY Zenon DEF GenericBaseOf
<1>4. ends # {} => Min(ends) \in ends
  <2> HIDE DEF ends, bases
  <2> QED BY <1>2, MinFacts
<1>5. \A i \in DOMAIN bases : bases[i] \in named
  <2> HIDE DEF named, bases
  <2> QED BY <1>1 DEF ToSet
<1>6. ASSUME NEW b \in of
      PROVE  /\ base \in ToSet(heap[o].lineage)
             /\ HasAttr(heap, b, "__origin__")
  <2>1. b \in ToSet(bases) /\ AliasOrigin(heap, b) = Ok(base)
    <3> HIDE DEF bases, named
    <3> QED BY <1>1, <1>6
  <2>2. base \in ToSet(heap[o].lineage)
    BY <2>1 DEF IsHeap
  <2>3. Ok(base).r = "ok"
    BY DEF Ok
  <2> HIDE DEF bases
  <2> QED BY <2>1, <2>2, <2>3, AliasOriginIs
<1>7. CASE ends = {}
  <2>1. of = {}
    <3>1. SUFFICES ASSUME NEW b \in of PROVE FALSE
      OBVIOUS
    <3>2. PICK i \in DOMAIN bases : bases[i] = b
      <4> HIDE DEF bases
      <4>1. b \in ToSet(bases)
        BY <1>1
      <4> QED BY <4>1 DEF ToSet
    <3>3. i \in ends
      BY <1>6, <3>2 DEF GenericBases
    <3> QED BY <1>7, <3>3
  <2>2. alias.r = "ok" /\ alias.v = None
    <3> HIDE DEF alias, ends, first
    <3> QED BY <1>3, <1>7 DEF Ok
  <2> HIDE DEF alias, named
  <2> QED BY <2>1, <2>2 DEF BaseIsTold, alias, named
<1>8. CASE ends # {} /\ AliasOrigin(heap, first).r # "ok"
  <2>1. alias = AliasOrigin(heap, first)
    <3> HIDE DEF alias, ends, first
    <3> QED BY <1>3, <1>8 DEF Then
  <2>2. first \in named
    <3> HIDE DEF named
    <3> QED BY <1>2, <1>4, <1>5, <1>8
  <2> HIDE DEF alias, first, named
  <2> QED BY <1>8, <2>1, <2>2 DEF BaseIsTold, alias, named
<1>9. CASE ends # {} /\ AliasOrigin(heap, first).r = "ok"
  <2>1. alias = Ok(Some(first))
    <3> HIDE DEF alias, ends, first
    <3> QED BY <1>3, <1>9, Zenon DEF Then
  <2>2. alias.r = "ok" /\ alias.v # None /\ alias.v.v = first
    <3> HIDE DEF alias, first
    <3> QED BY <2>1 DEF Ok, Some, None
  <2>3. first \in of
    <3>1. Min(ends) \in DOMAIN bases /\ AliasOrigin(heap, first) \in {Ok(base), Conversion, GuestError}
      BY <1>2, <1>4, <1>9
    <3>2. Conversion.r # "ok" /\ GuestError.r # "ok"
      BY DEF Conversion, GuestError
    <3>3. first \in named
      <4> HIDE DEF named
      <4> QED BY <1>5, <3>1
    <3> HIDE DEF first, named
    <3> QED BY <1>9, <3>1, <3>2, <3>3
  <2>4. base \in ToSet(heap[o].lineage)
    BY <1>6, <2>3
  <2> HIDE DEF alias, first, named
  <2> QED BY <2>2, <2>3, <2>4 DEF BaseIsTold, alias, named
<1> QED BY <1>7, <1>8, <1>9

-----------------------------------------------------------------------------
(* What a class is built of.                                               *)

\* The builders after 0, 1, ... n of the declarations of a class; there are such.
IsBuilding(decls, n, built) ==
    built = [k \in 0..n |-> IF k = 0 THEN NewBuilder ELSE Declare(built[k - 1], decls, k)]

LEMMA HasBuilding ==
    ASSUME NEW decls, NEW n \in Nat
    PROVE  \E built : IsBuilding(decls, n, built)
<1> DEFINE S == {m \in 0..n : \E built : IsBuilding(decls, m, built)}
<1>1. 0 \in S
  <2> DEFINE first == [k \in 0..0 |-> NewBuilder]
  <2>1. IsBuilding(decls, 0, first)
    BY DEF IsBuilding
  <2> QED BY <2>1
<1>2. ASSUME NEW m \in 1..n, m - 1 \in S
      PROVE  m \in S
  <2>1. PICK built : IsBuilding(decls, m - 1, built)
    BY <1>2
  <2> DEFINE further == [k \in 0..m |-> IF k = m THEN Declare(built[m - 1], decls, m) ELSE built[k]]
             ruled == [k \in 0..m |-> IF k = 0 THEN NewBuilder ELSE Declare(further[k - 1], decls, k)]
  <2>2. \A k \in 0..m : further[k] = ruled[k]
    <3>1. SUFFICES ASSUME NEW k \in 0..m PROVE further[k] = ruled[k]
      OBVIOUS
    <3>2. CASE k = m
      <4>1. further[m - 1] = built[m - 1] /\ m # 0
        OBVIOUS
      <4> QED BY <3>2, <4>1
    <3>3. CASE k # m
      <4>1. k \in 0..(m - 1) /\ further[k] = built[k] /\ (k # 0 => further[k - 1] = built[k - 1])
        BY <3>3
      <4>2. built[k] = IF k = 0 THEN NewBuilder ELSE Declare(built[k - 1], decls, k)
        BY <2>1, <4>1 DEF IsBuilding
      <4> QED BY <4>1, <4>2, Zenon
    <3> QED BY <3>2, <3>3
  <2>3. further = ruled
    BY <2>2
  <2>4. IsBuilding(decls, m, further)
    BY <2>3 DEF IsBuilding
  <2> QED BY <2>4
<1> HIDE DEF S
<1>3. n \in S
  BY <1>1, <1>2, Counting
<1> QED BY <1>3 DEF S

\* Building, a CHOOSE, is these builders.
LEMMA BuildingIs ==
    ASSUME NEW decls, Len(decls) \in Nat
    PROVE  IsBuilding(decls, Len(decls), Building(decls))
<1> DEFINE built == CHOOSE built : IsBuilding(decls, Len(decls), built)
<1>1. IsBuilding(decls, Len(decls), built)
  BY HasBuilding
<1>2. Building(decls) = built
  BY DEF Building, IsBuilding
<1> QED BY <1>1, <1>2

\* A sequence is one of what it holds.
LEMMA OwnSet ==
    ASSUME NEW S, NEW s \in Seq(S)
    PROVE  s \in Seq(ToSet(s))
<1>1. Len(s) \in Nat /\ DOMAIN s = 1..Len(s) /\ s \in [1..Len(s) -> S]
  OBVIOUS
<1>2. s \in [1..Len(s) -> ToSet(s)]
  BY <1>1 DEF ToSet
<1> QED BY <1>1, <1>2, TupleIsSeq

\* The accessors of a name for a use, and the one that its slot holds.
AccessorsOf(decls, n, name, use) ==
    {j \in 1..n : /\ ~decls[j].static /\ decls[j].kind \in AccessorKinds
                  /\ decls[j].name = name /\ use \in UsesOf(decls[j], "instance")}
IsOneOf(i, S) == i \in S \/ (i = 0 /\ S = {})
HoldsAccessors(holds, decls, n, name) ==
    /\ holds = Property(holds.of, holds.set, holds.del)
    /\ IsOneOf(holds.of, AccessorsOf(decls, n, name, "get"))
    /\ IsOneOf(holds.set, AccessorsOf(decls, n, name, "set"))
    /\ IsOneOf(holds.del, AccessorsOf(decls, n, name, "delete"))

\* A member of a class is of a slot or of a declaration.
IsOf(declaration) ==
    IF declaration.kind = "constant" THEN "value"
    ELSE IF declaration.kind \in {"method", "async_method"} THEN "method"
    ELSE IF declaration.kind = "class_method" THEN "classmethod" ELSE "staticmethod"
OfDeclaration(member, decls, n) ==
    /\ member.of \in 1..n
    /\ ~decls[member.of].static /\ decls[member.of].kind \in ClassKinds \ AccessorKinds
    /\ member.name = decls[member.of].name /\ member.is = IsOf(decls[member.of])
OfSlot(member, slots) ==
    member.is = "slot" /\ \E s \in DOMAIN slots : slots[s].name = member.name

\* The members and the slots of n declarations.
SlotFor(name, holds) == [name |-> name, holds |-> holds]
IsSlot(slot) == \E name, holds : slot = SlotFor(name, holds)
BuilderFits(members, slots, decls, n) ==
    /\ members \in Seq(ToSet(members)) /\ slots \in Seq(ToSet(slots))
    /\ \A s \in DOMAIN slots : IsSlot(slots[s])
    /\ \A k \in DOMAIN members : OfSlot(members[k], slots) \/ OfDeclaration(members[k], decls, n)
    /\ \A j \in 1..n : ~decls[j].static => \E k \in DOMAIN members : members[k].name = decls[j].name
    /\ \A s \in DOMAIN slots : \E k \in DOMAIN members : members[k].name = slots[s].name
    /\ \A s \in DOMAIN slots, t \in DOMAIN slots : slots[s].name = slots[t].name => s = t
    /\ \A s \in DOMAIN slots : HoldsAccessors(slots[s].holds, decls, n, slots[s].name)
    /\ \A j \in 1..n : ~decls[j].static /\ decls[j].kind \in AccessorKinds =>
           \E s \in DOMAIN slots : slots[s].name = decls[j].name
BuilderOf(members, slots, error) == [members |-> members, slots |-> slots, error |-> error]
IsAsked(slot, decls, n) ==
    \E j \in 1..n : ~decls[j].static /\ decls[j].kind \in AccessorKinds /\ decls[j].name = slot.name
SlotsAreAsked(slots, decls, n) == \A s \in DOMAIN slots : IsAsked(slots[s], decls, n)
IsBuilderOf(builder, decls, n) ==
    \E members, slots, error :
        /\ builder = BuilderOf(members, slots, error)
        /\ BuilderFits(members, slots, decls, n) /\ SlotsAreAsked(slots, decls, n)

\* A new builder fits no declarations.
LEMMA NothingFits ==
    ASSUME NEW decls
    PROVE  IsBuilderOf(NewBuilder, decls, 0)
<1>1. NewBuilder = BuilderOf(<<>>, <<>>, 0)
  BY DEF NewBuilder, BuilderOf
<1>2. BuilderFits(<<>>, <<>>, decls, 0)
  BY DEF BuilderFits
<1>3. SlotsAreAsked(<<>>, decls, 0)
  BY DEF SlotsAreAsked
<1> QED BY <1>1, <1>2, <1>3 DEF IsBuilderOf

\* What does not change with a declaration that is no accessor of a name.
LEMMA OthersHold ==
    ASSUME NEW decls, NEW n \in Nat, NEW m \in Nat, m = n + 1, NEW name, NEW holds,
           HoldsAccessors(holds, decls, n, name),
           decls[m].static \/ decls[m].kind \notin AccessorKinds \/ decls[m].name # name
    PROVE  HoldsAccessors(holds, decls, m, name)
<1>1. \A use : AccessorsOf(decls, m, name, use) = AccessorsOf(decls, n, name, use)
  <2>1. \A j : j \in 1..m <=> j \in 1..n \/ j = m
    OBVIOUS
  <2> QED BY <2>1 DEF AccessorsOf
<1> QED BY <1>1 DEF HoldsAccessors

\* A static declaration leaves the members as they are.
LEMMA StaticFits ==
    ASSUME NEW decls, NEW n \in Nat, NEW m \in Nat, m = n + 1, NEW builder, IsBuilderOf(builder, decls, n),
           decls[m].static
    PROVE  IsBuilderOf(builder, decls, m)
<1>1. PICK members, slots, error :
          /\ builder = BuilderOf(members, slots, error)
          /\ BuilderFits(members, slots, decls, n) /\ SlotsAreAsked(slots, decls, n)
  BY DEF IsBuilderOf
<1>a. SlotsAreAsked(slots, decls, m)
  <2>1. \A j : j \in 1..n => j \in 1..m
    OBVIOUS
  <2> QED BY <1>1, <2>1 DEF SlotsAreAsked, IsAsked
<1>2. \A j : j \in 1..m <=> j \in 1..n \/ j = m
  OBVIOUS
<1>3. \A s \in DOMAIN slots : HoldsAccessors(slots[s].holds, decls, m, slots[s].name)
  BY <1>1, OthersHold DEF BuilderFits
<1>4. \A k \in DOMAIN members : OfDeclaration(members[k], decls, n) => OfDeclaration(members[k], decls, m)
  BY <1>2 DEF OfDeclaration
<1>5. BuilderFits(members, slots, decls, m)
  BY <1>1, <1>2, <1>3, <1>4 DEF BuilderFits
<1> QED BY <1>1, <1>5, <1>a DEF IsBuilderOf

\* A member of the declaration that comes next.
NewMember(decls, i, is) == [name |-> decls[i].name, of |-> i, is |-> is]
LEMMA MemberFits ==
    ASSUME NEW decls, NEW n \in Nat, NEW m \in Nat, m = n + 1, NEW members, NEW slots,
           BuilderFits(members, slots, decls, n),
           ~decls[m].static, decls[m].kind \in ClassKinds \ AccessorKinds
    PROVE  BuilderFits(Append(members, NewMember(decls, m, IsOf(decls[m]))), slots, decls, m)
<1> DEFINE new == NewMember(decls, m, IsOf(decls[m]))
           more == Append(members, new)
           length == Len(members)
<1>0. new.name = decls[m].name /\ new.of = m /\ new.is = IsOf(decls[m])
  BY DEF NewMember
<1>1. members \in Seq(ToSet(members))
  BY DEF BuilderFits
<1> HIDE DEF new
<1>2. /\ length \in Nat /\ DOMAIN members = 1..length
      /\ DOMAIN more = 1..(length + 1) /\ more[length + 1] = new
      /\ \A k \in 1..length : more[k] = members[k]
  BY <1>1
<1>3. \A k : k \in 1..(length + 1) <=> k \in 1..length \/ k = length + 1
  BY <1>2
<1>4. more \in Seq(ToSet(more))
  <2>1. more \in Seq(ToSet(members) \cup {new})
    BY <1>1
  <2> HIDE DEF more
  <2> QED BY <2>1, OwnSet
<1> HIDE DEF more, length
<1>5. \A j : j \in 1..m <=> j \in 1..n \/ j = m
  OBVIOUS
<1>6. \A s \in DOMAIN slots : HoldsAccessors(slots[s].holds, decls, m, slots[s].name)
  BY OthersHold DEF BuilderFits
<1>7. \A k \in DOMAIN more : OfSlot(more[k], slots) \/ OfDeclaration(more[k], decls, m)
  <2>1. ASSUME NEW k \in 1..length
        PROVE  OfSlot(more[k], slots) \/ OfDeclaration(more[k], decls, m)
    <3>1. OfSlot(members[k], slots) \/ OfDeclaration(members[k], decls, n)
      BY <1>2 DEF BuilderFits
    <3>2. OfDeclaration(members[k], decls, n) => OfDeclaration(members[k], decls, m)
      BY <1>5 DEF OfDeclaration
    <3> QED BY <1>2, <3>1, <3>2
  <2>2. OfDeclaration(new, decls, m)
    BY <1>0, <1>5 DEF OfDeclaration
  <2> QED BY <1>2, <1>3, <2>1, <2>2
<1>8. \A name : (\E k \in DOMAIN members : members[k].name = name) =>
                    \E k \in DOMAIN more : more[k].name = name
  BY <1>2, <1>3
<1>9. \A j \in 1..m : ~decls[j].static => \E k \in DOMAIN more : more[k].name = decls[j].name
  <2>1. more[length + 1].name = decls[m].name /\ length + 1 \in DOMAIN more
    BY <1>0, <1>2, <1>3
  <2> QED BY <1>5, <1>8, <2>1 DEF BuilderFits
<1>10. \A s \in DOMAIN slots : \E k \in DOMAIN more : more[k].name = slots[s].name
  BY <1>8 DEF BuilderFits
<1>11. \A j \in 1..m : ~decls[j].static /\ decls[j].kind \in AccessorKinds =>
           \E s \in DOMAIN slots : slots[s].name = decls[j].name
  BY <1>5 DEF BuilderFits
<1>12. BuilderFits(more, slots, decls, m)
  BY <1>4, <1>6, <1>7, <1>9, <1>10, <1>11 DEF BuilderFits
<1> QED BY <1>12 DEF more, new

\* A declaration that is no accessor pushes a member of its own.
LEMMA PushFits ==
    ASSUME NEW decls, NEW n \in Nat, NEW m \in Nat, m = n + 1, NEW builder, IsBuilderOf(builder, decls, n),
           ~decls[m].static, decls[m].kind \in ClassKinds \ AccessorKinds
    PROVE  IsBuilderOf(Declare(builder, decls, m), decls, m)
<1>1. PICK members, slots, error :
          /\ builder = BuilderOf(members, slots, error)
          /\ BuilderFits(members, slots, decls, n) /\ SlotsAreAsked(slots, decls, n)
  BY DEF IsBuilderOf
<1>a. SlotsAreAsked(slots, decls, m)
  <2>1. \A j : j \in 1..n => j \in 1..m
    OBVIOUS
  <2> QED BY <1>1, <2>1 DEF SlotsAreAsked, IsAsked
<1> DEFINE more == Append(members, NewMember(decls, m, IsOf(decls[m])))
<1>2. BuilderFits(more, slots, decls, m)
  BY <1>1, MemberFits
<1>3. \A is : PushMember(builder, decls, m, is) = BuilderOf(Append(members, NewMember(decls, m, is)), slots, error)
  <2>1. \A is : PushMember(builder, decls, m, is)
                    = [builder EXCEPT !.members = Append(@, NewMember(decls, m, is))]
    BY DEF PushMember, NewMember
  <2>2. \A new : [BuilderOf(members, slots, error) EXCEPT !.members = Append(@, new)]
                     = BuilderOf(Append(members, new), slots, error)
    <3>1. ASSUME NEW new
          PROVE  [BuilderOf(members, slots, error) EXCEPT !.members = Append(@, new)]
                     = BuilderOf(Append(members, new), slots, error)
      <4>1. BuilderOf(members, slots, error).members = members
        BY DEF BuilderOf
      <4>2. \A x : [BuilderOf(members, slots, error) EXCEPT !.members = x] = BuilderOf(x, slots, error)
        BY DEF BuilderOf
      <4> QED BY <4>1, <4>2, Zenon
    <3> QED BY <3>1
  <2> QED BY <1>1, <2>1, <2>2
<1>4. \E e : Declare(builder, decls, m) = BuilderOf(more, slots, e)
  <2>1. CASE decls[m].kind = "async_method"
    <3>1. IsOf(decls[m]) = "method"
      BY <2>1 DEF IsOf
    <3>2. Declare(builder, decls, m) = PushAsync(builder, decls, m)
      BY <2>1 DEF Declare
    <3>3. PushMember(builder, decls, m, "method") = BuilderOf(more, slots, error)
      BY <1>3, <3>1
    <3> HIDE DEF more
    <3>4. \A e : [BuilderOf(more, slots, error) EXCEPT !.error = e] = BuilderOf(more, slots, e)
      BY DEF BuilderOf
    <3>5. PICK e : PushAsync(builder, decls, m) = [PushMember(builder, decls, m, "method") EXCEPT !.error = e]
      BY DEF PushAsync
    <3>6. PushAsync(builder, decls, m) = [BuilderOf(more, slots, error) EXCEPT !.error = e]
      BY <3>3, <3>5, Zenon
    <3>7. PushAsync(builder, decls, m) = BuilderOf(more, slots, e)
      BY <3>4, <3>6, Zenon
    <3> QED BY <3>2, <3>7, Zenon
  <2>2. CASE decls[m].kind # "async_method"
    <3>1. Declare(builder, decls, m) = PushMember(builder, decls, m, IsOf(decls[m]))
      BY <2>2 DEF Declare, IsOf, ClassKinds, AccessorKinds
    <3> QED BY <1>3, <3>1
  <2> QED BY <2>1, <2>2
<1> QED BY <1>2, <1>4, <1>a DEF IsBuilderOf

\* The slot of a name is there.
NewSlot(name) == SlotFor(name, Property(0, 0, 0))
HasSlot(builder, decls, n, name) ==
    \E members, slots, error :
        /\ builder = BuilderOf(members, slots, error) /\ BuilderFits(members, slots, decls, n)
        /\ \E s \in DOMAIN slots : slots[s].name = name
        /\ \A s \in DOMAIN slots : slots[s].name = name \/ IsAsked(slots[s], decls, n)

LEMMA SlotFits ==
    ASSUME NEW decls, NEW n \in Nat, NEW members, NEW slots, BuilderFits(members, slots, decls, n),
           SlotsAreAsked(slots, decls, n), NEW error, NEW name
    PROVE  HasSlot(PropertySlot(BuilderOf(members, slots, error), name), decls, n, name)
<1> DEFINE builder == BuilderOf(members, slots, error)
<1>1. builder.members = members /\ builder.slots = slots
  BY DEF BuilderOf
<1>2. SlotOf(builder, name) = {s \in DOMAIN slots : slots[s].name = name}
  BY <1>1 DEF SlotOf
<1>3. CASE SlotOf(builder, name) # {}
  <2>1. PropertySlot(builder, name) = builder
    BY <1>3 DEF PropertySlot
  <2>2. \E s \in DOMAIN slots : slots[s].name = name
    BY <1>2, <1>3
  <2>3. \A s \in DOMAIN slots : IsAsked(slots[s], decls, n)
    BY DEF SlotsAreAsked
  <2> QED BY <2>1, <2>2, <2>3 DEF HasSlot
<1>4. CASE SlotOf(builder, name) = {}
  <2> DEFINE new == [name |-> name, of |-> 0, is |-> "slot"]
             slot == NewSlot(name)
             more == Append(members, new)
             places == Append(slots, slot)
             length == Len(members)
             count == Len(slots)
  <2>1. PropertySlot(builder, name) = BuilderOf(more, places, error)
    <3>1. PropertySlot(builder, name) =
              [builder EXCEPT !.members = Append(@, new), !.slots = Append(@, slot)]
      BY <1>4 DEF PropertySlot, NewSlot, SlotFor
    <3>2. \A x, y : [BuilderOf(members, slots, error) EXCEPT !.members = x, !.slots = y] = BuilderOf(x, y, error)
      <4>1. \A x : [BuilderOf(members, slots, error) EXCEPT !.members = x] = BuilderOf(x, slots, error)
        BY DEF BuilderOf
      <4>2. \A x, y : [BuilderOf(x, slots, error) EXCEPT !.slots = y] = BuilderOf(x, y, error)
        BY DEF BuilderOf
      <4>3. \A x, y : [BuilderOf(members, slots, error) EXCEPT !.members = x, !.slots = y]
                          = [[BuilderOf(members, slots, error) EXCEPT !.members = x] EXCEPT !.slots = y]
        OBVIOUS
      <4> QED BY <4>1, <4>2, <4>3
    <3>3. [builder EXCEPT !.members = Append(@, new), !.slots = Append(@, slot)]
              = [builder EXCEPT !.members = Append(members, new), !.slots = Append(slots, slot)]
      <4> HIDE DEF builder, new, slot
      <4> QED BY <1>1
    <3> QED BY <3>1, <3>2, <3>3, Zenon
  <2>2. new.name = name /\ new.is = "slot" /\ slot.name = name /\ slot.holds = Property(0, 0, 0) /\ IsSlot(slot)
    BY DEF NewSlot, SlotFor, IsSlot
  <2>3. members \in Seq(ToSet(members)) /\ slots \in Seq(ToSet(slots))
    BY DEF BuilderFits
  <2> HIDE DEF new, slot
  <2>4. /\ length \in Nat /\ DOMAIN members = 1..length
        /\ DOMAIN more = 1..(length + 1) /\ more[length + 1] = new
        /\ \A k \in 1..length : more[k] = members[k]
    BY <2>3
  <2>5. /\ count \in Nat /\ DOMAIN slots = 1..count
        /\ DOMAIN places = 1..(count + 1) /\ places[count + 1] = slot
        /\ \A s \in 1..count : places[s] = slots[s]
    BY <2>3
  <2>6. more \in Seq(ToSet(more)) /\ places \in Seq(ToSet(places))
    <3>1. more \in Seq(ToSet(members) \cup {new}) /\ places \in Seq(ToSet(slots) \cup {slot})
      BY <2>3
    <3> HIDE DEF more, places
    <3> QED BY <3>1, OwnSet
  <2> HIDE DEF more, places, length, count
  <2>7. /\ \A k : k \in 1..(length + 1) <=> k \in 1..length \/ k = length + 1
        /\ \A s : s \in 1..(count + 1) <=> s \in 1..count \/ s = count + 1
    BY <2>4, <2>5
  <2>8. \A x : (\E k \in DOMAIN members : members[k].name = x) => \E k \in DOMAIN more : more[k].name = x
    BY <2>4, <2>7
  <2>9. \A x : (\E s \in DOMAIN slots : slots[s].name = x) => \E s \in DOMAIN places : places[s].name = x
    BY <2>5, <2>7
  <2>10. (\E k \in DOMAIN more : more[k].name = name) /\ \E s \in DOMAIN places : places[s].name = name
    <3>1. length + 1 \in DOMAIN more /\ count + 1 \in DOMAIN places
      BY <2>4, <2>5, <2>7
    <3> QED BY <2>2, <2>4, <2>5, <3>1
  <2>11. \A k \in DOMAIN more : OfSlot(more[k], places) \/ OfDeclaration(more[k], decls, n)
    <3>1. OfSlot(new, places)
      BY <2>2, <2>10 DEF OfSlot
    <3>2. ASSUME NEW k \in 1..length
          PROVE  OfSlot(more[k], places) \/ OfDeclaration(more[k], decls, n)
      <4>1. OfSlot(members[k], slots) \/ OfDeclaration(members[k], decls, n)
        BY <2>4 DEF BuilderFits
      <4>2. OfSlot(members[k], slots) => OfSlot(members[k], places)
        BY <2>9 DEF OfSlot
      <4> QED BY <2>4, <4>1, <4>2
    <3> QED BY <2>4, <2>7, <3>1, <3>2
  <2>12. \A s \in 1..count : slots[s].name # name
    BY <1>2, <1>4, <2>5
  <2>13. \A s \in DOMAIN places, t \in DOMAIN places : places[s].name = places[t].name => s = t
    BY <2>2, <2>5, <2>7, <2>12 DEF BuilderFits
  <2>14. \A s \in DOMAIN places : \E k \in DOMAIN more : more[k].name = places[s].name
    <3>1. \A s \in 1..count : \E k \in DOMAIN more : more[k].name = slots[s].name
      BY <2>5, <2>8 DEF BuilderFits
    <3> QED BY <2>2, <2>5, <2>7, <2>10, <3>1
  <2>15. HoldsAccessors(slot.holds, decls, n, name)
    <3>1. \A use : AccessorsOf(decls, n, name, use) = {}
      BY <2>5, <2>12 DEF AccessorsOf, BuilderFits
    <3>2. slot.holds.of = 0 /\ slot.holds.set = 0 /\ slot.holds.del = 0
      BY <2>2 DEF Property
    <3> QED BY <2>2, <3>1, <3>2 DEF HoldsAccessors, IsOneOf
  <2>16. \A s \in DOMAIN places : HoldsAccessors(places[s].holds, decls, n, places[s].name)
    BY <2>2, <2>5, <2>7, <2>15 DEF BuilderFits
  <2>18. \A s \in DOMAIN places : IsSlot(places[s])
    BY <2>2, <2>5, <2>7 DEF BuilderFits
  <2>17. BuilderFits(more, places, decls, n)
    BY <2>18, <2>6, <2>8, <2>9, <2>11, <2>13, <2>14, <2>16 DEF BuilderFits
  <2>19. \A s \in DOMAIN places : places[s].name = name \/ IsAsked(places[s], decls, n)
    <3>1. \A s \in 1..count : IsAsked(slots[s], decls, n)
      BY <2>5 DEF SlotsAreAsked
    <3> QED BY <2>2, <2>5, <2>7, <3>1
  <2> QED BY <2>1, <2>10, <2>17, <2>19 DEF HasSlot
<1> QED BY <1>3, <1>4

\* What a slot holds once the accessor that comes next is set.
WithAccessor(decls, i, holds) ==
    Property(IF decls[i].kind \in {"getter", "property"} THEN i ELSE holds.of,
             IF decls[i].kind \in {"setter", "property"} THEN i ELSE holds.set,
             IF decls[i].kind = "deleter" THEN i ELSE holds.del)
LEMMA AccessorHolds ==
    ASSUME NEW decls, NEW n \in Nat, NEW m \in Nat, m = n + 1, NEW holds,
           HoldsAccessors(holds, decls, n, decls[m].name),
           ~decls[m].static, decls[m].kind \in AccessorKinds
    PROVE  HoldsAccessors(WithAccessor(decls, m, holds), decls, m, decls[m].name)
<1> DEFINE theirs == UsesOf(decls[m], "instance")
           now == WithAccessor(decls, m, holds)
           name == decls[m].name
<1>1. \A use : AccessorsOf(decls, m, name, use) =
                   IF use \in theirs THEN AccessorsOf(decls, n, name, use) \cup {m}
                   ELSE AccessorsOf(decls, n, name, use)
  <2>1. \A j : j \in 1..m <=> j \in 1..n \/ j = m
    OBVIOUS
  <2> HIDE DEF theirs
  <2> QED BY <2>1 DEF AccessorsOf, theirs
<1>2. theirs = IF decls[m].kind = "getter" THEN {"get"}
             ELSE IF decls[m].kind = "property" THEN {"get", "set"}
             ELSE IF decls[m].kind = "setter" THEN {"set"} ELSE {"delete"}
  BY DEF UsesOf, AccessorKinds
<1>3. /\ now = Property(now.of, now.set, now.del)
      /\ now.of = (IF "get" \in theirs THEN m ELSE holds.of)
      /\ now.set = (IF "set" \in theirs THEN m ELSE holds.set)
      /\ now.del = (IF "delete" \in theirs THEN m ELSE holds.del)
  <2> HIDE DEF theirs
  <2> QED BY <1>2 DEF WithAccessor, Property, AccessorKinds
<1> HIDE DEF theirs, now
<1>4. \A use, i, j : IsOneOf(i, AccessorsOf(decls, n, name, use)) /\ (j = IF use \in theirs THEN m ELSE i)
                         => IsOneOf(j, AccessorsOf(decls, m, name, use))
  <2>1. SUFFICES ASSUME NEW use, NEW i, NEW j, IsOneOf(i, AccessorsOf(decls, n, name, use)),
                        j = IF use \in theirs THEN m ELSE i
                 PROVE  IsOneOf(j, AccessorsOf(decls, m, name, use))
    OBVIOUS
  <2>2. CASE use \in theirs
    <3>1. AccessorsOf(decls, m, name, use) = AccessorsOf(decls, n, name, use) \cup {m} /\ j = m
      BY <1>1, <2>1, <2>2, Zenon
    <3> QED BY <3>1 DEF IsOneOf
  <2>3. CASE use \notin theirs
    <3>1. AccessorsOf(decls, m, name, use) = AccessorsOf(decls, n, name, use) /\ j = i
      BY <1>1, <2>1, <2>3, Zenon
    <3> QED BY <2>1, <3>1 DEF IsOneOf
  <2> QED BY <2>2, <2>3
<1>5. HoldsAccessors(now, decls, m, name)
  BY <1>3, <1>4 DEF HoldsAccessors
<1> QED BY <1>5 DEF now

\* An accessor goes into the slot of its name, which is there or is made.
LEMMA AccessorFits ==
    ASSUME NEW decls, NEW n \in Nat, NEW m \in Nat, m = n + 1, NEW members, NEW slots, NEW error,
           BuilderFits(members, slots, decls, n), ~decls[m].static, decls[m].kind \in AccessorKinds,
           \E s \in DOMAIN slots : slots[s].name = decls[m].name,
           \A s \in DOMAIN slots : slots[s].name = decls[m].name \/ IsAsked(slots[s], decls, n)
    PROVE  IsBuilderOf(SetSlot(BuilderOf(members, slots, error), decls, m), decls, m)
<1> DEFINE builder == BuilderOf(members, slots, error)
           named == SlotOf(builder, decls[m].name)
           k == CHOOSE k \in named : TRUE
           holds == WithAccessor(decls, m, slots[k].holds)
           places == [slots EXCEPT ![k].holds = holds]
<1>1. builder.members = members /\ builder.slots = slots
  BY DEF BuilderOf
<1>2. k \in DOMAIN slots /\ slots[k].name = decls[m].name
  <2>1. named # {}
    BY <1>1 DEF SlotOf
  <2>2. k \in named
    <3> HIDE DEF named
    <3> QED BY <2>1
  <2> HIDE DEF k
  <2> QED BY <1>1, <2>2 DEF SlotOf
<1>3. SetSlot(builder, decls, m) = BuilderOf(members, places, error)
  <2>1. SetSlot(builder, decls, m) =
            [builder EXCEPT !.slots[k].holds = WithAccessor(decls, m, @)]
    BY DEF SetSlot, WithAccessor
  <2>2. [builder EXCEPT !.slots[k].holds = WithAccessor(decls, m, @)]
            = [builder EXCEPT !.slots = places]
    <3> HIDE DEF builder, k
    <3> QED BY <1>1
  <2>3. \A x : [BuilderOf(members, slots, error) EXCEPT !.slots = x] = BuilderOf(members, x, error)
    BY DEF BuilderOf
  <2> QED BY <2>1, <2>2, <2>3
<1>4. slots \in Seq(ToSet(slots))
  BY DEF BuilderFits
<1> HIDE DEF k, holds
<1>5. DOMAIN places = DOMAIN slots /\ \A s \in DOMAIN slots : s # k => places[s] = slots[s]
  BY <1>2
<1>6. places[k].name = slots[k].name /\ places[k].holds = holds /\ IsSlot(places[k])
  <2>1. PICK name, held : slots[k] = SlotFor(name, held)
    BY <1>2 DEF BuilderFits, IsSlot
  <2>2. places[k] = [slots[k] EXCEPT !.holds = holds]
    BY <1>2
  <2>3. [SlotFor(name, held) EXCEPT !.holds = holds] = SlotFor(name, holds)
    BY DEF SlotFor
  <2>4. places[k] = SlotFor(name, holds) /\ slots[k] = SlotFor(name, held)
    BY <2>1, <2>2, <2>3
  <2> HIDE DEF places
  <2>5. IsSlot(places[k])
    BY <2>4 DEF IsSlot
  <2>6. \A x : SlotFor(name, x).name = name /\ SlotFor(name, x).holds = x
    BY DEF SlotFor
  <2> QED BY <2>4, <2>5, <2>6
<1>7. places \in Seq(ToSet(places))
  <2>1. places \in [1..Len(slots) -> ToSet(slots) \cup {[slots[k] EXCEPT !.holds = holds]}]
    BY <1>2, <1>4 DEF ToSet
  <2>2. Len(slots) \in Nat
    BY <1>4
  <2> HIDE DEF places
  <2>3. places \in Seq(ToSet(slots) \cup {[slots[k] EXCEPT !.holds = holds]})
    BY <2>1, <2>2, TupleIsSeq
  <2> QED BY <2>3, OwnSet
<1> HIDE DEF places
<1>8. \A s \in DOMAIN places : places[s].name = slots[s].name /\ IsSlot(places[s])
  BY <1>5, <1>6 DEF BuilderFits
<1>9. \A s \in DOMAIN places : HoldsAccessors(places[s].holds, decls, m, places[s].name)
  <2>1. ASSUME NEW s \in DOMAIN places
        PROVE  HoldsAccessors(places[s].holds, decls, m, places[s].name)
    <3>1. HoldsAccessors(slots[s].holds, decls, n, slots[s].name)
      BY <1>5 DEF BuilderFits
    <3>2. CASE s = k
      BY <1>2, <1>6, <3>1, <3>2, AccessorHolds DEF holds
    <3>3. CASE s # k
      <4>1. slots[s].name # decls[m].name
        BY <1>2, <1>5, <3>3 DEF BuilderFits
      <4> QED BY <1>5, <3>1, <3>3, <4>1, OthersHold
    <3> QED BY <3>2, <3>3
  <2> QED BY <2>1
<1>10. \A j : j \in 1..m <=> j \in 1..n \/ j = m
  OBVIOUS
<1>11. \A x : (\E s \in DOMAIN slots : slots[s].name = x) <=> \E s \in DOMAIN places : places[s].name = x
  BY <1>5, <1>8
<1>12. \A j \in 1..m : ~decls[j].static /\ decls[j].kind \in AccessorKinds =>
           \E s \in DOMAIN places : places[s].name = decls[j].name
  <2>1. \A j \in 1..m : ~decls[j].static /\ decls[j].kind \in AccessorKinds =>
            \E s \in DOMAIN slots : slots[s].name = decls[j].name
    BY <1>2, <1>10 DEF BuilderFits
  <2> QED BY <1>11, <2>1
<1>13. \A q \in DOMAIN members : OfSlot(members[q], places) \/ OfDeclaration(members[q], decls, m)
  <2>1. \A member : OfSlot(member, slots) => OfSlot(member, places)
    BY <1>11 DEF OfSlot
  <2>2. \A member : OfDeclaration(member, decls, n) => OfDeclaration(member, decls, m)
    BY <1>10 DEF OfDeclaration
  <2> QED BY <2>1, <2>2 DEF BuilderFits
<1>14. \A s \in DOMAIN places : \E q \in DOMAIN members : members[q].name = places[s].name
  BY <1>5, <1>8 DEF BuilderFits
<1>15. \A j \in 1..m : ~decls[j].static => \E q \in DOMAIN members : members[q].name = decls[j].name
  <2>1. \E q \in DOMAIN members : members[q].name = slots[k].name
    BY <1>2 DEF BuilderFits
  <2>2. \A j \in 1..n : ~decls[j].static => \E q \in DOMAIN members : members[q].name = decls[j].name
    BY DEF BuilderFits
  <2> QED BY <1>2, <1>10, <2>1, <2>2
<1>16. \A s \in DOMAIN places, t \in DOMAIN places : places[s].name = places[t].name => s = t
  BY <1>5, <1>8 DEF BuilderFits
<1>17. members \in Seq(ToSet(members))
  BY DEF BuilderFits
<1>18. BuilderFits(members, places, decls, m)
  BY <1>7, <1>8, <1>9, <1>12, <1>13, <1>14, <1>15, <1>16, <1>17 DEF BuilderFits
<1>19. SlotsAreAsked(places, decls, m)
  <2>1. ASSUME NEW s \in DOMAIN places
        PROVE  IsAsked(places[s], decls, m)
    <3>1. CASE slots[s].name = decls[m].name
      BY <1>8, <1>10, <3>1 DEF IsAsked
    <3>2. CASE IsAsked(slots[s], decls, n)
      BY <1>8, <1>10, <3>2 DEF IsAsked
    <3> QED BY <1>5, <3>1, <3>2
  <2> QED BY <2>1 DEF SlotsAreAsked
<1> QED BY <1>3, <1>18, <1>19 DEF IsBuilderOf

\* The builder of a class after all its declarations.
LEMMA BuildingFits ==
    ASSUME NEW decls \in Seq(DeclarationsOf("class"))
    PROVE  IsBuilderOf(BuiltOf(decls), decls, Len(decls))
<1> DEFINE n == Len(decls)
           built == Building(decls)
           S == {k \in 0..n : IsBuilderOf(built[k], decls, k)}
<1>1. n \in Nat /\ DOMAIN decls = 1..n /\ \A i \in 1..n : decls[i] \in DeclarationsOf("class")
  OBVIOUS
<1>2. \A k \in 0..n : built[k] = IF k = 0 THEN NewBuilder ELSE Declare(built[k - 1], decls, k)
  BY <1>1, BuildingIs DEF IsBuilding
<1>3. \A i \in 1..n : ~decls[i].static => decls[i].kind \in ClassKinds
  BY <1>1 DEF DeclarationsOf
<1> HIDE DEF n, built
<1>4. 0 \in S
  <2>1. built[0] = NewBuilder /\ 0 \in 0..n
    BY <1>1, <1>2
  <2> QED BY <2>1, NothingFits
<1>5. ASSUME NEW k \in 1..n, k - 1 \in S
      PROVE  k \in S
  <2> DEFINE builder == built[k - 1]
  <2>1. k \in 0..n /\ k \in Nat /\ k - 1 \in Nat /\ k = (k - 1) + 1
    BY <1>1
  <2>2. IsBuilderOf(builder, decls, k - 1) /\ built[k] = Declare(builder, decls, k)
    BY <1>2, <1>5, <2>1
  <2> HIDE DEF builder
  <2>3. CASE decls[k].static
    <3>1. Declare(builder, decls, k) = builder
      BY <2>3 DEF Declare
    <3> QED BY <2>1, <2>2, <2>3, <3>1, StaticFits
  <2>4. CASE ~decls[k].static /\ decls[k].kind \in ClassKinds \ AccessorKinds
    BY <2>1, <2>2, <2>4, PushFits
  <2>5. CASE ~decls[k].static /\ decls[k].kind \in AccessorKinds
    <3>1. PICK members, slots, error :
              /\ builder = BuilderOf(members, slots, error)
              /\ BuilderFits(members, slots, decls, k - 1) /\ SlotsAreAsked(slots, decls, k - 1)
      BY <2>2 DEF IsBuilderOf
    <3>2. HasSlot(PropertySlot(builder, decls[k].name), decls, k - 1, decls[k].name)
      BY <2>1, <3>1, SlotFits
    <3>3. Declare(builder, decls, k) = SetSlot(PropertySlot(builder, decls[k].name), decls, k)
      BY <2>5 DEF Declare, AccessorKinds
    <3> DEFINE ready == PropertySlot(builder, decls[k].name)
    <3> HIDE DEF ready
    <3>4. PICK more, places, e :
              /\ ready = BuilderOf(more, places, e) /\ BuilderFits(more, places, decls, k - 1)
              /\ \E s \in DOMAIN places : places[s].name = decls[k].name
              /\ \A s \in DOMAIN places : places[s].name = decls[k].name \/ IsAsked(places[s], decls, k - 1)
      BY <3>2 DEF HasSlot, ready
    <3>5. IsBuilderOf(SetSlot(ready, decls, k), decls, k)
      BY <2>1, <2>5, <3>4, AccessorFits
    <3> QED BY <2>2, <3>3, <3>5 DEF ready
  <2> QED BY <1>3, <2>3, <2>4, <2>5
<1>6. n \in S
  <2> HIDE DEF S
  <2> QED BY <1>1, <1>4, <1>5, Counting
<1> QED BY <1>6 DEF BuiltOf, n, built

-----------------------------------------------------------------------------
(* What a name stands for.                                                 *)

\* An attribute that a Namespace made of a declaration, a class's own, and a property of either.
ByNamespace(container, decls, i) == container # "class" \/ decls[i].static
IsPlain(container, decls, name, holds) ==
    /\ holds.of \in Declaring(decls, name) /\ ByNamespace(container, decls, holds.of)
    /\ \/ holds.is = "value" /\ decls[holds.of].kind = "constant"
       \/ holds.is = "function" /\ decls[holds.of].kind \in {"function", "async_function"}
       \/ holds.is = "got" /\ decls[holds.of].kind = "getter" /\ container = "module"
IsOfClass(container, decls, name, holds) ==
    /\ container = "class" /\ holds.of \in Declaring(decls, name) /\ ~decls[holds.of].static
    /\ decls[holds.of].kind \in ClassKinds \ AccessorKinds /\ holds.is = IsOf(decls[holds.of])
IsAskedFor(container, decls, name, holds) ==
    /\ container = "module" /\ Declaring(decls, name) = {}
    /\ holds.is = "asked" /\ holds.of \in Declaring(decls, "__getattr__")
IsNamespaceProperty(container, decls, name, holds) ==
    /\ container # "module"
    /\ holds.of \in Declaring(decls, name) /\ ByNamespace(container, decls, holds.of)
    /\ \/ decls[holds.of].kind = "getter" /\ holds = Property(holds.of, 0, 0)
       \/ decls[holds.of].kind = "property" /\ holds = Property(holds.of, holds.of, 0)
IsClassProperty(container, decls, name, holds) ==
    /\ container = "class" /\ HoldsAccessors(holds, decls, Len(decls), name)
    /\ \E j \in Declaring(decls, name) : ~decls[j].static /\ decls[j].kind \in AccessorKinds
StandsFor(container, decls, name, holds) ==
    \/ holds.is = "own" \/ (holds.is = "missing" /\ Declaring(decls, name) = {})
    \/ IsPlain(container, decls, name, holds)
    \/ IsOfClass(container, decls, name, holds)
    \/ IsAskedFor(container, decls, name, holds)
    \/ IsNamespaceProperty(container, decls, name, holds)
    \/ IsClassProperty(container, decls, name, holds)

LEMMA HoldingIs ==
    ASSUME NEW is, NEW i
    PROVE  Holding(is, i).is = is /\ Holding(is, i).of = i
BY DEF Holding

LEMMA PropertyIs ==
    ASSUME NEW get, NEW set, NEW del
    PROVE  /\ Property(get, set, del).is = "property" /\ Property(get, set, del).of = get
           /\ Property(get, set, del).set = set /\ Property(get, set, del).del = del
BY DEF Property

\* What a Namespace makes of a declaration.
LEMMA RealisedStands ==
    ASSUME NEW container, NEW decls, NEW name, NEW i \in Declaring(decls, name),
           ByNamespace(container, decls, i), decls[i].kind \in NamespaceKinds,
           container = "module" => decls[i].kind \notin {"getter", "property"}
    PROVE  \/ IsPlain(container, decls, name, RealiseMember(decls, i))
           \/ IsNamespaceProperty(container, decls, name, RealiseMember(decls, i))
<1>1. CASE decls[i].kind = "constant"
  <2>1. RealiseMember(decls, i) = Holding("value", i)
    BY <1>1 DEF RealiseMember
  <2> QED BY <1>1, <2>1, HoldingIs DEF IsPlain
<1>2. CASE decls[i].kind \in {"function", "async_function"}
  <2>1. RealiseMember(decls, i) = Holding("function", i)
    BY <1>2 DEF RealiseMember
  <2> QED BY <1>2, <2>1, HoldingIs DEF IsPlain
<1>3. CASE decls[i].kind = "getter"
  <2>1. RealiseMember(decls, i) = Property(i, 0, 0)
    BY <1>3 DEF RealiseMember
  <2>2. RealiseMember(decls, i).of = i
    BY <2>1, PropertyIs
  <2> QED BY <1>3, <2>1, <2>2 DEF IsNamespaceProperty
<1>4. CASE decls[i].kind = "property"
  <2>1. RealiseMember(decls, i) = Property(i, i, 0)
    BY <1>4 DEF RealiseMember
  <2>2. RealiseMember(decls, i).of = i
    BY <2>1, PropertyIs
  <2> QED BY <1>4, <2>1, <2>2 DEF IsNamespaceProperty
<1> QED BY <1>1, <1>2, <1>3, <1>4 DEF NamespaceKinds

\* The declarations, and the last and the first of some.
LEMMA KindsOfDeclarations ==
    ASSUME NEW container \in Containers, NEW decls \in Seq(DeclarationsOf(container)), NEW i \in DOMAIN decls
    PROVE  /\ container = "module" => decls[i].kind \in ModuleKinds
           /\ container = "object" => decls[i].kind \in NamespaceKinds
           /\ container = "class" => decls[i].kind \in (IF decls[i].static THEN NamespaceKinds ELSE ClassKinds)
<1>1. decls[i] \in DeclarationsOf(container)
  OBVIOUS
<1>2. CASE container = "module"
  BY <1>1, <1>2 DEF DeclarationsOf
<1>3. CASE container = "object"
  BY <1>1, <1>3 DEF DeclarationsOf
<1>4. CASE container = "class"
  BY <1>1, <1>4 DEF DeclarationsOf
<1> QED BY <1>2, <1>3, <1>4 DEF Containers

LEMMA EndsAreIn ==
    ASSUME NEW X, NEW s \in Seq(X), NEW S, S \subseteq DOMAIN s, S # {}
    PROVE  Max(S) \in S /\ Min(S) \in S
<1>1. Len(s) \in Nat /\ S \subseteq 0..Len(s) /\ S \subseteq Nat
  OBVIOUS
<1> QED BY <1>1, MaxFacts, MinFacts

\* What a name of an object stands for,
LEMMA ObjectStands ==
    ASSUME NEW decls \in Seq(DeclarationsOf("object")), NEW name
    PROVE  StandsFor("object", decls, name, ObjectAttribute(decls, name))
<1> DEFINE here == Declaring(decls, name)
<1>1. CASE here = {}
  <2>1. ObjectAttribute(decls, name) = Missing
    BY <1>1 DEF ObjectAttribute
  <2> QED BY <1>1, <2>1, HoldingIs DEF Missing, StandsFor
<1>2. CASE here # {}
  <2> DEFINE i == Max(here)
  <2>1. ObjectAttribute(decls, name) = RealiseMember(decls, i)
    BY <1>2 DEF ObjectAttribute
  <2>2. here \subseteq DOMAIN decls
    BY DEF Declaring
  <2>3. i \in here
    <3> HIDE DEF here
    <3> QED BY <1>2, <2>2, EndsAreIn
  <2> HIDE DEF i
  <2>4. decls[i].kind \in NamespaceKinds
    BY <2>2, <2>3, KindsOfDeclarations DEF Containers
  <2> QED BY <2>1, <2>3, <2>4, RealisedStands DEF ByNamespace, StandsFor
<1> QED BY <1>1, <1>2

\* of a module,
LEMMA ModuleStands ==
    ASSUME NEW decls \in Seq(DeclarationsOf("module")), NEW name
    PROVE  StandsFor("module", decls, name, ModuleAttribute(decls, name))
<1> DEFINE here == Declaring(decls, name)
           getters == here \cap Getters(decls)
           values == ValuesOf(decls, name)
           asked == ValuesOf(decls, "__getattr__")
           holds == ModuleAttribute(decls, name)
<1>1. /\ here \subseteq DOMAIN decls /\ getters \subseteq DOMAIN decls /\ values \subseteq DOMAIN decls
      /\ asked \subseteq DOMAIN decls
  BY DEF Declaring, ValuesOf
<1>2. CASE name = "__getattr__" /\ Getters(decls) # {}
  <2>1. holds = Holding("own", 0)
    BY <1>2 DEF ModuleAttribute
  <2> QED BY <2>1, HoldingIs DEF StandsFor
<1>3. CASE ~(name = "__getattr__" /\ Getters(decls) # {}) /\ values # {}
  <2> DEFINE i == Max(values)
  <2>1. holds = RealiseMember(decls, i)
    BY <1>3 DEF ModuleAttribute
  <2>2. i \in values
    <3> HIDE DEF values
    <3> QED BY <1>1, <1>3, EndsAreIn
  <2> HIDE DEF i
  <2>3. i \in here /\ i \notin Getters(decls)
    BY <2>2 DEF ValuesOf
  <2>4. i \in DOMAIN decls /\ decls[i].kind # "getter"
    BY <2>3 DEF Declaring, Getters
  <2>5. decls[i].kind \in ModuleKinds
    BY <2>4, KindsOfDeclarations DEF Containers
  <2>6. decls[i].kind \in NamespaceKinds /\ decls[i].kind \notin {"getter", "property"}
    BY <2>4, <2>5 DEF ModuleKinds, NamespaceKinds
  <2> QED BY <2>1, <2>3, <2>6, RealisedStands DEF ByNamespace, StandsFor
<1>4. CASE ~(name = "__getattr__" /\ Getters(decls) # {}) /\ values = {}
  <2>1. holds = ModuleGetattr(decls, name)
    BY <1>4 DEF ModuleAttribute
  <2>2. CASE getters # {}
    <3> DEFINE i == Min(getters)
    <3>1. holds = Holding("got", i)
      BY <2>1, <2>2 DEF ModuleGetattr
    <3>2. i \in getters
      <4> HIDE DEF getters
      <4> QED BY <1>1, <2>2, EndsAreIn
    <3> HIDE DEF i
    <3>3. i \in here /\ decls[i].kind = "getter"
      BY <3>2 DEF Getters
    <3> QED BY <3>1, <3>3, HoldingIs DEF IsPlain, ByNamespace, StandsFor
  <2>3. CASE getters = {}
    <3>1. here = {}
      BY <1>4, <2>3 DEF ValuesOf
    <3>2. \/ holds = Missing
          \/ asked # {} /\ holds = Holding("asked", Max(asked))
      BY <2>1, <2>3 DEF ModuleGetattr
    <3>3. asked # {} => Max(asked) \in Declaring(decls, "__getattr__")
      <4>1. asked # {} => Max(asked) \in asked
        <5> HIDE DEF asked
        <5> QED BY <1>1, EndsAreIn
      <4> QED BY <4>1 DEF ValuesOf
    <3> QED BY <3>1, <3>2, <3>3, HoldingIs DEF Missing, IsAskedFor, StandsFor
  <2> QED BY <2>2, <2>3
<1> QED BY <1>2, <1>3, <1>4

\* of a class,
LEMMA ClassStands ==
    ASSUME NEW decls \in Seq(DeclarationsOf("class")), NEW name
    PROVE  StandsFor("class", decls, name, ClassAttribute(decls, name))
<1> DEFINE here == Declaring(decls, name)
           builder == BuiltOf(decls)
           n == Len(decls)
           statics == here \cap Statics(decls)
           holds == ClassAttribute(decls, name)
           own == name \in {"__new__", "__init__", "__doc__", "__module__"}
<1>1. here \subseteq DOMAIN decls /\ n \in Nat /\ DOMAIN decls = 1..n
  BY DEF Declaring
<1>2. CASE statics # {}
  <2> DEFINE i == Max(statics)
  <2>1. holds = RealiseMember(decls, i)
    BY <1>2 DEF ClassAttribute
  <2>2. i \in statics
    <3>1. statics \subseteq DOMAIN decls
      BY <1>1
    <3> HIDE DEF statics
    <3> QED BY <1>2, <3>1, EndsAreIn
  <2> HIDE DEF i
  <2>3. i \in here /\ i \in DOMAIN decls /\ decls[i].static
    BY <2>2 DEF Statics
  <2>4. decls[i].kind \in NamespaceKinds
    BY <2>3, KindsOfDeclarations DEF Containers
  <2> QED BY <2>1, <2>3, <2>4, RealisedStands DEF ByNamespace, StandsFor
<1>3. CASE statics = {} /\ own
  <2>1. holds = Holding("own", 0)
    BY <1>3 DEF ClassAttribute
  <2> QED BY <2>1, HoldingIs DEF StandsFor
<1>4. CASE statics = {} /\ ~own
  <2>1. PICK members, slots, error :
            /\ builder = BuilderOf(members, slots, error)
            /\ BuilderFits(members, slots, decls, n) /\ SlotsAreAsked(slots, decls, n)
    BY BuildingFits DEF IsBuilderOf
  <2> DEFINE named == {k \in DOMAIN members : members[k].name = name}
             k == Max(named)
             places == {s \in DOMAIN slots : slots[s].name = name}
             s == CHOOSE s \in places : TRUE
  <2>2. builder.members = members /\ builder.slots = slots
    BY <2>1 DEF BuilderOf
  <2>3. holds = IF named = {} THEN Missing
                ELSE IF members[k].is = "slot" THEN slots[s].holds ELSE Holding(members[k].is, members[k].of)
    <3>1. SlotOf(builder, name) = places
      BY <2>2 DEF SlotOf
    <3> QED BY <1>4, <2>2, <3>1 DEF ClassAttribute
  <2>4. \A j \in here : ~decls[j].static
    BY <1>4 DEF Statics, Declaring
  <2>5. CASE named = {}
    <3>1. here = {}
      BY <1>1, <2>1, <2>4, <2>5 DEF BuilderFits, Declaring
    <3>2. holds = Missing
      <4> HIDE DEF holds, named
      <4> QED BY <2>3, <2>5
    <3> QED BY <3>1, <3>2, HoldingIs DEF Missing, StandsFor
  <2>6. CASE named # {}
    <3>1. k \in named
      <4>1. members \in Seq(ToSet(members)) /\ named \subseteq DOMAIN members
        BY <2>1 DEF BuilderFits
      <4> HIDE DEF named
      <4> QED BY <2>6, <4>1, EndsAreIn
    <3> HIDE DEF k
    <3>2. members[k].name = name /\ (OfSlot(members[k], slots) \/ OfDeclaration(members[k], decls, n))
      BY <2>1, <3>1 DEF BuilderFits
    <3>3. CASE members[k].is = "slot"
      <4>1. holds = slots[s].holds
        <5> HIDE DEF holds, named, s
        <5> QED BY <2>3, <2>6, <3>3
      <4>2. OfSlot(members[k], slots)
        BY <3>2, <3>3 DEF OfDeclaration, IsOf
      <4>3. s \in places
        <5>1. places # {}
          BY <3>2, <4>2 DEF OfSlot
        <5> HIDE DEF places
        <5> QED BY <5>1
      <4> HIDE DEF s, holds
      <4>4. HoldsAccessors(holds, decls, n, name)
        BY <2>1, <4>1, <4>3 DEF BuilderFits
      <4>5. \E j \in here : ~decls[j].static /\ decls[j].kind \in AccessorKinds
        BY <1>1, <2>1, <4>3 DEF SlotsAreAsked, IsAsked, Declaring
      <4> QED BY <4>4, <4>5 DEF IsClassProperty, StandsFor, holds
    <3>4. CASE members[k].is # "slot"
      <4>1. holds = Holding(members[k].is, members[k].of)
        <5> HIDE DEF holds, named, s
        <5> QED BY <2>3, <2>6, <3>4
      <4>2. OfDeclaration(members[k], decls, n)
        BY <3>2, <3>4 DEF OfSlot
      <4>3. holds.is = members[k].is /\ holds.of = members[k].of
        BY <4>1, HoldingIs
      <4> HIDE DEF holds
      <4>4. holds.of \in here
        BY <1>1, <3>2, <4>2, <4>3 DEF OfDeclaration, Declaring
      <4> QED BY <4>2, <4>3, <4>4 DEF OfDeclaration, IsOfClass, StandsFor, holds
    <3> QED BY <3>3, <3>4
  <2> QED BY <2>5, <2>6
<1> QED BY <1>2, <1>3, <1>4

\* and of any of these.
LEMMA AttributeStands ==
    ASSUME NEW container \in Containers, NEW decls \in Seq(DeclarationsOf(container)), NEW name
    PROVE  StandsFor(container, decls, name, Attribute(container, decls, name))
<1>1. CASE container = "module"
  BY <1>1, ModuleStands DEF Attribute
<1>2. CASE container = "object"
  BY <1>2, ObjectStands DEF Attribute
<1>3. CASE container = "class"
  BY <1>3, ClassStands DEF Attribute
<1> QED BY <1>1, <1>2, <1>3 DEF Containers

-----------------------------------------------------------------------------
(* What a use of an attribute runs.                                        *)

UseOf(holds, member, via, use, name) ==
    IF use = "call" THEN CallAttribute(holds, via, <<"a", "b">>)
    ELSE IF use = "get" THEN GetAttribute(member, holds, via, name)
    ELSE IF use = "set" THEN SetAttribute(member, holds, via, "a")
    ELSE DeleteAttribute(holds, via)
ByClass(container, decls, holds) ==
    container = "class" /\ ~(holds.of \in Statics(decls) \/ holds.set \in Statics(decls))
RunOf(container, decls, name, via, use) == UseAttribute(container, decls, name, via, use, Passed(use))

\* It takes the attribute apart for the use.
LEMMA RunIs ==
    ASSUME NEW container, NEW decls, NEW name, NEW via, NEW use \in AttributeUses
    PROVE  RunOf(container, decls, name, via, use) =
               UseOf(Attribute(container, decls, name),
                     ByClass(container, decls, Attribute(container, decls, name)), via, use, name)
<1>1. Passed("call") = <<"a", "b">> /\ Passed("set") = <<"a">> /\ <<"a">>[1] = "a"
  BY DEF Passed
<1> DEFINE holds == Attribute(container, decls, name)
<1>2. CASE use = "call"
  BY <1>1, <1>2 DEF RunOf, UseAttribute, UseOf, ByClass
<1>3. CASE use = "get"
  BY <1>3 DEF RunOf, UseAttribute, UseOf, ByClass
<1>4. CASE use = "set"
  BY <1>1, <1>4 DEF RunOf, UseAttribute, UseOf, ByClass
<1>5. CASE use = "delete"
  BY <1>5 DEF RunOf, UseAttribute, UseOf, ByClass
<1> QED BY <1>2, <1>3, <1>4, <1>5 DEF AttributeUses

LEMMA RunsIs ==
    ASSUME NEW i, NEW receiver, NEW args
    PROVE  Runs(i, receiver, args).of = i
BY DEF Runs

LEMMA Received ==
    ASSUME NEW i
    PROVE  /\ SplitReceiver(i, <<>> \o <<"a", "b">>) = Runs(i, "a", <<"b">>)
           /\ SplitReceiver(i, <<"instance">> \o <<"a", "b">>) = Runs(i, "instance", <<"a", "b">>)
           /\ SplitReceiver(i, <<"class">> \o <<"a", "b">>) = Runs(i, "class", <<"a", "b">>)
           /\ SplitReceiver(i, <<"instance", "a">>) = Runs(i, "instance", <<"a">>)
           /\ SplitReceiver(i, <<"instance">>) = Runs(i, "instance", <<>>)
           /\ Head(<<"a", "b">>) = "a" /\ Tail(<<"a", "b">>) = <<"b">>
<1>1. /\ Head(<<"a", "b">>) = "a" /\ Tail(<<"a", "b">>) = <<"b">> /\ <<>> \o <<"a", "b">> = <<"a", "b">>
      /\ <<"a", "b">> # <<>>
  OBVIOUS
<1>2. ASSUME NEW x \in {"instance", "class"}
      PROVE  SplitReceiver(i, <<x>> \o <<"a", "b">>) = Runs(i, x, <<"a", "b">>)
  <2>1. <<x>> \o <<"a", "b">> = <<x, "a", "b">>
    <3> DEFINE s == <<x>> \o <<"a", "b">>
               whole == <<x, "a", "b">>
    <3>1. /\ <<x>> \in Seq({x, "a", "b"}) /\ Len(<<x>>) = 1
          /\ <<"a", "b">> \in Seq({x, "a", "b"}) /\ Len(<<"a", "b">>) = 2
          /\ whole \in Seq({x, "a", "b"}) /\ Len(whole) = 3
      OBVIOUS
    <3>2. s \in Seq({x, "a", "b"}) /\ Len(s) = 3
      BY <3>1, ConcatProperties
    <3>3. s[1] = x /\ s[2] = "a" /\ s[3] = "b"
      OBVIOUS
    <3>4. whole[1] = x /\ whole[2] = "a" /\ whole[3] = "b"
      OBVIOUS
    <3> HIDE DEF s, whole
    <3>5. \A j \in 1..Len(s) : s[j] = whole[j]
      BY <3>2, <3>3, <3>4
    <3>6. s = whole
      BY <3>1, <3>2, <3>5, SeqEqual
    <3> QED BY <3>6 DEF s, whole
  <2>2. Head(<<x, "a", "b">>) = x /\ <<x, "a", "b">> # <<>>
    OBVIOUS
  <2>3. Tail(<<x, "a", "b">>) = <<"a", "b">>
    OBVIOUS
  <2> QED BY <2>1, <2>2, <2>3 DEF SplitReceiver
<1>3. /\ Head(<<"instance", "a">>) = "instance" /\ Tail(<<"instance", "a">>) = <<"a">>
      /\ Head(<<"instance">>) = "instance" /\ Tail(<<"instance">>) = <<>>
      /\ <<"instance", "a">> # <<>> /\ <<"instance">> # <<>>
  OBVIOUS
<1>4. SplitReceiver(i, <<>> \o <<"a", "b">>) = Runs(i, "a", <<"b">>)
  BY <1>1 DEF SplitReceiver
<1>5. SplitReceiver(i, <<"instance", "a">>) = Runs(i, "instance", <<"a">>)
  BY <1>3 DEF SplitReceiver
<1>6. SplitReceiver(i, <<"instance">>) = Runs(i, "instance", <<>>)
  BY <1>3 DEF SplitReceiver
<1> QED BY <1>1, <1>2, <1>4, <1>5, <1>6

\* A use of a name that goes through runs what was declared for it, as is promised; and what
\* nothing can hide is reached.
RunServes(container, decls, name, via, use, run) ==
    run # Fails =>
        \/ /\ decls[run.of].name = name
           /\ use \in UsesOf(decls[run.of], via)
           /\ run = Promised(container, decls, run.of, via, Passed(use))
        \/ decls[run.of].name = "__getattr__" /\ run = Runs(run.of, "none", <<name>>)
RunFinds(container, decls, name, via, use, run) ==
    \A i \in Declaring(decls, name) :
        /\ use \in UsesOf(decls[i], via)
        /\ Rivals(container, decls, i, via, use) = {}
        /\ ~Own(container, decls, name)
        => run.of = i

\* One that serves declaration i for those theirs that it is for.
ServesOne(container, decls, i, via, use, run) ==
    \/ run = Fails /\ use \notin UsesOf(decls[i], via)
    \/ use \in UsesOf(decls[i], via) /\ run = Promised(container, decls, i, via, Passed(use))

LEMMA PlainServes ==
    ASSUME NEW container \in Containers, NEW decls, NEW name, NEW holds, IsPlain(container, decls, name, holds),
           NEW via \in Vias(container), NEW use \in AttributeUses, NEW member
    PROVE  ServesOne(container, decls, holds.of, via, use, UseOf(holds, member, via, use, name))
<1> DEFINE i == holds.of
           run == UseOf(holds, member, via, use, name)
           theirs == UsesOf(decls[i], via)
<1>1. \A args : Promised(container, decls, i, via, args) = Runs(i, "none", args)
  BY DEF Promised, IsPlain, ByNamespace
<1>2. Passed("call") = <<"a", "b">> /\ Passed("get") = <<>>
  BY DEF Passed
<1>3. CASE holds.is \in {"value", "got"}
  <2>1. theirs = {"get"}
    BY <1>3 DEF IsPlain, UsesOf, AccessorKinds, Vias
  <2>2. run = IF use = "get" THEN Runs(i, "none", <<>>) ELSE Fails
    BY <1>3 DEF UseOf, CallAttribute, GetAttribute, SetAttribute, DeleteAttribute, AttributeUses
  <2> HIDE DEF run, theirs, i
  <2> QED BY <1>1, <1>2, <2>1, <2>2 DEF ServesOne, run, theirs, i
<1>4. CASE holds.is = "function"
  <2>1. theirs = {"call"}
    BY <1>4 DEF IsPlain, UsesOf, AccessorKinds
  <2>2. run = IF use = "call" THEN Runs(i, "none", <<"a", "b">>) ELSE Fails
    BY <1>4 DEF UseOf, CallAttribute, GetAttribute, SetAttribute, DeleteAttribute, AttributeUses
  <2> HIDE DEF run, theirs, i
  <2> QED BY <1>1, <1>2, <2>1, <2>2 DEF ServesOne, run, theirs, i
<1> QED BY <1>3, <1>4 DEF IsPlain

LEMMA OfClassServes ==
    ASSUME NEW container \in Containers, NEW decls, NEW name, NEW holds, IsOfClass(container, decls, name, holds),
           NEW via \in Vias(container), NEW use \in AttributeUses, NEW member
    PROVE  ServesOne(container, decls, holds.of, via, use, UseOf(holds, member, via, use, name))
<1> DEFINE i == holds.of
           run == UseOf(holds, member, via, use, name)
           theirs == UsesOf(decls[i], via)
           kind == decls[i].kind
           args == <<"a", "b">>
<1>0. container = "class" /\ ~decls[i].static /\ holds.is = IsOf(decls[i]) /\ via \in {"instance", "class"}
  BY DEF IsOfClass, Vias
<1>1. kind \in {"constant", "method", "async_method", "class_method", "static_method"}
  BY DEF IsOfClass, ClassKinds, AccessorKinds
<1>2. Passed("call") = args /\ Passed("get") = <<>>
  BY DEF Passed
<1>3. CASE kind = "constant"
  <2>1. theirs = {"get"} /\ holds.is = "value"
    BY <1>0, <1>3 DEF UsesOf, AccessorKinds, IsOf
  <2>2. run = IF use = "get" THEN Runs(i, "none", <<>>) ELSE Fails
    BY <2>1 DEF UseOf, CallAttribute, GetAttribute, SetAttribute, DeleteAttribute, AttributeUses
  <2>3. Promised(container, decls, i, via, <<>>) = Runs(i, "none", <<>>)
    BY <1>3 DEF Promised
  <2> HIDE DEF run, theirs, i
  <2> QED BY <1>2, <2>1, <2>2, <2>3 DEF ServesOne, run, theirs, i
<1>4. CASE kind # "constant"
  <2>1. theirs = {"call"} /\ holds.is \in {"method", "classmethod", "staticmethod"}
    BY <1>0, <1>1, <1>4 DEF UsesOf, AccessorKinds, IsOf
  <2>2. run = IF use = "call" THEN CallAttribute(holds, via, args) ELSE Fails
    BY <2>1 DEF UseOf, GetAttribute, SetAttribute, DeleteAttribute, AttributeUses
  <2>3. CallAttribute(holds, via, args) = Promised(container, decls, i, via, args)
    <3>1. CASE kind \in {"method", "async_method"} /\ via = "instance"
      <4>1. CallAttribute(holds, via, args) = SplitReceiver(i, <<"instance">> \o args)
        BY <1>0, <3>1 DEF IsOf, CallAttribute, BoundTo
      <4>2. Promised(container, decls, i, via, args) = Runs(i, "instance", args)
        BY <1>0, <3>1 DEF Promised
      <4> QED BY <4>1, <4>2, Received
    <3>2. CASE kind \in {"method", "async_method"} /\ via = "class"
      <4>1. CallAttribute(holds, via, args) = SplitReceiver(i, <<>> \o args)
        BY <1>0, <3>2 DEF IsOf, CallAttribute, BoundTo
      <4>2. Promised(container, decls, i, via, args) = Runs(i, Head(args), Tail(args))
        BY <1>0, <3>2 DEF Promised
      <4> QED BY <4>1, <4>2, Received
    <3>3. CASE kind = "class_method"
      <4>1. CallAttribute(holds, via, args) = SplitReceiver(i, <<"class">> \o args)
        BY <1>0, <3>3 DEF IsOf, CallAttribute, BoundTo
      <4>2. Promised(container, decls, i, via, args) = Runs(i, "class", args)
        BY <1>0, <3>3 DEF Promised
      <4> QED BY <4>1, <4>2, Received
    <3>4. CASE kind = "static_method"
      <4>1. CallAttribute(holds, via, args) = Runs(i, "none", args)
        BY <1>0, <3>4 DEF IsOf, CallAttribute
      <4>2. Promised(container, decls, i, via, args) = Runs(i, "none", args)
        BY <1>0, <3>4 DEF Promised
      <4> QED BY <4>1, <4>2
    <3> QED BY <1>0, <1>1, <1>4, <3>1, <3>2, <3>3, <3>4
  <2> HIDE DEF run, theirs, i, args
  <2> QED BY <1>2, <2>1, <2>2, <2>3 DEF ServesOne, run, theirs, i
<1> QED BY <1>3, <1>4

LEMMA NamespacePropertyServes ==
    ASSUME NEW container \in Containers, NEW decls, NEW name, NEW holds,
           IsNamespaceProperty(container, decls, name, holds), 
           NEW via \in Vias(container), NEW use \in AttributeUses, NEW member, member = ByClass(container, decls, holds),
           0 \notin DOMAIN decls
    PROVE  ServesOne(container, decls, holds.of, via, use, UseOf(holds, member, via, use, name))
<1> DEFINE i == holds.of
           run == UseOf(holds, member, via, use, name)
           theirs == UsesOf(decls[i], via)
           kind == decls[i].kind
<1>0. /\ via \in {"instance", "class"} /\ i \in DOMAIN decls /\ i # 0
      /\ kind \in {"getter", "property"} /\ holds.is = "property" /\ holds.del = 0
      /\ holds.set = IF kind = "property" THEN i ELSE 0
  <2>1. i \in DOMAIN decls
    BY DEF IsNamespaceProperty, Declaring
  <2>2. (kind = "getter" /\ holds = Property(i, 0, 0)) \/ (kind = "property" /\ holds = Property(i, i, 0))
    BY DEF IsNamespaceProperty
  <2>3. via \in {"instance", "class"}
    BY DEF IsNamespaceProperty, Vias, Containers
  <2> HIDE DEF i
  <2>4. CASE kind = "getter" /\ holds = Property(i, 0, 0)
    BY <2>1, <2>3, <2>4, PropertyIs
  <2>5. CASE kind = "property" /\ holds = Property(i, i, 0)
    BY <2>1, <2>3, <2>5, PropertyIs
  <2> QED BY <2>2, <2>4, <2>5
<1>1. ~member
  BY <1>0 DEF IsNamespaceProperty, ByNamespace, ByClass, Statics
<1>2. \A args : Promised(container, decls, i, via, args) = Runs(i, "none", args)
  BY DEF Promised, IsNamespaceProperty, ByNamespace
<1>3. Passed("get") = <<>> /\ Passed("set") = <<"a">> /\ <<"instance", "a">>[2] = "a"
  BY DEF Passed
<1>4. theirs = IF via = "class" THEN {} ELSE IF kind = "getter" THEN {"get"} ELSE {"get", "set"}
  BY <1>0 DEF UsesOf, AccessorKinds
<1>5. CASE use \in {"call", "delete"}
  <2>1. run = Fails
    BY <1>0, <1>5 DEF UseOf, CallAttribute, DeleteAttribute
  <2> QED BY <1>4, <1>5, <2>1 DEF ServesOne
<1>6. CASE use = "get"
  <2>1. run = IF via = "instance" THEN Runs(i, "none", <<>>) ELSE Fails
    BY <1>0, <1>1, <1>6 DEF UseOf, GetAttribute
  <2> HIDE DEF run, theirs, i
  <2> QED BY <1>0, <1>2, <1>3, <1>4, <1>6, <2>1 DEF ServesOne, run, theirs, i
<1>7. CASE use = "set"
  <2>1. run = IF via = "instance" /\ kind = "property" THEN Runs(i, "none", <<"a">>) ELSE Fails
    BY <1>0, <1>1, <1>3, <1>7 DEF UseOf, SetAttribute
  <2> HIDE DEF run, theirs, i
  <2> QED BY <1>0, <1>2, <1>3, <1>4, <1>7, <2>1 DEF ServesOne, run, theirs, i
<1> QED BY <1>5, <1>6, <1>7 DEF AttributeUses

LEMMA ClassPropertyServes ==
    ASSUME NEW container \in Containers, NEW decls, NEW name, NEW holds,
           Len(decls) \in Nat, DOMAIN decls = 1..Len(decls),
           IsClassProperty(container, decls, name, holds),
           NEW via \in Vias(container), NEW use \in AttributeUses, NEW member, member = ByClass(container, decls, holds),
           NEW run, run = UseOf(holds, member, via, use, name)
    PROVE  \/ /\ run = Fails
              /\ use = "call" \/ via = "class" \/ AccessorsOf(decls, Len(decls), name, use) = {}
           \/ /\ via = "instance"
              /\ \E j \in AccessorsOf(decls, Len(decls), name, use) :
                     run = Promised(container, decls, j, via, Passed(use))
<1> DEFINE n == Len(decls)
<1>0. /\ container = "class" /\ via \in {"instance", "class"} /\ holds.is = "property"
      /\ IsOneOf(holds.of, AccessorsOf(decls, n, name, "get"))
      /\ IsOneOf(holds.set, AccessorsOf(decls, n, name, "set"))
      /\ IsOneOf(holds.del, AccessorsOf(decls, n, name, "delete"))
  <2>1. holds = Property(holds.of, holds.set, holds.del)
    BY DEF IsClassProperty, HoldsAccessors
  <2>2. holds.is = "property"
    <3>1. \A a, b, c : holds = Property(a, b, c) => holds.is = "property"
      BY PropertyIs
    <3> QED BY <2>1, <3>1
  <2> QED BY <2>2 DEF IsClassProperty, HoldsAccessors, Vias
<1>1. \A j : \A u : j \in AccessorsOf(decls, n, name, u) =>
                        j # 0 /\ ~decls[j].static /\ decls[j].kind \in AccessorKinds
  BY DEF AccessorsOf
<1>2. member
  <2>1. holds.of \notin Statics(decls) /\ holds.set \notin Statics(decls)
    BY <1>0, <1>1 DEF IsOneOf, Statics
  <2> QED BY <1>0, <2>1 DEF ByClass
<1>3. \A j, args, u : j \in AccessorsOf(decls, n, name, u) =>
                          Promised(container, decls, j, "instance", args) = Runs(j, "instance", args)
  BY <1>0, <1>1 DEF Promised, AccessorKinds
<1>4. Passed("get") = <<>> /\ Passed("set") = <<"a">> /\ Passed("delete") = <<>>
  BY DEF Passed
<1>5. CASE use = "call" \/ via = "class"
  <2>1. run = Fails
    BY <1>0, <1>5 DEF UseOf, CallAttribute, GetAttribute, SetAttribute, DeleteAttribute, AttributeUses
  <2> QED BY <1>5, <2>1
<1>6. ASSUME via = "instance", NEW j, IsOneOf(j, AccessorsOf(decls, n, name, use)),
             j = 0 => run = Fails, j # 0 => run = Runs(j, "instance", Passed(use))
      PROVE  \/ run = Fails /\ AccessorsOf(decls, n, name, use) = {}
             \/ \E i \in AccessorsOf(decls, n, name, use) : run = Promised(container, decls, i, via, Passed(use))
  BY <1>1, <1>3, <1>6 DEF IsOneOf
<1>7. CASE via = "instance" /\ use = "get"
  <2>1. run = IF holds.of = 0 THEN Fails ELSE SplitReceiver(holds.of, <<"instance">>)
    BY <1>0, <1>2, <1>7 DEF UseOf, GetAttribute
  <2>2. (holds.of = 0 => run = Fails) /\ (holds.of # 0 => run = Runs(holds.of, "instance", <<>>))
    BY <2>1, Received
  <2> QED BY <1>0, <1>4, <1>6, <1>7, <2>2
<1>8. CASE via = "instance" /\ use = "set"
  <2>1. run = IF holds.set = 0 THEN Fails ELSE SplitReceiver(holds.set, <<"instance", "a">>)
    BY <1>0, <1>2, <1>8 DEF UseOf, SetAttribute
  <2>2. (holds.set = 0 => run = Fails) /\ (holds.set # 0 => run = Runs(holds.set, "instance", <<"a">>))
    BY <2>1, Received
  <2> QED BY <1>0, <1>4, <1>6, <1>8, <2>2
<1>9. CASE via = "instance" /\ use = "delete"
  <2>1. run = IF holds.del = 0 THEN Fails ELSE SplitReceiver(holds.del, <<"instance">>)
    BY <1>0, <1>9 DEF UseOf, DeleteAttribute
  <2>2. (holds.del = 0 => run = Fails) /\ (holds.del # 0 => run = Runs(holds.del, "instance", <<>>))
    BY <2>1, Received
  <2> QED BY <1>0, <1>4, <1>6, <1>9, <2>2
<1> QED BY <1>0, <1>5, <1>7, <1>8, <1>9 DEF AttributeUses

LEMMA PromisedOf ==
    ASSUME NEW container, NEW decls, NEW i, NEW via, NEW args
    PROVE  Promised(container, decls, i, via, args).of = i
BY RunsIs DEF Promised

\* Any use of any name.
LEMMA UseServes ==
    ASSUME NEW container \in Containers, NEW decls \in Seq(DeclarationsOf(container)), NEW name,
           NEW via \in Vias(container), NEW use \in AttributeUses,
           NEW run, run = RunOf(container, decls, name, via, use)
    PROVE  /\ RunServes(container, decls, name, via, use, run)
           /\ RunFinds(container, decls, name, via, use, run)
<1> DEFINE holds == Attribute(container, decls, name)
           member == ByClass(container, decls, holds)
           here == Declaring(decls, name)
           n == Len(decls)
<1>1. run = UseOf(holds, member, via, use, name)
  BY RunIs
<1>2. StandsFor(container, decls, name, holds)
  BY AttributeStands
<1>3. n \in Nat /\ DOMAIN decls = 1..n
  OBVIOUS
<1>4. \A i \in here : i \in DOMAIN decls /\ decls[i].name = name
  BY DEF Declaring
<1>5. Own(container, decls, name) <=> holds.is = "own"
  BY DEF Own
<1> HIDE DEF holds, member, here, n
\* What serves one declaration, which hides all others of its name.
<1>6. ASSUME NEW o \in here, ServesOne(container, decls, o, via, use, run),
             \/ container # "class" \/ decls[o].static \/ decls[o].kind \notin AccessorKinds
      PROVE  /\ RunServes(container, decls, name, via, use, run)
             /\ RunFinds(container, decls, name, via, use, run)
  <2>1. RunServes(container, decls, name, via, use, run)
    <3>1. SUFFICES ASSUME run # Fails
                   PROVE  /\ decls[run.of].name = name /\ use \in UsesOf(decls[run.of], via)
                          /\ run = Promised(container, decls, run.of, via, Passed(use))
      BY DEF RunServes
    <3>2. use \in UsesOf(decls[o], via) /\ run = Promised(container, decls, o, via, Passed(use))
      BY <1>6, <3>1 DEF ServesOne
    <3>3. run.of = o
      BY <3>2, PromisedOf
    <3> QED BY <1>4, <3>2, <3>3
  <2>2. RunFinds(container, decls, name, via, use, run)
    <3>1. SUFFICES ASSUME NEW i \in here, use \in UsesOf(decls[i], via),
                          Rivals(container, decls, i, via, use) = {}
                   PROVE  run.of = i
      BY DEF RunFinds, here
    <3>2. i = o
      <4>1. SUFFICES ASSUME i # o PROVE FALSE
        OBVIOUS
      <4>2. o \in Rivals(container, decls, i, via, use)
        BY <1>4, <1>6, <4>1 DEF Rivals, here
      <4> QED BY <3>1, <4>2
    <3>3. run = Promised(container, decls, o, via, Passed(use))
      BY <1>6, <3>1, <3>2 DEF ServesOne
    <3> QED BY <3>2, <3>3, PromisedOf
  <2> QED BY <2>1, <2>2
<1>7. CASE holds.is = "own" \/ (holds.is = "missing" /\ here = {})
  <2>1. run = Fails
    BY <1>1, <1>7 DEF UseOf, CallAttribute, GetAttribute, SetAttribute, DeleteAttribute, AttributeUses
  <2> QED BY <1>5, <1>7, <2>1 DEF RunServes, RunFinds, here
<1>8. CASE IsPlain(container, decls, name, holds)
  <2>1. ServesOne(container, decls, holds.of, via, use, run)
    BY <1>1, <1>8, PlainServes
  <2>2. holds.of \in here /\ (container # "class" \/ decls[holds.of].static)
    BY <1>8 DEF IsPlain, ByNamespace, here
  <2> QED BY <1>6, <2>1, <2>2
<1>9. CASE IsOfClass(container, decls, name, holds)
  <2>1. ServesOne(container, decls, holds.of, via, use, run)
    BY <1>1, <1>9, OfClassServes
  <2>2. holds.of \in here /\ decls[holds.of].kind \notin AccessorKinds
    BY <1>9 DEF IsOfClass, here
  <2> QED BY <1>6, <2>1, <2>2
<1>10. CASE IsNamespaceProperty(container, decls, name, holds)
  <2>1. ServesOne(container, decls, holds.of, via, use, run)
    BY <1>1, <1>3, <1>10, NamespacePropertyServes DEF member
  <2>2. holds.of \in here /\ (container # "class" \/ decls[holds.of].static)
    BY <1>10 DEF IsNamespaceProperty, ByNamespace, here
  <2> QED BY <1>6, <2>1, <2>2
<1>11. CASE IsAskedFor(container, decls, name, holds)
  <2>1. here = {} /\ holds.is = "asked" /\ decls[holds.of].name = "__getattr__"
    BY <1>11 DEF IsAskedFor, Declaring, here
  <2>2. run = IF use = "get" THEN Runs(holds.of, "none", <<name>>) ELSE Fails
    BY <1>1, <2>1 DEF UseOf, CallAttribute, GetAttribute, SetAttribute, DeleteAttribute, AttributeUses
  <2>3. run # Fails => run = Runs(holds.of, "none", <<name>>) /\ run.of = holds.of
    BY <2>2, RunsIs
  <2> QED BY <2>1, <2>3 DEF RunServes, RunFinds, here
<1>12. CASE IsClassProperty(container, decls, name, holds)
  <2> DEFINE there == AccessorsOf(decls, n, name, use)
  <2>1. \/ run = Fails /\ (use = "call" \/ via = "class" \/ there = {})
        \/ /\ via = "instance"
           /\ \E j \in there : run = Promised(container, decls, j, via, Passed(use))
    BY <1>1, <1>3, <1>12, ClassPropertyServes DEF member, n
  <2>2. container = "class" /\ via \in {"instance", "class"}
    BY <1>12 DEF IsClassProperty, Vias
  <2>3. \A j : j \in there <=> /\ j \in here /\ ~decls[j].static /\ decls[j].kind \in AccessorKinds
                               /\ use \in UsesOf(decls[j], "instance")
    BY <1>3 DEF AccessorsOf, Declaring, here
  <2>4. PICK other \in here : ~decls[other].static /\ decls[other].kind \in AccessorKinds
    BY <1>12 DEF IsClassProperty, here
  <2> HIDE DEF there
  <2>5. RunServes(container, decls, name, via, use, run)
    <3>1. SUFFICES ASSUME run # Fails
                   PROVE  /\ decls[run.of].name = name /\ use \in UsesOf(decls[run.of], via)
                          /\ run = Promised(container, decls, run.of, via, Passed(use))
      BY DEF RunServes
    <3>2. PICK j \in there : via = "instance" /\ run = Promised(container, decls, j, via, Passed(use))
      BY <2>1, <3>1
    <3>3. run.of = j
      BY <3>2, PromisedOf
    <3> QED BY <1>4, <2>3, <3>2, <3>3
  <2>6. RunFinds(container, decls, name, via, use, run)
    <3>1. SUFFICES ASSUME NEW i \in here, use \in UsesOf(decls[i], via),
                          Rivals(container, decls, i, via, use) = {}
                   PROVE  run.of = i
      BY DEF RunFinds, here
    <3>2. ~decls[i].static /\ decls[i].kind \in AccessorKinds
      <4>1. SUFFICES ASSUME decls[i].static \/ decls[i].kind \notin AccessorKinds PROVE FALSE
        OBVIOUS
      <4>2. other # i
        BY <2>4, <4>1
      <4>3. other \in Rivals(container, decls, i, via, use)
        BY <1>4, <2>4, <4>1, <4>2 DEF Rivals, here
      <4> QED BY <3>1, <4>3
    <3>3. via = "instance" /\ use # "call"
      BY <2>2, <3>1, <3>2 DEF UsesOf, AccessorKinds
    <3>4. i \in there
      BY <2>3, <3>1, <3>2, <3>3
    <3>5. PICK j \in there : run = Promised(container, decls, j, via, Passed(use))
      BY <2>1, <3>3, <3>4
    <3>6. j = i
      <4>1. SUFFICES ASSUME j # i PROVE FALSE
        OBVIOUS
      <4>2. j \in Rivals(container, decls, i, via, use)
        BY <1>4, <2>3, <3>3, <3>5, <4>1 DEF Rivals, here
      <4> QED BY <3>1, <4>2
    <3> QED BY <3>5, <3>6, PromisedOf
  <2> QED BY <2>5, <2>6
<1> QED BY <1>2, <1>7, <1>8, <1>9, <1>10, <1>11, <1>12 DEF StandsFor, here

\* What a guest reaches of declarations under any name.
Reached(container, decls) ==
    \A name \in {decls[i].name : i \in DOMAIN decls} \cup {"y"}, via \in Vias(container), use \in AttributeUses :
        LET run == RunOf(container, decls, name, via, use)
        IN RunServes(container, decls, name, via, use, run) /\ RunFinds(container, decls, name, via, use, run)

\* It is what the property says of the case that was chosen, before and after a step.
LEMMA DeclaredReached ==
    /\ DeclaredIsReached <=> (case.kind = "declare" /\ case.accepted => Reached(case.container, case.decls))
    /\ DeclaredIsReached' <=> (case'.kind = "declare" /\ case'.accepted => Reached(case'.container, case'.decls))
BY Zenon DEF DeclaredIsReached, Reached, RunServes, RunFinds, RunOf

\* What is declared to be reached by name is reached, for every list of declarations, heap and
\* facade.  What a guest runs under a name was declared with it and for that use, and gets the
\* receiver and the arguments that its declaration promises; the host is told the annotations
\* and generic bases of a guest's object as they are; and a facade's method is the attribute of
\* its name or a call of it that passes every argument to its place (host/class.rs,
\* imports/realise.rs, handle/traits.rs, guest/member.rs).
THEOREM MembersAreFound == InterfacesSpec => []MembersAreReached
<1>1. InterfacesInit => MembersAreReached
  <2>1. InterfacesInit => case.kind = "none"
    BY DEF InterfacesInit
  <2> QED BY <2>1, DeclaredReached, Zenon DEF MembersAreReached, AnnotationsAgree, GenericBasesAgree, FacadesServe
<1>2. MembersAreReached /\ [InterfacesNext]_case => MembersAreReached'
  <2>1. SUFFICES ASSUME MembersAreReached, [InterfacesNext]_case PROVE MembersAreReached'
    BY Zenon
  <2>2. CASE UNCHANGED case
    BY <2>1, <2>2, DeclaredReached, Zenon DEF MembersAreReached, AnnotationsAgree, GenericBasesAgree, FacadesServe
  <2>3. CASE DeclareMembers
    <3>0. PICK container \in Containers : \E decls \in DeclarationLists(container) :
              Chosen([kind |-> "declare", container |-> container, decls |-> decls,
                      accepted |-> container = "class" => Accepted(decls)])
      BY <2>3 DEF DeclareMembers
    <3>1. PICK decls \in DeclarationLists(container) :
              case' = [kind |-> "declare", container |-> container, decls |-> decls,
                       accepted |-> container = "class" => Accepted(decls)]
      BY <3>0 DEF Chosen
    <3>2. case'.kind = "declare" /\ case'.container = container /\ case'.decls = decls
      BY <3>1
    <3>3. decls \in Seq(DeclarationsOf(container))
      BY <3>1, DeclarationsAssumption
    <3>4. Reached(container, decls)
      BY <3>3, UseServes DEF Reached
    <3>5. DeclaredIsReached'
      BY <3>2, <3>4, DeclaredReached
    <3> QED BY <3>2, <3>5 DEF MembersAreReached, AnnotationsAgree, GenericBasesAgree, FacadesServe
  <2>4. CASE Reflect
    <3>1. PICK heap \in Heaps : \E o, base \in DOMAIN heap :
              /\ heap[o].is \in {"class", "function"} /\ heap[base].is = "class"
              /\ Chosen([kind |-> "reflect", heap |-> heap, object |-> o, base |-> base,
                         listed |-> Annotations(heap, o),
                         alias |-> IF heap[o].is = "class" THEN GenericBaseOf(heap, o, base) ELSE Ok(None)])
      BY <2>4 DEF Reflect
    <3>2. PICK o \in DOMAIN heap, base \in DOMAIN heap :
              case' = [kind |-> "reflect", heap |-> heap, object |-> o, base |-> base,
                       listed |-> Annotations(heap, o),
                       alias |-> IF heap[o].is = "class" THEN GenericBaseOf(heap, o, base) ELSE Ok(None)]
      BY <3>1 DEF Chosen
    <3>3. IsHeap(heap)
      BY HeapsAssumption
    <3>4. /\ case'.kind = "reflect" /\ case'.heap = heap /\ case'.object = o /\ case'.base = base
          /\ case'.listed = Annotations(heap, o)
          /\ heap[o].is = "class" => case'.alias = GenericBaseOf(heap, o, base)
      BY <3>2
    <3>5. AnnotationsAgree'
      <4>1. AnnotationsTell(heap, o, Annotations(heap, o))
        BY <3>3, AnnotationsAreTold
      <4> QED BY <3>4, <4>1 DEF AnnotationsAgree, AnnotationsTell
    <3>6. GenericBasesAgree'
      <4>1. heap[o].is = "class" => BaseIsTold(heap, o, base, NamedBases(heap, o), case'.alias)
        BY <3>3, <3>4, GenericBaseIsTold
      <4> QED BY <3>4, <4>1, Zenon DEF GenericBasesAgree, BaseIsTold, NamedBases, Nearest, Holders
    <3> QED BY <3>4, <3>5, <3>6, DeclaredReached DEF MembersAreReached, FacadesServe
  <2>5. CASE UseFacade
    <3>0. PICK heap \in CalledHeaps, facade \in Facades : \E o \in DOMAIN heap, i \in DOMAIN facade.members :
              \E given \in [ToSet(facade.members[i].params) -> {Ok(1), Ok(2), Conversion}] :
                  Chosen([kind |-> "facade", heap |-> heap, object |-> o, given |-> given,
                          member |-> facade.members[i],
                          result |-> FacadeMember(heap, o, facade.members[i], given)])
      BY <2>5 DEF UseFacade
    <3>1. PICK o \in DOMAIN heap, i \in DOMAIN facade.members :
              \E given \in [ToSet(facade.members[i].params) -> {Ok(1), Ok(2), Conversion}] :
                  Chosen([kind |-> "facade", heap |-> heap, object |-> o, given |-> given,
                          member |-> facade.members[i],
                          result |-> FacadeMember(heap, o, facade.members[i], given)])
      BY <3>0
    <3>2. PICK given \in [ToSet(facade.members[i].params) -> {Ok(1), Ok(2), Conversion}] :
              case' = [kind |-> "facade", heap |-> heap, object |-> o, given |-> given,
                       member |-> facade.members[i],
                       result |-> FacadeMember(heap, o, facade.members[i], given)]
      BY <3>1 DEF Chosen
    <3>3. /\ IsHeap(heap) /\ \A p \in DOMAIN heap : heap[p].params \in Seq(STRING)
          /\ facade.members[i].params \in Seq(STRING)
      BY HeapsAssumption, HostCallsAssumption, FacadesAssumption
    <3>4. FacadeServes(heap, o, facade.members[i], given, FacadeMember(heap, o, facade.members[i], given))
      BY <3>3, FacadeMemberServes
    <3>5. /\ case'.kind = "facade" /\ case'.heap = heap /\ case'.object = o /\ case'.given = given
          /\ FacadeServes(case'.heap, case'.object, case'.member, case'.given, case'.result)
      BY <3>2, <3>4
    <3>6. FacadesServe'
      BY <3>5 DEF FacadesServe, FacadeServes, FacadeArguments
    <3> QED BY <3>5, <3>6, DeclaredReached DEF MembersAreReached, AnnotationsAgree, GenericBasesAgree
  <2>6. CASE InterfacesNext /\ ~DeclareMembers /\ ~Reflect /\ ~UseFacade
    <3>1. case'.kind \notin {"declare", "reflect", "facade"}
      BY <2>6, RaisesOnly DEF InterfacesNext, Call, Expand, ExpandItem, ReadBundle, CallGuest, BuildGuest, Chosen
    <3> QED BY <3>1, DeclaredReached, Zenon DEF MembersAreReached, AnnotationsAgree, GenericBasesAgree, FacadesServe
  <2> QED BY <2>1, <2>2, <2>3, <2>4, <2>5, <2>6
<1> QED BY <1>1, <1>2, PTL DEF InterfacesSpec

-----------------------------------------------------------------------------
(* Host instances.                                                         *)

\* Use u is one of an instance that exists, finds its payload, and is on both backends
\* unless the instance was crossed.
Finds(u, types, makers, boxes, cells, crossings) ==
    /\ types[u.instance] # NoClass
    /\ u.access # "construct" =>
           /\ "cpython" \in u.on => boxes[u.instance] = u.class
           /\ "rustpython" \in u.on => makers[u.instance] = u.class /\ u.instance \in cells
    /\ u.instance \notin crossings => u.on = Backends

Sound(i) == Finds(uses[i], typeOf, maker, box, filled, crossed)

Cells ==
    \A o \in Instances :
        /\ typeOf[o] = NoClass => box[o] = NoClass /\ o \notin filled
        /\ typeOf[o] # NoClass => maker[o] # NoClass
        /\ o \notin crossed =>
               /\ o \in filled <=> box[o] # NoClass
               /\ box[o] # NoClass => box[o] = maker[o]

InstancesInv ==
    /\ InstancesTypeOK
    /\ \A i \in 1..Len(uses) : Sound(i)
    /\ Cells

-----------------------------------------------------------------------------
(* The calls under way.                                                    *)

LEMMA UsesFacts ==
    ASSUME InstancesTypeOK
    PROVE  /\ uses \in Seq(PayloadUses) /\ Len(uses) \in Nat
           /\ DOMAIN uses = 1..Len(uses)
           /\ \A i \in 1..Len(uses) : uses[i] \in PayloadUses
<1>1. uses \in Seq(PayloadUses)
  BY DEF InstancesTypeOK
<1> QED BY <1>1, LenProperties, ElementOfSeq

LEMMA PopFacts ==
    ASSUME InstancesTypeOK, uses # <<>>
    PROVE  /\ Outer \in Seq(PayloadUses) /\ Len(Outer) = Len(uses) - 1
           /\ \A i \in 1..(Len(uses) - 1) : Outer[i] = uses[i]
           /\ Len(uses) >= 1 /\ Top \in PayloadUses /\ Top = uses[Len(uses)]
<1>1. Len(uses) >= 1
  BY UsesFacts, EmptySeq
<1>2. 1 \in 1..(Len(uses) + 1) /\ Len(uses) - 1 \in 0..Len(uses) /\ Len(uses) \in 1..Len(uses)
  BY <1>1, UsesFacts
<1>3. /\ Outer \in Seq(PayloadUses)
      /\ Len(Outer) = Len(uses) - 1
      /\ \A i \in 1..(Len(uses) - 1) : Outer[i] = uses[i]
  BY <1>1, <1>2, UsesFacts, SubSeqProperties, Z3 DEF Outer
<1> QED BY <1>1, <1>2, <1>3, UsesFacts DEF Top

\* A call ends: the type invariant and what was said of the others stay.
LEMMA PopKeeps ==
    ASSUME InstancesInv, uses # <<>>, uses' = Outer,
           typeOf' \in [Instances -> GuestTypes \cup {NoClass}],
           maker' \in [Instances -> HostClasses \cup {NoClass}],
           box' \in [Instances -> HostClasses \cup {NoClass}],
           filled' \subseteq Instances, crossed' \subseteq Instances,
           \A i \in 1..(Len(uses) - 1) : Sound(i)'
    PROVE  InstancesTypeOK' /\ \A i \in 1..Len(uses') : Sound(i)'
<1>1. InstancesTypeOK /\ MaxUses \in Nat
  BY InstancesAssumption DEF InstancesInv
<1>2. uses' \in Seq(PayloadUses) /\ Len(uses') = Len(uses) - 1
  BY <1>1, PopFacts
<1>3. Len(uses') <= MaxUses
  BY <1>1, <1>2, UsesFacts DEF InstancesTypeOK
<1> QED BY <1>1, <1>2, <1>3, PopFacts DEF InstancesTypeOK

\* A call begins.
LEMMA PushKeeps ==
    ASSUME InstancesInv, Len(uses) < MaxUses, NEW u \in PayloadUses, uses' = Append(uses, u),
           Finds(u, typeOf, maker, box, filled, crossed),
           UNCHANGED <<typeOf, maker, box, filled, crossed>>
    PROVE  InstancesInv'
<1>1. InstancesTypeOK /\ MaxUses \in Nat
  BY InstancesAssumption DEF InstancesInv
<1>2. /\ uses' \in Seq(PayloadUses) /\ Len(uses') = Len(uses) + 1
      /\ \A i \in 1..Len(uses) : uses'[i] = uses[i]
      /\ uses'[Len(uses) + 1] = u
  BY <1>1, UsesFacts, AppendProperties
<1>3. Len(uses') <= MaxUses
  BY <1>1, <1>2, UsesFacts
<1>4. InstancesTypeOK'
  BY <1>1, <1>2, <1>3 DEF InstancesTypeOK
<1>5. ASSUME NEW i \in 1..Len(uses')
      PROVE  Sound(i)'
  <2>1. CASE i \in 1..Len(uses)
    BY <1>2, <2>1 DEF InstancesInv, Sound
  <2>2. CASE i = Len(uses) + 1
    BY <1>2, <2>2 DEF Sound
  <2> QED BY <1>1, <1>2, <2>1, <2>2, UsesFacts
<1>6. Cells'
  BY DEF InstancesInv, Cells
<1> QED BY <1>4, <1>5, <1>6 DEF InstancesInv

-----------------------------------------------------------------------------
LEMMA InvInit == InstancesInit => InstancesInv
<1> SUFFICES ASSUME InstancesInit PROVE InstancesInv
  OBVIOUS
<1>1. uses \in Seq(PayloadUses) /\ Len(uses) = 0
  BY EmptySeq DEF InstancesInit
<1>2. InstancesTypeOK
  BY <1>1, InstancesAssumption DEF InstancesInit, InstancesTypeOK
<1>3. Cells
  BY InstancesAssumption DEF InstancesInit, Cells
<1> QED BY <1>1, <1>2, <1>3 DEF InstancesInv

\* An instance is made, with its payload or without: nothing uses it yet.
LEMMA MakeKeeps ==
    ASSUME InstancesInv, NEW o \in Instances, NEW t \in GuestTypes, NEW c \in HostClasses,
           typeOf[o] = NoClass,
           typeOf' = [typeOf EXCEPT ![o] = t], maker' = [maker EXCEPT ![o] = c],
           \/ UNCHANGED <<box, filled>>
           \/ box' = [box EXCEPT ![o] = c] /\ filled' = filled \cup {o},
           UNCHANGED <<uses, crossed>>
    PROVE  InstancesInv'
<1>1. InstancesTypeOK /\ NoClass \notin HostClasses \cup GuestTypes
  BY InstancesAssumption DEF InstancesInv
<1>2. InstancesTypeOK'
  BY <1>1 DEF InstancesTypeOK
<1>3. ASSUME NEW i \in 1..Len(uses')
      PROVE  Sound(i)'
  <2> DEFINE u == uses[i]
  <2>1. u \in PayloadUses /\ Finds(u, typeOf, maker, box, filled, crossed)
    BY <1>1, UsesFacts DEF InstancesInv, Sound
  <2>2. u.instance \in Instances /\ u.instance # o
    BY <2>1 DEF PayloadUses, Finds
  <2>3. /\ typeOf'[u.instance] = typeOf[u.instance] /\ maker'[u.instance] = maker[u.instance]
        /\ box'[u.instance] = box[u.instance]
        /\ u.instance \in filled' <=> u.instance \in filled
    BY <1>1, <2>2 DEF InstancesTypeOK
  <2>4. uses'[i] = u
    OBVIOUS
  <2> HIDE DEF u
  <2>5. Finds(u, typeOf', maker', box', filled', crossed')
    BY <2>1, <2>3 DEF Finds
  <2> QED BY <2>4, <2>5 DEF Sound
<1>4. Cells'
  BY <1>1 DEF InstancesInv, InstancesTypeOK, Cells
<1> QED BY <1>2, <1>3, <1>4 DEF InstancesInv

\* A call that borrows ends, or a constructor fails.
LEMMA EndKeeps ==
    ASSUME InstancesInv, uses # <<>>, uses' = Outer,
           UNCHANGED <<typeOf, maker, box, filled, crossed>>
    PROVE  InstancesInv'
<1>1. InstancesTypeOK
  BY DEF InstancesInv
<1>2. ASSUME NEW i \in 1..(Len(uses) - 1)
      PROVE  Sound(i)'
  <2>1. i \in 1..Len(uses) /\ uses'[i] = uses[i]
    BY <1>1, PopFacts, UsesFacts
  <2> QED BY <2>1 DEF InstancesInv, Sound
<1>3. InstancesTypeOK' /\ \A i \in 1..Len(uses') : Sound(i)'
  BY <1>1, <1>2, PopKeeps DEF InstancesTypeOK
<1>4. Cells'
  BY DEF InstancesInv, Cells
<1> QED BY <1>3, <1>4 DEF InstancesInv

\* The payload is set where nothing borrows the instance.
LEMMA FinishInitKeeps ==
    ASSUME InstancesInv, FinishInit
    PROVE  InstancesInv'
<1> DEFINE o == Top.instance
           c == Top.class
<1>1. /\ uses # <<>> /\ uses' = Outer
      /\ box' = IF BoxTakes(o, c) THEN [box EXCEPT ![o] = c] ELSE box
      /\ filled' = IF CellTakes(o, c) THEN filled \cup {o} ELSE filled
      /\ crossed' = IF BoxTakes(o, c) /\ c # maker[o] THEN crossed \cup {o} ELSE crossed
      /\ UNCHANGED <<typeOf, maker>>
  BY DEF FinishInit
<1>2. InstancesTypeOK /\ NoClass \notin HostClasses
  BY InstancesAssumption DEF InstancesInv
<1>3. /\ Top \in PayloadUses /\ Len(uses) \in 1..Len(uses) /\ Top = uses[Len(uses)]
      /\ o \in Instances /\ c \in HostClasses
  BY <1>1, <1>2, UsesFacts, PopFacts DEF PayloadUses
<1>4. Finds(Top, typeOf, maker, box, filled, crossed)
  BY <1>3 DEF InstancesInv, Sound
<1>5. typeOf[o] # NoClass
  BY <1>4 DEF Finds
<1> HIDE DEF o, c
<1>6. ASSUME NEW i \in 1..(Len(uses) - 1)
      PROVE  Sound(i)'
  <2> DEFINE u == uses[i]
  <2>1. i \in 1..Len(uses) /\ i \in DOMAIN uses /\ uses'[i] = u
    BY <1>1, <1>2, UsesFacts, PopFacts
  <2>2. u \in PayloadUses /\ Finds(u, typeOf, maker, box, filled, crossed)
    BY <1>2, <2>1, UsesFacts DEF InstancesInv, Sound
  <2>3. u.instance \in Instances
    BY <2>2 DEF PayloadUses
  <2>4. u.instance \in crossed => u.instance \in crossed'
    BY <1>1
  <2>5. u.instance \in filled => u.instance \in filled'
    BY <1>1
  <2>6. ASSUME u.access # "construct", "cpython" \in u.on
        PROVE  box'[u.instance] = box[u.instance]
    <3>1. ASSUME u.instance = o
          PROVE  ~BoxTakes(o, c)
      <4>1. i \in Borrows("cpython", o)
        BY <2>1, <2>6, <3>1 DEF Borrows
      <4> QED BY <4>1 DEF BoxTakes, Allows
    <3> QED BY <1>1, <1>2, <1>3, <2>3, <3>1 DEF InstancesTypeOK
  <2> HIDE DEF u
  <2>7. Finds(u, typeOf', maker', box', filled', crossed')
    BY <1>1, <2>2, <2>4, <2>5, <2>6 DEF Finds
  <2> QED BY <2>1, <2>7 DEF Sound
<1>7. /\ box' \in [Instances -> HostClasses \cup {NoClass}]
      /\ filled' \subseteq Instances /\ crossed' \subseteq Instances
  BY <1>1, <1>2, <1>3 DEF InstancesTypeOK
<1>8. InstancesTypeOK' /\ \A i \in 1..Len(uses') : Sound(i)'
  BY <1>1, <1>2, <1>6, <1>7, PopKeeps DEF InstancesTypeOK
<1>9. o \notin crossed => (Borrows("cpython", o) = {} <=> Borrows("rustpython", o) = {})
  <2>1. ASSUME o \notin crossed, NEW i \in DOMAIN uses, uses[i].instance = o
        PROVE  "cpython" \in uses[i].on /\ "rustpython" \in uses[i].on
    BY <1>2, <2>1, UsesFacts DEF InstancesInv, Sound, Finds, Backends
  <2> QED BY <2>1 DEF Borrows
<1>10. o \notin crossed => (BoxTakes(o, c) /\ c = maker[o] <=> CellTakes(o, c))
  BY <1>9 DEF BoxTakes, CellTakes, Allows
<1>11. Cells'
  <2> SUFFICES ASSUME NEW q \in Instances
               PROVE  /\ typeOf'[q] = NoClass => box'[q] = NoClass /\ q \notin filled'
                      /\ typeOf'[q] # NoClass => maker'[q] # NoClass
                      /\ q \notin crossed' =>
                             /\ q \in filled' <=> box'[q] # NoClass
                             /\ box'[q] # NoClass => box'[q] = maker'[q]
    BY DEF Cells
  <2>1. CASE q # o
    <3>1. box'[q] = box[q] /\ (q \in filled' <=> q \in filled) /\ (q \in crossed' <=> q \in crossed)
      BY <1>1, <1>2, <2>1 DEF InstancesTypeOK
    <3> QED BY <1>1, <3>1 DEF InstancesInv, Cells
  <2>2. CASE q = o
    <3>1. maker[o] # NoClass
      BY <1>3, <1>5 DEF InstancesInv, Cells
    <3>2. ASSUME o \notin crossed'
          PROVE  /\ o \in filled' <=> box'[o] # NoClass
                 /\ box'[o] # NoClass => box'[o] = maker[o]
      <4>1. o \notin crossed /\ (BoxTakes(o, c) => c = maker[o])
        BY <1>1, <3>2
      <4>2. CASE BoxTakes(o, c)
        <5>1. CellTakes(o, c)
          BY <1>10, <4>1, <4>2
        <5>2. box'[o] = c /\ o \in filled'
          BY <1>1, <1>2, <1>3, <4>2, <5>1 DEF InstancesTypeOK
        <5> QED BY <1>2, <1>3, <4>1, <4>2, <5>2
      <4>3. CASE ~BoxTakes(o, c)
        <5>1. ~CellTakes(o, c)
          BY <1>10, <4>1, <4>3
        <5> QED BY <1>1, <1>3, <4>1, <4>3, <5>1 DEF InstancesInv, Cells
      <4> QED BY <4>2, <4>3
    <3> QED BY <1>1, <1>5, <2>2, <3>1, <3>2
  <2> QED BY <2>1, <2>2
<1> QED BY <1>8, <1>11 DEF InstancesInv

\* A borrow that one backend accepts, of an instance that was not crossed, both accept.
LEMMA BorrowKeeps ==
    ASSUME InstancesInv, NEW o \in Instances, NEW c \in HostClasses,
           NEW access \in {"shared", "exclusive"}, Borrow(o, c, access)
    PROVE  InstancesInv'
<1> DEFINE on == {b \in Backends : Holds(b, o, c) /\ Allows(b, o, access)}
           u == Use(o, c, access, on)
<1>1. /\ typeOf[o] # NoClass /\ Len(uses) < MaxUses
      /\ on # {} /\ uses' = Append(uses, u)
      /\ UNCHANGED <<typeOf, maker, box, filled, crossed>>
  BY DEF Borrow
<1>2. InstancesTypeOK /\ NoClass \notin HostClasses
  BY InstancesAssumption DEF InstancesInv
<1>3. u \in PayloadUses
  BY DEF Use, PayloadUses
<1>4. ASSUME o \notin crossed
      PROVE  on = Backends
  <2>1. ASSUME NEW i \in DOMAIN uses, uses[i].instance = o
        PROVE  "cpython" \in uses[i].on /\ "rustpython" \in uses[i].on
    BY <1>2, <1>4, <2>1, UsesFacts DEF InstancesInv, Sound, Finds, Backends
  <2>2. Borrows("cpython", o) = Borrows("rustpython", o)
    BY <2>1 DEF Borrows
  <2>3. Allows("cpython", o, access) <=> Allows("rustpython", o, access)
    BY <2>2 DEF Allows
  <2>4. BoxHolds(o, c) <=> CellHolds(o, c)
    BY <1>2, <1>4 DEF InstancesInv, Cells, BoxHolds, CellHolds
  <2>5. Holds("cpython", o, c) <=> Holds("rustpython", o, c)
    BY <2>4 DEF Holds
  <2> QED BY <1>1, <2>3, <2>5 DEF Backends
<1>5. Finds(u, typeOf, maker, box, filled, crossed)
  <2>1. /\ u.instance = o /\ u.class = c /\ u.access = access /\ u.on = on
    BY DEF Use
  <2>2. /\ "cpython" \in on => box[o] = c
        /\ "rustpython" \in on => maker[o] = c /\ o \in filled
    BY DEF Holds, BoxHolds, CellHolds
  <2> HIDE DEF u, on
  <2> QED BY <1>1, <1>4, <2>1, <2>2 DEF Finds
<1> HIDE DEF u
<1> QED BY <1>1, <1>3, <1>5, PushKeeps

LEMMA InvNext ==
    ASSUME InstancesInv, [InstancesNext]_instanceVars
    PROVE  InstancesInv'
<1>1. CASE UNCHANGED instanceVars
  BY <1>1 DEF instanceVars, InstancesInv, InstancesTypeOK, Cells, Sound
<1>2. ASSUME NEW o \in Instances, NEW t \in GuestTypes, NEW c \in HostClasses, New(o, t, c)
      PROVE  InstancesInv'
  BY <1>2, MakeKeeps DEF New
<1>3. ASSUME NEW o \in Instances, NEW c \in HostClasses, Instantiate(o, c)
      PROVE  InstancesInv'
  <2>1. TypeOf[c] \in GuestTypes
    BY InstancesAssumption
  <2> QED BY <1>3, <2>1, MakeKeeps DEF Instantiate
<1>4. ASSUME NEW o \in Instances, NEW c \in HostClasses, StartInit(o, c)
      PROVE  InstancesInv'
  <2> DEFINE u == Use(o, c, "construct", Backends)
  <2>1. u \in PayloadUses
    BY DEF Use, PayloadUses
  <2>2. Finds(u, typeOf, maker, box, filled, crossed)
    BY <1>4 DEF StartInit, Finds, Use
  <2>3. Len(uses) < MaxUses /\ uses' = Append(uses, u)
        /\ UNCHANGED <<typeOf, maker, box, filled, crossed>>
    BY <1>4 DEF StartInit
  <2> HIDE DEF u
  <2> QED BY <2>1, <2>2, <2>3, PushKeeps
<1>5. CASE FinishInit
  BY <1>5, FinishInitKeeps
<1>6. CASE FailInit \/ EndBorrow
  BY <1>6, EndKeeps DEF FailInit, EndBorrow
<1>7. ASSUME NEW o \in Instances, NEW c \in HostClasses, NEW access \in {"shared", "exclusive"},
             Borrow(o, c, access)
      PROVE  InstancesInv'
  BY <1>7, BorrowKeeps
<1> QED BY <1>1, <1>2, <1>3, <1>4, <1>5, <1>6, <1>7 DEF InstancesNext

LEMMA Invariance == InstancesSpec => []InstancesInv
<1>1. InstancesInv /\ [InstancesNext]_instanceVars => InstancesInv'
  BY InvNext
<1> QED BY <1>1, InvInit, PTL DEF InstancesSpec

-----------------------------------------------------------------------------
\* However initialisations and borrows nest, a payload that is borrowed is there as the class
\* it was borrowed as, and code that initialises instances by their makers alone works on
\* both backends or on neither (the borrow and set_payload of both classes.rs).
THEOREM PayloadsStay == InstancesSpec => []PayloadsHold
<1>1. InstancesInv => PayloadsHold
  <2> SUFFICES ASSUME InstancesInv PROVE PayloadsHold
    OBVIOUS
  <2>1. InstancesTypeOK
    BY DEF InstancesInv
  <2>2. \A i \in DOMAIN uses : Sound(i)
    BY <2>1, UsesFacts DEF InstancesInv
  <2>3. ASSUME NEW b \in Backends, NEW o \in Instances, NEW i \in Borrows(b, o)
        PROVE  Holds(b, o, uses[i].class)
    BY <2>2, <2>3 DEF Borrows, Sound, Finds, Holds, BoxHolds, CellHolds, Backends
  <2>4. PayloadIsThere
    BY <2>3 DEF PayloadIsThere
  <2>5. BackendsAgree
    BY <2>2 DEF BackendsAgree, Sound, Finds
  <2> QED BY <2>4, <2>5 DEF PayloadsHold
<1> QED BY <1>1, Invariance, PTL

-----------------------------------------------------------------------------
(* The readers of one generator of the guest's.                            *)

Outcomes == {"none", "item", "busy", "unconverted", "closed", "end", "error"}
StepResults == [is : Outcomes, n : Nat]

StepRecords ==
    [reader : Readers, operation : Operations, task : {"due", "inside", "done"},
     result : StepResults, host : {"open", "answered", "gone"}, answer : StepResults]

GeneratorStates ==
    [async : BOOLEAN, state : {"fresh", "running", "suspended", "finished"}, by : Nat,
     yielded : Nat]

\* The host has of step i what its task came to, and still holds it while it is open.
Kept(i) ==
    /\ steps[i].task # "done" => steps[i].result.is = "none"
    /\ steps[i].host = "open" => current[steps[i].reader] = i
    /\ steps[i].host = "answered" =>
           /\ steps[i].task = "done"
           /\ \/ steps[i].answer = steps[i].result
              \/ steps[i].result.is = "item" /\ steps[i].answer = Other("unconverted")

\* Who is told of the end is not told too early.
Ended(i) == steps[i].result.is = "end" => generator.state = "finished"

\* A step that was refused was so by another reader's, unless either was given up.
Refuses(i) ==
    steps[i].result.is = "busy" =>
        LET j == steps[i].result.n IN
        /\ j \in 1..Len(steps)
        /\ GaveUp(i) \/ GaveUp(j) \/ steps[j].reader # steps[i].reader

\* A reader that waits holds a step of its own that the host has not let go of.
Holder(r) ==
    current[r] # NoStep =>
        /\ current[r] \in 1..Len(steps)
        /\ steps[current[r]].reader = r
        /\ steps[current[r]].host = "open"

\* The generator runs for the step that is inside it.
Runner ==
    generator.by # NoStep =>
        /\ generator.by \in 1..Len(steps)
        /\ steps[generator.by].task = "inside"
        /\ generator.state = "running"

StreamsTyped ==
    /\ generator \in GeneratorStates
    /\ steps \in Seq(StepRecords) /\ Len(steps) <= MaxSteps
    /\ current \in [Readers -> Nat]
    /\ open \subseteq Readers

StreamsInv ==
    /\ StreamsTyped
    /\ \A i \in 1..Len(steps) : Kept(i) /\ Ended(i) /\ Refuses(i)
    /\ \A r \in Readers : Holder(r)
    /\ Runner

LEMMA ResultFacts ==
    /\ \A n \in Nat : Item(n) \in StepResults /\ Item(n).is = "item" /\ Item(n).n = n
    /\ \A n \in Nat : Busy(n) \in StepResults /\ Busy(n).is = "busy" /\ Busy(n).n = n
    /\ \A o \in Outcomes : Other(o) \in StepResults /\ Other(o).is = o
BY DEF Item, Busy, Other, StepResults, Outcomes

\* The generator enters a state, for a step or for none, and may yield.
To(g, state, by) == [g EXCEPT !.state = state, !.by = by]
ToYielded(g, state, by) == [g EXCEPT !.state = state, !.by = by, !.yielded = @ + 1]

LEMMA GeneratorFacts ==
    ASSUME NEW g \in GeneratorStates, NEW by \in Nat,
           NEW state \in {"fresh", "running", "suspended", "finished"}
    PROVE  /\ To(g, state, by) \in GeneratorStates
           /\ To(g, state, by).state = state /\ To(g, state, by).by = by
           /\ ToYielded(g, state, by) \in GeneratorStates
           /\ ToYielded(g, state, by).state = state /\ ToYielded(g, state, by).by = by
<1>1. g.yielded + 1 \in Nat
  BY DEF GeneratorStates
<1>2. /\ To(g, state, by) \in GeneratorStates
      /\ To(g, state, by).state = state /\ To(g, state, by).by = by
  BY DEF GeneratorStates, To
<1>3. ToYielded(g, state, by).state = state /\ ToYielded(g, state, by).by = by
  BY DEF GeneratorStates, ToYielded
<1>4. ToYielded(g, state, by) \in GeneratorStates
  BY <1>1 DEF GeneratorStates, ToYielded
<1> QED BY <1>2, <1>3, <1>4

LEMMA StepsFacts ==
    ASSUME StreamsTyped
    PROVE  /\ Len(steps) \in Nat /\ DOMAIN steps = 1..Len(steps)
           /\ \A i \in 1..Len(steps) : steps[i] \in StepRecords
<1>1. steps \in Seq(StepRecords)
  BY DEF StreamsTyped
<1> QED BY <1>1, LenProperties, ElementOfSeq

\* The task of a step goes on, and nothing else of it or of the others.
LEMMA TaskFacts ==
    ASSUME StreamsTyped, NEW i \in 1..Len(steps), NEW task \in {"due", "inside", "done"},
           NEW result \in StepResults, steps' = SetTask(i, task, result)
    PROVE  /\ steps' \in Seq(StepRecords) /\ Len(steps') = Len(steps)
           /\ \A j \in 1..Len(steps) : j # i => steps'[j] = steps[j]
           /\ steps'[i].task = task /\ steps'[i].result = result
           /\ steps'[i].reader = steps[i].reader /\ steps'[i].operation = steps[i].operation
           /\ steps'[i].host = steps[i].host /\ steps'[i].answer = steps[i].answer
<1> DEFINE e == [steps[i] EXCEPT !.task = task, !.result = result]
<1>1. steps \in Seq(StepRecords) /\ steps[i] \in StepRecords /\ DOMAIN steps = 1..Len(steps)
  BY StepsFacts DEF StreamsTyped
<1>2. /\ e.task = task /\ e.result = result /\ e.reader = steps[i].reader
      /\ e.operation = steps[i].operation /\ e.host = steps[i].host
      /\ e.answer = steps[i].answer
  BY <1>1 DEF StepRecords
<1>3. e \in StepRecords
  BY <1>1 DEF StepRecords
<1>4. steps' = [steps EXCEPT ![i] = e]
  BY <1>1 DEF SetTask, StepRecords
<1> HIDE DEF e
<1> QED BY <1>1, <1>2, <1>3, <1>4, ExceptSeq

\* The host lets go of a step.
LEMMA HostFacts ==
    ASSUME StreamsTyped, NEW i \in 1..Len(steps), NEW host \in {"open", "answered", "gone"},
           NEW answer \in StepResults, steps' = SetHost(i, host, answer)
    PROVE  /\ steps' \in Seq(StepRecords) /\ Len(steps') = Len(steps)
           /\ \A j \in 1..Len(steps) : j # i => steps'[j] = steps[j]
           /\ steps'[i].host = host /\ steps'[i].answer = answer
           /\ steps'[i].reader = steps[i].reader /\ steps'[i].operation = steps[i].operation
           /\ steps'[i].task = steps[i].task /\ steps'[i].result = steps[i].result
<1> DEFINE e == [steps[i] EXCEPT !.host = host, !.answer = answer]
<1>1. steps \in Seq(StepRecords) /\ steps[i] \in StepRecords /\ DOMAIN steps = 1..Len(steps)
  BY StepsFacts DEF StreamsTyped
<1>2. /\ e.host = host /\ e.answer = answer /\ e.reader = steps[i].reader
      /\ e.operation = steps[i].operation /\ e.task = steps[i].task
      /\ e.result = steps[i].result
  BY <1>1 DEF StepRecords
<1>3. e \in StepRecords
  BY <1>1 DEF StepRecords
<1>4. steps' = [steps EXCEPT ![i] = e]
  BY <1>1 DEF SetHost, StepRecords
<1> HIDE DEF e
<1> QED BY <1>1, <1>2, <1>3, <1>4, ExceptSeq

LEMMA StreamsInitFits == StreamsInit => StreamsInv
<1> SUFFICES ASSUME StreamsInit PROVE StreamsInv
  OBVIOUS
<1>1. steps \in Seq(StepRecords) /\ Len(steps) = 0
  BY EmptySeq DEF StreamsInit
<1>2. /\ generator \in GeneratorStates /\ generator.by = NoStep
      /\ current \in [Readers -> Nat] /\ \A r \in Readers : current[r] = NoStep
      /\ open = Readers
  BY DEF StreamsInit, Generators, GeneratorStates, NoStep
<1> QED BY <1>1, <1>2, GuestStreamsAssumption DEF StreamsInv, StreamsTyped, Holder, Runner

LEMMA AskKeeps ==
    ASSUME StreamsInv, NEW r \in Readers, NEW operation \in Operations, Ask(r, operation)
    PROVE  StreamsInv'
<1>0. PICK m \in Nat : m = Len(steps)
  BY StepsFacts DEF StreamsInv
<1> DEFINE s == [reader |-> r, operation |-> operation, task |-> "due",
                 result |-> Other("none"), host |-> "open", answer |-> Other("none")]
<1>1. /\ StreamsTyped /\ Len(steps) < MaxSteps /\ MaxSteps \in Nat
      /\ steps' = Append(steps, s)
      /\ current' = [current EXCEPT ![r] = m + 1]
      /\ current[r] = NoStep
      /\ UNCHANGED <<generator, open>>
  BY <1>0, GuestStreamsAssumption DEF StreamsInv, Ask, Waiting, HeldAfterPoll
<1>2. Other("none") \in StepResults /\ Other("none").is = "none"
  BY ResultFacts DEF Outcomes
<1>3. /\ s \in StepRecords /\ s.reader = r /\ s.task = "due" /\ s.result.is = "none"
      /\ s.host = "open"
  BY <1>2 DEF StepRecords
<1> HIDE DEF s
<1>4. /\ steps' \in Seq(StepRecords) /\ m \in Nat /\ Len(steps') = m + 1
      /\ \A i \in 1..m : steps'[i] = steps[i]
      /\ steps'[m + 1] = s
  BY <1>0, <1>1, <1>3, AppendProperties DEF StreamsTyped
<1>5. \A i \in 1..m : Kept(i) /\ Ended(i) /\ Refuses(i) /\ steps[i] \in StepRecords
  BY <1>0, <1>1, StepsFacts DEF StreamsInv
<1>6. /\ current' \in [Readers -> Nat] /\ current'[r] = m + 1
      /\ \A q \in Readers \ {r} : current'[q] = current[q]
  BY <1>1, <1>4 DEF StreamsTyped
<1>7. StreamsTyped'
  BY <1>0, <1>1, <1>4, <1>6 DEF StreamsTyped
<1>8. ASSUME NEW i \in 1..m PROVE (Kept(i) /\ Ended(i) /\ Refuses(i))'
  <2>1. steps[i].host = "open" => steps[i].reader # r
    BY <1>1, <1>4, <1>5, <1>8 DEF Kept, NoStep
  <2>2. steps'[i] = steps[i] /\ i \in 1..m /\ steps[i].reader \in Readers
    BY <1>4, <1>5, <1>8 DEF StepRecords
  <2>3. Kept(i)'
    BY <1>5, <1>6, <2>1, <2>2 DEF Kept
  <2>4. Ended(i)'
    BY <1>1, <1>5, <2>2 DEF Ended
  <2>5. Refuses(i)'
    BY <1>0, <1>4, <1>5, <2>2 DEF Refuses, GaveUp
  <2> QED BY <2>3, <2>4, <2>5
<1>9. Kept(m + 1)' /\ Ended(m + 1)' /\ Refuses(m + 1)'
  <2>1. /\ steps'[m + 1].reader = r /\ steps'[m + 1].task = "due"
        /\ steps'[m + 1].result.is = "none" /\ steps'[m + 1].host = "open"
    BY <1>3, <1>4
  <2> QED BY <1>6, <2>1 DEF Kept, Ended, Refuses
<1>10. ASSUME NEW q \in Readers PROVE Holder(q)'
  <2>1. CASE q = r
    BY <1>3, <1>4, <1>6, <2>1 DEF Holder
  <2>2. CASE q # r
    <3>1. Holder(q) /\ current'[q] = current[q]
      BY <1>6, <2>2 DEF StreamsInv
    <3> QED BY <1>0, <1>4, <3>1 DEF Holder
  <2> QED BY <2>1, <2>2
<1>11. Runner'
  BY <1>0, <1>1, <1>4 DEF StreamsInv, Runner
<1>12. \A i \in 1..Len(steps') : i \in 1..m \/ i = m + 1
  BY <1>4
<1> QED BY <1>7, <1>8, <1>9, <1>10, <1>11, <1>12 DEF StreamsInv

\* A reader lets go of the step it holds, with its answer or without.
LEMMA LetGoKeeps ==
    ASSUME StreamsInv, NEW r \in Readers, Waiting(r), NEW host \in {"answered", "gone"},
           NEW answer \in StepResults, steps' = SetHost(current[r], host, answer),
           host = "answered" =>
               /\ steps[current[r]].task = "done"
               /\ \/ answer = steps[current[r]].result
                  \/ steps[current[r]].result.is = "item" /\ answer = Other("unconverted"),
           current' = [current EXCEPT ![r] = NoStep], open' \subseteq open,
           UNCHANGED generator
    PROVE  StreamsInv'
<1> DEFINE h == current[r]
<1>1. /\ StreamsTyped /\ h \in 1..Len(steps) /\ steps[h].reader = r /\ steps[h].host = "open"
      /\ h # NoStep
  BY DEF StreamsInv, Holder, Waiting
<1>2. /\ steps' \in Seq(StepRecords) /\ Len(steps') = Len(steps)
      /\ \A j \in 1..Len(steps) : j # h => steps'[j] = steps[j]
      /\ steps'[h].host = host /\ steps'[h].answer = answer
      /\ steps'[h].reader = r
      /\ steps'[h].task = steps[h].task /\ steps'[h].result = steps[h].result
  BY <1>1, HostFacts
<1>3. \A i \in 1..Len(steps) : Kept(i) /\ Ended(i) /\ Refuses(i) /\ steps[i] \in StepRecords
  BY <1>1, StepsFacts DEF StreamsInv
<1>4. /\ current' \in [Readers -> Nat] /\ current'[r] = NoStep
      /\ \A q \in Readers \ {r} : current'[q] = current[q]
  BY <1>1 DEF StreamsTyped, NoStep
<1>5. StreamsTyped'
  BY <1>1, <1>2, <1>4 DEF StreamsTyped
<1>6. \A i \in 1..Len(steps) :
         /\ steps'[i].reader = steps[i].reader /\ steps'[i].result = steps[i].result
         /\ steps'[i].task = steps[i].task
         /\ GaveUp(i) => steps'[i].host = "gone"
  BY <1>1, <1>2 DEF GaveUp
<1>7. ASSUME NEW i \in 1..Len(steps) PROVE Kept(i)'
  <2>1. CASE i = h
    BY <1>2, <1>3, <1>4, <2>1 DEF Kept
  <2>2. CASE i # h
    <3>1. steps[i].host = "open" => steps[i].reader # r
      BY <1>3, <2>2 DEF Kept
    <3>2. steps'[i] = steps[i] /\ steps[i].reader \in Readers /\ Kept(i)
      BY <1>2, <1>3, <2>2 DEF StepRecords
    <3> QED BY <1>4, <3>1, <3>2 DEF Kept
  <2> QED BY <2>1, <2>2
<1>8. ASSUME NEW i \in 1..Len(steps) PROVE Ended(i)' /\ Refuses(i)'
  BY <1>2, <1>3, <1>6 DEF Ended, Refuses, GaveUp
<1>9. ASSUME NEW q \in Readers PROVE Holder(q)'
  <2>1. CASE q = r
    BY <1>4, <2>1 DEF Holder
  <2>2. CASE q # r
    <3>1. Holder(q) /\ current'[q] = current[q]
      BY <1>4, <2>2 DEF StreamsInv
    <3>2. current[q] # NoStep => current[q] # h
      BY <1>1, <2>2, <3>1 DEF Holder
    <3> QED BY <1>2, <3>1, <3>2 DEF Holder
  <2> QED BY <2>1, <2>2
<1>10. Runner'
  BY <1>2, <1>6 DEF StreamsInv, Runner
<1> QED BY <1>2, <1>5, <1>7, <1>8, <1>9, <1>10 DEF StreamsInv

\* The task of a step that is not over goes on: it enters the generator, leaves it, or is
\* over without having been inside.
LEMMA GoesOnKeeps ==
    ASSUME StreamsInv, NEW i \in 1..Len(steps), steps[i].task # "done",
           NEW task \in {"inside", "done"}, NEW result \in StepResults,
           steps' = SetTask(i, task, result),
           task = "inside" => result.is = "none",
           generator' \in GeneratorStates,
           generator.state = "finished" => generator'.state = "finished",
           result.is = "end" => generator'.state = "finished",
           result.is = "busy" =>
               steps[i].task = "due" /\ generator.by # NoStep /\ result.n = generator.by,
           \/ generator'.by = NoStep
           \/ generator' = generator /\ generator.by # i
           \/ generator'.by = i /\ task = "inside" /\ generator'.state = "running",
           UNCHANGED <<current, open>>
    PROVE  StreamsInv'
<1>1. StreamsTyped
  BY DEF StreamsInv
<1>2. /\ steps' \in Seq(StepRecords) /\ Len(steps') = Len(steps)
      /\ \A j \in 1..Len(steps) : j # i => steps'[j] = steps[j]
      /\ steps'[i].task = task /\ steps'[i].result = result
      /\ steps'[i].reader = steps[i].reader
      /\ steps'[i].host = steps[i].host /\ steps'[i].answer = steps[i].answer
  BY <1>1, TaskFacts
<1>3. \A j \in 1..Len(steps) : Kept(j) /\ Ended(j) /\ Refuses(j) /\ steps[j] \in StepRecords
  BY <1>1, StepsFacts DEF StreamsInv
<1>4. StreamsTyped'
  BY <1>1, <1>2 DEF StreamsTyped
<1>5. \A j \in 1..Len(steps) : steps'[j].reader = steps[j].reader /\ steps'[j].host = steps[j].host
  BY <1>2
<1>6. ASSUME NEW j \in 1..Len(steps) PROVE Kept(j)'
  <2>1. CASE j = i
    BY <1>2, <1>3, <2>1 DEF Kept
  <2>2. CASE j # i
    <3>1. steps'[j] = steps[j] /\ Kept(j)
      BY <1>2, <1>3, <2>2
    <3> QED BY <3>1 DEF Kept
  <2> QED BY <2>1, <2>2
<1>7. ASSUME NEW j \in 1..Len(steps) PROVE Ended(j)'
  <2>1. CASE j = i
    BY <1>2, <2>1 DEF Ended
  <2>2. CASE j # i
    BY <1>2, <1>3, <2>2 DEF Ended
  <2> QED BY <2>1, <2>2
<1>8. ASSUME NEW j \in 1..Len(steps) PROVE Refuses(j)'
  <2>1. CASE j = i
    <3>1. SUFFICES ASSUME result.is = "busy"
                   PROVE  /\ generator.by \in 1..Len(steps)
                          /\ \/ GaveUp(i) \/ GaveUp(generator.by)
                             \/ steps[generator.by].reader # steps[i].reader
      BY <1>2, <1>5, <2>1 DEF Refuses, GaveUp
    <3>2. PICK k \in 1..Len(steps) : k = generator.by /\ steps[k].task = "inside"
      BY <3>1 DEF StreamsInv, Runner
    <3>3. k # i
      BY <3>1, <3>2
    <3>4. /\ steps[i].host \in {"open", "gone"} /\ steps[k].host \in {"open", "gone"}
      BY <1>3, <3>2 DEF Kept, StepRecords
    <3> QED BY <1>3, <3>2, <3>3, <3>4 DEF Kept, GaveUp
  <2>2. CASE j # i
    BY <1>2, <1>3, <1>5, <2>2 DEF Refuses, GaveUp
  <2> QED BY <2>1, <2>2
<1>9. ASSUME NEW q \in Readers PROVE Holder(q)'
  BY <1>2, <1>5 DEF StreamsInv, Holder
<1>10. Runner'
  BY <1>2 DEF StreamsInv, Runner
<1> QED BY <1>2, <1>4, <1>6, <1>7, <1>8, <1>9, <1>10 DEF StreamsInv

LEMMA GuestStepKeeps ==
    ASSUME StreamsInv, NEW i \in DOMAIN steps,
           \/ StepBusy(i) \/ StepFinished(i) \/ StepFresh(i) \/ StepEnters(i) \/ Yields(i)
           \/ Finishes(i)
    PROVE  StreamsInv'
<1>1. /\ StreamsTyped /\ i \in 1..Len(steps) /\ generator \in GeneratorStates /\ i # NoStep
      /\ steps[i].task \in {"due", "inside", "done"} /\ generator.by \in Nat
  BY StepsFacts DEF StreamsInv, StreamsTyped, StepRecords, GeneratorStates, NoStep
<1>2. generator.by # NoStep => steps[generator.by].task = "inside" /\ generator.state = "running"
  BY DEF StreamsInv, Runner
<1>3. CASE StepBusy(i)
  <2>1. Busy(generator.by) \in StepResults /\ Busy(generator.by).is = "busy"
        /\ Busy(generator.by).n = generator.by
    BY <1>1, ResultFacts
  <2>2. /\ steps[i].task = "due" /\ generator.by # NoStep /\ generator.by # i
        /\ steps' = SetTask(i, "done", Busy(generator.by))
        /\ UNCHANGED <<generator, current, open>>
    BY <1>2, <1>3 DEF StepBusy, Due
  <2> QED BY <1>1, <2>1, <2>2, GoesOnKeeps
<1>4. CASE StepFinished(i)
  <2>1. PICK what \in {"closed", "end", "error"} : steps' = SetTask(i, "done", Other(what))
    BY <1>4 DEF StepFinished
  <2>2. Other(what) \in StepResults /\ Other(what).is = what
    BY ResultFacts DEF Outcomes
  <2>3. /\ steps[i].task = "due" /\ generator.state = "finished" /\ generator.by = NoStep
        /\ UNCHANGED <<generator, current, open>>
    BY <1>2, <1>4 DEF StepFinished, Due
  <2> QED BY <1>1, <2>1, <2>2, <2>3, GoesOnKeeps
<1>5. CASE StepFresh(i)
  <2>1. PICK what \in {"closed", "error"} : steps' = SetTask(i, "done", Other(what))
    BY <1>5 DEF StepFresh
  <2>2. Other(what) \in StepResults /\ Other(what).is = what
    BY ResultFacts DEF Outcomes
  <2>3. /\ steps[i].task = "due" /\ generator.state = "fresh" /\ generator.by = NoStep
        /\ UNCHANGED <<current, open>>
        /\ generator' = generator \/ generator' = [generator EXCEPT !.state = "finished"]
    BY <1>2, <1>5 DEF StepFresh, Due
  <2>4. generator' \in GeneratorStates /\ generator'.by = NoStep
    BY <1>1, <2>3 DEF GeneratorStates
  <2> QED BY <1>1, <2>1, <2>2, <2>3, <2>4, GoesOnKeeps
<1>6. CASE StepEnters(i)
  <2>1. Other("none") \in StepResults /\ Other("none").is = "none"
    BY ResultFacts DEF Outcomes
  <2>2. /\ steps[i].task = "due" /\ generator.state # "finished"
        /\ steps' = SetTask(i, "inside", Other("none"))
        /\ generator' = [generator EXCEPT !.state = "running", !.by = i]
        /\ UNCHANGED <<current, open>>
    BY <1>6 DEF StepEnters, Due
  <2>3. generator' \in GeneratorStates /\ generator'.by = i /\ generator'.state = "running"
    <3>1. "running" \in {"fresh", "running", "suspended", "finished"} /\ i \in Nat
      BY <1>1
    <3>2. generator' = To(generator, "running", i)
      BY <2>2 DEF To
    <3>3. generator \in GeneratorStates
      BY <1>1
    <3>4. /\ To(generator, "running", i) \in GeneratorStates
          /\ To(generator, "running", i).by = i
          /\ To(generator, "running", i).state = "running"
      BY <3>1, <3>3, GeneratorFacts, ZenonT(60)
    <3> QED BY <3>2, <3>4
  <2> QED BY <1>1, <2>1, <2>2, <2>3, GoesOnKeeps
<1>7. CASE Yields(i)
  <2>1. generator.by = i /\ steps[i].task = "inside" /\ generator.state = "running"
    BY <1>1, <1>2, <1>7 DEF Yields, Inside
  <2>2. PICK result \in StepResults : /\ steps' = SetTask(i, "done", result)
                                  /\ result.is \in {"item", "error"}
    <3>1. /\ Item(generator.yielded + 1) \in StepResults /\ Item(generator.yielded + 1).is = "item"
          /\ Other("error") \in StepResults /\ Other("error").is = "error"
      BY <1>1, ResultFacts DEF GeneratorStates, Outcomes
    <3> QED BY <1>7, <3>1 DEF Yields
  <2>3. generator' \in GeneratorStates /\ generator'.by = NoStep /\ UNCHANGED <<current, open>>
    <3>1. \/ generator' = [generator EXCEPT !.state = "suspended", !.by = NoStep, !.yielded = @ + 1]
          \/ generator' = [generator EXCEPT !.state = "suspended", !.by = NoStep]
      BY <1>7 DEF Yields
    <3>2. UNCHANGED <<current, open>>
      BY <1>7 DEF Yields
    <3>3. "suspended" \in {"fresh", "running", "suspended", "finished"} /\ NoStep \in Nat
      BY DEF NoStep
    <3>4. \/ generator' = ToYielded(generator, "suspended", NoStep)
          \/ generator' = To(generator, "suspended", NoStep)
      BY <3>1 DEF To, ToYielded
    <3>5. generator \in GeneratorStates
      BY <1>1
    <3>6. CASE generator' = ToYielded(generator, "suspended", NoStep)
      BY <3>2, <3>3, <3>5, <3>6, GeneratorFacts, ZenonT(60)
    <3>7. CASE generator' = To(generator, "suspended", NoStep)
      BY <3>2, <3>3, <3>5, <3>7, GeneratorFacts, ZenonT(60)
    <3> QED BY <3>4, <3>6, <3>7
  <2> QED BY <1>1, <2>1, <2>2, <2>3, GoesOnKeeps
<1>8. CASE Finishes(i)
  <2>1. generator.by = i /\ steps[i].task = "inside" /\ generator.state = "running"
    BY <1>1, <1>2, <1>8 DEF Finishes, Inside
  <2>2. PICK what \in {"error", "closed", "end"} : steps' = SetTask(i, "done", Other(what))
    BY <1>8 DEF Finishes
  <2>3. Other(what) \in StepResults /\ Other(what).is = what
    BY ResultFacts DEF Outcomes
  <2>4. /\ generator' = [generator EXCEPT !.state = "finished", !.by = NoStep]
        /\ UNCHANGED <<current, open>>
    BY <1>8 DEF Finishes
  <2>5. generator' \in GeneratorStates /\ generator'.by = NoStep /\ generator'.state = "finished"
    <3>1. "finished" \in {"fresh", "running", "suspended", "finished"} /\ NoStep \in Nat
      BY DEF NoStep
    <3>2. generator' = To(generator, "finished", NoStep)
      BY <2>4 DEF To
    <3>3. generator \in GeneratorStates
      BY <1>1
    <3>4. /\ To(generator, "finished", NoStep) \in GeneratorStates
          /\ To(generator, "finished", NoStep).by = NoStep
          /\ To(generator, "finished", NoStep).state = "finished"
      BY <3>1, <3>3, GeneratorFacts, ZenonT(60)
    <3> QED BY <3>2, <3>4
  <2> QED BY <1>1, <2>1, <2>2, <2>3, <2>4, <2>5, GoesOnKeeps
<1> QED BY <1>3, <1>4, <1>5, <1>6, <1>7, <1>8

LEMMA StreamsStep ==
    ASSUME StreamsInv, [StreamsNext]_streamVars
    PROVE  StreamsInv'
<1>1. StreamsTyped /\ \A i \in 1..Len(steps) : steps[i] \in StepRecords /\ Kept(i)
  BY StepsFacts DEF StreamsInv
<1>2. CASE UNCHANGED streamVars
  BY <1>2 DEF streamVars, StreamsInv, StreamsTyped, Kept, Ended, Refuses, GaveUp, Holder, Runner
<1>3. ASSUME NEW r \in Readers, NEW operation \in Operations, Ask(r, operation)
      PROVE  StreamsInv'
  BY <1>3, AskKeeps
<1>4. ASSUME NEW r \in Readers, Answer(r) PROVE StreamsInv'
  <2>1. /\ Waiting(r) /\ steps[current[r]].task = "done"
        /\ current' = [current EXCEPT ![r] = NoStep] /\ UNCHANGED <<generator, open>>
    BY <1>4 DEF Answer, Ready, HeldAfterPoll
  <2>2. PICK answer : /\ steps' = SetHost(current[r], "answered", answer)
                      /\ \/ answer = steps[current[r]].result
                         \/ /\ steps[current[r]].result.is = "item"
                            /\ answer = Other("unconverted")
    BY <1>4 DEF Answer, Settle
  <2>3. steps[current[r]] \in StepRecords
    BY <1>1, <2>1 DEF StreamsInv, Holder, Waiting
  <2>4. answer \in StepResults
    BY <2>2, <2>3, ResultFacts DEF StepRecords, Outcomes
  <2> QED BY <2>1, <2>2, <2>4, LetGoKeeps
<1>5. ASSUME NEW r \in Readers, PollRefused(r) PROVE StreamsInv'
  <2>1. Other("none") \in StepResults
    BY ResultFacts DEF Outcomes
  <2> QED BY <1>5, <2>1, LetGoKeeps DEF PollRefused, HeldAfterPoll
<1>6. ASSUME NEW r \in Readers, GiveUp(r) PROVE StreamsInv'
  <2>1. Other("none") \in StepResults
    BY ResultFacts DEF Outcomes
  <2>2. CASE Waiting(r)
    BY <1>6, <2>1, <2>2, LetGoKeeps DEF GiveUp
  <2>3. CASE ~Waiting(r)
    <3>1. current' = current
      BY <1>1, <1>6, <2>3 DEF GiveUp, Waiting, StreamsTyped
    <3>2. UNCHANGED <<generator, steps>> /\ open' \subseteq open
      BY <1>6, <2>3 DEF GiveUp
    <3> QED BY <3>1, <3>2 DEF StreamsInv, StreamsTyped, Kept, Ended, Refuses, GaveUp, Holder,
                              Runner
  <2> QED BY <2>2, <2>3
<1>7. CASE GuestSteps
  BY <1>7, GuestStepKeeps DEF GuestSteps
<1> QED BY <1>2, <1>3, <1>4, <1>5, <1>6, <1>7 DEF StreamsNext

LEMMA StreamsInvariance == StreamsSpec => []StreamsInv
<1>1. StreamsInv /\ [StreamsNext]_streamVars => StreamsInv'
  BY StreamsStep
<1> QED BY <1>1, StreamsInitFits, PTL DEF StreamsSpec

\* However many readers share one generator, whatever they drop and whichever of them is
\* refused: an item it yields reaches the reader whose step took it, a reader never stands in
\* its own way, and who is told of the end is told the truth (driver/cursor.rs,
\* AsyncCursor::poll; driver/step.rs, AsyncStep::settle).
THEOREM ReadersServed == StreamsSpec => []ReadersAreServed
<1>1. ASSUME StreamsInv PROVE ReadersAreServed
  <2>1. /\ DOMAIN steps = 1..Len(steps)
        /\ \A i \in 1..Len(steps) : Kept(i) /\ Ended(i) /\ Refuses(i) /\ steps[i] \in StepRecords
    BY <1>1, StepsFacts DEF StreamsInv
  <2>2. Other("unconverted").is = "unconverted"
    BY DEF Other
  <2>3. ItemsKept
    BY <2>1 DEF ItemsKept, Kept, StepRecords, GaveUp, Answered
  <2>4. ASSUME NEW i \in 1..Len(steps), Answered(i), steps[i].answer.is = "busy"
        PROVE  LET j == steps[i].answer.n IN steps[j].reader # steps[i].reader \/ GaveUp(j)
    BY <2>1, <2>2, <2>4 DEF Kept, Refuses, Answered, GaveUp
  <2>5. ASSUME NEW i \in 1..Len(steps), Answered(i), steps[i].answer.is = "end"
        PROVE  generator.state = "finished"
    BY <2>1, <2>2, <2>5 DEF Kept, Ended, Answered
  <2>6. BusyWithAnother
    BY <2>1, <2>4 DEF BusyWithAnother
  <2> QED BY <2>1, <2>3, <2>5, <2>6 DEF ReadersAreServed, EndIsTheEnd
<1> QED BY <1>1, StreamsInvariance, PTL

-----------------------------------------------------------------------------
(* Host errors in a guest.                                                *)

\* The classes from one up, as Upward has them; there are such.
IsUpward(specs, class, n, up) ==
    up = [k \in 0..n |->
              IF k = 0 THEN class
              ELSE IF IsDeclared(specs, up[k - 1]) THEN SpecOf(specs, up[k - 1]).base ELSE up[k - 1]]

LEMMA HasUpward ==
    ASSUME NEW specs, NEW class, NEW n \in Nat
    PROVE  \E up : IsUpward(specs, class, n, up)
<1> DEFINE Next(c) == IF IsDeclared(specs, c) THEN SpecOf(specs, c).base ELSE c
           S == {m \in 0..n : \E up : IsUpward(specs, class, m, up)}
<1>1. 0 \in S
  <2> DEFINE first == [k \in 0..0 |-> class]
  <2>1. IsUpward(specs, class, 0, first)
    BY DEF IsUpward
  <2> QED BY <2>1
<1>2. ASSUME NEW m \in 1..n, m - 1 \in S
      PROVE  m \in S
  <2>1. PICK up : IsUpward(specs, class, m - 1, up)
    BY <1>2
  <2> DEFINE further == [k \in 0..m |-> IF k = m THEN Next(up[m - 1]) ELSE up[k]]
             ruled == [k \in 0..m |-> IF k = 0 THEN class ELSE Next(further[k - 1])]
  <2>0. up = [k \in 0..(m - 1) |-> IF k = 0 THEN class ELSE Next(up[k - 1])]
    BY <2>1 DEF IsUpward
  <2> HIDE DEF Next
  <2>2. \A k \in 0..m : further[k] = ruled[k]
    <3>1. SUFFICES ASSUME NEW k \in 0..m PROVE further[k] = ruled[k]
      OBVIOUS
    <3>2. CASE k = m
      <4>1. further[m - 1] = up[m - 1] /\ m # 0
        OBVIOUS
      <4> QED BY <3>2, <4>1
    <3>3. CASE k # m
      <4>1. k \in 0..(m - 1) /\ further[k] = up[k] /\ (k # 0 => further[k - 1] = up[k - 1])
        BY <3>3
      <4>2. up[k] = IF k = 0 THEN class ELSE Next(up[k - 1])
        BY <2>0, <4>1
      <4> QED BY <4>1, <4>2, Zenon
    <3> QED BY <3>2, <3>3
  <2>3. further = ruled
    BY <2>2
  <2>4. IsUpward(specs, class, m, further)
    BY <2>3 DEF IsUpward, Next
  <2> QED BY <2>4
<1> HIDE DEF S
<1>3. n \in S
  BY <1>1, <1>2, Counting
<1> QED BY <1>3 DEF S

\* Upward, a CHOOSE, is these classes.
LEMMA UpwardIs ==
    ASSUME NEW specs, NEW class, Cardinality(specs) \in Nat
    PROVE  IsUpward(specs, class, Cardinality(specs), Upward(specs, class))
<1> DEFINE up == CHOOSE up : IsUpward(specs, class, Cardinality(specs), up)
<1>1. IsUpward(specs, class, Cardinality(specs), up)
  BY HasUpward
<1>2. Upward(specs, class) = up
  BY DEF Upward, IsUpward
<1> QED BY <1>1, <1>2

LEMMA UpwardFacts ==
    ASSUME NEW specs, NEW class, IsFiniteSet(specs), Ends(specs, class) # {},
           NEW up, up = Upward(specs, class), NEW height, height = Height(specs, class)
    PROVE  /\ height \in 0..Cardinality(specs) /\ height \in Nat
           /\ up[0] = class /\ ~IsDeclared(specs, up[height])
           /\ \A k \in 0..(height - 1) : IsDeclared(specs, up[k]) /\ up[k + 1] = SpecOf(specs, up[k]).base
<1>1. Cardinality(specs) \in Nat
  BY FS_CardinalityType
<1>2. IsUpward(specs, class, Cardinality(specs), up)
  BY <1>1, UpwardIs
<1>3. Ends(specs, class) = {n \in 0..Cardinality(specs) : ~IsDeclared(specs, up[n])}
  BY DEF Ends
<1>4. Ends(specs, class) \subseteq Nat
  BY <1>1, <1>3
<1>5. height \in Ends(specs, class) /\ \A n \in Ends(specs, class) : height <= n
  BY <1>4, MinFacts DEF Height
<1>6. height \in 0..Cardinality(specs) /\ height \in Nat /\ ~IsDeclared(specs, up[height])
  BY <1>1, <1>3, <1>5
<1>7. up[0] = class
  BY <1>1, <1>2 DEF IsUpward
<1>8. ASSUME NEW k \in 0..(height - 1)
      PROVE  IsDeclared(specs, up[k]) /\ up[k + 1] = SpecOf(specs, up[k]).base
  <2>1. k \in 0..Cardinality(specs) /\ k + 1 \in 0..Cardinality(specs) /\ k + 1 # 0 /\ (k + 1) - 1 = k
        /\ ~(height <= k)
    BY <1>1, <1>6
  <2>2. IsDeclared(specs, up[k])
    BY <1>3, <1>5, <2>1
  <2>3. up[k + 1] = IF IsDeclared(specs, up[k]) THEN SpecOf(specs, up[k]).base ELSE up[k]
    <3>1. up[k + 1] = IF k + 1 = 0 THEN class
                      ELSE IF IsDeclared(specs, up[(k + 1) - 1]) THEN SpecOf(specs, up[(k + 1) - 1]).base
                      ELSE up[(k + 1) - 1]
      BY <1>2, <2>1 DEF IsUpward
    <3> QED BY <2>1, <3>1
  <2> QED BY <2>2, <2>3
<1> QED BY <1>6, <1>7, <1>8

\* The declaration of a class of a catalog is the only one.
LEMMA SpecOfFacts ==
    ASSUME NEW specs, IsCatalog(specs), NEW class, IsDeclared(specs, class)
    PROVE  SpecOf(specs, class) \in specs /\ SpecOf(specs, class).key = class
BY DEF SpecOf, IsDeclared

LEMMA CatalogEnds ==
    ASSUME NEW specs, IsCatalog(specs), NEW class
    PROVE  IsFiniteSet(specs) /\ Ends(specs, class) # {}
<1>1. IsFiniteSet(specs) /\ Cardinality(specs) \in Nat
  BY FS_CardinalityType DEF IsCatalog
<1>2. CASE IsDeclared(specs, class)
  BY <1>1, <1>2 DEF IsCatalog, IsDeclared
<1>3. CASE ~IsDeclared(specs, class)
  <2>1. IsUpward(specs, class, Cardinality(specs), Upward(specs, class))
    BY <1>1, UpwardIs
  <2>2. Upward(specs, class)[0] = class
    BY <1>1, <2>1 DEF IsUpward
  <2>3. 0 \in Ends(specs, class)
    BY <1>1, <1>3, <2>2 DEF Ends
  <2> QED BY <1>1, <2>3
<1> QED BY <1>2, <1>3

\* The bases of a class are the classes from it up.
LEMMA BasesAreUpward ==
    ASSUME NEW specs, NEW class, IsCatalog(specs),
           NEW up, up = Upward(specs, class), NEW height, height = Height(specs, class)
    PROVE  Bases(specs, class) = {up[k] : k \in 0..height}
<1> DEFINE known == {class} \cup {s.base : s \in specs}
           line == {up[k] : k \in 0..height}
           Closed(S) == class \in S /\ (\A s \in specs : s.key \in S => s.base \in S)
<1>1. /\ height \in Nat /\ up[0] = class /\ ~IsDeclared(specs, up[height])
      /\ \A k \in 0..(height - 1) : IsDeclared(specs, up[k]) /\ up[k + 1] = SpecOf(specs, up[k]).base
  BY CatalogEnds, UpwardFacts
<1>2. \A k \in 1..height :
          k - 1 \in 0..(height - 1) /\ up[k] = SpecOf(specs, up[k - 1]).base
          /\ SpecOf(specs, up[k - 1]) \in specs /\ SpecOf(specs, up[k - 1]).key = up[k - 1]
  <2>1. ASSUME NEW k \in 1..height PROVE k - 1 \in 0..(height - 1) /\ (k - 1) + 1 = k
    BY <1>1
  <2>2. ASSUME NEW k \in 1..height
        PROVE  IsDeclared(specs, up[k - 1]) /\ up[k] = SpecOf(specs, up[k - 1]).base
    BY <1>1, <2>1
  <2> QED BY <2>1, <2>2, SpecOfFacts
<1>3. line \subseteq known
  <2>1. ASSUME NEW k \in 0..height PROVE up[k] \in known
    <3>1. k = 0 \/ k \in 1..height
      BY <1>1
    <3> QED BY <1>1, <1>2, <3>1
  <2> QED BY <2>1
<1>4. Closed(line)
  <2>1. class \in line
    BY <1>1
  <2>2. ASSUME NEW s \in specs, s.key \in line PROVE s.base \in line
    <3>1. PICK k \in 0..height : s.key = up[k]
      BY <2>2
    <3>2. IsDeclared(specs, up[k])
      BY <3>1 DEF IsDeclared
    <3>3. k \in 0..(height - 1) /\ k + 1 \in 0..height
      BY <1>1, <3>2
    <3>4. SpecOf(specs, up[k]) = s
      BY <3>1, <3>2, SpecOfFacts DEF IsCatalog
    <3> QED BY <1>1, <3>3, <3>4
  <2> QED BY <2>1, <2>2
<1>5. ASSUME NEW S, Closed(S) PROVE line \subseteq S
  <2> DEFINE T == {k \in 0..height : up[k] \in S}
  <2>1. 0 \in T
    BY <1>1, <1>5
  <2>2. ASSUME NEW k \in 1..height, k - 1 \in T PROVE k \in T
    BY <1>2, <1>5, <2>2
  <2> HIDE DEF T
  <2>3. \A k \in 0..height : k \in T
    BY <1>1, <2>1, <2>2, Counting
  <2> QED BY <2>3 DEF T
<1>6. Bases(specs, class) = {c \in known : \A S \in SUBSET known : Closed(S) => c \in S}
  BY DEF Bases
<1> HIDE DEF line, known, Closed
<1>7. Bases(specs, class) \subseteq line
  BY <1>3, <1>4, <1>6
<1>8. line \subseteq Bases(specs, class)
  BY <1>3, <1>5, <1>6
<1> QED BY <1>7, <1>8 DEF line

LEMMA EntryFacts ==
    ASSUME NEW ref, NEW module, NEW name
    PROVE  /\ Entry(ref, module, name).ref = ref /\ Entry(ref, module, name).dotted = Qualified(module, name)
           /\ Builtin(name).ref = "builtin"
BY DEF Entry, Builtin

\* What Python's own classes are.
PythonNames == {Qualified("builtins", name) : name \in BuiltinExceptions}
IsBuiltinOrder(order, name) ==
    /\ Sequence(order) /\ 1 \in DOMAIN order /\ order[1].ref = Builtin(name)
    /\ \A i \in DOMAIN order : order[i].ref.ref = "builtin" /\ order[i].dotted \in PythonNames
    /\ IsRaisable(order)
    /\ name # "BaseException" => Builtin("Exception") \in Refs(order)
    /\ name = "BaseException" => Refs(order) = {Builtin("BaseException")}

LEMMA BuiltinOrderFacts ==
    ASSUME NEW name \in BuiltinExceptions, NEW order, order = BuiltinOrder(name)
    PROVE  IsBuiltinOrder(order, name)
<1> DEFINE names == CASE name = "BaseException" -> <<name>>
                   [] name = "Exception" -> <<name, "BaseException">>
                   [] name = "NotImplementedError" ->
                          <<name, "RuntimeError", "Exception", "BaseException">>
                   [] name = "KeyError" -> <<name, "LookupError", "Exception", "BaseException">>
                   [] OTHER -> <<name, "Exception", "BaseException">>
<1>1. order = [i \in DOMAIN names |-> Entry(Builtin(names[i]), "builtins", names[i])]
  BY DEF BuiltinOrder
<1>a. {"BaseException", "Exception", "LookupError", "RuntimeError"} \subseteq BuiltinExceptions
  BY BuiltinsAssumption
<1>2. \E m \in Nat \ {0} :
          /\ Len(names) = m /\ DOMAIN names = 1..m /\ names[1] = name
          /\ \A i \in 1..m : names[i] \in BuiltinExceptions
          /\ \E i \in 1..m : names[i] = "BaseException"
          /\ name # "BaseException" => \E i \in 1..m : names[i] = "Exception"
          /\ name = "BaseException" => m = 1
  <2>1. CASE name = "BaseException"
    <3>1. names = <<name>>
      BY <2>1
    <3> HIDE DEF names
    <3> QED BY <1>a, <2>1, <3>1
  <2>2. CASE name = "Exception"
    <3>1. names = <<name, "BaseException">>
      BY <2>2
    <3> HIDE DEF names
    <3> QED BY <1>a, <2>2, <3>1
  <2>3. CASE name = "NotImplementedError"
    <3>1. names = <<name, "RuntimeError", "Exception", "BaseException">>
      BY <2>3
    <3> HIDE DEF names
    <3> QED BY <1>a, <2>3, <3>1
  <2>4. CASE name = "KeyError"
    <3>1. names = <<name, "LookupError", "Exception", "BaseException">>
      BY <2>4
    <3> HIDE DEF names
    <3> QED BY <1>a, <2>4, <3>1
  <2>5. CASE name \notin {"BaseException", "Exception", "NotImplementedError", "KeyError"}
    <3>1. names = <<name, "Exception", "BaseException">>
      BY <2>5
    <3> HIDE DEF names
    <3> QED BY <1>a, <2>5, <3>1
  <2> QED BY <2>1, <2>2, <2>3, <2>4, <2>5
<1> HIDE DEF names
<1>3. PICK m \in Nat \ {0} :
          /\ Len(names) = m /\ DOMAIN names = 1..m /\ names[1] = name
          /\ \A i \in 1..m : names[i] \in BuiltinExceptions
          /\ \E i \in 1..m : names[i] = "BaseException"
          /\ name # "BaseException" => \E i \in 1..m : names[i] = "Exception"
          /\ name = "BaseException" => m = 1
  BY <1>2
<1>4. /\ order = [i \in 1..m |-> order[i]] /\ Len(order) = m /\ DOMAIN order = 1..m
      /\ \A i \in 1..m : order[i] = Entry(Builtin(names[i]), "builtins", names[i])
  BY <1>1, <1>3
<1>5. \A i \in 1..m : order[i].ref = Builtin(names[i]) /\ order[i].ref.ref = "builtin"
                      /\ order[i].dotted \in PythonNames
  BY <1>3, <1>4, EntryFacts DEF PythonNames
<1>6. Refs(order) = {Builtin(names[i]) : i \in 1..m}
  BY <1>4, <1>5 DEF Refs
<1>7. Sequence(order) /\ Len(order) = m /\ DOMAIN order = 1..m /\ 1 \in DOMAIN order
  <2>1. order = [i \in 1..m |-> order[i]] /\ \A i \in 1..m : order[i] \in ToSet(order)
    BY <1>4 DEF ToSet
  <2> QED BY <1>3, <1>4, <2>1 DEF Sequence
<1>8. IsRaisable(order) /\ (name # "BaseException" => Builtin("Exception") \in Refs(order))
  BY <1>3, <1>6 DEF IsRaisable
<1>9. name = "BaseException" => Refs(order) = {Builtin("BaseException")}
  BY <1>3, <1>6
<1>10. order[1].ref = Builtin(name)
  BY <1>3, <1>5
<1>11. \A i \in DOMAIN order : order[i].ref.ref = "builtin" /\ order[i].dotted \in PythonNames
  BY <1>5, <1>7
<1> QED BY <1>7, <1>8, <1>9, <1>10, <1>11, Zenon DEF IsBuiltinOrder

\* The class that is made of a declaration: its own entries and its declared bases', then those
\* of Python's class at the top.
LEMMA RealisedFacts ==
    ASSUME NEW specs, NEW class, IsCatalog(specs), Realise(specs, class).made,
           NEW up, up = Upward(specs, class), NEW height, height = Height(specs, class),
           NEW order, order = Realise(specs, class).is
    PROVE  /\ IsRaisable(order) /\ Sequence(order) /\ 1 \in DOMAIN order
           /\ height \in Nat
           /\ \A i \in DOMAIN order :
                  \/ i \in 1..height /\ order[i] = DeclaredEntry(specs, up[i - 1])
                  \/ order[i].ref.ref = "builtin" /\ order[i].dotted \in PythonNames
           /\ \A i \in 1..height : i \in DOMAIN order /\ order[i] = DeclaredEntry(specs, up[i - 1])
           /\ Refs(order) = {up[k] : k \in 0..(height - 1)} \cup Refs(BuiltinOrder(up[height].name))
<1> DEFINE top == up[height]
           own == [i \in 1..height |-> DeclaredEntry(specs, up[i - 1])]
           rest == BuiltinOrder(top.name)
           found == BuiltinClass(top.name)
<1>1. height \in Nat
  BY CatalogEnds, UpwardFacts
<1>2. Realise(specs, class) =
          IF Key(top) THEN Failed(Error("unexpected"))
          ELSE IF top.ref # "builtin" THEN Failed(Error("unsupported"))
          ELSE IF found.made THEN Made(own \o found.is) ELSE found
  BY DEF Realise, Upon
<1>a. IF top.name \in BuiltinExceptions THEN found = Made(rest) ELSE found.made = FALSE
  BY DEF BuiltinClass, Failed
<1> HIDE DEF own, rest, found
<1>b. found.made = TRUE /\ order = own \o found.is
  BY <1>2, <1>a DEF Made, Failed
<1>3. top.name \in BuiltinExceptions /\ order = own \o rest
  BY <1>a, <1>b DEF Made
<1>4. IsBuiltinOrder(rest, top.name)
  BY <1>3, BuiltinOrderFacts DEF rest
<1>5. Sequence(own) /\ DOMAIN own = 1..height /\ Len(own) = height
      /\ \A i \in 1..height : own[i] = DeclaredEntry(specs, up[i - 1])
  <2>1. own = [i \in 1..height |-> own[i]] /\ DOMAIN own = 1..height
        /\ \A i \in 1..height : own[i] \in ToSet(own)
    BY DEF own, ToSet
  <2> QED BY <1>1, <2>1 DEF own, Sequence
<1>6. Joins(own, rest, order)
  BY <1>3, <1>4, <1>5, Joined DEF IsBuiltinOrder
<1>7. ASSUME NEW i \in 1..height PROVE order[i] = DeclaredEntry(specs, up[i - 1]) /\ order[i].ref = up[i - 1]
                                       /\ i \in DOMAIN order
  <2>1. i \in DOMAIN own
    BY <1>5
  <2>2. order[i] = own[i] /\ i \in DOMAIN order
    BY <1>6, <2>1 DEF Joins
  <2>3. order[i] = DeclaredEntry(specs, up[i - 1])
    BY <1>5, <2>2
  <2> QED BY <2>2, <2>3, EntryFacts DEF DeclaredEntry
<1>8. ASSUME NEW i \in DOMAIN order
      PROVE  i \in 1..height \/ \E j \in DOMAIN rest : order[i] = rest[j]
  BY <1>5, <1>6 DEF Joins
<1>9. \A j \in DOMAIN rest : \E i \in DOMAIN order : order[i] = rest[j]
  BY <1>6 DEF Joins
<1>10. Refs(order) = {up[k] : k \in 0..(height - 1)} \cup Refs(rest)
  <2>1. ASSUME NEW i \in DOMAIN order PROVE order[i].ref \in {up[k] : k \in 0..(height - 1)} \cup Refs(rest)
    <3>1. CASE i \in 1..height
      <4>1. i - 1 \in 0..(height - 1)
        BY <1>1, <3>1
      <4> QED BY <1>7, <3>1, <4>1
    <3>2. CASE i \notin 1..height
      BY <1>8, <3>2 DEF Refs
    <3> QED BY <3>1, <3>2
  <2>2. ASSUME NEW k \in 0..(height - 1) PROVE up[k] \in Refs(order)
    <3>1. k + 1 \in 1..height /\ (k + 1) - 1 = k
      BY <1>1
    <3> QED BY <1>7, <3>1 DEF Refs
  <2>3. Refs(rest) \subseteq Refs(order)
    BY <1>9 DEF Refs
  <2> QED BY <2>1, <2>2, <2>3 DEF Refs
<1>11. \A i \in DOMAIN order :
           \/ i \in 1..height /\ order[i] = DeclaredEntry(specs, up[i - 1])
           \/ order[i].ref.ref = "builtin" /\ order[i].dotted \in PythonNames
  BY <1>4, <1>7, <1>8 DEF IsBuiltinOrder
<1>12. IsRaisable(order) /\ Sequence(order) /\ 1 \in DOMAIN order
  <2>1. Sequence(order) /\ IsRaisable(order)
    BY <1>4, <1>6, <1>10 DEF Joins, IsRaisable, IsBuiltinOrder
  <2>2. \E j \in DOMAIN order : TRUE
    BY <1>4, <1>9 DEF IsBuiltinOrder
  <2>3. Len(order) \in Nat /\ DOMAIN order = 1..Len(order)
    BY <2>1 DEF Sequence
  <2> QED BY <2>1, <2>2, <2>3
<1> QED BY <1>1, <1>7, <1>10, <1>11, <1>12 DEF rest

\* The classes that are declared are the host's.
LEMMA KeysOfCatalog ==
    ASSUME NEW specs, IsCatalog(specs), NEW s \in specs
    PROVE  s.key.ref \in {"host", "typed"}
<1>1. s.key = Host(s.module, s.key.name) \/ s.key = Typed(s.key.id, s.key.name)
  BY DEF IsCatalog
<1>2. Host(s.module, s.key.name).ref = "host" /\ Typed(s.key.id, s.key.name).ref = "typed"
  BY DEF Host, Typed
<1> QED BY <1>1, <1>2

\* What a class matches, of an exception of Python's own class and of a declared one.
LEMMA NoneMatch ==
    ASSUME NEW specs, IsCatalog(specs), DistinctNames(specs), NEW order, NEW class,
           \A i \in DOMAIN order : order[i].dotted \in PythonNames, class.ref = "builtin",
           NEW s \in specs
    PROVE  ~Matches(specs, s.key, order) /\ s.key \notin Bases(specs, class)
<1>1. ASSUME NEW d \in specs
      PROVE  /\ ~MatchesName(order, d.module, d.key.name)
             /\ d.key.ref = "typed" \/ ~MatchesName(order, d.key.module, d.key.name)
  <2>1. Qualified(d.module, d.key.name) \notin PythonNames
    BY DEF DistinctNames, PythonNames
  <2>2. d.key = Host(d.module, d.key.name) \/ d.key = Typed(d.key.id, d.key.name)
    BY DEF IsCatalog
  <2>3. d.key.ref = "typed" \/ d.key.module = d.module
    BY <2>2 DEF Host, Typed
  <2>4. ~MatchesName(order, d.module, d.key.name)
    BY <2>1 DEF MatchesName
  <2> QED BY <2>3, <2>4
<1>2. ~Matches(specs, s.key, order)
  <2>1. CASE s.key.ref = "typed"
    BY <1>1, <2>1 DEF Matches, ExceptionTypes
  <2>2. CASE s.key.ref # "typed"
    BY <1>1, <2>2 DEF Matches
  <2> QED BY <2>1, <2>2
<1>3. \A d \in specs : d.key.ref \in {"host", "typed"}
  BY KeysOfCatalog
<1>4. Bases(specs, class) \subseteq {class}
  <2> DEFINE known == {class} \cup {d.base : d \in specs}
  <2>1. \A d \in specs : d.key # class
    BY <1>3
  <2>2. /\ {class} \in SUBSET known /\ class \in {class}
        /\ \A d \in specs : d.key \in {class} => d.base \in {class}
    BY <2>1
  <2>3. Bases(specs, class) =
            {c \in known : \A up \in SUBSET known :
                class \in up /\ (\A d \in specs : d.key \in up => d.base \in up) => c \in up}
    BY DEF Bases
  <2> HIDE DEF known
  <2>4. ASSUME NEW c \in Bases(specs, class) PROVE c \in {class}
    BY <2>2, <2>3
  <2> QED BY <2>4
<1> QED BY <1>2, <1>3, <1>4

LEMMA DeclaredMatch ==
    ASSUME NEW specs, IsCatalog(specs), DistinctNames(specs), NEW class, Realise(specs, class).made,
           NEW s \in specs
    PROVE  Matches(specs, s.key, Realise(specs, class).is) <=> s.key \in Bases(specs, class)
<1> DEFINE up == Upward(specs, class)
           height == Height(specs, class)
           order == Realise(specs, class).is
           line == {up[k] : k \in 0..height}
<1>1. /\ height \in Nat /\ ~IsDeclared(specs, up[height])
      /\ \A k \in 0..(height - 1) : IsDeclared(specs, up[k])
  BY CatalogEnds, UpwardFacts
<1>2. /\ \A i \in DOMAIN order :
             \/ i \in 1..height /\ order[i] = DeclaredEntry(specs, up[i - 1])
             \/ order[i].dotted \in PythonNames
      /\ \A i \in 1..height : i \in DOMAIN order /\ order[i] = DeclaredEntry(specs, up[i - 1])
  BY RealisedFacts
<1>3. Bases(specs, class) = line
  BY BasesAreUpward
<1> HIDE DEF up, height, order
<1>4. ASSUME NEW d \in specs
      PROVE  MatchesName(order, d.module, d.key.name) <=> d.key \in line
  <2>1. ASSUME MatchesName(order, d.module, d.key.name) PROVE d.key \in line
    <3>1. PICK i \in DOMAIN order : order[i].dotted = Qualified(d.module, d.key.name)
      BY <2>1 DEF MatchesName
    <3>2. order[i].dotted \notin PythonNames
      BY <3>1 DEF DistinctNames, PythonNames
    <3>3. i \in 1..height /\ order[i] = DeclaredEntry(specs, up[i - 1])
      BY <1>2, <3>2
    <3>4. i - 1 \in 0..(height - 1) /\ i - 1 \in 0..height
      BY <1>1, <3>3
    <3>5. PICK e \in specs : e = SpecOf(specs, up[i - 1]) /\ e.key = up[i - 1]
      BY <1>1, <3>4, SpecOfFacts
    <3>6. order[i].dotted = Qualified(e.module, e.key.name)
      BY <3>3, <3>5, EntryFacts DEF DeclaredEntry
    <3>7. e = d
      BY <3>1, <3>6 DEF DistinctNames
    <3> QED BY <3>4, <3>5, <3>7
  <2>2. ASSUME d.key \in line PROVE MatchesName(order, d.module, d.key.name)
    <3>1. PICK k \in 0..height : d.key = up[k]
      BY <2>2
    <3>2. IsDeclared(specs, up[k])
      BY <3>1 DEF IsDeclared
    <3>3. k + 1 \in 1..height /\ (k + 1) - 1 = k
      BY <1>1, <3>2
    <3>4. SpecOf(specs, up[k]) = d
      BY <3>1, <3>2, SpecOfFacts DEF IsCatalog
    <3>5. k + 1 \in DOMAIN order /\ order[k + 1] = DeclaredEntry(specs, up[k])
      BY <1>2, <3>3
    <3>6. order[k + 1].dotted = Qualified(d.module, d.key.name)
      BY <3>1, <3>4, <3>5, EntryFacts DEF DeclaredEntry
    <3> QED BY <3>5, <3>6 DEF MatchesName
  <2> QED BY <2>1, <2>2
<1> HIDE DEF line
<1>5. Matches(specs, s.key, order) <=> s.key \in line
  <2>1. s.key = Host(s.module, s.key.name) \/ s.key = Typed(s.key.id, s.key.name)
    BY DEF IsCatalog
  <2>2. CASE s.key.ref = "typed"
    <3>1. \A d \in specs : d.key.ref = "typed" /\ d.key.id = s.key.id => d = s
      BY <2>2 DEF IsCatalog
    <3>2. s.key.id \in ExceptionTypes(specs, order) <=> MatchesName(order, s.module, s.key.name)
      BY <2>2, <3>1 DEF ExceptionTypes
    <3> QED BY <1>4, <2>2, <3>2 DEF Matches
  <2>3. CASE s.key.ref # "typed"
    <3>1. s.key.module = s.module
      BY <2>1, <2>3 DEF Host, Typed
    <3> QED BY <1>4, <2>3, <3>1 DEF Matches
  <2> QED BY <2>2, <2>3
<1> QED BY <1>3, <1>5 DEF order

-----------------------------------------------------------------------------
\* FatalSpecs: what a fatal error is realised as.
LEMMA FatalRealised ==
    ASSUME NEW specs, IsCatalog(specs), FatalSpecs \subseteq specs, NEW name \in Fatal
    PROVE  /\ Realise(specs, Host("guestpy", name)).made
           /\ Refs(Realise(specs, Host("guestpy", name)).is) = {Host("guestpy", name), Builtin("BaseException")}
<1> DEFINE class == Host("guestpy", name)
           up == Upward(specs, class)
           height == Height(specs, class)
           spec == Declared(class, "guestpy", Builtin("BaseException"))
<1>1. spec \in specs /\ spec.key = class /\ spec.base = Builtin("BaseException") /\ spec.module = "guestpy"
  BY DEF FatalSpecs, Declared
<1>2. /\ height \in Nat /\ up[0] = class /\ ~IsDeclared(specs, up[height])
      /\ \A k \in 0..(height - 1) : IsDeclared(specs, up[k]) /\ up[k + 1] = SpecOf(specs, up[k]).base
  BY CatalogEnds, UpwardFacts
<1>3. IsDeclared(specs, class) /\ SpecOf(specs, class) = spec
  <2>1. IsDeclared(specs, class)
    BY <1>1 DEF IsDeclared
  <2> QED BY <1>1, <2>1, SpecOfFacts DEF IsCatalog
<1>4. height # 0 /\ 0 \in 0..(height - 1) /\ up[1] = Builtin("BaseException")
  <2>1. height # 0
    BY <1>2, <1>3
  <2>2. 0 \in 0..(height - 1) /\ 0 + 1 = 1
    BY <1>2, <2>1
  <2>3. up[0 + 1] = SpecOf(specs, up[0]).base
    BY <1>2, <2>2
  <2> QED BY <1>1, <1>2, <1>3, <2>1, <2>2, <2>3
<1>5. ~IsDeclared(specs, Builtin("BaseException"))
  <2>1. Builtin("BaseException").ref = "builtin"
    BY DEF Builtin
  <2> QED BY <2>1, KeysOfCatalog DEF IsDeclared
<1>6. height = 1
  <2>1. height # 1 => 1 \in 0..(height - 1)
    BY <1>2, <1>4
  <2> QED BY <1>2, <1>4, <1>5, <2>1
<1>7. up[height] = Builtin("BaseException")
  BY <1>4, <1>6
<1>8. Builtin("BaseException").ref = "builtin" /\ Builtin("BaseException").name = "BaseException"
      /\ ~Key(Builtin("BaseException"))
  BY DEF Builtin, Key
<1>a. "BaseException" \in BuiltinExceptions
  BY BuiltinsAssumption
<1>b. BuiltinClass("BaseException").made = TRUE
  BY <1>a DEF BuiltinClass, Made
<1>9. Realise(specs, class).made
  BY <1>7, <1>8, <1>b DEF Realise, Upon, Made
<1>10. Refs(Realise(specs, class).is) = {up[k] : k \in 0..(height - 1)} \cup Refs(BuiltinOrder(up[height].name))
  BY <1>9, RealisedFacts
<1>11. Refs(BuiltinOrder("BaseException")) = {Builtin("BaseException")}
  BY <1>a, BuiltinOrderFacts DEF IsBuiltinOrder
<1>12. {up[k] : k \in 0..(height - 1)} = {class}
  <2>1. 0..(height - 1) = {0}
    BY <1>6
  <2> QED BY <1>2, <2>1
<1> QED BY <1>7, <1>8, <1>9, <1>10, <1>11, <1>12

\* An exception class that a class stands for.
IsClassOf(specs, classes, class, order) ==
    \/ class.ref = "builtin" /\ class.name \in BuiltinExceptions /\ order = BuiltinOrder(class.name)
    \/ Key(class) /\ Realise(specs, class).made /\ order = Realise(specs, class).is
    \/ class.ref = "guest" /\ class \in DOMAIN classes /\ order = classes[class] /\ order # <<>>

\* What fails is not of a class of the host's.
IsReason(link) ==
    \/ link.error \in {"unexpected", "unsupported", "conversion"}
    \/ link \in {MissingInGuest, MissingInBuiltins}

LEMMA BuiltinClassFacts ==
    ASSUME NEW name, NEW found, found = BuiltinClass(name)
    PROVE  \/ found.made = TRUE /\ name \in BuiltinExceptions /\ found.is = BuiltinOrder(name)
           \/ found.made = FALSE /\ IsReason(found.is)
<1>1. Error("conversion").error = "conversion"
  BY DEF Error
<1>2. IsReason(Error("conversion")) /\ IsReason(MissingInBuiltins)
  BY <1>1 DEF IsReason
<1> QED BY <1>2 DEF BuiltinClass, Made, Failed

LEMMA ClassForFacts ==
    ASSUME NEW inGuest, NEW specs, NEW classes, NEW class,
           IsReference(class), NEW made, made = ClassFor(inGuest, specs, classes, class)
    PROVE  \/ made.made = TRUE /\ IsClassOf(specs, classes, class, made.is)
           \/ made.made = FALSE /\ IsReason(made.is)
<1>1. CASE class.ref = "builtin"
  <2>1. made = BuiltinClass(class.name)
    BY <1>1 DEF ClassFor
  <2> QED BY <1>1, <2>1, BuiltinClassFacts DEF IsClassOf
<1>2. CASE class.ref # "builtin" /\ Key(class)
  <2>1. made = Realise(specs, class)
    BY <1>2 DEF ClassFor
  <2>2. Error("unexpected").error = "unexpected" /\ Error("unsupported").error = "unsupported"
    BY DEF Error
  <2>3. made.made = TRUE \/ (made.made = FALSE /\ IsReason(made.is))
    <3> DEFINE top == Upward(specs, class)[Height(specs, class)]
               found == BuiltinClass(top.name)
               entries == [i \in 1..Height(specs, class) |->
                               DeclaredEntry(specs, Upward(specs, class)[i - 1])] \o found.is
    <3>1. made = IF Key(top) THEN Failed(Error("unexpected"))
                 ELSE IF top.ref # "builtin" THEN Failed(Error("unsupported"))
                 ELSE IF found.made THEN Made(entries) ELSE found
      BY <2>1, Zenon DEF Realise, Upon
    <3>2. found.made = TRUE \/ (found.made = FALSE /\ IsReason(found.is))
      BY BuiltinClassFacts
    <3> HIDE DEF top, entries, found
    <3>3. \/ made = Failed(Error("unexpected")) \/ made = Failed(Error("unsupported"))
          \/ made = Made(entries) \/ (made = found /\ found.made = FALSE)
      BY <3>1, <3>2
    <3>4. IsReason(Error("unexpected")) /\ IsReason(Error("unsupported"))
      BY <2>2 DEF IsReason
    <3> QED BY <3>2, <3>3, <3>4 DEF Made, Failed
  <2> QED BY <1>2, <2>1, <2>3 DEF IsClassOf
<1>3. CASE class.ref # "builtin" /\ ~Key(class)
  <2>1. class.ref = "guest"
    BY <1>3 DEF Key, IsReference
  <2>2. CASE ~inGuest
    BY <1>3, <2>2 DEF ClassFor, Failed, Error, IsReason
  <2>3. CASE inGuest /\ class \notin DOMAIN classes
    BY <1>3, <2>3 DEF ClassFor, Failed, IsReason
  <2>4. CASE inGuest /\ class \in DOMAIN classes /\ classes[class] = <<>>
    BY <1>3, <2>4 DEF ClassFor, Failed, Error, IsReason
  <2>5. CASE inGuest /\ class \in DOMAIN classes /\ classes[class] # <<>>
    BY <1>3, <2>1, <2>5 DEF ClassFor, Made, IsClassOf
  <2> QED BY <2>2, <2>3, <2>4, <2>5
<1> QED BY <1>1, <1>2, <1>3

LEMMA ClassIsRaisable ==
    ASSUME NEW specs, IsCatalog(specs), NEW class, NEW order, IsClassOf(specs, GuestClasses, class, order)
    PROVE  IsRaisable(order)
<1>1. CASE class.name \in BuiltinExceptions /\ order = BuiltinOrder(class.name)
  BY <1>1, BuiltinOrderFacts DEF IsBuiltinOrder
<1>2. CASE Realise(specs, class).made /\ order = Realise(specs, class).is
  BY <1>2, RealisedFacts
<1>3. CASE class \in DOMAIN GuestClasses /\ order = GuestClasses[class] /\ order # <<>>
  BY <1>3, ExceptionsAssumption
<1> QED BY <1>1, <1>2, <1>3 DEF IsClassOf

\* Python's exceptions which `except Exception` stops.
Ordinary == BuiltinExceptions \ {"BaseException"}

LEMMA OrdinaryFacts ==
    /\ {"TypeError", "ImportError", "AttributeError", "RuntimeError", "NotImplementedError", "OSError",
        "StopIteration", "StopAsyncIteration", "SystemError", "KeyError"} \subseteq Ordinary
    /\ \A name \in Ordinary : name \in BuiltinExceptions /\ name # "BaseException"
BY BuiltinsAssumption DEF Ordinary

LEMMA StandingFacts ==
    ASSUME NEW link, link.error # "raise"
    PROVE  /\ link.error \in Fatal => Standing(link) = Raise(Host("guestpy", link.error), <<"text">>)
           /\ link.error \notin Fatal \cup {"guest"} =>
                  \E name \in Ordinary : \E args : Standing(link) = Raise(Builtin(name), args)
<1>1. /\ {"conversion", "import", "bundle", "ambiguous", "name_in_use", "attribute", "borrow", "host",
          "foreign_guest", "unsupported", "io", "stop", "async_stop"} \cap Fatal = {}
  BY DEF Fatal
<1>2. CASE link.error \in Fatal
  BY <1>1, <1>2 DEF Standing
<1>3. CASE link.error \notin Fatal
  <2>1. \/ \E name \in {"TypeError", "ImportError", "AttributeError", "RuntimeError", "NotImplementedError",
                        "OSError", "StopIteration", "StopAsyncIteration", "SystemError"} :
               \E args : Standing(link) = Raise(Builtin(name), args)
    BY <1>3 DEF Standing
  <2> QED BY <1>3, <2>1, OrdinaryFacts
<1> QED BY <1>2, <1>3

LEMMA RaiseFacts ==
    ASSUME NEW class, NEW args
    PROVE  Raise(class, args).error = "raise" /\ Raise(class, args).class = class /\ Raise(class, args).args = args
BY DEF Raise

\* What is made of a link, and why not.
LEMMA RaiseValueFacts ==
    ASSUME NEW inGuest, NEW specs, IsCatalog(specs), NEW link,
           link.error = "raise" => IsReference(link.class),
           link.error = "guest" => IsException(link.exception),
           NEW made, made = RaiseValue(inGuest, specs, GuestClasses, link)
    PROVE  /\ \/ made.made = TRUE /\ IsException(made.is)
              \/ made.made = FALSE /\ IsReason(made.is)
           /\ made.made /\ link.error # "guest" =>
                  \E order : /\ made.is = <<order>>
                             /\ IsClassOf(specs, GuestClasses, Standing(link).class, order)
<1> DEFINE raise == Standing(link)
           found == ClassFor(inGuest, specs, GuestClasses, raise.class)
           failed == ArgumentError(inGuest, raise.args)
<1>1. made = IF link.error = "guest" THEN Made(link.exception)
             ELSE IF ~found.made THEN found
             ELSE IF failed # <<>> THEN Failed(failed[1]) ELSE Made(<<found.is>>)
  BY DEF RaiseValue
<1>2. CASE link.error = "guest"
  BY <1>1, <1>2 DEF Made
<1>3. CASE link.error # "guest"
  <2>1. IsReference(raise.class)
    <3>1. CASE link.error = "raise"
      <4>1. raise = link
        BY <3>1 DEF Standing, Fatal
      <4> HIDE DEF raise
      <4> QED BY <3>1, <4>1
    <3>2. CASE link.error # "raise" /\ link.error \in Fatal
      <4>1. raise = Raise(Host("guestpy", link.error), <<"text">>)
        BY <3>2, StandingFacts, Zenon
      <4> HIDE DEF raise
      <4>2. raise.class = Host("guestpy", link.error)
        BY <4>1, RaiseFacts
      <4>3. raise.class.ref = "host"
        BY <4>2 DEF Host
      <4> QED BY <4>3 DEF IsReference
    <3>3. CASE link.error # "raise" /\ link.error \notin Fatal
      <4>1. PICK name \in Ordinary : \E args : raise = Raise(Builtin(name), args)
        BY <1>3, <3>3, StandingFacts
      <4> HIDE DEF raise
      <4>2. raise.class = Builtin(name)
        BY <4>1, RaiseFacts
      <4>3. raise.class.ref = "builtin"
        BY <4>2, EntryFacts
      <4> QED BY <4>3 DEF IsReference
    <3> QED BY <3>1, <3>2, <3>3
  <2>2. \/ found.made = TRUE /\ IsClassOf(specs, GuestClasses, raise.class, found.is)
        \/ found.made = FALSE /\ IsReason(found.is)
    <3> HIDE DEF raise
    <3> QED BY <2>1, ClassForFacts
  <2>3. failed \in {<<>>, <<Error("unexpected")>>, <<Error("conversion")>>}
    <3> DEFINE bad == {i \in DOMAIN raise.args : raise.args[i] = "failing" \/ (~inGuest /\ raise.args[i] = "value")}
    <3>1. failed = IF bad = {} THEN <<>>
                   ELSE IF ~inGuest THEN <<Error("unexpected")>> ELSE <<Error("conversion")>>
      BY Zenon DEF ArgumentError
    <3> HIDE DEF failed, bad
    <3> QED BY <3>1
  <2>4. failed # <<>> => IsReason(failed[1])
    <3>1. \A e \in {"unexpected", "conversion"} : IsReason(Error(e))
      BY DEF IsReason, Error
    <3>2. failed # <<>> => failed[1] = Error("unexpected") \/ failed[1] = Error("conversion")
      <4> HIDE DEF failed
      <4> QED BY <2>3
    <3> QED BY <3>1, <3>2
  <2> HIDE DEF found, failed, raise
  <2>5. CASE found.made = FALSE
    BY <1>1, <1>3, <2>2, <2>5
  <2>6. CASE found.made = TRUE /\ failed # <<>>
    BY <1>1, <1>3, <2>4, <2>6 DEF Failed
  <2>7. CASE found.made = TRUE /\ failed = <<>>
    <3>1. made.made = TRUE /\ made.is = <<found.is>>
      BY <1>1, <1>3, <2>7 DEF Made
    <3>2. IsClassOf(specs, GuestClasses, raise.class, found.is) /\ IsRaisable(found.is)
      BY <2>2, <2>7, ClassIsRaisable
    <3>3. IsException(<<found.is>>)
      <4>1. <<found.is>> \in Seq(ToSet(<<found.is>>)) /\ <<found.is>> # <<>>
        <5>1. found.is \in ToSet(<<found.is>>)
          BY DEF ToSet
        <5> QED BY <5>1
      <4> QED BY <3>2, <4>1 DEF IsException, IsSequence
    <3> QED BY <3>1, <3>2, <3>3 DEF raise
  <2> QED BY <2>2, <2>5, <2>6, <2>7
<1> QED BY <1>2, <1>3

\* An exception of one of Python's own classes,
LEMMA MadeOfBuiltin ==
    ASSUME NEW name \in BuiltinExceptions
    PROVE  IsException(<<BuiltinOrder(name)>>) /\ <<BuiltinOrder(name)>>[1] = BuiltinOrder(name)
<1>1. IsRaisable(BuiltinOrder(name))
  BY BuiltinOrderFacts DEF IsBuiltinOrder
<1>2. <<BuiltinOrder(name)>> \in Seq(ToSet(<<BuiltinOrder(name)>>))
  <2>1. BuiltinOrder(name) \in ToSet(<<BuiltinOrder(name)>>)
    BY DEF ToSet
  <2> QED BY <2>1
<1> QED BY <1>1, <1>2 DEF IsException, IsSequence

\* as those of the guest's are that are reasons.
LEMMA MissingIsThrown ==
    ASSUME NEW link \in {MissingInGuest, MissingInBuiltins}
    PROVE  \E name \in Ordinary : link.error = "guest" /\ link.exception = <<BuiltinOrder(name)>>
<1>1. link = Thrown(<<BuiltinOrder("ImportError")>>) \/ link = Thrown(<<BuiltinOrder("KeyError")>>)
  BY DEF MissingInGuest, MissingInBuiltins
<1> QED BY <1>1, OrdinaryFacts DEF Thrown

\* The reasons themselves are links.
LEMMA ReasonIsLink ==
    ASSUME NEW link, IsReason(link)
    PROVE  /\ link.error # "raise"
           /\ link.error = "guest" => IsException(link.exception)
           /\ link.error # "guest" => link.error \notin Fatal
<1>1. CASE link.error \in {"unexpected", "unsupported", "conversion"}
  BY <1>1 DEF Fatal
<1>2. CASE link \in {MissingInGuest, MissingInBuiltins}
  <2>1. PICK name \in Ordinary : link.error = "guest" /\ link.exception = <<BuiltinOrder(name)>>
    BY <1>2, MissingIsThrown
  <2> QED BY <2>1, OrdinaryFacts, MadeOfBuiltin
<1> QED BY <1>1, <1>2 DEF IsReason

-----------------------------------------------------------------------------
\* What the guest gets is an exception, whose first class stands for the first link, or for the
\* reason why that cannot be raised.
IsFirstOf(specs, link, order) ==
    \/ /\ link.error # "guest" /\ IsClassOf(specs, GuestClasses, Standing(link).class, order)
    \/ link.error = "guest" /\ order = link.exception[1]
    \/ link.error \in {"raise", "guest"} /\ \E name \in Ordinary : order = BuiltinOrder(name)
    \/ link.error \notin Fatal \cup {"guest"} /\ \E name \in Ordinary : order = BuiltinOrder(name)

\* What stands for a link: its exception, or that of the reason, or SystemError.
StandIn(inGuest, specs, link) ==
    LET end == RaiseValue(inGuest, specs, GuestClasses, link)
        reason == RaiseValue(inGuest, specs, GuestClasses, end.is)
    IN IF end.made THEN end.is
       ELSE IF reason.made THEN reason.is ELSE <<BuiltinOrder("SystemError")>>

LEMMA StandInFacts ==
    ASSUME NEW inGuest, NEW specs, IsCatalog(specs), NEW link, FatalSpecs \subseteq specs,
           link.error = "raise" => IsReference(link.class),
           link.error = "guest" => IsException(link.exception)
    PROVE  IsException(StandIn(inGuest, specs, link)) /\ IsFirstOf(specs, link, StandIn(inGuest, specs, link)[1])
<1> DEFINE end == RaiseValue(inGuest, specs, GuestClasses, link)
           reason == RaiseValue(inGuest, specs, GuestClasses, end.is)
           got == StandIn(inGuest, specs, link)
<1>1. got = IF end.made THEN end.is ELSE IF reason.made THEN reason.is ELSE <<BuiltinOrder("SystemError")>>
  BY DEF StandIn
<1>2. /\ \/ end.made = TRUE /\ IsException(end.is)
         \/ end.made = FALSE /\ IsReason(end.is)
      /\ end.made /\ link.error # "guest" =>
             \E order : end.is = <<order>> /\ IsClassOf(specs, GuestClasses, Standing(link).class, order)
  BY RaiseValueFacts
<1>3. link.error = "guest" => end.made = TRUE /\ end.is = link.exception
  BY DEF RaiseValue, Made
<1>4. CASE end.made = TRUE
  <2>1. got = end.is
    BY <1>1, <1>4
  <2>2. CASE link.error = "guest"
    BY <1>2, <1>3, <1>4, <2>1, <2>2 DEF IsFirstOf
  <2>3. CASE link.error # "guest"
    <3>1. PICK order : end.is = <<order>> /\ IsClassOf(specs, GuestClasses, Standing(link).class, order)
      BY <1>2, <1>4, <2>3
    <3>2. got[1] = order
      BY <2>1, <3>1
    <3> QED BY <1>2, <1>4, <2>1, <2>3, <3>1, <3>2 DEF IsFirstOf
  <2> QED BY <2>2, <2>3
<1>5. CASE end.made = FALSE
  <2>1. IsReason(end.is) /\ link.error # "guest"
    BY <1>2, <1>3, <1>5
  <2>2. /\ end.is.error # "raise" /\ (end.is.error = "guest" => IsException(end.is.exception))
        /\ end.is.error # "guest" => end.is.error \notin Fatal
    BY <2>1, ReasonIsLink
  <2>3. /\ \/ reason.made = TRUE /\ IsException(reason.is)
           \/ reason.made = FALSE /\ IsReason(reason.is)
        /\ reason.made /\ end.is.error # "guest" =>
               \E order : reason.is = <<order>> /\ IsClassOf(specs, GuestClasses, Standing(end.is).class, order)
    BY <2>2, RaiseValueFacts
  <2>4. \E name \in Ordinary : got = <<BuiltinOrder(name)>>
    <3>1. CASE reason.made = FALSE
      BY <1>1, <1>5, <3>1, OrdinaryFacts
    <3>2. CASE reason.made = TRUE /\ end.is.error = "guest"
      <4>1. end.is \in {MissingInGuest, MissingInBuiltins}
        BY <2>1, <3>2 DEF IsReason
      <4>2. \E name \in Ordinary : reason.is = <<BuiltinOrder(name)>>
        <5>1. PICK name \in Ordinary : end.is.error = "guest" /\ end.is.exception = <<BuiltinOrder(name)>>
          BY <4>1, MissingIsThrown
        <5>2. reason = Made(end.is.exception)
          BY <5>1 DEF RaiseValue
        <5> QED BY <5>1, <5>2 DEF Made
      <4> QED BY <1>1, <1>5, <3>2, <4>2
    <3>3. CASE reason.made = TRUE /\ end.is.error # "guest"
      <4>1. PICK order : reason.is = <<order>> /\ IsClassOf(specs, GuestClasses, Standing(end.is).class, order)
        BY <2>3, <3>3
      <4>2. PICK name \in Ordinary : \E args : Standing(end.is) = Raise(Builtin(name), args)
        BY <2>2, <3>3, StandingFacts
      <4>3. Standing(end.is).class = Builtin(name) /\ Builtin(name).ref = "builtin" /\ Builtin(name).name = name
        BY <4>2, RaiseFacts DEF Builtin
      <4>4. order = BuiltinOrder(name)
        BY <4>1, <4>3 DEF IsClassOf, Key
      <4> QED BY <1>1, <1>5, <3>3, <4>1, <4>2, <4>4
    <3> QED BY <2>3, <3>1, <3>2, <3>3
  <2>5. PICK name \in Ordinary : got = <<BuiltinOrder(name)>>
    BY <2>4
  <2>6. IsException(got) /\ got[1] = BuiltinOrder(name)
    BY <2>5, OrdinaryFacts, MadeOfBuiltin
  <2>7. link.error \notin Fatal
    <3>1. SUFFICES ASSUME link.error \in Fatal PROVE FALSE
      OBVIOUS
    <3>2. link.error # "raise"
      BY <3>1 DEF Fatal
    <3>3. Standing(link) = Raise(Host("guestpy", link.error), <<"text">>)
      BY <3>1, <3>2, StandingFacts, Zenon
    <3>4. Standing(link).class = Host("guestpy", link.error) /\ Standing(link).args = <<"text">>
      BY <3>3, RaiseFacts
    <3>5. Realise(specs, Standing(link).class).made
      BY <3>1, <3>4, FatalRealised
    <3>6. Standing(link).class.ref = "host"
      BY <3>4 DEF Host
    <3>7. ClassFor(inGuest, specs, GuestClasses, Standing(link).class) = Realise(specs, Standing(link).class)
      BY <3>6 DEF ClassFor, Key
    <3>8. ArgumentError(inGuest, <<"text">>) = <<>>
      BY DEF ArgumentError
    <3>9. end = Made(<<Realise(specs, Standing(link).class).is>>)
      <4>1. end = IF link.error = "guest" THEN Made(link.exception)
                  ELSE IF ~Realise(specs, Standing(link).class).made THEN Realise(specs, Standing(link).class)
                  ELSE IF ArgumentError(inGuest, <<"text">>) # <<>> THEN Failed(ArgumentError(inGuest, <<"text">>)[1])
                  ELSE Made(<<Realise(specs, Standing(link).class).is>>)
        BY <3>4, <3>7 DEF RaiseValue
      <4> QED BY <2>1, <3>5, <3>8, <4>1
    <3> QED BY <1>5, <3>9 DEF Made
  <2> QED BY <2>1, <2>5, <2>6, <2>7 DEF IsFirstOf
<1> QED BY <1>2, <1>4, <1>5

\* An error of the host's is an exception in the guest, whose first class is that of the first
\* link or of the reason why there is none.
LEMMA ConvertFacts ==
    ASSUME NEW inGuest, NEW specs, IsCatalog(specs), FatalSpecs \subseteq specs,
           NEW error, IsError(error),
           NEW exception, exception = Convert(inGuest, specs, GuestClasses, error)
    PROVE  IsException(exception) /\ IsFirstOf(specs, error[1], exception[1])
<1> DEFINE Try(link) == RaiseValue(inGuest, specs, GuestClasses, link)
           broken == {i \in DOMAIN error : ~Try(error[i]).made}
           last == IF broken = {} THEN Len(error) ELSE Min(broken)
           outer == [i \in 1..(last - 1) |-> Try(error[i]).is[1]]
           inner == StandIn(inGuest, specs, error[last])
<1>1. Len(error) \in Nat /\ Len(error) # 0 /\ DOMAIN error = 1..Len(error)
  <2>1. error \in Seq(ToSet(error)) /\ error # <<>>
    BY DEF IsError, IsSequence
  <2> HIDE DEF broken, last, outer, inner
  <2> QED BY <2>1
<1>2. exception = outer \o inner
  BY Zenon DEF Convert, StandIn
<1>3. \A i \in DOMAIN error :
          /\ error[i].error = "raise" => IsReference(error[i].class)
          /\ error[i].error = "guest" => IsException(error[i].exception)
          /\ i # Len(error) => error[i].error = "raise"
  BY DEF IsError
<1>4. last \in 1..Len(error) /\ \A i \in 1..(last - 1) : i \in DOMAIN error /\ i \notin broken
  <2>1. CASE broken = {}
    <3>1. last = Len(error)
      BY <2>1
    <3> HIDE DEF last, broken
    <3> QED BY <1>1, <2>1, <3>1
  <2>2. CASE broken # {}
    <3>1. broken \subseteq 1..Len(error) /\ broken \subseteq Nat
      BY <1>1
    <3> HIDE DEF broken
    <3>2. last \in broken /\ \A i \in broken : last <= i
      BY <2>2, <3>1, MinFacts
    <3>3. last \in 1..Len(error) /\ last \in Nat
      BY <3>1, <3>2
    <3>4. ASSUME NEW i \in 1..(last - 1) PROVE i \in 1..Len(error) /\ i \notin broken
      <4>1. i \in 1..Len(error) /\ ~(last <= i)
        BY <1>1, <3>3
      <4> QED BY <3>2, <4>1
    <3> HIDE DEF last
    <3> QED BY <1>1, <3>3, <3>4
  <2> QED BY <2>1, <2>2
<1> HIDE DEF last
<1>5. ASSUME NEW i \in 1..(last - 1)
      PROVE  IsRaisable(Try(error[i]).is[1]) /\ IsFirstOf(specs, error[i], Try(error[i]).is[1])
  <2>1. i \in DOMAIN error /\ Try(error[i]).made /\ i # Len(error)
    <3>1. i \in DOMAIN error /\ i \notin broken
      BY <1>4
    <3>2. i # Len(error)
      <4> DEFINE n == Len(error)
      <4>1. n \in Nat /\ last \in 1..n
        BY <1>1, <1>4
      <4> HIDE DEF n
      <4>2. i < last /\ last <= n /\ i \in Nat
        BY <4>1
      <4> QED BY <4>1, <4>2 DEF n
    <3> QED BY <3>1, <3>2
  <2>2. error[i].error = "raise" /\ IsReference(error[i].class)
    BY <1>3, <2>1
  <2>3. \E order : /\ Try(error[i]).is = <<order>>
                   /\ IsClassOf(specs, GuestClasses, Standing(error[i]).class, order)
    BY <2>1, <2>2, RaiseValueFacts
  <2>4. PICK order : /\ Try(error[i]).is = <<order>>
                     /\ IsClassOf(specs, GuestClasses, Standing(error[i]).class, order)
    BY <2>3
  <2>5. Try(error[i]).is[1] = order /\ IsRaisable(order)
    BY <2>4, ClassIsRaisable
  <2> HIDE DEF Try
  <2> QED BY <2>2, <2>4, <2>5 DEF IsFirstOf
<1>6. IsException(inner) /\ IsFirstOf(specs, error[last], inner[1])
  <2>1. /\ error[last].error = "raise" => IsReference(error[last].class)
        /\ error[last].error = "guest" => IsException(error[last].exception)
    BY <1>1, <1>3, <1>4
  <2> QED BY <2>1, StandInFacts
<1> HIDE DEF inner, Try, broken
<1>7. Sequence(inner) /\ inner # <<>> /\ \A i \in DOMAIN inner : IsRaisable(inner[i])
  BY <1>6 DEF IsException, IsSequence, Sequence
<1>8. Len(inner) \in Nat /\ DOMAIN inner = 1..Len(inner) /\ Len(inner) # 0
  BY <1>7 DEF Sequence
<1>9. last - 1 \in Nat
  BY <1>1, <1>4
<1>10. Sequence(outer) /\ DOMAIN outer = 1..(last - 1) /\ Len(outer) = last - 1
       /\ \A i \in 1..(last - 1) : outer[i] = Try(error[i]).is[1]
  <2>1. /\ outer = [i \in 1..(last - 1) |-> outer[i]] /\ \A i \in 1..(last - 1) : outer[i] \in ToSet(outer)
        /\ DOMAIN outer = 1..(last - 1) /\ \A i \in 1..(last - 1) : outer[i] = Try(error[i]).is[1]
    BY DEF ToSet
  <2> HIDE DEF outer
  <2> QED BY <1>9, <2>1 DEF Sequence
<1> HIDE DEF outer
<1>11. Joins(outer, inner, exception)
  BY <1>2, <1>7, <1>10, Joined
<1>12. Sequence(exception) /\ \A i \in DOMAIN exception : IsRaisable(exception[i])
  BY <1>5, <1>7, <1>10, <1>11 DEF Joins
<1>13. exception # <<>>
  <2>1. \E i \in DOMAIN exception : TRUE
    <3>1. 1 \in DOMAIN inner
      BY <1>8
    <3> QED BY <1>11, <3>1 DEF Joins
  <2> QED BY <2>1
<1>14. IsException(exception)
  BY <1>12, <1>13 DEF IsException, IsSequence, Sequence
<1>15. IsFirstOf(specs, error[1], exception[1])
  <2>1. CASE last = 1
    <3>1. exception[1] = inner[1]
      BY <1>8, <1>10, <1>11, <2>1 DEF Joins
    <3> QED BY <1>6, <2>1, <3>1
  <2>2. CASE last # 1
    <3>1. 1 \in 1..(last - 1)
      BY <1>1, <1>4, <2>2
    <3>2. exception[1] = Try(error[1]).is[1]
      BY <1>10, <1>11, <3>1 DEF Joins
    <3> QED BY <1>5, <3>1, <3>2
  <2> QED BY <2>1, <2>2
<1> QED BY <1>14, <1>15

\* What catches an exception is what the declarations of its class say,
LEMMA ClassMatches ==
    ASSUME NEW specs, IsCatalog(specs), DistinctNames(specs), NEW link,
           link.error = "raise", IsReference(link.class), link.class.ref # "guest",
           NEW order, IsFirstOf(specs, link, order), order[1].ref = link.class,
           NEW s \in specs
    PROVE  Matches(specs, s.key, order) <=> s.key \in Bases(specs, link.class)
<1>1. Standing(link) = link
  BY DEF Standing, Fatal
<1>2. \/ IsClassOf(specs, GuestClasses, link.class, order)
      \/ \E name \in BuiltinExceptions : order = BuiltinOrder(name)
  BY <1>1, OrdinaryFacts DEF IsFirstOf
<1>3. ASSUME NEW name \in BuiltinExceptions, order = BuiltinOrder(name)
      PROVE  Matches(specs, s.key, order) <=> s.key \in Bases(specs, link.class)
  <2>1. IsBuiltinOrder(order, name)
    BY <1>3, BuiltinOrderFacts
  <2>2. link.class.ref = "builtin" /\ \A i \in DOMAIN order : order[i].dotted \in PythonNames
    BY <2>1, EntryFacts DEF IsBuiltinOrder
  <2> QED BY <2>2, NoneMatch
<1>4. CASE Realise(specs, link.class).made /\ order = Realise(specs, link.class).is
  BY <1>4, DeclaredMatch
<1> QED BY <1>2, <1>3, <1>4 DEF IsClassOf

\* and `except Exception` does unless the error is fatal.
LEMMA FatalEscapes ==
    ASSUME NEW specs, IsCatalog(specs), FatalSpecs \subseteq specs, NEW link,
           link.error \notin {"raise", "guest"}, NEW order, IsFirstOf(specs, link, order)
    PROVE  Builtin("Exception") \notin Refs(order) <=> link.error \in Fatal
<1>1. ASSUME NEW name \in Ordinary, order = BuiltinOrder(name)
      PROVE  Builtin("Exception") \in Refs(order)
  BY <1>1, OrdinaryFacts, BuiltinOrderFacts DEF IsBuiltinOrder
<1>2. CASE link.error \in Fatal
  <2>1. Standing(link) = Raise(Host("guestpy", link.error), <<"text">>)
    BY <1>2, StandingFacts, Zenon
  <2>2. Standing(link).class = Host("guestpy", link.error) /\ Host("guestpy", link.error).ref = "host"
    BY <2>1, RaiseFacts DEF Host
  <2>3. IsClassOf(specs, GuestClasses, Host("guestpy", link.error), order)
    BY <1>2, <2>2 DEF IsFirstOf
  <2>4. order = Realise(specs, Host("guestpy", link.error)).is
    BY <2>2, <2>3 DEF IsClassOf
  <2>5. Refs(order) = {Host("guestpy", link.error), Builtin("BaseException")}
    BY <1>2, <2>4, FatalRealised
  <2>6. Builtin("Exception") # Host("guestpy", link.error) /\ Builtin("Exception") # Builtin("BaseException")
    <3>1. /\ Builtin("Exception").ref = "builtin" /\ Builtin("Exception").name = "Exception"
          /\ Builtin("BaseException").name = "BaseException"
      BY DEF Builtin
    <3> QED BY <2>2, <3>1
  <2> QED BY <1>2, <2>5, <2>6
<1>3. CASE link.error \notin Fatal
  <2>1. PICK name \in Ordinary : \E args : Standing(link) = Raise(Builtin(name), args)
    BY <1>3, StandingFacts
  <2>2. Standing(link).class = Builtin(name) /\ Builtin(name).ref = "builtin" /\ Builtin(name).name = name
    BY <2>1, RaiseFacts DEF Builtin
  <2>3. \E n \in Ordinary : order = BuiltinOrder(n)
    <3>1. CASE IsClassOf(specs, GuestClasses, Standing(link).class, order)
      <4>1. order = BuiltinOrder(name)
        BY <2>2, <3>1 DEF IsClassOf, Key
      <4> QED BY <2>1, <4>1
    <3> QED BY <3>1 DEF IsFirstOf
  <2> QED BY <1>1, <1>3, <2>3
<1> QED BY <1>2, <1>3

\* For any exceptions that are declared, whatever guests define and whatever the error: an error
\* of the host's that reaches a guest is an exception there, which is caught as the declarations
\* of its class say, and by `except Exception` unless the guest must end (guest/errors.rs,
\* convert; catalog.rs, exception_types; errors.rs, is_fatal).
THEOREM ErrorsAreRaised == InterfacesSpec => []RaisesAsDeclared
<1>1. InterfacesInit => RaisesAsDeclared
  <2>1. SUFFICES ASSUME InterfacesInit PROVE RaisesAsDeclared
    OBVIOUS
  <2>2. case.kind = "none"
    BY <2>1 DEF InterfacesInit
  <2> QED BY <2>2 DEF RaisesAsDeclared, AlwaysRaises, MatchesAsDeclared, OnlyFatalEscapes
<1>2. RaisesAsDeclared /\ [InterfacesNext]_case => RaisesAsDeclared'
  <2>1. SUFFICES ASSUME RaisesAsDeclared, [InterfacesNext]_case PROVE RaisesAsDeclared'
    OBVIOUS
  <2>2. CASE UNCHANGED case
    BY <2>1, <2>2 DEF RaisesAsDeclared, AlwaysRaises, MatchesAsDeclared, OnlyFatalEscapes
  <2>3. CASE RaiseError
    <3>1. PICK declared \in Registries, error \in Errors, inGuest \in BOOLEAN :
              case' = [kind |-> "raise", specs |-> FatalSpecs \cup declared, error |-> error,
                       exception |-> Convert(inGuest, FatalSpecs \cup declared, GuestClasses, error)]
      BY <2>3 DEF RaiseError, Chosen
    <3> DEFINE specs == FatalSpecs \cup declared
               exception == Convert(inGuest, specs, GuestClasses, error)
    <3>2. /\ case'.kind = "raise" /\ case'.specs = specs /\ case'.error = error
          /\ case'.exception = exception
      BY <3>1
    <3>3. IsCatalog(specs) /\ FatalSpecs \subseteq specs /\ IsError(error)
      BY ExceptionsAssumption
    <3>4. IsException(exception) /\ IsFirstOf(specs, error[1], exception[1])
      BY <3>3, ConvertFacts
    <3>5. error[1].error = "raise" => IsReference(error[1].class)
      <4>1. error \in Seq(ToSet(error)) /\ error # <<>>
        BY <3>3 DEF IsError, IsSequence
      <4>2. 1 \in DOMAIN error
        BY <4>1
      <4> QED BY <3>3, <4>2 DEF IsError
    <3> HIDE DEF specs, exception
    <3>6. AlwaysRaises'
      BY <3>2, <3>4 DEF AlwaysRaises
    <3>7. MatchesAsDeclared'
      <4>1. ASSUME error[1].error = "raise", DistinctNames(specs), exception[1][1].ref = error[1].class,
                   error[1].class.ref # "guest", NEW s \in specs
            PROVE  Matches(specs, s.key, exception[1]) <=> s.key \in Bases(specs, error[1].class)
        BY <3>3, <3>4, <3>5, <4>1, ClassMatches
      <4> QED BY <3>2, <4>1 DEF MatchesAsDeclared
    <3>8. OnlyFatalEscapes'
      <4>1. error[1].error \notin {"raise", "guest"} =>
                (Builtin("Exception") \notin Refs(exception[1]) <=> error[1].error \in Fatal)
        BY <3>3, <3>4, FatalEscapes
      <4> QED BY <3>2, <4>1 DEF OnlyFatalEscapes
    <3> QED BY <3>6, <3>7, <3>8 DEF RaisesAsDeclared
  <2>4. CASE InterfacesNext /\ ~RaiseError
    <3>1. case'.kind # "raise"
      BY <2>4 DEF InterfacesNext, Call, Expand, ExpandItem, ReadBundle, DeclareMembers, Reflect, CallGuest,
                  UseFacade, BuildGuest, Chosen
    <3> QED BY <3>1 DEF RaisesAsDeclared, AlwaysRaises, MatchesAsDeclared, OnlyFatalEscapes
  <2> QED BY <2>1, <2>2, <2>3, <2>4
<1> QED BY <1>1, <1>2, PTL DEF InterfacesSpec
=============================================================================
