---------------------------- MODULE ImportsProofs ----------------------------
(***************************************************************************)
(* Theorems about Imports, for any names, bundles and depth of nesting.    *)
(*                                                                         *)
(* A body that fails takes its module out of the cache while the imports   *)
(* around it go on.  They are safe because none of them has come past that *)
(* module: its body began when the module was not cached, and what they    *)
(* have come past was (Apart).                                             *)
(***************************************************************************)
EXTENDS Imports, SequenceTheorems, TLAPS

\* No import goes further than its name.
Within ==
    \A i \in 1..Len(imports) :
        /\ imports[i].at <= Len(PrefixesOf[imports[i].name]) + 1
        /\ imports[i].runs => imports[i].at <= Len(PrefixesOf[imports[i].name])

\* A module whose body runs is cached, and not complete.
RunsCached ==
    \A i \in 1..Len(imports) :
        imports[i].runs => realised[At(imports[i])] # None /\ At(imports[i]) \notin whole

\* What an import has come past is bound.
PastBound ==
    \A i \in 1..Len(imports) : \A k \in 1..(imports[i].at - 1) :
        LET n == PrefixesOf[imports[i].name][k] IN IsRoot(n) \/ n \in bound

\* And is none of the modules whose bodies run on top of it.
Apart ==
    \A i, j \in 1..Len(imports) :
        i < j /\ imports[j].runs =>
            \A k \in 1..(imports[i].at - 1) :
                PrefixesOf[imports[i].name][k] # At(imports[j])

WholeCached == \A n \in whole : realised[n] # None

IInv ==
    /\ TypeOK
    /\ Within /\ RunsCached /\ PastBound /\ Apart /\ WholeCached
    /\ CachedIsWhole /\ RunsOnce /\ ParentsCached

-----------------------------------------------------------------------------
(* Names and their prefixes.                                               *)

LEMMA PrefixFacts ==
    ASSUME NEW n \in Names
    PROVE  /\ PrefixesOf[n] \in Seq(Names)
           /\ Len(PrefixesOf[n]) \in Nat \ {0}
           /\ DOMAIN PrefixesOf[n] = 1..Len(PrefixesOf[n])
           /\ \A k \in 1..Len(PrefixesOf[n]) : PrefixesOf[n][k] \in Names
<1>1. PrefixesOf[n] \in Seq(Names) /\ PrefixesOf[n] # <<>>
  BY ImportsAssumption
<1>2. Len(PrefixesOf[n]) \in Nat \ {0}
  BY <1>1, EmptySeq, LenProperties
<1>3. DOMAIN PrefixesOf[n] = 1..Len(PrefixesOf[n])
  BY <1>1, LenProperties
<1>4. \A k \in 1..Len(PrefixesOf[n]) : PrefixesOf[n][k] \in Names
  BY <1>1, ElementOfSeq
<1> QED BY <1>1, <1>2, <1>3, <1>4

\* The parent of a prefix is the prefix before it.
LEMMA ParentIsBefore ==
    ASSUME NEW n \in Names, NEW k \in 1..Len(PrefixesOf[n]), ~IsRoot(PrefixesOf[n][k])
    PROVE  k - 1 \in 1..Len(PrefixesOf[n]) /\ Parent(PrefixesOf[n][k]) = PrefixesOf[n][k - 1]
<1> DEFINE s == PrefixesOf[n]
<1>1. /\ s \in Seq(Names) /\ Len(s) \in Nat \ {0} /\ DOMAIN s = 1..Len(s)
      /\ \A i \in 1..Len(s) : s[i] \in Names
  BY PrefixFacts
<1>2. PrefixesOf[s[k]] = SubSeq(s, 1, k)
  BY <1>1, ImportsAssumption
<1>3. /\ Len(SubSeq(s, 1, k)) = k
      /\ \A i \in 1..k : SubSeq(s, 1, k)[i] = s[i]
  BY <1>1, SubSeqProperties, Z3
<1>4. k # 1
  BY <1>2, <1>3 DEF IsRoot
<1> HIDE DEF s
<1>5. k - 1 \in 1..k /\ k - 1 \in 1..Len(s)
  BY <1>1, <1>4 DEF s
<1>6. Parent(s[k]) = s[k - 1]
  BY <1>2, <1>3, <1>5 DEF Parent
<1> QED BY <1>5, <1>6 DEF s

-----------------------------------------------------------------------------
(* The stack of imports.                                                   *)

LEMMA TopFacts ==
    ASSUME TypeOK, imports # <<>>
    PROVE  /\ Len(imports) \in Nat \ {0}
           /\ Len(imports) \in 1..Len(imports)
           /\ Top = imports[Len(imports)]
           /\ Top \in Import
           /\ \A i \in 1..Len(imports) : imports[i] \in Import
<1>1. imports \in Seq(Import)
  BY DEF TypeOK
<1>2. Len(imports) \in Nat \ {0}
  BY <1>1, EmptySeq, LenProperties
<1>3. \A i \in 1..Len(imports) : imports[i] \in Import
  BY <1>1, ElementOfSeq
<1> QED BY <1>2, <1>3 DEF Top

LEMMA PopFacts ==
    ASSUME TypeOK, imports # <<>>, imports' = Front(imports)
    PROVE  /\ imports' \in Seq(Import)
           /\ Len(imports') = Len(imports) - 1
           /\ \A i \in 1..(Len(imports) - 1) : imports'[i] = imports[i]
<1>1. Len(imports) \in Nat \ {0} /\ \A i \in 1..Len(imports) : imports[i] \in Import
  BY TopFacts
<1>2. \A i \in 1..(Len(imports) - 1) : imports[i] \in Import
  BY <1>1
<1>3. /\ Front(imports) \in Seq(Import)
      /\ Len(Front(imports)) = Len(imports) - 1
      /\ \A i \in 1..(Len(imports) - 1) : Front(imports)[i] = imports[i]
  <2> DEFINE m == Len(imports) - 1
  <2>1. 1 \in Int /\ m \in Int /\ \A i \in 1..m : imports[i] \in Import
    BY <1>1, <1>2
  <2> HIDE DEF m
  <2>2. /\ SubSeq(imports, 1, m) \in Seq(Import)
        /\ Len(SubSeq(imports, 1, m)) = IF 1 <= m THEN m - 1 + 1 ELSE 0
        /\ \A i \in 1..(m - 1 + 1) : SubSeq(imports, 1, m)[i] = imports[1 + i - 1]
    BY <2>1, SubSeqProperties
  <2>3. Front(imports) = SubSeq(imports, 1, m) /\ m \in Nat
    BY <1>1 DEF Front, m
  <2>4. Front(imports) \in Seq(Import) /\ Len(Front(imports)) = m
    BY <2>2, <2>3
  <2>5. ASSUME NEW i \in 1..m
        PROVE  Front(imports)[i] = imports[i]
    <3>1. i \in 1..(m - 1 + 1) /\ 1 + i - 1 = i
      BY <2>3
    <3>2. SubSeq(imports, 1, m)[i] = imports[1 + i - 1]
      BY <2>2, <3>1
    <3> QED BY <2>3, <3>1, <3>2
  <2> QED BY <2>4, <2>5 DEF m
<1> QED BY <1>3

\* The innermost import becomes r.
LEMMA GoFacts ==
    ASSUME TypeOK, imports # <<>>, NEW r \in Import,
           imports' = [imports EXCEPT ![Len(imports)] = r]
    PROVE  /\ imports' \in Seq(Import)
           /\ Len(imports') = Len(imports)
           /\ \A i \in 1..(Len(imports) - 1) : imports'[i] = imports[i]
           /\ imports'[Len(imports)] = r
<1>1. imports \in Seq(Import) /\ Len(imports) \in 1..Len(imports) /\ Len(imports) \in Nat \ {0}
  BY TopFacts DEF TypeOK
<1>2. DOMAIN imports = 1..Len(imports)
  BY <1>1, LenProperties
<1>3. imports' \in Seq(Import) /\ Len(imports') = Len(imports)
  BY <1>1, ExceptSeq
<1>4. /\ \A i \in 1..(Len(imports) - 1) : imports'[i] = imports[i]
      /\ imports'[Len(imports)] = r
  BY <1>1, ExceptSeq
<1> QED BY <1>3, <1>4

LEMMA PushFacts ==
    ASSUME TypeOK, NEW r \in Import, imports' = Append(imports, r)
    PROVE  /\ imports' \in Seq(Import)
           /\ Len(imports) \in Nat
           /\ Len(imports') = Len(imports) + 1
           /\ \A i \in 1..Len(imports) : imports'[i] = imports[i]
           /\ imports'[Len(imports) + 1] = r
BY AppendProperties, LenProperties DEF TypeOK

\* An import at its next prefix.
LEMMA NextFacts ==
    ASSUME NEW i \in Import
    PROVE  LET j == [i EXCEPT !.at = @ + 1, !.runs = FALSE]
           IN j \in Import /\ j.name = i.name /\ j.at = i.at + 1 /\ ~j.runs
<1> DEFINE j == [i EXCEPT !.at = @ + 1, !.runs = FALSE]
<1>1. j.name = i.name
  BY DEF Import
<1>2. j.at = i.at + 1
  BY DEF Import
<1>3. ~j.runs
  BY DEF Import
<1>4. j \in Import
  <2>1. i.at + 1 \in Nat \ {0} /\ FALSE \in BOOLEAN
    BY DEF Import
  <2> QED BY <2>1, Zenon DEF Import
<1> QED BY <1>1, <1>2, <1>3, <1>4

\* An import whose body runs.
LEMMA RunsFacts ==
    ASSUME NEW i \in Import
    PROVE  LET j == [i EXCEPT !.runs = TRUE]
           IN j \in Import /\ j.name = i.name /\ j.at = i.at /\ j.runs
<1> DEFINE j == [i EXCEPT !.runs = TRUE]
<1>1. j.name = i.name
  BY DEF Import
<1>2. j.at = i.at
  BY DEF Import
<1>3. j.runs
  BY DEF Import
<1>4. j \in Import
  <2>1. TRUE \in BOOLEAN
    OBVIOUS
  <2> QED BY <2>1, Zenon DEF Import
<1> QED BY <1>1, <1>2, <1>3, <1>4

\* The properties are stated for the domain of the stack.
LEMMA Domain ==
    ASSUME TypeOK
    PROVE  Len(imports) \in Nat /\ DOMAIN imports = 1..Len(imports)
BY LenProperties DEF TypeOK

-----------------------------------------------------------------------------
(* What keeps the invariant.                                               *)

LEMMA InitFits == Init => IInv
<1> SUFFICES ASSUME Init PROVE IInv
  OBVIOUS
<1>1. Len(imports) = 0 /\ DOMAIN imports = {} /\ imports \in Seq(Import)
  BY DEF Init
<1>2. TypeOK
  <2>1. \A b \in {Mounted[n] : n \in Names} \ {None} : ExtensionsOf[b] \subseteq Names
    BY ImportsAssumption
  <2>2. extensions \subseteq Names
    BY <2>1 DEF Init
  <2> QED BY <1>1, <2>2, ImportsAssumption DEF Init, TypeOK
<1>3. Within /\ RunsCached /\ PastBound /\ Apart
  BY <1>1 DEF Within, RunsCached, PastBound, Apart
<1>4. WholeCached /\ CachedIsWhole
  BY DEF Init, WholeCached, CachedIsWhole
<1>5. RunsOnce /\ ParentsCached
  BY <1>1 DEF RunsOnce, ParentsCached
<1> QED BY <1>2, <1>3, <1>4, <1>5 DEF IInv

\* An import begins.
LEMMA BeginKeeps ==
    ASSUME IInv, NEW r \in Import, r.at = 1, ~r.runs, imports' = Append(imports, r),
           sources' \in [Names -> Bundles \union {None}], extensions' \subseteq Names,
           loaded' \in [Names -> Bundles \union {None}], UNCHANGED <<realised, whole, bound>>
    PROVE  IInv'
<1> DEFINE m == Len(imports)
<1>1. TypeOK
  BY DEF IInv
<1>2. /\ imports' \in Seq(Import) /\ m \in Nat /\ Len(imports') = m + 1
      /\ \A i \in 1..m : imports'[i] = imports[i]
      /\ imports'[m + 1] = r
  BY <1>1, PushFacts
<1>3. DOMAIN imports = 1..m /\ DOMAIN imports' = 1..(m + 1)
  BY <1>1, <1>2, Domain, LenProperties
<1>4. r.name \in Names /\ Len(PrefixesOf[r.name]) \in Nat
  BY PrefixFacts DEF Import
<1>5. Within /\ RunsCached /\ PastBound /\ Apart /\ WholeCached
  BY DEF IInv
<1>6. CachedIsWhole /\ RunsOnce /\ ParentsCached
  BY DEF IInv
<1> HIDE DEF m
<1>7. TypeOK'
  BY <1>1, <1>2 DEF TypeOK
<1>8. Within'
  BY <1>2, <1>4, <1>5 DEF Within, m
<1>9. RunsCached'
  BY <1>2, <1>5 DEF RunsCached, m, At
<1>10. PastBound'
  <2> SUFFICES ASSUME NEW i \in 1..(m + 1), NEW k \in 1..(imports'[i].at - 1)
               PROVE  LET n == PrefixesOf[imports'[i].name][k] IN IsRoot(n) \/ n \in bound
    BY <1>2 DEF PastBound
  <2>1. i \in 1..m /\ imports'[i] = imports[i]
    BY <1>2
  <2> QED BY <1>5, <2>1 DEF PastBound, m
<1>11. Apart'
  BY <1>2, <1>5 DEF Apart, m, At
<1>12. WholeCached'
  BY <1>5 DEF WholeCached
<1>13. CachedIsWhole'
  BY <1>2, <1>3, <1>6 DEF CachedIsWhole, Running, At
<1>14. RunsOnce'
  BY <1>2, <1>3, <1>6 DEF RunsOnce, At
<1>15. ParentsCached'
  BY <1>2, <1>3, <1>6 DEF ParentsCached
<1> QED BY <1>7, <1>8, <1>9, <1>10, <1>11, <1>12, <1>13, <1>14, <1>15 DEF IInv

\* An import whose body does not run is over or given up.
LEMMA PopKeeps ==
    ASSUME IInv, imports # <<>>, ~Top.runs, imports' = Front(imports),
           UNCHANGED <<sources, extensions, loaded, realised, whole, bound>>
    PROVE  IInv'
<1> DEFINE m == Len(imports)
<1>1. TypeOK
  BY DEF IInv
<1>2. /\ m \in Nat \ {0} /\ Top = imports[m]
      /\ imports' \in Seq(Import) /\ Len(imports') = m - 1
      /\ \A i \in 1..(m - 1) : imports'[i] = imports[i]
  BY <1>1, TopFacts, PopFacts
<1>3. DOMAIN imports = 1..m /\ DOMAIN imports' = 1..(m - 1)
  BY <1>1, <1>2, Domain, LenProperties
<1>4. Within /\ RunsCached /\ PastBound /\ Apart /\ WholeCached
  BY DEF IInv
<1>5. CachedIsWhole /\ RunsOnce /\ ParentsCached
  BY DEF IInv
<1> HIDE DEF m
<1>6. TypeOK'
  BY <1>1, <1>2 DEF TypeOK
<1>7. Within' /\ RunsCached'
  <2>1. \A i \in 1..(m - 1) : i \in 1..Len(imports) /\ imports'[i] = imports[i]
    BY <1>2 DEF m
  <2>2. Within'
    BY <1>2, <1>4, <2>1 DEF Within
  <2>3. RunsCached'
    BY <1>2, <1>4, <2>1 DEF RunsCached, At
  <2> QED BY <2>2, <2>3
<1>8. PastBound'
  <2> SUFFICES ASSUME NEW i \in 1..(m - 1), NEW k \in 1..(imports'[i].at - 1)
               PROVE  LET n == PrefixesOf[imports'[i].name][k] IN IsRoot(n) \/ n \in bound
    BY <1>2 DEF PastBound
  <2>1. i \in 1..m /\ imports'[i] = imports[i]
    BY <1>2
  <2> QED BY <1>4, <2>1 DEF PastBound, m
<1>9. Apart'
  BY <1>2, <1>4 DEF Apart, m, At
<1>10. WholeCached'
  BY <1>4 DEF WholeCached
<1>11. CachedIsWhole'
  <2> SUFFICES ASSUME NEW n \in Names, realised[n] # None, n \notin whole
               PROVE  n \in Running'
    BY DEF CachedIsWhole
  <2>1. PICK i \in 1..m : imports[i].runs /\ At(imports[i]) = n
    BY <1>3, <1>5 DEF CachedIsWhole, Running
  <2>2. i \in 1..(m - 1)
    BY <1>2, <2>1
  <2> QED BY <1>2, <1>3, <2>1, <2>2 DEF Running, At
<1>12. RunsOnce'
  BY <1>2, <1>3, <1>5 DEF RunsOnce, At
<1>13. ParentsCached'
  BY <1>2, <1>3, <1>5 DEF ParentsCached
<1> QED BY <1>6, <1>7, <1>8, <1>9, <1>10, <1>11, <1>12, <1>13 DEF IInv

\* The innermost import binds a module and moves on: one that was cached, or one that is
\* complete now.
LEMMA BindKeeps ==
    ASSUME IInv, imports # <<>>, NEW n \in Names, n = At(Top),
           Top.at <= Len(PrefixesOf[Top.name]), Bind(n),
           NEW o \in Origins, realised' = [realised EXCEPT ![n] = o],
           NEW w \in SUBSET {n}, whole' = whole \union w,
           w = {} => realised[n] # None /\ ~Top.runs,
           w # {} => \A i \in 1..(Len(imports) - 1) : imports[i].runs => At(imports[i]) # n,
           UNCHANGED <<sources, extensions, loaded>>
    PROVE  IInv'
<1> DEFINE m == Len(imports)
           r == [Top EXCEPT !.at = @ + 1, !.runs = FALSE]
<1>1. TypeOK
  BY DEF IInv
<1>2. /\ m \in Nat \ {0} /\ m \in 1..m /\ Top = imports[m] /\ Top \in Import
      /\ \A i \in 1..m : imports[i] \in Import
  BY <1>1, TopFacts
<1>3. r \in Import /\ r.name = Top.name /\ r.at = Top.at + 1 /\ ~r.runs
  BY <1>2, NextFacts
<1>4. imports' = [imports EXCEPT ![m] = r]
  BY DEF Bind
<1> HIDE DEF r
<1>5. /\ imports' \in Seq(Import) /\ Len(imports') = m
      /\ \A i \in 1..(m - 1) : imports'[i] = imports[i]
      /\ imports'[m] = r
  BY <1>1, <1>3, <1>4, GoFacts
<1>6. DOMAIN imports = 1..m /\ DOMAIN imports' = 1..m
  BY <1>1, <1>5, Domain, LenProperties
<1>7. Within /\ RunsCached /\ PastBound /\ Apart /\ WholeCached
  BY DEF IInv
<1>8. CachedIsWhole /\ RunsOnce /\ ParentsCached
  BY DEF IInv
<1>9. Top.name \in Names /\ Top.at \in Nat \ {0} /\ PrefixesOf[Top.name][Top.at] = n
  BY <1>2 DEF Import, At
<1>10. Len(PrefixesOf[Top.name]) \in Nat
  BY <1>9, PrefixFacts
<1>11. /\ realised'[n] # None
       /\ \A x \in Names : realised[x] # None => realised'[x] # None
       /\ \A x \in Names \ {n} : realised'[x] = realised[x]
       /\ realised' \in [Names -> Origins \union {None}]
  BY <1>1, ImportsAssumption DEF TypeOK
<1>12. bound \subseteq bound' /\ bound' \subseteq Names /\ (IsRoot(n) \/ n \in bound')
  BY <1>1 DEF Bind, TypeOK
<1> HIDE DEF m
<1>13. TypeOK'
  <2>1. whole' \subseteq Names
    BY <1>1 DEF TypeOK
  <2>2. /\ sources' \in [Names -> Bundles \union {None}] /\ extensions' \subseteq Names
        /\ loaded' \in [Names -> Bundles \union {None}]
    BY <1>1 DEF TypeOK
  <2> QED BY <1>5, <1>11, <1>12, <2>1, <2>2 DEF TypeOK
<1>14. Within'
  <2> SUFFICES ASSUME NEW i \in 1..m
               PROVE  /\ imports'[i].at <= Len(PrefixesOf[imports'[i].name]) + 1
                      /\ imports'[i].runs =>
                             imports'[i].at <= Len(PrefixesOf[imports'[i].name])
    BY <1>5 DEF Within
  <2>1. CASE i = m
    BY <1>3, <1>5, <1>9, <1>10, <2>1
  <2>2. CASE i # m
    BY <1>2, <1>5, <1>7, <2>2 DEF Within, m
  <2> QED BY <2>1, <2>2
<1>15. ASSUME NEW i \in 1..m, imports'[i].runs
       PROVE  i \in 1..(m - 1) /\ imports'[i] = imports[i] /\ imports[i].runs
              /\ At(imports[i]) \in Names
  <2>1. i \in 1..(m - 1) /\ imports'[i] = imports[i] /\ imports[i].runs
    BY <1>2, <1>3, <1>5, <1>15
  <2>2. imports[i].at <= Len(PrefixesOf[imports[i].name])
    BY <2>1 DEF m, Within, IInv
  <2>3. imports[i].name \in Names /\ imports[i].at \in Nat \ {0}
    BY <1>2 DEF Import
  <2>4. imports[i].at \in 1..Len(PrefixesOf[imports[i].name])
    BY <2>2, <2>3, PrefixFacts
  <2> QED BY <2>1, <2>3, <2>4, PrefixFacts DEF At
<1>16. RunsCached'
  <2> SUFFICES ASSUME NEW i \in 1..m, imports'[i].runs
               PROVE  realised'[At(imports[i])] # None /\ At(imports[i]) \notin whole'
    BY <1>5, <1>15 DEF RunsCached, At
  <2>1. realised[At(imports[i])] # None /\ At(imports[i]) \notin whole
    BY <1>7, <1>15 DEF RunsCached, m
  <2>2. w = {} \/ At(imports[i]) # n
    BY <1>15 DEF m
  <2> QED BY <1>11, <1>15, <2>1, <2>2
<1>17. ASSUME NEW i \in 1..m, NEW k \in 1..(imports'[i].at - 1)
       PROVE  /\ imports'[i].name = imports[i].name
              /\ \/ k \in 1..(imports[i].at - 1)
                 \/ i = m /\ PrefixesOf[imports[i].name][k] = n
              /\ PrefixesOf[imports[i].name][k] \in Names
  <2>1. imports[i].name \in Names /\ imports[i].at \in Nat \ {0}
    BY <1>2 DEF Import
  <2>2. imports[i].at <= Len(PrefixesOf[imports[i].name]) + 1
    BY <1>7 DEF Within, m
  <2>3. CASE i = m
    <3>1. k \in 1..Top.at
      BY <1>3, <1>5, <1>9, <2>3
    <3>2. k \in 1..Len(PrefixesOf[Top.name])
      BY <1>9, <1>10, <3>1
    <3>3. PrefixesOf[Top.name][k] \in Names
      BY <1>9, <3>2, PrefixFacts
    <3> QED BY <1>2, <1>3, <1>5, <1>9, <2>3, <3>1, <3>3
  <2>4. CASE i # m
    <3>1. imports'[i] = imports[i]
      BY <1>2, <1>5, <2>4
    <3>2. k \in 1..Len(PrefixesOf[imports[i].name])
      BY <2>1, <2>2, <3>1, PrefixFacts
    <3> QED BY <2>1, <3>1, <3>2, PrefixFacts
  <2> QED BY <2>3, <2>4
<1>18. PastBound'
  <2> SUFFICES ASSUME NEW i \in 1..m, NEW k \in 1..(imports'[i].at - 1)
               PROVE  LET x == PrefixesOf[imports'[i].name][k] IN IsRoot(x) \/ x \in bound'
    BY <1>5 DEF PastBound
  <2>1. CASE k \in 1..(imports[i].at - 1)
    BY <1>7, <1>12, <1>17, <2>1 DEF PastBound, m
  <2>2. CASE PrefixesOf[imports[i].name][k] = n
    BY <1>12, <1>17, <2>2
  <2> QED BY <1>17, <2>1, <2>2
<1>19. Apart'
  <2> SUFFICES ASSUME NEW i \in 1..m, NEW j \in 1..m, i < j, imports'[j].runs,
                      NEW k \in 1..(imports'[i].at - 1)
               PROVE  PrefixesOf[imports'[i].name][k] # At(imports'[j])
    BY <1>5 DEF Apart, At
  <2>1. j \in 1..(m - 1) /\ imports'[j] = imports[j] /\ imports[j].runs
    BY <1>15
  <2>2. i \in 1..(m - 1) /\ imports'[i] = imports[i]
    BY <1>2, <1>5, <2>1
  <2> QED BY <1>7, <2>1, <2>2 DEF Apart, m
<1>20. WholeCached'
  <2>1. whole \subseteq Names
    BY <1>1 DEF TypeOK
  <2> QED BY <1>7, <1>11, <2>1 DEF WholeCached
<1>21. CachedIsWhole'
  <2> SUFFICES ASSUME NEW x \in Names, realised'[x] # None, x \notin whole'
               PROVE  \E i \in 1..m : imports'[i].runs /\ At(imports'[i]) = x
    BY <1>6 DEF CachedIsWhole, Running, At
  <2>1. realised[x] # None /\ x \notin whole
    BY <1>11
  <2>2. PICK i \in 1..m : imports[i].runs /\ At(imports[i]) = x
    BY <1>6, <1>8, <2>1 DEF CachedIsWhole, Running
  <2>3. i # m
    BY <1>2, <2>2
  <2>4. i \in 1..(m - 1)
    BY <1>2, <2>3
  <2> QED BY <1>5, <2>2, <2>4
<1>22. RunsOnce'
  <2> SUFFICES ASSUME NEW i \in 1..m, NEW j \in 1..m, imports'[i].runs, imports'[j].runs,
                      At(imports'[i]) = At(imports'[j])
               PROVE  i = j
    BY <1>6 DEF RunsOnce, At
  <2> QED BY <1>6, <1>8, <1>15 DEF RunsOnce
<1>23. ParentsCached'
  <2> SUFFICES ASSUME NEW i \in 1..m, NEW k \in 1..(imports'[i].at - 1)
               PROVE  realised'[PrefixesOf[imports'[i].name][k]] # None
    BY <1>6 DEF ParentsCached
  <2>1. CASE k \in 1..(imports[i].at - 1)
    BY <1>6, <1>8, <1>11, <1>17, <2>1 DEF ParentsCached
  <2>2. CASE PrefixesOf[imports[i].name][k] = n
    BY <1>11, <1>17, <2>2
  <2> QED BY <1>17, <2>1, <2>2
<1> QED BY <1>13, <1>14, <1>16, <1>18, <1>19, <1>20, <1>21, <1>22, <1>23 DEF IInv

\* Where an import that goes on is.
LEMMA AtFacts ==
    ASSUME NEW i \in Import, i.at <= Len(PrefixesOf[i.name])
    PROVE  /\ At(i) \in Names
           /\ i.at \in 1..Len(PrefixesOf[i.name])
<1>1. i.name \in Names /\ i.at \in Nat \ {0}
  BY DEF Import
<1>2. i.at \in 1..Len(PrefixesOf[i.name])
  BY <1>1, PrefixFacts
<1> QED BY <1>1, <1>2, PrefixFacts DEF At

\* The innermost import starts the body of a module that is not cached.
LEMMA RunBodyKeeps ==
    ASSUME IInv, NEW n \in Names, RunBody(n)
    PROVE  IInv'
<1> DEFINE m == Len(imports)
           r == [Top EXCEPT !.runs = TRUE]
<1>1. /\ TypeOK /\ imports # <<>> /\ ~Top.runs /\ n = At(Top) /\ realised[n] = None
      /\ Top.at <= Len(PrefixesOf[Top.name])
      /\ realised' = [realised EXCEPT ![n] = Defined(n)] /\ Defined(n) # None
      /\ UNCHANGED <<sources, extensions, loaded, whole, bound>>
  <2>1. imports # <<>> /\ TypeOK
    BY DEF IInv, RunBody, Realises
  <2>2. Top.at \in Nat /\ Len(PrefixesOf[Top.name]) \in Nat
    BY <2>1, TopFacts, PrefixFacts DEF Import
  <2> QED BY <2>1, <2>2 DEF RunBody, Realises, Finished
<1>2. /\ m \in Nat \ {0} /\ m \in 1..m /\ Top = imports[m] /\ Top \in Import
      /\ \A i \in 1..m : imports[i] \in Import
  BY <1>1, TopFacts
<1>3. r \in Import /\ r.name = Top.name /\ r.at = Top.at /\ r.runs
  BY <1>2, RunsFacts
<1>4. imports' = [imports EXCEPT ![m] = r]
  BY DEF RunBody, Top
<1> HIDE DEF r
<1>5. /\ imports' \in Seq(Import) /\ Len(imports') = m
      /\ \A i \in 1..(m - 1) : imports'[i] = imports[i]
      /\ imports'[m] = r
  BY <1>1, <1>3, <1>4, GoFacts
<1>6. DOMAIN imports = 1..m /\ DOMAIN imports' = 1..m
  BY <1>1, <1>5, Domain, LenProperties
<1>7. Within /\ RunsCached /\ PastBound /\ Apart /\ WholeCached
  BY DEF IInv
<1>8. CachedIsWhole /\ RunsOnce /\ ParentsCached
  BY DEF IInv
<1>9. Defined(n) \in Origins
  BY <1>1 DEF Defined, Origins, TypeOK
<1>10. /\ realised'[n] # None
       /\ \A x \in Names \ {n} : realised'[x] = realised[x]
       /\ realised' \in [Names -> Origins \union {None}]
  BY <1>1, <1>9 DEF TypeOK
<1> HIDE DEF m
<1>11. ASSUME NEW i \in 1..m
       PROVE  /\ imports'[i].name = imports[i].name /\ imports'[i].at = imports[i].at
              /\ At(imports'[i]) = At(imports[i])
              /\ i # m => imports'[i] = imports[i]
  <2>1. CASE i = m
    BY <1>2, <1>3, <1>5, <2>1 DEF At
  <2>2. CASE i # m
    BY <1>2, <1>5, <2>2
  <2> QED BY <2>1, <2>2
<1>12. ASSUME NEW i \in 1..m, imports[i].runs
       PROVE  At(imports[i]) \in Names /\ At(imports[i]) # n /\ i # m
  <2>1. At(imports[i]) \in Names
    BY <1>2, <1>7, <1>12, AtFacts DEF Within, m
  <2>2. realised[At(imports[i])] # None
    BY <1>7, <1>12 DEF RunsCached, m
  <2> QED BY <1>1, <1>2, <1>12, <2>1, <2>2
<1>13. ASSUME NEW i \in 1..m, NEW k \in 1..(imports[i].at - 1)
       PROVE  /\ PrefixesOf[imports[i].name][k] \in Names
              /\ PrefixesOf[imports[i].name][k] # n
              /\ realised[PrefixesOf[imports[i].name][k]] # None
  <2>1. imports[i].name \in Names /\ imports[i].at \in Nat \ {0}
    BY <1>2 DEF Import
  <2>2. imports[i].at <= Len(PrefixesOf[imports[i].name]) + 1
    BY <1>7 DEF Within, m
  <2>3. k \in 1..Len(PrefixesOf[imports[i].name])
    BY <2>1, <2>2, PrefixFacts
  <2>4. realised[PrefixesOf[imports[i].name][k]] # None
    BY <1>6, <1>8 DEF ParentsCached
  <2> QED BY <1>1, <2>1, <2>3, <2>4, PrefixFacts
<1>14. TypeOK'
  BY <1>1, <1>5, <1>10 DEF TypeOK
<1>15. Within'
  <2> SUFFICES ASSUME NEW i \in 1..m
               PROVE  /\ imports'[i].at <= Len(PrefixesOf[imports'[i].name]) + 1
                      /\ imports'[i].runs =>
                             imports'[i].at <= Len(PrefixesOf[imports'[i].name])
    BY <1>5 DEF Within
  <2>1. CASE i = m
    <3>1. Top.at \in Nat /\ Len(PrefixesOf[Top.name]) \in Nat
      BY <1>2, PrefixFacts DEF Import
    <3> QED BY <1>1, <1>3, <1>5, <2>1, <3>1
  <2>2. CASE i # m
    BY <1>7, <1>11, <2>2 DEF Within, m
  <2> QED BY <2>1, <2>2
<1>16. n \notin whole
  BY <1>1, <1>7 DEF WholeCached
<1>17. RunsCached'
  <2> SUFFICES ASSUME NEW i \in 1..m, imports'[i].runs
               PROVE  realised'[At(imports[i])] # None /\ At(imports[i]) \notin whole
    BY <1>1, <1>5, <1>11 DEF RunsCached, At
  <2>1. CASE i = m
    BY <1>1, <1>2, <1>10, <1>16, <2>1
  <2>2. CASE i # m
    BY <1>7, <1>10, <1>11, <1>12, <2>2 DEF RunsCached, m
  <2> QED BY <2>1, <2>2
<1>18. PastBound'
  <2> SUFFICES ASSUME NEW i \in 1..m, NEW k \in 1..(imports'[i].at - 1)
               PROVE  LET x == PrefixesOf[imports'[i].name][k] IN IsRoot(x) \/ x \in bound
    BY <1>1, <1>5 DEF PastBound
  <2> QED BY <1>7, <1>11 DEF PastBound, m
<1>19. Apart'
  <2> SUFFICES ASSUME NEW i \in 1..m, NEW j \in 1..m, i < j, imports'[j].runs,
                      NEW k \in 1..(imports'[i].at - 1)
               PROVE  PrefixesOf[imports'[i].name][k] # At(imports'[j])
    BY <1>5 DEF Apart, At
  <2>1. k \in 1..(imports[i].at - 1) /\ imports'[i].name = imports[i].name
        /\ At(imports'[j]) = At(imports[j])
    BY <1>11
  <2>2. CASE j = m
    BY <1>1, <1>2, <1>13, <2>1, <2>2
  <2>3. CASE j # m
    BY <1>7, <1>11, <2>1, <2>3 DEF Apart, m
  <2> QED BY <2>2, <2>3
<1>20. WholeCached'
  <2>1. whole \subseteq Names
    BY <1>1 DEF TypeOK
  <2> QED BY <1>1, <1>7, <1>10, <2>1 DEF WholeCached
<1>21. CachedIsWhole'
  <2> SUFFICES ASSUME NEW x \in Names, realised'[x] # None, x \notin whole
               PROVE  \E i \in 1..m : imports'[i].runs /\ At(imports'[i]) = x
    BY <1>1, <1>6 DEF CachedIsWhole, Running, At
  <2>1. CASE x = n
    BY <1>1, <1>2, <1>3, <1>5, <1>11, <2>1
  <2>2. CASE x # n
    <3>1. PICK i \in 1..m : imports[i].runs /\ At(imports[i]) = x
      BY <1>6, <1>8, <1>10, <2>2 DEF CachedIsWhole, Running
    <3> QED BY <1>11, <1>12, <3>1
  <2> QED BY <2>1, <2>2
<1>22. RunsOnce'
  <2> SUFFICES ASSUME NEW i \in 1..m, NEW j \in 1..m, imports'[i].runs, imports'[j].runs,
                      At(imports[i]) = At(imports[j])
               PROVE  i = j
    BY <1>6, <1>11 DEF RunsOnce, At
  <2>1. CASE i # m /\ j # m
    BY <1>6, <1>8, <1>11, <2>1 DEF RunsOnce
  <2>2. CASE i = m /\ j # m
    BY <1>1, <1>2, <1>11, <1>12, <2>2
  <2>3. CASE i # m /\ j = m
    BY <1>1, <1>2, <1>11, <1>12, <2>3
  <2> QED BY <2>1, <2>2, <2>3
<1>23. ParentsCached'
  <2> SUFFICES ASSUME NEW i \in 1..m, NEW k \in 1..(imports'[i].at - 1)
               PROVE  realised'[PrefixesOf[imports'[i].name][k]] # None
    BY <1>6 DEF ParentsCached
  <2> QED BY <1>10, <1>11, <1>13
<1> QED BY <1>14, <1>15, <1>17, <1>18, <1>19, <1>20, <1>21, <1>22, <1>23 DEF IInv

\* The body of the innermost import fails.
LEMMA BodyFailsKeeps ==
    ASSUME IInv, BodyFails
    PROVE  IInv'
<1> DEFINE m == Len(imports)
           n == At(Top)
<1>1. /\ TypeOK /\ imports # <<>> /\ Top.runs
      /\ realised' = [realised EXCEPT ![n] = None]
      /\ bound' = {x \in bound : IsRoot(x) \/ Parent(x) # n} \ {n}
      /\ imports' = Front(imports)
      /\ UNCHANGED <<sources, extensions, loaded, whole>>
  BY DEF IInv, BodyFails, GiveUp
<1>2. /\ m \in Nat \ {0} /\ m \in 1..m /\ Top = imports[m] /\ Top \in Import
      /\ \A i \in 1..m : imports[i] \in Import
  BY <1>1, TopFacts
<1>3. /\ imports' \in Seq(Import) /\ Len(imports') = m - 1
      /\ \A i \in 1..(m - 1) : imports'[i] = imports[i]
  BY <1>1, PopFacts
<1>4. DOMAIN imports = 1..m /\ DOMAIN imports' = 1..(m - 1)
  BY <1>1, <1>2, <1>3, Domain, LenProperties
<1>5. Within /\ RunsCached /\ PastBound /\ Apart /\ WholeCached
  BY DEF IInv
<1>6. CachedIsWhole /\ RunsOnce /\ ParentsCached
  BY DEF IInv
<1>7. n \in Names /\ n \notin whole
  <2>1. Top.at <= Len(PrefixesOf[Top.name]) /\ n \notin whole
    BY <1>1, <1>2, <1>5 DEF Within, RunsCached
  <2> QED BY <1>2, <2>1, AtFacts
<1> HIDE DEF m, n
<1>8. /\ realised'[n] = None
      /\ \A x \in Names \ {n} : realised'[x] = realised[x]
      /\ realised' \in [Names -> Origins \union {None}]
  BY <1>1, <1>7 DEF TypeOK
<1>9. ASSUME NEW i \in 1..(m - 1)
      PROVE  i \in 1..m /\ i < m /\ imports'[i] = imports[i] /\ imports[i] \in Import
  BY <1>2, <1>3
<1>10. ASSUME NEW i \in 1..(m - 1), imports[i].runs
       PROVE  At(imports[i]) \in Names /\ At(imports[i]) # n
  <2>1. At(imports[i]) \in Names
    BY <1>5, <1>9, <1>10, AtFacts DEF Within, m
  <2>2. At(imports[i]) # At(imports[m])
    BY <1>1, <1>2, <1>4, <1>6, <1>9, <1>10 DEF RunsOnce
  <2> QED BY <1>2, <2>1, <2>2 DEF n
<1>11. ASSUME NEW i \in 1..(m - 1), NEW k \in 1..(imports[i].at - 1)
       PROVE  /\ imports[i].name \in Names
              /\ k \in 1..Len(PrefixesOf[imports[i].name])
              /\ PrefixesOf[imports[i].name][k] \in Names
              /\ PrefixesOf[imports[i].name][k] # n
  <2>1. imports[i].name \in Names /\ imports[i].at \in Nat \ {0}
    BY <1>9 DEF Import
  <2>2. imports[i].at <= Len(PrefixesOf[imports[i].name]) + 1
    BY <1>5, <1>9 DEF Within, m
  <2>3. k \in 1..Len(PrefixesOf[imports[i].name])
    BY <2>1, <2>2, PrefixFacts
  <2>4. PrefixesOf[imports[i].name][k] # At(imports[m])
    BY <1>1, <1>2, <1>5, <1>9 DEF Apart, m
  <2> QED BY <1>2, <2>1, <2>3, <2>4, PrefixFacts DEF n
<1>12. TypeOK'
  BY <1>1, <1>3, <1>8 DEF TypeOK
<1>13. Within'
  BY <1>3, <1>5, <1>9 DEF Within, m
<1>14. RunsCached'
  <2> SUFFICES ASSUME NEW i \in 1..(m - 1), imports[i].runs
               PROVE  realised'[At(imports[i])] # None /\ At(imports[i]) \notin whole
    BY <1>1, <1>3 DEF RunsCached, At
  <2> QED BY <1>5, <1>8, <1>9, <1>10 DEF RunsCached, m
<1>15. PastBound'
  <2> SUFFICES ASSUME NEW i \in 1..(m - 1), NEW k \in 1..(imports[i].at - 1),
                      ~IsRoot(PrefixesOf[imports[i].name][k])
               PROVE  PrefixesOf[imports[i].name][k] \in bound'
    BY <1>3 DEF PastBound
  <2> DEFINE x == PrefixesOf[imports[i].name][k]
  <2>1. x \in bound
    BY <1>5, <1>9 DEF PastBound, m
  <2>2. /\ k - 1 \in 1..Len(PrefixesOf[imports[i].name])
        /\ Parent(x) = PrefixesOf[imports[i].name][k - 1]
    BY <1>11, ParentIsBefore
  <2>3. k - 1 \in 1..(imports[i].at - 1)
    BY <1>9, <2>2 DEF Import
  <2>4. Parent(x) # n /\ x # n
    BY <1>11, <2>2, <2>3
  <2> QED BY <1>1, <2>1, <2>4
<1>16. Apart'
  <2> SUFFICES ASSUME NEW i \in 1..(m - 1), NEW j \in 1..(m - 1), i < j, imports[j].runs,
                      NEW k \in 1..(imports[i].at - 1)
               PROVE  PrefixesOf[imports[i].name][k] # At(imports[j])
    BY <1>3 DEF Apart, At
  <2> QED BY <1>5, <1>9 DEF Apart, m
<1>17. WholeCached'
  <2>1. whole \subseteq Names
    BY <1>1 DEF TypeOK
  <2> QED BY <1>1, <1>5, <1>7, <1>8, <2>1 DEF WholeCached
<1>18. CachedIsWhole'
  <2> SUFFICES ASSUME NEW x \in Names, realised'[x] # None, x \notin whole
               PROVE  \E i \in 1..(m - 1) : imports'[i].runs /\ At(imports'[i]) = x
    BY <1>1, <1>4 DEF CachedIsWhole, Running, At
  <2>1. x # n /\ realised[x] # None
    BY <1>8
  <2>2. PICK i \in 1..m : imports[i].runs /\ At(imports[i]) = x
    BY <1>4, <1>6, <2>1 DEF CachedIsWhole, Running
  <2>3. i # m
    BY <1>2, <2>1, <2>2 DEF n
  <2>4. i \in 1..(m - 1)
    BY <1>2, <2>3
  <2> QED BY <1>3, <2>2, <2>4
<1>19. RunsOnce'
  BY <1>3, <1>4, <1>6, <1>9 DEF RunsOnce, At
<1>20. ParentsCached'
  <2> SUFFICES ASSUME NEW i \in 1..(m - 1), NEW k \in 1..(imports[i].at - 1)
               PROVE  realised'[PrefixesOf[imports[i].name][k]] # None
    BY <1>3, <1>4 DEF ParentsCached
  <2>1. realised[PrefixesOf[imports[i].name][k]] # None
    BY <1>4, <1>6, <1>9 DEF ParentsCached
  <2> QED BY <1>8, <1>11, <2>1
<1> QED BY <1>12, <1>13, <1>14, <1>15, <1>16, <1>17, <1>18, <1>19, <1>20 DEF IInv

LEMMA StepKeeps ==
    ASSUME IInv, [Next]_vars
    PROVE  IInv'
<1>0. TypeOK
  BY DEF IInv
<1>1. CASE UNCHANGED vars
  <2>1. TypeOK' /\ Within' /\ RunsCached' /\ PastBound' /\ Apart' /\ WholeCached'
    BY <1>1 DEF IInv, vars, TypeOK, Within, RunsCached, PastBound, Apart, WholeCached, At
  <2>2. CachedIsWhole' /\ RunsOnce' /\ ParentsCached'
    BY <1>1 DEF IInv, vars, CachedIsWhole, RunsOnce, ParentsCached, Running, At
  <2> QED BY <2>1, <2>2 DEF IInv
<1>2. ASSUME NEW n \in Names, ImportName(n) PROVE IInv'
  <2> DEFINE r == [name |-> n, at |-> 1, runs |-> FALSE, load |-> None]
  <2>1. r \in Import /\ r.at = 1 /\ ~r.runs
    BY DEF Import
  <2>2. imports' = Append(imports, r)
    BY <1>2 DEF ImportName, Begin
  <2> HIDE DEF r
  <2> QED BY <1>0, <1>2, <2>1, <2>2, BeginKeeps DEF ImportName, TypeOK
<1>3. ASSUME NEW b \in Bundles, Load(b) PROVE IInv'
  <2> DEFINE r == [name |-> RootOf[b], at |-> 1, runs |-> FALSE, load |-> b]
  <2>1. r \in Import /\ r.at = 1 /\ ~r.runs
    BY ImportsAssumption DEF Import
  <2>2. imports' = Append(imports, r)
    BY <1>3 DEF Load, Begin
  <2> HIDE DEF r
  <2>3. sources' \in [Names -> Bundles \union {None}]
    BY <1>0, <1>3 DEF Load, TypeOK
  <2>4. extensions' \subseteq Names
    BY <1>0, <1>3, ImportsAssumption DEF Load, TypeOK
  <2>5. loaded' \in [Names -> Bundles \union {None}]
    <3>1. loaded \in [Names -> Bundles \union {None}]
      BY <1>0 DEF TypeOK
    <3>2. loaded' = loaded \/ loaded' = [loaded EXCEPT ![RootOf[b]] = b]
      BY <1>3 DEF Load
    <3> QED BY <3>1, <3>2
  <2>6. UNCHANGED <<realised, whole, bound>>
    BY <1>3 DEF Load
  <2> QED BY <2>1, <2>2, <2>3, <2>4, <2>5, <2>6, BeginKeeps
<1>4. ASSUME NEW n \in Names, Realises(n)
      PROVE  /\ imports # <<>> /\ ~Top.runs /\ n = At(Top)
             /\ Top.at <= Len(PrefixesOf[Top.name])
  <2>1. imports # <<>>
    BY <1>4 DEF Realises
  <2>2. Top.at \in Nat /\ Len(PrefixesOf[Top.name]) \in Nat
    BY <1>0, <2>1, TopFacts, PrefixFacts DEF Import
  <2> QED BY <1>4, <2>2 DEF Realises, Finished
<1>5. ASSUME NEW n \in Names, UseCached(n) PROVE IInv'
  <2>1. /\ imports # <<>> /\ ~Top.runs /\ n = At(Top)
        /\ Top.at <= Len(PrefixesOf[Top.name])
    BY <1>4, <1>5 DEF UseCached
  <2>2. realised[n] \in Origins /\ realised' = [realised EXCEPT ![n] = realised[n]]
    BY <1>0, <1>5 DEF UseCached, TypeOK
  <2>3. {} \in SUBSET {n} /\ whole' = whole \union {}
    BY <1>5 DEF UseCached
  <2>4. Bind(n) /\ UNCHANGED <<sources, extensions, loaded>> /\ realised[n] # None
    BY <1>5 DEF UseCached
  <2> QED BY <2>1, <2>2, <2>3, <2>4, BindKeeps
<1>6. ASSUME NEW n \in Names, RunBody(n) PROVE IInv'
  BY <1>6, RunBodyKeeps
<1>7. ASSUME NEW n \in Names, Declare(n) PROVE IInv'
  <2>1. /\ imports # <<>> /\ ~Top.runs /\ n = At(Top)
        /\ Top.at <= Len(PrefixesOf[Top.name])
    BY <1>4, <1>7 DEF Declare
  <2>2. Declared(n) \in Origins /\ realised' = [realised EXCEPT ![n] = Declared(n)]
    BY <1>7 DEF Declare, Declared, Origins
  <2>3. {n} \in SUBSET {n} /\ whole' = whole \union {n}
    BY <1>7 DEF Declare
  <2>4. Bind(n) /\ UNCHANGED <<sources, extensions, loaded>> /\ realised[n] = None
    BY <1>7 DEF Declare
  <2>5. \A i \in 1..(Len(imports) - 1) : imports[i].runs => At(imports[i]) # n
    <3>1. Len(imports) \in Nat
      BY <1>0, <2>1, TopFacts
    <3> QED BY <2>4, <3>1 DEF IInv, RunsCached
  <2> QED BY <2>1, <2>2, <2>3, <2>4, <2>5, BindKeeps
<1>8. ASSUME NEW n \in Names, NotRealised(n) PROVE IInv'
  BY <1>4, <1>8, PopKeeps DEF NotRealised, GiveUp
<1>9. CASE BodyEnds
  <2> DEFINE n == At(Top)
  <2>1. imports # <<>> /\ Top.runs
    BY <1>9 DEF BodyEnds
  <2>2. /\ Len(imports) \in Nat \ {0} /\ Top = imports[Len(imports)] /\ Top \in Import
        /\ Len(imports) \in 1..Len(imports) /\ DOMAIN imports = 1..Len(imports)
    BY <1>0, <2>1, TopFacts, Domain
  <2>3. Top.at <= Len(PrefixesOf[Top.name]) /\ realised[n] # None
    BY <2>1, <2>2 DEF IInv, Within, RunsCached
  <2>4. n \in Names
    BY <2>2, <2>3, AtFacts
  <2> HIDE DEF n
  <2>5. realised[n] \in Origins /\ realised' = [realised EXCEPT ![n] = realised[n]]
    BY <1>0, <1>9, <2>3, <2>4 DEF BodyEnds, TypeOK
  <2>6. {n} \in SUBSET {n} /\ whole' = whole \union {n} /\ Bind(n)
        /\ UNCHANGED <<sources, extensions, loaded>>
    BY <1>9 DEF BodyEnds, n
  <2>7. \A i \in 1..(Len(imports) - 1) : imports[i].runs => At(imports[i]) # n
    BY <2>1, <2>2 DEF IInv, RunsOnce, n
  <2>8. n = At(Top)
    BY DEF n
  <2> QED BY <2>1, <2>3, <2>4, <2>5, <2>6, <2>7, <2>8, BindKeeps
<1>10. CASE BodyFails
  BY <1>10, BodyFailsKeeps
<1>11. CASE Deliver
  BY <1>11, PopKeeps DEF Deliver
<1> QED BY <1>1, <1>2, <1>3, <1>5, <1>6, <1>7, <1>8, <1>9, <1>10, <1>11 DEF Next

-----------------------------------------------------------------------------
(* The theorems.                                                           *)

LEMMA Invariance == Spec => []IInv
<1>1. IInv /\ [Next]_vars => IInv'
  BY StepKeeps
<1> QED BY <1>1, InitFits, PTL DEF Spec

\* Imports is type correct, for any names, bundles and depth of nesting.
THEOREM TypeCorrect == Spec => []TypeOK
BY Invariance, PTL DEF IInv

\* A cached module is complete or its body is running, however bodies nest and fail.
THEOREM CacheIsWhole == Spec => []CachedIsWhole
BY Invariance, PTL DEF IInv

\* No body runs twice at a time.
THEOREM BodiesRunOnce == Spec => []RunsOnce
BY Invariance, PTL DEF IInv

\* No import loses a parent it has come past, so that realise cannot report one.
THEOREM ParentsStayCached == Spec => []ParentsCached
BY Invariance, PTL DEF IInv

\* What an import returns is bound in its parents, up to the head.
THEOREM ImportedIsReachable == Spec => []Reachable
<1>1. ASSUME IInv
      PROVE  Reachable
  <2> SUFFICES ASSUME imports # <<>>, Finished, NEW n \in ToSet(PrefixesOf[Top.name]),
                      ~IsRoot(n)
               PROVE  n \in bound
    BY DEF Reachable
  <2>1. /\ Len(imports) \in 1..Len(imports) /\ Top = imports[Len(imports)]
        /\ Top.name \in Names /\ Top.at \in Nat \ {0}
    BY <1>1, TopFacts DEF IInv, Import
  <2>2. /\ Len(PrefixesOf[Top.name]) \in Nat
        /\ DOMAIN PrefixesOf[Top.name] = 1..Len(PrefixesOf[Top.name])
    BY <2>1, PrefixFacts
  <2>3. PICK k \in 1..Len(PrefixesOf[Top.name]) : n = PrefixesOf[Top.name][k]
    BY <2>2 DEF ToSet
  <2>4. k \in 1..(Top.at - 1)
    BY <2>1, <2>2 DEF Finished
  <2> QED BY <1>1, <2>1, <2>3, <2>4 DEF IInv, PastBound
<1> QED BY <1>1, Invariance, PTL

\* A complete module is neither realised again nor removed.
THEOREM CompleteIsKept == Spec => WholeIsKept
<1>1. ASSUME IInv, [Next]_vars
      PROVE  WholeStep
  <2> SUFFICES ASSUME NEW n \in whole
               PROVE  n \in whole' /\ realised'[n] = realised[n]
    BY DEF WholeStep
  <2>1. TypeOK /\ n \in Names /\ realised[n] # None
    BY <1>1 DEF IInv, TypeOK, WholeCached
  <2>2. n \in whole'
    BY <1>1 DEF Next, vars, ImportName, Load, UseCached, RunBody, Declare, NotRealised,
           BodyEnds, BodyFails, Deliver
  <2>3. ASSUME NEW q \in Names, RunBody(q) \/ Declare(q)
        PROVE  realised'[n] = realised[n]
    BY <2>1, <2>3 DEF RunBody, Declare, TypeOK
  <2>4. CASE BodyFails
    <3>1. imports # <<>> /\ Top.runs /\ realised' = [realised EXCEPT ![At(Top)] = None]
      BY <2>4 DEF BodyFails
    <3>2. Len(imports) \in 1..Len(imports) /\ Top = imports[Len(imports)]
      BY <2>1, <3>1, TopFacts
    <3>3. At(Top) \notin whole
      BY <1>1, <3>1, <3>2 DEF IInv, RunsCached
    <3> QED BY <2>1, <2>2, <3>1, <3>3 DEF TypeOK
  <2>5. \/ \E q \in Names : RunBody(q) \/ Declare(q)
        \/ BodyFails
        \/ UNCHANGED realised
    BY <1>1 DEF Next, vars, ImportName, Load, UseCached, NotRealised, BodyEnds, Deliver
  <2> QED BY <2>2, <2>3, <2>4, <2>5
<1>2. IInv /\ [Next]_vars => [WholeStep]_vars
  BY <1>1
<1> QED BY <1>2, Invariance, PTL DEF Spec, WholeIsKept

-----------------------------------------------------------------------------
(* What a load gives.                                                      *)

\* Nothing but the bundle defines the root of a bundle that no host module keeps: no native
\* module, no native extension, and no other bundle that is mounted when the guest is built.
Uncontested ==
    \A b \in Bundles : RootOf[b] \notin Specs =>
        /\ RootOf[b] \notin Natives
        /\ Mounted[RootOf[b]] \in {None, b}
        /\ \A c \in Bundles : RootOf[b] \notin ExtensionsOf[c]

\* A root that is cached came from the bundle that is mounted there, which is the one that was
\* loaded there when one was.
RootsAgree ==
    \A b \in Bundles : RootOf[b] \notin Specs =>
        LET n == RootOf[b] IN
        /\ IF loaded[n] = None THEN sources[n] = Mounted[n] ELSE sources[n] = loaded[n]
        /\ realised[n] # None => realised[n] = sources[n]
        /\ n \notin extensions

\* An import that was begun for a load imports the root its bundle was loaded at.
LoadsAreLoaded ==
    \A i \in 1..Len(imports) : imports[i].load # None =>
        /\ imports[i].name = RootOf[imports[i].load]
        /\ RootOf[imports[i].load] \notin Specs
        /\ loaded[RootOf[imports[i].load]] = imports[i].load

\* The imports under way go on, one may be begun, and none changes what it is for.
LEMMA StackSteps ==
    ASSUME TypeOK, [Next]_vars
    PROVE  \/ /\ Len(imports') \in {Len(imports), Len(imports) - 1}
              /\ \A i \in 1..Len(imports') :
                     imports'[i].name = imports[i].name /\ imports'[i].load = imports[i].load
           \/ \E n \in Names : ImportName(n)
           \/ \E b \in Bundles : Load(b)
<1> DEFINE Same == /\ Len(imports') \in {Len(imports), Len(imports) - 1}
                   /\ \A i \in 1..Len(imports') :
                          imports'[i].name = imports[i].name /\ imports'[i].load = imports[i].load
<1>1. ASSUME imports # <<>>, imports' = Front(imports)
      PROVE  Same
  <2>1. /\ Len(imports') = Len(imports) - 1
        /\ \A i \in 1..(Len(imports) - 1) : imports'[i] = imports[i]
    BY <1>1, PopFacts
  <2> QED BY <2>1
<1>2. ASSUME NEW r \in Import, imports # <<>>, r.name = Top.name, r.load = Top.load,
             imports' = [imports EXCEPT ![Len(imports)] = r]
      PROVE  Same
  <2> DEFINE m == Len(imports)
  <2>1. m \in Nat \ {0} /\ Top = imports[m]
    BY <1>2, TopFacts
  <2>2. /\ Len(imports') = m /\ imports'[m] = r
        /\ \A i \in 1..(m - 1) : imports'[i] = imports[i]
    BY <1>2, GoFacts
  <2> HIDE DEF m
  <2>3. ASSUME NEW i \in 1..m
        PROVE  imports'[i].name = imports[i].name /\ imports'[i].load = imports[i].load
    <3>1. CASE i = m
      BY <1>2, <2>1, <2>2, <3>1
    <3>2. CASE i # m
      BY <2>1, <2>2, <3>2
    <3> QED BY <3>1, <3>2
  <2> QED BY <2>2, <2>3 DEF m
<1>3. ASSUME NEW n \in Names, imports # <<>>, Bind(n)
      PROVE  Same
  <2> DEFINE r == [Top EXCEPT !.at = @ + 1, !.runs = FALSE]
  <2>1. Top \in Import
    BY <1>3, TopFacts
  <2>2. r \in Import /\ r.name = Top.name /\ r.load = Top.load
    BY <2>1, NextFacts DEF Import
  <2>3. imports' = [imports EXCEPT ![Len(imports)] = r]
    BY <1>3 DEF Bind
  <2> HIDE DEF r
  <2> QED BY <1>2, <1>3, <2>2, <2>3
<1>4. ASSUME NEW n \in Names, RunBody(n)
      PROVE  Same
  <2> DEFINE r == [Top EXCEPT !.runs = TRUE]
  <2>1. imports # <<>> /\ Top \in Import
    BY <1>4, TopFacts DEF RunBody, Realises
  <2>2. r \in Import /\ r.name = Top.name /\ r.load = Top.load
    BY <2>1, RunsFacts DEF Import
  <2>3. imports' = [imports EXCEPT ![Len(imports)] = r]
    BY <1>4 DEF RunBody, Top
  <2> HIDE DEF r
  <2> QED BY <1>2, <2>1, <2>2, <2>3
<1>5. ASSUME NEW n \in Names, UseCached(n) \/ Declare(n) PROVE Same
  BY <1>3, <1>5 DEF UseCached, Declare, Realises
<1>6. ASSUME NEW n \in Names, NotRealised(n) PROVE Same
  BY <1>1, <1>6 DEF NotRealised, Realises, GiveUp
<1>7. CASE BodyEnds
  <2>1. imports # <<>> /\ imports' = [imports EXCEPT ![Len(imports)] =
                                       [Top EXCEPT !.at = @ + 1, !.runs = FALSE]]
    BY <1>7 DEF BodyEnds, Bind
  <2> DEFINE r == [Top EXCEPT !.at = @ + 1, !.runs = FALSE]
  <2>2. r \in Import /\ r.name = Top.name /\ r.load = Top.load
    BY <2>1, TopFacts, NextFacts DEF Import
  <2> HIDE DEF r
  <2> QED BY <1>2, <2>1, <2>2 DEF r
<1>8. CASE BodyFails \/ Deliver
  BY <1>1, <1>8 DEF BodyFails, Deliver, GiveUp
<1>9. CASE UNCHANGED vars
  BY <1>9 DEF vars
<1> QED BY <1>4, <1>5, <1>6, <1>7, <1>8, <1>9 DEF Next

LInv == IInv /\ RootsAgree /\ LoadsAreLoaded

\* Bundles that define one another's roots have the same root.
LEMMA RootFacts ==
    ASSUME NEW b \in Bundles
    PROVE  /\ RootOf[b] \in Names
           /\ PrefixesOf[RootOf[b]][1] = RootOf[b]
           /\ \A c \in Bundles : RootOf[b] \in NamesOf[c] => RootOf[c] = RootOf[b]
BY ImportsAssumption

LEMMA InitLoads ==
    ASSUME Uncontested, Init
    PROVE  RootsAgree /\ LoadsAreLoaded
<1>1. Len(imports) = 0
  BY DEF Init
<1>2. ASSUME NEW b \in Bundles, RootOf[b] \notin Specs
      PROVE  RootOf[b] \notin extensions
  <2>1. \A x \in Names : Mounted[x] # None => Mounted[x] \in Bundles
    BY ImportsAssumption
  <2> QED BY <1>2, <2>1 DEF Init, Uncontested
<1> QED BY <1>1, <1>2, RootFacts DEF Init, RootsAgree, LoadsAreLoaded

LEMMA LoadKeepsRoots ==
    ASSUME Uncontested, LInv, NEW a \in Bundles, Load(a)
    PROVE  RootsAgree'
<1>1. /\ TypeOK /\ ~Occupied(a) /\ UNCHANGED realised
      /\ IF loaded[RootOf[a]] = a
         THEN UNCHANGED <<sources, extensions, loaded>>
         ELSE /\ sources' = [n \in Names |-> IF n \in NamesOf[a] THEN a ELSE sources[n]]
              /\ extensions' = extensions \union ExtensionsOf[a]
              /\ loaded' = [loaded EXCEPT ![RootOf[a]] = a]
  BY DEF LInv, IInv, Load
<1>2. RootOf[a] \in Names /\ RootOf[a] \in NamesOf[a] /\ a # None
  BY ImportsAssumption DEF Origins
<1>3. RootOf[a] \notin Specs /\ loaded[RootOf[a]] \in {None, a}
  BY <1>1 DEF Occupied
<1>4. CASE loaded[RootOf[a]] = a
  BY <1>1, <1>4 DEF LInv, RootsAgree
<1>5. CASE loaded[RootOf[a]] # a
  <2>1. /\ sources' = [n \in Names |-> IF n \in NamesOf[a] THEN a ELSE sources[n]]
        /\ extensions' = extensions \union ExtensionsOf[a]
        /\ loaded' = [loaded EXCEPT ![RootOf[a]] = a]
        /\ loaded[RootOf[a]] = None
    BY <1>1, <1>3, <1>5
  <2>2. ASSUME NEW b \in Bundles, RootOf[b] \notin Specs
        PROVE  LET n == RootOf[b] IN
               /\ IF loaded'[n] = None THEN sources'[n] = Mounted[n] ELSE sources'[n] = loaded'[n]
               /\ realised'[n] # None => realised'[n] = sources'[n]
               /\ n \notin extensions'
    <3> DEFINE n == RootOf[b]
    <3>1. /\ IF loaded[n] = None THEN sources[n] = Mounted[n] ELSE sources[n] = loaded[n]
          /\ realised[n] # None => realised[n] = sources[n]
          /\ n \notin extensions
      BY <2>2 DEF LInv, RootsAgree
    <3>2. n \in Names /\ (n \in NamesOf[a] => RootOf[a] = n)
      BY RootFacts
    <3>3. n \notin extensions'
      BY <2>1, <2>2, <3>1 DEF Uncontested
    <3>4. CASE n = RootOf[a]
      <4>1. sources'[n] = a /\ loaded'[n] = a
        BY <1>1, <1>2, <2>1, <3>2, <3>4 DEF TypeOK
      <4>2. sources[n] \in {None, a}
        BY <1>3, <2>1, <3>1, <3>4 DEF Uncontested
      <4> QED BY <1>1, <1>2, <3>1, <3>3, <4>1, <4>2
    <3>5. CASE n # RootOf[a]
      <4>1. sources'[n] = sources[n] /\ loaded'[n] = loaded[n]
        BY <1>1, <2>1, <3>2, <3>5 DEF TypeOK
      <4> QED BY <1>1, <3>1, <3>3, <4>1
    <3> QED BY <3>4, <3>5
  <2> QED BY <2>2 DEF RootsAgree
<1> QED BY <1>4, <1>5

LEMMA StepLoads ==
    ASSUME Uncontested, LInv, [Next]_vars
    PROVE  RootsAgree' /\ LoadsAreLoaded'
<1>1. TypeOK /\ RootsAgree /\ LoadsAreLoaded /\ Len(imports) \in Nat
  BY Domain DEF LInv, IInv
<1>2. CASE \E a \in Bundles : Load(a)
  <2>1. PICK a \in Bundles : Load(a)
    BY <1>2
  <2> DEFINE r == [name |-> RootOf[a], at |-> 1, runs |-> FALSE, load |-> a]
  <2>2. r \in Import /\ r.name = RootOf[a] /\ r.load = a
    BY ImportsAssumption DEF Import
  <2>3. imports' = Append(imports, r) /\ ~Occupied(a)
    BY <2>1 DEF Load, Begin
  <2>4. /\ a # None /\ RootOf[a] \in Names /\ RootOf[a] \notin Specs
        /\ loaded[RootOf[a]] \in {None, a}
    BY <2>3, ImportsAssumption DEF Origins, Occupied
  <2>5. loaded' = [loaded EXCEPT ![RootOf[a]] = a]
    BY <1>1, <2>1, <2>4 DEF Load, TypeOK
  <2>6. /\ loaded'[RootOf[a]] = a
        /\ \A b \in Bundles : loaded[RootOf[b]] = b => loaded'[RootOf[b]] = b
    <3>1. None \notin Bundles
      BY ImportsAssumption DEF Origins
    <3>2. \A n \in Names : loaded'[n] = IF n = RootOf[a] THEN a ELSE loaded[n]
      BY <1>1, <2>5 DEF TypeOK
    <3>3. ASSUME NEW b \in Bundles, loaded[RootOf[b]] = b PROVE loaded'[RootOf[b]] = b
      <4>1. CASE RootOf[b] = RootOf[a]
        BY <2>4, <3>1, <3>2, <3>3, <4>1
      <4>2. CASE RootOf[b] # RootOf[a]
        BY <3>2, <3>3, <4>2, RootFacts
      <4> QED BY <4>1, <4>2
    <3> QED BY <2>4, <3>2, <3>3
  <2> HIDE DEF r
  <2>7. /\ Len(imports') = Len(imports) + 1
        /\ \A i \in 1..Len(imports) : imports'[i] = imports[i]
        /\ imports'[Len(imports) + 1] = r
    BY <1>1, <2>2, <2>3, PushFacts
  <2>8. \A i \in 1..Len(imports) : imports[i].load \in Bundles \union {None}
    <3>1. \A i \in 1..Len(imports) : imports[i] \in Import
      BY <1>1, ElementOfSeq DEF TypeOK
    <3> QED BY <3>1 DEF Import
  <2>9. ASSUME NEW i \in 1..Len(imports'), imports'[i].load # None
        PROVE  /\ imports'[i].name = RootOf[imports'[i].load]
               /\ RootOf[imports'[i].load] \notin Specs
               /\ loaded'[RootOf[imports'[i].load]] = imports'[i].load
    <3>1. CASE i = Len(imports) + 1
      BY <2>2, <2>4, <2>6, <2>7, <3>1
    <3>2. CASE i # Len(imports) + 1
      <4>1. i \in 1..Len(imports) /\ imports'[i] = imports[i]
        BY <1>1, <2>7, <3>2
      <4> QED BY <1>1, <2>6, <2>8, <2>9, <4>1 DEF LoadsAreLoaded
    <3> QED BY <3>1, <3>2
  <2> QED BY <2>1, <2>9, LoadKeepsRoots DEF LoadsAreLoaded
<1>3. CASE \E n \in Names : ImportName(n)
  <2>1. PICK n \in Names : ImportName(n)
    BY <1>3
  <2> DEFINE r == [name |-> n, at |-> 1, runs |-> FALSE, load |-> None]
  <2>2. r \in Import /\ r.load = None
    BY DEF Import
  <2>3. imports' = Append(imports, r) /\ UNCHANGED <<sources, extensions, loaded, realised>>
    BY <2>1 DEF ImportName, Begin
  <2> HIDE DEF r
  <2>4. /\ Len(imports') = Len(imports) + 1
        /\ \A i \in 1..Len(imports) : imports'[i] = imports[i]
        /\ imports'[Len(imports) + 1] = r
    BY <1>1, <2>2, <2>3, PushFacts
  <2>5. ASSUME NEW i \in 1..Len(imports'), imports'[i].load # None
        PROVE  i \in 1..Len(imports) /\ imports'[i] = imports[i]
    BY <1>1, <2>2, <2>4, <2>5
  <2>6. RootsAgree'
    BY <1>1, <2>3 DEF RootsAgree
  <2>7. LoadsAreLoaded'
    BY <1>1, <2>3, <2>5 DEF LoadsAreLoaded
  <2> QED BY <2>6, <2>7
<1>4. ASSUME ~\E a \in Bundles : Load(a), ~\E n \in Names : ImportName(n)
      PROVE  RootsAgree' /\ LoadsAreLoaded'
  <2>1. UNCHANGED <<sources, extensions, loaded>>
    BY <1>4 DEF Next, vars, UseCached, RunBody, Declare, NotRealised, BodyEnds, BodyFails, Deliver
  <2>2. LoadsAreLoaded'
    <3>1. /\ Len(imports') \in {Len(imports), Len(imports) - 1}
          /\ \A i \in 1..Len(imports') :
                 imports'[i].name = imports[i].name /\ imports'[i].load = imports[i].load
      BY <1>1, <1>4, StackSteps
    <3>2. \A i \in 1..Len(imports') : i \in 1..Len(imports)
      BY <1>1, <3>1
    <3> QED BY <1>1, <2>1, <3>1, <3>2 DEF LoadsAreLoaded
  \* a root is realised from what is mounted there, or not at all
  <2>3. ASSUME NEW b \in Bundles, RootOf[b] \notin Specs, realised'[RootOf[b]] # None
        PROVE  realised'[RootOf[b]] = sources[RootOf[b]]
    <3>1. RootOf[b] \in Names /\ RootOf[b] \notin Natives /\ RootOf[b] \notin extensions
      BY <1>1, <2>3, RootFacts DEF Uncontested, RootsAgree
    <3>2. realised[RootOf[b]] # None => realised[RootOf[b]] = sources[RootOf[b]]
      BY <1>1, <2>3 DEF RootsAgree
    <3>3. ASSUME NEW n \in Names, RunBody(n) PROVE realised'[RootOf[b]] = sources[RootOf[b]]
      BY <1>1, <2>3, <3>1, <3>2, <3>3 DEF RunBody, Defined, TypeOK
    <3>4. ASSUME NEW n \in Names, Declare(n) PROVE realised'[RootOf[b]] = sources[RootOf[b]]
      BY <1>1, <2>3, <3>1, <3>2, <3>4 DEF Declare, Declared, Defined, TypeOK
    <3>5. CASE BodyFails
      <4>1. realised'[RootOf[b]] \in {None, realised[RootOf[b]]}
        BY <1>1, <3>1, <3>5 DEF BodyFails, TypeOK
      <4> QED BY <2>3, <3>2, <4>1
    <3>6. \/ \E n \in Names : RunBody(n) \/ Declare(n)
          \/ BodyFails
          \/ UNCHANGED realised
      BY <1>4 DEF Next, vars, UseCached, NotRealised, BodyEnds, Deliver
    <3> QED BY <2>3, <3>2, <3>3, <3>4, <3>5, <3>6
  <2> QED BY <1>1, <2>1, <2>2, <2>3 DEF RootsAgree
<1> QED BY <1>2, <1>3, <1>4

\* Where nothing else defines a bundle's root, Guest::load returns the root of the bundle it was
\* given, whatever is loaded, imported and failed by the bodies that run before it is there
\* (imports/bindings.rs, BindingTable::mount).
THEOREM LoadIsFaithful ==
    ASSUME Uncontested
    PROVE  Spec => []LoadGivesBundle
<1>1. Init => LInv
  BY Uncontested, InitFits, InitLoads DEF LInv
<1>2. LInv /\ [Next]_vars => LInv'
  BY Uncontested, StepKeeps, StepLoads DEF LInv
<1>3. ASSUME LInv PROVE LoadGivesBundle
  <2> SUFFICES ASSUME imports # <<>>, Finished, Top.load # None
               PROVE  realised[RootOf[Top.load]] = Top.load
    BY DEF LoadGivesBundle
  <2>1. /\ TypeOK /\ Len(imports) \in 1..Len(imports) /\ Top = imports[Len(imports)]
        /\ Top.name \in Names /\ Top.at \in Nat \ {0} /\ Top.load \in Bundles
        /\ DOMAIN imports = 1..Len(imports)
    BY <1>3, TopFacts, Domain DEF LInv, IInv, Import
  <2>2. Top.name = RootOf[Top.load] /\ RootOf[Top.load] \notin Specs
        /\ loaded[RootOf[Top.load]] = Top.load
    BY <1>3, <2>1 DEF LInv, LoadsAreLoaded
  <2>3. 1 \in 1..(Top.at - 1)
    BY <2>1, PrefixFacts DEF Finished
  <2>4. realised[RootOf[Top.load]] # None
    BY <1>3, <2>1, <2>2, <2>3, RootFacts DEF LInv, IInv, ParentsCached
  <2>5. Top.load # None
    BY ImportsAssumption
  <2> QED BY <1>3, <2>1, <2>2, <2>4, <2>5 DEF LInv, RootsAgree
<1> QED BY <1>1, <1>2, <1>3, PTL DEF Spec
=============================================================================
