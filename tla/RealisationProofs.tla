-------------------------- MODULE RealisationProofs --------------------------
(***************************************************************************)
(* Theorems about Realisation, for any guests and any hierarchy of         *)
(* classes; where they say so, as long as the code that runs while a class *)
(* is realised does not need that class.                                   *)
(*                                                                         *)
(* The argument is that no class being realised inherits from one that is  *)
(* under way below it, so that what is published is always new: its object *)
(* takes nothing's place, and the bases that others took stay what they    *)
(* were.                                                                   *)
(* That classes are whole needs no such bound: a static member is only set *)
(* on an object that lacks one, and nobody was given such an object.       *)
(***************************************************************************)
EXTENDS Realisation, SequenceTheorems, TLAPS

IsSeq(s) == s \in Seq({s[i] : i \in DOMAIN s})

\* A frame by itself.
Fine(f) ==
    /\ f = [guest |-> f.guest, class |-> f.class, of |-> f.of, use |-> f.use,
            bases |-> f.bases, nth |-> f.nth]
    /\ f.guest \in Guests /\ f.class \in Classes /\ f.nth \in Nat
    /\ IsSeq(f.bases)
    /\ Len(f.bases) <= Len(HostBases[f.class])
    /\ Made(f) => Len(f.bases) = Len(HostBases[f.class])

\* Its bases are those that are realised in r.
Based(f, r) ==
    \A k \in 1..Len(f.bases) :
        r[HostBases[f.class][k]] # NoClass /\ f.bases[k] = r[HostBases[f.class][k]]

\* Frame f waits for g.
Waits(f, g) == Len(f.bases) < Len(HostBases[f.class]) /\ NextBase(f) = g.class

\* The frames on s when the classes in r are realised.
Frames(s, r) ==
    /\ IsSeq(s)
    /\ \A i \in 1..Len(s) : Fine(s[i]) /\ Based(s[i], r) /\ r[s[i].class] = NoClass
    /\ \A i, j \in 1..Len(s) : i < j => s[i].class \notin Lineage(s[j].class)
    /\ \A i \in 1..Len(s) : s[i].use = "base" => i > 1 /\ Waits(s[i - 1], s[i])

\* The bases of a class that is realised are realised too.
RealBases ==
    \A c \in Classes : realised[c] # NoClass =>
        \A i \in DOMAIN HostBases[c] :
            /\ realised[HostBases[c][i]] # NoClass
            /\ realised[c].bases[i] = realised[HostBases[c][i]]

GivenIsRealised ==
    \A g \in Guests, c \in Classes : given[g][c] # NoClass => given[g][c] = realised[c]

IInv ==
    /\ DOMAIN realised = Classes
    /\ DOMAIN given = Guests /\ \A g \in Guests : DOMAIN given[g] = Classes
    /\ Frames(making, realised)
    /\ RealBases /\ GivenIsRealised /\ LineageRegistered

-----------------------------------------------------------------------------
(* Sequences of anything.                                                  *)

LEMMA SelfSeq ==
    ASSUME NEW S, NEW s \in Seq(S)
    PROVE  IsSeq(s) /\ Len(s) \in Nat /\ DOMAIN s = 1..Len(s)
<1>1. Len(s) \in Nat /\ DOMAIN s = 1..Len(s) /\ s \in [1..Len(s) -> S]
  BY LenProperties
<1>2. s \in [1..Len(s) -> {s[i] : i \in DOMAIN s}]
  BY <1>1
<1> QED BY <1>1, <1>2, SeqDef DEF IsSeq

LEMMA SelfAppend ==
    ASSUME NEW s, IsSeq(s), NEW e
    PROVE  /\ IsSeq(Append(s, e)) /\ Len(s) \in Nat /\ DOMAIN s = 1..Len(s)
           /\ Len(Append(s, e)) = Len(s) + 1
           /\ \A i \in 1..Len(s) : Append(s, e)[i] = s[i]
           /\ Append(s, e)[Len(s) + 1] = e
<1> DEFINE S == {s[i] : i \in DOMAIN s} \union {e}
<1>1. s \in Seq(S) /\ e \in S
  BY SeqMonotonic DEF IsSeq
<1> HIDE DEF S
<1>2. /\ Append(s, e) \in Seq(S)
      /\ Len(Append(s, e)) = Len(s) + 1
      /\ \A i \in 1..Len(s) : Append(s, e)[i] = s[i]
      /\ Append(s, e)[Len(s) + 1] = e
  BY <1>1, AppendProperties
<1> QED BY <1>1, <1>2, SelfSeq

LEMMA SelfSub ==
    ASSUME NEW s, IsSeq(s), NEW n \in 0..Len(s)
    PROVE  /\ IsSeq(SubSeq(s, 1, n))
           /\ Len(SubSeq(s, 1, n)) = n
           /\ \A i \in 1..n : SubSeq(s, 1, n)[i] = s[i]
<1> DEFINE S == {s[i] : i \in DOMAIN s}
<1>1. s \in Seq(S)
  BY DEF IsSeq
<1>2. Len(s) \in Nat /\ DOMAIN s = 1..Len(s)
  BY <1>1, SelfSeq
<1>3. 1 \in Int /\ n \in Int /\ \A i \in 1..n : s[i] \in S
  BY <1>2
<1> HIDE DEF S
<1>4. /\ SubSeq(s, 1, n) \in Seq(S)
      /\ Len(SubSeq(s, 1, n)) = IF 1 <= n THEN n - 1 + 1 ELSE 0
      /\ \A i \in 1..(n - 1 + 1) : SubSeq(s, 1, n)[i] = s[1 + i - 1]
  BY <1>3, SubSeqProperties
<1>5. Len(SubSeq(s, 1, n)) = n
  BY <1>2, <1>4
<1>6. ASSUME NEW i \in 1..n
      PROVE  SubSeq(s, 1, n)[i] = s[i]
  <2>1. i \in 1..(n - 1 + 1) /\ 1 + i - 1 = i
    BY <1>3
  <2>2. SubSeq(s, 1, n)[i] = s[1 + i - 1]
    BY <1>4, <2>1
  <2> QED BY <2>1, <2>2
<1> QED BY <1>4, <1>5, <1>6, SelfSeq

LEMMA SelfExcept ==
    ASSUME NEW s, IsSeq(s), NEW n \in 1..Len(s), NEW e
    PROVE  /\ IsSeq([s EXCEPT ![n] = e])
           /\ Len([s EXCEPT ![n] = e]) = Len(s)
           /\ \A i \in 1..Len(s) : [s EXCEPT ![n] = e][i] = IF i = n THEN e ELSE s[i]
<1> DEFINE S == {s[i] : i \in DOMAIN s} \union {e}
<1>1. s \in Seq(S) /\ e \in S
  BY SeqMonotonic DEF IsSeq
<1> HIDE DEF S
<1>2. /\ [s EXCEPT ![n] = e] \in Seq(S)
      /\ Len([s EXCEPT ![n] = e]) = Len(s)
      /\ \A i \in 1..Len(s) : [s EXCEPT ![n] = e][i] = IF i = n THEN e ELSE s[i]
  BY <1>1, ExceptSeq
<1> QED BY <1>2, SelfSeq

-----------------------------------------------------------------------------
(* What a class inherits from.                                             *)

LEMMA LineageFacts ==
    ASSUME NEW c \in Classes
    PROVE  /\ c \in Lineage(c) /\ Lineage(c) \subseteq Classes
           /\ \A b \in Lineage(c) : Lineage(b) \subseteq Lineage(c)
           /\ \A i \in 1..Len(HostBases[c]) :
                  HostBases[c][i] \in Lineage(c) /\ HostBases[c][i] \in Classes
           /\ Len(HostBases[c]) \in Nat /\ DOMAIN HostBases[c] = 1..Len(HostBases[c])
<1> DEFINE Closed(S) == \A b \in S : \A i \in DOMAIN HostBases[b] : HostBases[b][i] \in S
<1>1. \A x \in Classes :
          Lineage(x) = {d \in Classes : \A S \in SUBSET Classes : x \in S /\ Closed(S) => d \in S}
  BY DEF Lineage, LineageOf
<1>2. HostBases[c] \in Seq(Classes)
  BY RealisationAssumption
<1>3. /\ Len(HostBases[c]) \in Nat /\ DOMAIN HostBases[c] = 1..Len(HostBases[c])
      /\ \A i \in 1..Len(HostBases[c]) : HostBases[c][i] \in Classes
  BY <1>2, LenProperties, ElementOfSeq
<1>4. c \in Lineage(c) /\ Lineage(c) \subseteq Classes
  BY <1>1
<1>5. \A b \in Lineage(c) : Lineage(b) \subseteq Lineage(c)
  BY <1>1
<1>6. ASSUME NEW i \in 1..Len(HostBases[c])
      PROVE  HostBases[c][i] \in Lineage(c)
  <2> SUFFICES ASSUME NEW S \in SUBSET Classes, c \in S, Closed(S)
               PROVE  HostBases[c][i] \in S
    BY <1>1, <1>3
  <2> QED BY <1>3
<1> QED BY <1>3, <1>4, <1>5, <1>6

LEMMA BaseIsOther ==
    ASSUME NEW c \in Classes, NEW i \in 1..Len(HostBases[c])
    PROVE  c \notin Lineage(HostBases[c][i])
BY LineageFacts, RealisationAssumption

-----------------------------------------------------------------------------
(* Frames and class objects by themselves.                                 *)

LEMMA ObjectFacts ==
    ASSUME NEW f
    PROVE  /\ Object(f).class = f.class /\ Object(f).bases = f.bases
           /\ Object(f).nth = f.nth
           /\ Made(f) => Object(f) # NoClass
<1>1. Object(f).nth = f.nth /\ NoClass.nth = 0
  BY DEF Object, NoClass
<1>2. Object(f).class = f.class /\ Object(f).bases = f.bases
  BY Zenon DEF Object
<1> QED BY <1>1, <1>2 DEF Made

LEMMA FreshFrame ==
    ASSUME NEW g \in Guests, NEW c \in Classes, NEW m, NEW use, NEW r
    PROVE  /\ Fine(Frame(g, c, m, use)) /\ Based(Frame(g, c, m, use), r)
           /\ Frame(g, c, m, use).class = c /\ Frame(g, c, m, use).use = use
<1> DEFINE f == Frame(g, c, m, use)
<1>1. /\ f.guest = g /\ f.class = c /\ f.of = m /\ f.use = use
      /\ f.bases = <<>> /\ f.nth = 0
      /\ f = [guest |-> f.guest, class |-> f.class, of |-> f.of, use |-> f.use,
              bases |-> f.bases, nth |-> f.nth]
  BY DEF Frame
<1> HIDE DEF f
<1>2. IsSeq(f.bases) /\ Len(f.bases) = 0
  BY <1>1, EmptySeq DEF IsSeq
<1>3. Len(HostBases[c]) \in Nat
  BY LineageFacts
<1>4. Fine(f)
  BY <1>1, <1>2, <1>3 DEF Fine, Made
<1>5. Based(f, r)
  BY <1>2 DEF Based
<1> QED BY <1>1, <1>4, <1>5 DEF f

LEMMA GrownFrame ==
    ASSUME NEW f, Fine(f), NEW r, Based(f, r),
           Len(f.bases) < Len(HostBases[f.class]), r[NextBase(f)] # NoClass
    PROVE  LET g == WithBase(f, r[NextBase(f)])
           IN  Fine(g) /\ Based(g, r) /\ g.class = f.class /\ g.use = f.use
<1> DEFINE o == r[NextBase(f)]
           b == Append(f.bases, o)
           g == WithBase(f, o)
<1>1. g = [guest |-> f.guest, class |-> f.class, of |-> f.of, use |-> f.use,
           bases |-> b, nth |-> f.nth]
  <2>1. g = [f EXCEPT !.bases = b]
    BY DEF WithBase
  <2> HIDE DEF g, b
  <2> QED BY <2>1 DEF Fine
<1>2. /\ g.guest = f.guest /\ g.class = f.class /\ g.of = f.of /\ g.use = f.use
      /\ g.bases = b /\ g.nth = f.nth
  BY <1>1
<1>3. /\ IsSeq(b) /\ Len(f.bases) \in Nat
      /\ Len(b) = Len(f.bases) + 1
      /\ \A k \in 1..Len(f.bases) : b[k] = f.bases[k]
      /\ b[Len(f.bases) + 1] = o
  BY SelfAppend DEF Fine
<1>4. Len(HostBases[f.class]) \in Nat
  BY LineageFacts DEF Fine
<1> HIDE DEF g, b
<1>5. Fine(g)
  <2>1. g = [guest |-> g.guest, class |-> g.class, of |-> g.of, use |-> g.use,
             bases |-> g.bases, nth |-> g.nth]
    BY <1>1, <1>2
  <2>2. ~Made(f) /\ ~Made(g)
    BY <1>2 DEF Fine, Made
  <2>3. Len(g.bases) <= Len(HostBases[g.class])
    BY <1>2, <1>3, <1>4
  <2> QED BY <1>2, <1>3, <2>1, <2>2, <2>3 DEF Fine
<1>6. Based(g, r)
  <2> SUFFICES ASSUME NEW k \in 1..(Len(f.bases) + 1)
               PROVE  r[HostBases[f.class][k]] # NoClass /\ b[k] = r[HostBases[f.class][k]]
    BY <1>2, <1>3 DEF Based
  <2>1. CASE k \in 1..Len(f.bases)
    BY <1>3, <2>1 DEF Based
  <2>2. CASE k = Len(f.bases) + 1
    BY <1>3, <2>2 DEF NextBase
  <2> QED BY <1>3, <2>1, <2>2
<1> QED BY <1>2, <1>5, <1>6 DEF g

LEMMA CreatedFrame ==
    ASSUME NEW f, Fine(f), NEW r, Based(f, r),
           Len(f.bases) = Len(HostBases[f.class]), NEW n \in Nat
    PROVE  LET g == [f EXCEPT !.nth = n]
           IN  Fine(g) /\ Based(g, r) /\ g.class = f.class /\ g.use = f.use
<1> DEFINE g == [f EXCEPT !.nth = n]
<1>1. g = [guest |-> f.guest, class |-> f.class, of |-> f.of, use |-> f.use,
           bases |-> f.bases, nth |-> n]
  BY DEF Fine
<1>2. /\ g.guest = f.guest /\ g.class = f.class /\ g.of = f.of /\ g.use = f.use
      /\ g.bases = f.bases /\ g.nth = n
  BY <1>1
<1> HIDE DEF g
<1>3. Fine(g)
  <2>1. g = [guest |-> g.guest, class |-> g.class, of |-> g.of, use |-> g.use,
             bases |-> g.bases, nth |-> g.nth]
    BY <1>1, <1>2
  <2> QED BY <1>2, <2>1 DEF Fine
<1>4. Based(g, r)
  BY <1>2 DEF Based
<1> QED BY <1>2, <1>3, <1>4 DEF g

-----------------------------------------------------------------------------
(* Stacks of frames.                                                       *)

LEMMA FramesFacts ==
    ASSUME NEW s, NEW r, Frames(s, r)
    PROVE  /\ IsSeq(s) /\ Len(s) \in Nat /\ DOMAIN s = 1..Len(s)
           /\ \A i \in 1..Len(s) :
                  /\ Fine(s[i]) /\ Based(s[i], r) /\ r[s[i].class] = NoClass
                  /\ s[i].class \in Classes /\ s[i].guest \in Guests
<1>1. IsSeq(s)
  BY DEF Frames
<1>2. Len(s) \in Nat /\ DOMAIN s = 1..Len(s)
  BY <1>1, SelfSeq DEF IsSeq
<1> QED BY <1>1, <1>2 DEF Frames, Fine

LEMMA SubFrames ==
    ASSUME NEW s, NEW r, Frames(s, r), NEW n \in 0..Len(s)
    PROVE  Frames(SubSeq(s, 1, n), r)
<1> DEFINE t == SubSeq(s, 1, n)
<1>1. IsSeq(t) /\ Len(t) = n /\ \A i \in 1..n : t[i] = s[i]
  BY FramesFacts, SelfSub
<1>2. Len(s) \in Nat /\ n \in Nat /\ n <= Len(s)
  BY FramesFacts
<1> HIDE DEF t
<1>3. \A i \in 1..n : i \in 1..Len(s) /\ t[i] = s[i]
  BY <1>1, <1>2
<1>4. \A i \in 1..n : Fine(t[i]) /\ Based(t[i], r) /\ r[t[i].class] = NoClass
  BY <1>3 DEF Frames
<1>5. \A i, j \in 1..n : i < j => t[i].class \notin Lineage(t[j].class)
  BY <1>3 DEF Frames
<1>6. ASSUME NEW i \in 1..n, t[i].use = "base"
      PROVE  i > 1 /\ Waits(t[i - 1], t[i])
  <2>1. i > 1 /\ Waits(s[i - 1], s[i])
    BY <1>3, <1>6 DEF Frames
  <2>2. i - 1 \in 1..n
    BY <1>2, <2>1
  <2> QED BY <1>3, <2>1, <2>2
<1> QED BY <1>1, <1>4, <1>5, <1>6 DEF Frames, t

LEMMA TopFrames ==
    ASSUME NEW s, NEW r, Frames(s, r), Len(s) >= 1,
           NEW g, Fine(g), Based(g, r),
           g.class = s[Len(s)].class, g.use = s[Len(s)].use
    PROVE  Frames([s EXCEPT ![Len(s)] = g], r)
<1> DEFINE n == Len(s)
           t == [s EXCEPT ![n] = g]
<1>1. n \in Nat /\ n \in 1..n
  BY FramesFacts
<1>2. IsSeq(t) /\ Len(t) = n /\ \A i \in 1..n : t[i] = IF i = n THEN g ELSE s[i]
  BY <1>1, FramesFacts, SelfExcept
<1> HIDE DEF t
<1>3. \A i \in 1..n : t[i].class = s[i].class /\ t[i].use = s[i].use
  BY <1>2
<1>4. \A i \in 1..n : Fine(t[i]) /\ Based(t[i], r) /\ r[t[i].class] = NoClass
  BY <1>1, <1>2, <1>3 DEF Frames
<1>5. \A i, j \in 1..n : i < j => t[i].class \notin Lineage(t[j].class)
  BY <1>3 DEF Frames
<1>6. ASSUME NEW i \in 1..n, t[i].use = "base"
      PROVE  i > 1 /\ Waits(t[i - 1], t[i])
  <2>1. i > 1 /\ Waits(s[i - 1], s[i])
    BY <1>3, <1>6 DEF Frames
  <2>2. i - 1 \in 1..n /\ i - 1 # n
    BY <1>1, <2>1
  <2>3. t[i - 1] = s[i - 1]
    BY <1>2, <2>2
  <2>4. Waits(t[i - 1], t[i])
    BY <1>3, <2>1, <2>3 DEF Waits
  <2> QED BY <2>1, <2>4
<1> QED BY <1>2, <1>4, <1>5, <1>6 DEF Frames, t

LEMMA PushFrames ==
    ASSUME NEW s, NEW r, Frames(s, r),
           NEW f, Fine(f), Based(f, r), r[f.class] = NoClass,
           \A i \in 1..Len(s) : s[i].class \notin Lineage(f.class),
           f.use = "base" => Len(s) >= 1 /\ Waits(s[Len(s)], f)
    PROVE  Frames(Append(s, f), r)
<1> DEFINE n == Len(s)
           t == Append(s, f)
<1>1. n \in Nat
  BY FramesFacts
<1>2. IsSeq(t) /\ Len(t) = n + 1 /\ t[n + 1] = f /\ \A i \in 1..n : t[i] = s[i]
  BY FramesFacts, SelfAppend
<1> HIDE DEF t
<1>3. \A i \in 1..(n + 1) : i \in 1..n \/ i = n + 1
  BY <1>1
<1>4. \A i \in 1..(n + 1) : Fine(t[i]) /\ Based(t[i], r) /\ r[t[i].class] = NoClass
  BY <1>2, <1>3 DEF Frames
<1>5. ASSUME NEW i \in 1..(n + 1), NEW j \in 1..(n + 1), i < j
      PROVE  t[i].class \notin Lineage(t[j].class)
  <2>1. i \in 1..n
    BY <1>1, <1>5
  <2>2. CASE j \in 1..n
    BY <1>2, <1>5, <2>1, <2>2 DEF Frames
  <2>3. CASE j = n + 1
    BY <1>2, <2>1, <2>3
  <2> QED BY <1>3, <2>2, <2>3
<1>6. ASSUME NEW i \in 1..(n + 1), t[i].use = "base"
      PROVE  i > 1 /\ Waits(t[i - 1], t[i])
  <2>1. CASE i \in 1..n
    <3>1. t[i] = s[i]
      BY <1>2, <2>1
    <3>2. i > 1 /\ Waits(s[i - 1], s[i])
      BY <1>6, <2>1, <3>1 DEF Frames
    <3>3. i - 1 \in 1..n
      BY <1>1, <2>1, <3>2
    <3> QED BY <1>2, <3>1, <3>2, <3>3
  <2>2. CASE i = n + 1
    <3>1. n >= 1 /\ Waits(s[n], f)
      BY <1>2, <1>6, <2>2
    <3>2. i - 1 = n /\ n \in 1..n
      BY <1>1, <2>2, <3>1
    <3> QED BY <1>1, <1>2, <2>2, <3>1, <3>2
  <2> QED BY <1>3, <2>1, <2>2
<1> QED BY <1>2, <1>4, <1>5, <1>6 DEF Frames, t

LEMMA KeptFrames ==
    ASSUME NEW s, NEW r, Frames(s, r), DOMAIN r = Classes,
           NEW c \in Classes, r[c] = NoClass, NEW o, o # NoClass,
           \A i \in 1..Len(s) : s[i].class # c
    PROVE  Frames(s, [r EXCEPT ![c] = o])
<1> DEFINE q == [r EXCEPT ![c] = o]
<1>1. \A d \in Classes : q[d] = IF d = c THEN o ELSE r[d]
  OBVIOUS
<1> HIDE DEF q
<1>2. ASSUME NEW i \in 1..Len(s)
      PROVE  Fine(s[i]) /\ Based(s[i], q) /\ q[s[i].class] = NoClass
  <2>1. Fine(s[i]) /\ Based(s[i], r) /\ r[s[i].class] = NoClass /\ s[i].class \in Classes
    BY FramesFacts
  <2>2. q[s[i].class] = NoClass
    BY <1>1, <2>1
  <2>3. ASSUME NEW k \in 1..Len(s[i].bases)
        PROVE  /\ q[HostBases[s[i].class][k]] # NoClass
               /\ s[i].bases[k] = q[HostBases[s[i].class][k]]
    <3> DEFINE b == HostBases[s[i].class][k]
    <3>1. r[b] # NoClass /\ s[i].bases[k] = r[b]
      BY <2>1, <2>3 DEF Based
    <3>2. Len(s[i].bases) \in Nat
      BY <2>1, SelfSeq DEF Fine, IsSeq
    <3>3. Len(HostBases[s[i].class]) \in Nat /\ Len(s[i].bases) <= Len(HostBases[s[i].class])
      BY <2>1, LineageFacts DEF Fine
    <3>4. k \in 1..Len(HostBases[s[i].class])
      BY <3>2, <3>3
    <3>5. b \in Classes
      BY <2>1, <3>4, LineageFacts
    <3>6. b # c
      BY <3>1
    <3> HIDE DEF b
    <3>7. q[b] = r[b]
      BY <1>1, <3>5, <3>6
    <3>8. q[b] # NoClass /\ s[i].bases[k] = q[b]
      BY <3>1, <3>7
    <3> QED BY <3>8 DEF b
  <2> QED BY <2>1, <2>2, <2>3 DEF Based
<1> QED BY <1>2 DEF Frames, q

-----------------------------------------------------------------------------
(* The invariant.                                                          *)

LEMMA InvInit == Init => IInv
<1> SUFFICES ASSUME Init PROVE IInv
  OBVIOUS
<1>1. \A c \in Classes : realised[c] = NoClass
  BY DEF Init
<1>2. \A g \in Guests, c \in Classes : given[g][c] = NoClass
  BY DEF Init
<1>3. IsSeq(making) /\ Len(making) = 0
  BY EmptySeq DEF Init, IsSeq
<1>4. Frames(making, realised)
  BY <1>3 DEF Frames
<1>5. RealBases /\ GivenIsRealised
  BY <1>1, <1>2 DEF RealBases, GivenIsRealised
<1>6. LineageRegistered
  <2> SUFFICES ASSUME NEW c \in Classes, registered[c] # None, NEW b \in Lineage(c)
               PROVE  registered[b] # None
    BY DEF LineageRegistered
  <2>1. b \in Classes
    BY LineageFacts
  <2>2. PICK m \in Shared : Has(m, c)
    BY DEF Init
  <2>3. PICK d \in Declares[m] : c \in Lineage(d)
    BY <2>2 DEF Has
  <2>4. d \in Classes
    BY <2>2, RealisationAssumption
  <2>5. Has(m, b)
    BY <2>3, <2>4, LineageFacts DEF Has
  <2>6. registered[b] = CHOOSE n \in Shared : Has(n, b)
    BY <2>1, <2>2, <2>5 DEF Init
  <2>7. registered[b] \in Shared
    BY <2>2, <2>5, <2>6
  <2> QED BY <2>7, RealisationAssumption
<1>7. /\ DOMAIN realised = Classes
      /\ DOMAIN given = Guests /\ \A g \in Guests : DOMAIN given[g] = Classes
  BY DEF Init
<1> QED BY <1>4, <1>5, <1>6, <1>7 DEF IInv

\* Declarations absorbed with a guest's modules come with those of their lineage.
LEMMA AbsorbKeeps ==
    ASSUME LineageRegistered, NEW g \in Guests, registered' = Absorb(Own[g])
    PROVE  LineageRegistered'
<1> SUFFICES ASSUME NEW c \in Classes, registered'[c] # None, NEW b \in Lineage(c)
             PROVE  registered'[b] # None
  BY DEF LineageRegistered
<1> DEFINE ms == Own[g]
<1>1. b \in Classes
  BY LineageFacts
<1>2. \A d \in Classes : registered'[d] =
          IF registered[d] = None /\ \E m \in ms : Has(m, d)
          THEN CHOOSE m \in ms : Has(m, d) ELSE registered[d]
  BY DEF Absorb
<1>3. ms \subseteq Modules
  BY RealisationAssumption
<1> HIDE DEF ms
<1>4. ASSUME NEW m \in ms, Has(m, b)
      PROVE  registered'[b] # None
  <2>1. (CHOOSE n \in ms : Has(n, b)) \in ms
    BY <1>4
  <2>2. (CHOOSE n \in ms : Has(n, b)) # None
    BY <1>3, <2>1, RealisationAssumption
  <2> QED BY <1>1, <1>2, <1>4, <2>2
<1>5. CASE registered[c] # None
  <2>1. registered[b] # None
    BY <1>5 DEF LineageRegistered
  <2> QED BY <1>1, <1>2, <2>1
<1>6. CASE registered[c] = None
  <2>1. PICK m \in ms : Has(m, c)
    BY <1>2, <1>6
  <2>2. PICK d \in Declares[m] : c \in Lineage(d)
    BY <2>1 DEF Has
  <2>3. d \in Classes
    BY <1>3, <2>1, RealisationAssumption
  <2>4. Has(m, b)
    BY <2>2, <2>3, LineageFacts DEF Has
  <2> QED BY <1>4, <2>1, <2>4
<1> QED BY <1>5, <1>6

\* Nothing but the frames changes, or the classes guests have to what is realised.
LEMMA OnlyFrames ==
    ASSUME IInv, UNCHANGED <<registered, realised, given>>, Frames(making', realised)
    PROVE  IInv'
BY DEF IInv, RealBases, GivenIsRealised, LineageRegistered

LEMMA CachedKeeps ==
    ASSUME IInv, NEW g \in Guests, NEW c \in Classes, Cached(g, c)
    PROVE  IInv'
<1>1. given' = [given EXCEPT ![g] = [given[g] EXCEPT ![c] = realised[c]]]
  BY DEF Cached
<1>2. UNCHANGED <<registered, realised, making, statics>>
  BY DEF Cached
<1>3. DOMAIN given' = Guests /\ \A h \in Guests : DOMAIN given'[h] = Classes
  BY <1>1 DEF IInv
<1>4. GivenIsRealised'
  <2> SUFFICES ASSUME NEW h \in Guests, NEW d \in Classes, given'[h][d] # NoClass
               PROVE  given'[h][d] = realised[d]
    BY <1>2 DEF GivenIsRealised
  <2>1. CASE h = g /\ d = c
    BY <1>1, <2>1 DEF IInv
  <2>2. CASE ~(h = g /\ d = c)
    <3>1. given'[h][d] = given[h][d]
      BY <1>1, <2>2 DEF IInv
    <3> QED BY <3>1 DEF IInv, GivenIsRealised
  <2> QED BY <2>1, <2>2
<1> QED BY <1>2, <1>3, <1>4 DEF IInv, RealBases, LineageRegistered

LEMMA BeginKeeps ==
    ASSUME ~Reenters, IInv, NEW g \in Guests, NEW c \in Classes, NEW m, Begin(g, c, m)
    PROVE  IInv'
<1> DEFINE f == Frame(g, c, m, "code")
<1>1. /\ making' = Append(making, f) /\ realised[c] = NoClass
      /\ \A d \in Under : d \notin Lineage(c)
      /\ UNCHANGED <<registered, realised, statics, given>>
  BY DEF Begin
<1>2. Frames(making, realised)
  BY DEF IInv
<1>3. \A i \in 1..Len(making) : making[i].class \notin Lineage(c)
  BY <1>1, <1>2, FramesFacts DEF Under
<1>4. Fine(f) /\ Based(f, realised) /\ f.class = c /\ f.use = "code"
  BY FreshFrame
<1> HIDE DEF f
<1>5. Frames(Append(making, f), realised)
  BY <1>1, <1>2, <1>3, <1>4, PushFrames
<1> QED BY <1>1, <1>2, <1>5, OnlyFrames

\* What there is to know of the class being realised.
LEMMA TopFacts ==
    ASSUME IInv, making # <<>>
    PROVE  /\ Len(making) \in Nat /\ Len(making) >= 1 /\ Len(making) \in 1..Len(making)
           /\ Frames(making, realised)
           /\ Fine(Top) /\ Based(Top, realised) /\ realised[Top.class] = NoClass
           /\ Top.class \in Classes /\ Top.guest \in Guests
           /\ Len(Top.bases) \in Nat
<1>1. Frames(making, realised)
  BY DEF IInv
<1>2. Len(making) \in Nat /\ IsSeq(making)
  BY <1>1, FramesFacts
<1>3. Len(making) # 0
  BY <1>2, EmptySeq DEF IsSeq
<1>4. Len(making) >= 1 /\ Len(making) \in 1..Len(making)
  BY <1>2, <1>3
<1>5. /\ Fine(Top) /\ Based(Top, realised) /\ realised[Top.class] = NoClass
      /\ Top.class \in Classes /\ Top.guest \in Guests
  BY <1>1, <1>4, FramesFacts DEF Top
<1>6. Len(Top.bases) \in Nat
  BY <1>5, SelfSeq DEF Fine, IsSeq
<1> QED BY <1>1, <1>2, <1>4, <1>5, <1>6

LEMMA UseBaseKeeps ==
    ASSUME IInv, UseBase
    PROVE  IInv'
<1> DEFINE g == WithBase(Top, realised[NextBase(Top)])
<1>1. /\ making # <<>> /\ Len(Top.bases) < Len(HostBases[Top.class])
      /\ realised[NextBase(Top)] # NoClass
      /\ making' = [making EXCEPT ![Len(making)] = g]
      /\ UNCHANGED <<registered, realised, statics, given>>
  BY DEF UseBase
<1>2. Fine(g) /\ Based(g, realised) /\ g.class = Top.class /\ g.use = Top.use
  BY <1>1, TopFacts, GrownFrame
<1> HIDE DEF g
<1>3. Frames([making EXCEPT ![Len(making)] = g], realised)
  BY <1>1, <1>2, TopFacts, TopFrames DEF Top
<1> QED BY <1>1, <1>3, OnlyFrames DEF IInv

LEMMA RealiseBaseKeeps ==
    ASSUME IInv, RealiseBase
    PROVE  IInv'
<1> DEFINE b == NextBase(Top)
           f == Frame(Top.guest, b, Top.of, "base")
<1>1. /\ making # <<>> /\ Len(Top.bases) < Len(HostBases[Top.class])
      /\ realised[b] = NoClass
      /\ making' = Append(making, f)
      /\ UNCHANGED <<registered, realised, statics, given>>
  BY DEF RealiseBase
<1>2. /\ Frames(making, realised) /\ Top.class \in Classes /\ Top.guest \in Guests
      /\ Len(Top.bases) \in Nat /\ Len(making) >= 1 /\ Len(making) \in Nat
      /\ Len(making) \in 1..Len(making)
  BY <1>1, TopFacts
<1>3. Len(Top.bases) + 1 \in 1..Len(HostBases[Top.class])
  BY <1>1, <1>2, LineageFacts
<1>4. b \in Classes /\ b \in Lineage(Top.class) /\ Top.class \notin Lineage(b)
  BY <1>2, <1>3, LineageFacts, BaseIsOther DEF NextBase
<1>5. Lineage(b) \subseteq Lineage(Top.class)
  BY <1>2, <1>4, LineageFacts
<1>6. Fine(f) /\ Based(f, realised) /\ f.class = b /\ f.use = "base"
  BY <1>2, <1>4, FreshFrame
<1> HIDE DEF f
<1>7. Waits(making[Len(making)], f)
  BY <1>1, <1>6 DEF Waits, Top
<1> HIDE DEF b
<1>8. ASSUME NEW i \in 1..Len(making)
      PROVE  making[i].class \notin Lineage(b)
  <2>1. CASE i = Len(making)
    BY <1>4, <2>1 DEF Top
  <2>2. CASE i # Len(making)
    <3>1. i < Len(making)
      BY <1>2, <2>2
    <3>2. making[i].class \notin Lineage(Top.class)
      BY <1>2, <3>1 DEF Frames, Top
    <3> QED BY <1>5, <3>2
  <2> QED BY <2>1, <2>2
<1>9. Frames(Append(making, f), realised)
  BY <1>1, <1>2, <1>6, <1>7, <1>8, PushFrames
<1> QED BY <1>1, <1>9, OnlyFrames DEF IInv

LEMMA CreateKeeps ==
    ASSUME IInv, statics \in [Classes -> Seq(Nat)], Create
    PROVE  IInv'
<1> DEFINE n == Len(statics[Top.class]) + 1
           g == [Top EXCEPT !.nth = n]
<1>1. /\ making # <<>> /\ Len(Top.bases) = Len(HostBases[Top.class])
      /\ making' = [making EXCEPT ![Len(making)] = g]
      /\ UNCHANGED <<registered, realised, given>>
  BY DEF Create, NewObject, Top
<1>2. statics[Top.class] \in Seq(Nat)
  BY <1>1, TopFacts
<1>3. n \in Nat
  BY <1>2, LenProperties
<1> HIDE DEF n
<1>4. Fine(g) /\ Based(g, realised) /\ g.class = Top.class /\ g.use = Top.use
  BY <1>1, <1>3, TopFacts, CreatedFrame
<1> HIDE DEF g
<1>5. Frames([making EXCEPT ![Len(making)] = g], realised)
  BY <1>1, <1>4, TopFacts, TopFrames DEF Top
<1> QED BY <1>1, <1>5, OnlyFrames

LEMMA FailKeeps ==
    ASSUME IInv, Fail
    PROVE  IInv'
<1>1. UNCHANGED <<registered, realised, statics, given>>
  BY DEF Fail
<1>2. Frames(making, realised)
  BY DEF IInv
<1>3. PICK n \in DOMAIN making : making' = SubSeq(making, 1, n - 1)
  BY DEF Fail, Unwind
<1>4. n - 1 \in 0..Len(making)
  BY <1>2, <1>3, FramesFacts
<1>5. Frames(making', realised)
  BY <1>2, <1>3, <1>4, SubFrames
<1> QED BY <1>1, <1>5, OnlyFrames DEF IInv

LEMMA PublishKeeps ==
    ASSUME IInv, Publish
    PROVE  /\ IInv'
           /\ \A c \in Classes : realised[c] # NoClass => realised'[c] = realised[c]
<1> DEFINE k == Top.class
           o == Object(Top)
           n == Len(making)
           s == Below
<1>1. /\ making # <<>> /\ Made(Top) /\ Return(Top)
      /\ realised' = [realised EXCEPT ![k] = o]
      /\ UNCHANGED <<registered, statics>>
  BY DEF Publish
<1>2. /\ n \in Nat /\ n >= 1 /\ n \in 1..n /\ Frames(making, realised)
      /\ Fine(Top) /\ Based(Top, realised) /\ realised[k] = NoClass
      /\ k \in Classes /\ Top.guest \in Guests
  BY <1>1, TopFacts
<1>3. o.class = k /\ o.bases = Top.bases /\ o # NoClass
  BY <1>1, ObjectFacts
<1> HIDE DEF o
<1>4. /\ DOMAIN realised' = Classes
      /\ \A c \in Classes : realised'[c] = IF c = k THEN o ELSE realised[c]
  BY <1>1, <1>2 DEF IInv
<1>5. \A c \in Classes : realised[c] # NoClass => realised'[c] = realised[c]
  BY <1>2, <1>4
<1>6. IsSeq(s) /\ Len(s) = n - 1 /\ \A i \in 1..(n - 1) : s[i] = making[i]
  <2>1. n - 1 \in 0..Len(making)
    BY <1>2
  <2> QED BY <1>2, <2>1, FramesFacts, SelfSub DEF Below
<1>7. Frames(s, realised')
  <2>1. Frames(s, realised)
    <3>1. n - 1 \in 0..Len(making)
      BY <1>2
    <3> QED BY <1>2, <3>1, SubFrames DEF Below
  <2>2. ASSUME NEW i \in 1..Len(s)
        PROVE  s[i].class # k
    <3>1. i \in 1..n /\ i < n /\ s[i] = making[i]
      BY <1>2, <1>6
    <3>2. making[i].class \notin Lineage(k)
      BY <1>2, <3>1 DEF Frames, Top
    <3> QED BY <1>2, <3>1, <3>2, LineageFacts
  <2>3. DOMAIN realised = Classes
    BY DEF IInv
  <2> HIDE DEF s
  <2> QED BY <1>1, <1>2, <1>3, <2>1, <2>2, <2>3, KeptFrames
<1>8. Frames(making', realised')
  <2>1. CASE Top.use = "base"
    <3> DEFINE p == s[Len(s)]
               g == WithBase(p, o)
    <3>1. making' = [s EXCEPT ![Len(s)] = g]
      BY <1>1, <2>1 DEF Return, o
    <3>2. n > 1 /\ Waits(making[n - 1], making[n])
      BY <1>2, <2>1 DEF Frames, Top
    <3>3. Len(s) >= 1 /\ Len(s) \in 1..Len(s) /\ p = making[n - 1]
      BY <1>2, <1>6, <3>2
    <3>4. Len(p.bases) < Len(HostBases[p.class]) /\ NextBase(p) = k
      BY <3>2, <3>3 DEF Waits, Top
    <3>5. realised'[NextBase(p)] = o
      BY <1>2, <1>4, <3>4
    <3>6. Fine(p) /\ Based(p, realised')
      BY <1>7, <3>3, FramesFacts
    <3> HIDE DEF s, p
    <3>7. Fine(g) /\ Based(g, realised') /\ g.class = p.class /\ g.use = p.use
      BY <1>3, <3>4, <3>5, <3>6, GrownFrame
    <3> HIDE DEF g
    <3>8. Frames([s EXCEPT ![Len(s)] = g], realised')
      BY <1>7, <3>3, <3>7, TopFrames DEF p
    <3> QED BY <3>1, <3>8
  <2>2. CASE Top.use # "base"
    BY <1>1, <1>7, <2>2 DEF Return
  <2> QED BY <2>1, <2>2
<1>9. RealBases'
  <2> SUFFICES ASSUME NEW c \in Classes, realised'[c] # NoClass,
                      NEW i \in DOMAIN HostBases[c]
               PROVE  /\ realised'[HostBases[c][i]] # NoClass
                      /\ realised'[c].bases[i] = realised'[HostBases[c][i]]
    BY DEF RealBases
  <2> DEFINE b == HostBases[c][i]
  <2>1. b \in Classes /\ i \in 1..Len(HostBases[c])
    BY LineageFacts
  <2>2. realised[b] # NoClass /\ realised'[c].bases[i] = realised[b]
    <3>1. CASE c = k
      <4>1. Len(Top.bases) = Len(HostBases[c])
        BY <1>1, <1>2, <3>1 DEF Fine
      <4>2. realised[b] # NoClass /\ Top.bases[i] = realised[b]
        BY <1>2, <2>1, <3>1, <4>1 DEF Based
      <4> QED BY <1>3, <1>4, <3>1, <4>2
    <3>2. CASE c # k
      BY <1>4, <3>2 DEF IInv, RealBases
    <3> QED BY <3>1, <3>2
  <2> HIDE DEF b
  <2>3. realised'[b] = realised[b]
    BY <1>5, <2>1, <2>2
  <2>4. realised'[b] # NoClass /\ realised'[c].bases[i] = realised'[b]
    BY <2>2, <2>3
  <2> QED BY <2>4 DEF b
<1>10. /\ DOMAIN given' = Guests /\ \A g \in Guests : DOMAIN given'[g] = Classes
       /\ \A g \in Guests, c \in Classes :
              given'[g][c] = given[g][c] \/ (c = k /\ given'[g][c] = o)
  <2>1. DOMAIN given = Guests /\ \A g \in Guests : DOMAIN given[g] = Classes
    BY DEF IInv
  <2>2. CASE Top.use = "base"
    BY <1>1, <2>1, <2>2 DEF Return
  <2>3. CASE Top.use # "base"
    <3>1. given' = [given EXCEPT ![Top.guest] = [given[Top.guest] EXCEPT ![k] = o]]
      BY <1>1, <2>3 DEF Return, o
    <3> QED BY <1>2, <2>1, <3>1
  <2> QED BY <2>2, <2>3
<1>11. GivenIsRealised'
  <2> SUFFICES ASSUME NEW g \in Guests, NEW c \in Classes, given'[g][c] # NoClass
               PROVE  given'[g][c] = realised'[c]
    BY DEF GivenIsRealised
  <2>1. CASE given'[g][c] = given[g][c]
    BY <1>5, <2>1 DEF IInv, GivenIsRealised
  <2>2. CASE c = k /\ given'[g][c] = o
    BY <1>4, <2>2
  <2> QED BY <1>10, <2>1, <2>2
<1>12. LineageRegistered'
  BY <1>1 DEF IInv, LineageRegistered
<1> HIDE DEF s
<1> QED BY <1>4, <1>5, <1>8, <1>9, <1>10, <1>11, <1>12 DEF IInv

\* A step of the realiser keeps the invariant and every class that is realised.
LEMMA InvNext ==
    ASSUME ~Reenters, IInv, statics \in [Classes -> Seq(Nat)], [Next]_vars
    PROVE  /\ IInv'
           /\ \A c \in Classes : realised[c] # NoClass => realised'[c] = realised[c]
<1>1. CASE UNCHANGED vars
  BY <1>1 DEF vars, IInv, RealBases, GivenIsRealised, LineageRegistered
<1>2. ASSUME NEW g \in Guests, Build(g) \/ BuildFails(g)
      PROVE  IInv' /\ UNCHANGED realised
  <2>1. registered' = Absorb(Own[g]) /\ UNCHANGED <<realised, making, statics, given>>
    BY <1>2 DEF Build, BuildFails
  <2>2. LineageRegistered'
    BY <2>1, AbsorbKeeps DEF IInv
  <2> QED BY <2>1, <2>2 DEF IInv, RealBases, GivenIsRealised
<1>3. ASSUME NEW g \in Guests, DropGuest(g)
      PROVE  IInv' /\ UNCHANGED realised
  <2>1. /\ given' = [given EXCEPT ![g] = [c \in Classes |-> NoClass]]
        /\ UNCHANGED <<registered, realised, making, statics>>
    BY <1>3 DEF DropGuest
  <2>2. /\ DOMAIN given' = Guests /\ \A h \in Guests : DOMAIN given'[h] = Classes
        /\ \A h \in Guests, c \in Classes :
               given'[h][c] = NoClass \/ given'[h][c] = given[h][c]
    BY <2>1 DEF IInv
  <2>3. GivenIsRealised'
    BY <2>1, <2>2 DEF IInv, GivenIsRealised
  <2> QED BY <2>1, <2>2, <2>3 DEF IInv, RealBases, LineageRegistered
<1>4. ASSUME NEW g \in Guests, NEW c \in Classes, ImportMember(g, c) \/ ClassOf(g, c)
      PROVE  IInv' /\ UNCHANGED realised
  <2>1. CASE Cached(g, c)
    BY <2>1, CachedKeeps DEF Cached
  <2>2. ASSUME NEW m, Begin(g, c, m)
        PROVE  IInv' /\ UNCHANGED realised
    <3>1. UNCHANGED realised
      BY <2>2 DEF Begin
    <3> QED BY <2>2, <3>1, BeginKeeps
  <2> QED BY <1>4, <2>1, <2>2 DEF ImportMember, ClassOf, Cached
<1>5. CASE UseBase
  BY <1>5, UseBaseKeeps DEF UseBase
<1>6. CASE RealiseBase
  BY <1>6, RealiseBaseKeeps DEF RealiseBase
<1>7. CASE Create
  BY <1>7, CreateKeeps DEF Create
<1>8. CASE Publish
  BY <1>8, PublishKeeps
<1>9. CASE Fail
  BY <1>9, FailKeeps DEF Fail
<1>10. CASE SetStatic
  <2>1. UNCHANGED <<registered, realised, making, given>>
    BY <1>10 DEF SetStatic
  <2> QED BY <2>1, OnlyFrames DEF IInv
<1> QED BY <1>1, <1>2, <1>3, <1>4, <1>5, <1>6, <1>7, <1>8, <1>9, <1>10 DEF Next

-----------------------------------------------------------------------------
(* Class objects and their static members, whatever code runs meanwhile.   *)

\* In t, object o exists and has all of them.
Finished(o, t) ==
    /\ o.class \in Classes /\ o.nth \in 1..Len(t[o.class])
    /\ t[o.class][o.nth] = Statics[o.class]

\* A frame whose bases have, and whose own object exists once it is made.
Sound(f, t) ==
    /\ f = [guest |-> f.guest, class |-> f.class, of |-> f.of, use |-> f.use,
            bases |-> f.bases, nth |-> f.nth]
    /\ f.guest \in Guests /\ f.class \in Classes
    /\ Made(f) => f.nth \in 1..Len(t[f.class])
    /\ IsSeq(f.bases)
    /\ \A k \in 1..Len(f.bases) : Finished(f.bases[k], t)

SoundStack(s, t) == IsSeq(s) /\ \A i \in 1..Len(s) : Sound(s[i], t)
AllFinished(r, t) == DOMAIN r = Classes /\ \A c \in Classes : r[c] # NoClass => Finished(r[c], t)

WholeInv ==
    /\ statics \in [Classes -> Seq(Nat)]
    /\ SoundStack(making, statics)
    /\ AllFinished(realised, statics)
    /\ DOMAIN given = Guests /\ \A g \in Guests : AllFinished(given[g], statics)

\* Nothing that is finished in t is touched on the way to u.
Grows(t, u) ==
    /\ u \in [Classes -> Seq(Nat)]
    /\ \A c \in Classes :
           /\ Len(t[c]) \in Nat /\ Len(u[c]) \in Nat /\ Len(t[c]) <= Len(u[c])
           /\ \A n \in 1..Len(t[c]) : t[c][n] = Statics[c] => u[c][n] = Statics[c]

\* What becomes of the objects made for the classes.
LEMMA NewObjects ==
    ASSUME NEW t \in [Classes -> Seq(Nat)], NEW c \in Classes
    PROVE  LET u == [t EXCEPT ![c] = Append(@, 0)]
           IN  /\ u \in [Classes -> Seq(Nat)]
               /\ Len(t[c]) \in Nat /\ Len(u[c]) = Len(t[c]) + 1
               /\ \A n \in 1..Len(t[c]) : u[c][n] = t[c][n]
               /\ \A d \in Classes : d # c => u[d] = t[d]
<1> DEFINE u == [t EXCEPT ![c] = Append(@, 0)]
<1>1. t[c] \in Seq(Nat) /\ Len(t[c]) \in Nat /\ 0 \in Nat
  BY LenProperties
<1>2. /\ Append(t[c], 0) \in Seq(Nat) /\ Len(Append(t[c], 0)) = Len(t[c]) + 1
      /\ \A n \in 1..Len(t[c]) : Append(t[c], 0)[n] = t[c][n]
  BY <1>1, AppendProperties
<1>3. u[c] = Append(t[c], 0) /\ \A d \in Classes : d # c => u[d] = t[d]
  OBVIOUS
<1>4. u \in [Classes -> Seq(Nat)]
  BY <1>2
<1> HIDE DEF u
<1> QED BY <1>1, <1>2, <1>3, <1>4 DEF u

LEMMA FullerObject ==
    ASSUME NEW t \in [Classes -> Seq(Nat)], NEW c \in Classes, NEW n \in 1..Len(t[c])
    PROVE  LET u == [t EXCEPT ![c][n] = @ + 1]
           IN  /\ u \in [Classes -> Seq(Nat)]
               /\ Len(u[c]) = Len(t[c])
               /\ \A k \in 1..Len(t[c]) : k # n => u[c][k] = t[c][k]
               /\ \A d \in Classes : d # c => u[d] = t[d]
<1> DEFINE s == t[c]
           e == s[n] + 1
           u == [t EXCEPT ![c][n] = @ + 1]
<1>1. s \in Seq(Nat) /\ e \in Nat
  <2>1. s \in Seq(Nat)
    OBVIOUS
  <2>2. s[n] \in Nat
    BY <2>1, ElementOfSeq
  <2> QED BY <2>1, <2>2
<1>2. u[c] = [s EXCEPT ![n] = e] /\ \A d \in Classes : d # c => u[d] = t[d]
  OBVIOUS
<1>3. n \in 1..Len(s)
  OBVIOUS
<1>4. u = [t EXCEPT ![c] = [s EXCEPT ![n] = e]]
  OBVIOUS
<1> HIDE DEF s, e, u
<1>5. /\ [s EXCEPT ![n] = e] \in Seq(Nat)
      /\ Len([s EXCEPT ![n] = e]) = Len(s)
      /\ \A k \in 1..Len(s) : [s EXCEPT ![n] = e][k] = IF k = n THEN e ELSE s[k]
  BY <1>1, <1>3, ExceptSeq
<1>6. u \in [Classes -> Seq(Nat)]
  BY <1>4, <1>5
<1> QED BY <1>2, <1>5, <1>6 DEF s, u

LEMMA FinishedStays ==
    ASSUME NEW t, NEW u, Grows(t, u), NEW o, Finished(o, t)
    PROVE  Finished(o, u)
<1>1. /\ o.class \in Classes /\ o.nth \in 1..Len(t[o.class])
      /\ t[o.class][o.nth] = Statics[o.class]
  BY DEF Finished
<1>2. /\ Len(t[o.class]) \in Nat /\ Len(u[o.class]) \in Nat
      /\ Len(t[o.class]) <= Len(u[o.class])
      /\ u[o.class][o.nth] = Statics[o.class]
  BY <1>1 DEF Grows
<1>3. o.nth \in 1..Len(u[o.class])
  BY <1>1, <1>2
<1> QED BY <1>1, <1>2, <1>3 DEF Finished

LEMMA StackStays ==
    ASSUME NEW t, NEW u, Grows(t, u), NEW s, SoundStack(s, t)
    PROVE  SoundStack(s, u)
<1> SUFFICES ASSUME NEW i \in 1..Len(s) PROVE Sound(s[i], u)
  BY DEF SoundStack
<1>1. Sound(s[i], t)
  BY DEF SoundStack
<1>2. ASSUME Made(s[i])
      PROVE  s[i].nth \in 1..Len(u[s[i].class])
  <2>1. s[i].class \in Classes /\ s[i].nth \in 1..Len(t[s[i].class])
    BY <1>1, <1>2 DEF Sound
  <2>2. /\ Len(t[s[i].class]) \in Nat /\ Len(u[s[i].class]) \in Nat
        /\ Len(t[s[i].class]) <= Len(u[s[i].class])
    BY <2>1 DEF Grows
  <2> QED BY <2>1, <2>2
<1>3. \A k \in 1..Len(s[i].bases) : Finished(s[i].bases[k], u)
  BY <1>1, FinishedStays DEF Sound
<1> QED BY <1>1, <1>2, <1>3 DEF Sound

LEMMA AllStay ==
    ASSUME NEW t, NEW u, Grows(t, u), NEW r, AllFinished(r, t)
    PROVE  AllFinished(r, u)
BY FinishedStays DEF AllFinished

LEMMA SoundFacts ==
    ASSUME NEW s, NEW t, SoundStack(s, t)
    PROVE  IsSeq(s) /\ Len(s) \in Nat /\ \A i \in 1..Len(s) : Sound(s[i], t)
BY SelfSeq DEF SoundStack, IsSeq

LEMMA SoundPush ==
    ASSUME NEW s, NEW t, SoundStack(s, t), NEW f, Sound(f, t)
    PROVE  SoundStack(Append(s, f), t)
<1> DEFINE a == Append(s, f)
<1>1. /\ IsSeq(a) /\ Len(s) \in Nat /\ Len(a) = Len(s) + 1
      /\ \A i \in 1..Len(s) : a[i] = s[i]
      /\ a[Len(s) + 1] = f
  BY SoundFacts, SelfAppend
<1> HIDE DEF a
<1>2. ASSUME NEW i \in 1..Len(a)
      PROVE  Sound(a[i], t)
  <2>1. i \in 1..Len(s) \/ i = Len(s) + 1
    BY <1>1
  <2> QED BY <1>1, <2>1, SoundFacts
<1> QED BY <1>1, <1>2 DEF SoundStack, a

LEMMA SoundExcept ==
    ASSUME NEW s, NEW t, SoundStack(s, t), NEW n \in 1..Len(s), NEW f, Sound(f, t)
    PROVE  SoundStack([s EXCEPT ![n] = f], t)
<1> DEFINE a == [s EXCEPT ![n] = f]
<1>1. IsSeq(a) /\ Len(a) = Len(s) /\ \A i \in 1..Len(s) : a[i] = IF i = n THEN f ELSE s[i]
  BY SoundFacts, SelfExcept
<1> HIDE DEF a
<1>2. \A i \in 1..Len(a) : Sound(a[i], t)
  BY <1>1, SoundFacts
<1> QED BY <1>1, <1>2 DEF SoundStack, a

LEMMA SoundSub ==
    ASSUME NEW s, NEW t, SoundStack(s, t), NEW n \in 0..Len(s)
    PROVE  SoundStack(SubSeq(s, 1, n), t) /\ Len(SubSeq(s, 1, n)) = n
<1> DEFINE a == SubSeq(s, 1, n)
<1>1. IsSeq(a) /\ Len(a) = n /\ \A i \in 1..n : a[i] = s[i]
  BY SoundFacts, SelfSub
<1>2. Len(s) \in Nat /\ n \in Nat /\ n <= Len(s)
  BY SoundFacts
<1> HIDE DEF a
<1>3. \A i \in 1..n : i \in 1..Len(s)
  BY <1>2
<1>4. \A i \in 1..Len(a) : Sound(a[i], t)
  BY <1>1, <1>3, SoundFacts
<1> QED BY <1>1, <1>4 DEF SoundStack, a

LEMMA SoundGrown ==
    ASSUME NEW f, NEW t, Sound(f, t), NEW o, Finished(o, t)
    PROVE  Sound(WithBase(f, o), t)
<1> DEFINE b == Append(f.bases, o)
           g == WithBase(f, o)
<1>1. g = [guest |-> f.guest, class |-> f.class, of |-> f.of, use |-> f.use,
           bases |-> b, nth |-> f.nth]
  <2>1. g = [f EXCEPT !.bases = b]
    BY DEF WithBase
  <2> HIDE DEF g, b
  <2> QED BY <2>1 DEF Sound
<1>2. /\ IsSeq(b) /\ Len(f.bases) \in Nat /\ Len(b) = Len(f.bases) + 1
      /\ \A k \in 1..Len(f.bases) : b[k] = f.bases[k]
      /\ b[Len(f.bases) + 1] = o
  BY SelfAppend DEF Sound
<1> HIDE DEF g, b
<1>3. /\ g.guest = f.guest /\ g.class = f.class /\ g.of = f.of /\ g.use = f.use
      /\ g.bases = b /\ g.nth = f.nth
  BY <1>1
<1>4. ASSUME NEW k \in 1..Len(b)
      PROVE  Finished(b[k], t)
  <2>1. k \in 1..Len(f.bases) \/ k = Len(f.bases) + 1
    BY <1>2
  <2> QED BY <1>2, <2>1 DEF Sound
<1>5. g = [guest |-> g.guest, class |-> g.class, of |-> g.of, use |-> g.use,
           bases |-> g.bases, nth |-> g.nth]
  BY <1>1, <1>3
<1>6. Sound(g, t)
  BY <1>2, <1>3, <1>4, <1>5 DEF Sound, Made
<1> QED BY <1>6 DEF g

LEMMA SoundFresh ==
    ASSUME NEW g \in Guests, NEW c \in Classes, NEW m, NEW use, NEW t
    PROVE  Sound(Frame(g, c, m, use), t)
<1> DEFINE f == Frame(g, c, m, use)
<1>1. Fine(f) /\ f.class = c
  BY FreshFrame
<1>2. f.bases = <<>> /\ f.nth = 0 /\ f.guest = g
  BY DEF Frame
<1> HIDE DEF f
<1>3. IsSeq(f.bases) /\ Len(f.bases) = 0
  BY <1>2, EmptySeq DEF IsSeq
<1>4. Sound(f, t)
  BY <1>1, <1>2, <1>3 DEF Sound, Fine, Made
<1> QED BY <1>4 DEF f

LEMMA SoundTop ==
    ASSUME WholeInv, making # <<>>
    PROVE  /\ Len(making) \in Nat /\ Len(making) \in 1..Len(making)
           /\ Sound(Top, statics) /\ Top.class \in Classes /\ Top.guest \in Guests
           /\ statics[Top.class] \in Seq(Nat)
           /\ SoundStack(Below, statics)
           /\ Len(Top.bases) \in Nat
<1>1. IsSeq(making) /\ Len(making) \in Nat /\ SoundStack(making, statics)
  BY SoundFacts DEF WholeInv
<1>2. Len(making) # 0
  BY <1>1, EmptySeq DEF IsSeq
<1>3. Len(making) \in 1..Len(making) /\ Len(making) - 1 \in 0..Len(making)
  BY <1>1, <1>2
<1>4. Sound(Top, statics)
  BY <1>1, <1>3, SoundFacts DEF Top
<1>5. Top.class \in Classes /\ Top.guest \in Guests /\ IsSeq(Top.bases)
  BY <1>4 DEF Sound
<1>6. SoundStack(Below, statics)
  BY <1>1, <1>3, SoundSub DEF Below
<1>7. statics[Top.class] \in Seq(Nat)
  BY <1>5 DEF WholeInv
<1>8. Len(Top.bases) \in Nat
  BY <1>5, SelfSeq DEF IsSeq
<1> QED BY <1>1, <1>3, <1>4, <1>5, <1>6, <1>7, <1>8

LEMMA WholeInit == Init => WholeInv
<1> SUFFICES ASSUME Init PROVE WholeInv
  OBVIOUS
<1>1. <<>> \in Seq(Nat) /\ IsSeq(making) /\ Len(making) = 0
  BY EmptySeq DEF Init, IsSeq
<1>2. statics \in [Classes -> Seq(Nat)]
  BY <1>1 DEF Init
<1>3. SoundStack(making, statics)
  BY <1>1 DEF SoundStack
<1> QED BY <1>2, <1>3 DEF Init, WholeInv, AllFinished

\* Code asks for a class.
LEMMA AskWhole ==
    ASSUME WholeInv, NEW g \in Guests, NEW c \in Classes,
           Cached(g, c) \/ \E m : Begin(g, c, m)
    PROVE  WholeInv'
<1>1. CASE Cached(g, c)
  <2>1. /\ realised[c] # NoClass
        /\ given' = [given EXCEPT ![g] = [given[g] EXCEPT ![c] = realised[c]]]
        /\ UNCHANGED <<realised, making, statics>>
    BY <1>1 DEF Cached
  <2>2. Finished(realised[c], statics)
    BY <2>1 DEF WholeInv, AllFinished
  <2>3. DOMAIN given' = Guests
    BY <2>1 DEF WholeInv
  <2>4. ASSUME NEW h \in Guests
        PROVE  AllFinished(given'[h], statics)
    <3>1. AllFinished(given[h], statics)
      BY DEF WholeInv
    <3>2. CASE h # g
      BY <2>1, <3>1, <3>2 DEF WholeInv
    <3>3. CASE h = g
      <4>1. given'[h] = [given[h] EXCEPT ![c] = realised[c]]
        BY <2>1, <3>3 DEF WholeInv
      <4> QED BY <2>2, <3>1, <4>1 DEF AllFinished
    <3> QED BY <3>2, <3>3
  <2> QED BY <2>1, <2>3, <2>4 DEF WholeInv
<1>2. ASSUME NEW m, Begin(g, c, m)
      PROVE  WholeInv'
  <2>1. /\ making' = Append(making, Frame(g, c, m, "code"))
        /\ UNCHANGED <<realised, statics, given>>
    BY <1>2 DEF Begin
  <2>2. SoundStack(making', statics)
    BY <2>1, SoundFresh, SoundPush DEF WholeInv
  <2> QED BY <2>1, <2>2 DEF WholeInv
<1> QED BY <1>1, <1>2

LEMMA BasesWhole ==
    ASSUME WholeInv, UseBase \/ RealiseBase
    PROVE  WholeInv'
<1> DEFINE b == NextBase(Top)
<1>1. /\ making # <<>> /\ Len(Top.bases) < Len(HostBases[Top.class])
      /\ UNCHANGED <<realised, statics, given>>
  BY DEF UseBase, RealiseBase
<1>2. /\ Top.class \in Classes /\ Top.guest \in Guests /\ Len(Top.bases) \in Nat
      /\ Sound(Top, statics) /\ Len(making) \in 1..Len(making)
  BY <1>1, SoundTop
<1>3. b \in Classes
  <2>1. Len(Top.bases) + 1 \in 1..Len(HostBases[Top.class])
    BY <1>1, <1>2, LineageFacts
  <2> QED BY <1>2, <2>1, LineageFacts DEF NextBase
<1>4. SoundStack(making', statics)
  <2>1. CASE UseBase
    <3>1. /\ realised[b] # NoClass
          /\ making' = [making EXCEPT ![Len(making)] = WithBase(Top, realised[b])]
      BY <2>1 DEF UseBase
    <3>2. Finished(realised[b], statics)
      BY <1>3, <3>1 DEF WholeInv, AllFinished
    <3> HIDE DEF b
    <3> QED BY <1>2, <3>1, <3>2, SoundGrown, SoundExcept DEF WholeInv
  <2>2. CASE RealiseBase
    <3>1. making' = Append(making, Frame(Top.guest, b, Top.of, "base"))
      BY <2>2 DEF RealiseBase
    <3> HIDE DEF b
    <3> QED BY <1>2, <1>3, <3>1, SoundFresh, SoundPush DEF WholeInv
  <2> QED BY <2>1, <2>2
<1> QED BY <1>1, <1>4 DEF WholeInv

LEMMA CreateWhole ==
    ASSUME WholeInv, Create
    PROVE  WholeInv'
<1> DEFINE n == Len(statics[Top.class]) + 1
           g == [Top EXCEPT !.nth = n]
<1>1. /\ making # <<>>
      /\ statics' = [statics EXCEPT ![Top.class] = Append(@, 0)]
      /\ making' = [making EXCEPT ![Len(making)] = g]
      /\ UNCHANGED <<realised, given>>
  BY DEF Create, NewObject, Top
<1>2. /\ Top.class \in Classes /\ Sound(Top, statics) /\ Len(making) \in 1..Len(making)
      /\ statics \in [Classes -> Seq(Nat)] /\ SoundStack(making, statics)
  BY <1>1, SoundTop DEF WholeInv
<1>3. /\ statics' \in [Classes -> Seq(Nat)]
      /\ Len(statics[Top.class]) \in Nat /\ Len(statics'[Top.class]) = n
      /\ \A k \in 1..Len(statics[Top.class]) : statics'[Top.class][k] = statics[Top.class][k]
      /\ \A d \in Classes : d # Top.class => statics'[d] = statics[d]
  BY <1>1, <1>2, NewObjects
<1>4. \A d \in Classes : Len(statics[d]) \in Nat
  BY <1>2, LenProperties
<1>5. Grows(statics, statics')
  <2> SUFFICES ASSUME NEW d \in Classes
               PROVE  /\ Len(statics[d]) \in Nat /\ Len(statics'[d]) \in Nat
                      /\ Len(statics[d]) <= Len(statics'[d])
                      /\ \A k \in 1..Len(statics[d]) :
                             statics[d][k] = Statics[d] => statics'[d][k] = Statics[d]
    BY <1>3 DEF Grows
  <2>1. CASE d = Top.class
    BY <1>3, <2>1
  <2>2. CASE d # Top.class
    BY <1>3, <1>4, <2>2
  <2> QED BY <2>1, <2>2
<1>6. Sound(Top, statics') /\ SoundStack(making, statics')
  BY <1>1, <1>2, <1>5, StackStays, SoundFacts DEF Top
<1>7. n \in Nat /\ n \in 1..Len(statics'[Top.class])
  BY <1>3
<1> HIDE DEF n
<1>8. g = [guest |-> Top.guest, class |-> Top.class, of |-> Top.of, use |-> Top.use,
           bases |-> Top.bases, nth |-> n]
  BY <1>2 DEF Sound
<1>9. /\ g.guest = Top.guest /\ g.class = Top.class /\ g.of = Top.of /\ g.use = Top.use
      /\ g.bases = Top.bases /\ g.nth = n
  BY <1>8
<1> HIDE DEF g
<1>10. Sound(g, statics')
  <2>1. g = [guest |-> g.guest, class |-> g.class, of |-> g.of, use |-> g.use,
             bases |-> g.bases, nth |-> g.nth]
    BY <1>8, <1>9
  <2> QED BY <1>6, <1>7, <1>9, <2>1 DEF Sound
<1>11. SoundStack(making', statics')
  BY <1>1, <1>2, <1>6, <1>10, SoundExcept
<1> QED BY <1>1, <1>3, <1>5, <1>11, AllStay DEF WholeInv

\* The object whose static member is set has not all of them.
LEMMA SetStaticWhole ==
    ASSUME WholeInv, SetStatic
    PROVE  WholeInv'
<1> DEFINE c == Top.class
           n == Top.nth
<1>1. /\ making # <<>> /\ Made(Top) /\ statics[c][n] < Statics[c]
      /\ statics' = [statics EXCEPT ![c][n] = @ + 1]
      /\ UNCHANGED <<realised, making, given>>
  BY DEF SetStatic, Set
<1>2. /\ c \in Classes /\ n \in 1..Len(statics[c])
      /\ statics \in [Classes -> Seq(Nat)] /\ SoundStack(making, statics)
  BY <1>1, SoundTop DEF WholeInv, Sound
<1> HIDE DEF c, n
<1>3. /\ statics' \in [Classes -> Seq(Nat)]
      /\ Len(statics'[c]) = Len(statics[c])
      /\ \A k \in 1..Len(statics[c]) : k # n => statics'[c][k] = statics[c][k]
      /\ \A d \in Classes : d # c => statics'[d] = statics[d]
  BY <1>1, <1>2, FullerObject
<1>4. \A d \in Classes : Len(statics[d]) \in Nat
  BY <1>2, LenProperties
<1>5. statics[c][n] # Statics[c]
  <2>1. statics[c][n] \in Nat /\ Statics[c] \in Nat
    BY <1>2, ElementOfSeq, RealisationAssumption
  <2> QED BY <1>1, <2>1
<1>6. Grows(statics, statics')
  <2> SUFFICES ASSUME NEW d \in Classes
               PROVE  /\ Len(statics[d]) \in Nat /\ Len(statics'[d]) \in Nat
                      /\ Len(statics[d]) <= Len(statics'[d])
                      /\ \A k \in 1..Len(statics[d]) :
                             statics[d][k] = Statics[d] => statics'[d][k] = Statics[d]
    BY <1>3 DEF Grows
  <2>1. CASE d = c
    BY <1>3, <1>4, <1>5, <2>1
  <2>2. CASE d # c
    BY <1>3, <1>4, <2>2
  <2> QED BY <2>1, <2>2
<1> QED BY <1>1, <1>2, <1>3, <1>6, StackStays, AllStay DEF WholeInv

LEMMA PublishWhole ==
    ASSUME WholeInv, Publish
    PROVE  WholeInv'
<1> DEFINE k == Top.class
           o == Object(Top)
<1>1. /\ making # <<>> /\ Made(Top) /\ statics[k][Top.nth] = Statics[k] /\ Return(Top)
      /\ realised' = [realised EXCEPT ![k] = o]
      /\ UNCHANGED statics
  BY DEF Publish, Set
<1>2. /\ k \in Classes /\ Top.guest \in Guests /\ Sound(Top, statics)
      /\ SoundStack(Below, statics)
  BY <1>1, SoundTop
<1>3. Finished(o, statics)
  BY <1>1, <1>2, ObjectFacts DEF Finished, Sound
<1> HIDE DEF o
<1>4. AllFinished(realised', statics)
  BY <1>1, <1>2, <1>3 DEF WholeInv, AllFinished
<1>5. SoundStack(making', statics)
  <2>1. CASE Top.use # "base"
    BY <1>1, <1>2, <2>1 DEF Return
  <2>2. CASE Top.use = "base"
    <3> DEFINE s == Below
               g == WithBase(s[Len(s)], o)
    <3>1. making' = [s EXCEPT ![Len(s)] = g]
      BY <1>1, <2>2 DEF Return, o
    <3>2. IsSeq(s) /\ Len(s) \in Nat /\ DOMAIN s = 1..Len(s)
      BY <1>2, SoundFacts, SelfSeq DEF IsSeq
    <3> HIDE DEF s
    <3>3. CASE Len(s) = 0
      <4>1. [s EXCEPT ![Len(s)] = g] = s
        <5> HIDE DEF g
        <5>1. \E S : s \in [1..Len(s) -> S]
          BY <3>2, LenProperties DEF IsSeq
        <5> QED BY <3>3, <5>1
      <4> QED BY <1>2, <3>1, <4>1 DEF s
    <3>4. CASE Len(s) # 0
      <4>1. Len(s) \in 1..Len(s)
        BY <3>2, <3>4
      <4>2. SoundStack(s, statics)
        BY <1>2 DEF s
      <4>3. Sound(g, statics)
        BY <1>3, <4>1, <4>2, SoundFacts, SoundGrown
      <4> HIDE DEF g
      <4> QED BY <3>1, <4>1, <4>2, <4>3, SoundExcept
    <3> QED BY <3>3, <3>4
  <2> QED BY <2>1, <2>2
<1>6. DOMAIN given' = Guests /\ \A g \in Guests : AllFinished(given'[g], statics)
  <2>1. DOMAIN given = Guests /\ \A g \in Guests : AllFinished(given[g], statics)
    BY DEF WholeInv
  <2>2. CASE Top.use = "base"
    BY <1>1, <2>1, <2>2 DEF Return
  <2>3. CASE Top.use # "base"
    <3>1. given' = [given EXCEPT ![Top.guest] = [given[Top.guest] EXCEPT ![k] = o]]
      BY <1>1, <2>3 DEF Return, o
    <3>2. DOMAIN given' = Guests
      BY <2>1, <3>1
    <3>3. ASSUME NEW g \in Guests
          PROVE  AllFinished(given'[g], statics)
      <4>1. CASE g # Top.guest
        BY <2>1, <3>1, <4>1
      <4>2. CASE g = Top.guest
        <5>1. given'[g] = [given[g] EXCEPT ![k] = o]
          BY <2>1, <3>1, <4>2
        <5>2. AllFinished(given[g], statics)
          BY <2>1
        <5> QED BY <1>2, <1>3, <5>1, <5>2 DEF AllFinished
      <4> QED BY <4>1, <4>2
    <3> QED BY <3>2, <3>3
  <2> QED BY <2>2, <2>3
<1> QED BY <1>1, <1>4, <1>5, <1>6 DEF WholeInv

LEMMA FailWhole ==
    ASSUME WholeInv, Fail
    PROVE  WholeInv'
<1>1. UNCHANGED <<realised, statics, given>>
  BY DEF Fail
<1>2. SoundStack(making, statics) /\ Len(making) \in Nat /\ DOMAIN making = 1..Len(making)
  BY SoundFacts, SelfSeq DEF WholeInv, IsSeq
<1>3. PICK n \in DOMAIN making : making' = SubSeq(making, 1, n - 1)
  BY DEF Fail, Unwind
<1>4. n - 1 \in 0..Len(making)
  BY <1>2, <1>3
<1>5. SoundStack(making', statics)
  BY <1>2, <1>3, <1>4, SoundSub
<1> QED BY <1>1, <1>5 DEF WholeInv

LEMMA WholeNext ==
    ASSUME WholeInv, [Next]_vars
    PROVE  WholeInv'
<1>1. CASE UNCHANGED <<realised, making, statics, given>>
  BY <1>1 DEF WholeInv
<1>2. ASSUME NEW g \in Guests, Build(g) \/ BuildFails(g)
      PROVE  WholeInv'
  BY <1>1, <1>2 DEF Build, BuildFails
<1>3. ASSUME NEW g \in Guests, DropGuest(g)
      PROVE  WholeInv'
  <2>1. /\ given' = [given EXCEPT ![g] = [c \in Classes |-> NoClass]]
        /\ UNCHANGED <<realised, making, statics>>
    BY <1>3 DEF DropGuest
  <2>2. DOMAIN given' = Guests
    BY <2>1 DEF WholeInv
  <2>3. ASSUME NEW h \in Guests
        PROVE  AllFinished(given'[h], statics)
    <3>1. given'[h] = given[h] \/ given'[h] = [c \in Classes |-> NoClass]
      BY <2>1 DEF WholeInv
    <3>2. AllFinished(given[h], statics)
      BY DEF WholeInv
    <3>3. AllFinished([c \in Classes |-> NoClass], statics)
      BY DEF AllFinished
    <3> QED BY <3>1, <3>2, <3>3
  <2> QED BY <2>1, <2>2, <2>3 DEF WholeInv
<1>4. ASSUME NEW g \in Guests, NEW c \in Classes, ImportMember(g, c) \/ ClassOf(g, c)
      PROVE  WholeInv'
  BY <1>4, AskWhole DEF ImportMember, ClassOf
<1>5. CASE UNCHANGED vars
  BY <1>1, <1>5 DEF vars
<1> QED BY <1>2, <1>3, <1>4, <1>5, BasesWhole, CreateWhole, SetStaticWhole, PublishWhole,
           FailWhole DEF Next

LEMMA WholeInvariance == Spec => []WholeInv
<1>1. WholeInv /\ [Next]_vars => WholeInv'
  BY WholeNext
<1> QED BY <1>1, WholeInit, PTL DEF Spec

LEMMA Invariance == ~Reenters /\ Spec => []IInv
<1> SUFFICES ASSUME ~Reenters PROVE Spec => []IInv
  OBVIOUS
<1>1. IInv /\ WholeInv /\ [Next]_vars => IInv'
  BY InvNext DEF WholeInv
<1> QED BY <1>1, InvInit, WholeInvariance, PTL DEF Spec

-----------------------------------------------------------------------------
\* A class is one object for the whole runtime, and so are the bases of every class
\* (ClassRealiser::realise, catalog.rs), however realisations nest and fail.
THEOREM OneObjectPerClass == ~Reenters /\ Spec => []OneClassEach
<1>1. IInv => OneClassEach
  BY DEF IInv, RealBases, GivenIsRealised, OneClassEach
<1> QED BY <1>1, Invariance, PTL

\* No guest is given a class, and no class a base, whose static members are not all set
\* (ClassRealiser::realise keeps it last), even when the code those members run asks for the
\* class that is being realised.
THEOREM WholeClassesOnly == Spec => []OnlyWholeClasses
<1>1. WholeInv => OnlyWholeClasses
  <2> SUFFICES ASSUME WholeInv PROVE OnlyWholeClasses
    OBVIOUS
  <2>1. \A g \in Guests, c \in Classes : given[g][c] # NoClass => Whole(given[g][c])
    BY DEF WholeInv, AllFinished, Finished, Whole, Set
  <2>2. ASSUME NEW i \in DOMAIN making, NEW k \in DOMAIN making[i].bases
        PROVE  Whole(making[i].bases[k])
    <3>1. Sound(making[i], statics)
      BY SoundFacts, SelfSeq DEF WholeInv, IsSeq
    <3>2. k \in 1..Len(making[i].bases)
      BY <3>1, SelfSeq DEF Sound, IsSeq
    <3> QED BY <3>1, <3>2 DEF Sound, Finished, Whole, Set
  <2> QED BY <2>1, <2>2 DEF OnlyWholeClasses
<1> QED BY <1>1, WholeInvariance, PTL

\* Wherever a class is declared, its host bases are (RealisationCache::absorb), in
\* guests whose build fails too.
THEOREM BasesAreDeclared == ~Reenters /\ Spec => []LineageRegistered
<1>1. IInv => LineageRegistered
  BY DEF IInv
<1> QED BY <1>1, Invariance, PTL

\* What is realised is never realised anew, so that no instance finds its class replaced.
THEOREM ClassesStay == ~Reenters /\ Spec => ClassStays
<1> SUFFICES ASSUME ~Reenters PROVE Spec => ClassStays
  OBVIOUS
<1> DEFINE Stay == \A c \in Classes : realised[c] # NoClass => realised'[c] = realised[c]
<1>1. IInv /\ WholeInv /\ [Next]_vars => [Stay]_vars
  BY InvNext DEF WholeInv
<1>2. Spec => []IInv /\ []WholeInv
  BY Invariance, WholeInvariance
<1> HIDE DEF Stay
<1>3. Spec => [][Stay]_vars
  BY <1>1, <1>2, PTL DEF Spec
<1> QED BY <1>3 DEF Stay, ClassStays
=============================================================================
