--------------------------- MODULE ActivationProofs ---------------------------
(***************************************************************************)
(* Theorems about Activation, for any number of guests, futures and calls. *)
(***************************************************************************)
EXTENDS Activation, SequenceTheorems, FiniteSetTheorems, TLAPS

-----------------------------------------------------------------------------
(* Counting the guards on a call stack.                                    *)

Owners(s) == {i \in DOMAIN s : s[i].owns}

OwnersFor(s, g) == {i \in DOMAIN s : s[i].owns /\ s[i].guest = g}

FuturesFor(H, g) == {f \in H : GuestOf[f] = g}

\* The calls on a finite stack that took a guard are finitely many.
LEMMA OwnersFinite ==
    ASSUME NEW s \in Seq(Frame), NEW g
    PROVE  /\ IsFiniteSet(Owners(s)) /\ Cardinality(Owners(s)) \in Nat
           /\ IsFiniteSet(OwnersFor(s, g)) /\ Cardinality(OwnersFor(s, g)) \in Nat
<1>1. Len(s) \in Nat /\ DOMAIN s = 1 .. Len(s)
  BY LenProperties
<1>2. IsFiniteSet(1 .. Len(s))
  BY <1>1, FS_Interval
<1>3. Owners(s) \in SUBSET (1 .. Len(s)) /\ OwnersFor(s, g) \in SUBSET (1 .. Len(s))
  BY <1>1 DEF Owners, OwnersFor
<1>4. IsFiniteSet(Owners(s)) /\ IsFiniteSet(OwnersFor(s, g))
  BY <1>2, <1>3, FS_Subset
<1>5. QED
  BY <1>4, FS_CardinalityType

\* Opening a call adds one guard to its guest's, if it takes one.
LEMMA OwnersAppend ==
    ASSUME NEW s \in Seq(Frame), NEW r \in Frame, NEW g
    PROVE  /\ Cardinality(Owners(Append(s, r))) =
                Cardinality(Owners(s)) + (IF r.owns THEN 1 ELSE 0)
           /\ Cardinality(OwnersFor(Append(s, r), g)) =
                Cardinality(OwnersFor(s, g))
                  + (IF r.owns /\ r.guest = g THEN 1 ELSE 0)
<1> DEFINE t == Append(s, r)
           n == Len(s)
<1>1. /\ n \in Nat /\ DOMAIN s = 1 .. n
      /\ t \in Seq(Frame) /\ Len(t) = n + 1 /\ DOMAIN t = 1 .. (n + 1)
      /\ \A i \in 1 .. n : t[i] = s[i]
      /\ t[n + 1] = r
  BY LenProperties, AppendProperties
<1>2. r.owns \in BOOLEAN
  BY DEF Frame
<1>3. Owners(t) = IF r.owns THEN Owners(s) \cup {n + 1} ELSE Owners(s)
  BY <1>1 DEF Owners
<1>4. OwnersFor(t, g) = IF r.owns /\ r.guest = g
                        THEN OwnersFor(s, g) \cup {n + 1} ELSE OwnersFor(s, g)
  BY <1>1 DEF OwnersFor
<1>5. n + 1 \notin Owners(s) /\ n + 1 \notin OwnersFor(s, g)
  BY <1>1 DEF Owners, OwnersFor
<1>6. /\ IsFiniteSet(Owners(s)) /\ Cardinality(Owners(s)) \in Nat
      /\ IsFiniteSet(OwnersFor(s, g)) /\ Cardinality(OwnersFor(s, g)) \in Nat
  BY OwnersFinite
<1>7. /\ Cardinality(Owners(s) \cup {n + 1}) = Cardinality(Owners(s)) + 1
      /\ Cardinality(OwnersFor(s, g) \cup {n + 1}) = Cardinality(OwnersFor(s, g)) + 1
  BY <1>5, <1>6, FS_AddElement
<1>8. QED
  BY <1>3, <1>4, <1>6, <1>7

\* Returning from the innermost call takes away the guard it took, if any.
LEMMA OwnersPop ==
    ASSUME NEW s \in Seq(Frame), s # <<>>, NEW g
    PROVE  LET t == SubSeq(s, 1, Len(s) - 1)
               r == s[Len(s)]
           IN  /\ t \in Seq(Frame)
               /\ Len(s) \in Nat \ {0}
               /\ Len(t) = Len(s) - 1
               /\ \A i \in 1 .. Len(t) : t[i] = s[i]
               /\ r \in Frame
               /\ Cardinality(Owners(t)) =
                    Cardinality(Owners(s)) - (IF r.owns THEN 1 ELSE 0)
               /\ Cardinality(OwnersFor(t, g)) =
                    Cardinality(OwnersFor(s, g))
                      - (IF r.owns /\ r.guest = g THEN 1 ELSE 0)
<1> DEFINE n == Len(s)
           t == SubSeq(s, 1, n - 1)
           r == s[n]
<1>1. n \in Nat \ {0} /\ DOMAIN s = 1 .. n
  BY LenProperties, EmptySeq
<1>2. r \in Frame /\ \A i \in 1 .. n - 1 : s[i] \in Frame
  BY <1>1, ElementOfSeq
<1>3. /\ t \in Seq(Frame) /\ Len(t) = n - 1
      /\ \A i \in 1 .. n - 1 : t[i] = s[i]
  <2>1. /\ t \in Seq(Frame)
        /\ Len(t) = IF 1 <= n - 1 THEN (n - 1) - 1 + 1 ELSE 0
        /\ \A i \in 1 .. (n - 1) - 1 + 1 : t[i] = s[1 + i - 1]
    BY <1>1, <1>2, SubSeqProperties
  <2>2. QED
    BY <1>1, <2>1
<1>4. DOMAIN t = 1 .. n - 1
  BY <1>3, LenProperties
<1>5. r.owns \in BOOLEAN
  BY <1>2 DEF Frame
<1>6. Owners(t) = IF r.owns THEN Owners(s) \ {n} ELSE Owners(s)
  BY <1>1, <1>3, <1>4 DEF Owners
<1>7. OwnersFor(t, g) = IF r.owns /\ r.guest = g
                        THEN OwnersFor(s, g) \ {n} ELSE OwnersFor(s, g)
  BY <1>1, <1>3, <1>4 DEF OwnersFor
<1>8. /\ r.owns => n \in Owners(s)
      /\ r.owns /\ r.guest = g => n \in OwnersFor(s, g)
  BY <1>1 DEF Owners, OwnersFor
<1>9. /\ IsFiniteSet(Owners(s)) /\ Cardinality(Owners(s)) \in Nat
      /\ IsFiniteSet(OwnersFor(s, g)) /\ Cardinality(OwnersFor(s, g)) \in Nat
  BY OwnersFinite
<1>10. /\ r.owns => Cardinality(Owners(s) \ {n}) = Cardinality(Owners(s)) - 1
       /\ r.owns /\ r.guest = g =>
            Cardinality(OwnersFor(s, g) \ {n}) = Cardinality(OwnersFor(s, g)) - 1
  BY <1>8, <1>9, FS_RemoveElement
<1>11. QED
  BY <1>1, <1>2, <1>3, <1>6, <1>7, <1>9, <1>10

-----------------------------------------------------------------------------
(* The balance of guards, and what each way to change it preserves.        *)

\* d counts each guest's guards and n all of them: those of the calls on s
\* and those of the futures in H.
Balanced(d, n, s, H) ==
    /\ \A g \in Guests :
         d[g] = Cardinality(OwnersFor(s, g)) + Cardinality(FuturesFor(H, g))
    /\ n = Cardinality(Owners(s)) + Cardinality(H)

\* The futures that hold a guard are finitely many.
LEMMA FuturesFinite ==
    ASSUME NEW H \in SUBSET Futures, NEW g
    PROVE  /\ IsFiniteSet(H) /\ Cardinality(H) \in Nat
           /\ IsFiniteSet(FuturesFor(H, g)) /\ Cardinality(FuturesFor(H, g)) \in Nat
<1>1. IsFiniteSet(H)
  BY GuestsAssumption, FS_Subset
<1>2. IsFiniteSet(FuturesFor(H, g))
  BY <1>1, FS_Subset DEF FuturesFor
<1>3. QED
  BY <1>1, <1>2, FS_CardinalityType

\* A call that takes no guard, or one that takes a guard of its guest.
LEMMA BalancedOpen ==
    ASSUME NEW s \in Seq(Frame), NEW r \in Frame, NEW H \in SUBSET Futures,
           NEW d \in [Guests -> Nat], NEW n \in Nat, Balanced(d, n, s, H)
    PROVE  /\ ~r.owns => Balanced(d, n, Append(s, r), H)
           /\ r.owns => Balanced([d EXCEPT ![r.guest] = @ + 1], n + 1,
                                 Append(s, r), H)
<1> DEFINE e == [d EXCEPT ![r.guest] = @ + 1]
<1>1. r.guest \in Guests /\ r.owns \in BOOLEAN
  BY DEF Frame
<1>2. \A g : /\ Cardinality(Owners(s)) \in Nat /\ Cardinality(OwnersFor(s, g)) \in Nat
             /\ Cardinality(H) \in Nat /\ Cardinality(FuturesFor(H, g)) \in Nat
  BY OwnersFinite, FuturesFinite
<1>3. \A g : /\ Cardinality(Owners(Append(s, r))) =
                  Cardinality(Owners(s)) + (IF r.owns THEN 1 ELSE 0)
             /\ Cardinality(OwnersFor(Append(s, r), g)) =
                  Cardinality(OwnersFor(s, g))
                    + (IF r.owns /\ r.guest = g THEN 1 ELSE 0)
  BY OwnersAppend
<1>4. \A g \in Guests : e[g] = d[g] + (IF r.guest = g THEN 1 ELSE 0)
  BY <1>1
<1>5. ASSUME ~r.owns PROVE Balanced(d, n, Append(s, r), H)
  BY <1>2, <1>3, <1>5 DEF Balanced
<1>6. ASSUME r.owns PROVE Balanced(e, n + 1, Append(s, r), H)
  <2> HIDE DEF e
  <2>1. ASSUME NEW g \in Guests
        PROVE  e[g] = Cardinality(OwnersFor(Append(s, r), g))
                        + Cardinality(FuturesFor(H, g))
    BY <1>2, <1>3, <1>4, <1>6 DEF Balanced
  <2>2. n + 1 = Cardinality(Owners(Append(s, r))) + Cardinality(H)
    BY <1>2, <1>3, <1>6 DEF Balanced
  <2>3. QED
    BY <2>1, <2>2 DEF Balanced
<1>7. QED
  BY <1>5, <1>6

\* The innermost call returns; a guard it took was counted.
LEMMA BalancedPop ==
    ASSUME NEW s \in Seq(Frame), s # <<>>, NEW H \in SUBSET Futures,
           NEW d \in [Guests -> Nat], NEW n \in Nat, Balanced(d, n, s, H)
    PROVE  LET t == SubSeq(s, 1, Len(s) - 1)
               r == s[Len(s)]
           IN  /\ ~r.owns => Balanced(d, n, t, H)
               /\ r.owns => /\ d[r.guest] >= 1
                            /\ n >= 1
                            /\ Balanced([d EXCEPT ![r.guest] = @ - 1], n - 1, t, H)
<1> DEFINE t == SubSeq(s, 1, Len(s) - 1)
           r == s[Len(s)]
           e == [d EXCEPT ![r.guest] = @ - 1]
<1>1. \A g : /\ t \in Seq(Frame)
             /\ r \in Frame
             /\ Cardinality(Owners(t)) =
                  Cardinality(Owners(s)) - (IF r.owns THEN 1 ELSE 0)
             /\ Cardinality(OwnersFor(t, g)) =
                  Cardinality(OwnersFor(s, g))
                    - (IF r.owns /\ r.guest = g THEN 1 ELSE 0)
  BY OwnersPop
<1>2. \A g : /\ Cardinality(Owners(s)) \in Nat /\ Cardinality(OwnersFor(s, g)) \in Nat
             /\ Cardinality(Owners(t)) \in Nat /\ Cardinality(OwnersFor(t, g)) \in Nat
             /\ Cardinality(H) \in Nat /\ Cardinality(FuturesFor(H, g)) \in Nat
  BY <1>1, OwnersFinite, FuturesFinite
<1>3. r.guest \in Guests /\ r.owns \in BOOLEAN
  BY <1>1 DEF Frame
<1>4. \A g \in Guests : e[g] = d[g] - (IF r.guest = g THEN 1 ELSE 0)
  BY <1>3
<1> HIDE DEF t, r, e
<1>5. /\ \A g \in Guests :
           d[g] = Cardinality(OwnersFor(s, g)) + Cardinality(FuturesFor(H, g))
      /\ n = Cardinality(Owners(s)) + Cardinality(H)
  BY DEF Balanced
<1>6. /\ Cardinality(Owners(t)) = Cardinality(Owners(s)) - (IF r.owns THEN 1 ELSE 0)
       /\ Cardinality(Owners(s)) \in Nat /\ Cardinality(Owners(t)) \in Nat
       /\ Cardinality(H) \in Nat
  BY <1>1, <1>2
<1>7. ASSUME ~r.owns PROVE Balanced(d, n, t, H)
  BY <1>1, <1>2, <1>7 DEF Balanced
<1>8. ASSUME r.owns
      PROVE  d[r.guest] >= 1 /\ n >= 1 /\ Balanced(e, n - 1, t, H)
  <2>1. ASSUME NEW g \in Guests
        PROVE  e[g] = Cardinality(OwnersFor(t, g)) + Cardinality(FuturesFor(H, g))
    <3>1. /\ Cardinality(OwnersFor(t, g)) =
               Cardinality(OwnersFor(s, g)) - (IF r.guest = g THEN 1 ELSE 0)
          /\ Cardinality(OwnersFor(s, g)) \in Nat
          /\ Cardinality(FuturesFor(H, g)) \in Nat
      BY <1>1, <1>2, <1>8
    <3>2. e[g] = d[g] - (IF r.guest = g THEN 1 ELSE 0)
      BY <1>4
    <3>3. d[g] = Cardinality(OwnersFor(s, g)) + Cardinality(FuturesFor(H, g))
      BY <1>5
    <3>4. QED
      BY <3>1, <3>2, <3>3
  <2>2. n - 1 = Cardinality(Owners(t)) + Cardinality(H)
    BY <1>8, <1>5, <1>6
  <2>3. d[r.guest] = Cardinality(OwnersFor(t, r.guest)) + 1
                       + Cardinality(FuturesFor(H, r.guest))
    BY <1>1, <1>2, <1>3, <1>8, <1>5
  <2>4. d[r.guest] >= 1
    BY <1>2, <1>3, <2>3
  <2>5. n >= 1
    <3>1. n = Cardinality(Owners(t)) + 1 + Cardinality(H)
      BY <1>8, <1>5, <1>6
    <3>2. QED
      BY <1>6, <3>1
  <2>6. QED
    BY <2>1, <2>2, <2>4, <2>5 DEF Balanced
<1>9. QED
  BY <1>7, <1>8 DEF t, r, e

\* A future takes its guard, or drops it.
LEMMA BalancedFuture ==
    ASSUME NEW s \in Seq(Frame), NEW H \in SUBSET Futures, NEW f \in Futures,
           NEW d \in [Guests -> Nat], NEW n \in Nat, Balanced(d, n, s, H)
    PROVE  /\ f \notin H => Balanced([d EXCEPT ![GuestOf[f]] = @ + 1], n + 1,
                                     s, H \union {f})
           /\ f \in H => /\ d[GuestOf[f]] >= 1
                         /\ n >= 1
                         /\ Balanced([d EXCEPT ![GuestOf[f]] = @ - 1], n - 1,
                                     s, H \ {f})
<1> DEFINE o == GuestOf[f]
           more == [d EXCEPT ![o] = @ + 1]
           less == [d EXCEPT ![o] = @ - 1]
<1>1. o \in Guests
  BY GuestsAssumption
<1>2. \A g : /\ IsFiniteSet(H) /\ Cardinality(H) \in Nat
             /\ IsFiniteSet(FuturesFor(H, g)) /\ Cardinality(FuturesFor(H, g)) \in Nat
             /\ Cardinality(Owners(s)) \in Nat /\ Cardinality(OwnersFor(s, g)) \in Nat
  BY OwnersFinite, FuturesFinite
<1>3. /\ FuturesFor(H \union {f}, o) = FuturesFor(H, o) \union {f}
      /\ FuturesFor(H \ {f}, o) = FuturesFor(H, o) \ {f}
      /\ (f \in FuturesFor(H, o)) <=> (f \in H)
  BY DEF FuturesFor
<1>4. ASSUME NEW g, g # o
      PROVE  /\ FuturesFor(H \union {f}, g) = FuturesFor(H, g)
             /\ FuturesFor(H \ {f}, g) = FuturesFor(H, g)
  BY <1>4 DEF FuturesFor
<1>5. /\ more[o] = d[o] + 1 /\ less[o] = d[o] - 1
      /\ \A g \in Guests : g # o => more[g] = d[g] /\ less[g] = d[g]
  BY <1>1
<1>6. /\ \A g \in Guests :
           d[g] = Cardinality(OwnersFor(s, g)) + Cardinality(FuturesFor(H, g))
      /\ n = Cardinality(Owners(s)) + Cardinality(H)
  BY DEF Balanced
<1> HIDE DEF o, more, less
<1>7. ASSUME f \notin H PROVE Balanced(more, n + 1, s, H \union {f})
  <2>1. /\ Cardinality(H \union {f}) = Cardinality(H) + 1
        /\ Cardinality(FuturesFor(H \union {f}, o)) = Cardinality(FuturesFor(H, o)) + 1
    BY <1>2, <1>3, <1>7, FS_AddElement
  <2>2. ASSUME NEW g \in Guests
        PROVE  more[g] = Cardinality(OwnersFor(s, g))
                           + Cardinality(FuturesFor(H \union {f}, g))
    <3>1. CASE g = o
      <4>1. more[o] = Cardinality(OwnersFor(s, o))
                        + Cardinality(FuturesFor(H \union {f}, o))
        BY <1>1, <1>2, <1>5, <1>6, <2>1
      <4>2. QED
        BY <3>1, <4>1
    <3>2. CASE g # o
      BY <3>2, <1>4, <1>5, <1>6
    <3>3. QED
      BY <3>1, <3>2
  <2>3. n + 1 = Cardinality(Owners(s)) + Cardinality(H \union {f})
    BY <1>2, <1>6, <2>1
  <2>4. QED
    BY <2>2, <2>3 DEF Balanced
<1>8. ASSUME f \in H
      PROVE  d[o] >= 1 /\ n >= 1 /\ Balanced(less, n - 1, s, H \ {f})
  <2>1. /\ Cardinality(H \ {f}) = Cardinality(H) - 1
        /\ Cardinality(FuturesFor(H \ {f}, o)) = Cardinality(FuturesFor(H, o)) - 1
    <3>1. Cardinality(H \ {f}) = Cardinality(H) - 1
      BY <1>2, <1>8, FS_RemoveElement
    <3>2. Cardinality(FuturesFor(H, o) \ {f}) = Cardinality(FuturesFor(H, o)) - 1
      BY <1>2, <1>3, <1>8, FS_RemoveElement
    <3>3. QED
      BY <1>3, <3>1, <3>2
  <2>2. Cardinality(H \ {f}) \in Nat /\ Cardinality(FuturesFor(H \ {f}, o)) \in Nat
    BY FuturesFinite
  <2>3. ASSUME NEW g \in Guests
        PROVE  less[g] = Cardinality(OwnersFor(s, g))
                           + Cardinality(FuturesFor(H \ {f}, g))
    <3>1. CASE g = o
      <4>1. less[o] = Cardinality(OwnersFor(s, o))
                        + Cardinality(FuturesFor(H \ {f}, o))
        BY <1>1, <1>2, <1>5, <1>6, <2>1
      <4>2. QED
        BY <3>1, <4>1
    <3>2. CASE g # o
      BY <3>2, <1>4, <1>5, <1>6
    <3>3. QED
      BY <3>1, <3>2
  <2>4. n - 1 = Cardinality(Owners(s)) + Cardinality(H \ {f})
    BY <1>2, <1>6, <2>1
  <2>5. d[o] >= 1 /\ n >= 1
    <3>1. /\ d[o] = Cardinality(OwnersFor(s, o))
                     + (Cardinality(FuturesFor(H \ {f}, o)) + 1)
          /\ n = Cardinality(Owners(s)) + (Cardinality(H \ {f}) + 1)
      BY <1>1, <1>2, <1>6, <2>1
    <3>2. QED
      BY <1>2, <2>2, <3>1
  <2>6. QED
    BY <2>3, <2>4, <2>5 DEF Balanced
<1>9. QED
  BY <1>7, <1>8 DEF o, more, less

-----------------------------------------------------------------------------
(* The inductive invariant.                                                *)

\* Only a poll has a future, which holds the guard the poll runs on, and no
\* future is being polled twice.
PollFrames ==
    /\ \A i \in DOMAIN frames :
         IF frames[i].kind = "poll"
         THEN /\ frames[i].fut \in held
              /\ frames[i].guest = GuestOf[frames[i].fut]
              /\ ~frames[i].owns
         ELSE frames[i].fut = NoFuture
    /\ \A i, j \in DOMAIN frames :
         /\ frames[i].kind = "poll"
         /\ frames[j].kind = "poll"
         /\ frames[i].fut = frames[j].fut
         => i = j

IInv == TypeOK /\ GuardsBalanced /\ IdleIsDisarmed /\ PollFrames

\* What every step keeps of the guards and the call stack.
GuardsTyped ==
    /\ active \in Seq(Guests)
    /\ depth \in [Guests -> Nat]
    /\ deadline \in [Guests -> Nat \union {Disarmed}]
    /\ frames \in Seq(Frame)

Kept ==
    /\ GuardsTyped'
    /\ GuardsBalanced'
    /\ IdleIsDisarmed'
    /\ PollFrames'
    /\ DeadlineStep

\* GuardsBalanced is Balanced of the state as it stands.
LEMMA BalancedNow ==
    /\ GuardsBalanced <=> Balanced(depth, Len(active), frames, held)
    /\ GuardsBalanced' <=> Balanced(depth', Len(active'), frames', held')
BY DEF GuardsBalanced, FrameGuards, FutureGuards, Balanced, Owners, OwnersFor,
       FuturesFor

\* ActiveGuest::new counts one level and pushes one entry, and an armed
\* deadline stays where it is.
LEMMA ActivateStep ==
    ASSUME TypeOK, IdleIsDisarmed, NEW g \in Guests, NEW activation,
           Activate(g, activation)
    PROVE  /\ active' \in Seq(Guests)
           /\ Len(active') = Len(active) + 1
           /\ depth' = [depth EXCEPT ![g] = @ + 1]
           /\ depth' \in [Guests -> Nat]
           /\ deadline' \in [Guests -> Nat \union {Disarmed}]
           /\ IdleIsDisarmed'
           /\ DeadlineStep
<1>1. active' \in Seq(Guests) /\ Len(active') = Len(active) + 1
  BY AppendProperties DEF TypeOK, Activate
<1>2. depth' = [depth EXCEPT ![g] = @ + 1] /\ depth' \in [Guests -> Nat]
  BY DEF TypeOK, Activate
<1>3. /\ Budget[g] # Unlimited => now + Budget[g] \in Nat
  BY GuestsAssumption DEF TypeOK
<1>4. deadline' \in [Guests -> Nat \union {Disarmed}]
  BY <1>3 DEF TypeOK, Activate
<1>5. \A k \in Guests : deadline'[k] = deadline[k] \/ (k = g /\ deadline[g] = Disarmed)
  BY DEF TypeOK, Activate
<1>6. depth'[g] # 0 /\ \A k \in Guests : k # g => depth'[k] = depth[k]
  BY DEF TypeOK, Activate
<1>7. IdleIsDisarmed'
  BY <1>5, <1>6 DEF IdleIsDisarmed
<1>8. DeadlineStep
  BY <1>5 DEF DeadlineStep
<1>9. QED
  BY <1>1, <1>2, <1>4, <1>7, <1>8

\* Drop for ActiveGuest takes one level and one entry away, and disarms the
\* deadline only with the last level.
LEMMA ReleaseStep ==
    ASSUME TypeOK, IdleIsDisarmed, NEW g \in Guests,
           depth[g] >= 1, Len(active) >= 1, Release(g)
    PROVE  /\ active' \in Seq(Guests)
           /\ Len(active') = Len(active) - 1
           /\ depth' = [depth EXCEPT ![g] = @ - 1]
           /\ depth' \in [Guests -> Nat]
           /\ deadline' \in [Guests -> Nat \union {Disarmed}]
           /\ IdleIsDisarmed'
           /\ DeadlineStep
<1>1. Len(active) \in Nat /\ \A i \in 1 .. Len(active) - 1 : active[i] \in Guests
  BY LenProperties, ElementOfSeq DEF TypeOK
<1>2. active' \in Seq(Guests) /\ Len(active') = Len(active) - 1
  <2>1. /\ SubSeq(active, 1, Len(active) - 1) \in Seq(Guests)
        /\ Len(SubSeq(active, 1, Len(active) - 1)) =
             IF 1 <= Len(active) - 1 THEN (Len(active) - 1) - 1 + 1 ELSE 0
    BY <1>1, SubSeqProperties
  <2>2. active' = SubSeq(active, 1, Len(active) - 1)
    BY DEF Release
  <2>3. /\ active' \in Seq(Guests)
        /\ Len(active') = IF 1 <= Len(active) - 1 THEN (Len(active) - 1) - 1 + 1 ELSE 0
    BY <2>1, <2>2, Zenon
  <2>4. \A m \in Nat : m >= 1 =>
          (IF 1 <= m - 1 THEN (m - 1) - 1 + 1 ELSE 0) = m - 1
    OBVIOUS
  <2>5. QED
    BY <1>1, <2>3, <2>4, Zenon
<1>3. depth' = [depth EXCEPT ![g] = @ - 1] /\ depth' \in [Guests -> Nat]
  BY DEF TypeOK, Release
<1>4. deadline' \in [Guests -> Nat \union {Disarmed}]
  BY DEF TypeOK, Release
<1>5. depth'[g] = depth[g] - 1 /\ \A k \in Guests : k # g => depth'[k] = depth[k]
  BY DEF TypeOK, Release
<1>6. \A k \in Guests : k # g => deadline'[k] = deadline[k]
  BY DEF TypeOK, Release
<1>7. deadline'[g] = IF depth'[g] = 0 THEN Disarmed ELSE deadline[g]
  BY <1>5 DEF TypeOK, Release
<1>8. IdleIsDisarmed'
  BY <1>5, <1>6, <1>7 DEF IdleIsDisarmed
<1>9. DeadlineStep
  BY <1>6, <1>7 DEF DeadlineStep
<1>10. QED
  BY <1>2, <1>3, <1>4, <1>8, <1>9

\* A step that takes and drops no guard leaves the guards as they are.
LEMMA UnchangedGuards ==
    ASSUME TypeOK, IdleIsDisarmed, UNCHANGED guards
    PROVE  /\ active' \in Seq(Guests) /\ Len(active') = Len(active)
           /\ depth' = depth /\ depth' \in [Guests -> Nat]
           /\ deadline' \in [Guests -> Nat \union {Disarmed}]
           /\ IdleIsDisarmed'
           /\ DeadlineStep
BY DEF TypeOK, IdleIsDisarmed, DeadlineStep, guards

-----------------------------------------------------------------------------
(* One lemma for each way a step changes the guards and the call stack.    *)

\* A call other than a poll is opened, with a guard of its own or without.
LEMMA OpenKeeps ==
    ASSUME IInv, NEW g \in Guests, NEW kind \in Kinds \ {"poll"},
           NEW owns \in BOOLEAN, Open(kind, g, owns, NoFuture),
           owns => \E activation : Activate(g, activation),
           ~owns => UNCHANGED guards,
           UNCHANGED held
    PROVE  Kept
<1> DEFINE r == [kind |-> kind, guest |-> g, owns |-> owns, fut |-> NoFuture]
<1>1. r \in Frame /\ frames' = Append(frames, r)
  BY DEF Frame, Open
<1>2. /\ frames \in Seq(Frame) /\ depth \in [Guests -> Nat]
      /\ Len(active) \in Nat /\ held \in SUBSET Futures
      /\ Balanced(depth, Len(active), frames, held)
  BY BalancedNow, LenProperties DEF IInv, TypeOK
<1>3. frames' \in Seq(Frame)
  BY <1>1, <1>2, AppendProperties
<1>4. PollFrames'
  <2>1. /\ DOMAIN frames' = 1 .. Len(frames) + 1
        /\ DOMAIN frames = 1 .. Len(frames)
        /\ Len(frames) \in Nat
        /\ \A i \in 1 .. Len(frames) : frames'[i] = frames[i]
        /\ frames'[Len(frames) + 1] = r
    BY <1>1, <1>2, AppendProperties, LenProperties
  <2>2. PollFrames /\ held' = held
    BY DEF IInv
  <2>3. \A i \in DOMAIN frames' : i \in DOMAIN frames \/ frames'[i] = r
    BY <2>1
  <2>4. r.kind # "poll" /\ r.fut = NoFuture
    OBVIOUS
  <2> HIDE DEF r
  <2>5. QED
    BY <2>1, <2>2, <2>3, <2>4 DEF PollFrames
<1>5. CASE owns
  <2>1. PICK activation : Activate(g, activation)
    BY <1>5
  <2>2. /\ active' \in Seq(Guests) /\ Len(active') = Len(active) + 1
        /\ depth' = [depth EXCEPT ![g] = @ + 1] /\ depth' \in [Guests -> Nat]
        /\ deadline' \in [Guests -> Nat \union {Disarmed}]
        /\ IdleIsDisarmed' /\ DeadlineStep
    BY <2>1, ActivateStep DEF IInv
  <2>3. Balanced([depth EXCEPT ![r.guest] = @ + 1], Len(active) + 1,
                 Append(frames, r), held)
    BY <1>1, <1>2, <1>5, BalancedOpen
  <2>4. GuardsBalanced'
    BY <1>1, <2>2, <2>3, BalancedNow
  <2>5. QED
    BY <1>3, <1>4, <2>2, <2>4 DEF Kept, GuardsTyped
<1>6. CASE ~owns
  <2>1. /\ active' \in Seq(Guests) /\ Len(active') = Len(active)
        /\ depth' = depth /\ depth' \in [Guests -> Nat]
        /\ deadline' \in [Guests -> Nat \union {Disarmed}]
        /\ IdleIsDisarmed' /\ DeadlineStep
    BY <1>6, UnchangedGuards DEF IInv
  <2>2. Balanced(depth, Len(active), Append(frames, r), held)
    BY <1>1, <1>2, <1>6, BalancedOpen
  <2>3. GuardsBalanced'
    BY <1>1, <2>1, <2>2, BalancedNow
  <2>4. QED
    BY <1>3, <1>4, <2>1, <2>3 DEF Kept, GuardsTyped
<1>7. QED
  BY <1>5, <1>6

\* The innermost call returns, and only its own guard goes with it.
LEMMA ReturnKeeps ==
    ASSUME IInv, frames # <<>>, PopFrame, UNCHANGED held,
           Top.owns => Release(Top.guest),
           ~Top.owns => UNCHANGED guards
    PROVE  Kept
<1> DEFINE n == Len(frames)
<1>1. /\ frames \in Seq(Frame) /\ depth \in [Guests -> Nat]
      /\ Len(active) \in Nat /\ held \in SUBSET Futures
      /\ Balanced(depth, Len(active), frames, held)
  BY BalancedNow, LenProperties DEF IInv, TypeOK
<1>2. /\ frames' \in Seq(Frame)
      /\ n \in Nat \ {0} /\ Len(frames') = n - 1
      /\ \A i \in 1 .. Len(frames') : frames'[i] = frames[i]
      /\ Top \in Frame
  BY <1>1, OwnersPop DEF PopFrame, Top
<1>3. PollFrames'
  <2>1. DOMAIN frames' = 1 .. n - 1 /\ DOMAIN frames = 1 .. n
    BY <1>1, <1>2, LenProperties
  <2>2. \A i \in DOMAIN frames' : i \in DOMAIN frames /\ frames'[i] = frames[i]
    BY <1>2, <2>1
  <2>3. PollFrames /\ held' = held
    BY DEF IInv
  <2>4. QED
    BY <2>2, <2>3 DEF PollFrames
<1>4. Top.guest \in Guests /\ Top.owns \in BOOLEAN
  BY <1>2 DEF Frame
<1>5. /\ ~Top.owns => Balanced(depth, Len(active), frames', held)
      /\ Top.owns => /\ depth[Top.guest] >= 1
                     /\ Len(active) >= 1
                     /\ Balanced([depth EXCEPT ![Top.guest] = @ - 1],
                                 Len(active) - 1, frames', held)
  BY <1>1, BalancedPop DEF PopFrame, Top
<1>6. CASE Top.owns
  <2>1. /\ active' \in Seq(Guests) /\ Len(active') = Len(active) - 1
        /\ depth' = [depth EXCEPT ![Top.guest] = @ - 1]
        /\ depth' \in [Guests -> Nat]
        /\ deadline' \in [Guests -> Nat \union {Disarmed}]
        /\ IdleIsDisarmed' /\ DeadlineStep
    BY <1>4, <1>5, <1>6, ReleaseStep DEF IInv
  <2>2. GuardsBalanced'
    BY <1>5, <1>6, <2>1, BalancedNow
  <2>3. QED
    BY <1>2, <1>3, <2>1, <2>2 DEF Kept, GuardsTyped
<1>7. CASE ~Top.owns
  <2>1. /\ active' \in Seq(Guests) /\ Len(active') = Len(active)
        /\ depth' = depth /\ depth' \in [Guests -> Nat]
        /\ deadline' \in [Guests -> Nat \union {Disarmed}]
        /\ IdleIsDisarmed' /\ DeadlineStep
    BY <1>7, UnchangedGuards DEF IInv
  <2>2. GuardsBalanced'
    BY <1>5, <1>7, <2>1, BalancedNow
  <2>3. QED
    BY <1>2, <1>3, <2>1, <2>2 DEF Kept, GuardsTyped
<1>8. QED
  BY <1>6, <1>7

\* A poll takes the future's guard, unless an earlier one did.
LEMMA HoldStep ==
    ASSUME IInv, NEW f \in Futures, Hold(f)
    PROVE  /\ held' = held \union {f} /\ held' \in SUBSET Futures
           /\ active' \in Seq(Guests) /\ Len(active') \in Nat
           /\ depth' \in [Guests -> Nat]
           /\ deadline' \in [Guests -> Nat \union {Disarmed}]
           /\ IdleIsDisarmed' /\ DeadlineStep
           /\ Balanced(depth', Len(active'), frames, held')
<1>1. /\ frames \in Seq(Frame) /\ depth \in [Guests -> Nat]
      /\ Len(active) \in Nat /\ held \in SUBSET Futures
      /\ Balanced(depth, Len(active), frames, held)
  BY BalancedNow, LenProperties DEF IInv, TypeOK
<1>2. GuestOf[f] \in Guests
  BY GuestsAssumption
<1>3. CASE f \in held /\ UNCHANGED guards /\ UNCHANGED held
  <2>1. /\ active' \in Seq(Guests) /\ Len(active') = Len(active)
        /\ depth' = depth /\ depth' \in [Guests -> Nat]
        /\ deadline' \in [Guests -> Nat \union {Disarmed}]
        /\ IdleIsDisarmed' /\ DeadlineStep
    BY <1>3, UnchangedGuards DEF IInv
  <2>2. held' = held /\ held \union {f} = held
    BY <1>3
  <2>3. QED
    BY <1>1, <2>1, <2>2
<1>4. CASE /\ f \notin held
           /\ Activate(GuestOf[f], "operation")
           /\ held' = held \union {f}
  <2>1. /\ active' \in Seq(Guests) /\ Len(active') = Len(active) + 1
        /\ depth' = [depth EXCEPT ![GuestOf[f]] = @ + 1]
        /\ depth' \in [Guests -> Nat]
        /\ deadline' \in [Guests -> Nat \union {Disarmed}]
        /\ IdleIsDisarmed' /\ DeadlineStep
    BY <1>2, <1>4, ActivateStep DEF IInv
  <2>2. Balanced([depth EXCEPT ![GuestOf[f]] = @ + 1], Len(active) + 1, frames,
                 held \union {f})
    BY <1>1, <1>4, BalancedFuture
  <2>3. QED
    BY <1>1, <1>4, <2>1, <2>2
<1>5. QED
  BY <1>3, <1>4 DEF Hold

\* A poll that runs keeps the invariant.
LEMMA PollKeeps ==
    ASSUME IInv, NEW f \in Futures, Poll(f)
    PROVE  Kept /\ held' \in SUBSET Futures
<1> DEFINE r == [kind |-> "poll", guest |-> GuestOf[f], owns |-> FALSE, fut |-> f]
<1>1. /\ held' = held \union {f} /\ held' \in SUBSET Futures
      /\ active' \in Seq(Guests) /\ Len(active') \in Nat
      /\ depth' \in [Guests -> Nat]
      /\ deadline' \in [Guests -> Nat \union {Disarmed}]
      /\ IdleIsDisarmed' /\ DeadlineStep
      /\ Balanced(depth', Len(active'), frames, held')
  BY HoldStep DEF Poll
<1>2. frames' = Append(frames, r) /\ ~BeingPolled(f)
  BY DEF Poll, Open, MayPoll
<1>3. r \in Frame /\ frames \in Seq(Frame)
  BY GuestsAssumption DEF Frame, Kinds, IInv, TypeOK
<1>4. frames' \in Seq(Frame)
  BY <1>2, <1>3, AppendProperties
<1>5. GuardsBalanced'
  <2>1. ~r.owns
    OBVIOUS
  <2>2. Balanced(depth', Len(active'), Append(frames, r), held')
    BY <1>1, <1>3, <2>1, BalancedOpen
  <2>3. QED
    BY <1>2, <2>2, BalancedNow
<1>6. PollFrames'
  <2>1. /\ DOMAIN frames' = 1 .. Len(frames) + 1
        /\ DOMAIN frames = 1 .. Len(frames)
        /\ Len(frames) \in Nat
        /\ \A i \in 1 .. Len(frames) : frames'[i] = frames[i]
        /\ frames'[Len(frames) + 1] = r
    BY <1>2, <1>3, AppendProperties, LenProperties
  <2>2. \A i \in DOMAIN frames : frames[i].fut # f
    BY <1>2 DEF BeingPolled
  <2>3. /\ r.kind = "poll" /\ r.fut = f /\ r.guest = GuestOf[f]
        /\ ~r.owns
    OBVIOUS
  <2>4. \A i \in DOMAIN frames' :
          (i \in DOMAIN frames /\ frames'[i] = frames[i])
            \/ (i = Len(frames) + 1 /\ frames'[i] = r)
    BY <2>1
  <2>5. PollFrames
    BY DEF IInv
  <2> HIDE DEF r
  <2>6. QED
    BY <1>1, <2>2, <2>3, <2>4, <2>5 DEF PollFrames
<1>7. QED
  BY <1>1, <1>4, <1>5, <1>6 DEF Kept, GuardsTyped

\* A poll that the policy aborts keeps the invariant.
LEMMA PollAbortedKeeps ==
    ASSUME IInv, NEW f \in Futures, PollAborted(f)
    PROVE  Kept /\ held' \in SUBSET Futures
<1>1. /\ held' = held \union {f} /\ held' \in SUBSET Futures
      /\ active' \in Seq(Guests) /\ Len(active') \in Nat
      /\ depth' \in [Guests -> Nat]
      /\ deadline' \in [Guests -> Nat \union {Disarmed}]
      /\ IdleIsDisarmed' /\ DeadlineStep
      /\ Balanced(depth', Len(active'), frames, held')
  BY HoldStep DEF PollAborted
<1>2. frames' = frames
  BY DEF PollAborted
<1>3. GuardsBalanced'
  BY <1>1, <1>2, BalancedNow
<1>4. PollFrames'
  BY <1>1, <1>2 DEF IInv, PollFrames
<1>5. frames' \in Seq(Frame)
  BY <1>2 DEF IInv, TypeOK
<1>6. QED
  BY <1>1, <1>3, <1>4, <1>5 DEF Kept, GuardsTyped

\* Dropping a future takes at most its own guard.
LEMMA DropFutureKeeps ==
    ASSUME IInv, NEW f \in Futures, DropFuture(f)
    PROVE  Kept /\ held' \in SUBSET Futures
<1>1. /\ frames \in Seq(Frame) /\ depth \in [Guests -> Nat]
      /\ Len(active) \in Nat /\ held \in SUBSET Futures
      /\ Balanced(depth, Len(active), frames, held)
  BY BalancedNow, LenProperties DEF IInv, TypeOK
<1>2. /\ frames' = frames /\ held' = held \ {f}
      /\ \A i \in DOMAIN frames : frames[i].fut # f
  BY DEF DropFuture, BeingPolled
<1>3. PollFrames'
  BY <1>2 DEF IInv, PollFrames
<1>4. GuestOf[f] \in Guests
  BY GuestsAssumption
<1>5. CASE f \in held
  <2>1. Release(GuestOf[f])
    BY <1>5 DEF DropFuture
  <2>2. /\ depth[GuestOf[f]] >= 1
        /\ Len(active) >= 1
        /\ Balanced([depth EXCEPT ![GuestOf[f]] = @ - 1], Len(active) - 1,
                    frames, held \ {f})
    BY <1>1, <1>5, BalancedFuture
  <2>3. /\ active' \in Seq(Guests) /\ Len(active') = Len(active) - 1
        /\ depth' = [depth EXCEPT ![GuestOf[f]] = @ - 1]
        /\ depth' \in [Guests -> Nat]
        /\ deadline' \in [Guests -> Nat \union {Disarmed}]
        /\ IdleIsDisarmed' /\ DeadlineStep
    BY <1>4, <2>1, <2>2, ReleaseStep DEF IInv
  <2>4. GuardsBalanced'
    BY <1>2, <2>2, <2>3, BalancedNow
  <2>5. QED
    BY <1>1, <1>2, <1>3, <2>3, <2>4 DEF Kept, GuardsTyped
<1>6. CASE f \notin held
  <2>1. UNCHANGED guards /\ held' = held
    BY <1>2, <1>6 DEF DropFuture
  <2>2. /\ active' \in Seq(Guests) /\ Len(active') = Len(active)
        /\ depth' = depth /\ depth' \in [Guests -> Nat]
        /\ deadline' \in [Guests -> Nat \union {Disarmed}]
        /\ IdleIsDisarmed' /\ DeadlineStep
    BY <2>1, UnchangedGuards DEF IInv
  <2>3. GuardsBalanced'
    BY <1>1, <1>2, <2>1, <2>2, BalancedNow
  <2>4. QED
    BY <1>1, <1>2, <1>3, <2>1, <2>2, <2>3 DEF Kept, GuardsTyped
<1>7. QED
  BY <1>5, <1>6

\* A poll ends; the guard of a scope that is finished goes with it.
LEMMA PollReturnsKeeps ==
    ASSUME IInv, PollReturns
    PROVE  Kept /\ held' \in SUBSET Futures
<1> DEFINE n == Len(frames)
<1>1. /\ frames \in Seq(Frame) /\ depth \in [Guests -> Nat]
      /\ Len(active) \in Nat /\ held \in SUBSET Futures
      /\ Balanced(depth, Len(active), frames, held)
  BY BalancedNow, LenProperties DEF IInv, TypeOK
<1>2. frames # <<>> /\ frames' = SubSeq(frames, 1, n - 1) /\ Top = frames[n]
  BY DEF PollReturns, PopFrame, Top
<1>3. /\ frames' \in Seq(Frame)
      /\ n \in Nat \ {0} /\ Len(frames') = n - 1
      /\ \A i \in 1 .. Len(frames') : frames'[i] = frames[i]
      /\ Top \in Frame
  BY <1>1, <1>2, OwnersPop
<1>4. DOMAIN frames' = 1 .. n - 1 /\ DOMAIN frames = 1 .. n
  BY <1>1, <1>3, LenProperties
<1>5. \A i \in DOMAIN frames' :
        i \in DOMAIN frames /\ i # n /\ frames'[i] = frames[i]
  BY <1>3, <1>4
<1>6. n \in DOMAIN frames /\ PollFrames /\ Top.kind = "poll"
  BY <1>3, <1>4 DEF IInv, PollReturns
<1>7. Top.fut \in held /\ Top.guest = GuestOf[Top.fut] /\ ~Top.owns
  BY <1>2, <1>6 DEF PollFrames
<1>8. Top.guest \in Guests /\ Top.fut \in Futures
  BY <1>1, <1>3, <1>7 DEF Frame
<1>9. Balanced(depth, Len(active), frames', held)
  BY <1>1, <1>2, <1>7, BalancedPop
<1>10. CASE UNCHANGED <<held, guards>>
  <2>1. /\ active' \in Seq(Guests) /\ Len(active') = Len(active)
        /\ depth' = depth /\ depth' \in [Guests -> Nat]
        /\ deadline' \in [Guests -> Nat \union {Disarmed}]
        /\ IdleIsDisarmed' /\ DeadlineStep /\ held' = held
    BY <1>10, UnchangedGuards DEF IInv
  <2>2. GuardsBalanced'
    BY <1>9, <2>1, BalancedNow
  <2>3. PollFrames'
    BY <1>5, <1>6, <2>1 DEF PollFrames
  <2>4. QED
    BY <1>1, <1>3, <2>1, <2>2, <2>3 DEF Kept, GuardsTyped
<1>11. CASE Release(Top.guest) /\ held' = held \ {Top.fut}
  <2>1. /\ depth[Top.guest] >= 1 /\ Len(active) >= 1
        /\ Balanced([depth EXCEPT ![Top.guest] = @ - 1], Len(active) - 1,
                    frames', held \ {Top.fut})
    BY <1>1, <1>3, <1>7, <1>8, <1>9, BalancedFuture
  <2>2. /\ active' \in Seq(Guests) /\ Len(active') = Len(active) - 1
        /\ depth' = [depth EXCEPT ![Top.guest] = @ - 1]
        /\ depth' \in [Guests -> Nat]
        /\ deadline' \in [Guests -> Nat \union {Disarmed}]
        /\ IdleIsDisarmed' /\ DeadlineStep
    BY <1>8, <1>11, <2>1, ReleaseStep DEF IInv
  <2>3. GuardsBalanced'
    BY <1>11, <2>1, <2>2, BalancedNow
  <2>4. \A i \in DOMAIN frames' : frames[i].kind = "poll" => frames[i].fut # Top.fut
    BY <1>2, <1>5, <1>6 DEF PollFrames
  <2>5. PollFrames'
    BY <1>5, <1>6, <1>11, <2>4 DEF PollFrames
  <2>6. QED
    BY <1>1, <1>3, <1>11, <2>2, <2>3, <2>5 DEF Kept, GuardsTyped
<1>12. QED
  BY <1>10, <1>11 DEF PollReturns

-----------------------------------------------------------------------------
(* Every step preserves the invariant.                                     *)

RestTyped ==
    /\ phase \in [Futures -> {"idle", "pending", "ready"}]
    /\ driven \subseteq Guests
    /\ closed \subseteq Guests
    /\ dropped \subseteq Guests
    /\ cancelled \in BOOLEAN
    /\ now \in Nat

\* Every call that goes through enter_with keeps the invariant.
LEMMA EnterWithKeeps ==
    ASSUME IInv, NEW g \in Guests, NEW kind \in Kinds \ {"poll"}, NEW activation,
           EnterWith(kind, activation, g), UNCHANGED held
    PROVE  Kept
<1>1. CASE Open(kind, g, FALSE, NoFuture) /\ UNCHANGED guards
  BY <1>1, OpenKeeps
<1>2. CASE Activate(g, activation) /\ Open(kind, g, TRUE, NoFuture)
  BY <1>2, OpenKeeps
<1>3. QED
  BY <1>1, <1>2 DEF EnterWith

\* A step that leaves the guards, the call stack and the futures alone.
LEMMA AsideKeeps ==
    ASSUME IInv, UNCHANGED <<guards, frames, held>>
    PROVE  Kept
<1>1. /\ active' = active /\ depth' = depth /\ deadline' = deadline
      /\ frames' = frames /\ held' = held
  BY DEF guards
<1>2. GuardsTyped'
  BY <1>1 DEF IInv, TypeOK, GuardsTyped
<1>3. GuardsBalanced'
  BY <1>1 DEF IInv, GuardsBalanced, FrameGuards, FutureGuards
<1>4. IdleIsDisarmed' /\ DeadlineStep
  BY <1>1 DEF IInv, IdleIsDisarmed, DeadlineStep
<1>5. PollFrames'
  BY <1>1 DEF IInv, PollFrames
<1>6. QED
  BY <1>2, <1>3, <1>4, <1>5 DEF Kept

\* Every action keeps the invariant and takes a DeadlineStep.
LEMMA StepKeeps ==
    ASSUME IInv, [Next]_vars
    PROVE  Kept /\ held' \subseteq Futures /\ RestTyped'
<1> USE DEF RestTyped
<1>1. held \subseteq Futures /\ RestTyped
  BY DEF IInv, TypeOK
<1>2. /\ {"operation", "cleanup", "callback", "advance", "drain"}
           \subseteq Kinds \ {"poll"}
  BY DEF Kinds
<1>3. ASSUME NEW g \in Guests, Enter(g)
      PROVE  Kept /\ held' \subseteq Futures /\ RestTyped'
  BY <1>1, <1>2, <1>3, EnterWithKeeps DEF Enter
<1>4. ASSUME NEW g \in Guests, Callback(g)
      PROVE  Kept /\ held' \subseteq Futures /\ RestTyped'
  <2>1. Kept
    BY <1>2, <1>4, OpenKeeps DEF Callback
  <2>2. QED
    BY <1>1, <1>4, <2>1 DEF Callback
<1>5. ASSUME NEW g \in Guests, Close(g)
      PROVE  Kept /\ held' \subseteq Futures /\ RestTyped'
  BY <1>1, <1>2, <1>5, EnterWithKeeps DEF Close
<1>6. ASSUME NEW g \in Guests, Advance(g)
      PROVE  Kept /\ held' \subseteq Futures /\ RestTyped'
  <2>1. Kept
    BY <1>2, <1>6, OpenKeeps DEF Advance
  <2>2. QED
    BY <1>1, <1>6, <2>1 DEF Advance
<1>7. ASSUME NEW g \in Guests, DrainPass(g)
      PROVE  Kept /\ held' \subseteq Futures /\ RestTyped'
  BY <1>1, <1>2, <1>7, EnterWithKeeps DEF DrainPass
<1>8. ASSUME NEW g \in Guests, DrainRound(g)
      PROVE  Kept /\ held' \subseteq Futures /\ RestTyped'
  <2>1. Kept
    BY <1>2, <1>8, OpenKeeps DEF DrainRound
  <2>2. QED
    BY <1>1, <1>8, <2>1 DEF DrainRound
<1>9. ASSUME NEW g \in Guests, CloseDriver(g)
      PROVE  Kept /\ held' \subseteq Futures /\ RestTyped'
  <2>1. Kept
    BY <1>9, AsideKeeps DEF CloseDriver
  <2>2. QED
    BY <1>1, <1>9, <2>1 DEF CloseDriver
<1>10. ASSUME NEW g \in Guests, DropGuest(g)
       PROVE  Kept /\ held' \subseteq Futures /\ RestTyped'
  <2>1. Kept
    BY <1>10, AsideKeeps DEF DropGuest
  <2>2. QED
    BY <1>1, <1>10, <2>1 DEF DropGuest
<1>11. ASSUME NEW f \in Futures, PollRefused(f)
       PROVE  Kept /\ held' \subseteq Futures /\ RestTyped'
  <2>1. Kept
    BY <1>11, AsideKeeps DEF PollRefused
  <2>2. QED
    BY <1>1, <1>11, <2>1 DEF PollRefused
<1>12. ASSUME NEW f \in Futures, PollAborted(f)
       PROVE  Kept /\ held' \subseteq Futures /\ RestTyped'
  BY <1>1, <1>12, PollAbortedKeeps DEF PollAborted
<1>13. ASSUME NEW f \in Futures, Poll(f)
       PROVE  Kept /\ held' \subseteq Futures /\ RestTyped'
  <2>1. GuestOf[f] \in Guests
    BY GuestsAssumption
  <2>2. QED
    BY <1>1, <1>13, <2>1, PollKeeps DEF Poll
<1>14. ASSUME NEW f \in Futures, DropFuture(f)
       PROVE  Kept /\ held' \subseteq Futures /\ RestTyped'
  BY <1>1, <1>14, DropFutureKeeps DEF DropFuture
<1>15. ASSUME Return
       PROVE  Kept /\ held' \subseteq Futures /\ RestTyped'
  <2>1. frames \in Seq(Frame) /\ frames # <<>>
    BY <1>15 DEF IInv, TypeOK, Return
  <2>2. Top \in Frame
    BY <2>1, OwnersPop DEF Top
  <2>3. Top.guest \in Guests /\ Top.owns \in BOOLEAN
    BY <2>2 DEF Frame
  <2>4. Kept
    BY <1>15, <2>3, ReturnKeeps DEF Return, ReleaseIfOwned
  <2>5. QED
    BY <1>1, <1>15, <2>3, <2>4 DEF Return
<1>16. ASSUME PollReturns
       PROVE  Kept /\ held' \subseteq Futures /\ RestTyped'
  BY <1>1, <1>16, PollReturnsKeeps DEF PollReturns
<1>17. ASSUME Cancel
       PROVE  Kept /\ held' \subseteq Futures /\ RestTyped'
  BY <1>1, <1>17, AsideKeeps DEF Cancel
<1>18. ASSUME Tick
       PROVE  Kept /\ held' \subseteq Futures /\ RestTyped'
  BY <1>1, <1>18, AsideKeeps DEF Tick
<1>19. ASSUME UNCHANGED vars
       PROVE  Kept /\ held' \subseteq Futures /\ RestTyped'
  BY <1>1, <1>19, AsideKeeps DEF vars, guards
<1>20. QED
  BY <1>3, <1>4, <1>5, <1>6, <1>7, <1>8, <1>9, <1>10, <1>11, <1>12, <1>13,
     <1>14, <1>15, <1>16, <1>17, <1>18, <1>19 DEF Next

\* The invariant holds before any guest has run.
LEMMA InitIInv == Init => IInv
<1> SUFFICES ASSUME Init PROVE IInv
  OBVIOUS
<1>1. frames = <<>> /\ active = <<>> /\ held = {}
  BY DEF Init
<1>2. DOMAIN frames = {} /\ Len(active) = 0
  BY <1>1
<1>3. TypeOK
  <2>1. active \in Seq(Guests) /\ frames \in Seq(Frame)
    BY <1>1, EmptySeq
  <2>2. /\ depth \in [Guests -> Nat]
        /\ deadline \in [Guests -> Nat \union {Disarmed}]
    BY DEF Init
  <2>3. /\ phase \in [Futures -> {"idle", "pending", "ready"}]
        /\ held \subseteq Futures /\ driven \subseteq Guests
        /\ closed \subseteq Guests /\ dropped \subseteq Guests
        /\ cancelled \in BOOLEAN /\ now \in Nat
    BY DEF Init
  <2>4. QED
    BY <2>1, <2>2, <2>3 DEF TypeOK
<1>4. GuardsBalanced
  <2>1. \A g \in Guests : FrameGuards(g) = {} /\ FutureGuards(g) = {}
    BY <1>1, <1>2 DEF FrameGuards, FutureGuards
  <2>2. {i \in DOMAIN frames : frames[i].owns} = {}
    BY <1>2
  <2>3. Cardinality({}) = 0
    BY FS_EmptySet
  <2>4. \A g \in Guests : depth[g] = 0
    BY DEF Init
  <2>5. ASSUME NEW g \in Guests
        PROVE  depth[g] = Cardinality(FrameGuards(g)) + Cardinality(FutureGuards(g))
    <3>1. FrameGuards(g) = {} /\ FutureGuards(g) = {} /\ depth[g] = 0
      BY <2>1, <2>4
    <3>2. QED
      BY <2>3, <3>1
  <2>6. Len(active) = Cardinality({i \in DOMAIN frames : frames[i].owns})
                        + Cardinality(held)
    BY <1>1, <1>2, <2>2, <2>3
  <2>7. QED
    BY <2>5, <2>6 DEF GuardsBalanced
<1>5. IdleIsDisarmed /\ PollFrames
  BY <1>2 DEF Init, IdleIsDisarmed, PollFrames
<1>6. QED
  BY <1>3, <1>4, <1>5 DEF IInv

\* The invariant is inductive.
LEMMA StepIInv == IInv /\ [Next]_vars => IInv'
BY StepKeeps DEF IInv, TypeOK, Kept, GuardsTyped, RestTyped

-----------------------------------------------------------------------------
(* The theorems.                                                           *)

\* The invariant holds in every reachable state.
LEMMA Inductive == Spec => []IInv
BY InitIInv, StepIInv, PTL DEF Spec

\* The state of guards, calls and futures is always well typed; in particular
\* no guard ever drops a depth below zero.
THEOREM TypeCorrect == Spec => []TypeOK
<1>1. IInv => TypeOK
  BY DEF IInv
<1>2. QED
  BY <1>1, Inductive, PTL

\* Neither expectation in Drop for ActiveGuest ("active guest depth is
\* balanced", "active guest stack is balanced") can fail, for any number of
\* guests and futures and whatever order their guards are dropped in.
THEOREM Balance == Spec => []GuardsBalanced
<1>1. IInv => GuardsBalanced
  BY DEF IInv
<1>2. QED
  BY <1>1, Inductive, PTL

\* A guest nothing runs in has no deadline armed, so the deadline of one
\* activity never cuts the next one short.
THEOREM Disarming == Spec => []IdleIsDisarmed
<1>1. IInv => IdleIsDisarmed
  BY DEF IInv
<1>2. QED
  BY <1>1, Inductive, PTL

\* No step re-arms or moves an armed deadline; it is disarmed only by the
\* step that ends the guest's outermost activity.
THEOREM DeadlineIsKept == Spec => DeadlineKept
<1>1. IInv /\ [Next]_vars => DeadlineStep
  BY StepKeeps DEF Kept
<1>2. QED
  BY <1>1, Inductive, PTL DEF Spec, DeadlineKept

\* While a future is polled it holds its guard and its guest is active.
THEOREM PollsAreHeld == Spec => []PolledIsHeld
<1>1. ASSUME IInv PROVE PolledIsHeld
  <2>1. SUFFICES ASSUME NEW i \in DOMAIN frames, frames[i].kind = "poll"
                 PROVE  frames[i].fut \in held /\ depth[frames[i].guest] > 0
    BY DEF PolledIsHeld
  <2> DEFINE f == frames[i].fut
             g == frames[i].guest
  <2>2. f \in held /\ g = GuestOf[f]
    BY <1>1, <2>1 DEF IInv, PollFrames
  <2>3. f \in Futures /\ frames \in Seq(Frame) /\ held \in SUBSET Futures
    BY <1>1, <2>2 DEF IInv, TypeOK
  <2>4. g \in Guests
    BY <2>2, <2>3, GuestsAssumption
  <2>5. Balanced(depth, Len(active), frames, held)
    BY <1>1, BalancedNow DEF IInv
  <2>6. depth \in [Guests -> Nat] /\ Len(active) \in Nat
    BY <1>1, LenProperties DEF IInv, TypeOK
  <2>7. depth[GuestOf[f]] >= 1
    BY <2>2, <2>3, <2>5, <2>6, BalancedFuture
  <2>8. QED
    BY <2>2, <2>4, <2>6, <2>7
<1>2. QED
  BY <1>1, Inductive, PTL

-----------------------------------------------------------------------------
(* The stack of active guests when no future keeps a guard: every guard is *)
(* then a local of a Rust call, the stack is last in, first out, and its   *)
(* top is the guest whose code runs.  With two coroutines of two guests,   *)
(* polled in turn, what follows is false.                                  *)

\* No future keeps a guard from poll to poll.
Synchronous == Futures = {}

\* h maps each call on s to the entry of a that was on top when it began: its
\* own guest's.  The calls that took a guard pushed theirs.
Heights(h, s, a) ==
    /\ h \in [0 .. Len(s) -> 0 .. Len(a)]
    /\ h[0] = 0
    /\ h[Len(s)] = Len(a)
    /\ \A i, j \in 0 .. Len(s) : i <= j => h[i] <= h[j]
    /\ \A i \in 1 .. Len(s) :
         /\ h[i] = IF s[i].owns THEN h[i - 1] + 1 ELSE h[i - 1]
         /\ h[i] > 0
         /\ a[h[i]] = s[i].guest

\* The entries of a are the guards of the calls on s, in their order.
Stacked(s, a) == \E h : Heights(h, s, a)

\* Each call runs on a guard taken by itself or by a call below it.
Covered(s) ==
    \A i \in 1 .. Len(s) :
        \E j \in 1 .. i : s[j].owns /\ s[j].guest = s[i].guest

\* No guest is dropped while a call is under way in it.
Alive(s, D) == \A i \in 1 .. Len(s) : s[i].guest \notin D

SInv ==
    /\ Synchronous
    /\ IInv
    /\ Stacked(frames, active)
    /\ Covered(frames)
    /\ Alive(frames, dropped)

-----------------------------------------------------------------------------
(* Opening a call and returning from one.                                  *)

\* A call that takes a guard pushes its guest on both stacks.
LEMMA StackedOwning ==
    ASSUME NEW s \in Seq(Frame), NEW a \in Seq(Guests), NEW r \in Frame,
           Stacked(s, a), r.owns
    PROVE  Stacked(Append(s, r), Append(a, r.guest))
<1> DEFINE n == Len(s)
           m == Len(a)
           t == Append(s, r)
           b == Append(a, r.guest)
<1>1. PICK h : Heights(h, s, a)
  BY DEF Stacked
<1>2. n \in Nat /\ m \in Nat /\ r.guest \in Guests
  BY LenProperties DEF Frame
<1>3. /\ Len(t) = n + 1 /\ t[n + 1] = r
      /\ \A i \in 1 .. n : t[i] = s[i]
  BY <1>2, AppendProperties
<1>4. /\ Len(b) = m + 1 /\ b[m + 1] = r.guest
      /\ \A i \in 1 .. m : b[i] = a[i]
  BY <1>2, AppendProperties
<1> DEFINE k == [i \in 0 .. n + 1 |-> IF i <= n THEN h[i] ELSE m + 1]
<1> HIDE DEF n, m, t, b
<1>5. /\ h \in [0 .. n -> 0 .. m] /\ h[0] = 0 /\ h[n] = m
      /\ \A i, j \in 0 .. n : i <= j => h[i] <= h[j]
      /\ \A i \in 1 .. n :
           /\ h[i] = IF s[i].owns THEN h[i - 1] + 1 ELSE h[i - 1]
           /\ h[i] > 0
           /\ a[h[i]] = s[i].guest
  BY <1>1 DEF Heights, n, m
<1>6. /\ k \in [0 .. n + 1 -> 0 .. m + 1]
      /\ k[n + 1] = m + 1
      /\ \A i \in 0 .. n : k[i] = h[i]
  BY <1>2, <1>5
<1> HIDE DEF k
<1>7. \A i, j \in 0 .. n + 1 : i <= j => k[i] <= k[j]
  <2>1. SUFFICES ASSUME NEW i \in 0 .. n + 1, NEW j \in 0 .. n + 1, i <= j
                 PROVE  k[i] <= k[j]
    OBVIOUS
  <2>2. CASE j <= n
    BY <1>2, <1>5, <1>6, <2>1, <2>2
  <2>3. CASE j = n + 1
    BY <1>2, <1>6, <2>1, <2>3
  <2>4. QED
    BY <1>2, <2>1, <2>2, <2>3
<1>8. ASSUME NEW i \in 1 .. n + 1
      PROVE  /\ k[i] = IF t[i].owns THEN k[i - 1] + 1 ELSE k[i - 1]
             /\ k[i] > 0
             /\ b[k[i]] = t[i].guest
  <2>1. CASE i \in 1 .. n
    <3>1. i - 1 \in 0 .. n /\ i \in 0 .. n
      BY <1>2, <2>1
    <3>2. h[i] \in 1 .. m
      BY <1>2, <1>5, <2>1, <3>1
    <3>3. b[k[i]] = t[i].guest
      BY <1>3, <1>4, <1>5, <1>6, <2>1, <3>1, <3>2
    <3>4. k[i] = IF t[i].owns THEN k[i - 1] + 1 ELSE k[i - 1]
      BY <1>3, <1>5, <1>6, <2>1, <3>1
    <3>5. QED
      BY <1>5, <1>6, <2>1, <3>1, <3>3, <3>4
  <2>2. CASE i = n + 1
    <3>1. i - 1 = n /\ n \in 0 .. n
      BY <1>2, <2>2
    <3>2. QED
      BY <1>2, <1>3, <1>4, <1>5, <1>6, <2>2, <3>1
  <2>3. QED
    BY <1>2, <2>1, <2>2
<1>9. Heights(k, t, b)
  <2>1. k[0] = 0
    BY <1>2, <1>5, <1>6
  <2>2. QED
    BY <1>3, <1>4, <1>6, <1>7, <1>8, <2>1 DEF Heights
<1>10. QED
  BY <1>9 DEF Stacked, t, b

\* A call that takes no guard runs in the guest on top.
LEMMA StackedNesting ==
    ASSUME NEW s \in Seq(Frame), NEW a \in Seq(Guests), NEW r \in Frame,
           Stacked(s, a), ~r.owns, a # <<>>, r.guest = a[Len(a)]
    PROVE  Stacked(Append(s, r), a)
<1> DEFINE n == Len(s)
           m == Len(a)
           t == Append(s, r)
<1>1. PICK h : Heights(h, s, a)
  BY DEF Stacked
<1>2. n \in Nat /\ m \in Nat \ {0} /\ r.guest \in Guests
  BY LenProperties, EmptySeq DEF Frame
<1>3. /\ Len(t) = n + 1 /\ t[n + 1] = r
      /\ \A i \in 1 .. n : t[i] = s[i]
  BY <1>2, AppendProperties
<1> DEFINE k == [i \in 0 .. n + 1 |-> IF i <= n THEN h[i] ELSE m]
<1>4. r.guest = a[m]
  OBVIOUS
<1> HIDE DEF n, m, t
<1>5. /\ h \in [0 .. n -> 0 .. m] /\ h[0] = 0 /\ h[n] = m
      /\ \A i, j \in 0 .. n : i <= j => h[i] <= h[j]
      /\ \A i \in 1 .. n :
           /\ h[i] = IF s[i].owns THEN h[i - 1] + 1 ELSE h[i - 1]
           /\ h[i] > 0
           /\ a[h[i]] = s[i].guest
  BY <1>1 DEF Heights, n, m
<1>6. /\ k \in [0 .. n + 1 -> 0 .. m]
      /\ k[n + 1] = m
      /\ \A i \in 0 .. n : k[i] = h[i]
  BY <1>2, <1>5
<1> HIDE DEF k
<1>7. \A i, j \in 0 .. n + 1 : i <= j => k[i] <= k[j]
  <2>1. SUFFICES ASSUME NEW i \in 0 .. n + 1, NEW j \in 0 .. n + 1, i <= j
                 PROVE  k[i] <= k[j]
    OBVIOUS
  <2>2. CASE j <= n
    BY <1>2, <1>5, <1>6, <2>1, <2>2
  <2>3. CASE j = n + 1
    BY <1>2, <1>6, <2>1, <2>3
  <2>4. QED
    BY <1>2, <2>1, <2>2, <2>3
<1>8. ASSUME NEW i \in 1 .. n + 1
      PROVE  /\ k[i] = IF t[i].owns THEN k[i - 1] + 1 ELSE k[i - 1]
             /\ k[i] > 0
             /\ a[k[i]] = t[i].guest
  <2>1. CASE i \in 1 .. n
    <3>1. i - 1 \in 0 .. n /\ i \in 0 .. n
      BY <1>2, <2>1
    <3>2. QED
      BY <1>3, <1>5, <1>6, <2>1, <3>1
  <2>2. CASE i = n + 1
    <3>1. i - 1 = n /\ n \in 0 .. n
      BY <1>2, <2>2
    <3>2. QED
      BY <1>2, <1>3, <1>4, <1>5, <1>6, <2>2, <3>1
  <2>3. QED
    BY <1>2, <2>1, <2>2
<1>9. Heights(k, t, a)
  <2>1. k[0] = 0
    BY <1>2, <1>5, <1>6
  <2>2. QED
    BY <1>3, <1>6, <1>7, <1>8, <2>1 DEF Heights, m
<1>10. QED
  BY <1>9 DEF Stacked, t

\* A call returns, and the guard it took, if any, leaves with it.
LEMMA StackedPop ==
    ASSUME NEW s \in Seq(Frame), NEW a \in Seq(Guests), s # <<>>, Stacked(s, a)
    PROVE  LET t == SubSeq(s, 1, Len(s) - 1)
               r == s[Len(s)]
           IN  /\ r.owns => Stacked(t, SubSeq(a, 1, Len(a) - 1))
               /\ ~r.owns => Stacked(t, a)
<1> DEFINE n == Len(s)
           m == Len(a)
           t == SubSeq(s, 1, n - 1)
           r == s[n]
           b == IF r.owns THEN SubSeq(a, 1, m - 1) ELSE a
           l == IF r.owns THEN m - 1 ELSE m
<1>1. PICK h : Heights(h, s, a)
  BY DEF Stacked
<1>2. /\ n \in Nat \ {0} /\ Len(t) = n - 1
      /\ \A i \in 1 .. n - 1 : t[i] = s[i]
  BY OwnersPop
<1> HIDE DEF n
<1>3. /\ h \in [0 .. n -> 0 .. m] /\ h[0] = 0 /\ h[n] = m
      /\ \A i, j \in 0 .. n : i <= j => h[i] <= h[j]
      /\ \A i \in 1 .. n :
           /\ h[i] = IF s[i].owns THEN h[i - 1] + 1 ELSE h[i - 1]
           /\ h[i] > 0
           /\ a[h[i]] = s[i].guest
  BY <1>1 DEF Heights, n
<1>4. m \in Nat \ {0} /\ n \in 1 .. n /\ n - 1 \in 0 .. n
  <2>1. m \in Nat /\ n \in 1 .. n /\ n - 1 \in 0 .. n
    BY <1>2, LenProperties
  <2>2. m > 0
    BY <1>3, <2>1
  <2>3. QED
    BY <2>1, <2>2
<1>5. h[n - 1] = l
  <2>1. /\ m = IF r.owns THEN h[n - 1] + 1 ELSE h[n - 1]
        /\ h[n - 1] \in 0 .. m
    BY <1>3, <1>4
  <2>2. QED
    BY <1>4, <2>1
<1>6. /\ Len(b) = l
      /\ \A i \in 1 .. l : b[i] = a[i]
  <2>1. CASE r.owns
    <3>1. \A i \in 1 .. m - 1 : a[i] \in Guests
      BY <1>4, ElementOfSeq
    <3>2. /\ Len(SubSeq(a, 1, m - 1)) = IF 1 <= m - 1 THEN (m - 1) - 1 + 1 ELSE 0
          /\ \A i \in 1 .. (m - 1) - 1 + 1 : SubSeq(a, 1, m - 1)[i] = a[1 + i - 1]
      BY <1>4, <3>1, SubSeqProperties
    <3>3. b = SubSeq(a, 1, m - 1) /\ l = m - 1
      BY <2>1
    <3> HIDE DEF r, b, l, m
    <3>4. /\ Len(SubSeq(a, 1, m - 1)) = m - 1
          /\ \A i \in 1 .. m - 1 : SubSeq(a, 1, m - 1)[i] = a[i]
      BY <1>4, <3>2
    <3>5. QED
      BY <3>3, <3>4
  <2>2. CASE ~r.owns
    BY <2>2
  <2>3. QED
    BY <2>1, <2>2
<1>7. l \in 0 .. m
  BY <1>4
<1> DEFINE k == [i \in 0 .. n - 1 |-> h[i]]
<1> HIDE DEF t, r, b, l, m
<1>8. \A i \in 0 .. n - 1 : i \in 0 .. n /\ k[i] = h[i] /\ h[i] \in 0 .. l
  <2>1. SUFFICES ASSUME NEW i \in 0 .. n - 1
                 PROVE  i \in 0 .. n /\ k[i] = h[i] /\ h[i] \in 0 .. l
    OBVIOUS
  <2>2. i \in 0 .. n /\ n - 1 \in 0 .. n /\ i <= n - 1
    BY <1>2
  <2>3. h[i] <= h[n - 1] /\ h[i] \in 0 .. m
    BY <1>3, <2>2
  <2>4. QED
    BY <1>4, <1>5, <1>7, <2>2, <2>3
<1>9. k \in [0 .. n - 1 -> 0 .. l]
  BY <1>8
<1> HIDE DEF k
<1>10. ASSUME NEW i \in 1 .. n - 1
       PROVE  /\ k[i] = IF t[i].owns THEN k[i - 1] + 1 ELSE k[i - 1]
              /\ k[i] > 0
              /\ b[k[i]] = t[i].guest
  <2>1. i \in 1 .. n /\ i \in 0 .. n - 1 /\ i - 1 \in 0 .. n - 1
    BY <1>2
  <2>2. h[i] \in 1 .. l
    <3>1. h[i] > 0 /\ h[i] \in 0 .. l
      BY <1>3, <1>8, <2>1
    <3>2. QED
      BY <1>4, <1>7, <3>1
  <2>3. b[h[i]] = a[h[i]]
    BY <1>6, <2>2
  <2>4. QED
    BY <1>2, <1>3, <1>8, <2>1, <2>2, <2>3
<1>11. Heights(k, t, b)
  <2>1. k[0] = 0 /\ k[n - 1] = l
    BY <1>2, <1>3, <1>5, <1>8
  <2>2. \A i, j \in 0 .. n - 1 : i <= j => k[i] <= k[j]
    BY <1>3, <1>8
  <2>3. QED
    BY <1>2, <1>6, <1>9, <1>10, <2>1, <2>2 DEF Heights
<1>12. Stacked(t, b)
  BY <1>11 DEF Stacked
<1>13. QED
  BY <1>12 DEF t, r, b, n, m

-----------------------------------------------------------------------------
(* What each kind of step keeps.                                           *)

\* What the steps change of the strengthening.
StackKept ==
    /\ Stacked(frames', active')
    /\ Covered(frames')
    /\ Alive(frames', dropped')

\* A call that takes a guard is covered by its own.
LEMMA OwningKeeps ==
    ASSUME SInv, NEW kind \in Kinds, NEW g \in Guests, g \notin dropped,
           Open(kind, g, TRUE, NoFuture), active' = Append(active, g),
           dropped' = dropped
    PROVE  StackKept
<1> DEFINE r == [kind |-> kind, guest |-> g, owns |-> TRUE, fut |-> NoFuture]
           n == Len(frames)
<1>1. /\ frames \in Seq(Frame) /\ active \in Seq(Guests)
      /\ Stacked(frames, active) /\ Covered(frames) /\ Alive(frames, dropped)
  BY DEF SInv, IInv, TypeOK
<1>2. r \in Frame /\ r.guest = g /\ r.owns /\ frames' = Append(frames, r)
  BY DEF Frame, Open
<1> HIDE DEF r
<1>3. /\ n \in Nat /\ Len(frames') = n + 1 /\ frames'[n + 1] = r
      /\ \A i \in 1 .. n : frames'[i] = frames[i]
  BY <1>1, <1>2, LenProperties, AppendProperties
<1>4. Stacked(frames', active')
  BY <1>1, <1>2, StackedOwning
<1>5. ASSUME NEW i \in 1 .. n + 1
      PROVE  /\ \E j \in 1 .. i : frames'[j].owns /\ frames'[j].guest = frames'[i].guest
             /\ frames'[i].guest \notin dropped'
  <2>1. CASE i \in 1 .. n
    <3>1. frames[i].guest \notin dropped
      BY <1>1, <2>1 DEF Alive
    <3>2. PICK j \in 1 .. i : frames[j].owns /\ frames[j].guest = frames[i].guest
      BY <1>1, <2>1 DEF Covered
    <3>3. j \in 1 .. n
      BY <1>3, <2>1
    <3>4. QED
      BY <1>3, <2>1, <3>1, <3>2, <3>3
  <2>2. CASE i = n + 1
    BY <1>2, <1>3, <2>2
  <2>3. QED
    BY <1>3, <2>1, <2>2
<1> HIDE DEF n
<1>6. QED
  BY <1>3, <1>4, <1>5 DEF StackKept, Covered, Alive

\* A call that takes none is covered by the call that runs on top.
LEMMA NestingKeeps ==
    ASSUME SInv, NEW kind \in Kinds, NEW g \in Guests, g \notin dropped,
           Open(kind, g, FALSE, NoFuture), Innermost = g, active' = active,
           dropped' = dropped
    PROVE  StackKept
<1> DEFINE r == [kind |-> kind, guest |-> g, owns |-> FALSE, fut |-> NoFuture]
           n == Len(frames)
<1>1. /\ frames \in Seq(Frame) /\ active \in Seq(Guests)
      /\ Stacked(frames, active) /\ Covered(frames) /\ Alive(frames, dropped)
  BY DEF SInv, IInv, TypeOK
<1>2. r \in Frame /\ r.guest = g /\ ~r.owns /\ frames' = Append(frames, r)
  BY DEF Frame, Open
<1> HIDE DEF r
<1>3. /\ n \in Nat /\ Len(frames') = n + 1 /\ frames'[n + 1] = r
      /\ \A i \in 1 .. n : frames'[i] = frames[i]
  BY <1>1, <1>2, LenProperties, AppendProperties
<1>4. active # <<>> /\ active[Len(active)] = g
  BY GuestsAssumption DEF Innermost
<1>5. Stacked(frames', active')
  BY <1>1, <1>2, <1>4, StackedNesting
<1>6. n \in 1 .. n /\ frames[n].guest = g
  <2>1. PICK h : Heights(h, frames, active)
    BY <1>1 DEF Stacked
  <2>2. /\ h[0] = 0 /\ h[n] = Len(active)
        /\ \A i \in 1 .. n : active[h[i]] = frames[i].guest
    BY <2>1 DEF Heights
  <2>3. Len(active) # 0
    BY <1>1, <1>4, LenProperties, EmptySeq
  <2>4. n \in 1 .. n
    BY <1>3, <2>2, <2>3
  <2>5. QED
    BY <1>4, <2>2, <2>4
<1>7. PICK k \in 1 .. n : frames[k].owns /\ frames[k].guest = g
  BY <1>1, <1>6 DEF Covered
<1>8. ASSUME NEW i \in 1 .. n + 1
      PROVE  /\ \E j \in 1 .. i : frames'[j].owns /\ frames'[j].guest = frames'[i].guest
             /\ frames'[i].guest \notin dropped'
  <2>1. CASE i \in 1 .. n
    <3>1. frames[i].guest \notin dropped
      BY <1>1, <2>1 DEF Alive
    <3>2. PICK j \in 1 .. i : frames[j].owns /\ frames[j].guest = frames[i].guest
      BY <1>1, <2>1 DEF Covered
    <3>3. j \in 1 .. n
      BY <1>3, <2>1
    <3>4. QED
      BY <1>3, <2>1, <3>1, <3>2, <3>3
  <2>2. CASE i = n + 1
    <3>1. k \in 1 .. i /\ frames'[k] = frames[k] /\ frames'[i] = r
      BY <1>3, <1>7, <2>2
    <3>2. QED
      BY <1>2, <1>7, <3>1
  <2>3. QED
    BY <1>3, <2>1, <2>2
<1> HIDE DEF n
<1>9. QED
  BY <1>3, <1>5, <1>8 DEF StackKept, Covered, Alive

\* The innermost call returns.
LEMMA PopKeeps ==
    ASSUME SInv, frames # <<>>, PopFrame, ReleaseIfOwned(Top), dropped' = dropped
    PROVE  StackKept
<1> DEFINE n == Len(frames)
<1>1. /\ frames \in Seq(Frame) /\ active \in Seq(Guests)
      /\ Stacked(frames, active) /\ Covered(frames) /\ Alive(frames, dropped)
  BY DEF SInv, IInv, TypeOK
<1>2. /\ n \in Nat \ {0} /\ Len(frames') = n - 1
      /\ \A i \in 1 .. n - 1 : frames'[i] = frames[i]
      /\ Top \in Frame
  BY <1>1, OwnersPop DEF PopFrame, Top
<1>3. Stacked(frames', active')
  <2>1. Top.owns \in BOOLEAN
    BY <1>2 DEF Frame
  <2>2. /\ Top.owns => active' = SubSeq(active, 1, Len(active) - 1)
        /\ ~Top.owns => active' = active
    BY <2>1 DEF ReleaseIfOwned, Release, guards
  <2>3. QED
    BY <1>1, <2>1, <2>2, StackedPop DEF PopFrame, Top
<1> HIDE DEF n
<1>4. ASSUME NEW i \in 1 .. n - 1
      PROVE  /\ \E j \in 1 .. i : frames'[j].owns /\ frames'[j].guest = frames'[i].guest
             /\ frames'[i].guest \notin dropped'
  <2>1. i \in 1 .. n
    BY <1>2
  <2>2. PICK j \in 1 .. i : frames[j].owns /\ frames[j].guest = frames[i].guest
    BY <1>1, <2>1 DEF Covered, n
  <2>3. j \in 1 .. n - 1
    BY <1>2
  <2>4. frames[i].guest \notin dropped
    BY <1>1, <2>1 DEF Alive, n
  <2>5. QED
    BY <1>2, <2>2, <2>3, <2>4
<1>5. QED
  BY <1>2, <1>3, <1>4 DEF StackKept, Covered, Alive

\* Without futures every step keeps the two stacks in step.
LEMMA StepSInv ==
    ASSUME SInv, [Next]_vars
    PROVE  SInv'
<1>1. IInv'
  BY StepIInv DEF SInv
<1>2. Futures = {} /\ held = {}
  BY DEF SInv, IInv, TypeOK, Synchronous
<1>3. ASSUME NEW kind \in Kinds, NEW activation, NEW g \in Guests,
             EnterWith(kind, activation, g), dropped' = dropped
      PROVE  StackKept
  <2>1. g \notin dropped
    BY <1>3 DEF EnterWith
  <2>2. CASE Open(kind, g, FALSE, NoFuture) /\ Innermost = g /\ active' = active
    BY <1>3, <2>1, <2>2, NestingKeeps
  <2>3. CASE Open(kind, g, TRUE, NoFuture) /\ active' = Append(active, g)
    BY <1>3, <2>1, <2>3, OwningKeeps
  <2>4. QED
    BY <1>3, <2>2, <2>3 DEF EnterWith, Activate, guards
<1>4. ASSUME NEW g \in Guests, Enter(g) PROVE StackKept
  BY <1>3, <1>4 DEF Enter, Kinds
<1>5. ASSUME NEW g \in Guests, Callback(g) PROVE StackKept
  <2>1. /\ Open("callback", g, TRUE, NoFuture) /\ active' = Append(active, g)
        /\ g \notin dropped /\ dropped' = dropped /\ "callback" \in Kinds
    BY <1>5 DEF Callback, Activate, Kinds
  <2>2. QED
    BY <2>1, OwningKeeps
<1>6. ASSUME NEW g \in Guests, Close(g) PROVE StackKept
  BY <1>3, <1>6 DEF Close, Kinds
<1>7. ASSUME NEW g \in Guests, Advance(g) PROVE StackKept
  <2>1. /\ Open("advance", g, TRUE, NoFuture) /\ active' = Append(active, g)
        /\ g \notin dropped /\ dropped' = dropped /\ "advance" \in Kinds
    BY <1>7 DEF Advance, Activate, Kinds
  <2>2. QED
    BY <2>1, OwningKeeps
<1>8. ASSUME NEW g \in Guests, DrainPass(g) PROVE StackKept
  BY <1>3, <1>8 DEF DrainPass, Kinds
<1>9. ASSUME NEW g \in Guests, DrainRound(g) PROVE StackKept
  <2>1. /\ Open("drain", g, TRUE, NoFuture) /\ active' = Append(active, g)
        /\ g \notin dropped /\ dropped' = dropped /\ "drain" \in Kinds
    BY <1>9 DEF DrainRound, Activate, Kinds
  <2>2. QED
    BY <2>1, OwningKeeps
<1>10. ASSUME Return PROVE StackKept
  BY <1>10, PopKeeps DEF Return
<1>11. ASSUME PollReturns PROVE FALSE
  <2>1. frames \in Seq(Frame) /\ frames # <<>> /\ Top.kind = "poll"
    BY <1>11 DEF PollReturns, SInv, IInv, TypeOK
  <2>2. Len(frames) \in DOMAIN frames
    BY <2>1, LenProperties, EmptySeq
  <2>3. Top.fut \in held
    BY <2>1, <2>2 DEF SInv, IInv, PollFrames, Top
  <2>4. QED
    BY <1>2, <2>3
<1>12. ASSUME UNCHANGED <<active, frames, dropped>> PROVE StackKept
  BY <1>12 DEF StackKept, SInv
<1>13. ASSUME NEW g \in Guests, DropGuest(g) PROVE StackKept
  <2>1. /\ UNCHANGED <<active, frames>> /\ dropped' = dropped \union {g}
        /\ \A i \in DOMAIN frames : frames[i].guest # g
    BY <1>13 DEF DropGuest, guards
  <2>2. DOMAIN frames = 1 .. Len(frames)
    BY LenProperties DEF SInv, IInv, TypeOK
  <2>3. Alive(frames', dropped')
    BY <2>1, <2>2 DEF SInv, Alive
  <2>4. QED
    BY <2>1, <2>3 DEF StackKept, SInv
<1>14. StackKept
  <2>1. ASSUME NEW g \in Guests, CloseDriver(g) PROVE StackKept
    BY <1>12, <2>1 DEF CloseDriver, guards
  <2>2. CASE Cancel \/ Tick \/ UNCHANGED vars
    BY <1>12, <2>2 DEF Cancel, Tick, vars, guards
  <2>3. QED
    BY <1>2, <1>4, <1>5, <1>6, <1>7, <1>8, <1>9, <1>10, <1>11, <1>13,
       <2>1, <2>2 DEF Next
<1>15. QED
  BY <1>1, <1>14 DEF SInv, StackKept, Synchronous

\* No call is under way at first.
LEMMA InitSInv == Synchronous /\ Init => SInv
<1> SUFFICES ASSUME Synchronous, Init PROVE SInv
  OBVIOUS
<1>1. frames = <<>> /\ active = <<>> /\ Len(frames) = 0 /\ Len(active) = 0
  BY DEF Init
<1>2. Stacked(frames, active)
  <2> DEFINE h == [i \in 0 .. 0 |-> 0]
  <2>1. Heights(h, frames, active)
    BY <1>1 DEF Heights
  <2>2. QED
    BY <2>1 DEF Stacked
<1>3. Covered(frames) /\ Alive(frames, dropped)
  BY <1>1 DEF Covered, Alive
<1>4. QED
  BY <1>2, <1>3, InitIInv DEF SInv

\* The strengthening holds in every reachable state.
LEMMA StackInductive == Synchronous /\ Spec => []SInv
BY InitSInv, StepSInv, PTL DEF Spec

-----------------------------------------------------------------------------
(* The theorems.                                                           *)

\* When no future keeps a guard, the guest on top of the stack is the guest
\* whose code runs, however deeply guests call one another, so the import
\* dispatcher attributes every import to the guest that asked for it.
THEOREM Attribution == Synchronous /\ Spec => []RunningIsInnermost
<1>1. ASSUME SInv PROVE RunningIsInnermost
  <2>1. SUFFICES ASSUME frames # <<>> PROVE Innermost = Top.guest
    BY DEF RunningIsInnermost, RunsGuestCode
  <2> DEFINE n == Len(frames)
  <2>2. n \in 1 .. n /\ Len(active) \in Nat
    BY <1>1, <2>1, LenProperties, EmptySeq DEF SInv, IInv, TypeOK
  <2>3. PICK h : Heights(h, frames, active)
    BY <1>1 DEF SInv, Stacked
  <2>4. /\ h[n] = Len(active) /\ h[n] > 0
        /\ active[h[n]] = frames[n].guest
    BY <2>2, <2>3 DEF Heights
  <2>5. active # <<>> /\ active[Len(active)] = Top.guest
    BY <2>4 DEF Top
  <2>6. Top.guest \notin dropped
    BY <1>1, <2>2 DEF SInv, Alive, Top
  <2>7. QED
    BY <2>5, <2>6 DEF Innermost
<1>2. QED
  BY <1>1, StackInductive, PTL

\* A call is under way only in a guest that is active.
LEMMA CoveredIsActive ==
    ASSUME NEW s \in Seq(Frame), Covered(s), NEW d, NEW n, NEW H \in SUBSET Futures,
           Balanced(d, n, s, H), NEW i \in 1 .. Len(s)
    PROVE  d[s[i].guest] > 0
<1> DEFINE g == s[i].guest
<1>1. Len(s) \in Nat /\ DOMAIN s = 1 .. Len(s)
  BY LenProperties
<1>2. PICK j \in 1 .. i : s[j].owns /\ s[j].guest = g
  BY DEF Covered
<1>3. j \in OwnersFor(s, g)
  BY <1>1, <1>2 DEF OwnersFor
<1>4. IsFiniteSet(OwnersFor(s, g)) /\ Cardinality(OwnersFor(s, g)) \in Nat
  BY OwnersFinite
<1>5. Cardinality(OwnersFor(s, g)) # 0
  BY <1>3, <1>4, FS_EmptySet
<1>6. g \in Guests
  <2>1. s[i] \in Frame
    BY <1>1, ElementOfSeq
  <2>2. QED
    BY <2>1 DEF Frame
<1>7. /\ d[g] = Cardinality(OwnersFor(s, g)) + Cardinality(FuturesFor(H, g))
      /\ Cardinality(FuturesFor(H, g)) \in Nat
  BY <1>6, FuturesFinite DEF Balanced
<1>8. QED
  BY <1>4, <1>5, <1>7

\* What guest code counts on: its guest is active.
LEMMA FramesAreActive ==
    ASSUME SInv, NEW i \in 1 .. Len(frames)
    PROVE  depth[frames[i].guest] > 0
<1>1. Balanced(depth, Len(active), frames, held) /\ held \in SUBSET Futures
  BY BalancedNow DEF SInv, IInv, TypeOK
<1>2. QED
  BY <1>1, CoveredIsActive DEF SInv, IInv, TypeOK

\* When no future keeps a guard, guest code runs under an activity of its own
\* guest: its policy let it begin, and its deadline, if it has one, is counted.
THEOREM RunsActive == Synchronous /\ Spec => []RunningIsActive
<1>1. ASSUME SInv PROVE RunningIsActive
  <2>1. SUFFICES ASSUME frames # <<>> PROVE depth[Top.guest] > 0
    BY DEF RunningIsActive, RunsGuestCode
  <2>2. Len(frames) \in 1 .. Len(frames)
    BY <1>1, <2>1, LenProperties, EmptySeq DEF SInv, IInv, TypeOK
  <2>3. QED
    BY <1>1, <2>2, FramesAreActive DEF Top
<1>2. QED
  BY <1>1, StackInductive, PTL

-----------------------------------------------------------------------------
(* The budget of the operations, and the signal that keeps them out.       *)

\* A call opened with kind runs in a guest that had calls under way already,
\* or it is cleanup, or the guest has a deadline now if it has a budget.
Funded(kind, g) ==
    \/ Budget[g] = Unlimited
    \/ deadline'[g] # Disarmed
    \/ kind \in {"cleanup", "drain"}
    \/ \E j \in 1 .. Len(frames) : frames[j].guest = g

BInv == SInv /\ OperationsAreBudgeted

\* The calls that stay under way stay budgeted: their guests are active, and
\* no deadline of an active guest is disarmed.
LEMMA StayingKeepsBudget ==
    ASSUME BInv, SInv', DeadlineStep, NEW i \in 1 .. Len(frames),
           i \in 1 .. Len(frames'),
           \A j \in 1 .. i : frames'[j] = frames[j]
    PROVE  \/ Budget[frames'[i].guest] = Unlimited
           \/ deadline'[frames'[i].guest] # Disarmed
           \/ \E j \in 1 .. i : /\ frames'[j].guest = frames'[i].guest
                              /\ frames'[j].kind \in {"cleanup", "drain"}
<1> DEFINE g == frames[i].guest
<1>1. /\ frames \in Seq(Frame) /\ frames' \in Seq(Frame)
      /\ Covered(frames') /\ held' \in SUBSET Futures
      /\ Balanced(depth', Len(active'), frames', held')
  BY BalancedNow DEF BInv, SInv, IInv, TypeOK
<1>2. Len(frames) \in Nat /\ DOMAIN frames = 1 .. Len(frames)
  BY <1>1, LenProperties
<1>3. i \in 1 .. i /\ frames'[i] = frames[i]
  BY <1>2
<1>4. depth'[g] > 0
  BY <1>1, <1>3, CoveredIsActive
<1>5. g \in Guests
  <2>1. frames[i] \in Frame
    BY <1>1, <1>2, ElementOfSeq
  <2>2. QED
    BY <2>1 DEF Frame
<1>6. deadline[g] # Disarmed => deadline'[g] # Disarmed
  BY <1>4, <1>5 DEF DeadlineStep
<1>7. \/ Budget[g] = Unlimited
      \/ deadline[g] # Disarmed
      \/ \E j \in 1 .. i : /\ frames[j].guest = g
                         /\ frames[j].kind \in {"cleanup", "drain"}
  BY <1>2 DEF BInv, OperationsAreBudgeted
<1>8. QED
  BY <1>3, <1>6, <1>7

\* A step that opens no call.
LEMMA NoCallKeepsBudget ==
    ASSUME BInv, SInv', DeadlineStep, Len(frames') <= Len(frames),
           \A j \in 1 .. Len(frames') : frames'[j] = frames[j]
    PROVE  OperationsAreBudgeted'
<1>1. /\ Len(frames) \in Nat /\ Len(frames') \in Nat
      /\ DOMAIN frames' = 1 .. Len(frames')
  BY LenProperties DEF BInv, SInv, IInv, TypeOK
<1>2. ASSUME NEW i \in DOMAIN frames'
      PROVE  /\ i \in 1 .. Len(frames) /\ i \in 1 .. Len(frames')
             /\ \A j \in 1 .. i : j \in 1 .. Len(frames')
  BY <1>1, <1>2
<1>3. QED
  BY <1>2, StayingKeepsBudget DEF OperationsAreBudgeted

\* A step that opens one.
LEMMA CallKeepsBudget ==
    ASSUME BInv, SInv', DeadlineStep, NEW kind \in Kinds, NEW g \in Guests,
           NEW owns \in BOOLEAN, Open(kind, g, owns, NoFuture), Funded(kind, g)
    PROVE  OperationsAreBudgeted'
<1> DEFINE n == Len(frames)
           r == [kind |-> kind, guest |-> g, owns |-> owns, fut |-> NoFuture]
<1>1. /\ frames \in Seq(Frame) /\ n \in Nat /\ DOMAIN frames = 1 .. n
      /\ frames' \in Seq(Frame)
  BY LenProperties DEF BInv, SInv, IInv, TypeOK
<1>2. r \in Frame /\ r.guest = g /\ r.kind = kind
  BY DEF Frame
<1>3. frames' = Append(frames, r)
  BY DEF Open
<1> HIDE DEF r
<1>4. /\ Len(frames') = n + 1 /\ DOMAIN frames' = 1 .. n + 1
      /\ frames'[n + 1] = r
      /\ \A j \in 1 .. n : frames'[j] = frames[j]
  BY <1>1, <1>2, <1>3, AppendProperties, LenProperties
<1>5. ASSUME NEW i \in 1 .. n
      PROVE  \/ Budget[frames'[i].guest] = Unlimited
             \/ deadline'[frames'[i].guest] # Disarmed
             \/ \E j \in 1 .. i : /\ frames'[j].guest = frames'[i].guest
                                /\ frames'[j].kind \in {"cleanup", "drain"}
  <2>1. i \in 1 .. Len(frames') /\ \A j \in 1 .. i : j \in 1 .. n
    BY <1>1, <1>4
  <2>2. QED
    BY <1>4, <2>1, StayingKeepsBudget
<1>6. \/ Budget[g] = Unlimited
      \/ deadline'[g] # Disarmed
      \/ \E j \in 1 .. n + 1 : /\ frames'[j].guest = g
                             /\ frames'[j].kind \in {"cleanup", "drain"}
  <2>1. CASE kind \in {"cleanup", "drain"}
    <3>1. n + 1 \in 1 .. n + 1
      BY <1>1
    <3>2. QED
      BY <1>2, <1>4, <2>1, <3>1
  <2>2. CASE \E j \in 1 .. n : frames[j].guest = g
    <3>1. PICK k \in 1 .. n : frames[k].guest = g
      BY <2>2
    <3>2. frames'[k].guest = g /\ \A j \in 1 .. k : j \in 1 .. n + 1
      BY <1>1, <1>4, <3>1
    <3>3. QED
      BY <1>5, <3>2
  <2>3. QED
    BY <2>1, <2>2 DEF Funded
<1>7. ASSUME NEW i \in 1 .. n + 1
      PROVE  \/ Budget[frames'[i].guest] = Unlimited
             \/ deadline'[frames'[i].guest] # Disarmed
             \/ \E j \in 1 .. i : /\ frames'[j].guest = frames'[i].guest
                                /\ frames'[j].kind \in {"cleanup", "drain"}
  <2>1. i \in 1 .. n \/ i = n + 1
    BY <1>1
  <2>2. CASE i = n + 1
    BY <1>2, <1>4, <1>6, <2>2
  <2>3. QED
    BY <1>5, <2>1, <2>2
<1>8. QED
  BY <1>4, <1>7 DEF OperationsAreBudgeted

\* When no future keeps a guard, an active guest has a call under way.
LEMMA ActiveHasCall ==
    ASSUME SInv, NEW g \in Guests, depth[g] # 0
    PROVE  \E j \in 1 .. Len(frames) : frames[j].guest = g
<1>1. /\ frames \in Seq(Frame) /\ held = {} /\ DOMAIN frames = 1 .. Len(frames)
      /\ Balanced(depth, Len(active), frames, held)
  BY BalancedNow, LenProperties DEF SInv, IInv, TypeOK, Synchronous
<1>2. Cardinality(FuturesFor(held, g)) = 0
  BY <1>1, FS_EmptySet DEF FuturesFor
<1>3. IsFiniteSet(OwnersFor(frames, g)) /\ Cardinality(OwnersFor(frames, g)) \in Nat
  BY <1>1, OwnersFinite
<1>4. depth[g] = Cardinality(OwnersFor(frames, g))
  BY <1>1, <1>2, <1>3 DEF Balanced
<1>5. OwnersFor(frames, g) # {}
  BY <1>3, <1>4, FS_EmptySet
<1>6. QED
  BY <1>1, <1>5 DEF OwnersFor

\* The innermost guest has one too.
LEMMA InnermostHasCall ==
    ASSUME SInv, NEW g \in Guests, Innermost = g
    PROVE  \E j \in 1 .. Len(frames) : frames[j].guest = g
<1> DEFINE n == Len(frames)
<1>1. PICK h : Heights(h, frames, active)
  BY DEF SInv, Stacked
<1>2. n \in Nat /\ active \in Seq(Guests) /\ active # <<>> /\ active[Len(active)] = g
  BY GuestsAssumption, LenProperties DEF SInv, IInv, TypeOK, Innermost
<1>3. /\ h[0] = 0 /\ h[n] = Len(active)
      /\ \A i \in 1 .. n : active[h[i]] = frames[i].guest
  BY <1>1 DEF Heights
<1>4. Len(active) # 0
  BY <1>2, LenProperties, EmptySeq
<1>5. n \in 1 .. n
  BY <1>2, <1>3, <1>4
<1>6. QED
  BY <1>2, <1>3, <1>5

\* An operation that takes a guard arms the deadline, or its guest was active.
LEMMA OperationIsFunded ==
    ASSUME SInv, NEW g \in Guests, NEW kind, Activate(g, "operation")
    PROVE  Funded(kind, g)
<1>1. CASE depth[g] # 0
  BY <1>1, ActiveHasCall DEF Funded
<1>2. CASE depth[g] = 0 /\ Budget[g] # Unlimited
  <2>1. deadline[g] = Disarmed /\ deadline \in [Guests -> Nat \union {Disarmed}]
    BY <1>2 DEF SInv, IInv, TypeOK, IdleIsDisarmed
  <2>2. deadline' = [deadline EXCEPT ![g] = now + Budget[g]]
    BY <1>2, <2>1 DEF Activate
  <2>3. now + Budget[g] \in Nat
    BY <1>2, GuestsAssumption DEF SInv, IInv, TypeOK
  <2>4. QED
    BY <2>1, <2>2, <2>3 DEF Funded, Disarmed
<1>3. QED
  BY <1>1, <1>2 DEF Funded

\* Every step keeps the calls under way budgeted.
LEMMA StepBInv ==
    ASSUME BInv, [Next]_vars
    PROVE  BInv'
<1>1. SInv' /\ DeadlineStep
  BY StepSInv, StepKeeps DEF BInv, SInv, Kept
<1>2. Futures = {}
  BY DEF BInv, SInv, Synchronous
<1>3. ASSUME NEW g \in Guests, NEW kind \in Kinds, NEW activation,
             EnterWith(kind, activation, g),
             activation = "operation" \/ kind \in {"cleanup", "drain"}
      PROVE  OperationsAreBudgeted'
  <2>1. CASE Open(kind, g, FALSE, NoFuture) /\ Innermost = g
    <3>1. Funded(kind, g)
      BY <2>1, InnermostHasCall DEF BInv, Funded
    <3>2. QED
      BY <1>1, <2>1, <3>1, CallKeepsBudget
  <2>2. CASE Activate(g, activation) /\ Open(kind, g, TRUE, NoFuture)
    <3>1. Funded(kind, g)
      BY <1>3, <2>2, OperationIsFunded DEF BInv, Funded
    <3>2. QED
      BY <1>1, <2>2, <3>1, CallKeepsBudget
  <2>3. QED
    BY <1>3, <2>1, <2>2 DEF EnterWith
<1>4. ASSUME NEW g \in Guests, NEW kind \in Kinds, NEW activation,
             Activate(g, activation), Open(kind, g, TRUE, NoFuture),
             activation = "operation" \/ kind \in {"cleanup", "drain"}
      PROVE  OperationsAreBudgeted'
  <2>1. Funded(kind, g)
    BY <1>4, OperationIsFunded DEF BInv, Funded
  <2>2. QED
    BY <1>1, <1>4, <2>1, CallKeepsBudget
<1>5. ASSUME NEW g \in Guests, Enter(g) \/ Close(g) \/ DrainPass(g)
      PROVE  OperationsAreBudgeted'
  BY <1>3, <1>5 DEF Enter, Close, DrainPass, Kinds
<1>6. ASSUME NEW g \in Guests, Callback(g) \/ Advance(g) \/ DrainRound(g)
      PROVE  OperationsAreBudgeted'
  BY <1>4, <1>6 DEF Callback, Advance, DrainRound, Kinds
<1>7. ASSUME Return \/ PollReturns PROVE OperationsAreBudgeted'
  <2>1. frames \in Seq(Frame) /\ frames # <<>> /\ PopFrame
    BY <1>7 DEF Return, PollReturns, BInv, SInv, IInv, TypeOK
  <2>2. /\ Len(frames) \in Nat \ {0} /\ Len(frames') = Len(frames) - 1
        /\ \A i \in 1 .. Len(frames') : frames'[i] = frames[i]
    BY <2>1, OwnersPop DEF PopFrame
  <2>3. Len(frames') <= Len(frames)
    BY <2>2
  <2>4. QED
    BY <1>1, <2>2, <2>3, NoCallKeepsBudget
<1>8. ASSUME UNCHANGED frames PROVE OperationsAreBudgeted'
  <2>1. Len(frames) \in Nat
    BY LenProperties DEF BInv, SInv, IInv, TypeOK
  <2>2. QED
    BY <1>1, <1>8, <2>1, NoCallKeepsBudget
<1>9. ASSUME NEW g \in Guests, CloseDriver(g) \/ DropGuest(g) PROVE UNCHANGED frames
  BY <1>9 DEF CloseDriver, DropGuest
<1>10. ASSUME Cancel \/ Tick \/ UNCHANGED vars PROVE UNCHANGED frames
  BY <1>10 DEF Cancel, Tick, vars
<1>11. OperationsAreBudgeted'
  BY <1>2, <1>5, <1>6, <1>7, <1>8, <1>9, <1>10 DEF Next
<1>12. QED
  BY <1>1, <1>11 DEF BInv

\* When no future keeps a guard, guest code that is not part of a cleanup runs
\* under a deadline if its guest has a budget, however calls nest and end:
\* nothing that returns takes the deadline of a call that is still under way.
THEOREM Budgeting == Synchronous /\ Spec => []OperationsAreBudgeted
<1>1. Synchronous /\ Init => BInv
  <2>1. Init => OperationsAreBudgeted
    BY DEF Init, OperationsAreBudgeted
  <2>2. QED
    BY <2>1, InitSInv DEF BInv
<1>2. BInv /\ [Next]_vars => BInv'
  BY StepBInv
<1>3. BInv => OperationsAreBudgeted
  BY DEF BInv
<1>4. QED
  BY <1>1, <1>2, <1>3, PTL DEF Spec

\* When no future keeps a guard, a host that is in no call can open nothing but
\* cleanup once the signal is cancelled: no guard of an earlier activity is
\* left over for a new operation to pass as nested.
THEOREM Admission == Synchronous /\ Spec => CancelledAdmitsNothing
<1>1. ASSUME SInv, [Next]_vars, cancelled, frames = <<>>, frames' # <<>>
      PROVE  frames'[1].kind \in {"cleanup", "drain"}
  <2>1. Futures = {} /\ frames \in Seq(Frame) /\ Len(frames) = 0
    BY <1>1 DEF SInv, IInv, TypeOK, Synchronous
  <2>2. ASSUME NEW g \in Guests PROVE depth[g] = 0 /\ Innermost # g
    BY <1>1, <2>1, ActiveHasCall, InnermostHasCall
  <2>3. ASSUME NEW g \in Guests, NEW kind, NEW owns, Open(kind, g, owns, NoFuture)
        PROVE  frames'[1].kind = kind
    <3>1. frames' = <<[kind |-> kind, guest |-> g, owns |-> owns, fut |-> NoFuture]>>
      BY <1>1, <2>3 DEF Open
    <3>2. QED
      BY <3>1
  <2>4. ASSUME NEW g \in Guests PROVE ~MayBegin(g, "operation")
    BY <1>1, <2>2 DEF MayBegin
  <2>5. ASSUME NEW g \in Guests, Enter(g) \/ Callback(g) \/ Advance(g) PROVE FALSE
    BY <1>1, <2>2, <2>4, <2>5 DEF Enter, EnterWith, Callback, Advance
  <2>6. ASSUME NEW g \in Guests, Close(g) \/ DrainPass(g) \/ DrainRound(g)
        PROVE  frames'[1].kind \in {"cleanup", "drain"}
    BY <2>2, <2>3, <2>6 DEF Close, DrainPass, DrainRound, EnterWith
  <2>7. ~Return /\ ~PollReturns
    BY <1>1 DEF Return, PollReturns
  <2>8. \A g \in Guests : ~CloseDriver(g) /\ ~DropGuest(g)
    BY <1>1 DEF CloseDriver, DropGuest
  <2>9. ~Cancel /\ ~Tick /\ ~UNCHANGED vars
    BY <1>1 DEF Cancel, Tick, vars
  <2>10. QED
    BY <1>1, <2>1, <2>5, <2>6, <2>7, <2>8, <2>9 DEF Next
<1>2. SInv /\ [Next]_vars =>
        [(cancelled /\ frames = <<>> /\ frames' # <<>>) =>
            frames'[1].kind \in {"cleanup", "drain"}]_vars
  BY <1>1
<1>3. QED
  BY <1>2, StackInductive, PTL DEF Spec, CancelledAdmitsNothing
=============================================================================
