-------------------------- MODULE HostFuturesProofs --------------------------
(***************************************************************************)
(* Theorems about HostFutures, for any number of calls, nested batches and *)
(* drivers, and about the streams on them.                                 *)
(*                                                                         *)
(* A call is in at most one list: those that wait are in the order of the  *)
(* calls, so none is among them twice, and none of them is among the       *)
(* outcomes (Apart).  What is not settled is in some list, or is counted   *)
(* as lost (Kept, Gone).                                                   *)
(***************************************************************************)
EXTENDS HostStreams, SequenceTheorems, TLAPS

\* Calls are made in turn, and one that is not made is nowhere.
Fresh ==
    /\ \A j, k \in Calls : j < k /\ asyncio[j] = "none" => asyncio[k] = "none"
    /\ \A k \in Waiting \cup Completed \cup lost : asyncio[k] # "none"

\* A call the guest waits for has its place.
Kept == \A k \in Calls : asyncio[k] = "pending" => k \in Waiting \cup Completed \cup lost

\* What is lost is in no list.
Gone == lost \cap (Waiting \cup Completed) = {}

\* No outcome waits, and each is in one list.
Apart == Waiting \cap Completed = {}

Once ==
    /\ \A n \in DOMAIN frames : Outcomes(frames[n]) \cap ToSet(ready) = {}
    /\ \A m, n \in DOMAIN frames : m # n => Outcomes(frames[m]) \cap Outcomes(frames[n]) = {}

\* What a batch adds to polling.
Weight(frame) ==
    IF frame.kind = "poll" THEN Len(frame.pending) + Len(frame.todo) + Len(frame.ready) ELSE 0

\* polling is the sum over the batches under way: sum[n] is that of the first n.
Sums(sum) ==
    /\ \A n \in 1..Len(frames) : sum[n] = sum[n - 1] + Weight(frames[n])
    /\ \A i, n \in 0..Len(frames) : i <= n => sum[i] <= sum[n]
    /\ polling = sum[Len(frames)]

Counted == \E sum \in [Nat -> Nat] : Sums(sum)

IInv == TypeOK /\ Fresh /\ Kept /\ Gone /\ Apart /\ Once /\ InCallOrder /\ Counted

-----------------------------------------------------------------------------
(* Lists of calls.                                                         *)

LEMMA ListFacts ==
    ASSUME NEW s \in Seq(Calls)
    PROVE  /\ Len(s) \in Nat
           /\ DOMAIN s = 1..Len(s)
           /\ \A i \in 1..Len(s) : s[i] \in Calls
           /\ ToSet(s) = {s[i] : i \in 1..Len(s)}
           /\ ToSet(s) \subseteq Calls
<1>1. Len(s) \in Nat /\ DOMAIN s = 1..Len(s) /\ \A i \in 1..Len(s) : s[i] \in Calls
  BY LenProperties, ElementOfSeq
<1> QED BY <1>1 DEF ToSet

LEMMA CallsAreNumbers == Calls \subseteq Nat
BY HostFuturesAssumption DEF Calls

LEMMA EmptyList ==
    <<>> \in Seq(Calls) /\ Len(<<>>) = 0 /\ ToSet(<<>>) = {} /\ Increasing(<<>>)
<1>1. <<>> \in Seq(Calls) /\ Len(<<>>) = 0
  BY EmptySeq
<1>2. DOMAIN <<>> = 1..0
  BY <1>1, ListFacts
<1>3. ToSet(<<>>) = {}
  BY <1>2 DEF ToSet
<1> QED BY <1>1, <1>2, <1>3 DEF Increasing

LEMMA AppendList ==
    ASSUME NEW s \in Seq(Calls), NEW k \in Calls
    PROVE  /\ Append(s, k) \in Seq(Calls)
           /\ Len(Append(s, k)) = Len(s) + 1
           /\ ToSet(Append(s, k)) = ToSet(s) \cup {k}
           /\ Increasing(s) /\ Before(ToSet(s), {k}) => Increasing(Append(s, k))
<1> DEFINE t == Append(s, k)
<1>1. /\ t \in Seq(Calls) /\ Len(t) = Len(s) + 1
      /\ \A i \in 1..Len(s) : t[i] = s[i]
      /\ t[Len(s) + 1] = k
  BY AppendProperties
<1>2. Len(s) \in Nat /\ DOMAIN s = 1..Len(s) /\ ToSet(s) = {s[i] : i \in 1..Len(s)}
  BY ListFacts
<1>3. DOMAIN t = 1..(Len(s) + 1) /\ ToSet(t) = {t[i] : i \in 1..(Len(s) + 1)}
  BY <1>1, ListFacts
<1> HIDE DEF t
<1>4. ToSet(t) = ToSet(s) \cup {k}
  BY <1>1, <1>2, <1>3
<1>5. ASSUME Increasing(s), Before(ToSet(s), {k})
      PROVE  Increasing(t)
  <2> SUFFICES ASSUME NEW i \in 1..(Len(s) + 1), NEW j \in 1..(Len(s) + 1), i < j
               PROVE  t[i] < t[j]
    BY <1>3 DEF Increasing
  <2>1. i \in 1..Len(s) /\ t[i] = s[i] /\ s[i] \in ToSet(s)
    BY <1>1, <1>2
  <2>2. CASE j = Len(s) + 1
    BY <1>1, <1>5, <2>1, <2>2 DEF Before
  <2>3. CASE j \in 1..Len(s)
    BY <1>1, <1>2, <1>5, <2>1, <2>3 DEF Increasing
  <2> QED BY <1>2, <2>2, <2>3
<1> QED BY <1>1, <1>4, <1>5 DEF t

LEMMA TailList ==
    ASSUME NEW s \in Seq(Calls), s # <<>>
    PROVE  /\ Head(s) \in Calls
           /\ Tail(s) \in Seq(Calls)
           /\ Len(s) = Len(Tail(s)) + 1
           /\ ToSet(s) = {Head(s)} \cup ToSet(Tail(s))
           /\ Increasing(s) => /\ Increasing(Tail(s))
                               /\ Before({Head(s)}, ToSet(Tail(s)))
<1> DEFINE t == Tail(s)
           h == Head(s)
<1>1. /\ h \in Calls /\ t \in Seq(Calls) /\ Len(t) = Len(s) - 1
      /\ \A i \in 1..Len(t) : t[i] = s[i + 1]
  BY HeadTailProperties
<1>2. Len(s) \in Nat \ {0} /\ h = s[1]
  BY EmptySeq
<1>3. DOMAIN s = 1..Len(s) /\ ToSet(s) = {s[i] : i \in 1..Len(s)}
  BY ListFacts
<1>4. DOMAIN t = 1..Len(t) /\ ToSet(t) = {t[i] : i \in 1..Len(t)} /\ Len(t) \in Nat
  BY <1>1, ListFacts
<1> HIDE DEF t, h
<1>5. ToSet(s) = {h} \cup ToSet(t)
  <2>1. ASSUME NEW i \in 1..Len(s)
        PROVE  s[i] \in {h} \cup ToSet(t)
    <3>1. CASE i = 1
      BY <1>2, <3>1
    <3>2. CASE i # 1
      <4>1. i - 1 \in 1..Len(t) /\ t[i - 1] = s[i]
        BY <1>1, <1>2, <3>2
      <4> QED BY <1>4, <4>1
    <3> QED BY <3>1, <3>2
  <2>2. ASSUME NEW i \in 1..Len(t)
        PROVE  t[i] \in ToSet(s)
    BY <1>1, <1>2, <1>3
  <2>3. h \in ToSet(s)
    BY <1>2, <1>3
  <2> QED BY <1>3, <1>4, <2>1, <2>2, <2>3
<1>6. ASSUME Increasing(s)
      PROVE  Increasing(t) /\ Before({h}, ToSet(t))
  <2>1. ASSUME NEW i \in 1..Len(t), NEW j \in 1..Len(t), i < j
        PROVE  t[i] < t[j]
    <3>1. i + 1 \in 1..Len(s) /\ j + 1 \in 1..Len(s) /\ i + 1 < j + 1
      BY <1>1, <1>2, <2>1
    <3> QED BY <1>1, <1>3, <1>6, <3>1 DEF Increasing
  <2>2. ASSUME NEW i \in 1..Len(t)
        PROVE  h < t[i]
    <3>1. 1 \in 1..Len(s) /\ i + 1 \in 1..Len(s) /\ 1 < i + 1
      BY <1>1, <1>2
    <3> QED BY <1>1, <1>2, <1>3, <1>6, <3>1 DEF Increasing
  <2> QED BY <1>4, <2>1, <2>2 DEF Increasing, Before
<1>7. Len(s) = Len(t) + 1
  BY <1>1, <1>2
<1> QED BY <1>1, <1>5, <1>6, <1>7 DEF t, h

LEMMA ConcatList ==
    ASSUME NEW s \in Seq(Calls), NEW t \in Seq(Calls)
    PROVE  /\ s \o t \in Seq(Calls)
           /\ ToSet(s \o t) = ToSet(s) \cup ToSet(t)
           /\ Increasing(s) /\ Increasing(t) /\ Before(ToSet(s), ToSet(t))
                  => Increasing(s \o t)
<1> DEFINE u == s \o t
<1>1. /\ u \in Seq(Calls) /\ Len(u) = Len(s) + Len(t)
      /\ \A i \in 1..(Len(s) + Len(t)) : u[i] = IF i <= Len(s) THEN s[i] ELSE t[i - Len(s)]
  BY ConcatProperties
<1>2. /\ Len(s) \in Nat /\ DOMAIN s = 1..Len(s) /\ ToSet(s) = {s[i] : i \in 1..Len(s)}
      /\ Len(t) \in Nat /\ DOMAIN t = 1..Len(t) /\ ToSet(t) = {t[i] : i \in 1..Len(t)}
  BY ListFacts
<1>3. DOMAIN u = 1..(Len(s) + Len(t)) /\ ToSet(u) = {u[i] : i \in 1..(Len(s) + Len(t))}
  BY <1>1, ListFacts
<1> HIDE DEF u
<1>4. \A i \in 1..Len(s) : i \in 1..(Len(s) + Len(t)) /\ u[i] = s[i]
  BY <1>1, <1>2
<1>5. \A i \in 1..Len(t) : Len(s) + i \in 1..(Len(s) + Len(t)) /\ u[Len(s) + i] = t[i]
  BY <1>1, <1>2
<1>6. \A i \in 1..(Len(s) + Len(t)) :
          i \in 1..Len(s) \/ (i - Len(s) \in 1..Len(t) /\ u[i] = t[i - Len(s)])
  BY <1>1, <1>2
<1>7. ToSet(u) = ToSet(s) \cup ToSet(t)
  <2>1. ToSet(u) \subseteq ToSet(s) \cup ToSet(t)
    BY <1>2, <1>3, <1>4, <1>6
  <2>2. ToSet(s) \subseteq ToSet(u)
    BY <1>2, <1>3, <1>4
  <2>3. ToSet(t) \subseteq ToSet(u)
    BY <1>2, <1>3, <1>5
  <2> QED BY <2>1, <2>2, <2>3
<1>8. ASSUME Increasing(s), Increasing(t), Before(ToSet(s), ToSet(t))
      PROVE  Increasing(u)
  <2> SUFFICES ASSUME NEW i \in 1..(Len(s) + Len(t)), NEW j \in 1..(Len(s) + Len(t)), i < j
               PROVE  u[i] < u[j]
    BY <1>3 DEF Increasing
  <2>1. CASE i \in 1..Len(s) /\ j \in 1..Len(s)
    BY <1>2, <1>4, <1>8, <2>1 DEF Increasing
  <2>2. CASE i \in 1..Len(s) /\ j - Len(s) \in 1..Len(t) /\ u[j] = t[j - Len(s)]
    <3>1. u[i] \in ToSet(s) /\ u[j] \in ToSet(t)
      BY <1>2, <1>4, <2>2
    <3> QED BY <1>8, <3>1 DEF Before
  <2>3. CASE /\ i - Len(s) \in 1..Len(t) /\ u[i] = t[i - Len(s)]
             /\ j - Len(s) \in 1..Len(t) /\ u[j] = t[j - Len(s)]
    <3>1. i - Len(s) < j - Len(s)
      BY <1>2
    <3> QED BY <1>2, <1>8, <2>3, <3>1 DEF Increasing
  <2>4. CASE j \in 1..Len(s) /\ i - Len(s) \in 1..Len(t)
    BY <1>2, <2>4
  <2> QED BY <1>6, <2>1, <2>2, <2>3, <2>4
<1> QED BY <1>1, <1>7, <1>8 DEF u
-----------------------------------------------------------------------------
(* The batches under way.                                                  *)

LEMMA FrameParts ==
    ASSUME NEW r \in Frame
    PROVE  /\ r.kind \in {"poll", "publish"}
           /\ r.todo \in Seq(Calls) /\ r.pending \in Seq(Calls) /\ r.ready \in Seq(Calls)
BY DEF Frame

LEMMA FrameFacts ==
    ASSUME TypeOK
    PROVE  /\ Len(frames) \in Nat
           /\ DOMAIN frames = 1..Len(frames)
           /\ \A n \in 1..Len(frames) : frames[n] \in Frame
           /\ PollFrames = {n \in 1..Len(frames) : frames[n].kind = "poll"}
           /\ frames # <<>> => Len(frames) \in 1..Len(frames) /\ Top = frames[Len(frames)]
<1>1. frames \in Seq(Frame)
  BY DEF TypeOK
<1>2. /\ Len(frames) \in Nat /\ DOMAIN frames = 1..Len(frames)
      /\ \A n \in 1..Len(frames) : frames[n] \in Frame
  BY <1>1, LenProperties, ElementOfSeq
<1>3. frames # <<>> => Len(frames) \in Nat \ {0}
  BY <1>1, EmptySeq
<1> QED BY <1>2, <1>3 DEF PollFrames, Top

LEMMA PushFacts ==
    ASSUME TypeOK, NEW r \in Frame, frames' = Append(frames, r)
    PROVE  /\ frames' \in Seq(Frame)
           /\ Len(frames') = Len(frames) + 1
           /\ \A n \in 1..Len(frames) : frames'[n] = frames[n]
           /\ frames'[Len(frames) + 1] = r
           /\ DOMAIN frames' = 1..(Len(frames) + 1)
<1>1. frames \in Seq(Frame)
  BY DEF TypeOK
<1>2. /\ Append(frames, r) \in Seq(Frame) /\ Len(Append(frames, r)) = Len(frames) + 1
      /\ \A n \in 1..Len(frames) : Append(frames, r)[n] = frames[n]
      /\ Append(frames, r)[Len(frames) + 1] = r
  BY <1>1, AppendProperties
<1> QED BY <1>2, LenProperties

LEMMA GoFacts ==
    ASSUME TypeOK, frames # <<>>, NEW r \in Frame, SetTop(r)
    PROVE  /\ frames' \in Seq(Frame)
           /\ Len(frames') = Len(frames)
           /\ \A n \in 1..Len(frames) : n # Len(frames) => frames'[n] = frames[n]
           /\ frames'[Len(frames)] = r
           /\ DOMAIN frames' = 1..Len(frames)
<1>1. frames \in Seq(Frame) /\ Len(frames) \in 1..Len(frames)
  BY FrameFacts DEF TypeOK
<1>2. frames' = [frames EXCEPT ![Len(frames)] = r]
  BY DEF SetTop
<1>3. /\ frames' \in Seq(Frame) /\ Len(frames') = Len(frames)
      /\ \A n \in 1..Len(frames) : frames'[n] = IF n = Len(frames) THEN r ELSE frames[n]
  BY <1>1, <1>2, ExceptSeq
<1> QED BY <1>1, <1>3, LenProperties

LEMMA PopFacts ==
    ASSUME TypeOK, frames # <<>>, PopTop
    PROVE  /\ frames' \in Seq(Frame)
           /\ Len(frames') = Len(frames) - 1
           /\ \A n \in 1..(Len(frames) - 1) : frames'[n] = frames[n]
           /\ DOMAIN frames' = 1..(Len(frames) - 1)
<1> DEFINE m == Len(frames) - 1
<1>1. m \in Nat /\ m \in Int /\ 1 \in Int /\ \A n \in 1..m : frames[n] \in Frame
  BY FrameFacts
<1>2. frames' = SubSeq(frames, 1, m)
  BY DEF PopTop, Front
<1> HIDE DEF m
<1>3. /\ SubSeq(frames, 1, m) \in Seq(Frame)
      /\ Len(SubSeq(frames, 1, m)) = IF 1 <= m THEN m - 1 + 1 ELSE 0
      /\ \A n \in 1..(m - 1 + 1) : SubSeq(frames, 1, m)[n] = frames[1 + n - 1]
  BY <1>1, SubSeqProperties
<1>4. frames' \in Seq(Frame) /\ Len(frames') = m
  BY <1>1, <1>2, <1>3
<1>5. ASSUME NEW n \in 1..m
      PROVE  frames'[n] = frames[n]
  <2>1. n \in 1..(m - 1 + 1) /\ 1 + n - 1 = n
    BY <1>1
  <2> QED BY <1>2, <1>3, <2>1
<1>6. DOMAIN frames' = 1..m
  BY <1>4, LenProperties
<1> QED BY <1>4, <1>5, <1>6 DEF m

LEMMA PlacesAreCalls ==
    ASSUME TypeOK
    PROVE  /\ ToSet(entries) \subseteq Calls /\ ToSet(ready) \subseteq Calls
           /\ \A n \in 1..Len(frames) : /\ Unfinished(frames[n]) \subseteq Calls
                                        /\ Outcomes(frames[n]) \subseteq Calls
           /\ Waiting \subseteq Calls /\ Completed \subseteq Calls
<1>1. DOMAIN frames = 1..Len(frames) /\ \A n \in 1..Len(frames) : frames[n] \in Frame
  BY FrameFacts
<1>2. ASSUME NEW r \in Frame
      PROVE  Unfinished(r) \subseteq Calls /\ Outcomes(r) \subseteq Calls
  BY FrameParts, ListFacts DEF Unfinished, Outcomes
<1>3. ToSet(entries) \subseteq Calls /\ ToSet(ready) \subseteq Calls
  BY ListFacts DEF TypeOK
<1> QED BY <1>1, <1>2, <1>3 DEF Waiting, Completed

LEMMA Places ==
    ASSUME NEW m \in Nat
    PROVE  /\ \A n \in 1..(m - 1) : n \in 1..m /\ n # m /\ n < m
           /\ \A n \in 1..m : n \in 1..(m - 1) \/ n = m
           /\ \A n \in 1..m : n \in 1..(m + 1) /\ n # m + 1 /\ n < m + 1
           /\ \A n \in 1..(m + 1) : n \in 1..m \/ n = m + 1
           /\ m + 1 \in 1..(m + 1)
OBVIOUS

\* What the batches below the top one hold.
WaitingBelow == UNION {Unfinished(frames[n]) : n \in 1..(Len(frames) - 1)}
CompletedBelow == UNION {Outcomes(frames[n]) : n \in 1..(Len(frames) - 1)}

LEMMA Split ==
    ASSUME TypeOK, frames # <<>>
    PROVE  /\ Waiting = ToSet(entries) \cup WaitingBelow \cup Unfinished(Top)
           /\ Completed = ToSet(ready) \cup CompletedBelow \cup Outcomes(Top)
<1>1. /\ DOMAIN frames = 1..Len(frames) /\ Len(frames) \in 1..Len(frames) /\ Len(frames) \in Nat
      /\ Top = frames[Len(frames)]
  BY FrameFacts
<1>2. /\ \A n \in 1..Len(frames) : n \in 1..(Len(frames) - 1) \/ n = Len(frames)
      /\ \A n \in 1..(Len(frames) - 1) : n \in 1..Len(frames)
  BY <1>1, Places
<1> QED BY <1>1, <1>2 DEF Waiting, Completed, WaitingBelow, CompletedBelow

\* What all the batches hold.
WaitingOut == UNION {Unfinished(frames[n]) : n \in DOMAIN frames}
CompletedOut == UNION {Outcomes(frames[n]) : n \in DOMAIN frames}

LEMMA PushPlaces ==
    ASSUME TypeOK, NEW r \in Frame, frames' = Append(frames, r)
    PROVE  /\ Waiting' = ToSet(entries') \cup WaitingOut \cup Unfinished(r)
           /\ Completed' = ToSet(ready') \cup CompletedOut \cup Outcomes(r)
<1>1. /\ Len(frames') = Len(frames) + 1 /\ DOMAIN frames' = 1..(Len(frames) + 1)
      /\ \A n \in 1..Len(frames) : frames'[n] = frames[n]
      /\ frames'[Len(frames) + 1] = r
  BY PushFacts
<1>2. Len(frames) \in Nat /\ DOMAIN frames = 1..Len(frames)
  BY FrameFacts
<1>3. /\ \A n \in 1..(Len(frames) + 1) : n \in 1..Len(frames) \/ n = Len(frames) + 1
      /\ \A n \in 1..Len(frames) : n \in 1..(Len(frames) + 1)
      /\ Len(frames) + 1 \in 1..(Len(frames) + 1)
  BY <1>2, Places
<1>4. Waiting' = ToSet(entries') \cup
                     UNION {Unfinished(frames'[n]) : n \in 1..(Len(frames) + 1)}
  BY <1>1 DEF Waiting
<1>5. Completed' = ToSet(ready') \cup
                       UNION {Outcomes(frames'[n]) : n \in 1..(Len(frames) + 1)}
  BY <1>1 DEF Completed
<1>6. UNION {Unfinished(frames'[n]) : n \in 1..(Len(frames) + 1)} =
          (UNION {Unfinished(frames[n]) : n \in 1..Len(frames)}) \cup Unfinished(r)
  BY <1>1, <1>3
<1>7. UNION {Outcomes(frames'[n]) : n \in 1..(Len(frames) + 1)} =
          (UNION {Outcomes(frames[n]) : n \in 1..Len(frames)}) \cup Outcomes(r)
  BY <1>1, <1>3
<1> QED BY <1>2, <1>4, <1>5, <1>6, <1>7 DEF WaitingOut, CompletedOut

LEMMA GoPlaces ==
    ASSUME TypeOK, frames # <<>>, NEW r \in Frame, SetTop(r)
    PROVE  /\ Waiting' = ToSet(entries') \cup WaitingBelow \cup Unfinished(r)
           /\ Completed' = ToSet(ready') \cup CompletedBelow \cup Outcomes(r)
<1>1. /\ Len(frames') = Len(frames) /\ DOMAIN frames' = 1..Len(frames)
      /\ \A n \in 1..Len(frames) : n # Len(frames) => frames'[n] = frames[n]
      /\ frames'[Len(frames)] = r
  BY GoFacts
<1>2. Len(frames) \in Nat /\ Len(frames) \in 1..Len(frames)
  BY FrameFacts
<1>3. \A n \in 1..Len(frames) : n \in 1..(Len(frames) - 1) \/ n = Len(frames)
  BY <1>2, Places
<1>4. \A n \in 1..(Len(frames) - 1) : n \in 1..Len(frames) /\ frames'[n] = frames[n]
  BY <1>1, <1>2, Places
<1> QED BY <1>1, <1>2, <1>3, <1>4 DEF Waiting, Completed, WaitingBelow, CompletedBelow

LEMMA PopPlaces ==
    ASSUME TypeOK, frames # <<>>, PopTop
    PROVE  /\ Waiting' = ToSet(entries') \cup WaitingBelow
           /\ Completed' = ToSet(ready') \cup CompletedBelow
BY PopFacts DEF Waiting, Completed, WaitingBelow, CompletedBelow

\* The outcomes of the top batch are nowhere else.
LEMMA TopOutcomes ==
    ASSUME TypeOK, Once, frames # <<>>
    PROVE  Outcomes(Top) \cap (ToSet(ready) \cup CompletedBelow) = {}
<1>1. /\ DOMAIN frames = 1..Len(frames) /\ Len(frames) \in 1..Len(frames) /\ Len(frames) \in Nat
      /\ Top = frames[Len(frames)]
  BY FrameFacts
<1>2. \A n \in 1..(Len(frames) - 1) : n \in 1..Len(frames) /\ n # Len(frames)
  BY <1>1, Places
<1> QED BY <1>1, <1>2 DEF Once, CompletedBelow

LEMMA ReadyBelow ==
    ASSUME TypeOK, Once, frames # <<>>
    PROVE  CompletedBelow \cap ToSet(ready) = {}
<1>1. DOMAIN frames = 1..Len(frames) /\ Len(frames) \in Nat
  BY FrameFacts
<1>2. \A n \in 1..(Len(frames) - 1) : n \in 1..Len(frames)
  BY <1>1, Places
<1> QED BY <1>1, <1>2 DEF Once, CompletedBelow

-----------------------------------------------------------------------------
(* A batch is moved out, goes on, or is over.                              *)

LEMMA WeightFacts ==
    ASSUME NEW r \in Frame
    PROVE  Weight(r) \in Nat
<1> DEFINE a == Len(r.pending)
           b == Len(r.todo)
           c == Len(r.ready)
<1>1. a \in Nat /\ b \in Nat /\ c \in Nat
  BY FrameParts, ListFacts
<1>2. Weight(r) = IF r.kind = "poll" THEN a + b + c ELSE 0
  BY DEF Weight
<1> HIDE DEF a, b, c
<1>3. a + b + c \in Nat
  BY <1>1
<1> QED BY <1>2, <1>3

LEMMA NextSum ==
    ASSUME NEW sum \in [Nat -> Nat], NEW m \in Nat, NEW w \in Nat
    PROVE  \E next \in [Nat -> Nat] : /\ \A n \in 0..m : next[n] = sum[n]
                                      /\ next[m + 1] = sum[m] + w
<1> DEFINE next == [n \in Nat |-> IF n = m + 1 THEN sum[m] + w ELSE sum[n]]
<1>1. next \in [Nat -> Nat]
  OBVIOUS
<1>2. ASSUME NEW n \in 0..m
      PROVE  next[n] = sum[n]
  <2>1. n \in Nat /\ n # m + 1
    OBVIOUS
  <2> QED BY <2>1
<1>3. next[m + 1] = sum[m] + w
  <2>1. m + 1 \in Nat
    OBVIOUS
  <2> QED BY <2>1
<1> HIDE DEF next
<1> QED BY <1>1, <1>2, <1>3

LEMMA PushKeeps ==
    ASSUME IInv, NEW r \in Frame, frames' = Append(frames, r)
    PROVE  /\ /\ InOrder(r) /\ Increasing(entries')
              /\ Before(Unfinished(r), ToSet(entries'))
              /\ Before(WaitingOut, ToSet(entries') \cup Unfinished(r))
              => InCallOrder'
           /\ /\ Outcomes(r) \cap ToSet(ready') = {}
              /\ CompletedOut \cap (ToSet(ready') \cup Outcomes(r)) = {}
              => Once'
           /\ polling' = polling + Weight(r) => Counted'
<1> DEFINE m == Len(frames)
<1>1. /\ Len(frames') = m + 1 /\ DOMAIN frames' = 1..(m + 1)
      /\ \A n \in 1..m : frames'[n] = frames[n]
      /\ frames'[m + 1] = r
  BY PushFacts DEF IInv
<1>2. m \in Nat /\ DOMAIN frames = 1..m
  BY FrameFacts DEF IInv
<1> HIDE DEF m
<1>3. /\ \A n \in 1..(m + 1) : n \in 1..m \/ n = m + 1
      /\ \A n \in 1..m : n # m + 1 /\ n < m + 1 /\ ~(m + 1 < n)
      /\ ~(m + 1 < m + 1)
  BY <1>2
<1>4. ASSUME InOrder(r), Increasing(entries'), Before(Unfinished(r), ToSet(entries')),
             Before(WaitingOut, ToSet(entries') \cup Unfinished(r))
      PROVE  InCallOrder'
  <2>1. \A n \in 1..m :
            /\ InOrder(frames[n])
            /\ \A i \in 1..m : i < n => Before(Unfinished(frames[i]), Unfinished(frames[n]))
    BY <1>2 DEF IInv, InCallOrder
  <2>2. \A n \in 1..m : /\ Before(Unfinished(frames[n]), ToSet(entries'))
                        /\ Before(Unfinished(frames[n]), Unfinished(r))
    BY <1>2, <1>4 DEF Before, WaitingOut
  <2>3. ASSUME NEW n \in 1..(m + 1)
        PROVE  /\ InOrder(frames'[n])
               /\ Before(Unfinished(frames'[n]), ToSet(entries'))
               /\ \A i \in 1..(m + 1) :
                      i < n => Before(Unfinished(frames'[i]), Unfinished(frames'[n]))
    <3>1. CASE n \in 1..m
      BY <1>1, <1>3, <2>1, <2>2, <3>1
    <3>2. CASE n = m + 1
      BY <1>1, <1>3, <1>4, <2>2, <3>2
    <3> QED BY <1>3, <3>1, <3>2
  <2> QED BY <1>1, <1>4, <2>3 DEF InCallOrder
<1>5. ASSUME Outcomes(r) \cap ToSet(ready') = {},
             CompletedOut \cap (ToSet(ready') \cup Outcomes(r)) = {}
      PROVE  Once'
  <2>1. \A i, n \in 1..m : i # n => Outcomes(frames[i]) \cap Outcomes(frames[n]) = {}
    BY <1>2 DEF IInv, Once
  <2>2. \A n \in 1..m : /\ Outcomes(frames[n]) \cap ToSet(ready') = {}
                        /\ Outcomes(frames[n]) \cap Outcomes(r) = {}
    BY <1>2, <1>5 DEF CompletedOut
  <2>3. \A n \in 1..(m + 1) : Outcomes(frames'[n]) \cap ToSet(ready') = {}
    BY <1>1, <1>3, <1>5, <2>2
  <2>4. ASSUME NEW i \in 1..(m + 1), NEW n \in 1..(m + 1), i # n
        PROVE  Outcomes(frames'[i]) \cap Outcomes(frames'[n]) = {}
    BY <1>1, <1>3, <2>1, <2>2, <2>4
  <2> QED BY <1>1, <2>3, <2>4 DEF Once
<1>6. ASSUME polling' = polling + Weight(r)
      PROVE  Counted'
  <2>1. PICK sum \in [Nat -> Nat] : Sums(sum)
    BY DEF IInv, Counted
  <2>2. Weight(r) \in Nat
    BY WeightFacts
  <2>3. sum[m] \in Nat
    BY <1>2
  <2>4. PICK next \in [Nat -> Nat] : /\ \A n \in 0..m : next[n] = sum[n]
                                     /\ next[m + 1] = sum[m] + Weight(r)
    BY <1>2, <2>2, NextSum
  <2>5. /\ \A n \in 1..m : sum[n] = sum[n - 1] + Weight(frames[n])
        /\ \A i, n \in 0..m : i <= n => sum[i] <= sum[n]
        /\ polling = sum[m]
    BY <2>1 DEF Sums, m
  <2>6. ASSUME NEW n \in 1..(m + 1)
        PROVE  next[n] = next[n - 1] + Weight(frames'[n])
    <3>1. CASE n \in 1..m
      <4>1. n \in 0..m /\ n - 1 \in 0..m
        BY <1>2, <3>1
      <4> QED BY <1>1, <2>4, <2>5, <3>1, <4>1
    <3>2. CASE n = m + 1
      <4>1. n - 1 = m /\ m \in 0..m
        BY <1>2, <3>2
      <4> QED BY <1>1, <2>4, <3>2, <4>1
    <3> QED BY <1>3, <3>1, <3>2
  <2>7. ASSUME NEW i \in 0..(m + 1), NEW n \in 0..(m + 1), i <= n
        PROVE  next[i] <= next[n]
    <3>1. CASE i \in 0..m /\ n \in 0..m
      BY <2>4, <2>5, <2>7, <3>1
    <3>2. CASE i \in 0..m /\ n = m + 1
      <4>1. m \in 0..m /\ i <= m /\ i \in Nat
        BY <1>2, <3>2
      <4>2. sum[i] <= sum[m] /\ sum[i] \in Nat /\ next[i] = sum[i]
        BY <2>4, <2>5, <3>2, <4>1
      <4>3. next[n] = sum[m] + Weight(r)
        BY <2>4, <3>2
      <4>4. sum[i] <= sum[m] + Weight(r)
        <5>1. \A a, b, c \in Nat : a <= b => a <= b + c
          OBVIOUS
        <5> QED BY <2>2, <2>3, <4>2, <5>1
      <4>5. next[i] = sum[i]
        BY <4>2
      <4> QED BY <4>3, <4>4, <4>5, Zenon
    <3>3. CASE i = m + 1 /\ n = m + 1
      BY <1>2, <2>2, <2>3, <2>4, <3>3
    <3>4. i \in 0..m \/ i = m + 1
      BY <1>2
    <3>5. n \in 0..m \/ n = m + 1
      BY <1>2
    <3>6. ~(i = m + 1 /\ n \in 0..m)
      BY <1>2, <2>7
    <3> QED BY <3>1, <3>2, <3>3, <3>4, <3>5, <3>6
  <2>8. polling' = next[m + 1]
    BY <1>6, <2>4, <2>5
  <2>9. Sums(next)'
    BY <1>1, <2>6, <2>7, <2>8 DEF Sums
  <2> QED BY <2>9 DEF Counted
<1> QED BY <1>4, <1>5, <1>6

LEMMA GoKeeps ==
    ASSUME IInv, frames # <<>>, NEW r \in Frame, SetTop(r)
    PROVE  /\ /\ InOrder(r) /\ entries' = entries
              /\ Unfinished(r) \subseteq Unfinished(Top)
              => InCallOrder'
           /\ /\ ready' = ready
              /\ Outcomes(r) \cap (ToSet(ready) \cup CompletedBelow) = {}
              => Once'
           /\ Weight(r) = Weight(Top) /\ polling' = polling => Counted'
<1> DEFINE m == Len(frames)
<1>1. /\ Len(frames') = m /\ DOMAIN frames' = 1..m
      /\ \A n \in 1..m : n # m => frames'[n] = frames[n]
      /\ frames'[m] = r
  BY GoFacts DEF IInv
<1>2. m \in Nat /\ DOMAIN frames = 1..m /\ m \in 1..m /\ Top = frames[m]
  BY FrameFacts DEF IInv
<1> HIDE DEF m
<1>3. \A n \in 1..m : n \in 1..(m - 1) \/ n = m
  BY <1>2
<1>4. ASSUME InOrder(r), entries' = entries, Unfinished(r) \subseteq Unfinished(Top)
      PROVE  InCallOrder'
  <2>1. /\ Increasing(entries)
        /\ \A n \in 1..m :
               /\ InOrder(frames[n])
               /\ Before(Unfinished(frames[n]), ToSet(entries))
               /\ \A i \in 1..m : i < n => Before(Unfinished(frames[i]), Unfinished(frames[n]))
    BY <1>2 DEF IInv, InCallOrder
  <2>2. \A n \in 1..m : /\ Unfinished(frames'[n]) \subseteq Unfinished(frames[n])
                        /\ InOrder(frames'[n])
    BY <1>1, <1>2, <1>4, <2>1
  <2>3. ASSUME NEW n \in 1..m
        PROVE  /\ Before(Unfinished(frames'[n]), ToSet(entries))
               /\ \A i \in 1..m :
                      i < n => Before(Unfinished(frames'[i]), Unfinished(frames'[n]))
    BY <2>1, <2>2 DEF Before
  <2> QED BY <1>1, <1>4, <2>1, <2>2, <2>3 DEF InCallOrder
<1>5. ASSUME ready' = ready, Outcomes(r) \cap (ToSet(ready) \cup CompletedBelow) = {}
      PROVE  Once'
  <2>1. /\ \A n \in 1..m : Outcomes(frames[n]) \cap ToSet(ready) = {}
        /\ \A i, n \in 1..m : i # n => Outcomes(frames[i]) \cap Outcomes(frames[n]) = {}
    BY <1>2 DEF IInv, Once
  <2>2. \A n \in 1..m : n # m => Outcomes(frames[n]) \cap Outcomes(r) = {}
    BY <1>3, <1>5 DEF CompletedBelow, m
  <2>3. \A n \in 1..m : Outcomes(frames'[n]) \cap ToSet(ready') = {}
    BY <1>1, <1>5, <2>1
  <2>4. ASSUME NEW i \in 1..m, NEW n \in 1..m, i # n
        PROVE  Outcomes(frames'[i]) \cap Outcomes(frames'[n]) = {}
    BY <1>1, <2>1, <2>2, <2>4
  <2> QED BY <1>1, <2>3, <2>4 DEF Once
<1>6. ASSUME Weight(r) = Weight(Top), polling' = polling
      PROVE  Counted'
  <2>1. PICK sum \in [Nat -> Nat] : Sums(sum)
    BY DEF IInv, Counted
  <2>2. \A n \in 1..m : Weight(frames'[n]) = Weight(frames[n])
    BY <1>1, <1>2, <1>6
  <2>3. Sums(sum)'
    BY <1>1, <1>6, <2>1, <2>2 DEF Sums, m
  <2> QED BY <2>3 DEF Counted
<1> QED BY <1>4, <1>5, <1>6

LEMMA PopKeeps ==
    ASSUME IInv, frames # <<>>, PopTop
    PROVE  /\ Increasing(entries') /\ Before(WaitingBelow, ToSet(entries')) => InCallOrder'
           /\ CompletedBelow \cap ToSet(ready') = {} => Once'
           /\ polling - Weight(Top) \in Nat
           /\ polling' = polling - Weight(Top) => Counted'
<1> DEFINE m == Len(frames)
<1>1. /\ Len(frames') = m - 1 /\ DOMAIN frames' = 1..(m - 1)
      /\ \A n \in 1..(m - 1) : frames'[n] = frames[n]
  BY PopFacts DEF IInv
<1>2. /\ m \in Nat /\ DOMAIN frames = 1..m /\ m \in 1..m
      /\ Top = frames[m] /\ frames[m] \in Frame
  BY FrameFacts DEF IInv
<1> HIDE DEF m
<1>3. \A n \in 1..(m - 1) : n \in 1..m
  BY <1>2
<1>4. ASSUME Increasing(entries'), Before(WaitingBelow, ToSet(entries'))
      PROVE  InCallOrder'
  <2>1. \A n \in 1..m :
            /\ InOrder(frames[n])
            /\ \A i \in 1..m : i < n => Before(Unfinished(frames[i]), Unfinished(frames[n]))
    BY <1>2 DEF IInv, InCallOrder
  <2>2. \A n \in 1..(m - 1) : Before(Unfinished(frames[n]), ToSet(entries'))
    BY <1>4 DEF Before, WaitingBelow, m
  <2> QED BY <1>1, <1>3, <1>4, <2>1, <2>2 DEF InCallOrder
<1>5. ASSUME CompletedBelow \cap ToSet(ready') = {}
      PROVE  Once'
  <2>1. \A i, n \in 1..m : i # n => Outcomes(frames[i]) \cap Outcomes(frames[n]) = {}
    BY <1>2 DEF IInv, Once
  <2>2. \A n \in 1..(m - 1) : Outcomes(frames[n]) \cap ToSet(ready') = {}
    BY <1>5 DEF CompletedBelow, m
  <2> QED BY <1>1, <1>3, <2>1, <2>2 DEF Once
<1>6. PICK sum \in [Nat -> Nat] : Sums(sum)
  BY DEF IInv, Counted
<1>7. /\ \A n \in 1..m : sum[n] = sum[n - 1] + Weight(frames[n])
      /\ \A n \in 1..m : Weight(frames[n]) \in Nat
      /\ polling = sum[m]
  BY <1>2, <1>6, WeightFacts, FrameFacts DEF IInv, Sums, m
<1>8. m - 1 \in Nat /\ sum[m - 1] \in Nat /\ Weight(Top) \in Nat
  BY <1>2, <1>7
<1>9. sum[m - 1] = polling - Weight(Top)
  BY <1>2, <1>7, <1>8
<1>10. ASSUME polling' = polling - Weight(Top)
       PROVE  Counted'
  <2>1. \A n \in 0..(m - 1) : n \in 0..m
    BY <1>2
  <2>2. /\ \A n \in 1..(m - 1) : sum[n] = sum[n - 1] + Weight(frames'[n])
        /\ \A i, n \in 0..(m - 1) : i <= n => sum[i] <= sum[n]
    BY <1>1, <1>3, <1>6, <1>7, <2>1 DEF Sums, m
  <2>3. polling' = sum[m - 1]
    BY <1>9, <1>10
  <2>4. Sums(sum)'
    BY <1>1, <2>2, <2>3 DEF Sums
  <2> QED BY <2>4 DEF Counted
<1> QED BY <1>4, <1>5, <1>8, <1>9, <1>10

\* A batch that polls nothing is over.
LEMMA PopUnpolled ==
    ASSUME IInv, frames # <<>>, PopTop, Weight(Top) = 0, UNCHANGED <<entries, polling, ready>>
    PROVE  InCallOrder' /\ Once' /\ Counted'
<1>1. TypeOK /\ Once /\ InCallOrder
  BY DEF IInv
<1>2. DOMAIN frames = 1..Len(frames) /\ Len(frames) \in Nat
  BY <1>1, FrameFacts
<1>3. \A n \in 1..(Len(frames) - 1) : n \in 1..Len(frames)
  BY <1>2, Places
<1>4. InCallOrder'
  BY <1>1, <1>2, <1>3, PopKeeps DEF InCallOrder, Before, WaitingBelow
<1>5. Once'
  BY <1>1, ReadyBelow, PopKeeps
<1>6. polling - 0 = polling
  BY <1>1 DEF TypeOK
<1> QED BY <1>4, <1>5, <1>6, PopKeeps

\* No batch is under way.
LEMMA ZeroSum == \E sum \in [Nat -> Nat] : \A n \in Nat : sum[n] = 0
<1>1. [n \in Nat |-> 0] \in [Nat -> Nat] /\ \A n \in Nat : [i \in Nat |-> 0][n] = 0
  OBVIOUS
<1> QED BY <1>1

LEMMA NoSum ==
    ASSUME frames' = <<>>, polling' = 0
    PROVE  Counted'
<1>1. PICK sum \in [Nat -> Nat] : \A n \in Nat : sum[n] = 0
  BY ZeroSum
<1>2. Sums(sum)'
  BY <1>1, EmptyList DEF Sums
<1> QED BY <1>2 DEF Counted

-----------------------------------------------------------------------------
(* What the actions make of a batch.                                       *)

LEMMA BatchFacts ==
    ASSUME NEW todo \in Seq(Calls), NEW kind \in {"poll", "publish"}
    PROVE  LET r == Batch(kind, todo) IN
           /\ r \in Frame
           /\ InOrder(r) <=> (kind = "poll" => Increasing(todo))
           /\ Unfinished(r) = IF kind = "poll" THEN ToSet(todo) ELSE {}
           /\ Outcomes(r) = IF kind = "poll" THEN {} ELSE ToSet(todo)
           /\ Weight(r) = IF kind = "poll" THEN Len(todo) ELSE 0
<1> DEFINE r == Batch(kind, todo)
<1>1. <<>> \in Seq(Calls) /\ Len(<<>>) = 0 /\ ToSet(<<>>) = {} /\ Increasing(<<>>)
  BY EmptyList
<1>2. r \in Frame /\ r.kind = kind /\ r.todo = todo /\ r.pending = <<>> /\ r.ready = <<>>
  BY <1>1 DEF Batch, Frame
<1>3. Len(todo) \in Nat
  BY ListFacts
<1> HIDE DEF r
<1>4. InOrder(r) <=> (kind = "poll" => Increasing(todo))
  BY <1>1, <1>2 DEF InOrder, Before
<1>5. Unfinished(r) = IF kind = "poll" THEN ToSet(todo) ELSE {}
  BY <1>1, <1>2 DEF Unfinished
<1>6. Outcomes(r) = IF kind = "poll" THEN {} ELSE ToSet(todo)
  BY <1>1, <1>2 DEF Outcomes
<1>7. Weight(r) = IF kind = "poll" THEN Len(todo) ELSE 0
  BY <1>1, <1>2, <1>3 DEF Weight
<1> QED BY <1>2, <1>4, <1>5, <1>6, <1>7 DEF r

\* The head of a batch is polled and pending.
LEMMA PendingFacts ==
    ASSUME NEW f \in Frame, f.kind = "poll", f.todo # <<>>
    PROVE  LET r == [f EXCEPT !.todo = Tail(@), !.pending = Append(@, Head(f.todo))] IN
           /\ r \in Frame
           /\ InOrder(f) => InOrder(r)
           /\ Unfinished(r) = Unfinished(f)
           /\ Outcomes(r) = Outcomes(f)
           /\ Weight(r) = Weight(f)
<1> DEFINE h == Head(f.todo)
           r == [f EXCEPT !.todo = Tail(@), !.pending = Append(@, h)]
<1>1. /\ f.todo \in Seq(Calls) /\ f.pending \in Seq(Calls) /\ f.ready \in Seq(Calls)
      /\ h \in Calls /\ Tail(f.todo) \in Seq(Calls)
      /\ Len(f.todo) = Len(Tail(f.todo)) + 1
      /\ ToSet(f.todo) = {h} \cup ToSet(Tail(f.todo))
      /\ Increasing(f.todo) => /\ Increasing(Tail(f.todo))
                               /\ Before({h}, ToSet(Tail(f.todo)))
  BY FrameParts, TailList
<1>2. /\ Append(f.pending, h) \in Seq(Calls)
      /\ Len(Append(f.pending, h)) = Len(f.pending) + 1
      /\ ToSet(Append(f.pending, h)) = ToSet(f.pending) \cup {h}
      /\ Increasing(f.pending) /\ Before(ToSet(f.pending), {h})
             => Increasing(Append(f.pending, h))
  BY <1>1, AppendList
<1>3. /\ r.kind = f.kind /\ r.todo = Tail(f.todo) /\ r.ready = f.ready
      /\ r.pending = Append(f.pending, h)
  BY DEF Frame
<1>4. r \in Frame
  BY <1>1, <1>2, Zenon DEF Frame
<1>5. Len(Tail(f.todo)) \in Nat /\ Len(f.pending) \in Nat /\ Len(f.ready) \in Nat
  BY <1>1, ListFacts
<1> HIDE DEF r, h
<1>6. ASSUME InOrder(f)
      PROVE  InOrder(r)
  <2>1. Increasing(f.pending) /\ Increasing(f.todo) /\ Before(ToSet(f.pending), ToSet(f.todo))
    BY <1>6 DEF InOrder
  <2>2. Before(ToSet(f.pending), {h}) /\ Before(ToSet(f.pending), ToSet(Tail(f.todo)))
    BY <1>1, <2>1 DEF Before
  <2>3. Increasing(Append(f.pending, h)) /\ Increasing(Tail(f.todo))
    BY <1>1, <1>2, <2>1, <2>2
  <2>4. Before(ToSet(f.pending) \cup {h}, ToSet(Tail(f.todo)))
    BY <1>1, <2>1, <2>2 DEF Before
  <2> QED BY <1>2, <1>3, <2>3, <2>4 DEF InOrder
<1>7. Unfinished(r) = Unfinished(f) /\ Outcomes(r) = Outcomes(f)
  BY <1>1, <1>2, <1>3 DEF Unfinished, Outcomes
<1>8. Weight(r) = Weight(f)
  <2>1. Weight(r) = Len(f.pending) + 1 + Len(Tail(f.todo)) + Len(f.ready)
    BY <1>1, <1>2, <1>3 DEF Weight
  <2>2. \A a, b, c \in Nat : a + 1 + b + c = a + (b + 1) + c /\ a + b + (c + 1) = a + (b + 1) + c
    OBVIOUS
  <2>3. Weight(f) = Len(f.pending) + (Len(Tail(f.todo)) + 1) + Len(f.ready)
    BY <1>1 DEF Weight
  <2> QED BY <1>5, <2>1, <2>2, <2>3
<1> QED BY <1>4, <1>6, <1>7, <1>8 DEF r, h

\* Or it has its outcome.
LEMMA ReadyFacts ==
    ASSUME NEW f \in Frame, f.kind = "poll", f.todo # <<>>, InOrder(f)
    PROVE  LET r == [f EXCEPT !.todo = Tail(@), !.ready = Append(@, Head(f.todo))] IN
           /\ r \in Frame
           /\ InOrder(r)
           /\ Head(f.todo) \in Unfinished(f) /\ Unfinished(r) = Unfinished(f) \ {Head(f.todo)}
           /\ Outcomes(r) = Outcomes(f) \cup {Head(f.todo)}
           /\ Weight(r) = Weight(f)
<1> DEFINE h == Head(f.todo)
           r == [f EXCEPT !.todo = Tail(@), !.ready = Append(@, h)]
<1>1. /\ f.todo \in Seq(Calls) /\ f.pending \in Seq(Calls) /\ f.ready \in Seq(Calls)
      /\ h \in Calls /\ Tail(f.todo) \in Seq(Calls)
      /\ Len(f.todo) = Len(Tail(f.todo)) + 1
      /\ ToSet(f.todo) = {h} \cup ToSet(Tail(f.todo))
      /\ Increasing(f.todo) => /\ Increasing(Tail(f.todo))
                               /\ Before({h}, ToSet(Tail(f.todo)))
  BY FrameParts, TailList
<1>2. /\ Append(f.ready, h) \in Seq(Calls)
      /\ Len(Append(f.ready, h)) = Len(f.ready) + 1
      /\ ToSet(Append(f.ready, h)) = ToSet(f.ready) \cup {h}
  BY <1>1, AppendList
<1>3. /\ r.kind = f.kind /\ r.todo = Tail(f.todo) /\ r.pending = f.pending
      /\ r.ready = Append(f.ready, h)
  BY DEF Frame
<1>4. r \in Frame
  BY <1>1, <1>2, Zenon DEF Frame
<1>5. Len(Tail(f.todo)) \in Nat /\ Len(f.pending) \in Nat /\ Len(f.ready) \in Nat
  BY <1>1, ListFacts
<1> HIDE DEF r, h
<1>6. Increasing(f.pending) /\ Increasing(f.todo) /\ Before(ToSet(f.pending), ToSet(f.todo))
  BY DEF InOrder
<1>7. InOrder(r)
  BY <1>1, <1>3, <1>6 DEF InOrder, Before
<1>8. h \notin ToSet(f.pending) /\ h \notin ToSet(Tail(f.todo))
  <2>1. ~(h < h)
    BY <1>1, CallsAreNumbers
  <2> QED BY <1>1, <1>6, <2>1 DEF Before
<1>9. h \in Unfinished(f) /\ Unfinished(r) = Unfinished(f) \ {h}
  BY <1>1, <1>3, <1>8 DEF Unfinished
<1>10. Outcomes(r) = Outcomes(f) \cup {h}
  BY <1>2, <1>3 DEF Outcomes
<1>11. Weight(r) = Weight(f)
  <2>1. Weight(r) = Len(f.pending) + Len(Tail(f.todo)) + (Len(f.ready) + 1)
    BY <1>1, <1>2, <1>3 DEF Weight
  <2>2. \A a, b, c \in Nat : a + 1 + b + c = a + (b + 1) + c /\ a + b + (c + 1) = a + (b + 1) + c
    OBVIOUS
  <2>3. Weight(f) = Len(f.pending) + (Len(Tail(f.todo)) + 1) + Len(f.ready)
    BY <1>1 DEF Weight
  <2> QED BY <1>5, <2>1, <2>2, <2>3
<1> QED BY <1>4, <1>7, <1>9, <1>10, <1>11 DEF r, h

\* Or it is published.
LEMMA PublishedFacts ==
    ASSUME NEW f \in Frame, f.kind = "publish", f.todo # <<>>
    PROVE  LET r == [f EXCEPT !.todo = Tail(@)] IN
           /\ r \in Frame /\ InOrder(r)
           /\ Unfinished(r) = {} /\ Weight(r) = 0
           /\ Outcomes(f) = {Head(f.todo)} \cup Outcomes(r)
<1> DEFINE r == [f EXCEPT !.todo = Tail(@)]
<1>1. /\ Tail(f.todo) \in Seq(Calls)
      /\ ToSet(f.todo) = {Head(f.todo)} \cup ToSet(Tail(f.todo))
  BY FrameParts, TailList
<1>2. r.kind = f.kind /\ r.todo = Tail(f.todo)
  BY DEF Frame
<1>3. r \in Frame
  BY <1>1, Zenon DEF Frame
<1> HIDE DEF r
<1>4. InOrder(r) /\ Unfinished(r) = {} /\ Weight(r) = 0
  BY <1>2 DEF InOrder, Unfinished, Weight
<1>5. Outcomes(f) = {Head(f.todo)} \cup Outcomes(r)
  BY <1>1, <1>2 DEF Outcomes
<1> QED BY <1>3, <1>4, <1>5 DEF r

-----------------------------------------------------------------------------
(* Each action keeps the invariant; what it does to the places of the calls *)
(* is what the guest may see of it.                                        *)

\* Nothing the guest may see.
Silent == UNCHANGED <<Waiting, Completed, asyncio, lost>>

LEMMA SilentKeeps ==
    ASSUME IInv, Silent
    PROVE  Fresh' /\ Kept' /\ Gone' /\ Apart'
BY DEF IInv, Silent, Fresh, Kept, Gone, Apart

LEMMA RegisterKeeps ==
    ASSUME IInv, NEW k \in Calls, Register(k)
    PROVE  IInv' /\ Waiting' = Waiting \cup {k} /\ Completed' = Completed
<1>1. /\ TypeOK /\ Fresh /\ Kept /\ Gone /\ Apart /\ Once /\ InCallOrder /\ Counted
  BY DEF IInv
<1>2. /\ asyncio[k] = "none" /\ \A j \in Calls : j < k => asyncio[j] # "none"
      /\ asyncio' = [asyncio EXCEPT ![k] = "pending"]
      /\ entries' = Append(entries, k)
      /\ UNCHANGED <<polling, ready, frames, lost, opened>>
  BY DEF Register
<1>3. Waiting \subseteq Calls /\ Completed \subseteq Calls
  BY <1>1, PlacesAreCalls
<1>4. k \notin Waiting /\ k \notin Completed /\ k \notin lost
  BY <1>1, <1>2 DEF Fresh
<1>5. Before(Waiting, {k})
  <2> SUFFICES ASSUME NEW j \in Waiting
               PROVE  j < k
    BY DEF Before
  <2>1. j \in Calls /\ asyncio[j] # "none"
    BY <1>1, <1>3 DEF Fresh
  <2>2. ~(k < j) /\ j # k
    BY <1>1, <1>2, <2>1 DEF Fresh
  <2> QED BY <2>1, <2>2, CallsAreNumbers
<1>6. /\ entries' \in Seq(Calls) /\ ToSet(entries') = ToSet(entries) \cup {k}
      /\ Increasing(entries) /\ Before(ToSet(entries), {k}) => Increasing(entries')
  BY <1>1, <1>2, AppendList DEF TypeOK
<1>7. Waiting' = Waiting \cup {k} /\ Completed' = Completed
  BY <1>2, <1>6 DEF Waiting, Completed
<1>8. TypeOK'
  BY <1>1, <1>2, <1>6 DEF TypeOK
<1>9. \A j \in Calls : asyncio'[j] = IF j = k THEN "pending" ELSE asyncio[j]
  BY <1>1, <1>2 DEF TypeOK
<1>10. Fresh'
  <2>1. ASSUME NEW i \in Calls, NEW j \in Calls, i < j, asyncio'[i] = "none"
        PROVE  asyncio'[j] = "none"
    <3>1. asyncio[i] = "none" /\ i # k
      BY <1>9, <2>1
    <3>2. ~(i < k)
      BY <1>2, <3>1
    <3>3. asyncio[j] = "none" /\ j # k
      BY <1>1, <2>1, <3>1, <3>2 DEF Fresh
    <3> QED BY <1>9, <3>3
  <2>2. \A j \in (Waiting \cup {k}) \cup Completed \cup lost : asyncio'[j] # "none"
    <3>1. lost \subseteq Calls
      BY <1>1 DEF TypeOK
    <3> QED BY <1>1, <1>3, <1>9, <3>1 DEF Fresh
  <2> QED BY <1>2, <1>7, <2>1, <2>2 DEF Fresh
<1>11. Kept' /\ Gone' /\ Apart'
  BY <1>1, <1>2, <1>4, <1>7, <1>9 DEF Kept, Gone, Apart
<1>12. InCallOrder'
  <2>1. Before(ToSet(entries), {k}) /\ \A n \in DOMAIN frames : Before(Unfinished(frames[n]), {k})
    BY <1>5 DEF Before, Waiting
  <2>2. \A n \in DOMAIN frames : Before(Unfinished(frames[n]), ToSet(entries'))
    BY <1>1, <1>6, <2>1 DEF Before, InCallOrder
  <2> QED BY <1>1, <1>2, <1>6, <2>1, <2>2 DEF InCallOrder
<1>13. Once' /\ Counted'
  BY <1>1, <1>2 DEF Once, Counted, Sums
<1> QED BY <1>7, <1>8, <1>10, <1>11, <1>12, <1>13 DEF IInv

LEMMA TakeEntriesKeeps ==
    ASSUME IInv, TakeEntries
    PROVE  IInv' /\ Silent
<1> DEFINE r == Batch("poll", entries)
<1>1. TypeOK /\ InCallOrder /\ Once /\ Apart
  BY DEF IInv
<1>2. /\ frames' = Append(frames, r) /\ polling' = polling + Len(entries) /\ entries' = <<>>
      /\ UNCHANGED <<ready, asyncio, lost, opened>>
  BY DEF TakeEntries
<1>3. /\ r \in Frame /\ (InOrder(r) <=> Increasing(entries))
      /\ Unfinished(r) = ToSet(entries) /\ Outcomes(r) = {} /\ Weight(r) = Len(entries)
  BY <1>1, BatchFacts DEF TypeOK
<1>4. /\ entries' \in Seq(Calls) /\ ToSet(entries') = {} /\ Increasing(entries')
  BY <1>2, EmptyList
<1> HIDE DEF r
<1>5. /\ Waiting' = ToSet(entries') \cup WaitingOut \cup Unfinished(r)
      /\ Completed' = ToSet(ready') \cup CompletedOut \cup Outcomes(r)
  BY <1>1, <1>2, <1>3, PushPlaces
<1>6. Silent
  BY <1>2, <1>3, <1>4, <1>5
     DEF Silent, Waiting, Completed, WaitingOut, CompletedOut
<1>7. TypeOK'
  <2>1. frames' \in Seq(Frame) /\ polling + Len(entries) \in Nat
    BY <1>1, <1>2, <1>3, PushFacts, ListFacts DEF TypeOK
  <2> QED BY <1>1, <1>2, <1>4, <2>1 DEF TypeOK
<1>8. InCallOrder'
  <2>1. InOrder(r) /\ Before(Unfinished(r), ToSet(entries'))
    BY <1>1, <1>3, <1>4 DEF InCallOrder, Before
  <2>2. Before(WaitingOut, ToSet(entries') \cup Unfinished(r))
    BY <1>1, <1>3, <1>4 DEF InCallOrder, Before, WaitingOut
  <2> QED BY <1>2, <1>3, <1>4, <2>1, <2>2, PushKeeps
<1>9. Once'
  <2>1. CompletedOut \cap ToSet(ready) = {}
    BY <1>1 DEF Once, CompletedOut
  <2> QED BY <1>2, <1>3, <2>1, PushKeeps
<1>10. Counted'
  BY <1>2, <1>3, PushKeeps
<1> QED BY <1>6, <1>7, <1>8, <1>9, <1>10, SilentKeeps DEF IInv

LEMMA PollPendingKeeps ==
    ASSUME IInv, PollPending
    PROVE  IInv' /\ Silent
<1> DEFINE r == [Top EXCEPT !.todo = Tail(@), !.pending = Append(@, Head(Top.todo))]
<1>1. TypeOK /\ InCallOrder /\ Once
  BY DEF IInv
<1>2. /\ frames # <<>> /\ Top.kind = "poll" /\ Top.todo # <<>> /\ SetTop(r)
      /\ UNCHANGED <<entries, polling, ready, asyncio, lost, opened>>
  BY DEF PollPending, Polls
<1>3. Top \in Frame /\ InOrder(Top)
  BY <1>1, <1>2, FrameFacts DEF InCallOrder
<1>4. /\ r \in Frame /\ InOrder(r) /\ Unfinished(r) = Unfinished(Top)
      /\ Outcomes(r) = Outcomes(Top) /\ Weight(r) = Weight(Top)
  BY <1>2, <1>3, PendingFacts
<1> HIDE DEF r
<1>5. Silent
  BY <1>1, <1>2, <1>4, GoPlaces, Split DEF Silent
<1>6. TypeOK'
  BY <1>1, <1>2, <1>4, GoFacts DEF TypeOK
<1>7. Outcomes(Top) \cap (ToSet(ready) \cup CompletedBelow) = {}
  BY <1>1, <1>2, TopOutcomes
<1>8. InCallOrder' /\ Once' /\ Counted'
  BY <1>2, <1>4, <1>7, GoKeeps
<1> QED BY <1>5, <1>6, <1>8, SilentKeeps DEF IInv

LEMMA PollReadyKeeps ==
    ASSUME IInv, PollReady
    PROVE  /\ IInv'
           /\ Head(Top.todo) \in Waiting
           /\ Waiting' = Waiting \ {Head(Top.todo)}
           /\ Completed' = Completed \cup {Head(Top.todo)}
<1> DEFINE h == Head(Top.todo)
           r == [Top EXCEPT !.todo = Tail(@), !.ready = Append(@, h)]
<1>1. TypeOK /\ Fresh /\ Kept /\ Gone /\ Apart /\ Once /\ InCallOrder /\ Counted
  BY DEF IInv
<1>2. /\ frames # <<>> /\ Top.kind = "poll" /\ Top.todo # <<>> /\ SetTop(r)
      /\ UNCHANGED <<entries, polling, ready, asyncio, lost, opened>>
  BY DEF PollReady, Polls
<1>3. /\ Top \in Frame /\ InOrder(Top) /\ Len(frames) \in Nat /\ Len(frames) \in 1..Len(frames)
      /\ DOMAIN frames = 1..Len(frames) /\ Top = frames[Len(frames)]
  BY <1>1, <1>2, FrameFacts DEF InCallOrder
<1>4. /\ r \in Frame /\ InOrder(r)
      /\ h \in Unfinished(Top) /\ Unfinished(r) = Unfinished(Top) \ {h}
      /\ Outcomes(r) = Outcomes(Top) \cup {h} /\ Weight(r) = Weight(Top)
  BY <1>2, <1>3, ReadyFacts
<1> HIDE DEF r, h
<1>5. /\ Waiting = ToSet(entries) \cup WaitingBelow \cup Unfinished(Top)
      /\ Completed = ToSet(ready) \cup CompletedBelow \cup Outcomes(Top)
      /\ Waiting' = ToSet(entries') \cup WaitingBelow \cup Unfinished(r)
      /\ Completed' = ToSet(ready') \cup CompletedBelow \cup Outcomes(r)
  BY <1>1, <1>2, <1>4, GoPlaces, Split
<1>6. h \in Waiting /\ h \in Calls /\ h \notin Completed /\ h \notin lost
  BY <1>1, <1>4, <1>5, PlacesAreCalls DEF Apart, Gone
<1>7. h \notin ToSet(entries) /\ h \notin WaitingBelow
  <2>1. ~(h < h)
    BY <1>6, CallsAreNumbers
  <2>2. \A n \in 1..(Len(frames) - 1) : n \in 1..Len(frames) /\ n < Len(frames)
    BY <1>3, Places
  <2>3. Before(Unfinished(Top), ToSet(entries))
    BY <1>1, <1>3 DEF InCallOrder
  <2>4. \A n \in 1..(Len(frames) - 1) : Before(Unfinished(frames[n]), Unfinished(Top))
    BY <1>1, <1>3, <2>2 DEF InCallOrder
  <2> QED BY <1>4, <2>1, <2>3, <2>4 DEF Before, WaitingBelow
<1>8. Waiting' = Waiting \ {h} /\ Completed' = Completed \cup {h}
  BY <1>2, <1>4, <1>5, <1>7
<1>9. TypeOK'
  BY <1>1, <1>2, <1>4, GoFacts DEF TypeOK
<1>10. Fresh' /\ Kept' /\ Gone' /\ Apart'
  BY <1>1, <1>2, <1>6, <1>8 DEF Fresh, Kept, Gone, Apart
<1>11. Outcomes(r) \cap (ToSet(ready) \cup CompletedBelow) = {}
  <2>1. Outcomes(Top) \cap (ToSet(ready) \cup CompletedBelow) = {}
    BY <1>1, <1>2, TopOutcomes
  <2> QED BY <1>4, <1>5, <1>6, <2>1
<1>12. InCallOrder' /\ Once' /\ Counted'
  BY <1>2, <1>4, <1>11, GoKeeps
<1> QED BY <1>6, <1>8, <1>9, <1>10, <1>12 DEF IInv, h

LEMMA SettleKeeps ==
    ASSUME IInv, Settle
    PROVE  IInv' /\ Silent
<1> DEFINE p == Top.pending
           q == Top.ready
<1>1. TypeOK /\ InCallOrder /\ Once /\ Apart
  BY DEF IInv
<1>2. /\ frames # <<>> /\ Top.kind = "poll" /\ Top.todo = <<>> /\ PopTop
      /\ polling' = polling - (Len(p) + Len(q))
      /\ entries' = p \o entries /\ ready' = ready \o q
      /\ UNCHANGED <<asyncio, lost, opened>>
  BY DEF Settle
<1>3. /\ Top \in Frame /\ InOrder(Top) /\ Len(frames) \in Nat /\ Len(frames) \in 1..Len(frames)
      /\ DOMAIN frames = 1..Len(frames) /\ Top = frames[Len(frames)]
  BY <1>1, <1>2, FrameFacts DEF InCallOrder
<1>4. p \in Seq(Calls) /\ q \in Seq(Calls) /\ entries \in Seq(Calls) /\ ready \in Seq(Calls)
  BY <1>1, <1>3, FrameParts DEF TypeOK
<1>5. Unfinished(Top) = ToSet(p) /\ Outcomes(Top) = ToSet(q) /\ Increasing(p)
  BY <1>2, <1>3, EmptyList DEF Unfinished, Outcomes, InOrder
<1>6. Weight(Top) = Len(p) + Len(q)
  <2>1. Weight(Top) = Len(p) + 0 + Len(q)
    BY <1>2, EmptyList DEF Weight
  <2>2. Len(p) \in Nat /\ Len(q) \in Nat
    BY <1>4, ListFacts
  <2> QED BY <2>1, <2>2
<1> HIDE DEF p, q
<1>7. /\ p \o entries \in Seq(Calls) /\ ToSet(p \o entries) = ToSet(p) \cup ToSet(entries)
      /\ Increasing(p) /\ Increasing(entries) /\ Before(ToSet(p), ToSet(entries))
             => Increasing(p \o entries)
  BY <1>4, ConcatList
<1>8. ready \o q \in Seq(Calls) /\ ToSet(ready \o q) = ToSet(ready) \cup ToSet(q)
  BY <1>4, ConcatList
<1>9. Silent
  BY <1>1, <1>2, <1>5, <1>7, <1>8, PopPlaces, Split DEF Silent
<1>10. TypeOK'
  <2>1. polling' \in Nat
    BY <1>2, <1>6, PopKeeps
  <2> QED BY <1>1, <1>2, <1>7, <1>8, <2>1, PopFacts DEF TypeOK
<1>11. InCallOrder'
  <2>1. Increasing(entries) /\ Before(Unfinished(Top), ToSet(entries))
    BY <1>1, <1>3 DEF InCallOrder
  <2>2. \A n \in 1..(Len(frames) - 1) : n \in 1..Len(frames) /\ n < Len(frames)
    BY <1>3, Places
  <2>3. \A n \in 1..(Len(frames) - 1) : /\ Before(Unfinished(frames[n]), ToSet(entries))
                                        /\ Before(Unfinished(frames[n]), Unfinished(Top))
    BY <1>1, <1>3, <2>2 DEF InCallOrder
  <2>4. Before(WaitingBelow, ToSet(entries'))
    BY <1>2, <1>5, <1>7, <2>3 DEF Before, WaitingBelow
  <2> QED BY <1>2, <1>5, <1>7, <2>1, <2>4, PopKeeps
<1>12. Once'
  <2>1. Outcomes(Top) \cap (ToSet(ready) \cup CompletedBelow) = {}
    BY <1>1, <1>2, TopOutcomes
  <2>2. CompletedBelow \cap ToSet(ready) = {}
    BY <1>1, <1>2, ReadyBelow
  <2> QED BY <1>2, <1>5, <1>8, <2>1, <2>2, PopKeeps
<1>13. Counted'
  BY <1>2, <1>6, PopKeeps
<1> QED BY <1>9, <1>10, <1>11, <1>12, <1>13, SilentKeeps DEF IInv

LEMMA DrainReadyKeeps ==
    ASSUME IInv, DrainReady
    PROVE  IInv' /\ Silent
<1> DEFINE r == Batch("publish", ready)
<1>1. TypeOK /\ InCallOrder /\ Once /\ Apart
  BY DEF IInv
<1>2. /\ frames' = Append(frames, r) /\ ready' = <<>>
      /\ UNCHANGED <<entries, polling, asyncio, lost, opened>>
  BY DEF DrainReady
<1>3. /\ r \in Frame /\ InOrder(r)
      /\ Unfinished(r) = {} /\ Outcomes(r) = ToSet(ready) /\ Weight(r) = 0
  BY <1>1, BatchFacts DEF TypeOK
<1>4. ready' \in Seq(Calls) /\ ToSet(ready') = {}
  BY <1>2, EmptyList
<1> HIDE DEF r
<1>5. /\ Waiting' = ToSet(entries') \cup WaitingOut \cup Unfinished(r)
      /\ Completed' = ToSet(ready') \cup CompletedOut \cup Outcomes(r)
  BY <1>1, <1>2, <1>3, PushPlaces
<1>6. Silent
  BY <1>2, <1>3, <1>4, <1>5
     DEF Silent, Waiting, Completed, WaitingOut, CompletedOut
<1>7. TypeOK'
  BY <1>1, <1>2, <1>3, <1>4, PushFacts DEF TypeOK
<1>8. InCallOrder'
  BY <1>1, <1>2, <1>3, PushKeeps DEF InCallOrder, Before, WaitingOut
<1>9. Once'
  <2>1. CompletedOut \cap ToSet(ready) = {}
    BY <1>1 DEF Once, CompletedOut
  <2> QED BY <1>2, <1>3, <1>4, <2>1, PushKeeps
<1>10. Counted'
  <2>1. polling \in Nat /\ polling + 0 = polling
    BY <1>1 DEF TypeOK
  <2> QED BY <1>2, <1>3, <2>1, PushKeeps
<1> QED BY <1>6, <1>7, <1>8, <1>9, <1>10, SilentKeeps DEF IInv

LEMMA PublishHeadKeeps ==
    ASSUME IInv, PublishHead
    PROVE  /\ IInv'
           /\ Head(Top.todo) \in Completed
           /\ Waiting' = Waiting
           /\ Completed' \subseteq Completed /\ Completed \subseteq Completed' \cup {Head(Top.todo)}
<1> DEFINE h == Head(Top.todo)
           r == [Top EXCEPT !.todo = Tail(@)]
<1>1. TypeOK /\ Fresh /\ Kept /\ Gone /\ Apart /\ Once /\ InCallOrder /\ Counted
  BY DEF IInv
<1>2. /\ frames # <<>> /\ Top.kind = "publish" /\ Top.todo # <<>> /\ SetTop(r)
      /\ asyncio' = IF asyncio[h] = "cancelled" THEN asyncio
                    ELSE [asyncio EXCEPT ![h] = "set"]
      /\ UNCHANGED <<entries, polling, ready, lost, opened>>
  BY DEF PublishHead, Publishes
<1>3. Top \in Frame
  BY <1>1, <1>2, FrameFacts
<1>4. /\ r \in Frame /\ InOrder(r) /\ Unfinished(r) = {} /\ Weight(r) = 0
      /\ Outcomes(Top) = {h} \cup Outcomes(r)
  BY <1>2, <1>3, PublishedFacts
<1>5. Unfinished(Top) = {} /\ Weight(Top) = 0
  BY <1>2 DEF Unfinished, Weight
<1> HIDE DEF r, h
<1>6. /\ Waiting = ToSet(entries) \cup WaitingBelow \cup Unfinished(Top)
      /\ Completed = ToSet(ready) \cup CompletedBelow \cup Outcomes(Top)
      /\ Waiting' = ToSet(entries') \cup WaitingBelow \cup Unfinished(r)
      /\ Completed' = ToSet(ready') \cup CompletedBelow \cup Outcomes(r)
  BY <1>1, <1>2, <1>4, GoPlaces, Split
<1>7. /\ h \in Completed /\ Waiting' = Waiting
      /\ Completed' \subseteq Completed /\ Completed \subseteq Completed' \cup {h}
  BY <1>2, <1>4, <1>5, <1>6
<1>8. h \in Calls /\ asyncio[h] # "none"
  BY <1>1, <1>7, PlacesAreCalls DEF Fresh
<1>9. /\ asyncio' \in [Calls -> {"none", "pending", "set", "cancelled"}]
      /\ \A k \in Calls : k # h => asyncio'[k] = asyncio[k]
      /\ asyncio'[h] \in {"set", "cancelled"}
  BY <1>1, <1>2, <1>8 DEF TypeOK
<1>10. TypeOK'
  BY <1>1, <1>2, <1>4, <1>9, GoFacts DEF TypeOK
<1>11. Fresh'
  <2>1. \A j \in Calls : asyncio'[j] = "none" <=> asyncio[j] = "none"
    BY <1>8, <1>9
  <2>2. Waiting \subseteq Calls /\ Completed \subseteq Calls /\ lost \subseteq Calls
    BY <1>1, PlacesAreCalls DEF TypeOK
  <2> QED BY <1>1, <1>2, <1>7, <2>1, <2>2 DEF Fresh
<1>12. Kept' /\ Gone' /\ Apart'
  BY <1>1, <1>2, <1>7, <1>9 DEF Kept, Gone, Apart
<1>13. Outcomes(r) \cap (ToSet(ready) \cup CompletedBelow) = {}
  BY <1>1, <1>2, <1>4, TopOutcomes
<1>14. InCallOrder' /\ Once' /\ Counted'
  BY <1>2, <1>4, <1>5, <1>13, GoKeeps
<1> QED BY <1>7, <1>10, <1>11, <1>12, <1>14 DEF IInv, h

LEMMA PublishFailsKeeps ==
    ASSUME IInv, PublishFails
    PROVE  /\ IInv'
           /\ ToSet(Top.todo) \subseteq Completed
           /\ Waiting' = Waiting
           /\ Completed' = Completed \ ToSet(Top.todo)
<1> DEFINE T == ToSet(Top.todo)
<1>1. TypeOK /\ Fresh /\ Kept /\ Gone /\ Apart /\ Once /\ InCallOrder /\ Counted
  BY DEF IInv
<1>2. /\ frames # <<>> /\ Top.kind = "publish" /\ PopTop
      /\ lost' = lost \cup {k \in T : asyncio[k] = "pending"}
      /\ UNCHANGED <<entries, polling, ready, asyncio, opened>>
  BY DEF PublishFails, Publishes
<1>3. Unfinished(Top) = {} /\ Outcomes(Top) = T /\ Weight(Top) = 0
  BY <1>2 DEF Unfinished, Outcomes, Weight
<1> HIDE DEF T
<1>4. T \cap (ToSet(ready) \cup CompletedBelow) = {} /\ CompletedBelow \cap ToSet(ready) = {}
  BY <1>1, <1>2, <1>3, TopOutcomes, ReadyBelow
<1>5. T \subseteq Completed /\ Waiting' = Waiting /\ Completed' = Completed \ T
  BY <1>1, <1>2, <1>3, <1>4, PopPlaces, Split
<1>6. TypeOK'
  BY <1>1, <1>2, <1>5, PopFacts, PlacesAreCalls DEF TypeOK
<1>7. Fresh' /\ Kept' /\ Gone' /\ Apart'
  BY <1>1, <1>2, <1>5 DEF Fresh, Kept, Gone, Apart
<1>8. InCallOrder' /\ Once' /\ Counted'
  BY <1>1, <1>2, <1>3, <1>4, PopUnpolled
<1> QED BY <1>5, <1>6, <1>7, <1>8 DEF IInv, T

LEMMA PublishEndsKeeps ==
    ASSUME IInv, PublishEnds
    PROVE  IInv' /\ Silent
<1>1. TypeOK /\ Once /\ InCallOrder
  BY DEF IInv
<1>2. /\ frames # <<>> /\ Top.kind = "publish" /\ Top.todo = <<>> /\ PopTop
      /\ UNCHANGED <<entries, polling, ready, asyncio, lost, opened>>
  BY DEF PublishEnds, Publishes
<1>3. Unfinished(Top) = {} /\ Outcomes(Top) = {} /\ Weight(Top) = 0
  BY <1>2, EmptyList DEF Unfinished, Outcomes, Weight
<1>4. Silent
  BY <1>1, <1>2, <1>3, PopPlaces, Split DEF Silent
<1>5. TypeOK'
  BY <1>1, <1>2, PopFacts DEF TypeOK
<1>6. InCallOrder' /\ Once' /\ Counted'
  BY <1>1, <1>2, <1>3, ReadyBelow, PopUnpolled
<1> QED BY <1>4, <1>5, <1>6, SilentKeeps DEF IInv

LEMMA CancelCallKeeps ==
    ASSUME IInv, NEW k \in Calls, CancelCall(k)
    PROVE  IInv' /\ Waiting' = Waiting /\ Completed' = Completed
<1>1. TypeOK /\ Fresh /\ Kept /\ Gone /\ Apart /\ Once /\ InCallOrder /\ Counted
  BY DEF IInv
<1>2. /\ asyncio[k] = "pending" /\ asyncio' = [asyncio EXCEPT ![k] = "cancelled"]
      /\ UNCHANGED <<entries, polling, ready, frames, lost, opened>>
  BY DEF CancelCall
<1>3. Waiting' = Waiting /\ Completed' = Completed
  BY <1>2 DEF Waiting, Completed
<1>4. \A j \in Calls : asyncio'[j] = IF j = k THEN "cancelled" ELSE asyncio[j]
  BY <1>1, <1>2 DEF TypeOK
<1>5. TypeOK'
  BY <1>1, <1>2 DEF TypeOK
<1>6. Fresh'
  <2>1. \A j \in Calls : asyncio'[j] = "none" <=> asyncio[j] = "none"
    BY <1>2, <1>4
  <2>2. Waiting \subseteq Calls /\ Completed \subseteq Calls /\ lost \subseteq Calls
    BY <1>1, PlacesAreCalls DEF TypeOK
  <2> QED BY <1>1, <1>2, <1>3, <2>1, <2>2 DEF Fresh
<1>7. Kept' /\ Gone' /\ Apart'
  BY <1>1, <1>2, <1>3, <1>4 DEF Kept, Gone, Apart
<1>8. InCallOrder' /\ Once' /\ Counted'
  BY <1>1, <1>2 DEF InCallOrder, Once, Counted, Sums
<1> QED BY <1>3, <1>5, <1>6, <1>7, <1>8 DEF IInv

LEMMA DropDriverKeeps ==
    ASSUME IInv, DropDriver
    PROVE  /\ IInv'
           /\ Waiting \cup Completed = ToSet(entries) \cup ToSet(ready)
           /\ Waiting' = {} /\ Completed' = {}
<1>1. TypeOK /\ Fresh /\ Kept /\ Gone /\ Apart /\ Once /\ InCallOrder /\ Counted
  BY DEF IInv
<1>2. /\ frames = <<>> /\ frames' = <<>> /\ entries' = <<>> /\ ready' = <<>> /\ polling' = 0
      /\ lost' = lost \cup {k \in ToSet(entries) \cup ToSet(ready) : asyncio[k] = "pending"}
      /\ opened' = opened + 1 /\ asyncio' = asyncio
  BY DEF DropDriver
<1>3. DOMAIN frames = {} /\ Len(frames) = 0
  BY <1>2
<1>4. Waiting = ToSet(entries) /\ Completed = ToSet(ready)
  BY <1>3 DEF Waiting, Completed
<1>5. Waiting' = {} /\ Completed' = {}
  BY <1>2, <1>3, EmptyList DEF Waiting, Completed
<1>6. TypeOK'
  BY <1>1, <1>2, <1>4, EmptyList, PlacesAreCalls DEF TypeOK
<1>7. Fresh' /\ Kept' /\ Gone' /\ Apart'
  BY <1>1, <1>2, <1>4, <1>5 DEF Fresh, Kept, Gone, Apart
<1>8. InCallOrder' /\ Once'
  BY <1>2, <1>3, EmptyList DEF InCallOrder, Once
<1>9. Counted'
  BY <1>2, NoSum
<1> QED BY <1>4, <1>5, <1>6, <1>7, <1>8, <1>9 DEF IInv

LEMMA InitFits == Init => IInv
<1> SUFFICES ASSUME Init PROVE IInv
  OBVIOUS
<1>1. /\ entries = <<>> /\ polling = 0 /\ ready = <<>> /\ frames = <<>> /\ lost = {} /\ opened = 1
      /\ asyncio = [k \in Calls |-> "none"]
  BY DEF Init
<1>2. /\ <<>> \in Seq(Calls) /\ Len(<<>>) = 0 /\ DOMAIN <<>> = {} /\ ToSet(<<>>) = {}
      /\ Increasing(<<>>)
  BY EmptyList
<1>3. Waiting = {} /\ Completed = {}
  BY <1>1, <1>2 DEF Waiting, Completed
<1>4. TypeOK
  BY <1>1, <1>2 DEF TypeOK
<1>5. Fresh /\ Kept /\ Gone /\ Apart
  BY <1>1, <1>3 DEF Fresh, Kept, Gone, Apart
<1>6. Once /\ InCallOrder
  BY <1>1, <1>2 DEF Once, InCallOrder
<1>7. Counted
  <2>1. PICK sum \in [Nat -> Nat] : \A n \in Nat : sum[n] = 0
    BY ZeroSum
  <2>2. Sums(sum)
    BY <1>1, <1>2, <2>1 DEF Sums
  <2> QED BY <2>2 DEF Counted
<1> QED BY <1>4, <1>5, <1>6, <1>7 DEF IInv

LEMMA StepKeeps == IInv /\ [Next]_vars => IInv'
<1> SUFFICES ASSUME IInv, [Next]_vars PROVE IInv'
  OBVIOUS
<1>1. CASE UNCHANGED vars
  <2>1. UNCHANGED <<entries, polling, ready, frames, asyncio, lost, opened>>
    BY <1>1 DEF vars
  <2>2. Waiting' = Waiting /\ Completed' = Completed
    BY <2>1 DEF Waiting, Completed
  <2>3. Fresh' /\ Kept' /\ Gone' /\ Apart'
    BY <2>1, <2>2, SilentKeeps DEF Silent
  <2>4. TypeOK'
    BY <2>1 DEF IInv, TypeOK
  <2>5. InCallOrder' /\ Once'
    BY <2>1 DEF IInv, InCallOrder, Once
  <2>6. Counted'
    <3>1. PICK sum \in [Nat -> Nat] : Sums(sum)
      BY DEF IInv, Counted
    <3>2. Sums(sum)'
      BY <2>1, <3>1 DEF Sums
    <3> QED BY <3>2 DEF Counted
  <2> QED BY <2>3, <2>4, <2>5, <2>6 DEF IInv
<1>2. CASE Next
  BY <1>2, RegisterKeeps, CancelCallKeeps, TakeEntriesKeeps, PollPendingKeeps,
     PollReadyKeeps, SettleKeeps, DrainReadyKeeps, PublishHeadKeeps, PublishFailsKeeps,
     PublishEndsKeeps, DropDriverKeeps DEF Next
<1> QED BY <1>1, <1>2

-----------------------------------------------------------------------------
(* Theorems.                                                               *)

LEMMA Invariance == Spec => []IInv
<1>1. Init => IInv
  BY InitFits
<1>2. IInv /\ [Next]_vars => IInv'
  BY StepKeeps
<1> QED BY <1>1, <1>2, PTL DEF Spec

\* The lists hold calls, and polling never falls below zero (settle).
THEOREM TypeCorrect == Spec => []TypeOK
<1>1. IInv => TypeOK
  BY DEF IInv
<1> QED BY <1>1, Invariance, PTL

\* An older call is polled before a younger one, in every batch and between the batches,
\* whatever is registered and polled while a batch is moved out (poll_all and settle).
THEOREM CallOrder == Spec => []InCallOrder
<1>1. IInv => InCallOrder
  BY DEF IInv
<1> QED BY <1>1, Invariance, PTL

\* When the driver is reported idle, no call is without its outcome, those of the lists
\* that are moved out included: run_until_idle cannot end before them (is_empty).
THEOREM Honest == Spec => []EmptyIsHonest
<1>1. IInv => EmptyIsHonest
  <2> SUFFICES ASSUME IInv, IsEmpty, NEW k \in Calls
               PROVE  Status(k) # "pending"
    BY DEF EmptyIsHonest
  <2>1. TypeOK /\ entries = <<>> /\ polling = 0
    BY DEF IInv, IsEmpty
  <2>2. /\ Len(frames) \in Nat /\ DOMAIN frames = 1..Len(frames)
        /\ \A n \in 1..Len(frames) : frames[n] \in Frame
    BY <2>1, FrameFacts
  <2>3. PICK sum \in [Nat -> Nat] : Sums(sum)
    BY DEF IInv, Counted
  <2>4. ASSUME NEW n \in 1..Len(frames)
        PROVE  Unfinished(frames[n]) = {}
    <3>1. /\ n \in 0..Len(frames) /\ n - 1 \in 0..Len(frames) /\ Len(frames) \in 0..Len(frames)
          /\ n <= Len(frames) /\ n - 1 <= Len(frames) /\ n \in Nat /\ n - 1 \in Nat
      BY <2>2
    <3>2. sum[n] = 0 /\ sum[n - 1] = 0
      <4>1. sum[n] <= sum[Len(frames)] /\ sum[n - 1] <= sum[Len(frames)] /\ sum[Len(frames)] = 0
        BY <2>1, <2>3, <3>1 DEF Sums
      <4>2. sum[n] \in Nat /\ sum[n - 1] \in Nat
        BY <3>1
      <4> QED BY <4>1, <4>2
    <3>3. Weight(frames[n]) \in Nat /\ sum[n] = sum[n - 1] + Weight(frames[n])
      BY <2>2, <2>3, WeightFacts DEF Sums
    <3>4. Weight(frames[n]) = 0
      BY <3>2, <3>3
    <3>5. ASSUME frames[n].kind = "poll"
          PROVE  frames[n].pending = <<>> /\ frames[n].todo = <<>>
      <4> DEFINE f == frames[n]
      <4>1. f.pending \in Seq(Calls) /\ f.todo \in Seq(Calls) /\ f.ready \in Seq(Calls)
        BY <2>2, FrameParts
      <4>2. Len(f.pending) \in Nat /\ Len(f.todo) \in Nat /\ Len(f.ready) \in Nat
        BY <4>1, ListFacts
      <4>3. Len(f.pending) + Len(f.todo) + Len(f.ready) = 0
        BY <3>4, <3>5 DEF Weight
      <4>4. \A a, b, c \in Nat : a + b + c = 0 => a = 0 /\ b = 0
        OBVIOUS
      <4>5. Len(f.pending) = 0 /\ Len(f.todo) = 0
        BY <4>2, <4>3, <4>4
      <4> QED BY <4>1, <4>5, EmptySeq
    <3> QED BY <3>5, EmptyList DEF Unfinished
  <2>5. Waiting = {}
    BY <2>1, <2>2, <2>4, EmptyList DEF Waiting
  <2> QED BY <2>5 DEF Status
<1> QED BY <1>1, Invariance, PTL

-----------------------------------------------------------------------------
(* What the guest is promised.                                             *)

\* The calls of S become to, and no other one changes.
LEMMA BecomesFacts ==
    ASSUME NEW S \in SUBSET Calls, NEW from, NEW to,
           \A k \in S : Status(k) \in from /\ Status(k)' = to,
           \A k \in Calls \ S : Status(k)' = Status(k)
    PROVE  Promise!Becomes(S, from, to)
<1>1. [k \in Calls |-> Status(k)'] =
          [k \in Calls |-> IF k \in S THEN to ELSE [j \in Calls |-> Status(j)][k]]
  OBVIOUS
<1>2. \A k \in S : [j \in Calls |-> Status(j)][k] \in from
  OBVIOUS
<1> QED BY <1>1, <1>2 DEF Promise!Becomes

\* What no action changes stays what it is.
LEMMA StatusSame ==
    ASSUME NEW k \in Calls, asyncio'[k] = asyncio[k],
           k \in lost' <=> k \in lost, k \in Completed' <=> k \in Completed,
           k \in Waiting' <=> k \in Waiting
    PROVE  Status(k)' = Status(k)
BY DEF Status

LEMMA NothingSeen ==
    ASSUME \A k \in Calls : Status(k)' = Status(k), opened' = opened
    PROVE  UNCHANGED Promise!vars
BY DEF Promise!vars

LEMMA SilentStep ==
    ASSUME Silent, opened' = opened
    PROVE  UNCHANGED Promise!vars
BY StatusSame, NothingSeen DEF Silent

LEMMA StatusKept ==
    ASSUME IInv, NEW k \in Calls
    PROVE  Status(k) = IF asyncio[k] = "none" THEN "unused"
                       ELSE IF asyncio[k] = "set" THEN "answered"
                       ELSE IF asyncio[k] = "cancelled" THEN "cancelled"
                       ELSE IF k \in lost THEN "lost"
                       ELSE IF k \in Completed THEN "completed"
                       ELSE "pending"
BY DEF IInv, TypeOK, Kept, Status

LEMMA RegisterCalls ==
    ASSUME IInv, NEW k \in Calls, Register(k)
    PROVE  Promise!Call
<1>1. /\ asyncio[k] = "none"
      /\ \A j \in Calls : asyncio'[j] = IF j = k THEN "pending" ELSE asyncio[j]
      /\ UNCHANGED <<lost, opened>>
  BY DEF Register, IInv, TypeOK
<1>2. Waiting' = Waiting \cup {k} /\ Completed' = Completed
  BY RegisterKeeps
<1>3. k \notin lost /\ k \notin Completed
  BY <1>1 DEF IInv, Fresh
<1>4. Status(k) = "unused" /\ Status(k)' = "pending"
  BY <1>1, <1>2, <1>3 DEF Status
<1>5. \A j \in Calls \ {k} : Status(j)' = Status(j)
  BY <1>1, <1>2, StatusSame
<1>6. Promise!Becomes({k}, {"unused"}, "pending")
  BY <1>4, <1>5, BecomesFacts
<1> QED BY <1>1, <1>6 DEF Promise!Call

LEMMA CancelCallCancels ==
    ASSUME IInv, NEW k \in Calls, CancelCall(k)
    PROVE  Promise!Cancel
<1>1. /\ asyncio[k] = "pending"
      /\ \A j \in Calls : asyncio'[j] = IF j = k THEN "cancelled" ELSE asyncio[j]
      /\ UNCHANGED <<lost, opened>>
  BY DEF CancelCall, IInv, TypeOK
<1>2. Waiting' = Waiting /\ Completed' = Completed
  BY CancelCallKeeps
<1>3. Status(k) \in {"pending", "completed", "lost"}
  BY <1>1, StatusKept
<1>4. Status(k)' = "cancelled"
  BY <1>1 DEF Status
<1>5. \A j \in Calls \ {k} : Status(j)' = Status(j)
  BY <1>1, <1>2, StatusSame
<1>6. Promise!Becomes({k}, {"pending", "completed", "lost"}, "cancelled")
  BY <1>3, <1>4, <1>5, BecomesFacts
<1> QED BY <1>1, <1>6 DEF Promise!Cancel

LEMMA PollReadyCompletes ==
    ASSUME IInv, PollReady
    PROVE  Promise!Complete \/ UNCHANGED Promise!vars
<1> PICK h : h = Head(Top.todo)
  OBVIOUS
<1>1. UNCHANGED <<asyncio, lost, opened>>
  BY DEF PollReady
<1>2. h \in Waiting /\ Waiting' = Waiting \ {h} /\ Completed' = Completed \cup {h}
  BY PollReadyKeeps
<1>3. h \in Calls /\ h \notin lost /\ h \notin Completed /\ asyncio[h] # "none"
  BY <1>2, PlacesAreCalls DEF IInv, Gone, Apart, Fresh
<1>4. \A j \in Calls \ {h} : Status(j)' = Status(j)
  BY <1>1, <1>2, StatusSame
<1>5. CASE asyncio[h] = "pending"
  <2>1. Status(h) = "pending" /\ Status(h)' = "completed"
    BY <1>1, <1>2, <1>3, <1>5 DEF Status
  <2>2. Promise!Becomes({h}, {"pending"}, "completed")
    BY <1>3, <1>4, <2>1, BecomesFacts
  <2> QED BY <1>1, <1>3, <2>2 DEF Promise!Complete
<1>6. CASE asyncio[h] \in {"set", "cancelled"}
  <2>1. Status(h)' = Status(h)
    BY <1>1, <1>6 DEF Status
  <2> QED BY <1>1, <1>4, <2>1, NothingSeen
<1> QED BY <1>3, <1>5, <1>6 DEF IInv, TypeOK

LEMMA PublishHeadAnswers ==
    ASSUME IInv, PublishHead
    PROVE  Promise!Answer \/ UNCHANGED Promise!vars
<1> PICK h : h = Head(Top.todo)
  OBVIOUS
<1>1. /\ UNCHANGED <<lost, opened>>
      /\ asyncio' = IF asyncio[h] = "cancelled" THEN asyncio
                    ELSE [asyncio EXCEPT ![h] = "set"]
  BY DEF PublishHead
<1>2. /\ h \in Completed /\ Waiting' = Waiting
      /\ Completed' \subseteq Completed /\ Completed \subseteq Completed' \cup {h}
  BY PublishHeadKeeps
<1>3. h \in Calls /\ h \notin lost /\ asyncio[h] # "none"
  BY <1>2, PlacesAreCalls DEF IInv, Gone, Fresh
<1>4. \A j \in Calls \ {h} : asyncio'[j] = asyncio[j]
  BY <1>1 DEF IInv, TypeOK
<1>5. \A j \in Calls \ {h} : Status(j)' = Status(j)
  BY <1>1, <1>2, <1>4, StatusSame
<1>6. CASE asyncio[h] = "pending"
  <2>1. asyncio'[h] = "set"
    BY <1>1, <1>3, <1>6 DEF IInv, TypeOK
  <2>2. Status(h) = "completed" /\ Status(h)' = "answered"
    BY <1>2, <1>3, <1>6, <2>1 DEF Status
  <2>3. Promise!Becomes({h}, {"completed"}, "answered")
    BY <1>3, <1>5, <2>2, BecomesFacts
  <2> QED BY <1>1, <1>3, <2>3 DEF Promise!Answer
<1>7. CASE asyncio[h] \in {"set", "cancelled"}
  <2>1. asyncio'[h] = asyncio[h]
    BY <1>1, <1>3, <1>7 DEF IInv, TypeOK
  <2>2. Status(h)' = Status(h)
    BY <1>7, <2>1 DEF Status
  <2> QED BY <1>1, <1>5, <2>2, NothingSeen
<1> QED BY <1>3, <1>6, <1>7 DEF IInv, TypeOK

LEMMA PublishFailsLoses ==
    ASSUME IInv, PublishFails
    PROVE  Promise!Fail \/ UNCHANGED Promise!vars
<1> DEFINE T == ToSet(Top.todo)
           S == {k \in T : asyncio[k] = "pending"}
<1>1. lost' = lost \cup S /\ UNCHANGED <<asyncio, opened>>
  BY DEF PublishFails
<1>2. T \subseteq Completed /\ Waiting' = Waiting /\ Completed' = Completed \ T
  BY PublishFailsKeeps
<1>3. S \subseteq T /\ \A k \in T : k \in S <=> asyncio[k] = "pending"
  OBVIOUS
<1> HIDE DEF T, S
<1>4. T \subseteq Calls /\ S \subseteq Calls
  BY <1>2, <1>3, PlacesAreCalls DEF IInv
<1>5. \A k \in S : k \in Completed /\ k \notin lost /\ asyncio[k] = "pending"
  BY <1>2, <1>3 DEF IInv, Gone
<1>6. \A k \in S : Status(k) = "completed" /\ Status(k)' = "lost"
  BY <1>1, <1>5 DEF Status
<1>7. ASSUME NEW k \in Calls, k \notin S
      PROVE  Status(k)' = Status(k)
  <2>1. CASE k \in T
    <3>1. asyncio[k] \in {"set", "cancelled"} /\ asyncio'[k] = asyncio[k]
      BY <1>1, <1>2, <1>3, <1>7, <2>1 DEF IInv, TypeOK, Fresh
    <3> QED BY <3>1 DEF Status
  <2>2. CASE k \notin T
    BY <1>1, <1>2, <1>7, <2>2, StatusSame
  <2> QED BY <2>1, <2>2
<1>8. CASE S = {}
  BY <1>1, <1>7, <1>8, NothingSeen
<1>9. CASE S # {}
  <2>1. Promise!Becomes(S, {"completed"}, "lost")
    BY <1>4, <1>6, <1>7, BecomesFacts
  <2> QED BY <1>1, <1>4, <1>9, <2>1 DEF Promise!Fail
<1> QED BY <1>8, <1>9

LEMMA DropDriverCloses ==
    ASSUME IInv, DropDriver
    PROVE  Promise!Close
<1> DEFINE S == {k \in Calls : Status(k) \in {"pending", "completed"}}
<1>1. /\ lost' = lost \cup {k \in ToSet(entries) \cup ToSet(ready) : asyncio[k] = "pending"}
      /\ asyncio' = asyncio /\ opened' = opened + 1
  BY DEF DropDriver
<1>2. /\ Waiting \cup Completed = ToSet(entries) \cup ToSet(ready)
      /\ Waiting' = {} /\ Completed' = {}
  BY DropDriverKeeps
<1>3. Waiting \subseteq Calls /\ Completed \subseteq Calls /\ TypeOK /\ Kept /\ Gone
  BY PlacesAreCalls DEF IInv
<1>4. ASSUME NEW k \in Calls
      PROVE  k \in S <=> asyncio[k] = "pending" /\ k \notin lost
  <2>1. asyncio[k] \in {"none", "pending", "set", "cancelled"}
    BY <1>3 DEF TypeOK
  <2>2. asyncio[k] = "pending" /\ k \notin lost => Status(k) \in {"pending", "completed"}
    BY StatusKept
  <2>3. asyncio[k] # "pending" \/ k \in lost => Status(k) \notin {"pending", "completed"}
    BY <2>1 DEF Status
  <2> QED BY <2>2, <2>3
<1>5. S \subseteq Calls /\ \A k \in S : Status(k) \in {"pending", "completed"}
  OBVIOUS
<1> HIDE DEF S
<1>6. \A k \in S : k \in lost'
  BY <1>1, <1>2, <1>3, <1>4, <1>5 DEF Kept
<1>7. \A k \in S : Status(k)' = "lost"
  BY <1>1, <1>4, <1>5, <1>6 DEF Status
<1>8. ASSUME NEW k \in Calls, k \notin S
      PROVE  Status(k)' = Status(k)
  <2>1. CASE asyncio[k] = "pending"
    <3>1. k \in lost /\ k \in lost'
      BY <1>1, <1>4, <1>8, <2>1
    <3> QED BY <1>1, <2>1, <3>1 DEF Status
  <2>2. CASE asyncio[k] \in {"none", "set", "cancelled"}
    BY <1>1, <2>2 DEF Status
  <2> QED BY <1>3, <2>1, <2>2 DEF TypeOK
<1>9. Promise!Becomes(S, {"pending", "completed"}, "lost")
  BY <1>5, <1>7, <1>8, BecomesFacts
<1>10. S = {k \in Calls : [j \in Calls |-> Status(j)][k] \in {"pending", "completed"}}
  BY DEF S
<1> QED BY <1>1, <1>9, <1>10 DEF Promise!Close

LEMMA StepKeepsPromise == IInv /\ [Next]_vars => [Promise!Next]_(Promise!vars)
<1> SUFFICES ASSUME IInv, [Next]_vars PROVE Promise!Next \/ UNCHANGED Promise!vars
  OBVIOUS
<1>1. CASE UNCHANGED vars
  <2>1. Silent /\ opened' = opened
    BY <1>1 DEF vars, Silent, Waiting, Completed
  <2> QED BY <2>1, SilentStep
<1>2. ASSUME NEW k \in Calls, Register(k)
      PROVE  Promise!Next
  BY <1>2, RegisterCalls DEF Promise!Next
<1>3. ASSUME NEW k \in Calls, CancelCall(k)
      PROVE  Promise!Next
  BY <1>3, CancelCallCancels DEF Promise!Next
<1>4. CASE PollReady
  BY <1>4, PollReadyCompletes DEF Promise!Next
<1>5. CASE PublishHead
  BY <1>5, PublishHeadAnswers DEF Promise!Next
<1>6. CASE PublishFails
  BY <1>6, PublishFailsLoses DEF Promise!Next
<1>7. CASE DropDriver
  BY <1>7, DropDriverCloses DEF Promise!Next
<1>8. CASE TakeEntries \/ PollPending \/ Settle \/ DrainReady \/ PublishEnds
  <2>1. Silent
    BY <1>8, TakeEntriesKeeps, PollPendingKeeps, SettleKeeps, DrainReadyKeeps, PublishEndsKeeps
  <2>2. opened' = opened
    BY <1>8 DEF TakeEntries, PollPending, Settle, DrainReady, PublishEnds
  <2> QED BY <2>1, <2>2, SilentStep
<1> QED BY <1>1, <1>2, <1>3, <1>4, <1>5, <1>6, <1>7, <1>8 DEF Next

\* Each call is answered at most once, with its outcome, and is lost only when publishing
\* fails or the driver is closed: the lists implement HostCalls (register, poll_all, publish).
THEOREM Refines == Spec => KeepsPromise
<1>1. Init => Promise!Init
  <2> SUFFICES ASSUME Init PROVE Promise!Init
    OBVIOUS
  <2>1. \A k \in Calls : Status(k) = "unused"
    BY DEF Init, Status
  <2> QED BY <2>1 DEF Init, Promise!Init
<1>2. IInv /\ [Next]_vars => [Promise!Next]_(Promise!vars)
  BY StepKeepsPromise
<1> QED BY <1>1, <1>2, Invariance, PTL DEF Spec, KeepsPromise, Promise!Spec

-----------------------------------------------------------------------------
(* The streams.                                                            *)

\* Items are counted, and only a call that is made has anything.
Given == \A k \in Calls : HasItem(k) => got[k] <= taken
Made ==
    /\ \A k \in nexts : asyncio[k] # "none"
    /\ \A k \in Calls : got[k] # Nothing => asyncio[k] # "none"

\* A call that has its item while an older one waits got ahead of it.
Overtook ==
    \A j, k \in nexts : j < k /\ HasItem(k) /\ j \in Waiting => k \in ahead

SInv == IInv /\ StreamTypeOK /\ Given /\ Made /\ Overtook /\ ItemsInCallOrder

\* What the lists do.
LEMMA ListStep ==
    ASSUME IInv, [Next]_vars
    PROVE  /\ IInv'
           /\ \A k \in Calls : asyncio[k] # "none" => asyncio'[k] # "none"
           /\ \A k \in Waiting' : k \in Waiting \/ asyncio[k] = "none"
<1>1. IInv'
  BY StepKeeps
<1>2. ASSUME NEW k \in Calls, asyncio[k] # "none"
      PROVE  asyncio'[k] # "none"
  <2>1. asyncio \in [Calls -> {"none", "pending", "set", "cancelled"}]
    BY DEF IInv, TypeOK
  <2>2. CASE UNCHANGED vars
    BY <1>2, <2>2 DEF vars
  <2>3. ASSUME NEW j \in Calls, Register(j)
        PROVE  asyncio'[k] # "none"
    BY <1>2, <2>1, <2>3 DEF Register
  <2>4. ASSUME NEW j \in Calls, CancelCall(j)
        PROVE  asyncio'[k] # "none"
    BY <1>2, <2>1, <2>4 DEF CancelCall
  <2>5. CASE PublishHead
    BY <1>2, <2>1, <2>5 DEF PublishHead
  <2>6. CASE \/ TakeEntries \/ PollPending \/ PollReady \/ Settle
             \/ DrainReady \/ PublishFails \/ PublishEnds \/ DropDriver
    <3>1. asyncio' = asyncio
      BY <2>6 DEF TakeEntries, PollPending, PollReady, Settle, DrainReady, PublishFails,
                  PublishEnds, DropDriver
    <3> QED BY <1>2, <3>1
  <2> QED BY <2>2, <2>3, <2>4, <2>5, <2>6 DEF Next
<1>3. ASSUME NEW k \in Waiting'
      PROVE  k \in Waiting \/ asyncio[k] = "none"
  <2>1. CASE UNCHANGED vars
    BY <1>3, <2>1 DEF vars, Waiting
  <2>2. ASSUME NEW j \in Calls, Register(j)
        PROVE  k \in Waiting \/ asyncio[k] = "none"
    <3>1. asyncio[j] = "none"
      BY <2>2 DEF Register
    <3> QED BY <1>3, <2>2, <3>1, RegisterKeeps
  <2>3. ASSUME NEW j \in Calls, CancelCall(j)
        PROVE  k \in Waiting \/ asyncio[k] = "none"
    BY <1>3, <2>3, CancelCallKeeps
  <2>4. CASE TakeEntries \/ PollPending \/ Settle \/ DrainReady \/ PublishEnds
    BY <1>3, <2>4, TakeEntriesKeeps, PollPendingKeeps, SettleKeeps, DrainReadyKeeps,
       PublishEndsKeeps DEF Silent
  <2>5. CASE PollReady \/ PublishHead \/ PublishFails \/ DropDriver
    BY <1>3, <2>5, PollReadyKeeps, PublishHeadKeeps, PublishFailsKeeps, DropDriverKeeps
  <2> QED BY <2>1, <2>2, <2>3, <2>4, <2>5 DEF Next
<1> QED BY <1>1, <1>2, <1>3

\* The call that is polled.
LEMMA Polled ==
    ASSUME IInv, Polls
    PROVE  /\ Head(Top.todo) \in Calls /\ Head(Top.todo) \in Waiting
           /\ asyncio[Head(Top.todo)] # "none"
<1>1. TypeOK /\ frames # <<>> /\ Top.kind = "poll" /\ Top.todo # <<>>
  BY DEF IInv, Polls
<1>2. Top \in Frame
  BY <1>1, FrameFacts
<1>3. Head(Top.todo) \in Unfinished(Top) /\ Head(Top.todo) \in Calls
  BY <1>1, <1>2, FrameParts, TailList DEF Unfinished
<1>4. Head(Top.todo) \in Waiting
  BY <1>1, <1>3, Split
<1> QED BY <1>3, <1>4 DEF IInv, Fresh

\* When the stream is polled, and no batch below is in its poll, every older call that
\* waits was passed over.
LEMMA Overtaking ==
    ASSUME IInv, PollsStream, ~Borrowed, NEW j \in nexts, j \in Waiting, j < Head(Top.todo)
    PROVE  j \in Passed
<1> PICK h : h = Head(Top.todo)
  OBVIOUS
<1>1. TypeOK /\ frames # <<>> /\ Top.kind = "poll" /\ Top.todo # <<>> /\ InCallOrder
  BY DEF IInv, PollsStream, Polls
<1>2. /\ Len(frames) \in 1..Len(frames) /\ DOMAIN frames = 1..Len(frames)
      /\ Top = frames[Len(frames)] /\ \A n \in 1..Len(frames) : frames[n] \in Frame
      /\ PollFrames = {n \in 1..Len(frames) : frames[n].kind = "poll"}
  BY <1>1, FrameFacts
<1>3. \A n \in 1..Len(frames) : frames[n].todo \in Seq(Calls)
  BY <1>2, FrameParts
<1>4. h \in Calls /\ j \in Calls /\ j < h
  BY <1>1, Polled, PlacesAreCalls DEF PollsStream
<1>5. ~(h < j) /\ h # j
  BY <1>4, CallsAreNumbers
<1>6. /\ h \in Unfinished(Top)
      /\ ToSet(Top.todo) = {h} \cup ToSet(Tail(Top.todo)) /\ Before({h}, ToSet(Tail(Top.todo)))
  <2>1. Top.todo \in Seq(Calls) /\ Increasing(Top.todo)
    BY <1>1, <1>2, <1>3 DEF InCallOrder, InOrder
  <2>2. /\ ToSet(Top.todo) = {h} \cup ToSet(Tail(Top.todo))
        /\ Before({h}, ToSet(Tail(Top.todo)))
    BY <1>1, <2>1, TailList
  <2> QED BY <1>1, <2>2 DEF Unfinished
<1>7. j \notin ToSet(entries)
  BY <1>1, <1>2, <1>5, <1>6 DEF InCallOrder, Before
<1>8. PICK n \in 1..Len(frames) : j \in Unfinished(frames[n])
  BY <1>2, <1>7 DEF Waiting
<1>9. n \in PollFrames /\ j \in ToSet(frames[n].pending) \cup ToSet(frames[n].todo)
  BY <1>2, <1>8 DEF Unfinished
<1>10. CASE j \in ToSet(frames[n].pending)
  BY <1>9, <1>10 DEF Passed
<1>11. CASE j \in ToSet(frames[n].todo)
  <2>1. n # Len(frames)
    BY <1>2, <1>5, <1>6, <1>11 DEF Before
  <2>2. frames[n].todo # <<>>
    BY <1>11, EmptyList
  <2>3. Head(frames[n].todo) \notin nexts
    BY <1>9, <2>1, <2>2 DEF Borrowed
  <2>4. j \in ToSet(Tail(frames[n].todo))
    BY <1>3, <1>11, <2>2, <2>3, TailList
  <2> QED BY <1>9, <2>1, <2>2, <2>4 DEF Passed
<1> QED BY <1>9, <1>10, <1>11

\* No step but NextItem gives an item.
LEMMA NoItemKeeps ==
    ASSUME SInv, [Next]_vars, nexts' \subseteq Calls, nexts \subseteq nexts',
           \A k \in nexts' : k \in nexts \/ (asyncio[k] = "none" /\ asyncio'[k] # "none"),
           UNCHANGED <<taken, ahead>>,
           got' \in [Calls -> 0..Ended],
           \A k \in Calls : got'[k] # got[k] =>
               ~HasItem(k)' /\ asyncio[k] # "none"
    PROVE  SInv'
<1>1. /\ IInv /\ StreamTypeOK /\ Given /\ Made /\ Overtook /\ ItemsInCallOrder
      /\ nexts \subseteq Calls
  BY DEF SInv, StreamTypeOK
<1>2. /\ IInv'
      /\ \A k \in Calls : asyncio[k] # "none" => asyncio'[k] # "none"
      /\ \A k \in Waiting' : k \in Waiting \/ asyncio[k] = "none"
  BY <1>1, ListStep
<1>3. \A k \in Calls : HasItem(k)' => HasItem(k) /\ got'[k] = got[k]
  BY DEF HasItem
<1>4. \A k \in nexts' : HasItem(k)' => k \in nexts
  BY <1>1, <1>3 DEF Made, HasItem, Nothing
<1>5. StreamTypeOK'
  BY <1>1, <1>2 DEF StreamTypeOK, IInv, Ended
<1>6. Given'
  BY <1>1, <1>3 DEF Given
<1>7. Made'
  BY <1>1, <1>2 DEF Made, Nothing
<1>8. Overtook'
  <2> SUFFICES ASSUME NEW j \in nexts', NEW k \in nexts', j < k, HasItem(k)', j \in Waiting'
               PROVE  k \in ahead
    BY DEF Overtook
  <2>1. k \in nexts /\ HasItem(k) /\ asyncio[k] # "none"
    BY <1>1, <1>3, <1>4 DEF Made
  <2>2. asyncio[j] # "none"
    BY <1>1, <2>1 DEF IInv, Fresh
  <2>3. j \in nexts /\ j \in Waiting
    BY <1>2, <2>2
  <2> QED BY <1>1, <2>1, <2>3 DEF Overtook
<1>9. ItemsInCallOrder'
  <2> SUFFICES ASSUME NEW j \in nexts', NEW k \in nexts',
                      j < k, HasItem(j)', HasItem(k)', got'[k] < got'[j]
               PROVE  k \in ahead
    BY DEF ItemsInCallOrder
  <2>1. j \in nexts /\ k \in nexts /\ j \in Calls /\ k \in Calls
    BY <1>1, <1>4
  <2>2. HasItem(j) /\ HasItem(k) /\ got[k] < got[j]
    BY <1>3, <2>1
  <2> QED BY <1>1, <2>1, <2>2 DEF ItemsInCallOrder
<1> QED BY <1>2, <1>5, <1>6, <1>7, <1>8, <1>9 DEF SInv

LEMMA NextItemKeeps ==
    ASSUME SInv, NextItem
    PROVE  SInv'
<1> PICK h : h = Head(Top.todo)
  OBVIOUS
<1>1. /\ IInv /\ StreamTypeOK /\ Given /\ Made /\ Overtook /\ ItemsInCallOrder
      /\ nexts \subseteq Calls /\ taken \in 0..MaxItems /\ got \in [Calls -> 0..Ended]
  BY DEF SInv, StreamTypeOK
<1>2. /\ PollsStream /\ ~Borrowed /\ taken < MaxItems /\ PollReady
      /\ taken' = taken + 1 /\ nexts' = nexts /\ h \in nexts
      /\ got' = [got EXCEPT ![h] = taken + 1]
      /\ ahead' = IF \E j \in Passed : j < h THEN ahead \cup {h} ELSE ahead
  BY DEF NextItem, PollsStream
<1>3. h \in Calls /\ h \in Waiting /\ asyncio[h] # "none"
  BY <1>1, <1>2, Polled DEF PollsStream
<1>4. [Next]_vars
  BY <1>2 DEF Next
<1>5. /\ IInv'
      /\ \A k \in Calls : asyncio[k] # "none" => asyncio'[k] # "none"
      /\ \A k \in Waiting' : k \in Waiting \/ asyncio[k] = "none"
  BY <1>1, <1>4, ListStep
<1>6. MaxItems \in Nat
  BY HostStreamsAssumption
<1>7. \A k \in Calls : got'[k] = IF k = h THEN taken + 1 ELSE got[k]
  BY <1>1, <1>2
<1>8. taken + 1 \in 1..MaxItems /\ taken + 1 \in 0..Ended
  BY <1>1, <1>2, <1>6 DEF Ended
<1>9. ahead \subseteq ahead' /\ ahead' \subseteq ahead \cup {h}
  BY <1>2
<1>10. StreamTypeOK'
  <2>1. got' \in [Calls -> 0..Ended]
    BY <1>1, <1>2, <1>8
  <2>2. taken' \in 0..MaxItems
    BY <1>2, <1>6, <1>8
  <2>3. ahead' \subseteq nexts' /\ nexts' \subseteq Calls
    BY <1>1, <1>2, <1>9 DEF StreamTypeOK
  <2> QED BY <1>5, <2>1, <2>2, <2>3 DEF StreamTypeOK, IInv, Ended
<1>11. Given'
  <2>1. ASSUME NEW k \in Calls, HasItem(k)'
        PROVE  got'[k] <= taken'
    <3>1. CASE k = h
      BY <1>1, <1>2, <1>7, <3>1
    <3>2. CASE k # h
      <4>1. HasItem(k) /\ got'[k] = got[k]
        BY <1>7, <2>1, <3>2 DEF HasItem
      <4>2. got[k] <= taken /\ got[k] \in Nat /\ taken \in Nat
        BY <1>1, <1>6, <4>1 DEF Given, Ended
      <4> QED BY <1>2, <4>1, <4>2
    <3> QED BY <3>1, <3>2
  <2> QED BY <2>1 DEF Given
<1>12. Made'
  BY <1>1, <1>2, <1>3, <1>5, <1>7 DEF Made, Nothing
<1>13. Overtook'
  <2> SUFFICES ASSUME NEW j \in nexts, NEW k \in nexts, j < k, HasItem(k)', j \in Waiting'
               PROVE  k \in ahead'
    BY <1>2 DEF Overtook
  <2>1. j \in Waiting
    BY <1>1, <1>5 DEF Made
  <2>2. CASE k = h
    <3>1. j \in Passed
      BY <1>1, <1>2, <2>1, <2>2, Overtaking
    <3> QED BY <1>2, <2>2, <3>1
  <2>3. CASE k # h
    <3>1. HasItem(k)
      BY <1>1, <1>7, <2>3 DEF HasItem
    <3> QED BY <1>1, <1>9, <2>1, <3>1 DEF Overtook
  <2> QED BY <2>2, <2>3
<1>14. ItemsInCallOrder'
  <2> SUFFICES ASSUME NEW j \in nexts, NEW k \in nexts,
                      j < k, HasItem(j)', HasItem(k)', got'[k] < got'[j]
               PROVE  k \in ahead'
    BY <1>2 DEF ItemsInCallOrder
  <2>1. CASE j = h
    <3>1. k # h
      BY <1>1, <2>1, CallsAreNumbers
    <3>2. HasItem(k)
      BY <1>1, <1>7, <3>1 DEF HasItem
    <3> QED BY <1>1, <1>3, <1>9, <2>1, <3>2 DEF Overtook
  <2>2. CASE k = h /\ j # h
    <3>1. HasItem(j) /\ got'[j] = got[j]
      BY <1>1, <1>7, <2>2 DEF HasItem
    <3>2. got[j] <= taken /\ got[j] \in Nat /\ taken \in Nat
      BY <1>1, <1>6, <3>1 DEF Given, Ended
    <3>3. got'[k] = taken + 1
      BY <1>1, <1>7, <2>2
    <3>4. \A a, b \in Nat : a <= b => ~(b + 1 < a)
      OBVIOUS
    <3> QED BY <3>1, <3>2, <3>3, <3>4
  <2>3. CASE j # h /\ k # h
    <3>1. HasItem(j) /\ HasItem(k) /\ got[k] < got[j]
      BY <1>1, <1>7, <2>3 DEF HasItem
    <3> QED BY <1>1, <1>9, <3>1 DEF ItemsInCallOrder
  <2> QED BY <2>1, <2>2, <2>3
<1> QED BY <1>5, <1>10, <1>11, <1>12, <1>13, <1>14 DEF SInv

LEMMA StreamStepKeeps == SInv /\ [StreamNext]_allVars => SInv'
<1> SUFFICES ASSUME SInv, [StreamNext]_allVars PROVE SInv'
  OBVIOUS
<1>1. /\ IInv /\ StreamTypeOK /\ Made /\ nexts \subseteq Calls
      /\ taken \in 0..MaxItems /\ got \in [Calls -> 0..Ended] /\ MaxItems \in Nat
  BY HostStreamsAssumption DEF SInv, StreamTypeOK
\* The stream is left alone.
<1>2. ASSUME [Next]_vars, UNCHANGED streamVars
      PROVE  SInv'
  BY <1>1, <1>2, NoItemKeeps DEF streamVars
\* A call that is polled gets something that is no item.
<1>3. ASSUME NEW v \in {Ended, Busy}, Polls, PollReady,
             got' = [got EXCEPT ![Head(Top.todo)] = v], UNCHANGED <<nexts, taken, ahead>>
      PROVE  SInv'
  <2> PICK h : h = Head(Top.todo)
    OBVIOUS
  <2>1. h \in Calls /\ asyncio[h] # "none"
    BY <1>1, <1>3, Polled
  <2>2. v \in 0..Ended /\ v \notin 1..MaxItems
    BY <1>1 DEF Ended, Busy
  <2>3. got' \in [Calls -> 0..Ended] /\ \A k \in Calls : got'[k] = IF k = h THEN v ELSE got[k]
    BY <1>1, <1>3, <2>1, <2>2
  <2>4. \A k \in Calls : got'[k] # got[k] => ~HasItem(k)' /\ asyncio[k] # "none"
    BY <2>1, <2>2, <2>3 DEF HasItem
  <2>5. [Next]_vars
    BY <1>3 DEF Next
  <2> QED BY <1>1, <1>3, <2>3, <2>4, <2>5, NoItemKeeps
<1>4. CASE UNCHANGED allVars
  BY <1>2, <1>4 DEF allVars
<1>5. ASSUME NEW k \in Calls, Anext(k)
      PROVE  SInv'
  <2>1. [Next]_vars /\ nexts' = nexts \cup {k} /\ UNCHANGED <<taken, got, ahead>>
    BY <1>5 DEF Anext, Next
  <2>2. asyncio[k] = "none" /\ asyncio'[k] # "none"
    BY <1>1, <1>5 DEF Anext, Register, IInv, TypeOK
  <2> QED BY <1>1, <2>1, <2>2, NoItemKeeps
<1>6. CASE NextItem
  BY <1>6, NextItemKeeps
<1>7. CASE NextPending
  BY <1>2, <1>7 DEF NextPending, Next
<1>8. CASE NextEnds
  BY <1>3, <1>8 DEF NextEnds, PollsStream
<1>9. CASE NextBusy
  BY <1>3, <1>9 DEF NextBusy, PollsStream
<1>10. CASE OtherPolled
  BY <1>2, <1>10 DEF OtherPolled, Next
<1>11. CASE Lists
  BY <1>2, <1>11 DEF Lists, Next
<1> QED BY <1>4, <1>5, <1>6, <1>7, <1>8, <1>9, <1>10, <1>11 DEF StreamNext

LEMMA StreamInitFits == StreamInit => SInv
<1> SUFFICES ASSUME StreamInit PROVE SInv
  OBVIOUS
<1>1. IInv /\ nexts = {} /\ taken = 0 /\ ahead = {} /\ got = [k \in Calls |-> Nothing]
  BY InitFits DEF StreamInit
<1>2. \A k \in Calls : got[k] = 0 /\ ~HasItem(k)
  BY <1>1 DEF Nothing, HasItem
<1>3. StreamTypeOK
  <2>1. 0 \in 0..Ended /\ 0 \in 0..MaxItems
    BY HostStreamsAssumption DEF Ended
  <2> QED BY <1>1, <2>1 DEF StreamTypeOK, IInv, Nothing
<1>4. Given /\ Made
  BY <1>1, <1>2 DEF Given, Made, Nothing
<1>5. Overtook /\ ItemsInCallOrder
  BY <1>1 DEF Overtook, ItemsInCallOrder
<1> QED BY <1>1, <1>3, <1>4, <1>5 DEF SInv

LEMMA StreamInvariance == StreamSpec => []SInv
BY StreamInitFits, StreamStepKeeps, PTL DEF StreamSpec

\* A stream gives no more than its items, and only its own calls get ahead (HostStream::next).
THEOREM StreamTypeCorrect == StreamSpec => []StreamTypeOK
<1>1. SInv => StreamTypeOK
  BY DEF SInv
<1> QED BY <1>1, StreamInvariance, PTL

\* A younger call gets ahead of an older one only within one batch (HostStream::next, settle).
THEOREM ItemsInOrder == StreamSpec => []ItemsInCallOrder
<1>1. SInv => ItemsInCallOrder
  BY DEF SInv
<1> QED BY <1>1, StreamInvariance, PTL

\* A stream goes through the lists as any async function does, so that what is proved of
\* them is true of it (AsyncIterator's __anext__).
THEOREM StreamsAreLists == StreamSpec => Spec
<1>1. StreamInit => Init
  BY DEF StreamInit
<1>2. [StreamNext]_allVars => [Next]_vars
  <2> SUFFICES ASSUME StreamNext PROVE Next
    BY DEF allVars
  <2> QED BY DEF StreamNext, Anext, NextItem, NextPending, NextEnds, NextBusy, OtherPolled,
                 Lists, Next
<1> QED BY <1>1, <1>2, PTL DEF StreamSpec, Spec
=============================================================================
