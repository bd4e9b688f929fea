-------------------------- MODULE PageAudio_proofs ---------------------------
(***************************************************************************)
(* What the page makes of sound events, for every cap on voices, set of    *)
(* tunes, effects and beds, and order of the bits of a port.               *)
(*                                                                         *)
(* Voices are a sequence that is thinned and appended to.  The first part  *)
(* says what thinning (only) leaves: an order-preserving image of the      *)
(* places kept.  Induction over a sequence is by the least place that      *)
(* would fail.                                                             *)
(***************************************************************************)
EXTENDS PageAudio, FiniteSetTheorems, WellFoundedInduction, SequenceTheorems, TLAPS

\* The natural numbers are well founded, in the form the next lemma uses.
LEMMA LessIsWellFounded ==
  IsWellFoundedOn({ss \in Nat \X Nat : ss[1] < ss[2]}, Nat)
<1>1. OpToRel(<, Nat) = {ss \in Nat \X Nat : ss[1] < ss[2]}
  BY Zenon DEF OpToRel
<1>2. QED
  BY <1>1, NatLessThanWellFounded, Zenon

\* A nonempty set of natural numbers has a least member.
LEMMA Least ==
  ASSUME NEW T, T \subseteq Nat, T # {}
  PROVE  \E x \in T : \A y \in T : x <= y
<1> DEFINE R == {ss \in Nat \X Nat : ss[1] < ss[2]}
<1>1. \A x, y \in Nat : y < x => <<y, x>> \in R
  OBVIOUS
<1>2. IsWellFoundedOn(R, Nat)
  BY LessIsWellFounded
<1> HIDE DEF R
<1>3. PICK x \in T : \A y \in T : <<y, x>> \notin R
  BY <1>2, WFMin, Zenon
<1>4. ASSUME NEW y \in T PROVE x <= y
  <2>1. x \in Nat /\ y \in Nat /\ <<y, x>> \notin R
    BY <1>3, <1>4
  <2>2. ~(y < x)
    BY <2>1, <1>1
  <2>3. QED
    BY <2>1, <2>2
<1>5. QED
  BY <1>3, <1>4

\* Induction up to n: a set with 0 and the successor of each of its members below n.
LEMMA Induction ==
  ASSUME NEW n \in Nat, NEW S, 0 \in S, \A i \in 0 .. (n - 1) : i \in S => i + 1 \in S
  PROVE  \A i \in 0 .. n : i \in S
<1> DEFINE T == {i \in 0 .. n : i \notin S}
<1>1. SUFFICES ASSUME T # {} PROVE FALSE
  OBVIOUS
<1>2. PICK x \in T : \A y \in T : x <= y
  <2>1. T \subseteq Nat
    OBVIOUS
  <2>2. QED
    BY <1>1, <2>1, Least, Zenon
<1>3. x # 0 /\ x \in 1 .. n
  BY <1>2
<1>4. x - 1 \in 0 .. (n - 1) /\ (x - 1) + 1 = x
  BY <1>3
<1>5. x - 1 \in S
  BY <1>2, <1>3, <1>4
<1>6. x \in S
  BY <1>4, <1>5
<1>7. QED
  BY <1>2, <1>6

-----------------------------------------------------------------------------
(* Ranks: how many places of S come up to i.                               *)

RankIn(S, i) == Cardinality({j \in S : j <= i})

\* Ranks count up by one at each place of S, and nowhere else.
LEMMA RankSteps ==
  ASSUME NEW n \in Nat, NEW S \in SUBSET (1 .. n)
  PROVE  /\ IsFiniteSet(S) /\ Cardinality(S) \in 0 .. n
         /\ \A i \in 0 .. n : RankIn(S, i) \in Nat
         /\ RankIn(S, 0) = 0 /\ RankIn(S, n) = Cardinality(S)
         /\ \A i \in 1 .. n :
              RankIn(S, i) = IF i \in S THEN RankIn(S, i - 1) + 1 ELSE RankIn(S, i - 1)
<1>0. \A j \in S : j \in Int /\ 1 <= j /\ j <= n
  OBVIOUS
<1>1. IsFiniteSet(1 .. n) /\ Cardinality(1 .. n) = n
  BY FS_Interval
<1>2. IsFiniteSet(S) /\ Cardinality(S) <= n
  BY <1>1, FS_Subset
<1>3. Cardinality(S) \in Nat
  BY <1>2, FS_CardinalityType
<1>4. \A i \in 0 .. n : IsFiniteSet({j \in S : j <= i})
  BY <1>2, FS_Subset
<1>5. \A i \in 0 .. n : RankIn(S, i) \in Nat
  BY <1>4, FS_CardinalityType DEF RankIn
<1>6. RankIn(S, 0) = 0
  <2>1. \A j \in S : ~(j <= 0)
    BY <1>0
  <2>2. {j \in S : j <= 0} = {}
    BY <2>1, Zenon
  <2>3. QED
    BY <2>2, FS_EmptySet DEF RankIn
<1>7. RankIn(S, n) = Cardinality(S)
  <2>1. {j \in S : j <= n} = S
    BY <1>0
  <2>2. QED
    BY <2>1 DEF RankIn
<1>8. ASSUME NEW i \in 1 .. n
      PROVE  RankIn(S, i) = IF i \in S THEN RankIn(S, i - 1) + 1 ELSE RankIn(S, i - 1)
  <2> DEFINE Before == {j \in S : j <= i - 1}
  <2>0. i - 1 \in 0 .. n /\ \A j \in S : j <= i <=> j <= i - 1 \/ j = i
    BY <1>0
  <2>1. IsFiniteSet(Before)
    BY <1>4, <2>0, Zenon
  <2>2. CASE i \in S
    <3>0. ~(i <= i - 1)
      OBVIOUS
    <3>1. {j \in S : j <= i} = Before \cup {i} /\ i \notin Before
      BY <2>0, <2>2, <3>0, Zenon
    <3>2. Cardinality(Before \cup {i}) = Cardinality(Before) + 1
      BY <2>1, <3>1, FS_AddElement
    <3>3. QED
      BY <2>2, <3>1, <3>2 DEF RankIn
  <2>3. CASE i \notin S
    <3>1. {j \in S : j <= i} = Before
      BY <2>0, <2>3, Zenon
    <3>2. QED
      BY <2>3, <3>1 DEF RankIn
  <2>4. QED
    BY <2>2, <2>3
<1>9. QED
  BY <1>2, <1>3, <1>5, <1>6, <1>7, <1>8

\* A later place of S has a higher rank.
LEMMA RanksGrow ==
  ASSUME NEW n \in Nat, NEW S \in SUBSET (1 .. n)
  PROVE  \A i, j \in S : i < j => RankIn(S, i) < RankIn(S, j)
<1> SUFFICES ASSUME NEW i \in S, NEW j \in S, i < j PROVE RankIn(S, i) < RankIn(S, j)
  OBVIOUS
<1>0. i \in 1 .. n /\ j \in 1 .. n
  OBVIOUS
<1>1. j - 1 \in 0 .. n /\ \A k \in 1 .. n : k <= i => k <= j - 1
  BY <1>0
<1>2. {k \in S : k <= i} \subseteq {k \in S : k <= j - 1}
  BY <1>1, Zenon
<1>3. IsFiniteSet({k \in S : k <= j - 1})
  BY RankSteps, FS_Subset
<1>4. RankIn(S, i) <= RankIn(S, j - 1)
  BY <1>2, <1>3, FS_Subset DEF RankIn
<1>5. /\ RankIn(S, i) \in Nat /\ RankIn(S, j - 1) \in Nat
      /\ RankIn(S, j) = RankIn(S, j - 1) + 1
  <2>1. i \in 0 .. n
    BY <1>0
  <2>2. QED
    BY <1>0, <1>1, <2>1, RankSteps
<1>6. QED
  BY <1>4, <1>5

\* Every rank up to the number of places is the rank of exactly one.
LEMMA RanksAreTaken ==
  ASSUME NEW n \in Nat, NEW S \in SUBSET (1 .. n)
  PROVE  /\ \A k \in 1 .. Cardinality(S) : \E i \in S : RankIn(S, i) = k
         /\ \A i \in S : RankIn(S, i) \in 1 .. Cardinality(S)
         /\ \A i, j \in S : RankIn(S, i) = RankIn(S, j) => i = j
<1>1. ASSUME NEW k \in 1 .. Cardinality(S) PROVE \E i \in S : RankIn(S, i) = k
  <2> DEFINE T == {i \in 0 .. n : RankIn(S, i) >= k}
  <2>1. n \in T /\ T \subseteq Nat
    BY RankSteps
  <2>2. PICK x \in T : \A y \in T : x <= y
    BY <2>1, Least, Zenon
  <2>3. x # 0 /\ x \in 1 .. n
    BY <2>2, RankSteps
  <2>4. x - 1 \in 0 .. n /\ x - 1 \notin T
    BY <2>2, <2>3
  <2>5. /\ RankIn(S, x - 1) \in Nat /\ RankIn(S, x) >= k
        /\ RankIn(S, x - 1) < k
    <3>1. RankIn(S, x - 1) \in Nat /\ ~(RankIn(S, x - 1) >= k)
      BY <2>4, RankSteps
    <3>2. QED
      BY <2>2, <3>1
  <2>6. RankIn(S, x) = IF x \in S THEN RankIn(S, x - 1) + 1 ELSE RankIn(S, x - 1)
    BY <2>3, RankSteps
  <2>8. x \in S /\ RankIn(S, x) = k
    BY <2>5, <2>6
  <2>9. QED
    BY <2>8
<1>2. ASSUME NEW i \in S PROVE RankIn(S, i) \in 1 .. Cardinality(S)
  <2>0. i \in 1 .. n /\ i - 1 \in 0 .. n
    <3>1. i \in 1 .. n
      OBVIOUS
    <3>2. QED
      BY <3>1
  <2>1. /\ RankIn(S, i) = RankIn(S, i - 1) + 1 /\ RankIn(S, i - 1) \in Nat
        /\ Cardinality(S) \in Nat
    BY <2>0, RankSteps
  <2>2. {j \in S : j <= i} \in SUBSET S
    OBVIOUS
  <2>3. RankIn(S, i) <= Cardinality(S)
    BY <2>2, RankSteps, FS_Subset DEF RankIn
  <2>4. QED
    BY <2>1, <2>3
<1>3. ASSUME NEW i \in S, NEW j \in S, RankIn(S, i) = RankIn(S, j) PROVE i = j
  <2>0. i \in 0 .. n /\ j \in 0 .. n
    <3>1. i \in 1 .. n /\ j \in 1 .. n
      OBVIOUS
    <3>2. QED
      BY <3>1
  <2>1. RankIn(S, i) \in Nat /\ RankIn(S, j) \in Nat
    BY <2>0, RankSteps
  <2>2. /\ i < j => RankIn(S, i) < RankIn(S, j)
        /\ j < i => RankIn(S, j) < RankIn(S, i)
    BY RanksGrow
  <2>3. QED
    BY <1>3, <2>0, <2>1, <2>2
<1>4. QED
  BY <1>1, <1>2, <1>3

-----------------------------------------------------------------------------
(* The registry: what only, Stopped and Added leave.                       *)

\* The place in S that only puts k-th.
Place(S, k) == CHOOSE i \in S : RankIn(S, i) = k

\* Every rank has its place, in order.
LEMMA PlacesInOrder ==
  ASSUME NEW n \in Nat, NEW S \in SUBSET (1 .. n)
  PROVE  /\ \A k \in 1 .. Cardinality(S) : Place(S, k) \in S /\ RankIn(S, Place(S, k)) = k
         /\ \A i \in S : RankIn(S, i) \in 1 .. Cardinality(S) /\ Place(S, RankIn(S, i)) = i
         /\ \A k, l \in 1 .. Cardinality(S) : k < l => Place(S, k) < Place(S, l)
<1>1. ASSUME NEW k \in 1 .. Cardinality(S)
      PROVE  Place(S, k) \in S /\ RankIn(S, Place(S, k)) = k
  BY RanksAreTaken DEF Place
<1>2. ASSUME NEW i \in S
      PROVE  RankIn(S, i) \in 1 .. Cardinality(S) /\ Place(S, RankIn(S, i)) = i
  <2>1. RankIn(S, i) \in 1 .. Cardinality(S)
    BY RanksAreTaken
  <2>2. Place(S, RankIn(S, i)) \in S /\ RankIn(S, Place(S, RankIn(S, i))) = RankIn(S, i)
    BY <1>1, <2>1
  <2>3. QED
    BY <2>1, <2>2, RanksAreTaken
<1>3. ASSUME NEW k \in 1 .. Cardinality(S), NEW l \in 1 .. Cardinality(S), k < l
      PROVE  Place(S, k) < Place(S, l)
  <2>1. /\ Place(S, k) \in S /\ RankIn(S, Place(S, k)) = k
        /\ Place(S, l) \in S /\ RankIn(S, Place(S, l)) = l
    BY <1>1
  <2>2. Place(S, l) < Place(S, k) => l < k
    BY <2>1, RanksGrow
  <2>3. Place(S, k) \in 1 .. n /\ Place(S, l) \in 1 .. n
    BY <2>1
  <2>4. Place(S, k) # Place(S, l)
    BY <1>3, <2>1
  <2>5. Cardinality(S) \in Nat
    BY RankSteps
  <2>6. QED
    BY <1>3, <2>2, <2>3, <2>4, <2>5
<1>4. QED
  BY <1>1, <1>2, <1>3

\* What only leaves: the voices kept, in order of insertion.
LEMMA OnlyKeeps ==
  ASSUME NEW V, NEW vs \in Seq(V), NEW S \in SUBSET DOMAIN vs
  PROVE  /\ only(vs, S) \in Seq(V) /\ DOMAIN only(vs, S) = 1 .. Cardinality(S)
         /\ Len(only(vs, S)) = Cardinality(S) /\ Cardinality(S) \in 0 .. Len(vs)
         /\ \A k \in 1 .. Cardinality(S) : only(vs, S)[k] = vs[Place(S, k)]
<1>1. Len(vs) \in Nat /\ DOMAIN vs = 1 .. Len(vs) /\ \A i \in 1 .. Len(vs) : vs[i] \in V
  BY LenProperties, ElementOfSeq
<1>2. Cardinality(S) \in 0 .. Len(vs)
  BY <1>1, RankSteps
<1>3. \A k \in 1 .. Cardinality(S) : Place(S, k) \in S
  BY <1>1, PlacesInOrder
<1>4. only(vs, S) = [k \in 1 .. Cardinality(S) |-> vs[Place(S, k)]]
  BY DEF only, Place, RankIn
<1>5. only(vs, S) \in [1 .. Cardinality(S) -> V]
  BY <1>1, <1>3, <1>4
<1>6. Cardinality(S) \in Nat
  BY <1>1, <1>2
<1>7. only(vs, S) \in Seq(V) /\ Len(only(vs, S)) = Cardinality(S)
  BY <1>5, <1>6
<1>8. QED
  BY <1>2, <1>4, <1>7

\* Everything left when S is kept stood at a place of S, and in the same order.
LEMMA OnlyTracesBack ==
  ASSUME NEW V, NEW vs \in Seq(V), NEW S \in SUBSET DOMAIN vs
  PROVE  \A k, l \in DOMAIN only(vs, S) :
           \E i, j \in S : /\ only(vs, S)[k] = vs[i] /\ only(vs, S)[l] = vs[j]
                           /\ (k < l => i < j) /\ (i = j => k = l)
<1>1. Len(vs) \in Nat /\ DOMAIN vs = 1 .. Len(vs)
  BY LenProperties
<1> SUFFICES ASSUME NEW k \in DOMAIN only(vs, S), NEW l \in DOMAIN only(vs, S)
             PROVE  \E i, j \in S : /\ only(vs, S)[k] = vs[i] /\ only(vs, S)[l] = vs[j]
                                    /\ (k < l => i < j) /\ (i = j => k = l)
  OBVIOUS
<1>2. k \in 1 .. Cardinality(S) /\ l \in 1 .. Cardinality(S)
  BY OnlyKeeps
<1>3. /\ Place(S, k) \in S /\ RankIn(S, Place(S, k)) = k
      /\ Place(S, l) \in S /\ RankIn(S, Place(S, l)) = l
      /\ k < l => Place(S, k) < Place(S, l)
  BY <1>1, <1>2, PlacesInOrder
<1>4. only(vs, S)[k] = vs[Place(S, k)] /\ only(vs, S)[l] = vs[Place(S, l)]
  BY <1>2, OnlyKeeps
<1>5. QED
  BY <1>3, <1>4

\* Whatever is kept is left.
LEMMA OnlyLeaves ==
  ASSUME NEW V, NEW vs \in Seq(V), NEW S \in SUBSET DOMAIN vs, NEW i \in S
  PROVE  \E k \in DOMAIN only(vs, S) : only(vs, S)[k] = vs[i]
<1>1. Len(vs) \in Nat /\ DOMAIN vs = 1 .. Len(vs)
  BY LenProperties
<1>2. RankIn(S, i) \in 1 .. Cardinality(S) /\ Place(S, RankIn(S, i)) = i
  BY <1>1, PlacesInOrder
<1>3. QED
  BY <1>2, OnlyKeeps

\* Keeping every place changes nothing.
LEMMA OnlyAll ==
  ASSUME NEW V, NEW vs \in Seq(V)
  PROVE  only(vs, DOMAIN vs) = vs
<1> DEFINE n == Len(vs)
<1>1. n \in Nat /\ DOMAIN vs = 1 .. n
  BY LenProperties
<1>2. Cardinality(1 .. n) = n
  BY <1>1, FS_Interval
<1>3. ASSUME NEW i \in 1 .. n PROVE RankIn(1 .. n, i) = i
  <2>1. \A j \in Int : j \in 1 .. n /\ j <= i <=> j \in 1 .. i
    BY <1>1
  <2>2. {j \in 1 .. n : j <= i} = 1 .. i
    BY <2>1
  <2>3. Cardinality(1 .. i) = i
    BY <1>1, FS_Interval
  <2>4. QED
    BY <2>2, <2>3 DEF RankIn
<1>4. \A k \in 1 .. n : Place(1 .. n, k) = k
  BY <1>1, <1>2, <1>3, PlacesInOrder
<1>5. /\ only(vs, DOMAIN vs) \in Seq(V) /\ Len(only(vs, DOMAIN vs)) = n
      /\ \A k \in 1 .. n : only(vs, DOMAIN vs)[k] = vs[k]
  BY <1>1, <1>2, <1>4, OnlyKeeps
<1> HIDE DEF n
<1>6. QED
  BY <1>1, <1>5, SeqEqual DEF n

Name == LoopTune \cup PulseTune \cup Circuit \cup Held \cup Effect \cup Bed \cup Range(BitOrder)
Voice == [name : Name, loop : BOOLEAN, quiet : BOOLEAN, role : Role]

\* A voice added stands behind those it spares: all of them below the cap; and a loop is not
\* spared only if it is the first and every voice loops.
LEMMA AddedIs ==
  ASSUME NEW vs \in Seq(Voice), Len(vs) <= MaxVoices, NEW voice
  PROVE  \E S \in SUBSET DOMAIN vs :
           /\ Added(vs, voice) = Append(only(vs, S), voice)
           /\ Len(only(vs, S)) < MaxVoices
           /\ Len(vs) < MaxVoices => S = DOMAIN vs
           /\ \A i \in DOMAIN vs \ S :
                vs[i].loop => i = 1 /\ Len(vs) = MaxVoices /\ \A j \in DOMAIN vs : vs[j].loop
<1>0. Len(vs) \in Nat /\ MaxVoices \in Nat /\ MaxVoices >= 2
  BY LenProperties, CapAssumption
<1>1. Len(vs) \in Nat /\ DOMAIN vs = 1 .. Len(vs) /\ MaxVoices \in Nat /\ MaxVoices >= 2
  BY LenProperties, <1>0
<1>2. CASE Len(vs) < MaxVoices
  <2>1. ~(Len(vs) >= MaxVoices)
    BY <1>1, <1>2
  <2>2. Added(vs, voice) = Append(only(vs, DOMAIN vs), voice)
    BY <2>1, OnlyAll DEF Added
  <2>3. Len(only(vs, DOMAIN vs)) < MaxVoices
    BY <1>2, OnlyAll
  <2>4. QED
    BY <2>2, <2>3
<1>3. CASE Len(vs) = MaxVoices
  <2> DEFINE e == oldestEvictable(vs)
             S == DOMAIN vs \ {e}
  <2>1. /\ e \in DOMAIN vs
        /\ vs[e].loop => e = 1 /\ \A j \in DOMAIN vs : vs[j].loop
    <3> DEFINE oneshots == {i \in DOMAIN vs : ~vs[i].loop}
    <3>1. CASE oneshots = {}
      BY <1>1, <1>3, <3>1 DEF oldestEvictable
    <3>2. CASE oneshots # {}
      <4>1. oneshots \subseteq Nat
        BY <1>1
      <4>2. \E i \in oneshots : \A j \in oneshots : i <= j
        BY <3>2, <4>1, Least, Zenon
      <4>3. e = CHOOSE i \in oneshots : \A j \in oneshots : i <= j
        BY <3>2 DEF oldestEvictable
      <4>4. e \in oneshots
        BY <4>2, <4>3
      <4>5. QED
        BY <4>4
    <3>3. QED
      BY <3>1, <3>2
  <2>2. Added(vs, voice) = Append(only(vs, S), voice)
    BY <1>1, <1>3 DEF Added, Without
  <2> HIDE DEF e
  <2>3. Len(only(vs, S)) < MaxVoices
    <3>0. Len(vs) >= 1
      BY <1>0, <1>3
    <3>1. Cardinality(1 .. Len(vs)) = Len(vs) /\ IsFiniteSet(1 .. Len(vs))
      BY <1>0, <3>0, FS_Interval
    <3>2. Cardinality(S) = Len(vs) - 1
      <4>1. S = (1 .. Len(vs)) \ {e} /\ e \in 1 .. Len(vs)
        BY <1>1, <2>1
      <4>2. QED
        BY <3>1, <4>1, FS_RemoveElement, Zenon
    <3>3. Len(only(vs, S)) = Cardinality(S)
      BY OnlyKeeps
    <3>4. QED
      BY <1>1, <1>3, <3>2, <3>3
  <2>4. /\ S \in SUBSET DOMAIN vs /\ \A i \in DOMAIN vs \ S : i = e
        /\ Len(vs) = MaxVoices /\ ~(Len(vs) < MaxVoices)
    BY <1>1, <1>3, <2>1
  <2>5. QED
    BY <2>1, <2>2, <2>3, <2>4, Zenon
<1>4. Len(vs) < MaxVoices \/ Len(vs) = MaxVoices
  BY <1>0
<1>5. QED
  BY <1>2, <1>3, <1>4, Zenon

-----------------------------------------------------------------------------
(* What the dispatchers keep of the voices: each is one of Good, and any   *)
(* two in order of insertion are one of Pair.  Thinning keeps that.        *)

Arranged(vs, Good, Pair) ==
  /\ \A i \in DOMAIN vs : vs[i] \in Good
  /\ \A i, j \in DOMAIN vs : i < j => <<vs[i], vs[j]>> \in Pair

\* Stopping voices, whichever, disturbs no arrangement.
LEMMA ThinnedIsArranged ==
  ASSUME NEW vs \in Seq(Voice), NEW S \in SUBSET DOMAIN vs, NEW Good, NEW Pair,
         Arranged(vs, Good, Pair)
  PROVE  Arranged(only(vs, S), Good, Pair)
<1>1. ASSUME NEW k \in DOMAIN only(vs, S), NEW l \in DOMAIN only(vs, S)
      PROVE  /\ only(vs, S)[k] \in Good
             /\ k < l => <<only(vs, S)[k], only(vs, S)[l]>> \in Pair
  <2>1. PICK i \in S, j \in S : /\ only(vs, S)[k] = vs[i] /\ only(vs, S)[l] = vs[j]
                                /\ k < l => i < j
    BY OnlyTracesBack
  <2>2. QED
    BY <2>1 DEF Arranged
<1>2. QED
  BY <1>1 DEF Arranged

\* A new voice must be good, and go with every voice there is.
LEMMA AppendedIsArranged ==
  ASSUME NEW vs \in Seq(Voice), NEW voice \in Voice, NEW Good, NEW Pair,
         Arranged(vs, Good, Pair), voice \in Good,
         \A i \in DOMAIN vs : <<vs[i], voice>> \in Pair
  PROVE  Arranged(Append(vs, voice), Good, Pair)
<1> DEFINE ws == Append(vs, voice)
<1>1. Len(vs) \in Nat /\ DOMAIN vs = 1 .. Len(vs)
  BY LenProperties
<1>2. /\ DOMAIN ws = 1 .. (Len(vs) + 1) /\ ws[Len(vs) + 1] = voice
      /\ \A i \in DOMAIN vs : ws[i] = vs[i]
  BY <1>1, AppendProperties, LenProperties
<1> HIDE DEF ws
<1>3. ASSUME NEW i \in DOMAIN ws PROVE ws[i] \in Good
  <2>1. i \in DOMAIN vs \/ i = Len(vs) + 1
    BY <1>1, <1>2
  <2>2. QED
    BY <1>2, <2>1 DEF Arranged
<1>4. ASSUME NEW i \in DOMAIN ws, NEW j \in DOMAIN ws, i < j PROVE <<ws[i], ws[j]>> \in Pair
  <2>1. i \in DOMAIN vs /\ (j \in DOMAIN vs \/ j = Len(vs) + 1)
    BY <1>1, <1>2, <1>4
  <2>2. QED
    BY <1>2, <1>4, <2>1 DEF Arranged
<1>5. QED
  BY <1>3, <1>4 DEF Arranged, ws

\* Voices that are good in a wider sense, and pairs.
LEMMA ArrangedWidens ==
  ASSUME NEW vs, NEW Good, NEW Pair, NEW Wider, Arranged(vs, Good, Pair),
         \A i \in DOMAIN vs : vs[i] \in Good => vs[i] \in Wider
  PROVE  Arranged(vs, Wider, Pair)
  BY DEF Arranged

-----------------------------------------------------------------------------
(* The dispatchers' player is the one player.                              *)

LEMMA LatchPlays ==
  /\ \A vs, name, loop : Latch!Played(vs, name, loop) = Played(vs, name, loop)
  /\ \A vs, name : Latch!Stopped(vs, name) = Stopped(vs, name)
<1>1. \A vs, S : Latch!only(vs, S) = only(vs, S)
  BY DEF Latch!only, Latch!Cardinality, only, Cardinality
<1>2. \A vs : Latch!oldestEvictable(vs) = oldestEvictable(vs)
  BY DEF Latch!oldestEvictable, oldestEvictable
<1>3. \A vs, i : Latch!Without(vs, i) = Without(vs, i)
  BY <1>1, Zenon DEF Latch!Without, Without
<1>4. \A vs, voice : Latch!Added(vs, voice) = Added(vs, voice)
  BY <1>2, <1>3, Zenon DEF Latch!Added, Added
<1>5. \A vs, name, loop, role : Latch!PlayedAs(vs, name, loop, role) = PlayedAs(vs, name, loop, role)
  BY <1>4, Zenon DEF Latch!PlayedAs, Latch!Playable, PlayedAs, Playable
<1>6. \A vs, name, loop : Latch!Played(vs, name, loop) = Played(vs, name, loop)
  BY <1>5, Zenon DEF Latch!Played, Played
<1>7. \A vs, name : Latch!Stopped(vs, name) = Stopped(vs, name)
  BY <1>1, Zenon DEF Latch!Stopped, Stopped
<1>8. QED
  BY <1>3, <1>4, <1>5, <1>6, <1>7

LEMMA ClipsPlay ==
  /\ \A vs, name, loop : Beds!Played(vs, name, loop) = Played(vs, name, loop)
  /\ \A vs, name, loop, role : Beds!PlayedAs(vs, name, loop, role) = PlayedAs(vs, name, loop, role)
  /\ \A vs, name : Beds!Stopped(vs, name) = Stopped(vs, name)
  /\ \A vs, voice : Beds!Added(vs, voice) = Added(vs, voice)
  /\ \A vs, i : Beds!Without(vs, i) = Without(vs, i)
<1>1. \A vs, S : Beds!only(vs, S) = only(vs, S)
  BY DEF Beds!only, Beds!Cardinality, only, Cardinality
<1>2. \A vs : Beds!oldestEvictable(vs) = oldestEvictable(vs)
  BY DEF Beds!oldestEvictable, oldestEvictable
<1>3. \A vs, i : Beds!Without(vs, i) = Without(vs, i)
  BY <1>1, Zenon DEF Beds!Without, Without
<1>4. \A vs, voice : Beds!Added(vs, voice) = Added(vs, voice)
  BY <1>2, <1>3, Zenon DEF Beds!Added, Added
<1>5. \A vs, name, loop, role : Beds!PlayedAs(vs, name, loop, role) = PlayedAs(vs, name, loop, role)
  BY <1>4, Zenon DEF Beds!PlayedAs, Beds!Playable, PlayedAs, Playable
<1>6. \A vs, name, loop : Beds!Played(vs, name, loop) = Played(vs, name, loop)
  BY <1>5, Zenon DEF Beds!Played, Played
<1>7. \A vs, name : Beds!Stopped(vs, name) = Stopped(vs, name)
  BY <1>1, Zenon DEF Beds!Stopped, Stopped
<1>8. QED
  BY <1>3, <1>4, <1>5, <1>6, <1>7

LEMMA StrobedPlays ==
  /\ \A vs, command : Strobed!fired(vs, command) = Beds!fired(vs, command)
  /\ \A vs, target : Strobed!crossfaded(vs, target) = Beds!crossfaded(vs, target)
  /\ Strobed!FadeEnds <=> Beds!FadeEnds
  /\ Strobed!ToggleMute <=> Beds!ToggleMute
<1>1. \A vs, S : Strobed!only(vs, S) = Beds!only(vs, S)
  BY DEF Strobed!only, Strobed!Cardinality, Beds!only, Beds!Cardinality
<1>2. \A vs : Strobed!oldestEvictable(vs) = Beds!oldestEvictable(vs)
  BY DEF Strobed!oldestEvictable, Beds!oldestEvictable
<1>3. \A vs, i : Strobed!Without(vs, i) = Beds!Without(vs, i)
  BY <1>1, Zenon DEF Strobed!Without, Beds!Without
<1>4. \A vs, voice : Strobed!Added(vs, voice) = Beds!Added(vs, voice)
  BY <1>2, <1>3, Zenon DEF Strobed!Added, Beds!Added
<1>5. \A vs, name, loop, role : Strobed!PlayedAs(vs, name, loop, role) = Beds!PlayedAs(vs, name, loop, role)
  BY <1>4, Zenon DEF Strobed!PlayedAs, Strobed!Playable, Beds!PlayedAs, Beds!Playable
<1>6. \A vs, name : Strobed!Stopped(vs, name) = Beds!Stopped(vs, name)
  BY <1>1, Zenon DEF Strobed!Stopped, Beds!Stopped
<1>7. \A vs, command : Strobed!fired(vs, command) = Beds!fired(vs, command)
  BY <1>5, <1>6, Zenon DEF Strobed!fired, Strobed!Played, Beds!fired, Beds!Played
<1>8. \A vs, target : Strobed!crossfaded(vs, target) = Beds!crossfaded(vs, target)
  <2>1. \A vs : Strobed!faded(vs) = Beds!faded(vs)
    BY DEF Strobed!faded, Beds!faded
  <2>2. QED
    BY <1>5, <2>1, Zenon DEF Strobed!crossfaded, Beds!crossfaded
<1>9. Strobed!FadeEnds <=> Beds!FadeEnds
  BY <1>3, Zenon DEF Strobed!FadeEnds, Beds!FadeEnds, Strobed!Fading, Beds!Fading, Strobed!dispatcher, Beds!dispatcher
<1>10. Strobed!ToggleMute <=> Beds!ToggleMute
  <2>1. \A vs : Strobed!dropped(vs) = Beds!dropped(vs)
    BY DEF Strobed!dropped, Beds!dropped
  <2>2. Strobed!Playable(bed) <=> Beds!Playable(bed)
    BY DEF Strobed!Playable, Beds!Playable
  <2>3. \A vs : Strobed!kept(vs) = Beds!kept(vs)
    BY DEF Strobed!kept, Beds!kept
  <2>4. Strobed!MuteSwitch <=> Beds!MuteSwitch
    BY DEF Strobed!MuteSwitch, Beds!MuteSwitch, Strobed!Made, Beds!Made
  <2>5. QED
    BY <1>4, <2>1, <2>2, <2>3, <2>4 DEF Strobed!ToggleMute, Beds!ToggleMute
<1>11. QED
  BY <1>7, <1>8, <1>9, <1>10

LEMMA PortsPlay ==
  /\ \A vs, name, loop : Ports!Played(vs, name, loop) = Played(vs, name, loop)
  /\ \A vs, name : Ports!Stopped(vs, name) = Stopped(vs, name)
<1>1. \A vs, S : Ports!only(vs, S) = only(vs, S)
  BY DEF Ports!only, Ports!Cardinality, only, Cardinality
<1>2. \A vs : Ports!oldestEvictable(vs) = oldestEvictable(vs)
  BY DEF Ports!oldestEvictable, oldestEvictable
<1>3. \A vs, i : Ports!Without(vs, i) = Without(vs, i)
  BY <1>1, Zenon DEF Ports!Without, Without
<1>4. \A vs, voice : Ports!Added(vs, voice) = Added(vs, voice)
  BY <1>2, <1>3, Zenon DEF Ports!Added, Added
<1>5. \A vs, name, loop, role : Ports!PlayedAs(vs, name, loop, role) = PlayedAs(vs, name, loop, role)
  BY <1>4, Zenon DEF Ports!PlayedAs, Ports!Playable, PlayedAs, Playable
<1>6. \A vs, name, loop : Ports!Played(vs, name, loop) = Played(vs, name, loop)
  BY <1>5, Zenon DEF Ports!Played, Played
<1>7. \A vs, name : Ports!Stopped(vs, name) = Stopped(vs, name)
  BY <1>1, Zenon DEF Ports!Stopped, Stopped
<1>8. QED
  BY <1>3, <1>4, <1>5, <1>6, <1>7

-----------------------------------------------------------------------------
(* The invariant.                                                          *)

\* Donkey Kong's voices: a tune that loops and is heard is the background; while the sound is
\* off, so is one that is not heard.
LatchVoice(tune, off) ==
  {v \in Voice : /\ v.loop <=> v.name \in LoopTune
                 /\ v.loop /\ ~v.quiet => v.name = tune
                 /\ off => v.quiet /\ (v.loop => v.name = tune)}

\* Of two tunes the first was started while the sound was off, and is a stray.
LatchPair == {p \in Voice \X Voice : p[1].loop /\ p[2].loop => p[1].quiet /\ ~p[2].quiet}

\* A sound CPU's voices: an effect is the one that was fired last, unless it was started while
\* the sound was off and that is over; a bed that is heard is held or fading; what is held is the
\* selected bed.
ClipVoice(effect, selected, off) ==
  {v \in Voice : /\ v.name \in Effect \cup Bed /\ (v.loop <=> v.name \in Bed)
                 /\ ~v.loop /\ (off \/ ~v.quiet) => v.name = effect
                 /\ v.loop /\ ~v.quiet => v.role # "named"
                 /\ v.role = "held" => v.loop /\ v.name = selected
                 /\ off => v.quiet}

\* Of two effects the older was started while the sound was off, the younger was not; no bed is
\* younger than the one that is held.
ClipPair ==
  {p \in Voice \X Voice : /\ p[1].loop \/ p[2].loop \/ (p[1].quiet /\ ~p[2].quiet)
                          /\ p[1].role = "held" => ~p[2].loop}

\* The voices of a port's bits: a loop is of a bit that is up and known to loop; one a bit.
PortVoice(up) ==
  {v \in Voice : (v.loop => v.name \in LoopBit \cap up) /\ (v.name \in LoopBit => v.loop)}
PortPair == {p \in Voice \X Voice : p[1].loop /\ p[2].loop => p[1].name # p[2].name}

SoundOK == voices \in Seq(Voice) /\ Len(voices) <= MaxVoices

LatchInv == Arranged(voices, LatchVoice(background, muted), LatchPair)
ClipInv ==
  current \in Effect \cup {None} /\ Arranged(voices, ClipVoice(current, bed, muted), ClipPair)
PortInv == bits \subseteq Range(BitOrder) /\ Arranged(voices, PortVoice(bits \cap looping), PortPair)

AudioInv ==
  /\ TypeOK /\ SoundOK
  /\ model = "latch" => LatchInv
  /\ model \in Clips => ClipInv
  /\ model = "bitports" => PortInv

-----------------------------------------------------------------------------
(* What the operations of the player keep.                                 *)

\* Stopping a sound by name spares a voice of another name.
LEMMA StoppedSpares ==
  ASSUME NEW vs \in Seq(Voice), NEW name, NEW i \in DOMAIN vs, vs[i].name # name
  PROVE  \E k \in DOMAIN Stopped(vs, name) : Stopped(vs, name)[k] = vs[i]
<1> DEFINE S == {j \in DOMAIN vs : vs[j].name # name}
<1>1. Stopped(vs, name) = only(vs, S) /\ S \in SUBSET DOMAIN vs /\ i \in S
  BY DEF Stopped
<1> HIDE DEF S
<1>2. \E k \in DOMAIN only(vs, S) : only(vs, S)[k] = vs[i]
  BY <1>1, OnlyLeaves
<1>3. QED
  BY <1>1, <1>2

\* Stopping a sound by name leaves the others as they were, and none of that name.
LEMMA StoppedIs ==
  ASSUME NEW vs \in Seq(Voice), NEW name
  PROVE  /\ Stopped(vs, name) \in Seq(Voice) /\ Len(Stopped(vs, name)) <= Len(vs)
         /\ \A k \in DOMAIN Stopped(vs, name) :
              /\ Stopped(vs, name)[k].name # name
              /\ \E i \in DOMAIN vs : Stopped(vs, name)[k] = vs[i]
         /\ \A i \in DOMAIN vs :
              vs[i].name # name => \E k \in DOMAIN Stopped(vs, name) : Stopped(vs, name)[k] = vs[i]
         /\ \A Good, Pair :
              Arranged(vs, Good, Pair) => Arranged(Stopped(vs, name), Good, Pair)
<1> DEFINE S == {i \in DOMAIN vs : vs[i].name # name}
<1>1. Stopped(vs, name) = only(vs, S) /\ S \in SUBSET DOMAIN vs
  BY DEF Stopped
<1>2. \A i \in DOMAIN vs : i \in S <=> vs[i].name # name
  OBVIOUS
<1> HIDE DEF S
<1>3. Len(vs) \in Nat
  BY LenProperties
<1>4. only(vs, S) \in Seq(Voice) /\ Len(only(vs, S)) <= Len(vs)
  BY <1>1, <1>3, OnlyKeeps
<1>5. \A k \in DOMAIN only(vs, S) : \E i \in S : only(vs, S)[k] = vs[i]
  BY <1>1, OnlyTracesBack
<1>6. \A i \in S : \E k \in DOMAIN only(vs, S) : only(vs, S)[k] = vs[i]
  BY <1>1, OnlyLeaves
<1>7. \A Good, Pair : Arranged(vs, Good, Pair) => Arranged(only(vs, S), Good, Pair)
  BY <1>1, ThinnedIsArranged
<1>8. QED
  BY <1>1, <1>2, <1>4, <1>5, <1>6, <1>7

\* So does the end of one voice.
LEMMA WithoutIs ==
  ASSUME NEW vs \in Seq(Voice), NEW e \in DOMAIN vs
  PROVE  /\ Without(vs, e) \in Seq(Voice) /\ Len(Without(vs, e)) <= Len(vs)
         /\ \A i \in DOMAIN vs :
              i # e => \E k \in DOMAIN Without(vs, e) : Without(vs, e)[k] = vs[i]
         /\ \A Good, Pair :
              Arranged(vs, Good, Pair) => Arranged(Without(vs, e), Good, Pair)
<1> DEFINE S == DOMAIN vs \ {e}
<1>1. Without(vs, e) = only(vs, S) /\ S \in SUBSET DOMAIN vs
  BY DEF Without
<1>2. \A i \in DOMAIN vs : i \in S <=> i # e
  OBVIOUS
<1> HIDE DEF S
<1>3. Len(vs) \in Nat
  BY LenProperties
<1>4. only(vs, S) \in Seq(Voice) /\ Len(only(vs, S)) <= Len(vs)
  BY <1>1, <1>3, OnlyKeeps
<1>5. \A i \in S : \E k \in DOMAIN only(vs, S) : only(vs, S)[k] = vs[i]
  BY <1>1, OnlyLeaves
<1>6. \A Good, Pair : Arranged(vs, Good, Pair) => Arranged(only(vs, S), Good, Pair)
  BY <1>1, ThinnedIsArranged
<1>7. QED
  BY <1>1, <1>2, <1>4, <1>5, <1>6

\* A voice added to an arrangement it fits in keeps it.
LEMMA AddedIsArranged ==
  ASSUME NEW vs \in Seq(Voice), Len(vs) <= MaxVoices, NEW voice \in Voice,
         NEW Good, NEW Pair, Arranged(vs, Good, Pair), voice \in Good,
         \A i \in DOMAIN vs : <<vs[i], voice>> \in Pair
  PROVE  /\ Added(vs, voice) \in Seq(Voice) /\ Len(Added(vs, voice)) <= MaxVoices
         /\ Arranged(Added(vs, voice), Good, Pair)
<1>1. PICK S \in SUBSET DOMAIN vs : /\ Added(vs, voice) = Append(only(vs, S), voice)
                                    /\ Len(only(vs, S)) < MaxVoices
  BY AddedIs, Zenon
<1> DEFINE ws == only(vs, S)
<1>2. ws \in Seq(Voice) /\ Arranged(ws, Good, Pair)
  BY OnlyKeeps, ThinnedIsArranged
<1>3. \A k \in DOMAIN ws : <<ws[k], voice>> \in Pair
  BY OnlyTracesBack
<1>4. Added(vs, voice) = Append(ws, voice) /\ Len(ws) < MaxVoices
  BY <1>1
<1> HIDE DEF ws
<1>5. Append(ws, voice) \in Seq(Voice) /\ Len(Append(ws, voice)) = Len(ws) + 1 /\ Len(ws) \in Nat
  BY <1>2, AppendProperties, LenProperties
<1>6. Arranged(Append(ws, voice), Good, Pair)
  BY <1>2, <1>3, AppendedIsArranged
<1>7. QED
  BY <1>4, <1>5, <1>6, CapAssumption

\* An added voice is there, and a loop is spared unless it is the first and nothing but loops
\* fill the registry.
LEMMA AddedSpares ==
  ASSUME NEW vs \in Seq(Voice), Len(vs) <= MaxVoices, NEW voice \in Voice
  PROVE  \A i \in DOMAIN vs :
           vs[i].loop => \/ \E k \in DOMAIN Added(vs, voice) : Added(vs, voice)[k] = vs[i]
                         \/ /\ i = 1 /\ Len(vs) = MaxVoices
                            /\ \A j \in DOMAIN vs : vs[j].loop
<1>1. PICK S \in SUBSET DOMAIN vs :
        /\ Added(vs, voice) = Append(only(vs, S), voice)
        /\ \A i \in DOMAIN vs \ S :
             vs[i].loop => i = 1 /\ Len(vs) = MaxVoices /\ \A j \in DOMAIN vs : vs[j].loop
  BY AddedIs, Zenon
<1> DEFINE ws == only(vs, S)
<1>2. ws \in Seq(Voice) /\ \A i \in S : \E k \in DOMAIN ws : ws[k] = vs[i]
  BY OnlyKeeps, OnlyLeaves
<1>3. Added(vs, voice) = Append(ws, voice)
  BY <1>1
<1> HIDE DEF ws
<1>4. \A k \in DOMAIN ws : k \in DOMAIN Append(ws, voice) /\ Append(ws, voice)[k] = ws[k]
  BY <1>2, AppendProperties, LenProperties
<1>5. QED
  BY <1>1, <1>2, <1>3, <1>4

\* play: nothing, or a voice added.
LEMMA PlayedIsArranged ==
  ASSUME NEW vs \in Seq(Voice), Len(vs) <= MaxVoices, muted \in BOOLEAN,
         NEW name \in Name, NEW loop \in BOOLEAN, NEW role \in Role,
         NEW Good, NEW Pair, Arranged(vs, Good, Pair),
         [name |-> name, loop |-> loop, quiet |-> muted, role |-> role] \in Good,
         \A i \in DOMAIN vs :
           <<vs[i], [name |-> name, loop |-> loop, quiet |-> muted, role |-> role]>> \in Pair
  PROVE  /\ PlayedAs(vs, name, loop, role) \in Seq(Voice)
         /\ Len(PlayedAs(vs, name, loop, role)) <= MaxVoices
         /\ Arranged(PlayedAs(vs, name, loop, role), Good, Pair)
<1> DEFINE voice == [name |-> name, loop |-> loop, quiet |-> muted, role |-> role]
<1>1. voice \in Voice
  BY DEF Voice
<1>2. /\ voice \in Good
      /\ \A i \in DOMAIN vs : <<vs[i], voice>> \in Pair
      /\ PlayedAs(vs, name, loop, role) = IF Playable(name) THEN Added(vs, voice) ELSE vs
  BY DEF PlayedAs
<1> HIDE DEF voice
<1>3. /\ Added(vs, voice) \in Seq(Voice) /\ Len(Added(vs, voice)) <= MaxVoices
      /\ Arranged(Added(vs, voice), Good, Pair)
  BY <1>1, <1>2, AddedIsArranged
<1>4. QED
  BY <1>2, <1>3

\* play spares loops as adding does.
LEMMA PlayedSpares ==
  ASSUME NEW vs \in Seq(Voice), Len(vs) <= MaxVoices, muted \in BOOLEAN,
         NEW name \in Name, NEW loop \in BOOLEAN, NEW role \in Role
  PROVE  \A i \in DOMAIN vs :
           vs[i].loop => \/ \E k \in DOMAIN PlayedAs(vs, name, loop, role) :
                              PlayedAs(vs, name, loop, role)[k] = vs[i]
                         \/ /\ i = 1 /\ Len(vs) = MaxVoices
                            /\ \A j \in DOMAIN vs : vs[j].loop
<1> DEFINE voice == [name |-> name, loop |-> loop, quiet |-> muted, role |-> role]
<1>1. voice \in Voice
  BY DEF Voice
<1>2. PlayedAs(vs, name, loop, role) = IF Playable(name) THEN Added(vs, voice) ELSE vs
  BY DEF PlayedAs
<1> HIDE DEF voice
<1>3. CASE Playable(name)
  <2>1. PlayedAs(vs, name, loop, role) = Added(vs, voice)
    BY <1>2, <1>3
  <2>2. \A i \in DOMAIN vs :
          vs[i].loop => \/ \E k \in DOMAIN Added(vs, voice) : Added(vs, voice)[k] = vs[i]
                        \/ /\ i = 1 /\ Len(vs) = MaxVoices
                           /\ \A j \in DOMAIN vs : vs[j].loop
    BY <1>1, AddedSpares
  <2>3. QED
    BY <2>1, <2>2
<1>4. CASE ~Playable(name)
  BY <1>2, <1>4, Zenon
<1>5. QED
  BY <1>3, <1>4, Zenon

-----------------------------------------------------------------------------
(* Donkey Kong's dispatcher.                                               *)

LatchOK(vs, tune) ==
  /\ vs \in Seq(Voice) /\ Len(vs) <= MaxVoices
  /\ Arranged(vs, LatchVoice(tune, muted), LatchPair)

\* What the end of the background leaves fits any background, and no loop that is left is
\* heard, nor is any left while the sound is off.
LEMMA EndedForgets ==
  ASSUME TypeOK, SoundOK, LatchInv
  PROVE  /\ \A tune : LatchOK(Latch!ended(voices), tune)
         /\ \A i \in DOMAIN Latch!ended(voices) :
              Latch!ended(voices)[i].loop => Latch!ended(voices)[i].quiet /\ ~muted
<1> DEFINE ws == Latch!ended(voices)
<1>1. background \in LoopTune \cup {None} /\ muted \in BOOLEAN
  BY DEF TypeOK
<1>2. /\ ws \in Seq(Voice) /\ Len(ws) <= MaxVoices
      /\ Arranged(ws, LatchVoice(background, muted), LatchPair)
      /\ \A i \in DOMAIN ws : ws[i].loop => ws[i].name # background
  <2>1. CASE background = None
    <3>1. ws = voices
      BY <2>1 DEF Latch!ended
    <3>2. \A i \in DOMAIN voices : voices[i].loop => voices[i].name \in LoopTune
      BY DEF LatchInv, Arranged, LatchVoice
    <3>3. QED
      BY <2>1, <3>1, <3>2, NamesAssumption DEF SoundOK, LatchInv
  <2>2. CASE background # None
    <3>1. ws = Stopped(voices, background)
      BY <2>2, LatchPlays DEF Latch!ended
    <3>2. Len(voices) \in Nat /\ MaxVoices \in Nat
      BY LenProperties, CapAssumption DEF SoundOK
    <3>3. Stopped(voices, background) \in Seq(Voice)
      BY StoppedIs DEF SoundOK
    <3>4. Len(Stopped(voices, background)) <= MaxVoices
      <4>1. Len(Stopped(voices, background)) <= Len(voices)
        BY StoppedIs DEF SoundOK
      <4>2. Len(Stopped(voices, background)) \in Nat
        BY <3>3, LenProperties
      <4>3. QED
        BY <3>2, <4>1, <4>2 DEF SoundOK
    <3>5. QED
      BY <3>1, <3>3, <3>4, StoppedIs DEF SoundOK, LatchInv
  <2>3. QED
    BY <2>1, <2>2
<1> HIDE DEF ws
<1>3. \A i \in DOMAIN ws : ws[i].loop => ws[i].quiet /\ ~muted
  BY <1>1, <1>2 DEF Arranged, LatchVoice
<1>4. ASSUME NEW tune PROVE LatchOK(ws, tune)
  <2>1. \A i \in DOMAIN ws : ws[i] \in LatchVoice(background, muted) => ws[i] \in LatchVoice(tune, muted)
    BY <1>1, <1>3 DEF LatchVoice
  <2>2. Arranged(ws, LatchVoice(tune, muted), LatchPair)
    BY <1>2, <2>1, ArrangedWidens
  <2>3. QED
    BY <1>2, <2>2 DEF LatchOK
<1>5. QED
  BY <1>3, <1>4 DEF ws

\* A one-shot goes with any tune.
LEMMA OneShotFits ==
  ASSUME NEW vs, NEW tune, LatchOK(vs, tune), muted \in BOOLEAN,
         NEW name \in PulseTune \cup Circuit \cup Held
  PROVE  LatchOK(Played(vs, name, FALSE), tune)
<1> DEFINE voice == [name |-> name, loop |-> FALSE, quiet |-> muted, role |-> "named"]
<1>1. vs \in Seq(Voice) /\ Len(vs) <= MaxVoices
      /\ Arranged(vs, LatchVoice(tune, muted), LatchPair)
  BY DEF LatchOK
<1>2. name \in Name /\ "named" \in Role /\ name \notin LoopTune
  BY NamesAssumption DEF Name, Role
<1>3. voice \in Voice
  BY <1>2 DEF Voice
<1>4. voice \in LatchVoice(tune, muted)
  BY <1>2, <1>3 DEF LatchVoice
<1>5. \A i \in DOMAIN vs : vs[i] \in Voice
  BY <1>1, LenProperties, ElementOfSeq
<1>6. \A i \in DOMAIN vs : <<vs[i], voice>> \in LatchPair
  BY <1>3, <1>5 DEF LatchPair
<1>7. QED
  BY <1>1, <1>2, <1>4, <1>6, PlayedIsArranged DEF LatchOK, Played

\* A latch write ends the old background and begins the new one.
LEMMA LatchWriteKeeps ==
  ASSUME TypeOK, SoundOK, LatchInv, Latch!LatchWrite
  PROVE  LatchOK(voices', background') /\ background' \in LoopTune \cup {None} /\ muted' = muted
<1>1. muted \in BOOLEAN /\ \A tune : LatchOK(Latch!ended(voices), tune)
  BY EndedForgets DEF TypeOK
<1>2. CASE Latch!LatchSilence
  BY <1>1, <1>2 DEF Latch!LatchSilence
<1>3. ASSUME NEW tune \in LoopTune, Latch!LatchLoop(tune)
      PROVE  LatchOK(voices', tune) /\ background' = tune /\ muted' = muted
  <2> DEFINE ws == Latch!ended(voices)
             voice == [name |-> tune, loop |-> TRUE, quiet |-> muted, role |-> "named"]
  <2>1. voices' = Played(ws, tune, TRUE) /\ background' = tune /\ muted' = muted
    BY <1>3, LatchPlays DEF Latch!LatchLoop
  <2>2. tune \in Name /\ "named" \in Role
    BY DEF Name, Role
  <2>3. voice \in Voice
    BY <1>1, <2>2 DEF Voice
  <2>4. voice \in LatchVoice(tune, muted)
    BY <2>3 DEF LatchVoice
  <2>5. LatchOK(ws, tune) /\ \A i \in DOMAIN ws : ws[i].loop => ws[i].quiet /\ ~muted
    BY EndedForgets
  <2> HIDE DEF ws
  <2>6. /\ ws \in Seq(Voice) /\ Len(ws) <= MaxVoices
        /\ Arranged(ws, LatchVoice(tune, muted), LatchPair)
    BY <2>5 DEF LatchOK
  <2>7. \A i \in DOMAIN ws : ws[i] \in Voice
    BY <2>6, LenProperties, ElementOfSeq
  <2>8. \A i \in DOMAIN ws : <<ws[i], voice>> \in LatchPair
    BY <2>3, <2>5, <2>7 DEF LatchPair
  <2>9. LatchOK(Played(ws, tune, TRUE), tune)
    BY <1>1, <2>2, <2>4, <2>6, <2>8, PlayedIsArranged DEF LatchOK, Played
  <2>10. QED
    BY <2>1, <2>9 DEF LatchOK
<1>4. ASSUME NEW tune \in PulseTune, Latch!LatchPulse(tune)
      PROVE  LatchOK(voices', None) /\ background' = None /\ muted' = muted
  <2>1. voices' = Played(Latch!ended(voices), tune, FALSE) /\ background' = None /\ muted' = muted
    BY <1>4, LatchPlays DEF Latch!LatchPulse
  <2>2. LatchOK(Played(Latch!ended(voices), tune, FALSE), None)
    BY <1>1, OneShotFits
  <2>3. QED
    BY <2>1, <2>2 DEF LatchOK
<1>5. QED
  BY <1>2, <1>3, <1>4 DEF Latch!LatchWrite

\* What the end of a name's voices leaves still fits.
LEMMA StoppedFits ==
  ASSUME NEW vs, NEW tune, LatchOK(vs, tune), NEW name
  PROVE  LatchOK(Stopped(vs, name), tune)
<1>1. /\ vs \in Seq(Voice) /\ Len(vs) <= MaxVoices
      /\ Arranged(vs, LatchVoice(tune, muted), LatchPair)
  BY DEF LatchOK
<1>2. /\ Stopped(vs, name) \in Seq(Voice) /\ Len(Stopped(vs, name)) <= Len(vs)
      /\ Arranged(Stopped(vs, name), LatchVoice(tune, muted), LatchPair)
  BY <1>1, StoppedIs
<1>3. Len(vs) \in Nat /\ Len(Stopped(vs, name)) \in Nat /\ MaxVoices \in Nat
  BY <1>1, <1>2, LenProperties, CapAssumption
<1>4. Len(Stopped(vs, name)) <= MaxVoices
  BY <1>1, <1>2, <1>3
<1>5. QED
  BY <1>2, <1>4 DEF LatchOK

\* Triggers and the IRQ line start and stop one-shots only.
LEMMA EffectsFit ==
  ASSUME TypeOK, SoundOK, LatchInv
  PROVE  /\ \A tune \in PulseTune :
              Latch!IrqRises(tune) => LatchOK(voices', background)
         /\ \A name \in Circuit \cup Held :
              Latch!TriggerRises(name) \/ Latch!TriggerFalls(name) => LatchOK(voices', background)
<1>1. LatchOK(voices, background) /\ muted \in BOOLEAN
  BY DEF LatchOK, SoundOK, LatchInv, TypeOK
<1>2. ASSUME NEW tune \in PulseTune, Latch!IrqRises(tune) PROVE LatchOK(voices', background)
  <2>1. voices' = Played(voices, tune, FALSE)
    BY <1>2, LatchPlays DEF Latch!IrqRises
  <2>2. QED
    BY <1>1, <2>1, OneShotFits
<1>3. ASSUME NEW name \in Circuit \cup Held, Latch!TriggerRises(name)
      PROVE  LatchOK(voices', background)
  <2> DEFINE ws == Latch!retriggered(voices, name)
  <2>1. voices' = Played(ws, name, FALSE)
    BY <1>3, LatchPlays DEF Latch!TriggerRises
  <2>2. ws = Stopped(voices, name) \/ ws = voices
    BY LatchPlays DEF Latch!retriggered
  <2>3. LatchOK(ws, background)
    BY <1>1, <2>2, StoppedFits
  <2> HIDE DEF ws
  <2>4. QED
    BY <1>1, <2>1, <2>3, OneShotFits
<1>4. ASSUME NEW name \in Circuit \cup Held, Latch!TriggerFalls(name)
      PROVE  LatchOK(voices', background)
  <2>1. voices' = Stopped(voices, name) \/ voices' = voices
    BY <1>4, LatchPlays DEF Latch!TriggerFalls
  <2>2. QED
    BY <1>1, <2>1, StoppedFits
<1>5. QED
  BY <1>2, <1>3, <1>4

\* The mute button forgets the background: off, nothing is left of it; on, nothing is heard.
LEMMA LatchMuteKeeps ==
  ASSUME TypeOK, SoundOK, LatchInv, Latch!ToggleMute
  PROVE  SoundOK' /\ LatchInv' /\ muted' \in BOOLEAN /\ background' = None
<1>1. /\ muted' = ~muted /\ background' = None
      /\ voices' = IF muted THEN voices ELSE <<>>
  BY DEF Latch!ToggleMute, Latch!MuteSwitch, Latch!kept
<1>2. CASE muted
  <2>1. voices' = voices /\ muted' = FALSE
    BY <1>1, <1>2
  <2>2. \A i \in DOMAIN voices :
          voices[i] \in LatchVoice(background, muted) => voices[i] \in LatchVoice(None, FALSE)
    BY <1>2 DEF LatchVoice
  <2>3. Arranged(voices, LatchVoice(None, FALSE), LatchPair)
    BY <2>2, ArrangedWidens DEF LatchInv
  <2>4. QED
    BY <1>1, <2>1, <2>3 DEF LatchInv, SoundOK
<1>3. CASE ~muted
  <2>1. voices' = <<>>
    BY <1>1, <1>3
  <2>2. Len(<<>>) = 0 /\ <<>> \in Seq(Voice) /\ DOMAIN <<>> = {}
    OBVIOUS
  <2>3. 0 <= MaxVoices
    BY CapAssumption
  <2>4. QED
    BY <1>1, <2>1, <2>2, <2>3 DEF LatchInv, SoundOK, Arranged, TypeOK
<1>4. QED
  BY <1>2, <1>3 DEF TypeOK

\* The events of the latch keep its invariant.
LEMMA LatchEventKeeps ==
  ASSUME AudioInv, LatchEvent
  PROVE  SoundOK' /\ LatchInv' /\ muted' \in BOOLEAN /\ background' \in LoopTune \cup {None}
<1>1. TypeOK /\ SoundOK /\ LatchInv /\ Latch!Next
  BY DEF AudioInv, LatchEvent
<1>2. CASE Latch!LatchWrite
  <2>1. LatchOK(voices', background') /\ background' \in LoopTune \cup {None} /\ muted' = muted
    BY <1>1, <1>2, LatchWriteKeeps
  <2>2. QED
    BY <1>1, <2>1 DEF LatchOK, SoundOK, LatchInv, TypeOK
<1>3. CASE Latch!ToggleMute
  BY <1>1, <1>3, LatchMuteKeeps
<1>4. ASSUME NEW tune \in PulseTune, Latch!IrqRises(tune)
      PROVE  SoundOK' /\ LatchInv' /\ muted' \in BOOLEAN /\ background' \in LoopTune \cup {None}
  <2>1. LatchOK(voices', background) /\ background' = background /\ muted' = muted
    BY <1>1, <1>4, EffectsFit DEF Latch!IrqRises
  <2>2. QED
    BY <1>1, <2>1 DEF LatchOK, SoundOK, LatchInv, TypeOK
<1>5. ASSUME NEW name \in Circuit \cup Held, Latch!TriggerRises(name) \/ Latch!TriggerFalls(name)
      PROVE  SoundOK' /\ LatchInv' /\ muted' \in BOOLEAN /\ background' \in LoopTune \cup {None}
  <2>1. LatchOK(voices', background) /\ background' = background /\ muted' = muted
    BY <1>1, <1>5, EffectsFit DEF Latch!TriggerRises, Latch!TriggerFalls
  <2>2. QED
    BY <1>1, <2>1 DEF LatchOK, SoundOK, LatchInv, TypeOK
<1>6. QED
  BY <1>1, <1>2, <1>3, <1>4, <1>5 DEF Latch!Next

-----------------------------------------------------------------------------
(* The dispatcher of boards with a sound CPU, with or without a control    *)
(* port: a bed is selected, an effect may fire.                            *)

ClipOK(vs, effect, selected, off) ==
  /\ vs \in Seq(Voice) /\ Len(vs) <= MaxVoices
  /\ Arranged(vs, ClipVoice(effect, selected, off), ClipPair)

NoneHeld(vs) == \A i \in DOMAIN vs : vs[i].role # "held"

Relabelled(vs, role) ==
  [i \in DOMAIN vs |-> IF vs[i].role = "held" THEN [vs[i] EXCEPT !.role = role] ELSE vs[i]]

Turned(vs, target) == IF target = bed THEN vs ELSE Beds!crossfaded(vs, target)

ClipPlays(target, command, fires) ==
  /\ voices' = IF fires THEN Beds!fired(Turned(voices, target), command)
                        ELSE Turned(voices, target)
  /\ current' = IF fires THEN command ELSE current
  /\ bed' = target
  /\ UNCHANGED <<ctx, decoded, muted>>

\* Whatever the map, an event of these boards is one of three.
LEMMA ClipEvents ==
  ASSUME TypeOK, StrobedEvent \/ BedEvent
  PROVE  \/ \E target \in Bed \cup {None}, command \in Effect, fires \in BOOLEAN :
              ClipPlays(target, command, fires)
         \/ \E target \in Bed \cup {None} : \A command : ClipPlays(target, command, FALSE)
         \/ Beds!FadeEnds \/ Beds!ToggleMute
<1>1. bed \in Bed \cup {None}
  BY DEF TypeOK
<1>2. ASSUME NEW command, Strobed!LatchWrite(command)
      PROVE  \E target \in Bed \cup {None} : \A c : ClipPlays(target, c, FALSE)
  <2>1. Strobed!Target(command) \in Bed \cup {None}
    BY <1>1 DEF Strobed!Target
  <2>2. \A c : ClipPlays(Strobed!Target(command), c, FALSE)
    BY <1>2, StrobedPlays DEF Strobed!LatchWrite, ClipPlays, Turned
  <2>3. QED
    BY <2>1, <2>2
<1>3. ASSUME NEW level, Strobed!ControlWrite(level)
      PROVE  \/ \E target \in Bed \cup {None}, command \in Effect, fires \in BOOLEAN :
                  ClipPlays(target, command, fires)
             \/ \E target \in Bed \cup {None} : \A command : ClipPlays(target, command, FALSE)
  <2> DEFINE fires == ctrl /\ ~level /\ latched \in Effect
  <2>1. Turned(voices, bed) = voices
    BY DEF Turned
  <2>2. CASE fires
    <3>1. ClipPlays(bed, latched, TRUE) /\ latched \in Effect
      BY <1>3, <2>1, <2>2, StrobedPlays DEF Strobed!ControlWrite, ClipPlays
    <3>2. QED
      BY <1>1, <3>1
  <2>3. CASE ~fires
    <3>1. \A c : ClipPlays(bed, c, FALSE)
      BY <1>3, <2>1, <2>3, StrobedPlays DEF Strobed!ControlWrite, ClipPlays
    <3>2. QED
      BY <1>1, <3>1
  <2>4. QED
    BY <2>2, <2>3
<1>4. ASSUME NEW command, Beds!LatchWrite(command)
      PROVE  \/ \E target \in Bed \cup {None}, c \in Effect, fires \in BOOLEAN :
                  ClipPlays(target, c, fires)
             \/ \E target \in Bed \cup {None} : \A c : ClipPlays(target, c, FALSE)
  <2>1. Beds!Target(command) \in Bed \cup {None}
    BY <1>1 DEF Beds!Target
  <2>2. CASE command \in Effect
    <3>1. ClipPlays(Beds!Target(command), command, TRUE)
      BY <1>4, <2>2 DEF Beds!LatchWrite, ClipPlays, Turned
    <3>2. QED
      BY <2>1, <2>2, <3>1
  <2>3. CASE command \notin Effect
    <3>1. \A c : ClipPlays(Beds!Target(command), c, FALSE)
      BY <1>4, <2>3 DEF Beds!LatchWrite, ClipPlays, Turned
    <3>2. QED
      BY <2>1, <3>1
  <2>4. QED
    BY <2>2, <2>3
<1>5. ~ \E level \in BOOLEAN : Beds!ControlWrite(level)
  BY DEF Beds!ControlWrite
<1>6. CASE StrobedEvent
  BY <1>2, <1>3, <1>6, StrobedPlays DEF StrobedEvent, Strobed!Next
<1>7. CASE BedEvent
  BY <1>4, <1>5, <1>7 DEF BedEvent, Beds!Next
<1>8. QED
  BY <1>6, <1>7

\* A change of what the caller holds: no voice is held, so any bed may be selected.
LEMMA RelabelledFits ==
  ASSUME NEW vs, NEW effect, NEW selected, NEW off \in BOOLEAN,
         ClipOK(vs, effect, selected, off), NEW role \in {"named", "fading"},
         role = "fading" \/ \A i \in DOMAIN vs : vs[i].quiet
  PROVE  /\ \A target : ClipOK(Relabelled(vs, role), effect, target, off)
         /\ NoneHeld(Relabelled(vs, role))
         /\ \A i \in DOMAIN Relabelled(vs, role) :
              i \in DOMAIN vs /\ Relabelled(vs, role)[i].quiet = vs[i].quiet
<1> DEFINE ws == Relabelled(vs, role)
<1>1. vs \in Seq(Voice) /\ Len(vs) \in Nat /\ DOMAIN vs = 1 .. Len(vs) /\ \A i \in DOMAIN vs : vs[i] \in Voice
  BY LenProperties, ElementOfSeq DEF ClipOK
<1>2. DOMAIN ws = DOMAIN vs
  BY DEF Relabelled
<1>3. ASSUME NEW i \in DOMAIN vs
      PROVE  /\ ws[i] \in Voice
             /\ ws[i].name = vs[i].name /\ ws[i].loop = vs[i].loop /\ ws[i].quiet = vs[i].quiet
             /\ ws[i].role = IF vs[i].role = "held" THEN role ELSE vs[i].role
  <2>1. ws[i] = IF vs[i].role = "held" THEN [vs[i] EXCEPT !.role = role] ELSE vs[i]
    BY DEF Relabelled
  <2>2. vs[i] \in Voice /\ role \in Role
    BY <1>1 DEF Role
  <2> HIDE DEF ws
  <2>3. QED
    BY <2>1, <2>2 DEF Voice
<1>4. ws = [i \in DOMAIN vs |-> ws[i]]
  BY DEF Relabelled
<1> HIDE DEF ws
<1>5. ws \in Seq(Voice) /\ Len(ws) = Len(vs)
  <2>1. ws \in [1 .. Len(vs) -> Voice]
    BY <1>1, <1>3, <1>4, Zenon
  <2>2. QED
    BY <1>1, <2>1
<1>6. /\ \A i \in DOMAIN vs : vs[i] \in ClipVoice(effect, selected, off)
      /\ \A i, j \in DOMAIN vs : i < j => <<vs[i], vs[j]>> \in ClipPair
  BY DEF ClipOK, Arranged
<1>7. \A i \in DOMAIN vs : ws[i].role # "held"
  BY <1>3
<1>8. ASSUME NEW target, NEW i \in DOMAIN vs PROVE ws[i] \in ClipVoice(effect, target, off)
  BY <1>3, <1>6, <1>7 DEF ClipVoice
<1>9. ASSUME NEW i \in DOMAIN vs, NEW j \in DOMAIN vs, i < j PROVE <<ws[i], ws[j]>> \in ClipPair
  <2>1. <<vs[i], vs[j]>> \in ClipPair
    BY <1>6, <1>9
  <2>2. vs[i].loop \/ vs[j].loop \/ (vs[i].quiet /\ ~vs[j].quiet)
    BY <2>1 DEF ClipPair
  <2>3. ws[i].loop \/ ws[j].loop \/ (ws[i].quiet /\ ~ws[j].quiet)
    BY <1>3, <2>2
  <2>4. ws[i] \in Voice /\ ws[j] \in Voice /\ ws[i].role # "held"
    BY <1>3, <1>7
  <2>5. QED
    BY <2>3, <2>4 DEF ClipPair
<1>10. \A target : Arranged(ws, ClipVoice(effect, target, off), ClipPair)
  BY <1>2, <1>8, <1>9 DEF Arranged
<1>11. QED
  BY <1>2, <1>3, <1>5, <1>7, <1>10 DEF ClipOK, NoneHeld, ws

\* A bed that takes over: the one before it fades.
LEMMA TurnedFits ==
  ASSUME TypeOK, SoundOK, ClipInv, NEW target \in Bed \cup {None}
  PROVE  ClipOK(Turned(voices, target), current, target, muted)
<1>1. ClipOK(voices, current, bed, muted) /\ muted \in BOOLEAN
  BY DEF TypeOK, SoundOK, ClipInv, ClipOK
<1> DEFINE ws == Relabelled(voices, "fading")
<1>2. Beds!faded(voices) = ws
  BY DEF Beds!faded, Relabelled
<1>3. ClipOK(ws, current, target, muted) /\ NoneHeld(ws)
  BY <1>1, RelabelledFits
<1>4. Turned(voices, target) = IF target = bed THEN voices
                               ELSE IF target = None THEN ws
                               ELSE PlayedAs(ws, target, TRUE, "held")
  BY <1>2, ClipsPlay DEF Turned, Beds!crossfaded
<1> HIDE DEF ws
<1>5. ASSUME target # None PROVE ClipOK(PlayedAs(ws, target, TRUE, "held"), current, target, muted)
  <2> DEFINE voice == [name |-> target, loop |-> TRUE, quiet |-> muted, role |-> "held"]
  <2>1. target \in Bed /\ target \in Name /\ "held" \in Role
    BY <1>5 DEF Name, Role
  <2>2. voice \in Voice
    BY <1>1, <2>1 DEF Voice
  <2>3. voice \in ClipVoice(current, target, muted)
    BY <2>1, <2>2 DEF ClipVoice
  <2>4. /\ ws \in Seq(Voice) /\ Len(ws) <= MaxVoices
        /\ Arranged(ws, ClipVoice(current, target, muted), ClipPair)
    BY <1>3 DEF ClipOK
  <2>5. \A i \in DOMAIN ws : ws[i] \in Voice /\ ws[i].role # "held"
    BY <1>3, <2>4, LenProperties, ElementOfSeq DEF NoneHeld
  <2>6. \A i \in DOMAIN ws : <<ws[i], voice>> \in ClipPair
    BY <2>2, <2>5 DEF ClipPair
  <2>7. QED
    BY <1>1, <2>1, <2>3, <2>4, <2>6, PlayedIsArranged DEF ClipOK
<1>6. QED
  BY <1>1, <1>3, <1>4, <1>5

\* An effect that fires ends the one before it, unless that one was forgotten.
LEMMA FiredFits ==
  ASSUME NEW vs, NEW selected, ClipOK(vs, current, selected, muted), muted \in BOOLEAN,
         current \in Effect \cup {None}, NEW command \in Effect
  PROVE  ClipOK(Beds!fired(vs, command), command, selected, muted)
<1> DEFINE ws == IF current = None THEN vs ELSE Stopped(vs, current)
<1>1. Beds!fired(vs, command) = PlayedAs(ws, command, FALSE, "named")
  BY ClipsPlay DEF Beds!fired, Played
<1>2. /\ vs \in Seq(Voice) /\ Len(vs) <= MaxVoices
      /\ Arranged(vs, ClipVoice(current, selected, muted), ClipPair)
  BY DEF ClipOK
<1>3. /\ ws \in Seq(Voice) /\ Len(ws) <= MaxVoices
      /\ Arranged(ws, ClipVoice(current, selected, muted), ClipPair)
      /\ current # None => \A i \in DOMAIN ws : ws[i].name # current
  <2>1. CASE current = None
    BY <1>2, <2>1
  <2>2. CASE current # None
    <3>1. /\ Stopped(vs, current) \in Seq(Voice) /\ Len(Stopped(vs, current)) <= Len(vs)
          /\ Arranged(Stopped(vs, current), ClipVoice(current, selected, muted), ClipPair)
          /\ \A i \in DOMAIN Stopped(vs, current) : Stopped(vs, current)[i].name # current
      BY <1>2, StoppedIs
    <3>2. Len(vs) \in Nat /\ Len(Stopped(vs, current)) \in Nat /\ MaxVoices \in Nat
      BY <1>2, <3>1, LenProperties, CapAssumption
    <3>3. Len(Stopped(vs, current)) <= MaxVoices
      BY <1>2, <3>1, <3>2
    <3>4. QED
      BY <2>2, <3>1, <3>3
  <2>3. QED
    BY <2>1, <2>2
<1> HIDE DEF ws
<1>4. \A i \in DOMAIN ws : ws[i] \in ClipVoice(current, selected, muted)
  BY <1>3 DEF Arranged
<1>5. \A i \in DOMAIN ws : ws[i].loop \/ (ws[i].quiet /\ ~muted)
  BY <1>3, <1>4, NamesAssumption DEF ClipVoice
<1>6. \A i \in DOMAIN ws : ws[i] \in ClipVoice(command, selected, muted)
  BY <1>4, <1>5 DEF ClipVoice
<1>7. Arranged(ws, ClipVoice(command, selected, muted), ClipPair)
  BY <1>3, <1>6 DEF Arranged
<1> DEFINE voice == [name |-> command, loop |-> FALSE, quiet |-> muted, role |-> "named"]
<1>8. command \in Name /\ "named" \in Role /\ command \notin Bed
  BY NamesAssumption DEF Name, Role
<1>9. voice \in Voice
  BY <1>8 DEF Voice
<1>10. voice \in ClipVoice(command, selected, muted)
  BY <1>8, <1>9 DEF ClipVoice
<1>11. \A i \in DOMAIN ws : ws[i] \in Voice
  BY <1>3, LenProperties, ElementOfSeq
<1>12. \A i \in DOMAIN ws : <<ws[i], voice>> \in ClipPair
  BY <1>5, <1>9, <1>11 DEF ClipPair
<1>13. QED
  BY <1>1, <1>3, <1>7, <1>8, <1>10, <1>12, PlayedIsArranged DEF ClipOK

\* A bed selected and an effect fired, or not.
LEMMA ClipPlaysKeeps ==
  ASSUME TypeOK, SoundOK, ClipInv, NEW target \in Bed \cup {None}, NEW command,
         NEW fires \in BOOLEAN, ClipPlays(target, command, fires), fires => command \in Effect
  PROVE  SoundOK' /\ ClipInv' /\ muted' = muted /\ bed' = target
<1>1. ClipOK(Turned(voices, target), current, target, muted)
  BY TurnedFits
<1>2. ClipOK(voices', current', target, muted) /\ current' \in Effect \cup {None}
  <2>1. CASE fires
    <3>1. voices' = Beds!fired(Turned(voices, target), command) /\ current' = command
      BY <2>1 DEF ClipPlays
    <3>2. muted \in BOOLEAN /\ current \in Effect \cup {None} /\ command \in Effect
      BY <2>1 DEF TypeOK, ClipInv
    <3>3. QED
      BY <1>1, <3>1, <3>2, FiredFits
  <2>2. CASE ~fires
    <3>1. voices' = Turned(voices, target) /\ current' = current
      BY <2>2 DEF ClipPlays
    <3>2. QED
      BY <1>1, <3>1 DEF ClipInv
  <2>3. QED
    BY <2>1, <2>2
<1>3. muted' = muted /\ bed' = target
  BY DEF ClipPlays
<1>4. QED
  BY <1>2, <1>3 DEF ClipOK, SoundOK, ClipInv

\* The mute button: off, nothing is left; on, the selected bed is held again, and everything
\* else there is was never heard.
LEMMA ClipMuteKeeps ==
  ASSUME TypeOK, SoundOK, ClipInv, Beds!ToggleMute
  PROVE  SoundOK' /\ ClipInv' /\ muted' \in BOOLEAN /\ bed' = bed
<1>1. muted' = ~muted /\ current' = None /\ bed' = bed /\ muted \in BOOLEAN
  BY DEF Beds!ToggleMute, Beds!MuteSwitch, TypeOK
<1>2. CASE ~muted
  <2>1. voices' = <<>>
    <3>1. Beds!kept(voices) = <<>>
      BY <1>2 DEF Beds!kept
    <3>2. voices' = Beds!kept(voices)
      BY <1>2 DEF Beds!ToggleMute
    <3>3. QED
      BY <3>1, <3>2
  <2>2. Len(<<>>) = 0 /\ <<>> \in Seq(Voice) /\ DOMAIN <<>> = {}
    OBVIOUS
  <2>3. 0 <= MaxVoices
    BY CapAssumption
  <2>4. QED
    BY <1>1, <2>1, <2>2, <2>3 DEF ClipInv, SoundOK, Arranged
<1>3. CASE muted
  <2> DEFINE ws == Relabelled(voices, "named")
             voice == [name |-> bed, loop |-> TRUE, quiet |-> FALSE, role |-> "held"]
  <2>1. voices' = IF bed = None THEN voices
                  ELSE IF Playable(bed) THEN Added(ws, voice) ELSE ws
    <3>1. Beds!dropped(voices) = ws
      BY DEF Beds!dropped, Relabelled
    <3>2. Beds!Playable(bed) <=> Playable(bed)
      BY DEF Beds!Playable, Playable
    <3>3. QED
      BY <1>3, <3>1, <3>2, ClipsPlay DEF Beds!ToggleMute
  <2>2. ClipOK(voices, current, bed, muted)
    BY DEF SoundOK, ClipInv, ClipOK
  <2>3. \A i \in DOMAIN voices : voices[i].quiet
    BY <1>3, <2>2 DEF ClipOK, Arranged, ClipVoice
  <2>4. ClipOK(ws, current, bed, muted) /\ NoneHeld(ws) /\ \A i \in DOMAIN ws : ws[i].quiet
    BY <1>1, <2>2, <2>3, RelabelledFits
  <2> HIDE DEF ws
  <2>5. ASSUME NEW vs, ClipOK(vs, current, bed, muted), \A i \in DOMAIN vs : vs[i].quiet
        PROVE  ClipOK(vs, None, bed, FALSE)
    <3>1. \A i \in DOMAIN vs : vs[i] \in ClipVoice(None, bed, FALSE)
      BY <2>5 DEF ClipOK, Arranged, ClipVoice
    <3>2. QED
      BY <2>5, <3>1 DEF ClipOK, Arranged
  <2>6. ASSUME bed # None PROVE ClipOK(Added(ws, voice), None, bed, FALSE)
    <3>1. bed \in Bed /\ bed \in Name /\ "held" \in Role
      BY <2>6 DEF Name, Role, TypeOK
    <3>2. voice \in Voice
      BY <3>1 DEF Voice
    <3>3. voice \in ClipVoice(None, bed, FALSE)
      BY <3>1, <3>2 DEF ClipVoice
    <3>4. /\ ws \in Seq(Voice) /\ Len(ws) <= MaxVoices
          /\ Arranged(ws, ClipVoice(None, bed, FALSE), ClipPair)
      BY <2>4, <2>5 DEF ClipOK
    <3>5. \A i \in DOMAIN ws : ws[i] \in Voice /\ ws[i].role # "held"
      BY <2>4, <3>4, LenProperties, ElementOfSeq DEF NoneHeld
    <3>6. \A i \in DOMAIN ws : <<ws[i], voice>> \in ClipPair
      BY <3>2, <3>5 DEF ClipPair
    <3>7. QED
      BY <3>2, <3>3, <3>4, <3>6, AddedIsArranged DEF ClipOK
  <2>7. ClipOK(voices', None, bed, FALSE)
    BY <2>1, <2>2, <2>3, <2>4, <2>5, <2>6
  <2>8. QED
    BY <1>1, <1>3, <2>7 DEF ClipOK, SoundOK, ClipInv
<1>4. QED
  BY <1>2, <1>3

\* The events of these boards keep their invariant.
LEMMA ClipEventKeeps ==
  ASSUME AudioInv, StrobedEvent \/ BedEvent
  PROVE  SoundOK' /\ ClipInv' /\ muted' \in BOOLEAN /\ bed' \in Bed \cup {None}
<1>1. TypeOK /\ SoundOK /\ ClipInv /\ muted \in BOOLEAN /\ bed \in Bed \cup {None}
  BY DEF AudioInv, StrobedEvent, BedEvent, Clips, TypeOK
<1>2. ASSUME NEW target \in Bed \cup {None}, NEW command, NEW fires \in BOOLEAN,
             ClipPlays(target, command, fires), fires => command \in Effect
      PROVE  SoundOK' /\ ClipInv' /\ muted' \in BOOLEAN /\ bed' \in Bed \cup {None}
  BY <1>1, <1>2, ClipPlaysKeeps
<1>3. CASE Beds!FadeEnds
  <2>1. PICK i \in Beds!Fading(voices) : voices' = Beds!Without(voices, i)
    BY <1>3 DEF Beds!FadeEnds
  <2>2. i \in DOMAIN voices /\ voices' = Without(voices, i)
    BY <2>1, ClipsPlay DEF Beds!Fading
  <2>3. /\ Without(voices, i) \in Seq(Voice) /\ Len(Without(voices, i)) <= Len(voices)
        /\ Arranged(Without(voices, i), ClipVoice(current, bed, muted), ClipPair)
    BY <1>1, <2>2, WithoutIs DEF SoundOK, ClipInv
  <2>4. Len(Without(voices, i)) \in Nat /\ Len(voices) \in Nat /\ MaxVoices \in Nat
    BY <1>1, <2>3, LenProperties, CapAssumption DEF SoundOK
  <2>5. Len(Without(voices, i)) <= MaxVoices
    BY <1>1, <2>3, <2>4 DEF SoundOK
  <2>6. current' = current /\ bed' = bed /\ muted' = muted
    BY <1>3 DEF Beds!FadeEnds, Beds!dispatcher
  <2>7. QED
    BY <1>1, <2>2, <2>3, <2>5, <2>6 DEF SoundOK, ClipInv
<1>4. CASE Beds!ToggleMute
  BY <1>1, <1>4, ClipMuteKeeps
<1>5. QED
  BY <1>1, <1>2, <1>3, <1>4, ClipEvents

-----------------------------------------------------------------------------
(* Space Invaders' dispatcher.                                             *)

LEMMA OrderIs ==
  /\ Len(BitOrder) \in Nat /\ DOMAIN BitOrder = 1 .. Len(BitOrder)
  /\ \A n \in 1 .. Len(BitOrder) : BitOrder[n] \in Range(BitOrder)
  /\ \A bit \in Range(BitOrder) : \E n \in 1 .. Len(BitOrder) : BitOrder[n] = bit
<1>1. BitOrder \in Seq(Range(BitOrder))
  BY PortAssumption
<1>2. Len(BitOrder) \in Nat /\ DOMAIN BitOrder = 1 .. Len(BitOrder)
  BY <1>1, LenProperties
<1>3. QED
  BY <1>1, <1>2 DEF Range

LEMMA HeardBitIs ==
  ASSUME NEW vs, NEW on, NEW bit
  PROVE  Ports!heardBit(vs, on, bit) =
           IF bit \in Ports!Starts(on) THEN Played(vs, bit, TRUE)
           ELSE IF bit \in Ports!Ends(on) THEN Stopped(vs, bit)
           ELSE IF bit \in (on \ bits) \ LoopBit THEN Played(vs, bit, FALSE) ELSE vs
<1>1. Ports!Played(vs, bit, TRUE) = Played(vs, bit, TRUE)
  BY PortsPlay, Zenon
<1>2. Ports!Played(vs, bit, FALSE) = Played(vs, bit, FALSE)
  BY PortsPlay, Zenon
<1>3. Ports!Stopped(vs, bit) = Stopped(vs, bit)
  BY PortsPlay, Zenon
<1>4. /\ bit \in Ports!Starts(on) => bit \in LoopBit /\ bit \in on \ bits
      /\ bit \in Ports!Ends(on) => bit \in LoopBit /\ bit \in bits \ on
  BY DEF Ports!Starts, Ports!Ends
<1>5. QED
  BY <1>1, <1>2, <1>3, <1>4 DEF Ports!heardBit

\* The voices after each bit of a write.
InOrder(f, vs, on, n) ==
  /\ DOMAIN f = 0 .. n /\ f[0] = vs
  /\ \A k \in 1 .. n : f[k] = Ports!heardBit(f[k - 1], on, BitOrder[k])

\* They exist, and what a write leaves is the last.
LEMMA HeardInOrder ==
  ASSUME NEW vs, NEW on
  PROVE  \E f : InOrder(f, vs, on, Len(BitOrder)) /\ Ports!heard(vs, on) = f[Len(BitOrder)]
<1> DEFINE N == Len(BitOrder)
           Eq(f) == f = [n \in 0 .. N |->
                           IF n = 0 THEN vs ELSE Ports!heardBit(f[n - 1], on, BitOrder[n])]
           Bits == {n \in 0 .. N : \E f : InOrder(f, vs, on, n)}
<1>0. N \in Nat
  BY OrderIs
<1>1. 0 \in Bits
  <2>1. InOrder([n \in 0 .. 0 |-> vs], vs, on, 0)
    BY DEF InOrder
  <2>2. QED
    BY <1>0, <2>1
<1>2. ASSUME NEW n \in 0 .. (N - 1), n \in Bits PROVE n + 1 \in Bits
  <2>1. PICK f : InOrder(f, vs, on, n)
    BY <1>2
  <2> DEFINE g == [k \in 0 .. (n + 1) |->
                     IF k = n + 1 THEN Ports!heardBit(f[n], on, BitOrder[n + 1]) ELSE f[k]]
  <2>2. /\ DOMAIN g = 0 .. (n + 1)
        /\ \A k \in 0 .. n : g[k] = f[k]
        /\ g[n + 1] = Ports!heardBit(f[n], on, BitOrder[n + 1])
    <3>1. \A k \in 0 .. n : k \in 0 .. (n + 1) /\ k # n + 1
      BY <1>0
    <3>2. n + 1 \in 0 .. (n + 1)
      BY <1>0
    <3>3. QED
      BY <3>1, <3>2, Zenon
  <2> HIDE DEF g
  <2>3. ASSUME NEW k \in 1 .. (n + 1)
        PROVE  \/ k \in 1 .. n /\ k \in 0 .. n /\ k - 1 \in 0 .. n
               \/ k = n + 1 /\ k - 1 = n /\ n \in 0 .. n
    <3>1. n \in Nat
      BY <1>0
    <3>2. k \in Int /\ 1 <= k /\ k <= n + 1
      BY <3>1
    <3>3. CASE k <= n
      BY <3>1, <3>2, <3>3
    <3>4. CASE k = n + 1
      BY <3>1, <3>4
    <3>5. QED
      BY <3>1, <3>2, <3>3, <3>4
  <2>4. 0 \in 0 .. n /\ n + 1 \in 0 .. N
    BY <1>0
  <2>5. ASSUME NEW k \in 1 .. (n + 1)
        PROVE  g[k] = Ports!heardBit(g[k - 1], on, BitOrder[k])
    <3>1. CASE k \in 1 .. n /\ k \in 0 .. n /\ k - 1 \in 0 .. n
      <4>1. f[k] = Ports!heardBit(f[k - 1], on, BitOrder[k])
        BY <2>1, <3>1 DEF InOrder
      <4>2. QED
        BY <2>2, <3>1, <4>1
    <3>2. CASE k = n + 1 /\ k - 1 = n /\ n \in 0 .. n
      BY <2>2, <3>2
    <3>3. QED
      BY <2>3, <3>1, <3>2
  <2>6. InOrder(g, vs, on, n + 1)
    BY <2>1, <2>2, <2>4, <2>5 DEF InOrder
  <2>7. QED
    BY <2>4, <2>6
<1>3. \A i \in 0 .. N : i \in Bits
  <2> HIDE DEF Bits, N
  <2>1. QED
    BY <1>0, <1>1, <1>2, Induction
<1>4. PICK f : InOrder(f, vs, on, N)
  BY <1>0, <1>3
<1>5. \E g : Eq(g)
  <2> DEFINE g == [n \in 0 .. N |-> f[n]]
  <2>1. \A n \in 0 .. N : n # 0 => n \in 1 .. N /\ n - 1 \in 0 .. N
    BY <1>0
  <2>2. \A n \in 0 .. N : g[n] = IF n = 0 THEN vs ELSE Ports!heardBit(g[n - 1], on, BitOrder[n])
    BY <1>4, <2>1 DEF InOrder
  <2>3. g = [n \in 0 .. N |->
               IF n = 0 THEN vs ELSE Ports!heardBit(g[n - 1], on, BitOrder[n])]
    BY <2>2, Zenon
  <2>4. QED
    BY <2>3
<1> DEFINE h == CHOOSE g : Eq(g)
<1>6. Ports!heard(vs, on) = h[N]
  BY DEF Ports!heard
<1>7. Eq(h)
  BY <1>5, Zenon
<1> HIDE DEF h
<1>8. InOrder(h, vs, on, N)
  <2>1. 0 \in 0 .. N /\ \A k \in 1 .. N : k \in 0 .. N /\ k # 0
    BY <1>0
  <2>2. h = [n \in 0 .. N |->
               IF n = 0 THEN vs ELSE Ports!heardBit(h[n - 1], on, BitOrder[n])]
    BY <1>7
  <2>3. DOMAIN h = 0 .. N
    BY <2>2, Zenon
  <2>4. \A n \in 0 .. N : h[n] = IF n = 0 THEN vs ELSE Ports!heardBit(h[n - 1], on, BitOrder[n])
    BY <2>2, Zenon
  <2> HIDE DEF N
  <2>5. QED
    BY <2>1, <2>3, <2>4 DEF InOrder
<1>9. QED
  BY <1>6, <1>8

\* Induction over the bits of a write: what holds of the voices before, and of the voices
\* after each bit if it held before that bit, holds of what the write leaves.
LEMMA BitByBit ==
  ASSUME NEW vs, NEW on, NEW H,
         <<0, vs>> \in H,
         \A n \in 1 .. Len(BitOrder) : \A ws :
           <<n - 1, ws>> \in H => <<n, Ports!heardBit(ws, on, BitOrder[n])>> \in H
  PROVE  <<Len(BitOrder), Ports!heard(vs, on)>> \in H
<1> DEFINE N == Len(BitOrder)
<1>1. N \in Nat
  BY OrderIs
<1>2. PICK f : InOrder(f, vs, on, N) /\ Ports!heard(vs, on) = f[N]
  BY HeardInOrder
<1> DEFINE S == {n \in 0 .. N : <<n, f[n]>> \in H}
<1>3. 0 \in S
  BY <1>1, <1>2 DEF InOrder
<1>4. ASSUME NEW n \in 0 .. (N - 1), n \in S PROVE n + 1 \in S
  <2>1. n + 1 \in 1 .. N /\ n + 1 \in 0 .. N /\ (n + 1) - 1 = n
    BY <1>1
  <2>2. <<n, f[n]>> \in H
    BY <1>4
  <2>3. f[n + 1] = Ports!heardBit(f[n], on, BitOrder[n + 1])
    BY <1>2, <2>1 DEF InOrder
  <2>4. <<n + 1, f[n + 1]>> \in H
    BY <2>1, <2>2, <2>3
  <2>5. QED
    BY <2>1, <2>4
<1>5. \A n \in 0 .. N : n \in S
  <2> HIDE DEF S, N
  <2>1. QED
    BY <1>1, <1>3, <1>4, Induction
<1>6. N \in S
  BY <1>1, <1>5
<1>7. QED
  BY <1>2, <1>6

\* The loops that may sound once the bits done are written: theirs as the write leaves them,
\* the others' as they were.
SoFar(on, done) ==
  {bit \in LoopBit : IF bit \in done
                     THEN bit \in on /\ bit \in (looping \cup Ports!Starts(on)) \ Ports!Ends(on)
                     ELSE bit \in bits \cap looping}

PortOK(vs, up) ==
  /\ vs \in Seq(Voice) /\ Len(vs) <= MaxVoices /\ Arranged(vs, PortVoice(up), PortPair)

\* Two sets of loops with the loops that sound in common.
LEMMA PortWidens ==
  ASSUME NEW vs, NEW up, NEW wider, PortOK(vs, up),
         \A i \in DOMAIN vs : vs[i].loop => vs[i].name \in wider
  PROVE  PortOK(vs, wider)
<1>1. \A i \in DOMAIN vs : vs[i] \in PortVoice(up) => vs[i] \in PortVoice(wider)
  BY DEF PortVoice
<1>2. QED
  BY <1>1, ArrangedWidens DEF PortOK

\* A bit's sound goes with what sounds if it is a one-shot, or no loop of that bit sounds.
LEMMA PortPlayed ==
  ASSUME NEW vs, NEW up, PortOK(vs, up), muted \in BOOLEAN, NEW bit \in Range(BitOrder),
         NEW loop \in BOOLEAN, loop <=> bit \in LoopBit,
         loop => bit \in up /\ \A i \in DOMAIN vs : vs[i].loop => vs[i].name # bit
  PROVE  PortOK(Played(vs, bit, loop), up)
<1> DEFINE voice == [name |-> bit, loop |-> loop, quiet |-> muted, role |-> "named"]
<1>1. bit \in Name /\ "named" \in Role
  BY DEF Name, Role
<1>2. voice \in Voice
  BY <1>1 DEF Voice
<1>3. voice \in PortVoice(up)
  BY <1>2 DEF PortVoice
<1>4. vs \in Seq(Voice) /\ Len(vs) <= MaxVoices /\ Arranged(vs, PortVoice(up), PortPair)
  BY DEF PortOK
<1>5. \A i \in DOMAIN vs : vs[i] \in Voice
  BY <1>4, LenProperties, ElementOfSeq
<1>6. \A i \in DOMAIN vs : <<vs[i], voice>> \in PortPair
  BY <1>2, <1>5 DEF PortPair
<1>7. QED
  BY <1>1, <1>3, <1>4, <1>6, PlayedIsArranged DEF PortOK, Played

\* The end of a name's voices leaves those of other names.
LEMMA PortStopped ==
  ASSUME NEW vs, NEW up, PortOK(vs, up), NEW name
  PROVE  /\ PortOK(Stopped(vs, name), up)
         /\ \A k \in DOMAIN Stopped(vs, name) : Stopped(vs, name)[k].name # name
<1>1. vs \in Seq(Voice) /\ Len(vs) <= MaxVoices /\ Arranged(vs, PortVoice(up), PortPair)
  BY DEF PortOK
<1>2. /\ Stopped(vs, name) \in Seq(Voice) /\ Len(Stopped(vs, name)) <= Len(vs)
      /\ Arranged(Stopped(vs, name), PortVoice(up), PortPair)
      /\ \A k \in DOMAIN Stopped(vs, name) : Stopped(vs, name)[k].name # name
  BY <1>1, StoppedIs
<1>3. Len(vs) \in Nat /\ Len(Stopped(vs, name)) \in Nat /\ MaxVoices \in Nat
  BY <1>1, <1>2, LenProperties, CapAssumption
<1>4. Len(Stopped(vs, name)) <= MaxVoices
  BY <1>1, <1>2, <1>3
<1>5. QED
  BY <1>2, <1>4 DEF PortOK

\* One bit of a write.
LEMMA HeardBitFits ==
  ASSUME NEW vs, NEW on, NEW done, NEW bit \in Range(BitOrder), bit \notin done,
         muted \in BOOLEAN, PortOK(vs, SoFar(on, done))
  PROVE  PortOK(Ports!heardBit(vs, on, bit), SoFar(on, done \cup {bit}))
<1> DEFINE was == SoFar(on, done)
           now == SoFar(on, done \cup {bit})
<1>1. /\ \A other : other # bit => (other \in was <=> other \in now)
      /\ bit \in was => bit \in LoopBit /\ bit \in bits \cap looping
      /\ bit \in now <=> bit \in LoopBit /\ bit \in on
                         /\ bit \in (looping \cup Ports!Starts(on)) \ Ports!Ends(on)
  BY DEF SoFar
<1> HIDE DEF was, now
<1>2. \A i \in DOMAIN vs : vs[i].loop => vs[i].name \in was
  BY DEF PortOK, Arranged, PortVoice, was
<1>3. CASE bit \in Ports!Starts(on)
  <2>1. bit \in LoopBit /\ bit \in now /\ bit \notin was
    BY <1>1, <1>3 DEF Ports!Starts, Ports!Ends
  <2>2. PortOK(vs, now)
    BY <1>1, <1>2, <2>1, PortWidens DEF was
  <2>3. \A i \in DOMAIN vs : vs[i].loop => vs[i].name # bit
    BY <1>2, <2>1
  <2>4. PortOK(Played(vs, bit, TRUE), now)
    BY <2>1, <2>2, <2>3, PortPlayed
  <2>5. QED
    BY <1>3, <2>4, HeardBitIs DEF now
<1>4. CASE bit \notin Ports!Starts(on) /\ bit \in Ports!Ends(on)
  <2> DEFINE ws == Stopped(vs, bit)
  <2>1. PortOK(ws, was) /\ \A k \in DOMAIN ws : ws[k].name # bit
    BY PortStopped DEF was
  <2> HIDE DEF ws
  <2>2. \A k \in DOMAIN ws : ws[k].loop => ws[k].name \in was
    BY <2>1 DEF PortOK, Arranged, PortVoice
  <2>3. PortOK(ws, now)
    BY <1>1, <2>1, <2>2, PortWidens
  <2>4. Ports!heardBit(vs, on, bit) = ws
    BY <1>4, HeardBitIs DEF ws
  <2>5. QED
    BY <2>3, <2>4 DEF now
<1>5. CASE bit \notin Ports!Starts(on) /\ bit \notin Ports!Ends(on)
  <2>1. bit \in was => bit \in now
    BY <1>1, <1>5 DEF Ports!Starts, Ports!Ends
  <2>2. PortOK(vs, now)
    BY <1>1, <1>2, <2>1, PortWidens DEF was
  <2>3. CASE bit \in (on \ bits) \ LoopBit
    <3>1. PortOK(Played(vs, bit, FALSE), now)
      BY <2>2, <2>3, PortPlayed
    <3>2. QED
      BY <1>5, <2>3, <3>1, HeardBitIs DEF now
  <2>4. CASE bit \notin (on \ bits) \ LoopBit
    BY <1>5, <2>2, <2>4, HeardBitIs DEF now
  <2>5. QED
    BY <2>3, <2>4
<1>6. QED
  BY <1>3, <1>4, <1>5

\* The bits of a write that come before the n-th, and it.
Done(n) == {BitOrder[k] : k \in 1 .. n}

LEMMA DoneSteps ==
  /\ Done(0) = {} /\ Done(Len(BitOrder)) = Range(BitOrder)
  /\ \A n \in 1 .. Len(BitOrder) :
       Done(n) = Done(n - 1) \cup {BitOrder[n]} /\ BitOrder[n] \notin Done(n - 1)
<1>1. Done(0) = {}
  <2>1. \A k \in 1 .. 0 : FALSE
    OBVIOUS
  <2>2. QED
    BY <2>1 DEF Done
<1>2. Done(Len(BitOrder)) = Range(BitOrder)
  BY OrderIs DEF Done
<1>3. ASSUME NEW n \in 1 .. Len(BitOrder)
      PROVE  Done(n) = Done(n - 1) \cup {BitOrder[n]} /\ BitOrder[n] \notin Done(n - 1)
  <2>1. Len(BitOrder) \in Nat /\ DOMAIN BitOrder = 1 .. Len(BitOrder)
    BY OrderIs
  <2>2. /\ \A k \in 1 .. n : k \in 1 .. (n - 1) \/ k = n
        /\ \A k \in 1 .. (n - 1) : k \in 1 .. n /\ k # n /\ k \in 1 .. Len(BitOrder)
        /\ n \in 1 .. n
    BY <2>1
  <2>3. \A k \in 1 .. (n - 1) : BitOrder[k] # BitOrder[n]
    BY <2>1, <2>2, PortAssumption
  <2>4. QED
    BY <2>2, <2>3 DEF Done
<1>4. QED
  BY <1>1, <1>2, <1>3

\* A write of the port, bit by bit.
LEMMA HeardFits ==
  ASSUME TypeOK, SoundOK, PortInv, NEW on \in SUBSET Range(BitOrder)
  PROVE  PortOK(Ports!heard(voices, on), SoFar(on, Range(BitOrder)))
<1> DEFINE N == Len(BitOrder)
           H == {p \in (0 .. N) \X Seq(Voice) : PortOK(p[2], SoFar(on, Done(p[1])))}
<1>1. N \in Nat /\ muted \in BOOLEAN
  BY OrderIs DEF TypeOK
<1>2. <<0, voices>> \in H
  <2>1. Done(0) = {} /\ 0 \in 0 .. N
    BY <1>1, DoneSteps
  <2>2. PortOK(voices, bits \cap looping)
    BY DEF PortOK, SoundOK, PortInv
  <2>3. \A i \in DOMAIN voices : voices[i].loop => voices[i].name \in SoFar(on, {})
    BY <2>2 DEF PortOK, Arranged, PortVoice, SoFar
  <2>4. PortOK(voices, SoFar(on, {}))
    BY <2>2, <2>3, PortWidens
  <2>5. QED
    BY <2>1, <2>4 DEF SoundOK
<1>3. ASSUME NEW n \in 1 .. N, NEW ws, <<n - 1, ws>> \in H
      PROVE  <<n, Ports!heardBit(ws, on, BitOrder[n])>> \in H
  <2>1. n \in 0 .. N /\ BitOrder[n] \in Range(BitOrder)
    BY <1>1, OrderIs
  <2>2. Done(n) = Done(n - 1) \cup {BitOrder[n]} /\ BitOrder[n] \notin Done(n - 1)
    BY DoneSteps
  <2>3. PortOK(ws, SoFar(on, Done(n - 1)))
    BY <1>3
  <2>4. PortOK(Ports!heardBit(ws, on, BitOrder[n]), SoFar(on, Done(n)))
    BY <1>1, <2>1, <2>2, <2>3, HeardBitFits
  <2>5. Ports!heardBit(ws, on, BitOrder[n]) \in Seq(Voice)
    BY <2>4 DEF PortOK
  <2>6. QED
    BY <2>1, <2>4, <2>5
<1>4. <<N, Ports!heard(voices, on)>> \in H
  <2> HIDE DEF H
  <2>1. QED
    BY <1>2, <1>3, BitByBit
<1>5. Done(N) = Range(BitOrder)
  BY DoneSteps
<1>6. QED
  BY <1>4, <1>5

\* Events of the port keep its invariant.
LEMMA PortEventKeeps ==
  ASSUME AudioInv, PortEvent
  PROVE  SoundOK' /\ PortInv' /\ muted' \in BOOLEAN /\ looping' \in SUBSET LoopBit
<1>1. /\ TypeOK /\ SoundOK /\ PortInv /\ Ports!Next
      /\ muted \in BOOLEAN /\ looping \in SUBSET LoopBit
  BY DEF AudioInv, PortEvent, TypeOK
<1>2. ASSUME NEW on \in SUBSET Ports!Bit, Ports!PortWrite(on)
      PROVE  SoundOK' /\ PortInv' /\ muted' \in BOOLEAN /\ looping' \in SUBSET LoopBit
  <2>1. on \in SUBSET Range(BitOrder)
    BY DEF Ports!Bit, Ports!Range, Range
  <2>2. /\ bits' = on /\ voices' = Ports!heard(voices, on) /\ muted' = muted
        /\ looping' = (looping \cup Ports!Starts(on)) \ Ports!Ends(on)
    BY <1>2 DEF Ports!PortWrite
  <2>3. PortOK(voices', SoFar(on, Range(BitOrder)))
    BY <1>1, <2>1, <2>2, HeardFits
  <2>4. \A i \in DOMAIN voices' : voices'[i].loop => voices'[i].name \in SoFar(on, Range(BitOrder))
    BY <2>3 DEF PortOK, Arranged, PortVoice
  <2>5. SoFar(on, Range(BitOrder)) \subseteq bits' \cap looping'
    BY <2>2, PortAssumption DEF SoFar
  <2>6. PortOK(voices', bits' \cap looping')
    BY <2>3, <2>4, <2>5, PortWidens
  <2>7. looping' \in SUBSET LoopBit
    BY <1>1, <2>2 DEF Ports!Starts
  <2>8. QED
    BY <1>1, <2>1, <2>2, <2>6, <2>7 DEF PortOK, SoundOK, PortInv
<1>3. CASE Ports!ToggleMute
  <2>1. /\ muted' = ~muted /\ bits' = bits
        /\ voices' = IF muted THEN voices ELSE <<>>
        /\ looping' = IF muted THEN looping ELSE {}
    BY <1>3 DEF Ports!ToggleMute, Ports!MuteSwitch, Ports!kept
  <2>2. CASE muted
    BY <1>1, <2>1, <2>2 DEF SoundOK, PortInv
  <2>3. CASE ~muted
    <3>1. Len(<<>>) = 0 /\ <<>> \in Seq(Voice) /\ DOMAIN <<>> = {}
      OBVIOUS
    <3>2. 0 <= MaxVoices
      BY CapAssumption
    <3>3. QED
      BY <1>1, <2>1, <2>3, <3>1, <3>2 DEF SoundOK, PortInv, Arranged
  <2>4. QED
    BY <2>2, <2>3
<1>4. QED
  BY <1>1, <1>2, <1>3 DEF Ports!Next

-----------------------------------------------------------------------------
(* The browser, and the whole.                                             *)

\* The dispatchers make a context and no more; the browser moves it on.
LEMMA ContextKeeps ==
  ASSUME TypeOK, AudioNext
  PROVE  ctx' \in {"none", "suspended", "running"} /\ decoded' \in BOOLEAN
<1>1. /\ ctx \in {"none", "suspended", "running"} /\ decoded \in BOOLEAN
      /\ Made \in {"none", "suspended", "running"}
  BY DEF TypeOK, Made
<1>2. CASE LatchEvent
  <2>1. decoded' = decoded /\ (ctx' = ctx \/ ctx' = Made)
    BY <1>2 DEF LatchEvent, Latch!Next, Latch!LatchWrite, Latch!LatchSilence, Latch!LatchLoop,
                Latch!LatchPulse, Latch!ToggleMute, Latch!MuteSwitch, Latch!Made, Made,
                Latch!IrqRises, Latch!TriggerRises, Latch!TriggerFalls
  <2>2. QED
    BY <1>1, <2>1
<1>3. CASE StrobedEvent \/ BedEvent
  <2>1. decoded' = decoded /\ (ctx' = ctx \/ ctx' = Made)
    BY <1>3, ClipEvents DEF ClipPlays, Beds!FadeEnds, Beds!ToggleMute, Beds!MuteSwitch, Beds!Made, Made
  <2>2. QED
    BY <1>1, <2>1
<1>4. CASE PortEvent
  <2>1. decoded' = decoded /\ (ctx' = ctx \/ ctx' = Made)
    BY <1>4 DEF PortEvent, Ports!Next, Ports!PortWrite, Ports!ToggleMute, Ports!MuteSwitch,
                Ports!Made, Made
  <2>2. QED
    BY <1>1, <2>1
<1>5. CASE Browser
  BY <1>1, <1>5 DEF Browser, PlayerNext, VoiceEnds, Gesture, Resumes, Suspends, DecodeEnds
<1>6. QED
  BY <1>2, <1>3, <1>4, <1>5 DEF AudioNext

\* A step of the browser ends a one-shot or leaves the voices alone.
LEMMA BrowserThins ==
  ASSUME SoundOK, Browser \/ UNCHANGED vars
  PROVE  /\ muted' = muted /\ model' = model /\ UNCHANGED dispatchers /\ SoundOK'
         /\ \A Good, Pair : Arranged(voices, Good, Pair) => Arranged(voices', Good, Pair)
         /\ \A i \in DOMAIN voices :
              voices[i].loop => \E k \in DOMAIN voices' : voices'[k] = voices[i]
<1>1. CASE UNCHANGED vars
  BY <1>1 DEF vars, player, SoundOK
<1>2. CASE VoiceEnds /\ Browser
  <2>1. PICK e \in DOMAIN voices : ~voices[e].loop /\ voices' = Without(voices, e)
    BY <1>2 DEF VoiceEnds
  <2>2. /\ voices' \in Seq(Voice) /\ Len(voices') <= Len(voices)
        /\ \A Good, Pair : Arranged(voices, Good, Pair) => Arranged(voices', Good, Pair)
        /\ \A i \in DOMAIN voices : i # e => \E k \in DOMAIN voices' : voices'[k] = voices[i]
    BY <2>1, WithoutIs DEF SoundOK
  <2>3. Len(voices') \in Nat /\ Len(voices) \in Nat /\ MaxVoices \in Nat
    BY <2>2, LenProperties, CapAssumption DEF SoundOK
  <2>4. Len(voices') <= MaxVoices
    BY <2>2, <2>3 DEF SoundOK
  <2>5. QED
    BY <1>2, <2>1, <2>2, <2>4 DEF SoundOK, Browser, VoiceEnds
<1>3. CASE Browser /\ ~VoiceEnds
  BY <1>3 DEF Browser, PlayerNext, Gesture, Resumes, Suspends, DecodeEnds, SoundOK
<1>4. QED
  BY <1>1, <1>2, <1>3

LEMMA AudioInvInit ==
  ASSUME AudioInit
  PROVE  AudioInv
<1>1. /\ ctx = "none" /\ decoded = FALSE /\ muted = FALSE /\ voices = <<>>
      /\ background = None /\ current = None /\ bed = None /\ bits = {} /\ looping = {}
  BY DEF AudioInit, Init, Beds!DispatcherInit, Ports!DispatcherInit
<1>2. Len(<<>>) = 0 /\ <<>> \in Seq(Voice) /\ DOMAIN <<>> = {}
  OBVIOUS
<1>3. 0 <= MaxVoices
  BY CapAssumption
<1>4. \A Good, Pair : Arranged(voices, Good, Pair)
  BY <1>1, <1>2 DEF Arranged
<1>5. SoundOK /\ TypeOK
  BY <1>1, <1>2, <1>3 DEF SoundOK, TypeOK
<1>6. QED
  BY <1>1, <1>4, <1>5 DEF AudioInv, LatchInv, ClipInv, PortInv

LEMMA AudioInvNext ==
  ASSUME AudioInv, [AudioNext]_vars
  PROVE  AudioInv'
<1>1. TypeOK /\ SoundOK
  BY DEF AudioInv
<1>2. ASSUME SoundOK',
             ctx' \in {"none", "suspended", "running"}, decoded' \in BOOLEAN, muted' \in BOOLEAN,
             background' \in LoopTune \cup {None}, bed' \in Bed \cup {None},
             looping' \in SUBSET LoopBit
      PROVE  TypeOK'
  <2>1. \A i \in DOMAIN voices' : voices'[i] \in Voice
    BY <1>2, LenProperties, ElementOfSeq DEF SoundOK
  <2>2. \A i \in DOMAIN voices' : voices'[i].role \in Role
    BY <2>1 DEF Voice
  <2>3. QED
    BY <1>2, <2>2 DEF SoundOK, TypeOK
<1>3. CASE LatchEvent
  <2>1. SoundOK' /\ LatchInv' /\ muted' \in BOOLEAN /\ background' \in LoopTune \cup {None}
    BY <1>3, LatchEventKeeps
  <2>2. ctx' \in {"none", "suspended", "running"} /\ decoded' \in BOOLEAN
    BY <1>1, <1>3, ContextKeeps DEF AudioNext
  <2>3. model' = "latch" /\ bed' = bed /\ looping' = looping
    BY <1>3 DEF LatchEvent
  <2>4. TypeOK'
    BY <1>1, <1>2, <2>1, <2>2, <2>3 DEF TypeOK
  <2>5. QED
    BY <2>1, <2>3, <2>4 DEF AudioInv, Clips
<1>4. CASE StrobedEvent \/ BedEvent
  <2>1. SoundOK' /\ ClipInv' /\ muted' \in BOOLEAN /\ bed' \in Bed \cup {None}
    BY <1>4, ClipEventKeeps
  <2>2. ctx' \in {"none", "suspended", "running"} /\ decoded' \in BOOLEAN
    BY <1>1, <1>4, ContextKeeps DEF AudioNext
  <2>3. model' \in Clips /\ background' = background /\ looping' = looping
    BY <1>4 DEF StrobedEvent, BedEvent, Clips
  <2>4. TypeOK'
    BY <1>1, <1>2, <2>1, <2>2, <2>3 DEF TypeOK
  <2>5. QED
    BY <2>1, <2>3, <2>4 DEF AudioInv, Clips
<1>5. CASE PortEvent
  <2>1. SoundOK' /\ PortInv' /\ muted' \in BOOLEAN /\ looping' \in SUBSET LoopBit
    BY <1>5, PortEventKeeps
  <2>2. ctx' \in {"none", "suspended", "running"} /\ decoded' \in BOOLEAN
    BY <1>1, <1>5, ContextKeeps DEF AudioNext
  <2>3. model' = "bitports" /\ background' = background /\ bed' = bed
    BY <1>5 DEF PortEvent
  <2>4. TypeOK'
    BY <1>1, <1>2, <2>1, <2>2, <2>3 DEF TypeOK
  <2>5. QED
    BY <2>1, <2>3, <2>4 DEF AudioInv, Clips
<1>6. CASE Browser \/ UNCHANGED vars
  <2>1. /\ muted' = muted /\ model' = model /\ UNCHANGED dispatchers /\ SoundOK'
        /\ \A Good, Pair : Arranged(voices, Good, Pair) => Arranged(voices', Good, Pair)
    BY <1>1, <1>6, BrowserThins
  <2>2. /\ background' = background /\ current' = current /\ bed' = bed
        /\ bits' = bits /\ looping' = looping
    BY <2>1 DEF dispatchers
  <2>3. ctx' \in {"none", "suspended", "running"} /\ decoded' \in BOOLEAN
    <3>1. CASE Browser
      BY <1>1, <3>1, ContextKeeps DEF AudioNext
    <3>2. CASE UNCHANGED vars
      BY <1>1, <3>2 DEF TypeOK, vars, player
    <3>3. QED
      BY <1>6, <3>1, <3>2
  <2>4. TypeOK'
    BY <1>1, <1>2, <2>1, <2>2, <2>3 DEF TypeOK
  <2>5. /\ LatchInv => LatchInv'
        /\ ClipInv => ClipInv'
        /\ PortInv => PortInv'
    BY <2>1, <2>2 DEF LatchInv, ClipInv, PortInv
  <2>6. QED
    BY <2>1, <2>4, <2>5 DEF AudioInv
<1>7. QED
  BY <1>3, <1>4, <1>5, <1>6 DEF AudioNext

\* The voices of a session are arranged as their dispatcher thinks they are, and no more of
\* them sound than the cap allows.
THEOREM AudioInvariant == AudioSpec => []AudioInv
<1>1. AudioInit => AudioInv
  BY AudioInvInit
<1>2. AudioInv /\ [AudioNext]_vars => AudioInv'
  BY AudioInvNext
<1>3. QED
  BY <1>1, <1>2, PTL DEF AudioSpec

THEOREM AudioTypes == AudioSpec => []TypeOK
<1>1. AudioInv => TypeOK
  BY DEF AudioInv
<1>2. QED
  BY <1>1, AudioInvariant, PTL

-----------------------------------------------------------------------------
(* What follows from it.                                                   *)

\* Places all of which are one place.
LEMMA AtMostOne ==
  ASSUME NEW S, \A i, j \in S : i = j
  PROVE  Cardinality(S) <= 1
<1>1. CASE S = {}
  BY <1>1, FS_EmptySet
<1>2. CASE S # {}
  <2>1. PICK i : i \in S
    BY <1>2
  <2>2. S = {i}
    BY <2>1
  <2>3. Cardinality({i}) = 1
    BY FS_Singleton
  <2>4. QED
    BY <2>2, <2>3
<1>3. QED
  BY <1>1, <1>2

\* In an arrangement two places whose voices may not follow each other either way are one.
LEMMA NeverBoth ==
  ASSUME NEW vs \in Seq(Voice), NEW Good, NEW Pair, Arranged(vs, Good, Pair),
         NEW i \in DOMAIN vs, NEW j \in DOMAIN vs,
         <<vs[i], vs[j]>> \notin Pair, <<vs[j], vs[i]>> \notin Pair
  PROVE  i = j
<1>1. i \in Int /\ j \in Int
  BY LenProperties
<1>2. ~(i < j) /\ ~(j < i)
  BY DEF Arranged
<1>3. QED
  BY <1>1, <1>2

\* Donkey Kong's heard loops are one, and it is the background.
LEMMA LatchAccounted ==
  ASSUME SoundOK, LatchInv
  PROVE  Latch!Accounted
<1>1. \A i \in HeardLoops : i \in DOMAIN voices /\ voices[i].loop /\ ~voices[i].quiet
  BY DEF HeardLoops, Loops
<1>2. \A i \in HeardLoops : voices[i].name = background
  BY <1>1 DEF LatchInv, Arranged, LatchVoice
<1>3. ASSUME NEW i \in HeardLoops, NEW j \in HeardLoops PROVE i = j
  <2>1. voices \in Seq(Voice) /\ Arranged(voices, LatchVoice(background, muted), LatchPair)
    BY DEF SoundOK, LatchInv
  <2>2. <<voices[i], voices[j]>> \notin LatchPair /\ <<voices[j], voices[i]>> \notin LatchPair
    BY <1>1 DEF LatchPair
  <2>3. QED
    BY <1>1, <2>1, <2>2, NeverBoth
<1>4. Cardinality(HeardLoops) <= 1
  BY <1>3, AtMostOne
<1>5. Latch!HeardLoops = HeardLoops /\ Latch!Cardinality(HeardLoops) = Cardinality(HeardLoops)
  BY DEF Latch!HeardLoops, HeardLoops, Latch!Loops, Loops, Latch!Cardinality, Cardinality
<1>6. QED
  BY <1>2, <1>4, <1>5 DEF Latch!Accounted

\* A sound CPU's beds: one held, the selected one; the others that are heard fade.
LEMMA ClipAccounted ==
  ASSUME SoundOK, ClipInv
  PROVE  Beds!Accounted
<1>1. \A i \in Beds!HeldBeds : i \in DOMAIN voices /\ voices[i].role = "held"
  BY DEF Beds!HeldBeds
<1>2. \A i \in Beds!HeldBeds : voices[i].name = bed /\ voices[i].loop
  BY <1>1 DEF ClipInv, Arranged, ClipVoice
<1>3. ASSUME NEW i \in Beds!HeldBeds, NEW j \in Beds!HeldBeds PROVE i = j
  <2>1. voices \in Seq(Voice) /\ Arranged(voices, ClipVoice(current, bed, muted), ClipPair)
    BY DEF SoundOK, ClipInv
  <2>2. <<voices[i], voices[j]>> \notin ClipPair /\ <<voices[j], voices[i]>> \notin ClipPair
    BY <1>1, <1>2 DEF ClipPair
  <2>3. QED
    BY <1>1, <2>1, <2>2, NeverBoth
<1>4. Cardinality(Beds!HeldBeds) <= 1
  BY <1>3, AtMostOne
<1>5. Beds!Cardinality(Beds!HeldBeds) = Cardinality(Beds!HeldBeds)
  BY DEF Beds!Cardinality, Cardinality
<1>6. \A i \in Beds!HeardLoops : voices[i].role # "named"
  BY DEF Beds!HeardLoops, Beds!Loops, ClipInv, Arranged, ClipVoice
<1>7. QED
  BY <1>2, <1>4, <1>5, <1>6 DEF Beds!Accounted

\* A port's loops: each of a bit that is up, and one a bit.
LEMMA PortAccounted ==
  ASSUME SoundOK, PortInv
  PROVE  Ports!Accounted
<1>1. \A i \in Ports!HeardLoops : i \in DOMAIN voices /\ voices[i].loop
  BY DEF Ports!HeardLoops, Ports!Loops
<1>2. \A i \in Ports!HeardLoops : voices[i].name \in bits \cap looping
  BY <1>1 DEF PortInv, Arranged, PortVoice
<1>3. ASSUME NEW i \in Ports!HeardLoops, NEW j \in Ports!HeardLoops, voices[i].name = voices[j].name
      PROVE  i = j
  <2>1. voices \in Seq(Voice) /\ Arranged(voices, PortVoice(bits \cap looping), PortPair)
    BY DEF SoundOK, PortInv
  <2>2. <<voices[i], voices[j]>> \notin PortPair /\ <<voices[j], voices[i]>> \notin PortPair
    BY <1>1, <1>3 DEF PortPair
  <2>3. QED
    BY <1>1, <2>1, <2>2, NeverBoth
<1>4. QED
  BY <1>2, <1>3 DEF Ports!Accounted

\* NoStrayTune, whatever the tunes and the cap: the loops that are heard are the ones their
\* dispatcher will stop.
THEOREM EveryTuneIsAccounted == AudioSpec => []NoStrayTune
<1>1. AudioInv => NoStrayTune
  BY LatchAccounted, ClipAccounted, PortAccounted DEF AudioInv, NoStrayTune
<1>2. QED
  BY <1>1, AudioInvariant, PTL

\* One effect of a sound CPU plays at a time, and at most one that a switch-on has made the page
\* forget plays on beside it.
THEOREM OneEffectPlays == AudioSpec => []OneEffectOneLeftover
<1> DEFINE Known == Beds!Effects \ Beds!Forgotten
<1>1. ASSUME SoundOK, ClipInv PROVE Beds!OneEffectOneLeftover
  <2>1. voices \in Seq(Voice) /\ Arranged(voices, ClipVoice(current, bed, muted), ClipPair)
    BY <1>1 DEF SoundOK, ClipInv
  <2>2. \A i \in DOMAIN voices : voices[i] \in ClipVoice(current, bed, muted)
    BY <2>1 DEF Arranged
  <2>3. ASSUME NEW i \in Known, NEW j \in Known PROVE i = j
    <3>1. <<voices[i], voices[j]>> \notin ClipPair /\ <<voices[j], voices[i]>> \notin ClipPair
      BY <2>2 DEF ClipPair, ClipVoice, Beds!Effects, Beds!Forgotten
    <3>2. QED
      BY <2>1, <3>1, NeverBoth DEF Beds!Effects
  <2>4. ASSUME NEW i \in Beds!Forgotten, NEW j \in Beds!Forgotten PROVE i = j
    <3>1. <<voices[i], voices[j]>> \notin ClipPair /\ <<voices[j], voices[i]>> \notin ClipPair
      BY DEF ClipPair, Beds!Effects, Beds!Forgotten
    <3>2. QED
      BY <2>1, <3>1, NeverBoth DEF Beds!Effects, Beds!Forgotten
  <2>5. Cardinality(Known) <= 1
    <3> HIDE DEF Known
    <3>1. QED
      BY <2>3, AtMostOne
  <2>6. Cardinality(Beds!Forgotten) <= 1
    BY <2>4, AtMostOne
  <2>7. QED
    BY <2>5, <2>6 DEF Beds!OneEffectOneLeftover, Beds!Cardinality, Cardinality
<1>2. AudioInv => OneEffectOneLeftover
  BY <1>1 DEF AudioInv, OneEffectOneLeftover
<1>3. QED
  BY <1>2, AudioInvariant, PTL

-----------------------------------------------------------------------------
(* The cap never takes the tune: the first voice goes only if every voice  *)
(* loops, and then another one is the tune (Donkey Kong), the first is not *)
(* held (a sound CPU), or there are too few loops to fill the cap (ports). *)

LEMMA LatchSpares ==
  ASSUME NEW vs, NEW tune \in LoopTune, LatchOK(vs, tune), muted \in BOOLEAN, NEW name \in Name,
         NEW i \in DOMAIN vs, vs[i].name = tune
  PROVE  \E k \in DOMAIN Played(vs, name, FALSE) : Played(vs, name, FALSE)[k].name = tune
<1>1. /\ vs \in Seq(Voice) /\ Len(vs) <= MaxVoices
      /\ Arranged(vs, LatchVoice(tune, muted), LatchPair)
  BY DEF LatchOK
<1>0. vs[i].loop
  BY <1>1 DEF Arranged, LatchVoice
<1>2. \A j \in DOMAIN vs :
        vs[j].loop => \/ \E k \in DOMAIN Played(vs, name, FALSE) : Played(vs, name, FALSE)[k] = vs[j]
                      \/ j = 1 /\ Len(vs) = MaxVoices /\ \A l \in DOMAIN vs : vs[l].loop
  BY <1>1, PlayedSpares DEF Played, Role
<1>3. CASE i = 1 /\ Len(vs) = MaxVoices /\ \A l \in DOMAIN vs : vs[l].loop
  <2>1. DOMAIN vs = 1 .. MaxVoices /\ 2 \in 1 .. MaxVoices /\ 1 < 2
    BY <1>1, <1>3, LenProperties, CapAssumption
  <2>2. <<vs[1], vs[2]>> \in LatchPair /\ vs[2] \in LatchVoice(tune, muted)
    BY <1>1, <1>3, <2>1 DEF Arranged
  <2>3. vs[2].loop /\ vs[2].name = tune
    BY <1>3, <2>1, <2>2 DEF LatchPair, LatchVoice
  <2>4. \E k \in DOMAIN Played(vs, name, FALSE) : Played(vs, name, FALSE)[k] = vs[2]
    <3>1. 2 \in DOMAIN vs /\ 2 # 1
      BY <2>1
    <3>2. QED
      BY <1>2, <2>3, <3>1, Zenon
  <2>5. QED
    BY <2>3, <2>4
<1>4. QED
  BY <1>0, <1>2, <1>3

LEMMA LatchTune ==
  ASSUME TypeOK, SoundOK, LatchInv, model = "latch", [AudioNext]_vars
  PROVE  Latch!TuneSurvives
<1> SUFFICES ASSUME Latch!Sounding, ~Latch!LatchWrite, ~Latch!ToggleMute
             PROVE  Latch!Sounding'
  BY DEF Latch!TuneSurvives
<1>1. PICK i \in DOMAIN voices : voices[i].name = background /\ background # None
  BY DEF Latch!Sounding, Latch!Voices
<1>2. /\ background \in LoopTune /\ muted \in BOOLEAN /\ voices[i].loop
      /\ LatchOK(voices, background)
  BY <1>1 DEF TypeOK, LatchInv, SoundOK, LatchOK, Arranged, LatchVoice
<1>3. SUFFICES background' = background /\ \E k \in DOMAIN voices' : voices'[k].name = background
  BY <1>1 DEF Latch!Sounding, Latch!Voices
<1>4. ASSUME NEW tune \in PulseTune, Latch!IrqRises(tune)
      PROVE  background' = background /\ \E k \in DOMAIN voices' : voices'[k].name = background
  <2>1. voices' = Played(voices, tune, FALSE) /\ background' = background
    BY <1>4, LatchPlays DEF Latch!IrqRises
  <2>2. tune \in Name
    BY DEF Name
  <2>3. \E k \in DOMAIN Played(voices, tune, FALSE) : Played(voices, tune, FALSE)[k].name = background
    <3>1. i \in DOMAIN voices /\ voices[i].name = background
      BY <1>1
    <3>2. background \in LoopTune /\ LatchOK(voices, background) /\ muted \in BOOLEAN
      BY <1>2
    <3>3. QED
      BY <2>2, <3>1, <3>2, LatchSpares, Zenon
  <2>4. QED
    BY <2>1, <2>3
<1>5. ASSUME NEW name \in Circuit \cup Held
      PROVE  /\ LatchOK(Stopped(voices, name), background)
             /\ \E k \in DOMAIN Stopped(voices, name) : Stopped(voices, name)[k] = voices[i]
  <2>1. voices[i].name # name
    BY <1>1, <1>2, NamesAssumption
  <2>2. QED
    BY <1>2, <2>1, StoppedFits, StoppedIs DEF SoundOK
<1>6. ASSUME NEW name \in Circuit \cup Held, Latch!TriggerRises(name)
      PROVE  background' = background /\ \E k \in DOMAIN voices' : voices'[k].name = background
  <2> DEFINE ws == Latch!retriggered(voices, name)
  <2>1. voices' = Played(ws, name, FALSE) /\ background' = background
    BY <1>6, LatchPlays DEF Latch!TriggerRises
  <2>2. ws = Stopped(voices, name) \/ ws = voices
    BY LatchPlays DEF Latch!retriggered
  <2> HIDE DEF ws
  <2>3. LatchOK(ws, background) /\ \E k \in DOMAIN ws : ws[k] = voices[i]
    BY <1>2, <1>5, <2>2
  <2>4. name \in Name
    BY DEF Name
  <2>5. PICK k \in DOMAIN ws : ws[k].name = background
    BY <1>1, <2>3
  <2>6. \E l \in DOMAIN Played(ws, name, FALSE) : Played(ws, name, FALSE)[l].name = background
    BY <1>2, <2>3, <2>4, <2>5, LatchSpares
  <2>7. QED
    BY <2>1, <2>6
<1>7. ASSUME NEW name \in Circuit \cup Held, Latch!TriggerFalls(name)
      PROVE  background' = background /\ \E k \in DOMAIN voices' : voices'[k].name = background
  <2>1. (voices' = Stopped(voices, name) \/ voices' = voices) /\ background' = background
    BY <1>7, LatchPlays DEF Latch!TriggerFalls
  <2>2. QED
    BY <1>1, <1>5, <2>1
<1>8. CASE Browser \/ UNCHANGED vars
  <2>1. background' = background /\ \E k \in DOMAIN voices' : voices'[k] = voices[i]
    BY <1>2, <1>8, BrowserThins DEF dispatchers
  <2>2. QED
    BY <1>1, <2>1
<1>9. QED
  BY <1>4, <1>6, <1>7, <1>8
     DEF AudioNext, LatchEvent, Latch!Next, StrobedEvent, BedEvent, PortEvent

LEMMA ClipSpares ==
  ASSUME NEW vs, NEW effect, NEW selected, ClipOK(vs, effect, selected, muted), muted \in BOOLEAN,
         NEW name \in Name, NEW i \in DOMAIN vs, vs[i].role = "held"
  PROVE  \E k \in DOMAIN Played(vs, name, FALSE) : Played(vs, name, FALSE)[k].role = "held"
<1>1. /\ vs \in Seq(Voice) /\ Len(vs) <= MaxVoices
      /\ Arranged(vs, ClipVoice(effect, selected, muted), ClipPair)
  BY DEF ClipOK
<1>2. vs[i].loop
  BY <1>1 DEF Arranged, ClipVoice
<1>3. \/ \E k \in DOMAIN Played(vs, name, FALSE) : Played(vs, name, FALSE)[k] = vs[i]
      \/ i = 1 /\ Len(vs) = MaxVoices /\ \A l \in DOMAIN vs : vs[l].loop
  BY <1>1, <1>2, PlayedSpares DEF Played, Role
<1>4. ~(i = 1 /\ Len(vs) = MaxVoices /\ \A l \in DOMAIN vs : vs[l].loop)
  <2> SUFFICES ASSUME i = 1, Len(vs) = MaxVoices, \A l \in DOMAIN vs : vs[l].loop PROVE FALSE
    OBVIOUS
  <2>1. DOMAIN vs = 1 .. MaxVoices /\ 2 \in 1 .. MaxVoices /\ 1 < 2
    BY <1>1, LenProperties, CapAssumption
  <2>2. <<vs[1], vs[2]>> \in ClipPair
    BY <1>1, <2>1 DEF Arranged
  <2>3. QED
    BY <2>1, <2>2 DEF ClipPair
<1>5. QED
  BY <1>3, <1>4

LEMMA ClipTune ==
  ASSUME TypeOK, SoundOK, ClipInv, model \in Clips, [AudioNext]_vars
  PROVE  Beds!TuneSurvives
<1> SUFFICES ASSUME Beds!Sounding, bed' = bed, ~Beds!ToggleMute
             PROVE  Beds!Sounding'
  BY DEF Beds!TuneSurvives
<1>1. PICK i \in DOMAIN voices : voices[i].role = "held"
  BY DEF Beds!Sounding, Beds!HeldBeds
<1>2. /\ voices[i].loop /\ voices[i].name = bed /\ bed \in Bed /\ muted \in BOOLEAN
      /\ ClipOK(voices, current, bed, muted) /\ current \in Effect \cup {None}
  BY <1>1 DEF TypeOK, ClipInv, SoundOK, ClipOK, Arranged, ClipVoice
<1>3. SUFFICES \E k \in DOMAIN voices' : voices'[k].role = "held"
  BY DEF Beds!Sounding, Beds!HeldBeds
<1>4. ASSUME NEW target \in Bed \cup {None}, NEW command, NEW fires \in BOOLEAN,
             ClipPlays(target, command, fires), fires => command \in Effect
      PROVE  \E k \in DOMAIN voices' : voices'[k].role = "held"
  <2>1. Turned(voices, target) = voices
    BY <1>4 DEF ClipPlays, Turned
  <2>2. CASE ~fires
    BY <1>1, <1>4, <2>1, <2>2 DEF ClipPlays
  <2>3. CASE fires
    <3> DEFINE ws == IF current = None THEN voices ELSE Stopped(voices, current)
    <3>1. voices' = Played(ws, command, FALSE)
      BY <1>4, <2>1, <2>3, ClipsPlay DEF ClipPlays, Beds!fired
    <3>2. voices[i].name # current
      BY <1>2, NamesAssumption
    <3>3. voices \in Seq(Voice) /\ Len(voices) <= MaxVoices
          /\ Arranged(voices, ClipVoice(current, bed, muted), ClipPair)
      BY <1>2 DEF ClipOK
    <3>4. /\ Stopped(voices, current) \in Seq(Voice)
          /\ Len(Stopped(voices, current)) <= Len(voices)
          /\ Arranged(Stopped(voices, current), ClipVoice(current, bed, muted), ClipPair)
          /\ \E k \in DOMAIN Stopped(voices, current) : Stopped(voices, current)[k] = voices[i]
      BY <3>2, <3>3, StoppedIs
    <3>5. Len(Stopped(voices, current)) <= MaxVoices
      <4>1. Len(voices) \in Nat /\ Len(Stopped(voices, current)) \in Nat /\ MaxVoices \in Nat
        BY <3>3, <3>4, LenProperties, CapAssumption
      <4>2. QED
        BY <3>3, <3>4, <4>1
    <3>6. ClipOK(ws, current, bed, muted) /\ \E k \in DOMAIN ws : ws[k] = voices[i]
      BY <1>2, <3>4, <3>5 DEF ClipOK
    <3> HIDE DEF ws
    <3>7. PICK k \in DOMAIN ws : ws[k].role = "held"
      BY <1>1, <3>6
    <3>8. command \in Name
      BY <1>4, <2>3 DEF Name
    <3>9. QED
      BY <1>2, <3>1, <3>6, <3>7, <3>8, ClipSpares
  <2>4. QED
    BY <2>2, <2>3
<1>5. CASE Beds!FadeEnds
  <2>1. PICK e \in DOMAIN voices : voices[e].role = "fading" /\ voices' = Without(voices, e)
    BY <1>5, ClipsPlay DEF Beds!FadeEnds, Beds!Fading
  <2>2. \E k \in DOMAIN voices' : voices'[k] = voices[i]
    BY <1>1, <2>1, WithoutIs DEF SoundOK
  <2>3. QED
    BY <1>1, <2>2
<1>6. CASE Browser \/ UNCHANGED vars
  <2>1. \E k \in DOMAIN voices' : voices'[k] = voices[i]
    BY <1>2, <1>6, BrowserThins
  <2>2. QED
    BY <1>1, <2>1
<1>7. CASE StrobedEvent \/ BedEvent
  BY <1>4, <1>5, <1>7, ClipEvents
<1>8. QED
  BY <1>6, <1>7 DEF AudioNext, LatchEvent, PortEvent, Clips

\* Loops never fill the cap: there is one for a bit, and fewer bits that loop.
LEMMA LoopsFit ==
  ASSUME NEW vs, NEW up, PortOK(vs, up), Len(vs) = MaxVoices
  PROVE  \E i \in DOMAIN vs : ~vs[i].loop
<1> SUFFICES ASSUME \A i \in DOMAIN vs : vs[i].loop PROVE FALSE
  OBVIOUS
<1> DEFINE f == [i \in 1 .. MaxVoices |-> vs[i].name]
<1>1. vs \in Seq(Voice) /\ Arranged(vs, PortVoice(up), PortPair)
  BY DEF PortOK
<1>2. MaxVoices \in Nat /\ Cardinality(LoopBit) < MaxVoices
  BY CapAssumption
<1>3. DOMAIN vs = 1 .. MaxVoices
  BY <1>1, LenProperties
<1>4. \A i \in 1 .. MaxVoices : vs[i].name \in LoopBit
  BY <1>1, <1>3 DEF Arranged, PortVoice
<1>5. IsFiniteSet(LoopBit)
  <2>1. BitOrder \in Surjection(1 .. Len(BitOrder), Range(BitOrder))
    <3>1. BitOrder \in [1 .. Len(BitOrder) -> Range(BitOrder)]
      BY OrderIs, PortAssumption
    <3>2. \A t \in Range(BitOrder) : \E s \in 1 .. Len(BitOrder) : BitOrder[s] = t
      BY OrderIs
    <3>3. QED
      BY <3>1, <3>2 DEF Surjection
  <2>2. IsFiniteSet(1 .. Len(BitOrder))
    BY OrderIs, FS_Interval
  <2>3. IsFiniteSet(Range(BitOrder))
    BY <2>1, <2>2, FS_Surjection
  <2>4. QED
    BY <2>3, PortAssumption, FS_Subset
<1>6. IsFiniteSet(1 .. MaxVoices) /\ Cardinality(1 .. MaxVoices) = MaxVoices
  BY <1>2, FS_Interval
<1>7. f \in [1 .. MaxVoices -> LoopBit]
  BY <1>4
<1>8. PICK i \in 1 .. MaxVoices, j \in 1 .. MaxVoices : i # j /\ f[i] = f[j]
  <2> HIDE DEF f
  <2>1. QED
    BY <1>2, <1>5, <1>6, <1>7, FS_PigeonHole
<1>9. <<vs[i], vs[j]>> \notin PortPair /\ <<vs[j], vs[i]>> \notin PortPair
  BY <1>3, <1>8 DEF PortPair
<1>10. i = j
  BY <1>1, <1>3, <1>9, NeverBoth
<1>11. QED
  BY <1>8, <1>10

LEMMA PortSpares ==
  ASSUME NEW vs, NEW up, PortOK(vs, up), muted \in BOOLEAN, NEW name \in Name, NEW loop \in BOOLEAN,
         NEW bit \in LoopBit, NEW i \in DOMAIN vs, vs[i].name = bit
  PROVE  \E k \in DOMAIN Played(vs, name, loop) : Played(vs, name, loop)[k].name = bit
<1>1. /\ vs \in Seq(Voice) /\ Len(vs) <= MaxVoices
      /\ Arranged(vs, PortVoice(up), PortPair)
  BY DEF PortOK
<1>2. vs[i].loop
  BY <1>1 DEF Arranged, PortVoice
<1>3. \/ \E k \in DOMAIN Played(vs, name, loop) : Played(vs, name, loop)[k] = vs[i]
      \/ i = 1 /\ Len(vs) = MaxVoices /\ \A l \in DOMAIN vs : vs[l].loop
  BY <1>1, <1>2, PlayedSpares DEF Played, Role
<1>4. QED
  BY <1>3, LoopsFit

\* A loop whose bit stays up sounds on through the write, bit by bit.
LEMMA HeardSpares ==
  ASSUME TypeOK, SoundOK, PortInv, NEW on \in SUBSET Range(BitOrder),
         NEW bit \in LoopBit \cap on, \E i \in DOMAIN voices : voices[i].name = bit
  PROVE  \E k \in DOMAIN Ports!heard(voices, on) : Ports!heard(voices, on)[k].name = bit
<1> DEFINE N == Len(BitOrder)
           H == {p \in (0 .. N) \X Seq(Voice) : /\ PortOK(p[2], SoFar(on, Done(p[1])))
                                                /\ \E k \in DOMAIN p[2] : p[2][k].name = bit}
<1>1. N \in Nat /\ muted \in BOOLEAN
  BY OrderIs DEF TypeOK
<1>2. bit \in bits \cap looping
  BY DEF PortInv, Arranged, PortVoice
<1>3. <<0, voices>> \in H
  <2>1. Done(0) = {} /\ 0 \in 0 .. N
    BY <1>1, DoneSteps
  <2>2. PortOK(voices, bits \cap looping)
    BY DEF PortOK, SoundOK, PortInv
  <2>3. \A i \in DOMAIN voices : voices[i].loop => voices[i].name \in SoFar(on, {})
    BY <2>2 DEF PortOK, Arranged, PortVoice, SoFar
  <2>4. PortOK(voices, SoFar(on, {}))
    BY <2>2, <2>3, PortWidens
  <2>5. QED
    BY <2>1, <2>4 DEF SoundOK
<1>4. ASSUME NEW n \in 1 .. N, NEW ws, <<n - 1, ws>> \in H
      PROVE  <<n, Ports!heardBit(ws, on, BitOrder[n])>> \in H
  <2> DEFINE xs == Ports!heardBit(ws, on, BitOrder[n])
  <2>1. n \in 0 .. N /\ BitOrder[n] \in Range(BitOrder) /\ BitOrder[n] \in Name
    BY <1>1, OrderIs DEF Name
  <2>2. Done(n) = Done(n - 1) \cup {BitOrder[n]} /\ BitOrder[n] \notin Done(n - 1)
    BY DoneSteps
  <2>3. PortOK(ws, SoFar(on, Done(n - 1))) /\ ws \in Seq(Voice)
    BY <1>4
  <2>4. PICK i \in DOMAIN ws : ws[i].name = bit
    BY <1>4
  <2>5. PortOK(xs, SoFar(on, Done(n)))
    BY <1>1, <2>1, <2>2, <2>3, HeardBitFits
  <2>6. /\ BitOrder[n] \in Ports!Starts(on) => BitOrder[n] # bit
        /\ BitOrder[n] \in Ports!Ends(on) => BitOrder[n] # bit
    BY <1>2 DEF Ports!Starts, Ports!Ends
  <2>7. ASSUME NEW loop \in BOOLEAN
        PROVE  \E k \in DOMAIN Played(ws, BitOrder[n], loop) :
                 Played(ws, BitOrder[n], loop)[k].name = bit
    <3> HIDE DEF H, N, xs
    <3>1. bit \in LoopBit /\ muted \in BOOLEAN /\ BitOrder[n] \in Name /\ ws[i].name = bit
      BY <1>1, <2>1, <2>4
    <3>2. PortOK(ws, SoFar(on, Done(n - 1)))
      BY <2>3
    <3>3. QED
      BY <2>7, <3>1, <3>2, PortSpares
  <2>8. ASSUME BitOrder[n] # bit
        PROVE  \E k \in DOMAIN Stopped(ws, BitOrder[n]) : Stopped(ws, BitOrder[n])[k].name = bit
    <3> HIDE DEF H, N, xs
    <3>1. ws[i].name # BitOrder[n]
      BY <2>4, <2>8
    <3>2. PICK k \in DOMAIN Stopped(ws, BitOrder[n]) : Stopped(ws, BitOrder[n])[k] = ws[i]
      <4>1. ws \in Seq(Voice) /\ i \in DOMAIN ws
        BY <2>3, <2>4
      <4>2. QED
        BY <3>1, <4>1, StoppedSpares, ZenonT(40)
    <3>3. QED
      BY <2>4, <3>2, Zenon
  <2>9. \E k \in DOMAIN xs : xs[k].name = bit
    <3>1. \/ xs = Played(ws, BitOrder[n], TRUE)
          \/ xs = Stopped(ws, BitOrder[n]) /\ BitOrder[n] # bit
          \/ xs = Played(ws, BitOrder[n], FALSE)
          \/ xs = ws
      BY <2>6, HeardBitIs
    <3> HIDE DEF xs
    <3>2. CASE xs = Played(ws, BitOrder[n], TRUE)
      BY <2>7, <3>2
    <3>3. CASE xs = Stopped(ws, BitOrder[n]) /\ BitOrder[n] # bit
      BY <2>8, <3>3
    <3>4. CASE xs = Played(ws, BitOrder[n], FALSE)
      BY <2>7, <3>4
    <3>5. CASE xs = ws
      BY <2>4, <3>5
    <3>6. QED
      BY <3>1, <3>2, <3>3, <3>4, <3>5
  <2>10. xs \in Seq(Voice)
    BY <2>5 DEF PortOK
  <2> HIDE DEF xs
  <2>11. <<n, xs>> \in H
    BY <2>1, <2>5, <2>9, <2>10
  <2>12. QED
    BY <2>11 DEF xs
<1>5. <<N, Ports!heard(voices, on)>> \in H
  <2> HIDE DEF H
  <2>1. QED
    BY <1>3, <1>4, BitByBit
<1>6. QED
  BY <1>5

LEMMA PortTune ==
  ASSUME TypeOK, SoundOK, PortInv, model = "bitports", [AudioNext]_vars, AudioInv'
  PROVE  Ports!TuneSurvives
<1> SUFFICES ASSUME NEW bit \in LoopBit, NEW i \in Ports!Loops, voices[i].name = bit,
                    bit \in bits', ~Ports!ToggleMute
             PROVE  (\E k \in Ports!Loops : voices[k].name = bit)'
  BY DEF Ports!TuneSurvives
<1>1. i \in DOMAIN voices
  BY DEF Ports!Loops
<1>2. PortInv' /\ model' = model
  BY DEF AudioInv, AudioNext, LatchEvent, StrobedEvent, BedEvent, PortEvent, Browser, vars
<1>3. \A k \in DOMAIN voices' : voices'[k].name = bit => voices'[k].loop
  BY <1>2 DEF PortInv, Arranged, PortVoice
<1>4. SUFFICES \E k \in DOMAIN voices' : voices'[k].name = bit
  BY <1>3 DEF Ports!Loops
<1>5. ASSUME NEW on \in SUBSET Ports!Bit, Ports!PortWrite(on)
      PROVE  \E k \in DOMAIN voices' : voices'[k].name = bit
  <2>1. on \in SUBSET Range(BitOrder)
    BY DEF Ports!Bit, Ports!Range, Range
  <2>2. voices' = Ports!heard(voices, on) /\ bit \in LoopBit \cap on
    BY <1>5 DEF Ports!PortWrite
  <2>3. QED
    BY <1>1, <2>1, <2>2, HeardSpares
<1>6. CASE Browser \/ UNCHANGED vars
  <2>1. voices[i].loop
    BY DEF Ports!Loops
  <2>2. \E k \in DOMAIN voices' : voices'[k] = voices[i]
    BY <1>1, <1>6, <2>1, BrowserThins
  <2>3. QED
    BY <2>2
<1>7. QED
  BY <1>5, <1>6
     DEF AudioNext, LatchEvent, StrobedEvent, BedEvent, PortEvent, Ports!Next

\* TuneSurvivesEffects: whatever sounds with it and whatever the cap, the tune plays on until
\* a write names another one, its bit falls or the sound is switched.
THEOREM EveryTuneSurvives == AudioSpec => TuneSurvivesEffects
<1>1. AudioInv /\ AudioInv' /\ [AudioNext]_vars =>
        /\ model = "latch" => Latch!TuneSurvives
        /\ model \in Clips => Beds!TuneSurvives
        /\ model = "bitports" => Ports!TuneSurvives
  BY LatchTune, ClipTune, PortTune DEF AudioInv
<1>2. QED
  BY <1>1, AudioInvariant, PTL DEF AudioSpec, TuneSurvivesEffects

-----------------------------------------------------------------------------
(* One-shots in order of insertion, and what leaves their order alone.     *)

\* The one way to enumerate places in order.
LEMMA OneOrder ==
  ASSUME NEW n \in Nat, NEW S \in SUBSET (1 .. n), NEW m \in Nat, NEW p \in [1 .. m -> S],
         \A k, l \in 1 .. m : k < l => p[k] < p[l],
         \A i \in S : \E k \in 1 .. m : p[k] = i
  PROVE  m = Cardinality(S) /\ \A k \in 1 .. m : p[k] = Place(S, k)
<1>1. \A k, l \in 1 .. m : (p[k] <= p[l] <=> k <= l) /\ (p[k] = p[l] => k = l)
  <2> SUFFICES ASSUME NEW k \in 1 .. m, NEW l \in 1 .. m
               PROVE  (p[k] <= p[l] <=> k <= l) /\ (p[k] = p[l] => k = l)
    OBVIOUS
  <2>1. p[k] \in Int /\ p[l] \in Int
    <3>1. p[k] \in S /\ p[l] \in S
      OBVIOUS
    <3>2. p[k] \in 1 .. n /\ p[l] \in 1 .. n
      BY <3>1
    <3>3. QED
      BY <3>2
  <2>2. (k < l => p[k] < p[l]) /\ (l < k => p[l] < p[k]) /\ (k = l => p[k] = p[l])
    OBVIOUS
  <2>3. k < l \/ k = l \/ l < k
    OBVIOUS
  <2>4. QED
    BY <2>1, <2>2, <2>3
<1>2. Cardinality(S) = m
  <2>1. p \in Bijection(1 .. m, S)
    BY <1>1 DEF Bijection, Injection, Surjection, IsInjective
  <2>2. IsFiniteSet(1 .. m) /\ Cardinality(1 .. m) = m
    BY FS_Interval
  <2>3. QED
    BY <2>1, <2>2, FS_Bijection DEF ExistsBijection
<1>3. ASSUME NEW k \in 1 .. m PROVE RankIn(S, p[k]) = k
  <2> DEFINE T == {j \in S : j <= p[k]}
             g == [l \in 1 .. k |-> p[l]]
  <2>1. \A l \in 1 .. k : l \in 1 .. m /\ l <= k
    OBVIOUS
  <2>2. \A l \in 1 .. m : l <= k => l \in 1 .. k
    OBVIOUS
  <2>3. \A l \in 1 .. k : p[l] \in T
    BY <1>1, <2>1
  <2>4. \A j \in T : \E l \in 1 .. k : p[l] = j
    BY <1>1, <2>2
  <2> HIDE DEF T
  <2>5. g \in [1 .. k -> T]
    BY <2>3
  <2>6. g \in Bijection(1 .. k, T)
    BY <1>1, <2>1, <2>4, <2>5 DEF Bijection, Injection, Surjection, IsInjective
  <2>7. IsFiniteSet(1 .. k) /\ Cardinality(1 .. k) = k
    BY FS_Interval
  <2> HIDE DEF g
  <2>8. Cardinality(T) = k
    BY <2>6, <2>7, FS_Bijection DEF ExistsBijection
  <2>9. QED
    BY <2>8 DEF RankIn, T
<1>4. \A k \in 1 .. m : p[k] = Place(S, k)
  BY <1>3, PlacesInOrder
<1>5. QED
  BY <1>2, <1>4

ShotsOf(vs) == {i \in DOMAIN vs : ~vs[i].loop}

LEMMA OneShotsAre ==
  ASSUME NEW vs \in Seq(Voice)
  PROVE  /\ OneShots(vs) = only(vs, ShotsOf(vs)) /\ ShotsOf(vs) \in SUBSET DOMAIN vs
         /\ OneShots(vs) \in Seq(Voice)
  BY OnlyKeeps DEF OneShots, ShotsOf

\* Stopping loops leaves the one-shots in order.
LEMMA OneShotsOfOnly ==
  ASSUME NEW vs \in Seq(Voice), NEW S \in SUBSET DOMAIN vs, ShotsOf(vs) \subseteq S
  PROVE  OneShots(only(vs, S)) = OneShots(vs)
<1> DEFINE ws == only(vs, S)
           O == ShotsOf(vs)
           R == ShotsOf(ws)
           m == Cardinality(R)
           p == [k \in 1 .. m |-> Place(S, Place(R, k))]
<1>1. /\ Len(vs) \in Nat /\ DOMAIN vs = 1 .. Len(vs)
      /\ ws \in Seq(Voice) /\ Len(ws) \in Nat /\ DOMAIN ws = 1 .. Len(ws)
      /\ DOMAIN ws = 1 .. Cardinality(S)
      /\ \A l \in DOMAIN ws : ws[l] = vs[Place(S, l)]
  BY OnlyKeeps, LenProperties
<1>2. /\ O \in SUBSET DOMAIN vs /\ \A i \in DOMAIN vs : i \in O <=> ~vs[i].loop
      /\ R \in SUBSET DOMAIN ws /\ \A l \in DOMAIN ws : l \in R <=> ~ws[l].loop
  BY DEF ShotsOf
<1> HIDE DEF ws, O, R
<1>3. /\ \A l \in DOMAIN ws : Place(S, l) \in S
      /\ \A i \in S : RankIn(S, i) \in DOMAIN ws /\ Place(S, RankIn(S, i)) = i
      /\ \A k, l \in DOMAIN ws : k < l => Place(S, k) < Place(S, l)
  BY <1>1, PlacesInOrder
<1>4. /\ \A k \in 1 .. m : Place(R, k) \in R
      /\ \A l \in R : RankIn(R, l) \in 1 .. m /\ Place(R, RankIn(R, l)) = l
      /\ \A k, l \in 1 .. m : k < l => Place(R, k) < Place(R, l)
  BY <1>1, <1>2, PlacesInOrder
<1>5. m \in Nat
  BY <1>1, <1>2, RankSteps
<1>6. /\ OneShots(vs) = only(vs, O) /\ Len(only(vs, O)) = Cardinality(O)
      /\ only(vs, O) \in Seq(Voice)
      /\ \A k \in 1 .. Cardinality(O) : only(vs, O)[k] = vs[Place(O, k)]
  BY OneShotsAre, <1>2, OnlyKeeps DEF O
<1>7. /\ OneShots(ws) = only(ws, R) /\ Len(only(ws, R)) = m
      /\ only(ws, R) \in Seq(Voice)
      /\ \A k \in 1 .. m : only(ws, R)[k] = ws[Place(R, k)]
  BY OneShotsAre, <1>1, <1>2, OnlyKeeps DEF R
<1> HIDE DEF m
<1>8. \A k \in 1 .. m : p[k] = Place(S, Place(R, k)) /\ p[k] \in O
  BY <1>1, <1>2, <1>3, <1>4
<1>9. p \in [1 .. m -> O]
  BY <1>8
<1>10. \A k, l \in 1 .. m : k < l => p[k] < p[l]
  BY <1>2, <1>3, <1>4
<1>11. ASSUME NEW i \in O PROVE \E k \in 1 .. m : p[k] = i
  <2>1. i \in S
    BY <1>2 DEF O
  <2>2. RankIn(S, i) \in DOMAIN ws /\ Place(S, RankIn(S, i)) = i
    BY <1>3, <2>1
  <2>3. RankIn(S, i) \in R
    BY <1>1, <1>2, <2>2
  <2>4. QED
    BY <1>4, <1>8, <2>2, <2>3
<1> HIDE DEF p
<1>12. m = Cardinality(O) /\ \A k \in 1 .. m : p[k] = Place(O, k)
  <2>1. Len(vs) \in Nat /\ O \in SUBSET (1 .. Len(vs))
    BY <1>1, <1>2
  <2>2. QED
    BY <1>5, <1>9, <1>10, <1>11, <2>1, OneOrder
<1>13. \A k \in 1 .. m : only(ws, R)[k] = only(vs, O)[k]
  BY <1>1, <1>2, <1>4, <1>6, <1>7, <1>8, <1>12
<1>14. only(ws, R) = only(vs, O)
  BY <1>6, <1>7, <1>12, <1>13, SeqEqual
<1>15. QED
  BY <1>6, <1>7, <1>14 DEF ws

\* A voice appended is the last of the one-shots, or none of them.
LEMMA OneShotsOfAppend ==
  ASSUME NEW vs \in Seq(Voice), NEW voice \in Voice
  PROVE  OneShots(Append(vs, voice)) =
           IF voice.loop THEN OneShots(vs) ELSE Append(OneShots(vs), voice)
<1> DEFINE ws == Append(vs, voice)
           n == Len(vs)
           O == ShotsOf(vs)
           R == ShotsOf(ws)
           c == Cardinality(O)
<1>1. n \in Nat /\ DOMAIN vs = 1 .. n
  BY LenProperties
<1>2. /\ ws \in Seq(Voice) /\ DOMAIN ws = 1 .. (n + 1) /\ Len(ws) = n + 1
      /\ \A i \in 1 .. n : ws[i] = vs[i]
      /\ ws[n + 1] = voice
  BY <1>1, AppendProperties, LenProperties
<1>3. /\ O \in SUBSET DOMAIN vs /\ \A i \in DOMAIN vs : i \in O <=> ~vs[i].loop
      /\ R \in SUBSET DOMAIN ws /\ \A l \in DOMAIN ws : l \in R <=> ~ws[l].loop
  BY DEF ShotsOf
<1>4. /\ OneShots(vs) = only(vs, O) /\ Len(only(vs, O)) = c /\ c \in Nat
      /\ only(vs, O) \in Seq(Voice) /\ DOMAIN only(vs, O) = 1 .. c
      /\ \A k \in 1 .. c : only(vs, O)[k] = vs[Place(O, k)]
  BY OneShotsAre, <1>1, <1>3, OnlyKeeps
<1> HIDE DEF ws, O, R, c, n
<1>5. /\ OneShots(ws) = only(ws, R) /\ Len(only(ws, R)) = Cardinality(R)
      /\ only(ws, R) \in Seq(Voice)
      /\ \A k \in 1 .. Cardinality(R) : only(ws, R)[k] = ws[Place(R, k)]
  BY OneShotsAre, <1>2, <1>3, OnlyKeeps DEF R
<1>6. \A i \in 1 .. (n + 1) : i \in 1 .. n \/ i = n + 1
  BY <1>1
<1>7. /\ \A k \in 1 .. c : Place(O, k) \in O
      /\ \A i \in O : RankIn(O, i) \in 1 .. c /\ Place(O, RankIn(O, i)) = i
      /\ \A k, l \in 1 .. c : k < l => Place(O, k) < Place(O, l)
  BY <1>1, <1>3, PlacesInOrder DEF c
<1>8. /\ \A i \in 1 .. n : i \in 1 .. (n + 1) /\ i # n + 1 /\ i < n + 1
      /\ n + 1 \in 1 .. (n + 1)
  BY <1>1
<1>9. CASE voice.loop
  <2>1. \A i : i \in R <=> i \in O
    BY <1>1, <1>2, <1>3, <1>6, <1>8, <1>9
  <2>2. R = O
    BY <2>1
  <2>3. \A k \in 1 .. c : only(ws, R)[k] = only(vs, O)[k]
    BY <1>1, <1>2, <1>3, <1>4, <1>5, <1>7, <2>2 DEF c
  <2>4. only(ws, R) = only(vs, O)
    BY <1>4, <1>5, <2>2, <2>3, SeqEqual DEF c
  <2>5. QED
    BY <1>4, <1>5, <1>9, <2>4 DEF ws
<1>10. CASE ~voice.loop
  <2> DEFINE p == [k \in 1 .. (c + 1) |-> IF k \in 1 .. c THEN Place(O, k) ELSE n + 1]
  <2>1. \A i : i \in R <=> i \in O \/ i = n + 1
    BY <1>1, <1>2, <1>3, <1>6, <1>8, <1>10
  <2>2. \A k \in 1 .. (c + 1) : k \in 1 .. c \/ k = c + 1
    BY <1>4
  <2>3. /\ \A k \in 1 .. c : k \in 1 .. (c + 1) /\ k < c + 1
        /\ c + 1 \in 1 .. (c + 1) /\ c + 1 \notin 1 .. c
    BY <1>4
  <2>4. (\A k \in 1 .. c : p[k] = Place(O, k)) /\ p[c + 1] = n + 1
    BY <2>3
  <2>5. \A k \in 1 .. (c + 1) : p[k] \in R
    BY <1>7, <2>1, <2>2, <2>4
  <2>6. p \in [1 .. (c + 1) -> R]
    BY <2>5
  <2> HIDE DEF p
  <2>7. ASSUME NEW k \in 1 .. (c + 1), NEW l \in 1 .. (c + 1), k < l PROVE p[k] < p[l]
    <3>1. k \in 1 .. c
      BY <1>4, <2>7
    <3>2. CASE l \in 1 .. c
      BY <1>7, <2>4, <2>7, <3>1, <3>2
    <3>3. CASE l = c + 1
      <4>1. Place(O, k) \in 1 .. n
        BY <1>1, <1>3, <1>7, <3>1
      <4>2. QED
        BY <1>8, <2>4, <3>1, <3>3, <4>1
    <3>4. QED
      BY <2>2, <3>2, <3>3
  <2>8. \A i \in R : \E k \in 1 .. (c + 1) : p[k] = i
    BY <1>7, <2>1, <2>3, <2>4
  <2>9. c + 1 = Cardinality(R) /\ \A k \in 1 .. (c + 1) : p[k] = Place(R, k)
    <3>1. n + 1 \in Nat /\ c + 1 \in Nat /\ R \in SUBSET (1 .. (n + 1))
      BY <1>1, <1>2, <1>3, <1>4
    <3>2. QED
      BY <2>6, <2>7, <2>8, <3>1, OneOrder
  <2> DEFINE xs == Append(only(vs, O), voice)
  <2>10. /\ xs \in Seq(Voice) /\ Len(xs) = c + 1 /\ xs[c + 1] = voice
         /\ \A k \in 1 .. c : xs[k] = only(vs, O)[k]
    BY <1>4, AppendProperties
  <2> HIDE DEF xs
  <2>11. ASSUME NEW k \in 1 .. (c + 1) PROVE only(ws, R)[k] = xs[k]
    <3>1. only(ws, R)[k] = ws[p[k]]
      BY <1>5, <2>9
    <3>2. CASE k \in 1 .. c
      <4>1. p[k] \in 1 .. n /\ p[k] = Place(O, k)
        BY <1>1, <1>3, <1>7, <2>4, <3>2
      <4>2. QED
        BY <1>2, <1>4, <2>10, <3>1, <3>2, <4>1
    <3>3. CASE k = c + 1
      BY <1>2, <2>4, <2>10, <3>1, <3>3
    <3>4. QED
      BY <2>2, <3>2, <3>3
  <2>12. only(ws, R) = xs
    BY <1>5, <2>9, <2>10, <2>11, SeqEqual
  <2>13. QED
    BY <1>4, <1>5, <1>10, <2>12 DEF ws, xs
<1>11. QED
  BY <1>9, <1>10

\* More of the same: what was is a prefix of what is.
Extends(s, t) == Len(s) <= Len(t) /\ \A k \in 1 .. Len(s) : t[k] = s[k]

LEMMA ExtendsIsPrefix ==
  ASSUME NEW s \in Seq(Voice), NEW t \in Seq(Voice), Extends(s, t)
  PROVE  IsPrefix(s, t)
<1> DEFINE n == Len(s)
<1>1. /\ n \in Nat /\ Len(t) \in Nat /\ n <= Len(t)
      /\ \A k \in 1 .. n : s[k] \in Voice /\ t[k] = s[k]
  BY LenProperties, ElementOfSeq DEF Extends
<1>2. /\ SubSeq(s, 1, n) \in Seq(Voice) /\ SubSeq(t, 1, n) \in Seq(Voice)
      /\ Len(SubSeq(s, 1, n)) = Len(SubSeq(t, 1, n))
  BY <1>1, SubSeqProperties
<1>3. SubSeq(t, 1, n) = [k \in 1 .. n |-> t[k]] /\ SubSeq(s, 1, n) = [k \in 1 .. n |-> s[k]]
  BY <1>1
<1>4. SubSeq(s, 1, n) = SubSeq(t, 1, n)
  BY <1>1, <1>3
<1>5. QED
  BY <1>1, <1>4 DEF IsPrefix

\* A sound played while there is room stops nothing.
LEMMA PlayedExtends ==
  ASSUME NEW vs \in Seq(Voice), Len(vs) < MaxVoices, muted \in BOOLEAN,
         NEW name \in Name, NEW loop \in BOOLEAN, NEW was \in Seq(Voice),
         Extends(was, OneShots(vs))
  PROVE  /\ Extends(was, OneShots(Played(vs, name, loop)))
         /\ Len(Played(vs, name, loop)) <= Len(vs) + 1
<1> DEFINE voice == [name |-> name, loop |-> loop, quiet |-> muted, role |-> "named"]
<1>1. voice \in Voice
  BY DEF Voice, Role
<1>2. Played(vs, name, loop) = IF Playable(name) THEN Added(vs, voice) ELSE vs
  BY DEF PlayedAs, Played
<1> HIDE DEF voice
<1>3. Len(vs) \in Nat /\ MaxVoices \in Nat
  BY LenProperties, CapAssumption
<1>4. Added(vs, voice) = Append(vs, voice) /\ Len(Append(vs, voice)) = Len(vs) + 1
  <2>1. ~(Len(vs) >= MaxVoices)
    BY <1>3
  <2>2. QED
    BY <2>1, AppendProperties DEF Added
<1>5. Extends(was, OneShots(Append(vs, voice)))
  <2>1. OneShots(vs) \in Seq(Voice)
    BY OneShotsAre
  <2> DEFINE xs == OneShots(vs)
  <2> HIDE DEF xs
  <2>2. /\ xs \in Seq(Voice) /\ Len(Append(xs, voice)) = Len(xs) + 1
        /\ Len(xs) \in Nat /\ Len(was) \in Nat
        /\ \A k \in 1 .. Len(xs) : Append(xs, voice)[k] = xs[k]
    BY <1>1, <2>1, AppendProperties, LenProperties DEF xs
  <2>3. Extends(was, xs)
    BY DEF xs
  <2>4. Len(was) <= Len(Append(xs, voice)) /\ \A k \in 1 .. Len(was) : k \in 1 .. Len(xs)
    BY <2>2, <2>3 DEF Extends
  <2>5. Extends(was, Append(xs, voice))
    BY <2>2, <2>3, <2>4 DEF Extends
  <2>6. QED
    BY <1>1, <2>3, <2>5, OneShotsOfAppend DEF xs
<1>6. QED
  BY <1>2, <1>3, <1>4, <1>5

\* The end of a name that only loops have stops no one-shot.
LEMMA StoppedExtends ==
  ASSUME NEW vs \in Seq(Voice), NEW name, \A i \in DOMAIN vs : vs[i].name = name => vs[i].loop
  PROVE  OneShots(Stopped(vs, name)) = OneShots(vs)
<1> DEFINE S == {i \in DOMAIN vs : vs[i].name # name}
<1>1. S \in SUBSET DOMAIN vs /\ ShotsOf(vs) \subseteq S
  BY DEF ShotsOf
<1>2. Stopped(vs, name) = only(vs, S)
  BY DEF Stopped
<1> HIDE DEF S
<1>3. QED
  BY <1>1, <1>2, OneShotsOfOnly

LEMMA ExtendsItself ==
  ASSUME NEW s \in Seq(Voice)
  PROVE  Extends(s, s)
  BY LenProperties DEF Extends

\* A latch write, with room for one more.
LEMMA LatchShots ==
  ASSUME TypeOK, SoundOK, LatchInv, Latch!LatchWrite, Len(voices) < MaxVoices, voices' \in Seq(Voice)
  PROVE  IsPrefix(OneShots(voices), OneShots(voices'))
<1> DEFINE ws == Latch!ended(voices)
           was == OneShots(voices)
<1>1. was \in Seq(Voice) /\ OneShots(voices') \in Seq(Voice)
  BY OneShotsAre DEF SoundOK
<1>2. ws \in Seq(Voice) /\ Len(ws) < MaxVoices /\ OneShots(ws) = was
  <2>1. CASE background = None
    BY <2>1 DEF Latch!ended, SoundOK
  <2>2. CASE background # None
    <3>1. ws = Stopped(voices, background)
      BY <2>2, LatchPlays DEF Latch!ended
    <3>2. background \in LoopTune
      BY <2>2 DEF TypeOK
    <3>3. \A i \in DOMAIN voices : voices[i].name = background => voices[i].loop
      BY <3>2 DEF LatchInv, Arranged, LatchVoice
    <3>4. OneShots(Stopped(voices, background)) = was
      BY <3>3, StoppedExtends DEF SoundOK
    <3>5. Stopped(voices, background) \in Seq(Voice) /\ Len(Stopped(voices, background)) <= Len(voices)
      BY StoppedIs DEF SoundOK
    <3>6. /\ Len(voices) \in Nat /\ Len(Stopped(voices, background)) \in Nat
          /\ MaxVoices \in Nat
      BY <3>5, LenProperties, CapAssumption DEF SoundOK
    <3>7. Len(Stopped(voices, background)) < MaxVoices
      BY <3>5, <3>6
    <3>8. QED
      BY <3>1, <3>4, <3>5, <3>7
  <2>3. QED
    BY <2>1, <2>2
<1> HIDE DEF ws, was
<1>3. Extends(was, OneShots(ws)) /\ muted \in BOOLEAN
  BY <1>1, <1>2, ExtendsItself DEF TypeOK
<1>4. \A name \in Name, loop \in BOOLEAN : Extends(was, OneShots(Played(ws, name, loop)))
  BY <1>1, <1>2, <1>3, PlayedExtends
<1>5. \/ voices' = ws
      \/ \E name \in Name, loop \in BOOLEAN : voices' = Played(ws, name, loop)
  <2>1. LoopTune \subseteq Name /\ PulseTune \subseteq Name
    BY DEF Name
  <2>2. CASE Latch!LatchSilence
    BY <2>2 DEF Latch!LatchSilence, ws
  <2>3. ASSUME NEW tune \in LoopTune, Latch!LatchLoop(tune) PROVE voices' = Played(ws, tune, TRUE)
    BY <2>3, LatchPlays DEF Latch!LatchLoop, ws
  <2>4. ASSUME NEW tune \in PulseTune, Latch!LatchPulse(tune) PROVE voices' = Played(ws, tune, FALSE)
    BY <2>4, LatchPlays DEF Latch!LatchPulse, ws
  <2>5. QED
    BY <2>1, <2>2, <2>3, <2>4 DEF Latch!LatchWrite
<1>6. Extends(was, OneShots(voices'))
  BY <1>3, <1>4, <1>5
<1>7. QED
  BY <1>1, <1>6, ExtendsIsPrefix DEF was

\* A write of the port, with room for a voice a bit.
LEMMA PortShots ==
  ASSUME TypeOK, SoundOK, PortInv, NEW on \in SUBSET Range(BitOrder),
         Len(voices) + Len(BitOrder) <= MaxVoices
  PROVE  Extends(OneShots(voices), OneShots(Ports!heard(voices, on)))
<1> DEFINE N == Len(BitOrder)
           was == OneShots(voices)
           H == {p \in (0 .. N) \X Seq(Voice) : /\ PortOK(p[2], SoFar(on, Done(p[1])))
                                                /\ Len(p[2]) <= Len(voices) + p[1]
                                                /\ Extends(was, OneShots(p[2]))}
<1>1. /\ N \in Nat /\ muted \in BOOLEAN /\ was \in Seq(Voice)
      /\ Len(voices) \in Nat /\ MaxVoices \in Nat /\ voices \in Seq(Voice)
  BY OrderIs, OneShotsAre, LenProperties, CapAssumption DEF TypeOK, SoundOK
<1>2. Extends(was, was)
  BY <1>1, ExtendsItself
<1> HIDE DEF was
<1>3. <<0, voices>> \in H
  <2>1. Done(0) = {} /\ 0 \in 0 .. N /\ Len(voices) <= Len(voices) + 0
    BY <1>1, DoneSteps
  <2>2. PortOK(voices, bits \cap looping)
    BY DEF PortOK, SoundOK, PortInv
  <2>3. \A i \in DOMAIN voices : voices[i].loop => voices[i].name \in SoFar(on, {})
    BY <2>2 DEF PortOK, Arranged, PortVoice, SoFar
  <2>4. PortOK(voices, SoFar(on, {}))
    BY <2>2, <2>3, PortWidens
  <2>5. QED
    BY <1>1, <1>2, <2>1, <2>4 DEF was
<1>4. ASSUME NEW n \in 1 .. N, NEW ws, <<n - 1, ws>> \in H
      PROVE  <<n, Ports!heardBit(ws, on, BitOrder[n])>> \in H
  <2> DEFINE xs == Ports!heardBit(ws, on, BitOrder[n])
  <2>1. n \in 0 .. N /\ BitOrder[n] \in Range(BitOrder) /\ BitOrder[n] \in Name
    BY <1>1, OrderIs DEF Name
  <2>2. Done(n) = Done(n - 1) \cup {BitOrder[n]} /\ BitOrder[n] \notin Done(n - 1)
    BY DoneSteps
  <2>3. /\ PortOK(ws, SoFar(on, Done(n - 1))) /\ ws \in Seq(Voice) /\ Len(ws) \in Nat
        /\ Len(ws) <= Len(voices) + (n - 1) /\ Extends(was, OneShots(ws))
    BY <1>4, LenProperties
  <2>4. Len(ws) < MaxVoices /\ Len(ws) + 1 <= Len(voices) + n
    BY <1>1, <2>1, <2>3
  <2>5. PortOK(xs, SoFar(on, Done(n)))
    BY <1>1, <2>1, <2>2, <2>3, HeardBitFits
  <2>6. \A loop \in BOOLEAN : /\ Extends(was, OneShots(Played(ws, BitOrder[n], loop)))
                              /\ Len(Played(ws, BitOrder[n], loop)) <= Len(ws) + 1
    BY <1>1, <2>1, <2>3, <2>4, PlayedExtends
  <2>7. ASSUME BitOrder[n] \in LoopBit
        PROVE  /\ Extends(was, OneShots(Stopped(ws, BitOrder[n])))
               /\ Len(Stopped(ws, BitOrder[n])) <= Len(ws)
    <3>1. \A i \in DOMAIN ws : ws[i].name = BitOrder[n] => ws[i].loop
      BY <2>3, <2>7 DEF PortOK, Arranged, PortVoice
    <3>2. OneShots(Stopped(ws, BitOrder[n])) = OneShots(ws)
      BY <2>3, <3>1, StoppedExtends
    <3>3. QED
      BY <2>3, <3>2, StoppedIs
  <2>8. \/ xs = Played(ws, BitOrder[n], TRUE)
        \/ xs = Stopped(ws, BitOrder[n]) /\ BitOrder[n] \in LoopBit
        \/ xs = Played(ws, BitOrder[n], FALSE)
        \/ xs = ws
    BY HeardBitIs DEF Ports!Ends
  <2> HIDE DEF xs
  <2>9. Extends(was, OneShots(xs)) /\ (Len(xs) <= Len(ws) + 1 \/ Len(xs) <= Len(ws))
    <3>1. CASE xs = Played(ws, BitOrder[n], TRUE)
      BY <2>6, <3>1
    <3>2. CASE xs = Stopped(ws, BitOrder[n]) /\ BitOrder[n] \in LoopBit
      BY <2>7, <3>2
    <3>3. CASE xs = Played(ws, BitOrder[n], FALSE)
      BY <2>6, <3>3
    <3>4. CASE xs = ws
      BY <2>3, <3>4
    <3>5. QED
      BY <2>8, <3>1, <3>2, <3>3, <3>4
  <2>10. xs \in Seq(Voice) /\ Len(xs) \in Nat
    BY <2>5, LenProperties DEF PortOK
  <2>11. Len(xs) <= Len(voices) + n
    BY <1>1, <2>1, <2>3, <2>4, <2>9, <2>10
  <2>12. <<n, xs>> \in H
    BY <2>1, <2>5, <2>9, <2>10, <2>11
  <2>13. QED
    BY <2>12 DEF xs
<1>5. <<N, Ports!heard(voices, on)>> \in H
  <2> HIDE DEF H
  <2>1. QED
    BY <1>3, <1>4, BitByBit
<1>6. QED
  BY <1>5 DEF was

\* OneShotsFinish: the one-shots that sound before a latch or port write with room for what
\* it plays sound after it, in the same order and before any new one.
THEOREM EveryOneShotFinishes == AudioSpec => OneShotsFinish
<1>1. ASSUME AudioInv, AudioInv', [AudioNext]_vars,
             \/ model = "latch" /\ Latch!LatchWrite /\ Len(voices) < MaxVoices
             \/ model = "bitports" /\ bits' # bits /\ Len(voices) + Len(BitOrder) <= MaxVoices
      PROVE  IsPrefix(OneShots(voices), OneShots(voices'))
  <2>1. TypeOK /\ SoundOK /\ voices \in Seq(Voice) /\ voices' \in Seq(Voice)
    BY <1>1 DEF AudioInv, SoundOK
  <2>2. CASE model = "latch" /\ Latch!LatchWrite /\ Len(voices) < MaxVoices
    BY <1>1, <2>1, <2>2, LatchShots DEF AudioInv
  <2>3. CASE model = "bitports" /\ bits' # bits /\ Len(voices) + Len(BitOrder) <= MaxVoices
    <3>1. PICK on \in SUBSET Ports!Bit : Ports!PortWrite(on)
      BY <1>1, <2>3 DEF AudioNext, LatchEvent, StrobedEvent, BedEvent, PortEvent, Browser, vars,
                        dispatchers, Ports!Next, Ports!ToggleMute
    <3>2. on \in SUBSET Range(BitOrder) /\ voices' = Ports!heard(voices, on)
      BY <3>1 DEF Ports!Bit, Ports!Range, Range, Ports!PortWrite
    <3>3. Extends(OneShots(voices), OneShots(voices'))
      BY <1>1, <2>1, <2>3, <3>2, PortShots DEF AudioInv
    <3>4. QED
      BY <2>1, <3>3, OneShotsAre, ExtendsIsPrefix
  <2>4. QED
    BY <1>1, <2>2, <2>3
<1>2. QED
  BY <1>1, AudioInvariant, PTL DEF AudioSpec, OneShotsFinish
=============================================================================
