------------------------- MODULE PlanAndPageProofs --------------------------
(***************************************************************************)
(* Proofs about Watching and about PlanClaims, for every set of runs and   *)
(* of rooms, every capacity of the channel, every bound of a history       *)
(* answer and of a tab, and every plan a person may have written.          *)
(*                                                                         *)
(* First the pages: a page is a reading of the ledger, what a person is    *)
(* answered is as new as what they were shown, and the session being read  *)
(* gives way last. Then the plan: the file follows the ledger through      *)
(* every refusal and crash of a settlement, and what is stuck behind a     *)
(* stopped node is never offered.                                          *)
(***************************************************************************)
EXTENDS Watching, PlanClaims, SequenceTheorems, FunctionTheorems, FiniteSetTheorems,
        NaturalsInduction, WellFoundedInduction, TLAPS

-----------------------------------------------------------------------------
(* Sets of naturals.                                                       *)

\* Every non-empty set of naturals has a least element.
LEMMA SmallestExists ==
  ASSUME NEW T \in SUBSET Nat, T # {}
  PROVE  \E x \in T : \A y \in T : x <= y
<1>1. \E x \in T : \A y \in T : ~ (<<y, x>> \in OpToRel(<, Nat))
  BY NatLessThanWellFounded, WFMin
<1>2. \A x, y \in T : ~ (<<y, x>> \in OpToRel(<, Nat)) => x <= y
  BY DEF OpToRel
<1> QED BY <1>1, <1>2

\* Every non-empty bounded set of naturals has a greatest element.
LEMMA LargestExists ==
  ASSUME NEW T \in SUBSET Nat, T # {}, NEW m \in Nat, \A y \in T : y <= m
  PROVE  \E x \in T : \A y \in T : y <= x
<1> DEFINE Above == {u \in Nat : \A y \in T : y <= u}
<1>1. Above \in SUBSET Nat /\ Above # {}
  OBVIOUS
<1>2. PICK x \in Above : \A y \in Above : x <= y
  <2> HIDE DEF Above
  <2> QED BY <1>1, SmallestExists
<1>3. x \in T
  <2>1. SUFFICES ASSUME x \notin T PROVE FALSE
    OBVIOUS
  <2>2. \A y \in T : y \in Nat /\ y < x
    BY <1>2, <2>1
  <2>3. PICK y \in T : TRUE
    OBVIOUS
  <2>4. x \in Nat /\ x # 0 /\ x - 1 \in Nat
    BY <1>2, <2>2, <2>3
  <2>5. \A z \in T : z <= x - 1
    BY <2>2, <2>4
  <2>6. x - 1 \in Above
    BY <2>4, <2>5
  <2>7. x <= x - 1
    BY <1>2, <2>6
  <2> QED BY <2>4, <2>7
<1> QED BY <1>2, <1>3

\* The records up to some number are finitely many.
LEMMA WrittenIsFinite ==
  ASSUME NEW n \in Nat, NEW S \in SUBSET (1 .. n)
  PROVE  /\ S \in SUBSET Nat /\ IsFiniteSet(S) /\ Cardinality(S) \in Nat
         /\ \A T \in SUBSET S : IsFiniteSet(T) /\ Cardinality(T) \in Nat /\ Cardinality(T) <= Cardinality(S)
<1>1. IsFiniteSet(1 .. n)
  BY FS_Interval
<1>2. IsFiniteSet(S)
  BY <1>1, FS_Subset
<1>3. S \in SUBSET Nat
  OBVIOUS
<1>4. \A T \in SUBSET S : IsFiniteSet(T) /\ Cardinality(T) <= Cardinality(S)
  BY <1>2, FS_Subset
<1>5. \A T \in SUBSET S : Cardinality(T) \in Nat
  BY <1>4, FS_CardinalityType
<1> QED BY <1>2, <1>3, <1>4, <1>5, FS_CardinalityType

\* The k oldest of a set are at most k, and at least k if it has as many.
LEMMA OldestCount ==
  ASSUME NEW n \in Nat, NEW S \in SUBSET (1 .. n), NEW k \in Nat
  PROVE  /\ Oldest(S, k) \in SUBSET S
         /\ Cardinality(Oldest(S, k)) <= k
         /\ Cardinality(S) <= k => Oldest(S, k) = S
         /\ k <= Cardinality(S) => Cardinality(Oldest(S, k)) = k
<1> DEFINE Earlier(s) == {t \in S : t < s}
<1>0. /\ S \in SUBSET Nat /\ IsFiniteSet(S) /\ Cardinality(S) \in Nat
      /\ \A T \in SUBSET S : IsFiniteSet(T) /\ Cardinality(T) \in Nat /\ Cardinality(T) <= Cardinality(S)
  BY WrittenIsFinite
<1>1. /\ Oldest(S, k) \in SUBSET S
      /\ \A s \in S : s \in Oldest(S, k) <=> Cardinality(Earlier(s)) < k
  BY DEF Oldest
<1>2. Cardinality(Oldest(S, k)) \in Nat
  BY <1>0, <1>1
<1>3. Cardinality(Oldest(S, k)) <= k
  <2>1. CASE Oldest(S, k) = {}
    BY <2>1, FS_EmptySet
  <2>2. CASE Oldest(S, k) # {}
    <3>1. PICK m \in Oldest(S, k) : \A y \in Oldest(S, k) : y <= m
      <4>1. \A y \in Oldest(S, k) : y \in 1 .. n
        BY <1>1
      <4>2. \A y \in Oldest(S, k) : y <= n
        BY <4>1
      <4> QED BY <1>0, <1>1, <2>2, <4>2, LargestExists
    <3>2. m \in S /\ Earlier(m) \in SUBSET S
      BY <1>1
    <3>3. Cardinality(Earlier(m)) < k /\ Cardinality(Earlier(m)) \in Nat /\ IsFiniteSet(Earlier(m))
      BY <1>0, <1>1, <3>1, <3>2
    <3>4. Oldest(S, k) \subseteq Earlier(m) \cup {m}
      <4>1. SUFFICES ASSUME NEW y \in Oldest(S, k), y # m PROVE y \in S /\ y < m
        OBVIOUS
      <4>2. y \in Nat /\ m \in Nat /\ y <= m /\ y \in S
        BY <1>0, <1>1, <3>1, <3>2
      <4> QED BY <4>1, <4>2
    <3>5. m \notin Earlier(m)
      BY <1>0, <3>2
    <3> HIDE DEF Earlier
    <3>6. IsFiniteSet(Earlier(m) \cup {m}) /\ Cardinality(Earlier(m) \cup {m}) = Cardinality(Earlier(m)) + 1
      BY <3>3, <3>5, FS_AddElement
    <3>7. Cardinality(Oldest(S, k)) <= Cardinality(Earlier(m) \cup {m})
      BY <3>4, <3>6, FS_Subset
    <3> QED BY <1>2, <3>3, <3>6, <3>7
  <2> QED BY <2>1, <2>2
<1>4. ASSUME Cardinality(S) <= k PROVE Oldest(S, k) = S
  <2>1. SUFFICES ASSUME NEW s \in S PROVE Cardinality(Earlier(s)) < k
    BY <1>1
  <2>2. Earlier(s) \in SUBSET S /\ s \notin Earlier(s)
    BY <1>0
  <2> HIDE DEF Earlier
  <2>3. Cardinality(Earlier(s)) # Cardinality(S)
    BY <1>0, <2>1, <2>2, FS_Subset
  <2> QED BY <1>0, <1>4, <2>2, <2>3
<1>5. ASSUME k <= Cardinality(S) PROVE Cardinality(Oldest(S, k)) >= k
  <2> DEFINE Rest == S \ Oldest(S, k)
  <2>1. CASE Rest = {}
    <3>1. Oldest(S, k) = S
      BY <1>1, <2>1
    <3> QED BY <1>0, <1>5, <3>1
  <2>2. CASE Rest # {}
    <3>1. PICK m \in Rest : \A y \in Rest : m <= y
      <4>1. Rest \in SUBSET Nat
        BY <1>0
      <4> HIDE DEF Rest
      <4> QED BY <2>2, <4>1, SmallestExists
    <3>2. m \in S /\ Earlier(m) \in SUBSET S
      BY <3>1
    <3>3. Earlier(m) \in SUBSET Oldest(S, k)
      <4>1. SUFFICES ASSUME NEW y \in S, y < m PROVE y \in Oldest(S, k)
        OBVIOUS
      <4>2. y \in Nat /\ m \in Nat /\ y \notin Rest
        BY <1>0, <3>1, <3>2, <4>1
      <4> QED BY <4>2
    <3>4. ~ (Cardinality(Earlier(m)) < k)
      BY <1>1, <3>1
    <3>5. IsFiniteSet(Oldest(S, k)) /\ Cardinality(Earlier(m)) \in Nat
      BY <1>0, <1>1, <3>2
    <3> HIDE DEF Earlier, Rest
    <3>6. Cardinality(Earlier(m)) <= Cardinality(Oldest(S, k))
      BY <3>3, <3>5, FS_Subset
    <3> QED BY <1>2, <3>4, <3>5, <3>6
  <2> QED BY <2>1, <2>2
<1> QED BY <1>1, <1>2, <1>3, <1>4, <1>5

\* What is left of a set without its k oldest.
LEMMA RestCount ==
  ASSUME NEW n \in Nat, NEW S \in SUBSET (1 .. n), NEW T \in SUBSET S, NEW k \in Nat
  PROVE  /\ S \ Oldest(T, k) \in SUBSET S
         /\ Cardinality(S \ Oldest(T, k)) \in Nat
         /\ Cardinality(S \ Oldest(T, k)) >= Cardinality(S) - k
         /\ k <= Cardinality(T) => Cardinality(S \ Oldest(T, k)) = Cardinality(S) - k
<1>1. T \in SUBSET (1 .. n)
  OBVIOUS
<1>2. /\ Oldest(T, k) \in SUBSET T
      /\ Cardinality(Oldest(T, k)) <= k
      /\ k <= Cardinality(T) => Cardinality(Oldest(T, k)) = k
  BY <1>1, OldestCount
<1>3. /\ IsFiniteSet(S) /\ Cardinality(S) \in Nat
      /\ \A U \in SUBSET S : Cardinality(U) \in Nat
  BY WrittenIsFinite
<1>4. Oldest(T, k) \in SUBSET S /\ S \cap Oldest(T, k) = Oldest(T, k)
  BY <1>2
<1>5. Cardinality(S \ Oldest(T, k)) = Cardinality(S) - Cardinality(Oldest(T, k))
  BY <1>3, <1>4, FS_Difference
<1>6. Cardinality(Oldest(T, k)) \in Nat
  BY <1>3, <1>4
<1> QED BY <1>2, <1>3, <1>5, <1>6

-----------------------------------------------------------------------------
(* What a sequence has at some of its places.                              *)

IsPicking(h, seq, places, n) ==
    h = [k \in 0 .. n |-> IF k = 0 THEN << >>
                          ELSE IF k \in places THEN Append(h[k - 1], seq[k]) ELSE h[k - 1]]

LEMMA PickingExists ==
  ASSUME NEW S, NEW seq \in Seq(S), NEW places
  PROVE  \A n \in 0 .. Len(seq) : \E h : IsPicking(h, seq, places, n)
<1> DEFINE Bad == {n \in 0 .. Len(seq) : ~ \E h : IsPicking(h, seq, places, n)}
<1>1. SUFFICES ASSUME Bad # {} PROVE FALSE
  OBVIOUS
<1>2. PICK n \in Bad : \A m \in Bad : n <= m
  <2>1. Bad \in SUBSET Nat
    OBVIOUS
  <2> HIDE DEF Bad
  <2> QED BY <1>1, <2>1, SmallestExists
<1>3. CASE n = 0
  <2>1. IsPicking([k \in 0 .. 0 |-> << >>], seq, places, 0)
    BY DEF IsPicking
  <2> QED BY <1>2, <1>3, <2>1
<1>4. CASE n # 0
  <2>1. n \in Nat /\ n >= 1 /\ n - 1 \in 0 .. Len(seq) /\ n - 1 \notin Bad
    BY <1>2, <1>4
  <2>2. PICK f : IsPicking(f, seq, places, n - 1)
    BY <2>1
  <2> DEFINE Next1(was, k) == IF k \in places THEN Append(was, seq[k]) ELSE was
             h == [k \in 0 .. n |-> IF k = n THEN Next1(f[n - 1], n) ELSE f[k]]
  <2>3. \A k \in 0 .. n - 1 : f[k] = IF k = 0 THEN << >> ELSE Next1(f[k - 1], k)
    BY <2>2 DEF IsPicking
  <2>4. \A k \in 0 .. n : k = n \/ k \in 0 .. n - 1
    BY <2>1
  <2>5. \A k \in 0 .. n : k # 0 => k - 1 \in 0 .. n /\ k - 1 # n
    BY <2>1
  <2>6. \A k \in 0 .. n : k # 0 => h[k - 1] = f[k - 1]
    BY <2>5
  <2>7. \A k \in 0 .. n : h[k] = IF k = 0 THEN << >> ELSE Next1(h[k - 1], k)
    <3> TAKE k \in 0 .. n
    <3>1. CASE k = n
      <4>1. h[k] = Next1(f[k - 1], k)
        BY <3>1
      <4> HIDE DEF h, Next1
      <4> QED BY <1>4, <2>6, <3>1, <4>1
    <3>2. CASE k # n
      <4>1. h[k] = f[k] /\ k \in 0 .. n - 1
        BY <2>4, <3>2
      <4> HIDE DEF h, Next1
      <4> QED BY <2>3, <2>6, <4>1
    <3> QED BY <3>1, <3>2
  <2>8. h = [k \in 0 .. n |-> h[k]]
    OBVIOUS
  <2> HIDE DEF h
  <2>9. IsPicking(h, seq, places, n)
    BY <2>7, <2>8 DEF IsPicking
  <2> QED BY <1>2, <2>9
<1> QED BY <1>3, <1>4

\* What is picked keeps the places' order.
IsPick(out, S, seq, places, n) ==
    /\ out \in Seq(S)
    /\ \A i \in 1 .. Len(out) : \E a \in 1 .. n : a \in places /\ out[i] = seq[a]
    /\ \A i, j \in 1 .. Len(out) : i < j =>
          \E a, b \in 1 .. n : a < b /\ a \in places /\ b \in places /\ out[i] = seq[a] /\ out[j] = seq[b]

LEMMA PickGrows ==
  ASSUME NEW S, NEW seq \in Seq(S), NEW places, NEW m \in Nat, m + 1 <= Len(seq),
         NEW out, IsPick(out, S, seq, places, m)
  PROVE  IsPick(IF m + 1 \in places THEN Append(out, seq[m + 1]) ELSE out, S, seq, places, m + 1)
<1>1. out \in Seq(S) /\ Len(out) \in Nat
  BY LenProperties DEF IsPick
<1>2. CASE m + 1 \notin places
  <2>1. \A a \in 1 .. m : a \in 1 .. m + 1
    OBVIOUS
  <2>2. IsPick(out, S, seq, places, m + 1)
    <3>1. \A i \in 1 .. Len(out) : \E a \in 1 .. m + 1 : a \in places /\ out[i] = seq[a]
      BY <2>1 DEF IsPick
    <3>2. \A i, j \in 1 .. Len(out) : i < j =>
            \E a, b \in 1 .. m + 1 : a < b /\ a \in places /\ b \in places /\ out[i] = seq[a] /\ out[j] = seq[b]
      <4> TAKE i, j \in 1 .. Len(out)
      <4> HAVE i < j
      <4>1. PICK a, b \in 1 .. m : a < b /\ a \in places /\ b \in places /\ out[i] = seq[a] /\ out[j] = seq[b]
        BY DEF IsPick
      <4> QED BY ONLY <4>1, <2>1
    <3> QED BY <1>1, <3>1, <3>2 DEF IsPick
  <2> QED BY <1>2, <2>2
<1>3. CASE m + 1 \in places
  <2> DEFINE next == Append(out, seq[m + 1])
  <2>1. seq[m + 1] \in S
    <3>1. m + 1 \in 1 .. Len(seq)
      BY LenProperties
    <3> QED BY <3>1, ElementOfSeq
  <2>2. /\ next \in Seq(S) /\ Len(next) = Len(out) + 1
        /\ \A i \in 1 .. Len(out) : next[i] = out[i]
        /\ next[Len(out) + 1] = seq[m + 1]
    BY <1>1, <2>1, AppendProperties
  <2> HIDE DEF next
  <2>3. \A i \in 1 .. Len(next) : i = Len(out) + 1 \/ i \in 1 .. Len(out)
    BY <1>1, <2>2
  <2>4. m + 1 \in 1 .. m + 1 /\ \A a \in 1 .. m : a \in 1 .. m + 1 /\ a < m + 1
    OBVIOUS
  <2>5. \A i \in 1 .. Len(next) : \E a \in 1 .. m + 1 : a \in places /\ next[i] = seq[a]
    <3> TAKE i \in 1 .. Len(next)
    <3>1. CASE i = Len(out) + 1
      BY <1>3, <2>2, <2>4, <3>1
    <3>2. CASE i \in 1 .. Len(out)
      <4>1. PICK a \in 1 .. m : a \in places /\ out[i] = seq[a]
        BY <3>2 DEF IsPick
      <4> QED BY <2>2, <2>4, <3>2, <4>1
    <3> QED BY <2>3, <3>1, <3>2
  <2>6. ASSUME NEW i \in 1 .. Len(next), NEW j \in 1 .. Len(next), i < j
        PROVE  \E a, b \in 1 .. m + 1 :
                  a < b /\ a \in places /\ b \in places /\ next[i] = seq[a] /\ next[j] = seq[b]
    <3>1. i \in 1 .. Len(out)
      BY <1>1, <2>2, <2>6
    <3>2. CASE j = Len(out) + 1
      <4>1. PICK a \in 1 .. m : a \in places /\ out[i] = seq[a]
        BY <3>1 DEF IsPick
      <4> QED BY <1>3, <2>2, <2>4, <3>1, <3>2, <4>1
    <3>3. CASE j \in 1 .. Len(out)
      <4>1. PICK a, b \in 1 .. m : a < b /\ a \in places /\ b \in places /\ out[i] = seq[a] /\ out[j] = seq[b]
        BY <2>6, <3>1, <3>3 DEF IsPick
      <4> QED BY <2>2, <2>4, <3>1, <3>3, <4>1
    <3> QED BY <2>3, <3>2, <3>3
  <2>7. IsPick(next, S, seq, places, m + 1)
    BY <2>2, <2>5, <2>6 DEF IsPick
  <2> QED BY <1>3, <2>7 DEF next
<1> QED BY <1>2, <1>3

LEMMA PickedIs ==
  ASSUME NEW S, NEW seq \in Seq(S), NEW places
  PROVE  IsPick(Picked(seq, places), S, seq, places, Len(seq))
<1> DEFINE f == CHOOSE h : IsPicking(h, seq, places, Len(seq))
<1>0. Len(seq) \in Nat
  BY LenProperties
<1>1. IsPicking(f, seq, places, Len(seq))
  <2>1. \E h : IsPicking(h, seq, places, Len(seq))
    BY <1>0, PickingExists
  <2> QED BY <2>1
<1>2. Picked(seq, places) = f[Len(seq)]
  BY DEF Picked, IsPicking
<1> HIDE DEF f
<1>3. \A k \in 0 .. Len(seq) :
         f[k] = IF k = 0 THEN << >> ELSE IF k \in places THEN Append(f[k - 1], seq[k]) ELSE f[k - 1]
  BY <1>1 DEF IsPicking
<1> DEFINE Bad == {n \in 0 .. Len(seq) : ~ IsPick(f[n], S, seq, places, n)}
<1>4. Bad = {}
  <2>1. SUFFICES ASSUME Bad # {} PROVE FALSE
    OBVIOUS
  <2>2. PICK n \in Bad : \A m \in Bad : n <= m
    <3>1. Bad \in SUBSET Nat
      OBVIOUS
    <3> HIDE DEF Bad
    <3> QED BY <2>1, <3>1, SmallestExists
  <2>3. CASE n = 0
    <3>1. f[0] = << >>
      BY <1>0, <1>3
    <3>2. IsPick(<< >>, S, seq, places, 0)
      <4>1. << >> \in Seq(S) /\ Len(<< >>) = 0
        BY EmptySeq
      <4> QED BY <4>1 DEF IsPick
    <3> QED BY <2>2, <2>3, <3>1, <3>2
  <2>4. CASE n # 0
    <3> DEFINE m == n - 1
    <3>1. m \in Nat /\ n = m + 1 /\ m \in 0 .. Len(seq) /\ m \notin Bad /\ n \in 0 .. Len(seq)
          /\ m + 1 <= Len(seq)
      BY <1>0, <2>2, <2>4
    <3>2. f[n] = IF n \in places THEN Append(f[m], seq[n]) ELSE f[m]
      BY <1>3, <2>4, <3>1
    <3> HIDE DEF m
    <3>3. IsPick(f[m], S, seq, places, m)
      BY <3>1
    <3>4. IsPick(IF m + 1 \in places THEN Append(f[m], seq[m + 1]) ELSE f[m], S, seq, places, m + 1)
      BY <3>1, <3>3, PickGrows
    <3> QED BY <2>2, <3>1, <3>2, <3>4
  <2> QED BY <2>3, <2>4
<1> QED BY <1>0, <1>2, <1>4

-----------------------------------------------------------------------------
(* Sequences of records.                                                   *)

\* Later records are newer.
Rising(s) == \A i, j \in 1 .. Len(s) : i < j => s[i] < s[j]

\* t goes on from s.
GoesOn(s, t) == Len(s) <= Len(t) /\ \A i \in 1 .. Len(s) : t[i] = s[i]

\* Nothing of what is fresh is at or before what the tab has folded, and it
\* is in order.
LEMMA FreshIsNew ==
  ASSUME NEW n \in Nat, NEW p, NEW recs \in Seq(1 .. n)
  PROVE  /\ Fresh(p, recs) \in Seq(1 .. n)
         /\ Rising(Fresh(p, recs))
         /\ \A i \in 1 .. Len(Fresh(p, recs)) : Fresh(p, recs)[i] > Through(p)
<1> DEFINE places == {i \in DOMAIN recs : /\ recs[i] > Through(p)
                                          /\ \A j \in 1 .. i - 1 : recs[j] < recs[i]}
           out == Fresh(p, recs)
<1>1. IsPick(out, 1 .. n, recs, places, Len(recs))
  BY PickedIs DEF Fresh
<1>2. Len(recs) \in Nat /\ DOMAIN recs = 1 .. Len(recs)
  BY LenProperties
<1> HIDE DEF out
<1>3. Rising(out)
  <2>1. SUFFICES ASSUME NEW i \in 1 .. Len(out), NEW j \in 1 .. Len(out), i < j PROVE out[i] < out[j]
    BY DEF Rising
  <2>2. PICK a, b \in 1 .. Len(recs) :
           a < b /\ a \in places /\ b \in places /\ out[i] = recs[a] /\ out[j] = recs[b]
    BY <1>1, <2>1 DEF IsPick
  <2>3. a \in 1 .. b - 1
    BY <1>2, <2>2
  <2> QED BY <2>2, <2>3
<1>4. \A i \in 1 .. Len(out) : out[i] > Through(p)
  BY <1>1 DEF IsPick
<1> QED BY <1>1, <1>3, <1>4 DEF IsPick, out

\* A set of records, put in order.
LEMMA InOrderRises ==
  ASSUME Len(log) \in Nat, NEW recs
  PROVE  InOrder(recs) \in Seq(Written) /\ Rising(InOrder(recs))
<1> DEFINE all == [s \in Written |-> s]
           out == InOrder(recs)
<1>1. all \in Seq(Written) /\ Len(all) = Len(log) /\ \A s \in Written : all[s] = s
  <2>1. \A s \in 1 .. Len(log) : s \in Written
    BY DEF Written
  <2>2. all \in [1 .. Len(log) -> Written]
    BY DEF Written
  <2> QED BY <2>2 DEF Written
<1> HIDE DEF all
<1>2. IsPick(out, Written, all, recs, Len(log))
  BY <1>1, PickedIs DEF InOrder, all
<1> HIDE DEF out
<1>3. SUFFICES ASSUME NEW i \in 1 .. Len(out), NEW j \in 1 .. Len(out), i < j PROVE out[i] < out[j]
  BY <1>2 DEF Rising, IsPick, out
<1>4. PICK a, b \in 1 .. Len(log) : a < b /\ out[i] = all[a] /\ out[j] = all[b]
  BY <1>2, <1>3 DEF IsPick
<1> QED BY <1>1, <1>4 DEF Written

\* What is newer than the last may be folded after it.
LEMMA StillRising ==
  ASSUME NEW n \in Nat, NEW p, p.shown \in Seq(1 .. n), Rising(p.shown),
         NEW fresh \in Seq(1 .. n), Rising(fresh), \A i \in 1 .. Len(fresh) : fresh[i] > Through(p)
  PROVE  /\ p.shown \o fresh \in Seq(1 .. n) /\ Rising(p.shown \o fresh)
         /\ GoesOn(p.shown, p.shown \o fresh)
<1> DEFINE s == p.shown
           t == s \o fresh
<1>1. /\ t \in Seq(1 .. n) /\ Len(t) = Len(s) + Len(fresh)
      /\ \A i \in 1 .. Len(s) + Len(fresh) : t[i] = IF i <= Len(s) THEN s[i] ELSE fresh[i - Len(s)]
      /\ Len(s) \in Nat /\ Len(fresh) \in Nat
  BY ConcatProperties, LenProperties
<1>2. \A i \in 1 .. Len(s) : s[i] \in 1 .. n /\ s[i] <= Through(p)
  <2> TAKE i \in 1 .. Len(s)
  <2>1. s[i] \in 1 .. n /\ Len(s) \in 1 .. Len(s) /\ s[Len(s)] \in 1 .. n
    BY <1>1, ElementOfSeq
  <2>2. s # << >>
    BY <1>1, EmptySeq
  <2>3. Through(p) = s[Len(s)]
    BY <2>2 DEF Through, Last
  <2>4. i = Len(s) \/ i < Len(s)
    BY <1>1
  <2> QED BY <2>1, <2>3, <2>4 DEF Rising
<1>3. \A i \in 1 .. Len(fresh) : fresh[i] \in 1 .. n
  BY ElementOfSeq
<1>4. Through(p) \in Nat
  <2>1. CASE s = << >>
    BY <2>1 DEF Through
  <2>2. CASE s # << >>
    <3>1. Len(s) \in 1 .. Len(s)
      BY <1>1, <2>2, EmptySeq
    <3> QED BY <1>2, <2>2, <3>1 DEF Through, Last
  <2> QED BY <2>1, <2>2
<1> HIDE DEF s, t
<1>5. Rising(t)
  <2>1. SUFFICES ASSUME NEW i \in 1 .. Len(t), NEW j \in 1 .. Len(t), i < j PROVE t[i] < t[j]
    BY DEF Rising
  <2>2. CASE j <= Len(s)
    <3>1. i \in 1 .. Len(s) /\ j \in 1 .. Len(s) /\ t[i] = s[i] /\ t[j] = s[j]
      BY <1>1, <2>1, <2>2
    <3> QED BY <2>1, <3>1 DEF Rising, s
  <2>3. CASE i <= Len(s) /\ ~ (j <= Len(s))
    <3>1. i \in 1 .. Len(s) /\ j - Len(s) \in 1 .. Len(fresh) /\ t[i] = s[i] /\ t[j] = fresh[j - Len(s)]
      <4>1. Len(s) \in Nat /\ Len(fresh) \in Nat /\ Len(t) = Len(s) + Len(fresh) /\ i \in 1 .. Len(t) /\ j \in 1 .. Len(t)
        BY <1>1, <2>1
      <4>2. /\ i \in 1 .. Len(s) /\ j - Len(s) \in 1 .. Len(fresh)
            /\ i \in 1 .. Len(s) + Len(fresh) /\ j \in 1 .. Len(s) + Len(fresh)
        BY ONLY <4>1, <2>3
      <4> QED BY <1>1, <2>3, <4>2
    <3>2. s[i] \in 1 .. n /\ s[i] <= Through(p)
      BY <1>2, <3>1
    <3>3. fresh[j - Len(s)] \in 1 .. n /\ fresh[j - Len(s)] > Through(p)
      BY <1>3, <3>1
    <3>4. s[i] < fresh[j - Len(s)]
      <4> DEFINE a == s[i]
                 b == fresh[j - Len(s)]
      <4>1. a \in Nat /\ b \in Nat /\ a <= Through(p) /\ b > Through(p)
        BY <3>2, <3>3
      <4> HIDE DEF a, b
      <4>2. a < b
        BY ONLY <4>1, <1>4
      <4> QED BY ONLY <4>2 DEF a, b
    <3> QED BY ONLY <3>1, <3>4
  <2>4. CASE ~ (i <= Len(s))
    <3>1. /\ i - Len(s) \in 1 .. Len(fresh) /\ j - Len(s) \in 1 .. Len(fresh) /\ i - Len(s) < j - Len(s)
          /\ t[i] = fresh[i - Len(s)] /\ t[j] = fresh[j - Len(s)]
      <4>1. Len(s) \in Nat /\ Len(fresh) \in Nat /\ Len(t) = Len(s) + Len(fresh) /\ i \in Nat /\ j \in Nat
        BY <1>1, <2>1
      <4>2. i \in Len(s) + 1 .. Len(s) + Len(fresh) /\ j \in Len(s) + 1 .. Len(s) + Len(fresh)
        BY <2>1, <2>4, <4>1
      <4>3. t[i] = fresh[i - Len(s)] /\ t[j] = fresh[j - Len(s)]
        BY <1>1, <2>1, <4>1, <4>2
      <4> QED BY <2>1, <4>1, <4>2, <4>3
    <3> QED BY <3>1 DEF Rising
  <2> QED BY <2>2, <2>3, <2>4
<1>6. GoesOn(s, t)
  BY <1>1 DEF GoesOn
<1> QED BY <1>1, <1>5, <1>6 DEF s, t

-----------------------------------------------------------------------------
(* The tab's store and its fold.                                           *)

\* Only a run asks for an approval, or has one answered.
Record == {r \in [run : Runs \cup {City}, kind : Kinds] : r.kind # "other" => r.run \in Runs}

Tab == [link : {"idle", "handshaking", "live", "backoff"}, live : BOOLEAN,
        buffer : Seq(Frames), shown : Seq(Written), approvals : SUBSET Runs,
        held : SUBSET Written, reading : Runs \cup {None}, asked : Runs \cup {None},
        looked : BOOLEAN, backfilled : BOOLEAN]

\* A tab whose fold is in order and whose store is within its bound.
TabOK(p) == p \in Tab /\ Rising(p.shown) /\ Cardinality(p.held) <= HELD_RECORDS

\* A full store of nothing but the session being read.
FullOf(p) ==
    /\ p.reading # None
    /\ \A s \in p.held : log[s].run = p.reading
    /\ Cardinality(p.held) >= HELD_RECORDS

LEMMA HoldKeeps ==
  ASSUME Len(log) \in Nat, NEW p \in Tab, NEW arriving \in SUBSET Written
  PROVE  LET q == hold(p, arriving)
         IN  /\ q \in Tab /\ q = [p EXCEPT !.held = q.held]
             /\ Cardinality(q.held) <= HELD_RECORDS
             /\ FullOf(p) => FullOf(q)
             /\ (\E s \in p.held \ q.held : log[s].run = p.reading /\ p.reading # None) => FullOf(q)
<1> DEFINE H == HELD_RECORDS
           all == p.held \cup arriving
           excess(recs) == IF Cardinality(recs) > H THEN Cardinality(recs) - H ELSE 0
           others == IF p.reading = None THEN {} ELSE {s \in all : log[s].run # p.reading}
           kept == all \ Oldest(others, excess(all))
           left == kept \ Oldest(kept, excess(kept))
           q == hold(p, arriving)
           n == Len(log)
<1>1. /\ q = [p EXCEPT !.held = left]
  BY DEF hold
<1>2. H \in Nat /\ H >= 1
  BY BoundsAssumption
<1>3. all \in SUBSET (1 .. n) /\ others \in SUBSET all
  BY DEF Tab, Written
<1> HIDE DEF all
<1>4. /\ Cardinality(all) \in Nat /\ Cardinality(others) \in Nat
      /\ \A T \in SUBSET all : Cardinality(T) \in Nat
      /\ excess(all) \in Nat
  <2>1. \A T \in SUBSET all : Cardinality(T) \in Nat
    BY <1>3, WrittenIsFinite
  <2> QED BY <1>2, <1>3, <2>1
<1> HIDE DEF others
<1>5. /\ kept \in SUBSET all /\ Cardinality(kept) \in Nat
      /\ Cardinality(kept) >= Cardinality(all) - excess(all)
      /\ excess(all) <= Cardinality(others) => Cardinality(kept) = Cardinality(all) - excess(all)
      /\ Cardinality(others) <= excess(all) => Oldest(others, excess(all)) = others
  <2>1. others \in SUBSET (1 .. n)
    BY <1>3
  <2> DEFINE k == excess(all)
  <2>2. k \in Nat
    BY <1>4
  <2> HIDE DEF k
  <2>3. /\ all \ Oldest(others, k) \in SUBSET all
        /\ Cardinality(all \ Oldest(others, k)) \in Nat
        /\ Cardinality(all \ Oldest(others, k)) >= Cardinality(all) - k
        /\ k <= Cardinality(others) => Cardinality(all \ Oldest(others, k)) = Cardinality(all) - k
    BY <1>3, <2>2, RestCount
  <2>4. Cardinality(others) <= k => Oldest(others, k) = others
    BY <2>1, <2>2, OldestCount
  <2> QED BY <2>3, <2>4 DEF k
<1>5a. Oldest(others, excess(all)) \in SUBSET others
  <2>1. others \in SUBSET (1 .. n)
    BY <1>3
  <2> DEFINE k == excess(all)
  <2>2. k \in Nat
    BY <1>4
  <2> HIDE DEF k
  <2>3. Oldest(others, k) \in SUBSET others
    BY <2>1, <2>2, OldestCount
  <2> QED BY <2>3 DEF k
<1>6. kept \in SUBSET (1 .. n) /\ excess(kept) \in Nat /\ excess(kept) <= Cardinality(kept)
  <2>1. kept \in SUBSET (1 .. n)
    <3> HIDE DEF kept
    <3> QED BY <1>3, <1>5
  <2>2. Cardinality(kept) \in Nat
    BY <1>5
  <2> HIDE DEF kept
  <2> QED BY <1>2, <2>1, <2>2
<1> HIDE DEF kept
<1>7. /\ left \in SUBSET kept /\ Cardinality(left) \in Nat
      /\ Cardinality(left) = Cardinality(kept) - excess(kept)
  <2>1. kept \in SUBSET kept
    OBVIOUS
  <2> HIDE DEF excess
  <2> QED BY <1>6, <2>1, RestCount
<1>8. excess(kept) = 0 => left = kept
  <2>1. CASE excess(kept) = 0
    <3>1. Oldest(kept, 0) = {}
      <4>1. Oldest(kept, 0) \in SUBSET kept /\ Cardinality(Oldest(kept, 0)) = 0
        <5>1. 0 \in Nat /\ kept \in SUBSET (1 .. n) /\ 0 <= Cardinality(kept)
          BY <1>5, <1>6
        <5> QED BY <5>1, OldestCount
      <4> QED BY <1>6, <4>1, WrittenIsFinite, FS_EmptySet
    <3> QED BY <2>1, <3>1
  <2> QED BY <2>1
<1> HIDE DEF left
<1>9. /\ q.held = left /\ q.reading = p.reading /\ q \in Tab
      /\ q = [p EXCEPT !.held = q.held]
  <2>1. left \in SUBSET Written
    BY <1>6, <1>7 DEF Written
  <2> HIDE DEF q
  <2> QED BY <1>1, <2>1 DEF Tab
<1> HIDE DEF q
<1>10. Cardinality(left) <= H
  BY <1>2, <1>5, <1>7
<1>11. ASSUME p.reading # None, Cardinality(kept) >= H, Cardinality(others) <= excess(all)
       PROVE  FullOf(q)
  <2>1. \A s \in kept : log[s].run = p.reading
    BY <1>3, <1>5, <1>11 DEF kept, others
  <2>2. Cardinality(left) >= H
    BY <1>2, <1>5, <1>7, <1>11
  <2> QED BY <1>7, <1>9, <1>11, <2>1, <2>2 DEF FullOf
<1>12. ASSUME FullOf(p) PROVE FullOf(q)
  <2>1. /\ p.held \in SUBSET all /\ Cardinality(p.held) >= H /\ p.reading # None
        /\ \A s \in p.held : log[s].run = p.reading
        /\ Cardinality(p.held) \in Nat
    BY <1>4, <1>12 DEF FullOf, all
  <2>2. Cardinality(p.held) <= Cardinality(all)
    BY <1>3, <2>1, WrittenIsFinite
  <2>3. Cardinality(kept) >= H
    BY <1>2, <1>4, <1>5, <2>1, <2>2
  <2>4. Cardinality(others) <= Cardinality(all) - Cardinality(p.held)
    <3>1. others \in SUBSET (all \ p.held)
      BY <1>3, <2>1 DEF others
    <3>2. IsFiniteSet(all) /\ IsFiniteSet(all \ p.held) /\ Cardinality(all \ p.held) = Cardinality(all) - Cardinality(p.held)
      <4>1. IsFiniteSet(all) /\ all \cap p.held = p.held
        BY <1>3, <2>1, WrittenIsFinite
      <4>2. IsFiniteSet(all \ p.held)
        BY <1>3, WrittenIsFinite, all \ p.held \in SUBSET all
      <4> QED BY <4>1, <4>2, FS_Difference
    <3> QED BY <3>1, <3>2, FS_Subset
  <2>5. Cardinality(others) <= excess(all)
    BY <1>2, <1>4, <2>1, <2>2, <2>4
  <2> QED BY <1>11, <2>1, <2>3, <2>5
<1>13. ASSUME NEW s \in p.held \ q.held, log[s].run = p.reading, p.reading # None
       PROVE  FullOf(q)
  <2>1. s \in all /\ s \notin others /\ s \notin left
    BY <1>9, <1>13 DEF all, others
  <2>2. s \in kept
    BY <1>5a, <2>1 DEF kept
  <2>3. Cardinality(kept) > H
    BY <1>2, <1>5, <1>8, <2>1, <2>2
  <2>4. Cardinality(others) <= excess(all)
    BY <1>2, <1>4, <1>5, <2>3
  <2> QED BY <1>2, <1>5, <1>11, <1>13, <2>3, <2>4
<1> QED BY <1>9, <1>10, <1>12, <1>13 DEF q

\* A record of the session being read has given way.
GaveWay(p, q) == \E s \in p.held \ q.held : log[s].run = p.reading /\ p.reading # None

\* What no part of a painted frame may do to a tab.
Paints(p, q) ==
    /\ TabOK(q)
    /\ GoesOn(p.shown, q.shown)
    /\ q.link = p.link /\ q.live = p.live /\ q.reading = p.reading /\ q.asked = p.asked
    /\ FullOf(p) => FullOf(q)
    /\ GaveWay(p, q) => FullOf(q)

LEMMA PaintsNothing == ASSUME NEW p, TabOK(p) PROVE Paints(p, p)
<1>1. Len(p.shown) \in Nat
  BY LenProperties DEF TabOK, Tab
<1> QED BY <1>1 DEF Paints, GoesOn, GaveWay

LEMMA PaintsOn ==
  ASSUME NEW p, NEW q, NEW r, TabOK(p), Paints(p, q), Paints(q, r)
  PROVE  Paints(p, r)
<1>1. /\ Len(p.shown) \in Nat /\ Len(q.shown) \in Nat /\ Len(r.shown) \in Nat
  BY LenProperties DEF Paints, TabOK, Tab
<1>2. GoesOn(p.shown, r.shown)
  BY <1>1 DEF Paints, GoesOn
<1>3. ASSUME GaveWay(p, r) PROVE FullOf(r)
  <2>1. PICK s \in p.held \ r.held : log[s].run = p.reading /\ p.reading # None
    BY <1>3 DEF GaveWay
  <2>2. CASE s \in q.held
    BY <2>1, <2>2 DEF Paints, GaveWay
  <2>3. CASE s \notin q.held
    BY <2>1, <2>3 DEF Paints, GaveWay
  <2> QED BY <2>2, <2>3
<1> QED BY <1>2, <1>3 DEF Paints

LEMMA ApplyPaints ==
  ASSUME Len(log) \in Nat, NEW p, TabOK(p), NEW fresh \in Seq(Written), Rising(fresh),
         \A i \in 1 .. Len(fresh) : fresh[i] > Through(p)
  PROVE  Paints(p, apply(p, fresh)) /\ apply(p, fresh).shown = p.shown \o fresh
<1> DEFINE q == apply(p, fresh)
<1>1. PICK approvals \in SUBSET Runs :
         q = [p EXCEPT !.shown = p.shown \o fresh, !.approvals = approvals]
  BY DEF apply
<1>2. p \in Tab
  BY DEF TabOK
<1>3. /\ p.shown \o fresh \in Seq(Written) /\ Rising(p.shown \o fresh)
      /\ GoesOn(p.shown, p.shown \o fresh)
  <2>1. p.shown \in Seq(1 .. Len(log)) /\ Rising(p.shown) /\ fresh \in Seq(1 .. Len(log))
    BY <1>2 DEF TabOK, Tab, Written
  <2> QED BY <2>1, StillRising DEF Written
<1> HIDE DEF q
<1>4. /\ q \in Tab /\ q.shown = p.shown \o fresh /\ q.held = p.held /\ q.reading = p.reading
      /\ q.link = p.link /\ q.live = p.live /\ q.asked = p.asked
  BY <1>1, <1>2, <1>3 DEF Tab
<1>5. Paints(p, q)
  BY <1>3, <1>4 DEF Paints, TabOK, FullOf, GaveWay
<1> QED BY <1>4, <1>5 DEF q

LEMMA HoldPaints ==
  ASSUME Len(log) \in Nat, NEW p, TabOK(p), NEW arriving \in SUBSET Written
  PROVE  Paints(p, hold(p, arriving))
<1> DEFINE q == hold(p, arriving)
<1>1. p \in Tab
  BY DEF TabOK
<1>2. /\ q \in Tab /\ q = [p EXCEPT !.held = q.held]
      /\ Cardinality(q.held) <= HELD_RECORDS
      /\ FullOf(p) => FullOf(q)
      /\ GaveWay(p, q) => FullOf(q)
  BY <1>1, HoldKeeps DEF GaveWay
<1> HIDE DEF q
<1>3. /\ q.shown = p.shown /\ q.reading = p.reading
      /\ q.link = p.link /\ q.live = p.live /\ q.asked = p.asked
  BY <1>1, <1>2 DEF Tab
<1>4. GoesOn(p.shown, q.shown)
  <2>1. Len(p.shown) \in Nat
    BY <1>1, LenProperties DEF Tab
  <2> QED BY <1>3, <2>1 DEF GoesOn
<1>5. Paints(p, q)
  BY <1>2, <1>3, <1>4 DEF Paints, TabOK
<1> QED BY <1>5 DEF q

LEMMA LandPaints ==
  ASSUME log \in Seq(Record), NEW p, TabOK(p), NEW frame \in Frames
  PROVE  Paints(p, land(p, frame))
<1>0. Len(log) \in Nat
  BY LenProperties
<1>1. p \in Tab /\ frame.records \in SUBSET Written
  BY DEF TabOK, Frames
<1>2. Paints(p, adopt(p, frame))
  <2> DEFINE q == adopt(p, frame)
  <2>1. Asking(frame.records) \in SUBSET Runs
    <3>1. \A s \in frame.records : log[s].kind = "requested" => log[s].run \in Runs
      <4>1. \A s \in Written : log[s] \in Record
        BY ElementOfSeq DEF Written
      <4> QED BY <1>1, <4>1 DEF Record
    <3> QED BY <3>1 DEF Asking
  <2>2. q = [p EXCEPT !.approvals = Asking(frame.records)]
    BY DEF adopt
  <2> HIDE DEF q
  <2>3. /\ q \in Tab /\ q.shown = p.shown /\ q.held = p.held /\ q.reading = p.reading
        /\ q.link = p.link /\ q.live = p.live /\ q.asked = p.asked
    BY <1>1, <2>1, <2>2 DEF Tab
  <2>4. GoesOn(p.shown, q.shown)
    BY <2>3, PaintsNothing DEF Paints
  <2>5. Paints(p, q)
    BY <2>3, <2>4 DEF Paints, TabOK, FullOf, GaveWay
  <2> QED BY <2>5 DEF q
<1>3. Paints(p, backfill(p, frame))
  <2> DEFINE into == IF p.shown # << >> THEN p
                     ELSE [apply(p, InOrder(frame.records)) EXCEPT !.backfilled = @ \/ frame.about = City]
  <2>1. Paints(p, into)
    <3>1. CASE p.shown # << >>
      BY <3>1, PaintsNothing
    <3>2. CASE p.shown = << >>
      <4> DEFINE fresh == InOrder(frame.records)
                 q == apply(p, fresh)
      <4>1. fresh \in Seq(Written) /\ Rising(fresh)
        BY <1>0, InOrderRises
      <4>2. \A i \in 1 .. Len(fresh) : fresh[i] > Through(p)
        <5>1. Through(p) = 0
          BY <3>2 DEF Through
        <5>2. \A i \in 1 .. Len(fresh) : fresh[i] \in Written
          BY <4>1, ElementOfSeq
        <5> QED BY <5>1, <5>2 DEF Written
      <4> HIDE DEF fresh
      <4>3. Paints(p, q)
        BY <1>0, <4>1, <4>2, ApplyPaints
      <4> DEFINE late == [q EXCEPT !.backfilled = @ \/ frame.about = City]
      <4>4. into = late
        BY <3>2 DEF fresh
      <4> HIDE DEF q
      <4>5. q \in Tab
        BY <4>3 DEF Paints, TabOK
      <4>6. /\ late \in Tab /\ late.shown = q.shown /\ late.held = q.held /\ late.reading = q.reading
            /\ late.link = q.link /\ late.live = q.live /\ late.asked = q.asked
        BY <4>5 DEF Tab
      <4> HIDE DEF late
      <4>7. Paints(p, late)
        BY <4>3, <4>6 DEF Paints, TabOK, FullOf, GaveWay
      <4> QED BY <4>4, <4>7
    <3> QED BY <3>1, <3>2
  <2> HIDE DEF into
  <2>2. Paints(into, hold(into, frame.records))
    <3>1. TabOK(into)
      BY <2>1 DEF Paints
    <3> QED BY <1>0, <1>1, <3>1, HoldPaints
  <2>3. backfill(p, frame) = hold(into, frame.records)
    BY DEF backfill, into
  <2> QED BY <2>1, <2>2, <2>3, PaintsOn
<1> QED BY <1>2, <1>3 DEF land

-----------------------------------------------------------------------------
(* What the session and the tab do with frames.                            *)

\* A frame says something of records that are written, and an event is about
\* one of them.
Singles(buffer, among) ==
    \A i \in 1 .. Len(buffer) : buffer[i].is = "event" => \E n \in among : buffer[i].records = {n}

\* The answers of a painted frame are frames that were waiting, at most two.
LEMMA PicksFrames ==
  ASSUME NEW buffer \in Seq(Frames), NEW places
  PROVE  /\ Picked(buffer, places) \in Seq(Frames)
         /\ \A i \in 1 .. Len(Picked(buffer, places)) :
               \E a \in 1 .. Len(buffer) : a \in places /\ Picked(buffer, places)[i] = buffer[a]
<1>1. IsPick(Picked(buffer, places), Frames, buffer, places, Len(buffer))
  BY PickedIs
<1> QED BY <1>1 DEF IsPick

LEMMA AnswersAreFrames ==
  ASSUME NEW buffer \in Seq(Frames)
  PROVE  Answers(buffer) \in Seq(Frames)
<1> DEFINE last(is) == {i \in Places(buffer, is) : \A j \in Places(buffer, is) : j <= i}
           latest(is) == Picked(buffer, last(is))
<1>1. latest("history") \in Seq(Frames) /\ latest("approvals") \in Seq(Frames)
  BY PicksFrames
<1>2. Answers(buffer) \in {latest("history") \o latest("approvals"), latest("approvals") \o latest("history")}
  BY DEF Answers
<1> HIDE DEF latest
<1> QED BY <1>1, <1>2, ConcatProperties

\* The records of a painted frame's events.
LEMMA EventsAreRecords ==
  ASSUME Len(log) \in Nat, NEW buffer \in Seq(Frames), Singles(buffer, Written)
  PROVE  LET frames == Events(buffer)
         IN  [i \in DOMAIN frames |-> RecordOf(frames[i])] \in Seq(Written)
<1> DEFINE frames == Events(buffer)
<1>1. /\ frames \in Seq(Frames)
      /\ \A i \in 1 .. Len(frames) :
            \E a \in 1 .. Len(buffer) : a \in Places(buffer, "event") /\ frames[i] = buffer[a]
  BY PicksFrames DEF Events
<1> HIDE DEF frames
<1>2. Len(frames) \in Nat /\ DOMAIN frames = 1 .. Len(frames)
  BY <1>1, LenProperties
<1>3. \A i \in 1 .. Len(frames) : RecordOf(frames[i]) \in Written
  <2> TAKE i \in 1 .. Len(frames)
  <2>1. PICK a \in 1 .. Len(buffer) : a \in Places(buffer, "event") /\ frames[i] = buffer[a]
    BY <1>1
  <2>2. PICK n \in Written : frames[i].records = {n}
    BY <2>1 DEF Singles, Places
  <2> QED BY <2>2 DEF RecordOf
<1>4. [i \in 1 .. Len(frames) |-> RecordOf(frames[i])] \in [1 .. Len(frames) -> Written]
  BY <1>3
<1>5. [i \in 1 .. Len(frames) |-> RecordOf(frames[i])] \in Seq(Written)
  BY <1>2, <1>4, SeqDef
<1> QED BY <1>2, <1>5 DEF frames

\* One animation frame, of a tab whose buffer is in order.
LEMMA PaintIs ==
  ASSUME log \in Seq(Record), TabOK(page), Singles(page.buffer, Written), paint
  PROVE  \E q : Paints(page, q) /\ page' = [q EXCEPT !.buffer = << >>]
<1>0. Len(log) \in Nat /\ page \in Tab /\ page.buffer \in Seq(Frames)
  BY LenProperties DEF TabOK, Tab
<1>1. PICK frames \in {Events(page.buffer)}, answers \in {Answers(page.buffer)} :
       \E fresh \in {Fresh(page, [i \in DOMAIN frames |-> RecordOf(frames[i])])} :
       \E after \in {apply(page, fresh)} :
       \E kept \in {hold(after, ToSet(after.shown) \ ToSet(page.shown))} :
       \E first \in {IF answers = << >> THEN kept ELSE land(kept, answers[1])} :
       \E second \in {IF Len(answers) < 2 THEN first ELSE land(first, answers[2])} :
          page' = [second EXCEPT !.buffer = << >>]
  BY DEF paint
<1>2. PICK fresh \in {Fresh(page, [i \in DOMAIN frames |-> RecordOf(frames[i])])} :
       \E after \in {apply(page, fresh)} :
       \E kept \in {hold(after, ToSet(after.shown) \ ToSet(page.shown))} :
       \E first \in {IF answers = << >> THEN kept ELSE land(kept, answers[1])} :
       \E second \in {IF Len(answers) < 2 THEN first ELSE land(first, answers[2])} :
          page' = [second EXCEPT !.buffer = << >>]
  BY <1>1
<1>2a. PICK after \in {apply(page, fresh)} :
       \E kept \in {hold(after, ToSet(after.shown) \ ToSet(page.shown))} :
       \E first \in {IF answers = << >> THEN kept ELSE land(kept, answers[1])} :
       \E second \in {IF Len(answers) < 2 THEN first ELSE land(first, answers[2])} :
          page' = [second EXCEPT !.buffer = << >>]
  BY <1>2
<1>2b. PICK kept \in {hold(after, ToSet(after.shown) \ ToSet(page.shown))} :
       \E first \in {IF answers = << >> THEN kept ELSE land(kept, answers[1])} :
       \E second \in {IF Len(answers) < 2 THEN first ELSE land(first, answers[2])} :
          page' = [second EXCEPT !.buffer = << >>]
  BY <1>2a
<1>2c. PICK first \in {IF answers = << >> THEN kept ELSE land(kept, answers[1])} :
       \E second \in {IF Len(answers) < 2 THEN first ELSE land(first, answers[2])} :
          page' = [second EXCEPT !.buffer = << >>]
  BY <1>2b
<1>2d. PICK second \in {IF Len(answers) < 2 THEN first ELSE land(first, answers[2])} :
          page' = [second EXCEPT !.buffer = << >>]
  BY <1>2c
<1>3. Paints(page, after)
  <2> DEFINE recs == [i \in DOMAIN frames |-> RecordOf(frames[i])]
  <2>1. recs \in Seq(1 .. Len(log))
    BY <1>0, EventsAreRecords DEF Written
  <2> HIDE DEF recs
  <2>2. fresh = Fresh(page, recs) /\ after = apply(page, fresh)
    BY DEF recs
  <2>3. /\ fresh \in Seq(1 .. Len(log)) /\ Rising(fresh)
        /\ \A i \in 1 .. Len(fresh) : fresh[i] > Through(page)
    BY <1>0, <2>1, <2>2, FreshIsNew
  <2>4. fresh \in Seq(Written)
    BY <2>3 DEF Written
  <2> QED BY <1>0, <2>2, <2>3, <2>4, ApplyPaints
<1>4. Paints(page, kept)
  <2>1. after \in Tab /\ TabOK(after)
    BY <1>3 DEF Paints, TabOK
  <2>2. ToSet(after.shown) \in SUBSET Written
    <3>1. after.shown \in Seq(Written)
      BY <2>1 DEF Tab
    <3> QED BY <3>1, LenProperties, ElementOfSeq DEF ToSet
  <2>3. Paints(after, kept)
    <3>1. ToSet(after.shown) \ ToSet(page.shown) \in SUBSET Written
      BY <2>2
    <3> QED BY <1>0, <2>1, <3>1, HoldPaints
  <2> QED BY <1>3, <2>3, PaintsOn
<1>5. answers \in Seq(Frames) /\ Len(answers) \in Nat
  BY <1>0, AnswersAreFrames, LenProperties
<1>6. Paints(page, first)
  <2>1. CASE answers = << >>
    BY <1>4, <2>1
  <2>2. CASE answers # << >>
    <3>1. answers[1] \in Frames
      <4>1. 1 \in 1 .. Len(answers)
        BY <1>5, <2>2, EmptySeq
      <4> QED BY <1>5, <4>1, ElementOfSeq
    <3>2. TabOK(kept)
      BY <1>4 DEF Paints
    <3>3. Paints(kept, first)
      BY <2>2, <3>1, <3>2, LandPaints
    <3> QED BY <1>4, <3>3, PaintsOn
  <2> QED BY <2>1, <2>2
<1>7. Paints(page, second)
  <2>1. CASE Len(answers) < 2
    BY <1>6, <2>1
  <2>2. CASE ~ (Len(answers) < 2)
    <3>1. answers[2] \in Frames
      <4>1. 2 \in 1 .. Len(answers)
        BY <1>5, <2>2
      <4> QED BY <1>5, <4>1, ElementOfSeq
    <3>2. TabOK(first)
      BY <1>6 DEF Paints
    <3>3. Paints(first, second)
      BY <2>2, <3>1, <3>2, LandPaints
    <3> QED BY <1>6, <3>3, PaintsOn
  <2> QED BY <2>1, <2>2
<1> QED BY <1>2d, <1>7

-----------------------------------------------------------------------------
(* The invariant.                                                          *)

LogOK == log \in Seq(Record) /\ Len(log) <= MaxRecords /\ log # << >>

\* The views hold the ledger but for what was written past the observer, and
\* for the record the observer has still to fold; only what they hold is sent.
ServerOK ==
    /\ process \in {"down", "rebuilt", "opened", "serving"}
    /\ observing \in {"nothing", "fold", "send"}
    /\ folded \subseteq Written /\ missed \subseteq Written
    /\ sent \in Seq(folded)
    /\ observing # "nothing" => process = "serving" /\ Len(log) \notin missed
    /\ process = "down" => sent = << >>
    /\ process = "rebuilt" => missed = {}
    /\ process # "down" =>
          folded = (IF observing = "fold" THEN 1 .. Len(log) - 1 ELSE Written) \ missed

\* What is on its way to the tab: events the views have folded, and no answer
\* older than an event before it.
FramesOK(w, among) ==
    /\ w \in Seq(Frames)
    /\ Singles(w, among)
    /\ \A i, j \in 1 .. Len(w) :
          (i < j /\ w[i].is = "event" /\ w[j].is = "approvals") => w[i].records \subseteq w[j].records

WireOK ==
    /\ session \in [phase : {None, "hello", "live"}, next : Nat]
    /\ session.next <= Len(sent) + 1
    /\ session.phase # None => session.next >= 1
    /\ lost \subseteq Written
    /\ toServer \in Seq(Queries)
    /\ FramesOK(toPage, folded)
    /\ process = "down" => session = NoSession /\ toPage = << >>

PageOK ==
    /\ TabOK(page)
    /\ page.live = (page.link = "live")
    /\ Singles(page.buffer, Written)
    /\ loads \in Nat

WatchInv == LogOK /\ ServerOK /\ WireOK /\ PageOK

LEMMA ServerStays ==
  ASSUME LogOK, ServerOK, UNCHANGED <<log, server>> PROVE LogOK' /\ ServerOK'
BY DEF LogOK, ServerOK, server, Written

LEMMA WireStays ==
  ASSUME WireOK, UNCHANGED <<log, server, wire>> PROVE WireOK'
<1>1. FramesOK(toPage, folded)
  BY DEF WireOK
<1>2. toPage' = toPage /\ folded' = folded /\ Frames' = Frames /\ Written' = Written /\ Queries' = Queries
  BY DEF server, wire, Frames, Written, Queries
<1>3. FramesOK(toPage, folded)'
  BY ONLY <1>1, <1>2 DEF FramesOK, Singles
<1> QED BY <1>2, <1>3 DEF WireOK, server, wire

LEMMA PageStays ==
  ASSUME PageOK, UNCHANGED <<log, page, loads>> PROVE PageOK'
BY DEF PageOK, TabOK, Tab, Rising, Singles, Frames, Written

\* What is typed stays so when the ledger grows.
LEMMA LogGrows ==
  ASSUME log \in Seq(Record), NEW r \in Record, log' = Append(log, r)
  PROVE  /\ log' \in Seq(Record) /\ Len(log) \in Nat /\ Len(log') = Len(log) + 1
         /\ Written \subseteq Written' /\ Written' = Written \cup {Len(log) + 1}
         /\ Frames \subseteq Frames' /\ Seq(Frames) \subseteq Seq(Frames')
         /\ Tab \subseteq Tab'
<1>1. log' \in Seq(Record) /\ Len(log) \in Nat /\ Len(log') = Len(log) + 1
  BY AppendProperties, LenProperties
<1>2. Written \subseteq Written' /\ Written' = Written \cup {Len(log) + 1}
  BY <1>1 DEF Written
<1>3. Frames \subseteq Frames'
  BY <1>2 DEF Frames
<1>4. Seq(Frames) \subseteq Seq(Frames')
  BY <1>3, SeqMonotonic
<1>5. Seq(Written) \subseteq Seq(Written')
  BY <1>2, SeqMonotonic
<1>6. Tab \subseteq Tab'
  <2>1. SUBSET Written \subseteq SUBSET (Written')
    BY <1>2
  <2> SUFFICES ASSUME NEW p \in Tab PROVE p \in Tab'
    OBVIOUS
  <2> QED BY <1>4, <1>5, <2>1 DEF Tab
<1> QED BY <1>1, <1>2, <1>3, <1>4, <1>6

LEMMA PageGrows ==
  ASSUME LogOK, PageOK, NEW r \in Record, log' = Append(log, r), UNCHANGED <<page, loads>>
  PROVE  PageOK'
<1>1. Written \subseteq Written' /\ Tab \subseteq Tab'
  BY LogGrows DEF LogOK
<1>2. TabOK(page)'
  BY <1>1 DEF PageOK, TabOK, Rising
<1>3. Singles(page.buffer, Written)'
  BY <1>1 DEF PageOK, Singles
<1> QED BY <1>2, <1>3 DEF PageOK

\* The wire stays as it was while the views, and what was sent, grow.
LEMMA WireGrows ==
  ASSUME WireOK, UNCHANGED wire, process # "down", process' # "down",
         folded \subseteq folded', Written \subseteq Written', Frames \subseteq Frames',
         Len(sent) \in Nat, Len(sent') \in Nat, Len(sent) <= Len(sent')
  PROVE  WireOK'
<1>1. toPage \in Seq(Frames')
  BY SeqMonotonic DEF WireOK, FramesOK
<1>2. Singles(toPage, folded')
  BY DEF WireOK, FramesOK, Singles
<1>3. FramesOK(toPage, folded)'
  BY <1>1, <1>2 DEF WireOK, FramesOK, wire, Singles
<1> QED BY <1>3 DEF WireOK, wire, Queries

LEMMA FramesAppended ==
  ASSUME NEW w, NEW among, FramesOK(w, among), NEW frame \in Frames,
         frame.is = "event" => \E n \in among : frame.records = {n},
         frame.is = "approvals" => among \subseteq frame.records
  PROVE  FramesOK(Append(w, frame), among)
<1> DEFINE v == Append(w, frame)
<1>1. /\ v \in Seq(Frames) /\ Len(v) = Len(w) + 1 /\ Len(w) \in Nat
      /\ \A i \in 1 .. Len(w) : v[i] = w[i]
      /\ v[Len(w) + 1] = frame
  BY AppendProperties, LenProperties DEF FramesOK
<1> HIDE DEF v
<1>2. \A i \in 1 .. Len(v) : i = Len(w) + 1 \/ i \in 1 .. Len(w)
  BY <1>1
<1>3. Singles(v, among)
  BY <1>1, <1>2 DEF FramesOK, Singles
<1>4. ASSUME NEW i \in 1 .. Len(v), NEW j \in 1 .. Len(v), i < j, v[i].is = "event", v[j].is = "approvals"
      PROVE  v[i].records \subseteq v[j].records
  <2>1. i \in 1 .. Len(w)
    BY <1>1, <1>4
  <2>2. CASE j \in 1 .. Len(w)
    BY <1>1, <1>4, <2>1, <2>2 DEF FramesOK
  <2>3. CASE j = Len(w) + 1
    <3>1. PICK n \in among : v[i].records = {n}
      BY <1>3, <1>4 DEF Singles
    <3> QED BY <1>1, <1>4, <2>3, <3>1
  <2> QED BY <1>2, <2>2, <2>3
<1> QED BY <1>1, <1>3, <1>4 DEF FramesOK, v

LEMMA FramesTaken ==
  ASSUME NEW w, NEW among, FramesOK(w, among), w # << >>
  PROVE  /\ FramesOK(Tail(w), among) /\ Head(w) \in Frames
         /\ Head(w).is = "event" => \E n \in among : Head(w).records = {n}
<1> DEFINE v == Tail(w)
<1>1. /\ v \in Seq(Frames) /\ Len(v) = Len(w) - 1 /\ Len(w) \in Nat /\ Len(w) # 0
      /\ \A i \in 1 .. Len(v) : v[i] = w[i + 1]
      /\ Head(w) \in Frames
  BY HeadTailProperties, LenProperties, EmptySeq DEF FramesOK
<1>2. Head(w) = w[1] /\ 1 \in 1 .. Len(w)
  BY <1>1
<1> HIDE DEF v
<1>3. \A i \in 1 .. Len(v) : i + 1 \in 1 .. Len(w)
  BY <1>1
<1>4. Singles(v, among)
  BY <1>1, <1>3 DEF FramesOK, Singles
<1>5. ASSUME NEW i \in 1 .. Len(v), NEW j \in 1 .. Len(v), i < j, v[i].is = "event", v[j].is = "approvals"
      PROVE  v[i].records \subseteq v[j].records
  <2>1. i + 1 \in 1 .. Len(w) /\ j + 1 \in 1 .. Len(w) /\ i + 1 < j + 1
    BY <1>1, <1>3, <1>5
  <2> QED BY <1>1, <1>5, <2>1 DEF FramesOK
<1>6. FramesOK(v, among)
  BY <1>1, <1>4, <1>5 DEF FramesOK
<1>7. Head(w).is = "event" => \E n \in among : Head(w).records = {n}
  BY <1>2 DEF FramesOK, Singles
<1> QED BY <1>1, <1>6, <1>7 DEF v

LEMMA NoFrames == ASSUME NEW among PROVE FramesOK(<< >>, among)
<1>1. << >> \in Seq(Frames) /\ Len(<< >>) = 0
  BY EmptySeq
<1> QED BY <1>1 DEF FramesOK, Singles

-----------------------------------------------------------------------------
(* Every step keeps it.                                                    *)

LEMMA InitWatched == Init => WatchInv
<1> SUFFICES ASSUME Init PROVE WatchInv
  OBVIOUS
<1>1. LogOK /\ Len(log) = 1
  <2>1. [run |-> City, kind |-> "other"] \in Record
    BY DEF Record, Kinds
  <2>2. log \in Seq(Record) /\ Len(log) = 1
    BY <2>1 DEF Init
  <2> QED BY <2>2, BoundsAssumption, EmptySeq DEF LogOK
<1>2. ServerOK
  BY EmptySeq DEF Init, ServerOK
<1>3. WireOK
  <2>1. /\ session = NoSession /\ lost = {} /\ toServer = << >> /\ toPage = << >> /\ sent = << >>
    BY DEF Init
  <2> QED BY <2>1, NoFrames, EmptySeq DEF WireOK, NoSession
<1>4. PageOK
  <2>1. page = NoPage /\ loads = 0
    BY DEF Init
  <2>2. NoPage \in Tab
    BY EmptySeq DEF NoPage, Tab
  <2>3. TabOK(NoPage)
    <3>1. Cardinality({}) = 0 /\ 0 <= HELD_RECORDS
      BY BoundsAssumption, FS_EmptySet
    <3>2. NoPage.held = {} /\ NoPage.shown = << >>
      BY DEF NoPage
    <3> QED BY <2>2, <3>1, <3>2, EmptySeq DEF TabOK, Rising
  <2>4. Singles(NoPage.buffer, Written)
    BY EmptySeq DEF Singles, NoPage
  <2> QED BY <2>1, <2>3, <2>4 DEF PageOK, NoPage
<1> QED BY <1>1, <1>2, <1>3, <1>4 DEF WatchInv

LEMMA RebuildKeeps == WatchInv /\ rebuild_views => WatchInv'
<1> SUFFICES ASSUME WatchInv, rebuild_views PROVE WatchInv'
  OBVIOUS
<1>1. /\ process = "down" /\ process' = "rebuilt" /\ folded' = Written /\ sent' = << >>
      /\ missed' = {} /\ observing' = "nothing" /\ UNCHANGED <<log, wire, page, loads>>
  BY DEF rebuild_views
<1>2. LogOK' /\ PageOK'
  BY <1>1, PageStays DEF WatchInv, LogOK
<1>3. ServerOK'
  BY <1>1, EmptySeq DEF ServerOK, Written
<1>4. WireOK'
  <2>1. session = NoSession /\ toPage = << >>
    BY <1>1 DEF WatchInv, WireOK
  <2>2. FramesOK(toPage, folded)'
    <3>1. Frames' = Frames
      BY <1>1 DEF Frames, Written
    <3>2. toPage' = << >>
      BY <1>1, <2>1 DEF wire
    <3>3. FramesOK(<< >>, folded)'
      BY NoFrames, <3>1 DEF FramesOK, Singles
    <3> QED BY <3>2, <3>3
  <2> QED BY <1>1, <2>1, <2>2, EmptySeq DEF WatchInv, WireOK, wire, NoSession, Written, Queries
<1> QED BY <1>2, <1>3, <1>4 DEF WatchInv

LEMMA OpenKeeps == WatchInv /\ open_for_service => WatchInv'
<1> SUFFICES ASSUME WatchInv, open_for_service PROVE WatchInv'
  OBVIOUS
<1>1. /\ process = "rebuilt" /\ process' = "opened" /\ UNCHANGED <<observing, folded, sent, wire, page, loads>>
  BY DEF open_for_service
<1>2. /\ observing = "nothing" /\ missed = {} /\ folded = Written
  BY <1>1 DEF WatchInv, ServerOK
<1>3. CASE log' = log /\ missed' = {}
  <2>1. LogOK' /\ ServerOK'
    BY <1>1, <1>2, <1>3 DEF WatchInv, LogOK, ServerOK, Written
  <2>2. WireOK'
    BY <1>1, <1>3 DEF WatchInv, WireOK, wire, Written, FramesOK, Singles, Frames, Queries
  <2>3. PageOK'
    BY <1>1, <1>3, PageStays DEF WatchInv
  <2> QED BY <2>1, <2>2, <2>3 DEF WatchInv
<1>4. CASE /\ Len(log) < MaxRecords /\ missed' = {Len(log) + 1}
           /\ log' = Append(log, [run |-> City, kind |-> "other"])
  <2>1. [run |-> City, kind |-> "other"] \in Record
    BY DEF Record, Kinds
  <2>2. /\ log' \in Seq(Record) /\ Len(log) \in Nat /\ Len(log') = Len(log) + 1
        /\ Written \subseteq Written' /\ Written' = Written \cup {Len(log) + 1}
        /\ Frames \subseteq Frames'
    BY <1>4, <2>1, LogGrows DEF WatchInv, LogOK
  <2>3. LogOK'
    BY <1>4, <2>2, BoundsAssumption DEF LogOK
  <2>4. Len(log) + 1 \notin Written
    BY <2>2 DEF Written
  <2>5. ServerOK'
    BY <1>1, <1>2, <1>4, <2>2, <2>4 DEF WatchInv, ServerOK
  <2>6. WireOK'
    <3>1. Len(sent) \in Nat /\ sent' = sent
      BY <1>1, LenProperties DEF WatchInv, ServerOK
    <3> QED BY <1>1, <2>2, <3>1, WireGrows DEF WatchInv
  <2>7. PageOK'
    BY <1>1, <1>4, <2>1, PageGrows DEF WatchInv
  <2> QED BY <2>3, <2>5, <2>6, <2>7 DEF WatchInv
<1> QED BY <1>3, <1>4 DEF open_for_service

LEMMA ObserveKeeps == WatchInv /\ observe => WatchInv'
<1> SUFFICES ASSUME WatchInv, observe PROVE WatchInv'
  OBVIOUS
<1>1. /\ process = "opened" /\ process' = "serving"
      /\ UNCHANGED <<log, observing, folded, missed, sent, wire, page, loads>>
  BY DEF observe
<1>2. LogOK' /\ ServerOK'
  BY <1>1 DEF WatchInv, LogOK, ServerOK, Written
<1>3. WireOK'
  BY <1>1 DEF WatchInv, WireOK, wire, Written, FramesOK, Singles, Frames, Queries
<1> QED BY <1>1, <1>2, <1>3, PageStays DEF WatchInv

LEMMA AppendKeeps ==
  ASSUME WatchInv, NEW run \in Runs \cup {City}, NEW kind \in Kinds, append(run, kind)
  PROVE  WatchInv'
<1>1. /\ process = "serving" /\ observing = "nothing" /\ Len(log) < MaxRecords
      /\ (run = City => kind = "other") /\ log' = Append(log, [run |-> run, kind |-> kind])
      /\ observing' = "fold" /\ UNCHANGED <<process, folded, missed, sent, wire, page, loads>>
  BY DEF append
<1>2. [run |-> run, kind |-> kind] \in Record
  BY <1>1 DEF Record
<1>3. /\ log' \in Seq(Record) /\ Len(log) \in Nat /\ Len(log') = Len(log) + 1
      /\ Written \subseteq Written' /\ Frames \subseteq Frames'
  BY <1>1, <1>2, LogGrows DEF WatchInv, LogOK
<1>4. LogOK'
  BY <1>1, <1>3, BoundsAssumption DEF LogOK
<1>5. 1 .. Len(log') - 1 = Written /\ Len(log') \notin Written
  BY <1>3 DEF Written
<1>6. ServerOK'
  BY <1>1, <1>3, <1>5 DEF WatchInv, ServerOK
<1>7. WireOK'
  <2>1. Len(sent) \in Nat /\ sent' = sent
    BY <1>1, LenProperties DEF WatchInv, ServerOK
  <2> QED BY <1>1, <1>3, <2>1, WireGrows DEF WatchInv
<1>8. PageOK'
  BY <1>1, <1>2, PageGrows DEF WatchInv
<1> QED BY <1>4, <1>6, <1>7, <1>8 DEF WatchInv

LEMMA FoldKeeps == WatchInv /\ views_apply => WatchInv'
<1> SUFFICES ASSUME WatchInv, views_apply PROVE WatchInv'
  OBVIOUS
<1>1. /\ observing = "fold" /\ folded' = folded \cup {Len(log)} /\ observing' = "send"
      /\ UNCHANGED <<log, process, missed, sent, wire, page, loads>>
  BY DEF views_apply
<1>2. process = "serving" /\ Len(log) \notin missed /\ folded = (1 .. Len(log) - 1) \ missed /\ sent \in Seq(folded)
  BY <1>1 DEF WatchInv, ServerOK
<1>3. Len(log) \in Nat /\ Len(log) # 0
  BY LenProperties, EmptySeq DEF WatchInv, LogOK
<1>4. Written = (1 .. Len(log) - 1) \cup {Len(log)}
  BY <1>3 DEF Written
<1>5. folded' = Written \ missed
  BY <1>1, <1>2, <1>4
<1>6. sent' \in Seq(folded')
  BY <1>1, <1>2, SeqMonotonic
<1>7. LogOK' /\ ServerOK'
  BY <1>1, <1>2, <1>5, <1>6 DEF WatchInv, LogOK, ServerOK, Written
<1>8. WireOK'
  <2>1. Len(sent) \in Nat /\ sent' = sent
    BY <1>1, LenProperties DEF WatchInv, ServerOK
  <2>2. Written' = Written /\ Frames' = Frames
    BY <1>1 DEF Written, Frames
  <2> QED BY <1>1, <1>2, <2>1, <2>2, WireGrows DEF WatchInv
<1> QED BY <1>1, <1>7, <1>8, PageStays DEF WatchInv

LEMMA SendKeeps == WatchInv /\ to_clients_send => WatchInv'
<1> SUFFICES ASSUME WatchInv, to_clients_send PROVE WatchInv'
  OBVIOUS
<1>1. /\ observing = "send" /\ sent' = Append(sent, Len(log)) /\ observing' = "nothing"
      /\ UNCHANGED <<log, process, folded, missed, wire, page, loads>>
  BY DEF to_clients_send
<1>2. process = "serving" /\ Len(log) \in folded /\ sent \in Seq(folded) /\ folded = Written \ missed
  <2>1. process = "serving" /\ Len(log) \notin missed /\ sent \in Seq(folded) /\ folded = Written \ missed
    BY <1>1 DEF WatchInv, ServerOK
  <2>2. Len(log) \in Written
    BY LenProperties, EmptySeq DEF WatchInv, LogOK, Written
  <2> QED BY <2>1, <2>2
<1>3. sent' \in Seq(folded) /\ Len(sent') = Len(sent) + 1 /\ Len(sent) \in Nat
  BY <1>1, <1>2, AppendProperties, LenProperties
<1>4. LogOK' /\ ServerOK'
  BY <1>1, <1>2, <1>3 DEF WatchInv, LogOK, ServerOK, Written
<1>5. WireOK'
  <2>1. Written' = Written /\ Frames' = Frames
    BY <1>1 DEF Written, Frames
  <2> QED BY <1>1, <1>2, <1>3, <2>1, WireGrows DEF WatchInv
<1> QED BY <1>1, <1>4, <1>5, PageStays DEF WatchInv

\* A query is answered from the views, or from the ledger's own files.
LEMMA AnswerIs ==
  ASSUME Len(log) \in Nat, folded \subseteq Written, NEW frame \in Queries, frame.is # "hello"
  PROVE  /\ answer(frame) \in Frames /\ answer(frame).is # "event"
         /\ answer(frame).is = "approvals" => answer(frame).records = folded
<1>1. CASE frame.is = "approvals"
  <2>1. answer(frame) = Frame("approvals", City, folded)
    BY <1>1 DEF answer
  <2> QED BY <2>1 DEF Frame, Frames
<1>2. CASE frame.is = "history"
  <2>1. answer(frame) = IF frame.about = City THEN history ELSE run_history(frame.about)
    BY <1>2 DEF answer
  <2>2. history \in Frames /\ history.is = "history"
    BY DEF history, Frame, Frames, Newest
  <2>3. frame.about \in Runs \cup {City}
    BY DEF Queries
  <2>4. run_history(frame.about) \in Frames /\ run_history(frame.about).is = "history"
    BY <2>3 DEF run_history, Frame, Frames, Newest
  <2> QED BY <2>1, <2>2, <2>4
<1> QED BY <1>1, <1>2 DEF Queries

LEMMA HearKeeps == WatchInv /\ hear => WatchInv'
<1> SUFFICES ASSUME WatchInv, hear PROVE WatchInv'
  OBVIOUS
<1> DEFINE frame == Head(toServer)
<1>1. /\ session.phase # None /\ toServer # << >> /\ toServer' = Tail(toServer)
      /\ UNCHANGED <<log, server, lost, page, loads>>
      /\ \/ /\ session.phase = "hello" /\ frame.is = "hello"
            /\ session' = [session EXCEPT !.phase = "live"]
            /\ toPage' = Append(toPage, Frame("welcome", City, {}))
         \/ /\ session.phase = "live" /\ frame.is # "hello"
            /\ session' = session
            /\ toPage' = Append(toPage, answer(frame))
  BY DEF hear
<1>2. frame \in Queries /\ toServer' \in Seq(Queries)
  BY <1>1, HeadTailProperties DEF WatchInv, WireOK
<1>3. /\ session' \in [phase : {None, "hello", "live"}, next : Nat] /\ session'.next = session.next
      /\ session.next >= 1 /\ session.next <= Len(sent) + 1
  BY <1>1 DEF WatchInv, WireOK
<1>4. FramesOK(toPage', folded)
  <2>1. CASE toPage' = Append(toPage, Frame("welcome", City, {}))
    <3> DEFINE welcome == Frame("welcome", City, {})
    <3>1. welcome \in Frames /\ welcome.is = "welcome"
      BY DEF Frame, Frames
    <3> HIDE DEF welcome
    <3>2. FramesOK(Append(toPage, welcome), folded)
      BY <3>1, FramesAppended DEF WatchInv, WireOK
    <3> QED BY <2>1, <3>2 DEF welcome
  <2>2. CASE frame.is # "hello" /\ toPage' = Append(toPage, answer(frame))
    <3>1. Len(log) \in Nat /\ folded \subseteq Written
      BY LenProperties DEF WatchInv, LogOK, ServerOK
    <3> HIDE DEF frame
    <3>2. /\ answer(frame) \in Frames /\ answer(frame).is # "event"
          /\ answer(frame).is = "approvals" => answer(frame).records = folded
      BY <1>2, <2>2, <3>1, AnswerIs
    <3>3. FramesOK(Append(toPage, answer(frame)), folded)
      BY <3>2, FramesAppended DEF WatchInv, WireOK
    <3> QED BY <2>2, <3>3
  <2> QED BY <1>1, <2>1, <2>2
<1>5. LogOK' /\ ServerOK'
  BY <1>1, ServerStays DEF WatchInv
<1>6. WireOK'
  <2>1. FramesOK(toPage, folded)'
    BY <1>1, <1>4 DEF FramesOK, Singles, Frames, Written, server
  <2>2. process' # "down"
    BY <1>1 DEF WatchInv, WireOK, NoSession, server
  <2> HIDE DEF frame
  <2>3. lost' \subseteq Written' /\ Len(sent') = Len(sent) /\ toServer' \in Seq(Queries')
    BY <1>1, <1>2 DEF WatchInv, WireOK, Written, server, Queries
  <2> QED BY <1>3, <2>1, <2>2, <2>3 DEF WireOK
<1> QED BY <1>1, <1>5, <1>6, PageStays DEF WatchInv

LEMMA RelayKeeps == WatchInv /\ relay => WatchInv'
<1> SUFFICES ASSUME WatchInv, relay PROVE WatchInv'
  OBVIOUS
<1> DEFINE oldest == Len(sent) - Ring + 1
<1>1. /\ session.phase # None /\ session.next <= Len(sent)
      /\ UNCHANGED <<log, server, toServer, page, loads>>
      /\ IF session.next < oldest
         THEN /\ session' = [session EXCEPT !.next = oldest]
              /\ lost' = lost \cup {sent[i] : i \in session.next .. oldest - 1}
              /\ toPage' = toPage
         ELSE /\ session' = [session EXCEPT !.next = @ + 1]
              /\ lost' = lost
              /\ toPage' = IF session.phase = "live"
                           THEN Append(toPage, Frame("event", City, {sent[session.next]}))
                           ELSE toPage
  BY DEF relay
<1>2. /\ Len(sent) \in Nat /\ session \in [phase : {None, "hello", "live"}, next : Nat]
      /\ session.next >= 1 /\ lost \subseteq Written /\ Ring \in Nat /\ Ring >= 1
  <2>1. Len(sent) \in Nat
    BY LenProperties DEF WatchInv, ServerOK
  <2>2. session \in [phase : {None, "hello", "live"}, next : Nat] /\ session.next >= 1
    BY <1>1 DEF WatchInv, WireOK
  <2>3. lost \subseteq Written
    BY DEF WatchInv, WireOK
  <2>4. Ring \in Nat /\ Ring >= 1
    BY BoundsAssumption
  <2> QED BY ONLY <2>1, <2>2, <2>3, <2>4
<1>3. \A i \in 1 .. Len(sent) : sent[i] \in folded /\ sent[i] \in Written
  BY ElementOfSeq DEF WatchInv, ServerOK
<1>4. /\ session' \in [phase : {None, "hello", "live"}, next : Nat]
      /\ session'.next >= 1 /\ session'.next <= Len(sent) + 1
  <2>1. CASE session.next < oldest
    BY <1>1, <1>2, <2>1
  <2>2. CASE ~ (session.next < oldest)
    BY <1>1, <1>2, <2>2
  <2> QED BY <2>1, <2>2
<1>5. lost' \subseteq Written
  <2>1. CASE session.next < oldest
    <3>1. \A i \in session.next .. oldest - 1 : i \in 1 .. Len(sent)
      BY <1>2, <2>1
    <3> QED BY <1>1, <1>2, <1>3, <2>1, <3>1
  <2>2. CASE ~ (session.next < oldest)
    BY <1>1, <1>2, <2>2
  <2> QED BY <2>1, <2>2
<1>6. FramesOK(toPage', folded)
  <2> DEFINE event == Frame("event", City, {sent[session.next]})
  <2>1. toPage' = toPage \/ toPage' = Append(toPage, event)
    BY <1>1
  <2>2. sent[session.next] \in folded /\ sent[session.next] \in Written
    BY <1>1, <1>2, <1>3
  <2>3. event \in Frames /\ event.is = "event" /\ event.records = {sent[session.next]}
    BY <2>2 DEF Frame, Frames
  <2> HIDE DEF event
  <2>4. FramesOK(Append(toPage, event), folded)
    BY <2>2, <2>3, FramesAppended DEF WatchInv, WireOK
  <2> QED BY <2>1, <2>4 DEF WatchInv, WireOK
<1>7. LogOK' /\ ServerOK'
  BY <1>1, ServerStays DEF WatchInv
<1>8. WireOK'
  <2>1. FramesOK(toPage, folded)'
    BY <1>1, <1>6 DEF FramesOK, Singles, Frames, Written, server
  <2>2. process' # "down"
    BY <1>1 DEF WatchInv, WireOK, NoSession, server
  <2>3. lost' \subseteq Written' /\ Len(sent') = Len(sent) /\ toServer' \in Seq(Queries')
    BY <1>1, <1>5 DEF WatchInv, WireOK, Written, server, Queries
  <2> QED BY <1>4, <2>1, <2>2, <2>3 DEF WireOK
<1> QED BY <1>1, <1>7, <1>8, PageStays DEF WatchInv

\* The connection is gone, whatever else the step does to the process.
LEMMA DisconnectedKeeps ==
  ASSUME WatchInv, Disconnected, UNCHANGED <<log, loads>>, Len(sent') \in Nat
  PROVE  WireOK' /\ PageOK'
<1>1. /\ session' = NoSession /\ toServer' = << >> /\ toPage' = << >> /\ lost' = {}
      /\ page' = IF page.link = "idle" THEN page
                 ELSE [page EXCEPT !.link = "backoff", !.live = FALSE]
  BY DEF Disconnected
<1>2. WireOK'
  <2>1. FramesOK(toPage, folded)'
    <3>1. Frames' = Frames
      BY DEF Frames, Written
    <3> QED BY <1>1, <3>1, NoFrames DEF FramesOK, Singles
  <2> QED BY <1>1, <2>1, EmptySeq DEF WireOK, NoSession
<1>3. page' \in Tab /\ page'.shown = page.shown /\ page'.held = page.held /\ page'.buffer = page.buffer
  BY <1>1 DEF WatchInv, PageOK, TabOK, Tab
<1>4. Tab' = Tab /\ Written' = Written
  BY DEF Tab, Frames, Written
<1>5. TabOK(page)'
  BY <1>3, <1>4 DEF WatchInv, PageOK, TabOK, Rising
<1>6. page'.live = (page'.link = "live")
  BY <1>1 DEF WatchInv, PageOK, TabOK, Tab
<1>7. Singles(page.buffer, Written)'
  BY <1>3, <1>4 DEF WatchInv, PageOK, Singles
<1> QED BY <1>2, <1>5, <1>6, <1>7 DEF WatchInv, PageOK

LEMMA BreakKeeps == WatchInv /\ break_connection => WatchInv'
<1> SUFFICES ASSUME WatchInv, break_connection PROVE WatchInv'
  OBVIOUS
<1>1. Disconnected /\ UNCHANGED <<log, server, loads>>
  BY DEF break_connection
<1>2. Len(sent') \in Nat
  BY <1>1, LenProperties DEF WatchInv, ServerOK, server
<1>3. LogOK' /\ ServerOK'
  BY <1>1, ServerStays DEF WatchInv
<1> QED BY <1>1, <1>2, <1>3, DisconnectedKeeps DEF WatchInv

LEMMA StopKeeps == WatchInv /\ stop => WatchInv'
<1> SUFFICES ASSUME WatchInv, stop PROVE WatchInv'
  OBVIOUS
<1>1. /\ process' = "down" /\ observing' = "nothing" /\ folded' = {} /\ missed' = {} /\ sent' = << >>
      /\ Disconnected /\ UNCHANGED <<log, loads>>
  BY DEF stop
<1>2. LogOK' /\ ServerOK' /\ Len(sent') \in Nat
  BY <1>1, EmptySeq DEF WatchInv, LogOK, ServerOK
<1> QED BY <1>1, <1>2, DisconnectedKeeps DEF WatchInv

LEMMA LoadKeeps == WatchInv /\ load => WatchInv'
<1> SUFFICES ASSUME WatchInv, load PROVE WatchInv'
  OBVIOUS
<1>1. /\ process \in {"opened", "serving"} /\ loads' = loads + 1
      /\ page' = [NoPage EXCEPT !.link = "handshaking"]
      /\ session' = [phase |-> "hello", next |-> Len(sent) + 1]
      /\ lost' = {} /\ toServer' = <<Query("hello", City)>> /\ toPage' = << >>
      /\ UNCHANGED <<log, server>>
  BY DEF load
<1>2. LogOK' /\ ServerOK'
  BY <1>1, ServerStays DEF WatchInv
<1>3. Tab' = Tab /\ Written' = Written /\ Frames' = Frames
  BY <1>1 DEF Tab, Frames, Written
<1>4. WireOK'
  <2>1. FramesOK(toPage, folded)'
    BY <1>1, <1>3, NoFrames DEF FramesOK, Singles
  <2>2. Query("hello", City) \in Queries'
    BY DEF Query, Queries
  <2>3. toServer' \in Seq(Queries')
    BY <1>1, <2>2
  <2>4. Len(sent) \in Nat /\ sent' = sent /\ process' = process
    BY <1>1, LenProperties DEF WatchInv, ServerOK, server
  <2> QED BY <1>1, <2>1, <2>3, <2>4 DEF WireOK
<1>5. PageOK'
  <2>1. NoPage \in Tab
    BY EmptySeq DEF NoPage, Tab
  <2>2. /\ page' \in Tab /\ page'.shown = << >> /\ page'.held = {} /\ page'.buffer = << >>
        /\ page'.live = FALSE /\ page'.link = "handshaking"
    BY <1>1, <2>1 DEF Tab, NoPage
  <2>3. TabOK(page)'
    <3>1. Cardinality({}) = 0 /\ 0 <= HELD_RECORDS
      BY BoundsAssumption, FS_EmptySet
    <3> QED BY <1>3, <2>2, <3>1, EmptySeq DEF TabOK, Rising
  <2>4. Singles(page.buffer, Written)'
    BY <2>2, EmptySeq DEF Singles
  <2>5. loads' \in Nat
    BY <1>1 DEF WatchInv, PageOK
  <2>6. page'.live = (page'.link = "live")
    <3>1. page'.live = FALSE /\ page'.link # "live"
      BY <2>2
    <3> QED BY <3>1
  <2> QED BY <2>3, <2>4, <2>5, <2>6 DEF PageOK
<1> QED BY <1>2, <1>4, <1>5 DEF WatchInv

LEMMA ReceiveKeeps == WatchInv /\ receive => WatchInv'
<1> SUFFICES ASSUME WatchInv, receive PROVE WatchInv'
  OBVIOUS
<1> DEFINE frame == Head(toPage)
<1>1. /\ toPage # << >> /\ toPage' = Tail(toPage)
      /\ UNCHANGED <<log, server, session, lost, loads>>
      /\ \/ /\ page' = [page EXCEPT !.link = "live", !.live = TRUE]
            /\ toServer' = Append(toServer, Query("history", City))
         \/ /\ page' = [page EXCEPT !.buffer = Append(@, frame)]
            /\ toServer' = toServer
  BY DEF receive
<1>2. FramesOK(toPage', folded) /\ frame \in Frames /\ (frame.is = "event" => \E n \in folded : frame.records = {n})
  BY <1>1, FramesTaken DEF WatchInv, WireOK
<1>3. LogOK' /\ ServerOK'
  BY <1>1, ServerStays DEF WatchInv
<1>4. Tab' = Tab /\ Written' = Written /\ Frames' = Frames
  BY <1>1 DEF Tab, Frames, Written
<1> HIDE DEF frame
<1>5. WireOK'
  <2>1. toServer' \in Seq(Queries)
    <3>1. Query("history", City) \in Queries
      BY DEF Query, Queries
    <3>2. toServer \in Seq(Queries)
      BY DEF WatchInv, WireOK
    <3>3. Append(toServer, Query("history", City)) \in Seq(Queries)
      BY <3>1, <3>2, AppendProperties
    <3> QED BY <1>1, <3>2, <3>3
  <2>2. FramesOK(toPage, folded)'
    BY <1>1, <1>2, <1>4 DEF FramesOK, Singles, server
  <2>3. process # "down"
    BY <1>1 DEF WatchInv, WireOK
  <2> QED BY <1>1, <1>4, <2>1, <2>2, <2>3 DEF WatchInv, WireOK, server, Queries
<1>6. PageOK'
  <2>1. page \in Tab /\ page.buffer \in Seq(Frames) /\ Singles(page.buffer, Written)
    BY DEF WatchInv, PageOK, TabOK, Tab
  <2>2. CASE page' = [page EXCEPT !.link = "live", !.live = TRUE]
    <3>1. /\ page' \in Tab /\ page'.shown = page.shown /\ page'.held = page.held /\ page'.buffer = page.buffer
          /\ page'.live = (page'.link = "live")
      BY <2>1, <2>2 DEF Tab
    <3> QED BY <1>1, <1>4, <3>1 DEF WatchInv, PageOK, TabOK, Rising, Singles
  <2>3. CASE page' = [page EXCEPT !.buffer = Append(@, frame)]
    <3> DEFINE buffer == Append(page.buffer, frame)
    <3>1. /\ buffer \in Seq(Frames) /\ Len(buffer) = Len(page.buffer) + 1 /\ Len(page.buffer) \in Nat
          /\ \A i \in 1 .. Len(page.buffer) : buffer[i] = page.buffer[i]
          /\ buffer[Len(page.buffer) + 1] = frame
      BY <1>2, <2>1, AppendProperties, LenProperties
    <3>2. page' = [page EXCEPT !.buffer = buffer]
      BY <2>3
    <3> HIDE DEF buffer
    <3>3. /\ page' \in Tab /\ page'.shown = page.shown /\ page'.held = page.held /\ page'.buffer = buffer
          /\ page'.link = page.link /\ page'.live = page.live
      BY <2>1, <3>1, <3>2 DEF Tab
    <3>4. folded \subseteq Written
      BY DEF WatchInv, ServerOK
    <3>5. Singles(buffer, Written)
      <4>1. SUFFICES ASSUME NEW i \in 1 .. Len(buffer), buffer[i].is = "event"
                     PROVE  \E n \in Written : buffer[i].records = {n}
        BY DEF Singles
      <4>2. CASE i \in 1 .. Len(page.buffer)
        BY <2>1, <3>1, <4>1, <4>2 DEF Singles
      <4>3. CASE i = Len(page.buffer) + 1
        BY <1>2, <3>1, <3>4, <4>1, <4>3
      <4> QED BY <3>1, <4>2, <4>3
    <3> QED BY <1>1, <1>4, <3>3, <3>5 DEF WatchInv, PageOK, TabOK, Rising
  <2> QED BY <1>1, <2>2, <2>3
<1> QED BY <1>3, <1>5, <1>6 DEF WatchInv

\* What the tab sends is all that changes on the wire.
LEMMA AsksOnly ==
  ASSUME WatchInv, UNCHANGED <<log, server, session, lost, toPage>>, toServer' \in Seq(Queries)
  PROVE  LogOK' /\ ServerOK' /\ WireOK'
<1>1. LogOK' /\ ServerOK'
  BY ServerStays DEF WatchInv
<1>2. Written' = Written /\ Frames' = Frames
  BY DEF Frames, Written
<1>3. FramesOK(toPage, folded)'
  <2>1. FramesOK(toPage, folded)
    BY DEF WatchInv, WireOK
  <2>2. toPage' = toPage /\ folded' = folded /\ Frames' = Frames
    BY <1>2 DEF server
  <2> QED BY ONLY <2>1, <2>2 DEF FramesOK, Singles
<1>4. WireOK'
  BY <1>2, <1>3 DEF WatchInv, WireOK, server, Queries
<1> QED BY <1>1, <1>4

LEMMA PaintKeeps ==
  ASSUME WatchInv, paint
  PROVE  /\ WatchInv' /\ UNCHANGED <<log, loads>>
         /\ GoesOn(page.shown, page'.shown)
         /\ page'.reading = page.reading
         /\ GaveWay(page, page') => FullOf(page')
<1>1. PICK q : Paints(page, q) /\ page' = [q EXCEPT !.buffer = << >>]
  BY PaintIs DEF WatchInv, LogOK, PageOK
<1>2. /\ toServer' = IF page.link = "live" THEN toServer \o AsksAgain(page.buffer) ELSE toServer
      /\ UNCHANGED <<log, server, session, lost, toPage, loads>>
  BY DEF paint
<1>3. q \in Tab
  BY <1>1 DEF Paints, TabOK
<1>4. /\ page' \in Tab /\ page'.shown = q.shown /\ page'.held = q.held /\ page'.reading = q.reading
      /\ page'.link = q.link /\ page'.live = q.live /\ page'.buffer = << >>
  BY <1>1, <1>3, EmptySeq DEF Tab
<1>5. Tab' = Tab /\ Written' = Written
  BY <1>2 DEF Tab, Frames, Written
<1>6. TabOK(page)'
  BY <1>1, <1>4, <1>5 DEF Paints, TabOK, Rising
<1>7. PageOK'
  <2>1. Singles(page.buffer, Written)'
    BY <1>4, EmptySeq DEF Singles
  <2>2. page'.live = page.live /\ page'.link = page.link
    BY <1>1, <1>4 DEF Paints
  <2>3. page.live = (page.link = "live") /\ loads \in Nat
    BY DEF WatchInv, PageOK
  <2> QED BY <1>2, <1>6, <2>1, <2>2, <2>3 DEF PageOK
<1>8. toServer' \in Seq(Queries)
  <2> DEFINE about == {i \in Places(page.buffer, "event") : log[RecordOf(page.buffer[i])].kind # "other"}
             again == AsksAgain(page.buffer)
  <2>1. Cardinality(about) \in Nat
    <3>1. Len(page.buffer) \in Nat /\ DOMAIN page.buffer = 1 .. Len(page.buffer)
      BY LenProperties DEF WatchInv, PageOK, TabOK, Tab
    <3>2. about \in SUBSET (1 .. Len(page.buffer))
      BY <3>1 DEF Places
    <3> HIDE DEF about
    <3> QED BY <3>1, <3>2, WrittenIsFinite
  <2>2. again = [i \in 1 .. Cardinality(about) |-> Query("approvals", City)]
    BY DEF AsksAgain
  <2>3. Query("approvals", City) \in Queries
    BY DEF Query, Queries
  <2> HIDE DEF about, again
  <2>4. again \in [1 .. Cardinality(about) -> Queries]
    BY <2>2, <2>3
  <2>5. again \in Seq(Queries)
    BY <2>1, <2>4, SeqDef
  <2>6. toServer \in Seq(Queries)
    BY DEF WatchInv, WireOK
  <2>7. toServer \o again \in Seq(Queries)
    BY <2>5, <2>6, ConcatProperties
  <2>8. toServer' = IF page.link = "live" THEN toServer \o again ELSE toServer
    BY <1>2 DEF again
  <2> QED BY <2>6, <2>7, <2>8
<1>9. LogOK' /\ ServerOK' /\ WireOK'
  BY <1>2, <1>8, AsksOnly
<1>10. /\ GoesOn(page.shown, page'.shown) /\ page'.reading = page.reading
       /\ GaveWay(page, page') => FullOf(page')
  BY <1>1, <1>4 DEF Paints, GaveWay, FullOf
<1> QED BY <1>2, <1>7, <1>9, <1>10 DEF WatchInv

LEMMA WatchKeeps == ASSUME WatchInv, NEW run \in Runs, watch(run) PROVE WatchInv'
<1>1. page' = [page EXCEPT !.reading = run] /\ UNCHANGED <<log, server, wire, loads>>
  BY DEF watch
<1>2. LogOK' /\ ServerOK' /\ WireOK'
  BY <1>1, ServerStays, WireStays DEF WatchInv
<1>3. page \in Tab
  BY DEF WatchInv, PageOK, TabOK
<1>4. /\ page' \in Tab /\ page'.shown = page.shown /\ page'.held = page.held /\ page'.buffer = page.buffer
      /\ page'.link = page.link /\ page'.live = page.live
  BY <1>1, <1>3 DEF Tab
<1>5. Tab' = Tab /\ Written' = Written
  BY <1>1 DEF Tab, Frames, Written
<1>6. PageOK'
  BY <1>1, <1>4, <1>5 DEF WatchInv, PageOK, TabOK, Rising, Singles
<1> QED BY <1>2, <1>6 DEF WatchInv

LEMMA AskRunKeeps == WatchInv /\ ask_run_history => WatchInv'
<1> SUFFICES ASSUME WatchInv, ask_run_history PROVE WatchInv'
  OBVIOUS
<1>1. /\ page.reading # None /\ page' = [page EXCEPT !.asked = page.reading]
      /\ toServer' = Append(toServer, Query("history", page.reading))
      /\ UNCHANGED <<log, server, session, lost, toPage, loads>>
  BY DEF ask_run_history
<1>2. page \in Tab /\ page.reading \in Runs
  BY <1>1 DEF WatchInv, PageOK, TabOK, Tab
<1>3. Query("history", page.reading) \in Queries /\ toServer \in Seq(Queries)
  BY <1>2 DEF WatchInv, WireOK, Query, Queries
<1>4. LogOK' /\ ServerOK' /\ WireOK'
  BY <1>1, <1>3, AppendProperties, AsksOnly
<1>5. /\ page' \in Tab /\ page'.shown = page.shown /\ page'.held = page.held /\ page'.buffer = page.buffer
      /\ page'.link = page.link /\ page'.live = page.live
  BY <1>1, <1>2 DEF Tab
<1>6. Tab' = Tab /\ Written' = Written
  BY <1>1 DEF Tab, Frames, Written
<1>7. PageOK'
  BY <1>1, <1>5, <1>6 DEF WatchInv, PageOK, TabOK, Rising, Singles
<1> QED BY <1>4, <1>7 DEF WatchInv

LEMMA LookKeeps == WatchInv /\ look_at_approvals => WatchInv'
<1> SUFFICES ASSUME WatchInv, look_at_approvals PROVE WatchInv'
  OBVIOUS
<1>1. /\ page' = [page EXCEPT !.looked = TRUE]
      /\ toServer' = Append(toServer, Query("approvals", City))
      /\ UNCHANGED <<log, server, session, lost, toPage, loads>>
  BY DEF look_at_approvals
<1>2. page \in Tab
  BY DEF WatchInv, PageOK, TabOK
<1>3. Query("approvals", City) \in Queries /\ toServer \in Seq(Queries)
  BY DEF WatchInv, WireOK, Query, Queries
<1>4. LogOK' /\ ServerOK' /\ WireOK'
  BY <1>1, <1>3, AppendProperties, AsksOnly
<1>5. /\ page' \in Tab /\ page'.shown = page.shown /\ page'.held = page.held /\ page'.buffer = page.buffer
      /\ page'.link = page.link /\ page'.live = page.live
  BY <1>1, <1>2 DEF Tab
<1>6. Tab' = Tab /\ Written' = Written
  BY <1>1 DEF Tab, Frames, Written
<1>7. PageOK'
  BY <1>1, <1>5, <1>6 DEF WatchInv, PageOK, TabOK, Rising, Singles
<1> QED BY <1>4, <1>7 DEF WatchInv

LEMMA WatchStep == WatchInv /\ [Next]_vars => WatchInv'
<1> SUFFICES ASSUME WatchInv, [Next]_vars PROVE WatchInv'
  OBVIOUS
<1>1. CASE rebuild_views
  BY <1>1, RebuildKeeps
<1>2. CASE open_for_service
  BY <1>2, OpenKeeps
<1>3. CASE observe
  BY <1>3, ObserveKeeps
<1>4. CASE \E run \in Runs \cup {City}, kind \in Kinds : append(run, kind)
  BY <1>4, AppendKeeps
<1>5. CASE views_apply
  BY <1>5, FoldKeeps
<1>6. CASE to_clients_send
  BY <1>6, SendKeeps
<1>7. CASE hear
  BY <1>7, HearKeeps
<1>8. CASE relay
  BY <1>8, RelayKeeps
<1>9. CASE break_connection
  BY <1>9, BreakKeeps
<1>10. CASE stop
  BY <1>10, StopKeeps
<1>11. CASE load
  BY <1>11, LoadKeeps
<1>12. CASE receive
  BY <1>12, ReceiveKeeps
<1>13. CASE paint
  BY <1>13, PaintKeeps
<1>14. CASE \E run \in Runs : watch(run)
  BY <1>14, WatchKeeps
<1>15. CASE ask_run_history
  BY <1>15, AskRunKeeps
<1>16. CASE look_at_approvals
  BY <1>16, LookKeeps
<1>17. CASE UNCHANGED vars
  <2>1. UNCHANGED <<log, server, wire, page, loads>>
    BY <1>17 DEF vars
  <2> QED BY <2>1, ServerStays, WireStays, PageStays DEF WatchInv
<1> QED BY <1>1, <1>2, <1>3, <1>4, <1>5, <1>6, <1>7, <1>8, <1>9, <1>10, <1>11, <1>12, <1>13,
           <1>14, <1>15, <1>16, <1>17 DEF Next

LEMMA WatchHolds == Spec => []WatchInv
BY InitWatched, WatchStep, PTL DEF Spec

-----------------------------------------------------------------------------
(* What a person sees.                                                     *)

\* A value typed by a sequence has its members typed.
LEMMA MembersOf == ASSUME NEW S, NEW s \in Seq(S) PROVE ToSet(s) \subseteq S
BY LenProperties, ElementOfSeq DEF ToSet

LEMMA WatchTypes == WatchInv => TypeOK
<1> SUFFICES ASSUME WatchInv PROVE TypeOK
  OBVIOUS
<1>1. \A s \in Written : log[s].run \in Runs \cup {City} /\ log[s].kind \in Kinds
  <2>1. \A s \in Written : log[s] \in Record
    BY ElementOfSeq DEF WatchInv, LogOK, Written
  <2> QED BY <2>1 DEF Record
<1>2. ToSet(sent) \subseteq Written
  <2>1. ToSet(sent) \subseteq folded
    BY MembersOf DEF WatchInv, ServerOK
  <2> QED BY <2>1 DEF WatchInv, ServerOK
<1>3. session.next \in 0 .. Len(sent) + 1 /\ session.phase \in {None, "hello", "live"}
  <2>1. Len(sent) \in Nat
    BY LenProperties DEF WatchInv, ServerOK
  <2> QED BY <2>1 DEF WatchInv, WireOK
<1>4. ToSet(toPage) \subseteq Frames /\ ToSet(toServer) \subseteq Queries
  BY MembersOf DEF WatchInv, WireOK, FramesOK
<1>5. page \in Tab /\ page.buffer \in Seq(Frames) /\ page.shown \in Seq(Written)
  BY DEF WatchInv, PageOK, TabOK, Tab
<1>6. ToSet(page.buffer) \subseteq Frames /\ ToSet(page.shown) \subseteq Written
  BY <1>5, MembersOf
<1>7. /\ page.link \in {"idle", "handshaking", "live", "backoff"}
      /\ page.approvals \subseteq Runs /\ page.held \subseteq Written
      /\ page.reading \in Runs \cup {None} /\ page.asked \in Runs \cup {None}
  BY <1>5 DEF Tab
<1> QED BY <1>1, <1>2, <1>3, <1>4, <1>6, <1>7
        DEF TypeOK, WatchInv, LogOK, ServerOK, WireOK, PageOK, TabOK

\* What a person is answered is as new as what they were shown
\* (sprawling::views, the observer folds before it sends).
THEOREM ViewsAreAlwaysCurrent == Spec => []ViewsAreCurrent
<1>1. WatchInv => ViewsMissOnlyTheOpening
  BY DEF WatchInv, ServerOK, ViewsMissOnlyTheOpening
<1>2. WatchInv => AnswersAreFresh
  <2>1. ASSUME WatchInv PROVE AnswersAreFresh
    <3>1. DOMAIN toPage = 1 .. Len(toPage)
      BY <2>1, LenProperties DEF WatchInv, WireOK, FramesOK
    <3> QED BY <2>1, <3>1 DEF WatchInv, WireOK, FramesOK, AnswersAreFresh
  <2> QED BY <2>1
<1>3. WatchInv => ViewsAreCurrent
  BY <1>1, <1>2, WatchTypes DEF ViewsAreCurrent
<1> QED BY <1>3, WatchHolds, PTL

\* A page that goes on from what it showed reads on, or does nothing.
LEMMA ReadsOn ==
  ASSUME WatchInv, WatchInv', UNCHANGED log, GoesOn(page.shown, page'.shown)
  PROVE  Reading!Read \/ UNCHANGED <<Len(log), page.shown>>
<1> DEFINE s == page.shown
           t == page'.shown
<1>1. s \in Seq(Written) /\ t \in Seq(Written) /\ Rising(t)
  <2>1. Written' = Written
    BY DEF Written
  <2> QED BY <2>1 DEF WatchInv, PageOK, TabOK, Tab
<1>2. Len(s) \in Nat /\ Len(t) \in Nat /\ DOMAIN t = 1 .. Len(t) /\ Len(s) <= Len(t)
  BY <1>1, LenProperties DEF GoesOn
<1>3. \A i \in 1 .. Len(s) : t[i] = s[i]
  BY DEF GoesOn
<1>4. CASE Len(s) = Len(t)
  <2>1. s = t
    BY <1>1, <1>3, <1>4, SeqEqual
  <2> QED BY <2>1
<1>5. CASE Len(s) < Len(t)
  <2>1. SubSeq(t, 1, Len(s)) = s
    <3> DEFINE u == SubSeq(t, 1, Len(s))
    <3>1. \A i \in 1 .. Len(s) : t[i] \in Written
      BY <1>1, <1>2, ElementOfSeq
    <3>2. /\ u \in Seq(Written)
          /\ Len(u) = IF 1 <= Len(s) THEN Len(s) - 1 + 1 ELSE 0
          /\ \A i \in 1 .. Len(s) - 1 + 1 : u[i] = t[1 + i - 1]
      BY <1>2, <3>1, SubSeqProperties
    <3> HIDE DEF u
    <3>3. Len(u) = Len(s) /\ \A i \in 1 .. Len(s) : u[i] = t[i]
      BY <1>2, <3>2
    <3>4. \A i \in 1 .. Len(u) : u[i] = s[i]
      BY <1>3, <3>3
    <3>5. u = s
      BY <1>1, <3>2, <3>3, <3>4, SeqEqual
    <3> QED BY <3>5 DEF u
  <2>2. Reading!InOrder(t)
    BY <1>1, <1>2 DEF Reading!InOrder, Rising
  <2>3. \A i \in DOMAIN t : t[i] \in 1 .. Len(log)
    BY <1>1, <1>2, ElementOfSeq DEF Written
  <2> QED BY <1>5, <2>1, <2>2, <2>3 DEF Reading!Read
<1> QED BY <1>2, <1>4, <1>5

LEMMA EveryStepReads ==
  ASSUME WatchInv, WatchInv', [Next]_vars
  PROVE  [Reading!Write \/ Reading!Read \/ Reading!Forget]_<<Len(log), page.shown>>
<1>0. page \in Tab /\ Len(log) \in Nat
  BY LenProperties DEF WatchInv, LogOK, PageOK, TabOK
<1>1. ASSUME open_for_service \/ \E run \in Runs \cup {City}, kind \in Kinds : append(run, kind)
      PROVE  Reading!Write \/ UNCHANGED <<Len(log), page.shown>>
  <2>1. page' = page /\ (log' = log \/ \E r : log' = Append(log, r))
    BY <1>1 DEF open_for_service, append
  <2>2. ASSUME NEW r, log' = Append(log, r) PROVE Len(log') = Len(log) + 1
    BY <2>2 DEF WatchInv, LogOK
  <2> QED BY <1>0, <2>1, <2>2 DEF Reading!Write
<1>2. ASSUME break_connection \/ stop \/ receive \/ (\E run \in Runs : watch(run))
             \/ ask_run_history \/ look_at_approvals
      PROVE  UNCHANGED <<Len(log), page.shown>>
  <2>1. CASE break_connection \/ stop
    BY <1>0, <2>1 DEF break_connection, stop, Disconnected, Tab
  <2>2. CASE receive \/ (\E run \in Runs : watch(run)) \/ ask_run_history \/ look_at_approvals
    BY <1>0, <2>2 DEF receive, watch, ask_run_history, look_at_approvals, Tab
  <2> QED BY <1>2, <2>1, <2>2
<1>3. ASSUME rebuild_views \/ observe \/ views_apply \/ to_clients_send \/ hear \/ relay \/ UNCHANGED vars
      PROVE  UNCHANGED <<Len(log), page.shown>>
  BY <1>3 DEF rebuild_views, observe, views_apply, to_clients_send, hear, relay, vars
<1>4. CASE load
  <2>1. page'.shown = << >> /\ log' = log
    BY <1>4 DEF load, NoPage
  <2> QED BY <2>1 DEF Reading!Forget
<1>5. CASE paint
  BY <1>5, PaintKeeps, ReadsOn
<1> QED BY <1>1, <1>2, <1>3, <1>4, <1>5 DEF Next

\* A page is a reading of the ledger: every record it folds was written, none
\* is folded twice and none out of order (web::app, Snapshot::apply and
\* backfill).
THEOREM EveryPageIsAReading == Spec => PageIsAReading
<1>1. Init => Reading!Init
  <2>1. Init => Len(log) \in Nat /\ page.shown = << >>
    <3>1. Init => page.shown = << >>
      BY DEF Init, NoPage
    <3> QED BY <3>1, InitWatched, LenProperties DEF WatchInv, LogOK
  <2> QED BY <2>1 DEF Reading!Init
<1>2. WatchInv /\ WatchInv' /\ [Next]_vars
         => [Reading!Write \/ Reading!Read \/ Reading!Forget]_<<Len(log), page.shown>>
  BY EveryStepReads
<1> QED BY <1>1, <1>2, WatchHolds, PTL DEF Spec, PageIsAReading, Reading!Spec

\* A record of the session being read leaves a full tab only when nothing
\* else is left to leave (web::asking, hold).
THEOREM OpenSessionAlwaysGivesWayLast == Spec => TheOpenSessionGivesWayLast
<1> DEFINE Gives == \A s \in page.held \ page'.held :
                       (loads' = loads /\ log[s].run = page.reading /\ page'.reading = page.reading)
                          => \A t \in page'.held : log[t].run = page.reading
<1>1. ASSUME WatchInv, [Next]_vars PROVE [Gives]_vars
  <2>0. page \in Tab /\ loads \in Nat
    BY <1>1 DEF WatchInv, PageOK, TabOK
  <2>1. CASE paint
    <3>1. SUFFICES ASSUME NEW s \in page.held \ page'.held, log[s].run = page.reading
                   PROVE  \A t \in page'.held : log[t].run = page.reading
      OBVIOUS
    <3>2. page.reading # None
      <4>1. s \in Written
        BY <2>0, <3>1 DEF Tab
      <4>2. log[s] \in Record
        BY <1>1, <4>1, ElementOfSeq DEF WatchInv, LogOK, Written
      <4>3. City # None
        BY DEF City, None
      <4> QED BY <3>1, <4>2, <4>3, NamesAssumption DEF Record
    <3>3. /\ UNCHANGED log /\ page'.reading = page.reading
          /\ GaveWay(page, page') => FullOf(page')
      BY <1>1, <2>1, PaintKeeps
    <3> QED BY <3>1, <3>2, <3>3 DEF GaveWay, FullOf
  <2>2. CASE load
    BY <2>0, <2>2 DEF load
  <2>3. ASSUME break_connection \/ stop \/ receive \/ (\E run \in Runs : watch(run))
               \/ ask_run_history \/ look_at_approvals
        PROVE  page'.held = page.held
    <3>1. CASE break_connection \/ stop
      BY <2>0, <3>1 DEF break_connection, stop, Disconnected, Tab
    <3>2. CASE receive \/ (\E run \in Runs : watch(run)) \/ ask_run_history \/ look_at_approvals
      BY <2>0, <3>2 DEF receive, watch, ask_run_history, look_at_approvals, Tab
    <3> QED BY <2>3, <3>1, <3>2
  <2>4. ASSUME \/ rebuild_views \/ open_for_service \/ observe \/ views_apply \/ to_clients_send \/ hear \/ relay
               \/ UNCHANGED vars \/ \E run \in Runs \cup {City}, kind \in Kinds : append(run, kind)
        PROVE  page' = page
    BY <2>4 DEF rebuild_views, open_for_service, observe, append, views_apply, to_clients_send, hear, relay, vars
  <2> QED BY <1>1, <2>1, <2>2, <2>3, <2>4 DEF Next
<1> QED BY <1>1, WatchHolds, PTL DEF Spec, TheOpenSessionGivesWayLast

-----------------------------------------------------------------------------
(* Finite sets of naturals, and the largest of one.                          *)

\* The first k members of a sequence of naturals have a bound.
LEMMA PrefixBounded ==
  ASSUME NEW seq, NEW n \in Nat, \A k \in 1 .. n : seq[k] \in Nat
  PROVE  \E m \in Nat : \A k \in 1 .. n : seq[k] <= m
<1> DEFINE Bad == {k \in 0 .. n : ~ \E m \in Nat : \A j \in 1 .. k : seq[j] <= m}
<1>0. n \in 0 .. n
  OBVIOUS
<1>1. SUFFICES ASSUME Bad # {} PROVE FALSE
  BY <1>0
<1>2. Bad \in SUBSET Nat
  OBVIOUS
<1>3. PICK k \in Bad : \A j \in Bad : k <= j
  <2> HIDE DEF Bad
  <2> QED BY <1>1, <1>2, SmallestExists
<1>4. k # 0
  <2>1. \A j \in 1 .. 0 : seq[j] <= 0
    OBVIOUS
  <2> QED BY <1>3, <2>1
<1>5. k \in 1 .. n /\ k - 1 \in 0 .. n /\ ~ (k <= k - 1)
  BY <1>3, <1>4
<1>6. k - 1 \notin Bad
  <2> HIDE DEF Bad
  <2> QED BY <1>3, <1>5
<1>7. PICK m \in Nat : \A j \in 1 .. k - 1 : seq[j] <= m
  BY <1>5, <1>6
<1>8. PICK top \in Nat : m <= top /\ seq[k] <= top
  <2>1. seq[k] \in Nat
    BY <1>5
  <2>2. CASE seq[k] <= m
    BY <2>2
  <2>3. CASE m <= seq[k]
    BY <2>1, <2>3
  <2> QED BY <2>1, <2>2, <2>3
<1>9. ASSUME NEW j \in 1 .. k PROVE seq[j] <= top
  <2>1. CASE j = k
    BY <1>8, <2>1
  <2>2. CASE j # k
    <3>1. j \in 1 .. k - 1 /\ j \in 1 .. n
      BY <1>5, <2>2
    <3>2. seq[j] <= m /\ seq[j] \in Nat
      BY <1>7, <3>1
    <3> QED BY <1>8, <3>2
  <2> QED BY <2>1, <2>2
<1> QED BY <1>3, <1>9

\* Max gives the greatest member of a finite set of naturals.
LEMMA MaxIs ==
  ASSUME NEW S \in SUBSET Nat, S # {}, IsFiniteSet(S)
  PROVE  Max(S) \in S /\ \A y \in S : y <= Max(S)
<1>1. PICK seq \in Seq(S) : \A s \in S : \E n \in 1 .. Len(seq) : seq[n] = s
  BY DEF IsFiniteSet
<1>2. Len(seq) \in Nat /\ \A k \in 1 .. Len(seq) : seq[k] \in S /\ seq[k] \in Nat
  <2>1. seq \in [1 .. Len(seq) -> S] /\ Len(seq) \in Nat
    BY <1>1
  <2> QED BY <2>1
<1>3. PICK m \in Nat : \A k \in 1 .. Len(seq) : seq[k] <= m
  BY <1>2, PrefixBounded
<1>4. \A s \in S : s <= m
  BY <1>1, <1>3
<1>5. \E x \in S : \A y \in S : y <= x
  BY <1>4, LargestExists
<1>6. \E x \in S : \A y \in S : x >= y
  BY <1>5
<1>7. Max(S) \in S /\ \A y \in S : Max(S) >= y
  BY <1>6 DEF Max
<1> QED BY <1>7

-----------------------------------------------------------------------------
(* The edits of a plan.                                                      *)

\* A row's status is set, and everything else stands.
LEMMA StatusIsSet ==
  ASSUME NEW plan, IsPlan(plan), NEW id \in Nodes(plan),
         NEW status \in RoadmapStatus, NEW evidence \in BOOLEAN
  PROVE  LET after == set_roadmap_status(plan, id, status, evidence)
         IN  /\ IsPlan(after) /\ Nodes(after) = Nodes(plan)
             /\ after[id].status = status
             /\ \A x \in Nodes(plan) : x # id => after[x] = plan[x]
             /\ \A x : is_leaf(after, x) = is_leaf(plan, x)
<1> DEFINE after == set_roadmap_status(plan, id, status, evidence)
<1>1. plan \in [Nodes(plan) -> Row] /\ plan[id] \in Row
  BY DEF IsPlan, Nodes
<1>2. after = [plan EXCEPT ![id] = [plan[id] EXCEPT !.status = status, !.evidence = evidence]]
  BY <1>1 DEF set_roadmap_status, Nodes
<1>3. [plan[id] EXCEPT !.status = status, !.evidence = evidence] \in Row
      /\ [plan[id] EXCEPT !.status = status, !.evidence = evidence].status = status
  BY <1>1 DEF Row
<1>4. /\ Nodes(after) = Nodes(plan) /\ after \in [Nodes(plan) -> Row]
      /\ after[id].status = status
      /\ \A x \in Nodes(plan) : x # id => after[x] = plan[x]
  <2> HIDE DEF after
  <2> QED BY <1>1, <1>2, <1>3 DEF Nodes
<1> HIDE DEF after
<1>5. IsPlan(after)
  BY <1>4 DEF IsPlan, Nodes
<1>6. \A x : is_leaf(after, x) = is_leaf(plan, x)
  BY <1>4 DEF is_leaf, children
<1> QED BY <1>4, <1>5, <1>6 DEF after

\* A node is divided: its children are new, not started, and everything else
\* stands.
LEMMA ChildrenAreNew ==
  ASSUME NEW plan, IsPlan(plan), NEW id \in Nodes(plan), NEW n \in Nat \ {0}
  PROVE  LET after == insert_children(plan, id, n)
         IN  /\ IsPlan(after) /\ Nodes(plan) \subseteq Nodes(after)
             /\ \A x \in Nodes(plan) : after[x] = plan[x]
             /\ \A x \in Nodes(after) \ Nodes(plan) : after[x].status = "NotStarted"
             /\ ~ is_leaf(after, id)
             /\ \A x : ~ is_leaf(plan, x) => ~ is_leaf(after, x)
<1> DEFINE after == insert_children(plan, id, n)
           new == NewChildren(plan, id, n)
           kids == children(plan, id)
           next == IF is_leaf(plan, id) THEN 0 ELSE Max({ordinal(c) : c \in kids})
           row == [status |-> "NotStarted", evidence |-> FALSE, weight |-> 1, needs |-> <<>>]
<1>1. plan \in [Nodes(plan) -> Row] /\ Nodes(plan) \subseteq NodeIds /\ IsFiniteSet(Nodes(plan)) /\ id \in NodeIds
  BY DEF IsPlan, Nodes
<1>2. id \in Seq(Nat \ {0}) /\ Len(id) \in Nat \ {0}
  BY <1>1, EmptySeq DEF NodeIds
<1>3. next \in Nat /\ \A c \in kids : ordinal(c) <= next
  <2>1. CASE is_leaf(plan, id)
    BY <2>1 DEF is_leaf
  <2>2. CASE ~ is_leaf(plan, id)
    <3> DEFINE T == {ordinal(c) : c \in kids}
    <3>1. kids # {} /\ kids \subseteq Nodes(plan)
      BY <2>2 DEF is_leaf, children
    <3>2. \A c \in kids : ordinal(c) \in Nat
      <4>1. SUFFICES ASSUME NEW c \in kids PROVE ordinal(c) \in Nat
        OBVIOUS
      <4>2. c \in Seq(Nat \ {0}) /\ c # <<>>
        BY <1>1, <3>1 DEF NodeIds
      <4>3. Len(c) \in 1 .. Len(c)
        BY <4>2
      <4> QED BY <4>2, <4>3 DEF ordinal, Last
    <3>3. T \in SUBSET Nat /\ T # {}
      BY <3>1, <3>2
    <3>4. IsFiniteSet(kids)
      BY <1>1, <3>1, FS_Subset
    <3>5. PICK seq \in Seq(kids) : \A s \in kids : \E k \in 1 .. Len(seq) : seq[k] = s
      BY <3>4 DEF IsFiniteSet
    <3>6. IsFiniteSet(T)
      <4> DEFINE ords == [k \in 1 .. Len(seq) |-> ordinal(seq[k])]
      <4>1. Len(seq) \in Nat /\ \A k \in 1 .. Len(seq) : seq[k] \in kids
        BY <3>5
      <4>2. ords \in Seq(T) /\ Len(ords) = Len(seq)
        <5>1. \A k \in 1 .. Len(seq) : ordinal(seq[k]) \in T
          BY <4>1
        <5> HIDE DEF T, kids
        <5> QED BY <4>1, <5>1
      <4>3. \A t \in T : \E k \in 1 .. Len(ords) : ords[k] = t
        <5>1. SUFFICES ASSUME NEW c \in kids PROVE \E k \in 1 .. Len(ords) : ords[k] = ordinal(c)
          OBVIOUS
        <5>2. PICK k \in 1 .. Len(seq) : seq[k] = c
          BY <3>5
        <5> QED BY <4>2, <5>2
      <4> HIDE DEF T, ords
      <4> QED BY <4>2, <4>3 DEF IsFiniteSet
    <3>7. Max(T) \in T /\ \A y \in T : y <= Max(T)
      <4> HIDE DEF T
      <4> QED BY <3>3, <3>6, MaxIs
    <3> QED BY <2>2, <3>3, <3>7
  <2> QED BY <2>1, <2>2
<1>4. new = {Append(id, next + k) : k \in 1 .. n}
  BY DEF NewChildren
<1> HIDE DEF next
<1>5. ASSUME NEW k \in 1 .. n
      PROVE  LET c == Append(id, next + k)
             IN  /\ c \in NodeIds /\ ~ IsTop(c) /\ parent(c) = id /\ ordinal(c) = next + k
                 /\ c \notin Nodes(plan)
  <2> DEFINE c == Append(id, next + k)
  <2>0. next + k \in Nat \ {0}
    BY <1>3
  <2>1. c \in Seq(Nat \ {0}) /\ Len(c) = Len(id) + 1 /\ c[Len(id) + 1] = next + k
        /\ \A i \in 1 .. Len(id) : c[i] = id[i]
    BY <1>2, <2>0
  <2> HIDE DEF c
  <2>2. c # <<>> /\ Len(c) # 1 /\ Len(c) - 1 = Len(id)
    BY <1>2, <2>1
  <2>3. SubSeq(c, 1, Len(id)) = id
    BY <1>2, <2>1
  <2>4. c \in NodeIds /\ ~ IsTop(c) /\ parent(c) = id /\ ordinal(c) = next + k
    BY <2>1, <2>2, <2>3 DEF NodeIds, IsTop, parent, Front, ordinal, Last
  <2>5. c \notin Nodes(plan)
    <3>1. SUFFICES ASSUME c \in Nodes(plan) PROVE FALSE
      OBVIOUS
    <3>2. c \in kids
      BY <2>4, <3>1 DEF children
    <3>3. next + k <= next
      BY <1>3, <2>4, <3>2
    <3> QED BY <1>3, <3>3
  <2> QED BY <2>4, <2>5 DEF c
<1>6. new \subseteq NodeIds /\ new \cap Nodes(plan) = {} /\ \A c \in new : ~ IsTop(c) /\ parent(c) = id
  BY <1>4, <1>5
<1>7. new # {}
  <2>1. 1 \in 1 .. n
    OBVIOUS
  <2> QED BY <1>4, <2>1
<1>8. IsFiniteSet(new)
  <2> DEFINE seq == [k \in 1 .. n |-> Append(id, next + k)]
  <2>1. \A k \in 1 .. n : Append(id, next + k) \in new
    BY <1>4
  <2>2. seq \in Seq(new) /\ Len(seq) = n
    <3> HIDE DEF new
    <3> QED BY <2>1
  <2>3. \A c \in new : \E k \in 1 .. Len(seq) : seq[k] = c
    BY <1>4, <2>2
  <2> HIDE DEF new, seq
  <2> QED BY <2>2, <2>3 DEF IsFiniteSet
<1>9. row \in Row /\ row.status = "NotStarted"
  BY DEF Row, RoadmapStatus
<1>10. after = [c \in Nodes(plan) \cup new |-> IF c \in new THEN row ELSE plan[c]]
  BY DEF insert_children
<1> HIDE DEF new, row, after
<1>11. /\ Nodes(after) = Nodes(plan) \cup new
       /\ \A x \in Nodes(plan) : after[x] = plan[x]
       /\ \A x \in new : after[x] = row
  BY <1>6, <1>10 DEF Nodes
<1>12. after \in [Nodes(after) -> Row]
  BY <1>1, <1>9, <1>10, <1>11 DEF Nodes
<1>13. IsFiniteSet(Nodes(after))
  BY <1>1, <1>8, <1>11, FS_Union
<1>14. IsPlan(after)
  BY <1>1, <1>6, <1>11, <1>12, <1>13 DEF IsPlan, Nodes
<1>15. ~ is_leaf(after, id)
  BY <1>6, <1>7, <1>11 DEF is_leaf, children
<1>16. \A x : ~ is_leaf(plan, x) => ~ is_leaf(after, x)
  BY <1>11 DEF is_leaf, children
<1> QED BY <1>9, <1>11, <1>14, <1>15, <1>16 DEF after

-----------------------------------------------------------------------------
(* What a run's calls leave of a node.                                       *)

After(op) ==
  IF op = "Claimed" THEN "InProgress" ELSE IF op = "Finished" THEN "Done"
  ELSE IF op = "Blocked" THEN "Blocked" ELSE "NotStarted"

\* The i-th call of e set the status of the node.
Marks(e, i, id) == e[i].op # "Split" /\ e[i].id = id

\* None of the first n calls did.
Untouched(e, id, n) == \A j \in 1 .. n : ~ Marks(e, j, id)

\* The i-th call is, of the first n, the last that set its node's status.
LastOn(e, i, n) ==
  /\ i \in 1 .. n /\ e[i].op # "Split"
  /\ \A j \in i + 1 .. n : ~ Marks(e, j, e[i].id)

\* The i-th call takes a node no call before it named.
Opens(e, i, id) ==
  /\ e[i].id = id /\ e[i].op = "Claimed"
  /\ \A j \in 1 .. i - 1 : e[j].id # id

\* A node some call touched, one touched last.
LEMMA LastTouchExists ==
  ASSUME NEW e, NEW n \in Nat, NEW id, ~ Untouched(e, id, n)
  PROVE  \E i \in 1 .. n : LastOn(e, i, n) /\ e[i].id = id
<1> DEFINE T == {i \in 1 .. n : Marks(e, i, id)}
<1>1. T \in SUBSET Nat /\ T # {} /\ \A i \in T : i <= n
  BY DEF Untouched
<1>2. PICK i \in T : \A j \in T : j <= i
  <2> HIDE DEF T
  <2> QED BY <1>1, LargestExists
<1>3. i \in 1 .. n /\ e[i].op # "Split" /\ e[i].id = id
  BY DEF Marks
<1>4. ASSUME NEW j \in i + 1 .. n PROVE ~ Marks(e, j, id)
  <2>1. j \in 1 .. n /\ ~ (j <= i)
    BY <1>3
  <2>2. j \notin T
    <3> HIDE DEF T
    <3> QED BY <1>2, <2>1
  <2> QED BY <2>1, <2>2
<1> QED BY <1>3, <1>4 DEF LastOn

Ops == {"Claimed", "Finished", "Blocked", "Released"}

\* What the ledger says of a node is what its last line left.
LEMMA LastLineSays ==
  ASSUME NEW recs, NEW id
  PROVE  /\ id \notin DOMAIN recs => StatusOf(recs, id) = "NotStarted"
         /\ id \in DOMAIN recs /\ recs[id].op \in Ops => StatusOf(recs, id) = After(recs[id].op)
<1>1. CASE id \notin DOMAIN recs
  BY <1>1 DEF StatusOf
<1>2. CASE id \in DOMAIN recs
  <2>1. CASE recs[id].op = "Claimed"
    BY <1>2, <2>1 DEF StatusOf, After
  <2>2. CASE recs[id].op = "Finished"
    BY <1>2, <2>2 DEF StatusOf, After
  <2>3. CASE recs[id].op = "Blocked"
    BY <1>2, <2>3 DEF StatusOf, After
  <2>4. CASE recs[id].op = "Released"
    BY <1>2, <2>4 DEF StatusOf, After
  <2> QED BY <1>2, <2>1, <2>2, <2>3, <2>4 DEF Ops
<1> QED BY <1>1, <1>2

\* One more call: what it changes of "last" and "untouched".
LEMMA OneMoreCall ==
  ASSUME NEW e \in Seq(Effect), NEW c \in Effect
  PROVE  LET n == Len(e)
             f == Append(e, c)
         IN  /\ n \in Nat /\ f \in Seq(Effect) /\ Len(f) = n + 1 /\ f[n + 1] = c
             /\ \A i \in 1 .. n : f[i] = e[i]
             /\ \A i \in 1 .. n : LastOn(f, i, n + 1) => LastOn(e, i, n) /\ ~ Marks(f, n + 1, e[i].id)
             /\ \A x : Untouched(f, x, n + 1) <=> Untouched(e, x, n) /\ ~ Marks(f, n + 1, x)
             /\ \A i \in 1 .. n : \A x : Opens(e, i, x) => Opens(f, i, x)
<1> DEFINE n == Len(e)
           f == Append(e, c)
<1>1. n \in Nat /\ f \in Seq(Effect) /\ Len(f) = n + 1 /\ f[n + 1] = c
      /\ \A i \in 1 .. n : f[i] = e[i]
  OBVIOUS
<1> HIDE DEF f, n
<1>2. ASSUME NEW i \in 1 .. n, LastOn(f, i, n + 1)
      PROVE  LastOn(e, i, n) /\ ~ Marks(f, n + 1, e[i].id)
  <2>1. f[i] = e[i] /\ n + 1 \in i + 1 .. n + 1 /\ \A j \in i + 1 .. n : j \in i + 1 .. n + 1 /\ f[j] = e[j]
    BY <1>1
  <2> QED BY <1>1, <1>2, <2>1 DEF LastOn, Marks
<1>3. ASSUME NEW x PROVE Untouched(f, x, n + 1) <=> Untouched(e, x, n) /\ ~ Marks(f, n + 1, x)
  <2>1. 1 .. n + 1 = (1 .. n) \cup {n + 1}
    BY <1>1
  <2> QED BY <1>1, <2>1 DEF Untouched, Marks
<1>4. ASSUME NEW i \in 1 .. n, NEW x, Opens(e, i, x) PROVE Opens(f, i, x)
  <2>1. \A j \in 1 .. i - 1 : j \in 1 .. n /\ f[j] = e[j]
    BY <1>1
  <2> QED BY <1>1, <1>4, <2>1 DEF Opens
<1> QED BY <1>1, <1>2, <1>3, <1>4 DEF f, n

-----------------------------------------------------------------------------
(* The invariant.                                                            *)

Calls == Len(desk.effects)
Recorded == Len(desk.effects) - Len(lines)

PlanTypes ==
  /\ IsPlan(file) /\ IsPlan(desk.text)
  /\ desk.effects \in Seq(Effect) /\ desk.changed \in BOOLEAN
  /\ desk.held \in Nodes(desk.text) \cup {Nothing}
  /\ pc \in {"idle", "driving", "recording", "writing", "telling"}
  /\ lines \in Seq(Effect)
  /\ room \in Rooms \cup {Nowhere}
  /\ \A id \in DOMAIN records : records[id] \in [op : Ops, room : Rooms \cup {Nowhere}]
  /\ pursuit \in {"none", "Running", "Paused"}
  /\ pursuing \in {"no", "look", "sent"}
  /\ faults \in Nat

\* The desk's text is the file with the run's calls on it, of which each that
\* changes a status comes after the call that took the node.
DeskFollows ==
  /\ Nodes(file) \subseteq Nodes(desk.text)
  /\ desk.changed => desk.effects # <<>>
  /\ \A i \in 1 .. Calls : desk.effects[i].id \in Nodes(desk.text)
  /\ \A i \in 1 .. Calls : LastOn(desk.effects, i, Calls) =>
       desk.text[desk.effects[i].id].status = After(desk.effects[i].op)
  /\ \A id \in Nodes(desk.text) : Untouched(desk.effects, id, Calls) =>
       /\ id \in Nodes(file) \ hand => desk.text[id].status = file[id].status
       /\ id \notin Nodes(file) => desk.text[id].status = "NotStarted"
  /\ \A i \in 1 .. Calls : desk.effects[i].op # "Split" =>
       \E k \in 1 .. i : Opens(desk.effects, k, desk.effects[i].id)
  /\ \A i \in 1 .. Calls : desk.effects[i].op = "Split" => ~ is_leaf(desk.text, desk.effects[i].id)
  /\ desk.held # Nothing => \E i \in 1 .. Calls : Opens(desk.effects, i, desk.held)

\* A landing has recorded some first part of the calls, whose nodes had not
\* been started in the file, or are a person's by now.
Landing ==
  /\ Calls # 0 /\ Len(lines) <= Calls
  /\ pc = "recording" => lines # <<>>
  /\ pc = "writing" => lines = <<>>
  /\ \A j \in 1 .. Len(lines) : lines[j] = desk.effects[Recorded + j]
  /\ \A i \in 1 .. Calls : desk.effects[i].id \in Nodes(file)
  /\ \A i \in 1 .. Calls : desk.effects[i].op # "Split" =>
       desk.effects[i].id \in hand \/ file[desk.effects[i].id].status = "NotStarted"
  /\ \A i \in 1 .. Recorded : LastOn(desk.effects, i, Recorded) =>
       /\ desk.effects[i].id \in DOMAIN records
       /\ records[desk.effects[i].id].op = desk.effects[i].op
  /\ faults = 0 => \A id \in Nodes(file) \ hand :
       Untouched(desk.effects, id, Recorded) => file[id].status = StatusOf(records, id)

\* What the file says the ledger has said, and while nothing failed the other
\* way round, but for what is being landed.
LedgerLeads ==
  /\ NoLineNoChange
  /\ faults = 0 => DOMAIN records \subseteq Nodes(file)
  /\ faults = 0 /\ pc \notin {"recording", "writing"} =>
       \A id \in Nodes(file) \ hand : file[id].status = StatusOf(records, id)

PlanInv ==
  /\ PlanTypes
  /\ pc \in {"driving", "recording", "writing"} => DeskFollows
  /\ pc \in {"recording", "writing"} => Landing
  /\ LedgerLeads

\* No node is nothing.
LEMMA NodesAreSome ==
  ASSUME NEW plan, IsPlan(plan), NEW id \in Nodes(plan)
  PROVE  id # Nothing /\ id \in Seq(Nat \ {0})
BY DEF IsPlan, Nodes, NodeIds, Nothing

LEMMA NoPlanIsPlan == IsPlan(NoPlan) /\ Nodes(NoPlan) = {}
<1>1. DOMAIN NoPlan = {}
  BY DEF NoPlan
<1>2. NoPlan \in [{} -> Row]
  BY DEF NoPlan
<1> QED BY <1>1, <1>2, FS_EmptySet DEF IsPlan, Nodes

\* A call that sets a status: the run takes a node, or puts down what it took.
LEMMA StatusNoted ==
  ASSUME PlanInv, pc = "driving",
         NEW id \in Nodes(desk.text), NEW op \in Ops, NEW evidence \in BOOLEAN, NEW held,
         \/ op = "Claimed" /\ is_leaf(desk.text, id) /\ held = id
         \/ desk.held = id /\ held = Nothing,
         Noted(set_roadmap_status(desk.text, id, After(op), evidence), held, op, id)
  PROVE  PlanInv'
<1> DEFINE e == desk.effects
           n == Len(e)
           c == [op |-> op, id |-> id]
           f == Append(e, c)
           text == set_roadmap_status(desk.text, id, After(op), evidence)
<1>0. /\ desk' = [text |-> text, changed |-> TRUE, held |-> held, effects |-> f]
      /\ UNCHANGED <<file, pc, room, lines, records, holders, told, pursuit, pursuing, hand, faults>>
  BY DEF Noted, city, outer
<1>1. /\ desk'.text = text /\ desk'.changed = TRUE /\ desk'.held = held /\ desk'.effects = f
      /\ pc' = "driving"
  BY <1>0
<1>2. PlanTypes /\ DeskFollows /\ LedgerLeads
  BY DEF PlanInv
<1>3. e \in Seq(Effect) /\ IsPlan(desk.text) /\ id \in Seq(Nat \ {0}) /\ id # Nothing
  BY <1>2, NodesAreSome DEF PlanTypes
<1>4. c \in Effect /\ op # "Split" /\ c.op = op /\ c.id = id
  BY <1>3 DEF Effect, Ops
<1>5. /\ n \in Nat /\ f \in Seq(Effect) /\ Len(f) = n + 1 /\ f[n + 1] = c
      /\ \A i \in 1 .. n : f[i] = e[i]
      /\ \A i \in 1 .. n : LastOn(f, i, n + 1) => LastOn(e, i, n) /\ ~ Marks(f, n + 1, e[i].id)
      /\ \A x : Untouched(f, x, n + 1) <=> Untouched(e, x, n) /\ ~ Marks(f, n + 1, x)
      /\ \A i \in 1 .. n : \A x : Opens(e, i, x) => Opens(f, i, x)
  BY <1>3, <1>4, OneMoreCall
<1>6. /\ IsPlan(text) /\ Nodes(text) = Nodes(desk.text)
      /\ text[id].status = After(op)
      /\ \A x \in Nodes(desk.text) : x # id => text[x] = desk.text[x]
      /\ \A x : is_leaf(text, x) = is_leaf(desk.text, x)
  <2>1. After(op) \in RoadmapStatus
    BY DEF After, RoadmapStatus
  <2> QED BY <1>3, <2>1, StatusIsSet
<1> HIDE DEF text, f, n, c
<1>7. PlanTypes'
  <2>1. IsPlan(file)' /\ IsPlan(desk.text)'
    BY <1>0, <1>1, <1>2, <1>6 DEF PlanTypes
  <2>2. (desk.held \in Nodes(desk.text) \cup {Nothing})'
    BY <1>1, <1>6
  <2>3. (desk.effects \in Seq(Effect) /\ desk.changed \in BOOLEAN)'
    BY <1>1, <1>5
  <2> QED BY <1>0, <1>1, <1>2, <2>1, <2>2, <2>3 DEF PlanTypes
<1>8. DeskFollows'
  <2>0. Calls' = n + 1 /\ Calls = n /\ \A i \in 1 .. n + 1 : i \in 1 .. n \/ i = n + 1
    BY <1>1, <1>5 DEF Calls, n
  <2>d. /\ Nodes(file) \subseteq Nodes(desk.text)
        /\ \A i \in 1 .. n : e[i].id \in Nodes(desk.text)
        /\ \A i \in 1 .. n : LastOn(e, i, n) => desk.text[e[i].id].status = After(e[i].op)
        /\ \A x \in Nodes(desk.text) : Untouched(e, x, n) =>
             /\ x \in Nodes(file) \ hand => desk.text[x].status = file[x].status
             /\ x \notin Nodes(file) => desk.text[x].status = "NotStarted"
        /\ \A i \in 1 .. n : e[i].op # "Split" => \E k \in 1 .. i : Opens(e, k, e[i].id)
        /\ \A i \in 1 .. n : e[i].op = "Split" => ~ is_leaf(desk.text, e[i].id)
        /\ desk.held # Nothing => \E i \in 1 .. n : Opens(e, i, desk.held)
    BY <1>2, <2>0 DEF DeskFollows
  <2>1. Marks(f, n + 1, id) /\ \A x : Marks(f, n + 1, x) => x = id
    BY <1>4, <1>5 DEF Marks
  <2>2. ASSUME NEW i \in 1 .. n + 1 PROVE f[i].id \in Nodes(text)
    BY <1>4, <1>5, <1>6, <2>0, <2>d
  <2>3. ASSUME NEW i \in 1 .. n + 1, LastOn(f, i, n + 1) PROVE text[f[i].id].status = After(f[i].op)
    <3>1. CASE i = n + 1
      BY <1>4, <1>5, <1>6, <3>1
    <3>2. CASE i \in 1 .. n
      <4>1. LastOn(e, i, n) /\ e[i].id # id /\ f[i] = e[i] /\ e[i].id \in Nodes(desk.text)
        BY <1>5, <2>1, <2>3, <2>d, <3>2
      <4> QED BY <1>6, <2>d, <3>2, <4>1
    <3> QED BY <2>0, <3>1, <3>2
  <2>4. ASSUME NEW x \in Nodes(text), Untouched(f, x, n + 1)
        PROVE  /\ x \in Nodes(file) \ hand => text[x].status = file[x].status
               /\ x \notin Nodes(file) => text[x].status = "NotStarted"
    <3>1. Untouched(e, x, n) /\ x # id /\ text[x] = desk.text[x] /\ x \in Nodes(desk.text)
      BY <1>5, <1>6, <2>1, <2>4
    <3> QED BY <2>d, <3>1
  <2>5. \E k \in 1 .. n + 1 : Opens(f, k, id)
    <3>1. CASE \E i \in 1 .. n : e[i].op # "Split" /\ e[i].id = id
      <4>1. PICK i \in 1 .. n : e[i].op # "Split" /\ e[i].id = id
        BY <3>1
      <4>2. PICK k \in 1 .. i : Opens(e, k, id)
        BY <2>d, <4>1
      <4>3. k \in 1 .. n /\ k \in 1 .. n + 1
        BY <1>5, <4>1, <4>2
      <4> QED BY <1>5, <4>2, <4>3
    <3>2. CASE op = "Claimed" /\ is_leaf(desk.text, id) /\ \A i \in 1 .. n : ~ (e[i].op # "Split" /\ e[i].id = id)
      <4>1. \A i \in 1 .. n : e[i].id # id
        BY <2>d, <3>2
      <4>2. n + 1 \in 1 .. n + 1 /\ (n + 1) - 1 = n
        BY <1>5
      <4>3. \A j \in 1 .. (n + 1) - 1 : f[j].id # id
        BY <1>5, <4>1, <4>2
      <4>4. Opens(f, n + 1, id)
        BY <1>4, <1>5, <3>2, <4>3 DEF Opens
      <4> QED BY <4>2, <4>4
    <3>3. CASE desk.held = id
      <4>1. PICK i \in 1 .. n : Opens(e, i, id)
        BY <1>3, <2>d, <3>3
      <4>2. i \in 1 .. n + 1
        BY <1>5
      <4> QED BY <1>5, <4>1, <4>2
    <3> QED BY <3>1, <3>2, <3>3
  <2>6. ASSUME NEW i \in 1 .. n + 1, f[i].op # "Split" PROVE \E k \in 1 .. i : Opens(f, k, f[i].id)
    <3>1. CASE i = n + 1
      BY <1>4, <1>5, <2>5, <3>1
    <3>2. CASE i \in 1 .. n
      <4>1. PICK k \in 1 .. i : Opens(e, k, e[i].id)
        BY <1>5, <2>6, <2>d, <3>2
      <4>2. k \in 1 .. n
        BY <1>5, <3>2, <4>1
      <4> QED BY <1>5, <3>2, <4>1, <4>2
    <3> QED BY <2>0, <3>1, <3>2
  <2>7. ASSUME NEW i \in 1 .. n + 1, f[i].op = "Split" PROVE ~ is_leaf(text, f[i].id)
    BY <1>4, <1>5, <1>6, <2>0, <2>7, <2>d
  <2>8. held # Nothing => \E i \in 1 .. n + 1 : Opens(f, i, held)
    BY <2>5
  <2>9. f # <<>>
    BY <1>5
  <2> QED BY <1>0, <1>1, <1>5, <1>6, <2>0, <2>2, <2>3, <2>4, <2>6, <2>7, <2>8, <2>9, <2>d DEF DeskFollows
<1>9. LedgerLeads'
  BY <1>0, <1>2 DEF LedgerLeads, NoLineNoChange
<1> QED BY <1>1, <1>7, <1>8, <1>9 DEF PlanInv

\* A call that divides a node.
LEMMA SplitKeeps ==
  ASSUME PlanInv, pc = "driving", NEW id \in Nodes(desk.text), NEW k \in SplitInto, Split(id, k)
  PROVE  PlanInv'
<1> DEFINE e == desk.effects
           n == Len(e)
           c == [op |-> "Split", id |-> id]
           f == Append(e, c)
           text == insert_children(desk.text, id, k)
           held == IF desk.held = id THEN Nothing ELSE desk.held
<1>0. /\ desk' = [text |-> text, changed |-> TRUE, held |-> held, effects |-> f]
      /\ UNCHANGED <<file, pc, room, lines, records, holders, told, pursuit, pursuing, hand, faults>>
  BY DEF Split, Noted, city, outer
<1>1. /\ desk'.text = text /\ desk'.changed = TRUE /\ desk'.held = held /\ desk'.effects = f
      /\ pc' = "driving"
  BY <1>0
<1>2. PlanTypes /\ DeskFollows /\ LedgerLeads
  BY DEF PlanInv
<1>3. e \in Seq(Effect) /\ IsPlan(desk.text) /\ id \in Seq(Nat \ {0}) /\ k \in Nat \ {0}
  BY <1>2, NodesAreSome, ClaimsAssumption DEF PlanTypes
<1>4. c \in Effect /\ c.op = "Split" /\ c.id = id
  BY <1>3 DEF Effect
<1>5. /\ n \in Nat /\ f \in Seq(Effect) /\ Len(f) = n + 1 /\ f[n + 1] = c
      /\ \A i \in 1 .. n : f[i] = e[i]
      /\ \A i \in 1 .. n : LastOn(f, i, n + 1) => LastOn(e, i, n) /\ ~ Marks(f, n + 1, e[i].id)
      /\ \A x : Untouched(f, x, n + 1) <=> Untouched(e, x, n) /\ ~ Marks(f, n + 1, x)
      /\ \A i \in 1 .. n : \A x : Opens(e, i, x) => Opens(f, i, x)
  BY <1>3, <1>4, OneMoreCall
<1>6. /\ IsPlan(text) /\ Nodes(desk.text) \subseteq Nodes(text)
      /\ \A x \in Nodes(desk.text) : text[x] = desk.text[x]
      /\ \A x \in Nodes(text) \ Nodes(desk.text) : text[x].status = "NotStarted"
      /\ ~ is_leaf(text, id)
      /\ \A x : ~ is_leaf(desk.text, x) => ~ is_leaf(text, x)
  BY <1>3, ChildrenAreNew
<1>h. held \in Nodes(text) \cup {Nothing}
  BY <1>2, <1>6 DEF PlanTypes
<1>p. held # Nothing => held = desk.held
  OBVIOUS
<1> HIDE DEF text, f, n, c, held
<1>7. PlanTypes'
  <2>1. IsPlan(file)' /\ IsPlan(desk.text)'
    BY <1>0, <1>1, <1>2, <1>6 DEF PlanTypes
  <2>2. (desk.held \in Nodes(desk.text) \cup {Nothing})'
    BY <1>1, <1>h
  <2>3. (desk.effects \in Seq(Effect) /\ desk.changed \in BOOLEAN)'
    BY <1>1, <1>5
  <2> QED BY <1>0, <1>1, <1>2, <2>1, <2>2, <2>3 DEF PlanTypes
<1>8. DeskFollows'
  <2>0. Calls' = n + 1 /\ Calls = n /\ \A i \in 1 .. n + 1 : i \in 1 .. n \/ i = n + 1
    BY <1>1, <1>5 DEF Calls, n
  <2>d. /\ Nodes(file) \subseteq Nodes(desk.text)
        /\ \A i \in 1 .. n : e[i].id \in Nodes(desk.text)
        /\ \A i \in 1 .. n : LastOn(e, i, n) => desk.text[e[i].id].status = After(e[i].op)
        /\ \A x \in Nodes(desk.text) : Untouched(e, x, n) =>
             /\ x \in Nodes(file) \ hand => desk.text[x].status = file[x].status
             /\ x \notin Nodes(file) => desk.text[x].status = "NotStarted"
        /\ \A i \in 1 .. n : e[i].op # "Split" => \E j \in 1 .. i : Opens(e, j, e[i].id)
        /\ \A i \in 1 .. n : e[i].op = "Split" => ~ is_leaf(desk.text, e[i].id)
        /\ desk.held # Nothing => \E i \in 1 .. n : Opens(e, i, desk.held)
    BY <1>2, <2>0 DEF DeskFollows
  <2>1. ASSUME NEW i \in 1 .. n + 1 PROVE f[i].id \in Nodes(text)
    BY <1>4, <1>5, <1>6, <2>0, <2>d
  <2>2. ASSUME NEW i \in 1 .. n + 1, f[i].op # "Split" PROVE i \in 1 .. n /\ f[i] = e[i]
    BY <1>4, <1>5, <2>0, <2>2
  <2>3. ASSUME NEW i \in 1 .. n + 1, LastOn(f, i, n + 1) PROVE text[f[i].id].status = After(f[i].op)
    <3>1. f[i].op # "Split"
      BY <2>3 DEF LastOn
    <3>2. i \in 1 .. n /\ f[i] = e[i] /\ LastOn(e, i, n) /\ e[i].id \in Nodes(desk.text)
      BY <1>5, <2>2, <2>3, <2>d, <3>1
    <3> QED BY <1>6, <2>d, <3>2
  <2>4. ASSUME NEW x \in Nodes(text), Untouched(f, x, n + 1)
        PROVE  /\ x \in Nodes(file) \ hand => text[x].status = file[x].status
               /\ x \notin Nodes(file) => text[x].status = "NotStarted"
    <3>1. Untouched(e, x, n)
      BY <1>5, <2>4
    <3>2. CASE x \in Nodes(desk.text)
      BY <1>6, <2>d, <3>1, <3>2
    <3>3. CASE x \notin Nodes(desk.text)
      BY <1>6, <2>d, <3>3
    <3> QED BY <3>2, <3>3
  <2>5. ASSUME NEW i \in 1 .. n + 1, f[i].op # "Split" PROVE \E j \in 1 .. i : Opens(f, j, f[i].id)
    <3>1. i \in 1 .. n /\ f[i] = e[i]
      BY <2>2, <2>5
    <3>2. PICK j \in 1 .. i : Opens(e, j, e[i].id)
      BY <2>5, <2>d, <3>1
    <3>3. j \in 1 .. n
      BY <1>5, <3>1, <3>2
    <3> QED BY <1>5, <3>1, <3>2, <3>3
  <2>6. ASSUME NEW i \in 1 .. n + 1, f[i].op = "Split" PROVE ~ is_leaf(text, f[i].id)
    BY <1>4, <1>5, <1>6, <2>0, <2>6, <2>d
  <2>7. held # Nothing => \E i \in 1 .. n + 1 : Opens(f, i, held)
    <3>1. SUFFICES ASSUME held # Nothing PROVE \E i \in 1 .. n + 1 : Opens(f, i, held)
      OBVIOUS
    <3>2. PICK i \in 1 .. n : Opens(e, i, held)
      BY <1>p, <2>d, <3>1
    <3>3. i \in 1 .. n + 1
      BY <1>5
    <3> QED BY <1>5, <3>2, <3>3
  <2>8. f # <<>>
    BY <1>5
  <2> QED BY <1>0, <1>1, <1>5, <1>6, <2>0, <2>1, <2>3, <2>4, <2>5, <2>6, <2>7, <2>8, <2>d DEF DeskFollows
<1>9. LedgerLeads'
  BY <1>0, <1>2 DEF LedgerLeads, NoLineNoChange
<1> QED BY <1>1, <1>7, <1>8, <1>9 DEF PlanInv

\* Every call the desk takes.
LEMMA CallKeeps ==
  ASSUME PlanInv, Call
  PROVE  PlanInv'
<1>1. pc = "driving"
  BY DEF Call, MayCall
<1>2. PICK id \in Nodes(desk.text) :
        Claim(id) \/ Finish(id) \/ Block(id) \/ Release(id) \/ \E n \in SplitInto : Split(id, n)
  BY DEF Call
<1>3. id # Nothing
  BY NodesAreSome DEF PlanInv, PlanTypes
<1>4. CASE Claim(id)
  <2>1. is_leaf(desk.text, id) /\ Noted(set_roadmap_status(desk.text, id, After("Claimed"), FALSE), id, "Claimed", id)
    BY <1>4 DEF Claim, claim_allows, After
  <2> QED BY <1>1, <2>1, StatusNoted DEF Ops
<1>5. CASE Finish(id)
  <2>1. desk.held = id /\ Noted(set_roadmap_status(desk.text, id, After("Finished"), TRUE), Nothing, "Finished", id)
    BY <1>5 DEF Finish, After
  <2> QED BY <1>1, <2>1, StatusNoted DEF Ops
<1>6. CASE Block(id)
  <2>1. desk.held = id /\ Noted(set_roadmap_status(desk.text, id, After("Blocked"), FALSE), Nothing, "Blocked", id)
    BY <1>6 DEF Block, After
  <2> QED BY <1>1, <2>1, StatusNoted DEF Ops
<1>7. CASE Release(id)
  <2>1. desk.held = id /\ Noted(set_roadmap_status(desk.text, id, After("Released"), FALSE), Nothing, "Released", id)
    BY <1>7 DEF Release, After
  <2> QED BY <1>1, <2>1, StatusNoted DEF Ops
<1>8. CASE \E n \in SplitInto : Split(id, n)
  BY <1>1, <1>8, SplitKeeps
<1> QED BY <1>2, <1>4, <1>5, <1>6, <1>7, <1>8

-----------------------------------------------------------------------------
(* Runs begin and end.                                                       *)

LEMMA NoDeskIs ==
  /\ NoDesk.text = NoPlan /\ NoDesk.changed = FALSE /\ NoDesk.held = Nothing /\ NoDesk.effects = <<>>
BY DEF NoDesk

\* A run's desk has the plan as it is on disk.
LEMMA OpeningKeeps ==
  ASSUME PlanInv, pc = "idle", NEW r \in Rooms, open_desks(r),
         UNCHANGED <<file, records, pursuit, hand, faults>>,
         pursuing' \in {"no", "look", "sent"}
  PROVE  PlanInv'
<1>1. PlanTypes /\ LedgerLeads
  BY DEF PlanInv
<1>2. /\ desk'.text = file /\ desk'.changed = FALSE /\ desk'.held = Nothing /\ desk'.effects = <<>>
      /\ pc' = "driving" /\ lines' = <<>> /\ room' \in Rooms
  <2>1. desk' = [text |-> file, changed |-> FALSE, held |-> Nothing, effects |-> <<>>]
    BY DEF open_desks, NoDesk
  <2> QED BY <2>1 DEF open_desks
<1>3. PlanTypes'
  <2>1. <<>> \in Seq(Effect)
    OBVIOUS
  <2> QED BY <1>1, <1>2, <2>1 DEF PlanTypes
<1>4. DeskFollows'
  <2>1. Calls' = 0 /\ 1 .. 0 = {}
    BY <1>2 DEF Calls
  <2> QED BY <1>2, <2>1 DEF DeskFollows
<1>5. LedgerLeads'
  BY <1>1, <1>2 DEF LedgerLeads, NoLineNoChange
<1> QED BY <1>2, <1>3, <1>4, <1>5 DEF PlanInv

\* A dispatch that is over leaves what the ledger and the file say of each
\* other as it was, or the file truncated.
LEMMA OverKeeps ==
  ASSUME PlanInv, NEW ok \in BOOLEAN, Over(ok),
         UNCHANGED <<records, pursuit, hand>>,
         file' \in {file, NoPlan}, faults' \in {faults, faults + 1},
         faults' = faults => file' = file /\ pc \notin {"recording", "writing"}
  PROVE  PlanInv'
<1>1. PlanTypes /\ LedgerLeads
  BY DEF PlanInv
<1>2. /\ desk'.text = NoPlan /\ desk'.changed = FALSE /\ desk'.held = Nothing /\ desk'.effects = <<>>
      /\ pc' = "idle" /\ lines' = <<>> /\ room' = Nowhere
      /\ pursuing' \in {pursuing, "no"}
  BY NoDeskIs DEF Over
<1>3. faults \in Nat /\ faults' \in Nat /\ (faults' = 0 => faults' = faults)
  BY <1>1 DEF PlanTypes
<1>4. PlanTypes'
  <2>1. <<>> \in Seq(Effect)
    OBVIOUS
  <2>2. IsPlan(file')
    BY <1>1, NoPlanIsPlan DEF PlanTypes
  <2>3. IsPlan(desk'.text)
    BY <1>2, NoPlanIsPlan
  <2> QED BY <1>1, <1>2, <1>3, <2>1, <2>2, <2>3 DEF PlanTypes
<1>5. LedgerLeads'
  <2>1. NoLineNoChange'
    BY <1>1, NoPlanIsPlan DEF LedgerLeads, NoLineNoChange
  <2> QED BY <1>1, <1>2, <1>3, <2>1 DEF LedgerLeads
<1> QED BY <1>2, <1>4, <1>5 DEF PlanInv

\* The drive returns: what is landed rests on rows that still say what the run
\* assumed.
LEMMA RunEndsKeeps ==
  ASSUME PlanInv, RunEnds
  PROVE  PlanInv'
<1>0. pc = "driving" /\ UNCHANGED <<file, records, pursuit, hand, faults>>
  BY DEF RunEnds, city, outer
<1>1. PlanTypes /\ DeskFollows /\ LedgerLeads
  BY <1>0 DEF PlanInv
<1>2. CASE Over(TRUE)
  BY <1>0, <1>2, OverKeeps
<1>3. CASE /\ desk.changed /\ ~ Stale(desk.effects)
           /\ pc' = "recording" /\ lines' = desk.effects
           /\ UNCHANGED <<desk, room, pursuing, wanted>>
  <2>1. Calls \in Nat /\ Calls' = Calls /\ Recorded' = 0 /\ Len(lines') = Calls /\ Calls # 0
        /\ DOMAIN desk.effects = 1 .. Calls
    BY <1>1, <1>3 DEF PlanTypes, DeskFollows, Calls, Recorded
  <2>2. PlanTypes'
    BY <1>0, <1>1, <1>3 DEF PlanTypes
  <2>3. DeskFollows'
    BY <1>0, <1>1, <1>3, <2>1 DEF DeskFollows
  <2>4. ASSUME NEW i \in 1 .. Calls, \A j \in 1 .. i - 1 : desk.effects[j].id # desk.effects[i].id
        PROVE  still_true(file, desk.effects[i])
    BY <1>3, <2>1, <2>4 DEF Stale
  <2>5. ASSUME NEW i \in 1 .. Calls PROVE desk.effects[i].id \in Nodes(file)
    <3> DEFINE T == {k \in 1 .. Calls : desk.effects[k].id = desk.effects[i].id}
    <3>0. T \in SUBSET Nat /\ T # {}
      <4>1. i \in T
        OBVIOUS
      <4> QED BY <2>1, <4>1
    <3>1. PICK k \in T : \A j \in T : k <= j
      <4> HIDE DEF T
      <4> QED BY <3>0, SmallestExists
    <3>2. k \in 1 .. Calls /\ desk.effects[k].id = desk.effects[i].id
      BY <3>1
    <3>4. ASSUME NEW j \in 1 .. k - 1 PROVE desk.effects[j].id # desk.effects[k].id
      <4>1. j \in 1 .. Calls /\ ~ (k <= j)
        BY <2>1, <3>2
      <4>2. j \notin T
        <5> HIDE DEF T
        <5> QED BY <3>1, <4>1
      <4> QED BY <3>2, <4>1, <4>2
    <3> HIDE DEF T
    <3>3. still_true(file, desk.effects[k])
      BY <2>4, <3>2, <3>4
    <3> QED BY <3>2, <3>3 DEF still_true
  <2>6. ASSUME NEW i \in 1 .. Calls, desk.effects[i].op # "Split"
        PROVE  file[desk.effects[i].id].status = "NotStarted"
    <3>1. PICK k \in 1 .. i : Opens(desk.effects, k, desk.effects[i].id)
      BY <1>1, <2>6 DEF DeskFollows
    <3>2. k \in 1 .. Calls
      BY <2>1, <3>1
    <3>3. /\ desk.effects[k].id = desk.effects[i].id /\ desk.effects[k].op = "Claimed"
          /\ \A j \in 1 .. k - 1 : desk.effects[j].id # desk.effects[k].id
      BY <3>1 DEF Opens
    <3>4. still_true(file, desk.effects[k])
      BY <2>4, <3>2, <3>3
    <3> QED BY <3>3, <3>4 DEF still_true, expected_before
  <2>7. Landing'
    <3>1. 1 .. 0 = {}
      OBVIOUS
    <3>2. lines' # <<>>
      BY <1>1, <1>3 DEF DeskFollows
    <3>3. \A j \in 1 .. Calls : 0 + j = j
      BY <2>1
    <3>4. faults = 0 => \A id \in Nodes(file) \ hand : file[id].status = StatusOf(records, id)
      BY <1>0, <1>1 DEF LedgerLeads
    <3> QED BY <1>0, <1>3, <2>1, <2>5, <2>6, <3>1, <3>2, <3>3, <3>4 DEF Landing
  <2>8. LedgerLeads'
    BY <1>0, <1>1, <1>3 DEF LedgerLeads, NoLineNoChange
  <2> QED BY <2>2, <2>3, <2>7, <2>8 DEF PlanInv
<1> QED BY <1>2, <1>3 DEF RunEnds

-----------------------------------------------------------------------------
(* A landing.                                                                *)

\* One line recorded: it is about a row that has not been started in the file,
\* or is a person's by now.
LEMMA RecordLineKeeps ==
  ASSUME PlanInv, RecordLine
  PROVE  PlanInv'
<1> DEFINE e == desk.effects
           m == Recorded + 1
           line == Head(lines)
<1>0. /\ pc = "recording" /\ records' = Absorbed(line) /\ lines' = Tail(lines)
      /\ pc' = IF Len(lines) = 1 THEN "writing" ELSE "recording"
      /\ UNCHANGED <<file, desk, room, holders, told, pursuit, pursuing, wanted, hand, faults>>
  BY DEF RecordLine, outer
<1>1. PlanTypes /\ DeskFollows /\ Landing /\ LedgerLeads
  BY <1>0 DEF PlanInv
<1>2. /\ Calls \in Nat /\ Len(lines) \in Nat /\ Len(lines) # 0 /\ Len(lines) <= Calls
      /\ Recorded = Calls - Len(lines) /\ Recorded \in Nat /\ m \in 1 .. Calls
      /\ lines' \in Seq(Effect) /\ Len(lines') = Len(lines) - 1
      /\ \A j \in 1 .. Len(lines') : lines'[j] = lines[j + 1]
      /\ Calls' = Calls /\ Recorded' = m
      /\ e \in Seq(Effect) /\ DOMAIN e = 1 .. Calls
  <2>1. lines \in Seq(Effect) /\ lines # <<>> /\ e \in Seq(Effect) /\ Len(lines) <= Calls
    BY <1>0, <1>1 DEF PlanTypes, Landing
  <2>2. Calls \in Nat /\ Len(lines) \in Nat /\ Len(lines) # 0 /\ Calls' = Calls /\ DOMAIN e = 1 .. Calls
    BY <1>0, <2>1 DEF Calls
  <2>3. Recorded = Calls - Len(lines) /\ Recorded' = Calls - Len(lines')
    BY <1>0 DEF Recorded, Calls
  <2>4. lines' \in Seq(Effect) /\ Len(lines') = Len(lines) - 1 /\ \A j \in 1 .. Len(lines') : lines'[j] = lines[j + 1]
    BY <1>0, <2>1
  <2> QED BY <2>1, <2>2, <2>3, <2>4
<1>3. line = e[m] /\ e[m] \in Effect
  <2>1. line = lines[1] /\ 1 \in 1 .. Len(lines)
    BY <1>1, <1>2 DEF PlanTypes
  <2> QED BY <1>1, <1>2, <2>1 DEF Landing
<1>4. e[m].op = "Split" \/ e[m].op \in Ops
  BY <1>3 DEF Effect, Ops
<1>5. /\ e[m].op = "Split" => records' = records
      /\ e[m].op \in Ops =>
           /\ DOMAIN records' = DOMAIN records \cup {e[m].id}
           /\ records'[e[m].id].op = e[m].op
           /\ records'[e[m].id] \in [op : Ops, room : Rooms \cup {Nowhere}]
           /\ \A id \in DOMAIN records : id # e[m].id => records'[id] = records[id]
  <2>1. CASE e[m].op = "Split"
    BY <1>0, <1>3, <2>1 DEF Absorbed, Ops
  <2>2. CASE e[m].op \in Ops
    <3> DEFINE entry == [op |-> line.op, room |-> IF line.op = "Claimed" THEN room ELSE Nowhere]
    <3>1. entry \in [op : Ops, room : Rooms \cup {Nowhere}] /\ entry.op = e[m].op
      BY <1>1, <1>3, <2>2 DEF PlanTypes
    <3>2. records' = [id \in DOMAIN records \cup {line.id} |-> IF id # line.id THEN records[id] ELSE entry]
      BY <1>0, <1>3, <2>2 DEF Absorbed, Ops
    <3> HIDE DEF entry
    <3>3. /\ DOMAIN records' = DOMAIN records \cup {line.id}
          /\ records'[line.id] = entry
          /\ \A id \in DOMAIN records : id # line.id => records'[id] = records[id]
      BY <3>2
    <3>4. e[m].op # "Split"
      BY <2>2 DEF Ops
    <3> QED BY <1>3, <3>1, <3>3, <3>4
  <2> QED BY <1>4, <2>1, <2>2
<1>6. \A id : (id \in DOMAIN records \/ id \in DOMAIN records') /\ ~ Marks(e, m, id)
        => (id \in DOMAIN records' <=> id \in DOMAIN records) /\ records'[id] = records[id]
  BY <1>4, <1>5 DEF Marks, Ops
<1>7. ASSUME NEW id, ~ Marks(e, m, id) PROVE StatusOf(records', id) = StatusOf(records, id)
  <2>1. CASE id \notin DOMAIN records /\ id \notin DOMAIN records'
    BY <2>1 DEF StatusOf
  <2>2. CASE id \in DOMAIN records \/ id \in DOMAIN records'
    <3>1. id \in DOMAIN records' /\ id \in DOMAIN records /\ records'[id] = records[id]
      BY <1>6, <1>7, <2>2
    <3>2. records[id].op \in Ops
      BY <1>1, <3>1 DEF PlanTypes
    <3> QED BY <3>1, <3>2, LastLineSays
  <2> QED BY <2>1, <2>2
<1>8. e[m].id \in Nodes(file) /\ (e[m].op \in Ops => e[m].id \in hand \/ file[e[m].id].status = "NotStarted")
  <2>1. e[m].op \in Ops => e[m].op # "Split"
    BY DEF Ops
  <2> QED BY <1>1, <1>2, <2>1 DEF Landing
<1> HIDE DEF line, m
<1>9. PlanTypes'
  <2>1. \A id \in DOMAIN records' : records'[id] \in [op : Ops, room : Rooms \cup {Nowhere}]
    BY <1>1, <1>4, <1>5 DEF PlanTypes
  <2> QED BY <1>0, <1>1, <1>2, <2>1 DEF PlanTypes
<1>10. DeskFollows'
  BY <1>0, <1>1, <1>2 DEF DeskFollows
<1>11. NoLineNoChange'
  <2>1. SUFFICES ASSUME NEW id \in Nodes(file) \ hand, file[id].status # "NotStarted"
                 PROVE  file[id].status = StatusOf(records', id)
    BY <1>0 DEF NoLineNoChange
  <2>2. ~ Marks(e, m, id)
    BY <1>4, <1>8, <2>1 DEF Marks
  <2> QED BY <1>1, <1>7, <2>1, <2>2 DEF LedgerLeads, NoLineNoChange
<1>12. faults = 0 => DOMAIN records' \subseteq Nodes(file)
  BY <1>1, <1>4, <1>5, <1>8 DEF LedgerLeads
<1>13. LedgerLeads'
  BY <1>0, <1>11, <1>12 DEF LedgerLeads
<1>14. Landing'
  <2>1. (pc' = "recording" => lines' # <<>>) /\ (pc' = "writing" => lines' = <<>>)
    <3>1. lines' \in Seq(Effect) /\ Len(lines') = Len(lines) - 1
      BY <1>2
    <3>2. lines' = <<>> <=> Len(lines') = 0
      BY <3>1, EmptySeq
    <3>3. Len(lines') = 0 <=> Len(lines) = 1
      BY <1>2
    <3> QED BY <1>0, <3>2, <3>3
  <2>2. ASSUME NEW j \in 1 .. Len(lines') PROVE lines'[j] = e[m + j]
    <3>1. j + 1 \in 1 .. Len(lines) /\ Recorded + (j + 1) = m + j
      BY <1>2 DEF m
    <3> QED BY <1>1, <1>2, <3>1 DEF Landing
  <2>3. ASSUME NEW i \in 1 .. m, LastOn(e, i, m)
        PROVE  e[i].id \in DOMAIN records' /\ records'[e[i].id].op = e[i].op
    <3>1. CASE i = m
      <4>1. e[m].op \in Ops
        BY <1>4, <2>3, <3>1 DEF LastOn
      <4> QED BY <1>5, <3>1, <4>1
    <3>2. CASE i # m
      <4>1. i \in 1 .. Recorded /\ m \in i + 1 .. m /\ \A j \in i + 1 .. Recorded : j \in i + 1 .. m
        <5>1. Recorded \in Nat /\ m = Recorded + 1
          BY <1>2 DEF m
        <5>2. i \in 1 .. m /\ i # m
          BY <3>2
        <5> QED BY <5>1, <5>2
      <4>2. LastOn(e, i, Recorded) /\ ~ Marks(e, m, e[i].id)
        BY <2>3, <4>1 DEF LastOn
      <4>3. e[i].id \in DOMAIN records /\ records[e[i].id].op = e[i].op
        BY <1>1, <4>1, <4>2 DEF Landing
      <4> QED BY <1>6, <4>2, <4>3
    <3> QED BY <3>1, <3>2
  <2>4. ASSUME faults = 0, NEW id \in Nodes(file) \ hand, Untouched(e, id, m)
        PROVE  file[id].status = StatusOf(records', id)
    <3>1. m \in 1 .. m /\ \A j \in 1 .. Recorded : j \in 1 .. m
      BY <1>2 DEF m
    <3>2. Untouched(e, id, Recorded) /\ ~ Marks(e, m, id)
      BY <2>4, <3>1 DEF Untouched
    <3> QED BY <1>1, <1>7, <2>4, <3>2 DEF Landing
  <2>5. Len(lines') <= Calls
    BY <1>2
  <2>6. desk' = desk /\ file' = file /\ hand' = hand /\ faults' = faults
    BY <1>0
  <2>7. /\ Calls # 0
        /\ \A i \in 1 .. Calls : e[i].id \in Nodes(file)
        /\ \A i \in 1 .. Calls : e[i].op # "Split" => e[i].id \in hand \/ file[e[i].id].status = "NotStarted"
    BY <1>1 DEF Landing
  <2> QED BY <1>2, <2>1, <2>2, <2>3, <2>4, <2>5, <2>6, <2>7 DEF Landing
<1> QED BY <1>0, <1>9, <1>10, <1>13, <1>14 DEF PlanInv

\* What is written has all been recorded.
LEMMA TextIsRecorded ==
  ASSUME PlanInv, pc = "writing"
  PROVE  /\ IsPlan(desk.text) /\ Nodes(file) \subseteq Nodes(desk.text)
         /\ \A id \in Nodes(desk.text) \ hand :
              /\ desk.text[id].status # "NotStarted" => desk.text[id].status = StatusOf(records, id)
              /\ faults = 0 => desk.text[id].status = StatusOf(records, id)
<1> DEFINE e == desk.effects
<1>1. PlanTypes /\ DeskFollows /\ Landing /\ LedgerLeads
  BY DEF PlanInv
<1>2. Calls \in Nat /\ Recorded = Calls /\ lines = <<>>
  <2>1. lines = <<>> /\ e \in Seq(Effect)
    BY <1>1 DEF Landing, PlanTypes
  <2> QED BY <2>1 DEF Calls, Recorded
<1>3. ASSUME NEW id \in Nodes(desk.text) \ hand
      PROVE  /\ desk.text[id].status # "NotStarted" => desk.text[id].status = StatusOf(records, id)
             /\ faults = 0 => desk.text[id].status = StatusOf(records, id)
  <2>1. CASE ~ Untouched(e, id, Calls)
    <3>1. PICK i \in 1 .. Calls : LastOn(e, i, Calls) /\ e[i].id = id
      BY <1>2, <2>1, LastTouchExists
    <3>2. desk.text[id].status = After(e[i].op)
      BY <1>1, <3>1 DEF DeskFollows
    <3>3. id \in DOMAIN records /\ records[id].op = e[i].op
      BY <1>1, <1>2, <3>1 DEF Landing
    <3>4. records[id].op \in Ops
      BY <1>1, <3>3 DEF PlanTypes
    <3> QED BY <3>2, <3>3, <3>4, LastLineSays
  <2>2. CASE Untouched(e, id, Calls)
    <3>1. CASE id \in Nodes(file)
      <4>1. desk.text[id].status = file[id].status
        BY <1>1, <2>2, <3>1 DEF DeskFollows
      <4>2. file[id].status # "NotStarted" => file[id].status = StatusOf(records, id)
        BY <1>1, <3>1 DEF LedgerLeads, NoLineNoChange
      <4>3. faults = 0 => file[id].status = StatusOf(records, id)
        BY <1>1, <1>2, <2>2, <3>1 DEF Landing
      <4> QED BY <4>1, <4>2, <4>3
    <3>2. CASE id \notin Nodes(file)
      <4>1. desk.text[id].status = "NotStarted"
        BY <1>1, <2>2, <3>2 DEF DeskFollows
      <4>2. faults = 0 => id \notin DOMAIN records
        BY <1>1, <3>2 DEF LedgerLeads
      <4> QED BY <4>1, <4>2, LastLineSays
    <3> QED BY <3>1, <3>2
  <2> QED BY <2>1, <2>2
<1> QED BY <1>1, <1>3 DEF PlanTypes, DeskFollows

LEMMA WritePlanKeeps ==
  ASSUME PlanInv, WritePlan
  PROVE  PlanInv'
<1>0. /\ pc = "writing" /\ file' = desk.text /\ pc' = "telling"
      /\ UNCHANGED <<desk, room, lines, records, pursuit, pursuing, hand, faults>>
  BY DEF WritePlan, city, outer
<1>1. PlanTypes /\ LedgerLeads
  BY DEF PlanInv
<1>2. /\ IsPlan(desk.text) /\ Nodes(file) \subseteq Nodes(desk.text)
      /\ \A id \in Nodes(desk.text) \ hand :
           /\ desk.text[id].status # "NotStarted" => desk.text[id].status = StatusOf(records, id)
           /\ faults = 0 => desk.text[id].status = StatusOf(records, id)
  BY <1>0, TextIsRecorded
<1>3. PlanTypes'
  BY <1>0, <1>1, <1>2 DEF PlanTypes
<1>4. LedgerLeads'
  BY <1>0, <1>1, <1>2 DEF LedgerLeads, NoLineNoChange
<1> QED BY <1>0, <1>3, <1>4 DEF PlanInv

-----------------------------------------------------------------------------
(* The person, and the process.                                              *)

LEMMA PersonEditsKeeps ==
  ASSUME PlanInv, NEW id \in Nodes(file), NEW status \in RoadmapStatus, PersonEdits(id, status)
  PROVE  PlanInv'
<1> DEFINE text == set_roadmap_status(file, id, status, status = "Done")
<1>0. /\ file' = text /\ hand' = hand \cup {id}
      /\ UNCHANGED <<desk, pc, room, lines, records, pursuit, pursuing, faults>>
  BY DEF PersonEdits, runVars, city
<1>1. PlanTypes /\ LedgerLeads
  BY DEF PlanInv
<1>2. /\ IsPlan(text) /\ Nodes(text) = Nodes(file)
      /\ \A x \in Nodes(file) : x # id => text[x] = file[x]
  <2>1. PICK evidence \in BOOLEAN : evidence = (status = "Done")
    OBVIOUS
  <2>2. IsPlan(file) /\ text = set_roadmap_status(file, id, status, evidence)
    BY <1>1, <2>1 DEF PlanTypes
  <2> HIDE DEF text
  <2> QED BY <2>2, StatusIsSet
<1> HIDE DEF text
<1>3. PlanTypes'
  BY <1>0, <1>1, <1>2 DEF PlanTypes
<1>4. LedgerLeads'
  BY <1>0, <1>1, <1>2 DEF LedgerLeads, NoLineNoChange
<1>5. Calls' = Calls /\ Recorded' = Recorded
  BY <1>0 DEF Calls, Recorded
<1>6. ASSUME DeskFollows PROVE DeskFollows'
  BY <1>0, <1>2, <1>5, <1>6 DEF DeskFollows
<1>7. ASSUME Landing PROVE Landing'
  <2>1. /\ Calls # 0 /\ Len(lines) <= Calls
        /\ pc = "recording" => lines # <<>>
        /\ pc = "writing" => lines = <<>>
        /\ \A j \in 1 .. Len(lines) : lines[j] = desk.effects[Recorded + j]
        /\ \A i \in 1 .. Recorded : LastOn(desk.effects, i, Recorded) =>
             /\ desk.effects[i].id \in DOMAIN records
             /\ records[desk.effects[i].id].op = desk.effects[i].op
    BY <1>7 DEF Landing
  <2>2. \A i \in 1 .. Calls : desk.effects[i].id \in Nodes(text)
    BY <1>2, <1>7 DEF Landing
  <2>3. \A i \in 1 .. Calls : desk.effects[i].op # "Split" =>
          desk.effects[i].id \in hand \cup {id} \/ text[desk.effects[i].id].status = "NotStarted"
    BY <1>2, <1>7 DEF Landing
  <2>4. faults = 0 => \A x \in Nodes(text) \ (hand \cup {id}) :
          Untouched(desk.effects, x, Recorded) => text[x].status = StatusOf(records, x)
    BY <1>2, <1>7 DEF Landing
  <2> QED BY <1>0, <1>5, <2>1, <2>2, <2>3, <2>4 DEF Landing
<1> QED BY <1>0, <1>3, <1>4, <1>6, <1>7 DEF PlanInv

LEMMA CrashKeeps ==
  ASSUME PlanInv, Crash
  PROVE  PlanInv'
<1>0. /\ file' \in IF pc = "writing" THEN {file, NoPlan, desk.text} ELSE {file}
      /\ desk' = NoDesk /\ pc' = "idle" /\ lines' = <<>> /\ room' = Nowhere
      /\ pursuing' = "no" /\ faults' = faults + 1
      /\ UNCHANGED <<records, pursuit, hand>>
  BY DEF Crash
<1>1. PlanTypes /\ LedgerLeads
  BY DEF PlanInv
<1>2. faults' \in Nat /\ faults' # 0
  BY <1>0, <1>1 DEF PlanTypes
<1>3. /\ IsPlan(file')
      /\ \A id \in Nodes(file') \ hand : file'[id].status # "NotStarted" => file'[id].status = StatusOf(records, id)
  <2>1. CASE file' = file
    BY <1>1, <2>1 DEF PlanTypes, LedgerLeads, NoLineNoChange
  <2>2. CASE file' = NoPlan
    BY <2>2, NoPlanIsPlan
  <2>3. CASE pc = "writing" /\ file' = desk.text
    BY <2>3, TextIsRecorded
  <2> QED BY <1>0, <2>1, <2>2, <2>3
<1>4. PlanTypes'
  <2>1. <<>> \in Seq(Effect)
    OBVIOUS
  <2>2. IsPlan(desk'.text)
    BY <1>0, NoDeskIs, NoPlanIsPlan
  <2> QED BY <1>0, <1>1, <1>2, <1>3, <2>1, <2>2, NoDeskIs DEF PlanTypes
<1>5. LedgerLeads'
  BY <1>0, <1>2, <1>3 DEF LedgerLeads, NoLineNoChange
<1> QED BY <1>0, <1>4, <1>5 DEF PlanInv

\* The rest of what goes wrong: a step of the settlement is refused.
LEMMA FailingKeeps ==
  ASSUME PlanInv, Failing
  PROVE  PlanInv'
<1>1. /\ Over(FALSE) /\ file' \in {file, NoPlan} /\ faults' = faults + 1
      /\ UNCHANGED <<records, pursuit, hand>>
  BY DEF Failing, city
<1>2. faults \in Nat
  BY DEF PlanInv, PlanTypes
<1>3. faults' # faults
  BY <1>1, <1>2
<1> QED BY <1>1, <1>3, OverKeeps

\* Steps that leave the file, the desk and the ledger alone.
LEMMA AsideKeeps ==
  ASSUME PlanInv, UNCHANGED <<file, runVars, records, hand, faults>>,
         pursuit' \in {"none", "Running", "Paused"}, pursuing' \in {"no", "look", "sent"}
  PROVE  PlanInv'
<1>1. UNCHANGED <<file, desk, pc, room, lines, records, hand, faults>>
  BY DEF runVars
<1>2. PlanTypes'
  BY <1>1 DEF PlanInv, PlanTypes
<1>3. (DeskFollows => DeskFollows') /\ (Landing => Landing') /\ (LedgerLeads => LedgerLeads')
  BY <1>1 DEF DeskFollows, Landing, LedgerLeads, NoLineNoChange, Calls, Recorded
<1> QED BY <1>1, <1>2, <1>3 DEF PlanInv

LEMMA PlanInitially ==
  ASSUME PlanInit
  PROVE  PlanInv
<1>1. /\ file = Roadmap /\ IsPlan(Roadmap) /\ desk = NoDesk /\ pc = "idle" /\ room = Nowhere /\ lines = <<>>
      /\ records = <<>> /\ pursuit = "none" /\ pursuing = "no" /\ faults = 0
      /\ hand = {id \in Nodes(Roadmap) : Roadmap[id].status # "NotStarted"}
  BY ClaimsAssumption DEF PlanInit
<1>2. DOMAIN records = {}
  BY <1>1
<1>3. PlanTypes
  <2>1. <<>> \in Seq(Effect)
    OBVIOUS
  <2> QED BY <1>1, <1>2, <2>1, NoDeskIs, NoPlanIsPlan DEF PlanTypes
<1>4. \A id \in Nodes(file) \ hand : file[id].status = "NotStarted" /\ StatusOf(records, id) = "NotStarted"
  BY <1>1, <1>2, LastLineSays
<1>5. LedgerLeads
  BY <1>1, <1>2, <1>4 DEF LedgerLeads, NoLineNoChange
<1> QED BY <1>1, <1>3, <1>5 DEF PlanInv

LEMMA PlanStep ==
  ASSUME PlanInv, [PlanNext]_planVars
  PROVE  PlanInv'
<1>0. /\ pursuit \in {"none", "Running", "Paused"} /\ pursuing \in {"no", "look", "sent"}
      /\ Hall \in Rooms
  BY ClaimsAssumption DEF PlanInv, PlanTypes
<1>1. ASSUME NEW r \in Rooms, Dispatch(r) PROVE PlanInv'
  <2>1. /\ pc = "idle" /\ open_desks(r) /\ pursuing' = pursuing
        /\ UNCHANGED <<file, records, pursuit, hand, faults>>
    BY <1>1 DEF Dispatch, city, outer
  <2> QED BY <1>0, <2>1, OpeningKeeps
<1>2. CASE Call
  BY <1>2, CallKeeps
<1>3. CASE RunEnds
  BY <1>3, RunEndsKeeps
<1>4. CASE RecordLine
  BY <1>4, RecordLineKeeps
<1>5. CASE WritePlan
  BY <1>5, WritePlanKeeps
<1>6. CASE Tell
  <2>1. pc = "telling" /\ Over(TRUE) /\ UNCHANGED <<file, records, pursuit, hand, faults>>
    BY <1>6 DEF Tell, outer
  <2> QED BY <2>1, OverKeeps
<1>7. CASE Pursue
  <2>0. pc = "idle" /\ UNCHANGED <<file, records, pursuit, hand, faults>>
    BY <1>7 DEF Pursue, city
  <2>1. CASE open_desks(Hall) /\ pursuing' = "sent"
    BY <1>0, <2>0, <2>1, OpeningKeeps
  <2>2. CASE pursuing' = "no" /\ UNCHANGED runVars
    BY <1>0, <2>0, <2>2, AsideKeeps
  <2> QED BY <1>7, <2>1, <2>2 DEF Pursue
<1>8. CASE PursueOn
  <2>1. UNCHANGED <<file, runVars, records, hand, faults, pursuit>> /\ pursuing' \in {"no", "look"}
    BY <1>8 DEF PursueOn, city
  <2> QED BY <1>0, <2>1, AsideKeeps
<1>9. CASE Failing
  BY <1>9, FailingKeeps
<1>10. CASE SetPursuit
  <2>1. /\ UNCHANGED <<file, runVars, records, hand, faults>> /\ pursuing' = "look"
        /\ pursuit' \in {"none", "Running", "Paused"}
    BY <1>10 DEF SetPursuit, outer
  <2> QED BY <2>1, AsideKeeps
<1>11. CASE Crash
  BY <1>11, CrashKeeps
<1>12. CASE \E id \in Nodes(file), status \in RoadmapStatus : PersonEdits(id, status)
  BY <1>12, PersonEditsKeeps
<1>13. CASE UNCHANGED planVars
  <2>1. UNCHANGED <<file, runVars, records, hand, faults, pursuit, pursuing>>
    BY <1>13 DEF planVars, runVars
  <2> QED BY <1>0, <2>1, AsideKeeps
<1> QED BY <1>1, <1>2, <1>3, <1>4, <1>5, <1>6, <1>7, <1>8, <1>9, <1>10, <1>11, <1>12, <1>13
        DEF PlanNext, Worker

\* The plan on disk follows the ledger for every plan a person may have
\* written, however many runs work it, whatever is refused or dies in the
\* middle of a settlement and whatever a person writes meanwhile: no row says
\* what no line announced, and when nothing failed every row a person left
\* alone says exactly what the ledger says of it (effect.rs, Landing::record).
THEOREM PlanAlwaysFollowsTheLedger == PlanSpec => []PlanFollowsTheLedger
<1>1. PlanInv => PlanFollowsTheLedger
  <2>1. SUFFICES ASSUME PlanInv PROVE PlanFollowsTheLedger
    OBVIOUS
  <2>2. PlanTypes /\ LedgerLeads
    BY <2>1 DEF PlanInv
  <2>3. PlanTypeOK
    BY <2>2 DEF PlanTypes, PlanTypeOK, IsPlan, Nodes, Ops
  <2> QED BY <2>2, <2>3 DEF LedgerLeads, PlanFollowsTheLedger, LandsWhole
<1> QED BY <1>1, PlanInitially, PlanStep, PTL DEF PlanSpec

-----------------------------------------------------------------------------
(* What is stuck.                                                            *)

LEMMA NeededBy ==
  ASSUME NEW plan, NEW x, NEW n
  PROVE  n \in needs_of(plan, x) <=> \E a \in (ancestors(x) \cap Nodes(plan)) \cup {x} : n \in needs(plan, a)
BY DEF needs_of

\* A node that was begun has all it waits for.
RestsOnDone(plan) ==
  \A id \in Nodes(plan) : plan[id].status # "NotStarted" => Waiting(plan, id) = {}

\* A change that leaves what is needed, and leaves done what is done, leaves
\* what has nothing to wait for.
LEMMA NothingMoreToWaitFor ==
  ASSUME NEW plan, NEW after, NEW x \in Nodes(plan), Waiting(plan, x) = {},
         Nodes(plan) \subseteq Nodes(after),
         \A a \in Nodes(plan) : needs(after, a) = needs(plan, a),
         \A a \in Nodes(after) \ Nodes(plan) : needs(after, a) = {},
         \A n \in Nodes(plan) : plan[n].status = "Done" /\ n \in needs_of(plan, x) => after[n].status = "Done"
  PROVE  Waiting(after, x) = {}
<1>1. SUFFICES ASSUME NEW n \in needs_of(after, x) PROVE n \in Nodes(after) /\ after[n].status = "Done"
  BY DEF Waiting
<1>2. PICK a \in (ancestors(x) \cap Nodes(after)) \cup {x} : n \in needs(after, a)
  BY <1>1, NeededBy
<1>3. a \in Nodes(plan) /\ n \in needs(plan, a)
  BY <1>2
<1>4. n \in needs_of(plan, x)
  BY <1>2, <1>3, NeededBy
<1>5. n \in Nodes(plan) /\ plan[n].status = "Done"
  BY <1>4 DEF Waiting
<1> QED BY <1>4, <1>5

\* A status set keeps that of a plan, when the node was not done and has
\* nothing to wait for, or is put back.
LEMMA StatusRests ==
  ASSUME NEW plan, IsPlan(plan), RestsOnDone(plan), NEW id \in Nodes(plan),
         NEW status \in RoadmapStatus, NEW evidence \in BOOLEAN,
         plan[id].status # "Done", status = "NotStarted" \/ Waiting(plan, id) = {}
  PROVE  RestsOnDone(set_roadmap_status(plan, id, status, evidence))
<1> DEFINE after == set_roadmap_status(plan, id, status, evidence)
<1>1. /\ Nodes(after) = Nodes(plan) /\ after[id].status = status
      /\ \A x \in Nodes(plan) : x # id => after[x] = plan[x]
  BY StatusIsSet
<1>2. after[id].needs = plan[id].needs
  <2>1. plan \in [Nodes(plan) -> Row] /\ plan[id] \in Row
    BY DEF IsPlan, Nodes
  <2>2. after[id] = [plan[id] EXCEPT !.status = status, !.evidence = evidence]
    BY <2>1 DEF set_roadmap_status, Nodes
  <2> HIDE DEF after
  <2> QED BY <2>1, <2>2 DEF Row
<1> HIDE DEF after
<1>3. \A a \in Nodes(plan) : needs(after, a) = needs(plan, a)
  BY <1>1, <1>2 DEF needs
<1>4. ASSUME NEW x \in Nodes(after), after[x].status # "NotStarted" PROVE Waiting(after, x) = {}
  <2>1. x \in Nodes(plan) /\ Waiting(plan, x) = {}
    BY <1>1, <1>4 DEF RestsOnDone
  <2>2. \A n \in Nodes(plan) : plan[n].status = "Done" => after[n].status = "Done"
    BY <1>1
  <2> QED BY <1>1, <1>3, <2>1, <2>2, NothingMoreToWaitFor
<1> QED BY <1>4 DEF RestsOnDone, after

\* And so does a division.
LEMMA DivisionRests ==
  ASSUME NEW plan, IsPlan(plan), RestsOnDone(plan), NEW id \in Nodes(plan), NEW k \in Nat \ {0}
  PROVE  RestsOnDone(insert_children(plan, id, k))
<1> DEFINE after == insert_children(plan, id, k)
           new == NewChildren(plan, id, k)
           row == [status |-> "NotStarted", evidence |-> FALSE, weight |-> 1, needs |-> <<>>]
<1>1. /\ Nodes(plan) \subseteq Nodes(after)
      /\ \A x \in Nodes(plan) : after[x] = plan[x]
      /\ \A x \in Nodes(after) \ Nodes(plan) : after[x].status = "NotStarted"
  BY ChildrenAreNew
<1>2. after = [c \in Nodes(plan) \cup new |-> IF c \in new THEN row ELSE plan[c]]
  BY DEF insert_children
<1>3. row.needs = <<>>
  OBVIOUS
<1> HIDE DEF after, new, row
<1>4. \A a \in Nodes(plan) : needs(after, a) = needs(plan, a)
  BY <1>1 DEF needs
<1>5. ASSUME NEW a \in Nodes(after) \ Nodes(plan) PROVE needs(after, a) = {}
  <2>1. after[a] = row
    BY <1>2, <1>5 DEF Nodes
  <2>2. after[a].needs = <<>> /\ DOMAIN <<>> = {}
    BY <1>3, <2>1
  <2> QED BY <2>2 DEF needs, ToSet
<1>6. ASSUME NEW x \in Nodes(after), after[x].status # "NotStarted" PROVE Waiting(after, x) = {}
  <2>1. x \in Nodes(plan) /\ Waiting(plan, x) = {}
    BY <1>1, <1>6 DEF RestsOnDone
  <2>2. \A n \in Nodes(plan) : plan[n].status = "Done" => after[n].status = "Done"
    BY <1>1
  <2> QED BY <1>1, <1>4, <1>5, <2>1, <2>2, NothingMoreToWaitFor
<1> QED BY <1>6 DEF RestsOnDone, after

\* While no person wrote a status, whatever was begun rests on what is done;
\* and what a run holds is in progress.
RestInv ==
  /\ desk.held # Nothing => desk.text[desk.held].status = "InProgress"
  /\ hand = {} => RestsOnDone(file) /\ RestsOnDone(desk.text)

LEMMA NoPlanRests == RestsOnDone(NoPlan)
BY NoPlanIsPlan DEF RestsOnDone

LEMMA RestCall ==
  ASSUME PlanInv, RestInv, Call
  PROVE  RestInv'
<1>1. PICK id \in Nodes(desk.text) :
        Claim(id) \/ Finish(id) \/ Block(id) \/ Release(id) \/ \E n \in SplitInto : Split(id, n)
  BY DEF Call
<1>2. id # Nothing /\ IsPlan(desk.text)
  BY NodesAreSome DEF PlanInv, PlanTypes
<1>3. ASSUME NEW op \in Ops, NEW evidence \in BOOLEAN, NEW held,
             Noted(set_roadmap_status(desk.text, id, After(op), evidence), held, op, id),
             desk.text[id].status # "Done",
             After(op) = "NotStarted" \/ hand # {} \/ Waiting(desk.text, id) = {},
             held = Nothing \/ (held = id /\ op = "Claimed")
      PROVE  RestInv'
  <2> DEFINE text == set_roadmap_status(desk.text, id, After(op), evidence)
  <2>1. desk'.text = text /\ desk'.held = held /\ UNCHANGED <<file, hand>>
    BY <1>3 DEF Noted, outer
  <2>2. After(op) \in RoadmapStatus
    BY DEF After, RoadmapStatus
  <2>3. text[id].status = After(op)
    BY <1>2, <2>2, StatusIsSet
  <2>4. hand = {} => RestsOnDone(text)
    BY <1>2, <1>3, <2>2, StatusRests DEF RestInv
  <2> HIDE DEF text
  <2>5. held # Nothing => text[held].status = "InProgress"
    BY <1>3, <2>3 DEF After
  <2> QED BY <2>1, <2>4, <2>5 DEF RestInv
<1>4. CASE Claim(id)
  <2>1. /\ desk.text[id].status = "NotStarted" /\ Waiting(desk.text, id) = {}
        /\ Noted(set_roadmap_status(desk.text, id, After("Claimed"), FALSE), id, "Claimed", id)
    BY <1>4 DEF Claim, claim_allows, After
  <2> QED BY <1>3, <2>1 DEF Ops
<1>5. ASSUME desk.held = id
      PROVE  desk.text[id].status # "Done" /\ (hand # {} \/ Waiting(desk.text, id) = {})
  BY <1>2, <1>5 DEF RestInv, RestsOnDone
<1>6. CASE Finish(id)
  <2>1. desk.held = id /\ Noted(set_roadmap_status(desk.text, id, After("Finished"), TRUE), Nothing, "Finished", id)
    BY <1>6 DEF Finish, After
  <2>2. desk.text[id].status # "Done" /\ (hand # {} \/ Waiting(desk.text, id) = {})
    BY <1>5, <2>1
  <2> QED BY <1>3, <2>1, <2>2 DEF Ops
<1>7. CASE Block(id)
  <2>1. desk.held = id /\ Noted(set_roadmap_status(desk.text, id, After("Blocked"), FALSE), Nothing, "Blocked", id)
    BY <1>7 DEF Block, After
  <2>2. desk.text[id].status # "Done" /\ (hand # {} \/ Waiting(desk.text, id) = {})
    BY <1>5, <2>1
  <2> QED BY <1>3, <2>1, <2>2 DEF Ops
<1>8. CASE Release(id)
  <2>1. desk.held = id /\ Noted(set_roadmap_status(desk.text, id, After("Released"), FALSE), Nothing, "Released", id)
    BY <1>8 DEF Release, After
  <2>2. desk.text[id].status # "Done" /\ (hand # {} \/ Waiting(desk.text, id) = {})
    BY <1>5, <2>1
  <2> QED BY <1>3, <2>1, <2>2 DEF Ops
<1>9. ASSUME NEW k \in SplitInto, Split(id, k) PROVE RestInv'
  <2> DEFINE text == insert_children(desk.text, id, k)
  <2>0. k \in Nat \ {0}
    BY ClaimsAssumption
  <2>1. /\ desk'.text = text /\ desk'.held = IF desk.held = id THEN Nothing ELSE desk.held
        /\ UNCHANGED <<file, hand>>
    BY <1>9 DEF Split, Noted, outer
  <2>2. \A x \in Nodes(desk.text) : text[x] = desk.text[x]
    BY <1>2, <2>0, ChildrenAreNew
  <2>3. hand = {} => RestsOnDone(text)
    BY <1>2, <2>0, DivisionRests DEF RestInv
  <2> HIDE DEF text
  <2>4. desk.held \in Nodes(desk.text) \cup {Nothing}
    BY DEF PlanInv, PlanTypes
  <2> QED BY <2>1, <2>2, <2>3, <2>4 DEF RestInv
<1> QED BY <1>1, <1>4, <1>6, <1>7, <1>8, <1>9

LEMMA RestStep ==
  ASSUME PlanInv, RestInv, [PlanNext]_planVars
  PROVE  RestInv'
<1>1. ASSUME NEW r, open_desks(r), UNCHANGED <<file, hand>> PROVE RestInv'
  <2>1. desk'.text = file /\ desk'.held = Nothing
    BY <1>1 DEF open_desks, NoDesk
  <2> QED BY <1>1, <2>1 DEF RestInv
<1>2. ASSUME UNCHANGED <<desk, file, hand>> PROVE RestInv'
  BY <1>2 DEF RestInv
<1>3. ASSUME desk' = NoDesk, file' \in {file, NoPlan, desk.text}, UNCHANGED hand PROVE RestInv'
  BY <1>3, NoDeskIs, NoPlanRests DEF RestInv
<1>4. CASE \E r \in Rooms : Dispatch(r)
  BY <1>1, <1>4 DEF Dispatch, outer
<1>5. CASE Call
  BY <1>5, RestCall
<1>6. CASE RunEnds
  <2>1. UNCHANGED <<file, hand>> /\ (desk' = NoDesk \/ UNCHANGED desk)
    BY <1>6 DEF RunEnds, Over, outer
  <2> QED BY <1>2, <1>3, <2>1
<1>7. CASE RecordLine
  BY <1>2, <1>7 DEF RecordLine, outer
<1>8. CASE WritePlan
  <2>1. file' = desk.text /\ UNCHANGED <<desk, hand>>
    BY <1>8 DEF WritePlan, outer
  <2> QED BY <2>1 DEF RestInv
<1>9. CASE Tell
  BY <1>3, <1>9 DEF Tell, Over, outer
<1>10. CASE Pursue
  <2>1. UNCHANGED <<file, hand>> /\ (open_desks(Hall) \/ UNCHANGED desk)
    BY <1>10 DEF Pursue, runVars
  <2> QED BY <1>1, <1>2, <2>1
<1>11. CASE PursueOn
  BY <1>2, <1>11 DEF PursueOn, runVars
<1>12. CASE Failing
  BY <1>3, <1>12 DEF Failing, Over
<1>13. CASE SetPursuit
  BY <1>2, <1>13 DEF SetPursuit, runVars, outer
<1>14. CASE Crash
  <2>1. desk' = NoDesk /\ file' \in {file, NoPlan, desk.text} /\ UNCHANGED hand
    BY <1>14 DEF Crash
  <2> QED BY <1>3, <2>1
<1>15. CASE \E id \in Nodes(file), status \in RoadmapStatus : PersonEdits(id, status)
  <2>1. hand' # {} /\ UNCHANGED desk
    BY <1>15 DEF PersonEdits, runVars
  <2> QED BY <2>1 DEF RestInv
<1>16. CASE UNCHANGED planVars
  BY <1>2, <1>16 DEF planVars
<1> QED BY <1>4, <1>5, <1>6, <1>7, <1>8, <1>9, <1>10, <1>11, <1>12, <1>13, <1>14, <1>15, <1>16
        DEF PlanNext, Worker

\* A branch above a node that is not done is not done, and is no leaf.
LEMMA NotDoneAbove ==
  ASSUME NEW plan, IsPlan(plan), ~ build_refuses(plan),
         NEW id \in Nodes(plan), plan[id].status # "Done", NEW b \in ancestors(id)
  PROVE  b \in Nodes(plan) /\ plan[b].status # "Done" /\ ~ is_leaf(plan, b)
<1> DEFINE up(m) == SubSeq(id, 1, Len(id) - m)
           Fine(m) == up(m) \in Nodes(plan) /\ plan[up(m)].status # "Done"
<1>1. id \in Seq(Nat \ {0}) /\ Len(id) \in Nat \ {0} /\ \A x \in Nodes(plan) : x \in Seq(Nat \ {0}) /\ x # <<>>
  BY EmptySeq DEF IsPlan, Nodes, NodeIds
<1>2. PICK k \in 1 .. Len(id) - 1 : b = SubSeq(id, 1, k)
  BY DEF ancestors
<1>3. \A m \in 0 .. Len(id) - 1 : up(m) \in Seq(Nat \ {0}) /\ Len(up(m)) = Len(id) - m
  <2>1. SUFFICES ASSUME NEW m \in 0 .. Len(id) - 1
                 PROVE  up(m) \in Seq(Nat \ {0}) /\ Len(up(m)) = Len(id) - m
    OBVIOUS
  <2>2. Len(id) - m \in 1 .. Len(id)
    BY <1>1
  <2> QED BY <1>1, <2>2
<1>4. ASSUME NEW m \in 0 .. Len(id) - 2 PROVE ~ IsTop(up(m)) /\ parent(up(m)) = up(m + 1)
  <2>1. Len(id) - m \in 2 .. Len(id) /\ Len(id) - (m + 1) = (Len(id) - m) - 1 /\ m \in 0 .. Len(id) - 1
    BY <1>1
  <2>2. Len(up(m)) = Len(id) - m /\ Len(up(m)) # 1
    <3>1. Len(up(m)) = Len(id) - m
      BY <1>3, <2>1
    <3>2. \A n \in 2 .. Len(id) : n # 1
      BY <1>1
    <3> QED BY <2>1, <3>1, <3>2
  <2>3. SubSeq(up(m), 1, (Len(id) - m) - 1) = SubSeq(id, 1, (Len(id) - m) - 1)
    BY <1>1, <2>1
  <2> QED BY <2>1, <2>2, <2>3 DEF IsTop, parent, Front
<1>5. up(0) = id
  BY <1>1
<1> HIDE DEF up
<1>6. ASSUME NEW m \in 0 .. Len(id) - 2, Fine(m)
      PROVE  Fine(m + 1) /\ up(m) \in children(plan, up(m + 1))
  <2>1. ~ IsTop(up(m)) /\ parent(up(m)) = up(m + 1)
    BY <1>4
  <2>2. up(m + 1) \in Nodes(plan)
    BY <1>6, <2>1 DEF build_refuses, Orphaned
  <2>3. up(m) \in children(plan, up(m + 1))
    BY <1>6, <2>1 DEF children
  <2>4. plan[up(m + 1)].status # "Done"
    BY <1>6, <2>2, <2>3 DEF build_refuses, Overclaimed
  <2> QED BY <2>2, <2>3, <2>4
<1> DEFINE Bad == {m \in 0 .. Len(id) - 1 : ~ Fine(m)}
<1>7. Bad = {}
  <2>1. SUFFICES ASSUME Bad # {} PROVE FALSE
    OBVIOUS
  <2>2. Bad \in SUBSET Nat
    OBVIOUS
  <2>3. PICK m \in Bad : \A j \in Bad : m <= j
    <3> HIDE DEF Bad
    <3> QED BY <2>1, <2>2, SmallestExists
  <2>4. m \in 0 .. Len(id) - 1 /\ ~ Fine(m) /\ m # 0
    BY <1>5, <2>3
  <2>5. m - 1 \in 0 .. Len(id) - 2 /\ m - 1 \in 0 .. Len(id) - 1 /\ (m - 1) + 1 = m /\ ~ (m <= m - 1)
    BY <1>1, <2>4
  <2>6. m - 1 \notin Bad
    <3> HIDE DEF Bad
    <3> QED BY <2>3, <2>5
  <2>7. Fine(m - 1)
    BY <2>5, <2>6
  <2> HIDE DEF Fine
  <2> QED BY <1>6, <2>4, <2>5, <2>7
<1>8. Len(id) - k \in 1 .. Len(id) - 1 /\ (Len(id) - k) - 1 \in 0 .. Len(id) - 2
      /\ ((Len(id) - k) - 1) + 1 = Len(id) - k /\ Len(id) - (Len(id) - k) = k
  BY <1>1, <1>2
<1>9. up(Len(id) - k) = b
  BY <1>2, <1>8 DEF up
<1>10. Fine(Len(id) - k) /\ Fine((Len(id) - k) - 1)
  <2>1. \A m \in 0 .. Len(id) - 1 : Fine(m)
    <3> HIDE DEF Fine
    <3> QED BY <1>7
  <2>2. Len(id) - k \in 0 .. Len(id) - 1 /\ (Len(id) - k) - 1 \in 0 .. Len(id) - 1
    BY <1>1, <1>2
  <2> HIDE DEF Fine
  <2> QED BY <2>1, <2>2
<1>11. up((Len(id) - k) - 1) \in children(plan, b)
  BY <1>6, <1>8, <1>9, <1>10
<1> QED BY <1>9, <1>10, <1>11 DEF is_leaf

\* What a stopped node reaches lies within every set that has the node and
\* all that is behind its members.
LEMMA ReachedIsLeast ==
  ASSUME NEW plan, NEW from, NEW U \in SUBSET Nodes(plan), from \in U,
         \A id \in U : Behind(plan, id) \subseteq U
  PROVE  Reached(plan, from) \subseteq U
<1> DEFINE closed == {S \in SUBSET Nodes(plan) : from \in S /\ \A id \in S : Behind(plan, id) \subseteq S}
           I == {x \in Nodes(plan) : \A S \in closed : x \in S}
<1>1. U \in closed
  OBVIOUS
<1>2. \A S \in closed : I \subseteq S
  BY DEF I
<1>3. I \in closed
  <2>1. from \in I
    OBVIOUS
  <2>2. ASSUME NEW id \in I, NEW x \in Behind(plan, id) PROVE x \in I
    <3>1. \A S \in closed : x \in S
      BY <2>2
    <3>2. x \in Nodes(plan)
      BY <1>1, <3>1
    <3> QED BY <3>1, <3>2
  <2> QED BY <2>1, <2>2
<1>4. Reached(plan, from) = CHOOSE S \in closed : \A T \in closed : S \subseteq T
  BY DEF Reached
<1> HIDE DEF closed, I
<1> QED BY <1>1, <1>2, <1>3, <1>4

\* A plan whose begun nodes rest on what is done offers nothing that is stuck
\* behind a red node.
LEMMA StuckIsNotOffered ==
  ASSUME NEW plan, IsPlan(plan), RestsOnDone(plan), NEW red \in SUBSET Nodes(plan),
         \A id \in red : plan[id].status = "Blocked", NEW source \in red
  PROVE  spread(plan, red)[source] \cap ready(PlanOf(plan)) = {}
<1>1. CASE build_refuses(plan)
  <2>1. PlanOf(plan) = NoPlan
    BY <1>1 DEF PlanOf
  <2>2. ready(NoPlan) = {}
    BY NoPlanIsPlan DEF ready, Leaves
  <2> QED BY <2>1, <2>2
<1>2. CASE ~ build_refuses(plan)
  <2> DEFINE U == {x \in Nodes(plan) : x \notin ready(plan) /\ plan[x].status # "Done"}
  <2>1. source \in U
    BY DEF ready
  <2>2. ASSUME NEW id \in U, NEW x \in Behind(plan, id) PROVE x \in U
    <3>1. CASE x \in ancestors(id)
      BY <1>2, <2>2, <3>1, NotDoneAbove DEF ready, Leaves
    <3>2. CASE x \in Nodes(plan) /\ id \in needs_of(plan, x)
      <4>1. id \in Waiting(plan, x)
        BY <2>2, <3>2 DEF Waiting
      <4>2. x \notin ready(plan)
        BY <4>1 DEF ready
      <4>3. plan[x].status = "NotStarted"
        BY <3>2, <4>1 DEF RestsOnDone
      <4> QED BY <3>2, <4>2, <4>3
    <3> QED BY <2>2, <3>1, <3>2 DEF Behind
  <2>3. Reached(plan, source) \subseteq U
    <3> HIDE DEF U
    <3>1. U \in SUBSET Nodes(plan)
      BY DEF U
    <3> QED BY <2>1, <2>2, <3>1, ReachedIsLeast
  <2>4. spread(plan, red)[source] = Reached(plan, source) \ red
    BY DEF spread
  <2>5. PlanOf(plan) = plan
    BY <1>2 DEF PlanOf
  <2> QED BY <2>3, <2>4, <2>5
<1> QED BY <1>1, <1>2

\* What kernel::blockage calls stuck behind a red node, PlanTree::ready never
\* offers, in any plan that was worked by runs alone: the walk that warns the
\* rooms and the query that hands out work read the same plan the same way.
THEOREM StuckIsNeverReady == PlanSpec => []StuckIsNotReady
<1>1. PlanInit => RestInv
  <2>1. SUFFICES ASSUME PlanInit PROVE RestInv
    OBVIOUS
  <2>2. desk = NoDesk /\ file = Roadmap /\ hand = {id \in Nodes(Roadmap) : Roadmap[id].status # "NotStarted"}
    BY <2>1 DEF PlanInit
  <2> QED BY <2>2, NoDeskIs, NoPlanRests DEF RestInv, RestsOnDone
<1>2. PlanInv /\ RestInv => StuckIsNotReady
  <2>1. SUFFICES ASSUME PlanInv, RestInv, hand = {} PROVE StuckIsNotReady
    BY DEF StuckIsNotReady
  <2>2. IsPlan(file) /\ RestsOnDone(file)
    BY <2>1 DEF PlanInv, PlanTypes, RestInv
  <2> DEFINE red == {id \in Nodes(file) : file[id].status = "Blocked"}
  <2>3. ASSUME NEW source \in red PROVE spread(file, red)[source] \cap ready(PlanOf(file)) = {}
    <3>1. red \in SUBSET Nodes(file) /\ \A id \in red : file[id].status = "Blocked"
      OBVIOUS
    <3> HIDE DEF red
    <3> QED BY <2>2, <2>3, <3>1, StuckIsNotOffered
  <2> QED BY <2>3 DEF StuckIsNotReady
<1> QED BY <1>1, <1>2, PlanInitially, PlanStep, RestStep, PTL DEF PlanSpec

-----------------------------------------------------------------------------
(* What is divided, summed and counted. The sum over a finite set is the only *)
(* value that adds up along every way of picking its elements one by one, so  *)
(* it can be split, scaled, compared and sorted into buckets.                 *)

LEMMA Divided ==
    ASSUME NEW N \in Nat, NEW D \in Nat \ {0}
    PROVE  /\ N \div D \in Nat /\ N % D \in 0..D - 1
           /\ N = D * (N \div D) + (N % D)
OBVIOUS

-----------------------------------------------------------------------------
(* Finite sums.                                                              *)

\* What can be added to until it is all of a finite set is all of it.
LEMMA GrowsToAll ==
  ASSUME NEW S, IsFiniteSet(S), NEW F \in SUBSET SUBSET S, {} \in F,
         \A T \in F : \A x \in S \ T : T \cup {x} \in F
  PROVE  S \in F
<1> DEFINE Left == {Cardinality(S \ T) : T \in F}
<1>1. \A T \in F : IsFiniteSet(S \ T) /\ Cardinality(S \ T) \in Nat
  BY FS_Subset, FS_CardinalityType
<1>2. Left \in SUBSET Nat /\ Left # {}
  BY <1>1
<1>3. PICK n \in Left : \A m \in Left : n <= m
  <2> HIDE DEF Left
  <2> QED BY <1>2, SmallestExists
<1>4. PICK T \in F : n = Cardinality(S \ T)
  BY <1>3
<1>5. ASSUME NEW x \in S \ T PROVE FALSE
  <2>1. T \cup {x} \in F /\ S \ (T \cup {x}) = (S \ T) \ {x}
    OBVIOUS
  <2>2. Cardinality(S \ (T \cup {x})) = n - 1
    <3>1. IsFiniteSet(S \ T) /\ x \in S \ T
      BY <1>1, <1>5
    <3>2. Cardinality((S \ T) \ {x}) = Cardinality(S \ T) - 1
      BY <3>1, FS_RemoveElement
    <3> QED BY <1>4, <2>1, <3>2
  <2>3. n - 1 \in Left
    BY <2>1, <2>2
  <2> HIDE DEF Left
  <2> QED BY <1>2, <1>3, <2>3
<1> QED BY <1>4, <1>5

Pick(T) == CHOOSE x \in T : TRUE

SumsTo(it, f, S) ==
  it = [T \in S |-> IF T = {} THEN 0 ELSE f[Pick(T)] + it[T \ {Pick(T)}]]

LEMMA SumIs ==
  ASSUME NEW f, NEW S
  PROVE  SumFunctionOnSet(f, S) = (CHOOSE it : SumsTo(it, f, SUBSET S))[S]
BY DEF SumFunctionOnSet, FoldFunctionOnSet, MapThenFoldSet, SumsTo, Pick

LEMMA PickIs ==
  ASSUME NEW T, T # {}
  PROVE  Pick(T) \in T
BY DEF Pick

LEMMA SumsExist ==
  ASSUME NEW f, NEW S, IsFiniteSet(S)
  PROVE  \E it : SumsTo(it, f, SUBSET S)
<1> DEFINE Upto(n) == {T \in SUBSET S : Cardinality(T) <= n}
           Bad == {n \in Nat : ~ \E it : SumsTo(it, f, Upto(n))}
<1>0. \A T \in SUBSET S : /\ IsFiniteSet(T) /\ Cardinality(T) \in Nat
                          /\ Cardinality(T) <= Cardinality(S) /\ (Cardinality(T) = 0 <=> T = {})
  BY FS_Subset, FS_CardinalityType, FS_EmptySet
<1>1. ASSUME Bad # {} PROVE FALSE
  <2>1. PICK n \in Bad : \A m \in Bad : n <= m
    <3>1. Bad \in SUBSET Nat
      OBVIOUS
    <3> HIDE DEF Bad
    <3> QED BY <1>1, <3>1, SmallestExists
  <2>2. CASE n = 0
    <3>1. \A T \in Upto(0) : T = {}
      BY <1>0
    <3>2. SumsTo([T \in Upto(0) |-> 0], f, Upto(0))
      BY <3>1 DEF SumsTo
    <3> QED BY <2>1, <2>2, <3>2
  <2>3. CASE n # 0
    <3>1. n - 1 \in Nat /\ n - 1 \notin Bad
      <4>1. n \in Nat
        BY <2>1
      <4> HIDE DEF Bad
      <4> QED BY <2>1, <2>3, <4>1
    <3>2. PICK g : SumsTo(g, f, Upto(n - 1))
      BY <3>1
    <3> DEFINE h == [T \in Upto(n) |-> IF T \in Upto(n - 1) THEN g[T] ELSE f[Pick(T)] + g[T \ {Pick(T)}]]
    <3>3. \A T \in Upto(n - 1) : g[T] = IF T = {} THEN 0 ELSE f[Pick(T)] + g[T \ {Pick(T)}]
      BY <3>2 DEF SumsTo
    <3>4. \A T \in Upto(n) : T # {} => T \ {Pick(T)} \in Upto(n - 1)
      <4> TAKE T \in Upto(n)
      <4>1. T # {} => Cardinality(T \ {Pick(T)}) = Cardinality(T) - 1
        BY <1>0, PickIs, FS_RemoveElement
      <4> QED BY <1>0, <3>1, <4>1
    <3>5. {} \in Upto(n - 1)
      BY <1>0, <3>1
    <3>6. \A T \in Upto(n - 1) : T \in Upto(n)
      BY <1>0, <3>1
    <3>7. \A T \in Upto(n) : h[T] = IF T = {} THEN 0 ELSE f[Pick(T)] + h[T \ {Pick(T)}]
      <4> TAKE T \in Upto(n)
      <4>1. T # {} => h[T \ {Pick(T)}] = g[T \ {Pick(T)}]
        BY <3>4, <3>6
      <4>2. h[T] = IF T \in Upto(n - 1) THEN g[T] ELSE f[Pick(T)] + g[T \ {Pick(T)}]
        OBVIOUS
      <4> HIDE DEF h, Upto
      <4> QED BY <3>3, <3>5, <4>1, <4>2
    <3>8. h = [T \in Upto(n) |-> h[T]]
      OBVIOUS
    <3> HIDE DEF h, Upto
    <3>9. SumsTo(h, f, Upto(n))
      BY <3>7, <3>8 DEF SumsTo
    <3> QED BY <2>1, <3>9
  <2> QED BY <2>2, <2>3
<1>2. Cardinality(S) \in Nat /\ Upto(Cardinality(S)) = SUBSET S
  BY <1>0
<1>3. \E it : SumsTo(it, f, Upto(Cardinality(S)))
  BY <1>1, <1>2
<1> QED BY <1>2, <1>3

LEMMA SumsAgree ==
  ASSUME NEW f, NEW S, NEW R, IsFiniteSet(S), R \subseteq S, NEW g, NEW h,
         SumsTo(g, f, SUBSET S), SumsTo(h, f, SUBSET R)
  PROVE  g[R] = h[R]
<1> DEFINE Bad == {n \in Nat : \E T \in SUBSET R : Cardinality(T) = n /\ g[T] # h[T]}
<1>0. \A T \in SUBSET R : IsFiniteSet(T) /\ Cardinality(T) \in Nat
  <2>1. \A T \in SUBSET R : T \in SUBSET S
    OBVIOUS
  <2> QED BY <2>1, FS_Subset, FS_CardinalityType
<1>1. ASSUME Bad # {} PROVE FALSE
  <2>1. PICK n \in Bad : \A m \in Bad : n <= m
    <3>1. Bad \in SUBSET Nat
      OBVIOUS
    <3> HIDE DEF Bad
    <3> QED BY <1>1, <3>1, SmallestExists
  <2>2. PICK T \in SUBSET R : Cardinality(T) = n /\ g[T] # h[T]
    BY <2>1
  <2>3. /\ g[T] = IF T = {} THEN 0 ELSE f[Pick(T)] + g[T \ {Pick(T)}]
        /\ h[T] = IF T = {} THEN 0 ELSE f[Pick(T)] + h[T \ {Pick(T)}]
    BY DEF SumsTo
  <2>4. T # {} /\ T \ {Pick(T)} \in SUBSET R /\ g[T \ {Pick(T)}] # h[T \ {Pick(T)}]
    BY <2>2, <2>3
  <2>5. Cardinality(T \ {Pick(T)}) = n - 1 /\ Cardinality(T \ {Pick(T)}) \in Nat
    BY <1>0, <2>2, <2>4, PickIs, FS_RemoveElement
  <2>6. n - 1 \in Bad
    BY <2>4, <2>5
  <2> QED BY <2>1, <2>6
<1> QED BY <1>0, <1>1

\* The two equations of a sum.
LEMMA SumUnfolds ==
  ASSUME NEW f, NEW S, IsFiniteSet(S)
  PROVE  /\ SumFunctionOnSet(f, {}) = 0
         /\ S # {} => SumFunctionOnSet(f, S) = f[Pick(S)] + SumFunctionOnSet(f, S \ {Pick(S)})
<1>1. ASSUME NEW R \in SUBSET S
      PROVE  \E it : SumsTo(it, f, SUBSET R) /\ SumFunctionOnSet(f, R) = it[R]
  <2>1. IsFiniteSet(R)
    BY FS_Subset
  <2>2. \E it : SumsTo(it, f, SUBSET R)
    BY <2>1, SumsExist
  <2> QED BY <2>2, SumIs
<1>2. PICK it : SumsTo(it, f, SUBSET S) /\ SumFunctionOnSet(f, S) = it[S]
  BY <1>1
<1>3. \A R \in SUBSET S : SumFunctionOnSet(f, R) = it[R]
  <2> TAKE R \in SUBSET S
  <2>1. PICK h : SumsTo(h, f, SUBSET R) /\ SumFunctionOnSet(f, R) = h[R]
    BY <1>1
  <2>2. SumsTo(it, f, SUBSET S) /\ SumsTo(h, f, SUBSET R)
    BY <1>2, <2>1
  <2>3. R \subseteq S
    OBVIOUS
  <2>4. it[R] = h[R]
    BY <2>2, <2>3, SumsAgree
  <2> QED BY <2>1, <2>4
<1>4. \A R \in SUBSET S : it[R] = IF R = {} THEN 0 ELSE f[Pick(R)] + it[R \ {Pick(R)}]
  BY <1>2 DEF SumsTo
<1>5. it[{}] = 0 /\ (S # {} => it[S] = f[Pick(S)] + it[S \ {Pick(S)}])
  BY <1>4
<1> QED BY <1>3, <1>5

LEMMA SumType ==
  ASSUME NEW f, NEW S, IsFiniteSet(S), \A x \in S : f[x] \in Int
  PROVE  \A T \in SUBSET S : SumFunctionOnSet(f, T) \in Int
<1> DEFINE Bad == {n \in Nat : \E T \in SUBSET S : Cardinality(T) = n /\ SumFunctionOnSet(f, T) \notin Int}
<1>0. \A T \in SUBSET S : IsFiniteSet(T) /\ Cardinality(T) \in Nat
  BY FS_Subset, FS_CardinalityType
<1>1. ASSUME Bad # {} PROVE FALSE
  <2>1. PICK n \in Bad : \A m \in Bad : n <= m
    <3>1. Bad \in SUBSET Nat
      OBVIOUS
    <3> HIDE DEF Bad
    <3> QED BY <1>1, <3>1, SmallestExists
  <2>2. PICK T \in SUBSET S : Cardinality(T) = n /\ SumFunctionOnSet(f, T) \notin Int
    BY <2>1
  <2> DEFINE U == T \ {Pick(T)}
  <2>3. T # {} /\ SumFunctionOnSet(f, T) = f[Pick(T)] + SumFunctionOnSet(f, U)
    BY <1>0, <2>2, SumUnfolds
  <2>4. f[Pick(T)] \in Int
    BY <2>3, PickIs
  <2>5. SumFunctionOnSet(f, U) \notin Int
    BY <2>2, <2>3, <2>4
  <2>6. Cardinality(U) = n - 1 /\ Cardinality(U) \in Nat /\ U \in SUBSET S
    BY <1>0, <2>2, <2>3, PickIs, FS_RemoveElement
  <2> HIDE DEF U
  <2>7. n - 1 \in Bad
    BY <2>5, <2>6
  <2> QED BY <2>1, <2>7
<1> QED BY <1>0, <1>1

\* One more to add, whichever it is.
LEMMA SumAdds ==
  ASSUME NEW f, NEW S, IsFiniteSet(S), \A x \in S : f[x] \in Int
  PROVE  \A T \in SUBSET S : \A x \in S \ T :
           SumFunctionOnSet(f, T \cup {x}) = SumFunctionOnSet(f, T) + f[x]
<1> DEFINE Off(T, x) == SumFunctionOnSet(f, T \cup {x}) # SumFunctionOnSet(f, T) + f[x]
           Bad == {n \in Nat : \E T \in SUBSET S : Cardinality(T) = n /\ \E x \in S \ T : Off(T, x)}
<1>0. \A T \in SUBSET S : IsFiniteSet(T) /\ Cardinality(T) \in Nat /\ SumFunctionOnSet(f, T) \in Int
  BY FS_Subset, FS_CardinalityType, SumType
<1>1. ASSUME Bad # {} PROVE FALSE
  <2>1. PICK n \in Bad : \A m \in Bad : n <= m
    <3>1. Bad \in SUBSET Nat
      OBVIOUS
    <3> HIDE DEF Bad
    <3> QED BY <1>1, <3>1, SmallestExists
  <2>2a. PICK T \in SUBSET S : Cardinality(T) = n /\ \E x \in S \ T : Off(T, x)
    BY <2>1
  <2>2b. PICK x \in S \ T : Off(T, x)
    BY <2>2a
  <2>2. T \in SUBSET S /\ x \in S \ T /\ Cardinality(T) = n /\ Off(T, x)
    BY <2>2a, <2>2b
  <2> DEFINE V == T \cup {x}
             y == Pick(V)
             U == T \ {y}
  <2>3. V \in SUBSET S /\ IsFiniteSet(V) /\ y \in V
    BY <1>0, <2>2, PickIs
  <2>4. SumFunctionOnSet(f, V) = f[y] + SumFunctionOnSet(f, V \ {y})
    BY <2>3, SumUnfolds
  <2> HIDE DEF y
  <2>5. CASE y = x
    <3>1. V \ {y} = T
      BY <2>2, <2>5
    <3>2. f[x] \in Int /\ SumFunctionOnSet(f, T) \in Int
      BY <1>0, <2>2
    <3>3. SumFunctionOnSet(f, V) = f[x] + SumFunctionOnSet(f, T)
      BY <2>4, <2>5, <3>1
    <3> QED BY <2>2, <3>2, <3>3
  <2>6. CASE y # x
    <3>1. y \in T /\ V \ {y} = U \cup {x} /\ T = U \cup {y} /\ U \in SUBSET S /\ y \in S \ U /\ x \in S \ U
      BY <2>2, <2>3, <2>6
    <3>2. Cardinality(U) = n - 1 /\ Cardinality(U) \in Nat
      BY <1>0, <2>2, <3>1, FS_RemoveElement
    <3>3. n - 1 \notin Bad
      BY <2>1, <3>2
    <3>4. ~Off(U, x) /\ ~Off(U, y)
      <4> HIDE DEF Off, U, V
      <4> QED BY <3>1, <3>2, <3>3
    <3>5. SumFunctionOnSet(f, V) = f[y] + (SumFunctionOnSet(f, U) + f[x])
      BY <2>4, <3>1, <3>4
    <3>6. SumFunctionOnSet(f, T) = SumFunctionOnSet(f, U) + f[y]
      BY <3>1, <3>4
    <3>7. SumFunctionOnSet(f, U) \in Int /\ f[x] \in Int /\ f[y] \in Int
      BY <1>0, <3>1
    <3> HIDE DEF U
    <3>8. SumFunctionOnSet(f, V) = SumFunctionOnSet(f, T) + f[x]
      BY <3>5, <3>6, <3>7
    <3> QED BY <2>2, <3>8
  <2> QED BY <2>5, <2>6
<1> QED BY <1>0, <1>1

LEMMA SumPlus ==
  ASSUME NEW f, NEW g, NEW h, NEW S, IsFiniteSet(S),
         \A x \in S : f[x] \in Int /\ g[x] \in Int /\ h[x] = f[x] + g[x]
  PROVE  SumFunctionOnSet(h, S) = SumFunctionOnSet(f, S) + SumFunctionOnSet(g, S)
<1> DEFINE F == {T \in SUBSET S : SumFunctionOnSet(h, T) = SumFunctionOnSet(f, T) + SumFunctionOnSet(g, T)}
<1>0. \A x \in S : f[x] \in Int /\ g[x] \in Int /\ h[x] \in Int
  OBVIOUS
<1>1. /\ \A T \in SUBSET S : \A x \in S \ T : SumFunctionOnSet(f, T \cup {x}) = SumFunctionOnSet(f, T) + f[x]
      /\ \A T \in SUBSET S : \A x \in S \ T : SumFunctionOnSet(g, T \cup {x}) = SumFunctionOnSet(g, T) + g[x]
      /\ \A T \in SUBSET S : \A x \in S \ T : SumFunctionOnSet(h, T \cup {x}) = SumFunctionOnSet(h, T) + h[x]
  BY <1>0, SumAdds
<1>2. SumFunctionOnSet(f, {}) = 0 /\ SumFunctionOnSet(g, {}) = 0 /\ SumFunctionOnSet(h, {}) = 0
  BY SumUnfolds
<1>3. {} \in F
  BY <1>2
<1>4. \A T \in SUBSET S : SumFunctionOnSet(f, T) \in Int /\ SumFunctionOnSet(g, T) \in Int
  BY <1>0, SumType
<1>5. ASSUME NEW T \in F, NEW x \in S \ T PROVE T \cup {x} \in F
  <2>1. /\ SumFunctionOnSet(f, T \cup {x}) = SumFunctionOnSet(f, T) + f[x]
        /\ SumFunctionOnSet(g, T \cup {x}) = SumFunctionOnSet(g, T) + g[x]
        /\ SumFunctionOnSet(h, T \cup {x}) = SumFunctionOnSet(h, T) + h[x]
    BY <1>1
  <2>2. SumFunctionOnSet(h, T) = SumFunctionOnSet(f, T) + SumFunctionOnSet(g, T)
    OBVIOUS
  <2>3. /\ SumFunctionOnSet(f, T) \in Int /\ SumFunctionOnSet(g, T) \in Int
        /\ f[x] \in Int /\ g[x] \in Int /\ h[x] = f[x] + g[x]
    BY <1>4
  <2>4. SumFunctionOnSet(h, T \cup {x}) = SumFunctionOnSet(f, T \cup {x}) + SumFunctionOnSet(g, T \cup {x})
    BY <2>1, <2>2, <2>3
  <2> QED BY <2>4
<1>6. F \in SUBSET SUBSET S
  OBVIOUS
<1> HIDE DEF F
<1>7. S \in F
  BY <1>3, <1>5, <1>6, GrowsToAll
<1> QED BY <1>7 DEF F

LEMMA SumTimes ==
  ASSUME NEW f, NEW h, NEW k \in Int, NEW S, IsFiniteSet(S),
         \A x \in S : f[x] \in Int /\ h[x] = k * f[x]
  PROVE  SumFunctionOnSet(h, S) = k * SumFunctionOnSet(f, S)
<1> DEFINE F == {T \in SUBSET S : SumFunctionOnSet(h, T) = k * SumFunctionOnSet(f, T)}
<1>0. \A x \in S : f[x] \in Int /\ h[x] \in Int
  OBVIOUS
<1>1. /\ \A T \in SUBSET S : \A x \in S \ T : SumFunctionOnSet(f, T \cup {x}) = SumFunctionOnSet(f, T) + f[x]
      /\ \A T \in SUBSET S : \A x \in S \ T : SumFunctionOnSet(h, T \cup {x}) = SumFunctionOnSet(h, T) + h[x]
  BY <1>0, SumAdds
<1>2. SumFunctionOnSet(f, {}) = 0 /\ SumFunctionOnSet(h, {}) = 0
  BY SumUnfolds
<1>3. {} \in F
  BY <1>2
<1>4. \A T \in SUBSET S : SumFunctionOnSet(f, T) \in Int
  BY <1>0, SumType
<1>5. ASSUME NEW T \in F, NEW x \in S \ T PROVE T \cup {x} \in F
  <2>1. SumFunctionOnSet(h, T \cup {x}) = k * SumFunctionOnSet(f, T) + k * f[x]
    BY <1>1
  <2>2. SumFunctionOnSet(f, T \cup {x}) = SumFunctionOnSet(f, T) + f[x]
    BY <1>1
  <2> DEFINE a == SumFunctionOnSet(f, T)
             b == f[x]
  <2>3. a \in Int /\ b \in Int
    BY <1>0, <1>4
  <2> HIDE DEF a, b
  <2>4. k * (a + b) = k * a + k * b
    BY <2>3
  <2> QED BY <2>1, <2>2, <2>4 DEF a, b
<1>6. F \in SUBSET SUBSET S
  OBVIOUS
<1> HIDE DEF F
<1>7. S \in F
  BY <1>3, <1>5, <1>6, GrowsToAll
<1> QED BY <1>7 DEF F

LEMMA SumAtMost ==
  ASSUME NEW f, NEW g, NEW S, IsFiniteSet(S),
         \A x \in S : f[x] \in Int /\ g[x] \in Int /\ f[x] <= g[x]
  PROVE  SumFunctionOnSet(f, S) <= SumFunctionOnSet(g, S)
<1> DEFINE F == {T \in SUBSET S : SumFunctionOnSet(f, T) <= SumFunctionOnSet(g, T)}
<1>1. /\ \A T \in SUBSET S : \A x \in S \ T : SumFunctionOnSet(f, T \cup {x}) = SumFunctionOnSet(f, T) + f[x]
      /\ \A T \in SUBSET S : \A x \in S \ T : SumFunctionOnSet(g, T \cup {x}) = SumFunctionOnSet(g, T) + g[x]
  BY SumAdds
<1>2. SumFunctionOnSet(f, {}) = 0 /\ SumFunctionOnSet(g, {}) = 0
  BY SumUnfolds
<1>3. {} \in F
  BY <1>2
<1>4. \A T \in SUBSET S : SumFunctionOnSet(f, T) \in Int /\ SumFunctionOnSet(g, T) \in Int
  BY SumType
<1>5. ASSUME NEW T \in F, NEW x \in S \ T PROVE T \cup {x} \in F
  <2>1. /\ SumFunctionOnSet(f, T \cup {x}) = SumFunctionOnSet(f, T) + f[x]
        /\ SumFunctionOnSet(g, T \cup {x}) = SumFunctionOnSet(g, T) + g[x]
    BY <1>1
  <2>2. SumFunctionOnSet(f, T) <= SumFunctionOnSet(g, T)
    OBVIOUS
  <2>3. /\ SumFunctionOnSet(f, T) \in Int /\ SumFunctionOnSet(g, T) \in Int
        /\ f[x] \in Int /\ g[x] \in Int /\ f[x] <= g[x]
    BY <1>4
  <2>4. SumFunctionOnSet(f, T \cup {x}) <= SumFunctionOnSet(g, T \cup {x})
    BY <2>1, <2>2, <2>3
  <2> QED BY <2>4
<1>6. F \in SUBSET SUBSET S
  OBVIOUS
<1> HIDE DEF F
<1>7. S \in F
  BY <1>3, <1>5, <1>6, GrowsToAll
<1> QED BY <1>7 DEF F

\* What is counted is summed as ones.
LEMMA SumCounts ==
  ASSUME NEW f, NEW S, IsFiniteSet(S), \A x \in S : f[x] \in {0, 1}
  PROVE  SumFunctionOnSet(f, S) = Cardinality({x \in S : f[x] = 1})
<1> DEFINE Ones(T) == {x \in T : f[x] = 1}
           F == {T \in SUBSET S : SumFunctionOnSet(f, T) = Cardinality(Ones(T))}
<1>0. \A x \in S : f[x] \in Int
  OBVIOUS
<1>1. \A T \in SUBSET S : \A x \in S \ T : SumFunctionOnSet(f, T \cup {x}) = SumFunctionOnSet(f, T) + f[x]
  BY <1>0, SumAdds
<1>2. SumFunctionOnSet(f, {}) = 0 /\ Cardinality(Ones({})) = 0
  <2>1. Ones({}) = {}
    OBVIOUS
  <2> QED BY <2>1, SumUnfolds, FS_EmptySet
<1>3. {} \in F
  BY <1>2
<1>4. ASSUME NEW T \in F, NEW x \in S \ T PROVE T \cup {x} \in F
  <2>1. SumFunctionOnSet(f, T \cup {x}) = Cardinality(Ones(T)) + f[x]
    BY <1>1
  <2>2. IsFiniteSet(Ones(T)) /\ Cardinality(Ones(T)) \in Nat /\ x \notin Ones(T)
    BY FS_Subset, FS_CardinalityType
  <2>3. CASE f[x] = 1
    <3>1. Ones(T \cup {x}) = Ones(T) \cup {x}
      BY <2>3
    <3>2. Cardinality(Ones(T \cup {x})) = Cardinality(Ones(T)) + 1
      BY <2>2, <3>1, FS_AddElement
    <3> QED BY <2>1, <2>3, <3>2
  <2>4. CASE f[x] = 0
    <3>1. Ones(T \cup {x}) = Ones(T)
      BY <2>4
    <3>2. Cardinality(Ones(T)) + f[x] = Cardinality(Ones(T))
      <4> HIDE DEF Ones
      <4> QED BY <2>2, <2>4
    <3>3. SumFunctionOnSet(f, T \cup {x}) = Cardinality(Ones(T \cup {x}))
      <4> HIDE DEF Ones
      <4> QED BY <2>1, <3>1, <3>2
    <3> QED BY <3>3
  <2> QED BY <2>3, <2>4
<1>6. F \in SUBSET SUBSET S
  OBVIOUS
<1> HIDE DEF F
<1>7. S \in F
  BY <1>3, <1>4, <1>6, GrowsToAll
<1> QED BY <1>7 DEF F

\* Nothing negative: a sum is no less than what it is of.
LEMMA SumNat ==
  ASSUME NEW f, NEW S, IsFiniteSet(S), \A x \in S : f[x] \in Nat
  PROVE  SumFunctionOnSet(f, S) \in Nat /\ \A x \in S : f[x] <= SumFunctionOnSet(f, S)
<1> DEFINE F == {T \in SUBSET S : SumFunctionOnSet(f, T) \in Nat /\ \A x \in T : f[x] <= SumFunctionOnSet(f, T)}
<1>0. \A x \in S : f[x] \in Int
  OBVIOUS
<1>1. \A T \in SUBSET S : \A x \in S \ T : SumFunctionOnSet(f, T \cup {x}) = SumFunctionOnSet(f, T) + f[x]
  BY <1>0, SumAdds
<1>2. SumFunctionOnSet(f, {}) = 0
  BY SumUnfolds
<1>3. {} \in F
  BY <1>2
<1>4. ASSUME NEW T \in F, NEW x \in S \ T PROVE T \cup {x} \in F
  <2> DEFINE a == SumFunctionOnSet(f, T)
  <2>1. SumFunctionOnSet(f, T \cup {x}) = a + f[x] /\ a \in Nat /\ \A y \in T : f[y] <= a
    BY <1>1
  <2> HIDE DEF a
  <2>2. \A y \in T \cup {x} : f[y] <= a + f[x]
    <3> TAKE y \in T \cup {x}
    <3>1. f[y] \in Nat /\ f[x] \in Nat
      OBVIOUS
    <3> QED BY <2>1, <3>1
  <2> QED BY <2>1, <2>2
<1>6. F \in SUBSET SUBSET S
  OBVIOUS
<1> HIDE DEF F
<1>7. S \in F
  BY <1>3, <1>4, <1>6, GrowsToAll
<1> QED BY <1>7 DEF F

\* Two sets without a member in common.
LEMMA SumUnion ==
  ASSUME NEW f, NEW S, IsFiniteSet(S), \A x \in S : f[x] \in Int,
         NEW A, NEW B, A \subseteq S, B \subseteq S, A \cap B = {}
  PROVE  SumFunctionOnSet(f, A \cup B) = SumFunctionOnSet(f, A) + SumFunctionOnSet(f, B)
<1> DEFINE F == {T \in SUBSET B : SumFunctionOnSet(f, A \cup T) = SumFunctionOnSet(f, A) + SumFunctionOnSet(f, T)}
<1>1. \A T \in SUBSET S : \A x \in S \ T : SumFunctionOnSet(f, T \cup {x}) = SumFunctionOnSet(f, T) + f[x]
  BY SumAdds
<1>2. \A T \in SUBSET S : SumFunctionOnSet(f, T) \in Int
  BY SumType
<1>3. {} \in F
  <2>1. SumFunctionOnSet(f, {}) = 0 /\ A \cup {} = A /\ SumFunctionOnSet(f, A) \in Int
    BY <1>2, SumUnfolds
  <2> QED BY <2>1
<1>4. ASSUME NEW T \in F, NEW x \in B \ T PROVE T \cup {x} \in F
  <2>1. /\ A \cup T \in SUBSET S /\ x \in S \ (A \cup T) /\ T \in SUBSET S /\ x \in S \ T
        /\ A \cup (T \cup {x}) = (A \cup T) \cup {x}
    OBVIOUS
  <2>2. SumFunctionOnSet(f, A \cup (T \cup {x})) = SumFunctionOnSet(f, A \cup T) + f[x]
    BY <1>1, <2>1
  <2>3. SumFunctionOnSet(f, T \cup {x}) = SumFunctionOnSet(f, T) + f[x]
    BY <1>1, <2>1
  <2>4. SumFunctionOnSet(f, A \cup T) = SumFunctionOnSet(f, A) + SumFunctionOnSet(f, T)
    OBVIOUS
  <2>5. SumFunctionOnSet(f, A) \in Int /\ SumFunctionOnSet(f, T) \in Int /\ f[x] \in Int
    BY <1>2, <2>1
  <2>6. SumFunctionOnSet(f, A \cup (T \cup {x})) = SumFunctionOnSet(f, A) + SumFunctionOnSet(f, T \cup {x})
    BY <2>2, <2>3, <2>4, <2>5
  <2> QED BY <2>1, <2>6
<1>6. F \in SUBSET SUBSET B /\ IsFiniteSet(B)
  BY FS_Subset
<1> HIDE DEF F
<1>7. B \in F
  BY <1>3, <1>4, <1>6, GrowsToAll
<1> QED BY <1>7 DEF F

\* What is summed bucket by bucket is summed.
Bucket(key, S, b) == {x \in S : key[x] = b}

LEMMA SumByBucket ==
  ASSUME NEW f, NEW S, IsFiniteSet(S), \A x \in S : f[x] \in Int,
         NEW B, IsFiniteSet(B), NEW key, \A x \in S : key[x] \in B,
         NEW g, \A b \in B : g[b] = SumFunctionOnSet(f, Bucket(key, S, b))
  PROVE  SumFunctionOnSet(g, B) = SumFunctionOnSet(f, S)
<1> DEFINE In(C) == {x \in S : key[x] \in C}
           F == {C \in SUBSET B : SumFunctionOnSet(g, C) = SumFunctionOnSet(f, In(C))}
<1>1. \A T \in SUBSET S : SumFunctionOnSet(f, T) \in Int
  BY SumType
<1>2. \A b \in B : g[b] \in Int
  <2> TAKE b \in B
  <2>1. Bucket(key, S, b) \in SUBSET S
    BY DEF Bucket
  <2> QED BY <1>1, <2>1
<1>3. {} \in F
  <2>1. In({}) = {}
    OBVIOUS
  <2> QED BY <2>1, SumUnfolds
<1>4. ASSUME NEW C \in F, NEW b \in B \ C PROVE C \cup {b} \in F
  <2> DEFINE X == In(C)
             Y == Bucket(key, S, b)
  <2>1. X \in SUBSET S /\ Y \in SUBSET S /\ X \cap Y = {} /\ In(C \cup {b}) = X \cup Y
    BY DEF Bucket
  <2>2. SumFunctionOnSet(f, X) = SumFunctionOnSet(g, C) /\ SumFunctionOnSet(f, Y) = g[b]
    OBVIOUS
  <2>3. SumFunctionOnSet(g, C \cup {b}) = SumFunctionOnSet(g, C) + g[b]
    BY <1>2, SumAdds
  <2> HIDE DEF X, Y, In
  <2>4. SumFunctionOnSet(f, X \cup Y) = SumFunctionOnSet(f, X) + SumFunctionOnSet(f, Y)
    BY <2>1, SumUnion
  <2> QED BY <2>1, <2>2, <2>3, <2>4
<1>6. F \in SUBSET SUBSET B
  OBVIOUS
<1> HIDE DEF F
<1>7. B \in F
  BY <1>3, <1>4, <1>6, GrowsToAll
<1>8. In(B) = S
  OBVIOUS
<1> QED BY <1>7, <1>8 DEF F

-----------------------------------------------------------------------------
(* Places in an order. *)

\* What stands before an element, and what has one of the first k places.
Earlier(R, S, x) == {y \in S : <<y, x>> \in R}
Placed(rank, S, k) == {x \in S : rank[x] < k}

\* In a finite set in order, how many stand before an element is its place:
\* the places are 0, 1 and so on without a gap, and rise with the order.
LEMMA RankIs ==
  ASSUME NEW S, IsFiniteSet(S), NEW R,
         \A x \in S : <<x, x>> \notin R,
         \A x, y, z \in S : <<x, y>> \in R /\ <<y, z>> \in R => <<x, z>> \in R,
         \A x, y \in S : x # y => <<x, y>> \in R \/ <<y, x>> \in R,
         NEW rank, \A x \in S : rank[x] = Cardinality(Earlier(R, S, x))
  PROVE  /\ Cardinality(S) \in Nat
         /\ \A x \in S : rank[x] \in 0..Cardinality(S) - 1
         /\ \A x, y \in S : <<x, y>> \in R => rank[x] < rank[y]
         /\ \A x, y \in S : rank[x] = rank[y] => x = y
         /\ \A k \in 0..Cardinality(S) - 1 : \E x \in S : rank[x] = k
         /\ \A k \in 0..Cardinality(S) : Cardinality(Placed(rank, S, k)) = k
<1> DEFINE Below(x) == {y \in S : <<y, x>> \in R}
           n == Cardinality(S)
<1>0. n \in Nat
  BY FS_CardinalityType
<1>1. \A T \in SUBSET S : IsFiniteSet(T) /\ Cardinality(T) \in Nat /\ Cardinality(T) <= n
  BY FS_Subset, FS_CardinalityType
<1>2. \A T, U \in SUBSET S : T \subseteq U => Cardinality(T) <= Cardinality(U)
  <2> TAKE T, U \in SUBSET S
  <2> HAVE T \subseteq U
  <2>1. IsFiniteSet(U) /\ T \in SUBSET U
    BY <1>1
  <2> QED BY <2>1, FS_Subset
<1>3. \A x \in S : Below(x) \cup {x} \in SUBSET S /\ Cardinality(Below(x) \cup {x}) = rank[x] + 1
  <2> TAKE x \in S
  <2>1. IsFiniteSet(Below(x)) /\ x \notin Below(x) /\ rank[x] = Cardinality(Below(x))
    BY <1>1 DEF Earlier
  <2>2. Cardinality(Below(x) \cup {x}) = Cardinality(Below(x)) + 1
    <3> HIDE DEF Below
    <3> QED BY <2>1, FS_AddElement
  <2> QED BY <2>1, <2>2
<1>4. \A x \in S : rank[x] \in Nat /\ Below(x) \in SUBSET S /\ rank[x] = Cardinality(Below(x))
  <2> TAKE x \in S
  <2>1. Below(x) \in SUBSET S
    OBVIOUS
  <2>2. rank[x] = Cardinality(Below(x))
    BY DEF Earlier
  <2> HIDE DEF Below
  <2> QED BY <2>1, <2>2, <1>1
<1>5. \A x \in S : rank[x] \in 0..n - 1
  <2> TAKE x \in S
  <2> DEFINE U == Below(x) \cup {x}
  <2>0. U \in SUBSET S /\ Cardinality(U) = rank[x] + 1 /\ rank[x] \in Nat
    BY <1>3, <1>4
  <2>1. rank[x] + 1 <= n /\ rank[x] \in Nat
    <3> HIDE DEF U
    <3>1. Cardinality(U) <= n
      BY <1>1, <2>0
    <3> QED BY <2>0, <3>1
  <2> QED BY <1>0, <2>1
<1>6. \A x, y \in S : <<x, y>> \in R => rank[x] < rank[y]
  <2> TAKE x, y \in S
  <2> HAVE <<x, y>> \in R
  <2> DEFINE U == Below(x) \cup {x}
             V == Below(y)
  <2>0. /\ U \in SUBSET S /\ Cardinality(U) = rank[x] + 1 /\ rank[x] \in Nat
        /\ V \in SUBSET S /\ Cardinality(V) = rank[y] /\ rank[y] \in Nat
    BY <1>3, <1>4
  <2>1. U \subseteq V
    OBVIOUS
  <2>2. rank[x] + 1 <= rank[y] /\ rank[x] \in Nat /\ rank[y] \in Nat
    <3> HIDE DEF U, V
    <3>1. Cardinality(U) <= Cardinality(V)
      BY <1>2, <2>0, <2>1
    <3> QED BY <2>0, <3>1
  <2> QED BY <2>2
<1>7. \A x, y \in S : rank[x] = rank[y] => x = y
  <2> TAKE x, y \in S
  <2>1. rank[x] \in Nat /\ rank[y] \in Nat
    BY <1>4
  <2>2. x # y => rank[x] < rank[y] \/ rank[y] < rank[x]
    BY <1>6
  <2> QED BY <2>1, <2>2
<1> DEFINE f == [x \in S |-> rank[x]]
<1>8. f \in Bijection(S, 0..n - 1)
  <2>1. f \in [S -> 0..n - 1]
    BY <1>5
  <2>2. f \in Injection(S, 0..n - 1)
    BY <1>7, <2>1 DEF Injection, IsInjective
  <2>3. IsFiniteSet(0..n - 1) /\ Cardinality(0..n - 1) = n
    <3> HIDE DEF n
    <3>1. 0 \in Int /\ n - 1 \in Int /\ n \in Nat
      BY <1>0
    <3>2. /\ IsFiniteSet(0..n - 1)
          /\ Cardinality(0..n - 1) = IF 0 > n - 1 THEN 0 ELSE n - 1 - 0 + 1
      BY <3>1, FS_Interval
    <3> QED BY <3>1, <3>2
  <2> HIDE DEF f
  <2>4. f \in Surjection(S, 0..n - 1)
    BY <2>2, <2>3, FS_Injection
  <2> QED BY <2>2, <2>4 DEF Bijection
<1>9. \A k \in 0..n - 1 : \E x \in S : rank[x] = k
  <2>1. \A k \in 0..n - 1 : \E x \in S : f[x] = k
    <3> HIDE DEF f
    <3> QED BY <1>8 DEF Bijection, Surjection
  <2> QED BY <2>1
<1>10. ASSUME NEW k \in 0..n PROVE Cardinality(Placed(rank, S, k)) = k
  <2> DEFINE T == {x \in S : rank[x] < k}
             g == [x \in T |-> rank[x]]
  <2>1. g \in [T -> 0..k - 1]
    <3>1. \A x \in T : rank[x] \in Nat /\ rank[x] < k
      BY <1>4
    <3>2. \A x \in T : rank[x] \in 0..k - 1
      BY <1>0, <3>1
    <3> QED BY <3>2
  <2>2. g \in Injection(T, 0..k - 1)
    BY <1>7, <2>1 DEF Injection, IsInjective
  <2>3. \A j \in 0..k - 1 : \E x \in T : g[x] = j
    <3> TAKE j \in 0..k - 1
    <3>1. j \in 0..n - 1 /\ j < k
      BY <1>0
    <3>2. PICK x \in S : rank[x] = j
      BY <1>9, <3>1
    <3>3. x \in T /\ g[x] = j
      BY <3>1, <3>2
    <3> QED BY <3>3
  <2> HIDE DEF g
  <2>4. g \in Surjection(T, 0..k - 1)
    BY <2>1, <2>3 DEF Surjection
  <2>5. IsFiniteSet(0..k - 1) /\ Cardinality(0..k - 1) = k
    <3> HIDE DEF n
    <3>1. 0 \in Int /\ k - 1 \in Int /\ k \in Nat
      BY <1>0
    <3>2. /\ IsFiniteSet(0..k - 1)
          /\ Cardinality(0..k - 1) = IF 0 > k - 1 THEN 0 ELSE k - 1 - 0 + 1
      BY <3>1, FS_Interval
    <3> QED BY <3>1, <3>2
  <2>6. Cardinality(T) = Cardinality(0..k - 1)
    <3> HIDE DEF T
    <3> QED BY <2>2, <2>4, <2>5, FS_Injection
  <2> QED BY <2>5, <2>6 DEF Placed
<1> HIDE DEF f, Below
<1> QED BY <1>0, <1>5, <1>6, <1>7, <1>9, <1>10

-----------------------------------------------------------------------------
(* The shares of a plan.                                                     *)

LEMMA AncestorIs ==
  ASSUME NEW a \in NodeIds, NEW b \in NodeIds
  PROVE  is_ancestor_of(a, b) <=> Len(a) < Len(b) /\ \A i \in 1 .. Len(a) : a[i] = b[i]
<1> DEFINE m == Len(a)
           n == Len(b)
           x == SubSeq(a, 1, m)
           y == SubSeq(b, 1, m)
<1>1. a \in Seq(Nat) /\ b \in Seq(Nat) /\ m \in Nat /\ n \in Nat
  BY DEF NodeIds
<1>2. ASSUME NEW s \in Seq(Nat), m <= Len(s)
      PROVE  LET t == SubSeq(s, 1, m)
             IN  t \in Seq(Nat) /\ Len(t) = m /\ \A i \in 1 .. m : t[i] = s[i]
  <2> DEFINE t == SubSeq(s, 1, m)
  <2>1. \A i \in 1 .. m : s[i] \in Nat
    BY <1>1, <1>2, ElementOfSeq
  <2>2. 1 \in Int /\ m \in Int
    BY <1>1
  <2>3. /\ t \in Seq(Nat)
        /\ Len(t) = IF 1 <= m THEN m - 1 + 1 ELSE 0
        /\ \A i \in 1 .. (m - 1 + 1) : t[i] = s[1 + i - 1]
    BY <2>1, <2>2, SubSeqProperties
  <2> HIDE DEF t, m
  <2>4. Len(t) = m
    BY <1>1, <2>3
  <2>5. \A i \in 1 .. m : i \in 1 .. (m - 1 + 1) /\ 1 + i - 1 = i
    BY <1>1
  <2> QED BY <2>3, <2>4, <2>5 DEF t
<1>3. m <= n => (x = y <=> \A i \in 1 .. m : a[i] = b[i])
  <2> SUFFICES ASSUME m <= n PROVE x = y <=> \A i \in 1 .. m : a[i] = b[i]
    OBVIOUS
  <2>1. x \in Seq(Nat) /\ Len(x) = m /\ \A i \in 1 .. m : x[i] = a[i]
    BY <1>1, <1>2
  <2>2. y \in Seq(Nat) /\ Len(y) = m /\ \A i \in 1 .. m : y[i] = b[i]
    BY <1>1, <1>2
  <2> HIDE DEF x, y
  <2> QED BY <2>1, <2>2, SeqEqual
<1>4. (m = n /\ \A i \in 1 .. m : a[i] = b[i]) => a = b
  BY <1>1, SeqEqual
<1>5. is_ancestor_of(a, b) <=> m <= n /\ x = y /\ a # b
  BY DEF is_ancestor_of, IsStrictPrefix, IsPrefix
<1> HIDE DEF x, y
<1>6. ASSUME m < n PROVE a # b
  BY <1>6
<1> QED BY <1>1, <1>3, <1>4, <1>5, <1>6

\* Where two indices differ first.
Precedes(a, b, k) ==
  /\ k \in 1 .. Len(b) /\ k <= Len(a) + 1
  /\ \A j \in 1 .. k - 1 : a[j] = b[j]
  /\ k <= Len(a) => a[k] < b[k]

LEMMA BeforeIs ==
  ASSUME NEW a \in NodeIds, NEW b \in NodeIds
  PROVE  Before(a, b) <=> \E k \in Nat : Precedes(a, b, k)
<1>1. Len(a) \in Nat /\ Len(b) \in Nat
  BY DEF NodeIds
<1>2. ASSUME is_ancestor_of(a, b) PROVE Precedes(a, b, Len(a) + 1) /\ Len(a) + 1 \in Nat
  BY <1>1, <1>2, AncestorIs DEF Precedes
<1>3. ASSUME NEW k \in 1 .. Len(a), k <= Len(b), a[k] < b[k], \A j \in 1 .. k - 1 : a[j] = b[j]
      PROVE  Precedes(a, b, k) /\ k \in Nat
  BY <1>1, <1>3 DEF Precedes
<1>4. ASSUME NEW k \in Nat, Precedes(a, b, k) PROVE Before(a, b)
  <2>1. CASE k <= Len(a)
    <3>1. k \in 1 .. Len(a) /\ k <= Len(b) /\ a[k] < b[k] /\ \A j \in 1 .. k - 1 : a[j] = b[j]
      BY <1>1, <1>4, <2>1 DEF Precedes
    <3> QED BY <3>1 DEF Before
  <2>2. CASE ~(k <= Len(a))
    <3>1. k = Len(a) + 1 /\ k - 1 = Len(a) /\ Len(a) < Len(b)
      BY <1>1, <1>4, <2>2 DEF Precedes
    <3>2. \A j \in 1 .. Len(a) : a[j] = b[j]
      BY <1>4, <3>1 DEF Precedes
    <3> QED BY <3>1, <3>2, AncestorIs DEF Before
  <2> QED BY <2>1, <2>2
<1> QED BY <1>2, <1>3, <1>4 DEF Before

LEMMA BeforeOrders ==
  /\ \A a \in NodeIds : ~ Before(a, a)
  /\ \A a, b, c \in NodeIds : Before(a, b) /\ Before(b, c) => Before(a, c)
  /\ \A a, b \in NodeIds : a # b => Before(a, b) \/ Before(b, a)
<1>0. \A a \in NodeIds : Len(a) \in Nat /\ \A k \in 1 .. Len(a) : a[k] \in Nat
  BY DEF NodeIds
<1>1. ASSUME NEW a \in NodeIds PROVE ~ Before(a, a)
  <2> SUFFICES ASSUME NEW k \in Nat, Precedes(a, a, k) PROVE FALSE
    BY BeforeIs
  <2> QED BY <1>0 DEF Precedes
<1>2. ASSUME NEW a \in NodeIds, NEW b \in NodeIds, NEW c \in NodeIds, Before(a, b), Before(b, c)
      PROVE  Before(a, c)
  <2>1. PICK k \in Nat : Precedes(a, b, k)
    BY <1>2, BeforeIs
  <2>2. PICK l \in Nat : Precedes(b, c, l)
    BY <1>2, BeforeIs
  <2>3. /\ Len(a) \in Nat /\ Len(b) \in Nat /\ Len(c) \in Nat
        /\ \A i \in 1 .. Len(a) : a[i] \in Nat
        /\ \A i \in 1 .. Len(b) : b[i] \in Nat
        /\ \A i \in 1 .. Len(c) : c[i] \in Nat
    BY <1>0
  <2>4. /\ k \in 1 .. Len(b) /\ k <= Len(a) + 1 /\ (\A j \in 1 .. k - 1 : a[j] = b[j])
        /\ k <= Len(a) => a[k] < b[k]
    BY <2>1 DEF Precedes
  <2>5. /\ l \in 1 .. Len(c) /\ l <= Len(b) + 1 /\ (\A j \in 1 .. l - 1 : b[j] = c[j])
        /\ l <= Len(b) => b[l] < c[l]
    BY <2>2 DEF Precedes
  <2>6. CASE k < l
    <3>1. k \in 1 .. l - 1 /\ k \in 1 .. Len(c) /\ b[k] = c[k]
      BY <2>3, <2>4, <2>5, <2>6
    <3>2. \A j \in 1 .. k - 1 : a[j] = c[j]
      BY <2>4, <2>5, <2>6
    <3>3. Precedes(a, c, k)
      BY <2>4, <3>1, <3>2 DEF Precedes
    <3> QED BY <3>3, BeforeIs
  <2>7. CASE ~(k < l)
    <3>1. l \in 1 .. Len(b) /\ b[l] < c[l] /\ l <= Len(a) + 1
      BY <2>3, <2>4, <2>5, <2>7
    <3>2. \A j \in 1 .. l - 1 : a[j] = c[j]
      BY <2>4, <2>5, <2>7
    <3>3. l <= Len(a) => a[l] < c[l]
      <4>1. CASE k = l
        BY <2>3, <2>4, <2>5, <3>1, <4>1
      <4>2. CASE k # l
        <5>1. l \in 1 .. k - 1
          BY <2>4, <2>5, <2>7, <4>2
        <5> QED BY <2>4, <3>1, <5>1
      <4> QED BY <4>1, <4>2
    <3>4. Precedes(a, c, l)
      BY <2>5, <3>1, <3>2, <3>3 DEF Precedes
    <3> QED BY <3>4, BeforeIs
  <2> QED BY <2>6, <2>7
<1>3. ASSUME NEW a \in NodeIds, NEW b \in NodeIds, a # b PROVE Before(a, b) \/ Before(b, a)
  <2> DEFINE T == {k \in Nat : k >= 1 /\ k <= Len(a) /\ k <= Len(b) /\ a[k] # b[k]}
  <2>1. CASE T = {}
    <3>0. \A k \in Nat : k >= 1 /\ k <= Len(a) /\ k <= Len(b) => a[k] = b[k]
      BY <2>1
    <3> HIDE DEF T
    <3>1. CASE Len(a) < Len(b)
      <4>1. \A k \in 1 .. Len(a) : a[k] = b[k]
        BY <1>0, <3>0, <3>1
      <4> QED BY <3>1, <4>1, AncestorIs DEF Before
    <3>2. CASE Len(b) < Len(a)
      <4>1. \A k \in 1 .. Len(b) : b[k] = a[k]
        BY <1>0, <3>0, <3>2
      <4> QED BY <3>2, <4>1, AncestorIs DEF Before
    <3>3. CASE Len(a) = Len(b)
      <4>1. \A k \in 1 .. Len(a) : a[k] = b[k]
        BY <1>0, <3>0, <3>3
      <4>2. a \in Seq(Nat) /\ b \in Seq(Nat)
        BY DEF NodeIds
      <4>3. a = b
        BY <3>3, <4>1, <4>2, SeqEqual
      <4> QED BY <1>3, <4>3
    <3> QED BY <1>0, <3>1, <3>2, <3>3
  <2>2. CASE T # {}
    <3>0. T \in SUBSET Nat
      OBVIOUS
    <3>1. PICK k \in T : \A j \in T : k <= j
      <4> HIDE DEF T
      <4> QED BY <2>2, <3>0, SmallestExists
    <3>2. k \in Nat /\ k >= 1 /\ k <= Len(a) /\ k <= Len(b) /\ a[k] # b[k]
      BY <3>1
    <3>3. \A j \in 1 .. k - 1 : a[j] = b[j]
      <4> TAKE j \in 1 .. k - 1
      <4>1. j \in Nat /\ j >= 1 /\ j <= Len(a) /\ j <= Len(b) /\ j < k
        BY <1>0, <3>2
      <4>2. j \notin T
        <5> HIDE DEF T
        <5> QED BY <3>1, <3>2, <4>1
      <4> QED BY <4>1, <4>2
    <3> HIDE DEF T
    <3>4. k \in 1 .. Len(a) /\ k \in 1 .. Len(b) /\ k <= Len(a) + 1 /\ k <= Len(b) + 1
      BY <1>0, <3>2
    <3>5. a[k] < b[k] \/ b[k] < a[k]
      BY <1>0, <3>2, <3>4
    <3>6. Precedes(a, b, k) \/ Precedes(b, a, k)
      BY <3>3, <3>4, <3>5 DEF Precedes
    <3> QED BY <3>2, <3>6, BeforeIs
  <2> QED BY <2>1, <2>2
<1> QED BY <1>1, <1>2, <1>3

\* The order of a set of nodes, as pairs.
Prior(R, S) == \A x, y \in S : <<x, y>> \in R <=> Before(x, y)

LEMMA PriorRanks ==
  ASSUME NEW S, IsFiniteSet(S), S \subseteq NodeIds, NEW R, Prior(R, S),
         NEW rank, \A x \in S : rank[x] = Cardinality(Earlier(R, S, x))
  PROVE  /\ Cardinality(S) \in Nat
         /\ \A x \in S : rank[x] \in 0..Cardinality(S) - 1
         /\ \A x, y \in S : rank[x] = rank[y] => x = y
         /\ \A k \in 0..Cardinality(S) - 1 : \E x \in S : rank[x] = k
<1>1. \A x \in S : <<x, x>> \notin R
  BY BeforeOrders DEF Prior
<1>2. \A x, y, z \in S : <<x, y>> \in R /\ <<y, z>> \in R => <<x, z>> \in R
  BY BeforeOrders DEF Prior
<1>3. \A x, y \in S : x # y => <<x, y>> \in R \/ <<y, x>> \in R
  BY BeforeOrders DEF Prior
<1>4. \A x \in S : rank[x] = Cardinality(Earlier(R, S, x))
  OBVIOUS
<1>5. IsFiniteSet(S)
  OBVIOUS
<1> QED BY ONLY <1>1, <1>2, <1>3, <1>4, <1>5, RankIs

\* Siblings in their order: each stands there, and once.
LEMMA OrderedIs ==
  ASSUME NEW S, IsFiniteSet(S), S \subseteq NodeIds
  PROVE  /\ Cardinality(S) \in Nat
         /\ DOMAIN Ordered(S) = 1 .. Cardinality(S)
         /\ \A i \in 1 .. Cardinality(S) : Ordered(S)[i] \in S
         /\ \A i, j \in 1 .. Cardinality(S) : Ordered(S)[i] = Ordered(S)[j] => i = j
         /\ \A x \in S : \E i \in 1 .. Cardinality(S) : Ordered(S)[i] = x
<1> DEFINE R == {p \in S \X S : Before(p[1], p[2])}
           Less(x) == {m \in S : Before(m, x)}
           rank == [x \in S |-> Cardinality(Less(x))]
           n == Cardinality(S)
           s == Ordered(S)
<1>1. Prior(R, S)
  BY DEF Prior
<1>2. \A x \in S : rank[x] = Cardinality(Earlier(R, S, x))
  <2> TAKE x \in S
  <2>1. Earlier(R, S, x) = Less(x)
    BY DEF Earlier
  <2> HIDE DEF R
  <2> QED BY <2>1
<1>3. /\ n \in Nat
      /\ \A x \in S : rank[x] \in 0..n - 1
      /\ \A x, y \in S : rank[x] = rank[y] => x = y
      /\ \A k \in 0..n - 1 : \E x \in S : rank[x] = k
  <2> HIDE DEF R, rank
  <2>1. IsFiniteSet(S) /\ S \subseteq NodeIds
    OBVIOUS
  <2> HIDE DEF n
  <2>2. /\ Cardinality(S) \in Nat
        /\ \A x \in S : rank[x] \in 0..Cardinality(S) - 1
        /\ \A x, y \in S : rank[x] = rank[y] => x = y
        /\ \A k \in 0..Cardinality(S) - 1 : \E x \in S : rank[x] = k
    BY ONLY <2>1, <1>1, <1>2, PriorRanks
  <2> QED BY <2>2 DEF n
<1>4. s = [i \in 1..n |-> CHOOSE x \in S : Cardinality(Less(x)) = i - 1]
  BY DEF Ordered
<1>5. \A i \in 1..n : s[i] \in S /\ rank[s[i]] = i - 1
  <2> TAKE i \in 1..n
  <2>1. \E x \in S : rank[x] = i - 1
    <3>1. i - 1 \in 0..n - 1
      <4> HIDE DEF n
      <4> QED BY <1>3
    <3> HIDE DEF rank
    <3> QED BY <1>3, <3>1
  <2>2. \E x \in S : Cardinality(Less(x)) = i - 1
    BY <2>1
  <2>3. s[i] = CHOOSE x \in S : Cardinality(Less(x)) = i - 1
    BY <1>4
  <2> HIDE DEF s, Less
  <2>4. s[i] \in S /\ Cardinality(Less(s[i])) = i - 1
    BY <2>2, <2>3
  <2> QED BY <2>4
<1>6. DOMAIN s = 1..n
  BY <1>4
<1> HIDE DEF s, rank, n
<1>7. ASSUME NEW i \in 1..n, NEW j \in 1..n, s[i] = s[j] PROVE i = j
  <2>1. i - 1 = j - 1
    BY <1>5, <1>7
  <2> QED BY <1>3, <2>1
<1>8. ASSUME NEW x \in S PROVE \E i \in 1..n : s[i] = x
  <2> DEFINE i == rank[x] + 1
  <2>1. i \in 1..n /\ i - 1 = rank[x]
    BY <1>3
  <2> HIDE DEF i
  <2>2. s[i] \in S /\ rank[s[i]] = rank[x]
    BY <1>5, <2>1
  <2>3. s[i] = x
    BY <1>3, <2>2
  <2> QED BY <2>1, <2>3
<1> QED BY <1>3, <1>5, <1>6, <1>7, <1>8 DEF s, n

\* Share::split: the parts add up to the pot exactly, whatever the weights
\* leave over.
LEMMA SplitAddsUp ==
  ASSUME NEW pot \in Nat, NEW n \in Nat, NEW w \in [1 .. n -> Nat], SumFunction(w) # 0
  PROVE  /\ split(pot, w) \in [1 .. n -> Nat]
         /\ SumFunctionOnSet(split(pot, w), 1 .. n) = pot
<1> DEFINE D == 1 .. n
           total == SumFunctionOnSet(w, D)
           floor == [i \in D |-> (pot * w[i]) \div total]
           over == [i \in D |-> (pot * w[i]) % total]
           whole == [i \in D |-> total * floor[i]]
           scaled == [i \in D |-> pot * w[i]]
           left == pot - SumFunctionOnSet(floor, D)
           one == [i \in D |-> IF i <= left THEN 1 ELSE 0]
           parts == split(pot, w)
<1>1. /\ IsFiniteSet(D) /\ DOMAIN w = D /\ total = SumFunction(w)
      /\ (\A i \in D : w[i] \in Nat) /\ \A i \in D : i \in Int /\ i >= 1 /\ i <= n
  <2>1. 1 \in Int /\ n \in Int
    OBVIOUS
  <2>2. IsFiniteSet(D)
    BY <2>1, FS_Interval
  <2> QED BY <2>2 DEF SumFunction
<1>2. total \in Nat \ {0}
  <2> HIDE DEF D
  <2>1. total \in Nat
    BY <1>1, SumNat
  <2> QED BY <1>1, <2>1
<1>3. parts = [i \in D |-> floor[i] + one[i]]
  <2>1. SumFunction(floor) = SumFunctionOnSet(floor, D)
    BY DEF SumFunction
  <2> HIDE DEF D
  <2>2. parts = [i \in D |-> floor[i] + IF i <= pot - SumFunction(floor) THEN 1 ELSE 0]
    BY <1>1 DEF split
  <2> HIDE DEF floor
  <2> QED BY <2>1, <2>2
<1> HIDE DEF total, D, parts
<1>4. ASSUME NEW i \in D
      PROVE  floor[i] \in Nat /\ over[i] \in 0 .. total - 1 /\ pot * w[i] = total * floor[i] + over[i]
  <2> DEFINE N == pot * w[i]
  <2>1. N \in Nat
    BY <1>1
  <2> HIDE DEF N
  <2>2. N \div total \in Nat /\ N % total \in 0 .. total - 1 /\ N = total * (N \div total) + (N % total)
    BY <1>2, <2>1, Divided
  <2>3. floor[i] = N \div total /\ over[i] = N % total
    BY DEF N
  <2> QED BY <2>2, <2>3 DEF N
<1> HIDE DEF floor, over
<1> DEFINE f == SumFunctionOnSet(floor, D)
           o == SumFunctionOnSet(over, D)
<1>5. f \in Nat /\ o \in Nat
  <2>1. \A i \in D : floor[i] \in Nat /\ over[i] \in Nat
    BY <1>2, <1>4
  <2> QED BY <1>1, <2>1, SumNat
<1>6. pot * total = total * f + o
  <2>1. SumFunctionOnSet(scaled, D) = pot * total
    <3>1. \A i \in D : w[i] \in Int /\ scaled[i] = pot * w[i]
      BY <1>1
    <3>2. pot \in Int
      OBVIOUS
    <3> HIDE DEF scaled
    <3> QED BY <1>1, <3>1, <3>2, SumTimes DEF total
  <2>2. SumFunctionOnSet(whole, D) = total * f
    <3>1. \A i \in D : floor[i] \in Int /\ whole[i] = total * floor[i]
      BY <1>4
    <3>2. total \in Int
      BY <1>2
    <3> HIDE DEF whole
    <3> QED BY <1>1, <3>1, <3>2, SumTimes
  <2>3. \A i \in D : whole[i] \in Int /\ over[i] \in Int /\ scaled[i] = whole[i] + over[i]
    <3> TAKE i \in D
    <3>1. total * floor[i] \in Int /\ over[i] \in Int /\ pot * w[i] = total * floor[i] + over[i]
      BY <1>2, <1>4
    <3> QED BY <3>1
  <2> HIDE DEF scaled, whole
  <2>4. SumFunctionOnSet(scaled, D) = SumFunctionOnSet(whole, D) + SumFunctionOnSet(over, D)
    BY <1>1, <2>3, SumPlus
  <2> QED BY <2>1, <2>2, <2>4
\* Less is over than one for each.
<1>7. o <= (total - 1) * n
  <2> DEFINE ones == [i \in D |-> 1]
             cap == [i \in D |-> (total - 1) * ones[i]]
  <2>1. SumFunctionOnSet(ones, D) = n
    <3>1. {i \in D : ones[i] = 1} = D /\ \A i \in D : ones[i] \in {0, 1}
      OBVIOUS
    <3> HIDE DEF ones
    <3>2. SumFunctionOnSet(ones, D) = Cardinality(D)
      BY <1>1, <3>1, SumCounts
    <3>3. Cardinality(D) = n
      <4>1. 1 \in Int /\ n \in Int
        OBVIOUS
      <4>2. Cardinality(D) = IF 1 > n THEN 0 ELSE n - 1 + 1
        BY <4>1, FS_Interval DEF D
      <4> QED BY <4>2
    <3> QED BY <3>2, <3>3
  <2>2. SumFunctionOnSet(cap, D) = (total - 1) * n
    <3>1. \A i \in D : ones[i] \in Int /\ cap[i] = (total - 1) * ones[i]
      OBVIOUS
    <3>2. total - 1 \in Int
      BY <1>2
    <3> HIDE DEF ones, cap
    <3> QED BY <1>1, <2>1, <3>1, <3>2, SumTimes
  <2>3. \A i \in D : over[i] \in Int /\ cap[i] \in Int /\ over[i] <= cap[i]
    <3> TAKE i \in D
    <3>1. cap[i] = (total - 1) * 1
      OBVIOUS
    <3> HIDE DEF cap
    <3> QED BY <1>2, <1>4, <3>1
  <2> HIDE DEF cap
  <2>4. o <= SumFunctionOnSet(cap, D)
    BY <1>1, <2>3, SumAtMost
  <2> QED BY <2>2, <2>4
<1>8. left = pot - f /\ left \in Int
  BY <1>5
<1> HIDE DEF left, f, o
<1>9. total * left = o
  <2>1. total * (pot - f) = pot * total - total * f
    BY <1>2, <1>5
  <2>2. pot * total \in Int /\ total * f \in Int
    BY <1>2, <1>5
  <2> QED BY <1>5, <1>6, <1>8, <2>1, <2>2
<1>10. left \in 0 .. n
  <2>1. left >= 0
    <3>1. left < 0 => total * left <= total * (-1)
      BY <1>2, <1>8
    <3>2. total * (-1) < 0
      BY <1>2
    <3> QED BY <1>2, <1>5, <1>8, <1>9, <3>1, <3>2
  <2>2. left <= n
    <3>1. left > n => total * left >= total * (n + 1)
      BY <1>2, <1>8
    <3>2. total * (n + 1) = total * n + total /\ (total - 1) * n = total * n - n
      BY <1>2
    <3>3. total * n \in Nat /\ total * left \in Int
      BY <1>2, <1>8
    <3> QED BY <1>2, <1>5, <1>7, <1>8, <1>9, <3>1, <3>2, <3>3
  <2> QED BY <1>8, <2>1, <2>2
<1>11. SumFunctionOnSet(one, D) = left
  <2>1. {i \in D : one[i] = 1} = 1 .. left
    BY <1>10 DEF D
  <2>2. \A i \in D : one[i] \in {0, 1}
    OBVIOUS
  <2> HIDE DEF one
  <2>3. SumFunctionOnSet(one, D) = Cardinality(1 .. left)
    BY <1>1, <2>1, <2>2, SumCounts
  <2>4. 1 \in Int /\ left \in Int
    BY <1>8
  <2>5. Cardinality(1 .. left) = IF 1 > left THEN 0 ELSE left - 1 + 1
    BY <2>4, FS_Interval
  <2> QED BY <1>10, <2>3, <2>5
<1>12. \A i \in D : one[i] \in {0, 1} /\ parts[i] = floor[i] + one[i]
  BY <1>3
<1>13. parts = [i \in D |-> parts[i]]
  BY <1>3
<1> HIDE DEF one
<1>14. \A i \in D : floor[i] \in Int /\ one[i] \in Int /\ parts[i] = floor[i] + one[i] /\ parts[i] \in Nat
  BY <1>4, <1>12
<1>15. SumFunctionOnSet(parts, D) = f + left
  BY <1>1, <1>11, <1>14, SumPlus DEF f
<1>16. parts \in [D -> Nat]
  BY <1>13, <1>14
<1> QED BY <1>5, <1>8, <1>15, <1>16 DEF parts, D

LEMMA SumOfOne ==
  ASSUME NEW f, NEW D, IsFiniteSet(D), \A x \in D : f[x] \in Int, NEW i \in D
  PROVE  SumFunctionOnSet(f, {i}) = f[i]
<1>1. SumFunctionOnSet(f, {} \cup {i}) = SumFunctionOnSet(f, {}) + f[i]
  BY SumAdds
<1>2. SumFunctionOnSet(f, {}) = 0
  BY SumUnfolds
<1>3. {} \cup {i} = {i}
  OBVIOUS
<1> QED BY <1>1, <1>2, <1>3

\* PlanTree::hand_out: what siblings get of a pot is all of it.
LEMMA PartsAddUp ==
  ASSUME NEW plan, IsPlan(plan), NEW pot \in Nat, NEW S, S \subseteq Nodes(plan), S # {},
         NEW g, \A id \in S : g[id] = Part(plan, pot, S, id)
  PROVE  (\A id \in S : g[id] \in Nat) /\ SumFunctionOnSet(g, S) = pot
<1> DEFINE among == Ordered(S)
           n == Cardinality(S)
           D == 1 .. n
           weights == [i \in D |-> plan[among[i]].weight]
           w == IF \A i \in D : weights[i] = 0 THEN [i \in D |-> 1] ELSE weights
           parts == split(pot, w)
           idx(id) == CHOOSE i \in D : among[i] = id
<1>1. IsFiniteSet(S) /\ S \subseteq NodeIds /\ \A id \in S : plan[id].weight \in Nat
  <2>1. IsFiniteSet(S) /\ S \subseteq NodeIds
    BY FS_Subset DEF IsPlan, Nodes
  <2>2. \A id \in S : plan[id] \in Row
    BY DEF IsPlan, Nodes
  <2> QED BY <2>1, <2>2 DEF Row
<1>2. /\ n \in Nat /\ DOMAIN among = D
      /\ \A i \in D : among[i] \in S
      /\ \A i, j \in D : among[i] = among[j] => i = j
      /\ \A x \in S : \E i \in D : among[i] = x
  BY <1>1, OrderedIs
<1>3. \A id \in S : Part(plan, pot, S, id) = parts[idx(id)]
  BY <1>2 DEF Part, Parts
<1> HIDE DEF among, n
<1>4. IsFiniteSet(D) /\ D # {}
  <2>1. 1 \in Int /\ n \in Int
    BY <1>2
  <2>2. IsFiniteSet(D)
    BY <2>1, FS_Interval
  <2> QED BY <1>2, <2>2
<1> HIDE DEF D
<1>5. w \in [D -> Nat] /\ \E i \in D : w[i] > 0
  <2>1. \A i \in D : weights[i] = plan[among[i]].weight /\ plan[among[i]].weight \in Nat
    BY <1>1, <1>2
  <2>2. weights \in [D -> Nat]
    BY <2>1
  <2>3. CASE \A i \in D : weights[i] = 0
    <3>1. w = [i \in D |-> 1]
      BY <2>3
    <3> HIDE DEF w
    <3> QED BY <1>4, <3>1
  <2>4. CASE ~ \A i \in D : weights[i] = 0
    <3>1. w = weights
      BY <2>4
    <3> HIDE DEF w, weights
    <3> QED BY <2>2, <2>4, <3>1
  <2> QED BY <2>3, <2>4
<1> HIDE DEF w
<1>6. SumFunction(w) # 0
  <2>1. DOMAIN w = D /\ \A i \in D : w[i] \in Nat
    BY <1>5
  <2>2. SumFunction(w) = SumFunctionOnSet(w, D)
    BY <2>1 DEF SumFunction
  <2>3. SumFunctionOnSet(w, D) \in Nat /\ \A i \in D : w[i] <= SumFunctionOnSet(w, D)
    BY <1>4, <2>1, SumNat
  <2> QED BY <1>5, <2>1, <2>2, <2>3
<1>7. parts \in [D -> Nat] /\ SumFunctionOnSet(parts, D) = pot
  BY <1>2, <1>5, <1>6, SplitAddsUp DEF D
<1> HIDE DEF parts
<1>8. ASSUME NEW id \in S
      PROVE  /\ idx(id) \in D /\ g[id] = parts[idx(id)] /\ g[id] \in Nat
             /\ Bucket(among, D, id) = {idx(id)}
  <2>1. idx(id) \in D /\ among[idx(id)] = id
    BY <1>2
  <2> HIDE DEF idx
  <2>2. Bucket(among, D, id) = {idx(id)}
    BY <1>2, <2>1 DEF Bucket
  <2>3. g[id] = parts[idx(id)]
    BY <1>3 DEF idx
  <2> QED BY <1>7, <2>1, <2>2, <2>3
<1> HIDE DEF idx
<1>9. \A id \in S : g[id] = SumFunctionOnSet(parts, Bucket(among, D, id))
  <2> TAKE id \in S
  <2>1. \A i \in D : parts[i] \in Int
    BY <1>7
  <2>2. SumFunctionOnSet(parts, {idx(id)}) = parts[idx(id)]
    BY <1>4, <1>8, <2>1, SumOfOne
  <2> QED BY <1>8, <2>2
<1>10. SumFunctionOnSet(g, S) = SumFunctionOnSet(parts, D)
  <2>1. \A i \in D : parts[i] \in Int /\ among[i] \in S
    BY <1>2, <1>7
  <2> QED BY <1>1, <1>4, <1>9, <2>1, SumByBucket
<1> QED BY <1>7, <1>8, <1>10

\* PlanTree::hand_out: what each sibling gets is a whole number of shares.
LEMMA PartIsNat ==
  ASSUME NEW plan, IsPlan(plan), NEW pot \in Nat, NEW S, S \subseteq Nodes(plan), NEW id \in S
  PROVE  Part(plan, pot, S, id) \in Nat
<1> DEFINE g == [x \in S |-> Part(plan, pot, S, x)]
<1>1. (\A x \in S : g[x] = Part(plan, pot, S, x)) /\ S # {}
  OBVIOUS
<1> HIDE DEF g
<1>2. \A x \in S : g[x] \in Nat
  BY <1>1, PartsAddUp
<1> QED BY ONLY <1>1, <1>2, id \in S

\* The parent of a node stands one level higher.
LEMMA ParentIs ==
  ASSUME NEW id \in NodeIds
  PROVE  Len(id) \in Nat /\ Len(id) >= 1 /\ Len(parent(id)) = Len(id) - 1
<1>1. id \in Seq(Nat \ {0}) /\ Len(id) \in Nat /\ Len(id) >= 1
  BY EmptySeq DEF NodeIds
<1> DEFINE m == Len(id) - 1
<1>2. 1 \in Int /\ m \in Int /\ \A i \in 1 .. m : id[i] \in Nat \ {0}
  BY <1>1, ElementOfSeq
<1>3. Len(SubSeq(id, 1, m)) = IF 1 <= m THEN m - 1 + 1 ELSE 0
  BY <1>2, SubSeqProperties
<1>4. parent(id) = SubSeq(id, 1, m)
  BY DEF parent, Front
<1>5. m \in Nat /\ m = Len(id) - 1
  BY <1>1
<1> HIDE DEF m
<1>6. Len(SubSeq(id, 1, m)) = m
  BY <1>3, <1>5
<1> QED BY <1>1, <1>4, <1>5, <1>6

\* What a node gets, out of what its parent got.
Given(plan, of, id) ==
  IF IsTop(id) THEN Part(plan, WHOLE_PPB, Tops(plan), id)
  ELSE Part(plan, of[parent(id)], children(plan, parent(id)), id)

Reaching(plan, n) == {id \in Nodes(plan) : Len(id) <= n}

\* In a plan without orphans every level is given out of the one above.
LEMMA GivenExists ==
  ASSUME NEW plan, IsPlan(plan), Orphaned(plan) = {}
  PROVE  \A n \in Nat : \E of : of = [id \in Reaching(plan, n) |-> Given(plan, of, id)]
<1> DEFINE T == {n \in Nat : ~ \E of : of = [id \in Reaching(plan, n) |-> Given(plan, of, id)]}
<1> SUFFICES ASSUME T # {} PROVE FALSE
  OBVIOUS
<1>1. PICK n \in T : \A m \in T : n <= m
  BY SmallestExists
<1>2. \A id \in Nodes(plan) : /\ id \in NodeIds /\ Len(id) \in Nat /\ Len(id) >= 1
                              /\ ~ IsTop(id) => parent(id) \in Nodes(plan) /\ Len(parent(id)) = Len(id) - 1
  <2>1. \A id \in Nodes(plan) : id \in NodeIds
    BY DEF IsPlan, Nodes
  <2> QED BY <2>1, ParentIs DEF Orphaned
<1>3. CASE n = 0
  <2> DEFINE of == [id \in {} |-> 0]
  <2>1. Reaching(plan, 0) = {}
    BY <1>2 DEF Reaching
  <2>2. of = [id \in Reaching(plan, 0) |-> Given(plan, of, id)]
    BY <2>1
  <2> QED BY <1>1, <1>3, <2>2
<1>4. CASE n # 0
  <2>1. n \in Nat /\ n - 1 \in Nat /\ n - 1 \notin T
    <3>1. n \in Nat
      BY <1>1
    <3> HIDE DEF T
    <3> QED BY <1>1, <1>4, <3>1
  <2>2. PICK old : old = [id \in Reaching(plan, n - 1) |-> Given(plan, old, id)]
    BY <2>1
  <2> DEFINE of == [id \in Reaching(plan, n) |-> Given(plan, old, id)]
  <2>3. \A id \in Reaching(plan, n - 1) : of[id] = old[id]
    <3> TAKE id \in Reaching(plan, n - 1)
    <3>1. id \in Reaching(plan, n)
      BY <1>2, <2>1 DEF Reaching
    <3>2. of[id] = Given(plan, old, id)
      BY <3>1
    <3>3. old[id] = Given(plan, old, id)
      BY <2>2
    <3> QED BY <3>2, <3>3
  <2>4. \A id \in Reaching(plan, n) : Given(plan, of, id) = Given(plan, old, id)
    <3> TAKE id \in Reaching(plan, n)
    <3>1. CASE IsTop(id)
      BY <3>1 DEF Given
    <3>2. CASE ~ IsTop(id)
      <4>1. parent(id) \in Reaching(plan, n - 1)
        BY <1>2, <2>1, <3>2 DEF Reaching
      <4>2. of[parent(id)] = old[parent(id)]
        BY <2>3, <4>1
      <4> HIDE DEF of
      <4> QED BY <4>2 DEF Given
    <3> QED BY <3>1, <3>2
  <2>5. of = [id \in Reaching(plan, n) |-> Given(plan, of, id)]
    <3>1. \A g : (\A id \in Reaching(plan, n) : Given(plan, g, id) = Given(plan, old, id))
                 => of = [id \in Reaching(plan, n) |-> Given(plan, g, id)]
      OBVIOUS
    <3> HIDE DEF of
    <3> QED BY <2>4, <3>1
  <2> QED BY <1>1, <2>5
<1> QED BY <1>3, <1>4

LEMMA ShareIs ==
  ASSUME NEW plan, IsPlan(plan), Orphaned(plan) = {}
  PROVE  /\ share(plan) = [id \in Nodes(plan) |-> Given(plan, share(plan), id)]
         /\ \A id \in Nodes(plan) : share(plan)[id] = Given(plan, share(plan), id)
<1> DEFINE lengths == [id \in Nodes(plan) |-> Len(id)]
           n == SumFunctionOnSet(lengths, Nodes(plan))
<1>1. \A id \in Nodes(plan) : lengths[id] \in Nat /\ lengths[id] = Len(id)
  BY DEF IsPlan, Nodes, NodeIds
<1>2. n \in Nat /\ \A id \in Nodes(plan) : lengths[id] <= n
  <2> HIDE DEF lengths
  <2>1. IsFiniteSet(Nodes(plan))
    BY DEF IsPlan, Nodes
  <2> QED BY <1>1, <2>1, SumNat
<1> HIDE DEF lengths, n
<1>3. Reaching(plan, n) = Nodes(plan)
  BY <1>1, <1>2 DEF Reaching
<1>4. \E of : of = [id \in Nodes(plan) |-> Given(plan, of, id)]
  BY <1>2, <1>3, GivenExists
<1>5. share(plan) = CHOOSE of : of = [id \in Nodes(plan) |-> Given(plan, of, id)]
  BY DEF share, Given
<1>6. share(plan) = [id \in Nodes(plan) |-> Given(plan, share(plan), id)]
  <2> HIDE DEF share
  <2> QED BY <1>4, <1>5
<1>7. ASSUME NEW g, g = [id \in Nodes(plan) |-> Given(plan, g, id)]
      PROVE  \A id \in Nodes(plan) : g[id] = Given(plan, g, id)
  BY <1>7
<1> QED BY <1>6, <1>7

LEMMA SharesAreParts ==
  ASSUME NEW plan, IsPlan(plan), Orphaned(plan) = {}
  PROVE  \A id \in Nodes(plan) : share(plan)[id] \in Nat
<1> DEFINE f == share(plan)
           T == {n \in Nat : \E id \in Nodes(plan) : Len(id) = n /\ f[id] \notin Nat}
<1>1. /\ \A id \in Nodes(plan) : f[id] = Given(plan, f, id)
      /\ \A id \in Nodes(plan) : Len(id) \in Nat
  BY ShareIs DEF IsPlan, Nodes, NodeIds
<1>2. WHOLE_PPB \in Nat
  BY PlanAssumption
<1> HIDE DEF f
<1>3. T = {}
  <2> SUFFICES ASSUME T # {} PROVE FALSE
    OBVIOUS
  <2>1. PICK n \in T : \A m \in T : n <= m
    BY SmallestExists
  <2>2. PICK id \in Nodes(plan) : Len(id) = n /\ f[id] \notin Nat
    BY <2>1
  <2>3. CASE IsTop(id)
    <3> DEFINE S == Tops(plan)
    <3>1. S \subseteq Nodes(plan) /\ id \in S
      BY <2>3 DEF Tops
    <3>2. f[id] = Part(plan, WHOLE_PPB, S, id)
      BY <1>1, <2>3 DEF Given
    <3> HIDE DEF S
    <3>3. Part(plan, WHOLE_PPB, S, id) \in Nat
      BY <1>2, <3>1, PartIsNat
    <3> QED BY <2>2, <3>2, <3>3
  <2>4. CASE ~ IsTop(id)
    <3> DEFINE up == parent(id)
               S == children(plan, up)
    <3>1. up \in Nodes(plan) /\ Len(up) = n - 1 /\ Len(up) < n
      <4>1. id \in NodeIds
        BY DEF IsPlan, Nodes
      <4>2. Len(id) \in Nat /\ Len(up) = Len(id) - 1
        BY <4>1, ParentIs
      <4> QED BY <2>2, <2>4, <4>2 DEF Orphaned
    <3>2. f[up] \in Nat
      <4>1. Len(up) \in Nat /\ Len(up) \notin T
        <5> HIDE DEF T, up
        <5> QED BY <1>1, <2>1, <2>2, <3>1
      <4> QED BY <3>1, <4>1
    <3>3. S \subseteq Nodes(plan) /\ id \in S
      BY <2>2, <2>4 DEF children
    <3>4. f[id] = Part(plan, f[up], S, id)
      BY <1>1, <2>4 DEF Given
    <3> DEFINE pot == f[up]
    <3>5. pot \in Nat /\ f[id] = Part(plan, pot, S, id)
      BY <3>2, <3>4
    <3> HIDE DEF S, up, pot
    <3>6. Part(plan, pot, S, id) \in Nat
      BY ONLY IsPlan(plan), <3>3, <3>5, PartIsNat
    <3> QED BY <2>2, <3>5, <3>6
  <2> QED BY <2>3, <2>4
<1>4. ASSUME NEW id \in Nodes(plan) PROVE f[id] \in Nat
  <2>1. Len(id) \notin T /\ Len(id) \in Nat
    BY <1>1, <1>3
  <2> QED BY <2>1
<1> QED BY <1>4 DEF f

\* Summed over all nodes, what the branches have is what is below the top
\* level: so what the leaves have is what the top level has, which is the
\* whole.
LEMMA LeavesCarryIt ==
  ASSUME NEW plan, IsPlan(plan), ~ build_refuses(plan)
  PROVE  SumFunctionOnSet(share(plan), Leaves(plan)) = WHOLE_PPB
<1> DEFINE f == share(plan)
           N == Nodes(plan)
           L == Leaves(plan)
           B == N \ L
           top == Tops(plan)
           below == N \ top
           key == [id \in below |-> parent(id)]
           sum(S) == SumFunctionOnSet(f, S)
<1>1. plan # NoPlan /\ Orphaned(plan) = {} /\ WHOLE_PPB \in Nat
  BY PlanAssumption DEF build_refuses
<1>2. /\ IsFiniteSet(N) /\ N \subseteq NodeIds
      /\ \A id \in N : f[id] \in Nat /\ f[id] = Given(plan, f, id)
  BY <1>1, ShareIs, SharesAreParts DEF IsPlan, Nodes
<1>3. top # {}
  <2>1. N # {}
    <3>1. N = {} => plan = [id \in {} |-> plan[id]]
      BY DEF IsPlan, Nodes
    <3>2. [id \in {} |-> plan[id]] = << >>
      OBVIOUS
    <3> QED BY <1>1, <3>1, <3>2 DEF NoPlan
  <2> DEFINE T == {n \in Nat : \E id \in N : Len(id) = n}
  <2>2. \A id \in N : Len(id) \in Nat
    BY <1>2 DEF NodeIds
  <2>3. T # {} /\ T \in SUBSET Nat
    BY <2>1, <2>2
  <2>4. PICK n \in T : \A m \in T : n <= m
    <3> HIDE DEF T
    <3> QED BY <2>3, SmallestExists
  <2>5. PICK id \in N : Len(id) = n
    BY <2>4
  <2>6. ASSUME ~ IsTop(id) PROVE FALSE
    <3>1. parent(id) \in N
      BY <1>1, <2>5, <2>6 DEF Orphaned
    <3>2. Len(parent(id)) = n - 1 /\ n \in Nat
      BY <1>2, <2>5, ParentIs
    <3>3. n - 1 \in T
      BY <2>2, <3>1, <3>2
    <3> HIDE DEF T
    <3> QED BY <2>4, <3>2, <3>3
  <2> QED BY <2>5, <2>6 DEF Tops
<1>4. top \subseteq N /\ L \subseteq N /\ B \subseteq N /\ below \subseteq N
  BY DEF Tops, Leaves
<1>5. sum(top) = WHOLE_PPB
  <2>1. \A id \in top : f[id] = Part(plan, WHOLE_PPB, top, id)
    BY <1>2 DEF Given, Tops
  <2> HIDE DEF f, top
  <2> QED BY <1>1, <1>3, <1>4, <2>1, PartsAddUp
<1>6. sum(B) = sum(below)
  <2>1. \A id \in below : key[id] = parent(id) /\ key[id] \in B
    <3> TAKE id \in below
    <3>1. parent(id) \in N /\ ~ IsTop(id)
      BY <1>1 DEF Tops, Orphaned
    <3>2. id \in children(plan, parent(id))
      BY <3>1 DEF children
    <3> QED BY <3>1, <3>2 DEF Leaves, is_leaf
  <2>2. ASSUME NEW b \in B
        PROVE  f[b] = SumFunctionOnSet(f, Bucket(key, below, b))
    <3> DEFINE S == children(plan, b)
    <3>1. Bucket(key, below, b) = S
      BY DEF Bucket, children, Tops
    <3>2. S \subseteq Nodes(plan) /\ S # {}
      BY <2>2 DEF children, Leaves, is_leaf
    <3>3. f[b] \in Nat
      BY <1>2
    <3>4. \A id \in S : f[id] = Part(plan, f[b], S, id)
      BY <1>2 DEF Given, children
    <3> HIDE DEF f, S, below, key
    <3>5. SumFunctionOnSet(f, S) = f[b]
      BY <3>2, <3>3, <3>4, PartsAddUp
    <3> QED BY <3>1, <3>5
  <2>3. IsFiniteSet(below) /\ IsFiniteSet(B) /\ \A id \in below : f[id] \in Int
    BY <1>2, <1>4, FS_Subset
  <2> HIDE DEF f, B, below, key
  <2> QED BY <2>1, <2>2, <2>3, SumByBucket
<1>7. sum(N) = sum(L) + sum(B) /\ sum(N) = sum(top) + sum(below)
  <2>1. /\ L \cup B = N /\ L \cap B = {} /\ top \cup below = N /\ top \cap below = {}
    BY <1>4
  <2>2. \A id \in N : f[id] \in Int
    BY <1>2
  <2> HIDE DEF f, N, L, B, top, below
  <2>3. SumFunctionOnSet(f, L \cup B) = SumFunctionOnSet(f, L) + SumFunctionOnSet(f, B)
    BY <1>2, <1>4, <2>1, <2>2, SumUnion
  <2>4. SumFunctionOnSet(f, top \cup below) = SumFunctionOnSet(f, top) + SumFunctionOnSet(f, below)
    BY <1>2, <1>4, <2>1, <2>2, SumUnion
  <2> QED BY <2>1, <2>3, <2>4
<1>8. sum(L) \in Int /\ sum(B) \in Int
  <2>1. \A id \in N : f[id] \in Int
    BY <1>2
  <2> HIDE DEF f, N, L, B
  <2> QED BY <1>2, <1>4, <2>1, SumType
<1>9. \A l, b, t, u \in Int : b = u /\ t = WHOLE_PPB /\ l + b = t + u => l = WHOLE_PPB
  BY <1>1
<1>10. sum(top) \in Int /\ sum(below) \in Int
  BY <1>1, <1>5, <1>6, <1>8
<1>11. sum(L) + sum(B) = sum(top) + sum(below)
  BY <1>7
<1>12. sum(L) = WHOLE_PPB
  <2> HIDE DEF sum, L, B, top, below
  <2> QED BY <1>5, <1>6, <1>8, <1>9, <1>10, <1>11
<1> QED BY <1>12

\* A plan is read one way, however it was divided and whoever worked it: what
\* its leaves are worth adds up to the whole of it, to the last part, at every
\* depth and for all weights (share.rs, "The parts add up to the input
\* exactly"), and what is stuck behind a red node is not offered.
THEOREM PlanAlwaysAddsUp == PlanSpec => []PlanAddsUp
<1>1. PlanInv => LeavesCarryTheWhole
  <2>1. PlanInv => IsPlan(file)
    BY DEF PlanInv, PlanTypes
  <2> QED BY <2>1, LeavesCarryIt DEF LeavesCarryTheWhole
<1>2. LeavesCarryTheWhole /\ StuckIsNotReady => PlanAddsUp
  BY DEF PlanAddsUp
<1> QED BY <1>1, <1>2, PlanInitially, PlanStep, StuckIsNeverReady, PTL DEF PlanSpec
=============================================================================
