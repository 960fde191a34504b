----------------------------- MODULE PartsProofs -----------------------------
(* What holds of the smaller parts for every set of contents and every bound *)
(* on puts, questions, lines and faults.                                     *)
EXTENDS MCParts, SequenceTheorems, FunctionTheorems, FiniteSetTheorems, NaturalsInduction,
        WellFoundedInduction, TLAPS

\* Every non-empty set of naturals has a least element.
LEMMA SmallestExists ==
  ASSUME NEW T \in SUBSET Nat, T # {}
  PROVE  \E x \in T : \A y \in T : x <= y
<1>1. \E x \in T : \A y \in T : ~ (<<y, x>> \in OpToRel(<, Nat))
  BY NatLessThanWellFounded, WFMin
<1>2. \A x, y \in T : ~ (<<y, x>> \in OpToRel(<, Nat)) => x <= y
  BY DEF OpToRel
<1> QED BY <1>1, <1>2

-----------------------------------------------------------------------------
(* What is divided, summed and counted. The sum over a finite set is the only *)
(* value that adds up along every way of picking its elements one by one, so  *)
(* it can be split, scaled, compared and sorted into buckets.                 *)

LEMMA Divided ==
    ASSUME NEW N \in Nat, NEW D \in Nat \ {0}
    PROVE  /\ N \div D \in Nat /\ N % D \in 0..D - 1
           /\ N = D * (N \div D) + (N % D)
OBVIOUS

LEMMA RemainderIs ==
    ASSUME NEW N \in Nat, NEW D \in Nat \ {0}, NEW q \in Nat, NEW r \in 0..D - 1, N = D * q + r
    PROVE  N % D = r /\ N \div D = q
<1> DEFINE p == N \div D
           s == N % D
<1>1. p \in Nat /\ s \in 0..D - 1 /\ N = D * p + s
    BY Divided
<1> HIDE DEF p, s
<1>2. ASSUME p > q PROVE FALSE
    <2>1. D * p >= D * (q + 1)
        BY <1>1, <1>2
    <2>2. D * (q + 1) = D * q + D
        OBVIOUS
    <2> QED BY <1>1, <2>1, <2>2
<1>3. ASSUME p < q PROVE FALSE
    <2>1. D * q >= D * (p + 1)
        BY <1>1, <1>3
    <2>2. D * (p + 1) = D * p + D
        BY <1>1
    <2> QED BY <1>1, <2>1, <2>2
<1>4. p = q
    BY <1>1, <1>2, <1>3
<1>5. s = r
    BY <1>1, <1>4
<1> QED BY <1>4, <1>5 DEF p, s

-----------------------------------------------------------------------------
(* Finite sums.                                                              *)

\* What can be added to until it is all of a finite set is all of it.
LEMMA GrowsToAll ==
  ASSUME NEW S, IsFiniteSet(S), NEW F \in SUBSET SUBSET S, {} \in F,
         \A T \in F : \A x \in S \ T : T \cup {x} \in F
  PROVE  S \in F
<1> DEFINE Left == {Cardinality(S \ T) : T \in F}
<1>1. \A T \in F : IsFiniteSet(S \ T) /\ Cardinality(S \ T) \in Nat
  BY FS_Subset, FS_CardinalityType
<1>2. Left \in SUBSET Nat /\ Left # {}
  BY <1>1
<1>3. PICK n \in Left : \A m \in Left : n <= m
  <2> HIDE DEF Left
  <2> QED BY <1>2, SmallestExists
<1>4. PICK T \in F : n = Cardinality(S \ T)
  BY <1>3
<1>5. ASSUME NEW x \in S \ T PROVE FALSE
  <2>1. T \cup {x} \in F /\ S \ (T \cup {x}) = (S \ T) \ {x}
    OBVIOUS
  <2>2. Cardinality(S \ (T \cup {x})) = n - 1
    <3>1. IsFiniteSet(S \ T) /\ x \in S \ T
      BY <1>1, <1>5
    <3>2. Cardinality((S \ T) \ {x}) = Cardinality(S \ T) - 1
      BY <3>1, FS_RemoveElement
    <3> QED BY <1>4, <2>1, <3>2
  <2>3. n - 1 \in Left
    BY <2>1, <2>2
  <2> HIDE DEF Left
  <2> QED BY <1>2, <1>3, <2>3
<1> QED BY <1>4, <1>5

Pick(T) == CHOOSE x \in T : TRUE

SumsTo(it, f, S) ==
  it = [T \in S |-> IF T = {} THEN 0 ELSE f[Pick(T)] + it[T \ {Pick(T)}]]

LEMMA SumIs ==
  ASSUME NEW f, NEW S
  PROVE  SumFunctionOnSet(f, S) = (CHOOSE it : SumsTo(it, f, SUBSET S))[S]
BY DEF SumFunctionOnSet, FoldFunctionOnSet, MapThenFoldSet, SumsTo, Pick

LEMMA PickIs ==
  ASSUME NEW T, T # {}
  PROVE  Pick(T) \in T
BY DEF Pick

LEMMA SumsExist ==
  ASSUME NEW f, NEW S, IsFiniteSet(S)
  PROVE  \E it : SumsTo(it, f, SUBSET S)
<1> DEFINE Upto(n) == {T \in SUBSET S : Cardinality(T) <= n}
           Bad == {n \in Nat : ~ \E it : SumsTo(it, f, Upto(n))}
<1>0. \A T \in SUBSET S : /\ IsFiniteSet(T) /\ Cardinality(T) \in Nat
                          /\ Cardinality(T) <= Cardinality(S) /\ (Cardinality(T) = 0 <=> T = {})
  BY FS_Subset, FS_CardinalityType, FS_EmptySet
<1>1. ASSUME Bad # {} PROVE FALSE
  <2>1. PICK n \in Bad : \A m \in Bad : n <= m
    <3>1. Bad \in SUBSET Nat
      OBVIOUS
    <3> HIDE DEF Bad
    <3> QED BY <1>1, <3>1, SmallestExists
  <2>2. CASE n = 0
    <3>1. \A T \in Upto(0) : T = {}
      BY <1>0
    <3>2. SumsTo([T \in Upto(0) |-> 0], f, Upto(0))
      BY <3>1 DEF SumsTo
    <3> QED BY <2>1, <2>2, <3>2
  <2>3. CASE n # 0
    <3>1. n - 1 \in Nat /\ n - 1 \notin Bad
      <4>1. n \in Nat
        BY <2>1
      <4> HIDE DEF Bad
      <4> QED BY <2>1, <2>3, <4>1
    <3>2. PICK g : SumsTo(g, f, Upto(n - 1))
      BY <3>1
    <3> DEFINE h == [T \in Upto(n) |-> IF T \in Upto(n - 1) THEN g[T] ELSE f[Pick(T)] + g[T \ {Pick(T)}]]
    <3>3. \A T \in Upto(n - 1) : g[T] = IF T = {} THEN 0 ELSE f[Pick(T)] + g[T \ {Pick(T)}]
      BY <3>2 DEF SumsTo
    <3>4. \A T \in Upto(n) : T # {} => T \ {Pick(T)} \in Upto(n - 1)
      <4> TAKE T \in Upto(n)
      <4>1. T # {} => Cardinality(T \ {Pick(T)}) = Cardinality(T) - 1
        BY <1>0, PickIs, FS_RemoveElement
      <4> QED BY <1>0, <3>1, <4>1
    <3>5. {} \in Upto(n - 1)
      BY <1>0, <3>1
    <3>6. \A T \in Upto(n - 1) : T \in Upto(n)
      BY <1>0, <3>1
    <3>7. \A T \in Upto(n) : h[T] = IF T = {} THEN 0 ELSE f[Pick(T)] + h[T \ {Pick(T)}]
      <4> TAKE T \in Upto(n)
      <4>1. T # {} => h[T \ {Pick(T)}] = g[T \ {Pick(T)}]
        BY <3>4, <3>6
      <4>2. h[T] = IF T \in Upto(n - 1) THEN g[T] ELSE f[Pick(T)] + g[T \ {Pick(T)}]
        OBVIOUS
      <4> HIDE DEF h, Upto
      <4> QED BY <3>3, <3>5, <4>1, <4>2
    <3>8. h = [T \in Upto(n) |-> h[T]]
      OBVIOUS
    <3> HIDE DEF h, Upto
    <3>9. SumsTo(h, f, Upto(n))
      BY <3>7, <3>8 DEF SumsTo
    <3> QED BY <2>1, <3>9
  <2> QED BY <2>2, <2>3
<1>2. Cardinality(S) \in Nat /\ Upto(Cardinality(S)) = SUBSET S
  BY <1>0
<1>3. \E it : SumsTo(it, f, Upto(Cardinality(S)))
  BY <1>1, <1>2
<1> QED BY <1>2, <1>3

LEMMA SumsAgree ==
  ASSUME NEW f, NEW S, NEW R, IsFiniteSet(S), R \subseteq S, NEW g, NEW h,
         SumsTo(g, f, SUBSET S), SumsTo(h, f, SUBSET R)
  PROVE  g[R] = h[R]
<1> DEFINE Bad == {n \in Nat : \E T \in SUBSET R : Cardinality(T) = n /\ g[T] # h[T]}
<1>0. \A T \in SUBSET R : IsFiniteSet(T) /\ Cardinality(T) \in Nat
  <2>1. \A T \in SUBSET R : T \in SUBSET S
    OBVIOUS
  <2> QED BY <2>1, FS_Subset, FS_CardinalityType
<1>1. ASSUME Bad # {} PROVE FALSE
  <2>1. PICK n \in Bad : \A m \in Bad : n <= m
    <3>1. Bad \in SUBSET Nat
      OBVIOUS
    <3> HIDE DEF Bad
    <3> QED BY <1>1, <3>1, SmallestExists
  <2>2. PICK T \in SUBSET R : Cardinality(T) = n /\ g[T] # h[T]
    BY <2>1
  <2>3. /\ g[T] = IF T = {} THEN 0 ELSE f[Pick(T)] + g[T \ {Pick(T)}]
        /\ h[T] = IF T = {} THEN 0 ELSE f[Pick(T)] + h[T \ {Pick(T)}]
    BY DEF SumsTo
  <2>4. T # {} /\ T \ {Pick(T)} \in SUBSET R /\ g[T \ {Pick(T)}] # h[T \ {Pick(T)}]
    BY <2>2, <2>3
  <2>5. Cardinality(T \ {Pick(T)}) = n - 1 /\ Cardinality(T \ {Pick(T)}) \in Nat
    BY <1>0, <2>2, <2>4, PickIs, FS_RemoveElement
  <2>6. n - 1 \in Bad
    BY <2>4, <2>5
  <2> QED BY <2>1, <2>6
<1> QED BY <1>0, <1>1

\* The two equations of a sum.
LEMMA SumUnfolds ==
  ASSUME NEW f, NEW S, IsFiniteSet(S)
  PROVE  /\ SumFunctionOnSet(f, {}) = 0
         /\ S # {} => SumFunctionOnSet(f, S) = f[Pick(S)] + SumFunctionOnSet(f, S \ {Pick(S)})
<1>1. ASSUME NEW R \in SUBSET S
      PROVE  \E it : SumsTo(it, f, SUBSET R) /\ SumFunctionOnSet(f, R) = it[R]
  <2>1. IsFiniteSet(R)
    BY FS_Subset
  <2>2. \E it : SumsTo(it, f, SUBSET R)
    BY <2>1, SumsExist
  <2> QED BY <2>2, SumIs
<1>2. PICK it : SumsTo(it, f, SUBSET S) /\ SumFunctionOnSet(f, S) = it[S]
  BY <1>1
<1>3. \A R \in SUBSET S : SumFunctionOnSet(f, R) = it[R]
  <2> TAKE R \in SUBSET S
  <2>1. PICK h : SumsTo(h, f, SUBSET R) /\ SumFunctionOnSet(f, R) = h[R]
    BY <1>1
  <2>2. SumsTo(it, f, SUBSET S) /\ SumsTo(h, f, SUBSET R)
    BY <1>2, <2>1
  <2>3. R \subseteq S
    OBVIOUS
  <2>4. it[R] = h[R]
    BY <2>2, <2>3, SumsAgree
  <2> QED BY <2>1, <2>4
<1>4. \A R \in SUBSET S : it[R] = IF R = {} THEN 0 ELSE f[Pick(R)] + it[R \ {Pick(R)}]
  BY <1>2 DEF SumsTo
<1>5. it[{}] = 0 /\ (S # {} => it[S] = f[Pick(S)] + it[S \ {Pick(S)}])
  BY <1>4
<1> QED BY <1>3, <1>5

LEMMA SumType ==
  ASSUME NEW f, NEW S, IsFiniteSet(S), \A x \in S : f[x] \in Int
  PROVE  \A T \in SUBSET S : SumFunctionOnSet(f, T) \in Int
<1> DEFINE Bad == {n \in Nat : \E T \in SUBSET S : Cardinality(T) = n /\ SumFunctionOnSet(f, T) \notin Int}
<1>0. \A T \in SUBSET S : IsFiniteSet(T) /\ Cardinality(T) \in Nat
  BY FS_Subset, FS_CardinalityType
<1>1. ASSUME Bad # {} PROVE FALSE
  <2>1. PICK n \in Bad : \A m \in Bad : n <= m
    <3>1. Bad \in SUBSET Nat
      OBVIOUS
    <3> HIDE DEF Bad
    <3> QED BY <1>1, <3>1, SmallestExists
  <2>2. PICK T \in SUBSET S : Cardinality(T) = n /\ SumFunctionOnSet(f, T) \notin Int
    BY <2>1
  <2> DEFINE U == T \ {Pick(T)}
  <2>3. T # {} /\ SumFunctionOnSet(f, T) = f[Pick(T)] + SumFunctionOnSet(f, U)
    BY <1>0, <2>2, SumUnfolds
  <2>4. f[Pick(T)] \in Int
    BY <2>3, PickIs
  <2>5. SumFunctionOnSet(f, U) \notin Int
    BY <2>2, <2>3, <2>4
  <2>6. Cardinality(U) = n - 1 /\ Cardinality(U) \in Nat /\ U \in SUBSET S
    BY <1>0, <2>2, <2>3, PickIs, FS_RemoveElement
  <2> HIDE DEF U
  <2>7. n - 1 \in Bad
    BY <2>5, <2>6
  <2> QED BY <2>1, <2>7
<1> QED BY <1>0, <1>1

\* One more to add, whichever it is.
LEMMA SumAdds ==
  ASSUME NEW f, NEW S, IsFiniteSet(S), \A x \in S : f[x] \in Int
  PROVE  \A T \in SUBSET S : \A x \in S \ T :
           SumFunctionOnSet(f, T \cup {x}) = SumFunctionOnSet(f, T) + f[x]
<1> DEFINE Off(T, x) == SumFunctionOnSet(f, T \cup {x}) # SumFunctionOnSet(f, T) + f[x]
           Bad == {n \in Nat : \E T \in SUBSET S : Cardinality(T) = n /\ \E x \in S \ T : Off(T, x)}
<1>0. \A T \in SUBSET S : IsFiniteSet(T) /\ Cardinality(T) \in Nat /\ SumFunctionOnSet(f, T) \in Int
  BY FS_Subset, FS_CardinalityType, SumType
<1>1. ASSUME Bad # {} PROVE FALSE
  <2>1. PICK n \in Bad : \A m \in Bad : n <= m
    <3>1. Bad \in SUBSET Nat
      OBVIOUS
    <3> HIDE DEF Bad
    <3> QED BY <1>1, <3>1, SmallestExists
  <2>2a. PICK T \in SUBSET S : Cardinality(T) = n /\ \E x \in S \ T : Off(T, x)
    BY <2>1
  <2>2b. PICK x \in S \ T : Off(T, x)
    BY <2>2a
  <2>2. T \in SUBSET S /\ x \in S \ T /\ Cardinality(T) = n /\ Off(T, x)
    BY <2>2a, <2>2b
  <2> DEFINE V == T \cup {x}
             y == Pick(V)
             U == T \ {y}
  <2>3. V \in SUBSET S /\ IsFiniteSet(V) /\ y \in V
    BY <1>0, <2>2, PickIs
  <2>4. SumFunctionOnSet(f, V) = f[y] + SumFunctionOnSet(f, V \ {y})
    BY <2>3, SumUnfolds
  <2> HIDE DEF y
  <2>5. CASE y = x
    <3>1. V \ {y} = T
      BY <2>2, <2>5
    <3>2. f[x] \in Int /\ SumFunctionOnSet(f, T) \in Int
      BY <1>0, <2>2
    <3>3. SumFunctionOnSet(f, V) = f[x] + SumFunctionOnSet(f, T)
      BY <2>4, <2>5, <3>1
    <3> QED BY <2>2, <3>2, <3>3
  <2>6. CASE y # x
    <3>1. y \in T /\ V \ {y} = U \cup {x} /\ T = U \cup {y} /\ U \in SUBSET S /\ y \in S \ U /\ x \in S \ U
      BY <2>2, <2>3, <2>6
    <3>2. Cardinality(U) = n - 1 /\ Cardinality(U) \in Nat
      BY <1>0, <2>2, <3>1, FS_RemoveElement
    <3>3. n - 1 \notin Bad
      BY <2>1, <3>2
    <3>4. ~Off(U, x) /\ ~Off(U, y)
      <4> HIDE DEF Off, U, V
      <4> QED BY <3>1, <3>2, <3>3
    <3>5. SumFunctionOnSet(f, V) = f[y] + (SumFunctionOnSet(f, U) + f[x])
      BY <2>4, <3>1, <3>4
    <3>6. SumFunctionOnSet(f, T) = SumFunctionOnSet(f, U) + f[y]
      BY <3>1, <3>4
    <3>7. SumFunctionOnSet(f, U) \in Int /\ f[x] \in Int /\ f[y] \in Int
      BY <1>0, <3>1
    <3> HIDE DEF U
    <3>8. SumFunctionOnSet(f, V) = SumFunctionOnSet(f, T) + f[x]
      BY <3>5, <3>6, <3>7
    <3> QED BY <2>2, <3>8
  <2> QED BY <2>5, <2>6
<1> QED BY <1>0, <1>1

\* A sum is settled by what is summed.
LEMMA SumSame ==
  ASSUME NEW f, NEW g, NEW S, IsFiniteSet(S), \A x \in S : f[x] \in Int /\ g[x] = f[x]
  PROVE  SumFunctionOnSet(g, S) = SumFunctionOnSet(f, S)
<1> DEFINE F == {T \in SUBSET S : SumFunctionOnSet(g, T) = SumFunctionOnSet(f, T)}
<1>1. /\ \A T \in SUBSET S : \A x \in S \ T : SumFunctionOnSet(f, T \cup {x}) = SumFunctionOnSet(f, T) + f[x]
      /\ \A T \in SUBSET S : \A x \in S \ T : SumFunctionOnSet(g, T \cup {x}) = SumFunctionOnSet(g, T) + g[x]
  BY SumAdds
<1>2. SumFunctionOnSet(f, {}) = 0 /\ SumFunctionOnSet(g, {}) = 0
  BY SumUnfolds
<1>3. {} \in F
  BY <1>2
<1>4. ASSUME NEW T \in F, NEW x \in S \ T
      PROVE  T \cup {x} \in F
  <2>1. T \in SUBSET S /\ SumFunctionOnSet(g, T) = SumFunctionOnSet(f, T) /\ g[x] = f[x]
    OBVIOUS
  <2>2. /\ SumFunctionOnSet(f, T \cup {x}) = SumFunctionOnSet(f, T) + f[x]
        /\ SumFunctionOnSet(g, T \cup {x}) = SumFunctionOnSet(g, T) + g[x]
    BY <1>1, <2>1
  <2>3. SumFunctionOnSet(g, T \cup {x}) = SumFunctionOnSet(f, T \cup {x})
    BY <2>1, <2>2
  <2>4. T \cup {x} \in SUBSET S
    BY <2>1
  <2> QED BY <2>3, <2>4
<1>5. F \in SUBSET SUBSET S
  OBVIOUS
<1> HIDE DEF F
<1>6. S \in F
  BY <1>3, <1>4, <1>5, GrowsToAll
<1> QED BY <1>6 DEF F

LEMMA SumPlus ==
  ASSUME NEW f, NEW g, NEW h, NEW S, IsFiniteSet(S),
         \A x \in S : f[x] \in Int /\ g[x] \in Int /\ h[x] = f[x] + g[x]
  PROVE  SumFunctionOnSet(h, S) = SumFunctionOnSet(f, S) + SumFunctionOnSet(g, S)
<1> DEFINE F == {T \in SUBSET S : SumFunctionOnSet(h, T) = SumFunctionOnSet(f, T) + SumFunctionOnSet(g, T)}
<1>0. \A x \in S : f[x] \in Int /\ g[x] \in Int /\ h[x] \in Int
  OBVIOUS
<1>1. /\ \A T \in SUBSET S : \A x \in S \ T : SumFunctionOnSet(f, T \cup {x}) = SumFunctionOnSet(f, T) + f[x]
      /\ \A T \in SUBSET S : \A x \in S \ T : SumFunctionOnSet(g, T \cup {x}) = SumFunctionOnSet(g, T) + g[x]
      /\ \A T \in SUBSET S : \A x \in S \ T : SumFunctionOnSet(h, T \cup {x}) = SumFunctionOnSet(h, T) + h[x]
  BY <1>0, SumAdds
<1>2. SumFunctionOnSet(f, {}) = 0 /\ SumFunctionOnSet(g, {}) = 0 /\ SumFunctionOnSet(h, {}) = 0
  BY SumUnfolds
<1>3. {} \in F
  BY <1>2
<1>4. \A T \in SUBSET S : SumFunctionOnSet(f, T) \in Int /\ SumFunctionOnSet(g, T) \in Int
  BY <1>0, SumType
<1>5. ASSUME NEW T \in F, NEW x \in S \ T PROVE T \cup {x} \in F
  <2>1. /\ SumFunctionOnSet(f, T \cup {x}) = SumFunctionOnSet(f, T) + f[x]
        /\ SumFunctionOnSet(g, T \cup {x}) = SumFunctionOnSet(g, T) + g[x]
        /\ SumFunctionOnSet(h, T \cup {x}) = SumFunctionOnSet(h, T) + h[x]
    BY <1>1
  <2>2. SumFunctionOnSet(h, T) = SumFunctionOnSet(f, T) + SumFunctionOnSet(g, T)
    OBVIOUS
  <2>3. /\ SumFunctionOnSet(f, T) \in Int /\ SumFunctionOnSet(g, T) \in Int
        /\ f[x] \in Int /\ g[x] \in Int /\ h[x] = f[x] + g[x]
    BY <1>4
  <2>4. SumFunctionOnSet(h, T \cup {x}) = SumFunctionOnSet(f, T \cup {x}) + SumFunctionOnSet(g, T \cup {x})
    BY <2>1, <2>2, <2>3
  <2> QED BY <2>4
<1>6. F \in SUBSET SUBSET S
  OBVIOUS
<1> HIDE DEF F
<1>7. S \in F
  BY <1>3, <1>5, <1>6, GrowsToAll
<1> QED BY <1>7 DEF F

LEMMA SumTimes ==
  ASSUME NEW f, NEW h, NEW k \in Int, NEW S, IsFiniteSet(S),
         \A x \in S : f[x] \in Int /\ h[x] = k * f[x]
  PROVE  SumFunctionOnSet(h, S) = k * SumFunctionOnSet(f, S)
<1> DEFINE F == {T \in SUBSET S : SumFunctionOnSet(h, T) = k * SumFunctionOnSet(f, T)}
<1>0. \A x \in S : f[x] \in Int /\ h[x] \in Int
  OBVIOUS
<1>1. /\ \A T \in SUBSET S : \A x \in S \ T : SumFunctionOnSet(f, T \cup {x}) = SumFunctionOnSet(f, T) + f[x]
      /\ \A T \in SUBSET S : \A x \in S \ T : SumFunctionOnSet(h, T \cup {x}) = SumFunctionOnSet(h, T) + h[x]
  BY <1>0, SumAdds
<1>2. SumFunctionOnSet(f, {}) = 0 /\ SumFunctionOnSet(h, {}) = 0
  BY SumUnfolds
<1>3. {} \in F
  BY <1>2
<1>4. \A T \in SUBSET S : SumFunctionOnSet(f, T) \in Int
  BY <1>0, SumType
<1>5. ASSUME NEW T \in F, NEW x \in S \ T PROVE T \cup {x} \in F
  <2>1. SumFunctionOnSet(h, T \cup {x}) = k * SumFunctionOnSet(f, T) + k * f[x]
    BY <1>1
  <2>2. SumFunctionOnSet(f, T \cup {x}) = SumFunctionOnSet(f, T) + f[x]
    BY <1>1
  <2> DEFINE a == SumFunctionOnSet(f, T)
             b == f[x]
  <2>3. a \in Int /\ b \in Int
    BY <1>0, <1>4
  <2> HIDE DEF a, b
  <2>4. k * (a + b) = k * a + k * b
    BY <2>3
  <2> QED BY <2>1, <2>2, <2>4 DEF a, b
<1>6. F \in SUBSET SUBSET S
  OBVIOUS
<1> HIDE DEF F
<1>7. S \in F
  BY <1>3, <1>5, <1>6, GrowsToAll
<1> QED BY <1>7 DEF F

LEMMA SumAtMost ==
  ASSUME NEW f, NEW g, NEW S, IsFiniteSet(S),
         \A x \in S : f[x] \in Int /\ g[x] \in Int /\ f[x] <= g[x]
  PROVE  SumFunctionOnSet(f, S) <= SumFunctionOnSet(g, S)
<1> DEFINE F == {T \in SUBSET S : SumFunctionOnSet(f, T) <= SumFunctionOnSet(g, T)}
<1>1. /\ \A T \in SUBSET S : \A x \in S \ T : SumFunctionOnSet(f, T \cup {x}) = SumFunctionOnSet(f, T) + f[x]
      /\ \A T \in SUBSET S : \A x \in S \ T : SumFunctionOnSet(g, T \cup {x}) = SumFunctionOnSet(g, T) + g[x]
  BY SumAdds
<1>2. SumFunctionOnSet(f, {}) = 0 /\ SumFunctionOnSet(g, {}) = 0
  BY SumUnfolds
<1>3. {} \in F
  BY <1>2
<1>4. \A T \in SUBSET S : SumFunctionOnSet(f, T) \in Int /\ SumFunctionOnSet(g, T) \in Int
  BY SumType
<1>5. ASSUME NEW T \in F, NEW x \in S \ T PROVE T \cup {x} \in F
  <2>1. /\ SumFunctionOnSet(f, T \cup {x}) = SumFunctionOnSet(f, T) + f[x]
        /\ SumFunctionOnSet(g, T \cup {x}) = SumFunctionOnSet(g, T) + g[x]
    BY <1>1
  <2>2. SumFunctionOnSet(f, T) <= SumFunctionOnSet(g, T)
    OBVIOUS
  <2>3. /\ SumFunctionOnSet(f, T) \in Int /\ SumFunctionOnSet(g, T) \in Int
        /\ f[x] \in Int /\ g[x] \in Int /\ f[x] <= g[x]
    BY <1>4
  <2>4. SumFunctionOnSet(f, T \cup {x}) <= SumFunctionOnSet(g, T \cup {x})
    BY <2>1, <2>2, <2>3
  <2> QED BY <2>4
<1>6. F \in SUBSET SUBSET S
  OBVIOUS
<1> HIDE DEF F
<1>7. S \in F
  BY <1>3, <1>5, <1>6, GrowsToAll
<1> QED BY <1>7 DEF F

\* What is counted is summed as ones.
LEMMA SumCounts ==
  ASSUME NEW f, NEW S, IsFiniteSet(S), \A x \in S : f[x] \in {0, 1}
  PROVE  SumFunctionOnSet(f, S) = Cardinality({x \in S : f[x] = 1})
<1> DEFINE Ones(T) == {x \in T : f[x] = 1}
           F == {T \in SUBSET S : SumFunctionOnSet(f, T) = Cardinality(Ones(T))}
<1>0. \A x \in S : f[x] \in Int
  OBVIOUS
<1>1. \A T \in SUBSET S : \A x \in S \ T : SumFunctionOnSet(f, T \cup {x}) = SumFunctionOnSet(f, T) + f[x]
  BY <1>0, SumAdds
<1>2. SumFunctionOnSet(f, {}) = 0 /\ Cardinality(Ones({})) = 0
  <2>1. Ones({}) = {}
    OBVIOUS
  <2> QED BY <2>1, SumUnfolds, FS_EmptySet
<1>3. {} \in F
  BY <1>2
<1>4. ASSUME NEW T \in F, NEW x \in S \ T PROVE T \cup {x} \in F
  <2>1. SumFunctionOnSet(f, T \cup {x}) = Cardinality(Ones(T)) + f[x]
    BY <1>1
  <2>2. IsFiniteSet(Ones(T)) /\ Cardinality(Ones(T)) \in Nat /\ x \notin Ones(T)
    BY FS_Subset, FS_CardinalityType
  <2>3. CASE f[x] = 1
    <3>1. Ones(T \cup {x}) = Ones(T) \cup {x}
      BY <2>3
    <3>2. Cardinality(Ones(T \cup {x})) = Cardinality(Ones(T)) + 1
      BY <2>2, <3>1, FS_AddElement
    <3> QED BY <2>1, <2>3, <3>2
  <2>4. CASE f[x] = 0
    <3>1. Ones(T \cup {x}) = Ones(T)
      BY <2>4
    <3>2. Cardinality(Ones(T)) + f[x] = Cardinality(Ones(T))
      <4> HIDE DEF Ones
      <4> QED BY <2>2, <2>4
    <3>3. SumFunctionOnSet(f, T \cup {x}) = Cardinality(Ones(T \cup {x}))
      <4> HIDE DEF Ones
      <4> QED BY <2>1, <3>1, <3>2
    <3> QED BY <3>3
  <2> QED BY <2>3, <2>4
<1>6. F \in SUBSET SUBSET S
  OBVIOUS
<1> HIDE DEF F
<1>7. S \in F
  BY <1>3, <1>4, <1>6, GrowsToAll
<1> QED BY <1>7 DEF F

\* Nothing negative: a sum is no less than what it is of.
LEMMA SumNat ==
  ASSUME NEW f, NEW S, IsFiniteSet(S), \A x \in S : f[x] \in Nat
  PROVE  SumFunctionOnSet(f, S) \in Nat /\ \A x \in S : f[x] <= SumFunctionOnSet(f, S)
<1> DEFINE F == {T \in SUBSET S : SumFunctionOnSet(f, T) \in Nat /\ \A x \in T : f[x] <= SumFunctionOnSet(f, T)}
<1>0. \A x \in S : f[x] \in Int
  OBVIOUS
<1>1. \A T \in SUBSET S : \A x \in S \ T : SumFunctionOnSet(f, T \cup {x}) = SumFunctionOnSet(f, T) + f[x]
  BY <1>0, SumAdds
<1>2. SumFunctionOnSet(f, {}) = 0
  BY SumUnfolds
<1>3. {} \in F
  BY <1>2
<1>4. ASSUME NEW T \in F, NEW x \in S \ T PROVE T \cup {x} \in F
  <2> DEFINE a == SumFunctionOnSet(f, T)
  <2>1. SumFunctionOnSet(f, T \cup {x}) = a + f[x] /\ a \in Nat /\ \A y \in T : f[y] <= a
    BY <1>1
  <2> HIDE DEF a
  <2>2. \A y \in T \cup {x} : f[y] <= a + f[x]
    <3> TAKE y \in T \cup {x}
    <3>1. f[y] \in Nat /\ f[x] \in Nat
      OBVIOUS
    <3> QED BY <2>1, <3>1
  <2> QED BY <2>1, <2>2
<1>6. F \in SUBSET SUBSET S
  OBVIOUS
<1> HIDE DEF F
<1>7. S \in F
  BY <1>3, <1>4, <1>6, GrowsToAll
<1> QED BY <1>7 DEF F

\* One place is raised.
LEMMA SumRaised ==
  ASSUME NEW f, NEW g, NEW S, IsFiniteSet(S), NEW s \in S, NEW d \in Int,
         \A x \in S : f[x] \in Int, \A x \in S \ {s} : g[x] = f[x], g[s] = f[s] + d
  PROVE  SumFunctionOnSet(g, S) = SumFunctionOnSet(f, S) + d
<1> DEFINE R == S \ {s}
<1>0. /\ \A x \in S : f[x] \in Int
      /\ \A x \in S : g[x] \in Int
  OBVIOUS
<1>1. IsFiniteSet(R) /\ R \in SUBSET S /\ s \in S \ R /\ S = R \cup {s}
  BY FS_Subset
<1>2. /\ SumFunctionOnSet(f, R \cup {s}) = SumFunctionOnSet(f, R) + f[s]
      /\ SumFunctionOnSet(g, R \cup {s}) = SumFunctionOnSet(g, R) + g[s]
  <2>1. \A T \in SUBSET S : \A x \in S \ T : SumFunctionOnSet(f, T \cup {x}) = SumFunctionOnSet(f, T) + f[x]
    BY <1>0, SumAdds
  <2>2. \A T \in SUBSET S : \A x \in S \ T : SumFunctionOnSet(g, T \cup {x}) = SumFunctionOnSet(g, T) + g[x]
    BY <1>0, SumAdds
  <2> HIDE DEF R
  <2> QED BY <1>1, <2>1, <2>2
<1>3. SumFunctionOnSet(f, R) = SumFunctionOnSet(g, R) /\ SumFunctionOnSet(f, R) \in Int
  BY <1>0, <1>1, SumSame, SumType
<1> HIDE DEF R
<1> QED BY <1>0, <1>1, <1>2, <1>3

\* Two sets without a member in common.
LEMMA SumUnion ==
  ASSUME NEW f, NEW S, IsFiniteSet(S), \A x \in S : f[x] \in Int,
         NEW A, NEW B, A \subseteq S, B \subseteq S, A \cap B = {}
  PROVE  SumFunctionOnSet(f, A \cup B) = SumFunctionOnSet(f, A) + SumFunctionOnSet(f, B)
<1> DEFINE F == {T \in SUBSET B : SumFunctionOnSet(f, A \cup T) = SumFunctionOnSet(f, A) + SumFunctionOnSet(f, T)}
<1>1. \A T \in SUBSET S : \A x \in S \ T : SumFunctionOnSet(f, T \cup {x}) = SumFunctionOnSet(f, T) + f[x]
  BY SumAdds
<1>2. \A T \in SUBSET S : SumFunctionOnSet(f, T) \in Int
  BY SumType
<1>3. {} \in F
  <2>1. SumFunctionOnSet(f, {}) = 0 /\ A \cup {} = A /\ SumFunctionOnSet(f, A) \in Int
    BY <1>2, SumUnfolds
  <2> QED BY <2>1
<1>4. ASSUME NEW T \in F, NEW x \in B \ T PROVE T \cup {x} \in F
  <2>1. /\ A \cup T \in SUBSET S /\ x \in S \ (A \cup T) /\ T \in SUBSET S /\ x \in S \ T
        /\ A \cup (T \cup {x}) = (A \cup T) \cup {x}
    OBVIOUS
  <2>2. SumFunctionOnSet(f, A \cup (T \cup {x})) = SumFunctionOnSet(f, A \cup T) + f[x]
    BY <1>1, <2>1
  <2>3. SumFunctionOnSet(f, T \cup {x}) = SumFunctionOnSet(f, T) + f[x]
    BY <1>1, <2>1
  <2>4. SumFunctionOnSet(f, A \cup T) = SumFunctionOnSet(f, A) + SumFunctionOnSet(f, T)
    OBVIOUS
  <2>5. SumFunctionOnSet(f, A) \in Int /\ SumFunctionOnSet(f, T) \in Int /\ f[x] \in Int
    BY <1>2, <2>1
  <2>6. SumFunctionOnSet(f, A \cup (T \cup {x})) = SumFunctionOnSet(f, A) + SumFunctionOnSet(f, T \cup {x})
    BY <2>2, <2>3, <2>4, <2>5
  <2> QED BY <2>1, <2>6
<1>6. F \in SUBSET SUBSET B /\ IsFiniteSet(B)
  BY FS_Subset
<1> HIDE DEF F
<1>7. B \in F
  BY <1>3, <1>4, <1>6, GrowsToAll
<1> QED BY <1>7 DEF F

\* What is summed bucket by bucket is summed.
Bucket(key, S, b) == {x \in S : key[x] = b}

LEMMA SumByBucket ==
  ASSUME NEW f, NEW S, IsFiniteSet(S), \A x \in S : f[x] \in Int,
         NEW B, IsFiniteSet(B), NEW key, \A x \in S : key[x] \in B,
         NEW g, \A b \in B : g[b] = SumFunctionOnSet(f, Bucket(key, S, b))
  PROVE  SumFunctionOnSet(g, B) = SumFunctionOnSet(f, S)
<1> DEFINE In(C) == {x \in S : key[x] \in C}
           F == {C \in SUBSET B : SumFunctionOnSet(g, C) = SumFunctionOnSet(f, In(C))}
<1>1. \A T \in SUBSET S : SumFunctionOnSet(f, T) \in Int
  BY SumType
<1>2. \A b \in B : g[b] \in Int
  <2> TAKE b \in B
  <2>1. Bucket(key, S, b) \in SUBSET S
    BY DEF Bucket
  <2> QED BY <1>1, <2>1
<1>3. {} \in F
  <2>1. In({}) = {}
    OBVIOUS
  <2> QED BY <2>1, SumUnfolds
<1>4. ASSUME NEW C \in F, NEW b \in B \ C PROVE C \cup {b} \in F
  <2> DEFINE X == In(C)
             Y == Bucket(key, S, b)
  <2>1. X \in SUBSET S /\ Y \in SUBSET S /\ X \cap Y = {} /\ In(C \cup {b}) = X \cup Y
    BY DEF Bucket
  <2>2. SumFunctionOnSet(f, X) = SumFunctionOnSet(g, C) /\ SumFunctionOnSet(f, Y) = g[b]
    OBVIOUS
  <2>3. SumFunctionOnSet(g, C \cup {b}) = SumFunctionOnSet(g, C) + g[b]
    BY <1>2, SumAdds
  <2> HIDE DEF X, Y, In
  <2>4. SumFunctionOnSet(f, X \cup Y) = SumFunctionOnSet(f, X) + SumFunctionOnSet(f, Y)
    BY <2>1, SumUnion
  <2> QED BY <2>1, <2>2, <2>3, <2>4
<1>6. F \in SUBSET SUBSET B
  OBVIOUS
<1> HIDE DEF F
<1>7. B \in F
  BY <1>3, <1>4, <1>6, GrowsToAll
<1>8. In(B) = S
  OBVIOUS
<1> QED BY <1>7, <1>8 DEF F

-----------------------------------------------------------------------------
(* Places in an order. *)

\* What stands before an element, and what has one of the first k places.
Earlier(R, S, x) == {y \in S : <<y, x>> \in R}
Placed(rank, S, k) == {x \in S : rank[x] < k}

\* In a finite set in order, how many stand before an element is its place:
\* the places are 0, 1 and so on without a gap, and rise with the order.
LEMMA RankIs ==
  ASSUME NEW S, IsFiniteSet(S), NEW R,
         \A x \in S : <<x, x>> \notin R,
         \A x, y, z \in S : <<x, y>> \in R /\ <<y, z>> \in R => <<x, z>> \in R,
         \A x, y \in S : x # y => <<x, y>> \in R \/ <<y, x>> \in R,
         NEW rank, \A x \in S : rank[x] = Cardinality(Earlier(R, S, x))
  PROVE  /\ Cardinality(S) \in Nat
         /\ \A x \in S : rank[x] \in 0..Cardinality(S) - 1
         /\ \A x, y \in S : <<x, y>> \in R => rank[x] < rank[y]
         /\ \A x, y \in S : rank[x] = rank[y] => x = y
         /\ \A k \in 0..Cardinality(S) - 1 : \E x \in S : rank[x] = k
         /\ \A k \in 0..Cardinality(S) : Cardinality(Placed(rank, S, k)) = k
<1> DEFINE Below(x) == {y \in S : <<y, x>> \in R}
           n == Cardinality(S)
<1>0. n \in Nat
  BY FS_CardinalityType
<1>1. \A T \in SUBSET S : IsFiniteSet(T) /\ Cardinality(T) \in Nat /\ Cardinality(T) <= n
  BY FS_Subset, FS_CardinalityType
<1>2. \A T, U \in SUBSET S : T \subseteq U => Cardinality(T) <= Cardinality(U)
  <2> TAKE T, U \in SUBSET S
  <2> HAVE T \subseteq U
  <2>1. IsFiniteSet(U) /\ T \in SUBSET U
    BY <1>1
  <2> QED BY <2>1, FS_Subset
<1>3. \A x \in S : Below(x) \cup {x} \in SUBSET S /\ Cardinality(Below(x) \cup {x}) = rank[x] + 1
  <2> TAKE x \in S
  <2>1. IsFiniteSet(Below(x)) /\ x \notin Below(x) /\ rank[x] = Cardinality(Below(x))
    BY <1>1 DEF Earlier
  <2>2. Cardinality(Below(x) \cup {x}) = Cardinality(Below(x)) + 1
    <3> HIDE DEF Below
    <3> QED BY <2>1, FS_AddElement
  <2> QED BY <2>1, <2>2
<1>4. \A x \in S : rank[x] \in Nat /\ Below(x) \in SUBSET S /\ rank[x] = Cardinality(Below(x))
  <2> TAKE x \in S
  <2>1. Below(x) \in SUBSET S
    OBVIOUS
  <2>2. rank[x] = Cardinality(Below(x))
    BY DEF Earlier
  <2> HIDE DEF Below
  <2> QED BY <2>1, <2>2, <1>1
<1>5. \A x \in S : rank[x] \in 0..n - 1
  <2> TAKE x \in S
  <2> DEFINE U == Below(x) \cup {x}
  <2>0. U \in SUBSET S /\ Cardinality(U) = rank[x] + 1 /\ rank[x] \in Nat
    BY <1>3, <1>4
  <2>1. rank[x] + 1 <= n /\ rank[x] \in Nat
    <3> HIDE DEF U
    <3>1. Cardinality(U) <= n
      BY <1>1, <2>0
    <3> QED BY <2>0, <3>1
  <2> QED BY <1>0, <2>1
<1>6. \A x, y \in S : <<x, y>> \in R => rank[x] < rank[y]
  <2> TAKE x, y \in S
  <2> HAVE <<x, y>> \in R
  <2> DEFINE U == Below(x) \cup {x}
             V == Below(y)
  <2>0. /\ U \in SUBSET S /\ Cardinality(U) = rank[x] + 1 /\ rank[x] \in Nat
        /\ V \in SUBSET S /\ Cardinality(V) = rank[y] /\ rank[y] \in Nat
    BY <1>3, <1>4
  <2>1. U \subseteq V
    OBVIOUS
  <2>2. rank[x] + 1 <= rank[y] /\ rank[x] \in Nat /\ rank[y] \in Nat
    <3> HIDE DEF U, V
    <3>1. Cardinality(U) <= Cardinality(V)
      BY <1>2, <2>0, <2>1
    <3> QED BY <2>0, <3>1
  <2> QED BY <2>2
<1>7. \A x, y \in S : rank[x] = rank[y] => x = y
  <2> TAKE x, y \in S
  <2>1. rank[x] \in Nat /\ rank[y] \in Nat
    BY <1>4
  <2>2. x # y => rank[x] < rank[y] \/ rank[y] < rank[x]
    BY <1>6
  <2> QED BY <2>1, <2>2
<1> DEFINE f == [x \in S |-> rank[x]]
<1>8. f \in Bijection(S, 0..n - 1)
  <2>1. f \in [S -> 0..n - 1]
    BY <1>5
  <2>2. f \in Injection(S, 0..n - 1)
    BY <1>7, <2>1 DEF Injection, IsInjective
  <2>3. IsFiniteSet(0..n - 1) /\ Cardinality(0..n - 1) = n
    <3> HIDE DEF n
    <3>1. 0 \in Int /\ n - 1 \in Int /\ n \in Nat
      BY <1>0
    <3>2. /\ IsFiniteSet(0..n - 1)
          /\ Cardinality(0..n - 1) = IF 0 > n - 1 THEN 0 ELSE n - 1 - 0 + 1
      BY <3>1, FS_Interval
    <3> QED BY <3>1, <3>2
  <2> HIDE DEF f
  <2>4. f \in Surjection(S, 0..n - 1)
    BY <2>2, <2>3, FS_Injection
  <2> QED BY <2>2, <2>4 DEF Bijection
<1>9. \A k \in 0..n - 1 : \E x \in S : rank[x] = k
  <2>1. \A k \in 0..n - 1 : \E x \in S : f[x] = k
    <3> HIDE DEF f
    <3> QED BY <1>8 DEF Bijection, Surjection
  <2> QED BY <2>1
<1>10. ASSUME NEW k \in 0..n PROVE Cardinality(Placed(rank, S, k)) = k
  <2> DEFINE T == {x \in S : rank[x] < k}
             g == [x \in T |-> rank[x]]
  <2>1. g \in [T -> 0..k - 1]
    <3>1. \A x \in T : rank[x] \in Nat /\ rank[x] < k
      BY <1>4
    <3>2. \A x \in T : rank[x] \in 0..k - 1
      BY <1>0, <3>1
    <3> QED BY <3>2
  <2>2. g \in Injection(T, 0..k - 1)
    BY <1>7, <2>1 DEF Injection, IsInjective
  <2>3. \A j \in 0..k - 1 : \E x \in T : g[x] = j
    <3> TAKE j \in 0..k - 1
    <3>1. j \in 0..n - 1 /\ j < k
      BY <1>0
    <3>2. PICK x \in S : rank[x] = j
      BY <1>9, <3>1
    <3>3. x \in T /\ g[x] = j
      BY <3>1, <3>2
    <3> QED BY <3>3
  <2> HIDE DEF g
  <2>4. g \in Surjection(T, 0..k - 1)
    BY <2>1, <2>3 DEF Surjection
  <2>5. IsFiniteSet(0..k - 1) /\ Cardinality(0..k - 1) = k
    <3> HIDE DEF n
    <3>1. 0 \in Int /\ k - 1 \in Int /\ k \in Nat
      BY <1>0
    <3>2. /\ IsFiniteSet(0..k - 1)
          /\ Cardinality(0..k - 1) = IF 0 > k - 1 THEN 0 ELSE k - 1 - 0 + 1
      BY <3>1, FS_Interval
    <3> QED BY <3>1, <3>2
  <2>6. Cardinality(T) = Cardinality(0..k - 1)
    <3> HIDE DEF T
    <3> QED BY <2>2, <2>4, <2>5, FS_Injection
  <2> QED BY <2>5, <2>6 DEF Placed
<1> HIDE DEF f, Below
<1> QED BY <1>0, <1>5, <1>6, <1>7, <1>9, <1>10

-----------------------------------------------------------------------------
(* ContentStore. What can stand under a name: nothing, the bytes, or a       *)
(* prefix of them.                                                           *)
Bytes == Torn \cup {Missing}
File == [live : Bytes, durable : Bytes, entry : BOOLEAN]

StoreTypeOK ==
    /\ store \in [Contents -> [Names -> File]]
    /\ step \in {"idle", "write", "sync", "rename", "publish", "rest"}
    /\ step # "idle" => hash \in Contents
    /\ rest \in [Contents -> Bytes]
    /\ kept \subseteq Contents

\* How far a put has come: what is under the temporary name, and then under
\* its own. An object that is being put was not answered for before.
PutOK ==
    /\ step = "sync" => store[hash]["tmp"].live = Whole
    /\ step = "rename" => store[hash]["tmp"].live = Whole /\ store[hash]["tmp"].durable = Whole
    /\ step = "publish" => exists(hash, "object")
    /\ step \in {"write", "sync", "rename", "publish"} => hash \notin kept
    /\ step = "rest" => hash \in kept

\* Where power may be cut, a name that would not survive it belongs to the
\* put under way. Without this KeptIsFound is not inductive: an object that
\* was found and answered for could still be lost.
EntriesOK ==
    /\ \A c \in Contents : store[c]["object"].entry => exists(c, "object")
    /\ fault = "power" =>
        \A c \in Contents : exists(c, "object") /\ ~store[c]["object"].entry =>
            step = "publish" /\ c = hash

\* Only what was answered for has a rest file, so that StoredBeforeCut
\* follows from KeptIsFound.
RestOK == \A c \in Contents : rest[c] # Missing => c \in kept

StoreInv ==
    StoreTypeOK /\ PutOK /\ EntriesOK /\ RestOK /\ NamedIsWhole /\ KeptIsFound

\* The bytes are told apart.
LEMMA BytesDiffer ==
    /\ Whole # Missing /\ Whole # <<>> /\ Missing # <<>> /\ <<1>> # Missing /\ <<1>> # Whole
    /\ \A left \in Torn : <<>> \o left = left /\ left # Missing
    /\ Whole \in Torn /\ <<>> \in Torn
<1>1. Len(Whole) = 2 /\ Len(Missing) = 1 /\ Len(<<>>) = 0 /\ Len(<<1>>) = 1
    BY DEF Whole, Missing
<1>2. <<1>>[1] = 1 /\ Missing[1] = 0
    BY DEF Missing
<1>3. <<1>> # Missing /\ Whole # Missing /\ Whole # <<>> /\ Missing # <<>> /\ <<1>> # Whole
    BY <1>1, <1>2
<1>4. \A left \in Torn : left \in Seq(Nat)
    <2>1. <<>> \in Seq(Nat) /\ <<1>> \in Seq(Nat) /\ <<1, 2>> \in Seq(Nat)
        OBVIOUS
    <2> QED BY <2>1 DEF Torn, Whole
<1>5. \A left \in Torn : <<>> \o left = left
    BY <1>4
<1> QED BY <1>3, <1>5 DEF Torn

LEMMA NoneTypes ==
    None \in File /\ None.live = Missing /\ None.durable = Missing /\ ~None.entry
BY DEF None, File, Bytes

\* What writing under the temporary name leaves there.
LEMMA WriteLeaves ==
    ASSUME NEW file \in File, NEW left \in Torn
    PROVE  Rewritten(file, left) \in File /\ Rewritten(file, left).live = left
<1>1. Reset(file).live = <<>> /\ Reset(file) \in File
    BY BytesDiffer DEF Reset, Fresh, File, Bytes
<1>2. Reset(file).live \o left = left /\ left \in Bytes
    BY <1>1, BytesDiffer DEF Bytes
<1> QED BY <1>1, <1>2 DEF Rewritten, File

\* Changing the file under one of a content's names.
With(n, f) == [store EXCEPT ![hash][n] = f]

LEMMA OneFile ==
    ASSUME StoreTypeOK, hash \in Contents, NEW n \in Names, NEW f \in File
    PROVE  /\ With(n, f) \in [Contents -> [Names -> File]]
           /\ With(n, f)[hash][n] = f
           /\ \A c \in Contents, m \in Names : c # hash \/ m # n => With(n, f)[c][m] = store[c][m]
<1> DEFINE s == With(n, f)
<1>1. [store[hash] EXCEPT ![n] = f] \in [Names -> File]
    BY DEF StoreTypeOK
<1>2. s = [store EXCEPT ![hash][n] = f]
    BY DEF With
<1> HIDE DEF s
<1>3. s \in [Contents -> [Names -> File]]
    BY <1>1, <1>2 DEF StoreTypeOK
<1>4. /\ s[hash][n] = f
      /\ \A c \in Contents, m \in Names : c # hash \/ m # n => s[c][m] = store[c][m]
    BY <1>1, <1>2 DEF StoreTypeOK
<1> QED BY <1>3, <1>4 DEF s

\* A step that leaves the objects and their names as they are.
LEMMA ObjectsStay ==
    ASSUME StoreInv, StoreTypeOK', fault' = fault, kept' = kept, step # "publish",
           \A c \in Contents : store'[c]["object"] = store[c]["object"]
    PROVE  EntriesOK' /\ NamedIsWhole' /\ KeptIsFound'
BY DEF StoreInv, StoreTypeOK, EntriesOK, NamedIsWhole, KeptIsFound, exists

\* A broken write touches no object.
LEMMA BrokenIs ==
    ASSUME StoreTypeOK, NEW left \in Torn
    PROVE  /\ Broken(left) \in [Contents -> [Names -> File]]
           /\ \A c \in Contents : Broken(left)[c]["object"] = store[c]["object"]
<1>1. CASE step # "write"
    BY <1>1 DEF Broken, StoreTypeOK
<1>2. CASE step = "write"
    <2> DEFINE f == Rewritten(store[hash]["tmp"], left)
    <2>1. hash \in Contents /\ "tmp" \in Names /\ "object" \in Names /\ "object" # "tmp"
        BY <1>2 DEF StoreTypeOK, Names
    <2>2. store[hash]["tmp"] \in File
        BY <2>1 DEF StoreTypeOK
    <2>3. f \in File
        BY <2>2, WriteLeaves
    <2>4. Broken(left) = With("tmp", f)
        BY <1>2 DEF Broken, With
    <2> HIDE DEF f
    <2>5. /\ With("tmp", f) \in [Contents -> [Names -> File]]
          /\ \A c \in Contents, m \in Names : m # "tmp" => With("tmp", f)[c][m] = store[c][m]
        BY <2>1, <2>3, OneFile
    <2> QED BY <2>1, <2>4, <2>5
<1> QED BY <1>1, <1>2

\* A rest file may be broken only where its original is kept.
LEMMA RestBrokenIs ==
    ASSUME StoreTypeOK, PutOK, RestOK, NEW left \in Torn
    PROVE  /\ RestBroken(left) \in [Contents -> Bytes]
           /\ \A c \in Contents : RestBroken(left)[c] # Missing => c \in kept
BY DEF RestBroken, StoreTypeOK, PutOK, RestOK, Bytes

\* Sweeping the temporary names touches no object.
LEMMA SweptIs ==
    ASSUME NEW s \in [Contents -> [Names -> File]]
    PROVE  /\ Swept(s) \in [Contents -> [Names -> File]]
           /\ \A c \in Contents : Swept(s)[c]["object"] = s[c]["object"]
<1>1. \A c \in Contents : [s[c] EXCEPT !["tmp"] = None] \in [Names -> File]
    BY NoneTypes DEF Names
<1>2. \A c \in Contents : [s[c] EXCEPT !["tmp"] = None]["object"] = s[c]["object"]
    BY DEF Names
<1> QED BY <1>1, <1>2 DEF Swept

\* Every step of a put, and every fault of one kind, keeps the store.
LEMMA StoreStep ==
    ASSUME StoreInv, StoreNext
    PROVE  StoreInv'
<1>n. "tmp" \in Names /\ "object" \in Names /\ Names = {"tmp", "object"} /\ "tmp" # "object"
    BY DEF Names
<1> USE <1>n
<1>0. StoreTypeOK /\ PutOK /\ EntriesOK /\ RestOK /\ NamedIsWhole /\ KeptIsFound
    BY DEF StoreInv
<1>1. ASSUME NEW c \in Contents, NEW big \in BOOLEAN, put(c, big)
      PROVE  StoreInv'
    <2>1. /\ step = "idle" /\ hash' = c /\ UNCHANGED <<store, fault, rest>>
          /\ \/ /\ exists(c, "object") /\ kept' = kept \cup {c}
                /\ step' \in {"rest", "idle"}
             \/ /\ ~exists(c, "object") /\ kept' = kept /\ step' = "write"
        BY <1>1 DEF put, Done, Begin
    <2> QED BY <1>0, <2>1 DEF StoreInv, StoreTypeOK, PutOK, EntriesOK, RestOK, NamedIsWhole,
                              KeptIsFound, exists
<1>2. CASE materialize
    <2>1. StoreTypeOK' /\ RestOK'
        BY <1>0, <1>2, BytesDiffer DEF materialize, StoreTypeOK, PutOK, RestOK, Bytes
    <2>2. EntriesOK' /\ NamedIsWhole' /\ KeptIsFound'
        BY <1>2, <2>1, ObjectsStay DEF materialize
    <2> QED BY <1>2, <2>1, <2>2 DEF materialize, StoreInv, PutOK
<1>3. CASE write_tmp
    <2> DEFINE f == Rewritten(store[hash]["tmp"], Whole)
    <2>1. /\ step = "write" /\ step' = "sync" /\ hash \in Contents
          /\ store' = With("tmp", f)
          /\ UNCHANGED <<hash, fault, rest, kept>>
        BY <1>0, <1>3 DEF write_tmp, StoreTypeOK, With
    <2>2. store[hash]["tmp"] \in File
        BY <1>0, <2>1 DEF StoreTypeOK
    <2>3. f \in File /\ f.live = Whole
        BY <2>2, WriteLeaves, BytesDiffer
    <2> HIDE DEF f
    <2>4. /\ store' \in [Contents -> [Names -> File]] /\ store'[hash]["tmp"] = f
          /\ \A c \in Contents : store'[c]["object"] = store[c]["object"]
        BY <1>0, <2>1, <2>3, OneFile
    <2>5. StoreTypeOK'
        BY <1>0, <2>1, <2>4 DEF StoreTypeOK
    <2>6. EntriesOK' /\ NamedIsWhole' /\ KeptIsFound'
        BY <2>1, <2>4, <2>5, ObjectsStay
    <2>7. PutOK' /\ RestOK'
        BY <1>0, <2>1, <2>3, <2>4 DEF PutOK, RestOK
    <2> QED BY <2>5, <2>6, <2>7 DEF StoreInv
<1>4. CASE sync_tmp
    <2> DEFINE f == sync_data(store[hash]["tmp"])
    <2>1. /\ step = "sync" /\ step' = "rename" /\ hash \in Contents
          /\ store' = With("tmp", f)
          /\ UNCHANGED <<hash, fault, rest, kept>>
        BY <1>0, <1>4 DEF sync_tmp, StoreTypeOK, With
    <2>2. store[hash]["tmp"] \in File /\ store[hash]["tmp"].live = Whole
        BY <1>0, <2>1 DEF StoreTypeOK, PutOK
    <2>3. f \in File /\ f.live = Whole /\ f.durable = Whole
        BY <2>2, BytesDiffer DEF sync_data, File, Bytes
    <2> HIDE DEF f
    <2>4. /\ store' \in [Contents -> [Names -> File]] /\ store'[hash]["tmp"] = f
          /\ \A c \in Contents : store'[c]["object"] = store[c]["object"]
        BY <1>0, <2>1, <2>3, OneFile
    <2>5. StoreTypeOK'
        BY <1>0, <2>1, <2>4 DEF StoreTypeOK
    <2>6. EntriesOK' /\ NamedIsWhole' /\ KeptIsFound'
        BY <2>1, <2>4, <2>5, ObjectsStay
    <2>7. PutOK' /\ RestOK'
        BY <1>0, <2>1, <2>3, <2>4 DEF PutOK, RestOK
    <2> QED BY <2>5, <2>6, <2>7 DEF StoreInv
<1>5. CASE rename
    <2> DEFINE t == store[hash]["tmp"]
               f == [t EXCEPT !.entry = FALSE]
               h == [store[hash] EXCEPT !["object"] = f, !["tmp"] = None]
    <2>1. /\ step = "rename" /\ step' = "publish" /\ hash \in Contents
          /\ store' = [store EXCEPT ![hash]["object"] = f, ![hash]["tmp"] = None]
          /\ UNCHANGED <<hash, fault, rest, kept>>
        BY <1>0, <1>5 DEF rename, StoreTypeOK
    <2>2. t \in File /\ t.live = Whole /\ t.durable = Whole /\ hash \notin kept
        BY <1>0, <2>1 DEF StoreTypeOK, PutOK
    <2>3. f \in File /\ f.live = Whole /\ f.durable = Whole /\ ~f.entry
        BY <2>2 DEF File
    <2>4. h \in [Names -> File] /\ h["object"] = f
        BY <1>0, <2>1, <2>3, NoneTypes DEF StoreTypeOK
    <2>5. store' = [store EXCEPT ![hash] = h]
        BY <2>1
    <2> HIDE DEF t, f, h
    <2>6. /\ store' \in [Contents -> [Names -> File]] /\ store'[hash] = h
          /\ \A c \in Contents \ {hash} : store'[c] = store[c]
        BY <1>0, <2>1, <2>4, <2>5 DEF StoreTypeOK
    <2>7. store'[hash]["object"].live = Whole /\ store'[hash]["object"].durable = Whole
        BY <2>3, <2>4, <2>6
    <2>8. StoreTypeOK'
        BY <1>0, <2>1, <2>6 DEF StoreTypeOK
    <2>9. NamedIsWhole'
        BY <1>0, <2>6, <2>7 DEF NamedIsWhole, exists
    <2>10. KeptIsFound'
        BY <1>0, <2>1, <2>2, <2>6 DEF StoreTypeOK, KeptIsFound, exists
    <2>11. EntriesOK'
        <3>1. ~store'[hash]["object"].entry
            BY <2>3, <2>4, <2>6
        <3> QED BY <1>0, <2>1, <2>6, <3>1 DEF EntriesOK, exists
    <2>12. PutOK' /\ RestOK'
        BY <1>0, <2>1, <2>7, BytesDiffer DEF PutOK, RestOK, exists
    <2> QED BY <2>8, <2>9, <2>10, <2>11, <2>12 DEF StoreInv
<1>6. CASE publish
    <2> DEFINE o == store[hash]["object"]
               f == sync_dir(o)
    <2>1. /\ step = "publish" /\ step' \in {"rest", "idle"} /\ hash \in Contents
          /\ store' = With("object", f)
          /\ kept' = kept \cup {hash}
          /\ UNCHANGED <<hash, fault, rest>>
        BY <1>0, <1>6 DEF publish, Done, StoreTypeOK, With
    <2>2. o \in File /\ o.live = Whole /\ o.durable = Whole
        BY <1>0, <2>1 DEF StoreTypeOK, PutOK, NamedIsWhole
    <2>3. f \in File /\ f.live = Whole /\ f.durable = Whole /\ f.entry
        BY <2>2 DEF sync_dir, File
    <2> HIDE DEF o, f
    <2>4. /\ store' \in [Contents -> [Names -> File]] /\ store'[hash]["object"] = f
          /\ \A c \in Contents : c # hash => store'[c]["object"] = store[c]["object"]
        BY <1>0, <2>1, <2>3, OneFile
    <2>5. StoreTypeOK'
        BY <1>0, <2>1, <2>4 DEF StoreTypeOK
    <2>6. NamedIsWhole'
        BY <1>0, <2>3, <2>4 DEF NamedIsWhole, exists
    <2>7. KeptIsFound'
        BY <1>0, <2>1, <2>3, <2>4, BytesDiffer DEF StoreTypeOK, KeptIsFound, exists
    <2>8. EntriesOK'
        BY <1>0, <2>1, <2>3, <2>4, BytesDiffer DEF EntriesOK, exists
    <2>9. PutOK' /\ RestOK'
        BY <1>0, <2>1 DEF PutOK, RestOK
    <2> QED BY <2>5, <2>6, <2>7, <2>8, <2>9 DEF StoreInv
<1>7. ASSUME NEW left \in Torn, PowerOff(left)
      PROVE  StoreInv'
    <2> DEFINE s == [c \in Contents |-> [n \in Names |-> Survives(store[c][n], left)]]
    <2>1. /\ fault = "power" /\ step' = "idle" /\ rest' = RestBroken(left) /\ store' = Swept(s)
          /\ UNCHANGED <<hash, fault, kept>>
        BY <1>7 DEF PowerOff, Strike
    <2>2. \A f \in File : Survives(f, left) \in File
        BY NoneTypes DEF Survives, File, Bytes
    <2>3. s \in [Contents -> [Names -> File]]
        <3>1. \A c \in Contents, n \in Names : store[c][n] \in File
            BY <1>0 DEF StoreTypeOK
        <3> QED BY <2>2, <3>1
    <2>4. \A c \in Contents : s[c]["object"] = Survives(store[c]["object"], left)
        OBVIOUS
    <2> HIDE DEF s
    <2>5. /\ store' \in [Contents -> [Names -> File]]
          /\ \A c \in Contents : store'[c]["object"] = Survives(store[c]["object"], left)
        BY <2>1, <2>3, <2>4, SweptIs
    <2>6. ASSUME NEW c \in Contents, store[c]["object"].entry
          PROVE  /\ store'[c]["object"].live = Whole /\ store'[c]["object"].durable = Whole
                 /\ store'[c]["object"].entry
        <3>1. store[c]["object"].live = Whole /\ store[c]["object"].durable = Whole
            BY <1>0, <2>6 DEF NamedIsWhole, EntriesOK
        <3>2. Survives(store[c]["object"], left) = [live |-> Whole, durable |-> Whole, entry |-> TRUE]
            BY <2>6, <3>1 DEF Survives
        <3> QED BY <2>5, <3>2
    <2>7. ASSUME NEW c \in Contents, ~store[c]["object"].entry
          PROVE  store'[c]["object"].live = Missing /\ ~store'[c]["object"].entry
        BY <2>5, <2>7, NoneTypes DEF Survives
    <2>8. /\ rest' \in [Contents -> Bytes]
          /\ \A c \in Contents : rest'[c] # Missing => c \in kept
        BY <1>0, <2>1, RestBrokenIs
    <2>9. StoreTypeOK' /\ PutOK' /\ RestOK'
        BY <1>0, <2>1, <2>5, <2>8 DEF StoreTypeOK, PutOK, RestOK
    <2>10. NamedIsWhole' /\ EntriesOK'
        BY <2>6, <2>7, BytesDiffer DEF NamedIsWhole, EntriesOK, exists
    <2>11. KeptIsFound'
        <3>1. \A c \in kept : c \in Contents /\ exists(c, "object")
            BY <1>0 DEF StoreTypeOK, KeptIsFound
        <3>2. \A c \in kept : store[c]["object"].entry
            BY <1>0, <2>1, <3>1 DEF EntriesOK, PutOK
        <3> QED BY <2>1, <2>6, <3>1, <3>2, BytesDiffer DEF KeptIsFound, exists
    <2> QED BY <2>9, <2>10, <2>11 DEF StoreInv
<1>8. ASSUME NEW s \in [Contents -> [Names -> File]], NEW left \in Torn,
             \A c \in Contents : s[c]["object"] = store[c]["object"],
             store' = s, step' = "idle", rest' = RestBroken(left), step # "publish" \/ fault # "power",
             UNCHANGED <<hash, fault, kept>>
      PROVE  StoreInv'
    <2>1. /\ rest' \in [Contents -> Bytes]
          /\ \A c \in Contents : rest'[c] # Missing => c \in kept
        BY <1>0, <1>8, RestBrokenIs
    <2>2. StoreTypeOK' /\ PutOK' /\ RestOK'
        BY <1>0, <1>8, <2>1 DEF StoreTypeOK, PutOK, RestOK
    <2>3. EntriesOK' /\ NamedIsWhole' /\ KeptIsFound'
        BY <1>0, <1>8 DEF StoreTypeOK, EntriesOK, NamedIsWhole, KeptIsFound, exists
    <2> QED BY <2>2, <2>3 DEF StoreInv
<1>9. ASSUME NEW left \in Torn, Die(left)
      PROVE  StoreInv'
    <2>1. /\ fault = "kill" /\ step' = "idle" /\ rest' = RestBroken(left)
          /\ store' = Swept(Broken(left)) /\ UNCHANGED <<hash, fault, kept>>
        BY <1>9 DEF Die, Strike
    <2>2. /\ Swept(Broken(left)) \in [Contents -> [Names -> File]]
          /\ \A c \in Contents : Swept(Broken(left))[c]["object"] = store[c]["object"]
        BY <1>0, BrokenIs, SweptIs
    <2> QED BY <1>8, <2>1, <2>2
<1>10. ASSUME NEW left \in Torn, Fail(left)
       PROVE  StoreInv'
    <2>1. /\ fault = "io" /\ step' = "idle" /\ rest' = RestBroken(left)
          /\ store' = Broken(left) /\ UNCHANGED <<hash, fault, kept>>
        BY <1>10 DEF Fail, Strike
    <2>2. /\ Broken(left) \in [Contents -> [Names -> File]]
          /\ \A c \in Contents : Broken(left)[c]["object"] = store[c]["object"]
        BY <1>0, BrokenIs
    <2> QED BY <1>8, <2>1, <2>2
<1> QED BY <1>1, <1>2, <1>3, <1>4, <1>5, <1>6, <1>7, <1>9, <1>10 DEF StoreNext
\* Where the store is not the part at work it stands as it began.
LEMMA StoreHolds == Spec => []StoreInv
<1>1. Init => StoreInv
    <2> SUFFICES ASSUME Init PROVE StoreInv
        OBVIOUS
    <2>1. /\ store = [c \in Contents |-> [n \in Names |-> None]]
          /\ step = "idle" /\ rest = [c \in Contents |-> Missing] /\ kept = {}
        BY DEF Init, StoreInit, StoreAtRest
    <2>2. StoreTypeOK
        BY <2>1, NoneTypes DEF StoreTypeOK, Bytes
    <2>3. \A c \in Contents : store[c]["object"] = None
        BY <2>1 DEF Names
    <2> QED BY <2>1, <2>2, <2>3, NoneTypes
            DEF StoreInv, PutOK, EntriesOK, RestOK, NamedIsWhole, KeptIsFound, exists
<1>2. StoreInv /\ [Next]_vars => StoreInv'
    <2> SUFFICES ASSUME StoreInv, [Next]_vars PROVE StoreInv'
        OBVIOUS
    <2>1. CASE StoreNext
        BY <2>1, StoreStep
    <2>2. CASE UNCHANGED storeVars
        BY <2>2 DEF storeVars, StoreInv, StoreTypeOK, PutOK, EntriesOK, RestOK, NamedIsWhole,
                    KeptIsFound, exists
    <2> QED BY <2>1, <2>2 DEF Next, vars, Mcp, Store, Carrying, Ruling, Streaming, Billing,
                              Ordering, Looking
<1> QED BY <1>1, <1>2, PTL DEF Spec

\* What stands under its hash is whole, what a put answered for is found
\* again, and nothing is cut before its original is stored: for any contents,
\* any number of puts, and any number of power cuts, of kills or of failing
\* operations.
THEOREM StoreAlwaysKeeps == Spec => []StoreKeeps
<1>1. StoreInv => StoreKeeps
    BY DEF StoreInv, RestOK, KeptIsFound, StoreKeeps, StoredBeforeCut
<1> QED BY <1>1, StoreHolds, PTL

-----------------------------------------------------------------------------
(* McpSession.                                                               *)
Lives == {"initialize", "initialized", "tools/list", "tools/call", "dropped", "closed"}
Question == [method : Lives, serial : Nat]
Return == [asked : Nat, answer : Nat, life : Lives]

Later == {"tools/list", "tools/call"}

\* The lines are questions that were asked; over HTTP there are none. Nothing
\* is waited for while a line is written.
LinesOK ==
    /\ pipe \in Seq(Question) /\ answers \in Seq(Nat)
    /\ heard \in Seq(Lives) /\ got \in Seq(Return)
    /\ \A i \in 1..Len(pipe) : pipe[i].serial <= serial
    /\ transport \in {"stdio", "http"}
    /\ transport = "http" => /\ program = "plain"
                             /\ writing = "none" /\ pipe = <<>> /\ answers = <<>> /\ asked = 0
    /\ program # "wrapped" => kin = "none"
    /\ writing # "none" => asked = 0 /\ life \in {"initialize", "initialized"} \cup Later

\* The order the server reads in, over what it has read and what it has yet
\* to read: initialize is first, initialized is before the rest, and the run
\* goes on only after each was sent.
OrderOK ==
    /\ heard = <<>> /\ pipe # <<>> => pipe[1].method = "initialize"
    /\ \A i \in 1..Len(pipe) : pipe[i].method \in Later =>
            \/ \E j \in 1..Len(heard) : heard[j] = "initialized"
            \/ \E j \in 1..i - 1 : pipe[j].method = "initialized"
    /\ asked # 0 \/ life \in {"initialized"} \cup Later => heard # <<>> \/ pipe # <<>>
    /\ life \in Later => \/ \E j \in 1..Len(heard) : heard[j] = "initialized"
                         \/ \E j \in 1..Len(pipe) : pipe[j].method = "initialized"

\* Of a plain server at most one answer is on its way, and it is to the
\* question being waited for: once a question is given up on, nobody is left
\* to read it.
OneAnswer ==
    /\ \A i \in 1..Len(answers) : asked # 0 /\ answers[i] \in {0, asked}
    /\ Len(answers) <= 1
    /\ Reads =>
         /\ \A i \in 1..Len(pipe) : pipe[i].serial \in {0, asked}
         /\ \A i, j \in 1..Len(pipe) : pipe[i].serial # 0 /\ pipe[j].serial # 0 => i = j
         /\ answers # <<>> => \A i \in 1..Len(pipe) : pipe[i].serial = 0

McpInv ==
    /\ McpTypeOK /\ LinesOK /\ LifecycleInOrder /\ OrderOK
    /\ program = "plain" => AnswersItsOwn /\ OneAnswer

\* Adding a line at the end, and taking the first one off.
LEMMA Appended ==
    ASSUME NEW S, NEW s \in Seq(S), NEW e \in S
    PROVE  /\ Append(s, e) \in Seq(S) /\ Append(s, e) # <<>>
           /\ Len(s) \in Nat /\ Len(Append(s, e)) = Len(s) + 1
           /\ Append(s, e)[Len(s) + 1] = e
           /\ \A i \in 1..Len(s) : Append(s, e)[i] = s[i]
<1>1. /\ Append(s, e) \in Seq(S) /\ Len(s) \in Nat /\ Len(Append(s, e)) = Len(s) + 1
      /\ Append(s, e)[Len(s) + 1] = e /\ \A i \in 1..Len(s) : Append(s, e)[i] = s[i]
    OBVIOUS
<1>2. Append(s, e) # <<>>
    BY <1>1
<1> QED BY <1>1, <1>2

LEMMA Shifted ==
    ASSUME NEW S, NEW s \in Seq(S), s # <<>>
    PROVE  /\ Tail(s) \in Seq(S) /\ Head(s) \in S /\ Head(s) = s[1]
           /\ Len(s) \in Nat /\ Len(s) >= 1 /\ Len(Tail(s)) = Len(s) - 1
           /\ \A i \in 1..Len(s) - 1 : Tail(s)[i] = s[i + 1]
BY HeadTailProperties, EmptySeq

\* What every step leaves alone but for the lines and the run's own place.
McpTypes ==
    /\ serial \in Nat /\ asked \in Nat /\ asked <= serial /\ serial <= MaxAsks
    /\ pipe \in Seq(Question) /\ answers \in Seq(Nat)
    /\ heard \in Seq(Lives) /\ got \in Seq(Return) /\ life \in Lives
    /\ Len(pipe) \in Nat /\ Len(answers) \in Nat /\ Len(heard) \in Nat /\ Len(got) \in Nat

LEMMA McpTypesHold ==
    ASSUME McpInv
    PROVE  McpTypes
BY McpAssumption DEF McpInv, McpTypeOK, LinesOK, McpTypes, Lives

\* A line the run writes at the end of the pipe keeps the order.
LEMMA WriteKeepsOrder ==
    ASSUME McpInv, NEW m \in Lives, NEW n \in Nat,
           pipe' = Append(pipe, [method |-> m, serial |-> n]), heard' = heard,
           m \in Later => life \in Later, m # "initialize" => heard # <<>> \/ pipe # <<>>,
           life' \in Later => life \in Later \/ m = "initialized"
    PROVE  OrderOK' /\ LifecycleInOrder'
<1> DEFINE e == [method |-> m, serial |-> n]
<1>1. McpTypes
    BY McpTypesHold
<1>2. e \in Question /\ e.method = m
    BY DEF Question
<1>3. /\ pipe' \in Seq(Question) /\ pipe' # <<>> /\ Len(pipe) \in Nat
      /\ Len(pipe') = Len(pipe) + 1 /\ pipe'[Len(pipe) + 1] = e
      /\ \A i \in 1..Len(pipe) : pipe'[i] = pipe[i]
    BY <1>1, <1>2, Appended DEF McpTypes
<1> HIDE DEF e
<1>4. heard' = <<>> /\ pipe' # <<>> => pipe'[1].method = "initialize"
    <2>1. CASE pipe = <<>>
        BY <1>2, <1>3, <2>1 DEF e
    <2>2. CASE pipe # <<>>
        <3>1. 1 \in 1..Len(pipe)
            BY <1>1, <2>2, EmptySeq DEF McpTypes
        <3> QED BY <1>3, <2>2, <3>1 DEF McpInv, OrderOK
    <2> QED BY <2>1, <2>2
<1>5. ASSUME NEW i \in 1..Len(pipe'), pipe'[i].method \in Later
      PROVE  \/ \E j \in 1..Len(heard') : heard'[j] = "initialized"
             \/ \E j \in 1..i - 1 : pipe'[j].method = "initialized"
    <2>1. CASE i \in 1..Len(pipe)
        <3>1. \/ \E j \in 1..Len(heard) : heard[j] = "initialized"
              \/ \E j \in 1..i - 1 : pipe[j].method = "initialized"
            BY <1>3, <1>5, <2>1 DEF McpInv, OrderOK
        <3>2. \A j \in 1..i - 1 : pipe'[j] = pipe[j]
            BY <1>3, <2>1
        <3> QED BY <3>1, <3>2
    <2>2. CASE i = Len(pipe) + 1
        <3>1. life \in Later
            BY <1>2, <1>3, <1>5, <2>2
        <3>2. \/ \E j \in 1..Len(heard) : heard[j] = "initialized"
              \/ \E j \in 1..Len(pipe) : pipe[j].method = "initialized"
            BY <3>1 DEF McpInv, OrderOK
        <3> QED BY <1>3, <2>2, <3>2
    <2> QED BY <1>3, <2>1, <2>2
<1>6. ASSUME life' \in Later
      PROVE  \/ \E j \in 1..Len(heard') : heard'[j] = "initialized"
             \/ \E j \in 1..Len(pipe') : pipe'[j].method = "initialized"
    <2>1. CASE life \in Later
        <3>1. \/ \E j \in 1..Len(heard) : heard[j] = "initialized"
              \/ \E j \in 1..Len(pipe) : pipe[j].method = "initialized"
            BY <2>1 DEF McpInv, OrderOK
        <3>2. \A j \in 1..Len(pipe) : j \in 1..Len(pipe')
            BY <1>3
        <3> QED BY <1>3, <3>1, <3>2
    <2>2. CASE m = "initialized"
        BY <1>2, <1>3, <2>2
    <2> QED BY <1>6, <2>1, <2>2
<1>7. LifecycleInOrder'
    BY DEF McpInv, LifecycleInOrder
<1> QED BY <1>3, <1>4, <1>5, <1>6, <1>7 DEF OrderOK

\* A line the server reads, from the pipe or over HTTP, keeps it too.
LEMMA HearKeepsOrder ==
    ASSUME McpInv, NEW m \in Lives, heard' = Append(heard, m),
           heard = <<>> => m = "initialize",
           m \in Later => \E j \in 1..Len(heard) : heard[j] = "initialized"
    PROVE  /\ LifecycleInOrder' /\ heard' # <<>>
           /\ (\E j \in 1..Len(heard) : heard[j] = "initialized") \/ m = "initialized" =>
                 \E j \in 1..Len(heard') : heard'[j] = "initialized"
<1>1. McpTypes
    BY McpTypesHold
<1>2. /\ heard' \in Seq(Lives) /\ heard' # <<>> /\ Len(heard) \in Nat
      /\ Len(heard') = Len(heard) + 1 /\ heard'[Len(heard) + 1] = m
      /\ \A i \in 1..Len(heard) : heard'[i] = heard[i]
    BY <1>1, Appended DEF McpTypes
<1>3. heard'[1] = "initialize"
    <2>1. CASE heard = <<>>
        BY <1>2, <2>1
    <2>2. CASE heard # <<>>
        <3>1. Len(heard) >= 1 /\ 1 \in 1..Len(heard)
            BY <1>1, <2>2, EmptySeq DEF McpTypes
        <3> QED BY <1>2, <3>1 DEF McpInv, LifecycleInOrder
    <2> QED BY <2>1, <2>2
<1>4. ASSUME NEW i \in 1..Len(heard'), heard'[i] \in Later
      PROVE  \E j \in 1..i - 1 : heard'[j] = "initialized"
    <2>1. CASE i \in 1..Len(heard)
        <3>1. PICK j \in 1..i - 1 : heard[j] = "initialized"
            BY <1>2, <1>4, <2>1 DEF McpInv, LifecycleInOrder, Later
        <3>2. heard'[j] = heard[j]
            BY <1>2, <2>1
        <3> QED BY <3>1, <3>2
    <2>2. CASE i = Len(heard) + 1
        <3>1. PICK j \in 1..Len(heard) : heard[j] = "initialized"
            BY <1>2, <1>4, <2>2
        <3> QED BY <1>2, <2>2, <3>1
    <2> QED BY <1>2, <2>1, <2>2
<1>5. LifecycleInOrder'
    BY <1>3, <1>4 DEF LifecycleInOrder, Later
<1>6. ASSUME (\E j \in 1..Len(heard) : heard[j] = "initialized") \/ m = "initialized"
      PROVE  \E j \in 1..Len(heard') : heard'[j] = "initialized"
    BY <1>2, <1>6
<1> QED BY <1>2, <1>5, <1>6
\* A step that sends and reads nothing, and goes no further than it has sent.
LEMMA QuietKeepsOrder ==
    ASSUME McpInv, UNCHANGED <<pipe, heard>>, life' \in Later => life \in Later,
           asked' # 0 \/ life' \in {"initialized"} \cup Later =>
             asked # 0 \/ life \in {"initialized"} \cup Later
    PROVE  OrderOK' /\ LifecycleInOrder'
BY DEF McpInv, OrderOK, LifecycleInOrder

\* What a finished call adds to the history.
LEMMA GotKeeps ==
    ASSUME McpInv, NEW r \in Return, got' = Append(got, r)
    PROVE  /\ got' \in Seq(Return)
           /\ AnswersItsOwn /\ r.answer \in {0, r.asked} => AnswersItsOwn'
<1>1. /\ got' \in Seq(Return) /\ Len(got) \in Nat /\ Len(got') = Len(got) + 1
      /\ got'[Len(got) + 1] = r /\ \A i \in 1..Len(got) : got'[i] = got[i]
    BY McpTypesHold, Appended DEF McpTypes
<1>2. ASSUME AnswersItsOwn, r.answer \in {0, r.asked}, NEW i \in 1..Len(got')
      PROVE  got'[i].answer \in {0, got'[i].asked}
    <2>1. CASE i \in 1..Len(got)
        BY <1>1, <1>2, <2>1 DEF AnswersItsOwn
    <2>2. CASE i = Len(got) + 1
        BY <1>1, <1>2, <2>2
    <2> QED BY <1>1, <2>1, <2>2
<1> QED BY <1>1, <1>2 DEF AnswersItsOwn

\* Finish, with the answer it is given.
LEMMA FinishKeeps ==
    ASSUME McpInv, NEW result \in Nat, asked # 0, Finish(result),
           UNCHANGED <<transport, program, kin, writing, pipe, session, serial, written, heard>>,
           child' \in {"up", "down"}, answers' \in Seq(Nat),
           \A i \in 1..Len(answers') : answers'[i] \in 0..serial,
           transport = "http" => answers' = <<>>
    PROVE  /\ McpTypeOK' /\ LinesOK' /\ LifecycleInOrder' /\ OrderOK'
           /\ AnswersItsOwn /\ result \in {0, asked} => AnswersItsOwn'
<1> DEFINE r == [asked |-> asked, answer |-> result, life |-> life]
<1>1. McpTypes
    BY McpTypesHold
<1>2. r \in Return /\ r.asked = asked /\ r.answer = result
    BY <1>1 DEF Return, McpTypes
<1>3. asked' = 0 /\ got' = Append(got, r)
    BY DEF Finish
<1>4. life' \in Lives /\ (life' \in Later => life \in Later)
    BY <1>1 DEF Finish, AfterRefusal, AfterAnswer, McpTypes, Lives, Later
<1> HIDE DEF r
<1>5. got' \in Seq(Return) /\ (AnswersItsOwn /\ result \in {0, asked} => AnswersItsOwn')
    BY <1>2, <1>3, GotKeeps
<1>6. McpTypeOK'
    BY <1>1, <1>3, <1>4 DEF McpInv, McpTypeOK, McpTypes, Lives
<1>7. LinesOK'
    <2>1. writing = "none"
        BY DEF McpInv, LinesOK
    <2> QED BY <1>3, <1>5, <2>1 DEF McpInv, LinesOK
<1>8. LifecycleInOrder' /\ OrderOK'
    BY <1>3, <1>4, QuietKeepsOrder
<1> QED BY <1>5, <1>6, <1>7, <1>8

LEMMA McpStep ==
    ASSUME McpInv, McpNext
    PROVE  McpInv'
<1>0. McpTypes /\ McpTypeOK /\ LinesOK /\ LifecycleInOrder /\ OrderOK
      /\ (program = "plain" => AnswersItsOwn /\ OneAnswer)
    BY McpTypesHold DEF McpInv
<1>1. CASE call \/ notify
    <2>1. /\ transport = "stdio" /\ asked = 0 /\ serial' \in {serial, serial + 1} /\ serial' <= MaxAsks
          /\ life \in {"initialize", "initialized"} \cup Later
          /\ writing' \in {"fits", "blocked"}
          /\ UNCHANGED <<transport, program, child, kin, pipe, answers, session, life, asked, written,
                         heard, got>>
        <3>1. CASE call
            BY <1>0, <3>1, McpAssumption DEF call, Asking, Write, Later, McpTypes
        <3>2. CASE notify
            BY <1>0, <3>2 DEF notify, Write, McpTypes
        <3> QED BY <1>1, <3>1, <3>2
    <2>2. serial <= serial' /\ serial' \in Nat /\ serial \in Nat
        BY <1>0, <2>1 DEF McpTypes
    <2>3. OrderOK' /\ LifecycleInOrder'
        BY <2>1, QuietKeepsOrder
    <2>4. McpTypeOK'
        <3>1. 0..serial \subseteq 0..serial'
            BY <2>2
        <3>2. serial' \in 0..MaxAsks
            BY <2>1, <2>2, McpAssumption
        <3> QED BY <1>0, <2>1, <3>1, <3>2 DEF McpTypeOK
    <2>5. LinesOK'
        <3>1. \A i \in 1..Len(pipe) : pipe[i].serial <= serial'
            <4> TAKE i \in 1..Len(pipe)
            <4>1. pipe[i] \in Question
                BY <1>0 DEF McpTypes
            <4>2. pipe[i].serial \in Nat /\ pipe[i].serial <= serial
                BY <1>0, <4>1 DEF LinesOK, Question
            <4> QED BY <2>2, <4>2
        <3> QED BY <1>0, <2>1, <3>1 DEF LinesOK
    <2>6. (AnswersItsOwn => AnswersItsOwn') /\ (OneAnswer => OneAnswer')
        BY <2>1 DEF AnswersItsOwn, OneAnswer, Reads
    <2> QED BY <1>0, <2>1, <2>3, <2>4, <2>5, <2>6 DEF McpInv
<1>2. CASE flush \/ broken
    <2>1. /\ writing # "none" /\ writing' = "none"
          /\ UNCHANGED <<transport, program, child, kin, answers, session, serial, written, heard>>
        BY <1>2 DEF flush, broken
    <2>2. asked = 0 /\ transport = "stdio" /\ life \in {"initialize", "initialized"} \cup Later
        BY <1>0, <2>1 DEF LinesOK
    <2>3. CASE flush /\ life # "initialized"
        <3> DEFINE e == [method |-> life, serial |-> serial]
        <3>1. Reads /\ pipe' = Append(pipe, e) /\ asked' = serial /\ UNCHANGED <<life, got>>
            BY <2>3 DEF flush
        <3>2. e \in Question /\ e.serial = serial
            BY <1>0 DEF Question, McpTypes
        <3>3. OrderOK' /\ LifecycleInOrder'
            <4>1. life \in Lives /\ serial \in Nat
                BY <1>0 DEF McpTypes
            <4>2. life # "initialize" => heard # <<>> \/ pipe # <<>>
                BY <1>0, <2>2 DEF OrderOK, Later
            <4>3. pipe' = Append(pipe, [method |-> life, serial |-> serial])
                  /\ heard' = heard /\ life' = life
                BY <2>1, <3>1
            <4> QED BY <4>1, <4>2, <4>3, WriteKeepsOrder
        <3> HIDE DEF e
        <3>4. /\ pipe' \in Seq(Question) /\ Len(pipe) \in Nat
              /\ Len(pipe') = Len(pipe) + 1 /\ pipe'[Len(pipe) + 1] = e
              /\ \A i \in 1..Len(pipe) : pipe'[i] = pipe[i]
            BY <1>0, <3>1, <3>2, Appended DEF McpTypes
        <3>5. McpTypeOK'
            BY <1>0, <2>1, <3>1 DEF McpTypeOK, McpTypes
        <3>6. LinesOK'
            <4>1. \A i \in 1..Len(pipe') : pipe'[i].serial <= serial'
                <5> TAKE i \in 1..Len(pipe')
                <5>1. CASE i \in 1..Len(pipe)
                    BY <1>0, <2>1, <3>4, <5>1 DEF LinesOK
                <5>2. CASE i = Len(pipe) + 1
                    BY <1>0, <2>1, <3>2, <3>4, <5>2 DEF McpTypes
                <5> QED BY <3>4, <5>1, <5>2
            <4> QED BY <1>0, <2>1, <2>2, <3>1, <3>4, <4>1 DEF LinesOK
        <3>7. ASSUME program = "plain"
              PROVE  AnswersItsOwn' /\ OneAnswer'
            <4>1. answers = <<>> /\ \A i \in 1..Len(pipe) : pipe[i].serial = 0
                <5>1. Len(answers) = 0
                    BY <1>0, <2>2, <3>7 DEF OneAnswer, McpTypes
                <5> QED BY <1>0, <2>2, <3>1, <3>7, <5>1, EmptySeq DEF OneAnswer, McpTypes
            <4>2. \A i \in 1..Len(pipe') : pipe'[i].serial = IF i = Len(pipe) + 1 THEN asked' ELSE 0
                BY <3>1, <3>2, <3>4, <4>1
            <4>3. answers' = <<>> /\ Len(answers') = 0
                BY <2>1, <4>1
            <4>4. OneAnswer'
                BY <4>2, <4>3 DEF OneAnswer
            <4> QED BY <1>0, <3>1, <3>7, <4>4 DEF AnswersItsOwn
        <3> QED BY <2>1, <3>3, <3>5, <3>6, <3>7 DEF McpInv
    <2>4. CASE flush /\ life = "initialized"
        <3> DEFINE e == [method |-> "initialized", serial |-> 0]
        <3>1. pipe' = Append(pipe, e) /\ life' = "tools/list" /\ UNCHANGED <<asked, got>>
            BY <2>4 DEF flush
        <3>2. e \in Question /\ e.serial = 0
            BY DEF Question, Lives
        <3>3. OrderOK' /\ LifecycleInOrder'
            BY <1>0, <2>1, <2>4, <3>1, WriteKeepsOrder DEF Lives, OrderOK, Later
        <3> HIDE DEF e
        <3>4. /\ pipe' \in Seq(Question) /\ Len(pipe) \in Nat
              /\ Len(pipe') = Len(pipe) + 1 /\ pipe'[Len(pipe) + 1] = e
              /\ \A i \in 1..Len(pipe) : pipe'[i] = pipe[i]
            BY <1>0, <3>1, <3>2, Appended DEF McpTypes
        <3>5. \A i \in 1..Len(pipe') : \/ i \in 1..Len(pipe) /\ pipe'[i] = pipe[i]
                                       \/ i = Len(pipe) + 1 /\ pipe'[i].serial = 0
            BY <3>2, <3>4
        <3>6. McpTypeOK'
            BY <1>0, <2>1, <3>1 DEF McpTypeOK
        <3>7. LinesOK'
            BY <1>0, <2>1, <2>2, <3>1, <3>4, <3>5 DEF LinesOK, McpTypes
        <3>8. ASSUME program = "plain"
              PROVE  OneAnswer'
            BY <1>0, <2>1, <3>1, <3>5, <3>8 DEF OneAnswer, Reads
        <3> QED BY <1>0, <2>1, <3>1, <3>3, <3>6, <3>7, <3>8 DEF McpInv, AnswersItsOwn
    <2>5. CASE broken
        <3> DEFINE r == [asked |-> serial, answer |-> 0, life |-> life]
        <3>1. /\ life' = AfterRefusal /\ UNCHANGED <<pipe, asked>>
              /\ got' = got \/ got' = Append(got, r)
            BY <2>5 DEF broken
        <3>2. r \in Return /\ r.answer = 0
            BY <1>0 DEF Return, McpTypes
        <3> HIDE DEF r
        <3>3. got' \in Seq(Return) /\ (AnswersItsOwn => AnswersItsOwn')
            <4>1. CASE got' = got
                BY <1>0, <4>1 DEF McpTypes, AnswersItsOwn
            <4>2. CASE got' = Append(got, r)
                BY <3>2, <4>2, GotKeeps
            <4> QED BY <3>1, <4>1, <4>2
        <3>4. life' \in Lives /\ (life' \in Later => life \in Later)
              /\ life' # "initialized"
            BY <1>0, <3>1 DEF AfterRefusal, McpTypes, Lives, Later
        <3>5. OrderOK' /\ LifecycleInOrder'
            BY <2>1, <3>1, <3>4, QuietKeepsOrder
        <3>6. McpTypeOK'
            BY <1>0, <2>1, <3>1, <3>4 DEF McpTypeOK, Lives
        <3>7. LinesOK'
            BY <1>0, <2>1, <2>2, <3>1, <3>3 DEF LinesOK
        <3>8. program = "plain" => OneAnswer'
            BY <1>0, <2>1, <3>1 DEF OneAnswer, Reads
        <3> QED BY <1>0, <2>1, <3>3, <3>5, <3>6, <3>7, <3>8 DEF McpInv
    <2> QED BY <1>2, <2>3, <2>4, <2>5
<1>3. CASE receive
    <2>1. /\ asked # 0 /\ answers # <<>> /\ Finish(Head(answers)) /\ answers' = Tail(answers)
          /\ UNCHANGED <<transport, program, child, kin, writing, pipe, session, serial, written, heard>>
        BY <1>3 DEF receive
    <2>2. /\ Tail(answers) \in Seq(Nat) /\ Head(answers) \in Nat /\ Head(answers) = answers[1]
          /\ Len(answers) >= 1 /\ Len(Tail(answers)) = Len(answers) - 1
          /\ \A i \in 1..Len(answers) - 1 : Tail(answers)[i] = answers[i + 1]
        BY <1>0, <2>1, Shifted DEF McpTypes
    <2>3. \A i \in 1..Len(answers') : answers'[i] \in 0..serial
        <3> TAKE i \in 1..Len(answers')
        <3>1. i + 1 \in 1..Len(answers) /\ answers'[i] = answers[i + 1]
            BY <1>0, <2>1, <2>2 DEF McpTypes
        <3> QED BY <1>0, <3>1 DEF McpTypeOK
    <2>4. /\ McpTypeOK' /\ LinesOK' /\ LifecycleInOrder' /\ OrderOK'
          /\ AnswersItsOwn /\ Head(answers) \in {0, asked} => AnswersItsOwn'
        <3>1. transport # "http"
            BY <1>0, <2>1 DEF LinesOK
        <3>2. child' \in {"up", "down"}
            BY <1>0, <2>1 DEF McpTypeOK
        <3> QED BY <2>1, <2>2, <2>3, <3>1, <3>2, FinishKeeps
    <2>5. ASSUME program = "plain"
          PROVE  Head(answers) \in {0, asked} /\ OneAnswer'
        <3>1. Len(answers) = 1 /\ answers[1] \in {0, asked}
            BY <1>0, <2>2, <2>5 DEF OneAnswer, McpTypes
        <3>2. Len(answers') = 0 /\ answers' = <<>>
            <4>1. answers' \in Seq(Nat) /\ Len(answers') = 0
                BY <2>1, <2>2, <3>1
            <4> QED BY <4>1, EmptySeq
        <3>3. Reads => \A i \in 1..Len(pipe) : pipe[i].serial = 0
            BY <1>0, <2>1, <2>5 DEF OneAnswer
        <3>4. OneAnswer'
            <4>1. Reads' => Reads /\ pipe' = pipe
                BY <2>1 DEF Reads
            <4> QED BY <3>2, <3>3, <4>1 DEF OneAnswer
        <3> QED BY <2>2, <3>1, <3>4
    <2> QED BY <1>0, <2>1, <2>4, <2>5 DEF McpInv
<1>4. CASE timeout \/ disconnected
    <2>1. /\ asked # 0 /\ answers = <<>> /\ Finish(0)
          /\ UNCHANGED <<transport, program, kin, writing, pipe, answers, session, serial, written, heard>>
          /\ child' = "down" \/ (child' = child /\ ~Reads)
        BY <1>4 DEF timeout, disconnected, reclaim
    <2>2. answers' = <<>> /\ Len(answers') = 0 /\ answers' \in Seq(Nat)
        BY <2>1
    <2>3. /\ McpTypeOK' /\ LinesOK' /\ LifecycleInOrder' /\ OrderOK'
          /\ AnswersItsOwn => AnswersItsOwn'
        <3>1. child' \in {"up", "down"}
            BY <1>0, <2>1 DEF McpTypeOK
        <3> QED BY <2>1, <2>2, <3>1, FinishKeeps
    <2>4. ASSUME program = "plain"
          PROVE  OneAnswer'
        <3>1. ~Reads'
            BY <1>0, <2>1, <2>4 DEF Reads, LinesOK
        <3> QED BY <2>2, <3>1 DEF OneAnswer
    <2> QED BY <1>0, <2>1, <2>3, <2>4 DEF McpInv
<1>5. CASE drop
    <2>1. /\ writing = "none" /\ asked = 0 /\ child' = "down" /\ life' = "closed"
          /\ UNCHANGED <<transport, program, kin, writing, pipe, answers, session, asked, serial,
                         written, heard, got>>
        BY <1>5 DEF drop, reclaim
    <2>2. OrderOK' /\ LifecycleInOrder'
        BY <2>1, QuietKeepsOrder DEF Later
    <2>3. McpTypeOK' /\ LinesOK'
        BY <1>0, <2>1 DEF McpTypeOK, LinesOK
    <2>4. ASSUME program = "plain"
          PROVE  OneAnswer' /\ AnswersItsOwn'
        <3>1. ~Reads'
            BY <1>0, <2>1, <2>4 DEF Reads, LinesOK
        <3> QED BY <1>0, <2>1, <2>4, <3>1 DEF OneAnswer, AnswersItsOwn
    <2> QED BY <2>1, <2>2, <2>3, <2>4 DEF McpInv
<1>6. CASE \E o \in Outcomes : post(o)
    <2>1. PICK o \in Outcomes : post(o)
        BY <1>6
    <2> DEFINE r == [asked |-> serial + 1, life |-> life,
                     answer |-> IF o = "answered" THEN serial + 1 ELSE 0]
    <2>2. /\ transport = "http" /\ life \in {"initialize"} \cup Later /\ asked = 0
          /\ serial < MaxAsks /\ serial' = serial + 1 /\ session' \in {serial + 1, session, 0}
          /\ heard' = IF o = "lost" THEN heard ELSE Append(heard, life)
          /\ got' = Append(got, r)
          /\ life' = IF o = "answered" THEN AfterAnswer ELSE AfterRefusal
          /\ UNCHANGED <<transport, program, child, kin, writing, pipe, answers, asked, written>>
        BY <2>1 DEF post, Asking, Later, forget
    <2>3. program = "plain" /\ pipe = <<>> /\ Len(pipe) = 0 /\ answers = <<>> /\ Len(answers) = 0
        BY <1>0, <2>2 DEF LinesOK
    <2>4. r \in Return /\ r.answer \in {0, r.asked}
        BY <1>0 DEF Return, McpTypes
    <2> HIDE DEF r
    <2>5. got' \in Seq(Return) /\ (AnswersItsOwn => AnswersItsOwn')
        BY <2>2, <2>4, GotKeeps
    <2>6. /\ life' \in Lives /\ (life' \in Later => life \in Later)
          /\ life' = "initialized" => o # "lost"
        BY <1>0, <2>2 DEF AfterAnswer, AfterRefusal, McpTypes, Lives, Later
    <2>7. heard = <<>> => life = "initialize"
        BY <1>0, <2>2, <2>3 DEF OrderOK
    <2>8. life \in Later => \E j \in 1..Len(heard) : heard[j] = "initialized"
        BY <1>0, <2>3 DEF OrderOK
    <2>9. OrderOK' /\ LifecycleInOrder' /\ heard' \in Seq(Lives)
        <3>1. CASE o = "lost"
            <4>1. heard' = heard
                BY <2>2, <3>1
            <4> QED BY <1>0, <2>2, <2>6, <3>1, <4>1, QuietKeepsOrder DEF McpTypes
        <3>2. CASE o # "lost"
            <4>1. heard' = Append(heard, life) /\ life \in Lives
                BY <1>0, <2>2, <3>2 DEF McpTypes
            <4>2. /\ LifecycleInOrder' /\ heard' # <<>>
                  /\ life \in Later => \E j \in 1..Len(heard') : heard'[j] = "initialized"
                BY <2>7, <2>8, <4>1, HearKeepsOrder
            <4>3. heard' \in Seq(Lives)
                BY <1>0, <4>1, Appended DEF McpTypes
            <4>4. pipe' = <<>> /\ Len(pipe') = 0
                BY <2>2, <2>3
            <4>5. OrderOK'
                BY <2>6, <4>2, <4>4 DEF OrderOK
            <4> QED BY <4>2, <4>3, <4>5
        <3> QED BY <3>1, <3>2
    <2>10. McpTypeOK'
        <3>1. serial' \in 0..MaxAsks /\ asked' \in 0..serial' /\ session' \in 0..serial'
            BY <1>0, <2>2, McpAssumption DEF McpTypeOK, McpTypes
        <3>2. Len(answers') = 0
            BY <2>2, <2>3
        <3> QED BY <1>0, <2>2, <2>6, <3>1, <3>2 DEF McpTypeOK, Lives
    <2>11. LinesOK'
        BY <1>0, <2>2, <2>3, <2>5, <2>9 DEF LinesOK
    <2>12. OneAnswer'
        <3>1. Len(answers') = 0 /\ answers' = <<>> /\ Len(pipe') = 0
            BY <2>2, <2>3
        <3> QED BY <3>1 DEF OneAnswer
    <2> QED BY <1>0, <2>2, <2>3, <2>5, <2>9, <2>10, <2>11, <2>12 DEF McpInv
<1>7. CASE \E o \in Outcomes : post_notify(o)
    <2>1. PICK o \in Outcomes : post_notify(o)
        BY <1>7
    <2>2. /\ transport = "http" /\ life = "initialized" /\ session' \in {session, 0}
          /\ heard' = IF o = "lost" THEN heard ELSE Append(heard, "initialized")
          /\ life' = IF o = "answered" THEN "tools/list" ELSE "dropped"
          /\ UNCHANGED <<transport, program, child, kin, writing, pipe, answers, asked, serial, written, got>>
        BY <2>1 DEF post_notify, forget
    <2>3. program = "plain" /\ pipe = <<>> /\ Len(pipe) = 0 /\ answers = <<>> /\ Len(answers) = 0
          /\ asked = 0
        BY <1>0, <2>2 DEF LinesOK
    <2>4. heard # <<>>
        BY <1>0, <2>2, <2>3 DEF OrderOK
    <2>5. OrderOK' /\ LifecycleInOrder' /\ heard' \in Seq(Lives)
        <3>1. CASE o = "lost"
            <4>1. heard' = heard /\ life' = "dropped"
                BY <2>2, <3>1
            <4> QED BY <1>0, <2>2, <4>1, QuietKeepsOrder DEF McpTypes, Later
        <3>2. CASE o # "lost"
            <4>1. heard' = Append(heard, "initialized") /\ "initialized" \in Lives
                BY <2>2, <3>2 DEF Lives
            <4>2. /\ LifecycleInOrder' /\ heard' # <<>>
                  /\ \E j \in 1..Len(heard') : heard'[j] = "initialized"
                BY <2>4, <4>1, HearKeepsOrder DEF Later
            <4>3. heard' \in Seq(Lives)
                BY <1>0, <4>1, Appended DEF McpTypes
            <4>4. pipe' = <<>> /\ Len(pipe') = 0
                BY <2>2, <2>3
            <4>5. OrderOK'
                BY <4>2, <4>4 DEF OrderOK
            <4> QED BY <4>2, <4>3, <4>5
        <3> QED BY <3>1, <3>2
    <2>6. McpTypeOK'
        BY <1>0, <2>2 DEF McpTypeOK, McpTypes
    <2>7. LinesOK'
        BY <1>0, <2>2, <2>3, <2>5 DEF LinesOK
    <2>8. OneAnswer'
        <3>1. Len(answers') = 0 /\ answers' = <<>> /\ Len(pipe') = 0
            BY <2>2, <2>3
        <3> QED BY <3>1 DEF OneAnswer
    <2> QED BY <1>0, <2>2, <2>3, <2>5, <2>6, <2>7, <2>8 DEF McpInv, AnswersItsOwn
<1>8. CASE \E r \in Replies : serve(r)
    <2>1. PICK r \in Replies : serve(r)
        BY <1>8
    <2>2. /\ Reads /\ pipe # <<>> /\ written < MaxLines
          /\ heard' = Append(heard, Head(pipe).method) /\ pipe' = Tail(pipe)
          /\ UNCHANGED <<transport, program, child, kin, writing, session, life, asked, serial, got>>
        BY <2>1 DEF serve
    <2> DEFINE reply == IF r = "error" THEN 0 ELSE Head(pipe).serial
    <2>3. \/ UNCHANGED <<answers, written>>
          \/ /\ Head(pipe).serial # 0 /\ written' = written + 1
             /\ answers' = Append(answers, reply)
        BY <2>1 DEF serve
    <2>4. /\ pipe' \in Seq(Question) /\ Head(pipe) \in Question /\ Head(pipe) = pipe[1]
          /\ Len(pipe) \in Nat /\ Len(pipe) >= 1 /\ Len(pipe') = Len(pipe) - 1
          /\ \A i \in 1..Len(pipe) - 1 : pipe'[i] = pipe[i + 1]
        BY <1>0, <2>2, Shifted DEF McpTypes
    <2>5. Head(pipe).method \in Lives /\ Head(pipe).serial \in Nat /\ Head(pipe).serial <= serial
        BY <1>0, <2>4 DEF Question, LinesOK
    <2>5a. reply \in Nat /\ reply <= serial /\ reply \in {0, Head(pipe).serial}
        BY <1>0, <2>5 DEF McpTypes
    <2> HIDE DEF reply
    <2>6. \A i \in 1..Len(pipe') : i + 1 \in 1..Len(pipe) /\ pipe'[i] = pipe[i + 1]
        BY <2>4
    <2>7. heard = <<>> => Head(pipe).method = "initialize"
        BY <1>0, <2>2, <2>4 DEF OrderOK
    <2>8. Head(pipe).method \in Later => \E j \in 1..Len(heard) : heard[j] = "initialized"
        BY <1>0, <2>4 DEF OrderOK
    <2>9. /\ LifecycleInOrder' /\ heard' # <<>>
          /\ (\E j \in 1..Len(heard) : heard[j] = "initialized") \/ Head(pipe).method = "initialized"
               => \E j \in 1..Len(heard') : heard'[j] = "initialized"
        BY <2>2, <2>5, <2>7, <2>8, HearKeepsOrder
    <2>10. heard' \in Seq(Lives)
        BY <1>0, <2>2, <2>5, Appended DEF McpTypes
    <2>11. OrderOK'
        <3>1. ASSUME NEW i \in 1..Len(pipe'), pipe'[i].method \in Later
              PROVE  \/ \E j \in 1..Len(heard') : heard'[j] = "initialized"
                     \/ \E j \in 1..i - 1 : pipe'[j].method = "initialized"
            <4>1. \/ \E j \in 1..Len(heard) : heard[j] = "initialized"
                  \/ \E j \in 1..i : pipe[j].method = "initialized"
                BY <1>0, <2>6, <3>1 DEF OrderOK
            <4>2. ASSUME NEW j \in 1..i, pipe[j].method = "initialized", j # 1
                  PROVE  \E k \in 1..i - 1 : pipe'[k].method = "initialized"
                <5>1. j - 1 \in 1..i - 1 /\ j - 1 \in 1..Len(pipe')
                    BY <2>4, <4>2
                <5>2. pipe'[j - 1] = pipe[j]
                    BY <2>6, <5>1
                <5> QED BY <4>2, <5>1, <5>2
            <4> QED BY <2>4, <2>9, <4>1, <4>2
        <3>2. ASSUME life' \in Later
              PROVE  \/ \E j \in 1..Len(heard') : heard'[j] = "initialized"
                     \/ \E j \in 1..Len(pipe') : pipe'[j].method = "initialized"
            <4>1. \/ \E j \in 1..Len(heard) : heard[j] = "initialized"
                  \/ \E j \in 1..Len(pipe) : pipe[j].method = "initialized"
                BY <1>0, <2>2, <3>2 DEF OrderOK
            <4>2. ASSUME NEW j \in 1..Len(pipe), pipe[j].method = "initialized", j # 1
                  PROVE  \E k \in 1..Len(pipe') : pipe'[k].method = "initialized"
                <5>1. j - 1 \in 1..Len(pipe')
                    BY <2>4, <4>2
                <5>2. pipe'[j - 1] = pipe[j]
                    BY <2>6, <5>1
                <5> QED BY <4>2, <5>1, <5>2
            <4> QED BY <2>4, <2>9, <4>1, <4>2
        <3> QED BY <2>9, <3>1, <3>2 DEF OrderOK
    <2>12. /\ answers' \in Seq(Nat) /\ written' \in 0..MaxLines
           /\ \A i \in 1..Len(answers') : answers'[i] \in 0..serial'
        <3>1. CASE UNCHANGED <<answers, written>>
            BY <1>0, <2>2, <3>1 DEF McpTypes, McpTypeOK
        <3>2. CASE /\ Head(pipe).serial # 0 /\ written' = written + 1
                   /\ answers' = Append(answers, reply)
            <4>1. /\ answers' \in Seq(Nat) /\ Len(answers) \in Nat
                  /\ Len(answers') = Len(answers) + 1
                  /\ answers'[Len(answers) + 1] = reply
                  /\ \A i \in 1..Len(answers) : answers'[i] = answers[i]
                BY <1>0, <2>5a, <3>2, Appended DEF McpTypes
            <4>2. written' \in 0..MaxLines
                BY <1>0, <2>2, <3>2, McpAssumption DEF McpTypeOK
            <4>3. \A i \in 1..Len(answers') : answers'[i] \in 0..serial
                <5> TAKE i \in 1..Len(answers')
                <5>1. CASE i \in 1..Len(answers)
                    BY <1>0, <4>1, <5>1 DEF McpTypeOK
                <5>2. CASE i = Len(answers) + 1
                    BY <1>0, <2>5a, <4>1, <5>2 DEF McpTypes
                <5> QED BY <4>1, <5>1, <5>2
            <4> QED BY <2>2, <4>1, <4>2, <4>3
        <3> QED BY <2>3, <3>1, <3>2
    <2>13. McpTypeOK'
        BY <1>0, <2>2, <2>12 DEF McpTypeOK
    <2>14. LinesOK'
        <3>1. transport # "http"
            BY <1>0, <2>2 DEF LinesOK
        <3>2. \A i \in 1..Len(pipe') : pipe'[i].serial <= serial'
            BY <1>0, <2>2, <2>6 DEF LinesOK
        <3> QED BY <1>0, <2>2, <2>4, <2>10, <2>12, <3>1, <3>2 DEF LinesOK
    <2>15. ASSUME program = "plain"
           PROVE  OneAnswer'
        <3>1. /\ \A i \in 1..Len(pipe) : pipe[i].serial \in {0, asked}
              /\ \A i, j \in 1..Len(pipe) : pipe[i].serial # 0 /\ pipe[j].serial # 0 => i = j
              /\ answers # <<>> => \A i \in 1..Len(pipe) : pipe[i].serial = 0
              /\ \A i \in 1..Len(answers) : asked # 0 /\ answers[i] \in {0, asked}
              /\ Len(answers) <= 1
            BY <1>0, <2>2, <2>15 DEF OneAnswer
        <3>2. \A i, j \in 1..Len(pipe') : pipe'[i].serial # 0 /\ pipe'[j].serial # 0 => i = j
            <4> TAKE i, j \in 1..Len(pipe')
            <4>1. i + 1 \in 1..Len(pipe) /\ j + 1 \in 1..Len(pipe)
                  /\ pipe'[i] = pipe[i + 1] /\ pipe'[j] = pipe[j + 1]
                BY <2>6
            <4>2. pipe'[i].serial # 0 /\ pipe'[j].serial # 0 => i + 1 = j + 1
                BY <3>1, <4>1
            <4> QED BY <2>4, <4>2
        <3>3. \A i \in 1..Len(pipe') : pipe'[i].serial \in {0, asked'}
            BY <2>2, <2>6, <3>1
        <3>4. CASE UNCHANGED <<answers, written>>
            <4>1. answers' # <<>> => \A i \in 1..Len(pipe') : pipe'[i].serial = 0
                BY <2>6, <3>1, <3>4
            <4> QED BY <2>2, <3>1, <3>2, <3>3, <3>4, <4>1 DEF OneAnswer
        <3>5. CASE /\ Head(pipe).serial # 0 /\ written' = written + 1
                   /\ answers' = Append(answers, reply)
            <4>1. 1 \in 1..Len(pipe) /\ pipe[1].serial = asked /\ asked # 0
                BY <2>4, <3>1, <3>5
            <4>2. answers = <<>> /\ Len(answers) = 0
                BY <3>1, <3>5, <4>1
            <4>3. Len(answers') = 1 /\ answers'[1] \in {0, asked}
                <5>1. Len(answers') = Len(answers) + 1 /\ answers'[Len(answers) + 1] = reply
                    BY <1>0, <2>5a, <3>5, Appended DEF McpTypes
                <5> QED BY <2>4, <2>5a, <4>1, <4>2, <5>1
            <4>4. \A i \in 1..Len(pipe') : pipe'[i].serial = 0
                <5> TAKE i \in 1..Len(pipe')
                <5>1. i + 1 \in 1..Len(pipe) /\ pipe'[i] = pipe[i + 1] /\ i + 1 # 1
                    BY <2>4, <2>6
                <5> QED BY <3>1, <4>1, <5>1
            <4>5. \A i \in 1..Len(answers') : asked' # 0 /\ answers'[i] \in {0, asked'}
                BY <2>2, <4>1, <4>3
            <4> QED BY <3>2, <3>3, <4>3, <4>4, <4>5 DEF OneAnswer
        <3> QED BY <2>3, <3>4, <3>5
    <2> QED BY <1>0, <2>2, <2>9, <2>11, <2>13, <2>14, <2>15 DEF McpInv, AnswersItsOwn
<1>9. CASE notice
    <2>1. /\ program = "chatty" /\ written < MaxLines /\ written' = written + 1
          /\ answers' = Append(answers, 0)
          /\ UNCHANGED <<transport, program, child, kin, writing, pipe, session, life, asked, serial, heard, got>>
        BY <1>9 DEF notice
    <2>2. /\ answers' \in Seq(Nat) /\ Len(answers) \in Nat /\ Len(answers') = Len(answers) + 1
          /\ answers'[Len(answers) + 1] = 0 /\ \A i \in 1..Len(answers) : answers'[i] = answers[i]
        BY <1>0, <2>1, Appended DEF McpTypes
    <2>3. OrderOK' /\ LifecycleInOrder'
        BY <2>1, QuietKeepsOrder
    <2>4. \A i \in 1..Len(answers') : answers'[i] \in 0..serial'
        BY <1>0, <2>1, <2>2 DEF McpTypeOK, McpTypes
    <2>5. McpTypeOK'
        BY <1>0, <2>1, <2>4, McpAssumption DEF McpTypeOK
    <2>6. LinesOK'
        BY <1>0, <2>1, <2>2 DEF LinesOK
    <2> QED BY <2>1, <2>3, <2>5, <2>6 DEF McpInv
<1>10. CASE exit
    <2>1. /\ transport = "stdio" /\ child' = "down" /\ kin' = IF kin = "up" THEN "none" ELSE kin
          /\ UNCHANGED <<transport, program, writing, pipe, answers, session, life, asked, serial, written,
                         heard, got>>
        BY <1>10 DEF exit
    <2>2. OrderOK' /\ LifecycleInOrder'
        BY <2>1, QuietKeepsOrder
    <2>3. McpTypeOK' /\ LinesOK' /\ ~Reads'
        BY <1>0, <2>1 DEF McpTypeOK, LinesOK, Reads
    <2> QED BY <1>0, <2>1, <2>2, <2>3 DEF McpInv, OneAnswer, AnswersItsOwn
<1>11. CASE read_on
    <2>1. /\ writing = "blocked" /\ writing' = "fits"
          /\ UNCHANGED <<transport, program, child, kin, pipe, answers, session, life, asked, serial,
                         written, heard, got>>
        BY <1>11 DEF read_on
    <2>2. OrderOK' /\ LifecycleInOrder'
        BY <2>1, QuietKeepsOrder
    <2>3. McpTypeOK' /\ LinesOK'
        BY <1>0, <2>1 DEF McpTypeOK, LinesOK
    <2>4. (AnswersItsOwn => AnswersItsOwn') /\ (OneAnswer => OneAnswer')
        BY <2>1 DEF AnswersItsOwn, OneAnswer, Reads
    <2> QED BY <1>0, <2>1, <2>2, <2>3, <2>4 DEF McpInv
<1> QED BY <1>1, <1>2, <1>3, <1>4, <1>5, <1>6, <1>7, <1>8, <1>9, <1>10, <1>11 DEF McpNext

\* Where the tool server is not the part at work it stands as it began.
LEMMA McpHolds == Spec => []McpInv
<1>1. Init => McpInv
    <2> SUFFICES ASSUME Init PROVE McpInv
        OBVIOUS
    <2>1. /\ transport \in {"stdio", "http"} /\ (transport = "http" => program = "plain")
          /\ child = "up" /\ kin \in {"up", "none"} /\ (program # "wrapped" => kin = "none")
          /\ session = 0 /\ life = "initialize" /\ asked = 0 /\ serial = 0 /\ written = 0
          /\ writing = "none"
        BY McpAssumption DEF Init, McpInit, McpAtRest
    <2>2. pipe = <<>> /\ answers = <<>> /\ heard = <<>> /\ got = <<>>
        BY DEF Init, McpInit, McpAtRest
    <2>3. McpTypeOK /\ LinesOK
        BY <2>1, <2>2, McpAssumption DEF McpTypeOK, LinesOK
    <2>4. LifecycleInOrder /\ OrderOK
        BY <2>1, <2>2 DEF LifecycleInOrder, OrderOK, Later
    <2>5. AnswersItsOwn /\ OneAnswer
        BY <2>2 DEF AnswersItsOwn, OneAnswer
    <2> QED BY <2>3, <2>4, <2>5 DEF McpInv
<1>2. McpInv /\ [Next]_vars => McpInv'
    <2> SUFFICES ASSUME McpInv, [Next]_vars PROVE McpInv'
        OBVIOUS
    <2>1. CASE McpNext
        BY <2>1, McpStep
    <2>2. CASE UNCHANGED mcpVars
        <3>1. McpTypeOK' /\ LinesOK'
            BY <2>2 DEF mcpVars, McpInv, McpTypeOK, LinesOK
        <3>2. LifecycleInOrder' /\ OrderOK'
            BY <2>2 DEF mcpVars, McpInv, LifecycleInOrder, OrderOK
        <3>3. program' = program /\ (AnswersItsOwn => AnswersItsOwn') /\ (OneAnswer => OneAnswer')
            BY <2>2 DEF mcpVars, AnswersItsOwn, OneAnswer, Reads
        <3> QED BY <3>1, <3>2, <3>3 DEF McpInv
    <2> QED BY <2>1, <2>2 DEF Next, vars, Mcp, Store, Carrying, Ruling, Streaming, Billing,
                              Ordering, Looking
<1> QED BY <1>1, <1>2, PTL DEF Spec

\* A tool server hears initialize and then initialized before anything else,
\* and a call on a plain server returns its own answer or none: for any
\* number of questions, of lines, and of deadlines that pass.
THEOREM SessionIsAlwaysInOrder == Spec => []SessionIsInOrder
<1>1. McpInv => SessionIsInOrder
    BY DEF McpInv, SessionIsInOrder, PlainAnswersItsOwn
<1> QED BY <1>1, McpHolds, PTL

-----------------------------------------------------------------------------
(* BuildingRules. What evaluate has read of a text, line by line.            *)

\* Line i is the heading that line n stands under.
Heads(text, i, n) ==
    /\ i \in 1..n - 1 /\ text[i].kind = "heading"
    /\ \A k \in i + 1..n - 1 : text[k].kind # "heading"

\* Line i says whether the building is confidential.
SaidAt(text, i) ==
    /\ text[i].kind = "key" /\ text[i].name = "confidential"
    /\ ~(text[i].bullet /\ \E h \in 1..i - 1 : Heads(text, h, i) /\ text[h].words \cap {"reading", "egress"} # {})

\* Line i is the last of the first n that does.
LastSaid(text, i, n) == i \in 1..n /\ SaidAt(text, i) /\ \A k \in 1..n : SaidAt(text, k) => k <= i

Seen == [ok : BOOLEAN, words : SUBSET {"write", "reading", "egress"},
         confidential : {"unsaid", "true", "false"}, review : BOOLEAN,
         prefixes : Seq(Addresses), egress : Nat]

\* What is seen of the first n lines, unless one of them was refused.
ReadsAs(seen, text, n) ==
    /\ seen \in Seen
    /\ seen.ok =>
        /\ \/ seen.words = {} /\ \A i \in 1..n : ~Heads(text, i, n + 1)
           \/ \E i \in 1..n : Heads(text, i, n + 1) /\ seen.words = text[i].words
        /\ IF seen.confidential = "unsaid" THEN \A i \in 1..n : ~SaidAt(text, i)
           ELSE \E i \in 1..n : LastSaid(text, i, n) /\ text[i].value = seen.confidential

\* What a building's text says of it is what its last word says.
LEMMA SaysIsLastSaid ==
    ASSUME NEW text, text # Absent, Len(text) \in Nat
    PROVE  SaysConfidential(text) <=> \E i \in 1..Len(text) : LastSaid(text, i, Len(text)) /\ text[i].value = "true"
<1> DEFINE Under(i) == {h \in 1..i - 1 : text[h].kind = "heading"
                                          /\ \A k \in h + 1..i - 1 : text[k].kind # "heading"}
           Entered(i) == text[i].bullet /\ \E h \in Under(i) : text[h].words \cap {"reading", "egress"} # {}
           Said == {i \in 1..Len(text) : /\ text[i].kind = "key" /\ text[i].name = "confidential"
                                         /\ ~Entered(i)}
<1>1. SaysConfidential(text) <=> \E i \in Said : text[i].value = "true" /\ \A k \in Said : k <= i
    BY DEF SaysConfidential
<1>2. \A i \in 1..Len(text) : i \in Said <=> SaidAt(text, i)
    <2> TAKE i \in 1..Len(text)
    <2>1. \A h : h \in Under(i) <=> Heads(text, h, i)
        BY DEF Heads
    <2>2. Entered(i) <=> (text[i].bullet /\ \E h \in 1..i - 1 : Heads(text, h, i) /\ text[h].words \cap {"reading", "egress"} # {})
        <3> HIDE DEF Under
        <3>1. \A h : Heads(text, h, i) => h \in 1..i - 1
            BY DEF Heads
        <3> QED BY <2>1, <3>1
    <2> HIDE DEF Entered
    <2> QED BY <2>2 DEF SaidAt
<1> HIDE DEF Said
<1>3. Said \subseteq 1..Len(text)
    BY DEF Said
<1> QED BY <1>1, <1>2, <1>3 DEF LastSaid

LEMMA BlankReads == ASSUME NEW text PROVE ReadsAs(Blank, text, 0)
<1>1. Blank \in Seen /\ Blank.ok /\ Blank.words = {} /\ Blank.confidential = "unsaid"
    BY DEF Blank, Seen
<1> QED BY <1>1 DEF ReadsAs

\* A line that is no heading leaves the one it stands under in force.
LEMMA StaysUnder ==
    ASSUME NEW text, NEW n \in Nat \ {0}, text[n].kind # "heading"
    PROVE  \A i \in 1..n : Heads(text, i, n + 1) <=> Heads(text, i, n)
<1> TAKE i \in 1..n
<1>1. n + 1 - 1 = n
    OBVIOUS
<1>2. \A k \in i + 1..n : k = n \/ k \in i + 1..n - 1
    OBVIOUS
<1>3. CASE i = n
    BY <1>1, <1>3 DEF Heads
<1>4. CASE i # n
    <2>1. i \in 1..n - 1 /\ i + 1..n - 1 \subseteq i + 1..n
        BY <1>4
    <2> QED BY <1>1, <1>2, <2>1 DEF Heads
<1> QED BY <1>3, <1>4

\* No line stands under two headings.
LEMMA OneHeads ==
    ASSUME NEW text, NEW n \in Nat, NEW h, NEW k, Heads(text, h, n), Heads(text, k, n)
    PROVE  h = k
<1>1. h \in 1..n - 1 /\ k \in 1..n - 1
    BY DEF Heads
<1>2. ~(k \in h + 1..n - 1) /\ ~(h \in k + 1..n - 1)
    BY DEF Heads
<1> QED BY <1>1, <1>2

\* A line that says nothing of it leaves the last word with the one before.
LEMMA SaidBefore ==
    ASSUME NEW text, NEW n \in Nat, ~SaidAt(text, n + 1)
    PROVE  /\ (\A i \in 1..n : ~SaidAt(text, i)) => \A i \in 1..n + 1 : ~SaidAt(text, i)
           /\ \A i : LastSaid(text, i, n) => LastSaid(text, i, n + 1)
<1>1. \A i \in 1..n + 1 : i = n + 1 \/ i \in 1..n
    OBVIOUS
<1>2. \A i \in 1..n : i \in 1..n + 1
    OBVIOUS
<1> QED BY <1>1, <1>2 DEF LastSaid

\* One line more is read as it is written.
LEMMA LineReads ==
    ASSUME NEW text, Legible(text), NEW n \in Nat, n + 1 <= Len(text), Len(text) \in Nat,
           NEW seen, ReadsAs(seen, text, n)
    PROVE  ReadsAs(Line(seen, text[n + 1]), text, n + 1)
<1> DEFINE line == text[n + 1]
           m == n + 1
           next == Line(seen, line)
<1>0. m \in 1..Len(text) /\ m \in Nat \ {0} /\ seen \in Seen
    BY DEF ReadsAs
<1>1. \/ \E words \in SUBSET {"write", "reading", "egress"} : line = Heading(words)
      \/ \E addr \in Addresses \cup {Unread} : line = Item(addr)
      \/ /\ line.kind = "key" /\ line.name \in {"confidential", "review"}
         /\ \E bullet \in BOOLEAN : line = Key(line.name, line.value, bullet)
    BY <1>0 DEF Legible
<1>2. \/ /\ line.kind = "heading" /\ line.words \in SUBSET {"write", "reading", "egress"}
      \/ /\ line.kind = "item" /\ line.addr \in Addresses \cup {Unread}
      \/ /\ line.kind = "key" /\ line.name \in {"confidential", "review"} /\ line.bullet \in BOOLEAN
    <2> HIDE DEF line
    <2>1. CASE \E words \in SUBSET {"write", "reading", "egress"} : line = Heading(words)
        BY <2>1 DEF Heading
    <2>2. CASE \E addr \in Addresses \cup {Unread} : line = Item(addr)
        BY <2>2 DEF Item
    <2>3. ASSUME line.kind = "key" /\ line.name \in {"confidential", "review"},
                 NEW bullet \in BOOLEAN, line = Key(line.name, line.value, bullet)
          PROVE  line.bullet \in BOOLEAN
        <3> DEFINE name == line.name
                   value == line.value
        <3>1. line = [kind |-> "key", name |-> name, value |-> value, bullet |-> bullet]
            BY <2>3 DEF Key
        <3> HIDE DEF name, value
        <3> QED BY <3>1
    <2> QED BY <1>1, <2>1, <2>2, <2>3
<1> HIDE DEF line
<1>3. next \in Seen
    <2>1. /\ seen.ok \in BOOLEAN /\ seen.words \in SUBSET {"write", "reading", "egress"}
          /\ seen.confidential \in {"unsaid", "true", "false"} /\ seen.review \in BOOLEAN
          /\ seen.prefixes \in Seq(Addresses) /\ seen.egress \in Nat
        BY <1>0 DEF Seen
    <2>2. line.kind = "heading" => [seen EXCEPT !.words = line.words] \in Seen
        BY <1>0, <1>2 DEF Seen
    <2>3. [seen EXCEPT !.egress = @ + 1] \in Seen
        BY <1>0, <2>1 DEF Seen
    <2>4. [seen EXCEPT !.ok = FALSE] \in Seen
        BY <1>0 DEF Seen
    <2>5. [seen EXCEPT !.review = line.value = "true"] \in Seen
        BY <1>0 DEF Seen
    <2>6. line.value \in {"true", "false"} => [seen EXCEPT !.confidential = line.value] \in Seen
        BY <1>0 DEF Seen
    <2>7. ASSUME line.kind = "item", line.addr # Unread
          PROVE  [seen EXCEPT !.prefixes = Append(@, line.addr)] \in Seen
        <3>1. Append(seen.prefixes, line.addr) \in Seq(Addresses)
            BY <1>2, <2>1, <2>7
        <3> QED BY <1>0, <3>1 DEF Seen
    <2>8. CASE ~seen.ok \/ line.kind = "heading" \/ InList(seen, line)
        BY <1>0, <2>2, <2>3, <2>8 DEF Line
    <2>9. CASE seen.ok /\ line.kind = "key" /\ ~InList(seen, line)
        BY <1>0, <2>4, <2>5, <2>6, <2>9 DEF Line
    <2>10. CASE seen.ok /\ line.kind = "item" /\ ~InList(seen, line)
        <3> DEFINE added == [seen EXCEPT !.prefixes = Append(@, line.addr)]
        <3>1. next = IF "write" \in seen.words /\ line.addr # Unread THEN added ELSE seen
            BY <2>10 DEF Line
        <3>2. line.addr # Unread => added \in Seen
            BY <2>7, <2>10
        <3> HIDE DEF added, next
        <3> QED BY <1>0, <3>1, <3>2
    <2> QED BY <1>2, <2>8, <2>9, <2>10
<1>4. CASE ~seen.ok
    <2>1. next = seen
        BY <1>4 DEF Line
    <2> QED BY <1>3, <1>4, <2>1 DEF ReadsAs, line
<1>5. CASE seen.ok /\ line.kind = "heading"
    <2>1. next = [seen EXCEPT !.words = line.words]
        BY <1>5 DEF Line
    <2>2. next.words = line.words /\ next.confidential = seen.confidential
        BY <1>0, <2>1 DEF Seen
    <2>3. Heads(text, m, m + 1)
        BY <1>0, <1>5 DEF Heads, line
    <2>4. ~SaidAt(text, n + 1)
        BY <1>5 DEF SaidAt, line
    <2>5. IF next.confidential = "unsaid" THEN \A i \in 1..m : ~SaidAt(text, i)
          ELSE \E i \in 1..m : LastSaid(text, i, m) /\ text[i].value = next.confidential
        BY <1>5, <2>2, <2>4, SaidBefore DEF ReadsAs, LastSaid
    <2> QED BY <1>0, <1>3, <2>2, <2>3, <2>5 DEF ReadsAs, line
<1>6. CASE seen.ok /\ line.kind # "heading"
    <2>1. next.words = seen.words
        BY <1>0, <1>6 DEF Line, Seen
    <2>2. \A i \in 1..m : Heads(text, i, m + 1) <=> Heads(text, i, m)
        BY <1>0, <1>6, StaysUnder DEF line
    <2>3. \/ seen.words = {} /\ \A i \in 1..n : ~Heads(text, i, m)
          \/ \E i \in 1..n : Heads(text, i, m) /\ seen.words = text[i].words
        BY <1>6 DEF ReadsAs
    <2>4. \A i : Heads(text, i, m) => i \in 1..n
        BY DEF Heads
    <2>5. \/ next.words = {} /\ \A i \in 1..m : ~Heads(text, i, m + 1)
          \/ \E i \in 1..m : Heads(text, i, m + 1) /\ next.words = text[i].words
        <3> HIDE DEF next
        <3>1. \A i \in 1..n : i \in 1..m
            OBVIOUS
        <3> HIDE DEF m
        <3> QED BY <2>1, <2>2, <2>3, <2>4, <3>1
    <2>6. seen.words \cap {"reading", "egress"} # {}
             <=> \E h \in 1..m - 1 : Heads(text, h, m) /\ text[h].words \cap {"reading", "egress"} # {}
        <3>1. m - 1 = n
            OBVIOUS
        <3>2. \A h \in 1..n : \A k \in 1..n : Heads(text, h, m) /\ Heads(text, k, m) => h = k
            BY <1>0, OneHeads
        <3> HIDE DEF m
        <3> QED BY <2>3, <3>1, <3>2
    <2>7. SaidAt(text, m) <=> line.kind = "key" /\ line.name = "confidential" /\ ~InList(seen, line)
        <3> HIDE DEF m
        <3> QED BY <2>6 DEF SaidAt, InList, Bulleted, line, m
    <2>8. CASE SaidAt(text, m) /\ next.ok
        <3>1. /\ line.kind = "key" /\ line.name = "confidential" /\ ~InList(seen, line)
            BY <2>7, <2>8
        <3>2. line.value \in {"true", "false"}
            BY <1>6, <2>8, <3>1 DEF Line
        <3>3. next = [seen EXCEPT !.confidential = line.value]
            BY <1>6, <3>1, <3>2 DEF Line
        <3>4. next.confidential = line.value /\ next.confidential # "unsaid"
            BY <1>0, <3>2, <3>3 DEF Seen
        <3>5. LastSaid(text, m, m)
            BY <1>0, <2>8 DEF LastSaid
        <3>6. text[m].value = line.value
            BY DEF line
        <3> HIDE DEF next, m
        <3>7. ReadsAs(next, text, m)
            BY <1>0, <1>3, <2>5, <3>4, <3>5, <3>6 DEF ReadsAs
        <3> QED BY <3>7 DEF next, line, m
    <2>9. CASE ~SaidAt(text, m) /\ next.ok
        <3>1. next.confidential = seen.confidential
            BY <1>0, <1>2, <1>6, <2>7, <2>9 DEF Line, Seen
        <3>2. IF next.confidential = "unsaid" THEN \A i \in 1..m : ~SaidAt(text, i)
              ELSE \E i \in 1..m : LastSaid(text, i, m) /\ text[i].value = next.confidential
            BY <1>6, <2>9, <3>1, SaidBefore DEF ReadsAs, LastSaid
        <3> HIDE DEF next, m
        <3>3. ReadsAs(next, text, m)
            BY <1>3, <2>5, <3>2 DEF ReadsAs
        <3> QED BY <3>3 DEF next, line, m
    <2>10. CASE ~next.ok
        <3> HIDE DEF next
        <3>1. ReadsAs(next, text, m)
            BY <1>3, <2>10 DEF ReadsAs
        <3> QED BY <3>1 DEF next, line
    <2> QED BY <2>8, <2>9, <2>10
<1> QED BY <1>4, <1>5, <1>6

\* What evaluate reads, line by line, of the first n of a text.
IsReading(h, text, n) == h = [k \in 0..n |-> IF k = 0 THEN Blank ELSE Line(h[k - 1], text[k])]

LEMMA ReadingExists ==
    ASSUME NEW text, Len(text) \in Nat
    PROVE  \A n \in 0..Len(text) : \E h : IsReading(h, text, n)
<1> DEFINE Bad == {n \in 0..Len(text) : ~\E h : IsReading(h, text, n)}
<1>1. SUFFICES ASSUME Bad # {} PROVE FALSE
    OBVIOUS
<1>2. PICK n \in Bad : \A m \in Bad : n <= m
    <2>1. Bad \in SUBSET Nat
        OBVIOUS
    <2> HIDE DEF Bad
    <2> QED BY <1>1, <2>1, SmallestExists
<1>3. CASE n = 0
    <2>1. IsReading([k \in 0..0 |-> Blank], text, 0)
        BY DEF IsReading
    <2> QED BY <1>2, <1>3, <2>1
<1>4. CASE n # 0
    <2>1. n \in Nat /\ n >= 1 /\ n - 1 \in 0..Len(text) /\ n - 1 \notin Bad
        BY <1>2, <1>4
    <2>2. PICK f : IsReading(f, text, n - 1)
        BY <2>1
    <2> DEFINE h == [k \in 0..n |-> IF k = n THEN Line(f[n - 1], text[n]) ELSE f[k]]
    <2>3. \A k \in 0..n - 1 : f[k] = IF k = 0 THEN Blank ELSE Line(f[k - 1], text[k])
        BY <2>2 DEF IsReading
    <2>4. \A k \in 0..n : k = n \/ k \in 0..n - 1
        BY <2>1
    <2>5. \A k \in 0..n : k # 0 => k - 1 \in 0..n /\ k - 1 # n
        BY <2>1
    <2>6. \A k \in 0..n : k # 0 => h[k - 1] = f[k - 1]
        BY <2>5
    <2>7. \A k \in 0..n : h[k] = IF k = 0 THEN Blank ELSE Line(h[k - 1], text[k])
        <3> TAKE k \in 0..n
        <3>1. CASE k = n
            <4>1. h[k] = Line(f[k - 1], text[k])
                BY <3>1
            <4> HIDE DEF h
            <4> QED BY <1>4, <2>6, <3>1, <4>1
        <3>2. CASE k # n
            <4>1. h[k] = f[k] /\ k \in 0..n - 1
                BY <2>4, <3>2
            <4> HIDE DEF h
            <4> QED BY <2>3, <2>6, <4>1
        <3> QED BY <3>1, <3>2
    <2>8. h = [k \in 0..n |-> h[k]]
        OBVIOUS
    <2> HIDE DEF h
    <2>9. IsReading(h, text, n)
        BY <2>7, <2>8 DEF IsReading
    <2> QED BY <1>2, <2>9
<1> QED BY <1>3, <1>4

LEMMA EvaluateReads ==
    ASSUME NEW text, Legible(text), Len(text) \in Nat
    PROVE  \E said : /\ ReadsAs(said, text, Len(text))
                    /\ evaluate(text) = [said EXCEPT !.ok =
                          /\ @ /\ said.confidential # "unsaid"
                          /\ ~(said.confidential = "true" /\ said.egress > 0)]
<1> DEFINE f == CHOOSE h : IsReading(h, text, Len(text))
           said == f[Len(text)]
<1>1. IsReading(f, text, Len(text))
    <2>1. \E h : IsReading(h, text, Len(text))
        BY ReadingExists
    <2> QED BY <2>1
<1>2. evaluate(text) = [said EXCEPT !.ok = /\ @ /\ said.confidential # "unsaid"
                                          /\ ~(said.confidential = "true" /\ said.egress > 0)]
    BY DEF evaluate, IsReading
<1> HIDE DEF f
<1>3. \A n \in 0..Len(text) : f[n] = IF n = 0 THEN Blank ELSE Line(f[n - 1], text[n])
    BY <1>1 DEF IsReading
<1> DEFINE Bad == {n \in 0..Len(text) : ~ReadsAs(f[n], text, n)}
<1>4. Bad = {}
    <2>1. SUFFICES ASSUME Bad # {} PROVE FALSE
        OBVIOUS
    <2>2. PICK n \in Bad : \A m \in Bad : n <= m
        <3>1. Bad \in SUBSET Nat
            OBVIOUS
        <3> HIDE DEF Bad
        <3> QED BY <2>1, <3>1, SmallestExists
    <2>3. CASE n = 0
        BY <1>3, <2>2, <2>3, BlankReads
    <2>4. CASE n # 0
        <3> DEFINE m == n - 1
        <3>1. m \in Nat /\ n = m + 1 /\ m \in 0..Len(text) /\ m \notin Bad /\ n \in 0..Len(text)
              /\ n <= Len(text)
            BY <2>2, <2>4
        <3> HIDE DEF m
        <3>2. ReadsAs(f[m], text, m)
            BY <3>1
        <3>3. ReadsAs(Line(f[m], text[m + 1]), text, m + 1)
            BY <3>1, <3>2, LineReads
        <3>4. f[n] = Line(f[n - 1], text[n])
            BY <1>3, <2>4, <3>1
        <3>5. n - 1 = m
            BY DEF m
        <3> QED BY <2>2, <3>1, <3>3, <3>4, <3>5
    <2> QED BY <2>3, <2>4
<1>5. ReadsAs(said, text, Len(text))
    BY <1>4
<1> HIDE DEF said
<1> QED BY <1>2, <1>5

\* A text that evaluate takes says whether the building is confidential, and
\* evaluate answers what its last word says.
LEMMA EvaluateSays ==
    ASSUME NEW text \in Texts, evaluate(text).ok
    PROVE  /\ evaluate(text).prefixes \in Seq(Addresses)
           /\ evaluate(text).confidential \in {"true", "false"}
           /\ evaluate(text).confidential = "true" <=> SaysConfidential(text)
           /\ \E i \in 1..Len(text) : text[i].kind = "key" /\ text[i].name = "confidential"
<1> DEFINE r == evaluate(text)
           n == Len(text)
<1>0. text # Absent /\ n \in Nat /\ Legible(text)
    BY TextsAssumption
<1>1. PICK said : /\ ReadsAs(said, text, n)
                  /\ r = [said EXCEPT !.ok = /\ @ /\ said.confidential # "unsaid"
                                             /\ ~(said.confidential = "true" /\ said.egress > 0)]
    BY <1>0, EvaluateReads
<1> HIDE DEF r
<1>2. said \in Seen
    BY <1>1 DEF ReadsAs
<1>3. /\ said.ok /\ said.confidential # "unsaid"
      /\ r.prefixes = said.prefixes /\ r.confidential = said.confidential
    <2>1. r.ok
        BY DEF r
    <2> QED BY <1>1, <1>2, <2>1 DEF Seen
<1>4. said.prefixes \in Seq(Addresses) /\ said.confidential \in {"unsaid", "true", "false"}
    BY <1>2 DEF Seen
<1>5. PICK i \in 1..n : LastSaid(text, i, n) /\ text[i].value = said.confidential
    BY <1>1, <1>3 DEF ReadsAs
<1>6. \A k \in 1..n : LastSaid(text, k, n) => k = i
    <2> TAKE k \in 1..n
    <2> HAVE LastSaid(text, k, n)
    <2>1. k <= i /\ i <= k
        BY <1>5 DEF LastSaid
    <2> QED BY <1>0, <2>1
<1>7. said.confidential = "true" <=> SaysConfidential(text)
    BY <1>0, <1>5, <1>6, SaysIsLastSaid
<1>8. text[i].kind = "key" /\ text[i].name = "confidential"
    BY <1>5 DEF LastSaid, SaidAt
<1> QED BY <1>3, <1>4, <1>7, <1>8 DEF r

\* The segments of addresses.
Word == {"lab", "room", "hall", "desk", "lab2", Reserved}

\* An address under one that is in the building is in the building.
LEMMA WithinLab ==
    /\ is_within(Lab, Lab)
    /\ \A p, a \in Addresses : is_within(a, p) /\ is_within(p, Lab) => is_within(a, Lab)
<1>1. \A a \in Addresses : a \in Seq(Word) /\ Len(a) \in Nat /\ Len(a) >= 1
    <2>1. ASSUME NEW x \in Word, NEW y \in Word
          PROVE  /\ <<x>> \in Seq(Word) /\ Len(<<x>>) = 1
                 /\ <<x, y>> \in Seq(Word) /\ Len(<<x, y>>) = 2
        OBVIOUS
    <2>2. {"lab", "room", "hall", "desk", "lab2", Reserved} = Word
        BY DEF Word
    <2>3. \A a \in Addresses :
             \/ a = <<"lab">> \/ a = <<"lab", "room">> \/ a = <<"hall">> \/ a = <<"hall", "desk">>
             \/ a = <<"lab", Reserved>> \/ a = <<"lab2">>
        BY DEF Addresses, Lab, Room
    <2> QED BY <2>1, <2>2, <2>3
<1>2. Lab \in Addresses /\ Len(Lab) = 1
    BY DEF Addresses, Lab
<1>3. ASSUME NEW a \in Addresses, NEW p \in Addresses
      PROVE  is_within(a, p) <=> Len(p) <= Len(a) /\ \A i \in 1..Len(p) : p[i] = a[i]
    <2>1. CASE Len(p) <= Len(a)
        <3> DEFINE n == Len(p)
                   front == SubSeq(p, 1, n)
                   head == SubSeq(a, 1, n)
        <3>1. /\ n \in 1..Len(p) /\ n \in 1..Len(a) /\ 1 \in 1..Len(a) + 1 /\ 1 \in 1..Len(p) + 1
            BY <1>1, <2>1
        <3>2. /\ front \in Seq(Word) /\ Len(front) = n /\ \A i \in 1..n : front[i] = p[i]
            BY <1>1, <3>1
        <3>3. /\ head \in Seq(Word) /\ Len(head) = n /\ \A i \in 1..n : head[i] = a[i]
            BY <1>1, <3>1
        <3>4. is_within(a, p) <=> front = head
            BY <2>1 DEF is_within, IsPrefix
        <3> HIDE DEF front, head
        <3>5. front = head <=> \A i \in 1..n : front[i] = head[i]
            BY <3>2, <3>3, SeqEqual
        <3> QED BY <2>1, <3>2, <3>3, <3>4, <3>5
    <2>2. CASE ~(Len(p) <= Len(a))
        BY <2>2 DEF is_within, IsPrefix
    <2> QED BY <2>1, <2>2
<1>4. is_within(Lab, Lab)
    BY <1>2, <1>3
<1>5. ASSUME NEW p \in Addresses, NEW a \in Addresses, is_within(a, p), is_within(p, Lab)
      PROVE  is_within(a, Lab)
    <2>1. Len(p) <= Len(a) /\ \A i \in 1..Len(p) : p[i] = a[i]
        BY <1>3, <1>5
    <2>2. Len(Lab) <= Len(p) /\ \A i \in 1..Len(Lab) : Lab[i] = p[i]
        BY <1>2, <1>3, <1>5
    <2>3. Len(a) \in Nat /\ Len(p) \in Nat
        BY <1>1
    <2>4. Len(Lab) <= Len(a) /\ \A i \in 1..Len(Lab) : Lab[i] = a[i]
        BY <1>2, <2>1, <2>2, <2>3
    <2> QED BY <1>2, <1>3, <2>4
<1> QED BY <1>4, <1>5

Value == Says["effort"] \cup Says["sandbox"] \cup Says["mcp"]

\* What a layer's file says, if it is one that was written.
Spoken == {d \in [Sections -> Value] : \A s \in Sections : d[s] \in Says[s]}

RulesTypes ==
    /\ laid \in Texts \cup {Absent} /\ author \in {"person", "run"}
    /\ docs \in [Layers -> Spoken \cup {Garbled}] /\ meant \in [Layers -> Spoken]
    /\ runs \in 0..MaxRuns /\ settings \in 0..MaxSettings

\* A layer's file holds what was last chosen for it, unless it was broken.
LayersOK == \A l \in Layers : docs[l] = Garbled \/ docs[l] = meant[l]

\* The run at work was frozen with a domain of addresses, all within the
\* building where that is confidential. Without this ConfidentialIsClosed is
\* not inductive: a write would be admitted anywhere.
DomainOK ==
    site # Absent =>
        /\ site.domain # {} /\ site.domain \subseteq Addresses
        /\ SaysConfidential(site.text) => \A p \in site.domain : is_within(p, Lab)

RulesInv ==
    /\ RulesTypes /\ LayersOK /\ DomainOK
    /\ ConfidentialIsClosed /\ UnsaidIsRefused
    /\ ReservedIsNeverWritten /\ FrozenAsChosen

LEMMA SpokenDocs ==
    /\ Unset \in Spoken /\ [Unset EXCEPT !["mcp"] = "server"] \in Spoken
    /\ Garbled \notin Spoken
    /\ \A d \in Spoken : \A s \in Sections : \A v \in Says[s] : WithSection(d, s, v) \in Spoken
<1>1. \A s \in Sections : "none" \in Says[s] /\ Says[s] \subseteq Value
    <2>1. \A s \in Sections : s = "effort" \/ s = "sandbox" \/ s = "mcp"
        BY DEF Sections
    <2>2. "none" \in Says["effort"] /\ "none" \in Says["sandbox"] /\ "none" \in Says["mcp"]
        BY DEF Says
    <2> QED BY <2>1, <2>2 DEF Value
<1>2. "server" \in Says["mcp"] /\ "mcp" \in Sections /\ "effort" \in Sections /\ "garbled" \notin Says["effort"]
    BY DEF Sections, Says
<1>3. Unset \in Spoken
    BY <1>1 DEF Unset, Spoken
<1>4. \A d \in Spoken : \A s \in Sections : \A v \in Says[s] : WithSection(d, s, v) \in Spoken
    <2> TAKE d \in Spoken
    <2> TAKE s \in Sections
    <2> TAKE v \in Says[s]
    <2>1. v \in Value /\ d \in [Sections -> Value] /\ \A t \in Sections : d[t] \in Says[t]
        BY <1>1 DEF Spoken
    <2> DEFINE e == [d EXCEPT ![s] = v]
    <2>2. e \in [Sections -> Value] /\ \A t \in Sections : e[t] = IF t = s THEN v ELSE d[t]
        BY <2>1
    <2> HIDE DEF e
    <2>3. e \in Spoken
        BY <2>1, <2>2 DEF Spoken
    <2> QED BY <2>3 DEF e, WithSection
<1>5. [Unset EXCEPT !["mcp"] = "server"] \in Spoken
    BY <1>2, <1>3, <1>4 DEF WithSection
<1>6. Garbled \notin Spoken
    <2>1. Garbled["effort"] = "garbled"
        BY <1>2 DEF Garbled
    <2> QED BY <1>2, <2>1 DEF Spoken
<1> QED BY <1>3, <1>4, <1>5, <1>6

\* RulesTypeOK follows.
LEMMA RulesTypesHold == RulesInv => RulesTypeOK
<1> SUFFICES ASSUME RulesInv PROVE RulesTypeOK
    OBVIOUS
<1>1. \A l \in Layers : docs[l] = Garbled \/ \A s \in Sections : docs[l][s] \in Says[s]
    BY DEF RulesInv, RulesTypes, Spoken
<1> QED BY <1>1 DEF RulesInv, RulesTypes, DomainOK, RulesTypeOK

\* The rules a run may be agreed to under.
LEMMA LoadSays ==
    ASSUME RulesTypes, load.ok
    PROVE  /\ load.prefixes \in Seq(Addresses)
           /\ load.confidential = "true" <=> SaysConfidential(laid)
           /\ laid # Absent => \E i \in 1..Len(laid) : laid[i].kind = "key" /\ laid[i].name = "confidential"
<1>1. CASE laid # Absent
    <2>1. laid \in Texts /\ load = evaluate(laid)
        BY <1>1 DEF RulesTypes, load
    <2> HIDE DEF load
    <2> QED BY <2>1, EvaluateSays
<1>2. CASE laid = Absent
    <2>1. load.prefixes = <<>> /\ load.confidential = "false"
        BY <1>2 DEF load, Ordinary, Blank
    <2>2. ~SaysConfidential(laid)
        BY <1>2 DEF SaysConfidential
    <2>3. <<>> \in Seq(Addresses)
        OBVIOUS
    <2> QED BY <1>2, <2>1, <2>2, <2>3
<1> QED BY <1>1, <1>2

\* A domain that is not refused is made of addresses, within the building
\* where that is confidential.
LEMMA DomainSays ==
    ASSUME NEW r, r.prefixes \in Seq(Addresses), write_domain(r) # {}
    PROVE  /\ write_domain(r) \subseteq Addresses
           /\ r.confidential = "true" => \A p \in write_domain(r) : is_within(p, Lab)
<1> DEFINE all == IF r.prefixes = <<>> THEN {Lab} ELSE ToSet(r.prefixes)
<1>1. write_domain(r) = all /\ ~Reaches(r)
    BY DEF write_domain
<1>2. Lab \in Addresses /\ is_within(Lab, Lab)
    BY WithinLab DEF Addresses
<1>3. ToSet(r.prefixes) = {r.prefixes[i] : i \in 1..Len(r.prefixes)}
    BY DEF ToSet
<1>4. \A i \in 1..Len(r.prefixes) : r.prefixes[i] \in Addresses
    OBVIOUS
<1>5. r.confidential = "true" => \A i \in 1..Len(r.prefixes) : is_within(r.prefixes[i], Lab)
    BY <1>1 DEF Reaches
<1>6. all \subseteq Addresses
    BY <1>2, <1>3, <1>4
<1>7. r.confidential = "true" => \A p \in all : is_within(p, Lab)
    BY <1>2, <1>3, <1>5
<1> QED BY <1>1, <1>6, <1>7

\* The layers with an effort in the room's own are those that were chosen,
\* where the room's is not broken.
LEMMA ChosenSays ==
    ASSUME RulesTypes, LayersOK, NEW effort \in Says.effort,
           effort # "none" => docs["room"] # Garbled
    PROVE  LET chosen == IF effort = "none" THEN meant ELSE [meant EXCEPT !["room"]["effort"] = effort]
           IN  /\ Chosen(effort) \in [Layers -> Spoken \cup {Garbled}] /\ chosen \in [Layers -> Spoken]
               /\ \A l \in Layers : Chosen(effort)[l] = Garbled \/ Chosen(effort)[l] = chosen[l]
<1>1. CASE effort = "none"
    BY <1>1 DEF Chosen, RulesTypes, LayersOK
<1>2. CASE effort # "none"
    <2> DEFINE doc == WithSection(meant["room"], "effort", effort)
    <2>1. "room" \in Layers /\ "effort" \in Sections /\ effort \in Says["effort"]
        BY DEF Layers, Sections, Says
    <2>2. /\ docs \in [Layers -> Spoken \cup {Garbled}] /\ meant \in [Layers -> Spoken]
          /\ docs["room"] = meant["room"]
        BY <1>2, <2>1 DEF RulesTypes, LayersOK
    <2>3. doc \in Spoken
        BY <2>1, <2>2, SpokenDocs
    <2>4. Chosen(effort) = [docs EXCEPT !["room"] = doc]
        BY <1>2, <2>1, <2>2 DEF Chosen
    <2>5. [meant EXCEPT !["room"]["effort"] = effort] = [meant EXCEPT !["room"] = doc]
        BY <2>1, <2>2 DEF WithSection
    <2> HIDE DEF doc
    <2>6. \A l \in Layers : docs[l] = Garbled \/ docs[l] = meant[l]
        BY DEF LayersOK
    <2> QED BY <1>2, <2>1, <2>2, <2>3, <2>4, <2>5, <2>6
<1> QED BY <1>1, <1>2

\* A run that stands is stood up with what its building says.
LEMMA FrozenHolds ==
    ASSUME RulesInv, load.ok, NEW effort \in Says.effort,
           effort # "none" => docs["room"] # Garbled,
           Stands(load, effort),
           NEW run, run = Frozen(load, effort)
    PROVE  /\ run.domain # {} /\ run.domain \subseteq Addresses
           /\ SaysConfidential(run.text) => \A p \in run.domain : is_within(p, Lab)
           /\ run.confidential = "true" <=> SaysConfidential(run.text)
           /\ SaysConfidential(run.text) => run.servers = "none"
           /\ run.text # Absent =>
                 \E i \in 1..Len(run.text) : run.text[i].kind = "key" /\ run.text[i].name = "confidential"
           /\ \A s \in Sections :
                 LET spoke == {l \in Layers : run.chosen[l][s] # "none"}
                     near == IF "room" \in spoke THEN "room"
                             ELSE IF "building" \in spoke THEN "building" ELSE "city"
                 IN  run.config[s] = run.chosen[near][s]
<1> DEFINE chosen == IF effort = "none" THEN meant ELSE [meant EXCEPT !["room"]["effort"] = effort]
           made == Chosen(effort)
           domain == write_domain(load)
           rules == load
<1>0. RulesTypes /\ LayersOK
    BY DEF RulesInv
<1>1. /\ run.text = laid /\ run.confidential = rules.confidential /\ run.domain = domain
      /\ run.config = [s \in Sections |-> resolve(made, s)]
      /\ run.servers = mcp_tools(rules.confidential, resolve(made, "mcp"))
      /\ run.chosen = chosen
    BY DEF Frozen
<1>2. /\ rules.prefixes \in Seq(Addresses)
      /\ rules.confidential = "true" <=> SaysConfidential(laid)
      /\ laid # Absent => \E i \in 1..Len(laid) : laid[i].kind = "key" /\ laid[i].name = "confidential"
    BY <1>0, LoadSays
<1>3. domain # {} /\ \A l \in Layers : made[l] # Garbled
    BY DEF Stands, parses
<1>4. domain \subseteq Addresses /\ (rules.confidential = "true" => \A p \in domain : is_within(p, Lab))
    <2> HIDE DEF rules
    <2> QED BY <1>2, <1>3, DomainSays DEF rules
<1>5. /\ made \in [Layers -> Spoken \cup {Garbled}] /\ chosen \in [Layers -> Spoken]
      /\ \A l \in Layers : made[l] = Garbled \/ made[l] = chosen[l]
    BY <1>0, ChosenSays
<1> HIDE DEF chosen, made, domain, rules
<1>6. rules.confidential = "true" => run.servers = "none"
    BY <1>1 DEF mcp_tools
<1>7. \A l \in Layers : made[l] = chosen[l]
    BY <1>3, <1>5
<1>8. ASSUME NEW s \in Sections
      PROVE  LET spoke == {l \in Layers : run.chosen[l][s] # "none"}
                 near == IF "room" \in spoke THEN "room"
                         ELSE IF "building" \in spoke THEN "building" ELSE "city"
             IN  run.config[s] = run.chosen[near][s]
    <2>1. "room" \in Layers /\ "building" \in Layers /\ "city" \in Layers
        BY DEF Layers
    <2>2. run.config[s] = IF chosen["room"][s] # "none" THEN chosen["room"][s]
                          ELSE IF chosen["building"][s] # "none" THEN chosen["building"][s]
                          ELSE chosen["city"][s]
        BY <1>1, <1>7, <2>1 DEF resolve
    <2> QED BY <1>1, <2>1, <2>2
<1> QED BY <1>1, <1>2, <1>3, <1>4, <1>6, <1>8

\* One step of the building, of a run in it or of a person.
LEMMA RulesStep == RulesInv /\ RulesNext => RulesInv'
<1> SUFFICES ASSUME RulesInv, RulesNext PROVE RulesInv'
    OBVIOUS
<1> USE DEF RulesInv
<1>1. ASSUME NEW named \in {"given", "local", "remote"}, NEW effort \in Says.effort, dispatch(named, effort)
      PROVE  RulesInv'
    <2>1. /\ load.ok /\ runs < MaxRuns /\ runs' = runs + 1
          /\ UNCHANGED <<about, laid, author, legacy, settings, touched>>
        BY <1>1 DEF dispatch
    <2>2. runs' \in 0..MaxRuns
        BY <2>1, RulesAssumption DEF RulesTypes
    <2>3. ReservedIsNeverWritten' /\ \A t \in touched' : SaysConfidential(t.under) => is_within(t.at, Lab)
        BY <2>1 DEF ReservedIsNeverWritten, ConfidentialIsClosed
    <2>4. CASE effort # "none" /\ docs["room"] = Garbled
        <3>1. UNCHANGED <<docs, meant, site>>
            BY <1>1, <2>4 DEF dispatch
        <3> QED BY <2>1, <2>2, <2>3, <3>1
                DEF RulesTypes, LayersOK, DomainOK, ConfidentialIsClosed, UnsaidIsRefused, FrozenAsChosen
    <2>5. CASE ~(effort # "none" /\ docs["room"] = Garbled)
        <3> DEFINE chosen == IF effort = "none" THEN meant
                             ELSE [meant EXCEPT !["room"]["effort"] = effort]
                   made == Chosen(effort)
                   stands == Stands(load, effort)
                   run == Frozen(load, effort)
        <3>1. docs' = made /\ meant' = chosen /\ site' = IF stands THEN run ELSE Absent
            BY <1>1, <2>5 DEF dispatch
        <3>2. /\ made \in [Layers -> Spoken \cup {Garbled}] /\ chosen \in [Layers -> Spoken]
              /\ \A l \in Layers : made[l] = Garbled \/ made[l] = chosen[l]
            BY <2>5, ChosenSays
        <3>3. stands =>
                /\ run.domain # {} /\ run.domain \subseteq Addresses
                /\ SaysConfidential(run.text) => \A p \in run.domain : is_within(p, Lab)
                /\ run.confidential = "true" <=> SaysConfidential(run.text)
                /\ SaysConfidential(run.text) => run.servers = "none"
                /\ run.text # Absent =>
                      \E i \in 1..Len(run.text) : run.text[i].kind = "key" /\ run.text[i].name = "confidential"
                /\ \A s \in Sections :
                      LET spoke == {l \in Layers : run.chosen[l][s] # "none"}
                          near == IF "room" \in spoke THEN "room"
                                  ELSE IF "building" \in spoke THEN "building" ELSE "city"
                      IN  run.config[s] = run.chosen[near][s]
            BY <2>1, <2>5, FrozenHolds
        <3> HIDE DEF chosen, made, stands, run
        <3>4. site' # Absent => stands /\ site' = run
            BY <3>1
        <3>5. RulesTypes' /\ LayersOK'
            BY <2>1, <2>2, <3>1, <3>2 DEF RulesTypes, LayersOK
        <3>6. DomainOK' /\ UnsaidIsRefused'
            BY <3>3, <3>4 DEF DomainOK, UnsaidIsRefused
        <3>7. ConfidentialIsClosed'
            BY <2>3, <3>3, <3>4 DEF ConfidentialIsClosed
        <3>8. FrozenAsChosen'
            BY <3>3, <3>4 DEF FrozenAsChosen
        <3> QED BY <2>3, <3>5, <3>6, <3>7, <3>8
    <2> QED BY <2>4, <2>5
<1>2. ASSUME NEW target \in Addresses, write(target)
      PROVE  RulesInv'
    <2>1. /\ site # Absent /\ touched' = {[at |-> target, under |-> site.text]}
          /\ UNCHANGED <<about, laid, author, legacy, docs, site, runs, settings, meant, sent>>
        BY <1>2 DEF write
    <2>2. ~is_reserved(target) /\ \E p \in site.domain : is_within(target, p)
        BY <1>2 DEF write, admits
    <2>3. SaysConfidential(site.text) => is_within(target, Lab)
        BY <2>1, <2>2, WithinLab DEF DomainOK
    <2>4. \A t \in touched' : t.at = target /\ t.under = site.text
        BY <2>1
    <2>5. ReservedIsNeverWritten' /\ \A t \in touched' : SaysConfidential(t.under) => is_within(t.at, Lab)
        BY <2>2, <2>3, <2>4 DEF ReservedIsNeverWritten
    <2> QED BY <2>1, <2>5
            DEF RulesTypes, LayersOK, DomainOK, ConfidentialIsClosed, UnsaidIsRefused, FrozenAsChosen
<1>3. ASSUME NEW text \in Proposals, propose(text)
      PROVE  RulesInv'
    <2>1. /\ laid' = text /\ author' = "run" /\ text \in Texts
          /\ UNCHANGED <<docs, site, runs, settings, meant, touched>>
        BY <1>3, RulesAssumption DEF propose
    <2> QED BY <2>1 DEF RulesTypes, LayersOK, DomainOK, ConfidentialIsClosed, UnsaidIsRefused,
                        ReservedIsNeverWritten, FrozenAsChosen
<1>4. CASE finish
    BY <1>4 DEF finish, RulesTypes, LayersOK, DomainOK, ConfidentialIsClosed, UnsaidIsRefused,
                ReservedIsNeverWritten, FrozenAsChosen
<1>5. ASSUME NEW text \in Proposals \cup {Absent}, hand_rules(text)
      PROVE  RulesInv'
    <2>1. /\ laid' = text /\ author' = "person" /\ text \in Texts \cup {Absent}
          /\ settings < MaxSettings /\ settings' = settings + 1
          /\ UNCHANGED <<docs, site, runs, meant, touched>>
        BY <1>5, RulesAssumption DEF hand_rules
    <2>2. settings' \in 0..MaxSettings
        BY <2>1, RulesAssumption DEF RulesTypes
    <2> QED BY <2>1, <2>2 DEF RulesTypes, LayersOK, DomainOK, ConfidentialIsClosed, UnsaidIsRefused,
                              ReservedIsNeverWritten, FrozenAsChosen
<1>6. ASSUME NEW sandbox \in Says.sandbox, NEW mcp \in Says.mcp, configure(sandbox, mcp)
      PROVE  RulesInv'
    <2> DEFINE boxed == IF sandbox = "none" THEN docs["building"]
                        ELSE WithSection(docs["building"], "sandbox", sandbox)
               served == IF mcp = "none" THEN boxed ELSE WithSection(boxed, "mcp", mcp)
               chosen == [meant EXCEPT !["building"]["sandbox"] = IF sandbox = "none" THEN @ ELSE sandbox,
                                       !["building"]["mcp"] = IF mcp = "none" THEN @ ELSE mcp]
    <2>1. /\ settings < MaxSettings /\ settings' = settings + 1 /\ docs["building"] # Garbled
          /\ docs' = [docs EXCEPT !["building"] = served] /\ meant' = chosen
          /\ UNCHANGED <<about, laid, author, legacy, site, runs, touched, sent>>
        BY <1>6 DEF configure
    <2>2. settings' \in 0..MaxSettings
        BY <2>1, RulesAssumption DEF RulesTypes
    <2>3. /\ "building" \in Layers /\ "sandbox" \in Sections /\ "mcp" \in Sections
          /\ sandbox \in Says["sandbox"] /\ mcp \in Says["mcp"]
        BY DEF Layers, Sections, Says
    <2>4. /\ docs \in [Layers -> Spoken \cup {Garbled}] /\ meant \in [Layers -> Spoken]
          /\ docs["building"] = meant["building"] /\ docs["building"] \in Spoken
        BY <2>1, <2>3 DEF RulesTypes, LayersOK
    <2>5. boxed \in Spoken
        BY <2>3, <2>4, SpokenDocs
    <2>6. served \in Spoken
        <3> HIDE DEF boxed
        <3> QED BY <2>3, <2>5, SpokenDocs
    <2>7. chosen = [meant EXCEPT !["building"] = served]
        <3>1. meant["building"] \in [Sections -> Value]
            BY <2>3, <2>4 DEF Spoken
        <3> DEFINE doc == meant["building"]
                   set == [doc EXCEPT !["sandbox"] = IF sandbox = "none" THEN @ ELSE sandbox,
                                      !["mcp"] = IF mcp = "none" THEN @ ELSE mcp]
        <3>2. chosen = [meant EXCEPT !["building"] = set]
            BY <2>3, <2>4
        <3>3. served = set
            BY <2>3, <2>4, <3>1 DEF WithSection
        <3> QED BY <3>2, <3>3
    <2> HIDE DEF served, chosen
    <2>8. docs' \in [Layers -> Spoken \cup {Garbled}] /\ meant' \in [Layers -> Spoken]
        BY <2>1, <2>3, <2>4, <2>6, <2>7
    <2>9. LayersOK'
        BY <2>1, <2>3, <2>4, <2>7 DEF LayersOK
    <2> QED BY <2>1, <2>2, <2>8, <2>9 DEF RulesTypes, DomainOK, ConfidentialIsClosed, UnsaidIsRefused,
                              ReservedIsNeverWritten, FrozenAsChosen
<1>7. ASSUME NEW l \in Layers, hand_layer(l)
      PROVE  RulesInv'
    <2>1. /\ settings < MaxSettings /\ settings' = settings + 1
          /\ docs' = [docs EXCEPT ![l] = IF @ = Garbled THEN meant[l] ELSE Garbled]
          /\ UNCHANGED <<about, laid, author, legacy, site, runs, meant, touched, sent>>
        BY <1>7 DEF hand_layer
    <2>2. settings' \in 0..MaxSettings
        BY <2>1, RulesAssumption DEF RulesTypes
    <2>3. docs' \in [Layers -> Spoken \cup {Garbled}] /\ LayersOK'
        BY <2>1 DEF RulesTypes, LayersOK
    <2> QED BY <2>1, <2>2, <2>3 DEF RulesTypes, DomainOK, ConfidentialIsClosed, UnsaidIsRefused,
                              ReservedIsNeverWritten, FrozenAsChosen
<1> QED BY <1>1, <1>2, <1>3, <1>4, <1>5, <1>6, <1>7 DEF RulesNext

\* Where the building is not the part at work it stands as it began.
LEMMA RulesInvHolds == Spec => []RulesInv
<1>1. Init => RulesInv
    <2> SUFFICES ASSUME Init PROVE RulesInv
        OBVIOUS
    <2>1. /\ site = Absent /\ runs = 0 /\ settings = 0 /\ author = "person"
          /\ meant = docs /\ touched = {}
        BY DEF Init, RulesInit, RulesAtRest
    <2>2. laid \in Texts \cup {Absent}
        BY RulesAssumption DEF Init, RulesInit, RulesAtRest
    <2>3. docs \in [Layers -> {Unset, [Unset EXCEPT !["mcp"] = "server"]}]
        BY DEF Init, RulesInit, RulesAtRest
    <2>4. docs \in [Layers -> Spoken]
        BY <2>3, SpokenDocs
    <2> QED BY <2>1, <2>2, <2>4, RulesAssumption
            DEF RulesInv, RulesTypes, LayersOK, DomainOK, ConfidentialIsClosed, UnsaidIsRefused,
                ReservedIsNeverWritten, FrozenAsChosen
<1>2. RulesInv /\ [Next]_vars => RulesInv'
    <2> SUFFICES ASSUME RulesInv, [Next]_vars PROVE RulesInv'
        OBVIOUS
    <2>1. CASE RulesNext
        BY <2>1, RulesStep
    <2>2. CASE UNCHANGED rulesVars
        BY <2>2 DEF rulesVars, RulesInv, RulesTypes, LayersOK, DomainOK, ConfidentialIsClosed,
                    UnsaidIsRefused, ReservedIsNeverWritten, FrozenAsChosen
    <2> QED BY <2>1, <2>2 DEF Next, vars, Mcp, Store, Carrying, Ruling, Streaming, Billing,
                              Ordering, Looking
<1> QED BY <1>1, <1>2, PTL DEF Spec

\* A run works under the rules and settings its building had when it was
\* agreed to, and writes neither of them: for any texts a person may write,
\* any number of runs, of changes to the rules and of changes to the layers.
THEOREM RulesAlwaysHold == Spec => []RulesHold
<1>1. RulesInv => RulesHold
    BY RulesTypesHold DEF RulesInv, RulesHold
<1> QED BY <1>1, RulesInvHolds, PTL

-----------------------------------------------------------------------------
(* Attribution.                                                              *)

\* A tool whose results weigh something has returned since the last call.
WeighedOK ==
    /\ tool_weights \in [Tools -> Nat]
    /\ \A t \in Tools : tool_weights[t] > 0 => t \in since
    /\ by_tool = [b \in Tools \cup {Nobody} |-> by_tool[b]]

\* A bucket that is not weighed bears nothing of a bill.
LEMMA UnweighedBearsNothing ==
    ASSUME NEW B, NEW book, book = [b \in B |-> book[b]], NEW bill, NEW weights, NEW fallback,
           NEW b \in B, b # fallback, \A i \in DOMAIN weights : weights[i].bucket # b
    PROVE  /\ split(bill, weights, fallback, book)[b] = book[b]
           /\ split(bill, weights, fallback, book) = [k \in B |-> split(bill, weights, fallback, book)[k]]
<1> DEFINE of(k) == {i \in DOMAIN weights : weights[i].bucket = k}
           shares == Shares(bill, weights)
           borne(k) == IF of(k) = {} THEN book[k] ELSE book[k] + SumFunctionOnSet(shares, of(k))
<1>1. DOMAIN book = B
    OBVIOUS
<1>2. CASE Weight(weights) = 0
    <2>1. split(bill, weights, fallback, book) = [book EXCEPT ![fallback] = @ + bill]
        BY <1>2 DEF split
    <2> QED BY <1>1, <2>1
<1>3. CASE Weight(weights) # 0
    <2>1. split(bill, weights, fallback, book) = [k \in B |-> borne(k)]
        BY <1>1, <1>3 DEF split
    <2>2. borne(b) = book[b]
        BY DEF of
    <2> HIDE DEF borne
    <2> QED BY <2>1, <2>2
<1> QED BY <1>2, <1>3

LEMMA BillingStep ==
    ASSUME WeighedOK, AttributionNext
    PROVE  WeighedOK' /\ \A t \in Tools \ since : by_tool'[t] = by_tool[t]
<1>0. tool_weights \in [Tools -> Nat] /\ Nobody \notin Tools
    BY AttributionAssumption DEF WeighedOK, Nobody
<1>1. ASSUME NEW w \in Prompts, prompt_assembled(w)
      PROVE  WeighedOK' /\ \A t \in Tools \ since : by_tool'[t] = by_tool[t]
    BY <1>1 DEF prompt_assembled, WeighedOK
<1>2. ASSUME NEW t \in Tools, NEW b \in Sizes, tool_result(t, b)
      PROVE  WeighedOK' /\ \A u \in Tools \ since : by_tool'[u] = by_tool[u]
    <2>1. /\ tool_weights' = [tool_weights EXCEPT ![t] = @ + b] /\ since' = since \cup {t}
          /\ by_tool' = by_tool
        BY <1>2 DEF tool_result
    <2>2. b \in Nat
        BY AttributionAssumption
    <2>3. tool_weights' \in [Tools -> Nat] /\ \A u \in Tools : u # t => tool_weights'[u] = tool_weights[u]
        BY <1>0, <2>1, <2>2
    <2> QED BY <2>1, <2>3 DEF WeighedOK
<1>3. CASE model_returned_unbilled
    <2>1. tool_weights' = [t \in Tools |-> 0] /\ by_tool' = by_tool
        BY <1>3 DEF model_returned_unbilled, Cleared
    <2> QED BY <2>1 DEF WeighedOK
<1>4. ASSUME NEW r \in Payers, NEW bill \in Bills, model_returned(r, bill)
      PROVE  WeighedOK' /\ \A t \in Tools \ since : by_tool'[t] = by_tool[t]
    <2> DEFINE B == Tools \cup {Nobody}
    <2>1. tool_weights' = [t \in Tools |-> 0] /\ by_tool' = split(bill, Basis, Nobody, by_tool)
        BY <1>4 DEF model_returned, Cleared
    <2>2. \A t \in DOMAIN Basis : Basis[t].bucket = t /\ t \in since
        BY DEF Basis, Weighed, WeighedOK
    <2>3. by_tool = [b \in B |-> by_tool[b]]
        BY DEF WeighedOK
    <2>4. \A b \in B : b # Nobody /\ b \notin since => by_tool'[b] = by_tool[b]
        <3> SUFFICES ASSUME NEW b \in B, b # Nobody, b \notin since PROVE by_tool'[b] = by_tool[b]
            OBVIOUS
        <3>1. \A t \in DOMAIN Basis : Basis[t].bucket # b
            BY <2>2
        <3> HIDE DEF B
        <3> QED BY <2>1, <2>3, <3>1, UnweighedBearsNothing
    <2>5. by_tool' = [b \in B |-> by_tool'[b]]
        <3>1. DOMAIN by_tool = B
            BY <2>3
        <3> HIDE DEF B
        <3> QED BY <2>1, <2>3, <3>1 DEF split
    <2>6. WeighedOK'
        BY <2>1, <2>5 DEF WeighedOK
    <2> QED BY <1>0, <2>4, <2>6
<1> QED BY <1>1, <1>2, <1>3, <1>4 DEF AttributionNext

\* After a call, the results it was made of are charged to nobody again, for
\* any tools, sizes, bills and number of records.
THEOREM AlwaysChargedOnce == Spec => ChargedOnce
<1>1. Init => WeighedOK
    BY DEF Init, AttributionInit, WeighedOK
<1>2. WeighedOK /\ [Next]_vars => WeighedOK'
    <2> SUFFICES ASSUME WeighedOK, [Next]_vars PROVE WeighedOK'
        OBVIOUS
    <2>1. CASE AttributionNext
        BY <2>1, BillingStep
    <2>2. CASE UNCHANGED attributionVars
        BY <2>2 DEF attributionVars, WeighedOK
    <2> QED BY <2>1, <2>2 DEF Next, vars, Mcp, Store, Carrying, Ruling, Streaming, Billing,
                              Ordering, Looking
<1>3. WeighedOK /\ [Next]_vars => [\A t \in Tools \ since : by_tool'[t] = by_tool[t]]_attributionVars
    <2> SUFFICES ASSUME WeighedOK, [Next]_vars
                 PROVE  [\A t \in Tools \ since : by_tool'[t] = by_tool[t]]_attributionVars
        OBVIOUS
    <2>1. CASE AttributionNext
        BY <2>1, BillingStep
    <2>2. CASE UNCHANGED attributionVars
        BY <2>2
    <2> QED BY <2>1, <2>2 DEF Next, vars, Mcp, Store, Carrying, Ruling, Streaming, Billing,
                              Ordering, Looking
<1> QED BY <1>1, <1>2, <1>3, PTL DEF Spec, ChargedOnce

-----------------------------------------------------------------------------
(* A bill is cut in proportion, and all of it is borne.                      *)

\* Weights as a bill is cut over: finitely many, each of a bucket.
Weights(w, B) ==
    /\ IsFiniteSet(DOMAIN w) /\ DOMAIN w \subseteq Nat
    /\ \A i \in DOMAIN w : w[i].bucket \in B /\ w[i].weight \in Nat

\* A product is at most another when its factor is.
LEMMA TimesRises ==
    ASSUME NEW k \in Nat, NEW a \in Nat, NEW b \in Nat, a <= b
    PROVE  k * a <= k * b
OBVIOUS

LEMMA WeightIs ==
    ASSUME NEW B, NEW w, Weights(w, B)
    PROVE  /\ Weight(w) \in Nat
           /\ \A i \in DOMAIN w : w[i].weight <= Weight(w)
           /\ Weight(w) = SumFunctionOnSet([i \in DOMAIN w |-> w[i].weight], DOMAIN w)
<1> DEFINE wt == [i \in DOMAIN w |-> w[i].weight]
<1>1. DOMAIN wt = DOMAIN w /\ \A i \in DOMAIN w : wt[i] = w[i].weight /\ wt[i] \in Nat
    BY DEF Weights
<1>2. Weight(w) = SumFunctionOnSet(wt, DOMAIN w)
    BY <1>1 DEF Weight, SumFunction
<1> HIDE DEF wt
<1>3. SumFunctionOnSet(wt, DOMAIN w) \in Nat /\ \A i \in DOMAIN w : wt[i] <= SumFunctionOnSet(wt, DOMAIN w)
    BY <1>1, SumNat DEF Weights
<1> QED BY <1>1, <1>2, <1>3 DEF wt

\* The cut of a bill: all of it is borne, each share is its proportion
\* rounded down or up, and who weighs more bears no less.
LEMMA SharesAre ==
    ASSUME NEW bill \in Nat, NEW B \in SUBSET Nat, NEW w, Weights(w, B), Weight(w) # 0
    PROVE  LET shares == Shares(bill, w)
           IN  /\ DOMAIN shares = DOMAIN w
               /\ \A i \in DOMAIN w : shares[i] \in Nat
               /\ SumFunctionOnSet(shares, DOMAIN w) = bill
               /\ \A i \in DOMAIN w :
                     /\ shares[i] * Weight(w) < bill * w[i].weight + Weight(w)
                     /\ bill * w[i].weight < shares[i] * Weight(w) + Weight(w)
                     /\ \A j \in DOMAIN w : w[i].weight > w[j].weight => shares[i] >= shares[j]
<1> DEFINE D == DOMAIN w
           sum == Weight(w)
           wt == [i \in D |-> w[i].weight]
           floors == [i \in D |-> (bill * w[i].weight) \div sum]
           over == [i \in D |-> (bill * w[i].weight) % sum]
           left == bill - SumFunctionOnSet(floors, D)
           rank == [i \in D |-> Cardinality({j \in D : j # i /\ Before(w, over, j, i)})]
           one == [i \in D |-> IF rank[i] < left THEN 1 ELSE 0]
           shares == Shares(bill, w)
<1>1. /\ IsFiniteSet(D) /\ D \subseteq Nat
      /\ sum \in Nat \ {0}
      /\ \A i \in D : wt[i] = w[i].weight /\ wt[i] \in Nat /\ w[i].bucket \in Nat /\ wt[i] <= sum
      /\ sum = SumFunctionOnSet(wt, D)
    BY WeightIs DEF Weights
<1>2. ASSUME NEW i \in D
      PROVE  /\ floors[i] \in Nat /\ over[i] \in 0..sum - 1
             /\ bill * wt[i] = sum * floors[i] + over[i]
    <2> DEFINE N == bill * w[i].weight
    <2>1. N \in Nat
        BY <1>1
    <2> HIDE DEF N
    <2>2. /\ N \div sum \in Nat /\ N % sum \in 0..sum - 1
          /\ N = sum * (N \div sum) + (N % sum)
        BY <1>1, <2>1, Divided
    <2>3. floors[i] = N \div sum /\ over[i] = N % sum /\ N = bill * wt[i]
        BY DEF N
    <2> QED BY <2>2, <2>3
<1>3. shares = [i \in D |-> IF rank[i] < left THEN floors[i] + 1 ELSE floors[i]]
    <2>1. Leftover(bill, floors) = left
        BY DEF Leftover, SumFunction
    <2>2. Shares(bill, w) = [i \in D |-> IF Cardinality({j \in D : j # i /\ Before(w, over, j, i)}) < Leftover(bill, floors)
                                         THEN floors[i] + 1 ELSE floors[i]]
        BY DEF Shares
    <2> HIDE DEF left, floors, over
    <2> QED BY <2>1, <2>2
<1> HIDE DEF sum, shares, floors, over, wt
<1>4. SumFunctionOnSet(floors, D) \in Nat
    BY <1>1, <1>2, SumNat
<1>5. left \in Int
    BY <1>4
\* What the floors leave over is what the remainders come to.
<1>6. sum * left = SumFunctionOnSet(over, D)
    <2> DEFINE scaled == [i \in D |-> bill * wt[i]]
               whole == [i \in D |-> sum * floors[i]]
    <2>1. SumFunctionOnSet(scaled, D) = bill * SumFunctionOnSet(wt, D)
        <3>1. \A i \in D : wt[i] \in Int /\ scaled[i] = bill * wt[i]
            BY <1>1
        <3>2. bill \in Int
            OBVIOUS
        <3> HIDE DEF scaled
        <3> QED BY <1>1, <3>1, <3>2, SumTimes
    <2>2. SumFunctionOnSet(whole, D) = sum * SumFunctionOnSet(floors, D)
        <3>1. \A i \in D : floors[i] \in Int /\ whole[i] = sum * floors[i]
            BY <1>2
        <3>2. sum \in Int
            BY <1>1
        <3> HIDE DEF whole
        <3> QED BY <1>1, <3>1, <3>2, SumTimes
    <2>3. SumFunctionOnSet(scaled, D) = SumFunctionOnSet(whole, D) + SumFunctionOnSet(over, D)
        <3>1. \A i \in D : whole[i] \in Int /\ over[i] \in Int /\ scaled[i] = whole[i] + over[i]
            <4> TAKE i \in D
            <4>1. sum * floors[i] \in Int /\ over[i] \in Int /\ bill * wt[i] = sum * floors[i] + over[i]
                BY <1>1, <1>2
            <4> QED BY <4>1
        <3> HIDE DEF whole, scaled
        <3> QED BY <1>1, <3>1, SumPlus
    <2>4. SumFunctionOnSet(over, D) \in Nat
        <3>1. \A i \in D : over[i] \in Nat
            BY <1>1, <1>2
        <3> QED BY <1>1, <3>1, SumNat
    <2> HIDE DEF scaled, whole
    <2> DEFINE s == SumFunctionOnSet(floors, D)
               t == SumFunctionOnSet(over, D)
    <2>5. bill * sum = sum * s + t /\ s \in Nat /\ t \in Nat
        BY <1>1, <1>4, <2>1, <2>2, <2>3, <2>4
    <2>6. left = bill - s
        OBVIOUS
    <2> HIDE DEF s, t, left
    <2>7. sum * (bill - s) = bill * sum - sum * s
        BY <1>1, <2>5
    <2>8. sum * left = t
        BY <1>1, <2>5, <2>6, <2>7
    <2> QED BY <2>8 DEF t
<1> DEFINE R == {p \in D \X D : p[1] # p[2] /\ Before(w, over, p[1], p[2])}
<1>7. /\ \A i, j \in D : <<i, j>> \in R <=> i # j /\ Before(w, over, i, j)
      /\ \A i \in D : <<i, i>> \notin R
      /\ \A i, j, k \in D : <<i, j>> \in R /\ <<j, k>> \in R => <<i, k>> \in R
      /\ \A i, j \in D : i # j => <<i, j>> \in R \/ <<j, i>> \in R
    <2>1. \A i \in D : i \in Nat /\ over[i] \in Int /\ w[i].bucket \in Nat
        BY <1>1, <1>2
    <2>2. \A i, j \in D : <<i, j>> \in R <=> i # j /\ Before(w, over, i, j)
        OBVIOUS
    <2> HIDE DEF R
    <2>3. \A i, j, k \in D : <<i, j>> \in R /\ <<j, k>> \in R => <<i, k>> \in R
        BY <2>1, <2>2 DEF Before
    <2>4. \A i, j \in D : i # j => <<i, j>> \in R \/ <<j, i>> \in R
        BY <2>1, <2>2 DEF Before
    <2> QED BY <2>2, <2>3, <2>4
<1>8. /\ Cardinality(D) \in Nat
      /\ \A i \in D : rank[i] \in 0..Cardinality(D) - 1
      /\ \A i, j \in D : <<i, j>> \in R => rank[i] < rank[j]
      /\ \A k \in 0..Cardinality(D) : Cardinality(Placed(rank, D, k)) = k
    <2>1. \A i \in D : rank[i] = Cardinality(Earlier(R, D, i))
        <3> TAKE i \in D
        <3>1. Earlier(R, D, i) = {j \in D : j # i /\ Before(w, over, j, i)}
            BY <1>7 DEF Earlier
        <3> HIDE DEF R
        <3> QED BY <3>1
    <2> HIDE DEF R, rank, D
    <2>2. /\ IsFiniteSet(D) /\ \A i \in D : <<i, i>> \notin R
          /\ \A i, j, k \in D : <<i, j>> \in R /\ <<j, k>> \in R => <<i, k>> \in R
          /\ \A i, j \in D : i # j => <<i, j>> \in R \/ <<j, i>> \in R
        BY <1>1, <1>7
    <2> QED BY ONLY <2>1, <2>2, RankIs
\* There are more remainders than units, unless there is neither.
<1> DEFINE Pos == {i \in D : over[i] > 0}
<1>9. /\ IsFiniteSet(Pos) /\ Cardinality(Pos) \in Nat /\ Cardinality(Pos) <= Cardinality(D)
      /\ left \in Nat /\ left <= Cardinality(Pos)
    <2>1. IsFiniteSet(Pos) /\ Cardinality(Pos) \in Nat /\ Cardinality(Pos) <= Cardinality(D)
        BY <1>1, FS_Subset, FS_CardinalityType
    <2> DEFINE pos == [i \in D |-> IF over[i] > 0 THEN 1 ELSE 0]
               cap == [i \in D |-> (sum - 1) * pos[i]]
               P == Cardinality(Pos)
               t == SumFunctionOnSet(over, D)
    <2>2. SumFunctionOnSet(pos, D) = P
        <3>1. Pos = {i \in D : pos[i] = 1}
            OBVIOUS
        <3>2. \A i \in D : pos[i] \in {0, 1}
            OBVIOUS
        <3> HIDE DEF pos, Pos
        <3> QED BY <1>1, <3>1, <3>2, SumCounts
    <2>3. SumFunctionOnSet(cap, D) = (sum - 1) * P
        <3>1. \A i \in D : pos[i] \in Int /\ cap[i] = (sum - 1) * pos[i]
            OBVIOUS
        <3>2. sum - 1 \in Int
            BY <1>1
        <3> HIDE DEF pos, cap, Pos
        <3> QED BY <1>1, <2>2, <3>1, <3>2, SumTimes
    <2>4. t <= SumFunctionOnSet(cap, D)
        <3>1. \A i \in D : over[i] \in Int /\ cap[i] \in Int /\ over[i] <= cap[i]
            <4> TAKE i \in D
            <4>1. over[i] \in 0..sum - 1 /\ sum \in Nat \ {0}
                BY <1>1, <1>2
            <4>2. over[i] > 0 => cap[i] = (sum - 1) * 1
                OBVIOUS
            <4>3. ~(over[i] > 0) => cap[i] = (sum - 1) * 0
                OBVIOUS
            <4> HIDE DEF cap
            <4> QED BY <4>1, <4>2, <4>3
        <3> HIDE DEF cap
        <3> QED BY <1>1, <3>1, SumAtMost
    <2>5. t \in Nat
        <3>1. \A i \in D : over[i] \in Nat
            BY <1>1, <1>2
        <3> QED BY <1>1, <3>1, SumNat
    <2>6. sum * left <= (sum - 1) * P /\ sum * left >= 0 /\ P \in Nat
        BY <1>6, <2>1, <2>3, <2>4, <2>5
    <2> HIDE DEF left, P, t, Pos
    <2>7. left >= 0
        <3>1. left < 0 => sum * left <= sum * (-1)
            BY <1>1, <1>5
        <3>2. sum * (-1) < 0
            BY <1>1
        <3> QED BY <1>1, <1>5, <2>6, <3>1, <3>2
    <2>8. left <= P
        <3>1. left > P => sum * left >= sum * (P + 1)
            BY <1>1, <1>5, <2>6
        <3>2. sum * (P + 1) = sum * P + sum /\ (sum - 1) * P = sum * P - P
            BY <1>1, <2>6
        <3>3. sum * P \in Nat /\ sum * left \in Int
            BY <1>1, <1>5, <2>6
        <3> QED BY <1>1, <1>5, <2>6, <3>1, <3>2, <3>3
    <2> QED BY <1>5, <2>1, <2>7, <2>8 DEF P
<1>10. \A i \in D : one[i] \in {0, 1} /\ shares[i] = floors[i] + one[i]
    <2> HIDE DEF left, rank
    <2> QED BY <1>2, <1>3
\* A unit goes to none that has no remainder.
<1>11. \A i \in D : one[i] = 1 => over[i] > 0
    <2> TAKE i \in D
    <2>1. ASSUME over[i] = 0 PROVE rank[i] >= Cardinality(Pos)
        <3> DEFINE Below == {j \in D : j # i /\ Before(w, over, j, i)}
        <3>1. Pos \subseteq Below
            BY <2>1 DEF Before
        <3>2. IsFiniteSet(Below)
            BY <1>1, FS_Subset
        <3>3. rank[i] = Cardinality(Below)
            OBVIOUS
        <3> HIDE DEF Below, Pos, rank
        <3>4. Pos \in SUBSET Below
            BY <3>1
        <3>5. Cardinality(Pos) <= Cardinality(Below)
            BY <3>2, <3>4, FS_Subset
        <3>6. Cardinality(Below) \in Nat
            BY <3>2, FS_CardinalityType
        <3> QED BY <1>9, <3>3, <3>5, <3>6
    <2>2. over[i] \in 0..sum - 1 /\ rank[i] \in Nat /\ left \in Nat /\ Cardinality(Pos) \in Nat /\ left <= Cardinality(Pos)
        <3> HIDE DEF rank, left, Pos
        <3> QED BY <1>2, <1>8, <1>9
    <2>3. one[i] = 1 => rank[i] < left
        OBVIOUS
    <2> HIDE DEF one, rank, left, Pos
    <2> QED BY <1>1, <2>1, <2>2, <2>3
<1>12. SumFunctionOnSet(shares, D) = bill
    <2>1. SumFunctionOnSet(one, D) = left
        <3>1. {i \in D : one[i] = 1} = Placed(rank, D, left)
            BY DEF Placed
        <3>2. left \in 0..Cardinality(D)
            <4> HIDE DEF left, Pos
            <4> QED BY <1>8, <1>9
        <3>3. Cardinality(Placed(rank, D, left)) = left
            <4> HIDE DEF left, rank
            <4> QED BY <1>8, <3>2
        <3> HIDE DEF one, rank, left, D
        <3>4. \A i \in D : one[i] \in {0, 1}
            BY <1>10
        <3>5. SumFunctionOnSet(one, D) = Cardinality({i \in D : one[i] = 1})
            BY <1>1, <3>4, SumCounts
        <3> QED BY <3>1, <3>3, <3>5
    <2>2. \A i \in D : floors[i] \in Int /\ one[i] \in Int /\ shares[i] = floors[i] + one[i]
        <3> HIDE DEF one
        <3> QED BY <1>2, <1>10
    <2> HIDE DEF one
    <2>3. SumFunctionOnSet(shares, D) = SumFunctionOnSet(floors, D) + SumFunctionOnSet(one, D)
        BY <1>1, <2>2, SumPlus
    <2> QED BY <1>4, <2>1, <2>3
<1>13. \A i, j \in D : <<i, j>> \in R /\ one[j] = 1 => one[i] = 1
    <2> TAKE i, j \in D
    <2>1. <<i, j>> \in R => rank[i] < rank[j]
        BY <1>8
    <2>2. rank[i] \in Nat /\ rank[j] \in Nat /\ left \in Int
        <3> HIDE DEF rank, left
        <3> QED BY <1>5, <1>8
    <2>3. (one[j] = 1 <=> rank[j] < left) /\ (one[i] = 1 <=> rank[i] < left)
        OBVIOUS
    <2> HIDE DEF rank, left, one, R
    <2> QED BY <2>1, <2>2, <2>3
<1> HIDE DEF one, rank, left, Pos
<1>14. ASSUME NEW i \in D
       PROVE  /\ shares[i] \in Nat
              /\ shares[i] * sum < bill * wt[i] + sum
              /\ bill * wt[i] < shares[i] * sum + sum
    <2>1. /\ floors[i] \in Nat /\ over[i] \in 0..sum - 1 /\ bill * wt[i] = sum * floors[i] + over[i]
          /\ one[i] \in {0, 1} /\ shares[i] = floors[i] + one[i] /\ (one[i] = 1 => over[i] > 0)
        BY <1>2, <1>10, <1>11
    <2>2. shares[i] * sum = sum * floors[i] + sum * one[i]
        BY <1>1, <2>1
    <2>3. sum * one[i] = IF one[i] = 1 THEN sum ELSE 0
        BY <1>1, <2>1
    <2>4. sum * floors[i] \in Nat
        BY <1>1, <2>1
    <2> QED BY <1>1, <2>1, <2>2, <2>3, <2>4
<1>15. ASSUME NEW i \in D, NEW j \in D, wt[i] > wt[j] PROVE shares[i] >= shares[j]
    <2>1. /\ floors[i] \in Nat /\ over[i] \in 0..sum - 1 /\ bill * wt[i] = sum * floors[i] + over[i]
          /\ floors[j] \in Nat /\ over[j] \in 0..sum - 1 /\ bill * wt[j] = sum * floors[j] + over[j]
          /\ one[i] \in {0, 1} /\ shares[i] = floors[i] + one[i] /\ (one[i] = 1 => over[i] > 0)
          /\ one[j] \in {0, 1} /\ shares[j] = floors[j] + one[j] /\ (one[j] = 1 => over[j] > 0)
          /\ wt[i] \in Nat /\ wt[j] \in Nat
        BY <1>1, <1>2, <1>10, <1>11
    <2>2. bill * wt[i] >= bill * (wt[j] + 1) /\ bill * (wt[j] + 1) = bill * wt[j] + bill
        BY <1>15, <2>1
    <2>3. floors[i] >= floors[j]
        <3>1. floors[i] < floors[j] => sum * floors[j] >= sum * (floors[i] + 1)
            BY <1>1, <2>1
        <3>2. sum * (floors[i] + 1) = sum * floors[i] + sum
            BY <1>1, <2>1
        <3>3. sum * floors[i] \in Nat /\ sum * floors[j] \in Nat /\ bill * wt[j] \in Nat
            BY <1>1, <2>1
        <3> QED BY <1>1, <2>1, <2>2, <3>1, <3>2, <3>3
    <2>4. CASE floors[i] > floors[j]
        BY <2>1, <2>4
    <2>5. CASE floors[i] = floors[j]
        <3>1. over[i] >= over[j] + bill
            <4>1. sum * floors[i] \in Nat /\ bill * wt[j] \in Nat /\ bill * wt[i] \in Nat
                BY <1>1, <2>1
            <4> QED BY <1>1, <2>1, <2>2, <2>5, <4>1
        <3>2. CASE bill = 0
            <4>1. over[j] = 0
                <5>0. 0 * wt[j] = 0
                    BY <2>1
                <5>1. bill * wt[j] = 0 /\ sum * floors[j] \in Nat
                    <6> HIDE DEF D
                    <6>1. bill * wt[j] = 0
                        BY <3>2, <5>0
                    <6>2. sum \in Nat /\ floors[j] \in Nat
                        BY <1>1, <2>1
                    <6>3. sum * floors[j] \in Nat
                        BY ONLY <6>2
                    <6> QED BY ONLY <6>1, <6>3
                <5> QED BY <1>1, <2>1, <5>1
            <4> QED BY <2>1, <2>5, <4>1
        <3>3. CASE bill # 0
            <4>1. over[i] > over[j] /\ i # j
                BY <1>1, <2>1, <3>1, <3>3
            <4>2. <<i, j>> \in R
                BY <1>7, <4>1 DEF Before
            <4>3. one[j] = 1 => one[i] = 1
                BY <1>13, <4>2
            <4> QED BY <2>1, <2>5, <4>3
        <3> QED BY <3>2, <3>3
    <2> QED BY <2>1, <2>3, <2>4, <2>5
<1>16. DOMAIN shares = D
    BY <1>3
<1> HIDE DEF R
<1>17. \A i \in D : wt[i] = w[i].weight
    BY <1>1
<1> QED BY <1>12, <1>14, <1>15, <1>16, <1>17 DEF shares, sum

\* A bill that is cut raises a book by itself.
LEMMA SplitAdds ==
    ASSUME NEW K, NEW book, NEW fallback, NEW w, NEW bill,
           K \subseteq Nat, IsFiniteSet(K), book \in [K -> Nat], fallback \in K, Weights(w, K), bill \in Nat
    PROVE  /\ split(bill, w, fallback, book) \in [K -> Nat]
           /\ SumFunction(split(bill, w, fallback, book)) = SumFunction(book) + bill
<1> DEFINE charged == split(bill, w, fallback, book)
<1>0. DOMAIN book = K /\ SumFunction(book) = SumFunctionOnSet(book, K) /\ \A b \in K : book[b] \in Int
    BY DEF SumFunction
<1>1. CASE Weight(w) = 0
    <2>1. charged = [book EXCEPT ![fallback] = @ + bill]
        BY <1>1 DEF split
    <2> HIDE DEF charged
    <2>2. /\ charged \in [K -> Nat] /\ \A b \in K \ {fallback} : charged[b] = book[b]
          /\ charged[fallback] = book[fallback] + bill
        BY <2>1
    <2>3. SumFunctionOnSet(charged, K) = SumFunctionOnSet(book, K) + bill
        <3>1. /\ IsFiniteSet(K) /\ fallback \in K /\ bill \in Int /\ \A b \in K : book[b] \in Int
              /\ \A b \in K \ {fallback} : charged[b] = book[b]
              /\ charged[fallback] = book[fallback] + bill
            BY <1>0, <2>2
        <3> QED BY ONLY <3>1, SumRaised
    <2>4. DOMAIN charged = K
        BY <2>2
    <2> QED BY <1>0, <2>2, <2>3, <2>4 DEF SumFunction, charged
<1>2. CASE Weight(w) # 0
    <2> DEFINE D == DOMAIN w
               shares == Shares(bill, w)
               key == [i \in D |-> w[i].bucket]
               of(b) == {i \in D : w[i].bucket = b}
               borne == [b \in K |-> SumFunctionOnSet(shares, of(b))]
    <2>1. charged = [b \in K |-> IF of(b) = {} THEN book[b] ELSE book[b] + SumFunctionOnSet(shares, of(b))]
        BY <1>0, <1>2 DEF split
    <2>2. /\ IsFiniteSet(D) /\ \A i \in D : key[i] \in K /\ key[i] = w[i].bucket
        BY DEF Weights
    <2>3. (\A i \in D : shares[i] \in Nat) /\ SumFunctionOnSet(shares, D) = bill
        BY <1>2, SharesAre
    <2> HIDE DEF shares
    <2>4. \A b \in K : borne[b] \in Nat /\ charged[b] = book[b] + borne[b]
        <3> TAKE b \in K
        <3>1. IsFiniteSet(of(b)) /\ \A i \in of(b) : shares[i] \in Nat
            BY <2>2, <2>3, FS_Subset
        <3>2. borne[b] = SumFunctionOnSet(shares, of(b))
            OBVIOUS
        <3>3. borne[b] \in Nat
            <4> HIDE DEF of
            <4> QED BY <3>1, <3>2, SumNat
        <3>4. of(b) = {} => borne[b] = 0
            BY <3>1, <3>2, SumUnfolds
        <3>5. charged[b] = IF of(b) = {} THEN book[b] ELSE book[b] + borne[b]
            BY <2>1, <3>2
        <3>6. book[b] \in Nat
            OBVIOUS
        <3> HIDE DEF charged, borne, of
        <3> QED BY <3>3, <3>4, <3>5, <3>6
    <2>5. SumFunctionOnSet(borne, K) = SumFunctionOnSet(shares, D)
        <3>1. \A b \in K : borne[b] = SumFunctionOnSet(shares, Bucket(key, D, b))
            <4> TAKE b \in K
            <4>1. of(b) = Bucket(key, D, b)
                BY DEF Bucket
            <4>2. borne[b] = SumFunctionOnSet(shares, of(b))
                OBVIOUS
            <4> HIDE DEF of, borne
            <4> QED BY <4>1, <4>2
        <3>2. \A i \in D : shares[i] \in Int
            BY <2>3
        <3> HIDE DEF borne, key, D
        <3>3. /\ IsFiniteSet(D) /\ \A i \in D : shares[i] \in Int
              /\ IsFiniteSet(K) /\ \A i \in D : key[i] \in K
              /\ \A b \in K : borne[b] = SumFunctionOnSet(shares, Bucket(key, D, b))
            BY <2>2, <3>1, <3>2
        <3> QED BY ONLY <3>3, SumByBucket
    <2>6. charged \in [K -> Nat]
        <3>1. charged = [b \in K |-> charged[b]]
            BY <2>1
        <3>2. \A b \in K : charged[b] \in Nat
            <4> TAKE b \in K
            <4>1. book[b] \in Nat
                OBVIOUS
            <4> HIDE DEF charged, borne
            <4> QED BY <2>4, <4>1
        <3> HIDE DEF charged
        <3> QED BY <3>1, <3>2
    <2> HIDE DEF charged, borne
    <2>7. SumFunctionOnSet(charged, K) = SumFunctionOnSet(book, K) + SumFunctionOnSet(borne, K)
        <3>1. \A b \in K : book[b] \in Int /\ borne[b] \in Int /\ charged[b] = book[b] + borne[b]
            BY <1>0, <2>4
        <3>2. IsFiniteSet(K)
            OBVIOUS
        <3> QED BY ONLY <3>1, <3>2, SumPlus
    <2>8. DOMAIN charged = K
        BY <2>6
    <2> QED BY <1>0, <2>3, <2>5, <2>6, <2>7, <2>8 DEF SumFunction, charged
<1> QED BY <1>1, <1>2

AttributionInv ==
    /\ total \in Nat /\ by_run \in [Payers -> Nat]
    /\ by_segment \in [Slots \cup {Unattributed} -> Nat]
    /\ by_tool \in [Tools \cup {Nobody} -> Nat]
    /\ Weights(segment_weights, Slots) /\ tool_weights \in [Tools -> Nat]
    /\ CutsAddUp /\ SharesAreFair

LEMMA SumOfNothing ==
    ASSUME NEW K, IsFiniteSet(K)
    PROVE  SumFunction([k \in K |-> 0]) = 0
<1> DEFINE f == [k \in K |-> 0]
<1>1. \A k \in K : f[k] \in Int /\ f[k] = 0 * f[k]
    OBVIOUS
<1>2. DOMAIN f = K
    OBVIOUS
<1> HIDE DEF f
<1>3. SumFunctionOnSet(f, K) = 0 * SumFunctionOnSet(f, K)
    BY <1>1, SumTimes
<1>4. SumFunctionOnSet(f, K) \in Int
    BY <1>1, SumType
<1>5. SumFunctionOnSet(f, K) = 0
    BY <1>3, <1>4
<1> QED BY <1>2, <1>5 DEF SumFunction, f

LEMMA BucketsFinite ==
    /\ IsFiniteSet(Slots \cup {Unattributed}) /\ Slots \cup {Unattributed} \in SUBSET Nat
    /\ IsFiniteSet(Tools \cup {Nobody}) /\ Tools \cup {Nobody} \in SUBSET Nat
    /\ IsFiniteSet(Payers)
<1>1. /\ IsFiniteSet(Payers) /\ IsFiniteSet(Slots) /\ IsFiniteSet(Tools)
      /\ Slots \subseteq Nat /\ Tools \subseteq Nat
    BY AttributionAssumption
<1>2. IsFiniteSet(Slots \cup {Unattributed}) /\ IsFiniteSet(Tools \cup {Nobody})
    BY <1>1, FS_AddElement
<1> QED BY <1>1, <1>2 DEF Unattributed, Nobody

LEMMA AttributionBegins ==
    ASSUME AttributionInit
    PROVE  AttributionInv
<1>1. CutsAddUp
    BY BucketsFinite, SumOfNothing DEF AttributionInit, CutsAddUp
<1>2. Weights(<<>>, Slots)
    BY FS_EmptySet DEF Weights
<1>3. SharesAreFair
    BY DEF AttributionInit, SharesAreFair, Uncut
<1> QED BY <1>1, <1>2, <1>3 DEF AttributionInit, AttributionInv

LEMMA AttributionStep ==
    ASSUME AttributionInv, AttributionNext
    PROVE  AttributionInv'
<1>1. ASSUME NEW w \in Prompts, prompt_assembled(w) PROVE AttributionInv'
    <2>1. w \in Seq([bucket : Slots, weight : Nat])
        BY AttributionAssumption
    <2>2. DOMAIN w = 1..Len(w) /\ Len(w) \in Nat
        BY <2>1
    <2>3. IsFiniteSet(DOMAIN w)
        BY <2>2, FS_Interval
    <2>4. Weights(w, Slots)
        <3>1. \A i \in 1..Len(w) : w[i] \in [bucket : Slots, weight : Nat]
            <4> DEFINE W == [bucket : Slots, weight : Nat]
            <4>1. w \in Seq(W)
                BY <2>1
            <4> HIDE DEF W
            <4>2. \A i \in 1..Len(w) : w[i] \in W
                BY <4>1
            <4> QED BY <4>2 DEF W
        <3> QED BY <2>2, <2>3, <3>1 DEF Weights
    <2>5. segment_weights' = w /\ UNCHANGED <<total, by_run, by_segment, by_tool, tool_weights, cut>>
        BY <1>1 DEF prompt_assembled
    <2> QED BY <2>4, <2>5 DEF AttributionInv, CutsAddUp, SharesAreFair
<1>2. ASSUME NEW t \in Tools, NEW b \in Sizes, tool_result(t, b) PROVE AttributionInv'
    <2>1. b \in Nat
        BY AttributionAssumption
    <2>2. tool_weights' = [tool_weights EXCEPT ![t] = @ + b] /\ UNCHANGED <<total, by_run, by_segment, by_tool, segment_weights, cut>>
        BY <1>2 DEF tool_result
    <2>3. tool_weights' \in [Tools -> Nat]
        BY <2>1, <2>2 DEF AttributionInv
    <2> QED BY <2>2, <2>3 DEF AttributionInv, CutsAddUp, SharesAreFair
<1>3. CASE model_returned_unbilled
    <2>1. tool_weights' \in [Tools -> Nat] /\ UNCHANGED <<total, by_run, by_segment, by_tool, segment_weights, cut>>
        BY <1>3 DEF model_returned_unbilled, Cleared
    <2> QED BY <2>1 DEF AttributionInv, CutsAddUp, SharesAreFair
<1>4. ASSUME NEW r \in Payers, NEW bill \in Bills, model_returned(r, bill) PROVE AttributionInv'
    <2>0. /\ bill \in Nat /\ total' = total + bill /\ by_run' = [by_run EXCEPT ![r] = @ + bill]
          /\ by_segment' = split(bill, segment_weights, Unattributed, by_segment)
          /\ by_tool' = split(bill, Basis, Nobody, by_tool)
          /\ tool_weights' = [t \in Tools |-> 0] /\ segment_weights' = segment_weights
          /\ cut' = IF Weight(segment_weights) = 0 THEN Uncut
                    ELSE [bill |-> bill, weights |-> segment_weights, shares |-> Shares(bill, segment_weights)]
        BY <1>4, AttributionAssumption DEF model_returned, Cleared
    <2>1. by_run' \in [Payers -> Nat] /\ SumFunction(by_run)' = total'
        <3>1. /\ by_run' \in [Payers -> Nat] /\ \A p \in Payers \ {r} : by_run'[p] = by_run[p]
              /\ by_run'[r] = by_run[r] + bill /\ \A p \in Payers : by_run[p] \in Int
              /\ DOMAIN by_run = Payers /\ DOMAIN by_run' = Payers
            BY <2>0 DEF AttributionInv
        <3>2. bill \in Int
            BY <2>0
        <3>3. SumFunctionOnSet(by_run', Payers) = SumFunctionOnSet(by_run, Payers) + bill
            BY <3>1, <3>2, BucketsFinite, SumRaised
        <3> QED BY <2>0, <3>1, <3>3 DEF SumFunction, AttributionInv, CutsAddUp
    <2>2. by_segment' \in [Slots \cup {Unattributed} -> Nat] /\ SumFunction(by_segment)' = total'
        <3>1. Weights(segment_weights, Slots \cup {Unattributed})
            BY DEF AttributionInv, Weights
        <3>2. /\ split(bill, segment_weights, Unattributed, by_segment) \in [Slots \cup {Unattributed} -> Nat]
              /\ SumFunction(split(bill, segment_weights, Unattributed, by_segment)) = SumFunction(by_segment) + bill
            BY <2>0, <3>1, BucketsFinite, SplitAdds DEF AttributionInv
        <3> QED BY <2>0, <3>2 DEF AttributionInv, CutsAddUp
    <2>3. by_tool' \in [Tools \cup {Nobody} -> Nat] /\ SumFunction(by_tool)' = total'
        <3>1. Weights(Basis, Tools \cup {Nobody})
            <4>1. DOMAIN Basis \in SUBSET Tools /\ IsFiniteSet(Tools) /\ Tools \subseteq Nat
                BY AttributionAssumption DEF Basis
            <4>2. IsFiniteSet(DOMAIN Basis)
                BY <4>1, FS_Subset
            <4>3. \A t \in DOMAIN Basis : t \in Tools /\ Basis[t].bucket = t /\ Basis[t].weight = tool_weights[t]
                BY DEF Basis, Weighed
            <4> QED BY <4>1, <4>2, <4>3 DEF AttributionInv, Weights
        <3>2. /\ split(bill, Basis, Nobody, by_tool) \in [Tools \cup {Nobody} -> Nat]
              /\ SumFunction(split(bill, Basis, Nobody, by_tool)) = SumFunction(by_tool) + bill
            BY <2>0, <3>1, BucketsFinite, SplitAdds DEF AttributionInv
        <3> QED BY <2>0, <3>2 DEF AttributionInv, CutsAddUp
    <2>4. SharesAreFair'
        <3>1. CASE Weight(segment_weights) = 0
            <4>1. cut' = Uncut
                BY <2>0, <3>1
            <4>2. cut'.weights = <<>>
                BY <4>1 DEF Uncut
            <4> QED BY <4>2 DEF SharesAreFair
        <3>2. CASE Weight(segment_weights) # 0
            <4> DEFINE w == segment_weights
                       shares == Shares(bill, w)
            <4>1. cut'.bill = bill /\ cut'.weights = w /\ cut'.shares = shares
                BY <2>0, <3>2
            <4>2. \A i \in DOMAIN w :
                     /\ shares[i] * Weight(w) < bill * w[i].weight + Weight(w)
                     /\ bill * w[i].weight < shares[i] * Weight(w) + Weight(w)
                     /\ \A j \in DOMAIN w : w[i].weight > w[j].weight => shares[i] >= shares[j]
                <5>1. Slots \in SUBSET Nat /\ Weights(w, Slots)
                    BY AttributionAssumption DEF AttributionInv
                <5> QED BY <2>0, <3>2, <5>1, SharesAre
            <4> HIDE DEF shares, w
            <4> QED BY <4>1, <4>2 DEF SharesAreFair
        <3> QED BY <3>1, <3>2
    <2>5. total' \in Nat /\ tool_weights' \in [Tools -> Nat] /\ Weights(segment_weights, Slots)'
        BY <2>0 DEF AttributionInv
    <2> QED BY <2>1, <2>2, <2>3, <2>4, <2>5 DEF AttributionInv, CutsAddUp
<1> QED BY <1>1, <1>2, <1>3, <1>4 DEF AttributionNext

-----------------------------------------------------------------------------
(* WorkshopOrder.                                                            *)

\* A sequence in which nothing stands twice.
Once(s) == \A i, j \in 1..Len(s) : s[i] = s[j] => i = j

\* Numbers, and what puts them in their order.
Numbers(R, S) ==
    /\ \A x \in S : x \in Nat
    /\ \A x, y \in S : <<x, y>> \in R <=> x < y

\* Of numbers, how many are smaller is the place of each.
LEMMA PlacesAre ==
    ASSUME NEW S, IsFiniteSet(S), NEW R, Numbers(R, S),
           NEW rank, \A x \in S : rank[x] = Cardinality(Earlier(R, S, x))
    PROVE  /\ Cardinality(S) \in Nat
           /\ \A x \in S : rank[x] \in 0..Cardinality(S) - 1
           /\ \A x, y \in S : rank[x] = rank[y] => x = y
           /\ \A k \in 0..Cardinality(S) - 1 : \E x \in S : rank[x] = k
<1>1. \A x \in S : <<x, x>> \notin R
    BY DEF Numbers
<1>2. \A x, y, z \in S : <<x, y>> \in R /\ <<y, z>> \in R => <<x, z>> \in R
    BY DEF Numbers
<1>3. \A x, y \in S : x # y => <<x, y>> \in R \/ <<y, x>> \in R
    BY DEF Numbers
<1>4. \A x \in S : rank[x] = Cardinality(Earlier(R, S, x))
    OBVIOUS
<1>5. IsFiniteSet(S)
    OBVIOUS
<1> QED BY ONLY <1>1, <1>2, <1>3, <1>4, <1>5, RankIs

\* Numbers in their order: each stands there, and once.
LEMMA AscendingIs ==
    ASSUME NEW S, S \subseteq Nat, IsFiniteSet(S)
    PROVE  Ascending(S) \in Seq(S) /\ ToSet(Ascending(S)) = S /\ Once(Ascending(S))
<1> DEFINE R == {p \in S \X S : p[1] < p[2]}
           Less(x) == {m \in S : m < x}
           rank == [x \in S |-> Cardinality(Less(x))]
           n == Cardinality(S)
           s == Ascending(S)
<1>1. /\ \A x, y \in S : <<x, y>> \in R <=> x < y
      /\ \A x \in S : x \in Nat
    OBVIOUS
<1>2. \A x \in S : rank[x] = Cardinality(Earlier(R, S, x))
    <2> TAKE x \in S
    <2>1. Earlier(R, S, x) = Less(x)
        BY <1>1 DEF Earlier
    <2> HIDE DEF R
    <2> QED BY <2>1
<1>3. /\ n \in Nat
      /\ \A x \in S : rank[x] \in 0..n - 1
      /\ \A x, y \in S : rank[x] = rank[y] => x = y
      /\ \A k \in 0..n - 1 : \E x \in S : rank[x] = k
    <2> HIDE DEF R, rank
    <2>1. IsFiniteSet(S)
        OBVIOUS
    <2>2. Numbers(R, S)
        BY <1>1 DEF Numbers
    <2> HIDE DEF n
    <2>4. /\ Cardinality(S) \in Nat
          /\ \A x \in S : rank[x] \in 0..Cardinality(S) - 1
          /\ \A x, y \in S : rank[x] = rank[y] => x = y
          /\ \A k \in 0..Cardinality(S) - 1 : \E x \in S : rank[x] = k
        BY ONLY <2>1, <2>2, <1>2, PlacesAre
    <2> QED BY <2>4 DEF n
<1>4. s = [i \in 1..n |-> CHOOSE x \in S : Cardinality(Less(x)) = i - 1]
    BY DEF Ascending
<1>5. \A i \in 1..n : s[i] \in S /\ rank[s[i]] = i - 1
    <2> TAKE i \in 1..n
    <2>1. \E x \in S : rank[x] = i - 1
        <3>1. i - 1 \in 0..n - 1
            <4> HIDE DEF n
            <4> QED BY <1>3
        <3> HIDE DEF rank
        <3> QED BY <1>3, <3>1
    <2>2. \E x \in S : Cardinality(Less(x)) = i - 1
        BY <2>1
    <2>3. s[i] = CHOOSE x \in S : Cardinality(Less(x)) = i - 1
        BY <1>4
    <2> HIDE DEF s, Less
    <2>4. s[i] \in S /\ Cardinality(Less(s[i])) = i - 1
        BY <2>2, <2>3
    <2> QED BY <2>4
<1>6. s = [i \in 1..n |-> s[i]]
    BY <1>4
<1> HIDE DEF s, rank, n
<1>7. s \in Seq(S) /\ Len(s) = n /\ DOMAIN s = 1..n
    BY <1>3, <1>5, <1>6
<1>8. Once(s)
    <2> SUFFICES ASSUME NEW i \in 1..n, NEW j \in 1..n, s[i] = s[j] PROVE i = j
        BY <1>7 DEF Once
    <2>1. i - 1 = j - 1
        BY <1>5
    <2> QED BY <1>3, <2>1
<1>9. ToSet(s) = S
    <2>1. ASSUME NEW x \in S PROVE \E i \in 1..n : s[i] = x
        <3> DEFINE i == rank[x] + 1
        <3>1. i \in 1..n /\ i - 1 = rank[x]
            BY <1>3
        <3> HIDE DEF i
        <3>2. s[i] \in S /\ rank[s[i]] = rank[x]
            BY <1>5, <3>1
        <3>3. s[i] = x
            BY <1>3, <3>2
        <3> QED BY <3>1, <3>3
    <2> QED BY <1>5, <1>7, <2>1 DEF ToSet
<1> QED BY <1>7, <1>8, <1>9 DEF s

LEMMA JoinedOnce ==
    ASSUME NEW X, NEW s, NEW t, s \in Seq(X), t \in Seq(X), Once(s), Once(t), ToSet(s) \cap ToSet(t) = {}
    PROVE  s \o t \in Seq(X) /\ ToSet(s \o t) = ToSet(s) \cup ToSet(t) /\ Once(s \o t)
<1> DEFINE u == s \o t
           m == Len(s)
           n == Len(t)
<1>1. /\ u \in Seq(X) /\ m \in Nat /\ n \in Nat /\ Len(u) = m + n
      /\ DOMAIN u = 1..m + n /\ DOMAIN s = 1..m /\ DOMAIN t = 1..n
    OBVIOUS
<1>2. \A i \in 1..m + n : u[i] = IF i <= m THEN s[i] ELSE t[i - m]
    OBVIOUS
<1>3. \A i \in 1..m + n : i <= m => i \in 1..m
    BY <1>1
<1>4. \A i \in 1..m + n : ~(i <= m) => i - m \in 1..n
    BY <1>1
<1>5. \A i \in 1..n : i + m \in 1..m + n /\ ~(i + m <= m) /\ i + m - m = i
    BY <1>1
<1>6. \A i \in 1..m : i \in 1..m + n /\ i <= m
    BY <1>1
<1> HIDE DEF u, m, n
<1>7. ToSet(u) = ToSet(s) \cup ToSet(t)
    <2>1. \A i \in 1..m + n : u[i] \in ToSet(s) \cup ToSet(t)
        BY <1>1, <1>2, <1>3, <1>4 DEF ToSet
    <2>2. \A i \in 1..m : s[i] \in ToSet(u)
        BY <1>1, <1>2, <1>6 DEF ToSet
    <2>3. \A i \in 1..n : t[i] \in ToSet(u)
        <3> TAKE i \in 1..n
        <3> DEFINE k == i + m
        <3>0. k \in 1..m + n /\ ~(k <= m) /\ k - m = i
            BY <1>1, <1>5
        <3>1. u[k] = t[i]
            <4> HIDE DEF k
            <4>1. u[k] = t[k - m]
                BY <1>2, <3>0
            <4> QED BY <3>0, <4>1
        <3> QED BY <1>1, <3>0, <3>1 DEF ToSet
    <2> QED BY <1>1, <2>1, <2>2, <2>3 DEF ToSet
<1>8. Once(u)
    <2> SUFFICES ASSUME NEW i \in 1..m + n, NEW j \in 1..m + n, u[i] = u[j] PROVE i = j
        BY <1>1 DEF Once
    <2>1. CASE i <= m /\ j <= m
        BY <1>2, <1>3, <2>1 DEF Once, m
    <2>2. CASE ~(i <= m) /\ ~(j <= m)
        <3>1. t[i - m] = t[j - m] /\ i - m \in 1..n /\ j - m \in 1..n
            BY <1>2, <1>4, <2>2
        <3>2. i - m = j - m
            BY <3>1 DEF Once, n
        <3> QED BY <1>1, <3>2
    <2>3. \A a, b \in 1..m + n : a <= m /\ ~(b <= m) => u[a] # u[b]
        <3> TAKE a, b \in 1..m + n
        <3> HAVE a <= m /\ ~(b <= m)
        <3>1. u[a] \in ToSet(s) /\ u[b] \in ToSet(t)
            BY <1>1, <1>2, <1>3, <1>4 DEF ToSet
        <3> QED BY <3>1
    <2> QED BY <2>1, <2>2, <2>3
<1> QED BY <1>1, <1>7, <1>8 DEF u

LEMMA RestOnce ==
    ASSUME NEW X, NEW s, s \in Seq(X), s # <<>>, Once(s)
    PROVE  /\ Head(s) \in ToSet(s) /\ Head(s) \in X
           /\ Tail(s) \in Seq(X) /\ ToSet(Tail(s)) = ToSet(s) \ {Head(s)} /\ Once(Tail(s))
<1> DEFINE t == Tail(s)
           n == Len(s)
<1>1. /\ n \in Nat /\ n >= 1 /\ Head(s) = s[1] /\ t \in Seq(X) /\ Len(t) = n - 1
      /\ DOMAIN s = 1..n /\ DOMAIN t = 1..n - 1
    OBVIOUS
<1>2. \A i \in 1..n - 1 : t[i] = s[i + 1] /\ i + 1 \in 1..n /\ i + 1 # 1
    OBVIOUS
<1>3. \A i \in 1..n : i # 1 => i - 1 \in 1..n - 1 /\ (i - 1) + 1 = i
    BY <1>1
<1>4. 1 \in 1..n /\ s[1] \in X
    BY <1>1
<1> HIDE DEF t, n
<1>5. ToSet(t) = ToSet(s) \ {s[1]}
    <2>1. \A i \in 1..n - 1 : t[i] \in ToSet(s) /\ t[i] # s[1]
        BY <1>1, <1>2, <1>4 DEF ToSet, Once, n
    <2>2. \A i \in 1..n : s[i] # s[1] => s[i] \in ToSet(t)
        <3> TAKE i \in 1..n
        <3> HAVE s[i] # s[1]
        <3>1. i - 1 \in 1..n - 1 /\ t[i - 1] = s[i]
            BY <1>2, <1>3
        <3> QED BY <1>1, <3>1 DEF ToSet
    <2> QED BY <1>1, <2>1, <2>2 DEF ToSet
<1>6. Once(t)
    <2> SUFFICES ASSUME NEW i \in 1..n - 1, NEW j \in 1..n - 1, t[i] = t[j] PROVE i = j
        BY <1>1 DEF Once
    <2>1. i + 1 = j + 1
        BY <1>2 DEF Once, n
    <2> QED BY <2>1
<1> QED BY <1>1, <1>4, <1>5, <1>6 DEF t, ToSet

LEMMA AddedOnce ==
    ASSUME NEW X, NEW s, NEW x, s \in Seq(X), x \in X, x \notin ToSet(s), Once(s)
    PROVE  /\ Append(s, x) \in Seq(X) /\ ToSet(Append(s, x)) = ToSet(s) \cup {x} /\ Once(Append(s, x))
           /\ Len(Append(s, x)) = Len(s) + 1 /\ Append(s, x)[Len(s) + 1] = x
           /\ \A i \in 1..Len(s) : Append(s, x)[i] = s[i]
<1> DEFINE t == Append(s, x)
           n == Len(s)
<1>1. /\ n \in Nat /\ t \in Seq(X) /\ Len(t) = n + 1 /\ t[n + 1] = x
      /\ DOMAIN s = 1..n /\ DOMAIN t = 1..n + 1
    OBVIOUS
<1>2. \A i \in 1..n : t[i] = s[i]
    OBVIOUS
<1>3. \A i \in 1..n + 1 : i = n + 1 \/ i \in 1..n
    BY <1>1
<1>4. n + 1 \in 1..n + 1 /\ \A i \in 1..n : i \in 1..n + 1
    BY <1>1
<1> HIDE DEF t, n
<1>5. ToSet(t) = ToSet(s) \cup {x}
    BY <1>1, <1>2, <1>3, <1>4 DEF ToSet
<1>6. Once(t)
    <2> SUFFICES ASSUME NEW i \in 1..n + 1, NEW j \in 1..n + 1, t[i] = t[j] PROVE i = j
        BY <1>1 DEF Once
    <2>1. \A k \in 1..n : t[k] \in ToSet(s)
        BY <1>1, <1>2 DEF ToSet
    <2>2. \A k \in 1..n : t[k] # x
        BY <2>1
    <2>3. CASE i \in 1..n /\ j \in 1..n
        BY <1>2, <2>3 DEF Once, n
    <2> QED BY <1>1, <1>3, <2>2, <2>3
<1> QED BY <1>1, <1>2, <1>5, <1>6 DEF t, n

\* A sequence of a finite set's members, none twice, is as long as it has
\* members.
LEMMA OnceCounts ==
    ASSUME NEW X, IsFiniteSet(X), NEW s, s \in Seq(X), Once(s)
    PROVE  /\ Len(s) = Cardinality(ToSet(s)) /\ ToSet(s) \subseteq X
           /\ Len(s) = Cardinality(X) => ToSet(s) = X
<1>1. Len(s) \in Nat /\ s \in [1..Len(s) -> X] /\ DOMAIN s = 1..Len(s)
    OBVIOUS
<1>2. ToSet(s) \subseteq X /\ s \in [1..Len(s) -> ToSet(s)]
    BY <1>1 DEF ToSet
<1>3. s \in Injection(1..Len(s), ToSet(s))
    BY <1>2 DEF Once, Injection, IsInjective
<1>4. s \in Surjection(1..Len(s), ToSet(s))
    BY <1>1, <1>2 DEF Surjection, ToSet
<1>5. IsFiniteSet(ToSet(s))
    BY <1>2, FS_Subset
<1>6. Cardinality(1..Len(s)) = Cardinality(ToSet(s))
    BY <1>3, <1>4, <1>5, FS_Injection
<1>7. Cardinality(1..Len(s)) = Len(s)
    <2>1. 1 \in Int /\ Len(s) \in Int
        BY <1>1
    <2>2. Cardinality(1..Len(s)) = IF 1 > Len(s) THEN 0 ELSE Len(s) - 1 + 1
        BY <2>1, FS_Interval
    <2> QED BY <1>1, <2>2
<1>8. Cardinality(X) = Cardinality(ToSet(s)) => ToSet(s) = X
    BY <1>2, FS_Subset
<1> QED BY <1>2, <1>6, <1>7, <1>8

LEMMA OneFewer ==
    ASSUME NEW T, IsFiniteSet(T), NEW x
    PROVE  /\ Cardinality(T) \in Nat
           /\ Cardinality(T) = 0 <=> T = {}
           /\ x \in T => Cardinality(T) > 0 /\ Cardinality(T \ {x}) = Cardinality(T) - 1
           /\ x \notin T => T \ {x} = T
<1>1. Cardinality(T) \in Nat /\ (Cardinality(T) = 0 <=> T = {})
    BY FS_CardinalityType, FS_EmptySet
<1>2. x \in T => Cardinality(T \ {x}) = Cardinality(T) - 1
    BY FS_RemoveElement
<1> QED BY <1>1, <1>2

\* While nodes are put in order: what remains counts the needs not yet
\* placed, and in the queue is what has none.
Placing ==
    /\ \A n \in Nodes : needs[n] \subseteq Nodes
    /\ DOMAIN remaining = Nodes \ ToSet(order)
    /\ \A n \in Nodes \ ToSet(order) : remaining[n] = Cardinality(needs[n] \ ToSet(order))
    /\ queue \in Seq(Nodes) /\ Once(queue)
    /\ ToSet(queue) = {n \in Nodes \ ToSet(order) : needs[n] \subseteq ToSet(order)}

\* The desk holds what the order began with, and all that a node needs was
\* placed before it.
WorkshopInv ==
    /\ needs \in [Nodes -> SUBSET (Nodes \cup Strangers)] /\ inside \in SUBSET Nodes
    /\ phase \in {"check", "order", "hand", "laid", "refused"}
    /\ order \in Seq(Nodes) /\ Once(order)
    /\ \A k \in 1..Len(order) : \A n \in needs[order[k]] : \E j \in 1..k - 1 : order[j] = n
    /\ desk \in Seq(Nodes) /\ Len(desk) <= Len(order) /\ \A k \in 1..Len(desk) : desk[k] = order[k]
    /\ phase = "check" => order = <<>>
    /\ phase = "order" => desk = <<>> /\ Placing
    /\ phase \in {"hand", "laid"} => Len(order) = Cardinality(Nodes) /\ \A n \in Nodes : needs[n] \subseteq Nodes
    /\ phase = "laid" => Len(desk) = Len(order)
    /\ phase = "refused" => Cyclic \/ (\E n \in Nodes : needs[n] \cap Strangers # {}) \/ inside # Nodes

LEMMA WorkshopBegins == WorkshopInit => WorkshopInv
<1> SUFFICES ASSUME WorkshopInit PROVE WorkshopInv
    OBVIOUS
<1>1. order = <<>> /\ desk = <<>> /\ phase = "check"
    BY DEF WorkshopInit
<1>2. order \in Seq(Nodes) /\ desk \in Seq(Nodes) /\ Len(order) = 0 /\ Len(desk) = 0
    BY <1>1
<1> QED BY <1>1, <1>2 DEF WorkshopInit, WorkshopInv, Once

LEMMA NothingPlaced == ToSet(<<>>) = {}
BY DEF ToSet

LEMMA WorkshopNew == WorkshopInv /\ new => WorkshopInv'
<1> SUFFICES ASSUME WorkshopInv, new PROVE WorkshopInv'
    OBVIOUS
<1> USE WorkshopAssumption
<1>0. /\ needs' = needs /\ inside' = inside /\ order' = order /\ desk' = desk
      /\ order = <<>> /\ desk \in Seq(Nodes) /\ Len(desk) <= Len(order)
    BY DEF WorkshopInv, new
<1>1. desk = <<>> /\ ToSet(order) = {}
    BY <1>0, NothingPlaced
<1>2. CASE \A n \in Nodes : needs[n] \subseteq Nodes
    <2> DEFINE S == {n \in Nodes : needs[n] = {}}
    <2>1. /\ phase' = "order" /\ remaining' = [n \in Nodes |-> Cardinality(needs[n])]
          /\ queue' = Ascending(S)
        BY <1>2 DEF new
    <2>2. S \subseteq Nodes /\ S \subseteq Nat /\ IsFiniteSet(S)
        BY FS_Subset DEF WorkshopAssumption
    <2>3. S = {n \in Nodes \ ToSet(order) : needs[n] \subseteq ToSet(order)}
        BY <1>1
    <2>4. \A n \in Nodes : needs[n] = needs[n] \ ToSet(order)
        BY <1>1
    <2> HIDE DEF S
    <2>5. queue' \in Seq(S) /\ ToSet(queue') = S /\ Once(queue')
        BY <2>1, <2>2, AscendingIs
    <2>6. queue' \in Seq(Nodes)
        <3>1. S \subseteq Nodes
            BY <2>2
        <3> QED BY ONLY <2>5, <3>1
    <2>7. Placing'
        BY <1>0, <1>1, <1>2, <2>1, <2>3, <2>4, <2>5, <2>6 DEF Placing
    <2> QED BY <1>0, <1>1, <2>1, <2>7 DEF WorkshopInv
<1>3. CASE ~(\A n \in Nodes : needs[n] \subseteq Nodes)
    <2>1. phase' = "refused"
        BY <1>3 DEF new
    <2>2. \E n \in Nodes : needs[n] \cap Strangers # {}
        BY <1>3 DEF WorkshopInv
    <2> QED BY <1>0, <2>1, <2>2 DEF WorkshopInv
<1> QED BY <1>2, <1>3

LEMMA WorkshopPlaces == WorkshopInv /\ order_next => WorkshopInv'
<1> SUFFICES ASSUME WorkshopInv, order_next PROVE WorkshopInv'
    OBVIOUS
<1> USE WorkshopAssumption
<1> DEFINE id == Head(queue)
           unplaced == DOMAIN remaining \ {id}
           left == [n \in unplaced |-> IF id \in needs[n] /\ remaining[n] > 0 THEN remaining[n] - 1 ELSE remaining[n]]
           F == {n \in unplaced : id \in needs[n] /\ Freed(n, left[n])}
           P == ToSet(order)
           Q == ToSet(order')
<1>1. /\ phase = "order" /\ queue # <<>> /\ order' = Append(order, id) /\ remaining' = left
      /\ queue' = Tail(queue) \o Ascending(F)
      /\ needs' = needs /\ inside' = inside /\ phase' = phase /\ desk' = desk
    BY Zenon DEF order_next
<1>2. /\ needs \in [Nodes -> SUBSET (Nodes \cup Strangers)]
      /\ order \in Seq(Nodes) /\ Once(order) /\ desk = <<>>
      /\ \A k \in 1..Len(order) : \A n \in needs[order[k]] : \E j \in 1..k - 1 : order[j] = n
      /\ \A n \in Nodes : needs[n] \subseteq Nodes
      /\ DOMAIN remaining = Nodes \ P
      /\ \A n \in Nodes \ P : remaining[n] = Cardinality(needs[n] \ P)
      /\ queue \in Seq(Nodes) /\ Once(queue)
      /\ ToSet(queue) = {n \in Nodes \ P : needs[n] \subseteq P}
    BY <1>1 DEF WorkshopInv, Placing
<1>3. /\ id \in ToSet(queue) /\ id \in Nodes
      /\ Tail(queue) \in Seq(Nodes) /\ ToSet(Tail(queue)) = ToSet(queue) \ {id} /\ Once(Tail(queue))
    BY <1>1, <1>2, RestOnce
<1>4. id \in Nodes \ P /\ needs[id] \subseteq P
    <2> HIDE DEF id, P
    <2> QED BY <1>2, <1>3
<1> HIDE DEF id
<1>5. /\ order' \in Seq(Nodes) /\ Q = P \cup {id} /\ Once(order') /\ Len(order') = Len(order) + 1
      /\ order'[Len(order) + 1] = id /\ \A i \in 1..Len(order) : order'[i] = order[i]
    BY <1>1, <1>2, <1>4, AddedOnce
<1>6. \A k \in 1..Len(order') : \A n \in needs[order'[k]] : \E j \in 1..k - 1 : order'[j] = n
    <2> DEFINE m == Len(order)
    <2>0. m \in Nat /\ P = {order[j] : j \in 1..m}
        BY <1>2 DEF ToSet
    <2>1. needs[id] \subseteq {order[j] : j \in 1..m}
        BY <1>4, <2>0
    <2> HIDE DEF m, P, Q
    <2>2. \A k \in 1..m : order'[k] = order[k]
        BY <1>5 DEF m
    <2>3. \A k \in 1..m : \A n \in needs[order[k]] : \E j \in 1..k - 1 : order[j] = n
        BY <1>2 DEF m
    <2>4. Len(order') = m + 1 /\ order'[m + 1] = id
        BY <1>5 DEF m
    <2> TAKE k \in 1..Len(order')
    <2> TAKE n \in needs[order'[k]]
    <2>5. CASE k = m + 1
        <3>1. PICK j \in 1..m : order[j] = n
            BY <2>1, <2>4, <2>5
        <3>2. j \in 1..k - 1 /\ order'[j] = n
            BY <2>0, <2>2, <2>5, <3>1
        <3> QED BY <3>2
    <2>6. CASE k \in 1..m
        <3>1. PICK j \in 1..k - 1 : order[j] = n
            BY <2>2, <2>3, <2>6
        <3>2. j \in 1..m
            BY <2>0, <2>6, <3>1
        <3> QED BY <2>2, <3>1, <3>2
    <2> QED BY <2>0, <2>4, <2>5, <2>6
<1>7. unplaced = Nodes \ Q /\ DOMAIN left = unplaced
    <2> HIDE DEF P, Q
    <2> QED BY <1>2, <1>5
<1>8. \A n \in unplaced : /\ left[n] = Cardinality(needs[n] \ Q)
                          /\ left[n] = 0 <=> needs[n] \subseteq Q
    <2> TAKE n \in unplaced
    <2> DEFINE T == needs[n] \ P
    <2> HIDE DEF P, Q, unplaced
    <2>1. n \in Nodes \ P /\ needs[n] \subseteq Nodes /\ remaining[n] = Cardinality(T)
        BY <1>2, <1>5, <1>7
    <2>2. IsFiniteSet(T) /\ IsFiniteSet(T \ {id})
        BY <2>1, FS_Subset DEF WorkshopAssumption
    <2>3. T \ {id} = needs[n] \ Q /\ (id \in T <=> id \in needs[n])
        BY <1>4, <1>5
    <2>4. left[n] = IF id \in needs[n] /\ remaining[n] > 0 THEN remaining[n] - 1 ELSE remaining[n]
        BY DEF unplaced
    <2> HIDE DEF T, left
    <2>5. /\ Cardinality(T) \in Nat
          /\ id \in T => Cardinality(T) > 0 /\ Cardinality(T \ {id}) = Cardinality(T) - 1
          /\ id \notin T => T \ {id} = T
        BY <2>2, OneFewer
    <2>6. Cardinality(T \ {id}) = 0 <=> T \ {id} = {}
        BY <2>2, OneFewer
    <2>7. left[n] = Cardinality(T \ {id})
        BY <2>1, <2>3, <2>4, <2>5
    <2> QED BY <2>3, <2>6, <2>7
<1>9. /\ F \subseteq unplaced /\ F \subseteq Nodes /\ IsFiniteSet(F) /\ F \subseteq Nat
      /\ F = {n \in Nodes \ Q : id \in needs[n] /\ needs[n] \subseteq Q}
    <2>1. F = {n \in unplaced : id \in needs[n] /\ left[n] = 0}
        BY DEF Freed
    <2> HIDE DEF F, left, P, Q
    <2>2. F = {n \in Nodes \ Q : id \in needs[n] /\ needs[n] \subseteq Q}
        <3> HIDE DEF unplaced
        <3> QED BY <1>7, <1>8, <2>1
    <2>3. F \subseteq unplaced /\ F \subseteq Nodes
        BY <1>7, <2>2
    <2> QED BY <2>2, <2>3, FS_Subset DEF WorkshopAssumption
<1> HIDE DEF F, left, unplaced
<1>10. Ascending(F) \in Seq(F) /\ ToSet(Ascending(F)) = F /\ Once(Ascending(F))
    BY <1>9, AscendingIs
<1>11. Ascending(F) \in Seq(Nodes)
    BY <1>9, <1>10
<1>12. ToSet(Tail(queue)) \cap F = {}
    <2> HIDE DEF P, Q
    <2> QED BY <1>2, <1>3, <1>4, <1>9
<1>13. /\ queue' \in Seq(Nodes) /\ Once(queue')
       /\ ToSet(queue') = ToSet(Tail(queue)) \cup F
    <2>1. ToSet(Tail(queue)) \cap ToSet(Ascending(F)) = {}
        BY <1>10, <1>12
    <2> DEFINE s == Tail(queue)
               t == Ascending(F)
    <2>2. /\ s \in Seq(Nodes) /\ t \in Seq(Nodes) /\ Once(s) /\ Once(t) /\ ToSet(s) \cap ToSet(t) = {}
        BY <1>3, <1>10, <1>11, <2>1
    <2> HIDE DEF s, t
    <2>3. s \o t \in Seq(Nodes) /\ ToSet(s \o t) = ToSet(s) \cup ToSet(t) /\ Once(s \o t)
        BY <2>2, JoinedOnce
    <2> QED BY <1>1, <1>10, <2>3 DEF s, t
<1>14. ToSet(queue') = {n \in Nodes \ Q : needs[n] \subseteq Q}
    <2> HIDE DEF P, Q
    <2> QED BY <1>2, <1>3, <1>4, <1>5, <1>9, <1>13
<1>15. Placing'
    <2>1. /\ \A n \in Nodes : needs'[n] \subseteq Nodes
          /\ DOMAIN remaining' = Nodes \ Q
        BY <1>1, <1>2, <1>7
    <2>2. \A n \in Nodes \ Q : remaining'[n] = Cardinality(needs[n] \ Q)
        BY <1>1, <1>7, <1>8
    <2> QED BY <1>1, <1>13, <1>14, <2>1, <2>2 DEF Placing
<1>16. desk' \in Seq(Nodes) /\ Len(desk') = 0 /\ 0 <= Len(order') /\ desk' = <<>>
    BY <1>1, <1>2, <1>5
<1> QED BY <1>1, <1>5, <1>6, <1>15, <1>16 DEF WorkshopInv

LEMMA WorkshopCloses == WorkshopInv /\ order_ends => WorkshopInv'
<1> SUFFICES ASSUME WorkshopInv, order_ends PROVE WorkshopInv'
    OBVIOUS
<1> USE WorkshopAssumption
<1> DEFINE P == ToSet(order)
           S == Nodes \ P
<1>1. /\ phase = "order" /\ queue = <<>> /\ phase' = IF Complete THEN "hand" ELSE "refused"
      /\ UNCHANGED <<needs, inside, order, desk>>
    BY DEF order_ends
<1>2. /\ order \in Seq(Nodes) /\ Once(order) /\ desk = <<>> /\ Len(desk) = 0 /\ Len(desk) <= Len(order)
      /\ needs \in [Nodes -> SUBSET (Nodes \cup Strangers)]
      /\ \A n \in Nodes : needs[n] \subseteq Nodes
      /\ ToSet(queue) = {n \in Nodes \ P : needs[n] \subseteq P}
    BY <1>1 DEF WorkshopInv, Placing
<1>3. CASE Complete
    BY <1>1, <1>2, <1>3 DEF WorkshopInv, Complete
<1>4. CASE ~Complete
    <2>1. Len(order) = Cardinality(P) /\ P \subseteq Nodes
        BY <1>2, OnceCounts DEF WorkshopAssumption
    <2>2. P # Nodes
        BY <1>4, <2>1 DEF Complete
    <2>3. ToSet(queue) = {}
        BY <1>1, NothingPlaced
    <2> HIDE DEF P
    <2>4. S \in (SUBSET Nodes) \ {{}} /\ \A n \in S : needs[n] \cap S # {}
        BY <1>2, <2>1, <2>2, <2>3
    <2> HIDE DEF S
    <2>5. Cyclic
        BY <2>4 DEF Cyclic
    <2>6. Cyclic' /\ phase' = "refused"
        BY <1>1, <1>4, <2>5 DEF Cyclic
    <2> QED BY <1>1, <2>6 DEF WorkshopInv
<1> QED BY <1>3, <1>4

LEMMA WorkshopHands == WorkshopInv /\ lay_out => WorkshopInv'
<1> SUFFICES ASSUME WorkshopInv, lay_out PROVE WorkshopInv'
    OBVIOUS
<1> DEFINE m == Len(order)
           d == Len(desk)
           k == d + 1
<1>1. /\ phase = "hand" /\ UNCHANGED <<needs, inside, remaining, queue, order>>
      /\ m \in Nat /\ d \in Nat /\ d <= m /\ order \in Seq(Nodes) /\ desk \in Seq(Nodes)
      /\ \A i \in 1..d : desk[i] = order[i]
    BY DEF lay_out, WorkshopInv
<1>2. IF k > m THEN phase' = "laid" /\ desk' = desk
      ELSE IF order[k] \in inside THEN desk' = Append(desk, order[k]) /\ phase' = phase
      ELSE phase' = "refused" /\ desk' = desk
    BY DEF lay_out
<1>3. CASE k > m
    <2>1. m = d
        BY <1>1, <1>3
    <2> QED BY <1>1, <1>2, <1>3, <2>1 DEF WorkshopInv
<1>4. CASE ~(k > m)
    <2>1. k \in 1..m /\ order[k] \in Nodes
        BY <1>1, <1>4
    <2>2. CASE order[k] \in inside
        <3>1. desk' = Append(desk, order[k]) /\ phase' = phase
            BY <1>2, <1>4, <2>2
        <3>2. /\ desk' \in Seq(Nodes) /\ Len(desk') = d + 1 /\ desk'[d + 1] = order[k]
              /\ \A i \in 1..d : desk'[i] = desk[i]
            BY <1>1, <2>1, <3>1
        <3>3. \A i \in 1..d + 1 : i = d + 1 \/ i \in 1..d
            BY <1>1
        <3>4. Len(desk') <= Len(order')
            BY <1>1, <2>1, <3>2
        <3>5. \A i \in 1..Len(desk') : desk'[i] = order'[i]
            BY <1>1, <3>2, <3>3
        <3> QED BY <1>1, <3>1, <3>2, <3>4, <3>5 DEF WorkshopInv
    <2>3. CASE order[k] \notin inside
        <3>1. phase' = "refused" /\ desk' = desk /\ inside' # Nodes
            BY <1>1, <1>2, <1>4, <2>1, <2>3
        <3> QED BY <1>1, <3>1 DEF WorkshopInv
    <2> QED BY <2>2, <2>3
<1> QED BY <1>3, <1>4

LEMMA WorkshopStep == WorkshopInv /\ [WorkshopNext]_workshopVars => WorkshopInv'
<1> SUFFICES ASSUME WorkshopInv, [WorkshopNext]_workshopVars PROVE WorkshopInv'
    OBVIOUS
<1>1. CASE UNCHANGED workshopVars
    <2>1. UNCHANGED <<needs, inside, phase, remaining, queue, order, desk>>
        BY <1>1 DEF workshopVars
    <2>2. Cyclic' = Cyclic /\ Placing' = Placing
        BY <2>1 DEF Cyclic, Placing
    <2> QED BY <2>1, <2>2 DEF WorkshopInv
<1>2. CASE WorkshopNext
    BY <1>2, WorkshopNew, WorkshopPlaces, WorkshopCloses, WorkshopHands DEF WorkshopNext
<1> QED BY <1>1, <1>2

\* What could be put in order waits on nothing that waits on it: of the nodes
\* in a cycle, the one placed first would have needed another before it.
LEMMA OrderedIsAcyclic ==
    ASSUME WorkshopInv, ToSet(order) = Nodes
    PROVE  ~Cyclic
<1> SUFFICES ASSUME NEW S \in SUBSET Nodes, S # {}, \A n \in S : needs[n] \cap S # {} PROVE FALSE
    BY DEF Cyclic
<1> DEFINE m == Len(order)
           K == {k \in 1..m : order[k] \in S}
<1>1. /\ m \in Nat /\ Nodes = {order[k] : k \in 1..m}
      /\ \A k \in 1..m : \A n \in needs[order[k]] : \E j \in 1..k - 1 : order[j] = n
    BY DEF WorkshopInv, ToSet
<1> HIDE DEF m
<1>2. K \in SUBSET Nat /\ K # {}
    BY <1>1
<1>3. PICK k \in K : \A j \in K : k <= j
    <2> HIDE DEF K
    <2> QED BY <1>2, SmallestExists
<1>4. PICK n \in needs[order[k]] : n \in S
    BY <1>3
<1>5. PICK j \in 1..k - 1 : order[j] = n
    BY <1>1, <1>3, <1>4
<1>6. j \in K /\ j < k
    BY <1>1, <1>3, <1>4, <1>5
<1> QED BY <1>1, <1>3, <1>6

LEMMA WorkshopIsRight == WorkshopInv => OrderedIffAcyclic /\ NeedsComeFirst /\ LaidOutWhole
<1> SUFFICES ASSUME WorkshopInv PROVE OrderedIffAcyclic /\ NeedsComeFirst /\ LaidOutWhole
    OBVIOUS
<1> USE WorkshopAssumption
<1>1. order \in Seq(Nodes) /\ Once(order)
    BY DEF WorkshopInv
<1>2. phase \in {"hand", "laid"} => ToSet(order) = Nodes
    BY <1>1, OnceCounts DEF WorkshopInv, WorkshopAssumption
<1>3. OrderedIffAcyclic
    BY <1>2, OrderedIsAcyclic DEF OrderedIffAcyclic, WorkshopInv
<1>4. NeedsComeFirst
    <2> SUFFICES ASSUME NEW k \in 1..Len(desk), NEW n \in needs[desk[k]]
                 PROVE  \E j \in 1..k - 1 : desk[j] = n
        BY DEF NeedsComeFirst
    <2>1. /\ Len(desk) \in Nat /\ Len(order) \in Nat /\ Len(desk) <= Len(order)
          /\ \A i \in 1..Len(desk) : desk[i] = order[i]
          /\ \A i \in 1..Len(order) : \A x \in needs[order[i]] : \E j \in 1..i - 1 : order[j] = x
        BY DEF WorkshopInv
    <2>2. k \in 1..Len(order) /\ desk[k] = order[k] /\ \A j \in 1..k - 1 : j \in 1..Len(desk)
        BY <2>1
    <2>3. PICK j \in 1..k - 1 : order[j] = n
        BY <2>1, <2>2
    <2> QED BY <2>1, <2>2, <2>3
<1>5. LaidOutWhole
    <2> SUFFICES ASSUME phase = "laid" PROVE ToSet(desk) = Nodes /\ Len(desk) = Cardinality(Nodes)
        BY DEF LaidOutWhole
    <2>1. /\ Len(desk) = Len(order) /\ Len(order) = Cardinality(Nodes) /\ desk \in Seq(Nodes)
          /\ \A i \in 1..Len(desk) : desk[i] = order[i]
        BY DEF WorkshopInv
    <2>2. DOMAIN desk = 1..Len(desk) /\ DOMAIN order = 1..Len(desk)
        BY <1>1, <2>1
    <2>3. ToSet(desk) = ToSet(order)
        BY <2>1, <2>2 DEF ToSet
    <2> QED BY <1>2, <2>1, <2>3
<1> QED BY <1>3, <1>4, <1>5

-----------------------------------------------------------------------------
(* Cadences.                                                                 *)

\* The latest place up to N whose remainder is `at`.
LEMMA LatestIs ==
    ASSUME NEW D \in Nat \ {0}, NEW N \in Nat, N >= D, NEW at \in 0..D - 1
    PROVE  LET f == N - (N % D) + at
               L == Back(f, N, D)
           IN  /\ L \in Nat /\ L <= N /\ L % D = at
               /\ \A m \in L + 1..N : m % D # at
<1> DEFINE q == N \div D
           f == N - (N % D) + at
           L == Back(f, N, D)
           p == IF f <= N THEN q ELSE q - 1
<1>1. q \in Nat /\ N % D \in 0..D - 1 /\ N = D * q + (N % D)
    BY Divided
<1>2. f = D * q + at
    BY <1>1
<1>3. q >= 1
    <2>1. q = 0 => N = N % D
        BY <1>1
    <2> QED BY <1>1, <2>1
<1>4. L = D * p + at /\ p \in Nat
    <2>1. D * (q - 1) = D * q - D
        BY <1>1
    <2> QED BY <1>1, <1>2, <1>3, <2>1 DEF Back
<1>5. L <= N /\ N < L + D
    BY <1>1, <1>2 DEF Back
<1>6. L \in Nat
    <2>1. D * p \in Nat
        BY <1>4
    <2> QED BY <1>4, <2>1
<1>7. L % D = at
    <2> HIDE DEF L, p
    <2> QED BY <1>4, <1>6, RemainderIs
<1> HIDE DEF L, p, q
<1>8. ASSUME NEW m \in L + 1..N, m % D = at PROVE FALSE
    <2>1. m \in Nat
        BY <1>6
    <2> DEFINE t == m \div D
    <2>2. t \in Nat /\ m = D * t + at
        BY <1>8, <2>1, Divided
    <2> HIDE DEF t
    <2>3. t > p
        <3>1. t <= p => D * t <= D * p
            BY <1>4, <2>2
        <3> QED BY <1>4, <1>6, <1>8, <2>2, <3>1
    <2>4. D * t >= D * (p + 1) /\ D * (p + 1) = D * p + D
        BY <1>4, <2>2, <2>3
    <2> QED BY <1>4, <1>5, <1>6, <2>2, <2>4
<1> QED BY <1>5, <1>6, <1>7, <1>8 DEF L

\* When an entry was last written for.
LEMMA LastFiringIs ==
    ASSUME NEW c \in Cadence, NEW M \in Nat, M >= WeekMinutes
    PROVE  /\ last_firing(c, M) \in Nat /\ last_firing(c, M) <= M
           /\ FiresAt(c, last_firing(c, M))
           /\ \A m \in last_firing(c, M) + 1..M : ~FiresAt(c, m)
<1>0. DayMinutes \in Nat \ {0} /\ WeekMinutes \in Nat \ {0} /\ DayMinutes <= WeekMinutes /\ EpochOffset \in Nat
    BY CadencesAssumption DEF WeekMinutes, EpochOffset
<1>1. CASE \E n \in 0..DayMinutes + 1 : c = Every(n)
    <2>1. PICK n \in 0..DayMinutes + 1 : c = [kind |-> "every", at |-> n]
        BY <1>1 DEF Every
    <2> DEFINE D == IF n = 0 THEN 1 ELSE n
    <2>2. D \in Nat \ {0} /\ D <= DayMinutes + 1
        BY <1>0
    <2>3. last_firing(c, M) = M - (M % D)
        BY <2>1 DEF last_firing
    <2>4. \A m : FiresAt(c, m) <=> n \in {0, 1} \/ m % n = 0
        BY <2>1 DEF FiresAt
    <2>5. \A m \in Nat : FiresAt(c, m) <=> m % D = 0
        <3>1. \A m \in Nat : m % 1 = 0
            OBVIOUS
        <3> QED BY <2>4, <3>1
    <2> HIDE DEF D
    <2> DEFINE L == M - (M % D)
    <2>6. M % D \in 0..D - 1
        BY <2>2, Divided
    <2>7. M >= D
        <3>1. DayMinutes + 1 <= 7 * DayMinutes
            BY <1>0
        <3> QED BY <1>0, <2>2, <3>1 DEF WeekMinutes
    <2>8. L + 0 <= M /\ Back(L + 0, M, D) = L /\ L + 0 = L
        BY <2>2, <2>6 DEF Back
    <2>9. L \in Nat /\ L <= M /\ L % D = 0 /\ \A m \in L + 1..M : m % D # 0
        <3>1. 0 \in 0..D - 1
            BY <2>2
        <3>2. LET K == Back(L + 0, M, D)
              IN  /\ K \in Nat /\ K <= M /\ K % D = 0
                  /\ \A m \in K + 1..M : m % D # 0
            BY <2>2, <2>7, <3>1, LatestIs
        <3> HIDE DEF L
        <3> QED BY <2>8, <3>2
    <2> HIDE DEF L
    <2>10. \A m \in L + 1..M : m \in Nat
        BY <2>9
    <2> QED BY <2>3, <2>5, <2>9, <2>10 DEF L
<1>2. CASE \E n \in 0..DayMinutes - 1 : c = Daily(n)
    <2>1. PICK n \in 0..DayMinutes - 1 : c = [kind |-> "daily", at |-> n]
        BY <1>2 DEF Daily
    <2> DEFINE L == Back(M - (M % DayMinutes) + n, M, DayMinutes)
    <2>2. last_firing(c, M) = L
        BY <2>1 DEF last_firing
    <2>3. \A m : FiresAt(c, m) <=> m % DayMinutes = n
        BY <2>1 DEF FiresAt
    <2>4. M >= DayMinutes
        BY <1>0
    <2>5. L \in Nat /\ L <= M /\ L % DayMinutes = n /\ \A m \in L + 1..M : m % DayMinutes # n
        BY <1>0, <2>4, LatestIs
    <2> HIDE DEF L
    <2> QED BY <2>2, <2>3, <2>5
<1>3. CASE \E n \in 0..WeekMinutes - 1 : c = Weekly(n)
    <2>1. PICK n \in 0..WeekMinutes - 1 : c = [kind |-> "weekly", at |-> n]
        BY <1>3 DEF Weekly
    <2> DEFINE N == M + EpochOffset
               W == WeekMinutes
               f == N - (N % W) + n
               L == Back(f, N, W)
               K == last_firing(c, M)
    <2>2. K = Back(M - ((M + EpochOffset) % W) + n, M, W)
        BY <2>1 DEF last_firing
    <2>3. N \in Nat /\ N >= W /\ N % W \in 0..W - 1
        BY <1>0, Divided
    <2>4. K + EpochOffset = L
        BY <1>0, <2>2, <2>3 DEF Back
    <2>5. L \in Nat /\ L <= N /\ L % W = n /\ \A m \in L + 1..N : m % W # n
        BY <1>0, <2>3, LatestIs
    <2>6. K \in Nat
        <3>1. N < L + W
            BY <1>0, <2>3 DEF Back
        <3>2. K \in Int
            BY <1>0, <2>2, <2>3 DEF Back
        <3> HIDE DEF K, L
        <3> QED BY <1>0, <2>3, <2>4, <3>1, <3>2
    <2>7. \A m : FiresAt(c, m) <=> (m + EpochOffset) % W = n
        BY <2>1 DEF FiresAt
    <2>8. ASSUME NEW m \in K + 1..M PROVE m + EpochOffset \in L + 1..N
        <3> HIDE DEF K, L
        <3> QED BY <1>0, <2>4, <2>6
    <2> HIDE DEF K, L
    <2> QED BY <1>0, <2>4, <2>5, <2>6, <2>7, <2>8 DEF K
<1> QED BY <1>1, <1>2, <1>3 DEF Cadence

CadencesInv ==
    /\ cadence \in Cadence
    /\ after \in Nat /\ now \in Nat /\ WeekMinutes * MinuteMs <= now
    /\ looked.after \in Nat /\ looked.now \in Nat /\ WeekMinutes * MinuteMs <= looked.now
    /\ looked.due \in BOOLEAN /\ (looked.due <=> due(cadence, looked.after, looked.now))

LEMMA DueIs ==
    ASSUME CadencesInv
    PROVE  DueWhenItFired
<1> DEFINE M == looked.now \div MinuteMs
           F == looked.after \div MinuteMs
           L == last_firing(cadence, M)
<1>0. MinuteMs \in Nat \ {0} /\ WeekMinutes \in Nat
    BY CadencesAssumption DEF WeekMinutes
<1>1. M \in Nat /\ F \in Nat
    BY <1>0, Divided DEF CadencesInv
<1>2. M >= WeekMinutes
    <2>1. looked.now = MinuteMs * M + (looked.now % MinuteMs) /\ looked.now % MinuteMs \in 0..MinuteMs - 1
        BY <1>0, Divided DEF CadencesInv
    <2>2. looked.now < MinuteMs * (M + 1)
        <3>1. MinuteMs * (M + 1) = MinuteMs * M + MinuteMs
            BY <1>0, <1>1
        <3> QED BY <1>0, <1>1, <2>1, <3>1 DEF CadencesInv
    <2>3. MinuteMs * WeekMinutes = WeekMinutes * MinuteMs
        BY <1>0
    <2>4. MinuteMs * WeekMinutes < MinuteMs * (M + 1)
        BY <1>0, <1>1, <2>2, <2>3 DEF CadencesInv
    <2>5. M + 1 <= WeekMinutes => MinuteMs * (M + 1) <= MinuteMs * WeekMinutes
        BY <1>0, <1>1
    <2> QED BY <1>0, <1>1, <2>4, <2>5
<1>3. /\ L \in Nat /\ L <= M /\ FiresAt(cadence, L)
      /\ \A m \in L + 1..M : ~FiresAt(cadence, m)
    BY <1>1, <1>2, LastFiringIs DEF CadencesInv
<1>4. looked.due <=> L > F /\ L <= M
    BY DEF CadencesInv, due
<1> HIDE DEF L, M, F
<1>5. (L > F /\ L <= M) <=> \E m \in F + 1..M : FiresAt(cadence, m)
    <2>1. ASSUME NEW m \in F + 1..M, FiresAt(cadence, m) PROVE L > F /\ L <= M
        <3>1. m \notin L + 1..M
            BY <1>3, <2>1
        <3> QED BY <1>1, <1>3, <3>1
    <2>2. ASSUME L > F /\ L <= M PROVE L \in F + 1..M
        BY <1>1, <1>3, <2>2
    <2> QED BY <1>3, <2>1, <2>2
<1> QED BY <1>4, <1>5 DEF DueWhenItFired, M, F

LEMMA CadencesBegin ==
    ASSUME now \in Nat, after \in Nat, WeekMinutes * MinuteMs <= now, cadence \in Cadence,
           after = now, looked = [after |-> now, now |-> now, due |-> FALSE]
    PROVE  CadencesInv
<1>1. ~due(cadence, now, now)
    <2> DEFINE M == now \div MinuteMs
               L == last_firing(cadence, M)
    <2>0. MinuteMs \in Nat \ {0} /\ WeekMinutes \in Nat
        BY CadencesAssumption DEF WeekMinutes
    <2>1. M \in Nat
        BY <2>0, Divided
    <2>2. ~(L > M /\ L <= M)
        <3>1. ASSUME NEW x \in Int PROVE ~(x > M /\ x <= M)
            BY <2>1
        <3>2. L \in Int
            <4>1. \A D \in Nat \ {0} : M % D \in Nat /\ (M + EpochOffset) % D \in Nat
                BY <2>1, CadencesAssumption DEF EpochOffset
            <4>2. DayMinutes \in Nat \ {0} /\ WeekMinutes \in Nat \ {0}
                BY CadencesAssumption DEF WeekMinutes
            <4>3. cadence.at \in Nat
                BY <4>2 DEF Cadence, Every, Daily, Weekly
            <4> HIDE DEF M
            <4>4. (IF cadence.at = 0 THEN 1 ELSE cadence.at) \in Nat \ {0}
                BY <4>3
            <4> QED BY <2>1, <4>1, <4>2, <4>3, <4>4 DEF last_firing, Back
        <3> QED BY <3>1, <3>2
    <2> QED BY <2>2 DEF due
<1>2. /\ looked.after = now /\ looked.now = now /\ looked.due = FALSE
    OBVIOUS
<1> QED BY <1>1, <1>2 DEF CadencesInv

LEMMA CadencesStep ==
    ASSUME CadencesInv, CadencesNext
    PROVE  CadencesInv'
<1>0. MinuteMs * DayMinutes \in Nat /\ WeekMinutes * MinuteMs \in Nat
    BY CadencesAssumption DEF WeekMinutes
<1>1. CASE look
    <2>1. due(cadence, after, now) \in BOOLEAN
        BY DEF due
    <2>2. UNCHANGED <<cadence, now>> /\ after' = now /\ looked' = [after |-> after, now |-> now, due |-> due(cadence, after, now)]
        BY <1>1 DEF look
    <2>3. /\ looked'.after = after /\ looked'.now = now
          /\ looked'.due = due(cadence, after, now)
        BY <2>2
    <2> DEFINE d == due(cadence, after, now)
    <2>4. (looked'.due <=> d) /\ looked'.due \in BOOLEAN
        BY <2>1, <2>3
    <2>5. due(cadence', looked'.after, looked'.now) = d
        BY <2>2, <2>3
    <2> HIDE DEF d
    <2> QED BY <2>2, <2>3, <2>4, <2>5 DEF CadencesInv
<1>2. CASE \E ms \in {1, MinuteMs * DayMinutes} : pass(ms)
    <2>1. PICK ms \in Nat : pass(ms)
        BY <1>0, <1>2
    <2>2. UNCHANGED <<cadence, after, looked>> /\ now' = now + ms
        BY <2>1 DEF pass
    <2>3. due(cadence, looked.after, looked.now)' <=> due(cadence, looked.after, looked.now)
        BY <2>2
    <2> QED BY <1>0, <2>2, <2>3 DEF CadencesInv
<1> QED BY <1>1, <1>2 DEF CadencesNext

-----------------------------------------------------------------------------
(* Worked out right: the three parts together.                               *)

\* What each part has worked out so far, whichever of them the behaviour is
\* about.
WorkingInv == AttributionInv /\ WorkshopInv /\ CadencesInv

LEMMA WorkshopRests == WorkshopAtRest => WorkshopInv
<1> SUFFICES ASSUME WorkshopAtRest PROVE WorkshopInv
    OBVIOUS
<1>1. needs \in [Nodes -> SUBSET (Nodes \cup Strangers)] /\ inside \in SUBSET Nodes
    BY DEF WorkshopAtRest
<1> QED BY <1>1, WorkshopBegins DEF WorkshopAtRest, WorkshopInit

LEMMA CadencesRest == CadencesAtRest \/ CadencesInit => CadencesInv
<1>0. DayMinutes \in Nat \ {0} /\ MinuteMs \in Nat \ {0} /\ WeekMinutes * MinuteMs \in Nat
    BY CadencesAssumption DEF WeekMinutes
<1>1. CASE CadencesAtRest
    <2>1. Daily(0) \in Cadence
        <3>1. 0 \in 0..DayMinutes - 1
            BY <1>0
        <3> QED BY <3>1 DEF Cadence
    <2> QED BY <1>0, <1>1, <2>1, CadencesBegin DEF CadencesAtRest
<1>2. CASE CadencesInit
    BY <1>0, <1>2, CadencesBegin DEF CadencesInit
<1> QED BY <1>1, <1>2

LEMMA WorkingInvHolds == Spec => []WorkingInv
<1>1. Init => WorkingInv
    BY AttributionBegins, WorkshopBegins, WorkshopRests, CadencesRest DEF Init, WorkingInv
<1>2. WorkingInv /\ [Next]_vars => WorkingInv'
    <2> SUFFICES ASSUME WorkingInv, [Next]_vars PROVE WorkingInv'
        OBVIOUS
    <2>1. AttributionInv'
        <3>1. CASE AttributionNext
            BY <3>1, AttributionStep DEF WorkingInv
        <3>2. CASE UNCHANGED attributionVars
            BY <3>2 DEF attributionVars, WorkingInv, AttributionInv, CutsAddUp, SharesAreFair
        <3> QED BY <3>1, <3>2 DEF Next, vars, Mcp, Store, Carrying, Ruling, Streaming, Billing,
                                  Ordering, Looking
    <2>2. WorkshopInv'
        <3>1. [WorkshopNext]_workshopVars
            BY DEF Next, vars, Mcp, Store, Carrying, Ruling, Streaming, Billing, Ordering, Looking
        <3> QED BY <3>1, WorkshopStep DEF WorkingInv
    <2>3. CadencesInv'
        <3>1. CASE CadencesNext
            BY <3>1, CadencesStep DEF WorkingInv
        <3>2. CASE UNCHANGED cadenceVars
            BY <3>2 DEF cadenceVars, WorkingInv, CadencesInv
        <3> QED BY <3>1, <3>2 DEF Next, vars, Mcp, Store, Carrying, Ruling, Streaming, Billing,
                                  Ordering, Looking
    <2> QED BY <2>1, <2>2, <2>3 DEF WorkingInv
<1> QED BY <1>1, <1>2, PTL DEF Spec

\* Every bill is borne whole by runs, segments and tools and cut in
\* proportion, a graph of nodes is put in order exactly when it can be and
\* handed down so, and an entry of a schedule is due exactly when its time
\* came since it was last looked at: for any payers, slots, tools, prompts,
\* sizes and bills, any graph and any cadence, whatever a minute and a day
\* are long.
THEOREM EverythingIsWorkedOutRight == Spec => []WorkedOutRight
<1>1. WorkingInv => WorkedOutRight
    BY WorkshopIsRight, DueIs DEF WorkingInv, WorkedOutRight, AttributionInv
<1> QED BY <1>1, WorkingInvHolds, PTL

-----------------------------------------------------------------------------
(* Bundles. The lines of a ledger are worked out segment by segment.         *)

\* The lines of the first segments of a ledger, for each number of them.
Joins(f, ledger, n) ==
    f = [i \in 1..n |-> IF i = 1 THEN ledger[i] ELSE f[i - 1] \o ledger[i]]

\* There is such a function.
LEMMA JoinExists ==
  ASSUME NEW ledger
  PROVE  \A n \in Nat : \E f : Joins(f, ledger, n)
<1> DEFINE T == {n \in Nat : ~ \E f : Joins(f, ledger, n)}
<1>1. T = {}
    <2> SUFFICES ASSUME T # {} PROVE FALSE
        OBVIOUS
    <2>1. PICK n \in T : \A m \in T : n <= m
        BY SmallestExists
    <2>2. CASE n = 0
        <3> DEFINE g == [i \in 1..0 |-> <<>>]
        <3>1. Joins(g, ledger, 0)
            BY DEF Joins
        <3> QED BY <2>1, <2>2, <3>1
    <2>3. CASE n # 0
        <3>1. n - 1 \in Nat /\ n - 1 \notin T
            <4>1. n \in Nat
                BY <2>1
            <4> HIDE DEF T
            <4> QED BY <2>1, <2>3, <4>1
        <3>2. PICK f : Joins(f, ledger, n - 1)
            BY <3>1
        <3> DEFINE g == [i \in 1..n |-> IF i = n THEN IF i = 1 THEN ledger[i] ELSE f[i - 1] \o ledger[i]
                                        ELSE f[i]]
        <3>3. \A i \in 1..n : g[i] = IF i = 1 THEN ledger[i] ELSE g[i - 1] \o ledger[i]
            <4> SUFFICES ASSUME NEW i \in 1..n
                         PROVE  g[i] = IF i = 1 THEN ledger[i] ELSE g[i - 1] \o ledger[i]
                OBVIOUS
            <4>1. i # 1 => i - 1 \in 1..n /\ i - 1 # n
                BY <2>1
            <4>2. i # 1 => g[i - 1] = f[i - 1]
                BY <4>1
            <4>3. i # n => i \in 1..(n - 1)
                BY <2>1
            <4>4. i # n => f[i] = IF i = 1 THEN ledger[i] ELSE f[i - 1] \o ledger[i]
                BY <3>2, <4>3 DEF Joins
            <4> QED BY <4>2, <4>4
        <3>4. Joins(g, ledger, n)
            <4>1. g = [i \in 1..n |-> g[i]]
                OBVIOUS
            <4> HIDE DEF g
            <4> QED BY <3>3, <4>1 DEF Joins
        <3> QED BY <2>1, <3>4
    <2> QED BY <2>2, <2>3
<1> QED BY <1>1

\* Lines is the last of them.
LEMMA LinesJoin ==
  ASSUME NEW S, NEW ledger \in Seq(Seq(S))
  PROVE  \E f : Joins(f, ledger, Len(ledger)) /\ Lines(ledger) = IF ledger = <<>> THEN <<>> ELSE f[Len(ledger)]
<1> DEFINE f == CHOOSE f : f = [i \in 1..Len(ledger) |-> IF i = 1 THEN ledger[i] ELSE f[i - 1] \o ledger[i]]
<1>0. \E h : h = [i \in 1..Len(ledger) |-> IF i = 1 THEN ledger[i] ELSE h[i - 1] \o ledger[i]]
    <2>1. Len(ledger) \in Nat
        OBVIOUS
    <2> QED BY <2>1, JoinExists DEF Joins
<1>1. Joins(f, ledger, Len(ledger))
    BY <1>0 DEF Joins
<1>2. Lines(ledger) = IF Len(ledger) = 0 THEN ledger ELSE f[Len(ledger)]
    BY DEF Lines, FlattenSeq
<1>3. Len(ledger) = 0 <=> ledger = <<>>
    BY EmptySeq
<1> QED BY <1>1, <1>2, <1>3

LEMMA NoLines == Lines(<<>>) = <<>>
<1>1. <<>> \in Seq(Seq({}))
    BY EmptySeq
<1> QED BY <1>1, LinesJoin

\* The lines of a ledger are those of its segments.
LEMMA LinesType ==
  ASSUME NEW S, NEW ledger \in Seq(Seq(S))
  PROVE  Lines(ledger) \in Seq(S)
<1>1. PICK f : Joins(f, ledger, Len(ledger)) /\ Lines(ledger) = IF ledger = <<>> THEN <<>> ELSE f[Len(ledger)]
    BY LinesJoin
<1> DEFINE T == {i \in 1..Len(ledger) : f[i] \notin Seq(S)}
<1>2. T = {}
    <2> SUFFICES ASSUME T # {} PROVE FALSE
        OBVIOUS
    <2>0. T \in SUBSET Nat /\ Len(ledger) \in Nat
        OBVIOUS
    <2>1. PICK i \in T : \A j \in T : i <= j
        BY <2>0, SmallestExists
    <2>2. i # 1 => i - 1 \in 1..Len(ledger) /\ i - 1 \notin T
        BY <2>1
    <2>3. f[i] = IF i = 1 THEN ledger[i] ELSE f[i - 1] \o ledger[i]
        BY <1>1 DEF Joins
    <2>4. ledger[i] \in Seq(S)
        BY ElementOfSeq
    <2>5. i # 1 => f[i - 1] \in Seq(S)
        BY <2>2
    <2>6. i # 1 => f[i - 1] \o ledger[i] \in Seq(S)
        BY <2>4, <2>5, ConcatProperties
    <2>7. f[i] \in Seq(S)
        BY <2>3, <2>4, <2>6
    <2> QED BY <2>1, <2>7
<1>3. ledger # <<>> => Len(ledger) \in 1..Len(ledger)
    BY EmptySeq
<1> QED BY <1>1, <1>2, <1>3, EmptySeq

\* A segment more adds its lines.
LEMMA LinesAppend ==
  ASSUME NEW S, NEW ledger \in Seq(Seq(S)), NEW segment \in Seq(S)
  PROVE  Lines(Append(ledger, segment)) = Lines(ledger) \o segment
<1> DEFINE longer == Append(ledger, segment)
           m == Len(ledger)
<1>1. /\ longer \in Seq(Seq(S)) /\ Len(longer) = m + 1 /\ longer # <<>> /\ m \in Nat
      /\ longer[m + 1] = segment
      /\ \A i \in 1..m : longer[i] = ledger[i]
    BY AppendProperties
<1>2. PICK f : Joins(f, ledger, Len(ledger)) /\ Lines(ledger) = IF ledger = <<>> THEN <<>> ELSE f[m]
    BY LinesJoin
<1> HIDE DEF longer
<1>3. PICK g : Joins(g, longer, Len(longer)) /\ Lines(longer) = IF longer = <<>> THEN <<>> ELSE g[Len(longer)]
    BY <1>1, LinesJoin
<1>4. \A i \in 1..m : g[i] = f[i]
    <2> DEFINE T == {i \in 1..m : f[i] # g[i]}
    <2> SUFFICES ASSUME T # {} PROVE FALSE
        OBVIOUS
    <2>1. T \in SUBSET Nat
        OBVIOUS
    <2>2. PICK i \in T : \A j \in T : i <= j
        BY <2>1, SmallestExists
    <2>3. i \in 1..m /\ i \in 1..Len(longer) /\ longer[i] = ledger[i]
        BY <1>1
    <2>4. i # 1 => i - 1 \in 1..m /\ i - 1 \notin T
        <3>1. i \in Nat
            BY <2>3
        <3>2. i - 1 \notin T
            <4> HIDE DEF T
            <4> QED BY <2>2, <3>1
        <3> QED BY <2>3, <3>2
    <2>5. f[i] = IF i = 1 THEN ledger[i] ELSE f[i - 1] \o ledger[i]
        BY <1>2, <2>3 DEF Joins
    <2>6. g[i] = IF i = 1 THEN longer[i] ELSE g[i - 1] \o longer[i]
        BY <1>3, <2>3 DEF Joins
    <2> QED BY <2>2, <2>3, <2>4, <2>5, <2>6
<1>5. g[m + 1] = IF m = 0 THEN segment ELSE g[m] \o segment
    <2>1. m + 1 \in 1..Len(longer) /\ (m + 1 = 1 <=> m = 0) /\ m + 1 - 1 = m
        BY <1>1
    <2>2. \A i \in 1..Len(longer) : g[i] = IF i = 1 THEN longer[i] ELSE g[i - 1] \o longer[i]
        BY <1>3 DEF Joins
    <2>3. g[m + 1] = IF m + 1 = 1 THEN longer[m + 1] ELSE g[m + 1 - 1] \o longer[m + 1]
        BY <2>1, <2>2
    <2> QED BY <1>1, <2>1, <2>3
<1>5a. Lines(longer) = g[m + 1]
    BY <1>1, <1>3
<1>6. CASE m = 0
    <2>1. ledger = <<>>
        BY <1>6, EmptySeq
    <2>2. <<>> \o segment = segment
        BY ConcatEmptySeq
    <2> HIDE DEF m
    <2> QED BY <1>2, <1>5, <1>5a, <1>6, <2>1, <2>2 DEF longer
<1>7. CASE m # 0
    <2>1. ledger # <<>> /\ m \in 1..m
        BY <1>1, <1>7, EmptySeq
    <2> HIDE DEF m
    <2> QED BY <1>2, <1>4, <1>5, <1>5a, <1>7, <2>1 DEF longer
<1> QED BY <1>6, <1>7

\* The last segment's lines come last, and another last segment leaves the
\* lines before it as they were.
ComeBefore(before, ledger, S) ==
    /\ Lines(ledger) = before \o ledger[Len(ledger)]
    /\ \A segment \in Seq(S) :
          Lines([ledger EXCEPT ![Len(ledger)] = segment]) = before \o segment

LEMMA LinesOfLast ==
  ASSUME NEW S, NEW ledger \in Seq(Seq(S)), ledger # <<>>
  PROVE  \E before \in Seq(S) : ComeBefore(before, ledger, S)
<1> DEFINE m == Len(ledger)
           first == SubSeq(ledger, 1, m - 1)
<1>1. m \in Nat \ {0} /\ m \in 1..m
    BY EmptySeq
<1>2. first \in Seq(Seq(S)) /\ Len(first) = m - 1 /\ \A i \in 1..(m - 1) : first[i] = ledger[i]
    <2>1. \A i \in 1..(m - 1) : ledger[i] \in Seq(S)
        BY <1>1, ElementOfSeq
    <2>2. 1 \in Int /\ m - 1 \in Int
        BY <1>1
    <2>3. /\ first \in Seq(Seq(S))
          /\ Len(first) = IF 1 <= m - 1 THEN m - 1 - 1 + 1 ELSE 0
          /\ \A i \in 1..(m - 1 - 1 + 1) : first[i] = ledger[1 + i - 1]
        BY <2>1, <2>2, SubSeqProperties
    <2> HIDE DEF first, m
    <2>4. Len(first) = m - 1
        BY <1>1, <2>3
    <2>5. \A i \in 1..(m - 1) : i \in 1..(m - 1 - 1 + 1) /\ 1 + i - 1 = i
        BY <1>1
    <2> QED BY <2>3, <2>4, <2>5
<1> HIDE DEF first
<1>3. \A segment \in Seq(S) : [ledger EXCEPT ![m] = segment] = Append(first, segment)
    <2> TAKE segment \in Seq(S)
    <2> DEFINE a == [ledger EXCEPT ![m] = segment]
               b == Append(first, segment)
    <2>1. a \in Seq(Seq(S)) /\ Len(a) = m /\ \A i \in 1..m : a[i] = IF i = m THEN segment ELSE ledger[i]
        BY <1>1, ExceptSeq
    <2>2. /\ b \in Seq(Seq(S)) /\ Len(b) = m - 1 + 1
          /\ \A i \in 1..(m - 1) : b[i] = first[i]
          /\ b[m - 1 + 1] = segment
        BY <1>2, AppendProperties
    <2>3. Len(b) = m /\ \A i \in 1..m : a[i] = b[i]
        BY <1>1, <1>2, <2>1, <2>2
    <2>4. a = b
        <3> HIDE DEF a, b
        <3> QED BY <2>1, <2>2, <2>3, SeqEqual
    <2> QED BY <2>4
<1>4. [ledger EXCEPT ![m] = ledger[m]] = ledger
    BY <1>1, LenProperties
<1>5. ledger[m] \in Seq(S)
    BY <1>1, ElementOfSeq
<1>6. Lines(first) \in Seq(S)
    BY <1>2, LinesType
<1>7. \A segment \in Seq(S) : Lines([ledger EXCEPT ![m] = segment]) = Lines(first) \o segment
    BY <1>2, <1>3, LinesAppend
<1>8. Lines(ledger) = Lines(first) \o ledger[m]
    BY <1>4, <1>5, <1>7
<1> QED BY <1>6, <1>7, <1>8 DEF ComeBefore

\* The lines that are whole; the one after them may be half written.
WholeLines == IF Idle THEN Len(Lines(city)) ELSE Len(Lines(city)) - 1

\* The segments whose lines are whole lines of this city, or half of one.
Copies == Seq(Seq(0..WholeLines))

\* Directories of files made of such lines, whichever files are there.
Dirs(S) == UNION {[D -> Seq(S)] : D \in SUBSET (1..MaxSegments)}

\* The city writes its lines in order, and puts what a line names before it
\* begins the line.
CityOK ==
    /\ city \in Copies /\ city # <<>> /\ Len(city) <= MaxSegments
    /\ \A i \in 1..WholeLines : Lines(city)[i] = i
    /\ 1..Len(Lines(city)) \subseteq objects

\* A manifest is one some export has written, and what the lines it counts
\* name is in the bundle or was lost since.
CopyOK ==
    /\ bundle \in [ledger : Dirs(0..WholeLines), objects : SUBSET objects, spoilt : SUBSET objects,
                   manifest : {Nothing} \cup vouched]
    /\ root \in [ledger : Dirs(0..WholeLines) \cup {Foreign}, objects : SUBSET objects,
                 spoilt : SUBSET objects]
    /\ 1..bundle.manifest.lines \subseteq bundle.objects \cup bundle.spoilt

\* What an answered restore left.
Restored ==
    LET lines == read_lines(root.ledger) IN
    /\ root.ledger \in Dirs(0..WholeLines) /\ Verifies(lines)
    /\ ManifestOf(lines) \in vouched
    /\ Named(lines) \subseteq root.objects \cup root.spoilt

\* Where a command stands. What the copied lines name has been copied by the
\* time the manifest is written, or is still to copy while the store is:
\* without this BundleIsTheCity is not inductive, as the manifest would vouch
\* for lines whose objects are absent.
CommandOK ==
    /\ task = "export ledger" => todo \subseteq DOMAIN city
    /\ task = "export objects" =>
        todo \subseteq objects /\ bundle.ledger \in Dirs({Half} \cup bundle.objects \cup todo)
    /\ task = "export manifest" => bundle.ledger \in Dirs({Half} \cup bundle.objects)
    /\ task \in {"restore ledger", "restore objects", "restore walk"} =>
        answer = "none" /\ root.ledger \in Dirs(0..WholeLines) /\ root.spoilt = bundle.spoilt
    /\ task = "restore ledger" => todo \subseteq DOMAIN bundle.ledger
    /\ task = "restore objects" => todo \subseteq objects /\ bundle.objects \subseteq root.objects \cup todo
    /\ task = "restore walk" => bundle.objects \subseteq root.objects
    /\ answer = "restored" => Restored

BundlesInv == CityOK /\ CopyOK /\ CommandOK

LEMMA CopiesGrow ==
  ASSUME NEW m \in Int, NEW n \in Int, m <= n
  PROVE  Seq(Seq(0..m)) \subseteq Seq(Seq(0..n))
<1>1. 0..m \subseteq 0..n
    OBVIOUS
<1>2. Seq(0..m) \subseteq Seq(0..n)
    BY <1>1, SeqMonotonic
<1> QED BY <1>2, SeqMonotonic

\* The open segment, and the lines before it.
LEMMA OpenIsLast ==
  ASSUME CityOK
  PROVE  /\ Len(city) \in Nat \ {0} /\ Open \in Seq(0..WholeLines) /\ WholeLines \in Int
         /\ Lines(city) \in Seq(0..WholeLines)
         /\ ~Idle => Open # <<>> /\ Open[Len(Open)] = Half /\ Len(Lines(city)) > 0
         /\ 0..WholeLines # {}  \/ Lines(city) = <<>>
         /\ \E before \in Seq(0..WholeLines) :
               /\ Lines(city) = before \o Open
               /\ \A segment \in Seq(0..WholeLines) :
                     Lines([city EXCEPT ![Len(city)] = segment]) = before \o segment
<1>0. city \in Seq(Seq(0..WholeLines)) /\ city # <<>>
    BY DEF CityOK, Copies
<1>1. Len(city) \in Nat \ {0} /\ Len(city) \in 1..Len(city)
    BY <1>0, EmptySeq
<1>2. Open \in Seq(0..WholeLines)
    BY <1>0, <1>1, ElementOfSeq DEF Open
<1>3. Lines(city) \in Seq(0..WholeLines)
    BY <1>0, LinesType
<1>4. Len(Lines(city)) \in Nat
    BY <1>3, LenProperties
<1>5. WholeLines \in Int
    BY <1>4 DEF WholeLines
<1>6. PICK before \in Seq(0..WholeLines) :
               /\ Lines(city) = before \o city[Len(city)]
               /\ \A segment \in Seq(0..WholeLines) :
                     Lines([city EXCEPT ![Len(city)] = segment]) = before \o segment
    <2> DEFINE S == 0..WholeLines
    <2>1. city \in Seq(Seq(S)) /\ city # <<>>
        BY <1>0
    <2> HIDE DEF S
    <2>2. \E before \in Seq(S) : ComeBefore(before, city, S)
        BY <2>1, LinesOfLast
    <2> QED BY <2>2 DEF S, ComeBefore
<1>7. ASSUME ~Idle PROVE Open # <<>> /\ Open[Len(Open)] = Half /\ Len(Lines(city)) > 0
    <2>1. Open # <<>> /\ Open[Len(Open)] = Half
        BY <1>7 DEF Idle, Last
    <2>2. Len(Open) \in Nat \ {0} /\ Len(before) \in Nat
        BY <1>2, <1>6, <2>1, EmptySeq, LenProperties
    <2>3. Len(Lines(city)) = Len(before) + Len(Open)
        BY <1>2, <1>6, ConcatProperties DEF Open
    <2> QED BY <2>1, <2>2, <2>3
<1>8. 0..WholeLines # {} \/ Lines(city) = <<>>
    <2> SUFFICES ASSUME Lines(city) # <<>> PROVE 0..WholeLines # {}
        OBVIOUS
    <2>1. 1 \in 1..Len(Lines(city))
        BY <1>3, EmptySeq
    <2> QED BY <1>3, <2>1, ElementOfSeq
<1>9. city[Len(city)] = Open
    BY DEF Open
<1> QED BY <1>1, <1>2, <1>3, <1>5, <1>6, <1>7, <1>8, <1>9

\* What the city does keeps it in order, and takes no line back.
LEMMA CityGoesOn ==
  ASSUME CityOK, Work \/ Written \/ Roll
  PROVE  /\ CityOK' /\ WholeLines \in Int /\ WholeLines' \in Int /\ WholeLines <= WholeLines'
         /\ objects \subseteq objects'
         /\ Len(city) \in Nat /\ Len(city') \in Nat /\ Len(city) <= Len(city')
<1> DEFINE W == WholeLines
           n == Len(Lines(city))
<1>0. /\ Len(city) \in Nat \ {0} /\ Open \in Seq(0..W) /\ W \in Int
      /\ Lines(city) \in Seq(0..W)
      /\ ~Idle => Open # <<>> /\ Open[Len(Open)] = Half /\ n > 0
    BY OpenIsLast
<1>1. PICK before \in Seq(0..W) :
               /\ Lines(city) = before \o Open
               /\ \A segment \in Seq(0..W) :
                     Lines([city EXCEPT ![Len(city)] = segment]) = before \o segment
    BY OpenIsLast
<1>2. n \in Nat /\ n = Len(before) + Len(Open) /\ Len(before) \in Nat /\ Len(Open) \in Nat
    BY <1>0, <1>1, ConcatProperties, LenProperties
<1>3. city \in Seq(Seq(0..W)) /\ Len(city) <= MaxSegments /\ \A i \in 1..W : Lines(city)[i] = i
    BY DEF CityOK, Copies
<1>4. 1..n \subseteq objects
    BY DEF CityOK
<1>5. CASE Work
    <2>1. Idle /\ objects' = objects \cup {n + 1} /\ city' = [city EXCEPT ![Len(city)] = Append(Open, Half)]
        BY <1>5 DEF Work, Open
    <2>2. W = n
        BY <2>1 DEF WholeLines
    <2>3. 0 \in 0..W
        BY <1>2, <2>2
    <2>4. /\ Append(Open, Half) \in Seq(0..W) /\ Append(Open, Half) # <<>>
          /\ Len(Append(Open, Half)) = Len(Open) + 1
          /\ Append(Open, Half)[Len(Open) + 1] = Half
          /\ \A i \in 1..Len(Open) : Append(Open, Half)[i] = Open[i]
        <3> DEFINE S == 0..W
        <3>1. Open \in Seq(S) /\ Half \in S
            BY <1>0, <2>3 DEF Half
        <3> HIDE DEF S
        <3>2. /\ Append(Open, Half) \in Seq(S) /\ Append(Open, Half) # <<>>
              /\ Len(Append(Open, Half)) = Len(Open) + 1
              /\ Append(Open, Half)[Len(Open) + 1] = Half
              /\ \A i \in 1..Len(Open) : Append(Open, Half)[i] = Open[i]
            BY <3>1, AppendProperties
        <3> QED BY <3>2 DEF S
    <2>5. /\ city' \in Seq(Seq(0..W)) /\ Len(city') = Len(city)
          /\ city'[Len(city')] = Append(Open, Half)
        BY <1>0, <1>3, <2>1, <2>4, ExceptSeq
    <2>6. Lines(city') = before \o Append(Open, Half)
        BY <1>1, <2>1, <2>4
    <2>7. Len(Lines(city')) = n + 1
        BY <1>1, <1>2, <2>4, <2>6, ConcatProperties
    <2>8. ~Idle'
        BY <2>4, <2>5 DEF Idle, Open, Last
    <2>9. WholeLines' = W
        BY <1>2, <2>2, <2>7, <2>8 DEF WholeLines
    <2>10. ASSUME NEW i \in 1..W PROVE Lines(city')[i] = i
        <3>1. i \in 1..n /\ i \in 1..(Len(before) + Len(Append(Open, Half)))
            BY <1>2, <2>2, <2>4
        <3>2. Lines(city')[i] = IF i <= Len(before) THEN before[i] ELSE Append(Open, Half)[i - Len(before)]
            BY <1>1, <2>4, <2>6, <3>1, ConcatProperties
        <3>3. Lines(city)[i] = IF i <= Len(before) THEN before[i] ELSE Open[i - Len(before)]
            BY <1>0, <1>1, <1>2, <3>1, ConcatProperties
        <3>4. ~ i <= Len(before) => i - Len(before) \in 1..Len(Open)
            BY <1>2, <3>1
        <3>5. Lines(city')[i] = Lines(city)[i]
            BY <2>4, <3>2, <3>3, <3>4
        <3> QED BY <1>3, <3>5
    <2>11. CityOK'
        <3>1. city' # <<>>
            BY <1>0, <2>5, EmptySeq
        <3>2. city' \in Copies'
            BY <2>5, <2>9 DEF Copies
        <3>3. \A i \in 1..WholeLines' : Lines(city')[i] = i
            BY <2>9, <2>10
        <3>4. 1..Len(Lines(city')) \subseteq objects'
            BY <1>2, <1>4, <2>1, <2>7
        <3> QED BY <1>3, <2>5, <3>1, <3>2, <3>3, <3>4 DEF CityOK
    <2> QED BY <1>0, <2>1, <2>5, <2>9, <2>11
<1>6. CASE Written
    <2> DEFINE m == Len(Open)
               open == [Open EXCEPT ![m] = n]
    <2>1. ~Idle /\ objects' = objects /\ city' = [city EXCEPT ![Len(city)] = open]
        BY <1>6 DEF Written, Open
    <2>2. W = n - 1 /\ n > 0
        BY <1>0, <2>1 DEF WholeLines
    <2>3. m \in Nat \ {0}
        BY <1>0, <2>1, EmptySeq
    <2>4. Open \in Seq(0..n) /\ before \in Seq(0..n) /\ city \in Seq(Seq(0..n))
        <3>1. 0..W \subseteq 0..n
            BY <1>2, <2>2
        <3>2. Seq(Seq(0..W)) \subseteq Seq(Seq(0..n))
            BY <1>0, <1>2, <2>2, CopiesGrow
        <3> QED BY <1>0, <1>1, <1>3, <3>1, <3>2, SeqMonotonic
    <2>5. /\ open \in Seq(0..n) /\ Len(open) = m
          /\ \A i \in 1..m : open[i] = IF i = m THEN n ELSE Open[i]
        BY <1>2, <2>3, <2>4, ExceptSeq
    <2>6. /\ city' \in Seq(Seq(0..n)) /\ Len(city') = Len(city)
          /\ city'[Len(city')] = open
        BY <1>0, <2>1, <2>4, <2>5, ExceptSeq
    <2>7. Lines(city') = before \o open
        <3>1. PICK other \in Seq(0..n) :
               /\ Lines(city) = other \o Open
               /\ \A segment \in Seq(0..n) :
                     Lines([city EXCEPT ![Len(city)] = segment]) = other \o segment
            <4>1. city # <<>>
                BY DEF CityOK
            <4>2. \E other \in Seq(0..n) :
                   /\ Lines(city) = other \o city[Len(city)]
                   /\ \A segment \in Seq(0..n) :
                         Lines([city EXCEPT ![Len(city)] = segment]) = other \o segment
                <5> DEFINE S == 0..n
                <5>1. city \in Seq(Seq(S)) /\ city # <<>>
                    BY <2>4, <4>1
                <5> HIDE DEF S
                <5>2. \E other \in Seq(S) : ComeBefore(other, city, S)
                    BY <5>1, LinesOfLast
                <5> QED BY <5>2 DEF S, ComeBefore
            <4> QED BY <4>2 DEF Open
        <3>2. other = before
            <4>1. other \o Open = before \o Open
                BY <1>1, <3>1
            <4> QED BY <2>4, <4>1, ConcatSimplifications
        <3> QED BY <2>1, <2>5, <3>1, <3>2
    <2>8. Len(Lines(city')) = n
        <3>1. before \in Seq(0..n) /\ open \in Seq(0..n)
            BY <2>4, <2>5
        <3>2. Len(before \o open) = Len(before) + Len(open)
            BY ONLY <3>1, ConcatProperties
        <3> QED BY <1>2, <2>4, <2>5, <2>7, <3>2
    <2>9. Idle'
        <3>1. Last(open) # Half
            BY <2>2, <2>3, <2>5 DEF Last, Half
        <3>2. Open' = open
            BY <2>6 DEF Open
        <3> QED BY <3>1, <3>2 DEF Idle
    <2>10. WholeLines' = n
        BY <2>8, <2>9 DEF WholeLines
    <2>11. ASSUME NEW i \in 1..n PROVE Lines(city')[i] = i
        <3>1. i \in 1..(Len(before) + Len(open))
            BY <1>2, <2>5
        <3>2. Lines(city')[i] = IF i <= Len(before) THEN before[i] ELSE open[i - Len(before)]
            <4> DEFINE S == 0..n
            <4>1. before \in Seq(S) /\ open \in Seq(S)
                BY <2>4, <2>5
            <4> HIDE DEF S, open
            <4>2. (before \o open)[i] = IF i <= Len(before) THEN before[i] ELSE open[i - Len(before)]
                BY <3>1, <4>1, ConcatProperties
            <4> QED BY <2>7, <4>2
        <3>3. Lines(city)[i] = IF i <= Len(before) THEN before[i] ELSE Open[i - Len(before)]
            BY <1>1, <1>2, <2>4, ConcatProperties
        <3>4. ~ i <= Len(before) => i - Len(before) \in 1..m
            BY <1>2
        <3>5. i - Len(before) = m <=> i = n
            BY <1>2
        <3>6. CASE i = n
            <4>1. ~ i <= Len(before)
                BY <1>2, <2>3, <3>6
            <4> QED BY <2>5, <3>2, <3>4, <3>5, <3>6, <4>1
        <3>7. CASE i # n
            <4>1. Lines(city')[i] = Lines(city)[i]
                BY <2>5, <3>2, <3>3, <3>4, <3>5, <3>7
            <4>2. i \in 1..W
                BY <1>2, <2>2, <3>7
            <4> QED BY <1>3, <4>1, <4>2
        <3> QED BY <3>6, <3>7
    <2>12. CityOK'
        <3>1. city' # <<>>
            BY <1>0, <2>6, EmptySeq
        <3>2. city' \in Copies'
            BY <2>6, <2>10 DEF Copies
        <3>3. \A i \in 1..WholeLines' : Lines(city')[i] = i
            BY <2>10, <2>11
        <3>4. 1..Len(Lines(city')) \subseteq objects'
            BY <1>4, <2>1, <2>8
        <3> QED BY <1>3, <2>6, <3>1, <3>2, <3>3, <3>4 DEF CityOK
    <2> QED BY <1>0, <1>2, <2>1, <2>2, <2>6, <2>10, <2>12
<1>7. CASE Roll
    <2>1. Idle /\ objects' = objects /\ city' = Append(city, <<>>)
        BY <1>7 DEF Roll
    <2>2. <<>> \in Seq(0..W)
        BY EmptySeq
    <2>3. /\ city' \in Seq(Seq(0..W)) /\ city' # <<>> /\ Len(city') = Len(city) + 1
          /\ city'[Len(city) + 1] = <<>>
        BY <1>3, <2>1, <2>2, AppendProperties
    <2>4. Lines(city') = Lines(city)
        BY <1>0, <1>3, <2>1, <2>2, LinesAppend, ConcatEmptySeq
    <2>5. Idle'
        BY <2>3 DEF Idle, Open
    <2>6. WholeLines' = W
        BY <2>1, <2>4, <2>5 DEF WholeLines
    <2>7. CityOK'
        <3>1. Len(city') <= MaxSegments
            <4>1. Len(city) < MaxSegments
                BY <1>7 DEF Roll
            <4> QED BY <1>0, <2>3, <4>1, BundlesAssumption
        <3> QED BY <1>3, <1>4, <2>1, <2>3, <2>4, <2>6, <3>1 DEF CityOK, Copies
    <2> QED BY <1>0, <2>1, <2>3, <2>6, <2>7
<1> QED BY <1>5, <1>6, <1>7

\* The lines of a directory are those of its files.
LEMMA ReadLinesType ==
  ASSUME NEW S, NEW dir \in Dirs(S)
  PROVE  read_lines(dir) \in Seq(S)
<1> DEFINE all == [i \in 1..MaxSegments |-> IF i \in DOMAIN dir THEN dir[i] ELSE <<>>]
<1>1. PICK D \in SUBSET (1..MaxSegments) : dir \in [D -> Seq(S)]
    BY DEF Dirs
<1>2. \A i \in 1..MaxSegments : all[i] \in Seq(S)
    BY <1>1, EmptySeq
<1>3. all \in Seq(Seq(S))
    <2>1. MaxSegments \in Nat
        BY BundlesAssumption
    <2>2. all \in [1..MaxSegments -> Seq(S)]
        BY <1>2
    <2> HIDE DEF all
    <2> QED BY <2>1, <2>2, SeqDef
<1> HIDE DEF all
<1>4. Lines(all) \in Seq(S)
    BY <1>3, LinesType
<1> QED BY <1>4 DEF read_lines, all

LEMMA DirsGrow ==
  ASSUME NEW S, NEW T, S \subseteq T
  PROVE  Dirs(S) \subseteq Dirs(T)
<1>1. Seq(S) \subseteq Seq(T)
    BY SeqMonotonic
<1> QED BY <1>1 DEF Dirs

\* A directory with no file.
LEMMA NoFilesType ==
  ASSUME NEW S, NEW dir, dir = NoFiles
  PROVE  dir \in Dirs(S)
<1>1. {} \in SUBSET (1..MaxSegments) /\ dir \in [{} -> Seq(S)]
    BY DEF NoFiles
<1> QED BY <1>1 DEF Dirs

\* A file that replaces the one that was there, and one that is gone, leave a
\* directory of the same lines.
LEMMA WriteFileType ==
  ASSUME NEW S, NEW dir \in Dirs(S), NEW i \in 1..MaxSegments, NEW file \in Seq(S)
  PROVE  WriteFile(dir, i, file) \in Dirs(S)
<1>1. PICK D \in SUBSET (1..MaxSegments) : dir \in [D -> Seq(S)]
    BY DEF Dirs
<1>2. DOMAIN dir = D /\ D \cup {i} \in SUBSET (1..MaxSegments)
    BY <1>1
<1>3. WriteFile(dir, i, file) \in [D \cup {i} -> Seq(S)]
    BY <1>1, <1>2 DEF WriteFile
<1> QED BY <1>2, <1>3 DEF Dirs

LEMMA RemoveFileType ==
  ASSUME NEW S, NEW dir \in Dirs(S), NEW i
  PROVE  RemoveFile(dir, i) \in Dirs(S)
<1>1. PICK D \in SUBSET (1..MaxSegments) : dir \in [D -> Seq(S)]
    BY DEF Dirs
<1>2. DOMAIN dir = D /\ D \ {i} \in SUBSET (1..MaxSegments)
    BY <1>1
<1>3. RemoveFile(dir, i) \in [D \ {i} -> Seq(S)]
    BY <1>1, <1>2 DEF RemoveFile
<1> QED BY <1>2, <1>3 DEF Dirs

LEMMA PartOf ==
  ASSUME NEW S, NEW s \in Seq(S), NEW m \in Nat \ {0}, NEW n \in Int, n <= Len(s)
  PROVE  SubSeq(s, m, n) \in Seq(S)
<1>1. \A i \in m..n : s[i] \in S
    BY ElementOfSeq
<1> QED BY <1>1, SubSeqProperties

LEMMA HalfReplacedType ==
  ASSUME NEW S, Half \in S, NEW dir \in Dirs(S), NEW i \in 1..MaxSegments, NEW file \in Seq(S),
         NEW l \in HalfReplaced(dir, i, file)
  PROVE  l \in Dirs(S)
<1>0. Len(file) \in Nat
    BY LenProperties
<1>1. ASSUME NEW piece \in Fragments(file) PROVE piece \in Seq(S)
    <2>1. CASE \E n \in 0..Len(file) : piece = SubSeq(file, 1, n)
        <3>1. PICK n \in 0..Len(file) : piece = SubSeq(file, 1, n)
            BY <2>1
        <3> QED BY <1>0, <3>1, PartOf
    <2>2. CASE \E n \in 0..(Len(file) - 1) : piece = Append(SubSeq(file, 1, n), Half)
        <3>1. PICK n \in 0..(Len(file) - 1) : piece = Append(SubSeq(file, 1, n), Half)
            BY <2>2
        <3>2. SubSeq(file, 1, n) \in Seq(S)
            BY <1>0, PartOf
        <3> QED BY <3>1, <3>2, AppendProperties
    <2> QED BY <2>1, <2>2 DEF Fragments
<1>2. CASE l = RemoveFile(dir, i)
    BY <1>2, RemoveFileType
<1>3. CASE \E piece \in Fragments(file) : l = WriteFile(dir, i, piece)
    BY <1>1, <1>3, WriteFileType
<1> QED BY <1>2, <1>3 DEF HalfReplaced

LEMMA CommandSteps ==
  /\ ExportOrder[1] = "export ledger" /\ RestoreOrder[1] = "restore ledger"
  /\ After("export ledger") = "export objects"
  /\ After("export objects") = "export manifest"
  /\ After("restore ledger") = "restore objects"
  /\ After("restore objects") = "restore walk"
<1> DEFINE steps == ExportOrder \o RestoreOrder
<1> DEFINE Steps == {"export ledger", "export objects", "export manifest",
                     "restore ledger", "restore objects", "restore walk"}
<1>1. /\ ExportOrder \in Seq(Steps) /\ Len(ExportOrder) = 3
      /\ RestoreOrder \in Seq(Steps) /\ Len(RestoreOrder) = 3
    <2>1. ExportOrder \in Seq(Steps)
        BY DEF ExportOrder
    <2>2. RestoreOrder \in Seq(Steps)
        BY DEF RestoreOrder
    <2>3. Len(ExportOrder) = 3
        BY DEF ExportOrder
    <2>4. Len(RestoreOrder) = 3
        BY DEF RestoreOrder
    <2> QED BY <2>1, <2>2, <2>3, <2>4
<1> HIDE DEF Steps
<1>1a. \A k \in 1..6 : steps[k] = IF k <= 3 THEN ExportOrder[k] ELSE RestoreOrder[k - 3]
    <2>1. \A k \in 1..(Len(ExportOrder) + Len(RestoreOrder)) :
            steps[k] = IF k <= Len(ExportOrder) THEN ExportOrder[k] ELSE RestoreOrder[k - Len(ExportOrder)]
        BY <1>1, ConcatProperties
    <2> HIDE DEF steps
    <2> QED BY <1>1, <2>1
<1> HIDE DEF steps
<1>2. /\ steps[1] = "export ledger" /\ steps[2] = "export objects" /\ steps[3] = "export manifest"
      /\ steps[4] = "restore ledger" /\ steps[5] = "restore objects" /\ steps[6] = "restore walk"
    <2>1. /\ steps[1] = ExportOrder[1] /\ steps[2] = ExportOrder[2] /\ steps[3] = ExportOrder[3]
          /\ steps[4] = RestoreOrder[1] /\ steps[5] = RestoreOrder[2] /\ steps[6] = RestoreOrder[3]
        BY <1>1a
    <2> QED BY <2>1 DEF ExportOrder, RestoreOrder
<1>3. ASSUME NEW n \in 1..5 PROVE After(steps[n]) = steps[n + 1]
    <2> DEFINE i == CHOOSE j \in 1..6 : steps[j] = steps[n]
    <2>1. n \in 1..6
        OBVIOUS
    <2>2. i \in 1..6 /\ steps[i] = steps[n]
        BY <2>1
    <2>3. i = n
        <3> HIDE DEF i
        <3>1. i = 1 \/ i = 2 \/ i = 3 \/ i = 4 \/ i = 5 \/ i = 6
            BY <2>2
        <3>2. n = 1 \/ n = 2 \/ n = 3 \/ n = 4 \/ n = 5
            OBVIOUS
        <3>4. CASE n = 1
            BY <1>2, <2>2, <3>1, <3>4
        <3>5. CASE n = 2
            BY <1>2, <2>2, <3>1, <3>5
        <3>6. CASE n = 3
            BY <1>2, <2>2, <3>1, <3>6
        <3>7. CASE n = 4
            BY <1>2, <2>2, <3>1, <3>7
        <3>8. CASE n = 5
            BY <1>2, <2>2, <3>1, <3>8
        <3> QED BY <3>2, <3>4, <3>5, <3>6, <3>7, <3>8
    <2>4. After(steps[n]) = steps[i + 1]
        BY DEF After, steps
    <2> QED BY <2>3, <2>4
<1>4. /\ After(steps[1]) = steps[2] /\ After(steps[2]) = steps[3]
      /\ After(steps[4]) = steps[5] /\ After(steps[5]) = steps[6]
    <2>1. After(steps[1]) = steps[1 + 1]
        BY <1>3
    <2>2. After(steps[2]) = steps[2 + 1]
        BY <1>3
    <2>3. After(steps[4]) = steps[4 + 1]
        BY <1>3
    <2>4. After(steps[5]) = steps[5 + 1]
        BY <1>3
    <2> QED BY <2>1, <2>2, <2>3, <2>4
<1> QED BY <1>2, <1>4 DEF ExportOrder, RestoreOrder

\* What is listed for each tree.
LEMMA Walked ==
  /\ walk("export ledger") = DOMAIN city /\ walk("export objects") = objects
  /\ walk("export manifest") = {} /\ walk("restore ledger") = DOMAIN bundle.ledger
  /\ walk("restore objects") = bundle.objects /\ walk("restore walk") = {}
    BY DEF walk

\* A city that stands still.
LEMMA CityStands == ASSUME city' = city, objects' = objects
                    PROVE  WholeLines' = WholeLines /\ Copies' = Copies /\ (CityOK => CityOK')
<1>1. WholeLines' = WholeLines
    BY DEF WholeLines, Idle, Open
<1> QED BY <1>1 DEF Copies, CityOK

\* The lines the city has written name objects of its store.
LEMMA LinesAreNamed ==
  ASSUME CityOK
  PROVE  WholeLines \in Int /\ 0..WholeLines \subseteq {Half} \cup objects
<1>1. Len(Lines(city)) \in Nat /\ WholeLines \in Int
    BY OpenIsLast, LenProperties
<1>2. WholeLines <= Len(Lines(city))
    BY <1>1 DEF WholeLines
<1>3. \A k \in 0..WholeLines : k = 0 \/ k \in 1..Len(Lines(city))
    BY <1>1, <1>2
<1> QED BY <1>1, <1>3 DEF CityOK, Half

\* The segments of the city's ledger have the numbers of its files.
LEMMA SegmentsAreFiles ==
  ASSUME CityOK
  PROVE  DOMAIN city \subseteq 1..MaxSegments /\ \A i \in DOMAIN city : city[i] \in Seq(0..WholeLines)
<1>1. city \in Seq(Seq(0..WholeLines)) /\ Len(city) <= MaxSegments
    BY DEF CityOK, Copies
<1>2. DOMAIN city = 1..Len(city) /\ Len(city) \in Nat
    BY <1>1, LenProperties
<1> QED BY <1>1, <1>2, ElementOfSeq, BundlesAssumption

LEMMA FilesOf ==
  ASSUME NEW S, NEW dir \in Dirs(S)
  PROVE  DOMAIN dir \subseteq 1..MaxSegments /\ \A i \in DOMAIN dir : dir[i] \in Seq(S)
BY DEF Dirs

\* The records' fields.
LEMMA CopyFields ==
  ASSUME CopyOK
  PROVE  /\ bundle.ledger \in Dirs(0..WholeLines) /\ bundle.objects \subseteq objects
         /\ bundle.spoilt \subseteq objects /\ bundle.manifest \in {Nothing} \cup vouched
         /\ root.ledger \in Dirs(0..WholeLines) \cup {Foreign} /\ root.objects \subseteq objects
         /\ root.spoilt \subseteq objects
BY DEF CopyOK

\* A city that goes on leaves the copies as they are.
LEMMA BundlesCity ==
  ASSUME BundlesInv, Work \/ Written \/ Roll
  PROVE  BundlesInv'
<1> USE DEF BundlesInv
<1>1. /\ CityOK' /\ WholeLines \in Int /\ WholeLines' \in Int /\ WholeLines <= WholeLines'
      /\ objects \subseteq objects'
      /\ Len(city) \in Nat /\ Len(city') \in Nat /\ Len(city) <= Len(city')
    BY CityGoesOn
<1>2. UNCHANGED <<bundle, root, task, todo, answer, stops, vouched>>
    BY DEF Work, Written, Roll
<1>3. Dirs(0..WholeLines) \subseteq Dirs(0..WholeLines')
    <2>1. 0..WholeLines \subseteq 0..WholeLines'
        BY <1>1
    <2> QED BY <2>1, DirsGrow
<1>4. CopyOK'
    <2>1. /\ bundle' \in [ledger : Dirs(0..WholeLines'), objects : SUBSET objects', spoilt : SUBSET objects',
                          manifest : {Nothing} \cup vouched']
          /\ root' \in [ledger : Dirs(0..WholeLines') \cup {Foreign}, objects : SUBSET objects',
                        spoilt : SUBSET objects']
        BY <1>1, <1>2, <1>3 DEF CopyOK
    <2> QED BY <1>2, <2>1 DEF CopyOK
<1>5. DOMAIN city \subseteq DOMAIN city'
    <2>1. city \in Copies /\ city' \in Copies'
        BY <1>1 DEF CityOK
    <2>2. DOMAIN city = 1..Len(city) /\ DOMAIN city' = 1..Len(city')
        BY <2>1, LenProperties DEF Copies
    <2> QED BY <1>1, <2>2
<1>6. Restored => Restored'
    <2> SUFFICES ASSUME Restored PROVE Restored'
        OBVIOUS
    <2>1. read_lines(root'.ledger) = read_lines(root.ledger)
        BY <1>2
    <2> QED BY <1>2, <1>3, <2>1 DEF Restored
<1>7. CommandOK'
    BY <1>1, <1>2, <1>3, <1>5, <1>6 DEF CommandOK
<1> QED BY <1>1, <1>4, <1>7

\* A step that leaves the directory and the manifests as they are takes no
\* restored city back.
LEMMA StaysRestored ==
  ASSUME UNCHANGED <<city, objects, root>>, vouched \subseteq vouched', Restored
  PROVE  Restored'
<1>1. read_lines(root'.ledger) = read_lines(root.ledger) /\ WholeLines' = WholeLines
    BY CityStands
<1> QED BY <1>1 DEF Restored

LEMMA BundlesStep == BundlesInv /\ BundlesNext => BundlesInv'
<1> SUFFICES ASSUME BundlesInv, BundlesNext PROVE BundlesInv'
    OBVIOUS
<1> USE DEF BundlesInv
<1> DEFINE W == WholeLines
<1>a. CityOK /\ CopyOK /\ CommandOK
    OBVIOUS
<1>0. /\ bundle.ledger \in Dirs(0..W) /\ bundle.objects \subseteq objects
      /\ bundle.spoilt \subseteq objects /\ bundle.manifest \in {Nothing} \cup vouched
      /\ root.ledger \in Dirs(0..W) \cup {Foreign} /\ root.objects \subseteq objects
      /\ root.spoilt \subseteq objects
    BY <1>a, CopyFields
<1>b. Half \in 0..W
    <2>1. Len(Lines(city)) \in Nat /\ (~Idle => Len(Lines(city)) > 0)
        BY <1>a, OpenIsLast, LenProperties
    <2> QED BY <2>1 DEF WholeLines, Half
<1>1. CASE Work \/ Written \/ Roll
    BY <1>1, BundlesCity
<1>2. CASE export
    <2>1. /\ task' = "export ledger" /\ todo' = DOMAIN city
          /\ UNCHANGED <<city, objects, bundle, root, answer, stops, vouched>>
        BY <1>2, CommandSteps, Walked DEF export, Undertake
    <2>2. WholeLines' = W /\ CityOK'
        BY <2>1, CityStands
    <2>3. answer' = "restored" => Restored'
        BY <2>1, StaysRestored DEF CommandOK
    <2>4. CopyOK' /\ CommandOK'
        BY <2>1, <2>2, <2>3 DEF CopyOK, CommandOK
    <2> QED BY <2>2, <2>4
<1>3. CASE copied_tree
    <2>1. /\ task \in {"export ledger", "export objects", "restore ledger", "restore objects"}
          /\ todo = {} /\ task' = After(task) /\ todo' = walk(After(task))
          /\ UNCHANGED <<city, objects, bundle, root, answer, stops, vouched>>
        BY <1>3 DEF copied_tree, Undertake
    <2>2. WholeLines' = W /\ CityOK'
        BY <2>1, CityStands
    <2>3. answer' = "restored" => Restored'
        BY <2>1, StaysRestored DEF CommandOK
    <2>4. CopyOK'
        BY <2>1, <2>2 DEF CopyOK
    <2>5. CASE task = "export ledger"
        <3>1. task' = "export objects" /\ todo' = objects
            BY <2>1, <2>5, CommandSteps, Walked
        <3>2. bundle.ledger \in Dirs({Half} \cup bundle.objects \cup objects)
            <4> DEFINE T == {Half} \cup bundle.objects \cup objects
            <4>1. 0..W \subseteq T
                BY <1>a, LinesAreNamed
            <4> HIDE DEF T
            <4>2. Dirs(0..W) \subseteq Dirs(T)
                BY <4>1, DirsGrow
            <4> QED BY <1>0, <4>2 DEF T
        <3> QED BY <2>1, <2>2, <2>3, <2>4, <3>1, <3>2 DEF CommandOK
    <2>6. CASE task = "export objects"
        <3>1. task' = "export manifest"
            BY <2>1, <2>6, CommandSteps
        <3>2. bundle.ledger \in Dirs({Half} \cup bundle.objects \cup todo)
            BY <2>6 DEF CommandOK
        <3>3. bundle.ledger \in Dirs({Half} \cup bundle.objects)
            <4>1. {Half} \cup bundle.objects \cup todo = {Half} \cup bundle.objects
                BY <2>1
            <4> QED BY <3>2, <4>1
        <3> QED BY <2>1, <2>2, <2>3, <2>4, <3>1, <3>3 DEF CommandOK
    <2>7. CASE task = "restore ledger"
        <3>1. task' = "restore objects" /\ todo' = bundle.objects
            BY <2>1, <2>7, CommandSteps, Walked
        <3>2. answer = "none" /\ root.ledger \in Dirs(0..W) /\ root.spoilt = bundle.spoilt
            BY <2>7 DEF CommandOK
        <3> QED BY <1>0, <2>1, <2>2, <2>4, <3>1, <3>2 DEF CommandOK
    <2>8. CASE task = "restore objects"
        <3>1. task' = "restore walk"
            BY <2>1, <2>8, CommandSteps
        <3>2. answer = "none" /\ root.ledger \in Dirs(0..W) /\ root.spoilt = bundle.spoilt
            BY <2>8 DEF CommandOK
        <3>3. bundle.objects \subseteq root.objects
            BY <2>1, <2>8 DEF CommandOK
        <3> QED BY <2>1, <2>2, <2>4, <3>1, <3>2, <3>3 DEF CommandOK
    <2> QED BY <2>1, <2>5, <2>6, <2>7, <2>8
<1>4. CASE export_ledger
    <2>1. PICK i \in todo : todo' = todo \ {i} /\ bundle' = [bundle EXCEPT !.ledger = WriteFile(@, i, city[i])]
        BY <1>4 DEF export_ledger
    <2>2. task = "export ledger" /\ UNCHANGED <<city, objects, root, task, answer, stops, vouched>>
        BY <1>4 DEF export_ledger
    <2>3. WholeLines' = W /\ CityOK'
        BY <2>2, CityStands
    <2>4. WriteFile(bundle.ledger, i, city[i]) \in Dirs(0..W)
        <3>1. i \in DOMAIN city
            BY <2>2 DEF CommandOK
        <3>2. i \in 1..MaxSegments /\ city[i] \in Seq(0..W)
            BY <1>a, <3>1, SegmentsAreFiles
        <3> QED BY <1>0, <3>2, WriteFileType
    <2>5. answer' = "restored" => Restored'
        BY <2>2, StaysRestored DEF CommandOK
    <2>6. CopyOK'
        BY <2>1, <2>2, <2>3, <2>4 DEF CopyOK
    <2>7. CommandOK'
        BY <2>1, <2>2, <2>3, <2>5 DEF CommandOK
    <2> QED BY <2>3, <2>6, <2>7
<1>5. CASE export_objects
    <2>1. PICK o \in todo : /\ todo' = todo \ {o}
                            /\ bundle' = [bundle EXCEPT !.objects = @ \cup {o}, !.spoilt = @ \ {o}]
        BY <1>5 DEF export_objects
    <2>2. task = "export objects" /\ UNCHANGED <<city, objects, root, task, answer, stops, vouched>>
        BY <1>5 DEF export_objects
    <2>3. WholeLines' = W /\ CityOK'
        BY <2>2, CityStands
    <2>4. todo \subseteq objects /\ bundle.ledger \in Dirs({Half} \cup bundle.objects \cup todo)
        BY <2>2 DEF CommandOK
    <2>5. /\ bundle'.ledger = bundle.ledger /\ bundle'.manifest = bundle.manifest
          /\ bundle'.objects = bundle.objects \cup {o} /\ bundle'.spoilt = bundle.spoilt \ {o}
        BY <2>1 DEF CopyOK
    <2>6. {Half} \cup bundle.objects \cup todo = {Half} \cup bundle'.objects \cup todo'
        BY <2>1, <2>5
    <2>7. answer' = "restored" => Restored'
        BY <2>2, StaysRestored DEF CommandOK
    <2>8. CopyOK'
        <3>1. bundle' \in [ledger : Dirs(0..W), objects : SUBSET objects, spoilt : SUBSET objects,
                           manifest : {Nothing} \cup vouched]
            BY <2>1, <2>4 DEF CopyOK
        <3>2. 1..bundle'.manifest.lines \subseteq bundle'.objects \cup bundle'.spoilt
            <4>1. 1..bundle.manifest.lines \subseteq bundle.objects \cup bundle.spoilt
                BY DEF CopyOK
            <4> QED BY <2>5, <4>1
        <3> QED BY <2>2, <2>3, <3>1, <3>2 DEF CopyOK
    <2>9. CommandOK'
        <3>1. todo' \subseteq objects /\ bundle'.ledger \in Dirs({Half} \cup bundle'.objects \cup todo')
            BY <2>1, <2>4, <2>5, <2>6
        <3> QED BY <2>2, <2>3, <2>7, <3>1 DEF CommandOK
    <2> QED BY <2>3, <2>8, <2>9
<1>6. CASE export_manifest
    <2> DEFINE lines == read_lines(bundle.ledger)
               made == ManifestOf(lines)
    <2>1. /\ task = "export manifest" /\ task' = "none" /\ vouched \subseteq vouched'
          /\ UNCHANGED <<city, objects, root, todo, answer, stops>>
        BY <1>6 DEF export_manifest
    <2>2. WholeLines' = W /\ CityOK'
        BY <2>1, CityStands
    <2>3. CommandOK'
        <3>1. answer' = "restored" => Restored'
            BY <2>1, StaysRestored DEF CommandOK
        <3> QED BY <2>1, <3>1 DEF CommandOK
    <2>4. CASE ~ Verifies(lines)
        <3>1. UNCHANGED <<bundle, vouched>>
            BY <1>6, <2>4 DEF export_manifest
        <3> QED BY <2>1, <2>2, <2>3, <3>1 DEF CopyOK
    <2>5. CASE Verifies(lines)
        <3>1. bundle' = [bundle EXCEPT !.manifest = made] /\ vouched' = vouched \cup {made}
            BY <1>6, <2>5 DEF export_manifest
        <3>2. lines \in Seq({Half} \cup bundle.objects)
            BY <2>1, ReadLinesType DEF CommandOK
        <3> HIDE DEF lines
        <3>3. made.lines = Len(lines) /\ Len(lines) \in Nat
            BY <3>2, LenProperties DEF ManifestOf
        <3>4. ASSUME NEW k \in 1..made.lines PROVE k \in bundle.objects
            <4>1. lines[k] = k
                BY <2>5, <3>3 DEF Verifies
            <4>2. lines[k] \in {Half} \cup bundle.objects
                BY <3>2, <3>3, ElementOfSeq
            <4>3. k # Half
                BY <3>3 DEF Half
            <4> QED BY <4>1, <4>2, <4>3
        <3> HIDE DEF made
        <3>5. /\ bundle'.ledger = bundle.ledger /\ bundle'.objects = bundle.objects
              /\ bundle'.spoilt = bundle.spoilt /\ bundle'.manifest = made
            BY <3>1 DEF CopyOK
        <3>6. CopyOK'
            BY <2>1, <2>2, <3>1, <3>4, <3>5 DEF CopyOK
        <3> QED BY <2>2, <2>3, <3>6
    <2> QED BY <2>4, <2>5
<1>7. CASE restore
    <2>1. task = "none" /\ UNCHANGED <<city, objects, bundle, stops, vouched>>
        BY <1>7 DEF restore
    <2>2. WholeLines' = W /\ CityOK'
        BY <2>1, CityStands
    <2>3. CASE bundle.manifest = Nothing \/ Occupied(root.ledger)
        <3>1. answer' = "refused" /\ UNCHANGED <<root, task, todo>>
            BY <1>7, <2>3 DEF restore
        <3> QED BY <2>1, <2>2, <3>1 DEF CopyOK, CommandOK
    <2>4. CASE ~ (bundle.manifest = Nothing \/ Occupied(root.ledger))
        <3>1. /\ task' = "restore ledger" /\ todo' = DOMAIN bundle.ledger /\ answer' = "none"
              /\ root' = [root EXCEPT !.spoilt = bundle.spoilt]
            BY <1>7, <2>4, CommandSteps, Walked DEF restore, Undertake
        <3>2. /\ root'.ledger = root.ledger /\ root'.spoilt = bundle.spoilt
              /\ root'.objects = root.objects
            BY <3>1 DEF CopyOK
        <3>3. root.ledger \in Dirs(0..W)
            <4>1. DOMAIN root.ledger = {}
                BY <2>4 DEF Occupied
            <4>2. DOMAIN Foreign # {}
                BY BundlesAssumption DEF Foreign
            <4> QED BY <1>0, <4>1, <4>2
        <3>4. CopyOK'
            BY <1>0, <2>1, <2>2, <3>1 DEF CopyOK
        <3>5. CommandOK'
            BY <2>1, <2>2, <3>1, <3>2, <3>3 DEF CommandOK
        <3> QED BY <2>2, <3>4, <3>5
    <2> QED BY <2>3, <2>4
<1>8. CASE restore_ledger
    <2>1. PICK i \in todo : /\ todo' = todo \ {i}
                            /\ root' = [root EXCEPT !.ledger = WriteFile(@, i, bundle.ledger[i])]
        BY <1>8 DEF restore_ledger
    <2>2. task = "restore ledger" /\ UNCHANGED <<city, objects, bundle, task, answer, stops, vouched>>
        BY <1>8 DEF restore_ledger
    <2>3. WholeLines' = W /\ CityOK'
        BY <2>2, CityStands
    <2>4. /\ answer = "none" /\ root.ledger \in Dirs(0..W) /\ root.spoilt = bundle.spoilt
          /\ todo \subseteq DOMAIN bundle.ledger
        BY <2>2 DEF CommandOK
    <2>5. WriteFile(root.ledger, i, bundle.ledger[i]) \in Dirs(0..W)
        <3>1. i \in 1..MaxSegments /\ bundle.ledger[i] \in Seq(0..W)
            BY <1>0, <2>4, FilesOf
        <3> QED BY <2>4, <3>1, WriteFileType
    <2>6. /\ root'.ledger = WriteFile(root.ledger, i, bundle.ledger[i])
          /\ root'.spoilt = root.spoilt /\ root'.objects = root.objects
        BY <2>1 DEF CopyOK
    <2>7. CopyOK'
        BY <2>1, <2>2, <2>3, <2>5 DEF CopyOK
    <2>8. CommandOK'
        BY <2>1, <2>2, <2>3, <2>4, <2>5, <2>6 DEF CommandOK
    <2> QED BY <2>3, <2>7, <2>8
<1>9. CASE restore_objects
    <2>1. PICK o \in todo : todo' = todo \ {o} /\ root' = [root EXCEPT !.objects = @ \cup {o}]
        BY <1>9 DEF restore_objects
    <2>2. task = "restore objects" /\ UNCHANGED <<city, objects, bundle, task, answer, stops, vouched>>
        BY <1>9 DEF restore_objects
    <2>3. WholeLines' = W /\ CityOK'
        BY <2>2, CityStands
    <2>4. /\ answer = "none" /\ root.ledger \in Dirs(0..W) /\ root.spoilt = bundle.spoilt
          /\ todo \subseteq objects /\ bundle.objects \subseteq root.objects \cup todo
        BY <2>2 DEF CommandOK
    <2>5. /\ root'.ledger = root.ledger /\ root'.spoilt = root.spoilt
          /\ root'.objects = root.objects \cup {o}
        BY <2>1 DEF CopyOK
    <2>6. CopyOK'
        BY <2>1, <2>2, <2>3, <2>4 DEF CopyOK
    <2>7. bundle'.objects \subseteq root'.objects \cup todo' /\ todo' \subseteq objects'
        BY <2>1, <2>2, <2>4, <2>5
    <2>8. CommandOK'
        BY <2>2, <2>3, <2>4, <2>5, <2>7 DEF CommandOK
    <2> QED BY <2>3, <2>6, <2>8
<1>10. CASE restore_walk
    <2> DEFINE lines == read_lines(root.ledger)
    <2>1. /\ task = "restore walk" /\ task' = "none"
          /\ answer' = IF Verifies(lines) /\ Agrees(ManifestOf(lines), bundle.manifest)
                       THEN "restored" ELSE "refused"
          /\ UNCHANGED <<city, objects, bundle, root, todo, stops, vouched>>
        BY <1>10 DEF restore_walk
    <2>2. WholeLines' = W /\ CityOK'
        BY <2>1, CityStands
    <2>3. CopyOK'
        BY <2>1, <2>2 DEF CopyOK
    <2>4. ASSUME answer' = "restored" PROVE Restored
        <3>1. Verifies(lines) /\ ManifestOf(lines) = bundle.manifest
            BY <2>1, <2>4 DEF Agrees
        <3>2. /\ root.ledger \in Dirs(0..W) /\ root.spoilt = bundle.spoilt
              /\ bundle.objects \subseteq root.objects
            BY <2>1 DEF CommandOK
        <3>3. lines \in Seq(0..W)
            BY <3>2, ReadLinesType
        <3> HIDE DEF lines
        <3>4. Len(lines) \in Nat /\ ManifestOf(lines).lines = Len(lines)
            BY <3>3, LenProperties DEF ManifestOf
        <3>5. ManifestOf(lines) \in vouched
            <4>1. ManifestOf(lines).lines # Nothing.lines
                BY <3>4 DEF Nothing
            <4> QED BY <1>0, <3>1, <4>1
        <3>6. Named(lines) \subseteq root.objects \cup root.spoilt
            <4>1. 1..bundle.manifest.lines \subseteq bundle.objects \cup bundle.spoilt
                BY DEF CopyOK
            <4>2. \A k \in 1..Len(lines) : lines[k] = k
                BY <3>1 DEF Verifies
            <4>3. bundle.manifest.lines = Len(lines)
                BY <3>1, <3>4
            <4> QED BY <3>2, <4>1, <4>2, <4>3 DEF Named
        <3> QED BY <3>1, <3>2, <3>5, <3>6 DEF Restored, lines
    <2>5. answer' = "restored" => Restored'
        BY <2>1, <2>4, StaysRestored
    <2> QED BY <2>1, <2>2, <2>3, <2>5 DEF CommandOK
<1>11. CASE Stop
    <2>1. task' = "none" /\ UNCHANGED <<city, objects, answer, vouched>>
        BY <1>11 DEF Stop
    <2>2. WholeLines' = W /\ CityOK'
        BY <2>1, CityStands
    <2>3. ASSUME UNCHANGED root PROVE CommandOK'
        <3>1. answer' = "restored" => Restored'
            BY <2>1, <2>3, StaysRestored DEF CommandOK
        <3> QED BY <2>1, <3>1 DEF CommandOK
    <2>4. ASSUME answer = "none" PROVE CommandOK'
        BY <2>1, <2>4 DEF CommandOK
    <2>5. CASE UNCHANGED <<bundle, root>>
        <3>1. CopyOK'
            BY <2>1, <2>2, <2>5 DEF CopyOK
        <3> QED BY <2>2, <2>3, <2>5, <3>1
    <2>6. CASE task = "export ledger" /\ UNCHANGED root /\ \E i \in todo :
                  NextFile(i) /\ \E l \in HalfReplaced(bundle.ledger, i, city[i]) :
                        bundle' = [bundle EXCEPT !.ledger = l]
        <3>1. PICK i \in todo : \E l \in HalfReplaced(bundle.ledger, i, city[i]) :
                        bundle' = [bundle EXCEPT !.ledger = l]
            BY <2>6
        <3>2. PICK l \in HalfReplaced(bundle.ledger, i, city[i]) : bundle' = [bundle EXCEPT !.ledger = l]
            BY <3>1
        <3>3. i \in DOMAIN city
            BY <2>6 DEF CommandOK
        <3>4. i \in 1..MaxSegments /\ city[i] \in Seq(0..W)
            BY <1>a, <3>3, SegmentsAreFiles
        <3>5. l \in Dirs(0..W)
            BY <1>0, <1>b, <3>4, HalfReplacedType
        <3>6. CopyOK'
            BY <2>1, <2>2, <2>6, <3>2, <3>5 DEF CopyOK
        <3> QED BY <2>2, <2>3, <2>6, <3>6
    <2>7. CASE task = "export objects" /\ (\E o \in todo : bundle' = Bereft(o)) /\ UNCHANGED root
        <3>1. PICK o \in todo : bundle' = [bundle EXCEPT !.objects = @ \ {o}, !.spoilt = @ \cup {o}]
            BY <2>7 DEF Bereft
        <3>2. todo \subseteq objects
            BY <2>7 DEF CommandOK
        <3>3. CopyOK'
            BY <2>1, <2>2, <2>7, <3>1, <3>2 DEF CopyOK
        <3> QED BY <2>2, <2>3, <2>7, <3>3
    <2>8. CASE /\ task = "export manifest"
               /\ bundle' = [bundle EXCEPT !.manifest = Nothing] /\ UNCHANGED root
        <3>1. /\ bundle'.ledger = bundle.ledger /\ bundle'.objects = bundle.objects
              /\ bundle'.spoilt = bundle.spoilt /\ bundle'.manifest = Nothing
              /\ bundle' \in [ledger : Dirs(0..W), objects : SUBSET objects, spoilt : SUBSET objects,
                              manifest : {Nothing} \cup vouched]
            BY <2>8 DEF CopyOK
        <3>2. 1..Nothing.lines = {}
            BY DEF Nothing
        <3>3. CopyOK'
            BY <2>1, <2>2, <2>8, <3>1, <3>2 DEF CopyOK
        <3> QED BY <2>2, <2>3, <2>8, <3>3
    <2>9. CASE task = "restore ledger" /\ UNCHANGED bundle /\ \E i \in todo :
                  NextFile(i) /\ \E l \in HalfReplaced(root.ledger, i, bundle.ledger[i]) :
                        root' = [root EXCEPT !.ledger = l]
        <3>1. PICK i \in todo : \E l \in HalfReplaced(root.ledger, i, bundle.ledger[i]) :
                        root' = [root EXCEPT !.ledger = l]
            BY <2>9
        <3>2. PICK l \in HalfReplaced(root.ledger, i, bundle.ledger[i]) : root' = [root EXCEPT !.ledger = l]
            BY <3>1
        <3>3. /\ answer = "none" /\ root.ledger \in Dirs(0..W) /\ todo \subseteq DOMAIN bundle.ledger
            BY <2>9 DEF CommandOK
        <3>4. i \in 1..MaxSegments /\ bundle.ledger[i] \in Seq(0..W)
            BY <1>0, <3>3, FilesOf
        <3>5. l \in Dirs(0..W)
            BY <1>b, <3>3, <3>4, HalfReplacedType
        <3>6. CopyOK'
            BY <2>1, <2>2, <2>9, <3>2, <3>5 DEF CopyOK
        <3> QED BY <2>2, <2>4, <3>3, <3>6
    <2>10. CASE task = "restore objects" /\ UNCHANGED bundle
                  /\ \E o \in todo : root' = [root EXCEPT !.objects = @ \ {o}]
        <3>1. PICK o \in todo : root' = [root EXCEPT !.objects = @ \ {o}]
            BY <2>10
        <3>2. answer = "none"
            BY <2>10 DEF CommandOK
        <3>3. CopyOK'
            BY <2>1, <2>2, <2>10, <3>1 DEF CopyOK
        <3> QED BY <2>2, <2>4, <3>2, <3>3
    <2> QED BY <1>11, <2>5, <2>6, <2>7, <2>8, <2>9, <2>10 DEF Stop
<1>12. CASE CarriedShort
    <2>1. task = "none" /\ UNCHANGED <<city, objects, root, task, todo, answer, vouched>>
        BY <1>12 DEF CarriedShort
    <2>2. WholeLines' = W /\ CityOK'
        BY <2>1, CityStands
    <2>3. CommandOK'
        <3>1. answer' = "restored" => Restored'
            BY <2>1, StaysRestored DEF CommandOK
        <3> QED BY <2>1, <3>1 DEF CommandOK
    <2>4. ASSUME NEW l \in Dirs(0..W), bundle' = [bundle EXCEPT !.ledger = l] PROVE CopyOK'
        BY <2>1, <2>2, <2>4 DEF CopyOK
    <2>5. CASE \E i \in DOMAIN bundle.ledger :
                    \/ bundle' = [bundle EXCEPT !.ledger = RemoveFile(@, i)]
                    \/ /\ bundle.ledger[i] # <<>>
                       /\ bundle' = [bundle EXCEPT !.ledger = WriteFile(@, i, Front(@[i]))]
        <3>1. PICK i \in DOMAIN bundle.ledger :
                    \/ bundle' = [bundle EXCEPT !.ledger = RemoveFile(bundle.ledger, i)]
                    \/ /\ bundle.ledger[i] # <<>>
                       /\ bundle' = [bundle EXCEPT !.ledger = WriteFile(bundle.ledger, i, Front(bundle.ledger[i]))]
            BY <2>5
        <3>2. i \in 1..MaxSegments /\ bundle.ledger[i] \in Seq(0..W)
            BY <1>0, <3>1, FilesOf
        <3>3. Front(bundle.ledger[i]) \in Seq(0..W)
            <4> DEFINE S == 0..W
                       s == bundle.ledger[i]
            <4>1. s \in Seq(S)
                BY <3>2
            <4> HIDE DEF S, s
            <4>2. Len(s) \in Nat /\ Len(s) - 1 \in Int /\ Len(s) - 1 <= Len(s)
                BY <4>1, LenProperties
            <4>3. SubSeq(s, 1, Len(s) - 1) \in Seq(S)
                BY <4>1, <4>2, PartOf
            <4> QED BY <4>3 DEF Front, S, s
        <3>4. /\ RemoveFile(bundle.ledger, i) \in Dirs(0..W)
              /\ WriteFile(bundle.ledger, i, Front(bundle.ledger[i])) \in Dirs(0..W)
            BY <1>0, <3>2, <3>3, RemoveFileType, WriteFileType
        <3> QED BY <2>2, <2>3, <2>4, <3>1, <3>4
    <2>6. CASE \E o \in bundle.objects : bundle' = Bereft(o)
        <3>1. PICK o \in bundle.objects :
                    bundle' = [bundle EXCEPT !.objects = @ \ {o}, !.spoilt = @ \cup {o}]
            BY <2>6 DEF Bereft
        <3>2. CopyOK'
            BY <1>0, <2>1, <2>2, <3>1 DEF CopyOK
        <3> QED BY <2>2, <2>3, <3>2
    <2> QED BY <1>12, <2>5, <2>6 DEF CarriedShort
<1> QED BY <1>1, <1>2, <1>3, <1>4, <1>5, <1>6, <1>7, <1>8, <1>9, <1>10, <1>11, <1>12 DEF BundlesNext

LEMMA BundlesBegin ==
  ASSUME city = << <<>> >>, objects = {},
         bundle = [ledger |-> NoFiles, objects |-> {}, spoilt |-> {}, manifest |-> Nothing],
         root \in {[ledger |-> l, objects |-> {}, spoilt |-> {}] : l \in {NoFiles, Foreign}},
         task = "none", answer = "none"
  PROVE  BundlesInv
<1>1. <<>> \in Seq({}) /\ <<>> \in Seq(Seq({}))
    BY EmptySeq
<1>2. city = Append(<<>>, <<>>) /\ Len(city) = 1 /\ city[1] = <<>>
    OBVIOUS
<1>3. Lines(city) = <<>>
    <2>1. Lines(city) = Lines(<<>>) \o <<>>
        BY <1>1, <1>2, LinesAppend
    <2> QED BY <1>1, <2>1, NoLines, ConcatEmptySeq
<1>4. WholeLines = 0
    BY <1>2, <1>3, EmptySeq DEF WholeLines, Idle, Open
<1>5. <<>> \in Copies /\ NoFiles \in Dirs(0..WholeLines)
    BY EmptySeq, NoFilesType DEF Copies
<1>6. city \in Copies
    <2>1. <<>> \in Seq(0..WholeLines)
        BY EmptySeq
    <2> QED BY <1>2, <1>5, <2>1, AppendProperties DEF Copies
<1>7. CityOK
    <2>1. city # <<>> /\ Len(city) <= MaxSegments
        BY <1>2, EmptySeq, BundlesAssumption
    <2>2. 1..Len(Lines(city)) \subseteq objects
        BY <1>3, EmptySeq
    <2> QED BY <1>4, <1>6, <2>1, <2>2 DEF CityOK
<1>8. CopyOK
    BY <1>5 DEF CopyOK, Nothing
<1>9. CommandOK
    BY DEF CommandOK
<1> QED BY <1>7, <1>8, <1>9 DEF BundlesInv

LEMMA BundlesGive == BundlesInv => BundleIsTheCity
<1> SUFFICES ASSUME CityOK, CopyOK, CommandOK PROVE BundleIsTheCity
    BY DEF BundlesInv
<1>1. NamedTravels
    <2> DEFINE lines == read_lines(bundle.ledger)
    <2> SUFFICES ASSUME bundle.manifest = ManifestOf(lines), Verifies(lines)
                 PROVE  Named(lines) \subseteq bundle.objects \cup bundle.spoilt
        BY DEF NamedTravels
    <2> HIDE DEF lines
    <2>1. bundle.manifest.lines = Len(lines)
        BY DEF ManifestOf
    <2>2. \A i \in 1..Len(lines) : lines[i] = i
        BY DEF Verifies
    <2>3. 1..bundle.manifest.lines \subseteq bundle.objects \cup bundle.spoilt
        BY DEF CopyOK
    <2> QED BY <2>1, <2>2, <2>3 DEF Named
<1>2. RestoredIsVouchedFor
    <2> DEFINE L == read_lines(root.ledger)
               C == Lines(city)
               n == Len(L)
    <2> SUFFICES ASSUME answer = "restored"
                 PROVE  /\ IsPrefix(L, C) /\ ManifestOf(L) \in vouched
                        /\ Named(L) \subseteq root.objects \cup root.spoilt
        BY DEF RestoredIsVouchedFor
    <2>1. /\ root.ledger \in Dirs(0..WholeLines) /\ Verifies(L) /\ ManifestOf(L) \in vouched
          /\ Named(L) \subseteq root.objects \cup root.spoilt
        BY DEF CommandOK, Restored
    <2>2. L \in Seq(0..WholeLines) /\ C \in Seq(0..WholeLines) /\ WholeLines \in Int
        BY <2>1, ReadLinesType, OpenIsLast
    <2>3. n \in Nat /\ Len(C) \in Nat
        BY <2>2, LenProperties
    <2>4. \A i \in 1..n : L[i] = i
        BY <2>1 DEF Verifies
    <2>5. n <= Len(C) /\ \A i \in 1..n : i \in 1..WholeLines
        <3>1. WholeLines <= Len(C)
            BY <2>3 DEF WholeLines
        <3>2. \A i \in 1..n : L[i] \in 0..WholeLines
            BY <2>2, ElementOfSeq
        <3>3. n # 0 => n \in 1..n /\ n \in 0..WholeLines
            BY <2>3, <2>4, <3>2
        <3> HIDE DEF C, L, n
        <3> QED BY <2>2, <2>3, <3>1, <3>3
    <2>6. \A i \in 1..n : C[i] = i
        BY <2>5 DEF CityOK
    <2>7. SubSeq(L, 1, n) = SubSeq(C, 1, n)
        <3> DEFINE S == 0..WholeLines
                   a == SubSeq(L, 1, n)
                   b == SubSeq(C, 1, n)
        <3>1. \A i \in 1..n : L[i] \in S
            BY <2>2, ElementOfSeq
        <3>2. \A i \in 1..n : C[i] \in S
            BY <2>4, <2>6, <3>1
        <3> HIDE DEF S, L, C, n
        <3>3. a \in Seq(S) /\ Len(a) = (IF 1 <= n THEN n - 1 + 1 ELSE 0) /\ \A i \in 1..(n - 1 + 1) : a[i] = L[1 + i - 1]
            BY <2>3, <3>1, SubSeqProperties
        <3>4. b \in Seq(S) /\ Len(b) = (IF 1 <= n THEN n - 1 + 1 ELSE 0) /\ \A i \in 1..(n - 1 + 1) : b[i] = C[1 + i - 1]
            BY <2>3, <3>2, SubSeqProperties
        <3>5. Len(a) = n /\ Len(b) = n /\ \A i \in 1..n : a[i] = b[i]
            <4>1. \A i \in 1..n : i \in 1..(n - 1 + 1) /\ 1 + i - 1 = i
                BY <2>3
            <4> HIDE DEF a, b
            <4> QED BY <2>3, <2>4, <2>6, <3>3, <3>4, <4>1
        <3> HIDE DEF a, b
        <3>6. a = b
            BY <3>3, <3>4, <3>5, SeqEqual
        <3> QED BY <3>6 DEF a, b
    <2> QED BY <2>1, <2>5, <2>7 DEF IsPrefix
<1>3. OneHistory
    <2> DEFINE L == read_lines(root.ledger)
    <2> SUFFICES ASSUME root.ledger # Foreign PROVE -1 \notin Named(L)
        BY DEF OneHistory
    <2>1. root.ledger \in Dirs(0..WholeLines)
        BY CopyFields
    <2>2. L \in Seq(0..WholeLines)
        BY <2>1, ReadLinesType
    <2> HIDE DEF L
    <2>3. \A i \in 1..Len(L) : L[i] \in 0..WholeLines
        BY <2>2, ElementOfSeq
    <2> QED BY <2>3 DEF Named
<1> QED BY <1>1, <1>2, <1>3 DEF BundleIsTheCity

\* A bundle is the city it was made of, and makes no other: for any number
\* of lines and segments, and any number of commands stopped half way and of
\* copies carried short.
THEOREM BundleIsAlwaysTheCity == Spec => []BundleIsTheCity
<1>1. Init => BundlesInv
    BY BundlesBegin DEF Init, BundlesInit, BundlesAtRest
<1>2. BundlesInv /\ [Next]_vars => BundlesInv'
    <2> SUFFICES ASSUME BundlesInv, [Next]_vars PROVE BundlesInv'
        OBVIOUS
    <2>1. CASE BundlesNext
        BY <2>1, BundlesStep
    <2>2. CASE UNCHANGED bundleVars
        <3>1. UNCHANGED <<city, objects, bundle, root, task, todo, answer, vouched>>
            BY <2>2 DEF bundleVars
        <3>2. WholeLines' = WholeLines /\ CityOK'
            BY <3>1, CityStands DEF BundlesInv
        <3>3. answer' = "restored" => Restored'
            BY <3>1, StaysRestored DEF BundlesInv, CommandOK
        <3> QED BY <3>1, <3>2, <3>3 DEF BundlesInv, CopyOK, CommandOK
    <2> QED BY <2>1, <2>2 DEF Next, vars, Mcp, Store, Carrying, Ruling, Streaming, Billing,
                              Ordering, Looking
<1> QED BY <1>1, <1>2, BundlesGive, PTL DEF Spec
-----------------------------------------------------------------------------
(* Streams. What is settled is said of the blocks that came, in their placed. *)

Kinds == {"text", "tool", "thinking", "none", "end", "limit"}

\* What a provider means to say, what it has said of it, and what was read.
SaidOK ==
    /\ dialect \in {"anthropic", "openai"} /\ saying \in Answers(dialect)
    /\ started \subseteq 1..Len(saying)
    /\ sentOf \in [1..Len(saying) -> Nat]
    /\ \A i \in 1..Len(saying) : /\ sentOf[i] <= Len(saying[i].pieces)
                                 /\ sentOf[i] > 0 => i \in started
    /\ why \in {"none", "end", "limit"} /\ (why = "end" => AllSent)
    /\ frames \in Seq([type : {"start", "delta", "stop"}, at : Nat, kind : Kinds, piece : Nat])
    /\ garbled \in Nat

\* Where every frame could be read, what is held is what was sent, so that
\* what is settled can be said of the provider's side.
HeldOK ==
    garbled = 0 =>
        /\ Collected(frames) \in [seen : SUBSET Nat, pieces : [1..MaxBlocks -> Seq(Nat)], stop : Kinds]
        /\ Collected(frames).seen = started /\ Collected(frames).stop = why
        /\ \A i \in 1..Len(saying) : Collected(frames).pieces[i] = Counted(sentOf[i])

\* Nothing is shown that was not sent: without this a piece could be shown
\* again, behind a newer one.
ShownOK ==
    /\ shown \in Seq([at : 1..Len(saying), piece : Nat])
    /\ \A k \in 1..Len(shown) : shown[k].piece <= sentOf[shown[k].at]

StreamInv == SaidOK /\ HeldOK /\ ShownOK /\ RepliesAreWhole

\* What is held grows by one frame at a time.
Collects(f, read, n) == f = [k \in 0..n |-> IF k = 0 THEN Nothing_ ELSE Keep(f[k - 1], read[k])]

LEMMA CollectsExists ==
  ASSUME NEW read
  PROVE  \A n \in Nat : \E f : Collects(f, read, n)
<1> DEFINE T == {n \in Nat : ~ \E f : Collects(f, read, n)}
<1>1. T = {}
    <2> SUFFICES ASSUME T # {} PROVE FALSE
        OBVIOUS
    <2>1. PICK n \in T : \A m \in T : n <= m
        BY SmallestExists
    <2>2. CASE n = 0
        <3> DEFINE g == [k \in 0..0 |-> Nothing_]
        <3>1. \A k \in 0..0 : g[k] = IF k = 0 THEN Nothing_ ELSE Keep(g[k - 1], read[k])
            OBVIOUS
        <3>2. g = [k \in 0..0 |-> g[k]]
            OBVIOUS
        <3>3. Collects(g, read, 0)
            <4> HIDE DEF g
            <4> QED BY <3>1, <3>2 DEF Collects
        <3> QED BY <2>1, <2>2, <3>3
    <2>3. CASE n # 0
        <3>1. n - 1 \in Nat /\ n - 1 \notin T
            <4>1. n \in Nat
                BY <2>1
            <4> HIDE DEF T
            <4> QED BY <2>1, <2>3, <4>1
        <3>2. PICK f : Collects(f, read, n - 1)
            BY <3>1
        <3> DEFINE g == [k \in 0..n |-> IF k = n THEN Keep(f[k - 1], read[k]) ELSE f[k]]
        <3>3. \A k \in 0..n : g[k] = IF k = 0 THEN Nothing_ ELSE Keep(g[k - 1], read[k])
            <4> SUFFICES ASSUME NEW k \in 0..n
                         PROVE  g[k] = IF k = 0 THEN Nothing_ ELSE Keep(g[k - 1], read[k])
                OBVIOUS
            <4>1. k # 0 => k - 1 \in 0..n /\ k - 1 # n
                BY <2>1
            <4>2. k # 0 => g[k - 1] = f[k - 1]
                BY <4>1
            <4>3. k # n => k \in 0..(n - 1)
                BY <2>1
            <4>4. k # n => f[k] = IF k = 0 THEN Nothing_ ELSE Keep(f[k - 1], read[k])
                BY <3>2, <4>3 DEF Collects
            <4> QED BY <2>3, <4>2, <4>4
        <3>4. Collects(g, read, n)
            <4>1. g = [k \in 0..n |-> g[k]]
                OBVIOUS
            <4> HIDE DEF g
            <4> QED BY <3>3, <4>1 DEF Collects
        <3> QED BY <2>1, <3>4
    <2> QED BY <2>2, <2>3
<1> QED BY <1>1

LEMMA CollectedIs ==
  ASSUME NEW S, NEW read \in Seq(S)
  PROVE  \E f : /\ \A k \in 0..Len(read) : f[k] = IF k = 0 THEN Nothing_ ELSE Keep(f[k - 1], read[k])
                /\ Collected(read) = f[Len(read)]
<1> DEFINE f == CHOOSE f : f = [k \in 0..Len(read) |-> IF k = 0 THEN Nothing_ ELSE Keep(f[k - 1], read[k])]
<1>1. \E h : h = [k \in 0..Len(read) |-> IF k = 0 THEN Nothing_ ELSE Keep(h[k - 1], read[k])]
    <2>1. Len(read) \in Nat
        OBVIOUS
    <2> QED BY <2>1, CollectsExists DEF Collects
<1>2. f = [k \in 0..Len(read) |-> IF k = 0 THEN Nothing_ ELSE Keep(f[k - 1], read[k])]
    BY <1>1
<1>3. Collected(read) = f[Len(read)]
    BY DEF Collected
<1> HIDE DEF f
<1>4. \A k \in 0..Len(read) : f[k] = IF k = 0 THEN Nothing_ ELSE Keep(f[k - 1], read[k])
    BY <1>2
<1> QED BY <1>3, <1>4

LEMMA NoneCollected == Collected(<<>>) = Nothing_
<1>1. <<>> \in Seq({}) /\ Len(<<>>) = 0
    BY EmptySeq
<1>2. PICK f : /\ \A k \in 0..Len(<<>>) : f[k] = IF k = 0 THEN Nothing_ ELSE Keep(f[k - 1], <<>>[k])
               /\ Collected(<<>>) = f[Len(<<>>)]
    BY <1>1, CollectedIs
<1> QED BY <1>1, <1>2

LEMMA CollectedAppend ==
  ASSUME NEW S, NEW read \in Seq(S), NEW frame \in S
  PROVE  Collected(Append(read, frame)) = Keep(Collected(read), frame)
<1> DEFINE more == Append(read, frame)
           m == Len(read)
<1>1. /\ more \in Seq(S) /\ Len(more) = m + 1 /\ m \in Nat
      /\ more[m + 1] = frame
      /\ \A i \in 1..m : more[i] = read[i]
    BY AppendProperties
<1>2. PICK f : /\ \A k \in 0..m : f[k] = IF k = 0 THEN Nothing_ ELSE Keep(f[k - 1], read[k])
               /\ Collected(read) = f[m]
    BY CollectedIs
<1> HIDE DEF more
<1>3. PICK g : /\ \A k \in 0..Len(more) : g[k] = IF k = 0 THEN Nothing_ ELSE Keep(g[k - 1], more[k])
               /\ Collected(more) = g[Len(more)]
    BY <1>1, CollectedIs
<1>4. \A i \in 0..m : g[i] = f[i]
    <2> DEFINE T == {i \in 0..m : f[i] # g[i]}
    <2> SUFFICES ASSUME T # {} PROVE FALSE
        OBVIOUS
    <2>1. T \in SUBSET Nat
        BY <1>1
    <2>2. PICK i \in T : \A j \in T : i <= j
        BY <2>1, SmallestExists
    <2>3. i \in 0..m /\ i \in 0..Len(more) /\ (i # 0 => more[i] = read[i])
        BY <1>1
    <2>4. i # 0 => i - 1 \in 0..m /\ i - 1 \notin T
        <3>1. i \in Nat
            BY <2>3
        <3>2. i - 1 \notin T
            <4> HIDE DEF T
            <4> QED BY <2>2, <3>1
        <3> QED BY <2>3, <3>2
    <2>5. f[i] = IF i = 0 THEN Nothing_ ELSE Keep(f[i - 1], read[i])
        BY <1>2, <2>3
    <2>6. g[i] = IF i = 0 THEN Nothing_ ELSE Keep(g[i - 1], more[i])
        BY <1>3, <2>3
    <2> QED BY <2>2, <2>3, <2>4, <2>5, <2>6
<1>5. g[m + 1] = Keep(g[m], frame)
    <2>1. m + 1 \in 0..Len(more) /\ m + 1 # 0 /\ m + 1 - 1 = m
        BY <1>1
    <2>2. g[m + 1] = Keep(g[m + 1 - 1], more[m + 1])
        BY <1>3, <2>1
    <2> QED BY <1>1, <2>1, <2>2
<1>6. m \in 0..m
    BY <1>1
<1> QED BY <1>1, <1>2, <1>3, <1>4, <1>5, <1>6 DEF more

\* The blocks of some places, one behind the other, and none left out.
InOrder(out, places, n) ==
    /\ out \in Seq(Nat)
    /\ \A i \in 1..Len(out) : out[i] \in 1..n /\ out[i] \in places
    /\ \A i, j \in 1..Len(out) : i < j => out[i] < out[j]
    /\ \A a \in 1..n : a \in places => \E i \in 1..Len(out) : out[i] = a

LEMMA OrderGrows ==
  ASSUME NEW out, NEW places, NEW m \in Nat, InOrder(out, places, m)
  PROVE  InOrder(IF m + 1 \in places THEN Append(out, m + 1) ELSE out, places, m + 1)
<1>1. out \in Seq(Nat) /\ Len(out) \in Nat
    BY LenProperties DEF InOrder
<1>2. CASE m + 1 \notin places
    BY <1>2, \A a \in 1..(m + 1) : a \in 1..m \/ a = m + 1, \A a \in 1..m : a \in 1..(m + 1) DEF InOrder
<1>3. CASE m + 1 \in places
    <2> DEFINE next == Append(out, m + 1)
    <2>1. /\ next \in Seq(Nat) /\ Len(next) = Len(out) + 1
          /\ \A i \in 1..Len(out) : next[i] = out[i]
          /\ next[Len(out) + 1] = m + 1
        BY <1>1, AppendProperties
    <2> HIDE DEF next
    <2>2. \A i \in 1..Len(next) : i = Len(out) + 1 \/ i \in 1..Len(out)
        BY <1>1, <2>1
    <2>3. \A i \in 1..Len(out) : i \in 1..Len(next) /\ out[i] \in 1..m /\ out[i] \in places
        BY <1>1, <2>1 DEF InOrder
    <2>4. \A a \in 1..(m + 1) : a \in 1..m \/ a = m + 1
        OBVIOUS
    <2>5. \A i \in 1..Len(next) : next[i] \in 1..(m + 1) /\ next[i] \in places
        <3> TAKE i \in 1..Len(next)
        <3>1. CASE i = Len(out) + 1
            BY <1>3, <2>1, <3>1
        <3>2. CASE i \in 1..Len(out)
            <4>1. next[i] = out[i] /\ out[i] \in 1..m /\ out[i] \in places
                BY <2>1, <2>3, <3>2
            <4>2. \A a \in 1..m : a \in 1..(m + 1)
                OBVIOUS
            <4> QED BY <4>1, <4>2
        <3> QED BY <2>2, <3>1, <3>2
    <2>6. ASSUME NEW i \in 1..Len(next), NEW j \in 1..Len(next), i < j PROVE next[i] < next[j]
        <3>1. i \in 1..Len(out)
            BY <1>1, <2>1, <2>6
        <3>2. CASE j = Len(out) + 1
            BY <2>1, <2>3, <3>1, <3>2
        <3>3. CASE j \in 1..Len(out)
            BY <2>1, <2>6, <3>1, <3>3 DEF InOrder
        <3> QED BY <2>2, <3>2, <3>3
    <2>7. ASSUME NEW a \in 1..(m + 1), a \in places PROVE \E i \in 1..Len(next) : next[i] = a
        <3>1. CASE a = m + 1
            <4>1. Len(out) + 1 \in 1..Len(next)
                BY <1>1, <2>1
            <4> QED BY <2>1, <3>1, <4>1
        <3>2. CASE a \in 1..m
            <4>1. PICK i \in 1..Len(out) : out[i] = a
                BY <2>7, <3>2 DEF InOrder
            <4> QED BY <2>1, <2>3, <4>1
        <3> QED BY <2>4, <3>1, <3>2
    <2>8. InOrder(next, places, m + 1)
        BY <2>1, <2>5, <2>6, <2>7 DEF InOrder
    <2> QED BY <1>3, <2>8 DEF next
<1> QED BY <1>2, <1>3

Indexes(f, places, n) ==
    f = [k \in 0..n |-> IF k = 0 THEN <<>> ELSE IF k \in places THEN Append(f[k - 1], k) ELSE f[k - 1]]

LEMMA IndexesExists ==
  ASSUME NEW places
  PROVE  \A n \in Nat : \E f : Indexes(f, places, n)
<1> DEFINE T == {n \in Nat : ~ \E f : Indexes(f, places, n)}
           More(s, k) == IF k \in places THEN Append(s, k) ELSE s
<1>1. T = {}
    <2> SUFFICES ASSUME T # {} PROVE FALSE
        OBVIOUS
    <2>1. PICK n \in T : \A m \in T : n <= m
        BY SmallestExists
    <2>2. CASE n = 0
        <3> DEFINE g == [k \in 0..0 |-> <<>>]
        <3>1. \A k \in 0..0 : g[k] = IF k = 0 THEN <<>> ELSE More(g[k - 1], k)
            OBVIOUS
        <3>2. g = [k \in 0..0 |-> g[k]]
            OBVIOUS
        <3>3. Indexes(g, places, 0)
            <4> HIDE DEF g
            <4> QED BY <3>1, <3>2 DEF Indexes
        <3> QED BY <2>1, <2>2, <3>3
    <2>3. CASE n # 0
        <3>1. n - 1 \in Nat /\ n - 1 \notin T
            <4>1. n \in Nat
                BY <2>1
            <4> HIDE DEF T
            <4> QED BY <2>1, <2>3, <4>1
        <3>2. PICK f : Indexes(f, places, n - 1)
            BY <3>1
        <3> DEFINE g == [k \in 0..n |-> IF k = n THEN More(f[k - 1], k) ELSE f[k]]
        <3>3. \A k \in 0..n : g[k] = IF k = 0 THEN <<>> ELSE More(g[k - 1], k)
            <4> SUFFICES ASSUME NEW k \in 0..n
                         PROVE  g[k] = IF k = 0 THEN <<>> ELSE More(g[k - 1], k)
                OBVIOUS
            <4>1. k # 0 => k - 1 \in 0..n /\ k - 1 # n
                BY <2>1
            <4>2. k # 0 => g[k - 1] = f[k - 1]
                BY <4>1
            <4>3. k # n => k \in 0..(n - 1)
                BY <2>1
            <4>4. k # n => f[k] = IF k = 0 THEN <<>> ELSE More(f[k - 1], k)
                BY <3>2, <4>3 DEF Indexes
            <4> HIDE DEF More
            <4> QED BY <2>3, <4>2, <4>4
        <3>4. Indexes(g, places, n)
            <4>1. g = [k \in 0..n |-> g[k]]
                OBVIOUS
            <4> HIDE DEF g
            <4> QED BY <3>3, <4>1 DEF Indexes
        <3> QED BY <2>1, <3>4
    <2> QED BY <2>2, <2>3
<1> QED BY <1>1

LEMMA ByIndexIs ==
  ASSUME Len(saying) \in Nat, NEW places
  PROVE  InOrder(ByIndex(places), places, Len(saying))
<1> DEFINE n == Len(saying)
           f == CHOOSE f : f = [k \in 0..n |-> IF k = 0 THEN <<>> ELSE IF k \in places THEN Append(f[k - 1], k) ELSE f[k - 1]]
<1>1. \E h : h = [k \in 0..n |-> IF k = 0 THEN <<>> ELSE IF k \in places THEN Append(h[k - 1], k) ELSE h[k - 1]]
    <2>1. \E h : Indexes(h, places, n)
        BY IndexesExists
    <2> QED BY <2>1 DEF Indexes
<1>2. f = [k \in 0..n |-> IF k = 0 THEN <<>> ELSE IF k \in places THEN Append(f[k - 1], k) ELSE f[k - 1]]
    BY <1>1
<1>3. ByIndex(places) = f[n]
    BY DEF ByIndex
<1> HIDE DEF f
<1>4. \A k \in 0..n : f[k] = IF k = 0 THEN <<>> ELSE IF k \in places THEN Append(f[k - 1], k) ELSE f[k - 1]
    BY <1>2
<1> DEFINE T == {k \in 0..n : ~ InOrder(f[k], places, k)}
<1>5. T = {}
    <2> SUFFICES ASSUME T # {} PROVE FALSE
        OBVIOUS
    <2>0. T \in SUBSET Nat
        OBVIOUS
    <2>1. PICK k \in T : \A j \in T : k <= j
        BY <2>0, SmallestExists
    <2>2. k \in 0..n /\ k \in Nat
        BY <2>1
    <2>3. CASE k = 0
        <3>1. f[0] = <<>>
            BY <1>4, <2>2, <2>3
        <3>2. InOrder(<<>>, places, 0)
            <4>1. <<>> \in Seq(Nat) /\ Len(<<>>) = 0
                BY EmptySeq
            <4> QED BY <4>1 DEF InOrder
        <3> QED BY <2>1, <2>3, <3>1, <3>2
    <2>4. CASE k # 0
        <3> DEFINE m == k - 1
        <3>1. m \in Nat /\ k = m + 1 /\ m \in 0..n
            BY <2>2, <2>4
        <3>2. m \notin T
            <4> HIDE DEF T
            <4> QED BY <2>1, <2>2, <3>1
        <3>3. InOrder(f[m], places, m)
            BY <3>1, <3>2
        <3>4. f[k] = IF k \in places THEN Append(f[m], k) ELSE f[m]
            BY <1>4, <2>2, <2>4
        <3> HIDE DEF m
        <3>5. InOrder(IF m + 1 \in places THEN Append(f[m], m + 1) ELSE f[m], places, m + 1)
            BY <3>1, <3>3, OrderGrows
        <3> QED BY <2>1, <3>1, <3>4, <3>5
    <2> QED BY <2>3, <2>4
<1> QED BY <1>3, <1>5

\* Blocks in order of which none is left out stand where they were said.
LEMMA AllInOrder ==
  ASSUME NEW n \in Nat, NEW places, NEW out, InOrder(out, places, n), 1..n \subseteq places
  PROVE  Len(out) = n /\ \A i \in 1..n : out[i] = i
<1>1. out \in Seq(Nat) /\ Len(out) \in Nat
    BY LenProperties DEF InOrder
<1> DEFINE T == {i \in 1..Len(out) : out[i] # i}
<1>2. T = {}
    <2> SUFFICES ASSUME T # {} PROVE FALSE
        OBVIOUS
    <2>0. T \in SUBSET Nat
        OBVIOUS
    <2>1. PICK k \in T : \A j \in T : k <= j
        BY <2>0, SmallestExists
    <2>2. k \in 1..Len(out) /\ out[k] # k /\ out[k] \in 1..n
        BY <2>1 DEF InOrder
    <2>3. \A j \in 1..Len(out) : j < k => out[j] = j
        <3> TAKE j \in 1..Len(out)
        <3> HAVE j < k
        <3>1. j \notin T
            <4> HIDE DEF T
            <4> QED BY <2>1, <2>2
        <3> QED BY <3>1
    <2>4. CASE out[k] > k
        <3>1. k \in 1..n
            BY <2>2, <2>4
        <3>2. PICK j \in 1..Len(out) : out[j] = k
            BY <3>1 DEF InOrder
        <3>3. j < k \/ j = k \/ k < j
            BY <1>1, <2>2
        <3>4. k < j => out[k] < out[j]
            BY <2>2 DEF InOrder
        <3> QED BY <1>1, <2>2, <2>3, <2>4, <3>2, <3>3, <3>4
    <2>5. CASE out[k] < k
        <3> DEFINE j == out[k]
        <3>1. j \in 1..Len(out) /\ j < k
            BY <1>1, <2>2, <2>5
        <3>2. out[j] = j
            BY <2>3, <3>1
        <3>3. out[j] < out[k]
            BY <2>2, <3>1 DEF InOrder
        <3> QED BY <2>2, <3>2, <3>3
    <2> QED BY <1>1, <2>2, <2>4, <2>5
<1>3. \A i \in 1..Len(out) : out[i] = i /\ i <= n
    <2> TAKE i \in 1..Len(out)
    <2>1. out[i] = i
        BY <1>2
    <2> QED BY <2>1 DEF InOrder
<1>4. Len(out) <= n
    <2>1. CASE Len(out) = 0
        BY <2>1
    <2>2. CASE Len(out) # 0
        BY <1>1, <1>3, <2>2
    <2> QED BY <2>1, <2>2
<1>5. n <= Len(out)
    <2>1. CASE n = 0
        BY <1>1, <2>1
    <2>2. CASE n # 0
        <3>1. n \in 1..n
            BY <2>2
        <3>2. PICK j \in 1..Len(out) : out[j] = n
            BY <3>1 DEF InOrder
        <3> QED BY <1>1, <1>3, <3>2
    <2> QED BY <2>1, <2>2
<1>6. Len(out) = n
    BY <1>1, <1>4, <1>5
<1> QED BY <1>3, <1>6

\* What may be meant: some blocks, of which the openai shape has one text at
\* most, and first.
LEMMA SayingIs ==
  ASSUME SaidOK
  PROVE  /\ Len(saying) \in 1..MaxBlocks /\ MaxBlocks \in Nat /\ saying = [i \in 1..Len(saying) |-> saying[i]]
         /\ \A i \in 1..Len(saying) :
               /\ saying[i] \in [kind : {"text", "tool", "thinking"}, pieces : Seq(Nat), signed : BOOLEAN]
               /\ saying[i].pieces = Counted(Len(saying[i].pieces)) /\ Len(saying[i].pieces) \in Nat \ {0}
         /\ dialect = "openai" =>
               \A i \in 1..Len(saying) : saying[i].kind = "tool" \/ (i = 1 /\ saying[i].kind = "text")
<1>0. MaxBlocks \in Nat \ {0} /\ MaxPieces \in Nat \ {0}
    BY StreamsAssumption
<1>1. saying \in SeqOf(Block, MaxBlocks) /\ saying # <<>> /\ Sayable(dialect, saying)
    BY DEF SaidOK, Answers
<1>2. PICK m \in 0..MaxBlocks : saying \in [1..m -> Block]
    BY <1>1 DEF SeqOf
<1>3. saying \in Seq(Block) /\ Len(saying) = m
    BY <1>0, <1>2
<1>4. m # 0
    BY <1>1, <1>3, EmptySeq
<1>5. ASSUME NEW n \in 1..MaxPieces PROVE Counted(n) \in Seq(Nat) /\ Len(Counted(n)) = n
    <2>1. n \in Nat
        BY <1>0
    <2> QED BY <2>1 DEF Counted
<1>6. ASSUME NEW i \in 1..Len(saying)
      PROVE  /\ saying[i] \in [kind : {"text", "tool", "thinking"}, pieces : Seq(Nat), signed : BOOLEAN]
             /\ saying[i].pieces = Counted(Len(saying[i].pieces)) /\ Len(saying[i].pieces) \in Nat \ {0}
    <2>1. saying[i] \in Block
        BY <1>2, <1>3
    <2>2. PICK k \in {"text", "tool", "thinking"}, n \in 1..MaxPieces :
                saying[i] = [kind |-> k, pieces |-> Counted(n), signed |-> k = "thinking"]
        BY <2>1 DEF Block
    <2>3. Counted(n) \in Seq(Nat) /\ Len(Counted(n)) = n /\ n \in Nat \ {0}
        BY <1>0, <1>5
    <2>4. saying[i].kind = k /\ saying[i].pieces = Counted(n)
        BY <2>2
    <2>5. saying[i] \in [kind : {"text", "tool", "thinking"}, pieces : Seq(Nat), signed : BOOLEAN]
        BY <2>2, <2>3
    <2> QED BY <2>3, <2>4, <2>5
<1> QED BY <1>0, <1>1, <1>2, <1>3, <1>4, <1>6 DEF Sayable

LEMMA CountedIs ==
  ASSUME NEW n \in Nat
  PROVE  /\ Counted(n) \in Seq(Nat) /\ Len(Counted(n)) = n /\ (Counted(n) = <<>> <=> n = 0)
         /\ Append(Counted(n), n + 1) = Counted(n + 1)
         /\ \A m \in 0..n : IsPrefix(Counted(m), Counted(n))
<1>1. \A k \in Nat : Counted(k) \in Seq(Nat) /\ Len(Counted(k)) = k /\ \A i \in 1..k : Counted(k)[i] = i
    BY DEF Counted
<1>2. Counted(n) = <<>> <=> n = 0
    BY <1>1, EmptySeq
<1>3. Append(Counted(n), n + 1) = Counted(n + 1)
    <2>1. /\ Append(Counted(n), n + 1) \in Seq(Nat) /\ Len(Append(Counted(n), n + 1)) = n + 1
          /\ \A i \in 1..n : Append(Counted(n), n + 1)[i] = i
          /\ Append(Counted(n), n + 1)[n + 1] = n + 1
        BY <1>1, AppendProperties
    <2>2. \A i \in 1..(n + 1) : i \in 1..n \/ i = n + 1
        OBVIOUS
    <2>3. \A i \in 1..(n + 1) : Append(Counted(n), n + 1)[i] = Counted(n + 1)[i]
        BY <1>1, <2>1, <2>2
    <2>4. Counted(n + 1) \in Seq(Nat) /\ Len(Counted(n + 1)) = n + 1
        BY <1>1
    <2> QED BY <2>1, <2>3, <2>4, SeqEqual
<1>4. ASSUME NEW m \in 0..n PROVE IsPrefix(Counted(m), Counted(n))
    <2> DEFINE a == SubSeq(Counted(m), 1, m)
               b == SubSeq(Counted(n), 1, m)
    <2>0. m \in Nat /\ m <= n /\ m \in Int /\ 1 \in Int
        OBVIOUS
    <2>1. \A i \in 1..m : Counted(m)[i] = i /\ Counted(n)[i] = i
        BY <1>1, <2>0
    <2>2. \A i \in 1..m : Counted(m)[i] \in Nat /\ Counted(n)[i] \in Nat
        BY <2>1
    <2>3. a \in Seq(Nat) /\ Len(a) = (IF 1 <= m THEN m - 1 + 1 ELSE 0) /\ \A i \in 1..(m - 1 + 1) : a[i] = Counted(m)[1 + i - 1]
        BY <2>0, <2>2, SubSeqProperties
    <2>4. b \in Seq(Nat) /\ Len(b) = (IF 1 <= m THEN m - 1 + 1 ELSE 0) /\ \A i \in 1..(m - 1 + 1) : b[i] = Counted(n)[1 + i - 1]
        BY <2>0, <2>2, SubSeqProperties
    <2>5. a = b
        <3>1. \A i \in 1..m : i \in 1..(m - 1 + 1) /\ 1 + i - 1 = i
            BY <2>0
        <3> HIDE DEF a, b
        <3>2. Len(a) = m /\ Len(b) = m /\ \A i \in 1..m : a[i] = b[i]
            BY <2>0, <2>1, <2>3, <2>4, <3>1
        <3> QED BY <2>3, <2>4, <3>2, SeqEqual
    <2>6. Len(Counted(m)) = m /\ Len(Counted(n)) = n
        BY <1>1, <2>0
    <2> QED BY <2>0, <2>5, <2>6 DEF IsPrefix
<1> QED BY <1>1, <1>2, <1>3, <1>4

LEMMA NothingFirst == ASSUME NEW s, Len(s) \in Nat PROVE IsPrefix(<<>>, s)
<1>1. Len(<<>>) = 0
    BY EmptySeq
<1>2. SubSeq(<<>>, 1, 0) = <<>> /\ SubSeq(s, 1, 0) = <<>>
    BY SubSeqEmpty
<1> QED BY <1>1, <1>2 DEF IsPrefix

\* One text, and the calls behind it.
LEMMA OneThenOthers ==
  ASSUME NEW n \in Nat, NEW P, NEW Q, NEW a, NEW b, InOrder(a, P, n), InOrder(b, Q, n),
         P \subseteq {1}, 1 \in P => 1 \notin Q
  PROVE  InOrder(a \o b, P \cup Q, n)
<1> DEFINE c == a \o b
<1>0. a \in Seq(Nat) /\ b \in Seq(Nat) /\ Len(a) \in Nat /\ Len(b) \in Nat
    BY LenProperties DEF InOrder
<1>1. /\ c \in Seq(Nat) /\ Len(c) = Len(a) + Len(b)
      /\ \A i \in 1..(Len(a) + Len(b)) : c[i] = IF i <= Len(a) THEN a[i] ELSE b[i - Len(a)]
    BY <1>0, ConcatProperties
<1> HIDE DEF c
<1>2. \A i \in 1..Len(c) : \/ i \in 1..Len(a) /\ c[i] = a[i]
                           \/ i - Len(a) \in 1..Len(b) /\ c[i] = b[i - Len(a)] /\ i > Len(a)
    <2> TAKE i \in 1..Len(c)
    <2>1. i \in Nat /\ 1 <= i /\ i <= Len(a) + Len(b) /\ i \in 1..(Len(a) + Len(b))
        BY <1>0, <1>1
    <2>2. c[i] = IF i <= Len(a) THEN a[i] ELSE b[i - Len(a)]
        BY <1>1, <2>1
    <2>3. CASE i <= Len(a)
        BY <1>0, <2>1, <2>2, <2>3
    <2>4. CASE ~ i <= Len(a)
        <3>1. i - Len(a) \in 1..Len(b) /\ i > Len(a)
            BY <1>0, <2>1, <2>4
        <3> QED BY <2>2, <2>4, <3>1
    <2> QED BY <2>3, <2>4
<1>3. \A i \in 1..Len(c) : c[i] \in 1..n /\ c[i] \in P \cup Q
    BY <1>2 DEF InOrder
<1>4. ASSUME NEW i \in 1..Len(c), NEW j \in 1..Len(c), i < j PROVE c[i] < c[j]
    <2>1. CASE j \in 1..Len(a) /\ c[j] = a[j]
        <3>1. i \in 1..Len(a) /\ c[i] = a[i]
            <4>1. Len(a) \in Nat /\ Len(b) \in Nat /\ i \in 1..(Len(a) + Len(b))
                BY <1>0, <1>1
            <4>2. i \in 1..Len(a) /\ i <= Len(a)
                BY ONLY <4>1, <2>1, <1>4
            <4> QED BY <1>1, <4>1, <4>2
        <3> QED BY <1>4, <2>1, <3>1 DEF InOrder
    <2>2. CASE j - Len(a) \in 1..Len(b) /\ c[j] = b[j - Len(a)]
        <3>1. CASE i \in 1..Len(a) /\ c[i] = a[i]
            <4>1. c[i] = 1 /\ 1 \in P
                BY <3>1 DEF InOrder
            <4>2. c[j] \in Q /\ c[j] \in 1..n
                BY <2>2 DEF InOrder
            <4>3. c[j] # 1
                BY <4>1, <4>2
            <4> QED BY <4>1, <4>2, <4>3
        <3>2. CASE i - Len(a) \in 1..Len(b) /\ c[i] = b[i - Len(a)]
            <4>1. i - Len(a) < j - Len(a)
                BY <1>0, <1>1, <1>4
            <4> QED BY <2>2, <3>2, <4>1 DEF InOrder
        <3> QED BY <1>2, <3>1, <3>2
    <2> QED BY <1>2, <2>1, <2>2
<1>5. ASSUME NEW k \in 1..n, k \in P \cup Q PROVE \E i \in 1..Len(c) : c[i] = k
    <2>1. CASE k \in P
        <3>1. PICK i \in 1..Len(a) : a[i] = k
            BY <2>1 DEF InOrder
        <3>2. i \in 1..Len(c) /\ i \in 1..(Len(a) + Len(b)) /\ i <= Len(a)
            BY <1>0, <1>1
        <3> QED BY <1>1, <3>1, <3>2
    <2>2. CASE k \in Q
        <3>1. PICK i \in 1..Len(b) : b[i] = k
            BY <2>2 DEF InOrder
        <3>2. /\ i + Len(a) \in 1..Len(c) /\ i + Len(a) \in 1..(Len(a) + Len(b)) /\ ~ i + Len(a) <= Len(a)
              /\ i + Len(a) - Len(a) = i
            BY <1>0, <1>1
        <3>3. c[i + Len(a)] = k
            BY <1>1, <3>1, <3>2
        <3> QED BY <3>2, <3>3
    <2> QED BY <1>5, <2>1, <2>2
<1>6. InOrder(c, P \cup Q, n)
    BY <1>1, <1>3, <1>4, <1>5 DEF InOrder
<1> QED BY <1>6 DEF c

\* What is settled is the blocks of some places in their order, each as far
\* as it came, a call's arguments whole or none.
Follows(said, placed, places) ==
    /\ InOrder(placed, places, Len(saying)) /\ (AllSent => 1..Len(saying) \subseteq places)
    /\ said = [k \in 1..Len(placed) |-> said[k]]
    /\ \A k \in 1..Len(placed) : \E p \in {<<>>, Counted(sentOf[placed[k]])} :
          /\ said[k] = Rebuilt(placed[k], p)
          /\ saying[placed[k]].kind = "tool" => p \in {<<>>, saying[placed[k]].pieces}
          /\ Counted(sentOf[placed[k]]) = saying[placed[k]].pieces => p = saying[placed[k]].pieces

LEMMA AnthropicFollows ==
  ASSUME SaidOK, HeldOK, garbled = 0
  PROVE  \E placed, places : Follows(anthropic_settled(Collected(frames)), placed, places)
<1> DEFINE held == Collected(frames)
           n == Len(saying)
           placed == ByIndex(held.seen)
           said == anthropic_settled(held)
<1>1. held.seen = started /\ \A i \in 1..n : held.pieces[i] = Counted(sentOf[i])
    BY DEF HeldOK
<1> HIDE DEF held
<1>2. n \in Nat
    BY SayingIs
<1>3. InOrder(placed, held.seen, n)
    BY <1>2, ByIndexIs
<1>4. AllSent => 1..n \subseteq held.seen
    BY <1>1 DEF AllSent
<1> HIDE DEF placed
<1>5. said = [k \in 1..Len(placed) |->
                Rebuilt(placed[k], IF saying[placed[k]].kind = "tool" /\ ~ (held.pieces[placed[k]] = saying[placed[k]].pieces)
                                  THEN <<>> ELSE held.pieces[placed[k]])]
    BY DEF anthropic_settled, placed
<1> HIDE DEF said
<1>6. ASSUME NEW k \in 1..Len(placed)
      PROVE  \E p \in {<<>>, Counted(sentOf[placed[k]])} :
                /\ said[k] = Rebuilt(placed[k], p)
                /\ saying[placed[k]].kind = "tool" => p \in {<<>>, saying[placed[k]].pieces}
                /\ Counted(sentOf[placed[k]]) = saying[placed[k]].pieces => p = saying[placed[k]].pieces
    <2> DEFINE i == placed[k]
               p == IF saying[i].kind = "tool" /\ ~ (held.pieces[i] = saying[i].pieces) THEN <<>> ELSE held.pieces[i]
    <2>1. i \in 1..n
        BY <1>3 DEF InOrder
    <2>2. held.pieces[i] = Counted(sentOf[i])
        BY <1>1, <2>1
    <2>3. said[k] = Rebuilt(i, p)
        BY <1>5
    <2> QED BY <2>2, <2>3
<1>7. said = [k \in 1..Len(placed) |-> said[k]]
    BY <1>5
<1>8. Follows(said, placed, held.seen)
    BY <1>3, <1>4, <1>6, <1>7 DEF Follows
<1> QED BY <1>8 DEF said, held

LEMMA OpenaiFollows ==
  ASSUME SaidOK, HeldOK, garbled = 0, dialect = "openai"
  PROVE  \/ openai_settled(Collected(frames)) = Refused
         \/ \E placed, places : Follows(openai_settled(Collected(frames)), placed, places)
<1> DEFINE held == Collected(frames)
           n == Len(saying)
           P == {i \in {j \in 1..n : saying[j].kind = "text"} : held.pieces[i] # <<>>}
           Q == {i \in {j \in 1..n : saying[j].kind = "tool"} : i \in held.seen \/ held.pieces[i] # <<>>}
           texts == ByIndex(P)
           calls == ByIndex(Q)
           placed == texts \o calls
           said == openai_settled(held)
<1>1. held.seen = started /\ \A i \in 1..n : held.pieces[i] = Counted(sentOf[i])
    BY DEF HeldOK
<1> HIDE DEF held
<1>2. /\ n \in Nat
      /\ \A i \in 1..n : saying[i].kind = "tool" \/ (i = 1 /\ saying[i].kind = "text")
      /\ \A i \in 1..n : saying[i].pieces = Counted(Len(saying[i].pieces)) /\ Len(saying[i].pieces) \in Nat \ {0}
    BY SayingIs
<1>3. P \subseteq {1} /\ (1 \in P => 1 \notin Q)
    BY <1>2
<1>4. AllSent => 1..n \subseteq P \cup Q
    <2> SUFFICES ASSUME AllSent, NEW i \in 1..n PROVE i \in P \cup Q
        OBVIOUS
    <2>1. i \in started /\ held.pieces[i] = Counted(Len(saying[i].pieces))
        BY <1>1 DEF AllSent
    <2>2. held.pieces[i] # <<>>
        BY <1>2, <2>1, CountedIs
    <2> QED BY <1>1, <1>2, <2>1, <2>2
<1>5. /\ \A i \in P : held.pieces[i] = Counted(sentOf[i]) /\ saying[i].kind = "text" /\ i \in 1..n
      /\ \A i \in Q : held.pieces[i] = Counted(sentOf[i]) /\ saying[i].kind = "tool" /\ i \in 1..n
    BY <1>1
<1>6. said = IF \E k \in 1..Len(calls) : calls[k] \notin held.seen \/ held.pieces[calls[k]] # saying[calls[k]].pieces
             THEN Refused
             ELSE [k \in 1..Len(placed) |-> Rebuilt(placed[k], held.pieces[placed[k]])]
    BY DEF openai_settled
<1> HIDE DEF said, P, Q
<1>7. InOrder(texts, P, n) /\ InOrder(calls, Q, n)
    BY <1>2, ByIndexIs
<1> HIDE DEF texts, calls
<1>8. InOrder(placed, P \cup Q, n)
    BY <1>2, <1>3, <1>7, OneThenOthers
<1> HIDE DEF placed
<1>9. CASE \E k \in 1..Len(calls) : calls[k] \notin held.seen \/ held.pieces[calls[k]] # saying[calls[k]].pieces
    BY <1>6, <1>9 DEF said, held
<1>10. CASE ~ \E k \in 1..Len(calls) : calls[k] \notin held.seen \/ held.pieces[calls[k]] # saying[calls[k]].pieces
    <2>1. said = [k \in 1..Len(placed) |-> Rebuilt(placed[k], held.pieces[placed[k]])]
        BY <1>6, <1>10
    <2>2. \A i \in Q : held.pieces[i] = saying[i].pieces
        <3> TAKE i \in Q
        <3>1. PICK k \in 1..Len(calls) : calls[k] = i
            BY <1>5, <1>7 DEF InOrder
        <3> QED BY <1>10, <3>1
    <2>3. ASSUME NEW k \in 1..Len(placed)
          PROVE  \E p \in {<<>>, Counted(sentOf[placed[k]])} :
                    /\ said[k] = Rebuilt(placed[k], p)
                    /\ saying[placed[k]].kind = "tool" => p \in {<<>>, saying[placed[k]].pieces}
                    /\ Counted(sentOf[placed[k]]) = saying[placed[k]].pieces => p = saying[placed[k]].pieces
        <3>1. placed[k] \in P \cup Q
            BY <1>8 DEF InOrder
        <3>2. said[k] = Rebuilt(placed[k], held.pieces[placed[k]])
            BY <2>1
        <3> QED BY <1>5, <2>2, <3>1, <3>2
    <2>4. said = [k \in 1..Len(placed) |-> said[k]]
        BY <2>1
    <2>5. Follows(said, placed, P \cup Q)
        BY <1>4, <1>8, <2>3, <2>4 DEF Follows
    <2> QED BY <2>5 DEF said, held
<1> QED BY <1>9, <1>10

LEMMA WithoutSignature ==
  ASSUME NEW K, NEW P, NEW block \in [kind : K, pieces : P, signed : BOOLEAN]
  PROVE  [block EXCEPT !.signed = FALSE] = [kind |-> block.kind, pieces |-> block.pieces, signed |-> FALSE]
<1> DEFINE R == [kind : K, pieces : P, signed : BOOLEAN]
           bare == [block EXCEPT !.signed = FALSE]
           made == [kind |-> block.kind, pieces |-> block.pieces, signed |-> FALSE]
<1>1. bare \in R /\ bare.kind = block.kind /\ bare.pieces = block.pieces /\ bare.signed = FALSE
    OBVIOUS
<1>2. made \in R /\ made.kind = block.kind /\ made.pieces = block.pieces /\ made.signed = FALSE
    OBVIOUS
<1> HIDE DEF bare, made
<1>3. \A x, y \in R : x.kind = y.kind /\ x.pieces = y.pieces /\ x.signed = y.signed => x = y
    OBVIOUS
<1>4. bare = made
    BY <1>1, <1>2, <1>3
<1> QED BY <1>4 DEF bare, made

\* What a call returns of a stream that could be read.
LEMMA StreamAnswers ==
  ASSUME SaidOK, HeldOK, outcome' = settled_from_stream, UNCHANGED <<saying, why, garbled>>
  PROVE  WholeOrRefused' /\ LimitedIsPrefix'
<1> DEFINE held == Collected(frames)
           said == IF dialect = "anthropic" THEN anthropic_settled(held) ELSE openai_settled(held)
           n == Len(saying)
<1>1. /\ n \in Nat \ {0} /\ saying = [i \in 1..n |-> saying[i]]
      /\ \A i \in 1..n :
            /\ saying[i] \in [kind : {"text", "tool", "thinking"}, pieces : Seq(Nat), signed : BOOLEAN]
            /\ saying[i].pieces = Counted(Len(saying[i].pieces)) /\ Len(saying[i].pieces) \in Nat \ {0}
    BY SayingIs
<1>2. outcome' = IF stream_cut(held) THEN Refused ELSE IF said = <<>> THEN NoContent ELSE said
    BY DEF settled_from_stream
<1>3. CASE garbled # 0
    BY <1>3 DEF WholeOrRefused, LimitedIsPrefix
<1>4. CASE outcome' = Refused
    BY <1>4 DEF WholeOrRefused, LimitedIsPrefix, Answered
<1>5. CASE garbled = 0 /\ outcome' # Refused
    <2>1. held.stop = why /\ why # "none"
        <3>1. held.stop = why
            BY <1>5 DEF HeldOK
        <3> HIDE DEF held
        <3> QED BY <1>2, <1>5, <3>1 DEF stream_cut
    <2>2. outcome' = IF said = <<>> THEN NoContent ELSE said
        <3> HIDE DEF said
        <3> QED BY <1>2, <1>5
    <2>3. \/ said = Refused
          \/ \E placed, places : Follows(said, placed, places)
        <3>1. CASE dialect = "anthropic"
            BY <1>5, <3>1, AnthropicFollows
        <3>2. CASE dialect # "anthropic"
            <4>1. dialect = "openai"
                BY <3>2 DEF SaidOK
            <4> QED BY <1>5, <3>2, <4>1, OpenaiFollows
        <3> QED BY <3>1, <3>2
    <2> HIDE DEF said
    <2>4. said # Refused
        <3>1. Refused # <<>>
            BY EmptySeq DEF Refused
        <3> QED BY <1>5, <2>2, <3>1
    <2>5. PICK placed, places : Follows(said, placed, places)
        BY <2>3, <2>4
    <2>6. /\ InOrder(placed, places, n) /\ (AllSent => 1..n \subseteq places)
          /\ placed \in Seq(Nat) /\ Len(placed) \in Nat
          /\ said = [k \in 1..Len(placed) |-> said[k]]
        BY <2>5, LenProperties DEF Follows, InOrder
    <2>7. said \in Seq({said[k] : k \in 1..Len(placed)}) /\ Len(said) = Len(placed)
        BY <2>6
    <2>8. ASSUME NEW k \in 1..Len(placed)
          PROVE  /\ placed[k] \in 1..n
                 /\ \E p \in {<<>>, Counted(sentOf[placed[k]])} :
                      /\ said[k] = [kind |-> saying[placed[k]].kind, pieces |-> p, signed |-> FALSE]
                      /\ saying[placed[k]].kind = "tool" => p \in {<<>>, saying[placed[k]].pieces}
                      /\ Counted(sentOf[placed[k]]) = saying[placed[k]].pieces => p = saying[placed[k]].pieces
        BY <2>5 DEF Follows, InOrder, Rebuilt
    <2>9. WholeOrRefused'
        <3> SUFFICES ASSUME why # "limit" PROVE Unsigned(outcome') = Unsigned(saying)
            BY DEF WholeOrRefused
        <3>1. AllSent
            BY <2>1 DEF SaidOK
        <3>2. Len(placed) = n /\ \A i \in 1..n : placed[i] = i
            BY <1>1, <2>6, <3>1, AllInOrder
        <3>3. Len(said) = n /\ said # <<>>
            BY <1>1, <2>7, <3>2, EmptySeq
        <3>4. outcome' = said
            BY <2>2, <3>3
        <3>5. ASSUME NEW i \in 1..n
              PROVE  [said[i] EXCEPT !.signed = FALSE] = [saying[i] EXCEPT !.signed = FALSE]
            <4>1. Counted(sentOf[i]) = saying[i].pieces
                BY <1>1, <3>1 DEF AllSent
            <4>2. said[i] = [kind |-> saying[i].kind, pieces |-> saying[i].pieces, signed |-> FALSE]
                <5>1. i \in 1..Len(placed) /\ placed[i] = i
                    BY <3>2
                <5>2. PICK p \in {<<>>, Counted(sentOf[placed[i]])} :
                         /\ said[i] = [kind |-> saying[placed[i]].kind, pieces |-> p, signed |-> FALSE]
                         /\ Counted(sentOf[placed[i]]) = saying[placed[i]].pieces => p = saying[placed[i]].pieces
                    BY <2>8, <5>1
                <5> QED BY ONLY <4>1, <5>1, <5>2
            <4>3. saying[i] \in [kind : {"text", "tool", "thinking"}, pieces : Seq(Nat), signed : BOOLEAN]
                BY <1>1
            <4>4. /\ said[i] \in [kind : {"text", "tool", "thinking"}, pieces : Seq(Nat), signed : BOOLEAN]
                  /\ said[i].kind = saying[i].kind /\ said[i].pieces = saying[i].pieces
                BY <4>2, <4>3
            <4>5. [said[i] EXCEPT !.signed = FALSE] = [kind |-> said[i].kind, pieces |-> said[i].pieces, signed |-> FALSE]
                BY ONLY <4>4, WithoutSignature
            <4>6. [saying[i] EXCEPT !.signed = FALSE] = [kind |-> saying[i].kind, pieces |-> saying[i].pieces, signed |-> FALSE]
                BY ONLY <4>3, WithoutSignature
            <4> QED BY <4>4, <4>5, <4>6
        <3>6. Unsigned(said) = [i \in 1..n |-> [said[i] EXCEPT !.signed = FALSE]]
            BY <3>3 DEF Unsigned
        <3>7. Unsigned(saying) = [i \in 1..n |-> [saying[i] EXCEPT !.signed = FALSE]]
            BY DEF Unsigned
        <3> QED BY <3>4, <3>5, <3>6, <3>7
    <2>10. LimitedIsPrefix'
        <3> SUFFICES ASSUME outcome' # NoContent
                     PROVE  \E at \in [1..Len(outcome') -> 1..n] :
                               /\ \A j, k \in 1..Len(outcome') : j < k => at[j] < at[k]
                               /\ \A k \in 1..Len(outcome') :
                                     /\ outcome'[k].kind = saying[at[k]].kind
                                     /\ IsPrefix(outcome'[k].pieces, saying[at[k]].pieces)
                                     /\ outcome'[k].kind = "tool" => outcome'[k].pieces \in {<<>>, saying[at[k]].pieces}
            BY DEF LimitedIsPrefix
        <3>1. outcome' = said /\ Len(outcome') = Len(placed)
            BY <2>2, <2>7
        <3>2. placed \in [1..Len(placed) -> 1..n]
            BY <2>6, <2>8, LenProperties
        <3>3. \A j, k \in 1..Len(placed) : j < k => placed[j] < placed[k]
            BY <2>6 DEF InOrder
        <3>4. ASSUME NEW k \in 1..Len(placed)
              PROVE  /\ said[k].kind = saying[placed[k]].kind
                     /\ IsPrefix(said[k].pieces, saying[placed[k]].pieces)
                     /\ said[k].kind = "tool" => said[k].pieces \in {<<>>, saying[placed[k]].pieces}
            <4> DEFINE i == placed[k]
            <4>1. PICK p \in {<<>>, Counted(sentOf[i])} :
                      /\ said[k] = [kind |-> saying[i].kind, pieces |-> p, signed |-> FALSE]
                      /\ saying[i].kind = "tool" => p \in {<<>>, saying[i].pieces}
                BY <2>8
            <4>2. i \in 1..n
                BY <2>8
            <4> HIDE DEF i
            <4>3. IsPrefix(<<>>, saying[i].pieces)
                BY <1>1, <4>2, NothingFirst
            <4>4. IsPrefix(Counted(sentOf[i]), saying[i].pieces)
                <5>1. sentOf[i] \in 0..Len(saying[i].pieces)
                    BY <1>1, <4>2 DEF SaidOK
                <5>2. IsPrefix(Counted(sentOf[i]), Counted(Len(saying[i].pieces)))
                    BY <1>1, <4>2, <5>1, CountedIs
                <5> QED BY <1>1, <4>2, <5>2
            <4> QED BY <4>1, <4>3, <4>4 DEF i
        <3> QED BY <3>1, <3>2, <3>3, <3>4
    <2> QED BY <2>9, <2>10
<1> QED BY <1>3, <1>4, <1>5

\* A frame that comes, or one that cannot be read.
LEMMA ArrivesIs ==
  ASSUME StreamInv, outcome = Waiting, UNCHANGED <<dialect, saying, outcome>>,
         NEW type \in {"start", "delta", "stop"}, NEW at \in Nat, NEW kind \in Kinds, NEW piece \in Nat,
         Arrives(Frame(type, at, kind, piece))
  PROVE  /\ frames' \in Seq([type : {"start", "delta", "stop"}, at : Nat, kind : Kinds, piece : Nat])
         /\ garbled' \in Nat
         /\ garbled' = 0 => garbled = 0 /\ Collected(frames') = Keep(Collected(frames), Frame(type, at, kind, piece))
         /\ WholeOrRefused' /\ LimitedIsPrefix'
         /\ \/ shown' = shown
            \/ /\ increment_of(Frame(type, at, kind, piece))
               /\ shown' = Append(shown, [at |-> at, piece |-> piece])
<1> DEFINE F == [type : {"start", "delta", "stop"}, at : Nat, kind : Kinds, piece : Nat]
           f == Frame(type, at, kind, piece)
<1>1. f \in F /\ f.at = at /\ f.piece = piece
    BY DEF Frame
<1>2. frames \in Seq(F) /\ garbled \in Nat
    BY DEF StreamInv, SaidOK
<1>3. WholeOrRefused' /\ LimitedIsPrefix'
    BY DEF WholeOrRefused, LimitedIsPrefix, Answered
<1> HIDE DEF F, f
<1>4. CASE frames' = Append(frames, f) /\ garbled' = garbled
    <2>1. frames' \in Seq(F)
        BY <1>1, <1>2, <1>4, AppendProperties
    <2>2. Collected(frames') = Keep(Collected(frames), f)
        BY <1>1, <1>2, <1>4, CollectedAppend
    <2>3. \/ shown' = shown
          \/ increment_of(f) /\ shown' = Append(shown, [at |-> at, piece |-> piece])
        BY <1>1, <1>2 DEF Arrives, f
    <2> QED BY <1>2, <1>3, <1>4, <2>1, <2>2, <2>3 DEF F, f
<1>5. CASE garbled' = garbled + 1 /\ UNCHANGED <<frames, shown>>
    BY <1>2, <1>3, <1>5 DEF F
<1>6. \/ frames' = Append(frames, f) /\ garbled' = garbled
      \/ garbled' = garbled + 1 /\ UNCHANGED <<frames, shown>>
    BY DEF Arrives, f
<1> QED BY <1>4, <1>5, <1>6

LEMMA StreamStep == StreamInv /\ StreamsNext => StreamInv'
<1> SUFFICES ASSUME StreamInv, StreamsNext PROVE StreamInv'
    OBVIOUS
<1> DEFINE n == Len(saying)
           C == Collected(frames)
<1>0. SaidOK /\ HeldOK /\ ShownOK /\ RepliesAreWhole /\ WholeOrRefused /\ LimitedIsPrefix /\ ShownIsProse
    BY DEF StreamInv, RepliesAreWhole
<1>1. /\ n \in 1..MaxBlocks /\ n \in Nat /\ MaxBlocks \in Nat
      /\ \A i \in 1..n : /\ saying[i].kind \in Kinds
                         /\ Len(saying[i].pieces) \in Nat \ {0}
    BY <1>0, SayingIs DEF Kinds
<1>2. CASE \E i \in 1..n : provider_starts(i)
    <2>0. PICK i \in 1..n : provider_starts(i)
        BY <1>2
    <2> DEFINE f == Frame("start", i, saying[i].kind, 0)
    <2>1. /\ outcome = Waiting /\ why = "none" /\ i \notin started /\ started' = started \cup {i}
          /\ Arrives(f) /\ UNCHANGED <<dialect, saying, sentOf, why, outcome>>
        BY <2>0 DEF provider_starts, Going
    <2>2. /\ frames' \in Seq([type : {"start", "delta", "stop"}, at : Nat, kind : Kinds, piece : Nat])
          /\ garbled' \in Nat
          /\ garbled' = 0 => garbled = 0 /\ Collected(frames') = Keep(C, f)
          /\ WholeOrRefused' /\ LimitedIsPrefix'
          /\ shown' = shown \/ increment_of(f)
        <3> DEFINE kind == saying[i].kind
        <3>1. kind \in Kinds /\ i \in Nat /\ 0 \in Nat
            BY <1>1
        <3>2. Arrives(Frame("start", i, kind, 0))
            BY <2>1
        <3> HIDE DEF kind
        <3>3. /\ frames' \in Seq([type : {"start", "delta", "stop"}, at : Nat, kind : Kinds, piece : Nat])
              /\ garbled' \in Nat
              /\ garbled' = 0 => garbled = 0 /\ Collected(frames') = Keep(Collected(frames), Frame("start", i, kind, 0))
              /\ WholeOrRefused' /\ LimitedIsPrefix'
              /\ shown' = shown \/ increment_of(Frame("start", i, kind, 0))
            BY <2>1, <3>1, <3>2, ArrivesIs
        <3> QED BY <3>3 DEF kind
    <2>3. f.type = "start" /\ f.at = i /\ i \in Nat
        BY <1>1 DEF Frame
    <2>4. SaidOK'
        BY <1>0, <2>1, <2>2 DEF SaidOK, AllSent
    <2> HIDE DEF f
    <2>5. shown' = shown
        BY <2>2, <2>3 DEF increment_of
    <2>6. HeldOK'
        <3> SUFFICES ASSUME garbled' = 0
                     PROVE  /\ Collected(frames') \in [seen : SUBSET Nat, pieces : [1..MaxBlocks -> Seq(Nat)], stop : Kinds]
                            /\ Collected(frames').seen = started' /\ Collected(frames').stop = why'
                            /\ \A j \in 1..n : Collected(frames').pieces[j] = Counted(sentOf'[j])
            BY <2>1 DEF HeldOK
        <3>1. /\ C \in [seen : SUBSET Nat, pieces : [1..MaxBlocks -> Seq(Nat)], stop : Kinds]
              /\ C.seen = started /\ C.stop = why /\ \A j \in 1..n : C.pieces[j] = Counted(sentOf[j])
            BY <1>0, <2>2 DEF HeldOK
        <3> HIDE DEF C
        <3>2. Collected(frames') = [C EXCEPT !.seen = C.seen \cup {i}]
            BY <2>2, <2>3 DEF Keep
        <3> QED BY <2>1, <2>3, <3>1, <3>2
    <2>7. ShownOK' /\ ShownIsProse'
        BY <1>0, <2>1, <2>5 DEF ShownOK, ShownIsProse
    <2> QED BY <2>2, <2>4, <2>6, <2>7 DEF StreamInv, RepliesAreWhole
<1>3. CASE \E i \in 1..n : provider_continues(i)
    <2>0. PICK i \in 1..n : provider_continues(i)
        BY <1>3
    <2> DEFINE f == Frame("delta", i, saying[i].kind, sentOf[i] + 1)
    <2>1. /\ outcome = Waiting /\ why = "none" /\ i \in started /\ sentOf[i] < Len(saying[i].pieces)
          /\ sentOf' = [sentOf EXCEPT ![i] = @ + 1]
          /\ Arrives(f) /\ UNCHANGED <<dialect, saying, started, why, outcome>>
        BY <2>0 DEF provider_continues, Going
    <2>1a. sentOf \in [1..n -> Nat] /\ sentOf[i] + 1 \in Nat
        BY <1>0 DEF SaidOK
    <2>2. /\ frames' \in Seq([type : {"start", "delta", "stop"}, at : Nat, kind : Kinds, piece : Nat])
          /\ garbled' \in Nat
          /\ garbled' = 0 => garbled = 0 /\ Collected(frames') = Keep(C, f)
          /\ WholeOrRefused' /\ LimitedIsPrefix'
          /\ \/ shown' = shown
             \/ /\ increment_of(f)
                /\ shown' = Append(shown, [at |-> i, piece |-> sentOf[i] + 1])
        <3> DEFINE kind == saying[i].kind
                   piece == sentOf[i] + 1
        <3>1. kind \in Kinds /\ i \in Nat /\ piece \in Nat
            BY <1>1, <2>1a
        <3>2. Arrives(Frame("delta", i, kind, piece))
            BY <2>1
        <3> HIDE DEF kind, piece
        <3>3. /\ frames' \in Seq([type : {"start", "delta", "stop"}, at : Nat, kind : Kinds, piece : Nat])
              /\ garbled' \in Nat
              /\ garbled' = 0 => garbled = 0 /\ Collected(frames') = Keep(Collected(frames), Frame("delta", i, kind, piece))
              /\ WholeOrRefused' /\ LimitedIsPrefix'
              /\ \/ shown' = shown
                 \/ /\ increment_of(Frame("delta", i, kind, piece))
                    /\ shown' = Append(shown, [at |-> i, piece |-> piece])
            BY <2>1, <3>1, <3>2, ArrivesIs
        <3> QED BY <3>3 DEF kind, piece
    <2>3. f.type = "delta" /\ f.at = i /\ f.kind = saying[i].kind /\ f.piece = sentOf[i] + 1 /\ i \in 1..MaxBlocks
        BY <1>1 DEF Frame
    <2>4. /\ sentOf' \in [1..n -> Nat] /\ sentOf'[i] = sentOf[i] + 1
          /\ \A j \in 1..n : j # i => sentOf'[j] = sentOf[j]
        BY <2>1, <2>1a
    <2>5. SaidOK'
        <3>1. \A j \in 1..n : sentOf'[j] <= Len(saying[j].pieces) /\ (sentOf'[j] > 0 => j \in started)
            <4> TAKE j \in 1..n
            <4>1. CASE j = i
                BY <1>1, <2>1, <2>1a, <2>4, <4>1
            <4>2. CASE j # i
                BY <1>0, <2>4, <4>2 DEF SaidOK
            <4> QED BY <4>1, <4>2
        <3> QED BY <1>0, <2>1, <2>2, <2>4, <3>1 DEF SaidOK
    <2> HIDE DEF f
    <2>6. HeldOK'
        <3> SUFFICES ASSUME garbled' = 0
                     PROVE  /\ Collected(frames') \in [seen : SUBSET Nat, pieces : [1..MaxBlocks -> Seq(Nat)], stop : Kinds]
                            /\ Collected(frames').seen = started' /\ Collected(frames').stop = why'
                            /\ \A j \in 1..n : Collected(frames').pieces[j] = Counted(sentOf'[j])
            BY <2>1 DEF HeldOK
        <3>1. /\ C \in [seen : SUBSET Nat, pieces : [1..MaxBlocks -> Seq(Nat)], stop : Kinds]
              /\ C.seen = started /\ C.stop = why /\ \A j \in 1..n : C.pieces[j] = Counted(sentOf[j])
            BY <1>0, <2>2 DEF HeldOK
        <3> HIDE DEF C
        <3>2. Collected(frames') = [C EXCEPT !.pieces[i] = Append(C.pieces[i], sentOf[i] + 1)]
            BY <2>2, <2>3 DEF Keep, Held
        <3>3. Append(C.pieces[i], sentOf[i] + 1) = Counted(sentOf[i] + 1) /\ Counted(sentOf[i] + 1) \in Seq(Nat)
            BY <2>1a, <3>1, CountedIs
        <3>4. Collected(frames') = [C EXCEPT !.pieces = [C.pieces EXCEPT ![i] = Counted(sentOf[i] + 1)]]
            BY <3>1, <3>2, <3>3
        <3> DEFINE more == [C.pieces EXCEPT ![i] = Counted(sentOf[i] + 1)]
        <3>a. more \in [1..MaxBlocks -> Seq(Nat)]
            BY <3>1, <3>3
        <3>b. /\ more[i] = Counted(sentOf[i] + 1)
              /\ \A j \in 1..MaxBlocks : j # i => more[j] = C.pieces[j]
            BY <2>3, <3>1
        <3> HIDE DEF more
        <3>5. /\ Collected(frames').seen = C.seen /\ Collected(frames').stop = C.stop
              /\ Collected(frames').pieces = more
              /\ Collected(frames') \in [seen : SUBSET Nat, pieces : [1..MaxBlocks -> Seq(Nat)], stop : Kinds]
            <4>1. Collected(frames') = [C EXCEPT !.pieces = more]
                BY <3>4 DEF more
            <4> QED BY <3>1, <3>a, <4>1
        <3>6. \A j \in 1..n : j \in 1..MaxBlocks
            BY <1>1
        <3>7. \A j \in 1..n : more[j] = Counted(sentOf'[j])
            BY <2>4, <3>1, <3>b, <3>6
        <3> QED BY <2>1, <3>1, <3>5, <3>7
    <2>7. ShownOK' /\ ShownIsProse'
        <3>0. /\ shown \in Seq([at : 1..n, piece : Nat]) /\ Len(shown) \in Nat
              /\ \A k \in 1..Len(shown) : /\ shown[k].at \in 1..n /\ shown[k].piece \in Nat
                                          /\ shown[k].piece <= sentOf[shown[k].at]
                                          /\ saying[shown[k].at].kind = "text"
            <4>1. shown \in Seq([at : 1..n, piece : Nat])
                BY <1>0 DEF ShownOK
            <4>2. Len(shown) \in Nat
                BY <4>1, LenProperties
            <4>3. \A k \in 1..Len(shown) : shown[k] \in [at : 1..n, piece : Nat]
                BY <4>1, ElementOfSeq
            <4>4. \A k \in 1..Len(shown) : shown[k].piece <= sentOf[shown[k].at] /\ saying[shown[k].at].kind = "text"
                BY <1>0 DEF ShownOK, ShownIsProse
            <4> QED BY <4>1, <4>2, <4>3, <4>4
        <3>1. \A k \in 1..Len(shown) : shown[k].piece <= sentOf'[shown[k].at]
            <4> TAKE k \in 1..Len(shown)
            <4> DEFINE j == shown[k].at
            <4>1. j \in 1..n /\ shown[k].piece \in Nat /\ shown[k].piece <= sentOf[j]
                BY <3>0
            <4> HIDE DEF j
            <4>2. sentOf[j] \in Nat
                BY <2>1a, <4>1
            <4>3. sentOf'[j] = sentOf[j] \/ sentOf'[j] = sentOf[j] + 1
                BY <2>4, <4>1
            <4>4. shown[k].piece <= sentOf'[j]
                BY <4>1, <4>2, <4>3
            <4> QED BY <4>4 DEF j
        <3>2. CASE shown' = shown
            BY <1>0, <2>1, <3>1, <3>2 DEF ShownOK, ShownIsProse
        <3>3. CASE increment_of(f) /\ shown' = Append(shown, [at |-> i, piece |-> sentOf[i] + 1])
            <4>1. saying[i].kind = "text"
                BY <2>3, <3>3 DEF increment_of
            <4> DEFINE e == [at |-> i, piece |-> sentOf[i] + 1]
                       m == Len(shown)
            <4>2. e \in [at : 1..n, piece : Nat] /\ e.at = i /\ e.piece = sentOf'[i] /\ e.piece = sentOf[i] + 1
                BY <2>1a, <2>4
            <4> HIDE DEF e
            <4>3. shown' = Append(shown, e)
                BY <3>3 DEF e
            <4>4. /\ shown' \in Seq([at : 1..n, piece : Nat]) /\ Len(shown') = m + 1
                  /\ \A k \in 1..m : shown'[k] = shown[k]
                  /\ shown'[m + 1] = e
                BY <3>0, <4>2, <4>3, AppendProperties
            <4>5. \A k \in 1..Len(shown') : k \in 1..m \/ k = m + 1
                BY <3>0, <4>4
            <4>6. \A k \in 1..Len(shown') : shown'[k].piece <= sentOf'[shown'[k].at] /\ saying[shown'[k].at].kind = "text"
                <5> TAKE k \in 1..Len(shown')
                <5>1. CASE k = m + 1
                    BY <2>1a, <2>4, <4>1, <4>2, <4>4, <5>1
                <5>2. CASE k \in 1..m
                    BY <3>0, <3>1, <4>4, <5>2
                <5> QED BY <4>5, <5>1, <5>2
            <4>7. ASSUME NEW j \in 1..Len(shown'), NEW k \in 1..Len(shown'), j < k, shown'[j].at = shown'[k].at
                  PROVE  shown'[j].piece < shown'[k].piece
                <5>1. j \in 1..m /\ shown'[j] = shown[j]
                    <6>1. m \in Nat /\ Len(shown') = m + 1
                        BY <3>0, <4>4
                    <6> HIDE DEF m
                    <6>2. j \in 1..m
                        BY <4>7, <6>1
                    <6> QED BY <4>4, <6>2 DEF m
                <5>2. CASE k = m + 1
                    <6>1. shown[j].at = i /\ shown[j].piece <= sentOf[i] /\ shown[j].piece \in Nat
                        BY <3>0, <4>2, <4>4, <4>7, <5>1, <5>2
                    <6>2. shown'[j] = shown[j] /\ shown'[k].piece = sentOf[i] + 1 /\ sentOf[i] \in Nat
                        BY <2>1a, <4>2, <4>4, <5>1, <5>2
                    <6> QED BY ONLY <6>1, <6>2
                <5>3. CASE k \in 1..m
                    BY <1>0, <4>4, <4>7, <5>1, <5>3 DEF ShownIsProse
                <5> QED BY <4>5, <5>2, <5>3
            <4> QED BY <2>1, <4>4, <4>6, <4>7 DEF ShownOK, ShownIsProse
        <3> QED BY <2>2, <3>2, <3>3
    <2> QED BY <2>2, <2>5, <2>6, <2>7 DEF StreamInv, RepliesAreWhole
<1>4. CASE \E r \in {"end", "limit"} : provider_stops(r)
    <2>0. PICK r \in {"end", "limit"} : provider_stops(r)
        BY <1>4
    <2> DEFINE f == Frame("stop", 0, r, 0)
    <2>1. /\ outcome = Waiting /\ why = "none" /\ (r = "end" => AllSent) /\ why' = r
          /\ Arrives(f) /\ UNCHANGED <<dialect, saying, started, sentOf, outcome>>
        BY <2>0 DEF provider_stops, Going
    <2>1a. r \in Kinds /\ 0 \in Nat
        BY DEF Kinds
    <2>2. /\ frames' \in Seq([type : {"start", "delta", "stop"}, at : Nat, kind : Kinds, piece : Nat])
          /\ garbled' \in Nat
          /\ garbled' = 0 => garbled = 0 /\ Collected(frames') = Keep(C, f)
          /\ WholeOrRefused' /\ LimitedIsPrefix'
          /\ shown' = shown \/ increment_of(f)
        BY <2>1, <2>1a, ArrivesIs
    <2>3. f.type = "stop" /\ f.kind = r
        BY DEF Frame
    <2>4. SaidOK'
        BY <1>0, <2>1, <2>2 DEF SaidOK, AllSent
    <2> HIDE DEF f
    <2>5. shown' = shown
        BY <2>2, <2>3 DEF increment_of
    <2>6. HeldOK'
        <3> SUFFICES ASSUME garbled' = 0
                     PROVE  /\ Collected(frames') \in [seen : SUBSET Nat, pieces : [1..MaxBlocks -> Seq(Nat)], stop : Kinds]
                            /\ Collected(frames').seen = started' /\ Collected(frames').stop = why'
                            /\ \A j \in 1..n : Collected(frames').pieces[j] = Counted(sentOf'[j])
            BY <2>1 DEF HeldOK
        <3>1. /\ C \in [seen : SUBSET Nat, pieces : [1..MaxBlocks -> Seq(Nat)], stop : Kinds]
              /\ C.seen = started /\ C.stop = why /\ \A j \in 1..n : C.pieces[j] = Counted(sentOf[j])
            BY <1>0, <2>2 DEF HeldOK
        <3> HIDE DEF C
        <3>2. Collected(frames') = [C EXCEPT !.stop = r]
            BY <2>2, <2>3 DEF Keep
        <3> QED BY <2>1, <2>1a, <2>3, <3>1, <3>2
    <2>7. ShownOK' /\ ShownIsProse'
        BY <1>0, <2>1, <2>5 DEF ShownOK, ShownIsProse
    <2> QED BY <2>2, <2>4, <2>6, <2>7 DEF StreamInv, RepliesAreWhole
<1>5. CASE stream
    <2>1. outcome' = settled_from_stream /\ UNCHANGED <<dialect, saying, started, sentOf, why, frames, garbled, shown>>
        BY <1>5 DEF stream
    <2>2. WholeOrRefused' /\ LimitedIsPrefix'
        BY <1>0, <2>1, StreamAnswers
    <2>3. SaidOK' /\ HeldOK' /\ ShownOK' /\ ShownIsProse'
        BY <1>0, <2>1 DEF SaidOK, HeldOK, ShownOK, ShownIsProse, AllSent
    <2> QED BY <2>2, <2>3 DEF StreamInv, RepliesAreWhole
<1> QED BY <1>2, <1>3, <1>4, <1>5 DEF StreamsNext

LEMMA StreamBegins ==
  ASSUME dialect \in {"anthropic", "openai"}, saying \in Answers(dialect),
         started = {}, sentOf = [i \in 1..Len(saying) |-> 0], why = "none",
         frames = <<>>, garbled = 0, shown = <<>>, outcome = Waiting
  PROVE  StreamInv
<1> DEFINE F == [type : {"start", "delta", "stop"}, at : Nat, kind : Kinds, piece : Nat]
<1>1. <<>> \in Seq(F) /\ <<>> \in Seq([at : 1..Len(saying), piece : Nat]) /\ Len(<<>>) = 0
    BY EmptySeq
<1>2. SaidOK
    <2>1. \A i \in 1..Len(saying) : sentOf[i] <= Len(saying[i].pieces)
        <3>1. saying \in SeqOf(Block, MaxBlocks)
            BY DEF Answers
        <3>2. PICK m \in 0..MaxBlocks : saying \in [1..m -> Block]
            BY <3>1 DEF SeqOf
        <3>3. Len(saying) = m
            BY <3>2, StreamsAssumption
        <3> SUFFICES ASSUME NEW i \in 1..Len(saying) PROVE 0 <= Len(saying[i].pieces)
            OBVIOUS
        <3>4. PICK n \in 1..MaxPieces : saying[i].pieces = Counted(n)
            BY <3>2, <3>3 DEF Block
        <3>5. n \in Nat
            BY StreamsAssumption
        <3> QED BY <3>4, <3>5, CountedIs
    <2> QED BY <1>1, <2>1 DEF SaidOK
<1>3. HeldOK
    <2>1. Collected(frames) = Nothing_
        BY NoneCollected
    <2>2. Counted(0) = <<>> /\ <<>> \in Seq(Nat)
        BY CountedIs, EmptySeq
    <2>3. \A i \in 1..Len(saying) : i \in 1..MaxBlocks
        BY <1>2, SayingIs
    <2> DEFINE none == [i \in 1..MaxBlocks |-> <<>>]
    <2>4. none \in [1..MaxBlocks -> Seq(Nat)]
        BY <2>2
    <2>5. \A i \in 1..Len(saying) : none[i] = <<>> /\ sentOf[i] = 0
        BY <2>3
    <2> HIDE DEF none
    <2>6. Nothing_ = [seen |-> {}, pieces |-> none, stop |-> "none"]
        BY DEF Nothing_, none
    <2>7. "none" \in Kinds /\ {} \in SUBSET Nat
        BY DEF Kinds
    <2>8. /\ Nothing_ \in [seen : SUBSET Nat, pieces : [1..MaxBlocks -> Seq(Nat)], stop : Kinds]
          /\ Nothing_.seen = {} /\ Nothing_.stop = "none" /\ Nothing_.pieces = none
        BY <2>4, <2>6, <2>7
    <2>9. \A i \in 1..Len(saying) : none[i] = Counted(sentOf[i])
        BY <2>2, <2>5
    <2> QED BY <2>1, <2>8, <2>9 DEF HeldOK
<1>4. ShownOK /\ ShownIsProse
    BY <1>1 DEF ShownOK, ShownIsProse
<1>5. WholeOrRefused /\ LimitedIsPrefix
    BY DEF WholeOrRefused, LimitedIsPrefix, Answered
<1> QED BY <1>2, <1>3, <1>4, <1>5 DEF StreamInv, RepliesAreWhole

\* No part of a reply passes for the whole, whichever blocks a provider means
\* to send, in whatever order their pieces come and wherever the stream ends:
\* for any number of blocks, pieces and frames that cannot be read.
THEOREM RepliesAreAlwaysWhole == Spec => []RepliesAreWhole
<1>1. Init => StreamInv
    <2>1. StreamsInit => StreamInv
        BY StreamBegins, StreamsAssumption DEF StreamsInit
    <2>2. StreamAtRest => StreamInv
        <3> SUFFICES ASSUME StreamAtRest PROVE StreamInv
            OBVIOUS
        <3> DEFINE b == [kind |-> "text", pieces |-> <<1>>, signed |-> FALSE]
        <3>1. MaxBlocks \in Nat \ {0} /\ MaxPieces \in Nat \ {0} /\ 1 \in 1..MaxPieces /\ 1 \in 0..MaxBlocks
            BY StreamsAssumption
        <3>2. Counted(1) = <<1>>
            BY DEF Counted
        <3>3. b \in Block
            <4>1. b = [kind |-> "text", pieces |-> Counted(1), signed |-> "text" = "thinking"]
                BY <3>2
            <4>2. "text" \in {"text", "tool", "thinking"}
                OBVIOUS
            <4> HIDE DEF b
            <4> QED BY <3>1, <4>1, <4>2 DEF Block
        <3>3a. saying = <<b>> /\ b.kind = "text"
            BY DEF StreamAtRest
        <3> HIDE DEF b
        <3>4. Len(saying) = 1 /\ saying[1] = b /\ saying \in [1..1 -> Block]
            BY <3>3, <3>3a
        <3>5. saying \in SeqOf(Block, MaxBlocks)
            BY <3>1, <3>4 DEF SeqOf
        <3>6. saying # <<>>
            BY <3>4, EmptySeq
        <3>7. saying \in Answers("openai")
            BY <3>3a, <3>4, <3>5, <3>6 DEF Answers, Sayable
        <3>8. sentOf = [i \in 1..Len(saying) |-> 0]
            BY <3>4 DEF StreamAtRest
        <3> QED BY <3>7, <3>8, StreamBegins DEF StreamAtRest
    <2> QED BY <2>1, <2>2 DEF Init
<1>2. StreamInv /\ [Next]_vars => StreamInv'
    <2> SUFFICES ASSUME StreamInv, [Next]_vars PROVE StreamInv'
        OBVIOUS
    <2>1. CASE StreamsNext
        BY <2>1, StreamStep
    <2>2. CASE UNCHANGED streamVars
        <3>1. UNCHANGED <<dialect, saying, started, sentOf, why, frames, garbled, shown, outcome>>
            BY <2>2 DEF streamVars
        <3>2. SaidOK' /\ HeldOK' /\ ShownOK'
            BY <3>1 DEF StreamInv, SaidOK, HeldOK, ShownOK, AllSent
        <3>3. WholeOrRefused'
            BY <3>1 DEF StreamInv, RepliesAreWhole, WholeOrRefused, Answered, Unsigned
        <3>4. LimitedIsPrefix'
            <4>1. LimitedIsPrefix
                BY DEF StreamInv, RepliesAreWhole
            <4>2. Answered' = Answered /\ garbled' = garbled
                BY <3>1 DEF Answered
            <4>3. CASE ~ (Answered /\ garbled = 0 /\ outcome # NoContent)
                BY <3>1, <4>2, <4>3 DEF LimitedIsPrefix
            <4>4. CASE Answered /\ garbled = 0 /\ outcome # NoContent
                <5>1. PICK at \in [1..Len(outcome) -> 1..Len(saying)] :
                          /\ \A j, k \in 1..Len(outcome) : j < k => at[j] < at[k]
                          /\ \A k \in 1..Len(outcome) :
                                /\ outcome[k].kind = saying[at[k]].kind
                                /\ IsPrefix(outcome[k].pieces, saying[at[k]].pieces)
                                /\ outcome[k].kind = "tool" => outcome[k].pieces \in {<<>>, saying[at[k]].pieces}
                    BY <4>1, <4>4 DEF LimitedIsPrefix
                <5>2. \E how \in [1..Len(outcome') -> 1..Len(saying')] :
                          /\ \A j, k \in 1..Len(outcome') : j < k => how[j] < how[k]
                          /\ \A k \in 1..Len(outcome') :
                                /\ outcome'[k].kind = saying'[how[k]].kind
                                /\ IsPrefix(outcome'[k].pieces, saying'[how[k]].pieces)
                                /\ outcome'[k].kind = "tool" => outcome'[k].pieces \in {<<>>, saying'[how[k]].pieces}
                    BY <3>1, <5>1
                <5> QED BY <5>2 DEF LimitedIsPrefix
            <4> QED BY <4>3, <4>4
        <3>5. ShownIsProse'
            BY <3>1 DEF StreamInv, RepliesAreWhole, ShownIsProse
        <3> QED BY <3>2, <3>3, <3>4, <3>5 DEF StreamInv, RepliesAreWhole
    <2> QED BY <2>1, <2>2 DEF Next, vars, Mcp, Store, Carrying, Ruling, Streaming, Billing,
                              Ordering, Looking
<1>3. StreamInv => RepliesAreWhole
    BY DEF StreamInv
<1> QED BY <1>1, <1>2, <1>3, PTL DEF Spec
=============================================================================
