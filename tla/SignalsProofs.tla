--------------------------- MODULE SignalsProofs ----------------------------
(* What holds of the signals between residents for every city, every number  *)
(* of signals, every capacity of a lane and every bandwidth of a pull.       *)
EXTENDS MCSignals, SequenceTheorems, WellFoundedInduction, TLAPS

\* Every non-empty set of naturals has a least element.
LEMMA SmallestExists ==
  ASSUME NEW T \in SUBSET Nat, T # {}
  PROVE  \E x \in T : \A y \in T : x <= y
<1>1. \E x \in T : \A y \in T : ~ (<<y, x>> \in OpToRel(<, Nat))
  BY NatLessThanWellFounded, WFMin
<1>2. \A x, y \in T : ~ (<<y, x>> \in OpToRel(<, Nat)) => x <= y
  BY DEF OpToRel
<1> QED BY <1>1, <1>2

\* A set that holds 0 and, with each number below n, the next holds all of 0..n.
LEMMA CountedUp ==
  ASSUME NEW n \in Nat, NEW G, 0 \in G,
         \A k \in Nat : k < n /\ k \in G => k + 1 \in G
  PROVE  \A k \in 0..n : k \in G
<1> DEFINE T == {k \in 0..n : k \notin G}
<1>1. T = {}
    <2> SUFFICES ASSUME T # {} PROVE FALSE
        OBVIOUS
    <2>0. T \in SUBSET Nat
        OBVIOUS
    <2>1. PICK k \in T : \A j \in T : k <= j
        BY <2>0, SmallestExists
    <2>2. k \in 0..n /\ k \notin G /\ k # 0
        BY <2>1
    <2>3. k - 1 \in Nat /\ k - 1 < n /\ k - 1 \in 0..n /\ (k - 1) + 1 = k /\ ~ (k <= k - 1)
        BY <2>2
    <2>4. k - 1 \notin T
        <3> HIDE DEF T
        <3> QED BY <2>1, <2>3
    <2> QED BY <2>2, <2>3, <2>4
<1> QED BY <1>1

\* What is delivered is worked out signal by signal.
DeliveredSteps(f, boxes, signals, n) ==
    f = [k \in 0..n |-> IF k = 0 THEN boxes ELSE deliver(f[k - 1], signals[k])]

LEMMA DeliveredExists ==
  ASSUME NEW boxes, NEW signals, NEW n \in Nat
  PROVE  \E f : DeliveredSteps(f, boxes, signals, n)
<1> DEFINE G == {k \in Nat : \E f : DeliveredSteps(f, boxes, signals, k)}
<1>1. 0 \in G
    <2> DEFINE g == [k \in 0..0 |-> boxes]
    <2>1. \A k \in 0..0 : g[k] = IF k = 0 THEN boxes ELSE deliver(g[k - 1], signals[k])
        OBVIOUS
    <2>2. g = [k \in 0..0 |-> g[k]]
        OBVIOUS
    <2>3. DeliveredSteps(g, boxes, signals, 0)
        <3> HIDE DEF g
        <3> QED BY <2>1, <2>2 DEF DeliveredSteps
    <2> QED BY <2>3
<1>2. ASSUME NEW m \in Nat, m \in G PROVE m + 1 \in G
    <2>1. PICK f : DeliveredSteps(f, boxes, signals, m)
        BY <1>2
    <2> DEFINE next(p, k) == deliver(p, signals[k])
               g == [k \in 0..(m + 1) |-> IF k = m + 1 THEN next(f[m], k) ELSE f[k]]
    <2>2. \A k \in 0..(m + 1) : g[k] = IF k = 0 THEN boxes ELSE next(g[k - 1], k)
        <3> SUFFICES ASSUME NEW k \in 0..(m + 1)
                     PROVE  g[k] = IF k = 0 THEN boxes ELSE next(g[k - 1], k)
            OBVIOUS
        <3>1. CASE k = m + 1
            <4>1. k # 0 /\ k - 1 = m /\ m \in 0..(m + 1) /\ m # m + 1
                BY <3>1
            <4>2. g[k - 1] = f[m] /\ g[k] = next(f[m], k)
                BY <3>1, <4>1
            <4> QED BY <4>1, <4>2
        <3>2. CASE k # m + 1
            <4>1. k \in 0..m /\ (k # 0 => k - 1 \in 0..(m + 1) /\ k - 1 # m + 1)
                BY <3>2
            <4>2. f[k] = IF k = 0 THEN boxes ELSE next(f[k - 1], k)
                BY <2>1, <4>1 DEF DeliveredSteps
            <4>3. g[k] = f[k] /\ (k # 0 => g[k - 1] = f[k - 1])
                BY <3>2, <4>1
            <4> HIDE DEF next, g
            <4> QED BY <4>2, <4>3
        <3> QED BY <3>1, <3>2
    <2>3. g = [k \in 0..(m + 1) |-> g[k]]
        OBVIOUS
    <2>4. DeliveredSteps(g, boxes, signals, m + 1)
        <3> HIDE DEF g
        <3> QED BY <2>2, <2>3 DEF DeliveredSteps
    <2> QED BY <2>4
<1> HIDE DEF G
<1>3. \A k \in 0..n : k \in G
    BY <1>1, <1>2, CountedUp
<1>4. n \in G
    BY <1>3
<1> QED BY <1>4 DEF G

LEMMA DeliveredIs ==
  ASSUME NEW boxes, NEW signals, Len(signals) \in Nat
  PROVE  \E f : /\ \A k \in 0..Len(signals) : f[k] = IF k = 0 THEN boxes ELSE deliver(f[k - 1], signals[k])
                /\ Delivered(boxes, signals) = f[Len(signals)]
<1> DEFINE f == CHOOSE f : f = [k \in 0..Len(signals) |-> IF k = 0 THEN boxes ELSE deliver(f[k - 1], signals[k])]
<1>1. \E h : h = [k \in 0..Len(signals) |-> IF k = 0 THEN boxes ELSE deliver(h[k - 1], signals[k])]
    <2>1. \A n \in Nat : \E h : DeliveredSteps(h, boxes, signals, n)
        BY DeliveredExists
    <2>2. \E h : DeliveredSteps(h, boxes, signals, Len(signals))
        BY <2>1
    <2> QED BY <2>2 DEF DeliveredSteps
<1>2. f = [k \in 0..Len(signals) |-> IF k = 0 THEN boxes ELSE deliver(f[k - 1], signals[k])]
    BY <1>1
<1>3. Delivered(boxes, signals) = f[Len(signals)]
    BY DEF Delivered
<1> HIDE DEF f
<1>4. \A k \in 0..Len(signals) : f[k] = IF k = 0 THEN boxes ELSE deliver(f[k - 1], signals[k])
    BY <1>2
<1> QED BY <1>3, <1>4

\* And what was sent line by line.
EnqueuedSteps(f, lines, but, n) ==
    f = [k \in 0..n |-> IF k = 0 THEN <<>> ELSE IF lines[k].op = "enqueued" /\ lines[k].signal.id \notin but THEN Append(f[k - 1], lines[k].signal) ELSE f[k - 1]]

LEMMA EnqueuedExists ==
  ASSUME NEW lines, NEW but, NEW n \in Nat
  PROVE  \E f : EnqueuedSteps(f, lines, but, n)
<1> DEFINE G == {k \in Nat : \E f : EnqueuedSteps(f, lines, but, k)}
<1>1. 0 \in G
    <2> DEFINE g == [k \in 0..0 |-> <<>>]
    <2>1. \A k \in 0..0 : g[k] = IF k = 0 THEN <<>> ELSE IF lines[k].op = "enqueued" /\ lines[k].signal.id \notin but THEN Append(g[k - 1], lines[k].signal) ELSE g[k - 1]
        OBVIOUS
    <2>2. g = [k \in 0..0 |-> g[k]]
        OBVIOUS
    <2>3. EnqueuedSteps(g, lines, but, 0)
        <3> HIDE DEF g
        <3> QED BY <2>1, <2>2 DEF EnqueuedSteps
    <2> QED BY <2>3
<1>2. ASSUME NEW m \in Nat, m \in G PROVE m + 1 \in G
    <2>1. PICK f : EnqueuedSteps(f, lines, but, m)
        BY <1>2
    <2> DEFINE next(p, k) == IF lines[k].op = "enqueued" /\ lines[k].signal.id \notin but THEN Append(p, lines[k].signal) ELSE p
               g == [k \in 0..(m + 1) |-> IF k = m + 1 THEN next(f[m], k) ELSE f[k]]
    <2>2. \A k \in 0..(m + 1) : g[k] = IF k = 0 THEN <<>> ELSE next(g[k - 1], k)
        <3> SUFFICES ASSUME NEW k \in 0..(m + 1)
                     PROVE  g[k] = IF k = 0 THEN <<>> ELSE next(g[k - 1], k)
            OBVIOUS
        <3>1. CASE k = m + 1
            <4>1. k # 0 /\ k - 1 = m /\ m \in 0..(m + 1) /\ m # m + 1
                BY <3>1
            <4>2. g[k - 1] = f[m] /\ g[k] = next(f[m], k)
                BY <3>1, <4>1
            <4> QED BY <4>1, <4>2
        <3>2. CASE k # m + 1
            <4>1. k \in 0..m /\ (k # 0 => k - 1 \in 0..(m + 1) /\ k - 1 # m + 1)
                BY <3>2
            <4>2. f[k] = IF k = 0 THEN <<>> ELSE next(f[k - 1], k)
                BY <2>1, <4>1 DEF EnqueuedSteps
            <4>3. g[k] = f[k] /\ (k # 0 => g[k - 1] = f[k - 1])
                BY <3>2, <4>1
            <4> HIDE DEF next, g
            <4> QED BY <4>2, <4>3
        <3> QED BY <3>1, <3>2
    <2>3. g = [k \in 0..(m + 1) |-> g[k]]
        OBVIOUS
    <2>4. EnqueuedSteps(g, lines, but, m + 1)
        <3> HIDE DEF g
        <3> QED BY <2>2, <2>3 DEF EnqueuedSteps
    <2> QED BY <2>4
<1> HIDE DEF G
<1>3. \A k \in 0..n : k \in G
    BY <1>1, <1>2, CountedUp
<1>4. n \in G
    BY <1>3
<1> QED BY <1>4 DEF G

LEMMA EnqueuedIs ==
  ASSUME NEW lines, NEW but, Len(lines) \in Nat
  PROVE  \E f : /\ \A k \in 0..Len(lines) : f[k] = IF k = 0 THEN <<>> ELSE IF lines[k].op = "enqueued" /\ lines[k].signal.id \notin but THEN Append(f[k - 1], lines[k].signal) ELSE f[k - 1]
                /\ Enqueued(lines, but) = f[Len(lines)]
<1> DEFINE f == CHOOSE f : f = [k \in 0..Len(lines) |-> IF k = 0 THEN <<>> ELSE IF lines[k].op = "enqueued" /\ lines[k].signal.id \notin but THEN Append(f[k - 1], lines[k].signal) ELSE f[k - 1]]
<1>1. \E h : h = [k \in 0..Len(lines) |-> IF k = 0 THEN <<>> ELSE IF lines[k].op = "enqueued" /\ lines[k].signal.id \notin but THEN Append(h[k - 1], lines[k].signal) ELSE h[k - 1]]
    <2>1. \A n \in Nat : \E h : EnqueuedSteps(h, lines, but, n)
        BY EnqueuedExists
    <2>2. \E h : EnqueuedSteps(h, lines, but, Len(lines))
        BY <2>1
    <2> QED BY <2>2 DEF EnqueuedSteps
<1>2. f = [k \in 0..Len(lines) |-> IF k = 0 THEN <<>> ELSE IF lines[k].op = "enqueued" /\ lines[k].signal.id \notin but THEN Append(f[k - 1], lines[k].signal) ELSE f[k - 1]]
    BY <1>1
<1>3. Enqueued(lines, but) = f[Len(lines)]
    BY DEF Enqueued
<1> HIDE DEF f
<1>4. \A k \in 0..Len(lines) : f[k] = IF k = 0 THEN <<>> ELSE IF lines[k].op = "enqueued" /\ lines[k].signal.id \notin but THEN Append(f[k - 1], lines[k].signal) ELSE f[k - 1]
    BY <1>2
<1> QED BY <1>3, <1>4

\* And who is knocked for word by word.
SettledSteps(f, spoken, n) ==
    f = [k \in 0..n |-> IF k = 0 THEN knocks ELSE Knocked(f[k - 1], at, spoken[k])]

LEMMA SettledExists ==
  ASSUME NEW spoken, NEW n \in Nat
  PROVE  \E f : SettledSteps(f, spoken, n)
<1> DEFINE G == {k \in Nat : \E f : SettledSteps(f, spoken, k)}
<1>1. 0 \in G
    <2> DEFINE g == [k \in 0..0 |-> knocks]
    <2>1. \A k \in 0..0 : g[k] = IF k = 0 THEN knocks ELSE Knocked(g[k - 1], at, spoken[k])
        OBVIOUS
    <2>2. g = [k \in 0..0 |-> g[k]]
        OBVIOUS
    <2>3. SettledSteps(g, spoken, 0)
        <3> HIDE DEF g
        <3> QED BY <2>1, <2>2 DEF SettledSteps
    <2> QED BY <2>3
<1>2. ASSUME NEW m \in Nat, m \in G PROVE m + 1 \in G
    <2>1. PICK f : SettledSteps(f, spoken, m)
        BY <1>2
    <2> DEFINE next(p, k) == Knocked(p, at, spoken[k])
               g == [k \in 0..(m + 1) |-> IF k = m + 1 THEN next(f[m], k) ELSE f[k]]
    <2>2. \A k \in 0..(m + 1) : g[k] = IF k = 0 THEN knocks ELSE next(g[k - 1], k)
        <3> SUFFICES ASSUME NEW k \in 0..(m + 1)
                     PROVE  g[k] = IF k = 0 THEN knocks ELSE next(g[k - 1], k)
            OBVIOUS
        <3>1. CASE k = m + 1
            <4>1. k # 0 /\ k - 1 = m /\ m \in 0..(m + 1) /\ m # m + 1
                BY <3>1
            <4>2. g[k - 1] = f[m] /\ g[k] = next(f[m], k)
                BY <3>1, <4>1
            <4> QED BY <4>1, <4>2
        <3>2. CASE k # m + 1
            <4>1. k \in 0..m /\ (k # 0 => k - 1 \in 0..(m + 1) /\ k - 1 # m + 1)
                BY <3>2
            <4>2. f[k] = IF k = 0 THEN knocks ELSE next(f[k - 1], k)
                BY <2>1, <4>1 DEF SettledSteps
            <4>3. g[k] = f[k] /\ (k # 0 => g[k - 1] = f[k - 1])
                BY <3>2, <4>1
            <4> HIDE DEF next, g
            <4> QED BY <4>2, <4>3
        <3> QED BY <3>1, <3>2
    <2>3. g = [k \in 0..(m + 1) |-> g[k]]
        OBVIOUS
    <2>4. SettledSteps(g, spoken, m + 1)
        <3> HIDE DEF g
        <3> QED BY <2>2, <2>3 DEF SettledSteps
    <2> QED BY <2>4
<1> HIDE DEF G
<1>3. \A k \in 0..n : k \in G
    BY <1>1, <1>2, CountedUp
<1>4. n \in G
    BY <1>3
<1> QED BY <1>4 DEF G

LEMMA SettledIs ==
  ASSUME NEW spoken, Len(spoken) \in Nat
  PROVE  \E f : /\ \A k \in 0..Len(spoken) : f[k] = IF k = 0 THEN knocks ELSE Knocked(f[k - 1], at, spoken[k])
                /\ Settled(spoken) = f[Len(spoken)]
<1> DEFINE f == CHOOSE f : f = [k \in 0..Len(spoken) |-> IF k = 0 THEN knocks ELSE Knocked(f[k - 1], at, spoken[k])]
<1>1. \E h : h = [k \in 0..Len(spoken) |-> IF k = 0 THEN knocks ELSE Knocked(h[k - 1], at, spoken[k])]
    <2>1. \A n \in Nat : \E h : SettledSteps(h, spoken, n)
        BY SettledExists
    <2>2. \E h : SettledSteps(h, spoken, Len(spoken))
        BY <2>1
    <2> QED BY <2>2 DEF SettledSteps
<1>2. f = [k \in 0..Len(spoken) |-> IF k = 0 THEN knocks ELSE Knocked(f[k - 1], at, spoken[k])]
    BY <1>1
<1>3. Settled(spoken) = f[Len(spoken)]
    BY DEF Settled
<1> HIDE DEF f
<1>4. \A k \in 0..Len(spoken) : f[k] = IF k = 0 THEN knocks ELSE Knocked(f[k - 1], at, spoken[k])
    BY <1>2
<1> QED BY <1>3, <1>4

-----------------------------------------------------------------------------
(* Queues. A signal's id says when it was sent, so that a queue in order is  *)
(* settled by what stands in it.                                             *)

AllBoxes == [Addresses -> [Lanes -> Seq(Signal)]]

InTurn(q) == \A i, j \in 1..Len(q) : i < j => q[i].id < q[j].id

Stands(s, q) == \E i \in 1..Len(q) : q[i] = s

Says(l, op, s) == \E i \in 1..Len(l) : l[i].op = op /\ l[i].signal = s

SentInTurn(l) ==
    \A i, j \in 1..Len(l) :
        i < j /\ l[i].op = "enqueued" /\ l[j].op = "enqueued" => l[i].signal.id < l[j].signal.id

LEMMA SignalIs ==
  ASSUME NEW s \in Signal
  PROVE  s.id \in Nat /\ s.id \in 1..MaxSignals /\ s.room \in Addresses /\ s.lane \in Lanes
BY SignalsAssumption DEF Signal

LEMMA QueueIs ==
  ASSUME NEW q \in Seq(Signal)
  PROVE  /\ Len(q) \in Nat /\ \A i \in 1..Len(q) : q[i] \in Signal /\ Stands(q[i], q)
         /\ \A s : Stands(s, q) => s \in Signal
BY LenProperties, ElementOfSeq DEF Stands

LEMMA NoneStands ==
  /\ <<>> \in Seq(Signal) /\ Len(<<>>) = 0 /\ InTurn(<<>>) /\ \A s : ~ Stands(s, <<>>)
  /\ \A op, s : ~ Says(<<>>, op, s)
<1>1. <<>> \in Seq(Signal) /\ Len(<<>>) = 0
    BY EmptySeq
<1> QED BY <1>1 DEF InTurn, Stands, Says

LEMMA InTurnAppend ==
  ASSUME NEW q \in Seq(Signal), NEW s \in Signal, InTurn(q), \A t : Stands(t, q) => t.id < s.id
  PROVE  /\ Append(q, s) \in Seq(Signal) /\ InTurn(Append(q, s)) /\ Len(Append(q, s)) = Len(q) + 1
         /\ Append(q, s)[Len(q) + 1] = s
         /\ \A i \in 1..Len(q) : Append(q, s)[i] = q[i]
         /\ \A t : Stands(t, Append(q, s)) <=> Stands(t, q) \/ t = s
<1> DEFINE a == Append(q, s)
           m == Len(q)
<1>1. /\ a \in Seq(Signal) /\ Len(a) = m + 1 /\ m \in Nat
      /\ a[m + 1] = s /\ \A i \in 1..m : a[i] = q[i]
    BY AppendProperties, LenProperties
<1> HIDE DEF a, m
<1>2. /\ \A i \in 1..Len(a) : i \in 1..m \/ i = m + 1
      /\ \A i \in 1..m : i \in 1..Len(a)
      /\ m + 1 \in 1..Len(a)
    BY <1>1
<1>3. \A t : Stands(t, a) <=> Stands(t, q) \/ t = s
    BY <1>1, <1>2 DEF Stands, m
<1>4. InTurn(a)
    <2> SUFFICES ASSUME NEW i \in 1..Len(a), NEW j \in 1..Len(a), i < j PROVE a[i].id < a[j].id
        BY DEF InTurn
    <2>1. i \in 1..m
        BY <1>1
    <2>2. CASE j \in 1..m
        BY <1>1, <2>1, <2>2 DEF InTurn, m
    <2>3. CASE j = m + 1
        BY <1>1, <2>1, <2>3 DEF Stands, m
    <2> QED BY <1>2, <2>2, <2>3
<1> QED BY <1>1, <1>3, <1>4 DEF a, m

\* One queue within another: no signal of it stands sooner there.
LEMMA StandsLater ==
  ASSUME NEW a \in Seq(Signal), NEW q \in Seq(Signal), InTurn(a), InTurn(q),
         \A s : Stands(s, a) => Stands(s, q)
  PROVE  \A i \in 1..Len(a), j \in 1..Len(q) : a[i] = q[j] => i <= j
<1> DEFINE n == Len(a)
           m == Len(q)
           G == {k \in 0..n : k = 0 \/ \A j \in 1..m : a[k] = q[j] => k <= j}
<1>1. n \in Nat /\ m \in Nat /\ \A i \in 1..n : a[i] \in Signal /\ Stands(a[i], q)
    BY QueueIs
<1>2. 0 \in G
    BY <1>1
<1>3. ASSUME NEW k \in Nat, k < n, k \in G PROVE k + 1 \in G
    <2> SUFFICES ASSUME NEW j \in 1..m, a[k + 1] = q[j] PROVE k + 1 <= j
        BY <1>1, <1>3
    <2>1. CASE k = 0
        BY <1>1, <2>1
    <2>2. CASE k # 0
        <3>1. k \in 1..n /\ k + 1 \in 1..n /\ k < k + 1
            BY <1>1, <1>3, <2>2
        <3>2. PICK i \in 1..m : q[i] = a[k]
            BY <1>1, <3>1 DEF Stands
        <3>3. k <= i
            BY <1>3, <2>2, <3>2
        <3>4. a[k].id < a[k + 1].id /\ a[k].id \in Nat /\ a[k + 1].id \in Nat
            BY <1>1, <3>1, SignalIs DEF InTurn
        <3>5. ~ (j <= i)
            <4>1. j < i => q[j].id < q[i].id
                BY DEF InTurn
            <4>2. j # i
                BY <3>2, <3>4
            <4>3. ~ (j < i)
                BY <4>1, <3>2, <3>4
            <4> QED BY <1>1, <4>2, <4>3
        <3> QED BY <1>1, <3>3, <3>5
    <2> QED BY <2>1, <2>2
<1> HIDE DEF G
<1>4. \A k \in 0..n : k \in G
    BY <1>1, <1>2, <1>3, CountedUp
<1> SUFFICES ASSUME NEW i \in 1..n, NEW j \in 1..m, a[i] = q[j] PROVE i <= j
    OBVIOUS
<1>5. i \in 0..n /\ i # 0
    BY <1>1
<1> QED BY <1>4, <1>5 DEF G

LEMMA SameQueue ==
  ASSUME NEW a \in Seq(Signal), NEW q \in Seq(Signal), InTurn(a), InTurn(q),
         \A s : Stands(s, a) <=> Stands(s, q)
  PROVE  a = q
<1>1. Len(a) \in Nat /\ Len(q) \in Nat
    BY QueueIs
<1>2. \A i \in 1..Len(a), j \in 1..Len(q) : a[i] = q[j] => i <= j
    BY StandsLater
<1>3. \A i \in 1..Len(q), j \in 1..Len(a) : q[i] = a[j] => i <= j
    BY StandsLater
<1>4. \A i \in 1..Len(a) : i \in 1..Len(q) /\ a[i] = q[i]
    <2> TAKE i \in 1..Len(a)
    <2>1. PICK j \in 1..Len(q) : q[j] = a[i]
        BY DEF Stands
    <2> QED BY <1>1, <1>2, <1>3, <2>1
<1>5. \A i \in 1..Len(q) : i \in 1..Len(a)
    <2> TAKE i \in 1..Len(q)
    <2>1. PICK j \in 1..Len(a) : a[j] = q[i]
        BY DEF Stands
    <2> QED BY <1>1, <1>2, <1>3, <2>1
<1>6. Len(a) = Len(q)
    BY <1>1, <1>4, <1>5
<1> QED BY <1>4, <1>6, SeqEqual

LEMMA Fewer ==
  ASSUME NEW a \in Seq(Signal), NEW q \in Seq(Signal), NEW s \in Signal, InTurn(a), InTurn(q),
         \A t : Stands(t, a) => Stands(t, q) /\ t.id < s.id, Stands(s, q)
  PROVE  Len(a) < Len(q)
<1> DEFINE b == Append(a, s)
<1>1. /\ b \in Seq(Signal) /\ InTurn(b) /\ Len(b) = Len(a) + 1 /\ b[Len(a) + 1] = s
      /\ \A t : Stands(t, b) => Stands(t, q)
    BY InTurnAppend
<1> HIDE DEF b
<1>2. \A i \in 1..Len(b), j \in 1..Len(q) : b[i] = q[j] => i <= j
    BY <1>1, StandsLater
<1>3. PICK j \in 1..Len(q) : q[j] = s
    BY DEF Stands
<1>4. Len(a) \in Nat /\ Len(q) \in Nat /\ Len(a) + 1 \in 1..Len(b)
    BY <1>1, QueueIs
<1>5. Len(a) + 1 <= j
    BY <1>1, <1>2, <1>3, <1>4
<1> QED BY <1>4, <1>5

\* Every lane is in order, holds no more than its capacity, and only what was
\* sent there.
QueuesOK(boxes) ==
    \A r \in Addresses, l \in Lanes :
        /\ InTurn(boxes[r][l]) /\ Len(boxes[r][l]) <= Capacity
        /\ \A s : Stands(s, boxes[r][l]) => s.room = r /\ s.lane = l

LEMMA DeliverIs ==
  ASSUME NEW boxes \in AllBoxes, NEW s \in Signal
  PROVE  /\ deliver(boxes, s) \in AllBoxes
         /\ \A r \in Addresses, l \in Lanes :
               deliver(boxes, s)[r][l] =
                 IF r = s.room /\ l = s.lane /\ Len(boxes[r][l]) < Capacity
                   THEN Append(boxes[r][l], s) ELSE boxes[r][l]
<1> DEFINE q == boxes[s.room][s.lane]
           more == [boxes EXCEPT ![s.room][s.lane] = Append(q, s)]
<1>1. s.room \in Addresses /\ s.lane \in Lanes /\ q \in Seq(Signal)
    BY SignalIs DEF AllBoxes
<1>2. Append(q, s) \in Seq(Signal)
    BY <1>1, AppendProperties
<1>3. CASE Len(q) < Capacity
    <2>1. deliver(boxes, s) = more
        BY <1>3 DEF deliver
    <2>2. more = [boxes EXCEPT ![s.room] = [boxes[s.room] EXCEPT ![s.lane] = Append(q, s)]]
        OBVIOUS
    <2>3. [boxes[s.room] EXCEPT ![s.lane] = Append(q, s)] \in [Lanes -> Seq(Signal)]
        BY <1>1, <1>2 DEF AllBoxes
    <2>4. more \in AllBoxes
        BY <1>1, <2>2, <2>3 DEF AllBoxes
    <2>5. ASSUME NEW r \in Addresses, NEW l \in Lanes
          PROVE  more[r][l] = IF r = s.room /\ l = s.lane THEN Append(boxes[r][l], s) ELSE boxes[r][l]
        BY <1>1, <2>2 DEF AllBoxes
    <2> HIDE DEF more
    <2> QED BY <1>3, <2>1, <2>4, <2>5
<1>4. CASE ~ (Len(q) < Capacity)
    <2>1. deliver(boxes, s) = boxes
        BY <1>4 DEF deliver
    <2> QED BY <1>4, <2>1
<1> QED BY <1>3, <1>4

\* What one more signal makes of well-kept queues.
LEMMA DeliverKeeps ==
  ASSUME NEW boxes \in AllBoxes, NEW s \in Signal, QueuesOK(boxes),
         \A r \in Addresses, l \in Lanes : \A t : Stands(t, boxes[r][l]) => t.id < s.id
  PROVE  /\ deliver(boxes, s) \in AllBoxes /\ QueuesOK(deliver(boxes, s))
         /\ \A r \in Addresses, l \in Lanes : \A t :
               /\ Stands(t, boxes[r][l]) => Stands(t, deliver(boxes, s)[r][l])
               /\ Stands(t, deliver(boxes, s)[r][l]) => Stands(t, boxes[r][l]) \/ (t = s /\ r = s.room /\ l = s.lane)
         /\ Len(boxes[s.room][s.lane]) < Capacity => Stands(s, deliver(boxes, s)[s.room][s.lane])
<1> DEFINE D == deliver(boxes, s)
<1>1. /\ D \in AllBoxes
      /\ \A r \in Addresses, l \in Lanes :
            D[r][l] = IF r = s.room /\ l = s.lane /\ Len(boxes[r][l]) < Capacity
                        THEN Append(boxes[r][l], s) ELSE boxes[r][l]
    BY DeliverIs
<1> HIDE DEF D
<1>2. s.room \in Addresses /\ s.lane \in Lanes
    BY SignalIs
<1>3. ASSUME NEW r \in Addresses, NEW l \in Lanes
      PROVE  /\ InTurn(D[r][l]) /\ Len(D[r][l]) <= Capacity
             /\ \A t : /\ Stands(t, D[r][l]) => t.room = r /\ t.lane = l
                       /\ Stands(t, boxes[r][l]) => Stands(t, D[r][l])
                       /\ Stands(t, D[r][l]) => Stands(t, boxes[r][l]) \/ (t = s /\ r = s.room /\ l = s.lane)
             /\ r = s.room /\ l = s.lane /\ Len(boxes[r][l]) < Capacity => Stands(s, D[r][l])
    <2> DEFINE q == boxes[r][l]
    <2>1. /\ q \in Seq(Signal) /\ InTurn(q) /\ Len(q) <= Capacity /\ Len(q) \in Nat
          /\ \A t : Stands(t, q) => t.room = r /\ t.lane = l /\ t.id < s.id
        BY QueueIs DEF AllBoxes, QueuesOK
    <2>2. D[r][l] = IF r = s.room /\ l = s.lane /\ Len(q) < Capacity THEN Append(q, s) ELSE q
        BY <1>1
    <2> HIDE DEF q
    <2>3. CASE r = s.room /\ l = s.lane /\ Len(q) < Capacity
        <3>1. D[r][l] = Append(q, s)
            BY <2>2, <2>3
        <3>2. /\ InTurn(Append(q, s)) /\ Len(Append(q, s)) = Len(q) + 1
              /\ \A t : Stands(t, Append(q, s)) <=> Stands(t, q) \/ t = s
            BY <2>1, InTurnAppend
        <3>3. Len(q) + 1 <= Capacity
            BY <2>1, <2>3, SignalsAssumption
        <3> QED BY <2>1, <2>3, <3>1, <3>2, <3>3 DEF q
    <2>4. CASE ~ (r = s.room /\ l = s.lane /\ Len(q) < Capacity)
        BY <2>1, <2>2, <2>4 DEF q
    <2> QED BY <2>3, <2>4
<1>4. QueuesOK(D)
    BY <1>3 DEF QueuesOK
<1> QED BY <1>1, <1>2, <1>3, <1>4 DEF D

\* What a run of signals makes of them, each newer than all that stands there.
LEMMA DeliveredKeeps ==
  ASSUME NEW boxes \in AllBoxes, NEW signals \in Seq(Signal), QueuesOK(boxes), InTurn(signals),
         \A r \in Addresses, l \in Lanes : \A t, s :
             Stands(t, boxes[r][l]) /\ Stands(s, signals) => t.id < s.id
  PROVE  /\ Delivered(boxes, signals) \in AllBoxes /\ QueuesOK(Delivered(boxes, signals))
         /\ \A r \in Addresses, l \in Lanes : \A t :
               /\ Stands(t, boxes[r][l]) => Stands(t, Delivered(boxes, signals)[r][l])
               /\ Stands(t, Delivered(boxes, signals)[r][l]) =>
                    Stands(t, boxes[r][l]) \/ (Stands(t, signals) /\ r = t.room /\ l = t.lane)
<1> DEFINE n == Len(signals)
<1>1. n \in Nat /\ \A k \in 1..n : signals[k] \in Signal /\ Stands(signals[k], signals)
    BY QueueIs
<1>2. PICK f : /\ \A k \in 0..n : f[k] = IF k = 0 THEN boxes ELSE deliver(f[k - 1], signals[k])
               /\ Delivered(boxes, signals) = f[n]
    BY <1>1, DeliveredIs
<1> DEFINE Good(k) ==
             /\ f[k] \in AllBoxes /\ QueuesOK(f[k])
             /\ \A r \in Addresses, l \in Lanes : \A t :
                   /\ Stands(t, boxes[r][l]) => Stands(t, f[k][r][l])
                   /\ Stands(t, f[k][r][l]) =>
                        \/ Stands(t, boxes[r][l])
                        \/ \E i \in 1..n : i <= k /\ t = signals[i] /\ r = t.room /\ l = t.lane
           G == {k \in 0..n : Good(k)}
<1>3. 0 \in G
    <2>1. f[0] = boxes /\ 0 \in 0..n
        BY <1>1, <1>2
    <2> QED BY <2>1
<1>4. ASSUME NEW k \in Nat, k < n, k \in G PROVE k + 1 \in G
    <2> DEFINE s == signals[k + 1]
               b == f[k]
    <2>1. /\ k + 1 \in 1..n /\ k + 1 \in 0..n /\ k + 1 # 0 /\ k + 1 - 1 = k
          /\ s \in Signal /\ Stands(s, signals)
        BY <1>1, <1>4
    <2>2. f[k + 1] = deliver(b, s)
        BY <1>2, <2>1
    <2>3. b \in AllBoxes /\ QueuesOK(b) /\ Good(k)
        BY <1>4
    <2>4. \A r \in Addresses, l \in Lanes : \A t : Stands(t, b[r][l]) => t.id < s.id
        <3> SUFFICES ASSUME NEW r \in Addresses, NEW l \in Lanes, NEW t, Stands(t, b[r][l]) PROVE t.id < s.id
            OBVIOUS
        <3>1. CASE Stands(t, boxes[r][l])
            BY <2>1, <3>1
        <3>2. CASE \E i \in 1..n : i <= k /\ t = signals[i]
            <4>1. PICK i \in 1..n : i <= k /\ t = signals[i]
                BY <3>2
            <4>2. i < k + 1
                BY <4>1
            <4> QED BY <2>1, <4>1, <4>2 DEF InTurn
        <3> QED BY <2>3, <3>1, <3>2
    <2> HIDE DEF b, s
    <2>5. /\ deliver(b, s) \in AllBoxes /\ QueuesOK(deliver(b, s))
          /\ \A r \in Addresses, l \in Lanes : \A t :
               /\ Stands(t, b[r][l]) => Stands(t, deliver(b, s)[r][l])
               /\ Stands(t, deliver(b, s)[r][l]) => Stands(t, b[r][l]) \/ (t = s /\ r = s.room /\ l = s.lane)
        BY <2>1, <2>3, <2>4, DeliverKeeps
    <2>6. \A r \in Addresses, l \in Lanes : \A t :
               /\ Stands(t, boxes[r][l]) => Stands(t, f[k + 1][r][l])
               /\ Stands(t, f[k + 1][r][l]) =>
                        \/ Stands(t, boxes[r][l])
                        \/ \E i \in 1..n : i <= k + 1 /\ t = signals[i] /\ r = t.room /\ l = t.lane
        <3> SUFFICES ASSUME NEW r \in Addresses, NEW l \in Lanes, NEW t
                     PROVE  /\ Stands(t, boxes[r][l]) => Stands(t, f[k + 1][r][l])
                            /\ Stands(t, f[k + 1][r][l]) =>
                                  \/ Stands(t, boxes[r][l])
                                  \/ \E i \in 1..n : i <= k + 1 /\ t = signals[i] /\ r = t.room /\ l = t.lane
            OBVIOUS
        <3>1. /\ Stands(t, boxes[r][l]) => Stands(t, b[r][l])
              /\ Stands(t, b[r][l]) =>
                        \/ Stands(t, boxes[r][l])
                        \/ \E i \in 1..n : i <= k /\ t = signals[i] /\ r = t.room /\ l = t.lane
            BY <2>3 DEF b
        <3>2. \A i \in 1..n : i <= k => i <= k + 1
            BY <1>1
        <3> QED BY <2>1, <2>2, <2>5, <3>1, <3>2 DEF s
    <2> QED BY <2>1, <2>2, <2>5, <2>6
<1> HIDE DEF G
<1>5. \A k \in 0..n : k \in G
    BY <1>1, <1>3, <1>4, CountedUp
<1>6. Good(n)
    BY <1>1, <1>5 DEF G
<1>7. \A t : (\E i \in 1..n : i <= n /\ t = signals[i]) => Stands(t, signals)
    BY DEF Stands
<1> QED BY <1>2, <1>6, <1>7

\* It is one of the first k.
Sooner(t, signals, k) == \E i \in 1..Len(signals) : i <= k /\ t = signals[i]

\* Where there is room for all of them, none is shed.
LEMMA NoneIsShed ==
  ASSUME NEW boxes \in AllBoxes, NEW signals \in Seq(Signal), InTurn(signals), QueuesOK(boxes),
         \A s : Stands(s, signals) => Stands(s, boxes[s.room][s.lane])
  PROVE  \A s : Stands(s, signals) => Stands(s, Delivered(Empty, signals)[s.room][s.lane])
<1> DEFINE n == Len(signals)
<1>1. n \in Nat /\ \A k \in 1..n : signals[k] \in Signal /\ Stands(signals[k], signals)
    BY QueueIs
<1>2. PICK f : /\ \A k \in 0..n : f[k] = IF k = 0 THEN Empty ELSE deliver(f[k - 1], signals[k])
               /\ Delivered(Empty, signals) = f[n]
    BY <1>1, DeliveredIs
<1> DEFINE Good(k) ==
             /\ f[k] \in AllBoxes /\ QueuesOK(f[k])
             /\ \A r \in Addresses, l \in Lanes : \A t :
                   Stands(t, f[k][r][l]) => Sooner(t, signals, k)
             /\ \A i \in 1..n : i <= k => Stands(signals[i], f[k][signals[i].room][signals[i].lane])
           G == {k \in 0..n : Good(k)}
<1>3. 0 \in G
    <2>1. f[0] = Empty /\ 0 \in 0..n /\ \A i \in 1..n : ~ (i <= 0)
        BY <1>1, <1>2
    <2>2. \A r \in Addresses, l \in Lanes : Empty[r][l] = <<>>
        BY DEF Empty, NoSignals
    <2>3. Empty \in AllBoxes
        BY NoneStands DEF Empty, NoSignals, AllBoxes
    <2>4. 0 <= Capacity
        BY SignalsAssumption
    <2>5. QueuesOK(Empty)
        BY <2>2, <2>4, NoneStands DEF QueuesOK
    <2> QED BY <2>1, <2>2, <2>3, <2>5, NoneStands
<1>4. ASSUME NEW k \in Nat, k < n, k \in G PROVE k + 1 \in G
    <2> DEFINE s == signals[k + 1]
               b == f[k]
    <2>1. /\ k + 1 \in 1..n /\ k + 1 \in 0..n /\ k + 1 # 0 /\ k + 1 - 1 = k
          /\ s \in Signal /\ Stands(s, signals) /\ s.room \in Addresses /\ s.lane \in Lanes
        BY <1>1, <1>4, SignalIs
    <2>2. f[k + 1] = deliver(b, s)
        BY <1>2, <2>1
    <2>3. /\ b \in AllBoxes /\ QueuesOK(b)
          /\ \A r \in Addresses, l \in Lanes : \A t :
                   Stands(t, b[r][l]) => Sooner(t, signals, k)
          /\ \A i \in 1..n : i <= k => Stands(signals[i], b[signals[i].room][signals[i].lane])
        BY <1>4
    <2>4. \A r \in Addresses, l \in Lanes : \A t : Stands(t, b[r][l]) => t.id < s.id
        <3> SUFFICES ASSUME NEW r \in Addresses, NEW l \in Lanes, NEW t, Stands(t, b[r][l]) PROVE t.id < s.id
            OBVIOUS
        <3>0. Sooner(t, signals, k)
            BY <2>3
        <3>1. PICK i \in 1..n : i <= k /\ t = signals[i]
            BY <3>0 DEF Sooner
        <3>2. i < k + 1
            BY <3>1
        <3> QED BY <2>1, <3>1, <3>2 DEF InTurn
    <2>a. \A i \in 1..n : i <= k + 1 => i <= k \/ i = k + 1
        BY <1>1
    <2>b. \A i \in 1..n : i <= k => i <= k + 1
        BY <1>1
    <2>c. s = signals[k + 1]
        OBVIOUS
    <2> HIDE DEF b, s
    <2>5. Len(b[s.room][s.lane]) < Capacity
        <3> DEFINE a == b[s.room][s.lane]
                   q == boxes[s.room][s.lane]
        <3>1. /\ a \in Seq(Signal) /\ q \in Seq(Signal) /\ InTurn(a) /\ InTurn(q) /\ Len(q) <= Capacity
              /\ \A t : Stands(t, a) => t.room = s.room /\ t.lane = s.lane /\ t.id < s.id
            BY <2>1, <2>3, <2>4 DEF AllBoxes, QueuesOK
        <3>2. Stands(s, q)
            BY <2>1
        <3>3. \A t : Stands(t, a) => Stands(t, q)
            <4> SUFFICES ASSUME NEW t, Stands(t, a) PROVE Stands(t, q)
                OBVIOUS
            <4>1. Sooner(t, signals, k)
                BY <2>1, <2>3
            <4>2. Stands(t, signals)
                BY <1>1, <4>1 DEF Sooner
            <4> QED BY <3>1, <4>2
        <3> HIDE DEF a, q
        <3>4. Len(a) < Len(q)
            BY <2>1, <3>1, <3>2, <3>3, Fewer
        <3>5. Len(a) \in Nat /\ Len(q) \in Nat
            BY <3>1, QueueIs
        <3>6. Len(a) < Capacity
            BY <3>1, <3>4, <3>5, SignalsAssumption
        <3> QED BY <3>6 DEF a
    <2>6. /\ deliver(b, s) \in AllBoxes /\ QueuesOK(deliver(b, s))
          /\ \A r \in Addresses, l \in Lanes : \A t :
               /\ Stands(t, b[r][l]) => Stands(t, deliver(b, s)[r][l])
               /\ Stands(t, deliver(b, s)[r][l]) => Stands(t, b[r][l]) \/ (t = s /\ r = s.room /\ l = s.lane)
          /\ Stands(s, deliver(b, s)[s.room][s.lane])
        BY <2>1, <2>3, <2>4, <2>5, DeliverKeeps
    <2>7. \A r \in Addresses, l \in Lanes : \A t :
               Stands(t, f[k + 1][r][l]) => Sooner(t, signals, k + 1)
        <3> SUFFICES ASSUME NEW r \in Addresses, NEW l \in Lanes, NEW t, Stands(t, f[k + 1][r][l])
                     PROVE  Sooner(t, signals, k + 1)
            OBVIOUS
        <3>1. Stands(t, b[r][l]) \/ t = s
            BY <2>2, <2>6
        <3>2. CASE Stands(t, b[r][l])
            <4>1. Sooner(t, signals, k)
                BY <2>3, <3>2
            <4> QED BY <2>b, <4>1 DEF Sooner
        <3>3. CASE t = s
            <4>1. k + 1 <= k + 1
                BY <2>1
            <4> QED BY <2>1, <2>c, <3>3, <4>1 DEF Sooner
        <3> QED BY <3>1, <3>2, <3>3
    <2>8. \A i \in 1..n : i <= k + 1 => Stands(signals[i], f[k + 1][signals[i].room][signals[i].lane])
        <3> TAKE i \in 1..n
        <3>1. signals[i].room \in Addresses /\ signals[i].lane \in Lanes
            BY <1>1, SignalIs
        <3>2. CASE i <= k
            BY <2>2, <2>3, <2>6, <3>1, <3>2
        <3>3. CASE i = k + 1
            BY <2>2, <2>6, <2>c, <3>3
        <3> QED BY <2>a, <3>2, <3>3
    <2> QED BY <2>1, <2>2, <2>6, <2>7, <2>8
<1> HIDE DEF G
<1>5. \A k \in 0..n : k \in G
    BY <1>1, <1>3, <1>4, CountedUp
<1>6. Good(n)
    <2>1. n \in G
        BY <1>1, <1>5
    <2> HIDE DEF Good
    <2> QED BY <2>1 DEF G
<1> SUFFICES ASSUME NEW s, Stands(s, signals) PROVE Stands(s, f[n][s.room][s.lane])
    BY <1>2
<1>7. PICK i \in 1..n : signals[i] = s
    BY DEF Stands
<1>8. i <= n
    BY <1>1
<1> QED BY <1>6, <1>7, <1>8

-----------------------------------------------------------------------------
(* Lines.                                                                    *)

LEMMA LinesAre ==
  ASSUME NEW l \in Seq(Line)
  PROVE  /\ Len(l) \in Nat
         /\ \A i \in 1..Len(l) : l[i] \in Line /\ l[i].op \in {"enqueued", "consumed"} /\ l[i].signal \in Signal
         /\ \A op, s : Says(l, op, s) => s \in Signal
<1>1. Len(l) \in Nat /\ \A i \in 1..Len(l) : l[i] \in Line
    BY LenProperties, ElementOfSeq
<1> QED BY <1>1 DEF Line, Says

LEMMA SaysAppend ==
  ASSUME NEW l \in Seq(Line), NEW x \in Line
  PROVE  /\ Append(l, x) \in Seq(Line) /\ Len(Append(l, x)) = Len(l) + 1
         /\ Append(l, x)[Len(l) + 1] = x /\ \A i \in 1..Len(l) : Append(l, x)[i] = l[i]
         /\ \A op, s : Says(Append(l, x), op, s) <=> Says(l, op, s) \/ (x.op = op /\ x.signal = s)
<1> DEFINE a == Append(l, x)
           m == Len(l)
<1>1. /\ a \in Seq(Line) /\ Len(a) = m + 1 /\ m \in Nat
      /\ a[m + 1] = x /\ \A i \in 1..m : a[i] = l[i]
    BY AppendProperties, LenProperties
<1> HIDE DEF a, m
<1>2. /\ \A i \in 1..Len(a) : i \in 1..m \/ i = m + 1
      /\ \A i \in 1..m : i \in 1..Len(a)
      /\ m + 1 \in 1..Len(a)
    BY <1>1
<1>3. \A op, s : Says(a, op, s) <=> Says(l, op, s) \/ (x.op = op /\ x.signal = s)
    BY <1>1, <1>2 DEF Says, m
<1> QED BY <1>1, <1>3 DEF a, m

LEMMA SaysTail ==
  ASSUME NEW l \in Seq(Line), l # <<>>
  PROVE  /\ Tail(l) \in Seq(Line) /\ Head(l) \in Line /\ Len(Tail(l)) = Len(l) - 1 /\ Len(l) \in Nat \ {0}
         /\ Head(l) = l[1] /\ \A i \in 1..Len(Tail(l)) : Tail(l)[i] = l[i + 1] /\ i + 1 \in 1..Len(l)
         /\ \A op, s : Says(l, op, s) <=> Says(Tail(l), op, s) \/ (Head(l).op = op /\ Head(l).signal = s)
<1> DEFINE t == Tail(l)
           m == Len(l)
<1>1. /\ t \in Seq(Line) /\ Head(l) \in Line /\ Len(t) = m - 1 /\ m \in Nat \ {0} /\ Head(l) = l[1]
      /\ \A i \in 1..Len(t) : t[i] = l[i + 1]
    BY HeadTailProperties, LenProperties, EmptySeq
<1> HIDE DEF t, m
<1>2. /\ \A i \in 1..Len(t) : i + 1 \in 1..m
      /\ \A i \in 1..m : i = 1 \/ (i - 1 \in 1..Len(t) /\ (i - 1) + 1 = i)
      /\ 1 \in 1..m
    BY <1>1
<1>3. ASSUME NEW op, NEW s, Says(l, op, s) PROVE Says(t, op, s) \/ (Head(l).op = op /\ Head(l).signal = s)
    <2>1. PICK i \in 1..m : l[i].op = op /\ l[i].signal = s
        BY <1>3 DEF Says, m
    <2>2. CASE i = 1
        BY <1>1, <2>1, <2>2
    <2>3. CASE i # 1
        <3>1. i - 1 \in 1..Len(t) /\ t[i - 1] = l[i]
            BY <1>1, <1>2, <2>3
        <3> QED BY <2>1, <3>1 DEF Says
    <2> QED BY <2>2, <2>3
<1>4. ASSUME NEW op, NEW s, Says(t, op, s) \/ (Head(l).op = op /\ Head(l).signal = s) PROVE Says(l, op, s)
    BY <1>1, <1>2, <1>4 DEF Says, m
<1> QED BY <1>1, <1>2, <1>3, <1>4 DEF t, m

LEMMA EnqueuedSays ==
  ASSUME NEW l \in Seq(Line), NEW but, SentInTurn(l)
  PROVE  /\ Enqueued(l, but) \in Seq(Signal) /\ InTurn(Enqueued(l, but))
         /\ \A s : Stands(s, Enqueued(l, but)) <=> Says(l, "enqueued", s) /\ s.id \notin but
<1> DEFINE n == Len(l)
<1>1. n \in Nat /\ \A k \in 1..n : l[k].signal \in Signal
    BY LinesAre
<1>2. PICK f : /\ \A k \in 0..n : f[k] = IF k = 0 THEN <<>>
                                         ELSE IF l[k].op = "enqueued" /\ l[k].signal.id \notin but
                                                THEN Append(f[k - 1], l[k].signal) ELSE f[k - 1]
               /\ Enqueued(l, but) = f[n]
    BY <1>1, EnqueuedIs
<1> DEFINE Chosen(i) == l[i].op = "enqueued" /\ l[i].signal.id \notin but
           Good(k) == /\ f[k] \in Seq(Signal) /\ InTurn(f[k])
                      /\ \A s : Stands(s, f[k]) <=> \E i \in 1..n : i <= k /\ Chosen(i) /\ l[i].signal = s
           G == {k \in 0..n : Good(k)}
<1>3. 0 \in G
    <2>1. f[0] = <<>> /\ 0 \in 0..n /\ \A i \in 1..n : ~ (i <= 0)
        BY <1>1, <1>2
    <2> QED BY <2>1, NoneStands
<1>4. ASSUME NEW k \in Nat, k < n, k \in G PROVE k + 1 \in G
    <2> DEFINE s == l[k + 1].signal
    <2>1. /\ k + 1 \in 1..n /\ k + 1 \in 0..n /\ k + 1 # 0 /\ k + 1 - 1 = k /\ s \in Signal
        BY <1>1, <1>4
    <2>2. Good(k)
        BY <1>4
    <2>3. \A i \in 1..n : i <= k + 1 <=> i <= k \/ i = k + 1
        BY <1>1
    <2>4. CASE ~ Chosen(k + 1)
        <3>1. f[k + 1] = f[k]
            BY <1>2, <2>1, <2>4
        <3> HIDE DEF Chosen
        <3>2. \A t : Stands(t, f[k]) <=> \E i \in 1..n : i <= k + 1 /\ Chosen(i) /\ l[i].signal = t
            BY <2>2, <2>3, <2>4
        <3> QED BY <2>1, <2>2, <3>1, <3>2
    <2>5. CASE Chosen(k + 1)
        <3>1. f[k + 1] = Append(f[k], s)
            <4>1. f[k + 1] = IF Chosen(k + 1) THEN Append(f[k + 1 - 1], s) ELSE f[k + 1 - 1]
                BY <1>2, <2>1
            <4> HIDE DEF Chosen, s
            <4> QED BY <2>1, <2>5, <4>1
        <3>2. \A t : Stands(t, f[k]) => t.id < s.id
            <4> SUFFICES ASSUME NEW t, Stands(t, f[k]) PROVE t.id < s.id
                OBVIOUS
            <4>1. PICK i \in 1..n : i <= k /\ Chosen(i) /\ l[i].signal = t
                BY <2>2
            <4>2. i < k + 1
                BY <4>1
            <4> QED BY <2>1, <2>5, <4>1, <4>2 DEF SentInTurn
        <3>a. s = l[k + 1].signal
            OBVIOUS
        <3> HIDE DEF Chosen, s
        <3>3. /\ Append(f[k], s) \in Seq(Signal) /\ InTurn(Append(f[k], s))
              /\ \A t : Stands(t, Append(f[k], s)) <=> Stands(t, f[k]) \/ t = s
            BY <2>1, <2>2, <3>2, InTurnAppend
        <3>4. \A t : Stands(t, f[k + 1]) <=> \E i \in 1..n : i <= k + 1 /\ Chosen(i) /\ l[i].signal = t
            BY <2>1, <2>2, <2>3, <2>5, <3>1, <3>3, <3>a
        <3> QED BY <2>1, <3>1, <3>3, <3>4
    <2> QED BY <2>4, <2>5
<1> HIDE DEF G
<1>5. \A k \in 0..n : k \in G
    BY <1>1, <1>3, <1>4, CountedUp
<1>6. Good(n) /\ \A i \in 1..n : i <= n
    <2>1. n \in G /\ \A i \in 1..n : i <= n
        BY <1>1, <1>5
    <2> HIDE DEF Good
    <2> QED BY <2>1 DEF G
<1>7. \A s : Says(l, "enqueued", s) /\ s.id \notin but <=> \E i \in 1..n : Chosen(i) /\ l[i].signal = s
    BY DEF Says
<1> HIDE DEF Chosen
<1> QED BY <1>2, <1>6, <1>7

-----------------------------------------------------------------------------
(* The invariant. A room's queue is its own whether it is at home or on a    *)
(* desk.                                                                     *)

Home == [r \in Addresses |-> IF r = lent THEN desk ELSE inboxes[r]]

\* What a stage leaves empty, and where the queue on loan is.
StageOK ==
    /\ stage = "idle" => lent = NoAddress /\ effects = <<>>
    /\ stage = "opening" => lent \in Addresses /\ effects = <<>>
    /\ stage = "driving" => lent \in Addresses
    /\ stage = "recording" => lent = NoAddress
    /\ stage # "recording" => sent = <<>>
    /\ lent = NoAddress => desk = NoSignals
    /\ lent \in Addresses => inboxes[lent] = NoSignals

\* Signals are recorded in the order they were sent, whichever run sent them.
IdsOK ==
    /\ SentInTurn(ledger) /\ SentInTurn(effects)
    /\ \A s : Says(ledger, "enqueued", s) \/ Says(effects, "enqueued", s) => s.id <= minted
    /\ \A s, t : Says(ledger, "enqueued", s) /\ Says(effects, "enqueued", t) => s.id < t.id

ReadOnce(l) ==
    \A i, j \in 1..Len(l) :
        i # j /\ l[i].op = "consumed" /\ l[j].op = "consumed" => l[i].signal # l[j].signal

\* Only what was sent is read, and only once, on the ledger and on the way to it.
ReadOK ==
    /\ ReadOnce(ledger) /\ ReadOnce(effects)
    /\ \A i \in 1..Len(ledger) : ledger[i].op = "consumed" =>
           \E j \in 1..(i - 1) : ledger[j].op = "enqueued" /\ ledger[j].signal = ledger[i].signal
    /\ \A s : Says(effects, "consumed", s) => Says(ledger, "enqueued", s) /\ ~ Says(ledger, "consumed", s)

\* What stands in a queue has been recorded and not been read.
HomeOK ==
    /\ QueuesOK(Home)
    /\ \A r \in Addresses, l \in Lanes : \A s : Stands(s, Home[r][l]) =>
           Says(ledger, "enqueued", s) /\ ~ Says(ledger, "consumed", s) /\ ~ Says(effects, "consumed", s)

\* What a landing is to deliver is newer than all that stands in a queue.
SentOK ==
    /\ InTurn(sent)
    /\ \A s : Stands(s, sent) =>
           /\ Says(ledger, "enqueued", s) \/ Says(effects, "enqueued", s)
           /\ ~ Says(ledger, "consumed", s) /\ ~ Says(effects, "consumed", s)
    /\ \A s : stage = "recording" /\ Says(effects, "enqueued", s) => Stands(s, sent)
    /\ \A r \in Addresses, l \in Lanes : \A s, t : Stands(t, Home[r][l]) /\ Stands(s, sent) => t.id < s.id

\* As long as nothing has strayed, all that waits stands in its queue.
AllHome ==
    strayed = {} =>
        \A s : /\ Says(ledger, "enqueued", s) /\ ~ Says(ledger, "consumed", s)
               /\ ~ Says(effects, "consumed", s) /\ ~ Stands(s, sent)
               => Stands(s, Home[s.room][s.lane])

InboxInv == InboxTypeOK /\ StageOK /\ IdsOK /\ ReadOK /\ HomeOK /\ SentOK /\ AllHome

LEMMA InboxTypes ==
  ASSUME InboxTypeOK
  PROVE  /\ ledger \in Seq(Line) /\ effects \in Seq(Line) /\ sent \in Seq(Signal)
         /\ inboxes \in AllBoxes /\ desk \in [Lanes -> Seq(Signal)] /\ Home \in AllBoxes
         /\ minted \in Nat /\ lent \in Addresses \cup {NoAddress} /\ NoAddress \notin Addresses
         /\ \A r \in Addresses : Home[r] = IF r = lent THEN desk ELSE inboxes[r]
BY SignalsAssumption DEF InboxTypeOK, AllBoxes, Home

LEMMA NothingWaits ==
  /\ NoSignals \in [Lanes -> Seq(Signal)] /\ Empty \in AllBoxes /\ QueuesOK(Empty)
  /\ \A l \in Lanes : NoSignals[l] = <<>>
  /\ \A r \in Addresses : Empty[r] = NoSignals
<1>1. \A r \in Addresses : Empty[r] = NoSignals
    BY DEF Empty
<1>2. \A l \in Lanes : NoSignals[l] = <<>>
    BY DEF NoSignals
<1>3. 0 <= Capacity
    BY SignalsAssumption
<1>4. NoSignals \in [Lanes -> Seq(Signal)] /\ Empty \in AllBoxes
    BY NoneStands DEF Empty, NoSignals, AllBoxes
<1> QED BY <1>1, <1>2, <1>3, <1>4, NoneStands DEF QueuesOK

LEMMA OneSignalPerId ==
  ASSUME NEW l \in Seq(Line), SentInTurn(l), NEW s, NEW t,
         Says(l, "enqueued", s), Says(l, "enqueued", t), s.id = t.id
  PROVE  s = t
<1>1. PICK i \in 1..Len(l) : l[i].op = "enqueued" /\ l[i].signal = s
    BY DEF Says
<1>2. PICK j \in 1..Len(l) : l[j].op = "enqueued" /\ l[j].signal = t
    BY DEF Says
<1>3. s.id \in Nat /\ t.id \in Nat /\ Len(l) \in Nat
    BY LinesAre, SignalIs
<1>4. ~ (i < j) /\ ~ (j < i)
    BY <1>1, <1>2, <1>3 DEF SentInTurn
<1>5. i = j
    BY <1>3, <1>4
<1> QED BY <1>1, <1>2, <1>5

\* What was read was sent.
LEMMA ReadWasSent ==
  ASSUME InboxTypeOK, ReadOK, NEW s, Says(ledger, "consumed", s)
  PROVE  Says(ledger, "enqueued", s)
<1>1. PICK i \in 1..Len(ledger) : ledger[i].op = "consumed" /\ ledger[i].signal = s
    BY DEF Says
<1>2. PICK j \in 1..(i - 1) : ledger[j].op = "enqueued" /\ ledger[j].signal = s
    BY <1>1 DEF ReadOK
<1>3. j \in 1..Len(ledger)
    BY <1>1, <1>2, InboxTypes, LinesAre
<1> QED BY <1>2, <1>3 DEF Says

\* What a restart delivers is what was sent and has not been read.
LEMMA UnreadIs ==
  ASSUME InboxTypeOK, IdsOK, ReadOK
  PROVE  /\ Unread(ledger) \in Seq(Signal) /\ InTurn(Unread(ledger))
         /\ \A s : Stands(s, Unread(ledger)) <=> Says(ledger, "enqueued", s) /\ ~ Says(ledger, "consumed", s)
<1>1. ledger \in Seq(Line) /\ SentInTurn(ledger)
    BY InboxTypes DEF IdsOK
<1>2. ASSUME NEW s, Says(ledger, "enqueued", s)
      PROVE  s.id \in Consumed(ledger) <=> Says(ledger, "consumed", s)
    <2>1. ASSUME Says(ledger, "consumed", s) PROVE s.id \in Consumed(ledger)
        BY <2>1 DEF Says, Consumed
    <2>2. ASSUME s.id \in Consumed(ledger) PROVE Says(ledger, "consumed", s)
        <3>1. PICK i \in 1..Len(ledger) : ledger[i].op = "consumed" /\ ledger[i].signal.id = s.id
            BY <2>2 DEF Consumed
        <3> DEFINE t == ledger[i].signal
        <3>2. Says(ledger, "consumed", t) /\ t.id = s.id
            BY <3>1 DEF Says
        <3> HIDE DEF t
        <3>3. Says(ledger, "enqueued", t)
            BY <3>2, ReadWasSent
        <3>4. s = t
            BY <1>1, <1>2, <3>2, <3>3, OneSignalPerId
        <3> QED BY <3>2, <3>4
    <2> QED BY <2>1, <2>2
<1> DEFINE but == Consumed(ledger)
<1> HIDE DEF but
<1>3. /\ Enqueued(ledger, but) \in Seq(Signal) /\ InTurn(Enqueued(ledger, but))
      /\ \A s : Stands(s, Enqueued(ledger, but)) <=> Says(ledger, "enqueued", s) /\ s.id \notin but
    BY <1>1, EnqueuedSays
<1> QED BY <1>2, <1>3 DEF Unread, but

LEMMA RebuiltIs ==
  ASSUME InboxTypeOK, IdsOK, ReadOK
  PROVE  /\ Rebuilt(ledger) \in AllBoxes /\ QueuesOK(Rebuilt(ledger))
         /\ \A r \in Addresses, l \in Lanes : \A s : Stands(s, Rebuilt(ledger)[r][l]) =>
               Says(ledger, "enqueued", s) /\ ~ Says(ledger, "consumed", s) /\ r = s.room /\ l = s.lane
<1> DEFINE U == Unread(ledger)
<1>1. /\ U \in Seq(Signal) /\ InTurn(U)
      /\ \A s : Stands(s, U) <=> Says(ledger, "enqueued", s) /\ ~ Says(ledger, "consumed", s)
    BY UnreadIs
<1> HIDE DEF U
<1>2. \A r \in Addresses, l \in Lanes : \A t : ~ Stands(t, Empty[r][l])
    BY NothingWaits, NoneStands
<1>3. /\ Delivered(Empty, U) \in AllBoxes /\ QueuesOK(Delivered(Empty, U))
      /\ \A r \in Addresses, l \in Lanes : \A t : Stands(t, Delivered(Empty, U)[r][l]) =>
            Stands(t, Empty[r][l]) \/ (Stands(t, U) /\ r = t.room /\ l = t.lane)
    <2>1. Empty \in AllBoxes /\ QueuesOK(Empty)
        BY NothingWaits
    <2>2. \A r \in Addresses, l \in Lanes : \A t, s : Stands(t, Empty[r][l]) /\ Stands(s, U) => t.id < s.id
        BY <1>2
    <2> QED BY <1>1, <2>1, <2>2, DeliveredKeeps
<1> QED BY <1>1, <1>2, <1>3 DEF Rebuilt, U

\* Between dispatches, and as long as nothing has strayed, a restart would
\* build what the worker holds.
LEMMA InboxesAgree == InboxInv => InboxIsTheLedger
<1> SUFFICES ASSUME InboxInv, stage = "idle", strayed = {} PROVE inboxes = Rebuilt(ledger)
    BY DEF InboxIsTheLedger, Agree
<1> DEFINE U == Unread(ledger)
           R == Rebuilt(ledger)
<1>0. InboxTypeOK /\ StageOK /\ IdsOK /\ ReadOK /\ HomeOK /\ AllHome
    BY DEF InboxInv
<1>1. /\ lent = NoAddress /\ effects = <<>> /\ sent = <<>> /\ inboxes \in AllBoxes
      /\ \A r \in Addresses : Home[r] = inboxes[r]
    BY <1>0, InboxTypes DEF StageOK
<1>2. /\ U \in Seq(Signal) /\ InTurn(U)
      /\ \A s : Stands(s, U) <=> Says(ledger, "enqueued", s) /\ ~ Says(ledger, "consumed", s)
    BY <1>0, UnreadIs
<1>3. QueuesOK(inboxes)
    BY <1>0, <1>1 DEF HomeOK, QueuesOK
<1>4. /\ R \in AllBoxes /\ QueuesOK(R)
      /\ \A r \in Addresses, l \in Lanes : \A s : Stands(s, R[r][l]) =>
             Says(ledger, "enqueued", s) /\ ~ Says(ledger, "consumed", s) /\ r = s.room /\ l = s.lane
    BY <1>0, RebuiltIs
<1>5. R = Delivered(Empty, U)
    BY DEF Rebuilt
<1> HIDE DEF U, R
<1>6. \A s : Says(ledger, "enqueued", s) => s.room \in Addresses /\ s.lane \in Lanes
    BY <1>0, InboxTypes, LinesAre, SignalIs
<1>7. \A s : Says(ledger, "enqueued", s) /\ ~ Says(ledger, "consumed", s) => Stands(s, inboxes[s.room][s.lane])
    <2>1. \A s : ~ Says(effects, "consumed", s) /\ ~ Stands(s, sent)
        BY <1>1, NoneStands
    <2> QED BY <1>0, <1>1, <1>6, <2>1 DEF AllHome
<1>8. \A s : Stands(s, U) => Stands(s, R[s.room][s.lane])
    BY <1>1, <1>2, <1>3, <1>5, <1>7, NoneIsShed
<1>9. ASSUME NEW r \in Addresses, NEW l \in Lanes PROVE inboxes[r][l] = R[r][l]
    <2> DEFINE a == inboxes[r][l]
               q == R[r][l]
    <2>1. /\ a \in Seq(Signal) /\ q \in Seq(Signal) /\ InTurn(a) /\ InTurn(q)
          /\ \A s : Stands(s, a) => s.room = r /\ s.lane = l
        BY <1>1, <1>3, <1>4 DEF AllBoxes, QueuesOK
    <2>2. \A s : Stands(s, a) => Says(ledger, "enqueued", s) /\ ~ Says(ledger, "consumed", s)
        BY <1>0, <1>1 DEF HomeOK
    <2>3. \A s : Stands(s, a) => Stands(s, q)
        BY <1>2, <1>8, <2>1, <2>2
    <2>4. \A s : Stands(s, q) => Stands(s, a)
        BY <1>4, <1>7
    <2> HIDE DEF a, q
    <2>5. a = q
        BY <2>1, <2>3, <2>4, SameQueue
    <2> QED BY <2>5 DEF a, q
<1> QED BY <1>1, <1>4, <1>9 DEF AllBoxes, R

LEMMA NoneInTwoPlaces == InboxInv => OnePlaceEach
<1> SUFFICES ASSUME InboxInv PROVE OnePlaceEach
    OBVIOUS
<1> DEFINE D == (Addresses \cup {NoAddress}) \X Lanes
<1>0. InboxTypeOK /\ StageOK /\ ReadOK /\ HomeOK
    BY DEF InboxInv
<1>1. ASSUME NEW q \in D
      PROVE  /\ Queues[q] \in Seq(Signal) /\ InTurn(Queues[q])
             /\ \A s : Stands(s, Queues[q]) =>
                   /\ ~ Says(effects, "consumed", s) /\ s.lane = q[2]
                   /\ q[1] = IF s.room = lent THEN NoAddress ELSE s.room
    <2> DEFINE r == q[1]
               l == q[2]
    <2>1. r \in Addresses \cup {NoAddress} /\ l \in Lanes /\ q = <<r, l>>
        OBVIOUS
    <2>2. Queues[q] = IF r = NoAddress THEN desk[l] ELSE inboxes[r][l]
        BY DEF Queues
    <2> HIDE DEF r, l
    <2>3. CASE Queues[q] = <<>>
        BY <2>3, NoneStands
    <2>4. CASE r = NoAddress /\ lent \in Addresses
        <3>1. Queues[q] = Home[lent][l]
            BY <1>0, <2>2, <2>4, InboxTypes
        <3>2. /\ Home[lent][l] \in Seq(Signal) /\ InTurn(Home[lent][l])
              /\ \A s : Stands(s, Home[lent][l]) => ~ Says(effects, "consumed", s) /\ s.room = lent /\ s.lane = l
            BY <1>0, <2>1, <2>4, InboxTypes DEF AllBoxes, HomeOK, QueuesOK
        <3> QED BY <2>4, <3>1, <3>2 DEF r, l
    <2>5. CASE r # NoAddress /\ r # lent
        <3>0. r \in Addresses
            BY <2>1, <2>5
        <3>1. Queues[q] = Home[r][l]
            BY <1>0, <2>2, <2>5, <3>0, InboxTypes
        <3>2. /\ Home[r][l] \in Seq(Signal) /\ InTurn(Home[r][l])
              /\ \A s : Stands(s, Home[r][l]) => ~ Says(effects, "consumed", s) /\ s.room = r /\ s.lane = l
            BY <1>0, <2>1, <3>0, InboxTypes DEF AllBoxes, HomeOK, QueuesOK
        <3> QED BY <2>5, <3>1, <3>2 DEF r, l
    <2>6. CASE r = NoAddress /\ lent = NoAddress
        BY <1>0, <2>1, <2>2, <2>3, <2>6, NothingWaits DEF StageOK
    <2>7. CASE r # NoAddress /\ r = lent
        BY <1>0, <2>1, <2>2, <2>3, <2>7, NothingWaits DEF StageOK
    <2> QED BY <1>0, <2>4, <2>5, <2>6, <2>7, InboxTypes
<1>2. DOMAIN Queues = D
    BY DEF Queues
<1> HIDE DEF D
<1>3. ASSUME NEW q \in D
      PROVE  /\ IsInjective(Queues[q])
             /\ \A s : s \in Range(Queues[q]) <=> Stands(s, Queues[q])
    <2> DEFINE a == Queues[q]
    <2>1. a \in Seq(Signal) /\ InTurn(a)
        BY <1>1
    <2> HIDE DEF a
    <2>2. DOMAIN a = 1..Len(a) /\ Len(a) \in Nat
        BY <2>1, LenProperties
    <2>3. ASSUME NEW i \in 1..Len(a), NEW j \in 1..Len(a), a[i] = a[j] PROVE i = j
        <3>1. a[i].id \in Nat
            BY <2>1, QueueIs, SignalIs
        <3>2. ~ (i < j) /\ ~ (j < i)
            BY <2>1, <2>3, <3>1 DEF InTurn
        <3> QED BY <2>2, <3>2
    <2> QED BY <2>2, <2>3 DEF IsInjective, Range, Stands, a
<1>4. ASSUME NEW p \in D, NEW q \in D, p # q PROVE Range(Queues[p]) \cap Range(Queues[q]) = {}
    <2> SUFFICES ASSUME NEW s, Stands(s, Queues[p]), Stands(s, Queues[q]) PROVE FALSE
        BY <1>3
    <2>1. p[1] = q[1] /\ p[2] = q[2]
        BY <1>1
    <2>2. p = <<p[1], p[2]>> /\ q = <<q[1], q[2]>>
        BY DEF D
    <2> QED BY <1>4, <2>1, <2>2
<1>5. ASSUME NEW i \in 1..Len(effects), effects[i].op = "consumed"
      PROVE  /\ \A q \in D : effects[i].signal \notin Range(Queues[q])
             /\ \A j \in 1..Len(effects) : effects[j].op = "consumed" /\ effects[i] = effects[j] => i = j
    <2>1. Says(effects, "consumed", effects[i].signal)
        BY <1>5 DEF Says
    <2> QED BY <1>0, <1>1, <1>3, <1>5, <2>1 DEF ReadOK, ReadOnce
<1> QED BY <1>2, <1>3, <1>4, <1>5 DEF OnePlaceEach

LEMMA NoneReadTwice == InboxInv => ConsumedOnce
<1> SUFFICES ASSUME InboxInv, NEW i \in 1..Len(ledger), ledger[i].op = "consumed"
             PROVE  /\ \E j \in 1..(i - 1) : ledger[j] = [op |-> "enqueued", signal |-> ledger[i].signal]
                    /\ \A j \in 1..(i - 1) : ledger[j] # ledger[i]
    BY DEF ConsumedOnce
<1>0. InboxTypeOK /\ ReadOK
    BY DEF InboxInv
<1>1. Len(ledger) \in Nat /\ \A j \in 1..Len(ledger) : ledger[j] \in Line
    BY <1>0, InboxTypes, LinesAre
<1>2. \A j \in 1..(i - 1) : j \in 1..Len(ledger) /\ j # i
    BY <1>1
<1>3. PICK j \in 1..(i - 1) : ledger[j].op = "enqueued" /\ ledger[j].signal = ledger[i].signal
    BY <1>0 DEF ReadOK
<1>4. ledger[j] = [op |-> "enqueued", signal |-> ledger[i].signal]
    BY <1>1, <1>2, <1>3 DEF Line
<1>5. \A k \in 1..(i - 1) : ledger[k] # ledger[i]
    BY <1>0, <1>2 DEF ReadOK, ReadOnce
<1> QED BY <1>4, <1>5

-----------------------------------------------------------------------------
(* Steps.                                                                    *)

LEMMA OpenDesks ==
  ASSUME InboxInv, NEW r \in Addresses, open_desks(r)
  PROVE  InboxInv'
<1>0. InboxTypeOK /\ StageOK /\ IdsOK /\ ReadOK /\ HomeOK /\ SentOK /\ AllHome
    BY DEF InboxInv
<1>1. /\ stage = "idle" /\ lent = NoAddress /\ lent' = r /\ stage' = "opening" /\ sent = <<>> /\ effects = <<>>
      /\ desk' = inboxes[r] /\ inboxes' = [inboxes EXCEPT ![r] = NoSignals]
      /\ UNCHANGED <<ledger, effects, sent, minted, strayed>>
    BY <1>0 DEF open_desks, StageOK
<1>2. inboxes' \in AllBoxes /\ desk' \in [Lanes -> Seq(Signal)]
    BY <1>0, <1>1, InboxTypes, NothingWaits DEF AllBoxes
<1>3. InboxTypeOK'
    BY <1>0, <1>1, <1>2 DEF InboxTypeOK, AllBoxes
<1>4. Home' = Home
    <2>1. \A a \in Addresses : (IF a = lent' THEN desk' ELSE inboxes'[a]) = (IF a = lent THEN desk ELSE inboxes[a])
        BY <1>0, <1>1, InboxTypes DEF AllBoxes
    <2> QED BY <2>1 DEF Home
<1>5. StageOK'
    BY <1>0, <1>1, InboxTypes DEF StageOK, AllBoxes
<1>6. IdsOK' /\ ReadOK'
    BY <1>0, <1>1 DEF IdsOK, ReadOK
<1>7. HomeOK' /\ SentOK' /\ AllHome'
    BY <1>0, <1>1, <1>4 DEF HomeOK, SentOK, AllHome, QueuesOK
<1> QED BY <1>3, <1>5, <1>6, <1>7 DEF InboxInv

LEMMA ReadyOrNot ==
  ASSUME InboxInv, Ready \/ Unready
  PROVE  InboxInv'
<1>0. InboxTypeOK /\ StageOK /\ IdsOK /\ ReadOK /\ HomeOK /\ SentOK /\ AllHome
    BY DEF InboxInv
<1>1. /\ stage = "opening" /\ lent \in Addresses /\ effects = <<>> /\ sent = <<>> /\ inboxes[lent] = NoSignals
      /\ UNCHANGED <<ledger, inboxes, effects, sent, minted>>
    BY <1>0 DEF Ready, Unready, StageOK
<1>2. IdsOK' /\ ReadOK'
    BY <1>0, <1>1 DEF IdsOK, ReadOK
<1>3. CASE Ready
    <2>1. stage' = "driving" /\ UNCHANGED <<lent, desk, strayed>>
        BY <1>3 DEF Ready
    <2>2. Home' = Home
        BY <1>1, <2>1 DEF Home
    <2>3. InboxTypeOK' /\ StageOK'
        BY <1>0, <1>1, <2>1 DEF InboxTypeOK, StageOK
    <2>4. HomeOK' /\ SentOK' /\ AllHome'
        BY <1>0, <1>1, <2>1, <2>2 DEF HomeOK, SentOK, AllHome, QueuesOK
    <2> QED BY <1>2, <2>3, <2>4 DEF InboxInv
<1>4. CASE Unready
    <2>1. stage' = "idle" /\ lent' = NoAddress /\ desk' = NoSignals /\ strayed' = strayed \cup {"dropped"}
        BY <1>4 DEF Unready
    <2>2. InboxTypeOK' /\ StageOK'
        BY <1>0, <1>1, <2>1, InboxTypes, NothingWaits DEF InboxTypeOK, StageOK
    <2>3. \A r \in Addresses : Home'[r] = IF r = lent THEN NoSignals ELSE Home[r]
        <3>1. \A r \in Addresses : Home'[r] = inboxes[r]
            <4>1. NoAddress \notin Addresses /\ lent' = NoAddress /\ inboxes' = inboxes
                BY <1>1, <2>1, SignalsAssumption
            <4> QED BY <4>1 DEF Home
        <3> QED BY <1>0, <1>1, <3>1, InboxTypes
    <2>4. \A r \in Addresses, l \in Lanes : \A s : Stands(s, Home'[r][l]) => Stands(s, Home[r][l])
        BY <2>3, NothingWaits, NoneStands
    <2>5. QueuesOK(Home')
        <3> SUFFICES ASSUME NEW r \in Addresses, NEW l \in Lanes
                     PROVE  /\ InTurn(Home'[r][l]) /\ Len(Home'[r][l]) <= Capacity
                            /\ \A s : Stands(s, Home'[r][l]) => s.room = r /\ s.lane = l
            BY DEF QueuesOK
        <3>1. Home'[r][l] = <<>> \/ Home'[r][l] = Home[r][l]
            BY <2>3, NothingWaits
        <3>2. 0 <= Capacity
            BY SignalsAssumption
        <3> QED BY <1>0, <3>1, <3>2, NoneStands DEF HomeOK, QueuesOK
    <2>6. HomeOK'
        BY <1>0, <1>1, <2>4, <2>5 DEF HomeOK, QueuesOK
    <2>7. SentOK' /\ AllHome'
        BY <1>0, <1>1, <2>1, NoneStands DEF SentOK, AllHome
    <2> QED BY <1>2, <2>2, <2>6, <2>7 DEF InboxInv
<1> QED BY <1>3, <1>4

LEMMA Sends ==
  ASSUME InboxInv, NEW to \in Addresses, NEW lane \in Lanes, NEW blank \in Blanks, send(to, lane, blank)
  PROVE  InboxInv'
<1> DEFINE s == [id |-> minted + 1, room |-> to, lane |-> lane, blank |-> blank]
           x == [op |-> "enqueued", signal |-> s]
<1>0. InboxTypeOK /\ StageOK /\ IdsOK /\ ReadOK /\ HomeOK /\ SentOK /\ AllHome
    BY DEF InboxInv
<1>1. /\ stage = "driving" /\ minted < MaxSignals /\ minted' = minted + 1 /\ effects' = Append(effects, x)
      /\ UNCHANGED <<ledger, inboxes, stage, lent, desk, sent, strayed>>
    BY DEF send
<1>2. s \in Signal /\ s.id = minted + 1 /\ x \in Line /\ x.op = "enqueued" /\ x.signal = s
    BY <1>0, <1>1, InboxTypes, SignalsAssumption DEF Signal, Line
<1> HIDE DEF s, x
<1>3. /\ effects \in Seq(Line) /\ Len(effects) \in Nat /\ minted \in Nat
      /\ effects' \in Seq(Line) /\ Len(effects') = Len(effects) + 1
      /\ effects'[Len(effects) + 1] = x /\ \A i \in 1..Len(effects) : effects'[i] = effects[i]
      /\ \A op, t : Says(effects', op, t) <=> Says(effects, op, t) \/ (x.op = op /\ x.signal = t)
    BY <1>0, <1>1, <1>2, InboxTypes, LinesAre, SaysAppend
<1>4. minted' \in 0..MaxSignals
    BY <1>1, <1>3, SignalsAssumption
<1>5. InboxTypeOK' /\ StageOK'
    BY <1>0, <1>1, <1>3, <1>4 DEF InboxTypeOK, StageOK
<1>6. Home' = Home
    BY <1>1 DEF Home
<1>7. /\ \A t : Says(effects', "consumed", t) <=> Says(effects, "consumed", t)
      /\ \A t : Says(effects', "enqueued", t) <=> Says(effects, "enqueued", t) \/ t = s
    BY <1>2, <1>3
<1>8. \A i \in 1..Len(effects') : i \in 1..Len(effects) \/ i = Len(effects) + 1
    BY <1>3
<1>9. IdsOK'
    <2>1. \A t : Says(ledger, "enqueued", t) \/ Says(effects, "enqueued", t) => t.id \in Nat /\ t.id <= minted
        BY <1>0, <1>3, InboxTypes, LinesAre, SignalIs DEF IdsOK
    <2>2. \A i \in 1..Len(effects) : effects[i].op = "enqueued" => effects[i].signal.id < s.id
        <3> TAKE i \in 1..Len(effects)
        <3>1. effects[i].op = "enqueued" => Says(effects, "enqueued", effects[i].signal)
            BY DEF Says
        <3> QED BY <1>2, <1>3, <2>1, <3>1
    <2>3. SentInTurn(effects')
        <3> SUFFICES ASSUME NEW i \in 1..Len(effects'), NEW j \in 1..Len(effects'), i < j,
                            effects'[i].op = "enqueued", effects'[j].op = "enqueued"
                     PROVE  effects'[i].signal.id < effects'[j].signal.id
            BY DEF SentInTurn
        <3>1. i \in 1..Len(effects)
            BY <1>3
        <3>2. CASE j \in 1..Len(effects)
            BY <1>0, <1>3, <3>1, <3>2 DEF IdsOK, SentInTurn
        <3>3. CASE j = Len(effects) + 1
            BY <1>2, <1>3, <2>2, <3>1, <3>3
        <3> QED BY <1>8, <3>2, <3>3
    <2>4. \A t : Says(ledger', "enqueued", t) \/ Says(effects', "enqueued", t) => t.id <= minted'
        BY <1>1, <1>2, <1>3, <1>7, <2>1
    <2>5. \A t, u : Says(ledger', "enqueued", t) /\ Says(effects', "enqueued", u) => t.id < u.id
        <3> SUFFICES ASSUME NEW t, NEW u, Says(ledger, "enqueued", t), Says(effects', "enqueued", u) PROVE t.id < u.id
            BY <1>1
        <3>1. CASE Says(effects, "enqueued", u)
            BY <1>0, <3>1 DEF IdsOK
        <3>2. CASE u = s
            BY <1>2, <1>3, <2>1, <3>2
        <3> QED BY <1>7, <3>1, <3>2
    <2>6. SentInTurn(ledger')
        BY <1>0, <1>1 DEF IdsOK
    <2> QED BY <2>3, <2>4, <2>5, <2>6 DEF IdsOK
<1>10. ReadOK'
    <2>1. ReadOnce(effects')
        BY <1>0, <1>2, <1>3, <1>8 DEF ReadOK, ReadOnce
    <2> QED BY <1>0, <1>1, <1>7, <2>1 DEF ReadOK
<1>11. HomeOK' /\ AllHome'
    BY <1>0, <1>1, <1>6, <1>7 DEF HomeOK, AllHome, QueuesOK
<1>12. SentOK'
    <2>1. sent' = <<>> /\ stage' # "recording"
        BY <1>0, <1>1 DEF StageOK
    <2> QED BY <2>1, NoneStands DEF SentOK
<1> QED BY <1>5, <1>9, <1>10, <1>11, <1>12 DEF InboxInv

\* A queue cut in two.
LEMMA CutInTwo ==
  ASSUME NEW q \in Seq(Signal), InTurn(q), NEW k \in 0..Len(q)
  PROVE  /\ SubSeq(q, 1, k) \in Seq(Signal) /\ InTurn(SubSeq(q, 1, k))
         /\ SubSeq(q, k + 1, Len(q)) \in Seq(Signal) /\ InTurn(SubSeq(q, k + 1, Len(q)))
         /\ Len(SubSeq(q, k + 1, Len(q))) <= Len(q)
         /\ \A s : Stands(s, q) <=> Stands(s, SubSeq(q, 1, k)) \/ Stands(s, SubSeq(q, k + 1, Len(q)))
         /\ \A s : ~ (Stands(s, SubSeq(q, 1, k)) /\ Stands(s, SubSeq(q, k + 1, Len(q))))
<1> DEFINE n == Len(q)
           a == SubSeq(q, 1, k)
           b == SubSeq(q, k + 1, n)
<1>1. n \in Nat /\ \A i \in 1..n : q[i] \in Signal
    BY QueueIs
<1>2. a = [i \in 1..k |-> q[i]]
    BY <1>1
<1>3. b = [i \in 1..(n - k) |-> q[k + i]]
    <2>1. b = [i \in 1..(n - (k + 1) + 1) |-> q[(k + 1) + i - 1]]
        BY <1>1
    <2>2. n - (k + 1) + 1 = n - k /\ \A i \in 1..(n - k) : (k + 1) + i - 1 = k + i
        BY <1>1
    <2> HIDE DEF b
    <2> QED BY <2>1, <2>2
<1> HIDE DEF a, b
<1>4. k \in Nat /\ n - k \in Nat
    BY <1>1
<1>5. \A i \in 1..k : i \in 1..n
    BY <1>1
<1>6. \A i \in 1..(n - k) : k + i \in 1..n
    BY <1>1
<1>7. /\ a \in Seq(Signal) /\ Len(a) = k /\ \A i \in 1..k : a[i] = q[i]
    BY <1>1, <1>2, <1>4, <1>5
<1>8. /\ b \in Seq(Signal) /\ Len(b) = n - k /\ \A i \in 1..(n - k) : b[i] = q[k + i]
    BY <1>1, <1>3, <1>4, <1>6
<1>9. InTurn(a)
    BY <1>5, <1>7 DEF InTurn, n
<1>10. InTurn(b)
    <2> SUFFICES ASSUME NEW i \in 1..Len(b), NEW j \in 1..Len(b), i < j PROVE b[i].id < b[j].id
        BY DEF InTurn
    <2>1. k + i \in 1..n /\ k + j \in 1..n /\ k + i < k + j
        BY <1>1, <1>6, <1>8
    <2>2. q[k + i].id < q[k + j].id
        BY <2>1 DEF InTurn, n
    <2> QED BY <1>8, <2>2
<1>11. \A i \in 1..n : i \in 1..k \/ (i - k \in 1..(n - k) /\ k + (i - k) = i)
    BY <1>1
<1>12. ASSUME NEW s PROVE Stands(s, q) <=> Stands(s, a) \/ Stands(s, b)
    <2>1. ASSUME Stands(s, q) PROVE Stands(s, a) \/ Stands(s, b)
        <3>1. PICK i \in 1..n : q[i] = s
            BY <2>1 DEF Stands, n
        <3>2. CASE i \in 1..k
            BY <1>7, <3>1, <3>2 DEF Stands
        <3>3. CASE i - k \in 1..(n - k) /\ k + (i - k) = i
            <4>1. b[i - k] = s
                BY <1>8, <3>1, <3>3
            <4> QED BY <1>8, <3>3, <4>1 DEF Stands
        <3> QED BY <1>11, <3>2, <3>3
    <2>2. ASSUME Stands(s, a) PROVE Stands(s, q)
        BY <1>5, <1>7, <2>2 DEF Stands, n
    <2>3. ASSUME Stands(s, b) PROVE Stands(s, q)
        BY <1>6, <1>8, <2>3 DEF Stands, n
    <2> QED BY <2>1, <2>2, <2>3
<1>13. ASSUME NEW s, Stands(s, a), Stands(s, b) PROVE FALSE
    <2>1. PICK i \in 1..k : q[i] = s
        BY <1>7, <1>13 DEF Stands
    <2>2. PICK j \in 1..(n - k) : q[k + j] = s
        BY <1>8, <1>13 DEF Stands
    <2>3. i \in 1..n /\ k + j \in 1..n /\ i < k + j
        BY <1>1, <1>5, <1>6
    <2>4. s.id < s.id
        BY <2>1, <2>2, <2>3 DEF InTurn, n
    <2>5. s.id \in Nat
        BY <1>1, <2>1, <2>3, SignalIs
    <2> QED BY <2>4, <2>5
<1>14. n - k <= n
    BY <1>1
<1> QED BY <1>7, <1>8, <1>9, <1>10, <1>12, <1>13, <1>14 DEF a, b

LEMMA ReadSays ==
  ASSUME InboxTypeOK, NEW taken \in Seq(Signal)
  PROVE  /\ Read(taken) \in Seq(Line) /\ Len(Read(taken)) = Len(effects) + Len(taken)
         /\ \A i \in 1..Len(effects) : Read(taken)[i] = effects[i]
         /\ \A i \in 1..Len(taken) : /\ Read(taken)[Len(effects) + i].op = "consumed"
                                     /\ Read(taken)[Len(effects) + i].signal = taken[i]
         /\ \A op, s : Says(Read(taken), op, s) <=> Says(effects, op, s) \/ (op = "consumed" /\ Stands(s, taken))
<1> DEFINE m == Len(effects)
           n == Len(taken)
           more == [i \in 1..n |-> [op |-> "consumed", signal |-> taken[i]]]
           all == effects \o more
<1>1. effects \in Seq(Line) /\ m \in Nat /\ n \in Nat /\ \A i \in 1..n : taken[i] \in Signal
    BY InboxTypes, LinesAre, QueueIs
<1>2. more \in Seq(Line) /\ Len(more) = n
    BY <1>1 DEF Line
<1>3. \A i \in 1..n : more[i].op = "consumed" /\ more[i].signal = taken[i]
    BY <1>1
<1> HIDE DEF more
<1>4. /\ all \in Seq(Line) /\ Len(all) = m + n
      /\ \A i \in 1..(m + n) : all[i] = IF i <= m THEN effects[i] ELSE more[i - m]
    <2>1. /\ effects \o more \in Seq(Line) /\ Len(effects \o more) = Len(effects) + Len(more)
          /\ \A i \in 1 .. Len(effects) + Len(more) : (effects \o more)[i] =
                 IF i <= Len(effects) THEN effects[i] ELSE more[i - Len(effects)]
        BY <1>1, <1>2, ConcatProperties
    <2> QED BY <1>2, <2>1
<1>5. Read(taken) = all
    BY DEF Read, all, more
<1> HIDE DEF all
<1>6. \A i \in 1..m : i \in 1..(m + n) /\ i <= m
    BY <1>1
<1>7. \A i \in 1..n : m + i \in 1..(m + n) /\ ~ (m + i <= m) /\ (m + i) - m = i
    BY <1>1
<1>8. \A i \in 1..m : all[i] = effects[i]
    BY <1>4, <1>6
<1>9. \A i \in 1..n : all[m + i] = more[i]
    <2> TAKE i \in 1..n
    <2>1. m + i \in 1..(m + n) /\ ~ (m + i <= m) /\ (m + i) - m = i
        BY <1>7
    <2>2. all[m + i] = more[(m + i) - m]
        BY <1>4, <2>1
    <2> QED BY <2>1, <2>2
<1>10. \A i \in 1..(m + n) : i \in 1..m \/ (i - m \in 1..n /\ m + (i - m) = i)
    BY <1>1
<1>11. ASSUME NEW op, NEW s, Says(all, op, s) PROVE Says(effects, op, s) \/ (op = "consumed" /\ Stands(s, taken))
    <2>1. PICK i \in 1..(m + n) : all[i].op = op /\ all[i].signal = s
        BY <1>4, <1>11 DEF Says
    <2>2. CASE i \in 1..m
        BY <1>8, <2>1, <2>2 DEF Says, m
    <2>3. CASE i - m \in 1..n /\ m + (i - m) = i
        <3>1. all[i] = more[i - m]
            BY <1>9, <2>3
        <3> QED BY <1>3, <2>1, <2>3, <3>1 DEF Stands, n
    <2> QED BY <1>10, <2>2, <2>3
<1>12. ASSUME NEW op, NEW s, Says(effects, op, s) PROVE Says(all, op, s)
    BY <1>4, <1>6, <1>8, <1>12 DEF Says, m
<1>13. ASSUME NEW s, Stands(s, taken) PROVE Says(all, "consumed", s)
    <2>1. PICK i \in 1..n : taken[i] = s
        BY <1>13 DEF Stands, n
    <2>2. m + i \in 1..Len(all) /\ all[m + i].op = "consumed" /\ all[m + i].signal = s
        BY <1>3, <1>4, <1>7, <1>9, <2>1
    <2> QED BY <2>2 DEF Says
<1> QED BY <1>3, <1>4, <1>5, <1>8, <1>9, <1>11, <1>12, <1>13

\* What a run reads it takes off its desk and notes, and the rest stays where
\* it was.
LEMMA Taking ==
  ASSUME InboxInv, NEW noted \in Seq(Signal), NEW left \in [Lanes -> Seq(Signal)],
         stage = "driving", effects' = Read(noted), desk' = left,
         UNCHANGED <<ledger, inboxes, stage, lent, sent, minted>>,
         strayed' \subseteq {"shed", "dropped", "blank", "refused"}, strayed \subseteq strayed',
         \A l \in Lanes : InTurn(left[l]) /\ Len(left[l]) <= Len(desk[l]),
         \A l \in Lanes : \A s : Stands(s, left[l]) => Stands(s, desk[l]) /\ ~ Stands(s, noted),
         \A s : Stands(s, noted) => \E l \in Lanes : Stands(s, desk[l]),
         \A i, j \in 1..Len(noted) : i # j => noted[i] # noted[j],
         strayed' = {} => \A l \in Lanes : \A s : Stands(s, desk[l]) => Stands(s, left[l]) \/ Stands(s, noted)
  PROVE  InboxInv'
<1> DEFINE m == Len(effects)
           n == Len(noted)
<1>0. InboxTypeOK /\ StageOK /\ IdsOK /\ ReadOK /\ HomeOK /\ SentOK /\ AllHome
    BY DEF InboxInv
<1>1. lent \in Addresses /\ sent = <<>> /\ Home[lent] = desk
    BY <1>0, InboxTypes DEF StageOK
<1>2. /\ m \in Nat /\ n \in Nat /\ effects' \in Seq(Line) /\ Len(effects') = m + n
      /\ \A i \in 1..m : effects'[i] = effects[i]
      /\ \A i \in 1..n : effects'[m + i].op = "consumed" /\ effects'[m + i].signal = noted[i]
      /\ \A op, s : Says(effects', op, s) <=> Says(effects, op, s) \/ (op = "consumed" /\ Stands(s, noted))
    <2>1. Len(effects) \in Nat /\ Len(noted) \in Nat
        BY <1>0, InboxTypes, LinesAre, QueueIs
    <2>2. /\ Read(noted) \in Seq(Line) /\ Len(Read(noted)) = Len(effects) + Len(noted)
          /\ \A i \in 1..Len(effects) : Read(noted)[i] = effects[i]
          /\ \A i \in 1..Len(noted) : /\ Read(noted)[Len(effects) + i].op = "consumed"
                                      /\ Read(noted)[Len(effects) + i].signal = noted[i]
          /\ \A op, s : Says(Read(noted), op, s) <=> Says(effects, op, s) \/ (op = "consumed" /\ Stands(s, noted))
        BY <1>0, ReadSays
    <2>3. effects' = Read(noted)
        OBVIOUS
    <2> QED BY <2>1, <2>2, <2>3
<1>3. \A i \in 1..Len(effects') : i \in 1..m \/ (i - m \in 1..n /\ m + (i - m) = i)
    BY <1>2
<1>4. /\ \A s : Says(effects', "enqueued", s) <=> Says(effects, "enqueued", s)
      /\ \A s : Says(effects', "consumed", s) <=> Says(effects, "consumed", s) \/ Stands(s, noted)
    BY <1>2
<1> HIDE DEF m, n
<1>5. \A s : Stands(s, noted) =>
          Says(ledger, "enqueued", s) /\ ~ Says(ledger, "consumed", s) /\ ~ Says(effects, "consumed", s) /\ s.room = lent
    BY <1>0, <1>1 DEF HomeOK, QueuesOK
<1>6. \A r \in Addresses : Home'[r] = IF r = lent THEN left ELSE Home[r]
    <2>1. lent' = lent /\ inboxes' = inboxes
        OBVIOUS
    <2> QED BY <1>0, <2>1, InboxTypes DEF Home
<1>7. InboxTypeOK' /\ StageOK'
    BY <1>0, <1>1, <1>2, SignalsAssumption DEF InboxTypeOK, StageOK
<1>8. IdsOK'
    <2>1. SentInTurn(effects')
        <3> SUFFICES ASSUME NEW i \in 1..Len(effects'), NEW j \in 1..Len(effects'), i < j,
                            effects'[i].op = "enqueued", effects'[j].op = "enqueued"
                     PROVE  effects'[i].signal.id < effects'[j].signal.id
            BY DEF SentInTurn
        <3>1. ASSUME NEW k \in 1..Len(effects'), effects'[k].op = "enqueued" PROVE k \in 1..m
            <4>1. CASE k - m \in 1..n /\ m + (k - m) = k
                <5>1. effects'[m + (k - m)].op = "consumed"
                    BY <1>2, <4>1
                <5> QED BY <3>1, <4>1, <5>1
            <4> QED BY <1>3, <4>1
        <3>2. i \in 1..m /\ j \in 1..m
            BY <3>1
        <3> QED BY <1>0, <1>2, <3>2 DEF IdsOK, SentInTurn, m
    <2> QED BY <1>0, <1>4, <2>1 DEF IdsOK
<1>9. ReadOK'
    <2>1. ReadOnce(effects')
        <3> SUFFICES \A i, j \in 1..Len(effects') : i < j /\ effects'[i].op = "consumed" /\ effects'[j].op = "consumed"
                                                        => effects'[i].signal # effects'[j].signal
            <4>1. Len(effects') \in Nat
                BY <1>2 DEF m, n
            <4>2. \A i, j \in 1..Len(effects') : i # j => i < j \/ j < i
                BY <4>1
            <4> QED BY <4>2 DEF ReadOnce
        <3> SUFFICES ASSUME NEW i \in 1..Len(effects'), NEW j \in 1..Len(effects'), i < j,
                            effects'[i].op = "consumed", effects'[j].op = "consumed"
                     PROVE  effects'[i].signal # effects'[j].signal
            OBVIOUS
        <3>1. CASE i \in 1..m /\ j \in 1..m
            BY <1>0, <1>2, <3>1 DEF ReadOK, ReadOnce, m
        <3>2. CASE i \in 1..m /\ j - m \in 1..n /\ m + (j - m) = j
            <4>1. effects'[j].signal = noted[j - m]
                BY <1>2, <3>2
            <4>2. Stands(noted[j - m], noted)
                BY <3>2 DEF Stands, n
            <4>3. Says(effects, "consumed", effects'[i].signal)
                BY <1>2, <3>2 DEF Says, m
            <4> QED BY <1>5, <4>1, <4>2, <4>3
        <3>3. CASE i - m \in 1..n /\ m + (i - m) = i /\ j - m \in 1..n /\ m + (j - m) = j
            <4>1. effects'[i].signal = noted[i - m] /\ effects'[j].signal = noted[j - m]
                BY <1>2, <3>3
            <4>2. i - m # j - m
                BY <3>3
            <4> QED BY <3>3, <4>1, <4>2 DEF n
        <3>4. ~ (j \in 1..m /\ i - m \in 1..n)
            BY <1>2
        <3> QED BY <1>3, <3>1, <3>2, <3>3, <3>4
    <2> QED BY <1>0, <1>4, <1>5, <2>1 DEF ReadOK
<1>10. \A r \in Addresses, l \in Lanes : \A s : Stands(s, Home'[r][l]) => Stands(s, Home[r][l]) /\ ~ Stands(s, noted)
    <2> SUFFICES ASSUME NEW r \in Addresses, NEW l \in Lanes, NEW s, Stands(s, Home'[r][l])
                 PROVE  Stands(s, Home[r][l]) /\ ~ Stands(s, noted)
        OBVIOUS
    <2>1. CASE r = lent
        BY <1>1, <1>6, <2>1
    <2>2. CASE r # lent
        <3>1. Stands(s, Home[r][l]) /\ s.room = r
            BY <1>0, <1>6, <2>2 DEF HomeOK, QueuesOK
        <3> QED BY <1>5, <2>2, <3>1
    <2> QED BY <2>1, <2>2
<1>11. HomeOK'
    <2>1. QueuesOK(Home')
        <3> SUFFICES ASSUME NEW r \in Addresses, NEW l \in Lanes
                     PROVE  /\ InTurn(Home'[r][l]) /\ Len(Home'[r][l]) <= Capacity
                            /\ \A s : Stands(s, Home'[r][l]) => s.room = r /\ s.lane = l
            BY DEF QueuesOK
        <3>1. InTurn(Home[r][l]) /\ Len(Home[r][l]) <= Capacity /\ \A s : Stands(s, Home[r][l]) => s.room = r /\ s.lane = l
            BY <1>0 DEF HomeOK, QueuesOK
        <3>2. Len(left[l]) \in Nat /\ Len(desk[l]) \in Nat /\ Capacity \in Nat
            BY <1>0, InboxTypes, QueueIs, SignalsAssumption
        <3>3. InTurn(Home'[r][l]) /\ Len(Home'[r][l]) <= Capacity
            BY <1>1, <1>6, <3>1, <3>2
        <3> QED BY <1>10, <3>1, <3>3
    <2>2. \A r \in Addresses, l \in Lanes : \A s : Stands(s, Home'[r][l]) =>
              Says(ledger, "enqueued", s) /\ ~ Says(ledger, "consumed", s) /\ ~ Says(effects', "consumed", s)
        BY <1>0, <1>4, <1>10 DEF HomeOK
    <2> QED BY <2>1, <2>2 DEF HomeOK, QueuesOK
<1>12. SentOK'
    <2>1. sent' = <<>> /\ stage' # "recording"
        BY <1>1
    <2> QED BY <2>1, NoneStands DEF SentOK
<1>13. AllHome'
    <2> SUFFICES ASSUME strayed' = {}, NEW s, Says(ledger, "enqueued", s), ~ Says(ledger, "consumed", s),
                        ~ Says(effects', "consumed", s)
                 PROVE  Stands(s, Home'[s.room][s.lane])
        BY DEF AllHome
    <2>1. s.room \in Addresses /\ s.lane \in Lanes
        BY <1>0, InboxTypes, LinesAre, SignalIs
    <2>2. Stands(s, Home[s.room][s.lane]) /\ ~ Stands(s, noted)
        <3>1. strayed = {} /\ ~ Says(effects, "consumed", s) /\ ~ Stands(s, noted) /\ ~ Stands(s, sent)
            BY <1>1, <1>4, NoneStands
        <3> QED BY <1>0, <3>1 DEF AllHome
    <2>3. CASE s.room = lent
        BY <1>1, <1>6, <2>1, <2>2, <2>3
    <2>4. CASE s.room # lent
        BY <1>6, <2>1, <2>2, <2>4
    <2> QED BY <2>3, <2>4
<1> QED BY <1>7, <1>8, <1>9, <1>11, <1>12, <1>13 DEF InboxInv

\* At most a bandwidth of signals, the urgent ones first.
LEMMA Pulls ==
  ASSUME InboxInv, pull
  PROVE  InboxInv'
<1> DEFINE a == desk["urgent"]
           b == desk["ordinary"]
           u == IF Len(a) < Bandwidth THEN Len(a) ELSE Bandwidth
           room == Bandwidth - u
           o == IF Len(b) < room THEN Len(b) ELSE room
           ua == SubSeq(a, 1, u)
           ub == SubSeq(b, 1, o)
           la == SubSeq(a, u + 1, Len(a))
           lb == SubSeq(b, o + 1, Len(b))
           noted == ua \o ub
           left == [desk EXCEPT !["urgent"] = la, !["ordinary"] = lb]
<1>0. InboxTypeOK /\ StageOK /\ HomeOK /\ desk \in [Lanes -> Seq(Signal)]
    BY InboxTypes DEF InboxInv
<1>1. /\ stage = "driving" /\ effects' = Read(noted) /\ desk' = left
      /\ UNCHANGED <<ledger, inboxes, stage, lent, sent, minted, strayed>>
    BY DEF pull
<1>2. "urgent" \in Lanes /\ "ordinary" \in Lanes /\ \A l \in Lanes : l = "urgent" \/ l = "ordinary"
    BY DEF Lanes
<1>3. a \in Seq(Signal) /\ b \in Seq(Signal) /\ Len(a) \in Nat /\ Len(b) \in Nat /\ Bandwidth \in Nat
    BY <1>0, <1>2, QueueIs, SignalsAssumption
<1>4. /\ InTurn(a) /\ InTurn(b)
      /\ \A s : Stands(s, a) => s.lane = "urgent"
      /\ \A s : Stands(s, b) => s.lane = "ordinary"
    <2>1. lent \in Addresses /\ Home[lent] = desk
        BY <1>0, <1>1, InboxTypes DEF StageOK
    <2> QED BY <1>0, <1>2, <2>1 DEF HomeOK, QueuesOK
<1>5. left \in [Lanes -> Seq(Signal)] => left["urgent"] = la /\ left["ordinary"] = lb
    BY <1>0, <1>2
<1>6. u \in 0..Len(a) /\ o \in 0..Len(b)
    BY <1>3
<1> HIDE DEF u, o
<1>7. /\ ua \in Seq(Signal) /\ InTurn(ua) /\ la \in Seq(Signal) /\ InTurn(la) /\ Len(la) <= Len(a)
      /\ \A s : Stands(s, a) <=> Stands(s, ua) \/ Stands(s, la)
      /\ \A s : ~ (Stands(s, ua) /\ Stands(s, la))
    BY <1>3, <1>4, <1>6, CutInTwo
<1>8. /\ ub \in Seq(Signal) /\ InTurn(ub) /\ lb \in Seq(Signal) /\ InTurn(lb) /\ Len(lb) <= Len(b)
      /\ \A s : Stands(s, b) <=> Stands(s, ub) \/ Stands(s, lb)
      /\ \A s : ~ (Stands(s, ub) /\ Stands(s, lb))
    BY <1>3, <1>4, <1>6, CutInTwo
<1> HIDE DEF ua, ub, la, lb
<1>9. /\ noted \in Seq(Signal) /\ \A s : Stands(s, noted) <=> Stands(s, ua) \/ Stands(s, ub)
      /\ \A i, j \in 1..Len(noted) : i # j => noted[i] # noted[j]
    <2> DEFINE x == Len(ua)
               y == Len(ub)
    <2>1. x \in Nat /\ y \in Nat
        BY <1>7, <1>8, QueueIs
    <2>2. /\ noted \in Seq(Signal) /\ Len(noted) = x + y
          /\ \A i \in 1..(x + y) : noted[i] = IF i <= x THEN ua[i] ELSE ub[i - x]
        <3>1. /\ ua \o ub \in Seq(Signal) /\ Len(ua \o ub) = Len(ua) + Len(ub)
              /\ \A i \in 1 .. Len(ua) + Len(ub) : (ua \o ub)[i] =
                     IF i <= Len(ua) THEN ua[i] ELSE ub[i - Len(ua)]
            BY <1>7, <1>8, ConcatProperties
        <3> QED BY <3>1
    <2> HIDE DEF noted
    <2>3. \A i \in 1..(x + y) : (i \in 1..x /\ noted[i] = ua[i]) \/ (i - x \in 1..y /\ ~ (i <= x) /\ noted[i] = ub[i - x])
        BY <2>1, <2>2
    <2>4. \A i \in 1..x : i \in 1..(x + y) /\ noted[i] = ua[i]
        BY <2>1, <2>2
    <2>5. \A i \in 1..y : x + i \in 1..(x + y) /\ noted[x + i] = ub[i]
        <3> TAKE i \in 1..y
        <3>1. x + i \in 1..(x + y) /\ ~ (x + i <= x) /\ (x + i) - x = i
            BY <2>1
        <3>2. noted[x + i] = ub[(x + i) - x]
            BY <2>2, <3>1
        <3> QED BY <3>1, <3>2
    <2>6. \A s : Stands(s, noted) <=> Stands(s, ua) \/ Stands(s, ub)
        <3>1. ASSUME NEW s, Stands(s, noted) PROVE Stands(s, ua) \/ Stands(s, ub)
            BY <2>2, <2>3, <3>1 DEF Stands
        <3>2. ASSUME NEW s, Stands(s, ua) PROVE Stands(s, noted)
            BY <2>2, <2>4, <3>2 DEF Stands
        <3>3. ASSUME NEW s, Stands(s, ub) PROVE Stands(s, noted)
            <4>1. PICK i \in 1..y : ub[i] = s
                BY <3>3 DEF Stands
            <4>2. x + i \in 1..Len(noted) /\ noted[x + i] = s
                BY <2>2, <2>5, <4>1
            <4> QED BY <4>2 DEF Stands
        <3> QED BY <3>1, <3>2, <3>3
    <2> HIDE DEF x, y
    <2>7. \A s : ~ (Stands(s, ua) /\ Stands(s, ub))
        BY <1>4, <1>7, <1>8
    <2>8. \A i, j \in 1..Len(noted) : i < j => noted[i] # noted[j]
        <3> SUFFICES ASSUME NEW i \in 1..(x + y), NEW j \in 1..(x + y), i < j, noted[i] = noted[j] PROVE FALSE
            BY <2>2
        <3>1. CASE i \in 1..x /\ noted[i] = ua[i] /\ j \in 1..x /\ noted[j] = ua[j]
            <4>1. ua[i].id < ua[j].id /\ ua[i].id \in Nat
                BY <1>7, <3>1, QueueIs, SignalIs DEF InTurn, x
            <4>2. ua[i] = ua[j]
                BY <3>1
            <4>3. ua[i].id < ua[i].id
                BY <4>1, <4>2
            <4> QED BY <4>1, <4>3
        <3>2. CASE i \in 1..x /\ noted[i] = ua[i] /\ j - x \in 1..y /\ noted[j] = ub[j - x]
            BY <2>7, <3>2 DEF Stands, x, y
        <3>3. CASE i - x \in 1..y /\ noted[i] = ub[i - x] /\ j - x \in 1..y /\ noted[j] = ub[j - x]
            <4>1. i - x < j - x
                BY <2>1
            <4>2. ub[i - x].id < ub[j - x].id /\ ub[i - x].id \in Nat
                BY <1>8, <3>3, <4>1, QueueIs, SignalIs DEF InTurn, y
            <4>3. ub[i - x] = ub[j - x]
                BY <3>3
            <4>4. ub[i - x].id < ub[i - x].id
                BY <4>2, <4>3
            <4> QED BY <4>2, <4>4
        <3>4. ~ (j \in 1..x /\ ~ (i <= x))
            BY <2>1
        <3> QED BY <2>3, <3>1, <3>2, <3>3, <3>4
    <2>9. \A i, j \in 1..Len(noted) : i # j => i < j \/ j < i
        BY <2>1, <2>2
    <2> QED BY <2>2, <2>6, <2>8, <2>9
<1> HIDE DEF noted
<1>10. left \in [Lanes -> Seq(Signal)] /\ left["urgent"] = la /\ left["ordinary"] = lb
    BY <1>0, <1>2, <1>5, <1>7, <1>8
<1> HIDE DEF left
<1>11. ASSUME NEW l \in Lanes
       PROVE  /\ InTurn(left[l]) /\ Len(left[l]) <= Len(desk[l])
              /\ \A s : Stands(s, left[l]) => Stands(s, desk[l]) /\ ~ Stands(s, noted)
              /\ \A s : Stands(s, desk[l]) => Stands(s, left[l]) \/ Stands(s, noted)
    <2>1. CASE l = "urgent"
        <3>1. \A s : Stands(s, la) => Stands(s, a) /\ ~ Stands(s, noted)
            BY <1>4, <1>7, <1>8, <1>9
        <3> QED BY <1>7, <1>9, <1>10, <2>1, <3>1
    <2>2. CASE l = "ordinary"
        <3>1. \A s : Stands(s, lb) => Stands(s, b) /\ ~ Stands(s, noted)
            BY <1>4, <1>7, <1>8, <1>9
        <3> QED BY <1>8, <1>9, <1>10, <2>2, <3>1
    <2> QED BY <1>2, <2>1, <2>2
<1>12. \A s : Stands(s, noted) => \E l \in Lanes : Stands(s, desk[l])
    BY <1>2, <1>7, <1>8, <1>9
<1>13. strayed' \subseteq {"shed", "dropped", "blank", "refused"} /\ strayed \subseteq strayed'
    BY <1>0, <1>1 DEF InboxTypeOK
<1> QED BY <1>1, <1>9, <1>10, <1>11, <1>12, <1>13, Taking

\* A steer at a safe point; one with no text is taken and not noted.
LEMMA TakesSteer ==
  ASSUME InboxInv, take_steer
  PROVE  InboxInv'
<1> DEFINE a == desk["urgent"]
           h == Head(a)
           t == Tail(a)
           noted == IF h.blank THEN <<>> ELSE <<h>>
           left == [desk EXCEPT !["urgent"] = t]
<1>0. InboxTypeOK /\ StageOK /\ HomeOK /\ desk \in [Lanes -> Seq(Signal)] /\ effects \in Seq(Line)
    BY InboxTypes DEF InboxInv
<1>1. /\ stage = "driving" /\ a # <<>> /\ desk' = left
      /\ effects' = IF h.blank THEN effects ELSE Read(<<h>>)
      /\ UNCHANGED <<ledger, inboxes, stage, lent, sent, minted>>
      /\ strayed' = IF h.blank THEN strayed \cup {"blank"} ELSE strayed
    BY DEF take_steer
<1>2. "urgent" \in Lanes /\ "ordinary" \in Lanes /\ \A l \in Lanes : l = "urgent" \/ l = "ordinary"
    BY DEF Lanes
<1>3. \A l \in Lanes : desk[l] \in Seq(Signal) /\ Len(desk[l]) \in Nat
    BY <1>0, QueueIs
<1>4. \A l \in Lanes : InTurn(desk[l]) /\ \A s : Stands(s, desk[l]) => s.lane = l
    <2>1. lent \in Addresses /\ Home[lent] = desk
        BY <1>0, <1>1, InboxTypes DEF StageOK
    <2> QED BY <1>0, <2>1 DEF HomeOK, QueuesOK
<1>5. /\ h \in Signal /\ t \in Seq(Signal) /\ InTurn(t) /\ Len(t) <= Len(a)
      /\ \A s : Stands(s, a) <=> s = h \/ Stands(s, t)
      /\ ~ Stands(h, t)
    <2>1. a \in Seq(Signal) /\ InTurn(a)
        BY <1>2, <1>3, <1>4
    <2> HIDE DEF a
    <2>2. /\ h \in Signal /\ t \in Seq(Signal) /\ Len(t) = Len(a) - 1 /\ Len(a) \in Nat \ {0} /\ h = a[1]
          /\ \A i \in 1..Len(t) : t[i] = a[i + 1]
        BY <1>1, <2>1, HeadTailProperties, EmptySeq, LenProperties
    <2> HIDE DEF h, t
    <2>3. /\ \A i \in 1..Len(t) : i + 1 \in 1..Len(a) /\ 1 < i + 1
          /\ \A i \in 1..Len(a) : i = 1 \/ (i - 1 \in 1..Len(t) /\ (i - 1) + 1 = i)
          /\ 1 \in 1..Len(a) /\ Len(t) <= Len(a)
        BY <2>2
    <2>4. InTurn(t)
        <3> SUFFICES ASSUME NEW i \in 1..Len(t), NEW j \in 1..Len(t), i < j PROVE t[i].id < t[j].id
            BY DEF InTurn
        <3>1. i + 1 < j + 1
            BY <2>2
        <3>2. a[i + 1].id < a[j + 1].id
            BY <2>1, <2>3, <3>1 DEF InTurn
        <3> QED BY <2>2, <3>2
    <2>5. ASSUME NEW s, Stands(s, a) PROVE s = h \/ Stands(s, t)
        <3>1. PICK i \in 1..Len(a) : a[i] = s
            BY <2>5 DEF Stands
        <3>2. CASE i - 1 \in 1..Len(t) /\ (i - 1) + 1 = i
            <4>1. t[i - 1] = s
                BY <2>2, <3>1, <3>2
            <4> QED BY <3>2, <4>1 DEF Stands
        <3> QED BY <2>2, <2>3, <3>1, <3>2
    <2>6. ASSUME NEW s, Stands(s, t) PROVE Stands(s, a)
        BY <2>2, <2>3, <2>6 DEF Stands
    <2>7. Stands(h, a)
        BY <2>2, <2>3 DEF Stands
    <2>8. ~ Stands(h, t)
        <3> SUFFICES ASSUME NEW i \in 1..Len(t), t[i] = h PROVE FALSE
            BY DEF Stands
        <3>1. a[1].id < a[i + 1].id
            BY <2>1, <2>3 DEF InTurn
        <3>2. h.id < h.id /\ h.id \in Nat
            BY <2>2, <3>1, SignalIs
        <3> QED BY <3>2
    <2> QED BY <2>2, <2>3, <2>4, <2>5, <2>6, <2>7, <2>8
<1>6. left \in [Lanes -> Seq(Signal)] /\ left["urgent"] = t /\ left["ordinary"] = desk["ordinary"]
    BY <1>0, <1>2, <1>5
<1> HIDE DEF left, t
<1>7. /\ noted \in Seq(Signal) /\ effects' = Read(noted)
      /\ \A s : Stands(s, noted) <=> ~ h.blank /\ s = h
      /\ \A i, j \in 1..Len(noted) : i # j => noted[i] # noted[j]
    <2>1. CASE h.blank
        <3>1. noted = <<>> /\ effects' = effects
            BY <1>1, <2>1
        <3> DEFINE more == [i \in 1..Len(<<>>) |-> [op |-> "consumed", signal |-> <<>>[i]]]
        <3>2. more = <<>> /\ Read(<<>>) = effects \o more
            BY NoneStands DEF Read
        <3> HIDE DEF more
        <3>3. Read(<<>>) = effects
            BY <1>0, <3>2, ConcatEmptySeq
        <3> HIDE DEF noted
        <3>4. Len(noted) = 0 /\ noted \in Seq(Signal) /\ \A s : ~ Stands(s, noted)
            BY <3>1, NoneStands
        <3> QED BY <2>1, <3>1, <3>3, <3>4
    <2>2. CASE ~ h.blank
        <3>1. noted = <<h>> /\ effects' = Read(<<h>>)
            BY <1>1, <2>2
        <3> HIDE DEF noted, h
        <3>2. noted \in Seq(Signal) /\ Len(noted) = 1 /\ noted[1] = h
            BY <1>5, <3>1
        <3>3. \A i \in 1..Len(noted) : i = 1
            BY <3>2
        <3>4. \A s : Stands(s, noted) <=> s = h
            BY <3>2, <3>3 DEF Stands
        <3> QED BY <2>2, <3>1, <3>2, <3>3, <3>4
    <2> QED BY <2>1, <2>2
<1> HIDE DEF noted
<1>8. ASSUME NEW l \in Lanes
      PROVE  /\ InTurn(left[l]) /\ Len(left[l]) <= Len(desk[l])
             /\ \A s : Stands(s, left[l]) => Stands(s, desk[l]) /\ ~ Stands(s, noted)
             /\ strayed' = {} => \A s : Stands(s, desk[l]) => Stands(s, left[l]) \/ Stands(s, noted)
    <2>1. CASE l = "urgent"
        <3>1. strayed' = {} => ~ h.blank
            BY <1>1
        <3> QED BY <1>5, <1>6, <1>7, <2>1, <3>1
    <2>2. CASE l = "ordinary"
        <3>1. h.lane = "urgent"
            BY <1>2, <1>4, <1>5
        <3> QED BY <1>2, <1>3, <1>4, <1>6, <1>7, <2>2, <3>1
    <2> QED BY <1>2, <2>1, <2>2
<1>9. \A s : Stands(s, noted) => \E l \in Lanes : Stands(s, desk[l])
    BY <1>2, <1>5, <1>7
<1>10. strayed' \subseteq {"shed", "dropped", "blank", "refused"} /\ strayed \subseteq strayed'
    BY <1>0, <1>1 DEF InboxTypeOK
<1> QED BY <1>1, <1>6, <1>7, <1>8, <1>9, <1>10, Taking

\* The queue comes home, and what was sent will be delivered.
LEMMA SettlesDesks ==
  ASSUME InboxInv, settle_desks
  PROVE  InboxInv'
<1>0. InboxTypeOK /\ StageOK /\ IdsOK /\ ReadOK /\ HomeOK /\ SentOK /\ AllHome
    BY DEF InboxInv
<1>1. /\ stage = "driving" /\ lent \in Addresses /\ sent = <<>> /\ stage' = "recording"
      /\ inboxes' = [inboxes EXCEPT ![lent] = desk] /\ lent' = NoAddress /\ desk' = NoSignals
      /\ UNCHANGED <<ledger, effects, minted, strayed>>
    BY <1>0 DEF settle_desks, StageOK
<1>2. /\ sent' \in Seq(Signal) /\ InTurn(sent')
      /\ \A s : Stands(s, sent') <=> Says(effects, "enqueued", s)
    <2>1. effects \in Seq(Line) /\ SentInTurn(effects)
        BY <1>0, InboxTypes DEF IdsOK
    <2>2. /\ Enqueued(effects, {}) \in Seq(Signal) /\ InTurn(Enqueued(effects, {}))
          /\ \A s : Stands(s, Enqueued(effects, {})) <=> Says(effects, "enqueued", s) /\ s.id \notin {}
        BY <2>1, EnqueuedSays
    <2>3. sent' = Enqueued(effects, {})
        BY DEF settle_desks
    <2> QED BY <2>2, <2>3
<1>3. inboxes' \in AllBoxes /\ \A r \in Addresses : inboxes'[r] = Home[r]
    BY <1>0, <1>1, InboxTypes DEF AllBoxes
<1>4. \A r \in Addresses : Home'[r] = Home[r]
    <2>1. NoAddress \notin Addresses
        BY SignalsAssumption
    <2>2. \A r \in Addresses : (IF r = lent' THEN desk' ELSE inboxes'[r]) = Home[r]
        BY <1>1, <1>3, <2>1
    <2> QED BY <2>2 DEF Home
<1>5. InboxTypeOK' /\ StageOK'
    BY <1>0, <1>1, <1>2, <1>3, NothingWaits, SignalsAssumption DEF InboxTypeOK, StageOK, AllBoxes
<1>6. IdsOK' /\ ReadOK'
    BY <1>0, <1>1 DEF IdsOK, ReadOK
<1>7. HomeOK' /\ AllHome'
    <2>1. \A s : Says(ledger, "enqueued", s) => s.room \in Addresses /\ s.lane \in Lanes
        BY <1>0, InboxTypes, LinesAre, SignalIs
    <2>2. HomeOK'
        BY <1>0, <1>1, <1>4 DEF HomeOK, QueuesOK
    <2>3. AllHome'
        BY <1>0, <1>1, <1>4, <2>1, NoneStands DEF AllHome
    <2> QED BY <2>2, <2>3
<1>8. SentOK'
    <2>1. \A s, t : Says(ledger, "enqueued", s) /\ Says(effects, "enqueued", t) => s.id < t.id /\ s.id \in Nat
        BY <1>0, InboxTypes, LinesAre, SignalIs DEF IdsOK
    <2>2. \A s : Says(effects, "enqueued", s) => ~ Says(ledger, "enqueued", s)
        <3> SUFFICES ASSUME NEW s, Says(effects, "enqueued", s), Says(ledger, "enqueued", s) PROVE FALSE
            OBVIOUS
        <3>1. s.id < s.id /\ s.id \in Nat
            BY <2>1
        <3> QED BY <3>1
    <2>3. \A s : Says(effects, "enqueued", s) => ~ Says(ledger, "consumed", s) /\ ~ Says(effects, "consumed", s)
        BY <1>0, <2>2, ReadWasSent DEF ReadOK
    <2>4. \A r \in Addresses, l \in Lanes : \A s, t : Stands(t, Home[r][l]) /\ Stands(s, sent') => t.id < s.id
        BY <1>0, <1>2, <2>1 DEF HomeOK
    <2> QED BY <1>1, <1>2, <1>4, <2>3, <2>4 DEF SentOK
<1> QED BY <1>5, <1>6, <1>7, <1>8 DEF InboxInv

LEMMA SentInTurnAppend ==
  ASSUME NEW l \in Seq(Line), NEW x \in Line, SentInTurn(l),
         x.op = "enqueued" => \A t : Says(l, "enqueued", t) => t.id < x.signal.id
  PROVE  SentInTurn(Append(l, x))
<1> DEFINE a == Append(l, x)
           m == Len(l)
<1>1. m \in Nat /\ Len(a) = m + 1 /\ a[m + 1] = x /\ \A i \in 1..m : a[i] = l[i]
    BY SaysAppend, LinesAre
<1> HIDE DEF a
<1>2. \A i \in 1..Len(a) : i \in 1..m \/ i = m + 1
    BY <1>1
<1>3. ASSUME NEW i \in 1..Len(a), NEW j \in 1..Len(a), i < j, a[i].op = "enqueued", a[j].op = "enqueued"
      PROVE  a[i].signal.id < a[j].signal.id
    <2>1. i \in 1..m
        BY <1>1, <1>3
    <2>2. CASE j \in 1..m
        BY <1>1, <1>3, <2>1, <2>2 DEF SentInTurn, m
    <2>3. CASE j = m + 1
        <3>1. Says(l, "enqueued", a[i].signal)
            BY <1>1, <1>3, <2>1 DEF Says, m
        <3> QED BY <1>1, <1>3, <2>3, <3>1
    <2> QED BY <1>2, <2>2, <2>3
<1>4. SentInTurn(a)
    BY <1>3 DEF SentInTurn
<1> QED BY <1>4 DEF a

\* One more line of the landing is on the ledger.
LEMMA Records ==
  ASSUME InboxInv, record
  PROVE  InboxInv'
<1> DEFINE h == Head(effects)
           rest == Tail(effects)
           m == Len(ledger)
<1>0. InboxTypeOK /\ StageOK /\ IdsOK /\ ReadOK /\ HomeOK /\ SentOK /\ AllHome /\ ledger \in Seq(Line) /\ effects \in Seq(Line)
    BY InboxTypes DEF InboxInv
<1>1. /\ stage = "recording" /\ effects # <<>> /\ ledger' = Append(ledger, h) /\ effects' = rest
      /\ UNCHANGED <<inboxes, stage, lent, desk, sent, minted, strayed>>
    BY DEF record
<1>2. /\ effects' \in Seq(Line) /\ h \in Line /\ h = effects[1] /\ Len(effects) \in Nat \ {0} /\ Len(effects') = Len(effects) - 1
      /\ \A i \in 1..Len(effects') : effects'[i] = effects[i + 1] /\ i + 1 \in 1..Len(effects)
      /\ \A op, s : Says(effects, op, s) <=> Says(effects', op, s) \/ (h.op = op /\ h.signal = s)
    BY <1>0, <1>1, SaysTail
<1> HIDE DEF h, rest
<1>3. /\ ledger' \in Seq(Line) /\ m \in Nat /\ Len(ledger') = m + 1 /\ ledger'[m + 1] = h
      /\ \A i \in 1..m : ledger'[i] = ledger[i]
      /\ \A op, s : Says(ledger', op, s) <=> Says(ledger, op, s) \/ (h.op = op /\ h.signal = s)
    BY <1>0, <1>1, <1>2, SaysAppend, LinesAre
<1> HIDE DEF m
<1>4. 1 \in 1..Len(effects) /\ \A i \in 1..Len(effects') : 1 < i + 1 /\ i + 1 # 1
    BY <1>2
<1>5. /\ h.op \in {"enqueued", "consumed"}
      /\ h.op = "enqueued" => Says(effects, "enqueued", h.signal)
      /\ h.op = "consumed" => Says(effects, "consumed", h.signal)
    BY <1>0, <1>2, <1>4, LinesAre DEF Says
<1>6. Home' = Home
    BY <1>1 DEF Home
<1>7. \A i \in 1..Len(ledger') : i \in 1..m \/ i = m + 1
    BY <1>3
<1>8. InboxTypeOK' /\ StageOK'
    BY <1>0, <1>1, <1>2, <1>3 DEF InboxTypeOK, StageOK
<1>9. IdsOK'
    <2>1. SentInTurn(ledger')
        <3>1. h.op = "enqueued" => \A t : Says(ledger, "enqueued", t) => t.id < h.signal.id
            BY <1>0, <1>5 DEF IdsOK
        <3>2. SentInTurn(Append(ledger, h))
            BY <1>0, <1>2, <3>1, SentInTurnAppend DEF IdsOK
        <3> QED BY <1>1, <3>2
    <2>2. SentInTurn(effects')
        <3> SUFFICES ASSUME NEW i \in 1..Len(effects'), NEW j \in 1..Len(effects'), i < j,
                            effects'[i].op = "enqueued", effects'[j].op = "enqueued"
                     PROVE  effects'[i].signal.id < effects'[j].signal.id
            BY DEF SentInTurn
        <3>1. i + 1 < j + 1
            BY <1>2
        <3>2. /\ i + 1 \in 1..Len(effects) /\ effects'[i] = effects[i + 1]
              /\ j + 1 \in 1..Len(effects) /\ effects'[j] = effects[j + 1]
            BY <1>2
        <3>3. \A k, n \in 1..Len(effects) :
                k < n /\ effects[k].op = "enqueued" /\ effects[n].op = "enqueued" => effects[k].signal.id < effects[n].signal.id
            BY <1>0 DEF IdsOK, SentInTurn
        <3> QED BY ONLY <3>1, <3>2, <3>3, effects'[i].op = "enqueued", effects'[j].op = "enqueued"
    <2>3. \A s : Says(ledger', "enqueued", s) \/ Says(effects', "enqueued", s) => s.id <= minted'
        BY <1>0, <1>1, <1>2, <1>3 DEF IdsOK
    <2>4. ASSUME NEW s, NEW t, Says(ledger', "enqueued", s), Says(effects', "enqueued", t) PROVE s.id < t.id
        <3>1. CASE Says(ledger, "enqueued", s)
            BY <1>0, <1>2, <2>4, <3>1 DEF IdsOK
        <3>2. CASE h.op = "enqueued" /\ h.signal = s
            <4>1. PICK i \in 1..Len(effects') : effects'[i].op = "enqueued" /\ effects'[i].signal = t
                BY <2>4 DEF Says
            <4>2. effects[i + 1].op = "enqueued" /\ effects[i + 1].signal = t /\ effects[1].op = "enqueued" /\ effects[1].signal = s
                BY <1>2, <3>2, <4>1
            <4> QED BY <1>0, <1>2, <1>4, <4>2 DEF IdsOK, SentInTurn
        <3> QED BY <1>3, <2>4, <3>1, <3>2
    <2> QED BY <2>1, <2>2, <2>3, <2>4 DEF IdsOK
<1>10. ReadOK'
    <2>1. ReadOnce(ledger')
        <3>1. ASSUME NEW i \in 1..m, ledger[i].op = "consumed", h.op = "consumed" PROVE ledger[i].signal # h.signal
            <4>1. Says(ledger, "consumed", ledger[i].signal)
                BY <3>1 DEF Says, m
            <4> QED BY <1>0, <1>5, <3>1, <4>1 DEF ReadOK
        <3> SUFFICES ASSUME NEW i \in 1..Len(ledger'), NEW j \in 1..Len(ledger'), i # j,
                            ledger'[i].op = "consumed", ledger'[j].op = "consumed"
                     PROVE  ledger'[i].signal # ledger'[j].signal
            BY DEF ReadOnce
        <3>2. CASE i \in 1..m /\ j \in 1..m
            BY <1>0, <1>3, <3>2 DEF ReadOK, ReadOnce, m
        <3>3. CASE i \in 1..m /\ j = m + 1
            BY <1>3, <3>1, <3>3
        <3>4. CASE j \in 1..m /\ i = m + 1
            BY <1>3, <3>1, <3>4
        <3> QED BY <1>7, <3>2, <3>3, <3>4
    <2>2. ReadOnce(effects')
        <3> SUFFICES ASSUME NEW i \in 1..Len(effects'), NEW j \in 1..Len(effects'), i # j,
                            effects'[i].op = "consumed", effects'[j].op = "consumed"
                     PROVE  effects'[i].signal # effects'[j].signal
            BY DEF ReadOnce
        <3>1. i + 1 # j + 1
            BY <1>2
        <3>2. /\ i + 1 \in 1..Len(effects) /\ j + 1 \in 1..Len(effects)
              /\ effects'[i] = effects[i + 1] /\ effects'[j] = effects[j + 1]
            BY <1>2
        <3>3. effects[i + 1].op = "consumed" /\ effects[j + 1].op = "consumed"
            BY <3>2
        <3>4. effects[i + 1].signal # effects[j + 1].signal
            BY <1>0, <3>1, <3>2, <3>3 DEF ReadOK, ReadOnce
        <3> QED BY <3>2, <3>4
    <2>3. ASSUME NEW i \in 1..Len(ledger'), ledger'[i].op = "consumed"
          PROVE  \E j \in 1..(i - 1) : ledger'[j].op = "enqueued" /\ ledger'[j].signal = ledger'[i].signal
        <3>1. CASE i \in 1..m
            <4>1. PICK j \in 1..(i - 1) : ledger[j].op = "enqueued" /\ ledger[j].signal = ledger[i].signal
                BY <1>0, <1>3, <2>3, <3>1 DEF ReadOK, m
            <4>2. j \in 1..m
                BY <1>3, <3>1
            <4> QED BY <1>3, <3>1, <4>1, <4>2
        <3>2. CASE i = m + 1
            <4>1. Says(ledger, "enqueued", h.signal)
                BY <1>0, <1>3, <1>5, <2>3, <3>2 DEF ReadOK
            <4>2. PICK j \in 1..m : ledger[j].op = "enqueued" /\ ledger[j].signal = h.signal
                BY <4>1 DEF Says, m
            <4>3. j \in 1..(i - 1)
                BY <1>3, <3>2
            <4> QED BY <1>3, <3>2, <4>2, <4>3
        <3> QED BY <1>7, <3>1, <3>2
    <2>4. ASSUME NEW s, Says(effects', "consumed", s) PROVE Says(ledger', "enqueued", s) /\ ~ Says(ledger', "consumed", s)
        <3>1. Says(ledger, "enqueued", s) /\ ~ Says(ledger, "consumed", s)
            BY <1>0, <1>2, <2>4 DEF ReadOK
        <3>2. ~ (h.op = "consumed" /\ h.signal = s)
            <4> SUFFICES ASSUME h.op = "consumed", h.signal = s PROVE FALSE
                OBVIOUS
            <4>1. PICK i \in 1..Len(effects') : effects'[i].op = "consumed" /\ effects'[i].signal = s
                BY <2>4 DEF Says
            <4>2. effects[i + 1].op = "consumed" /\ effects[i + 1].signal = s /\ effects[1].op = "consumed" /\ effects[1].signal = s
                BY <1>2, <4>1
            <4> QED BY <1>0, <1>2, <1>4, <4>2 DEF ReadOK, ReadOnce
        <3> QED BY <1>3, <3>1, <3>2
    <2> QED BY <2>1, <2>2, <2>3, <2>4 DEF ReadOK
<1>11. \A s : /\ Says(ledger', "consumed", s) \/ Says(effects', "consumed", s) <=> Says(ledger, "consumed", s) \/ Says(effects, "consumed", s)
              /\ Says(ledger', "enqueued", s) \/ Says(effects', "enqueued", s) <=> Says(ledger, "enqueued", s) \/ Says(effects, "enqueued", s)
    BY <1>2, <1>3
<1>12. HomeOK'
    BY <1>0, <1>3, <1>6, <1>11 DEF HomeOK, QueuesOK
<1>13. SentOK'
    BY <1>0, <1>1, <1>2, <1>6, <1>11 DEF SentOK
<1>14. AllHome'
    <2> SUFFICES ASSUME strayed = {}, NEW s, Says(ledger', "enqueued", s), ~ Says(ledger', "consumed", s),
                        ~ Says(effects', "consumed", s), ~ Stands(s, sent)
                 PROVE  Stands(s, Home[s.room][s.lane])
        BY <1>1, <1>6 DEF AllHome
    <2>1. ~ (h.op = "enqueued" /\ h.signal = s)
        BY <1>0, <1>1, <1>5 DEF SentOK
    <2> QED BY <1>0, <1>3, <1>11, <2>1 DEF AllHome
<1> QED BY <1>8, <1>9, <1>10, <1>12, <1>13, <1>14 DEF InboxInv

LEMMA RefusedRecord ==
  ASSUME InboxInv, RecordFails
  PROVE  InboxInv'
<1>0. InboxTypeOK /\ StageOK /\ IdsOK /\ ReadOK /\ HomeOK /\ SentOK /\ AllHome
    BY DEF InboxInv
<1>1. /\ stage = "recording" /\ stage' = "idle" /\ effects' = <<>> /\ sent' = <<>> /\ strayed' = strayed \cup {"refused"}
      /\ UNCHANGED <<ledger, inboxes, lent, desk, minted>>
    BY DEF RecordFails
<1>2. /\ \A op, s : ~ Says(effects', op, s)
      /\ \A s : ~ Stands(s, sent')
      /\ InTurn(sent') /\ SentInTurn(effects') /\ ReadOnce(effects')
      /\ effects' \in Seq(Line) /\ sent' \in Seq(Signal)
    <2>1. \A i \in 1..Len(<<>>) : FALSE
        BY NoneStands
    <2> QED BY <1>1, <2>1, NoneStands, EmptySeq DEF SentInTurn, ReadOnce
<1>3. Home' = Home
    BY <1>1 DEF Home
<1>4. InboxTypeOK' /\ StageOK'
    BY <1>0, <1>1, <1>2 DEF InboxTypeOK, StageOK
<1>5. IdsOK' /\ ReadOK'
    BY <1>0, <1>1, <1>2 DEF IdsOK, ReadOK
<1>6. HomeOK' /\ SentOK' /\ AllHome'
    BY <1>0, <1>1, <1>2, <1>3 DEF HomeOK, SentOK, AllHome, QueuesOK
<1> QED BY <1>4, <1>5, <1>6 DEF InboxInv

\* All lines are recorded, and what was sent joins the queues.
LEMMA Delivers ==
  ASSUME InboxInv, Deliver
  PROVE  InboxInv'
<1>0. /\ InboxTypeOK /\ StageOK /\ IdsOK /\ ReadOK /\ HomeOK /\ SentOK /\ AllHome
      /\ inboxes \in AllBoxes /\ sent \in Seq(Signal)
    BY InboxTypes DEF InboxInv
<1>1. /\ stage = "recording" /\ stage' = "idle" /\ effects = <<>> /\ lent = NoAddress /\ desk = NoSignals /\ sent' = <<>>
      /\ inboxes' = Delivered(inboxes, sent)
      /\ strayed' = IF Shed(inboxes, sent) THEN strayed \cup {"shed"} ELSE strayed
      /\ UNCHANGED <<ledger, lent, desk, effects, minted>>
    BY <1>0 DEF Deliver, StageOK
<1>2. \A r \in Addresses : Home[r] = inboxes[r]
    BY <1>0, <1>1, InboxTypes
<1>3. /\ \A op, s : ~ Says(effects, op, s)
      /\ \A s : ~ Stands(s, sent') /\ InTurn(sent') /\ sent' \in Seq(Signal)
    BY <1>1, NoneStands
<1>4. /\ inboxes' \in AllBoxes /\ QueuesOK(inboxes')
      /\ \A r \in Addresses, l \in Lanes : \A t :
            /\ Stands(t, inboxes[r][l]) => Stands(t, inboxes'[r][l])
            /\ Stands(t, inboxes'[r][l]) =>
                 Stands(t, inboxes[r][l]) \/ (Stands(t, sent) /\ r = t.room /\ l = t.lane)
    <2>1. QueuesOK(inboxes) /\ InTurn(sent)
        BY <1>0, <1>2 DEF HomeOK, SentOK, QueuesOK
    <2>2. \A r \in Addresses, l \in Lanes : \A t, s : Stands(t, inboxes[r][l]) /\ Stands(s, sent) => t.id < s.id
        BY <1>0, <1>2 DEF SentOK
    <2>3. /\ Delivered(inboxes, sent) \in AllBoxes /\ QueuesOK(Delivered(inboxes, sent))
          /\ \A r \in Addresses, l \in Lanes : \A t :
                /\ Stands(t, inboxes[r][l]) => Stands(t, Delivered(inboxes, sent)[r][l])
                /\ Stands(t, Delivered(inboxes, sent)[r][l]) =>
                     Stands(t, inboxes[r][l]) \/ (Stands(t, sent) /\ r = t.room /\ l = t.lane)
        BY <1>0, <2>1, <2>2, DeliveredKeeps
    <2> QED BY <1>1, <2>3
<1>5. \A r \in Addresses : Home'[r] = inboxes'[r]
    <2>1. NoAddress \notin Addresses /\ lent' = NoAddress
        BY <1>1, SignalsAssumption
    <2> QED BY <2>1 DEF Home
<1>6. InboxTypeOK' /\ StageOK'
    <2>1. strayed' \subseteq {"shed", "dropped", "blank", "refused"}
        BY <1>0, <1>1 DEF InboxTypeOK
    <2> QED BY <1>0, <1>1, <1>3, <1>4, <2>1, SignalsAssumption DEF InboxTypeOK, StageOK, AllBoxes
<1>7. IdsOK' /\ ReadOK'
    BY <1>0, <1>1 DEF IdsOK, ReadOK
<1>8. HomeOK'
    <2>1. QueuesOK(Home')
        BY <1>4, <1>5 DEF QueuesOK
    <2>2. \A s : Stands(s, sent) => Says(ledger, "enqueued", s) /\ ~ Says(ledger, "consumed", s)
        BY <1>0, <1>3 DEF SentOK
    <2>3. \A r \in Addresses, l \in Lanes : \A s : Stands(s, Home'[r][l]) =>
              Says(ledger, "enqueued", s) /\ ~ Says(ledger, "consumed", s)
        BY <1>0, <1>2, <1>4, <1>5, <2>2 DEF HomeOK
    <2> QED BY <1>1, <1>3, <2>1, <2>3 DEF HomeOK, QueuesOK
<1>9. SentOK'
    BY <1>1, <1>3 DEF SentOK
<1>10. AllHome'
    <2> SUFFICES ASSUME strayed' = {}, NEW s, Says(ledger, "enqueued", s), ~ Says(ledger, "consumed", s)
                 PROVE  Stands(s, Home'[s.room][s.lane])
        BY <1>1 DEF AllHome
    <2>1. s.room \in Addresses /\ s.lane \in Lanes
        BY <1>0, InboxTypes, LinesAre, SignalIs
    <2>2. strayed = {} /\ ~ Shed(inboxes, sent)
        BY <1>1
    <2>3. CASE Stands(s, sent)
        <3>1. PICK i \in 1..Len(sent) : sent[i] = s
            BY <2>3 DEF Stands
        <3>2. s \in Range(inboxes'[s.room][s.lane])
            BY <1>1, <2>2, <3>1 DEF Shed
        <3>3. inboxes'[s.room][s.lane] \in Seq(Signal)
            BY <1>4, <2>1 DEF AllBoxes
        <3>4. Stands(s, inboxes'[s.room][s.lane])
            BY <3>2, <3>3, LenProperties DEF Range, Stands
        <3> QED BY <1>5, <2>1, <3>4
    <2>4. CASE ~ Stands(s, sent)
        <3>1. Stands(s, Home[s.room][s.lane])
            BY <1>0, <1>3, <2>2, <2>4 DEF AllHome
        <3> QED BY <1>2, <1>4, <1>5, <2>1, <3>1
    <2> QED BY <2>3, <2>4
<1> QED BY <1>6, <1>7, <1>8, <1>9, <1>10 DEF InboxInv

LEMMA NewSignal ==
  ASSUME NEW i \in 1..MaxSignals, NEW r \in Addresses, NEW l \in Lanes, NEW b \in Blanks
  PROVE  [id |-> i, room |-> r, lane |-> l, blank |-> b] \in Signal
BY DEF Signal

\* A child's account is recorded and delivered at once.
LEMMA HandsBack ==
  ASSUME InboxInv, NEW r \in Addresses, deliver_handback(r)
  PROVE  InboxInv'
<1> DEFINE s == [id |-> minted + 1, room |-> r, lane |-> "ordinary", blank |-> FALSE]
           x == [op |-> "enqueued", signal |-> s]
<1>0. /\ InboxTypeOK /\ StageOK /\ IdsOK /\ ReadOK /\ HomeOK /\ SentOK /\ AllHome
      /\ inboxes \in AllBoxes /\ ledger \in Seq(Line) /\ minted \in Nat
    BY InboxTypes DEF InboxInv
<1>1. /\ stage = "idle" /\ minted < MaxSignals /\ FALSE \in Blanks /\ minted' = minted + 1
      /\ ledger' = Append(ledger, x) /\ inboxes' = deliver(inboxes, s)
      /\ strayed' = IF Len(inboxes[r]["ordinary"]) = Capacity THEN strayed \cup {"shed"} ELSE strayed
      /\ UNCHANGED <<stage, lent, desk, effects, sent>>
    BY DEF deliver_handback
<1>2. /\ s \in Signal /\ s.id = minted + 1 /\ s.room = r /\ s.lane = "ordinary" /\ "ordinary" \in Lanes
      /\ x \in Line /\ x.op = "enqueued" /\ x.signal = s
    <2>1. minted + 1 \in 1..MaxSignals /\ "ordinary" \in Lanes
        BY <1>0, <1>1, SignalsAssumption DEF Lanes
    <2>2. s \in Signal
        BY <1>1, <2>1, NewSignal
    <2> HIDE DEF s
    <2>3. x \in Line /\ x.op = "enqueued" /\ x.signal = s
        BY <2>2 DEF Line
    <2> QED BY <2>1, <2>2, <2>3 DEF s
<1> HIDE DEF s, x
<1>3. lent = NoAddress /\ effects = <<>> /\ sent = <<>> /\ \A a \in Addresses : Home[a] = inboxes[a]
    BY <1>0, <1>1, InboxTypes DEF StageOK
<1>4. (\A op, t : ~ Says(effects, op, t)) /\ (\A t : ~ Stands(t, sent))
    BY <1>3, NoneStands
<1>5. /\ ledger' \in Seq(Line) /\ Len(ledger) \in Nat /\ Len(ledger') = Len(ledger) + 1 /\ ledger'[Len(ledger) + 1] = x
      /\ \A i \in 1..Len(ledger) : ledger'[i] = ledger[i]
      /\ \A op, t : Says(ledger', op, t) <=> Says(ledger, op, t) \/ (x.op = op /\ x.signal = t)
    BY <1>0, <1>1, <1>2, SaysAppend, LinesAre
<1>6. /\ \A t : Says(ledger', "consumed", t) <=> Says(ledger, "consumed", t)
      /\ \A t : Says(ledger', "enqueued", t) <=> Says(ledger, "enqueued", t) \/ t = s
    BY <1>2, <1>5
<1>7. \A t : Says(ledger, "enqueued", t) => t.id \in Nat /\ t.id <= minted /\ t.id < s.id
    <2>1. \A t : Says(ledger, "enqueued", t) => t.id \in Nat /\ t.id <= minted
        BY <1>0, LinesAre, SignalIs DEF IdsOK
    <2> QED BY <1>0, <1>2, <2>1
<1>8. ~ Says(ledger, "enqueued", s) /\ ~ Says(ledger, "consumed", s)
    <2>1. ~ Says(ledger, "enqueued", s)
        <3>1. ~ (s.id < s.id)
            BY <1>0, <1>2
        <3> QED BY <1>7, <3>1
    <2> QED BY <1>0, <2>1, ReadWasSent
<1>9. QueuesOK(inboxes) /\ \A a \in Addresses, l \in Lanes : \A t : Stands(t, inboxes[a][l]) => t.id < s.id
    BY <1>0, <1>3, <1>7 DEF HomeOK, QueuesOK
<1>10. /\ inboxes' \in AllBoxes /\ QueuesOK(inboxes')
       /\ \A a \in Addresses, l \in Lanes : \A t :
             /\ Stands(t, inboxes[a][l]) => Stands(t, inboxes'[a][l])
             /\ Stands(t, inboxes'[a][l]) => Stands(t, inboxes[a][l]) \/ (t = s /\ a = s.room /\ l = s.lane)
       /\ Len(inboxes[s.room][s.lane]) < Capacity => Stands(s, inboxes'[s.room][s.lane])
    <2>1. /\ deliver(inboxes, s) \in AllBoxes /\ QueuesOK(deliver(inboxes, s))
          /\ \A a \in Addresses, l \in Lanes : \A t :
                /\ Stands(t, inboxes[a][l]) => Stands(t, deliver(inboxes, s)[a][l])
                /\ Stands(t, deliver(inboxes, s)[a][l]) => Stands(t, inboxes[a][l]) \/ (t = s /\ a = s.room /\ l = s.lane)
          /\ Len(inboxes[s.room][s.lane]) < Capacity => Stands(s, deliver(inboxes, s)[s.room][s.lane])
        <3>1. inboxes \in AllBoxes /\ s \in Signal /\ QueuesOK(inboxes)
            BY <1>0, <1>2, <1>9
        <3>2. \A a \in Addresses, l \in Lanes : \A t : Stands(t, inboxes[a][l]) => t.id < s.id
            BY <1>9
        <3> QED BY ONLY <3>1, <3>2, DeliverKeeps
    <2> QED BY <1>1, <2>1
<1>11. \A a \in Addresses : Home'[a] = inboxes'[a]
    <2>1. NoAddress \notin Addresses /\ lent' = NoAddress
        BY <1>1, <1>3, SignalsAssumption
    <2> QED BY <2>1 DEF Home
<1>12. InboxTypeOK' /\ StageOK'
    <2>1. strayed' \subseteq {"shed", "dropped", "blank", "refused"}
        BY <1>0, <1>1 DEF InboxTypeOK
    <2>2. minted' \in 0..MaxSignals
        BY <1>0, <1>1, SignalsAssumption
    <2> QED BY <1>0, <1>1, <1>3, <1>5, <1>10, <2>1, <2>2, SignalsAssumption DEF InboxTypeOK, StageOK, AllBoxes
<1>13. IdsOK'
    <2>1. SentInTurn(ledger')
        <3>1. SentInTurn(Append(ledger, x))
            BY <1>0, <1>2, <1>7, SentInTurnAppend DEF IdsOK
        <3> QED BY <1>1, <3>1
    <2>2. \A t : Says(ledger', "enqueued", t) => t.id <= minted'
        BY <1>0, <1>1, <1>2, <1>6, <1>7
    <2> QED BY <1>0, <1>1, <1>4, <2>1, <2>2 DEF IdsOK
<1>14. ReadOK'
    <2>1. \A i \in 1..Len(ledger') : ledger'[i].op = "consumed" => i \in 1..Len(ledger) /\ ledger'[i] = ledger[i]
        <3>1. \A i \in 1..Len(ledger') : i \in 1..Len(ledger) \/ i = Len(ledger) + 1
            BY <1>5
        <3> QED BY <1>2, <1>5, <3>1
    <2>2. ReadOnce(ledger')
        BY <1>0, <2>1 DEF ReadOK, ReadOnce
    <2>3. ASSUME NEW i \in 1..Len(ledger'), ledger'[i].op = "consumed"
          PROVE  \E j \in 1..(i - 1) : ledger'[j].op = "enqueued" /\ ledger'[j].signal = ledger'[i].signal
        <3>1. i \in 1..Len(ledger) /\ ledger'[i] = ledger[i] /\ ledger[i].op = "consumed"
            BY <2>1, <2>3
        <3>2. PICK j \in 1..(i - 1) : ledger[j].op = "enqueued" /\ ledger[j].signal = ledger[i].signal
            BY <1>0, <3>1 DEF ReadOK
        <3>3. j \in 1..Len(ledger)
            BY <1>5, <3>1
        <3> QED BY <1>5, <3>1, <3>2, <3>3
    <2> QED BY <1>0, <1>1, <1>4, <2>2, <2>3 DEF ReadOK
<1>15. HomeOK'
    <2>1. QueuesOK(Home')
        BY <1>10, <1>11 DEF QueuesOK
    <2>2. \A a \in Addresses, l \in Lanes : \A t : Stands(t, Home'[a][l]) =>
              Says(ledger', "enqueued", t) /\ ~ Says(ledger', "consumed", t)
        BY <1>0, <1>3, <1>6, <1>8, <1>10, <1>11 DEF HomeOK
    <2> QED BY <1>1, <1>4, <2>1, <2>2 DEF HomeOK, QueuesOK
<1>16. SentOK'
    BY <1>1, <1>3, <1>4, NoneStands DEF SentOK
<1>17. AllHome'
    <2> SUFFICES ASSUME strayed' = {}, NEW t, Says(ledger', "enqueued", t), ~ Says(ledger, "consumed", t)
                 PROVE  Stands(t, Home'[t.room][t.lane])
        BY <1>6 DEF AllHome
    <2>1. CASE t = s
        <3>1. Len(inboxes[r]["ordinary"]) # Capacity
            BY <1>1
        <3>2. Len(inboxes[r]["ordinary"]) <= Capacity
            BY <1>2, <1>9 DEF QueuesOK
        <3>3. Len(inboxes[r]["ordinary"]) \in Nat /\ Capacity \in Nat
            BY <1>0, <1>2, QueueIs, SignalsAssumption DEF AllBoxes
        <3>4. Len(inboxes[r]["ordinary"]) < Capacity
            BY <3>1, <3>2, <3>3
        <3> QED BY <1>2, <1>10, <1>11, <2>1, <3>4
    <2>2. CASE Says(ledger, "enqueued", t)
        <3>1. t.room \in Addresses /\ t.lane \in Lanes
            BY <1>0, <2>2, LinesAre, SignalIs
        <3>2. Stands(t, Home[t.room][t.lane])
            BY <1>0, <1>1, <1>4, <2>2 DEF AllHome
        <3> QED BY <1>3, <1>10, <1>11, <3>1, <3>2
    <2> QED BY <1>6, <2>1, <2>2
<1> QED BY <1>12, <1>13, <1>14, <1>15, <1>16, <1>17 DEF InboxInv

\* A restart keeps the ledger alone.
LEMMA Restarts ==
  ASSUME InboxInv, Restart
  PROVE  InboxInv'
<1>0. InboxTypeOK /\ IdsOK /\ ReadOK
    BY DEF InboxInv
<1>1. /\ inboxes' = Rebuilt(ledger) /\ stage' = "idle" /\ lent' = NoAddress /\ desk' = NoSignals
      /\ effects' = <<>> /\ sent' = <<>> /\ strayed' = IF Overflows(ledger) THEN {"shed"} ELSE {}
      /\ UNCHANGED <<ledger, minted>>
    BY DEF Restart
<1>2. /\ Rebuilt(ledger) \in AllBoxes /\ QueuesOK(Rebuilt(ledger))
      /\ \A r \in Addresses, l \in Lanes : \A s : Stands(s, Rebuilt(ledger)[r][l]) =>
            Says(ledger, "enqueued", s) /\ ~ Says(ledger, "consumed", s) /\ r = s.room /\ l = s.lane
    BY <1>0, RebuiltIs
<1>3. \A r \in Addresses : Home'[r] = Rebuilt(ledger)[r]
    <2>1. NoAddress \notin Addresses /\ lent' = NoAddress
        BY <1>1, SignalsAssumption
    <2> QED BY <1>1, <2>1 DEF Home
<1>4. /\ \A op, s : ~ Says(effects', op, s)
      /\ \A s : ~ Stands(s, sent')
      /\ InTurn(sent') /\ SentInTurn(effects') /\ ReadOnce(effects')
      /\ effects' \in Seq(Line) /\ sent' \in Seq(Signal)
    <2>1. \A i \in 1..Len(<<>>) : FALSE
        BY NoneStands
    <2> QED BY <1>1, <2>1, NoneStands, EmptySeq DEF SentInTurn, ReadOnce
<1>5. InboxTypeOK' /\ StageOK'
    <2>1. strayed' \subseteq {"shed", "dropped", "blank", "refused"}
        BY <1>1
    <2>2. inboxes' \in [Addresses -> [Lanes -> Seq(Signal)]]
        BY <1>1, <1>2 DEF AllBoxes
    <2> QED BY <1>0, <1>1, <1>4, <2>1, <2>2, NothingWaits, SignalsAssumption DEF InboxTypeOK, StageOK
<1>6. IdsOK' /\ ReadOK'
    BY <1>0, <1>1, <1>4 DEF IdsOK, ReadOK
<1>7. HomeOK'
    <2>1. QueuesOK(Home')
        BY <1>2, <1>3 DEF QueuesOK
    <2> QED BY <1>1, <1>2, <1>3, <1>4, <2>1 DEF HomeOK, QueuesOK
<1>8. SentOK'
    BY <1>1, <1>4 DEF SentOK
<1>9. AllHome'
    <2> SUFFICES ASSUME strayed' = {}, NEW s, Says(ledger, "enqueued", s), ~ Says(ledger, "consumed", s)
                 PROVE  Stands(s, Home'[s.room][s.lane])
        BY <1>1 DEF AllHome
    <2> DEFINE U == Unread(ledger)
    <2>1. s.room \in Addresses /\ s.lane \in Lanes
        BY <1>0, InboxTypes, LinesAre, SignalIs
    <2>2. ~ Overflows(ledger)
        BY <1>1
    <2>3. Stands(s, U)
        BY <1>0, UnreadIs
    <2>4. PICK i \in 1..Len(U) : U[i] = s
        BY <2>3 DEF Stands
    <2>5. s \in Range(Rebuilt(ledger)[s.room][s.lane])
        BY <2>2, <2>4 DEF Overflows, Shed, Rebuilt
    <2>6. Rebuilt(ledger)[s.room][s.lane] \in Seq(Signal)
        BY <1>2, <2>1 DEF AllBoxes
    <2>7. Stands(s, Rebuilt(ledger)[s.room][s.lane])
        BY <2>5, <2>6, LenProperties DEF Range, Stands
    <2> QED BY <1>3, <2>1, <2>7
<1> QED BY <1>5, <1>6, <1>7, <1>8, <1>9 DEF InboxInv

LEMMA InboxesStart == InboxesInit => InboxInv
<1> SUFFICES ASSUME InboxesInit PROVE InboxInv
    OBVIOUS
<1>1. /\ ledger = <<>> /\ inboxes = Empty /\ stage = "idle" /\ lent = NoAddress
      /\ desk = NoSignals /\ effects = <<>> /\ sent = <<>> /\ minted = 0 /\ strayed = {}
    BY DEF InboxesInit
<1>2. /\ \A op, s : ~ Says(ledger, op, s) /\ ~ Says(effects, op, s)
      /\ \A s : ~ Stands(s, sent)
      /\ InTurn(sent) /\ SentInTurn(effects) /\ ReadOnce(effects) /\ Len(ledger) = 0
      /\ effects \in Seq(Line) /\ sent \in Seq(Signal)
    <2>1. \A i \in 1..Len(<<>>) : FALSE
        BY NoneStands
    <2> QED BY <1>1, <2>1, NoneStands, EmptySeq DEF SentInTurn, ReadOnce
<1>3. \A r \in Addresses : Home[r] = Empty[r]
    BY <1>1, SignalsAssumption DEF Home
<1>4. /\ QueuesOK(Home)
      /\ \A r \in Addresses, l \in Lanes : \A s : ~ Stands(s, Home[r][l])
    BY <1>3, NothingWaits, NoneStands DEF QueuesOK
<1>5. InboxTypeOK
    <2>1. minted \in 0..MaxSignals
        BY <1>1, SignalsAssumption
    <2> QED BY <1>1, <1>2, <2>1, NothingWaits DEF InboxTypeOK, AllBoxes
<1>6. StageOK /\ IdsOK
    BY <1>1, <1>2, SignalsAssumption DEF StageOK, IdsOK
<1>7. ReadOK
    BY <1>1, <1>2 DEF ReadOK
<1>8. HomeOK /\ SentOK /\ AllHome
    BY <1>1, <1>2, <1>4 DEF HomeOK, SentOK, AllHome
<1> QED BY <1>5, <1>6, <1>7, <1>8 DEF InboxInv

LEMMA InboxStep ==
  ASSUME InboxInv, InboxesNext \/ UNCHANGED inboxVars
  PROVE  InboxInv'
<1>1. CASE UNCHANGED inboxVars
    <2>1. /\ UNCHANGED <<ledger, inboxes, stage, lent, desk, effects, sent, minted, strayed>>
        BY <1>1 DEF inboxVars
    <2>2. Home' = Home
        BY <2>1 DEF Home
    <2>3. InboxTypeOK' /\ StageOK' /\ IdsOK' /\ ReadOK'
        BY <2>1 DEF InboxInv, InboxTypeOK, StageOK, IdsOK, ReadOK
    <2>4. HomeOK' /\ SentOK' /\ AllHome'
        BY <2>1, <2>2 DEF InboxInv, HomeOK, SentOK, AllHome, QueuesOK
    <2> QED BY <2>3, <2>4 DEF InboxInv
<1>2. CASE InboxesNext
    <2>1. CASE \E r \in Addresses : open_desks(r) \/ deliver_handback(r)
        BY <2>1, OpenDesks, HandsBack
    <2>2. CASE Ready \/ Unready
        BY <2>2, ReadyOrNot
    <2>3. CASE \E to \in Addresses, lane \in Lanes, blank \in Blanks : send(to, lane, blank)
        BY <2>3, Sends
    <2>4. CASE pull \/ take_steer
        BY <2>4, Pulls, TakesSteer
    <2>5. CASE settle_desks \/ record \/ RecordFails \/ Deliver \/ Restart
        BY <2>5, SettlesDesks, Records, RefusedRecord, Delivers, Restarts
    <2> QED BY <1>2, <2>1, <2>2, <2>3, <2>4, <2>5 DEF InboxesNext
<1> QED BY <1>1, <1>2

-----------------------------------------------------------------------------
(* Knocks.                                                                   *)

KnockInv == KnockTypeOK /\ OneKnockEach /\ (pc = "handing" => handed # <<>>)

LEMMA KnockedOnce ==
  ASSUME NEW k \in Seq(Residents), IsInjective(k), NEW speaker, NEW room
  PROVE  Knocked(k, speaker, room) \in Seq(Residents) /\ IsInjective(Knocked(k, speaker, room))
<1>1. CASE room = speaker \/ room \in Range(k) \/ room \notin Residents
    BY <1>1 DEF Knocked
<1>2. CASE ~ (room = speaker \/ room \in Range(k) \/ room \notin Residents)
    <2> DEFINE a == Append(k, room)
               m == Len(k)
    <2>1. Knocked(k, speaker, room) = a
        BY <1>2 DEF Knocked
    <2>2. /\ a \in Seq(Residents) /\ m \in Nat /\ Len(a) = m + 1 /\ a[m + 1] = room
          /\ \A i \in 1..m : a[i] = k[i]
        BY <1>2, AppendProperties, LenProperties
    <2> HIDE DEF a
    <2>3. DOMAIN k = 1..m /\ DOMAIN a = 1..Len(a)
        BY <2>2, LenProperties
    <2> HIDE DEF m
    <2>4. \A i \in 1..Len(a) : i \in 1..m \/ i = m + 1
        BY <2>2
    <2>5. \A i \in 1..m : k[i] # room
        BY <1>2, <2>3 DEF Range
    <2>6. ASSUME NEW i \in 1..Len(a), NEW j \in 1..Len(a), a[i] = a[j] PROVE i = j
        <3>1. CASE i \in 1..m /\ j \in 1..m
            BY <2>2, <2>3, <2>6, <3>1 DEF IsInjective
        <3>2. CASE i = m + 1 /\ j = m + 1
            BY <3>2
        <3>3. CASE i \in 1..m /\ j = m + 1
            BY <2>2, <2>5, <2>6, <3>3
        <3>4. CASE j \in 1..m /\ i = m + 1
            BY <2>2, <2>5, <2>6, <3>4
        <3> QED BY <2>4, <3>1, <3>2, <3>3, <3>4
    <2> QED BY <2>1, <2>2, <2>3, <2>6 DEF IsInjective
<1> QED BY <1>1, <1>2

\* However much a run said, it leaves one knock for each it spoke to.
LEMMA SettledOnce ==
  ASSUME KnockTypeOK, OneKnockEach, NEW spoken, Len(spoken) \in Nat
  PROVE  Settled(spoken) \in Seq(Residents) /\ IsInjective(Settled(spoken))
<1> DEFINE n == Len(spoken)
<1>1. PICK f : /\ \A k \in 0..n : f[k] = IF k = 0 THEN knocks ELSE Knocked(f[k - 1], at, spoken[k])
               /\ Settled(spoken) = f[n]
    BY SettledIs
<1>2. n \in Nat
    OBVIOUS
<1> HIDE DEF n
<1> DEFINE G == {k \in 0..n : f[k] \in Seq(Residents) /\ IsInjective(f[k])}
<1>3. 0 \in G
    <2>1. 0 \in 0..n
        BY <1>2
    <2>2. f[0] = knocks
        BY <1>1, <2>1
    <2> QED BY <2>1, <2>2 DEF KnockTypeOK, OneKnockEach
<1>4. ASSUME NEW k \in Nat, k < n, k \in G PROVE k + 1 \in G
    <2>1. k + 1 \in 0..n /\ k + 1 # 0 /\ (k + 1) - 1 = k
        BY <1>2, <1>4
    <2>2. f[k + 1] = Knocked(f[(k + 1) - 1], at, spoken[k + 1])
        BY <1>1, <2>1
    <2>3. f[k + 1] = Knocked(f[k], at, spoken[k + 1])
        BY <2>1, <2>2
    <2>4. f[k] \in Seq(Residents) /\ IsInjective(f[k])
        BY <1>4
    <2>5. f[k + 1] \in Seq(Residents) /\ IsInjective(f[k + 1])
        BY <2>3, <2>4, KnockedOnce
    <2> QED BY <2>1, <2>5
<1> HIDE DEF G
<1>5. \A k \in 0..n : k \in G
    BY <1>2, <1>3, <1>4, CountedUp
<1>6. n \in G
    BY <1>2, <1>5
<1> QED BY <1>1, <1>6 DEF G

LEMMA RestOfWave ==
  ASSUME NEW S, NEW q \in Seq(S), q # <<>>
  PROVE  Head(q) \in S /\ Tail(q) \in Seq(S) /\ (IsInjective(q) => IsInjective(Tail(q)))
<1> DEFINE t == Tail(q)
<1>1. /\ Head(q) \in S /\ t \in Seq(S) /\ Len(t) = Len(q) - 1 /\ Len(q) \in Nat
      /\ \A i \in 1..Len(t) : t[i] = q[i + 1]
    BY HeadTailProperties, LenProperties
<1> HIDE DEF t
<1>2. DOMAIN q = 1..Len(q) /\ DOMAIN t = 1..Len(t)
    BY <1>1, LenProperties
<1>3. ASSUME IsInjective(q), NEW i \in 1..Len(t), NEW j \in 1..Len(t), t[i] = t[j] PROVE i = j
    <2>1. i + 1 \in 1..Len(q) /\ j + 1 \in 1..Len(q) /\ q[i + 1] = q[j + 1]
        BY <1>1, <1>3
    <2>2. i + 1 = j + 1
        BY <1>2, <1>3, <2>1 DEF IsInjective
    <2> QED BY <1>1, <2>2
<1>4. IsInjective(q) => IsInjective(t)
    BY <1>2, <1>3 DEF IsInjective
<1> QED BY <1>1, <1>4 DEF t

LEMMA NoneKnocks == <<>> \in Seq(Residents) /\ <<>> \in Seq(Rooms) /\ IsInjective(<<>>)
<1>1. <<>> \in Seq(Residents) /\ <<>> \in Seq(Rooms) /\ DOMAIN <<>> = {}
    BY EmptySeq
<1> QED BY <1>1 DEF IsInjective

LEMMA KnocksStart == KnockingInit => KnockInv
BY NoneKnocks DEF KnockingInit, KnockInv, KnockTypeOK, OneKnockEach

LEMMA SpokenIs ==
  ASSUME NEW s \in Spoken
  PROVE  Len(s) \in Nat
<1>1. PICK n \in 0..MaxSpoken : s \in [1..n -> Rooms]
    BY DEF Spoken
<1>2. n \in Nat
    BY UseAssumption
<1>3. s \in Seq(Rooms)
    BY <1>1, <1>2, SeqDef
<1> QED BY <1>3, LenProperties

LEMMA RunsEnd ==
  ASSUME KnockInv, NEW s \in Spoken, NEW h \in Handings, NEW ok \in BOOLEAN, RunEnds(s, h, ok)
  PROVE  KnockInv'
<1> DEFINE rest == IF ~ ok THEN <<>> ELSE IF child THEN handed ELSE h
<1>0. KnockTypeOK /\ OneKnockEach
    BY DEF KnockInv
<1>1. /\ knocks' = Settled(s) /\ called' = called \cup ((Range(s) \cap Residents) \ {at})
      /\ handed' = rest /\ pc' = IF rest # <<>> THEN "handing" ELSE After(ok)
      /\ at' = Nowhere /\ child' = FALSE /\ UNCHANGED <<source, wave, halted, waiting>>
    BY DEF RunEnds
<1>2. Settled(s) \in Seq(Residents) /\ IsInjective(Settled(s))
    BY <1>0, SpokenIs, SettledOnce
<1>3. h \in Seq(Rooms)
    <2>1. CASE h = <<>>
        BY <2>1, NoneKnocks
    <2>2. ASSUME NEW r \in Rooms, h = <<r>> PROVE h \in Seq(Rooms)
        BY <2>2
    <2> QED BY <2>1, <2>2 DEF Handings
<1>4. rest \in Seq(Rooms)
    BY <1>0, <1>3, NoneKnocks DEF KnockTypeOK
<1> HIDE DEF rest
<1>5. After(ok) \in {"answering", "idle"}
    BY DEF After
<1>6. KnockTypeOK'
    BY <1>0, <1>1, <1>2, <1>4, <1>5 DEF KnockTypeOK
<1>7. OneKnockEach'
    BY <1>0, <1>1, <1>2 DEF OneKnockEach
<1>8. pc' = "handing" => handed' # <<>>
    BY <1>1, <1>5
<1> QED BY <1>6, <1>7, <1>8 DEF KnockInv

LEMMA Starts ==
  ASSUME NEW addr \in Scopes, NEW by, NEW isChild, Start(addr, by, isChild)
  PROVE  /\ pc' = "running" /\ at' \in Rooms \cup {NewRoom}
         /\ source' = by /\ child' = isChild /\ called' \subseteq called
BY DEF Start, room_for, Scopes

LEMMA HandsDown ==
  ASSUME KnockInv, HandDown
  PROVE  KnockInv'
<1>0. KnockTypeOK /\ OneKnockEach /\ pc = "handing" /\ handed # <<>> /\ handed \in Seq(Rooms)
    BY DEF KnockInv, KnockTypeOK, HandDown
<1>1. Head(handed) \in Scopes /\ Tail(handed) \in Seq(Rooms)
    BY <1>0, RestOfWave DEF Scopes
<1>2. UNCHANGED <<knocks, wave, halted, waiting>>
    BY DEF HandDown
<1>3. CASE Start(Head(handed), source, TRUE) /\ handed' = Tail(handed)
    <2>1. /\ pc' = "running" /\ at' \in Rooms \cup {NewRoom}
          /\ source' = source /\ child' = TRUE /\ called' \subseteq called
        BY <1>1, <1>3, Starts
    <2> QED BY <1>0, <1>1, <1>2, <1>3, <2>1 DEF KnockInv, KnockTypeOK, OneKnockEach
<1>4. CASE handed' = <<>> /\ pc' = After(FALSE) /\ UNCHANGED <<at, source, child, called>>
    <2>1. After(FALSE) \in {"answering", "idle"}
        BY DEF After
    <2> QED BY <1>0, <1>2, <1>4, <2>1, NoneKnocks DEF KnockInv, KnockTypeOK, OneKnockEach
<1> QED BY <1>3, <1>4 DEF HandDown

LEMMA Answers ==
  ASSUME KnockInv, TakeWave \/ Answer \/ Answered
  PROVE  KnockInv'
<1>0. KnockTypeOK /\ OneKnockEach /\ wave \in Seq(Residents) /\ knocks \in Seq(Residents)
    BY DEF KnockInv, KnockTypeOK
<1>1. CASE TakeWave
    BY <1>0, <1>1, NoneKnocks DEF TakeWave, KnockInv, KnockTypeOK, OneKnockEach
<1>2. CASE Answer
    <2>1. wave # <<>> /\ pc = "answering" /\ wave' = Tail(wave) /\ UNCHANGED <<handed, knocks, halted, waiting>>
        BY <1>2 DEF Answer
    <2>2. Head(wave) \in Residents /\ Tail(wave) \in Seq(Residents) /\ IsInjective(Tail(wave))
        BY <1>0, <2>1, RestOfWave DEF OneKnockEach
    <2>3. OneKnockEach'
        BY <1>0, <2>1, <2>2 DEF OneKnockEach
    <2>4. CASE Start(Head(wave), "knock", FALSE)
        <3>1. /\ pc' = "running" /\ at' \in Rooms \cup {NewRoom}
              /\ source' = "knock" /\ child' = FALSE /\ called' \subseteq called
            BY <2>2, <2>4, RoomsAssumption, Starts DEF Scopes
        <3> QED BY <1>0, <2>1, <2>2, <2>3, <3>1 DEF KnockInv, KnockTypeOK
    <2>5. CASE called' = called \ {Head(wave)} /\ UNCHANGED <<pc, at, source, child>>
        BY <1>0, <2>1, <2>2, <2>3, <2>5 DEF KnockInv, KnockTypeOK
    <2> QED BY <1>2, <2>4, <2>5 DEF Answer
<1>3. CASE Answered
    BY <1>0, <1>3 DEF Answered, KnockInv, KnockTypeOK, OneKnockEach
<1> QED BY <1>1, <1>2, <1>3

LEMMA PersonAsks ==
  ASSUME KnockInv, NEW r \in Scopes,
         Halt(r) \/ AskHalt(r) \/ Release(r) \/ \E by \in Entrances : Dispatch(r, by)
  PROVE  KnockInv'
<1>0. KnockTypeOK /\ OneKnockEach
    BY DEF KnockInv
<1>1. CASE Halt(r) \/ AskHalt(r) \/ Release(r)
    <2>1. /\ halted' \subseteq Scopes /\ waiting' \subseteq Scopes
          /\ UNCHANGED <<pc, at, source, handed, child, knocks, wave, called>>
        BY <1>0, <1>1 DEF Halt, AskHalt, Release, KnockTypeOK
    <2> QED BY <1>0, <2>1 DEF KnockInv, KnockTypeOK, OneKnockEach
<1>2. ASSUME NEW by \in Entrances, Dispatch(r, by) PROVE KnockInv'
    <2>1. /\ pc' = "running" /\ at' \in Rooms \cup {NewRoom}
          /\ source' = by /\ child' = FALSE /\ called' \subseteq called
          /\ UNCHANGED <<handed, knocks, wave, halted, waiting>>
        BY <1>2, Starts DEF Dispatch
    <2>2. by \in {"dispatch", "tick"}
        BY UseAssumption
    <2> QED BY <1>0, <2>1, <2>2 DEF KnockInv, KnockTypeOK, OneKnockEach
<1> QED BY <1>1, <1>2

LEMMA KnockStep ==
  ASSUME KnockInv, KnockingNext \/ UNCHANGED knockVars
  PROVE  KnockInv'
<1>1. CASE UNCHANGED knockVars
    BY <1>1 DEF knockVars, KnockInv, KnockTypeOK, OneKnockEach
<1>2. CASE \E r \in Scopes : Halt(r) \/ AskHalt(r) \/ Release(r) \/ \E by \in Entrances : Dispatch(r, by)
    BY <1>2, PersonAsks
<1>3. CASE \E s \in Spoken, h \in Handings, ok \in BOOLEAN : RunEnds(s, h, ok)
    BY <1>3, RunsEnd
<1>4. CASE HandDown \/ TakeWave \/ Answer \/ Answered
    BY <1>4, HandsDown, Answers
<1> QED BY <1>1, <1>2, <1>3, <1>4 DEF KnockingNext, Worker

-----------------------------------------------------------------------------
(* The theorems.                                                             *)

SignalsInv == InboxInv /\ KnockInv

LEMMA SignalsHold == Spec => []SignalsInv
<1>1. Init => SignalsInv
    BY InboxesStart, KnocksStart DEF Init, SignalsInv
<1>2. SignalsInv /\ [Next]_<<part, knockVars, inboxVars>> => SignalsInv'
    <2> SUFFICES ASSUME SignalsInv, [Next]_<<part, knockVars, inboxVars>> PROVE SignalsInv'
        OBVIOUS
    <2>1. CASE Knocks
        BY <2>1, InboxStep, KnockStep DEF Knocks, SignalsInv
    <2>2. CASE Boxes
        BY <2>2, InboxStep, KnockStep DEF Boxes, SignalsInv
    <2>3. CASE UNCHANGED <<part, knockVars, inboxVars>>
        <3>1. UNCHANGED knockVars /\ UNCHANGED inboxVars
            BY <2>3
        <3> QED BY <3>1, InboxStep, KnockStep DEF SignalsInv
    <2> QED BY <2>1, <2>2, <2>3 DEF Next
<1> QED BY <1>1, <1>2, PTL DEF Spec

\* Between dispatches every room's queue is what folding the ledger would make
\* it, in order, unless a full lane shed, a desk was dropped, a blank steer was
\* taken or an append was refused since the process began (open_desks,
\* settle_desks, Landing::record and CollaborationFold::settle together).
THEOREM QueuesAreAlwaysTheLedger == Spec => []QueuesAreTheLedger
<1>1. SignalsInv => QueuesAreTheLedger
    BY InboxesAgree DEF SignalsInv, InboxInv, KnockInv, QueuesAreTheLedger
<1> QED BY <1>1, SignalsHold, PTL

\* No signal is read twice, on the ledger or in one process, and none is in two
\* places; and no resident is knocked for twice in one wave (SignalDesk::pull,
\* take_steer, RunWorker::knock).
THEOREM NothingIsEverTwice == Spec => []NothingTwice
<1>1. SignalsInv => NothingTwice
    BY NoneReadTwice, NoneInTwoPlaces DEF SignalsInv, KnockInv, NothingTwice
<1> QED BY <1>1, SignalsHold, PTL
=============================================================================
