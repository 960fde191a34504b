-------------------------- MODULE ReviewingProofs --------------------------
(* What holds of review for every set of residents, rooms, grounds and       *)
(* modes, and every bound on runs and calls.                                 *)
EXTENDS Reviewing, WellFoundedInduction, FiniteSetTheorems, SequenceTheorems, TLAPS

\* Every non-empty set of naturals has a least element.
LEMMA SmallestExists ==
  ASSUME NEW T \in SUBSET Nat, T # {}
  PROVE  \E x \in T : \A y \in T : x <= y
<1>1. \E x \in T : \A y \in T : ~ (<<y, x>> \in OpToRel(<, Nat))
  BY NatLessThanWellFounded, WFMin
<1>2. \A x, y \in T : ~ (<<y, x>> \in OpToRel(<, Nat)) => x <= y
  BY DEF OpToRel
<1> QED BY <1>1, <1>2

-----------------------------------------------------------------------------
(* The values of the state.                                                  *)
Line ==
  [kind : {"pr_opened"}, request : Request]
    \cup [kind : {"pr_merged", "pr_rejected"}, request : Request, by : Residents, in : Runs,
          commit : Seq(Commit)]
    \cup [kind : {"goal_registered", "goal_conflict"}, entry : Entry]
    \cup [kind : {"file_discarded"}, room : Rooms, run : Runs, at : Seq(Commit)]
    \cup [kind : {"asset_archived"}, run : Runs]

Busy == {"driving", "goals", "sweep", "shelf", "requests", "applying"}

Types ==
  /\ log \in Seq(Line) /\ requests \in Seq(Request) /\ goals \in Seq(Entry)
  /\ trunk \in Seq(Commit) /\ branch \in [Runs -> Seq(Commit)]
  /\ city \in FilesSet
  /\ DOMAIN trees \subseteq 1 .. served /\ \A r \in DOMAIN trees : trees[r] \in FilesSet
  /\ pc \in Busy \cup {"idle", "down"}
  /\ served \in 0 .. MaxRuns /\ died \in BOOLEAN
  /\ left \in [Things -> Nat]

(* A run at work is the last that was dispatched, and has a tree and a       *)
(* branch of its own, or neither.                                            *)
RunOK ==
  IF pc \in Busy
  THEN run \in Desk /\ run.id = served /\ (HasTree <=> branch[served] # <<>>)
  ELSE run = NoRun

BranchesOK == \A r \in Runs : r > served => branch[r] = <<>>

(* The registers are the folds. While a merge is being applied the line is   *)
(* ahead of the register by the answer it announced.                         *)
RegistersOK ==
  /\ pc \notin {"down", "applying"} => requests = FoldRequests(log)
  /\ pc = "applying" => FoldRequests(log) = retain(requests, Effect.request.branch)
  /\ goals = IF pc = "down" THEN <<>> ELSE FoldGoals(log)

HeldOnce(g) == \A i, j \in DOMAIN g : i # j => ~Clash(g[i], g[j])

(* The ground on the ledger, and what a desk has added to it. A goal's id    *)
(* is new, so the clash that detect_conflict skips is none.                  *)
HeldOK ==
  /\ HeldOnce(FoldGoals(log))
  /\ \A i \in DOMAIN log : Is(log[i], "goal_registered") =>
       /\ log[i].entry.id[1] <= served
       /\ pc \in {"driving", "goals"} => log[i].entry.id[1] < served

GroundOK ==
  pc \in {"driving", "goals"} =>
    /\ HeldOnce(run.registered)
    /\ run.registered = goals \o FoldGoals(GoalLines(run.goals))
    /\ \A i \in DOMAIN run.registered :
         run.registered[i].id[1] < served \/ run.registered[i].id[2] <= Len(run.goals)
    /\ \A i \in DOMAIN run.goals : run.goals[i].entry.id[1] = served

(* Every request anybody holds or answered was opened on the ledger.         *)
OnLedger(q) == \E i \in DOMAIN log : Requested(log[i]) /\ log[i].request = q

AnswersOK == \A i \in DOMAIN log : Answered(log[i]) => OnLedger(log[i].request)

DeskOK ==
  pc \in Busy =>
    /\ \A i \in DOMAIN run.open : OnLedger(run.open[i]) /\ run.open[i].branch < served
    /\ \A i \in DOMAIN run.effects :
         /\ run.effects[i].op = "Opened" => HasTree
         /\ run.effects[i].op # "Opened" =>
              OnLedger(run.effects[i].request) /\ run.effects[i].request.branch < served
         /\ run.effects[i].op = "Merged" => run.effects[i].request.implementer # run.who

(* A branch that was offered stays at the files that were offered: nobody    *)
(* writes to it but its own run, and that run only commits the same tree     *)
(* again.                                                                    *)
OpenedOK ==
  \A i \in DOMAIN log : Requested(log[i]) =>
    /\ log[i].request.branch <= served
    /\ pc \in {"driving", "goals", "sweep", "shelf"} => log[i].request.branch < served
    /\ branch[log[i].request.branch] # <<>>
    /\ TipTree(log[i].request.commit) = TipTree(branch[log[i].request.branch])
    /\ pc \in Busy /\ log[i].request.branch = served =>
         TipTree(branch[served]) =
           stage_scope(TipTree(branch[served]), trees[served], run.room, TRUE)

(* Between a merge's line and the move of the trunk.                         *)
ApplyingOK ==
  pc = "applying" =>
    /\ run.effects # <<>> /\ Effect.op = "Merged" /\ log # <<>>
    /\ Is(Last(log), "pr_merged") /\ Last(log).request = Effect.request
    /\ Last(log).commit = branch[Effect.request.branch]
    /\ IsPrefix(trunk, Last(log).commit)

(* The shelf. Merged counts a line, Landed one whose trunk has moved.        *)
Merged(r) == \E j \in Lines("pr_merged") : log[j].request.branch = r
Landed(r) == \E j \in Lines("pr_merged") :
               log[j].request.branch = r /\ ~(pc = "applying" /\ j = Len(log))
Archived(r) == \E i \in Lines("asset_archived") : log[i].run = r
Grows(c) == \A i, j \in DOMAIN c : i <= j => c[i].tree.shelf \subseteq c[j].tree.shelf

(* Where entries come from: a run's own, or of runs whose work was accepted. *)
OriginOK ==
  /\ \A x \in TipTree(trunk).shelf : Merged(x) /\ x \in city.shelf
  /\ \A r \in Runs : \A x \in TipTree(branch[r]).shelf : x = r \/ Merged(x)
  /\ \A r \in DOMAIN trees : \A x \in trees[r].shelf : x = r \/ Merged(x)
  /\ \A x \in city.shelf : Merged(x) \/ (x <= served /\ branch[x] = <<>>)

(* No commit takes an entry off the shelf, the next one neither.             *)
GrowsOK ==
  /\ Grows(trunk) /\ \A r \in Runs : Grows(branch[r])
  /\ pc \in Busy /\ HasTree => TipTree(branch[served]).shelf \subseteq trees[served].shelf

(* What was archived travels: into the tree, with the branch, to the trunk.  *)
ArchivedOK ==
  /\ \A r \in Runs : Archived(r) => r <= served
  /\ pc \in Busy /\ HasTree /\ Archived(served) => served \in trees[served].shelf
  /\ \A i \in DOMAIN log : Requested(log[i]) /\ Archived(log[i].request.branch) =>
       log[i].request.branch \in TipTree(branch[log[i].request.branch]).shelf
  /\ ~died => \A r \in Runs : Archived(r) /\ Landed(r) => r \in TipTree(trunk).shelf

Inv ==
  /\ Types /\ RunOK /\ BranchesOK
  /\ RegistersOK /\ HeldOK /\ GroundOK
  /\ AnswersOK /\ DeskOK /\ OpenedOK /\ ApplyingOK
  /\ OriginOK /\ GrowsOK /\ ArchivedOK
  /\ LandsOnAnothersWord /\ MergedIsInTheTrunk

(* The folds, as filters: the lines whose request still stands, and the      *)
(* lines that hold ground.                                                   *)
OpenAt(l) ==
  {i \in DOMAIN l : /\ Requested(l[i])
                    /\ \A j \in i + 1 .. Len(l) :
                         ~(Answered(l[j]) /\ l[j].request.branch = l[i].request.branch)}
Asked(l) == [i \in DOMAIN l |-> l[i].request]
GoalsAt(l) == {i \in DOMAIN l : Is(l[i], "goal_registered")}
Entries(l) == [i \in DOMAIN l |-> l[i].entry]

-----------------------------------------------------------------------------
(* Filters. The n-th place of a set of places is one of them, and adding a   *)
(* place behind all others moves none.                                       *)

LEMMA RankGrows ==
  ASSUME NEW m \in Nat, NEW S \in SUBSET (1 .. m), NEW i \in S, NEW j \in S
  PROVE  /\ IsFiniteSet(S) /\ Cardinality(S) \in Nat
         /\ Rank(S, i) \in Nat /\ Rank(S, j) \in Nat
         /\ i < j => Rank(S, i) < Rank(S, j)
<1>1. IsFiniteSet(1 .. m)
  BY FS_Interval
<1>2. IsFiniteSet(S) /\ Cardinality(S) \in Nat
  BY <1>1, FS_Subset, FS_CardinalityType
<1> DEFINE A == {k \in S : k <= i}
           B == {k \in S : k <= j}
<1>3. IsFiniteSet(A) /\ IsFiniteSet(B) /\ Cardinality(A) \in Nat /\ Cardinality(B) \in Nat
  <2>1. A \in SUBSET S /\ B \in SUBSET S
    OBVIOUS
  <2> HIDE DEF A, B
  <2> QED BY <2>1, <1>2, FS_Subset, FS_CardinalityType
<1>4. ASSUME i < j
      PROVE  Cardinality(A) < Cardinality(B)
  <2>0. i \in Nat /\ j \in Nat /\ \A k \in S : k \in Nat
    OBVIOUS
  <2>1. A \in SUBSET B /\ j \in B /\ j \notin A
    <3>1. j <= j /\ ~(j <= i) /\ \A k \in S : k <= i => k <= j
      BY <1>4, <2>0
    <3> QED BY <3>1, Zenon
  <2> HIDE DEF A, B
  <2>2. Cardinality(A) <= Cardinality(B) /\ (Cardinality(B) = Cardinality(A) => B = A)
    BY <2>1, <1>3, FS_Subset
  <2> QED BY <2>1, <2>2, <1>3
<1> QED BY <1>2, <1>3, <1>4 DEF Rank

LEMMA RankBehind ==
  ASSUME NEW m \in Nat, NEW S \in SUBSET (1 .. m)
  PROVE  /\ IsFiniteSet(S) /\ Cardinality(S) \in Nat
         /\ Cardinality(S \cup {m + 1}) = Cardinality(S) + 1
         /\ \A i \in S : Rank(S \cup {m + 1}, i) = Rank(S, i)
         /\ Rank(S \cup {m + 1}, m + 1) = Cardinality(S) + 1
<1>0. \A i \in S : i \in Nat /\ i <= m
  OBVIOUS
<1>1. IsFiniteSet(S) /\ Cardinality(S) \in Nat
  <2>1. IsFiniteSet(1 .. m)
    BY FS_Interval
  <2> QED BY <2>1, FS_Subset, FS_CardinalityType
<1>2. Cardinality(S \cup {m + 1}) = Cardinality(S) + 1
  <2>1. m + 1 \notin S
    OBVIOUS
  <2> QED BY <2>1, <1>1, FS_AddElement
<1>3. ASSUME NEW i \in S
      PROVE  Rank(S \cup {m + 1}, i) = Rank(S, i)
  <2>1. {j \in S \cup {m + 1} : j <= i} = {j \in S : j <= i}
    <3>1. i \in Nat /\ i <= m /\ ~(m + 1 <= i)
      BY <1>0
    <3>2. \A j : j \in S \cup {m + 1} /\ j <= i <=> j \in S /\ j <= i
      BY <3>1
    <3> QED BY <3>2, Zenon
  <2> QED BY <2>1 DEF Rank
<1>4. Rank(S \cup {m + 1}, m + 1) = Cardinality(S) + 1
  <2>1. {j \in S \cup {m + 1} : j <= m + 1} = S \cup {m + 1}
    <3>1. \A j \in S \cup {m + 1} : j <= m + 1
      BY <1>0
    <3> QED BY <3>1, Zenon
  <2> QED BY <2>1, <1>2 DEF Rank
<1> QED BY <1>1, <1>2, <1>3, <1>4

(* The initial part of a set of places.                                      *)
LEMMA UpTo ==
  ASSUME NEW m \in Nat, NEW S \in SUBSET (1 .. m + 1)
  PROVE  /\ S \cap (1 .. m) \in SUBSET (1 .. m)
         /\ S = S \cap (1 .. m) \/ (m + 1 \in S /\ S = (S \cap (1 .. m)) \cup {m + 1})
<1>1. \A i \in S : i \in 1 .. m \/ i = m + 1
  OBVIOUS
<1>2. S \cap (1 .. m) \in SUBSET (1 .. m)
  BY Zenon
<1>3. CASE m + 1 \in S
  BY <1>1, <1>2, <1>3, Zenon
<1>4. CASE m + 1 \notin S
  BY <1>1, <1>2, <1>4, Zenon
<1> QED BY <1>3, <1>4

LEMMA EveryRank ==
  ASSUME NEW m \in Nat, NEW S \in SUBSET (1 .. m), NEW n \in 1 .. Cardinality(S)
  PROVE  \E i \in S : Rank(S, i) = n
<1> DEFINE Ranked(k) == \A T \in SUBSET (1 .. k) : \A r \in 1 .. Cardinality(T) : \E i \in T : Rank(T, i) = r
           Bad == {k \in Nat : ~Ranked(k)}
<1>1. Bad = {}
  <2>1. SUFFICES ASSUME Bad # {} PROVE FALSE
    OBVIOUS
  <2>2. PICK k \in Bad : \A l \in Bad : k <= l
    <3>1. Bad \in SUBSET Nat
      OBVIOUS
    <3> HIDE DEF Bad
    <3> QED BY <2>1, <3>1, SmallestExists
  <2>0. PICK T \in SUBSET (1 .. k) : ~\A r \in 1 .. Cardinality(T) : \E i \in T : Rank(T, i) = r
    BY <2>2
  <2>3. PICK r \in 1 .. Cardinality(T) : ~\E i \in T : Rank(T, i) = r
    BY <2>0
  <2>4. k # 0
    <3>1. SUFFICES ASSUME k = 0 PROVE FALSE
      OBVIOUS
    <3>2. T = {}
      BY <3>1
    <3> QED BY <3>2, <2>3, FS_EmptySet
  <2>5. k - 1 \in Nat /\ k - 1 \notin Bad
    BY <2>2, <2>4
  <2>6. Ranked(k - 1)
    BY <2>5
  <2> DEFINE U == T \cap (1 .. k - 1)
  <2>7. U \in SUBSET (1 .. k - 1) /\ (T = U \/ T = U \cup {k})
    <3>1. k - 1 + 1 = k
      BY <2>2
    <3>2. T \in SUBSET (1 .. k - 1 + 1)
      BY <3>1, <2>0
    <3>3. /\ T \cap (1 .. k - 1) \in SUBSET (1 .. k - 1)
          /\ T = T \cap (1 .. k - 1) \/ T = (T \cap (1 .. k - 1)) \cup {k - 1 + 1}
      BY <2>5, <3>2, UpTo
    <3> QED BY <3>1, <3>3
  <2> HIDE DEF U
  <2>8. CASE T = U
    BY <2>3, <2>6, <2>7, <2>8
  <2>9. CASE T = U \cup {k}
    <3>1. /\ Cardinality(U) \in Nat /\ Cardinality(T) = Cardinality(U) + 1
          /\ \A i \in U : Rank(T, i) = Rank(U, i)
          /\ Rank(T, k) = Cardinality(U) + 1
      <4>1. k - 1 + 1 = k
        BY <2>5
      <4>2. T = U \cup {k - 1 + 1}
        BY <2>9, <4>1
      <4>3. /\ Cardinality(U) \in Nat /\ Cardinality(T) = Cardinality(U) + 1
            /\ \A i \in U : Rank(T, i) = Rank(U, i)
            /\ Rank(T, k - 1 + 1) = Cardinality(U) + 1
        <5> DEFINE p == k - 1
        <5>1. p \in Nat /\ U \in SUBSET (1 .. p) /\ T = U \cup {p + 1}
          BY <4>2, <2>5, <2>7
        <5> HIDE DEF p
        <5>2. /\ Cardinality(U) \in Nat /\ Cardinality(U \cup {p + 1}) = Cardinality(U) + 1
              /\ \A i \in U : Rank(U \cup {p + 1}, i) = Rank(U, i)
              /\ Rank(U \cup {p + 1}, p + 1) = Cardinality(U) + 1
          BY ONLY <5>1, RankBehind, Zenon
        <5>3. /\ Cardinality(U) \in Nat /\ Cardinality(T) = Cardinality(U) + 1
              /\ \A i \in U : Rank(T, i) = Rank(U, i)
              /\ Rank(T, p + 1) = Cardinality(U) + 1
          BY ONLY <5>1, <5>2
        <5> QED BY ONLY <5>3 DEF p
      <4> QED BY <4>1, <4>3
    <3>2. r \in 1 .. Cardinality(U) \/ r = Cardinality(U) + 1
      BY <3>1, <2>3
    <3>3. CASE r \in 1 .. Cardinality(U)
      <4>1. PICK i \in U : Rank(U, i) = r
        BY <2>6, <2>7, <3>3
      <4> QED BY <4>1, <3>1, <2>3, <2>9
    <3>4. CASE r = Cardinality(U) + 1
      BY <3>1, <3>4, <2>3, <2>9
    <3> QED BY <3>2, <3>3, <3>4
  <2> QED BY <2>7, <2>8, <2>9
<1>2. Ranked(m)
  BY <1>1
<1> QED BY <1>2

LEMMA NthIs ==
  ASSUME NEW m \in Nat, NEW S \in SUBSET (1 .. m), NEW n \in 1 .. Cardinality(S)
  PROVE  Nth(S, n) \in S /\ Rank(S, Nth(S, n)) = n
BY EveryRank DEF Nth

LEMMA NthUnique ==
  ASSUME NEW m \in Nat, NEW S \in SUBSET (1 .. m), NEW i \in S, Rank(S, i) \in 1 .. Cardinality(S)
  PROVE  Nth(S, Rank(S, i)) = i
<1> DEFINE j == Nth(S, Rank(S, i))
<1>1. j \in S /\ Rank(S, j) = Rank(S, i)
  BY NthIs
<1> HIDE DEF j
<1>2. i \in Nat /\ j \in Nat
  BY <1>1
<1>3. ~(i < j) /\ ~(j < i)
  <2>1. i < j => Rank(S, i) < Rank(S, j)
    BY <1>1, RankGrows
  <2>2. j < i => Rank(S, j) < Rank(S, i)
    BY <1>1, RankGrows
  <2>3. Rank(S, i) \in Nat
    BY RankGrows
  <2> QED BY <2>1, <2>2, <2>3, <1>1
<1>4. i = j
  BY <1>2, <1>3
<1> QED BY <1>4 DEF j

LEMMA NthBehind ==
  ASSUME NEW m \in Nat, NEW S \in SUBSET (1 .. m)
  PROVE  /\ Cardinality(S) \in Nat /\ Cardinality(S \cup {m + 1}) = Cardinality(S) + 1
         /\ \A n \in 1 .. Cardinality(S) : Nth(S \cup {m + 1}, n) = Nth(S, n)
         /\ Nth(S \cup {m + 1}, Cardinality(S) + 1) = m + 1
<1> DEFINE T == S \cup {m + 1}
<1>1. /\ Cardinality(S) \in Nat /\ Cardinality(T) = Cardinality(S) + 1
      /\ \A i \in S : Rank(T, i) = Rank(S, i)
      /\ Rank(T, m + 1) = Cardinality(S) + 1
  BY RankBehind
<1>2. T \in SUBSET (1 .. m + 1) /\ m + 1 \in Nat /\ m + 1 \in T /\ S \subseteq T
  OBVIOUS
<1> HIDE DEF T
<1>3. Nth(T, Cardinality(S) + 1) = m + 1
  <2>1. Rank(T, m + 1) \in 1 .. Cardinality(T)
    BY <1>1
  <2> QED BY <2>1, <1>1, <1>2, NthUnique
<1>4. ASSUME NEW n \in 1 .. Cardinality(S)
      PROVE  Nth(T, n) = Nth(S, n)
  <2>1. Nth(S, n) \in S /\ Rank(S, Nth(S, n)) = n
    BY NthIs
  <2>2. Nth(S, n) \in T /\ Rank(T, Nth(S, n)) = n
    BY <2>1, <1>1, <1>2
  <2>3. Rank(T, Nth(S, n)) \in 1 .. Cardinality(T)
    BY <2>2, <1>1
  <2>4. Nth(T, Rank(T, Nth(S, n))) = Nth(S, n)
    BY <2>2, <2>3, <1>2, NthUnique
  <2> QED BY <2>2, <2>4
<1> QED BY <1>1, <1>3, <1>4 DEF T
(* Picking from a sequence.                                                  *)
LEMMA PickedIs ==
  ASSUME NEW m \in Nat, NEW S \in SUBSET (1 .. m), NEW X, NEW v, \A i \in S : v[i] \in X
  PROVE  /\ Picked(v, S) \in Seq(X) /\ Len(Picked(v, S)) = Cardinality(S)
         /\ Cardinality(S) \in Nat
         /\ \A n \in 1 .. Cardinality(S) : Picked(v, S)[n] = v[Nth(S, n)] /\ Nth(S, n) \in S
<1>1. Cardinality(S) \in Nat
  BY NthBehind
<1>2. \A n \in 1 .. Cardinality(S) : Nth(S, n) \in S
  BY NthIs
<1>3. Picked(v, S) = [n \in 1 .. Cardinality(S) |-> v[Nth(S, n)]]
  BY DEF Picked
<1>4. Picked(v, S) \in [1 .. Cardinality(S) -> X]
  BY <1>2, <1>3
<1>5. Picked(v, S) \in Seq(X)
  BY <1>1, <1>4, SeqDef
<1>6. Len(Picked(v, S)) = Cardinality(S)
  BY <1>1, <1>3, <1>5, LenProperties
<1> QED BY <1>1, <1>2, <1>3, <1>5, <1>6

LEMMA PickedSame ==
  ASSUME NEW m \in Nat, NEW S \in SUBSET (1 .. m), NEW v, NEW w, \A i \in S : v[i] = w[i]
  PROVE  Picked(v, S) = Picked(w, S)
<1>1. \A n \in 1 .. Cardinality(S) : Nth(S, n) \in S
  BY NthIs
<1> QED BY <1>1 DEF Picked

LEMMA PickedBehind ==
  ASSUME NEW m \in Nat, NEW S \in SUBSET (1 .. m), NEW X, NEW v,
         \A i \in S \cup {m + 1} : v[i] \in X
  PROVE  Picked(v, S \cup {m + 1}) = Append(Picked(v, S), v[m + 1])
<1> DEFINE T == S \cup {m + 1}
           c == Cardinality(S)
<1>1. /\ c \in Nat /\ Cardinality(T) = c + 1
      /\ \A n \in 1 .. c : Nth(T, n) = Nth(S, n)
      /\ Nth(T, c + 1) = m + 1
  BY NthBehind
<1>2. /\ Picked(v, S) \in Seq(X) /\ Len(Picked(v, S)) = c
      /\ \A n \in 1 .. c : Picked(v, S)[n] = v[Nth(S, n)]
  <2> HIDE DEF c
  <2>1. \A i \in S : v[i] \in X
    OBVIOUS
  <2>2. /\ Picked(v, S) \in Seq(X) /\ Len(Picked(v, S)) = Cardinality(S)
        /\ Cardinality(S) \in Nat
        /\ \A n \in 1 .. Cardinality(S) : Picked(v, S)[n] = v[Nth(S, n)] /\ Nth(S, n) \in S
    BY ONLY m \in Nat, S \in SUBSET (1 .. m), <2>1, PickedIs, Zenon
  <2> QED BY ONLY <2>2 DEF c
<1>3. /\ Picked(v, T) \in Seq(X) /\ Len(Picked(v, T)) = c + 1
      /\ \A n \in 1 .. c + 1 : Picked(v, T)[n] = v[Nth(T, n)]
  <2> DEFINE q == m + 1
  <2>1. T \in SUBSET (1 .. q) /\ q \in Nat
    OBVIOUS
  <2> HIDE DEF T, c, q
  <2>2. \A i \in T : v[i] \in X
    BY DEF T
  <2>3. /\ Picked(v, T) \in Seq(X) /\ Len(Picked(v, T)) = Cardinality(T)
        /\ Cardinality(T) \in Nat
        /\ \A n \in 1 .. Cardinality(T) : Picked(v, T)[n] = v[Nth(T, n)] /\ Nth(T, n) \in T
    BY ONLY <2>1, <2>2, PickedIs, Zenon
  <2> QED BY <1>1, <2>3
<1> HIDE DEF T, c
<1> DEFINE L == Picked(v, T)
           R == Append(Picked(v, S), v[m + 1])
<1>4. v[m + 1] \in X
  OBVIOUS
<1>5. /\ R \in Seq(X) /\ Len(R) = c + 1 /\ R[c + 1] = v[m + 1]
      /\ \A n \in 1 .. c : R[n] = Picked(v, S)[n]
  <2> HIDE DEF R
  <2>1. R = Append(Picked(v, S), v[m + 1])
    BY DEF R
  <2> QED BY <1>2, <1>4, <2>1, AppendProperties
<1>6. \A n \in 1 .. c + 1 : L[n] = R[n]
  <2>1. \A n \in 1 .. c + 1 : n \in 1 .. c \/ n = c + 1
    BY <1>1
  <2> QED BY <1>1, <1>2, <1>3, <1>5, <2>1
<1>7. L = R
  <2> HIDE DEF L, R
  <2>1. L \in Seq(X) /\ Len(L) = c + 1
    BY <1>3 DEF L
  <2> QED BY <1>5, <1>6, <2>1, SeqEqual
<1> QED BY <1>7 DEF T

LEMMA PickedNone ==
  ASSUME NEW v
  PROVE  Picked(v, {}) = <<>>
BY FS_EmptySet DEF Picked

(* Filtering what was filtered is filtering once.                            *)
OfOthers(v, S, b) == {i \in S : v[i].branch # b}

LEMMA RetainPicked ==
  ASSUME NEW m \in Nat, NEW S \in SUBSET (1 .. m), NEW v, NEW b
  PROVE  retain(Picked(v, S), b) = Picked(v, OfOthers(v, S, b))
<1> DEFINE X == {v[i] : i \in S}
           T == OfOthers(v, S, b)
<1>0. \A i \in S : v[i] \in X
  OBVIOUS
<1> HIDE DEF X
<1> DEFINE Up(k) == S \cap (1 .. k)
           Keep(k) == {i \in Up(k) : v[i].branch # b}
           Once(k) == retain(Picked(v, Up(k)), b) = Picked(v, Keep(k))
           Bad == {k \in 0 .. m : ~Once(k)}
<1>1. \A k \in 0 .. m : Up(k) \in SUBSET (1 .. k) /\ Keep(k) \in SUBSET (1 .. k) /\ \A i \in Up(k) : v[i] \in X
  BY <1>0
<1>2. Bad = {}
  <2>1. SUFFICES ASSUME Bad # {} PROVE FALSE
    OBVIOUS
  <2>2. PICK k \in Bad : \A l \in Bad : k <= l
    <3>1. Bad \in SUBSET Nat
      OBVIOUS
    <3> HIDE DEF Bad
    <3> QED BY <2>1, <3>1, SmallestExists
  <2>3. ~Once(k) /\ k \in 0 .. m
    BY <2>2
  <2>4. k # 0
    <3>1. SUFFICES ASSUME k = 0 PROVE FALSE
      OBVIOUS
    <3>2. Up(0) = {} /\ Keep(0) = {}
      OBVIOUS
    <3>3. retain(<<>>, b) = Picked(<<>>, {})
      BY DEF retain
    <3>4. Once(0)
      BY <3>2, <3>3, PickedNone
    <3> QED BY <3>1, <3>4, <2>3
  <2> DEFINE p == k - 1
  <2>5. p \in Nat /\ p \in 0 .. m /\ k = p + 1 /\ Once(p)
    <3>1. p \in 0 .. m /\ p < k
      BY <2>3, <2>4
    <3>2. p \notin Bad
      BY <3>1, <2>2
    <3> QED BY <3>1, <3>2, <2>3
  <2> HIDE DEF p
  <2> DEFINE R == Picked(v, Up(p))
             c == Cardinality(Up(p))
             K == {n \in DOMAIN R : R[n].branch # b}
  <2>6. R \in Seq(X) /\ Len(R) = c /\ c \in Nat /\ DOMAIN R = 1 .. c
    <3>1. R \in Seq(X) /\ Len(R) = c /\ c \in Nat
      BY <1>1, <2>5, PickedIs
    <3> HIDE DEF R, c
    <3> QED BY <3>1, LenProperties
  <2>7. Picked(R, K) = Picked(v, Keep(p))
    BY <2>5 DEF retain
  <2>8. CASE k \notin S
    <3>1. Up(k) = Up(p)
      <4>1. \A i \in S : i \in 1 .. k <=> i \in 1 .. p
        BY <2>5, <2>8
      <4> QED BY <4>1
    <3>2. Keep(k) = Keep(p)
      BY <3>1
    <3> QED BY <3>1, <3>2, <2>3, <2>5
  <2>9. CASE k \in S
    <3>1. Up(k) = Up(p) \cup {p + 1}
      <4>1. \A i \in S : i \in 1 .. k <=> i \in 1 .. p \/ i = k
        BY <2>5
      <4>2. Up(k) = Up(p) \cup {k}
        BY <4>1, <2>9, Zenon
      <4> QED BY <4>2, <2>5
    <3> DEFINE x == v[p + 1]
               R2 == Append(R, x)
    <3>2. x \in X /\ p + 1 \in S
      <4>1. p + 1 \in S
        BY <2>5, <2>9
      <4> QED BY ONLY <4>1, <1>0
    <3>3. Picked(v, Up(k)) = R2
      <4>1. Up(p) \in SUBSET (1 .. p) /\ \A i \in Up(p) \cup {p + 1} : v[i] \in X
        BY <1>1, <2>5, <3>2
      <4> HIDE DEF Up
      <4> QED BY <4>1, <2>5, <3>1, PickedBehind
    <3>4. /\ DOMAIN R2 = 1 .. c + 1 /\ R2[c + 1] = x
          /\ \A n \in 1 .. c : R2[n] = R[n]
      <4> HIDE DEF R, c, x
      <4> QED BY <2>6, <3>2, AppendProperties
    <3> HIDE DEF x, R2
    <3> DEFINE K2 == {n \in DOMAIN R2 : R2[n].branch # b}
    <3>5. retain(Picked(v, Up(k)), b) = Picked(R2, K2)
      BY <3>3 DEF retain
    <3>6. K \in SUBSET (1 .. c) /\ Picked(R2, K) = Picked(R, K)
      <4>1. K \in SUBSET (1 .. c)
        BY <2>6
      <4> HIDE DEF K, R, c
      <4>2. \A n \in K : R2[n] = R[n]
        BY <3>4, <4>1
      <4> QED BY <4>1, <4>2, <2>6, PickedSame
    <3>7. CASE x.branch # b
      <4>1. Keep(k) = Keep(p) \cup {p + 1}
        <5>1. v[p + 1].branch # b
          BY <3>7 DEF x
        <5> HIDE DEF Up
        <5> QED BY <3>1, <5>1, Zenon
      <4>2. K2 = K \cup {c + 1}
        <5>1. \A n : n \in 1 .. c + 1 <=> n \in 1 .. c \/ n = c + 1
          BY <2>6
        <5> QED BY <5>1, <2>6, <3>4, <3>7
      <4>3. Picked(R2, K2) = Append(Picked(R2, K), R2[c + 1])
        <5>1. \A n \in K \cup {c + 1} : R2[n] \in X
          <6>1. \A n \in 1 .. c : R[n] \in X
            <7> HIDE DEF R, c
            <7> QED BY <2>6
          <6>2. \A n \in K : R2[n] \in X
            BY <3>4, <3>6, <6>1
          <6> QED BY <6>2, <3>2, <3>4
        <5> HIDE DEF K, K2, c, R
        <5>2. c \in Nat /\ K \in SUBSET (1 .. c)
          BY <2>6, <3>6
        <5>3. Picked(R2, K \cup {c + 1}) = Append(Picked(R2, K), R2[c + 1])
          BY ONLY <5>1, <5>2, PickedBehind, Zenon
        <5> QED BY ONLY <5>3, <4>2
      <4>4. Picked(v, Keep(k)) = Append(Picked(v, Keep(p)), v[p + 1])
        <5>1. Keep(p) \in SUBSET (1 .. p) /\ \A i \in Keep(p) \cup {p + 1} : v[i] \in X
          BY <1>1, <2>5, <3>2
        <5> HIDE DEF Keep
        <5> QED BY <5>1, <4>1, <2>5, PickedBehind
      <4> QED BY <2>3, <2>7, <3>4, <3>5, <3>6, <4>3, <4>4 DEF x
    <3>8. CASE ~(x.branch # b)
      <4>1. Keep(k) = Keep(p)
        <5>1. ~(v[p + 1].branch # b)
          BY <3>8 DEF x
        <5> HIDE DEF Up
        <5> QED BY <3>1, <5>1, Zenon
      <4>2. K2 = K
        <5>1. \A n : n \in 1 .. c + 1 <=> n \in 1 .. c \/ n = c + 1
          BY <2>6
        <5> QED BY <5>1, <2>6, <3>4, <3>8
      <4> QED BY <2>3, <2>7, <3>5, <3>6, <4>1, <4>2
    <3> QED BY <3>7, <3>8
  <2> QED BY <2>8, <2>9
<1>3. Once(m)
  <2>1. m \in 0 .. m
    OBVIOUS
  <2> HIDE DEF Once
  <2> QED BY <1>2, <2>1
<1>4. Up(m) = S
  OBVIOUS
<1>5. Keep(m) = T
  BY <1>4 DEF OfOthers
<1> QED BY <1>3, <1>4, <1>5
-----------------------------------------------------------------------------
(* The folds, line by line.                                                  *)
LEMMA LineKinds ==
  ASSUME NEW x \in Line
  PROVE  /\ Requested(x) => x.request \in Request /\ ~Answered(x) /\ ~Is(x, "goal_registered")
         /\ Answered(x) => /\ x.request \in Request /\ x.by \in Residents /\ x.commit \in Seq(Commit)
                           /\ ~Is(x, "goal_registered")
         /\ Is(x, "goal_registered") => x.entry \in Entry
         /\ Is(x, "asset_archived") => x.run \in Runs /\ ~Requested(x) /\ ~Answered(x)
BY DEF Line, Requested, Answered, Is

LEMMA SeqFacts ==
  ASSUME NEW X, NEW s \in Seq(X)
  PROVE  /\ Len(s) \in Nat /\ DOMAIN s = 1 .. Len(s)
         /\ \A i \in 1 .. Len(s) : s[i] \in X
         /\ s # <<>> => Len(s) > 0 /\ 1 \in 1 .. Len(s) /\ Len(s) \in 1 .. Len(s)
BY LenProperties, ElementOfSeq, EmptySeq

LEMMA AppendFacts ==
  ASSUME NEW X, NEW s \in Seq(X), NEW x \in X
  PROVE  /\ Append(s, x) \in Seq(X) /\ Len(Append(s, x)) = Len(s) + 1
         /\ DOMAIN Append(s, x) = 1 .. Len(s) + 1
         /\ \A i \in 1 .. Len(s) : i \in 1 .. Len(s) + 1 /\ Append(s, x)[i] = s[i]
         /\ Append(s, x)[Len(s) + 1] = x
         /\ \A i \in 1 .. Len(s) + 1 : i \in 1 .. Len(s) \/ i = Len(s) + 1
         /\ Append(s, x) # <<>> /\ Last(Append(s, x)) = x
<1>1. Len(s) \in Nat
  BY LenProperties
<1>2. /\ Append(s, x) \in Seq(X) /\ Len(Append(s, x)) = Len(s) + 1
      /\ \A i \in 1 .. Len(s) : Append(s, x)[i] = s[i]
      /\ Append(s, x)[Len(s) + 1] = x /\ Append(s, x) # <<>>
  BY AppendProperties
<1>3. DOMAIN Append(s, x) = 1 .. Len(s) + 1
  BY <1>2, LenProperties
<1>4. Last(Append(s, x)) = x
  BY <1>2 DEF Last
<1> QED BY <1>1, <1>2, <1>3, <1>4

LEMMA ConcatFacts ==
  ASSUME NEW X, NEW s \in Seq(X), NEW t \in Seq(X)
  PROVE  /\ s \o t \in Seq(X) /\ Len(s \o t) = Len(s) + Len(t)
         /\ DOMAIN (s \o t) = 1 .. Len(s) + Len(t)
         /\ \A i \in 1 .. Len(s) : i \in 1 .. Len(s) + Len(t) /\ (s \o t)[i] = s[i]
         /\ \A i \in 1 .. Len(t) : (s \o t)[Len(s) + i] = t[i]
         /\ \A i \in 1 .. Len(s) + Len(t) :
              i \in 1 .. Len(s) \/ \E j \in 1 .. Len(t) : i = Len(s) + j /\ (s \o t)[i] = t[j]
<1>1. Len(s) \in Nat /\ Len(t) \in Nat
  BY LenProperties
<1>2. /\ s \o t \in Seq(X) /\ Len(s \o t) = Len(s) + Len(t)
      /\ \A i \in 1 .. Len(s) + Len(t) :
           (s \o t)[i] = IF i <= Len(s) THEN s[i] ELSE t[i - Len(s)]
  BY ConcatProperties
<1>3. DOMAIN (s \o t) = 1 .. Len(s) + Len(t)
  BY <1>2, LenProperties
<1>4. \A i \in 1 .. Len(t) : (s \o t)[Len(s) + i] = t[i]
  <2>1. TAKE i \in 1 .. Len(t)
  <2>2. Len(s) + i \in 1 .. Len(s) + Len(t) /\ ~(Len(s) + i <= Len(s)) /\ Len(s) + i - Len(s) = i
    BY <1>1
  <2> QED BY <1>2, <2>2
<1>5. ASSUME NEW i \in 1 .. Len(s) + Len(t), i \notin 1 .. Len(s)
      PROVE  \E j \in 1 .. Len(t) : i = Len(s) + j /\ (s \o t)[i] = t[j]
  <2>1. i - Len(s) \in 1 .. Len(t) /\ i = Len(s) + (i - Len(s))
    BY <1>1, <1>5
  <2> QED BY <2>1, <1>4
<1>6. \A i \in 1 .. Len(s) : i \in 1 .. Len(s) + Len(t) /\ (s \o t)[i] = s[i]
  BY <1>1, <1>2
<1> QED BY <1>2, <1>3, <1>4, <1>5, <1>6

LEMMA AppendBehind ==
  ASSUME NEW X, NEW s \in Seq(X), NEW t \in Seq(X), NEW x \in X
  PROVE  s \o Append(t, x) = Append(s \o t, x)
OBVIOUS

LEMMA FoldIs ==
  ASSUME NEW l \in Seq(Line)
  PROVE  /\ OpenAt(l) \in SUBSET (1 .. Len(l)) /\ GoalsAt(l) \in SUBSET (1 .. Len(l))
         /\ \A i \in OpenAt(l) : Asked(l)[i] = l[i].request /\ Asked(l)[i] \in Request
         /\ \A i \in GoalsAt(l) : Entries(l)[i] = l[i].entry /\ Entries(l)[i] \in Entry
         /\ FoldRequests(l) = Picked(Asked(l), OpenAt(l))
         /\ FoldGoals(l) = Picked(Entries(l), GoalsAt(l))
<1>1. Len(l) \in Nat /\ DOMAIN l = 1 .. Len(l) /\ \A i \in 1 .. Len(l) : l[i] \in Line
  BY SeqFacts
<1>2. OpenAt(l) \in SUBSET (1 .. Len(l)) /\ GoalsAt(l) \in SUBSET (1 .. Len(l))
  BY <1>1 DEF OpenAt, GoalsAt
<1>3. \A i \in OpenAt(l) : Asked(l)[i] = l[i].request /\ Asked(l)[i] \in Request
  BY <1>1, <1>2, LineKinds DEF OpenAt, Asked
<1>4. \A i \in GoalsAt(l) : Entries(l)[i] = l[i].entry /\ Entries(l)[i] \in Entry
  BY <1>1, <1>2, LineKinds DEF GoalsAt, Entries
<1>5. FoldRequests(l) = [n \in 1 .. Cardinality(OpenAt(l)) |-> l[Nth(OpenAt(l), n)].request]
  BY Zenon DEF FoldRequests, OpenAt
<1>6. FoldGoals(l) = [n \in 1 .. Cardinality(GoalsAt(l)) |-> l[Nth(GoalsAt(l), n)].entry]
  BY Zenon DEF FoldGoals, GoalsAt
<1>7. \A n \in 1 .. Cardinality(OpenAt(l)) : Nth(OpenAt(l), n) \in OpenAt(l)
  BY <1>1, <1>2, NthIs
<1>8. \A n \in 1 .. Cardinality(GoalsAt(l)) : Nth(GoalsAt(l), n) \in GoalsAt(l)
  BY <1>1, <1>2, NthIs
<1>9. FoldRequests(l) = Picked(Asked(l), OpenAt(l))
  BY <1>3, <1>5, <1>7 DEF Picked
<1>10. FoldGoals(l) = Picked(Entries(l), GoalsAt(l))
  BY <1>4, <1>6, <1>8 DEF Picked
<1> QED BY <1>2, <1>3, <1>4, <1>9, <1>10

(* What the folds hold is on the ledger.                                     *)
LEMMA FoldHolds ==
  ASSUME NEW l \in Seq(Line)
  PROVE  /\ FoldRequests(l) \in Seq(Request) /\ FoldGoals(l) \in Seq(Entry)
         /\ \A n \in DOMAIN FoldRequests(l) : \E i \in DOMAIN l :
              Requested(l[i]) /\ l[i].request = FoldRequests(l)[n]
         /\ \A n \in DOMAIN FoldGoals(l) : \E i \in DOMAIN l :
              Is(l[i], "goal_registered") /\ l[i].entry = FoldGoals(l)[n]
<1>1. Len(l) \in Nat
  BY SeqFacts
<1>2. /\ FoldRequests(l) \in Seq(Request) /\ Len(FoldRequests(l)) = Cardinality(OpenAt(l))
      /\ \A n \in 1 .. Cardinality(OpenAt(l)) :
           /\ FoldRequests(l)[n] = Asked(l)[Nth(OpenAt(l), n)]
           /\ Nth(OpenAt(l), n) \in OpenAt(l)
  <2>1. /\ OpenAt(l) \in SUBSET (1 .. Len(l)) /\ \A i \in OpenAt(l) : Asked(l)[i] \in Request
        /\ FoldRequests(l) = Picked(Asked(l), OpenAt(l))
    BY FoldIs
  <2> HIDE DEF Asked, OpenAt
  <2>2. /\ Picked(Asked(l), OpenAt(l)) \in Seq(Request)
        /\ Len(Picked(Asked(l), OpenAt(l))) = Cardinality(OpenAt(l))
        /\ \A n \in 1 .. Cardinality(OpenAt(l)) :
             /\ Picked(Asked(l), OpenAt(l))[n] = Asked(l)[Nth(OpenAt(l), n)]
             /\ Nth(OpenAt(l), n) \in OpenAt(l)
    BY ONLY <1>1, <2>1, PickedIs, Zenon
  <2> QED BY ONLY <2>1, <2>2
<1>3. /\ FoldGoals(l) \in Seq(Entry) /\ Len(FoldGoals(l)) = Cardinality(GoalsAt(l))
      /\ \A n \in 1 .. Cardinality(GoalsAt(l)) :
           /\ FoldGoals(l)[n] = Entries(l)[Nth(GoalsAt(l), n)]
           /\ Nth(GoalsAt(l), n) \in GoalsAt(l)
  <2>1. /\ GoalsAt(l) \in SUBSET (1 .. Len(l)) /\ \A i \in GoalsAt(l) : Entries(l)[i] \in Entry
        /\ FoldGoals(l) = Picked(Entries(l), GoalsAt(l))
    BY FoldIs
  <2>2. /\ Picked(Entries(l), GoalsAt(l)) \in Seq(Entry)
        /\ Len(Picked(Entries(l), GoalsAt(l))) = Cardinality(GoalsAt(l))
        /\ \A n \in 1 .. Cardinality(GoalsAt(l)) :
             /\ Picked(Entries(l), GoalsAt(l))[n] = Entries(l)[Nth(GoalsAt(l), n)]
             /\ Nth(GoalsAt(l), n) \in GoalsAt(l)
    BY ONLY <1>1, <2>1, PickedIs, Zenon
  <2> QED BY ONLY <2>1, <2>2
<1>4. \A n \in DOMAIN FoldRequests(l) : \E i \in DOMAIN l :
              Requested(l[i]) /\ l[i].request = FoldRequests(l)[n]
  <2>1. TAKE n \in DOMAIN FoldRequests(l)
  <2>2. n \in 1 .. Cardinality(OpenAt(l))
    BY <1>2, SeqFacts
  <2> DEFINE i == Nth(OpenAt(l), n)
  <2>3. i \in OpenAt(l) /\ FoldRequests(l)[n] = Asked(l)[i]
    BY <1>2, <2>2
  <2>4. Asked(l)[i] = l[i].request
    BY <2>3, FoldIs
  <2>5. i \in DOMAIN l /\ Requested(l[i])
    BY <2>3 DEF OpenAt
  <2> QED BY <2>3, <2>4, <2>5
<1>5. \A n \in DOMAIN FoldGoals(l) : \E i \in DOMAIN l :
              Is(l[i], "goal_registered") /\ l[i].entry = FoldGoals(l)[n]
  <2>1. TAKE n \in DOMAIN FoldGoals(l)
  <2>2. n \in 1 .. Cardinality(GoalsAt(l))
    BY <1>3, SeqFacts
  <2> DEFINE i == Nth(GoalsAt(l), n)
  <2>3. i \in GoalsAt(l) /\ FoldGoals(l)[n] = Entries(l)[i]
    BY <1>3, <2>2
  <2>4. Entries(l)[i] = l[i].entry
    BY <2>3, FoldIs
  <2>5. i \in DOMAIN l /\ Is(l[i], "goal_registered")
    BY <2>3 DEF GoalsAt
  <2> QED BY <2>3, <2>4, <2>5
<1> QED BY <1>2, <1>3, <1>4, <1>5
(* Lines that neither open nor answer leave the requests as they were.       *)
LEMMA FoldQuiet ==
  ASSUME NEW l \in Seq(Line), NEW t \in Seq(Line),
         \A i \in 1 .. Len(t) : ~Requested(t[i]) /\ ~Answered(t[i])
  PROVE  FoldRequests(l \o t) = FoldRequests(l)
<1> DEFINE u == l \o t
<1>1. /\ u \in Seq(Line) /\ Len(u) = Len(l) + Len(t) /\ DOMAIN u = 1 .. Len(l) + Len(t)
      /\ \A i \in 1 .. Len(l) : i \in 1 .. Len(l) + Len(t) /\ u[i] = l[i]
      /\ \A i \in 1 .. Len(l) + Len(t) :
           i \in 1 .. Len(l) \/ \E j \in 1 .. Len(t) : i = Len(l) + j /\ u[i] = t[j]
  BY ConcatFacts
<1>2. Len(l) \in Nat /\ Len(t) \in Nat /\ DOMAIN l = 1 .. Len(l)
  BY SeqFacts
<1> HIDE DEF u
<1>3. ASSUME NEW i \in 1 .. Len(l)
      PROVE  (\A j \in i + 1 .. Len(u) : ~(Answered(u[j]) /\ u[j].request.branch = u[i].request.branch))
             <=> (\A j \in i + 1 .. Len(l) : ~(Answered(l[j]) /\ l[j].request.branch = l[i].request.branch))
  <2>1. \A j \in i + 1 .. Len(u) : (j \in i + 1 .. Len(l) /\ u[j] = l[j]) \/ ~Answered(u[j])
    <3>1. TAKE j \in i + 1 .. Len(u)
    <3>2. j \in 1 .. Len(l) + Len(t)
      BY <1>1, <1>2
    <3>3. CASE j \in 1 .. Len(l)
      BY <1>1, <3>3
    <3>4. CASE \E k \in 1 .. Len(t) : j = Len(l) + k /\ u[j] = t[k]
      BY <3>4
    <3> QED BY <1>1, <3>2, <3>3, <3>4
  <2>2. \A j \in i + 1 .. Len(l) : j \in i + 1 .. Len(u) /\ u[j] = l[j]
    BY <1>1, <1>2
  <2>3. u[i] = l[i]
    BY <1>1
  <2> QED BY <2>1, <2>2, <2>3
<1>4. ASSUME NEW i
      PROVE  i \in OpenAt(u) <=> i \in OpenAt(l)
  <2>1. CASE i \in 1 .. Len(l)
    <3>1. i \in DOMAIN u /\ u[i] = l[i]
      BY <1>1, <2>1
    <3> QED BY <1>2, <1>3, <2>1, <3>1 DEF OpenAt
  <2>2. CASE i \notin 1 .. Len(l)
    <3>1. i \in DOMAIN u => ~Requested(u[i])
      BY <1>1, <2>2
    <3> QED BY <1>2, <2>2, <3>1 DEF OpenAt
  <2> QED BY <2>1, <2>2
<1>5. OpenAt(u) = OpenAt(l)
  BY <1>4
<1>6. \A i \in OpenAt(l) : Asked(u)[i] = Asked(l)[i]
  <2>1. TAKE i \in OpenAt(l)
  <2>2. i \in 1 .. Len(l) /\ u[i] = l[i] /\ i \in DOMAIN u
    BY <1>1, <1>2 DEF OpenAt
  <2> QED BY <1>2, <2>2 DEF Asked
<1>7. Picked(Asked(u), OpenAt(l)) = Picked(Asked(l), OpenAt(l))
  <2>1. OpenAt(l) \in SUBSET (1 .. Len(l))
    BY FoldIs
  <2> QED BY <1>2, <1>6, <2>1, PickedSame
<1>8. FoldRequests(u) = Picked(Asked(u), OpenAt(u)) /\ FoldRequests(l) = Picked(Asked(l), OpenAt(l))
  BY <1>1, FoldIs
<1> QED BY <1>5, <1>7, <1>8 DEF u

LEMMA FoldOpened ==
  ASSUME NEW l \in Seq(Line), NEW x \in Line, Requested(x)
  PROVE  FoldRequests(Append(l, x)) = Append(FoldRequests(l), x.request)
<1> DEFINE u == Append(l, x)
           m == Len(l)
<1>1. /\ u \in Seq(Line) /\ Len(u) = m + 1 /\ DOMAIN u = 1 .. m + 1
      /\ \A i \in 1 .. m : i \in 1 .. m + 1 /\ u[i] = l[i]
      /\ u[m + 1] = x
      /\ \A i \in 1 .. m + 1 : i \in 1 .. m \/ i = m + 1
  BY AppendFacts
<1>2. m \in Nat /\ DOMAIN l = 1 .. m
  BY SeqFacts
<1>3. ~Answered(x) /\ x.request \in Request
  BY LineKinds
<1> HIDE DEF u, m
<1>4. ASSUME NEW i
      PROVE  i \in OpenAt(u) <=> i \in OpenAt(l) \/ i = m + 1
  <2>1. CASE i \in 1 .. m
    <3>1. i \in DOMAIN u /\ u[i] = l[i] /\ i \in DOMAIN l /\ i # m + 1
      BY <1>1, <1>2, <2>1
    <3>2. \A j \in i + 1 .. m + 1 : j \in i + 1 .. m \/ j = m + 1
      BY <1>2, <2>1
    <3>3. \A j \in i + 1 .. m : j \in i + 1 .. m + 1 /\ u[j] = l[j]
      BY <1>1, <1>2, <2>1
    <3> QED BY <1>1, <1>3, <3>1, <3>2, <3>3 DEF OpenAt, m
  <2>2. CASE i = m + 1
    <3>1. m + 1 + 1 .. m + 1 = {} /\ m + 1 \in 1 .. m + 1
      BY <1>2
    <3> QED BY <1>1, <2>2, <3>1 DEF OpenAt
  <2>3. CASE i \notin 1 .. m + 1
    <3>1. i \notin 1 .. m /\ i # m + 1
      BY <1>2, <2>3
    <3> QED BY <1>1, <1>2, <2>3, <3>1 DEF OpenAt
  <2> QED BY <1>1, <2>1, <2>2, <2>3
<1>5. OpenAt(u) = OpenAt(l) \cup {m + 1}
  BY <1>4
<1>6. /\ OpenAt(l) \in SUBSET (1 .. m) /\ \A i \in OpenAt(l) : Asked(l)[i] \in Request
      /\ \A i \in OpenAt(u) : Asked(u)[i] \in Request
      /\ FoldRequests(u) = Picked(Asked(u), OpenAt(u)) /\ FoldRequests(l) = Picked(Asked(l), OpenAt(l))
  BY <1>1, FoldIs DEF m
<1>7. Picked(Asked(u), OpenAt(l)) = Picked(Asked(l), OpenAt(l))
  <2>1. \A i \in OpenAt(l) : Asked(u)[i] = Asked(l)[i]
    BY <1>1, <1>2, <1>6 DEF Asked
  <2> QED BY <1>2, <1>6, <2>1, PickedSame
<1>8. Picked(Asked(u), OpenAt(l) \cup {m + 1}) = Append(Picked(Asked(u), OpenAt(l)), Asked(u)[m + 1])
  <2>1. \A i \in OpenAt(l) \cup {m + 1} : Asked(u)[i] \in Request
    BY <1>5, <1>6
  <2> QED BY <1>2, <1>6, <2>1, PickedBehind
<1>9. Asked(u)[m + 1] = x.request
  BY <1>1, <1>2 DEF Asked
<1> QED BY <1>5, <1>6, <1>7, <1>8, <1>9 DEF u

LEMMA FoldAnswered ==
  ASSUME NEW l \in Seq(Line), NEW x \in Line, Answered(x)
  PROVE  FoldRequests(Append(l, x)) = retain(FoldRequests(l), x.request.branch)
<1> DEFINE u == Append(l, x)
           m == Len(l)
           b == x.request.branch
<1>1. /\ u \in Seq(Line) /\ Len(u) = m + 1 /\ DOMAIN u = 1 .. m + 1
      /\ \A i \in 1 .. m : i \in 1 .. m + 1 /\ u[i] = l[i]
      /\ u[m + 1] = x
      /\ \A i \in 1 .. m + 1 : i \in 1 .. m \/ i = m + 1
  BY AppendFacts
<1>2. m \in Nat /\ DOMAIN l = 1 .. m
  BY SeqFacts
<1>3. ~Requested(x)
  BY LineKinds
<1> HIDE DEF u, m
<1>6. /\ OpenAt(l) \in SUBSET (1 .. m)
      /\ \A i \in OpenAt(l) : Asked(l)[i] \in Request /\ Asked(l)[i] = l[i].request
      /\ FoldRequests(u) = Picked(Asked(u), OpenAt(u)) /\ FoldRequests(l) = Picked(Asked(l), OpenAt(l))
  BY <1>1, FoldIs DEF m
<1>4. ASSUME NEW i
      PROVE  i \in OpenAt(u) <=> i \in OpenAt(l) /\ l[i].request.branch # b
  <2>1. CASE i \in 1 .. m
    <3>1. i \in DOMAIN u /\ u[i] = l[i] /\ i \in DOMAIN l /\ m + 1 \in i + 1 .. m + 1
      BY <1>1, <1>2, <2>1
    <3>2. \A j \in i + 1 .. m + 1 : j \in i + 1 .. m \/ j = m + 1
      BY <1>2, <2>1
    <3>3. \A j \in i + 1 .. m : j \in i + 1 .. m + 1 /\ u[j] = l[j]
      BY <1>1, <1>2, <2>1
    <3> QED BY <1>1, <3>1, <3>2, <3>3 DEF OpenAt, m
  <2>2. CASE i \notin 1 .. m
    <3>1. i \in DOMAIN u => u[i] = x
      BY <1>1, <2>2
    <3> QED BY <1>2, <1>3, <2>2, <3>1 DEF OpenAt
  <2> QED BY <2>1, <2>2
<1>5. OpenAt(u) = {i \in OpenAt(l) : Asked(l)[i].branch # b}
  BY <1>4, <1>6
<1>7. Picked(Asked(u), OpenAt(u)) = Picked(Asked(l), OpenAt(u))
  <2>1. OpenAt(u) \in SUBSET (1 .. m)
    BY <1>5, <1>6
  <2>2. \A i \in OpenAt(u) : Asked(u)[i] = Asked(l)[i]
    BY <1>1, <1>2, <2>1 DEF Asked
  <2> QED BY <1>2, <2>1, <2>2, PickedSame
<1>8. retain(Picked(Asked(l), OpenAt(l)), b) = Picked(Asked(l), OpenAt(u))
  <2> HIDE DEF b
  <2>1. m \in Nat /\ OpenAt(l) \in SUBSET (1 .. m)
    BY <1>2, <1>6
  <2>2. retain(Picked(Asked(l), OpenAt(l)), b) = Picked(Asked(l), OfOthers(Asked(l), OpenAt(l), b))
    BY ONLY <2>1, RetainPicked
  <2> QED BY ONLY <2>2, <1>5 DEF OfOthers
<1> QED BY <1>6, <1>7, <1>8 DEF u, b

(* A retained register holds what the register held.                         *)
LEMMA RetainIs ==
  ASSUME NEW h \in Seq(Request), NEW b
  PROVE  /\ retain(h, b) \in Seq(Request)
         /\ \A n \in DOMAIN retain(h, b) : \E i \in DOMAIN h : retain(h, b)[n] = h[i]
<1> DEFINE S == {i \in DOMAIN h : h[i].branch # b}
<1>1. /\ Len(h) \in Nat /\ DOMAIN h = 1 .. Len(h) /\ S \in SUBSET (1 .. Len(h))
      /\ \A i \in S : h[i] \in Request /\ i \in DOMAIN h
  BY SeqFacts
<1>2. retain(h, b) = Picked(h, S)
  BY DEF retain
<1> HIDE DEF S
<1>3. /\ Picked(h, S) \in Seq(Request) /\ Len(Picked(h, S)) = Cardinality(S)
      /\ \A n \in 1 .. Cardinality(S) : Picked(h, S)[n] = h[Nth(S, n)] /\ Nth(S, n) \in S
  BY <1>1, PickedIs
<1>4. DOMAIN Picked(h, S) = 1 .. Cardinality(S)
  BY <1>3, SeqFacts
<1> QED BY <1>1, <1>2, <1>3, <1>4

(* Lines of goals.                                                           *)
LEMMA FoldGoalsAppend ==
  ASSUME NEW l \in Seq(Line), NEW x \in Line
  PROVE  FoldGoals(Append(l, x)) =
           IF Is(x, "goal_registered") THEN Append(FoldGoals(l), x.entry) ELSE FoldGoals(l)
<1> DEFINE u == Append(l, x)
           m == Len(l)
<1>1. /\ u \in Seq(Line) /\ Len(u) = m + 1 /\ DOMAIN u = 1 .. m + 1
      /\ \A i \in 1 .. m : i \in 1 .. m + 1 /\ u[i] = l[i]
      /\ u[m + 1] = x
      /\ \A i \in 1 .. m + 1 : i \in 1 .. m \/ i = m + 1
  BY AppendFacts
<1>2. m \in Nat /\ DOMAIN l = 1 .. m /\ m + 1 \in 1 .. m + 1
  BY SeqFacts
<1> HIDE DEF u, m
<1>3. /\ GoalsAt(l) \in SUBSET (1 .. m)
      /\ \A i \in GoalsAt(u) : Entries(u)[i] \in Entry
      /\ FoldGoals(u) = Picked(Entries(u), GoalsAt(u)) /\ FoldGoals(l) = Picked(Entries(l), GoalsAt(l))
  BY <1>1, FoldIs DEF m
<1>4. Picked(Entries(u), GoalsAt(l)) = Picked(Entries(l), GoalsAt(l))
  <2>1. \A i \in GoalsAt(l) : Entries(u)[i] = Entries(l)[i]
    BY <1>1, <1>2, <1>3 DEF Entries
  <2> QED BY <1>2, <1>3, <2>1, PickedSame
<1>5. CASE Is(x, "goal_registered")
  <2>1. GoalsAt(u) = GoalsAt(l) \cup {m + 1}
    <3>1. \A i : i \in GoalsAt(u) <=> i \in GoalsAt(l) \/ i = m + 1
      BY <1>1, <1>2, <1>5 DEF GoalsAt
    <3> QED BY <3>1
  <2>2. \A i \in GoalsAt(l) \cup {m + 1} : Entries(u)[i] \in Entry
    BY <1>3, <2>1
  <2>3. Picked(Entries(u), GoalsAt(l) \cup {m + 1}) = Append(Picked(Entries(u), GoalsAt(l)), Entries(u)[m + 1])
    BY <1>2, <1>3, <2>2, PickedBehind
  <2>4. Entries(u)[m + 1] = x.entry
    BY <1>1, <1>2 DEF Entries
  <2> QED BY <1>3, <1>4, <1>5, <2>1, <2>3, <2>4 DEF u
<1>6. CASE ~Is(x, "goal_registered")
  <2>1. GoalsAt(u) = GoalsAt(l)
    <3>1. \A i : i \in GoalsAt(u) <=> i \in GoalsAt(l)
      BY <1>1, <1>2, <1>6 DEF GoalsAt
    <3> QED BY <3>1
  <2> QED BY <1>3, <1>4, <1>6, <2>1 DEF u
<1> QED BY <1>5, <1>6

LEMMA FoldGoalsEmpty == FoldGoals(<<>>) = <<>>
<1>1. <<>> \in Seq(Line)
  BY EmptySeq
<1>2. GoalsAt(<<>>) = {}
  BY DEF GoalsAt
<1>3. FoldGoals(<<>>) = Picked(Entries(<<>>), {})
  BY <1>1, <1>2, FoldIs
<1> QED BY <1>3, PickedNone

LEMMA FoldRequestsEmpty == FoldRequests(<<>>) = <<>>
<1>1. <<>> \in Seq(Line)
  BY EmptySeq
<1>2. OpenAt(<<>>) = {}
  BY DEF OpenAt
<1>3. FoldRequests(<<>>) = Picked(Asked(<<>>), {})
  BY <1>1, <1>2, FoldIs
<1> QED BY <1>3, PickedNone

LEMMA FoldGoalsConcat ==
  ASSUME NEW l \in Seq(Line), NEW t \in Seq(Line)
  PROVE  FoldGoals(l \o t) = FoldGoals(l) \o FoldGoals(t)
<1> DEFINE Up(k) == SubSeq(t, 1, k)
           Splits(k) == FoldGoals(l \o Up(k)) = FoldGoals(l) \o FoldGoals(Up(k))
           Bad == {k \in 0 .. Len(t) : ~Splits(k)}
<1>1. Len(t) \in Nat /\ \A i \in 1 .. Len(t) : t[i] \in Line
  BY SeqFacts
<1>2. FoldGoals(l) \in Seq(Entry)
  BY FoldHolds
<1>3. Bad = {}
  <2>1. SUFFICES ASSUME Bad # {} PROVE FALSE
    OBVIOUS
  <2>2. PICK k \in Bad : \A j \in Bad : k <= j
    <3>1. Bad \in SUBSET Nat
      OBVIOUS
    <3> HIDE DEF Bad
    <3> QED BY <2>1, <3>1, SmallestExists
  <2>3. ~Splits(k) /\ k \in 0 .. Len(t)
    BY <2>2
  <2>4. k # 0
    <3>1. Up(0) = <<>>
      BY SubSeqEmpty
    <3>2. l \o <<>> = l /\ FoldGoals(l) \o <<>> = FoldGoals(l)
      BY <1>2, ConcatEmptySeq
    <3> QED BY <2>3, <3>1, <3>2, FoldGoalsEmpty
  <2> DEFINE p == k - 1
  <2>5. p \in Nat /\ p \in 0 .. Len(t) /\ k = p + 1 /\ Splits(p)
    <3>1. p \in 0 .. Len(t) /\ p < k
      BY <2>3, <2>4, <1>1
    <3>2. p \notin Bad
      BY <3>1, <2>2, <1>1
    <3> QED BY <3>1, <3>2, <2>3, <1>1
  <2> HIDE DEF p
  <2>6. /\ Up(p) \in Seq(Line) /\ t[k] \in Line /\ Up(k) = Append(Up(p), t[k])
    <3>1. k \in 1 .. Len(t) /\ 1 \in 1 .. Len(t) /\ k - 1 = p
      BY <2>3, <2>4, <2>5, <1>1
    <3>2. Up(p) \in Seq(Line)
      <4>1. \A i \in 1 .. p : t[i] \in Line
        BY <1>1, <2>5
      <4> QED BY <4>1, <2>5, SubSeqProperties
    <3>3. Up(k) = Up(p) \o <<t[k]>>
      BY <3>1, SubSeqRecursiveSecond
    <3>4. t[k] \in Line
      BY <3>1, <1>1
    <3> HIDE DEF Up
    <3>5. Up(p) \o <<t[k]>> = Append(Up(p), t[k])
      BY <3>2, <3>4
    <3> QED BY <3>2, <3>3, <3>4, <3>5
  <2> DEFINE v == Up(p)
             x == t[k]
  <2>7. v \in Seq(Line) /\ x \in Line /\ Up(k) = Append(v, x)
    BY <2>6
  <2>8. FoldGoals(l \o v) = FoldGoals(l) \o FoldGoals(v)
    BY <2>5
  <2>9. FoldGoals(v) \in Seq(Entry) /\ l \o v \in Seq(Line)
    BY <2>7, FoldHolds, ConcatFacts
  <2>10. ~(FoldGoals(l \o Up(k)) = FoldGoals(l) \o FoldGoals(Up(k)))
    BY <2>3
  <2> HIDE DEF v, x, Up
  <2>11. l \o Append(v, x) = Append(l \o v, x)
    <3>1. l \in Seq(Line) /\ v \in Seq(Line) /\ x \in Line
      BY <2>7
    <3> QED BY ONLY <3>1, AppendBehind
  <2>12. CASE Is(x, "goal_registered")
    <3>1. x.entry \in Entry
      BY <2>7, <2>12, LineKinds
    <3>2. FoldGoals(Append(l \o v, x)) = Append(FoldGoals(l \o v), x.entry)
      BY <2>7, <2>9, <2>12, FoldGoalsAppend
    <3>3. FoldGoals(Append(v, x)) = Append(FoldGoals(v), x.entry)
      BY <2>7, <2>12, FoldGoalsAppend
    <3> DEFINE g == FoldGoals(l)
               h == FoldGoals(v)
    <3>4. g \in Seq(Entry) /\ h \in Seq(Entry)
      BY <1>2, <2>9
    <3> HIDE DEF g, h
    <3>5. g \o Append(h, x.entry) = Append(g \o h, x.entry)
      BY ONLY <3>1, <3>4, AppendBehind
    <3> QED BY <2>7, <2>8, <2>10, <2>11, <3>2, <3>3, <3>5 DEF g, h
  <2>13. CASE ~Is(x, "goal_registered")
    <3>2. FoldGoals(Append(l \o v, x)) = FoldGoals(l \o v)
      BY <2>7, <2>9, <2>13, FoldGoalsAppend
    <3>3. FoldGoals(Append(v, x)) = FoldGoals(v)
      BY <2>7, <2>13, FoldGoalsAppend
    <3> QED BY <2>7, <2>8, <2>10, <2>11, <3>2, <3>3
  <2> QED BY <2>12, <2>13
<1>4. Splits(Len(t))
  <2>1. Len(t) \in 0 .. Len(t)
    BY <1>1
  <2> HIDE DEF Splits
  <2> QED BY <1>3, <2>1
<1>5. Up(Len(t)) = t
  BY SubSeqFull
<1> QED BY <1>4, <1>5

LEMMA FoldGoalsQuiet ==
  ASSUME NEW l \in Seq(Line), NEW t \in Seq(Line), \A i \in 1 .. Len(t) : ~Is(t[i], "goal_registered")
  PROVE  FoldGoals(l \o t) = FoldGoals(l)
<1>1. GoalsAt(t) = {}
  BY SeqFacts DEF GoalsAt
<1>2. FoldGoals(t) = <<>>
  BY <1>1, FoldIs, PickedNone
<1>3. FoldGoals(l) \in Seq(Entry)
  BY FoldHolds
<1>4. FoldGoals(l \o t) = FoldGoals(l) \o FoldGoals(t)
  BY FoldGoalsConcat
<1>5. FoldGoals(l) \o <<>> = FoldGoals(l)
  BY ONLY <1>3, ConcatEmptySeq
<1> QED BY ONLY <1>2, <1>4, <1>5
-----------------------------------------------------------------------------
(* Files and commits.                                                        *)
LEMMA RoomsAre ==
  ASSUME NEW f
  PROVE  /\ f \in UNION {[S -> 0 .. MaxRuns] : S \in SUBSET Rooms} =>
              DOMAIN f \subseteq Rooms /\ f \in [DOMAIN f -> 0 .. MaxRuns]
         /\ DOMAIN f \subseteq Rooms /\ f \in [DOMAIN f -> 0 .. MaxRuns] =>
              f \in UNION {[S -> 0 .. MaxRuns] : S \in SUBSET Rooms}
<1>1. ASSUME f \in UNION {[S -> 0 .. MaxRuns] : S \in SUBSET Rooms}
      PROVE  DOMAIN f \subseteq Rooms /\ f \in [DOMAIN f -> 0 .. MaxRuns]
  <2>1. PICK S \in SUBSET Rooms : f \in [S -> 0 .. MaxRuns]
    BY <1>1
  <2> QED BY <2>1
<1> QED BY <1>1

LEMMA FilesAre ==
  ASSUME NEW f \in FilesSet
  PROVE  /\ f = [rooms |-> f.rooms, shelf |-> f.shelf]
         /\ DOMAIN f.rooms \subseteq Rooms /\ f.rooms \in [DOMAIN f.rooms -> 0 .. MaxRuns]
         /\ f.shelf \subseteq Runs
<1>1. f.rooms \in UNION {[S -> 0 .. MaxRuns] : S \in SUBSET Rooms} /\ f.shelf \in SUBSET Runs
  BY DEF FilesSet
<1>2. f = [rooms |-> f.rooms, shelf |-> f.shelf]
  BY DEF FilesSet
<1> QED BY <1>1, <1>2, RoomsAre

LEMMA FilesMade ==
  ASSUME NEW g, DOMAIN g \subseteq Rooms, g \in [DOMAIN g -> 0 .. MaxRuns], NEW s \in SUBSET Runs
  PROVE  [rooms |-> g, shelf |-> s] \in FilesSet
BY RoomsAre DEF FilesSet

LEMMA NoFilesTyped == NoFiles \in FilesSet /\ AsRaised \in FilesSet /\ NoFiles.shelf = {} /\ AsRaised.shelf = {}
<1> DEFINE e == [x \in {} |-> 0]
           g == [x \in Rooms |-> 0]
<1>0. 0 \in 0 .. MaxRuns
  BY ReviewingAssumption
<1>1. DOMAIN e = {} /\ e \in [{} -> 0 .. MaxRuns]
  OBVIOUS
<1>2. DOMAIN g = Rooms /\ g \in [Rooms -> 0 .. MaxRuns]
  BY <1>0
<1>3. NoFiles = [rooms |-> e, shelf |-> {}] /\ AsRaised = [rooms |-> g, shelf |-> {}]
  BY DEF NoFiles, AsRaised
<1> HIDE DEF e, g
<1>4. [rooms |-> e, shelf |-> {}] \in FilesSet
  BY <1>1, FilesMade
<1>5. [rooms |-> g, shelf |-> {}] \in FilesSet
  BY <1>2, FilesMade
<1> QED BY <1>3, <1>4, <1>5

LEMMA TipIs ==
  ASSUME NEW c \in Seq(Commit)
  PROVE  /\ TipTree(c) \in FilesSet
         /\ c # <<>> => TipTree(c) = c[Len(c)].tree /\ Len(c) \in DOMAIN c
         /\ c = <<>> => TipTree(c).shelf = {}
<1>1. CASE c = <<>>
  BY <1>1, NoFilesTyped DEF TipTree
<1>2. CASE c # <<>>
  <2>1. Len(c) \in 1 .. Len(c) /\ c[Len(c)] \in Commit /\ DOMAIN c = 1 .. Len(c)
    BY <1>2, SeqFacts
  <2> QED BY <1>2, <2>1 DEF TipTree, Last, Commit
<1> QED BY <1>1, <1>2

LEMMA StageIs ==
  ASSUME NEW index \in FilesSet, NEW files \in FilesSet, NEW room \in Rooms, NEW building \in BOOLEAN
  PROVE  /\ stage_scope(index, files, room, building) \in FilesSet
         /\ stage_scope(index, files, room, building).shelf = IF building THEN files.shelf ELSE index.shelf
         /\ stage_scope(stage_scope(index, files, room, TRUE), files, room, TRUE) =
              stage_scope(index, files, room, TRUE)
<1> DEFINE D == (DOMAIN index.rooms \ {room}) \cup ({room} \cap DOMAIN files.rooms)
           g == [x \in D |-> IF x = room THEN files.rooms[x] ELSE index.rooms[x]]
           D2 == (D \ {room}) \cup ({room} \cap DOMAIN files.rooms)
           g2 == [x \in D2 |-> IF x = room THEN files.rooms[x] ELSE g[x]]
           h == IF building THEN files.shelf ELSE index.shelf
<1>1. /\ DOMAIN index.rooms \subseteq Rooms /\ index.rooms \in [DOMAIN index.rooms -> 0 .. MaxRuns]
      /\ DOMAIN files.rooms \subseteq Rooms /\ files.rooms \in [DOMAIN files.rooms -> 0 .. MaxRuns]
      /\ index.shelf \in SUBSET Runs /\ files.shelf \in SUBSET Runs
  BY FilesAre
<1>2. stage_scope(index, files, room, building) = [rooms |-> g, shelf |-> h]
  BY DEF stage_scope
<1>3. DOMAIN g = D /\ D \subseteq Rooms
  BY <1>1
<1>4. g \in [D -> 0 .. MaxRuns]
  BY <1>1
<1>5. h \in SUBSET Runs
  BY <1>1
<1>6. [rooms |-> g, shelf |-> h] \in FilesSet
  <2> HIDE DEF g, h, D
  <2> QED BY <1>3, <1>4, <1>5, FilesMade
<1>7. stage_scope(index, files, room, TRUE) = [rooms |-> g, shelf |-> files.shelf]
  BY DEF stage_scope
<1>8. D2 = D /\ g2 = g
  <2>1. D2 = D
    OBVIOUS
  <2>2. \A x \in D : g2[x] = g[x]
    BY <2>1
  <2> QED BY <2>1, <2>2
<1>9. stage_scope([rooms |-> g, shelf |-> files.shelf], files, room, TRUE) = [rooms |-> g2, shelf |-> files.shelf]
  <2> HIDE DEF g
  <2>1. DOMAIN g = D
    BY <1>3
  <2> QED BY <2>1 DEF stage_scope
<1> HIDE DEF g, g2, D, D2, h
<1>10. stage_scope(index, files, room, building).shelf = h
  BY <1>2
<1> QED BY <1>2, <1>6, <1>7, <1>8, <1>9, <1>10 DEF h

(* The two scopes of a fence: a building, and a room.                        *)
LEMMA StageWhole ==
  ASSUME NEW index \in FilesSet, NEW files \in FilesSet, NEW room \in Rooms
  PROVE  /\ stage_scope(index, files, room, TRUE) \in FilesSet
         /\ stage_scope(index, files, room, TRUE).shelf = files.shelf
         /\ stage_scope(index, files, room, FALSE) \in FilesSet
         /\ stage_scope(index, files, room, FALSE).shelf = index.shelf
         /\ stage_scope(stage_scope(index, files, room, TRUE), files, room, TRUE) =
              stage_scope(index, files, room, TRUE)
<1>1. stage_scope(index, files, room, TRUE) \in FilesSet /\ stage_scope(index, files, room, FALSE) \in FilesSet
  BY StageIs
<1>2. stage_scope(index, files, room, TRUE).shelf = files.shelf
  BY DEF stage_scope
<1>3. stage_scope(index, files, room, FALSE).shelf = index.shelf
  BY DEF stage_scope
<1>4. stage_scope(stage_scope(index, files, room, TRUE), files, room, TRUE) = stage_scope(index, files, room, TRUE)
  BY StageIs
<1> QED BY <1>1, <1>2, <1>3, <1>4

LEMMA CommitIs ==
  ASSUME NEW head \in Seq(Commit), NEW tree \in FilesSet, NEW by \in Runs
  PROVE  /\ commit(head, tree, by) \in Seq(Commit) /\ commit(head, tree, by) # <<>>
         /\ TipTree(commit(head, tree, by)) = tree
         /\ Grows(head) /\ TipTree(head).shelf \subseteq tree.shelf => Grows(commit(head, tree, by))
<1> DEFINE x == [by |-> by, tree |-> tree]
           c == Append(head, x)
           n == Len(head)
<1>1. x \in Commit /\ x.tree = tree
  BY DEF Commit
<1> HIDE DEF x
<1>2. /\ c \in Seq(Commit) /\ c # <<>> /\ Last(c) = x /\ DOMAIN c = 1 .. n + 1
      /\ \A i \in 1 .. n : c[i] = head[i]
      /\ c[n + 1] = x
      /\ \A i \in 1 .. n + 1 : i \in 1 .. n \/ i = n + 1
  BY <1>1, AppendFacts
<1>3. commit(head, tree, by) = c
  BY DEF commit, x
<1>4. n \in Nat /\ DOMAIN head = 1 .. n
  BY SeqFacts
<1> HIDE DEF c
<1>5. TipTree(c) = tree
  BY <1>1, <1>2 DEF TipTree
<1>6. ASSUME Grows(head), TipTree(head).shelf \subseteq tree.shelf
      PROVE  Grows(c)
  <2>1. \A i \in 1 .. n : head[i].tree.shelf \subseteq tree.shelf
    <3>1. TAKE i \in 1 .. n
    <3>2. head # <<>> /\ n \in 1 .. n
      BY <1>4
    <3>3. TipTree(head) = head[n].tree
      BY <3>2, TipIs
    <3>4. i <= n
      BY <1>4
    <3>5. head[i].tree.shelf \subseteq head[n].tree.shelf
      BY <1>4, <1>6, <3>2, <3>4 DEF Grows
    <3> QED BY <1>6, <3>3, <3>5
  <2>2. SUFFICES ASSUME NEW i \in 1 .. n + 1, NEW j \in 1 .. n + 1, i <= j
                 PROVE  c[i].tree.shelf \subseteq c[j].tree.shelf
    BY <1>2 DEF Grows
  <2>3. CASE j = n + 1
    <3>1. c[j].tree.shelf = tree.shelf
      BY <1>1, <1>2, <2>3
    <3> QED BY <1>1, <1>2, <2>1, <3>1
  <2>4. CASE j \in 1 .. n
    <3>1. i \in 1 .. n
      BY <1>4, <2>2, <2>4
    <3> QED BY <1>2, <1>4, <1>6, <2>2, <2>4, <3>1 DEF Grows
  <2> QED BY <1>2, <2>3, <2>4
<1> QED BY <1>2, <1>3, <1>5, <1>6

LEMMA PrefixIs ==
  ASSUME NEW X, NEW s \in Seq(X), NEW t \in Seq(X)
  PROVE  IsPrefix(s, t) <=> Len(s) <= Len(t) /\ \A i \in 1 .. Len(s) : s[i] = t[i]
<1>1. /\ Len(s) \in Nat /\ Len(t) \in Nat
      /\ \A i \in 1 .. Len(s) : s[i] \in X
      /\ \A i \in 1 .. Len(t) : t[i] \in X
  BY SeqFacts
<1>2. SubSeq(s, 1, Len(s)) = s
  BY SubSeqFull
<1>3. CASE Len(s) <= Len(t)
  <2> DEFINE u == SubSeq(t, 1, Len(s))
             n == Len(s)
  <2>1. \A i \in 1 .. n : t[i] \in X
    BY <1>1, <1>3
  <2>2. /\ u \in Seq(X) /\ Len(u) = IF 1 <= n THEN n - 1 + 1 ELSE 0
        /\ \A i \in 1 .. n - 1 + 1 : u[i] = t[1 + i - 1]
    BY <1>1, <2>1, SubSeqProperties
  <2>3. Len(u) = n /\ \A i \in 1 .. n : u[i] = t[i]
    BY <1>1, <2>2
  <2> HIDE DEF u
  <2>4. s = u <=> \A i \in 1 .. n : s[i] = u[i]
    BY <2>2, <2>3, SeqEqual
  <2>5. IsPrefix(s, t) <=> s = u
    BY <1>2, <1>3 DEF IsPrefix, u
  <2> QED BY <1>3, <2>3, <2>4, <2>5
<1>4. CASE ~(Len(s) <= Len(t))
  BY <1>4 DEF IsPrefix
<1> QED BY <1>3, <1>4

LEMMA PrefixChain ==
  ASSUME NEW X, NEW s \in Seq(X), NEW t \in Seq(X), NEW u \in Seq(X)
  PROVE  /\ IsPrefix(s, s)
         /\ IsPrefix(s, t) /\ IsPrefix(t, u) => IsPrefix(s, u)
         /\ \A x \in X : IsPrefix(s, t) => IsPrefix(s, Append(t, x))
         /\ IsPrefix(s, <<>>) => IsPrefix(s, t)
<1>1. Len(s) \in Nat /\ Len(t) \in Nat /\ Len(u) \in Nat
  BY SeqFacts
<1>2. IsPrefix(s, s)
  BY <1>1, PrefixIs
<1>3. ASSUME IsPrefix(s, t), IsPrefix(t, u)
      PROVE  IsPrefix(s, u)
  <2>1. /\ Len(s) <= Len(t) /\ \A i \in 1 .. Len(s) : s[i] = t[i]
        /\ Len(t) <= Len(u) /\ \A i \in 1 .. Len(t) : t[i] = u[i]
    BY <1>3, PrefixIs
  <2>2. Len(s) <= Len(u) /\ \A i \in 1 .. Len(s) : s[i] = u[i]
    BY <1>1, <2>1
  <2> QED BY <2>2, PrefixIs
<1>4. ASSUME NEW x \in X, IsPrefix(s, t)
      PROVE  IsPrefix(s, Append(t, x))
  <2>1. /\ Append(t, x) \in Seq(X) /\ Len(Append(t, x)) = Len(t) + 1
        /\ \A i \in 1 .. Len(t) : Append(t, x)[i] = t[i]
    BY AppendFacts
  <2>2. Len(s) <= Len(t) /\ \A i \in 1 .. Len(s) : s[i] = t[i]
    BY <1>4, PrefixIs
  <2>3. Len(s) <= Len(t) + 1 /\ \A i \in 1 .. Len(s) : s[i] = Append(t, x)[i]
    BY <1>1, <2>1, <2>2
  <2> QED BY <2>1, <2>3, PrefixIs
<1>5. ASSUME IsPrefix(s, <<>>)
      PROVE  IsPrefix(s, t)
  <2>1. <<>> \in Seq(X) /\ Len(<<>>) = 0
    BY EmptySeq
  <2>2. Len(s) <= 0
    BY <1>5, <2>1, PrefixIs
  <2>3. Len(s) <= Len(t) /\ \A i \in 1 .. Len(s) : s[i] = t[i]
    BY <1>1, <2>2
  <2> QED BY <2>3, PrefixIs
<1> QED BY <1>2, <1>3, <1>4, <1>5

(* Along a commit's history the shelf only grows.                            *)
LEMMA ShelfGrows ==
  ASSUME NEW s \in Seq(Commit), NEW t \in Seq(Commit), IsPrefix(s, t), Grows(t)
  PROVE  TipTree(s).shelf \subseteq TipTree(t).shelf
<1>1. CASE s = <<>>
  BY <1>1, TipIs
<1>2. CASE s # <<>>
  <2>1. Len(s) \in Nat /\ Len(t) \in Nat /\ DOMAIN t = 1 .. Len(t) /\ Len(s) \in 1 .. Len(s) /\ Len(s) > 0
    BY <1>2, SeqFacts
  <2>2. Len(s) <= Len(t) /\ s[Len(s)] = t[Len(s)]
    BY <2>1, PrefixIs
  <2>3. t # <<>>
    BY <2>1, <2>2, EmptySeq
  <2>4. TipTree(s) = s[Len(s)].tree /\ TipTree(t) = t[Len(t)].tree
    BY <1>2, <2>3, TipIs
  <2>5. Len(s) \in DOMAIN t /\ Len(t) \in DOMAIN t
    BY <2>1, <2>2
  <2> QED BY <2>2, <2>4, <2>5 DEF Grows
<1> QED BY <1>1, <1>2

LEMMA CheckoutIs ==
  ASSUME NEW files \in FilesSet, NEW was \in FilesSet, NEW tree \in FilesSet
  PROVE  /\ checkout_head(files, was, tree) \in FilesSet
         /\ checkout_head(files, was, tree).shelf = (files.shelf \ was.shelf) \cup tree.shelf
<1> DEFINE D == (DOMAIN files.rooms \ DOMAIN was.rooms) \cup DOMAIN tree.rooms
           g == [x \in D |-> IF x \in DOMAIN tree.rooms THEN tree.rooms[x] ELSE files.rooms[x]]
           h == (files.shelf \ was.shelf) \cup tree.shelf
<1>1. /\ DOMAIN files.rooms \subseteq Rooms /\ files.rooms \in [DOMAIN files.rooms -> 0 .. MaxRuns]
      /\ DOMAIN tree.rooms \subseteq Rooms /\ tree.rooms \in [DOMAIN tree.rooms -> 0 .. MaxRuns]
      /\ files.shelf \in SUBSET Runs /\ tree.shelf \in SUBSET Runs
  BY FilesAre
<1>2. checkout_head(files, was, tree) = [rooms |-> g, shelf |-> h]
  BY DEF checkout_head
<1>3. DOMAIN g \subseteq Rooms /\ g \in [DOMAIN g -> 0 .. MaxRuns] /\ h \in SUBSET Runs
  BY <1>1
<1> HIDE DEF g, D, h
<1>4. [rooms |-> g, shelf |-> h] \in FilesSet
  BY <1>3, FilesMade
<1> QED BY <1>2, <1>4 DEF h
-----------------------------------------------------------------------------
(* The initial state.                                                        *)
LEMMA InvInit == Init => Inv
<1> SUFFICES ASSUME Init PROVE Inv
  OBVIOUS
<1>1. /\ log = <<>> /\ requests = <<>> /\ goals = <<>> /\ trunk = <<>> /\ branch = [r \in Runs |-> <<>>]
      /\ city = AsRaised /\ trees = [r \in {} |-> NoFiles] /\ run = NoRun /\ pc = "idle" /\ served = 0
      /\ left \in Workloads /\ died = FALSE
  BY DEF Init
<1>2. MaxRuns \in Nat /\ left \in [Things -> Nat]
  BY <1>1, ReviewingAssumption
<1>3. DOMAIN log = {} /\ Len(log) = 0 /\ DOMAIN trees = {} /\ \A r \in Runs : branch[r] = <<>>
  BY <1>1
<1>4. \A k : Lines(k) = {}
  BY <1>3 DEF Lines
<1>5. Types
  <2>1. <<>> \in Seq(Line) /\ <<>> \in Seq(Request) /\ <<>> \in Seq(Entry) /\ <<>> \in Seq(Commit)
    BY EmptySeq
  <2>2. branch \in [Runs -> Seq(Commit)] /\ served \in 0 .. MaxRuns /\ city \in FilesSet
    BY <1>1, <1>2, <2>1, NoFilesTyped
  <2> QED BY <1>1, <1>2, <1>3, <2>1, <2>2 DEF Types, Busy
<1>6. RunOK /\ BranchesOK /\ GroundOK /\ DeskOK /\ ApplyingOK
  BY <1>1, <1>3 DEF RunOK, BranchesOK, GroundOK, DeskOK, ApplyingOK, Busy
<1>7. RegistersOK
  BY <1>1, FoldGoalsEmpty, FoldRequestsEmpty DEF RegistersOK
<1>8. HeldOK /\ AnswersOK /\ OpenedOK
  BY <1>1, <1>3, FoldGoalsEmpty DEF HeldOK, HeldOnce, AnswersOK, OpenedOK
<1>9. TipTree(<<>>).shelf = {} /\ Grows(<<>>) /\ city.shelf = {}
  <2>1. <<>> \in Seq(Commit) /\ DOMAIN <<>> = {}
    BY EmptySeq
  <2>2. TipTree(<<>>).shelf = {}
    BY <2>1, TipIs
  <2>3. city.shelf = {}
    BY <1>1, NoFilesTyped
  <2>4. Grows(<<>>)
    BY <2>1 DEF Grows
  <2> QED BY <2>2, <2>3, <2>4
<1>10. OriginOK /\ GrowsOK
  BY <1>1, <1>3, <1>9 DEF OriginOK, GrowsOK, Busy
<1>11. ArchivedOK
  <2>1. \A r : ~Archived(r)
    BY <1>4 DEF Archived
  <2> QED BY <1>1, <1>3, <2>1 DEF ArchivedOK, Busy
<1>12. LandsOnAnothersWord /\ MergedIsInTheTrunk
  BY <1>4 DEF LandsOnAnothersWord, NobodyMergesTheirOwn, VouchedIsWhatLands, MergedIsInTheTrunk
<1> QED BY <1>5, <1>6, <1>7, <1>8, <1>10, <1>11, <1>12 DEF Inv

-----------------------------------------------------------------------------
(* What is known while a run is at work.                                     *)
LEMMA Known ==
  ASSUME Inv
  PROVE  /\ log \in Seq(Line) /\ Len(log) \in Nat /\ DOMAIN log = 1 .. Len(log)
         /\ \A i \in DOMAIN log : log[i] \in Line
         /\ MaxRuns \in Nat /\ served \in Nat /\ served <= MaxRuns
         /\ branch \in [Runs -> Seq(Commit)] /\ trunk \in Seq(Commit) /\ city \in FilesSet
         /\ \A r \in Runs : branch[r] \in Seq(Commit)
<1>1. log \in Seq(Line) /\ served \in 0 .. MaxRuns /\ branch \in [Runs -> Seq(Commit)]
      /\ trunk \in Seq(Commit) /\ city \in FilesSet
  BY DEF Inv, Types
<1>2. MaxRuns \in Nat
  BY ReviewingAssumption
<1> QED BY <1>1, <1>2, SeqFacts

LEMMA AtWork ==
  ASSUME Inv, pc \in Busy
  PROVE  /\ run \in Desk /\ run # NoRun /\ run.id = served /\ served \in Runs
         /\ run.who \in Residents /\ run.room \in Rooms /\ run.mode \in Modes
         /\ run.tests \in {"none", "passed", "failed"} /\ run.open \in Seq(Request)
         /\ run.effects \in Seq(PrEffect) /\ run.registered \in Seq(Entry)
         /\ run.goals \in Seq(GoalEffect) /\ run.shelf \in BOOLEAN /\ run.fenced \in Seq(Commit)
         /\ (HasTree <=> branch[served] # <<>>) /\ (HasTree <=> served \in DOMAIN trees)
         /\ Files = (IF HasTree THEN trees[served] ELSE city) /\ Files \in FilesSet
         /\ Tip = (IF HasTree THEN branch[served] ELSE trunk) /\ Tip \in Seq(Commit)
<1>1. run \in Desk /\ run.id = served /\ (HasTree <=> branch[served] # <<>>)
  BY DEF Inv, RunOK
<1>2. /\ run.id \in Runs /\ run.who \in Residents /\ run.room \in Rooms /\ run.mode \in Modes
      /\ run.tests \in {"none", "passed", "failed"} /\ run.open \in Seq(Request)
      /\ run.effects \in Seq(PrEffect) /\ run.registered \in Seq(Entry)
      /\ run.goals \in Seq(GoalEffect) /\ run.shelf \in BOOLEAN /\ run.fenced \in Seq(Commit)
  BY <1>1 DEF Desk
<1>3. run # NoRun
  BY <1>1, NoRunAssumption
<1>4. HasTree <=> served \in DOMAIN trees
  BY <1>1 DEF HasTree
<1>5. Files = (IF HasTree THEN trees[served] ELSE city) /\ Tip = (IF HasTree THEN branch[served] ELSE trunk)
  BY <1>1 DEF Files, Tip
<1>6. \A r \in DOMAIN trees : trees[r] \in FilesSet
  BY DEF Inv, Types
<1>7. Files \in FilesSet /\ Tip \in Seq(Commit)
  BY <1>1, <1>2, <1>4, <1>5, <1>6, Known
<1> QED BY <1>1, <1>2, <1>3, <1>4, <1>5, <1>7

(* A tool call that changes only what is noted at the desks.                 *)
LEMMA NotedOnly ==
  ASSUME Inv, pc = "driving", OnlyTheRun, left' \in [Things -> Nat],
         run' \in Desk, run'.id = run.id, run'.room = run.room, GroundOK', DeskOK'
  PROVE  Inv'
<1>1. /\ UNCHANGED <<log, requests, goals, trunk, branch, city, trees, pc, served, died>>
      /\ pc \in Busy
  BY DEF OnlyTheRun, Busy
<1>2. Types' /\ BranchesOK'
  BY <1>1 DEF Inv, Types, BranchesOK
<1>3. RunOK'
  BY <1>1 DEF Inv, RunOK, HasTree
<1>4. RegistersOK' /\ HeldOK' /\ ApplyingOK'
  BY <1>1 DEF Inv, RegistersOK, HeldOK, ApplyingOK
<1>5. AnswersOK' /\ OpenedOK'
  BY <1>1 DEF Inv, AnswersOK, OpenedOK, OnLedger
<1>6. OriginOK' /\ GrowsOK' /\ ArchivedOK'
  BY <1>1 DEF Inv, OriginOK, GrowsOK, ArchivedOK, Merged, Landed, Archived, Lines, HasTree
<1>7. LandsOnAnothersWord' /\ MergedIsInTheTrunk'
  BY <1>1 DEF Inv, LandsOnAnothersWord, NobodyMergesTheirOwn, VouchedIsWhatLands, MergedIsInTheTrunk, Lines
<1> QED BY <1>2, <1>3, <1>4, <1>5, <1>6, <1>7 DEF Inv

LEMMA CallsIs ==
  ASSUME Inv, NEW tool \in Things, Calls(tool)
  PROVE  pc = "driving" /\ pc \in Busy /\ left' \in [Things -> Nat]
<1>1. left \in [Things -> Nat]
  BY DEF Inv, Types
<1> QED BY <1>1 DEF Calls, Busy

LEMMA ExecKeeps ==
  ASSUME Inv, NEW passed \in BOOLEAN, Exec(passed)
  PROVE  Inv'
<1>1. pc = "driving" /\ pc \in Busy /\ left' \in [Things -> Nat]
  BY CallsIs DEF Exec, Things
<1>2. OnlyTheRun /\ run \in Desk /\ run' = [run EXCEPT !.tests = IF passed /\ run.tests # "failed" THEN "passed" ELSE "failed"]
  BY <1>1, AtWork DEF Exec
<1>3. /\ run' \in Desk /\ run'.id = run.id /\ run'.room = run.room /\ run'.who = run.who
      /\ run'.open = run.open /\ run'.effects = run.effects
      /\ run'.registered = run.registered /\ run'.goals = run.goals
  BY <1>2 DEF Desk
<1>4. UNCHANGED <<log, goals, trees, pc, served>>
  BY <1>2 DEF OnlyTheRun
<1>5. GroundOK'
  BY <1>3, <1>4 DEF Inv, GroundOK
<1>6. DeskOK'
  BY <1>3, <1>4 DEF Inv, DeskOK, OnLedger, HasTree
<1> QED BY <1>1, <1>2, <1>3, <1>5, <1>6, NotedOnly

LEMMA ArchiveKeeps ==
  ASSUME Inv, archive_record
  PROVE  Inv'
<1>1. pc = "driving" /\ pc \in Busy /\ left' \in [Things -> Nat]
  BY CallsIs DEF archive_record, Things
<1>2. OnlyTheRun /\ run \in Desk /\ run' = [run EXCEPT !.shelf = TRUE]
  BY <1>1, AtWork DEF archive_record
<1>3. /\ run' \in Desk /\ run'.id = run.id /\ run'.room = run.room /\ run'.who = run.who
      /\ run'.open = run.open /\ run'.effects = run.effects
      /\ run'.registered = run.registered /\ run'.goals = run.goals
  BY <1>2 DEF Desk
<1>4. UNCHANGED <<log, goals, trees, pc, served>>
  BY <1>2 DEF OnlyTheRun
<1>5. GroundOK'
  BY <1>3, <1>4 DEF Inv, GroundOK
<1>6. DeskOK'
  BY <1>3, <1>4 DEF Inv, DeskOK, OnLedger, HasTree
<1> QED BY <1>1, <1>2, <1>3, <1>5, <1>6, NotedOnly

LEMMA OpenKeeps ==
  ASSUME Inv, pr_open
  PROVE  Inv'
<1>1. pc = "driving" /\ pc \in Busy /\ left' \in [Things -> Nat]
  BY CallsIs DEF pr_open, Things
<1> DEFINE x == [op |-> "Opened"]
<1>2. OnlyTheRun /\ run \in Desk /\ HasTree /\ run' = [run EXCEPT !.effects = Append(run.effects, x)]
  BY <1>1, AtWork DEF pr_open
<1>3. x \in PrEffect /\ x.op = "Opened" /\ run.effects \in Seq(PrEffect)
  BY <1>1, AtWork DEF PrEffect
<1> HIDE DEF x
<1>4. /\ Append(run.effects, x) \in Seq(PrEffect) /\ DOMAIN run.effects = 1 .. Len(run.effects)
      /\ \A i \in DOMAIN Append(run.effects, x) :
           \/ i \in DOMAIN run.effects /\ Append(run.effects, x)[i] = run.effects[i]
           \/ Append(run.effects, x)[i] = x
  BY <1>3, SeqFacts, AppendFacts
<1>5. /\ run' \in Desk /\ run'.id = run.id /\ run'.room = run.room /\ run'.who = run.who
      /\ run'.open = run.open /\ run'.effects = Append(run.effects, x)
      /\ run'.registered = run.registered /\ run'.goals = run.goals
  BY <1>2, <1>4 DEF Desk
<1>6. UNCHANGED <<log, goals, trees, pc, served>>
  BY <1>2 DEF OnlyTheRun
<1>7. GroundOK'
  BY <1>5, <1>6 DEF Inv, GroundOK
<1>8. DeskOK'
  <2>1. \A i \in DOMAIN run.open : OnLedger(run.open[i]) /\ run.open[i].branch < served
    BY <1>1 DEF Inv, DeskOK
  <2>2. \A i \in DOMAIN run.effects :
         /\ run.effects[i].op # "Opened" =>
              OnLedger(run.effects[i].request) /\ run.effects[i].request.branch < served
         /\ run.effects[i].op = "Merged" => run.effects[i].request.implementer # run.who
    BY <1>1 DEF Inv, DeskOK
  <2>3. HasTree'
    BY <1>2, <1>5, <1>6 DEF HasTree
  <2>4. \A i \in DOMAIN run'.effects :
         /\ run'.effects[i].op # "Opened" =>
              OnLedger(run'.effects[i].request) /\ run'.effects[i].request.branch < served
         /\ run'.effects[i].op = "Merged" => run'.effects[i].request.implementer # run.who
    BY <1>3, <1>4, <1>5, <2>2
  <2> QED BY <1>5, <1>6, <2>1, <2>3, <2>4 DEF DeskOK, OnLedger
<1> QED BY <1>1, <1>2, <1>5, <1>7, <1>8, NotedOnly

LEMMA CheckKeeps ==
  ASSUME Inv, NEW b \in Runs, NEW passed \in BOOLEAN, pr_check(b, passed)
  PROVE  Inv'
<1>1. pc = "driving" /\ pc \in Busy /\ left' \in [Things -> Nat]
  BY CallsIs DEF pr_check, Things
<1>2. PICK k \in DOMAIN run.open :
        /\ verified(run.open[k], run.who)
        /\ run' = [run EXCEPT
                    !.effects = Append(run.effects, [op |-> IF passed THEN "Merged" ELSE "Rejected",
                                                     request |-> run.open[k]]),
                    !.open = IF passed THEN retain(run.open, b) ELSE run.open]
  BY <1>1, AtWork DEF pr_check
<1> DEFINE x == [op |-> IF passed THEN "Merged" ELSE "Rejected", request |-> run.open[k]]
           o == IF passed THEN retain(run.open, b) ELSE run.open
<1>3. OnlyTheRun /\ run \in Desk /\ run.open \in Seq(Request) /\ run.effects \in Seq(PrEffect)
  BY <1>1, AtWork DEF pr_check
<1>4. run.open[k] \in Request /\ run.open[k].implementer # run.who
  BY <1>2, <1>3, SeqFacts DEF verified
<1>5. x \in PrEffect /\ x.request = run.open[k] /\ x.op # "Opened"
  BY <1>4 DEF PrEffect
<1>6. o \in Seq(Request) /\ \A i \in DOMAIN o : \E j \in DOMAIN run.open : o[i] = run.open[j]
  BY <1>3, RetainIs
<1>7. run' = [run EXCEPT !.effects = Append(run.effects, x), !.open = o]
  BY <1>2
<1> HIDE DEF x, o
<1>8. /\ Append(run.effects, x) \in Seq(PrEffect) /\ DOMAIN run.effects = 1 .. Len(run.effects)
      /\ \A i \in DOMAIN Append(run.effects, x) :
           \/ i \in DOMAIN run.effects /\ Append(run.effects, x)[i] = run.effects[i]
           \/ Append(run.effects, x)[i] = x
  BY <1>3, <1>5, SeqFacts, AppendFacts
<1>9. /\ run' \in Desk /\ run'.id = run.id /\ run'.room = run.room /\ run'.who = run.who
      /\ run'.open = o /\ run'.effects = Append(run.effects, x)
      /\ run'.registered = run.registered /\ run'.goals = run.goals
  BY <1>3, <1>6, <1>7, <1>8 DEF Desk
<1>10. UNCHANGED <<log, goals, trees, pc, served>>
  BY <1>3 DEF OnlyTheRun
<1>11. GroundOK'
  BY <1>9, <1>10 DEF Inv, GroundOK
<1>12. DeskOK'
  <2>1. \A i \in DOMAIN run.open : OnLedger(run.open[i]) /\ run.open[i].branch < served
    BY <1>1 DEF Inv, DeskOK
  <2>2. \A i \in DOMAIN run.effects :
         /\ run.effects[i].op = "Opened" => HasTree
         /\ run.effects[i].op # "Opened" =>
              OnLedger(run.effects[i].request) /\ run.effects[i].request.branch < served
         /\ run.effects[i].op = "Merged" => run.effects[i].request.implementer # run.who
    BY <1>1 DEF Inv, DeskOK
  <2>3. HasTree' <=> HasTree
    BY <1>9, <1>10 DEF HasTree
  <2>4. \A i \in DOMAIN o : OnLedger(o[i]) /\ o[i].branch < served
    BY <1>6, <2>1
  <2>5. OnLedger(x.request) /\ x.request.branch < served /\ x.request.implementer # run.who
    BY <1>2, <1>4, <1>5, <2>1
  <2>6. \A i \in DOMAIN run'.effects :
         /\ run'.effects[i].op = "Opened" => HasTree
         /\ run'.effects[i].op # "Opened" =>
              OnLedger(run'.effects[i].request) /\ run'.effects[i].request.branch < served
         /\ run'.effects[i].op = "Merged" => run'.effects[i].request.implementer # run.who
    BY <1>5, <1>8, <1>9, <2>2, <2>5
  <2> QED BY <1>9, <1>10, <2>3, <2>4, <2>6 DEF DeskOK, OnLedger
<1> QED BY <1>1, <1>3, <1>9, <1>11, <1>12, NotedOnly
-----------------------------------------------------------------------------
(* The steps that leave no run at work.                                      *)
LEMMA AtRest ==
  ASSUME Inv, UNCHANGED <<log, trunk, branch, city, served>>,
         DOMAIN trees' \subseteq DOMAIN trees, \A r \in DOMAIN trees' : trees'[r] = trees[r],
         run' = NoRun, pc' \in {"idle", "down"}, died' \in BOOLEAN, died => died', pc = "applying" => died',
         left' \in [Things -> Nat], requests' \in Seq(Request), goals' \in Seq(Entry), RegistersOK'
  PROVE  Inv'
<1>1. pc' \notin Busy /\ pc' # "applying" /\ pc' \notin {"driving", "goals"} /\ pc' \notin {"driving", "goals", "sweep", "shelf"}
  BY DEF Busy
<1>2. Types'
  BY DEF Inv, Types
<1>3. RunOK' /\ BranchesOK' /\ GroundOK' /\ DeskOK' /\ ApplyingOK'
  BY <1>1 DEF Inv, RunOK, BranchesOK, GroundOK, DeskOK, ApplyingOK
<1>4. HeldOK' /\ AnswersOK' /\ OpenedOK'
  BY <1>1 DEF Inv, HeldOK, AnswersOK, OpenedOK, OnLedger
<1>5. \A k : Lines(k)' = Lines(k)
  BY DEF Lines
<1>6. /\ \A r : Merged(r)' <=> Merged(r)
      /\ \A r : Archived(r)' <=> Archived(r)
      /\ \A r : Landed(r)' => Landed(r) \/ died'
  BY <1>1 DEF Merged, Archived, Landed, Lines
<1>7. OriginOK'
  BY <1>6 DEF Inv, OriginOK
<1>8. GrowsOK'
  BY <1>1 DEF Inv, GrowsOK
<1>9. ArchivedOK'
  <2>1. ASSUME ~died', NEW r \in Runs, Archived(r)', Landed(r)'
        PROVE  r \in TipTree(trunk').shelf
    BY <1>6, <2>1 DEF Inv, ArchivedOK
  <2>2. \A r \in Runs : Archived(r)' => r <= served'
    BY <1>6 DEF Inv, ArchivedOK
  <2>3. (\A i \in DOMAIN log : Requested(log[i]) /\ Archived(log[i].request.branch) =>
           log[i].request.branch \in TipTree(branch[log[i].request.branch]).shelf)'
    BY <1>6 DEF Inv, ArchivedOK
  <2> QED BY <1>1, <2>1, <2>2, <2>3 DEF ArchivedOK
<1>10. LandsOnAnothersWord'
  BY <1>5 DEF Inv, LandsOnAnothersWord, NobodyMergesTheirOwn, VouchedIsWhatLands
<1>11. MergedIsInTheTrunk'
  BY <1>5 DEF Inv, MergedIsInTheTrunk
<1> QED BY <1>2, <1>3, <1>4, <1>7, <1>8, <1>9, <1>10, <1>11 DEF Inv

LEMMA StaleKeeps ==
  ASSUME Inv, SettleStale
  PROVE  Inv'
<1>1. /\ pc = "requests" /\ run' = NoRun /\ pc' = "idle"
      /\ UNCHANGED <<log, requests, goals, trunk, branch, city, trees, served, left, died>>
  BY DEF SettleStale
<1>2. RegistersOK'
  BY <1>1 DEF Inv, RegistersOK
<1>3. Types
  BY DEF Inv
<1> QED BY <1>1, <1>2, <1>3, AtRest DEF Types

LEMMA ConcludeKeeps ==
  ASSUME Inv, conclude
  PROVE  Inv'
<1>1. /\ pc = "requests" /\ run' = NoRun /\ pc' = "idle" /\ trees' = release(run.id)
      /\ UNCHANGED <<log, requests, goals, trunk, branch, city, served, left, died>>
  BY DEF conclude
<1>2. DOMAIN trees' \subseteq DOMAIN trees /\ \A r \in DOMAIN trees' : trees'[r] = trees[r]
  BY <1>1 DEF release
<1>3. RegistersOK'
  BY <1>1 DEF Inv, RegistersOK
<1>4. Types
  BY DEF Inv
<1> QED BY <1>1, <1>2, <1>3, <1>4, AtRest DEF Types

LEMMA CrashKeeps ==
  ASSUME Inv, Crash
  PROVE  Inv'
<1>1. /\ run' = NoRun /\ pc' = "down" /\ requests' = <<>> /\ goals' = <<>> /\ died' = TRUE
      /\ left["crash"] > 0 /\ left' = [left EXCEPT !["crash"] = left["crash"] - 1]
      /\ UNCHANGED <<log, trunk, branch, city, trees, served>>
  BY DEF Crash
<1>2. left \in [Things -> Nat] /\ "crash" \in Things
  BY DEF Inv, Types, Things
<1>3. left' \in [Things -> Nat]
  BY <1>1, <1>2
<1>4. requests' \in Seq(Request) /\ goals' \in Seq(Entry)
  BY <1>1, EmptySeq
<1>5. RegistersOK'
  BY <1>1 DEF RegistersOK
<1> QED BY <1>1, <1>3, <1>4, <1>5, AtRest

LEMMA ReopenKeeps ==
  ASSUME Inv, Reopen
  PROVE  Inv'
<1>1. /\ pc = "down" /\ pc' = "idle" /\ requests' = FoldRequests(log) /\ goals' = FoldGoals(log)
      /\ UNCHANGED <<log, trunk, branch, city, trees, run, served, left, died>>
  BY DEF Reopen
<1>2. run' = NoRun
  BY <1>1 DEF Inv, RunOK, Busy
<1>3. requests' \in Seq(Request) /\ goals' \in Seq(Entry)
  BY <1>1, Known, FoldHolds
<1>4. RegistersOK'
  BY <1>1 DEF RegistersOK
<1>5. Types
  BY DEF Inv
<1> QED BY <1>1, <1>2, <1>3, <1>4, <1>5, AtRest DEF Types

(* The drive is over: what the desks hold is settled from here on.           *)
LEMMA FreezeKeeps ==
  ASSUME Inv, Freeze
  PROVE  Inv'
<1>1. /\ pc = "driving" /\ pc' = "goals" /\ pc \in Busy /\ pc' \in Busy
      /\ UNCHANGED <<log, requests, goals, trunk, branch, city, trees, run, served, left, died>>
  BY DEF Freeze, Busy
<1>2. Types'
  BY <1>1 DEF Inv, Types, Busy
<1>3. RunOK' /\ BranchesOK' /\ GroundOK' /\ DeskOK' /\ ApplyingOK'
  BY <1>1 DEF Inv, RunOK, HasTree, BranchesOK, GroundOK, DeskOK, ApplyingOK, OnLedger
<1>4. RegistersOK' /\ HeldOK'
  BY <1>1 DEF Inv, RegistersOK, HeldOK
<1>5. AnswersOK' /\ OpenedOK'
  BY <1>1 DEF Inv, AnswersOK, OpenedOK, OnLedger
<1>6. OriginOK' /\ GrowsOK' /\ ArchivedOK'
  BY <1>1 DEF Inv, OriginOK, GrowsOK, ArchivedOK, Merged, Landed, Archived, Lines, HasTree
<1>7. LandsOnAnothersWord' /\ MergedIsInTheTrunk'
  BY <1>1 DEF Inv, LandsOnAnothersWord, NobodyMergesTheirOwn, VouchedIsWhatLands, MergedIsInTheTrunk, Lines
<1> QED BY <1>2, <1>3, <1>4, <1>5, <1>6, <1>7 DEF Inv
-----------------------------------------------------------------------------
(* The ledger grows.                                                         *)
LEMMA Longer ==
  ASSUME Inv, NEW t \in Seq(Line), log' = log \o t
  PROVE  /\ log' \in Seq(Line) /\ Len(log') = Len(log) + Len(t) /\ DOMAIN log' = 1 .. Len(log) + Len(t)
         /\ \A i \in DOMAIN log : i \in DOMAIN log' /\ log'[i] = log[i]
         /\ \A i \in DOMAIN log' : i \in DOMAIN log \/ \E j \in 1 .. Len(t) : i = Len(log) + j /\ log'[i] = t[j]
         /\ \A q : OnLedger(q) => OnLedger(q)'
<1>1. log \in Seq(Line) /\ DOMAIN log = 1 .. Len(log)
  BY Known
<1> DEFINE u == log \o t
<1>0. /\ u \in Seq(Line) /\ Len(u) = Len(log) + Len(t) /\ DOMAIN u = 1 .. Len(log) + Len(t)
      /\ \A i \in 1 .. Len(log) : i \in 1 .. Len(log) + Len(t) /\ u[i] = log[i]
      /\ \A i \in 1 .. Len(log) + Len(t) :
           i \in 1 .. Len(log) \/ \E j \in 1 .. Len(t) : i = Len(log) + j /\ u[i] = t[j]
  BY <1>1, ConcatFacts
<1> HIDE DEF u
<1>2. /\ log' \in Seq(Line) /\ Len(log') = Len(log) + Len(t) /\ DOMAIN log' = 1 .. Len(log) + Len(t)
      /\ \A i \in DOMAIN log : i \in DOMAIN log' /\ log'[i] = log[i]
      /\ \A i \in DOMAIN log' : i \in DOMAIN log \/ \E j \in 1 .. Len(t) : i = Len(log) + j /\ log'[i] = t[j]
  <2>1. log' = u
    BY DEF u
  <2> QED BY <2>1, <1>0, <1>1, Zenon
<1>3. \A q : OnLedger(q) => OnLedger(q)'
  BY <1>2 DEF OnLedger
<1> QED BY <1>2, <1>3

(* A request that was merged was opened.                                     *)
LEMMA MergedWasOpened ==
  ASSUME Inv, NEW r, Merged(r)
  PROVE  \E i \in DOMAIN log : Requested(log[i]) /\ log[i].request.branch = r
<1>1. PICK j \in DOMAIN log : Is(log[j], "pr_merged") /\ log[j].request.branch = r
  BY DEF Merged, Lines
<1>2. OnLedger(log[j].request)
  BY <1>1 DEF Inv, AnswersOK, Answered, Is
<1> QED BY <1>1, <1>2 DEF OnLedger

(* Lines that neither open nor answer a request.                             *)
LEMMA CalmLines ==
  ASSUME Inv, NEW t \in Seq(Line), log' = log \o t,
         \A i \in 1 .. Len(t) : ~Requested(t[i]) /\ ~Answered(t[i])
  PROVE  /\ FoldRequests(log') = FoldRequests(log)
         /\ \A i \in DOMAIN log' : Requested(log'[i]) \/ Answered(log'[i]) =>
              i \in DOMAIN log /\ log'[i] = log[i]
         /\ \A r : Merged(r)' <=> Merged(r)
         /\ AnswersOK' /\ LandsOnAnothersWord'
<1>1. /\ \A i \in DOMAIN log : i \in DOMAIN log' /\ log'[i] = log[i]
      /\ \A i \in DOMAIN log' : i \in DOMAIN log \/ \E j \in 1 .. Len(t) : i = Len(log) + j /\ log'[i] = t[j]
      /\ \A q : OnLedger(q) => OnLedger(q)'
  BY Longer
<1>2. FoldRequests(log') = FoldRequests(log)
  BY Known, FoldQuiet
<1>3. \A i \in DOMAIN log' : Requested(log'[i]) \/ Answered(log'[i]) => i \in DOMAIN log /\ log'[i] = log[i]
  BY <1>1
<1>4. \A i \in DOMAIN log' : Is(log'[i], "pr_merged") => i \in DOMAIN log /\ log'[i] = log[i]
  BY <1>3 DEF Answered, Is
<1>5. \A r : Merged(r)' <=> Merged(r)
  BY <1>1, <1>4 DEF Merged, Lines
<1>6. AnswersOK'
  BY <1>1, <1>3 DEF Inv, AnswersOK
<1>7. LandsOnAnothersWord'
  BY <1>4 DEF Inv, LandsOnAnothersWord, NobodyMergesTheirOwn, VouchedIsWhatLands, Lines
<1> QED BY <1>2, <1>3, <1>5, <1>6, <1>7

(* Goals, discards and the shelf: a step of the settlement that touches no   *)
(* request, no branch and not the trunk.                                     *)
LEMMA CalmStep ==
  ASSUME Inv, pc \in {"goals", "sweep", "shelf"}, pc' \in {"sweep", "shelf", "requests"},
         NEW t \in Seq(Line), log' = log \o t,
         \A i \in 1 .. Len(t) : ~Requested(t[i]) /\ ~Answered(t[i]),
         UNCHANGED <<requests, trunk, branch, run, served, left, died>>,
         DOMAIN trees' = DOMAIN trees, \A r \in DOMAIN trees : trees'[r] \in FilesSet, city' \in FilesSet,
         goals' = FoldGoals(log'), HeldOK', OriginOK', GrowsOK', ArchivedOK'
  PROVE  Inv'
<1>1. pc \in Busy /\ pc' \in Busy /\ pc # "applying" /\ pc' # "applying" /\ pc' # "down" /\ pc # "down"
  BY DEF Busy
<1>2. /\ log' \in Seq(Line) /\ \A i \in DOMAIN log : i \in DOMAIN log' /\ log'[i] = log[i]
      /\ \A q : OnLedger(q) => OnLedger(q)'
  BY Longer
<1>3. /\ FoldRequests(log') = FoldRequests(log)
      /\ \A i \in DOMAIN log' : Requested(log'[i]) \/ Answered(log'[i]) => i \in DOMAIN log /\ log'[i] = log[i]
      /\ AnswersOK' /\ LandsOnAnothersWord'
  BY CalmLines
<1>4. Types'
  <2>1. goals' \in Seq(Entry)
    BY <1>2, FoldHolds
  <2> QED BY <1>1, <1>2, <2>1 DEF Inv, Types
<1>5. RunOK' /\ BranchesOK'
  BY <1>1 DEF Inv, RunOK, HasTree, BranchesOK
<1>6. RegistersOK'
  BY <1>1, <1>3 DEF Inv, RegistersOK
<1>7. GroundOK' /\ ApplyingOK'
  BY DEF GroundOK, ApplyingOK
<1>8. DeskOK'
  BY <1>1, <1>2 DEF Inv, DeskOK, HasTree
<1>9. OpenedOK'
  <2>1. \A i \in DOMAIN log : Requested(log[i]) =>
          /\ log[i].request.branch \in Runs /\ log[i].request.branch < served
          /\ branch[log[i].request.branch] # <<>>
          /\ TipTree(log[i].request.commit) = TipTree(branch[log[i].request.branch])
    <3>1. \A i \in DOMAIN log : Requested(log[i]) => log[i].request.branch \in Runs
      BY Known, LineKinds DEF Request
    <3> QED BY <3>1 DEF Inv, OpenedOK
  <2>2. \A i \in DOMAIN log : Requested(log[i]) => log[i].request.branch # served /\ log[i].request.branch <= served
    BY <2>1, Known DEF Runs
  <2> QED BY <1>3, <2>1, <2>2 DEF OpenedOK
<1>10. MergedIsInTheTrunk'
  <2>1. \A i \in DOMAIN log' : Is(log'[i], "pr_merged") => i \in DOMAIN log /\ log'[i] = log[i]
    BY <1>3 DEF Answered, Is
  <2> QED BY <1>1, <2>1 DEF Inv, MergedIsInTheTrunk, Lines
<1> QED BY <1>3, <1>4, <1>5, <1>6, <1>7, <1>8, <1>9, <1>10 DEF Inv

(* What a step does to the shelf and to the trees when it touches neither.   *)
LEMMA ShelvesStand ==
  ASSUME Inv, UNCHANGED <<trunk, branch, city, trees, run, served, died>>,
         pc \in Busy, pc' \in Busy, pc # "applying", pc' # "applying",
         NEW t \in Seq(Line), log' = log \o t,
         \A i \in 1 .. Len(t) : ~Requested(t[i]) /\ ~Answered(t[i]) /\ ~Is(t[i], "asset_archived")
  PROVE  OriginOK' /\ GrowsOK' /\ ArchivedOK'
<1>1. /\ \A i \in DOMAIN log : i \in DOMAIN log' /\ log'[i] = log[i]
      /\ \A i \in DOMAIN log' : i \in DOMAIN log \/ \E j \in 1 .. Len(t) : i = Len(log) + j /\ log'[i] = t[j]
  BY Longer
<1>2. /\ \A i \in DOMAIN log' : Requested(log'[i]) \/ Answered(log'[i]) => i \in DOMAIN log /\ log'[i] = log[i]
      /\ \A r : Merged(r)' <=> Merged(r)
  BY CalmLines
<1>3. \A r : Archived(r)' <=> Archived(r)
  BY <1>1 DEF Archived, Lines
<1>4. \A r : Landed(r)' <=> Landed(r)
  BY <1>2 DEF Landed, Merged
<1>5. OriginOK'
  BY <1>2 DEF Inv, OriginOK
<1>6. GrowsOK'
  BY DEF Inv, GrowsOK, HasTree
<1>7. ArchivedOK'
  <2>1. (\A i \in DOMAIN log : Requested(log[i]) /\ Archived(log[i].request.branch) =>
           log[i].request.branch \in TipTree(branch[log[i].request.branch]).shelf)'
    BY <1>2, <1>3 DEF Inv, ArchivedOK
  <2>2. (\A r \in Runs : Archived(r) => r <= served)'
    BY <1>3 DEF Inv, ArchivedOK
  <2>3. (pc \in Busy /\ HasTree /\ Archived(served) => served \in trees[served].shelf)'
    BY <1>3 DEF Inv, ArchivedOK, HasTree
  <2>4. (~died => \A r \in Runs : Archived(r) /\ Landed(r) => r \in TipTree(trunk).shelf)'
    BY <1>3, <1>4 DEF Inv, ArchivedOK
  <2> QED BY <2>1, <2>2, <2>3, <2>4 DEF ArchivedOK
<1> QED BY <1>5, <1>6, <1>7
(* The lines of a goal desk.                                                 *)
LEMMA GoalLinesAre ==
  ASSUME NEW g \in Seq(GoalEffect)
  PROVE  /\ GoalLines(g) \in Seq(Line) /\ Len(GoalLines(g)) = Len(g) /\ DOMAIN GoalLines(g) = 1 .. Len(g)
         /\ \A i \in 1 .. Len(g) :
              /\ GoalLines(g)[i].entry = g[i].entry
              /\ Is(GoalLines(g)[i], "goal_registered") <=> g[i].op = "Registered"
              /\ ~Requested(GoalLines(g)[i]) /\ ~Answered(GoalLines(g)[i])
              /\ ~Is(GoalLines(g)[i], "asset_archived")
<1>1. Len(g) \in Nat /\ DOMAIN g = 1 .. Len(g) /\ \A i \in 1 .. Len(g) : g[i] \in GoalEffect
  BY SeqFacts
<1> DEFINE line(i) == [kind |-> IF g[i].op = "Registered" THEN "goal_registered" ELSE "goal_conflict",
                       entry |-> g[i].entry]
<1>2. \A i \in 1 .. Len(g) : line(i) \in Line
  <2> SUFFICES ASSUME NEW i \in 1 .. Len(g) PROVE line(i) \in Line
    OBVIOUS
  <2>1. g[i].entry \in Entry
    BY <1>1 DEF GoalEffect
  <2>2. line(i) \in [kind : {"goal_registered", "goal_conflict"}, entry : Entry]
    BY <2>1
  <2> HIDE DEF line
  <2> QED BY <2>2 DEF Line
<1>3. GoalLines(g) = [i \in 1 .. Len(g) |-> line(i)]
  BY <1>1 DEF GoalLines
<1>4. \A i \in 1 .. Len(g) :
        /\ line(i).entry = g[i].entry /\ (Is(line(i), "goal_registered") <=> g[i].op = "Registered")
        /\ ~Requested(line(i)) /\ ~Answered(line(i)) /\ ~Is(line(i), "asset_archived")
  BY DEF Is, Requested, Answered
<1> HIDE DEF line
<1>5. GoalLines(g) \in [1 .. Len(g) -> Line]
  BY <1>2, <1>3
<1>6. GoalLines(g) \in Seq(Line) /\ Len(GoalLines(g)) = Len(g)
  <2>1. GoalLines(g) \in Seq(Line)
    BY <1>1, <1>5, IsASeq
  <2>2. DOMAIN GoalLines(g) = 1 .. Len(g)
    BY <1>5
  <2> QED BY <2>1, <2>2, <1>1, LenProperties
<1> QED BY <1>3, <1>4, <1>5, <1>6

LEMMA GoalsKeep ==
  ASSUME Inv, SettleGoals
  PROVE  Inv'
<1> DEFINE t == GoalLines(run.goals)
<1>1. /\ pc = "goals" /\ pc' = "sweep" /\ log' = log \o t /\ goals' = goals \o FoldGoals(t)
      /\ UNCHANGED <<requests, trunk, branch, city, trees, run, served, left, died>>
  BY DEF SettleGoals
<1>2. pc \in Busy /\ pc' \in Busy /\ run.goals \in Seq(GoalEffect)
  <2>1. pc \in Busy /\ pc' \in Busy
    BY <1>1 DEF Busy
  <2> QED BY <2>1, AtWork
<1>3. /\ t \in Seq(Line) /\ Len(t) = Len(run.goals)
      /\ \A i \in 1 .. Len(t) : /\ t[i].entry = run.goals[i].entry /\ i \in DOMAIN run.goals
                                /\ ~Requested(t[i]) /\ ~Answered(t[i]) /\ ~Is(t[i], "asset_archived")
  BY <1>2, GoalLinesAre, SeqFacts
<1>4. goals' = FoldGoals(log') /\ goals' = run.registered
  <2>1. goals = FoldGoals(log) /\ run.registered = goals \o FoldGoals(t)
    BY <1>1 DEF Inv, RegistersOK, GroundOK
  <2> HIDE DEF t
  <2>2. FoldGoals(log \o t) = FoldGoals(log) \o FoldGoals(t)
    BY <1>3, Known, FoldGoalsConcat
  <2> QED BY <1>1, <2>1, <2>2
<1>5. HeldOK'
  <2>1. HeldOnce(run.registered) /\ \A i \in DOMAIN run.goals : run.goals[i].entry.id[1] = served
    BY <1>1 DEF Inv, GroundOK
  <2>2. \A i \in DOMAIN log : Is(log[i], "goal_registered") => log[i].entry.id[1] <= served
    BY DEF Inv, HeldOK
  <2> HIDE DEF t
  <2>3. /\ \A i \in DOMAIN log : i \in DOMAIN log' /\ log'[i] = log[i]
        /\ \A i \in DOMAIN log' : i \in DOMAIN log \/ \E j \in 1 .. Len(t) : i = Len(log) + j /\ log'[i] = t[j]
    BY <1>1, <1>3, Longer
  <2>4. \A i \in DOMAIN log' : Is(log'[i], "goal_registered") => log'[i].entry.id[1] <= served
    <3> SUFFICES ASSUME NEW i \in DOMAIN log', Is(log'[i], "goal_registered")
                 PROVE  log'[i].entry.id[1] <= served
      OBVIOUS
    <3>1. CASE i \in DOMAIN log
      BY <3>1, <2>2, <2>3
    <3>2. CASE \E j \in 1 .. Len(t) : i = Len(log) + j /\ log'[i] = t[j]
      <4>1. log'[i].entry.id[1] = served
        BY <3>2, <1>3, <2>1
      <4> QED BY <4>1, Known
    <3> QED BY <2>3, <3>1, <3>2
  <2> QED BY <1>1, <1>4, <2>1, <2>4 DEF HeldOK
<1> HIDE DEF t
<1>6. OriginOK' /\ GrowsOK' /\ ArchivedOK'
  BY <1>1, <1>2, <1>3, ShelvesStand
<1>7. city' \in FilesSet /\ DOMAIN trees' = DOMAIN trees /\ \A r \in DOMAIN trees : trees'[r] \in FilesSet
  BY <1>1 DEF Inv, Types
<1> QED BY <1>1, <1>3, <1>4, <1>5, <1>6, <1>7, CalmStep

(* Lines that register no goal leave the ground as it is held.               *)
LEMMA GroundStands ==
  ASSUME Inv, NEW t \in Seq(Line), log' = log \o t, \A i \in 1 .. Len(t) : ~Is(t[i], "goal_registered"),
         served' = served, pc' \notin {"driving", "goals"}
  PROVE  HeldOK' /\ FoldGoals(log') = FoldGoals(log)
<1>1. FoldGoals(log') = FoldGoals(log)
  BY Known, FoldGoalsQuiet
<1>2. /\ \A i \in DOMAIN log : i \in DOMAIN log' /\ log'[i] = log[i]
      /\ \A i \in DOMAIN log' : i \in DOMAIN log \/ \E j \in 1 .. Len(t) : i = Len(log) + j /\ log'[i] = t[j]
  BY Longer
<1>3. \A i \in DOMAIN log' : Is(log'[i], "goal_registered") => i \in DOMAIN log /\ log'[i] = log[i]
  BY <1>2
<1> QED BY <1>1, <1>3 DEF Inv, HeldOK

(* The sweep's lines, in whatever order they are written.                    *)
LEMMA SetToSeqIs ==
  ASSUME NEW S, IsFiniteSet(S)
  PROVE  SetToSeq(S) \in Seq(S)
<1>1. Cardinality(S) \in Nat
  BY FS_CardinalityType
<1>2. \E f \in [1 .. Cardinality(S) -> S] : IsInjective(f)
  <2>1. IsFiniteSet(1 .. Cardinality(S)) /\ Cardinality(1 .. Cardinality(S)) = Cardinality(S)
    BY <1>1, FS_Interval
  <2>2. ExistsBijection(1 .. Cardinality(S), S)
    BY <2>1, FS_SameCardinalityBij
  <2> QED BY <2>2 DEF ExistsBijection, Bijection, Injection, IsInjective
<1>3. SetToSeq(S) \in [1 .. Cardinality(S) -> S]
  BY <1>2 DEF SetToSeq
<1> QED BY <1>1, <1>3, IsASeq

LEMMA DiscardsKeep ==
  ASSUME Inv, SettleDiscards
  PROVE  Inv'
<1> DEFINE gone == wave_post(run.fenced, Files)
           line(x) == [kind |-> "file_discarded", room |-> x, run |-> run.id, at |-> run.fenced]
           S == {line(x) : x \in gone}
           t == SetToSeq(S)
<1>1. /\ pc = "sweep" /\ pc' = "shelf" /\ log' = log \o t
      /\ UNCHANGED <<requests, goals, trunk, branch, city, trees, run, served, left, died>>
  BY DEF SettleDiscards
<1>2. pc \in Busy /\ pc' \in Busy /\ run.fenced \in Seq(Commit) /\ run.id \in Runs
  <2>1. pc \in Busy /\ pc' \in Busy
    BY <1>1 DEF Busy
  <2> QED BY <2>1, AtWork
<1>3. gone \subseteq Rooms /\ IsFiniteSet(gone)
  <2>1. gone \subseteq Rooms
    BY <1>2, TipIs, FilesAre DEF wave_post
  <2> HIDE DEF gone
  <2> QED BY <2>1, FS_Subset, ReviewingAssumption
<1>4. \A x \in Rooms : line(x) \in Line /\ line(x).kind = "file_discarded"
  <2> SUFFICES ASSUME NEW x \in Rooms PROVE line(x) \in Line /\ line(x).kind = "file_discarded"
    OBVIOUS
  <2>1. line(x) \in [kind : {"file_discarded"}, room : Rooms, run : Runs, at : Seq(Commit)]
    BY <1>2
  <2>2. line(x).kind = "file_discarded"
    OBVIOUS
  <2> HIDE DEF line
  <2> QED BY <2>1, <2>2 DEF Line
<1> HIDE DEF gone, line
<1>5. IsFiniteSet(S)
  <2> DEFINE f == [x \in gone |-> line(x)]
  <2>1. f \in Surjection(gone, S)
    BY DEF Surjection
  <2> HIDE DEF S, f
  <2> QED BY <1>3, <2>1, FS_Surjection
<1>6. \A x \in S : x \in Line /\ x.kind = "file_discarded"
  BY <1>3, <1>4
<1> HIDE DEF S
<1>7. t \in Seq(S)
  BY <1>5, SetToSeqIs
<1> HIDE DEF t
<1>8. /\ t \in Seq(Line)
      /\ \A i \in 1 .. Len(t) : /\ ~Requested(t[i]) /\ ~Answered(t[i]) /\ ~Is(t[i], "asset_archived")
                                /\ ~Is(t[i], "goal_registered")
  <2>1. Len(t) \in Nat /\ t \in [1 .. Len(t) -> S] /\ \A i \in 1 .. Len(t) : t[i] \in S
    BY <1>7, LenProperties, ElementOfSeq
  <2>2. t \in [1 .. Len(t) -> Line]
    BY <1>6, <2>1
  <2>3. t \in Seq(Line)
    BY <2>1, <2>2, IsASeq
  <2> QED BY <1>6, <2>1, <2>3 DEF Requested, Answered, Is
<1>9. OriginOK' /\ GrowsOK' /\ ArchivedOK'
  BY <1>1, <1>2, <1>8, ShelvesStand
<1>10. HeldOK' /\ FoldGoals(log') = FoldGoals(log)
  BY <1>1, <1>8, GroundStands
<1>11. goals' = FoldGoals(log')
  BY <1>1, <1>10 DEF Inv, RegistersOK
<1>12. city' \in FilesSet /\ DOMAIN trees' = DOMAIN trees /\ \A r \in DOMAIN trees : trees'[r] \in FilesSet
  BY <1>1 DEF Inv, Types
<1> QED BY <1>1, <1>8, <1>9, <1>10, <1>11, <1>12, CalmStep
(* What SetFiles leaves.                                                     *)
LEMMA FilesSetTo ==
  ASSUME Inv, pc \in Busy, NEW f \in FilesSet, SetFiles(f)
  PROVE  /\ DOMAIN trees' = DOMAIN trees /\ \A r \in DOMAIN trees : trees'[r] \in FilesSet
         /\ city' \in FilesSet
         /\ HasTree => city' = city /\ trees'[served] = f
         /\ ~HasTree => city' = f /\ trees' = trees
         /\ \A r \in DOMAIN trees : r # served => trees'[r] = trees[r]
<1>1. run.id = served /\ (HasTree <=> served \in DOMAIN trees)
  BY AtWork
<1>2. city \in FilesSet /\ \A r \in DOMAIN trees : trees[r] \in FilesSet
  BY DEF Inv, Types
<1>3. CASE HasTree
  <2>1. trees' = [trees EXCEPT ![served] = f] /\ city' = city
    BY <1>1, <1>3 DEF SetFiles
  <2> QED BY <1>1, <1>2, <1>3, <2>1
<1>4. CASE ~HasTree
  <2>1. trees' = trees /\ city' = f
    BY <1>1, <1>4 DEF SetFiles
  <2> QED BY <1>1, <1>2, <1>4, <2>1
<1> QED BY <1>3, <1>4

LEMMA ShelfKeeps ==
  ASSUME Inv, SettleShelf
  PROVE  Inv'
<1>1. /\ pc = "shelf" /\ pc' = "requests" /\ pc \in Busy /\ pc' \in Busy
      /\ UNCHANGED <<requests, goals, trunk, branch, run, served, left, died>>
  BY DEF SettleShelf, Busy
<1>2. /\ run.id = served /\ served \in Runs /\ run.shelf \in BOOLEAN /\ Files \in FilesSet
      /\ (HasTree <=> branch[served] # <<>>) /\ (HasTree <=> served \in DOMAIN trees)
      /\ Files = (IF HasTree THEN trees[served] ELSE city)
  BY <1>1, AtWork
<1>3. CASE ~run.shelf
  <2>1. UNCHANGED <<log, city, trees>>
    BY <1>3 DEF SettleShelf
  <2> DEFINE t == <<>>
  <2>2. t \in Seq(Line) /\ Len(t) = 0 /\ log' = log \o t
    BY <2>1, Known, EmptySeq, ConcatEmptySeq
  <2> HIDE DEF t
  <2>3. /\ \A i \in 1 .. Len(t) : ~Requested(t[i]) /\ ~Answered(t[i])
        /\ \A i \in 1 .. Len(t) : ~Is(t[i], "asset_archived") /\ ~Is(t[i], "goal_registered")
    BY <2>2
  <2>4. OriginOK' /\ GrowsOK' /\ ArchivedOK'
    BY <1>1, <2>1, <2>2, <2>3, ShelvesStand
  <2>5. HeldOK' /\ FoldGoals(log') = FoldGoals(log)
    BY <1>1, <2>2, <2>3, GroundStands
  <2>6. goals' = FoldGoals(log')
    BY <1>1, <2>5 DEF Inv, RegistersOK
  <2>7. city' \in FilesSet /\ DOMAIN trees' = DOMAIN trees /\ \A r \in DOMAIN trees : trees'[r] \in FilesSet
    BY <2>1 DEF Inv, Types
  <2> QED BY <1>1, <2>2, <2>3, <2>4, <2>5, <2>6, <2>7, CalmStep
<1>4. CASE run.shelf
  <2> DEFINE x == [kind |-> "asset_archived", run |-> served]
             t == <<x>>
             f == [Files EXCEPT !.shelf = Files.shelf \cup {served}]
  <2>1. log' = Append(log, x) /\ SetFiles(f)
    BY <1>2, <1>4 DEF SettleShelf
  <2>2. x \in Line /\ Is(x, "asset_archived") /\ x.run = served
    BY <1>2 DEF Line, Is
  <2>3. f \in FilesSet /\ f.shelf = Files.shelf \cup {served}
    BY <1>2, FilesAre, FilesMade
  <2> HIDE DEF x, f
  <2>4. t \in Seq(Line) /\ Len(t) = 1 /\ t[1] = x /\ log' = log \o t
    BY <2>1, <2>2, Known, AppendIsConcat
  <2> HIDE DEF t
  <2>5. \A i \in 1 .. Len(t) : t[i] = x /\ ~Requested(t[i]) /\ ~Answered(t[i]) /\ ~Is(t[i], "goal_registered")
    BY <2>2, <2>4, LineKinds DEF Is
  <2>6. /\ DOMAIN trees' = DOMAIN trees /\ \A r \in DOMAIN trees : trees'[r] \in FilesSet
        /\ city' \in FilesSet
        /\ HasTree => city' = city /\ trees'[served] = f
        /\ ~HasTree => city' = f /\ trees' = trees
        /\ \A r \in DOMAIN trees : r # served => trees'[r] = trees[r]
    BY <1>1, <2>1, <2>3, FilesSetTo
  <2>7. /\ Len(log) \in Nat
        /\ \A i \in DOMAIN log : i \in DOMAIN log' /\ log'[i] = log[i]
        /\ \A i \in DOMAIN log' : i \in DOMAIN log \/ log'[i] = x
    <3>1. /\ \A i \in DOMAIN log : i \in DOMAIN log' /\ log'[i] = log[i]
          /\ \A i \in DOMAIN log' : i \in DOMAIN log \/ \E j \in 1 .. Len(t) : i = Len(log) + j /\ log'[i] = t[j]
      BY <2>4, Longer
    <3> QED BY <2>5, <3>1, Known
  <2>8. /\ \A i \in DOMAIN log' : Requested(log'[i]) \/ Answered(log'[i]) => i \in DOMAIN log /\ log'[i] = log[i]
        /\ \A r : Merged(r)' <=> Merged(r)
    BY <2>4, <2>5, CalmLines
  <2>9. \A r : Archived(r)' => Archived(r) \/ r = served
    BY <2>2, <2>7 DEF Archived, Lines
  <2>10. \A i \in DOMAIN log : Requested(log[i]) => log[i].request.branch \in Runs /\ log[i].request.branch # served
    <3>1. \A i \in DOMAIN log : Requested(log[i]) => log[i].request.branch \in Runs
      BY Known, LineKinds DEF Request
    <3>2. \A i \in DOMAIN log : Requested(log[i]) => log[i].request.branch < served
      BY <1>1 DEF Inv, OpenedOK
    <3> QED BY <3>1, <3>2, Known DEF Runs
  <2>11. ~Merged(served)
    BY <2>10, MergedWasOpened
  <2>12. OriginOK'
    <3>1. \A y \in TipTree(trunk).shelf : Merged(y) /\ y \in city'.shelf
      BY <2>3, <2>6, <1>2 DEF Inv, OriginOK
    <3>2. \A r \in DOMAIN trees : \A y \in trees'[r].shelf : y = r \/ Merged(y)
      <4> SUFFICES ASSUME NEW r \in DOMAIN trees, NEW y \in trees'[r].shelf PROVE y = r \/ Merged(y)
        OBVIOUS
      <4>1. CASE y \in trees[r].shelf
        BY <4>1 DEF Inv, OriginOK
      <4>2. CASE y \notin trees[r].shelf
        BY <4>2, <1>2, <2>3, <2>6
      <4> QED BY <4>1, <4>2
    <3>3. \A y \in city'.shelf : Merged(y) \/ (y <= served /\ branch[y] = <<>>)
      <4> SUFFICES ASSUME NEW y \in city'.shelf PROVE Merged(y) \/ (y <= served /\ branch[y] = <<>>)
        OBVIOUS
      <4>1. CASE y \in city.shelf
        BY <4>1 DEF Inv, OriginOK
      <4>2. CASE y \notin city.shelf
        <5>1. ~HasTree /\ y = served
          BY <4>2, <1>2, <2>3, <2>6
        <5> QED BY <5>1, <1>2, Known
      <4> QED BY <4>1, <4>2
    <3> QED BY <1>1, <2>6, <2>8, <3>1, <3>2, <3>3 DEF Inv, OriginOK
  <2>13. GrowsOK'
    <3>1. HasTree' <=> HasTree
      BY <1>1, <2>6 DEF HasTree
    <3>2. HasTree => TipTree(branch[served]).shelf \subseteq trees[served].shelf
      BY <1>1 DEF Inv, GrowsOK
    <3>3. HasTree => TipTree(branch[served]).shelf \subseteq trees'[served].shelf
      BY <1>2, <2>3, <2>6, <3>2
    <3> QED BY <1>1, <3>1, <3>3 DEF Inv, GrowsOK
  <2>14. ArchivedOK'
    <3>1. (\A r \in Runs : Archived(r) => r <= served)'
      BY <1>1, <1>2, <2>9, Known DEF Inv, ArchivedOK
    <3>2. (HasTree => served \in trees[served].shelf)'
      <4>1. HasTree' => HasTree
        BY <1>1, <2>6 DEF HasTree
      <4> QED BY <1>1, <2>3, <2>6, <4>1
    <3>3. (\A i \in DOMAIN log : Requested(log[i]) /\ Archived(log[i].request.branch) =>
             log[i].request.branch \in TipTree(branch[log[i].request.branch]).shelf)'
      BY <1>1, <2>8, <2>9, <2>10 DEF Inv, ArchivedOK
    <3>4. (~died => \A r \in Runs : Archived(r) /\ Landed(r) => r \in TipTree(trunk).shelf)'
      <4>1. \A r : Landed(r)' => Merged(r) /\ Landed(r)
        BY <1>1, <2>8 DEF Landed, Merged
      <4> QED BY <1>1, <2>9, <2>11, <4>1 DEF Inv, ArchivedOK
    <3> QED BY <3>1, <3>2, <3>3, <3>4 DEF ArchivedOK
  <2>15. HeldOK' /\ FoldGoals(log') = FoldGoals(log)
    BY <1>1, <2>4, <2>5, GroundStands
  <2>16. goals' = FoldGoals(log')
    BY <1>1, <2>15 DEF Inv, RegistersOK
  <2> QED BY <1>1, <2>4, <2>5, <2>6, <2>12, <2>13, <2>14, <2>15, <2>16, CalmStep
<1> QED BY <1>2, <1>3, <1>4
-----------------------------------------------------------------------------
(* The requests. One line is written.                                        *)
LEMMA OneMore ==
  ASSUME Inv, NEW x \in Line, log' = Append(log, x)
  PROVE  /\ log' \in Seq(Line) /\ Len(log') = Len(log) + 1 /\ DOMAIN log' = 1 .. Len(log) + 1
         /\ \A i \in DOMAIN log : i \in DOMAIN log' /\ log'[i] = log[i]
         /\ \A i \in DOMAIN log' : i \in DOMAIN log \/ (i = Len(log) + 1 /\ log'[i] = x)
         /\ Len(log) + 1 \in DOMAIN log' /\ log'[Len(log) + 1] = x
         /\ Len(log) + 1 \notin DOMAIN log
         /\ log' # <<>> /\ Last(log') = x
         /\ \A q : OnLedger(q) => OnLedger(q)'
<1>1. log \in Seq(Line) /\ Len(log) \in Nat /\ DOMAIN log = 1 .. Len(log)
  BY Known
<1> DEFINE u == Append(log, x)
<1>2. /\ u \in Seq(Line) /\ Len(u) = Len(log) + 1 /\ DOMAIN u = 1 .. Len(log) + 1
      /\ \A i \in 1 .. Len(log) : i \in 1 .. Len(log) + 1 /\ u[i] = log[i]
      /\ u[Len(log) + 1] = x
      /\ \A i \in 1 .. Len(log) + 1 : i \in 1 .. Len(log) \/ i = Len(log) + 1
      /\ u # <<>> /\ Last(u) = x
  BY <1>1, AppendFacts
<1>3. log' = u
  BY DEF u
<1> HIDE DEF u
<1>4. /\ log' \in Seq(Line) /\ Len(log') = Len(log) + 1 /\ DOMAIN log' = 1 .. Len(log) + 1
      /\ \A i \in DOMAIN log : i \in DOMAIN log' /\ log'[i] = log[i]
      /\ log'[Len(log) + 1] = x /\ log' # <<>> /\ Last(log') = x
  BY <1>1, <1>2, <1>3, Zenon
<1>5. \A i \in DOMAIN log' : i \in DOMAIN log \/ (i = Len(log) + 1 /\ log'[i] = x)
  BY <1>1, <1>2, <1>4, Zenon
<1>6. Len(log) + 1 \in DOMAIN log' /\ Len(log) + 1 \notin DOMAIN log
  BY <1>1, <1>4
<1>7. \A q : OnLedger(q) => OnLedger(q)'
  BY <1>4 DEF OnLedger
<1> QED BY <1>4, <1>5, <1>6, <1>7

(* An effect is taken off the desk.                                          *)
LEMMA TakenIs ==
  ASSUME Inv, pc \in Busy, run.effects # <<>>
  PROVE  /\ Effect \in PrEffect /\ Effect = run.effects[1] /\ 1 \in DOMAIN run.effects
         /\ Taken \in Desk /\ Taken.id = run.id /\ Taken.room = run.room /\ Taken.who = run.who
         /\ Taken.open = run.open /\ Taken.effects = Tail(run.effects)
         /\ \A i \in DOMAIN Taken.effects : \E j \in DOMAIN run.effects : Taken.effects[i] = run.effects[j]
<1>1. run \in Desk /\ run.effects \in Seq(PrEffect)
  BY AtWork
<1>2. /\ Len(run.effects) \in Nat /\ DOMAIN run.effects = 1 .. Len(run.effects) /\ 1 \in DOMAIN run.effects
      /\ run.effects[1] \in PrEffect
  BY <1>1, SeqFacts
<1> DEFINE u == Tail(run.effects)
<1>3. u \in Seq(PrEffect) /\ Len(u) = Len(run.effects) - 1 /\ \A i \in 1 .. Len(u) : u[i] = run.effects[i + 1]
  BY <1>1, HeadTailProperties
<1>4. Taken = [run EXCEPT !.effects = u]
  BY DEF Taken
<1> HIDE DEF u
<1>5. /\ Taken \in Desk /\ Taken.id = run.id /\ Taken.room = run.room /\ Taken.who = run.who
      /\ Taken.open = run.open /\ Taken.effects = u
  BY <1>1, <1>3, <1>4 DEF Desk
<1>6. DOMAIN u = 1 .. Len(u)
  BY <1>3, SeqFacts
<1>7. \A i \in DOMAIN u : \E j \in DOMAIN run.effects : u[i] = run.effects[j]
  <2> SUFFICES ASSUME NEW i \in DOMAIN u PROVE \E j \in DOMAIN run.effects : u[i] = run.effects[j]
    OBVIOUS
  <2>1. i + 1 \in DOMAIN run.effects /\ u[i] = run.effects[i + 1]
    BY <1>2, <1>3, <1>6
  <2> QED BY <2>1
<1> QED BY <1>2, <1>5, <1>7 DEF Effect, u

LEMMA EffectIs ==
  ASSUME Inv, pc \in Busy, run.effects # <<>>, Effect.op # "Opened"
  PROVE  /\ Effect.op \in {"Merged", "Rejected"} /\ Effect.request \in Request /\ Effect.request.branch \in Runs
         /\ OnLedger(Effect.request) /\ Effect.request.branch < served
         /\ Effect.op = "Merged" => Effect.request.implementer # run.who
<1>1. Effect \in PrEffect /\ Effect = run.effects[1] /\ 1 \in DOMAIN run.effects
  BY TakenIs
<1>2. Effect.op \in {"Merged", "Rejected"} /\ Effect.request \in Request
  BY <1>1 DEF PrEffect
<1>3. Effect.request.branch \in Runs
  BY <1>2 DEF Request
<1> QED BY <1>1, <1>2, <1>3 DEF Inv, DeskOK
(* An answer is written: the fold loses the branch's requests, and every     *)
(* other reading of the ledger stands.                                       *)
LEMMA AnswerLine ==
  ASSUME Inv, NEW x \in Line, Answered(x), OnLedger(x.request), log' = Append(log, x),
         served' = served, pc' \notin {"driving", "goals"}
  PROVE  /\ FoldRequests(log') = retain(FoldRequests(log), x.request.branch)
         /\ FoldGoals(log') = FoldGoals(log) /\ HeldOK' /\ AnswersOK'
         /\ \A i \in DOMAIN log' : Requested(log'[i]) => i \in DOMAIN log /\ log'[i] = log[i]
         /\ \A r : Archived(r)' <=> Archived(r)
         /\ \A r : Merged(r) => Merged(r)'
<1>1. /\ log' \in Seq(Line)
      /\ \A i \in DOMAIN log : i \in DOMAIN log' /\ log'[i] = log[i]
      /\ \A i \in DOMAIN log' : i \in DOMAIN log \/ (i = Len(log) + 1 /\ log'[i] = x)
      /\ \A q : OnLedger(q) => OnLedger(q)'
  BY OneMore
<1>2. ~Requested(x) /\ ~Is(x, "goal_registered") /\ ~Is(x, "asset_archived")
  BY LineKinds
<1>3. FoldRequests(log') = retain(FoldRequests(log), x.request.branch)
  BY Known, FoldAnswered
<1>4. FoldGoals(log') = FoldGoals(log)
  BY <1>2, Known, FoldGoalsAppend
<1>5. \A i \in DOMAIN log' : Requested(log'[i]) \/ Is(log'[i], "goal_registered") \/ Is(log'[i], "asset_archived")
        => i \in DOMAIN log /\ log'[i] = log[i]
  BY <1>1, <1>2
<1>6. HeldOK'
  BY <1>4, <1>5 DEF Inv, HeldOK
<1>7. AnswersOK'
  BY <1>1 DEF Inv, AnswersOK
<1>8. \A r : Archived(r)' <=> Archived(r)
  BY <1>1, <1>5 DEF Archived, Lines
<1>9. \A r : Merged(r) => Merged(r)'
  BY <1>1 DEF Merged, Lines
<1> QED BY <1>3, <1>4, <1>5, <1>6, <1>7, <1>8, <1>9

LEMMA RejectedKeeps ==
  ASSUME Inv, SettleRejected
  PROVE  Inv'
<1> DEFINE q == Effect.request
           x == [kind |-> "pr_rejected", request |-> q, by |-> run.who, in |-> run.id, commit |-> q.commit]
<1>1. /\ pc = "requests" /\ run.effects # <<>> /\ Effect.op # "Opened" /\ pc \in Busy
      /\ log' = Append(log, x) /\ requests' = retain(requests, q.branch) /\ run' = Taken
      /\ UNCHANGED <<goals, trunk, branch, city, trees, pc, served, left, died>>
  BY DEF SettleRejected, Answer, Without, Busy
<1>2. q \in Request /\ OnLedger(q) /\ run.who \in Residents /\ run.id \in Runs /\ run.id = served
  BY <1>1, EffectIs, AtWork
<1>3. x \in Line /\ Answered(x) /\ x.request = q /\ ~Is(x, "pr_merged")
  BY <1>2 DEF Line, Answered, Is, Request
<1> HIDE DEF q, x
<1>4. /\ log' \in Seq(Line)
      /\ \A i \in DOMAIN log : i \in DOMAIN log' /\ log'[i] = log[i]
      /\ \A i \in DOMAIN log' : i \in DOMAIN log \/ (i = Len(log) + 1 /\ log'[i] = x)
      /\ \A y : OnLedger(y) => OnLedger(y)'
  BY <1>1, <1>3, OneMore
<1>5. pc' \notin {"driving", "goals"} /\ served' = served /\ OnLedger(x.request)
  BY <1>1, <1>2, <1>3
<1>6. /\ FoldRequests(log') = retain(FoldRequests(log), q.branch)
      /\ FoldGoals(log') = FoldGoals(log) /\ HeldOK' /\ AnswersOK'
      /\ \A i \in DOMAIN log' : Requested(log'[i]) => i \in DOMAIN log /\ log'[i] = log[i]
      /\ \A r : Archived(r)' <=> Archived(r)
      /\ \A r : Merged(r) => Merged(r)'
  BY <1>1, <1>3, <1>5, AnswerLine
<1>7. \A i \in DOMAIN log' : Is(log'[i], "pr_merged") => i \in DOMAIN log /\ log'[i] = log[i]
  BY <1>3, <1>4
<1>8. /\ run' \in Desk /\ run'.id = run.id /\ run'.room = run.room /\ run'.who = run.who /\ run'.open = run.open
      /\ \A i \in DOMAIN run'.effects : \E j \in DOMAIN run.effects : run'.effects[i] = run.effects[j]
  BY <1>1, TakenIs
<1>9. HasTree' <=> HasTree
  BY <1>1, <1>8 DEF HasTree
<1>10. Types'
  <2>1. requests' \in Seq(Request)
    BY <1>1, RetainIs DEF Inv, Types
  <2> QED BY <1>1, <1>4, <2>1 DEF Inv, Types
<1>11. RunOK' /\ BranchesOK'
  BY <1>1, <1>8, <1>9 DEF Inv, RunOK, BranchesOK
<1>12. RegistersOK' /\ GroundOK' /\ ApplyingOK'
  BY <1>1, <1>6 DEF Inv, RegistersOK, GroundOK, ApplyingOK
<1>13. DeskOK'
  BY <1>1, <1>4, <1>8, <1>9 DEF Inv, DeskOK
<1>14. OpenedOK'
  <2>1. OpenedOK /\ UNCHANGED <<branch, trees, pc, served>> /\ run'.room = run.room
    BY <1>1, <1>8 DEF Inv
  <2>2. \A i \in DOMAIN log' : Requested(log'[i]) => i \in DOMAIN log /\ log'[i] = log[i]
    BY <1>6
  <2> QED BY ONLY <2>1, <2>2 DEF OpenedOK
<1>15. OriginOK'
  BY <1>1, <1>6 DEF Inv, OriginOK
<1>16. GrowsOK'
  BY <1>1, <1>9 DEF Inv, GrowsOK
<1>17. ArchivedOK'
  <2>1. \A r : Landed(r)' => Landed(r)
    BY <1>1, <1>7 DEF Landed, Lines
  <2>2. (\A i \in DOMAIN log : Requested(log[i]) /\ Archived(log[i].request.branch) =>
           log[i].request.branch \in TipTree(branch[log[i].request.branch]).shelf)'
    BY <1>1, <1>6 DEF Inv, ArchivedOK
  <2>3. (\A r \in Runs : Archived(r) => r <= served)'
    BY <1>1, <1>6 DEF Inv, ArchivedOK
  <2>4. (pc \in Busy /\ HasTree /\ Archived(served) => served \in trees[served].shelf)'
    BY <1>1, <1>6, <1>9 DEF Inv, ArchivedOK
  <2>5. (~died => \A r \in Runs : Archived(r) /\ Landed(r) => r \in TipTree(trunk).shelf)'
    BY <1>1, <1>6, <2>1 DEF Inv, ArchivedOK
  <2> QED BY <2>2, <2>3, <2>4, <2>5 DEF ArchivedOK
<1>18. LandsOnAnothersWord'
  BY <1>7 DEF Inv, LandsOnAnothersWord, NobodyMergesTheirOwn, VouchedIsWhatLands, Lines
<1>19. MergedIsInTheTrunk'
  BY <1>1, <1>7 DEF Inv, MergedIsInTheTrunk, Lines
<1> QED BY <1>6, <1>10, <1>11, <1>12, <1>13, <1>14, <1>15, <1>16, <1>17, <1>18, <1>19 DEF Inv

LEMMA MergedKeeps ==
  ASSUME Inv, SettleMerged
  PROVE  Inv'
<1> DEFINE q == Effect.request
           x == [kind |-> "pr_merged", request |-> q, by |-> run.who, in |-> run.id, commit |-> branch[q.branch]]
<1>1. /\ pc = "requests" /\ pc' = "applying" /\ run.effects # <<>> /\ Effect.op = "Merged"
      /\ pc \in Busy /\ pc' \in Busy
      /\ log' = Append(log, x) /\ IsPrefix(trunk, branch[q.branch])
      /\ UNCHANGED <<requests, goals, trunk, branch, city, trees, run, served, left, died>>
  BY DEF SettleMerged, Answer, MergeStale, Busy
<1>2. /\ q \in Request /\ OnLedger(q) /\ run.who \in Residents /\ run.id \in Runs /\ run.id = served
      /\ q.branch \in Runs /\ q.implementer # run.who /\ branch[q.branch] \in Seq(Commit)
  BY <1>1, EffectIs, AtWork, Known
<1>3. /\ x \in Line /\ Answered(x) /\ x.request = q /\ Is(x, "pr_merged")
      /\ x.by = run.who /\ x.commit = branch[q.branch]
  BY <1>2 DEF Line, Answered, Is
<1>4. TipTree(q.commit) = TipTree(branch[q.branch])
  <2>1. PICK i \in DOMAIN log : Requested(log[i]) /\ log[i].request = q
    BY <1>2 DEF OnLedger
  <2> QED BY <2>1 DEF Inv, OpenedOK
<1> HIDE DEF x
<1>5. /\ log' \in Seq(Line) /\ Len(log') = Len(log) + 1 /\ log' # <<>> /\ Last(log') = x
      /\ \A i \in DOMAIN log : i \in DOMAIN log' /\ log'[i] = log[i]
      /\ \A i \in DOMAIN log' : i \in DOMAIN log \/ (i = Len(log) + 1 /\ log'[i] = x)
      /\ \A y : OnLedger(y) => OnLedger(y)'
  BY <1>1, <1>3, OneMore
<1>6. pc' \notin {"driving", "goals"} /\ served' = served /\ OnLedger(x.request)
  BY <1>1, <1>2, <1>3
<1>7. /\ FoldRequests(log') = retain(FoldRequests(log), q.branch)
      /\ FoldGoals(log') = FoldGoals(log) /\ HeldOK' /\ AnswersOK'
      /\ \A i \in DOMAIN log' : Requested(log'[i]) => i \in DOMAIN log /\ log'[i] = log[i]
      /\ \A r : Archived(r)' <=> Archived(r)
      /\ \A r : Merged(r) => Merged(r)'
  BY <1>1, <1>3, <1>6, AnswerLine
<1>8. HasTree' <=> HasTree
  BY <1>1 DEF HasTree
<1>9. Types'
  BY <1>1, <1>5 DEF Inv, Types
<1>10. RunOK' /\ BranchesOK' /\ GroundOK'
  BY <1>1, <1>8 DEF Inv, RunOK, BranchesOK, GroundOK
<1>11. RegistersOK'
  <2>1. requests = FoldRequests(log) /\ goals = FoldGoals(log)
    BY <1>1 DEF Inv, RegistersOK
  <2>2. Effect' = Effect
    BY <1>1 DEF Effect
  <2> QED BY <1>1, <1>7, <2>1, <2>2 DEF RegistersOK
<1>12. ApplyingOK'
  <2>1. Effect' = Effect
    BY <1>1 DEF Effect
  <2> QED BY <1>1, <1>3, <1>5, <2>1 DEF ApplyingOK
<1>13. DeskOK'
  BY <1>1, <1>5, <1>8 DEF Inv, DeskOK
<1>14. OpenedOK'
  BY <1>1, <1>7 DEF Inv, OpenedOK
<1>15. OriginOK'
  BY <1>1, <1>7 DEF Inv, OriginOK
<1>16. GrowsOK'
  BY <1>1, <1>8 DEF Inv, GrowsOK
<1>17. ArchivedOK'
  <2>1. \A r : Landed(r)' => Landed(r)
    BY <1>1, <1>5 DEF Landed, Lines
  <2>2. (\A i \in DOMAIN log : Requested(log[i]) /\ Archived(log[i].request.branch) =>
           log[i].request.branch \in TipTree(branch[log[i].request.branch]).shelf)'
    BY <1>1, <1>7 DEF Inv, ArchivedOK
  <2>3. (\A r \in Runs : Archived(r) => r <= served)'
    BY <1>1, <1>7 DEF Inv, ArchivedOK
  <2>4. (pc \in Busy /\ HasTree /\ Archived(served) => served \in trees[served].shelf)'
    BY <1>1, <1>7, <1>8 DEF Inv, ArchivedOK
  <2>5. (~died => \A r \in Runs : Archived(r) /\ Landed(r) => r \in TipTree(trunk).shelf)'
    BY <1>1, <1>7, <2>1 DEF Inv, ArchivedOK
  <2> QED BY <2>2, <2>3, <2>4, <2>5 DEF ArchivedOK
<1>18. LandsOnAnothersWord'
  <2> SUFFICES ASSUME NEW i \in DOMAIN log', Is(log'[i], "pr_merged")
               PROVE  /\ log'[i].by # log'[i].request.implementer
                      /\ TipTree(log'[i].commit) = TipTree(log'[i].request.commit)
    BY DEF LandsOnAnothersWord, NobodyMergesTheirOwn, VouchedIsWhatLands, Lines
  <2>1. CASE i \in DOMAIN log
    BY <2>1, <1>5 DEF Inv, LandsOnAnothersWord, NobodyMergesTheirOwn, VouchedIsWhatLands, Lines
  <2>2. CASE log'[i] = x
    BY <2>2, <1>2, <1>3, <1>4
  <2> QED BY <2>1, <2>2, <1>5
<1>19. MergedIsInTheTrunk'
  BY <1>1, <1>5 DEF Inv, MergedIsInTheTrunk, Lines
<1> QED BY <1>7, <1>9, <1>10, <1>11, <1>12, <1>13, <1>14, <1>15, <1>16, <1>17, <1>18, <1>19 DEF Inv
LEMMA ApplyKeeps ==
  ASSUME Inv, apply
  PROVE  Inv'
<1> DEFINE q == Effect.request
           b == q.branch
<1>1. /\ pc = "applying" /\ pc' = "requests" /\ pc \in Busy /\ pc' \in Busy
      /\ trunk' = Last(log).commit /\ city' = checkout_head(city, TipTree(trunk), TipTree(Last(log).commit))
      /\ requests' = retain(requests, b) /\ run' = Taken
      /\ UNCHANGED <<log, goals, branch, trees, served, left, died>>
  BY DEF apply, Without, Busy
<1>2. /\ run.effects # <<>> /\ Effect.op = "Merged" /\ log # <<>>
      /\ Is(Last(log), "pr_merged") /\ Last(log).request = q
      /\ Last(log).commit = branch[b] /\ IsPrefix(trunk, branch[b])
  BY <1>1 DEF Inv, ApplyingOK
<1>3. /\ Len(log) \in DOMAIN log /\ Is(log[Len(log)], "pr_merged") /\ log[Len(log)].request = q
      /\ log[Len(log)].commit = branch[b]
  <2>1. Len(log) \in DOMAIN log
    BY <1>2, Known, SeqFacts
  <2> QED BY <1>2, <2>1 DEF Last
<1>4. q \in Request /\ OnLedger(q) /\ b \in Runs /\ branch[b] \in Seq(Commit) /\ trunk \in Seq(Commit)
  BY <1>1, <1>2, EffectIs, Known
<1>5. trunk' = branch[b] /\ city' = checkout_head(city, TipTree(trunk), TipTree(branch[b]))
  BY <1>1, <1>2
<1> HIDE DEF q, b
<1>6. /\ TipTree(trunk) \in FilesSet /\ TipTree(branch[b]) \in FilesSet /\ city \in FilesSet
      /\ city' \in FilesSet
      /\ city'.shelf = (city.shelf \ TipTree(trunk).shelf) \cup TipTree(branch[b]).shelf
  <2>1. TipTree(trunk) \in FilesSet /\ TipTree(branch[b]) \in FilesSet /\ city \in FilesSet
    BY <1>4, Known, TipIs
  <2> QED BY <1>5, <2>1, CheckoutIs
<1>7. TipTree(trunk).shelf \subseteq TipTree(trunk').shelf
  <2>1. Grows(branch[b])
    BY <1>4 DEF Inv, GrowsOK
  <2> QED BY <1>2, <1>4, <1>5, <2>1, ShelfGrows
<1>8. /\ run' \in Desk /\ run'.id = run.id /\ run'.room = run.room /\ run'.who = run.who /\ run'.open = run.open
      /\ \A i \in DOMAIN run'.effects : \E j \in DOMAIN run.effects : run'.effects[i] = run.effects[j]
  BY <1>1, <1>2, TakenIs
<1>9. /\ HasTree' <=> HasTree
      /\ \A y : OnLedger(y)' <=> OnLedger(y)
      /\ \A r : Merged(r)' <=> Merged(r)
      /\ \A r : Archived(r)' <=> Archived(r)
      /\ \A k : Lines(k)' = Lines(k)
  BY <1>1, <1>8 DEF HasTree, OnLedger, Merged, Archived, Lines
<1>10. Merged(b)
  BY <1>3 DEF Merged, Lines, b
<1>11. Types'
  <2>1. requests' \in Seq(Request)
    BY <1>1, RetainIs DEF Inv, Types
  <2> QED BY <1>1, <1>4, <1>5, <1>6, <2>1 DEF Inv, Types
<1>12. RunOK' /\ BranchesOK'
  BY <1>1, <1>8, <1>9 DEF Inv, RunOK, BranchesOK
<1>13. RegistersOK'
  BY <1>1 DEF Inv, RegistersOK, b, q
<1>14. HeldOK' /\ GroundOK' /\ ApplyingOK' /\ AnswersOK'
  BY <1>1, <1>9 DEF Inv, HeldOK, GroundOK, ApplyingOK, AnswersOK
<1>15. DeskOK'
  BY <1>1, <1>8, <1>9 DEF Inv, DeskOK
<1>16. OpenedOK'
  BY <1>1, <1>8 DEF Inv, OpenedOK
<1>17. OriginOK'
  <2>1. \A x \in TipTree(trunk').shelf : Merged(x) /\ x \in city'.shelf
    <3>1. \A x \in TipTree(branch[b]).shelf : x = b \/ Merged(x)
      BY <1>4 DEF Inv, OriginOK
    <3> QED BY <1>5, <1>6, <1>10, <3>1
  <2>2. \A x \in city'.shelf : Merged(x) \/ (x <= served /\ branch[x] = <<>>)
    <3>1. \A x \in city.shelf : Merged(x) \/ (x <= served /\ branch[x] = <<>>)
      BY DEF Inv, OriginOK
    <3> QED BY <1>5, <1>6, <2>1, <3>1
  <2> QED BY <1>1, <1>9, <2>1, <2>2 DEF Inv, OriginOK
<1>18. GrowsOK'
  BY <1>1, <1>4, <1>5, <1>9 DEF Inv, GrowsOK
<1>19. ArchivedOK'
  <2>1. \A r : Landed(r)' => Landed(r) \/ r = b
    <3> SUFFICES ASSUME NEW r, Landed(r)', r # b PROVE Landed(r)
      OBVIOUS
    <3>1. PICK j \in Lines("pr_merged") : log[j].request.branch = r
      BY <1>1 DEF Landed, Lines
    <3>2. j # Len(log)
      BY <1>3, <3>1 DEF b
    <3> QED BY <3>1, <3>2 DEF Landed
  <2>2. Archived(b) => b \in TipTree(branch[b]).shelf
    <3>1. PICK i \in DOMAIN log : Requested(log[i]) /\ log[i].request = q
      BY <1>4 DEF OnLedger
    <3> QED BY <3>1 DEF Inv, ArchivedOK, b
  <2>3. (~died => \A r \in Runs : Archived(r) /\ Landed(r) => r \in TipTree(trunk).shelf)'
    <3>1. ~died => \A r \in Runs : Archived(r) /\ Landed(r) => r \in TipTree(trunk).shelf
      BY DEF Inv, ArchivedOK
    <3> QED BY <1>1, <1>5, <1>7, <1>9, <2>1, <2>2, <3>1
  <2>4. (\A i \in DOMAIN log : Requested(log[i]) /\ Archived(log[i].request.branch) =>
           log[i].request.branch \in TipTree(branch[log[i].request.branch]).shelf)'
    BY <1>1, <1>9 DEF Inv, ArchivedOK
  <2>5. (\A r \in Runs : Archived(r) => r <= served)'
    BY <1>1, <1>9 DEF Inv, ArchivedOK
  <2>6. (pc \in Busy /\ HasTree /\ Archived(served) => served \in trees[served].shelf)'
    BY <1>1, <1>9 DEF Inv, ArchivedOK
  <2> QED BY <2>3, <2>4, <2>5, <2>6 DEF ArchivedOK
<1>20. LandsOnAnothersWord'
  BY <1>1, <1>9 DEF Inv, LandsOnAnothersWord, NobodyMergesTheirOwn, VouchedIsWhatLands
<1>21. MergedIsInTheTrunk'
  <2> SUFFICES ASSUME NEW i \in Lines("pr_merged"), ~died
               PROVE  IsPrefix(log[i].commit, trunk')
    BY <1>1, <1>9 DEF MergedIsInTheTrunk
  <2>1. i \in DOMAIN log /\ Is(log[i], "pr_merged")
    BY DEF Lines
  <2>2. CASE i = Len(log)
    BY <2>2, <1>3, <1>4, <1>5, PrefixChain
  <2>3. CASE i # Len(log)
    <3>1. IsPrefix(log[i].commit, trunk)
      BY <2>3 DEF Inv, MergedIsInTheTrunk
    <3>2. log[i].commit \in Seq(Commit)
      BY <2>1, Known, LineKinds DEF Answered, Is
    <3> QED BY <1>2, <1>4, <1>5, <3>1, <3>2, PrefixChain
  <2> QED BY <2>2, <2>3
<1> QED BY <1>11, <1>12, <1>13, <1>14, <1>15, <1>16, <1>17, <1>18, <1>19, <1>20, <1>21 DEF Inv

(* What a fence commits, in a tree and outside of one.                       *)
LEMMA FenceIs ==
  ASSUME Inv, pc \in Busy
  PROVE  /\ Fence \in Seq(Commit) /\ Fence # <<>>
         /\ TipTree(Fence) = stage_scope(TipTree(Tip), Files, run.room, HasTree)
         /\ TipTree(Fence) \in FilesSet
         /\ TipTree(Fence).shelf = IF HasTree THEN trees[served].shelf ELSE TipTree(Tip).shelf
         /\ Grows(Fence) /\ IsPrefix(Tip, Fence)
<1>1. /\ run.id \in Runs /\ run.room \in Rooms /\ Tip \in Seq(Commit) /\ Files \in FilesSet
      /\ Files = (IF HasTree THEN trees[served] ELSE city)
      /\ Tip = (IF HasTree THEN branch[served] ELSE trunk) /\ served \in Runs
  BY AtWork
<1>2. HasTree \in BOOLEAN
  BY DEF HasTree
<1>3. TipTree(Tip) \in FilesSet
  BY <1>1, TipIs
<1> DEFINE S == stage_scope(TipTree(Tip), Files, run.room, HasTree)
<1>4. S \in FilesSet /\ S.shelf = IF HasTree THEN Files.shelf ELSE TipTree(Tip).shelf
  <2>0. Files \in FilesSet /\ run.room \in Rooms
    BY <1>1
  <2>1. CASE HasTree
    <3>1. S = stage_scope(TipTree(Tip), Files, run.room, TRUE)
      BY <2>1, Zenon
    <3>2. /\ stage_scope(TipTree(Tip), Files, run.room, TRUE) \in FilesSet
          /\ stage_scope(TipTree(Tip), Files, run.room, TRUE).shelf = Files.shelf
      <4>1. stage_scope(TipTree(Tip), Files, run.room, TRUE) \in FilesSet
        BY ONLY <2>0, <1>3, StageIs
      <4>2. stage_scope(TipTree(Tip), Files, run.room, TRUE).shelf = Files.shelf
        BY ONLY TRUE DEF stage_scope
      <4> QED BY ONLY <4>1, <4>2
    <3> QED BY <2>1, <3>1, <3>2, Zenon
  <2>2. CASE ~HasTree
    <3>0. HasTree = FALSE
      BY <1>2, <2>2
    <3>1. S = stage_scope(TipTree(Tip), Files, run.room, FALSE)
      BY <3>0, Zenon
    <3>2. /\ stage_scope(TipTree(Tip), Files, run.room, FALSE) \in FilesSet
          /\ stage_scope(TipTree(Tip), Files, run.room, FALSE).shelf = TipTree(Tip).shelf
      <4>1. stage_scope(TipTree(Tip), Files, run.room, FALSE) \in FilesSet
        BY ONLY <2>0, <1>3, StageIs
      <4>2. stage_scope(TipTree(Tip), Files, run.room, FALSE).shelf = TipTree(Tip).shelf
        BY ONLY TRUE DEF stage_scope
      <4> QED BY ONLY <4>1, <4>2
    <3> QED BY <2>2, <3>1, <3>2, Zenon
  <2> QED BY <2>1, <2>2
<1>5. Fence = commit(Tip, S, run.id)
  BY DEF Fence, wave_pre, fence_scope
<1>6. Grows(Tip) /\ TipTree(Tip).shelf \subseteq S.shelf
  <2>1. Grows(Tip)
    BY <1>1 DEF Inv, GrowsOK
  <2>2. TipTree(Tip).shelf \subseteq S.shelf
    <3> HIDE DEF S
    <3>1. CASE HasTree
      BY <3>1, <1>1, <1>4 DEF Inv, GrowsOK
    <3>2. CASE ~HasTree
      BY <3>2, <1>4
    <3> QED BY <3>1, <3>2
  <2> QED BY <2>1, <2>2
<1> HIDE DEF S
<1>7. /\ Fence \in Seq(Commit) /\ Fence # <<>> /\ TipTree(Fence) = S /\ Grows(Fence)
  BY <1>1, <1>4, <1>5, <1>6, CommitIs
<1>8. IsPrefix(Tip, Fence)
  <2>1. [by |-> run.id, tree |-> S] \in Commit
    BY <1>1, <1>4 DEF Commit
  <2>2. Fence = Append(Tip, [by |-> run.id, tree |-> S])
    BY <1>5 DEF commit
  <2> QED BY <1>1, <2>1, <2>2, PrefixChain
<1> QED BY <1>1, <1>4, <1>7, <1>8 DEF S
(* What a fence leaves of the branches and of the trunk.                     *)
LEMMA FenceSet ==
  ASSUME Inv, pc \in Busy, SetTip(Fence)
  PROVE  /\ branch' \in [Runs -> Seq(Commit)] /\ trunk' \in Seq(Commit)
         /\ HasTree => trunk' = trunk /\ branch'[served] = Fence
         /\ ~HasTree => trunk' = Fence /\ branch' = branch
         /\ \A r \in Runs : r # served => branch'[r] = branch[r]
         /\ \A r \in Runs : branch'[r] = <<>> <=> branch[r] = <<>>
         /\ Grows(trunk') /\ \A r \in Runs : Grows(branch'[r])
         /\ IsPrefix(trunk, trunk') /\ TipTree(trunk').shelf = TipTree(trunk).shelf
<1>1. /\ run.id = served /\ served \in Runs /\ (HasTree <=> branch[served] # <<>>)
      /\ Tip = (IF HasTree THEN branch[served] ELSE trunk)
  BY AtWork
<1>2. /\ Fence \in Seq(Commit) /\ Fence # <<>> /\ Grows(Fence) /\ IsPrefix(Tip, Fence)
      /\ TipTree(Fence).shelf = IF HasTree THEN trees[served].shelf ELSE TipTree(Tip).shelf
  BY FenceIs
<1>3. branch \in [Runs -> Seq(Commit)] /\ trunk \in Seq(Commit) /\ IsPrefix(trunk, trunk)
  BY Known, PrefixChain
<1>4. Grows(trunk) /\ \A r \in Runs : Grows(branch[r])
  BY DEF Inv, GrowsOK
<1>5. CASE HasTree
  <2>1. branch' = [branch EXCEPT ![served] = Fence] /\ trunk' = trunk
    BY <1>1, <1>5 DEF SetTip
  <2> QED BY <1>1, <1>2, <1>3, <1>4, <1>5, <2>1
<1>6. CASE ~HasTree
  <2>1. trunk' = Fence /\ branch' = branch
    BY <1>6 DEF SetTip
  <2> QED BY <1>1, <1>2, <1>3, <1>4, <1>6, <2>1
<1> QED BY <1>5, <1>6

LEMMA OpenedKeeps ==
  ASSUME Inv, SettleOpened
  PROVE  Inv'
<1> DEFINE q == [branch |-> run.id, implementer |-> run.who, commit |-> Fence]
           x == [kind |-> "pr_opened", request |-> q]
<1>1. /\ pc = "requests" /\ pc \in Busy /\ run.effects # <<>> /\ Effect.op = "Opened"
      /\ SetTip(Fence) /\ log' = Append(log, x) /\ requests' = Append(requests, q) /\ run' = Taken
      /\ UNCHANGED <<goals, city, trees, pc, served, left, died>>
  BY DEF SettleOpened, Busy
<1>2. /\ run.id = served /\ served \in Runs /\ run.who \in Residents /\ run.room \in Rooms
      /\ (HasTree <=> branch[served] # <<>>) /\ (HasTree <=> served \in DOMAIN trees)
      /\ Files = (IF HasTree THEN trees[served] ELSE city) /\ Files \in FilesSet
      /\ Tip = (IF HasTree THEN branch[served] ELSE trunk)
  BY <1>1, AtWork
<1>3. HasTree
  BY <1>1, TakenIs DEF Inv, DeskOK
<1> DEFINE S == stage_scope(TipTree(branch[served]), trees[served], run.room, TRUE)
<1>4. /\ Fence \in Seq(Commit) /\ Fence # <<>> /\ TipTree(Fence) = S
      /\ S.shelf = trees[served].shelf
  <2>1. /\ Fence \in Seq(Commit) /\ Fence # <<>>
        /\ TipTree(Fence) = stage_scope(TipTree(Tip), Files, run.room, HasTree)
        /\ TipTree(Fence).shelf = IF HasTree THEN trees[served].shelf ELSE TipTree(Tip).shelf
    BY <1>1, FenceIs
  <2>2. Tip = branch[served] /\ Files = trees[served] /\ HasTree = TRUE
    BY <1>2, <1>3
  <2>3. TipTree(Fence) = S
    BY <2>1, <2>2, Zenon
  <2> HIDE DEF S
  <2> QED BY <1>3, <2>1, <2>3
<1>5. S = stage_scope(S, trees[served], run.room, TRUE)
  <2>1. TipTree(branch[served]) \in FilesSet /\ trees[served] \in FilesSet /\ run.room \in Rooms
    BY <1>2, <1>3, Known, TipIs
  <2> QED BY <2>1, StageWhole
<1> HIDE DEF S
<1>6. q \in Request /\ q.branch = served /\ q.commit = Fence
  BY <1>2, <1>4 DEF Request
<1> HIDE DEF q
<1>7. /\ x \in Line /\ Requested(x) /\ ~Answered(x) /\ x.request = q /\ ~Is(x, "goal_registered")
      /\ ~Is(x, "pr_merged") /\ ~Is(x, "asset_archived")
  BY <1>6 DEF Line, Requested, Answered, Is
<1> HIDE DEF x
<1>8. /\ log' \in Seq(Line)
      /\ \A i \in DOMAIN log : i \in DOMAIN log' /\ log'[i] = log[i]
      /\ \A i \in DOMAIN log' : i \in DOMAIN log \/ (i = Len(log) + 1 /\ log'[i] = x)
      /\ \A y : OnLedger(y) => OnLedger(y)'
  BY <1>1, <1>7, OneMore
<1>9. /\ branch' \in [Runs -> Seq(Commit)] /\ trunk' = trunk /\ branch'[served] = Fence
      /\ \A r \in Runs : r # served => branch'[r] = branch[r]
      /\ \A r \in Runs : branch'[r] = <<>> <=> branch[r] = <<>>
      /\ \A r \in Runs : Grows(branch'[r])
  BY <1>1, <1>3, FenceSet
<1>10. /\ run' \in Desk /\ run'.id = run.id /\ run'.room = run.room /\ run'.who = run.who /\ run'.open = run.open
       /\ \A i \in DOMAIN run'.effects : \E j \in DOMAIN run.effects : run'.effects[i] = run.effects[j]
  BY <1>1, TakenIs
<1>11. HasTree'
  BY <1>1, <1>3, <1>10 DEF HasTree
<1>12. \A i \in DOMAIN log' : ~Requested(log'[i]) => i \in DOMAIN log /\ log'[i] = log[i]
  BY <1>7, <1>8
<1>13. \A i \in DOMAIN log' : Is(log'[i], "goal_registered") \/ Is(log'[i], "pr_merged") \/ Answered(log'[i])
           \/ Is(log'[i], "asset_archived") => i \in DOMAIN log /\ log'[i] = log[i]
  BY <1>7, <1>8
<1>14. /\ \A r : Merged(r)' <=> Merged(r)
       /\ \A r : Archived(r)' <=> Archived(r)
       /\ \A r : Landed(r)' => Landed(r)
  BY <1>1, <1>8, <1>13 DEF Merged, Archived, Landed, Lines
<1>15. Types'
  <2>1. requests' \in Seq(Request)
    BY <1>1, <1>6, AppendFacts DEF Inv, Types
  <2> QED BY <1>1, <1>8, <1>9, <2>1 DEF Inv, Types
<1>16. RunOK'
  BY <1>1, <1>2, <1>3, <1>4, <1>9, <1>10, <1>11 DEF RunOK
<1>17. BranchesOK'
  BY <1>1, <1>9 DEF Inv, BranchesOK
<1>18. RegistersOK'
  <2>1. requests = FoldRequests(log) /\ goals = FoldGoals(log)
    BY <1>1 DEF Inv, RegistersOK
  <2>2. FoldRequests(log') = Append(FoldRequests(log), q)
    BY <1>1, <1>7, Known, FoldOpened
  <2>3. FoldGoals(log') = FoldGoals(log)
    BY <1>1, <1>7, Known, FoldGoalsAppend
  <2> QED BY <1>1, <2>1, <2>2, <2>3 DEF RegistersOK
<1>19. HeldOK'
  <2>1. FoldGoals(log') = FoldGoals(log)
    BY <1>1, <1>7, Known, FoldGoalsAppend
  <2> QED BY <1>1, <1>13, <2>1 DEF Inv, HeldOK
<1>20. GroundOK' /\ ApplyingOK'
  BY <1>1 DEF GroundOK, ApplyingOK
<1>21. AnswersOK'
  BY <1>8, <1>13 DEF Inv, AnswersOK
<1>22. DeskOK'
  BY <1>1, <1>3, <1>8, <1>10, <1>11 DEF Inv, DeskOK
<1>23. OpenedOK'
  <2> SUFFICES ASSUME NEW i \in DOMAIN log', Requested(log'[i])
               PROVE  /\ log'[i].request.branch <= served
                      /\ branch'[log'[i].request.branch] # <<>>
                      /\ TipTree(log'[i].request.commit) = TipTree(branch'[log'[i].request.branch])
                      /\ log'[i].request.branch = served => TipTree(branch'[served]) = S
    <3>1. TipTree(branch'[served]) = S => TipTree(branch'[served]) =
            stage_scope(TipTree(branch'[served]), trees'[served'], run'.room, TRUE)
      BY <1>1, <1>5, <1>10
    <3> QED BY <1>1, <3>1 DEF OpenedOK
  <2>1. CASE log'[i] = x
    BY <2>1, <1>2, <1>4, <1>6, <1>7, <1>9, Known
  <2>2. CASE i \in DOMAIN log
    <3>1. /\ log'[i] = log[i] /\ Requested(log[i]) /\ log[i] \in Line
      BY <2>2, <1>8, Known
    <3>2. log[i].request.branch \in Runs
      BY <3>1, LineKinds DEF Request
    <3>3. /\ log[i].request.branch <= served
          /\ branch[log[i].request.branch] # <<>>
          /\ TipTree(log[i].request.commit) = TipTree(branch[log[i].request.branch])
          /\ log[i].request.branch = served => TipTree(branch[served]) = S
      BY <2>2, <3>1, <1>1 DEF Inv, OpenedOK, S
    <3> QED BY <1>4, <1>9, <3>1, <3>2, <3>3
  <2> QED BY <1>8, <2>1, <2>2
<1>24. OriginOK'
  <2>1. \A r \in Runs : \A y \in TipTree(branch'[r]).shelf : y = r \/ Merged(y)
    BY <1>2, <1>3, <1>4, <1>9 DEF Inv, OriginOK
  <2>2. \A y \in city.shelf : Merged(y) \/ (y <= served /\ branch'[y] = <<>>)
    <3>1. \A y \in city.shelf : y \in Runs
      BY Known, FilesAre
    <3> QED BY <1>9, <3>1 DEF Inv, OriginOK
  <2> QED BY <1>1, <1>9, <1>14, <2>1, <2>2 DEF Inv, OriginOK
<1>25. GrowsOK'
  BY <1>1, <1>4, <1>9 DEF Inv, GrowsOK
<1>26. ArchivedOK'
  <2>1. (\A r \in Runs : Archived(r) => r <= served)'
    BY <1>1, <1>14 DEF Inv, ArchivedOK
  <2>2. Archived(served) => served \in trees[served].shelf
    BY <1>1, <1>3 DEF Inv, ArchivedOK
  <2>3. (\A i \in DOMAIN log : Requested(log[i]) /\ Archived(log[i].request.branch) =>
           log[i].request.branch \in TipTree(branch[log[i].request.branch]).shelf)'
    <3> SUFFICES ASSUME NEW i \in DOMAIN log', Requested(log'[i]), Archived(log'[i].request.branch)
                 PROVE  log'[i].request.branch \in TipTree(branch'[log'[i].request.branch]).shelf
      BY <1>14
    <3>1. CASE log'[i].request.branch = served
      BY <3>1, <1>4, <1>9, <2>2
    <3>2. CASE log'[i].request.branch # served
      <4>1. i \in DOMAIN log /\ log'[i] = log[i] /\ log[i] \in Line
        BY <3>2, <1>6, <1>7, <1>8, Known
      <4>2. log[i].request.branch \in Runs
        BY <4>1, LineKinds DEF Request
      <4>3. log[i].request.branch \in TipTree(branch[log[i].request.branch]).shelf
        BY <4>1 DEF Inv, ArchivedOK
      <4> QED BY <3>2, <4>1, <4>2, <4>3, <1>9
    <3> QED BY <3>1, <3>2
  <2>4. (~died => \A r \in Runs : Archived(r) /\ Landed(r) => r \in TipTree(trunk).shelf)'
    BY <1>1, <1>9, <1>14 DEF Inv, ArchivedOK
  <2> QED BY <1>1, <1>14, <2>1, <2>2, <2>3, <2>4 DEF ArchivedOK
<1>27. LandsOnAnothersWord'
  BY <1>13 DEF Inv, LandsOnAnothersWord, NobodyMergesTheirOwn, VouchedIsWhatLands, Lines
<1>28. MergedIsInTheTrunk'
  BY <1>1, <1>9, <1>13 DEF Inv, MergedIsInTheTrunk, Lines
<1> QED BY <1>15, <1>16, <1>17, <1>18, <1>19, <1>20, <1>21, <1>22, <1>23, <1>24, <1>25, <1>26, <1>27, <1>28 DEF Inv
(* A wave: the fence goes up before the files change, and neither the        *)
(* shelf nor what was offered is touched.                                    *)
LEMMA WaveKeeps ==
  ASSUME Inv, NEW deletes \in BOOLEAN, Wave(deletes)
  PROVE  Inv'
<1> DEFINE D == IF deletes THEN DOMAIN Files.rooms \ {run.room} ELSE DOMAIN Files.rooms \cup {run.room}
           g == [x \in D |-> IF x = run.room THEN run.id ELSE Files.rooms[x]]
           f == [Files EXCEPT !.rooms = g]
           fenced == IF run.fenced = <<>> THEN Fence ELSE run.fenced
<1>1. Calls("wave") /\ "wave" \in Things
  BY DEF Wave, Things
<1>2. pc = "driving" /\ pc \in Busy /\ left' \in [Things -> Nat]
  BY <1>1, CallsIs
<1>3. /\ SetFiles(f) /\ SetTip(Fence) /\ run' = [run EXCEPT !.fenced = fenced]
      /\ UNCHANGED <<log, requests, goals, pc, served, died>>
  BY DEF Wave
<1>4. /\ run \in Desk /\ run.id = served /\ served \in Runs /\ run.room \in Rooms /\ Files \in FilesSet
      /\ run.fenced \in Seq(Commit) /\ (HasTree <=> branch[served] # <<>>) /\ (HasTree <=> served \in DOMAIN trees)
      /\ Files = (IF HasTree THEN trees[served] ELSE city)
  BY <1>2, AtWork
<1>5. f \in FilesSet /\ f.shelf = Files.shelf
  <2>1. /\ Files = [rooms |-> Files.rooms, shelf |-> Files.shelf]
        /\ DOMAIN Files.rooms \subseteq Rooms /\ Files.rooms \in [DOMAIN Files.rooms -> 0 .. MaxRuns]
        /\ Files.shelf \in SUBSET Runs
    BY <1>4, FilesAre
  <2>2. D \subseteq Rooms /\ \A y \in D : y # run.room => y \in DOMAIN Files.rooms
    BY <1>4, <2>1
  <2>3. run.id \in 0 .. MaxRuns
    BY <1>4, Known DEF Runs
  <2> HIDE DEF D
  <2>4. DOMAIN g \subseteq Rooms /\ g \in [DOMAIN g -> 0 .. MaxRuns]
    BY <2>1, <2>2, <2>3
  <2> HIDE DEF g
  <2>5. f = [rooms |-> g, shelf |-> Files.shelf]
    BY <2>1
  <2>6. [rooms |-> g, shelf |-> Files.shelf] \in FilesSet
    BY <2>1, <2>4, FilesMade
  <2> QED BY <2>5, <2>6
<1> HIDE DEF f
<1>6. /\ DOMAIN trees' = DOMAIN trees /\ \A r \in DOMAIN trees : trees'[r] \in FilesSet
      /\ city' \in FilesSet
      /\ HasTree => city' = city /\ trees'[served] = f
      /\ ~HasTree => city' = f /\ trees' = trees
      /\ \A r \in DOMAIN trees : r # served => trees'[r] = trees[r]
  BY <1>2, <1>3, <1>5, FilesSetTo
<1>7. city'.shelf = city.shelf /\ \A r \in DOMAIN trees : trees'[r].shelf = trees[r].shelf
  BY <1>4, <1>5, <1>6
<1>8. /\ branch' \in [Runs -> Seq(Commit)] /\ trunk' \in Seq(Commit)
      /\ HasTree => trunk' = trunk /\ branch'[served] = Fence
      /\ ~HasTree => trunk' = Fence /\ branch' = branch
      /\ \A r \in Runs : r # served => branch'[r] = branch[r]
      /\ \A r \in Runs : branch'[r] = <<>> <=> branch[r] = <<>>
      /\ Grows(trunk') /\ \A r \in Runs : Grows(branch'[r])
      /\ IsPrefix(trunk, trunk') /\ TipTree(trunk').shelf = TipTree(trunk).shelf
  BY <1>2, <1>3, FenceSet
<1>9. Fence \in Seq(Commit) /\ (HasTree => TipTree(Fence).shelf = trees[served].shelf)
  BY <1>2, FenceIs
<1>10. /\ run' \in Desk /\ run'.id = run.id /\ run'.room = run.room /\ run'.who = run.who
       /\ run'.open = run.open /\ run'.effects = run.effects
       /\ run'.registered = run.registered /\ run'.goals = run.goals
  <2>1. fenced \in Seq(Commit)
    BY <1>4, <1>9
  <2> HIDE DEF fenced
  <2> QED BY <1>3, <1>4, <2>1 DEF Desk
<1>11. /\ HasTree' <=> HasTree
       /\ \A y : OnLedger(y)' <=> OnLedger(y)
       /\ \A r : Merged(r)' <=> Merged(r)
       /\ \A r : Archived(r)' <=> Archived(r)
       /\ \A r : Landed(r)' <=> Landed(r)
       /\ \A k : Lines(k)' = Lines(k)
  BY <1>3, <1>6, <1>10 DEF HasTree, OnLedger, Merged, Archived, Landed, Lines
<1>12. \A i \in DOMAIN log : Requested(log[i]) =>
         log[i].request.branch \in Runs /\ branch'[log[i].request.branch] = branch[log[i].request.branch]
           /\ log[i].request.branch # served
  <2>1. \A i \in DOMAIN log : Requested(log[i]) => log[i].request.branch \in Runs
    BY Known, LineKinds DEF Request
  <2>2. \A i \in DOMAIN log : Requested(log[i]) => log[i].request.branch < served
    BY <1>2 DEF Inv, OpenedOK
  <2>3. \A i \in DOMAIN log : Requested(log[i]) => log[i].request.branch # served
    BY <2>1, <2>2, Known DEF Runs
  <2> QED BY <1>8, <2>1, <2>3
<1>13. Types'
  BY <1>2, <1>3, <1>6, <1>8 DEF Inv, Types
<1>14. RunOK'
  BY <1>2, <1>3, <1>4, <1>8, <1>10, <1>11 DEF RunOK
<1>15. BranchesOK'
  BY <1>3, <1>8 DEF Inv, BranchesOK
<1>16. RegistersOK' /\ HeldOK' /\ GroundOK' /\ AnswersOK' /\ ApplyingOK'
  BY <1>2, <1>3, <1>10, <1>11 DEF Inv, RegistersOK, HeldOK, GroundOK, AnswersOK, ApplyingOK
<1>17. DeskOK'
  BY <1>2, <1>3, <1>10, <1>11 DEF Inv, DeskOK
<1>18. OpenedOK'
  BY <1>3, <1>12 DEF Inv, OpenedOK
<1>19. OriginOK'
  <2>1. \A r \in Runs : \A y \in TipTree(branch'[r]).shelf : y = r \/ Merged(y)
    <3> SUFFICES ASSUME NEW r \in Runs PROVE \A y \in TipTree(branch'[r]).shelf : y = r \/ Merged(y)
      OBVIOUS
    <3>1. \A y \in TipTree(branch[r]).shelf : y = r \/ Merged(y)
      BY DEF Inv, OriginOK
    <3>2. \A y \in DOMAIN trees : \A z \in trees[y].shelf : z = y \/ Merged(z)
      BY DEF Inv, OriginOK
    <3>3. CASE branch'[r] = branch[r]
      BY <3>1, <3>3
    <3>4. CASE HasTree /\ r = served
      BY <3>2, <3>4, <1>4, <1>8, <1>9
    <3> QED BY <1>8, <3>3, <3>4
  <2>2. \A y \in city.shelf : Merged(y) \/ (y <= served /\ branch'[y] = <<>>)
    <3>1. \A y \in city.shelf : y \in Runs
      BY Known, FilesAre
    <3> QED BY <1>8, <3>1 DEF Inv, OriginOK
  <2> QED BY <1>3, <1>6, <1>7, <1>8, <1>11, <2>1, <2>2 DEF Inv, OriginOK
<1>20. GrowsOK'
  BY <1>3, <1>4, <1>7, <1>8, <1>9, <1>11 DEF Inv, GrowsOK
<1>21. ArchivedOK'
  <2>1. (\A r \in Runs : Archived(r) => r <= served)'
    BY <1>3, <1>11 DEF Inv, ArchivedOK
  <2>2. (pc \in Busy /\ HasTree /\ Archived(served) => served \in trees[served].shelf)'
    BY <1>2, <1>3, <1>4, <1>7, <1>11 DEF Inv, ArchivedOK
  <2>3. (\A i \in DOMAIN log : Requested(log[i]) /\ Archived(log[i].request.branch) =>
           log[i].request.branch \in TipTree(branch[log[i].request.branch]).shelf)'
    BY <1>3, <1>11, <1>12 DEF Inv, ArchivedOK
  <2>4. (~died => \A r \in Runs : Archived(r) /\ Landed(r) => r \in TipTree(trunk).shelf)'
    BY <1>3, <1>8, <1>11 DEF Inv, ArchivedOK
  <2> QED BY <2>1, <2>2, <2>3, <2>4 DEF ArchivedOK
<1>22. LandsOnAnothersWord'
  BY <1>3, <1>11 DEF Inv, LandsOnAnothersWord, NobodyMergesTheirOwn, VouchedIsWhatLands
<1>23. MergedIsInTheTrunk'
  <2> SUFFICES ASSUME NEW i \in Lines("pr_merged"), ~died
               PROVE  IsPrefix(log[i].commit, trunk')
    BY <1>3, <1>11 DEF MergedIsInTheTrunk
  <2>1. i \in DOMAIN log /\ Is(log[i], "pr_merged")
    BY DEF Lines
  <2>2. IsPrefix(log[i].commit, trunk)
    BY <1>2 DEF Inv, MergedIsInTheTrunk
  <2>3. log[i].commit \in Seq(Commit)
    BY <2>1, Known, LineKinds DEF Answered, Is
  <2> QED BY <1>8, <2>2, <2>3, Known, PrefixChain
<1> QED BY <1>13, <1>14, <1>15, <1>16, <1>17, <1>18, <1>19, <1>20, <1>21, <1>22, <1>23 DEF Inv
(* The commit a city gets to branch from puts nothing on the shelf.          *)
LEMMA BaseIs ==
  ASSUME Inv, NEW n \in Runs, NEW room \in Rooms, NEW base, base = ensure_base(trunk, city, n, room)
  PROVE  /\ base \in Seq(Commit) /\ base # <<>> /\ Grows(base)
         /\ IsPrefix(trunk, base) /\ TipTree(base).shelf = TipTree(trunk).shelf
<1>1. trunk \in Seq(Commit) /\ Grows(trunk) /\ city \in FilesSet /\ IsPrefix(trunk, trunk)
  BY Known, PrefixChain DEF Inv, GrowsOK
<1>2. CASE trunk # <<>>
  BY <1>1, <1>2 DEF ensure_base
<1>3. CASE trunk = <<>>
  <2> DEFINE S == stage_scope(TipTree(trunk), city, room, FALSE)
  <2>1. TipTree(trunk) \in FilesSet
    BY <1>1, TipIs
  <2>2. S \in FilesSet /\ S.shelf = TipTree(trunk).shelf
    BY <1>1, <2>1, StageWhole
  <2>3. base = commit(trunk, S, n)
    BY <1>3 DEF ensure_base, wave_pre
  <2> HIDE DEF S
  <2>4. base \in Seq(Commit) /\ base # <<>> /\ TipTree(base) = S /\ Grows(base)
    BY <1>1, <2>2, <2>3, CommitIs
  <2>5. IsPrefix(trunk, base)
    <3>1. [by |-> n, tree |-> S] \in Commit
      BY <2>2 DEF Commit
    <3>2. base = Append(trunk, [by |-> n, tree |-> S])
      BY <2>3 DEF commit
    <3> QED BY <1>1, <3>1, <3>2, PrefixChain
  <2> QED BY <2>2, <2>4, <2>5
<1> QED BY <1>2, <1>3

(* A dispatch: the new run's number is above every run's so far, so nothing  *)
(* on the ledger is about it.                                                *)
LEMMA StandUpKeeps ==
  ASSUME Inv, NEW who \in Residents, NEW room \in Rooms, NEW mode \in Modes, stand_up(who, room, mode)
  PROVE  Inv'
<1> DEFINE n == served + 1
           d == open_desks(n, who, room, mode)
<1>1. /\ pc = "idle" /\ pc' = "driving" /\ pc' \in Busy /\ pc \notin Busy /\ served < MaxRuns
      /\ served' = n /\ run' = d
      /\ UNCHANGED <<log, requests, goals, city, left, died>>
  BY DEF stand_up, Busy
<1>2. /\ n \in Runs /\ n \in Nat /\ served < n /\ served \in Nat /\ MaxRuns \in Nat
      /\ \A r \in Runs : r \in Nat /\ (r <= served => r < n /\ r # n /\ r <= n) /\ (r > n => r > served /\ r # n)
  BY <1>1, Known DEF Runs
<1>3. requests = FoldRequests(log) /\ goals = FoldGoals(log) /\ requests \in Seq(Request) /\ goals \in Seq(Entry)
  BY <1>1 DEF Inv, RegistersOK, Types
<1>4. /\ run' \in Desk /\ run'.id = n /\ run'.room = room /\ run'.who = who /\ run'.open = requests
      /\ run'.effects = <<>> /\ run'.registered = goals /\ run'.goals = <<>>
  <2>1. <<>> \in Seq(PrEffect) /\ <<>> \in Seq(GoalEffect) /\ <<>> \in Seq(Commit)
    BY EmptySeq
  <2>2. d = [id |-> n, who |-> who, room |-> room, mode |-> mode, tests |-> "none",
             open |-> requests, effects |-> <<>>, registered |-> goals, goals |-> <<>>,
             shelf |-> FALSE, fenced |-> <<>>]
    BY DEF open_desks
  <2> HIDE DEF n
  <2>3. d \in Desk
    BY <1>2, <1>3, <2>1, <2>2 DEF Desk
  <2> QED BY <1>1, <2>2, <2>3
<1> HIDE DEF n, d
<1>5. /\ trunk' \in Seq(Commit) /\ Grows(trunk')
      /\ IsPrefix(trunk, trunk') /\ TipTree(trunk').shelf = TipTree(trunk).shelf
      /\ branch' \in [Runs -> Seq(Commit)] /\ \A r \in Runs : r # n => branch'[r] = branch[r]
      /\ branch'[n] = <<>> \/ branch'[n] = trunk'
      /\ n \in DOMAIN trees' <=> branch'[n] # <<>>
      /\ DOMAIN trees' \subseteq DOMAIN trees \cup {n}
      /\ \A r \in DOMAIN trees' : r # n => r \in DOMAIN trees /\ trees'[r] = trees[r]
      /\ n \in DOMAIN trees' => trees'[n] = TipTree(trunk')
  <2>0. /\ branch \in [Runs -> Seq(Commit)] /\ trunk \in Seq(Commit) /\ branch[n] = <<>> /\ n \notin DOMAIN trees
        /\ Grows(trunk) /\ IsPrefix(trunk, trunk)
    <3>1. branch[n] = <<>>
      BY <1>2 DEF Inv, BranchesOK
    <3>2. n \notin DOMAIN trees
      BY <1>2 DEF Inv, Types
    <3> QED BY <3>1, <3>2, Known, PrefixChain DEF Inv, GrowsOK
  <2>1. CASE room \notin Reviewed
    <3>1. UNCHANGED <<trunk, branch, trees>>
      BY <2>1 DEF stand_up
    <3> QED BY <2>0, <3>1
  <2>2. CASE room \in Reviewed
    <3>1. /\ trunk' = ensure_base(trunk, city, n, room)
          /\ branch' = [branch EXCEPT ![n] = trunk'] /\ trees' = claim_tree(n, trunk')
      BY <1>1, <2>2 DEF stand_up
    <3>2. /\ trunk' \in Seq(Commit) /\ trunk' # <<>> /\ Grows(trunk')
          /\ IsPrefix(trunk, trunk') /\ TipTree(trunk').shelf = TipTree(trunk).shelf
      BY <1>2, <3>1, BaseIs
    <3>3. trees' = [y \in DOMAIN trees \cup {n} |-> IF y = n THEN TipTree(trunk') ELSE trees[y]]
      BY <3>1 DEF claim_tree
    <3>4. branch' \in [Runs -> Seq(Commit)] /\ branch'[n] = trunk' /\ \A r \in Runs : r # n => branch'[r] = branch[r]
      BY <1>2, <2>0, <3>1, <3>2
    <3> QED BY <3>2, <3>3, <3>4
  <2> QED BY <2>1, <2>2
<1>6. /\ \A y : OnLedger(y)' <=> OnLedger(y)
      /\ \A r : Merged(r)' <=> Merged(r)
      /\ \A r : Archived(r)' <=> Archived(r)
      /\ \A r : Landed(r)' <=> Landed(r)
      /\ \A k : Lines(k)' = Lines(k)
      /\ HasTree' <=> n \in DOMAIN trees'
  BY <1>1, <1>4 DEF HasTree, OnLedger, Merged, Archived, Landed, Lines
<1>7. \A i \in DOMAIN log : Requested(log[i]) =>
        /\ log[i].request.branch \in Runs /\ log[i].request.branch <= served
        /\ log[i].request.branch <= n /\ log[i].request.branch < n
        /\ log[i].request.branch # n /\ branch'[log[i].request.branch] = branch[log[i].request.branch]
  <2>1. \A i \in DOMAIN log : Requested(log[i]) => log[i].request.branch \in Runs
    BY Known, LineKinds DEF Request
  <2>2. \A i \in DOMAIN log : Requested(log[i]) => log[i].request.branch <= served
    BY DEF Inv, OpenedOK
  <2> QED BY <1>2, <1>5, <2>1, <2>2
<1>8. Types'
  <2>1. DOMAIN trees' \subseteq 1 .. served'
    <3>1. \A r \in 1 .. served : r \in 1 .. n
      BY <1>2
    <3>2. n \in 1 .. n
      BY <1>2 DEF Runs
    <3>3. DOMAIN trees \subseteq 1 .. served
      BY DEF Inv, Types
    <3> QED BY <1>1, <1>5, <3>1, <3>2, <3>3, Zenon
  <2>2. \A r \in DOMAIN trees' : trees'[r] \in FilesSet
    BY <1>5, TipIs DEF Inv, Types
  <2>3. served' \in 0 .. MaxRuns
    BY <1>1, <1>2 DEF n
  <2> QED BY <1>1, <1>3, <1>5, <2>1, <2>2, <2>3 DEF Inv, Types
<1>9. RunOK' /\ ApplyingOK'
  BY <1>1, <1>4, <1>5, <1>6 DEF RunOK, ApplyingOK
<1>10. BranchesOK'
  BY <1>1, <1>2, <1>5 DEF Inv, BranchesOK
<1>11. RegistersOK' /\ AnswersOK'
  BY <1>1, <1>3, <1>6 DEF Inv, RegistersOK, AnswersOK
<1>12. \A i \in DOMAIN log : Is(log[i], "goal_registered") =>
         log[i].entry.id[1] \in Runs /\ log[i].entry.id[1] <= served /\ log[i].entry.id[1] < n /\ log[i].entry.id[1] <= n
  <2>1. \A i \in DOMAIN log : Is(log[i], "goal_registered") => log[i].entry.id[1] \in Runs
    BY Known, LineKinds DEF Entry
  <2> QED BY <1>2, <2>1 DEF Inv, HeldOK
<1>13. HeldOK'
  BY <1>1, <1>12 DEF Inv, HeldOK
<1>14. GroundOK'
  <2>1. GoalLines(<<>>) = <<>>
    BY DEF GoalLines
  <2>2. goals \o FoldGoals(GoalLines(<<>>)) = goals
    BY <1>3, <2>1, FoldGoalsEmpty, ConcatEmptySeq
  <2>3. HeldOnce(goals)
    BY <1>3 DEF Inv, HeldOK
  <2>4. \A i \in DOMAIN goals : goals[i].id[1] < n
    <3> SUFFICES ASSUME NEW i \in DOMAIN goals PROVE goals[i].id[1] < n
      OBVIOUS
    <3>1. PICK j \in DOMAIN log : Is(log[j], "goal_registered") /\ log[j].entry = goals[i]
      BY <1>3, Known, FoldHolds
    <3> QED BY <1>12, <3>1
  <2>5. DOMAIN run'.goals = {}
    BY <1>4
  <2> QED BY <1>1, <1>4, <2>2, <2>3, <2>4, <2>5 DEF GroundOK
<1>15. DeskOK'
  <2>1. \A i \in DOMAIN requests : OnLedger(requests[i]) /\ requests[i].branch < n
    <3> SUFFICES ASSUME NEW i \in DOMAIN requests PROVE OnLedger(requests[i]) /\ requests[i].branch < n
      OBVIOUS
    <3>1. PICK j \in DOMAIN log : Requested(log[j]) /\ log[j].request = requests[i]
      BY <1>3, Known, FoldHolds
    <3> QED BY <1>7, <3>1 DEF OnLedger
  <2>2. DOMAIN run'.effects = {}
    BY <1>4
  <2> QED BY <1>1, <1>4, <1>6, <2>1, <2>2 DEF DeskOK
<1>16. OpenedOK'
  BY <1>1, <1>7 DEF Inv, OpenedOK
<1>17. OriginOK'
  <2>1. \A y \in TipTree(trunk').shelf : Merged(y) /\ y \in city.shelf
    BY <1>5 DEF Inv, OriginOK
  <2>2. \A r \in Runs : \A y \in TipTree(branch'[r]).shelf : y = r \/ Merged(y)
    <3> SUFFICES ASSUME NEW r \in Runs, NEW y \in TipTree(branch'[r]).shelf PROVE y = r \/ Merged(y)
      OBVIOUS
    <3>1. CASE r # n
      BY <3>1, <1>5 DEF Inv, OriginOK
    <3>2. CASE r = n /\ branch'[n] = trunk'
      BY <3>2, <2>1
    <3>3. CASE r = n /\ branch'[n] = <<>>
      <4>1. TipTree(branch'[n]).shelf = {}
        BY <3>3, <1>2, <1>5, TipIs
      <4> QED BY <3>3, <4>1
    <3> QED BY <1>5, <3>1, <3>2, <3>3
  <2>3. \A r \in DOMAIN trees' : \A y \in trees'[r].shelf : y = r \/ Merged(y)
    BY <1>5, <2>1 DEF Inv, OriginOK
  <2>4. \A y \in city.shelf : Merged(y) \/ (y <= n /\ branch'[y] = <<>>)
    <3>1. \A y \in city.shelf : y \in Runs
      BY Known, FilesAre
    <3> QED BY <1>2, <1>5, <3>1 DEF Inv, OriginOK
  <2> QED BY <1>1, <1>6, <2>1, <2>2, <2>3, <2>4 DEF OriginOK
<1>18. GrowsOK'
  <2>1. \A r \in Runs : Grows(branch'[r])
    <3>1. Grows(<<>>)
      BY DEF Grows
    <3> QED BY <1>5, <3>1 DEF Inv, GrowsOK
  <2>2. n \in DOMAIN trees' => TipTree(branch'[n]).shelf \subseteq trees'[n].shelf
    BY <1>5
  <2> QED BY <1>1, <1>5, <1>6, <2>1, <2>2 DEF GrowsOK
<1>19. ArchivedOK'
  <2>1. \A r \in Runs : Archived(r) => r <= n /\ r # n
    BY <1>2 DEF Inv, ArchivedOK
  <2>2. (\A i \in DOMAIN log : Requested(log[i]) /\ Archived(log[i].request.branch) =>
           log[i].request.branch \in TipTree(branch[log[i].request.branch]).shelf)'
    BY <1>1, <1>6, <1>7 DEF Inv, ArchivedOK
  <2>3. (~died => \A r \in Runs : Archived(r) /\ Landed(r) => r \in TipTree(trunk).shelf)'
    BY <1>1, <1>5, <1>6 DEF Inv, ArchivedOK
  <2> QED BY <1>1, <1>2, <1>6, <2>1, <2>2, <2>3 DEF ArchivedOK
<1>20. LandsOnAnothersWord'
  BY <1>1, <1>6 DEF Inv, LandsOnAnothersWord, NobodyMergesTheirOwn, VouchedIsWhatLands
<1>21. MergedIsInTheTrunk'
  <2> SUFFICES ASSUME NEW i \in Lines("pr_merged"), ~died
               PROVE  IsPrefix(log[i].commit, trunk')
    BY <1>1, <1>6 DEF MergedIsInTheTrunk
  <2>1. i \in DOMAIN log /\ Is(log[i], "pr_merged")
    BY DEF Lines
  <2>2. IsPrefix(log[i].commit, trunk)
    BY <1>1 DEF Inv, MergedIsInTheTrunk
  <2>3. log[i].commit \in Seq(Commit)
    BY <2>1, Known, LineKinds DEF Answered, Is
  <2> QED BY <1>5, <2>2, <2>3, Known, PrefixChain
<1> QED BY <1>8, <1>9, <1>10, <1>11, <1>13, <1>14, <1>15, <1>16, <1>17, <1>18, <1>19, <1>20, <1>21 DEF Inv
-----------------------------------------------------------------------------
(* Ground. A clash is one whichever side it is seen from, and no conflict    *)
(* found means that no goal of another id is in the way.                     *)
LEMMA ClashSym ==
  ASSUME NEW a, NEW b
  PROVE  Clash(a, b) <=> Clash(b, a)
<1>1. \A x, y : resources_clash(x, y) <=> resources_clash(y, x)
  BY DEF resources_clash
<1> QED BY <1>1 DEF Clash

LEMMA NoConflict ==
  ASSUME NEW held \in Seq(Entry), NEW entry, detect_conflict(held, entry) = 0,
         NEW i \in DOMAIN held, held[i].id # entry.id
  PROVE  ~Clash(held[i], entry)
<1> DEFINE I == {k \in 1 .. Len(held) : held[k].id # entry.id /\ Clash(held[k], entry)}
<1>1. detect_conflict(held, entry) = IF I # {} THEN Min(I) ELSE 0
  BY DEF detect_conflict, SelectInSeq
<1>2. Len(held) \in Nat /\ DOMAIN held = 1 .. Len(held)
  BY SeqFacts
<1>3. I \in SUBSET Nat /\ 0 \notin I
  BY <1>2
<1>4. I = {}
  <2> SUFFICES ASSUME I # {} PROVE FALSE
    OBVIOUS
  <2> HIDE DEF I
  <2>1. \E k \in I : \A l \in I : k <= l
    BY <1>3, SmallestExists
  <2>2. Min(I) \in I
    BY <2>1 DEF Min
  <2> QED BY <1>1, <1>3, <2>2
<1> QED BY <1>2, <1>4

LEMMA HeldWithOne ==
  ASSUME NEW held \in Seq(Entry), NEW entry \in Entry, HeldOnce(held),
         \A i \in DOMAIN held : ~Clash(held[i], entry)
  PROVE  HeldOnce(Append(held, entry))
<1> DEFINE u == Append(held, entry)
<1>1. /\ DOMAIN held = 1 .. Len(held) /\ DOMAIN u = 1 .. Len(held) + 1
      /\ \A i \in 1 .. Len(held) : u[i] = held[i]
      /\ u[Len(held) + 1] = entry
      /\ \A i \in 1 .. Len(held) + 1 : i \in 1 .. Len(held) \/ i = Len(held) + 1
  BY SeqFacts, AppendFacts
<1> HIDE DEF u
<1>2. \A i, j \in DOMAIN u : i # j => ~Clash(u[i], u[j])
  <2> SUFFICES ASSUME NEW i \in DOMAIN u, NEW j \in DOMAIN u, i # j PROVE ~Clash(u[i], u[j])
    OBVIOUS
  <2>1. CASE i \in DOMAIN held /\ j \in DOMAIN held
    BY <1>1, <2>1 DEF HeldOnce
  <2>2. CASE i \in DOMAIN held /\ u[j] = entry
    BY <1>1, <2>2
  <2>3. CASE u[i] = entry /\ j \in DOMAIN held
    BY <1>1, <2>3, ClashSym
  <2> QED BY <1>1, <2>1, <2>2, <2>3
<1> QED BY <1>2 DEF HeldOnce, u

(* One more note at the goal desk.                                           *)
LEMMA GoalNoted ==
  ASSUME NEW g \in Seq(GoalEffect), NEW x \in GoalEffect
  PROVE  FoldGoals(GoalLines(Append(g, x))) =
           IF x.op = "Registered" THEN Append(FoldGoals(GoalLines(g)), x.entry) ELSE FoldGoals(GoalLines(g))
<1> DEFINE line == [kind |-> IF x.op = "Registered" THEN "goal_registered" ELSE "goal_conflict", entry |-> x.entry]
           h == Append(g, x)
<1>1. x.entry \in Entry
  BY DEF GoalEffect
<1>2. line \in [kind : {"goal_registered", "goal_conflict"}, entry : Entry]
  BY <1>1
<1>3. line.entry = x.entry /\ (Is(line, "goal_registered") <=> x.op = "Registered")
  BY DEF Is
<1>4. Len(g) \in Nat /\ DOMAIN g = 1 .. Len(g)
  BY SeqFacts
<1>5. /\ h \in Seq(GoalEffect) /\ Len(h) = Len(g) + 1 /\ DOMAIN h = 1 .. Len(g) + 1
      /\ \A i \in 1 .. Len(g) : h[i] = g[i]
      /\ h[Len(g) + 1] = x
      /\ \A i \in 1 .. Len(g) + 1 : i \in 1 .. Len(g) \/ i = Len(g) + 1
  BY AppendFacts
<1>6. GoalLines(h)[Len(g) + 1] = line /\ \A i \in 1 .. Len(g) : GoalLines(h)[i] = GoalLines(g)[i]
  <2> HIDE DEF h
  <2> QED BY <1>4, <1>5 DEF GoalLines
<1> HIDE DEF line, h
<1>7. line \in Line
  BY <1>2 DEF Line
<1>8. /\ GoalLines(g) \in Seq(Line) /\ Len(GoalLines(g)) = Len(g)
      /\ GoalLines(h) \in Seq(Line) /\ Len(GoalLines(h)) = Len(g) + 1
  BY <1>5, GoalLinesAre
<1> DEFINE u == Append(GoalLines(g), line)
<1>9. /\ u \in Seq(Line) /\ Len(u) = Len(g) + 1
      /\ \A i \in 1 .. Len(g) : u[i] = GoalLines(g)[i]
      /\ u[Len(g) + 1] = line
  BY <1>7, <1>8, AppendFacts
<1> HIDE DEF u
<1>10. GoalLines(h) = u
  <2>1. \A i \in 1 .. Len(g) + 1 : GoalLines(h)[i] = u[i]
    BY <1>5, <1>6, <1>9
  <2> QED BY <1>8, <1>9, <2>1, SeqEqual
<1>11. FoldGoals(u) = IF Is(line, "goal_registered") THEN Append(FoldGoals(GoalLines(g)), line.entry)
                                                     ELSE FoldGoals(GoalLines(g))
  BY <1>7, <1>8, FoldGoalsAppend DEF u
<1> QED BY <1>3, <1>10, <1>11 DEF h

LEMMA ConcatAppend ==
  ASSUME NEW X, NEW s \in Seq(X), NEW t \in Seq(X), NEW x \in X
  PROVE  s \o Append(t, x) = Append(s \o t, x)
<1>1. <<x>> \in Seq(X) /\ s \o t \in Seq(X)
  BY ConcatFacts
<1>2. Append(t, x) = t \o <<x>> /\ Append(s \o t, x) = (s \o t) \o <<x>>
  BY <1>1, AppendIsConcat
<1>3. s \o (t \o <<x>>) = (s \o t) \o <<x>>
  BY <1>1, ConcatAssociative
<1> QED BY <1>2, <1>3
LEMMA RegisterKeeps ==
  ASSUME Inv, NEW claim \in Claims, register(claim)
  PROVE  Inv'
<1> DEFINE k == Len(run.goals) + 1
           entry == [id |-> <<run.id, k>>, owner |-> run.who,
                     resources |-> claim.resources, standing |-> claim.standing]
           at == detect_conflict(run.registered, entry)
           level == arbitrate(run.registered[at], entry)
           yes == [op |-> "Registered", entry |-> entry]
           no == [op |-> "Conflicted", entry |-> entry, level |-> level]
<1>1. Calls("goal") /\ "goal" \in Things /\ OnlyTheRun
  BY DEF register, Things
<1>2. pc = "driving" /\ pc \in Busy /\ left' \in [Things -> Nat]
  BY <1>1, CallsIs
<1>3. run' = IF at = 0
             THEN [run EXCEPT !.registered = Append(run.registered, entry), !.goals = Append(run.goals, yes)]
             ELSE [run EXCEPT !.goals = Append(run.goals, no)]
  BY DEF register
<1>4. /\ run \in Desk /\ run.id = served /\ served \in Runs /\ run.who \in Residents
      /\ run.registered \in Seq(Entry) /\ run.goals \in Seq(GoalEffect)
  BY <1>2, AtWork
<1>5. Len(run.goals) \in Nat /\ DOMAIN run.goals = 1 .. Len(run.goals) /\ k \in Nat
  BY <1>4, SeqFacts
<1>6. entry \in Entry /\ entry.id[1] = served /\ entry.id[2] = k
  BY <1>4, <1>5 DEF Entry
<1>7. level \in {"serialize", "arbitrate"}
  BY DEF arbitrate
<1> HIDE DEF entry, level
<1>8. /\ yes \in GoalEffect /\ yes.entry = entry /\ yes.op = "Registered"
      /\ no \in GoalEffect /\ no.entry = entry /\ no.op # "Registered"
  BY <1>6, <1>7 DEF GoalEffect
<1>9. UNCHANGED <<log, goals, trees, pc, served>>
  BY <1>1 DEF OnlyTheRun
<1>10. /\ HeldOnce(run.registered)
       /\ run.registered = goals \o FoldGoals(GoalLines(run.goals))
       /\ \A i \in DOMAIN run.registered :
            run.registered[i].id[1] < served \/ run.registered[i].id[2] <= Len(run.goals)
       /\ \A i \in DOMAIN run.goals : run.goals[i].entry.id[1] = served
  BY <1>2 DEF Inv, GroundOK
<1>11. \A i \in DOMAIN run.registered : run.registered[i].id \in Runs \X Nat
  <2>1. \A i \in DOMAIN run.registered : run.registered[i] \in Entry
    BY <1>4, SeqFacts
  <2>2. \A e \in Entry : e.id \in Runs \X Nat
    BY DEF Entry
  <2> QED BY <2>1, <2>2
<1>12. \A i \in DOMAIN run.registered : run.registered[i].id # entry.id
  <2> SUFFICES ASSUME NEW i \in DOMAIN run.registered PROVE run.registered[i].id # entry.id
    OBVIOUS
  <2>1. run.registered[i].id[1] # served \/ run.registered[i].id[2] # k
    <3>1. run.registered[i].id[1] \in Nat /\ run.registered[i].id[2] \in Nat
      BY <1>11, Known DEF Runs
    <3>2. run.registered[i].id[1] < served \/ run.registered[i].id[2] <= Len(run.goals)
      BY <1>10
    <3>3. served \in Nat
      BY Known
    <3> QED BY <1>5, <3>1, <3>2, <3>3
  <2> QED BY <1>6, <2>1
<1>13. \A i \in DOMAIN run.registered : run.registered[i].id[1] < served \/ run.registered[i].id[2] <= k
  <2> SUFFICES ASSUME NEW i \in DOMAIN run.registered, ~(run.registered[i].id[1] < served)
               PROVE  run.registered[i].id[2] <= k
    OBVIOUS
  <2>1. run.registered[i].id[2] \in Nat
    BY <1>11
  <2> QED BY <1>5, <1>10, <2>1
<1> DEFINE F == FoldGoals(GoalLines(run.goals))
<1>14. F \in Seq(Entry) /\ goals \in Seq(Entry)
  BY <1>4, GoalLinesAre, FoldHolds DEF Inv, Types
<1> HIDE DEF k, at, yes, no
<1>15. CASE at = 0
  <2> DEFINE h == Append(run.goals, yes)
             v == Append(run.registered, entry)
  <2>1. /\ h \in Seq(GoalEffect) /\ v \in Seq(Entry) /\ Len(h) = k
        /\ \A i \in DOMAIN h : h[i].entry.id[1] = served
        /\ \A i \in DOMAIN v : v[i].id[1] < served \/ v[i].id[2] <= k
    <3>1. /\ h \in Seq(GoalEffect) /\ Len(h) = Len(run.goals) + 1 /\ DOMAIN h = 1 .. Len(run.goals) + 1
          /\ \A i \in 1 .. Len(run.goals) : h[i] = run.goals[i]
          /\ h[Len(run.goals) + 1] = yes
          /\ \A i \in 1 .. Len(run.goals) + 1 : i \in 1 .. Len(run.goals) \/ i = Len(run.goals) + 1
      BY <1>4, <1>8, AppendFacts
    <3>2. /\ v \in Seq(Entry) /\ DOMAIN v = 1 .. Len(run.registered) + 1
          /\ \A i \in 1 .. Len(run.registered) : v[i] = run.registered[i]
          /\ v[Len(run.registered) + 1] = entry
          /\ \A i \in 1 .. Len(run.registered) + 1 : i \in 1 .. Len(run.registered) \/ i = Len(run.registered) + 1
      BY <1>4, <1>6, AppendFacts
    <3>3. DOMAIN run.registered = 1 .. Len(run.registered)
      BY <1>4, SeqFacts
    <3> HIDE DEF h, v
    <3>4. \A i \in DOMAIN h : h[i].entry.id[1] = served
      BY <3>1, <1>5, <1>6, <1>8, <1>10
    <3>5. \A i \in DOMAIN v : v[i].id[1] < served \/ v[i].id[2] <= k
      <4> SUFFICES ASSUME NEW i \in DOMAIN v PROVE v[i].id[1] < served \/ v[i].id[2] <= k
        OBVIOUS
      <4>1. CASE i \in 1 .. Len(run.registered)
        BY <4>1, <3>2, <3>3, <1>13
      <4>2. CASE i = Len(run.registered) + 1
        <5>1. v[i].id[2] = k /\ k <= k
          BY <4>2, <3>2, <1>5, <1>6
        <5> QED BY <5>1
      <4> QED BY <3>2, <4>1, <4>2
    <3> QED BY <3>1, <3>2, <3>4, <3>5 DEF k
  <2>2. HeldOnce(v)
    <3>1. \A i \in DOMAIN run.registered : ~Clash(run.registered[i], entry)
      BY <1>4, <1>12, <1>15, NoConflict DEF at
    <3> QED BY <1>4, <1>6, <1>10, <3>1, HeldWithOne
  <2>3. v = goals \o FoldGoals(GoalLines(h))
    <3>1. FoldGoals(GoalLines(h)) = Append(F, entry)
      BY <1>4, <1>8, GoalNoted
    <3>2. goals \o Append(F, entry) = Append(goals \o F, entry)
      BY <1>6, <1>14, ConcatAppend
    <3> QED BY <1>10, <3>1, <3>2
  <2>4. run' = [run EXCEPT !.registered = v, !.goals = h]
    BY <1>3, <1>15
  <2> HIDE DEF h, v
  <2>5. /\ run' \in Desk /\ run'.id = run.id /\ run'.room = run.room /\ run'.who = run.who
        /\ run'.open = run.open /\ run'.effects = run.effects
        /\ run'.registered = v /\ run'.goals = h
    BY <1>4, <2>1, <2>4 DEF Desk
  <2>6. GroundOK'
    BY <1>9, <2>1, <2>2, <2>3, <2>5 DEF GroundOK
  <2>7. DeskOK'
    BY <1>9, <2>5 DEF Inv, DeskOK, OnLedger, HasTree
  <2> QED BY <1>1, <1>2, <2>5, <2>6, <2>7, NotedOnly
<1>16. CASE at # 0
  <2> DEFINE h == Append(run.goals, no)
  <2>1. /\ h \in Seq(GoalEffect) /\ Len(h) = k
        /\ \A i \in DOMAIN h : h[i].entry.id[1] = served
    <3>1. /\ h \in Seq(GoalEffect) /\ Len(h) = Len(run.goals) + 1 /\ DOMAIN h = 1 .. Len(run.goals) + 1
          /\ \A i \in 1 .. Len(run.goals) : h[i] = run.goals[i]
          /\ h[Len(run.goals) + 1] = no
          /\ \A i \in 1 .. Len(run.goals) + 1 : i \in 1 .. Len(run.goals) \/ i = Len(run.goals) + 1
      BY <1>4, <1>8, AppendFacts
    <3> HIDE DEF h
    <3>2. \A i \in DOMAIN h : h[i].entry.id[1] = served
      BY <3>1, <1>5, <1>6, <1>8, <1>10
    <3> QED BY <3>1, <3>2 DEF k
  <2>2. FoldGoals(GoalLines(h)) = F
    BY <1>4, <1>8, GoalNoted
  <2>3. run' = [run EXCEPT !.goals = h]
    BY <1>3, <1>16
  <2> HIDE DEF h
  <2>4. /\ run' \in Desk /\ run'.id = run.id /\ run'.room = run.room /\ run'.who = run.who
        /\ run'.open = run.open /\ run'.effects = run.effects
        /\ run'.registered = run.registered /\ run'.goals = h
    BY <1>4, <2>1, <2>3 DEF Desk
  <2>5. GroundOK'
    BY <1>9, <1>10, <1>13, <2>1, <2>2, <2>4 DEF GroundOK
  <2>6. DeskOK'
    BY <1>9, <2>4 DEF Inv, DeskOK, OnLedger, HasTree
  <2> QED BY <1>1, <1>2, <2>4, <2>5, <2>6, NotedOnly
<1> QED BY <1>15, <1>16

-----------------------------------------------------------------------------
(* Every step.                                                               *)
LEMMA InvStutter == Inv /\ UNCHANGED vars => Inv'
<1> SUFFICES ASSUME Inv, UNCHANGED vars PROVE Inv'
  OBVIOUS
<1>1. UNCHANGED <<log, requests, goals, trunk, branch, city, trees, run, pc, served, left, died>>
  BY DEF vars
<1>2. Types' /\ RunOK' /\ BranchesOK' /\ GroundOK' /\ DeskOK' /\ ApplyingOK'
  BY <1>1 DEF Inv, Types, RunOK, HasTree, BranchesOK, GroundOK, DeskOK, ApplyingOK, OnLedger, Effect
<1>3. RegistersOK' /\ HeldOK'
  BY <1>1 DEF Inv, RegistersOK, HeldOK, Effect
<1>4. AnswersOK' /\ OpenedOK'
  BY <1>1 DEF Inv, AnswersOK, OpenedOK, OnLedger
<1>5. OriginOK' /\ GrowsOK' /\ ArchivedOK'
  BY <1>1 DEF Inv, OriginOK, GrowsOK, ArchivedOK, Merged, Landed, Archived, Lines, HasTree
<1>6. LandsOnAnothersWord' /\ MergedIsInTheTrunk'
  BY <1>1 DEF Inv, LandsOnAnothersWord, NobodyMergesTheirOwn, VouchedIsWhatLands, MergedIsInTheTrunk, Lines
<1> QED BY <1>2, <1>3, <1>4, <1>5, <1>6 DEF Inv

LEMMA InvNext == Inv /\ [Next]_vars => Inv'
<1> SUFFICES ASSUME Inv, [Next]_vars PROVE Inv'
  OBVIOUS
<1>1. ASSUME NEW who \in Residents, NEW room \in Rooms, NEW mode \in Modes, stand_up(who, room, mode) PROVE Inv'
  BY <1>1, StandUpKeeps
<1>2. ASSUME NEW deletes \in BOOLEAN, Wave(deletes) PROVE Inv'
  BY <1>2, WaveKeeps
<1>3. ASSUME NEW passed \in BOOLEAN, Exec(passed) PROVE Inv'
  BY <1>3, ExecKeeps
<1>4. CASE pr_open
  BY <1>4, OpenKeeps
<1>5. ASSUME NEW b \in Runs, NEW passed \in BOOLEAN, pr_check(b, passed) PROVE Inv'
  BY <1>5, CheckKeeps
<1>6. ASSUME NEW claim \in Claims, register(claim) PROVE Inv'
  BY <1>6, RegisterKeeps
<1>7. CASE archive_record
  BY <1>7, ArchiveKeeps
<1>8. CASE Freeze
  BY <1>8, FreezeKeeps
<1>9. CASE SettleGoals
  BY <1>9, GoalsKeep
<1>10. CASE SettleDiscards
  BY <1>10, DiscardsKeep
<1>11. CASE SettleShelf
  BY <1>11, ShelfKeeps
<1>12. CASE SettleOpened
  BY <1>12, OpenedKeeps
<1>13. CASE SettleRejected
  BY <1>13, RejectedKeeps
<1>14. CASE SettleMerged
  BY <1>14, MergedKeeps
<1>15. CASE apply
  BY <1>15, ApplyKeeps
<1>16. CASE SettleStale
  BY <1>16, StaleKeeps
<1>17. CASE conclude
  BY <1>17, ConcludeKeeps
<1>18. CASE Crash
  BY <1>18, CrashKeeps
<1>19. CASE Reopen
  BY <1>19, ReopenKeeps
<1>20. CASE UNCHANGED vars
  BY <1>20, InvStutter
<1> QED BY <1>1, <1>2, <1>3, <1>4, <1>5, <1>6, <1>7, <1>8, <1>9, <1>10, <1>11, <1>12, <1>13, <1>14,
           <1>15, <1>16, <1>17, <1>18, <1>19, <1>20 DEF Next

LEMMA InvAlways == Spec => []Inv
<1>1. Init => Inv
  BY InvInit
<1>2. Inv /\ [Next]_vars => Inv'
  BY InvNext
<1> QED BY <1>1, <1>2, PTL DEF Spec
-----------------------------------------------------------------------------
(* The two registers are what a restart would fold from the ledger, and hold *)
(* no ground twice, whoever registered it and wherever the process died      *)
(* (folds.rs, goal_tool.rs).                                                 *)
THEOREM RegistersAreAlwaysSound == Spec => []RegistersAreSound
<1>1. Inv => RegistersAreSound
  <2> SUFFICES ASSUME Inv PROVE RegistersAreSound
    OBVIOUS
  <2>1. TypeOK
    <3>1. run \in Desk \cup {NoRun} /\ (run = NoRun <=> pc \in {"idle", "down"})
      <4>1. CASE pc \in Busy
        BY <4>1, AtWork DEF Busy
      <4>2. CASE pc \notin Busy
        BY <4>2 DEF Inv, RunOK, Types
      <4> QED BY <4>1, <4>2
    <3>2. DOMAIN trees \subseteq Runs
      BY Known DEF Inv, Types, Runs
    <3>3. Types
      BY DEF Inv
    <3> QED BY <3>1, <3>2, <3>3 DEF Types, TypeOK, Busy
  <2>2. RegistersAreTheLedger
    BY DEF Inv, RegistersOK, RegistersAreTheLedger
  <2>3. GroundIsHeldOnce
    <3>1. CASE pc = "down"
      <4>1. DOMAIN goals = {}
        BY <3>1 DEF Inv, RegistersOK
      <4> QED BY <4>1 DEF GroundIsHeldOnce
    <3>2. CASE pc # "down"
      BY <3>2 DEF Inv, RegistersOK, HeldOK, HeldOnce, GroundIsHeldOnce
    <3> QED BY <3>1, <3>2
  <2> QED BY <2>1, <2>2, <2>3 DEF RegistersAreSound
<1> QED BY <1>1, InvAlways, PTL

(* No merge on the ledger was answered by the one whose work it is, and what *)
(* it took is, file by file, the commit that was offered, although a merge   *)
(* takes the branch's tip and not that commit (pr_tool.rs, reviewing.rs).    *)
THEOREM LandsAlwaysOnAnothersWord == Spec => []LandsOnAnothersWord
<1>1. Inv => LandsOnAnothersWord
  BY DEF Inv
<1> QED BY <1>1, InvAlways, PTL

(* A merge on the ledger is in the trunk for good unless the process died on *)
(* the way, and a shelf entry of a run under review is in the city when, and *)
(* only when, that run's work was accepted (worktree.rs, settling.rs).       *)
THEOREM AcceptedIsAlwaysInTheCity == Spec => []AcceptedIsInTheCity
<1>1. Inv => AcceptedIsInTheCity
  <2> SUFFICES ASSUME Inv PROVE ShelfHoldsTheAccepted
    BY DEF Inv, AcceptedIsInTheCity
  <2> SUFFICES ASSUME NEW i \in Lines("asset_archived"), branch[log[i].run] # <<>>
               PROVE  /\ log[i].run \in city.shelf => Merged(log[i].run)
                      /\ Merged(log[i].run) /\ pc # "applying" /\ ~died => log[i].run \in city.shelf
    BY DEF ShelfHoldsTheAccepted, Merged
  <2>1. i \in DOMAIN log /\ Is(log[i], "asset_archived") /\ Archived(log[i].run)
    BY DEF Lines, Archived
  <2>2. log[i].run \in Runs
    BY <2>1, Known, LineKinds
  <2>3. log[i].run \in city.shelf => Merged(log[i].run)
    BY DEF Inv, OriginOK
  <2>4. ASSUME Merged(log[i].run), pc # "applying", ~died
        PROVE  log[i].run \in city.shelf
    <3>1. Landed(log[i].run)
      BY <2>4 DEF Merged, Landed
    <3>2. log[i].run \in TipTree(trunk).shelf
      BY <2>1, <2>2, <2>4, <3>1 DEF Inv, ArchivedOK
    <3> QED BY <3>2 DEF Inv, OriginOK
  <2> QED BY <2>3, <2>4
<1> QED BY <1>1, InvAlways, PTL
=============================================================================
