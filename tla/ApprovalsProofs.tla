-------------------------- MODULE ApprovalsProofs --------------------------
(* Proofs about Approvals: what a worker holds is what the history says,     *)
(* people decide, and a dispatch leaves nothing behind.                      *)
EXTENDS Approvals, FiniteSetTheorems, WellFoundedInduction, SequenceTheorems, TLAPS

\* Every non-empty set of naturals has a least element.
LEMMA SmallestExists ==
  ASSUME NEW T \in SUBSET Nat, T # {}
  PROVE  \E x \in T : \A y \in T : x <= y
<1>1. \E x \in T : \A y \in T : ~ (<<y, x>> \in OpToRel(<, Nat))
  BY NatLessThanWellFounded, WFMin
<1>2. \A x, y \in T : ~ (<<y, x>> \in OpToRel(<, Nat)) => x <= y
  BY DEF OpToRel
<1> QED BY <1>1, <1>2

-----------------------------------------------------------------------------
(* The history.                                                              *)

StartedLine == [kind : {"run_started"}, run : Runs, work : Nat, addr : Rooms,
                to : Rooms \cup {"building"}]
AskedLine == [kind : {"approval_requested"}, run : Runs, addr : Rooms, item : Items]
AnsweredLine == [kind : {"approval_resolved"}, id : Ids, verdict : {"allow", "deny"},
                 cluster : Clusters]
ShutLine == [kind : {"city_halted"}, scope : Scopes, halted : BOOLEAN]
Line == StartedLine \cup AskedLine \cup AnsweredLine \cup ShutLine

(* What OpenRequests, ShutBefore and Allowed say, of any history.            *)
Touches(l, id) ==
  \/ l.kind = "approval_requested" /\ l.item.id = id
  \/ l.kind = "approval_resolved" /\ l.id = id
Open(s, i) ==
  /\ s[i].kind = "approval_requested"
  /\ \A j \in i + 1 .. Len(s) : ~Touches(s[j], s[i].item.id)
Rules(l, scope) == l.kind = "city_halted" /\ l.scope = scope
Shut(s, n, scope) ==
  \E i \in 1 .. n - 1 :
    /\ Rules(s[i], scope) /\ s[i].halted
    /\ \A j \in i + 1 .. n - 1 : ~Rules(s[j], scope)
Allows(l, c) == l.kind = "approval_resolved" /\ l.verdict = "allow" /\ l.cluster = c
Starts(l, run) == l.kind = "run_started" /\ l.run = run

(* A run starts once, and only a run that has started asks.                  *)
HistoryOK(s) ==
  /\ s \in Seq(Line)
  /\ \A i, j \in 1..Len(s) :
       s[i].kind = "run_started" /\ s[j].kind = "run_started" /\ s[i].run = s[j].run => i = j
  /\ \A i \in 1..Len(s) : s[i].kind = "approval_requested" =>
       \E j \in 1..i - 1 : Starts(s[j], s[i].run)

-----------------------------------------------------------------------------
(* What a worker holds of a history.                                         *)

Partial(A, B) == UNION {[D -> B] : D \in SUBSET A}
Origin == [addr : Rooms, work : Nat]
Gov == [pending : Partial(Ids, Items), origins : Partial(Ids, Origin),
        granted : SUBSET Clusters, halted : SUBSET Scopes, sent : Partial(Runs, Nat)]

(* The inbox is the open requests, each with the room it came from and the   *)
(* work its run was sent to do.                                              *)
InboxFits(g, s) ==
  /\ DOMAIN g.origins \subseteq DOMAIN g.pending
  /\ \A id \in DOMAIN g.pending : \E i \in 1..Len(s) : Open(s, i) /\ s[i].item.id = id
  /\ \A i \in 1..Len(s) : Open(s, i) =>
       /\ s[i].item.id \in DOMAIN g.pending /\ g.pending[s[i].item.id] = s[i].item
       /\ s[i].item.id \in DOMAIN g.origins /\ g.origins[s[i].item.id].addr = s[i].addr
       /\ \E k \in 1..Len(s) :
            Starts(s[k], s[i].run) /\ g.origins[s[i].item.id].work = s[k].work

GrantedFits(g, s) ==
  \A c \in Clusters : c \in g.granted <=> \E i \in 1..Len(s) : Allows(s[i], c)

HaltedFits(g, s) ==
  \A scope \in Scopes : scope \in g.halted <=> Shut(s, Len(s) + 1, scope)

(* A worker knows more than the history: the work of a run that was stood up *)
(* and has not started.                                                      *)
SentFits(g, s) ==
  \A i \in 1..Len(s) : s[i].kind = "run_started" =>
    s[i].run \in DOMAIN g.sent /\ g.sent[s[i].run] = s[i].work

Fits(g, s) ==
  g \in Gov /\ InboxFits(g, s) /\ GrantedFits(g, s) /\ HaltedFits(g, s) /\ SentFits(g, s)

-----------------------------------------------------------------------------
(* The inductive invariant.                                                  *)

Tallies ==
  /\ clock \in Nat /\ calls \in Nat /\ clock <= calls /\ calls <= MaxCalls
  /\ minted \in 0..MaxRuns /\ opened \subseteq Rooms /\ trees \subseteq 1..minted
  /\ acted \subseteq Clusters /\ refused \subseteq Items
  /\ level \in Seq(Nat) /\ happened \subseteq Faults

(* A line that starts a run names a work of the person and a run stood up.   *)
LinesOK ==
  \A i \in 1..Len(ledger) : ledger[i].kind = "run_started" =>
    ledger[i].work \in 1..Len(level) /\ ledger[i].run <= minted

(* Below the innermost dispatch everyone waits.                              *)
StackOK ==
  /\ stack \in Seq(Frames)
  /\ \A i \in 1..Len(stack) : i < Len(stack) =>
       stack[i].pc = "handing" /\ stack[i].asked # <<>> /\ stack[i + 1].parent = stack[i].run
  /\ \A i \in 1..Len(stack) : stack[i].work \in 1..Len(level) /\ stack[i].run <= minted

(* A frame that raised anything belongs to a run that has started; one that  *)
(* is past filing has filed everything; what it was granted was allowed.     *)
FrameOK(f, s, c) ==
  /\ f.t <= c
  /\ f.pc \in {"standing", "handing"} => f.raised = <<>>
  /\ f.pc \in {"driving", "settling"} \/ f.raised # <<>> =>
       \E i \in 1..Len(s) : Starts(s[i], f.run)
  /\ \A x \in f.granted : \E i \in 1..Len(s) : Allows(s[i], x)

(* Work is agreed to when nothing that covers its address is shut; the room  *)
(* a session opens is not asked about.                                       *)
Agreed(g, to, room) ==
  "city" \notin g.halted /\ "building" \notin g.halted /\ (room \in g.halted => to = "building")

(* A run that stands and has not started: nobody shut its room since it was  *)
(* agreed to, and the worker knows what it was sent to do.                   *)
StandingOK(f, g, s) ==
  f.pc = "standing" =>
    /\ Agreed(g, f.to, f.room)
    /\ f.run \in DOMAIN g.sent /\ g.sent[f.run] = f.work
    /\ \A i \in 1..Len(s) : ~Starts(s[i], f.run)

FramesOK == \A i \in 1..Len(stack) : FrameOK(stack[i], ledger, clock) /\ StandingOK(stack[i], gov, ledger)

Files(l, item) == l.kind = "approval_requested" /\ l.item = item
Raises(f, item) == \E n \in 1..Len(f.raised) : f.raised[n] = item
FilingOK ==
  happened = {} => \A item \in refused :
    \/ \E i \in 1..Len(ledger) : Files(ledger[i], item)
    \/ \E n \in 1..Len(stack) : Raises(stack[n], item)

Out == {"standing", "driving", "settling", "concluding"}
Strays == {r \in trees : stack = <<>> \/ Top.run # r \/ Top.pc \notin Out}
TreesOK ==
  /\ Cardinality(Strays) <= Cardinality(happened \ {"run_line"})
  /\ \A i \in 1..Len(stack) : stack[i].run \in trees => i = Len(stack) /\ stack[i].pc \in Out

ActedOK == \A c \in acted : \E i \in 1..Len(ledger) : Allows(ledger[i], c)

Answers(l, id) == l.kind = "approval_resolved" /\ l.id = id
AskedOK ==
  \A i \in 1..Len(ledger) : ledger[i].kind = "approval_resolved" =>
    \E j \in 1..i - 1 :
      /\ ledger[j].kind = "approval_requested"
      /\ ledger[j].item.id = ledger[i].id /\ ledger[j].item.cluster = ledger[i].cluster
      /\ \A k \in j + 1 .. i - 1 : ~Answers(ledger[k], ledger[i].id)

(* At line n of the history a run may start as the line says.                *)
Admits(s, n, l) ==
  ~Shut(s, n, "city") /\ ~Shut(s, n, "building") /\ (Shut(s, n, l.addr) => l.to = "building")
ShutOK ==
  \A i \in 1..Len(ledger) : ledger[i].kind = "run_started" => Admits(ledger, i, ledger[i])

LedgerInv ==
  HistoryOK(ledger) /\ Fits(gov, ledger) /\ LinesOK /\ ActedOK /\ AskedOK /\ ShutOK
StackInv == StackOK /\ FramesOK /\ FilingOK /\ TreesOK
IndInv == Tallies /\ LedgerInv /\ StackInv

LEMMA WithIs ==
  ASSUME NEW A, NEW B, NEW f \in Partial(A, B), NEW a \in A, NEW b \in B
  PROVE  With(f, a, b) \in Partial(A, B)
<1>1. PICK D \in SUBSET A : f \in [D -> B]
  BY DEF Partial
<1>2. With(f, a, b) \in [D \cup {a} -> B] /\ D \cup {a} \in SUBSET A
  BY <1>1 DEF With
<1> QED BY <1>2 DEF Partial

LEMMA WithoutIs ==
  ASSUME NEW A, NEW B, NEW f \in Partial(A, B), NEW a
  PROVE  Without(f, a) \in Partial(A, B)
<1>1. PICK D \in SUBSET A : f \in [D -> B]
  BY DEF Partial
<1>2. Without(f, a) \in [D \ {a} -> B] /\ D \ {a} \in SUBSET A
  BY <1>1 DEF Without
<1> QED BY <1>2 DEF Partial

LEMMA PartialValue ==
  ASSUME NEW A, NEW B, NEW f \in Partial(A, B)
  PROVE  DOMAIN f \subseteq A /\ \A x \in DOMAIN f : f[x] \in B
BY DEF Partial

LEMMA Appended ==
  ASSUME NEW S, NEW s \in Seq(S), NEW e \in S
  PROVE  /\ Append(s, e) \in Seq(S) /\ Append(s, e) # <<>>
         /\ Len(s) \in Nat /\ Len(Append(s, e)) = Len(s) + 1
         /\ Append(s, e)[Len(s) + 1] = e
         /\ \A i \in 1..Len(s) : Append(s, e)[i] = s[i]
<1>1. /\ Append(s, e) \in Seq(S) /\ Len(s) \in Nat /\ Len(Append(s, e)) = Len(s) + 1
      /\ Append(s, e)[Len(s) + 1] = e /\ \A i \in 1..Len(s) : Append(s, e)[i] = s[i]
  OBVIOUS
<1> QED BY <1>1

(* The innermost dispatch replaced.                                          *)
LEMMA Replaced ==
  ASSUME NEW S, NEW s \in Seq(S), s # <<>>, NEW e \in S
  PROVE  /\ Len(s) \in Nat /\ Len(s) >= 1 /\ Last(s) = s[Len(s)] /\ Last(s) \in S
         /\ Front(s) \in Seq(S) /\ Len(Front(s)) = Len(s) - 1
         /\ \A i \in 1..Len(s) - 1 : Front(s)[i] = s[i]
         /\ Append(Front(s), e) \in Seq(S) /\ Len(Append(Front(s), e)) = Len(s)
         /\ Append(Front(s), e)[Len(s)] = e
         /\ \A i \in 1..Len(s) - 1 : Append(Front(s), e)[i] = s[i]
<1>1. Len(s) \in Nat /\ Len(s) >= 1
  BY EmptySeq
<1>2. Last(s) = s[Len(s)] /\ Last(s) \in S
  BY <1>1 DEF Last
<1>3. /\ Front(s) \in Seq(S) /\ Len(Front(s)) = Len(s) - 1
      /\ \A i \in 1..Len(s) - 1 : Front(s)[i] = s[i]
  <2>1. \A i \in 1 .. Len(s) - 1 : s[i] \in S
    BY <1>1
  <2> DEFINE r == SubSeq(s, 1, Len(s) - 1)
  <2>2. /\ r \in Seq(S) /\ Len(r) = IF 1 <= Len(s) - 1 THEN Len(s) - 1 - 1 + 1 ELSE 0
        /\ \A i \in 1 .. Len(s) - 1 - 1 + 1 : r[i] = s[1 + i - 1]
    BY <1>1, <2>1, SubSeqProperties
  <2>3. Front(s) = r
    BY DEF Front
  <2> HIDE DEF r
  <2>4. \A i \in 1 .. Len(s) - 1 : r[i] = s[i]
    <3> TAKE i \in 1 .. Len(s) - 1
    <3>1. i \in 1 .. Len(s) - 1 - 1 + 1 /\ 1 + i - 1 = i
      BY <1>1
    <3> QED BY <2>2, <3>1
  <2>5. Len(r) = Len(s) - 1
    <3>1. CASE 1 <= Len(s) - 1
      BY <1>1, <2>2, <3>1
    <3>2. CASE ~(1 <= Len(s) - 1)
      <4>1. Len(r) = 0
        BY <2>2, <3>2, Zenon
      <4>2. Len(s) = 1
        <5>1. \A n \in Nat : n >= 1 /\ ~(1 <= n - 1) => n = 1
          OBVIOUS
        <5> QED BY <1>1, <3>2, <5>1, Zenon
      <4> QED BY <4>1, <4>2
    <3> QED BY <3>1, <3>2
  <2> QED BY <2>2, <2>3, <2>4, <2>5
<1> HIDE DEF Front
<1>4. /\ Append(Front(s), e) \in Seq(S) /\ Len(Append(Front(s), e)) = Len(s)
      /\ Append(Front(s), e)[Len(s)] = e
      /\ \A i \in 1..Len(s) - 1 : Append(Front(s), e)[i] = Front(s)[i]
  BY <1>1, <1>3, Appended
<1> QED BY <1>1, <1>2, <1>3, <1>4

-----------------------------------------------------------------------------
(* What a line adds to what a history says.                                  *)

LEMMA OpenAfter ==
  ASSUME NEW s \in Seq(Line), NEW l \in Line
  PROVE  /\ \A i \in 1..Len(s) :
              Open(Append(s, l), i) <=> Open(s, i) /\ ~Touches(l, s[i].item.id)
         /\ Open(Append(s, l), Len(s) + 1) <=> l.kind = "approval_requested"
<1> DEFINE u == Append(s, l)
<1>1. /\ Len(s) \in Nat /\ Len(u) = Len(s) + 1 /\ u[Len(s) + 1] = l
      /\ \A i \in 1..Len(s) : u[i] = s[i]
  BY Appended
<1> HIDE DEF u
<1>2. ASSUME NEW i \in 1..Len(s)
      PROVE  Open(u, i) <=> Open(s, i) /\ ~Touches(l, s[i].item.id)
  <2>1. u[i] = s[i] /\ \A j \in i + 1 .. Len(s) : j \in 1..Len(s) /\ u[j] = s[j]
    BY <1>1, <1>2
  <2>2. ASSUME Open(u, i)
        PROVE  Open(s, i) /\ ~Touches(l, s[i].item.id)
    <3>1. Len(s) + 1 \in i + 1 .. Len(u) /\ \A j \in i + 1 .. Len(s) : j \in i + 1 .. Len(u)
      BY <1>1, <1>2
    <3> QED BY <1>1, <2>1, <2>2, <3>1 DEF Open
  <2>3. ASSUME Open(s, i), ~Touches(l, s[i].item.id)
        PROVE  Open(u, i)
    <3>1. ASSUME NEW j \in i + 1 .. Len(u)
          PROVE  ~Touches(u[j], u[i].item.id)
      <4>1. CASE j = Len(s) + 1
        BY <1>1, <2>1, <2>3, <4>1
      <4>2. CASE j \in i + 1 .. Len(s)
        BY <2>1, <2>3, <4>2 DEF Open
      <4> QED BY <1>1, <1>2, <4>1, <4>2
    <3> QED BY <2>1, <2>3, <3>1 DEF Open
  <2> QED BY <2>2, <2>3
<1>3. Open(u, Len(s) + 1) <=> l.kind = "approval_requested"
  BY <1>1 DEF Open
<1> QED BY <1>2, <1>3 DEF u

LEMMA ShutAfter ==
  ASSUME NEW s \in Seq(Line), NEW l \in Line, NEW scope
  PROVE  /\ \A n \in 1..Len(s) + 1 : Shut(Append(s, l), n, scope) <=> Shut(s, n, scope)
         /\ Shut(Append(s, l), Len(s) + 2, scope) <=>
              IF Rules(l, scope) THEN l.halted = TRUE ELSE Shut(s, Len(s) + 1, scope)
<1> DEFINE u == Append(s, l)
<1>1. /\ Len(s) \in Nat /\ Len(u) = Len(s) + 1 /\ u[Len(s) + 1] = l
      /\ \A i \in 1..Len(s) : u[i] = s[i]
  BY Appended
<1> HIDE DEF u
<1>2. ASSUME NEW n \in 1..Len(s) + 1
      PROVE  Shut(u, n, scope) <=> Shut(s, n, scope)
  <2>1. \A i \in 1 .. n - 1 : u[i] = s[i] /\ \A j \in i + 1 .. n - 1 : u[j] = s[j]
    BY <1>1, <1>2
  <2> QED BY <2>1 DEF Shut
<1>3. ASSUME ~Rules(l, scope)
      PROVE  Shut(u, Len(s) + 2, scope) <=> Shut(u, Len(s) + 1, scope)
  <2>1. ASSUME Shut(u, Len(s) + 2, scope)
        PROVE  Shut(u, Len(s) + 1, scope)
    <3>1. PICK i \in 1 .. Len(s) + 1 :
            /\ Rules(u[i], scope) /\ u[i].halted
            /\ \A j \in i + 1 .. Len(s) + 1 : ~Rules(u[j], scope)
      BY <1>1, <2>1 DEF Shut
    <3>2. i \in 1 .. Len(s)
      BY <1>1, <1>3, <3>1
    <3> QED BY <1>1, <3>1, <3>2 DEF Shut
  <2>2. ASSUME Shut(u, Len(s) + 1, scope)
        PROVE  Shut(u, Len(s) + 2, scope)
    <3>1. PICK i \in 1 .. Len(s) :
            /\ Rules(u[i], scope) /\ u[i].halted
            /\ \A j \in i + 1 .. Len(s) : ~Rules(u[j], scope)
      BY <1>1, <2>2 DEF Shut
    <3>2. \A j \in i + 1 .. Len(s) + 1 : ~Rules(u[j], scope)
      BY <1>1, <1>3, <3>1
    <3>3. i \in 1..(Len(s) + 2) - 1 /\ (Len(s) + 2) - 1 = Len(s) + 1
      BY <1>1
    <3> QED BY <3>1, <3>2, <3>3 DEF Shut
  <2> QED BY <2>1, <2>2
<1>4. ASSUME Rules(l, scope)
      PROVE  Shut(u, Len(s) + 2, scope) <=> l.halted = TRUE
  <2>0. l.halted \in BOOLEAN
    BY <1>4 DEF Rules, Line, StartedLine, AskedLine, AnsweredLine, ShutLine
  <2>1. ASSUME Shut(u, Len(s) + 2, scope)
        PROVE  l.halted = TRUE
    <3>1. PICK i \in 1 .. Len(s) + 1 :
            /\ Rules(u[i], scope) /\ u[i].halted
            /\ \A j \in i + 1 .. Len(s) + 1 : ~Rules(u[j], scope)
      BY <1>1, <2>1 DEF Shut
    <3>2. i = Len(s) + 1
      BY <1>1, <1>4, <3>1
    <3> QED BY <1>1, <2>0, <3>1, <3>2
  <2>2. ASSUME l.halted = TRUE
        PROVE  Shut(u, Len(s) + 2, scope)
    <3>1. Len(s) + 1 \in 1 .. (Len(s) + 2) - 1
          /\ \A j \in (Len(s) + 1) + 1 .. (Len(s) + 2) - 1 : FALSE
      BY <1>1
    <3> QED BY <1>1, <1>4, <2>2, <3>1 DEF Shut
  <2> QED BY <2>1, <2>2
<1>5. Len(s) + 1 \in 1..Len(s) + 1
  BY <1>1
<1> QED BY <1>2, <1>3, <1>4, <1>5 DEF u
LEMMA LineKinds ==
  ASSUME NEW l \in Line
  PROVE  /\ l.kind \in {"run_started", "approval_requested", "approval_resolved", "city_halted"}
         /\ l.kind = "run_started" <=> l \in StartedLine
         /\ l.kind = "approval_requested" <=> l \in AskedLine
         /\ l.kind = "approval_resolved" <=> l \in AnsweredLine
         /\ l.kind = "city_halted" <=> l \in ShutLine
<1>1. CASE l \in StartedLine
  BY <1>1 DEF StartedLine, AskedLine, AnsweredLine, ShutLine
<1>2. CASE l \in AskedLine
  BY <1>2 DEF StartedLine, AskedLine, AnsweredLine, ShutLine
<1>3. CASE l \in AnsweredLine
  BY <1>3 DEF StartedLine, AskedLine, AnsweredLine, ShutLine
<1>4. CASE l \in ShutLine
  BY <1>4 DEF StartedLine, AskedLine, AnsweredLine, ShutLine
<1> QED BY <1>1, <1>2, <1>3, <1>4 DEF Line

(* A line that neither asks nor answers leaves the inbox as it is.           *)
LEMMA InboxStays ==
  ASSUME NEW g, NEW h, NEW s \in Seq(Line), NEW l \in Line, InboxFits(g, s),
         h.pending = g.pending, h.origins = g.origins,
         l.kind \notin {"approval_requested", "approval_resolved"}
  PROVE  InboxFits(h, Append(s, l))
<1> DEFINE u == Append(s, l)
<1>1. /\ Len(s) \in Nat /\ Len(u) = Len(s) + 1 /\ u[Len(s) + 1] = l
      /\ \A i \in 1..Len(s) : u[i] = s[i]
  BY Appended
<1>2. /\ \A i \in 1..Len(s) : Open(u, i) <=> Open(s, i)
      /\ ~Open(u, Len(s) + 1)
  BY OpenAfter DEF Touches
<1> HIDE DEF u
<1>3. \A i \in 1..Len(s) : i \in 1..Len(u)
  BY <1>1
<1>4. \A i \in 1..Len(u) : Open(u, i) => i \in 1..Len(s)
  BY <1>1, <1>2
<1>5. \A id \in DOMAIN h.pending : \E i \in 1..Len(u) : Open(u, i) /\ u[i].item.id = id
  <2> TAKE id \in DOMAIN h.pending
  <2>1. PICK i \in 1..Len(s) : Open(s, i) /\ s[i].item.id = id
    BY DEF InboxFits
  <2> QED BY <1>1, <1>2, <1>3, <2>1
<1>6. ASSUME NEW i \in 1..Len(u), Open(u, i)
      PROVE  /\ u[i].item.id \in DOMAIN h.pending /\ h.pending[u[i].item.id] = u[i].item
             /\ u[i].item.id \in DOMAIN h.origins /\ h.origins[u[i].item.id].addr = u[i].addr
             /\ \E k \in 1..Len(u) :
                  Starts(u[k], u[i].run) /\ h.origins[u[i].item.id].work = u[k].work
  <2>1. i \in 1..Len(s) /\ u[i] = s[i] /\ Open(s, i)
    BY <1>1, <1>2, <1>4, <1>6
  <2>2. PICK k \in 1..Len(s) : Starts(s[k], s[i].run) /\ g.origins[s[i].item.id].work = s[k].work
    BY <2>1 DEF InboxFits
  <2>3. k \in 1..Len(u) /\ u[k] = s[k]
    BY <1>1, <1>3
  <2> QED BY <2>1, <2>2, <2>3 DEF InboxFits
<1> QED BY <1>5, <1>6 DEF InboxFits, u

(* A request is held, with where it came from and what for.                  *)
LEMMA InboxAsks ==
  ASSUME NEW g \in Gov, NEW s \in Seq(Line), NEW l \in AskedLine, InboxFits(g, s), SentFits(g, s),
         \E j \in 1..Len(s) : Starts(s[j], l.run)
  PROVE  /\ Requested(g, l) \in Gov /\ InboxFits(Requested(g, l), Append(s, l))
         /\ Requested(g, l).granted = g.granted /\ Requested(g, l).halted = g.halted
         /\ Requested(g, l).sent = g.sent
<1> DEFINE u == Append(s, l)
           h == Requested(g, l)
           id == l.item.id
           o == [addr |-> l.addr, work |-> g.sent[l.run]]
<1>0. l \in Line /\ l.kind = "approval_requested" /\ l.item \in Items /\ id \in Ids /\ l.addr \in Rooms
  BY DEF Line, AskedLine, Items
<1>1. /\ Len(s) \in Nat /\ Len(u) = Len(s) + 1 /\ u[Len(s) + 1] = l
      /\ \A i \in 1..Len(s) : u[i] = s[i]
  BY <1>0, Appended
<1>2. /\ \A i \in 1..Len(s) : Open(u, i) <=> Open(s, i) /\ s[i].item.id # id
      /\ Open(u, Len(s) + 1)
  BY <1>0, OpenAfter DEF Touches
<1>3. PICK k \in 1..Len(s) : Starts(s[k], l.run)
  OBVIOUS
<1>4. l.run \in DOMAIN g.sent /\ g.sent[l.run] = s[k].work
  BY <1>3 DEF SentFits, Starts
<1>5. g.sent[l.run] \in Nat
  BY <1>4, PartialValue DEF Gov
<1>6. o \in Origin /\ o.addr = l.addr /\ o.work = s[k].work
  BY <1>0, <1>4, <1>5 DEF Origin
<1>7. /\ h.pending = With(g.pending, id, l.item) /\ h.origins = With(g.origins, id, o)
      /\ h.granted = g.granted /\ h.halted = g.halted /\ h.sent = g.sent
  BY <1>4 DEF Requested, Gov
<1> HIDE DEF o
<1>8. /\ With(g.pending, id, l.item) \in Partial(Ids, Items)
      /\ DOMAIN With(g.pending, id, l.item) = DOMAIN g.pending \cup {id}
      /\ With(g.pending, id, l.item)[id] = l.item
      /\ \A x \in DOMAIN g.pending : x # id => With(g.pending, id, l.item)[x] = g.pending[x]
  <2> DEFINE f == g.pending
             v == l.item
  <2>1. f \in Partial(Ids, Items) /\ id \in Ids /\ v \in Items
    BY <1>0 DEF Gov
  <2> HIDE DEF f, v, id
  <2>2. With(f, id, v) \in Partial(Ids, Items)
    BY <2>1, WithIs
  <2> QED BY <2>2 DEF f, v, With
<1>9. /\ With(g.origins, id, o) \in Partial(Ids, Origin)
      /\ DOMAIN With(g.origins, id, o) = DOMAIN g.origins \cup {id}
      /\ With(g.origins, id, o)[id] = o
      /\ \A x \in DOMAIN g.origins : x # id => With(g.origins, id, o)[x] = g.origins[x]
  <2> DEFINE f == g.origins
  <2>1. f \in Partial(Ids, Origin) /\ id \in Ids
    BY <1>0 DEF Gov
  <2> HIDE DEF f, id
  <2>2. With(f, id, o) \in Partial(Ids, Origin)
    BY <1>6, <2>1, WithIs
  <2> QED BY <2>2 DEF f, With
<1>10. h \in Gov
  <2>1. h = [g EXCEPT !.pending = With(g.pending, id, l.item), !.origins = With(g.origins, id, o)]
    BY <1>4 DEF Requested, o, Gov
  <2> HIDE DEF h, id
  <2> QED BY <1>8, <1>9, <2>1 DEF Gov
<1> HIDE DEF u, h, id
<1>11. \A i \in 1..Len(s) : i \in 1..Len(u)
  BY <1>1
<1>12. \A x \in DOMAIN h.pending : \E i \in 1..Len(u) : Open(u, i) /\ u[i].item.id = x
  <2> TAKE x \in DOMAIN h.pending
  <2>1. CASE x = id
    <3>1. Len(s) + 1 \in 1..Len(u) /\ u[Len(s) + 1].item.id = id
      BY <1>1 DEF id
    <3> QED BY <1>2, <2>1, <3>1
  <2>2. CASE x # id
    <3>1. x \in DOMAIN g.pending
      BY <1>7, <1>8, <2>2
    <3>2. PICK i \in 1..Len(s) : Open(s, i) /\ s[i].item.id = x
      BY <3>1 DEF InboxFits
    <3> QED BY <1>1, <1>2, <1>11, <2>2, <3>2
  <2> QED BY <2>1, <2>2
<1>13. ASSUME NEW i \in 1..Len(u), Open(u, i)
       PROVE  /\ u[i].item.id \in DOMAIN h.pending /\ h.pending[u[i].item.id] = u[i].item
              /\ u[i].item.id \in DOMAIN h.origins /\ h.origins[u[i].item.id].addr = u[i].addr
              /\ \E n \in 1..Len(u) :
                   Starts(u[n], u[i].run) /\ h.origins[u[i].item.id].work = u[n].work
  <2>1. CASE i = Len(s) + 1
    <3>1. u[i] = l /\ u[i].item.id = id /\ k \in 1..Len(u) /\ u[k] = s[k]
      BY <1>1, <1>11, <2>1 DEF id
    <3> QED BY <1>3, <1>6, <1>7, <1>8, <1>9, <3>1
  <2>2. CASE i \in 1..Len(s)
    <3>1. u[i] = s[i] /\ Open(s, i) /\ s[i].item.id # id
      BY <1>1, <1>2, <1>13, <2>2
    <3>2. PICK n \in 1..Len(s) : Starts(s[n], s[i].run) /\ g.origins[s[i].item.id].work = s[n].work
      BY <2>2, <3>1 DEF InboxFits
    <3>3. n \in 1..Len(u) /\ u[n] = s[n]
      BY <1>1, <1>11
    <3>4. /\ s[i].item.id \in DOMAIN g.pending /\ g.pending[s[i].item.id] = s[i].item
          /\ s[i].item.id \in DOMAIN g.origins /\ g.origins[s[i].item.id].addr = s[i].addr
      BY <2>2, <3>1 DEF InboxFits
    <3>5. /\ s[i].item.id \in DOMAIN h.pending /\ h.pending[s[i].item.id] = s[i].item
          /\ s[i].item.id \in DOMAIN h.origins /\ h.origins[s[i].item.id] = g.origins[s[i].item.id]
      BY <1>7, <1>8, <1>9, <3>1, <3>4
    <3> QED BY ONLY <3>1, <3>2, <3>3, <3>4, <3>5
  <2> QED BY <1>1, <2>1, <2>2
<1>14. DOMAIN h.origins \subseteq DOMAIN h.pending
  BY <1>7, <1>8, <1>9 DEF InboxFits
<1> QED BY <1>7, <1>10, <1>12, <1>13, <1>14 DEF InboxFits, u, h

(* An answer takes its item out of the inbox.                                *)
LEMMA InboxAnswers ==
  ASSUME NEW g \in Gov, NEW s \in Seq(Line), NEW l \in AnsweredLine, InboxFits(g, s)
  PROVE  /\ Resolved(g, l) \in Gov /\ InboxFits(Resolved(g, l), Append(s, l))
         /\ Resolved(g, l).granted =
              IF l.verdict = "allow" THEN g.granted \cup {l.cluster} ELSE g.granted
         /\ Resolved(g, l).halted = g.halted /\ Resolved(g, l).sent = g.sent
<1> DEFINE u == Append(s, l)
           h == Resolved(g, l)
           id == l.id
<1>0. l \in Line /\ l.kind = "approval_resolved" /\ id \in Ids /\ l.cluster \in Clusters
  BY DEF Line, AnsweredLine
<1>1. /\ Len(s) \in Nat /\ Len(u) = Len(s) + 1 /\ u[Len(s) + 1] = l
      /\ \A i \in 1..Len(s) : u[i] = s[i]
  BY <1>0, Appended
<1>2. /\ \A i \in 1..Len(s) : Open(u, i) <=> Open(s, i) /\ s[i].item.id # id
      /\ ~Open(u, Len(s) + 1)
  <2>1. \A x : Touches(l, x) <=> x = id
    BY <1>0 DEF Touches
  <2> HIDE DEF id
  <2> QED BY <1>0, <2>1, OpenAfter
<1>3. /\ h.pending = Without(g.pending, id) /\ h.origins = Without(g.origins, id)
      /\ h.granted = IF l.verdict = "allow" THEN g.granted \cup {l.cluster} ELSE g.granted
      /\ h.halted = g.halted /\ h.sent = g.sent
  BY DEF Resolved, Gov
<1>4. /\ Without(g.pending, id) \in Partial(Ids, Items)
      /\ DOMAIN Without(g.pending, id) = DOMAIN g.pending \ {id}
      /\ \A x \in DOMAIN g.pending : x # id => Without(g.pending, id)[x] = g.pending[x]
  <2> DEFINE f == g.pending
  <2>1. f \in Partial(Ids, Items)
    BY DEF Gov
  <2> HIDE DEF f, id
  <2>2. Without(f, id) \in Partial(Ids, Items)
    BY <2>1, WithoutIs
  <2> QED BY <2>2 DEF f, Without
<1>5. /\ Without(g.origins, id) \in Partial(Ids, Origin)
      /\ DOMAIN Without(g.origins, id) = DOMAIN g.origins \ {id}
      /\ \A x \in DOMAIN g.origins : x # id => Without(g.origins, id)[x] = g.origins[x]
  <2> DEFINE f == g.origins
  <2>1. f \in Partial(Ids, Origin)
    BY DEF Gov
  <2> HIDE DEF f, id
  <2>2. Without(f, id) \in Partial(Ids, Origin)
    BY <2>1, WithoutIs
  <2> QED BY <2>2 DEF f, Without
<1>6. h \in Gov
  BY <1>0, <1>4, <1>5 DEF Resolved, Gov
<1> HIDE DEF u, h, id
<1>7. \A i \in 1..Len(s) : i \in 1..Len(u)
  BY <1>1
<1>8. \A x \in DOMAIN h.pending : \E i \in 1..Len(u) : Open(u, i) /\ u[i].item.id = x
  <2> TAKE x \in DOMAIN h.pending
  <2>1. x \in DOMAIN g.pending /\ x # id
    BY <1>3, <1>4
  <2>2. PICK i \in 1..Len(s) : Open(s, i) /\ s[i].item.id = x
    BY <2>1 DEF InboxFits
  <2> QED BY <1>1, <1>2, <1>7, <2>1, <2>2
<1>9. ASSUME NEW i \in 1..Len(u), Open(u, i)
      PROVE  /\ u[i].item.id \in DOMAIN h.pending /\ h.pending[u[i].item.id] = u[i].item
             /\ u[i].item.id \in DOMAIN h.origins /\ h.origins[u[i].item.id].addr = u[i].addr
             /\ \E n \in 1..Len(u) :
                  Starts(u[n], u[i].run) /\ h.origins[u[i].item.id].work = u[n].work
  <2>1. i \in 1..Len(s)
    BY <1>1, <1>2, <1>9
  <2>2. u[i] = s[i] /\ Open(s, i) /\ s[i].item.id # id
    BY <1>1, <1>2, <1>9, <2>1
  <2>3. PICK n \in 1..Len(s) : Starts(s[n], s[i].run) /\ g.origins[s[i].item.id].work = s[n].work
    BY <2>1, <2>2 DEF InboxFits
  <2>4. n \in 1..Len(u) /\ u[n] = s[n]
    BY <1>1, <1>7
  <2>5. /\ s[i].item.id \in DOMAIN g.pending /\ g.pending[s[i].item.id] = s[i].item
        /\ s[i].item.id \in DOMAIN g.origins /\ g.origins[s[i].item.id].addr = s[i].addr
    BY <2>1, <2>2 DEF InboxFits
  <2>6. \A x \in DOMAIN g.pending : x # id => x \in DOMAIN h.pending /\ h.pending[x] = g.pending[x]
    BY ONLY <1>3, <1>4
  <2>7. \A x \in DOMAIN g.origins : x # id => x \in DOMAIN h.origins /\ h.origins[x] = g.origins[x]
    BY ONLY <1>3, <1>5
  <2>8. /\ s[i].item.id \in DOMAIN h.pending /\ h.pending[s[i].item.id] = s[i].item
        /\ s[i].item.id \in DOMAIN h.origins /\ h.origins[s[i].item.id] = g.origins[s[i].item.id]
    BY ONLY <2>2, <2>5, <2>6, <2>7
  <2> QED BY ONLY <2>2, <2>3, <2>4, <2>5, <2>8
<1>10. DOMAIN h.origins \subseteq DOMAIN h.pending
  BY <1>3, <1>4, <1>5 DEF InboxFits
<1> QED BY <1>3, <1>6, <1>8, <1>9, <1>10 DEF InboxFits, u, h
LEMMA GrantedAfter ==
  ASSUME NEW g, NEW h, NEW s \in Seq(Line), NEW l \in Line, GrantedFits(g, s),
         h.granted = IF l.kind = "approval_resolved" /\ l.verdict = "allow"
                       THEN g.granted \cup {l.cluster} ELSE g.granted
  PROVE  GrantedFits(h, Append(s, l))
<1> DEFINE u == Append(s, l)
<1>1. /\ Len(s) \in Nat /\ Len(u) = Len(s) + 1 /\ u[Len(s) + 1] = l
      /\ \A i \in 1..Len(s) : u[i] = s[i]
  BY Appended
<1> HIDE DEF u
<1>2. ASSUME NEW c \in Clusters
      PROVE  c \in h.granted <=> \E i \in 1..Len(u) : Allows(u[i], c)
  <2>1. (\E i \in 1..Len(u) : Allows(u[i], c)) <=>
          (\E i \in 1..Len(s) : Allows(s[i], c)) \/ Allows(l, c)
    <3>1. ASSUME NEW i \in 1..Len(u), Allows(u[i], c)
          PROVE  (\E j \in 1..Len(s) : Allows(s[j], c)) \/ Allows(l, c)
      <4>1. i \in 1..Len(s) \/ i = Len(s) + 1
        BY <1>1
      <4> QED BY <1>1, <3>1, <4>1
    <3>2. ASSUME NEW i \in 1..Len(s), Allows(s[i], c)
          PROVE  \E j \in 1..Len(u) : Allows(u[j], c)
      <4>1. i \in 1..Len(u) /\ u[i] = s[i]
        BY <1>1
      <4> QED BY <3>2, <4>1
    <3>3. Len(s) + 1 \in 1..Len(u)
      BY <1>1
    <3> QED BY <1>1, <3>1, <3>2, <3>3
  <2>2. c \in h.granted <=> c \in g.granted \/ Allows(l, c)
    BY DEF Allows
  <2> QED BY <2>1, <2>2 DEF GrantedFits
<1> QED BY <1>2 DEF GrantedFits, u

LEMMA HaltedAfter ==
  ASSUME NEW g, NEW h, NEW s \in Seq(Line), NEW l \in Line, HaltedFits(g, s),
         l.kind = "city_halted" =>
           h.halted = IF l.halted THEN g.halted \cup {l.scope} ELSE g.halted \ {l.scope},
         l.kind # "city_halted" => h.halted = g.halted
  PROVE  HaltedFits(h, Append(s, l))
<1>1. Len(s) \in Nat /\ Len(Append(s, l)) = Len(s) + 1 /\ Len(Append(s, l)) + 1 = Len(s) + 2
  BY Appended
<1>2. ASSUME NEW scope \in Scopes
      PROVE  scope \in h.halted <=> Shut(Append(s, l), Len(s) + 2, scope)
  <2>1. Shut(Append(s, l), Len(s) + 2, scope) <=>
          IF Rules(l, scope) THEN l.halted = TRUE ELSE Shut(s, Len(s) + 1, scope)
    BY ShutAfter
  <2>2. l.kind = "city_halted" => l.halted \in BOOLEAN
    BY LineKinds DEF ShutLine
  <2>3. CASE l.kind = "city_halted"
    <3>1. CASE l.scope = scope
      BY <2>1, <2>2, <2>3, <3>1 DEF Rules
    <3>2. CASE l.scope # scope
      BY <2>1, <2>3, <3>2 DEF Rules, HaltedFits
    <3> QED BY <3>1, <3>2
  <2>4. CASE l.kind # "city_halted"
    BY <2>1, <2>4 DEF Rules, HaltedFits
  <2> QED BY <2>3, <2>4
<1> QED BY <1>1, <1>2 DEF HaltedFits

LEMMA SentStays ==
  ASSUME NEW g, NEW h, NEW s \in Seq(Line), NEW l \in Line, SentFits(g, s),
         h.sent = g.sent, l.kind # "run_started"
  PROVE  SentFits(h, Append(s, l))
<1> DEFINE u == Append(s, l)
<1>1. /\ Len(s) \in Nat /\ Len(u) = Len(s) + 1 /\ u[Len(s) + 1] = l
      /\ \A i \in 1..Len(s) : u[i] = s[i]
  BY Appended
<1> HIDE DEF u
<1>2. \A i \in 1..Len(u) : u[i].kind = "run_started" => i \in 1..Len(s)
  BY <1>1
<1> QED BY <1>1, <1>2 DEF SentFits, u

(* The fold of one line keeps what is held and the history together, live    *)
(* and at a restart alike.                                                   *)
LEMMA AbsorbFits ==
  ASSUME NEW g, NEW s, NEW l \in Line, Fits(g, s), HistoryOK(s), HistoryOK(Append(s, l))
  PROVE  Fits(absorb(g, l), Append(s, l))
<1>0. s \in Seq(Line) /\ g \in Gov /\ l \in Line
  BY DEF HistoryOK, Fits
<1>1. CASE l \in StartedLine
  <2> DEFINE h == absorb(g, l)
  <2>1. l.kind = "run_started" /\ l.run \in Runs /\ l.work \in Nat
    BY <1>1 DEF StartedLine
  <2>2. /\ h = [g EXCEPT !.sent = With(g.sent, l.run, l.work)]
        /\ h.pending = g.pending /\ h.origins = g.origins /\ h.granted = g.granted
        /\ h.halted = g.halted /\ h.sent = With(g.sent, l.run, l.work)
    BY <1>0, <2>1 DEF absorb, Gov
  <2>3. With(g.sent, l.run, l.work) \in Partial(Runs, Nat)
    <3> DEFINE f == g.sent
               r == l.run
               w == l.work
    <3>1. f \in Partial(Runs, Nat) /\ r \in Runs /\ w \in Nat
      BY <1>0, <2>1 DEF Gov
    <3> HIDE DEF f, r, w
    <3>2. With(f, r, w) \in Partial(Runs, Nat)
      BY <3>1, WithIs
    <3> QED BY <3>2 DEF f, r, w
  <2> HIDE DEF h
  <2>4. h \in Gov
    BY <1>0, <2>2, <2>3 DEF Gov
  <2>5. InboxFits(h, Append(s, l))
    BY <1>0, <2>1, <2>2, InboxStays DEF Fits
  <2>6. GrantedFits(h, Append(s, l))
    BY <1>0, <2>1, <2>2, GrantedAfter DEF Fits
  <2>7. HaltedFits(h, Append(s, l))
    BY <1>0, <2>1, <2>2, HaltedAfter DEF Fits
  <2>8. SentFits(h, Append(s, l))
    <3> DEFINE u == Append(s, l)
    <3>1. /\ Len(s) \in Nat /\ Len(u) = Len(s) + 1 /\ u[Len(s) + 1] = l
          /\ \A i \in 1..Len(s) : u[i] = s[i]
      BY <1>0, Appended
    <3>2. HistoryOK(u)
      OBVIOUS
    <3> HIDE DEF u
    <3>3. ASSUME NEW i \in 1..Len(u), u[i].kind = "run_started"
          PROVE  u[i].run \in DOMAIN h.sent /\ h.sent[u[i].run] = u[i].work
      <4>1. CASE i = Len(s) + 1
        BY <2>2, <3>1, <4>1 DEF With
      <4>2. CASE i \in 1..Len(s)
        <5>1. u[i] = s[i] /\ s[i].run \in DOMAIN g.sent /\ g.sent[s[i].run] = s[i].work
          BY <3>1, <3>3, <4>2 DEF Fits, SentFits
        <5>2. u[i].run # l.run
          <6>1. Len(s) + 1 \in 1..Len(u) /\ i # Len(s) + 1
            BY <3>1, <4>2
          <6> QED BY <2>1, <3>1, <3>2, <3>3, <6>1 DEF HistoryOK
        <5> QED BY <2>2, <5>1, <5>2 DEF With
      <4> QED BY <3>1, <4>1, <4>2
    <3> QED BY <3>3 DEF SentFits, u
  <2> QED BY <2>4, <2>5, <2>6, <2>7, <2>8 DEF Fits, h
<1>2. CASE l \in AskedLine
  <2>1. l.kind = "approval_requested" /\ absorb(g, l) = Requested(g, l)
    BY <1>2 DEF AskedLine, absorb
  <2>2. \E j \in 1..Len(s) : Starts(s[j], l.run)
    <3> DEFINE u == Append(s, l)
    <3>1. /\ Len(s) \in Nat /\ Len(u) = Len(s) + 1 /\ u[Len(s) + 1] = l
          /\ \A i \in 1..Len(s) : u[i] = s[i]
      BY <1>0, Appended
    <3>2. HistoryOK(u)
      OBVIOUS
    <3> HIDE DEF u
    <3>3. Len(s) + 1 \in 1..Len(u) /\ (Len(s) + 1) - 1 = Len(s)
      BY <3>1
    <3>4. PICK j \in 1..(Len(s) + 1) - 1 : Starts(u[j], l.run)
      BY <2>1, <3>1, <3>2, <3>3 DEF HistoryOK
    <3> QED BY <3>1, <3>3, <3>4
  <2>3. /\ Requested(g, l) \in Gov /\ InboxFits(Requested(g, l), Append(s, l))
        /\ Requested(g, l).granted = g.granted /\ Requested(g, l).halted = g.halted
        /\ Requested(g, l).sent = g.sent
    BY <1>0, <1>2, <2>2, InboxAsks DEF Fits
  <2>4. GrantedFits(Requested(g, l), Append(s, l))
    BY <1>0, <2>1, <2>3, GrantedAfter DEF Fits
  <2>5. HaltedFits(Requested(g, l), Append(s, l))
    BY <1>0, <2>1, <2>3, HaltedAfter DEF Fits
  <2>6. SentFits(Requested(g, l), Append(s, l))
    BY <1>0, <2>1, <2>3, SentStays DEF Fits
  <2> QED BY <2>1, <2>3, <2>4, <2>5, <2>6 DEF Fits
<1>3. CASE l \in AnsweredLine
  <2>1. l.kind = "approval_resolved" /\ absorb(g, l) = Resolved(g, l)
    BY <1>3 DEF AnsweredLine, absorb
  <2>2. /\ Resolved(g, l) \in Gov /\ InboxFits(Resolved(g, l), Append(s, l))
        /\ Resolved(g, l).granted =
             IF l.verdict = "allow" THEN g.granted \cup {l.cluster} ELSE g.granted
        /\ Resolved(g, l).halted = g.halted /\ Resolved(g, l).sent = g.sent
    BY <1>0, <1>3, InboxAnswers DEF Fits
  <2>3. GrantedFits(Resolved(g, l), Append(s, l))
    BY <1>0, <2>1, <2>2, GrantedAfter DEF Fits
  <2>4. HaltedFits(Resolved(g, l), Append(s, l))
    BY <1>0, <2>1, <2>2, HaltedAfter DEF Fits
  <2>5. SentFits(Resolved(g, l), Append(s, l))
    BY <1>0, <2>1, <2>2, SentStays DEF Fits
  <2> QED BY <2>1, <2>2, <2>3, <2>4, <2>5 DEF Fits
<1>4. CASE l \in ShutLine
  <2> DEFINE h == absorb(g, l)
  <2>1. l.kind = "city_halted" /\ l.scope \in Scopes
    BY <1>4 DEF ShutLine
  <2>2. h = [g EXCEPT !.halted = IF l.halted THEN g.halted \cup {l.scope} ELSE g.halted \ {l.scope}]
    BY <2>1 DEF absorb
  <2>3. /\ h.pending = g.pending /\ h.origins = g.origins /\ h.granted = g.granted
        /\ h.halted = (IF l.halted THEN g.halted \cup {l.scope} ELSE g.halted \ {l.scope})
        /\ h.sent = g.sent
    BY <1>0, <2>2 DEF Gov
  <2> HIDE DEF h
  <2>4. h \in Gov
    BY <1>0, <2>1, <2>2 DEF Gov
  <2>5. InboxFits(h, Append(s, l))
    BY <1>0, <2>1, <2>3, InboxStays DEF Fits
  <2>6. GrantedFits(h, Append(s, l))
    BY <1>0, <2>1, <2>3, GrantedAfter DEF Fits
  <2>7. HaltedFits(h, Append(s, l))
    BY <1>0, <2>1, <2>3, HaltedAfter DEF Fits
  <2>8. SentFits(h, Append(s, l))
    BY <1>0, <2>1, <2>3, SentStays DEF Fits
  <2> QED BY <2>4, <2>5, <2>6, <2>7, <2>8 DEF Fits, h
<1> QED BY <1>1, <1>2, <1>3, <1>4 DEF Line
-----------------------------------------------------------------------------
(* A restart: the fold of the whole history, by least counterexample over    *)
(* its prefixes.                                                             *)

LEMMA EmptyFits == Fits(Empty, <<>>)
<1>1. <<>> \in Partial(Ids, Items) /\ <<>> \in Partial(Ids, Origin) /\ <<>> \in Partial(Runs, Nat)
  <2>1. \A B : <<>> \in [{} -> B]
    OBVIOUS
  <2> QED BY <2>1 DEF Partial
<1>2. Empty \in Gov /\ DOMAIN Empty.pending = {} /\ DOMAIN Empty.origins = {}
      /\ Empty.granted = {} /\ Empty.halted = {}
  BY <1>1 DEF Empty, Gov
<1>3. Len(<<>>) = 0 /\ \A i \in 1..0 : FALSE
  OBVIOUS
<1>4. InboxFits(Empty, <<>>) /\ GrantedFits(Empty, <<>>) /\ SentFits(Empty, <<>>)
  BY <1>2, <1>3 DEF InboxFits, GrantedFits, SentFits
<1>5. HaltedFits(Empty, <<>>)
  <2>1. \A scope : ~Shut(<<>>, Len(<<>>) + 1, scope)
    BY <1>3 DEF Shut
  <2> QED BY <1>2, <2>1 DEF HaltedFits
<1> QED BY <1>2, <1>4, <1>5 DEF Fits

Prefix(n) == [i \in 1..n |-> ledger[i]]
IsFold(f, n) == f = [k \in 0..n |-> IF k = 0 THEN Empty ELSE absorb(f[k - 1], ledger[k])]

LEMMA PrefixGrows ==
  ASSUME HistoryOK(ledger), NEW n \in 1..Len(ledger)
  PROVE  /\ HistoryOK(Prefix(n - 1)) /\ HistoryOK(Prefix(n)) /\ ledger[n] \in Line
         /\ Prefix(n) = Append(Prefix(n - 1), ledger[n])
<1>0. ledger \in Seq(Line) /\ Len(ledger) \in Nat
  BY DEF HistoryOK
<1>1. ASSUME NEW m \in 0..Len(ledger)
      PROVE  HistoryOK(Prefix(m)) /\ Prefix(m) \in Seq(Line) /\ Len(Prefix(m)) = m
             /\ \A i \in 1..m : Prefix(m)[i] = ledger[i]
  <2>1. \A i \in 1..m : i \in 1..Len(ledger) /\ ledger[i] \in Line
    BY <1>0, <1>1
  <2>2. Prefix(m) \in Seq(Line) /\ Len(Prefix(m)) = m
    BY <1>0, <1>1, <2>1 DEF Prefix
  <2>3. \A i \in 1..m : Prefix(m)[i] = ledger[i]
    BY DEF Prefix
  <2>4. ASSUME NEW i \in 1..m, ledger[i].kind = "approval_requested"
        PROVE  \E j \in 1..i - 1 : Starts(Prefix(m)[j], ledger[i].run)
    <3>1. PICK j \in 1..i - 1 : Starts(ledger[j], ledger[i].run)
      BY <2>1, <2>4 DEF HistoryOK
    <3>2. j \in 1..m
      BY <1>0, <1>1, <2>4
    <3> QED BY <2>3, <3>1, <3>2
  <2> QED BY <2>1, <2>2, <2>3, <2>4 DEF HistoryOK
<1>2. n \in 0..Len(ledger) /\ n - 1 \in 0..Len(ledger) /\ ledger[n] \in Line
  BY <1>0
<1>3. Prefix(n) = Append(Prefix(n - 1), ledger[n])
  <2> DEFINE p == Prefix(n - 1)
             q == Prefix(n)
  <2>1. /\ p \in Seq(Line) /\ Len(p) = n - 1 /\ \A i \in 1..n - 1 : p[i] = ledger[i]
        /\ q \in Seq(Line) /\ Len(q) = n /\ \A i \in 1..n : q[i] = ledger[i]
    BY <1>1, <1>2
  <2> HIDE DEF p, q
  <2>2. /\ Append(p, ledger[n]) \in Seq(Line) /\ Len(Append(p, ledger[n])) = n
        /\ Append(p, ledger[n])[n] = ledger[n]
        /\ \A i \in 1..n - 1 : Append(p, ledger[n])[i] = p[i]
    <3>1. /\ Append(p, ledger[n]) \in Seq(Line) /\ Len(Append(p, ledger[n])) = Len(p) + 1
          /\ Append(p, ledger[n])[Len(p) + 1] = ledger[n]
          /\ \A i \in 1..Len(p) : Append(p, ledger[n])[i] = p[i]
      BY <1>2, <2>1, Appended
    <3>2. Len(p) + 1 = n
      BY <2>1
    <3> QED BY <2>1, <3>1, <3>2
  <2>3. \A i \in 1..Len(q) : q[i] = Append(p, ledger[n])[i]
    <3> TAKE i \in 1..Len(q)
    <3>1. i = n \/ i \in 1..n - 1
      BY <2>1
    <3> QED BY <2>1, <2>2, <3>1
  <2>4. q = Append(p, ledger[n])
    BY <2>1, <2>2, <2>3, SeqEqual
  <2> QED BY <2>4 DEF p, q
<1> QED BY <1>1, <1>2, <1>3

LEMMA FoldExists ==
  ASSUME Len(ledger) \in Nat
  PROVE  \A n \in 0..Len(ledger) : \E f : IsFold(f, n)
<1> DEFINE Bad == {n \in 0..Len(ledger) : ~\E f : IsFold(f, n)}
<1>1. SUFFICES ASSUME Bad # {} PROVE FALSE
  OBVIOUS
<1>2. PICK n \in Bad : \A m \in Bad : n <= m
  <2>1. Bad \in SUBSET Nat
    OBVIOUS
  <2> HIDE DEF Bad
  <2> QED BY <1>1, <2>1, SmallestExists
<1>3. CASE n = 0
  <2>1. IsFold([k \in 0..0 |-> Empty], 0)
    BY DEF IsFold
  <2> QED BY <1>2, <1>3, <2>1
<1>4. CASE n # 0
  <2>1. n \in Nat /\ n >= 1 /\ n - 1 \in 0..Len(ledger) /\ n - 1 \notin Bad
    BY <1>2, <1>4
  <2>2. PICK f : IsFold(f, n - 1)
    BY <2>1
  <2> DEFINE h == [k \in 0..n |-> IF k = n THEN absorb(f[n - 1], ledger[n]) ELSE f[k]]
  <2>3. \A k \in 0..n - 1 : f[k] = IF k = 0 THEN Empty ELSE absorb(f[k - 1], ledger[k])
    BY <2>2 DEF IsFold
  <2>4. \A k \in 0..n : k = n \/ k \in 0..n - 1
    BY <2>1
  <2>5. \A k \in 0..n : k # 0 => k - 1 \in 0..n /\ k - 1 # n
    BY <2>1
  <2>6. \A k \in 0..n : k # 0 => h[k - 1] = f[k - 1]
    BY <2>5
  <2>7. \A k \in 0..n : h[k] = IF k = 0 THEN Empty ELSE absorb(h[k - 1], ledger[k])
    <3> TAKE k \in 0..n
    <3>1. CASE k = n
      <4>1. h[k] = absorb(f[k - 1], ledger[k])
        BY <3>1
      <4> HIDE DEF h
      <4> QED BY <1>4, <2>6, <3>1, <4>1
    <3>2. CASE k # n
      <4>1. h[k] = f[k] /\ k \in 0..n - 1
        BY <2>4, <3>2
      <4> HIDE DEF h
      <4> QED BY <2>3, <2>6, <4>1
    <3> QED BY <3>1, <3>2
  <2>8. h = [k \in 0..n |-> h[k]]
    OBVIOUS
  <2> HIDE DEF h
  <2>9. IsFold(h, n)
    BY <2>7, <2>8 DEF IsFold
  <2> QED BY <1>2, <2>9
<1> QED BY <1>3, <1>4

(* What a worker that opens the history holds fits it.                       *)
LEMMA StandingFits ==
  ASSUME HistoryOK(ledger)
  PROVE  Fits(Standing, ledger)
<1>0. ledger \in Seq(Line) /\ Len(ledger) \in Nat
  BY DEF HistoryOK
<1> DEFINE f == CHOOSE h : IsFold(h, Len(ledger))
<1>1. IsFold(f, Len(ledger))
  <2>1. \E h : IsFold(h, Len(ledger))
    BY <1>0, FoldExists
  <2> QED BY <2>1
<1>2. Standing = f[Len(ledger)]
  BY DEF Standing, IsFold
<1> HIDE DEF f
<1>3. \A n \in 0..Len(ledger) : f[n] = IF n = 0 THEN Empty ELSE absorb(f[n - 1], ledger[n])
  BY <1>1 DEF IsFold
<1> DEFINE Bad == {n \in 0..Len(ledger) : ~Fits(f[n], Prefix(n))}
<1>4. Bad = {}
  <2>1. SUFFICES ASSUME Bad # {} PROVE FALSE
    OBVIOUS
  <2>2. PICK n \in Bad : \A m \in Bad : n <= m
    <3>1. Bad \in SUBSET Nat
      OBVIOUS
    <3> HIDE DEF Bad
    <3> QED BY <2>1, <3>1, SmallestExists
  <2>3. CASE n = 0
    <3>1. Prefix(0) = <<>> /\ f[0] = Empty
      BY <1>0, <1>3 DEF Prefix
    <3> QED BY <2>2, <2>3, <3>1, EmptyFits
  <2>4. CASE n # 0
    <3>1. n \in 1..Len(ledger) /\ n - 1 \in 0..Len(ledger) /\ n - 1 \notin Bad
      BY <1>0, <2>2, <2>4
    <3>2. Fits(f[n - 1], Prefix(n - 1))
      BY <3>1
    <3>3. /\ HistoryOK(Prefix(n - 1)) /\ HistoryOK(Append(Prefix(n - 1), ledger[n]))
          /\ ledger[n] \in Line /\ Prefix(n) = Append(Prefix(n - 1), ledger[n])
      BY <3>1, PrefixGrows
    <3>4. f[n] = absorb(f[n - 1], ledger[n])
      BY <1>3, <2>2, <2>4
    <3>5. Fits(absorb(f[n - 1], ledger[n]), Append(Prefix(n - 1), ledger[n]))
      BY <3>2, <3>3, AbsorbFits
    <3> QED BY <2>2, <3>3, <3>4, <3>5
  <2> QED BY <2>3, <2>4
<1>5. Fits(f[Len(ledger)], Prefix(Len(ledger)))
  BY <1>0, <1>4
<1>6. Prefix(Len(ledger)) = ledger
  BY <1>0 DEF Prefix
<1> QED BY <1>2, <1>5, <1>6
-----------------------------------------------------------------------------
(* What a step that adds no line, or one line, does to the history.          *)

Extends(s, u) ==
  Len(s) \in Nat /\ Len(u) \in Nat /\ Len(s) <= Len(u) /\ \A i \in 1..Len(s) : u[i] = s[i]

LEMMA ExtendsSame ==
  ASSUME NEW s \in Seq(Line)
  PROVE  Extends(s, s)
BY DEF Extends

LEMMA ExtendsAppend ==
  ASSUME NEW s \in Seq(Line), NEW l \in Line
  PROVE  Extends(s, Append(s, l))
BY Appended DEF Extends

LEMMA FrameKept ==
  ASSUME NEW s, NEW u, Extends(s, u), NEW f, NEW c \in Nat, NEW d \in Nat, c <= d,
         f.t \in Nat, FrameOK(f, s, c)
  PROVE  FrameOK(f, u, d)
<1>1. \A i \in 1..Len(s) : i \in 1..Len(u) /\ u[i] = s[i]
  BY DEF Extends
<1>2. f.t <= d
  BY DEF FrameOK
<1>3. ASSUME NEW i \in 1..Len(s), Starts(s[i], f.run)
      PROVE  \E j \in 1..Len(u) : Starts(u[j], f.run)
  BY <1>1, <1>3
<1>4. ASSUME NEW x, NEW i \in 1..Len(s), Allows(s[i], x)
      PROVE  \E j \in 1..Len(u) : Allows(u[j], x)
  BY <1>1, <1>4
<1> QED BY <1>2, <1>3, <1>4 DEF FrameOK

LEMMA HistoryAfter ==
  ASSUME NEW s, HistoryOK(s), NEW l \in Line,
         l.kind = "run_started" => \A i \in 1..Len(s) : ~Starts(s[i], l.run),
         l.kind = "approval_requested" => \E i \in 1..Len(s) : Starts(s[i], l.run)
  PROVE  HistoryOK(Append(s, l))
<1> DEFINE u == Append(s, l)
<1>0. s \in Seq(Line)
  BY DEF HistoryOK
<1>1. /\ u \in Seq(Line) /\ Len(s) \in Nat /\ Len(u) = Len(s) + 1 /\ u[Len(s) + 1] = l
      /\ \A i \in 1..Len(s) : u[i] = s[i]
  BY <1>0, Appended
<1> HIDE DEF u
<1>2. \A i \in 1..Len(u) : i = Len(s) + 1 \/ i \in 1..Len(s)
  BY <1>1
<1>3. ASSUME NEW i \in 1..Len(u), NEW j \in 1..Len(u), u[i].kind = "run_started",
             u[j].kind = "run_started", u[i].run = u[j].run
      PROVE  i = j
  <2>1. CASE i \in 1..Len(s) /\ j \in 1..Len(s)
    BY <1>1, <1>3, <2>1 DEF HistoryOK
  <2>2. CASE i = Len(s) + 1 /\ j \in 1..Len(s)
    BY <1>1, <1>3, <2>2 DEF Starts
  <2>3. CASE j = Len(s) + 1 /\ i \in 1..Len(s)
    BY <1>1, <1>3, <2>3 DEF Starts
  <2> QED BY <1>2, <2>1, <2>2, <2>3
<1>4. ASSUME NEW i \in 1..Len(u), u[i].kind = "approval_requested"
      PROVE  \E j \in 1..i - 1 : Starts(u[j], u[i].run)
  <2>1. CASE i \in 1..Len(s)
    <3>1. PICK j \in 1..i - 1 : Starts(s[j], s[i].run)
      BY <1>1, <1>4, <2>1 DEF HistoryOK
    <3>2. j \in 1..Len(s)
      BY <1>1, <2>1
    <3> QED BY <1>1, <2>1, <3>1, <3>2
  <2>2. CASE i = Len(s) + 1
    <3>1. PICK j \in 1..Len(s) : Starts(s[j], l.run)
      BY <1>1, <1>4, <2>2
    <3>2. j \in 1..i - 1
      BY <1>1, <2>2
    <3> QED BY <1>1, <2>2, <3>1, <3>2
  <2> QED BY <1>2, <2>1, <2>2
<1> QED BY <1>1, <1>3, <1>4 DEF HistoryOK, u

(* No line: the runs and the works may only grow.                            *)
LEMMA StartedRun ==
  ASSUME NEW l \in StartedLine
  PROVE  l.run \in Nat
<1>1. l.run \in Runs
  BY DEF StartedLine
<1> QED BY <1>1 DEF Runs

LEMMA LedgerSame ==
  ASSUME IndInv, ledger' = ledger, Fits(gov', ledger), minted' \in Nat, minted <= minted',
         Len(level') \in Nat, Len(level) <= Len(level'),
         \A c \in acted' : \E i \in 1..Len(ledger) : Allows(ledger[i], c)
  PROVE  LedgerInv'
<1>1. /\ HistoryOK(ledger) /\ LinesOK /\ AskedOK /\ ShutOK /\ minted \in Nat /\ Len(level) \in Nat
      /\ \A i \in 1..Len(ledger) : ledger[i] \in Line
  BY UseAssumption DEF IndInv, LedgerInv, Tallies, HistoryOK
<1>2. LinesOK'
  <2>1. ASSUME NEW i \in 1..Len(ledger), ledger[i].kind = "run_started"
        PROVE  ledger[i].work \in 1..Len(level') /\ ledger[i].run <= minted'
    <3>1. ledger[i] \in StartedLine
      BY <1>1, <2>1, LineKinds
    <3>2. ledger[i].run \in Nat
      BY <3>1, StartedRun
    <3> QED BY <1>1, <2>1, <3>2 DEF LinesOK
  <2> QED BY <2>1 DEF LinesOK
<1>3. ActedOK' /\ AskedOK' /\ ShutOK'
  BY <1>1 DEF ActedOK, AskedOK, ShutOK
<1>4. HistoryOK(ledger)' /\ Fits(gov, ledger)'
  BY <1>1
<1> QED BY <1>2, <1>3, <1>4 DEF LedgerInv

(* One line.                                                                 *)
LEMMA LedgerGrows ==
  ASSUME IndInv, NEW l \in Line, ledger' = Append(ledger, l), Fits(gov', ledger'),
         minted' \in Nat, minted <= minted', Len(level') = Len(level), acted' = acted,
         l.kind = "run_started" =>
           /\ \A i \in 1..Len(ledger) : ~Starts(ledger[i], l.run)
           /\ Admits(ledger, Len(ledger) + 1, l)
           /\ l.work \in 1..Len(level) /\ l.run <= minted,
         l.kind = "approval_requested" => \E i \in 1..Len(ledger) : Starts(ledger[i], l.run),
         l.kind = "approval_resolved" =>
           \E j \in 1..Len(ledger) :
             /\ ledger[j].kind = "approval_requested"
             /\ ledger[j].item.id = l.id /\ ledger[j].item.cluster = l.cluster
             /\ \A k \in j + 1 .. Len(ledger) : ~Answers(ledger[k], l.id)
  PROVE  LedgerInv'
<1>1. /\ HistoryOK(ledger) /\ LinesOK /\ AskedOK /\ ShutOK /\ ActedOK /\ minted \in Nat
      /\ ledger \in Seq(Line) /\ \A i \in 1..Len(ledger) : ledger[i] \in Line
  BY UseAssumption DEF IndInv, LedgerInv, Tallies, HistoryOK
<1>2. /\ Len(ledger) \in Nat /\ Len(ledger') = Len(ledger) + 1 /\ ledger'[Len(ledger) + 1] = l
      /\ \A i \in 1..Len(ledger) : ledger'[i] = ledger[i]
  BY <1>1, Appended
<1>3. \A i \in 1..Len(ledger') : i = Len(ledger) + 1 \/ i \in 1..Len(ledger)
  BY <1>2
<1>4. HistoryOK(ledger')
  BY <1>1, HistoryAfter
<1>5. LinesOK'
  <2>1. ASSUME NEW i \in 1..Len(ledger'), ledger'[i].kind = "run_started"
        PROVE  ledger'[i].work \in 1..Len(level') /\ ledger'[i].run <= minted'
    <3>1. ledger'[i] \in StartedLine
      BY <1>1, <1>2, <1>3, <2>1, LineKinds
    <3>2. ledger'[i].run \in Nat
      BY <3>1, StartedRun
    <3>3. ledger'[i].run <= minted /\ ledger'[i].work \in 1..Len(level)
      <4>1. CASE i = Len(ledger) + 1
        BY <1>2, <2>1, <4>1
      <4>2. CASE i \in 1..Len(ledger)
        BY <1>1, <1>2, <2>1, <4>2 DEF LinesOK
      <4> QED BY <1>3, <4>1, <4>2
    <3> QED BY <1>1, <3>2, <3>3
  <2> QED BY <2>1 DEF LinesOK
<1>6. ActedOK'
  <2>1. ASSUME NEW c \in acted
        PROVE  \E i \in 1..Len(ledger') : Allows(ledger'[i], c)
    <3>1. PICK i \in 1..Len(ledger) : Allows(ledger[i], c)
      BY <1>1 DEF ActedOK
    <3>2. i \in 1..Len(ledger') /\ ledger'[i] = ledger[i]
      BY <1>2
    <3> QED BY <3>1, <3>2
  <2> QED BY <2>1 DEF ActedOK
<1>7. AskedOK'
  <2>1. ASSUME NEW i \in 1..Len(ledger'), ledger'[i].kind = "approval_resolved"
        PROVE  \E j \in 1..i - 1 :
                 /\ ledger'[j].kind = "approval_requested"
                 /\ ledger'[j].item.id = ledger'[i].id /\ ledger'[j].item.cluster = ledger'[i].cluster
                 /\ \A k \in j + 1 .. i - 1 : ~Answers(ledger'[k], ledger'[i].id)
    <3>1. CASE i \in 1..Len(ledger)
      <4>1. PICK j \in 1..i - 1 :
              /\ ledger[j].kind = "approval_requested"
              /\ ledger[j].item.id = ledger[i].id /\ ledger[j].item.cluster = ledger[i].cluster
              /\ \A k \in j + 1 .. i - 1 : ~Answers(ledger[k], ledger[i].id)
        BY <1>1, <1>2, <2>1, <3>1 DEF AskedOK
      <4>2. ledger'[i] = ledger[i] /\ ledger'[j] = ledger[j]
            /\ \A k \in j + 1 .. i - 1 : ledger'[k] = ledger[k]
        BY <1>2, <3>1
      <4> QED BY <4>1, <4>2
    <3>2. CASE i = Len(ledger) + 1
      <4>1. ledger'[i] = l /\ i - 1 = Len(ledger)
        BY <1>2, <3>2
      <4>2. PICK j \in 1..Len(ledger) :
              /\ ledger[j].kind = "approval_requested"
              /\ ledger[j].item.id = l.id /\ ledger[j].item.cluster = l.cluster
              /\ \A k \in j + 1 .. Len(ledger) : ~Answers(ledger[k], l.id)
        BY <2>1, <4>1
      <4>3. ledger'[j] = ledger[j] /\ \A k \in j + 1 .. Len(ledger) : ledger'[k] = ledger[k]
        BY <1>2
      <4> QED BY <4>1, <4>2, <4>3
    <3> QED BY <1>3, <3>1, <3>2
  <2> QED BY <2>1 DEF AskedOK
<1>8. ShutOK'
  <2>1. ASSUME NEW i \in 1..Len(ledger'), ledger'[i].kind = "run_started"
        PROVE  Admits(ledger', i, ledger'[i])
    <3>1. \A scope : Shut(ledger', i, scope) <=> Shut(ledger, i, scope)
      <4>1. i \in 1..Len(ledger) + 1
        BY <1>2
      <4> QED BY <1>1, <4>1, ShutAfter
    <3>2. CASE i \in 1..Len(ledger)
      BY <1>1, <1>2, <2>1, <3>1, <3>2 DEF ShutOK, Admits
    <3>3. CASE i = Len(ledger) + 1
      BY <1>2, <2>1, <3>1, <3>3 DEF Admits
    <3> QED BY <1>3, <3>2, <3>3
  <2> QED BY <2>1 DEF ShutOK
<1>9. HistoryOK(ledger)' /\ Fits(gov, ledger)'
  BY <1>4
<1> QED BY <1>5, <1>6, <1>7, <1>8, <1>9 DEF LedgerInv
-----------------------------------------------------------------------------
(* What a step does to the dispatches under way.                             *)

(* The innermost dispatch, and what is known of the others.                  *)
LEMMA TopIs ==
  ASSUME IndInv, stack # <<>>
  PROVE  /\ Len(stack) \in Nat /\ Len(stack) >= 1 /\ Top = stack[Len(stack)] /\ Top \in Frames
         /\ FrameOK(Top, ledger, clock) /\ StandingOK(Top, gov, ledger)
         /\ Top.work \in 1..Len(level) /\ Top.run <= minted
         /\ \A i \in 1..Len(stack) - 1 :
              stack[i] \in Frames /\ stack[i].pc = "handing" /\ stack[i].raised = <<>>
<1>1. stack \in Seq(Frames) /\ Len(stack) \in Nat /\ Len(stack) >= 1
  BY EmptySeq DEF IndInv, StackInv, StackOK
<1>2. Top = stack[Len(stack)] /\ Len(stack) \in 1..Len(stack)
  BY <1>1 DEF Top, Last
<1>3. ASSUME NEW i \in 1..Len(stack) - 1
      PROVE  stack[i] \in Frames /\ stack[i].pc = "handing" /\ stack[i].raised = <<>>
  <2>1. i \in 1..Len(stack) /\ i < Len(stack)
    BY <1>1
  <2> QED BY <1>1, <2>1 DEF IndInv, StackInv, StackOK, FramesOK, FrameOK
<1>4. Top \in Frames
  BY <1>1, <1>2
<1> QED BY <1>1, <1>2, <1>3, <1>4 DEF IndInv, StackInv, StackOK, FramesOK

(* Everything a step may raise or take a tree for is with the innermost      *)
(* dispatch.                                                                 *)
LEMMA OnlyTheTop ==
  ASSUME IndInv, stack # <<>>
  PROVE  /\ happened = {} => \A item \in refused :
              (\E i \in 1..Len(ledger) : Files(ledger[i], item)) \/ Raises(Top, item)
         /\ Top.run \in trees => Top.pc \in Out
<1>1. /\ Len(stack) \in Nat /\ Top = stack[Len(stack)]
      /\ \A i \in 1..Len(stack) - 1 : stack[i].pc = "handing" /\ stack[i].raised = <<>>
  BY TopIs
<1>2. \A i \in 1..Len(stack) : i = Len(stack) \/ i \in 1..Len(stack) - 1
  BY <1>1
<1>3. \A f, item : f.raised = <<>> => ~Raises(f, item)
  BY DEF Raises
<1>4. ASSUME NEW i \in 1..Len(stack), NEW item, Raises(stack[i], item)
      PROVE  Raises(Top, item)
  BY <1>1, <1>2, <1>3, <1>4
<1>5. Len(stack) \in 1..Len(stack)
  BY TopIs
<1> QED BY <1>1, <1>4, <1>5 DEF IndInv, StackInv, FilingOK, TreesOK

LEMMA StraysAreFew ==
  ASSUME IndInv
  PROVE  IsFiniteSet(Strays) /\ Cardinality(Strays) \in Nat
<1>1. trees \subseteq 1..minted /\ minted \in Int
  BY UseAssumption DEF IndInv, Tallies
<1>2. Strays \subseteq trees
  BY DEF Strays
<1> HIDE DEF Strays
<1>3. IsFiniteSet(1..minted) /\ Strays \subseteq 1..minted
  BY <1>1, <1>2, FS_Interval
<1>4. IsFiniteSet(Strays)
  BY <1>3, FS_Subset
<1> QED BY <1>4, FS_CardinalityType

LEMMA FewFaults == IsFiniteSet(FaultKinds)
<1>1. FaultKinds = ((({} \cup {"crash"}) \cup {"files"}) \cup {"run_line"}) \cup {"desk_line"}
  BY DEF FaultKinds
<1> QED BY <1>1, FS_EmptySet, FS_AddElement

(* A step that leaves no more trees behind, or that is a fault leaving one.  *)
LEMMA FewStrays ==
  ASSUME IndInv, NEW S,
         happened' = happened \/ \E x \in Faults \ happened : happened' = happened \cup {x},
         \/ S \subseteq Strays
         \/ /\ \E r : S \subseteq Strays \cup {r}
            /\ \E x \in Faults \ happened : x # "run_line" /\ happened' = happened \cup {x}
  PROVE  Cardinality(S) <= Cardinality(happened' \ {"run_line"})
<1> DEFINE H == happened \ {"run_line"}
           K == happened' \ {"run_line"}
<1>1. IsFiniteSet(Faults)
  BY FewFaults, FS_Subset, UseAssumption
<1>2. happened \subseteq Faults /\ happened' \subseteq Faults
  BY DEF IndInv, Tallies
<1>3. IsFiniteSet(H) /\ IsFiniteSet(K) /\ Cardinality(H) \in Nat /\ Cardinality(K) \in Nat
  <2>1. H \subseteq Faults /\ K \subseteq Faults
    BY <1>2
  <2> QED BY <1>1, <2>1, FS_Subset, FS_CardinalityType
<1>4. IsFiniteSet(Strays) /\ Cardinality(Strays) \in Nat
  BY StraysAreFew
<1>5. Cardinality(Strays) <= Cardinality(H)
  BY DEF IndInv, StackInv, TreesOK
<1>6. CASE S \subseteq Strays
  <2>1. Cardinality(S) <= Cardinality(Strays) /\ Cardinality(S) \in Nat
    BY <1>4, <1>6, FS_Subset, FS_CardinalityType
  <2>2. H \subseteq K
    OBVIOUS
  <2>3. Cardinality(H) <= Cardinality(K)
    BY <1>3, <2>2, FS_Subset
  <2> HIDE DEF H, K
  <2>4. Cardinality(S) <= Cardinality(K)
    BY <1>3, <1>4, <1>5, <2>1, <2>3
  <2> QED BY <2>4 DEF K
<1>7. CASE /\ \E r : S \subseteq Strays \cup {r}
           /\ \E x \in Faults \ happened : x # "run_line" /\ happened' = happened \cup {x}
  <2>1. PICK r : S \subseteq Strays \cup {r}
    BY <1>7
  <2>2. PICK x \in Faults \ happened : x # "run_line" /\ happened' = happened \cup {x}
    BY <1>7
  <2>3. K = H \cup {x} /\ x \notin H
    BY <2>2
  <2>4. Cardinality(K) = Cardinality(H) + 1
    BY <1>3, <2>3, FS_AddElement
  <2>5. IsFiniteSet(Strays \cup {r}) /\ Cardinality(Strays \cup {r}) <= Cardinality(Strays) + 1
    BY <1>4, FS_AddElement
  <2>6. /\ Cardinality(S) <= Cardinality(Strays \cup {r}) /\ Cardinality(S) \in Nat
        /\ Cardinality(Strays \cup {r}) \in Nat
    BY <2>1, <2>5, FS_Subset, FS_CardinalityType
  <2> HIDE DEF H, K
  <2>7. Cardinality(S) <= Cardinality(K)
    BY <1>3, <1>4, <1>5, <2>4, <2>5, <2>6
  <2> QED BY <2>7 DEF K
<1> QED BY <1>6, <1>7

LEMMA BecomesIs ==
  ASSUME stack \in Seq(Frames), stack # <<>>, NEW f \in Frames
  PROVE  /\ Append(Front(stack), f) \in Seq(Frames) /\ Len(Append(Front(stack), f)) = Len(stack)
         /\ Append(Front(stack), f)[Len(stack)] = f
         /\ \A i \in 1..Len(stack) - 1 : Append(Front(stack), f)[i] = stack[i]
BY Replaced

LEMMA StackReplaced ==
  ASSUME IndInv, stack # <<>>, NEW f \in Frames, stack' = Append(Front(stack), f),
         f.run = Top.run, f.work = Top.work, f.parent = Top.parent,
         Extends(ledger, ledger'), clock' \in Nat, clock <= clock', Len(level') = Len(level),
         minted' = minted, FrameOK(f, ledger', clock'), StandingOK(f, gov', ledger'),
         happened' = {} =>
           /\ happened = {} /\ \A item \in refused' : item \in refused \/ Raises(f, item)
           /\ \A item : Raises(Top, item) =>
                Raises(f, item) \/ \E i \in 1..Len(ledger') : Files(ledger'[i], item),
         happened' = happened \/ \E x \in Faults \ happened : happened' = happened \cup {x},
         trees' \subseteq trees, \A r \in trees' : r # Top.run \/ f.pc \in Out
  PROVE  StackInv'
<1>0. stack \in Seq(Frames) /\ clock \in Nat
  BY DEF IndInv, StackInv, StackOK, Tallies
<1>1. /\ Len(stack) \in Nat /\ Len(stack) >= 1 /\ Top = stack[Len(stack)]
      /\ stack' \in Seq(Frames) /\ Len(stack') = Len(stack) /\ stack'[Len(stack)] = f
      /\ \A i \in 1..Len(stack) - 1 : stack'[i] = stack[i]
  <2>1. /\ Append(Front(stack), f) \in Seq(Frames) /\ Len(Append(Front(stack), f)) = Len(stack)
        /\ Append(Front(stack), f)[Len(stack)] = f
        /\ \A i \in 1..Len(stack) - 1 : Append(Front(stack), f)[i] = stack[i]
    BY <1>0, BecomesIs
  <2>2. Len(stack) \in Nat /\ Len(stack) >= 1 /\ Top = stack[Len(stack)]
    BY TopIs
  <2> QED BY <2>1, <2>2
<1>2. \A i \in 1..Len(stack') : i = Len(stack) \/ i \in 1..Len(stack) - 1
  BY <1>1
<1>3. \A i \in 1..Len(ledger) : i \in 1..Len(ledger') /\ ledger'[i] = ledger[i]
  BY DEF Extends
<1>4. StackOK'
  <2>1. ASSUME NEW i \in 1..Len(stack'), i < Len(stack')
        PROVE  stack'[i].pc = "handing" /\ stack'[i].asked # <<>> /\ stack'[i + 1].parent = stack'[i].run
    <3>1. i \in 1..Len(stack) - 1 /\ i \in 1..Len(stack) /\ i < Len(stack) /\ stack'[i] = stack[i]
      BY <1>1, <2>1
    <3>2. stack'[i + 1].parent = stack[i + 1].parent
      <4>1. CASE i + 1 = Len(stack)
        BY <1>1, <4>1
      <4>2. CASE i + 1 \in 1..Len(stack) - 1
        BY <1>1, <4>2
      <4> QED BY <1>1, <3>1, <4>1, <4>2
    <3> QED BY <3>1, <3>2 DEF IndInv, StackInv, StackOK
  <2>2. ASSUME NEW i \in 1..Len(stack')
        PROVE  stack'[i].work \in 1..Len(level') /\ stack'[i].run <= minted'
    <3>1. stack'[i].work = stack[i].work /\ stack'[i].run = stack[i].run /\ i \in 1..Len(stack)
      BY <1>1, <1>2
    <3> QED BY <3>1 DEF IndInv, StackInv, StackOK
  <2> QED BY <1>1, <2>1, <2>2 DEF StackOK
<1>5. FramesOK'
  <2>1. ASSUME NEW i \in 1..Len(stack) - 1
        PROVE  FrameOK(stack[i], ledger', clock') /\ StandingOK(stack[i], gov', ledger')
    <3>1. stack[i] \in Frames /\ stack[i].pc = "handing" /\ i \in 1..Len(stack)
      BY <1>1, TopIs
    <3>2. stack[i].t \in Nat
      BY <3>1, UseAssumption DEF Frames
    <3>3. FrameOK(stack[i], ledger, clock)
      BY <3>1 DEF IndInv, StackInv, FramesOK
    <3> QED BY <1>0, <3>1, <3>2, <3>3, FrameKept DEF StandingOK
  <2>2. \A i \in 1..Len(stack') : FrameOK(stack'[i], ledger', clock') /\ StandingOK(stack'[i], gov', ledger')
    <3> TAKE i \in 1..Len(stack')
    <3>1. CASE i = Len(stack)
      BY <1>1, <3>1
    <3>2. CASE i \in 1..Len(stack) - 1
      BY <1>1, <2>1, <3>2
    <3> QED BY <1>2, <3>1, <3>2
  <2> QED BY <2>2 DEF FramesOK
<1>6. Len(stack) \in 1..Len(stack')
  BY <1>1
<1>7. FilingOK'
  <2>1. ASSUME happened' = {}, NEW item \in refused'
        PROVE  \/ \E i \in 1..Len(ledger') : Files(ledger'[i], item)
               \/ \E n \in 1..Len(stack') : Raises(stack'[n], item)
    <3>1. CASE Raises(f, item)
      BY <1>1, <1>6, <3>1
    <3>2. CASE item \in refused
      <4>1. (\E i \in 1..Len(ledger) : Files(ledger[i], item)) \/ Raises(Top, item)
        BY <2>1, <3>2, OnlyTheTop
      <4>2. CASE Raises(Top, item)
        BY <1>1, <1>6, <2>1, <4>2
      <4>3. CASE \E i \in 1..Len(ledger) : Files(ledger[i], item)
        BY <1>3, <4>3
      <4> QED BY <4>1, <4>2, <4>3
    <3> QED BY <2>1, <3>1, <3>2
  <2> QED BY <2>1 DEF FilingOK
<1>8. TreesOK'
  <2>1. Top' = f /\ stack' # <<>>
    BY <1>1 DEF Top, Last
  <2>2. Strays' \subseteq Strays
    BY <2>1 DEF Strays
  <2>3. Cardinality(Strays') <= Cardinality(happened' \ {"run_line"})
    BY <2>2, FewStrays
  <2>4. ASSUME NEW i \in 1..Len(stack'), stack'[i].run \in trees'
        PROVE  i = Len(stack') /\ stack'[i].pc \in Out
    <3>1. CASE i = Len(stack)
      BY <1>1, <2>4, <3>1
    <3>2. CASE i \in 1..Len(stack) - 1
      <4>1. i \in 1..Len(stack) /\ i # Len(stack) /\ stack'[i] = stack[i]
        BY <1>1, <3>2
      <4> QED BY <2>4, <4>1 DEF IndInv, StackInv, TreesOK
    <3> QED BY <1>2, <3>1, <3>2
  <2> QED BY <2>3, <2>4 DEF TreesOK
<1> QED BY <1>4, <1>5, <1>7, <1>8 DEF StackInv

(* The dispatch is left, with every dispatch that was waiting for it.        *)
LEMMA StackCleared ==
  ASSUME IndInv, stack' = <<>>, Extends(ledger, ledger'), refused' = refused, trees' \subseteq trees,
         stack # <<>> /\ happened' = {} => happened = {} /\ Top.raised = <<>>,
         happened' = happened \/ \E x \in Faults \ happened : happened' = happened \cup {x},
         \/ stack = <<>> \/ Top.pc \notin Out
         \/ \E x \in Faults \ happened : x # "run_line" /\ happened' = happened \cup {x}
  PROVE  StackInv'
<1>1. Len(stack') = 0 /\ stack' \in Seq(Frames)
  OBVIOUS
<1>2. StackOK' /\ FramesOK'
  BY <1>1 DEF StackOK, FramesOK
<1>3. FilingOK'
  <2>1. ASSUME happened' = {}, NEW item \in refused
        PROVE  \E i \in 1..Len(ledger') : Files(ledger'[i], item)
    <3>1. \E i \in 1..Len(ledger) : Files(ledger[i], item)
      <4>1. CASE stack = <<>>
        <5>1. happened = {} /\ Len(stack) = 0
          BY <2>1, <4>1
        <5> QED BY <5>1 DEF IndInv, StackInv, FilingOK
      <4>2. CASE stack # <<>>
        <5>1. ~Raises(Top, item)
          BY <2>1, <4>2 DEF Raises
        <5> QED BY <2>1, <4>2, <5>1, OnlyTheTop
      <4> QED BY <4>1, <4>2
    <3>2. \A i \in 1..Len(ledger) : i \in 1..Len(ledger') /\ ledger'[i] = ledger[i]
      BY DEF Extends
    <3> QED BY <3>1, <3>2
  <2> QED BY <2>1 DEF FilingOK
<1>4. TreesOK'
  <2>1. trees \subseteq Strays \cup {Top.run}
    BY DEF Strays
  <2>2. stack = <<>> \/ Top.pc \notin Out => trees \subseteq Strays
    BY DEF Strays
  <2>3. Strays' \subseteq trees
    BY DEF Strays
  <2>4. Cardinality(Strays') <= Cardinality(happened' \ {"run_line"})
    <3>1. CASE stack = <<>> \/ Top.pc \notin Out
      <4>1. Strays' \subseteq Strays
        BY <2>2, <2>3, <3>1
      <4> QED BY <4>1, FewStrays
    <3>2. CASE \E x \in Faults \ happened : x # "run_line" /\ happened' = happened \cup {x}
      <4>1. Strays' \subseteq Strays \cup {Top.run}
        BY <2>1, <2>3
      <4>2. \E r : Strays' \subseteq Strays \cup {r}
        BY <4>1
      <4> QED BY <3>2, <4>2, FewStrays
    <3> QED BY <3>1, <3>2
  <2> QED BY <1>1, <2>4 DEF TreesOK
<1> QED BY <1>2, <1>3, <1>4 DEF StackInv

(* A run is stood up: the first, or a delegate of the innermost.             *)
LEMMA StackPushed ==
  ASSUME IndInv, NEW room \in Rooms, NEW to \in Rooms \cup {"building"}, NEW work \in 1..Len(level'),
         NEW parent \in Runs \cup {NoRun}, NEW m \in Runs, m = minted + 1, minted' = m,
         stack' = Append(stack, Frame(m, room, to, work, parent)),
         stack # <<>> => /\ Top.pc = "handing" /\ Top.asked # <<>> /\ Top.run = parent,
         Extends(ledger, ledger'), clock' = clock, refused' = refused, happened' = happened,
         Len(level') \in Nat, Len(level) <= Len(level'),
         Agreed(gov', to, room), m \in DOMAIN gov'.sent, gov'.sent[m] = work,
         \A i \in 1..Len(ledger') : ~Starts(ledger'[i], m),
         trees' \subseteq trees \cup {m}
  PROVE  StackInv'
<1> DEFINE f == Frame(m, room, to, work, parent)
<1>0. stack \in Seq(Frames) /\ clock \in Nat /\ Len(stack) \in Nat
  BY DEF IndInv, StackInv, StackOK, Tallies
<1>1. f \in Frames /\ f.pc = "standing" /\ f.run = m /\ f.work = work /\ f.parent = parent
      /\ f.room = room /\ f.to = to /\ f.t = 0 /\ f.raised = <<>> /\ f.granted = {}
  BY UseAssumption DEF Frame, Frames
<1> HIDE DEF f
<1>2. /\ stack' \in Seq(Frames) /\ Len(stack') = Len(stack) + 1 /\ stack'[Len(stack) + 1] = f
      /\ \A i \in 1..Len(stack) : stack'[i] = stack[i]
  BY <1>0, <1>1, Appended DEF f
<1>3. FrameOK(f, ledger', clock') /\ StandingOK(f, gov', ledger')
  BY <1>0, <1>1 DEF FrameOK, StandingOK
<1>4. ASSUME NEW i \in 1..Len(stack)
      PROVE  stack[i] \in Frames /\ stack[i].pc = "handing" /\ stack[i].asked # <<>>
             /\ stack[i].raised = <<>>
  <2>1. stack # <<>> /\ (i = Len(stack) \/ i \in 1..Len(stack) - 1)
    BY <1>0
  <2>2. /\ Top = stack[Len(stack)] /\ Top \in Frames /\ FrameOK(Top, ledger, clock)
        /\ \A j \in 1..Len(stack) - 1 :
             stack[j] \in Frames /\ stack[j].pc = "handing" /\ stack[j].raised = <<>>
    BY <2>1, TopIs
  <2>3. CASE i = Len(stack)
    BY <2>1, <2>2, <2>3 DEF FrameOK
  <2>4. CASE i \in 1..Len(stack) - 1
    BY <1>0, <2>2, <2>4 DEF IndInv, StackInv, StackOK
  <2> QED BY <2>1, <2>3, <2>4
<1>5. \A i \in 1..Len(stack') : i = Len(stack) + 1 \/ i \in 1..Len(stack)
  BY <1>0, <1>2
<1>6. StackOK'
  <2>1. ASSUME NEW i \in 1..Len(stack'), i < Len(stack')
        PROVE  stack'[i].pc = "handing" /\ stack'[i].asked # <<>> /\ stack'[i + 1].parent = stack'[i].run
    <3>1. i \in 1..Len(stack) /\ stack'[i] = stack[i]
      BY <1>0, <1>2, <2>1
    <3>2. stack'[i + 1].parent = stack[i].run
      <4>1. CASE i = Len(stack)
        <5>1. stack # <<>>
          BY <1>0, <3>1
        <5> QED BY <1>1, <1>2, <4>1, <5>1, TopIs
      <4>2. CASE i < Len(stack)
        <5>1. i + 1 \in 1..Len(stack)
          BY <1>0, <3>1, <4>2
        <5> QED BY <1>2, <3>1, <4>2, <5>1 DEF IndInv, StackInv, StackOK
      <4> QED BY <1>0, <3>1, <4>1, <4>2
    <3> QED BY <1>4, <3>1, <3>2
  <2>2. ASSUME NEW i \in 1..Len(stack')
        PROVE  stack'[i].work \in 1..Len(level') /\ stack'[i].run <= minted'
    <3>0. minted \in Nat /\ minted' = minted + 1
      BY UseAssumption DEF IndInv, Tallies
    <3>1. CASE i = Len(stack) + 1
      BY <1>1, <1>2, <3>0, <3>1
    <3>2. CASE i \in 1..Len(stack)
      <4>1. /\ stack[i].work \in 1..Len(level) /\ stack[i].run <= minted /\ Len(level) \in Nat
            /\ stack[i].run \in Nat
        <5>1. stack[i].work \in 1..Len(level) /\ stack[i].run <= minted /\ Len(level) \in Nat
          BY <3>2 DEF IndInv, StackInv, StackOK, Tallies
        <5>2. stack[i].run \in Nat
          BY <1>4, <3>2 DEF Frames, Runs
        <5> QED BY <5>1, <5>2
      <4> QED BY <1>2, <3>0, <3>2, <4>1
    <3> QED BY <1>5, <3>1, <3>2
  <2> QED BY <1>2, <2>1, <2>2 DEF StackOK
<1>7. FramesOK'
  <2>1. ASSUME NEW i \in 1..Len(stack)
        PROVE  FrameOK(stack[i], ledger', clock') /\ StandingOK(stack[i], gov', ledger')
    <3>1. stack[i].t \in Nat
      BY <1>4, UseAssumption DEF Frames
    <3>2. FrameOK(stack[i], ledger, clock)
      BY DEF IndInv, StackInv, FramesOK
    <3>3. FrameOK(stack[i], ledger', clock)
      BY <1>0, <3>1, <3>2, FrameKept
    <3> QED BY <1>4, <3>3 DEF StandingOK
  <2>2. \A i \in 1..Len(stack') : FrameOK(stack'[i], ledger', clock') /\ StandingOK(stack'[i], gov', ledger')
    <3> TAKE i \in 1..Len(stack')
    <3>1. CASE i = Len(stack) + 1
      BY <1>2, <1>3, <3>1
    <3>2. CASE i \in 1..Len(stack)
      BY <1>2, <2>1, <3>2
    <3> QED BY <1>5, <3>1, <3>2
  <2> QED BY <2>2 DEF FramesOK
<1>8. FilingOK'
  <2>1. ASSUME happened = {}, NEW item \in refused
        PROVE  \E i \in 1..Len(ledger') : Files(ledger'[i], item)
    <3>1. \A n \in 1..Len(stack) : ~Raises(stack[n], item)
      BY <1>4 DEF Raises
    <3>2. PICK i \in 1..Len(ledger) : Files(ledger[i], item)
      BY <2>1, <3>1 DEF IndInv, StackInv, FilingOK
    <3>3. i \in 1..Len(ledger') /\ ledger'[i] = ledger[i]
      BY DEF Extends
    <3> QED BY <3>2, <3>3
  <2> QED BY <2>1 DEF FilingOK
<1>9. TreesOK'
  <2>1. Top' = f /\ stack' # <<>>
    BY <1>0, <1>2 DEF Top, Last
  <2>2. stack = <<>> \/ Top.pc \notin Out
    BY DEF Out
  <2>3. Strays' \subseteq Strays
    BY <1>1, <2>1, <2>2 DEF Strays, Out
  <2>4. Cardinality(Strays') <= Cardinality(happened' \ {"run_line"})
    BY <2>3, FewStrays
  <2>5. ASSUME NEW i \in 1..Len(stack'), stack'[i].run \in trees'
        PROVE  i = Len(stack') /\ stack'[i].pc \in Out
    <3>1. CASE i = Len(stack) + 1
      BY <1>1, <1>2, <3>1 DEF Out
    <3>2. CASE i \in 1..Len(stack)
      <4>1. stack'[i] = stack[i] /\ stack[i].pc \notin Out
        BY <1>2, <1>4, <3>2 DEF Out
      <4>2. stack[i].run \in Runs
        BY <1>4, <3>2 DEF Frames
      <4>3. stack[i].run # m
        <5>1. stack[i].run \in Nat
          BY <4>2 DEF Runs
        <5>2. stack[i].run <= minted
          BY <3>2 DEF IndInv, StackInv, StackOK
        <5>3. minted \in Nat
          BY UseAssumption DEF IndInv, Tallies
        <5> QED BY <5>1, <5>2, <5>3
      <4> QED BY <2>5, <3>2, <4>1, <4>3 DEF IndInv, StackInv, TreesOK
    <3> QED BY <1>5, <3>1, <3>2
  <2> QED BY <2>4, <2>5 DEF TreesOK
<1> QED BY <1>6, <1>7, <1>8, <1>9 DEF StackInv
(* The worker notes what a run it stands up was sent to do, before any line  *)
(* says so.                                                                  *)
LEMMA SentAhead ==
  ASSUME NEW g, NEW s, NEW m \in Runs, NEW w \in Nat, Fits(g, s),
         \A i \in 1..Len(s) : ~Starts(s[i], m)
  PROVE  /\ Fits([g EXCEPT !.sent = With(@, m, w)], s)
         /\ [g EXCEPT !.sent = With(@, m, w)].halted = g.halted
         /\ m \in DOMAIN [g EXCEPT !.sent = With(@, m, w)].sent
         /\ [g EXCEPT !.sent = With(@, m, w)].sent[m] = w
<1> DEFINE h == [g EXCEPT !.sent = With(@, m, w)]
           f == g.sent
<1>0. g \in Gov /\ f \in Partial(Runs, Nat)
  BY DEF Fits, Gov
<1>1. h = [g EXCEPT !.sent = With(f, m, w)]
  OBVIOUS
<1>2. /\ h.pending = g.pending /\ h.origins = g.origins /\ h.granted = g.granted
      /\ h.halted = g.halted /\ h.sent = With(f, m, w)
  BY <1>0 DEF Gov
<1> HIDE DEF h, f
<1>3. With(f, m, w) \in Partial(Runs, Nat)
  BY <1>0, WithIs
<1>4. h \in Gov
  BY <1>0, <1>1, <1>3 DEF Gov
<1>5. InboxFits(h, s) /\ GrantedFits(h, s) /\ HaltedFits(h, s)
  BY <1>2 DEF Fits, InboxFits, GrantedFits, HaltedFits
<1>6. SentFits(h, s)
  <2>1. ASSUME NEW i \in 1..Len(s), s[i].kind = "run_started"
        PROVE  s[i].run \in DOMAIN h.sent /\ h.sent[s[i].run] = s[i].work
    <3>1. s[i].run \in DOMAIN f /\ f[s[i].run] = s[i].work /\ s[i].run # m
      BY <2>1 DEF Fits, SentFits, Starts, f
    <3> QED BY <1>2, <3>1 DEF With
  <2> QED BY <2>1 DEF SentFits
<1>7. m \in DOMAIN h.sent /\ h.sent[m] = w
  BY <1>2 DEF With
<1>8. Fits(h, s)
  BY <1>4, <1>5, <1>6 DEF Fits
<1> QED BY <1>2, <1>7, <1>8 DEF h

(* The line that starts it then says nothing new.                            *)
LEMMA StartedFits ==
  ASSUME NEW g, NEW s, NEW l \in StartedLine, Fits(g, s), HistoryOK(s), HistoryOK(Append(s, l)),
         l.run \in DOMAIN g.sent, g.sent[l.run] = l.work
  PROVE  Fits(g, Append(s, l))
<1>1. l \in Line /\ l.kind = "run_started"
  BY DEF Line, StartedLine
<1>2. absorb(g, l) = [g EXCEPT !.sent = With(g.sent, l.run, l.work)]
  BY <1>1 DEF absorb
<1>3. With(g.sent, l.run, l.work) = g.sent
  <2> DEFINE f == g.sent
  <2>1. PICK D \in SUBSET Runs : f \in [D -> Nat]
    BY DEF Fits, Gov, Partial
  <2> HIDE DEF f
  <2>2. l.run \in D /\ f[l.run] = l.work
    BY <2>1 DEF f
  <2>3. With(f, l.run, l.work) = f
    BY <2>1, <2>2 DEF With
  <2> QED BY <2>3 DEF f
<1>4. absorb(g, l) = g
  <2>1. g \in Gov
    BY DEF Fits
  <2> QED BY <1>2, <1>3, <2>1 DEF Gov
<1>5. Fits(absorb(g, l), Append(s, l))
  BY <1>1, AbsorbFits
<1> QED BY <1>4, <1>5

LEMMA StandUpKeeps ==
  ASSUME IndInv, NEW g, NEW to \in Rooms \cup {"building"}, NEW work \in 1..Len(level'),
         NEW parent \in Runs \cup {NoRun}, stand_up(g, to, work, parent),
         stack # <<>> => /\ Top.pc = "handing" /\ Top.asked # <<>> /\ Top.run = parent,
         Extends(ledger, ledger'), Fits(g, ledger'),
         \A i \in 1..Len(ledger') : ledger'[i].kind = "run_started" =>
           ledger'[i].run \in Nat /\ ledger'[i].run <= minted,
         UNCHANGED <<clock, refused, happened>>, Len(level') \in Nat, Len(level) <= Len(level'),
         {"city", "building", to} \cap g.halted = {}
  PROVE  /\ StackInv' /\ Fits(gov', ledger') /\ minted' \in 0..MaxRuns /\ minted <= minted'
         /\ trees' \subseteq 1..minted' /\ opened' \subseteq Rooms
<1> DEFINE m == minted + 1
<1>0. /\ minted \in Nat /\ MaxRuns \in Nat /\ trees \subseteq 1..minted /\ opened \subseteq Rooms
  BY UseAssumption DEF IndInv, Tallies
<1>1. /\ minted < MaxRuns /\ minted' = m
      /\ trees' \subseteq trees \cup {m} /\ gov' = [g EXCEPT !.sent = With(@, m, work)]
  BY DEF stand_up, Placed
<1>2. m \in Runs /\ minted' \in 0..MaxRuns /\ minted <= minted' /\ m > minted /\ 1..minted \cup {m} = 1..m
  BY <1>0, <1>1 DEF Runs
<1>7. PICK room \in room_for(to) :
        stack' = Append(stack, Frame(m, room, to, work, parent)) /\ opened' = opened \cup {room}
  BY <1>1 DEF stand_up, Placed
<1>8. room \in Rooms /\ (to = "building" \/ room = to)
  BY <1>7 DEF room_for
<1>3. \A i \in 1..Len(ledger') : ~Starts(ledger'[i], m)
  BY <1>0, <1>2 DEF Starts
<1>4. work \in Nat
  OBVIOUS
<1> HIDE DEF m
<1>5. Fits(gov', ledger') /\ gov'.halted = g.halted /\ m \in DOMAIN gov'.sent /\ gov'.sent[m] = work
  BY <1>1, <1>2, <1>3, <1>4, SentAhead
<1>6. StackInv'
  <2>1. m = minted + 1
    BY DEF m
  <2>2. Agreed(gov', to, room)
    BY <1>5, <1>8 DEF Agreed
  <2> QED BY <1>1, <1>2, <1>3, <1>5, <1>7, <1>8, <2>1, <2>2, StackPushed
<1>9. trees' \subseteq 1..minted' /\ opened' \subseteq Rooms
  BY <1>0, <1>1, <1>2, <1>7, <1>8
<1> QED BY <1>2, <1>5, <1>6, <1>9
-----------------------------------------------------------------------------
(* Every step keeps the invariant.                                           *)

LEMMA Facts ==
  ASSUME IndInv
  PROVE  /\ HistoryOK(ledger) /\ Fits(gov, ledger) /\ ledger \in Seq(Line) /\ Len(ledger) \in Nat
         /\ Extends(ledger, ledger) /\ clock \in Nat /\ minted \in Nat /\ Len(level) \in Nat
         /\ level \in Seq(Nat) /\ minted <= MaxRuns /\ happened \subseteq Faults /\ {MaxRuns, MaxCalls} \subseteq Nat
         /\ \A i \in 1..Len(ledger) : ledger[i].kind = "run_started" =>
              /\ ledger[i].run \in Nat /\ ledger[i].run <= minted /\ ledger[i].work \in 1..Len(level)
         /\ \A c \in acted : \E i \in 1..Len(ledger) : Allows(ledger[i], c)
<1>1. HistoryOK(ledger) /\ Fits(gov, ledger) /\ ledger \in Seq(Line) /\ LinesOK /\ ActedOK
  BY DEF IndInv, LedgerInv, HistoryOK
<1>2. /\ clock \in Nat /\ minted \in Nat /\ level \in Seq(Nat) /\ minted <= MaxRuns
      /\ happened \subseteq Faults
      /\ {MaxRuns, MaxCalls} \subseteq Nat
  BY UseAssumption DEF IndInv, Tallies
<1>3. Len(ledger) \in Nat /\ Len(level) \in Nat /\ Extends(ledger, ledger)
  BY <1>1, <1>2, ExtendsSame
<1>4. ASSUME NEW i \in 1..Len(ledger), ledger[i].kind = "run_started"
      PROVE  ledger[i].run \in Nat
  <2>1. ledger[i] \in Line
    BY <1>1
  <2>2. ledger[i] \in StartedLine
    BY <1>4, <2>1, LineKinds
  <2> QED BY <2>2 DEF StartedLine, Runs
<1> QED BY <1>1, <1>2, <1>3, <1>4 DEF LinesOK, ActedOK

LEMMA DispatchStep ==
  ASSUME IndInv, NEW addr \in Rooms \cup {"building"}, dispatch(addr)
  PROVE  IndInv'
<1>1. /\ stack = <<>> /\ {"city", "building", addr} \cap gov.halted = {}
      /\ level' = Append(level, 0) /\ stand_up(gov, addr, Len(level'), NoRun)
      /\ UNCHANGED <<ledger, clock, calls, acted, refused, happened>>
  BY DEF dispatch, Idle, halted_by
<1>2. level' \in Seq(Nat) /\ Len(level') = Len(level) + 1 /\ Len(level') \in Nat
      /\ Len(level) <= Len(level') /\ Len(level') \in 1..Len(level')
  BY <1>1, Facts, Appended
<1>3. /\ StackInv' /\ Fits(gov', ledger') /\ minted' \in 0..MaxRuns /\ minted <= minted'
      /\ trees' \subseteq 1..minted' /\ opened' \subseteq Rooms
  <2>1. /\ Extends(ledger, ledger') /\ Fits(gov, ledger')
        /\ \A i \in 1..Len(ledger') : ledger'[i].kind = "run_started" =>
             ledger'[i].run \in Nat /\ ledger'[i].run <= minted
    BY <1>1, Facts
  <2> QED BY <1>1, <1>2, <2>1, StandUpKeeps
<1>4. LedgerInv'
  <2>1. Fits(gov', ledger) /\ minted' \in Nat
        /\ \A c \in acted' : \E i \in 1..Len(ledger) : Allows(ledger[i], c)
    BY <1>1, <1>3, Facts
  <2> QED BY <1>1, <1>2, <1>3, <2>1, LedgerSame
<1>5. Tallies'
  BY <1>1, <1>2, <1>3 DEF IndInv, Tallies
<1> QED BY <1>3, <1>4, <1>5 DEF IndInv

LEMMA StartStep ==
  ASSUME IndInv, start
  PROVE  IndInv'
<1> DEFINE l == [kind |-> "run_started", run |-> Top.run, work |-> Top.work, addr |-> Top.room,
                 to |-> Top.to]
           f == [Top EXCEPT !.pc = "driving", !.granted = gov.granted]
<1>1. /\ stack # <<>> /\ Top.pc = "standing" /\ ledger' = Append(ledger, l)
      /\ stack' = Append(Front(stack), f)
      /\ UNCHANGED <<gov, clock, calls, trees, acted, refused, level, minted, opened, happened>>
  BY DEF start, At, Becomes
<1>2. Top \in Frames /\ FrameOK(Top, ledger, clock) /\ StandingOK(Top, gov, ledger)
      /\ Top.work \in 1..Len(level) /\ Top.run <= minted
  BY <1>1, TopIs
<1>3. /\ l \in StartedLine /\ l.kind = "run_started" /\ l.run = Top.run /\ l.work = Top.work
      /\ l.addr = Top.room /\ l.to = Top.to /\ l \in Line
  BY <1>2 DEF StartedLine, Frames, Line
<1>4. /\ Agreed(gov, Top.to, Top.room) /\ Top.raised = <<>>
      /\ Top.run \in DOMAIN gov.sent /\ gov.sent[Top.run] = Top.work
      /\ \A i \in 1..Len(ledger) : ~Starts(ledger[i], Top.run)
  BY <1>1, <1>2 DEF StandingOK, FrameOK
<1>5. gov \in Gov /\ gov.granted \subseteq Clusters
  BY Facts DEF Fits, Gov
<1>6. /\ f \in Frames /\ f.pc = "driving" /\ f.granted = gov.granted /\ f.run = Top.run
      /\ f.work = Top.work /\ f.parent = Top.parent /\ f.raised = <<>> /\ f.t = Top.t
  BY <1>2, <1>4, <1>5 DEF Frames
<1>7. HistoryOK(ledger')
  BY <1>1, <1>3, <1>4, Facts, HistoryAfter
<1> HIDE DEF l, f
<1>8. Fits(gov', ledger')
  BY <1>1, <1>3, <1>4, <1>7, Facts, StartedFits
<1>9. Extends(ledger, ledger')
  BY <1>1, <1>3, Facts, ExtendsAppend
<1>10. \E i \in 1..Len(ledger') : Starts(ledger'[i], Top.run)
  <2>1. Len(ledger) + 1 \in 1..Len(ledger') /\ ledger'[Len(ledger) + 1] = l
    BY <1>1, <1>3, Facts, Appended
  <2> QED BY <1>3, <2>1 DEF Starts
<1>11. \A x \in gov.granted : \E i \in 1..Len(ledger') : Allows(ledger'[i], x)
  BY <1>1, <1>5, <1>8 DEF Fits, GrantedFits
<1>12. FrameOK(f, ledger', clock') /\ StandingOK(f, gov', ledger')
  BY <1>1, <1>2, <1>6, <1>10, <1>11 DEF FrameOK, StandingOK
<1>13. StackInv'
  <2>1. \A item : ~Raises(Top, item)
    BY <1>4 DEF Raises
  <2>2. \A r \in trees' : r # Top.run \/ f.pc \in Out
    BY <1>6 DEF Out
  <2> QED BY <1>1, <1>6, <1>9, <1>12, <2>1, <2>2, Facts, StackReplaced
<1>14. LedgerInv'
  <2>1. Admits(ledger, Len(ledger) + 1, l)
    <3>1. Top.room \in Scopes /\ "city" \in Scopes /\ "building" \in Scopes
      BY <1>2 DEF Frames, Scopes
    <3>2. \A s \in Scopes : s \in gov.halted <=> Shut(ledger, Len(ledger) + 1, s)
      BY Facts DEF Fits, HaltedFits
    <3> QED BY <1>3, <1>4, <3>1, <3>2 DEF Admits, Agreed
  <2>2. l.kind = "run_started" =>
          /\ \A i \in 1..Len(ledger) : ~Starts(ledger[i], l.run)
          /\ Admits(ledger, Len(ledger) + 1, l)
          /\ l.work \in 1..Len(level) /\ l.run <= minted
    BY <1>2, <1>3, <1>4, <2>1
  <2>3. l.kind # "approval_requested" /\ l.kind # "approval_resolved"
    BY <1>3
  <2>4. /\ l \in Line /\ ledger' = Append(ledger, l) /\ Fits(gov', ledger')
        /\ minted' \in Nat /\ minted <= minted' /\ Len(level') = Len(level) /\ acted' = acted
    BY <1>1, <1>3, <1>8, Facts
  <2> QED BY ONLY IndInv, <2>2, <2>3, <2>4, LedgerGrows
<1>15. Tallies'
  BY <1>1 DEF IndInv, Tallies
<1> QED BY <1>13, <1>14, <1>15 DEF IndInv
LEMMA QuietLedger ==
  ASSUME IndInv, UNCHANGED <<ledger, gov, minted, level>>,
         \A c \in acted' : \E i \in 1..Len(ledger) : Allows(ledger[i], c)
  PROVE  LedgerInv' /\ Extends(ledger, ledger')
<1>1. /\ Fits(gov', ledger) /\ minted' \in Nat /\ minted <= minted' /\ Len(level') \in Nat
      /\ Len(level) <= Len(level') /\ Extends(ledger, ledger')
  BY Facts
<1> QED BY <1>1, LedgerSame

LEMMA RaisesMore ==
  ASSUME NEW f, NEW h, f.raised \in Seq(Items), NEW x \in Items, h.raised = Append(f.raised, x)
  PROVE  /\ h.raised \in Seq(Items) /\ h.raised # <<>> /\ Raises(h, x)
         /\ \A item : Raises(f, item) => Raises(h, item)
<1> DEFINE s == f.raised
           u == h.raised
<1>1. /\ u \in Seq(Items) /\ u # <<>> /\ Len(s) \in Nat /\ Len(u) = Len(s) + 1
      /\ u[Len(s) + 1] = x /\ \A i \in 1..Len(s) : u[i] = s[i]
  <2>1. s \in Seq(Items) /\ u = Append(s, x)
    OBVIOUS
  <2> HIDE DEF s, u
  <2> QED BY <2>1, Appended
<1> HIDE DEF s, u
<1>2. Len(s) + 1 \in 1..Len(u) /\ \A i \in 1..Len(s) : i \in 1..Len(u)
  BY <1>1
<1> QED BY <1>1, <1>2 DEF Raises, s, u

LEMMA InvokeStep ==
  ASSUME IndInv, NEW call \in Calls, NEW fresh \in BOOLEAN, invoke(call, fresh)
  PROVE  IndInv'
<1> DEFINE f == [Top EXCEPT !.t = clock']
           item == [id |-> <<"item", clock'>>, cluster |-> Cluster(call)]
<1>0. /\ stack # <<>> /\ Top.pc = "driving" /\ calls < MaxCalls /\ calls' = calls + 1
      /\ (~fresh => Top.t # 0) /\ clock' = (IF fresh THEN clock + 1 ELSE clock)
      /\ UNCHANGED <<ledger, gov, trees, level, minted, opened, happened>>
  BY DEF invoke, At
<1>1. \/ /\ settled(item.cluster) /\ Becomes(Acts(call, f))
         /\ acted' = acted \cup {item.cluster} /\ refused' = refused
      \/ /\ Becomes([f EXCEPT !.raised = Append(@, item)])
         /\ refused' = refused \cup {item} /\ acted' = acted
  BY DEF invoke
<1>2. Top \in Frames /\ FrameOK(Top, ledger, clock)
  BY <1>0, TopIs
<1>3. /\ clock \in Nat /\ calls \in Nat /\ clock <= calls /\ calls < MaxCalls /\ MaxCalls \in Nat
      /\ Top.t \in Nat /\ Top.t <= clock
  BY <1>0, <1>2, UseAssumption DEF IndInv, Tallies, Frames, FrameOK
<1>4. clock' \in 1..MaxCalls /\ clock <= clock' /\ clock' <= calls' /\ calls' <= MaxCalls /\ calls' \in Nat
  BY <1>0, <1>3
<1>5. Cluster(call) \in Clusters
  BY <1>2 DEF Cluster, Clusters, Frames
<1>6. item \in Items /\ item.cluster = Cluster(call)
  BY <1>4, <1>5 DEF Items, Ids
<1>7. /\ f \in Frames /\ f.pc = "driving" /\ f.run = Top.run /\ f.work = Top.work
      /\ f.parent = Top.parent /\ f.granted = Top.granted /\ f.raised = Top.raised /\ f.t = clock'
  <2>1. clock' \in 0..MaxCalls
    BY <1>4
  <2>2. f \in Frames
    BY <1>2, <2>1 DEF Frames
  <2>3. /\ f.run = Top.run /\ f.work = Top.work /\ f.pc = Top.pc
        /\ f.parent = Top.parent /\ f.granted = Top.granted /\ f.raised = Top.raised
        /\ f.t = clock'
    BY <1>2 DEF Frames
  <2> HIDE DEF f
  <2> QED BY <1>0, <2>2, <2>3
<1>8. f.raised \in Seq(Items) /\ f.asked \in Seq(Rooms)
  BY <1>7 DEF Frames
<1>9. \E i \in 1..Len(ledger) : Starts(ledger[i], Top.run)
  BY <1>0, <1>2 DEF FrameOK
<1> HIDE DEF f, item
<1>10. ASSUME NEW h \in Frames, h.pc = "driving", h.run = Top.run, h.work = Top.work,
              h.parent = Top.parent, h.granted = Top.granted, h.t = clock',
              stack' = Append(Front(stack), h),
              \A x : Raises(Top, x) => Raises(h, x),
              \A x \in refused' : x \in refused \/ Raises(h, x),
              refused' \subseteq Items, acted' \subseteq Clusters,
              \A c \in acted' : \E i \in 1..Len(ledger) : Allows(ledger[i], c)
       PROVE  IndInv'
  <2>1. FrameOK(h, ledger', clock') /\ StandingOK(h, gov', ledger')
    BY <1>0, <1>2, <1>4, <1>9, <1>10 DEF FrameOK, StandingOK
  <2>2. LedgerInv' /\ Extends(ledger, ledger')
    BY <1>0, <1>10, QuietLedger
  <2>3. \A r \in trees' : r # Top.run \/ h.pc \in Out
    BY <1>10 DEF Out
  <2>4. clock' \in Nat /\ clock <= clock' /\ Len(level') = Len(level) /\ minted' = minted
        /\ trees' \subseteq trees /\ happened' = happened
    BY <1>0, <1>4
  <2>5. StackInv'
    BY <1>0, <1>10, <2>1, <2>2, <2>3, <2>4, StackReplaced
  <2>6. Tallies'
    BY <1>0, <1>4, <1>10 DEF IndInv, Tallies
  <2> QED BY <2>2, <2>5, <2>6 DEF IndInv
<1>11. CASE /\ settled(item.cluster) /\ Becomes(Acts(call, f))
            /\ acted' = acted \cup {item.cluster} /\ refused' = refused
  <2> DEFINE h == Acts(call, f)
  <2>1. /\ h \in Frames /\ h.pc = "driving" /\ h.run = Top.run /\ h.work = Top.work
        /\ h.parent = Top.parent /\ h.granted = Top.granted /\ h.t = clock' /\ h.raised = Top.raised
    <3>1. CASE call.tool = "delegate" /\ f.parent = NoRun
      <4>1. call.room \in Rooms
        BY <3>1 DEF Calls
      <4>2. Append(f.asked, call.room) \in Seq(Rooms)
        BY <1>8, <4>1
      <4>3. h = [f EXCEPT !.asked = Append(f.asked, call.room)]
        BY <3>1 DEF Acts
      <4> QED BY <1>7, <4>2, <4>3 DEF Frames
    <3>2. CASE ~(call.tool = "delegate" /\ f.parent = NoRun)
      BY <1>7, <3>2 DEF Acts
    <3> QED BY <3>1, <3>2
  <2>2. stack' = Append(Front(stack), h)
    BY <1>11 DEF Becomes
  <2> HIDE DEF h
  <2>3. \A x : Raises(Top, x) => Raises(h, x)
    BY <2>1 DEF Raises
  <2>4. \E i \in 1..Len(ledger) : Allows(ledger[i], item.cluster)
    BY <1>2, <1>11 DEF settled, FrameOK
  <2>5. acted' \subseteq Clusters /\ refused' \subseteq Items
    BY <1>5, <1>6, <1>11 DEF IndInv, Tallies
  <2>6. \A c \in acted' : \E i \in 1..Len(ledger) : Allows(ledger[i], c)
    BY <1>11, <2>4, Facts
  <2> QED BY <1>10, <1>11, <2>1, <2>2, <2>3, <2>5, <2>6
<1>12. CASE /\ Becomes([f EXCEPT !.raised = Append(@, item)])
            /\ refused' = refused \cup {item} /\ acted' = acted
  <2> DEFINE h == [f EXCEPT !.raised = Append(f.raised, item)]
  <2>1. Append(f.raised, item) \in Seq(Items)
    BY <1>6, <1>8
  <2>2. /\ h \in Frames /\ h.pc = "driving" /\ h.run = Top.run /\ h.work = Top.work
        /\ h.parent = Top.parent /\ h.granted = Top.granted /\ h.t = clock'
        /\ h.raised = Append(f.raised, item)
    BY <1>7, <2>1 DEF Frames
  <2>3. stack' = Append(Front(stack), h)
    BY <1>12 DEF Becomes
  <2> HIDE DEF h
  <2>4. Raises(h, item) /\ \A x : Raises(f, x) => Raises(h, x)
    BY <1>6, <1>8, <2>2, RaisesMore
  <2>5. \A x : Raises(Top, x) => Raises(f, x)
    BY <1>7 DEF Raises
  <2>6. acted' \subseteq Clusters /\ refused' \subseteq Items
    BY <1>6, <1>12 DEF IndInv, Tallies
  <2>7. \A c \in acted' : \E i \in 1..Len(ledger) : Allows(ledger[i], c)
    BY <1>12, Facts
  <2> QED BY <1>10, <1>12, <2>2, <2>3, <2>4, <2>5, <2>6, <2>7
<1> QED BY <1>1, <1>11, <1>12

LEMMA DriveEndsStep ==
  ASSUME IndInv, NEW ending \in {"done", "cancelled", "failed"}, drive_ends(ending)
  PROVE  IndInv'
<1> DEFINE h == [Top EXCEPT !.pc = "settling", !.ending = ending]
<1>1. /\ stack # <<>> /\ Top.pc = "driving" /\ stack' = Append(Front(stack), h)
      /\ UNCHANGED <<ledger, gov, clock, calls, trees, acted, refused, level, minted, opened, happened>>
  BY DEF drive_ends, At, Becomes
<1>2. Top \in Frames /\ FrameOK(Top, ledger, clock)
  BY <1>1, TopIs
<1>3. /\ h \in Frames /\ h.pc = "settling" /\ h.run = Top.run /\ h.work = Top.work
      /\ h.parent = Top.parent /\ h.granted = Top.granted /\ h.raised = Top.raised /\ h.t = Top.t
  BY <1>2 DEF Frames
<1> HIDE DEF h
<1>4. FrameOK(h, ledger', clock') /\ StandingOK(h, gov', ledger')
  BY <1>1, <1>2, <1>3 DEF FrameOK, StandingOK
<1>5. LedgerInv' /\ Extends(ledger, ledger')
  BY <1>1, Facts, QuietLedger
<1>6. (\A x : Raises(Top, x) => Raises(h, x)) /\ h.pc \in Out
  BY <1>3 DEF Raises, Out
<1>7. clock' \in Nat /\ clock <= clock'
  BY <1>1, Facts
<1>8. StackInv'
  BY <1>1, <1>3, <1>4, <1>5, <1>6, <1>7, StackReplaced
<1>9. Tallies'
  BY <1>1 DEF IndInv, Tallies
<1> QED BY <1>5, <1>8, <1>9 DEF IndInv

LEMMA SettleStep ==
  ASSUME IndInv, NEW swept \in BOOLEAN, settle_desks(swept)
  PROVE  IndInv'
<1> DEFINE item == [id |-> <<"discard", Top.run>>, cluster |-> [class |-> "discard", at |-> Top.room]]
           h == [Top EXCEPT !.pc = "concluding",
                            !.raised = IF swept THEN Append(Top.raised, item) ELSE Top.raised]
<1>1. /\ stack # <<>> /\ Top.pc = "settling" /\ stack' = Append(Front(stack), h)
      /\ refused' = (IF swept THEN refused \cup {item} ELSE refused)
      /\ UNCHANGED <<ledger, gov, clock, calls, trees, acted, level, minted, opened, happened>>
  BY DEF settle_desks, At, Becomes
<1>2. Top \in Frames /\ FrameOK(Top, ledger, clock)
  BY <1>1, TopIs
<1>3. item \in Items /\ Top.raised \in Seq(Items)
  BY <1>2 DEF Frames, Items, Ids, Clusters
<1> HIDE DEF item
<1>4. Append(Top.raised, item) \in Seq(Items)
  BY <1>3
<1>5. /\ h \in Frames /\ h.pc = "concluding" /\ h.run = Top.run /\ h.work = Top.work
      /\ h.parent = Top.parent /\ h.granted = Top.granted /\ h.t = Top.t
      /\ h.raised = IF swept THEN Append(Top.raised, item) ELSE Top.raised
  BY <1>2, <1>4 DEF Frames
<1> HIDE DEF h
<1>6. FrameOK(h, ledger', clock') /\ StandingOK(h, gov', ledger')
  BY <1>1, <1>2, <1>5 DEF FrameOK, StandingOK
<1>7. LedgerInv' /\ Extends(ledger, ledger')
  BY <1>1, Facts, QuietLedger
<1>8. (\A x : Raises(Top, x) => Raises(h, x)) /\ (swept => Raises(h, item))
  <2>1. CASE swept
    BY <1>3, <1>5, <2>1, RaisesMore
  <2>2. CASE ~swept
    BY <1>5, <2>2 DEF Raises
  <2> QED BY <2>1, <2>2
<1>9. clock' \in Nat /\ clock <= clock' /\ h.pc \in Out
  BY <1>1, <1>5, Facts DEF Out
<1>10. StackInv'
  BY <1>1, <1>5, <1>6, <1>7, <1>8, <1>9, StackReplaced
<1>11. Tallies'
  BY <1>1, <1>3 DEF IndInv, Tallies
<1> QED BY <1>7, <1>10, <1>11 DEF IndInv

LEMMA ConcludeStep ==
  ASSUME IndInv, conclude
  PROVE  IndInv'
<1> DEFINE h == [Top EXCEPT !.pc = "filing"]
<1>1. /\ stack # <<>> /\ Top.pc = "concluding" /\ stack' = Append(Front(stack), h)
      /\ trees' = trees \ {Top.run}
      /\ UNCHANGED <<ledger, gov, clock, calls, acted, refused, level, minted, opened, happened>>
  BY DEF conclude, At, Becomes
<1>2. Top \in Frames /\ FrameOK(Top, ledger, clock)
  BY <1>1, TopIs
<1>3. /\ h \in Frames /\ h.pc = "filing" /\ h.run = Top.run /\ h.work = Top.work
      /\ h.parent = Top.parent /\ h.granted = Top.granted /\ h.raised = Top.raised /\ h.t = Top.t
  BY <1>2 DEF Frames
<1> HIDE DEF h
<1>4. FrameOK(h, ledger', clock') /\ StandingOK(h, gov', ledger')
  BY <1>1, <1>2, <1>3 DEF FrameOK, StandingOK
<1>5. LedgerInv' /\ Extends(ledger, ledger')
  BY <1>1, Facts, QuietLedger
<1>6. \A x : Raises(Top, x) => Raises(h, x)
  BY <1>3 DEF Raises
<1>7. clock' \in Nat /\ clock <= clock' /\ trees' \subseteq trees /\ \A r \in trees' : r # Top.run
  BY <1>1, Facts
<1>8. StackInv'
  BY <1>1, <1>3, <1>4, <1>5, <1>6, <1>7, StackReplaced
<1>9. Tallies'
  BY <1>1 DEF IndInv, Tallies
<1> QED BY <1>5, <1>8, <1>9 DEF IndInv
LEMMA FileStep ==
  ASSUME IndInv, file
  PROVE  IndInv'
<1> DEFINE l == [kind |-> "approval_requested", run |-> Top.run, addr |-> Top.room,
                 item |-> Head(Top.raised)]
           h == [Top EXCEPT !.raised = Tail(Top.raised)]
           s == Top.raised
<1>1. /\ stack # <<>> /\ Top.pc = "filing" /\ s # <<>> /\ stack' = Append(Front(stack), h)
      /\ ledger' = Append(ledger, l) /\ gov' = absorb(gov, l)
      /\ UNCHANGED <<clock, calls, trees, acted, refused, level, minted, opened, happened>>
  BY DEF file, At, Becomes, record_for
<1>2. Top \in Frames /\ FrameOK(Top, ledger, clock)
  BY <1>1, TopIs
<1>3. s \in Seq(Items)
  BY <1>2 DEF Frames
<1>4. /\ Tail(s) \in Seq(Items) /\ Head(s) \in Items /\ Head(s) = s[1] /\ Len(s) \in Nat
      /\ Len(s) >= 1 /\ Len(Tail(s)) = Len(s) - 1
      /\ \A i \in 1..Len(s) - 1 : Tail(s)[i] = s[i + 1]
  <2> HIDE DEF s
  <2> QED BY <1>1, <1>3, HeadTailProperties, EmptySeq
<1>5. /\ l \in AskedLine /\ l \in Line /\ l.kind = "approval_requested" /\ l.run = Top.run
      /\ l.item = s[1]
  BY <1>2, <1>4 DEF AskedLine, Line, Frames
<1>6. /\ h \in Frames /\ h.pc = "filing" /\ h.run = Top.run /\ h.work = Top.work
      /\ h.parent = Top.parent /\ h.granted = Top.granted /\ h.raised = Tail(s) /\ h.t = Top.t
  BY <1>1, <1>2, <1>4 DEF Frames
<1>7. \E i \in 1..Len(ledger) : Starts(ledger[i], Top.run)
  BY <1>1, <1>2 DEF FrameOK
<1>8. \A x : Raises(Top, x) => Raises(h, x) \/ x = l.item
  <2>1. ASSUME NEW x, NEW n \in 1..Len(s), s[n] = x
        PROVE  Raises(h, x) \/ x = s[1]
    <3>1. CASE n = 1
      BY <2>1, <3>1
    <3>2. CASE n # 1
      <4>1. n - 1 \in 1..Len(s) - 1 /\ (n - 1) + 1 = n
        BY <1>4, <3>2
      <4>2. h.raised[n - 1] = x /\ n - 1 \in 1..Len(h.raised)
        BY <1>4, <1>6, <2>1, <4>1
      <4> QED BY <4>2 DEF Raises
    <3> QED BY <3>1, <3>2
  <2> QED BY <1>5, <2>1 DEF Raises
<1> HIDE DEF l, h, s
<1>9. HistoryOK(ledger')
  BY <1>1, <1>5, <1>7, Facts, HistoryAfter
<1>10. Fits(gov', ledger')
  BY <1>1, <1>5, <1>9, Facts, AbsorbFits
<1>11. Extends(ledger, ledger')
  BY <1>1, <1>5, Facts, ExtendsAppend
<1>12. LedgerInv'
  <2>1. minted' \in Nat /\ minted <= minted' /\ Len(level') = Len(level)
    BY <1>1, Facts
  <2> QED BY <1>1, <1>5, <1>7, <1>10, <2>1, LedgerGrows
<1>13. \E i \in 1..Len(ledger') : Starts(ledger'[i], Top.run)
  BY <1>7, <1>11 DEF Extends
<1>14. FrameOK(h, ledger', clock') /\ StandingOK(h, gov', ledger')
  <2>1. FrameOK(Top, ledger', clock')
    <3>1. Top.t \in Nat /\ clock' = clock /\ clock \in Nat
      BY <1>1, <1>2, UseAssumption, Facts DEF Frames
    <3> QED BY <1>2, <1>11, <3>1, FrameKept
  <2> QED BY <1>6, <1>13, <2>1 DEF FrameOK, StandingOK
<1>15. StackInv'
  <2>1. \E i \in 1..Len(ledger') : Files(ledger'[i], l.item)
    <3>1. Len(ledger) + 1 \in 1..Len(ledger') /\ ledger'[Len(ledger) + 1] = l
      BY <1>1, <1>5, Facts, Appended
    <3> QED BY <1>5, <3>1 DEF Files
  <2>2. \A x : Raises(Top, x) => Raises(h, x) \/ \E i \in 1..Len(ledger') : Files(ledger'[i], x)
    BY <1>8, <2>1
  <2>3. clock' \in Nat /\ clock <= clock'
    BY <1>1, Facts
  <2>4. \A r \in trees' : r # Top.run
    BY <1>1, OnlyTheTop DEF Out
  <2> QED BY <1>1, <1>6, <1>11, <1>14, <2>2, <2>3, <2>4, StackReplaced
<1>16. Tallies'
  BY <1>1 DEF IndInv, Tallies
<1> QED BY <1>12, <1>15, <1>16 DEF IndInv
LEMMA UnwrapStep ==
  ASSUME IndInv, unwrap
  PROVE  IndInv'
<1>1. /\ stack # <<>> /\ Top.pc = "filing" /\ Top.raised = <<>>
      /\ UNCHANGED <<ledger, gov, clock, calls, trees, acted, refused, level, minted, opened, happened>>
  BY DEF unwrap, At
<1>2. LedgerInv' /\ Extends(ledger, ledger')
  BY <1>1, Facts, QuietLedger
<1>3. Tallies'
  BY <1>1 DEF IndInv, Tallies
<1>4. \A x : ~Raises(Top, x)
  BY <1>1 DEF Raises
<1>5. CASE Top.ending = "failed"
  <2>1. stack' = <<>> /\ Top.pc \notin Out
    BY <1>1, <1>5 DEF unwrap, Out
  <2>2. StackInv'
    BY <1>1, <1>2, <2>1, StackCleared
  <2> QED BY <1>2, <1>3, <2>2 DEF IndInv
<1>6. CASE Top.ending # "failed"
  <2> DEFINE h == [Top EXCEPT !.pc = "handing",
                              !.asked = IF Top.ending = "cancelled" THEN <<>> ELSE Top.asked]
  <2>1. stack' = Append(Front(stack), h)
    BY <1>6 DEF unwrap, Becomes
  <2>2. Top \in Frames /\ FrameOK(Top, ledger, clock)
    BY <1>1, TopIs
  <2>3. <<>> \in Seq(Rooms)
    OBVIOUS
  <2>4. /\ h \in Frames /\ h.pc = "handing" /\ h.run = Top.run /\ h.work = Top.work
        /\ h.parent = Top.parent /\ h.granted = Top.granted /\ h.raised = <<>> /\ h.t = Top.t
    BY <1>1, <2>2, <2>3 DEF Frames
  <2> HIDE DEF h
  <2>5. FrameOK(h, ledger', clock') /\ StandingOK(h, gov', ledger')
    BY <1>1, <2>2, <2>4 DEF FrameOK, StandingOK
  <2>6. clock' \in Nat /\ clock <= clock'
    BY <1>1, Facts
  <2>7. \A r \in trees' : r # Top.run
    BY <1>1, OnlyTheTop DEF Out
  <2>8. StackInv'
    BY <1>1, <1>2, <1>4, <2>1, <2>4, <2>5, <2>6, <2>7, StackReplaced
  <2> QED BY <1>2, <1>3, <2>8 DEF IndInv
<1> QED BY <1>5, <1>6

LEMMA HandDownStep ==
  ASSUME IndInv, hand_down
  PROVE  IndInv'
<1> DEFINE room == Head(Top.asked)
<1>1. /\ stack # <<>> /\ Top.pc = "handing" /\ Top.asked # <<>>
      /\ UNCHANGED <<ledger, clock, calls, acted, refused, happened>>
  BY DEF hand_down, At
<1>2. /\ Top \in Frames /\ FrameOK(Top, ledger, clock) /\ Top.work \in 1..Len(level)
  BY <1>1, TopIs
<1>3. room \in Rooms /\ Top.run \in Runs
  BY <1>1, <1>2, HeadTailProperties DEF Frames
<1>4. CASE halted_by(room)
  <2>1. stack' = <<>> /\ UNCHANGED <<gov, trees, minted, opened, level>>
    BY <1>4 DEF hand_down
  <2>2. LedgerInv' /\ Extends(ledger, ledger')
    BY <1>1, <2>1, Facts, QuietLedger
  <2>3. Top.pc \notin Out /\ Top.raised = <<>>
    BY <1>1, <1>2 DEF Out, FrameOK
  <2>4. StackInv'
    BY <1>1, <2>1, <2>2, <2>3, StackCleared
  <2>5. Tallies'
    BY <1>1, <2>1 DEF IndInv, Tallies
  <2> QED BY <2>2, <2>4, <2>5 DEF IndInv
<1>5. CASE ~halted_by(room)
  <2>1. /\ {"city", "building", room} \cap gov.halted = {}
        /\ level' = Append(level, level[Top.work] + 1) /\ stand_up(gov, room, Len(level'), Top.run)
    BY <1>5 DEF hand_down, halted_by
  <2>2. level[Top.work] + 1 \in Nat
    BY <1>2, Facts
  <2>3. level' \in Seq(Nat) /\ Len(level') = Len(level) + 1 /\ Len(level') \in Nat
        /\ Len(level) <= Len(level') /\ Len(level') \in 1..Len(level')
    BY <2>1, <2>2, Facts, Appended
  <2>4. /\ StackInv' /\ Fits(gov', ledger') /\ minted' \in 0..MaxRuns /\ minted <= minted'
        /\ trees' \subseteq 1..minted' /\ opened' \subseteq Rooms
    <3>1. /\ Extends(ledger, ledger') /\ Fits(gov, ledger')
          /\ \A i \in 1..Len(ledger') : ledger'[i].kind = "run_started" =>
               ledger'[i].run \in Nat /\ ledger'[i].run <= minted
      BY <1>1, Facts
    <3> HIDE DEF room
    <3>2. Top.run \in Runs \cup {NoRun} /\ room \in Rooms \cup {"building"}
      BY <1>3
    <3> QED BY <1>1, <1>3, <2>1, <2>3, <3>1, <3>2, StandUpKeeps
  <2>5. LedgerInv'
    <3>1. Fits(gov', ledger) /\ minted' \in Nat
          /\ \A c \in acted' : \E i \in 1..Len(ledger) : Allows(ledger[i], c)
      BY <1>1, <2>4, Facts
    <3> QED BY <1>1, <2>3, <2>4, <3>1, LedgerSame
  <2>6. Tallies'
    BY <1>1, <2>3, <2>4 DEF IndInv, Tallies
  <2> QED BY <2>4, <2>5, <2>6 DEF IndInv
<1> QED BY <1>4, <1>5

LEMMA ReturnStep ==
  ASSUME IndInv, return
  PROVE  IndInv'
<1> DEFINE rest == Front(stack)
<1>1. /\ stack # <<>> /\ Top.pc = "handing"
      /\ stack' = (IF rest = <<>> THEN rest
                   ELSE Append(Front(rest), [Last(rest) EXCEPT !.asked = Tail(@)]))
      /\ UNCHANGED <<ledger, gov, clock, calls, trees, acted, refused, level, minted, opened, happened>>
  BY DEF return, At
<1>2. LedgerInv' /\ Extends(ledger, ledger')
  BY <1>1, Facts, QuietLedger
<1>3. Tallies'
  BY <1>1 DEF IndInv, Tallies
<1>4. /\ Top \in Frames /\ FrameOK(Top, ledger, clock) /\ Len(stack) \in Nat /\ Len(stack) >= 1
      /\ Top.raised = <<>> /\ Top.pc \notin Out
  BY <1>1, TopIs DEF FrameOK, Out
<1>5. CASE rest = <<>>
  <2>1. stack' = <<>>
    BY <1>1, <1>5
  <2>2. StackInv'
    BY <1>1, <1>2, <1>4, <2>1, StackCleared
  <2> QED BY <1>2, <1>3, <2>2 DEF IndInv
<1>6. CASE rest # <<>>
  <2> DEFINE g == Last(rest)
             h == [g EXCEPT !.asked = Tail(g.asked)]
             n == Len(stack) - 1
  <2>1. stack' = Append(Front(rest), h)
    BY <1>1, <1>6
  <2>2. rest \in Seq(Frames) /\ Len(rest) = n /\ \A i \in 1..n : rest[i] = stack[i]
    <3>1. stack \in Seq(Frames)
      BY DEF IndInv, StackInv, StackOK
    <3> QED BY <1>1, <1>4, <3>1, Replaced
  <2> HIDE DEF rest
  <2>3. n \in Nat /\ n >= 1 /\ g = rest[n] /\ g \in Frames
    BY <1>6, <2>2, Replaced, EmptySeq DEF Last
  <2>4. /\ n \in 1..n /\ g = stack[n] /\ n \in 1..Len(stack) /\ n < Len(stack)
    BY <1>4, <2>2, <2>3
  <2>5. /\ g.pc = "handing" /\ g.asked # <<>> /\ g.raised = <<>> /\ g.asked \in Seq(Rooms)
        /\ g.work \in 1..Len(level) /\ g.run <= minted /\ FrameOK(g, ledger, clock)
    <3>1. g.pc = "handing" /\ g.asked # <<>> /\ g.work \in 1..Len(level) /\ g.run <= minted
      BY <2>4 DEF IndInv, StackInv, StackOK
    <3>2. FrameOK(g, ledger, clock)
      BY <2>4 DEF IndInv, StackInv, FramesOK
    <3> QED BY <2>3, <3>1, <3>2 DEF FrameOK, Frames
  <2>6. Tail(g.asked) \in Seq(Rooms)
    BY <2>5, HeadTailProperties
  <2>7. /\ h \in Frames /\ h.pc = "handing" /\ h.run = g.run /\ h.work = g.work
        /\ h.parent = g.parent /\ h.granted = g.granted /\ h.raised = <<>> /\ h.t = g.t
    BY <2>3, <2>5, <2>6 DEF Frames
  <2> HIDE DEF h
  <2>8. /\ stack' \in Seq(Frames) /\ Len(stack') = n /\ stack'[n] = h
        /\ \A i \in 1..n - 1 : stack'[i] = stack[i]
    <3>1. /\ Append(Front(rest), h) \in Seq(Frames) /\ Len(Append(Front(rest), h)) = Len(rest)
          /\ Append(Front(rest), h)[Len(rest)] = h
          /\ \A i \in 1..Len(rest) - 1 : Append(Front(rest), h)[i] = rest[i]
      BY <1>6, <2>2, <2>7, Replaced
    <3>2. \A i \in 1..n - 1 : rest[i] = stack[i]
      BY <2>2, <2>3
    <3> QED BY <2>1, <2>2, <3>1, <3>2
  <2> HIDE DEF g, n
  <2>9. \A i \in 1..n : i = n \/ i \in 1..n - 1
    BY <2>3
  <2>10. \A i \in 1..n - 1 : i \in 1..Len(stack) /\ i < Len(stack) /\ i + 1 \in 1..n
    BY <1>4, <2>3 DEF n
  <2>11. StackOK'
    <3>1. ASSUME NEW i \in 1..n, i < n
          PROVE  stack'[i].pc = "handing" /\ stack'[i].asked # <<>>
                 /\ stack'[i + 1].parent = stack'[i].run
      <4>1. i \in 1..n - 1 /\ stack'[i] = stack[i]
        BY <2>3, <2>8, <3>1
      <4>2. stack'[i + 1].parent = stack[i + 1].parent
        <5>1. CASE i + 1 = n
          BY <2>4, <2>7, <2>8, <5>1
        <5>2. CASE i + 1 # n
          BY <2>8, <2>9, <2>10, <4>1, <5>2
        <5> QED BY <5>1, <5>2
      <4> QED BY <2>10, <4>1, <4>2 DEF IndInv, StackInv, StackOK
    <3>2. ASSUME NEW i \in 1..n
          PROVE  stack'[i].work \in 1..Len(level') /\ stack'[i].run <= minted'
      <4>1. CASE i = n
        BY <1>1, <2>5, <2>7, <2>8, <4>1
      <4>2. CASE i \in 1..n - 1
        BY <1>1, <2>8, <2>10, <4>2 DEF IndInv, StackInv, StackOK
      <4> QED BY <2>9, <4>1, <4>2
    <3> QED BY <2>8, <3>1, <3>2 DEF StackOK
  <2>12. FramesOK'
    <3>1. \A i \in 1..n : FrameOK(stack'[i], ledger', clock') /\ StandingOK(stack'[i], gov', ledger')
      <4> TAKE i \in 1..n
      <4>1. CASE i = n
        BY <1>1, <2>5, <2>7, <2>8, <4>1 DEF FrameOK, StandingOK
      <4>2. CASE i \in 1..n - 1
        BY <1>1, <2>8, <2>10, <4>2 DEF IndInv, StackInv, FramesOK
      <4> QED BY <2>9, <4>1, <4>2
    <3> QED BY <2>8, <3>1 DEF FramesOK
  <2>13. FilingOK'
    BY <1>1, <1>4, OnlyTheTop DEF FilingOK, Raises
  <2>14. TreesOK'
    <3>1. Top' = h /\ stack' # <<>>
      BY <2>3, <2>8 DEF Top, Last
    <3>2. Strays' \subseteq Strays
      BY <1>1, <1>4 DEF Strays
    <3>3. Cardinality(Strays') <= Cardinality(happened' \ {"run_line"})
      BY <1>1, <3>2, FewStrays
    <3>4. ASSUME NEW i \in 1..n
          PROVE  stack'[i].run \notin trees'
      <4>1. stack'[i].run = stack[i].run /\ i \in 1..Len(stack) /\ i # Len(stack)
        BY <2>3, <2>4, <2>7, <2>8, <2>9, <2>10
      <4> QED BY <1>1, <4>1 DEF IndInv, StackInv, TreesOK
    <3> QED BY <2>8, <3>3, <3>4 DEF TreesOK
  <2>15. StackInv'
    BY <2>11, <2>12, <2>13, <2>14 DEF StackInv
  <2> QED BY <1>2, <1>3, <2>15 DEF IndInv
<1> QED BY <1>5, <1>6
LEMMA AnswerStep ==
  ASSUME IndInv, NEW id \in Ids, NEW verdict \in {"allow", "deny"}, answer_approval(id, verdict)
  PROVE  IndInv'
<1> DEFINE l == [kind |-> "approval_resolved", id |-> id, verdict |-> verdict,
                 cluster |-> gov.pending[id].cluster]
           g == absorb(gov, l)
<1>1. /\ stack = <<>> /\ id \in DOMAIN gov.pending /\ ledger' = Append(ledger, l)
      /\ UNCHANGED <<clock, calls, acted, refused, level, happened>>
  BY DEF answer_approval, Idle
<1>2. \/ /\ id \in DOMAIN gov.origins /\ ~halted_by(gov.origins[id].addr)
         /\ stand_up(g, gov.origins[id].addr, gov.origins[id].work, NoRun)
      \/ gov' = g /\ UNCHANGED <<stack, trees, minted, opened>>
  BY DEF answer_approval
<1>3. gov \in Gov /\ InboxFits(gov, ledger)
  BY Facts DEF Fits
<1>4. PICK i \in 1..Len(ledger) : Open(ledger, i) /\ ledger[i].item.id = id
  BY <1>1, <1>3 DEF InboxFits
<1>5. gov.pending[id] = ledger[i].item
  BY <1>3, <1>4 DEF InboxFits
<1>6. ledger[i].kind = "approval_requested" /\ ledger[i].item \in Items
  <2>1. ledger[i] \in Line
    BY Facts
  <2>2. ledger[i].kind = "approval_requested"
    BY <1>4 DEF Open
  <2> QED BY <2>1, <2>2, LineKinds DEF AskedLine
<1>7. /\ l \in AnsweredLine /\ l \in Line /\ l.kind = "approval_resolved" /\ l.id = id
      /\ l.cluster = ledger[i].item.cluster
  BY <1>5, <1>6 DEF AnsweredLine, Line, Items
<1>8. \A k \in i + 1 .. Len(ledger) : ~Answers(ledger[k], id)
  BY <1>4 DEF Open, Touches, Answers
<1>9. g = Resolved(gov, l)
  BY <1>7 DEF absorb
<1> HIDE DEF l, g
<1>10. HistoryOK(ledger')
  BY <1>1, <1>7, Facts, HistoryAfter
<1>11. Fits(g, ledger') /\ g.halted = gov.halted
  <2>1. Fits(absorb(gov, l), ledger')
    BY <1>1, <1>7, <1>10, Facts, AbsorbFits
  <2>2. Resolved(gov, l).halted = gov.halted
    BY <1>3, <1>7, Facts, InboxAnswers
  <2> QED BY <1>9, <2>1, <2>2 DEF g
<1>12. Extends(ledger, ledger')
  BY <1>1, <1>7, Facts, ExtendsAppend
<1>13. ASSUME Fits(gov', ledger'), minted' \in Nat, minted <= minted'
       PROVE  LedgerInv'
  <2>1. Len(level') = Len(level)
    BY <1>1
  <2>2. l.kind = "approval_resolved" =>
          \E j \in 1..Len(ledger) :
            /\ ledger[j].kind = "approval_requested"
            /\ ledger[j].item.id = l.id /\ ledger[j].item.cluster = l.cluster
            /\ \A k \in j + 1 .. Len(ledger) : ~Answers(ledger[k], l.id)
    BY <1>4, <1>6, <1>7, <1>8
  <2> QED BY <1>1, <1>7, <1>13, <2>1, <2>2, LedgerGrows
<1>14. CASE /\ id \in DOMAIN gov.origins /\ ~halted_by(gov.origins[id].addr)
            /\ stand_up(g, gov.origins[id].addr, gov.origins[id].work, NoRun)
  <2> DEFINE room == gov.origins[id].addr
             work == gov.origins[id].work
  <2>1. room \in Rooms
    <3>1. gov.origins \in Partial(Ids, Origin)
      BY <1>3 DEF Gov
    <3>2. gov.origins[id] \in Origin
      BY <1>14, <3>1 DEF Partial
    <3> QED BY <3>2 DEF Origin
  <2>2. work \in 1..Len(level')
    <3>1. PICK k \in 1..Len(ledger) :
            Starts(ledger[k], ledger[i].run) /\ gov.origins[ledger[i].item.id].work = ledger[k].work
      BY <1>3, <1>4 DEF InboxFits
    <3>2. work = ledger[k].work /\ ledger[k].kind = "run_started"
      BY <1>4, <3>1 DEF Starts
    <3> QED BY <1>1, <3>2, Facts
  <2>3. {"city", "building", room} \cap g.halted = {} /\ stand_up(g, room, work, NoRun)
    BY <1>11, <1>14 DEF halted_by
  <2> HIDE DEF room, work
  <2>4. \A n \in 1..Len(ledger') : ledger'[n].kind = "run_started" =>
          ledger'[n].run \in Nat /\ ledger'[n].run <= minted
    <3> TAKE n \in 1..Len(ledger')
    <3>1. /\ Len(ledger) \in Nat /\ Len(ledger') = Len(ledger) + 1 /\ ledger'[Len(ledger) + 1] = l
          /\ \A m \in 1..Len(ledger) : ledger'[m] = ledger[m]
      BY <1>1, <1>7, Facts, Appended
    <3>2. CASE n = Len(ledger) + 1
      BY <1>7, <3>1, <3>2
    <3>3. CASE n \in 1..Len(ledger)
      BY <3>1, <3>3, Facts
    <3> QED BY <3>1, <3>2, <3>3
  <2>5. /\ Len(level') \in Nat /\ Len(level) <= Len(level') /\ NoRun \in Runs \cup {NoRun}
        /\ room \in Rooms \cup {"building"}
    BY <1>1, <2>1, Facts
  <2>6. /\ StackInv' /\ Fits(gov', ledger') /\ minted' \in 0..MaxRuns /\ minted <= minted'
        /\ trees' \subseteq 1..minted' /\ opened' \subseteq Rooms
    BY <1>1, <1>11, <1>12, <2>1, <2>2, <2>3, <2>4, <2>5, StandUpKeeps
  <2>7. LedgerInv'
    <3>1. minted' \in Nat
      BY <2>6, Facts
    <3> QED BY <1>13, <2>6, <3>1
  <2>8. Tallies'
    BY <1>1, <2>6 DEF IndInv, Tallies
  <2> QED BY <2>6, <2>7, <2>8 DEF IndInv
<1>15. CASE gov' = g /\ UNCHANGED <<stack, trees, minted, opened>>
  <2>1. LedgerInv'
    <3>1. Fits(gov', ledger') /\ minted' \in Nat /\ minted <= minted'
      BY <1>11, <1>15, Facts
    <3> QED BY <1>13, <3>1
  <2>2. StackInv'
    BY <1>1, <1>12, <1>15, StackCleared
  <2>3. Tallies'
    BY <1>1, <1>15 DEF IndInv, Tallies
  <2> QED BY <2>1, <2>2, <2>3 DEF IndInv
<1> QED BY <1>2, <1>14, <1>15

LEMMA AdmissionStep ==
  ASSUME IndInv, NEW scope \in Scopes, NEW shut \in BOOLEAN, set_admission(scope, shut)
  PROVE  IndInv'
<1> DEFINE l == [kind |-> "city_halted", scope |-> scope, halted |-> shut]
<1>1. /\ stack = <<>> /\ ledger' = Append(ledger, l) /\ gov' = absorb(gov, l)
      /\ UNCHANGED <<stack, clock, calls, trees, acted, refused, level, minted, opened, happened>>
  BY DEF set_admission, Idle, record_for
<1>2. l \in Line /\ l.kind = "city_halted"
  BY DEF Line, ShutLine, Scopes
<1> HIDE DEF l
<1>3. HistoryOK(ledger')
  BY <1>1, <1>2, Facts, HistoryAfter
<1>4. Fits(gov', ledger')
  BY <1>1, <1>2, <1>3, Facts, AbsorbFits
<1>5. Extends(ledger, ledger') /\ minted' \in Nat /\ minted <= minted' /\ Len(level') = Len(level)
  BY <1>1, <1>2, Facts, ExtendsAppend
<1>6. LedgerInv'
  BY <1>1, <1>2, <1>4, <1>5, LedgerGrows
<1>7. StackInv'
  BY <1>1, <1>5, StackCleared
<1>8. Tallies'
  BY <1>1 DEF IndInv, Tallies
<1> QED BY <1>6, <1>7, <1>8 DEF IndInv

LEMMA FaultStep ==
  ASSUME IndInv, Crash \/ RunLineRefused \/ DeskLineRefused \/ FileRefuses
  PROVE  IndInv'
<1>1. /\ UNCHANGED <<ledger, clock, calls, trees, acted, refused, level, minted, opened>>
      /\ happened' # {} /\ happened' \subseteq Faults
      /\ \E x \in Faults \ happened : happened' = happened \cup {x}
  BY DEF Crash, RunLineRefused, DeskLineRefused, FileRefuses, Happens, IndInv, Tallies
<1>2. Tallies'
  BY <1>1 DEF IndInv, Tallies
<1>3. CASE Crash
  <2>1. /\ stack' = <<>> /\ gov' = Standing
        /\ \E x \in Faults \ happened : x # "run_line" /\ happened' = happened \cup {x}
    BY <1>3 DEF Crash, Happens
  <2>2. Fits(gov', ledger) /\ minted' \in Nat /\ minted <= minted' /\ Len(level') \in Nat
        /\ Len(level) <= Len(level') /\ Extends(ledger, ledger')
        /\ \A c \in acted' : \E i \in 1..Len(ledger) : Allows(ledger[i], c)
    BY <1>1, <2>1, Facts, StandingFits
  <2>3. LedgerInv'
    BY <1>1, <2>2, LedgerSame
  <2>4. StackInv'
    BY <1>1, <2>1, <2>2, StackCleared
  <2> QED BY <1>2, <2>3, <2>4 DEF IndInv
<1>4. CASE DeskLineRefused \/ FileRefuses
  <2>1. /\ stack' = <<>> /\ gov' = gov
        /\ \E x \in Faults \ happened : x # "run_line" /\ happened' = happened \cup {x}
    BY <1>4 DEF DeskLineRefused, FileRefuses, Happens
  <2>2. LedgerInv' /\ Extends(ledger, ledger')
    BY <1>1, <2>1, Facts, QuietLedger
  <2>3. StackInv'
    BY <1>1, <2>1, <2>2, StackCleared
  <2> QED BY <1>2, <2>2, <2>3 DEF IndInv
<1>5. CASE RunLineRefused
  <2>1. gov' = gov /\ stack # <<>>
    BY <1>5 DEF RunLineRefused, At
  <2>2. LedgerInv' /\ Extends(ledger, ledger')
    BY <1>1, <2>1, Facts, QuietLedger
  <2>3. CASE At("standing") /\ Becomes([Top EXCEPT !.pc = "concluding", !.ending = "failed"])
    <3> DEFINE h == [Top EXCEPT !.pc = "concluding", !.ending = "failed"]
    <3>1. stack' = Append(Front(stack), h) /\ Top.pc = "standing"
      BY <2>3 DEF Becomes, At
    <3>2. Top \in Frames /\ FrameOK(Top, ledger, clock)
      BY <2>1, TopIs
    <3>3. /\ h \in Frames /\ h.pc = "concluding" /\ h.run = Top.run /\ h.work = Top.work
          /\ h.parent = Top.parent /\ h.granted = Top.granted /\ h.raised = Top.raised /\ h.t = Top.t
      BY <3>2 DEF Frames
    <3> HIDE DEF h
    <3>4. FrameOK(h, ledger', clock') /\ StandingOK(h, gov', ledger')
      BY <1>1, <3>1, <3>2, <3>3 DEF FrameOK, StandingOK
    <3>5. clock' \in Nat /\ clock <= clock' /\ h.pc \in Out
      BY <1>1, <3>3, Facts DEF Out
    <3>6. StackInv'
      BY <1>1, <2>1, <2>2, <3>1, <3>3, <3>4, <3>5, StackReplaced
    <3> QED BY <1>2, <2>2, <3>6 DEF IndInv
  <2>4. CASE Top.pc \in {"filing", "handing"} /\ stack' = <<>>
    <3>1. Top.pc \notin Out
      BY <2>4 DEF Out
    <3>2. StackInv'
      BY <1>1, <2>1, <2>2, <2>4, <3>1, StackCleared
    <3> QED BY <1>2, <2>2, <3>2 DEF IndInv
  <2> QED BY <1>5, <2>3, <2>4 DEF RunLineRefused, At
<1> QED BY <1>3, <1>4, <1>5

LEMMA IndInit ==
  ASSUME Init
  PROVE  IndInv
<1>1. /\ ledger = <<>> /\ gov = Empty /\ stack = <<>> /\ clock = 0 /\ calls = 0 /\ minted = 0
      /\ opened = {} /\ trees = {} /\ acted = {} /\ refused = {} /\ level = <<>> /\ happened = {}
  BY DEF Init
<1>2. Len(ledger) = 0 /\ Len(stack) = 0 /\ \A i \in 1..0 : FALSE
  BY <1>1
<1>3. HistoryOK(ledger) /\ Fits(gov, ledger)
  BY <1>1, <1>2, EmptyFits DEF HistoryOK
<1>4. LedgerInv
  BY <1>1, <1>2, <1>3 DEF LedgerInv, LinesOK, ActedOK, AskedOK, ShutOK
<1>5. StackInv
  <2>1. Strays = {} /\ happened \ {"run_line"} = {} /\ Cardinality({}) = 0
    BY <1>1, FS_EmptySet DEF Strays
  <2> QED BY <1>1, <1>2, <2>1 DEF StackInv, StackOK, FramesOK, FilingOK, TreesOK
<1>6. Tallies
  BY <1>1, UseAssumption DEF Tallies
<1> QED BY <1>4, <1>5, <1>6 DEF IndInv

LEMMA IndStep ==
  ASSUME IndInv, [Next]_vars
  PROVE  IndInv'
<1>1. CASE \E addr \in Rooms \cup {"building"} : dispatch(addr)
  BY <1>1, DispatchStep
<1>2. CASE start
  BY <1>2, StartStep
<1>3. CASE \E call \in Calls, fresh \in BOOLEAN : invoke(call, fresh)
  BY <1>3, InvokeStep
<1>4. CASE \E ending \in {"done", "cancelled", "failed"} : drive_ends(ending)
  BY <1>4, DriveEndsStep
<1>5. CASE \E swept \in BOOLEAN : settle_desks(swept)
  BY <1>5, SettleStep
<1>6. CASE conclude
  BY <1>6, ConcludeStep
<1>7. CASE file
  BY <1>7, FileStep
<1>8. CASE unwrap
  BY <1>8, UnwrapStep
<1>9. CASE hand_down
  BY <1>9, HandDownStep
<1>10. CASE return
  BY <1>10, ReturnStep
<1>11. CASE \E id \in Ids, verdict \in {"allow", "deny"} : answer_approval(id, verdict)
  BY <1>11, AnswerStep
<1>12. CASE \E scope \in Scopes, shut \in BOOLEAN : set_admission(scope, shut)
  BY <1>12, AdmissionStep
<1>13. CASE Crash \/ RunLineRefused \/ DeskLineRefused \/ FileRefuses
  BY <1>13, FaultStep
<1>14. CASE UNCHANGED vars
  <2>1. Tallies'
    BY <1>14 DEF vars, IndInv, Tallies
  <2>2. LedgerInv'
    BY <1>14 DEF vars, IndInv, LedgerInv, LinesOK, ActedOK, AskedOK, ShutOK
  <2>3. StackInv'
    <3>1. Top' = Top /\ Strays' = Strays
      BY <1>14 DEF vars, Top, Last, Strays
    <3> QED BY <1>14, <3>1 DEF vars, IndInv, StackInv, StackOK, FramesOK, FilingOK, TreesOK
  <2> QED BY <2>1, <2>2, <2>3 DEF IndInv
<1> QED BY <1>1, <1>2, <1>3, <1>4, <1>5, <1>6, <1>7, <1>8, <1>9, <1>10, <1>11, <1>12, <1>13, <1>14
        DEF Next

LEMMA IndHolds == Spec => []IndInv
<1>1. Init => IndInv
  BY IndInit
<1>2. IndInv /\ [Next]_vars => IndInv'
  BY IndStep
<1> QED BY <1>1, <1>2, PTL DEF Spec

-----------------------------------------------------------------------------
(* The theorems.                                                             *)

(* What a worker holds is what the history says, read as a whole: for every  *)
(* number of rooms, runs, calls and answers, through any number of restarts  *)
(* (Governance::absorb, Standing::fold).                                     *)
THEOREM GovernanceIsAlwaysTheLedger == Spec => []GovernanceIsTheLedger
<1>1. IndInv => GovernanceIsTheLedger
  <2> SUFFICES ASSUME IndInv PROVE GovernanceIsTheLedger
    OBVIOUS
  <2>0. /\ HistoryOK(ledger) /\ gov \in Gov /\ InboxFits(gov, ledger) /\ GrantedFits(gov, ledger)
        /\ HaltedFits(gov, ledger) /\ ledger \in Seq(Line) /\ Len(ledger) \in Nat
    BY Facts DEF Fits
  <2>1. DOMAIN ledger = 1..Len(ledger)
    BY <2>0
  <2>2. \A i \in 1..Len(ledger) : i \in OpenRequests <=> Open(ledger, i)
    BY <2>1 DEF OpenRequests, Open, Touches, Is
  <2>3. OpenRequests \subseteq 1..Len(ledger)
    BY <2>1 DEF OpenRequests
  <2>4. {gov.pending[id] : id \in DOMAIN gov.pending} = {ledger[i].item : i \in OpenRequests}
    <3>1. ASSUME NEW id \in DOMAIN gov.pending
          PROVE  \E i \in OpenRequests : gov.pending[id] = ledger[i].item
      <4>1. PICK i \in 1..Len(ledger) : Open(ledger, i) /\ ledger[i].item.id = id
        BY <2>0, <3>1 DEF InboxFits
      <4>2. gov.pending[ledger[i].item.id] = ledger[i].item
        BY <2>0, <4>1 DEF InboxFits
      <4>3. i \in OpenRequests
        BY <2>2, <4>1
      <4> QED BY <4>1, <4>2, <4>3
    <3>2. ASSUME NEW i \in OpenRequests
          PROVE  \E id \in DOMAIN gov.pending : ledger[i].item = gov.pending[id]
      BY <2>0, <2>2, <2>3 DEF InboxFits
    <3> QED BY <3>1, <3>2
  <2>5. ASSUME NEW i \in OpenRequests
        PROVE  /\ ledger[i].item.id \in DOMAIN gov.origins
               /\ gov.origins[ledger[i].item.id].addr = ledger[i].addr
               /\ {gov.origins[ledger[i].item.id].work} = WorkOf(ledger[i].run)
    <3>1. i \in 1..Len(ledger) /\ Open(ledger, i)
      BY <2>2, <2>3
    <3>2. PICK k \in 1..Len(ledger) :
            Starts(ledger[k], ledger[i].run) /\ gov.origins[ledger[i].item.id].work = ledger[k].work
      BY <2>0, <3>1 DEF InboxFits
    <3>3. \A j \in 1..Len(ledger) :
            ledger[j].kind = "run_started" /\ ledger[j].run = ledger[i].run => j = k
      BY <2>0, <3>2 DEF HistoryOK, Starts
    <3>4. WorkOf(ledger[i].run) = {ledger[k].work}
      BY <2>1, <3>2, <3>3 DEF WorkOf, Is, Starts
    <3> QED BY <2>0, <3>1, <3>2, <3>4 DEF InboxFits
  <2>6. gov.granted = {c \in Clusters : Allowed(c)}
    <3>1. gov.granted \subseteq Clusters
      BY <2>0 DEF Gov
    <3>2. \A c \in Clusters : c \in gov.granted <=> Allowed(c)
      BY <2>0, <2>1 DEF GrantedFits, Allows, Allowed, Is
    <3> QED BY <3>1, <3>2
  <2>7. gov.halted = {s \in Scopes : ShutBefore(Len(ledger) + 1, s)}
    <3>1. gov.halted \subseteq Scopes
      BY <2>0 DEF Gov
    <3>2. \A s \in Scopes : s \in gov.halted <=> Shut(ledger, Len(ledger) + 1, s)
      BY <2>0 DEF HaltedFits
    <3>3. \A n, s : Shut(ledger, n, s) <=> ShutBefore(n, s)
      BY DEF Shut, ShutBefore, Rules, Is
    <3> QED BY <3>1, <3>2, <3>3
  <2> QED BY <2>4, <2>5, <2>6, <2>7 DEF GovernanceIsTheLedger
<1> QED BY <1>1, IndHolds, PTL

(* People decide: what is gated was allowed, what was answered was asked,    *)
(* and what was shut takes no work, for every number of rooms, runs, calls   *)
(* and answers, through any faults (gate.rs, bench.rs settled,               *)
(* answer_approval, agree_to_work).                                          *)
THEOREM PeopleAlwaysDecide == Spec => []PeopleDecide
<1>1. IndInv => PeopleDecide
  <2> SUFFICES ASSUME IndInv PROVE PeopleDecide
    OBVIOUS
  <2>0. AskedOK /\ ActedOK /\ ShutOK /\ ledger \in Seq(Line) /\ Len(ledger) \in Nat
    BY Facts DEF IndInv, LedgerInv
  <2>1. DOMAIN ledger = 1..Len(ledger)
    BY <2>0
  <2>2. AnswersAreAsked
    <3>1. ASSUME NEW i \in 1..Len(ledger), ledger[i].kind = "approval_resolved"
          PROVE  \E j \in 1..i - 1 :
                   /\ ledger[j].kind = "approval_requested"
                   /\ ledger[j].item = [id |-> ledger[i].id, cluster |-> ledger[i].cluster]
                   /\ \A k \in j + 1 .. i - 1 :
                        ledger[k].kind = "approval_resolved" => ledger[k].id # ledger[i].id
      <4>1. PICK j \in 1..i - 1 :
              /\ ledger[j].kind = "approval_requested"
              /\ ledger[j].item.id = ledger[i].id /\ ledger[j].item.cluster = ledger[i].cluster
              /\ \A k \in j + 1 .. i - 1 : ~Answers(ledger[k], ledger[i].id)
        BY <2>0, <3>1 DEF AskedOK
      <4>2. ledger[j] \in Line
        BY <2>0, <3>1
      <4>3. ledger[j].item \in Items
        BY <4>1, <4>2, LineKinds DEF AskedLine
      <4>4. ledger[j].item = [id |-> ledger[i].id, cluster |-> ledger[i].cluster]
        BY <4>1, <4>3 DEF Items
      <4> QED BY <4>1, <4>4 DEF Answers
    <3> QED BY <2>1, <3>1 DEF AnswersAreAsked, Is
  <2>3. NothingGatedUnasked
    BY <2>0, <2>1 DEF NothingGatedUnasked, ActedOK, Allows, Allowed, Is
  <2>4. HaltedTakesNoWork
    <3>1. \A n, s : Shut(ledger, n, s) <=> ShutBefore(n, s)
      BY DEF Shut, ShutBefore, Rules, Is
    <3> QED BY <2>0, <2>1, <3>1 DEF HaltedTakesNoWork, ShutOK, Admits, Is
  <2> QED BY <2>2, <2>3, <2>4 DEF PeopleDecide
<1> QED BY <1>1, IndHolds, PTL

(* A dispatch that is over left nothing behind: its items are filed and its  *)
(* tree is back, and the state is well formed, for every number of rooms,    *)
(* runs and calls and however deep the dispatches nest (conclude).           *)
THEOREM NothingIsEverLeftBehind == Spec => []NothingIsLeftBehind
<1>1. IndInv => NothingIsLeftBehind
  <2> SUFFICES ASSUME IndInv PROVE NothingIsLeftBehind
    OBVIOUS
  <2>0. /\ StackOK /\ FilingOK /\ TreesOK /\ gov \in Gov /\ InboxFits(gov, ledger)
        /\ ledger \in Seq(Line) /\ Len(ledger) \in Nat
    BY Facts DEF IndInv, StackInv, Fits
  <2>1. DOMAIN ledger = 1..Len(ledger) /\ DOMAIN stack = 1..Len(stack)
    BY <2>0 DEF StackOK
  <2>2. TypeOK
    <3>1. \A id \in DOMAIN gov.pending : id \in Ids /\ gov.pending[id] \in Items
      <4>1. gov.pending \in Partial(Ids, Items)
        BY <2>0 DEF Gov
      <4> QED BY <4>1 DEF Partial
    <3>2. gov.granted \subseteq Clusters /\ gov.halted \subseteq Scopes
      BY <2>0 DEF Gov
    <3>3. /\ clock \in 0..MaxCalls /\ calls \in 0..MaxCalls /\ minted \in 0..MaxRuns
          /\ opened \subseteq Rooms /\ trees \subseteq Runs /\ acted \subseteq Clusters /\ refused \subseteq Items
          /\ level \in Seq(Nat) /\ happened \subseteq Faults
      BY UseAssumption DEF IndInv, Tallies, Runs
    <3> QED BY <2>0, <2>1, <3>1, <3>2, <3>3 DEF TypeOK, StackOK, InboxFits
  <2>3. RefusedIsFiled
    <3>1. Idle => Len(stack) = 0
      BY DEF Idle
    <3> QED BY <2>0, <2>1, <3>1 DEF RefusedIsFiled, FilingOK, Files, Is
  <2>4. TreesComeHome
    <3>1. LeftOut \subseteq Strays
      <4>1. stack # <<>> => Len(stack) \in DOMAIN stack /\ Top = stack[Len(stack)]
        BY <2>1, TopIs
      <4> QED BY <4>1 DEF LeftOut, Strays
    <3>2. /\ Cardinality(LeftOut) <= Cardinality(Strays) /\ Cardinality(LeftOut) \in Nat
          /\ Cardinality(Strays) \in Nat
      <4>1. IsFiniteSet(Strays) /\ Cardinality(Strays) \in Nat
        BY StraysAreFew
      <4> HIDE DEF Strays
      <4>2. IsFiniteSet(LeftOut) /\ Cardinality(LeftOut) <= Cardinality(Strays)
        BY <3>1, <4>1, FS_Subset
      <4> QED BY <4>1, <4>2, FS_CardinalityType
    <3>3. Cardinality(happened \ {"run_line"}) \in Nat
      <4>1. happened \subseteq FaultKinds /\ IsFiniteSet(FaultKinds)
        BY UseAssumption, FewFaults DEF IndInv, Tallies
      <4>2. happened \ {"run_line"} \subseteq FaultKinds
        BY <4>1
      <4> QED BY <4>1, <4>2, FS_Subset, FS_CardinalityType
    <3>4. Cardinality(LeftOut) <= Cardinality(happened \ {"run_line"})
      BY <2>0, <3>2, <3>3 DEF TreesOK
    <3> QED BY <2>0, <2>1, <3>4 DEF TreesComeHome, TreesOK, Out
  <2> QED BY <2>2, <2>3, <2>4 DEF NothingIsLeftBehind
<1> QED BY <1>1, IndHolds, PTL
=============================================================================
