--------------------------- MODULE ServingProofs ----------------------------
(* What serving promises of its two standing parts. Of the desk, for every   *)
(* set of commands, keys and runs and every length of the line; of the       *)
(* vault, the endpoint book and their records, for every workload, every set *)
(* of models and offers, every lifetime and margin.                          *)
EXTENDS CommandDesk, Providers, WellFoundedInduction, SequenceTheorems, TLAPS

\* Every non-empty set of naturals has a least element.
LEMMA SmallestExists ==
  ASSUME NEW T \in SUBSET Nat, T # {}
  PROVE  \E x \in T : \A y \in T : x <= y
<1>1. \E x \in T : \A y \in T : ~ (<<y, x>> \in OpToRel(<, Nat))
  BY NatLessThanWellFounded, WFMin
<1>2. \A x, y \in T : ~ (<<y, x>> \in OpToRel(<, Nat)) => x <= y
  BY DEF OpToRel
<1> QED BY <1>1, <1>2

-----------------------------------------------------------------------------
(* The desk.                                                                 *)

(* The line keeps within its bound, `owed` counts a prefix of it, a command  *)
(* is held exactly while it is carried out, and the worker stops only after  *)
(* it was told to. With KeysAgree and OneAskOneWork this is inductive: the   *)
(* keys alone do not tell that a key released belongs to one command only.   *)
LineOK ==
  /\ Len(queue) <= MaxQueue
  /\ owed <= Len(queue)
  /\ pc # "carrying" => carrying = Nothing
  /\ pc \in {"closing", "ended"} => closing /\ owed = 0

IndInv == DeskTypeOK /\ LineOK /\ KeysAgree /\ OneAskOneWork

-----------------------------------------------------------------------------
(* Removing one element keeps the others, in their order.                    *)
LEMMA RemoveAtIs ==
  ASSUME NEW S, NEW s \in Seq(S), NEW i \in 1 .. Len(s)
  PROVE  /\ RemoveAt(s, i) \in Seq(S)
         /\ Len(RemoveAt(s, i)) = Len(s) - 1
         /\ \A j \in 1 .. Len(s) - 1 :
              RemoveAt(s, i)[j] = IF j < i THEN s[j] ELSE s[j + 1]
<1> DEFINE a == SubSeq(s, 1, i - 1)
           b == SubSeq(s, i + 1, Len(s))
<1>1. a \in Seq(S) /\ Len(a) = i - 1 /\ \A j \in 1 .. i - 1 : a[j] = s[j]
  OBVIOUS
<1>2. /\ b \in Seq(S)
      /\ Len(b) = Len(s) - i
      /\ \A j \in 1 .. Len(s) - i : b[j] = s[j + i]
  OBVIOUS
<1>3. RemoveAt(s, i) = a \o b
  BY DEF RemoveAt
<1> HIDE DEF a, b
<1>4. /\ a \o b \in Seq(S)
      /\ Len(a \o b) = Len(s) - 1
      /\ \A j \in 1 .. Len(s) - 1 :
           (a \o b)[j] = IF j <= i - 1 THEN a[j] ELSE b[j - (i - 1)]
  <2>1. \A x, y \in Seq(S) :
          /\ x \o y \in Seq(S)
          /\ Len(x \o y) = Len(x) + Len(y)
          /\ \A j \in 1 .. Len(x) + Len(y) :
               (x \o y)[j] = IF j <= Len(x) THEN x[j] ELSE y[j - Len(x)]
    BY ConcatProperties
  <2>2. /\ a \o b \in Seq(S)
        /\ Len(a \o b) = Len(a) + Len(b)
        /\ \A j \in 1 .. Len(a) + Len(b) :
             (a \o b)[j] = IF j <= Len(a) THEN a[j] ELSE b[j - Len(a)]
    BY <1>1, <1>2, <2>1, Zenon
  <2> QED BY <1>1, <1>2, <2>2
<1>5. \A j \in 1 .. Len(s) - 1 :
        (a \o b)[j] = IF j < i THEN s[j] ELSE s[j + 1]
  <2> TAKE j \in 1 .. Len(s) - 1
  <2>1. CASE j < i
    BY <2>1, <1>1, <1>4
  <2>2. CASE ~(j < i)
    <3>1. j - (i - 1) \in 1 .. Len(s) - i /\ j - (i - 1) + i = j + 1
      BY <2>2
    <3> QED BY <2>2, <3>1, <1>2, <1>4
  <2> QED BY <2>1, <2>2
<1> QED BY <1>3, <1>4, <1>5

(* A key belongs to the set a desk holds for a line when some command in it  *)
(* carries it.                                                               *)
LEMMA KeyedIs ==
  \A s, k : k \in Keyed(s) <=> \E i \in 1 .. Len(s) : k \in idem(s[i])
BY DEF Keyed

(* Commands have keys and a name the worker's own placeholder does not.      *)
LEMMA AskTypes ==
  /\ \A c \in Asks : idem(c) \subseteq Keys
  /\ idem(Nothing) = {}
BY AsksAssumption, NamesAssumption DEF Command, idem, Nothing

-----------------------------------------------------------------------------
(* What each change of the desk does to the agreement of line and keys.      *)
Held(q, c) == Keyed(q) \cup idem(c)

Apart(q, c) ==
  /\ \A i, j \in 1 .. Len(q) : i # j => idem(q[i]) \cap idem(q[j]) = {}
  /\ \A i \in 1 .. Len(q) : idem(q[i]) \cap idem(c) = {}

(* A command that is no duplicate joins the line.                            *)
LEMMA JoinKeeps ==
  ASSUME NEW q \in Seq(Asks), NEW c, NEW d \in Asks,
         Apart(q, c), idem(d) \cap Held(q, c) = {}
  PROVE  /\ Held(Append(q, d), c) = Held(q, c) \cup idem(d)
         /\ Apart(Append(q, d), c)
<1> DEFINE p == Append(q, d)
<1>1. /\ Len(p) = Len(q) + 1 /\ Len(q) \in Nat
      /\ p[Len(q) + 1] = d
      /\ \A i \in 1 .. Len(q) : p[i] = q[i]
  OBVIOUS
<1> HIDE DEF p
<1>2. 1 .. Len(p) = (1 .. Len(q)) \cup {Len(q) + 1}
  BY <1>1
<1>3. \A k : k \in Keyed(p) <=> (k \in Keyed(q) \/ k \in idem(d))
  BY <1>1, <1>2, KeyedIs, Zenon
<1>4. Held(p, c) = Held(q, c) \cup idem(d)
  BY <1>3 DEF Held
<1>5. \A i \in 1 .. Len(q) : idem(q[i]) \cap idem(d) = {}
  BY KeyedIs DEF Held
<1>6. Apart(p, c)
  <2>1. ASSUME NEW i \in 1 .. Len(p), NEW j \in 1 .. Len(p), i # j
        PROVE  idem(p[i]) \cap idem(p[j]) = {}
    <3>1. CASE i \in 1 .. Len(q) /\ j \in 1 .. Len(q)
      BY <2>1, <3>1, <1>1 DEF Apart
    <3>2. CASE i = Len(q) + 1
      BY <2>1, <3>2, <1>1, <1>2, <1>5
    <3>3. CASE j = Len(q) + 1
      BY <2>1, <3>3, <1>1, <1>2, <1>5
    <3> QED BY <3>1, <3>2, <3>3, <1>2
  <2>2. ASSUME NEW i \in 1 .. Len(p)
        PROVE  idem(p[i]) \cap idem(c) = {}
    <3>1. CASE i \in 1 .. Len(q)
      BY <3>1, <1>1 DEF Apart
    <3>2. CASE i = Len(q) + 1
      BY <3>2, <1>1 DEF Held
    <3> QED BY <3>1, <3>2, <1>2
  <2> QED BY <2>1, <2>2 DEF Apart
<1> QED BY <1>4, <1>6 DEF p

(* The front of the line is taken by a worker with empty hands.              *)
LEMMA TakeKeeps ==
  ASSUME NEW q \in Seq(Asks), q # <<>>, Apart(q, Nothing)
  PROVE  /\ Held(Tail(q), Head(q)) = Held(q, Nothing)
         /\ Apart(Tail(q), Head(q))
<1>1. /\ Len(Tail(q)) = Len(q) - 1 /\ Len(q) \in Nat /\ Len(q) >= 1
      /\ Head(q) = q[1]
      /\ \A i \in 1 .. Len(q) - 1 : Tail(q)[i] = q[i + 1]
  BY HeadTailProperties, EmptySeq
<1> DEFINE p == Tail(q)
<1> HIDE DEF p
<1>2. /\ \A i \in 1 .. Len(p) : i + 1 \in 1 .. Len(q) /\ i + 1 # 1 /\ p[i] = q[i + 1]
      /\ \A i \in 1 .. Len(q) : i # 1 => i - 1 \in 1 .. Len(p) /\ p[i - 1] = q[i]
      /\ 1 \in 1 .. Len(q)
  BY <1>1 DEF p
<1>3. \A k : k \in Keyed(q) <=> (k \in Keyed(p) \/ k \in idem(q[1]))
  BY <1>2, KeyedIs
<1>4. Held(p, q[1]) = Held(q, Nothing)
  BY <1>3, AskTypes DEF Held
<1>5. Apart(p, q[1])
  <2>1. ASSUME NEW i \in 1 .. Len(p), NEW j \in 1 .. Len(p), i # j
        PROVE  idem(p[i]) \cap idem(p[j]) = {}
    <3>1. i + 1 # j + 1
      BY <2>1, <1>1 DEF p
    <3> QED BY <3>1, <1>2 DEF Apart
  <2>2. ASSUME NEW i \in 1 .. Len(p)
        PROVE  idem(p[i]) \cap idem(q[1]) = {}
    BY <1>2 DEF Apart
  <2> QED BY <2>1, <2>2 DEF Apart
<1> QED BY <1>1, <1>4, <1>5 DEF p

(* A command is lifted out of the line, wherever it stood.                   *)
LEMMA LiftKeeps ==
  ASSUME NEW q \in Seq(Asks), NEW c, NEW i \in 1 .. Len(q), Apart(q, c)
  PROVE  /\ Held(RemoveAt(q, i), c) = Held(q, c) \ idem(q[i])
         /\ Apart(RemoveAt(q, i), c)
<1> DEFINE p == RemoveAt(q, i)
           From(j) == IF j < i THEN j ELSE j + 1
<1>1. /\ Len(p) = Len(q) - 1 /\ Len(q) \in Nat
      /\ \A j \in 1 .. Len(q) - 1 : p[j] = IF j < i THEN q[j] ELSE q[j + 1]
  BY RemoveAtIs
<1> HIDE DEF p
<1>2. \A j \in 1 .. Len(p) : From(j) \in 1 .. Len(q) /\ From(j) # i /\ p[j] = q[From(j)]
  BY <1>1
<1>3. \A j, l \in 1 .. Len(p) : j # l => From(j) # From(l)
  BY <1>1
<1>4. \A l \in 1 .. Len(q) : l # i => \E j \in 1 .. Len(p) : From(j) = l
  <2> SUFFICES ASSUME NEW l \in 1 .. Len(q), l # i
               PROVE  \E j \in 1 .. Len(p) : From(j) = l
    OBVIOUS
  <2>1. CASE l < i
    BY <2>1, <1>1
  <2>2. CASE l > i
    <3>1. l - 1 \in 1 .. Len(p) /\ From(l - 1) = l
      BY <2>2, <1>1
    <3> QED BY <3>1
  <2> QED BY <2>1, <2>2
<1> HIDE DEF From
<1>5. \A k : k \in Keyed(p) <=> (k \in Keyed(q) /\ k \notin idem(q[i]))
  <2> TAKE k
  <2>1. ASSUME k \in Keyed(p) PROVE k \in Keyed(q) /\ k \notin idem(q[i])
    <3>1. PICK j \in 1 .. Len(p) : k \in idem(p[j])
      BY <2>1, KeyedIs
    <3>2. k \in idem(q[From(j)]) /\ From(j) \in 1 .. Len(q) /\ From(j) # i
      BY <3>1, <1>2
    <3> QED BY <3>2, KeyedIs DEF Apart
  <2>2. ASSUME k \in Keyed(q), k \notin idem(q[i]) PROVE k \in Keyed(p)
    <3>1. PICK l \in 1 .. Len(q) : k \in idem(q[l])
      BY <2>2, KeyedIs
    <3>2. PICK j \in 1 .. Len(p) : From(j) = l
      BY <2>2, <3>1, <1>4
    <3>3. k \in idem(p[j])
      BY <3>1, <3>2, <1>2
    <3> QED BY <3>3, KeyedIs
  <2> QED BY <2>1, <2>2
<1>6. Held(p, c) = Held(q, c) \ idem(q[i])
  BY <1>5 DEF Held, Apart
<1>7. Apart(p, c)
  <2>1. ASSUME NEW j \in 1 .. Len(p), NEW l \in 1 .. Len(p), j # l
        PROVE  idem(p[j]) \cap idem(p[l]) = {}
    BY <2>1, <1>2, <1>3 DEF Apart
  <2>2. ASSUME NEW j \in 1 .. Len(p)
        PROVE  idem(p[j]) \cap idem(c) = {}
    BY <1>2 DEF Apart
  <2> QED BY <2>1, <2>2 DEF Apart
<1> QED BY <1>6, <1>7 DEF p

-----------------------------------------------------------------------------
(* The first of a set of positions is one of them.                           *)
LEMMA FirstIsOne ==
  ASSUME NEW kind, NEW r, queue \in Seq(Asks), Positions(kind, r) # {}
  PROVE  First(Positions(kind, r)) \in 1 .. Len(queue)
<1>1. Positions(kind, r) \in SUBSET Nat
  BY DEF Positions
<1>2. PICK n \in Positions(kind, r) : \A m \in Positions(kind, r) : n <= m
  BY <1>1, SmallestExists
<1>3. First(Positions(kind, r)) \in Positions(kind, r)
  BY <1>2 DEF First
<1> QED BY <1>3 DEF Positions

(* Lifting a command out of the line keeps the invariant's desk part.        *)
LEMMA ForgetKeeps ==
  ASSUME IndInv, NEW i \in 1 .. Len(queue), forget(i), carrying' = carrying
  PROVE  /\ queue' \in Seq(Asks) /\ keys' \subseteq Keys
         /\ owed' \in Nat /\ owed' <= owed
         /\ Len(queue') <= Len(queue) /\ owed' <= Len(queue')
         /\ KeysAgree' /\ OneAskOneWork'
<1>1. /\ queue \in Seq(Asks) /\ keys \subseteq Keys /\ owed \in Nat
      /\ owed <= Len(queue)
      /\ keys = Held(queue, carrying) /\ Apart(queue, carrying)
  <2>1. /\ queue \in Seq(Asks) /\ keys \subseteq Keys /\ owed \in Nat
        /\ owed <= Len(queue)
    BY BoundsAssumption DEF IndInv, DeskTypeOK, LineOK
  <2>2. keys = Held(queue, carrying) /\ Apart(queue, carrying)
    BY DEF IndInv, KeysAgree, OneAskOneWork, Held, Apart
  <2> QED BY <2>1, <2>2
<1>2. /\ queue' = RemoveAt(queue, i)
      /\ keys' = keys \ idem(queue[i])
      /\ owed' = IF i <= owed THEN owed - 1 ELSE owed
  BY DEF forget, Owing
<1>3. /\ queue' \in Seq(Asks) /\ Len(queue') = Len(queue) - 1 /\ Len(queue) \in Nat
  BY <1>1, <1>2, RemoveAtIs
<1>4. keys' = Held(queue', carrying') /\ Apart(queue', carrying')
  BY <1>1, <1>2, LiftKeeps
<1>5. KeysAgree' /\ OneAskOneWork'
  BY <1>4 DEF KeysAgree, OneAskOneWork, Held, Apart
<1>6. owed' \in Nat /\ owed' <= owed /\ owed' <= Len(queue')
  BY <1>1, <1>2, <1>3
<1> QED BY <1>1, <1>2, <1>3, <1>5, <1>6

(* Taking the front of the line with empty hands keeps the invariant.        *)
LEMMA CarryKeeps ==
  ASSUME IndInv, Carry, carrying = Nothing
  PROVE  IndInv'
<1>1. /\ queue \in Seq(Asks) /\ owed \in Nat /\ owed <= Len(queue)
      /\ keys = Held(queue, Nothing) /\ Apart(queue, Nothing)
      /\ queue # <<>>
  <2>1. queue \in Seq(Asks) /\ owed \in Nat /\ owed <= Len(queue) /\ queue # <<>>
    BY BoundsAssumption DEF IndInv, DeskTypeOK, LineOK, Carry
  <2>2. keys = Held(queue, Nothing) /\ Apart(queue, Nothing)
    BY DEF IndInv, KeysAgree, OneAskOneWork, Held, Apart
  <2> QED BY <2>1, <2>2
<1>2. /\ Tail(queue) \in Seq(Asks) /\ Len(Tail(queue)) = Len(queue) - 1
      /\ Head(queue) \in Asks /\ Len(queue) \in Nat /\ Len(queue) > 0
  BY <1>1, HeadTailProperties, EmptySeq
<1>3. keys' = Held(queue', carrying') /\ Apart(queue', carrying')
  BY <1>1, TakeKeeps DEF Carry
<1>4. DeskTypeOK'
  BY <1>1, <1>2, BoundsAssumption DEF IndInv, DeskTypeOK, LineOK, Carry, Owing, schedule, Places
<1>5. LineOK'
  BY <1>1, <1>2, BoundsAssumption DEF IndInv, DeskTypeOK, LineOK, Carry, Owing
<1> QED BY <1>3, <1>4, <1>5 DEF IndInv, KeysAgree, OneAskOneWork, Held, Apart

(* Whatever leaves the desk and the guard alone keeps the invariant, if the  *)
(* rest keeps its types and its place in the loop.                           *)
LEMMA AsideKeeps ==
  ASSUME IndInv, UNCHANGED <<queue, keys, carrying>>, DeskTypeOK', LineOK'
  PROVE  IndInv'
BY DEF IndInv, KeysAgree, OneAskOneWork

LEMMA InitHolds == DeskInit => IndInv
<1> SUFFICES ASSUME DeskInit PROVE IndInv
  OBVIOUS
<1>1. <<>> \in Seq(Asks) /\ Len(<<>>) = 0
  OBVIOUS
<1>4. DeskTypeOK
  <2>1. closing \in BOOLEAN /\ carrying \in Asks \cup {Nothing}
    BY Zenon DEF DeskInit
  <2>2. queue \in Seq(Asks) /\ pc \in Places
    BY <1>1 DEF DeskInit, Places
  <2>3. run \in Runs \cup {NoRun} /\ keys \subseteq Keys
    BY DEF DeskInit
  <2>4. due \subseteq Jobs /\ agenda \subseteq Jobs /\ attempted \subseteq Jobs
    BY DEF DeskInit
  <2>5. fuel \in 0 .. MaxTurns /\ owed \in 0 .. MaxQueue /\ late \in 0 .. MaxLate
    BY BoundsAssumption DEF DeskInit
  <2> QED BY <2>1, <2>2, <2>3, <2>4, <2>5 DEF DeskTypeOK
<1>5. LineOK
  BY <1>1, BoundsAssumption DEF DeskInit, LineOK
<1>2. Keyed(<<>>) = {}
  BY DEF Keyed
<1>3. KeysAgree /\ OneAskOneWork
  BY <1>2, AskTypes DEF DeskInit, KeysAgree, OneAskOneWork
<1> QED BY <1>3, <1>4, <1>5 DEF IndInv

LEMMA StepKeeps == IndInv /\ [DeskNext]_deskVars => IndInv'
<1> SUFFICES ASSUME IndInv, [DeskNext]_deskVars PROVE IndInv'
  OBVIOUS
<1>0. DeskTypeOK /\ LineOK /\ KeysAgree /\ OneAskOneWork
  BY DEF IndInv
<1> USE BoundsAssumption
<1>1. ASSUME NEW c \in Asks, post(c) PROVE IndInv'
  <2>1. keys = Held(queue, carrying) /\ Apart(queue, carrying) /\ queue \in Seq(Asks)
    BY <1>0 DEF DeskTypeOK, KeysAgree, OneAskOneWork, Held, Apart
  <2>2. idem(c) \cap Held(queue, carrying) = {}
    BY <1>1, <2>1 DEF post, dedup
  <2>3. keys' = Held(queue', carrying') /\ Apart(queue', carrying')
    BY <1>1, <2>1, <2>2, JoinKeeps DEF post
  <2>4. queue' \in Seq(Asks) /\ Len(queue') = Len(queue) + 1 /\ Len(queue) \in Nat
    BY <1>1, <2>1 DEF post
  <2>5. DeskTypeOK'
    BY <1>0, <1>1, <2>4, AskTypes DEF post, DeskTypeOK, schedule, Notified, Places
  <2>6. LineOK'
    BY <1>0, <1>1, <2>4 DEF post, DeskTypeOK, LineOK, Notified, Places
  <2> QED BY <2>3, <2>5, <2>6 DEF IndInv, KeysAgree, OneAskOneWork, Held, Apart
<1>2. CASE close
  <2>1. DeskTypeOK' /\ LineOK'
    BY <1>0, <1>2 DEF close, DeskTypeOK, LineOK, desk, schedule, Notified, Places
  <2> QED BY <1>2, <2>1, AsideKeeps DEF close, desk
<1>3. ASSUME NEW j \in Jobs, Fires(j) PROVE IndInv'
  <2>1. DeskTypeOK' /\ LineOK'
    BY <1>0, <1>3 DEF Fires, DeskTypeOK, LineOK, desk
  <2> QED BY <1>3, <2>1, AsideKeeps DEF Fires, desk
<1>4. CASE Look
  <2>1. CASE Carry
    BY <1>0, <1>4, <2>1, CarryKeeps DEF Look, LineOK
  <2>2. CASE ~Carry
    <3>1. DeskTypeOK' /\ LineOK'
      BY <1>0, <1>4, <2>2, EmptySeq DEF Look, HearClose, DeskTypeOK, LineOK, desk, schedule, Places
    <3> QED BY <1>4, <2>2, <3>1, AsideKeeps DEF Look, HearClose, desk
  <2> QED BY <2>1, <2>2
<1>5. CASE FallAsleep
  <2>1. DeskTypeOK' /\ LineOK'
    BY <1>0, <1>5 DEF FallAsleep, DeskTypeOK, LineOK, desk, schedule, Places
  <2> QED BY <1>5, <2>1, AsideKeeps DEF FallAsleep, desk
<1>6. CASE TimeOut
  <2>1. DeskTypeOK' /\ LineOK'
    BY <1>0, <1>6 DEF TimeOut, DeskTypeOK, LineOK, desk, schedule, Places
  <2> QED BY <1>6, <2>1, AsideKeeps DEF TimeOut, desk
<1>7. CASE Wake
  <2>1. CASE Carry
    BY <1>0, <1>7, <2>1, CarryKeeps DEF Wake, LineOK
  <2>2. CASE ~Carry
    <3>1. DeskTypeOK' /\ LineOK'
      BY <1>0, <1>7, <2>2, EmptySeq DEF Wake, HearClose, DeskTypeOK, LineOK, desk, schedule, Places
    <3> QED BY <1>7, <2>2, <3>1, AsideKeeps DEF Wake, HearClose, desk
  <2> QED BY <2>1, <2>2
<1>8. ASSUME NEW r \in Runs, Dispatch(r) PROVE IndInv'
  <2>1. DeskTypeOK' /\ LineOK'
    BY <1>0, <1>8 DEF Dispatch, DeskTypeOK, LineOK, desk, schedule
  <2> QED BY <1>8, <2>1, AsideKeeps DEF Dispatch, desk
<1>9. ASSUME NEW j \in Jobs, NEW r \in Runs, DispatchDue(j, r) PROVE IndInv'
  <2>1. DeskTypeOK' /\ LineOK'
    BY <1>0, <1>9 DEF DispatchDue, DeskTypeOK, LineOK, desk
  <2> QED BY <1>9, <2>1, AsideKeeps DEF DispatchDue, desk
<1>10. ASSUME NEW j \in Jobs, RefuseDue(j) PROVE IndInv'
  <2>1. DeskTypeOK' /\ LineOK'
    BY <1>0, <1>10 DEF RefuseDue, DeskTypeOK, LineOK, desk, Places
  <2> QED BY <1>10, <2>1, AsideKeeps DEF RefuseDue, desk
<1>11. CASE TickEnds
  <2>1. DeskTypeOK' /\ LineOK'
    BY <1>0, <1>11 DEF TickEnds, DeskTypeOK, LineOK, desk, schedule, Places
  <2> QED BY <1>11, <2>1, AsideKeeps DEF TickEnds, desk
<1>12. CASE interrupt_for
  <2> DEFINE Lifted == \E i \in 1 .. Len(queue) : forget(i)
  <2>1. CASE Lifted
    <3>1. PICK i \in 1 .. Len(queue) : forget(i)
      BY <2>1
    <3>2. carrying' = carrying
      BY <1>12 DEF interrupt_for
    <3>3. /\ queue' \in Seq(Asks) /\ keys' \subseteq Keys
          /\ owed' \in Nat /\ owed' <= owed
          /\ Len(queue') <= Len(queue) /\ owed' <= Len(queue')
          /\ KeysAgree' /\ OneAskOneWork'
      BY <3>1, <3>2, ForgetKeeps
    <3>4. run' \in Runs \cup {NoRun} /\ fuel' \in 0 .. MaxTurns
      BY <1>0, <1>12 DEF interrupt_for, InterruptCancel, InterruptSteer, InterruptNone, DeskTypeOK
    <3>5. UNCHANGED <<closing, pc, carrying, due, agenda, attempted, late>>
      BY <1>12 DEF interrupt_for, schedule
    <3>6. DeskTypeOK'
      BY <1>0, <3>3, <3>4, <3>5 DEF DeskTypeOK
    <3>7. Len(queue) \in Nat /\ Len(queue') \in Nat
      BY <1>0, <3>3 DEF DeskTypeOK
    <3>8. LineOK'
      BY <1>0, <3>3, <3>5, <3>7 DEF LineOK, DeskTypeOK
    <3> QED BY <3>3, <3>6, <3>8 DEF IndInv
  <2>2. CASE InterruptNone
    <3>1. DeskTypeOK' /\ LineOK'
      BY <1>0, <1>12, <2>2 DEF interrupt_for, InterruptNone, DeskTypeOK, LineOK, desk, schedule
    <3> QED BY <1>12, <2>2, <3>1, AsideKeeps DEF interrupt_for, InterruptNone, desk
  <2>3. ASSUME InterruptCancel \/ InterruptSteer PROVE Lifted
    BY <1>0, <2>3, FirstIsOne DEF InterruptCancel, InterruptSteer, DeskTypeOK
  <2> HIDE DEF Lifted
  <2> QED BY <1>12, <2>1, <2>2, <2>3 DEF interrupt_for
<1>13. CASE Freeze
  <2>1. DeskTypeOK' /\ LineOK'
    BY <1>0, <1>13 DEF Freeze, DeskTypeOK, LineOK, desk, schedule
  <2> QED BY <1>13, <2>1, AsideKeeps DEF Freeze, desk
<1>14. CASE Finish
  <2>1. DeskTypeOK' /\ LineOK'
    BY <1>0, <1>14 DEF Finish, DeskTypeOK, LineOK, schedule, Places
  <2>2. \A k \in idem(carrying) : k \notin Keyed(queue)
    BY <1>0, KeyedIs DEF OneAskOneWork
  <2>3. KeysAgree'
    BY <1>0, <1>14, <2>2, AskTypes DEF Finish, KeysAgree
  <2>4. OneAskOneWork'
    BY <1>0, <1>14, AskTypes DEF Finish, OneAskOneWork
  <2> QED BY <2>1, <2>3, <2>4 DEF IndInv
<1>15. CASE CloseCity
  <2>1. DeskTypeOK' /\ LineOK'
    BY <1>0, <1>15 DEF CloseCity, DeskTypeOK, LineOK, desk, schedule, Places
  <2> QED BY <1>15, <2>1, AsideKeeps DEF CloseCity, desk
<1>16. CASE UNCHANGED deskVars
  <2>1. DeskTypeOK' /\ LineOK'
    BY <1>0, <1>16 DEF deskVars, DeskTypeOK, LineOK
  <2> QED BY <1>16, <2>1, AsideKeeps DEF deskVars
<1> QED
  BY <1>1, <1>2, <1>3, <1>4, <1>5, <1>6, <1>7, <1>8, <1>9, <1>10, <1>11, <1>12,
     <1>13, <1>14, <1>15, <1>16 DEF DeskNext, Worker

THEOREM Invariance == DeskSpec => []IndInv
BY InitHolds, StepKeeps, PTL DEF DeskSpec

(* The desk, the worker and its guard keep their types.                      *)
THEOREM DeskTypes == DeskSpec => []DeskTypeOK
BY Invariance, PTL DEF IndInv

(* The keys the desk holds are exactly those in line or under way, through   *)
(* every interleaving of posts, interrupts and the worker (Waiting::keys).   *)
THEOREM KeysAlwaysAgree == DeskSpec => []KeysAgree
BY Invariance, PTL DEF IndInv

(* However often a frame is sent again, one ask is one piece of work.        *)
THEOREM OneAskIsOneWork == DeskSpec => []OneAskOneWork
BY Invariance, PTL DEF IndInv

(* One key is one command, whatever is posted, repeated or interrupted.      *)
THEOREM OneKeyIsOneCommand == DeskSpec => []OneKeyOneCommand
<1>1. DeskTypeOK /\ KeysAgree /\ OneAskOneWork => OneKeyOneCommand
  BY DEF OneKeyOneCommand
<1> QED BY <1>1, DeskTypes, KeysAlwaysAgree, OneAskIsOneWork, PTL

(* The worker hears a close only after everything then in line has left it.  *)
THEOREM NothingLostByClosing == DeskSpec => []CloseLosesNothing
<1>1. IndInv => CloseLosesNothing
  BY DEF IndInv, LineOK, CloseLosesNothing
<1> QED BY <1>1, Invariance, PTL

-----------------------------------------------------------------------------
(* The vault and the book.                                                   *)

\* A bounded non-empty set of naturals has a greatest element: the least of
\* its upper bounds is in it.
LEMMA LargestExists ==
  ASSUME NEW S \in SUBSET Nat, S # {}, NEW b \in Nat, \A s \in S : s <= b
  PROVE  \E m \in S : \A s \in S : s <= m
<1> DEFINE U == {u \in Nat : \A s \in S : s <= u}
<1>1. PICK m \in U : \A u \in U : m <= u
  BY SmallestExists
<1>2. m \in S
  <2>1. SUFFICES ASSUME m \notin S
                 PROVE  FALSE
    OBVIOUS
  <2>2. \A s \in S : s <= m - 1
    BY <2>1, <1>1
  <2>3. m - 1 \in Nat
    <3>1. PICK s \in S : TRUE
      OBVIOUS
    <3>2. QED
      BY <3>1, <2>2
  <2>4. m - 1 \in U
    BY <2>2, <2>3
  <2>5. QED
    BY <2>4, <1>1
<1>3. QED
  BY <1>1, <1>2

-----------------------------------------------------------------------------
(* What the variables range over.                                            *)

Backends == {"keyring", "memory"}
Vault == [Refs -> Nat \cup {None}]
Choice == [name : Names, model : Models]
EndpointMap == UNION {[S -> Endpoint] : S \in SUBSET Names}
ChoiceMap == UNION {[S -> Choice] : S \in SUBSET Tags}
Book == [endpoints : EndpointMap, chosen : ChoiceMap]

AttachedLine == [kind : {"attached"}, name : Names, endpoint : Endpoint]
SelectedLine == [kind : {"selected"}, tag : Tags, name : Names, model : Models]
CapturedLine == [kind : {"captured"}, ref : Refs, at : Nat \cup {None},
                 backend : Backends, process : Nat]
Redemption == [login : Nat, process : Nat]
NoticeLine == [kind : {"login", "degraded"}]
Line == AttachedLine \cup SelectedLine \cup CapturedLine \cup NoticeLine

Types ==
  /\ now \in Nat /\ process \in Nat /\ gen \in Nat /\ begun \in Nat
  /\ shaded \subseteq Refs /\ backend \in Backends
  /\ keyring \in Vault /\ memory \in Vault
  /\ logins \in (1..begun) \cup {None} /\ expiries \in Nat \cup {None}
  /\ ledger \in Seq(Line) /\ redeemed \in Seq(Redemption)
  /\ torn \in BOOLEAN

(* A captured line is backed by its value. CapturedIsHeld alone is not       *)
(* inductive: that no line is of a process yet to come is what makes a       *)
(* restart, which empties the session store, leave it standing.              *)
HeldIn(l, k, m, p) ==
  l.kind = "captured" =>
    /\ l.process <= p
    /\ IF l.backend = "keyring" THEN k[l.ref] # None ELSE l.process = p => m[l.ref] # None

LinesHeld(s, k, m, p) == \A i \in 1..Len(s) : HeldIn(s[i], k, m, p)

(* No redeemed login is one yet to be begun.                                 *)
RedeemedWasBegun == \A i \in 1..Len(redeemed) : redeemed[i].login <= begun

(* The expiry this process knows is never later than that of the token it    *)
(* holds: a renewal that states none keeps the old one, and one whose second *)
(* half is refused has replaced the token already. FreshWhenKnown rests on   *)
(* it, being about what was handed out and not about what is held.           *)
ExpiryOK ==
  expiries # None =>
    /\ expiries <= now + Life
    /\ "oauth" \notin shaded => Store["oauth"] # None /\ expiries <= Store["oauth"]

LoginsInv == RedeemedOnce /\ RedeemedWasBegun
TokensInv == ExpiryOK /\ FreshWhenKnown /\ RefreshIsCurrent

Inv ==
  /\ Types /\ BookIsTheLedger /\ LinesHeld(ledger, keyring, memory, process)
  /\ LoginsInv /\ TokensInv

-----------------------------------------------------------------------------
(* The fold.                                                                 *)

LEMMA Appended ==
  ASSUME NEW T, NEW s \in Seq(T), NEW l \in T
  PROVE  /\ Append(s, l) \in Seq(T) /\ Len(s) \in Nat /\ Len(Append(s, l)) = Len(s) + 1
         /\ Append(s, l)[Len(s) + 1] = l
         /\ \A i \in 1..Len(s) : Append(s, l)[i] = s[i]
OBVIOUS

(* A set of positions has a newest.                                          *)
LEMMA NewestIs ==
  ASSUME NEW b \in Nat, NEW S \in SUBSET (1..b), S # {}
  PROVE  Newest(S) \in S /\ \A j \in S : j <= Newest(S)
<1>1. S \in SUBSET Nat /\ \A s \in S : s <= b
  OBVIOUS
<1>2. \E m \in S : \A s \in S : s <= m
  BY <1>1, LargestExists
<1> QED BY <1>2 DEF Newest

(* The line behind all others is the newest of those it joins.               *)
LEMMA NewestJoins ==
  ASSUME NEW b \in Nat, NEW S \in SUBSET (1..b)
  PROVE  Newest(S \cup {b + 1}) = b + 1
<1> DEFINE T == S \cup {b + 1}
<1>1. T \in SUBSET (1..(b + 1)) /\ T # {} /\ b + 1 \in Nat
  OBVIOUS
<1>2. Newest(T) \in T /\ \A j \in T : j <= Newest(T)
  BY <1>1, NewestIs
<1>3. b + 1 <= Newest(T)
  BY <1>2
<1>4. Newest(T) \in 1..(b + 1)
  BY <1>1, <1>2
<1>5. \A n \in 1..(b + 1) : b + 1 <= n => n = b + 1
  OBVIOUS
<1> HIDE DEF T
<1>6. Newest(T) = b + 1
  BY <1>3, <1>4, <1>5
<1> QED BY <1>6 DEF T

LEMMA LineKinds ==
  \A l \in Line :
    /\ l.kind = "attached" => l \in AttachedLine /\ l.name \in Names /\ l.endpoint \in Endpoint
    /\ l.kind = "selected" =>
         l \in SelectedLine /\ l.tag \in Tags /\ l.name \in Names /\ l.model \in Models
    /\ l.kind = "captured" =>
         /\ l \in CapturedLine /\ l.ref \in Refs /\ l.backend \in Backends
         /\ l.process \in Nat /\ l.at \in Nat \cup {None}
<1> SUFFICES ASSUME NEW l \in Line
             PROVE  /\ l.kind = "attached" => l \in AttachedLine /\ l.name \in Names /\ l.endpoint \in Endpoint
                    /\ l.kind = "selected" =>
                         l \in SelectedLine /\ l.tag \in Tags /\ l.name \in Names /\ l.model \in Models
                    /\ l.kind = "captured" =>
                         /\ l \in CapturedLine /\ l.ref \in Refs /\ l.backend \in Backends
                         /\ l.process \in Nat /\ l.at \in Nat \cup {None}
  OBVIOUS
<1>1. CASE l \in AttachedLine
  BY <1>1 DEF AttachedLine
<1>2. CASE l \in SelectedLine
  BY <1>2 DEF SelectedLine
<1>3. CASE l \in CapturedLine
  BY <1>3 DEF CapturedLine
<1>4. CASE l \in NoticeLine
  BY <1>4 DEF NoticeLine
<1> QED BY <1>1, <1>2, <1>3, <1>4 DEF Line

LEMMA FoldTyped ==
  ASSUME NEW s \in Seq(Line)
  PROVE  fold(s) \in Book /\ fold(s).endpoints = EndpointsOf(s) /\ fold(s).chosen = ChosenOf(s)
<1>0. Len(s) \in Nat /\ \A i \in 1..Len(s) : s[i] \in Line
  OBVIOUS
<1>1. ASSUME NEW n \in Names, Attached(s, n) # {}
      PROVE  /\ Newest(Attached(s, n)) \in Attached(s, n)
             /\ s[Newest(Attached(s, n))].endpoint \in Endpoint
  <2>1. Attached(s, n) \in SUBSET (1..Len(s))
    BY DEF Attached
  <2>2. Newest(Attached(s, n)) \in Attached(s, n)
    BY <1>0, <1>1, <2>1, NewestIs
  <2> QED BY <1>0, <2>1, <2>2, LineKinds DEF Attached
<1>2. ASSUME NEW t \in Tags, Selected(s, t) # {}
      PROVE  /\ Newest(Selected(s, t)) \in Selected(s, t)
             /\ s[Newest(Selected(s, t))].name \in Names
             /\ s[Newest(Selected(s, t))].model \in Models
  <2>1. Selected(s, t) \in SUBSET (1..Len(s))
    BY DEF Selected
  <2>2. Newest(Selected(s, t)) \in Selected(s, t)
    BY <1>0, <1>2, <2>1, NewestIs
  <2> QED BY <1>0, <2>1, <2>2, LineKinds DEF Selected
<1>3. EndpointsOf(s) \in EndpointMap
  <2> DEFINE S == {m \in Names : Attached(s, m) # {}}
  <2>1. EndpointsOf(s) \in [S -> Endpoint]
    BY <1>1 DEF EndpointsOf
  <2> QED BY <2>1 DEF EndpointMap
<1>4. ChosenOf(s) \in ChoiceMap
  <2> DEFINE S == {u \in Tags : Selected(s, u) # {}}
  <2>1. ChosenOf(s) \in [S -> Choice]
    BY <1>2 DEF ChosenOf, Choice
  <2> QED BY <2>1 DEF ChoiceMap
<1> QED BY <1>3, <1>4 DEF fold, Book

LEMMA FoldEmpty == fold(<<>>) = EmptyBook
<1>1. \A n \in Names : Attached(<<>>, n) = {}
  BY DEF Attached
<1>2. \A t \in Tags : Selected(<<>>, t) = {}
  BY DEF Selected
<1>3. {m \in Names : Attached(<<>>, m) # {}} = {} /\ {u \in Tags : Selected(<<>>, u) # {}} = {}
  BY <1>1, <1>2
<1>4. EndpointsOf(<<>>) = [n \in {} |-> None]
  BY <1>3 DEF EndpointsOf
<1>5. ChosenOf(<<>>) = [t \in {} |-> None]
  BY <1>3 DEF ChosenOf
<1> QED BY <1>4, <1>5 DEF fold, EmptyBook
(* One more line changes the fold as it changes the book a worker holds: the *)
(* step that makes memory and history agree, whichever wrote last.           *)
LEMMA FoldAppend ==
  ASSUME NEW s \in Seq(Line), NEW l \in Line
  PROVE  fold(Append(s, l)) = apply_payload(fold(s), l)
<1> DEFINE u == Append(s, l)
<1>0. /\ u \in Seq(Line) /\ Len(s) \in Nat /\ Len(u) = Len(s) + 1 /\ u[Len(s) + 1] = l
      /\ \A i \in 1..Len(s) : u[i] = s[i]
  BY Appended
<1>1. \A i \in 1..Len(u) : i \in 1..Len(s) \/ i = Len(s) + 1
  BY <1>0
<1>2. \A i \in 1..Len(s) : i \in 1..Len(u)
  BY <1>0
<1>3. Len(s) + 1 \in 1..Len(u)
  BY <1>0
<1> HIDE DEF u
<1>4. ASSUME NEW n
      PROVE  Attached(u, n) = IF l.kind = "attached" /\ l.name = n
                              THEN Attached(s, n) \cup {Len(s) + 1} ELSE Attached(s, n)
  BY <1>0, <1>1, <1>2, <1>3 DEF Attached
<1>5. ASSUME NEW t
      PROVE  Selected(u, t) = IF l.kind = "selected" /\ l.tag = t
                              THEN Selected(s, t) \cup {Len(s) + 1} ELSE Selected(s, t)
  BY <1>0, <1>1, <1>2, <1>3 DEF Selected
<1>6. /\ \A n : Attached(s, n) \in SUBSET (1..Len(s))
      /\ \A t : Selected(s, t) \in SUBSET (1..Len(s))
  BY DEF Attached, Selected
<1>7. \A S \in SUBSET (1..Len(s)) : S # {} => u[Newest(S)] = s[Newest(S)]
  BY <1>0, NewestIs
<1>8. \A S \in SUBSET (1..Len(s)) : u[Newest(S \cup {Len(s) + 1})] = l
  BY <1>0, NewestJoins
<1>9. fold(s) = [endpoints |-> EndpointsOf(s), chosen |-> ChosenOf(s)]
  BY DEF fold
<1>10. EndpointsOf(u) = IF l.kind = "attached" THEN With(EndpointsOf(s), l.name, l.endpoint)
                        ELSE EndpointsOf(s)
  <2>1. CASE l.kind = "attached"
    <3>1. l.name \in Names
      BY <2>1, LineKinds
    <3>2. DOMAIN EndpointsOf(u) = DOMAIN With(EndpointsOf(s), l.name, l.endpoint)
      BY <1>4, <2>1, <3>1 DEF EndpointsOf, With
    <3>3. ASSUME NEW n \in DOMAIN EndpointsOf(u)
          PROVE  EndpointsOf(u)[n] = With(EndpointsOf(s), l.name, l.endpoint)[n]
      <4>0. n \in Names /\ Attached(u, n) # {}
        BY DEF EndpointsOf
      <4>1. CASE n = l.name
        BY <1>4, <1>6, <1>8, <2>1, <4>0, <4>1 DEF EndpointsOf, With
      <4>2. CASE n # l.name
        BY <1>4, <1>6, <1>7, <2>1, <4>0, <4>2 DEF EndpointsOf, With
      <4> QED BY <4>1, <4>2
    <3> QED BY <2>1, <3>2, <3>3 DEF EndpointsOf, With
  <2>2. CASE l.kind # "attached"
    <3>1. \A n : Attached(u, n) = Attached(s, n)
      BY <1>4, <2>2
    <3>2. \A n \in Names : Attached(s, n) # {} => u[Newest(Attached(s, n))] = s[Newest(Attached(s, n))]
      BY <1>6, <1>7
    <3> QED BY <2>2, <3>1, <3>2 DEF EndpointsOf
  <2> QED BY <2>1, <2>2
<1>11. ChosenOf(u) = IF l.kind = "selected"
                     THEN With(ChosenOf(s), l.tag, [name |-> l.name, model |-> l.model])
                     ELSE ChosenOf(s)
  <2> DEFINE c == [name |-> l.name, model |-> l.model]
  <2>1. CASE l.kind = "selected"
    <3>1. l.tag \in Tags
      BY <2>1, LineKinds
    <3>2. DOMAIN ChosenOf(u) = DOMAIN With(ChosenOf(s), l.tag, c)
      BY <1>5, <2>1, <3>1 DEF ChosenOf, With
    <3>3. ASSUME NEW t \in DOMAIN ChosenOf(u)
          PROVE  ChosenOf(u)[t] = With(ChosenOf(s), l.tag, c)[t]
      <4>0. t \in Tags /\ Selected(u, t) # {}
        BY DEF ChosenOf
      <4>1. CASE t = l.tag
        <5>1. u[Newest(Selected(u, t))] = l
          BY <1>5, <1>6, <1>8, <2>1, <4>1
        <5> QED BY <4>0, <4>1, <5>1 DEF ChosenOf, With
      <4>2. CASE t # l.tag
        <5>1. Selected(u, t) = Selected(s, t)
          BY <1>5, <4>2
        <5>2. u[Newest(Selected(u, t))] = s[Newest(Selected(s, t))]
          BY <1>6, <1>7, <4>0, <5>1
        <5> QED BY <4>0, <4>2, <5>1, <5>2 DEF ChosenOf, With
      <4> QED BY <4>1, <4>2
    <3> QED BY <2>1, <3>2, <3>3 DEF ChosenOf, With
  <2>2. CASE l.kind # "selected"
    <3>1. \A t : Selected(u, t) = Selected(s, t)
      BY <1>5, <2>2
    <3>2. \A t \in Tags : Selected(s, t) # {} => u[Newest(Selected(s, t))] = s[Newest(Selected(s, t))]
      BY <1>6, <1>7
    <3> QED BY <2>2, <3>1, <3>2 DEF ChosenOf
  <2> QED BY <2>1, <2>2
<1>12. fold(u) = apply_payload(fold(s), l)
  <2>1. CASE l.kind = "attached"
    BY <1>9, <1>10, <1>11, <2>1 DEF fold, apply_payload
  <2>2. CASE l.kind = "selected"
    BY <1>9, <1>10, <1>11, <2>2 DEF fold, apply_payload
  <2>3. CASE l.kind # "attached" /\ l.kind # "selected"
    BY <1>9, <1>10, <1>11, <2>3 DEF fold, apply_payload
  <2> QED BY <2>1, <2>2, <2>3
<1> QED BY <1>12 DEF u
-----------------------------------------------------------------------------
(* Appending.                                                                *)

LEMMA Recorded ==
  ASSUME NEW l \in Line, NEW fail, record(l, fail), ledger \in Seq(Line), BookIsTheLedger
  PROVE  /\ ledger' \in Seq(Line) /\ BookIsTheLedger'
         /\ ledger' = ledger \/ (ledger' = Append(ledger, l) /\ fail # "line")
<1>1. CASE fail = "line"
  BY <1>1 DEF record, BookIsTheLedger
<1>2. CASE fail # "line"
  <2>1. ledger' = Append(ledger, l) /\ book' = apply_payload(book, l)
    BY <1>2 DEF record
  <2>2. fold(Append(ledger, l)) = apply_payload(fold(ledger), l)
    BY FoldAppend
  <2> QED BY <1>2, <2>1, <2>2 DEF BookIsTheLedger
<1> QED BY <1>1, <1>2

LEMMA AppendHeld ==
  ASSUME NEW s \in Seq(Line), NEW l \in Line, NEW k, NEW m, NEW p,
         LinesHeld(s, k, m, p), HeldIn(l, k, m, p)
  PROVE  LinesHeld(Append(s, l), k, m, p)
<1> DEFINE u == Append(s, l)
<1>1. /\ u \in Seq(Line) /\ Len(s) \in Nat /\ Len(u) = Len(s) + 1 /\ u[Len(s) + 1] = l
      /\ \A i \in 1..Len(s) : u[i] = s[i]
  BY Appended
<1>2. \A i \in 1..Len(u) : i \in 1..Len(s) \/ i = Len(s) + 1
  BY <1>1
<1> HIDE DEF u
<1>3. LinesHeld(u, k, m, p)
  BY <1>1, <1>2 DEF LinesHeld
<1> QED BY <1>3 DEF u

(* A store that loses nothing keeps every captured line true.                *)
Kept(v, w) == \A r \in Refs : v[r] # None => w[r] # None

LEMMA StillHeld ==
  ASSUME NEW s \in Seq(Line), NEW k \in Vault, NEW m \in Vault, NEW k2 \in Vault, NEW m2 \in Vault,
         NEW p, LinesHeld(s, k, m, p), Kept(k, k2), Kept(m, m2)
  PROVE  LinesHeld(s, k2, m2, p)
<1> SUFFICES ASSUME NEW i \in 1..Len(s), s[i].kind = "captured"
             PROVE  HeldIn(s[i], k2, m2, p)
  BY DEF LinesHeld, HeldIn
<1>1. s[i] \in Line
  OBVIOUS
<1>2. s[i].ref \in Refs
  BY <1>1, LineKinds
<1>3. HeldIn(s[i], k, m, p)
  BY DEF LinesHeld
<1> QED BY <1>2, <1>3 DEF HeldIn, Kept

-----------------------------------------------------------------------------
(* The vault.                                                                *)

LEMMA StoreIs == Types => Store \in Vault /\ Store = (IF backend = "keyring" THEN keyring ELSE memory)
BY DEF Types, Store

LEMMA Putting ==
  ASSUME Types, NEW s \in Vault, Kept(Store, s), SetStore(s), backend' = backend
  PROVE  /\ keyring' \in Vault /\ memory' \in Vault /\ Store' = s
         /\ Kept(keyring, keyring') /\ Kept(memory, memory')
         /\ backend = "keyring" => keyring' = s
         /\ backend # "keyring" => memory' = s
<1>1. CASE backend = "keyring"
  BY <1>1 DEF Types, SetStore, Store, Kept
<1>2. CASE backend # "keyring"
  BY <1>2 DEF Types, SetStore, Store, Kept
<1> QED BY <1>1, <1>2

(* What putting a pair of tokens does, one value after the other.            *)
LEMMA PutDoes ==
  ASSUME NEW s \in Vault, NEW answer, answer.access \in Nat, answer.refresh \in Nat \cup {None},
         NEW fail
  PROVE  /\ PutTokens(s, answer, fail) \in Vault
         /\ PutTokens(s, answer, fail)["oauth"] =
              (IF Refuses("oauth", fail) THEN s["oauth"] ELSE answer.access)
         /\ PutTokens(s, answer, fail)["oauth-refresh"] =
              (IF Refuses("oauth", fail) \/ answer.refresh = None \/ Refuses("oauth-refresh", fail)
               THEN s["oauth-refresh"] ELSE answer.refresh)
         /\ Kept(s, PutTokens(s, answer, fail))
<1> DEFINE a == PutAccess(s, answer, fail)
           t == PutTokens(s, answer, fail)
<1>0. None \notin Nat
  BY ProvidersAssumption
<1>1. /\ a \in Vault /\ a["oauth-refresh"] = s["oauth-refresh"]
      /\ a["oauth"] = IF Refuses("oauth", fail) THEN s["oauth"] ELSE answer.access
      /\ \A r \in Refs : r # "oauth" => a[r] = s[r]
  <2>1. CASE Refuses("oauth", fail)
    BY <2>1 DEF PutAccess
  <2>2. CASE ~Refuses("oauth", fail)
    BY <2>2 DEF PutAccess, Vault, Refs
  <2> QED BY <2>1, <2>2
<1> HIDE DEF a
<1>2. t = IF Refuses("oauth", fail) \/ answer.refresh = None \/ Refuses("oauth-refresh", fail)
          THEN a ELSE [a EXCEPT !["oauth-refresh"] = answer.refresh]
  BY DEF PutTokens, a
<1> HIDE DEF t
<1>3. CASE Refuses("oauth", fail) \/ answer.refresh = None \/ Refuses("oauth-refresh", fail)
  <2>1. t = a
    BY <1>2, <1>3
  <2>2. t \in Vault /\ Kept(s, t)
    BY <1>0, <1>1, <2>1 DEF Kept
  <2> QED BY <1>1, <1>3, <2>1, <2>2 DEF t
<1>4. CASE ~(Refuses("oauth", fail) \/ answer.refresh = None \/ Refuses("oauth-refresh", fail))
  <2>1. t = [a EXCEPT !["oauth-refresh"] = answer.refresh]
    BY <1>2, <1>4
  <2>2. /\ t \in Vault /\ t["oauth-refresh"] = answer.refresh
        /\ \A r \in Refs : r # "oauth-refresh" => t[r] = a[r]
    BY <1>1, <2>1 DEF Vault, Refs
  <2>3. t["oauth"] = a["oauth"]
    BY <2>2 DEF Refs
  <2>4. Kept(s, t)
    BY <1>0, <1>1, <1>4, <2>2 DEF Kept
  <2> QED BY <1>1, <1>4, <2>2, <2>3, <2>4 DEF t
<1> QED BY <1>3, <1>4
-----------------------------------------------------------------------------
(* What the handlers share.                                                  *)

LEMMA LoginsStay ==
  ASSUME LoginsInv, UNCHANGED <<logins, redeemed, begun>>
  PROVE  LoginsInv'
BY DEF LoginsInv, RedeemedOnce, RedeemedWasBegun

LEMMA TokensStay ==
  ASSUME Types, TokensInv, now' \in Nat, now <= now',
         UNCHANGED <<shaded, gen, expiries, torn, handed>>,
         Store'["oauth"] = Store["oauth"], Store'["oauth-refresh"] = Store["oauth-refresh"]
  PROVE  TokensInv'
<1>1. ExpiryOK'
  <2> SUFFICES ASSUME expiries' # None
               PROVE  /\ expiries' <= now' + Life
                      /\ "oauth" \notin shaded' => Store'["oauth"] # None /\ expiries' <= Store'["oauth"]
    BY DEF ExpiryOK
  <2>1. expiries' = expiries /\ expiries \in Nat /\ shaded' = shaded /\ now \in Nat
    BY DEF Types
  <2>2. expiries <= now + Life
    BY <2>1 DEF TokensInv, ExpiryOK
  <2>3. expiries' <= now' + Life
    BY <2>1, <2>2, ProvidersAssumption
  <2>4. "oauth" \notin shaded => Store["oauth"] # None /\ expiries <= Store["oauth"]
    BY <2>1 DEF TokensInv, ExpiryOK
  <2> QED BY <2>1, <2>3, <2>4
<1>2. FreshWhenKnown'
  BY DEF TokensInv, FreshWhenKnown
<1>3. RefreshIsCurrent'
  BY DEF TokensInv, RefreshIsCurrent, resolve
<1> QED BY <1>1, <1>2, <1>3 DEF TokensInv

(* A pair of tokens is kept: as far as the vault takes it, the expiry never  *)
(* passes the token's and the refresh token is the provider's, or was lost.  *)
LEMMA KeepDoes ==
  ASSUME Inv, NEW a \in Answers, NEW fail, Granted(a), Keep(a, fail),
         UNCHANGED <<now, process, shaded, backend>>
  PROVE  /\ keyring' \in Vault /\ memory' \in Vault /\ gen' \in Nat
         /\ expiries' \in Nat \cup {None} /\ torn' \in BOOLEAN
         /\ ExpiryOK' /\ RefreshIsCurrent' /\ Store' = PutTokens(Store, a, fail)
         /\ LinesHeld(ledger, keyring', memory', process)
         /\ ExpiryLine(a) \in Line
         /\ Stored(a, fail) => HeldIn(ExpiryLine(a), keyring', memory', process)
<1>1. /\ Types /\ ledger \in Seq(Line) /\ now \in Nat /\ gen \in Nat /\ process \in Nat
      /\ keyring \in Vault /\ memory \in Vault /\ backend \in Backends /\ torn \in BOOLEAN
      /\ expiries \in Nat \cup {None} /\ Life \in Nat /\ None \notin Nat
  BY ProvidersAssumption DEF Inv, Types
<1>2. /\ a.access = now + Life /\ a.access \in Nat /\ a.refresh \in {None, gen + 1}
      /\ a.refresh \in Nat \cup {None} /\ a.stated \in BOOLEAN
  BY <1>1 DEF Answers
<1> DEFINE s == PutTokens(Store, a, fail)
<1>3. Store \in Vault
  BY <1>1, StoreIs
<1>4. /\ s \in Vault
      /\ s["oauth"] = (IF Refuses("oauth", fail) THEN Store["oauth"] ELSE a.access)
      /\ s["oauth-refresh"] =
           (IF Refuses("oauth", fail) \/ a.refresh = None \/ Refuses("oauth-refresh", fail)
            THEN Store["oauth-refresh"] ELSE a.refresh)
      /\ Kept(Store, s)
  BY <1>2, <1>3, PutDoes
<1>5. SetStore(s)
  BY DEF Keep
<1> HIDE DEF s
<1>6. /\ keyring' \in Vault /\ memory' \in Vault /\ Store' = s
      /\ Kept(keyring, keyring') /\ Kept(memory, memory')
      /\ backend = "keyring" => keyring' = s
      /\ backend # "keyring" => memory' = s
  BY <1>1, <1>4, <1>5, Putting
<1>7. gen' \in Nat /\ gen' = (IF a.refresh = None THEN gen ELSE a.refresh)
  BY <1>1, <1>2 DEF Granted
<1>8. expiries' = expiries \/ (Stored(a, fail) /\ expiries' = a.access)
  BY DEF Keep
<1>9. torn' = (torn \/ (a.refresh # None /\ ~Stored(a, fail)))
  BY DEF Keep
<1>10. ExpiryOK'
  <2> SUFFICES ASSUME expiries' # None
               PROVE  /\ expiries' <= now' + Life
                      /\ "oauth" \notin shaded' => Store'["oauth"] # None /\ expiries' <= Store'["oauth"]
    BY DEF ExpiryOK
  <2>1. CASE expiries' = expiries
    <3>1. expiries \in Nat /\ expiries <= now + Life
      BY <1>1, <2>1 DEF Inv, TokensInv, ExpiryOK
    <3>2. ASSUME "oauth" \notin shaded PROVE s["oauth"] # None /\ expiries <= s["oauth"]
      <4>1. Store["oauth"] # None /\ expiries <= Store["oauth"]
        BY <2>1, <3>2 DEF Inv, TokensInv, ExpiryOK
      <4>2. s["oauth"] = Store["oauth"] \/ s["oauth"] = now + Life
        BY <1>2, <1>4
      <4> QED BY <1>1, <1>2, <3>1, <4>1, <4>2
    <3> QED BY <1>6, <2>1, <3>1, <3>2
  <2>2. CASE Stored(a, fail) /\ expiries' = a.access
    <3>1. s["oauth"] = now + Life
      BY <1>2, <1>4, <2>2 DEF Stored
    <3> QED BY <1>1, <1>2, <1>6, <2>2, <3>1
  <2> QED BY <1>8, <2>1, <2>2
<1>11. RefreshIsCurrent'
  <2> SUFFICES ASSUME ~torn', "oauth-refresh" \notin shaded
               PROVE  s["oauth-refresh"] \in {None, gen'}
    BY <1>6 DEF RefreshIsCurrent, resolve
  <2>1. ~torn /\ (a.refresh # None => Stored(a, fail))
    BY <1>9
  <2>2. Store["oauth-refresh"] \in {None, gen}
    BY <2>1 DEF Inv, TokensInv, RefreshIsCurrent, resolve
  <2>3. CASE a.refresh = None
    BY <1>4, <1>7, <2>2, <2>3
  <2>4. CASE a.refresh # None
    BY <1>4, <1>7, <2>1, <2>4 DEF Stored
  <2> QED BY <2>3, <2>4
<1>12. LinesHeld(ledger, keyring', memory', process)
  BY <1>1, <1>6, StillHeld DEF Inv
<1>13. ExpiryLine(a) \in CapturedLine /\ ExpiryLine(a).ref = "oauth"
       /\ ExpiryLine(a).backend = backend /\ ExpiryLine(a).process = process
  BY <1>1, <1>2 DEF ExpiryLine, Captured, CapturedLine, Refs
<1>14. ASSUME Stored(a, fail) PROVE HeldIn(ExpiryLine(a), keyring', memory', process)
  <2>1. s["oauth"] \in Nat
    BY <1>2, <1>4, <1>14 DEF Stored
  <2>2. s["oauth"] # None /\ process <= process
    BY <1>1, <2>1
  <2> QED BY <1>6, <1>13, <2>2 DEF HeldIn
<1> QED BY <1>1, <1>6, <1>7, <1>8, <1>9, <1>10, <1>11, <1>12, <1>13, <1>14, <1>2 DEF Line, s
-----------------------------------------------------------------------------
(* Each handler keeps the invariant.                                         *)

LEMMA InvInit == ProvidersInit => Inv
<1> SUFFICES ASSUME ProvidersInit PROVE Inv
  OBVIOUS
<1>1. Types
  <2>1. shaded \subseteq Refs
    <3>1. shaded \in {{}, {"oauth"}, {"oauth-refresh"}}
      BY DEF ProvidersInit
    <3> QED BY <3>1 DEF Refs
  <2>2. keyring \in Vault /\ memory \in Vault
    BY DEF ProvidersInit, Vault
  <2>3. ledger \in Seq(Line) /\ redeemed \in Seq(Redemption)
    BY DEF ProvidersInit
  <2>4. /\ now \in Nat /\ process \in Nat /\ gen \in Nat /\ begun \in Nat
        /\ backend \in Backends /\ torn \in BOOLEAN
    BY DEF ProvidersInit, Backends
  <2>5. logins = None /\ expiries = None
    BY DEF ProvidersInit
  <2> QED BY <2>1, <2>2, <2>3, <2>4, <2>5 DEF Types
<1>2. BookIsTheLedger
  BY FoldEmpty DEF ProvidersInit, BookIsTheLedger
<1>3. LinesHeld(ledger, keyring, memory, process)
  BY DEF ProvidersInit, LinesHeld
<1>4. LoginsInv
  BY DEF ProvidersInit, LoginsInv, RedeemedOnce, RedeemedWasBegun
<1>5. TokensInv
  BY DEF ProvidersInit, TokensInv, ExpiryOK, FreshWhenKnown, RefreshIsCurrent, resolve, Store, Refs
<1> QED BY <1>1, <1>2, <1>3, <1>4, <1>5 DEF Inv

LEMMA PutSecretKeeps ==
  ASSUME Inv, NEW fail, put_secret(fail)
  PROVE  Inv'
<1>1. /\ Types /\ ledger \in Seq(Line) /\ Store \in Vault /\ process \in Nat /\ now \in Nat
      /\ backend \in Backends /\ None \notin Nat /\ BookIsTheLedger
      /\ LinesHeld(ledger, keyring, memory, process) /\ TokensInv /\ LoginsInv
  BY StoreIs, ProvidersAssumption DEF Inv, Types
<1>2. /\ UNCHANGED <<now, process, shaded, backend, gen, logins, expiries, begun>>
      /\ UNCHANGED <<redeemed, torn, handed>>
  BY DEF put_secret
<1>3. LoginsInv'
  BY <1>1, <1>2, LoginsStay
<1>4. CASE Refuses("key", fail)
  <2>1. UNCHANGED <<keyring, memory, ledger, book>>
    BY <1>4 DEF put_secret
  <2>2. Store' = Store
    BY <1>2, <2>1 DEF Store
  <2>3. TokensInv'
    BY <1>1, <1>2, <2>2, TokensStay
  <2>4. Types'
    BY <1>1, <1>2, <2>1 DEF Types
  <2> QED BY <1>1, <1>2, <1>3, <2>1, <2>3, <2>4 DEF Inv, BookIsTheLedger, LinesHeld
<1>5. CASE ~Refuses("key", fail)
  <2> DEFINE s == [Store EXCEPT !["key"] = EnvValue]
             l == Captured("key", None)
  <2>1. SetStore(s) /\ record(l, fail)
    BY <1>5 DEF put_secret
  <2>2. /\ s \in Vault /\ s["key"] = EnvValue /\ EnvValue \in Nat
        /\ s["oauth"] = Store["oauth"] /\ s["oauth-refresh"] = Store["oauth-refresh"]
        /\ \A r \in Refs : r # "key" => s[r] = Store[r]
    BY <1>1 DEF Vault, Refs, EnvValue
  <2> HIDE DEF s
  <2>3. Kept(Store, s) /\ s["key"] # None
    BY <1>1, <2>2 DEF Kept
  <2>4. /\ keyring' \in Vault /\ memory' \in Vault /\ Store' = s
        /\ Kept(keyring, keyring') /\ Kept(memory, memory')
        /\ backend = "keyring" => keyring' = s
        /\ backend # "keyring" => memory' = s
    BY <1>1, <1>2, <2>1, <2>2, <2>3, Putting
  <2>5. l \in CapturedLine /\ l.ref = "key" /\ l.backend = backend /\ l.process = process
    BY <1>1 DEF Captured, CapturedLine, Refs
  <2>6. l \in Line
    BY <2>5 DEF Line
  <2> HIDE DEF l
  <2>7. /\ ledger' \in Seq(Line) /\ BookIsTheLedger'
        /\ ledger' = ledger \/ ledger' = Append(ledger, l)
    BY <1>1, <2>1, <2>6, Recorded
  <2>8. LinesHeld(ledger, keyring', memory', process)
    BY <1>1, <2>4, StillHeld DEF Types
  <2>9. HeldIn(l, keyring', memory', process)
    BY <1>1, <2>3, <2>4, <2>5 DEF HeldIn
  <2>10. LinesHeld(ledger', keyring', memory', process')
    BY <1>1, <1>2, <2>6, <2>7, <2>8, <2>9, AppendHeld
  <2>11. TokensInv'
    BY <1>1, <1>2, <2>2, <2>4, TokensStay
  <2>12. Types'
    BY <1>1, <1>2, <2>4, <2>7 DEF Types
  <2> QED BY <1>3, <2>7, <2>10, <2>11, <2>12 DEF Inv
<1> QED BY <1>4, <1>5

(* Only the ledger and the book move.                                        *)
LEMMA LineKeeps ==
  ASSUME Inv, NEW fail, NEW l \in Line, l.kind # "captured", record(l, fail),
         UNCHANGED <<now, process, shaded, backend, keyring, memory, gen, expiries>>,
         UNCHANGED <<torn, handed>>
  PROVE  /\ ledger' \in Seq(Line) /\ BookIsTheLedger' /\ TokensInv'
         /\ LinesHeld(ledger', keyring', memory', process')
<1>1. /\ Types /\ ledger \in Seq(Line) /\ now \in Nat /\ BookIsTheLedger
      /\ LinesHeld(ledger, keyring, memory, process) /\ TokensInv
  BY DEF Inv, Types
<1>2. /\ ledger' \in Seq(Line) /\ BookIsTheLedger'
      /\ ledger' = ledger \/ ledger' = Append(ledger, l)
  BY <1>1, Recorded
<1>3. LinesHeld(ledger', keyring', memory', process')
  BY <1>1, <1>2, AppendHeld DEF HeldIn
<1>4. Store' = Store
  BY DEF Store
<1>5. TokensInv'
  BY <1>1, <1>4, TokensStay
<1> QED BY <1>2, <1>3, <1>5

LEMMA LoginBeginKeeps ==
  ASSUME Inv, NEW fail, login_begin(fail)
  PROVE  Inv'
<1> DEFINE l == [kind |-> "login"]
<1>1. /\ l \in Line /\ l.kind # "captured" /\ record(l, fail)
      /\ UNCHANGED <<now, process, shaded, backend, keyring, memory, gen, expiries>>
      /\ UNCHANGED <<redeemed, torn, handed>> /\ begun' = begun + 1 /\ logins' = begun + 1
  BY DEF login_begin, Line, NoticeLine
<1> HIDE DEF l
<1>2. /\ ledger' \in Seq(Line) /\ BookIsTheLedger' /\ TokensInv'
      /\ LinesHeld(ledger', keyring', memory', process')
  BY <1>1, LineKeeps
<1>3. begun \in Nat /\ redeemed \in Seq(Redemption)
  BY DEF Inv, Types
<1>4. Types'
  BY <1>1, <1>2, <1>3 DEF Inv, Types
<1>5. \A i \in 1..Len(redeemed) : redeemed[i].login \in Nat /\ redeemed[i].login <= begun
  <2>1. \A i \in 1..Len(redeemed) : redeemed[i] \in Redemption
    BY <1>3
  <2>2. \A i \in 1..Len(redeemed) : redeemed[i].login \in Nat
    BY <2>1 DEF Redemption
  <2> QED BY <2>2 DEF Inv, LoginsInv, RedeemedWasBegun
<1>6. \A n \in Nat : n <= begun => n < begun + 1 /\ n <= begun + 1
  BY <1>3
<1>7. LoginsInv'
  BY <1>1, <1>5, <1>6 DEF Inv, LoginsInv, RedeemedOnce, RedeemedWasBegun
<1> QED BY <1>2, <1>4, <1>7 DEF Inv

LEMMA AttachKeeps ==
  ASSUME Inv, NEW name \in Names, NEW e \in Offers, NEW fail, attach_endpoint(name, e, fail)
  PROVE  Inv'
<1> DEFINE l == [kind |-> "attached", name |-> name, endpoint |-> e]
<1>1. /\ l \in Line /\ l.kind # "captured" /\ record(l, fail)
      /\ UNCHANGED <<now, process, shaded, backend, keyring, memory, gen, expiries>>
      /\ UNCHANGED <<redeemed, torn, handed, begun, logins>>
  BY OffersAssumption DEF attach_endpoint, Line, AttachedLine
<1> HIDE DEF l
<1>2. /\ ledger' \in Seq(Line) /\ BookIsTheLedger' /\ TokensInv'
      /\ LinesHeld(ledger', keyring', memory', process')
  BY <1>1, LineKeeps
<1>3. Types'
  BY <1>1, <1>2 DEF Inv, Types
<1> QED BY <1>1, <1>2, <1>3, LoginsStay DEF Inv

LEMMA SelectKeeps ==
  ASSUME Inv, NEW tag \in Tags, NEW name \in Names, NEW model \in Models, NEW fail,
         select_model(tag, name, model, fail)
  PROVE  Inv'
<1> DEFINE l == [kind |-> "selected", tag |-> tag, name |-> name, model |-> model]
<1>1. /\ l \in Line /\ l.kind # "captured" /\ record(l, fail)
      /\ UNCHANGED <<now, process, shaded, backend, keyring, memory, gen, expiries>>
      /\ UNCHANGED <<redeemed, torn, handed, begun, logins>>
  BY DEF select_model, Line, SelectedLine
<1> HIDE DEF l
<1>2. /\ ledger' \in Seq(Line) /\ BookIsTheLedger' /\ TokensInv'
      /\ LinesHeld(ledger', keyring', memory', process')
  BY <1>1, LineKeeps
<1>3. Types'
  BY <1>1, <1>2 DEF Inv, Types
<1> QED BY <1>1, <1>2, <1>3, LoginsStay DEF Inv

LEMMA TickKeeps ==
  ASSUME Inv, Tick
  PROVE  Inv'
<1>1. /\ now' = now + 1
      /\ UNCHANGED <<process, shaded, backend, keyring, memory, gen, logins, expiries, book>>
      /\ UNCHANGED <<ledger, begun, redeemed, torn, handed>>
  BY DEF Tick
<1>2. Types /\ now \in Nat /\ now' \in Nat /\ now <= now' /\ Store' = Store
  BY <1>1 DEF Inv, Types, Store
<1>3. TokensInv'
  BY <1>1, <1>2, TokensStay DEF Inv
<1>4. Types'
  BY <1>1, <1>2 DEF Types
<1> QED BY <1>1, <1>3, <1>4, LoginsStay DEF Inv, BookIsTheLedger, LinesHeld
(* Taking the login out makes it redeemed, once.                             *)
LEMMA TakingKeeps ==
  ASSUME Inv, TakeLogin, begun' = begun
  PROVE  LoginsInv' /\ logins' = None /\ redeemed' \in Seq(Redemption)
<1> DEFINE r == [login |-> logins, process |-> process]
<1>1. /\ logins # None /\ logins' = None /\ redeemed' = Append(redeemed, r)
  BY DEF TakeLogin, Redeeming
<1>2. /\ begun \in Nat /\ logins \in 1..begun /\ process \in Nat /\ redeemed \in Seq(Redemption)
  BY <1>1 DEF Inv, Types
<1>3. r \in Redemption /\ r.login = logins
  BY <1>2 DEF Redemption
<1> HIDE DEF r
<1>4. /\ redeemed' \in Seq(Redemption) /\ Len(redeemed) \in Nat
      /\ Len(redeemed') = Len(redeemed) + 1 /\ redeemed'[Len(redeemed) + 1] = r
      /\ \A i \in 1..Len(redeemed) : redeemed'[i] = redeemed[i]
  BY <1>1, <1>2, <1>3, Appended
<1>5. \A i \in 1..Len(redeemed') : i \in 1..Len(redeemed) \/ i = Len(redeemed) + 1
  BY <1>4
<1>6. \A i \in 1..Len(redeemed) : redeemed[i].login < logins /\ redeemed[i].login # logins
  <2>1. \A i \in 1..Len(redeemed) : redeemed[i].login < logins
    BY <1>1 DEF Inv, LoginsInv, RedeemedOnce
  <2>2. \A i \in 1..Len(redeemed) : redeemed[i] \in Redemption
    BY <1>2
  <2>3. \A i \in 1..Len(redeemed) : redeemed[i].login \in Nat
    BY <2>2 DEF Redemption
  <2>4. \A n \in Nat : n < logins => n # logins
    BY <1>2
  <2> QED BY <2>1, <2>3, <2>4
<1>7. \A i, j \in 1..Len(redeemed) : redeemed[i].login = redeemed[j].login => i = j
  BY DEF Inv, LoginsInv, RedeemedOnce
<1>8. \A i, j \in 1..Len(redeemed') : redeemed'[i].login = redeemed'[j].login => i = j
  BY <1>3, <1>4, <1>5, <1>6, <1>7
<1>9. \A i \in 1..Len(redeemed') : redeemed'[i].login <= begun
  <2>1. logins <= begun
    BY <1>2
  <2>2. \A i \in 1..Len(redeemed) : redeemed[i].login <= begun
    BY DEF Inv, LoginsInv, RedeemedWasBegun
  <2> QED BY <1>3, <1>4, <1>5, <2>1, <2>2
<1> QED BY <1>1, <1>4, <1>8, <1>9 DEF LoginsInv, RedeemedOnce, RedeemedWasBegun

LEMMA LoginCodeKeeps ==
  ASSUME Inv, NEW a \in Answers \cup {None}, NEW fail, login_code(a, fail)
  PROVE  Inv'
<1>1. /\ Types /\ ledger \in Seq(Line) /\ Store \in Vault /\ process \in Nat /\ now \in Nat
      /\ BookIsTheLedger /\ LinesHeld(ledger, keyring, memory, process) /\ TokensInv
  BY StoreIs DEF Inv, Types
<1>2. /\ UNCHANGED <<now, process, shaded, backend, begun, handed>> /\ TakeLogin
  BY DEF login_code
<1>3. LoginsInv' /\ logins' = None /\ redeemed' \in Seq(Redemption)
  BY <1>2, TakingKeeps
<1>4. CASE a = None
  <2>1. UNCHANGED <<keyring, memory, gen, expiries, torn, ledger, book>>
    BY <1>4 DEF login_code
  <2>2. Store' = Store
    BY <1>2, <2>1 DEF Store
  <2>3. TokensInv'
    BY <1>1, <1>2, <2>1, <2>2, TokensStay
  <2>4. Types'
    BY <1>1, <1>2, <1>3, <2>1 DEF Types
  <2> QED BY <1>1, <1>2, <1>3, <2>1, <2>3, <2>4 DEF Inv, BookIsTheLedger, LinesHeld
<1>5. CASE a # None
  <2> DEFINE x == ExpiryLine(a)
             y == [kind |-> "attached", name |-> Subscription,
                   endpoint |-> SubscriptionEndpoint(Models)]
  <2>0. a \in Answers
    BY <1>5
  <2>1. Granted(a) /\ Keep(a, fail)
    BY <1>5 DEF login_code
  <2>2. /\ keyring' \in Vault /\ memory' \in Vault /\ gen' \in Nat
        /\ expiries' \in Nat \cup {None} /\ torn' \in BOOLEAN
        /\ ExpiryOK' /\ RefreshIsCurrent'
        /\ LinesHeld(ledger, keyring', memory', process)
        /\ x \in Line
        /\ Stored(a, fail) => HeldIn(x, keyring', memory', process)
    BY <1>2, <2>0, <2>1, KeepDoes
  <2>3. y \in AttachedLine /\ y.kind = "attached"
    BY DEF AttachedLine, Names, SubscriptionEndpoint, Endpoint, Refs
  <2>4. y \in Line
    BY <2>3 DEF Line
  <2>5. x.kind = "captured"
    BY DEF ExpiryLine, Captured
  <2>6. \/ ledger' = ledger \o <<>> /\ book' = book
        \/ Stored(a, fail) /\ ledger' = ledger \o <<x>> /\ book' = book
        \/ Stored(a, fail) /\ ledger' = ledger \o <<x, y>> /\ book' = apply_payload(book, y)
    <3> DEFINE lines == IF ~Stored(a, fail) \/ fail = "line" THEN <<>>
                        ELSE IF fail = "probe" THEN <<x>> ELSE <<x, y>>
    <3>1. ledger' = ledger \o lines /\ book' = IF Len(lines) = 2 THEN apply_payload(book, y) ELSE book
      BY <1>5 DEF login_code
    <3>2. \/ lines = <<>>
          \/ Stored(a, fail) /\ lines = <<x>>
          \/ Stored(a, fail) /\ lines = <<x, y>>
      OBVIOUS
    <3> HIDE DEF lines, x, y
    <3>3. Len(<<>>) = 0 /\ Len(<<x>>) = 1 /\ Len(<<x, y>>) = 2
      OBVIOUS
    <3>4. CASE lines = <<>>
      <4>1. Len(lines) # 2
        BY <3>3, <3>4
      <4> QED BY <3>1, <3>4, <4>1
    <3>5. CASE Stored(a, fail) /\ lines = <<x>>
      <4>1. Len(lines) # 2
        BY <3>3, <3>5
      <4> QED BY <3>1, <3>5, <4>1
    <3>6. CASE Stored(a, fail) /\ lines = <<x, y>>
      <4>1. Len(lines) = 2
        BY <3>3, <3>6
      <4> QED BY <3>1, <3>6, <4>1
    <3> QED BY <3>2, <3>4, <3>5, <3>6
  <2>7. fold(ledger) = book /\ apply_payload(book, x) = book
    BY <1>1, <2>5 DEF BookIsTheLedger, apply_payload
  <2> HIDE DEF x, y
  <2>8. /\ Append(ledger, x) \in Seq(Line)
        /\ ledger \o <<>> = ledger /\ ledger \o <<x>> = Append(ledger, x)
        /\ ledger \o <<x, y>> = Append(Append(ledger, x), y)
    BY <1>1, <2>2, <2>4
  <2>9. ledger' \in Seq(Line) /\ BookIsTheLedger' /\ LinesHeld(ledger', keyring', memory', process')
    <3>1. CASE ledger' = ledger \o <<>> /\ book' = book
      BY <1>1, <1>2, <2>2, <2>7, <2>8, <3>1 DEF BookIsTheLedger
    <3>2. CASE Stored(a, fail) /\ ledger' = ledger \o <<x>> /\ book' = book
      <4>1. fold(Append(ledger, x)) = book
        BY <1>1, <2>2, <2>7, FoldAppend
      <4>2. LinesHeld(Append(ledger, x), keyring', memory', process)
        BY <1>1, <2>2, <3>2, AppendHeld
      <4> QED BY <1>2, <2>8, <3>2, <4>1, <4>2 DEF BookIsTheLedger
    <3>3. CASE Stored(a, fail) /\ ledger' = ledger \o <<x, y>> /\ book' = apply_payload(book, y)
      <4>1. fold(Append(ledger, x)) = book
        BY <1>1, <2>2, <2>7, FoldAppend
      <4>2. fold(Append(Append(ledger, x), y)) = apply_payload(book, y)
        BY <2>4, <2>8, <4>1, FoldAppend
      <4>3. LinesHeld(Append(ledger, x), keyring', memory', process)
        BY <1>1, <2>2, <3>3, AppendHeld
      <4>4. HeldIn(y, keyring', memory', process)
        BY <2>3 DEF HeldIn
      <4>5. LinesHeld(Append(Append(ledger, x), y), keyring', memory', process)
        BY <2>4, <2>8, <4>3, <4>4, AppendHeld
      <4>6. Append(Append(ledger, x), y) \in Seq(Line)
        BY <2>4, <2>8
      <4> QED BY <1>2, <2>8, <3>3, <4>2, <4>5, <4>6 DEF BookIsTheLedger
    <3> QED BY <2>6, <3>1, <3>2, <3>3
  <2>10. FreshWhenKnown'
    BY <1>1, <1>2 DEF TokensInv, FreshWhenKnown
  <2>11. Types'
    BY <1>1, <1>2, <1>3, <2>2, <2>9 DEF Types
  <2> QED BY <1>3, <2>2, <2>9, <2>10, <2>11 DEF Inv, TokensInv
<1> QED BY <1>4, <1>5

LEMMA AgreeLostKeeps ==
  ASSUME Inv, NEW c, agree_lost(c)
  PROVE  Inv'
<1>1. /\ gen' = gen + 1 /\ torn' = TRUE
      /\ UNCHANGED <<now, process, shaded, backend, keyring, memory, logins, expiries, book>>
      /\ UNCHANGED <<ledger, begun, redeemed, handed>>
  BY DEF agree_lost
<1>2. Types'
  BY <1>1 DEF Inv, Types
<1>3. Store' = Store
  BY <1>1 DEF Store
<1>4. TokensInv'
  BY <1>1, <1>3 DEF Inv, TokensInv, ExpiryOK, FreshWhenKnown, RefreshIsCurrent
<1> QED BY <1>1, <1>2, <1>4, LoginsStay DEF Inv, BookIsTheLedger, LinesHeld
(* What select reads is typed: the choice names an attached endpoint.        *)
LEMMA SelectedIs ==
  ASSUME Inv, NEW c, select(book, "main", c)
  PROVE  /\ book.chosen["main"].name \in Names
         /\ book.chosen["main"].name \in DOMAIN book.endpoints
         /\ book.endpoints[book.chosen["main"].name] \in Endpoint
         /\ c => book.endpoints[book.chosen["main"].name].local
<1>1. book \in Book
  BY FoldTyped DEF Inv, Types, BookIsTheLedger
<1>2. book.endpoints \in EndpointMap
  BY <1>1 DEF Book
<1>3. PICK S \in SUBSET Names : book.endpoints \in [S -> Endpoint]
  BY <1>2 DEF EndpointMap
<1>4. book.chosen["main"].name \in DOMAIN book.endpoints /\ DOMAIN book.endpoints = S
  BY <1>3 DEF select
<1> QED BY <1>3, <1>4 DEF select

(* What a dispatch is handed, with a token that is held and lasts.           *)
LEMMA HandIsFresh ==
  ASSUME Inv, NEW c, select(book, "main", c), NEW store, Hand(c, store), shaded' = shaded,
         /\ book.chosen["main"].name = Subscription
         /\ book.endpoints[Subscription].auth = "oauth" /\ "oauth" \notin shaded
         /\ expiries # None
         => store["oauth"] # None /\ store["oauth"] > now + Margin
  PROVE  FreshWhenKnown'
<1> DEFINE h == book.chosen["main"]
           e == book.endpoints[h.name]
           held == IF e.auth \in shaded THEN EnvValue ELSE store[e.auth]
<1>1. handed' = [name |-> h.name, model |-> h.model, auth |-> e.auth,
                 adapter |-> adapter_for(e), confidential |-> c,
                 token |-> IF e.auth = None THEN None ELSE held,
                 at |-> now, known |-> expiries # None]
  BY DEF Hand
<1>2. "oauth" # None
  BY OffersAssumption DEF Refs
<1> SUFFICES ASSUME handed'.known, handed'.name = Subscription, handed'.auth = "oauth",
                    "oauth" \notin shaded
             PROVE  handed'.token # None /\ handed'.token > handed'.at + Margin
  BY DEF FreshWhenKnown
<1>3. h.name = Subscription /\ e.auth = "oauth" /\ expiries # None
  BY <1>1
<1>4. handed'.token = store["oauth"] /\ handed'.at = now
  BY <1>1, <1>2, <1>3
<1> QED BY <1>3, <1>4

LEMMA AgreeKeeps ==
  ASSUME Inv, NEW c, agree(c)
  PROVE  Inv'
<1>1. /\ select(book, "main", c) /\ ~Due(book.chosen["main"].name) /\ Hand(c, Store)
      /\ UNCHANGED <<now, process, shaded, backend, keyring, memory, gen, logins, expiries, book>>
      /\ UNCHANGED <<ledger, begun, redeemed, torn>>
  BY DEF agree
<1>2. /\ Types /\ now \in Nat /\ expiries \in Nat \cup {None} /\ Store \in Vault /\ Margin \in Nat
  BY StoreIs, ProvidersAssumption DEF Inv, Types
<1>3. ASSUME book.chosen["main"].name = Subscription, "oauth" \notin shaded, expiries # None
      PROVE  Store["oauth"] # None /\ Store["oauth"] > now + Margin
  <2>1. expiries \in Nat /\ Store["oauth"] # None /\ expiries <= Store["oauth"]
    BY <1>2, <1>3 DEF Inv, TokensInv, ExpiryOK
  <2>2. ~(now + Margin >= expiries)
    BY <1>1, <1>3 DEF Due
  <2>3. Store["oauth"] \in Nat
    BY <1>2, <2>1 DEF Vault, Refs
  <2> QED BY <1>2, <2>1, <2>2, <2>3
<1>4. FreshWhenKnown'
  BY <1>1, <1>3, HandIsFresh
<1>5. Types'
  BY <1>1, <1>2 DEF Types
<1>6. Store' = Store
  BY <1>1 DEF Store
<1>7. TokensInv'
  BY <1>1, <1>4, <1>6 DEF Inv, TokensInv, ExpiryOK, RefreshIsCurrent, resolve
<1> QED BY <1>1, <1>5, <1>7, LoginsStay DEF Inv, BookIsTheLedger, LinesHeld

LEMMA AgreeRenewingKeeps ==
  ASSUME Inv, NEW c, NEW a \in Answers \cup {None}, NEW fail, agree_renewing(c, a, fail)
  PROVE  Inv'
<1>1. /\ Types /\ ledger \in Seq(Line) /\ Store \in Vault /\ process \in Nat /\ now \in Nat
      /\ BookIsTheLedger /\ LinesHeld(ledger, keyring, memory, process) /\ TokensInv /\ LoginsInv
      /\ Margin \in Nat /\ Life \in Nat /\ Margin < Life /\ None \notin Nat
  BY StoreIs, ProvidersAssumption DEF Inv, Types
<1>2. /\ UNCHANGED <<now, process, shaded, backend, begun, logins, redeemed>>
      /\ select(book, "main", c) /\ Renews(a, fail)
  BY DEF agree_renewing
<1>3. LoginsInv'
  BY <1>1, <1>2, LoginsStay
<1>4. CASE a = None
  <2>1. UNCHANGED <<keyring, memory, gen, expiries, torn, ledger, book, handed>>
    BY <1>4 DEF agree_renewing, Renews
  <2>2. Store' = Store
    BY <1>2, <2>1 DEF Store
  <2>3. TokensInv'
    BY <1>1, <1>2, <2>1, <2>2, TokensStay
  <2>4. Types'
    BY <1>1, <1>2, <2>1 DEF Types
  <2> QED BY <1>1, <1>2, <1>3, <2>1, <2>3, <2>4 DEF Inv, BookIsTheLedger, LinesHeld
<1>5. CASE a # None
  <2> DEFINE x == ExpiryLine(a)
  <2>0. a \in Answers
    BY <1>5
  <2>1. Granted(a) /\ Keep(a, fail)
    BY <1>2, <1>5 DEF Renews
  <2>2. /\ keyring' \in Vault /\ memory' \in Vault /\ gen' \in Nat
        /\ expiries' \in Nat \cup {None} /\ torn' \in BOOLEAN
        /\ ExpiryOK' /\ RefreshIsCurrent' /\ Store' = PutTokens(Store, a, fail)
        /\ LinesHeld(ledger, keyring', memory', process)
        /\ x \in Line
        /\ Stored(a, fail) => HeldIn(x, keyring', memory', process)
    BY <1>2, <2>0, <2>1, KeepDoes
  <2>3. IF Stored(a, fail) THEN record(x, fail) ELSE UNCHANGED <<ledger, book>>
    BY <1>2, <1>5 DEF Renews
  <2> HIDE DEF x
  <2>4. ledger' \in Seq(Line) /\ BookIsTheLedger' /\ LinesHeld(ledger', keyring', memory', process')
    <3>1. CASE Stored(a, fail)
      <4>1. /\ ledger' \in Seq(Line) /\ BookIsTheLedger'
            /\ ledger' = ledger \/ ledger' = Append(ledger, x)
        BY <1>1, <2>2, <2>3, <3>1, Recorded
      <4> QED BY <1>1, <1>2, <2>2, <3>1, <4>1, AppendHeld
    <3>2. CASE ~Stored(a, fail)
      BY <1>1, <1>2, <2>2, <2>3, <3>2 DEF BookIsTheLedger
    <3> QED BY <3>1, <3>2
  <2>5. FreshWhenKnown'
    <3>1. CASE handed' = handed
      BY <1>1, <1>2, <3>1 DEF TokensInv, FreshWhenKnown
    <3>2. CASE handed' # handed
      <4> DEFINE s == PutTokens(Store, a, fail)
      <4>1. Stored(a, fail) /\ Hand(c, s)
        BY <3>2 DEF agree_renewing
      <4>2. /\ a.access = now + Life /\ a.access \in Nat /\ a.refresh \in Nat \cup {None}
        BY <1>1, <2>0 DEF Answers, Types
      <4>3. s["oauth"] = (IF Refuses("oauth", fail) THEN Store["oauth"] ELSE a.access)
        BY <1>1, <4>2, PutDoes
      <4>4. s["oauth"] = now + Life
        BY <4>1, <4>2, <4>3 DEF Stored
      <4> HIDE DEF s
      <4>5. s["oauth"] # None /\ s["oauth"] > now + Margin
        BY <1>1, <4>2, <4>4
      <4> QED BY <1>2, <4>1, <4>5, HandIsFresh
    <3> QED BY <3>1, <3>2
  <2>6. Types'
    BY <1>1, <1>2, <2>2, <2>4 DEF Types
  <2> QED BY <1>3, <2>2, <2>4, <2>5, <2>6 DEF Inv, TokensInv
<1> QED BY <1>4, <1>5

LEMMA RestartKeeps ==
  ASSUME Inv, NEW found \in Backends, NEW seeded \in 0..2, Restart(found, seeded)
  PROVE  Inv'
<1> DEFINE notice == IF found = "memory" THEN <<[kind |-> "degraded"]>> ELSE <<>>
           seeds == IF fold(ledger).endpoints = EmptyBook.endpoints
                    THEN SubSeq(SeedLines, 1, seeded) ELSE <<>>
           Plain == AttachedLine \cup SelectedLine \cup NoticeLine
           empty == [r \in Refs |-> None]
<1>1. /\ process' = process + 1 /\ backend' = found /\ memory' = empty
      /\ logins' = None /\ expiries' = None
      /\ torn' = (torn \/ found # backend)
      /\ UNCHANGED <<now, shaded, keyring, gen, begun, redeemed, handed>>
  BY DEF Restart
<1>2. ledger' = ledger \o notice \o seeds /\ book' = fold(ledger')
  BY DEF Restart
<1>3. /\ Types /\ ledger \in Seq(Line) /\ process \in Nat /\ keyring \in Vault /\ torn \in BOOLEAN
      /\ LinesHeld(ledger, keyring, memory, process) /\ TokensInv /\ LoginsInv
  BY DEF Inv, Types
<1>4. notice \in Seq(Plain)
  <2>1. [kind |-> "degraded"] \in Plain
    BY DEF NoticeLine
  <2> HIDE DEF Plain
  <2> QED BY <2>1
<1>5. seeds \in Seq(Plain)
  <2>1. (CHOOSE m \in Models : TRUE) \in Models
    BY ProvidersAssumption
  <2>2. /\ SeedLines[1] \in Plain /\ SeedLines[2] \in Plain
    BY <2>1 DEF SeedLines, AttachedLine, SelectedLine, Endpoint, Names, Tags
  <2>3. SeedLines = <<SeedLines[1], SeedLines[2]>>
    BY DEF SeedLines
  <2> HIDE DEF Plain
  <2>4. \A p, q \in Plain : <<p, q>> \in Seq(Plain) /\ Len(<<p, q>>) = 2
    OBVIOUS
  <2>5. <<SeedLines[1], SeedLines[2]>> \in Seq(Plain) /\ Len(<<SeedLines[1], SeedLines[2]>>) = 2
    BY <2>2, <2>4
  <2>6. SeedLines \in Seq(Plain) /\ Len(SeedLines) = 2
    BY <2>3, <2>5
  <2>7. SubSeq(SeedLines, 1, seeded) \in Seq(Plain)
    BY <2>6
  <2> QED BY <2>7
<1>6. \A l \in Plain : l \in Line /\ l.kind # "captured"
  BY DEF Line, AttachedLine, SelectedLine, NoticeLine
<1> DEFINE t == notice \o seeds
<1> HIDE DEF Plain, notice, seeds, empty
<1>7. t \in Seq(Plain) /\ ledger \o notice \o seeds = ledger \o t /\ Plain \subseteq Line
  <2>1. Plain \subseteq Line
    BY <1>6
  <2>2. notice \in Seq(Line) /\ seeds \in Seq(Line) /\ t \in Seq(Plain)
    BY <1>4, <1>5, <2>1
  <2> QED BY <1>3, <2>1, <2>2
<1> HIDE DEF t
<1>8. t \in Seq(Line) /\ \A i \in 1..Len(t) : t[i] \in Plain
  BY <1>7
<1>9. /\ ledger' \in Seq(Line) /\ Len(ledger) \in Nat /\ Len(t) \in Nat
      /\ Len(ledger') = Len(ledger) + Len(t)
      /\ \A i \in 1..Len(ledger) : ledger'[i] = ledger[i]
      /\ \A i \in 1..Len(ledger') : i \notin 1..Len(ledger) =>
           i - Len(ledger) \in 1..Len(t) /\ ledger'[i] = t[i - Len(ledger)]
  BY <1>2, <1>3, <1>7, <1>8
<1>10. empty \in Vault /\ memory' \in Vault
  BY <1>1 DEF empty, Vault
<1>11. LinesHeld(ledger', keyring', memory', process')
  <2> SUFFICES ASSUME NEW i \in 1..Len(ledger'), ledger'[i].kind = "captured"
               PROVE  HeldIn(ledger'[i], keyring, memory', process + 1)
    BY <1>1 DEF LinesHeld, HeldIn
  <2>1. i \in 1..Len(ledger)
    BY <1>6, <1>8, <1>9
  <2>2. ledger'[i] = ledger[i] /\ ledger[i] \in Line
    BY <1>3, <1>9, <2>1
  <2>3. HeldIn(ledger[i], keyring, memory, process) /\ ledger[i].kind = "captured"
    BY <1>3, <2>1, <2>2 DEF LinesHeld
  <2>4. ledger[i].process \in Nat
    BY <2>2, <2>3, LineKinds
  <2>5. ledger[i].process <= process + 1 /\ ledger[i].process # process + 1
    BY <1>3, <2>3, <2>4 DEF HeldIn
  <2> QED BY <2>2, <2>3, <2>5 DEF HeldIn
<1>12. LoginsInv'
  BY <1>1, <1>3 DEF LoginsInv, RedeemedOnce, RedeemedWasBegun
<1>13. TokensInv'
  <2>1. ExpiryOK'
    BY <1>1 DEF ExpiryOK
  <2>2. FreshWhenKnown'
    BY <1>1, <1>3 DEF TokensInv, FreshWhenKnown
  <2>3. RefreshIsCurrent'
    <3> SUFFICES ASSUME ~torn', "oauth-refresh" \notin shaded
                 PROVE  Store'["oauth-refresh"] \in {None, gen}
      BY <1>1 DEF RefreshIsCurrent, resolve
    <3>1. ~torn /\ found = backend
      BY <1>1
    <3>2. Store["oauth-refresh"] \in {None, gen}
      BY <1>3, <3>1 DEF TokensInv, RefreshIsCurrent, resolve
    <3>3. CASE backend = "keyring"
      BY <1>1, <3>1, <3>2, <3>3 DEF Store
    <3>4. CASE backend # "keyring"
      BY <1>1, <3>1, <3>4 DEF Store, empty, Refs
    <3> QED BY <3>3, <3>4
  <2> QED BY <2>1, <2>2, <2>3 DEF TokensInv
<1>14. Types'
  BY <1>1, <1>3, <1>9, <1>10 DEF Types
<1> QED BY <1>2, <1>11, <1>12, <1>13, <1>14 DEF Inv, BookIsTheLedger
-----------------------------------------------------------------------------
(* The theorems.                                                             *)

LEMMA InvStep == Inv /\ [ProvidersNext]_providersVars => Inv'
<1> SUFFICES ASSUME Inv, [ProvidersNext]_providersVars PROVE Inv'
  OBVIOUS
<1>1. ASSUME NEW f \in {"no", "key", "line"}, put_secret(f) PROVE Inv'
  BY <1>1, PutSecretKeeps
<1>2. ASSUME NEW f \in {"no", "line"}, login_begin(f) PROVE Inv'
  BY <1>2, LoginBeginKeeps
<1>3. ASSUME NEW a \in Answers \cup {None}, NEW f \in Fails \ {"key"}, login_code(a, f) PROVE Inv'
  BY <1>3, LoginCodeKeeps
<1>4. ASSUME NEW n \in {Subscription, Entered}, NEW e \in Offers, NEW f \in {"no", "line"},
             attach_endpoint(n, e, f)
      PROVE  Inv'
  <2>1. n \in Names
    BY DEF Names
  <2> QED BY <1>4, <2>1, AttachKeeps
<1>5. ASSUME NEW t \in Tags, NEW n \in Names, NEW m \in Models, NEW f \in {"no", "line"},
             select_model(t, n, m, f)
      PROVE  Inv'
  BY <1>5, SelectKeeps
<1>6. ASSUME NEW c \in BOOLEAN, agree(c) PROVE Inv'
  BY <1>6, AgreeKeeps
<1>7. ASSUME NEW c \in BOOLEAN, NEW a \in Answers \cup {None},
             NEW f \in {"no", "oauth", "oauth-refresh", "line"}, agree_renewing(c, a, f)
      PROVE  Inv'
  BY <1>7, AgreeRenewingKeeps
<1>8. ASSUME NEW c \in BOOLEAN, agree_lost(c) PROVE Inv'
  BY <1>8, AgreeLostKeeps
<1>9. ASSUME Tick PROVE Inv'
  BY <1>9, TickKeeps
<1>10. ASSUME NEW b \in {"keyring", "memory"}, NEW n \in 0..2, Restart(b, n) PROVE Inv'
  BY <1>10, RestartKeeps DEF Backends
<1>11. CASE UNCHANGED providersVars
  BY <1>11 DEF providersVars, Inv, Types, BookIsTheLedger, LinesHeld, LoginsInv, RedeemedOnce,
     RedeemedWasBegun, TokensInv, ExpiryOK, FreshWhenKnown, RefreshIsCurrent, resolve, Store
<1> QED BY <1>1, <1>2, <1>3, <1>4, <1>5, <1>6, <1>7, <1>8, <1>9, <1>10, <1>11 DEF ProvidersNext

LEMMA InvHolds == ProvidersSpec => []Inv
<1>1. ProvidersInit => Inv
  BY InvInit
<1>2. Inv /\ [ProvidersNext]_providersVars => Inv'
  BY InvStep
<1> QED BY <1>1, <1>2, PTL DEF ProvidersSpec

LEMMA InvIsTyped == Inv => ProvidersTypeOK
<1> SUFFICES ASSUME Inv PROVE ProvidersTypeOK
  OBVIOUS
<1>1. book \in Book
  BY FoldTyped DEF Inv, Types, BookIsTheLedger
<1>2. book.endpoints \in EndpointMap /\ book.chosen \in ChoiceMap
  BY <1>1 DEF Book
<1>3. PICK S \in SUBSET Names : book.endpoints \in [S -> Endpoint]
  BY <1>2 DEF EndpointMap
<1>4. PICK U \in SUBSET Tags : book.chosen \in [U -> Choice]
  BY <1>2 DEF ChoiceMap
<1>5. \A n \in DOMAIN book.endpoints : n \in Names /\ book.endpoints[n] \in Endpoint
  BY <1>3
<1>6. \A t \in DOMAIN book.chosen : t \in Tags /\ book.chosen[t] \in Choice
  BY <1>4
<1>7. \A t \in DOMAIN book.chosen : t \in Tags /\ book.chosen[t].model \in Models
  BY <1>6 DEF Choice
<1>8. \A r \in Refs : {keyring[r], memory[r]} \subseteq Nat \cup {None}
  BY DEF Inv, Types, Vault
<1> QED BY <1>5, <1>7, <1>8 DEF Inv, Types, ProvidersTypeOK, Backends

(* The records are true, whichever step of a handler errs and however often  *)
(* the process restarts: the book a worker decides by is what the records    *)
(* add up to, and what they say was captured is held (record_where,          *)
(* put_secret, login_with, open_for_service).                                *)
THEOREM RecordsAreAlwaysTrue == ProvidersSpec => []RecordsAreTrue
<1>1. Inv => RecordsAreTrue
  <2>1. Inv => CapturedIsHeld
    BY DEF Inv, CapturedIsHeld, LinesHeld, HeldIn
  <2> QED BY <2>1, InvIsTyped DEF Inv, RecordsAreTrue
<1> QED BY <1>1, InvHolds, PTL

(* A login is redeemed once, a token whose expiry is known is handed out     *)
(* with more than the margin left, and the refresh token that would be sent  *)
(* is the provider's current one unless it was torn, for every lifetime,     *)
(* margin and sequence of renewals (login_with, renew_if_stale).             *)
THEOREM LoginsAlwaysStayGood == ProvidersSpec => []LoginsStayGood
<1>1. Inv => LoginsStayGood
  BY DEF Inv, LoginsInv, TokensInv, LoginsStayGood
<1> QED BY <1>1, InvHolds, PTL

(* The newest record of an endpoint's name is the one the book answers by.   *)
LEMMA LocalOnRecord ==
  ASSUME NEW s \in Seq(Line), NEW n \in DOMAIN EndpointsOf(s), EndpointsOf(s)[n].local
  PROVE  \E i \in 1..Len(s) :
           /\ s[i].kind = "attached" /\ s[i].name = n /\ s[i].endpoint.local
           /\ \A j \in i + 1..Len(s) : s[j].kind = "attached" => s[j].name # n
<1>1. n \in Names /\ Attached(s, n) # {} /\ EndpointsOf(s)[n] = s[Newest(Attached(s, n))].endpoint
  BY DEF EndpointsOf
<1>2. Attached(s, n) \in SUBSET (1..Len(s)) /\ Len(s) \in Nat
  BY DEF Attached
<1> DEFINE i == Newest(Attached(s, n))
<1>3. i \in Attached(s, n) /\ \A j \in Attached(s, n) : j <= i
  BY <1>1, <1>2, NewestIs
<1> HIDE DEF i
<1>4. i \in 1..Len(s) /\ s[i].kind = "attached" /\ s[i].name = n
  BY <1>3 DEF Attached
<1>5. ASSUME NEW j \in i + 1..Len(s), s[j].kind = "attached" PROVE s[j].name # n
  <2>1. j \in 1..Len(s) /\ ~(j <= i)
    BY <1>2, <1>4
  <2> QED BY <1>3, <1>5, <2>1 DEF Attached
<1>6. s[i].endpoint.local
  BY <1>1 DEF i
<1> QED BY <1>4, <1>5, <1>6

(* A confidential building is only ever handed a model on this machine, as   *)
(* the newest record of its endpoint has it at that moment, for every        *)
(* sequence of attachments, choices, renewals and restarts                   *)
(* (EndpointBook::select).                                                   *)
THEOREM ConfidentialAlwaysStaysHere == ProvidersSpec => ConfidentialStaysHere
<1> DEFINE A == handed' # handed /\ handed'.confidential
                => \E i \in 1..Len(ledger') :
                     /\ ledger'[i].kind = "attached" /\ ledger'[i].name = handed'.name
                     /\ ledger'[i].endpoint.local
                     /\ \A j \in i + 1..Len(ledger') :
                          ledger'[j].kind = "attached" => ledger'[j].name # handed'.name
<1>1. Inv /\ [ProvidersNext]_providersVars => [A]_providersVars
  <2> SUFFICES ASSUME Inv, ProvidersNext, handed' # handed, handed'.confidential
               PROVE  \E i \in 1..Len(ledger') :
                        /\ ledger'[i].kind = "attached" /\ ledger'[i].name = handed'.name
                        /\ ledger'[i].endpoint.local
                        /\ \A j \in i + 1..Len(ledger') :
                             ledger'[j].kind = "attached" => ledger'[j].name # handed'.name
    OBVIOUS
  <2>0. ledger' \in Seq(Line) /\ BookIsTheLedger' /\ ledger \in Seq(Line) /\ BookIsTheLedger
    BY InvStep DEF Inv, Types
  <2>1. \E c \in BOOLEAN : \E store : select(book, "main", c) /\ Hand(c, store) /\ book' = book
    <3>1. \/ \E c \in BOOLEAN : agree(c)
          \/ \E c \in BOOLEAN, a \in Answers \cup {None},
                f \in {"no", "oauth", "oauth-refresh", "line"} : agree_renewing(c, a, f)
      BY DEF ProvidersNext, put_secret, login_begin, login_code, attach_endpoint, select_model, agree_lost,
         Tick, Restart
    <3>2. ASSUME NEW c \in BOOLEAN, agree(c)
          PROVE  select(book, "main", c) /\ Hand(c, Store) /\ book' = book
      BY <3>2 DEF agree
    <3>3. ASSUME NEW c \in BOOLEAN, NEW a, NEW f, agree_renewing(c, a, f)
          PROVE  select(book, "main", c) /\ Hand(c, PutTokens(Store, a, f)) /\ book' = book
      <4>1. a # None /\ Stored(a, f) /\ f # "line" /\ Hand(c, PutTokens(Store, a, f))
        BY <3>3 DEF agree_renewing
      <4>2. record(ExpiryLine(a), f)
        BY <3>3, <4>1 DEF agree_renewing, Renews
      <4>3. ExpiryLine(a).kind = "captured"
        BY DEF ExpiryLine, Captured
      <4>4. book' = book
        BY <4>1, <4>2, <4>3 DEF record, apply_payload
      <4> QED BY <3>3, <4>1, <4>4 DEF agree_renewing
    <3> QED BY <3>1, <3>2, <3>3
  <2>2. PICK c \in BOOLEAN : \E store : select(book, "main", c) /\ Hand(c, store) /\ book' = book
    BY <2>1
  <2>3. handed'.confidential = c /\ handed'.name = book.chosen["main"].name
    <3>1. PICK store : Hand(c, store)
      BY <2>2
    <3> QED BY ONLY <3>1 DEF Hand
  <2>4. /\ handed'.name \in DOMAIN book.endpoints
        /\ book.endpoints[handed'.name].local
    BY <2>2, <2>3, SelectedIs
  <2>5. book.endpoints = EndpointsOf(ledger')
    BY <2>0, <2>2, FoldTyped DEF BookIsTheLedger
  <2> QED BY <2>0, <2>4, <2>5, LocalOnRecord
<1> QED BY <1>1, InvHolds, PTL DEF ProvidersSpec, ConfidentialStaysHere
=============================================================================
