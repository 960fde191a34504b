------------------------- MODULE JsonlLedgerProofs --------------------------
(* Proofs about JsonlLedger, for every roll size, wave size and fault set. *)
EXTENDS MCJsonlLedger, WellFoundedInduction, FiniteSetTheorems, SequenceTheorems, TLAPS

\* Every non-empty set of naturals has a least element.
LEMMA SmallestExists ==
  ASSUME NEW T \in SUBSET Nat, T # {}
  PROVE  \E x \in T : \A y \in T : x <= y
<1>1. \E x \in T : \A y \in T : ~ (<<y, x>> \in OpToRel(<, Nat))
  BY NatLessThanWellFounded, WFMin
<1>2. \A x, y \in T : ~ (<<y, x>> \in OpToRel(<, Nat)) => x <= y
  BY DEF OpToRel
<1> QED BY <1>1, <1>2

\* A bounded non-empty set of naturals has a greatest element: the least of
\* its upper bounds is in it.
LEMMA LargestExists ==
  ASSUME NEW S \in SUBSET Nat, S # {}, NEW b \in Nat, \A s \in S : s <= b
  PROVE  \E m \in S : \A s \in S : s <= m
<1> DEFINE U == {u \in Nat : \A s \in S : s <= u}
<1>1. PICK m \in U : \A u \in U : m <= u
  BY SmallestExists
<1>2. m \in S
  <2>1. SUFFICES ASSUME m \notin S
                 PROVE  FALSE
    OBVIOUS
  <2>2. \A s \in S : s <= m - 1
    BY <2>1, <1>1
  <2>3. m - 1 \in Nat
    <3>1. PICK s \in S : TRUE
      OBVIOUS
    <3>2. QED
      BY <3>1, <2>2
  <2>4. m - 1 \in U
    BY <2>2, <2>3
  <2>5. QED
    BY <2>4, <1>1
<1>3. QED
  BY <1>1, <1>2

USE DEF EVENT_LOG_V, LineSize, GENESIS_PREV, chain_hash

-----------------------------------------------------------------------------
(* What the operators of the model return.                                 *)

\* The segment files are finitely many: their numbers have a bound.
DiskOK(d) ==
    /\ Segments(d) \subseteq Nat
    /\ \A s \in Segments(d) : d[s] \in File
    /\ \E b \in Nat : \A s \in Segments(d) : s <= b

\* The size of a file's bytes is a natural, and cutting within it leaves a file.
LEMMA CutType ==
  ASSUME NEW c \in Content
  PROVE  /\ Size(c) \in Nat
         /\ Len(c.lines) \in Nat
         /\ \A k \in 0 .. Size(c) : Cut(c, k) \in Content
<1>1. c.lines \in Seq(Line \cup {Garbage}) /\ c.torn \in BOOLEAN
  BY DEF Content
<1>2. Len(c.lines) \in Nat
  BY <1>1
<1>3. Size(c) \in Nat /\ Size(c) <= 2 * Len(c.lines) + 1
  <2>1. CASE c.torn
    BY <2>1, <1>2 DEF Size
  <2>2. CASE ~ c.torn
    BY <2>2, <1>2 DEF Size
  <2>3. QED
    BY <2>1, <2>2
<1>4. ASSUME NEW k \in 0 .. Size(c)
      PROVE  Cut(c, k) \in Content
  <2>1. k \div 2 \in Nat /\ k \div 2 <= Len(c.lines)
    BY <1>2, <1>3
  <2>2. SubSeq(c.lines, 1, k \div 2) \in Seq(Line \cup {Garbage})
    <3>1. \A i \in 1 .. (k \div 2) : c.lines[i] \in Line \cup {Garbage}
      BY <2>1, <1>1, <1>2
    <3>2. QED
      BY <2>1, <3>1, SubSeqProperties
  <2>3. QED
    BY <2>2 DEF Cut, Content
<1>5. QED
  BY <1>2, <1>3, <1>4

\* A write leaves a file that reads back as entries.
LEMMA AppendedType ==
  ASSUME NEW c \in Content, NEW ls \in Seq(Line), ls # << >>
  PROVE  Appended(c, ls) \in Content /\ Size(c) <= Size(Appended(c, ls))
<1> DEFINE E == Line \cup {Garbage}
<1>1. c.lines \in Seq(E) /\ c.torn \in BOOLEAN
  BY DEF Content
<1>2. ls \in Seq(E) /\ Len(ls) \in Nat \ {0}
  BY EmptySeq
<1>3. Tail(ls) \in Seq(E) /\ Len(Tail(ls)) = Len(ls) - 1
  BY <1>2, HeadTailProperties
<1>4. <<Garbage>> \in Seq(E) /\ Len(<<Garbage>>) = 1
  OBVIOUS
<1> DEFINE more == IF c.torn THEN <<Garbage>> \o Tail(ls) ELSE ls
<1>5. more \in Seq(E) /\ Len(more) = Len(ls)
  <2> HIDE DEF E
  <2>1. <<Garbage>> \o Tail(ls) \in Seq(E) /\ Len(<<Garbage>> \o Tail(ls)) = Len(ls)
    BY <1>2, <1>3, <1>4, ConcatProperties
  <2>2. QED
    BY <2>1, <1>2
<1>6. c.lines \o more \in Seq(E) /\ Len(c.lines \o more) = Len(c.lines) + Len(ls)
  <2> HIDE DEF E, more
  <2>1. more \in Seq(E) /\ c.lines \in Seq(E) /\ Len(more) = Len(ls)
    BY <1>1, <1>5
  <2>2. \A s, t \in Seq(E) : s \o t \in Seq(E) /\ Len(s \o t) = Len(s) + Len(t)
    BY ConcatProperties
  <2>3. QED
    BY <2>1, <2>2, Zenon
<1>7. Appended(c, ls) = [lines |-> c.lines \o more, torn |-> FALSE]
  BY DEF Appended
<1>8. Appended(c, ls) \in Content
  <2> HIDE DEF more
  <2> QED BY <1>6, <1>7 DEF Content
<1>9. Size(c) <= Size(Appended(c, ls))
  <2> HIDE DEF more
  <2>1. Len(c.lines) \in Nat
    BY <1>1
  <2>2. Size(Appended(c, ls)) = 2 * (Len(c.lines) + Len(ls))
    <3>1. /\ ~ Appended(c, ls).torn
          /\ Len(Appended(c, ls).lines) = Len(c.lines) + Len(ls)
      BY <1>6, <1>7
    <3>2. Size(Appended(c, ls)) = 2 * Len(Appended(c, ls).lines) + 0
      BY <3>1 DEF Size
    <3>3. QED
      BY <3>1, <3>2, <2>1, <1>2
  <2>3. Size(c) <= 2 * Len(c.lines) + 1
    <3>1. CASE c.torn
      BY <3>1, <2>1 DEF Size
    <3>2. CASE ~ c.torn
      BY <3>2, <2>1 DEF Size
    <3>3. QED
      BY <3>1, <3>2
  <2>4. QED
    BY <1>2, <2>1, <2>2, <2>3, CutType, <1>8
<1>10. QED
  BY <1>8, <1>9

\* The last segment, and the one before it, are segments.
LEMMA SegmentChoice ==
  ASSUME NEW d, DiskOK(d), Segments(d) # {}
  PROVE  /\ LastSegment(d) \in Segments(d)
         /\ \A t \in Segments(d) : t <= LastSegment(d)
         /\ FirstSegment(d) \in Segments(d)
         /\ \A t \in Segments(d) : FirstSegment(d) <= t
         /\ Priors(d) # {} => Prior(d) \in Priors(d)
<1>1. PICK b \in Nat : \A s \in Segments(d) : s <= b
  BY DEF DiskOK
<1>2. \E m \in Segments(d) : \A s \in Segments(d) : s <= m
  BY <1>1, LargestExists DEF DiskOK
<1>3. \E m \in Segments(d) : \A s \in Segments(d) : m <= s
  BY SmallestExists DEF DiskOK
<1>4. Priors(d) # {} => \E m \in Priors(d) : \A s \in Priors(d) : s <= m
  <2>1. Priors(d) \in SUBSET Nat /\ \A s \in Priors(d) : s <= b
    BY <1>1 DEF DiskOK, Priors
  <2>2. QED
    BY <2>1, LargestExists
<1>5. QED
  BY <1>2, <1>3, <1>4 DEF LastSegment, FirstSegment, Prior

\* A line of a wave goes to a segment with a number.
LEMMA SegmentOfType ==
  ASSUME NEW h \in Handles, NEW i \in Nat \ {0}
  PROVE  SegmentOf(h, i) \in Nat
<1>1. h.seg \in Nat /\ h.len \in Nat /\ h.next_seq \in Nat
  BY DEF Handles
<1>2. Roll \in Nat \ {0}
  BY ConstantsAssumption
<1>3. SegmentCapacity \in Nat \ {0}
  BY <1>2 DEF SegmentCapacity
<1>4. Room(h) \in Nat
  BY <1>1, <1>2, <1>3 DEF Room
<1>5. \A a \in Nat, b \in Nat \ {0} : a \div b \in Nat /\ (a \div b) * b \in Nat
  OBVIOUS
<1>6. CASE i <= Room(h)
  BY <1>6, <1>1 DEF SegmentOf
<1>7. CASE ~ (i <= Room(h))
  <2>1. i - 1 - Room(h) \in Nat
    BY <1>4, <1>7
  <2>2. ((i - 1 - Room(h)) \div SegmentCapacity) * SegmentCapacity \in Nat
    BY <1>3, <1>5, <2>1
  <2>3. QED
    BY <1>1, <1>4, <1>7, <2>2 DEF SegmentOf
<1>8. QED
  BY <1>6, <1>7

\* A wave of lines of this build, none of it written yet.
WellPlanned(w) ==
    /\ w \in Waves
    /\ w.lines # << >> /\ Len(w.seg) = Len(w.lines)
    /\ w.todo = {w.seg[i] : i \in DOMAIN w.seg} /\ w.todo # {}
    /\ \A i \in DOMAIN w.lines : w.lines[i].v = 1

\* append_all plans a well-formed wave of lines of this build.
LEMMA PlannedType ==
  ASSUME NEW h \in Handles, NEW n \in Nat \ {0}, NEW o \in BOOLEAN, minted \in Nat
  PROVE  WellPlanned(Planned(h, n, o))
<1> DEFINE w == Planned(h, n, o)
<1>1. h.next_seq \in Nat /\ h.prev \in Nat
  BY DEF Handles
<1>2. \A i \in 1 .. n : Drafted(h, n)[i] \in Line /\ Drafted(h, n)[i].v = 1
  BY <1>1 DEF Drafted, Line
<1>3. Drafted(h, n) \in Seq(Line) /\ Len(Drafted(h, n)) = n
  BY <1>2 DEF Drafted
<1> DEFINE seg == [i \in 1 .. n |-> SegmentOf(h, i)]
<1>4. seg \in Seq(Nat) /\ Len(seg) = n /\ DOMAIN seg = 1 .. n
  BY SegmentOfType
<1>5. {seg[i] : i \in 1 .. n} \subseteq Nat /\ seg[1] \in {seg[i] : i \in 1 .. n}
  BY SegmentOfType
<1> HIDE DEF seg
<1>6. w = [lines |-> Drafted(h, n), seg |-> seg, todo |-> {seg[i] : i \in 1 .. n},
           created |-> w.created, opening |-> o] /\ w.created \in BOOLEAN
  BY DEF Planned, seg, Created
<1> HIDE DEF w
<1>7. w \in Waves
  BY <1>3, <1>4, <1>5, <1>6 DEF Waves
<1>8. DOMAIN w.lines = 1 .. n
  BY <1>6 DEF Drafted
<1>9. w.lines # << >> /\ Len(w.seg) = Len(w.lines)
  BY <1>3, <1>4, <1>6
<1>10. w.todo = {w.seg[i] : i \in DOMAIN w.seg} /\ w.todo # {}
  <2>1. w.seg = seg /\ w.todo = {seg[i] : i \in 1 .. n}
    BY <1>6
  <2>2. w.todo # {}
    BY <2>1, <1>5
  <2>3. QED
    BY <2>1, <2>2, <1>4
<1>11. \A i \in DOMAIN w.lines : w.lines[i].v = 1
  BY <1>2, <1>6, <1>8
<1>12. QED
  BY <1>7, <1>9, <1>10, <1>11 DEF w, WellPlanned

-----------------------------------------------------------------------------
(* The inductive invariant.                                                *)

\* A wave under way has lines, a segment for each, and the segments it has
\* already written exist.
WaveOK ==
    pc \in {"write", "sync", "sync_dir"} =>
        /\ wave.lines # << >>
        /\ Len(wave.seg) = Len(wave.lines)
        /\ wave.todo \subseteq AllSegments
        /\ pc # "sync_dir" => wave.todo # {}
        /\ pc = "write" => AllSegments \ wave.todo \subseteq Segments(disk)
        /\ pc # "write" => AllSegments \subseteq Segments(disk)

\* Repair cuts a segment that is there, within its bytes.
RepairOK ==
    /\ pc \in {"truncate", "sync_cut", "remove"} => Segments(disk) # {}
    /\ pc = "truncate" => keep <= Size(disk[LastSegment(disk)].live)

\* No entry of c was written by a newer build.
OursIn(c) == \A i \in 1 .. Len(c.lines) : c.lines[i].v < 2

\* Every file of d is of this build.
OursDisk(d) == \A s \in Segments(d) : OursIn(d[s].live) /\ OursIn(d[s].durable)

\* Every line on the disk, or on its way there, is of this build.
Ours ==
    /\ OursDisk(disk)
    /\ \A i \in DOMAIN wave.lines : wave.lines[i].v = 1

\* The ledger is a newer build's, as it was found, and nobody has it open.
Untouched ==
    /\ \E beheaded \in BOOLEAN : disk = NewerLedger(beheaded)
    /\ pc \in {"off", "refused"}

\* The inductive invariant of the types and of a newer build's ledger.
IndInv ==
    /\ TypeOK
    /\ DiskOK(disk)
    /\ WaveOK
    /\ RepairOK
    /\ Ours \/ Untouched

-----------------------------------------------------------------------------
(* What the operators of the model return, in a state of the invariant.    *)

\* The lines append_all writes to a segment of its wave: some, and only lines
\* of the wave.
LEMMA LinesForType ==
  ASSUME TypeOK, WaveOK, pc = "write", NEW s \in AllSegments
  PROVE  /\ LinesFor(s) \in Seq(Line)
         /\ LinesFor(s) # << >>
         /\ \A i \in 1 .. Len(LinesFor(s)) :
                \E j \in DOMAIN wave.lines : LinesFor(s)[i] = wave.lines[j]
<1> DEFINE n == Len(wave.lines)
           mine == {i \in 1 .. n : wave.seg[i] = s}
           from == CHOOSE i \in mine : \A j \in mine : i <= j
           upto == from + Cardinality(mine) - 1
<1>1. wave.lines \in Seq(Line) /\ wave.seg \in Seq(Nat) /\ n \in Nat /\ Len(wave.seg) = n
  BY DEF TypeOK, Waves, WaveOK
<1>2. mine # {} /\ mine \in SUBSET Nat
  BY <1>1 DEF AllSegments
<1>3. from \in mine /\ \A j \in mine : from <= j
  <2> HIDE DEF mine
  <2> QED
    BY <1>2, SmallestExists
<1>4. mine \subseteq from .. n /\ from \in 1 .. n
  <2> HIDE DEF from
  <2> QED
    BY <1>3, <1>1
<1>5. Cardinality(mine) \in Nat /\ Cardinality(mine) <= n - from + 1 /\ Cardinality(mine) # 0
  <2> HIDE DEF mine, from
  <2>1. IsFiniteSet(from .. n) /\ Cardinality(from .. n) = n - from + 1
    BY <1>1, <1>4, FS_Interval
  <2>2. IsFiniteSet(mine) /\ Cardinality(mine) <= n - from + 1
    <3> DEFINE B == from .. n
    <3>1. IsFiniteSet(B) /\ mine \in SUBSET B
      BY <2>1, <1>4
    <3> HIDE DEF B
    <3>2. IsFiniteSet(mine) /\ Cardinality(mine) <= Cardinality(B)
      BY ONLY <3>1, FS_Subset
    <3> QED BY ONLY <3>2, <2>1 DEF B
  <2>3. QED
    BY <2>2, <1>2, FS_CardinalityType, FS_EmptySet
<1>6. LinesFor(s) = SubSeq(wave.lines, from, upto)
  BY DEF LinesFor
<1>7. from \in 1 .. n /\ upto \in from .. n
  <2> HIDE DEF mine, from
  <2> QED
    BY <1>1, <1>4, <1>5
<1> HIDE DEF mine, from, upto
<1>8. \A i \in from .. upto : wave.lines[i] \in Line
  BY <1>1, <1>7
<1>9. /\ LinesFor(s) \in Seq(Line)
      /\ Len(LinesFor(s)) = upto - from + 1
      /\ \A i \in 1 .. upto - from + 1 : LinesFor(s)[i] = wave.lines[from + i - 1]
  <2> DEFINE ws == wave.lines
  <2>1. ws \in Seq(Line) /\ from \in Nat /\ upto \in Nat /\ from <= upto + 1
        /\ \A i \in from .. upto : ws[i] \in Line
    BY <1>1, <1>7, <1>8
  <2> HIDE DEF ws
  <2>2. /\ SubSeq(ws, from, upto) \in Seq(Line)
        /\ Len(SubSeq(ws, from, upto)) = upto - from + 1
        /\ \A i \in 1 .. upto - from + 1 : SubSeq(ws, from, upto)[i] = ws[from + i - 1]
    BY ONLY <2>1, SubSeqProperties
  <2> QED BY ONLY <2>2, <1>6 DEF ws
<1>10. LinesFor(s) # << >>
  BY <1>7, <1>9
<1>11. \A i \in 1 .. Len(LinesFor(s)) : from + i - 1 \in DOMAIN wave.lines
  BY <1>1, <1>7, <1>9
<1>12. QED
  BY <1>7, <1>9, <1>10, <1>11

\* The segment the wave is at is one of its segments, and there is one.
LEMMA CurrentType ==
  ASSUME TypeOK, WaveOK, pc \in {"write", "sync"}
  PROVE  Current \in wave.todo /\ Current \in AllSegments /\ Current \in Nat
<1>1. wave.todo # {} /\ wave.todo \in SUBSET Nat /\ wave.todo \subseteq AllSegments
  BY DEF TypeOK, Waves, WaveOK
<1>2. \E s \in wave.todo : \A t \in wave.todo : s <= t
  BY <1>1, SmallestExists
<1>3. QED
  BY <1>1, <1>2 DEF Current

\* The history a reader finds is made of entries.
LEMMA RawLinesType ==
  ASSUME NEW d, DiskOK(d), NEW n \in Nat
  PROVE  RawLines(d, n) \in Seq(Line \cup {Garbage})
<1>1. ASSUME NEW q \in Nat
      PROVE  LineAt(d, q) \in Line \cup {Garbage}
  <2>1. CASE HoldersOf(d, q) = {}
    BY <2>1 DEF LineAt
  <2>2. CASE HoldersOf(d, q) # {}
    <3> DEFINE s == CHOOSE h \in HoldersOf(d, q) : TRUE
    <3>1. s \in HoldersOf(d, q)
      BY <2>2
    <3> HIDE DEF s
    <3>2. s \in Segments(d) /\ s \in Nat /\ d[s].live \in Content
      BY <3>1 DEF HoldersOf, DiskOK, File
    <3>3. d[s].live.lines \in Seq(Line \cup {Garbage})
      BY <3>2 DEF Content
    <3>4. q - s + 1 \in 1 .. Len(d[s].live.lines)
      BY <3>1, <3>2, <3>3 DEF HoldersOf
    <3>5. d[s].live.lines[q - s + 1] \in Line \cup {Garbage}
      BY <3>3, <3>4
    <3>6. QED
      BY <3>5, <2>2 DEF LineAt, s
  <2>3. QED
    BY <2>1, <2>2
<1>2. \A i \in 1 .. n : LineAt(d, i - 1) \in Line \cup {Garbage}
  BY <1>1
<1>3. QED
  BY <1>2 DEF RawLines

\* recover_tail keeps a prefix of the last segment: the longest that
\* continues the chain.
LEMMA ValidLinesType ==
  ASSUME NEW d, DiskOK(d), Segments(d) # {}
  PROVE  LET n == Len(d[LastSegment(d)].live.lines)
         IN  /\ n \in Nat
             /\ ValidLines(d) \in 0 .. n
             /\ \A i \in 1 .. ValidLines(d) : Continues(d, i)
             /\ ValidLines(d) < n => ~ Continues(d, ValidLines(d) + 1)
<1> DEFINE n == Len(d[LastSegment(d)].live.lines)
           Ends == {k \in 0 .. n : k < n => ~ Continues(d, k + 1)}
<1>1. n \in Nat
  BY SegmentChoice, CutType DEF DiskOK, File
<1> HIDE DEF n
<1>2. n \in Ends /\ Ends \in SUBSET Nat
  BY <1>1
<1>3. PICK k \in Ends : \A j \in Ends : k <= j
  BY <1>2, SmallestExists
<1>4. \A i \in 1 .. k : Continues(d, i)
  <2>1. SUFFICES ASSUME NEW i \in 1 .. k
                 PROVE  Continues(d, i)
    OBVIOUS
  <2>2. i - 1 \in 0 .. n /\ i - 1 < n /\ ~ (k <= i - 1)
    BY <1>1, <1>3
  <2>3. i - 1 \notin Ends
    BY <2>2, <1>3
  <2>4. Continues(d, (i - 1) + 1)
    BY <2>2, <2>3
  <2>5. QED
    BY <2>4
<1>5. \E m \in 0 .. n : /\ \A i \in 1 .. m : Continues(d, i)
                        /\ m < n => ~ Continues(d, m + 1)
  BY <1>3, <1>4
<1>6. QED
  BY <1>1, <1>5 DEF ValidLines, n

\* The entries of a file carry numbers, whether or not they parse.
LEMMA EntryType ==
  ASSUME NEW c \in Content, NEW i \in 1 .. Len(c.lines)
  PROVE  c.lines[i].seq \in Nat /\ c.lines[i].prev \in Nat /\ c.lines[i].id \in Nat
<1>1. c.lines[i] \in Line \cup {Garbage}
  BY DEF Content
<1>2. QED
  BY <1>1 DEF Line, Garbage

\* open leaves a handle that stands somewhere.
LEMMA RecoveredType ==
  ASSUME NEW d, DiskOK(d), Segments(d) # {}, ~ open_refuses(d)
  PROVE  Recovered(d) \in Handles
<1> DEFINE last == LastSegment(d)
           k == ValidLines(d)
<1>1. last \in Nat /\ last \in Segments(d) /\ d[last].live \in Content
  BY SegmentChoice DEF DiskOK, File
<1>2. k \in Nat /\ k <= Len(d[last].live.lines)
  BY ValidLinesType
<1>3. Priors(d) # {} => /\ Prior(d) \in Nat
                        /\ d[Prior(d)].live \in Content
                        /\ Len(d[Prior(d)].live.lines) \in Nat \ {0}
  <2>1. SUFFICES ASSUME Priors(d) # {}
                 PROVE  /\ Prior(d) \in Nat
                        /\ d[Prior(d)].live \in Content
                        /\ Len(d[Prior(d)].live.lines) \in Nat \ {0}
    OBVIOUS
  <2>2. Prior(d) \in Segments(d)
    BY <2>1, SegmentChoice DEF Priors
  <2>3. Prior(d) \in Nat /\ d[Prior(d)].live \in Content
    BY <2>2 DEF DiskOK, File
  <2>4. d[Prior(d)].live.lines # << >>
    BY <2>1 DEF open_refuses, boundary_refuses
  <2>5. d[Prior(d)].live.lines \in Seq(Line \cup {Garbage})
    BY <2>3 DEF Content
  <2>6. QED
    BY <2>3, <2>4, <2>5, EmptySeq
<1>4. boundary(d).prev \in Nat /\ boundary(d).next_seq \in Nat
  <2>1. CASE Priors(d) = {}
    BY <2>1 DEF boundary
  <2>2. CASE Priors(d) # {}
    <3> DEFINE p == d[Prior(d)].live
    <3>1. p.lines[Len(p.lines)].seq \in Nat /\ p.lines[Len(p.lines)].id \in Nat
      BY <2>2, <1>3, EntryType
    <3>2. QED
      BY <2>2, <3>1 DEF boundary
  <2>3. QED
    BY <2>1, <2>2
<1>5. Priors(d) # {} => Size(d[Prior(d)].live) \in Nat
  BY <1>3, CutType
<1>6. k # 0 => d[last].live.lines[k].id \in Nat
  <2>1. k # 0 => k \in 1 .. Len(d[last].live.lines)
    BY <1>1, <1>2, CutType
  <2>2. QED
    BY <1>1, <2>1, EntryType
<1> HIDE DEF last, k
<1> DEFINE back == TornTail(d) /\ k = 0
           r == Recovered(d)
<1>7. r = [seg  |-> IF ~ back THEN last ELSE IF Priors(d) = {} THEN 0 ELSE Prior(d),
           len  |-> IF ~ back THEN LineSize * k
                    ELSE IF Priors(d) = {} THEN 0 ELSE Size(d[Prior(d)].live),
           next_seq |-> boundary(d).next_seq + k,
           prev |-> IF k = 0 THEN boundary(d).prev ELSE d[last].live.lines[k].id]
  BY DEF Recovered, last, k
<1> HIDE DEF r, back
<1>8. r \in Handles
  BY <1>1, <1>2, <1>3, <1>4, <1>5, <1>6, <1>7 DEF Handles
<1>9. QED
  BY <1>8 DEF r

\* append_all leaves a handle that stands somewhere.
LEMMA AdvancedType ==
  ASSUME TypeOK, WaveOK, pc \in {"sync", "sync_dir"}
  PROVE  Advanced \in Handles
<1> DEFINE n == Len(wave.lines)
           last == wave.seg[n]
           mine == Cardinality({i \in 1 .. n : wave.seg[i] = last})
<1>1. /\ n \in Nat \ {0}
      /\ wave.lines[n] \in Line
      /\ last \in Nat
  BY EmptySeq DEF TypeOK, Waves, WaveOK
<1>2. mine \in Nat
  <2> DEFINE M == {i \in 1 .. n : wave.seg[i] = last}
  <2>1. M \in SUBSET (1 .. n) /\ IsFiniteSet(1 .. n)
    BY <1>1, FS_Interval
  <2>2. IsFiniteSet(M)
    <3> HIDE DEF M
    <3> QED
      BY <2>1, FS_Subset
  <2>3. QED
    BY <2>2, FS_CardinalityType
<1>3. handle.seg \in Nat /\ handle.len \in Nat /\ handle.next_seq \in Nat
  BY DEF TypeOK, Handles
<1>4. wave.lines[n].id \in Nat
  BY <1>1 DEF Line
<1>5. Advanced = [seg |-> last,
                  len |-> LineSize * mine + IF last = handle.seg THEN handle.len ELSE 0,
                  next_seq |-> handle.next_seq + n,
                  prev |-> wave.lines[n].id]
  BY DEF Advanced
<1> HIDE DEF mine, last, n
<1>6. QED
  BY <1>1, <1>2, <1>3, <1>4, <1>5 DEF Handles

\* Cutting a file, or writing lines of this build behind it, brings in no line
\* of a newer build.
LEMMA OursKept ==
  ASSUME NEW c \in Content, OursIn(c)
  PROVE  /\ \A k \in 0 .. Size(c) : OursIn(Cut(c, k))
         /\ \A ls \in Seq(Line) :
                ls # << >> /\ (\A i \in 1 .. Len(ls) : ls[i].v = 1) => OursIn(Appended(c, ls))
<1>1. c.lines \in Seq(Line \cup {Garbage}) /\ Len(c.lines) \in Nat /\ c.torn \in BOOLEAN
  BY DEF Content
<1>2. ASSUME NEW k \in 0 .. Size(c)
      PROVE  OursIn(Cut(c, k))
  <2>1. Size(c) <= 2 * Len(c.lines) + 1 /\ Size(c) \in Nat
    <3>1. CASE c.torn
      BY <3>1, <1>1 DEF Size
    <3>2. CASE ~ c.torn
      BY <3>2, <1>1 DEF Size
    <3>3. QED
      BY <3>1, <3>2
  <2>2. k \div 2 \in 0 .. Len(c.lines)
    BY <2>1, <1>1
  <2>3. \A i \in 1 .. (k \div 2) : c.lines[i] \in Line \cup {Garbage}
    BY <2>2, <1>1
  <2>4. /\ Len(SubSeq(c.lines, 1, k \div 2)) = k \div 2
        /\ \A i \in 1 .. (k \div 2) : SubSeq(c.lines, 1, k \div 2)[i] = c.lines[i]
    BY <2>2, <2>3, SubSeqProperties
  <2>5. Cut(c, k).lines = SubSeq(c.lines, 1, k \div 2)
    BY DEF Cut
  <2>6. QED
    BY <2>2, <2>4, <2>5, <1>1 DEF OursIn
<1>3. ASSUME NEW ls \in Seq(Line), ls # << >>, \A i \in 1 .. Len(ls) : ls[i].v = 1
      PROVE  OursIn(Appended(c, ls))
  <2> DEFINE E == Line \cup {Garbage}
             more == IF c.torn THEN <<Garbage>> \o Tail(ls) ELSE ls
  <2>1. more \in Seq(E) /\ \A i \in 1 .. Len(more) : more[i].v < 2
    <3>1. CASE ~ c.torn
      BY <3>1, <1>3
    <3>2. CASE c.torn
      <4>1. /\ Tail(ls) \in Seq(E) /\ Len(Tail(ls)) = Len(ls) - 1 /\ Len(ls) \in Nat
            /\ \A i \in 1 .. Len(ls) - 1 : Tail(ls)[i].v = 1
        BY <1>3
      <4>2. <<Garbage>> \in Seq(E) /\ Len(<<Garbage>>) = 1 /\ <<Garbage>>[1] = Garbage
        OBVIOUS
      <4> HIDE DEF E
      <4>3. /\ <<Garbage>> \o Tail(ls) \in Seq(E)
            /\ Len(<<Garbage>> \o Tail(ls)) = Len(ls)
            /\ \A i \in 1 .. Len(ls) : (<<Garbage>> \o Tail(ls))[i]
                                = IF i <= 1 THEN Garbage ELSE Tail(ls)[i - 1]
        BY <4>1, <4>2, ConcatProperties
      <4>4. Garbage.v = 0
        BY DEF Garbage
      <4>5. more = <<Garbage>> \o Tail(ls)
        BY <3>2
      <4> HIDE DEF more
      <4>6. ASSUME NEW i \in 1 .. Len(more)
            PROVE  more[i].v < 2
        <5>1. CASE i = 1
          BY <5>1, <4>3, <4>4, <4>5
        <5>2. CASE i # 1
          <6>1. i - 1 \in 1 .. Len(ls) - 1 /\ ~ (i <= 1) /\ i \in 1 .. Len(ls)
            BY <5>2, <4>1, <4>3, <4>5
          <6>2. more[i] = Tail(ls)[i - 1]
            BY <6>1, <4>3, <4>5
          <6>3. QED
            BY <6>1, <6>2, <4>1
        <5>3. QED
          BY <5>1, <5>2
      <4>7. QED
        BY <4>3, <4>5, <4>6
    <3>3. QED
      BY <3>1, <3>2, <1>1
  <2>2. Appended(c, ls).lines = c.lines \o more
    BY DEF Appended
  <2> HIDE DEF more
  <2>3. Len(more) \in Nat /\ c.lines \in Seq(E)
    BY <2>1, <1>1
  <2> HIDE DEF E
  <2>4. \A s, t \in Seq(E) : /\ Len(s \o t) = Len(s) + Len(t)
                             /\ \A i \in 1 .. Len(s) + Len(t) :
                                   (s \o t)[i] = IF i <= Len(s) THEN s[i] ELSE t[i - Len(s)]
    BY ConcatProperties
  <2>5. /\ Len(c.lines \o more) = Len(c.lines) + Len(more)
        /\ \A i \in 1 .. Len(c.lines) + Len(more) :
              (c.lines \o more)[i] = IF i <= Len(c.lines) THEN c.lines[i] ELSE more[i - Len(c.lines)]
    BY <2>1, <2>3, <2>4, Zenon
  <2>6. ASSUME NEW i \in 1 .. Len(c.lines) + Len(more)
        PROVE  (c.lines \o more)[i].v < 2
    <3>1. CASE i <= Len(c.lines)
      BY <3>1, <2>5, <2>3, <1>1 DEF OursIn
    <3>2. CASE ~ (i <= Len(c.lines))
      <4>1. i - Len(c.lines) \in 1 .. Len(more)
        BY <3>2, <2>3, <1>1
      <4>2. QED
        BY <4>1, <3>2, <2>5, <2>1
    <3>3. QED
      BY <3>1, <3>2
  <2>7. QED
    BY <2>2, <2>5, <2>6 DEF OursIn
<1>4. QED
  BY <1>2, <1>3

\* A blank file is a file, and holds no line at all.
LEMMA BlankType == Blank \in Content /\ OursIn(Blank)
  BY DEF Blank, Content, OursIn

\* Vfs::append adds one file at most, and what it is given to the others.
LEMMA VfsAppendType ==
  ASSUME NEW d, DiskOK(d), NEW s \in Nat, NEW c \in Content
  PROVE  /\ DiskOK(VfsAppend(d, s, c))
         /\ Segments(VfsAppend(d, s, c)) = Segments(d) \cup {s}
         /\ OursDisk(d) /\ OursIn(c) => OursDisk(VfsAppend(d, s, c))
<1> DEFINE e == VfsAppend(d, s, c)
<1>1. Segments(e) = Segments(d) \cup {s}
  BY DEF VfsAppend, Segments
<1>2. /\ \A t \in Segments(d) \ {s} : e[t] = d[t]
      /\ e[s] = IF s \in Segments(d) THEN [d[s] EXCEPT !.live = c] ELSE NewFile(c)
  BY DEF VfsAppend, Segments
<1>3. e[s] \in File /\ e[s].live = c
      /\ e[s].durable = IF s \in Segments(d) THEN d[s].durable ELSE Blank
  <2>1. CASE s \in Segments(d)
    BY <2>1, <1>2 DEF DiskOK, File
  <2>2. CASE s \notin Segments(d)
    BY <2>2, <1>2, BlankType DEF NewFile, File
  <2>3. QED
    BY <2>1, <2>2
<1> HIDE DEF e
<1>4. \A t \in Segments(e) : e[t] \in File
  BY <1>1, <1>2, <1>3 DEF DiskOK
<1>5. \E b \in Nat : \A t \in Segments(e) : t <= b
  <2>1. PICK b \in Nat : \A t \in Segments(d) : t <= b
    BY DEF DiskOK
  <2>2. b + s \in Nat /\ \A t \in Segments(e) : t <= b + s
    BY <2>1, <1>1 DEF DiskOK
  <2>3. QED
    BY <2>2
<1>6. DiskOK(e)
  BY <1>1, <1>4, <1>5 DEF DiskOK
<1>7. OursDisk(d) /\ OursIn(c) => OursDisk(e)
  BY <1>1, <1>2, <1>3, BlankType DEF OursDisk
<1>8. QED
  BY <1>1, <1>6, <1>7 DEF e

\* Vfs::truncate within a file leaves files.
LEMMA VfsTruncateType ==
  ASSUME NEW d, DiskOK(d), NEW s \in Segments(d), NEW k \in 0 .. Size(d[s].live)
  PROVE  /\ DiskOK(VfsTruncate(d, s, k))
         /\ Segments(VfsTruncate(d, s, k)) = Segments(d)
         /\ OursDisk(d) => OursDisk(VfsTruncate(d, s, k))
<1> DEFINE e == VfsTruncate(d, s, k)
<1>1. Segments(e) = Segments(d)
  BY DEF VfsTruncate, Segments
<1>2. \A t \in Segments(d) \ {s} : e[t] = d[t]
  BY DEF VfsTruncate, Segments
<1>3. d[s] \in File /\ d[s].live \in Content
  BY DEF DiskOK, File
<1>4. e[s] = [d[s] EXCEPT !.live = Cut(@, k)]
  BY DEF VfsTruncate, Segments
<1>5. e[s] \in File /\ e[s].live = Cut(d[s].live, k) /\ e[s].durable = d[s].durable
  BY <1>3, <1>4, CutType DEF File
<1> HIDE DEF e
<1>6. DiskOK(e)
  BY <1>1, <1>2, <1>5 DEF DiskOK
<1>7. OursDisk(d) => OursDisk(e)
  BY <1>1, <1>2, <1>3, <1>5, OursKept DEF OursDisk
<1>8. QED
  BY <1>1, <1>6, <1>7 DEF e

\* Vfs::sync_data makes the file's bytes the surviving ones.
LEMMA VfsSyncDataType ==
  ASSUME NEW d, DiskOK(d), NEW s \in Segments(d)
  PROVE  /\ DiskOK(VfsSyncData(d, s))
         /\ Segments(VfsSyncData(d, s)) = Segments(d)
         /\ OursDisk(d) => OursDisk(VfsSyncData(d, s))
<1> DEFINE e == VfsSyncData(d, s)
<1>1. Segments(e) = Segments(d)
  BY DEF VfsSyncData, Segments
<1>2. \A t \in Segments(d) \ {s} : e[t] = d[t]
  BY DEF VfsSyncData, Segments
<1>3. d[s] \in File /\ e[s] = [d[s] EXCEPT !.durable = d[s].live]
  BY DEF VfsSyncData, Segments, DiskOK
<1>4. e[s] \in File /\ e[s].live = d[s].live /\ e[s].durable = d[s].live
  BY <1>3 DEF File
<1> HIDE DEF e
<1>5. QED
  BY <1>1, <1>2, <1>4 DEF DiskOK, OursDisk, e

\* Vfs::sync_dir makes the entries the surviving ones; Vfs::remove drops one.
LEMMA VfsSyncDirType ==
  ASSUME NEW d, DiskOK(d)
  PROVE  /\ DiskOK(VfsSyncDir(d))
         /\ Segments(VfsSyncDir(d)) = Segments(d)
         /\ OursDisk(d) => OursDisk(VfsSyncDir(d))
<1> DEFINE e == VfsSyncDir(d)
<1>1. Segments(e) = Segments(d)
  BY DEF VfsSyncDir, Segments
<1>2. \A t \in Segments(d) : e[t] = [d[t] EXCEPT !.durable_entry = TRUE]
  BY DEF VfsSyncDir, Segments
<1>3. \A t \in Segments(d) : e[t] \in File /\ e[t].live = d[t].live /\ e[t].durable = d[t].durable
  BY <1>2 DEF DiskOK, File
<1> HIDE DEF e
<1>4. QED
  BY <1>1, <1>3 DEF DiskOK, OursDisk, e

\* Vfs::remove leaves the other files as they are.
LEMMA VfsRemoveType ==
  ASSUME NEW d, DiskOK(d), NEW s
  PROVE  /\ DiskOK(VfsRemove(d, s))
         /\ OursDisk(d) => OursDisk(VfsRemove(d, s))
<1> DEFINE e == VfsRemove(d, s)
<1>1. Segments(e) = Segments(d) \ {s} /\ \A t \in Segments(e) : e[t] = d[t]
  BY DEF VfsRemove, Segments
<1> HIDE DEF e
<1>2. QED
  BY <1>1 DEF DiskOK, OursDisk, e

\* Every file of d, and its entry, is synced.
Settled(d) ==
    /\ d = [s \in Segments(d) |-> [durable_entry |-> TRUE, live |-> d[s].durable,
                                   durable |-> d[s].durable]]
    /\ \A s \in Segments(d) : d[s].durable_entry /\ d[s].live = d[s].durable

\* A disk made of synced files is one.
LEMMA SettledFacts ==
  ASSUME NEW S \in SUBSET {0, 1}, 0 \in S, NEW f \in [S -> Content], NEW d,
         d = [s \in S |-> [durable_entry |-> TRUE, live |-> f[s], durable |-> f[s]]]
  PROVE  /\ Settled(d)
         /\ DiskOK(d)
         /\ 0 \in Segments(d)
         /\ d[0].live = f[0]
<1>1. Segments(d) = S
  BY DEF Segments
<1>2. \A s \in S : d[s].durable_entry /\ d[s].live = f[s] /\ d[s].durable = f[s]
  OBVIOUS
<1>3. \A s \in S : d[s] \in File
  BY DEF File
<1>4. S \subseteq Nat /\ \A s \in S : s <= 1
  OBVIOUS
<1>5. DiskOK(d)
  BY <1>1, <1>3, <1>4 DEF DiskOK
<1>6. d = [s \in S |-> [durable_entry |-> TRUE, live |-> d[s].durable, durable |-> d[s].durable]]
  BY <1>2
<1>7. Settled(d)
  BY <1>1, <1>2, <1>6 DEF Settled
<1>8. QED
  BY <1>1, <1>2, <1>5, <1>7

\* A newer build's ledger: synced, and its first line is of a newer version.
LEMMA NewerLedgerFacts ==
  ASSUME NEW b \in BOOLEAN, NEW d, d = NewerLedger(b)
  PROVE  /\ Settled(d)
         /\ DiskOK(d)
         /\ 0 \in Segments(d)
         /\ d[0].live.lines[1].v = 2 /\ d[0].live.lines # << >>
<1> DEFINE first == [lines |-> <<[v |-> 2, seq |-> 0, prev |-> 0, id |-> 1]>>, torn |-> FALSE]
           rest == [lines |-> << >>, torn |-> TRUE]
           S == IF b THEN {0, 1} ELSE {0}
           g(s) == IF s = 0 THEN first ELSE rest
           f == [s \in S |-> g(s)]
<1>1. d = [s \in S |-> [durable_entry |-> TRUE, live |-> g(s), durable |-> g(s)]]
  BY DEF NewerLedger
<1>2. first \in Content /\ rest \in Content
  BY DEF Content, Line
<1>3. first.lines[1].v = 2 /\ first.lines # << >>
  OBVIOUS
<1>4. S \in SUBSET {0, 1} /\ 0 \in S
  OBVIOUS
<1> HIDE DEF first, rest, S
<1>5. f \in [S -> Content] /\ f[0] = first
  BY <1>2, <1>4
<1>6. d = [s \in S |-> [durable_entry |-> TRUE, live |-> f[s], durable |-> f[s]]]
  <2> HIDE DEF g
  <2> QED
    BY <1>1
<1> HIDE DEF f
<1>7. /\ Settled(d)
      /\ DiskOK(d)
      /\ 0 \in Segments(d)
      /\ d[0].live = f[0]
  BY ONLY <1>4, <1>5, <1>6, SettledFacts, Zenon
<1>8. QED
  BY <1>3, <1>5, <1>7, Zenon

\* The version probe refuses a newer build's ledger.
LEMMA NewerIsRefused ==
  ASSUME NEW b \in BOOLEAN, NEW d, d = NewerLedger(b)
  PROVE  open_refuses(d)
<1>1. DiskOK(d) /\ 0 \in Segments(d) /\ d[0].live.lines[1].v = 2 /\ d[0].live.lines # << >>
  BY NewerLedgerFacts
<1>2. FirstSegment(d) = 0
  <2>1. FirstSegment(d) \in Nat /\ FirstSegment(d) <= 0
    BY <1>1, SegmentChoice DEF DiskOK
  <2>2. QED
    BY <2>1
<1>3. probe_version_refuses(d)
  BY <1>1, <1>2 DEF probe_version_refuses, parse_ok
<1>4. QED
  BY <1>3 DEF open_refuses

-----------------------------------------------------------------------------
(* Induction.                                                              *)

\* The invariant holds of a fresh city and of a newer build's ledger.
LEMMA InitInv == Init => IndInv
<1> SUFFICES ASSUME Init
             PROVE  IndInv
  OBVIOUS
<1>1. NoHandle \in Handles
  BY DEF NoHandle, Handles
<1>2. NoWave \in Waves
  BY DEF NoWave, Waves
<1>3. ConstantsAssumption
  BY ConstantsAssumption
<1>4. DiskOK(disk)
  <2>1. CASE disk = << >>
    <3>1. Segments(disk) = {}
      BY <2>1 DEF Segments
    <3>2. QED
      BY <3>1 DEF DiskOK
  <2>2. CASE \E b \in BOOLEAN : disk = NewerLedger(b)
    BY <2>2, NewerLedgerFacts
  <2>3. QED
    BY <2>1, <2>2 DEF Init
<1>5. TypeOK
  BY <1>1, <1>2, <1>3, <1>4 DEF Init, TypeOK, DiskOK, ConstantsAssumption, Phases
<1>6. WaveOK /\ RepairOK
  BY DEF Init, WaveOK, RepairOK
<1>7. Ours \/ Untouched
  <2>1. CASE disk = << >>
    <3>1. Segments(disk) = {}
      BY <2>1 DEF Segments
    <3>2. DOMAIN wave.lines = {}
      BY DEF Init, NoWave
    <3>3. QED
      BY <3>1, <3>2 DEF Ours, OursDisk
  <2>2. CASE \E b \in BOOLEAN : disk = NewerLedger(b)
    BY <2>2 DEF Untouched, Init
  <2>3. QED
    BY <2>1, <2>2 DEF Init
<1>8. QED
  BY <1>4, <1>5, <1>6, <1>7 DEF IndInv

\* While the ledger is open or being opened, it is of this build.
LEMMA OpenIsOurs ==
  ASSUME IndInv, pc \notin {"off", "refused"}
  PROVE  Ours
  BY DEF IndInv, Untouched

\* Once the tail is repaired, append_log_truncated plans its wave or the
\* ledger is open.
LEMMA AfterRepairInv ==
  ASSUME IndInv, DiskOK(disk'), OursDisk(disk'), OursDisk(disk), pc \notin {"off", "refused"},
         AfterRepair(disk'), UNCHANGED <<acked, handle, keep, drafts, faults>>
  PROVE  IndInv'
<1>1. TypeOK /\ Ours
  BY OpenIsOurs DEF IndInv
<1>2. handle \in Handles /\ minted \in Nat
  BY <1>1 DEF TypeOK
<1>3. CASE handle.next_seq = 0 /\ Opened(disk', handle) /\ UNCHANGED <<wave, minted>>
  <2>1. log' \in Seq(Line \cup {Garbage})
    BY <1>2, <1>3, RawLinesType DEF Opened, Handles
  <2>2. pc' = "idle"
    BY <1>3 DEF Opened
  <2>3. TypeOK'
    BY <1>1, <1>3, <2>1, <2>2 DEF TypeOK, DiskOK, Phases
  <2>4. WaveOK' /\ RepairOK'
    BY <2>2 DEF WaveOK, RepairOK
  <2>5. Ours'
    BY <1>1, <1>3 DEF Ours
  <2>6. QED
    BY <2>3, <2>4, <2>5 DEF IndInv
<1>4. CASE /\ handle.next_seq # 0
           /\ wave' = Planned(handle, 1, TRUE)
           /\ minted' = minted + 1
           /\ pc' = "write"
           /\ UNCHANGED log
  <2>0. minted' = minted + 1 /\ pc' = "write" /\ log' = log
    BY <1>4, Zenon
  <2>1. WellPlanned(wave')
    <3>1. 1 \in Nat \ {0} /\ TRUE \in BOOLEAN
      OBVIOUS
    <3>2. QED
      BY <1>2, <1>4, <3>1, PlannedType, Zenon
  <2>2. TypeOK'
    <3>1. wave' \in Waves /\ minted' \in Nat /\ log' \in Seq(Line \cup {Garbage})
      BY <1>1, <1>2, <2>0, <2>1 DEF TypeOK, WellPlanned
    <3>2. QED
      BY <1>1, <2>0, <3>1 DEF TypeOK, DiskOK, Phases
  <2>3. WaveOK' /\ RepairOK'
    BY <2>0, <2>1 DEF WaveOK, RepairOK, AllSegments, WellPlanned
  <2>4. Ours'
    BY <2>1 DEF Ours, WellPlanned
  <2>5. QED
    BY <2>2, <2>3, <2>4 DEF IndInv
<1>5. QED
  BY <1>3, <1>4 DEF AfterRepair

\* A process that is gone leaves the files, and no wave.
LEMMA GoneInv ==
  ASSUME IndInv, DiskOK(disk'), Gone, faults' \in 0 .. MaxFaults,
         (Ours /\ OursDisk(disk')) \/ Untouched'
  PROVE  IndInv'
<1>1. NoHandle \in Handles
  BY DEF NoHandle, Handles
<1>2. NoWave \in Waves /\ DOMAIN NoWave.lines = {}
  BY DEF NoWave, Waves
<1>3. TypeOK'
  BY <1>1, <1>2 DEF IndInv, TypeOK, Gone, DiskOK, Phases
<1>4. WaveOK' /\ RepairOK'
  BY DEF Gone, WaveOK, RepairOK
<1>5. Ours' \/ Untouched'
  BY <1>2 DEF Gone, Ours
<1>6. QED
  BY <1>3, <1>4, <1>5 DEF IndInv

\* append_all answers Ok: the handle advances and the ledger is open.
LEMMA AcknowledgeInv ==
  ASSUME IndInv, DiskOK(disk'), OursDisk(disk'), pc \in {"sync", "sync_dir"},
         Acknowledge(disk'), UNCHANGED <<keep, minted, drafts, faults>>
  PROVE  IndInv'
<1>1. TypeOK /\ WaveOK
  BY DEF IndInv
<1>2. handle' \in Handles /\ handle'.next_seq \in Nat
  BY <1>1, AdvancedType DEF Acknowledge, Handles
<1>3. NoWave \in Waves /\ DOMAIN NoWave.lines = {}
  BY DEF NoWave, Waves
<1>4. wave.lines \in Seq(Line)
  BY <1>1 DEF TypeOK, Waves
<1>5. log' \in Seq(Line \cup {Garbage})
  <2>1. RawLines(disk', handle'.next_seq) \in Seq(Line \cup {Garbage})
    BY <1>2, RawLinesType
  <2>2. log \o wave.lines \in Seq(Line \cup {Garbage})
    BY <1>1, <1>4 DEF TypeOK
  <2>3. QED
    BY <2>1, <2>2 DEF Acknowledge
<1>6. acked' \subseteq Line
  BY <1>1, <1>4 DEF TypeOK, Acknowledge
<1>7. TypeOK'
  BY <1>1, <1>2, <1>3, <1>5, <1>6 DEF TypeOK, Acknowledge, DiskOK, Phases
<1>8. WaveOK' /\ RepairOK'
  BY DEF Acknowledge, WaveOK, RepairOK
<1>9. Ours'
  BY <1>3 DEF Acknowledge, Ours
<1>10. QED
  BY <1>7, <1>8, <1>9 DEF IndInv

\* open either stands on what it found, refuses it, or begins its repair.
LEMMA OpenInv ==
  ASSUME IndInv, Open
  PROVE  IndInv'
<1>1. TypeOK /\ DiskOK(disk) /\ disk' = disk /\ pc \in {"off", "refused"}
  BY DEF IndInv, Open
<1>2. acked' = acked /\ wave' = wave /\ minted' = minted /\ drafts' = drafts /\ faults' = faults
  BY DEF Open
<1>3. CASE pc' = "refused" /\ UNCHANGED <<log, handle, keep>>
  <2>1. TypeOK'
    BY <1>1, <1>2, <1>3 DEF TypeOK, Phases
  <2>2. WaveOK' /\ RepairOK'
    BY <1>3 DEF WaveOK, RepairOK
  <2>3. Ours' \/ Untouched'
    BY <1>1, <1>2, <1>3 DEF IndInv, Ours, Untouched
  <2>4. QED
    BY <1>1, <2>1, <2>2, <2>3 DEF IndInv
<1>4. CASE Segments(disk) = {} /\ handle' = NoHandle /\ keep' = 0 /\ Opened(disk, NoHandle)
  <2>1. NoHandle \in Handles /\ NoHandle.next_seq \in Nat
    BY DEF NoHandle, Handles
  <2>2. log' \in Seq(Line \cup {Garbage}) /\ pc' = "idle"
    BY <1>1, <1>4, <2>1, RawLinesType DEF Opened
  <2>3. TypeOK'
    BY <1>1, <1>2, <1>4, <2>1, <2>2 DEF TypeOK, Phases
  <2>4. WaveOK' /\ RepairOK'
    BY <2>2 DEF WaveOK, RepairOK
  <2>5. Ours
    BY <1>4, NewerLedgerFacts DEF IndInv, Untouched
  <2>6. QED
    BY <1>1, <1>2, <2>3, <2>4, <2>5 DEF IndInv, Ours
<1>5. CASE /\ Segments(disk) # {} /\ ~ open_refuses(disk)
           /\ handle' = Recovered(disk)
           /\ keep' = LineSize * ValidLines(disk)
           /\ IF TornTail(disk)
              THEN pc' = "truncate" /\ UNCHANGED log
              ELSE Opened(disk, handle')
  <2>1. handle' \in Handles /\ handle'.next_seq \in Nat
    BY <1>1, <1>5, RecoveredType DEF Handles
  <2>2. keep' \in Nat
    BY <1>1, <1>5, ValidLinesType
  <2>3. Ours
    BY <1>5, NewerIsRefused DEF IndInv, Untouched
  <2>4. Ours'
    BY <1>1, <1>2, <2>3 DEF Ours
  <2>5. Size(disk[LastSegment(disk)].live) \in Nat
    <3>1. disk[LastSegment(disk)].live \in Content
      BY <1>1, <1>5, SegmentChoice DEF DiskOK, File
    <3>2. QED
      BY <3>1, CutType
  <2>6. CASE TornTail(disk)
    <3>1. pc' = "truncate" /\ log' = log
      BY <1>5, <2>6
    <3>2. TypeOK'
      BY <1>1, <1>2, <2>1, <2>2, <3>1 DEF TypeOK, Phases
    <3>3. WaveOK' /\ RepairOK'
      BY <1>1, <1>5, <2>2, <2>5, <2>6, <3>1 DEF WaveOK, RepairOK, TornTail
    <3>4. QED
      BY <1>1, <2>4, <3>2, <3>3 DEF IndInv
  <2>7. CASE ~ TornTail(disk)
    <3>1. pc' = "idle" /\ log' \in Seq(Line \cup {Garbage})
      BY <1>1, <1>5, <2>1, <2>7, RawLinesType DEF Opened
    <3>2. TypeOK'
      BY <1>1, <1>2, <2>1, <2>2, <3>1 DEF TypeOK, Phases
    <3>3. WaveOK' /\ RepairOK'
      BY <3>1 DEF WaveOK, RepairOK
    <3>4. QED
      BY <1>1, <2>4, <3>2, <3>3 DEF IndInv
  <2>8. QED
    BY <2>6, <2>7
<1>6. QED
  BY <1>3, <1>4, <1>5 DEF Open

\* The steps of recover_tail that repair the last segment.
LEMMA RepairInv ==
  ASSUME IndInv, Truncate \/ SyncCut \/ Remove \/ SyncRemoval
  PROVE  IndInv'
<1>1. TypeOK /\ DiskOK(disk) /\ Ours /\ pc \notin {"off", "refused"} /\ OursDisk(disk)
  BY OpenIsOurs DEF IndInv, Truncate, SyncCut, Remove, SyncRemoval, Ours
<1>2. pc \in {"truncate", "sync_cut", "remove"} =>
        LastSegment(disk) \in Segments(disk)
  BY <1>1, SegmentChoice DEF IndInv, RepairOK
<1>3. CASE Truncate
  <2>1. keep \in 0 .. Size(disk[LastSegment(disk)].live)
    <3>1. Size(disk[LastSegment(disk)].live) \in Nat
      BY <1>1, <1>2, <1>3, CutType DEF Truncate, DiskOK, File
    <3>2. QED
      BY <1>1, <1>3, <3>1 DEF Truncate, IndInv, RepairOK, TypeOK
  <2>2. DiskOK(disk') /\ OursDisk(disk') /\ Segments(disk') = Segments(disk)
    BY <1>1, <1>2, <1>3, <2>1, VfsTruncateType DEF Truncate
  <2>3. TypeOK'
    BY <1>1, <1>3, <2>2 DEF Truncate, TypeOK, DiskOK, Phases
  <2>4. WaveOK' /\ RepairOK'
    BY <1>2, <1>3, <2>2 DEF Truncate, WaveOK, RepairOK
  <2>5. Ours'
    BY <1>1, <1>3, <2>2 DEF Truncate, Ours
  <2>6. QED
    BY <2>2, <2>3, <2>4, <2>5 DEF IndInv
<1>4. CASE SyncCut
  <2>1. DiskOK(disk') /\ OursDisk(disk') /\ Segments(disk') = Segments(disk)
    BY <1>1, <1>2, <1>4, VfsSyncDataType DEF SyncCut
  <2>2. CASE keep = 0
    <3>1. TypeOK'
      BY <1>1, <1>4, <2>1, <2>2 DEF SyncCut, TypeOK, DiskOK, Phases
    <3>2. WaveOK' /\ RepairOK'
      BY <1>2, <1>4, <2>1, <2>2 DEF SyncCut, WaveOK, RepairOK
    <3>3. Ours'
      BY <1>1, <1>4, <2>1, <2>2 DEF SyncCut, Ours
    <3>4. QED
      BY <2>1, <3>1, <3>2, <3>3 DEF IndInv
  <2>3. CASE keep # 0
    BY <1>1, <1>4, <2>1, <2>3, AfterRepairInv DEF SyncCut
  <2>4. QED
    BY <2>2, <2>3
<1>5. CASE Remove
  <2>1. DiskOK(disk') /\ OursDisk(disk')
    BY <1>1, <1>5, VfsRemoveType DEF Remove
  <2>2. TypeOK'
    BY <1>1, <1>5, <2>1 DEF Remove, TypeOK, DiskOK, Phases
  <2>3. WaveOK' /\ RepairOK'
    BY <1>5 DEF Remove, WaveOK, RepairOK
  <2>4. Ours'
    BY <1>1, <1>5, <2>1 DEF Remove, Ours
  <2>5. QED
    BY <2>1, <2>2, <2>3, <2>4 DEF IndInv
<1>6. CASE SyncRemoval
  <2>1. DiskOK(disk') /\ OursDisk(disk')
    BY <1>1, <1>6, VfsSyncDirType DEF SyncRemoval
  <2>2. QED
    BY <1>1, <1>6, <2>1, AfterRepairInv DEF SyncRemoval
<1>7. QED
  BY <1>3, <1>4, <1>5, <1>6

\* What the next write of the wave makes of its segment.
LEMMA WrittenType ==
  ASSUME IndInv, pc = "write"
  PROVE  LET c == Appended(Read(disk, Current), LinesFor(Current))
         IN  /\ Read(disk, Current) \in Content /\ c \in Content
             /\ Size(Read(disk, Current)) \in Nat
             /\ Size(Read(disk, Current)) <= Size(c)
             /\ OursIn(c) /\ \A k \in 0 .. Size(c) : Cut(c, k) \in Content /\ OursIn(Cut(c, k))
<1> DEFINE r == Read(disk, Current)
           ls == LinesFor(Current)
<1>1. TypeOK /\ WaveOK /\ DiskOK(disk) /\ Ours
  BY OpenIsOurs DEF IndInv
<1>2. Current \in AllSegments
  BY <1>1, CurrentType
<1>3. r \in Content /\ OursIn(r)
  <2>1. CASE Current \in Segments(disk)
    BY <2>1, <1>1 DEF Read, DiskOK, File, Ours, OursDisk
  <2>2. CASE Current \notin Segments(disk)
    BY <2>2, BlankType DEF Read
  <2>3. QED
    BY <2>1, <2>2
<1>4. /\ ls \in Seq(Line) /\ ls # << >>
      /\ \A i \in 1 .. Len(ls) : ls[i].v = 1
  BY <1>1, <1>2, LinesForType DEF Ours
<1> HIDE DEF r, ls
<1>5. Appended(r, ls) \in Content /\ Size(r) <= Size(Appended(r, ls)) /\ Size(r) \in Nat
  BY <1>3, <1>4, AppendedType, CutType
<1>6. OursIn(Appended(r, ls))
  BY <1>3, <1>4, OursKept
<1>7. \A k \in 0 .. Size(Appended(r, ls)) :
        Cut(Appended(r, ls), k) \in Content /\ OursIn(Cut(Appended(r, ls), k))
  BY <1>5, <1>6, CutType, OursKept
<1>8. QED
  BY <1>3, <1>5, <1>6, <1>7 DEF r, ls

\* append_all, up to its answer.
LEMMA AppendInv ==
  ASSUME IndInv, (\E n \in 1 .. MaxWave : AppendAll(n)) \/ Write \/ Sync \/ SyncDir
  PROVE  IndInv'
<1>1. TypeOK /\ DiskOK(disk) /\ WaveOK /\ Ours /\ pc \notin {"off", "refused"} /\ OursDisk(disk)
  BY OpenIsOurs DEF IndInv, AppendAll, Write, Sync, SyncDir, Ours
<1>2. ASSUME NEW n \in 1 .. MaxWave, AppendAll(n)
      PROVE  IndInv'
  <2>1. MaxWave \in Nat /\ MaxDrafts \in Nat /\ n \in Nat \ {0} /\ FALSE \in BOOLEAN
    BY ConstantsAssumption
  <2>2. handle \in Handles /\ minted \in Nat /\ drafts \in Nat
    BY <1>1 DEF TypeOK
  <2>3. wave' = Planned(handle, n, FALSE)
    BY <1>2, Zenon DEF AppendAll
  <2>4. WellPlanned(wave')
    BY <2>1, <2>2, <2>3, PlannedType, Zenon
  <2>5. /\ log' = log /\ acked' = acked /\ disk' = disk /\ handle' = handle /\ keep' = keep
        /\ faults' = faults /\ pc' = "write" /\ minted' = minted + n
        /\ drafts' = drafts + n /\ drafts + n <= MaxDrafts
    BY <1>2, Zenon DEF AppendAll
  <2>6. TypeOK'
    <3>1. wave' \in Waves /\ minted' \in Nat /\ drafts' \in 0 .. MaxDrafts
      BY <2>1, <2>2, <2>4, <2>5 DEF WellPlanned
    <3>2. QED
      BY <1>1, <2>5, <3>1 DEF TypeOK, Phases
  <2>7. WaveOK' /\ RepairOK'
    BY <2>4, <2>5 DEF WaveOK, RepairOK, AllSegments, WellPlanned
  <2>8. Ours'
    BY <1>1, <2>4, <2>5 DEF Ours, WellPlanned
  <2>9. QED
    BY <1>1, <2>5, <2>6, <2>7, <2>8 DEF IndInv
<1>3. CASE Write
  <2>1. Current \in wave.todo /\ Current \in AllSegments /\ Current \in Nat
    BY <1>1, <1>3, CurrentType DEF Write
  <2>2. DiskOK(disk') /\ OursDisk(disk') /\ Segments(disk') = Segments(disk) \cup {Current}
    BY <1>1, <1>3, <2>1, WrittenType, VfsAppendType DEF Write
  <2>3. /\ wave' \in Waves /\ wave'.lines = wave.lines /\ wave'.seg = wave.seg
        /\ wave'.todo = IF wave.todo = {Current} THEN AllSegments ELSE wave.todo \ {Current}
        /\ pc' = IF wave.todo = {Current} THEN "sync" ELSE "write"
    <3>1. wave \in Waves
      BY <1>1 DEF TypeOK
    <3>2. AllSegments \subseteq Nat
      BY <3>1 DEF AllSegments, Waves
    <3>3. CASE wave.todo = {Current}
      BY <1>3, <3>1, <3>2, <3>3 DEF Write, Waves
    <3>4. CASE wave.todo # {Current}
      BY <1>3, <3>1, <3>2, <3>4 DEF Write, Waves
    <3>5. QED
      BY <3>3, <3>4
  <2>4. TypeOK'
    BY <1>1, <1>3, <2>2, <2>3 DEF Write, TypeOK, DiskOK, Phases
  <2>5. AllSegments' = AllSegments
    BY <2>3 DEF AllSegments
  <2>6. WaveOK'
    <3>1. /\ wave.lines # << >> /\ Len(wave.seg) = Len(wave.lines)
          /\ wave.todo \subseteq AllSegments /\ AllSegments \ wave.todo \subseteq Segments(disk)
      BY <1>1, <1>3 DEF WaveOK, Write
    <3>2. CASE wave.todo = {Current}
      BY <2>1, <2>2, <2>3, <2>5, <3>1, <3>2 DEF WaveOK
    <3>3. CASE wave.todo # {Current}
      BY <2>1, <2>2, <2>3, <2>5, <3>1, <3>3 DEF WaveOK
    <3>4. QED
      BY <3>2, <3>3
  <2>7. RepairOK'
    BY <2>3 DEF RepairOK
  <2>8. Ours'
    BY <1>1, <2>2, <2>3 DEF Ours
  <2>9. QED
    BY <2>2, <2>4, <2>6, <2>7, <2>8 DEF IndInv
<1>4. CASE Sync
  <2>1. Current \in wave.todo /\ Current \in AllSegments /\ AllSegments \subseteq Segments(disk)
    BY <1>1, <1>4, CurrentType DEF Sync, WaveOK
  <2>2. DiskOK(disk') /\ OursDisk(disk') /\ Segments(disk') = Segments(disk)
    BY <1>1, <1>4, <2>1, VfsSyncDataType DEF Sync
  <2>3. CASE wave.todo # {Current} /\ wave' = [wave EXCEPT !.todo = @ \ {Current}]
             /\ UNCHANGED <<log, acked, handle, pc>>
    <3>1. wave' \in Waves /\ wave'.lines = wave.lines /\ wave'.seg = wave.seg
          /\ wave'.todo = wave.todo \ {Current}
      BY <1>1, <2>3 DEF TypeOK, Waves
    <3>2. TypeOK'
      BY <1>1, <1>4, <2>2, <2>3, <3>1 DEF Sync, TypeOK, DiskOK
    <3>3. AllSegments' = AllSegments
      BY <3>1 DEF AllSegments
    <3>4. WaveOK' /\ RepairOK'
      BY <1>1, <1>4, <2>1, <2>2, <2>3, <3>1, <3>3 DEF Sync, WaveOK, RepairOK
    <3>5. Ours'
      BY <1>1, <2>2, <3>1 DEF Ours
    <3>6. QED
      BY <2>2, <3>2, <3>4, <3>5 DEF IndInv
  <2>4. CASE pc' = "sync_dir" /\ UNCHANGED <<log, acked, handle, wave>>
    <3>1. TypeOK'
      BY <1>1, <1>4, <2>2, <2>4 DEF Sync, TypeOK, DiskOK, Phases
    <3>2. WaveOK' /\ RepairOK'
      BY <1>1, <1>4, <2>1, <2>2, <2>4 DEF Sync, WaveOK, RepairOK, AllSegments
    <3>3. Ours'
      BY <1>1, <2>2, <2>4 DEF Ours
    <3>4. QED
      BY <2>2, <3>1, <3>2, <3>3 DEF IndInv
  <2>5. CASE Acknowledge(disk')
    BY <1>4, <2>2, <2>5, AcknowledgeInv DEF Sync
  <2>6. QED
    BY <1>4, <2>3, <2>4, <2>5 DEF Sync
<1>5. CASE SyncDir
  <2>1. DiskOK(disk') /\ OursDisk(disk')
    BY <1>1, <1>5, VfsSyncDirType DEF SyncDir
  <2>2. QED
    BY <1>5, <2>1, AcknowledgeInv DEF SyncDir
<1>6. QED
  BY <1>2, <1>3, <1>4, <1>5

\* fault_fs::cut leaves files, brings in no line, and takes none from a
\* ledger that is synced throughout.
LEMMA PowerCutInv ==
  ASSUME IndInv, PowerCut
  PROVE  IndInv' /\ (Untouched => disk' = disk)
<1>1. TypeOK /\ DiskOK(disk)
  BY DEF IndInv
<1>2. PICK kept \in [Dirty -> 0 .. LineSize * (MaxDrafts + MaxFaults + 1)] :
        /\ \A s \in Dirty : kept[s] \in Size(disk[s].durable) .. Size(disk[s].live)
        /\ disk' = [s \in Lasting |->
                      LET c == IF s \in Dirty THEN Cut(disk[s].live, kept[s])
                                              ELSE disk[s].durable
                      IN  [durable_entry |-> TRUE, live |-> c, durable |-> c]]
  BY DEF PowerCut
<1> DEFINE c(s) == IF s \in Dirty THEN Cut(disk[s].live, kept[s]) ELSE disk[s].durable
<1>3. disk' = [s \in Lasting |-> [durable_entry |-> TRUE, live |-> c(s), durable |-> c(s)]]
  BY <1>2
<1>4. \A s \in Segments(disk) : /\ disk[s] \in File
                                /\ disk[s].live \in Content /\ disk[s].durable \in Content
  BY <1>1 DEF DiskOK, File
<1>5. Lasting \subseteq Segments(disk) /\ Dirty \subseteq Lasting
  BY DEF Lasting, Dirty
<1>6. ASSUME NEW s \in Lasting
      PROVE  c(s) \in Content /\ (OursDisk(disk) => OursIn(c(s)))
  <2>1. CASE s \in Dirty
    <3>1. kept[s] \in 0 .. Size(disk[s].live)
      BY <1>2, <1>4, <1>5, <2>1, CutType
    <3>2. QED
      BY <1>4, <1>5, <2>1, <3>1, CutType, OursKept DEF OursDisk
  <2>2. CASE s \notin Dirty
    BY <1>4, <1>5, <2>2 DEF OursDisk
  <2>3. QED
    BY <2>1, <2>2
<1> HIDE DEF c
<1>7. Segments(disk') = Lasting
  BY <1>3 DEF Segments
<1>8. \A s \in Lasting : disk'[s] \in File /\ disk'[s].live = c(s) /\ disk'[s].durable = c(s)
  BY <1>3, <1>6 DEF File
<1>9. DiskOK(disk')
  BY <1>1, <1>5, <1>7, <1>8 DEF DiskOK
<1>10. OursDisk(disk) => OursDisk(disk')
  BY <1>6, <1>7, <1>8 DEF OursDisk
<1>11. ASSUME Untouched
       PROVE  disk' = disk
  <2>1. Settled(disk)
    BY <1>11, NewerLedgerFacts DEF Untouched
  <2>2. Lasting = Segments(disk)
    BY <2>1 DEF Settled, Lasting
  <2>3. Dirty = {}
    BY <2>1, <1>4, <1>5, CutType DEF Settled, Dirty
  <2>4. \A s \in Segments(disk) : c(s) = disk[s].durable
    BY <2>3 DEF c
  <2>5. disk' = [s \in Segments(disk) |->
                   [durable_entry |-> TRUE, live |-> disk[s].durable, durable |-> disk[s].durable]]
    BY <1>3, <2>2, <2>4
  <2>6. QED
    BY <2>1, <2>5 DEF Settled
<1>12. Gone /\ faults' \in 0 .. MaxFaults
  BY <1>1, ConstantsAssumption DEF PowerCut, Stop, TypeOK
<1>13. (Ours /\ OursDisk(disk')) \/ Untouched'
  <2>1. CASE Ours
    BY <2>1, <1>10 DEF Ours
  <2>2. CASE Untouched
    BY <2>2, <1>11, <1>12 DEF Untouched, Gone
  <2>3. QED
    BY <2>1, <2>2 DEF IndInv
<1>14. QED
  BY <1>9, <1>11, <1>12, <1>13, GoneInv

\* Files stay files when a write ends early.
LEMMA HalfWrittenType ==
  ASSUME IndInv, pc = "write", HalfWritten
  PROVE  DiskOK(disk') /\ OursDisk(disk')
<1> DEFINE r == Read(disk, Current)
           c == Appended(r, LinesFor(Current))
<1>1. TypeOK /\ DiskOK(disk) /\ OursDisk(disk) /\ WaveOK
  BY OpenIsOurs DEF IndInv, Ours
<1>2. PICK k \in Size(r) .. Size(c) : disk' = VfsAppend(disk, Current, Cut(c, k))
  BY DEF HalfWritten
<1>3. Cut(c, k) \in Content /\ OursIn(Cut(c, k))
  <2>1. Size(r) \in Nat /\ \A j \in 0 .. Size(c) : Cut(c, j) \in Content /\ OursIn(Cut(c, j))
    BY WrittenType
  <2> HIDE DEF c, r
  <2>2. k \in 0 .. Size(c)
    BY <2>1, <1>2
  <2>3. QED
    BY <2>1, <2>2
<1>4. Current \in Nat
  BY <1>1, CurrentType
<1> HIDE DEF c
<1>5. QED
  BY <1>1, <1>2, <1>3, <1>4, VfsAppendType

\* A killed process, a closed city and a failed operation.
LEMMA StopInv ==
  ASSUME IndInv, Close \/ Kill \/ IoError
  PROVE  IndInv'
<1>1. TypeOK /\ DiskOK(disk) /\ Ours /\ OursDisk(disk) /\ WaveOK
  BY OpenIsOurs DEF IndInv, Close, Kill, IoError, Ours, Repairing
<1>2. faults \in 0 .. MaxFaults /\ MaxFaults \in Nat
  BY <1>1, ConstantsAssumption DEF TypeOK
<1>3. CASE Close
  BY <1>1, <1>2, <1>3, GoneInv DEF Close
<1>4. CASE Kill
  <2>1. Gone /\ faults' \in 0 .. MaxFaults /\ DiskOK(disk') /\ OursDisk(disk')
    BY <1>1, <1>2, <1>4, HalfWrittenType DEF Kill, Stop
  <2>2. QED
    BY <1>1, <2>1, GoneInv
<1>5. CASE IoError
  <2>1. DiskOK(disk') /\ OursDisk(disk')
    BY <1>1, <1>5, HalfWrittenType DEF IoError
  <2>2. CASE pc' = "idle" /\ wave' = NoWave /\ faults' = faults + 1
             /\ UNCHANGED <<log, acked, handle, keep, minted, drafts>>
    <3>1. NoWave \in Waves /\ DOMAIN NoWave.lines = {}
      BY DEF NoWave, Waves
    <3>2. faults' \in 0 .. MaxFaults
      BY <1>2, <1>5, <2>2 DEF IoError
    <3>3. TypeOK'
      BY <1>1, <2>1, <2>2, <3>1, <3>2 DEF TypeOK, DiskOK, Phases
    <3>4. WaveOK' /\ RepairOK'
      BY <2>2 DEF WaveOK, RepairOK
    <3>5. Ours'
      BY <2>1, <2>2, <3>1 DEF Ours
    <3>6. QED
      BY <2>1, <3>3, <3>4, <3>5 DEF IndInv
  <2>3. CASE Stop
    <3>1. Gone /\ faults' \in 0 .. MaxFaults
      BY <1>2, <1>5, <2>3 DEF IoError, Stop
    <3>2. QED
      BY <1>1, <2>1, <3>1, GoneInv
  <2>4. QED
    BY <1>5, <2>2, <2>3 DEF IoError
<1>6. QED
  BY <1>3, <1>4, <1>5

\* Every step of the adapter and every fault preserves the invariant.
LEMMA NextInv == IndInv /\ [Next]_vars => IndInv'
<1> SUFFICES ASSUME IndInv, [Next]_vars
             PROVE  IndInv'
  OBVIOUS
<1>1. CASE Next
  BY <1>1, OpenInv, RepairInv, AppendInv, PowerCutInv, StopInv DEF Next
<1>2. CASE UNCHANGED vars
  BY <1>2 DEF vars, IndInv, TypeOK, WaveOK, RepairOK, Ours, Untouched, AllSegments
<1>3. QED
  BY <1>1, <1>2

\* memory::jsonl keeps its state and the filesystem's within their types,
\* whatever is appended, rolled, cut, killed or failed.
THEOREM TypeCorrect == Spec => []TypeOK
<1>1. IndInv => TypeOK
  BY DEF IndInv
<1>2. QED
  BY InitInv, NextInv, <1>1, PTL DEF Spec

\* A ledger of a newer build is never changed by this one: open refuses it
\* before any repair, and the crash model takes nothing that is synced.
THEOREM NewerStaysUntouched == Spec => NewerIsUntouched
<1>1. ASSUME IndInv, [Next]_vars
      PROVE  [Newer => disk' = disk]_disk
  <2>1. SUFFICES ASSUME Newer, disk' # disk
                 PROVE  disk' = disk
    OBVIOUS
  <2>0. Next
    BY <1>1, <2>1 DEF vars
  <2>2. Untouched
    <3>1. SUFFICES ASSUME Ours
                   PROVE  FALSE
      BY <1>1 DEF IndInv
    <3>2. disk[0].live \in Content /\ 0 \in Segments(disk) /\ disk[0].live.lines # << >>
      BY <1>1, <2>1 DEF IndInv, Newer, DiskOK, File
    <3>3. 1 \in 1 .. Len(disk[0].live.lines)
      BY <3>2, EmptySeq DEF Content
    <3>4. disk[0].live.lines[1].v < 2
      BY <3>1, <3>2, <3>3 DEF Ours, OursDisk, OursIn
    <3>5. disk[0].live.lines[1].v > 1
      BY <2>1 DEF Newer
    <3>6. disk[0].live.lines[1].v \in 0 .. 2
      <4>1. disk[0].live.lines[1] \in Line \cup {Garbage}
        BY <3>2, <3>3 DEF Content
      <4>2. QED
        BY <4>1 DEF Line, Garbage
    <3>7. QED
      BY <3>4, <3>5, <3>6
  <2>3. pc \in {"off", "refused"}
    BY <2>2 DEF Untouched
  <2>4. Open \/ PowerCut
    BY <2>0, <2>3 DEF Next, Truncate, SyncCut, Remove, SyncRemoval, AppendAll, Write, Sync,
                      SyncDir, Close, Kill, IoError, Repairing
  <2>5. QED
    BY <1>1, <2>2, <2>4, PowerCutInv DEF Open
<1>2. QED
  BY InitInv, NextInv, <1>1, PTL DEF Spec, NewerIsUntouched

-----------------------------------------------------------------------------
(* Through faults of one kind: how segments hold a history.                *)

\* The segments of d hold the history W, one behind the other, each named by
\* the number of its first line; only the last may be empty or torn.
Lays(d, W) ==
    /\ W \in Seq(Line) /\ Chained(W) /\ \A i \in 1 .. Len(W) : W[i].v = 1
    /\ Segments(d) # {} => 0 \in Segments(d)
    /\ \A s \in Segments(d) :
          /\ s + Len(d[s].live.lines) <= Len(W)
          /\ \A i \in 1 .. Len(d[s].live.lines) : d[s].live.lines[i] = W[s + i]
    /\ \A s, t \in Segments(d) : s < t =>
          /\ d[s].live.lines # << >> /\ ~ d[s].live.torn
          /\ s + Len(d[s].live.lines) <= t
    /\ \A q \in 0 .. Len(W) - 1 :
          \E s \in Segments(d) : s <= q /\ q < s + Len(d[s].live.lines)

\* The hash the line behind W carries.
TipOf(W) == IF W = << >> THEN GENESIS_PREV ELSE chain_hash(W[Len(W)])

\* The handle h stands right behind W, in the last segment of d, which is whole.
HandleAt(d, h, W) ==
    /\ h.next_seq = Len(W) /\ h.prev = TipOf(W)
    /\ IF Segments(d) = {} THEN h.seg = 0 /\ h.len = 0
       ELSE /\ h.seg = LastSegment(d) /\ ~ d[h.seg].live.torn
            /\ h.len = LineSize * Len(d[h.seg].live.lines)

\* Repair cuts what is torn, and the last segment with it when nothing else is
\* in it; the handle already stands where it will be.
RepairAt(W) ==
    /\ Segments(disk) # {}
    /\ handle.next_seq = Len(W) /\ handle.prev = TipOf(W)
    /\ keep = LineSize * Len(disk[LastSegment(disk)].live.lines)
    /\ pc # "truncate" => ~ disk[LastSegment(disk)].live.torn
    /\ pc = "remove" => keep = 0
    /\ keep # 0 => handle.seg = LastSegment(disk) /\ handle.len = keep
    /\ keep = 0 =>
          IF Priors(disk) = {} THEN handle.seg = 0 /\ handle.len = 0
          ELSE handle.seg = Prior(disk) /\ handle.len = Size(disk[Prior(disk)].live)

\* Where append_all is between two filesystem operations.
Appending == {"write", "sync", "sync_dir"}

\* The wave w continues what the handle h stands behind, and its lines go to
\* h's segment and then to others, each named by its first line.
WaveFits(h, w) ==
    /\ h.seg <= h.next_seq /\ h.len = LineSize * (h.next_seq - h.seg)
    /\ Len(w.seg) = Len(w.lines) /\ w.lines # << >>
    /\ \A i \in 1 .. Len(w.lines) :
          /\ w.lines[i].v = 1
          /\ w.lines[i].seq = h.next_seq + i - 1
          /\ w.lines[i].prev = IF i = 1 THEN h.prev ELSE chain_hash(w.lines[i - 1])
          /\ h.seg <= w.seg[i]
          /\ w.seg[i] # h.seg =>
                /\ h.next_seq <= w.seg[i] /\ w.seg[i] <= h.next_seq + i - 1
                /\ w.seg[w.seg[i] - h.next_seq + 1] = w.seg[i]
                /\ \A j \in 1 .. w.seg[i] - h.next_seq : w.seg[j] < w.seg[i]
    /\ \A i, j \in 1 .. Len(w.lines) : i <= j => w.seg[i] <= w.seg[j]
    /\ h.len = 0 => w.seg[1] = h.seg

\* The first k lines of the wave are written: its lines to the segments that
\* are not to do yet.
WaveHas(W, k) ==
    /\ WaveFits(handle, wave)
    /\ Len(W) = handle.next_seq + k
    /\ Len(log) <= handle.next_seq
    /\ ~ wave.opening => Len(log) = handle.next_seq
    /\ handle.prev = TipOf(SubSeq(W, 1, handle.next_seq))
    /\ \A i \in 1 .. k : W[handle.next_seq + i] = wave.lines[i]
    /\ \A s \in Segments(disk) : ~ disk[s].live.torn
    /\ IF k = 0 THEN HandleAt(disk, handle, W)
       ELSE wave.seg[k] \in Segments(disk) /\ wave.seg[k] = LastSegment(disk)
    /\ pc = "write" => \A i \in 1 .. Len(wave.lines) : wave.seg[i] \in wave.todo <=> i > k
    /\ pc # "write" => k = Len(wave.lines)

\* Some of the wave is written.
WaveAt(W) == \E k \in 0 .. Len(wave.lines) : WaveHas(W, k)

\* What is said of W in each phase.
StandsOn(W) ==
    /\ pc # "refused"
    /\ Lays(disk, W) /\ Precedes(log, W)
    /\ pc = "idle" => W = log
    /\ pc \in {"idle", "sync_removal"} => HandleAt(disk, handle, W)
    /\ pc \in {"truncate", "sync_cut", "remove"} => RepairAt(W)
    /\ pc \in Appending => WaveAt(W)

\* What a power cut leaves of segment s is what it reads, or nothing but what
\* is under way.
OnPlatter(s) == disk[s].durable_entry /\ disk[s].durable = disk[s].live
\* Segment s is cut where its synced lines end, and the cut is not synced.
CutNow(s) ==
    /\ pc = "sync_cut" /\ s = LastSegment(disk)
    /\ disk[s].durable_entry /\ disk[s].durable.lines = disk[s].live.lines
\* Segment s holds more than is synced of it: the wave goes behind the history
\* the handle stands behind, and no later segment would survive.
Grown(s) ==
    /\ pc \in {"write", "sync"} /\ s = handle.seg
    /\ disk[s].durable_entry /\ ~ disk[s].durable.torn
    /\ s + Len(disk[s].durable.lines) = handle.next_seq
    /\ Precedes(disk[s].durable.lines, disk[s].live.lines)
    /\ \A t \in Segments(disk) : disk[t].durable_entry => t <= s
\* Segment s is created by the wave, behind everything that would survive.
Fresh(s) ==
    /\ pc \in Appending /\ ~ disk[s].durable_entry
    /\ handle.next_seq <= s /\ wave.created
    /\ \A t \in Segments(disk) : disk[t].durable_entry => t < s

\* What a power cut would leave is what the segments read, short of some end of
\* the wave that is being written.
Platter ==
    /\ \A s \in Segments(disk) : OnPlatter(s) \/ CutNow(s) \/ Grown(s) \/ Fresh(s)
    /\ pc = "write" => \A s \in Segments(disk) : s \notin AllSegments \ wave.todo => OnPlatter(s)
    /\ pc = "sync" => \A s \in Segments(disk) \ wave.todo : disk[s].durable = disk[s].live
    /\ pc = "sync_dir" => \A s \in Segments(disk) : disk[s].durable = disk[s].live
    /\ pc \in Appending /\ ~ wave.created => handle.seg \in Segments(disk) /\ AllSegments \subseteq {handle.seg}

-----------------------------------------------------------------------------
(* What the layout of a history says.                                      *)

\* A segment file and what it holds, piece by piece.
LEMMA FileFacts ==
  ASSUME NEW d, DiskOK(d), NEW s \in Segments(d)
  PROVE  /\ s \in Nat /\ d[s] \in File /\ d[s].live \in Content /\ d[s].durable \in Content
         /\ d[s].live.lines \in Seq(Line \cup {Garbage}) /\ Len(d[s].live.lines) \in Nat
         /\ d[s].live.torn \in BOOLEAN
         /\ d[s].durable.lines \in Seq(Line \cup {Garbage}) /\ Len(d[s].durable.lines) \in Nat
         /\ d[s].durable.torn \in BOOLEAN /\ d[s].durable_entry \in BOOLEAN
<1>1. s \in Nat /\ d[s] \in File
  BY DEF DiskOK
<1>2. d[s].live \in Content /\ d[s].durable \in Content /\ d[s].durable_entry \in BOOLEAN
  BY <1>1 DEF File
<1>3. QED
  BY <1>1, <1>2 DEF Content

\* A history laid on some segments ends where the last of them ends.
LEMMA LaysEnd ==
  ASSUME NEW d, DiskOK(d), NEW W, Lays(d, W)
  PROVE  /\ Len(W) \in Nat
         /\ Segments(d) = {} => W = << >>
         /\ Segments(d) # {} =>
               /\ FirstSegment(d) = 0 /\ LastSegment(d) \in Segments(d)
               /\ LastSegment(d) + Len(d[LastSegment(d)].live.lines) = Len(W)
<1>1. W \in Seq(Line) /\ Len(W) \in Nat
  BY DEF Lays
<1>2. CASE Segments(d) = {}
  <2>1. \A q \in 0 .. Len(W) - 1 : FALSE
    BY <1>2 DEF Lays
  <2>2. Len(W) = 0
    BY <2>1, <1>1
  <2>3. QED
    BY <1>1, <1>2, <2>2
<1>3. CASE Segments(d) # {}
  <2> DEFINE z == LastSegment(d)
  <2>1. z \in Segments(d) /\ \A t \in Segments(d) : t <= z
    BY <1>3, SegmentChoice
  <2>2. FirstSegment(d) \in Segments(d) /\ FirstSegment(d) <= 0
    BY <1>3, SegmentChoice DEF Lays
  <2>3. FirstSegment(d) = 0
    BY <2>2 DEF DiskOK
  <2> HIDE DEF z
  <2>4. z \in Nat /\ Len(d[z].live.lines) \in Nat /\ z + Len(d[z].live.lines) <= Len(W)
    BY <2>1, FileFacts DEF Lays
  <2>5. ASSUME z + Len(d[z].live.lines) < Len(W)
        PROVE  FALSE
    <3>1. Len(W) - 1 \in 0 .. Len(W) - 1
      BY <1>1, <2>4, <2>5
    <3>2. PICK s \in Segments(d) : s <= Len(W) - 1 /\ Len(W) - 1 < s + Len(d[s].live.lines)
      BY <3>1 DEF Lays
    <3>3. s \in Nat /\ Len(d[s].live.lines) \in Nat /\ s <= z
      BY FileFacts, <2>1
    <3>4. s # z
      BY <3>2, <2>5, <2>4, <1>1
    <3>5. s + Len(d[s].live.lines) <= z
      BY <3>3, <3>4, <2>1, <2>4 DEF Lays
    <3>6. \A a, b, c, e, x \in Nat : ~ (x - 1 < a + b /\ a + b <= c /\ c + e < x)
      OBVIOUS
    <3>7. QED
      BY <3>2, <3>3, <3>5, <3>6, <2>4, <2>5, <1>1
  <2>6. z + Len(d[z].live.lines) = Len(W)
    BY <1>1, <2>4, <2>5
  <2>7. QED
    BY <1>1, <1>3, <2>1, <2>3, <2>6 DEF z
<1>4. QED
  BY <1>2, <1>3

\* Reading the segments finds the history.
LEMMA LaysRead ==
  ASSUME NEW d, DiskOK(d), NEW W, Lays(d, W)
  PROVE  RawLines(d, Len(W)) = W
<1>1. W \in Seq(Line) /\ Len(W) \in Nat
  BY DEF Lays
<1>2. ASSUME NEW i \in 1 .. Len(W)
      PROVE  LineAt(d, i - 1) = W[i]
  <2>1. i - 1 \in 0 .. Len(W) - 1 /\ i \in Nat
    BY <1>1
  <2>2. HoldersOf(d, i - 1) # {}
    BY <2>1 DEF Lays, HoldersOf
  <2> DEFINE s == CHOOSE h \in HoldersOf(d, i - 1) : TRUE
  <2>3. s \in HoldersOf(d, i - 1)
    BY <2>2
  <2> HIDE DEF s
  <2>4. s \in Segments(d) /\ s <= i - 1 /\ i - 1 < s + Len(d[s].live.lines)
    BY <2>3 DEF HoldersOf
  <2>5. s \in Nat /\ Len(d[s].live.lines) \in Nat
    BY <2>4, FileFacts
  <2>6. (i - 1) - s + 1 \in 1 .. Len(d[s].live.lines) /\ s + ((i - 1) - s + 1) = i
    BY <2>1, <2>4, <2>5
  <2>7. d[s].live.lines[(i - 1) - s + 1] = W[s + ((i - 1) - s + 1)]
    BY <2>4, <2>6 DEF Lays
  <2>8. LineAt(d, i - 1) = d[s].live.lines[(i - 1) - s + 1]
    BY <2>2 DEF LineAt, s
  <2>9. QED
    BY <2>6, <2>7, <2>8
<1>3. RawLines(d, Len(W)) = [i \in 1 .. Len(W) |-> LineAt(d, i - 1)]
  BY DEF RawLines
<1>4. RawLines(d, Len(W)) = [i \in 1 .. Len(W) |-> W[i]]
  BY <1>2, <1>3
<1>5. QED
  BY <1>1, <1>4

\* Reading no lines returns none.
LEMMA ReadNothing == ASSUME NEW d PROVE RawLines(d, 0) = << >>
  BY DEF RawLines

\* Only the lines and what is torn matter to the layout.
LEMMA LaysSame ==
  ASSUME NEW d, NEW e, NEW W, Lays(d, W), Segments(e) = Segments(d),
         \A s \in Segments(d) : /\ e[s].live.lines = d[s].live.lines
                                /\ e[s].live.torn => d[s].live.torn
  PROVE  Lays(e, W)
<1>1. W \in Seq(Line) /\ Chained(W) /\ \A i \in 1 .. Len(W) : W[i].v = 1
  BY DEF Lays
<1>2. \A s \in Segments(e) :
          /\ s + Len(e[s].live.lines) <= Len(W)
          /\ \A i \in 1 .. Len(e[s].live.lines) : e[s].live.lines[i] = W[s + i]
  BY DEF Lays
<1>3. \A s, t \in Segments(e) : s < t =>
          /\ e[s].live.lines # << >> /\ ~ e[s].live.torn
          /\ s + Len(e[s].live.lines) <= t
  BY DEF Lays
<1>4. \A q \in 0 .. Len(W) - 1 :
          \E s \in Segments(e) : s <= q /\ q < s + Len(e[s].live.lines)
  <2> TAKE q \in 0 .. Len(W) - 1
  <2>1. PICK s \in Segments(d) : s <= q /\ q < s + Len(d[s].live.lines)
    BY DEF Lays
  <2>2. s \in Segments(e) /\ s <= q /\ q < s + Len(e[s].live.lines)
    BY <2>1
  <2>3. QED
    BY <2>2
<1>5. Segments(e) # {} => 0 \in Segments(e)
  BY DEF Lays
<1>6. QED
  BY <1>1, <1>2, <1>3, <1>4, <1>5 DEF Lays

\* The first n lines of a sequence.
LEMMA PrefixIs ==
  ASSUME NEW S, NEW W \in Seq(S), NEW n \in 0 .. Len(W)
  PROVE  /\ SubSeq(W, 1, n) \in Seq(S) /\ Len(SubSeq(W, 1, n)) = n
         /\ \A i \in 1 .. n : SubSeq(W, 1, n)[i] = W[i]
<1>1. n \in Nat /\ Len(W) \in Nat
  OBVIOUS
<1>2. \A i \in 1 .. n : W[i] \in S
  BY <1>1
<1>3. QED
  BY <1>1, <1>2, SubSeqProperties

\* The beginning of a chained history is chained.
LEMMA ChainPrefix ==
  ASSUME NEW W \in Seq(Line), NEW n \in 0 .. Len(W), Chained(W)
  PROVE  Chained(SubSeq(W, 1, n))
<1>1. n \in Nat /\ Len(W) \in Nat
  OBVIOUS
<1>2. Len(SubSeq(W, 1, n)) = n /\ \A i \in 1 .. n : SubSeq(W, 1, n)[i] = W[i]
  BY PrefixIs
<1> DEFINE V == SubSeq(W, 1, n)
<1> HIDE DEF V
<1>3. ASSUME NEW i \in 1 .. n
      PROVE  V[i].seq = i - 1 /\ V[i].prev = IF i = 1 THEN 0 ELSE V[i - 1].id
  <2>1. i \in 1 .. Len(W) /\ V[i] = W[i]
    BY <1>1, <1>2 DEF V
  <2>2. i # 1 => V[i - 1] = W[i - 1]
    BY <1>1, <1>2 DEF V
  <2>3. QED
    BY <2>1, <2>2 DEF Chained
<1>4. QED
  BY <1>2, <1>3 DEF V, Chained

\* What is left when the segments behind m are gone and m is cut to j lines.
LEMMA LaysCut ==
  ASSUME NEW d, DiskOK(d), NEW W, Lays(d, W), NEW m \in Segments(d),
         NEW j \in 0 .. Len(d[m].live.lines), NEW e,
         Segments(e) = {s \in Segments(d) : s <= m},
         \A s \in Segments(e) : s # m => e[s].live = d[s].live,
         e[m].live.lines = SubSeq(d[m].live.lines, 1, j)
  PROVE  m + j \in 0 .. Len(W) /\ Lays(e, SubSeq(W, 1, m + j))
<1> DEFINE V == SubSeq(W, 1, m + j)
           n == Len(d[m].live.lines)
<1>1. W \in Seq(Line) /\ Len(W) \in Nat /\ m \in Nat /\ n \in Nat /\ j \in Nat /\ j <= n /\ m + n <= Len(W)
  BY FileFacts DEF Lays
<1>2. m + j \in 0 .. Len(W)
  BY <1>1
<1>3. V \in Seq(Line) /\ Len(V) = m + j /\ \A i \in 1 .. m + j : V[i] = W[i]
  BY <1>1, <1>2, PrefixIs
<1>4. Chained(V)
  BY <1>1, <1>2, ChainPrefix DEF Lays
<1>5. Len(e[m].live.lines) = j /\ \A i \in 1 .. j : e[m].live.lines[i] = d[m].live.lines[i]
  BY <1>1, FileFacts, PrefixIs
<1> HIDE DEF V, n
<1>6. \A i \in 1 .. Len(V) : V[i].v = 1
  BY <1>1, <1>3 DEF Lays
<1>7. Segments(e) # {} => 0 \in Segments(e)
  BY <1>1 DEF Lays
<1>8. ASSUME NEW s \in Segments(e), s # m
      PROVE  /\ s \in Nat /\ Len(e[s].live.lines) \in Nat /\ e[s].live = d[s].live
             /\ s \in Segments(d) /\ s < m /\ s + Len(e[s].live.lines) <= m
  <2>1. s \in Segments(d) /\ s <= m /\ e[s].live = d[s].live
    BY <1>8
  <2>2. s \in Nat /\ Len(d[s].live.lines) \in Nat
    BY <2>1, FileFacts
  <2>3. s < m
    BY <2>1, <2>2, <1>1, <1>8
  <2>4. QED
    BY <2>1, <2>2, <2>3 DEF Lays
<1>9. ASSUME NEW s \in Segments(e)
      PROVE  /\ s + Len(e[s].live.lines) <= Len(V)
             /\ \A i \in 1 .. Len(e[s].live.lines) : e[s].live.lines[i] = V[s + i]
  <2>1. CASE s = m
    <3>1. \A i \in 1 .. j : i \in 1 .. n /\ m + i \in 1 .. m + j
      BY <1>1
    <3>2. \A i \in 1 .. n : d[m].live.lines[i] = W[m + i]
      BY DEF Lays, n
    <3>3. \A i \in 1 .. j : e[m].live.lines[i] = V[m + i]
      BY <3>1, <3>2, <1>3, <1>5
    <3>4. m + Len(e[m].live.lines) <= Len(V)
      BY <1>3, <1>5, <1>1
    <3>5. QED
      BY <2>1, <3>3, <3>4, <1>5
  <2>2. CASE s # m
    <3>1. /\ s \in Nat /\ Len(e[s].live.lines) \in Nat /\ e[s].live = d[s].live
          /\ s \in Segments(d) /\ s + Len(e[s].live.lines) <= m
      BY <1>8, <2>2
    <3>2. \A i \in 1 .. Len(e[s].live.lines) : s + i \in 1 .. m + j
      BY <3>1, <1>1
    <3>3. \A i \in 1 .. Len(e[s].live.lines) : e[s].live.lines[i] = W[s + i]
      BY <3>1 DEF Lays
    <3>4. s + Len(e[s].live.lines) <= m + j
      BY <3>1, <1>1
    <3>5. QED
      BY <3>2, <3>3, <3>4, <1>3
  <2>3. QED
    BY <2>1, <2>2
<1>10. ASSUME NEW s \in Segments(e), NEW t \in Segments(e), s < t
       PROVE  /\ e[s].live.lines # << >> /\ ~ e[s].live.torn
              /\ s + Len(e[s].live.lines) <= t
  <2>1. s \in Segments(d) /\ t \in Segments(d) /\ t <= m
    OBVIOUS
  <2>2. s \in Nat /\ t \in Nat
    BY <2>1, FileFacts
  <2>3. s # m
    BY <2>1, <2>2, <1>1, <1>10
  <2>4. e[s].live = d[s].live
    BY <2>3, <1>8
  <2>5. QED
    BY <2>1, <2>4, <1>10 DEF Lays
<1>11. ASSUME NEW q \in 0 .. Len(V) - 1
       PROVE  \E s \in Segments(e) : s <= q /\ q < s + Len(e[s].live.lines)
  <2>1. q \in Nat /\ q < m + j /\ q \in 0 .. Len(W) - 1
    BY <1>1, <1>3
  <2>2. PICK s \in Segments(d) : s <= q /\ q < s + Len(d[s].live.lines)
    BY <2>1 DEF Lays
  <2>3. s \in Nat /\ Len(d[s].live.lines) \in Nat
    BY FileFacts
  <2>4. CASE m < s
    <3>1. m + n <= s
      BY <2>4 DEF Lays, n
    <3>2. FALSE
      BY <3>1, <2>1, <2>2, <2>3, <1>1
    <3>3. QED
      BY <3>2
  <2>5. CASE s = m
    <3>1. m \in Segments(e) /\ m <= q /\ q < m + Len(e[m].live.lines)
      BY <2>5, <2>1, <2>2, <1>1, <1>5
    <3>2. QED
      BY <3>1
  <2>6. CASE s < m
    <3>1. s \in Segments(e)
      BY <2>6, <2>3, <1>1
    <3>2. s # m
      BY <2>6, <2>3, <1>1
    <3>3. e[s].live = d[s].live
      BY <3>1, <3>2
    <3>4. QED
      BY <3>1, <3>3, <2>2
  <2>7. QED
    BY <2>3, <2>4, <2>5, <2>6, <1>1
<1>12. Lays(e, V)
  BY <1>3, <1>4, <1>6, <1>7, <1>9, <1>10, <1>11 DEF Lays
<1>13. QED
  BY <1>2, <1>12 DEF V


\* What two sequences joined hold.
LEMMA JoinIs ==
  ASSUME NEW S, NEW W \in Seq(S), NEW ls \in Seq(S)
  PROVE  /\ W \o ls \in Seq(S) /\ Len(W \o ls) = Len(W) + Len(ls)
         /\ \A i \in 1 .. Len(W) : (W \o ls)[i] = W[i]
         /\ \A i \in 1 .. Len(ls) : (W \o ls)[Len(W) + i] = ls[i]
<1>1. Len(W) \in Nat /\ Len(ls) \in Nat
  OBVIOUS
<1>2. W \o ls \in Seq(S) /\ Len(W \o ls) = Len(W) + Len(ls)
  BY ConcatProperties
<1>3. \A i \in 1 .. Len(W) + Len(ls) :
         (W \o ls)[i] = IF i <= Len(W) THEN W[i] ELSE ls[i - Len(W)]
  BY ConcatProperties
<1>4. \A i \in 1 .. Len(W) : i \in 1 .. Len(W) + Len(ls) /\ i <= Len(W)
  BY <1>1
<1>5. \A i \in 1 .. Len(ls) : /\ Len(W) + i \in 1 .. Len(W) + Len(ls)
                              /\ ~ (Len(W) + i <= Len(W)) /\ (Len(W) + i) - Len(W) = i
  BY <1>1
<1>6. QED
  BY <1>2, <1>3, <1>4, <1>5

\* Lines that are numbered on from W and name the line before.
Follows(ls, W) ==
  \A i \in 1 .. Len(ls) :
     /\ ls[i].v = 1 /\ ls[i].seq = Len(W) + i - 1
     /\ ls[i].prev = IF i = 1 THEN TipOf(W) ELSE ls[i - 1].id

\* A history that lines follow is chained with them.
LEMMA ChainMore ==
  ASSUME NEW W \in Seq(Line), NEW ls \in Seq(Line), Chained(W), Follows(ls, W),
         \A i \in 1 .. Len(W) : W[i].v = 1
  PROVE  Chained(W \o ls) /\ \A i \in 1 .. Len(W \o ls) : (W \o ls)[i].v = 1
<1> DEFINE V == W \o ls
<1>1. Len(W) \in Nat /\ Len(ls) \in Nat
  OBVIOUS
<1>2. /\ Len(V) = Len(W) + Len(ls)
      /\ \A i \in 1 .. Len(W) : V[i] = W[i]
      /\ \A i \in 1 .. Len(ls) : V[Len(W) + i] = ls[i]
  BY JoinIs
<1> HIDE DEF V
<1>3. ASSUME NEW i \in 1 .. Len(V)
      PROVE  V[i].seq = i - 1 /\ (V[i].prev = IF i = 1 THEN 0 ELSE V[i - 1].id) /\ V[i].v = 1
  <2>1. CASE i <= Len(W)
    <3>1. i \in 1 .. Len(W) /\ (i # 1 => i - 1 \in 1 .. Len(W))
      BY <2>1, <1>1, <1>2
    <3>2. V[i] = W[i] /\ (i # 1 => V[i - 1] = W[i - 1])
      BY <3>1, <1>2
    <3>3. QED
      BY <3>1, <3>2 DEF Chained
  <2>2. CASE ~ (i <= Len(W))
    <3> DEFINE k == i - Len(W)
    <3>1. k \in 1 .. Len(ls) /\ i = Len(W) + k /\ (k # 1 => k - 1 \in 1 .. Len(ls))
      BY <2>2, <1>1, <1>2
    <3> HIDE DEF k
    <3>2. V[i] = ls[k]
      BY <3>1, <1>2
    <3>3. ls[k].seq = Len(W) + k - 1 /\ ls[k].v = 1
      BY <3>1 DEF Follows
    <3>4. CASE k = 1 /\ W = << >>
      <4>1. Len(W) = 0 /\ i = 1
        BY <3>1, <3>4
      <4>2. ls[k].prev = 0
        BY <3>1, <3>4 DEF Follows, TipOf
      <4>3. QED
        BY <3>1, <3>2, <3>3, <4>1, <4>2
    <3>5. CASE k = 1 /\ W # << >>
      <4>1. Len(W) \in 1 .. Len(W) /\ i = Len(W) + 1
        BY <3>1, <3>5, <1>1
      <4>2. i - 1 = Len(W) /\ i # 1
        BY <4>1, <1>1
      <4>3. ls[k].prev = W[Len(W)].id
        BY <3>1, <3>5 DEF Follows, TipOf
      <4>4. V[i - 1] = W[Len(W)]
        BY <4>1, <4>2, <1>2
      <4>5. ls[k].seq = i - 1
        BY <3>1, <3>3, <1>1
      <4>6. QED
        BY <3>2, <3>3, <4>2, <4>3, <4>4, <4>5
    <3>6. CASE k # 1
      <4>1. i - 1 = Len(W) + (k - 1) /\ i # 1 /\ k - 1 \in 1 .. Len(ls)
        BY <3>1, <3>6, <1>1
      <4>2. ls[k].prev = ls[k - 1].id
        BY <3>1, <3>6 DEF Follows
      <4>3. V[i - 1] = ls[k - 1]
        BY <4>1, <1>2
      <4>4. ls[k].seq = i - 1
        BY <3>1, <3>3, <1>1
      <4>5. QED
        BY <3>2, <3>3, <4>1, <4>2, <4>3, <4>4
    <3>7. QED
      BY <3>4, <3>5, <3>6
  <2>3. QED
    BY <2>1, <2>2
<1>4. QED
  BY <1>3 DEF V, Chained

\* Lines written behind the history, to its last segment or to a new one.
LEMMA LaysMore ==
  ASSUME NEW d, DiskOK(d), NEW W, Lays(d, W), NEW s \in Nat, NEW ls \in Seq(Line), NEW e,
         Follows(ls, W), \A x \in Segments(d) : ~ d[x].live.torn,
         Segments(e) = Segments(d) \cup {s},
         \A x \in Segments(d) : x # s => e[x] = d[x],
         e[s].live.lines = Read(d, s).lines \o ls,
         IF s \in Segments(d) THEN s = LastSegment(d)
         ELSE /\ s = Len(W)
              /\ Segments(d) # {} => d[LastSegment(d)].live.lines # << >>
  PROVE  Lays(e, W \o ls)
<1> DEFINE V == W \o ls
           old == Read(d, s).lines
<1>1. /\ W \in Seq(Line) /\ Len(W) \in Nat /\ Len(ls) \in Nat
      /\ Chained(W) /\ \A i \in 1 .. Len(W) : W[i].v = 1
  BY DEF Lays
<1>2. /\ V \in Seq(Line) /\ Len(V) = Len(W) + Len(ls)
      /\ \A i \in 1 .. Len(W) : V[i] = W[i]
      /\ \A i \in 1 .. Len(ls) : V[Len(W) + i] = ls[i]
  BY <1>1, JoinIs
<1>3. Chained(V) /\ \A i \in 1 .. Len(V) : V[i].v = 1
  BY <1>1, ChainMore
<1>4. /\ old \in Seq(Line \cup {Garbage}) /\ Len(old) \in Nat /\ s + Len(old) = Len(W)
      /\ \A i \in 1 .. Len(old) : old[i] = W[s + i]
  <2>1. CASE s \in Segments(d)
    <3>1. old = d[s].live.lines
      BY <2>1 DEF Read
    <3>2. s = LastSegment(d) /\ Segments(d) # {}
      BY <2>1
    <3>3. s + Len(d[s].live.lines) = Len(W)
      BY <3>2, LaysEnd
    <3>4. d[s].live.lines \in Seq(Line \cup {Garbage}) /\ Len(d[s].live.lines) \in Nat
      BY <2>1, FileFacts
    <3>5. \A i \in 1 .. Len(d[s].live.lines) : d[s].live.lines[i] = W[s + i]
      BY <2>1 DEF Lays
    <3>6. QED
      BY <3>1, <3>3, <3>4, <3>5
  <2>2. CASE s \notin Segments(d)
    <3>1. old = << >> /\ s = Len(W)
      BY <2>2 DEF Read, Blank
    <3>2. QED
      BY <3>1, <1>1
  <2>3. QED
    BY <2>1, <2>2
<1> DEFINE new == e[s].live.lines
<1>5. new = old \o ls
  OBVIOUS
<1>6. ls \in Seq(Line \cup {Garbage})
  OBVIOUS
<1> HIDE DEF V, old, new
<1>7. /\ Len(new) = Len(old) + Len(ls)
      /\ \A i \in 1 .. Len(old) : new[i] = old[i]
      /\ \A i \in 1 .. Len(ls) : new[Len(old) + i] = ls[i]
  BY <1>4, <1>5, <1>6, JoinIs
<1>8. s + Len(new) = Len(V) /\ Len(new) \in Nat
  BY <1>1, <1>2, <1>4, <1>7
<1>9. ASSUME NEW i \in 1 .. Len(new)
      PROVE  new[i] = V[s + i]
  <2>1. CASE i <= Len(old)
    <3>1. i \in 1 .. Len(old) /\ s + i \in 1 .. Len(W)
      BY <2>1, <1>1, <1>4, <1>8
    <3>2. QED
      BY <3>1, <1>2, <1>4, <1>7
  <2>2. CASE ~ (i <= Len(old))
    <3> DEFINE k == i - Len(old)
    <3>0. i \in Nat /\ Len(old) < i /\ i <= Len(old) + Len(ls) /\ Len(old) \in Nat
      BY <2>2, <1>4, <1>7, <1>8
    <3>3. k \in 1 .. Len(ls) /\ i = Len(old) + k
      BY <3>0, <1>1
    <3>4. s + Len(old) = Len(W)
      BY <1>4
    <3>1. k \in 1 .. Len(ls) /\ i = Len(old) + k /\ s + i = Len(W) + k
      <4> HIDE DEF k
      <4>1. k \in Nat
        BY <3>3, <1>1
      <4>2. s \in Nat /\ Len(old) \in Nat /\ Len(W) \in Nat
        BY <3>0, <1>1
      <4>3. s + (Len(old) + k) = Len(W) + k
        BY ONLY <4>1, <4>2, <3>4
      <4>4. QED
        BY <4>3, <3>3
    <3> HIDE DEF k
    <3>2. QED
      BY <3>1, <1>2, <1>7
  <2>3. QED
    BY <2>1, <2>2
<1>10. ASSUME NEW x \in Segments(e), x # s
       PROVE  /\ x \in Segments(d) /\ x \in Nat /\ e[x] = d[x] /\ Len(d[x].live.lines) \in Nat
              /\ x + Len(d[x].live.lines) <= Len(W)
              /\ \A i \in 1 .. Len(d[x].live.lines) : d[x].live.lines[i] = W[x + i]
  <2>1. x \in Segments(d) /\ e[x] = d[x]
    BY <1>10
  <2>2. QED
    BY <2>1, FileFacts DEF Lays
<1>11. ASSUME NEW x \in Segments(e)
       PROVE  /\ x + Len(e[x].live.lines) <= Len(V)
              /\ \A i \in 1 .. Len(e[x].live.lines) : e[x].live.lines[i] = V[x + i]
  <2>1. CASE x = s
    <3>1. s + Len(new) <= Len(V)
      BY <1>8
    <3>2. QED
      BY <2>1, <3>1, <1>9 DEF new
  <2>2. CASE x # s
    <3> DEFINE c == d[x].live.lines
    <3>1. /\ x \in Nat /\ Len(c) \in Nat /\ e[x].live.lines = c /\ x + Len(c) <= Len(W)
          /\ \A i \in 1 .. Len(c) : c[i] = W[x + i]
      BY <2>2, <1>10
    <3> HIDE DEF c
    <3>2. \A i \in 1 .. Len(c) : x + i \in 1 .. Len(W)
      BY <3>1, <1>1
    <3>3. x + Len(c) <= Len(V)
      BY <3>1, <1>1, <1>2
    <3>4. QED
      BY <3>1, <3>2, <3>3, <1>2
  <2>3. QED
    BY <2>1, <2>2
<1>12. ASSUME NEW x \in Segments(e), NEW y \in Segments(e), x < y
       PROVE  /\ e[x].live.lines # << >> /\ ~ e[x].live.torn
              /\ x + Len(e[x].live.lines) <= y
  <2>1. CASE x = s
    <3>1. y # s
      BY <2>1, <1>12
    <3>2. y \in Segments(d) /\ y \in Nat /\ y + Len(d[y].live.lines) <= Len(W) /\ Len(d[y].live.lines) \in Nat
      BY <3>1, <1>10
    <3>3. CASE s \in Segments(d)
      <4>1. y <= s
        BY <3>2, <3>3, SegmentChoice
      <4>2. QED
        BY <4>1, <3>2, <2>1, <1>12
    <3>4. CASE s \notin Segments(d)
      <4>1. s = Len(W)
        BY <3>4
      <4>2. QED
        <5> DEFINE g == Len(d[y].live.lines)
                   w == Len(W)
        <5>1. y \in Nat /\ g \in Nat /\ w \in Nat /\ y + g <= w
          BY <3>2, <1>1
        <5>2. w < y
          BY <4>1, <2>1, <1>12
        <5> HIDE DEF g, w
        <5> QED BY ONLY <5>1, <5>2
    <3>5. QED
      BY <3>3, <3>4
  <2>2. CASE x # s /\ y # s
    <3>1. x \in Segments(d) /\ y \in Segments(d) /\ e[x] = d[x]
      BY <2>2, <1>10
    <3>2. QED
      BY <3>1, <1>12 DEF Lays
  <2>3. CASE x # s /\ y = s
    <3>1. x \in Segments(d) /\ e[x] = d[x] /\ x + Len(d[x].live.lines) <= Len(W) /\ ~ d[x].live.torn
      BY <2>3, <1>10
    <3>2. CASE s \in Segments(d)
      BY <3>1, <3>2, <2>3, <1>12 DEF Lays
    <3>3. CASE s \notin Segments(d)
      <4>1. s = Len(W) /\ d[LastSegment(d)].live.lines # << >> /\ x <= LastSegment(d)
              /\ LastSegment(d) \in Segments(d)
        BY <3>1, <3>3, SegmentChoice
      <4>2. x # LastSegment(d) => d[x].live.lines # << >>
        <5>1. x \in Nat /\ LastSegment(d) \in Nat
          BY <3>1, <4>1, FileFacts
        <5>2. x # LastSegment(d) => x < LastSegment(d)
          BY <4>1, <5>1
        <5>3. QED
          BY <3>1, <4>1, <5>2 DEF Lays
      <4>3. QED
        BY <3>1, <4>1, <4>2, <2>3
    <3>4. QED
      BY <3>2, <3>3
  <2>4. QED
    BY <2>1, <2>2, <2>3
<1>13. ASSUME NEW q \in 0 .. Len(V) - 1
       PROVE  \E x \in Segments(e) : x <= q /\ q < x + Len(e[x].live.lines)
  <2>1. CASE q < Len(W)
    <3>1. q \in 0 .. Len(W) - 1 /\ q \in Nat
      BY <2>1, <1>1, <1>2
    <3>2. PICK x \in Segments(d) : x <= q /\ q < x + Len(d[x].live.lines)
      BY <3>1 DEF Lays
    <3>3. CASE x = s
      <4>1. s \in Segments(e) /\ s <= q /\ q < s + Len(new)
        BY <3>2, <3>3, <2>1, <1>8, <1>1, <1>2, <3>1
      <4>2. QED
        BY <4>1 DEF new
    <3>4. CASE x # s
      <4>1. x \in Segments(e) /\ e[x] = d[x]
        BY <3>4
      <4>2. QED
        BY <3>2, <4>1
    <3>5. QED
      BY <3>3, <3>4
  <2>2. CASE ~ (q < Len(W))
    <3>1. s \in Segments(e) /\ s <= q /\ q < s + Len(new)
      BY <2>2, <1>1, <1>2, <1>4, <1>8
    <3>2. QED
      BY <3>1 DEF new
  <2>3. QED
    BY <2>1, <2>2
<1>14. Segments(e) # {} => 0 \in Segments(e)
  <2>1. CASE Segments(d) # {}
    BY <2>1 DEF Lays
  <2>2. CASE Segments(d) = {}
    BY <2>2, LaysEnd
  <2>3. QED
    BY <2>1, <2>2
<1>15. Lays(e, V)
  BY <1>2, <1>3, <1>11, <1>12, <1>13, <1>14 DEF Lays
<1>16. QED
  BY <1>15 DEF V


\* Where the last segment begins: the segment before it ends there.
LEMMA BoundaryIs ==
  ASSUME NEW d, DiskOK(d), NEW W, Lays(d, W), Segments(d) # {}
  PROVE  LET z == LastSegment(d)
         IN  /\ ~ boundary_refuses(d)
             /\ boundary(d) = [prev |-> TipOf(SubSeq(W, 1, z)), next_seq |-> z]
             /\ z \in 0 .. Len(W)
             /\ Priors(d) = {} => z = 0
             /\ Priors(d) # {} => /\ Prior(d) \in Segments(d) /\ Prior(d) < z
                                  /\ Prior(d) + Len(d[Prior(d)].live.lines) = z
                                  /\ \A s \in Segments(d) : s < z => s <= Prior(d)
<1> DEFINE z == LastSegment(d)
<1>1. /\ z \in Segments(d) /\ z \in Nat /\ \A t \in Segments(d) : t <= z
      /\ W \in Seq(Line) /\ Len(W) \in Nat /\ z \in 0 .. Len(W)
      /\ 0 \in Segments(d)
  <2>1. z \in Segments(d) /\ \A t \in Segments(d) : t <= z
    BY SegmentChoice
  <2>2. z \in Nat /\ Len(d[z].live.lines) \in Nat
    BY <2>1, FileFacts
  <2>3. z + Len(d[z].live.lines) <= Len(W)
    BY <2>1 DEF Lays
  <2>4. W \in Seq(Line) /\ Len(W) \in Nat /\ 0 \in Segments(d)
    BY DEF Lays
  <2> HIDE DEF z
  <2>5. QED
    BY <2>1, <2>2, <2>3, <2>4
<1>2. Priors(d) = Segments(d) \ {z}
  BY DEF Priors
<1>3. CASE Priors(d) = {}
  <2>1. z = 0
    BY <1>1, <1>2, <1>3
  <2>2. SubSeq(W, 1, 0) = << >>
    BY <1>1, PrefixIs
  <2>3. QED
    BY <1>1, <1>3, <2>1, <2>2 DEF boundary, boundary_refuses, TipOf
<1>4. CASE Priors(d) # {}
  <2> DEFINE p == Prior(d)
             c == d[p].live.lines
  <2>1. p \in Priors(d) /\ \A t \in Priors(d) : t <= p
    <3>1. \E b \in Nat : \A s \in Segments(d) : s <= b
      BY DEF DiskOK
    <3>2. Priors(d) \in SUBSET Nat /\ \E b \in Nat : \A s \in Priors(d) : s <= b
      BY <3>1, <1>2 DEF DiskOK
    <3>3. QED
      BY <1>4, <3>2, LargestExists DEF Prior
  <2>2. p \in Segments(d) /\ p # z /\ p \in Nat /\ Len(c) \in Nat /\ c \in Seq(Line \cup {Garbage})
    BY <1>2, <2>1, FileFacts
  <2>3. p < z
    BY <1>1, <2>2
  <2> HIDE DEF p, c, z
  <2>4. c # << >> /\ p + Len(c) <= z
    BY <1>1, <2>2, <2>3 DEF Lays, c
  <2>5. PICK s \in Segments(d) : s <= z - 1 /\ z - 1 < s + Len(d[s].live.lines)
    <3>1. z - 1 \in 0 .. Len(W) - 1
      BY <1>1, <2>2, <2>3
    <3>2. QED
      BY <3>1 DEF Lays
  <2>6. s \in Nat /\ Len(d[s].live.lines) \in Nat
    BY FileFacts
  <2>7. s <= p
    BY <2>1, <2>5, <2>6, <1>1, <1>2
  <2>8. s = p
    <3>1. CASE s < p
      <4>1. s + Len(d[s].live.lines) <= p
        BY <3>1, <2>2 DEF Lays
      <4>2. FALSE
        BY <4>1, <2>3, <2>5, <2>6, <2>2, <1>1
      <4>3. QED
        BY <4>2
    <3>2. QED
      BY <3>1, <2>2, <2>6, <2>7
  <2>9. p + Len(c) = z
    <3>1. z - 1 < p + Len(c)
      BY <2>5, <2>8 DEF c
    <3>2. QED
      BY <3>1, <2>2, <2>4, <1>1
  <2>10. Len(c) \in 1 .. Len(c) /\ z # 0
    BY <2>2, <2>3, <2>4
  <2>11. c[Len(c)] = W[z]
    BY <2>2, <2>9, <2>10 DEF Lays, c
  <2>12. z \in 1 .. Len(W)
    BY <2>10, <1>1
  <2>13. W[z] \in Line /\ W[z].v = 1 /\ W[z].seq = z - 1
    BY <2>12, <1>1 DEF Lays, Chained
  <2>14. SubSeq(W, 1, z) # << >> /\ Len(SubSeq(W, 1, z)) = z /\ SubSeq(W, 1, z)[z] = W[z]
    BY <2>12, <1>1, PrefixIs
  <2>15. ~ boundary_refuses(d)
    BY <1>4, <2>4, <2>11, <2>13 DEF boundary_refuses, parse_ok, c, p
  <2>16. boundary(d) = [prev |-> W[z].id, next_seq |-> (z - 1) + 1]
    BY <1>4, <2>11, <2>13 DEF boundary, c, p
  <2>17. boundary(d) = [prev |-> TipOf(SubSeq(W, 1, z)), next_seq |-> z]
    BY <2>16, <2>14, <1>1 DEF TipOf
  <2>18. \A t \in Segments(d) : t < z => t <= p
    BY <2>1, <1>1, <1>2
  <2>19. QED
    BY <1>1, <1>4, <2>2, <2>3, <2>9, <2>15, <2>17, <2>18 DEF p, c, z
<1>5. QED
  BY <1>3, <1>4

\* A history this build laid is opened, and nothing of it but a torn rest is
\* cut off.
LEMMA OpenIs ==
  ASSUME NEW d, DiskOK(d), NEW W, Lays(d, W), Segments(d) # {}
  PROVE  /\ ~ open_refuses(d)
         /\ ValidLines(d) = Len(d[LastSegment(d)].live.lines)
         /\ TornTail(d) <=> d[LastSegment(d)].live.torn
<1> DEFINE z == LastSegment(d)
           c == d[z].live.lines
           n == Len(c)
<1>1. /\ z \in Segments(d) /\ z \in Nat /\ n \in Nat /\ z + n = Len(W) /\ d[z].live \in Content
      /\ FirstSegment(d) = 0 /\ d[z].live.torn \in BOOLEAN
  BY LaysEnd, FileFacts
<1>2. W \in Seq(Line) /\ Len(W) \in Nat /\ Chained(W) /\ \A i \in 1 .. Len(W) : W[i].v = 1
  BY DEF Lays
<1>3. /\ ~ boundary_refuses(d)
      /\ boundary(d) = [prev |-> TipOf(SubSeq(W, 1, z)), next_seq |-> z]
  BY BoundaryIs
<1>4. \A i \in 1 .. n : c[i] = W[z + i]
  BY <1>1 DEF Lays
<1> HIDE DEF n
<1>5. ASSUME NEW i \in 1 .. n
      PROVE  Continues(d, i) /\ parse_ok(c[i])
  <2> HIDE DEF c, z
  <2>1. z + i \in 1 .. Len(W) /\ i \in Nat
    BY <1>1, <1>2
  <2>2. PICK x \in 1 .. Len(W) : x = z + i /\ c[i] = W[x]
    <3>1. c[i] = W[z + i]
      BY <1>4
    <3>2. QED
      BY <2>1, <3>1
  <2>7. c[i].v = 1 /\ c[i].seq = x - 1 /\ c[i].prev = (IF x = 1 THEN 0 ELSE W[x - 1].id)
    BY <2>2, <1>2 DEF Chained
  <2>8. x - 1 = z + (i - 1) /\ x - 1 = z + i - 1
    BY <2>1, <2>2, <1>1
  <2>3. i # 1 => c[i].prev = c[i - 1].id
    <3>1. HAVE i # 1
    <3>2. i - 1 \in 1 .. n /\ x # 1
      BY <3>1, <1>1, <2>2
    <3>3. PICK y \in Nat : y = i - 1 /\ c[y] = W[z + y]
      BY <3>2, <1>4
    <3>4. W[x - 1] = c[i - 1]
      BY <3>3, <2>8
    <3>5. QED
      BY <3>2, <3>4, <2>7
  <2>4. i = 1 => c[i].prev = TipOf(SubSeq(W, 1, z))
    <3>1. HAVE i = 1
    <3>2. z \in 0 .. Len(W) /\ z + 1 \in 1 .. Len(W)
      BY <3>1, <2>1, <1>1, <1>2
    <3>3. Len(SubSeq(W, 1, z)) = z /\ \A j \in 1 .. z : SubSeq(W, 1, z)[j] = W[j]
      BY <3>2, <1>2, PrefixIs
    <3>4. CASE z = 0
      <4>1. SubSeq(W, 1, 0) = << >>
        BY <1>2, PrefixIs
      <4>3. QED
        BY <4>1, <3>4, <3>1, <2>2, <2>7 DEF TipOf
    <3>5. CASE z # 0
      <4>1. z \in 1 .. z /\ SubSeq(W, 1, z) # << >>
        BY <3>5, <1>1, <3>3
      <4>2. TipOf(SubSeq(W, 1, z)) = W[z].id
        BY <4>1, <3>3 DEF TipOf
      <4>3. x # 1 /\ x - 1 = z
        BY <3>1, <3>5, <2>2, <1>1
      <4>4. QED
        BY <4>2, <4>3, <2>7
    <3>6. QED
      BY <3>4, <3>5
  <2>5. Continues(d, i)
    BY <2>7, <2>8, <2>3, <2>4, <1>3 DEF Continues, parse_ok, c, z
  <2>6. QED
    BY <2>7, <2>5 DEF parse_ok
<1>6. ValidLines(d) = n
  <2>1. /\ ValidLines(d) \in 0 .. n
        /\ ValidLines(d) < n => ~ Continues(d, ValidLines(d) + 1)
    BY ValidLinesType DEF n
  <2>2. ValidLines(d) < n => ValidLines(d) + 1 \in 1 .. n
    BY <2>1, <1>1
  <2>3. QED
    BY <2>1, <2>2, <1>1, <1>5
<1>7. TornTail(d) <=> d[z].live.torn
  <2>1. Size(d[z].live) = 2 * n + IF d[z].live.torn THEN 1 ELSE 0
    BY DEF Size, n
  <2>2. TornTail(d) <=> Size(d[z].live) > 2 * n
    BY <1>6 DEF TornTail
  <2>3. QED
    BY <2>1, <2>2, <1>1
<1>8. ~ recover_tail_refuses(d)
  <2>1. ASSUME c # << >>
        PROVE  n # 0
    BY <2>1, <1>1, FileFacts DEF n
  <2>2. QED
    BY <2>1, <1>6 DEF recover_tail_refuses
<1>9. ~ probe_version_refuses(d)
  <2> DEFINE f == d[0].live.lines
  <2>1. SUFFICES ASSUME f # << >>
                 PROVE  parse_ok(f[1]) /\ ~ (f[1].v > 1)
    BY <1>1 DEF probe_version_refuses
  <2>2. 0 \in Segments(d) /\ f \in Seq(Line \cup {Garbage}) /\ Len(f) \in Nat
    BY FileFacts DEF Lays
  <2>3. 1 \in 1 .. Len(f)
    BY <2>1, <2>2
  <2>4. f[1] = W[0 + 1] /\ 0 + Len(f) <= Len(W)
    BY <2>2, <2>3 DEF Lays
  <2>5. f[1].v = 1
    BY <2>2, <2>3, <2>4, <1>2
  <2>6. QED
    BY <2>5 DEF parse_ok
<1>10. QED
  BY <1>3, <1>6, <1>7, <1>8, <1>9 DEF open_refuses, n


\* All of a sequence is the sequence.
LEMMA WholePrefix ==
  ASSUME NEW S, NEW W \in Seq(S)
  PROVE  SubSeq(W, 1, Len(W)) = W
<1>1. Len(W) \in 0 .. Len(W)
  OBVIOUS
<1>2. /\ SubSeq(W, 1, Len(W)) \in Seq(S) /\ Len(SubSeq(W, 1, Len(W))) = Len(W)
      /\ \A i \in 1 .. Len(W) : SubSeq(W, 1, Len(W))[i] = W[i]
  BY <1>1, PrefixIs
<1>3. QED
  BY <1>2

\* Where the handle stands when open has read a history.
LEMMA RecoveredIs ==
  ASSUME NEW d, DiskOK(d), NEW W, Lays(d, W), Segments(d) # {}
  PROVE  LET h == Recovered(d)
             z == LastSegment(d)
             n == Len(d[z].live.lines)
             back == d[z].live.torn /\ n = 0
         IN  /\ h.next_seq = Len(W) /\ h.prev = TipOf(W)
             /\ ~ back => h.seg = z /\ h.len = 2 * n
             /\ back => IF Priors(d) = {} THEN h.seg = 0 /\ h.len = 0
                        ELSE h.seg = Prior(d) /\ h.len = Size(d[Prior(d)].live)
<1> DEFINE h == Recovered(d)
           z == LastSegment(d)
           c == d[z].live.lines
           n == Len(c)
           back == d[z].live.torn /\ n = 0
<1>1. /\ z \in Segments(d) /\ z \in Nat /\ n \in Nat /\ z + n = Len(W) /\ z \in 0 .. Len(W)
      /\ W \in Seq(Line) /\ Len(W) \in Nat
  <2>1. z \in Segments(d) /\ z + n = Len(W) /\ Len(W) \in Nat
    BY LaysEnd
  <2>2. z \in Nat /\ n \in Nat
    BY <2>1, FileFacts
  <2>3. W \in Seq(Line)
    BY DEF Lays
  <2> HIDE DEF n, z
  <2>4. QED
    BY <2>1, <2>2, <2>3
<1>2. ValidLines(d) = n /\ (TornTail(d) <=> d[z].live.torn)
  BY OpenIs
<1>3. boundary(d) = [prev |-> TipOf(SubSeq(W, 1, z)), next_seq |-> z]
  BY BoundaryIs
<1>4. h = [seg  |-> IF ~ back THEN z ELSE IF Priors(d) = {} THEN 0 ELSE Prior(d),
           len  |-> IF ~ back THEN 2 * n
                    ELSE IF Priors(d) = {} THEN 0 ELSE Size(d[Prior(d)].live),
           next_seq |-> z + n,
           prev |-> IF n = 0 THEN TipOf(SubSeq(W, 1, z)) ELSE c[n].id]
  BY <1>2, <1>3 DEF Recovered
<1>5. (IF n = 0 THEN TipOf(SubSeq(W, 1, z)) ELSE c[n].id) = TipOf(W)
  <2>1. CASE n = 0
    <3>1. z = Len(W)
      BY <2>1, <1>1
    <3>2. QED
      BY <2>1, <3>1, <1>1, WholePrefix
  <2>2. CASE n # 0
    <3>1. n \in 1 .. n
      BY <2>2, <1>1
    <3>2. \A i \in 1 .. n : c[i] = W[z + i]
      BY <1>1 DEF Lays
    <3>4. W # << >>
      <4>1. CASE W = << >>
        <5>1. Len(W) = 0
          BY <4>1
        <5>2. QED
          BY <5>1, <2>2, <1>1
      <4>2. QED
        BY <4>1
    <3>3. c[n] = W[Len(W)]
      BY <3>1, <3>2, <1>1
    <3>5. QED
      BY <2>2, <3>3, <3>4 DEF TipOf
  <2>3. QED
    BY <2>1, <2>2
<1> HIDE DEF h, z, n, back
<1>6. QED
  <2>1. h.next_seq = Len(W) /\ h.prev = TipOf(W)
    BY <1>1, <1>4, <1>5
  <2>2. ~ back => h.seg = z /\ h.len = 2 * n
    BY <1>4
  <2>3. back => IF Priors(d) = {} THEN h.seg = 0 /\ h.len = 0
                ELSE h.seg = Prior(d) /\ h.len = Size(d[Prior(d)].live)
    BY <1>4
  <2>4. QED
    BY <2>1, <2>2, <2>3 DEF h, z, n, back

-----------------------------------------------------------------------------
(* How a wave is laid out.                                                 *)

\* The whole multiples of C in x.
LEMMA Whole ==
  ASSUME NEW x \in Nat, NEW C \in Nat \ {0}
  PROVE  /\ x \div C \in Nat /\ (x \div C) * C \in Nat
         /\ (x \div C) * C <= x
         /\ ((x \div C) * C) \div C = x \div C
<1>1. x = C * (x \div C) + (x % C) /\ x % C \in 0 .. C - 1
  OBVIOUS
<1>2. x \div C \in Nat
  OBVIOUS
<1>3. (x \div C) * C = C * (x \div C) /\ C * (x \div C) \in Nat
  BY <1>2
<1>4. \A a \in Nat : (C * a) \div C = a
  OBVIOUS
<1>5. QED
  BY <1>1, <1>2, <1>3, <1>4

\* More has no fewer whole multiples.
LEMMA WholeGrows ==
  ASSUME NEW x \in Nat, NEW y \in Nat, x <= y, NEW C \in Nat \ {0}
  PROVE  (x \div C) * C <= (y \div C) * C
<1>1. x \div C \in Nat /\ y \div C \in Nat /\ x \div C <= y \div C
  OBVIOUS
<1>2. \A a, b \in Nat : a <= b => a * C <= b * C
  OBVIOUS
<1>3. QED
  BY <1>1, <1>2

\* The segments a wave's lines go to.
LEMMA SegmentsOfWave ==
  ASSUME NEW h \in Handles, h.seg <= h.next_seq, h.len = 2 * (h.next_seq - h.seg)
  PROVE  /\ \A i \in Nat \ {0} :
              /\ SegmentOf(h, i) \in Nat /\ h.seg <= SegmentOf(h, i)
              /\ SegmentOf(h, i) # h.seg =>
                   LET f == SegmentOf(h, i) - h.next_seq + 1
                   IN  /\ h.next_seq <= SegmentOf(h, i) /\ SegmentOf(h, i) <= h.next_seq + i - 1
                       /\ SegmentOf(h, f) = SegmentOf(h, i)
                       /\ \A j \in 1 .. f - 1 : SegmentOf(h, j) < SegmentOf(h, i)
              /\ \A j \in Nat \ {0} : i <= j => SegmentOf(h, i) <= SegmentOf(h, j)
         /\ h.len = 0 => SegmentOf(h, 1) = h.seg
<1> DEFINE C == SegmentCapacity
           R == Room(h)
           q(i) == ((i - 1 - R) \div C) * C
<1>1. h.seg \in Nat /\ h.len \in Nat /\ h.next_seq \in Nat
  BY DEF Handles
<1>2. C \in Nat \ {0}
  BY ConstantsAssumption DEF SegmentCapacity
<1>3. R \in Nat /\ (h.len = 0 => R # 0)
  BY <1>1, <1>2, ConstantsAssumption DEF Room
<1>4. h.len = 0 <=> h.seg = h.next_seq
  BY <1>1
<1> HIDE DEF C, R
<1>5. \A i \in Nat : SegmentOf(h, i) = IF i <= R THEN h.seg ELSE h.next_seq + R + q(i)
  BY DEF SegmentOf, C, R
<1>6. \A i \in Nat : R < i => /\ q(i) \in Nat /\ q(i) <= i - 1 - R
                              /\ q(R + q(i) + 1) = q(i)
                              /\ \A j \in Nat : i <= j => q(i) <= q(j)
  <2> TAKE i \in Nat
  <2> HAVE R < i
  <2>1. i - 1 - R \in Nat
    BY <1>3
  <2>2. q(i) \in Nat /\ q(i) <= i - 1 - R /\ q(i) \div C = (i - 1 - R) \div C
    BY <2>1, <1>2, Whole
  <2>3. (R + q(i) + 1) - 1 - R = q(i)
    <3> HIDE DEF q
    <3> QED BY <2>2, <1>3
  <2>4. q(R + q(i) + 1) = q(i)
    BY <2>2, <2>3
  <2>5. ASSUME NEW j \in Nat, i <= j
        PROVE  q(i) <= q(j)
    <3>1. j - 1 - R \in Nat /\ i - 1 - R <= j - 1 - R
      BY <2>1, <2>5, <1>3
    <3>2. QED
      BY <3>1, <2>1, <1>2, WholeGrows
  <2>6. QED
    BY <2>2, <2>4, <2>5
<1> HIDE DEF q
<1> DEFINE S(i) == SegmentOf(h, i)
<1> HIDE DEF S
<1>7. \A i \in Nat \ {0} : S(i) = IF i <= R THEN h.seg ELSE h.next_seq + R + q(i)
  BY <1>5 DEF S
<1>8. ASSUME NEW i \in Nat \ {0}, R < i
      PROVE  h.seg < S(i) /\ h.next_seq + R <= S(i)
  <2>1. S(i) = h.next_seq + R + q(i) /\ q(i) \in Nat
    BY <1>3, <1>6, <1>7, <1>8
  <2>2. CASE h.seg = h.next_seq
    BY <2>1, <2>2, <1>1, <1>3, <1>4
  <2>3. CASE h.seg < h.next_seq
    BY <2>1, <2>3, <1>1, <1>3
  <2>4. QED
    BY <2>2, <2>3, <1>1
<1>9. ASSUME NEW i \in Nat \ {0}
      PROVE  S(i) \in Nat /\ h.seg <= S(i)
  <2>1. CASE i <= R
    BY <2>1, <1>1, <1>7
  <2>2. CASE ~ (i <= R)
    <3>1. R < i
      BY <2>2, <1>3
    <3>2. S(i) = h.next_seq + R + q(i) /\ q(i) \in Nat
      BY <3>1, <2>2, <1>6, <1>7
    <3>3. QED
      BY <3>1, <3>2, <1>1, <1>3, <1>8
  <2>3. QED
    BY <2>1, <2>2
<1>10. ASSUME NEW i \in Nat \ {0}, S(i) # h.seg
       PROVE  LET f == S(i) - h.next_seq + 1
              IN  /\ h.next_seq <= S(i) /\ S(i) <= h.next_seq + i - 1
                  /\ S(f) = S(i)
                  /\ \A j \in 1 .. f - 1 : S(j) < S(i)
  <2> DEFINE f == R + q(i) + 1
  <2>1. R < i
    BY <1>3, <1>7, <1>10
  <2>2. S(i) = h.next_seq + R + q(i) /\ q(i) \in Nat /\ q(i) <= i - 1 - R /\ q(f) = q(i)
    BY <2>1, <1>3, <1>6, <1>7
  <2>3. f = S(i) - h.next_seq + 1 /\ f \in Nat \ {0} /\ R < f
    BY <2>2, <1>1, <1>3
  <2> HIDE DEF f
  <2>4. S(f) = S(i)
    BY <2>2, <2>3, <1>3, <1>7
  <2>5. h.next_seq <= S(i) /\ S(i) <= h.next_seq + i - 1
    BY <2>2, <1>1, <1>3
  <2>6. ASSUME NEW j \in 1 .. f - 1
        PROVE  S(j) < S(i)
    <3>1. j \in Nat \ {0} /\ j <= R + q(i)
      BY <2>2, <2>3, <1>3 DEF f
    <3>2. CASE j <= R
      <4>1. S(j) = h.seg
        BY <3>1, <3>2, <1>7
      <4>2. QED
        BY <4>1, <2>1, <1>8
    <3>3. CASE ~ (j <= R)
      <4>1. R < j
        BY <3>1, <3>3, <1>3
      <4>2. S(j) = h.next_seq + R + q(j) /\ q(j) \in Nat /\ q(j) <= j - 1 - R
        BY <4>1, <3>1, <3>3, <1>6, <1>7
      <4>3. QED
        BY <4>2, <3>1, <2>2, <1>1, <1>3
    <3>4. QED
      BY <3>2, <3>3
  <2>7. QED
    BY <2>3, <2>4, <2>5, <2>6
<1>11. ASSUME NEW i \in Nat \ {0}, NEW j \in Nat \ {0}, i <= j
       PROVE  S(i) <= S(j)
  <2>1. CASE i <= R
    BY <2>1, <1>7, <1>9
  <2>2. CASE ~ (i <= R)
    <3>1. R < i /\ R < j
      BY <2>2, <1>3, <1>11
    <3>2. q(i) <= q(j) /\ q(i) \in Nat /\ q(j) \in Nat
      BY <3>1, <1>6, <1>11
    <3>3. S(i) = h.next_seq + R + q(i) /\ S(j) = h.next_seq + R + q(j)
      BY <3>1, <1>3, <1>7
    <3>4. QED
      BY <3>2, <3>3, <1>1, <1>3
  <2>3. QED
    BY <2>1, <2>2
<1>12. h.len = 0 => S(1) = h.seg
  BY <1>3, <1>7
<1>13. QED
  BY <1>9, <1>10, <1>11, <1>12 DEF S

\* append_all plans a wave that fits behind the handle.
LEMMA PlannedFits ==
  ASSUME NEW h \in Handles, h.seg <= h.next_seq, h.len = 2 * (h.next_seq - h.seg),
         NEW n \in Nat \ {0}, NEW o \in BOOLEAN, minted \in Nat
  PROVE  LET w == Planned(h, n, o)
         IN  /\ WaveFits(h, w) /\ Len(w.lines) = n /\ w.opening = o
             /\ w.todo = {w.seg[i] : i \in 1 .. n}
             /\ w.created = Created(h, w.seg)
<1> DEFINE w == Planned(h, n, o)
<1>1. /\ w.lines = Drafted(h, n) /\ w.seg = [i \in 1 .. n |-> SegmentOf(h, i)]
      /\ w.todo = {w.seg[i] : i \in 1 .. n} /\ w.created = Created(h, w.seg) /\ w.opening = o
  BY DEF Planned
<1> HIDE DEF w
<1>2. /\ \A i \in 1 .. n : /\ w.lines[i].v = 1 /\ w.lines[i].seq = h.next_seq + i - 1
                           /\ w.lines[i].prev = IF i = 1 THEN h.prev ELSE minted + i - 1
                           /\ w.lines[i].id = minted + i
      /\ Len(w.lines) = n
  BY <1>1 DEF Drafted
<1>3. \A i \in 1 .. n : w.lines[i].prev = IF i = 1 THEN h.prev ELSE w.lines[i - 1].id
  <2> TAKE i \in 1 .. n
  <2>1. i # 1 => i - 1 \in 1 .. n
    OBVIOUS
  <2>2. i # 1 => w.lines[i - 1].id = minted + (i - 1) /\ minted + (i - 1) = minted + i - 1
    BY <2>1, <1>2
  <2>3. QED
    BY <2>2, <1>2
<1>4. Len(w.seg) = n /\ \A i \in 1 .. n : w.seg[i] = SegmentOf(h, i)
  BY <1>1
<1>5. \A i \in 1 .. n : i \in Nat \ {0}
  OBVIOUS
<1>6. ASSUME NEW i \in 1 .. n
      PROVE  /\ h.seg <= w.seg[i]
             /\ w.seg[i] # h.seg =>
                  /\ h.next_seq <= w.seg[i] /\ w.seg[i] <= h.next_seq + i - 1
                  /\ w.seg[w.seg[i] - h.next_seq + 1] = w.seg[i]
                  /\ \A j \in 1 .. w.seg[i] - h.next_seq : w.seg[j] < w.seg[i]
  <2>1. h.seg <= w.seg[i]
    BY <1>4, <1>5, SegmentsOfWave
  <2>2. ASSUME w.seg[i] # h.seg
        PROVE  /\ h.next_seq <= w.seg[i] /\ w.seg[i] <= h.next_seq + i - 1
               /\ w.seg[w.seg[i] - h.next_seq + 1] = w.seg[i]
               /\ \A j \in 1 .. w.seg[i] - h.next_seq : w.seg[j] < w.seg[i]
    <3> DEFINE x == SegmentOf(h, i)
               f == x - h.next_seq + 1
    <3>1. /\ x \in Nat /\ h.next_seq <= x /\ x <= h.next_seq + i - 1
          /\ SegmentOf(h, f) = x /\ \A j \in 1 .. f - 1 : SegmentOf(h, j) < x
      BY <2>2, <1>4, <1>5, SegmentsOfWave
    <3>2. w.seg[i] = x /\ h.next_seq \in Nat
      BY <1>4 DEF Handles
    <3> HIDE DEF x
    <3>3. f \in 1 .. n /\ \A j \in 1 .. f - 1 : j \in 1 .. n
      BY <3>1, <3>2
    <3>4. w.seg[f] = x /\ \A j \in 1 .. f - 1 : w.seg[j] < x
      BY <3>1, <3>3, <1>4
    <3>5. f - 1 = x - h.next_seq
      BY <3>1, <3>2
    <3>6. QED
      BY <3>1, <3>2, <3>4, <3>5
  <2>3. QED
    BY <2>1, <2>2
<1>7. \A i, j \in 1 .. n : i <= j => w.seg[i] <= w.seg[j]
  BY <1>4, <1>5, SegmentsOfWave
<1>8. h.len = 0 => w.seg[1] = h.seg
  BY <1>4, SegmentsOfWave
<1>9. WaveFits(h, w)
  <2>1. w.lines # << >>
    BY <1>2
  <2>2. QED
    BY <2>1, <1>2, <1>3, <1>4, <1>6, <1>7, <1>8 DEF WaveFits
<1>10. QED
  BY <1>1, <1>2, <1>9 DEF w


-----------------------------------------------------------------------------
(* The history through the steps that plan, write and acknowledge a wave.  *)

\* A handle that stands behind a history measures its segment by it.
LEMMA HandleFits ==
  ASSUME NEW d, DiskOK(d), NEW W, Lays(d, W), NEW h \in Handles, HandleAt(d, h, W)
  PROVE  /\ h.seg <= h.next_seq /\ h.len = 2 * (h.next_seq - h.seg)
         /\ \A s \in Segments(d) : ~ d[s].live.torn
<1>1. h.seg \in Nat /\ h.next_seq \in Nat /\ h.next_seq = Len(W)
  BY DEF Handles, HandleAt
<1>2. CASE Segments(d) = {}
  <2>1. h.seg = 0 /\ h.len = 0 /\ Len(W) = 0
    BY <1>2, LaysEnd DEF HandleAt
  <2>2. QED
    BY <2>1, <1>1, <1>2
<1>3. CASE Segments(d) # {}
  <2> DEFINE z == LastSegment(d)
             n == Len(d[z].live.lines)
  <2>1. z \in Segments(d) /\ \A t \in Segments(d) : t <= z
    BY <1>3, SegmentChoice
  <2>2. z \in Nat /\ n \in Nat /\ z + n = Len(W)
    BY <1>3, <2>1, FileFacts, LaysEnd
  <2>3. h.seg = z /\ h.len = 2 * n /\ ~ d[z].live.torn
    BY <1>3 DEF HandleAt
  <2>4. \A s \in Segments(d) : s # z => s < z
    BY <2>1, <2>2, FileFacts
  <2>5. \A s \in Segments(d) : ~ d[s].live.torn
    BY <2>1, <2>3, <2>4 DEF Lays
  <2> HIDE DEF z, n
  <2>6. h.seg <= h.next_seq /\ n = h.next_seq - h.seg
    BY <2>2, <2>3, <1>1
  <2>7. QED
    BY <2>3, <2>5, <2>6
<1>4. QED
  BY <1>2, <1>3

\* A wave is planned behind the history, and nothing of it written.
LEMMA PlannedStands ==
  ASSUME IndInv, IndInv', NEW W, Lays(disk', W), HandleAt(disk', handle, W), handle' = handle,
         NEW n \in Nat \ {0}, NEW o \in BOOLEAN, wave' = Planned(handle, n, o),
         log' = log, pc' = "write", Precedes(log, W), ~ o => Len(log) = Len(W)
  PROVE  StandsOn(W)'
<1>1. DiskOK(disk') /\ handle \in Handles /\ minted \in Nat
  BY DEF IndInv, TypeOK
<1>2. /\ handle.seg <= handle.next_seq /\ handle.len = 2 * (handle.next_seq - handle.seg)
      /\ \A s \in Segments(disk') : ~ disk'[s].live.torn
  BY <1>1, HandleFits
<1>3. /\ WaveFits(handle, wave') /\ Len(wave'.lines) = n /\ wave'.opening = o
      /\ wave'.todo = {wave'.seg[i] : i \in 1 .. n}
  BY <1>1, <1>2, PlannedFits
<1>4. /\ W \in Seq(Line) /\ Len(W) \in Nat /\ handle.next_seq = Len(W) /\ handle.prev = TipOf(W)
      /\ Len(log) <= Len(W)
  BY DEF Lays, HandleAt, Precedes
<1>5. SubSeq(W, 1, handle.next_seq) = W
  BY <1>4, WholePrefix
<1>12. pc' = "write"
  OBVIOUS
<1>6. WaveAt(W)'
  <2>1. 0 \in 0 .. Len(wave'.lines) /\ Len(W) = handle.next_seq + 0
    BY <1>3, <1>4
  <2>2. \A i \in 1 .. Len(wave'.lines) : wave'.seg[i] \in wave'.todo <=> i > 0
    BY <1>3
  <2>3. \A i \in 1 .. 0 : W[handle.next_seq + i] = wave'.lines[i]
    OBVIOUS
  <2>4. handle'.prev = TipOf(SubSeq(W, 1, handle'.next_seq))
    BY <1>4, <1>5
  <2>5. Len(log') <= handle'.next_seq /\ (~ wave'.opening => Len(log') = handle'.next_seq)
    BY <1>3, <1>4
  <2>6. HandleAt(disk', handle', W) /\ WaveFits(handle', wave') /\ handle'.next_seq = handle.next_seq
    BY <1>3
  <2>7. QED
    BY <2>1, <2>2, <2>3, <2>4, <2>5, <2>6, <1>2, <1>12 DEF WaveAt, WaveHas
<1>7. QED
  BY <1>6 DEF StandsOn, Appending

\* What an open ledger's history adds to the one before.
Grew == Precedes(log, log') /\ Chained(log')

\* Once the tail is repaired the city stands on what it found.
LEMMA AfterRepairStands ==
  ASSUME IndInv, IndInv', NEW W, Lays(disk', W), HandleAt(disk', handle, W), handle' = handle,
         AfterRepair(disk'), Precedes(log, W)
  PROVE  StandsOn(W)' /\ (log' = log \/ Grew)
<1>1. CASE handle.next_seq = 0 /\ Opened(disk', handle)
  <2>0. W \in Seq(Line) /\ Len(W) = 0
    BY <1>1 DEF Lays, HandleAt
  <2>1. W \in Seq(Line) /\ Len(W) = 0 /\ W = << >>
    BY <2>0, EmptySeq
  <2>2. log' = W
    BY <1>1, <2>1, ReadNothing DEF Opened
  <2>3. pc' = "idle"
    BY <1>1 DEF Opened
  <2>4. Precedes(log', W) /\ Chained(log')
    BY <2>2 DEF Precedes, Lays
  <2>5. StandsOn(W)'
    BY <2>2, <2>3, <2>4 DEF StandsOn, Appending
  <2>6. QED
    BY <2>2, <2>4, <2>5 DEF Grew
<1>2. CASE /\ wave' = Planned(handle, 1, TRUE) /\ pc' = "write" /\ log' = log
  <2>1. 1 \in Nat \ {0} /\ TRUE \in BOOLEAN
    OBVIOUS
  <2>2. QED
    BY <2>1, <1>2, PlannedStands
<1>3. QED
  BY <1>1, <1>2 DEF AfterRepair

\* Where the next write of a wave goes.
LEMMA WritePlace ==
  ASSUME TypeOK, WaveOK, DiskOK(disk), pc = "write", NEW W, Lays(disk, W),
         NEW k \in 0 .. Len(wave.lines), WaveHas(W, k)
  PROVE  \E e \in k + 1 .. Len(wave.lines) :
            /\ Current = wave.seg[k + 1]
            /\ \A i \in 1 .. Len(wave.lines) : wave.seg[i] = Current <=> i \in k + 1 .. e
            /\ LinesFor(Current) = SubSeq(wave.lines, k + 1, e)
            /\ IF Current \in Segments(disk) THEN Current = LastSegment(disk) /\ Current = handle.seg /\ k = 0
               ELSE /\ Current = Len(W) /\ handle.next_seq <= Current
                    /\ Segments(disk) # {} => disk[LastSegment(disk)].live.lines # << >>
            /\ \A t \in Segments(disk) : t <= Current
<1>0. /\ WaveFits(handle, wave) /\ Len(W) = handle.next_seq + k
      /\ k = 0 => HandleAt(disk, handle, W)
      /\ k # 0 => wave.seg[k] \in Segments(disk) /\ wave.seg[k] = LastSegment(disk)
      /\ \A i \in 1 .. Len(wave.lines) : wave.seg[i] \in wave.todo <=> i > k
  BY DEF WaveHas
<1> DEFINE n == Len(wave.lines)
           c == Current
           mine == {i \in 1 .. n : wave.seg[i] = c}
<1>1. /\ n \in Nat /\ Len(wave.seg) = n /\ k \in Nat /\ wave.seg \in Seq(Nat)
      /\ handle.seg \in Nat /\ handle.next_seq \in Nat /\ handle.len \in Nat
      /\ wave.todo \in SUBSET Nat
  BY DEF TypeOK, Waves, Handles, WaveOK
<1>2. \A i \in 1 .. n : wave.seg[i] \in Nat
  BY <1>1
<1>3. c \in wave.todo /\ c \in AllSegments /\ \A t \in wave.todo : c <= t
  <2>1. wave.todo # {}
    BY DEF WaveOK
  <2>2. \E s \in wave.todo : \A t \in wave.todo : s <= t
    BY <2>1, <1>1, SmallestExists
  <2>3. c \in wave.todo /\ \A t \in wave.todo : c <= t
    BY <2>2 DEF Current
  <2>4. QED
    BY <2>3 DEF WaveOK
<1>4. \A i, j \in 1 .. n : i <= j => wave.seg[i] <= wave.seg[j]
  BY <1>0 DEF WaveFits
<1> HIDE DEF c, n
<1>5. PICK a \in 1 .. n : wave.seg[a] = c
  BY <1>1, <1>3 DEF AllSegments
<1>6. k + 1 \in 1 .. n /\ k + 1 <= a
  <2>1. k < a
    BY <1>0, <1>3, <1>5 DEF n
  <2>2. QED
    BY <2>1, <1>1
<1>7. c = wave.seg[k + 1]
  <2>1. wave.seg[k + 1] \in wave.todo
    <3>1. k + 1 > k
      BY <1>1
    <3>2. QED
      BY <1>0, <3>1, <1>6 DEF n
  <2>2. c <= wave.seg[k + 1]
    BY <2>1, <1>3
  <2>3. wave.seg[k + 1] <= c
    BY <1>4, <1>5, <1>6
  <2>4. QED
    BY <2>2, <2>3, <1>2, <1>5, <1>6
<1>8. PICK e \in mine : \A i \in mine : i <= e
  <2>1. mine \in SUBSET Nat /\ mine # {} /\ \A i \in mine : i <= n
    BY <1>1, <1>5
  <2>2. QED
    BY <2>1, <1>1, LargestExists
<1>9. \A i \in 1 .. n : wave.seg[i] = c <=> i \in k + 1 .. e
  <2> TAKE i \in 1 .. n
  <2>1. ASSUME wave.seg[i] = c
        PROVE  i \in k + 1 .. e
    <3>1. i > k
      BY <1>0, <2>1, <1>3 DEF n
    <3>2. i <= e
      BY <2>1, <1>8
    <3>3. QED
      BY <3>1, <3>2, <1>1, <1>8
  <2>2. ASSUME i \in k + 1 .. e
        PROVE  wave.seg[i] = c
    <3>1. wave.seg[k + 1] <= wave.seg[i] /\ wave.seg[i] <= wave.seg[e]
      BY <2>2, <1>4, <1>6, <1>8
    <3>2. wave.seg[e] = c /\ wave.seg[i] \in Nat /\ c \in Nat
      BY <1>2, <1>8, <1>5
    <3>3. QED
      BY <3>1, <3>2, <1>7
  <2>3. QED
    BY <2>1, <2>2
<1>10. e \in k + 1 .. n /\ mine = k + 1 .. e
  <2>1. e \in 1 .. n /\ wave.seg[e] = c
    BY <1>8
  <2>2. e \in k + 1 .. e
    BY <2>1, <1>9
  <2>3. e \in k + 1 .. n
    BY <2>1, <2>2, <1>1
  <2>4. \A i \in k + 1 .. e : i \in 1 .. n
    BY <2>1, <1>1
  <2>5. QED
    BY <2>3, <2>4, <1>9
<1>11. LinesFor(c) = SubSeq(wave.lines, k + 1, e)
  <2> DEFINE from == CHOOSE i \in mine : \A j \in mine : i <= j
  <2> HIDE DEF mine
  <2>1. \E i \in mine : \A j \in mine : i <= j
    <3>1. k + 1 \in mine /\ \A j \in mine : k + 1 <= j
      BY <1>10, <1>1
    <3>2. QED
      BY <1>0, <3>1
  <2>2. from \in mine /\ \A j \in mine : from <= j
    BY <2>1
  <2> HIDE DEF from
  <2>3. from = k + 1
    <3>1. from \in k + 1 .. e /\ k + 1 \in mine
      BY <2>2, <1>10, <1>1
    <3>2. from <= k + 1
      BY <3>1, <2>2
    <3>3. QED
      BY <3>1, <3>2, <1>1
  <2>4. Cardinality(mine) = e - k
    <3>1. Cardinality(k + 1 .. e) = e - (k + 1) + 1
      BY <1>10, <1>1, FS_Interval
    <3>2. QED
      BY <3>1, <1>10, <1>1
  <2>5. from + Cardinality(mine) - 1 = e
    <3>1. e \in Nat /\ k \in Nat
      BY <1>10, <1>1
    <3>2. (k + 1) + (e - k) - 1 = e
      BY <1>0, <3>1
    <3>3. QED
      BY <3>2, <2>3, <2>4
  <2>6. LinesFor(c) = SubSeq(wave.lines, from, from + Cardinality(mine) - 1)
    BY DEF LinesFor, from, n, mine
  <2>7. QED
    BY <2>3, <2>5, <2>6
<1>12. /\ IF c \in Segments(disk) THEN c = LastSegment(disk) /\ c = handle.seg /\ k = 0
          ELSE /\ c = Len(W) /\ handle.next_seq <= c
               /\ Segments(disk) # {} => disk[LastSegment(disk)].live.lines # << >>
       /\ \A t \in Segments(disk) : t <= c
  <2>0. /\ handle.seg <= handle.next_seq /\ handle.len = 2 * (handle.next_seq - handle.seg)
        /\ handle.seg <= c /\ c \in Nat /\ (handle.len = 0 => wave.seg[1] = handle.seg)
    BY <1>0, <1>2, <1>5 DEF WaveFits, n
  <2>00. Segments(disk) # {} => /\ LastSegment(disk) \in Segments(disk)
                                /\ \A t \in Segments(disk) : t <= LastSegment(disk)
                                /\ LastSegment(disk) \in Nat
                                /\ Len(disk[LastSegment(disk)].live.lines) \in Nat
                                /\ LastSegment(disk) + Len(disk[LastSegment(disk)].live.lines) = Len(W)
    BY SegmentChoice, LaysEnd, FileFacts
  <2>1. CASE c = handle.seg
    <3>1. k = 0
      <4>1. CASE k # 0
        <5>1. 1 \in 1 .. n /\ 1 <= k + 1
          BY <1>6, <1>1
        <5>2. wave.seg[1] <= c /\ handle.seg <= wave.seg[1]
          <6>1. handle.seg <= wave.seg[1]
            BY <1>0, <5>1 DEF WaveFits, n
          <6>2. QED
            BY <1>0, <6>1, <5>1, <1>4, <1>6, <1>7
        <5>3. wave.seg[1] = c
          BY <5>1, <5>2, <2>1, <1>2, <1>1
        <5>4. 1 \in k + 1 .. e
          BY <5>1, <5>3, <1>9
        <5>5. QED
          BY <5>4, <4>1, <1>1
      <4>2. QED
        BY <4>1
    <3>2. HandleAt(disk, handle, W)
      BY <1>0, <3>1
    <3>3. CASE Segments(disk) = {}
      <4>1. c = 0 /\ handle.next_seq = 0 /\ Len(W) = 0
        BY <3>2, <3>3, <2>1, LaysEnd DEF HandleAt
      <4>2. QED
        BY <4>1, <3>3
    <3>4. CASE Segments(disk) # {}
      <4>1. c = LastSegment(disk)
        BY <3>2, <3>4, <2>1 DEF HandleAt
      <4>2. QED
        BY <4>1, <3>1, <3>4, <2>1, <2>00
    <3>5. QED
      BY <3>3, <3>4
  <2>2. CASE c # handle.seg
    <3>1. c = handle.next_seq + k
      <4>1. /\ handle.next_seq <= c /\ c <= handle.next_seq + (k + 1) - 1
            /\ wave.seg[c - handle.next_seq + 1] = c
        BY <1>0, <1>6, <1>7, <2>2 DEF WaveFits, n
      <4>2. c - handle.next_seq + 1 \in 1 .. n
        <5>1. handle.next_seq \in Nat /\ c \in Nat /\ k \in Nat /\ k + 1 <= n /\ n \in Nat
          BY <2>0, <1>1, <1>6
        <5>2. c <= handle.next_seq + k
          BY <4>1, <5>1
        <5>3. c - handle.next_seq + 1 \in Nat /\ 1 <= c - handle.next_seq + 1
          BY <4>1, <5>1
        <5>4. c - handle.next_seq + 1 <= k + 1
          BY <5>1, <5>2
        <5>5. QED
          BY <5>1, <5>3, <5>4
      <4>3. c - handle.next_seq + 1 \in k + 1 .. e
        BY <4>1, <4>2, <1>9
      <4>5. k + 1 <= c - handle.next_seq + 1 /\ c <= handle.next_seq + (k + 1) - 1
        BY <4>1, <4>3
      <4>6. c \in Nat /\ k \in Nat /\ handle.next_seq \in Nat
        BY <2>0, <1>1
      <4>4. QED
        BY <4>5, <4>6
    <3>2. c = Len(W) /\ handle.next_seq <= c
      BY <1>0, <3>1, <1>1
    <3>3. CASE Segments(disk) = {}
      BY <3>2, <3>3
    <3>4. CASE Segments(disk) # {} /\ k = 0
      <4>1. LastSegment(disk) = handle.seg /\ handle.len = 2 * Len(disk[handle.seg].live.lines)
        BY <1>0, <3>4 DEF HandleAt
      <4>2. LastSegment(disk) < c
        BY <4>1, <2>0, <2>2, <1>1
      <4>3. \A t \in Segments(disk) : t < c
        BY <4>2, <2>00, <3>4, <2>0, FileFacts
      <4>4. disk[LastSegment(disk)].live.lines # << >>
        <5>1. CASE disk[LastSegment(disk)].live.lines = << >>
          <6>1. Len(disk[handle.seg].live.lines) = 0
            BY <5>1, <4>1
          <6>2. handle.len = 0
            BY <4>1, <6>1
          <6>3. wave.seg[1] = handle.seg
            BY <6>2, <2>0
          <6>4. c = handle.seg
            BY <6>3, <1>7, <3>4
          <6>5. QED
            BY <6>4, <2>2
        <5>2. QED
          BY <5>1
      <4>5. c \notin Segments(disk) /\ \A t \in Segments(disk) : t <= c
        BY <4>3, <2>0, FileFacts
      <4>6. QED
        BY <3>2, <4>5, <4>4
    <3>5. CASE Segments(disk) # {} /\ k # 0
      <4>1. LastSegment(disk) = wave.seg[k] /\ k \in 1 .. n
        BY <1>0, <3>5, <1>1, <1>6
      <4>2. wave.seg[k] # c
        <5>1. k \notin k + 1 .. e
          BY <1>1
        <5>2. QED
          BY <5>1, <4>1, <1>9
      <4>3. wave.seg[k] <= c
        BY <4>1, <1>4, <1>6, <1>7, <1>1
      <4>4. LastSegment(disk) < c
        BY <4>1, <4>2, <4>3, <1>2, <2>0
      <4>5. \A t \in Segments(disk) : t < c
        BY <4>4, <2>00, <3>5, <2>0, FileFacts
      <4>6. wave.seg[k] < handle.next_seq + k
        <5>1. CASE wave.seg[k] = handle.seg
          BY <5>1, <2>0, <1>1, <3>5
        <5>2. CASE wave.seg[k] # handle.seg
          <6>1. wave.seg[k] <= handle.next_seq + k - 1
            BY <1>0, <5>2, <4>1 DEF WaveFits, n
          <6>2. QED
            BY <6>1, <4>1, <1>1, <1>2
        <5>3. QED
          BY <5>1, <5>2
      <4>7. disk[LastSegment(disk)].live.lines # << >>
        <5>1. CASE disk[LastSegment(disk)].live.lines = << >>
          <6>1. Len(disk[LastSegment(disk)].live.lines) = 0
            BY <5>1
          <6>2. LastSegment(disk) + 0 = handle.next_seq + k /\ LastSegment(disk) \in Nat
            BY <6>1, <2>00, <3>5, <1>0
          <6>3. QED
            BY <6>2, <4>1, <4>6
        <5>2. QED
          BY <5>1
      <4>8. c \notin Segments(disk) /\ \A t \in Segments(disk) : t <= c
        BY <4>5, <2>0, FileFacts
      <4>9. QED
        BY <3>2, <4>7, <4>8
    <3>6. QED
      BY <3>3, <3>4, <3>5
  <2>3. QED
    BY <2>1, <2>2
<1>13. QED
  BY <1>7, <1>9, <1>10, <1>11, <1>12 DEF c, n


\* An append changes what one segment reads and nothing that is synced.
LEMMA VfsAppendIs ==
  ASSUME NEW d, DiskOK(d), NEW s, NEW c, NEW e, e = VfsAppend(d, s, c)
  PROVE  /\ Segments(e) = Segments(d) \cup {s}
         /\ \A t \in Segments(d) : t # s => e[t] = d[t]
         /\ e[s].live = c
         /\ s \in Segments(d) => /\ e[s].durable = d[s].durable
                                 /\ e[s].durable_entry = d[s].durable_entry
         /\ s \notin Segments(d) => ~ e[s].durable_entry
<1>1. /\ Segments(e) = Segments(d) \cup {s}
      /\ \A t \in Segments(d) : t # s => e[t] = d[t]
      /\ e[s] = IF s \in Segments(d) THEN [d[s] EXCEPT !.live = c] ELSE NewFile(c)
  BY DEF VfsAppend, Segments
<1>2. CASE s \in Segments(d)
  <2>1. d[s] \in File
    BY <1>2, FileFacts
  <2>2. QED
    BY <1>1, <1>2, <2>1 DEF File
<1>3. CASE s \notin Segments(d)
  <2>1. e[s] = [durable_entry |-> FALSE, live |-> c, durable |-> Blank]
    BY <1>1, <1>3 DEF NewFile
  <2>2. QED
    BY <1>1, <1>3, <2>1
<1>4. QED
  BY <1>2, <1>3

\* The lines of a sequence from k + 1 to x.
LEMMA SliceIs ==
  ASSUME NEW S, NEW L \in Seq(S), NEW k \in Nat, NEW x \in Nat, k <= x, x <= Len(L)
  PROVE  /\ SubSeq(L, k + 1, x) \in Seq(S) /\ Len(SubSeq(L, k + 1, x)) = x - k
         /\ \A i \in 1 .. x - k : SubSeq(L, k + 1, x)[i] = L[k + i]
<1>1. CASE x = k
  <2>1. SubSeq(L, k + 1, x) = << >> /\ x - k = 0
    BY <1>1
  <2>2. << >> \in Seq(S) /\ Len(<< >>) = 0
    OBVIOUS
  <2> QED BY <2>1, <2>2
<1>2. CASE k < x
  <2>1. k + 1 \in 1 .. Len(L) /\ x \in k + 1 .. Len(L)
    BY <1>2
  <2>2. \A i \in k + 1 .. x : L[i] \in S
    BY <2>1
  <2>3. /\ SubSeq(L, k + 1, x) \in Seq(S) /\ Len(SubSeq(L, k + 1, x)) = x - (k + 1) + 1
        /\ \A i \in 1 .. x - (k + 1) + 1 : SubSeq(L, k + 1, x)[i] = L[(k + 1) + i - 1]
    BY <2>1, <2>2, SubSeqProperties
  <2>4. x - (k + 1) + 1 = x - k /\ \A i \in Nat : (k + 1) + i - 1 = k + i
    OBVIOUS
  <2>5. \A i \in 1 .. x - k : SubSeq(L, k + 1, x)[i] = L[k + i]
    <3> TAKE i \in 1 .. x - k
    <3>1. i \in 1 .. x - (k + 1) + 1
      OBVIOUS
    <3>2. SubSeq(L, k + 1, x)[i] = L[(k + 1) + i - 1]
      BY <3>1, <2>3
    <3>3. (k + 1) + i - 1 = k + i
      OBVIOUS
    <3>4. QED
      BY <3>2, <3>3
  <2>6. QED
    BY <2>3, <2>4, <2>5
<1>3. QED
  BY <1>1, <1>2

\* The lines ls bring the history W to the x-th line of the wave.
Brings(W, ls, x) ==
    /\ ls \in Seq(Line) /\ Follows(ls, W)
    /\ Len(W \o ls) = handle.next_seq + x
    /\ \A i \in 1 .. Len(W) : (W \o ls)[i] = W[i]
    /\ \A i \in 1 .. x : (W \o ls)[handle.next_seq + i] = wave.lines[i]

\* The next lines of a wave follow what is written of it.
LEMMA WaveFollows ==
  ASSUME TypeOK, NEW W \in Seq(Line), NEW k \in 0 .. Len(wave.lines), WaveHas(W, k),
         NEW x \in k .. Len(wave.lines), NEW ls, ls = SubSeq(wave.lines, k + 1, x)
  PROVE  Brings(W, ls, x)
<1> DEFINE n == Len(wave.lines)
<1>1. /\ n \in Nat /\ wave.lines \in Seq(Line) /\ handle.next_seq \in Nat
      /\ k \in Nat /\ x \in Nat /\ k <= x /\ x <= n
  <2>1. wave.lines \in Seq(Line) /\ handle.next_seq \in Nat
    BY DEF TypeOK, Waves, Handles
  <2>2. QED
    BY <2>1
<1>2. /\ Len(W) = handle.next_seq + k /\ WaveFits(handle, wave)
      /\ \A i \in 1 .. k : W[handle.next_seq + i] = wave.lines[i]
      /\ handle.prev = TipOf(SubSeq(W, 1, handle.next_seq))
  BY DEF WaveHas
<1>3. ls \in Seq(Line) /\ Len(ls) = x - k /\ \A i \in 1 .. x - k : ls[i] = wave.lines[k + i]
  BY <1>1, SliceIs
<1> HIDE DEF n
<1>20. Len(W) = handle.next_seq + k /\ Len(W) \in Nat
  BY <1>2
<1>4. Follows(ls, W)
  <2> SUFFICES ASSUME NEW i \in 1 .. Len(ls)
               PROVE  /\ ls[i].v = 1 /\ ls[i].seq = Len(W) + i - 1
                      /\ ls[i].prev = IF i = 1 THEN TipOf(W) ELSE ls[i - 1].id
    BY DEF Follows
  <2>1. PICK y \in 1 .. n : y = k + i /\ ls[i] = wave.lines[y]
    <3>1. k + i \in 1 .. n
      BY <1>1, <1>3
    <3>2. QED
      BY <3>1, <1>3
  <2>2. /\ wave.lines[y].v = 1 /\ wave.lines[y].seq = handle.next_seq + y - 1
        /\ wave.lines[y].prev = IF y = 1 THEN handle.prev ELSE wave.lines[y - 1].id
    BY <2>1, <1>2 DEF WaveFits, n
  <2>3. ls[i].v = 1 /\ ls[i].seq = Len(W) + i - 1
    <3>1. handle.next_seq + y - 1 = Len(W) + i - 1
      BY <2>1, <1>1, <1>20
    <3>2. QED
      BY <2>1, <2>2, <3>1
  <2>4. CASE i # 1
    <3>1. i - 1 \in 1 .. x - k /\ y # 1 /\ y - 1 = k + (i - 1)
      BY <2>1, <2>4, <1>1, <1>3
    <3>2. ls[i - 1] = wave.lines[y - 1]
      BY <3>1, <1>3
    <3>3. QED
      BY <2>1, <2>2, <2>3, <2>4, <3>1, <3>2
  <2>5. CASE i = 1 /\ k = 0
    <3>1. y = 1 /\ SubSeq(W, 1, handle.next_seq) = W
      BY <2>1, <2>5, <1>1, <1>2, WholePrefix
    <3>2. QED
      BY <2>1, <2>2, <2>3, <2>5, <3>1, <1>2
  <2>6. CASE i = 1 /\ k # 0
    <3>1. y # 1 /\ y - 1 = k /\ k \in 1 .. k
      <4>1. y \in 1 .. n /\ y = k + 1 /\ k # 0
        BY <2>1, <2>6
      <4>2. n \in Nat /\ k \in Nat
        BY <1>1
      <4> QED BY ONLY <4>1, <4>2
    <3>2. W[Len(W)] = wave.lines[k] /\ Len(W) # 0
      <4>1. W[handle.next_seq + k] = wave.lines[k]
        BY <3>1, <1>2
      <4>2. Len(W) # 0
        BY <2>6, <1>1, <1>20
      <4>3. QED
        BY <4>1, <4>2, <1>20
    <3>3. TipOf(W) = wave.lines[k].id
      <4>1. W # << >>
        BY <3>2
      <4>2. QED
        BY <3>2, <4>1 DEF TipOf
    <3>4. QED
      BY <2>1, <2>2, <2>3, <2>6, <3>1, <3>3
  <2>7. QED
    BY <2>4, <2>5, <2>6
<1> DEFINE V == W \o ls
<1>10. /\ Len(V) = Len(W) + Len(ls)
       /\ \A i \in 1 .. Len(W) : V[i] = W[i]
       /\ \A i \in 1 .. Len(ls) : V[Len(W) + i] = ls[i]
  <2>1. W \in Seq(Line) /\ ls \in Seq(Line)
    BY <1>2, <1>3
  <2>2. QED
    BY <2>1, JoinIs
<1> HIDE DEF V
<1>11. Len(V) = handle.next_seq + x
  <2>1. Len(V) = (handle.next_seq + k) + (x - k)
    BY <1>3, <1>10, <1>20
  <2>2. QED
    BY <2>1, <1>1
<1>12. ASSUME NEW i \in 1 .. x
       PROVE  V[handle.next_seq + i] = wave.lines[i]
  <2>1. CASE i <= k
    <3>1. i \in 1 .. k /\ handle.next_seq + i \in 1 .. Len(W)
      BY <2>1, <1>1, <1>2
    <3>2. QED
      BY <3>1, <1>2, <1>10
  <2>2. CASE ~ (i <= k)
    <3> DEFINE y == i - k
    <3>1. y \in 1 .. x - k /\ k + y = i /\ handle.next_seq + i = Len(W) + y
      BY <2>2, <1>1, <1>2
    <3> HIDE DEF y
    <3>2. V[Len(W) + y] = ls[y] /\ ls[y] = wave.lines[k + y]
      BY <3>1, <1>3, <1>10
    <3>3. QED
      BY <3>1, <3>2
  <2>3. QED
    BY <2>1, <2>2
<1>13. QED
  BY <1>3, <1>4, <1>10, <1>11, <1>12 DEF V, Brings

\* Segment s is where the line behind the history goes.
NextPlace(s, W) ==
    IF s \in Segments(disk) THEN s = LastSegment(disk)
    ELSE /\ s = Len(W)
         /\ Segments(disk) # {} => disk[LastSegment(disk)].live.lines # << >>

\* Some of the lines of the next write reached the segment, in whole or torn.
LEMMA Written ==
  ASSUME DiskOK(disk), NEW s \in Nat, NEW W, Lays(disk, W), NEW ls \in Seq(Line), Follows(ls, W),
         \A y \in Segments(disk) : ~ disk[y].live.torn,
         NextPlace(s, W), NEW c, c.lines = Read(disk, s).lines \o ls,
         NEW d, d = VfsAppend(disk, s, c)
  PROVE  Lays(d, W \o ls)
<1>1. /\ Segments(d) = Segments(disk) \cup {s}
      /\ \A y \in Segments(disk) : y # s => d[y] = disk[y]
      /\ d[s].live = c
  BY VfsAppendIs
<1>2. d[s].live.lines = Read(disk, s).lines \o ls
  BY <1>1
<1>3. QED
  BY <1>1, <1>2, LaysMore DEF NextPlace

\* Two sequences of as many elements, place by place the same.
LEMMA SameIs ==
  ASSUME NEW S, NEW V \in Seq(S), NEW W \in Seq(S), Len(V) = Len(W),
         \A i \in 1 .. Len(W) : V[i] = W[i]
  PROVE  V = W
  OBVIOUS

\* The handle an acknowledged wave leaves stands behind it.
LEMMA AdvancedAt ==
  ASSUME TypeOK, DiskOK(disk), NEW W, Lays(disk, W), NEW n, n = Len(wave.lines),
         WaveHas(W, n), NEW d, Segments(d) = Segments(disk),
         \A s \in Segments(disk) : d[s].live = disk[s].live
  PROVE  HandleAt(d, Advanced, W) /\ Advanced.next_seq = Len(W)
<1> DEFINE z == wave.seg[n]
           mine == {i \in 1 .. n : wave.seg[i] = z}
           m == Cardinality(mine)
<1>1. /\ n \in Nat /\ wave.lines \in Seq(Line) /\ wave.seg \in Seq(Nat)
      /\ handle.seg \in Nat /\ handle.len \in Nat /\ handle.next_seq \in Nat
      /\ W \in Seq(Line)
  BY DEF TypeOK, Waves, Handles, Lays
<1>2. /\ WaveFits(handle, wave) /\ Len(W) = handle.next_seq + n
      /\ \A i \in 1 .. n : W[handle.next_seq + i] = wave.lines[i]
      /\ \A s \in Segments(disk) : ~ disk[s].live.torn
  BY DEF WaveHas
<1>3. n # 0 /\ n \in 1 .. n /\ Len(wave.seg) = n
  BY <1>1, <1>2 DEF WaveFits
<1>4. z \in Segments(disk) /\ z = LastSegment(disk)
  BY <1>3 DEF WaveHas
<1>5. z \in Nat /\ Len(disk[z].live.lines) \in Nat /\ z + Len(disk[z].live.lines) = Len(W)
  BY <1>4, FileFacts, LaysEnd
<1>6. Advanced = [seg |-> z, len |-> 2 * m + IF z = handle.seg THEN handle.len ELSE 0,
                  next_seq |-> handle.next_seq + n, prev |-> wave.lines[n].id]
  BY DEF Advanced
<1>7. \A i \in 1 .. n : wave.seg[i] \in Nat /\ handle.seg <= wave.seg[i] /\ wave.seg[i] <= z
  <2>1. \A i \in 1 .. n : wave.seg[i] \in Nat /\ handle.seg <= wave.seg[i]
    <3> HIDE DEF z, mine, m
    <3>1. \A i \in 1 .. n : wave.seg[i] \in Nat
      BY <1>1, <1>3
    <3>2. \A i \in 1 .. n : handle.seg <= wave.seg[i]
      BY <1>2 DEF WaveFits
    <3>3. QED
      BY <3>1, <3>2
  <2>2. \A i, j \in 1 .. n : i <= j => wave.seg[i] <= wave.seg[j]
    BY <1>2 DEF WaveFits
  <2>3. \A i \in 1 .. n : i <= n
    BY <1>1
  <2>4. QED
    BY <2>1, <2>2, <2>3, <1>3
<1>8. handle.seg <= handle.next_seq /\ handle.len = 2 * (handle.next_seq - handle.seg)
  BY <1>2 DEF WaveFits
<1> HIDE DEF z, m
<1>9. m \in Nat /\ 2 * m + (IF z = handle.seg THEN handle.len ELSE 0) = 2 * (Len(W) - z)
  <2>1. CASE z = handle.seg
    <3>1. \A i \in 1 .. n : wave.seg[i] = z
      BY <1>1, <1>5, <1>7, <2>1
    <3>2. mine = 1 .. n
      BY <3>1
    <3>3. m = n
      <4>1. Cardinality(1 .. n) = IF 1 > n THEN 0 ELSE n - 1 + 1
        <5>1. 1 \in Int /\ n \in Int
          BY <1>1
        <5>2. QED
          BY <5>1, FS_Interval
      <4>2. m = Cardinality(1 .. n)
        BY <3>2 DEF m
      <4>3. QED
        BY <4>1, <4>2, <1>1, <1>3
    <3>4. m \in Nat /\ 2 * n + 2 * (handle.next_seq - handle.seg) = 2 * (handle.next_seq + n - handle.seg)
      BY <3>3, <1>1
    <3>6. Len(W) = handle.next_seq + n
      BY <1>2
    <3>7. (IF z = handle.seg THEN handle.len ELSE 0) = 2 * (handle.next_seq - handle.seg)
      BY <2>1, <1>8
    <3>8. 2 * m + (IF z = handle.seg THEN handle.len ELSE 0)
             = 2 * (handle.next_seq + n - handle.seg)
      <4> HIDE DEF mine
      <4> QED BY <3>3, <3>4, <3>7
    <3>9. 2 * (handle.next_seq + n - handle.seg) = 2 * (Len(W) - z)
      <4>1. handle.next_seq \in Nat /\ n \in Nat /\ z \in Nat /\ Len(W) \in Nat
        BY <1>1, <1>5
      <4>2. QED
        BY ONLY <4>1, <3>6, <2>1
    <3>10. m \in Nat
      BY <3>4
    <3>5. QED
      <4> HIDE DEF mine
      <4> QED BY <3>10, <3>8, <3>9
  <2>2. CASE z # handle.seg
    <3> DEFINE f == z - handle.next_seq + 1
    <3>1. /\ handle.next_seq <= z /\ z <= handle.next_seq + n - 1 /\ wave.seg[f] = z
          /\ \A j \in 1 .. z - handle.next_seq : wave.seg[j] < z
      BY <2>2, <1>2, <1>3 DEF WaveFits, z
    <3>2. f \in 1 .. n /\ f \in Nat /\ z - handle.next_seq = f - 1
      <4>1. handle.next_seq <= z /\ z <= handle.next_seq + n - 1
        BY <3>1
      <4>2. handle.next_seq \in Nat /\ n \in Nat /\ z \in Nat
        BY <1>1, <1>5
      <4>3. QED
        BY <4>1, <4>2
    <3>3. \A j \in 1 .. f - 1 : wave.seg[j] < z
      BY <3>1, <3>2
    <3> HIDE DEF f
    <3>4. \A i \in 1 .. n : wave.seg[i] = z <=> i \in f .. n
      <4> TAKE i \in 1 .. n
      <4>1. CASE i < f
        <5>1. i \in 1 .. f - 1
          BY <4>1, <3>2
        <5>2. wave.seg[i] < z
          BY <5>1, <3>3
        <5>3. QED
          BY <5>2, <4>1, <1>5, <1>7, <3>2
      <4>2. CASE ~ (i < f)
        <5>1. wave.seg[f] <= wave.seg[i]
          <6>1. f <= i /\ f \in 1 .. n
            BY <4>2, <3>2
          <6>2. \A k, j \in 1 .. n : k <= j => wave.seg[k] <= wave.seg[j]
            BY <1>2 DEF WaveFits
          <6>3. QED
            BY <6>1, <6>2
        <5>2. wave.seg[i] = z
          BY <5>1, <3>1, <1>5, <1>7 DEF f
        <5>3. i \in f .. n
          BY <4>2, <3>2
        <5>4. QED
          BY <5>2, <5>3
      <4>3. QED
        BY <4>1, <4>2
    <3>5. mine = f .. n
      <4>1. \A i \in f .. n : i \in 1 .. n
        BY <3>2, <1>1
      <4>2. QED
        BY <3>4, <4>1
    <3>6. m = n - f + 1
      <4>1. Cardinality(f .. n) = IF f > n THEN 0 ELSE n - f + 1
        <5>1. f \in Int /\ n \in Int
          BY <3>2, <1>1
        <5>2. QED
          BY <5>1, FS_Interval
      <4>2. m = Cardinality(f .. n)
        BY <3>5 DEF m
      <4>3. QED
        BY <4>1, <4>2, <3>2, <1>1
    <3>7. m \in Nat /\ m = handle.next_seq + n - z
      <4>1. z \in Nat /\ n \in Nat /\ handle.next_seq \in Nat
        BY <1>1, <1>5
      <4>2. z <= handle.next_seq + n - 1
        BY <3>1
      <4>3. m = n - (z - handle.next_seq + 1) + 1
        BY <3>6 DEF f
      <4>4. QED
        BY ONLY <4>1, <4>2, <4>3
    <3>8. m = Len(W) - z
      <4>1. Len(W) = handle.next_seq + n
        BY <1>2
      <4>2. handle.next_seq \in Nat /\ n \in Nat /\ z \in Nat /\ Len(W) \in Nat
        BY <1>1, <1>5
      <4>3. handle.next_seq + n - z = Len(W) - z
        <5> HIDE DEF mine
        <5> QED BY <4>1, <4>2
      <4>4. QED
        <5> HIDE DEF mine
        <5> QED BY <4>3, <3>7
    <3>9. \A x \in Nat : 2 * x + 0 = 2 * x
      OBVIOUS
    <3>10. 2 * m + 0 = 2 * m
      <4> HIDE DEF mine
      <4> QED BY <3>7, <3>9
    <3>11. (IF z = handle.seg THEN handle.len ELSE 0) = 0
      BY <2>2
    <3>12. QED
      <4> HIDE DEF mine
      <4> QED BY <3>7, <3>8, <3>10, <3>11
  <2>3. QED
    BY <2>1, <2>2
<1>10. wave.lines[n].id = TipOf(W)
  <2>1. W[Len(W)] = wave.lines[n] /\ Len(W) # 0
    <3>1. W[handle.next_seq + n] = wave.lines[n]
      BY <1>2, <1>3
    <3>2. handle.next_seq + n # 0
      BY <1>1, <1>3
    <3>3. QED
      BY <3>1, <3>2, <1>2
  <2>2. W # << >>
    BY <2>1
  <2>3. QED
    BY <2>1, <2>2 DEF TipOf
<1>11. LastSegment(d) = LastSegment(disk)
  BY DEF LastSegment
<1>12. /\ Advanced.seg = z /\ Advanced.next_seq = Len(W) /\ Advanced.prev = TipOf(W)
       /\ Advanced.len = 2 * (Len(W) - z)
  BY <1>2, <1>6, <1>9, <1>10
<1>13. Len(d[z].live.lines) = Len(W) - z /\ ~ d[z].live.torn /\ Segments(d) # {}
  <2>1. Len(disk[z].live.lines) = Len(W) - z
    BY <1>5
  <2>2. QED
    BY <2>1, <1>2, <1>4
<1>14. QED
  BY <1>4, <1>11, <1>12, <1>13 DEF HandleAt

\* A wave that is synced is the end of the history.
LEMMA AcknowledgeStands ==
  ASSUME IndInv, IndInv', NEW W, Lays(disk, W), Precedes(log, W), WaveHas(W, Len(wave.lines)),
         Segments(disk') = Segments(disk),
         \A s \in Segments(disk) : disk'[s].live = disk[s].live,
         Acknowledge(disk')
  PROVE  StandsOn(W)' /\ Grew
<1>1. TypeOK /\ DiskOK(disk) /\ DiskOK(disk')
  BY DEF IndInv
<1>2. HandleAt(disk', Advanced, W) /\ Advanced.next_seq = Len(W)
  BY <1>1, AdvancedAt
<1>3. Lays(disk', W)
  <2>1. \A s \in Segments(disk) : /\ disk'[s].live.lines = disk[s].live.lines
                                  /\ disk'[s].live.torn => disk[s].live.torn
    OBVIOUS
  <2>2. QED
    BY <2>1, LaysSame
<1>4. handle' = Advanced /\ pc' = "idle"
  BY DEF Acknowledge
<1>5. W \in Seq(Line) /\ Chained(W)
  BY DEF Lays
<1>6. log' = W
  <2>1. CASE wave.opening
    <3>1. log' = RawLines(disk', Len(W))
      BY <2>1, <1>2, <1>4 DEF Acknowledge
    <3>2. QED
      BY <3>1, <1>1, <1>3, LaysRead
  <2>2. CASE ~ wave.opening
    <3> DEFINE V == log \o wave.lines
               S == Line \cup {Garbage}
    <3>1. log \in Seq(S) /\ wave.lines \in Seq(S) /\ W \in Seq(S) /\ handle.next_seq \in Nat
      BY <1>1, <1>5 DEF TypeOK, Waves, Handles
    <3>2. Len(log) = handle.next_seq /\ Len(W) = handle.next_seq + Len(wave.lines)
      BY <2>2 DEF WaveHas
    <3>3. /\ V \in Seq(S) /\ Len(V) = Len(log) + Len(wave.lines)
          /\ \A i \in 1 .. Len(log) : V[i] = log[i]
          /\ \A i \in 1 .. Len(wave.lines) : V[Len(log) + i] = wave.lines[i]
      BY <3>1, JoinIs
    <3> HIDE DEF V, S
    <3>4. \A i \in 1 .. Len(log) : V[i] = W[i]
      BY <3>3 DEF Precedes
    <3>5. \A i \in 1 .. Len(wave.lines) : V[handle.next_seq + i] = W[handle.next_seq + i]
      BY <3>2, <3>3 DEF WaveHas
    <3>6. Len(V) = Len(W) /\ Len(wave.lines) \in Nat
      BY <3>1, <3>2, <3>3
    <3>7. ASSUME NEW i \in 1 .. Len(W)
          PROVE  V[i] = W[i]
      <4>1. CASE i <= handle.next_seq
        <5>1. i \in 1 .. Len(log)
          BY <4>1, <3>2, <3>1
        <5>2. QED
          BY <5>1, <3>4
      <4>2. CASE ~ (i <= handle.next_seq)
        <5>1. PICK j \in 1 .. Len(wave.lines) : i = handle.next_seq + j
          <6>1. i - handle.next_seq \in 1 .. Len(wave.lines)
            BY <4>2, <3>1, <3>2, <3>6
          <6>2. i = handle.next_seq + (i - handle.next_seq)
            BY <3>1
          <6>3. QED
            BY <6>1, <6>2
        <5>2. QED
          BY <5>1, <3>5
      <4>3. QED
        BY <4>1, <4>2
    <3>8. V = W
      BY <3>1, <3>3, <3>6, <3>7, SameIs
    <3>9. QED
      BY <3>8, <2>2 DEF Acknowledge, V
  <2>3. QED
    BY <2>1, <2>2
<1>7. Precedes(W, W)
  BY <1>5 DEF Precedes
<1>8. StandsOn(W)'
  BY <1>2, <1>3, <1>4, <1>6, <1>7 DEF StandsOn, Appending
<1>9. QED
  BY <1>5, <1>6, <1>8 DEF Grew

-----------------------------------------------------------------------------
(* What the operations of the filesystem leave of each file.               *)

\* A truncation changes what one segment reads and nothing that is synced.
LEMMA TruncateIs ==
  ASSUME NEW d, DiskOK(d), NEW s \in Segments(d), NEW k, NEW e, e = VfsTruncate(d, s, k)
  PROVE  /\ Segments(e) = Segments(d)
         /\ \A t \in Segments(d) : t # s => e[t] = d[t]
         /\ e[s].live = Cut(d[s].live, k) /\ e[s].durable = d[s].durable
         /\ e[s].durable_entry = d[s].durable_entry
<1>1. d[s] \in File
  BY FileFacts
<1>2. QED
  BY <1>1 DEF VfsTruncate, Segments, File

\* A segment's sync changes nothing that is read, and no entry.
LEMMA SyncDataIs ==
  ASSUME NEW d, DiskOK(d), NEW s \in Segments(d), NEW e, e = VfsSyncData(d, s)
  PROVE  /\ Segments(e) = Segments(d)
         /\ \A t \in Segments(d) : /\ e[t].live = d[t].live
                                   /\ e[t].durable_entry = d[t].durable_entry
                                   /\ t # s => e[t].durable = d[t].durable
         /\ e[s].durable = d[s].live
<1>1. d[s] \in File
  BY FileFacts
<1>2. Segments(e) = Segments(d) /\ \A t \in Segments(d) : t # s => e[t] = d[t]
  BY DEF VfsSyncData, Segments
<1>3. e[s] = [d[s] EXCEPT !.durable = d[s].live]
  BY DEF VfsSyncData, Segments
<1>4. e[s].live = d[s].live /\ e[s].durable_entry = d[s].durable_entry /\ e[s].durable = d[s].live
  BY <1>1, <1>3 DEF File
<1>5. QED
  BY <1>2, <1>4

\* The directory's sync gives every segment its entry.
LEMMA SyncDirIs ==
  ASSUME NEW d, DiskOK(d), NEW e, e = VfsSyncDir(d)
  PROVE  /\ Segments(e) = Segments(d)
         /\ \A t \in Segments(d) : /\ e[t].live = d[t].live /\ e[t].durable = d[t].durable
                                   /\ e[t].durable_entry
<1>1. Segments(e) = Segments(d) /\ \A t \in Segments(d) : e[t] = [d[t] EXCEPT !.durable_entry = TRUE]
  BY DEF VfsSyncDir, Segments
<1>2. \A t \in Segments(d) : d[t] \in File
  BY FileFacts
<1>3. QED
  BY <1>1, <1>2 DEF File

\* A removal leaves the other segments as they are.
LEMMA RemoveIs ==
  ASSUME NEW d, NEW s, NEW e, e = VfsRemove(d, s)
  PROVE  Segments(e) = Segments(d) \ {s} /\ \A t \in Segments(e) : e[t] = d[t]
  BY DEF VfsRemove, Segments

\* The same segments have the same last and the same one before it.
LEMMA SameSegments ==
  ASSUME NEW d, NEW e, Segments(e) = Segments(d)
  PROVE  LastSegment(e) = LastSegment(d) /\ Priors(e) = Priors(d) /\ Prior(e) = Prior(d)
<1>1. LastSegment(e) = LastSegment(d)
  BY DEF LastSegment
<1>2. Priors(e) = Priors(d)
  BY <1>1 DEF Priors
<1>3. QED
  BY <1>1, <1>2 DEF Prior

\* A handle stands where it stood when no file reads otherwise.
LEMMA HandleSame ==
  ASSUME NEW d, DiskOK(d), NEW e, NEW h, NEW W, HandleAt(d, h, W), Segments(e) = Segments(d),
         \A s \in Segments(d) : e[s].live = d[s].live
  PROVE  HandleAt(e, h, W)
<1>1. LastSegment(e) = LastSegment(d)
  BY SameSegments
<1>2. CASE Segments(d) = {}
  BY <1>2 DEF HandleAt
<1>3. CASE Segments(d) # {}
  <2>1. h.seg \in Segments(d)
    BY <1>3, SegmentChoice DEF HandleAt
  <2>2. e[h.seg].live = d[h.seg].live
    BY <2>1
  <2>3. QED
    BY <1>1, <1>3, <2>2 DEF HandleAt
<1>4. QED
  BY <1>2, <1>3

\* Segments that read the same hold the same history.
LEMMA LaysAlike ==
  ASSUME NEW d, NEW e, NEW W, Lays(d, W), Segments(e) = Segments(d),
         \A s \in Segments(d) : e[s].live = d[s].live
  PROVE  Lays(e, W)
<1>1. \A s \in Segments(d) : /\ e[s].live.lines = d[s].live.lines
                             /\ e[s].live.torn => d[s].live.torn
  OBVIOUS
<1>2. QED
  BY <1>1, LaysSame

\* Nothing is laid on an empty disk.
LEMMA LaysNothing ==
  ASSUME NEW d, Segments(d) = {}
  PROVE  Lays(d, << >>)
<1>1. << >> \in Seq(Line) /\ Len(<< >>) = 0
  OBVIOUS
<1>2. Chained(<< >>)
  BY <1>1 DEF Chained
<1>3. QED
  BY <1>1, <1>2 DEF Lays

-----------------------------------------------------------------------------
(* The history through open and its repair.                                *)

\* open finds the history it was left, and cuts only what is torn.
LEMMA OpenStands ==
  ASSUME IndInv, IndInv', NEW W, StandsOn(W), Open
  PROVE  StandsOn(W)' /\ (log' = log \/ Grew)
<1>1. /\ DiskOK(disk) /\ Lays(disk, W) /\ Precedes(log, W) /\ disk' = disk /\ pc = "off"
      /\ W \in Seq(Line) /\ Chained(W)
  BY DEF IndInv, StandsOn, Open, Lays
<1>2. Precedes(W, W)
  BY <1>1 DEF Precedes
<1>3. ASSUME pc' = "idle", log' = W, HandleAt(disk, handle', W)
      PROVE  StandsOn(W)' /\ Grew
  <2>1. StandsOn(W)'
    BY <1>1, <1>2, <1>3 DEF StandsOn, Appending
  <2>2. QED
    BY <2>1, <1>1, <1>3 DEF Grew
<1>4. CASE Segments(disk) = {} /\ handle' = NoHandle /\ Opened(disk, NoHandle)
  <2>1. W = << >>
    BY <1>1, <1>4, LaysEnd
  <2>2. pc' = "idle" /\ log' = << >>
    BY <1>4, ReadNothing DEF Opened, NoHandle
  <2>3. HandleAt(disk, NoHandle, W)
    BY <1>4, <2>1 DEF HandleAt, NoHandle, TipOf
  <2>4. QED
    BY <1>3, <1>4, <2>1, <2>2, <2>3
<1>5. CASE Segments(disk) # {} /\ open_refuses(disk)
  BY <1>1, <1>5, OpenIs
<1>6. CASE /\ Segments(disk) # {} /\ handle' = Recovered(disk) /\ keep' = 2 * ValidLines(disk)
           /\ IF TornTail(disk) THEN pc' = "truncate" /\ UNCHANGED log ELSE Opened(disk, handle')
  <2> DEFINE z == LastSegment(disk)
             n == Len(disk[z].live.lines)
  <2>1. /\ ValidLines(disk) = n /\ (TornTail(disk) <=> disk[z].live.torn)
    BY <1>1, <1>6, OpenIs
  <2>2. /\ handle'.next_seq = Len(W) /\ handle'.prev = TipOf(W)
        /\ ~ (disk[z].live.torn /\ n = 0) => handle'.seg = z /\ handle'.len = 2 * n
        /\ (disk[z].live.torn /\ n = 0) =>
               IF Priors(disk) = {} THEN handle'.seg = 0 /\ handle'.len = 0
               ELSE handle'.seg = Prior(disk) /\ handle'.len = Size(disk[Prior(disk)].live)
    BY <1>1, <1>6, RecoveredIs
  <2>3. CASE disk[z].live.torn
    <3>1. pc' = "truncate" /\ log' = log /\ keep' = 2 * n
      BY <1>6, <2>1, <2>3
    <3>2. n \in Nat /\ (keep' = 0 <=> n = 0)
      <4>1. n \in Nat
        BY <1>1, <1>6, SegmentChoice, FileFacts
      <4> HIDE DEF n
      <4>2. QED
        BY <4>1, <3>1
    <3>3. RepairAt(W)'
      <4> HIDE DEF n
      <4>1. /\ keep' # 0 => handle'.seg = z /\ handle'.len = keep'
            /\ keep' = 0 => IF Priors(disk) = {} THEN handle'.seg = 0 /\ handle'.len = 0
                            ELSE handle'.seg = Prior(disk) /\ handle'.len = Size(disk[Prior(disk)].live)
        BY <2>2, <2>3, <3>1, <3>2
      <4>2. QED
        BY <1>1, <1>6, <2>2, <3>1, <4>1 DEF RepairAt, n
    <3>4. StandsOn(W)'
      BY <1>1, <3>1, <3>3 DEF StandsOn, Appending
    <3>5. QED
      BY <3>1, <3>4
  <2>4. CASE ~ disk[z].live.torn
    <3>1. pc' = "idle" /\ log' = RawLines(disk, Len(W))
      BY <1>6, <2>1, <2>2, <2>4 DEF Opened
    <3>2. log' = W
      BY <1>1, <3>1, LaysRead
    <3>3. HandleAt(disk, handle', W)
      BY <1>6, <2>2, <2>4 DEF HandleAt
    <3>4. QED
      BY <1>3, <3>1, <3>2, <3>3
  <2>5. QED
    BY <2>3, <2>4
<1>7. QED
  BY <1>4, <1>5, <1>6 DEF Open

\* The repair's truncation takes no line of the history.
LEMMA TruncateStands ==
  ASSUME IndInv, IndInv', NEW W, StandsOn(W), Truncate
  PROVE  StandsOn(W)' /\ log' = log
<1> DEFINE z == LastSegment(disk)
           c == disk[z].live
<1>1. /\ DiskOK(disk) /\ Lays(disk, W) /\ Precedes(log, W) /\ RepairAt(W)
      /\ disk' = VfsTruncate(disk, z, keep) /\ pc' = "sync_cut" /\ pc = "truncate"
      /\ log' = log /\ handle' = handle /\ keep' = keep
  BY DEF IndInv, StandsOn, Truncate
<1>2. Segments(disk) # {} /\ keep = 2 * Len(c.lines)
  BY <1>1 DEF RepairAt
<1>3. z \in Segments(disk) /\ c \in Content /\ c.lines \in Seq(Line \cup {Garbage}) /\ Len(c.lines) \in Nat
  BY <1>1, <1>2, SegmentChoice, FileFacts
<1>4. /\ Segments(disk') = Segments(disk) /\ disk'[z].live = Cut(c, keep)
      /\ \A t \in Segments(disk) : t # z => disk'[t] = disk[t]
  BY <1>1, <1>3, TruncateIs
<1> HIDE DEF c, z
<1>5. Cut(c, keep).lines = c.lines /\ ~ Cut(c, keep).torn
  <2>1. keep \div 2 = Len(c.lines) /\ keep % 2 = 0
    <3>1. \A n \in Nat : (2 * n) \div 2 = n /\ (2 * n) % 2 = 0
      OBVIOUS
    <3>2. QED
      BY <3>1, <1>2, <1>3
  <2>2. SubSeq(c.lines, 1, Len(c.lines)) = c.lines
    BY <1>3, WholePrefix
  <2>3. Cut(c, keep) = [lines |-> SubSeq(c.lines, 1, keep \div 2), torn |-> keep % 2 = 1]
    BY DEF Cut
  <2>4. ~ (keep % 2 = 1)
    BY <2>1
  <2> HIDE DEF c
  <2>6. Cut(c, keep).lines = SubSeq(c.lines, 1, keep \div 2)
    BY Zenon DEF Cut
  <2>7. Cut(c, keep).torn = (keep % 2 = 1)
    BY <2>3
  <2>8. ~ Cut(c, keep).torn
    BY <2>4, <2>7, Zenon
  <2>5. QED
    BY <2>1, <2>2, <2>6, <2>8
<1>6. Lays(disk', W)
  <2>1. \A s \in Segments(disk) : /\ disk'[s].live.lines = disk[s].live.lines
                                  /\ disk'[s].live.torn => disk[s].live.torn
    BY <1>4, <1>5 DEF c
  <2>2. QED
    BY <2>1, <1>1, <1>4, LaysSame
<1>7. LastSegment(disk') = z /\ Priors(disk') = Priors(disk) /\ Prior(disk') = Prior(disk)
  BY <1>4, SameSegments DEF z
<1>8. Priors(disk) # {} => disk'[Prior(disk)] = disk[Prior(disk)]
  BY <1>1, <1>2, <1>4, SegmentChoice DEF Priors, z
<1>9. RepairAt(W)'
  <2>1. disk'[z].live.lines = c.lines /\ ~ disk'[z].live.torn
    BY <1>4, <1>5
  <2>2. QED
    BY <1>1, <1>4, <1>7, <1>8, <2>1 DEF RepairAt, c, z
<1>10. QED
  BY <1>1, <1>6, <1>9 DEF StandsOn, Appending

\* The cut's sync, and what open does behind it.
LEMMA SyncCutStands ==
  ASSUME IndInv, IndInv', NEW W, StandsOn(W), SyncCut
  PROVE  StandsOn(W)' /\ (log' = log \/ Grew)
<1> DEFINE z == LastSegment(disk)
<1>1. /\ DiskOK(disk) /\ Lays(disk, W) /\ Precedes(log, W) /\ RepairAt(W)
      /\ disk' = VfsSyncData(disk, z) /\ pc = "sync_cut"
      /\ handle' = handle /\ keep' = keep
  BY DEF IndInv, StandsOn, SyncCut
<1>2. Segments(disk) # {} /\ z \in Segments(disk)
  BY <1>1, SegmentChoice DEF RepairAt
<1>3. Segments(disk') = Segments(disk) /\ \A t \in Segments(disk) : disk'[t].live = disk[t].live
  BY <1>1, <1>2, SyncDataIs
<1>4. Lays(disk', W)
  BY <1>1, <1>3, LaysAlike
<1>5. LastSegment(disk') = z /\ Priors(disk') = Priors(disk) /\ Prior(disk') = Prior(disk)
  BY <1>3, SameSegments
<1>6. CASE keep = 0
  <2>1. pc' = "remove" /\ log' = log
    BY <1>6 DEF SyncCut
  <2>2. Priors(disk) # {} => disk'[Prior(disk)].live = disk[Prior(disk)].live
    BY <1>1, <1>2, <1>3, SegmentChoice DEF Priors
  <2>3. RepairAt(W)'
    BY <1>1, <1>2, <1>3, <1>5, <1>6, <2>1, <2>2 DEF RepairAt
  <2>4. QED
    BY <1>1, <1>4, <2>1, <2>3 DEF StandsOn, Appending
<1>7. CASE keep # 0
  <2>1. AfterRepair(disk')
    BY <1>7 DEF SyncCut
  <2>2. HandleAt(disk, handle, W)
    BY <1>1, <1>2, <1>7 DEF RepairAt, HandleAt
  <2>3. HandleAt(disk', handle, W)
    BY <1>1, <1>3, <2>2, HandleSame
  <2>4. QED
    BY <1>1, <1>4, <2>1, <2>3, AfterRepairStands
<1>8. QED
  BY <1>6, <1>7

\* The segment that repair removes has no line of the history.
LEMMA RemoveStands ==
  ASSUME IndInv, IndInv', NEW W, StandsOn(W), Remove
  PROVE  StandsOn(W)' /\ log' = log
<1> DEFINE z == LastSegment(disk)
           m == Prior(disk)
<1>1. /\ DiskOK(disk) /\ Lays(disk, W) /\ Precedes(log, W) /\ RepairAt(W)
      /\ disk' = VfsRemove(disk, z) /\ pc = "remove" /\ pc' = "sync_removal"
      /\ handle' = handle /\ log' = log
  BY DEF IndInv, StandsOn, Remove
<1>2. Segments(disk) # {} /\ z \in Segments(disk) /\ keep = 0 /\ keep = 2 * Len(disk[z].live.lines)
  BY <1>1, SegmentChoice DEF RepairAt
<1>3. Segments(disk') = Priors(disk) /\ \A t \in Priors(disk) : disk'[t] = disk[t]
  BY <1>1, RemoveIs DEF Priors
<1>4. z \in Nat /\ z = Len(W) /\ W \in Seq(Line)
  <2>1. z + Len(disk[z].live.lines) = Len(W) /\ z \in Nat /\ Len(disk[z].live.lines) \in Nat
    BY <1>1, <1>2, LaysEnd, FileFacts
  <2>2. Len(disk[z].live.lines) = 0
    BY <2>1, <1>2
  <2>3. W \in Seq(Line)
    BY <1>1 DEF Lays
  <2>4. QED
    BY <2>1, <2>2, <2>3
<1>5. handle.next_seq = Len(W) /\ handle.prev = TipOf(W)
  BY <1>1 DEF RepairAt
<1>6. CASE Priors(disk) = {}
  <2>1. z = 0
    BY <1>1, <1>2, <1>6, BoundaryIs
  <2>2. W = << >>
    BY <2>1, <1>4
  <2>3. Lays(disk', W)
    BY <1>3, <1>6, <2>2, LaysNothing
  <2>4. HandleAt(disk', handle, W)
    BY <1>1, <1>2, <1>3, <1>5, <1>6 DEF RepairAt, HandleAt
  <2>5. QED
    BY <1>1, <2>3, <2>4 DEF StandsOn, Appending
<1>7. CASE Priors(disk) # {}
  <2>1. m \in Segments(disk) /\ m < z /\ m + Len(disk[m].live.lines) = z
    BY <1>1, <1>2, <1>7, BoundaryIs
  <2>2. m \in Priors(disk) /\ \A t \in Priors(disk) : t <= m
    <3>1. \E x \in Priors(disk) : \A t \in Priors(disk) : t <= x
      <4>1. Priors(disk) \in SUBSET Nat /\ \A t \in Priors(disk) : t <= z
        BY <1>1, <1>2, SegmentChoice DEF DiskOK, Priors
      <4>2. QED
        BY <4>1, <1>4, <1>7, LargestExists
    <3>2. QED
      BY <3>1 DEF Prior
  <2>3. Len(disk[m].live.lines) \in 0 .. Len(disk[m].live.lines) /\ m \in Nat
        /\ disk[m].live.lines \in Seq(Line \cup {Garbage})
    BY <1>1, <2>1, FileFacts
  <2>4. SubSeq(disk[m].live.lines, 1, Len(disk[m].live.lines)) = disk[m].live.lines
    BY <2>3, WholePrefix
  <2>5. Segments(disk') = {s \in Segments(disk) : s <= m}
    <3>1. \A s \in Segments(disk) : s <= m <=> s \in Priors(disk)
      BY <1>1, <2>1, <2>2, <2>3, <1>4, FileFacts DEF Priors
    <3>2. QED
      BY <3>1, <1>3 DEF Priors
  <2>6. Lays(disk', SubSeq(W, 1, m + Len(disk[m].live.lines)))
    <3>1. \A s \in Segments(disk') : s # m => disk'[s].live = disk[s].live
      BY <1>3
    <3>2. disk'[m].live.lines = SubSeq(disk[m].live.lines, 1, Len(disk[m].live.lines))
      BY <1>3, <2>2, <2>4
    <3> HIDE DEF m
    <3>3. QED
      BY <1>1, <2>1, <2>3, <2>5, <3>1, <3>2, LaysCut
  <2>7. Lays(disk', W)
    BY <2>1, <2>6, <1>4, WholePrefix
  <2>8. LastSegment(disk') = m
    <3>1. DiskOK(disk') /\ Segments(disk') # {}
      BY <1>3, <1>7 DEF IndInv
    <3>2. LastSegment(disk') \in Priors(disk) /\ m <= LastSegment(disk')
      BY <3>1, <1>3, <2>2, SegmentChoice
    <3>3. LastSegment(disk') <= m /\ LastSegment(disk') \in Nat
      BY <3>1, <3>2, <2>2, <1>3, FileFacts
    <3>4. QED
      BY <3>2, <3>3, <2>3
  <2>9. handle.seg = m /\ handle.len = Size(disk[m].live)
    BY <1>1, <1>2, <1>7 DEF RepairAt
  <2>10. ~ disk[m].live.torn
    BY <1>1, <1>2, <2>1 DEF Lays
  <2>11. handle.len = 2 * Len(disk[m].live.lines)
    BY <2>9, <2>10, <2>3 DEF Size
  <2>12. HandleAt(disk', handle, W)
    BY <1>3, <1>5, <1>7, <2>2, <2>8, <2>9, <2>10, <2>11 DEF HandleAt
  <2>13. QED
    BY <1>1, <2>7, <2>12 DEF StandsOn, Appending
<1>8. QED
  BY <1>6, <1>7

\* The removal's sync, and what open does behind it.
LEMMA SyncRemovalStands ==
  ASSUME IndInv, IndInv', NEW W, StandsOn(W), SyncRemoval
  PROVE  StandsOn(W)' /\ (log' = log \/ Grew)
<1>1. /\ DiskOK(disk) /\ Lays(disk, W) /\ Precedes(log, W) /\ HandleAt(disk, handle, W)
      /\ disk' = VfsSyncDir(disk) /\ handle' = handle /\ AfterRepair(disk')
  BY DEF IndInv, StandsOn, SyncRemoval
<1>2. Segments(disk') = Segments(disk) /\ \A t \in Segments(disk) : disk'[t].live = disk[t].live
  BY <1>1, SyncDirIs
<1>3. Lays(disk', W) /\ HandleAt(disk', handle, W)
  BY <1>1, <1>2, LaysAlike, HandleSame
<1>4. QED
  BY <1>1, <1>3, AfterRepairStands

\* A wave is planned behind the history.
LEMMA AppendAllStands ==
  ASSUME IndInv, IndInv', NEW W, StandsOn(W), NEW n \in 1 .. MaxWave, AppendAll(n)
  PROVE  StandsOn(W)' /\ log' = log
<1>1. /\ DiskOK(disk) /\ pc = "idle" /\ W = log /\ Lays(disk, W) /\ HandleAt(disk, handle, W)
      /\ Precedes(log, W) /\ disk' = disk /\ handle' = handle /\ log' = log /\ pc' = "write"
  BY DEF IndInv, StandsOn, AppendAll
<1>2. wave' = Planned(handle, n, FALSE)
  BY Zenon DEF AppendAll
<1>3. n \in Nat \ {0} /\ FALSE \in BOOLEAN /\ Len(log) = Len(W)
  BY <1>1
<1>4. Lays(disk', W) /\ HandleAt(disk', handle, W)
  BY <1>1
<1>5. QED
  BY <1>1, <1>2, <1>3, <1>4, PlannedStands

\* Some lines more behind W leave what was in front of them.
LEMMA Longer ==
  ASSUME NEW W \in Seq(Line), NEW V \in Seq(Line), Len(W) <= Len(V),
         \A i \in 1 .. Len(W) : V[i] = W[i]
  PROVE  /\ \A u \in Seq(Line \cup {Garbage}) : Precedes(u, W) => Precedes(u, V)
         /\ \A m \in 0 .. Len(W) : SubSeq(V, 1, m) = SubSeq(W, 1, m)
<1>1. ASSUME NEW u \in Seq(Line \cup {Garbage}), Precedes(u, W)
      PROVE  Precedes(u, V)
  <2>1. Len(u) \in Nat /\ Len(W) \in Nat /\ Len(V) \in Nat
    OBVIOUS
  <2>2. Len(u) <= Len(W) /\ \A i \in 1 .. Len(u) : W[i] = u[i] /\ i \in 1 .. Len(W)
    BY <1>1, <2>1 DEF Precedes
  <2>3. QED
    BY <2>1, <2>2 DEF Precedes
<1>2. ASSUME NEW m \in 0 .. Len(W)
      PROVE  SubSeq(V, 1, m) = SubSeq(W, 1, m)
  <2>1. m \in 0 .. Len(V) /\ \A i \in 1 .. m : i \in 1 .. Len(W)
    OBVIOUS
  <2>2. /\ SubSeq(V, 1, m) \in Seq(Line) /\ Len(SubSeq(V, 1, m)) = m
        /\ \A i \in 1 .. m : SubSeq(V, 1, m)[i] = V[i]
    BY <2>1, PrefixIs
  <2>3. /\ SubSeq(W, 1, m) \in Seq(Line) /\ Len(SubSeq(W, 1, m)) = m
        /\ \A i \in 1 .. m : SubSeq(W, 1, m)[i] = W[i]
    BY PrefixIs
  <2>4. \A i \in 1 .. m : SubSeq(V, 1, m)[i] = SubSeq(W, 1, m)[i]
    BY <2>1, <2>2, <2>3
  <2>5. QED
    BY <2>2, <2>3, <2>4, SameIs
<1>3. QED
  BY <1>1, <1>2

\* One write of a wave puts the lines of one segment behind the history.
LEMMA WriteStands ==
  ASSUME IndInv, IndInv', NEW W, StandsOn(W), Write
  PROVE  (\E V : StandsOn(V)') /\ log' = log
<1>1. /\ TypeOK /\ WaveOK /\ DiskOK(disk) /\ DiskOK(disk') /\ pc = "write" /\ WaveAt(W)
      /\ Lays(disk, W) /\ Precedes(log, W) /\ log' = log /\ handle' = handle
      /\ wave \in Waves
  BY DEF IndInv, TypeOK, StandsOn, Write, Appending
<1> DEFINE n == Len(wave.lines)
<1>2. PICK k \in 0 .. n : WaveHas(W, k)
  BY <1>1 DEF WaveAt
<1>3. PICK e \in k + 1 .. n :
            /\ Current = wave.seg[k + 1]
            /\ \A i \in 1 .. n : wave.seg[i] = Current <=> i \in k + 1 .. e
            /\ LinesFor(Current) = SubSeq(wave.lines, k + 1, e)
            /\ IF Current \in Segments(disk) THEN Current = LastSegment(disk) /\ Current = handle.seg /\ k = 0
               ELSE /\ Current = Len(W) /\ handle.next_seq <= Current
                    /\ Segments(disk) # {} => disk[LastSegment(disk)].live.lines # << >>
            /\ \A t \in Segments(disk) : t <= Current
  BY <1>1, <1>2, WritePlace
<1> DEFINE s == Current
<1>4. n \in Nat /\ k \in Nat /\ e \in Nat /\ k < e /\ e <= n /\ handle.next_seq \in Nat /\ s \in Nat
      /\ e \in k .. n
  <2>1. s \in Nat
    BY <1>1, CurrentType
  <2> HIDE DEF s
  <2>2. QED
    BY <2>1, <1>1 DEF TypeOK, Handles, Waves
<1>50. PICK ls : ls = SubSeq(wave.lines, k + 1, e)
  OBVIOUS
<1>51. PICK V : V = W \o ls
  OBVIOUS
<1>52. PICK c : c = [lines |-> Read(disk, s).lines \o ls, torn |-> FALSE]
  OBVIOUS
<1>5. disk' = VfsAppend(disk, s, c)
  <2>1. ~ Read(disk, s).torn
    BY <1>2 DEF WaveHas, Read, Blank
  <2>2. Appended(Read(disk, s), ls) = c
    BY <2>1, <1>52 DEF Appended
  <2>3. disk' = VfsAppend(disk, s, Appended(Read(disk, s), LinesFor(s)))
    BY DEF Write
  <2>4. QED
    BY <2>2, <2>3, <1>3, <1>50
<1>53. c.lines = Read(disk, s).lines \o ls /\ c.torn = FALSE
  BY <1>52
<1> HIDE DEF s, n
<1>54. W \in Seq(Line) /\ \A y \in Segments(disk) : ~ disk[y].live.torn
  BY <1>1, <1>2 DEF Lays, WaveHas
<1>55. /\ ls \in Seq(Line) /\ Follows(ls, W) /\ Len(V) = handle.next_seq + e
       /\ \A i \in 1 .. Len(W) : V[i] = W[i]
       /\ \A i \in 1 .. e : V[handle.next_seq + i] = wave.lines[i]
  <2>1. k \in 0 .. Len(wave.lines) /\ e \in k .. Len(wave.lines)
    BY <1>4 DEF n
  <2>4. TypeOK /\ W \in Seq(Line) /\ WaveHas(W, k) /\ ls = SubSeq(wave.lines, k + 1, e)
    BY <1>1, <1>2, <1>50, <1>54
  <2>2. Brings(W, ls, e)
    BY <2>1, <2>4, WaveFollows
  <2>3. QED
    BY <2>2, <1>51 DEF Brings
<1>56. NextPlace(s, W)
  BY <1>3 DEF s, NextPlace
<1>57. /\ Lays(disk', W \o ls) /\ disk'[s].live = c
       /\ Segments(disk') = Segments(disk) \cup {s}
       /\ \A t \in Segments(disk) : t # s => disk'[t] = disk[t]
  <2>1. s \in Nat /\ ls \in Seq(Line) /\ Follows(ls, W) /\ c.lines = Read(disk, s).lines \o ls
    BY <1>4, <1>53, <1>55
  <2>2. DiskOK(disk) /\ Lays(disk, W)
    BY <1>1
  <2>3. \A y \in Segments(disk) : ~ disk[y].live.torn
    BY <1>54
  <2>4. Lays(disk', W \o ls)
    BY <2>1, <2>2, <2>3, <1>5, <1>56, Written
  <2>5. QED
    BY <2>2, <2>4, <1>5, VfsAppendIs
<1>6. /\ Lays(disk', V) /\ Len(V) = handle.next_seq + e
      /\ \A i \in 1 .. Len(W) : V[i] = W[i]
      /\ \A i \in 1 .. e : V[handle.next_seq + i] = wave.lines[i]
  BY <1>51, <1>55, <1>57
<1>7. /\ Segments(disk') = Segments(disk) \cup {s}
      /\ \A t \in Segments(disk) : t # s => disk'[t] = disk[t]
  BY <1>57
<1>8. \A t \in Segments(disk') : ~ disk'[t].live.torn
  <2>1. ~ disk'[s].live.torn
    BY <1>53, <1>57
  <2>2. QED
    BY <2>1, <1>7, <1>54
<1>9. W \in Seq(Line) /\ V \in Seq(Line) /\ Len(W) = handle.next_seq + k /\ Len(W) \in Nat
  <2>1. W \in Seq(Line) /\ V \in Seq(Line)
    BY <1>1, <1>6 DEF Lays
  <2>2. QED
    BY <2>1, <1>2 DEF WaveHas
<1>10. Len(W) <= Len(V) /\ handle.next_seq \in 0 .. Len(W)
  BY <1>4, <1>6, <1>9
<1>11. Precedes(log, V) /\ SubSeq(V, 1, handle.next_seq) = SubSeq(W, 1, handle.next_seq)
  <2>1. log \in Seq(Line \cup {Garbage})
    BY <1>1 DEF TypeOK
  <2>2. QED
    BY <2>1, <1>1, <1>6, <1>9, <1>10, Longer
<1>12. /\ wave'.lines = wave.lines /\ wave'.seg = wave.seg /\ wave'.opening = wave.opening
       /\ IF wave.todo = {s} THEN pc' = "sync"
          ELSE pc' = "write" /\ wave'.todo = wave.todo \ {s}
  BY <1>1 DEF Write, Waves, s
<1>13. WaveFits(handle, wave')
  <2>1. WaveFits(handle, wave)
    BY <1>2 DEF WaveHas
  <2>2. QED
    BY ONLY <2>1, <1>12 DEF WaveFits
<1>14. e \in 1 .. n /\ wave.seg[e] = s
  <2>1. e \in 1 .. n /\ e \in k + 1 .. e
    BY <1>4
  <2>2. QED
    BY <2>1, <1>3 DEF s, n
<1>15. s = LastSegment(disk')
  <2>1. \A t \in Segments(disk') : t <= s
    <3>1. s \in Segments(disk') /\ s \in Nat
      BY <1>1, <1>7, FileFacts
    <3>2. QED
      BY <3>1, <1>3, <1>7 DEF s
  <2>2. s \in Segments(disk')
    BY <1>7
  <2>3. LastSegment(disk') \in Segments(disk') /\ s <= LastSegment(disk')
    BY <2>2, <1>1, SegmentChoice
  <2>4. LastSegment(disk') <= s /\ LastSegment(disk') \in Nat /\ s \in Nat
    BY <2>1, <2>2, <2>3, <1>1, FileFacts
  <2>5. QED
    BY <2>3, <2>4
<1>16. ASSUME pc' = "write", NEW i \in 1 .. n
       PROVE  wave'.seg[i] \in wave'.todo <=> i > e
  <2>1. wave.seg[i] \in wave.todo <=> i > k
    BY <1>1, <1>2 DEF WaveHas, n
  <2>2. wave.seg[i] = s <=> i \in k + 1 .. e
    BY <1>3 DEF s, n
  <2>3. wave'.todo = wave.todo \ {s} /\ wave'.seg[i] = wave.seg[i]
    BY <1>12, <1>16
  <2>4. i > e <=> i > k /\ ~ (i \in k + 1 .. e)
    BY <1>4
  <2>5. QED
    BY <2>1, <2>2, <2>3, <2>4
<1>17. ASSUME pc' # "write"
       PROVE  e = n
  <2>1. wave.todo = {s}
    BY <1>12, <1>17
  <2>2. n \in 1 .. n /\ n > k
    BY <1>4
  <2>3. wave.seg[n] \in wave.todo
    BY <2>2, <1>1, <1>2 DEF WaveHas, n
  <2>4. n \in k + 1 .. e
    BY <2>1, <2>2, <2>3, <1>3 DEF s, n
  <2>5. QED
    BY <2>4, <1>4
<1>18. WaveHas(V, e)'
  <2>1. Len(log) <= handle.next_seq /\ (~ wave.opening => Len(log) = handle.next_seq)
        /\ handle.prev = TipOf(SubSeq(W, 1, handle.next_seq))
    BY <1>2 DEF WaveHas
  <2>2. e # 0 /\ Len(wave'.lines) = n
    BY <1>4, <1>12 DEF n
  <2>3. wave'.seg[e] \in Segments(disk') /\ wave'.seg[e] = LastSegment(disk')
    BY <1>7, <1>12, <1>14, <1>15
  <2>4. \A i \in 1 .. e : V[handle'.next_seq + i] = wave'.lines[i]
    BY <1>1, <1>6, <1>12
  <2>5. Len(log') <= handle'.next_seq /\ (~ wave'.opening => Len(log') = handle'.next_seq)
        /\ handle'.prev = TipOf(SubSeq(V, 1, handle'.next_seq)) /\ Len(V) = handle'.next_seq + e
    BY <2>1, <1>1, <1>6, <1>11, <1>12
  <2>6. WaveFits(handle', wave')
    BY <1>1, <1>13
  <2>7. pc' = "write" => \A i \in 1 .. Len(wave'.lines) : wave'.seg[i] \in wave'.todo <=> i > e
    BY <2>2, <1>16
  <2>8. pc' # "write" => e = Len(wave'.lines)
    BY <2>2, <1>17
  <2>9. QED
    BY <2>2, <2>3, <2>4, <2>5, <2>6, <2>7, <2>8, <1>8 DEF WaveHas
<1>19. WaveAt(V)'
  <2>1. e \in 0 .. Len(wave'.lines)
    BY <1>4, <1>12 DEF n
  <2>2. QED
    BY <2>1, <1>18 DEF WaveAt
<1>20. pc' \in Appending /\ pc' \in {"write", "sync"}
  BY <1>12 DEF Appending
<1>21. StandsOn(V)'
  BY <1>1, <1>6, <1>11, <1>19, <1>20 DEF StandsOn
<1>22. QED
  BY <1>1, <1>21

\* A wave that is written and not yet synced stays as it is.
LEMMA WaveStays ==
  ASSUME NEW W, NEW n, n = Len(wave.lines), WaveHas(W, n), n # 0, pc' # "write",
         wave'.lines = wave.lines, wave'.seg = wave.seg, wave'.opening = wave.opening,
         handle' = handle, log' = log, Segments(disk') = Segments(disk),
         \A s \in Segments(disk) : disk'[s].live = disk[s].live
  PROVE  WaveHas(W, n)'
<1>1. WaveFits(handle', wave')
  <2>1. WaveFits(handle, wave)
    BY DEF WaveHas
  <2>2. QED
    BY <2>1 DEF WaveFits
<1>2. \A s \in Segments(disk') : ~ disk'[s].live.torn
  BY DEF WaveHas
<1>3. wave'.seg[n] \in Segments(disk') /\ wave'.seg[n] = LastSegment(disk')
  BY SameSegments DEF WaveHas
<1>4. QED
  BY <1>1, <1>2, <1>3 DEF WaveHas

\* Syncing a wave changes nothing of what is read, until it is acknowledged.
LEMMA SyncStands ==
  ASSUME IndInv, IndInv', NEW W, StandsOn(W), Sync \/ SyncDir
  PROVE  StandsOn(W)' /\ (log' = log \/ Grew)
<1> DEFINE n == Len(wave.lines)
<1>1. /\ TypeOK /\ WaveOK /\ DiskOK(disk) /\ pc \in {"sync", "sync_dir"} /\ WaveAt(W)
      /\ Lays(disk, W) /\ Precedes(log, W) /\ wave \in Waves
  BY DEF IndInv, TypeOK, StandsOn, Sync, SyncDir, Appending
<1>2. WaveHas(W, n) /\ n # 0
  <2>1. PICK k \in 0 .. n : WaveHas(W, k)
    BY <1>1 DEF WaveAt
  <2>2. k = n
    BY <2>1, <1>1 DEF WaveHas
  <2>3. WaveFits(handle, wave)
    BY <2>1 DEF WaveHas
  <2>4. wave.lines # << >> /\ wave.lines \in Seq(Line)
    BY <2>3, <1>1 DEF WaveFits, Waves
  <2>5. n # 0
    BY <2>4
  <2>6. QED
    BY <2>1, <2>2, <2>5
<1>3. Segments(disk') = Segments(disk) /\ \A t \in Segments(disk) : disk'[t].live = disk[t].live
  <2>1. CASE Sync
    <3>1. Current \in Segments(disk)
      BY <1>1, <2>1, CurrentType DEF Sync, WaveOK
    <3>2. disk' = VfsSyncData(disk, Current)
      BY <2>1 DEF Sync
    <3>3. QED
      BY <3>1, <3>2, <1>1, SyncDataIs
  <2>2. CASE SyncDir
    BY <2>2, <1>1, SyncDirIs DEF SyncDir
  <2>3. QED
    BY <2>1, <2>2
<1>4. CASE Acknowledge(disk')
  BY <1>1, <1>2, <1>3, <1>4, AcknowledgeStands
<1>5. CASE /\ pc' \in {"sync", "sync_dir"} /\ handle' = handle /\ log' = log
           /\ wave'.lines = wave.lines /\ wave'.seg = wave.seg /\ wave'.opening = wave.opening
  <2>1. WaveHas(W, n)'
    BY <1>2, <1>3, <1>5, WaveStays
  <2>2. n \in 0 .. Len(wave'.lines)
    BY <1>1, <1>5 DEF Waves
  <2>3. WaveAt(W)'
    BY <2>1, <2>2 DEF WaveAt
  <2>4. Lays(disk', W)
    BY <1>1, <1>3, LaysAlike
  <2>5. QED
    BY <2>3, <2>4, <1>1, <1>5 DEF StandsOn, Appending
<1>6. CASE Sync /\ pc' \in {"sync", "sync_dir"} /\ handle' = handle /\ log' = log
           /\ (wave' = wave \/ wave' = [wave EXCEPT !.todo = @ \ {Current}])
  <2>1. wave'.lines = wave.lines /\ wave'.seg = wave.seg /\ wave'.opening = wave.opening
    BY <1>1, <1>6 DEF Waves
  <2>2. QED
    BY <2>1, <1>5, <1>6
<1>7. CASE Sync
  <2>1. \/ Acknowledge(disk')
        \/ wave' = [wave EXCEPT !.todo = @ \ {Current}] /\ UNCHANGED <<log, acked, handle, pc>>
        \/ pc' = "sync_dir" /\ UNCHANGED <<log, acked, handle, wave>>
    BY <1>7 DEF Sync
  <2>2. QED
    BY <2>1, <1>1, <1>4, <1>6, <1>7
<1>8. CASE SyncDir
  BY <1>4, <1>8 DEF SyncDir
<1>9. QED
  BY <1>7, <1>8

\* A write that ends early has written some of its lines, and half of one.
LEMMA HalfIs ==
  ASSUME NEW r \in Content, ~ r.torn, NEW ls \in Seq(Line),
         NEW q \in Size(r) .. Size(Appended(r, ls))
  PROVE  \E j \in 0 .. Len(ls) : Cut(Appended(r, ls), q).lines = r.lines \o SubSeq(ls, 1, j)
<1> DEFINE S == Line \cup {Garbage}
           a == r.lines
           b == q \div 2
<1>1. a \in Seq(S) /\ Len(a) \in Nat /\ ls \in Seq(S) /\ Len(ls) \in Nat
  BY DEF Content
<1>2. Appended(r, ls) = [lines |-> a \o ls, torn |-> FALSE]
  BY DEF Appended
<1>3. Size(r) = 2 * Len(a)
  BY <1>1 DEF Size
<1>4. Len(a \o ls) = Len(a) + Len(ls) /\ a \o ls \in Seq(S)
  BY <1>1, JoinIs
<1>5. Size(Appended(r, ls)) = 2 * (Len(a) + Len(ls))
  <2>1. Appended(r, ls).lines = a \o ls /\ ~ Appended(r, ls).torn
    BY <1>2
  <2>2. QED
    BY <2>1, <1>1, <1>4 DEF Size
<1>6. Cut(Appended(r, ls), q).lines = SubSeq(a \o ls, 1, b)
  <2>1. Appended(r, ls).lines = a \o ls
    BY <1>2
  <2>2. QED
    BY <2>1, Zenon DEF Cut
<1> HIDE DEF a, S
<1>7. b \in Nat /\ Len(a) <= b /\ b <= Len(a) + Len(ls)
  <2>1. q \in 2 * Len(a) .. 2 * (Len(a) + Len(ls))
    BY <1>3, <1>5
  <2>2. QED
    BY <2>1, <1>1
<1> DEFINE j == b - Len(a)
<1> HIDE DEF b
<1>8. j \in 0 .. Len(ls) /\ Len(a) + j = b
  BY <1>1, <1>7
<1> HIDE DEF j
<1>9. /\ SubSeq(ls, 1, j) \in Seq(S) /\ Len(SubSeq(ls, 1, j)) = j
      /\ \A i \in 1 .. j : SubSeq(ls, 1, j)[i] = ls[i]
  BY <1>1, <1>8, PrefixIs
<1>10. /\ SubSeq(a \o ls, 1, b) \in Seq(S) /\ Len(SubSeq(a \o ls, 1, b)) = b
       /\ \A i \in 1 .. b : SubSeq(a \o ls, 1, b)[i] = (a \o ls)[i]
  <2>1. b \in 0 .. Len(a \o ls)
    BY <1>4, <1>7
  <2>2. QED
    BY <2>1, <1>4, PrefixIs
<1> DEFINE p == SubSeq(ls, 1, j)
           V == a \o p
<1>11. /\ V \in Seq(S) /\ Len(V) = b
       /\ \A i \in 1 .. Len(a) : V[i] = a[i]
       /\ \A i \in 1 .. j : V[Len(a) + i] = p[i]
  <2>1. p \in Seq(S) /\ Len(p) = j
    BY <1>9
  <2> HIDE DEF p
  <2>2. /\ V \in Seq(S) /\ Len(V) = Len(a) + Len(p)
        /\ \A i \in 1 .. Len(a) : V[i] = a[i]
        /\ \A i \in 1 .. Len(p) : V[Len(a) + i] = p[i]
    <3>1. a \in Seq(S)
      BY <1>1
    <3>0. p \in Seq(S)
      BY <2>1
    <3>2. V \in Seq(S) /\ Len(V) = Len(a) + Len(p)
      BY <3>0, <3>1, JoinIs
    <3>3. \A i \in 1 .. Len(a) : V[i] = a[i]
      BY <3>0, <3>1, JoinIs
    <3>4. \A i \in 1 .. Len(p) : V[Len(a) + i] = p[i]
      BY <3>0, <3>1, JoinIs
    <3>5. QED
      BY <3>2, <3>3, <3>4
  <2> HIDE DEF V
  <2>3. QED
    BY <2>1, <2>2, <1>8
<1>12. /\ \A i \in 1 .. Len(a) : (a \o ls)[i] = a[i]
       /\ \A i \in 1 .. Len(ls) : (a \o ls)[Len(a) + i] = ls[i]
  BY <1>1, JoinIs
<1> DEFINE U == SubSeq(a \o ls, 1, b)
           J == a \o ls
<1>13. ASSUME NEW i \in 1 .. b
       PROVE  V[i] = U[i]
  <2>1. U[i] = J[i]
    BY <1>10
  <2> HIDE DEF U, V, J
  <2>2. CASE i <= Len(a)
    <3>1. i \in 1 .. Len(a)
      BY <2>2, <1>1
    <3>2. J[i] = a[i]
      BY <3>1, <1>12 DEF J
    <3>3. V[i] = a[i]
      BY <3>1, <1>11
    <3>4. QED
      BY <3>2, <3>3, <2>1
  <2>3. CASE ~ (i <= Len(a))
    <3>1. PICK y \in 1 .. j : i = Len(a) + y
      <4>1. i - Len(a) \in 1 .. j /\ i = Len(a) + (i - Len(a))
        BY <2>3, <1>1, <1>7, <1>8
      <4>2. QED
        BY <4>1
    <3>2. y \in 1 .. Len(ls)
      BY <1>8
    <3>3. J[i] = ls[y]
      BY <3>1, <3>2, <1>12 DEF J
    <3>4. V[i] = ls[y]
      BY <3>1, <1>9, <1>11
    <3>5. QED
      BY <3>3, <3>4, <2>1
  <2>4. QED
    BY <2>2, <2>3
<1>14. V = U
  <2>1. V \in Seq(S) /\ U \in Seq(S) /\ Len(V) = Len(U) /\ \A i \in 1 .. Len(U) : V[i] = U[i]
    BY <1>10, <1>11, <1>13
  <2> HIDE DEF V, U
  <2>2. QED
    BY <2>1, SameIs
<1>15. Cut(Appended(r, ls), q).lines = V
  BY <1>6, <1>14
<1>16. QED
  BY <1>8, <1>15 DEF a

\* The first of some elements of a sequence are elements of the sequence.
LEMMA SliceOfSlice ==
  ASSUME NEW S, NEW L \in Seq(S), NEW k \in Nat, NEW e \in Nat, k <= e, e <= Len(L),
         NEW j \in 0 .. e - k
  PROVE  SubSeq(SubSeq(L, k + 1, e), 1, j) = SubSeq(L, k + 1, k + j)
<1> DEFINE A == SubSeq(L, k + 1, e)
           B == SubSeq(L, k + 1, k + j)
           C == SubSeq(A, 1, j)
<1>1. A \in Seq(S) /\ Len(A) = e - k /\ \A i \in 1 .. e - k : A[i] = L[k + i]
  BY SliceIs
<1>2. k + j \in Nat /\ k <= k + j /\ k + j <= Len(L) /\ (k + j) - k = j /\ j \in Nat
  OBVIOUS
<1>3. B \in Seq(S) /\ Len(B) = j /\ \A i \in 1 .. j : B[i] = L[k + i]
  <2>1. B \in Seq(S) /\ Len(B) = (k + j) - k /\ \A i \in 1 .. (k + j) - k : B[i] = L[k + i]
    BY <1>2, SliceIs
  <2> HIDE DEF B
  <2>2. QED
    BY <2>1, <1>2
<1> HIDE DEF A, B
<1>4. C \in Seq(S) /\ Len(C) = j /\ \A i \in 1 .. j : C[i] = A[i]
  <2>1. j \in 0 .. Len(A)
    BY <1>1
  <2>2. QED
    BY <2>1, <1>1, PrefixIs
<1> HIDE DEF C
<1>5. \A i \in 1 .. j : i \in 1 .. e - k
  BY <1>2
<1>6. \A i \in 1 .. j : C[i] = B[i]
  BY <1>1, <1>3, <1>4, <1>5
<1>7. C = B
  BY <1>3, <1>4, <1>6, SameIs
<1>8. QED
  BY <1>7 DEF A, B, C

-----------------------------------------------------------------------------
(* The history when the process goes.                                      *)

\* A process that is gone leaves the history to the next open.
LEMMA GoneStands ==
  ASSUME Gone, NEW V, Lays(disk', V), Precedes(log, V)
  PROVE  StandsOn(V)' /\ log' = log
  BY DEF Gone, StandsOn, Appending

\* So does one that is closed.
LEMMA CloseStands ==
  ASSUME NEW W, StandsOn(W), Close
  PROVE  StandsOn(W)' /\ log' = log
<1>1. Gone /\ Lays(disk', W) /\ Precedes(log, W)
  BY DEF StandsOn, Close
<1>2. QED
  BY <1>1, GoneStands

\* A process that is killed in a write leaves some of its lines.
LEMMA KillStands ==
  ASSUME IndInv, IndInv', NEW W, StandsOn(W), Kill
  PROVE  (\E V : StandsOn(V)') /\ log' = log
<1>0. Gone /\ Lays(disk, W) /\ Precedes(log, W) /\ TypeOK /\ WaveOK /\ DiskOK(disk)
  BY DEF IndInv, StandsOn, Kill, Stop
<1>1. CASE disk' = disk
  <2>1. Lays(disk', W)
    BY <1>0, <1>1
  <2>2. QED
    BY <1>0, <2>1, GoneStands
<1>2. CASE pc = "write" /\ HalfWritten
  <2> DEFINE n == Len(wave.lines)
             s == Current
             r == Read(disk, s)
  <2>1. PICK k \in 0 .. n : WaveHas(W, k)
    BY <1>2 DEF StandsOn, WaveAt, Appending
  <2>2. PICK e \in k + 1 .. n :
            /\ LinesFor(Current) = SubSeq(wave.lines, k + 1, e)
            /\ IF Current \in Segments(disk) THEN Current = LastSegment(disk) /\ Current = handle.seg /\ k = 0
               ELSE /\ Current = Len(W) /\ handle.next_seq <= Current
                    /\ Segments(disk) # {} => disk[LastSegment(disk)].live.lines # << >>
    BY <1>0, <1>2, <2>1, WritePlace
  <2>3. PICK q \in Size(r) .. Size(Appended(r, LinesFor(s))) :
            disk' = VfsAppend(disk, s, Cut(Appended(r, LinesFor(s)), q))
    BY <1>2 DEF HalfWritten
  <2>4. n \in Nat /\ k \in Nat /\ e \in Nat /\ k < e /\ e <= n /\ wave.lines \in Seq(Line)
    BY <1>0 DEF TypeOK, Waves
  <2>5. s \in Nat /\ r \in Content
    BY <1>0, <1>2, CurrentType, WrittenType
  <2>6. ~ r.torn
    BY <2>1 DEF WaveHas, Read, Blank
  <2> DEFINE ms == SubSeq(wave.lines, k + 1, e)
  <2>7. ms \in Seq(Line) /\ Len(ms) = e - k
    BY <2>4, SliceIs
  <2>8. q \in Size(r) .. Size(Appended(r, ms))
    BY <2>2, <2>3
  <2> HIDE DEF ms, s, r, n
  <2>9. PICK j \in 0 .. Len(ms) : Cut(Appended(r, ms), q).lines = r.lines \o SubSeq(ms, 1, j)
    BY <2>5, <2>6, <2>7, <2>8, HalfIs
  <2>10. PICK ls : ls = SubSeq(wave.lines, k + 1, k + j)
    OBVIOUS
  <2>11. PICK c : c = Cut(Appended(r, ms), q)
    OBVIOUS
  <2>12. SubSeq(ms, 1, j) = ls
    BY <2>4, <2>7, <2>10, SliceOfSlice DEF ms, n
  <2>13. k + j \in k .. Len(wave.lines) /\ k \in 0 .. Len(wave.lines)
    BY <2>4, <2>7 DEF n
  <2>14. W \in Seq(Line) /\ \A y \in Segments(disk) : ~ disk[y].live.torn
    BY <1>0, <2>1 DEF Lays, WaveHas
  <2>15. Brings(W, ls, k + j)
    BY <1>0, <2>1, <2>10, <2>13, <2>14, WaveFollows
  <2>16. NextPlace(s, W)
    BY <2>2 DEF NextPlace, s
  <2>17. c.lines = Read(disk, s).lines \o ls /\ disk' = VfsAppend(disk, s, c)
    <3>1. disk' = VfsAppend(disk, s, c)
      BY <2>2, <2>3, <2>11 DEF ms, s
    <3>2. QED
      BY <3>1, <2>9, <2>11, <2>12 DEF r
  <2>18. Lays(disk', W \o ls)
    <3>1. ls \in Seq(Line) /\ Follows(ls, W)
      BY <2>15 DEF Brings
    <3>2. QED
      BY <3>1, <1>0, <2>5, <2>14, <2>16, <2>17, Written
  <2>19. PICK V : V = W \o ls
    OBVIOUS
  <2>20. V \in Seq(Line) /\ Len(W) <= Len(V) /\ \A i \in 1 .. Len(W) : V[i] = W[i]
    <3>1. V \in Seq(Line)
      BY <2>18, <2>19 DEF Lays
    <3>2. \A i \in 1 .. Len(W) : V[i] = W[i]
      BY <2>15, <2>19 DEF Brings
    <3>3. Len(V) = handle.next_seq + (k + j) /\ Len(W) = handle.next_seq + k
      BY <2>1, <2>15, <2>19 DEF Brings, WaveHas
    <3>4. handle.next_seq \in Nat /\ k \in Nat /\ j \in Nat
      BY <1>0, <2>4 DEF TypeOK, Handles
    <3>5. QED
      BY <3>1, <3>2, <3>3, <3>4
  <2>21. Precedes(log, V)
    <3>1. log \in Seq(Line \cup {Garbage})
      BY <1>0 DEF TypeOK
    <3>2. QED
      BY <3>1, <1>0, <2>14, <2>20, Longer
  <2>22. Lays(disk', V)
    BY <2>18, <2>19
  <2>23. QED
    BY <1>0, <2>21, <2>22, GoneStands
<1>3. QED
  BY <1>1, <1>2 DEF Kill

\* What a power cut leaves of a file that grew.
LEMMA CutWithin ==
  ASSUME NEW r \in Content, NEW u \in Content, ~ u.torn, NEW q \in Size(u) .. Size(r)
  PROVE  /\ q \div 2 \in Len(u.lines) .. Len(r.lines)
         /\ Cut(r, q).lines = SubSeq(r.lines, 1, q \div 2)
<1>1. Len(r.lines) \in Nat /\ Len(u.lines) \in Nat
  BY CutType
<1>2. Size(u) = 2 * Len(u.lines)
  BY <1>1 DEF Size
<1>3. Size(r) \in Nat /\ Size(r) <= 2 * Len(r.lines) + 1
  <2>1. CASE r.torn
    BY <2>1, <1>1 DEF Size
  <2>2. CASE ~ r.torn
    BY <2>2, <1>1 DEF Size
  <2>3. QED
    BY <2>1, <2>2
<1>4. q \in Nat /\ 2 * Len(u.lines) <= q /\ q <= 2 * Len(r.lines) + 1
  BY <1>1, <1>2, <1>3
<1>5. q \div 2 \in Len(u.lines) .. Len(r.lines)
  <2>1. \A a, b, x \in Nat : 2 * a <= x /\ x <= 2 * b + 1 => x \div 2 \in a .. b
    OBVIOUS
  <2>2. QED
    BY <2>1, <1>1, <1>4
<1>6. Cut(r, q).lines = SubSeq(r.lines, 1, q \div 2)
  BY Zenon DEF Cut
<1>7. QED
  BY <1>5, <1>6

\* A prefix of W that is as long as what precedes W.
LEMMA LongEnough ==
  ASSUME NEW u \in Seq(Line \cup {Garbage}), NEW W \in Seq(Line), Precedes(u, W),
         NEW m \in 0 .. Len(W), Len(u) <= m
  PROVE  Precedes(u, SubSeq(W, 1, m))
<1>1. Len(SubSeq(W, 1, m)) = m /\ \A i \in 1 .. m : SubSeq(W, 1, m)[i] = W[i]
  BY PrefixIs
<1>2. \A i \in 1 .. Len(u) : i \in 1 .. m /\ W[i] = u[i]
  BY DEF Precedes
<1>3. QED
  BY <1>1, <1>2 DEF Precedes

\* The power may go at any time: what is left is a history that holds the one
\* that was open.
LEMMA PowerCutStands ==
  ASSUME IndInv, IndInv', NEW W, StandsOn(W), Platter, PowerCut
  PROVE  (\E V : StandsOn(V)') /\ log' = log /\ Platter'
<1>1. /\ TypeOK /\ DiskOK(disk) /\ DiskOK(disk') /\ Lays(disk, W) /\ Precedes(log, W)
      /\ W \in Seq(Line) /\ Len(W) \in Nat /\ log \in Seq(Line \cup {Garbage}) /\ Len(log) \in Nat
      /\ Len(log) <= Len(W) /\ Gone
  BY DEF IndInv, TypeOK, StandsOn, Lays, Precedes, PowerCut, Stop
<1>2. PICK kept \in [Dirty -> 0 .. LineSize * (MaxDrafts + MaxFaults + 1)] :
        /\ \A s \in Dirty : kept[s] \in Size(disk[s].durable) .. Size(disk[s].live)
        /\ disk' = [s \in Lasting |->
                      LET c == IF s \in Dirty THEN Cut(disk[s].live, kept[s])
                                              ELSE disk[s].durable
                      IN  [durable_entry |-> TRUE, live |-> c, durable |-> c]]
  BY DEF PowerCut
<1> DEFINE c(s) == IF s \in Dirty THEN Cut(disk[s].live, kept[s]) ELSE disk[s].durable
<1>3. disk' = [s \in Lasting |-> [durable_entry |-> TRUE, live |-> c(s), durable |-> c(s)]]
  BY <1>2
<1> HIDE DEF c
<1>4. /\ Segments(disk') = Lasting
      /\ \A s \in Lasting : disk'[s].durable_entry /\ disk'[s].live = c(s) /\ disk'[s].durable = c(s)
  BY <1>3 DEF Segments
<1>5. Platter'
  <2>1. \A s \in Segments(disk') : OnPlatter(s)'
    BY <1>4 DEF OnPlatter
  <2>2. pc' = "off"
    BY <1>1 DEF Gone
  <2>3. QED
    BY <2>1, <2>2 DEF Platter, Appending
<1>6. Lasting \subseteq Segments(disk) /\ Dirty \subseteq Lasting
  BY DEF Lasting, Dirty
<1>7. \A s \in Segments(disk) : OnPlatter(s) \/ CutNow(s) \/ Grown(s) \/ Fresh(s)
  BY DEF Platter
<1>8. \A s \in Segments(disk) : s \notin Lasting => Fresh(s)
  BY <1>7 DEF Lasting, OnPlatter, CutNow, Grown
<1>9. \A s \in Segments(disk) : /\ s \in Nat /\ disk[s].live \in Content /\ disk[s].durable \in Content
                                /\ Len(disk[s].live.lines) \in Nat
  BY <1>1, FileFacts
<1>10. pc \in Appending => Len(log) <= handle.next_seq /\ handle.next_seq <= Len(W) /\ handle.next_seq \in Nat
  <2>1. SUFFICES ASSUME pc \in Appending
                 PROVE  Len(log) <= handle.next_seq /\ handle.next_seq <= Len(W) /\ handle.next_seq \in Nat
    OBVIOUS
  <2>2. PICK k \in 0 .. Len(wave.lines) : WaveHas(W, k)
    BY <2>1 DEF StandsOn, WaveAt
  <2>3. Len(log) <= handle.next_seq /\ Len(W) = handle.next_seq + k
    BY <2>2 DEF WaveHas
  <2>4. handle.next_seq \in Nat /\ k \in Nat
    BY <1>1 DEF TypeOK, Handles
  <2>5. QED
    BY <2>3, <2>4
<1>11. ASSUME NEW s \in Lasting, OnPlatter(s)
       PROVE  c(s) = disk[s].live
  <2>1. Size(disk[s].live) \in Nat /\ disk[s].durable = disk[s].live
    BY <1>6, <1>9, <1>11, CutType DEF OnPlatter
  <2>2. ~ (Size(disk[s].live) > Size(disk[s].durable))
    BY <2>1
  <2>3. s \notin Dirty
    BY <2>2 DEF Dirty
  <2>4. QED
    BY <2>1, <2>3 DEF c
<1>12. CASE Lasting = {}
  <2>1. Len(log) = 0
    <3>1. CASE Segments(disk) = {}
      <4>1. W = << >>
        BY <3>1, <1>1, LaysEnd
      <4>2. QED
        BY <4>1, <1>1
    <3>2. CASE Segments(disk) # {}
      <4>1. 0 \in Segments(disk)
        BY <3>2, <1>1 DEF Lays
      <4>2. Fresh(0)
        BY <4>1, <1>8, <1>12
      <4>3. handle.next_seq <= 0 /\ pc \in Appending
        BY <4>2 DEF Fresh
      <4>4. QED
        BY <4>3, <1>1, <1>10
    <3>3. QED
      BY <3>1, <3>2
  <2>2. Lays(disk', << >>)
    BY <1>4, <1>12, LaysNothing
  <2>3. Precedes(log, << >>)
    BY <2>1 DEF Precedes
  <2>4. QED
    BY <2>2, <2>3, <1>1, <1>5, GoneStands
<1>13. CASE Lasting # {}
  <2>1. PICK m \in Lasting : \A s \in Lasting : s <= m
    <3>1. PICK b \in Nat : \A s \in Segments(disk) : s <= b
      BY <1>1 DEF DiskOK
    <3>2. Lasting \in SUBSET Nat /\ \A s \in Lasting : s <= b
      BY <3>1, <1>6, <1>9
    <3>3. QED
      BY <3>2, <1>13, LargestExists
  <2> DEFINE L == disk[m].live.lines
             n == Len(L)
  <2>2. m \in Segments(disk) /\ m \in Nat /\ disk[m].durable_entry /\ n \in Nat /\ L \in Seq(Line \cup {Garbage})
        /\ m + n <= Len(W)
    <3>1. m \in Segments(disk) /\ disk[m].durable_entry
      BY DEF Lasting
    <3>2. QED
      BY <3>1, <1>1, FileFacts DEF Lays
  <2>3. \A s \in Segments(disk) : s \notin Lasting => m < s
    <3> TAKE s \in Segments(disk)
    <3> HAVE s \notin Lasting
    <3>1. Fresh(s)
      BY <1>8
    <3>2. QED
      BY <3>1, <2>2 DEF Fresh
  <2>4. Segments(disk') = {s \in Segments(disk) : s <= m}
    <3>1. \A s \in Segments(disk) : s \in Lasting <=> s <= m
      BY <2>1, <2>2, <2>3, <1>9
    <3>2. QED
      BY <3>1, <1>4, <1>6
  <2>5. ASSUME NEW s \in Lasting, s # m
        PROVE  disk'[s].live = disk[s].live
    <3>1. s \in Segments(disk) /\ s <= m /\ s \in Nat /\ disk[s].durable_entry
      BY <2>1, <1>6, <1>9 DEF Lasting
    <3>2. ~ Fresh(s)
      BY <3>1 DEF Fresh
    <3>3. ~ Grown(s)
      BY <3>1, <2>2, <2>5 DEF Grown
    <3>4. ~ CutNow(s)
      <4>1. s = LastSegment(disk) => m <= s
        BY <1>1, <2>2, SegmentChoice
      <4>2. QED
        BY <4>1, <3>1, <2>2, <2>5 DEF CutNow
    <3>5. OnPlatter(s)
      BY <3>1, <3>2, <3>3, <3>4, <1>7
    <3>6. QED
      BY <3>5, <1>4, <1>11
  <2> HIDE DEF n, L
  <2>6. n = Len(L)
    BY DEF n
  <2>7. SubSeq(L, 1, n) = L
    BY <2>2, <2>6, WholePrefix
  <2>8. Len(log) <= m + n
    <3>1. CASE pc \notin Appending
      <4>1. Lasting = Segments(disk)
        BY <3>1, <1>6, <1>8 DEF Fresh
      <4>2. LastSegment(disk) \in Lasting /\ m <= LastSegment(disk)
        BY <4>1, <2>2, <1>1, SegmentChoice
      <4>3. LastSegment(disk) = m
        BY <4>1, <4>2, <2>1, <2>2, <1>9
      <4>4. m + n = Len(W)
        BY <4>3, <2>2, <1>1, LaysEnd DEF n, L
      <4>5. QED
        BY <4>4, <1>1
    <3>2. CASE pc \in Appending /\ m + n < handle.next_seq
      <4>1. m + n \in 0 .. Len(W) - 1
        BY <3>2, <2>2, <1>1, <1>10
      <4>2. PICK t \in Segments(disk) : t <= m + n /\ m + n < t + Len(disk[t].live.lines)
        BY <4>1, <1>1 DEF Lays
      <4>3. t \in Nat /\ Len(disk[t].live.lines) \in Nat
        BY <1>9
      <4>4. CASE t \in Lasting
        <5>1. t <= m
          BY <4>4, <2>1
        <5>2. t # m
          BY <4>2, <2>2 DEF n, L
        <5>3. t + Len(disk[t].live.lines) <= m
          <6>1. t < m /\ m \in Segments(disk)
            BY <5>1, <5>2, <4>3, <2>2
          <6>2. Lays(disk, W)
            BY <1>1
          <6>3. QED
            BY <6>1, <6>2 DEF Lays
        <5>4. QED
          BY <5>3, <4>2, <4>3, <2>2
      <4>5. CASE t \notin Lasting
        <5>1. handle.next_seq <= t
          BY <4>5, <1>8 DEF Fresh
        <5>2. QED
          BY <5>1, <4>2, <4>3, <3>2, <2>2, <1>10
      <4>6. QED
        BY <4>4, <4>5
    <3>3. CASE pc \in Appending /\ ~ (m + n < handle.next_seq)
      BY <3>3, <2>2, <1>1, <1>10
    <3>4. QED
      BY <3>1, <3>2, <3>3
  <2>9. \E j \in 0 .. n : c(m).lines = SubSeq(L, 1, j) /\ Len(log) <= m + j
    <3>0. n \in 0 .. n
      BY <2>2
    <3>1. CASE OnPlatter(m)
      <4>1. c(m).lines = SubSeq(L, 1, n)
        BY <3>1, <2>7, <1>11 DEF L
      <4>2. QED
        BY <4>1, <3>0, <2>8
    <3>2. CASE CutNow(m)
      <4>1. disk[m].durable.lines = L /\ pc = "sync_cut" /\ m = LastSegment(disk)
        BY <3>2 DEF CutNow, L
      <4>2. ~ disk[m].live.torn
        BY <4>1 DEF StandsOn, RepairAt
      <4>3. ~ (Size(disk[m].live) > Size(disk[m].durable))
        <5>1. Size(disk[m].live) = 2 * n
          BY <4>2, <2>2 DEF Size, n, L
        <5>2. Size(disk[m].durable) = 2 * n + IF disk[m].durable.torn THEN 1 ELSE 0
          BY <4>1 DEF Size, n
        <5>3. QED
          BY <5>1, <5>2, <2>2
      <4>4. m \notin Dirty
        BY <4>3 DEF Dirty
      <4>5. c(m).lines = SubSeq(L, 1, n)
        BY <4>1, <4>4, <2>7 DEF c
      <4>6. QED
        BY <4>5, <3>0, <2>8
    <3>3. CASE Grown(m)
      <4> DEFINE u == disk[m].durable
                 x == Len(u.lines)
      <4>1. /\ pc \in Appending /\ ~ u.torn /\ m + x = handle.next_seq /\ u \in Content
            /\ disk[m].live \in Content /\ Precedes(u.lines, L)
        BY <3>3, <1>9, <2>2 DEF Grown, Appending, L
      <4>2. x \in Nat /\ x <= n /\ u.lines \in Seq(Line \cup {Garbage})
            /\ \A i \in 1 .. x : L[i] = u.lines[i]
        BY <4>1, <2>2 DEF Precedes, Content, n
      <4>3. Len(log) <= m + x
        BY <4>1, <1>10
      <4>4. CASE m \in Dirty
        <5> DEFINE q == kept[m]
        <5>1. q \in Size(u) .. Size(disk[m].live) /\ c(m) = Cut(disk[m].live, q)
          BY <4>4, <1>2 DEF c
        <5> HIDE DEF q, u
        <5>2. /\ q \div 2 \in Len(u.lines) .. Len(disk[m].live.lines)
              /\ Cut(disk[m].live, q).lines = SubSeq(disk[m].live.lines, 1, q \div 2)
          BY <4>1, <5>1, CutWithin
        <5> DEFINE j == q \div 2
        <5>3. j \in x .. n /\ c(m).lines = SubSeq(L, 1, j)
          BY <5>1, <5>2 DEF L, n
        <5> HIDE DEF j, x
        <5>4. j \in 0 .. n /\ Len(log) <= m + j
          BY <5>3, <4>2, <4>3, <2>2, <1>1
        <5>5. QED
          BY <5>3, <5>4
      <4>5. CASE m \notin Dirty
        <5>1. c(m) = u
          BY <4>5 DEF c
        <5> HIDE DEF u, x
        <5>2. x \in 0 .. n /\ x = Len(u.lines) /\ x \in 0 .. Len(L)
          BY <4>2, <2>2, <2>6 DEF x
        <5>3. SubSeq(L, 1, x) = u.lines
          <6>1. /\ SubSeq(L, 1, x) \in Seq(Line \cup {Garbage}) /\ Len(SubSeq(L, 1, x)) = x
                /\ \A i \in 1 .. x : SubSeq(L, 1, x)[i] = L[i]
            BY <5>2, <2>2, PrefixIs
          <6>2. \A i \in 1 .. Len(u.lines) : SubSeq(L, 1, x)[i] = u.lines[i]
            BY <6>1, <4>2, <5>2
          <6>3. QED
            BY <6>1, <6>2, <4>2, <5>2, SameIs
        <5>4. QED
          BY <5>1, <5>2, <5>3, <4>3
      <4>6. QED
        BY <4>4, <4>5
    <3>4. ~ Fresh(m)
      BY <2>2 DEF Fresh
    <3>5. QED
      BY <3>1, <3>2, <3>3, <3>4, <2>2, <1>7
  <2>10. PICK j \in 0 .. n : c(m).lines = SubSeq(L, 1, j) /\ Len(log) <= m + j
    BY <2>9
  <2>11. PICK V : V = SubSeq(W, 1, m + j)
    OBVIOUS
  <2>12. m + j \in 0 .. Len(W) /\ Lays(disk', V)
    <3>1. j \in 0 .. Len(disk[m].live.lines) /\ disk'[m].live.lines = SubSeq(disk[m].live.lines, 1, j)
      BY <2>10, <1>4 DEF n, L
    <3>2. \A s \in Segments(disk') : s # m => disk'[s].live = disk[s].live
      BY <2>5, <1>4
    <3>3. QED
      BY <3>1, <3>2, <2>2, <2>4, <2>11, <1>1, LaysCut
  <2>13. Precedes(log, V)
    BY <2>10, <2>11, <2>12, <1>1, LongEnough
  <2>14. QED
    BY <2>12, <2>13, <1>1, <1>5, GoneStands
<1>14. QED
  BY <1>12, <1>13

-----------------------------------------------------------------------------
(* What a power cut would leave, step by step.                             *)

\* When all is settled a power cut leaves what is read.
LEMMA SettledPlatter ==
  ASSUME \A s \in Segments(disk') : OnPlatter(s)', pc' \notin Appending
  PROVE  Platter'
  BY DEF Platter, Appending

\* All is settled outside of a repair's cut and a wave.
LEMMA PlatterIsSettled ==
  ASSUME Platter, pc \notin Appending, pc # "sync_cut"
  PROVE  \A s \in Segments(disk) : OnPlatter(s)
  BY DEF Platter, CutNow, Grown, Fresh, Appending

\* A wave is planned on files that are settled, and one that needs no new
\* directory entry goes to the handle's segment alone.
LEMMA PlannedPlatter ==
  ASSUME TypeOK, DiskOK(disk'), \A s \in Segments(disk') : OnPlatter(s)', NEW W, HandleAt(disk', handle, W),
         Segments(disk') = Segments(disk), NEW n \in Nat \ {0}, NEW o \in BOOLEAN,
         wave' = Planned(handle, n, o), handle' = handle, pc' = "write"
  PROVE  Platter'
<1>1. /\ wave'.lines = Drafted(handle, n) /\ wave'.seg = [i \in 1 .. n |-> SegmentOf(handle, i)]
      /\ wave'.created = Created(handle, wave'.seg)
  BY DEF Planned
<1>2. DOMAIN wave'.lines = 1 .. n /\ DOMAIN wave'.seg = 1 .. n
  BY <1>1 DEF Drafted
<1>3. ASSUME ~ wave'.created
      PROVE  handle.seg \in Segments(disk') /\ AllSegments' \subseteq {handle.seg}
  <2>1. ~ Created(handle, wave'.seg)
    BY <1>1, <1>3
  <2>2. \A i \in 1 .. n : wave'.seg[i] = handle.seg
    BY <2>1, <1>2 DEF Created
  <2>3. AllSegments' \subseteq {handle.seg}
    BY <2>2, <1>2 DEF AllSegments
  <2>4. handle.len # 0 \/ handle.seg \in Segments(disk')
    BY <2>1 DEF Created
  <2>5. Segments(disk') # {}
    BY <2>4 DEF HandleAt
  <2>6. handle.seg \in Segments(disk')
    BY <2>5, SegmentChoice DEF HandleAt
  <2>7. QED
    BY <2>3, <2>6
<1>4. QED
  BY <1>3 DEF Platter, Appending

\* Once the tail is repaired all is settled, also for the wave open appends.
LEMMA AfterRepairPlatter ==
  ASSUME TypeOK, DiskOK(disk'), \A s \in Segments(disk') : OnPlatter(s)', NEW W, HandleAt(disk', handle, W),
         Segments(disk') = Segments(disk), handle' = handle, AfterRepair(disk')
  PROVE  Platter'
<1>1. CASE pc' = "idle"
  BY <1>1, SettledPlatter DEF Appending
<1>2. CASE wave' = Planned(handle, 1, TRUE) /\ pc' = "write"
  <2>1. 1 \in Nat \ {0} /\ TRUE \in BOOLEAN
    OBVIOUS
  <2>2. QED
    BY <2>1, <1>2, PlannedPlatter
<1>3. QED
  BY <1>1, <1>2 DEF AfterRepair, Opened

\* open and its repair.
LEMMA RepairPlatter ==
  ASSUME IndInv, IndInv', NEW W, StandsOn(W), Platter,
         Open \/ Truncate \/ SyncCut \/ Remove \/ SyncRemoval
  PROVE  Platter'
<1>1. TypeOK /\ DiskOK(disk) /\ DiskOK(disk') /\ Lays(disk, W)
  BY DEF IndInv, StandsOn
<1>2. CASE Open
  <2>1. \A s \in Segments(disk) : OnPlatter(s)
    BY <1>2, PlatterIsSettled DEF Open, Appending
  <2>2. disk' = disk /\ pc' \notin Appending
    BY <1>2 DEF Open, Opened, Appending
  <2>3. \A s \in Segments(disk') : OnPlatter(s)'
    BY <2>1, <2>2 DEF OnPlatter
  <2>4. QED
    BY <2>2, <2>3, SettledPlatter
<1>3. CASE Truncate
  <2>0. PICK z : z = LastSegment(disk)
    OBVIOUS
  <2>1. /\ \A s \in Segments(disk) : OnPlatter(s)
        /\ pc = "truncate" /\ pc' = "sync_cut" /\ disk' = VfsTruncate(disk, z, keep) /\ RepairAt(W)
    BY <1>3, <2>0, PlatterIsSettled DEF Truncate, Appending, StandsOn
  <2>2. z \in Segments(disk) /\ keep = 2 * Len(disk[z].live.lines)
    BY <1>1, <2>0, <2>1, SegmentChoice DEF RepairAt
  <2>3. /\ Segments(disk') = Segments(disk)
        /\ \A t \in Segments(disk) : t # z => disk'[t] = disk[t]
        /\ disk'[z].live = Cut(disk[z].live, keep) /\ disk'[z].durable = disk[z].durable
        /\ disk'[z].durable_entry = disk[z].durable_entry
    BY <1>1, <2>1, <2>2, TruncateIs
  <2>4. LastSegment(disk') = z
    BY <2>0, <2>3, SameSegments
  <2>5. disk'[z].live.lines = disk[z].live.lines
    <3> DEFINE c == disk[z].live
    <3>1. c.lines \in Seq(Line \cup {Garbage}) /\ Len(c.lines) \in Nat
      BY <1>1, <2>2, FileFacts
    <3> HIDE DEF c
    <3>2. keep \div 2 = Len(c.lines)
      <4>1. \A n \in Nat : (2 * n) \div 2 = n
        OBVIOUS
      <4>2. QED
        BY <4>1, <3>1, <2>2 DEF c
    <3>3. Cut(c, keep).lines = SubSeq(c.lines, 1, keep \div 2)
      BY Zenon DEF Cut
    <3>4. QED
      BY <3>1, <3>2, <3>3, <2>3, WholePrefix DEF c
  <2>6. CutNow(z)'
    BY <2>1, <2>2, <2>3, <2>4, <2>5 DEF CutNow, OnPlatter
  <2>7. \A t \in Segments(disk') : t # z => OnPlatter(t)'
    BY <2>1, <2>3 DEF OnPlatter
  <2>8. \A t \in Segments(disk') : OnPlatter(t)' \/ CutNow(t)'
    BY <2>6, <2>7
  <2>9. QED
    BY <2>1, <2>8 DEF Platter, Appending
<1>4. CASE SyncCut
  <2> DEFINE z == LastSegment(disk)
  <2>1. pc = "sync_cut" /\ disk' = VfsSyncData(disk, z) /\ RepairAt(W) /\ handle' = handle
    BY <1>4 DEF SyncCut, StandsOn
  <2>2. z \in Segments(disk)
    BY <1>1, <2>1, SegmentChoice DEF RepairAt
  <2>3. /\ Segments(disk') = Segments(disk) /\ disk'[z].durable = disk[z].live
        /\ \A t \in Segments(disk) : /\ disk'[t].live = disk[t].live
                                     /\ disk'[t].durable_entry = disk[t].durable_entry
                                     /\ t # z => disk'[t].durable = disk[t].durable
    BY <1>1, <2>1, <2>2, SyncDataIs
  <2>4. \A t \in Segments(disk) : disk[t].durable_entry /\ (t # z => OnPlatter(t))
    BY <2>1 DEF Platter, CutNow, Grown, Fresh, Appending, OnPlatter
  <2>5. \A s \in Segments(disk') : OnPlatter(s)'
    BY <2>3, <2>4 DEF OnPlatter
  <2>6. CASE keep = 0
    BY <1>4, <2>5, <2>6, SettledPlatter DEF SyncCut, Appending
  <2>7. CASE keep # 0
    <3>1. AfterRepair(disk')
      BY <1>4, <2>7 DEF SyncCut
    <3>2. HandleAt(disk, handle, W)
      BY <2>1, <2>2, <2>7 DEF RepairAt, HandleAt
    <3>3. HandleAt(disk', handle, W)
      BY <1>1, <2>3, <3>2, HandleSame
    <3>4. QED
      BY <1>1, <2>1, <2>3, <2>5, <3>1, <3>3, AfterRepairPlatter
  <2>8. QED
    BY <2>6, <2>7
<1>5. CASE Remove
  <2>1. \A s \in Segments(disk) : OnPlatter(s)
    BY <1>5, PlatterIsSettled DEF Remove, Appending
  <2>2. pc' = "sync_removal" /\ disk' = VfsRemove(disk, LastSegment(disk))
    BY <1>5 DEF Remove
  <2>3. \A s \in Segments(disk') : s \in Segments(disk) /\ disk'[s] = disk[s]
    BY <2>2, RemoveIs
  <2>4. \A s \in Segments(disk') : OnPlatter(s)'
    BY <2>1, <2>3 DEF OnPlatter
  <2>5. QED
    BY <2>2, <2>4, SettledPlatter DEF Appending
<1>6. CASE SyncRemoval
  <2>1. \A s \in Segments(disk) : OnPlatter(s)
    BY <1>6, PlatterIsSettled DEF SyncRemoval, Appending
  <2>2. /\ HandleAt(disk, handle, W) /\ disk' = VfsSyncDir(disk) /\ handle' = handle
        /\ AfterRepair(disk')
    BY <1>6 DEF SyncRemoval, StandsOn
  <2>3. /\ Segments(disk') = Segments(disk)
        /\ \A t \in Segments(disk) : /\ disk'[t].live = disk[t].live /\ disk'[t].durable = disk[t].durable
                                     /\ disk'[t].durable_entry
    BY <1>1, <2>2, SyncDirIs
  <2>4. \A s \in Segments(disk') : OnPlatter(s)'
    BY <2>1, <2>3 DEF OnPlatter
  <2>5. HandleAt(disk', handle, W)
    BY <1>1, <2>2, <2>3, HandleSame
  <2>6. QED
    BY <1>1, <2>2, <2>3, <2>4, <2>5, AfterRepairPlatter
<1>7. QED
  BY <1>2, <1>3, <1>4, <1>5, <1>6

\* A wave is planned when all is settled.
LEMMA AppendAllPlatter ==
  ASSUME IndInv, IndInv', NEW W, StandsOn(W), Platter, NEW n \in 1 .. MaxWave, AppendAll(n)
  PROVE  Platter'
<1>1. /\ TypeOK /\ DiskOK(disk) /\ disk' = disk /\ handle' = handle /\ pc' = "write" /\ pc = "idle"
      /\ HandleAt(disk, handle, W)
  BY DEF IndInv, StandsOn, AppendAll
<1>2. wave' = Planned(handle, n, FALSE)
  BY Zenon DEF AppendAll
<1>3. \A s \in Segments(disk') : OnPlatter(s)'
  <2>1. \A s \in Segments(disk) : OnPlatter(s)
    BY <1>1, PlatterIsSettled DEF Appending
  <2>2. QED
    BY <2>1, <1>1 DEF OnPlatter
<1>4. n \in Nat \ {0} /\ FALSE \in BOOLEAN /\ DiskOK(disk') /\ HandleAt(disk', handle, W)
      /\ Segments(disk') = Segments(disk)
  BY <1>1
<1>5. QED
  BY <1>1, <1>2, <1>3, <1>4, PlannedPlatter

\* A write goes behind what the segment under the handle has on the platter,
\* or to a segment that a power cut takes away whole.
LEMMA WritePlatter ==
  ASSUME IndInv, NEW W, StandsOn(W), Platter, Write
  PROVE  Platter'
<1>1. /\ TypeOK /\ WaveOK /\ DiskOK(disk) /\ pc = "write" /\ WaveAt(W) /\ Lays(disk, W)
      /\ wave \in Waves /\ handle' = handle
  BY DEF IndInv, TypeOK, StandsOn, Write, Appending
<1>2. PICK k \in 0 .. Len(wave.lines) : WaveHas(W, k)
  BY <1>1 DEF WaveAt
<1>0. PICK s : s = Current
  OBVIOUS
<1>3. /\ LinesFor(s) \in Seq(Line)
      /\ s \in wave.todo /\ s \in AllSegments /\ s \in Nat
  BY <1>0, <1>1, CurrentType, LinesForType
<1>4. /\ s \in Segments(disk) => s = LastSegment(disk) /\ s = handle.seg /\ k = 0
      /\ s \notin Segments(disk) => handle.next_seq <= s
      /\ \A t \in Segments(disk) : t <= s
  BY <1>0, <1>1, <1>2, WritePlace
<1>5. PICK ls \in Seq(Line) : ls = LinesFor(s)
  BY <1>3
<1>6. PICK c : c = Appended(Read(disk, s), ls)
  OBVIOUS
<1>7. /\ Segments(disk') = Segments(disk) \cup {s}
      /\ \A t \in Segments(disk) : t # s => disk'[t] = disk[t]
      /\ disk'[s].live = c
      /\ s \in Segments(disk) => /\ disk'[s].durable = disk[s].durable
                                 /\ disk'[s].durable_entry = disk[s].durable_entry
      /\ s \notin Segments(disk) => ~ disk'[s].durable_entry
  <2>1. disk' = VfsAppend(disk, s, c)
    BY <1>0, <1>5, <1>6 DEF Write
  <2>2. QED
    BY <2>1, <1>1, VfsAppendIs
<1>8. /\ wave'.seg = wave.seg /\ wave'.created = wave.created
      /\ \/ pc' = "sync" /\ wave.todo = {s} /\ wave'.todo = AllSegments
         \/ pc' = "write" /\ wave'.todo = wave.todo \ {s}
  BY <1>0, <1>1 DEF Write, Waves
<1>9. AllSegments' = AllSegments
  BY <1>8 DEF AllSegments
<1>10. /\ pc' \in {"write", "sync"} /\ pc' \in Appending
  BY <1>8 DEF Appending
<1>11. \A t \in Segments(disk') : disk'[t].durable_entry => t \in Segments(disk) /\ disk[t].durable_entry
  BY <1>7
<1>12. ASSUME NEW t \in Segments(disk), t # s
       PROVE  OnPlatter(t)' \/ Grown(t)' \/ Fresh(t)'
  <2>1. OnPlatter(t) \/ Grown(t) \/ Fresh(t)
    BY <1>1 DEF Platter, CutNow
  <2>2. disk'[t] = disk[t]
    BY <1>7, <1>12
  <2>3. OnPlatter(t) => OnPlatter(t)'
    BY <2>2 DEF OnPlatter
  <2>4. Grown(t) => Grown(t)'
    BY <2>2, <1>1, <1>10, <1>11 DEF Grown
  <2>5. Fresh(t) => Fresh(t)'
    BY <2>2, <1>1, <1>8, <1>10, <1>11 DEF Fresh
  <2>6. QED
    BY <2>1, <2>3, <2>4, <2>5
<1>13. ASSUME s \in Segments(disk)
       PROVE  Grown(s)'
  <2>1. OnPlatter(s)
    BY <1>1, <1>3, <1>13 DEF Platter
  <2>2. HandleAt(disk, handle, W) /\ ~ disk[s].live.torn
    BY <1>2, <1>4, <1>13 DEF WaveHas
  <2>3. s + Len(disk[s].live.lines) = handle.next_seq
    <3>1. s + Len(disk[s].live.lines) = Len(W)
      BY <1>1, <1>4, <1>13, LaysEnd
    <3>2. QED
      BY <2>2, <3>1 DEF HandleAt
  <2>4. Precedes(disk[s].live.lines, c.lines)
    <3>1. PICK u \in Seq(Line \cup {Garbage}) : u = disk[s].live.lines
      BY <1>1, <1>13, FileFacts
    <3>2. c.lines = u \o ls
      BY <2>2, <3>1, <1>6, <1>13 DEF Appended, Read
    <3>3. ls \in Seq(Line \cup {Garbage})
      BY <1>5
    <3>4. /\ Len(u \o ls) = Len(u) + Len(ls)
          /\ \A i \in 1 .. Len(u) : (u \o ls)[i] = u[i]
      BY <3>1, <3>3, JoinIs
    <3>5. Len(u) \in Nat /\ Len(ls) \in Nat
      BY <3>1, <3>3
    <3>6. QED
      BY <3>1, <3>2, <3>4, <3>5 DEF Precedes
  <2>5. disk'[s].durable = disk[s].live /\ disk'[s].durable_entry
    BY <2>1, <1>7, <1>13 DEF OnPlatter
  <2>6. \A t \in Segments(disk') : disk'[t].durable_entry => t <= s
    BY <1>4, <1>11
  <2>7. Precedes(disk'[s].durable.lines, disk'[s].live.lines)
    BY <2>4, <2>5, <1>7
  <2>8. s = handle'.seg /\ s + Len(disk'[s].durable.lines) = handle'.next_seq /\ ~ disk'[s].durable.torn
    BY <2>2, <2>3, <2>5, <1>1, <1>4, <1>13
  <2>9. QED
    BY <2>5, <2>6, <2>7, <2>8, <1>10 DEF Grown
<1>14. ASSUME s \notin Segments(disk)
       PROVE  Fresh(s)'
  <2>1. wave.created
    <3>1. wave.created \/ (handle.seg \in Segments(disk) /\ AllSegments \subseteq {handle.seg})
      BY <1>1 DEF Platter, Appending
    <3>2. QED
      BY <3>1, <1>3, <1>14
  <2>2. ~ disk'[s].durable_entry /\ handle'.next_seq <= s
    BY <1>1, <1>4, <1>7, <1>14
  <2>3. \A t \in Segments(disk') : disk'[t].durable_entry => t < s
    <3>1. \A t \in Segments(disk) : t \in Nat /\ t # s /\ t <= s
      BY <1>1, <1>4, <1>14 DEF DiskOK
    <3>2. QED
      BY <3>1, <1>3, <1>11
  <2>4. QED
    BY <2>1, <2>2, <2>3, <1>8, <1>10 DEF Fresh
<1>15. \A t \in Segments(disk') : OnPlatter(t)' \/ Grown(t)' \/ Fresh(t)'
  BY <1>7, <1>12, <1>13, <1>14
<1>16. ASSUME NEW t \in Segments(disk'), t # s, t \notin AllSegments \ wave.todo
       PROVE  OnPlatter(t)'
  <2>1. OnPlatter(t) /\ disk'[t] = disk[t]
    BY <1>1, <1>7, <1>16 DEF Platter
  <2>2. QED
    BY <2>1 DEF OnPlatter
<1>17. pc' = "write" => \A t \in Segments(disk') : t \notin AllSegments' \ wave'.todo => OnPlatter(t)'
  <2> SUFFICES ASSUME pc' = "write", NEW t \in Segments(disk'), t \notin AllSegments' \ wave'.todo
               PROVE  OnPlatter(t)'
    OBVIOUS
  <2>1. wave'.todo = wave.todo \ {s}
    BY <1>8
  <2>2. t # s /\ t \notin AllSegments \ wave.todo
    BY <2>1, <1>3, <1>9
  <2>3. QED
    BY <2>2, <1>16
<1>18. pc' = "sync" => \A t \in Segments(disk') \ wave'.todo : disk'[t].durable = disk'[t].live
  <2> SUFFICES ASSUME pc' = "sync", NEW t \in Segments(disk') \ wave'.todo
               PROVE  disk'[t].durable = disk'[t].live
    OBVIOUS
  <2>1. wave'.todo = AllSegments
    BY <1>8
  <2>2. t # s /\ t \notin AllSegments \ wave.todo
    BY <2>1, <1>3
  <2>3. QED
    BY <2>2, <1>16 DEF OnPlatter
<1>19. ~ wave'.created => handle'.seg \in Segments(disk') /\ AllSegments' \subseteq {handle'.seg}
  <2>1. ~ wave.created => handle.seg \in Segments(disk) /\ AllSegments \subseteq {handle.seg}
    BY <1>1 DEF Platter, Appending
  <2>2. QED
    BY <2>1, <1>1, <1>7, <1>8, <1>9
<1>20. QED
  BY <1>10, <1>15, <1>17, <1>18, <1>19 DEF Platter

\* A sync settles what it syncs, and the directory's sync what was created.
LEMMA SyncPlatter ==
  ASSUME IndInv, Platter, Sync
  PROVE  Platter'
<1>1. TypeOK /\ WaveOK /\ DiskOK(disk) /\ pc = "sync" /\ wave \in Waves
  BY DEF IndInv, TypeOK, Sync
<1>0. PICK s : s = Current
  OBVIOUS
<1>2. s \in wave.todo /\ s \in Segments(disk)
  BY <1>0, <1>1, CurrentType DEF WaveOK
<1>3. /\ Segments(disk') = Segments(disk) /\ disk'[s].durable = disk[s].live
      /\ \A t \in Segments(disk) : /\ disk'[t].live = disk[t].live
                                   /\ disk'[t].durable_entry = disk[t].durable_entry
                                   /\ t # s => disk'[t].durable = disk[t].durable
  <2>1. disk' = VfsSyncData(disk, s)
    BY <1>0 DEF Sync
  <2>2. QED
    BY <2>1, <1>1, <1>2, SyncDataIs
<1>4. \A t \in Segments(disk) : OnPlatter(t) \/ Grown(t) \/ Fresh(t)
  BY <1>1 DEF Platter, CutNow
<1>5. \A t \in Segments(disk) : t \notin wave.todo \ {s} => disk'[t].durable = disk'[t].live
  <2>1. \A t \in Segments(disk) : t \notin wave.todo => disk[t].durable = disk[t].live
    BY <1>1 DEF Platter
  <2>2. QED
    BY <2>1, <1>3
<1>6. ~ wave.created => handle.seg \in Segments(disk) /\ AllSegments \subseteq {handle.seg}
  BY <1>1 DEF Platter, Appending
<1>7. \A t \in Segments(disk) : disk[t].durable_entry => OnPlatter(t) \/ Grown(t)
  BY <1>4 DEF Fresh
<1>8. ASSUME NEW t \in Segments(disk), Fresh(t), pc' \in Appending, handle' = handle,
             wave'.created = wave.created
      PROVE  Fresh(t)'
  <2>1. ~ disk'[t].durable_entry /\ \A u \in Segments(disk') : disk'[u].durable_entry => u < t
    BY <1>3, <1>8 DEF Fresh
  <2>2. QED
    BY <2>1, <1>8 DEF Fresh
<1>9. CASE wave.todo # {s} /\ wave' = [wave EXCEPT !.todo = @ \ {s}] /\ UNCHANGED <<handle, pc>>
  <2>1. wave'.created = wave.created /\ wave'.todo = wave.todo \ {s} /\ wave'.seg = wave.seg
    BY <1>1, <1>9 DEF Waves
  <2>2. pc' = "sync" /\ handle' = handle /\ AllSegments' = AllSegments
    BY <2>1, <1>1, <1>9 DEF AllSegments
  <2>3. ASSUME NEW t \in Segments(disk)
        PROVE  OnPlatter(t)' \/ Grown(t)' \/ Fresh(t)'
    <3>1. CASE Fresh(t)
      BY <2>1, <2>2, <3>1, <1>8 DEF Appending
    <3>2. CASE t = s /\ disk[t].durable_entry
      BY <3>2, <1>3 DEF OnPlatter
    <3>3. CASE t # s /\ OnPlatter(t)
      BY <3>3, <1>3 DEF OnPlatter
    <3>4. CASE t # s /\ Grown(t)
      <4>1. disk'[t].live = disk[t].live /\ disk'[t].durable = disk[t].durable
            /\ disk'[t].durable_entry = disk[t].durable_entry
        BY <3>4, <1>3
      <4>2. \A u \in Segments(disk') : disk'[u].durable_entry => u <= t
        BY <3>4, <1>3 DEF Grown
      <4>3. QED
        BY <3>4, <4>1, <4>2, <2>2 DEF Grown
    <3>5. QED
      BY <3>1, <3>2, <3>3, <3>4, <1>4 DEF OnPlatter, Grown
  <2>4. \A t \in Segments(disk') \ wave'.todo : disk'[t].durable = disk'[t].live
    BY <2>1, <1>3, <1>5
  <2>5. ~ wave'.created => handle'.seg \in Segments(disk') /\ AllSegments' \subseteq {handle'.seg}
    BY <2>1, <2>2, <1>3, <1>6
  <2>6. \A t \in Segments(disk') : OnPlatter(t)' \/ Grown(t)' \/ Fresh(t)'
    BY <2>3, <1>3
  <2>7. QED
    BY <2>2, <2>4, <2>5, <2>6 DEF Platter
<1>10. CASE wave.todo = {s}
  <2>1. \A t \in Segments(disk') : disk'[t].durable = disk'[t].live
    BY <1>3, <1>5, <1>10
  <2>2. \A t \in Segments(disk) : OnPlatter(t)' \/ Fresh(t)
    BY <2>1, <1>3, <1>4 DEF OnPlatter, Grown
  <2>3. CASE pc' = "sync_dir" /\ UNCHANGED <<handle, wave>>
    <3>1. \A t \in Segments(disk') : OnPlatter(t)' \/ Fresh(t)'
      BY <2>2, <2>3, <1>3, <1>8 DEF Appending
    <3>2. AllSegments' = AllSegments
      BY <2>3 DEF AllSegments
    <3>3. ~ wave'.created => handle'.seg \in Segments(disk') /\ AllSegments' \subseteq {handle'.seg}
      BY <2>3, <3>2, <1>3, <1>6
    <3>4. QED
      BY <2>1, <2>3, <3>1, <3>3 DEF Platter
  <2>4. CASE ~ wave.created /\ Acknowledge(disk')
    <3>1. \A t \in Segments(disk') : OnPlatter(t)'
      BY <2>2, <2>4, <1>3 DEF Fresh
    <3>2. pc' = "idle"
      BY <2>4 DEF Acknowledge
    <3>3. QED
      BY <3>1, <3>2, SettledPlatter DEF Appending
  <2>5. QED
    BY <2>3, <2>4, <1>0, <1>10 DEF Sync
<1>11. QED
  BY <1>0, <1>9, <1>10 DEF Sync

\* The directory's sync settles what the wave created.
LEMMA SyncDirPlatter ==
  ASSUME IndInv, Platter, SyncDir
  PROVE  Platter'
<1>1. DiskOK(disk) /\ pc = "sync_dir" /\ disk' = VfsSyncDir(disk) /\ pc' = "idle"
  BY DEF IndInv, SyncDir, Acknowledge
<1>2. \A t \in Segments(disk) : disk[t].durable = disk[t].live
  BY <1>1 DEF Platter
<1>3. \A t \in Segments(disk') : OnPlatter(t)'
  BY <1>1, <1>2, SyncDirIs DEF OnPlatter
<1>4. QED
  BY <1>1, <1>3, SettledPlatter DEF Appending

\* A city closed between two commands leaves all settled.
LEMMA ClosePlatter ==
  ASSUME Platter, Close
  PROVE  Platter'
<1>1. pc = "idle" /\ pc' = "off" /\ disk' = disk
  BY DEF Close, Gone
<1>2. \A t \in Segments(disk) : OnPlatter(t)
  BY <1>1, PlatterIsSettled DEF Appending
<1>3. \A t \in Segments(disk') : OnPlatter(t)'
  BY <1>1, <1>2 DEF OnPlatter
<1>4. QED
  BY <1>1, <1>3, SettledPlatter DEF Appending

-----------------------------------------------------------------------------
(* A city through faults of one kind.                                      *)

\* The ledger is a newer build's, and nothing was ever read of it; or it is
\* what this build wrote, which reads as one history, and on which power cuts
\* have nothing to take but the end of what was not answered for.
Stands ==
    OneKind =>
        \/ Untouched /\ log = << >>
        \/ (\E W : StandsOn(W)) /\ (kind = "power" => Platter)

\* The inductive invariant of behaviours whose faults are of one kind.
KindInv == IndInv /\ kind \in {"power", "kill", "mixed"} /\ Stands

\* A city begins with no segments, or with a newer build's.
LEMMA KindInitInv == KindInit => KindInv /\ log = << >>
<1> SUFFICES ASSUME KindInit
             PROVE  KindInv /\ log = << >>
  OBVIOUS
<1>1. /\ IndInv /\ log = << >> /\ pc = "off" /\ kind \in {"power", "kill", "mixed"}
      /\ disk = << >> \/ \E b \in BOOLEAN : disk = NewerLedger(b)
  BY InitInv DEF KindInit, Init
<1>2. CASE disk = << >>
  <2>1. Segments(disk) = {}
    BY <1>2 DEF Segments
  <2>2. Lays(disk, << >>)
    BY <2>1, LaysNothing
  <2>3. StandsOn(<< >>)
    BY <2>2, <1>1 DEF StandsOn, Precedes, Appending
  <2>4. Platter
    BY <2>1, <1>1 DEF Platter, Appending
  <2>5. QED
    BY <2>3, <2>4, <1>1 DEF KindInv, Stands
<1>3. CASE \E b \in BOOLEAN : disk = NewerLedger(b)
  BY <1>1, <1>3 DEF KindInv, Stands, Untouched
<1>4. QED
  BY <1>1, <1>2, <1>3

\* A newer build's ledger stays as it is, and refused.
LEMMA UntouchedStays ==
  ASSUME IndInv, Untouched, Next
  PROVE  Untouched' /\ log' = log
<1>1. PICK b \in BOOLEAN : disk = NewerLedger(b)
  BY DEF Untouched
<1>2. pc \in {"off", "refused"}
  BY DEF Untouched
<1>3. open_refuses(disk) /\ Segments(disk) # {}
  BY <1>1, NewerIsRefused, NewerLedgerFacts
<1>4. Open \/ PowerCut
  BY <1>2 DEF Next, Truncate, SyncCut, Remove, SyncRemoval, AppendAll, Write, Sync,
              SyncDir, Close, Kill, IoError, Repairing
<1>5. CASE Open
  <2>1. pc' = "refused" /\ log' = log /\ disk' = disk
    BY <1>3, <1>5 DEF Open
  <2>2. QED
    BY <2>1, <1>1 DEF Untouched
<1>6. CASE PowerCut
  <2>1. disk' = disk
    BY <1>6, PowerCutInv
  <2>2. pc' = "off" /\ log' = log
    BY <1>6 DEF PowerCut, Stop, Gone
  <2>3. QED
    BY <2>1, <2>2, <1>1 DEF Untouched
<1>7. QED
  BY <1>4, <1>5, <1>6

\* Every step of a city that stands on a history leaves it standing on one.
LEMMA StandsStep ==
  ASSUME IndInv, IndInv', kind \in {"power", "kill"}, NEW W, StandsOn(W), kind = "power" => Platter, KindNext
  PROVE  (\E V : StandsOn(V)') /\ (log' = log \/ Grew) /\ (kind = "power" => Platter')
<1>1. CASE Open \/ Truncate \/ SyncCut \/ Remove \/ SyncRemoval
  <2>1. StandsOn(W)' /\ (log' = log \/ Grew)
    BY <1>1, OpenStands, TruncateStands, SyncCutStands, RemoveStands, SyncRemovalStands
  <2>2. kind = "power" => Platter'
    BY <1>1, RepairPlatter
  <2>3. QED
    BY <2>1, <2>2
<1>2. ASSUME NEW n \in 1 .. MaxWave, AppendAll(n)
      PROVE  (\E V : StandsOn(V)') /\ (log' = log \/ Grew) /\ (kind = "power" => Platter')
  BY <1>2, AppendAllStands, AppendAllPlatter
<1>3. CASE Write
  BY <1>3, WriteStands, WritePlatter
<1>4. CASE Sync \/ SyncDir
  <2>1. StandsOn(W)' /\ (log' = log \/ Grew)
    BY <1>4, SyncStands
  <2>2. kind = "power" => Platter'
    BY <1>4, SyncPlatter, SyncDirPlatter
  <2>3. QED
    BY <2>1, <2>2
<1>5. CASE Close
  BY <1>5, CloseStands, ClosePlatter
<1>6. CASE kind = "power" /\ PowerCut
  BY <1>6, PowerCutStands
<1>7. CASE kind = "kill" /\ Kill
  BY <1>7, KillStands
<1>8. QED
  BY <1>1, <1>2, <1>3, <1>4, <1>5, <1>6, <1>7 DEF KindNext

\* Through faults of one kind a city stands on its history, which only grows.
LEMMA KindNextInv ==
  ASSUME KindInv, [KindNext]_<<vars, kind>>
  PROVE  KindInv' /\ kind' = kind /\ (OneKind => log' = log \/ Grew)
<1>1. IndInv' /\ kind' = kind /\ (KindNext => Next)
  <2>1. KindNext => Next /\ kind' = kind
    BY DEF KindNext, Next
  <2>2. [Next]_vars /\ kind' = kind
    BY <2>1
  <2>3. QED
    BY <2>1, <2>2, NextInv DEF KindInv
<1>2. CASE ~ OneKind
  BY <1>1, <1>2 DEF KindInv, Stands, OneKind
<1>3. CASE OneKind /\ KindNext /\ Untouched /\ log = << >>
  <2>1. Untouched' /\ log' = log
    BY <1>1, <1>3, UntouchedStays DEF KindInv
  <2>2. QED
    BY <2>1, <1>1, <1>3 DEF KindInv, Stands
<1>4. CASE OneKind /\ KindNext /\ (\E W : StandsOn(W)) /\ (kind = "power" => Platter)
  <2>1. PICK W : StandsOn(W)
    BY <1>4
  <2>2. kind \in {"power", "kill"} /\ IndInv
    BY <1>4 DEF KindInv, OneKind
  <2>3. (\E V : StandsOn(V)') /\ (log' = log \/ Grew) /\ (kind = "power" => Platter')
    BY <2>1, <2>2, <1>1, <1>4, StandsStep
  <2>4. QED
    BY <2>3, <1>1 DEF KindInv, Stands
<1>5. CASE UNCHANGED <<vars, kind>>
  <2>1. Untouched => Untouched'
    BY <1>5 DEF Untouched, vars
  <2>2. \A W : StandsOn(W) => StandsOn(W)'
    BY <1>5 DEF StandsOn, RepairAt, WaveAt, WaveHas, vars
  <2>3. Platter => Platter'
    BY <1>5 DEF Platter, OnPlatter, CutNow, Grown, Fresh, AllSegments, vars
  <2>4. log' = log /\ kind' = kind
    BY <1>5 DEF vars
  <2>5. QED
    BY <2>1, <2>2, <2>3, <2>4, <1>1 DEF KindInv, Stands, OneKind
<1>6. QED
  BY <1>1, <1>2, <1>3, <1>4, <1>5 DEF KindInv, Stands

\* Only a newer build's ledger is refused.
LEMMA StandsOpen == KindInv => CityOpens
<1> SUFFICES ASSUME KindInv, OneKind, pc = "refused"
             PROVE  Newer
  BY DEF CityOpens, RefusedIsNewer
<1>1. Untouched
  BY DEF KindInv, Stands, StandsOn
<1>2. PICK b \in BOOLEAN : disk = NewerLedger(b)
  BY <1>1 DEF Untouched
<1>3. 0 \in Segments(disk) /\ disk[0].live.lines[1].v = 2 /\ disk[0].live.lines # << >>
  BY <1>2, NewerLedgerFacts
<1>4. QED
  BY <1>3 DEF Newer

\* Between two commands all is settled: what is read is what is on the platter.
LEMMA StandsOnPlatter == KindInv => PowerLeavesItStanding
<1> SUFFICES ASSUME KindInv, kind = "power", pc = "idle"
             PROVE  /\ Chained(log)
                    /\ handle.next_seq = Len(log)
                    /\ handle.prev = IF log = << >> THEN GENESIS_PREV ELSE chain_hash(log[Len(log)])
                    /\ \A q \in 0 .. Len(log) - 1 :
                          \E s \in Segments(disk) :
                              /\ s <= q /\ q < s + Len(Kept(s))
                              /\ Kept(s)[q - s + 1] = log[q + 1]
  BY DEF PowerLeavesItStanding, StandsOnThePlatter
<1>1. ~ Untouched
  BY DEF Untouched
<1>2. (\E W : StandsOn(W)) /\ Platter
  BY <1>1 DEF KindInv, Stands, OneKind
<1>3. /\ Lays(disk, log) /\ HandleAt(disk, handle, log)
      /\ \A s \in Segments(disk) : OnPlatter(s)
      /\ DiskOK(disk)
  BY <1>2, PlatterIsSettled DEF KindInv, IndInv, StandsOn, Appending
<1>4. ASSUME NEW q \in 0 .. Len(log) - 1
      PROVE  \E s \in Segments(disk) : /\ s <= q /\ q < s + Len(Kept(s))
                                       /\ Kept(s)[q - s + 1] = log[q + 1]
  <2>1. PICK s \in Segments(disk) : s <= q /\ q < s + Len(disk[s].live.lines)
    BY <1>3 DEF Lays
  <2>2. PICK ls : ls = disk[s].live.lines
    OBVIOUS
  <2>3. Kept(s) = ls
    BY <2>2, <1>3 DEF Kept, OnPlatter
  <2>4. \A i \in 1 .. Len(ls) : ls[i] = log[s + i]
    BY <2>2, <1>3 DEF Lays
  <2>5. Len(ls) \in Nat /\ s \in Nat /\ q \in Int
    BY <2>2, <1>3, FileFacts
  <2>6. q - s + 1 \in 1 .. Len(ls) /\ s + (q - s + 1) = q + 1
    BY <2>1, <2>2, <2>5
  <2>7. ls[q - s + 1] = log[q + 1]
    BY <2>4, <2>6
  <2>8. QED
    BY <2>1, <2>2, <2>3, <2>7
<1>5. QED
  BY <1>3, <1>4 DEF Lays, HandleAt, TipOf

\* Through power cuts or through kills, memory::jsonl's open never answers its
\* own segments with an error, and every line append_all answered Ok for is on
\* the platter, where its number says, with the handle right behind the last.
THEOREM CityStandsAlways == KindSpec => []CityStands
<1>1. KindInit => KindInv
  BY KindInitInv
<1>2. KindInv /\ [KindNext]_<<vars, kind>> => KindInv'
  BY KindNextInv
<1>3. KindInv => CityStands
  BY StandsOpen, StandsOnPlatter DEF CityStands, KindInv, IndInv
<1>4. QED
  BY <1>1, <1>2, <1>3, PTL DEF KindSpec

\* The adapter implements what the Ledger port promises: to who reads it, its
\* history is only ever extended, by lines that keep the chain.
THEOREM LedgerImplementsLog == KindSpec => HistoryIsKept
<1>1. KindInit => KindInv /\ Promised!Init
  BY KindInitInv DEF Promised!Init
<1>2. KindInv /\ [KindNext]_<<vars, kind>> => KindInv'
  BY KindNextInv
<1>3. KindInv /\ [KindNext]_<<vars, kind>> => [Promised!Extend]_(IF OneKind THEN log ELSE << >>)
  <2> SUFFICES ASSUME KindInv, [KindNext]_<<vars, kind>>
               PROVE  [Promised!Extend]_(IF OneKind THEN log ELSE << >>)
    OBVIOUS
  <2>1. kind' = kind /\ (OneKind => log' = log \/ Grew)
    BY KindNextInv
  <2>2. OneKind' <=> OneKind
    BY <2>1 DEF OneKind
  <2>3. QED
    BY <2>1, <2>2 DEF Promised!Extend, Promised!Precedes, Promised!Chained,
                      Promised!GENESIS_PREV, Promised!chain_hash, Grew, Precedes, Chained
<1>4. QED
  BY <1>1, <1>2, <1>3, PTL DEF KindSpec, HistoryIsKept, Promised!Spec
=============================================================================
