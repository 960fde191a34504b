---------------------------- MODULE JsonlLedger ----------------------------
(***************************************************************************)
(* The durable Ledger adapter, memory::jsonl, over the filesystem model of *)
(* memory::fault_fs.  One process at a time holds the ledger; it opens it  *)
(* (probing the version and repairing a torn tail), then appends waves of  *)
(* lines, each wave one durability barrier.  Between any two filesystem    *)
(* operations the power may go ("power"), the process may be killed while  *)
(* the operating system lives on ("kill"), or the operation itself may     *)
(* fail and the process carry on ("io").                                   *)
(*                                                                         *)
(* A file's bytes are measured in half-lines: a line is written whole or   *)
(* torn in its middle.  What is told apart is exactly what the code tells  *)
(* apart: terminated lines, terminated lines that do not parse (a torn     *)
(* line with another written behind it), and an unterminated rest.         *)
(***************************************************************************)
EXTENDS LedgerChain, FiniteSets

CONSTANTS
    Roll,       \* roll_bytes, in half-lines
    MaxWave,    \* the most lines one append_all is given
    MaxDrafts,  \* bound: drafts given to append_all in a behaviour
    MaxFaults,  \* bound: faults in a behaviour
    Faults      \* which faults happen: a subset of {"power", "kill", "io"}

ASSUME ConstantsAssumption ==
    /\ Roll \in Nat \ {0} /\ MaxWave \in Nat \ {0}
    /\ MaxDrafts \in Nat /\ MaxFaults \in Nat
    /\ Faults \subseteq {"power", "kill", "io"}

VARIABLES
    log,        \* history: what open found, and what was appended since
    acked,      \* history: every line append_all answered Ok for
    disk,       \* the segment files, by the number segment_file_name gives them
    handle,     \* the open JsonlLedger: seg_path, seg_len, next_seq, prev
    pc,         \* which filesystem operation the process does next
    keep,       \* recover_tail: how many half-lines of the last segment stay
    wave,       \* append_all: its lines, where each goes, and what is left
    minted,     \* lines formatted so far: the id of the newest
    drafts,     \* drafts given to append_all so far
    faults      \* faults so far

vars == <<log, acked, disk, handle, pc, keep, wave, minted, drafts, faults>>

EVENT_LOG_V == 1
LineSize == 2

-----------------------------------------------------------------------------
(* Lines, file contents and files.                                         *)

Line == [v : 1 .. 2, seq : Nat, prev : Nat, id : Nat \ {0}]

\* A terminated line that EventRecord::parse_line refuses.
Garbage == [v |-> 0, seq |-> 0, prev |-> 0, id |-> 0]

parse_ok(entry) == entry.v # 0

\* complete_lines: the terminated lines, and whether bytes follow the last.
Content == [lines : Seq(Line \cup {Garbage}), torn : BOOLEAN]
Blank == [lines |-> << >>, torn |-> FALSE]

Size(c) == LineSize * Len(c.lines) + IF c.torn THEN 1 ELSE 0

\* The first k half-lines of c.
Cut(c, k) == [lines |-> SubSeq(c.lines, 1, k \div LineSize), torn |-> k % LineSize = 1]

\* Bytes written behind an unterminated rest are one line with it.
Appended(c, ls) ==
    [lines |-> c.lines \o (IF c.torn THEN <<Garbage>> \o Tail(ls) ELSE ls),
     torn  |-> FALSE]

\* fault_fs::FileState: what the process sees, what survives, the entry.
File == [durable_entry : BOOLEAN, live : Content, durable : Content]

NewFile(c) == [durable_entry |-> FALSE, live |-> c, durable |-> Blank]

-----------------------------------------------------------------------------
(* The Vfs operations, as what they make of the disk.                      *)

Segments(d) == DOMAIN d

\* Segment s, created if need be, now reads c.
VfsAppend(d, s, c) ==
    [t \in Segments(d) \cup {s} |->
        IF t # s THEN d[t]
        ELSE IF s \in Segments(d) THEN [d[s] EXCEPT !.live = c] ELSE NewFile(c)]

VfsTruncate(d, s, k) == [d EXCEPT ![s].live = Cut(@, k)]

VfsSyncData(d, s) == [d EXCEPT ![s].durable = d[s].live]

VfsSyncDir(d) == [s \in Segments(d) |-> [d[s] EXCEPT !.durable_entry = TRUE]]

VfsRemove(d, s) == [t \in Segments(d) \ {s} |-> d[t]]

\* The bytes read from segment s; an append creates it when absent.
Read(d, s) == IF s \in Segments(d) THEN d[s].live ELSE Blank

LastSegment(d) == CHOOSE s \in Segments(d) : \A t \in Segments(d) : t <= s
FirstSegment(d) == CHOOSE s \in Segments(d) : \A t \in Segments(d) : s <= t
Priors(d) == Segments(d) \ {LastSegment(d)}
Prior(d) == CHOOSE s \in Priors(d) : \A t \in Priors(d) : t <= s

\* The line a reader of the segments finds at position q.
HoldersOf(d, q) == {s \in Segments(d) : s <= q /\ q < s + Len(d[s].live.lines)}
LineAt(d, q) ==
    IF HoldersOf(d, q) = {} THEN Garbage
    ELSE LET s == CHOOSE h \in HoldersOf(d, q) : TRUE
         IN  d[s].live.lines[q - s + 1]
RawLines(d, n) == [i \in 1 .. n |-> LineAt(d, i - 1)]

-----------------------------------------------------------------------------
(* JsonlLedger::open: what the segments found on disk amount to.           *)

\* probe_version refuses the ledger.
probe_version_refuses_Never(d) == FALSE
probe_version_refuses(d) ==
    LET first == d[FirstSegment(d)].live.lines
    IN  /\ first # << >>
        /\ IF parse_ok(first[1]) THEN first[1].v > EVENT_LOG_V
                                 ELSE Priors(d) # {}

\* boundary: the segment before the last cannot be continued from.
boundary_refuses(d) ==
    /\ Priors(d) # {}
    /\ LET prior == d[Prior(d)].live.lines
       IN  prior # << >> => ~ parse_ok(prior[Len(prior)])

\* boundary: the chain state entering the last segment.
boundary(d) ==
    IF Priors(d) = {} THEN [prev |-> GENESIS_PREV, next_seq |-> 0]
    ELSE LET prior == d[Prior(d)].live.lines
             last  == prior[Len(prior)]
         IN  [prev |-> chain_hash(last), next_seq |-> last.seq + 1]

\* recover_tail: entry i of the last segment continues the chain.
Continues(d, i) ==
    LET lines == d[LastSegment(d)].live.lines
        from  == boundary(d)
    IN  /\ parse_ok(lines[i])
        /\ lines[i].v = EVENT_LOG_V
        /\ lines[i].seq = from.next_seq + i - 1
        /\ lines[i].prev = IF i = 1 THEN from.prev ELSE chain_hash(lines[i - 1])

\* recover_tail: how many lines of the last segment continue the chain.
ValidLines(d) ==
    LET n == Len(d[LastSegment(d)].live.lines)
    IN  CHOOSE k \in 0 .. n :
            /\ \A i \in 1 .. k : Continues(d, i)
            /\ k < n => ~ Continues(d, k + 1)

\* recover_tail: a bad first line is not tail damage when it parses, or
\* when an intact record follows it.
recover_tail_refuses(d) ==
    LET lines == d[LastSegment(d)].live.lines
    IN  /\ lines # << >>
        /\ ValidLines(d) = 0
        /\ \E i \in 1 .. Len(lines) : parse_ok(lines[i])

open_refuses(d) ==
    \/ probe_version_refuses(d)
    \/ boundary_refuses(d)
    \/ ~ boundary_refuses(d) /\ recover_tail_refuses(d)

\* recover_tail: bytes follow the last line that continues the chain.
TornTail_LinesOnly(d) == Len(d[LastSegment(d)].live.lines) > ValidLines(d)
TornTail(d) == Size(d[LastSegment(d)].live) > LineSize * ValidLines(d)

\* recover_tail: where the handle stands once the tail is repaired.
Recovered(d) ==
    LET last  == LastSegment(d)
        lines == d[last].live.lines
        k     == ValidLines(d)
        from  == boundary(d)
        back  == TornTail(d) /\ k = 0            \* the whole segment is removed
    IN  [seg  |-> IF ~ back THEN last ELSE IF Priors(d) = {} THEN 0 ELSE Prior(d),
         len  |-> IF ~ back THEN LineSize * k
                  ELSE IF Priors(d) = {} THEN 0 ELSE Size(d[Prior(d)].live),
         next_seq |-> from.next_seq + k,
         prev |-> IF k = 0 THEN from.prev ELSE chain_hash(lines[k])]

-----------------------------------------------------------------------------
(* append_all: how a wave of n lines is laid out.                          *)

SegmentCapacity == IF Roll \div LineSize = 0 THEN 1 ELSE Roll \div LineSize

\* How many more lines the handle's segment takes before it rolls.
Room(h) ==
    IF h.len = 0 THEN SegmentCapacity
    ELSE IF h.len >= Roll THEN 0 ELSE (Roll - h.len) \div LineSize

\* The segment line i of a wave goes to: named by the first line it holds.
SegmentOf_NamedByWave(h, i) == IF i <= Room(h) THEN h.seg ELSE h.next_seq
SegmentOf(h, i) ==
    IF i <= Room(h) THEN h.seg
    ELSE h.next_seq + Room(h) + ((i - 1 - Room(h)) \div SegmentCapacity) * SegmentCapacity

\* The lines EventRecord::from_draft makes of n drafts.
Drafted(h, n) ==
    [i \in 1 .. n |-> [v    |-> EVENT_LOG_V,
                       seq  |-> h.next_seq + i - 1,
                       prev |-> IF i = 1 THEN h.prev ELSE minted + i - 1,
                       id   |-> minted + i]]

NoWave == [lines |-> << >>, seg |-> << >>, todo |-> {}, created |-> FALSE, opening |-> FALSE]

\* Some segment the wave goes to has no directory entry yet.
Created(h, seg) ==
    \/ h.len = 0 /\ h.seg \notin Segments(disk)
    \/ \E i \in DOMAIN seg : seg[i] # h.seg

\* The wave as append_all plans it before its first write.
Planned(h, n, opening) ==
    LET seg == [i \in 1 .. n |-> SegmentOf(h, i)]
    IN  [lines   |-> Drafted(h, n),
         seg     |-> seg,
         todo    |-> {seg[i] : i \in 1 .. n},
         created |-> Created(h, seg),
         opening |-> opening]

\* The segment the next write or sync of the wave is about.
Current == CHOOSE s \in wave.todo : \A t \in wave.todo : s <= t

\* The lines of the wave that go to segment s, in order.
LinesFor(s) ==
    LET mine == {i \in 1 .. Len(wave.lines) : wave.seg[i] = s}
        from == CHOOSE i \in mine : \A j \in mine : i <= j
    IN  SubSeq(wave.lines, from, from + Cardinality(mine) - 1)

\* The handle append_all leaves when the whole wave is synced.
Advanced ==
    LET n    == Len(wave.lines)
        last == wave.seg[n]
        mine == Cardinality({i \in 1 .. n : wave.seg[i] = last})
    IN  [seg      |-> last,
         len      |-> LineSize * mine + IF last = handle.seg THEN handle.len ELSE 0,
         next_seq |-> handle.next_seq + n,
         prev     |-> chain_hash(wave.lines[n])]

-----------------------------------------------------------------------------
(* Actions.                                                                *)

NoHandle == [seg |-> 0, len |-> 0, next_seq |-> 0, prev |-> GENESIS_PREV]

\* A ledger a newer build began (fixtures/ledger-v2), whole, or with the
\* segment it rolled to torn before its first line.
NewerLedger(beheaded) ==
    LET first == [lines |-> <<[v |-> EVENT_LOG_V + 1, seq |-> 0, prev |-> GENESIS_PREV, id |-> 1]>>,
                  torn  |-> FALSE]
        rest  == [lines |-> << >>, torn |-> TRUE]
        settled(c) == [durable_entry |-> TRUE, live |-> c, durable |-> c]
    IN  [s \in IF beheaded THEN {0, 1} ELSE {0} |-> settled(IF s = 0 THEN first ELSE rest)]

Init ==
    /\ log = << >> /\ acked = {}
    /\ \/ disk = << >>
       \/ \E beheaded \in BOOLEAN : disk = NewerLedger(beheaded)
    /\ handle = NoHandle
    /\ pc = "off"
    /\ keep = 0
    /\ wave = NoWave
    /\ minted = 0 /\ drafts = 0
    /\ faults = 0

\* Open returns Ok: from here on the process stands on what it found.
Opened(d, h) ==
    /\ pc' = "idle"
    /\ log' = RawLines(d, h.next_seq)

\* append_log_truncated, or straight to Ok when the ledger is empty.
AfterRepair(d) ==
    \/ /\ handle.next_seq = 0
       /\ Opened(d, handle)
       /\ UNCHANGED <<wave, minted>>
    \/ /\ handle.next_seq # 0
       /\ wave' = Planned(handle, 1, TRUE)
       /\ minted' = minted + 1
       /\ pc' = "write"
       /\ UNCHANGED log

\* JsonlLedger::open up to its first write: list, probe, boundary, and the
\* scan of recover_tail.
Open ==
    /\ pc \in {"off", "refused"}
    /\ \/ /\ Segments(disk) = {}
          /\ handle' = NoHandle
          /\ keep' = 0
          /\ Opened(disk, NoHandle)
       \/ /\ Segments(disk) # {}
          /\ open_refuses(disk)
          /\ pc' = "refused"
          /\ UNCHANGED <<log, handle, keep>>
       \/ /\ Segments(disk) # {}
          /\ ~ open_refuses(disk)
          /\ handle' = Recovered(disk)
          /\ keep' = LineSize * ValidLines(disk)
          /\ IF TornTail(disk)
             THEN pc' = "truncate" /\ UNCHANGED log
             ELSE Opened(disk, handle')
    /\ UNCHANGED <<acked, disk, wave, minted, drafts, faults>>

Truncate ==
    /\ pc = "truncate"
    /\ disk' = VfsTruncate(disk, LastSegment(disk), keep)
    /\ pc' = "sync_cut"
    /\ UNCHANGED <<log, acked, handle, keep, wave, minted, drafts, faults>>

SyncCut_CutsAgain ==
    /\ pc = "sync_cut"
    /\ disk' = VfsSyncData(disk, LastSegment(disk))
    /\ IF keep = 0 THEN pc' = "truncate" /\ UNCHANGED <<log, wave, minted>>
                   ELSE AfterRepair(disk')
    /\ UNCHANGED <<acked, handle, keep, drafts, faults>>
SyncCut ==
    /\ pc = "sync_cut"
    /\ disk' = VfsSyncData(disk, LastSegment(disk))
    /\ IF keep = 0 THEN pc' = "remove" /\ UNCHANGED <<log, wave, minted>>
                   ELSE AfterRepair(disk')
    /\ UNCHANGED <<acked, handle, keep, drafts, faults>>

Remove ==
    /\ pc = "remove"
    /\ disk' = VfsRemove(disk, LastSegment(disk))
    /\ pc' = "sync_removal"
    /\ UNCHANGED <<log, acked, handle, keep, wave, minted, drafts, faults>>

SyncRemoval ==
    /\ pc = "sync_removal"
    /\ disk' = VfsSyncDir(disk)
    /\ AfterRepair(disk')
    /\ UNCHANGED <<acked, handle, keep, drafts, faults>>

\* append_all plans its wave; nothing is written before all of it is laid out.
AppendAll(n) ==
    /\ pc = "idle"
    /\ drafts + n <= MaxDrafts
    /\ drafts' = drafts + n
    /\ wave' = Planned(handle, n, FALSE)
    /\ minted' = minted + n
    /\ pc' = "write"
    /\ UNCHANGED <<log, acked, disk, handle, keep, faults>>

\* The wave is synced: only now does the handle advance and anyone hear.
Acknowledge(d) ==
    /\ handle' = Advanced
    /\ wave' = NoWave
    /\ pc' = "idle"
    /\ log' = IF wave.opening THEN RawLines(d, handle'.next_seq) ELSE log \o wave.lines
    /\ acked' = acked \cup {wave.lines[i] : i \in DOMAIN wave.lines}

AllSegments == {wave.seg[i] : i \in DOMAIN wave.seg}

Write ==
    /\ pc = "write"
    /\ disk' = VfsAppend(disk, Current, Appended(Read(disk, Current), LinesFor(Current)))
    /\ IF wave.todo = {Current}
       THEN pc' = "sync" /\ wave' = [wave EXCEPT !.todo = AllSegments]
       ELSE pc' = "write" /\ wave' = [wave EXCEPT !.todo = @ \ {Current}]
    /\ UNCHANGED <<log, acked, handle, keep, minted, drafts, faults>>

Sync ==
    /\ pc = "sync"
    /\ disk' = VfsSyncData(disk, Current)
    /\ \/ /\ wave.todo # {Current}
          /\ wave' = [wave EXCEPT !.todo = @ \ {Current}]
          /\ UNCHANGED <<log, acked, handle, pc>>
       \/ /\ wave.todo = {Current} /\ wave.created
          /\ pc' = "sync_dir"
          /\ UNCHANGED <<log, acked, handle, wave>>
       \/ /\ wave.todo = {Current} /\ ~ wave.created
          /\ Acknowledge(disk')
    /\ UNCHANGED <<keep, minted, drafts, faults>>

SyncDir ==
    /\ pc = "sync_dir"
    /\ disk' = VfsSyncDir(disk)
    /\ Acknowledge(disk')
    /\ UNCHANGED <<keep, minted, drafts, faults>>

-----------------------------------------------------------------------------
(* Faults.                                                                 *)

\* The process is gone, and everything it held in memory with it.
Gone ==
    /\ pc' = "off"
    /\ handle' = NoHandle /\ keep' = 0 /\ wave' = NoWave
    /\ UNCHANGED <<log, acked, minted, drafts>>

Stop == Gone /\ faults' = faults + 1

\* The city is closed between two commands.
Close ==
    /\ pc = "idle"
    /\ Gone
    /\ UNCHANGED <<disk, faults>>

\* fault_fs::cut: a file without a durable entry vanishes; of the unsynced
\* delta of every other file some prefix reached the platter.
Lasting == {s \in Segments(disk) : disk[s].durable_entry}
Dirty == {s \in Lasting : Size(disk[s].live) > Size(disk[s].durable)}

PowerCut ==
    /\ "power" \in Faults /\ faults < MaxFaults
    /\ \E kept \in [Dirty -> 0 .. LineSize * (MaxDrafts + MaxFaults + 1)] :
        /\ \A s \in Dirty : kept[s] \in Size(disk[s].durable) .. Size(disk[s].live)
        /\ disk' = [s \in Lasting |->
                      LET c == IF s \in Dirty THEN Cut(disk[s].live, kept[s])
                                              ELSE disk[s].durable
                      IN  [durable_entry |-> TRUE, live |-> c, durable |-> c]]
    /\ Stop

\* A write that ends early has written some of its bytes: RealFs::append is
\* write_all.
HalfWritten ==
    LET now  == Read(disk, Current)
        then == Appended(now, LinesFor(Current))
    IN  \E k \in Size(now) .. Size(then) : disk' = VfsAppend(disk, Current, Cut(then, k))

\* The process dies and the machine does not: the files stay as they read.
Kill ==
    /\ "kill" \in Faults /\ faults < MaxFaults
    /\ \/ pc = "write" /\ HalfWritten
       \/ pc \notin {"off", "refused"} /\ UNCHANGED disk
    /\ Stop

\* A filesystem operation fails: append_all returns Err and leaves the handle
\* as it was.  Within open, open fails instead.
Repairing == {"truncate", "sync_cut", "remove", "sync_removal"}

IoError ==
    /\ "io" \in Faults /\ faults < MaxFaults
    /\ \/ pc = "write" /\ HalfWritten
       \/ pc \in {"sync", "sync_dir"} \cup Repairing /\ UNCHANGED disk
    /\ \/ /\ ~ wave.opening /\ pc \notin Repairing
          /\ pc' = "idle" /\ wave' = NoWave
          /\ faults' = faults + 1
          /\ UNCHANGED <<log, acked, handle, keep, minted, drafts>>
       \/ /\ wave.opening \/ pc \in Repairing
          /\ Stop

Next ==
    \/ Open \/ Truncate \/ SyncCut \/ Remove \/ SyncRemoval
    \/ \E n \in 1 .. MaxWave : AppendAll(n)
    \/ Write \/ Sync \/ SyncDir \/ Close
    \/ PowerCut \/ Kill \/ IoError

Spec == Init /\ [][Next]_vars

\* A started command runs to its end, and a stopped city is started again.
Steps == Open \/ Truncate \/ SyncCut \/ Remove \/ SyncRemoval \/ Write \/ Sync \/ SyncDir
FairSpec == Spec /\ WF_vars(Steps)

-----------------------------------------------------------------------------
(* Properties.                                                             *)

Phases == {"off", "refused", "truncate", "sync_cut", "remove", "sync_removal",
           "idle", "write", "sync", "sync_dir"}

Handles == [seg : Nat, len : Nat, next_seq : Nat, prev : Nat]

Waves == [lines : Seq(Line), seg : Seq(Nat), todo : SUBSET Nat,
          created : BOOLEAN, opening : BOOLEAN]

\* The state of memory::jsonl and of the filesystem below it.
TypeOK ==
    /\ log \in Seq(Line \cup {Garbage})
    /\ acked \subseteq Line
    /\ Segments(disk) \subseteq Nat
    /\ \A s \in Segments(disk) : disk[s] \in File
    /\ handle \in Handles
    /\ pc \in Phases
    /\ keep \in Nat
    /\ wave \in Waves
    /\ minted \in Nat /\ drafts \in 0 .. MaxDrafts /\ faults \in 0 .. MaxFaults

\* A wave append_all answered Ok for is in every history opened since
\* (memory-SPEC, the power-cut matrix: a wave that returned Ok survives).
AckedSurvives ==
    pc = "idle" => \A line \in acked : \E i \in DOMAIN log : log[i] = line

\* The ledger holds a line a newer build wrote.
Newer ==
    /\ 0 \in Segments(disk) /\ disk[0].live.lines # << >>
    /\ disk[0].live.lines[1].v > EVENT_LOG_V

\* Open answers with an error, and not with a repair, for a newer build's
\* ledger only.
RefusedIsNewer == pc = "refused" => Newer

\* The synced bytes of segment s, if its directory entry is synced too.
Kept(s) == IF disk[s].durable_entry THEN disk[s].durable.lines ELSE << >>

\* While the ledger is open, every line of its history is on the platter, in
\* the segment its number says, and the handle stands right behind the last.
StandsOnThePlatter ==
    pc = "idle" =>
        /\ Chained(log)
        /\ handle.next_seq = Len(log)
        /\ handle.prev = IF log = << >> THEN GENESIS_PREV ELSE chain_hash(log[Len(log)])
        /\ \A q \in 0 .. Len(log) - 1 :
              \E s \in Segments(disk) :
                              /\ s <= q /\ q < s + Len(Kept(s))
                              /\ Kept(s)[q - s + 1] = log[q + 1]

\* A ledger begun by a newer build is refused without a byte of it changing
\* (jsonl.rs, "the version probe fires before any repair").
NewerIsUntouched == [][Newer => disk' = disk]_disk

\* Once the faults are over a city that went down stands open again (or is
\* refused for its version): repair never runs forever.
RepairEnds == (pc # "idle") ~> (pc = "idle" \/ pc = "refused")
=============================================================================
