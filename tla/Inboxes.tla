------------------------------ MODULE Inboxes ------------------------------
(* Signals between residents: the rooms' queues in memory, the lines on the  *)
(* ledger they are folded from, and the desk a run borrows its room's queue  *)
(* through (collab::inbox, collab::signal_tool, memory::queue, and the       *)
(* lending, settling and folding of crates/sprawling/src/assembly).          *)
(*                                                                           *)
(* A run reads and sends through its desk, which only notes what happened;   *)
(* after the drive the worker puts the queue back, appends one line per      *)
(* effect, and then delivers what was sent. A restarted process keeps none   *)
(* of this and rebuilds every queue from the lines: enqueued minus consumed. *)
EXTENDS Naturals, Sequences, SequencesExt

CONSTANTS Addresses, NoAddress,
          Capacity,    \* INBOX_CAPACITY, per lane
          Bandwidth,   \* SIGNAL_BANDWIDTH: signals one pull takes
          Blanks,      \* whether a signal may carry no text
          InboxFaults, \* of "crash", "append" (a line is refused), "unready"
          MaxSignals   \* bound: signals ever sent

ASSUME SignalsAssumption ==
  /\ NoAddress \notin Addresses
  /\ Capacity \in Nat /\ Bandwidth \in Nat \ {0} /\ MaxSignals \in Nat
  /\ Blanks \subseteq BOOLEAN
  /\ InboxFaults \subseteq {"crash", "append", "unready"}

Lanes == {"urgent", "ordinary"}

Signal == [id : 1 .. MaxSignals, room : Addresses, lane : Lanes, blank : Blanks]

Line == [op : {"enqueued", "consumed"}, signal : Signal]

NoSignals == [l \in Lanes |-> <<>>]

VARIABLES ledger,   \* the signal lines of the history
          inboxes,  \* RunWorker::inboxes; a room out on loan reads as empty
          stage,    \* "idle", "opening", "driving", "recording"
          lent,     \* the room whose queue a desk holds
          desk,     \* SignalDesk::inbox
          effects,  \* SignalDesk::effects, then what is left of the landing
          sent,     \* what the landing delivers once all lines are recorded
          minted,   \* signal ids given out
          strayed   \* history: what has parted the queues from the ledger since
                    \* this process began

inboxVars == <<ledger, inboxes, stage, lent, desk, effects, sent, minted, strayed>>

InboxTypeOK ==
  /\ ledger \in Seq(Line)
  /\ inboxes \in [Addresses -> [Lanes -> Seq(Signal)]]
  /\ stage \in {"idle", "opening", "driving", "recording"}
  /\ lent \in Addresses \cup {NoAddress}
  /\ desk \in [Lanes -> Seq(Signal)]
  /\ effects \in Seq(Line)
  /\ sent \in Seq(Signal)
  /\ minted \in 0 .. MaxSignals
  /\ strayed \subseteq {"shed", "dropped", "blank", "refused"}

-----------------------------------------------------------------------------
(* EventQueue::enqueue after kernel::admit: a full lane sheds the new item.  *)
(* Ids are minted once, so the queue's own duplicate check never fires.      *)
deliver(boxes, s) ==
  IF Len(boxes[s.room][s.lane]) < Capacity
    THEN [boxes EXCEPT ![s.room][s.lane] = Append(@, s)]
    ELSE boxes

(* Signals delivered one after the other.                                    *)
Delivered(boxes, signals) ==
  LET upTo[n \in 0 .. Len(signals)] ==
        IF n = 0 THEN boxes ELSE deliver(upTo[n - 1], signals[n])
  IN  upTo[Len(signals)]

(* A full lane shed one of these.                                            *)
Shed(boxes, signals) ==
  \E i \in 1 .. Len(signals) :
    signals[i] \notin Range(Delivered(boxes, signals)[signals[i].room][signals[i].lane])

(* The signals these lines say were sent, but those with an id of `but`.     *)
Enqueued(lines, but) ==
  LET upTo[n \in 0 .. Len(lines)] ==
        IF n = 0 THEN <<>>
        ELSE IF lines[n].op = "enqueued" /\ lines[n].signal.id \notin but
               THEN Append(upTo[n - 1], lines[n].signal)
               ELSE upTo[n - 1]
  IN  upTo[Len(lines)]

Consumed(l) == {l[i].signal.id : i \in {j \in 1 .. Len(l) : l[j].op = "consumed"}}

Unread_All(l) == Enqueued(l, {})

(* CollaborationFold::settle: what a restart delivers, in ledger order.      *)
Unread(l) == Enqueued(l, Consumed(l))

Empty == [r \in Addresses |-> NoSignals]

Rebuilt(l) == Delivered(Empty, Unread(l))

(* A lane of the rebuilt queues had to shed.                                 *)
Overflows(l) == Shed(Empty, Unread(l))

InboxesInit ==
  /\ ledger = <<>>
  /\ inboxes = Empty
  /\ stage = "idle" /\ lent = NoAddress
  /\ desk = NoSignals /\ effects = <<>> /\ sent = <<>>
  /\ minted = 0 /\ strayed = {}

-----------------------------------------------------------------------------
(* open_desks: the room's queue is taken out of the map.                     *)
open_desks(r) ==
  /\ stage = "idle"
  /\ lent' = r
  /\ desk' = inboxes[r]
  /\ inboxes' = [inboxes EXCEPT ![r] = NoSignals]
  /\ stage' = "opening"
  /\ UNCHANGED <<ledger, effects, sent, minted, strayed>>

(* The rest of the dispatch is laid out, and the drive starts - or one of    *)
(* the `?` between the loan and settle_desks returns (a roadmap or an        *)
(* archive that cannot be read, a plan that will not freeze, a checkpoint    *)
(* that will not open) and the desk is dropped with the queue in it.         *)
Ready ==
  /\ stage = "opening"
  /\ stage' = "driving"
  /\ UNCHANGED <<ledger, inboxes, lent, desk, effects, sent, minted, strayed>>

Unready ==
  /\ stage = "opening" /\ "unready" \in InboxFaults
  /\ stage' = "idle" /\ lent' = NoAddress /\ desk' = NoSignals
  /\ UNCHANGED <<ledger, inboxes, effects, sent, minted>>
  /\ strayed' = strayed \cup {"dropped"}

(* SignalDesk::send.                                                         *)
send(to, lane, blank) ==
  /\ stage = "driving" /\ minted < MaxSignals
  /\ minted' = minted + 1
  /\ LET s == [id |-> minted + 1, room |-> to, lane |-> lane, blank |-> blank]
     IN  effects' = Append(effects, [op |-> "enqueued", signal |-> s])
  /\ UNCHANGED <<ledger, inboxes, stage, lent, desk, sent, strayed>>

Read(taken) == effects \o [i \in 1 .. Len(taken) |->
                             [op |-> "consumed", signal |-> taken[i]]]

pull_Unnoted ==
  /\ stage = "driving" /\ desk # NoSignals
  /\ LET u == IF Len(desk["urgent"]) < Bandwidth THEN Len(desk["urgent"]) ELSE Bandwidth
         room == Bandwidth - u
         o == IF Len(desk["ordinary"]) < room THEN Len(desk["ordinary"]) ELSE room
     IN  /\ effects' = Read(SubSeq(desk["urgent"], 1, u))
         /\ desk' = [desk EXCEPT !["urgent"] = SubSeq(@, u + 1, Len(@)),
                                 !["ordinary"] = SubSeq(@, o + 1, Len(@))]
  /\ UNCHANGED <<ledger, inboxes, stage, lent, sent, minted, strayed>>

(* SignalDesk::pull: at most Bandwidth signals, the urgent lane first.       *)
pull ==
  /\ stage = "driving" /\ desk # NoSignals
  /\ LET u == IF Len(desk["urgent"]) < Bandwidth THEN Len(desk["urgent"]) ELSE Bandwidth
         room == Bandwidth - u
         o == IF Len(desk["ordinary"]) < room THEN Len(desk["ordinary"]) ELSE room
     IN  /\ effects' = Read(SubSeq(desk["urgent"], 1, u)
                              \o SubSeq(desk["ordinary"], 1, o))
         /\ desk' = [desk EXCEPT !["urgent"] = SubSeq(@, u + 1, Len(@)),
                                 !["ordinary"] = SubSeq(@, o + 1, Len(@))]
  /\ UNCHANGED <<ledger, inboxes, stage, lent, sent, minted, strayed>>

(* SignalDesk::take_steer at a safe point. A steer with no text is no steer: *)
(* it is taken, and the `?` returns before anything is noted.                *)
take_steer ==
  /\ stage = "driving" /\ desk["urgent"] # <<>>
  /\ LET s == Head(desk["urgent"])
     IN  effects' = IF s.blank THEN effects ELSE Read(<<s>>)
  /\ desk' = [desk EXCEPT !["urgent"] = Tail(@)]
  /\ UNCHANGED <<ledger, inboxes, stage, lent, sent, minted>>
  /\ strayed' = IF Head(desk["urgent"]).blank THEN strayed \cup {"blank"} ELSE strayed

-----------------------------------------------------------------------------
(* settle_desks: the queue comes home, and a landing is made of the effects. *)
settle_desks ==
  /\ stage = "driving"
  /\ inboxes' = [inboxes EXCEPT ![lent] = desk]
  /\ sent' = Enqueued(effects, {})
  /\ lent' = NoAddress /\ desk' = NoSignals
  /\ stage' = "recording"
  /\ UNCHANGED <<ledger, effects, minted, strayed>>

(* Landing::record: the lines, one append each.                              *)
record ==
  /\ stage = "recording" /\ effects # <<>>
  /\ ledger' = Append(ledger, Head(effects))
  /\ effects' = Tail(effects)
  /\ UNCHANGED <<inboxes, stage, lent, desk, sent, minted, strayed>>

(* An append refused: `?` leaves the rest unrecorded and delivers nothing.   *)
RecordFails ==
  /\ stage = "recording" /\ effects # <<>> /\ "append" \in InboxFaults
  /\ effects' = <<>> /\ sent' = <<>>
  /\ stage' = "idle"
  /\ UNCHANGED <<ledger, inboxes, lent, desk, minted>>
  /\ strayed' = strayed \cup {"refused"}

(* settle on Then::Deliver, once every line is on the ledger.                *)
Deliver ==
  /\ stage = "recording" /\ effects = <<>>
  /\ inboxes' = Delivered(inboxes, sent)
  /\ sent' = <<>>
  /\ stage' = "idle"
  /\ UNCHANGED <<ledger, lent, desk, effects, minted>>
  /\ strayed' = IF Shed(inboxes, sent) THEN strayed \cup {"shed"} ELSE strayed

(* deliver_handback: a child's account, recorded and then delivered.         *)
deliver_handback(r) ==
  /\ stage = "idle" /\ minted < MaxSignals /\ FALSE \in Blanks
  /\ minted' = minted + 1
  /\ LET s == [id |-> minted + 1, room |-> r, lane |-> "ordinary", blank |-> FALSE]
     IN  /\ ledger' = Append(ledger, [op |-> "enqueued", signal |-> s])
         /\ inboxes' = deliver(inboxes, s)
  /\ UNCHANGED <<stage, lent, desk, effects, sent>>
  /\ strayed' = IF Len(inboxes[r]["ordinary"]) = Capacity THEN strayed \cup {"shed"} ELSE strayed

(* The process dies and RunWorker::over folds the history again. A signal    *)
(* that was read and whose line was not written is waiting again.            *)
Restart ==
  /\ "crash" \in InboxFaults
  /\ inboxes' = Rebuilt(ledger)
  /\ stage' = "idle" /\ lent' = NoAddress
  /\ desk' = NoSignals /\ effects' = <<>> /\ sent' = <<>>
  /\ UNCHANGED <<ledger, minted>>
  /\ strayed' = IF Overflows(ledger) THEN {"shed"} ELSE {}

InboxesNext ==
  \/ \E r \in Addresses : open_desks(r) \/ deliver_handback(r)
  \/ Ready \/ Unready
  \/ \E to \in Addresses, lane \in Lanes, blank \in Blanks : send(to, lane, blank)
  \/ pull \/ take_steer \/ settle_desks \/ record \/ RecordFails \/ Deliver
  \/ Restart

-----------------------------------------------------------------------------
(* Properties.                                                               *)

Agree == inboxes = Rebuilt(ledger)

(* What a worker holds is what a restart rebuilds: between dispatches every  *)
(* queue is exactly the fold of the ledger, in order ("it is the same answer *)
(* a fresh city would reach from the same lines", folds.rs), until a full    *)
(* lane sheds, a dispatch drops its desk, a blank steer is taken or an       *)
(* append is refused; and a restart mends all but the first.                 *)
InboxIsTheLedger == stage = "idle" /\ strayed = {} => Agree

(* The history never says twice that one signal was read, nor that one was   *)
(* read before it was sent: whatever is lost in memory, a restart offers     *)
(* only what no line has settled.                                            *)
ConsumedOnce ==
  \A i \in 1 .. Len(ledger) : ledger[i].op = "consumed" =>
    /\ \E j \in 1 .. i - 1 : ledger[j] = [op |-> "enqueued", signal |-> ledger[i].signal]
    /\ \A j \in 1 .. i - 1 : ledger[j] # ledger[i]

(* No signal is in two places: the queues at home, the desk's queue and the  *)
(* effects of reading never hold the same signal twice, so no resident reads *)
(* it twice in one process.                                                  *)
Queues ==
  [q \in (Addresses \cup {NoAddress}) \X Lanes |->
     IF q[1] = NoAddress THEN desk[q[2]] ELSE inboxes[q[1]][q[2]]]

OnePlaceEach ==
  LET reads == {i \in 1 .. Len(effects) : effects[i].op = "consumed"} IN
  /\ \A q \in DOMAIN Queues : IsInjective(Queues[q])
  /\ \A p, q \in DOMAIN Queues : p # q => Range(Queues[p]) \cap Range(Queues[q]) = {}
  /\ \A i, j \in reads : effects[i] = effects[j] => i = j
  /\ \A i \in reads, q \in DOMAIN Queues : effects[i].signal \notin Range(Queues[q])
=============================================================================
