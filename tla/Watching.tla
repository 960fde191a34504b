------------------------------ MODULE Watching ------------------------------
(***************************************************************************)
(* How a person sees the city: the worker's write observer folds every     *)
(* record into the views and then broadcasts it (sprawling::serving,       *)
(* sprawling::views), a socket session relays the broadcast and answers    *)
(* queries (channels::server), and a page folds what arrives into its own  *)
(* snapshot once per animation frame (web::mount, socket, pace, app,       *)
(* asking).                                                                *)
(*                                                                         *)
(* A record is its sequence number; what it says is kept only as far as    *)
(* the views tell records apart: an approval asked for, an approval        *)
(* answered, anything else.  A fold is determined by the set of records    *)
(* folded, so a view is that set.                                          *)
(***************************************************************************)
EXTENDS Naturals, FiniteSets, Sequences, SequencesExt

CONSTANTS
    Runs,         \* the runs records are about
    Ring,         \* the broadcast channel's capacity (1024 in serve)
    HISTORY_MAX,  \* the most records one history answer carries
    HELD_RECORDS, \* the most records a tab holds
    MaxRecords,   \* bound: records in the ledger
    MaxLoads,     \* bound: times the page is loaded
    MaxBreaks     \* bound: times the server stops or the connection breaks

ASSUME BoundsAssumption ==
    /\ {Ring, HISTORY_MAX, HELD_RECORDS, MaxRecords} \subseteq Nat \ {0}
    /\ {MaxLoads, MaxBreaks} \subseteq Nat

VARIABLES
    log,        \* the ledger's records, in order
    process,    \* how far `serve` has got
    observing,  \* what the write observer still does with the last record
    folded,     \* Views: the records folded so far
    missed,     \* history: what open_for_service wrote past the observer
    sent,       \* the broadcast channel: every record sent by this process
    session,    \* the socket session: its phase and its receiver's position
    lost,       \* history: the records this session's receiver lagged past
    toServer, toPage,  \* frames on the wire
    page,       \* the tab
    loads, breaks

server == <<process, observing, folded, missed, sent>>
wire == <<session, lost, toServer, toPage>>
vars == <<log, server, wire, page, loads, breaks>>

None == "none"
City == "city"
Kinds == {"requested", "resolved", "other"}

\* A tab reading no run is told from one that reads any.
ASSUME NamesAssumption == None \notin Runs

Written == 1 .. Len(log)

\* Views::apply's approvals: what was asked for and not answered since. One
\* approval at a time for a run, so the run names it.
Asking(records) ==
    {log[s].run : s \in {s \in records :
        /\ log[s].kind = "requested"
        /\ ~ \E t \in records : t > s /\ log[t].kind = "resolved" /\ log[t].run = log[s].run}}

\* The n newest of a set of records, and the n oldest.
Newest(records, n) == {s \in records : Cardinality({t \in records : t > s}) < n}
Oldest(records, n) == {s \in records : Cardinality({t \in records : t < s}) < n}

\* What a sequence has at some of its places, in order.
Picked(seq, places) ==
    LET upTo[n \in 0 .. Len(seq)] ==
            IF n = 0 THEN << >>
            ELSE IF n \in places THEN Append(upTo[n - 1], seq[n]) ELSE upTo[n - 1]
    IN  upTo[Len(seq)]

-----------------------------------------------------------------------------
(* The process: the views are rebuilt, the worker opens the city, and only *)
(* then is the observer installed.                                         *)

NoSession == [phase |-> None, next |-> 0]

NoPage ==
    [link |-> "idle", live |-> FALSE, buffer |-> << >>, shown |-> << >>,
     approvals |-> {}, held |-> {}, reading |-> None, asked |-> None,
     looked |-> FALSE, backfilled |-> FALSE]

Init ==
    /\ log = <<[run |-> City, kind |-> "other"]>>
    /\ process = "down" /\ observing = "nothing" /\ folded = {} /\ missed = {} /\ sent = << >>
    /\ session = NoSession /\ lost = {} /\ toServer = << >> /\ toPage = << >>
    /\ page = NoPage
    /\ loads = 0 /\ breaks = 0

\* rebuild_views: throw the views away and fold the ledger again.
rebuild_views ==
    /\ process = "down"
    /\ process' = "rebuilt"
    /\ folded' = Written /\ sent' = << >> /\ missed' = {} /\ observing' = "nothing"
    /\ UNCHANGED <<log, wire, page, loads, breaks>>

\* RunWorker::open_for_service: a notice, or a model seeded from the
\* environment, may be written before anybody observes.
open_for_service ==
    /\ process = "rebuilt"
    /\ process' = "opened"
    /\ \/ log' = log /\ missed' = {}
       \/ /\ Len(log) < MaxRecords
          /\ log' = Append(log, [run |-> City, kind |-> "other"])
          /\ missed' = {Len(log) + 1}
    /\ UNCHANGED <<observing, folded, sent, wire, page, loads, breaks>>

\* RunWorker::observe: from here on the observer hears every record.
observe ==
    /\ process = "opened"
    /\ process' = "serving"
    /\ UNCHANGED <<log, observing, folded, missed, sent, wire, page, loads, breaks>>

\* The worker appends a record, about a run or about the city; it is durable
\* before the observer runs.
append(run, kind) ==
    /\ process = "serving" /\ observing = "nothing"
    /\ Len(log) < MaxRecords
    /\ run = City => kind = "other"
    /\ (kind = "requested") => run \notin Asking(Written)
    /\ (kind = "resolved") => run \in Asking(Written)
    /\ log' = Append(log, [run |-> run, kind |-> kind])
    /\ observing' = "fold"
    /\ UNCHANGED <<process, folded, missed, sent, wire, page, loads, breaks>>

\* The observer: fold the record into the views under their lock ...
views_apply ==
    /\ observing = "fold"
    /\ folded' = folded \cup {Len(log)}
    /\ observing' = "send"
    /\ UNCHANGED <<log, process, missed, sent, wire, page, loads, breaks>>

\* Mutant: the record is sent before the views have folded it.
to_clients_send_First ==
    /\ observing = "fold" /\ Len(log) \notin ToSet(sent)
    /\ sent' = Append(sent, Len(log))
    /\ UNCHANGED <<log, process, observing, folded, missed, wire, page, loads, breaks>>

\* ... then send it to whoever listens.
to_clients_send ==
    /\ observing = "send"
    /\ sent' = Append(sent, Len(log))
    /\ observing' = "nothing"
    /\ UNCHANGED <<log, process, folded, missed, wire, page, loads, breaks>>

-----------------------------------------------------------------------------
(* The socket session.                                                     *)

Frame(is, about, records) == [is |-> is, about |-> about, records |-> records]
Query(is, about) == [is |-> is, about |-> about]

\* Views::history and Views::run_history, read off the ledger's own files.
history == Frame("history", City, Newest(Written, HISTORY_MAX))
run_history(run) ==
    Frame("history", run, Newest({s \in Written : log[s].run = run}, HISTORY_MAX))

\* Views::answer, under the views' lock.
answer(query) ==
    CASE query.is = "approvals" -> Frame("approvals", City, folded)
      [] query.is = "history" -> IF query.about = City THEN history ELSE run_history(query.about)

\* decide_frame: a hello opens the session, a query is answered.
hear ==
    /\ session.phase # None /\ toServer # << >>
    /\ LET frame == Head(toServer) IN
       \/ /\ session.phase = "hello" /\ frame.is = "hello"
          /\ session' = [session EXCEPT !.phase = "live"]
          /\ toPage' = Append(toPage, Frame("welcome", City, {}))
       \/ /\ session.phase = "live" /\ frame.is # "hello"
          /\ session' = session
          /\ toPage' = Append(toPage, answer(frame))
    /\ toServer' = Tail(toServer)
    /\ UNCHANGED <<log, server, lost, page, loads, breaks>>

\* events.recv(): the next record, relayed once the session is live; or the
\* receiver has lagged and skips to the oldest record the ring still has.
relay ==
    /\ session.phase # None /\ session.next <= Len(sent)
    /\ LET oldest == Len(sent) - Ring + 1 IN
       IF session.next < oldest
       THEN /\ session' = [session EXCEPT !.next = oldest]
            /\ lost' = lost \cup {sent[i] : i \in session.next .. oldest - 1}
            /\ toPage' = toPage
       ELSE /\ session' = [session EXCEPT !.next = @ + 1]
            /\ lost' = lost
            /\ toPage' = IF session.phase = "live"
                         THEN Append(toPage, Frame("event", City, {sent[session.next]}))
                         ELSE toPage
    /\ UNCHANGED <<log, server, toServer, page, loads, breaks>>

\* The connection ends. The page's link retreats to its backoff; the mount
\* carries out neither the wait nor the reopening the link asks for.
Disconnected ==
    /\ session' = NoSession /\ toServer' = << >> /\ toPage' = << >> /\ lost' = {}
    /\ page' = IF page.link = "idle" THEN page
               ELSE [page EXCEPT !.link = "backoff", !.live = FALSE]

break_connection ==
    /\ session.phase # None /\ breaks < MaxBreaks
    /\ breaks' = breaks + 1
    /\ Disconnected
    /\ UNCHANGED <<log, server, loads>>

\* The server process ends: the views, the channel and every session go.
stop ==
    /\ process # "down" /\ breaks < MaxBreaks
    /\ breaks' = breaks + 1
    /\ process' = "down" /\ observing' = "nothing" /\ folded' = {} /\ missed' = {} /\ sent' = << >>
    /\ Disconnected
    /\ UNCHANGED <<log, loads>>

-----------------------------------------------------------------------------
(* The page.                                                               *)

\* The person opens the page, or reloads it: a new tab, a new socket, and a
\* receiver that hears what is sent from now on. The listener is up once the
\* worker has said it is ready, which it says before it observes.
load ==
    /\ process \in {"opened", "serving"} /\ loads < MaxLoads
    /\ loads' = loads + 1
    /\ page' = [NoPage EXCEPT !.link = "handshaking"]
    /\ session' = [phase |-> "hello", next |-> Len(sent) + 1]
    /\ lost' = {} /\ toServer' = <<Query("hello", City)>> /\ toPage' = << >>
    /\ UNCHANGED <<log, server, breaks>>

\* Link::advance on one frame. The welcome makes the link live, and the tab
\* asks what happened before it opened; every other frame waits for a paint.
receive ==
    /\ toPage # << >>
    /\ LET frame == Head(toPage) IN
       \/ /\ page.link = "handshaking" /\ frame.is = "welcome"
          /\ page' = [page EXCEPT !.link = "live", !.live = TRUE]
          /\ toServer' = Append(toServer, Query("history", City))
       \/ /\ page.link = "live" /\ frame.is # "welcome"
          /\ page' = [page EXCEPT !.buffer = Append(@, frame)]
          /\ toServer' = toServer
    /\ toPage' = Tail(toPage)
    /\ UNCHANGED <<log, server, session, lost, loads, breaks>>

\* Mutant: a record already folded is folded again.
Fresh_Again(p, records) == records

\* Snapshot::apply on one record after another: what is not past everything
\* before it is dropped ...
Through(p) == IF p.shown = << >> THEN 0 ELSE Last(p.shown)

Fresh(p, records) ==
    Picked(records, {i \in DOMAIN records : /\ records[i] > Through(p)
                                            /\ \A j \in 1 .. i - 1 : records[j] < records[i]})

\* ... and of the records about one approval the last one decides.
apply(p, fresh) ==
    LET about(run) == {s \in ToSet(fresh) : log[s].run = run /\ log[s].kind # "other"}
    IN  [p EXCEPT
           !.shown = @ \o fresh,
           !.approvals = {run \in Runs : IF about(run) = {} THEN run \in @
                                         ELSE \E s \in Newest(about(run), 1) : log[s].kind = "requested"}]

\* Mutant: age alone decides what a full tab drops.
hold_OldestFirst(p, arriving) ==
    [p EXCEPT !.held = Newest(@ \cup arriving, HELD_RECORDS)]

\* asking::hold: at its bound, what is not being read gives way first.
hold(p, arriving) ==
    LET all == p.held \cup arriving
        excess(records) == IF Cardinality(records) > HELD_RECORDS
                           THEN Cardinality(records) - HELD_RECORDS ELSE 0
        others == IF p.reading = None THEN {} ELSE {s \in all : log[s].run # p.reading}
        kept == all \ Oldest(others, excess(all))
    IN  [p EXCEPT !.held = kept \ Oldest(kept, excess(kept))]

InOrder(records) == Picked([s \in Written |-> s], records)

\* Snapshot::backfill, of a page that has folded nothing, so that it drops
\* nothing; and the records kept either way.
backfill(p, frame) ==
    LET into == IF p.shown # << >> THEN p
                ELSE [apply(p, InOrder(frame.records)) EXCEPT !.backfilled = @ \/ frame.about = City]
    IN  hold(into, frame.records)

\* Snapshot::adopt_approvals.
adopt(p, frame) == [p EXCEPT !.approvals = Asking(frame.records)]

land(p, frame) == IF frame.is = "history" THEN backfill(p, frame) ELSE adopt(p, frame)

RecordOf(event) == CHOOSE s \in event.records : TRUE

\* pace::fold: every event, and of each kind of answer the last one, in the
\* place of the first.
Places(buffer, is) == {i \in DOMAIN buffer : buffer[i].is = is}
Events(buffer) == Picked(buffer, Places(buffer, "event"))
Answers(buffer) ==
    LET last(is) == {i \in Places(buffer, is) : \A j \in Places(buffer, is) : j <= i}
        latest(is) == Picked(buffer, last(is))
    IN  IF \E i \in Places(buffer, "history") : \A j \in Places(buffer, "approvals") : i < j
        THEN latest("history") \o latest("approvals")
        ELSE latest("approvals") \o latest("history")

\* Mutant: no event makes an answer stale.
AsksAgain_Never(buffer) == << >>

\* asking::invalidated_by: an event about an approval asks for the queue.
AsksAgain(buffer) ==
    [i \in 1 .. Cardinality({i \in Places(buffer, "event") : log[RecordOf(buffer[i])].kind # "other"})
       |-> Query("approvals", City)]

\* mount::apply_frame, one animation frame: its events, what they add to the
\* store, then its answers, of which there are two kinds. A query asked while
\* the socket is shut goes nowhere.
paint ==
    /\ page.buffer # << >>
    /\ \E frames \in {Events(page.buffer)}, answers \in {Answers(page.buffer)} :
       \E fresh \in {Fresh(page, [i \in DOMAIN frames |-> RecordOf(frames[i])])} :
       \E after \in {apply(page, fresh)} :
       \E kept \in {hold(after, ToSet(after.shown) \ ToSet(page.shown))} :
       \E first \in {IF answers = << >> THEN kept ELSE land(kept, answers[1])} :
       \E second \in {IF Len(answers) < 2 THEN first ELSE land(first, answers[2])} :
          page' = [second EXCEPT !.buffer = << >>]
    /\ toServer' = IF page.link = "live" THEN toServer \o AsksAgain(page.buffer) ELSE toServer
    /\ UNCHANGED <<log, server, session, lost, toPage, loads, breaks>>

\* The person opens one run's page.
watch(run) ==
    /\ page.link # "idle" /\ page.reading # run
    /\ page.reading = None
    /\ page' = [page EXCEPT !.reading = run]
    /\ UNCHANGED <<log, server, wire, loads, breaks>>

\* LiveView's effect: once the socket is live, ask for that run's history.
ask_run_history ==
    /\ page.live /\ page.reading # None /\ page.asked # page.reading
    /\ page' = [page EXCEPT !.asked = page.reading]
    /\ toServer' = Append(toServer, Query("history", page.reading))
    /\ UNCHANGED <<log, server, session, lost, toPage, loads, breaks>>

\* ApprovalsView's effect: the first time that page is shown live.
look_at_approvals ==
    /\ page.live /\ ~ page.looked
    /\ page' = [page EXCEPT !.looked = TRUE]
    /\ toServer' = Append(toServer, Query("approvals", City))
    /\ UNCHANGED <<log, server, session, lost, toPage, loads, breaks>>

-----------------------------------------------------------------------------
Next ==
    \/ rebuild_views \/ open_for_service \/ observe
    \/ \E run \in Runs \cup {City}, kind \in Kinds : append(run, kind)
    \/ views_apply \/ to_clients_send
    \/ hear \/ relay \/ break_connection \/ stop
    \/ load \/ receive \/ paint
    \/ \E run \in Runs : watch(run)
    \/ ask_run_history \/ look_at_approvals

Spec == Init /\ [][Next]_vars

\* The observer, the session and the browser each get on with what is ready.
FairSpec ==
    /\ Spec
    /\ WF_vars(views_apply) /\ WF_vars(to_clients_send)
    /\ WF_vars(hear) /\ WF_vars(relay)
    /\ WF_vars(receive) /\ WF_vars(paint)

-----------------------------------------------------------------------------
(* Properties.                                                             *)

Frames == [is : {"welcome", "event", "history", "approvals"}, about : Runs \cup {City},
           records : SUBSET Written]
Queries == [is : {"hello", "history", "approvals"}, about : Runs \cup {City}]

\* The state of the process, of the wire and of the tab; the tab's store
\* never passes its bound.
TypeOK ==
    /\ \A s \in Written : log[s].run \in Runs \cup {City} /\ log[s].kind \in Kinds
    /\ Len(log) <= MaxRecords
    /\ process \in {"down", "rebuilt", "opened", "serving"}
    /\ observing \in {"nothing", "fold", "send"}
    /\ folded \subseteq Written /\ missed \subseteq Written /\ lost \subseteq Written
    /\ ToSet(sent) \subseteq Written
    /\ session.phase \in {None, "hello", "live"} /\ session.next \in 0 .. Len(sent) + 1
    /\ ToSet(toPage) \subseteq Frames /\ ToSet(toServer) \subseteq Queries
    /\ page.link \in {"idle", "handshaking", "live", "backoff"}
    /\ page.live = (page.link = "live")
    /\ ToSet(page.buffer) \subseteq Frames
    /\ ToSet(page.shown) \subseteq Written /\ page.approvals \subseteq Runs
    /\ page.held \subseteq Written /\ Cardinality(page.held) <= HELD_RECORDS
    /\ page.reading \in Runs \cup {None} /\ page.asked \in Runs \cup {None}

\* A page is a reading of the ledger: history read off the files overlaps
\* with records still on their way, and none is folded twice (app.rs, "drops
\* any overlap for free").
Reading == INSTANCE LedgerView WITH written <- Len(log), shown <- page.shown
PageIsAReading == Reading!Spec

\* Between two records the views hold the whole ledger but for what was
\* written past the observer while the city opened.
ViewsMissOnlyTheOpening ==
    (process = "serving" /\ observing = "nothing") => folded = Written \ missed

\* An answer is never older than an event ahead of it on the wire: the views
\* have folded a record before anybody is sent it.
AnswersAreFresh ==
    \A i, j \in DOMAIN toPage :
        (i < j /\ toPage[i].is = "event" /\ toPage[j].is = "approvals")
            => toPage[i].records \subseteq toPage[j].records

\* What a person is answered is as new as what they were shown.
ViewsAreCurrent == TypeOK /\ ViewsMissOnlyTheOpening /\ AnswersAreFresh

\* A record of the session being read leaves a full tab only when nothing
\* else is left to leave (asking.rs, "what is not being read gives way
\* first").
TheOpenSessionGivesWayLast ==
    [][\A s \in page.held \ page'.held :
          (loads' = loads /\ log[s].run = page.reading /\ page'.reading = page.reading)
             => \A t \in page'.held : log[t].run = page.reading]_vars

\* A person who looked at the approvals of a page that stays connected
\* comes to see exactly what waits, whatever order answers and events
\* arrived and were painted in, unless the session lagged past a record.
ApprovalsCatchUp ==
    <>[](page.live /\ page.looked /\ lost = {}) => <>[](page.approvals = Asking(Written))

\* Not kept by the code (README, section 7).
\* What happened before the tab opened is folded before anything that
\* happens after (mount.rs, "before any live record can have been folded -
\* which is the condition `backfill` refuses to work without").
BackfillComesFirst == page.shown # << >> => page.backfilled
=============================================================================
