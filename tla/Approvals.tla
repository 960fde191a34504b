----------------------------- MODULE Approvals -----------------------------
(* What waits for a person, and what their answer lets through: the doors a  *)
(* tool call meets (crates/runtime/src/bench.rs, crates/kernel/src/gate.rs), *)
(* the fold that holds the inbox (assembly/folds.rs), one dispatch with the  *)
(* runs it hands work to (assembly/dispatching.rs, workbench.rs,             *)
(* settling.rs) and the answer that sets interrupted work going again        *)
(* (assembly/commanding.rs).                                                 *)
(*                                                                           *)
(* The assembly is one thread: a dispatch is carried to its end, the runs it *)
(* hands work to included, before the next command is taken. The runs under  *)
(* way are therefore a stack, the innermost one last.                        *)
EXTENDS Naturals, Sequences, SequencesExt, FiniteSets, TLC

CONSTANTS Rooms,      \* the rooms of one building
          Reviewed,   \* whether its rules ask for review: a tree for every run
          MaxAsks,    \* bound: dispatches the person sends
          MaxRuns,    \* bound: runs
          MaxCalls,   \* bound: gated calls, over all runs
          MaxSweeps,  \* bound: drives that delete more than DISCARD_FILES_MAX
          MaxHalts,   \* bound: Halt and Release commands
          Faults,     \* which of FaultKinds may happen
          MaxFaults   \* bound: how many of them do, each at most once

(* A crash; an unreadable file; a line the ledger refuses: one of the run's  *)
(* own, or one that its desks settle by.                                     *)
FaultKinds == {"crash", "files", "run_line", "desk_line"}

ASSUME UseAssumption ==
  /\ Reviewed \in BOOLEAN /\ {"city", "building"} \cap Rooms = {}
  /\ {MaxAsks, MaxRuns, MaxCalls, MaxSweeps, MaxHalts, MaxFaults} \subseteq Nat
  /\ Faults \subseteq FaultKinds

VARIABLES ledger,    \* the lines this component writes or reads back
          gov,       \* RunWorker::governance
          stack,     \* the dispatches under way
          clock,     \* the stamp of the latest turn
          calls,     \* gated calls so far
          minted,    \* runs stood up so far
          opened,    \* rooms some run was stood up in
          trees,     \* runs whose worktree is out
          acted,     \* history: clusters a gated tool acted under
          refused,   \* history: items a run was told to wait for
          level,     \* history: how far each piece of work was handed down
          happened   \* faults so far

vars == <<ledger, gov, stack, clock, calls, minted, opened, trees, acted, refused, level,
          happened>>

NoRun == 0
Runs == 1..MaxRuns
Clusters == [class : {"delegation", "governance", "discard"}, at : Rooms]
(* `item-{t}` is minted from the turn's stamp, `discard-{run}` from the run. *)
Ids == ({"item"} \X (1..MaxCalls)) \cup ({"discard"} \X Runs)
Items == [id : Ids, cluster : Clusters]
Calls == [tool : {"delegate"}, room : Rooms] \cup {[tool |-> "rules"]}

Empty == [pending |-> <<>>, origins |-> <<>>, granted |-> {}, halted |-> {}, sent |-> <<>>]

Init ==
  /\ ledger = <<>> /\ gov = Empty
  /\ stack = <<>> /\ clock = 0 /\ calls = 0 /\ minted = 0
  /\ opened = {} /\ trees = {} /\ acted = {} /\ refused = {} /\ level = <<>>
  /\ happened = {}

-----------------------------------------------------------------------------
(* Governance, the fold of the history.                                      *)

With(f, x, v) == [y \in DOMAIN f \cup {x} |-> IF y = x THEN v ELSE f[y]]
Without(f, x) == [y \in DOMAIN f \ {x} |-> f[y]]

Requested(g, l) ==
  [g EXCEPT !.pending = With(@, l.item.id, l.item),
            !.origins = IF l.run \in DOMAIN g.sent
                          THEN With(@, l.item.id, [addr |-> l.addr, work |-> g.sent[l.run]])
                          ELSE @]

Resolved(g, l) ==
  [g EXCEPT !.pending = Without(@, l.id),
            !.origins = Without(@, l.id),
            !.granted = IF l.verdict = "allow" THEN @ \cup {l.cluster} ELSE @]

absorb(g, l) ==
  CASE l.kind = "run_started"        -> [g EXCEPT !.sent = With(@, l.run, l.work)]
    [] l.kind = "approval_requested" -> Requested(g, l)
    [] l.kind = "approval_resolved"  -> Resolved(g, l)
    [] l.kind = "city_halted"        ->
         [g EXCEPT !.halted = IF l.halted THEN @ \cup {l.scope} ELSE @ \ {l.scope}]

(* What a worker that opens this history holds.                              *)
Standing ==
  LET fold[n \in 0..Len(ledger)] == IF n = 0 THEN Empty ELSE absorb(fold[n - 1], ledger[n])
  IN  fold[Len(ledger)]

(* record_where and record_for: the line, then the fold of that line.        *)
record_for(l) ==
  /\ ledger' = Append(ledger, l)
  /\ gov' = absorb(gov, l)

-----------------------------------------------------------------------------
(* Standing a run up.                                                        *)

Scopes == Rooms \cup {"city", "building"}

(* The city covers everything, a building what is inside it.                 *)
halted_by(addr) == {"city", "building", addr} \cap gov.halted # {}

(* Where work sent to this address may be done: work for the building opens  *)
(* a room for its session, under a name that is not taken.                   *)
room_for(addr) == IF addr = "building" THEN Rooms \ opened ELSE {addr}

Frame(run, room, addr, work, parent) ==
  [run |-> run, room |-> room, to |-> addr, work |-> work, parent |-> parent,
   pc |-> "standing", granted |-> {}, t |-> 0, raised |-> <<>>, asked |-> <<>>,
   ending |-> "none"]

Top == Last(stack)
At(pc) == stack # <<>> /\ Top.pc = pc
Becomes(f) == stack' = Append(Front(stack), f)
Idle == stack = <<>>

(* The run's id, the room its work is done in, and its tree when the         *)
(* building asks for review.                                                 *)
Placed(addr, work, parent) ==
  /\ minted < MaxRuns
  /\ minted' = minted + 1
  /\ \E room \in room_for(addr) :
       /\ stack' = Append(stack, Frame(minted', room, addr, work, parent))
       /\ opened' = opened \cup {room}
  /\ trees' = IF Reviewed THEN trees \cup {minted'} ELSE trees

stand_up_Unregistered(g, addr, work, parent) ==
  /\ Placed(addr, work, parent)
  /\ gov' = g

(* The run is placed, and what it was sent to do is held for as long as what *)
(* it raises waits; g is what the step makes of the governance otherwise.    *)
stand_up(g, addr, work, parent) ==
  /\ Placed(addr, work, parent)
  /\ gov' = [g EXCEPT !.sent = With(@, minted', work)]

(* A dispatch the person sends to a room, or to the building for a session   *)
(* of its own. One the city does not agree to take changes nothing: what it  *)
(* is asked about is the address as it was sent.                             *)
dispatch(addr) ==
  /\ Idle /\ ~halted_by(addr)
  /\ Cardinality({w \in DOMAIN level : level[w] = 0}) < MaxAsks
  /\ level' = Append(level, 0)
  /\ stand_up(gov, addr, Len(level'), NoRun)
  /\ UNCHANGED <<ledger, clock, calls, acted, refused, happened>>

(* lay_out_workbench freezes what was granted into the bench; the drive opens *)
(* with run_started, which the driver writes to the ledger itself.           *)
start ==
  /\ At("standing")
  /\ ledger' = Append(ledger, [kind |-> "run_started", run |-> Top.run, work |-> Top.work,
                               addr |-> Top.room, to |-> Top.to])
  /\ Becomes([Top EXCEPT !.pc = "driving", !.granted = gov.granted])
  /\ UNCHANGED <<gov, clock, calls, trees, acted, refused, level, minted, opened, happened>>

-----------------------------------------------------------------------------
(* The drive: the gated calls of its turns.                                  *)

Cluster(call) ==
  [class |-> IF call.tool = "delegate" THEN "delegation" ELSE "governance", at |-> Top.room]

settled_Waved(cluster) == cluster.class = "governance" \/ cluster \in Top.granted

(* Both doors always escalate; what the person allowed is let through.       *)
settled(cluster) == cluster \in Top.granted

(* What the tool does once the door is open: rules rewrites the building's   *)
(* rules, delegate puts the work on the desk, unless a delegate asks.        *)
Acts(call, f) ==
  IF call.tool = "delegate" /\ f.parent = NoRun
    THEN [f EXCEPT !.asked = Append(@, call.room)] ELSE f

(* One call of the turn under way, or the first of the next one.             *)
invoke(call, fresh) ==
  /\ At("driving")
  /\ calls < MaxCalls /\ calls' = calls + 1
  /\ ~fresh => Top.t # 0
  /\ clock' = IF fresh THEN clock + 1 ELSE clock
  /\ LET f == [Top EXCEPT !.t = clock']
         item == [id |-> <<"item", clock'>>, cluster |-> Cluster(call)]
     IN  IF settled(item.cluster)
           THEN /\ Becomes(Acts(call, f))
                /\ acted' = acted \cup {item.cluster}
                /\ UNCHANGED refused
           ELSE /\ Becomes([f EXCEPT !.raised = Append(@, item)])
                /\ refused' = refused \cup {item}
                /\ UNCHANGED acted
  /\ UNCHANGED <<ledger, gov, trees, level, minted, opened, happened>>

(* The drive returns: frozen, frozen as cancelled, or with an error.         *)
drive_ends(ending) ==
  /\ At("driving")
  /\ Becomes([Top EXCEPT !.pc = "settling", !.ending = ending])
  /\ UNCHANGED <<ledger, gov, clock, calls, trees, acted, refused, level, minted, opened, happened>>

-----------------------------------------------------------------------------
(* After the drive.                                                          *)

Sweeps == Cardinality({item \in refused : item.cluster.class = "discard"})

(* settle_desks: a drive that deleted more files than DISCARD_FILES_MAX      *)
(* raises an item of its own.                                                *)
settle_desks(swept) ==
  /\ At("settling")
  /\ swept => Sweeps < MaxSweeps
  /\ LET item == [id |-> <<"discard", Top.run>>,
                  cluster |-> [class |-> "discard", at |-> Top.room]]
     IN  /\ Becomes([Top EXCEPT !.pc = "concluding",
                               !.raised = IF swept THEN Append(@, item) ELSE @])
         /\ refused' = IF swept THEN refused \cup {item} ELSE refused
  /\ UNCHANGED <<ledger, gov, clock, calls, trees, acted, level, minted, opened, happened>>

conclude_Unwraps ==
  /\ At("concluding")
  /\ IF Top.ending = "failed"
       THEN stack' = <<>> /\ UNCHANGED trees
       ELSE /\ trees' = trees \ {Top.run}
            /\ Becomes([Top EXCEPT !.pc = "filing"])
  /\ UNCHANGED <<ledger, gov, clock, calls, acted, refused, level, minted, opened, happened>>

(* conclude: the tree goes back first.                                       *)
conclude ==
  /\ At("concluding")
  /\ trees' = trees \ {Top.run}
  /\ Becomes([Top EXCEPT !.pc = "filing"])
  /\ UNCHANGED <<ledger, gov, clock, calls, acted, refused, level, minted, opened, happened>>

(* Then each waiting item is recorded against the run that raised it.        *)
file ==
  /\ At("filing") /\ Top.raised # <<>>
  /\ record_for([kind |-> "approval_requested", run |-> Top.run, addr |-> Top.room,
                 item |-> Head(Top.raised)])
  /\ Becomes([Top EXCEPT !.raised = Tail(@)])
  /\ UNCHANGED <<clock, calls, trees, acted, refused, level, minted, opened, happened>>

(* `driven?`: a drive that failed leaves the dispatch, and every dispatch    *)
(* that was waiting for it, with its error; a cancelled run hands nothing    *)
(* down.                                                                     *)
unwrap ==
  /\ At("filing") /\ Top.raised = <<>>
  /\ IF Top.ending = "failed"
       THEN stack' = <<>>
       ELSE Becomes([Top EXCEPT !.pc = "handing",
                                !.asked = IF Top.ending = "cancelled" THEN <<>> ELSE @])
  /\ UNCHANGED <<ledger, gov, clock, calls, trees, acted, refused, level, minted, opened, happened>>

(* The next delegate, dispatched as a child of this run. A room that takes   *)
(* no work is an error, which drops the delegates after it.                  *)
hand_down ==
  /\ At("handing") /\ Top.asked # <<>>
  /\ IF halted_by(Head(Top.asked))
       THEN stack' = <<>> /\ UNCHANGED <<gov, trees, minted, opened, level>>
       ELSE /\ level' = Append(level, level[Top.work] + 1)
            /\ stand_up(gov, Head(Top.asked), Len(level'), Top.run)
  /\ UNCHANGED <<ledger, clock, calls, acted, refused, happened>>

(* Nothing left to hand down: the run is done with, and the run that asked   *)
(* for it is told and goes on to its next delegate.                          *)
return ==
  /\ At("handing") /\ Top.asked = <<>>
  /\ LET rest == Front(stack)
     IN  stack' = IF rest = <<>> THEN rest
                  ELSE Append(Front(rest), [Last(rest) EXCEPT !.asked = Tail(@)])
  /\ UNCHANGED <<ledger, gov, clock, calls, trees, acted, refused, level, minted, opened, happened>>

-----------------------------------------------------------------------------
(* What the person does between two commands.                                *)

(* answer_approval. An allow sets the work the item was holding up going     *)
(* again, as a dispatch of the city's own, when its room takes work.         *)
answer_approval(id, verdict) ==
  /\ Idle /\ id \in DOMAIN gov.pending
  /\ LET line == [kind |-> "approval_resolved", id |-> id, verdict |-> verdict,
                  cluster |-> gov.pending[id].cluster]
         g == absorb(gov, line)
         resumed == verdict = "allow" /\ id \in DOMAIN gov.origins
     IN  /\ ledger' = Append(ledger, line)
         /\ IF resumed /\ ~halted_by(gov.origins[id].addr)
              THEN stand_up(g, gov.origins[id].addr, gov.origins[id].work, NoRun)
              ELSE gov' = g /\ UNCHANGED <<stack, trees, minted, opened>>
  /\ UNCHANGED <<clock, calls, acted, refused, level, happened>>

Spoken == Cardinality({i \in DOMAIN ledger : ledger[i].kind = "city_halted"})

(* Halt and Release of a room, the building or the whole city; one that is   *)
(* repeated adds a line that says what the one before it said, and is left   *)
(* out.                                                                      *)
set_admission(scope, shut) ==
  /\ Idle /\ Spoken < MaxHalts
  /\ shut # (scope \in gov.halted)
  /\ record_for([kind |-> "city_halted", scope |-> scope, halted |-> shut])
  /\ UNCHANGED <<stack, clock, calls, trees, acted, refused, level, minted, opened, happened>>

-----------------------------------------------------------------------------
(* Failures.                                                                 *)

Happens(f) ==
  /\ f \in Faults \ happened /\ Cardinality(happened) < MaxFaults
  /\ happened' = happened \cup {f}

(* The process dies, and the next one folds the history.                     *)
Crash ==
  /\ Happens("crash")
  /\ stack' = <<>> /\ gov' = Standing
  /\ UNCHANGED <<ledger, clock, calls, trees, acted, refused, level, minted, opened>>

(* The ledger refuses a line. Where it is run_started, the drive that never  *)
(* began is settled and concluded like one that failed; where it is a        *)
(* waiting item's or a handback's, the tree is back already.                 *)
RunLineRefused ==
  /\ Happens("run_line")
  /\ \/ /\ At("standing")
        /\ Becomes([Top EXCEPT !.pc = "concluding", !.ending = "failed"])
     \/ /\ (At("filing") /\ Top.raised # <<>>) \/ (At("handing") /\ Top.asked = <<>>)
        /\ stack' = <<>>
  /\ UNCHANGED <<ledger, gov, clock, calls, trees, acted, refused, level, minted, opened>>

(* The line of the tree itself, or one of what the desks settle and land:    *)
(* the `?` leaves the dispatch where it stands, its tree out.                *)
DeskLineRefused ==
  /\ (At("standing") /\ Reviewed) \/ At("settling") \/ At("concluding")
  /\ Happens("desk_line")
  /\ stack' = <<>>
  /\ UNCHANGED <<ledger, gov, clock, calls, trees, acted, refused, level, minted, opened>>

(* A file the city reads before the drive or while it settles cannot be      *)
(* read, or the tree cannot be given back: the `?` does the same.            *)
FileRefuses ==
  /\ At("standing") \/ At("settling") \/ At("concluding")
  /\ Happens("files")
  /\ stack' = <<>>
  /\ UNCHANGED <<ledger, gov, clock, calls, trees, acted, refused, level, minted, opened>>

Next ==
  \/ \E addr \in Rooms \cup {"building"} : dispatch(addr)
  \/ start
  \/ \E call \in Calls, fresh \in BOOLEAN : invoke(call, fresh)
  \/ \E ending \in {"done", "cancelled", "failed"} : drive_ends(ending)
  \/ \E swept \in BOOLEAN : settle_desks(swept)
  \/ conclude \/ file \/ unwrap \/ hand_down \/ return
  \/ \E id \in Ids, verdict \in {"allow", "deny"} : answer_approval(id, verdict)
  \/ \E scope \in Scopes, shut \in BOOLEAN : set_admission(scope, shut)
  \/ Crash \/ RunLineRefused \/ DeskLineRefused \/ FileRefuses

Spec == Init /\ [][Next]_vars

-----------------------------------------------------------------------------
(* Properties.                                                               *)

Frames ==
  [run : Runs, room : Rooms, to : Rooms \cup {"building"}, work : Nat,
   parent : Runs \cup {NoRun},
   pc : {"standing", "driving", "settling", "concluding", "filing", "handing"},
   granted : SUBSET Clusters, t : 0..MaxCalls,
   raised : Seq(Items), asked : Seq(Rooms),
   ending : {"none", "done", "cancelled", "failed"}]

(* The shape of the state; nothing runs below the innermost dispatch but     *)
(* dispatches that wait for the run they handed work to.                     *)
TypeOK ==
  /\ stack \in Seq(Frames)
  /\ \A i \in DOMAIN stack : i < Len(stack) =>
       stack[i].pc = "handing" /\ stack[i].asked # <<>> /\ stack[i + 1].parent = stack[i].run
  /\ DOMAIN gov.origins \subseteq DOMAIN gov.pending
  /\ \A id \in DOMAIN gov.pending : id \in Ids /\ gov.pending[id] \in Items
  /\ gov.granted \subseteq Clusters /\ gov.halted \subseteq Scopes
  /\ clock \in 0..MaxCalls /\ calls \in 0..MaxCalls /\ minted \in 0..MaxRuns
  /\ opened \subseteq Rooms /\ trees \subseteq Runs
  /\ acted \subseteq Clusters /\ refused \subseteq Items
  /\ level \in Seq(Nat) /\ happened \subseteq Faults

Is(i, kind) == ledger[i].kind = kind

(* The requests nobody has answered since they were last made.               *)
OpenRequests ==
  {i \in DOMAIN ledger :
     /\ Is(i, "approval_requested")
     /\ \A j \in i + 1 .. Len(ledger) :
          /\ Is(j, "approval_requested") => ledger[j].item.id # ledger[i].item.id
          /\ Is(j, "approval_resolved") => ledger[j].id # ledger[i].item.id}

WorkOf(run) ==
  {ledger[i].work : i \in {j \in DOMAIN ledger : Is(j, "run_started") /\ ledger[j].run = run}}

(* Whether the history up to line n leaves the scope shut.                   *)
ShutBefore(n, scope) ==
  \E i \in 1 .. n - 1 :
    /\ Is(i, "city_halted") /\ ledger[i].scope = scope /\ ledger[i].halted
    /\ \A j \in i + 1 .. n - 1 : Is(j, "city_halted") => ledger[j].scope # scope

Allowed(cluster) ==
  \E i \in DOMAIN ledger :
    Is(i, "approval_resolved") /\ ledger[i].verdict = "allow" /\ ledger[i].cluster = cluster

(* What the worker holds is what the history says, read as a whole and not   *)
(* line by line: the inbox is the unanswered requests, each held against     *)
(* the room and the work of the run that raised it, granted is what was      *)
(* allowed, halted is what was shut last (Governance, folds.rs: "what a      *)
(* worker holds is what a restart rebuilds").                                *)
GovernanceIsTheLedger ==
  /\ {gov.pending[id] : id \in DOMAIN gov.pending} = {ledger[i].item : i \in OpenRequests}
  /\ \A i \in OpenRequests :
       LET id == ledger[i].item.id
       IN  /\ id \in DOMAIN gov.origins
           /\ gov.origins[id].addr = ledger[i].addr
           /\ {gov.origins[id].work} = WorkOf(ledger[i].run)
  /\ gov.granted = {c \in Clusters : Allowed(c)}
  /\ gov.halted = {s \in Scopes : ShutBefore(Len(ledger) + 1, s)}

(* No second agent was asked for and no rule rewritten before the history    *)
(* says a person allowed that resident that kind of thing (gate.rs,          *)
(* bench.rs settled).                                                        *)
NothingGatedUnasked == \A c \in acted : Allowed(c)

(* An answer on the history answers a question of the same item and cluster  *)
(* that was waiting, and no question is answered twice, restarts included    *)
(* (answer_approval refuses what is not waiting).                            *)
AnswersAreAsked ==
  \A i \in DOMAIN ledger : Is(i, "approval_resolved") =>
    \E j \in 1 .. i - 1 :
      /\ Is(j, "approval_requested")
      /\ ledger[j].item = [id |-> ledger[i].id, cluster |-> ledger[i].cluster]
      /\ \A k \in j + 1 .. i - 1 : Is(k, "approval_resolved") => ledger[k].id # ledger[i].id

(* Whatever a run was told to wait for is on the history once the command    *)
(* is over, whether the run finished or failed (conclude, settling.rs).      *)
RefusedIsFiled ==
  Idle /\ happened = {} =>
    \A item \in refused :
      \E i \in DOMAIN ledger : Is(i, "approval_requested") /\ ledger[i].item = item

(* Trees that are out with no dispatch to bring them home.                   *)
LeftOut == trees \ {stack[i].run : i \in DOMAIN stack}

(* A crash, an unreadable file or a refused line of the settlement leaves at *)
(* most one tree out, that of the innermost run; however the drive itself    *)
(* ends, run_started refused included, its tree comes back, and it does so   *)
(* before anything is handed down (conclude: "The tree goes back whether the *)
(* run finished or failed").                                                 *)
TreesComeHome ==
  /\ Cardinality(LeftOut) <= Cardinality(happened \ {"run_line"})
  /\ \A i \in DOMAIN stack : stack[i].run \in trees =>
       i = Len(stack) /\ stack[i].pc \notin {"filing", "handing"}

(* No run starts in a city or a building that is shut, nor in a room that    *)
(* is, by whichever way the work came: a dispatch, a delegation or an answer *)
(* (agree_to_work, dispatching.rs). What a session opens is a new room, and  *)
(* nobody asks whether its name was shut before there was one.               *)
HaltedTakesNoWork ==
  \A i \in DOMAIN ledger : Is(i, "run_started") =>
    /\ ~ShutBefore(i, "city") /\ ~ShutBefore(i, "building")
    /\ ShutBefore(i, ledger[i].addr) => ledger[i].to = "building"

(* People decide: what is gated was allowed, what was answered was asked,    *)
(* and what was shut takes no work.                                          *)
PeopleDecide == AnswersAreAsked /\ NothingGatedUnasked /\ HaltedTakesNoWork

(* A dispatch that is over left nothing behind: its items are filed and its  *)
(* tree is back.                                                             *)
NothingIsLeftBehind == TypeOK /\ RefusedIsFiled /\ TreesComeHome

(* Not kept by the code (README, section 7).                                 *)
(* "An item that is waiting belongs in the inbox, not only in the refusal    *)
(* the model saw" (settling.rs): once the command is over, an item a run was *)
(* told to wait for is in the inbox or was answered.                         *)
RefusedIsInTheInbox ==
  Idle => \A item \in refused :
    \/ item \in {gov.pending[id] : id \in DOMAIN gov.pending}
    \/ \E i \in DOMAIN ledger : /\ Is(i, "approval_resolved")
                                /\ ledger[i].id = item.id /\ ledger[i].cluster = item.cluster

(* Not kept by the code (README, section 7).                                 *)
(* "delegates do not delegate: one level deep" (gate.rs): work that was      *)
(* handed down is not handed down again.                                     *)
OneLevelDeep == \A w \in DOMAIN level : level[w] <= 1
=============================================================================
