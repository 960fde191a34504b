----------------------------- MODULE PlanClaims -----------------------------
(* A building's plan being worked: runs take, finish, put down and split its *)
(* nodes through a desk (collab::claim_tool), the worker lands what the desk *)
(* noted - every line first, the file after - if the file still says what    *)
(* the run assumed (collab::claim_effect, sprawling::effect, settle_desks),  *)
(* tells the rooms behind a node that went red, and a pursuit keeps taking   *)
(* the first ready node (sprawling::assembly::plans, kernel::pursuit). All   *)
(* the while a person may edit the file, and the process may die.            *)
EXTENDS PlanTree

CONSTANTS Rooms, Nowhere,
          Hall,        \* the room a pursuit's runs stand in
          Roadmap,     \* the plan as the person wrote it
          Faults,      \* of "crash", "append", "write", "read"
          MaxMishaps,  \* bound: faults and the person's edits, together
          MaxCalls,    \* bound: calls of the plan tool that one run gets through
          SplitInto,   \* how many children one split may make
          MaxNodes     \* bound: rows splitting may grow the plan to

ASSUME ClaimsAssumption ==
  /\ Hall \in Rooms /\ Nowhere \notin Rooms
  /\ Faults \subseteq {"crash", "append", "write", "read"}
  /\ SplitInto \subseteq Nat \ {0}
  /\ \A n \in {MaxMishaps, MaxCalls, MaxNodes} : n \in Nat
  /\ IsPlan(Roadmap)

VARIABLES file,      \* Roadmap.md
          desk,      \* the run's ClaimDesk: text, changed, held, effects
          pc,        \* "idle", "driving", "recording", "writing", "telling"
          room,      \* where the run stands
          lines,     \* what is left of the landing's lines
          records,   \* the last roadmap_* line of each node: its kind, a claim's room
          holders,   \* RunWorker::plan_holders, read from the ledger at open
          told,      \* the signals of tell_whoever_is_behind
          pursuit,   \* RunWorker::pursuits for this building: its state
          pursuing,  \* pursue: "no", "look" at the plan, a run "sent"
          wanted,    \* pursue: the node that run was sent for
          hand,      \* history: nodes whose status a person wrote
          faults, edits

planVars == <<file, desk, pc, room, lines, records, holders, told, pursuit, pursuing,
              wanted, hand, faults, edits>>

runVars == <<desk, pc, room, lines>>
city    == <<records, holders, told, pursuit>>
outer   == <<hand, faults, edits>>

Effect == [op : {"Claimed", "Finished", "Blocked", "Released", "Split"},
           id : Seq(Nat \ {0})]

Nothing == <<>>     \* no node held
NoDesk == [text |-> NoPlan, changed |-> FALSE, held |-> Nothing, effects |-> <<>>]

PlanOf(plan) == IF build_refuses(plan) THEN NoPlan ELSE plan

PlanInit ==
  /\ file = Roadmap
  /\ desk = NoDesk /\ pc = "idle" /\ room = Nowhere /\ lines = <<>>
  /\ records = <<>> /\ holders = <<>> /\ told = {}
  /\ pursuit = "none" /\ pursuing = "no" /\ wanted = Nothing
  /\ hand = {id \in Nodes(Roadmap) : Roadmap[id].status # "NotStarted"}
  /\ faults = 0 /\ edits = 0

-----------------------------------------------------------------------------
(* A run.                                                                    *)

\* open_desks: the desk has the plan as it stands on disk now.
open_desks(r) ==
  /\ room' = r
  /\ desk' = [NoDesk EXCEPT !.text = file]
  /\ pc' = "driving"
  /\ lines' = <<>>

Dispatch(r) ==
  /\ pc = "idle" /\ pursuing = "no"
  /\ open_desks(r)
  /\ UNCHANGED <<file, city, pursuing, wanted, outer>>

\* The desk takes one more call and notes it.
Noted(text, held, op, id) ==
  /\ desk' = [text |-> text, changed |-> TRUE, held |-> held,
              effects |-> Append(desk.effects, [op |-> op, id |-> id])]
  /\ UNCHANGED <<file, pc, room, lines, city, pursuing, wanted, outer>>

\* Every call of the tool reads the desk's text as a tree first.
MayCall ==
  /\ pc = "driving"
  /\ Len(desk.effects) < MaxCalls
  /\ ~ build_refuses(desk.text)

Claim(id) ==
  /\ desk.held = Nothing
  /\ claim_allows(desk.text, id)
  /\ Noted(set_roadmap_status(desk.text, id, "InProgress", FALSE), id, "Claimed", id)

\* finish, block and release: only what this run holds. PlanExit::status and
\* evidence say what each leaves in the row.
Finish(id) ==
  /\ desk.held = id
  /\ Noted(set_roadmap_status(desk.text, id, "Done", TRUE), Nothing, "Finished", id)

Block(id) ==
  /\ desk.held = id
  /\ Noted(set_roadmap_status(desk.text, id, "Blocked", FALSE), Nothing, "Blocked", id)

Release(id) ==
  /\ desk.held = id
  /\ Noted(set_roadmap_status(desk.text, id, "NotStarted", FALSE), Nothing, "Released", id)

\* split: any node of the plan; the run lets go of the one it divided. What
\* the code refuses is a depth over NODE_DEPTH_MAX; MaxNodes is the model's.
Split(id, n) ==
  /\ id \in Nodes(desk.text) /\ ~ insert_refuses(id)
  /\ Cardinality(Nodes(desk.text)) + n <= MaxNodes
  /\ ~ build_refuses(insert_children(desk.text, id, n))
  /\ Noted(insert_children(desk.text, id, n),
           IF desk.held = id THEN Nothing ELSE desk.held, "Split", id)

-----------------------------------------------------------------------------
(* What the worker makes of it.                                              *)

expected_before(effect) == IF effect.op = "Claimed" THEN "NotStarted" ELSE "InProgress"

still_true(plan, effect) ==
  /\ effect.id \in Nodes(plan)
  /\ plan[effect.id].status = expected_before(effect)

\* Claims::of: the first effect on each node, asked of the file as it stands.
Stale(effects) ==
  \E i \in DOMAIN effects :
    /\ \A j \in 1 .. i - 1 : effects[j].id # effects[i].id
    /\ ~ still_true(file, effects[i])

\* The dispatch is over; a pursuit that asked for it hears whether it failed.
Over(ok) ==
  /\ desk' = NoDesk /\ pc' = "idle" /\ lines' = <<>> /\ room' = Nowhere
  /\ pursuing' = IF ok THEN pursuing ELSE "no"
  /\ wanted' = IF ok THEN wanted ELSE Nothing

\* The drive has returned, well or badly: settle_desks takes the effects, and
\* drops them all if one is stale.
RunEnds ==
  /\ pc = "driving"
  /\ \/ /\ ~ desk.changed \/ Stale(desk.effects)
        /\ Over(TRUE)
     \/ /\ desk.changed /\ ~ Stale(desk.effects)
        /\ pc' = "recording"
        /\ lines' = desk.effects
        /\ UNCHANGED <<desk, room, pursuing, wanted>>
  /\ UNCHANGED <<file, city, outer>>

\* CollaborationFold::absorb, for one line.
Absorbed(line) ==
  IF line.op = "Split" THEN records
  ELSE [id \in DOMAIN records \cup {line.id} |->
          IF id # line.id THEN records[id]
          ELSE [op |-> line.op, room |-> IF line.op = "Claimed" THEN room ELSE Nowhere]]

RecordLine_FirstOnly ==
  /\ pc = "recording"
  /\ records' = Absorbed(Head(lines))
  /\ lines' = Tail(lines)
  /\ pc' = "writing"
  /\ UNCHANGED <<file, desk, room, holders, told, pursuit, pursuing, wanted, outer>>
RecordLine ==
  /\ pc = "recording"
  /\ records' = Absorbed(Head(lines))
  /\ lines' = Tail(lines)
  /\ pc' = IF Len(lines) = 1 THEN "writing" ELSE "recording"
  /\ UNCHANGED <<file, desk, room, holders, told, pursuit, pursuing, wanted, outer>>

WritePlan ==
  /\ pc = "writing"
  /\ file' = desk.text
  /\ pc' = "telling"
  /\ UNCHANGED <<desk, room, lines, city, pursuing, wanted, outer>>

\* A line the ledger refuses, a file that will not be read or written: the
\* dispatch returns the error, with whatever the failed step had done.
Failing ==
  /\ faults + edits < MaxMishaps
  /\ \/ "read" \in Faults /\ pc = "driving" /\ desk.changed /\ UNCHANGED file
     \/ "append" \in Faults /\ pc = "recording" /\ UNCHANGED file
     \/ "write" \in Faults /\ pc = "writing" /\ file' \in {file, NoPlan}
  /\ Over(FALSE)
  /\ faults' = faults + 1
  /\ UNCHANGED <<city, hand, edits>>

\* tell_whoever_is_behind: the nodes this run turned red, in the plan as it
\* is on disk, to the rooms plan_holders knows of, and not to itself.
Red == {e.id : e \in {e \in ToSet(desk.effects) : e.op = "Blocked"}}

Tell ==
  /\ pc = "telling"
  /\ told' = IF Red = {} \/ DOMAIN holders = {} THEN told
             ELSE told \cup {n \in notices(spread(PlanOf(file), Red), holders) : n.to # room}
  /\ Over(TRUE)
  /\ UNCHANGED <<file, records, holders, pursuit, outer>>

-----------------------------------------------------------------------------
(* A pursuit.                                                                *)

\* set_pursuit: a goal is set, paused, resumed or cleared, and then looked at.
SetPursuit ==
  /\ pc = "idle" /\ pursuing = "no"
  /\ \/ pursuit' = "Running"                             \* Set
     \/ pursuit # "none" /\ pursuit' = "Running"         \* Resume
     \/ pursuit # "none" /\ pursuit' = "Paused"
     \/ pursuit # "none" /\ pursuit' = "none"            \* Clear
  /\ pursuing' = "look"
  /\ UNCHANGED <<file, runVars, records, holders, told, wanted, outer>>

observe_plan(state, readyNow) ==
  IF state # "Running" THEN "Paused" ELSE IF readyNow # {} THEN "Work" ELSE "Finished"

\* pursue, at the top of its loop: a run for the first ready node.
Pursue ==
  /\ pc = "idle" /\ pursuing = "look"
  /\ LET readyNow == ready(PlanOf(file))
     IN  \/ /\ observe_plan(pursuit, readyNow) = "Work"
            /\ open_desks(Hall)
            /\ pursuing' = "sent" /\ wanted' = First(readyNow)
         \/ /\ observe_plan(pursuit, readyNow) # "Work"
            /\ pursuing' = "no"
            /\ UNCHANGED <<runVars, wanted>>
  /\ UNCHANGED <<file, city, hand, faults, edits>>

\* pursue, after the dispatch: a node that is ready still ends it.
PursueOn_Always ==
  /\ pc = "idle" /\ pursuing = "sent"
  /\ pursuing' = "look"
  /\ wanted' = Nothing
  /\ UNCHANGED <<file, runVars, city, hand, faults, edits>>
PursueOn ==
  /\ pc = "idle" /\ pursuing = "sent"
  /\ pursuing' = IF wanted \in ready(PlanOf(file)) THEN "no" ELSE "look"
  /\ wanted' = Nothing
  /\ UNCHANGED <<file, runVars, city, hand, faults, edits>>

-----------------------------------------------------------------------------
(* What happens to the city from outside.                                    *)

\* A person edits the status of a row by hand.
PersonEdits(id, status) ==
  /\ faults + edits < MaxMishaps
  /\ id \in Nodes(file) /\ file[id].status # status
  /\ file' = set_roadmap_status(file, id, status, status = "Done")
  /\ hand' = hand \cup {id}
  /\ edits' = edits + 1
  /\ UNCHANGED <<runVars, city, pursuing, wanted, faults>>

HoldersOf(recs) ==
  [id \in {n \in DOMAIN recs : recs[n].op = "Claimed"} |-> recs[id].room]

\* The process dies and the city is opened again: the desk is gone, the
\* holders and the pursuit are folded from the ledger, nobody pursues. A
\* write_plan under way had truncated the file, or written it, or neither.
Crash ==
  /\ "crash" \in Faults /\ faults + edits < MaxMishaps
  /\ file' \in IF pc = "writing" THEN {file, NoPlan, desk.text} ELSE {file}
  /\ desk' = NoDesk /\ pc' = "idle" /\ lines' = <<>> /\ room' = Nowhere
  /\ holders' = HoldersOf(records)
  /\ pursuing' = "no" /\ wanted' = Nothing
  /\ faults' = faults + 1
  /\ UNCHANGED <<records, told, pursuit, hand, edits>>

Call ==
  /\ MayCall
  /\ \E id \in Nodes(desk.text) :
       Claim(id) \/ Finish(id) \/ Block(id) \/ Release(id) \/ \E n \in SplitInto : Split(id, n)

Worker == RunEnds \/ RecordLine \/ WritePlan \/ Tell \/ Pursue \/ PursueOn

PlanNext ==
  \/ \E r \in Rooms : Dispatch(r)
  \/ Call \/ Worker \/ Failing \/ SetPursuit \/ Crash
  \/ \E id \in Nodes(file), status \in RoadmapStatus : PersonEdits(id, status)

\* A drive ends (its turns are budgeted), and the worker's thread runs on.
PlanSpec == PlanInit /\ [][PlanNext]_planVars /\ WF_planVars(Worker)

-----------------------------------------------------------------------------
(* Properties.                                                               *)

\* The plan on disk, the desk, the landing and the pursuit.
PlanTypeOK ==
  /\ \A id \in Nodes(file) : file[id] \in Row
  /\ desk.effects \in Seq(Effect) /\ desk.changed \in BOOLEAN
  /\ desk.held \in Nodes(desk.text) \cup {Nothing}
  /\ pc \in {"idle", "driving", "recording", "writing", "telling"}
  /\ lines \in Seq(Effect)
  /\ \A id \in DOMAIN records : 
       records[id] \in [op : {"Claimed", "Finished", "Blocked", "Released"}, room : Rooms \cup {Nowhere}]
  /\ pursuit \in {"none", "Running", "Paused"}
  /\ pursuing \in {"no", "look", "sent"}

StatusOf(recs, id) ==
  IF id \notin DOMAIN recs THEN "NotStarted"
  ELSE CASE recs[id].op = "Claimed"  -> "InProgress"
         [] recs[id].op = "Finished" -> "Done"
         [] recs[id].op = "Blocked"  -> "Blocked"
         [] recs[id].op = "Released" -> "NotStarted"

\* A status no line on the ledger announces was written by a person: whatever
\* fails or dies in the middle of a settlement, the worker changes no row it
\* has not recorded first (effect.rs, Landing::record; the test
\* a_line_the_history_refused_is_a_change_the_city_never_made).
NoLineNoChange ==
  \A id \in Nodes(file) \ hand :
    file[id].status # "NotStarted" => file[id].status = StatusOf(records, id)

\* Between dispatches that all went through, the rows nobody edited by hand
\* say exactly what the ledger says of them: a run's claims land whole or not
\* at all (effect.rs, "Two answers and no third").
LandsWhole ==
  pc = "idle" /\ faults = 0 =>
    \A id \in Nodes(file) \ hand : file[id].status = StatusOf(records, id)

\* However the plan was divided and split, its leaves carry the whole of it,
\* to the last part (share.rs, "The parts add up to the input exactly").
LeavesCarryTheWhole ==
  pc = "idle" /\ ~ build_refuses(file) => SumFunctionOnSet(share(file), Leaves(file)) = WHOLE_PPB

\* What blockage calls stuck behind a red node, the ready set never offers:
\* kernel::blockage and PlanTree::ready read the same plan the same way.
StuckIsNotReady ==
  pc = "idle" /\ hand = {} =>
    LET red == {id \in Nodes(file) : file[id].status = "Blocked"}
    IN  \A source \in red : spread(file, red)[source] \cap ready(PlanOf(file)) = {}

\* The plan on disk follows the ledger: never ahead of it, whatever fails or
\* dies, and level with it when nothing did.
PlanFollowsTheLedger == PlanTypeOK /\ NoLineNoChange /\ LandsWhole

\* The plan is read one way: its shares add up, and what is stuck is not
\* offered.
PlanAddsUp == LeavesCarryTheWhole /\ StuckIsNotReady

\* A pursuit ends by itself once its runs split no more of the plan (plans.rs,
\* "It terminates because every dispatch takes a node out of the ready set ...
\* except when a run splits a branch"; a node the run did not take ends it).
\* The code bounds how deep a plan is split, not how often: runs that split
\* for ever are sent for ever, and only MaxNodes ends that here.
SplitsCease == <>[][Nodes(file') \subseteq Nodes(file)]_planVars
PursuitEnds == SplitsCease => (pursuing # "no" ~> pursuing = "no")

\* A run that is over left no node held (ARCHITECTURE.md, "a claimed plan node
\* cannot be put down silently"; claim_tool.rs, ClaimDesk::abandon).
HeldIsPutDown ==
  pc = "idle" => \A id \in Leaves(file) \ hand : file[id].status # "InProgress"

\* Not kept by the code (README, section 7).
\* The worker's write takes back no status a person wrote since it last wrote
\* the file (effect.rs, "the losing claim is dropped rather than written over
\* somebody's row").
TheirRowStands ==
  [][pc = "writing" /\ pc' = "telling" =>
       \A id \in hand \cap Nodes(file) : file'[id].status = file[id].status]_planVars
=============================================================================
