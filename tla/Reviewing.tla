----------------------------- MODULE Reviewing ------------------------------
(* How work reaches the city's trunk. A run in a reviewed room works in a    *)
(* tree of its own (memory::worktree) behind fences (memory::checkpoint),    *)
(* asks through its desks for a request to be opened, answered, for ground   *)
(* to be held and for things to be remembered (collab::pr_tool, goal_tool,   *)
(* archive_tool), and the worker settles those desks when the drive ends:    *)
(* goals, what disappeared, the shelf, then the requests, each line before   *)
(* the change it announces (assembly::settling, reviewing). Runs follow one  *)
(* another on one worker, and the process may die between any two steps.     *)
EXTENDS Integers, Sequences, SequencesExt, FiniteSets

CONSTANTS Residents, Rooms, NoRun,
          Reviewed,    \* rooms of buildings whose rules ask for review
          Claims,      \* grounds a goal may claim: [resources, standing]
          Modes,       \* modes a dispatch may be in
          MaxRuns,     \* bound: runs ever dispatched
          Workloads    \* bounds: each says how often a tool may be called, over
                       \* all runs, and how often the process may die

Things == {"wave", "exec", "open", "check", "goal", "archive", "crash"}

ASSUME ReviewingAssumption ==
  /\ Reviewed \subseteq Rooms /\ IsFiniteSet(Rooms)
  /\ Modes \subseteq {"plan_goal", "up", "sc", "ud", "experiment"}
  /\ MaxRuns \in Nat
  /\ Workloads \subseteq [Things -> Nat]

VARIABLES log,        \* the ledger's lines about requests, goals, shelf, discards
          requests,   \* RunWorker::requests
          goals,      \* RunWorker::goals
          trunk,      \* the city's HEAD: a commit is the commits that led to it
          branch,     \* the tip of each run's branch, <<>> where there is none
          city,       \* the files of the city's own working tree
          trees,      \* the worktrees git knows: run -> files
          run,        \* the run at work, or NoRun
          pc,         \* "idle", "driving", "goals", "sweep", "shelf", "requests",
                      \* "applying", "down"
          served,     \* runs dispatched so far
          left,       \* what is left of this behaviour's workload
          died        \* whether the process ever died

vars == <<log, requests, goals, trunk, branch, city, trees, run, pc, served, left, died>>

Runs == 1 .. MaxRuns

(* Files: what each room's file says (the run that wrote it last, 0 before   *)
(* any) and which runs' entries are on the shelf. Only tracked rooms are in  *)
(* the domain of a commit's tree.                                            *)
NoFiles == [rooms |-> [x \in {} |-> 0], shelf |-> {}]
AsRaised == [rooms |-> [x \in Rooms |-> 0], shelf |-> {}]

TipTree(commit) == IF commit = <<>> THEN NoFiles ELSE Last(commit).tree

(* ---------------------------- memory::checkpoint ------------------------- *)

(* stage_scope: everything under the scope, deletions included, and nothing  *)
(* outside it. A scope is a room, or a building: the room and its shelf.     *)
stage_scope(index, files, room, building) ==
  [rooms |-> [x \in (DOMAIN index.rooms \ {room}) \cup ({room} \cap DOMAIN files.rooms) |->
               IF x = room THEN files.rooms[x] ELSE index.rooms[x]],
   shelf |-> IF building THEN files.shelf ELSE index.shelf]

(* commit: an unchanged tree still commits.                                  *)
commit(head, tree, by) == Append(head, [by |-> by, tree |-> tree])

wave_pre(head, files, by, room, building) ==
  commit(head, stage_scope(TipTree(head), files, room, building), by)

(* ensure_base: a city has one commit to branch from, and no more than that. *)
ensure_base(head, files, by, room) ==
  IF head = <<>> THEN wave_pre(head, files, by, room, FALSE) ELSE head

(* wave_post: the paths of the first fence that are gone from the files.     *)
wave_post(base, files) == DOMAIN TipTree(base).rooms \ DOMAIN files.rooms

(* ----------------------------- memory::worktree -------------------------- *)

(* claim: a tree holds what its branch has committed, and nothing else of    *)
(* the city's files. release: the files go, the branch stays.                *)
claim_tree(r, base) == [x \in DOMAIN trees \cup {r} |-> IF x = r THEN TipTree(base) ELSE trees[x]]
release(r) == [x \in DOMAIN trees \ {r} |-> trees[x]]

(* plan_merge: fast-forward only, and every refusal happens here.            *)
MergeStale(theirs, ours) == ~IsPrefix(ours, theirs)

(* fast_forward: the trunk moves and is checked out by force, which writes   *)
(* every tracked file as the commit has it, removes the ones it no longer    *)
(* has and leaves untracked ones.                                            *)
checkout_head(files, was, tree) ==
  [rooms |-> [x \in (DOMAIN files.rooms \ DOMAIN was.rooms) \cup DOMAIN tree.rooms |->
               IF x \in DOMAIN tree.rooms THEN tree.rooms[x] ELSE files.rooms[x]],
   shelf |-> (files.shelf \ was.shelf) \cup tree.shelf]

(* ------------------------------ kernel::goal ----------------------------- *)

resources_clash(a, b) ==
  /\ a.kind = b.kind
  /\ IF a.kind = "path" THEN IsPrefix(a.at, b.at) \/ IsPrefix(b.at, a.at) ELSE a.at = b.at

Clash(held, wanted) ==
  \E a \in held.resources, b \in wanted.resources : resources_clash(a, b)

(* detect_conflict: the first registered goal in the way; 0 when clear.      *)
detect_conflict(registered, entry) ==
  SelectInSeq(registered, LAMBDA held : held.id # entry.id /\ Clash(held, entry))

(* arbitrate, with the desk's Circumstance::default().                       *)
arbitrate(held, entry) ==
  IF /\ held.standing # entry.standing
     /\ \A r \in held.resources \cup entry.resources : r.kind = "path"
  THEN "serialize" ELSE "arbitrate"

(* ------------------------------ runtime::mode ---------------------------- *)

(* admits, with what a dispatch can produce: tests that ran or did not, a    *)
(* contract nobody measures and no held-out evidence.                        *)
admits(mode, tests) ==
  \/ mode \in {"plan_goal", "sc"}
  \/ mode = "up" /\ tests = "passed"

(* -------------------------------- the folds ------------------------------ *)

(* A Vec filtered: what stands at the places S, in its order.                *)
Rank(S, i) == Cardinality({j \in S : j <= i})
Nth(S, n) == CHOOSE i \in S : Rank(S, i) = n
Picked(s, S) == [n \in 1 .. Cardinality(S) |-> s[Nth(S, n)]]

(* Vec::retain over the requests of every other branch.                      *)
retain(held, b) == Picked(held, {i \in DOMAIN held : held[i].branch # b})

Is(line, kind) == line.kind = kind

Requested(line) == Is(line, "pr_opened")
Answered(line) == line.kind \in {"pr_merged", "pr_rejected"}

(* Collaborating::apply over the whole ledger: opened pushes, either answer  *)
(* takes every request of that branch out.                                   *)
FoldRequests(lines) ==
  LET still(i) == \A j \in i + 1 .. Len(lines) :
                    ~(Answered(lines[j]) /\ lines[j].request.branch = lines[i].request.branch)
      open == {i \in DOMAIN lines : Requested(lines[i]) /\ still(i)}
  IN  [n \in 1 .. Cardinality(open) |-> lines[Nth(open, n)].request]

FoldGoals(lines) ==
  LET held == {i \in DOMAIN lines : Is(lines[i], "goal_registered")}
  IN  [n \in 1 .. Cardinality(held) |-> lines[Nth(held, n)].entry]

(* --------------------------------- the run ------------------------------- *)

Init ==
  /\ log = <<>> /\ requests = <<>> /\ goals = <<>>
  /\ trunk = <<>> /\ branch = [r \in Runs |-> <<>>]
  /\ city = AsRaised /\ trees = [r \in {} |-> NoFiles]
  /\ run = NoRun /\ pc = "idle" /\ served = 0
  /\ left \in Workloads /\ died = FALSE

HasTree == run.id \in DOMAIN trees
Files == IF HasTree THEN trees[run.id] ELSE city

SetFiles(files) ==
  IF HasTree THEN trees' = [trees EXCEPT ![run.id] = files] /\ UNCHANGED city
             ELSE city' = files /\ UNCHANGED trees

Tip == IF HasTree THEN branch[run.id] ELSE trunk
SetTip(tip) ==
  IF HasTree THEN branch' = [branch EXCEPT ![run.id] = tip] /\ UNCHANGED trunk
             ELSE trunk' = tip /\ UNCHANGED branch

(* As a bug might have it: the fence stays on the room under review too.     *)
fence_scope_Room == FALSE

(* Site::fence_scope: the building under review, the room otherwise.         *)
fence_scope == HasTree

Fence == wave_pre(Tip, Files, run.id, run.room, fence_scope)

(* open_desks: each desk is lent a copy of its register.                     *)
open_desks(id, who, room, mode) ==
  [id |-> id, who |-> who, room |-> room, mode |-> mode, tests |-> "none",
   open |-> requests, effects |-> <<>>, registered |-> goals, goals |-> <<>>,
   shelf |-> FALSE, fenced |-> <<>>]

(* stand_up: under review the city gets its first commit if it has none, and *)
(* the run a tree branched from the trunk.                                   *)
stand_up(who, room, mode) ==
  /\ pc = "idle" /\ served < MaxRuns
  /\ served' = served + 1
  /\ run' = open_desks(served', who, room, mode)
  /\ IF room \in Reviewed
     THEN /\ trunk' = ensure_base(trunk, city, served', room)
          /\ branch' = [branch EXCEPT ![served'] = trunk']
          /\ trees' = claim_tree(served', trunk')
     ELSE UNCHANGED <<trunk, branch, trees>>
  /\ pc' = "driving"
  /\ UNCHANGED <<log, requests, goals, city, left, died>>

Calls(tool) ==
  /\ pc = "driving" /\ left[tool] > 0
  /\ left' = [left EXCEPT ![tool] = @ - 1]

OnlyTheRun == UNCHANGED <<log, requests, goals, trunk, branch, city, trees, pc, served, died>>

(* One wave: the fence, then the tools write or delete the room's file.      *)
Wave(deletes) ==
  /\ Calls("wave")
  /\ deletes => run.room \in DOMAIN Files.rooms
  /\ LET rooms == DOMAIN Files.rooms
     IN  SetFiles([Files EXCEPT !.rooms =
           [x \in IF deletes THEN rooms \ {run.room} ELSE rooms \cup {run.room} |->
              IF x = run.room THEN run.id ELSE Files.rooms[x]]])
  /\ SetTip(Fence)
  /\ run' = [run EXCEPT !.fenced = IF @ = <<>> THEN Fence ELSE @]
  /\ UNCHANGED <<log, requests, goals, pc, served, died>>

(* The exec tool's outcome, as driving counts it.                            *)
Exec(passed) ==
  /\ Calls("exec")
  /\ run' = [run EXCEPT !.tests = IF passed /\ @ # "failed" THEN "passed" ELSE "failed"]
  /\ OnlyTheRun

(* PrDesk::open.                                                             *)
pr_open ==
  /\ Calls("open") /\ HasTree
  /\ \A i \in DOMAIN run.open : run.open[i].branch # run.id
  /\ run' = [run EXCEPT !.effects = Append(@, [op |-> "Opened"])]
  /\ OnlyTheRun

(* Claim::verified, and Pr::verified after it: never by the producer.        *)
verified(request, verifier) == verifier # request.implementer

(* PrDesk::check: the first request of that branch, never one's own; a       *)
(* passed check takes the branch off the desk, a failed one does not.        *)
pr_check(b, passed) ==
  /\ Calls("check")
  /\ \E i \in DOMAIN run.open :
       /\ run.open[i].branch = b /\ \A j \in 1 .. i - 1 : run.open[j].branch # b
       /\ verified(run.open[i], run.who)
       /\ run' = [run EXCEPT
                    !.effects = Append(@, [op |-> IF passed THEN "Merged" ELSE "Rejected",
                                           request |-> run.open[i]]),
                    !.open = IF passed THEN retain(@, b) ELSE @]
  /\ OnlyTheRun

(* GoalDesk::register: a clash is noted too, for the history.                *)
register(claim) ==
  /\ Calls("goal")
  /\ LET entry == [id |-> <<run.id, Len(run.goals) + 1>>, owner |-> run.who,
                   resources |-> claim.resources, standing |-> claim.standing]
         at == detect_conflict(run.registered, entry)
     IN  run' = IF at = 0
                THEN [run EXCEPT !.registered = Append(@, entry),
                        !.goals = Append(@, [op |-> "Registered", entry |-> entry])]
                ELSE [run EXCEPT
                        !.goals = Append(@, [op |-> "Conflicted", entry |-> entry,
                                             level |-> arbitrate(run.registered[at], entry)])]
  /\ OnlyTheRun

(* ArchiveDesk::record.                                                      *)
archive_record ==
  /\ Calls("archive") /\ ~run.shelf
  /\ run' = [run EXCEPT !.shelf = TRUE]
  /\ OnlyTheRun

Freeze ==
  /\ pc = "driving" /\ pc' = "goals"
  /\ UNCHANGED <<log, requests, goals, trunk, branch, city, trees, run, served, left, died>>

(* ------------------------------ the settlement --------------------------- *)

(* Landing::goals through settle: a line each, then the ground is held.      *)
GoalLines(effects) ==
  [n \in DOMAIN effects |->
    [kind |-> IF effects[n].op = "Registered" THEN "goal_registered" ELSE "goal_conflict",
     entry |-> effects[n].entry]]

SettleGoals ==
  /\ pc = "goals" /\ pc' = "sweep"
  /\ log' = log \o GoalLines(run.goals)
  /\ goals' = goals \o FoldGoals(GoalLines(run.goals))
  /\ UNCHANGED <<requests, trunk, branch, city, trees, run, served, left, died>>

(* The sweep: what the first fence held and is gone now.                     *)
SettleDiscards ==
  /\ pc = "sweep" /\ pc' = "shelf"
  /\ \E gone \in {wave_post(run.fenced, Files)} :
       log' = log \o SetToSeq({[kind |-> "file_discarded", room |-> x,
                                run |-> run.id, at |-> run.fenced] : x \in gone})
  /\ UNCHANGED <<requests, goals, trunk, branch, city, trees, run, served, left, died>>

(* Landing::shelf: the line, then the entry in the run's own files.          *)
SettleShelf ==
  /\ pc = "shelf" /\ pc' = "requests"
  /\ IF run.shelf
     THEN /\ log' = Append(log, [kind |-> "asset_archived", run |-> run.id])
          /\ SetFiles([Files EXCEPT !.shelf = @ \cup {run.id}])
     ELSE UNCHANGED <<log, city, trees>>
  /\ UNCHANGED <<requests, goals, trunk, branch, run, served, left, died>>

Effect == run.effects[1]
Answer(kind, tip) ==
  [kind |-> kind, request |-> Effect.request, by |-> run.who, in |-> run.id, commit |-> tip]

Taken == [run EXCEPT !.effects = Tail(@)]
(* As a bug might have it: an answer takes one request out.                  *)
Without_One(b) ==
  LET at == SelectInSeq(requests, LAMBDA held : held.branch = b)
  IN  IF at = 0 THEN requests ELSE RemoveAt(requests, at)

Without(b) == retain(requests, b)

(* As a bug might have it: the request names the commit before its own.      *)
SettleOpened_Early ==
  /\ pc = "requests" /\ run.effects # <<>> /\ Effect.op = "Opened"
  /\ LET request == [branch |-> run.id, implementer |-> run.who, commit |-> Tip]
     IN  /\ SetTip(Fence)
         /\ log' = Append(log, [kind |-> "pr_opened", request |-> request])
         /\ requests' = Append(requests, request)
  /\ run' = Taken
  /\ UNCHANGED <<goals, city, trees, pc, served, left, died>>

(* settle_requests, PrEffect::Opened: the tree is committed, the line names  *)
(* the commit, and the register holds it.                                    *)
SettleOpened ==
  /\ pc = "requests" /\ run.effects # <<>> /\ Effect.op = "Opened"
  /\ LET request == [branch |-> run.id, implementer |-> run.who, commit |-> Fence]
     IN  /\ SetTip(Fence)
         /\ log' = Append(log, [kind |-> "pr_opened", request |-> request])
         /\ requests' = Append(requests, request)
  /\ run' = Taken
  /\ UNCHANGED <<goals, city, trees, pc, served, left, died>>

Refused == Effect.op = "Rejected" \/ ~admits(run.mode, run.tests)

(* PrEffect::Rejected, and a Merged the run's mode does not admit.           *)
SettleRejected ==
  /\ pc = "requests" /\ run.effects # <<>> /\ Effect.op # "Opened" /\ Refused
  /\ log' = Append(log, Answer("pr_rejected", Effect.request.commit))
  /\ requests' = Without(Effect.request.branch)
  /\ run' = Taken
  /\ UNCHANGED <<goals, trunk, branch, city, trees, pc, served, left, died>>

(* PrEffect::Merged: decided (plan_merge), then announced; the trunk moves   *)
(* in a step of its own, and the process may die before it.                  *)
SettleMerged ==
  /\ pc = "requests" /\ run.effects # <<>> /\ Effect.op = "Merged" /\ ~Refused
  /\ ~MergeStale(branch[Effect.request.branch], trunk)
  /\ log' = Append(log, Answer("pr_merged", branch[Effect.request.branch]))
  /\ pc' = "applying"
  /\ UNCHANGED <<requests, goals, trunk, branch, city, trees, run, served, left, died>>

(* PlannedMerge::apply, and the request leaves the register.                 *)
apply ==
  /\ pc = "applying" /\ pc' = "requests"
  /\ \E target \in {Last(log).commit} :
       /\ trunk' = target
       /\ city' = checkout_head(city, TipTree(trunk), TipTree(target))
  /\ requests' = Without(Effect.request.branch)
  /\ run' = Taken
  /\ UNCHANGED <<log, goals, branch, trees, served, left, died>>

(* A merge the trunk has moved past fails the whole dispatch: the other      *)
(* effects are dropped and conclude, which gives the tree back, is skipped.  *)
SettleStale ==
  /\ pc = "requests" /\ run.effects # <<>> /\ Effect.op = "Merged" /\ ~Refused
  /\ MergeStale(branch[Effect.request.branch], trunk)
  /\ run' = NoRun /\ pc' = "idle"
  /\ UNCHANGED <<log, requests, goals, trunk, branch, city, trees, served, left, died>>

(* conclude: the tree goes back, files and all.                              *)
conclude ==
  /\ pc = "requests" /\ run.effects = <<>>
  /\ trees' = release(run.id)
  /\ run' = NoRun /\ pc' = "idle"
  /\ UNCHANGED <<log, requests, goals, trunk, branch, city, served, left, died>>

(* ------------------------------ dying, opening --------------------------- *)

Crash ==
  /\ pc # "down" /\ left["crash"] > 0
  /\ left' = [left EXCEPT !["crash"] = @ - 1] /\ died' = TRUE
  /\ run' = NoRun /\ pc' = "down" /\ requests' = <<>> /\ goals' = <<>>
  /\ UNCHANGED <<log, trunk, branch, city, trees, served>>

(* collaboration_from: the registers are what the ledger says.               *)
Reopen ==
  /\ pc = "down" /\ pc' = "idle"
  /\ requests' = FoldRequests(log) /\ goals' = FoldGoals(log)
  /\ UNCHANGED <<log, trunk, branch, city, trees, run, served, left, died>>

Next ==
  \/ \E who \in Residents, room \in Rooms, mode \in Modes : stand_up(who, room, mode)
  \/ \E deletes \in BOOLEAN : Wave(deletes)
  \/ \E passed \in BOOLEAN : Exec(passed)
  \/ pr_open
  \/ \E b \in Runs, passed \in BOOLEAN : pr_check(b, passed)
  \/ \E claim \in Claims : register(claim)
  \/ archive_record
  \/ Freeze
  \/ SettleGoals \/ SettleDiscards \/ SettleShelf
  \/ SettleOpened \/ SettleRejected \/ SettleMerged \/ apply \/ SettleStale
  \/ conclude
  \/ Crash \/ Reopen

Spec == Init /\ [][Next]_vars

(* ------------------------------- properties ------------------------------ *)

FilesSet == [rooms : UNION {[S -> 0 .. MaxRuns] : S \in SUBSET Rooms}, shelf : SUBSET Runs]
Commit == [by : Runs, tree : FilesSet]
Request == [branch : Runs, implementer : Residents, commit : Seq(Commit)]
Entry == [id : Runs \X Nat, owner : Residents, resources : {c.resources : c \in Claims},
          standing : {c.standing : c \in Claims}]
PrEffect == [op : {"Opened"}] \cup [op : {"Merged", "Rejected"}, request : Request]
GoalEffect ==
  [op : {"Registered"}, entry : Entry]
    \cup [op : {"Conflicted"}, entry : Entry, level : {"serialize", "arbitrate"}]
Desk == [id : Runs, who : Residents, room : Rooms, mode : Modes,
         tests : {"none", "passed", "failed"}, open : Seq(Request), effects : Seq(PrEffect),
         registered : Seq(Entry), goals : Seq(GoalEffect), shelf : BOOLEAN, fenced : Seq(Commit)]

ASSUME NoRunAssumption == NoRun \notin Desk

TypeOK ==
  /\ requests \in Seq(Request) /\ goals \in Seq(Entry)
  /\ trunk \in Seq(Commit) /\ branch \in [Runs -> Seq(Commit)]
  /\ city \in FilesSet
  /\ DOMAIN trees \subseteq Runs /\ \A r \in DOMAIN trees : trees[r] \in FilesSet
  /\ pc \in {"idle", "driving", "goals", "sweep", "shelf", "requests", "applying", "down"}
  /\ run \in Desk \cup {NoRun} /\ (run = NoRun <=> pc \in {"idle", "down"})
  /\ served \in 0 .. MaxRuns /\ died \in BOOLEAN

Lines(kind) == {i \in DOMAIN log : Is(log[i], kind)}

(* The two registers a worker keeps are what a restart would rebuild from    *)
(* the ledger, whatever was settled and wherever it died (folds.rs: "the     *)
(* register of open requests is folded from one rule").                      *)
RegistersAreTheLedger ==
  pc \notin {"down", "applying"} =>
    requests = FoldRequests(log) /\ goals = FoldGoals(log)

(* Nothing a resident wrote lands on that resident's own word, through       *)
(* whichever run or restart the answer came (pr_tool.rs, fanin.rs: "the      *)
(* implementer does not test their own work").                               *)
NobodyMergesTheirOwn ==
  \A i \in Lines("pr_merged") : log[i].by # log[i].request.implementer

(* What lands is, file by file, the commit the request named when it was     *)
(* opened ("a verifier who checked one commit has not vouched for a later    *)
(* one", pr_tool.rs), although the merge takes the branch's tip.             *)
VouchedIsWhatLands ==
  \A i \in Lines("pr_merged") : TipTree(log[i].commit) = TipTree(log[i].request.commit)

(* A merge on the ledger is in the trunk for good, unless the process died   *)
(* between that line and the move (worktree.rs: a caller can "never announce *)
(* one that was going to be refused").                                       *)
MergedIsInTheTrunk ==
  \A i \in Lines("pr_merged") :
    \/ IsPrefix(log[i].commit, trunk)
    \/ i = Len(log) /\ pc = "applying"
    \/ died

(* No two goals the city holds claim the same ground, whoever registered     *)
(* them and across restarts (goal_tool.rs: "refused if someone holds it      *)
(* already").                                                                *)
GroundIsHeldOnce ==
  \A i, j \in DOMAIN goals : i # j => ~Clash(goals[i], goals[j])

(* What a run under review asked to be remembered is on the building's shelf *)
(* when, and only when, its work was accepted: a rejected decision does not  *)
(* become the premise of later runs, and an accepted one is not lost with    *)
(* the tree (settling.rs, Site::fence_scope).                                *)
ShelfHoldsTheAccepted ==
  \A i \in Lines("asset_archived") :
    LET by == log[i].run
        accepted == \E j \in Lines("pr_merged") : log[j].request.branch = by
    IN  branch[by] # <<>> =>
          /\ by \in city.shelf => accepted
          /\ accepted /\ pc # "applying" /\ ~died => by \in city.shelf

(* The registers are the ledger's, and hold no ground twice.                 *)
RegistersAreSound == TypeOK /\ RegistersAreTheLedger /\ GroundIsHeldOnce

(* What lands is what somebody else vouched for.                             *)
LandsOnAnothersWord == NobodyMergesTheirOwn /\ VouchedIsWhatLands

(* What was accepted is in the city, its shelf entries with it; what was     *)
(* not, is not.                                                              *)
AcceptedIsInTheCity == MergedIsInTheTrunk /\ ShelfHoldsTheAccepted

(* Not kept by the code (README, section 7).                                 *)
(* "anything that disappeared becomes a file_discarded event carrying the    *)
(* way back" (ARCHITECTURE.md): once the run is settled, a room's file that  *)
(* some fence of the run held and that is gone is on the ledger.             *)
WhatDisappearedIsRecorded ==
  pc = "shelf" =>
    \A x \in DOMAIN TipTree(Tip).rooms \ DOMAIN Files.rooms :
      \E i \in Lines("file_discarded") : log[i].run = run.id /\ log[i].room = x
=============================================================================
