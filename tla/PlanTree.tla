------------------------------ MODULE PlanTree ------------------------------
(* The plan a building keeps in Roadmap.md, as kernel::plan reads it: which  *)
(* tables are a tree, what may be started, what each node is worth, and how  *)
(* far a stopped node reaches (kernel::node_id, plan, share, blockage and    *)
(* the row edits of kernel::spine).                                          *)
(*                                                                           *)
(* A node is its dotted index, a sequence of ordinals. A plan is a function  *)
(* from its nodes to their rows, so an index written twice, which            *)
(* PlanTree::build refuses, is not a plan. The wording of a row is left out. *)
(* A file that is absent or has no table, which every reader refuses, and a  *)
(* table without rows, in which every index is refused, are both NoPlan.     *)
EXTENDS Integers, Sequences, SequencesExt, FiniteSetsExt

CONSTANTS WHOLE_PPB,       \* the whole plan, in the smallest part there is
          NODE_DEPTH_MAX

ASSUME PlanAssumption == WHOLE_PPB \in Nat /\ NODE_DEPTH_MAX \in Nat \ {0}

RoadmapStatus == {"NotStarted", "InProgress", "Blocked", "AwaitingApproval", "Done"}

Row == [status : RoadmapStatus, evidence : BOOLEAN, weight : Nat, needs : Seq(Seq(Nat \ {0}))]

NoPlan == <<>>

NodeIds == Seq(Nat \ {0}) \ {<<>>}

\* What a table is, before anything is asked of it as a tree.
IsPlan(plan) ==
  /\ IsFiniteSet(DOMAIN plan) /\ DOMAIN plan \subseteq NodeIds
  /\ plan \in [DOMAIN plan -> Row]

-----------------------------------------------------------------------------
(* kernel::node_id *)

IsTop(id) == Len(id) = 1

parent(id) == Front(id)

ordinal(id) == Last(id)

is_ancestor_of(a, id) == IsStrictPrefix(a, id)

ancestors(id) == {SubSeq(id, 1, k) : k \in 1 .. Len(id) - 1}

\* The order NodeId's derived Ord gives, for ordinals of one digit.
Before(a, b) ==
  \/ is_ancestor_of(a, b)
  \/ \E k \in 1 .. Len(a) :
       /\ k <= Len(b) /\ a[k] < b[k]
       /\ \A j \in 1 .. k - 1 : a[j] = b[j]

\* The nodes of S as a BTreeMap walks them.
Ordered(S) ==
  [i \in 1 .. Cardinality(S) |->
     CHOOSE id \in S : Cardinality({other \in S : Before(other, id)}) = i - 1]

First(S) == CHOOSE id \in S : \A other \in S \ {id} : Before(id, other)

-----------------------------------------------------------------------------
(* PlanTree::build *)

Nodes(plan) == DOMAIN plan

children(plan, id) == {c \in Nodes(plan) : ~ IsTop(c) /\ parent(c) = id}

is_leaf(plan, id) == children(plan, id) = {}

Tops(plan) == {id \in Nodes(plan) : IsTop(id)}

needs(plan, id) == ToSet(plan[id].needs)

Orphaned(plan) == {id \in Nodes(plan) : ~ IsTop(id) /\ parent(id) \notin Nodes(plan)}

\* A need the table does not carry, or the node itself.
BadNeeds(plan) ==
  {id \in Nodes(plan) : \E n \in needs(plan, id) : n \notin Nodes(plan) \/ n = id}

\* What first_cycle's peeling leaves: a node is freed once as many of its
\* needs were freed as its list is long, and a need listed twice is freed once.
Stuck(plan) ==
  LET listed_twice(id) == Cardinality(needs(plan, id)) < Len(plan[id].needs)
      needy == {id \in Nodes(plan) : plan[id].needs # <<>>}
  IN  UNION {S \in SUBSET needy :
               \A id \in S : listed_twice(id) \/ needs(plan, id) \cap S # {}}

\* first_cycle's walk: from the first stuck node along the first stuck need;
\* it gives up, and reports no circle, at a node none of whose needs is stuck.
first_cycle(plan) ==
  LET stuck == Stuck(plan)
      go(id) == LET at == {i \in 1 .. Len(plan[id].needs) : plan[id].needs[i] \in stuck}
                IN  IF at = {} THEN <<>> ELSE plan[id].needs[Min(at)]
      walk[k \in 0 .. Cardinality(stuck)] ==
        IF k = 0 THEN First(stuck)
        ELSE IF walk[k - 1] = <<>> THEN <<>> ELSE go(walk[k - 1])
  IN  /\ stuck # {}
      /\ \E k \in 0 .. Cardinality(stuck) :
           /\ \A j \in 0 .. k : walk[j] # <<>>
           /\ \/ k = Cardinality(stuck)
              \/ k > 0 /\ walk[k] = First(stuck)

\* check_branch_claims: a branch that says Done over a child that does not.
Overclaimed(plan) ==
  {id \in Nodes(plan) : /\ plan[id].status = "Done"
                        /\ \E c \in children(plan, id) : plan[c].status # "Done"}

build_refuses(plan) ==
  \/ plan = NoPlan
  \/ Orphaned(plan) # {}
  \/ BadNeeds(plan) # {}
  \/ first_cycle(plan)
  \/ Overclaimed(plan) # {}

-----------------------------------------------------------------------------
(* Share::split, gather and PlanTree::hand_out *)

\* The remainder goes to the earliest parts, one each.
split_DropsTheRemainder(pot, weights) ==
  [i \in DOMAIN weights |-> (pot * weights[i]) \div SumFunction(weights)]
split(pot, weights) ==
  LET total     == SumFunction(weights)
      floor     == [i \in DOMAIN weights |-> (pot * weights[i]) \div total]
      remainder == pot - SumFunction(floor)
  IN  [i \in DOMAIN weights |-> floor[i] + IF i <= remainder THEN 1 ELSE 0]

\* What each of the nodes `among`, siblings in order, gets of pot.
Parts(plan, pot, among) ==
  LET weights == [i \in DOMAIN among |-> plan[among[i]].weight]
  IN  split(pot, IF \A i \in DOMAIN among : weights[i] = 0
                 THEN [i \in DOMAIN among |-> 1] ELSE weights)

Part(plan, pot, siblings, id) ==
  LET among == Ordered(siblings)
  IN  Parts(plan, pot, among)[CHOOSE i \in DOMAIN among : among[i] = id]

share(plan) ==
  LET of[id \in Nodes(plan)] ==
        IF IsTop(id) THEN Part(plan, WHOLE_PPB, Tops(plan), id)
        ELSE Part(plan, of[parent(id)], children(plan, parent(id)), id)
  IN  of

Leaves(plan) == {id \in Nodes(plan) : is_leaf(plan, id)}

gather(plan, S) == Min({WHOLE_PPB, SumFunctionOnSet(share(plan), S)})

\* PlanTree::progress: the leaves finished with evidence, and the red ones.
DoneLeaves(plan) == {id \in Leaves(plan) : plan[id].status = "Done" /\ plan[id].evidence}
RedLeaves(plan) == {id \in Leaves(plan) : plan[id].status \in {"Blocked", "AwaitingApproval"}}
progress(plan) ==
  [done |-> Cardinality(DoneLeaves(plan)), blocked |-> Cardinality(RedLeaves(plan)),
   total |-> Cardinality(Leaves(plan)),
   done_ppb |-> gather(plan, DoneLeaves(plan)), blocked_ppb |-> gather(plan, RedLeaves(plan))]

-----------------------------------------------------------------------------
(* PlanTree::needs_of, ready, claim *)

needs_of(plan, id) == UNION {needs(plan, a) : a \in (ancestors(id) \cap Nodes(plan)) \cup {id}}

Waiting(plan, id) == {n \in needs_of(plan, id) : n \notin Nodes(plan) \/ plan[n].status # "Done"}

ready(plan) ==
  {id \in Leaves(plan) : plan[id].status = "NotStarted" /\ Waiting(plan, id) = {}}

claim_allows(plan, id) ==
  /\ id \in Nodes(plan)
  /\ is_leaf(plan, id)
  /\ plan[id].status = "NotStarted"
  /\ Waiting(plan, id) = {}

-----------------------------------------------------------------------------
(* The edits of kernel::spine *)

\* set_roadmap_status: draw_row writes the evidence given, and none otherwise.
set_roadmap_status(plan, id, status, evidence) ==
  [plan EXCEPT ![id].status = status, ![id].evidence = evidence]

\* insert_children: the ordinals go on after the last child there is, and the
\* new rows are of weight one here.
NewChildren(plan, id, n) ==
  LET next == IF is_leaf(plan, id) THEN 0 ELSE Max({ordinal(c) : c \in children(plan, id)})
  IN  {Append(id, next + k) : k \in 1 .. n}

insert_children(plan, id, n) ==
  LET new == NewChildren(plan, id, n)
  IN  [c \in Nodes(plan) \cup new |->
         IF c \in new
         THEN [status |-> "NotStarted", evidence |-> FALSE, weight |-> 1, needs |-> <<>>]
         ELSE plan[c]]

insert_refuses(id) == Len(id) + 1 > NODE_DEPTH_MAX

-----------------------------------------------------------------------------
(* kernel::blockage *)

\* Who waits for whom the other way round, and the branches above.
Behind(plan, id) ==
  (ancestors(id) \cap Nodes(plan)) \cup {n \in Nodes(plan) : id \in needs_of(plan, n)}

\* walk: the least set that has the node and all that is behind its members.
Reached(plan, from) ==
  LET closed == {S \in SUBSET Nodes(plan) :
                   from \in S /\ \A id \in S : Behind(plan, id) \subseteq S}
  IN  CHOOSE S \in closed : \A T \in closed : S \subseteq T

\* spread: what each red node reaches; red nodes are not one another's.
spread(plan, red) ==
  [source \in red \cap Nodes(plan) |-> Reached(plan, source) \ red]

\* notices: who is told of which source; not its own holder.
notices(blocked, holders) ==
  {[to |-> holders[p[2]], about |-> p[1]] :
     p \in {q \in (DOMAIN blocked) \X (DOMAIN holders) :
              /\ q[2] \in blocked[q[1]]
              /\ q[1] \in DOMAIN holders => holders[q[1]] # holders[q[2]]}}
=============================================================================
