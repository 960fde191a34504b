---------------------------- MODULE WorkshopOrder ---------------------------
(***************************************************************************)
(* collab::workshop and the lay_out of its tool: a graph of nodes is put in *)
(* order by freeing what waits for nothing, refused if it cannot be, and    *)
(* its nodes are handed down one after the other.                           *)
(***************************************************************************)
EXTENDS Naturals, Sequences, SequencesExt

CONSTANTS
    Nodes,     \* node ids: numbers, which stand for their order
    Strangers  \* ids a node may name that are no node of the graph

ASSUME WorkshopAssumption ==
    Nodes \subseteq Nat /\ IsFiniteSet(Nodes) /\ Strangers \cap Nodes = {}

VARIABLES
    needs,      \* what each node depends on
    inside,     \* nodes whose room lies in the asking run's building
    phase,
    remaining,  \* for nodes not yet placed, how many of their needs are not
    queue, order,
    desk        \* what stands on the delegate desk

workshopVars == <<needs, inside, phase, remaining, queue, order, desk>>

Ascending(S) ==
    [i \in 1..Cardinality(S) |-> CHOOSE n \in S : Cardinality({m \in S : m < n}) = i - 1]

WorkshopInit ==
    /\ needs \in [Nodes -> SUBSET (Nodes \cup Strangers)]
    /\ inside \in SUBSET Nodes
    /\ phase = "check" /\ remaining = [n \in {} |-> 0] /\ queue = <<>> /\ order = <<>> /\ desk = <<>>

\* Workshop::new, before the order: every need is a node of the graph.
new ==
    /\ phase = "check"
    /\ IF \A n \in Nodes : needs[n] \subseteq Nodes
       THEN /\ phase' = "order"
            /\ remaining' = [n \in Nodes |-> Cardinality(needs[n])]
            /\ queue' = Ascending({n \in Nodes : needs[n] = {}})
       ELSE phase' = "refused" /\ UNCHANGED <<remaining, queue>>
    /\ UNCHANGED <<needs, inside, order, desk>>

\* A node is freed when the last of its needs is placed.
Freed(id, left) == left = 0

\* One turn of order's loop.
order_next ==
    /\ phase = "order" /\ queue # <<>>
    /\ LET id == Head(queue)
           rest == DOMAIN remaining \ {id}
           left == [n \in rest |-> IF id \in needs[n] /\ remaining[n] > 0 THEN remaining[n] - 1 ELSE remaining[n]]
       IN  /\ order' = Append(order, id)
           /\ remaining' = left
           /\ queue' = Tail(queue) \o Ascending({n \in rest : id \in needs[n] /\ Freed(n, left[n])})
    /\ UNCHANGED <<needs, inside, phase, desk>>

\* Workshop::new, after it: nodes that were never freed wait on each other.
Complete == Len(order) = Cardinality(Nodes)

order_ends ==
    /\ phase = "order" /\ queue = <<>>
    /\ phase' = IF Complete THEN "hand" ELSE "refused"
    /\ UNCHANGED <<needs, inside, remaining, queue, order, desk>>

\* lay_out: the desk is asked for one node after the other, and the first it
\* refuses ends the call.
lay_out ==
    /\ phase = "hand"
    /\ LET k == Len(desk) + 1
       IN  IF k > Len(order) THEN phase' = "laid" /\ UNCHANGED desk
           ELSE IF order[k] \in inside THEN desk' = Append(desk, order[k]) /\ UNCHANGED phase
           ELSE phase' = "refused" /\ UNCHANGED desk
    /\ UNCHANGED <<needs, inside, remaining, queue, order>>

WorkshopNext == new \/ order_next \/ order_ends \/ lay_out

-----------------------------------------------------------------------------
(* Properties *)

\* Some nodes wait on each other: each needs another of them.
Cyclic == \E S \in (SUBSET Nodes) \ {{}} : \A n \in S : needs[n] \cap S # {}

\* A graph is put in order exactly when nothing in it waits on itself and
\* nothing it names is missing: no cycle is handed down, and no graph that
\* could be worked through is refused (Workshop::new, order).
OrderedIffAcyclic ==
    /\ phase \in {"hand", "laid"} => ~Cyclic /\ \A n \in Nodes : needs[n] \subseteq Nodes
    /\ phase = "refused" => \/ Cyclic \/ \E n \in Nodes : needs[n] \cap Strangers # {}
                            \/ inside # Nodes

\* Whatever stands on the desk, all that it needs stands there before it
\* (schedule); that nothing stands there twice is LaidOutWhole's.
NeedsComeFirst ==
    \A k \in 1..Len(desk) :
        \A n \in needs[desk[k]] : \E j \in 1..k - 1 : desk[j] = n

\* Of a graph that was laid out, every node is handed down once.
LaidOutWhole == phase = "laid" => ToSet(desk) = Nodes /\ Len(desk) = Cardinality(Nodes)
=============================================================================
