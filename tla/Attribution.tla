----------------------------- MODULE Attribution ----------------------------
(***************************************************************************)
(* memory::attribution: the money the ledger's records say was spent, split *)
(* over runs, prompt segments and tools, one record at a time. The view is  *)
(* folded by the observer (sprawling::views) in the ledger's order.         *)
(***************************************************************************)
EXTENDS Naturals, Sequences, FiniteSetsExt

CONSTANTS
    Payers,       \* runs
    Slots,        \* prompt segments: numbers, which stand for their names' order
    Prompts,      \* prompts: sequences of segments with their weight
    Tools,        \* tools, likewise
    Sizes,        \* bytes a segment or a result has
    Bills,        \* what a call may cost
    MaxRecords

ASSUME AttributionAssumption ==
    /\ Slots \subseteq Nat /\ Tools \subseteq Nat \ {0} /\ Sizes \subseteq Nat /\ Bills \subseteq Nat
    /\ MaxRecords \in Nat
    /\ IsFiniteSet(Payers) /\ IsFiniteSet(Slots) /\ IsFiniteSet(Tools)
    /\ Prompts \subseteq Seq([bucket : Slots, weight : Nat])

VARIABLES
    total, by_run, by_segment, by_tool,
    segment_weights,   \* the segments of the prompt last assembled, in order
    tool_weights,      \* bytes of results since the last call, 0 for none
    records,
    cut,               \* history: the last bill over segments, and its shares
    since              \* history: tools that have returned since the last call

attributionVars == <<total, by_run, by_segment, by_tool, segment_weights, tool_weights, records, cut, since>>

Nobody == 0                                      \* NO_TOOL
Unattributed == 0                                \* NO_SEGMENT
Weighed(bucket, weight) == [bucket |-> bucket, weight |-> weight]
Uncut == [bill |-> 0, weights |-> <<>>, shares |-> <<>>]

AttributionInit ==
    /\ total = 0 /\ by_run = [r \in Payers |-> 0]
    /\ by_segment = [s \in Slots \cup {Unattributed} |-> 0]
    /\ by_tool = [t \in Tools \cup {Nobody} |-> 0]
    /\ segment_weights = <<>> /\ tool_weights = [t \in Tools |-> 0]
    /\ records = 0 /\ cut = Uncut /\ since = {}

-----------------------------------------------------------------------------
(* split *)

Weight(weights) == SumFunction([i \in DOMAIN weights |-> weights[i].weight])

\* What the floors leave over, a unit each to the largest remainders.
Leftover(bill, floors) == bill - SumFunction(floors)

\* Bug: in the order of the names, whatever the remainders.
Before_Named(weights, rest, i, j) == i < j

\* The order the units are given in: by remainder, then by name, then by
\* place.
Before(weights, rest, i, j) ==
    \/ rest[i] > rest[j]
    \/ rest[i] = rest[j] /\ weights[i].bucket < weights[j].bucket
    \/ rest[i] = rest[j] /\ weights[i].bucket = weights[j].bucket /\ i < j

\* What each of the weights bears of a bill, when there is any weight.
Shares(bill, weights) ==
    LET sum == Weight(weights)
        floors == [i \in DOMAIN weights |-> (bill * weights[i].weight) \div sum]
        rest == [i \in DOMAIN weights |-> (bill * weights[i].weight) % sum]
        rank(i) == Cardinality({j \in DOMAIN weights : j # i /\ Before(weights, rest, j, i)})
    IN  [i \in DOMAIN weights |->
            IF rank(i) < Leftover(bill, floors) THEN floors[i] + 1 ELSE floors[i]]

\* split and the adds behind it: the bill over the buckets that are weighed,
\* or all of it to the fallback.
split(bill, weights, fallback, book) ==
    IF Weight(weights) = 0 THEN [book EXCEPT ![fallback] = @ + bill]
    ELSE LET shares == Shares(bill, weights)
             of(b) == {i \in DOMAIN weights : weights[i].bucket = b}
         IN  [b \in DOMAIN book |->
                IF of(b) = {} THEN book[b] ELSE book[b] + SumFunctionOnSet(shares, of(b))]

-----------------------------------------------------------------------------
(* Attribution::apply, one kind of record each *)

prompt_assembled(weights) ==
    /\ segment_weights' = weights
    /\ UNCHANGED <<total, by_run, by_segment, by_tool, tool_weights, cut, since>>

tool_result(t, bytes) ==
    /\ tool_weights' = [tool_weights EXCEPT ![t] = @ + bytes]
    /\ since' = since \cup {t}
    /\ UNCHANGED <<total, by_run, by_segment, by_tool, segment_weights, cut>>

\* Bug: results are carried on to the next call too.
Cleared_Kept == tool_weights

Cleared == [t \in Tools |-> 0]

\* A call nobody billed clears what led to it.
model_returned_unbilled ==
    /\ tool_weights' = Cleared /\ since' = {}
    /\ UNCHANGED <<total, by_run, by_segment, by_tool, segment_weights, cut>>

\* The tools that returned anything, each at its name.
Basis == [t \in {u \in Tools : tool_weights[u] > 0} |-> Weighed(t, tool_weights[t])]

model_returned(r, bill) ==
    /\ total' = total + bill
    /\ by_run' = [by_run EXCEPT ![r] = @ + bill]
    /\ by_segment' = split(bill, segment_weights, Unattributed, by_segment)
    /\ by_tool' = split(bill, Basis, Nobody, by_tool)
    /\ tool_weights' = Cleared /\ since' = {}
    /\ cut' = IF Weight(segment_weights) = 0 THEN Uncut
              ELSE [bill |-> bill, weights |-> segment_weights, shares |-> Shares(bill, segment_weights)]
    /\ UNCHANGED segment_weights

AttributionNext ==
    /\ records < MaxRecords /\ records' = records + 1
    /\ \/ \E w \in Prompts : prompt_assembled(w)
       \/ \E t \in Tools, b \in Sizes : tool_result(t, b)
       \/ model_returned_unbilled
       \/ \E r \in Payers, b \in Bills : model_returned(r, b)

-----------------------------------------------------------------------------
(* Properties *)

\* Every way of cutting the bill adds up to the bill: no unit is lost or
\* invented by rounding, by a segment named twice or by weights of nothing
\* (split, "to the micro").
CutsAddUp ==
    SumFunction(by_run) = total /\ SumFunction(by_segment) = total /\ SumFunction(by_tool) = total

\* A share is its proportion, rounded down or up, and who weighs more never
\* bears less (the order of the remainders).
SharesAreFair ==
    \A i \in DOMAIN cut.weights :
        LET sum == Weight(cut.weights)
        IN  /\ cut.shares[i] * sum < cut.bill * cut.weights[i].weight + sum
            /\ cut.bill * cut.weights[i].weight < cut.shares[i] * sum + sum
            /\ \A j \in DOMAIN cut.weights :
                  cut.weights[i].weight > cut.weights[j].weight => cut.shares[i] >= cut.shares[j]

\* After a call, the results it was made of are charged to nobody again: a
\* tool that has returned nothing since bears nothing of the next call
\* (the clears at both ends of ModelReturned).
ChargedOnce ==
    [][\A t \in Tools \ since : by_tool'[t] = by_tool[t]]_attributionVars
=============================================================================
