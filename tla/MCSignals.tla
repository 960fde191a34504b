------------------------------ MODULE MCSignals -----------------------------
(* What residents say to each other, for TLC: where a signal waits and who   *)
(* is set going by it. A behaviour is about one of the two.                  *)
EXTENDS Knocking, Inboxes

VARIABLE part

Init == part \in {"knocking", "inboxes"} /\ KnockingInit /\ InboxesInit

Knocks == part = "knocking" /\ KnockingNext /\ UNCHANGED <<part, inboxVars>>

Boxes == part = "inboxes" /\ InboxesNext /\ UNCHANGED <<part, knockVars>>

Next == Knocks \/ Boxes

(* The fairness is that of Knocking.                                         *)
Spec ==
  /\ Init /\ [][Next]_<<part, knockVars, inboxVars>>
  /\ WF_knockVars(part = "knocking" /\ Worker)

(* Between dispatches the queues are the ledger's, and the worker's own      *)
(* state is well formed.                                                     *)
QueuesAreTheLedger == KnockTypeOK /\ InboxTypeOK /\ InboxIsTheLedger

(* Nothing is served twice: no signal is read twice or stands in two places, *)
(* and no resident is knocked for twice in one wave.                         *)
NothingTwice == ConsumedOnce /\ OnePlaceEach /\ OneKnockEach
=============================================================================
