------------------------------ MODULE EventLog ------------------------------
(***************************************************************************)
(* What the Ledger port promises (kernel::ledger): one history, one line   *)
(* per event, each line numbered by its position and carrying the hash of  *)
(* the line before it.  History is extended and never rewritten: "Ok(ref)  *)
(* means the record is durable", whatever the adapter's medium does.       *)
(***************************************************************************)
EXTENDS LedgerChain

VARIABLE log        \* every line of the history, in order

Init == log = << >>

\* History grows at its end, by any number of lines, and stays chained.
Extend ==
    /\ Precedes(log, log')
    /\ Chained(log')

Spec == Init /\ [][Extend]_log
=============================================================================
