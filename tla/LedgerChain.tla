---------------------------- MODULE LedgerChain ----------------------------
(***************************************************************************)
(* The chain rule of kernel::ledger, shared by the port's specification    *)
(* (EventLog), its adapter (JsonlLedger) and whoever verifies a history.   *)
(*                                                                         *)
(* A hash is modelled by the identity of the line it is taken of: lines    *)
(* carry distinct ids, so chain_hash(line) is line.id (BLAKE3 is taken to  *)
(* be free of collisions).                                                 *)
(***************************************************************************)
EXTENDS Integers, Sequences

\* The prev of the first line: kernel::ledger::GENESIS_PREV.
GENESIS_PREV == 0

\* kernel::ledger::chain_hash
chain_hash(line) == line.id

\* The chain rule: line k is numbered k - 1 and names the line before it.
Chained(lines) ==
    \A i \in 1 .. Len(lines) :
        /\ lines[i].seq = i - 1
        /\ lines[i].prev = IF i = 1 THEN GENESIS_PREV
                                    ELSE chain_hash(lines[i - 1])

\* Every line of s stands at the same place in t.
Precedes(s, t) ==
    /\ Len(s) <= Len(t)
    /\ \A i \in 1 .. Len(s) : t[i] = s[i]
=============================================================================
