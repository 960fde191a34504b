----------------------------- MODULE LedgerView -----------------------------
(***************************************************************************)
(* What a page promises about the history it shows: it is a reading of the *)
(* ledger.  Records are read in the order they were written, none is read  *)
(* twice, and none is shown that was never written.  A reading may have    *)
(* gaps, and a page may be thrown away and read again from nothing.        *)
(***************************************************************************)
EXTENDS Naturals, Sequences

VARIABLES
    written,    \* how many records the ledger holds
    shown       \* the records a page has read, in the order it read them

Init == written \in Nat /\ shown = << >>

InOrder(s) == \A i, j \in DOMAIN s : i < j => s[i] < s[j]

\* The ledger grows.
Write == written' > written /\ shown' = shown

\* A page reads records it has not read, all of them newer than the last.
Read ==
    /\ written' = written
    /\ Len(shown) < Len(shown') /\ SubSeq(shown', 1, Len(shown)) = shown
    /\ InOrder(shown')
    /\ \A i \in DOMAIN shown' : shown'[i] \in 1 .. written

Forget == shown' = << >> /\ written' = written

Spec == Init /\ [][Write \/ Read \/ Forget]_<<written, shown>>
=============================================================================
