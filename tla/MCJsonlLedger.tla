--------------------------- MODULE MCJsonlLedger ---------------------------
(* JsonlLedger for TLC. A behaviour meets faults of one kind, through which  *)
(* the adapter keeps everything it promises, or faults of every kind mixed.  *)
EXTENDS JsonlLedger

CONSTANTS MixedWave, MixedDrafts   \* bounds of the behaviours that mix faults

VARIABLE kind   \* the kind of fault this behaviour meets, or "mixed"

KindInit == Init /\ kind \in {"power", "kill", "mixed"}

KindNext ==
    /\ \/ Open \/ Truncate \/ SyncCut \/ Remove \/ SyncRemoval
       \/ \E n \in 1 .. MaxWave :
             /\ kind = "mixed" => n <= MixedWave /\ drafts + n <= MixedDrafts
             /\ AppendAll(n)
       \/ Write \/ Sync \/ SyncDir \/ Close
       \/ kind \in {"power", "mixed"} /\ PowerCut
       \/ kind \in {"kill", "mixed"} /\ Kill
       \/ kind = "mixed" /\ IoError
    /\ UNCHANGED kind

\* A started command runs to its end, and a stopped city is started again.
KindSpec == KindInit /\ [][KindNext]_<<vars, kind>> /\ WF_vars(Steps)

-----------------------------------------------------------------------------
OneKind == kind # "mixed"

Promised == INSTANCE EventLog WITH log <- IF OneKind THEN log ELSE << >>

\* A wave append_all answered Ok for is never lost, renumbered or cut out of
\* the chain by a later open, nor is a line an earlier open stood on: through
\* power cuts, or through kills, history only ever grows at its end
\* (jsonl.rs, "`Ok` means every line is written and synced").
HistoryIsKept == Promised!Spec

\* A city whose ledger this build wrote always opens again: neither power
\* cuts nor kills leave segments that open answers with an Envelope error
\* instead of a repair.
CityOpens == OneKind => RefusedIsNewer

\* Through power cuts, every line of an open history is on the platter, in
\* the segment its number says, and the handle stands right behind the last.
PowerLeavesItStanding == kind = "power" => StandsOnThePlatter

\* What a city stands on after any stop: its state is well formed, it opens,
\* and what it opened is where the next wave expects it.
CityStands == TypeOK /\ CityOpens /\ PowerLeavesItStanding
=============================================================================
