--------------------------- MODULE MCCommandDesk ---------------------------
(* One dispatch, a Cancel and a Steer for the run a client can know of, and  *)
(* a keyless command (PutSecret).                                            *)
EXTENDS CommandDesk

CONSTANTS k1, k2, k3, r1

MCAsks == {[kind |-> "dispatch", key |-> k1, run |-> NoRun],
           [kind |-> "cancel", key |-> k2, run |-> r1],
           [kind |-> "steer", key |-> k3, run |-> r1],
           [kind |-> "plain", key |-> NoKey, run |-> NoRun]}
=============================================================================
