---------------------------- MODULE MCApprovals ----------------------------
EXTENDS Approvals

(* Rooms are compared and never ordered.                                     *)
Symmetry == Permutations(Rooms)
=============================================================================
