------------------------- MODULE MCKeyRotationTwice -------------------------
(***************************************************************************)
(* KeyRotation with two rotate requests, a blob in a file and one in its   *)
(* row, and no faults.                                                     *)
(***************************************************************************)
EXTENDS KeyRotation, TLC

Symmetry == Permutations(Requests)
=============================================================================
