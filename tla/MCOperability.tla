--------------------------- MODULE MCOperability ---------------------------
(***************************************************************************)
(* Operability on a small instance: three calls of any kind, a freeze and  *)
(* a Redis action.                                                         *)
(***************************************************************************)
EXTENDS Operability, TLC

CallsAlike == Permutations(Calls)
=============================================================================
