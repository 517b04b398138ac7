----------------------------- MODULE MCFailover -----------------------------
(***************************************************************************)
(* Failover on a small instance: two operator calls that may be sent again *)
(* any number of times, two regions deployed as primary and one as         *)
(* standby, two promotion tokens and one rollback token.  Nothing in the   *)
(* module tells calls, tokens of one purpose or writable regions apart, so *)
(* they are symmetric.                                                     *)
(***************************************************************************)
EXTENDS FailoverRefinement, TLC

Symmetry ==
  Permutations(Calls) \cup Permutations(PromoteTokens) \cup Permutations(Writable)
=============================================================================
