---------------------------- MODULE MCGovernance ----------------------------
(***************************************************************************)
(* Governance on a small instance: a tenant with a document and a session, *)
(* another tenant without content, a backup set that holds data of both,   *)
(* and two operations.                                                     *)
(***************************************************************************)
EXTENDS Governance, TLC

CONSTANTS t1, t2, d1, s1

Owners == d1 :> t1 @@ s1 :> t1

OpsAlike == Permutations(Ops)
=============================================================================
