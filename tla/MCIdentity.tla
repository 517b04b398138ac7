----------------------------- MODULE MCIdentity -----------------------------
(***************************************************************************)
(* Identity on a small instance: two calls at a time over one user and two *)
(* groups that are bound to different roles.                               *)
(***************************************************************************)
EXTENDS Identity, TLC

CONSTANTS ga, ge

Bindings == ga :> "admin" @@ ge :> "editor"
CallsAlike == Permutations(Calls)
=============================================================================
