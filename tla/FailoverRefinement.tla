------------------------- MODULE FailoverRefinement -------------------------
(***************************************************************************)
(* Failover implements EpochRegister while Redis is up.                    *)
(***************************************************************************)
EXTENDS Failover

\* Without Redis the control plane promises less: the register is then mapped to
\* one that nothing but Pay ever happens to.
Somewhere == CHOOSE r \in Regions : TRUE
Up        == redis = "reliable"
Used      == {t \in Tokens : tok[t] = "used"}

Register == INSTANCE EpochRegister WITH
  primary <- IF Up THEN row.active ELSE Somewhere,
  epoch   <- IF Up THEN row.epoch ELSE 1,
  cooling <- IF Up THEN row.cooling ELSE FALSE,
  paid    <- Cardinality(Used),
  served  <- IF Up THEN served ELSE <<0, Somewhere>>

\* With Redis up the cluster row is an atomic register of the primary, although each
\* transition reads it, spends its token and writes it in up to six transactions
\* that operators, other calls, crashes and retries come between: every step of the
\* server is one step of the register, or none.
ImplementsRegister == Register!Spec
=============================================================================
