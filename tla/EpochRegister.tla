--------------------------- MODULE EpochRegister ---------------------------
(***************************************************************************)
(* What the failover control plane promises to the write path: a register  *)
(* that says which region may write.  It knows no calls, locks, tokens or  *)
(* freezes, and each of its steps is atomic.                               *)
(***************************************************************************)
EXTENDS Naturals

CONSTANTS Regions

VARIABLES
  primary,  \* the region that may write
  epoch,    \* number of the period since the primary last moved
  cooling,  \* whether the primary must stay where it is
  paid,     \* approvals spent
  served    \* epoch and region of the last write that was let through

vars == <<primary, epoch, cooling, paid, served>>

Init ==
  /\ primary \in Regions
  /\ epoch = 1
  /\ cooling = FALSE
  /\ paid = 0
  /\ served = <<0, primary>>

Pay ==
  /\ paid' = paid + 1
  /\ UNCHANGED <<primary, epoch, cooling, served>>

\* The primary moves: once for each approval at most, into an epoch of its own, and
\* not again before the cooldown is over.
Transfer(r) ==
  /\ epoch <= paid
  /\ ~cooling
  /\ primary' = r
  /\ epoch' = epoch + 1
  /\ cooling' = TRUE
  /\ UNCHANGED <<paid, served>>

Cool ==
  /\ cooling' = FALSE
  /\ UNCHANGED <<primary, epoch, paid, served>>

Serve ==
  /\ served' = <<epoch, primary>>
  /\ UNCHANGED <<primary, epoch, cooling, paid>>

Next ==
  \/ Pay
  \/ \E r \in Regions : Transfer(r)
  \/ Cool
  \/ Serve

Spec == Init /\ [][Next]_vars
=============================================================================
