----------------------- MODULE MCNotificationDelivery -----------------------
(***************************************************************************)
(* NotificationDelivery on a small instance: one job, two workers (a       *)
(* message of the job may be delivered to either at any time), three       *)
(* attempts and two crashes.  No symmetry: the run checks liveness too.    *)
(***************************************************************************)
EXTENDS NotificationDelivery
=============================================================================
