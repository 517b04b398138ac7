---------------------------- MODULE MCIngestion ----------------------------
(***************************************************************************)
(* Two requests, each of any kind, race over one document that is absent   *)
(* or was ingested before; two workers, two attempts a job, two faults.    *)
(* No symmetry: the run checks liveness too.                               *)
(***************************************************************************)
EXTENDS Ingestion
=============================================================================
