---------------------------- MODULE MCKeyRotation ----------------------------
(***************************************************************************)
(* KeyRotation on small instances: two rotate requests and one blob, there *)
(* already or stored meanwhile.  Whether it lives in a file or in its row  *)
(* is picked at the start (`blob`; nobody stores the other one), so that   *)
(* one run with fairness covers both kinds.  Faults and pauses are for the *)
(* file: the row of a blob that is not in a file changes in one commit, or *)
(* not.  MCKeyRotationTwice has both blobs at once.                        *)
(***************************************************************************)
EXTENDS KeyRotation, TLC

VARIABLE blob

MCInit == Init /\ blob \in Blobs /\ \A b \in Blobs \ {blob} : row[b] = None

MCNext == /\ Next
          /\ UNCHANGED blob
          /\ \A b \in Blobs \ {blob} : store'[b] = store[b]
          /\ blob \in InlineBlobs =>
               UNCHANGED faults /\ \A q \in Requests : job'[q] # "paused"

MCSpec == /\ MCInit /\ [][MCNext]_<<vars, blob>>
          /\ \A q \in Requests : WF_vars(Advance(q))
=============================================================================
