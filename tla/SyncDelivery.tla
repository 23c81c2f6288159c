---------------------------- MODULE SyncDelivery ----------------------------
(***************************************************************************)
(* What the cloud synchroniser promises about one telemetry table and one  *)
(* bucket: at-least-once delivery.  A queued record may be put into the    *)
(* bucket any number of times, it is confirmed only once it is there, and  *)
(* what is confirmed is never put again.                                   *)
(***************************************************************************)
EXTENDS Naturals

CONSTANTS Record      \* the rows of telemetry_ingress_queue

VARIABLES queued,     \* rows the conductor has committed
          bucket,     \* rows contained in some S3 object
          confirmed   \* rows marked SYNCED

vars == <<queued, bucket, confirmed>>

Init == queued = {} /\ bucket = {} /\ confirmed = {}

Enqueue == /\ \E new \in SUBSET (Record \ queued) : queued' = queued \cup new
           /\ UNCHANGED <<bucket, confirmed>>

Put == /\ \E chunk \in SUBSET (queued \ confirmed) : bucket' = bucket \cup chunk
       /\ UNCHANGED <<queued, confirmed>>

Confirm == /\ \E chunk \in SUBSET bucket : confirmed' = confirmed \cup chunk
           /\ UNCHANGED <<queued, bucket>>

Next == Enqueue \/ Put \/ Confirm

Spec == Init /\ [][Next]_vars
=============================================================================
