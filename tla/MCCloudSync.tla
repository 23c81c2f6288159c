---------------------------- MODULE MCCloudSync ----------------------------
(***************************************************************************)
(* Three rows in batches of two: a full batch and a remainder that only    *)
(* the time trigger flushes.  The breaker opens at the second failure and  *)
(* three faults let it open, close and open again, or combine a crash, an  *)
(* exception and a failed upload in any order.                             *)
(***************************************************************************)
EXTENDS CloudSync
=============================================================================
