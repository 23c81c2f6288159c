---------------------------- MODULE MCRingBuffer ----------------------------
(***************************************************************************)
(* A ring of four slots (three usable) and two byte values: the index      *)
(* wraps, the ring fills and empties, and a swapped or stale byte shows.   *)
(***************************************************************************)
EXTENDS RingBuffer
=============================================================================
