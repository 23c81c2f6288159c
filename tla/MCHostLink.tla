----------------------------- MODULE MCHostLink -----------------------------
(***************************************************************************)
(* Home and one other pose, two targets.  Times in units of 0.5 s: answer   *)
(* 1, keep-alive 4, watchdog 6, sleep between targets 2.                   *)
(***************************************************************************)
EXTENDS HostLink
=============================================================================
