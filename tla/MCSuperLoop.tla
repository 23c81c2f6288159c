---------------------------- MODULE MCSuperLoop ----------------------------
(***************************************************************************)
(* Two joints, one of which has to reverse; poses an odd and an even       *)
(* distance apart, so that the last step of a slew is both 1 and 2         *)
(* degrees.  The clock wraps several times within a behaviour.             *)
(***************************************************************************)
EXTENDS SuperLoop

MCJoint == {1, 2}
MCCommand == {<<2, 2>>, <<5, 0>>}
=============================================================================
