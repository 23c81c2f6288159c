-------------------------- MODULE MCJointActuator --------------------------
(***************************************************************************)
(* Two channels and two angles on either side of tick 256 (60 degrees is   *)
(* 238 = 0x0EE, 90 is 307 = 0x133), so that the low and the high byte both *)
(* change and a half-written pulse differs from either.                    *)
(***************************************************************************)
EXTENDS JointActuator
=============================================================================
