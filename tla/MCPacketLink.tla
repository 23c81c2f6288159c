---------------------------- MODULE MCPacketLink ----------------------------
(***************************************************************************)
(* Two joints and a payload buffer of eleven: "DRV,200,45" fills it to the *)
(* last byte, so one inserted byte overflows it; 200 is beyond the clamp.  *)
(* The line can produce every byte the parser treats specially, a zero, a  *)
(* blank, digits, a letter that is also a hexadecimal digit and a '0' with *)
(* the bit of '@' flipped.                                                 *)
(***************************************************************************)
EXTENDS PacketLink

MCCommand == {<<200, 45>>, <<9, 15>>}
MCLineByte == {0, At, Star, Newline, Comma, Minus, Plus, 32, 48, 49, 68, 112}
=============================================================================
