--------------------------- MODULE SafetyInterlock ---------------------------
(***************************************************************************)
(* What the firmware promises whoever stands beside the arm, without the   *)
(* passes of a loop and without a clock that wraps: once the link has been *)
(* silent for the timeout the arm is halted within two passes, a joint     *)
(* moves only while the link is alive, and a halt is only ended by a burst *)
(* of valid frames received in it, one after the other.                    *)
(***************************************************************************)
EXTENDS Integers

CONSTANTS Joint, Command,
          Rest,        \* the pose at boot
          Timeout,     \* silence that is still no reason to halt
          Pass,        \* how late a silence is noticed
          SlewMax,     \* how far a joint moves at once
          Burst        \* frames that end a halt

VARIABLES connected,   \* a frame was accepted since boot
          silence,     \* time since then
          halted,
          burst,       \* valid frames of the burst under way in a halt
          target, pose

vars == <<connected, silence, halted, burst, target, pose>>

Init == /\ connected = FALSE /\ silence = 0
        /\ halted = FALSE /\ burst = 0
        /\ target = Rest /\ pose = Rest

\* No time passes beyond two passes after the timeout without the halt.
Elapse == /\ connected
          /\ halted \/ silence < Timeout + 2 * Pass
          /\ silence' = silence + 1
          /\ UNCHANGED <<connected, halted, burst, target, pose>>

Halt == /\ connected /\ ~halted
        /\ silence > Timeout
        /\ halted' = TRUE
        /\ UNCHANGED <<connected, silence, burst, target, pose>>

\* A valid frame in a halt, and a damaged one.
Count == /\ halted
         /\ burst + 1 < Burst
         /\ burst' = burst + 1
         /\ UNCHANGED <<connected, silence, halted, target, pose>>

Break == /\ halted
         /\ burst' = 0
         /\ UNCHANGED <<connected, silence, halted, target, pose>>

\* A valid frame that is obeyed: the link is up, or the burst is complete.
Obey(command) == /\ halted => burst + 1 >= Burst
                 /\ connected' = TRUE /\ silence' = 0
                 /\ halted' = FALSE /\ burst' = 0
                 /\ target' = command
                 /\ UNCHANGED pose

\* No joint moves away from the target or past it.
Towards(from, to, at) == \/ from <= at /\ at <= to /\ at - from <= SlewMax
                         \/ to <= at /\ at <= from /\ from - at <= SlewMax

Move == /\ ~halted
        /\ connected => silence <= Timeout + Pass
        /\ pose' \in [Joint -> Int]
        /\ \A j \in Joint : Towards(pose[j], target[j], pose'[j])
        /\ UNCHANGED <<connected, silence, halted, burst, target>>

Next == \/ Elapse \/ Halt \/ Count \/ Break \/ Move
        \/ \E command \in Command : Obey(command)

Spec == Init /\ [][Next]_vars
=============================================================================
