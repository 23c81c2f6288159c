------------------------------ MODULE SuperLoop ------------------------------
(***************************************************************************)
(* main.cpp's cooperative loop with watchdog_interlock.cpp: the dead-man   *)
(* timer, the halt latch, the three-frame gate that releases it, and the   *)
(* 50 Hz slew toward the last accepted command.                            *)
(*                                                                         *)
(* millis() is a counter of ClockMod values (2^32 in the code) that a      *)
(* timer interrupt advances between any two steps of the loop; a pass      *)
(* samples it twice, and the result of the watchdog check is used after    *)
(* the drain.  What the parser makes of the next byte is left open, and    *)
(* what the loop's two calls into joint_actuator.cpp do to the servo chip  *)
(* is JointActuator's subject: they touch no variable of this module.      *)
(***************************************************************************)
EXTENDS Integers, FiniteSets

CONSTANTS Joint,       \* the servos
          MAX_ANGLE,   \* angles are 0 .. MAX_ANGLE
          Home,        \* the boot-time angle of every joint
          Command,     \* the poses the host may ask for
          ClockMod,    \* values of the millisecond counter
          Timeout,     \* g_watchdog_timeout_ms
          Period,      \* milliseconds between actuator dispatches
          SlewMax,     \* degrees a joint moves per dispatch (2)
          Burst,       \* consecutive valid frames that release a halt (3)
          MaxPass,     \* bound: milliseconds one pass of the loop takes
          MaxSilence   \* bound: milliseconds between two accepted frames

Angle == 0 .. MAX_ANGLE
Pose == [Joint -> Angle]
Clock == 0 .. ClockMod - 1

ASSUME AngleAssumption == MAX_ANGLE \in Nat /\ Home \in Angle
ASSUME SlewAssumption == SlewMax \in Nat /\ SlewMax >= 1
ASSUME CommandAssumption == Command \subseteq Pose
ASSUME ClockAssumption == ClockMod \in Nat /\ ClockMod > 0
ASSUME TimeAssumption == /\ Timeout \in Nat /\ Period \in Nat
                         /\ MaxPass \in Nat /\ MaxSilence \in Nat
ASSUME BurstAssumption == Burst \in Nat /\ Burst >= 1

VARIABLES clock,                             \* millis()
          pc, current_ms, is_safe,           \* the pass under way
          g_is_in_safety_halt, g_consecutive_valid_frames,
          g_target_angles, g_current_angles, g_last_actuator_ms,
          g_has_bootstrapped, g_last_heartbeat_ms, g_is_tripped,
          ack,                               \* status byte sent in this pass
          passed,    \* history: milliseconds since the pass began
          silence,   \* history: milliseconds since the last accepted frame
          trust,     \* history: valid frames since the trip or the last error
          rested     \* history: milliseconds since a joint moved, up to Period

loop == <<pc, current_ms, is_safe>>
watchdog == <<g_has_bootstrapped, g_last_heartbeat_ms, g_is_tripped>>
gate == <<g_is_in_safety_halt, g_consecutive_valid_frames, trust>>
arm == <<g_target_angles, g_current_angles, g_last_actuator_ms>>
time == <<clock, passed, silence, rested>>
vars == <<clock, pc, current_ms, is_safe, g_is_in_safety_halt,
          g_consecutive_valid_frames, g_target_angles, g_current_angles,
          g_last_actuator_ms, g_has_bootstrapped, g_last_heartbeat_ms,
          g_is_tripped, ack, passed, silence, trust, rested>>

\* The uint32_t difference now - then.
Elapsed(now, then) == IF now >= then THEN now - then ELSE now + ClockMod - then

Init == /\ clock = 0
        /\ pc = "loop" /\ current_ms = 0 /\ is_safe = TRUE
        /\ g_is_in_safety_halt = FALSE /\ g_consecutive_valid_frames = 0
        /\ g_target_angles = [j \in Joint |-> Home]
        /\ g_current_angles = [j \in Joint |-> Home]
        /\ g_last_actuator_ms = 0
        /\ g_has_bootstrapped = FALSE /\ g_last_heartbeat_ms = 0 /\ g_is_tripped = FALSE
        /\ ack = "none"
        /\ passed = 0 /\ silence = 0 /\ trust = 0 /\ rested = Period

(***************************************************************************)
(* The timer interrupt.  A pass is never longer than MaxPass and, once the *)
(* link is up, a silence never longer than MaxSilence.                     *)
(***************************************************************************)
Tick == /\ passed < MaxPass
        /\ g_has_bootstrapped => silence < MaxSilence
        /\ clock' = IF clock = ClockMod - 1 THEN 0 ELSE clock + 1
        /\ passed' = passed + 1
        /\ silence' = IF g_has_bootstrapped THEN silence + 1 ELSE silence
        /\ rested' = IF rested < Period THEN rested + 1 ELSE rested
        /\ UNCHANGED <<loop, watchdog, gate, arm, ack>>

\* The pass begins: uint32_t current_ms = millis().
ReadClock == /\ pc = "loop"
             /\ current_ms' = clock
             /\ ack' = "none"
             /\ passed' = 0
             /\ pc' = "check"
             /\ UNCHANGED <<clock, is_safe, watchdog, gate, arm, silence, rested>>

(***************************************************************************)
(* Task A: watchdog_check, with its own sample of the clock, and the halt. *)
(***************************************************************************)
\* BUG: the timer runs from power-up, not from the first accepted frame.
ExpiredFromBoot == Elapsed(clock, g_last_heartbeat_ms) > Timeout

\* BUG: the check is made at the dispatch cadence, not on every pass.
ExpiredOnCadence == /\ g_has_bootstrapped
                    /\ Elapsed(clock, g_last_heartbeat_ms) > Timeout
                    /\ Elapsed(current_ms, g_last_actuator_ms) >= Period

Expired == /\ g_has_bootstrapped
           /\ Elapsed(clock, g_last_heartbeat_ms) > Timeout

\* BUG: every expired pass restarts the count, not only the first.
CountOnExpiryZero == 0

\* Only the pass that enters the halt clears the count.
CountOnExpiry == IF g_is_in_safety_halt THEN g_consecutive_valid_frames ELSE 0

CheckHealthy == /\ pc = "check"
                /\ ~Expired
                /\ is_safe' = TRUE
                /\ pc' = "drain"
                /\ UNCHANGED <<current_ms, watchdog, gate, arm, ack, time>>

CheckExpired == /\ pc = "check"
                /\ Expired
                /\ is_safe' = FALSE
                /\ g_is_tripped' = TRUE
                /\ g_is_in_safety_halt' = TRUE
                /\ g_consecutive_valid_frames' = CountOnExpiry
                /\ trust' = IF g_is_in_safety_halt THEN trust ELSE 0
                /\ pc' = "drain"
                /\ UNCHANGED <<current_ms, g_has_bootstrapped, g_last_heartbeat_ms,
                               arm, ack, time>>

(***************************************************************************)
(* Task B: at most one byte of the ring is parsed per pass.                *)
(***************************************************************************)
\* The ring is empty or the byte does not end a frame.
DrainQuiet == /\ pc = "drain"
              /\ pc' = "act"
              /\ UNCHANGED <<current_ms, is_safe, watchdog, gate, arm, ack, time>>

\* BUG: a damaged frame does not interrupt the burst.
CountAfterErrorKept == g_consecutive_valid_frames

CountAfterError == 0

DrainError == /\ pc = "drain"
              /\ ack' = "E"
              /\ g_consecutive_valid_frames' = CountAfterError
              /\ trust' = 0
              /\ pc' = "act"
              /\ UNCHANGED <<current_ms, is_safe, watchdog, g_is_in_safety_halt, arm, time>>

\* watchdog_reset, 'K', and the parsed angles become the target.
Accept(pose) == /\ g_last_heartbeat_ms' = clock
                /\ g_has_bootstrapped' = TRUE
                /\ g_is_tripped' = FALSE
                /\ silence' = 0
                /\ ack' = "K"
                /\ g_target_angles' = pose
                /\ UNCHANGED <<clock, passed, rested, g_current_angles, g_last_actuator_ms>>

\* One more valid frame, as the history counts them.
Trusted == IF trust < Burst THEN trust + 1 ELSE trust

DrainValid(pose) == /\ pc = "drain"
                    /\ ~g_is_in_safety_halt
                    /\ Accept(pose)
                    /\ trust' = Trusted
                    /\ pc' = "act"
                    /\ UNCHANGED <<current_ms, is_safe, g_is_in_safety_halt,
                                   g_consecutive_valid_frames>>

\* In a halt a valid frame only counts toward the burst.
DrainHeld == /\ pc = "drain"
             /\ g_is_in_safety_halt
             /\ g_consecutive_valid_frames + 1 < Burst
             /\ g_consecutive_valid_frames' = g_consecutive_valid_frames + 1
             /\ ack' = "H"
             /\ trust' = Trusted
             /\ pc' = "act"
             /\ UNCHANGED <<current_ms, is_safe, watchdog, g_is_in_safety_halt, arm, time>>

\* The frame that completes the burst releases the halt and is obeyed.
DrainRelease(pose) == /\ pc = "drain"
                      /\ g_is_in_safety_halt
                      /\ g_consecutive_valid_frames + 1 >= Burst
                      /\ g_is_in_safety_halt' = FALSE
                      /\ g_consecutive_valid_frames' = 0
                      /\ Accept(pose)
                      /\ trust' = Trusted
                      /\ pc' = "act"
                      /\ UNCHANGED <<current_ms, is_safe>>

Valid == DrainHeld \/ \E pose \in Command : DrainValid(pose) \/ DrainRelease(pose)

(***************************************************************************)
(* Task C: the 50 Hz dispatch, on the check's result of this pass.         *)
(***************************************************************************)
\* BUG: always a full step, past a target one degree away.
SlewOvershoot(from, to) == CASE from < to -> from + SlewMax
                             [] from > to -> from - SlewMax
                             [] OTHER     -> from

Slew(from, to) == CASE from < to -> from + (IF to - from >= SlewMax THEN SlewMax ELSE 1)
                    [] from > to -> from - (IF from - to >= SlewMax THEN SlewMax ELSE 1)
                    [] OTHER     -> from

Due == Elapsed(current_ms, g_last_actuator_ms) >= Period

ActNotDue == /\ pc = "act"
             /\ ~Due
             /\ pc' = "loop"
             /\ UNCHANGED <<current_ms, is_safe, watchdog, gate, arm, ack, time>>

\* BUG: the setpoint moves whatever the watchdog said.
MayMoveAlways == TRUE

MayMove == is_safe

Act == /\ pc = "act"
       /\ Due
       /\ g_last_actuator_ms' = current_ms
       /\ g_current_angles' =
            IF MayMove THEN [j \in Joint |-> Slew(g_current_angles[j], g_target_angles[j])]
                       ELSE g_current_angles
       /\ rested' = IF g_current_angles' # g_current_angles THEN 0 ELSE rested
       /\ pc' = "loop"
       /\ UNCHANGED <<current_ms, is_safe, watchdog, gate, g_target_angles, ack,
                      clock, passed, silence>>

Loop == \/ ReadClock
        \/ CheckHealthy \/ CheckExpired
        \/ DrainQuiet \/ DrainError \/ Valid
        \/ ActNotDue \/ Act

Next == Tick \/ Loop

Spec == Init /\ [][Next]_vars

\* The loop never blocks and the millisecond timer never stops; the host owes
\* no frame, so the drain's outcome gets no fairness.
FairSpec == Spec /\ WF_vars(Loop) /\ WF_vars(Tick)

-----------------------------------------------------------------------------
TypeOK == /\ clock \in Clock /\ current_ms \in Clock
          /\ g_last_actuator_ms \in Clock /\ g_last_heartbeat_ms \in Clock
          /\ pc \in {"loop", "check", "drain", "act"}
          /\ is_safe \in BOOLEAN /\ g_is_in_safety_halt \in BOOLEAN
          /\ g_has_bootstrapped \in BOOLEAN /\ g_is_tripped \in BOOLEAN
          /\ g_target_angles \in Pose /\ g_current_angles \in Pose
          /\ g_consecutive_valid_frames \in 0 .. Burst - 1
          /\ ack \in {"none", "K", "H", "E"}
          /\ passed \in 0 .. MaxPass /\ silence \in 0 .. MaxSilence
          /\ trust \in 0 .. Burst /\ rested \in 0 .. Period

\* The watchdog's modular difference is the true silence, as long as no
\* silence outlasts the counter.
ElapsedIsSilence ==
  g_has_bootstrapped => Elapsed(clock, g_last_heartbeat_ms) = silence

\* A halt only ends by the burst: until then the link has been silent for
\* longer than the timeout, and every frame counted was counted since the trip.
HaltMeansSilence ==
  g_is_in_safety_halt => /\ g_has_bootstrapped
                         /\ silence > Timeout
                         /\ g_consecutive_valid_frames = trust

\* Task C acts on a check made earlier in the same pass: a pass that found
\* the link alive may go on moving for the rest of that pass, no longer.
CheckIsFresh ==
  /\ pc \in {"drain", "act"} /\ g_is_in_safety_halt => ~is_safe
  /\ pc \in {"drain", "act"} /\ is_safe /\ g_has_bootstrapped =>
        silence <= Timeout + passed

\* How late the trip can be at each point of the pass.
TripPending ==
  g_has_bootstrapped /\ ~g_is_in_safety_halt =>
     silence <= Timeout + passed + (IF pc = "check" THEN MaxPass ELSE 0)

SafetyInv == /\ TypeOK
             /\ ElapsedIsSilence
             /\ HaltMeansSilence
             /\ CheckIsFresh
             /\ TripPending

\* While halted the arm holds its pose, wherever in a slew it was, and no
\* received command becomes the target before the halt is released.
HaltHoldsArm ==
  [][g_is_in_safety_halt =>
       /\ g_current_angles' = g_current_angles
       /\ g_is_in_safety_halt' => g_target_angles' = g_target_angles]_vars

\* A joint moves only if a valid frame was accepted within the timeout, plus
\* the part of one pass by which the check of that pass can be out of date.
NoStaleMotion ==
  [][g_current_angles' # g_current_angles /\ g_has_bootstrapped =>
        silence <= Timeout + MaxPass]_vars

\* The halt is latched at most two passes after the timeout.
TripsInTime ==
  g_has_bootstrapped /\ silence > Timeout + 2 * MaxPass => g_is_in_safety_halt

\* A joint moves at most SlewMax toward its target and never past it, and two
\* moves are a period apart, less the jitter of one pass.
SlewLimited ==
  [][g_current_angles' # g_current_angles =>
       /\ rested + MaxPass >= Period
       /\ \A j \in Joint :
            LET from == g_current_angles[j]
                to == g_target_angles[j]
                at == g_current_angles'[j]
            IN \/ from <= at /\ at <= to /\ at - from <= SlewMax
               \/ to <= at /\ at <= from /\ from - at <= SlewMax]_vars

\* The loop implements the interlock: "requires a 3-consecutive-frame trust
\* burst", and the dead-man timer that a cooperative loop only looks at once a
\* pass.  The burst is counted by the history, not by the code's own counter.
Interlock == INSTANCE SafetyInterlock WITH
  connected <- g_has_bootstrapped, halted <- g_is_in_safety_halt,
  burst <- IF g_is_in_safety_halt THEN trust ELSE 0,
  target <- g_target_angles, pose <- g_current_angles,
  Rest <- [j \in Joint |-> Home], Pass <- MaxPass
ImplementsInterlock == Interlock!Spec

\* If the link stays up and the command stops changing, the arm arrives.
Converges ==
  (<>[]~g_is_in_safety_halt /\ <>[][g_target_angles' = g_target_angles]_vars)
     => <>[](g_current_angles = g_target_angles)

\* A halt is not for ever: a host that keeps sending and whose frames arrive
\* undamaged is let back in.
Rearms ==
  ([]<><<Valid>>_vars /\ <>[][~DrainError]_vars) => []<>~g_is_in_safety_halt
=============================================================================
