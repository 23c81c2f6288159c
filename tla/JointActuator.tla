---------------------------- MODULE JointActuator ----------------------------
(***************************************************************************)
(* joint_actuator.cpp on twi_driver.cpp: how the three servo channels of   *)
(* the PCA9685 are written, and what happens when a bus transfer fails or  *)
(* the chip browns out between two of them.                                *)
(*                                                                         *)
(* One action is one twi_write_register (the two ON registers, which only  *)
(* ever hold 0, are one).  A transfer that reports failure may or may not  *)
(* have reached the chip.  A brownout resets the chip to sleep and empty   *)
(* registers at any time; the driver never reads the chip back, so it only *)
(* learns of one from a failed transfer.                                   *)
(***************************************************************************)
EXTENDS Integers

CONSTANTS MAX_ROBOTIC_JOINTS,   \* channels
          Angle,                \* angles commanded
          MIDPOINT,             \* boot-time value of g_cached_angles
          MinTicks, MaxTicks    \* JOINT_CALIBRATION_MATRIX, alike for all joints

ASSUME JointsAssumption == MAX_ROBOTIC_JOINTS \in Nat /\ MAX_ROBOTIC_JOINTS >= 1
ASSUME AngleAssumption == Angle \subseteq Int /\ MIDPOINT \in Angle
ASSUME TicksAssumption == MinTicks \in Nat /\ MaxTicks \in Nat /\ MinTicks <= MaxTicks

Joint == 1 .. MAX_ROBOTIC_JOINTS

VARIABLES chip,               \* the PCA9685's registers
          g_cached_angles,
          pc,                 \* the register written next, or "idle"
          angles,             \* argument of joint_actuator_write_all
          i, success,         \* its loop index and result so far
          caller,             \* who gets the result of the re-arm or of
                              \* write_all_cached: "set_angle" or "main"
          k, held,            \* loop index and result of write_all_cached
          call, ret,          \* the last call from main and what it returned
          rearmed,            \* history: the call has put the chip to sleep
          undisturbed         \* history: no brownout since the call began

vars == <<chip, g_cached_angles, pc, angles, i, success, caller, k, held, call, ret,
          rearmed, undisturbed>>

\* joint_actuator_degree_to_ticks
Clamped(a) == IF a < 0 THEN 0 ELSE IF a > 180 THEN 180 ELSE a
Ticks(a) == MinTicks + (Clamped(a) * (MaxTicks - MinTicks)) \div 180
Low(a) == Ticks(a) % 256
High(a) == (Ticks(a) \div 256) % 16

\* The chip after power-on: asleep, default prescaler, no pulse.
PowerOn == [awake |-> FALSE, prescaled |-> FALSE,
            low |-> [j \in Joint |-> 0], high |-> [j \in Joint |-> 0]]

\* hardware_setup enters joint_actuator_init, which runs the same five steps
\* as joint_actuator_rearm.
Init == /\ chip = PowerOn
        /\ g_cached_angles = [j \in Joint |-> MIDPOINT]
        /\ pc = "sleep"
        /\ angles = [j \in Joint |-> MIDPOINT]
        /\ i = 1 /\ success = TRUE
        /\ caller = "main"
        /\ k = 1 /\ held = TRUE
        /\ call = "init" /\ ret = FALSE
        /\ rearmed = TRUE /\ undisturbed = TRUE

-----------------------------------------------------------------------------
\* One transfer that would leave the chip as effect.
Acked(effect) == chip' = effect
Failed(effect) == chip' \in {chip, effect}

\* joint_actuator_set_angle returns v for joint i of joint_actuator_write_all.
FinishJoint(v) ==
  /\ success' = (success /\ v)
  /\ caller' = "main"
  /\ \/ i < MAX_ROBOTIC_JOINTS /\ i' = i + 1 /\ pc' = "on" /\ UNCHANGED ret
     \/ i = MAX_ROBOTIC_JOINTS /\ pc' = "idle" /\ ret' = (success /\ v) /\ UNCHANGED i

\* joint_actuator_rearm, joint_actuator_init or joint_actuator_write_all_cached
\* returns v.
Return(v) == \/ caller = "set_angle" /\ FinishJoint(v)
             \/ caller = "main" /\ pc' = "idle" /\ ret' = v /\ UNCHANGED <<i, success, caller>>

(***************************************************************************)
(* The two calls the super-loop makes.                                     *)
(***************************************************************************)
WriteAll(pose) == /\ pc = "idle"
                  /\ pc' = "on" /\ call' = "write_all"
                  /\ angles' = pose
                  /\ i' = 1 /\ success' = TRUE
                  /\ rearmed' = FALSE /\ undisturbed' = TRUE
                  /\ UNCHANGED <<chip, g_cached_angles, caller, k, held, ret>>

StartCached == k' = 1 /\ held' = TRUE /\ pc' = "heldOn"

WriteAllCached == /\ pc = "idle"
                  /\ StartCached /\ call' = "write_all_cached"
                  /\ rearmed' = FALSE /\ undisturbed' = TRUE
                  /\ UNCHANGED <<chip, g_cached_angles, angles, i, success, caller, ret>>

(***************************************************************************)
(* joint_actuator_set_angle(i, angles[i]).  The cache changes first; any   *)
(* failed transfer goes to the re-arm.                                     *)
(***************************************************************************)
SetLowEffect == [chip EXCEPT !.low[i] = Low(angles[i])]
SetHighEffect == [chip EXCEPT !.high[i] = High(angles[i])]

\* BUG: the cache is only updated once the registers are.
CachedOnEntryLate == g_cached_angles

CachedOnEntry == [g_cached_angles EXCEPT ![i] = angles[i]]

GotoWriteError == /\ pc' = "sleep"
                  /\ caller' = "set_angle"
                  /\ UNCHANGED <<i, success, ret>>

SetOn == /\ pc = "on"
         /\ g_cached_angles' = CachedOnEntry
         /\ chip' = chip
         /\ \/ pc' = "low" /\ UNCHANGED <<i, success, caller, ret>>
            \/ GotoWriteError
         /\ UNCHANGED <<angles, k, held, call, rearmed, undisturbed>>

SetLow == /\ pc = "low"
          /\ \/ Acked(SetLowEffect) /\ pc' = "high" /\ UNCHANGED <<i, success, caller, ret>>
             \/ Failed(SetLowEffect) /\ GotoWriteError
          /\ UNCHANGED <<g_cached_angles, angles, k, held, call, rearmed, undisturbed>>

SetHigh == /\ pc = "high"
           /\ \/ Acked(SetHighEffect) /\ FinishJoint(TRUE)
              \/ Failed(SetHighEffect) /\ GotoWriteError
           /\ UNCHANGED <<g_cached_angles, angles, k, held, call, rearmed, undisturbed>>

(***************************************************************************)
(* joint_actuator_rearm: sleep, prescaler, wake, then the cached angles.   *)
(* Each failure returns false at once, whatever the steps before it did.   *)
(***************************************************************************)
Asleep == [chip EXCEPT !.awake = FALSE]
Prescaled == [chip EXCEPT !.prescaled = TRUE]
Awake == [chip EXCEPT !.awake = TRUE]

Sleep == /\ pc = "sleep"
         /\ \/ Acked(Asleep) /\ pc' = "prescale" /\ UNCHANGED <<i, success, caller, ret>>
            \/ Failed(Asleep) /\ Return(FALSE)
         /\ rearmed' = TRUE
         /\ UNCHANGED <<g_cached_angles, angles, k, held, call, undisturbed>>

\* BUG: a failed prescaler write is ignored and the chip woken anyway.
PrescaleIgnored ==
  /\ pc = "prescale"
  /\ \/ Acked(Prescaled)
     \/ Failed(Prescaled)
  /\ pc' = "wake" /\ UNCHANGED <<i, success, caller, ret>>
  /\ UNCHANGED <<g_cached_angles, angles, k, held, call, rearmed, undisturbed>>

Prescale == /\ pc = "prescale"
            /\ \/ Acked(Prescaled) /\ pc' = "wake" /\ UNCHANGED <<i, success, caller, ret>>
               \/ Failed(Prescaled) /\ Return(FALSE)
            /\ UNCHANGED <<g_cached_angles, angles, k, held, call, rearmed, undisturbed>>

\* BUG: a failed wake-up is ignored and the cached angles written anyway.
WakeIgnored == /\ pc = "wake"
               /\ Acked(Awake) \/ Failed(Awake)
               /\ StartCached
               /\ UNCHANGED <<i, success, caller, ret>>
               /\ UNCHANGED <<g_cached_angles, angles, call, rearmed, undisturbed>>

Wake == /\ pc = "wake"
        /\ \/ Acked(Awake) /\ StartCached /\ UNCHANGED <<i, success, caller, ret>>
           \/ Failed(Awake) /\ Return(FALSE) /\ UNCHANGED <<k, held>>
        /\ UNCHANGED <<g_cached_angles, angles, call, rearmed, undisturbed>>

(***************************************************************************)
(* joint_actuator_write_all_cached: no re-arm; a failed OFF transfer is    *)
(* only remembered (a failed OFF_L skips OFF_H), a failed ON not even that.*)
(***************************************************************************)
HeldLowEffect == [chip EXCEPT !.low[k] = Low(g_cached_angles[k])]
HeldHighEffect == [chip EXCEPT !.high[k] = High(g_cached_angles[k])]

\* BUG: the result is the last joint's, not the conjunction.
NextHeldLast(v) ==
  \/ /\ k < MAX_ROBOTIC_JOINTS
     /\ k' = k + 1 /\ held' = v /\ pc' = "heldOn"
     /\ UNCHANGED <<i, success, caller, ret>>
  \/ /\ k = MAX_ROBOTIC_JOINTS
     /\ held' = v /\ Return(v) /\ UNCHANGED k

\* BUG: a joint that failed is written again, for as long as it takes.
NextHeldRetry(v) ==
  \/ /\ k < MAX_ROBOTIC_JOINTS \/ ~v
     /\ k' = IF v THEN k + 1 ELSE k
     /\ held' = (held /\ v) /\ pc' = "heldOn"
     /\ UNCHANGED <<i, success, caller, ret>>
  \/ /\ k = MAX_ROBOTIC_JOINTS /\ v
     /\ held' = held /\ Return(held) /\ UNCHANGED k

\* Joint k is done with outcome v.
NextHeld(v) ==
  \/ /\ k < MAX_ROBOTIC_JOINTS
     /\ k' = k + 1 /\ held' = (held /\ v) /\ pc' = "heldOn"
     /\ UNCHANGED <<i, success, caller, ret>>
  \/ /\ k = MAX_ROBOTIC_JOINTS
     /\ held' = (held /\ v) /\ Return(held /\ v) /\ UNCHANGED k

HeldOn == /\ pc = "heldOn"
          /\ pc' = "heldLow"
          /\ UNCHANGED <<chip, g_cached_angles, angles, i, success, caller, k, held, call,
                         ret, rearmed, undisturbed>>

HeldLow == /\ pc = "heldLow"
           /\ \/ /\ Acked(HeldLowEffect)
                 /\ pc' = "heldHigh" /\ UNCHANGED <<i, success, caller, k, held, ret>>
              \/ Failed(HeldLowEffect) /\ NextHeld(FALSE)
           /\ UNCHANGED <<g_cached_angles, angles, call, rearmed, undisturbed>>

HeldHigh == /\ pc = "heldHigh"
            /\ \/ Acked(HeldHighEffect) /\ NextHeld(TRUE)
               \/ Failed(HeldHighEffect) /\ NextHeld(FALSE)
            /\ UNCHANGED <<g_cached_angles, angles, call, rearmed, undisturbed>>

\* The chip's supply dips: all registers return to their power-on values.
Brownout == /\ chip' = PowerOn
            /\ undisturbed' = FALSE
            /\ UNCHANGED <<g_cached_angles, pc, angles, i, success, caller, k, held, call,
                           ret, rearmed>>

Driver == SetOn \/ SetLow \/ SetHigh \/ Sleep \/ Prescale \/ Wake
             \/ HeldOn \/ HeldLow \/ HeldHigh

Next == \/ Driver
        \/ \E pose \in [Joint -> Angle] : WriteAll(pose)
        \/ WriteAllCached
        \/ Brownout

Spec == Init /\ [][Next]_vars

\* Every transfer ends, by acknowledgement or by I2C_TIMEOUT_LIMIT.
FairSpec == Spec /\ WF_vars(Driver)

-----------------------------------------------------------------------------
Byte == 0 .. 255
FlagsOK == success \in BOOLEAN /\ held \in BOOLEAN /\ ret \in BOOLEAN
           /\ rearmed \in BOOLEAN /\ undisturbed \in BOOLEAN
ValuesOK == /\ g_cached_angles \in [Joint -> Angle] /\ angles \in [Joint -> Angle]
            /\ pc \in {"idle", "on", "low", "high", "sleep", "prescale", "wake",
                       "heldOn", "heldLow", "heldHigh"}
            /\ i \in Joint /\ k \in Joint
            /\ caller \in {"main", "set_angle"}
            /\ call \in {"init", "write_all", "write_all_cached"}
ChipOK == chip \in [awake : BOOLEAN, prescaled : BOOLEAN,
                    low : [Joint -> Byte], high : [Joint -> 0 .. 15]]
TypeOK == FlagsOK /\ ValuesOK /\ ChipOK

Applied(j) == chip.low[j] = Low(g_cached_angles[j]) /\ chip.high[j] = High(g_cached_angles[j])

\* A call that returns true has left every channel's pulse at its cached
\* angle, however many re-arms it took on the way and whichever joints they
\* rewrote with the angle of the command before.
SuccessMeansApplied ==
  pc = "idle" /\ ret /\ undisturbed => \A j \in Joint : Applied(j)

\* "true if re-initialization and torque restoration succeeded": a call that
\* re-armed and returned true leaves the chip running at 50 Hz.
RearmRestoresTorque ==
  pc = "idle" /\ ret /\ rearmed /\ undisturbed => chip.awake /\ chip.prescaled

\* The chip is never woken on its default 200 Hz prescaler, which would make
\* every pulse a quarter of its length, unless it browned out in the re-arm.
NeverWrongFrequency ==
  [][~chip.awake /\ chip'.awake /\ undisturbed => chip'.prescaled]_vars

\* A failed write does not lose the command: when the call ends the cache holds
\* it, so that the next re-arm or halt pass writes it again.
CommandCached == pc = "idle" /\ call = "write_all" => g_cached_angles = angles

\* After any sequence of calls and failed transfers the driver has lost neither
\* the command nor, if a re-arm succeeded, the torque.
DriverInv == TypeOK /\ RearmRestoresTorque /\ CommandCached

\* Every call returns, even on a bus where every transfer fails: the re-arm of
\* a failed write never leads to another re-arm of the same write.
Returns == pc # "idle" ~> pc = "idle"

\* joint_actuator.h of joint_actuator_write_all_cached, which each pass of a halt
\* calls: "Used during brownout recovery to restore physical holding torque ...
\* true if all writes succeeded".  So a call of it that returns true, and that no
\* brownout disturbed, has left the arm powered.
\* (Violated: the initialisation at boot fails at its first transfer, and the
\* call writes every register of a chip that it does not wake.)
TrueMeansTorque ==
  pc = "idle" /\ call = "write_all_cached" /\ ret /\ undisturbed => chip.awake
=============================================================================
