------------------------- MODULE JointActuatorProofs -------------------------
(***************************************************************************)
(* Whatever transfers fail, a call that returns true has left the chip as  *)
(* the cache says, and the chip is never woken on the wrong frequency, for *)
(* every number of joints, set of angles and calibration.                  *)
(***************************************************************************)
EXTENDS JointActuator, TLAPS

Setting == {"on", "low", "high"}
Rearming == {"sleep", "prescale", "wake"}
Holding == {"heldOn", "heldLow", "heldHigh"}

\* Who waits for a re-arm or for write_all_cached.
CallerOK == /\ pc \in Setting \cup {"idle"} => caller = "main"
            /\ pc \in Setting => call = "write_all"
            /\ pc \in Rearming \cup Holding => (call = "write_all" <=> caller = "set_angle")

\* The cache has the command's angles up to the joint that is being written.
CacheFollows == call = "write_all" =>
  /\ \A j \in Joint : j < i \/ (j = i /\ pc # "on") => g_cached_angles[j] = angles[j]
  /\ pc = "idle" => i = MAX_ROBOTIC_JOINTS

Done == {j \in Joint : Applied(j)}

\* As long as nothing failed the joints behind the two loops have their pulse.
PulsesFollow ==
  /\ pc = "idle" /\ ret => Joint \subseteq Done
  /\ pc # "idle" /\ call = "write_all" /\ success => \A j \in Joint : j < i => j \in Done
  /\ pc = "high" => chip.low[i] = Low(g_cached_angles[i])
  /\ pc \in Holding /\ held => \A j \in Joint : j < k => j \in Done
  /\ pc = "heldHigh" => chip.low[k] = Low(g_cached_angles[k])

\* A chip that was put to sleep in this call has been woken, on 50 Hz, unless a
\* failure is on record.
Powered == chip.awake /\ chip.prescaled
TorqueFollows ==
  /\ pc = "wake" => chip.prescaled
  /\ pc \in Holding /\ rearmed => Powered
  /\ pc \in Setting /\ rearmed /\ success => Powered
  /\ pc = "idle" /\ rearmed /\ ret => Powered

IInv == /\ TypeOK /\ CallerOK /\ CacheFollows
        /\ undisturbed => PulsesFollow /\ TorqueFollows

-----------------------------------------------------------------------------
\* Pulses are bytes.
LEMMA PulseOK ==
  ASSUME NEW a \in Angle
  PROVE  Low(a) \in Byte /\ High(a) \in 0 .. 15
<1>1. Clamped(a) \in Int
  BY AngleAssumption DEF Clamped
<1>2. Clamped(a) * (MaxTicks - MinTicks) \in Int
  BY <1>1, TicksAssumption
<1>3. Ticks(a) \in Int
  BY <1>2, TicksAssumption DEF Ticks
<1> QED BY <1>3 DEF Low, High, Byte

LEMMA InitOK == Init => IInv
<1> SUFFICES ASSUME Init PROVE IInv
  OBVIOUS
<1>1. FlagsOK
  BY DEF Init, FlagsOK
<1>2. ValuesOK
  BY JointsAssumption, AngleAssumption DEF Init, ValuesOK, Joint
<1>3. ChipOK
  BY DEF Init, PowerOn, ChipOK, Byte
<1>4. CallerOK /\ CacheFollows
  BY DEF Init, CallerOK, CacheFollows, Setting, Rearming, Holding
<1>5. PulsesFollow /\ TorqueFollows
  BY DEF Init, PulsesFollow, TorqueFollows, Setting, Rearming, Holding
<1> QED BY <1>1, <1>2, <1>3, <1>4, <1>5 DEF IInv, TypeOK

-----------------------------------------------------------------------------
LEMMA FlagsStep == FlagsOK /\ [Next]_vars => FlagsOK'
<1> SUFFICES ASSUME FlagsOK, [Next]_vars PROVE FlagsOK'
  OBVIOUS
<1> USE DEF FlagsOK, GotoWriteError, FinishJoint, Return, StartCached, NextHeld
<1>1. CASE SetOn \/ SetLow \/ SetHigh
  BY <1>1 DEF SetOn, SetLow, SetHigh
<1>2. CASE Sleep \/ Prescale \/ Wake
  BY <1>2 DEF Sleep, Prescale, Wake
<1>3. CASE HeldOn \/ HeldLow \/ HeldHigh
  BY <1>3 DEF HeldOn, HeldLow, HeldHigh
<1>4. ASSUME NEW pose, WriteAll(pose) PROVE FlagsOK'
  BY <1>4 DEF WriteAll
<1>5. CASE WriteAllCached \/ Brownout \/ UNCHANGED vars
  BY <1>5 DEF WriteAllCached, Brownout, vars
<1> QED BY <1>1, <1>2, <1>3, <1>4, <1>5 DEF Next, Driver

LEMMA ValuesStep == ValuesOK /\ [Next]_vars => ValuesOK'
<1> SUFFICES ASSUME ValuesOK, [Next]_vars PROVE ValuesOK'
  OBVIOUS
<1> USE JointsAssumption
    DEF ValuesOK, GotoWriteError, FinishJoint, Return, StartCached, NextHeld, Joint
<1>1. CASE SetOn
  BY <1>1 DEF SetOn, CachedOnEntry
<1>2. CASE SetLow \/ SetHigh
  BY <1>2 DEF SetLow, SetHigh
<1>3. CASE Sleep \/ Prescale \/ Wake
  BY <1>3 DEF Sleep, Prescale, Wake
<1>4. CASE HeldOn \/ HeldLow \/ HeldHigh
  BY <1>4 DEF HeldOn, HeldLow, HeldHigh
<1>5. ASSUME NEW pose \in [Joint -> Angle], WriteAll(pose) PROVE ValuesOK'
  BY <1>5 DEF WriteAll
<1>6. CASE WriteAllCached \/ Brownout \/ UNCHANGED vars
  BY <1>6 DEF WriteAllCached, Brownout, vars
<1> QED BY <1>1, <1>2, <1>3, <1>4, <1>5, <1>6 DEF Next, Driver

LEMMA ChipStep == ValuesOK /\ ChipOK /\ [Next]_vars => ChipOK'
<1> SUFFICES ASSUME ValuesOK, ChipOK, [Next]_vars PROVE ChipOK'
  OBVIOUS
<1>1. SetLowEffect \in [awake : BOOLEAN, prescaled : BOOLEAN,
                        low : [Joint -> Byte], high : [Joint -> 0 .. 15]]
  BY PulseOK DEF ValuesOK, ChipOK, SetLowEffect
<1>2. SetHighEffect \in [awake : BOOLEAN, prescaled : BOOLEAN,
                         low : [Joint -> Byte], high : [Joint -> 0 .. 15]]
  BY PulseOK DEF ValuesOK, ChipOK, SetHighEffect
<1>3. HeldLowEffect \in [awake : BOOLEAN, prescaled : BOOLEAN,
                         low : [Joint -> Byte], high : [Joint -> 0 .. 15]]
  BY PulseOK DEF ValuesOK, ChipOK, HeldLowEffect
<1>4. HeldHighEffect \in [awake : BOOLEAN, prescaled : BOOLEAN,
                          low : [Joint -> Byte], high : [Joint -> 0 .. 15]]
  BY PulseOK DEF ValuesOK, ChipOK, HeldHighEffect
<1>5. ASSUME NEW effect \in {Asleep, Prescaled, Awake}
      PROVE  effect \in [awake : BOOLEAN, prescaled : BOOLEAN,
                         low : [Joint -> Byte], high : [Joint -> 0 .. 15]]
  BY <1>5 DEF ChipOK, Asleep, Prescaled, Awake
<1>6. PowerOn \in [awake : BOOLEAN, prescaled : BOOLEAN,
                   low : [Joint -> Byte], high : [Joint -> 0 .. 15]]
  BY DEF PowerOn, Byte
<1>7. chip' \in {chip, SetLowEffect, SetHighEffect, HeldLowEffect, HeldHighEffect, Asleep,
                 Prescaled, Awake, PowerOn}
  BY DEF Next, Driver, vars, Acked, Failed, SetOn, SetLow, SetHigh, Sleep, Prescale, Wake,
         HeldOn, HeldLow, HeldHigh, WriteAll, WriteAllCached, Brownout
<1> QED BY <1>1, <1>2, <1>3, <1>4, <1>5, <1>6, <1>7 DEF ChipOK

LEMMA CallerStep == ValuesOK /\ CallerOK /\ [Next]_vars => CallerOK'
<1> SUFFICES ASSUME ValuesOK, CallerOK, [Next]_vars PROVE CallerOK'
  OBVIOUS
<1> USE DEF ValuesOK, CallerOK, GotoWriteError, FinishJoint, Return, StartCached, NextHeld,
            Setting, Rearming, Holding
<1>1. CASE SetOn \/ SetLow \/ SetHigh
  BY <1>1 DEF SetOn, SetLow, SetHigh
<1>2. CASE Sleep \/ Prescale \/ Wake
  BY <1>2 DEF Sleep, Prescale, Wake
<1>3. CASE HeldOn \/ HeldLow \/ HeldHigh
  BY <1>3 DEF HeldOn, HeldLow, HeldHigh
<1>4. ASSUME NEW pose, WriteAll(pose) PROVE CallerOK'
  BY <1>4 DEF WriteAll
<1>5. CASE WriteAllCached \/ Brownout \/ UNCHANGED vars
  BY <1>5 DEF WriteAllCached, Brownout, vars
<1> QED BY <1>1, <1>2, <1>3, <1>4, <1>5 DEF Next, Driver

LEMMA CacheStep ==
  ValuesOK /\ CallerOK /\ CacheFollows /\ [Next]_vars => CacheFollows'
<1> SUFFICES ASSUME ValuesOK, CallerOK, CacheFollows, [Next]_vars PROVE CacheFollows'
  OBVIOUS
<1> USE JointsAssumption
    DEF ValuesOK, CallerOK, CacheFollows, GotoWriteError, FinishJoint, Return, StartCached,
        NextHeld, Setting, Rearming, Holding, Joint
<1>1. CASE SetOn
  BY <1>1 DEF SetOn, CachedOnEntry
<1>2. CASE SetLow \/ SetHigh
  BY <1>2 DEF SetLow, SetHigh
<1>3. CASE Sleep \/ Prescale \/ Wake
  BY <1>3 DEF Sleep, Prescale, Wake
<1>4. CASE HeldOn \/ HeldLow \/ HeldHigh
  BY <1>4 DEF HeldOn, HeldLow, HeldHigh
<1>5. ASSUME NEW pose, WriteAll(pose) PROVE CacheFollows'
  BY <1>5 DEF WriteAll
<1>6. CASE WriteAllCached \/ Brownout \/ UNCHANGED vars
  BY <1>6 DEF WriteAllCached, Brownout, vars
<1> QED BY <1>1, <1>2, <1>3, <1>4, <1>5, <1>6 DEF Next, Driver

-----------------------------------------------------------------------------
\* What a transfer changes of the pulses.
LEMMA EffectsOnPulses ==
  ASSUME ValuesOK, ChipOK
  PROVE  /\ \A j \in Joint : /\ SetLowEffect.low[j] = IF j = i THEN Low(angles[i]) ELSE chip.low[j]
                             /\ SetHighEffect.high[j] = IF j = i THEN High(angles[i]) ELSE chip.high[j]
                             /\ HeldLowEffect.low[j] =
                                  IF j = k THEN Low(g_cached_angles[k]) ELSE chip.low[j]
                             /\ HeldHighEffect.high[j] =
                                  IF j = k THEN High(g_cached_angles[k]) ELSE chip.high[j]
         /\ SetLowEffect.high = chip.high /\ SetHighEffect.low = chip.low
         /\ HeldLowEffect.high = chip.high /\ HeldHighEffect.low = chip.low
         /\ \A effect \in {Asleep, Prescaled, Awake} :
              effect.low = chip.low /\ effect.high = chip.high
BY DEF ValuesOK, ChipOK, SetLowEffect, SetHighEffect, HeldLowEffect, HeldHighEffect, Asleep,
       Prescaled, Awake

\* What it changes of the power.
LEMMA EffectsOnPower ==
  ASSUME ChipOK
  PROVE  /\ \A effect \in {SetLowEffect, SetHighEffect, HeldLowEffect, HeldHighEffect} :
              effect.awake = chip.awake /\ effect.prescaled = chip.prescaled
         /\ Asleep.awake = FALSE /\ Asleep.prescaled = chip.prescaled
         /\ Prescaled.awake = chip.awake /\ Prescaled.prescaled = TRUE
         /\ Awake.awake = TRUE /\ Awake.prescaled = chip.prescaled
BY DEF ChipOK, SetLowEffect, SetHighEffect, HeldLowEffect, HeldHighEffect, Asleep,
       Prescaled, Awake

\* After a failure nothing is claimed of the pulses until the next call.
LEMMA FailureRecorded ==
  ASSUME Return(FALSE)
  PROVE  pc' \in {"idle", "on"} /\ (pc' = "idle" => ~ret') /\ (pc' = "on" => ~success')
BY DEF Return, FinishJoint

LEMMA FailureClaimsNothing ==
  ASSUME Return(FALSE)
  PROVE  PulsesFollow'
BY FailureRecorded DEF PulsesFollow, Holding

\* A joint that write_all_cached fails to write leaves the joints behind
\* write_all's loop as they are.
LEMMA HeldFailureOK ==
  ASSUME PulsesFollow, pc \in Holding, Done \subseteq Done', call' = call, NextHeld(FALSE)
  PROVE  PulsesFollow'
<1>1. CASE Return(held /\ FALSE)
  <2>1. Return(FALSE)
    BY <1>1 DEF Return, FinishJoint
  <2> QED BY <2>1, FailureClaimsNothing
<1>2. CASE held' = (held /\ FALSE) /\ pc' = "heldOn" /\ UNCHANGED <<i, success, caller, ret>>
  <2>1. ~held'
    BY <1>2
  <2> QED BY <1>2, <2>1 DEF PulsesFollow, Holding
<1> QED BY <1>1, <1>2 DEF NextHeld

LEMMA PulsesStep ==
  ASSUME IInv, [Next]_vars, undisturbed'
  PROVE  PulsesFollow'
<1> USE JointsAssumption
    DEF IInv, TypeOK, FlagsOK, ValuesOK, CallerOK, GotoWriteError, FinishJoint, Return,
        StartCached, NextHeld, Setting, Rearming, Holding, Joint
<1>1. CASE SetOn
  BY <1>1 DEF SetOn, CachedOnEntry, PulsesFollow, Applied, Done
<1>2. CASE SetLow
  BY <1>2, EffectsOnPulses DEF SetLow, Acked, Failed, CacheFollows, PulsesFollow, Applied, Done
<1>3. CASE SetHigh
  BY <1>3, EffectsOnPulses DEF SetHigh, Acked, Failed, CacheFollows, PulsesFollow, Applied, Done
<1>4. CASE Sleep \/ Prescale \/ Wake
  <2>1. undisturbed /\ chip'.low = chip.low /\ chip'.high = chip.high
        /\ g_cached_angles' = g_cached_angles
    BY <1>4, EffectsOnPulses DEF Sleep, Prescale, Wake, Acked, Failed
  <2>2. Done' = Done
    BY <2>1 DEF Applied, Done
  <2>3. CASE Return(FALSE)
    BY <2>3, FailureClaimsNothing
  <2>4. CASE pc' \in {"prescale", "wake"} /\ UNCHANGED <<i, success, caller, ret>>
    BY <1>4, <2>1, <2>2, <2>4 DEF Sleep, Prescale, Wake, PulsesFollow
  <2>5. CASE Wake /\ StartCached /\ UNCHANGED <<i, success, caller, ret>>
    BY <2>1, <2>2, <2>5 DEF Wake, PulsesFollow
  <2> QED BY <1>4, <2>3, <2>4, <2>5 DEF Sleep, Prescale, Wake
<1>5. CASE HeldOn
  BY <1>5 DEF HeldOn, PulsesFollow, Applied, Done
<1>6. CASE HeldLow
  <2>1. undisturbed /\ g_cached_angles' = g_cached_angles
    BY <1>6 DEF HeldLow
  <2>2. Done \subseteq Done'
    BY <1>6, <2>1, EffectsOnPulses DEF HeldLow, Acked, Failed, Applied, Done
  <2>3. CASE Acked(HeldLowEffect) /\ pc' = "heldHigh" /\ UNCHANGED <<i, success, caller, k, held, ret>>
    <3>1. chip'.low[k] = Low(g_cached_angles[k])
      BY <2>3, EffectsOnPulses DEF Acked
    <3> QED BY <1>6, <2>1, <2>2, <2>3, <3>1 DEF HeldLow, PulsesFollow
  <2>4. CASE NextHeld(FALSE)
    BY <1>6, <2>1, <2>2, <2>4, HeldFailureOK DEF HeldLow
  <2> QED BY <1>6, <2>3, <2>4 DEF HeldLow
<1>7. CASE HeldHigh
  <2>1. undisturbed /\ g_cached_angles' = g_cached_angles
    BY <1>7 DEF HeldHigh
  <2>2. Done \subseteq Done'
    BY <1>7, <2>1, EffectsOnPulses DEF HeldHigh, Acked, Failed, Applied, Done
  <2>3. CASE Acked(HeldHighEffect) /\ NextHeld(TRUE)
    <3>1. chip'.low[k] = Low(g_cached_angles[k]) /\ chip'.high[k] = High(g_cached_angles[k])
      BY <1>7, <2>1, <2>3, EffectsOnPulses DEF HeldHigh, Acked, PulsesFollow
    <3>2. k \in Done'
      BY <1>7, <2>1, <3>1 DEF Applied, Done
    <3> QED BY <1>7, <2>1, <2>2, <2>3, <3>2 DEF HeldHigh, PulsesFollow
  <2>4. CASE NextHeld(FALSE)
    BY <1>7, <2>1, <2>2, <2>4, HeldFailureOK DEF HeldHigh
  <2> QED BY <1>7, <2>3, <2>4 DEF HeldHigh
<1>8. ASSUME NEW pose, WriteAll(pose) PROVE PulsesFollow'
  BY <1>8 DEF WriteAll, PulsesFollow, Applied, Done
<1>9. CASE WriteAllCached
  BY <1>9 DEF WriteAllCached, PulsesFollow, Applied, Done
<1>10. CASE Brownout
  BY <1>10 DEF Brownout
<1>11. CASE UNCHANGED vars
  BY <1>11 DEF vars, PulsesFollow, Applied, Done
<1> QED BY <1>1, <1>2, <1>3, <1>4, <1>5, <1>6, <1>7, <1>8, <1>9, <1>10, <1>11
        DEF Next, Driver

LEMMA TorqueStep ==
  ASSUME IInv, [Next]_vars, undisturbed'
  PROVE  TorqueFollows'
<1> USE EffectsOnPower
    DEF IInv, TypeOK, FlagsOK, ValuesOK, CallerOK, GotoWriteError, FinishJoint, Return,
        StartCached, NextHeld, Setting, Rearming, Holding, TorqueFollows, Powered
<1>1. CASE SetOn
  BY <1>1 DEF SetOn
<1>2. CASE SetLow
  BY <1>2 DEF SetLow, Acked, Failed
<1>3. CASE SetHigh
  BY <1>3 DEF SetHigh, Acked, Failed
<1>4. CASE Sleep
  BY <1>4 DEF Sleep, Acked, Failed
<1>5. CASE Prescale
  BY <1>5 DEF Prescale, Acked, Failed
<1>6. CASE Wake
  BY <1>6 DEF Wake, Acked, Failed
<1>7. CASE HeldOn
  BY <1>7 DEF HeldOn
<1>8. CASE HeldLow
  BY <1>8 DEF HeldLow, Acked, Failed
<1>9. CASE HeldHigh
  BY <1>9 DEF HeldHigh, Acked, Failed
<1>10. ASSUME NEW pose, WriteAll(pose) PROVE TorqueFollows'
  BY <1>10 DEF WriteAll
<1>11. CASE WriteAllCached \/ Brownout \/ UNCHANGED vars
  BY <1>11 DEF WriteAllCached, Brownout, vars
<1> QED BY <1>1, <1>2, <1>3, <1>4, <1>5, <1>6, <1>7, <1>8, <1>9, <1>10, <1>11
        DEF Next, Driver

LEMMA NextOK == IInv /\ [Next]_vars => IInv'
BY FlagsStep, ValuesStep, ChipStep, CallerStep, CacheStep, PulsesStep, TorqueStep
DEF IInv, TypeOK

-----------------------------------------------------------------------------
\* The driver's state is sound, no command is lost and a re-arm that succeeded
\* has restored the torque (joint_actuator.cpp:96-200).
THEOREM DriverSafe == Spec => []DriverInv
<1>1. IInv => RearmRestoresTorque
  BY DEF IInv, TypeOK, FlagsOK, TorqueFollows, Powered, RearmRestoresTorque
<1>2. IInv => CommandCached
  <2> SUFFICES ASSUME IInv, pc = "idle", call = "write_all"
               PROVE  g_cached_angles = angles
    BY DEF CommandCached
  <2>1. \A j \in Joint : g_cached_angles[j] = angles[j]
    BY JointsAssumption DEF IInv, CacheFollows, Joint
  <2> QED BY <2>1 DEF IInv, TypeOK, ValuesOK
<1>3. IInv => DriverInv
  BY <1>1, <1>2 DEF IInv, DriverInv
<1> QED BY InitOK, NextOK, <1>3, PTL DEF Spec

\* A call that returns true has left every pulse at its cached angle
\* (joint_actuator.cpp:96-163).
THEOREM SuccessApplied == Spec => []SuccessMeansApplied
<1>1. IInv => SuccessMeansApplied
  BY DEF IInv, PulsesFollow, Done, SuccessMeansApplied
<1> QED BY InitOK, NextOK, <1>1, PTL DEF Spec

\* The chip is never woken on 200 Hz (joint_actuator.cpp:165-200).
THEOREM FrequencyRight == Spec => NeverWrongFrequency
<1>1. IInv /\ [Next]_vars =>
        [~chip.awake /\ chip'.awake /\ undisturbed => chip'.prescaled]_vars
  <2> SUFFICES ASSUME IInv, [Next]_vars, ~chip.awake, chip'.awake, undisturbed
               PROVE  chip'.prescaled
    OBVIOUS
  <2>1. chip' \in {chip, SetLowEffect, SetHighEffect, HeldLowEffect, HeldHighEffect, Asleep,
                   Prescaled, PowerOn} \/ (Wake /\ chip' = Awake)
    BY DEF Next, Driver, vars, Acked, Failed, SetOn, SetLow, SetHigh, Sleep, Prescale, Wake,
           HeldOn, HeldLow, HeldHigh, WriteAll, WriteAllCached, Brownout
  <2>2. CASE chip' \in {chip, SetLowEffect, SetHighEffect, HeldLowEffect, HeldHighEffect,
                        Asleep, Prescaled, PowerOn}
    <3>1. ChipOK /\ PowerOn.awake = FALSE
      BY DEF IInv, TypeOK, PowerOn
    <3>2. CASE chip' \in {SetLowEffect, SetHighEffect, HeldLowEffect, HeldHighEffect}
      BY <3>1, <3>2, EffectsOnPower
    <3>3. CASE chip' \in {chip, Asleep, Prescaled, PowerOn}
      BY <3>1, <3>3, EffectsOnPower
    <3> QED BY <2>2, <3>2, <3>3
  <2>3. CASE Wake /\ chip' = Awake
    BY <2>3, EffectsOnPower DEF Wake, IInv, TypeOK, TorqueFollows
  <2> QED BY <2>1, <2>2, <2>3
<1> QED BY InitOK, NextOK, <1>1, PTL DEF Spec, NeverWrongFrequency
=============================================================================
