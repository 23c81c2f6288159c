--------------------------- MODULE SuperLoopProofs ---------------------------
(***************************************************************************)
(* The dead-man interlock is safe for every number of joints, command set, *)
(* clock width, timeout, period and burst length, provided no silence of   *)
(* the link outlasts the millisecond counter (MaxSilence < ClockMod): that *)
(* is the one hypothesis, and the run that drops it shows why.             *)
(***************************************************************************)
EXTENDS SuperLoop, TLAPS

\* The modular difference of two samples is a clock value; taken at the same
\* instant it is zero, and one tick later one more, until it wraps.
LEMMA ElapsedZero ==
  ASSUME NEW t \in Clock
  PROVE  Elapsed(t, t) = 0
BY ClockAssumption DEF Elapsed, Clock

LEMMA ElapsedTick ==
  ASSUME NEW now \in Clock, NEW then \in Clock, Elapsed(now, then) < ClockMod - 1
  PROVE  Elapsed(IF now = ClockMod - 1 THEN 0 ELSE now + 1, then) = Elapsed(now, then) + 1
BY ClockAssumption DEF Elapsed, Clock

\* A slew step stays within the angles, ends between joint and target, and is
\* at most SlewMax long.
LEMMA SlewStep ==
  ASSUME NEW from \in Angle, NEW to \in Angle
  PROVE  /\ Slew(from, to) \in Angle
         /\ \/ from <= Slew(from, to) /\ Slew(from, to) <= to /\ Slew(from, to) - from <= SlewMax
            \/ to <= Slew(from, to) /\ Slew(from, to) <= from /\ from - Slew(from, to) <= SlewMax
<1> USE AngleAssumption, SlewAssumption DEF Angle
<1>1. CASE from < to
  <2>1. Slew(from, to) = from + (IF to - from >= SlewMax THEN SlewMax ELSE 1)
    BY <1>1 DEF Slew
  <2> QED BY <1>1, <2>1
<1>2. CASE from > to
  <2>1. Slew(from, to) = from - (IF from - to >= SlewMax THEN SlewMax ELSE 1)
    BY <1>2 DEF Slew
  <2> QED BY <1>2, <2>1
<1>3. CASE from = to
  <2>1. Slew(from, to) = from
    BY <1>3 DEF Slew
  <2> QED BY <1>3, <2>1
<1> QED BY <1>1, <1>2, <1>3

-----------------------------------------------------------------------------
LEMMA InitSafety == Init => SafetyInv
<1> SUFFICES ASSUME Init PROVE SafetyInv
  OBVIOUS
<1> USE DEF Init
<1>1. TypeOK
  <2>1. 0 \in Clock
    BY ClockAssumption DEF Clock
  <2>2. [j \in Joint |-> Home] \in Pose
    BY AngleAssumption DEF Pose
  <2>3. /\ is_safe \in BOOLEAN /\ g_is_in_safety_halt \in BOOLEAN
        /\ g_has_bootstrapped \in BOOLEAN /\ g_is_tripped \in BOOLEAN
    BY Zenon
  <2>4. 0 \in 0 .. Burst - 1 /\ 0 \in 0 .. Burst /\ 0 \in 0 .. MaxPass
        /\ 0 \in 0 .. MaxSilence /\ Period \in 0 .. Period
    BY BurstAssumption, TimeAssumption
  <2> QED BY <2>1, <2>2, <2>3, <2>4 DEF TypeOK
<1>2. ElapsedIsSilence /\ HaltMeansSilence /\ CheckIsFresh /\ TripPending
  BY DEF ElapsedIsSilence, HaltMeansSilence, CheckIsFresh, TripPending
<1> QED BY <1>1, <1>2 DEF SafetyInv

LEMMA TypeStep == TypeOK /\ [Next]_vars => TypeOK'
<1> SUFFICES ASSUME TypeOK, [Next]_vars PROVE TypeOK'
  OBVIOUS
<1> USE DEF TypeOK, loop, watchdog, gate, arm, time
<1>1. CASE Tick
  <2>1. clock' \in Clock
    BY <1>1, ClockAssumption DEF Tick, Clock
  <2>2. passed' \in 0 .. MaxPass /\ silence' \in 0 .. MaxSilence /\ rested' \in 0 .. Period
    BY <1>1, TimeAssumption DEF Tick
  <2> QED BY <1>1, <2>1, <2>2 DEF Tick
<1>2. CASE ReadClock
  BY <1>2, TimeAssumption DEF ReadClock
<1>3. CASE CheckHealthy
  BY <1>3 DEF CheckHealthy
<1>4. CASE CheckExpired
  <2>1. CountOnExpiry \in 0 .. Burst - 1 /\ (IF g_is_in_safety_halt THEN trust ELSE 0) \in 0 .. Burst
    BY BurstAssumption DEF CountOnExpiry
  <2> QED BY <1>4, <2>1 DEF CheckExpired
<1>5. CASE DrainQuiet
  BY <1>5 DEF DrainQuiet
<1>6. CASE DrainError
  BY <1>6, BurstAssumption DEF DrainError, CountAfterError
<1>7. Trusted \in 0 .. Burst
  BY BurstAssumption DEF Trusted
<1>8. CASE DrainHeld
  BY <1>7, <1>8, BurstAssumption DEF DrainHeld
<1>9. ASSUME NEW pose \in Command, DrainValid(pose) PROVE TypeOK'
  <2>1. g_has_bootstrapped' \in BOOLEAN /\ g_is_tripped' \in BOOLEAN
    BY <1>9, Zenon DEF DrainValid, Accept
  <2>2. pose \in Pose /\ silence' \in 0 .. MaxSilence
    BY <1>9, CommandAssumption, TimeAssumption DEF DrainValid, Accept
  <2> QED BY <1>7, <1>9, <2>1, <2>2 DEF DrainValid, Accept
<1>10. ASSUME NEW pose \in Command, DrainRelease(pose) PROVE TypeOK'
  <2>1. /\ g_has_bootstrapped' \in BOOLEAN /\ g_is_tripped' \in BOOLEAN
        /\ g_is_in_safety_halt' \in BOOLEAN
    BY <1>10, Zenon DEF DrainRelease, Accept
  <2>2. /\ pose \in Pose /\ silence' \in 0 .. MaxSilence
        /\ g_consecutive_valid_frames' \in 0 .. Burst - 1
    BY <1>10, CommandAssumption, TimeAssumption, BurstAssumption DEF DrainRelease, Accept
  <2> QED BY <1>7, <1>10, <2>1, <2>2 DEF DrainRelease, Accept
<1>11. CASE ActNotDue
  BY <1>11 DEF ActNotDue
<1>12. CASE Act
  <2>1. [j \in Joint |-> Slew(g_current_angles[j], g_target_angles[j])] \in Pose
    BY SlewStep DEF Pose
  <2>2. rested' \in 0 .. Period
    BY <1>12, TimeAssumption DEF Act
  <2> QED BY <1>12, <2>1, <2>2 DEF Act
<1>13. CASE UNCHANGED vars
  BY <1>13 DEF vars
<1> QED
  BY <1>1, <1>2, <1>3, <1>4, <1>5, <1>6, <1>8, <1>9, <1>10, <1>11, <1>12, <1>13
  DEF Next, Loop, Valid

\* The remaining parts of the invariant relate the clock to the history; each
\* step can disturb only some of them.
TimingInv == ElapsedIsSilence /\ HaltMeansSilence /\ CheckIsFresh /\ TripPending

LEMMA TimingStep ==
  ASSUME MaxSilence < ClockMod, SafetyInv, [Next]_vars
  PROVE  TimingInv'
<1> USE DEF SafetyInv, TypeOK, TimingInv, loop, watchdog, gate, arm, time
<1>1. CASE Tick
  <2>1. ElapsedIsSilence'
    BY <1>1, ElapsedTick, TimeAssumption, ClockAssumption DEF Tick, ElapsedIsSilence
  <2>2. HaltMeansSilence' /\ CheckIsFresh' /\ TripPending'
    BY <1>1, TimeAssumption DEF Tick, HaltMeansSilence, CheckIsFresh, TripPending
  <2> QED BY <2>1, <2>2
<1>2. CASE ReadClock
  BY <1>2, TimeAssumption
  DEF ReadClock, ElapsedIsSilence, Elapsed, HaltMeansSilence, CheckIsFresh, TripPending
<1>3. CASE CheckHealthy
  BY <1>3, TimeAssumption
  DEF CheckHealthy, Expired, ElapsedIsSilence, Elapsed, HaltMeansSilence, CheckIsFresh, TripPending
<1>4. CASE CheckExpired
  <2>1. ElapsedIsSilence'
    BY <1>4 DEF CheckExpired, ElapsedIsSilence, Elapsed
  <2>2. HaltMeansSilence'
    BY <1>4 DEF CheckExpired, Expired, ElapsedIsSilence, HaltMeansSilence, CountOnExpiry
  <2>3. CheckIsFresh' /\ TripPending'
    BY <1>4 DEF CheckExpired, CheckIsFresh, TripPending
  <2> QED BY <2>1, <2>2, <2>3
<1>5. CASE DrainQuiet
  BY <1>5
  DEF DrainQuiet, ElapsedIsSilence, Elapsed, HaltMeansSilence, CheckIsFresh, TripPending
<1>6. CASE DrainError
  BY <1>6 DEF DrainError, CountAfterError, ElapsedIsSilence, Elapsed, HaltMeansSilence,
              CheckIsFresh, TripPending
<1>7. CASE DrainHeld
  BY <1>7, BurstAssumption
  DEF DrainHeld, Trusted, ElapsedIsSilence, Elapsed, HaltMeansSilence, CheckIsFresh, TripPending
<1>8. ASSUME NEW pose \in Command, DrainValid(pose) PROVE TimingInv'
  BY <1>8, ElapsedZero, TimeAssumption
  DEF DrainValid, Accept, ElapsedIsSilence, HaltMeansSilence, CheckIsFresh, TripPending
<1>9. ASSUME NEW pose \in Command, DrainRelease(pose) PROVE TimingInv'
  BY <1>9, ElapsedZero, TimeAssumption
  DEF DrainRelease, Accept, ElapsedIsSilence, HaltMeansSilence, CheckIsFresh, TripPending
<1>10. CASE ActNotDue
  BY <1>10
  DEF ActNotDue, ElapsedIsSilence, Elapsed, HaltMeansSilence, CheckIsFresh, TripPending
<1>11. CASE Act
  BY <1>11 DEF Act, ElapsedIsSilence, Elapsed, HaltMeansSilence, CheckIsFresh, TripPending
<1>12. CASE UNCHANGED vars
  BY <1>12
  DEF vars, ElapsedIsSilence, Elapsed, HaltMeansSilence, CheckIsFresh, TripPending
<1> QED
  BY <1>1, <1>2, <1>3, <1>4, <1>5, <1>6, <1>7, <1>8, <1>9, <1>10, <1>11, <1>12
  DEF Next, Loop, Valid

\* The inductive invariant of the loop: types, the watchdog's arithmetic, what
\* a halt implies, and how old a check can be when Task C uses it
\* (main.cpp:94-183, watchdog_interlock.cpp:24-45).
THEOREM InterlockInvariant ==
  ASSUME MaxSilence < ClockMod
  PROVE  Spec => []SafetyInv
<1>1. Init => SafetyInv
  BY InitSafety
<1>2. SafetyInv /\ [Next]_vars => SafetyInv'
  BY TypeStep, TimingStep DEF SafetyInv, TimingInv
<1> QED BY <1>1, <1>2, PTL DEF Spec

\* The halt is latched within two passes of the timeout.
THEOREM TripLatency ==
  ASSUME MaxSilence < ClockMod
  PROVE  Spec => []TripsInTime
<1>1. SafetyInv => TripsInTime
  BY TimeAssumption DEF SafetyInv, TypeOK, TripPending, TripsInTime
<1> QED BY <1>1, InterlockInvariant, PTL

-----------------------------------------------------------------------------
\* Only a dispatch moves the arm, and only on a healthy check of its pass.
LEMMA OnlyActMoves ==
  ASSUME TypeOK, [Next]_vars, g_current_angles' # g_current_angles
  PROVE  Act /\ is_safe
BY DEF TypeOK, Next, Loop, Valid, Tick, ReadClock, CheckHealthy, CheckExpired,
       DrainQuiet, DrainError, DrainHeld, DrainValid, DrainRelease, Accept, ActNotDue,
       Act, MayMove, vars, arm

\* While halted the arm holds its pose and takes no new target
\* (main.cpp:106-114, 125-138, 159).
THEOREM HaltHolds ==
  ASSUME MaxSilence < ClockMod
  PROVE  Spec => HaltHoldsArm
<1>1. SafetyInv /\ [Next]_vars =>
        [g_is_in_safety_halt =>
           /\ g_current_angles' = g_current_angles
           /\ g_is_in_safety_halt' => g_target_angles' = g_target_angles]_vars
  <2> SUFFICES ASSUME SafetyInv, [Next]_vars, g_is_in_safety_halt
               PROVE  /\ g_current_angles' = g_current_angles
                      /\ g_is_in_safety_halt' => g_target_angles' = g_target_angles
    OBVIOUS
  <2>1. g_current_angles' = g_current_angles
    BY OnlyActMoves DEF SafetyInv, CheckIsFresh, Act
  <2>2. g_is_in_safety_halt' => g_target_angles' = g_target_angles
    BY DEF Next, Loop, Valid, Tick, ReadClock, CheckHealthy, CheckExpired, DrainQuiet,
           DrainError, DrainHeld, DrainValid, DrainRelease, Accept, ActNotDue, Act, vars, arm
  <2> QED BY <2>1, <2>2
<1> QED BY <1>1, InterlockInvariant, PTL DEF Spec, HaltHoldsArm

\* The arm moves only on a link alive within the timeout, give or take the
\* rest of the pass that checked it (main.cpp:104 and 159).
THEOREM MotionIsFresh ==
  ASSUME MaxSilence < ClockMod
  PROVE  Spec => NoStaleMotion
<1>1. SafetyInv /\ [Next]_vars =>
        [g_current_angles' # g_current_angles /\ g_has_bootstrapped =>
           silence <= Timeout + MaxPass]_vars
  <2> SUFFICES ASSUME SafetyInv, [Next]_vars, g_has_bootstrapped,
                      g_current_angles' # g_current_angles
               PROVE  silence <= Timeout + MaxPass
    OBVIOUS
  <2>1. pc = "act" /\ is_safe
    BY OnlyActMoves DEF Act, SafetyInv
  <2> QED BY <2>1, TimeAssumption DEF SafetyInv, TypeOK, CheckIsFresh
<1> QED BY <1>1, InterlockInvariant, PTL DEF Spec, NoStaleMotion

-----------------------------------------------------------------------------
(***************************************************************************)
(* The refinement.  Each step of the loop is a step of the interlock or    *)
(* leaves what the interlock is about alone.                               *)
(***************************************************************************)
Quiet == UNCHANGED <<g_has_bootstrapped, silence, g_is_in_safety_halt, trust,
                     g_target_angles, g_current_angles>>

LEMMA QuietStutters == Quiet => UNCHANGED Interlock!vars
BY DEF Quiet, Interlock!vars

\* The clock: a silence grows without a halt only up to two passes beyond the
\* timeout, because the invariant holds after the tick as well.
LEMMA TickElapses ==
  ASSUME SafetyInv, SafetyInv', Tick
  PROVE  Interlock!Elapse \/ Quiet
<1>1. CASE g_has_bootstrapped
  <2>1. silence' = silence + 1
        /\ UNCHANGED <<g_has_bootstrapped, g_is_in_safety_halt, trust, g_target_angles,
                       g_current_angles>>
    BY <1>1 DEF Tick, watchdog, gate, arm
  <2>2. g_is_in_safety_halt \/ silence' <= Timeout + 2 * MaxPass
    <3>1. passed' \in 0 .. MaxPass /\ silence' \in Nat
      BY DEF SafetyInv, TypeOK
    <3> QED BY <1>1, <2>1, <3>1, TimeAssumption DEF SafetyInv, TripPending
  <2>3. silence \in Nat
    BY DEF SafetyInv, TypeOK
  <2>4. g_is_in_safety_halt \/ silence < Timeout + 2 * MaxPass
    BY <2>1, <2>2, <2>3, TimeAssumption
  <2> QED BY <1>1, <2>1, <2>4 DEF Interlock!Elapse
<1>2. CASE ~g_has_bootstrapped
  BY <1>2 DEF Tick, watchdog, gate, arm, Quiet
<1> QED BY <1>1, <1>2

\* The check that trips: the modular difference it looks at is the silence.
LEMMA CheckHalts ==
  ASSUME SafetyInv, CheckExpired
  PROVE  Interlock!Halt \/ Quiet
<1>1. /\ g_has_bootstrapped /\ g_is_in_safety_halt' = TRUE
      /\ UNCHANGED <<g_has_bootstrapped, silence, g_target_angles, g_current_angles>>
      /\ trust' = IF g_is_in_safety_halt THEN trust ELSE 0
  BY DEF CheckExpired, Expired, arm, time
<1>2. silence > Timeout
  BY DEF CheckExpired, Expired, SafetyInv, ElapsedIsSilence
<1>3. g_is_in_safety_halt \in BOOLEAN
  BY DEF SafetyInv, TypeOK
<1> QED BY <1>1, <1>2, <1>3 DEF Interlock!Halt, Quiet

\* In a halt the code's counter is the burst, so a frame that is held is not
\* the last of a burst and one that releases the halt is.
LEMMA DrainCounts ==
  ASSUME SafetyInv, DrainHeld
  PROVE  Interlock!Count
<1>1. /\ g_is_in_safety_halt /\ g_is_in_safety_halt' = g_is_in_safety_halt
      /\ g_consecutive_valid_frames + 1 < Burst /\ trust' = Trusted
      /\ UNCHANGED <<g_has_bootstrapped, silence, g_target_angles, g_current_angles>>
  BY DEF DrainHeld, watchdog, arm, time
<1>2. trust + 1 < Burst /\ trust' = trust + 1
  BY <1>1, BurstAssumption DEF SafetyInv, TypeOK, HaltMeansSilence, Trusted
<1> QED BY <1>1, <1>2 DEF Interlock!Count

LEMMA DrainObeys ==
  ASSUME SafetyInv, NEW pose \in Command, DrainValid(pose) \/ DrainRelease(pose)
  PROVE  Interlock!Obey(pose)
<1>1. /\ g_has_bootstrapped' = TRUE /\ silence' = 0 /\ g_is_in_safety_halt' = FALSE
      /\ g_target_angles' = pose /\ g_current_angles' = g_current_angles
  BY DEF DrainValid, DrainRelease, Accept, SafetyInv, TypeOK
<1>2. g_is_in_safety_halt => trust + 1 >= Burst
  BY BurstAssumption DEF DrainValid, DrainRelease, SafetyInv, TypeOK, HaltMeansSilence
<1> QED BY <1>1, <1>2 DEF Interlock!Obey

\* A dispatch that moves a joint acts on a check of its own pass.
LEMMA ActMoves ==
  ASSUME SafetyInv, Act
  PROVE  Interlock!Move \/ Quiet
<1>1. UNCHANGED <<g_has_bootstrapped, silence, g_is_in_safety_halt, trust, g_target_angles>>
  BY DEF Act, watchdog, gate
<1>2. CASE is_safe
  <2>1. pc = "act" /\ ~g_is_in_safety_halt /\ (g_has_bootstrapped => silence <= Timeout + MaxPass)
    BY <1>2, TimeAssumption DEF Act, SafetyInv, TypeOK, CheckIsFresh
  <2>2. g_current_angles' = [j \in Joint |-> Slew(g_current_angles[j], g_target_angles[j])]
    BY <1>2 DEF Act, MayMove
  <2>3. ASSUME NEW j \in Joint
        PROVE  /\ g_current_angles'[j] \in Int
               /\ Interlock!Towards(g_current_angles[j], g_target_angles[j], g_current_angles'[j])
    <3>1. g_current_angles[j] \in Angle /\ g_target_angles[j] \in Angle
      BY DEF SafetyInv, TypeOK, Pose
    <3>2. Slew(g_current_angles[j], g_target_angles[j]) \in Int
      <4>1. Slew(g_current_angles[j], g_target_angles[j]) \in Angle
        BY <3>1, SlewStep
      <4> QED BY <4>1, AngleAssumption DEF Angle
    <3> QED BY <2>2, <3>1, <3>2, SlewStep DEF Interlock!Towards
  <2>4. g_current_angles' \in [Joint -> Int]
    BY <2>2, <2>3
  <2> QED BY <1>1, <2>1, <2>3, <2>4 DEF Interlock!Move
<1>3. CASE ~is_safe
  BY <1>1, <1>3 DEF Act, MayMove, Quiet
<1> QED BY <1>2, <1>3

LEMMA InterlockStep ==
  ASSUME SafetyInv, SafetyInv', [Next]_vars
  PROVE  [Interlock!Next]_(Interlock!vars)
<1>1. CASE Tick
  BY <1>1, TickElapses, QuietStutters DEF Interlock!Next
<1>2. CASE CheckExpired
  BY <1>2, CheckHalts, QuietStutters DEF Interlock!Next
<1>3. CASE DrainError
  <2>1. UNCHANGED <<g_has_bootstrapped, silence, g_is_in_safety_halt, g_target_angles,
                    g_current_angles>> /\ trust' = 0
    BY <1>3 DEF DrainError, watchdog, arm, time
  <2>2. CASE g_is_in_safety_halt
    BY <2>1, <2>2 DEF Interlock!Break, Interlock!Next
  <2>3. CASE ~g_is_in_safety_halt
    BY <2>1, <2>3 DEF Interlock!vars
  <2> QED BY <2>2, <2>3
<1>4. CASE DrainHeld
  BY <1>4, DrainCounts DEF Interlock!Next
<1>5. ASSUME NEW pose \in Command, DrainValid(pose) \/ DrainRelease(pose)
      PROVE  [Interlock!Next]_(Interlock!vars)
  BY <1>5, DrainObeys DEF Interlock!Next
<1>6. CASE Act
  BY <1>6, ActMoves, QuietStutters DEF Interlock!Next
<1>7. CASE ReadClock \/ CheckHealthy \/ DrainQuiet \/ ActNotDue \/ UNCHANGED vars
  <2>1. Quiet
    BY <1>7 DEF ReadClock, CheckHealthy, DrainQuiet, ActNotDue, vars, watchdog, gate, arm,
                time, Quiet
  <2> QED BY <2>1, QuietStutters
<1> QED BY <1>1, <1>2, <1>3, <1>4, <1>5, <1>6, <1>7 DEF Next, Loop, Valid

\* The loop implements the interlock: it halts within two passes of the
\* timeout, moves only on a link alive, toward the target, and ends a halt only
\* by Burst valid frames received since the trip, none of them separated by a
\* damaged one (main.cpp:94-183, watchdog_interlock.cpp:24-45).
THEOREM LoopImplementsInterlock ==
  ASSUME MaxSilence < ClockMod
  PROVE  Spec => ImplementsInterlock
<1>1. Init => Interlock!Init
  BY DEF Init, Interlock!Init
<1>2. SafetyInv /\ SafetyInv' /\ [Next]_vars => [Interlock!Next]_(Interlock!vars)
  BY InterlockStep
<1> QED BY <1>1, <1>2, InterlockInvariant, PTL DEF Spec, ImplementsInterlock, Interlock!Spec

-----------------------------------------------------------------------------
\* One tick later the difference is one more, or has wrapped to zero.
LEMMA ElapsedAtMostTick ==
  ASSUME NEW now \in Clock, NEW then \in Clock
  PROVE  /\ Elapsed(now, then) \in Clock
         /\ Elapsed(IF now = ClockMod - 1 THEN 0 ELSE now + 1, then) <= Elapsed(now, then) + 1
BY ClockAssumption DEF Elapsed, Clock

\* The pass's sample of the clock is no older than the pass.  Until a joint has
\* rested for a period, less a pass, the dispatch that moved it is the last one,
\* and not a period ago.
DispatchInv ==
  /\ pc # "loop" => Elapsed(clock, current_ms) <= passed
  /\ rested + MaxPass >= Period
       \/ /\ Elapsed(clock, g_last_actuator_ms) <= rested + MaxPass
          /\ pc # "loop" =>
               Elapsed(current_ms, g_last_actuator_ms) <= Elapsed(clock, g_last_actuator_ms)
          /\ Period < ClockMod

\* A dispatch comes a period after the last one, less the pass in between.
LEMMA DueRested ==
  ASSUME TypeOK, DispatchInv, Act
  PROVE  rested + MaxPass >= Period
<1>1. Elapsed(current_ms, g_last_actuator_ms) \in Clock
      /\ Elapsed(clock, g_last_actuator_ms) \in Clock
  BY ElapsedAtMostTick DEF TypeOK
<1>2. Elapsed(current_ms, g_last_actuator_ms) >= Period /\ pc # "loop"
  BY DEF Act, Due
<1>3. rested \in Nat /\ MaxPass \in Nat /\ Period \in Nat
  BY TimeAssumption DEF TypeOK
<1> QED BY <1>1, <1>2, <1>3, ClockAssumption DEF DispatchInv, Clock

LEMMA DispatchStep == TypeOK /\ DispatchInv /\ [Next]_vars => DispatchInv'
<1> SUFFICES ASSUME TypeOK, DispatchInv, [Next]_vars PROVE DispatchInv'
  OBVIOUS
<1> DEFINE since == Elapsed(clock, g_last_actuator_ms)
           sampled == Elapsed(current_ms, g_last_actuator_ms)
           old == Elapsed(clock, current_ms)
<1>1. /\ since \in Clock /\ sampled \in Clock /\ old \in Clock
      /\ clock \in Clock /\ current_ms \in Clock /\ g_last_actuator_ms \in Clock
      /\ rested \in 0 .. Period /\ passed \in 0 .. MaxPass
      /\ MaxPass \in Nat /\ Period \in Nat /\ ClockMod \in Nat \ {0}
  BY ElapsedAtMostTick, TimeAssumption, ClockAssumption DEF TypeOK
<1>2. CASE Tick
  <2>1. /\ clock' = IF clock = ClockMod - 1 THEN 0 ELSE clock + 1
        /\ passed' = passed + 1 /\ rested' = IF rested < Period THEN rested + 1 ELSE rested
        /\ UNCHANGED <<pc, current_ms, g_last_actuator_ms>>
    BY <1>2 DEF Tick, loop, arm
  <2>2. old' <= old + 1 /\ sampled' = sampled
    BY <1>1, <2>1, ElapsedAtMostTick DEF Elapsed
  <2>3. since < ClockMod - 1 => since' = since + 1
    BY <1>1, <2>1, ElapsedTick
  <2>4. old' \in Int
    BY <1>1, <2>1, ClockAssumption DEF Elapsed, Clock
  <2>5. pc' # "loop" => old' <= passed'
    <3> HIDE DEF old
    <3>1. pc # "loop" => old <= passed
      BY DEF DispatchInv, old
    <3>2. old \in Nat /\ passed \in Nat
      BY <1>1 DEF Clock
    <3> QED BY <2>1, <2>2, <2>4, <3>1, <3>2
  <2>6. CASE rested' + MaxPass >= Period
    BY <2>5, <2>6 DEF DispatchInv
  <2>7. CASE ~(rested' + MaxPass >= Period)
    <3> HIDE DEF since, sampled, old
    <3>1. rested < Period /\ rested' = rested + 1 /\ ~(rested + MaxPass >= Period)
      BY <1>1, <2>1, <2>7
    <3>2. /\ since <= rested + MaxPass /\ Period < ClockMod
          /\ pc # "loop" => sampled <= since
      BY <3>1 DEF DispatchInv, since, sampled
    <3>3. since \in Nat /\ sampled \in Nat
      BY <1>1 DEF Clock
    <3>4. since < ClockMod - 1
      BY <1>1, <2>7, <3>1, <3>2, <3>3
    <3>5. since' = since + 1
      BY <2>3, <3>4
    <3>6. since' <= rested' + MaxPass /\ (pc' # "loop" => sampled' <= since')
      BY <1>1, <2>1, <2>2, <3>1, <3>2, <3>3, <3>5
    <3> QED BY <2>5, <3>2, <3>6 DEF DispatchInv, since, sampled, old
  <2> QED BY <2>6, <2>7
<1>3. CASE ReadClock
  <2>1. current_ms' = clock /\ passed' = 0 /\ UNCHANGED <<clock, g_last_actuator_ms, rested>>
    BY <1>3 DEF ReadClock, arm
  <2>2. old' = 0 /\ since' = since /\ sampled' = since
    BY <1>1, <2>1, ElapsedZero DEF Elapsed
  <2>3. old' <= passed' /\ sampled' <= since'
    BY <1>1, <2>1, <2>2 DEF Clock
  <2> QED BY <2>1, <2>2, <2>3 DEF DispatchInv
<1>4. CASE Act
  <2>1. rested + MaxPass >= Period
    BY <1>4, DueRested
  <2>2. pc' = "loop" /\ UNCHANGED <<clock, passed>> /\ g_last_actuator_ms' = current_ms
        /\ rested' \in {0, rested}
    BY <1>4 DEF Act
  <2>3. CASE rested' = rested
    BY <2>1, <2>2, <2>3 DEF DispatchInv
  <2>4. CASE rested' = 0
    <3>1. since' = old /\ old <= passed /\ passed <= MaxPass
      BY <1>1, <1>4, <2>2 DEF Act, DispatchInv, Elapsed
    <3>2. Period < ClockMod
      <4>1. sampled >= Period
        BY <1>4 DEF Act, Due
      <4> HIDE DEF sampled
      <4> QED BY <1>1, <4>1 DEF Clock
    <3>3. since' <= rested' + MaxPass
      <4> HIDE DEF since, old
      <4>1. old \in Nat
        BY <1>1 DEF Clock
      <4> QED BY <1>1, <2>4, <3>1, <4>1
    <3> QED BY <2>2, <3>2, <3>3 DEF DispatchInv
  <2> QED BY <2>2, <2>3, <2>4
<1>5. CASE /\ UNCHANGED <<clock, current_ms, g_last_actuator_ms, passed, rested>>
           /\ pc = "loop" => pc' = "loop"
  BY <1>5 DEF DispatchInv, Elapsed
<1>6. CheckHealthy \/ CheckExpired \/ DrainQuiet \/ DrainError \/ Valid \/ ActNotDue
        \/ UNCHANGED vars
      => /\ UNCHANGED <<clock, current_ms, g_last_actuator_ms, passed, rested>>
         /\ pc = "loop" => pc' = "loop"
  BY DEF CheckHealthy, CheckExpired, DrainQuiet, DrainError, Valid, DrainHeld, DrainValid,
         DrainRelease, Accept, ActNotDue, vars, arm, time
<1> QED BY <1>2, <1>3, <1>4, <1>5, <1>6 DEF Next, Loop

\* A step of a slew is at most SlewMax long, toward the target and not past it,
\* and comes a period after the last one but for the jitter of a pass, whatever
\* the clock, the period and the length of a pass: no hypothesis is needed
\* (main.cpp:154-182).
THEOREM SlewIsLimited == Spec => SlewLimited
<1>1. Init => TypeOK /\ DispatchInv
  <2>1. Init => rested + MaxPass >= Period
    BY TimeAssumption DEF Init
  <2>2. Init => pc = "loop"
    BY DEF Init
  <2> QED BY <2>1, <2>2, InitSafety DEF SafetyInv, DispatchInv
<1>2. TypeOK /\ DispatchInv /\ [Next]_vars => (TypeOK /\ DispatchInv)'
  BY TypeStep, DispatchStep
<1>3. TypeOK /\ DispatchInv /\ [Next]_vars =>
        [g_current_angles' # g_current_angles =>
           /\ rested + MaxPass >= Period
           /\ \A j \in Joint :
                LET from == g_current_angles[j]
                    to == g_target_angles[j]
                    at == g_current_angles'[j]
                IN \/ from <= at /\ at <= to /\ at - from <= SlewMax
                   \/ to <= at /\ at <= from /\ from - at <= SlewMax]_vars
  <2> SUFFICES ASSUME TypeOK, DispatchInv, [Next]_vars, g_current_angles' # g_current_angles
               PROVE  /\ rested + MaxPass >= Period
                      /\ \A j \in Joint :
                           LET from == g_current_angles[j]
                               to == g_target_angles[j]
                               at == g_current_angles'[j]
                           IN \/ from <= at /\ at <= to /\ at - from <= SlewMax
                              \/ to <= at /\ at <= from /\ from - at <= SlewMax
    OBVIOUS
  <2>1. Act /\ is_safe
    BY OnlyActMoves
  <2>2. rested + MaxPass >= Period
    BY <2>1, DueRested
  <2>3. ASSUME NEW j \in Joint
        PROVE  /\ g_current_angles'[j] = Slew(g_current_angles[j], g_target_angles[j])
               /\ g_current_angles[j] \in Angle /\ g_target_angles[j] \in Angle
    BY <2>1 DEF Act, MayMove, TypeOK, Pose
  <2> QED BY <2>2, <2>3, SlewStep
<1> QED BY <1>1, <1>2, <1>3, PTL DEF Spec, SlewLimited
=============================================================================
