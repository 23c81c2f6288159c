---------------------------- MODULE HostLinkProofs ----------------------------
(***************************************************************************)
(* On a line that does not fail host and firmware stay in step and the     *)
(* watchdog stays fed; after one fault the host's cache is still sound and *)
(* a halt still the operator's to release; a burst on an empty line is     *)
(* accepted.  For every set of poses, number of targets and fault budget,  *)
(* and for all times that are ordered as the program's are.                *)
(***************************************************************************)
EXTENDS HostLink, SequenceTheorems, TLAPS

\* An answer is waited for, a keep-alive or the sleep between two targets is
\* due before the watchdog expires.
Times == 0 < SERIAL_TIMEOUT /\ PAUSE <= IDLE_KEEPALIVE /\ IDLE_KEEPALIVE < WATCHDOG

Running == pc \in {"run", "read", "pause"}

\* What is on the line, by what the host is doing.
Exchange ==
  /\ pc \notin {"prompt", "burst"}
  /\ parser = "start" /\ Len(down) + Len(up) <= 1
  /\ pc = "read" => /\ waited = 0
                    /\ \/ down = <<sent>> /\ up = << >> /\ last_valid_angles = target
                       \/ down = << >> /\ up = <<"K">> /\ target = sent /\ silence = 0
  /\ pc \in {"run", "pause"} => up = << >> /\ down = << >> /\ last_valid_angles = target
  /\ Running => ~halted

\* How long the firmware can have been without a frame.
Fed == /\ pc = "read" => silence <= IDLE_KEEPALIVE + 1 /\ age = 0
       /\ pc = "run" => silence <= age /\ age <= IDLE_KEEPALIVE + 1
       /\ pc = "pause" => silence <= waited /\ silence <= age
                          /\ waited <= PAUSE /\ age <= waited

IInv == TypeOK /\ (faults = 0 => Exchange /\ Fed)

-----------------------------------------------------------------------------
LEMMA InitOK == Init => IInv
<1> SUFFICES ASSUME Init PROVE IInv
  OBVIOUS
<1>1. FlagsOK
  BY DEF Init, FlagsOK
<1>2. ValuesOK
  BY PoseAssumption, CountsAssumption DEF Init, ValuesOK
<1>3. Exchange /\ Fed
  BY DEF Init, Exchange, Fed, Running
<1> QED BY <1>1, <1>2, <1>3 DEF IInv, TypeOK

LEMMA FlagsStep == FlagsOK /\ [Next]_vars => FlagsOK'
<1> SUFFICES ASSUME FlagsOK, [Next]_vars PROVE FlagsOK'
  OBVIOUS
<1> USE DEF FlagsOK, host, clocks, firmware
<1>1. CASE Connect \/ Quit \/ Restart \/ Wake \/ Trip \/ UNCHANGED vars
  BY <1>1 DEF Connect, Quit, Restart, Wake, Trip, vars
<1>2. CASE Dispatch \/ Heartbeat
  BY <1>2 DEF Dispatch, Heartbeat, Transmit
<1>3. CASE ReadAnswer \/ ReadTimeout \/ BurstAnswer
  BY <1>3 DEF ReadAnswer, ReadTimeout, BurstAnswer
<1>4. CASE Confirm
  BY <1>4 DEF Confirm
<1>5. CASE Arrive
  BY <1>5 DEF Arrive, Obey
<1>6. CASE Tick \/ ArriveDamaged \/ AnswerDamaged
  BY <1>6 DEF Tick, ArriveDamaged, AnswerDamaged, Fault
<1> QED BY <1>1, <1>2, <1>3, <1>4, <1>5, <1>6 DEF Next, Host

\* Answers stay answers behind those on the line.
LEMMA LettersOK ==
  ASSUME NEW s \in Seq(Letter), NEW a \in Letter, NEW b \in Letter, NEW c \in Letter
  PROVE  /\ s \o << >> \in Seq(Letter) /\ s \o <<a>> \in Seq(Letter)
         /\ s \o <<a, b>> \in Seq(Letter) /\ s \o <<a, b, c>> \in Seq(Letter)
         /\ (s \o <<a>>) \o <<b>> \in Seq(Letter)
<1>1. << >> \in Seq(Letter) /\ <<a>> \in Seq(Letter) /\ <<b>> \in Seq(Letter)
      /\ <<a, b>> \in Seq(Letter) /\ <<a, b, c>> \in Seq(Letter)
  OBVIOUS
<1> HIDE DEF Letter
<1> QED BY <1>1, ConcatProperties

LEMMA ValuesStep == TypeOK /\ [Next]_vars => ValuesOK'
<1> SUFFICES ASSUME TypeOK, [Next]_vars PROVE ValuesOK'
  OBVIOUS
<1> USE PoseAssumption, TimesAssumption, CountsAssumption
    DEF TypeOK, ValuesOK, host, clocks, firmware, Capped
<1>0. up \in Seq(Letter)
  OBVIOUS
<1>1. CASE Connect
  BY <1>1 DEF Connect
<1>2. ASSUME NEW p \in Pose, Transmit(p), todo' \in 0 .. Trajectory,
             task' \in {"trajectory", "idle"}
      PROVE  ValuesOK'
  BY <1>2 DEF Transmit
<1>3. CASE Dispatch \/ Heartbeat
  <2>1. CASE Dispatch
    <3>1. PICK p \in Pose \cup {last_valid_angles} : Transmit(p)
      BY <2>1 DEF Dispatch
    <3>2. p \in Pose /\ task' = "trajectory" /\ todo' = todo - 1 /\ todo > 0
      BY <2>1 DEF Dispatch
    <3>3. todo' \in 0 .. Trajectory
      BY <3>2
    <3> QED BY <1>2, <3>1, <3>2, <3>3
  <2>2. CASE Heartbeat
    <3>1. PICK p \in Pose : Transmit(p)
      BY <2>2 DEF Heartbeat, Transmit
    <3>2. todo' = todo /\ task' = "idle"
      BY <2>2 DEF Heartbeat
    <3>3. todo' \in 0 .. Trajectory
      BY <3>2
    <3> QED BY <1>2, <3>1, <3>2, <3>3
  <2> QED BY <1>3, <2>1, <2>2
<1>4. CASE ReadAnswer
  <2>1. Cached(Head(up)) \in Pose /\ Tail(up) \in Seq(Letter)
    BY <1>4 DEF ReadAnswer, Cached
  <2> QED BY <1>4, <2>1 DEF ReadAnswer, Resume
<1>5. CASE ReadTimeout \/ Wake \/ Quit \/ Restart \/ Trip \/ UNCHANGED vars
  BY <1>5 DEF ReadTimeout, Wake, Quit, Restart, Trip, vars
<1>6. CASE Confirm
  BY <1>6 DEF Confirm, WriteBurst
<1>7. CASE BurstAnswer
  <2>1. up' \in Seq(Letter)
    BY <1>7 DEF BurstAnswer
  <2>2. CASE ~BurstWritten /\ WriteBurst(burst + 1)
    <3>1. burst' = burst + 1 /\ burst < BURST /\ waited' = 0 /\ pc' = "burst"
          /\ down' = Append(down, last_valid_angles) /\ UNCHANGED age
      <4>1. UNCHANGED age
        BY <1>7, <2>2 DEF BurstAnswer
      <4>2. burst < BURST
        BY <2>2 DEF BurstWritten
      <4> QED BY <2>2, <4>1, <4>2 DEF WriteBurst
    <3>2. burst' \in 0 .. BURST
      BY <3>1
    <3>3. down' \in Seq(Pose)
      BY <3>1
    <3>4. UNCHANGED <<task, sent, last_valid_angles, todo, silence, firmware, clean, faults>>
      BY <1>7 DEF BurstAnswer
    <3> QED BY <2>1, <3>1, <3>2, <3>3, <3>4
  <2>3. CASE BurstWritten /\ UNCHANGED <<burst, down>>
    <3>1. pc' \in {"run", "pause", "dead"} /\ waited' = 0 /\ age' \in {0, age}
      BY <1>7, <2>3 DEF BurstAnswer, Resume
    <3> QED BY <1>7, <2>1, <2>3, <3>1 DEF BurstAnswer
  <2> QED BY <1>7, <2>2, <2>3 DEF BurstAnswer
<1>8. CASE Arrive
  <2>1. Head(down) \in Pose /\ Tail(down) \in Seq(Pose)
    BY <1>8 DEF Arrive
  <2>2. ASSUME NEW errors \in {<< >>, <<"E">>}, Obey(Head(down), errors)
        PROVE  /\ up' \in Seq(Letter) /\ count' \in 0 .. BURST - 1
               /\ target' \in Pose /\ silence' \in Nat
    <3>1. /\ up \o errors \o <<"H">> \in Seq(Letter)
          /\ up \o errors \o <<"K">> \in Seq(Letter)
      <4>1. "E" \in Letter /\ "H" \in Letter /\ "K" \in Letter
        BY DEF Letter
      <4>2. up \o << >> = up
        BY <1>0, ConcatEmptySeq
      <4> QED BY <1>0, <2>2, <4>1, <4>2, LettersOK
    <3>2. up' \in {up \o errors \o <<"H">>, up \o errors \o <<"K">>}
      BY <2>2 DEF Obey
    <3>3. count' \in 0 .. BURST - 1
      <4>1. CASE errors = << >>
        BY <2>2, <4>1 DEF Obey
      <4>2. CASE errors # << >>
        BY <2>2, <4>2 DEF Obey
      <4> QED BY <4>1, <4>2
    <3>4. target' \in {target, Head(down)} /\ silence' \in {silence, 0}
      BY <2>2 DEF Obey
    <3>5. up' \in Seq(Letter)
      BY <3>1, <3>2
    <3>6. target' \in Pose /\ silence' \in Nat
      BY <2>1, <3>4
    <3> QED BY <3>3, <3>5, <3>6
  <2>3. CASE parser = "checksum" /\ up' = Append(up, "E") /\ count' = 0
             /\ UNCHANGED <<target, halted, booted, silence, accepted>>
    <3>1. "E" \in Letter
      BY DEF Letter
    <3>2. up' \in Seq(Letter)
      BY <1>0, <2>3, <3>1
    <3> QED BY <1>8, <2>1, <2>3, <3>2 DEF Arrive
  <2>4. CASE \E errors \in {<< >>, <<"E">>} : Obey(Head(down), errors)
    BY <1>8, <2>1, <2>2, <2>4 DEF Arrive
  <2> QED BY <1>8, <2>3, <2>4 DEF Arrive
<1>9. CASE ArriveDamaged
  <2>1. PICK errors \in {<< >>, <<"E">>, <<"E", "E">>} :
          LET all == IF parser = "payload" THEN errors \o <<"E">> ELSE errors
          IN /\ up' = up \o all
             /\ count' = IF all = << >> THEN count ELSE 0
             /\ parser' \in IF errors = << >> THEN {"start", "payload", "checksum"} ELSE {"start"}
    BY <1>9 DEF ArriveDamaged
  <2>2. /\ errors \in Seq(Letter) /\ errors \o <<"E">> \in Seq(Letter)
    <3>0. "E" \in Letter
      BY DEF Letter
    <3>1. /\ << >> \in Seq(Letter) /\ <<"E">> \in Seq(Letter) /\ <<"E", "E">> \in Seq(Letter)
      BY <3>0
    <3>2. errors \in Seq(Letter)
      BY <3>1
    <3> QED BY <3>1, <3>2, ConcatProperties
  <2>3. up' \in Seq(Letter)
    <3>1. up' \in {up \o errors, up \o (errors \o <<"E">>)}
      BY <2>1
    <3>2. up \o errors \in Seq(Letter)
      BY <1>0, <2>2, ConcatProperties
    <3>3. up \o (errors \o <<"E">>) \in Seq(Letter)
      BY <1>0, <2>2, ConcatProperties
    <3> QED BY <3>1, <3>2, <3>3
  <2>4. count' \in 0 .. BURST - 1 /\ parser' \in {"start", "payload", "checksum"}
    <3>1. CASE errors = << >>
      BY <2>1, <3>1
    <3>2. CASE errors # << >>
      <4>1. parser' = "start"
        BY <2>1, <3>2
      <4>2. count' \in {count, 0}
        BY <2>1
      <4> QED BY <4>1, <4>2
    <3> QED BY <3>1, <3>2
  <2> QED BY <1>9, <2>3, <2>4 DEF ArriveDamaged, Fault
<1>10. CASE AnswerDamaged
  <2>1. Tail(up) \in Seq(Letter)
    BY <1>0, <1>10 DEF AnswerDamaged
  <2>2. ASSUME NEW ack \in Garbled PROVE <<ack>> \o Tail(up) \in Seq(Letter)
    <3>1. <<ack>> \in Seq(Letter)
      BY GarbledAssumption
    <3> QED BY <2>1, <3>1, ConcatProperties
  <2>3. up' \in Seq(Letter)
    BY <1>10, <2>1, <2>2 DEF AnswerDamaged
  <2> QED BY <1>10, <2>3 DEF AnswerDamaged, Fault
<1>11. CASE Tick
  BY <1>11 DEF Tick, Fault
<1> QED BY <1>1, <1>3, <1>4, <1>5, <1>6, <1>7, <1>8, <1>9, <1>10, <1>11 DEF Next, Host

-----------------------------------------------------------------------------
\* Without a fault on record the step was none.
LEMMA NoFault ==
  ASSUME TypeOK, [Next]_vars, faults' = 0
  PROVE  faults = 0 /\ ~ArriveDamaged /\ ~AnswerDamaged
<1>1. CASE UNCHANGED faults
  BY <1>1 DEF ArriveDamaged, AnswerDamaged, Fault, TypeOK, ValuesOK
<1>2. CASE Fault
  BY <1>2 DEF Fault, TypeOK, ValuesOK
<1>3. CASE Connect \/ Dispatch \/ Heartbeat \/ ReadAnswer \/ ReadTimeout \/ BurstAnswer \/ Wake
  BY <1>1, <1>3 DEF Connect, Dispatch, Heartbeat, Transmit, ReadAnswer, ReadTimeout,
                    BurstAnswer, Wake
<1>4. CASE Confirm \/ Quit \/ Restart \/ Arrive \/ Trip \/ UNCHANGED vars
  BY <1>1, <1>4 DEF Confirm, Quit, Restart, Arrive, Trip, vars
<1>5. CASE Tick \/ ArriveDamaged \/ AnswerDamaged
  BY <1>1, <1>2, <1>5 DEF Tick, ArriveDamaged, AnswerDamaged
<1> QED BY <1>3, <1>4, <1>5 DEF Next, Host

LEMMA ExchangeStep ==
  ASSUME Times, IInv, [Next]_vars, faults' = 0
  PROVE  Exchange' /\ Fed'
<1>1. faults = 0 /\ ~ArriveDamaged /\ ~AnswerDamaged
  BY NoFault DEF IInv
<1> USE TimesAssumption, <1>1
    DEF Times, IInv, TypeOK, ValuesOK, Exchange, Fed, Running, host, clocks, firmware, Capped
<1>2. CASE Connect
  BY <1>2 DEF Connect
<1>3. ASSUME NEW p, Transmit(p), pc = "run" PROVE Exchange' /\ Fed'
  BY <1>3 DEF Transmit
<1>4. CASE Dispatch \/ Heartbeat
  BY <1>3, <1>4 DEF Dispatch, Heartbeat
<1>5. CASE ReadAnswer
  <2>1. down = << >> /\ up = <<"K">> /\ target = sent /\ silence = 0
    BY <1>5 DEF ReadAnswer
  <2>2. Head(up) = "K" /\ up' = << >>
    BY <1>5, <2>1 DEF ReadAnswer
  <2>3. last_valid_angles' = target /\ UNCHANGED <<age, silence, down, firmware>>
    BY <1>5, <2>1, <2>2 DEF ReadAnswer, Cached
  <2>4. Resume(TRUE)
    BY <1>5, <2>2 DEF ReadAnswer, MeansHalt
  <2>5. pc' \in {"run", "pause"} /\ waited' = 0
    BY <2>4 DEF Resume
  <2>6. Exchange'
    <3>1. Len(down') + Len(up') <= 1
      BY <2>1, <2>2, <2>3
    <3>2. parser' = "start" /\ (Running => ~halted) /\ UNCHANGED <<halted, target>>
      BY <2>3
    <3>3. ~halted
      BY <1>5, <3>2 DEF ReadAnswer
    <3>4. up' = << >> /\ down' = << >> /\ last_valid_angles' = target'
      BY <2>1, <2>2, <2>3
    <3> QED BY <2>5, <3>1, <3>2, <3>3, <3>4
  <2>7. age = 0
    BY <1>5 DEF ReadAnswer
  <2> QED BY <2>1, <2>3, <2>5, <2>6, <2>7
<1>6. CASE ReadTimeout \/ BurstAnswer \/ Confirm
  <2>1. ~ReadTimeout
    BY DEF ReadTimeout
  <2>2. ~BurstAnswer /\ ~Confirm
    BY DEF BurstAnswer, Confirm
  <2> QED BY <1>6, <2>1, <2>2
<1>7. CASE Wake
  BY <1>7 DEF Wake
<1>8. CASE Quit \/ Restart \/ UNCHANGED vars
  BY <1>8 DEF Quit, Restart, vars
<1>9. CASE Arrive
  BY <1>9 DEF Arrive, Obey
<1>10. CASE Trip
  BY <1>10 DEF Trip, TripDue
<1>11. CASE Tick
  <2>1. down = << >>
    BY <1>11 DEF Tick, Fault
  <2>2. UNCHANGED <<host, down, up, firmware>>
    BY <1>11 DEF Tick
  <2>3. pc # "read" /\ pc # "burst" /\ pc # "prompt"
    <3>1. pc = "read" => up = << >>
      BY <1>11 DEF Tick, HostWaits
    <3>2. ASSUME pc = "read" PROVE down # << >> \/ up # << >>
      <4>1. CASE down = <<sent>>
        BY <4>1
      <4>2. CASE up = <<"K">>
        BY <4>2
      <4> QED BY <3>2, <4>1, <4>2
    <3>3. pc \notin {"burst", "prompt"}
      OBVIOUS
    <3> QED BY <2>1, <3>1, <3>2, <3>3
  <2>4. \/ pc = "pause" /\ waited < PAUSE
        \/ pc = "run" /\ age <= IDLE_KEEPALIVE
        \/ pc \in {"dead", "connect"}
    BY <1>11, <2>3 DEF Tick, HostWaits, IdleDue
  <2>5. Exchange'
    BY <2>2, <2>4
  <2>6. /\ age' = IF age + 1 < 2 * IDLE_KEEPALIVE + 1 THEN age + 1 ELSE 2 * IDLE_KEEPALIVE + 1
        /\ waited' = IF waited + 1 < PAUSE + SERIAL_TIMEOUT
                       THEN waited + 1 ELSE PAUSE + SERIAL_TIMEOUT
        /\ silence' <= silence + 1
    BY <1>11 DEF Tick
  <2>7. CASE pc = "pause" /\ waited < PAUSE
    <3>1. waited' = waited + 1 /\ age' = age + 1
      BY <2>6, <2>7
    <3>2. pc' = "pause" /\ silence' \in Nat
      BY <2>2, <2>7, ValuesStep
    <3>3. silence <= waited /\ silence <= age /\ age <= waited /\ waited + 1 <= PAUSE
      BY <2>7
    <3>4. /\ silence' <= waited' /\ silence' <= age'
          /\ waited' <= PAUSE /\ age' <= waited'
      <4> HIDE DEF IInv
      <4>1. silence \in Nat /\ waited \in Nat /\ age \in Nat
        BY DEF IInv
      <4> QED BY <2>6, <3>1, <3>2, <3>3, <4>1
    <3> QED BY <2>5, <3>2, <3>4
  <2>8. CASE pc = "run" /\ age <= IDLE_KEEPALIVE
    <3>1. age' = age + 1 /\ silence <= age
      BY <2>6, <2>8
    <3>2. pc' = "run" /\ silence' \in Nat
      BY <2>2, <2>8, ValuesStep
    <3>3. silence' <= age' /\ age' <= IDLE_KEEPALIVE + 1
      <4> HIDE DEF IInv
      <4>1. silence \in Nat /\ age \in Nat
        BY DEF IInv
      <4> QED BY <2>6, <2>8, <3>1, <3>2, <4>1
    <3> QED BY <2>5, <3>2, <3>3
  <2>9. CASE pc \in {"dead", "connect"}
    BY <2>2, <2>9
  <2> QED BY <2>4, <2>5, <2>7, <2>8, <2>9
<1> QED BY <1>2, <1>4, <1>5, <1>6, <1>7, <1>8, <1>9, <1>10, <1>11 DEF Next, Host

LEMMA NextOK ==
  ASSUME Times, IInv, [Next]_vars
  PROVE  IInv'
BY FlagsStep, ValuesStep, ExchangeStep DEF IInv, TypeOK

\* As long as the line has not failed host and firmware are in step, the
\* watchdog is fed and nobody is asked for an inspection
\* (conductor_host.py:54-192).
THEOREM HostSafe ==
  ASSUME Times
  PROVE  Spec => []HostInv
<1>1. IInv /\ [Next]_vars => IInv'
  BY NextOK
<1>2. IInv => HostInv
  BY DEF IInv, HostInv, InStep, KeepsAlive, Exchange, Running, TypeOK, ValuesOK
<1> QED BY InitOK, <1>1, <1>2, PTL DEF Spec
-----------------------------------------------------------------------------
(***************************************************************************)
(* One fault of the line.  The host stays at most one answer behind, and   *)
(* if the firmware halts it learns of it before the third of its frames.   *)
(***************************************************************************)
\* The same order of times when a read has timed out before the keep-alive;
\* two answers too many do not hide a halt.
LateTimes == Times /\ IDLE_KEEPALIVE + SERIAL_TIMEOUT < WATCHDOG /\ 3 <= BURST

\* The firmware has had the pose, or has it next and is sure to take it.
Coming(p) == /\ \E i \in DOMAIN down : down[i] = p
             /\ parser = "start" /\ ~halted /\ silence <= WATCHDOG
Known(p) == p \in accepted \/ Coming(p)

Unread(a) == \E i \in DOMAIN up : up[i] = a
OnLine == Len(down) + Len(up)

Reading == pc = "read" =>
  /\ waited <= SERIAL_TIMEOUT
  /\ \/ down = << >> /\ up = << >>
     \/ parser = "start" /\ OnLine = 1
     \/ parser = "start" /\ OnLine = 2 /\ waited = 0
  /\ down # << >> => down[Len(down)] = sent
  /\ Unread("K") => Known(sent)

Resting == pc \in {"run", "pause"} => parser = "start" /\ OnLine <= 1

\* The frames have come in time,
InTime ==
  /\ ~halted /\ ~Unread("H")
  /\ pc = "read" => /\ silence <= IDLE_KEEPALIVE + 1 + waited
                    /\ down = << >> /\ up # << >> => silence = 0
  /\ pc \in {"run", "pause"} => /\ silence <= IDLE_KEEPALIVE + 1
                                /\ silence <= age \/ down # << >>
  /\ pc = "pause" => silence <= waited \/ down # << >>

\* or a damaged one was answered by an error and none has been accepted since.
Lapsed ==
  /\ pc = "read" => OnLine >= 1 /\ waited = 0
  /\ parser = "start" /\ ~Unread("K")
  /\ Unread("H") => halted
  /\ halted => count <= Len(up) /\ \A i \in DOMAIN up : i > Len(up) - count => up[i] = "H"

\* or an acceptance was damaged into an 'H'.
Misread == pc = "read" /\ down = << >> /\ up = <<"H">> /\ parser = "start"
           /\ ~halted /\ silence = 0 /\ waited = 0

Prompting == pc = "prompt" =>
  /\ OnLine <= 1
  /\ parser # "start" => down = << >> /\ up = << >>
  /\ halted => count <= Len(up) + 1

\* In the burst a 'K' from before it can only be read first.
Bursting == pc = "burst" =>
  /\ OnLine \in {1, 2} /\ waited = 0 /\ burst >= 1
  /\ parser # "start" => up = << >> /\ burst = 1 /\ OnLine = 1
  /\ halted \/ silence > 0 => \A i \in DOMAIN up : up[i] = "K" => i = 1 /\ burst = 1
  /\ \A i, j \in DOMAIN up : i < j /\ up[i] = "K" /\ up[j] = "H" => i = 1 /\ burst = 1

Order == /\ Reading /\ Resting /\ Prompting /\ Bursting
         /\ Running => InTime \/ Lapsed \/ Misread
OneFault == Order /\ Known(last_valid_angles)

FInv == /\ IInv
        /\ faults = 0 => last_valid_angles \in accepted /\ target \in accepted
        /\ faults = 1 => OneFault

\* What the end and the rest of a sequence hold.
LEMMA AppendAt ==
  ASSUME NEW S, NEW s \in Seq(S), NEW a \in S, NEW t, t = Append(s, a)
  PROVE  /\ t \in Seq(S) /\ Len(t) = Len(s) + 1 /\ t # << >> /\ t[Len(s) + 1] = a
         /\ DOMAIN t = 1 .. Len(s) + 1 /\ DOMAIN s = 1 .. Len(s) /\ Len(s) \in Nat
         /\ \A i \in 1 .. Len(s) : t[i] = s[i]
OBVIOUS

LEMMA TailAt ==
  ASSUME NEW S, NEW s \in Seq(S), s # << >>, NEW t, t = Tail(s)
  PROVE  /\ t \in Seq(S) /\ Len(t) = Len(s) - 1 /\ Len(s) \in Nat \ {0} /\ Head(s) = s[1]
         /\ DOMAIN t = 1 .. Len(s) - 1 /\ DOMAIN s = 1 .. Len(s)
         /\ \A i \in 1 .. Len(s) - 1 : t[i] = s[i + 1]
OBVIOUS

\* A step that costs no fault damages nothing and takes no time while a frame
\* is on the line.
LEMMA LineWorks ==
  ASSUME TypeOK, [Next]_vars, faults' = faults
  PROVE  ~ArriveDamaged /\ ~AnswerDamaged /\ (Tick => down = << >>)
BY DEF ArriveDamaged, AnswerDamaged, Tick, Fault, TypeOK, ValuesOK

LEMMA FaultsCount ==
  ASSUME TypeOK, [Next]_vars
  PROVE  faults' = faults \/ faults' = faults + 1
<1>1. CASE Connect \/ Dispatch \/ Heartbeat \/ ReadAnswer \/ ReadTimeout \/ BurstAnswer \/ Wake
  BY <1>1 DEF Connect, Dispatch, Heartbeat, Transmit, ReadAnswer, ReadTimeout, BurstAnswer, Wake
<1>2. CASE Confirm \/ Quit \/ Restart \/ Arrive \/ Trip \/ UNCHANGED vars
  BY <1>2 DEF Confirm, Quit, Restart, Arrive, Trip, vars
<1>3. CASE Tick \/ ArriveDamaged \/ AnswerDamaged
  BY <1>3 DEF Tick, ArriveDamaged, AnswerDamaged, Fault
<1> QED BY <1>1, <1>2, <1>3 DEF Next, Host

\* What an undisturbed parser makes of the next frame.
LEMMA FrameArrives ==
  ASSUME TypeOK, Arrive, parser = "start"
  PROVE  /\ down # << >> /\ down' = Tail(down) /\ parser' = "start"
         /\ UNCHANGED <<host, age, waited, clean, faults>>
         /\ \/ /\ halted /\ count + 1 < BURST /\ count' = count + 1 /\ up' = Append(up, "H")
               /\ UNCHANGED <<target, halted, booted, silence, accepted>>
            \/ /\ halted => count + 1 >= BURST
               /\ count' = 0 /\ up' = Append(up, "K")
               /\ target' = Head(down) /\ ~halted' /\ booted' /\ silence' = 0
               /\ accepted' = accepted \cup {Head(down)}
<1>1. Obey(Head(down), << >>)
  BY DEF Arrive
<1>2. up \o << >> = up /\ up \o <<"H">> = Append(up, "H") /\ up \o <<"K">> = Append(up, "K")
  BY DEF TypeOK, ValuesOK
<1>3. (up \o << >>) \o <<"H">> = Append(up, "H") /\ (up \o << >>) \o <<"K">> = Append(up, "K")
  BY <1>2
<1>4. down # << >> /\ down' = Tail(down) /\ parser' = "start"
      /\ UNCHANGED <<host, age, waited, clean, faults>>
  BY DEF Arrive
<1>5. CASE halted /\ count + 1 < BURST
  BY <1>1, <1>3, <1>4, <1>5 DEF Obey
<1>6. CASE ~(halted /\ count + 1 < BURST)
  <2>1. halted => count + 1 >= BURST
    BY <1>6, CountsAssumption DEF TypeOK, ValuesOK
  <2> QED BY <1>1, <1>3, <1>4, <1>6, <2>1 DEF Obey
<1> QED BY <1>5, <1>6

\* What a parser that a damaged frame has left behind makes of it.
LEMMA BrokenFrameArrives ==
  ASSUME TypeOK, Arrive, parser # "start", up = << >>
  PROVE  /\ down # << >> /\ down' = Tail(down) /\ parser' = "start"
         /\ UNCHANGED <<host, age, waited, clean, faults>>
         /\ \/ /\ up' = <<"E">> /\ UNCHANGED <<target, halted, booted, silence, accepted>>
            \/ /\ halted /\ up' = <<"E", "H">>
               /\ UNCHANGED <<target, halted, booted, silence, accepted>>
            \/ /\ up' = <<"E", "K">>
               /\ ~halted' /\ silence' = 0 /\ accepted' = accepted \cup {Head(down)}
<1>1. down # << >> /\ down' = Tail(down) /\ parser' = "start"
      /\ UNCHANGED <<host, age, waited, clean, faults>>
  BY DEF Arrive
<1>2. CASE parser = "payload"
  <2>1. Obey(Head(down), <<"E">>)
    BY <1>2 DEF Arrive
  <2>2. (up \o <<"E">>) \o <<"H">> = <<"E", "H">> /\ (up \o <<"E">>) \o <<"K">> = <<"E", "K">>
    <3>1. << >> \o <<"E">> = <<"E">>
      OBVIOUS
    <3>2. ASSUME NEW S, NEW a \in S, NEW b \in S PROVE <<a>> \o <<b>> = <<a, b>>
      <4>1. <<a>> \in Seq(S) /\ <<b>> \in Seq(S) /\ Len(<<a>>) = 1 /\ Len(<<b>>) = 1
        OBVIOUS
      <4> DEFINE c == <<a>> \o <<b>>
      <4>2. c \in Seq(S) /\ Len(c) = 2 /\ c[1] = a /\ c[2] = b
        BY <4>1, ConcatProperties
      <4>3. <<a, b>> \in Seq(S) /\ Len(<<a, b>>) = 2 /\ <<a, b>>[1] = a /\ <<a, b>>[2] = b
        OBVIOUS
      <4>4. \A i \in 1 .. 2 : c[i] = <<a, b>>[i]
        BY <4>2, <4>3
      <4> HIDE DEF c
      <4>5. c = <<a, b>>
        BY <4>2, <4>3, <4>4, SeqEqual
      <4> QED BY <4>5 DEF c
    <3>3. "E" \in Letter /\ "H" \in Letter /\ "K" \in Letter
      BY DEF Letter
    <3>4. <<"E">> \o <<"H">> = <<"E", "H">> /\ <<"E">> \o <<"K">> = <<"E", "K">>
      BY <3>2, <3>3
    <3> QED BY <3>1, <3>4
  <2> QED BY <1>1, <2>1, <2>2 DEF Obey
<1>3. CASE parser = "checksum"
  BY <1>1, <1>3 DEF Arrive
<1> QED BY <1>2, <1>3 DEF TypeOK, ValuesOK

\* A pose stays known as long as the line works and the controller is not reset.
LEMMA KnownStays ==
  ASSUME TypeOK, [Next]_vars, faults' = faults, ~Connect, NEW p, Known(p)
  PROVE  Known(p)'
<1> USE DEF Known, host, clocks, firmware
<1>0. down \in Seq(Pose) /\ last_valid_angles \in Pose
  BY DEF TypeOK, ValuesOK
<1>1. CASE Arrive
  <2>1. CASE p \in accepted
    BY <1>1, <2>1 DEF Arrive, Obey
  <2>2. CASE p \notin accepted
    <3>1. PICK i \in DOMAIN down : down[i] = p
      BY <2>2 DEF Coming
    <3>2. parser = "start" /\ ~halted /\ silence <= WATCHDOG
      BY <2>2 DEF Coming
    <3>3. /\ down # << >> /\ down' = Tail(down) /\ parser' = "start" /\ ~halted' /\ silence' = 0
          /\ accepted' = accepted \cup {Head(down)}
      BY <1>1, <3>2, FrameArrives
    <3>4. CASE i = 1
      BY <1>0, <3>1, <3>3, <3>4, TailAt
    <3>5. CASE i # 1
      <4>1. i - 1 \in DOMAIN down' /\ down'[i - 1] = p
        BY <1>0, <3>1, <3>3, <3>5, TailAt
      <4>2. 0 <= WATCHDOG
        BY TimesAssumption
      <4> QED BY <3>3, <4>1, <4>2 DEF Coming
    <3> QED BY <3>4, <3>5
  <2> QED BY <2>1, <2>2
<1>2. ASSUME UNCHANGED <<accepted, parser, halted, silence>>,
             down' = down \/ \E q \in Pose : down' = Append(down, q)
      PROVE  Known(p)'
  <2>1. ASSUME NEW i \in DOMAIN down, down[i] = p PROVE i \in DOMAIN down' /\ down'[i] = p
    BY <1>0, <1>2, <2>1, AppendAt
  <2> QED BY <1>2, <2>1 DEF Coming
<1>3. CASE Dispatch \/ Heartbeat
  <2>1. PICK q \in Pose : Transmit(q)
    BY <1>0, <1>3 DEF Dispatch, Heartbeat
  <2> QED BY <1>2, <2>1 DEF Transmit
<1>4. CASE ReadAnswer \/ ReadTimeout \/ Wake \/ Quit \/ Restart \/ UNCHANGED vars
  BY <1>2, <1>4 DEF ReadAnswer, ReadTimeout, Wake, Quit, Restart, vars
<1>5. CASE Confirm
  BY <1>0, <1>2, <1>5 DEF Confirm, WriteBurst
<1>6. CASE BurstAnswer
  BY <1>0, <1>2, <1>6 DEF BurstAnswer, WriteBurst
<1>7. CASE Trip
  <2>1. ~Coming(p)
    BY <1>7, TimesAssumption DEF Trip, TripDue, Coming, TypeOK, ValuesOK
  <2> QED BY <1>7, <2>1 DEF Trip
<1>8. CASE Tick
  <2>1. ~Coming(p)
    BY <1>8, LineWorks DEF Coming
  <2> QED BY <1>8, <2>1 DEF Tick
<1> QED BY <1>1, <1>3, <1>4, <1>5, <1>6, <1>7, <1>8, LineWorks DEF Next, Host

-----------------------------------------------------------------------------
\* The order of the line, action by action, when none of them is a fault.
LEMMA OrderConnect ==
  ASSUME LateTimes, TypeOK, Connect
  PROVE  OneFault'
<1> USE TimesAssumption DEF Connect, OnLine, Unread
<1>1. /\ down' = <<Home>> /\ Len(down') = 1 /\ down'[1] = Home /\ down' # << >>
      /\ up' = << >> /\ Len(up') = 0 /\ DOMAIN up' = {}
  OBVIOUS
<1>2. Known(last_valid_angles)'
  BY DEF Known
<1>3. Reading' /\ Resting' /\ Prompting' /\ Bursting'
  BY <1>1 DEF Reading, Resting, Prompting, Bursting
<1>4. InTime'
  BY <1>1 DEF InTime
<1> QED BY <1>2, <1>3, <1>4 DEF OneFault, Order

LEMMA OrderTransmit ==
  ASSUME LateTimes, TypeOK, Order, pc = "run", NEW p \in Pose, Transmit(p)
  PROVE  Order'
<1> USE TimesAssumption DEF LateTimes, Times, firmware
<1>1. /\ sent' = p /\ down' = Append(down, p) /\ age' = 0 /\ waited' = 0 /\ pc' = "read"
      /\ UNCHANGED <<silence, up, parser, halted, count, accepted>>
  BY DEF Transmit
<1>2. /\ down' # << >> /\ Len(down') = Len(down) + 1 /\ down'[Len(down')] = p /\ Len(down') \in DOMAIN down'
      /\ Len(down) \in Nat /\ Len(up) \in Nat
  BY <1>1, AppendAt DEF TypeOK, ValuesOK
<1>3. parser = "start" /\ OnLine <= 1 /\ OnLine \in Nat /\ OnLine' = OnLine + 1
  BY <1>1, <1>2 DEF Order, Resting, OnLine
<1>4. OnLine' \in {1, 2}
  BY <1>3
<1>5. (Unread("K") <=> Unread("K")') /\ (Unread("H") <=> Unread("H")')
  BY <1>1 DEF Unread
<1>6. InTime \/ Lapsed
  BY DEF Order, Running, Misread
<1>7. InTime => InTime'
  BY <1>1, <1>2, <1>5 DEF InTime, TypeOK, ValuesOK
<1>8. Lapsed => Lapsed'
  BY <1>1, <1>4, <1>5 DEF Lapsed
<1>9. Unread("K") => Known(p)'
  <2>1. SUFFICES ASSUME Unread("K") PROVE Coming(p)'
    BY DEF Known
  <2>2. InTime
    BY <1>6, <2>1 DEF Lapsed
  <2>3. ~halted /\ silence <= IDLE_KEEPALIVE + 1
    BY <2>2 DEF InTime
  <2>4. silence <= WATCHDOG
    BY <2>3 DEF TypeOK, ValuesOK
  <2> QED BY <1>1, <1>2, <1>3, <2>3, <2>4 DEF Coming
<1>10. Reading'
  <2>1. Known(p)' => Known(sent)'
    BY <1>1 DEF Known, Coming
  <2> QED BY <1>1, <1>2, <1>3, <1>4, <1>5, <1>9, <2>1 DEF Reading
<1> QED BY <1>1, <1>6, <1>7, <1>8, <1>10 DEF Order, Resting, Prompting, Bursting, Running

\* The answer that is read makes room on the line.
LEMMA OrderRead ==
  ASSUME LateTimes, TypeOK, Order, ReadAnswer
  PROVE  Order' /\ (Head(up) = "K" => Known(sent))
<1> USE TimesAssumption DEF LateTimes, Times, firmware
<1>0. up \in Seq(Letter) /\ up # << >> /\ up' = Tail(up) /\ pc = "read"
      /\ UNCHANGED <<down, silence, parser, halted, count>>
  BY DEF ReadAnswer, TypeOK, ValuesOK
<1>1. /\ Len(up') = Len(up) - 1 /\ Len(up) \in Nat \ {0} /\ Head(up) = up[1]
      /\ DOMAIN up' = 1 .. Len(up) - 1 /\ DOMAIN up = 1 .. Len(up)
      /\ \A i \in 1 .. Len(up) - 1 : up'[i] = up[i + 1]
  BY <1>0, TailAt
<1>2. Unread(Head(up)) /\ (Unread("K")' => Unread("K")) /\ (Unread("H")' => Unread("H"))
  <2>1. 1 \in DOMAIN up /\ \A i \in DOMAIN up' : i + 1 \in DOMAIN up /\ up'[i] = up[i + 1]
    BY <1>1
  <2> QED BY <1>1, <2>1 DEF Unread
<1>3. Len(down) \in Nat /\ (down # << >> => Len(down) > 0)
  BY DEF TypeOK, ValuesOK
<1>4. OnLine \in {1, 2} /\ OnLine' = OnLine - 1 /\ parser = "start"
      /\ (OnLine = 2 => waited = 0)
  BY <1>0, <1>1, <1>3 DEF Order, Reading, OnLine
<1>5. Head(up) = "K" => Known(sent)
  BY <1>0, <1>2 DEF Order, Reading
<1>6. InTime \/ Lapsed \/ Misread
  BY <1>0 DEF Order, Running
<1>7. CASE MeansHalt(Head(up))
  <2>1. pc' = "prompt"
    BY <1>7 DEF ReadAnswer
  <2>2. ~halted \/ Lapsed
    BY <1>6 DEF InTime, Misread
  <2>3. halted => count <= Len(up') + 1
    BY <1>1, <2>2 DEF Lapsed, TypeOK, ValuesOK
  <2>4. Prompting'
    BY <1>0, <1>4, <2>3 DEF Prompting
  <2> QED BY <1>5, <2>1, <2>4 DEF Order, Reading, Resting, Bursting, Running
<1>8. CASE ~MeansHalt(Head(up))
  <2>0. Head(up) # "H" /\ ~Misread
    <3>1. Head(up) # "H"
      BY <1>8 DEF MeansHalt
    <3>2. up = <<"H">> => Head(up) = "H"
      OBVIOUS
    <3> QED BY <3>1, <3>2 DEF Misread
  <2>1. Resume(Head(up) = "K") /\ UNCHANGED age
    BY <1>8 DEF ReadAnswer
  <2>2. pc' \in {"run", "pause", "dead"} /\ waited' = 0
    BY <2>1 DEF Resume
  <2>3. Resting'
    BY <1>0, <1>4 DEF Resting
  <2>4. InTime => InTime'
    <3>1. SUFFICES ASSUME InTime PROVE InTime'
      OBVIOUS
    <3>2. ~halted' /\ ~Unread("H")'
      BY <1>0, <1>2, <3>1 DEF InTime
    <3>3. silence \in Nat /\ waited \in Nat /\ age \in Nat
      BY DEF TypeOK, ValuesOK
    <3>4. silence <= IDLE_KEEPALIVE + 1 /\ (silence = 0 \/ down # << >>)
      <4>1. CASE down = << >>
        BY <1>0, <3>1, <4>1 DEF InTime
      <4>2. CASE down # << >>
        <5>1. waited = 0
          BY <1>1, <1>3, <1>4, <4>2 DEF OnLine
        <5> QED BY <1>0, <3>1, <3>3, <4>2, <5>1 DEF InTime
      <4> QED BY <4>1, <4>2
    <3> QED BY <1>0, <2>1, <2>2, <3>2, <3>3, <3>4 DEF InTime
  <2>5. Lapsed => Lapsed'
    <3>1. SUFFICES ASSUME Lapsed PROVE Lapsed'
      OBVIOUS
    <3>2. parser' = "start" /\ ~Unread("K")' /\ (Unread("H")' => halted')
      BY <1>0, <1>2, <3>1 DEF Lapsed
    <3>3. ASSUME halted
          PROVE  count <= Len(up') /\ \A i \in DOMAIN up' : i > Len(up') - count => up'[i] = "H"
      <4>1. count \in Nat
        BY CountsAssumption DEF TypeOK, ValuesOK
      <4>2. count <= Len(up) /\ \A i \in DOMAIN up : i > Len(up) - count => up[i] = "H"
        BY <3>1, <3>3 DEF Lapsed
      <4>3. count # Len(up)
        BY <1>1, <2>0, <4>1, <4>2
      <4>4. ASSUME NEW i \in DOMAIN up', i > Len(up') - count PROVE up'[i] = "H"
        <5>1. i + 1 \in DOMAIN up /\ i + 1 > Len(up) - count /\ up'[i] = up[i + 1]
          BY <1>1, <4>1, <4>4
        <5> QED BY <4>2, <5>1
      <4> QED BY <1>1, <4>1, <4>2, <4>3, <4>4
    <3> QED BY <1>0, <2>2, <3>2, <3>3 DEF Lapsed
  <2> QED BY <1>5, <1>6, <2>0, <2>2, <2>3, <2>4, <2>5
          DEF Order, Reading, Prompting, Bursting, Running
<1> QED BY <1>7, <1>8

LEMMA OrderTimeout ==
  ASSUME LateTimes, TypeOK, Order, ReadTimeout
  PROVE  Order'
<1> USE TimesAssumption DEF LateTimes, Times, firmware
<1>0. /\ pc = "read" /\ up = << >> /\ waited >= SERIAL_TIMEOUT /\ pc' = "prompt"
      /\ UNCHANGED <<up, down, parser, halted, count, silence>>
  BY DEF ReadTimeout
<1>1. Len(up) = 0 /\ Len(down) \in Nat
  BY <1>0 DEF TypeOK, ValuesOK
<1>2. OnLine <= 1 /\ (parser # "start" => down = << >>)
  BY <1>0, <1>1 DEF Order, Reading, OnLine, TypeOK, ValuesOK
<1>3. halted => count <= 0
  <2>1. InTime \/ Lapsed \/ ~halted
    BY <1>0 DEF Order, Running, Misread
  <2>2. ~Lapsed \/ (halted => count <= Len(up))
    BY DEF Lapsed
  <2> QED BY <1>1, <2>1, <2>2 DEF InTime
<1>4. Prompting'
  BY <1>0, <1>1, <1>2, <1>3, CountsAssumption DEF Prompting, OnLine, TypeOK, ValuesOK
<1> QED BY <1>0, <1>4 DEF Order, Reading, Resting, Bursting, Running

LEMMA OrderWake ==
  ASSUME LateTimes, TypeOK, Order, Wake
  PROVE  Order'
<1> USE TimesAssumption DEF LateTimes, Times, firmware
<1>0. /\ pc = "pause" /\ pc' = "run" /\ UNCHANGED <<up, down, parser, halted, count, silence, age>>
  BY DEF Wake
<1>1. Unread("K")' = Unread("K") /\ Unread("H")' = Unread("H") /\ OnLine' = OnLine
  BY <1>0 DEF Unread, OnLine
<1>2. InTime => InTime'
  BY <1>0, <1>1 DEF InTime
<1>3. Lapsed => Lapsed'
  BY <1>0, <1>1 DEF Lapsed
<1> QED BY <1>0, <1>1, <1>2, <1>3 DEF Order, Misread, Reading, Resting, Prompting, Bursting, Running

LEMMA OrderConfirm ==
  ASSUME LateTimes, TypeOK, Order, Confirm
  PROVE  Order'
<1> USE TimesAssumption DEF LateTimes, Times, firmware
<1>0. /\ pc = "prompt" /\ pc' = "burst" /\ burst' = 1 /\ waited' = 0
      /\ down' = Append(down, last_valid_angles) /\ UNCHANGED <<up, parser, halted, count, silence>>
  BY DEF Confirm, WriteBurst
<1>1. Len(down') = Len(down) + 1 /\ Len(down) \in Nat /\ Len(up) \in Nat
      /\ DOMAIN up = 1 .. Len(up)
  BY <1>0, AppendAt DEF TypeOK, ValuesOK
<1>2. OnLine <= 1 /\ (parser # "start" => down = << >> /\ up = << >>)
  BY <1>0 DEF Order, Prompting
<1>3. OnLine' \in {1, 2} /\ Len(up) <= 1
  BY <1>0, <1>1, <1>2 DEF OnLine
<1>4. parser # "start" => up' = << >> /\ OnLine' = 1
  BY <1>0, <1>1, <1>2 DEF OnLine
<1>5. \A i \in DOMAIN up' : i = 1
  BY <1>0, <1>1, <1>3
<1>6. Bursting'
  BY <1>0, <1>3, <1>4, <1>5 DEF Bursting
<1> QED BY <1>0, <1>6 DEF Order, Reading, Resting, Prompting, Running

\* The next frame of the burst takes the place of the answer that was read; the
\* acceptance of the last one leaves a firmware that runs and has just been fed.
LEMMA OrderBurst ==
  ASSUME LateTimes, TypeOK, Order, BurstAnswer
  PROVE  Order'
<1> USE TimesAssumption DEF LateTimes, Times, firmware
<1>0. pc = "burst" /\ OnLine \in {1, 2} /\ waited = 0 /\ burst >= 1
  BY DEF Order, Bursting, BurstAnswer
<1>1. up \in Seq(Letter) /\ up # << >> /\ up' = Tail(up)
      /\ UNCHANGED <<parser, halted, count, silence>>
  BY <1>0 DEF BurstAnswer, TypeOK, ValuesOK
<1>2. /\ Len(up') = Len(up) - 1 /\ Len(up) \in Nat \ {0} /\ Head(up) = up[1]
      /\ DOMAIN up' = 1 .. Len(up) - 1 /\ DOMAIN up = 1 .. Len(up)
      /\ \A i \in 1 .. Len(up) - 1 : up'[i] = up[i + 1]
  BY <1>1, TailAt
<1>3. parser = "start" /\ Len(down) \in Nat
  BY <1>0, <1>1 DEF Order, Bursting, TypeOK, ValuesOK
<1>4. \A i \in DOMAIN up' : i + 1 \in DOMAIN up /\ up'[i] = up[i + 1] /\ i + 1 # 1 /\ i \in Nat
  BY <1>2
<1>5. halted \/ silence > 0 => \A i \in DOMAIN up' : up'[i] # "K"
  BY <1>0, <1>4 DEF Order, Bursting
<1>6. \A i, j \in DOMAIN up' : i < j => ~(up'[i] = "K" /\ up'[j] = "H")
  <2>1. ASSUME NEW i \in DOMAIN up', NEW j \in DOMAIN up', i < j, up'[i] = "K", up'[j] = "H"
        PROVE  FALSE
    <3>1. /\ i + 1 \in DOMAIN up /\ j + 1 \in DOMAIN up /\ i + 1 < j + 1
          /\ up[i + 1] = "K" /\ up[j + 1] = "H" /\ i + 1 # 1
      BY <1>4, <2>1
    <3> QED BY <1>0, <3>1 DEF Order, Bursting
  <2> QED BY <2>1
<1>7. CASE ~BurstWritten
  <2>1. pc' = "burst" /\ burst' = burst + 1 /\ waited' = 0 /\ down' = Append(down, last_valid_angles)
    BY <1>7 DEF BurstAnswer, WriteBurst
  <2>2. Len(down') = Len(down) + 1
    BY <2>1, AppendAt DEF TypeOK, ValuesOK
  <2>3. OnLine' \in {1, 2}
    BY <1>0, <1>2, <1>3, <2>2 DEF OnLine
  <2>4. burst' >= 1
    BY <1>0, <2>1 DEF TypeOK, ValuesOK
  <2>5. Bursting'
    BY <1>1, <1>3, <1>5, <1>6, <2>1, <2>3, <2>4 DEF Bursting
  <2> QED BY <2>1, <2>5 DEF Order, Reading, Resting, Prompting, Running
<1>8. CASE BurstWritten
  <2>1. UNCHANGED down
    BY <1>8 DEF BurstAnswer
  <2>2. OnLine' <= 1
    BY <1>0, <1>2, <1>3, <2>1 DEF OnLine
  <2>3. CASE Head(up) # "K"
    <3>1. pc' = "dead"
      BY <1>1, <1>8, <2>3 DEF BurstAnswer
    <3> QED BY <3>1 DEF Order, Reading, Resting, Prompting, Bursting, Running
  <2>4. CASE Head(up) = "K"
    <3>1. pc' \in {"run", "pause", "dead"}
      BY <1>1, <1>8, <2>4 DEF BurstAnswer, Resume
    <3>2. burst >= 3
      BY <1>8, CountsAssumption DEF BurstWritten, TypeOK, ValuesOK
    <3>3. 1 \in DOMAIN up /\ up[1] = "K" /\ burst # 1
      BY <1>2, <2>4, <3>2 DEF TypeOK, ValuesOK
    <3>4. ~halted /\ ~(silence > 0)
      BY <1>0, <3>3 DEF Order, Bursting
    <3>5. ~Unread("H")'
      <4>1. ASSUME NEW i \in DOMAIN up', up'[i] = "H" PROVE FALSE
        <5>1. i + 1 \in DOMAIN up /\ 1 < i + 1 /\ up[i + 1] = "H"
          BY <1>2, <4>1
        <5> QED BY <1>0, <3>3, <5>1 DEF Order, Bursting
      <4> QED BY <4>1 DEF Unread
    <3>6. silence' = 0 /\ ~halted' /\ waited' \in Nat /\ age' \in Nat
      BY <1>1, <1>8, <2>4, <3>4 DEF BurstAnswer, Resume, TypeOK, ValuesOK
    <3>7. InTime'
      <4>1. silence' <= IDLE_KEEPALIVE + 1 /\ silence' <= age' /\ silence' <= waited'
        BY <3>6
      <4> QED BY <3>1, <3>5, <3>6, <4>1 DEF InTime
    <3> QED BY <1>1, <1>3, <2>2, <3>1, <3>7 DEF Order, Reading, Resting, Prompting, Bursting
  <2> QED BY <2>3, <2>4
<1> QED BY <1>7, <1>8

LEMMA OrderTrip ==
  ASSUME LateTimes, TypeOK, Order, Trip
  PROVE  Order'
<1> USE TimesAssumption DEF LateTimes, Times, host
<1>0. /\ ~halted /\ silence > WATCHDOG /\ halted' /\ count' = 0
      /\ UNCHANGED <<pc, sent, burst, up, down, parser, silence, age, waited, accepted>>
  BY DEF Trip, TripDue, clocks
<1>1. silence \in Nat /\ waited \in Nat /\ Len(up) \in Nat
  BY DEF TypeOK, ValuesOK
<1>2. OnLine' = OnLine /\ Unread("K")' = Unread("K") /\ Unread("H")' = Unread("H")
  BY <1>0 DEF OnLine, Unread
<1>3. Running => ~InTime
  <2>1. InTime /\ pc = "read" => FALSE
    <3>1. Reading
      BY DEF Order
    <3>2. pc = "read" => waited <= SERIAL_TIMEOUT
      BY <3>1 DEF Reading
    <3>3. InTime /\ pc = "read" => silence <= IDLE_KEEPALIVE + 1 + waited
      BY DEF InTime
    <3> QED BY <1>0, <1>1, <3>2, <3>3
  <2>2. InTime /\ pc \in {"run", "pause"} => silence <= IDLE_KEEPALIVE + 1
    BY DEF InTime
  <2> QED BY <1>0, <1>1, <2>1, <2>2 DEF Running
<1>4. Running => Lapsed
  BY <1>0, <1>1, <1>3, TimesAssumption DEF Order, Misread
<1>5. Lapsed => Lapsed'
  BY <1>0, <1>1, <1>2 DEF Lapsed
<1>6. Prompting' /\ Resting'
  BY <1>0, <1>1, <1>2 DEF Order, Prompting, Resting
<1>7. Bursting'
  BY <1>0, <1>1, <1>2 DEF Order, Bursting
<1>8. pc = "read" => ~Unread("K")
  BY <1>4 DEF Running, Lapsed
<1>9. Reading'
  BY <1>0, <1>2, <1>8 DEF Order, Reading
<1> QED BY <1>0, <1>4, <1>5, <1>6, <1>7, <1>9 DEF Order, Running

LEMMA OrderTick ==
  ASSUME LateTimes, TypeOK, Order, Tick, down = << >>
  PROVE  Order'
<1> USE TimesAssumption DEF LateTimes, Times, host, firmware
<1>0. /\ HostWaits
      /\ UNCHANGED <<pc, sent, burst, up, down, parser, halted, count, accepted>>
  BY DEF Tick
<1>1. silence \in Nat /\ waited \in Nat /\ age \in Nat /\ Len(up) \in Nat /\ Len(down) = 0
  BY DEF TypeOK, ValuesOK
<1>2. OnLine' = OnLine /\ Unread("K")' = Unread("K") /\ Unread("H")' = Unread("H")
  BY <1>0 DEF OnLine, Unread
<1>3. /\ waited' = IF waited + 1 < PAUSE + SERIAL_TIMEOUT
                      THEN waited + 1 ELSE PAUSE + SERIAL_TIMEOUT
      /\ age' = IF age + 1 < 2 * IDLE_KEEPALIVE + 1 THEN age + 1 ELSE 2 * IDLE_KEEPALIVE + 1
      /\ silence' <= silence + 1 /\ silence' \in Nat
  BY <1>1 DEF Tick, Capped
<1>4. CASE pc = "read"
  <2>1. up = << >> /\ waited < SERIAL_TIMEOUT
    BY <1>0, <1>4 DEF HostWaits
  <2>2. waited' = waited + 1 /\ waited' <= SERIAL_TIMEOUT
    BY <1>1, <1>3, <2>1
  <2>3. ~Lapsed
    BY <1>1, <1>4, <2>1 DEF Lapsed, OnLine
  <2>4. InTime
    BY <1>4, <2>1, <2>3 DEF Order, Running, Misread
  <2>5. silence' <= IDLE_KEEPALIVE + 1 + waited'
    BY <1>1, <1>3, <1>4, <2>2, <2>4 DEF InTime
  <2>6. InTime'
    BY <1>0, <1>2, <1>4, <2>1, <2>4, <2>5 DEF InTime
  <2>7. ~Unread("K")
    BY <2>1 DEF Unread
  <2>8. Reading'
    BY <1>0, <1>2, <2>1, <2>2, <2>7 DEF Reading
  <2> QED BY <1>0, <1>4, <2>6, <2>8 DEF Order, Resting, Prompting, Bursting, Running
<1>5. CASE pc \in {"run", "pause"}
  <2>1. InTime => silence' <= IDLE_KEEPALIVE + 1 /\ silence' <= age'
                  /\ (pc = "pause" => silence' <= waited')
    <3>1. CASE pc = "run"
      <4>1. age <= IDLE_KEEPALIVE
        BY <1>0, <1>1, <3>1 DEF HostWaits, IdleDue
      <4>2. age' = age + 1
        BY <1>1, <1>3, <4>1
      <4>3. InTime => silence <= age
        BY <3>1 DEF InTime
      <4> QED BY <1>1, <1>3, <3>1, <4>1, <4>2, <4>3
    <3>2. CASE pc = "pause"
      <4>1. waited < PAUSE
        BY <1>0, <3>2 DEF HostWaits
      <4>2. waited' = waited + 1
        BY <1>1, <1>3, <4>1
      <4>3. InTime => silence <= age /\ silence <= waited
        BY <3>2 DEF InTime
      <4>4. InTime => silence' <= waited' /\ silence' <= IDLE_KEEPALIVE + 1
        BY <1>1, <1>3, <4>1, <4>2, <4>3
      <4>5. InTime => silence' <= age'
        BY <1>1, <1>3, <4>3, <4>4
      <4> QED BY <4>4, <4>5
    <3> QED BY <1>5, <3>1, <3>2
  <2>2. InTime => InTime'
    BY <1>0, <1>2, <1>5, <2>1 DEF InTime
  <2>3. Lapsed => Lapsed'
    BY <1>0, <1>2, <1>5 DEF Lapsed
  <2> QED BY <1>0, <1>2, <1>5, <2>2, <2>3 DEF Order, Misread, Reading, Resting, Prompting, Bursting, Running
<1>6. CASE pc \in {"prompt", "dead"}
  BY <1>0, <1>2, <1>6 DEF Order, Reading, Resting, Prompting, Bursting, Running
<1>7. pc # "burst"
  BY <1>0, <1>1 DEF HostWaits, Order, Bursting, OnLine
<1> QED BY <1>0, <1>4, <1>5, <1>6, <1>7 DEF HostWaits

\* The firmware's answer takes the place of the frame.
LEMMA OrderArrive ==
  ASSUME LateTimes, TypeOK, Order, Arrive, parser = "start"
  PROVE  Order' /\ (pc \in {"run", "pause", "read", "prompt"} => (halted => halted'))
<1> USE TimesAssumption DEF LateTimes, Times, host
<1>0. /\ down # << >> /\ down' = Tail(down) /\ parser' = "start"
      /\ UNCHANGED <<pc, sent, burst, age, waited>>
  BY FrameArrives
<1>1. /\ silence \in Nat /\ waited \in Nat /\ count \in Nat /\ up \in Seq(Letter)
      /\ down \in Seq(Pose)
  BY CountsAssumption DEF TypeOK, ValuesOK
<1>2. /\ Len(down') = Len(down) - 1 /\ Len(down) \in Nat \ {0}
      /\ \A i \in 1 .. Len(down) - 1 : down'[i] = down[i + 1]
      /\ Head(down) = down[1] /\ DOMAIN down' = 1 .. Len(down) - 1
  BY <1>0, <1>1, TailAt
<1>11. "H" \in Letter /\ "K" \in Letter
  BY DEF Letter
<1>3. ASSUME NEW a \in Letter, up' = Append(up, a)
      PROVE  /\ Len(up') = Len(up) + 1 /\ Len(up) \in Nat /\ up'[Len(up) + 1] = a /\ up' # << >>
             /\ DOMAIN up' = 1 .. Len(up) + 1 /\ DOMAIN up = 1 .. Len(up)
             /\ \A i \in 1 .. Len(up) : up'[i] = up[i]
             /\ OnLine' = OnLine /\ OnLine \in Nat
  BY <1>1, <1>2, <1>3, AppendAt DEF OnLine
<1>4. pc = "read" => (down' # << >> => down'[Len(down')] = sent)
  <2>1. ASSUME pc = "read", down' # << >> PROVE down'[Len(down')] = sent
    <3>1. Len(down') > 0
      BY <1>0, <1>1, <2>1
    <3>2. down'[Len(down) - 1] = down[Len(down)] /\ down[Len(down)] = sent
      BY <1>0, <1>2, <2>1, <3>1 DEF Order, Reading
    <3> QED BY <1>2, <3>2
  <2> QED BY <2>1
<1>5. Running => InTime \/ Lapsed
  BY <1>0 DEF Order, Misread
<1>6. ASSUME Running \/ pc = "prompt", halted PROVE count + 1 < BURST
  <2>0. Len(up) \in Nat /\ BURST \in Nat
    BY <1>1, CountsAssumption
  <2>1. CASE Running
    <3>1. Lapsed
      BY <1>5, <1>6, <2>1 DEF InTime
    <3>2. count <= Len(up) /\ OnLine <= 2
      BY <1>6, <2>1, <3>1 DEF Lapsed, Order, Reading, Resting, Running, OnLine
    <3> QED BY <1>1, <1>2, <2>0, <3>2 DEF OnLine
  <2>2. CASE pc = "prompt"
    <3>1. OnLine <= 1 /\ count <= Len(up) + 1
      BY <1>6, <2>2 DEF Order, Prompting
    <3> QED BY <1>1, <1>2, <2>0, <3>1 DEF OnLine
  <2> QED BY <1>6, <2>1, <2>2
<1>7. CASE /\ halted /\ count' = count + 1 /\ up' = Append(up, "H")
           /\ UNCHANGED <<halted, silence, accepted>>
  <2>1. /\ Len(up') = Len(up) + 1 /\ Len(up) \in Nat /\ up'[Len(up) + 1] = "H"
        /\ DOMAIN up' = 1 .. Len(up) + 1 /\ DOMAIN up = 1 .. Len(up)
        /\ OnLine' = OnLine
        /\ \A i \in 1 .. Len(up) : up'[i] = up[i]
    BY <1>3, <1>7, <1>11
  <2>2. \A i \in DOMAIN up' : up'[i] = "K" => i \in DOMAIN up /\ up[i] = "K"
    BY <2>1
  <2>3. Unread("K")' => Unread("K")
    BY <2>2 DEF Unread
  <2>4. Lapsed => Lapsed'
    <3>1. SUFFICES ASSUME Lapsed PROVE Lapsed'
      OBVIOUS
    <3>2. count <= Len(up) /\ \A i \in DOMAIN up : i > Len(up) - count => up[i] = "H"
      BY <1>7, <3>1 DEF Lapsed
    <3>3. count' <= Len(up')
      BY <1>1, <1>7, <2>1, <3>2
    <3>4. ASSUME NEW i \in DOMAIN up', i > Len(up') - count' PROVE up'[i] = "H"
      BY <1>1, <1>7, <2>1, <3>2, <3>4
    <3> QED BY <1>0, <1>7, <2>1, <2>3, <3>1, <3>3, <3>4 DEF Lapsed
  <2>5. Running => Lapsed
    BY <1>5, <1>7 DEF InTime
  <2>6. Reading'
    <3>1. pc = "read" => ~Unread("K")'
      BY <2>3, <2>5 DEF Running, Lapsed
    <3>2. pc = "read" => OnLine = 1 \/ (OnLine = 2 /\ waited = 0)
      BY <1>0 DEF Order, Reading
    <3> QED BY <1>0, <1>4, <2>1, <3>1, <3>2 DEF Order, Reading
  <2>7. Resting' /\ Prompting'
    BY <1>0, <1>1, <1>7, <2>1 DEF Order, Resting, Prompting
  <2>8. Bursting'
    <3>1. pc = "burst" => \A i \in DOMAIN up' : up'[i] = "K" => i = 1 /\ burst = 1
      BY <1>7, <2>2 DEF Order, Bursting
    <3> QED BY <1>0, <2>1, <3>1 DEF Order, Bursting
  <2> QED BY <1>0, <1>7, <2>4, <2>5, <2>6, <2>7, <2>8 DEF Order, Running
<1>8. CASE /\ up' = Append(up, "K") /\ ~halted' /\ silence' = 0 /\ (halted => count + 1 >= BURST)
           /\ accepted' = accepted \cup {Head(down)}
  <2>1. /\ Len(up') = Len(up) + 1 /\ Len(up) \in Nat /\ up'[Len(up) + 1] = "K"
        /\ DOMAIN up' = 1 .. Len(up) + 1 /\ DOMAIN up = 1 .. Len(up)
        /\ OnLine' = OnLine /\ up' # << >>
        /\ \A i \in 1 .. Len(up) : up'[i] = up[i]
    BY <1>3, <1>8, <1>11
  <2>2. \A i \in DOMAIN up' : up'[i] = "H" => i \in DOMAIN up /\ up[i] = "H"
    BY <2>1
  <2>3. Unread("H")' => Unread("H")
    BY <2>2 DEF Unread
  <2>4. Running \/ pc = "prompt" => ~halted
    BY <1>1, <1>6, <1>8, CountsAssumption
  <2>5. Running => InTime'
    <3>1. Running => ~Unread("H")'
      BY <1>5, <2>3, <2>4 DEF InTime, Lapsed
    <3>2. silence' <= IDLE_KEEPALIVE + 1 + waited' /\ silence' <= IDLE_KEEPALIVE + 1
          /\ silence' <= age' /\ silence' <= waited'
      BY <1>0, <1>1, <1>8 DEF TypeOK, ValuesOK
    <3> QED BY <1>8, <3>1, <3>2 DEF InTime
  <2>6. Reading'
    <3>1. pc = "read" => Known(sent)'
      <4>1. CASE Len(down) = 1
        BY <1>0, <1>2, <1>8, <4>1 DEF Order, Reading, Known
      <4>2. CASE Len(down) # 1
        <5>1. Len(down') \in DOMAIN down'
          BY <1>2, <4>2
        <5>2. down' # << >>
          BY <5>1
        <5> QED BY <1>0, <1>4, <1>8, <5>1, <5>2 DEF Known, Coming
      <4> QED BY <4>1, <4>2
    <3>2. pc = "read" => OnLine = 1 \/ (OnLine = 2 /\ waited = 0)
      BY <1>0 DEF Order, Reading
    <3> QED BY <1>0, <1>4, <2>1, <3>1, <3>2 DEF Order, Reading
  <2>7. Resting' /\ Prompting'
    BY <1>0, <1>8, <2>1 DEF Order, Resting, Prompting
  <2>8. Bursting'
    <3>1. pc = "burst" => \A i, j \in DOMAIN up' : i < j /\ up'[i] = "K" /\ up'[j] = "H"
                                                  => i = 1 /\ burst = 1
      <4>1. ASSUME pc = "burst", NEW i \in DOMAIN up', NEW j \in DOMAIN up',
                   i < j, up'[i] = "K", up'[j] = "H"
            PROVE  i = 1 /\ burst = 1
        <5>1. j \in DOMAIN up /\ up[j] = "H" /\ i \in DOMAIN up /\ up[i] = "K"
          BY <2>1, <2>2, <4>1
        <5> QED BY <4>1, <5>1 DEF Order, Bursting
      <4> QED BY <4>1
    <3> QED BY <1>0, <1>8, <2>1, <3>1 DEF Order, Bursting
  <2> QED BY <1>0, <2>4, <2>5, <2>6, <2>7, <2>8 DEF Order, Running
<1> QED BY <1>7, <1>8, FrameArrives

\* Behind a damaged frame the burst goes on one answer late, at most.
LEMMA OrderArriveBroken ==
  ASSUME LateTimes, TypeOK, Order, Arrive, parser # "start"
  PROVE  Order' /\ pc \notin {"run", "pause", "read", "prompt"}
<1> USE TimesAssumption DEF LateTimes, Times, host
<1>0. down # << >> /\ UNCHANGED <<pc, sent, burst, age, waited>>
  BY DEF Arrive
<1>1. Len(down) \in Nat \ {0}
  BY <1>0 DEF TypeOK, ValuesOK
<1>2. pc \notin {"run", "pause", "read", "prompt"}
  BY <1>0 DEF Order, Reading, Resting, Prompting
<1>3. CASE pc = "burst"
  <2>1. up = << >> /\ burst = 1 /\ OnLine = 1 /\ waited = 0
    BY <1>3 DEF Order, Bursting
  <2>2. /\ down' = Tail(down) /\ parser' = "start"
        /\ \/ /\ up' = <<"E">> /\ UNCHANGED <<halted, silence>>
           \/ up' = <<"E", "H">> /\ halted' /\ UNCHANGED <<halted, silence>>
           \/ up' = <<"E", "K">> /\ ~halted' /\ silence' = 0
    BY <2>1, BrokenFrameArrives
  <2>3. Len(up) = 0 /\ Len(down) = 1
    BY <1>1, <2>1 DEF OnLine
  <2>4. Len(down') = 0
    BY <1>0, <2>2, <2>3, TailAt DEF TypeOK, ValuesOK
  <2>5. CASE up' = <<"E">>
    <3>1. Len(up') = 1 /\ DOMAIN up' = {1} /\ up'[1] = "E"
      BY <2>5
    <3>2. OnLine' = 1
      BY <2>4, <3>1 DEF OnLine
    <3> QED BY <1>0, <1>3, <2>1, <2>2, <3>1, <3>2
            DEF Order, Reading, Resting, Prompting, Bursting, Running
  <2>6. CASE up' = <<"E", "H">> /\ halted'
    <3>1. Len(up') = 2 /\ DOMAIN up' = {1, 2} /\ up'[1] = "E" /\ up'[2] = "H"
      BY <2>6
    <3>2. OnLine' = 2
      BY <2>4, <3>1 DEF OnLine
    <3> QED BY <1>0, <1>3, <2>1, <2>2, <3>1, <3>2
            DEF Order, Reading, Resting, Prompting, Bursting, Running
  <2>7. CASE up' = <<"E", "K">> /\ ~halted' /\ silence' = 0
    <3>1. Len(up') = 2 /\ DOMAIN up' = {1, 2} /\ up'[1] = "E" /\ up'[2] = "K"
      BY <2>7
    <3>2. OnLine' = 2
      BY <2>4, <3>1 DEF OnLine
    <3> QED BY <1>0, <1>3, <2>1, <2>2, <2>7, <3>1, <3>2
            DEF Order, Reading, Resting, Prompting, Bursting, Running
  <2> QED BY <2>2, <2>5, <2>6, <2>7
<1>4. CASE pc # "burst"
  BY <1>0, <1>2, <1>4 DEF Order, Reading, Resting, Prompting, Bursting, Running
<1> QED BY <1>2, <1>3, <1>4

-----------------------------------------------------------------------------
\* The first fault finds host and firmware in step.
LEMMA FirstFault ==
  ASSUME LateTimes, FInv, [Next]_vars, faults = 0, faults' = 1
  PROVE  Order' /\ Known(last_valid_angles)'
<1> USE TimesAssumption DEF LateTimes, Times, host, clocks, firmware
<1>0. /\ TypeOK /\ Exchange /\ Fed
      /\ last_valid_angles \in accepted /\ target \in accepted
  BY DEF FInv, IInv
<1>1. ArriveDamaged \/ AnswerDamaged \/ (Tick /\ down # << >>)
  <2>1. CASE Connect \/ Dispatch \/ Heartbeat \/ ReadAnswer \/ ReadTimeout \/ BurstAnswer \/ Wake
    BY <2>1 DEF Connect, Dispatch, Heartbeat, Transmit, ReadAnswer, ReadTimeout, BurstAnswer, Wake
  <2>2. CASE Confirm \/ Quit \/ Restart \/ Arrive \/ Trip \/ UNCHANGED vars
    BY <2>2 DEF Confirm, Quit, Restart, Arrive, Trip, vars
  <2>3. CASE Tick /\ down = << >>
    BY <2>3 DEF Tick
  <2> QED BY <2>1, <2>2, <2>3 DEF Next, Host
<1>2. UNCHANGED <<pc, sent, last_valid_angles, burst, target, halted, accepted>>
  BY <1>1 DEF ArriveDamaged, AnswerDamaged, Tick
<1>3. Known(last_valid_angles)'
  BY <1>0, <1>2 DEF Known
<1>4. silence \in Nat /\ waited \in Nat /\ age \in Nat
  BY <1>0 DEF TypeOK, ValuesOK
<1>5. CASE pc \in {"dead", "connect"}
  BY <1>2, <1>3, <1>5 DEF Order, Reading, Resting, Prompting, Bursting, Running
<1>6. CASE pc \in {"run", "pause"}
  <2>1. up = << >> /\ down = << >>
    BY <1>0, <1>6 DEF Exchange
  <2> QED BY <1>1, <2>1 DEF ArriveDamaged, AnswerDamaged
<1>7. CASE pc = "read"
  <2>1. /\ waited = 0 /\ ~halted /\ parser = "start" /\ age = 0
        /\ \/ down = <<sent>> /\ up = << >>
           \/ down = << >> /\ up = <<"K">> /\ target = sent /\ silence = 0
    BY <1>0, <1>7 DEF Exchange, Fed, Running
  <2>2. silence <= IDLE_KEEPALIVE + 1
    BY <1>0, <1>7 DEF Fed
  <2>3. CASE ArriveDamaged
    <3>1. down = <<sent>> /\ up = << >> /\ down' = Tail(down)
      BY <2>1, <2>3 DEF ArriveDamaged
    <3>2. down' = << >> /\ Len(down') = 0
      BY <3>1
    <3>3. UNCHANGED <<waited, silence, age>>
      BY <2>3 DEF ArriveDamaged
    <3>4. PICK errors \in {<< >>, <<"E">>, <<"E", "E">>} :
            /\ up' = up \o errors
            /\ parser' \in IF errors = << >> THEN {"start", "payload", "checksum"} ELSE {"start"}
      BY <2>1, <2>3 DEF ArriveDamaged
    <3>5. up' = errors
      <4>1. << >> \o << >> = << >> /\ << >> \o <<"E">> = <<"E">> /\ << >> \o <<"E", "E">> = <<"E", "E">>
        OBVIOUS
      <4> QED BY <3>1, <3>4, <4>1
    <3>6. CASE errors = << >>
      <4>1. up' = << >> /\ ~Unread("K")' /\ ~Unread("H")'
        BY <3>5, <3>6 DEF Unread
      <4>2. Reading'
        BY <1>2, <1>7, <2>1, <3>2, <3>3, <4>1 DEF Reading
      <4>3. InTime'
        BY <1>2, <1>4, <1>7, <2>1, <2>2, <3>2, <3>3, <4>1 DEF InTime
      <4> QED BY <1>2, <1>3, <1>7, <4>2, <4>3 DEF Order, Resting, Prompting, Bursting
    <3>7. CASE errors # << >>
      <4>1. Len(up') \in {1, 2} /\ DOMAIN up' = 1 .. Len(up') /\ \A i \in DOMAIN up' : up'[i] = "E"
        <5>1. CASE errors = <<"E">>
          BY <3>5, <5>1
        <5>2. CASE errors = <<"E", "E">>
          BY <3>5, <5>2
        <5> QED BY <3>7, <5>1, <5>2
      <4>2. ~Unread("K")' /\ ~Unread("H")' /\ OnLine' \in {1, 2} /\ parser' = "start"
        BY <3>2, <3>4, <3>7, <4>1 DEF Unread, OnLine
      <4>3. Reading'
        BY <1>2, <1>7, <2>1, <3>2, <3>3, <4>2 DEF Reading
      <4>4. Lapsed'
        BY <1>2, <1>7, <2>1, <3>3, <4>2 DEF Lapsed
      <4> QED BY <1>2, <1>3, <1>7, <4>3, <4>4 DEF Order, Resting, Prompting, Bursting
    <3> QED BY <1>3, <3>6, <3>7
  <2>4. CASE AnswerDamaged
    <3>1. down = << >> /\ up = <<"K">> /\ target = sent /\ silence = 0
      BY <2>1, <2>4 DEF AnswerDamaged
    <3>2. /\ up' = Tail(up) \/ \E ack \in Garbled : up' = <<ack>> \o Tail(up)
          /\ UNCHANGED <<down, parser, waited, silence, age>>
      BY <2>4 DEF AnswerDamaged
    <3>3. up' = << >> \/ \E ack \in Garbled : up' = <<ack>>
      <4>1. Tail(up) = << >>
        BY <3>1
      <4>2. ASSUME NEW ack PROVE <<ack>> \o << >> = <<ack>>
        OBVIOUS
      <4> QED BY <3>2, <4>1, <4>2
    <3>4. up' # << >> => OnLine' = 1
      BY <3>1, <3>2, <3>3 DEF OnLine
    <3>5. Reading'
      BY <1>0, <1>2, <1>7, <2>1, <3>1, <3>2, <3>4 DEF Reading, Known
    <3>6. InTime' \/ Misread'
      <4>1. CASE up' = <<"H">>
        BY <1>2, <1>7, <2>1, <3>1, <3>2, <4>1 DEF Misread
      <4>2. CASE up' # <<"H">>
        <5>1. ~Unread("H")'
          BY <3>3, <4>2 DEF Unread
        <5> QED BY <1>2, <1>7, <1>4, <2>1, <3>1, <3>2, <5>1 DEF InTime
      <4> QED BY <4>1, <4>2
    <3> QED BY <1>2, <1>3, <1>7, <3>5, <3>6 DEF Order, Resting, Prompting, Bursting
  <2>5. CASE Tick /\ down # << >>
    <3>1. down = <<sent>> /\ up = << >> /\ UNCHANGED <<down, up, parser>>
      BY <2>1, <2>5 DEF Tick
    <3>2. 0 < SERIAL_TIMEOUT /\ waited' = 1 /\ silence' <= silence + 1 /\ silence' \in Nat
      BY <1>4, <2>1, <2>5 DEF Tick, Capped
    <3>3. Len(down') = 1 /\ down'[1] = sent /\ Len(up') = 0 /\ OnLine' = 1 /\ down' # << >>
          /\ ~Unread("K")' /\ ~Unread("H")'
      BY <3>1 DEF OnLine, Unread
    <3>4. Reading'
      BY <1>2, <1>7, <2>1, <3>1, <3>2, <3>3 DEF Reading
    <3>5. silence' <= IDLE_KEEPALIVE + 1 + waited'
      BY <1>4, <2>2, <3>2
    <3>6. InTime'
      BY <1>2, <1>7, <2>1, <3>1, <3>3, <3>5 DEF InTime
    <3> QED BY <1>2, <1>3, <1>7, <3>4, <3>6 DEF Order, Resting, Prompting, Bursting
  <2> QED BY <1>1, <1>3, <2>3, <2>4, <2>5
<1> QED BY <1>0, <1>5, <1>6, <1>7 DEF Exchange, TypeOK, ValuesOK

LEMMA OrderStep ==
  ASSUME LateTimes, TypeOK, OneFault, [Next]_vars, faults' = faults
  PROVE  OneFault'
<1> USE DEF OneFault
<1>1. CASE Connect
  BY <1>1, OrderConnect
<1>2. CASE ~Connect
  <2>1. ASSUME NEW p, Known(p) PROVE Known(p)'
    BY <1>2, <2>1, KnownStays
  <2>2. ASSUME last_valid_angles' = last_valid_angles PROVE Known(last_valid_angles)'
    <3>1. PICK p : p = last_valid_angles
      OBVIOUS
    <3>2. Known(p)'
      BY <2>1, <3>1
    <3> QED BY <2>2, <3>1, <3>2 DEF Known, Coming
  <2>3. CASE Dispatch \/ Heartbeat
    <3>1. last_valid_angles \in Pose
      BY DEF TypeOK, ValuesOK
    <3>2. PICK p \in Pose : Transmit(p)
      BY <2>3, <3>1 DEF Dispatch, Heartbeat
    <3>3. pc = "run" /\ last_valid_angles' = last_valid_angles
      BY <2>3, <3>2 DEF Dispatch, Heartbeat, Transmit
    <3> QED BY <2>2, <3>2, <3>3, OrderTransmit
  <2>4. CASE ReadAnswer
    <3>1. Order' /\ (Head(up) = "K" => Known(sent))
      BY <2>4, OrderRead
    <3>2. Known(Cached(Head(up)))
      BY <3>1 DEF Cached
    <3>3. PICK p : p = Cached(Head(up))
      OBVIOUS
    <3>4. Known(p)' /\ last_valid_angles' = p
      BY <2>1, <2>4, <3>2, <3>3 DEF ReadAnswer
    <3> QED BY <3>1, <3>4 DEF Known, Coming
  <2>5. CASE ReadTimeout
    BY <2>2, <2>5, OrderTimeout DEF ReadTimeout
  <2>6. CASE Wake
    BY <2>2, <2>6, OrderWake DEF Wake
  <2>7. CASE Confirm
    BY <2>2, <2>7, OrderConfirm DEF Confirm
  <2>8. CASE BurstAnswer
    BY <2>2, <2>8, OrderBurst DEF BurstAnswer
  <2>9. CASE Trip
    BY <2>2, <2>9, OrderTrip DEF Trip, host
  <2>10. CASE Tick
    <3>1. down = << >>
      BY <2>10, LineWorks
    <3> QED BY <2>2, <2>10, <3>1, OrderTick DEF Tick, host
  <2>11. CASE Arrive
    <3>1. Order'
      BY <2>11, OrderArrive, OrderArriveBroken
    <3> QED BY <2>2, <2>11, <3>1 DEF Arrive, host
  <2>12. CASE Quit \/ Restart
    <3>1. pc' \in {"dead", "connect"} /\ last_valid_angles' = last_valid_angles
      BY <2>12 DEF Quit, Restart
    <3> QED BY <2>2, <3>1 DEF Order, Reading, Resting, Prompting, Bursting, Running
  <2>13. CASE UNCHANGED vars
    BY <2>13 DEF vars, host, clocks, firmware, Order, Reading, Resting, Prompting, Bursting, Running,
                 InTime, Lapsed, Misread, OnLine, Unread, Known, Coming
  <2> QED BY <1>2, <2>3, <2>4, <2>5, <2>6, <2>7, <2>8, <2>9, <2>10, <2>11, <2>12, <2>13, LineWorks
          DEF Next, Host
<1> QED BY <1>1, <1>2

\* What the host and the firmware hold has been accepted.
LEMMA HeldStep ==
  ASSUME TypeOK, Exchange, last_valid_angles \in accepted, target \in accepted,
         [Next]_vars, faults' = faults
  PROVE  last_valid_angles' \in accepted' /\ target' \in accepted'
<1> USE DEF host, clocks, firmware
<1>1. CASE Connect
  BY <1>1 DEF Connect
<1>2. CASE ReadAnswer
  <2>1. pc = "read" /\ up # << >>
    BY <1>2 DEF ReadAnswer
  <2>2. target = sent
    BY <2>1 DEF Exchange
  <2> QED BY <1>2, <2>2 DEF ReadAnswer, Cached
<1>3. CASE Arrive
  BY <1>3 DEF Arrive, Obey
<1>4. CASE Dispatch \/ Heartbeat \/ ReadTimeout \/ BurstAnswer \/ Wake
  BY <1>4 DEF Dispatch, Heartbeat, Transmit, ReadTimeout, BurstAnswer, Wake
<1>5. CASE Confirm \/ Quit \/ Restart \/ Trip \/ Tick \/ UNCHANGED vars
  BY <1>5 DEF Confirm, Quit, Restart, Trip, Tick, vars
<1> QED BY <1>1, <1>2, <1>3, <1>4, <1>5, LineWorks DEF Next, Host

LEMMA FaultOK ==
  ASSUME LateTimes, FInv, [Next]_vars
  PROVE  FInv'
<1>1. TypeOK /\ IInv'
  BY NextOK DEF FInv, IInv, LateTimes
<1>2. faults \in Nat /\ (faults' = faults \/ faults' = faults + 1)
  BY <1>1, FaultsCount DEF TypeOK, ValuesOK
<1>3. ASSUME faults' = 0 PROVE last_valid_angles' \in accepted' /\ target' \in accepted'
  <2>1. faults = 0
    BY <1>2, <1>3
  <2> QED BY <1>1, <1>3, <2>1, HeldStep DEF FInv, IInv
<1>4. ASSUME faults' = 1 PROVE OneFault'
  <2>1. CASE faults = 0
    BY <1>4, <2>1, FirstFault DEF OneFault
  <2>2. CASE faults = 1
    BY <1>1, <1>4, <2>2, OrderStep DEF FInv
  <2> QED BY <1>2, <1>4, <2>1, <2>2
<1> QED BY <1>1, <1>3, <1>4 DEF FInv

LEMMA FaultInit == Init => FInv
<1>1. Init => last_valid_angles \in accepted /\ target \in accepted /\ faults = 0
  BY DEF Init
<1> QED BY <1>1, InitOK DEF FInv

\* After one fault of the line at most, the pose the host takes for valid is one
\* the firmware has accepted or is about to (conductor_host.py:82-85).
THEOREM CacheIsSound ==
  ASSUME LateTimes
  PROVE  Spec => []CacheSound
<1>1. FInv => CacheSound
  BY DEF FInv, IInv, TypeOK, ValuesOK, CacheSound, OneFault, Known, Coming
<1>2. FInv /\ [Next]_vars => FInv'
  BY FaultOK
<1> QED BY <1>1, <1>2, FaultInit, PTL DEF Spec

\* After one fault of the line at most, no frame of the host releases a halt
\* before the operator has confirmed (conductor_host.py:86-121).
THEOREM OperatorIsAsked ==
  ASSUME LateTimes
  PROVE  Spec => OperatorReleases
<1>1. FInv /\ [Next]_vars
      => [Arrive /\ halted /\ ~halted' /\ faults <= 1 => pc \in {"burst", "dead", "connect"}]_vars
  <2>1. ASSUME FInv, Arrive, halted, ~halted', faults <= 1
        PROVE  pc \in {"burst", "dead", "connect"}
    <3>1. TypeOK /\ faults \in {0, 1}
      BY <2>1 DEF FInv, IInv, TypeOK, ValuesOK
    <3>2. CASE faults = 0
      BY <2>1, <3>1, <3>2 DEF FInv, IInv, Exchange, Running, TypeOK, ValuesOK
    <3>3. CASE faults = 1
      <4>1. Order
        BY <2>1, <3>3 DEF FInv, OneFault
      <4>2. pc \notin {"run", "pause", "read", "prompt"}
        BY <2>1, <3>1, <4>1, OrderArrive, OrderArriveBroken
      <4> QED BY <3>1, <4>2 DEF TypeOK, ValuesOK
    <3> QED BY <3>1, <3>2, <3>3
  <2> QED BY <2>1
<1>2. FInv /\ [Next]_vars => FInv'
  BY FaultOK
<1> QED BY <1>1, <1>2, FaultInit, PTL DEF Spec, OperatorReleases
-----------------------------------------------------------------------------
(***************************************************************************)
(* The burst of an inspection.                                             *)
(***************************************************************************)
\* While a burst that began in step meets no fault, one frame or one answer is
\* on the line, the firmware has counted the frames before it, and once it has
\* accepted one no time passes that could halt it again.
Unanswered == /\ down = <<last_valid_angles>> /\ up = << >>
              /\ halted => count + 1 >= burst
              /\ ~halted /\ burst > 1 => silence = 0
Answered == /\ down = << >>
            /\ \/ up = <<"H">> /\ halted /\ count >= burst
               \/ up = <<"K">> /\ ~halted /\ silence = 0
InBurst == clean /\ pc = "burst" => /\ parser = "start" /\ waited = 0 /\ burst >= 1
                                    /\ Unanswered \/ Answered
BInv == TypeOK /\ InBurst

LEMMA BurstBegins ==
  ASSUME TypeOK, Confirm
  PROVE  InBurst'
<1>1. /\ pc' = "burst" /\ burst' = 1 /\ waited' = 0
      /\ down' = Append(down, last_valid_angles) /\ last_valid_angles' = last_valid_angles
      /\ clean' = (parser = "start" /\ down = << >> /\ up = << >>)
      /\ UNCHANGED <<up, parser, halted, count, silence>>
  BY DEF Confirm, WriteBurst, firmware
<1>2. SUFFICES ASSUME clean' PROVE InBurst'
  BY DEF InBurst
<1>3. parser' = "start" /\ up' = << >> /\ down' = <<last_valid_angles'>>
  <2>1. parser = "start" /\ down = << >> /\ up = << >>
    BY <1>2 DEF Confirm
  <2>2. Append(<< >>, last_valid_angles) = <<last_valid_angles>>
    OBVIOUS
  <2> QED BY <1>1, <2>1, <2>2
<1>4. halted' => count' + 1 >= burst'
  BY <1>1 DEF TypeOK, ValuesOK
<1>5. Unanswered'
  BY <1>1, <1>3, <1>4 DEF Unanswered
<1> QED BY <1>1, <1>3, <1>5 DEF InBurst

\* Nobody waits for the rest of a burst in vain: every answer is there before
\* a read times out.
LEMMA BurstIsAnswered ==
  ASSUME TypeOK, InBurst, clean, BurstAnswer, 0 < SERIAL_TIMEOUT
  PROVE  Answered /\ up # << >> /\ up' = << >>
<1>1. pc = "burst" /\ waited = 0
  BY DEF BurstAnswer, InBurst
<1>2. up # << >> /\ up' = Tail(up)
  BY <1>1, TimesAssumption DEF BurstAnswer
<1>3. Answered
  BY <1>1, <1>2 DEF InBurst, Unanswered
<1>4. CASE up = <<"H">>
  BY <1>2, <1>3, <1>4
<1>5. CASE up = <<"K">>
  BY <1>2, <1>3, <1>5
<1> QED BY <1>3, <1>4, <1>5 DEF Answered

LEMMA BurstStep ==
  ASSUME BInv, [Next]_vars, 0 < SERIAL_TIMEOUT
  PROVE  BInv'
<1> USE DEF host, clocks, firmware
<1>0. TypeOK /\ TypeOK'
  BY FlagsStep, ValuesStep DEF BInv, TypeOK
<1>1. SUFFICES InBurst'
  BY <1>0 DEF BInv
<1>2. CASE Confirm
  BY <1>0, <1>2, BurstBegins
<1>3. CASE ArriveDamaged \/ AnswerDamaged
  BY <1>3 DEF ArriveDamaged, AnswerDamaged, Fault, InBurst
<1>4. CASE Connect \/ Dispatch \/ Heartbeat \/ ReadAnswer \/ ReadTimeout \/ Wake \/ Quit \/ Restart
  <2>1. pc' # "burst"
    BY <1>4 DEF Connect, Dispatch, Heartbeat, Transmit, ReadAnswer, ReadTimeout, Resume,
                Wake, Quit, Restart
  <2> QED BY <2>1 DEF InBurst
<1>5. CASE UNCHANGED vars
  BY <1>5 DEF BInv, vars, InBurst, Unanswered, Answered
<1>6. ASSUME clean, pc = "burst", clean', pc' = "burst", BurstAnswer PROVE InBurst'
  <2>1. Answered /\ up # << >> /\ up' = << >> /\ parser = "start"
    BY <1>0, <1>6, BurstIsAnswered DEF BInv, InBurst
  <2>2. /\ burst' = burst + 1 /\ waited' = 0 /\ down' = Append(down, last_valid_angles)
        /\ UNCHANGED <<last_valid_angles, silence, parser, halted, count>>
    BY <1>6 DEF BurstAnswer, WriteBurst, Resume
  <2>3. down' = <<last_valid_angles'>>
    BY <2>1, <2>2 DEF Answered
  <2>4. burst \in Nat /\ burst' >= 1
    BY <1>0, <2>2 DEF TypeOK, ValuesOK
  <2>5. CASE up = <<"H">> /\ halted /\ count >= burst
    <3>1. halted' /\ count' + 1 >= burst'
      BY <1>0, <2>2, <2>5 DEF TypeOK, ValuesOK
    <3>2. Unanswered'
      BY <2>1, <2>3, <3>1 DEF Unanswered
    <3> QED BY <2>1, <2>2, <2>4, <3>2 DEF InBurst
  <2>6. CASE up = <<"K">> /\ ~halted /\ silence = 0
    <3>1. Unanswered'
      BY <2>1, <2>2, <2>3, <2>6 DEF Unanswered
    <3> QED BY <2>1, <2>2, <2>4, <3>1 DEF InBurst
  <2> QED BY <2>1, <2>5, <2>6 DEF Answered
<1>7. ASSUME clean, pc = "burst", Arrive PROVE InBurst'
  <2>1. /\ parser = "start" /\ waited = 0 /\ burst >= 1 /\ down # << >>
        /\ Unanswered \/ Answered
    BY <1>7 DEF BInv, InBurst, Arrive
  <2>2. Unanswered
    BY <2>1 DEF Answered
  <2>3. /\ down' = Tail(down) /\ parser' = "start" /\ UNCHANGED <<pc, waited, burst, clean>>
    BY <1>0, <1>7, <2>1, FrameArrives
  <2>4. down' = << >>
    BY <2>2, <2>3 DEF Unanswered
  <2>5. Append(up, "H") = <<"H">> /\ Append(up, "K") = <<"K">>
    BY <2>2 DEF Unanswered
  <2>6. CASE halted /\ count' = count + 1 /\ up' = Append(up, "H") /\ UNCHANGED halted
    <3>1. count' >= burst'
      BY <1>0, <2>2, <2>3, <2>6 DEF Unanswered, TypeOK, ValuesOK
    <3>2. Answered'
      BY <2>4, <2>5, <2>6, <3>1 DEF Answered
    <3> QED BY <2>1, <2>3, <3>2 DEF InBurst
  <2>7. CASE up' = Append(up, "K") /\ ~halted' /\ silence' = 0
    <3>1. Answered'
      BY <2>4, <2>5, <2>7 DEF Answered
    <3> QED BY <2>1, <2>3, <3>1 DEF InBurst
  <2> QED BY <1>0, <1>7, <2>1, <2>6, <2>7, FrameArrives
<1>8. ASSUME clean, pc = "burst", Trip PROVE InBurst'
  <2>1. /\ ~halted /\ silence > WATCHDOG /\ halted' /\ count' = 0
        /\ UNCHANGED <<pc, burst, waited, parser, down, up, last_valid_angles>>
    BY <1>8 DEF Trip, TripDue
  <2>2. silence # 0
    BY <1>0, <2>1, TimesAssumption DEF TypeOK, ValuesOK
  <2>3. Unanswered /\ ~(burst > 1) /\ parser = "start" /\ waited = 0 /\ burst >= 1
    BY <1>8, <2>1, <2>2 DEF BInv, InBurst, Unanswered, Answered
  <2>4. halted' => count' + 1 >= burst'
    BY <1>0, <2>1, <2>3 DEF TypeOK, ValuesOK
  <2>5. Unanswered'
    BY <2>1, <2>3, <2>4 DEF Unanswered
  <2> QED BY <2>1, <2>3, <2>5 DEF InBurst
<1>9. ASSUME clean, pc = "burst", clean', Tick PROVE FALSE
  <2>1. down = << >> /\ up = << >>
    BY <1>9 DEF Tick, Fault, HostWaits
  <2> QED BY <1>9, <2>1 DEF BInv, InBurst, Unanswered, Answered
<1>10. ASSUME BurstAnswer \/ Arrive \/ Trip \/ Tick, clean', pc' = "burst"
       PROVE  clean /\ pc = "burst"
  BY <1>10 DEF BurstAnswer, Arrive, Trip, Tick, Fault
<1> QED BY <1>2, <1>3, <1>4, <1>5, <1>6, <1>7, <1>8, <1>9, <1>10 DEF Next, Host, InBurst

\* A burst that begins with nothing on the line and meets no fault ends with the
\* acceptance of its last frame, for every length of the burst and all times
\* (conductor_host.py:97-121).
THEOREM BurstReleases ==
  ASSUME 0 < SERIAL_TIMEOUT
  PROVE  Spec => BurstRearms
<1>1. Init => BInv
  BY InitOK DEF IInv, BInv, Init, InBurst
<1>2. BInv /\ [Next]_vars => BInv'
  BY BurstStep
<1>3. BInv /\ [Next]_vars
      => [BurstAnswer /\ pc' # "burst" => ~clean \/ (up # << >> /\ Head(up) = "K")]_vars
  <2>1. ASSUME BInv, BurstAnswer, pc' # "burst", clean
        PROVE  up # << >> /\ Head(up) = "K"
    <3>1. Answered /\ up # << >> /\ TypeOK
      BY <2>1, BurstIsAnswered DEF BInv
    <3>2. burst >= BURST
      BY <2>1 DEF BurstAnswer, WriteBurst, BurstWritten
    <3>3. ~(count >= burst)
      BY <3>1, <3>2, CountsAssumption DEF TypeOK, ValuesOK
    <3>4. up = <<"K">>
      BY <3>1, <3>3 DEF Answered
    <3> QED BY <3>1, <3>4
  <2> QED BY <2>1
<1> QED BY <1>1, <1>2, <1>3, PTL DEF Spec, BurstRearms
=============================================================================
