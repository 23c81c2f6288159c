------------------------------ MODULE HostLink ------------------------------
(***************************************************************************)
(* conductor_host.py talking to the firmware: one frame, then one byte of  *)
(* answer, a keep-alive, and the re-arming burst after an inspection.      *)
(*                                                                         *)
(* A frame is its pose.  The firmware is reduced to what a whole or a      *)
(* damaged frame does to it (PacketLink, SuperLoop): where it leaves the   *)
(* parser, the answers, the halt and the burst.  Time is counted in read   *)
(* time-outs (0.5 s): it passes only while the host waits and the line is  *)
(* empty, as all else is much faster; a line that is slow is a fault.      *)
(***************************************************************************)
EXTENDS Naturals, Sequences

CONSTANTS Pose, Home,          \* commands; the pose of the homing frame
          Trajectory,          \* number of Cartesian targets of main()
          SERIAL_TIMEOUT, IDLE_KEEPALIVE, WATCHDOG, PAUSE,
          BURST,               \* frames of a trust burst
          Garbled,             \* what a damaged answer can decode to
          MaxFaults            \* bound: faults of the line since the host started

ASSUME PoseAssumption == Home \in Pose
ASSUME TimesAssumption == /\ SERIAL_TIMEOUT \in Nat /\ IDLE_KEEPALIVE \in Nat
                          /\ WATCHDOG \in Nat /\ PAUSE \in Nat
\* Answers as the host decodes them: a letter of the firmware's, another
\* character, or nothing for a byte that is not ASCII.
Letter == {"K", "E", "H", "?", ""}
ASSUME GarbledAssumption == Garbled \subseteq Letter
ASSUME CountsAssumption == Trajectory \in Nat /\ MaxFaults \in Nat /\ BURST \in Nat \ {0}

VARIABLES pc,                  \* where the host's only thread is
          task,                \* what it was doing: "home", "trajectory" or "idle"
          sent,                \* the pose whose answer it waits for
          last_valid_angles,
          todo,                \* targets left
          burst,               \* frames of the burst written
          age, waited,         \* time since last_tx_time, and in the present wait
          down, up,            \* frames and answers on the line
          parser,              \* where the last frame left the parser
          target, halted, count, booted, silence,   \* the super-loop's state
          accepted,            \* history: poses that became the target since boot
          clean,               \* history: burst begun in step, no fault since
          faults

host == <<pc, task, sent, last_valid_angles, todo, burst>>
clocks == <<age, waited, silence>>
firmware == <<parser, target, halted, count, booted, accepted>>
vars == <<host, clocks, down, up, firmware, clean, faults>>

Capped(n, bound) == IF n < bound THEN n ELSE bound

Init == /\ pc = "connect" /\ task = "home" /\ sent = Home
        /\ last_valid_angles = Home
        /\ todo = Trajectory /\ burst = 0
        /\ age = 0 /\ waited = 0 /\ silence = 0
        /\ down = << >> /\ up = << >>
        /\ parser = "start" /\ target = Home /\ halted = FALSE /\ count = 0
        /\ booted = FALSE /\ accepted = {Home}
        /\ clean = FALSE /\ faults = 0

-----------------------------------------------------------------------------
(***************************************************************************)
(* The host.                                                               *)
(***************************************************************************)
\* connect_and_home: opening the port resets the controller through DTR, the
\* buffers of the port are flushed, and the homing frame is written.
Connect == /\ pc = "connect"
           /\ pc' = "read" /\ task' = "home" /\ sent' = Home
           /\ last_valid_angles' = Home /\ todo' = Trajectory /\ burst' = 0
           /\ age' = 0 /\ waited' = 0 /\ silence' = 0
           /\ down' = <<Home>> /\ up' = << >>
           /\ parser' = "start" /\ target' = Home /\ halted' = FALSE /\ count' = 0
           /\ booted' = FALSE /\ accepted' = {Home}
           /\ UNCHANGED <<clean, faults>>

\* The writing half of _transmit_and_wait.
Transmit(p) == /\ sent' = p
               /\ down' = Append(down, p)
               /\ age' = 0 /\ waited' = 0
               /\ pc' = "read"
               /\ UNCHANGED <<last_valid_angles, burst, silence, up, firmware, clean, faults>>

\* dispatch_trajectory: the pose of the next target or, for a target out of
\* reach, a heartbeat.
Dispatch == /\ pc = "run" /\ todo > 0
            /\ \E p \in Pose \cup {last_valid_angles} : Transmit(p)
            /\ task' = "trajectory" /\ todo' = todo - 1

\* BUG: the keep-alive waits twice as long / subtracts the wrong way round.
IdleDueLate == age > 2 * IDLE_KEEPALIVE
IdleDueNegated == 0 > IDLE_KEEPALIVE + age

IdleDue == age > IDLE_KEEPALIVE

\* process_idle_loop, once the trajectory is complete, and send_heartbeat.
Heartbeat == /\ pc = "run" /\ todo = 0
             /\ IdleDue
             /\ Transmit(last_valid_angles)
             /\ task' = "idle" /\ UNCHANGED todo

\* _transmit_and_wait returns: main gives up if homing failed, sleeps a
\* second after a target, and goes on.
Resume(ok) == /\ \/ task = "home" /\ pc' = IF ok THEN "run" ELSE "dead"
                 \/ task = "trajectory" /\ pc' = "pause"
                 \/ task = "idle" /\ pc' = "run"
              /\ waited' = 0

\* BUG: any answer counts as an acceptance.
CachedAlways(ack) == sent

\* The state cache after an answer.
Cached(ack) == IF ack = "K" THEN sent ELSE last_valid_angles

\* BUG: 'H' is taken for one more error.
MeansHaltNever(ack) == FALSE

\* A byte that is not ASCII decodes to nothing, like a time-out.
MeansHalt(ack) == ack \in {"H", ""}

\* The reading half: the byte that is first in the port's buffer, whichever
\* frame it answers.
ReadAnswer == /\ pc = "read" /\ up # << >>
              /\ up' = Tail(up)
              /\ last_valid_angles' = Cached(Head(up))
              /\ IF MeansHalt(Head(up)) THEN pc' = "prompt" /\ waited' = 0
                                        ELSE Resume(Head(up) = "K")
              /\ UNCHANGED <<task, sent, todo, burst, age, silence, down, firmware, clean, faults>>

ReadTimeout == /\ pc = "read" /\ up = << >>
               /\ waited >= SERIAL_TIMEOUT
               /\ pc' = "prompt" /\ waited' = 0
               /\ UNCHANGED <<task, sent, last_valid_angles, todo, burst, age, silence, down, up,
                              firmware, clean, faults>>

\* One frame of the burst.
WriteBurst(n) == /\ down' = Append(down, last_valid_angles)
                 /\ burst' = n /\ waited' = 0
                 /\ pc' = "burst"

\* handle_safety_halt, once the operator has pressed ENTER.
Confirm == /\ pc = "prompt"
           /\ WriteBurst(1)
           /\ clean' = (parser = "start" /\ down = << >> /\ up = << >>)
           /\ UNCHANGED <<task, sent, last_valid_angles, todo, age, silence, up, firmware, faults>>

\* BUG: a burst of one frame too few.
BurstWrittenShort == burst >= BURST - 1

BurstWritten == burst >= BURST

\* The last answer decides; a time-out reads as none.
BurstAnswer == /\ pc = "burst"
               /\ \/ up # << >> /\ up' = Tail(up)
                  \/ up = << >> /\ waited >= SERIAL_TIMEOUT /\ up' = up
               /\ \/ /\ ~BurstWritten
                     /\ WriteBurst(burst + 1)
                     /\ UNCHANGED age
                  \/ /\ BurstWritten
                     /\ IF up # << >> /\ Head(up) = "K"
                          THEN Resume(FALSE) /\ age' = 0
                          ELSE pc' = "dead" /\ waited' = 0 /\ UNCHANGED age
                     /\ UNCHANGED <<burst, down>>
               /\ UNCHANGED <<task, sent, last_valid_angles, todo, silence, firmware, clean, faults>>

Wake == /\ pc = "pause"
        /\ waited >= PAUSE
        /\ pc' = "run" /\ waited' = 0
        /\ UNCHANGED <<task, sent, last_valid_angles, todo, burst, age, silence, down, up,
                       firmware, clean, faults>>

\* KeyboardInterrupt, and a later start of the program.
Quit == /\ pc \in {"run", "pause", "read", "prompt", "burst"} /\ pc' = "dead"
        /\ UNCHANGED <<task, sent, last_valid_angles, todo, burst, clocks, down, up, firmware,
                       clean, faults>>
Restart == /\ pc = "dead" /\ pc' = "connect"
           /\ UNCHANGED <<task, sent, last_valid_angles, todo, burst, clocks, down, up, firmware,
                          clean, faults>>

-----------------------------------------------------------------------------
(***************************************************************************)
(* The firmware, frame by frame.                                           *)
(***************************************************************************)
\* A valid frame at the super-loop, with the errors sent before it.
Obey(p, errors) ==
  LET counted == IF errors = << >> THEN count + 1 ELSE 1
  IN IF halted /\ counted < BURST
       THEN /\ count' = counted
            /\ up' = up \o errors \o <<"H">>
            /\ UNCHANGED <<target, halted, booted, silence, accepted>>
       ELSE /\ count' = 0
            /\ up' = up \o errors \o <<"K">>
            /\ target' = p /\ halted' = FALSE /\ booted' = TRUE /\ silence' = 0
            /\ accepted' = accepted \cup {p}

\* A frame arrives whole: after one that broke off in its payload the '@' is
\* answered first, and a parser still inside a checksum loses it.
Arrive == /\ down # << >>
          /\ down' = Tail(down)
          /\ parser' = "start"
          /\ \/ parser = "start" /\ Obey(Head(down), << >>)
             \/ parser = "payload" /\ Obey(Head(down), <<"E">>)
             \/ /\ parser = "checksum" /\ up' = Append(up, "E") /\ count' = 0
                /\ UNCHANGED <<target, halted, booted, silence, accepted>>
          /\ UNCHANGED <<host, age, waited, clean, faults>>

Fault == faults < MaxFaults /\ faults' = faults + 1 /\ clean' = FALSE

\* A byte of a frame is damaged, which costs two errors if it becomes an '@',
\* or the frame is cut short or lost, which is answered by nothing.
ArriveDamaged ==
  /\ Fault
  /\ down # << >> /\ down' = Tail(down)
  /\ \E errors \in {<< >>, <<"E">>, <<"E", "E">>} :
       LET all == IF parser = "payload" THEN errors \o <<"E">> ELSE errors
       IN /\ up' = up \o all
          /\ count' = IF all = << >> THEN count ELSE 0
          /\ parser' \in IF errors = << >> THEN {"start", "payload", "checksum"} ELSE {"start"}
  /\ UNCHANGED <<host, clocks, target, halted, booted, accepted>>

\* An answer is lost or damaged.
AnswerDamaged ==
  /\ Fault
  /\ up # << >> /\ up' \in {Tail(up)} \cup {<<ack>> \o Tail(up) : ack \in Garbled}
  /\ UNCHANGED <<host, clocks, down, firmware>>

TripDue == booted /\ ~halted /\ silence > WATCHDOG

Trip == /\ TripDue
        /\ halted' = TRUE /\ count' = 0
        /\ UNCHANGED <<host, clocks, down, up, parser, target, booted, accepted, clean, faults>>

-----------------------------------------------------------------------------
\* The host waits for an answer, for the operator, for a sleep to end, for the
\* keep-alive to be due, or is not running.
HostWaits == \/ pc \in {"read", "burst"} /\ up = << >> /\ waited < SERIAL_TIMEOUT
             \/ pc = "pause" /\ waited < PAUSE
             \/ pc = "run" /\ todo = 0 /\ ~IdleDue
             \/ pc \in {"prompt", "dead"}

Tick == /\ HostWaits
        /\ ~TripDue
        /\ \/ down = << >> /\ UNCHANGED <<clean, faults>>
           \/ down # << >> /\ Fault        \* the line is slow
        /\ age' = Capped(age + 1, 2 * IDLE_KEEPALIVE + 1)
        /\ waited' = Capped(waited + 1, PAUSE + SERIAL_TIMEOUT)
        /\ silence' = IF booted THEN Capped(silence + 1, WATCHDOG + 1) ELSE silence
        /\ UNCHANGED <<host, down, up, firmware>>

Host == \/ Connect \/ Dispatch \/ Heartbeat \/ ReadAnswer \/ ReadTimeout
        \/ BurstAnswer \/ Wake

Next == \/ Host \/ Confirm \/ Quit \/ Restart
        \/ Arrive \/ Trip \/ Tick
        \/ ArriveDamaged \/ AnswerDamaged

Spec == Init /\ [][Next]_vars

\* The host's thread and the firmware run and time passes; neither the
\* operator nor the person who starts the program owes anything.
FairSpec == Spec /\ WF_vars(Host) /\ WF_vars(Arrive) /\ WF_vars(Trip) /\ WF_vars(Tick)

-----------------------------------------------------------------------------
FlagsOK == halted \in BOOLEAN /\ booted \in BOOLEAN /\ clean \in BOOLEAN
ValuesOK == /\ pc \in {"connect", "run", "read", "prompt", "burst", "pause", "dead"}
            /\ task \in {"home", "trajectory", "idle"}
            /\ sent \in Pose /\ last_valid_angles \in Pose /\ target \in Pose
            /\ todo \in 0 .. Trajectory /\ burst \in 0 .. BURST
            /\ down \in Seq(Pose) /\ up \in Seq(Letter)
            /\ parser \in {"start", "payload", "checksum"}
            /\ count \in 0 .. BURST - 1
            /\ faults \in 0 .. MaxFaults
            /\ age \in Nat /\ waited \in Nat /\ silence \in Nat
TypeOK == FlagsOK /\ ValuesOK

\* As long as the line has not failed, host and firmware are in step: never
\* more than one frame or answer is on the line, and between two exchanges the
\* host's cache is the pose the firmware steers to.
InStep == faults = 0 =>
  /\ parser = "start" /\ Len(down) + Len(up) <= 1
  /\ pc \in {"run", "pause"} => up = << >> /\ down = << >> /\ last_valid_angles = target

\* "Feed the microcontroller's 3000ms watchdog": on a line that has not failed
\* a running host, whatever its targets, never lets the firmware halt and never
\* asks the operator for an inspection.
KeepsAlive == faults = 0 => pc # "prompt" /\ (halted => pc \in {"dead", "connect"})

\* Host and firmware agree, and the watchdog stays fed, as long as the line has
\* not failed: after homing, targets, keep-alives, resets and interruptions in
\* any order.
HostInv == TypeOK /\ InStep /\ KeepsAlive

\* "using the last known valid physical position": one fault of the line can
\* put the host one answer out of step for good, so that it takes a pose for
\* valid before the firmware has it, but never one that the firmware does not
\* come to accept.
CacheSound == faults <= 1 =>
  last_valid_angles \in accepted \/ \E i \in DOMAIN down : down[i] = last_valid_angles

\* "Hardware Re-Armed Successfully": a burst that begins with nothing on the
\* line and meets no fault ends with the acceptance of its last frame, whatever
\* the firmware was doing when the operator confirmed.
BurstRearms ==
  [][BurstAnswer /\ pc' # "burst" => ~clean \/ (up # << >> /\ Head(up) = "K")]_vars

\* "Human-in-the-Loop Confirmation": three valid frames in a row release the
\* halt whoever sends them, but the host's own targets and heartbeats do not
\* before the operator has confirmed.
OperatorConfirms ==
  [][Arrive /\ halted /\ ~halted' => pc \in {"burst", "dead", "connect"}]_vars

\* The same while at most one byte has been damaged: two answers too many on
\* the line, which two damaged bytes can leave, hide the 'H' of three frames.
OperatorReleases ==
  [][Arrive /\ halted /\ ~halted' /\ faults <= 1 => pc \in {"burst", "dead", "connect"}]_vars

\* A halt does not go unnoticed, although the answer that reports it may be
\* read as the answer to a later frame.
HaltNoticed == halted ~> ~halted \/ pc \in {"prompt", "burst", "dead"}
=============================================================================
