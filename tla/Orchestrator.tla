----------------------------- MODULE Orchestrator -----------------------------
(***************************************************************************)
(* orchestrator_node.py: REST handlers queue poses, a daemon thread takes  *)
(* one per 20 ms, slews towards it and writes frames to the serial port.   *)
(*                                                                         *)
(* A handler has no await, so one runs at a time; it meets the daemon only *)
(* at the lock of waypoint_queue.  A daemon action is a stretch of the     *)
(* loop between two points where it blocks or can fail.  Time is counted   *)
(* in half seconds, only as the age of the last frame.                     *)
(***************************************************************************)
EXTENDS TrajectoryPlanner

CONSTANTS QUEUE_MAX_CAPACITY, SLEW_RATE_MAX_DELTA_DEG,
          HEARTBEAT_INTERVAL_SEC, WATCHDOG_TIMEOUT_SEC,
          RESET,             \* the wait after the port is opened and DTR has reset the arm
          PASS,              \* the longest a pass takes that neither opens nor fails
          Home,              \* where both angle lists begin; the pose of the burst
          Poses,             \* poses requested directly
          Paths,             \* waypoints of trajectory and Cartesian requests
          Steps,             \* step_size_cm of trajectory requests
          MaxRequests,       \* bound: accepted requests
          MaxFaults          \* bound: failures of the port

ASSUME CapacityAssumption == QUEUE_MAX_CAPACITY \in Nat \ {0}
ASSUME SlewAssumption == SLEW_RATE_MAX_DELTA_DEG \in Nat \ {0}
ASSUME TimesAssumption == /\ HEARTBEAT_INTERVAL_SEC \in Nat /\ WATCHDOG_TIMEOUT_SEC \in Nat
                          /\ RESET \in Nat /\ PASS \in Nat
                          /\ HEARTBEAT_INTERVAL_SEC + PASS < WATCHDOG_TIMEOUT_SEC
                          /\ HEARTBEAT_INTERVAL_SEC <= RESET
ASSUME BoundsAssumption == MaxRequests \in Nat /\ MaxFaults \in Nat

Pose == [Joint -> 0 .. MAX_ANGLE]
None == << >>

ASSUME RequestsAssumption == /\ Home \in Pose /\ Poses \subseteq Pose
                             /\ Paths \subseteq Seq(Point) \ {None} /\ Steps \subseteq Nat \ {0}

VARIABLES waypoint_queue, target_joint_angles, last_known_angles,
          serial_bus_nominal, safe_hold_tripped,
          ser,               \* whether the port is open
          pc,                \* the daemon's next step
          age,               \* time since last_dispatch_time
          shutdown_event,
          handling,          \* what a handler is about to queue, with its request
          requests, faults,
          wire,              \* history: the last frame written since the port was opened
          sent,              \* history: the last pose the loop has written, on any port
          lost,              \* history: frames it could not write since
          has_enqueue_log    \* rigid: whether db_manager has that method

link == <<serial_bus_nominal, safe_hold_tripped, ser>>
slew == <<target_joint_angles, last_known_angles>>
ingress == <<shutdown_event, handling, requests>>
written == <<wire, sent, lost>>
vars == <<waypoint_queue, slew, link, pc, age, ingress, faults, written, has_enqueue_log>>

Least(a, b) == IF a < b THEN a ELSE b
Older(t) == age' = Least(age + t, WATCHDOG_TIMEOUT_SEC)

Init == /\ waypoint_queue = << >>
        /\ target_joint_angles = Home /\ last_known_angles = Home
        /\ serial_bus_nominal = FALSE /\ safe_hold_tripped = FALSE /\ ser = FALSE
        /\ pc = "loop" /\ age = WATCHDOG_TIMEOUT_SEC
        /\ shutdown_event = FALSE /\ handling = None /\ requests = 0
        /\ faults = 0 /\ wire = None /\ sent = Home /\ lost = 0
        /\ has_enqueue_log \in BOOLEAN

-----------------------------------------------------------------------------
(***************************************************************************)
(* The handlers.                                                           *)
(***************************************************************************)
Accept(request) == /\ handling = None /\ ~shutdown_event
                   /\ requests < MaxRequests /\ requests' = requests + 1
                   /\ handling' = request
                   /\ UNCHANGED <<waypoint_queue, slew, link, pc, age, shutdown_event, faults,
                                  written, has_enqueue_log>>

\* post_waypoint, up to its lock.
PostWaypoint(pose) == Accept([waypoints |-> None, poses |-> <<pose>>])

\* post_trajectory, and post_cartesian as a path of one point, up to their
\* lock: a breach is answered with 422 and leaves nothing to queue.
PostTrajectory(waypoints, step) ==
  /\ Accept([waypoints |-> waypoints, step |-> step,
             poses |-> JointTrajectory(waypoints, step)])
  /\ ~Breaches(waypoints, step)

Fits(poses) == Len(poses) <= QUEUE_MAX_CAPACITY - Len(waypoint_queue)

\* append on a deque with maxlen: the oldest poses make room.
Appended(poses) ==
  LET all == waypoint_queue \o poses
  IN IF Len(all) <= QUEUE_MAX_CAPACITY THEN all
     ELSE SubSeq(all, Len(all) - QUEUE_MAX_CAPACITY + 1, Len(all))

\* Under the lock: 503 or the whole request.  If db_manager has no enqueue_log
\* the client is told 500 although its request is queued.
Enqueue == /\ handling # None /\ handling' = None
           /\ waypoint_queue' = IF Fits(handling.poses) THEN Appended(handling.poses)
                                                        ELSE waypoint_queue
           /\ UNCHANGED <<slew, link, pc, age, shutdown_event, requests, faults, written,
                          has_enqueue_log>>

\* The end of lifespan; no request is left in flight.
Shutdown == /\ handling = None /\ ~shutdown_event /\ shutdown_event' = TRUE
            /\ UNCHANGED <<waypoint_queue, slew, link, pc, age, handling, requests, faults,
                           written, has_enqueue_log>>

-----------------------------------------------------------------------------
(***************************************************************************)
(* mechatronic_hardware_daemon.                                            *)
(***************************************************************************)
\* while not shutdown_event.is_set()
Loop == /\ pc = "loop"
        /\ \/ shutdown_event /\ pc' = "done" /\ ser' = FALSE
           \/ ~shutdown_event /\ pc' = (IF ser THEN "tick" ELSE "open") /\ UNCHANGED ser
        /\ UNCHANGED <<waypoint_queue, slew, serial_bus_nominal, safe_hold_tripped, age, ingress,
                       faults, written, has_enqueue_log>>

Fault == faults < MaxFaults /\ faults' = faults + 1

\* The port opens, or the wait of a second until the next attempt begins.
Open == /\ pc = "open"
        /\ \/ ser' = TRUE /\ wire' = None /\ pc' = "burst" /\ Older(RESET)
              /\ UNCHANGED <<serial_bus_nominal, faults>>
           \/ Fault /\ serial_bus_nominal' = FALSE /\ pc' = "loop" /\ Older(RESET \div 2)
              /\ UNCHANGED <<ser, wire>>
        /\ UNCHANGED <<waypoint_queue, slew, safe_hold_tripped, ingress, sent, lost,
                       has_enqueue_log>>

\* build_option_a_frame, reduced to what it carries.
Frame(cmd, pose) == [cmd |-> cmd, pose |-> [j \in Joint |-> Clamped(pose[j])]]

\* Three frames that send the arm home and leave last_known_angles as they are.
\* If one cannot be written, the first or a later one, ser stays assigned: the
\* next pass works on the port, not nominal.
Burst == /\ pc = "burst"
         /\ \/ serial_bus_nominal' = TRUE /\ safe_hold_tripped' = FALSE /\ pc' = "tick"
               /\ wire' = Frame("H", Home)
               /\ UNCHANGED <<age, faults>>
            \/ Fault /\ serial_bus_nominal' = FALSE /\ pc' = "loop" /\ Older(RESET \div 2)
               /\ wire' \in {wire, Frame("H", Home)}
               /\ UNCHANGED safe_hold_tripped
         /\ UNCHANGED <<waypoint_queue, slew, ser, ingress, sent, lost, has_enqueue_log>>

\* BUG: the angles are not limited.
StepUnlimited(delta) == delta

Step(delta) == IF delta > SLEW_RATE_MAX_DELTA_DEG THEN SLEW_RATE_MAX_DELTA_DEG
               ELSE IF delta < -SLEW_RATE_MAX_DELTA_DEG THEN -SLEW_RATE_MAX_DELTA_DEG
               ELSE delta

\* BUG: the heartbeat is sent when the firmware has already tripped / not at
\* all, so that a last frame that was lost is not made up for.
HeartbeatDueLate == age >= WATCHDOG_TIMEOUT_SEC
HeartbeatDueNever == FALSE

HeartbeatDue == age >= HEARTBEAT_INTERVAL_SEC

\* One pose is popped per tick, whether or not the last one has been reached.
\* The next step is the frame to be written.
Tick ==
  LET target == IF waypoint_queue = << >> THEN target_joint_angles ELSE Head(waypoint_queue)
      stepped == [j \in Joint |-> last_known_angles[j] + Step(target[j] - last_known_angles[j])]
  IN /\ pc = "tick"
     /\ waypoint_queue' = IF waypoint_queue = << >> THEN << >> ELSE Tail(waypoint_queue)
     /\ target_joint_angles' = target
     /\ last_known_angles' = stepped
     /\ pc' = IF target # last_known_angles THEN "DRV"
              ELSE IF HeartbeatDue THEN "HBT" ELSE "sleep"
     /\ UNCHANGED <<link, age, ingress, faults, written, has_enqueue_log>>

Motion == {"DRV", "HBT"}

\* The except clause: whatever failed, the port is closed.
CloseLink == serial_bus_nominal' = FALSE /\ ser' = FALSE /\ pc' = "loop"

Sends == wire' = Frame(pc, last_known_angles) /\ sent' = wire'.pose /\ lost' = 0

\* A frame with the stepped pose.
Write == /\ pc \in Motion
         /\ Sends /\ age' = 0
         /\ pc' = "answer"
         /\ UNCHANGED <<waypoint_queue, slew, link, ingress, faults, has_enqueue_log>>

\* A 'K' anywhere in the answer clears the flag, another letter sets it.
HeldAfter(line) == IF "K" \in line THEN FALSE ELSE line # {} \/ safe_hold_tripped

\* The answer is read and the frame logged, if there is a method to log it.
Answer(line) == /\ pc = "answer"
                /\ safe_hold_tripped' = HeldAfter(line)
                /\ \/ has_enqueue_log /\ pc' = "sleep" /\ UNCHANGED <<serial_bus_nominal, ser>>
                   \/ ~has_enqueue_log /\ CloseLink
                /\ UNCHANGED <<waypoint_queue, slew, age, ingress, faults, written,
                               has_enqueue_log>>

\* write or flush fails, with or without effect, or readline does.
LinkFails == /\ pc \in Motion \cup {"answer"}
             /\ \/ pc \in Motion /\ Sends
                \/ pc \in Motion /\ lost' = lost + 1 /\ UNCHANGED <<wire, sent>>
                \/ pc = "answer" /\ UNCHANGED written
             /\ Fault /\ CloseLink
             /\ UNCHANGED <<waypoint_queue, slew, safe_hold_tripped, age, ingress,
                            has_enqueue_log>>

Sleep == /\ pc = "sleep" /\ pc' = "loop"
         /\ \E t \in 0 .. PASS : Older(t)
         /\ UNCHANGED <<waypoint_queue, slew, link, ingress, faults, written, has_enqueue_log>>

Daemon == \/ Loop \/ Open \/ Burst \/ Tick \/ Write
          \/ (\E line \in SUBSET {"K", "E", "H"} : Answer(line))
          \/ LinkFails \/ Sleep

Finished == pc = "done" /\ handling = None /\ UNCHANGED vars

Next == \/ \E pose \in Poses : PostWaypoint(pose)
        \/ \E waypoints \in Paths, step \in Steps : PostTrajectory(waypoints, step)
        \/ Enqueue \/ Shutdown \/ Daemon
        \/ Finished

Spec == Init /\ [][Next]_vars

\* The daemon thread runs and a handler, which has no await, ends; nothing is
\* owed by clients or by who stops the node.
FairSpec == Spec /\ WF_vars(Daemon) /\ WF_vars(Enqueue)

-----------------------------------------------------------------------------
FlagsOK == /\ serial_bus_nominal \in BOOLEAN /\ safe_hold_tripped \in BOOLEAN /\ ser \in BOOLEAN
           /\ shutdown_event \in BOOLEAN /\ has_enqueue_log \in BOOLEAN
ValuesOK == /\ waypoint_queue \in Seq(Pose) /\ Len(waypoint_queue) <= QUEUE_MAX_CAPACITY
            /\ target_joint_angles \in Pose /\ last_known_angles \in Pose
            /\ wire \in [cmd : Motion \cup {"H"}, pose : Pose] \cup {None}
            /\ sent \in Pose /\ lost \in 0 .. faults
            /\ pc \in Motion \cup {"loop", "open", "burst", "tick", "answer", "sleep", "done"}
            /\ age \in 0 .. WATCHDOG_TIMEOUT_SEC
            /\ requests \in 0 .. MaxRequests /\ faults \in 0 .. MaxFaults
TypeOK == FlagsOK /\ ValuesOK

\* The health report: no bus is nominal that is not open, until the node stops.
NominalIsOpen == serial_bus_nominal => ser \/ pc = "done"

\* The loop has written a frame on this port.
Driven == wire # None /\ wire.cmd # "H"

\* On a port that has carried one frame of the loop the next one follows before
\* the firmware's watchdog expires, whatever is queued.
KeepsFed == ser /\ Driven => age <= HEARTBEAT_INTERVAL_SEC + PASS

\* What the arm has been sent is what the daemon slews from, on whatever port,
\* but for a step that is being sent or was lost.  The burst of a new port sends
\* the arm home behind the daemon's back, and the first pass after it at once
\* to where the daemon has it: no pass is left out or sleeps before.
SentIsKnown ==
  /\ pc \notin Motion /\ lost = 0 => sent = last_known_angles
  /\ ser /\ Driven /\ pc \notin Motion => wire.pose = last_known_angles
  /\ ser /\ ~Driven => pc \in Motion \cup {"burst", "loop", "tick"}

\* Whatever requests and port failures the daemon goes through, its report, the
\* firmware's watchdog, its idea of the arm's pose and the queue's limit hold.
DaemonInv == TypeOK /\ NominalIsOpen /\ KeepsFed /\ SentIsKnown

\* "Atomically validates every intermediate pose": the queue only ever loses
\* its head, or gains a whole request at its end; and the path behind it stays
\* within reach and leaves out no part of a segment.
PathsWhole ==
  [][\/ waypoint_queue' = waypoint_queue
     \/ waypoint_queue # << >> /\ waypoint_queue' = Tail(waypoint_queue)
     \/ /\ waypoint_queue' = waypoint_queue \o handling.poses
        /\ handling.waypoints # None =>
             LET path == PlanPath(handling.waypoints, handling.step)
             IN /\ Connects(path, handling.waypoints, handling.step)
                /\ handling.poses = [i \in DOMAIN path |-> JointAngles(path[i])]]_vars

\* One slew step at most in each joint, and not past the target.
Follows(from, to, target) ==
  \A j \in Joint : /\ Distance(from[j], to[j]) <= SLEW_RATE_MAX_DELTA_DEG
                   /\ Distance(from[j], to[j]) + Distance(to[j], target[j])
                      = Distance(from[j], target[j])

\* The poses the loop sends are a slew step apart at most and none passes the
\* target, though targets are replaced in mid-slew, heartbeats come between and
\* ports fail: a new port goes on where the last one ended, with one step more
\* for each frame that was lost.  On one port a heartbeat repeats a pose.  The
\* frames of the burst are no part of this: from them to the next is any way.
FramesContinuous ==
  [][/\ Driven /\ wire' # None => /\ Follows(wire.pose, wire'.pose, target_joint_angles)
                                 /\ (wire'.cmd = "HBT" => wire'.pose = wire.pose)
     /\ lost = 0 => Follows(sent, sent', target_joint_angles)
     /\ \A j \in Joint : Distance(sent[j], sent'[j]) <= SLEW_RATE_MAX_DELTA_DEG * (lost + 1)]_vars

\* Once clients and faults leave it alone, the daemon empties the queue and ends
\* up having sent the last pose asked for, made up for if its frame was lost; if
\* frames can be logged, it keeps a port on which that pose stands.  Without the
\* log every frame closes the port and the arm is reset before the next.  Told
\* to stop, it ends.
Settled == /\ ~shutdown_event /\ waypoint_queue = << >>
           /\ sent = target_joint_angles
           /\ has_enqueue_log => ser /\ Driven /\ wire.pose = target_joint_angles
Settles == <>[](pc = "done" \/ Settled)
=============================================================================
