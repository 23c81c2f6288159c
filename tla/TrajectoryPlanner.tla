-------------------------- MODULE TrajectoryPlanner --------------------------
(***************************************************************************)
(* trajectory.py and kinematics.py: from Cartesian waypoints to the poses  *)
(* that are queued, or to none if the path leaves the envelope.            *)
(*                                                                         *)
(* Coordinates are whole multiples of a unit finer than Grain, the grid    *)
(* that round(px, 3) puts each coordinate on, so that a waypoint need not  *)
(* lie on the grid; distances are compared squared.  The arithmetic is     *)
(* exact where the code's is that of floats: what is lost is the last bit  *)
(* of a quotient, which at a whole number of steps can add one segment.    *)
(* The angles within reach are any function of the point.                  *)
(***************************************************************************)
EXTENDS Integers, Sequences, SequencesExt

CONSTANTS SAFE_MIN_REACH, SAFE_MAX_REACH,
          Grain,            \* the grid of round(px, 3)
          Near,             \* 1e-6: a segment shorter than this is one point
          Solved(_),        \* base, shoulder and elbow of a point, before their clamp
          MAX_ANGLE

Axis == 1 .. 3
Point == [Axis -> Int]
Joint == 1 .. 3

Distance(a, b) == IF a < b THEN b - a ELSE a - b

\* The square of the distance of two points.
Squared(p, q) == LET On(a) == (p[a] - q[a]) * (p[a] - q[a]) IN On(1) + On(2) + On(3)

\* The pre-filter of calculate_joint_angles.
Reachable(p) == Squared(p, <<0, 0, 0>>)
                  \in SAFE_MIN_REACH * SAFE_MIN_REACH .. SAFE_MAX_REACH * SAFE_MAX_REACH

Space == [Axis -> 0 - SAFE_MAX_REACH .. SAFE_MAX_REACH]

ASSUME ReachAssumption == SAFE_MIN_REACH \in Nat /\ SAFE_MAX_REACH \in Nat
ASSUME GridAssumption == Grain \in Nat \ {0} /\ Near \in Nat \ {0}
ASSUME AnglesAssumption == /\ MAX_ANGLE \in Nat
                           /\ \A p \in Space : Reachable(p) => Solved(p) \in [Joint -> Int]

Clamped(a) == IF a < 0 THEN 0 ELSE IF a > MAX_ANGLE THEN MAX_ANGLE ELSE a

\* The rest of it.
JointAngles(p) == [j \in Joint |-> Clamped(Solved(p)[j])]

\* ceil(distance / step)
Parts(start, end, step) ==
  LET Reaches(n) == Squared(start, end) <= (n * step) * (n * step)
  IN CHOOSE n \in 1 .. Squared(start, end) : Reaches(n) /\ \A m \in 1 .. n - 1 : ~Reaches(m)

\* round(a / b): to the nearest whole number, halves to the even one.
Nearest(a, b) == LET q == a \div b
                     r == a % b
                 IN IF 2 * r < b \/ (2 * r = b /\ q % 2 = 0) THEN q ELSE q + 1

\* Point i of n equal parts, each coordinate on the grid.
Rounded(start, end, n, i) ==
  [a \in Axis |-> Grain * Nearest(n * start[a] + i * (end[a] - start[a]), n * Grain)]

\* interpolate_linear_segment
Interpolate(start, end, step) ==
  IF Squared(start, end) < Near * Near THEN <<start>>
  ELSE LET n == Parts(start, end, step)
       IN [i \in 1 .. n + 1 |-> Rounded(start, end, n, i - 1)]

\* plan_multi_waypoint_path: each segment without its first point, the seam.
PlanPath(waypoints, step) ==
  <<Head(waypoints)>> \o
    FlattenSeq([i \in 1 .. Len(waypoints) - 1 |->
                  Tail(Interpolate(waypoints[i], waypoints[i + 1], step))])

\* BUG: only the waypoints are validated, not the points between them.
BreachesAtWaypoint(waypoints, step) == \E i \in DOMAIN waypoints : ~Reachable(waypoints[i])

\* WorkspaceEnvelopeViolation leaves generate_joint_trajectory.
Breaches(waypoints, step) ==
  LET path == PlanPath(waypoints, step)
  IN \E i \in DOMAIN path : ~Reachable(path[i])

JointTrajectory(waypoints, step) ==
  LET path == PlanPath(waypoints, step)
  IN [i \in DOMAIN path |-> JointAngles(path[i])]

-----------------------------------------------------------------------------
\* n is the least number of parts of at most the step size.
Suffice(n, start, end, step) ==
  /\ Squared(start, end) <= (n * step) * (n * step)
  /\ ((n - 1) * step) * ((n - 1) * step) < Squared(start, end)

\* p is, in each coordinate, within half a grid unit of point i of n equal parts.
NearPart(p, start, end, n, i) ==
  \A a \in Axis :
    2 * Distance(n * p[a], n * start[a] + i * (end[a] - start[a])) <= n * Grain

\* n points of the path, behind the one at from, lead from waypoint a to b: none
\* if the two are as good as equal, else the ends of the least number of equal
\* parts.
Leads(path, from, n, a, b, step) ==
  \/ n = 0 /\ Squared(a, b) < Near * Near
  \/ n > 0 /\ Suffice(n, a, b, step) /\ \A i \in 1 .. n : NearPart(path[from + i], a, b, n, i)

\* What a path promises, without saying how it is computed: it stays within
\* reach, begins at the first waypoint and leads from each to the next, half a
\* grid unit off at most.  By no more than that it may miss a waypoint, exceed
\* the step size and stand still.
Connects(path, waypoints, step) ==
  /\ \A i \in DOMAIN path : Reachable(path[i])
  /\ path[1] = waypoints[1]
  /\ \E visit \in [DOMAIN waypoints -> DOMAIN path] :
       /\ visit[1] = 1 /\ visit[Len(waypoints)] = Len(path)
       /\ \A w \in 1 .. Len(waypoints) - 1 :
            Leads(path, visit[w], visit[w + 1] - visit[w], waypoints[w], waypoints[w + 1], step)
=============================================================================
