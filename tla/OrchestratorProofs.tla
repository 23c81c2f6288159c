-------------------------- MODULE OrchestratorProofs --------------------------
(***************************************************************************)
(* The edge node's daemon keeps the firmware fed, knows the pose it has    *)
(* sent and never jumps, for every queue, envelope, slew rate, set of      *)
(* requests and number of port failures.                                   *)
(***************************************************************************)
EXTENDS Orchestrator, SequenceTheorems, WellFoundedInduction, TLAPS

-----------------------------------------------------------------------------
(***************************************************************************)
(* The planner (trajectory.py): for every list of points in space and step *)
(* size plan_multi_waypoint_path leads through them, rounded to the grid.  *)
(***************************************************************************)
\* A set of naturals that is not empty has a least element.
LEMMA LeastElement ==
  ASSUME NEW T \in SUBSET Nat, T # {}
  PROVE  \E x \in T : \A y \in T : x <= y
<1> DEFINE R == OpToRel(<, Nat)
<1>1. IsWellFoundedOn(R, Nat)
  BY NatLessThanWellFounded
<1>2. \A x, y \in Nat : ~(<<y, x>> \in R) => x <= y
  BY DEF OpToRel
<1> HIDE DEF R
<1>3. PICK x \in T : \A y \in T : ~(<<y, x>> \in R)
  BY <1>1, WFMin, Zenon
<1> QED BY <1>2, <1>3

\* Induction over places, of a set in place of a predicate.
LEMMA Induction ==
  ASSUME NEW n \in Nat, NEW T, n >= 1 => 1 \in T, \A i \in 1 .. n - 1 : i \in T => i + 1 \in T
  PROVE  \A i \in 1 .. n : i \in T
<1> DEFINE U == {i \in 1 .. n : i \notin T}
<1> SUFFICES ASSUME U # {} PROVE FALSE
  OBVIOUS
<1>1. PICK x \in U : \A y \in U : x <= y
  <2>1. U \in SUBSET Nat
    OBVIOUS
  <2> HIDE DEF U
  <2> QED BY <2>1, LeastElement
<1>2. x # 1 /\ x - 1 \in 1 .. n - 1 /\ (x - 1) + 1 = x
  BY <1>1
<1>3. x - 1 \in T
  BY <1>1, <1>2
<1> QED BY <1>1, <1>2, <1>3

\* What integer division leaves over is less than the divisor.
LEMMA Division ==
  ASSUME NEW a \in Int, NEW n \in Nat \ {0}
  PROVE  a \div n \in Int /\ n * (a \div n) <= a /\ a < n * (a \div n) + n
OBVIOUS

\* A rounded quotient is at most half a unit off.
LEMMA NearestOK ==
  ASSUME NEW a \in Int, NEW b \in Nat \ {0}
  PROVE  Nearest(a, b) \in Int /\ 2 * Distance(b * Nearest(a, b), a) <= b
<1> DEFINE q == a \div b
           r == a % b
<1>1. q \in Int /\ b * q <= a /\ a < b * q + b
  BY Division
<1>2. r = a - b * q
  OBVIOUS
<1>3. Nearest(a, b) = IF 2 * r < b \/ (2 * r = b /\ q % 2 = 0) THEN q ELSE q + 1
  BY DEF Nearest
<1> HIDE DEF q, r
<1>4. CASE Nearest(a, b) = q /\ 2 * r <= b
  <2>1. Distance(b * q, a) = a - b * q
    BY <1>1 DEF Distance
  <2> QED BY <1>1, <1>2, <1>4, <2>1
<1>5. CASE Nearest(a, b) = q + 1 /\ 2 * r >= b
  <2>1. b * (q + 1) = b * q + b
    BY <1>1
  <2>2. Distance(b * (q + 1), a) = b * q + b - a
    BY <1>1, <2>1 DEF Distance
  <2> QED BY <1>1, <1>2, <1>5, <2>2
<1>6. r \in Int
  BY <1>1, <1>2
<1> QED BY <1>3, <1>4, <1>5, <1>6

LEMMA SquaredOK ==
  ASSUME NEW p \in Point, NEW q \in Point
  PROVE  Squared(p, q) \in Nat
<1>1. ASSUME NEW a \in Axis PROVE (p[a] - q[a]) * (p[a] - q[a]) \in Nat
  <2>1. p[a] - q[a] \in Int
    BY DEF Point
  <2>2. ASSUME NEW x \in Int PROVE x * x \in Nat
    OBVIOUS
  <2> QED BY <2>1, <2>2
<1>2. 1 \in Axis /\ 2 \in Axis /\ 3 \in Axis
  BY DEF Axis
<1> QED BY <1>1, <1>2 DEF Squared

\* The points of a segment are on the grid, close to its equal parts.
LEMMA RoundedOK ==
  ASSUME NEW start \in Point, NEW end \in Point, NEW n \in Nat \ {0}, NEW i \in Nat
  PROVE  /\ Rounded(start, end, n, i) \in Point
         /\ NearPart(Rounded(start, end, n, i), start, end, n, i)
<1> DEFINE x(a) == n * start[a] + i * (end[a] - start[a])
           c(a) == Nearest(x(a), n * Grain)
<1>1. Rounded(start, end, n, i) = [a \in Axis |-> Grain * c(a)]
  BY DEF Rounded
<1>2. ASSUME NEW a \in Axis PROVE Grain * c(a) \in Int /\ 2 * Distance(n * (Grain * c(a)), x(a)) <= n * Grain
  <2>1. x(a) \in Int
    BY DEF Point
  <2>2. n * Grain \in Nat \ {0} /\ Grain \in Nat
    BY GridAssumption
  <2>3. c(a) \in Int /\ 2 * Distance((n * Grain) * c(a), x(a)) <= n * Grain
    <3> HIDE DEF x
    <3> QED BY <2>1, <2>2, NearestOK
  <2> HIDE DEF x, c
  <2>4. (n * Grain) * c(a) = n * (Grain * c(a)) /\ Grain * c(a) \in Int
    BY <2>2, <2>3
  <2> QED BY <2>3, <2>4
<1> HIDE DEF c
<1> QED BY <1>1, <1>2 DEF Point, NearPart

\* A segment that is not as good as a point has a least number of parts.
LEMMA PartsOK ==
  ASSUME NEW start \in Point, NEW end \in Point, NEW step \in Nat \ {0},
         ~(Squared(start, end) < Near * Near)
  PROVE  LET n == Parts(start, end, step) IN n \in Nat \ {0} /\ Suffice(n, start, end, step)
<1> DEFINE d == Squared(start, end)
           Reaches(n) == d <= (n * step) * (n * step)
           T == {n \in 1 .. d : Reaches(n)}
<1>1. d \in Nat \ {0}
  <2>1. 1 <= Near * Near
    BY GridAssumption
  <2> QED BY <2>1, SquaredOK, GridAssumption
<1>2. Parts(start, end, step) = CHOOSE n \in 1 .. d : Reaches(n) /\ \A m \in 1 .. n - 1 : ~Reaches(m)
  BY DEF Parts
<1> HIDE DEF d
<1>3. d \in T
  <2>1. d <= d * step /\ d * step \in Nat
    BY <1>1
  <2>2. ASSUME NEW x \in Nat PROVE x <= x * x
    OBVIOUS
  <2>3. d * step <= (d * step) * (d * step)
    BY <2>1, <2>2
  <2> QED BY <1>1, <2>1, <2>3
<1>4. PICK x \in T : \A y \in T : x <= y
  <2>1. T \subseteq 1 .. d /\ d \in T
    BY <1>3
  <2> HIDE DEF T
  <2>2. 1 .. d \subseteq Nat
    BY <1>1
  <2>3. T \in SUBSET Nat /\ T # {}
    BY <2>1, <2>2
  <2> QED BY <2>3, LeastElement
<1>5. x \in 1 .. d /\ Reaches(x) /\ \A m \in 1 .. x - 1 : ~Reaches(m)
  <2>1. x \in 1 .. d /\ Reaches(x)
    BY <1>4
  <2>2. ASSUME NEW m \in 1 .. x - 1, Reaches(m) PROVE FALSE
    <3>1. m \in 1 .. d /\ ~(x <= m)
      BY <1>1, <2>1
    <3> QED BY <1>4, <2>2, <3>1
  <2> QED BY <2>1, <2>2
<1> DEFINE n == Parts(start, end, step)
<1> HIDE DEF Reaches, T
<1>6. n \in 1 .. d /\ Reaches(n) /\ \A m \in 1 .. n - 1 : ~Reaches(m)
  BY <1>2, <1>5
<1> HIDE DEF n
<1>7. ((n - 1) * step) * ((n - 1) * step) < d
  <2>1. CASE n = 1
    BY <1>1, <2>1
  <2>2. CASE n # 1
    <3>1. n - 1 \in 1 .. n - 1
      BY <1>1, <1>6, <2>2
    <3>2. ~Reaches(n - 1)
      BY <1>6, <3>1
    <3>3. (n - 1) * step \in Int /\ ((n - 1) * step) * ((n - 1) * step) \in Int
      BY <1>6
    <3> QED BY <1>1, <3>2, <3>3 DEF Reaches
  <2> QED BY <2>1, <2>2
<1>8. n \in Nat \ {0} /\ Reaches(n)
  BY <1>1, <1>6
<1> QED BY <1>7, <1>8 DEF n, d, Reaches, Suffice

\* A segment (trajectory.py:25-50) without its first point leads from its start
\* to its end.
LEMMA Segment ==
  ASSUME NEW start \in Point, NEW end \in Point, NEW step \in Nat \ {0}
  PROVE  LET t == Tail(Interpolate(start, end, step))
         IN t \in Seq(Point) /\ Leads(t, 0, Len(t), start, end, step)
<1> DEFINE t == Tail(Interpolate(start, end, step))
<1>1. CASE Squared(start, end) < Near * Near
  <2>1. t = << >>
    BY <1>1 DEF Interpolate
  <2> HIDE DEF t
  <2>2. Leads(t, 0, 0, start, end, step)
    BY <1>1 DEF Leads
  <2>3. t \in Seq(Point) /\ Leads(t, 0, Len(t), start, end, step)
    BY <2>1, <2>2
  <2> QED BY <2>3 DEF t
<1>2. CASE ~(Squared(start, end) < Near * Near)
  <2> DEFINE n == Parts(start, end, step)
             s == [i \in 1 .. n + 1 |-> Rounded(start, end, n, i - 1)]
  <2>1. Interpolate(start, end, step) = s
    BY <1>2 DEF Interpolate
  <2>2. n \in Nat \ {0} /\ Suffice(n, start, end, step)
    BY <1>2, PartsOK
  <2> HIDE DEF n
  <2>3. ASSUME NEW i \in 0 .. n
        PROVE  /\ s[i + 1] \in Point
               /\ NearPart(s[i + 1], start, end, n, i)
    <3>1. s[i + 1] = Rounded(start, end, n, i) /\ i \in Nat
      BY <2>2
    <3> QED BY <2>2, <3>1, RoundedOK
  <2>4. s \in Seq(Point) /\ Len(s) = n + 1
    <3>1. \A i \in 1 .. n + 1 : s[i] \in Point
      <4>1. \A i \in 1 .. n + 1 : i - 1 \in 0 .. n /\ (i - 1) + 1 = i
        BY <2>2
      <4> HIDE DEF s
      <4> QED BY <2>3, <4>1
    <3>2. s = [i \in 1 .. n + 1 |-> s[i]]
      OBVIOUS
    <3> HIDE DEF s
    <3> QED BY <2>2, <3>1, <3>2
  <2> HIDE DEF s
  <2>5. t \in Seq(Point) /\ Len(t) = n /\ \A i \in 1 .. n : t[i] = s[i + 1]
    BY <2>1, <2>2, <2>4
  <2> HIDE DEF t
  <2>6. ASSUME NEW i \in 1 .. n PROVE NearPart(t[0 + i], start, end, n, i)
    <3>1. 0 + i = i /\ i \in 0 .. n
      OBVIOUS
    <3> QED BY <2>3, <2>5, <3>1
  <2> QED BY <2>2, <2>5, <2>6 DEF Leads, t
<1> QED BY <1>1, <1>2

-----------------------------------------------------------------------------
\* The concatenation of sequences is built up one sequence at a time.
LEMMA Flattened ==
  ASSUME NEW S, NEW s \in Seq(Seq(S)), s # << >>
  PROVE  \E f \in [1 .. Len(s) -> Seq(S)] :
           /\ f[1] = s[1]
           /\ \A i \in 1 .. Len(s) - 1 : f[i + 1] = f[i] \o s[i + 1]
           /\ FlattenSeq(s) = f[Len(s)]
<1> DEFINE n == Len(s)
           Starts(f, i) == /\ f[1] = s[1]
                           /\ \A j \in 1 .. i - 1 : f[j + 1] = f[j] \o s[j + 1]
           T == {i \in 1 .. n : \E f \in [1 .. i -> Seq(S)] : Starts(f, i)}
           g == CHOOSE f : f = [i \in 1 .. n |-> IF i = 1 THEN s[i] ELSE f[i - 1] \o s[i]]
<1>1. n \in Nat \ {0} /\ \A i \in 1 .. n : s[i] \in Seq(S)
  OBVIOUS
<1>2. 1 \in T
  <2> DEFINE f == [i \in 1 .. 1 |-> s[1]]
  <2>1. f \in [1 .. 1 -> Seq(S)] /\ f[1] = s[1] /\ 1 .. 1 - 1 = {} /\ 1 \in 1 .. n
    BY <1>1
  <2>2. Starts(f, 1)
    BY <2>1
  <2> QED BY <2>1, <2>2
<1>3. ASSUME NEW i \in 1 .. n - 1, i \in T PROVE i + 1 \in T
  <2>1. PICK f \in [1 .. i -> Seq(S)] : Starts(f, i)
    BY <1>3
  <2> DEFINE h == [j \in 1 .. i + 1 |-> IF j = i + 1 THEN f[i] \o s[i + 1] ELSE f[j]]
  <2>2. i \in 1 .. i /\ i + 1 \in 1 .. n /\ 1 \in 1 .. i + 1 /\ 1 # i + 1
    BY <1>1
  <2>3. s[i + 1] \in Seq(S) /\ f[i] \in Seq(S) /\ f[i] \o s[i + 1] \in Seq(S)
    BY <1>1, <2>1, <2>2
  <2>4. h \in [1 .. i + 1 -> Seq(S)]
    BY <2>1, <2>3
  <2>5. ASSUME NEW j \in 1 .. (i + 1) - 1 PROVE h[j + 1] = h[j] \o s[j + 1]
    <3>1. j \in 1 .. i + 1 /\ j + 1 \in 1 .. i + 1 /\ j # i + 1 /\ (j = i \/ j \in 1 .. i - 1)
      BY <1>1
    <3>2. h[j] = f[j] /\ h[j + 1] = IF j = i THEN f[i] \o s[i + 1] ELSE f[j + 1]
      BY <3>1
    <3> QED BY <2>1, <3>1, <3>2
  <2>6. h[1] = s[1]
    BY <2>1, <2>2
  <2>7. Starts(h, i + 1)
    BY <2>5, <2>6
  <2> HIDE DEF h, Starts
  <2> QED BY <2>2, <2>4, <2>7
<1>4. n \in T
  <2> HIDE DEF n, T
  <2>1. \A i \in 1 .. n : i \in T
    BY <1>1, <1>2, <1>3, Induction
  <2> QED BY <1>1, <2>1
<1>5. PICK f \in [1 .. n -> Seq(S)] : Starts(f, n)
  BY <1>4
<1>6. f = [i \in 1 .. n |-> IF i = 1 THEN s[i] ELSE f[i - 1] \o s[i]]
  <2>1. ASSUME NEW i \in 1 .. n, i # 1 PROVE f[i] = f[i - 1] \o s[i]
    <3>1. i - 1 \in 1 .. n - 1 /\ (i - 1) + 1 = i
      BY <1>1, <2>1
    <3> QED BY <1>5, <3>1
  <2> QED BY <1>5, <2>1
<1>7. g = [i \in 1 .. n |-> IF i = 1 THEN s[i] ELSE g[i - 1] \o s[i]]
  BY <1>6
<1>8. FlattenSeq(s) = g[n]
  BY <1>1 DEF FlattenSeq
<1> HIDE DEF g
<1>9. /\ g[1] = s[1]
      /\ \A i \in 1 .. n - 1 : g[i + 1] = g[i] \o s[i + 1]
  <2>1. 1 \in 1 .. n
    BY <1>1
  <2>2. ASSUME NEW i \in 1 .. n - 1 PROVE g[i + 1] = g[i] \o s[i + 1]
    <3>1. i + 1 \in 1 .. n /\ i + 1 # 1 /\ (i + 1) - 1 = i
      BY <1>1
    <3> QED BY <1>7, <3>1
  <2> QED BY <1>7, <2>1, <2>2
<1>10. \A i \in 1 .. n : g[i] \in Seq(S)
  <2> DEFINE U == {i \in 1 .. n : g[i] \in Seq(S)}
  <2>1. 1 \in U
    BY <1>1, <1>9
  <2>2. ASSUME NEW i \in 1 .. n - 1, i \in U PROVE i + 1 \in U
    <3>1. i + 1 \in 1 .. n
      BY <1>1
    <3>2. s[i + 1] \in Seq(S) /\ g[i] \in Seq(S) /\ g[i + 1] = g[i] \o s[i + 1]
      BY <1>1, <1>9, <2>2, <3>1
    <3>3. g[i + 1] \in Seq(S)
      BY <3>2, ConcatProperties
    <3> QED BY <3>1, <3>3
  <2>3. \A i \in 1 .. n : i \in U
    <3> HIDE DEF n, U
    <3> QED BY <1>1, <2>1, <2>2, Induction
  <2> QED BY <2>3
<1>11. g \in [1 .. n -> Seq(S)]
  BY <1>7, <1>10
<1> QED BY <1>8, <1>9, <1>11

-----------------------------------------------------------------------------
\* The path as it grows: Q[i] is what the first i waypoints contribute.
Grows(Q, waypoints, step) ==
  /\ Q \in [1 .. Len(waypoints) -> Seq(Point)]
  /\ Q[1] = <<waypoints[1]>>
  /\ \A i \in 1 .. Len(waypoints) - 1 :
       Q[i + 1] = Q[i] \o Tail(Interpolate(waypoints[i], waypoints[i + 1], step))

\* What Connects says but for the reach, of the first i waypoints; the end of
\* Q[j] is where waypoint j is visited.
Walks(Q, waypoints, step, i) ==
  /\ Len(Q[i]) \in Nat \ {0} /\ Q[i][1] = waypoints[1]
  /\ \A j \in 1 .. i : Len(Q[j]) \in 1 .. Len(Q[i])
  /\ \A j \in 1 .. i - 1 :
       Leads(Q[i], Len(Q[j]), Len(Q[j + 1]) - Len(Q[j]), waypoints[j], waypoints[j + 1], step)

\* Concatenation is associative.
LEMMA Associates ==
  ASSUME NEW a \in Seq(Point), NEW b \in Seq(Point), NEW c \in Seq(Point)
  PROVE  (a \o b) \o c = a \o (b \o c)
BY ConcatAssociative

\* A plan (trajectory.py:52-71) grows by one segment per waypoint after the
\* first, each without its first point.
LEMMA PlanGrows ==
  ASSUME NEW waypoints \in Seq(Point), waypoints # << >>, NEW step \in Nat \ {0}
  PROVE  \E Q : Grows(Q, waypoints, step) /\ PlanPath(waypoints, step) = Q[Len(waypoints)]
<1> DEFINE n == Len(waypoints)
           first == <<waypoints[1]>>
           s == [i \in 1 .. n - 1 |-> Tail(Interpolate(waypoints[i], waypoints[i + 1], step))]
<1>1. n \in Nat \ {0} /\ \A i \in 1 .. n : waypoints[i] \in Point
  OBVIOUS
<1>2. first \in Seq(Point)
  BY <1>1
<1>3. PlanPath(waypoints, step) = first \o FlattenSeq(s)
  BY DEF PlanPath
<1>4. ASSUME NEW i \in 1 .. n - 1 PROVE s[i] \in Seq(Point)
  <2>1. waypoints[i] \in Point /\ waypoints[i + 1] \in Point
    BY <1>1
  <2> QED BY <2>1, Segment
<1>5. s \in Seq(Seq(Point)) /\ Len(s) = n - 1
  <2>1. s = [i \in 1 .. n - 1 |-> s[i]] /\ n - 1 \in Nat
    BY <1>1
  <2> HIDE DEF s
  <2> QED BY <1>4, <2>1
<1>6. CASE n = 1
  <2> DEFINE Q == [i \in 1 .. n |-> first]
  <2>1. FlattenSeq(s) = << >>
    BY <1>5, <1>6 DEF FlattenSeq
  <2>2. first \o << >> = first
    BY <1>2
  <2>3. Grows(Q, waypoints, step) /\ Q[n] = first
    BY <1>2, <1>6 DEF Grows
  <2> QED BY <1>3, <2>1, <2>2, <2>3
<1>7. CASE n # 1
  <2> HIDE DEF s
  <2>1. s # << >>
    <3> HIDE DEF n
    <3> QED BY <1>1, <1>5, <1>7
  <2>2. PICK f \in [1 .. n - 1 -> Seq(Point)] :
          /\ f[1] = s[1]
          /\ \A i \in 1 .. (n - 1) - 1 : f[i + 1] = f[i] \o s[i + 1]
          /\ FlattenSeq(s) = f[n - 1]
    <3> HIDE DEF n
    <3>1. \E f \in [1 .. Len(s) -> Seq(Point)] :
            /\ f[1] = s[1]
            /\ \A i \in 1 .. Len(s) - 1 : f[i + 1] = f[i] \o s[i + 1]
            /\ FlattenSeq(s) = f[Len(s)]
      BY <1>5, <2>1, Flattened, Zenon
    <3> QED BY <1>5, <3>1
  <2> DEFINE Q == [i \in 1 .. n |-> IF i = 1 THEN first ELSE first \o f[i - 1]]
  <2>3. Q \in [1 .. n -> Seq(Point)]
    <3>1. ASSUME NEW i \in 1 .. n, i # 1 PROVE first \o f[i - 1] \in Seq(Point)
      <4>1. i - 1 \in 1 .. n - 1
        BY <1>1, <3>1
      <4> HIDE DEF first
      <4> QED BY <1>2, <2>2, <4>1, ConcatProperties
    <3> HIDE DEF first
    <3> QED BY <1>2, <3>1
  <2>4. Q[1] = first /\ Q[n] = first \o f[n - 1]
    BY <1>1, <1>7
  <2>5. ASSUME NEW i \in 1 .. n - 1 PROVE Q[i + 1] = Q[i] \o s[i]
    <3>1. i \in 1 .. n /\ i + 1 \in 1 .. n /\ i + 1 # 1 /\ (i + 1) - 1 = i
      BY <1>1
    <3>2. Q[i + 1] = first \o f[i] /\ Q[i] = IF i = 1 THEN first ELSE first \o f[i - 1]
      BY <3>1
    <3>3. CASE i = 1
      BY <2>2, <3>2, <3>3
    <3>4. CASE i # 1
      <4>1. i - 1 \in 1 .. (n - 1) - 1 /\ (i - 1) + 1 = i /\ i - 1 \in 1 .. n - 1
        BY <1>1, <3>4
      <4>2. f[i] = f[i - 1] \o s[i] /\ f[i - 1] \in Seq(Point) /\ s[i] \in Seq(Point)
        BY <1>4, <2>2, <4>1
      <4> HIDE DEF first, Q
      <4>4. first \o (f[i - 1] \o s[i]) = (first \o f[i - 1]) \o s[i]
        BY <1>2, <4>2, Associates
      <4> QED BY <3>2, <3>4, <4>2, <4>4
    <3> QED BY <3>3, <3>4
  <2> HIDE DEF Q
  <2>6. Grows(Q, waypoints, step)
    BY <2>3, <2>4, <2>5 DEF Grows, s
  <2> QED BY <1>3, <2>2, <2>4, <2>6
<1> QED BY <1>6, <1>7

\* If the plan walks through a waypoint, it walks through the next one.
LEMMA NextSegment ==
  ASSUME NEW waypoints \in Seq(Point), NEW step \in Nat \ {0}, NEW Q, Grows(Q, waypoints, step),
         NEW i \in 1 .. Len(waypoints) - 1, Walks(Q, waypoints, step, i)
  PROVE  Walks(Q, waypoints, step, i + 1)
<1> DEFINE q == Q[i]
           r == Q[i + 1]
           a == waypoints[i]
           b == waypoints[i + 1]
           t == Tail(Interpolate(a, b, step))
<1>1. /\ a \in Point /\ b \in Point
      /\ i \in 1 .. Len(waypoints) /\ i + 1 \in 1 .. Len(waypoints) /\ i \in Nat \ {0}
  OBVIOUS
<1>2. /\ q \in Seq(Point) /\ r \in Seq(Point) /\ r = q \o t
      /\ Len(q) \in Nat \ {0} /\ q[1] = waypoints[1]
  BY <1>1 DEF Grows, Walks
<1>3. /\ \A j \in 1 .. i : Len(Q[j]) \in 1 .. Len(q)
      /\ \A j \in 1 .. i - 1 :
           Leads(q, Len(Q[j]), Len(Q[j + 1]) - Len(Q[j]), waypoints[j], waypoints[j + 1], step)
  BY DEF Walks
<1>4. t \in Seq(Point) /\ Leads(t, 0, Len(t), a, b, step)
  BY <1>1, Segment
<1> HIDE DEF q, r, a, b, t
<1>5. PICK m \in Nat \ {0} : m = Len(q)
  BY <1>2
<1>6. PICK l \in Nat : l = Len(t)
  BY <1>4
<1>7. /\ Len(r) = m + l /\ \A k \in 1 .. m : r[k] = q[k]
      /\ \A k \in 1 .. l : r[m + k] = t[k]
  BY <1>2, <1>4, <1>5, <1>6, ConcatProperties
<1>8. Len(r) \in Nat \ {0} /\ r[1] = waypoints[1]
  <2>1. 1 \in 1 .. m
    OBVIOUS
  <2> QED BY <1>2, <1>7, <2>1
<1>9. ASSUME NEW j \in 1 .. i + 1 PROVE Len(Q[j]) \in 1 .. Len(r)
  <2>1. CASE j \in 1 .. i
    <3>1. Len(Q[j]) \in 1 .. m
      BY <1>3, <1>5, <2>1
    <3> QED BY <1>7, <3>1
  <2>2. CASE j = i + 1
    BY <1>8, <2>2 DEF r
  <2> QED BY <1>1, <2>1, <2>2
<1>10. ASSUME NEW j \in 1 .. (i + 1) - 1
       PROVE  Leads(r, Len(Q[j]), Len(Q[j + 1]) - Len(Q[j]), waypoints[j], waypoints[j + 1], step)
  <2>1. CASE j \in 1 .. i - 1
    <3> DEFINE f == Len(Q[j])
               n == Len(Q[j + 1]) - Len(Q[j])
    <3>1. f \in 1 .. m /\ f + n \in 1 .. m /\ n \in Int
      <4>1. j \in 1 .. i /\ j + 1 \in 1 .. i
        BY <1>1, <2>1
      <4>2. Len(Q[j]) \in 1 .. m /\ Len(Q[j + 1]) \in 1 .. m
        BY <1>3, <1>5, <4>1
      <4> QED BY <4>2
    <3>2. Leads(q, f, n, waypoints[j], waypoints[j + 1], step)
      BY <1>3, <2>1
    <3> HIDE DEF f, n
    <3>3. \A k \in 1 .. n : r[f + k] = q[f + k]
      <4>1. \A k \in 1 .. n : f + k \in 1 .. m
        BY <3>1
      <4> QED BY <1>7, <4>1
    <3>4. Leads(r, f, n, waypoints[j], waypoints[j + 1], step)
      BY <3>2, <3>3 DEF Leads
    <3> QED BY <3>4 DEF f, n
  <2>2. CASE j = i
    <3>1. Len(Q[j]) = m /\ Len(Q[j + 1]) - Len(Q[j]) = l
      BY <1>5, <1>7, <2>2 DEF q, r
    <3>2. \A k \in 1 .. l : 0 + k = k /\ r[m + k] = t[0 + k]
      BY <1>7
    <3>3. Leads(t, 0, l, a, b, step)
      BY <1>4, <1>6
    <3>4. Leads(r, m, l, a, b, step)
      BY <3>2, <3>3 DEF Leads
    <3> QED BY <2>2, <3>1, <3>4 DEF a, b
  <2>3. j \in 1 .. i - 1 \/ j = i
    <3>1. i \in Nat
      BY <1>1
    <3> QED BY <3>1
  <2> QED BY <2>1, <2>2, <2>3
<1> QED BY <1>1, <1>8, <1>9, <1>10 DEF Walks, r

\* A planned path connects its waypoints.
LEMMA PlanConnects ==
  ASSUME NEW waypoints \in Seq(Point), waypoints # << >>, NEW step \in Nat \ {0},
         ~Breaches(waypoints, step)
  PROVE  Connects(PlanPath(waypoints, step), waypoints, step)
<1> DEFINE n == Len(waypoints)
           path == PlanPath(waypoints, step)
<1>1. n \in Nat \ {0} /\ DOMAIN waypoints = 1 .. n
  OBVIOUS
<1>2. PICK Q : Grows(Q, waypoints, step) /\ path = Q[n]
  BY PlanGrows
<1>3. Walks(Q, waypoints, step, 1)
  <2>1. 1 \in 1 .. n /\ Q[1] = <<waypoints[1]>> /\ 1 .. 1 - 1 = {}
    BY <1>1, <1>2 DEF Grows
  <2>2. Len(Q[1]) = 1 /\ Q[1][1] = waypoints[1]
    BY <2>1
  <2>3. (\A j \in 1 .. 1 : j = 1) /\ 1 \in Nat \ {0} /\ 1 \in 1 .. 1
    OBVIOUS
  <2> QED BY <2>1, <2>2, <2>3 DEF Walks
<1>4. Walks(Q, waypoints, step, n)
  <2> DEFINE T == {i \in 1 .. n : Walks(Q, waypoints, step, i)}
  <2>1. 1 \in T
    BY <1>1, <1>3
  <2>2. ASSUME NEW i \in 1 .. n - 1, i \in T PROVE i + 1 \in T
    BY <1>1, <1>2, <2>2, NextSegment
  <2>3. \A i \in 1 .. n : i \in T
    <3> HIDE DEF n, T
    <3> QED BY <1>1, <2>1, <2>2, Induction
  <2> QED BY <1>1, <2>3
<1>5. path \in Seq(Point) /\ DOMAIN path = 1 .. Len(path)
  BY <1>1, <1>2 DEF Grows
<1> DEFINE visit == [j \in 1 .. n |-> Len(Q[j])]
<1> HIDE DEF path
<1>6. visit \in [DOMAIN waypoints -> DOMAIN path]
  BY <1>1, <1>2, <1>4, <1>5 DEF Walks
<1>7. visit[1] = 1 /\ visit[n] = Len(path)
  <2>1. Q[1] = <<waypoints[1]>>
    BY <1>2 DEF Grows
  <2>2. Len(Q[1]) = 1 /\ 1 \in 1 .. n /\ n \in 1 .. n
    BY <1>1, <2>1
  <2> QED BY <1>2, <2>2
<1>8. path[1] = waypoints[1]
  BY <1>2, <1>4 DEF Walks
<1>9. ASSUME NEW w \in 1 .. n - 1
      PROVE  Leads(path, visit[w], visit[w + 1] - visit[w], waypoints[w], waypoints[w + 1], step)
  <2>1. visit[w] = Len(Q[w]) /\ visit[w + 1] = Len(Q[w + 1])
    BY <1>1
  <2> HIDE DEF visit
  <2> QED BY <1>2, <1>4, <2>1 DEF Walks
<1>10. \A i \in DOMAIN path : Reachable(path[i])
  BY DEF Breaches, path
<1> HIDE DEF visit
<1> QED BY <1>6, <1>7, <1>8, <1>9, <1>10 DEF Connects, path

\* Every planned path consists of points of the grid.
LEMMA PlanType ==
  ASSUME NEW waypoints \in Seq(Point), waypoints # << >>, NEW step \in Nat \ {0}
  PROVE  PlanPath(waypoints, step) \in Seq(Point)
<1>1. PICK Q : Grows(Q, waypoints, step) /\ PlanPath(waypoints, step) = Q[Len(waypoints)]
  BY PlanGrows
<1> QED BY <1>1 DEF Grows

-----------------------------------------------------------------------------
(***************************************************************************)
(* The daemon and the handlers.                                            *)
(***************************************************************************)
\* A request between validation and the lock carries poses of the servos: all
\* of its path's, and no point of the path is out of reach.
Planned(request) ==
  /\ request.poses \in Seq(Pose)
  /\ request.waypoints # None =>
       /\ request.waypoints \in Paths /\ request.step \in Steps
       /\ ~Breaches(request.waypoints, request.step)
       /\ request.poses = JointTrajectory(request.waypoints, request.step)
HandlingOK == handling # None => Planned(handling)

\* Where the port is open, by the daemon's step.
PortByStep == /\ pc \in Motion \cup {"burst", "tick", "answer", "sleep"} => ser
              /\ pc \in {"open", "done"} => ~ser
              /\ pc = "burst" => wire = None

\* How old the last frame can be before the step that sends the next one; on a
\* new port a heartbeat is due.
AgeByStep == /\ Driven => (pc = "sleep" => age <= HEARTBEAT_INTERVAL_SEC)
                          /\ (pc = "answer" => age = 0)
             /\ ser /\ ~Driven => age >= HEARTBEAT_INTERVAL_SEC

\* The step that is about to be written: short, and towards the target.
StepPending == pc \in Motion =>
  /\ lost = 0 => Follows(sent, last_known_angles, target_joint_angles)
  /\ Driven => /\ Follows(wire.pose, last_known_angles, target_joint_angles)
               /\ pc = "HBT" => (last_known_angles = wire.pose)

\* How far the pose that was sent last can be behind.
Ahead == lost + (IF pc \in Motion THEN 1 ELSE 0)
Lag == \A j \in Joint :
         Distance(sent[j], last_known_angles[j]) <= SLEW_RATE_MAX_DELTA_DEG * Ahead

\* Everything but the types of the flags.
Core == /\ ValuesOK /\ NominalIsOpen /\ KeepsFed /\ SentIsKnown
        /\ HandlingOK /\ PortByStep /\ AgeByStep /\ StepPending /\ Lag
IInv == FlagsOK /\ Core

-----------------------------------------------------------------------------
\* One slew step of a joint stays in the servo's range, is short, and lies
\* between where the joint is and where it shall go.
LEMMA StepOK ==
  ASSUME NEW from \in 0 .. MAX_ANGLE, NEW to \in 0 .. MAX_ANGLE
  PROVE  LET next == from + Step(to - from)
         IN /\ next \in 0 .. MAX_ANGLE
            /\ Distance(from, next) <= SLEW_RATE_MAX_DELTA_DEG
            /\ Distance(from, next) + Distance(next, to) = Distance(from, to)
            /\ from = to => next = from
BY AnglesAssumption, SlewAssumption DEF Step, Distance

LEMMA ClampedOK ==
  ASSUME NEW a \in Int
  PROVE  /\ Clamped(a) \in 0 .. MAX_ANGLE
         /\ a \in 0 .. MAX_ANGLE => Clamped(a) = a
BY AnglesAssumption DEF Clamped

\* A frame carries a pose of the servos as it is.
LEMMA FrameOK ==
  ASSUME NEW cmd, NEW pose \in Pose
  PROVE  Frame(cmd, pose) = [cmd |-> cmd, pose |-> pose]
<1>1. [j \in Joint |-> Clamped(pose[j])] = pose
  BY ClampedOK, AnglesAssumption DEF Pose
<1> QED BY <1>1 DEF Frame

\* The square of a coordinate bounds the coordinate.
LEMMA WithinReach ==
  ASSUME NEW p \in Point, Reachable(p)
  PROVE  p \in Space
<1>1. ASSUME NEW x \in Int, x * x <= SAFE_MAX_REACH * SAFE_MAX_REACH
      PROVE  x \in 0 - SAFE_MAX_REACH .. SAFE_MAX_REACH
  <2>1. SAFE_MAX_REACH \in Nat
    BY ReachAssumption
  <2>2. CASE x > SAFE_MAX_REACH
    <3>1. x * x >= x * SAFE_MAX_REACH /\ x * SAFE_MAX_REACH >= SAFE_MAX_REACH * SAFE_MAX_REACH
      BY <2>1, <2>2
    <3>2. x * x > SAFE_MAX_REACH * SAFE_MAX_REACH
      BY <2>1, <2>2
    <3> QED BY <1>1, <2>1, <3>2
  <2>3. CASE x < 0 - SAFE_MAX_REACH
    <3> DEFINE y == 0 - x
    <3>1. y \in Int /\ y > SAFE_MAX_REACH /\ y * y = x * x
      BY <2>1, <2>3
    <3> HIDE DEF y
    <3>2. y * y > SAFE_MAX_REACH * SAFE_MAX_REACH
      BY <2>1, <3>1
    <3> QED BY <1>1, <2>1, <3>1, <3>2
  <2> QED BY <2>1, <2>2, <2>3
<1> DEFINE On(a) == p[a] * p[a]
<1>2. ASSUME NEW a \in Axis PROVE p[a] \in Int /\ On(a) \in Nat
  <2>1. p[a] \in Int
    BY DEF Point
  <2>2. ASSUME NEW x \in Int PROVE x * x \in Nat
    OBVIOUS
  <2> QED BY <2>1, <2>2
<1>3. 1 \in Axis /\ 2 \in Axis /\ 3 \in Axis /\ \A a \in Axis : a = 1 \/ a = 2 \/ a = 3
  BY DEF Axis
<1>4. On(1) + On(2) + On(3) <= SAFE_MAX_REACH * SAFE_MAX_REACH
  <2>1. Squared(p, <<0, 0, 0>>) = On(1) + On(2) + On(3)
    <3>1. p[1] - 0 = p[1] /\ p[2] - 0 = p[2] /\ p[3] - 0 = p[3]
      BY <1>2, <1>3
    <3> QED BY <3>1 DEF Squared
  <2>2. Squared(p, <<0, 0, 0>>) <= SAFE_MAX_REACH * SAFE_MAX_REACH
    BY DEF Reachable
  <2> QED BY <2>1, <2>2
<1>5. SAFE_MAX_REACH * SAFE_MAX_REACH \in Nat
  BY ReachAssumption
<1>6. ASSUME NEW a \in Axis PROVE p[a] \in 0 - SAFE_MAX_REACH .. SAFE_MAX_REACH
  <2>1. On(a) <= SAFE_MAX_REACH * SAFE_MAX_REACH
    <3>1. On(1) \in Nat /\ On(2) \in Nat /\ On(3) \in Nat
      BY <1>2, <1>3
    <3> HIDE DEF On
    <3> QED BY <1>3, <1>4, <1>5, <3>1
  <2> QED BY <1>1, <1>2, <2>1
<1> QED BY <1>6 DEF Space, Point

\* What a validated request queues are poses of the servos.
LEMMA TrajectoryOK ==
  ASSUME NEW waypoints \in Paths, NEW step \in Steps, ~Breaches(waypoints, step)
  PROVE  JointTrajectory(waypoints, step) \in Seq(Pose)
<1> DEFINE path == PlanPath(waypoints, step)
<1>1. path \in Seq(Point)
  BY RequestsAssumption, PlanType DEF None
<1>2. ASSUME NEW i \in DOMAIN path PROVE JointAngles(path[i]) \in Pose
  <2>1. path[i] \in Point /\ Reachable(path[i])
    BY <1>1, <1>2 DEF Breaches
  <2>2. Solved(path[i]) \in [Joint -> Int]
    BY <2>1, WithinReach, AnglesAssumption
  <2>3. \A j \in Joint : Clamped(Solved(path[i])[j]) \in 0 .. MAX_ANGLE
    BY <2>2, ClampedOK
  <2> QED BY <2>3 DEF JointAngles, Pose
<1>3. [i \in DOMAIN path |-> JointAngles(path[i])] \in Seq(Pose)
  <2>1. DOMAIN path = 1 .. Len(path) /\ Len(path) \in Nat
    BY <1>1
  <2> QED BY <2>1, <1>2
<1> QED BY <1>3 DEF JointTrajectory

LEMMA AgeOK ==
  ASSUME age \in 0 .. WATCHDOG_TIMEOUT_SEC, NEW t \in Nat, Older(t)
  PROVE  age' \in 0 .. WATCHDOG_TIMEOUT_SEC /\ age' <= age + t
BY TimesAssumption DEF Older, Least

-----------------------------------------------------------------------------
LEMMA InitOK == Init => IInv
<1> SUFFICES ASSUME Init PROVE IInv
  OBVIOUS
<1>1. FlagsOK
  BY DEF Init, FlagsOK
<1>2. ValuesOK
  BY TimesAssumption, RequestsAssumption, BoundsAssumption, CapacityAssumption
  DEF Init, ValuesOK
<1>3. Lag
  <2>1. \A j \in Joint : Home[j] \in Int
    BY RequestsAssumption, AnglesAssumption DEF Pose
  <2>2. Ahead = 0 /\ SLEW_RATE_MAX_DELTA_DEG * 0 = 0
    BY SlewAssumption DEF Init, Ahead, Motion
  <2> QED BY <2>1, <2>2 DEF Init, Lag, Distance
<1>4. /\ NominalIsOpen /\ KeepsFed /\ SentIsKnown /\ HandlingOK /\ PortByStep /\ AgeByStep
      /\ StepPending
  BY DEF Init, NominalIsOpen, KeepsFed, SentIsKnown, HandlingOK, PortByStep, AgeByStep, StepPending,
         Motion, Driven, None
<1> QED BY <1>1, <1>2, <1>3, <1>4 DEF IInv, Core

\* A flag is always set to a flag.
LEMMA FlagsPreserved == FlagsOK /\ [Next]_vars => FlagsOK'
<1> SUFFICES ASSUME FlagsOK, [Next]_vars PROVE FlagsOK'
  OBVIOUS
<1> USE DEF FlagsOK, slew, link, ingress, written
<1>1. ASSUME NEW request, Accept(request) PROVE FlagsOK'
  BY <1>1 DEF Accept
<1>2. CASE Enqueue \/ Shutdown
  BY <1>2 DEF Enqueue, Shutdown
<1>3. CASE Loop \/ Open \/ Burst \/ Tick
  BY <1>3 DEF Loop, Open, Burst, Tick
<1>4. CASE Write \/ LinkFails \/ Sleep
  BY <1>4 DEF Write, LinkFails, CloseLink, Sleep
<1>5. ASSUME NEW line \in SUBSET {"K", "E", "H"}, Answer(line) PROVE FlagsOK'
  BY <1>5 DEF Answer, HeldAfter, CloseLink
<1>6. CASE UNCHANGED vars
  BY <1>6 DEF vars
<1> QED BY <1>1, <1>2, <1>3, <1>4, <1>5, <1>6
    DEF Next, PostWaypoint, PostTrajectory, Daemon, Finished

-----------------------------------------------------------------------------
\* Core is what every step preserves, handler by handler and step by step of
\* the daemon.  Most of it is about the daemon and what it has written.
Daemonic == <<slew, link, pc, age, written>>

LEMMA Undisturbed ==
  ASSUME Core, UNCHANGED Daemonic
  PROVE  /\ NominalIsOpen' /\ KeepsFed' /\ SentIsKnown' /\ PortByStep' /\ AgeByStep'
         /\ StepPending' /\ Lag'
BY DEF Daemonic, Core, NominalIsOpen, KeepsFed, SentIsKnown, PortByStep, AgeByStep, StepPending, Lag,
       Ahead, Driven, Follows, slew, link, written

LEMMA AcceptOK ==
  ASSUME Core, NEW request, Planned(request), Accept(request)
  PROVE  Core'
<1>1. ValuesOK'
  BY BoundsAssumption DEF Accept, Core, ValuesOK, slew, link, written
<1>2. HandlingOK'
  BY DEF Accept, HandlingOK, Planned
<1>3. UNCHANGED Daemonic
  BY DEF Accept, Daemonic
<1> QED BY <1>1, <1>2, <1>3, Undisturbed DEF Core

LEMMA EnqueueOK ==
  ASSUME Core, Enqueue
  PROVE  /\ Core'
         /\ waypoint_queue' \in {waypoint_queue, waypoint_queue \o handling.poses}
<1>1. UNCHANGED Daemonic /\ HandlingOK'
  BY DEF Enqueue, Daemonic, HandlingOK
<1>2. CASE Fits(handling.poses)
  <2>1. /\ waypoint_queue \in Seq(Pose) /\ handling.poses \in Seq(Pose)
        /\ Len(waypoint_queue \o handling.poses) = Len(waypoint_queue) + Len(handling.poses)
        /\ waypoint_queue \o handling.poses \in Seq(Pose)
    BY DEF Core, HandlingOK, Planned, Enqueue, ValuesOK
  <2>2. Len(waypoint_queue \o handling.poses) <= QUEUE_MAX_CAPACITY
    BY <1>2, <2>1, CapacityAssumption DEF Fits
  <2>3. waypoint_queue' = waypoint_queue \o handling.poses
    BY <1>2, <2>2 DEF Enqueue, Appended
  <2>4. ValuesOK'
    BY <2>1, <2>2, <2>3 DEF Enqueue, Core, ValuesOK, slew, link, written
  <2> QED BY <1>1, <2>3, <2>4, Undisturbed DEF Core
<1>3. CASE ~Fits(handling.poses)
  <2>1. ValuesOK' /\ waypoint_queue' = waypoint_queue
    BY <1>3 DEF Enqueue, Core, ValuesOK, slew, link, written
  <2> QED BY <1>1, <2>1, Undisturbed DEF Core
<1> QED BY <1>2, <1>3

LEMMA ShutdownOK ==
  ASSUME Core, Shutdown
  PROVE  Core'
<1>1. UNCHANGED Daemonic /\ ValuesOK' /\ HandlingOK'
  BY DEF Shutdown, Daemonic, Core, ValuesOK, HandlingOK, slew, link, written
<1> QED BY <1>1, Undisturbed DEF Core

\* Between two frames of the loop nothing of the slew changes.
LEMMA Between ==
  ASSUME Core, UNCHANGED <<slew, sent, lost>>, pc \notin Motion, pc' \notin Motion
  PROVE  Lag' /\ StepPending'
BY DEF Core, Lag, Ahead, StepPending, slew

LEMMA LoopOK ==
  ASSUME IInv, Loop
  PROVE  Core'
<1>1. pc = "loop" /\ pc' \in {"done", "tick", "open"} /\ UNCHANGED <<slew, written, age>>
  BY DEF Loop
<1>2. Lag' /\ StepPending'
  BY <1>1, Between DEF IInv, Motion, written
<1>3. ValuesOK'
  BY <1>1 DEF Loop, IInv, Core, ValuesOK, slew, link, ingress, written
<1> QED BY <1>1, <1>2, <1>3
    DEF Loop, IInv, FlagsOK, Core, NominalIsOpen, KeepsFed, SentIsKnown, HandlingOK, PortByStep,
        AgeByStep, Driven, Motion, slew, link, ingress, written

LEMMA OpenOK ==
  ASSUME IInv, Open
  PROVE  Core'
<1>1. pc = "open" /\ pc' \in {"burst", "loop"} /\ UNCHANGED <<slew, sent, lost>>
  BY DEF Open
<1>2. Lag' /\ StepPending'
  BY <1>1, Between DEF IInv, Motion
<1>3. age \in 0 .. WATCHDOG_TIMEOUT_SEC
  BY DEF IInv, Core, ValuesOK
<1>4. CASE ser' = TRUE /\ wire' = None /\ pc' = "burst" /\ Older(RESET)
           /\ UNCHANGED <<serial_bus_nominal, faults>>
  <2>1. age' \in 0 .. WATCHDOG_TIMEOUT_SEC /\ age' >= HEARTBEAT_INTERVAL_SEC
    BY <1>3, <1>4, TimesAssumption DEF Older, Least
  <2>2. ValuesOK'
    BY <1>1, <1>4, <2>1 DEF Open, IInv, Core, ValuesOK, slew, link, ingress
  <2> QED BY <1>1, <1>2, <1>4, <2>1, <2>2
      DEF Open, IInv, FlagsOK, Core, NominalIsOpen, KeepsFed, SentIsKnown, HandlingOK, PortByStep,
          AgeByStep, Driven, Motion, slew, link, ingress
<1>5. CASE Fault /\ serial_bus_nominal' = FALSE /\ pc' = "loop" /\ Older(RESET \div 2)
           /\ UNCHANGED <<ser, wire>>
  <2>1. age' \in 0 .. WATCHDOG_TIMEOUT_SEC
    BY <1>3, <1>5, TimesAssumption DEF Older, Least
  <2>2. ~ser
    BY <1>1 DEF IInv, Core, PortByStep
  <2>3. ValuesOK'
    BY <1>1, <1>5, <2>1, BoundsAssumption
    DEF Open, Fault, IInv, Core, ValuesOK, slew, link, ingress
  <2> QED BY <1>1, <1>2, <1>5, <2>2, <2>3
      DEF Open, IInv, FlagsOK, Core, NominalIsOpen, KeepsFed, SentIsKnown, HandlingOK, PortByStep,
          AgeByStep, Driven, Motion, slew, link, ingress
<1> QED BY <1>4, <1>5 DEF Open

\* The burst leaves a heartbeat due.
LEMMA BurstOK ==
  ASSUME IInv, Burst
  PROVE  Core'
<1>1. /\ pc = "burst" /\ pc' \in {"tick", "loop"} /\ UNCHANGED <<slew, ser, sent, lost>>
      /\ wire = None /\ wire' \in {wire, Frame("H", Home)}
  BY DEF Burst, IInv, Core, PortByStep
<1>2. Lag' /\ StepPending'
  BY <1>1, Between DEF IInv, Motion
<1>3. ser /\ ~Driven /\ age \in 0 .. WATCHDOG_TIMEOUT_SEC /\ age >= HEARTBEAT_INTERVAL_SEC
  BY <1>1 DEF IInv, Core, ValuesOK, PortByStep, AgeByStep, Driven
<1>4. Frame("H", Home) = [cmd |-> "H", pose |-> Home] /\ Home \in Pose
  BY FrameOK, RequestsAssumption
<1>5. ~Driven' /\ wire' \in [cmd : Motion \cup {"H"}, pose : Pose] \cup {None}
  BY <1>1, <1>4 DEF Driven, None
<1>6. age' \in 0 .. WATCHDOG_TIMEOUT_SEC /\ age' >= HEARTBEAT_INTERVAL_SEC
  BY <1>3, TimesAssumption DEF Burst, Older, Least
<1>7. ValuesOK'
  BY <1>1, <1>5, <1>6, BoundsAssumption
  DEF Burst, Fault, IInv, Core, ValuesOK, slew, link, ingress
<1>8. NominalIsOpen' /\ KeepsFed' /\ AgeByStep' /\ HandlingOK'
  BY <1>1, <1>3, <1>5, <1>6
  DEF Burst, IInv, Core, NominalIsOpen, KeepsFed, AgeByStep, HandlingOK, ingress
<1>9. SentIsKnown' /\ PortByStep'
  BY <1>1, <1>3, <1>5 DEF IInv, Core, SentIsKnown, PortByStep, Motion, slew
<1> QED BY <1>2, <1>7, <1>8, <1>9 DEF Core

\* Following a pose from itself is no step at all.
LEMMA FollowsItself ==
  ASSUME NEW pose \in Pose, NEW target \in Pose
  PROVE  Follows(pose, pose, target)
BY SlewAssumption, AnglesAssumption DEF Follows, Distance, Pose

\* The daemon pops, and steps from the pose that was sent last.
LEMMA TickOK ==
  ASSUME Core, Tick
  PROVE  /\ Core'
         /\ waypoint_queue' \in {waypoint_queue, Tail(waypoint_queue)}
<1> DEFINE target == IF waypoint_queue = << >> THEN target_joint_angles
                                               ELSE Head(waypoint_queue)
           stepped == [j \in Joint |->
                         last_known_angles[j] + Step(target[j] - last_known_angles[j])]
<1>1. /\ target \in Pose /\ last_known_angles \in Pose
      /\ waypoint_queue' \in Seq(Pose) /\ Len(waypoint_queue') <= QUEUE_MAX_CAPACITY
      /\ waypoint_queue' \in {waypoint_queue, Tail(waypoint_queue)}
  BY CapacityAssumption DEF Core, ValuesOK, Tick
<1>2. /\ target_joint_angles' = target /\ last_known_angles' = stepped
      /\ pc' = IF target # last_known_angles THEN "DRV"
               ELSE IF HeartbeatDue THEN "HBT" ELSE "sleep"
  BY DEF Tick
<1>3. /\ stepped \in Pose
      /\ Follows(last_known_angles, stepped, target)
      /\ target = last_known_angles => stepped = last_known_angles
  <2>1. ASSUME NEW j \in Joint
        PROVE  /\ stepped[j] \in 0 .. MAX_ANGLE
               /\ Distance(last_known_angles[j], stepped[j]) <= SLEW_RATE_MAX_DELTA_DEG
               /\ Distance(last_known_angles[j], stepped[j]) + Distance(stepped[j], target[j])
                  = Distance(last_known_angles[j], target[j])
               /\ target[j] = last_known_angles[j] => stepped[j] = last_known_angles[j]
    <3>1. last_known_angles[j] \in 0 .. MAX_ANGLE /\ target[j] \in 0 .. MAX_ANGLE
      BY <1>1, <2>1 DEF Pose
    <3> QED BY <3>1, StepOK
  <2>2. stepped \in Pose
    BY <2>1 DEF Pose
  <2>3. Follows(last_known_angles, stepped, target)
    BY <2>1 DEF Follows
  <2>4. target = last_known_angles => stepped = last_known_angles
    BY <1>1, <2>1 DEF Pose
  <2> QED BY <2>2, <2>3, <2>4
<1> HIDE DEF target, stepped
<1>4. ValuesOK'
  BY <1>1, <1>2, <1>3 DEF Tick, Core, ValuesOK, Motion, link, ingress, written
<1>5. /\ pc = "tick" /\ ser /\ UNCHANGED <<ser, wire, sent, lost, age>>
      /\ Driven => wire.pose = last_known_angles
      /\ lost = 0 => sent = last_known_angles
  BY DEF Tick, Core, SentIsKnown, PortByStep, Motion, link, written
<1>6. NominalIsOpen' /\ KeepsFed' /\ HandlingOK' /\ PortByStep'
  BY <1>2, <1>5 DEF Tick, Core, NominalIsOpen, KeepsFed, HandlingOK, PortByStep, Driven, Motion, link,
                    ingress, written
<1>7. age \in Nat /\ (pc' = "sleep" => ~HeartbeatDue)
  BY <1>2 DEF Core, ValuesOK
<1>8. AgeByStep'
  BY <1>2, <1>5, <1>7, TimesAssumption DEF Core, AgeByStep, HeartbeatDue, Driven
<1>9. SentIsKnown'
  <2>1. pc' \notin Motion => pc' = "sleep" /\ target = last_known_angles
    BY <1>2 DEF Motion
  <2>2. pc' = "sleep" => Driven
    BY <1>5, <1>7, TimesAssumption DEF Core, AgeByStep, HeartbeatDue
  <2> QED BY <1>2, <1>3, <1>5, <2>1, <2>2 DEF SentIsKnown, Driven
<1>10. StepPending'
  <2>1. pc' = "HBT" => target = last_known_angles
    BY <1>2
  <2>2. Follows(last_known_angles', last_known_angles', target)
        /\ Follows(last_known_angles, last_known_angles', target_joint_angles')
    BY <1>1, <1>2, <1>3, FollowsItself
  <2> QED BY <1>2, <1>3, <1>5, <2>1, <2>2 DEF StepPending, Driven
<1>11. Lag'
  <2> SUFFICES ASSUME NEW j \in Joint
               PROVE  Distance(sent[j], stepped[j]) <= SLEW_RATE_MAX_DELTA_DEG * Ahead'
    BY <1>2, <1>5 DEF Lag
  <2>1. sent[j] \in Int /\ last_known_angles[j] \in Int /\ stepped[j] \in Int
    BY <1>1, <1>3, AnglesAssumption DEF Core, ValuesOK, Pose
  <2>2. lost \in Nat /\ SLEW_RATE_MAX_DELTA_DEG * (lost + 1)
                         = SLEW_RATE_MAX_DELTA_DEG * lost + SLEW_RATE_MAX_DELTA_DEG
    BY SlewAssumption, BoundsAssumption DEF Core, ValuesOK
  <2>3. Distance(sent[j], last_known_angles[j]) <= SLEW_RATE_MAX_DELTA_DEG * lost
    <3>1. Ahead = lost
      BY <1>5, <2>2 DEF Ahead, Motion
    <3> QED BY <3>1 DEF Core, Lag
  <2>4. CASE pc' \in Motion
    <3>1. Ahead' = lost + 1
      BY <1>5, <2>4 DEF Ahead
    <3>2. Distance(last_known_angles[j], stepped[j]) <= SLEW_RATE_MAX_DELTA_DEG
      BY <1>3 DEF Follows
    <3>3. Distance(sent[j], stepped[j]) <= Distance(sent[j], last_known_angles[j])
                                             + Distance(last_known_angles[j], stepped[j])
      BY <2>1 DEF Distance
    <3>4. Distance(sent[j], last_known_angles[j]) \in Int
          /\ Distance(last_known_angles[j], stepped[j]) \in Int /\ Distance(sent[j], stepped[j]) \in Int
      BY <2>1 DEF Distance
    <3>5. SLEW_RATE_MAX_DELTA_DEG * lost \in Int /\ SLEW_RATE_MAX_DELTA_DEG \in Int
      BY <2>2, SlewAssumption
    <3> QED BY <2>2, <2>3, <3>1, <3>2, <3>3, <3>4, <3>5
  <2>5. CASE pc' \notin Motion
    <3>1. stepped = last_known_angles
      BY <1>2, <1>3, <2>5 DEF Motion
    <3>2. Ahead' = lost
      BY <1>5, <2>2, <2>5 DEF Ahead
    <3> QED BY <2>3, <3>1, <3>2
  <2> QED BY <2>4, <2>5
<1> QED BY <1>1, <1>4, <1>6, <1>8, <1>9, <1>10, <1>11 DEF Core

\* A frame of the loop, when it is written.
LEMMA SendsOK ==
  ASSUME Core, pc \in Motion, Sends, UNCHANGED slew
  PROVE  /\ wire' = [cmd |-> pc, pose |-> last_known_angles] /\ Driven'
         /\ sent' = last_known_angles /\ lost' = 0
         /\ pc' \notin Motion => Lag'
<1>1. last_known_angles \in Pose
  BY DEF Core, ValuesOK
<1>2. wire' = [cmd |-> pc, pose |-> last_known_angles]
  BY <1>1, FrameOK DEF Sends
<1>3. wire'.pose = last_known_angles /\ wire'.cmd = pc
  BY <1>2
<1>4. Driven'
  BY <1>2, <1>3 DEF Driven, None, Motion
<1>5. sent' = last_known_angles /\ lost' = 0
  BY <1>3 DEF Sends
<1>6. ASSUME pc' \notin Motion PROVE Lag'
  <2>1. Ahead' = 0 /\ SLEW_RATE_MAX_DELTA_DEG * 0 = 0
    BY <1>5, <1>6, SlewAssumption DEF Ahead
  <2>2. last_known_angles' = last_known_angles
    BY DEF slew
  <2>3. \A j \in Joint : last_known_angles[j] \in Int
    BY <1>1, AnglesAssumption DEF Pose
  <2> QED BY <1>5, <2>1, <2>2, <2>3 DEF Lag, Distance
<1> QED BY <1>2, <1>4, <1>5, <1>6

LEMMA WriteOK ==
  ASSUME Core, Write
  PROVE  Core'
<1>1. /\ pc \in Motion /\ Sends /\ age' = 0 /\ pc' = "answer" /\ pc' \notin Motion
      /\ UNCHANGED <<waypoint_queue, slew, link, ingress, faults>>
  BY DEF Write, Motion
<1>2. /\ wire' = [cmd |-> pc, pose |-> last_known_angles] /\ Driven'
      /\ sent' = last_known_angles /\ lost' = 0 /\ Lag'
  BY <1>1, SendsOK
<1>3. ValuesOK'
  BY <1>1, <1>2, TimesAssumption DEF Core, ValuesOK, slew, link, ingress
<1>4. wire' # None /\ wire'.pose = last_known_angles'
  BY <1>1, <1>2 DEF Driven, slew
<1> QED BY <1>1, <1>2, <1>3, <1>4, TimesAssumption
    DEF Core, NominalIsOpen, KeepsFed, SentIsKnown, HandlingOK, PortByStep, AgeByStep, StepPending,
        Motion, slew, link, ingress

LEMMA AnswerOK ==
  ASSUME Core, NEW line, Answer(line)
  PROVE  Core'
<1>1. pc = "answer" /\ pc' \in {"sleep", "loop"} /\ UNCHANGED <<slew, written, age, ingress>>
  BY DEF Answer, CloseLink
<1>2. Lag' /\ StepPending'
  BY <1>1, Between DEF Motion, written
<1>3. ValuesOK' /\ HandlingOK'
  BY <1>1 DEF Answer, Core, ValuesOK, HandlingOK, slew, ingress, written
<1>4. ser /\ Driven /\ age = 0
  BY <1>1 DEF Core, SentIsKnown, PortByStep, AgeByStep, Motion
<1>5. CASE pc' = "sleep" /\ UNCHANGED <<serial_bus_nominal, ser>>
  BY <1>1, <1>2, <1>3, <1>4, <1>5, TimesAssumption
  DEF Core, NominalIsOpen, KeepsFed, SentIsKnown, PortByStep, AgeByStep, Driven, Motion, slew, written
<1>6. CASE CloseLink
  BY <1>1, <1>2, <1>3, <1>4, <1>6
  DEF CloseLink, Core, NominalIsOpen, KeepsFed, SentIsKnown, PortByStep, AgeByStep, Driven, Motion,
      slew, written
<1> QED BY <1>5, <1>6 DEF Answer

LEMMA LinkFailsOK ==
  ASSUME Core, LinkFails
  PROVE  Core'
<1>1. /\ pc' = "loop" /\ pc' \notin Motion /\ ~serial_bus_nominal' /\ ~ser'
      /\ faults' = faults + 1 /\ faults < MaxFaults
      /\ UNCHANGED <<waypoint_queue, slew, age, ingress>>
  BY DEF LinkFails, CloseLink, Fault, Motion
<1>2. faults \in Nat /\ lost \in 0 .. faults /\ MaxFaults \in Nat
  BY BoundsAssumption DEF Core, ValuesOK
<1>3. /\ wire' \in [cmd : Motion \cup {"H"}, pose : Pose] \cup {None}
      /\ sent' \in Pose /\ lost' \in 0 .. faults'
      /\ Lag' /\ (lost' = 0 => sent' = last_known_angles)
  <2>1. CASE pc \in Motion /\ Sends
    <3>1. last_known_angles \in Pose
      BY DEF Core, ValuesOK
    <3> QED BY <1>1, <1>2, <2>1, <3>1, SendsOK
  <2>2. CASE pc \in Motion /\ lost' = lost + 1 /\ UNCHANGED <<wire, sent>>
    <3>1. Ahead' = Ahead
      BY <1>1, <1>2, <2>2 DEF Ahead
    <3>2. Lag'
      BY <1>1, <2>2, <3>1 DEF Core, Lag, slew
    <3> QED BY <1>1, <1>2, <2>2, <3>2 DEF Core, ValuesOK
  <2>3. CASE pc = "answer" /\ UNCHANGED written
    <3>1. pc \notin Motion /\ UNCHANGED <<wire, sent, lost>>
      BY <2>3 DEF Motion, written
    <3>2. Lag'
      BY <1>1, <3>1, Between
    <3> QED BY <1>1, <1>2, <3>1, <3>2 DEF Core, ValuesOK, SentIsKnown
  <2> QED BY <2>1, <2>2, <2>3 DEF LinkFails
<1>4. ValuesOK'
  BY <1>1, <1>2, <1>3 DEF Core, ValuesOK, slew, ingress
<1> QED BY <1>1, <1>3, <1>4
    DEF Core, NominalIsOpen, KeepsFed, SentIsKnown, HandlingOK, PortByStep, AgeByStep, StepPending,
        Motion, slew, ingress

LEMMA SleepOK ==
  ASSUME Core, Sleep
  PROVE  Core'
<1>1. pc = "sleep" /\ pc' = "loop" /\ UNCHANGED <<waypoint_queue, slew, link, ingress, faults, written>>
  BY DEF Sleep
<1>2. Lag' /\ StepPending'
  BY <1>1, Between DEF Motion, written
<1>3. PICK t \in 0 .. PASS : Older(t)
  BY DEF Sleep
<1>4. age \in 0 .. WATCHDOG_TIMEOUT_SEC /\ age' \in 0 .. WATCHDOG_TIMEOUT_SEC /\ age' <= age + PASS
  BY <1>3, AgeOK, TimesAssumption DEF Core, ValuesOK
<1>5. Driven /\ ser /\ age <= HEARTBEAT_INTERVAL_SEC
  BY <1>1 DEF Core, SentIsKnown, PortByStep, AgeByStep, Motion
<1>6. age' <= HEARTBEAT_INTERVAL_SEC + PASS
  BY <1>4, <1>5, TimesAssumption
<1>7. ValuesOK'
  BY <1>1, <1>4 DEF Core, ValuesOK, slew, link, ingress, written
<1> QED BY <1>1, <1>2, <1>5, <1>6, <1>7
    DEF Core, NominalIsOpen, KeepsFed, SentIsKnown, HandlingOK, PortByStep, AgeByStep, Driven,
        Motion, slew, link, ingress, written

LEMMA NextOK == IInv /\ [Next]_vars => IInv'
<1> SUFFICES ASSUME IInv, [Next]_vars PROVE Core'
  BY FlagsPreserved DEF IInv
<1> USE DEF IInv
<1>1. ASSUME NEW pose \in Poses, PostWaypoint(pose) PROVE Core'
  <2>1. Planned([waypoints |-> None, poses |-> <<pose>>])
    BY <1>1, RequestsAssumption DEF Planned
  <2> QED BY <1>1, <2>1, AcceptOK DEF PostWaypoint
<1>2. ASSUME NEW waypoints \in Paths, NEW step \in Steps, PostTrajectory(waypoints, step)
      PROVE  Core'
  <2>1. Planned([waypoints |-> waypoints, step |-> step,
                 poses |-> JointTrajectory(waypoints, step)])
    BY <1>2, TrajectoryOK DEF Planned, PostTrajectory
  <2> QED BY <1>2, <2>1, AcceptOK DEF PostTrajectory
<1>3. CASE Enqueue
  BY <1>3, EnqueueOK
<1>4. CASE Shutdown
  BY <1>4, ShutdownOK
<1>5. CASE Daemon
  BY <1>5, LoopOK, OpenOK, BurstOK, TickOK, WriteOK, AnswerOK, LinkFailsOK, SleepOK
  DEF Daemon
<1>6. CASE Finished \/ UNCHANGED vars
  <2>1. UNCHANGED Daemonic /\ ValuesOK' /\ HandlingOK'
    BY <1>6 DEF Finished, vars, Daemonic, Core, ValuesOK, HandlingOK, slew, link, ingress, written
  <2> QED BY <2>1, Undisturbed DEF Core
<1> QED BY <1>1, <1>2, <1>3, <1>4, <1>5, <1>6 DEF Next

-----------------------------------------------------------------------------
\* However requests and port failures fall, the health report, the firmware's
\* watchdog, the pose the daemon slews from and the queue's limit are right, and
\* a burst home is followed at once by the daemon's pose
\* (orchestrator_node.py:86-152).
THEOREM DaemonSafe == Spec => []DaemonInv
<1>1. IInv => DaemonInv
  BY DEF IInv, Core, DaemonInv, TypeOK
<1> QED BY InitOK, NextOK, <1>1, PTL DEF Spec

\* The poses the loop sends are a slew step apart at most and none passes the
\* target, on one port and, but for a step more per lost frame, from one to the
\* next; on one port a heartbeat repeats the pose.  From the burst of a new port
\* to the first of them is any way (orchestrator_node.py:111-128).
THEOREM FramesContinuousAlways == Spec => FramesContinuous
<1> DEFINE A == /\ Driven /\ wire' # None => /\ Follows(wire.pose, wire'.pose, target_joint_angles)
                                            /\ (wire'.cmd = "HBT" => wire'.pose = wire.pose)
                /\ lost = 0 => Follows(sent, sent', target_joint_angles)
                /\ \A j \in Joint : Distance(sent[j], sent'[j]) <= SLEW_RATE_MAX_DELTA_DEG * (lost + 1)
<1>1. IInv /\ [Next]_vars => [A]_vars
  <2> SUFFICES ASSUME IInv, [Next]_vars PROVE A
    OBVIOUS
  <2>1. /\ sent \in Pose /\ target_joint_angles \in Pose /\ lost \in Nat
        /\ Driven => wire.pose \in Pose
    BY BoundsAssumption DEF IInv, Core, ValuesOK, Driven
  <2>2. Follows(sent, sent, target_joint_angles)
        /\ (Driven => Follows(wire.pose, wire.pose, target_joint_angles))
    BY <2>1, FollowsItself
  <2>3. \A j \in Joint : Distance(sent[j], sent[j]) <= SLEW_RATE_MAX_DELTA_DEG * (lost + 1)
    <3>1. \A j \in Joint : Distance(sent[j], sent[j]) = 0
      BY <2>1, AnglesAssumption DEF Pose, Distance
    <3>2. 0 <= SLEW_RATE_MAX_DELTA_DEG * (lost + 1)
      BY <2>1, SlewAssumption
    <3> QED BY <3>1, <3>2
  <2>4. CASE wire' \in {wire, None} /\ sent' = sent
    BY <2>2, <2>3, <2>4
  <2>5. CASE pc \in Motion /\ Sends /\ UNCHANGED slew
    <3>1. wire' = [cmd |-> pc, pose |-> last_known_angles] /\ sent' = last_known_angles
      BY <2>5, SendsOK DEF IInv
    <3>2. /\ lost = 0 => Follows(sent, last_known_angles, target_joint_angles)
          /\ Driven => /\ Follows(wire.pose, last_known_angles, target_joint_angles)
                       /\ pc = "HBT" => (last_known_angles = wire.pose)
      BY <2>5 DEF IInv, Core, StepPending
    <3>3. Ahead = lost + 1
      BY <2>5 DEF Ahead
    <3>4. \A j \in Joint : Distance(sent[j], last_known_angles[j])
                             <= SLEW_RATE_MAX_DELTA_DEG * (lost + 1)
      BY <3>3 DEF IInv, Core, Lag
    <3>5. wire'.pose = last_known_angles /\ wire'.cmd = pc
      BY <3>1
    <3> QED BY <3>1, <3>2, <3>4, <3>5
  <2>6. CASE Burst
    <3>1. sent' = sent /\ ~Driven
      BY <2>6 DEF Burst, IInv, Core, PortByStep, Driven
    <3> QED BY <2>2, <2>3, <3>1
  <2>7. \/ wire' \in {wire, None} /\ sent' = sent
        \/ pc \in Motion /\ Sends /\ UNCHANGED slew
        \/ Burst
    BY DEF Next, PostWaypoint, PostTrajectory, Accept, Enqueue, Shutdown, Daemon, Loop, Open,
           Tick, Write, Answer, LinkFails, Sleep, Finished, vars, written
  <2> QED BY <2>4, <2>5, <2>6, <2>7
<1> QED BY InitOK, NextOK, <1>1, PTL DEF Spec, FramesContinuous

\* What a request queues is the whole of its path, and the path connects its
\* waypoints within reach.
LEMMA PlannedOK ==
  ASSUME NEW request, Planned(request), request.waypoints # None
  PROVE  LET path == PlanPath(request.waypoints, request.step)
         IN /\ Connects(path, request.waypoints, request.step)
            /\ request.poses = [i \in DOMAIN path |-> JointAngles(path[i])]
<1>1. /\ request.waypoints \in Seq(Point) /\ request.waypoints # << >>
      /\ request.step \in Nat \ {0} /\ ~Breaches(request.waypoints, request.step)
      /\ request.poses = JointTrajectory(request.waypoints, request.step)
  BY RequestsAssumption DEF Planned, None
<1> QED BY <1>1, PlanConnects DEF JointTrajectory

\* No request reaches the queue in part or at the cost of another, and the path
\* behind one, of any waypoints in space and any step size, leads from each to
\* the next, rounded to the grid, with every point within reach
\* (orchestrator_node.py:195-271, trajectory.py:25-92).
THEOREM TrajectoriesWhole == Spec => PathsWhole
<1> DEFINE A == \/ waypoint_queue' = waypoint_queue
                \/ waypoint_queue # << >> /\ waypoint_queue' = Tail(waypoint_queue)
                \/ /\ waypoint_queue' = waypoint_queue \o handling.poses
                   /\ handling.waypoints # None =>
                        LET path == PlanPath(handling.waypoints, handling.step)
                        IN /\ Connects(path, handling.waypoints, handling.step)
                           /\ handling.poses = [i \in DOMAIN path |-> JointAngles(path[i])]
<1>1. IInv /\ [Next]_vars => [A]_vars
  <2> SUFFICES ASSUME IInv, [Next]_vars PROVE A
    OBVIOUS
  <2>1. CASE Enqueue
    <3>1. \/ waypoint_queue' = waypoint_queue
          \/ waypoint_queue' = waypoint_queue \o handling.poses
      BY <2>1, EnqueueOK DEF IInv
    <3>2. Planned(handling)
      BY <2>1 DEF IInv, Core, HandlingOK, Enqueue
    <3> QED BY <3>1, <3>2, PlannedOK
  <2>2. CASE Tick
    BY <2>2 DEF Tick
  <2>3. waypoint_queue' = waypoint_queue \/ Enqueue \/ Tick
    BY DEF Next, PostWaypoint, PostTrajectory, Accept, Shutdown, Daemon, Loop, Open, Burst,
           Write, Answer, LinkFails, Sleep, Finished, vars
  <2> QED BY <2>1, <2>2, <2>3
<1> QED BY InitOK, NextOK, <1>1, PTL DEF Spec, PathsWhole
=============================================================================
