---------------------------- MODULE MCOrchestrator ----------------------------
(***************************************************************************)
(* A grid of 4 units, reach 4 to 12 of them, segments below 2 one point;   *)
(* servo angles up to 8, slews of 2 over odd and even distances.  Times in *)
(* units of 0.5 s: heartbeat 3, watchdog 6, DTR reset 4.                   *)
(***************************************************************************)
EXTENDS Orchestrator

\* Behind the shoulder the base is out of its servo's range.
MCSolved(p) == << IF p[1] < 0 THEN 12 ELSE 4 + p[2] \div 4,
                  4 + p[3] \div 4,
                  9 - Squared(p, <<0, 0, 0>>) \div 32 >>
MCHome == <<4, 4, 4>>
MCPoses == {<<4, 4, 4>>, <<7, 1, 4>>}

\* In the hole; off the grid; through the hole; a diagonal; an end that is the
\* waypoint before it, and a segment behind it; a seam; an end that rounding
\* takes out of reach, and one it brings within reach.
MCPaths == { << <<0, 1, 0>> >>,
             << <<-7, 0, 3>> >>,
             << <<-5, 1, 0>>, <<5, 0, 1>> >>,
             << <<2, 2, 8>>, <<8, 8, 2>> >>,
             << <<5, 5, 0>>, <<6, 5, 0>>, <<6, 9, 0>> >>,
             << <<8, 0, 0>>, <<0, 8, 0>>, <<0, 8, 4>> >>,
             << <<8, 4, 0>>, <<11, 4, 0>> >>,
             << <<9, 0, 0>>, <<13, 0, 0>> >> }
=============================================================================
