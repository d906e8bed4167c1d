------------------------- MODULE PurePursuitNodeMC -------------------------
(* Lanes of up to four waypoints that start at the origin and go on by steps *)
(* of MCSteps: straight, sideways, diagonal, back, and not at all.           *)
EXTENDS PurePursuitNode

MCSteps == {[x |-> 3, y |-> 0], [x |-> 2, y |-> 2], [x |-> 0, y |-> 3],
            [x |-> 1, y |-> -2], [x |-> 0, y |-> 0]}

Plus(p, q) == [x |-> p.x + q.x, y |-> p.y + q.y]
Along(s) == LET at[i \in 1..(Len(s) + 1)] ==
                  IF i = 1 THEN NoPoint ELSE Plus(at[i - 1], s[i - 1])
            IN  at
MCLanes == {NoLane} \cup
  {[wps |-> Along(s), h |-> [x |-> 1, y |-> 0], v |-> 2] :
     s \in UNION {[1..n -> MCSteps] : n \in 0..3}}

MCPoses == {[x |-> 1, y |-> 1]}
MCConfigs == {[dialog |-> FALSE, lookahead |-> 2, velocity |-> 1],
              [dialog |-> TRUE, lookahead |-> 2, velocity |-> 1]}
=============================================================================
