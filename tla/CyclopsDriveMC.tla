--------------------------- MODULE CyclopsDriveMC ---------------------------
(* Twists of pure pursuit: a left and a right turn that are within the limit *)
(* of the lateral acceleration, and a right turn that is not. A scan without *)
(* an obstacle and one with; a run of two rays is an obstacle.               *)
EXTENDS CyclopsDrive

MCRaws == {[v |-> 20, w |-> 2], [v |-> 20, w |-> -2], [v |-> 20, w |-> -4]}
MCScans == {[ranges |-> <<50, 50, 50, 50>>, points |-> {[x |-> 50, y |-> 0]}, near |-> FALSE],
            [ranges |-> <<50, 2, 2, 2>>, points |-> {[x |-> 2, y |-> 1]}, near |-> TRUE]}
=============================================================================
