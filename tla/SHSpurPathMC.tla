---------------------------- MODULE SHSpurPathMC ----------------------------
(* The robot goes forward and then turns by a quarter in every packet; other *)
(* processes name poses of every kind: at the origin, and off it and turned. *)
EXTENDS SHSpurPath

MCMoves == {pose(1, 0, 1)}
MCPoses == {pose(0, 0, 0), pose(2, 1, 3)}
MCPaths == {pose(1, 2, 1)}
=============================================================================
