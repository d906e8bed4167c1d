------------------------- MODULE CoordinateSystem2D -------------------------
(***************************************************************************)
(* The tree of coordinate systems of libCoordinateSystem2D, and how a pose *)
(* seen from one is seen from another.  Poses are on a grid and turn by    *)
(* quarters, so that they are exact: the library uses doubles and radians, *)
(* and never looks at a value.                                             *)
(***************************************************************************)
EXTENDS Integers

Angles == 0 .. 3
Pose == [x : Int, y : Int, theta : Angles]
pose(x, y, theta) == [x |-> x, y |-> y, theta |-> theta]
Origin == pose(0, 0, 0)

cos(theta) == CASE theta = 0 -> 1 [] theta = 2 -> -1 [] OTHER -> 0
sin(theta) == CASE theta = 1 -> 1 [] theta = 3 -> -1 [] OTHER -> 0
plus(a, b)  == IF a + b < 4 THEN a + b ELSE a + b - 4
minus(a, b) == IF a >= b THEN a - b ELSE a - b + 4

\* Of a pose seen from cs: how the parent of cs sees it.
inv_trans_cs(cs, p) ==
  pose(p.x * cos(cs.theta) - p.y * sin(cs.theta) + cs.x,
       p.x * sin(cs.theta) + p.y * cos(cs.theta) + cs.y,
       plus(p.theta, cs.theta))

\* Of a pose seen from the parent of cs: how cs sees it.
trans_cs(cs, p) ==
  pose((p.x - cs.x) * cos(cs.theta) + (p.y - cs.y) * sin(cs.theta),
       (p.y - cs.y) * cos(cs.theta) - (p.x - cs.x) * sin(cs.theta),
       minus(p.theta, cs.theta))

\* Of a child seen from its parent: how the child sees the parent.
CS_turn_base(p) ==
  pose(-(p.x * cos(p.theta)) - p.y * sin(p.theta),
       p.x * sin(p.theta) - p.y * cos(p.theta),
       minus(0, p.theta))
-----------------------------------------------------------------------------
\* The systems of sh_spur: odometry, global, local, the robot, local on the odometry.
CSs == {"BS", "GL", "LC", "FS", "BL"}
parent == [GL |-> "BS", LC |-> "GL", FS |-> "BS", BL |-> "BS"]
level(cs) == CASE cs = "BS" -> 0 [] cs = "LC" -> 2 [] OTHER -> 1

\* One call of CS_recursive_trans, Again being what it does when it calls itself.
Call(tree, target, now, p, Again(_, _, _)) ==
  CASE target = now -> p
    [] target # now /\ level(target) = level(now) ->
         trans_cs(tree[target],
                  Again(parent[target], parent[now], inv_trans_cs(tree[now], p)))
    [] level(target) > level(now) -> trans_cs(tree[target], Again(parent[target], now, p))
    [] level(target) < level(now) -> Again(target, parent[now], inv_trans_cs(tree[now], p))

\* Of a pose seen from now: how target sees it, tree being where the systems are
\* on their parents. The third call, if not one before, has come to the system that
\* both stand on, and returns.
CS_recursive_trans(tree, target, now, p) ==
  LET Third(t, n, q)  == q
      Second(t, n, q) == Call(tree, t, n, q, Third)
  IN  Call(tree, target, now, p, Second)
=============================================================================
