---------------------------- MODULE PurePursuit ----------------------------
(* The algorithm of the waypoint follower: which waypoint of the lane the    *)
(* robot aims at, where on the lane the target lies, and to which side the   *)
(* robot turns (pure_pursuit.cpp and the geometry of libwaypoint_follower).  *)
(*                                                                           *)
(* Points are pairs of integers. Distances are compared as squares, and the  *)
(* intersections of a line with the circle of the lookahead, whose           *)
(* coordinates hold a square root, are compared by the sign of p + q*sqrt(d):*)
(* every decision of the code is taken exactly, as on reals. A waypoint      *)
(* number is one more than in the code; 0 stands for -1, no waypoint.        *)
EXTENDS Integers, Sequences

Point == [x : Int, y : Int]
Minus(p, q) == [x |-> p.x - q.x, y |-> p.y - q.y]
Dot(p, q) == p.x * q.x + p.y * q.y
Cross(p, q) == p.x * q.y - p.y * q.x
Sgn(n) == IF n > 0 THEN 1 ELSE IF n < 0 THEN -1 ELSE 0

(* The sign of p + q * sqrt(d), for d >= 0.                                  *)
RootSign(p, q, d) ==
  LET s == Sgn(p)  t == Sgn(q * d)
  IN  IF s * t >= 0 THEN Sgn(s + t) ELSE s * Sgn(p * p - q * q * d)

(* The square of the distance between two points.                            *)
PlaneDistance2(p, q) == Dot(Minus(p, q), Minus(p, q))

\* Mutant: the y axis points to the right.
RelativeY_right(p, origin, h) == Cross(Minus(p, origin), h)

(* The y of a point in the frame of a pose at "origin" that looks along h,   *)
(* times the length of h: positive on the left.                              *)
RelativeY(p, origin, h) == Cross(h, Minus(p, origin))

\* Mutant: the line is y = mx + n, which a vertical one has not.
HasLine_sloped(start, end) == start.x # end.x

(* Two points that are one point have no line through them.                  *)
HasLine(start, end) == start # end

(* The line from start to end against the circle of the lookahead L around   *)
(* the robot, in units of the segment's squared length n: "along" is the foot*)
(* of the perpendicular, "chord2" the square of half the chord; d > L is     *)
(* chord2 < 0.                                                               *)
LineAndCircle(start, end, robot, L) ==
  LET v == Minus(end, start)  r == Minus(robot, start)
  IN  [n |-> Dot(v, v), along |-> Dot(r, v),
       chord2 |-> L * L * Dot(v, v) - Cross(v, r) * Cross(v, r)]

(* The intersection at foot + s * half the chord is nearer to end than start *)
(* is, on either side of end.                                                *)
WithinInterval(c, s) == /\ RootSign(c.along, s, c.chord2) > 0
                        /\ RootSign(c.along - 2 * c.n, s, c.chord2) < 0

\* Mutant: the last waypoint is none.
NextWaypoint_lost(wps, L) ==
  LET far == {i \in DOMAIN wps : PlaneDistance2(wps[i], wps[1]) > L * L}
  IN  IF far = {} THEN 0 ELSE CHOOSE i \in far : \A j \in far : i <= j

(* The first waypoint farther than L from the lane's first one, or the last  *)
(* one, or none of an empty lane.                                            *)
NextWaypoint(wps, L) ==
  LET far == {i \in DOMAIN wps : PlaneDistance2(wps[i], wps[1]) > L * L}
  IN  IF far = {} THEN Len(wps)
                  ELSE CHOOSE i \in far : \A j \in far : i <= j

(* Where the target lies: at the waypoint itself, at the foot of the         *)
(* perpendicular when the line is a tangent, at the intersection in front of *)
(* or behind the foot, or nowhere. The circle is around the lane's first     *)
(* waypoint, in the place of the robot.                                      *)
InterpolateNextTarget(wps, next, L) ==
  LET c == LineAndCircle(wps[next - 1], wps[next], wps[1], L)
  IN  IF next = Len(wps) THEN "waypoint"
      ELSE IF ~HasLine(wps[next - 1], wps[next]) \/ c.chord2 < 0 THEN "lost"
      ELSE IF c.chord2 = 0 THEN "foot"
      ELSE IF WithinInterval(c, 1) THEN "front"
      ELSE IF WithinInterval(c, -1) THEN "behind"
      ELSE "lost"

(* The side the robot turns to: the sign of kappa, from the target's y in the*)
(* frame of the lane's first pose. A target on the robot itself gives        *)
(* -KAPPA_MIN.                                                               *)
Curvature(wps, h, next, at, L) ==
  IF at = "waypoint"
  THEN IF wps[next] = wps[1] THEN -1 ELSE Sgn(RelativeY(wps[next], wps[1], h))
  ELSE LET c == LineAndCircle(wps[next - 1], wps[next], wps[1], L)
           side == CASE at = "front" -> 1 [] at = "behind" -> -1 [] OTHER -> 0
           q == Cross(h, Minus(wps[next], wps[next - 1]))
       IN  RootSign(c.n * RelativeY(wps[next - 1], wps[1], h) + c.along * q,
                    side * q, c.chord2)

(* What canGetCurvature leaves: whether the node died in calcCurvature, which*)
(* reads the second waypoint of the lane, the waypoint, the target's place,  *)
(* the side, and the square of the distance from the pose to the lane's      *)
(* second waypoint (0 when there is no target).                              *)
CanGetCurvature(wps, h, pose, L, interpolates) ==
  LET next == NextWaypoint(wps, L)
      at == IF next = 0 THEN "lost"
            ELSE IF ~interpolates \/ next \in {1, Len(wps)} THEN "waypoint"
            ELSE InterpolateNextTarget(wps, next, L)
      sees == at # "lost" /\ Len(wps) >= 2
  IN  [throws |-> at # "lost" /\ Len(wps) < 2,
       next |-> next,
       at |-> at,
       turn |-> IF sees THEN Curvature(wps, h, next, at, L) ELSE 0,
       distance |-> IF sees THEN PlaneDistance2(pose, wps[2]) ELSE 0]
=============================================================================
