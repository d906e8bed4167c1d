----------------------- MODULE PurePursuitNode_proofs -----------------------
(* Proofs about the waypoint follower, for every set of lanes, poses, speeds *)
(* and configurations: where the target may be lost, to which side the robot *)
(* turns, and of which lanes the node dies.                                  *)
(*                                                                           *)
(* The argument is geometric. The waypoint before the next one is within the *)
(* lookahead and the next one beyond it, so the lane leaves the circle       *)
(* between the two (Leaves, Circle): the intersection behind the foot of the *)
(* perpendicular is not past the segment's start, the one in front of it is  *)
(* on the segment (BeforeEnd, NotBehind). What lies on a segment lies on the *)
(* side on which both of its ends lie (Between, SideOfLane).                 *)
(*                                                                           *)
(* And about what becomes of its turn behind it, in CyclopsDrive: the side   *)
(* the CNN is asked for, for every limit and every twist.                    *)
EXTENDS PurePursuitNode, CyclopsDrive, WellFoundedInduction, TLAPS

-----------------------------------------------------------------------------
(* Arithmetic.                                                               *)
LEMMA Product == ASSUME NEW a \in Int, NEW b \in Int, a >= 0, b >= 0 PROVE a * b >= 0
OBVIOUS

LEMMA Square == ASSUME NEW a \in Int PROVE a * a >= 0
OBVIOUS

LEMMA Squares ==
  ASSUME NEW a \in Int, NEW b \in Int, 0 <= a, a <= b PROVE a * a <= b * b
<1>1. (b - a) * (b + a) >= 0  BY Product
<1>2. (b - a) * (b + a) = b * b - a * a  OBVIOUS
<1> QED  BY <1>1, <1>2

LEMMA SgnOf ==
  ASSUME NEW n \in Int
  PROVE  /\ Sgn(n) \in {-1, 0, 1}
         /\ Sgn(n) = 1 <=> n > 0
         /\ Sgn(n) = -1 <=> n < 0
         /\ Sgn(-n) = -Sgn(n)
BY DEF Sgn

(* Lagrange's identity: the squared lengths of two vectors multiply to their *)
(* dot product and their cross product, squared and added.                   *)
LEMMA Lagrange ==
  ASSUME NEW a \in Int, NEW b \in Int, NEW c \in Int, NEW d \in Int
  PROVE  (a * a + b * b) * (c * c + d * d)
           = (c * a + d * b) * (c * a + d * b) + (a * d - b * c) * (a * d - b * c)
OBVIOUS

(* The law of cosines.                                                       *)
LEMMA Cosines ==
  ASSUME NEW a \in Int, NEW b \in Int, NEW c \in Int, NEW d \in Int
  PROVE  (c - a) * (c - a) + (d - b) * (d - b)
           = (c * c + d * d) - 2 * (c * a + d * b) + (a * a + b * b)
OBVIOUS

(* A segment from within the circle (d0 <= LL) to beyond it (d1 > LL): n is  *)
(* its squared length, "along" the foot of the perpendicular, and half the   *)
(* chord reaches from the foot to the start at least, but not to the end.    *)
LEMMA Leaves ==
  ASSUME NEW n \in Int, NEW along \in Int, NEW cross2 \in Int,
         NEW d0 \in Int, NEW d1 \in Int, NEW LL \in Int,
         n >= 0, cross2 >= 0, n * d0 = along * along + cross2,
         d1 = d0 - 2 * along + n, d0 <= LL, LL < d1
  PROVE  /\ n > 0 /\ n - along > 0 /\ 2 * n - along > n - along
         /\ LL * n - cross2 >= along * along
         /\ d0 < LL => LL * n - cross2 > along * along
         /\ LL * n - cross2 < (n - along) * (n - along)
<1>1. n > 2 * along  OBVIOUS
<1>2. n > 0
  <2> SUFFICES ASSUME n = 0 PROVE FALSE  OBVIOUS
  <2>1. along * along >= 0  BY Square
  <2>2. along * along = 0  BY <2>1
  <2>3. along < 0  BY <1>1
  <2>4. along * along > 0  BY <2>3
  <2> QED  BY <2>2, <2>4
<1>3. n - along > 0  BY <1>1, <1>2
<1>4. LL * n - cross2 - along * along = n * (LL - d0)
  OBVIOUS
<1>5. (n - along) * (n - along) - (LL * n - cross2) = n * (d1 - LL)
  <2>1. (n - along) * (n - along) = n * n - 2 * (n * along) + along * along  OBVIOUS
  <2>2. n * (d1 - LL) = n * d0 - 2 * (n * along) + n * n - n * LL  OBVIOUS
  <2> QED  BY <2>1, <2>2
<1>6. n * (LL - d0) >= 0 /\ (d0 < LL => n * (LL - d0) > 0)  BY <1>2
<1>7. n * (d1 - LL) > 0  BY <1>2
<1> QED  BY <1>1, <1>2, <1>3, <1>4, <1>5, <1>6, <1>7

(* A set of numbers that is not empty has a least one.                       *)
LEMMA Least ==
  ASSUME NEW S, S \subseteq Nat, S # {}
  PROVE  \E i \in S : \A j \in S : i <= j
<1>1. PICK i \in S : \A j \in S : ~ (<<j, i>> \in OpToRel(<, Nat))
  BY NatLessThanWellFounded, WFMin
<1>2. OpToRel(<, Nat) = {r \in Nat \X Nat : r[1] < r[2]}  BY DEF OpToRel
<1>3. ASSUME NEW j \in S PROVE i <= j
  <2>1. <<j, i>> \notin {r \in Nat \X Nat : r[1] < r[2]}  BY <1>1, <1>2
  <2> QED  BY <2>1
<1> QED  BY <1>3

(* RootSign is a sign, and odd in p + q * sqrt(d).                           *)
LEMMA RootSignType ==
  ASSUME NEW p \in Int, NEW q \in Int, NEW d \in Nat
  PROVE  /\ RootSign(p, q, d) \in {-1, 0, 1}
         /\ RootSign(-p, -q, d) = -RootSign(p, q, d)
<1> DEFINE s == Sgn(p)  t == Sgn(q * d)  u == Sgn(p * p - q * q * d)
<1>1. /\ q * d \in Int /\ p * p - q * q * d \in Int  OBVIOUS
<1>2. s \in {-1, 0, 1} /\ t \in {-1, 0, 1} /\ u \in {-1, 0, 1} /\ Sgn(s + t) \in {-1, 0, 1}
  BY <1>1, SgnOf DEF Sgn
<1>3. RootSign(p, q, d) = IF s * t >= 0 THEN Sgn(s + t) ELSE s * u
  BY DEF RootSign
<1>4. Sgn(-p) = -s /\ Sgn(-(q * d)) = -t /\ (-q) * d = -(q * d)
  BY <1>1, SgnOf
<1>5. (-p) * (-p) - (-q) * (-q) * d = p * p - q * q * d
  OBVIOUS
<1>6. RootSign(-p, -q, d) = IF (-s) * (-t) >= 0 THEN Sgn((-s) + (-t)) ELSE (-s) * u
  BY <1>4, <1>5 DEF RootSign
<1>7. Sgn((-s) + (-t)) = -Sgn(s + t)
  BY <1>2 DEF Sgn
<1> HIDE DEF s, t, u
<1>8. s * t = (-s) * (-t) /\ (-s) * u = -(s * u) /\ s * u \in {-1, 0, 1}
  BY <1>2
<1> QED  BY <1>2, <1>3, <1>6, <1>7, <1>8

(* The intersection in front of the foot is within the interval of the code. *)
LEMMA BeforeEnd ==
  ASSUME NEW along \in Int, NEW n \in Int, NEW d \in Nat,
         n > 0, n - along > 0, d > along * along, d < (n - along) * (n - along)
  PROVE  /\ RootSign(along, 1, d) > 0
         /\ RootSign(along - 2 * n, 1, d) < 0
<1>1. along * along >= 0  BY Square
<1>2. Sgn(1 * d) = 1  BY <1>1, SgnOf
<1>3. RootSign(along, 1, d) > 0
  <2>1. CASE along >= 0
    <3>1. Sgn(along) \in {0, 1}  BY <2>1, SgnOf
    <3> QED  BY <3>1, <1>2 DEF RootSign, Sgn
  <2>2. CASE along < 0
    <3>1. Sgn(along) = -1 /\ Sgn(along * along - 1 * 1 * d) = -1  BY <2>2, SgnOf
    <3> QED  BY <3>1, <1>2 DEF RootSign
  <2> QED  BY <2>1, <2>2
<1>4. RootSign(along - 2 * n, 1, d) < 0
  <2>1. (n - along) * (n - along) <= (2 * n - along) * (2 * n - along)  BY Squares
  <2>2. (along - 2 * n) * (along - 2 * n) = (2 * n - along) * (2 * n - along)  OBVIOUS
  <2>3. (along - 2 * n) * (along - 2 * n) - 1 * 1 * d > 0  BY <2>1, <2>2
  <2>4. Sgn(along - 2 * n) = -1  BY SgnOf
  <2>5. Sgn((along - 2 * n) * (along - 2 * n) - 1 * 1 * d) = 1  BY <2>3, SgnOf
  <2> QED  BY <2>4, <2>5, <1>2 DEF RootSign
<1> QED  BY <1>3, <1>4

(* The intersection behind the foot is not.                                  *)
LEMMA NotBehind ==
  ASSUME NEW along \in Int, NEW d \in Nat, d >= along * along
  PROVE  ~ (RootSign(along, -1, d) > 0)
<1>1. Sgn((-1) * d) \in {-1, 0} /\ ((-1) * d = -d)  BY SgnOf
<1>2. CASE along <= 0
  <2>1. Sgn(along) \in {-1, 0}  BY <1>2, SgnOf
  <2> QED  BY <2>1, <1>1 DEF RootSign, Sgn
<1>3. CASE along > 0
  <2>1. along * along > 0  BY <1>3
  <2>2. Sgn((-1) * d) = -1  BY <2>1, <1>1, SgnOf
  <2>3. Sgn(along) = 1  BY <1>3, SgnOf
  <2>4. along * along - (-1) * (-1) * d <= 0  OBVIOUS
  <2>5. Sgn(along * along - (-1) * (-1) * d) \in {-1, 0}  BY <2>4, SgnOf
  <2> QED  BY <2>2, <2>3, <2>5 DEF RootSign
<1> QED  BY <1>2, <1>3

(* The point in front of the foot, half a chord away, is on the left when    *)
(* both ends of the segment are: ys and ys + q are their y.                  *)
LEMMA Between ==
  ASSUME NEW along \in Int, NEW n \in Int, NEW d \in Nat, NEW ys \in Int, NEW q \in Int,
         n > 0, n - along > 0, d >= along * along, d < (n - along) * (n - along),
         ys >= 0, ys + q >= 0
  PROVE  RootSign(n * ys + along * q, q, d) >= 0
<1> DEFINE p == n * ys + along * q
<1>0. p \in Int /\ n * ys >= 0 /\ q * q >= 0 /\ along * along >= 0  BY Square, Product
<1>1. CASE q >= 0 /\ p >= 0
  <2>1. Sgn(p) \in {0, 1} /\ Sgn(q * d) \in {0, 1}
    <3>1. q * d >= 0  BY <1>1, Product
    <3> QED  BY <3>1, <1>0, <1>1, SgnOf
  <2> QED  BY <2>1 DEF RootSign, Sgn
<1>2. CASE q >= 0 /\ p < 0
  <2>1. along * q < 0  BY <1>0, <1>2
  <2>2. q > 0 /\ along < 0  BY <2>1, <1>2, Product
  <2>3. d > 0  BY <2>2
  <2>4. Sgn(p) = -1 /\ Sgn(q * d) = 1
    <3>1. q * d > 0  BY <2>2, <2>3
    <3> QED  BY <3>1, <1>0, <1>2, SgnOf
  <2>5. (-p) * (-p) <= (-(along * q)) * (-(along * q))
    BY <1>0, <1>2, Squares
  <2>6. (-(along * q)) * (-(along * q)) = (q * q) * (along * along) /\ (-p) * (-p) = p * p
    BY <1>0
  <2>7. (q * q) * (d - along * along) >= 0  BY <1>0, Product
  <2>8. (q * q) * (d - along * along) = q * q * d - (q * q) * (along * along)  OBVIOUS
  <2>9. p * p - q * q * d <= 0  BY <2>5, <2>6, <2>7, <2>8
  <2>10. Sgn(p * p - q * q * d) \in {-1, 0}  BY <2>9, <1>0, SgnOf
  <2> QED  BY <2>4, <2>10 DEF RootSign
<1>3. CASE q < 0
  <2>1. p = n * (ys + q) + (n - along) * (-q)  OBVIOUS
  <2>2. n * (ys + q) >= 0 /\ (n - along) * (-q) > 0  BY <1>3, Product
  <2>3. p > 0 /\ p >= (n - along) * (-q)  BY <2>1, <2>2
  <2>4. ((n - along) * (-q)) * ((n - along) * (-q)) <= p * p  BY <1>0, <2>2, <2>3, Squares
  <2>5. ((n - along) * (-q)) * ((n - along) * (-q)) = (q * q) * ((n - along) * (n - along))  OBVIOUS
  <2>6. (q * q) * ((n - along) * (n - along) - d) >= 0  BY <1>0, Product
  <2>7. (q * q) * ((n - along) * (n - along) - d)
          = (q * q) * ((n - along) * (n - along)) - q * q * d  OBVIOUS
  <2>8. p * p - q * q * d >= 0  BY <2>4, <2>5, <2>6, <2>7
  <2>9. Sgn(p * p - q * q * d) \in {0, 1} /\ Sgn(p) = 1 /\ Sgn(q * d) \in {-1, 0, 1}
    BY <2>3, <2>8, <1>0, SgnOf
  <2> QED  BY <2>9 DEF RootSign, Sgn
<1> QED  BY <1>0, <1>1, <1>2, <1>3
-----------------------------------------------------------------------------
(* The squared distance is a number, and 0 from a point to itself.           *)
LEMMA Distance ==
  ASSUME NEW p \in Point, NEW q \in Point
  PROVE  PlaneDistance2(p, q) \in Nat /\ PlaneDistance2(p, p) = 0
<1>1. /\ p.x - q.x \in Int /\ p.y - q.y \in Int  BY DEF Point
<1>2. PlaneDistance2(p, q) = (p.x - q.x) * (p.x - q.x) + (p.y - q.y) * (p.y - q.y)
  BY DEF PlaneDistance2, Dot, Minus
<1>3. PlaneDistance2(p, p) = (p.x - p.x) * (p.x - p.x) + (p.y - p.y) * (p.y - p.y)
  BY DEF PlaneDistance2, Dot, Minus
<1>4. p.x - p.x = 0 /\ p.y - p.y = 0  BY DEF Point
<1> QED  BY <1>1, <1>2, <1>3, <1>4, Square

(* What getNextWaypoint finds: no waypoint of an empty lane, else the last   *)
(* one or one beyond the lookahead whose predecessor is within.              *)
LEMMA NextWaypointFound ==
  ASSUME NEW wps \in Seq(Point), NEW L \in Nat
  PROVE  LET next == NextWaypoint(wps, L)
         IN  /\ next \in 0 .. Len(wps)
             /\ next = 0 <=> Len(wps) = 0
             /\ next \notin {0, Len(wps)} =>
                  /\ next > 1
                  /\ PlaneDistance2(wps[next - 1], wps[1]) <= L * L
                  /\ PlaneDistance2(wps[next], wps[1]) > L * L
<1> DEFINE far == {i \in DOMAIN wps : PlaneDistance2(wps[i], wps[1]) > L * L}
           next == NextWaypoint(wps, L)
<1>1. DOMAIN wps = 1 .. Len(wps) /\ Len(wps) \in Nat  OBVIOUS
<1>2. next = IF far = {} THEN Len(wps) ELSE CHOOSE i \in far : \A j \in far : i <= j
  BY DEF NextWaypoint
<1>3. \A i \in 1 .. Len(wps) : wps[i] \in Point  OBVIOUS
<1>4. L * L >= 0 /\ L * L \in Nat  BY Square
<1>5. CASE far = {}
  BY <1>1, <1>2, <1>5
<1>6. CASE far # {}
  <2>1. \E i \in far : \A j \in far : i <= j
    <3>1. far \subseteq Nat  BY <1>1
    <3> HIDE DEF far
    <3> QED  BY <3>1, <1>6, Least
  <2>2. next \in far /\ \A j \in far : next <= j
    <3> HIDE DEF far
    <3> QED  BY <1>2, <1>6, <2>1
  <2>3. next \in 1 .. Len(wps) /\ PlaneDistance2(wps[next], wps[1]) > L * L
    BY <2>2, <1>1
  <2>4. next # 1
    <3> SUFFICES ASSUME next = 1 PROVE FALSE  OBVIOUS
    <3>1. PlaneDistance2(wps[1], wps[1]) = 0  BY <2>3, <1>3, Distance
    <3>2. PlaneDistance2(wps[1], wps[1]) > L * L  BY <2>3
    <3> QED  BY <3>1, <3>2, <1>4
  <2>5. next - 1 \in 1 .. Len(wps) /\ 1 \in 1 .. Len(wps)  BY <2>3, <2>4, <1>1
  <2>6. next - 1 \notin far
    <3> HIDE DEF next
    <3> QED  BY <2>2, <2>3, <1>1
  <2>7. ~(PlaneDistance2(wps[next - 1], wps[1]) > L * L)  BY <2>5, <2>6, <1>1
  <2>8. PlaneDistance2(wps[next - 1], wps[1]) \in Nat  BY <2>5, <1>3, Distance
  <2>9. PlaneDistance2(wps[next - 1], wps[1]) <= L * L  BY <2>7, <2>8, <1>4
  <2>10. /\ next \in 0 .. Len(wps) /\ (next = 0 <=> Len(wps) = 0) /\ next > 1
    <3> HIDE DEF next
    <3> QED  BY <2>3, <2>4, <1>1
  <2> QED  BY <2>3, <2>9, <2>10
<1> QED  BY <1>5, <1>6

(* Leaves and Lagrange's identity for the line and the circle of the code.   *)
LEMMA Circle ==
  ASSUME NEW start \in Point, NEW end \in Point, NEW here \in Point, NEW L \in Nat,
         PlaneDistance2(start, here) <= L * L, PlaneDistance2(end, here) > L * L
  PROVE  LET c == LineAndCircle(start, end, here, L)
         IN  /\ start # end
             /\ c.n \in Int /\ c.along \in Int /\ c.chord2 \in Nat
             /\ c.n > 0 /\ c.n - c.along > 0
             /\ c.chord2 >= c.along * c.along
             /\ PlaneDistance2(start, here) # L * L => c.chord2 > c.along * c.along
             /\ c.chord2 < (c.n - c.along) * (c.n - c.along)
<1> DEFINE a == end.x - start.x
           b == end.y - start.y
           f == here.x - start.x
           g == here.y - start.y
           cr == a * g - b * f
           c == LineAndCircle(start, end, here, L)
<1>1. a \in Int /\ b \in Int /\ f \in Int /\ g \in Int /\ cr \in Int /\ L * L \in Int
  BY DEF Point
<1>2. /\ c.n = a * a + b * b
      /\ c.along = f * a + g * b
      /\ c.chord2 = L * L * (a * a + b * b) - cr * cr
  BY DEF LineAndCircle, Dot, Cross, Minus
<1>3. PlaneDistance2(start, here) = f * f + g * g
  <2>1. PlaneDistance2(start, here)
          = (start.x - here.x) * (start.x - here.x) + (start.y - here.y) * (start.y - here.y)
    BY DEF PlaneDistance2, Dot, Minus
  <2>2. start.x - here.x = -f /\ start.y - here.y = -g  BY DEF Point
  <2>3. (-f) * (-f) + (-g) * (-g) = f * f + g * g
    <3> HIDE DEF f, g
    <3> QED  BY <1>1
  <2> QED  BY <2>1, <2>2, <2>3
<1>4. PlaneDistance2(end, here) = (f - a) * (f - a) + (g - b) * (g - b)
  <2>1. PlaneDistance2(end, here)
          = (end.x - here.x) * (end.x - here.x) + (end.y - here.y) * (end.y - here.y)
    BY DEF PlaneDistance2, Dot, Minus
  <2>2. end.x - here.x = -(f - a) /\ end.y - here.y = -(g - b)  BY DEF Point
  <2>3. (-(f - a)) * (-(f - a)) + (-(g - b)) * (-(g - b))
          = (f - a) * (f - a) + (g - b) * (g - b)
    <3> HIDE DEF a, b, f, g
    <3> QED  BY <1>1
  <2> QED  BY <2>1, <2>2, <2>3
<1> HIDE DEF a, b, f, g, c
<1>5. (a * a + b * b) * (f * f + g * g) = (f * a + g * b) * (f * a + g * b) + cr * cr
  BY <1>1, Lagrange
<1> HIDE DEF cr
<1>6. (f - a) * (f - a) + (g - b) * (g - b)
        = (f * f + g * g) - 2 * (f * a + g * b) + (a * a + b * b)
  BY <1>1, Cosines
<1>7. a * a + b * b >= 0 /\ cr * cr >= 0  BY <1>1, Square
<1> DEFINE n == a * a + b * b
           along == f * a + g * b
           cross2 == cr * cr
           d0 == f * f + g * g
           d1 == (f - a) * (f - a) + (g - b) * (g - b)
           LL == L * L
<1>8. n \in Int /\ along \in Int /\ cross2 \in Int /\ d0 \in Int /\ d1 \in Int /\ LL \in Int
  BY <1>1
<1>9. /\ n * d0 = along * along + cross2 /\ d1 = d0 - 2 * along + n
      /\ n >= 0 /\ cross2 >= 0 /\ d0 <= LL /\ LL < d1
  BY <1>3, <1>4, <1>5, <1>6, <1>7
<1>10. c.n = n /\ c.along = along /\ c.chord2 = LL * n - cross2
  BY <1>2
<1>11. PlaneDistance2(start, here) = d0  BY <1>3
<1>12. start # end
  BY <1>11, <1>9, <1>4, <1>8, Distance
<1> HIDE DEF n, along, cross2, d0, d1, LL
<1>13. /\ n > 0 /\ n - along > 0
       /\ LL * n - cross2 >= along * along
       /\ d0 < LL => LL * n - cross2 > along * along
       /\ LL * n - cross2 < (n - along) * (n - along)
  BY <1>8, <1>9, Leaves
<1>14. along * along >= 0 /\ LL * n - cross2 \in Int  BY <1>8, Square
<1>15. PlaneDistance2(start, here) # L * L => d0 < LL  BY <1>8, <1>9, <1>11 DEF LL
<1> QED  BY <1>8, <1>10, <1>12, <1>13, <1>14, <1>15 DEF c
-----------------------------------------------------------------------------
(* Where the target is lost.                                                 *)
LEMMA LostOnCircle ==
  ASSUME NEW wps \in Seq(Point), NEW h, NEW p, NEW L \in Nat, NEW interpolates
  PROVE  LET got == CanGetCurvature(wps, h, p, L, interpolates)
         IN  got.at = "lost" /\ got.next # 0 =>
               PlaneDistance2(wps[got.next - 1], wps[1]) = L * L
<1> DEFINE got == CanGetCurvature(wps, h, p, L, interpolates)
           next == NextWaypoint(wps, L)
<1> SUFFICES ASSUME got.at = "lost", got.next # 0
             PROVE  PlaneDistance2(wps[got.next - 1], wps[1]) = L * L
  OBVIOUS
<1>1. got.next = next  BY DEF CanGetCurvature
<1>2. /\ next \notin {0, Len(wps)} /\ InterpolateNextTarget(wps, next, L) = "lost"
  BY <1>1 DEF CanGetCurvature
<1>3. /\ next \in 0 .. Len(wps) /\ next > 1
      /\ PlaneDistance2(wps[next - 1], wps[1]) <= L * L
      /\ PlaneDistance2(wps[next], wps[1]) > L * L
  BY <1>2, NextWaypointFound
<1> DEFINE start == wps[next - 1]
           end == wps[next]
           here == wps[1]
           c == LineAndCircle(start, end, here, L)
<1>4. start \in Point /\ end \in Point /\ here \in Point
  <2> HIDE DEF next
  <2>1. next - 1 \in 1 .. Len(wps) /\ next \in 1 .. Len(wps) /\ 1 \in 1 .. Len(wps)
    BY <1>3
  <2> QED  BY <2>1
<1>5. ~HasLine(start, end) \/ c.chord2 < 0
        \/ (c.chord2 # 0 /\ ~WithinInterval(c, 1))
  BY <1>2 DEF InterpolateNextTarget
<1> HIDE DEF start, end, here
<1>6. /\ start # end /\ c.n \in Int /\ c.along \in Int /\ c.chord2 \in Nat
      /\ c.n > 0 /\ c.n - c.along > 0 /\ c.chord2 < (c.n - c.along) * (c.n - c.along)
      /\ PlaneDistance2(start, here) # L * L => c.chord2 > c.along * c.along
  BY <1>3, <1>4, Circle DEF start, end, here
<1>7. SUFFICES ASSUME PlaneDistance2(start, here) # L * L PROVE FALSE
  BY <1>1 DEF start, here
<1> HIDE DEF c
<1>8. WithinInterval(c, 1)
  BY <1>6, <1>7, BeforeEnd DEF WithinInterval
<1>9. HasLine(start, end)  BY <1>6 DEF HasLine
<1> QED  BY <1>5, <1>6, <1>8, <1>9

(* The cross product with a segment is the difference of its ends' y.        *)
LEMMA CrossOf ==
  ASSUME NEW p \in Point, NEW q \in Point, NEW o \in Point, NEW h \in Point
  PROVE  /\ RelativeY(p, o, h) \in Int
         /\ Cross(h, Minus(q, p)) = RelativeY(q, o, h) - RelativeY(p, o, h)
<1>1. RelativeY(p, o, h) = h.x * (p.y - o.y) - h.y * (p.x - o.x)
  BY DEF RelativeY, Cross, Minus
<1>2. RelativeY(q, o, h) = h.x * (q.y - o.y) - h.y * (q.x - o.x)
  BY DEF RelativeY, Cross, Minus
<1>3. Cross(h, Minus(q, p)) = h.x * (q.y - p.y) - h.y * (q.x - p.x)
  BY DEF Cross, Minus
<1> QED  BY <1>1, <1>2, <1>3 DEF Point

(* The target is on the side on which both ends of its segment are.          *)
LEMMA SideOfLane ==
  ASSUME NEW along \in Int, NEW n \in Int, NEW d \in Nat, NEW ys \in Int, NEW ye \in Int,
         n > 0, n - along > 0, d >= along * along, d < (n - along) * (n - along)
  PROVE  /\ ys >= 0 /\ ye >= 0 => RootSign(n * ys + along * (ye - ys), ye - ys, d) >= 0
         /\ ys <= 0 /\ ye <= 0 => RootSign(n * ys + along * (ye - ys), ye - ys, d) <= 0
<1> DEFINE q == ye - ys
           p == n * ys + along * q
<1>1. q \in Int /\ p \in Int  OBVIOUS
<1>2. ASSUME ys >= 0, ye >= 0 PROVE RootSign(p, q, d) >= 0
  <2>1. q \in Int /\ ys + q >= 0  BY <1>2
  <2> HIDE DEF q
  <2> QED  BY <1>2, <2>1, Between
<1>3. ASSUME ys <= 0, ye <= 0 PROVE RootSign(p, q, d) <= 0
  <2>1. -p = n * (-ys) + along * (-q)  OBVIOUS
  <2>2. -q \in Int /\ -ys \in Int /\ -ys >= 0 /\ -ys + (-q) >= 0  BY <1>3
  <2> HIDE DEF p, q
  <2>3. RootSign(n * (-ys) + along * (-q), -q, d) >= 0  BY <2>2, Between
  <2>4. RootSign(-p, -q, d) = -RootSign(p, q, d) /\ RootSign(p, q, d) \in {-1, 0, 1}
    BY <1>1, RootSignType
  <2> QED  BY <2>1, <2>3, <2>4
<1> QED  BY <1>2, <1>3

(* The turn is to the side on which all of the lane is.                      *)
LEMMA TurnOfLane ==
  ASSUME NEW wps \in Seq(Point), NEW h \in Point, NEW p, NEW L \in Nat, NEW interpolates
  PROVE  LET got == CanGetCurvature(wps, h, p, L, interpolates)
             Side(i) == RelativeY(wps[i], wps[1], h)
         IN  /\ got.next # 0 /\ ~got.throws /\ wps[got.next] # wps[1] =>
                  /\ got.turn \in {-1, 0, 1}
                  /\ (\A i \in DOMAIN wps : Side(i) >= 0) => got.turn >= 0
                  /\ (\A i \in DOMAIN wps : Side(i) <= 0) => got.turn <= 0
<1> DEFINE got == CanGetCurvature(wps, h, p, L, interpolates)
           next == NextWaypoint(wps, L)
           Side(i) == RelativeY(wps[i], wps[1], h)
           Right(turn) == /\ turn \in {-1, 0, 1}
                          /\ (\A i \in DOMAIN wps : Side(i) >= 0) => turn >= 0
                          /\ (\A i \in DOMAIN wps : Side(i) <= 0) => turn <= 0
<1> SUFFICES ASSUME got.next # 0, ~got.throws, wps[got.next] # wps[1]
             PROVE  Right(got.turn)
  OBVIOUS
<1>1. /\ got.next = next
      /\ got.turn = IF got.at # "lost" /\ Len(wps) >= 2
                     THEN Curvature(wps, h, next, got.at, L) ELSE 0
  BY DEF CanGetCurvature
<1>2. next \in 1 .. Len(wps) /\ DOMAIN wps = 1 .. Len(wps) /\ Len(wps) \in Nat
  <2>1. next \in 0 .. Len(wps) /\ next # 0  BY <1>1, NextWaypointFound
  <2> HIDE DEF next
  <2> QED  BY <2>1
<1>3. \A i \in 1 .. Len(wps) : wps[i] \in Point  OBVIOUS
<1>4. 1 \in 1 .. Len(wps)
  <2> HIDE DEF next
  <2> QED  BY <1>2
<1>5. CASE got.turn = 0  BY <1>5
<1>6. CASE got.turn # 0 /\ got.at = "waypoint"
  <2>1. got.turn = Sgn(Side(next))
    BY <1>1, <1>6 DEF Curvature
  <2>2. Side(next) \in Int  BY <1>2, <1>3, <1>4, CrossOf
  <2> HIDE DEF Side, next
  <2> QED  BY <2>1, <2>2, <1>2, SgnOf
<1>7. CASE got.turn # 0 /\ got.at # "waypoint"
  <2>1. /\ got.at # "lost"
        /\ got.at = InterpolateNextTarget(wps, next, L) /\ next \notin {0, Len(wps)}
    BY <1>1, <1>7 DEF CanGetCurvature
  <2> DEFINE start == wps[next - 1]
             end == wps[next]
             here == wps[1]
             c == LineAndCircle(start, end, here, L)
             side == CASE got.at = "front" -> 1 [] got.at = "behind" -> -1 [] OTHER -> 0
             q == Cross(h, Minus(end, start))
             ys == RelativeY(start, here, h)
             ye == RelativeY(end, here, h)
  <2>2. got.turn = RootSign(c.n * ys + c.along * q, side * q, c.chord2)
    BY <1>1, <1>7, <2>1 DEF Curvature
  <2>3. /\ next > 1
        /\ PlaneDistance2(start, here) <= L * L /\ PlaneDistance2(end, here) > L * L
    BY <2>1, NextWaypointFound
  <2>4. next - 1 \in 1 .. Len(wps)
    <3> HIDE DEF next
    <3> QED  BY <2>3, <1>2
  <2>5. start \in Point /\ end \in Point /\ here \in Point
    BY <2>4, <1>2, <1>3, <1>4
  <2>6. Side(next - 1) = ys /\ Side(next) = ye  OBVIOUS
  <2>7. \/ got.at = "foot" /\ c.chord2 = 0
        \/ got.at = "front"
        \/ got.at = "behind" /\ WithinInterval(c, -1)
    BY <2>1 DEF InterpolateNextTarget
  <2> HIDE DEF start, end, here, next
  <2>8. ys \in Int /\ ye \in Int /\ q = ye - ys  BY <2>5, CrossOf
  <2>9. /\ c.n \in Int /\ c.along \in Int /\ c.chord2 \in Nat
        /\ c.n > 0 /\ c.n - c.along > 0 /\ c.chord2 >= c.along * c.along
        /\ c.chord2 < (c.n - c.along) * (c.n - c.along)
    BY <2>3, <2>5, Circle
  <2> HIDE DEF c, q, ys, ye
  <2>10. /\ ys >= 0 /\ ye >= 0 => got.turn >= 0
         /\ ys <= 0 /\ ye <= 0 => got.turn <= 0
         /\ got.turn \in {-1, 0, 1}
    <3>1. CASE got.at = "front"
      <4>1. side * q = q  BY <3>1, <2>8
      <4>2. got.turn = RootSign(c.n * ys + c.along * (ye - ys), ye - ys, c.chord2)
        BY <4>1, <2>2, <2>8
      <4>3. got.turn \in {-1, 0, 1}
        <5>1. c.n * ys + c.along * (ye - ys) \in Int /\ ye - ys \in Int  BY <2>8, <2>9
        <5> QED  BY <5>1, <4>2, <2>9, RootSignType
      <4> QED  BY <4>2, <4>3, <2>8, <2>9, SideOfLane, ZenonT(60)
    <3>2. CASE got.at = "foot" /\ c.chord2 = 0
      <4>1. c.along * c.along = 0 /\ c.along = 0
        <5>1. c.along * c.along = 0  BY <3>2, <2>9, Square
        <5> QED  BY <5>1, <2>9
      <4>2. side * q = 0 /\ c.along * q = 0  BY <3>2, <4>1, <2>8
      <4>3. c.n * ys \in Int  BY <2>8, <2>9
      <4>4. got.turn = RootSign(c.n * ys, 0, 0)  BY <2>2, <3>2, <4>2, <4>3
      <4>5. got.turn = Sgn(c.n * ys)
        <5>1. Sgn(0 * 0) = 0 /\ Sgn(c.n * ys) \in {-1, 0, 1}  BY <4>3, SgnOf DEF Sgn
        <5>2. RootSign(c.n * ys, 0, 0) = Sgn(Sgn(c.n * ys) + 0)  BY <5>1 DEF RootSign
        <5> QED  BY <4>4, <5>1, <5>2 DEF Sgn
      <4>6. (ys >= 0 => c.n * ys >= 0) /\ (ys <= 0 => c.n * ys <= 0)
        <5>1. ys <= 0 => c.n * (-ys) >= 0  BY <2>8, <2>9, Product
        <5>2. c.n * (-ys) = -(c.n * ys)  BY <2>8, <2>9
        <5> QED  BY <5>1, <5>2, <4>3, <2>8, <2>9, Product
      <4> QED  BY <4>3, <4>5, <4>6, SgnOf
    <3>3. CASE got.at = "behind" /\ WithinInterval(c, -1)
      BY <3>3, <2>9, NotBehind DEF WithinInterval
    <3> QED  BY <2>7, <3>1, <3>2, <3>3
  <2> HIDE DEF Side
  <2> QED  BY <1>2, <2>4, <2>6, <2>10
<1> QED  BY <1>5, <1>6, <1>7
-----------------------------------------------------------------------------
(* The invariant. Lanes, configurations and velocities are what the callbacks*)
(* may bring, the process dies as DiesOnShortLane says.                      *)
TypeInv ==
  /\ alive \in BOOLEAN
  /\ config \in [dialog : BOOLEAN, lookahead : Nat, velocity : Nat]
  /\ lane \in [wps : Seq(Point), h : Point, v : Nat]
  /\ velocity \in Nat

IInv == TypeInv /\ DiesOnShortLane

(* The lookahead is a length and the speed asked for not negative.           *)
LEMMA Cruise ==
  ASSUME TypeInv
  PROVE  LookaheadDistance \in Nat /\ CommandVelocity \in Nat
<1>1. velocity * Ratio \in Nat /\ velocity * 10 \in Nat /\ MinLookahead \in Nat
  BY CruiseAssumption DEF TypeInv
<1>2. config.lookahead \in Nat /\ config.velocity \in Nat /\ lane.v \in Nat
  BY DEF TypeInv
<1> QED  BY <1>1, <1>2 DEF LookaheadDistance, CommandVelocity

(* A run of the loop whose lane has no waypoint reaches no target, and one   *)
(* that throws has exactly one waypoint.                                     *)
LEMMA ShortLane ==
  ASSUME NEW wps \in Seq(Point), NEW h, NEW p, NEW L \in Nat, NEW interpolates
  PROVE  LET got == CanGetCurvature(wps, h, p, L, interpolates)
         IN  /\ got.throws \in BOOLEAN
             /\ got.throws => Len(wps) = 1
             /\ got.next = 0 <=> Len(wps) = 0
             /\ got.next = 0 => got.at = "lost"
<1> DEFINE got == CanGetCurvature(wps, h, p, L, interpolates)
           next == NextWaypoint(wps, L)
<1>1. /\ got.next = next
      /\ got.throws \in BOOLEAN
      /\ got.throws => got.at # "lost" /\ Len(wps) < 2
      /\ next = 0 => got.at = "lost"
  BY DEF CanGetCurvature
<1>2. next = 0 <=> Len(wps) = 0  BY NextWaypointFound
<1>3. Len(wps) \in Nat  OBVIOUS
<1> HIDE DEF got, next
<1>4. ASSUME got.throws PROVE Len(wps) = 1
  <2>1. got.at # "lost" /\ Len(wps) < 2  BY <1>1, <1>4
  <2>2. next # 0  BY <1>1, <2>1
  <2>3. Len(wps) # 0  BY <1>2, <2>2
  <2> DEFINE l == Len(wps)
  <2>4. l \in Nat /\ l < 2 /\ l # 0  BY <1>3, <2>1, <2>3
  <2> HIDE DEF l
  <2>5. l = 1  BY <2>4
  <2> QED  BY <2>5 DEF l
<1> QED  BY <1>1, <1>2, <1>4 DEF got

(* The invariant holds at first, and every action keeps it.                  *)
LEMMA InitInv == Init => IInv
<1> SUFFICES ASSUME Init PROVE IInv  OBVIOUS
<1>1. config \in [dialog : BOOLEAN, lookahead : Nat, velocity : Nat]  BY DEF Init
<1>2. lane \in [wps : Seq(Point), h : Point, v : Nat]
  <2>1. <<>> \in Seq(Point)  OBVIOUS
  <2>2. NoPoint \in Point  BY DEF NoPoint, Point
  <2> QED  BY <2>1, <2>2 DEF Init, NoLane
<1> QED  BY <1>1, <1>2 DEF Init, IInv, TypeInv, DiesOnShortLane

LEMMA NextInv == IInv /\ [Next]_vars => IInv'
<1> SUFFICES ASSUME IInv, [Next]_vars PROVE IInv'  OBVIOUS
<1> USE DEF IInv, TypeInv
<1>1. ASSUME NEW c \in Configs, CallbackFromConfig(c) PROVE IInv'
  BY <1>1, LaneAssumption DEF CallbackFromConfig, DiesOnShortLane
<1>2. ASSUME NEW p \in Poses, CallbackFromCurrentPose(p) PROVE IInv'
  BY <1>2 DEF CallbackFromCurrentPose, DiesOnShortLane
<1>3. ASSUME NEW v \in Velocities, CallbackFromCurrentVelocity(v) PROVE IInv'
  BY <1>3, CruiseAssumption DEF CallbackFromCurrentVelocity, DiesOnShortLane
<1>4. ASSUME NEW l \in Lanes, CallbackFromWayPoints(l) PROVE IInv'
  <2>1. l \in [wps : Seq(Point), h : Point, v : Nat]  BY LaneAssumption
  <2>2. <<>> \in Seq(Point) /\ l.h \in Point  BY <2>1
  <2>3. lane' \in [wps : Seq(Point), h : Point, v : Nat]
    BY <1>4, <2>1, <2>2 DEF CallbackFromWayPoints
  <2> QED  BY <1>4, <2>3 DEF CallbackFromWayPoints, DiesOnShortLane
<1>5. ASSUME Run PROVE IInv'
  <2> DEFINE got == CanGetCurvature(lane.wps, lane.h, pose, LookaheadDistance, Interpolates)
  <2>1. LookaheadDistance \in Nat /\ lane.wps \in Seq(Point)  BY Cruise
  <2>2. /\ got.throws \in BOOLEAN
        /\ got.throws => Len(lane.wps) = 1
        /\ got.next = 0 <=> Len(lane.wps) = 0
        /\ got.next = 0 => got.at = "lost"
    BY <2>1, ShortLane
  <2> HIDE DEF got
  <2>3. /\ UNCHANGED <<config, lane, velocity>>
        /\ alive' = (~got.throws /\ got.next # 0)
        /\ ~got.throws => twist' = TwistStamped(got.at # "lost", got.turn)
    BY <1>5 DEF Run, got
  <2>4. TypeInv'  BY <2>3
  <2>5. ASSUME ~alive' PROVE Len(lane'.wps) < 2 /\ (lane'.wps = <<>> => twist'.v = 0)
    <3>1. got.throws \/ got.next = 0  BY <2>2, <2>3, <2>5
    <3>2. lane' = lane  BY <2>3
    <3>3. CASE got.throws
      <4>1. Len(lane.wps) = 1  BY <3>3, <2>2
      <4>2. lane.wps # <<>>
        <5> SUFFICES ASSUME lane.wps = <<>> PROVE FALSE  OBVIOUS
        <5>1. Len(lane.wps) = 0  OBVIOUS
        <5> QED  BY <5>1, <4>1
      <4>3. lane'.wps = lane.wps /\ Len(lane'.wps) = 1  BY <4>1, <3>2
      <4> QED  BY <4>2, <4>3
    <3>4. CASE ~got.throws
      <4>1. got.at = "lost" /\ Len(lane.wps) = 0  BY <3>1, <3>4, <2>2
      <4>2. twist'.v = 0  BY <4>1, <3>4, <2>3 DEF TwistStamped
      <4> QED  BY <4>1, <4>2, <3>2
    <3> QED  BY <3>3, <3>4
  <2> QED  BY <2>4, <2>5 DEF DiesOnShortLane
<1>6. CASE UNCHANGED vars  BY <1>6 DEF vars, DiesOnShortLane
<1> QED  BY <1>1, <1>2, <1>3, <1>4, <1>5, <1>6 DEF Next

(* Only the loop's body is a run: a callback leaves the process alive and    *)
(* does not take the mark off its own input.                                 *)
LEMMA OnlyRunRan == Next /\ Ran => Run
<1> SUFFICES ASSUME Next, Ran PROVE Run  OBVIOUS
<1>1. "pose" \in Inputs /\ "config" \in Inputs /\ "pose" # "config"  BY DEF Inputs
<1>2. is_set = Inputs /\ (is_set' = {"config"} \/ ~alive')  BY DEF Ran
<1>3. ASSUME NEW input, is_set' = is_set \cup {input}, alive' = alive, alive
      PROVE  FALSE
  <2>1. "pose" \in is_set'  BY <1>1, <1>2, <1>3
  <2>2. is_set' = {"config"}  BY <1>2, <1>3
  <2> QED  BY <2>1, <2>2, <1>1
<1>4. ASSUME NEW c \in Configs, CallbackFromConfig(c) PROVE FALSE
  BY <1>3, <1>4 DEF CallbackFromConfig
<1>5. ASSUME NEW p \in Poses, CallbackFromCurrentPose(p) PROVE FALSE
  BY <1>3, <1>5 DEF CallbackFromCurrentPose
<1>6. ASSUME NEW v \in Velocities, CallbackFromCurrentVelocity(v) PROVE FALSE
  BY <1>3, <1>6 DEF CallbackFromCurrentVelocity
<1>7. ASSUME NEW l \in Lanes, CallbackFromWayPoints(l) PROVE FALSE
  BY <1>3, <1>7 DEF CallbackFromWayPoints
<1> QED  BY <1>4, <1>5, <1>6, <1>7 DEF Next

-----------------------------------------------------------------------------
(* The node dies of a lane with fewer than two waypoints only, and of an     *)
(* empty one after a twist of 0 (calcCurvature's current_waypoints_ at(1),   *)
(* the marker's getWaypointPosition).                                        *)
THEOREM DiesOnShortLaneHolds == Spec => []DiesOnShortLane
<1>1. Init => IInv  BY InitInv
<1>2. IInv /\ [Next]_vars => IInv'  BY NextInv
<1>3. IInv => DiesOnShortLane  BY DEF IInv
<1> QED  BY <1>1, <1>2, <1>3, PTL DEF Spec

(* interpolateNextTarget loses the target only where the waypoint before lies*)
(* on the circle of the lookahead itself.                                    *)
THEOREM LostOnlyOnCircleHolds == Spec => LostOnlyOnCircle
<1>1. Init => IInv  BY InitInv
<1>2. IInv /\ [Next]_vars => IInv'  BY NextInv
<1>3. IInv /\ [Next]_vars => [LostStep]_vars
  <2> SUFFICES ASSUME IInv, Next, Ran, goal'.at = "lost", goal'.next # 0
               PROVE  PlaneDistance2(lane.wps[goal'.next - 1], lane.wps[1])
                        = goal'.lookahead * goal'.lookahead
    BY DEF LostStep
  <2> DEFINE got == CanGetCurvature(lane.wps, lane.h, pose, LookaheadDistance, Interpolates)
  <2>1. LookaheadDistance \in Nat /\ lane.wps \in Seq(Point)  BY Cruise DEF IInv, TypeInv
  <2>2. goal' = [next |-> got.next, at |-> got.at, lookahead |-> LookaheadDistance]
    BY OnlyRunRan DEF Run
  <2>3. got.at = "lost" /\ got.next # 0  BY <2>2
  <2>4. PlaneDistance2(lane.wps[got.next - 1], lane.wps[1])
          = LookaheadDistance * LookaheadDistance
    BY <2>1, <2>3, LostOnCircle
  <2> QED  BY <2>2, <2>4
<1> QED  BY <1>1, <1>2, <1>3, PTL DEF Spec, LostOnlyOnCircle

(* The robot turns to the side on which the lane lies: the sign of kappa that*)
(* calcCurvature finds, times a speed that is not negative.                  *)
THEOREM TurnsTowardsLaneHolds == Spec => TurnsTowardsLane
<1>1. Init => IInv  BY InitInv
<1>2. IInv /\ [Next]_vars => IInv'  BY NextInv
<1>3. IInv /\ [Next]_vars => [TurnStep]_vars
  <2> DEFINE got == CanGetCurvature(lane.wps, lane.h, pose, LookaheadDistance, Interpolates)
             Side(i) == RelativeY(lane.wps[i], lane.wps[1], lane.h)
             Left == \A i \in DOMAIN lane.wps : Side(i) >= 0
             Right == \A i \in DOMAIN lane.wps : Side(i) <= 0
  <2> SUFFICES ASSUME IInv, Next, Ran, alive', lane.wps[goal'.next] # lane.wps[1]
               PROVE  (Left => twist'.turn >= 0) /\ (Right => twist'.turn <= 0)
    BY DEF TurnStep
  <2>1. /\ LookaheadDistance \in Nat /\ CommandVelocity \in Nat
        /\ lane.wps \in Seq(Point) /\ lane.h \in Point
    BY Cruise DEF IInv, TypeInv
  <2>2. /\ goal'.next = got.next
        /\ ~got.throws /\ got.next # 0
        /\ twist' = TwistStamped(got.at # "lost", got.turn)
    <3>1. Run  BY OnlyRunRan
    <3>2. /\ goal' = [next |-> got.next, at |-> got.at, lookahead |-> LookaheadDistance]
          /\ alive' = (~got.throws /\ got.next # 0)
          /\ ~got.throws => twist' = TwistStamped(got.at # "lost", got.turn)
      BY <3>1 DEF Run
    <3> HIDE DEF got
    <3>3. ~got.throws /\ got.next # 0  BY <3>2
    <3> QED  BY <3>2, <3>3
  <2>3. /\ got.turn \in {-1, 0, 1}
        /\ Left => got.turn >= 0
        /\ Right => got.turn <= 0
    BY <2>1, <2>2, TurnOfLane
  <2> HIDE DEF got, Left, Right
  <2>4. twist'.turn = 0 \/ twist'.turn = got.turn * CommandVelocity
    BY <2>2 DEF TwistStamped
  <2>5. ASSUME twist'.turn = got.turn * CommandVelocity, Left PROVE twist'.turn >= 0
    BY <2>1, <2>3, <2>5
  <2>6. ASSUME twist'.turn = got.turn * CommandVelocity, Right PROVE twist'.turn <= 0
    BY <2>1, <2>3, <2>6
  <2> QED  BY <2>4, <2>5, <2>6
<1> QED  BY <1>1, <1>2, <1>3, PTL DEF Spec, TurnsTowardsLane
-----------------------------------------------------------------------------
(* Behind the node: the twist filter and the label of the CNN's node. The    *)
(* filter divides a natural number by a natural one, and puts the sign of    *)
(* the rate in front.                                                        *)
LEMMA Quotient ==
  ASSUME NEW a \in Nat, NEW b \in Nat \ {0}
  PROVE  a \div b \in Nat
OBVIOUS

(* The filter leaves the rate alone; a clipped twist has a rate, and a speed *)
(* of its sign.                                                              *)
LEMMA FilterSigns ==
  ASSUME NEW t \in [v : Nat, w : Int], Limit \in Nat \ {0}
  PROVE  /\ TwistFilter(t).v \in Int /\ TwistFilter(t).w = t.w
         /\ ~Clipped(t) => TwistFilter(t).v = t.v
         /\ Clipped(t) => /\ t.w > 0 => TwistFilter(t).v >= 0
                          /\ t.w < 0 => TwistFilter(t).v <= 0
                          /\ t.w # 0
<1> DEFINE v == t.v  w == t.w
<1>1. v \in Nat /\ w \in Int /\ -Limit \in Int /\ 0 < Limit /\ -Limit < 0
  OBVIOUS
<1>2. CASE ~Clipped(t)
  BY <1>2, <1>1 DEF TwistFilter
<1>3. CASE Clipped(t)
  <2>1. v * w > Limit \/ v * w < -Limit  BY <1>3 DEF Clipped
  <2>2. w # 0
    <3> HIDE DEF v, w
    <3> SUFFICES ASSUME w = 0 PROVE FALSE  OBVIOUS
    <3>1. v * w = 0  BY <1>1
    <3> QED  BY <3>1, <2>1, <1>1
  <2>3. TwistFilter(t) = [t EXCEPT !.v = IF w > 0 THEN Limit \div w ELSE -(Limit \div (-w))]
    BY <1>3 DEF TwistFilter
  <2>4. /\ TwistFilter(t).v = IF w > 0 THEN Limit \div w ELSE -(Limit \div (-w))
        /\ TwistFilter(t).w = w
    BY <2>3
  <2>5. w > 0 => Limit \div w \in Nat  BY <1>1, Quotient
  <2>6. w < 0 => Limit \div (-w) \in Nat
    <3>1. ASSUME w < 0 PROVE -w \in Nat \ {0}  BY <3>1, <1>1
    <3> QED  BY <3>1, Quotient
  <2> QED  BY <1>1, <1>3, <2>2, <2>4, <2>5, <2>6
<1> QED  BY <1>2, <1>3

(* The side, for a speed of one twist that drives forward and a rate of      *)
(* another: the label is left when their signs agree, and only the clipped   *)
(* turn to the right has a negative speed.                                   *)
LEMMA SideOf ==
  ASSUME NEW t \in [v : Nat, w : Int], NEW rate \in Int, Limit \in Nat \ {0},
         NEW label, label = Label([v |-> TwistFilter(t).v, w |-> rate]),
         label \in {"left", "right"}
  PROVE  label = (IF (rate > 0) = ~(Clipped(t) /\ t.w < 0) THEN "left" ELSE "right")
<1> DEFINE v == TwistFilter(t).v
           turned == Clipped(t) /\ t.w < 0
<1>1. /\ v \in Int /\ t.v \in Nat /\ t.w \in Int
      /\ ~Clipped(t) => v = t.v
      /\ Clipped(t) => (t.w > 0 => v >= 0) /\ (t.w < 0 => v <= 0) /\ t.w # 0
  BY FilterSigns
<1>2. label = Label([v |-> v, w |-> rate])
  OBVIOUS
<1> HIDE DEF v
<1>3. v # 0 /\ rate # 0 /\ label = (IF (rate > 0) = (v > 0) THEN "left" ELSE "right")
  BY <1>2 DEF Label
<1>4. (v > 0) = ~turned
  <2>1. turned => ~(v > 0)  BY <1>1
  <2>2. ~turned => v > 0
    <3>1. CASE Clipped(t)  BY <1>1, <1>3, <3>1
    <3>2. CASE ~Clipped(t)  BY <1>1, <1>3, <3>2
    <3> QED  BY <3>1, <3>2
  <2> QED  BY <2>1, <2>2
<1> HIDE DEF turned
<1>5. label = (IF (rate > 0) = ~turned THEN "left" ELSE "right")
  BY <1>3, <1>4
<1> QED  BY <1>5 DEF turned

(* The types of the CNN's node, and that the thread of the twist reads speed *)
(* and rate of one: while its body runs it cannot store another message.     *)
Reading ==
  /\ cnn.pc \in [Callbacks -> {"idle", "store", "speed", "rate"}]
  /\ cnn.raw \in [v : Nat, w : Int]
  /\ cnn.speed \in [Callbacks -> [v : Nat, w : Int]]
  /\ DOMAIN cnn = {"pc", "flags", "raw", "speed"}
  /\ cnn.pc["twist"] = "rate" => cnn.speed["twist"] = cnn.raw

LEMMA ReadingTaken ==
  ASSUME NEW c, NEW t \in Callbacks, Reading,
         DOMAIN c = DOMAIN cnn, c.pc = cnn.pc, c.speed = cnn.speed,
         c.raw \in [v : Nat, w : Int],
         t = "twist" \/ c.raw = cnn.raw,
         cnn' = Taken(c, t)
  PROVE  Reading'
<1>1. PICK p \in {"idle", "speed"} :
        /\ cnn'.pc = [c.pc EXCEPT ![t] = p] /\ cnn'.raw = c.raw /\ cnn'.speed = c.speed
        /\ DOMAIN cnn' = DOMAIN c
  <2>1. CASE c.flags = Callbacks  BY <2>1 DEF Taken, Reading
  <2>2. CASE c.flags # Callbacks  BY <2>2 DEF Taken, Reading
  <2> QED  BY <2>1, <2>2
<1>2. cnn'.pc["twist"] = "rate" => t # "twist" /\ cnn.pc["twist"] = "rate"
  BY <1>1 DEF Reading, Callbacks
<1>3. cnn'.pc \in [Callbacks -> {"idle", "store", "speed", "rate"}]
  BY <1>1 DEF Reading
<1> QED  BY <1>1, <1>2, <1>3 DEF Reading

LEMMA ReadingKept == Reading /\ [DriveNext]_driveVars => Reading'
<1> SUFFICES ASSUME Reading, [DriveNext]_driveVars PROVE Reading'
  OBVIOUS
<1>1. CASE UNCHANGED cnn  BY <1>1 DEF Reading
<1>2. CASE CallbackImage
  <2> DEFINE c == [cnn EXCEPT !.flags = @ \cup {"image"}]
  <2>1. cnn' = Taken(c, "image")  BY <1>2 DEF CallbackImage
  <2>2. /\ DOMAIN c = DOMAIN cnn /\ c.pc = cnn.pc /\ c.speed = cnn.speed
        /\ c.raw = cnn.raw /\ c.raw \in [v : Nat, w : Int]
    BY DEF Reading
  <2> HIDE DEF c
  <2> QED  BY <2>1, <2>2, ReadingTaken DEF Callbacks
<1>3. CASE FlagTwist
  BY <1>3 DEF FlagTwist, Reading, Callbacks
<1>4. CASE StoreTwist
  <2>1. PICK r \in Raws \cup {Stop} : cnn' = Taken([cnn EXCEPT !.raw = r], "twist")
    BY <1>4 DEF StoreTwist
  <2> DEFINE c == [cnn EXCEPT !.raw = r]
  <2>2. r \in [v : Nat, w : Int]  BY RawsAssumption DEF Stop
  <2>3. /\ DOMAIN c = DOMAIN cnn /\ c.pc = cnn.pc /\ c.speed = cnn.speed
        /\ c.raw \in [v : Nat, w : Int]
    BY <2>2 DEF Reading
  <2>4. cnn' = Taken(c, "twist")  BY <2>1
  <2> HIDE DEF c
  <2> QED  BY <2>3, <2>4, ReadingTaken DEF Callbacks
<1>5. ASSUME NEW t \in Callbacks, ReadSpeed(t) PROVE Reading'
  BY <1>5 DEF ReadSpeed, Reading, Callbacks
<1>6. ASSUME NEW t \in Callbacks, Infer(t) PROVE Reading'
  BY <1>6 DEF Infer, Reading, Callbacks, Stop
<1> QED
  BY <1>1, <1>2, <1>3, <1>4, <1>5, <1>6
     DEF DriveNext, driveVars, CallbackScan, CallbackTwist, CallbackJoy, CallbackDistance, Bridge

(* Whatever twists come while the threads read: the CNN is asked for the     *)
(* side of the turn whose rate is read, but with the speed of a clipped turn *)
(* to the right, for the other; and the twist's thread asks of one twist.    *)
THEOREM SideUnlessClippedHolds == DriveSpec => []SideUnlessClipped
<1>1. DriveInit => Reading
  BY DEF DriveInit, Reading, Stop, Callbacks
<1>2. Reading => SideUnlessClipped
  <2> SUFFICES ASSUME Reading, NEW t \in Callbacks,
                      cnn.pc[t] = "rate", Ask(t) \in {"left", "right"}
               PROVE  /\ Ask(t) = (IF (cnn.raw.w > 0) = ~(Clipped(cnn.speed[t]) /\ cnn.speed[t].w < 0)
                                   THEN "left" ELSE "right")
                      /\ t = "twist" => cnn.speed[t] = cnn.raw
    BY DEF SideUnlessClipped
  <2>1. cnn.speed[t] \in [v : Nat, w : Int] /\ cnn.raw.w \in Int
    BY DEF Reading
  <2>2. Ask(t) = Label([v |-> TwistFilter(cnn.speed[t]).v, w |-> cnn.raw.w])
    BY DEF Ask
  <2>3. Ask(t) = (IF (cnn.raw.w > 0) = ~(Clipped(cnn.speed[t]) /\ cnn.speed[t].w < 0)
                  THEN "left" ELSE "right")
    BY <2>1, <2>2, SideOf, DriveAssumption
  <2>4. t = "twist" => cnn.speed[t] = cnn.raw
    BY DEF Reading
  <2> QED  BY <2>3, <2>4
<1> QED  BY <1>1, <1>2, ReadingKept, PTL DEF DriveSpec
=============================================================================
