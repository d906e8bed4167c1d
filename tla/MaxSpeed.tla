------------------------------ MODULE MaxSpeed ------------------------------
(* The three nodes that may publish /max_speed from a scan of the laser; one *)
(* of them runs. laser_stopper.py stops the robot, laser_stopper_and_back.py *)
(* also backs it out when it has been stopped long enough, and               *)
(* velocity_filter.cpp slows it down by zones and lets it speed up slowly.   *)
(* Ranges and coordinates are in dm, speeds in cm/s.                         *)
EXTENDS Integers, Sequences, FiniteSetsExt

CONSTANTS
  RunLength,   \* rays of a run that make an obstacle (5)
  StopRays,    \* near rays before the robot backs (100)
  BackScans,   \* scans for which it backs (100)
  Rise         \* how much faster it may be after one scan (1)

ASSUME MaxSpeedAssumption ==
  /\ RunLength \in Nat \ {0} /\ StopRays \in Nat /\ BackScans \in Nat
  /\ Rise \in Nat \ {0}

Free == 1000     \* 10 m/s: no limit
Back == -20

(* The rays at which a run of adjacent rays between 0.1 and 0.8 m is at least*)
(* RunLength long and its average below "near". The average is sum / count;  *)
(* the first ray of a run is counted and not added, but for a run that starts*)
(* at the second ray of the scan (index 1, next to last_idx = 0).            *)
NearRays(ranges, near) ==
  LET In(i) == 1 < ranges[i] /\ ranges[i] < 8
      Start(i) == CHOOSE j \in 1..i : /\ \A k \in j..i : In(k)
                                      /\ j = 1 \/ ~In(j - 1)
      Average(i, j) == [count |-> i - j + 1,
                        sum |-> MapThenSumSet(LAMBDA k : ranges[k],
                                              (IF j = 2 THEN j ELSE j + 1)..i)]
      Stops(a) == a.count >= RunLength /\ a.sum < near * a.count
  IN  Cardinality({i \in {k \in DOMAIN ranges : In(k)} : Stops(Average(i, Start(i)))})

(* laser_stopper.py keeps nothing from one scan to the next.                 *)
Stopper(ranges) == IF NearRays(ranges, 3) > 0 THEN 0 ELSE Free

(* The fields of laser_stopper_and_back.py, and the speed it published.      *)
StartBack == [scancount |-> 0, backcount |-> 0, backing |-> FALSE, vel |-> Free]

(* While it backs the scan is not looked at. The rays are counted over all   *)
(* the scans since it last backed, whether or not it was free in between.    *)
StopperAndBack(s, ranges) ==
  IF s.backing /\ s.backcount >= 1
  THEN [s EXCEPT !.backcount = @ - 1, !.vel = Back]
  ELSE LET scancount == IF s.backing THEN 0 ELSE s.scancount
           near == NearRays(ranges, 4)
       IN  IF scancount + near > StopRays
           THEN [scancount |-> 0, backcount |-> BackScans, backing |-> TRUE, vel |-> Back]
           ELSE [scancount |-> scancount + near, backcount |-> 0, backing |-> FALSE,
                 vel |-> IF near > 0 THEN 0 ELSE Free]

(* The zones of velocity_filter.cpp, in their order. In front the speed is   *)
(* sqrt(x / 4) + 0.05 m/s, rounded down.                                     *)
Root(n) == CHOOSE r \in 0..n : r * r <= n /\ (r + 1) * (r + 1) > n
CheckCollision(x, y) ==
  LET Within(d) == -d < y /\ y < d
  IN  IF x < 2 /\ x > -6 /\ Within(3) THEN Free
      ELSE IF x < 3 /\ x > 0 /\ Within(3) THEN 1
      ELSE IF x < 10 /\ x > 0 /\ Within(3) THEN Root(250 * x) + 5
      ELSE IF x <= 0 /\ x > -8 /\ Within(4) THEN 10
      ELSE IF x <= 0 /\ x > -8 /\ Within(6) THEN 30
      ELSE Free

(* The slowest zone a point beyond 0.2 m lies in, at most 0.5 m/s, and at    *)
(* most Rise faster than after the scan before.                              *)
StartFilter == 10
Slowest(points) ==
  LET speeds == {50} \cup {CheckCollision(p.x, p.y) :
                           p \in {q \in points : q.x * q.x + q.y * q.y > 4}}
  IN  CHOOSE v \in speeds : \A u \in speeds : v <= u
VelocityFilter(prev_speed, points) ==
  IF Slowest(points) > prev_speed + Rise THEN prev_speed + Rise ELSE Slowest(points)
=============================================================================
