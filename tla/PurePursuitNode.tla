-------------------------- MODULE PurePursuitNode --------------------------
(* The pure pursuit node: four subscriptions whose callbacks note what came, *)
(* and a loop that publishes a twist once a pose, a velocity and a lane have *)
(* come since the last one (pure_pursuit_core.cpp). One thread runs the      *)
(* callbacks, inside spinOnce, and the body of the loop, so each of them is  *)
(* one action; a round of the loop with something missing changes nothing.   *)
(* An exception that leaves run() ends the process.                          *)
EXTENDS PurePursuit

CONSTANTS
  Lanes,           \* lanes: [wps: sequence of points, h: first pose's heading, v: speed]
  Poses,           \* positions of current_pose
  Velocities,      \* values of current_velocity
  Configs,         \* configurations: [dialog: BOOLEAN, lookahead, velocity]
  Interpolates,    \* the parameter is_linear_interpolation
  Ratio,           \* lookahead_distance_ratio_ (2.14 in the code)
  MinLookahead     \* minimum_lookahead_distance_ (3.0 in the code)

ASSUME CruiseAssumption ==
  /\ Interpolates \in BOOLEAN
  /\ Ratio \in 1..10 /\ MinLookahead \in Nat \ {0}
  /\ Velocities \subseteq Nat
(* Nobody asks for a negative speed: the lanes are recorded while driving on.*)
ASSUME LaneAssumption ==
  /\ Lanes \subseteq [wps : Seq(Point), h : Point, v : Nat]
  /\ Configs \subseteq [dialog : BOOLEAN, lookahead : Nat, velocity : Nat]

VARIABLES
  alive,           \* the process runs
  is_set,          \* which of is_pose_set_, is_waypoint_set_, ... are true
  config,          \* param_flag_, const_lookahead_distance_, const_velocity_
  lane,            \* current_waypoints_ and command_linear_velocity_
  pose,            \* current_pose_
  velocity,        \* current_linear_velocity_
  goal,            \* the last run's waypoint number, target and lookahead
  twist,           \* the last cyclops_twist_raw: [v, turn]
  distance         \* the last cyclops_distance_to_next_waypoint

vars == <<alive, is_set, config, lane, pose, velocity, goal, twist, distance>>

Inputs == {"pose", "waypoint", "velocity", "config"}
NoPoint == [x |-> 0, y |-> 0]
NoLane == [wps |-> <<>>, h |-> NoPoint, v |-> 0]
NoGoal == [next |-> 0, at |-> "lost", lookahead |-> 0]
NoTwist == [v |-> 0, turn |-> 0, sent |-> FALSE]

Init ==
  /\ alive = TRUE
  /\ is_set = {}
  /\ config = [dialog |-> FALSE, lookahead |-> 4, velocity |-> 5]
  /\ lane = NoLane
  /\ pose = NoPoint
  /\ velocity = 0
  /\ goal = NoGoal
  /\ twist = NoTwist
  /\ distance = 0

-----------------------------------------------------------------------------
(* The callbacks. The speed asked for is that of the lane's first waypoint,  *)
(* 0 for an empty lane.                                                      *)
CallbackFromConfig(c) ==
  /\ alive
  /\ config' = c
  /\ is_set' = is_set \cup {"config"}
  /\ UNCHANGED <<alive, lane, pose, velocity, goal, twist, distance>>

CallbackFromCurrentPose(p) ==
  /\ alive
  /\ pose' = p
  /\ is_set' = is_set \cup {"pose"}
  /\ UNCHANGED <<alive, config, lane, velocity, goal, twist, distance>>

CallbackFromCurrentVelocity(v) ==
  /\ alive
  /\ velocity' = v
  /\ is_set' = is_set \cup {"velocity"}
  /\ UNCHANGED <<alive, config, lane, pose, goal, twist, distance>>

CallbackFromWayPoints(l) ==
  /\ alive
  /\ lane' = IF l.wps # <<>> THEN l ELSE [wps |-> <<>>, h |-> l.h, v |-> 0]
  /\ is_set' = is_set \cup {"waypoint"}
  /\ UNCHANGED <<alive, config, pose, velocity, goal, twist, distance>>

-----------------------------------------------------------------------------
LookaheadDistance ==
  LET ld == velocity * Ratio  most == velocity * 10
  IN  IF config.dialog THEN config.lookahead
      ELSE IF ld < MinLookahead THEN MinLookahead
      ELSE IF ld > most THEN most ELSE ld

CommandVelocity == IF config.dialog THEN config.velocity ELSE lane.v

(* A target that could not be got is a twist of 0.                           *)
TwistStamped(can, turn) ==
  [v |-> IF can THEN CommandVelocity ELSE 0,
   turn |-> IF can THEN turn * CommandVelocity ELSE 0,
   sent |-> TRUE]

(* The body of the loop. calcCurvature throws before anything is published,  *)
(* the marker of the next waypoint after the twist and the distance are.     *)
Run ==
  LET L == LookaheadDistance
      got == CanGetCurvature(lane.wps, lane.h, pose, L, Interpolates)
  IN  /\ alive
      /\ is_set = Inputs
      /\ goal' = [next |-> got.next, at |-> got.at, lookahead |-> L]
      /\ IF got.throws
         THEN UNCHANGED <<twist, distance>>
         ELSE /\ twist' = TwistStamped(got.at # "lost", got.turn)
              /\ distance' = got.distance
      /\ alive' = (~got.throws /\ got.next # 0)
      /\ is_set' = IF alive' THEN {"config"} ELSE is_set
      /\ UNCHANGED <<config, lane, pose, velocity>>

Next ==
  \/ \E c \in Configs : CallbackFromConfig(c)
  \/ \E p \in Poses : CallbackFromCurrentPose(p)
  \/ \E v \in Velocities : CallbackFromCurrentVelocity(v)
  \/ \E l \in Lanes : CallbackFromWayPoints(l)
  \/ Run

Spec == Init /\ [][Next]_vars

-----------------------------------------------------------------------------
(* A run of the loop's body: the lane it used is still there after it.       *)
Ran == is_set = Inputs /\ (is_set' = {"config"} \/ ~alive')

(* A robot that is on a lane does not lose its target: with a waypoint beyond*)
(* the lookahead and the one before it within, the lane leaves the circle    *)
(* between the two, and the target is there. interpolateNextTarget misses it *)
(* when the one before lies on the circle itself: "nearer than the interval" *)
(* excludes that end of the segment, and the twist is 0.                     *)
LostStep ==
  Ran /\ goal'.at = "lost" /\ goal'.next # 0 =>
    PlaneDistance2(lane.wps[goal'.next - 1], lane.wps[1])
      = goal'.lookahead * goal'.lookahead
LostOnlyOnCircle == [][LostStep]_vars

(* The side of the turn is the side of the lane: when every waypoint is on   *)
(* the left of the first pose's heading, or straight ahead of it, the robot  *)
(* is not turned to the right, and the same for right and left (a lane that  *)
(* ends where it starts is straight to within KAPPA_MIN).                    *)
TurnStep ==
  LET wps == lane.wps
      Side(i) == RelativeY(wps[i], wps[1], lane.h)
  IN  Ran /\ alive' /\ wps[goal'.next] # wps[1] =>
        /\ (\A i \in DOMAIN wps : Side(i) >= 0) => twist'.turn >= 0
        /\ (\A i \in DOMAIN wps : Side(i) <= 0) => twist'.turn <= 0
TurnsTowardsLane == [][TurnStep]_vars

(* The node dies of lanes with fewer than two waypoints only, and when the   *)
(* lane was empty the last twist it leaves to the robot is 0.                *)
DiesOnShortLane ==
  ~alive => /\ Len(lane.wps) < 2
            /\ lane.wps = <<>> => twist.v = 0
=============================================================================
