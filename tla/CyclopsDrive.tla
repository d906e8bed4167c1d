---------------------------- MODULE CyclopsDrive ----------------------------
(* From the lane and the laser to the wheels: the twist of the pure pursuit  *)
(* node through the twist filter to the CNN's node, the CNN's output,        *)
(* Autoware's twist and the distance to the node that publishes /cmd_vel,    *)
(* the laser's node beside them for the greatest speed, and the bridge that  *)
(* hands the newest /cmd_vel to SHSpur_vel.                                  *)
(*                                                                           *)
(* The node of the CNN runs its two callbacks in threads of their own, which *)
(* are taken apart where they share its attributes; of the other nodes a     *)
(* callback is one action, and a message reaches it in the step that         *)
(* publishes it; the bridge polls a queue of one. ReturnUsingAutoware takes  *)
(* the node of /cmd_vel apart, and has who steers: here a command is its     *)
(* speed, in cm/s. Turning rates are in units of which UnitRate make 1 rad/s.*)
EXTENDS MaxSpeed

CONSTANTS
  Limiters,      \* the nodes for /max_speed one of which runs
  Twists,        \* speeds of Autoware
  Raws,          \* twists of pure pursuit on a lane: [v, w]
  Limit,         \* g_lateral_accel_limit, in units of v * w
  UnitRate,
  Scans,         \* scans: [ranges, points, near: an obstacle is in front]
  JoyX           \* the speed of the joystick

ASSUME DriveAssumption ==
  /\ Limiters \subseteq {"stop", "back", "follow"}
  /\ Twists \subseteq Int /\ Limit \in Nat \ {0} /\ UnitRate \in Nat \ {0}
(* Pure pursuit drives forward: the speed is that of the lane, which was     *)
(* recorded while driving on, or of the dialog.                              *)
ASSUME RawsAssumption == Raws \subseteq [v : Nat, w : Int]

VARIABLES
  laser,         \* the node that runs, its fields, and the last scan's near
  cnn,           \* the node of the CNN: where its threads are, its flags, the
                 \* twist of pure pursuit, and the speed each thread has read
  mux,           \* the node of /cmd_vel: its flags, Autoware's twist, the buttons
  cmd,           \* the subscription of the bridge: a queue of one
  robot          \* the speed SHSpur_vel was last called with

driveVars == <<laser, cnn, mux, cmd, robot>>

\* The two callbacks of the CNN's node, each of which runs in its own thread.
Callbacks == {"image", "twist"}

\* A twist of 0. It stands for the attribute that is not there yet, too: both raise.
Stop == [v |-> 0, w |-> 0]

DriveInit ==
  /\ laser \in {[node |-> n, s |-> IF n = "follow" THEN [vel |-> StartFilter] ELSE StartBack,
                 near |-> FALSE, said |-> FALSE] : n \in Limiters}
  /\ cnn = [pc |-> [t \in Callbacks |-> "idle"], flags |-> {}, raw |-> Stop,
            speed |-> [t \in Callbacks |-> Stop]]
  /\ mux = [flags |-> {}, x |-> 0, joy |-> "none"]
  /\ cmd = <<>>
  /\ robot = 0

-----------------------------------------------------------------------------
(* A scan, and the greatest speed it gives to the /cmd_vel node.             *)
Limited(scan) ==
  CASE laser.node = "stop" -> [StartBack EXCEPT !.vel = Stopper(scan.ranges)]
    [] laser.node = "back" -> StopperAndBack(laser.s, scan.ranges)
    [] laser.node = "follow" -> [vel |-> VelocityFilter(laser.s.vel, scan.points)]

CallbackScan ==
  /\ UNCHANGED <<cnn, mux, cmd, robot>>
  /\ \E scan \in Scans :
       laser' = [laser EXCEPT !.s = Limited(scan), !.near = scan.near, !.said = TRUE]

\* Mutant: the joystick's speed is not capped.
Command_uncapped(m) ==
  LET max_vel == IF laser.said THEN laser.s.vel ELSE 500
  IN  IF m.joy = "both" THEN JoyX ELSE IF max_vel < m.x THEN max_vel ELSE m.x

(* The speed of a whole triple: that of Autoware, or with both buttons that  *)
(* of the joystick, at most max_vel, which is 5 m/s before the first scan.   *)
Command(m) ==
  LET max_vel == IF laser.said THEN laser.s.vel ELSE 500
      asked == IF m.joy = "both" THEN JoyX ELSE m.x
  IN  IF max_vel < asked THEN max_vel ELSE asked

(* callback() of that node, after what it does to m: without a joystick      *)
(* message it raises with the flags reset.                                   *)
Callback(m) ==
  IF m.flags # {"CNN", "twist", "distance"} THEN mux' = m /\ UNCHANGED cmd
  ELSE /\ mux' = [m EXCEPT !.flags = {}]
       /\ cmd' = IF m.joy = "none" THEN cmd ELSE <<Command(m)>>

CallbackTwist ==
  /\ \E x \in Twists : Callback([mux EXCEPT !.flags = @ \cup {"twist"}, !.x = x])
  /\ UNCHANGED <<laser, cnn, robot>>

CallbackJoy ==
  /\ \E joy \in {"both", "other"} : mux' = [mux EXCEPT !.joy = joy]
  /\ UNCHANGED <<laser, cnn, cmd, robot>>

-----------------------------------------------------------------------------
Clipped(t) == t.v * t.w > Limit \/ t.v * t.w < -Limit

\* Mutant: the limit is divided by the rate with its sign swapped.
TwistFilter_swapped(t) ==
  IF ~Clipped(t) THEN t
  ELSE [t EXCEPT !.v = IF t.w < 0 THEN Limit \div (-t.w) ELSE -(Limit \div t.w)]

(* twist_filter.cpp with the gains of its low-pass at 0, their default: a    *)
(* twist whose lateral acceleration is beyond the limit gets the speed       *)
(* limit / omega, which is negative for a turn to the right.                 *)
TwistFilter(t) ==
  IF ~Clipped(t) THEN t
  ELSE [t EXCEPT !.v = IF t.w > 0 THEN Limit \div t.w ELSE -(Limit \div (-t.w))]

(* The distance of a round of pure pursuit. Its twist takes another topic,   *)
(* through the filter to the CNN's node, and comes when it comes. The node   *)
(* keeps it here as pure pursuit sent it: Ask filters it.                    *)
CallbackDistance ==
  /\ Callback([mux EXCEPT !.flags = @ \cup {"distance"}])
  /\ UNCHANGED <<laser, cnn, robot>>

\* Mutant: a twist of 0 is answered too.
Label_all(t) == "left"

(* The label the CNN is asked with: the side of the arc of curvature         *)
(* omega / v after one second. For a rate beyond 1 rad/s the root is not a   *)
(* number, and a speed or a rate of 0 raises.                                *)
Label(t) ==
  IF t.v = 0 \/ t.w = 0 THEN "raises"
  ELSE IF t.w > UnitRate \/ t.w < -UnitRate THEN "nan"
  ELSE IF (t.w > 0) = (t.v > 0) THEN "left" ELSE "right"

(* callback() of the CNN's node in thread t: with both flags it resets them  *)
(* and goes on with the image.                                               *)
Taken(c, t) ==
  IF c.flags = Callbacks THEN [c EXCEPT !.flags = {}, !.pc[t] = "speed"]
  ELSE [c EXCEPT !.pc[t] = "idle"]

CallbackImage ==
  /\ cnn.pc["image"] = "idle"
  /\ cnn' = Taken([cnn EXCEPT !.flags = @ \cup {"image"}], "image")
  /\ UNCHANGED <<laser, mux, cmd, robot>>

(* The twist's callback sets its flag first, and then replaces the message,  *)
(* which the other thread may be about to read. Without a target it is 0.    *)
FlagTwist ==
  /\ cnn.pc["twist"] = "idle"
  /\ cnn' = [cnn EXCEPT !.flags = @ \cup {"twist"}, !.pc["twist"] = "store"]
  /\ UNCHANGED <<laser, mux, cmd, robot>>

StoreTwist ==
  /\ cnn.pc["twist"] = "store"
  /\ \E t \in Raws \cup {Stop} : cnn' = Taken([cnn EXCEPT !.raw = t], "twist")
  /\ UNCHANGED <<laser, mux, cmd, robot>>

(* The message is read twice, for its speed and then for its rate.           *)
ReadSpeed(t) ==
  /\ cnn.pc[t] = "speed"
  /\ cnn' = [cnn EXCEPT !.speed[t] = cnn.raw, !.pc[t] = "rate"]
  /\ UNCHANGED <<laser, mux, cmd, robot>>

\* What thread t asks the CNN for, with the speed it has and the rate it reads.
Ask(t) == Label([v |-> TwistFilter(cnn.speed[t]).v, w |-> cnn.raw.w])

(* A body that raises has reset the flags and publishes nothing.             *)
Infer(t) ==
  /\ cnn.pc[t] = "rate"
  /\ cnn' = [cnn EXCEPT !.speed[t] = Stop, !.pc[t] = "idle"]
  /\ IF Ask(t) = "raises" THEN UNCHANGED <<mux, cmd>>
     ELSE Callback([mux EXCEPT !.flags = @ \cup {"CNN"}])
  /\ UNCHANGED <<laser, robot>>

(* sh_spur.cpp: a spin of its loop takes the newest /cmd_vel.                *)
Bridge ==
  /\ cmd # <<>>
  /\ robot' = Head(cmd) /\ cmd' = <<>>
  /\ UNCHANGED <<laser, cnn, mux>>

DriveNext ==
  \/ CallbackScan \/ CallbackTwist \/ CallbackJoy \/ CallbackDistance
  \/ CallbackImage \/ FlagTwist \/ StoreTwist
  \/ \E t \in Callbacks : ReadSpeed(t) \/ Infer(t)
  \/ Bridge

(* The laser's driver publishes at its rate and the bridge spins at 10 Hz;   *)
(* of the others nothing is assumed.                                         *)
DriveSpec == DriveInit /\ [][DriveNext]_driveVars
             /\ WF_driveVars(CallbackScan) /\ WF_driveVars(Bridge)

-----------------------------------------------------------------------------
(* An obstacle that stays stops the robot, or backs it, whoever drives it,   *)
(* as long as commands are made at all; velocity_filter lets it creep.       *)
Commands == []<>(cmd # <<>>)
StopsAtObstacle ==
  <>[](laser.near) /\ Commands
    => <>[](robot <= IF laser.node = "follow" THEN 1 ELSE 0)

(* What ends the commands: pure pursuit has no target. Its twist of 0 makes  *)
(* the CNN's node raise, the triples are not completed any more, and the     *)
(* robot keeps the speed it has.                                             *)
LostSilences == <>[](cnn.raw = Stop) => <>[](cmd = <<>>)

(* The CNN is asked for the side of the turn whose rate is read, but by a    *)
(* thread whose speed is of a turn to the right that the twist filter clips  *)
(* and makes negative: it asks for the other side. In the thread of the      *)
(* camera speed and rate may be of two twists, and then a turn to the left   *)
(* is asked for as one to the right; in that of the twist they are of one.   *)
SideUnlessClipped ==
  \A t \in Callbacks :
    cnn.pc[t] = "rate" /\ Ask(t) \in {"left", "right"} =>
      LET turned == Clipped(cnn.speed[t]) /\ cnn.speed[t].w < 0
      IN  /\ Ask(t) = (IF (cnn.raw.w > 0) = ~turned THEN "left" ELSE "right")
          /\ t = "twist" => cnn.speed[t] = cnn.raw
=============================================================================
