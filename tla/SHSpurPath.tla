----------------------------- MODULE SHSpurPath -----------------------------
(***************************************************************************)
(* Paths that clients tell the robot to follow, and their questions about  *)
(* where it is.  A path is named in any coordinate system and translated   *)
(* to the global one once, when the command is handled; the control loop   *)
(* compares it with the odometry translated to the global one, in every    *)
(* cycle, and the questions translate the odometry to the client's.        *)
(*                                                                         *)
(* Of the control laws there is what they take into account: where the     *)
(* robot is as the path sees it.  What they make of it (regurator, and the *)
(* limit of spin) are speeds, and the speed is a matter of SHSpur.         *)
(***************************************************************************)
EXTENDS SHSpurPose

CONSTANT Paths   \* poses that clients name: points and directions of lines,
                 \* centres of circles, directions to face or of a slope
ASSUME PathAssumption == Paths \subseteq Pose

VARIABLES
  g_spur,      \* g_spur_x, g_spur_y, g_spur_theta, and g_spur_dir as dir
  g_run_mode,  \* "STOP" stands for the modes of SHSpur, which have no path
  asked        \* history: the path and the slope as they were named: kind, system,
               \* pose, and how far the robot came since; until that system is
               \* moved against the global one

pathVars == <<g_spur, g_run_mode, asked>>
allVars  == <<vars, pathVars>>

PathInit ==
  /\ Init
  /\ g_spur = [x |-> 0, y |-> 0, theta |-> 0, dir |-> 0]
  /\ g_run_mode = "STOP"
  /\ asked = {}
-----------------------------------------------------------------------------
(* command_run.c and set_tilt_com.                                         *)

\* Mutant: the systems are swapped.
InGlobal_swapped(cs, p) == CS_recursive_trans(tree, cs, "GL", p)
\* What the global system sees of what cs sees at p.
InGlobal(cs, p) == CS_recursive_trans(tree, "GL", cs, p)

\* The robot's own system may be half set, or stale: then it is not known what a
\* path means that is named in it.
Known(cs) == cs # "FS" \/ Whole
Names(kind, cs, p) ==
  LET paths == IF kind = "tilt" THEN {"tilt"} ELSE {"line", "circle", "spin"}
      now   == [kind |-> kind, cs |-> cs, p |-> p, moved |-> {Origin}]
  IN  asked' = {a \in asked : a.kind \notin paths} \cup (IF Known(cs) THEN {now} ELSE {})

Only(kind, cs, p, mode) ==
  /\ Command /\ Names(kind, cs, p)
  /\ g_run_mode' = mode
  /\ UNCHANGED <<odo, tree, body, main, record, fix, packets, fixes, history>>

line_com(cs, p) ==
  /\ LET q == InGlobal(cs, p)
     IN  g_spur' = [g_spur EXCEPT !.x = q.x, !.y = q.y, !.theta = q.theta]
  /\ Only("line", cs, p, "LINEFOLLOW")
circle_com(cs, p) ==
  /\ LET q == InGlobal(cs, pose(p.x, p.y, 0))
     IN  g_spur' = [g_spur EXCEPT !.x = q.x, !.y = q.y]
  /\ Only("circle", cs, p, "CIRCLEFOLLOW")
spin_com(cs, p) ==
  /\ g_spur' = [g_spur EXCEPT !.theta = InGlobal(cs, pose(0, 0, p.theta)).theta]
  /\ Only("spin", cs, p, "SPIN")
set_tilt_com(cs, p) ==
  /\ g_spur' = [g_spur EXCEPT !.dir = InGlobal(cs, pose(0, 0, p.theta)).theta]
  /\ Only("tilt", cs, p, g_run_mode)

Follow == \E cs \in CSs, p \in Paths :
  line_com(cs, p) \/ circle_com(cs, p) \/ spin_com(cs, p) \/ set_tilt_com(cs, p)

\* The other steps: the robot goes on, or is taken to be elsewhere.
Moved(cs) ==
  \/ cs \in {"LC", "BL"} /\ tree'[cs] # tree[cs]
  \/ cs \in {"BS", "FS", "BL"} /\ tree'["GL"] # tree["GL"]
  \/ cs = "FS" /\ stale' = "reset"
Since(a) == IF pc = "FS theta" /\ pc' = "publish" THEN After(a.moved, move) ELSE a.moved
Others ==
  /\ Next
  /\ asked' = {[a EXCEPT !.moved = Since(a)] : a \in {b \in asked : ~Moved(b.cs)}}
  /\ UNCHANGED <<g_spur, g_run_mode>>

PathNext == Follow \/ Others
PathSpec == PathInit /\ [][PathNext]_allVars
-----------------------------------------------------------------------------
(* The control loop and the questions: o is where the robot is.            *)

\* Along the line of q (over_line_com, and to_point), and off it (line_follow).
along(o, q) == (o.x - q.x) * cos(q.theta) + (o.y - q.y) * sin(q.theta)
off(o, q)   == (o.y - q.y) * cos(q.theta) - (o.x - q.x) * sin(q.theta)
\* The square of the distance (near_pos_com, circle_follow).
dist(o, q)  == (o.x - q.x) * (o.x - q.x) + (o.y - q.y) * (o.y - q.y)
\* The direction of q as the robot sees it (circle_follow: of the centre).
ahead(o, q) == <<along(q, o), off(q, o)>>

line_follow(o, q)   == <<off(o, q), minus(o.theta, q.theta), along(o, q)>>
circle_follow(o, q) == <<dist(o, q), ahead(o, q)>>
spin(o, q)          == minus(q.theta, o.theta)
gravity_compensation(o, dir) == minus(o.theta, dir)

\* cs_odometry(g_GL, ...) and the switch of run_control: what they take into account.
gl_odometry == Position("GL")
Target == pose(g_spur.x, g_spur.y, g_spur.theta)
run_control ==
  CASE g_run_mode = "LINEFOLLOW"   -> line_follow(gl_odometry, Target)
    [] g_run_mode = "CIRCLEFOLLOW" -> circle_follow(gl_odometry, Target)
    [] g_run_mode = "SPIN"         -> spin(gl_odometry, Target)
    [] g_run_mode = "STOP"         -> 0

\* The questions do not know the robot's own system: they take it for "BS".
Answered(cs) == IF cs = "FS" THEN odo ELSE Position(cs)
near_pos_com(cs, p)  == dist(Answered(cs), p)
near_ang_com(cs, p)  == minus(Answered(cs).theta, p.theta)
over_line_com(cs, p) == along(Answered(cs), p)

\* Where the robot is, as the one who named a path knows it.
Robot(a) == IF a.cs = "FS" THEN CHOOSE m \in a.moved : TRUE ELSE Position(a.cs)

\* The robot follows the path that was named, whatever system it was named in and
\* whatever packets, corrections and commands come after, as long as none of
\* them moves that system against the global one.
FollowsWhatWasNamed(a) ==
  CASE a.kind = "line"   -> run_control = line_follow(Robot(a), a.p)
    [] a.kind = "circle" -> run_control = circle_follow(Robot(a), a.p)
    [] a.kind = "spin"   -> run_control = spin(Robot(a), a.p)
    [] a.kind = "tilt"   -> gravity_compensation(gl_odometry, g_spur.dir)
                              = gravity_compensation(Robot(a), a.p.theta)

\* So do the questions about it, in any system but the robot's own: a client that
\* asks for the end of its line is told about the line that is followed.
QuestionsAgree(a) ==
  a.cs # "FS" =>
    CASE a.kind = "line"   -> /\ over_line_com(a.cs, a.p) = run_control[3]
                              /\ near_ang_com(a.cs, a.p) = run_control[2]
      [] a.kind = "circle" -> near_pos_com(a.cs, a.p) = run_control[1]
      [] OTHER             -> TRUE

\* Paths and questions are about the same place.
PathKept == AtRest => \A a \in asked : FollowsWhatWasNamed(a) /\ QuestionsAgree(a)
=============================================================================
