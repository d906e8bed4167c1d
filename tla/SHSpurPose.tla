----------------------------- MODULE SHSpurPose -----------------------------
(***************************************************************************)
(* Where sh_spur believes the robot to be.  The main thread adds up the    *)
(* packets of the motor controller (odometry, without the mutex) and now   *)
(* and then puts right the global coordinate system with what a localizer  *)
(* wrote to the SSM; the command thread moves the coordinate systems for   *)
(* its clients.                                                            *)
(*                                                                         *)
(* A command and the correction hold the mutex and are atomic to each      *)
(* other.  odometry() is cut up into its loads and stores: a command may   *)
(* come between any two.  A packet is a motion: forward, then a turn.      *)
(***************************************************************************)
EXTENDS CoordinateSystem2D

CONSTANTS
  Moves,        \* what the robot may do in the period of a packet
  Poses,        \* that clients and the localizer may name
  MaxPackets,   \* bound: packets
  MaxCommands,  \* bound: commands of clients
  MaxFixes      \* bound: estimates of the localizer

ASSUME PoseAssumption ==
  /\ Moves \subseteq Pose /\ Poses \subseteq Pose
  /\ \A m \in Moves : m.y = 0   \* the wheels do not go sideways
ASSUME BoundAssumption == MaxPackets \in Nat /\ MaxCommands \in Nat /\ MaxFixes \in Nat

VARIABLES
  odo,        \* g_odometry
  tree,       \* g_GL, g_LC, g_FS, g_BL
  body,       \* g_state[SHSPUR_PARAM_BODY]
  pc,         \* of the main thread
  move,       \* the packet that is being added up
  new,        \* what has been computed and not been stored yet
  record,     \* the newest odometry in the SSM
  fix,        \* the newest estimate of the localizer in the SSM, if it is fresh
  packets, commands, fixes,
  \* history, which the program does not keep
  since,      \* how far the robot came since the record, if that is known
  expect,     \* where clients and the localizer would have it
  stale       \* was g_odometry cleared, and "FS" not set yet?

main    == <<pc, move, new>>
bounds  == <<packets, commands, fixes>>
history == <<since, expect, stale>>
vars    == <<odo, tree, body, main, record, fix, bounds, history>>

\* What get_pos_com answers: the odometry as cs sees it.
Position(cs) == CS_recursive_trans(tree, cs, "BS", odo)

\* The poses in S after a motion m; S with at most one pose is one that is known or not.
After(S, m) == {inv_trans_cs(p, m) : p \in S}
\* The global system is where the robot is at one of S: what that means to the local one.
WithGlobal(S) == [expect EXCEPT !["GL"] = S, !["LC"] = {trans_cs(tree["LC"], p) : p \in S}]

Init ==
  /\ odo = Origin /\ tree = [cs \in CSs \ {"BS"} |-> Origin] /\ body = TRUE
  /\ pc = "read" /\ move = Origin /\ new = Origin
  /\ record = Origin /\ fix = {}
  /\ packets = 0 /\ commands = 0 /\ fixes = 0
  /\ since = {Origin} /\ expect = [cs \in {"GL", "LC", "BL"} |-> {Origin}] /\ stale = "no"
-----------------------------------------------------------------------------
(* The main thread: serial_receive.                                        *)

Goto(from, to) == pc = from /\ pc' = to

\* A packet was decoded.
Packet(m) ==
  /\ packets < MaxPackets /\ packets' = packets + 1
  /\ Goto("read", IF body THEN "load x" ELSE "control")
  /\ move' = IF body THEN m ELSE move
  /\ UNCHANGED <<odo, tree, body, new, record, fix, commands, fixes, history>>
\* read() returned a part of a packet.
PartOfPacket ==
  /\ Goto("read", "control")
  /\ UNCHANGED <<odo, tree, body, move, new, record, fix, bounds, history>>

\* xp->x = xp->x + v*cos(xp->theta)*dt and so on: load, and then store.
Load(field, from, next, value) ==
  /\ Goto(from, next)
  /\ new' = [new EXCEPT ![field] = value]
  /\ UNCHANGED <<odo, tree, body, move, record, fix, bounds, history>>
Store(field, from, next) ==
  /\ Goto(from, next)
  /\ odo' = [odo EXCEPT ![field] = new[field]]
  /\ UNCHANGED <<tree, body, move, new, record, fix, bounds, history>>

LoadX     == Load("x", "load x", "store x", odo.x + move.x * cos(odo.theta))
StoreX    == Store("x", "store x", "load y")
LoadY     == Load("y", "load y", "store y", odo.y + move.x * sin(odo.theta))
StoreY    == Store("y", "store y", "load theta")
LoadTheta == Load("theta", "load theta", "store theta", plus(odo.theta, move.theta))
StoreTheta == Store("theta", "store theta", "load FS")

\* CS_set(g_FS, xp->x, xp->y, xp->theta): the arguments, ...
LoadFS ==
  /\ Goto("load FS", "FS x")
  /\ new' = odo
  /\ stale' = IF stale = "reset" THEN "loaded" ELSE stale
  /\ UNCHANGED <<odo, tree, body, move, record, fix, bounds, since, expect>>
\* ... and the stores.
StoreFS(field, from, next) ==
  /\ Goto(from, next)
  /\ tree' = [tree EXCEPT !["FS"][field] = new[field]]
  /\ UNCHANGED <<odo, body, move, new, record, bounds>>
StoreFSx     == StoreFS("x", "FS x", "FS y") /\ UNCHANGED <<fix, history>>
StoreFSy     == StoreFS("y", "FS y", "FS theta") /\ UNCHANGED <<fix, history>>
StoreFStheta ==
  /\ StoreFS("theta", "FS theta", "publish")
  /\ since' = After(since, move)
  /\ fix' = {[f EXCEPT !.moved = After(f.moved, move)] : f \in fix}
  /\ expect' = [cs \in DOMAIN expect |-> After(expect[cs], move)]
  /\ stale' = IF stale = "loaded" THEN "no" ELSE stale

\* The odometry is written to the SSM.
Publish ==
  /\ Goto("publish", "control")
  /\ record' = odo /\ since' = {Origin}
  /\ move' = Origin /\ new' = Origin
  /\ UNCHANGED <<odo, tree, body, fix, bounds, expect, stale>>
-----------------------------------------------------------------------------
(* The main thread: run_control.                                           *)

\* It is not due yet, or there is no estimate that is fresh.
NoSync ==
  /\ Goto("control", "read")
  /\ UNCHANGED <<odo, tree, body, move, new, record, fix, bounds, history>>

\* Mutant: how far the robot came since the estimate is left out.
Sync_stale ==
  /\ Goto("control", "read")
  /\ \E f \in fix :
       LET base == CS_turn_base(f.gl)
       IN  /\ tree' = [tree EXCEPT !["GL"] = CS_recursive_trans(tree, "BS", "FS", base)]
           /\ expect' = WithGlobal(IF stale = "no" THEN UNION {After({f.gl}, m) : m \in f.moved}
                                                   ELSE {})
  /\ UNCHANGED <<odo, body, move, new, record, fix, bounds, since, stale>>
\* coordinate_synchronize: the robot is where it was at the time of the estimate,
\* and how far it came since.
Sync ==
  /\ Goto("control", "read")
  /\ \E f \in fix :
       LET target == inv_trans_cs(f.gl, trans_cs(f.bs, odo))
           base   == CS_turn_base(target)
       IN  /\ tree' = [tree EXCEPT !["GL"] = CS_recursive_trans(tree, "BS", "FS", base)]
           /\ expect' = WithGlobal(IF stale = "no" THEN UNION {After({f.gl}, m) : m \in f.moved}
                                                   ELSE {})
  /\ UNCHANGED <<odo, body, move, new, record, fix, bounds, since, stale>>

\* Another process estimates where the robot was when the record was taken.
Localize(p) ==
  /\ fixes < MaxFixes /\ fixes' = fixes + 1
  /\ fix' = {[bs |-> record, gl |-> p, moved |-> since]}
  /\ UNCHANGED <<odo, tree, body, main, record, packets, commands, history>>
\* An estimate is used for a second.
Expire ==
  /\ fix # {} /\ fix' = {}
  /\ UNCHANGED <<odo, tree, body, main, record, bounds, history>>
-----------------------------------------------------------------------------
(* The command thread.                                                     *)

Command == commands < MaxCommands /\ commands' = commands + 1
\* Is the system of the robot the odometry before the packet, or the one after it?
Whole == stale = "no" /\ pc \notin {"FS y", "FS theta"}
IfWhole(S) == IF Whole THEN S ELSE {}

\* set_pos_com: the robot is at p, seen from cs.
SetPos(cs, p) ==
  LET base == CS_turn_base(p)
  IN  /\ Command
      /\ tree' = [tree EXCEPT ![cs] = CS_recursive_trans(tree, parent[cs], "FS", base)]
      /\ expect' = IF cs = "GL" THEN WithGlobal(IfWhole({p}))
                                ELSE [expect EXCEPT ![cs] = IfWhole({p})]
      /\ UNCHANGED <<odo, body, main, record, fix, packets, fixes, since, stale>>

\* set_GL_on_GL_com: the global system is at p, seen from what it was.
SetGLonGL(p) ==
  /\ Command
  /\ tree' = [tree EXCEPT !["GL"] = CS_recursive_trans(tree, "BS", "GL", p)]
  /\ expect' = WithGlobal({trans_cs(p, q) : q \in expect["GL"]})
  /\ UNCHANGED <<odo, body, main, record, fix, packets, fixes, since, stale>>

\* set_adjust_com: the robot is at what cs sees at p; this is put right by moving
\* the global system.
Adjust(cs, p) ==
  LET target == CS_recursive_trans(tree, "GL", cs, p)
      base   == CS_turn_base(target)
  IN  /\ Command
      /\ tree' = [tree EXCEPT !["GL"] = CS_recursive_trans(tree, "BS", "FS", base)]
      /\ expect' = WithGlobal(IfWhole(IF cs = "FS" THEN After(expect["GL"], p) ELSE {target}))
      /\ UNCHANGED <<odo, body, main, record, fix, packets, fixes, since, stale>>

\* param_state_com: the body parameters are set, and the odometry starts anew.
EnableBody ==
  /\ Command
  /\ body' = TRUE /\ odo' = Origin
  /\ since' = {} /\ expect' = [cs \in DOMAIN expect |-> {}] /\ stale' = "reset"
  /\ fix' = {[f EXCEPT !.moved = {}] : f \in fix}
  /\ UNCHANGED <<tree, main, record, packets, fixes>>
DisableBody ==
  /\ Command
  /\ body' = FALSE
  /\ UNCHANGED <<odo, tree, main, record, fix, packets, fixes, history>>
-----------------------------------------------------------------------------
Odometry ==
  \/ LoadX \/ StoreX \/ LoadY \/ StoreY \/ LoadTheta \/ StoreTheta
  \/ LoadFS \/ StoreFSx \/ StoreFSy \/ StoreFStheta
Main ==
  \/ \E m \in Moves : Packet(m)
  \/ PartOfPacket \/ Odometry \/ Publish \/ NoSync \/ Sync
Clients ==
  \/ \E cs \in {"GL", "LC", "BL"}, p \in Poses : SetPos(cs, p)
  \/ \E p \in Poses : SetGLonGL(p)
  \/ \E cs \in CSs, p \in Poses : Adjust(cs, p)
  \/ EnableBody \/ DisableBody
Localizer == Expire \/ \E p \in Poses : Localize(p)
Next == Main \/ Clients \/ Localizer

Spec == Init /\ [][Next]_vars
-----------------------------------------------------------------------------
AtMostOne(S) == \A p, q \in S : p = q
AtRest == pc \in {"read", "publish", "control"}

\* Outside odometry(), the system of the robot is the odometry, unless the odometry
\* was cleared since it was set.
FrameFollows == AtRest /\ stale = "no" => tree["FS"] = odo

\* Whatever order packets, corrections and commands come in, get_pos answers what
\* was set last and how far the robot came since, in every system; commands that
\* catch "FS" half set or stale are not bound to that.
PositionKept == AtRest => \A cs \in DOMAIN expect : \A p \in expect[cs] : Position(cs) = p
=============================================================================
