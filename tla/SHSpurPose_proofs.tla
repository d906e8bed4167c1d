------------------------- MODULE SHSpurPose_proofs --------------------------
(***************************************************************************)
(* What holds of the position and of the paths of sh_spur for every set of *)
(* motions, poses, paths and bounds: translating a pose to a coordinate    *)
(* system and back is no change; the system of the robot follows the       *)
(* odometry; the position that clients are told of is where it was set     *)
(* last and how far the robot came since; and the path that is followed    *)
(* is the one that was named.                                              *)
(*                                                                         *)
(* The invariant behind the last two compares everything with b, where     *)
(* odometry() began to add the packet of this moment: the record and the   *)
(* estimate of the localizer come to b by what the robot moved since       *)
(* (AddingInv), what clients expect stands there (ExpectInv), and a path   *)
(* named in a system is where that system is seen from the global one      *)
(* (PathInv).                                                              *)
(***************************************************************************)
EXTENDS SHSpurPath, TLAPS

-----------------------------------------------------------------------------
(* Translations are exact inverses of each other.                          *)

LEMMA Angle ==
  ASSUME NEW a \in Angles, NEW b \in Angles
  PROVE  /\ plus(a, b) \in Angles /\ minus(a, b) \in Angles
         /\ minus(plus(a, b), b) = a /\ plus(minus(a, b), b) = a
BY DEF Angles, plus, minus

LEMMA Quarter ==
  ASSUME NEW a \in Angles
  PROVE  \/ cos(a) = 1 /\ sin(a) = 0
         \/ cos(a) = 0 /\ sin(a) = 1
         \/ cos(a) = -1 /\ sin(a) = 0
         \/ cos(a) = 0 /\ sin(a) = -1
BY DEF Angles, cos, sin

LEMMA TransType ==
  ASSUME NEW cs \in Pose, NEW p \in Pose
  PROVE  inv_trans_cs(cs, p) \in Pose /\ trans_cs(cs, p) \in Pose
<1>1. cs.theta \in Angles /\ p.theta \in Angles /\ cs.x \in Int /\ cs.y \in Int /\ p.x \in Int /\ p.y \in Int
  BY DEF Pose
<1>2. cos(cs.theta) \in Int /\ sin(cs.theta) \in Int
  BY <1>1, Quarter
<1>3. plus(p.theta, cs.theta) \in Angles /\ minus(p.theta, cs.theta) \in Angles
  BY <1>1, Angle
<1>4. QED
  BY <1>1, <1>2, <1>3, Quarter DEF inv_trans_cs, trans_cs, pose, Pose

\* What cs sees of what its parent sees of p is p, and the other way round: a step
\* down the tree undoes a step up.
THEOREM StepsUndo ==
  ASSUME NEW cs \in Pose, NEW p \in Pose
  PROVE  trans_cs(cs, inv_trans_cs(cs, p)) = p /\ inv_trans_cs(cs, trans_cs(cs, p)) = p
<1>1. /\ cs.theta \in Angles /\ p.theta \in Angles
      /\ cs.x \in Int /\ cs.y \in Int /\ p.x \in Int /\ p.y \in Int
      /\ p = pose(p.x, p.y, p.theta)
  BY DEF Pose, pose
<1>2. /\ minus(plus(p.theta, cs.theta), cs.theta) = p.theta
      /\ plus(minus(p.theta, cs.theta), cs.theta) = p.theta
  BY <1>1, Angle
<1>3. CASE cos(cs.theta) = 1 /\ sin(cs.theta) = 0
  BY <1>1, <1>2, <1>3 DEF inv_trans_cs, trans_cs, pose
<1>4. CASE cos(cs.theta) = 0 /\ sin(cs.theta) = 1
  BY <1>1, <1>2, <1>4 DEF inv_trans_cs, trans_cs, pose
<1>5. CASE cos(cs.theta) = -1 /\ sin(cs.theta) = 0
  BY <1>1, <1>2, <1>5 DEF inv_trans_cs, trans_cs, pose
<1>6. CASE cos(cs.theta) = 0 /\ sin(cs.theta) = -1
  BY <1>1, <1>2, <1>6 DEF inv_trans_cs, trans_cs, pose
<1>7. QED
  BY <1>1, <1>3, <1>4, <1>5, <1>6, Quarter

LEMMA PoseParts ==
  /\ \A p \in Pose : /\ p.x \in Int /\ p.y \in Int /\ p.theta \in Angles
                     /\ p = pose(p.x, p.y, p.theta)
  /\ \A x \in Int, y \in Int, theta \in Angles : pose(x, y, theta) \in Pose
BY DEF Pose, pose

LEMMA Rounds ==
  ASSUME NEW a \in Angles, NEW b \in Angles, NEW c \in Angles
  PROVE  plus(c, plus(b, a)) = plus(plus(c, b), a) /\ plus(a, b) = plus(b, a)
BY DEF plus, Angles

\* Two steps down the tree are one by their composition.
LEMMA Composed ==
  ASSUME NEW a \in Pose, NEW b \in Pose, NEW c \in Pose
  PROVE  inv_trans_cs(a, inv_trans_cs(b, c)) = inv_trans_cs(inv_trans_cs(a, b), c)
<1>1. /\ a.x \in Int /\ a.y \in Int /\ a.theta \in Angles
      /\ b.x \in Int /\ b.y \in Int /\ b.theta \in Angles
      /\ c.x \in Int /\ c.y \in Int /\ c.theta \in Angles
  BY PoseParts
<1>2. plus(plus(c.theta, b.theta), a.theta) = plus(c.theta, plus(b.theta, a.theta))
  BY <1>1, Rounds
<1>3. /\ a.theta = 0 \/ a.theta = 1 \/ a.theta = 2 \/ a.theta = 3
      /\ b.theta = 0 \/ b.theta = 1 \/ b.theta = 2 \/ b.theta = 3
  BY <1>1 DEF Angles
<1>4. /\ cos(plus(b.theta, a.theta)) = cos(b.theta) * cos(a.theta) - sin(b.theta) * sin(a.theta)
      /\ sin(plus(b.theta, a.theta)) = sin(b.theta) * cos(a.theta) + cos(b.theta) * sin(a.theta)
  BY <1>3 DEF cos, sin, plus
<1>5. \/ cos(b.theta) = 1 /\ sin(b.theta) = 0
      \/ cos(b.theta) = 0 /\ sin(b.theta) = 1
      \/ cos(b.theta) = -1 /\ sin(b.theta) = 0
      \/ cos(b.theta) = 0 /\ sin(b.theta) = -1
  BY <1>1, Quarter
<1>6. CASE cos(a.theta) = 1 /\ sin(a.theta) = 0
  BY <1>1, <1>2, <1>4, <1>5, <1>6 DEF inv_trans_cs, pose
<1>7. CASE cos(a.theta) = 0 /\ sin(a.theta) = 1
  BY <1>1, <1>2, <1>4, <1>5, <1>7 DEF inv_trans_cs, pose
<1>8. CASE cos(a.theta) = -1 /\ sin(a.theta) = 0
  BY <1>1, <1>2, <1>4, <1>5, <1>8 DEF inv_trans_cs, pose
<1>9. CASE cos(a.theta) = 0 /\ sin(a.theta) = -1
  BY <1>1, <1>2, <1>4, <1>5, <1>9 DEF inv_trans_cs, pose
<1> QED
  BY <1>1, <1>6, <1>7, <1>8, <1>9, Quarter

LEMMA BaseTurned ==
  ASSUME NEW p \in Pose
  PROVE  /\ CS_turn_base(p) \in Pose
         /\ inv_trans_cs(CS_turn_base(p), p) = Origin
         /\ inv_trans_cs(p, Origin) = p
<1>1. p.x \in Int /\ p.y \in Int /\ p.theta \in Angles /\ p = pose(p.x, p.y, p.theta)
  BY PoseParts
<1>2. /\ minus(0, p.theta) \in Angles /\ plus(p.theta, minus(0, p.theta)) = 0
      /\ cos(minus(0, p.theta)) = cos(p.theta) /\ sin(minus(0, p.theta)) = -sin(p.theta)
      /\ plus(0, p.theta) = p.theta
  BY <1>1 DEF minus, plus, Angles, cos, sin
<1>3. Origin.x = 0 /\ Origin.y = 0 /\ Origin.theta = 0
  BY DEF Origin, pose
<1>4. CS_turn_base(p) \in Pose
  BY <1>1, <1>2, Quarter DEF CS_turn_base, pose, Pose
<1>5. inv_trans_cs(CS_turn_base(p), p) = Origin
  BY <1>1, <1>2, Quarter DEF CS_turn_base, inv_trans_cs, Origin, pose
<1>6. inv_trans_cs(p, Origin) = p
  BY <1>1, <1>2, <1>3, Quarter DEF inv_trans_cs, pose
<1> QED
  BY <1>4, <1>5, <1>6

LEMMA Levels ==
  /\ level("BS") = 0 /\ level("GL") = 1 /\ level("FS") = 1 /\ level("BL") = 1 /\ level("LC") = 2
  /\ parent["GL"] = "BS" /\ parent["FS"] = "BS" /\ parent["BL"] = "BS" /\ parent["LC"] = "GL"
BY DEF level, parent

\* The ways through the tree that the commands take.
LEMMA Ways ==
  ASSUME NEW t, NEW p
  PROVE  /\ CS_recursive_trans(t, "BS", "BS", p) = p
         /\ CS_recursive_trans(t, "BS", "FS", p) = inv_trans_cs(t["FS"], p)
         /\ CS_recursive_trans(t, "BS", "GL", p) = inv_trans_cs(t["GL"], p)
         /\ CS_recursive_trans(t, "GL", "GL", p) = p
         /\ CS_recursive_trans(t, "GL", "BS", p) = trans_cs(t["GL"], p)
         /\ CS_recursive_trans(t, "GL", "LC", p) = inv_trans_cs(t["LC"], p)
         /\ CS_recursive_trans(t, "GL", "FS", p) = trans_cs(t["GL"], inv_trans_cs(t["FS"], p))
         /\ CS_recursive_trans(t, "GL", "BL", p) = trans_cs(t["GL"], inv_trans_cs(t["BL"], p))
         /\ CS_recursive_trans(t, "BL", "BS", p) = trans_cs(t["BL"], p)
         /\ CS_recursive_trans(t, "LC", "BS", p) = trans_cs(t["LC"], trans_cs(t["GL"], p))
BY Levels DEF CS_recursive_trans, Call

-----------------------------------------------------------------------------
(* The system of the robot follows the odometry.                           *)

\* As much of the types as is needed: the other systems may be anything.
Shape ==
  /\ odo \in Pose /\ move \in Pose /\ new \in Pose /\ record \in Pose
  /\ DOMAIN tree = CSs \ {"BS"} /\ tree["FS"] \in Pose
  /\ stale \in {"no", "reset", "loaded"}

\* While "FS" is stored the odometry waits: nobody but the enabling of the body,
\* which shows in stale, changes it.
Storing == {"FS x", "FS y", "FS theta"}
StoreInv ==
  /\ stale = "loaded" => pc \in Storing
  /\ pc \in Storing /\ stale # "reset" => new = odo
  /\ pc \in {"FS y", "FS theta"} /\ stale # "reset" => tree["FS"].x = new.x
  /\ pc = "FS theta" /\ stale # "reset" => tree["FS"].y = new.y
FrameInv == Shape /\ StoreInv /\ FrameFollows

LEMMA FrameInit == Init => FrameInv
<1>1. Origin \in Pose
  BY DEF Origin, pose, Pose, Angles
<1>2. QED
  BY <1>1 DEF Init, FrameInv, Shape, StoreInv, Storing, FrameFollows, AtRest, CSs

\* The stores of odometry() and the load of what is stored into "FS".
LEMMA FrameOdometry == FrameInv /\ Odometry => FrameInv'
<1> SUFFICES ASSUME FrameInv, Odometry PROVE FrameInv'
  OBVIOUS
<1> USE DEF FrameInv
<1>1. /\ odo.x \in Int /\ odo.y \in Int /\ odo.theta \in Angles
      /\ move.x \in Int /\ move.theta \in Angles
      /\ new.x \in Int /\ new.y \in Int /\ new.theta \in Angles
  BY DEF Shape, Pose
<1>2. /\ odo.x + move.x * cos(odo.theta) \in Int
      /\ odo.y + move.x * sin(odo.theta) \in Int
      /\ plus(odo.theta, move.theta) \in Angles
  BY <1>1, Quarter, Angle
<1>3. CASE LoadX
  <2>1. new' \in Pose
    BY <1>1, <1>2, <1>3 DEF LoadX, Load, Shape, Pose
  <2>2. QED
    BY <2>1, <1>3 DEF LoadX, Load, Goto, history, Shape, StoreInv, Storing, FrameFollows, AtRest
<1>4. CASE LoadY
  <2>1. new' \in Pose
    BY <1>1, <1>2, <1>4 DEF LoadY, Load, Shape, Pose
  <2>2. QED
    BY <2>1, <1>4 DEF LoadY, Load, Goto, history, Shape, StoreInv, Storing, FrameFollows, AtRest
<1>5. CASE LoadTheta
  <2>1. new' \in Pose
    BY <1>1, <1>2, <1>5 DEF LoadTheta, Load, Shape, Pose
  <2>2. QED
    BY <2>1, <1>5 DEF LoadTheta, Load, Goto, history, Shape, StoreInv, Storing, FrameFollows, AtRest
<1>6. CASE StoreX \/ StoreY \/ StoreTheta
  <2>1. odo' \in Pose
    BY <1>1, <1>6 DEF StoreX, StoreY, StoreTheta, Store, Shape, Pose
  <2>2. QED
    BY <2>1, <1>6
    DEF StoreX, StoreY, StoreTheta, Store, Goto, history, Shape, StoreInv, Storing, FrameFollows,
        AtRest
<1>7. CASE LoadFS
  BY <1>7 DEF LoadFS, Goto, Shape, StoreInv, Storing, FrameFollows, AtRest
<1>8. CASE StoreFSx
  <2>1. tree'["FS"] = [tree["FS"] EXCEPT !["x"] = new.x] /\ DOMAIN tree' = DOMAIN tree
    BY <1>8 DEF StoreFSx, StoreFS, Shape, CSs
  <2>2. tree'["FS"] \in Pose /\ tree'["FS"].x = new.x
    BY <1>1, <2>1 DEF Shape, Pose
  <2>3. QED
    BY <2>1, <2>2, <1>8
    DEF StoreFSx, StoreFS, Goto, history, Shape, StoreInv, Storing, FrameFollows, AtRest
<1>9. CASE StoreFSy
  <2>1. tree'["FS"] = [tree["FS"] EXCEPT !["y"] = new.y] /\ DOMAIN tree' = DOMAIN tree
    BY <1>9 DEF StoreFSy, StoreFS, Shape, CSs
  <2>2. tree'["FS"] \in Pose /\ tree'["FS"].y = new.y /\ tree'["FS"].x = tree["FS"].x
    BY <1>1, <2>1 DEF Shape, Pose
  <2>3. QED
    BY <2>1, <2>2, <1>9
    DEF StoreFSy, StoreFS, Goto, history, Shape, StoreInv, Storing, FrameFollows, AtRest
<1>10. CASE StoreFStheta
  <2>1. tree'["FS"] = [tree["FS"] EXCEPT !["theta"] = new.theta] /\ DOMAIN tree' = DOMAIN tree
    BY <1>10 DEF StoreFStheta, StoreFS, Shape, CSs
  <2>2. tree'["FS"] \in Pose
    BY <1>1, <2>1 DEF Shape, Pose
  <2>3. stale # "reset" => tree'["FS"] = odo
    BY <1>1, <1>10, <2>1, <2>2 DEF StoreFStheta, StoreFS, Goto, Shape, StoreInv, Storing, Pose
  <2>4. QED
    BY <2>1, <2>2, <2>3, <1>10
    DEF StoreFStheta, StoreFS, Goto, Shape, StoreInv, Storing, FrameFollows, AtRest
<1>11. QED
  BY <1>3, <1>4, <1>5, <1>6, <1>7, <1>8, <1>9, <1>10 DEF Odometry

LEMMA FrameStep == FrameInv /\ [Next]_vars => FrameInv'
<1> SUFFICES ASSUME FrameInv, [Next]_vars PROVE FrameInv'
  OBVIOUS
<1> USE DEF FrameInv
<1>1. Origin \in Pose
  BY DEF Origin, pose, Pose, Angles
<1>2. ASSUME NEW m \in Moves, Packet(m) PROVE FrameInv'
  <2>1. m \in Pose
    BY <1>2, PoseAssumption
  <2>2. QED
    BY <1>2, <2>1 DEF Packet, Goto, history, Shape, StoreInv, Storing, FrameFollows, AtRest
<1>3. CASE PartOfPacket \/ NoSync
  BY <1>3 DEF PartOfPacket, NoSync, Goto, history, Shape, StoreInv, Storing, FrameFollows, AtRest
<1>4. CASE Publish
  BY <1>1, <1>4 DEF Publish, Goto, Shape, StoreInv, Storing, FrameFollows, AtRest
<1>5. CASE Sync
  <2>1. tree'["FS"] = tree["FS"] /\ DOMAIN tree' = DOMAIN tree
    BY <1>5 DEF Sync, Shape, CSs
  <2>2. QED
    BY <1>5, <2>1 DEF Sync, Goto, Shape, StoreInv, Storing, FrameFollows, AtRest
<1>6. ASSUME NEW cs \in {"GL", "LC", "BL"}, NEW p \in Poses, SetPos(cs, p) PROVE FrameInv'
  <2>1. tree'["FS"] = tree["FS"] /\ DOMAIN tree' = DOMAIN tree
    BY <1>6 DEF SetPos, Shape, CSs
  <2>2. QED
    BY <1>6, <2>1 DEF SetPos, main, Shape, StoreInv, Storing, FrameFollows, AtRest
<1>7. ASSUME NEW p \in Poses, SetGLonGL(p) PROVE FrameInv'
  <2>1. tree'["FS"] = tree["FS"] /\ DOMAIN tree' = DOMAIN tree
    BY <1>7 DEF SetGLonGL, Shape, CSs
  <2>2. QED
    BY <1>7, <2>1 DEF SetGLonGL, main, Shape, StoreInv, Storing, FrameFollows, AtRest
<1>8. ASSUME NEW cs \in CSs, NEW p \in Poses, Adjust(cs, p) PROVE FrameInv'
  <2>1. tree'["FS"] = tree["FS"] /\ DOMAIN tree' = DOMAIN tree
    BY <1>8 DEF Adjust, Shape, CSs
  <2>2. QED
    BY <1>8, <2>1 DEF Adjust, main, Shape, StoreInv, Storing, FrameFollows, AtRest
<1>9. CASE EnableBody
  BY <1>1, <1>9 DEF EnableBody, main, Shape, StoreInv, Storing, FrameFollows, AtRest
<1>10. CASE DisableBody
  BY <1>10 DEF DisableBody, main, history, Shape, StoreInv, Storing, FrameFollows, AtRest
<1>11. ASSUME NEW p \in Poses, Localize(p) PROVE FrameInv'
  BY <1>11 DEF Localize, main, history, Shape, StoreInv, Storing, FrameFollows, AtRest
<1>12. CASE Expire
  BY <1>12 DEF Expire, main, history, Shape, StoreInv, Storing, FrameFollows, AtRest
<1>13. CASE UNCHANGED vars
  BY <1>13 DEF vars, main, history, Shape, StoreInv, Storing, FrameFollows, AtRest
<1>14. QED
  BY <1>2, <1>3, <1>4, <1>5, <1>6, <1>7, <1>8, <1>9, <1>10, <1>11, <1>12, <1>13, FrameOdometry
  DEF Next, Main, Clients, Localizer

\* Outside odometry(), the system of the robot is the odometry, unless the odometry
\* was cleared since it was set: whatever commands come between its stores.
THEOREM RobotFrame == Spec => []FrameFollows
<1>1. FrameInv => FrameFollows
  BY DEF FrameInv
<1>2. QED
  BY <1>1, FrameInit, FrameStep, PTL DEF Spec

\* So it is with clients that name paths and ask questions: these commands leave
\* the odometry and the systems alone.
LEMMA FollowStep == FrameInv /\ Follow => FrameInv'
<1> SUFFICES ASSUME FrameInv, NEW cs \in CSs, NEW p \in Paths,
                    line_com(cs, p) \/ circle_com(cs, p) \/ spin_com(cs, p) \/ set_tilt_com(cs, p)
             PROVE  FrameInv'
  BY DEF Follow
<1>1. UNCHANGED <<odo, tree, main, record, history>>
  BY DEF line_com, circle_com, spin_com, set_tilt_com, Only
<1>2. QED
  BY <1>1 DEF main, history, FrameInv, Shape, StoreInv, Storing, FrameFollows, AtRest

\* The system of the robot is the odometry outside odometry(), also while paths are
\* followed.
THEOREM RobotFrameOnPaths == PathSpec => []FrameFollows
<1>1. PathInit => FrameInv
  BY FrameInit DEF PathInit
<1>2. FrameInv /\ [PathNext]_allVars => FrameInv'
  BY FollowStep, FrameStep DEF PathNext, Others, allVars
<1>3. FrameInv => FrameFollows
  BY DEF FrameInv
<1>4. QED
  BY <1>1, <1>2, <1>3, PTL DEF PathSpec

-----------------------------------------------------------------------------
(* The position that clients are told of.                                  *)

PoseTypes ==
  /\ odo \in Pose /\ move \in Pose /\ new \in Pose /\ record \in Pose /\ move.y = 0
  /\ tree \in [CSs \ {"BS"} -> Pose]
  /\ since \in SUBSET Pose
  /\ expect \in [{"GL", "LC", "BL"} -> SUBSET Pose]
  /\ fix \in SUBSET [bs : Pose, gl : Pose, moved : SUBSET Pose]

\* How far odometry() has come at l in adding m to b: what is loaded and stored.
AddingAt(l, o, m, n, b) ==
  LET a == inv_trans_cs(b, m)
  IN  /\ l \in {"read", "publish", "control", "load x", "store x"} => o = b
      /\ l = "store x" => n.x = a.x
      /\ l \in {"load y", "store y"} => o = pose(a.x, b.y, b.theta)
      /\ l = "store y" => n.y = a.y
      /\ l \in {"load theta", "store theta"} => o = pose(a.x, a.y, b.theta)
      /\ l = "store theta" => n.theta = a.theta
      /\ l \in {"load FS"} \cup Storing => o = a
Adding(b) == AddingAt(pc, odo, move, new, b)

\* Where the record and the estimate would have the robot, and where its own system
\* is, is where odometry() began.
AddingInv ==
  /\ \A p \in since : Adding(inv_trans_cs(record, p))
  /\ \A f \in fix : \A p \in f.moved : Adding(inv_trans_cs(f.bs, p))
  /\ Whole => Adding(tree["FS"])

\* Where the robot stands on the odometry if cs sees it at p.
StoodAt(t, cs, p) ==
  CASE cs = "GL" -> inv_trans_cs(t["GL"], p)
    [] cs = "LC" -> inv_trans_cs(t["GL"], inv_trans_cs(t["LC"], p))
    [] cs = "BL" -> inv_trans_cs(t["BL"], p)
Stood(cs, p) == StoodAt(tree, cs, p)

\* What is expected is where the system of the robot is or, while that is stored, the
\* odometry before the packet.
ExpectInv ==
  \A cs \in {"GL", "LC", "BL"} : \A p \in expect[cs] :
     /\ stale = "no"
     /\ Whole => Stood(cs, p) = tree["FS"]
     /\ ~Whole => inv_trans_cs(Stood(cs, p), move) = odo

PoseInv == FrameInv /\ PoseTypes /\ AddingInv /\ ExpectInv

LEMMA OriginIsAPose == Origin \in Pose /\ Origin.y = 0
BY DEF Origin, pose, Pose, Angles

LEMMA StoodType ==
  ASSUME PoseTypes, NEW cs \in {"GL", "LC", "BL"}, NEW p \in Pose
  PROVE  Stood(cs, p) \in Pose
<1>1. tree["GL"] \in Pose /\ tree["LC"] \in Pose /\ tree["BL"] \in Pose
  BY DEF PoseTypes, CSs
<1>2. inv_trans_cs(tree["GL"], p) \in Pose /\ inv_trans_cs(tree["BL"], p) \in Pose
  BY <1>1, TransType
<1>3. inv_trans_cs(tree["GL"], inv_trans_cs(tree["LC"], p)) \in Pose
  BY <1>1, TransType
<1> QED
  BY <1>2, <1>3 DEF Stood, StoodAt

\* To stand where cs sees p is to be seen there.
LEMMA SeenWhereStood ==
  ASSUME PoseTypes, NEW cs \in {"GL", "LC", "BL"}, NEW p \in Pose, Stood(cs, p) = odo
  PROVE  Position(cs) = p
<1>1. tree["GL"] \in Pose /\ tree["LC"] \in Pose /\ tree["BL"] \in Pose
  BY DEF PoseTypes, CSs
<1>2. CASE cs = "GL"
  <2>1. odo = inv_trans_cs(tree["GL"], p)
    BY <1>2 DEF Stood, StoodAt
  <2>2. Position(cs) = trans_cs(tree["GL"], odo)
    BY <1>2, Ways DEF Position
  <2> QED
    BY <1>1, <2>1, <2>2, StepsUndo
<1>3. CASE cs = "BL"
  <2>1. odo = inv_trans_cs(tree["BL"], p)
    BY <1>3 DEF Stood, StoodAt
  <2>2. Position(cs) = trans_cs(tree["BL"], odo)
    BY <1>3, Ways DEF Position
  <2> QED
    BY <1>1, <2>1, <2>2, StepsUndo
<1>4. CASE cs = "LC"
  <2>1. odo = inv_trans_cs(tree["GL"], inv_trans_cs(tree["LC"], p))
    BY <1>4 DEF Stood, StoodAt
  <2>2. Position(cs) = trans_cs(tree["LC"], trans_cs(tree["GL"], odo))
    BY <1>4, Ways DEF Position
  <2>3. inv_trans_cs(tree["LC"], p) \in Pose
    BY <1>1, TransType
  <2>4. trans_cs(tree["GL"], odo) = inv_trans_cs(tree["LC"], p)
    BY <1>1, <2>1, <2>3, StepsUndo
  <2> QED
    BY <1>1, <2>2, <2>4, StepsUndo
<1> QED
  BY <1>2, <1>3, <1>4

LEMMA PoseImplies == PoseInv => PositionKept
<1> SUFFICES ASSUME PoseInv, AtRest, NEW cs \in DOMAIN expect, NEW p \in expect[cs]
             PROVE  Position(cs) = p
  BY DEF PositionKept
<1>1. cs \in {"GL", "LC", "BL"} /\ p \in Pose /\ PoseTypes
  BY DEF PoseInv, PoseTypes
<1>2. stale = "no" /\ (Whole => Stood(cs, p) = tree["FS"])
  BY <1>1 DEF PoseInv, ExpectInv
<1>3. Whole /\ tree["FS"] = odo
  BY <1>2 DEF PoseInv, FrameInv, FrameFollows, AtRest, Whole
<1> QED
  BY <1>1, <1>2, <1>3, SeenWhereStood

LEMMA PoseInit == Init => PoseInv
<1> SUFFICES ASSUME Init PROVE PoseInv
  OBVIOUS
<1>1. FrameInv
  BY FrameInit
<1>2. PoseTypes
  BY OriginIsAPose DEF Init, PoseTypes
<1>3. inv_trans_cs(Origin, Origin) = Origin
  BY OriginIsAPose, BaseTurned
<1>4. Adding(Origin)
  BY DEF Init, Adding, AddingAt, Storing
<1>5. tree["FS"] = Origin /\ tree["GL"] = Origin /\ tree["LC"] = Origin /\ tree["BL"] = Origin
  BY DEF Init, CSs
<1>6. AddingInv
  BY <1>3, <1>4, <1>5 DEF Init, AddingInv
<1>7. ExpectInv
  BY <1>3, <1>5 DEF Init, ExpectInv, Stood, StoodAt, Whole
<1> QED
  BY <1>1, <1>2, <1>6, <1>7 DEF PoseInv

LEMMA Forward ==
  ASSUME NEW b \in Pose, NEW m \in Pose, m.y = 0
  PROVE  inv_trans_cs(b, m) = pose(b.x + m.x * cos(b.theta), b.y + m.x * sin(b.theta),
                                   plus(b.theta, m.theta))
<1>1. /\ b.x \in Int /\ b.y \in Int /\ b.theta \in Angles
      /\ m.x \in Int /\ m.y \in Int /\ m.theta \in Angles
  BY PoseParts
<1>2. plus(b.theta, m.theta) = plus(m.theta, b.theta)
  BY <1>1, Rounds
<1>3. cos(b.theta) \in Int /\ sin(b.theta) \in Int
  BY <1>1, Quarter
<1>4. m.y * sin(b.theta) = 0 /\ m.y * cos(b.theta) = 0
  BY <1>3
<1> QED
  BY <1>1, <1>2, <1>3, <1>4, Quarter DEF inv_trans_cs, pose

\* A load or a store of odometry() is a step from where it began to where it ends.
LEMMA AddingStep ==
  ASSUME PoseTypes, FrameInv, Odometry, ~StoreFStheta, NEW b \in Pose, Adding(b)
  PROVE  Adding(b)' /\ move' = move
<1> DEFINE a == inv_trans_cs(b, move)
<1>1. /\ b.x \in Int /\ b.y \in Int /\ b.theta \in Angles
      /\ odo.x \in Int /\ odo.y \in Int /\ odo.theta \in Angles
      /\ move.x \in Int /\ move.theta \in Angles
      /\ b = pose(b.x, b.y, b.theta) /\ odo = pose(odo.x, odo.y, odo.theta)
  BY PoseParts DEF PoseTypes
<1>2. /\ a \in Pose /\ a = pose(a.x, a.y, a.theta)
      /\ a.x \in Int /\ a.y \in Int /\ a.theta \in Angles
  BY TransType, PoseParts DEF PoseTypes
<1>3. /\ a.x = b.x + move.x * cos(b.theta) /\ a.y = b.y + move.x * sin(b.theta)
      /\ a.theta = plus(b.theta, move.theta)
  BY Forward DEF PoseTypes, pose
<1>4. /\ \A x, y, theta : /\ pose(x, y, theta).x = x /\ pose(x, y, theta).y = y
                          /\ pose(x, y, theta).theta = theta
      /\ \A x, y, theta, z : /\ [pose(x, y, theta) EXCEPT !["x"] = z] = pose(z, y, theta)
                             /\ [pose(x, y, theta) EXCEPT !["y"] = z] = pose(x, z, theta)
                             /\ [pose(x, y, theta) EXCEPT !["theta"] = z] = pose(x, y, z)
  BY DEF pose
<1>5. \A z : /\ [new EXCEPT !["x"] = z].x = z /\ [new EXCEPT !["y"] = z].y = z
             /\ [new EXCEPT !["theta"] = z].theta = z
  BY DEF PoseTypes, Pose
<1>6. move' = move
  BY DEF Odometry, LoadX, LoadY, LoadTheta, Load, StoreX, StoreY, StoreTheta, Store, LoadFS,
         StoreFSx, StoreFSy, StoreFS
<1> HIDE DEF a
<1>7. AddingAt(pc, odo, move, new, b) <=>
      /\ pc \in {"read", "publish", "control", "load x", "store x"} => odo = b
      /\ pc = "store x" => new.x = a.x
      /\ pc \in {"load y", "store y"} => odo = pose(a.x, b.y, b.theta)
      /\ pc = "store y" => new.y = a.y
      /\ pc \in {"load theta", "store theta"} => odo = pose(a.x, a.y, b.theta)
      /\ pc = "store theta" => new.theta = a.theta
      /\ pc \in {"load FS"} \cup Storing => odo = a
  BY DEF AddingAt, a
<1>8. AddingAt(pc', odo', move', new', b) <=>
      /\ pc' \in {"read", "publish", "control", "load x", "store x"} => odo' = b
      /\ pc' = "store x" => new'.x = a.x
      /\ pc' \in {"load y", "store y"} => odo' = pose(a.x, b.y, b.theta)
      /\ pc' = "store y" => new'.y = a.y
      /\ pc' \in {"load theta", "store theta"} => odo' = pose(a.x, a.y, b.theta)
      /\ pc' = "store theta" => new'.theta = a.theta
      /\ pc' \in {"load FS"} \cup Storing => odo' = a
  BY <1>6 DEF AddingAt, a
<1>9. AddingAt(pc, odo, move, new, b)
  BY DEF Adding
<1> SUFFICES AddingAt(pc', odo', move', new', b)
  BY <1>6 DEF Adding
<1>10. CASE LoadX
  <2>1. pc = "load x" /\ pc' = "store x" /\ odo' = odo
        /\ new' = [new EXCEPT !["x"] = odo.x + move.x * cos(odo.theta)]
    BY <1>10 DEF LoadX, Load, Goto
  <2> QED
    BY <2>1, <1>3, <1>5, <1>7, <1>8, <1>9 DEF Storing
<1>11. CASE LoadY
  <2>1. pc = "load y" /\ pc' = "store y" /\ odo' = odo
        /\ new' = [new EXCEPT !["y"] = odo.y + move.x * sin(odo.theta)]
    BY <1>11 DEF LoadY, Load, Goto
  <2>2. odo = pose(a.x, b.y, b.theta)
    BY <2>1, <1>7, <1>9
  <2>3. odo.y = b.y /\ odo.theta = b.theta
    BY <2>2, <1>4
  <2>4. new'.y = a.y
    BY <2>1, <2>3, <1>3, <1>5
  <2> QED
    BY <2>1, <2>2, <2>4, <1>8 DEF Storing
<1>12. CASE LoadTheta
  <2>1. pc = "load theta" /\ pc' = "store theta" /\ odo' = odo
        /\ new' = [new EXCEPT !["theta"] = plus(odo.theta, move.theta)]
    BY <1>12 DEF LoadTheta, Load, Goto
  <2>2. odo = pose(a.x, a.y, b.theta)
    BY <2>1, <1>7, <1>9
  <2>3. odo.theta = b.theta
    BY <2>2, <1>4
  <2>4. new'.theta = a.theta
    BY <2>1, <2>3, <1>3, <1>5
  <2> QED
    BY <2>1, <2>2, <2>4, <1>8 DEF Storing
<1>13. CASE StoreX
  <2>1. pc = "store x" /\ pc' = "load y" /\ odo' = [odo EXCEPT !["x"] = new["x"]]
    BY <1>13 DEF StoreX, Store, Goto
  <2>2. odo = pose(b.x, b.y, b.theta) /\ new["x"] = a.x
    BY <2>1, <1>1, <1>7, <1>9
  <2>3. odo' = [pose(b.x, b.y, b.theta) EXCEPT !["x"] = a.x]
    BY <2>1, <2>2
  <2>4. odo' = pose(a.x, b.y, b.theta)
    BY <2>3, <1>4
  <2> QED
    BY <2>1, <2>4, <1>8 DEF Storing
<1>14. CASE StoreY
  <2>1. pc = "store y" /\ pc' = "load theta" /\ odo' = [odo EXCEPT !["y"] = new["y"]]
    BY <1>14 DEF StoreY, Store, Goto
  <2>2. odo = pose(a.x, b.y, b.theta) /\ new["y"] = a.y
    BY <2>1, <1>1, <1>7, <1>9
  <2>3. odo' = [pose(a.x, b.y, b.theta) EXCEPT !["y"] = a.y]
    BY <2>1, <2>2
  <2>4. odo' = pose(a.x, a.y, b.theta)
    BY <2>3, <1>4
  <2> QED
    BY <2>1, <2>4, <1>8 DEF Storing
<1>15. CASE StoreTheta
  <2>1. pc = "store theta" /\ pc' = "load FS" /\ odo' = [odo EXCEPT !["theta"] = new["theta"]]
    BY <1>15 DEF StoreTheta, Store, Goto
  <2>2. odo = pose(a.x, a.y, b.theta) /\ new["theta"] = a.theta
    BY <2>1, <1>1, <1>7, <1>9
  <2>3. odo' = [pose(a.x, a.y, b.theta) EXCEPT !["theta"] = a.theta]
    BY <2>1, <2>2
  <2>4. odo' = a
    BY <2>3, <1>2, <1>4
  <2> QED
    BY <2>1, <2>4, <1>8 DEF Storing
<1>16. CASE LoadFS \/ StoreFSx \/ StoreFSy
  <2>1. pc \in {"load FS"} \cup Storing /\ pc' \in Storing /\ odo' = odo
    BY <1>16 DEF LoadFS, StoreFSx, StoreFSy, StoreFS, Goto, Storing
  <2> QED
    BY <2>1, <1>7, <1>8, <1>9 DEF Storing
<1> QED
  BY <1>10, <1>11, <1>12, <1>13, <1>14, <1>15, <1>16 DEF Odometry

\* The steps of others leave alone what odometry() computes.
LEMMA AddingKept ==
  ASSUME UNCHANGED <<pc, odo, move, new>>, NEW b, Adding(b)
  PROVE  Adding(b)'
BY DEF Adding

LEMMA AfterType ==
  ASSUME NEW S \in SUBSET Pose, NEW m \in Pose
  PROVE  After(S, m) \in SUBSET Pose
BY TransType DEF After

LEMMA WithGlobalType ==
  ASSUME PoseTypes, NEW S \in SUBSET Pose
  PROVE  /\ WithGlobal(S) \in [{"GL", "LC", "BL"} -> SUBSET Pose]
         /\ WithGlobal(S)["GL"] = S /\ WithGlobal(S)["BL"] = expect["BL"]
         /\ WithGlobal(S)["LC"] = {trans_cs(tree["LC"], p) : p \in S}
<1>1. tree["LC"] \in Pose
  BY DEF PoseTypes, CSs
<1>2. {trans_cs(tree["LC"], p) : p \in S} \in SUBSET Pose
  BY <1>1, TransType
<1> QED
  BY <1>2 DEF WithGlobal, PoseTypes

LEMMA WaysType ==
  ASSUME PoseTypes, NEW p \in Pose
  PROVE  /\ CS_recursive_trans(tree, "BS", "FS", p) = inv_trans_cs(tree["FS"], p)
         /\ CS_recursive_trans(tree, "BS", "FS", p) \in Pose
         /\ CS_recursive_trans(tree, "BS", "GL", p) = inv_trans_cs(tree["GL"], p)
         /\ CS_recursive_trans(tree, "BS", "GL", p) \in Pose
         /\ CS_recursive_trans(tree, "GL", "FS", p) \in Pose
         /\ \A cs \in CSs : CS_recursive_trans(tree, "GL", cs, p) \in Pose
<1>1. \A cs \in {"FS", "GL", "LC", "BL"} : tree[cs] \in Pose
  BY DEF PoseTypes, CSs
<1>2. \A cs \in {"FS", "GL", "LC", "BL"} : inv_trans_cs(tree[cs], p) \in Pose
  BY <1>1, TransType
<1>3. \A cs \in {"FS", "BL"} : trans_cs(tree["GL"], inv_trans_cs(tree[cs], p)) \in Pose
  BY <1>1, <1>2, TransType
<1>4. trans_cs(tree["GL"], p) \in Pose
  BY <1>1, TransType
<1> QED
  BY <1>2, <1>3, <1>4, Ways DEF CSs

LEMMA PoseTypesStep == PoseTypes /\ FrameInv /\ [Next]_vars => PoseTypes'
<1> SUFFICES ASSUME PoseTypes, FrameInv, [Next]_vars PROVE PoseTypes'
  OBVIOUS
<1>1. odo' \in Pose /\ move' \in Pose /\ new' \in Pose /\ record' \in Pose
  BY FrameStep DEF FrameInv, Shape
<1>2. move'.y = 0 \/ move' = move
  <2>1. ASSUME NEW m \in Moves, Packet(m) PROVE move'.y = 0 \/ move' = move
    BY <2>1, PoseAssumption DEF Packet
  <2>2. ASSUME NEW p \in Poses, Localize(p) PROVE move' = move
    BY <2>2 DEF Localize, main
  <2>3. ASSUME NEW cs \in {"GL", "LC", "BL"}, NEW p \in Poses, SetPos(cs, p) PROVE move' = move
    BY <2>3 DEF SetPos, main
  <2>4. ASSUME NEW cs \in CSs, NEW p \in Poses, Adjust(cs, p) PROVE move' = move
    BY <2>4 DEF Adjust, main
  <2>5. ASSUME NEW p \in Poses, SetGLonGL(p) PROVE move' = move
    BY <2>5 DEF SetGLonGL, main
  <2>6. CASE Publish
    BY <2>6, OriginIsAPose DEF Publish
  <2>7. CASE Odometry
    BY <2>7 DEF Odometry, LoadX, LoadY, LoadTheta, Load, StoreX, StoreY, StoreTheta, Store,
                LoadFS, StoreFSx, StoreFSy, StoreFStheta, StoreFS
  <2>8. CASE PartOfPacket \/ NoSync \/ Sync \/ EnableBody \/ DisableBody \/ Expire \/ UNCHANGED vars
    BY <2>8 DEF PartOfPacket, NoSync, Sync, EnableBody, DisableBody, Expire, vars, main
  <2> QED
    BY <2>1, <2>2, <2>3, <2>4, <2>5, <2>6, <2>7, <2>8 DEF Next, Main, Clients, Localizer
<1>3. move'.y = 0
  BY <1>2 DEF PoseTypes
<1> DEFINE Rest == /\ tree' \in [CSs \ {"BS"} -> Pose]
                   /\ since' \in SUBSET Pose
                   /\ expect' \in [{"GL", "LC", "BL"} -> SUBSET Pose]
                   /\ fix' \in SUBSET [bs : Pose, gl : Pose, moved : SUBSET Pose]
<1> SUFFICES Rest
  BY <1>1, <1>3 DEF PoseTypes
<1>4. ASSUME UNCHANGED <<tree, since, expect, fix>> PROVE Rest
  BY <1>4 DEF PoseTypes
<1>5. CASE \/ \E m \in Moves : Packet(m)
           \/ PartOfPacket \/ NoSync \/ DisableBody \/ UNCHANGED vars
  BY <1>4, <1>5 DEF Packet, PartOfPacket, NoSync, DisableBody, history, vars
<1>6. CASE Odometry /\ ~(StoreFSx \/ StoreFSy \/ StoreFStheta)
  BY <1>4, <1>6 DEF Odometry, LoadX, LoadY, LoadTheta, Load, StoreX, StoreY, StoreTheta, Store,
                    LoadFS, history
<1>7. CASE StoreFSx \/ StoreFSy \/ StoreFStheta
  <2>1. \E field \in {"x", "y", "theta"} : tree' = [tree EXCEPT !["FS"][field] = new[field]]
    BY <1>7 DEF StoreFSx, StoreFSy, StoreFStheta, StoreFS
  <2>2. tree["FS"] \in Pose /\ new.x \in Int /\ new.y \in Int /\ new.theta \in Angles
    BY PoseParts DEF PoseTypes, CSs
  <2>3. /\ [tree["FS"] EXCEPT !["x"] = new["x"]] \in Pose
        /\ [tree["FS"] EXCEPT !["y"] = new["y"]] \in Pose
        /\ [tree["FS"] EXCEPT !["theta"] = new["theta"]] \in Pose
    BY <2>2 DEF Pose
  <2>4. tree' \in [CSs \ {"BS"} -> Pose]
    <3>1. PICK field \in {"x", "y", "theta"} : tree' = [tree EXCEPT !["FS"][field] = new[field]]
      BY <2>1
    <3>2. tree' = [tree EXCEPT !["FS"] = [tree["FS"] EXCEPT ![field] = new[field]]]
      BY <3>1
    <3>3. [tree["FS"] EXCEPT ![field] = new[field]] \in Pose
      BY <2>3
    <3> QED
      BY <3>2, <3>3 DEF PoseTypes
  <2>5. CASE StoreFSx \/ StoreFSy
    BY <2>4, <2>5 DEF StoreFSx, StoreFSy, history, PoseTypes
  <2>6. CASE StoreFStheta
    <3>1. since' \in SUBSET Pose
      BY <2>6, AfterType DEF StoreFStheta, PoseTypes
    <3>2. expect' \in [{"GL", "LC", "BL"} -> SUBSET Pose]
      BY <2>6, AfterType DEF StoreFStheta, PoseTypes
    <3>3. ASSUME NEW f \in fix
          PROVE  [f EXCEPT !.moved = After(f.moved, move)]
                   \in [bs : Pose, gl : Pose, moved : SUBSET Pose]
      <4>1. f \in [bs : Pose, gl : Pose, moved : SUBSET Pose] /\ After(f.moved, move) \in SUBSET Pose
        BY AfterType DEF PoseTypes
      <4> QED
        BY <4>1
    <3>4. fix' \in SUBSET [bs : Pose, gl : Pose, moved : SUBSET Pose]
      BY <2>6, <3>3 DEF StoreFStheta
    <3> QED
      BY <2>4, <3>1, <3>2, <3>4
  <2> QED
    BY <1>7, <2>5, <2>6
<1>8. CASE Publish
  BY <1>8, OriginIsAPose DEF Publish, PoseTypes
<1>9. CASE Sync
  <2>1. PICK f \in fix :
          LET target == inv_trans_cs(f.gl, trans_cs(f.bs, odo))
              base   == CS_turn_base(target)
          IN  /\ tree' = [tree EXCEPT !["GL"] = CS_recursive_trans(tree, "BS", "FS", base)]
              /\ expect' = WithGlobal(IF stale = "no" THEN UNION {After({f.gl}, m) : m \in f.moved}
                                                      ELSE {})
    BY <1>9 DEF Sync
  <2>2. f.gl \in Pose /\ f.bs \in Pose /\ f.moved \in SUBSET Pose /\ odo \in Pose
    BY DEF PoseTypes
  <2>3. CS_turn_base(inv_trans_cs(f.gl, trans_cs(f.bs, odo))) \in Pose
    BY <2>2, TransType, BaseTurned
  <2>4. tree' \in [CSs \ {"BS"} -> Pose]
    BY <2>1, <2>3, WaysType DEF PoseTypes
  <2>5. \A m \in f.moved : After({f.gl}, m) \in SUBSET Pose
    BY <2>2, AfterType
  <2>6. expect' \in [{"GL", "LC", "BL"} -> SUBSET Pose]
    <3>1. (IF stale = "no" THEN UNION {After({f.gl}, m) : m \in f.moved} ELSE {}) \in SUBSET Pose
      BY <2>5
    <3> QED
      BY <2>1, <3>1, WithGlobalType
  <2> QED
    BY <1>9, <2>4, <2>6 DEF Sync, PoseTypes
<1>10. ASSUME NEW cs \in {"GL", "LC", "BL"}, NEW p \in Poses, SetPos(cs, p) PROVE Rest
  <2>1. p \in Pose /\ CS_turn_base(p) \in Pose
    BY PoseAssumption, BaseTurned
  <2>2. parent[cs] \in {"BS", "GL"}
    BY Levels
  <2>3. CS_recursive_trans(tree, parent[cs], "FS", CS_turn_base(p)) \in Pose
    BY <2>1, <2>2, WaysType
  <2>4. tree' \in [CSs \ {"BS"} -> Pose]
    BY <1>10, <2>3 DEF SetPos, PoseTypes
  <2>5. IfWhole({p}) \in SUBSET Pose
    BY <2>1 DEF IfWhole
  <2>6. expect' \in [{"GL", "LC", "BL"} -> SUBSET Pose]
    BY <1>10, <2>5, WithGlobalType DEF SetPos, PoseTypes
  <2> QED
    BY <1>10, <2>4, <2>6 DEF SetPos, PoseTypes
<1>11. ASSUME NEW p \in Poses, SetGLonGL(p) PROVE Rest
  <2>1. p \in Pose
    BY PoseAssumption
  <2>2. tree' \in [CSs \ {"BS"} -> Pose]
    BY <1>11, <2>1, WaysType DEF SetGLonGL, PoseTypes
  <2>3. {trans_cs(p, q) : q \in expect["GL"]} \in SUBSET Pose
    BY <2>1, TransType DEF PoseTypes
  <2>4. expect' \in [{"GL", "LC", "BL"} -> SUBSET Pose]
    BY <1>11, <2>3, WithGlobalType DEF SetGLonGL
  <2> QED
    BY <1>11, <2>2, <2>4 DEF SetGLonGL, PoseTypes
<1>12. ASSUME NEW cs \in CSs, NEW p \in Poses, Adjust(cs, p) PROVE Rest
  <2> DEFINE target == CS_recursive_trans(tree, "GL", cs, p)
             S == IfWhole(IF cs = "FS" THEN After(expect["GL"], p) ELSE {target})
  <2>1. p \in Pose
    BY PoseAssumption
  <2>2. target \in Pose
    BY <2>1, WaysType
  <2>3. tree' \in [CSs \ {"BS"} -> Pose]
    BY <1>12, <2>2, WaysType, BaseTurned DEF Adjust, PoseTypes
  <2>4. After(expect["GL"], p) \in SUBSET Pose
    BY <2>1, AfterType DEF PoseTypes
  <2>5. S \in SUBSET Pose
    BY <2>2, <2>4 DEF IfWhole
  <2>6. expect' \in [{"GL", "LC", "BL"} -> SUBSET Pose]
    BY <1>12, <2>5, WithGlobalType DEF Adjust
  <2> QED
    BY <1>12, <2>3, <2>6 DEF Adjust, PoseTypes
<1>13. CASE EnableBody
  <2>1. fix' \in SUBSET [bs : Pose, gl : Pose, moved : SUBSET Pose]
    BY <1>13 DEF EnableBody, PoseTypes
  <2>2. expect' \in [{"GL", "LC", "BL"} -> SUBSET Pose]
    BY <1>13 DEF EnableBody, PoseTypes
  <2> QED
    BY <1>13, <2>1, <2>2 DEF EnableBody, PoseTypes
<1>14. ASSUME NEW p \in Poses, Localize(p) PROVE Rest
  BY <1>14, PoseAssumption DEF Localize, history, PoseTypes
<1>15. CASE Expire
  BY <1>15 DEF Expire, history, PoseTypes
<1> QED
  BY <1>5, <1>6, <1>7, <1>8, <1>9, <1>10, <1>11, <1>12, <1>13, <1>14, <1>15
  DEF Next, Main, Clients, Localizer

\* At rest, and before the first load, what odometry() adds to is the odometry.
LEMMA AddingAtRest ==
  ASSUME NEW l \in {"read", "publish", "control", "load x"}, NEW o, NEW m, NEW n, NEW b
  PROVE  AddingAt(l, o, m, n, b) <=> o = b
BY DEF AddingAt, Storing

LEMMA AddingInvStep == PoseInv /\ [Next]_vars => AddingInv'
<1> SUFFICES ASSUME PoseInv, [Next]_vars PROVE AddingInv'
  OBVIOUS
<1>1. FrameInv /\ PoseTypes /\ AddingInv /\ FrameInv' /\ PoseTypes'
  BY FrameStep, PoseTypesStep DEF PoseInv
<1>2. /\ \A p \in since : p \in Pose /\ inv_trans_cs(record, p) \in Pose
      /\ \A f \in fix : \A p \in f.moved : p \in Pose /\ inv_trans_cs(f.bs, p) \in Pose
      /\ tree["FS"] \in Pose
  BY <1>1, TransType DEF PoseTypes, CSs
<1>3. /\ \A p \in since : Adding(inv_trans_cs(record, p))
      /\ \A f \in fix : \A p \in f.moved : Adding(inv_trans_cs(f.bs, p))
      /\ Whole => Adding(tree["FS"])
  BY <1>1 DEF AddingInv
<1>4. ASSUME UNCHANGED <<pc, odo, move, new, record, since, fix, stale>>, tree'["FS"] = tree["FS"]
      PROVE  AddingInv'
  BY <1>3, <1>4 DEF AddingInv, Adding, Whole
\* Before and after the step the odometry is at rest.
<1>5. ASSUME pc \in {"read", "publish", "control"},
             pc' \in {"read", "publish", "control", "load x"},
             UNCHANGED <<odo, record, since, fix, stale>>, tree'["FS"] = tree["FS"]
      PROVE  AddingInv'
  <2>1. \A b : Adding(b) <=> odo = b
    <3>1. pc \in {"read", "publish", "control", "load x"}
      BY <1>5
    <3> QED
      BY <3>1, AddingAtRest DEF Adding
  <2>2. \A b : AddingAt(pc', odo', move', new', b) <=> odo = b
    BY <1>5, AddingAtRest
  <2>3. Whole' => Whole
    BY <1>5 DEF Whole
  <2> QED
    BY <1>3, <1>5, <2>1, <2>2, <2>3 DEF AddingInv, Adding
<1>6. CASE Odometry /\ ~StoreFStheta
  <2>1. \A b \in Pose : Adding(b) => AddingAt(pc', odo', move', new', b)
    BY <1>1, <1>6, AddingStep DEF Adding
  <2>2. UNCHANGED <<record, since, fix>>
    BY <1>6 DEF Odometry, LoadX, LoadY, LoadTheta, Load, StoreX, StoreY, StoreTheta, Store,
                LoadFS, StoreFSx, StoreFSy, StoreFS, history
  <2>3. Whole' => Whole /\ tree' = tree
    BY <1>6 DEF Odometry, LoadX, LoadY, LoadTheta, Load, StoreX, StoreY, StoreTheta, Store,
                LoadFS, StoreFSx, StoreFSy, StoreFS, history, Goto, Whole
  <2> QED
    BY <1>2, <1>3, <2>1, <2>2, <2>3 DEF AddingInv, Adding
<1>7. CASE StoreFStheta
  <2>1. /\ pc = "FS theta" /\ pc' = "publish" /\ UNCHANGED <<odo, move, new, record>>
        /\ since' = After(since, move)
        /\ fix' = {[f EXCEPT !.moved = After(f.moved, move)] : f \in fix}
    BY <1>7 DEF StoreFStheta, StoreFS, Goto
  <2>2. \A b : Adding(b) => odo = inv_trans_cs(b, move)
    BY <2>1 DEF Adding, AddingAt, Storing
  <2>3. \A b : AddingAt(pc', odo', move', new', b) <=> odo = b
    BY <2>1, AddingAtRest
  <2>4. ASSUME NEW q \in since' PROVE odo = inv_trans_cs(record', q)
    <3>1. PICK p \in since : q = inv_trans_cs(p, move)
      BY <2>1 DEF After
    <3>2. odo = inv_trans_cs(inv_trans_cs(record, p), move)
      BY <1>3, <2>2
    <3>3. record \in Pose /\ move \in Pose /\ p \in Pose
      BY <1>1, <1>2 DEF PoseTypes
    <3>4. inv_trans_cs(record, q) = odo
      BY <3>1, <3>2, <3>3, Composed
    <3> QED
      BY <2>1, <3>4
  <2>5. ASSUME NEW g \in fix', NEW q \in g.moved PROVE odo = inv_trans_cs(g.bs, q)
    <3>1. PICK f \in fix : g = [f EXCEPT !.moved = After(f.moved, move)]
      BY <2>1
    <3>2. f \in [bs : Pose, gl : Pose, moved : SUBSET Pose]
      BY <1>1 DEF PoseTypes
    <3>3. g.bs = f.bs /\ f.bs \in Pose /\ g.moved = After(f.moved, move)
      BY <3>1, <3>2
    <3>4. PICK p \in f.moved : q = inv_trans_cs(p, move)
      BY <3>3 DEF After
    <3>5. odo = inv_trans_cs(inv_trans_cs(f.bs, p), move)
      BY <1>3, <2>2
    <3> QED
      BY <1>1, <1>2, <3>3, <3>4, <3>5, Composed DEF PoseTypes
  <2>6. Whole' => tree'["FS"] = odo
    BY <1>1, <2>1 DEF FrameInv, FrameFollows, AtRest, Whole
  <2> QED
    BY <2>3, <2>4, <2>5, <2>6 DEF AddingInv, Adding
<1>8. ASSUME NEW m \in Moves, Packet(m) PROVE AddingInv'
  BY <1>5, <1>8 DEF Packet, Goto, history
<1>9. CASE PartOfPacket \/ NoSync
  BY <1>5, <1>9 DEF PartOfPacket, NoSync, Goto, history
<1>10. CASE Publish
  <2>1. /\ pc = "publish" /\ pc' = "control" /\ record' = odo /\ since' = {Origin}
        /\ UNCHANGED <<odo, tree, fix, stale>>
    BY <1>10 DEF Publish, Goto
  <2>2. \A b : Adding(b) <=> odo = b
    BY <2>1, AddingAtRest DEF Adding
  <2>3. \A b : AddingAt(pc', odo', move', new', b) <=> odo = b
    BY <2>1, AddingAtRest
  <2>4. inv_trans_cs(odo, Origin) = odo
    BY <1>1, BaseTurned DEF PoseTypes
  <2>5. Whole' => Whole
    BY <2>1 DEF Whole
  <2> QED
    BY <1>3, <2>1, <2>2, <2>3, <2>4, <2>5 DEF AddingInv, Adding
<1>11. CASE Sync
  <2>1. tree'["FS"] = tree["FS"]
    BY <1>1, <1>11 DEF Sync, PoseTypes, CSs
  <2> QED
    BY <1>5, <1>11, <2>1 DEF Sync, Goto
<1>12. ASSUME NEW cs \in {"GL", "LC", "BL"}, NEW p \in Poses, SetPos(cs, p) PROVE AddingInv'
  <2>1. tree'["FS"] = tree["FS"]
    BY <1>1, <1>12 DEF SetPos, PoseTypes, CSs
  <2> QED
    BY <1>4, <1>12, <2>1 DEF SetPos, main
<1>13. ASSUME NEW p \in Poses, SetGLonGL(p) PROVE AddingInv'
  <2>1. tree'["FS"] = tree["FS"]
    BY <1>1, <1>13 DEF SetGLonGL, PoseTypes, CSs
  <2> QED
    BY <1>4, <1>13, <2>1 DEF SetGLonGL, main
<1>14. ASSUME NEW cs \in CSs, NEW p \in Poses, Adjust(cs, p) PROVE AddingInv'
  <2>1. tree'["FS"] = tree["FS"]
    BY <1>1, <1>14 DEF Adjust, PoseTypes, CSs
  <2> QED
    BY <1>4, <1>14, <2>1 DEF Adjust, main
<1>15. CASE EnableBody
  <2>1. since' = {} /\ stale' = "reset" /\ fix' = {[f EXCEPT !.moved = {}] : f \in fix}
    BY <1>15 DEF EnableBody
  <2>2. \A g \in fix' : g.moved = {}
    BY <1>1, <2>1 DEF PoseTypes
  <2> QED
    BY <2>1, <2>2 DEF AddingInv, Whole
<1>16. CASE DisableBody \/ UNCHANGED vars
  BY <1>4, <1>16 DEF DisableBody, vars, main, history
<1>17. ASSUME NEW p \in Poses, Localize(p) PROVE AddingInv'
  <2>1. /\ UNCHANGED <<pc, odo, move, new, record, since, tree, stale>>
        /\ fix' = {[bs |-> record, gl |-> p, moved |-> since]}
    BY <1>17 DEF Localize, main, history
  <2>2. \A f \in fix' : f.bs = record /\ f.moved = since
    BY <2>1
  <2> QED
    BY <1>3, <2>1, <2>2 DEF AddingInv, Adding, Whole
<1>18. CASE Expire
  BY <1>3, <1>18 DEF Expire, main, history, AddingInv, Adding, Whole
<1> QED
  BY <1>6, <1>7, <1>8, <1>9, <1>10, <1>11, <1>12, <1>13, <1>14, <1>15, <1>16, <1>17, <1>18
  DEF Next, Main, Clients, Localizer

\* To turn the base of p is to put the parent where its child is seen at p.
LEMMA Placed ==
  ASSUME NEW fs \in Pose, NEW p \in Pose
  PROVE  /\ inv_trans_cs(fs, CS_turn_base(p)) \in Pose
         /\ inv_trans_cs(inv_trans_cs(fs, CS_turn_base(p)), p) = fs
<1>1. CS_turn_base(p) \in Pose
  BY BaseTurned
<1>2. inv_trans_cs(inv_trans_cs(fs, CS_turn_base(p)), p)
        = inv_trans_cs(fs, inv_trans_cs(CS_turn_base(p), p))
  BY <1>1, Composed
<1> QED
  BY <1>1, <1>2, BaseTurned, TransType

\* What is expected of b, if cs sees the robot at p by the new systems t.
Right(b) ==
  /\ stale = "no"
  /\ Whole => b = tree["FS"]
  /\ ~Whole => inv_trans_cs(b, move) = odo

\* A command or a correction that moves the global system to g and expects the
\* robot at a pose of S, which is where the robot is.
LEMMA GlobalMoved ==
  ASSUME PoseTypes, ExpectInv, NEW g \in Pose, tree' = [tree EXCEPT !["GL"] = g],
         NEW S \in SUBSET Pose, \A p \in S : Right(inv_trans_cs(g, p)),
         expect' = WithGlobal(S), UNCHANGED <<odo, move, stale>>, Whole' <=> Whole
  PROVE  ExpectInv'
<1> SUFFICES ASSUME NEW cs \in {"GL", "LC", "BL"}, NEW p \in expect'[cs]
             PROVE  Right(StoodAt(tree', cs, p))
  <2>1. tree'["FS"] = tree["FS"]
    BY DEF PoseTypes, CSs
  <2> QED
    BY <2>1 DEF ExpectInv, Right, Stood
<1>1. tree'["GL"] = g /\ tree'["LC"] = tree["LC"] /\ tree'["BL"] = tree["BL"] /\ tree["LC"] \in Pose
  BY DEF PoseTypes, CSs
<1>2. CASE cs = "GL"
  BY <1>1, <1>2, WithGlobalType DEF StoodAt
<1>3. CASE cs = "LC"
  <2>1. PICK q \in S : p = trans_cs(tree["LC"], q)
    BY <1>3, WithGlobalType
  <2>2. inv_trans_cs(tree["LC"], p) = q
    BY <1>1, <2>1, StepsUndo
  <2> QED
    BY <1>1, <1>3, <2>2 DEF StoodAt
<1>4. CASE cs = "BL"
  BY <1>1, <1>4, WithGlobalType DEF StoodAt, Stood, ExpectInv, Right
<1> QED
  BY <1>2, <1>3, <1>4

LEMMA SyncExpects == PoseInv /\ Sync => ExpectInv'
<1> SUFFICES ASSUME PoseInv, Sync PROVE ExpectInv'
  OBVIOUS
<1>1. PoseTypes /\ AddingInv /\ ExpectInv
  BY DEF PoseInv
<1>2. PICK f \in fix :
        LET target == inv_trans_cs(f.gl, trans_cs(f.bs, odo))
            base   == CS_turn_base(target)
        IN  /\ tree' = [tree EXCEPT !["GL"] = CS_recursive_trans(tree, "BS", "FS", base)]
            /\ expect' = WithGlobal(IF stale = "no" THEN UNION {After({f.gl}, m) : m \in f.moved}
                                                    ELSE {})
  BY DEF Sync
<1> DEFINE target == inv_trans_cs(f.gl, trans_cs(f.bs, odo))
           base   == CS_turn_base(target)
           g      == inv_trans_cs(tree["FS"], base)
           S      == IF stale = "no" THEN UNION {After({f.gl}, m) : m \in f.moved} ELSE {}
<1>3. f.gl \in Pose /\ f.bs \in Pose /\ f.moved \in SUBSET Pose /\ odo \in Pose /\ tree["FS"] \in Pose
  BY <1>1 DEF PoseTypes, CSs
<1>4. target \in Pose /\ base \in Pose /\ g \in Pose
  BY <1>3, TransType, BaseTurned
<1>5. tree' = [tree EXCEPT !["GL"] = g] /\ expect' = WithGlobal(S)
  BY <1>1, <1>2, <1>4, WaysType
<1>6. pc = "control" /\ pc' = "read" /\ UNCHANGED <<odo, move, stale>>
  BY DEF Sync, Goto
<1>7. ASSUME NEW p \in S PROVE p = target /\ stale = "no" /\ tree["FS"] = odo
  <2>1. stale = "no" /\ tree["FS"] = odo
    BY <1>6 DEF PoseInv, FrameInv, FrameFollows, AtRest
  <2>2. PICK m \in f.moved : p = inv_trans_cs(f.gl, m)
    BY <2>1 DEF After
  <2>3. odo = inv_trans_cs(f.bs, m)
    <3>1. Adding(inv_trans_cs(f.bs, m))
      BY <1>1 DEF AddingInv
    <3>2. pc \in {"read", "publish", "control", "load x"}
      BY <1>6
    <3>3. \A b : Adding(b) <=> odo = b
      BY <3>2, AddingAtRest DEF Adding
    <3> QED
      BY <3>1, <3>3
  <2>4. trans_cs(f.bs, odo) = m
    BY <1>3, <2>3, StepsUndo
  <2> QED
    BY <2>1, <2>2, <2>4
<1>8. S \in SUBSET Pose
  BY <1>4, <1>7
<1>9. inv_trans_cs(g, target) = tree["FS"]
  BY <1>3, <1>4, Placed
<1> HIDE DEF target, base, g, S
<1>10. \A p \in S : Right(inv_trans_cs(g, p))
  BY <1>6, <1>7, <1>9 DEF Right, Whole
<1>11. Whole' <=> Whole
  BY <1>6 DEF Whole
<1> QED
  BY <1>1, <1>4, <1>5, <1>6, <1>8, <1>10, <1>11, GlobalMoved

LEMMA SetPosExpects ==
  ASSUME PoseInv, NEW cs \in {"GL", "LC", "BL"}, NEW p \in Poses, SetPos(cs, p)
  PROVE  ExpectInv'
<1> DEFINE g == inv_trans_cs(tree["FS"], CS_turn_base(p))
           S == IfWhole({p})
<1>1. PoseTypes /\ ExpectInv
  BY DEF PoseInv
<1>2. /\ p \in Pose /\ CS_turn_base(p) \in Pose /\ tree["FS"] \in Pose /\ tree["GL"] \in Pose
      /\ tree["LC"] \in Pose /\ tree["BL"] \in Pose
  BY <1>1, PoseAssumption, BaseTurned DEF PoseTypes, CSs
<1>3. g \in Pose /\ inv_trans_cs(g, p) = tree["FS"]
  BY <1>2, Placed
<1>4. UNCHANGED <<odo, move, stale>> /\ (Whole' <=> Whole)
  BY DEF SetPos, main, Whole
<1>5. S \in SUBSET Pose /\ \A q \in S : q = p /\ Whole /\ stale = "no"
  BY <1>2 DEF IfWhole, Whole
<1>6. CASE cs = "GL"
  <2>1. tree' = [tree EXCEPT !["GL"] = g] /\ expect' = WithGlobal(S)
    BY <1>1, <1>2, <1>6, WaysType, Levels DEF SetPos
  <2>2. \A q \in S : Right(inv_trans_cs(g, q))
    BY <1>3, <1>5 DEF Right
  <2> HIDE DEF g, S
  <2> QED
    BY <1>1, <1>3, <1>4, <1>5, <2>1, <2>2, GlobalMoved
\* Of the other two: the systems that are not set keep what is expected of them.
<1>7. ASSUME cs # "GL", StoodAt(tree', cs, p) = tree["FS"], tree'["FS"] = tree["FS"],
             \A c \in {"GL", "LC", "BL"} \ {cs} : \A q : StoodAt(tree', c, q) = Stood(c, q)
      PROVE  ExpectInv'
  <2>1. expect' = [expect EXCEPT ![cs] = S]
    BY <1>7 DEF SetPos
  <2>2. ASSUME NEW c \in {"GL", "LC", "BL"}, NEW q \in expect'[c]
        PROVE  Right(StoodAt(tree', c, q))
    <3>1. CASE c = cs
      <4>1. expect'[c] = S
        BY <1>1, <2>1, <3>1 DEF PoseTypes
      <4> QED
        BY <1>5, <1>7, <3>1, <4>1 DEF Right
    <3>2. CASE c # cs
      <4>1. expect'[c] = expect[c]
        BY <1>1, <2>1, <3>2 DEF PoseTypes
      <4> QED
        BY <1>1, <1>7, <3>2, <4>1 DEF ExpectInv, Right
    <3> QED
      BY <3>1, <3>2
  <2> QED
    BY <1>4, <1>7, <2>2 DEF ExpectInv, Right, Stood
<1>8. CASE cs = "BL"
  <2>1. tree' = [tree EXCEPT !["BL"] = g]
    BY <1>1, <1>2, <1>8, WaysType, Levels DEF SetPos
  <2>2. /\ tree'["BL"] = g /\ tree'["GL"] = tree["GL"] /\ tree'["LC"] = tree["LC"]
        /\ tree'["FS"] = tree["FS"]
    BY <1>1, <2>1 DEF PoseTypes, CSs
  <2> QED
    BY <1>3, <1>7, <1>8, <2>2 DEF StoodAt, Stood
<1>9. CASE cs = "LC"
  <2> DEFINE l == trans_cs(tree["GL"], g)
  <2>1. tree' = [tree EXCEPT !["LC"] = l]
    <3>1. tree' = [tree EXCEPT !["LC"] =
                     CS_recursive_trans(tree, "GL", "FS", CS_turn_base(p))]
      BY <1>9, Levels DEF SetPos
    <3> QED
      BY <3>1, Ways
  <2>2. l \in Pose /\ inv_trans_cs(tree["GL"], l) = g
    BY <1>2, <1>3, TransType, StepsUndo
  <2>3. /\ tree'["LC"] = l /\ tree'["GL"] = tree["GL"] /\ tree'["BL"] = tree["BL"]
        /\ tree'["FS"] = tree["FS"]
    BY <1>1, <2>1 DEF PoseTypes, CSs
  <2>4. inv_trans_cs(tree["GL"], inv_trans_cs(l, p)) = tree["FS"]
    BY <1>2, <1>3, <2>2, Composed
  <2> HIDE DEF l
  <2> QED
    BY <1>7, <1>9, <2>3, <2>4 DEF StoodAt, Stood
<1> QED
  BY <1>6, <1>8, <1>9

LEMMA SetGLonGLExpects ==
  ASSUME PoseInv, NEW p \in Poses, SetGLonGL(p)
  PROVE  ExpectInv'
<1> DEFINE g == inv_trans_cs(tree["GL"], p)
           S == {trans_cs(p, q) : q \in expect["GL"]}
<1>1. PoseTypes /\ ExpectInv
  BY DEF PoseInv
<1>2. p \in Pose /\ tree["GL"] \in Pose /\ g \in Pose
  BY <1>1, PoseAssumption, TransType DEF PoseTypes, CSs
<1>3. expect["GL"] \in SUBSET Pose
  BY <1>1 DEF PoseTypes
<1>4. tree' = [tree EXCEPT !["GL"] = g] /\ expect' = WithGlobal(S)
  BY <1>1, <1>2, WaysType DEF SetGLonGL
<1>5. UNCHANGED <<odo, move, stale>> /\ (Whole' <=> Whole)
  BY DEF SetGLonGL, main, Whole
<1>6. S \in SUBSET Pose
  BY <1>2, <1>3, TransType
<1>7. ASSUME NEW r \in S PROVE Right(inv_trans_cs(g, r))
  <2>1. PICK q \in expect["GL"] : r = trans_cs(p, q)
    OBVIOUS
  <2>2. q \in Pose /\ r \in Pose /\ inv_trans_cs(p, r) = q
    BY <1>2, <1>3, <2>1, TransType, StepsUndo
  <2>3. inv_trans_cs(g, r) = inv_trans_cs(tree["GL"], q)
    BY <1>2, <2>2, Composed
  <2>4. Right(Stood("GL", q))
    BY <1>1 DEF ExpectInv, Right
  <2> QED
    BY <2>3, <2>4 DEF Stood, StoodAt
<1> HIDE DEF g, S
<1> QED
  BY <1>1, <1>2, <1>4, <1>5, <1>6, <1>7, GlobalMoved

LEMMA AdjustExpects ==
  ASSUME PoseInv, NEW cs \in CSs, NEW p \in Poses, Adjust(cs, p)
  PROVE  ExpectInv'
<1> DEFINE target == CS_recursive_trans(tree, "GL", cs, p)
           g == inv_trans_cs(tree["FS"], CS_turn_base(target))
           S == IfWhole(IF cs = "FS" THEN After(expect["GL"], p) ELSE {target})
<1>1. PoseTypes /\ ExpectInv
  BY DEF PoseInv
<1>2. p \in Pose /\ tree["FS"] \in Pose /\ tree["GL"] \in Pose /\ target \in Pose
  BY <1>1, PoseAssumption, WaysType DEF PoseTypes, CSs
<1>3. g \in Pose /\ inv_trans_cs(g, target) = tree["FS"]
  BY <1>2, Placed
<1>4. CS_turn_base(target) \in Pose
  BY <1>2, BaseTurned
<1>5. tree' = [tree EXCEPT !["GL"] = g] /\ expect' = WithGlobal(S)
  BY <1>1, <1>4, WaysType DEF Adjust
<1>6. UNCHANGED <<odo, move, stale>> /\ (Whole' <=> Whole)
  BY DEF Adjust, main, Whole
<1>7. ASSUME NEW q \in S PROVE q = target /\ Whole
  <2>1. Whole
    BY DEF IfWhole
  <2>2. CASE cs # "FS"
    BY <2>1, <2>2 DEF IfWhole
  <2>3. CASE cs = "FS"
    <3>1. PICK r \in expect["GL"] : q = inv_trans_cs(r, p)
      BY <2>1, <2>3 DEF IfWhole, After
    <3>2. r \in Pose /\ inv_trans_cs(tree["GL"], r) = tree["FS"]
      BY <1>1, <2>1 DEF ExpectInv, Stood, StoodAt, PoseTypes
    <3>3. inv_trans_cs(tree["FS"], p) = inv_trans_cs(tree["GL"], q)
      BY <1>2, <3>1, <3>2, Composed
    <3>4. q \in Pose
      BY <1>2, <3>1, <3>2, TransType
    <3>5. target = trans_cs(tree["GL"], inv_trans_cs(tree["FS"], p))
      BY <2>3, Ways
    <3> QED
      BY <1>2, <2>1, <3>3, <3>4, <3>5, StepsUndo
  <2> QED
    BY <2>2, <2>3
<1> HIDE DEF target
<1>8. S \in SUBSET Pose
  BY <1>2, <1>7
<1> HIDE DEF g, S
<1>9. \A q \in S : Right(inv_trans_cs(g, q))
  BY <1>3, <1>7 DEF Right, Whole
<1> QED
  BY <1>1, <1>3, <1>5, <1>6, <1>8, <1>9, GlobalMoved

LEMMA OdometryExpects == PoseInv /\ Odometry => ExpectInv'
<1> SUFFICES ASSUME PoseInv, Odometry PROVE ExpectInv'
  OBVIOUS
<1>1. PoseTypes /\ AddingInv /\ ExpectInv
  BY DEF PoseInv
<1>2. CASE LoadX \/ StoreX \/ LoadY \/ StoreY \/ LoadTheta \/ StoreTheta \/ LoadFS
  <2>1. UNCHANGED <<tree, expect>> /\ (stale = "no" => stale' = "no" /\ Whole /\ Whole')
    BY <1>2 DEF LoadX, LoadY, LoadTheta, Load, StoreX, StoreY, StoreTheta, Store, LoadFS, Goto,
                history, Whole
  <2> QED
    BY <1>1, <2>1 DEF ExpectInv, Stood
<1>3. CASE StoreFSx \/ StoreFSy
  <2>1. /\ UNCHANGED <<odo, move, expect, stale>> /\ pc' \in {"FS y", "FS theta"} /\ pc \in Storing
        /\ \E field \in {"x", "y"} : tree' = [tree EXCEPT !["FS"][field] = new[field]]
    BY <1>3 DEF StoreFSx, StoreFSy, StoreFS, Goto, history, Storing
  <2>2. tree'["GL"] = tree["GL"] /\ tree'["LC"] = tree["LC"] /\ tree'["BL"] = tree["BL"]
    BY <1>1, <2>1 DEF PoseTypes, CSs
  <2>3. ASSUME NEW cs \in {"GL", "LC", "BL"}, NEW p \in expect[cs]
        PROVE  stale = "no" /\ inv_trans_cs(Stood(cs, p), move) = odo
    <3>1. stale = "no" /\ (Whole => Stood(cs, p) = tree["FS"])
          /\ (~Whole => inv_trans_cs(Stood(cs, p), move) = odo)
      BY <1>1 DEF ExpectInv
    <3>2. Whole => odo = inv_trans_cs(tree["FS"], move)
      BY <1>1, <2>1 DEF AddingInv, Adding, AddingAt
    <3> QED
      BY <3>1, <3>2
  <2>4. \A cs \in {"GL", "LC", "BL"} : \A p : StoodAt(tree', cs, p) = Stood(cs, p)
    BY <2>2 DEF Stood, StoodAt
  <2> QED
    BY <2>1, <2>3, <2>4 DEF ExpectInv, Stood, Whole
<1>4. CASE StoreFStheta
  <2>1. /\ pc = "FS theta" /\ pc' = "publish" /\ UNCHANGED <<odo, move, new, record>>
        /\ tree' = [tree EXCEPT !["FS"]["theta"] = new["theta"]]
        /\ expect' = [cs \in DOMAIN expect |-> After(expect[cs], move)]
        /\ (stale = "no" => stale' = "no")
    BY <1>4 DEF StoreFStheta, StoreFS, Goto
  <2>2. tree'["GL"] = tree["GL"] /\ tree'["LC"] = tree["LC"] /\ tree'["BL"] = tree["BL"]
    BY <1>1, <2>1 DEF PoseTypes, CSs
  <2>3. \A cs \in {"GL", "LC", "BL"} : \A p : StoodAt(tree', cs, p) = Stood(cs, p)
    BY <2>2 DEF Stood, StoodAt
  <2>4. stale = "no" => tree'["FS"] = odo
    BY <2>1, FrameOdometry DEF PoseInv, FrameInv, FrameFollows, AtRest
  <2>5. ASSUME NEW cs \in {"GL", "LC", "BL"}, NEW q \in expect'[cs]
        PROVE  stale = "no" /\ Stood(cs, q) = odo
    <3>1. PICK p \in expect[cs] : q = inv_trans_cs(p, move)
      BY <1>1, <2>1 DEF After, PoseTypes
    <3>2. stale = "no" /\ inv_trans_cs(Stood(cs, p), move) = odo
      BY <1>1, <2>1 DEF ExpectInv, Whole
    <3>3. /\ p \in Pose /\ q \in Pose /\ move \in Pose /\ tree["GL"] \in Pose /\ tree["LC"] \in Pose
          /\ tree["BL"] \in Pose /\ inv_trans_cs(tree["LC"], p) \in Pose
      BY <1>1, <3>1, TransType DEF PoseTypes, CSs
    <3>4. \A t \in {tree["GL"], tree["LC"], tree["BL"]} :
             inv_trans_cs(t, q) = inv_trans_cs(inv_trans_cs(t, p), move)
      BY <3>1, <3>3, Composed
    <3>5. inv_trans_cs(tree["GL"], inv_trans_cs(inv_trans_cs(tree["LC"], p), move))
            = inv_trans_cs(inv_trans_cs(tree["GL"], inv_trans_cs(tree["LC"], p)), move)
      BY <3>3, Composed
    <3>6. Stood(cs, q) = inv_trans_cs(Stood(cs, p), move)
      BY <3>4, <3>5 DEF Stood, StoodAt
    <3> QED
      BY <3>2, <3>6
  <2> QED
    BY <2>1, <2>3, <2>4, <2>5, ZenonT(60) DEF ExpectInv, Stood, Whole
<1> QED
  BY <1>2, <1>3, <1>4 DEF Odometry

LEMMA ExpectInvStep == PoseInv /\ [Next]_vars => ExpectInv'
<1> SUFFICES ASSUME PoseInv, [Next]_vars PROVE ExpectInv'
  OBVIOUS
<1>1. PoseTypes /\ ExpectInv
  BY DEF PoseInv
\* At rest, or nothing moved: what is expected is what it was.
<1>2. ASSUME UNCHANGED <<odo, tree, expect, stale>>, Whole' <=> Whole, move' = move \/ Whole
      PROVE  ExpectInv'
  BY <1>1, <1>2 DEF ExpectInv, Stood
<1>3. ASSUME NEW m \in Moves, Packet(m) PROVE ExpectInv'
  BY <1>2, <1>3, <1>1 DEF Packet, Goto, history, Whole, ExpectInv, Stood
<1>4. CASE PartOfPacket \/ NoSync \/ DisableBody \/ Expire \/ UNCHANGED vars
  BY <1>2, <1>4 DEF PartOfPacket, NoSync, DisableBody, Expire, vars, main, Goto, history, Whole
<1>5. CASE Publish
  BY <1>1, <1>5 DEF Publish, Goto, Whole, ExpectInv, Stood
<1>6. CASE EnableBody
  <2>1. expect' = [cs \in DOMAIN expect |-> {}]
    BY <1>6 DEF EnableBody
  <2> QED
    BY <1>1, <2>1 DEF PoseTypes, ExpectInv
<1>7. ASSUME NEW p \in Poses, Localize(p) PROVE ExpectInv'
  BY <1>2, <1>7 DEF Localize, main, history, Whole
<1> QED
  BY <1>3, <1>4, <1>5, <1>6, <1>7, SyncExpects, SetPosExpects, SetGLonGLExpects, AdjustExpects,
     OdometryExpects
  DEF Next, Main, Clients, Localizer

\* Where the packets, the corrections and the commands leave the robot is where get_pos
\* answers that it is, for every set of motions and poses: whatever order they come in,
\* a command between two stores of odometry() included.
THEOREM PositionIsKept == Spec => []PositionKept
<1>1. Init => PoseInv
  BY PoseInit
<1>2. PoseInv /\ [Next]_vars => PoseInv'
  BY FrameStep, PoseTypesStep, AddingInvStep, ExpectInvStep DEF PoseInv
<1>3. PoseInv => PositionKept
  BY PoseImplies
<1> QED
  BY <1>1, <1>2, <1>3, PTL DEF Spec

-----------------------------------------------------------------------------
(* The path that clients named.                                            *)

\* The commands that name paths leave the odometry and the systems alone.
LEMMA FollowKeeps ==
  ASSUME Follow
  PROVE  UNCHANGED <<odo, tree, pc, move, new, record, fix, since, expect, stale>>
<1> PICK cs \in CSs, p \in Paths :
         line_com(cs, p) \/ circle_com(cs, p) \/ spin_com(cs, p) \/ set_tilt_com(cs, p)
  BY DEF Follow
<1> QED
  BY DEF line_com, circle_com, spin_com, set_tilt_com, Only, main, history

LEMMA PoseInvPaths == PoseInv /\ [PathNext]_allVars => PoseInv'
<1> SUFFICES ASSUME PoseInv, [PathNext]_allVars PROVE PoseInv'
  OBVIOUS
<1>1. CASE Follow
  <2>1. UNCHANGED <<odo, tree, pc, move, new, record, fix, since, expect, stale>>
    BY <1>1, FollowKeeps
  <2>2. FrameInv'
    BY <1>1, FollowStep DEF PoseInv
  <2>3. PoseTypes'
    BY <2>1 DEF PoseInv, PoseTypes
  <2>4. AddingInv'
    BY <2>1 DEF PoseInv, AddingInv, Adding, Whole
  <2>5. ExpectInv'
    BY <2>1 DEF PoseInv, ExpectInv, Stood, Whole
  <2> QED
    BY <2>2, <2>3, <2>4, <2>5 DEF PoseInv
<1>2. CASE [Next]_vars
  BY <1>2, FrameStep, PoseTypesStep, AddingInvStep, ExpectInvStep DEF PoseInv
<1> QED
  BY <1>1, <1>2 DEF PathNext, Others, allVars

\* The position is kept also while paths are named and questions asked.
THEOREM PositionIsKeptOnPaths == PathSpec => []PositionKept
<1>1. PathInit => PoseInv
  BY PoseInit DEF PathInit
<1> QED
  BY <1>1, PoseInvPaths, PoseImplies, PTL DEF PathSpec

\* Seen from a system that stands at f, distances and directions are what they are.
LEMMA SameAngle ==
  ASSUME NEW f \in Angles, NEW a \in Angles, NEW b \in Angles
  PROVE  /\ minus(plus(a, f), plus(b, f)) = minus(a, b)
         /\ cos(plus(a, f)) = cos(a) * cos(f) - sin(a) * sin(f)
         /\ sin(plus(a, f)) = sin(a) * cos(f) + cos(a) * sin(f)
<1>1. /\ f = 0 \/ f = 1 \/ f = 2 \/ f = 3
      /\ a = 0 \/ a = 1 \/ a = 2 \/ a = 3
  BY DEF Angles
<1> QED
  BY <1>1 DEF plus, minus, cos, sin, Angles

LEMMA Apart ==
  ASSUME NEW f \in Pose, NEW o \in Pose, NEW q \in Pose
  PROVE  /\ inv_trans_cs(f, o).x - inv_trans_cs(f, q).x
              = (o.x - q.x) * cos(f.theta) - (o.y - q.y) * sin(f.theta)
         /\ inv_trans_cs(f, o).y - inv_trans_cs(f, q).y
              = (o.x - q.x) * sin(f.theta) + (o.y - q.y) * cos(f.theta)
<1>1. /\ f.x \in Int /\ f.y \in Int /\ f.theta \in Angles
      /\ o.x \in Int /\ o.y \in Int /\ q.x \in Int /\ q.y \in Int
  BY PoseParts
<1> QED
  BY <1>1, Quarter DEF inv_trans_cs, pose

LEMMA Combined ==
  ASSUME NEW x \in Int, NEW y \in Int, NEW c, NEW s
  PROVE  /\ (c = 1 /\ s = 0) => x * c + y * s = x /\ y * c - x * s = y
         /\ (c = 0 /\ s = 1) => x * c + y * s = y /\ y * c - x * s = -x
         /\ (c = -1 /\ s = 0) => x * c + y * s = -x /\ y * c - x * s = -y
         /\ (c = 0 /\ s = -1) => x * c + y * s = -y /\ y * c - x * s = x
OBVIOUS

LEMMA Rotated ==
  ASSUME NEW f \in Angles, NEW t \in Angles, NEW dx \in Int, NEW dy \in Int,
         NEW ex \in Int, NEW ey \in Int,
         ex = dx * cos(f) - dy * sin(f), ey = dx * sin(f) + dy * cos(f)
  PROVE  /\ ex * cos(plus(t, f)) + ey * sin(plus(t, f)) = dx * cos(t) + dy * sin(t)
         /\ ey * cos(plus(t, f)) - ex * sin(plus(t, f)) = dy * cos(t) - dx * sin(t)
<1>1. /\ cos(plus(t, f)) = cos(t) * cos(f) - sin(t) * sin(f)
      /\ sin(plus(t, f)) = sin(t) * cos(f) + cos(t) * sin(f)
  BY SameAngle
<1>2. CASE cos(f) = 1 /\ sin(f) = 0
  <2>1. ex = dx /\ ey = dy
    BY <1>2
  <2>2. CASE cos(t) = 1 /\ sin(t) = 0
    <3>1. cos(plus(t, f)) = 1 /\ sin(plus(t, f)) = 0
      BY <1>1, <1>2, <2>2
    <3>2. /\ dx * cos(t) + dy * sin(t) = dx
          /\ dy * cos(t) - dx * sin(t) = dy
      BY <2>2, Combined
    <3>3. /\ ex * cos(plus(t, f)) + ey * sin(plus(t, f)) = ex
          /\ ey * cos(plus(t, f)) - ex * sin(plus(t, f)) = ey
      BY <3>1, Combined
    <3> QED
      BY <2>1, <3>2, <3>3
  <2>3. CASE cos(t) = 0 /\ sin(t) = 1
    <3>1. cos(plus(t, f)) = 0 /\ sin(plus(t, f)) = 1
      BY <1>1, <1>2, <2>3
    <3>2. /\ dx * cos(t) + dy * sin(t) = dy
          /\ dy * cos(t) - dx * sin(t) = -dx
      BY <2>3, Combined
    <3>3. /\ ex * cos(plus(t, f)) + ey * sin(plus(t, f)) = ey
          /\ ey * cos(plus(t, f)) - ex * sin(plus(t, f)) = -ex
      BY <3>1, Combined
    <3> QED
      BY <2>1, <3>2, <3>3
  <2>4. CASE cos(t) = -1 /\ sin(t) = 0
    <3>1. cos(plus(t, f)) = -1 /\ sin(plus(t, f)) = 0
      BY <1>1, <1>2, <2>4
    <3>2. /\ dx * cos(t) + dy * sin(t) = -dx
          /\ dy * cos(t) - dx * sin(t) = -dy
      BY <2>4, Combined
    <3>3. /\ ex * cos(plus(t, f)) + ey * sin(plus(t, f)) = -ex
          /\ ey * cos(plus(t, f)) - ex * sin(plus(t, f)) = -ey
      BY <3>1, Combined
    <3> QED
      BY <2>1, <3>2, <3>3
  <2>5. CASE cos(t) = 0 /\ sin(t) = -1
    <3>1. cos(plus(t, f)) = 0 /\ sin(plus(t, f)) = -1
      BY <1>1, <1>2, <2>5
    <3>2. /\ dx * cos(t) + dy * sin(t) = -dy
          /\ dy * cos(t) - dx * sin(t) = dx
      BY <2>5, Combined
    <3>3. /\ ex * cos(plus(t, f)) + ey * sin(plus(t, f)) = -ey
          /\ ey * cos(plus(t, f)) - ex * sin(plus(t, f)) = ex
      BY <3>1, Combined
    <3> QED
      BY <2>1, <3>2, <3>3
  <2> QED
    BY <2>2, <2>3, <2>4, <2>5, Quarter
<1>3. CASE cos(f) = 0 /\ sin(f) = 1
  <2>1. ex = -dy /\ ey = dx
    BY <1>3
  <2>2. CASE cos(t) = 1 /\ sin(t) = 0
    <3>1. cos(plus(t, f)) = 0 /\ sin(plus(t, f)) = 1
      BY <1>1, <1>3, <2>2
    <3>2. /\ dx * cos(t) + dy * sin(t) = dx
          /\ dy * cos(t) - dx * sin(t) = dy
      BY <2>2, Combined
    <3>3. /\ ex * cos(plus(t, f)) + ey * sin(plus(t, f)) = ey
          /\ ey * cos(plus(t, f)) - ex * sin(plus(t, f)) = -ex
      BY <3>1, Combined
    <3> QED
      BY <2>1, <3>2, <3>3
  <2>3. CASE cos(t) = 0 /\ sin(t) = 1
    <3>1. cos(plus(t, f)) = -1 /\ sin(plus(t, f)) = 0
      BY <1>1, <1>3, <2>3
    <3>2. /\ dx * cos(t) + dy * sin(t) = dy
          /\ dy * cos(t) - dx * sin(t) = -dx
      BY <2>3, Combined
    <3>3. /\ ex * cos(plus(t, f)) + ey * sin(plus(t, f)) = -ex
          /\ ey * cos(plus(t, f)) - ex * sin(plus(t, f)) = -ey
      BY <3>1, Combined
    <3> QED
      BY <2>1, <3>2, <3>3
  <2>4. CASE cos(t) = -1 /\ sin(t) = 0
    <3>1. cos(plus(t, f)) = 0 /\ sin(plus(t, f)) = -1
      BY <1>1, <1>3, <2>4
    <3>2. /\ dx * cos(t) + dy * sin(t) = -dx
          /\ dy * cos(t) - dx * sin(t) = -dy
      BY <2>4, Combined
    <3>3. /\ ex * cos(plus(t, f)) + ey * sin(plus(t, f)) = -ey
          /\ ey * cos(plus(t, f)) - ex * sin(plus(t, f)) = ex
      BY <3>1, Combined
    <3> QED
      BY <2>1, <3>2, <3>3
  <2>5. CASE cos(t) = 0 /\ sin(t) = -1
    <3>1. cos(plus(t, f)) = 1 /\ sin(plus(t, f)) = 0
      BY <1>1, <1>3, <2>5
    <3>2. /\ dx * cos(t) + dy * sin(t) = -dy
          /\ dy * cos(t) - dx * sin(t) = dx
      BY <2>5, Combined
    <3>3. /\ ex * cos(plus(t, f)) + ey * sin(plus(t, f)) = ex
          /\ ey * cos(plus(t, f)) - ex * sin(plus(t, f)) = ey
      BY <3>1, Combined
    <3> QED
      BY <2>1, <3>2, <3>3
  <2> QED
    BY <2>2, <2>3, <2>4, <2>5, Quarter
<1>4. CASE cos(f) = -1 /\ sin(f) = 0
  <2>1. ex = -dx /\ ey = -dy
    BY <1>4
  <2>2. CASE cos(t) = 1 /\ sin(t) = 0
    <3>1. cos(plus(t, f)) = -1 /\ sin(plus(t, f)) = 0
      BY <1>1, <1>4, <2>2
    <3>2. /\ dx * cos(t) + dy * sin(t) = dx
          /\ dy * cos(t) - dx * sin(t) = dy
      BY <2>2, Combined
    <3>3. /\ ex * cos(plus(t, f)) + ey * sin(plus(t, f)) = -ex
          /\ ey * cos(plus(t, f)) - ex * sin(plus(t, f)) = -ey
      BY <3>1, Combined
    <3> QED
      BY <2>1, <3>2, <3>3
  <2>3. CASE cos(t) = 0 /\ sin(t) = 1
    <3>1. cos(plus(t, f)) = 0 /\ sin(plus(t, f)) = -1
      BY <1>1, <1>4, <2>3
    <3>2. /\ dx * cos(t) + dy * sin(t) = dy
          /\ dy * cos(t) - dx * sin(t) = -dx
      BY <2>3, Combined
    <3>3. /\ ex * cos(plus(t, f)) + ey * sin(plus(t, f)) = -ey
          /\ ey * cos(plus(t, f)) - ex * sin(plus(t, f)) = ex
      BY <3>1, Combined
    <3> QED
      BY <2>1, <3>2, <3>3
  <2>4. CASE cos(t) = -1 /\ sin(t) = 0
    <3>1. cos(plus(t, f)) = 1 /\ sin(plus(t, f)) = 0
      BY <1>1, <1>4, <2>4
    <3>2. /\ dx * cos(t) + dy * sin(t) = -dx
          /\ dy * cos(t) - dx * sin(t) = -dy
      BY <2>4, Combined
    <3>3. /\ ex * cos(plus(t, f)) + ey * sin(plus(t, f)) = ex
          /\ ey * cos(plus(t, f)) - ex * sin(plus(t, f)) = ey
      BY <3>1, Combined
    <3> QED
      BY <2>1, <3>2, <3>3
  <2>5. CASE cos(t) = 0 /\ sin(t) = -1
    <3>1. cos(plus(t, f)) = 0 /\ sin(plus(t, f)) = 1
      BY <1>1, <1>4, <2>5
    <3>2. /\ dx * cos(t) + dy * sin(t) = -dy
          /\ dy * cos(t) - dx * sin(t) = dx
      BY <2>5, Combined
    <3>3. /\ ex * cos(plus(t, f)) + ey * sin(plus(t, f)) = ey
          /\ ey * cos(plus(t, f)) - ex * sin(plus(t, f)) = -ex
      BY <3>1, Combined
    <3> QED
      BY <2>1, <3>2, <3>3
  <2> QED
    BY <2>2, <2>3, <2>4, <2>5, Quarter
<1>5. CASE cos(f) = 0 /\ sin(f) = -1
  <2>1. ex = dy /\ ey = -dx
    BY <1>5
  <2>2. CASE cos(t) = 1 /\ sin(t) = 0
    <3>1. cos(plus(t, f)) = 0 /\ sin(plus(t, f)) = -1
      BY <1>1, <1>5, <2>2
    <3>2. /\ dx * cos(t) + dy * sin(t) = dx
          /\ dy * cos(t) - dx * sin(t) = dy
      BY <2>2, Combined
    <3>3. /\ ex * cos(plus(t, f)) + ey * sin(plus(t, f)) = -ey
          /\ ey * cos(plus(t, f)) - ex * sin(plus(t, f)) = ex
      BY <3>1, Combined
    <3> QED
      BY <2>1, <3>2, <3>3
  <2>3. CASE cos(t) = 0 /\ sin(t) = 1
    <3>1. cos(plus(t, f)) = 1 /\ sin(plus(t, f)) = 0
      BY <1>1, <1>5, <2>3
    <3>2. /\ dx * cos(t) + dy * sin(t) = dy
          /\ dy * cos(t) - dx * sin(t) = -dx
      BY <2>3, Combined
    <3>3. /\ ex * cos(plus(t, f)) + ey * sin(plus(t, f)) = ex
          /\ ey * cos(plus(t, f)) - ex * sin(plus(t, f)) = ey
      BY <3>1, Combined
    <3> QED
      BY <2>1, <3>2, <3>3
  <2>4. CASE cos(t) = -1 /\ sin(t) = 0
    <3>1. cos(plus(t, f)) = 0 /\ sin(plus(t, f)) = 1
      BY <1>1, <1>5, <2>4
    <3>2. /\ dx * cos(t) + dy * sin(t) = -dx
          /\ dy * cos(t) - dx * sin(t) = -dy
      BY <2>4, Combined
    <3>3. /\ ex * cos(plus(t, f)) + ey * sin(plus(t, f)) = ey
          /\ ey * cos(plus(t, f)) - ex * sin(plus(t, f)) = -ex
      BY <3>1, Combined
    <3> QED
      BY <2>1, <3>2, <3>3
  <2>5. CASE cos(t) = 0 /\ sin(t) = -1
    <3>1. cos(plus(t, f)) = -1 /\ sin(plus(t, f)) = 0
      BY <1>1, <1>5, <2>5
    <3>2. /\ dx * cos(t) + dy * sin(t) = -dy
          /\ dy * cos(t) - dx * sin(t) = dx
      BY <2>5, Combined
    <3>3. /\ ex * cos(plus(t, f)) + ey * sin(plus(t, f)) = -ex
          /\ ey * cos(plus(t, f)) - ex * sin(plus(t, f)) = -ey
      BY <3>1, Combined
    <3> QED
      BY <2>1, <3>2, <3>3
  <2> QED
    BY <2>2, <2>3, <2>4, <2>5, Quarter
<1> QED
  BY <1>2, <1>3, <1>4, <1>5, Quarter

LEMMA SameView ==
  ASSUME NEW f \in Pose, NEW o \in Pose, NEW q \in Pose,
         NEW r, r.x = inv_trans_cs(f, q).x, r.y = inv_trans_cs(f, q).y
  PROVE  /\ dist(inv_trans_cs(f, o), r) = dist(o, q)
         /\ ahead(inv_trans_cs(f, o), r) = ahead(o, q)
         /\ r.theta = inv_trans_cs(f, q).theta =>
              /\ along(inv_trans_cs(f, o), r) = along(o, q)
              /\ off(inv_trans_cs(f, o), r) = off(o, q)
<1> DEFINE v  == inv_trans_cs(f, o)
           dx == o.x - q.x
           dy == o.y - q.y
           ex == v.x - r.x
           ey == v.y - r.y
<1>1. /\ f.theta \in Angles /\ o.theta \in Angles /\ q.theta \in Angles
      /\ o.x \in Int /\ o.y \in Int /\ q.x \in Int /\ q.y \in Int
  BY PoseParts
<1>2. v \in Pose /\ inv_trans_cs(f, q) \in Pose
  BY TransType
<1>3. v.x \in Int /\ v.y \in Int /\ r.x \in Int /\ r.y \in Int
  BY <1>2, PoseParts
<1>4. /\ ex = dx * cos(f.theta) - dy * sin(f.theta)
      /\ ey = dx * sin(f.theta) + dy * cos(f.theta)
  BY Apart
<1>5. v.theta = plus(o.theta, f.theta) /\ inv_trans_cs(f, q).theta = plus(q.theta, f.theta)
  BY DEF inv_trans_cs, pose
<1>6. dx \in Int /\ dy \in Int /\ ex \in Int /\ ey \in Int
  BY <1>1, <1>3
<1>7. dist(v, r) = ex * ex + ey * ey /\ dist(o, q) = dx * dx + dy * dy
  BY DEF dist
<1>8. /\ along(o, q) = dx * cos(q.theta) + dy * sin(q.theta)
      /\ off(o, q) = dy * cos(q.theta) - dx * sin(q.theta)
      /\ along(v, r) = ex * cos(r.theta) + ey * sin(r.theta)
      /\ off(v, r) = ey * cos(r.theta) - ex * sin(r.theta)
  BY DEF along, off
<1> HIDE DEF v, dx, dy, ex, ey
<1>10. \/ cos(f.theta) = 1 /\ sin(f.theta) = 0
       \/ cos(f.theta) = 0 /\ sin(f.theta) = 1
       \/ cos(f.theta) = -1 /\ sin(f.theta) = 0
       \/ cos(f.theta) = 0 /\ sin(f.theta) = -1
  BY <1>1, Quarter
<1>11. \/ cos(f.theta) = 1 /\ sin(f.theta) = 0 /\ ex = dx /\ ey = dy
       \/ cos(f.theta) = 0 /\ sin(f.theta) = 1 /\ ex = -dy /\ ey = dx
       \/ cos(f.theta) = -1 /\ sin(f.theta) = 0 /\ ex = -dx /\ ey = -dy
       \/ cos(f.theta) = 0 /\ sin(f.theta) = -1 /\ ex = dy /\ ey = -dx
  BY <1>4, <1>6, <1>10
<1>12. \A z \in Int, w \in Int : w = z \/ w = -z => w * w = z * z
  OBVIOUS
<1>13. dist(v, r) = dist(o, q)
  <2>1. CASE (ex = dx \/ ex = -dx) /\ (ey = dy \/ ey = -dy)
    <3>1. ex * ex = dx * dx /\ ey * ey = dy * dy
      BY <1>6, <1>12, <2>1
    <3> QED
      BY <1>7, <3>1
  <2>2. CASE (ex = dy \/ ex = -dy) /\ (ey = dx \/ ey = -dx)
    <3>1. ex * ex = dy * dy /\ ey * ey = dx * dx
      BY <1>6, <1>12, <2>2
    <3>2. dx * dx \in Int /\ dy * dy \in Int
      BY <1>6
    <3> QED
      BY <1>7, <3>1, <3>2
  <2> QED
    BY <1>11, <2>1, <2>2
<1>14. /\ r.x - v.x = (q.x - o.x) * cos(f.theta) - (q.y - o.y) * sin(f.theta)
       /\ r.y - v.y = (q.x - o.x) * sin(f.theta) + (q.y - o.y) * cos(f.theta)
  BY Apart DEF v
<1>15. ahead(v, r) = ahead(o, q)
  <2>1. q.x - o.x \in Int /\ q.y - o.y \in Int /\ r.x - v.x \in Int /\ r.y - v.y \in Int
    BY <1>1, <1>3
  <2>2. /\ (r.x - v.x) * cos(v.theta) + (r.y - v.y) * sin(v.theta)
             = (q.x - o.x) * cos(o.theta) + (q.y - o.y) * sin(o.theta)
        /\ (r.y - v.y) * cos(v.theta) - (r.x - v.x) * sin(v.theta)
             = (q.y - o.y) * cos(o.theta) - (q.x - o.x) * sin(o.theta)
    BY <1>1, <1>5, <1>14, <2>1, Rotated
  <2> QED
    BY <2>2 DEF ahead, along, off
<1>16. ASSUME r.theta = inv_trans_cs(f, q).theta
       PROVE  along(v, r) = along(o, q) /\ off(v, r) = off(o, q)
  <2>1. r.theta = plus(q.theta, f.theta)
    BY <1>5, <1>16
  <2> QED
    BY <1>1, <1>4, <1>6, <1>8, <2>1, Rotated
<1> QED
  BY <1>13, <1>15, <1>16 DEF v

\* The kinds of paths, and g_spur.
PathTypes ==
  /\ asked \in SUBSET [kind : {"line", "circle", "spin", "tilt"}, cs : CSs, p : Pose,
                       moved : SUBSET Pose]
  /\ g_spur \in [x : Int, y : Int, theta : Angles, dir : Angles]

\* How the global system sees another, but the robot's, whose poses clients may name.
OnGlobal(t, cs) ==
  CASE cs = "GL" -> Origin
    [] cs = "LC" -> t["LC"]
    [] cs = "BS" -> trans_cs(t["GL"], Origin)
    [] cs = "BL" -> trans_cs(t["GL"], t["BL"])

\* What is followed is what a names, in a system that the global one sees at f.
Followed(a, f) ==
  LET q == inv_trans_cs(f, a.p)
  IN  /\ a.kind = "line" => /\ g_run_mode = "LINEFOLLOW" /\ g_spur.theta = q.theta
                            /\ g_spur.x = q.x /\ g_spur.y = q.y
      /\ a.kind = "circle" => g_run_mode = "CIRCLEFOLLOW" /\ g_spur.x = q.x /\ g_spur.y = q.y
      /\ a.kind = "spin" => g_run_mode = "SPIN" /\ g_spur.theta = q.theta
      /\ a.kind = "tilt" => g_spur.dir = q.theta

\* That system has not moved or, if it is the robot's, the robot has moved away from
\* where it was by as much as is known.
Unmoved(a, f) ==
  IF a.cs = "FS" THEN \E m \in Pose : /\ a.moved = {m}
                                      /\ Adding(inv_trans_cs(tree["GL"], inv_trans_cs(f, m)))
                 ELSE f = OnGlobal(tree, a.cs)

PathInv == PathTypes /\ \A a \in asked : \E f \in Pose : Followed(a, f) /\ Unmoved(a, f)

LEMMA Around ==
  ASSUME NEW g \in Pose, NEW b \in Pose, NEW p \in Pose
  PROVE  /\ trans_cs(g, b) \in Pose
         /\ trans_cs(g, inv_trans_cs(b, p)) = inv_trans_cs(trans_cs(g, b), p)
<1>1. trans_cs(g, b) \in Pose /\ inv_trans_cs(trans_cs(g, b), p) \in Pose
  BY TransType
<1>2. inv_trans_cs(g, inv_trans_cs(trans_cs(g, b), p)) = inv_trans_cs(b, p)
  BY <1>1, Composed, StepsUndo
<1> QED
  BY <1>1, <1>2, StepsUndo

LEMMA FromOrigin ==
  ASSUME NEW p \in Pose
  PROVE  inv_trans_cs(Origin, p) = p
<1>1. p.x \in Int /\ p.y \in Int /\ p.theta \in Angles /\ p = pose(p.x, p.y, p.theta)
  BY PoseParts
<1>2. Origin.x = 0 /\ Origin.y = 0 /\ Origin.theta = 0 /\ plus(p.theta, 0) = p.theta
  BY <1>1 DEF Origin, pose, plus, Angles
<1>3. cos(0) = 1 /\ sin(0) = 0
  BY DEF cos, sin
<1> QED
  BY <1>1, <1>2, <1>3 DEF inv_trans_cs, pose

LEMMA OnGlobalSees ==
  ASSUME PoseTypes, NEW cs \in CSs \ {"FS"}, NEW p \in Pose
  PROVE  /\ OnGlobal(tree, cs) \in Pose
         /\ InGlobal(cs, p) = inv_trans_cs(OnGlobal(tree, cs), p)
<1>1. tree["GL"] \in Pose /\ tree["LC"] \in Pose /\ tree["BL"] \in Pose /\ Origin \in Pose
  BY OriginIsAPose DEF PoseTypes, CSs
<1>2. inv_trans_cs(Origin, p) = p
  BY FromOrigin
<1>3. CASE cs = "GL"
  BY <1>1, <1>2, <1>3, Ways DEF OnGlobal, InGlobal
<1>4. CASE cs = "LC"
  BY <1>1, <1>4, Ways DEF OnGlobal, InGlobal
<1>5. CASE cs = "BS"
  <2>1. trans_cs(tree["GL"], inv_trans_cs(Origin, p)) = inv_trans_cs(trans_cs(tree["GL"], Origin), p)
        /\ trans_cs(tree["GL"], Origin) \in Pose
    BY <1>1, Around
  <2> QED
    BY <1>2, <1>5, <2>1, Ways DEF OnGlobal, InGlobal
<1>6. CASE cs = "BL"
  <2>1. /\ trans_cs(tree["GL"], inv_trans_cs(tree["BL"], p))
             = inv_trans_cs(trans_cs(tree["GL"], tree["BL"]), p)
        /\ trans_cs(tree["GL"], tree["BL"]) \in Pose
    BY <1>1, Around
  <2> QED
    BY <1>6, <2>1, Ways DEF OnGlobal, InGlobal
<1> QED
  BY <1>3, <1>4, <1>5, <1>6 DEF CSs

\* Where the global system sees the robot is where it sees what cs sees.
LEMMA GlobalSees ==
  ASSUME PoseTypes, NEW cs \in CSs \ {"FS"}
  PROVE  Position(cs) \in Pose /\ gl_odometry = inv_trans_cs(OnGlobal(tree, cs), Position(cs))
<1>1. tree["GL"] \in Pose /\ tree["LC"] \in Pose /\ tree["BL"] \in Pose /\ odo \in Pose
  BY DEF PoseTypes, CSs
<1>2. gl_odometry = trans_cs(tree["GL"], odo) /\ gl_odometry \in Pose
  BY <1>1, Ways, TransType DEF gl_odometry, Position
<1>3. CASE cs = "GL"
  BY <1>2, <1>3, FromOrigin DEF gl_odometry, OnGlobal
<1>4. CASE cs = "LC"
  <2>1. Position("LC") = trans_cs(tree["LC"], gl_odometry)
    BY <1>2, Ways DEF Position
  <2>2. Position("LC") \in Pose
    BY <1>1, <1>2, <2>1, TransType
  <2> QED
    BY <1>1, <1>2, <1>4, <2>1, <2>2, StepsUndo DEF OnGlobal
<1>5. CASE cs = "BS"
  <2>1. Position("BS") = odo
    BY Ways DEF Position
  <2>2. trans_cs(tree["GL"], inv_trans_cs(Origin, odo))
          = inv_trans_cs(trans_cs(tree["GL"], Origin), odo)
    BY <1>1, Around, OriginIsAPose
  <2> QED
    BY <1>1, <1>2, <1>5, <2>1, <2>2, FromOrigin DEF OnGlobal
<1>6. CASE cs = "BL"
  <2>1. Position("BL") = trans_cs(tree["BL"], odo)
    BY Ways DEF Position
  <2>2. Position("BL") \in Pose /\ inv_trans_cs(tree["BL"], Position("BL")) = odo
    <3>1. trans_cs(tree["BL"], odo) \in Pose
      BY <1>1, TransType
    <3>2. inv_trans_cs(tree["BL"], trans_cs(tree["BL"], odo)) = odo
      BY <1>1, StepsUndo
    <3> QED
      BY <2>1, <3>1, <3>2
  <2>3. trans_cs(tree["GL"], inv_trans_cs(tree["BL"], Position("BL")))
          = inv_trans_cs(trans_cs(tree["GL"], tree["BL"]), Position("BL"))
    BY <1>1, <2>2, Around
  <2> QED
    BY <1>2, <1>6, <2>2, <2>3 DEF OnGlobal
<1> QED
  BY <1>3, <1>4, <1>5, <1>6 DEF CSs

LEMMA PathImplies == PoseInv /\ PathInv => PathKept
<1> SUFFICES ASSUME PoseInv, PathInv, AtRest, NEW a \in asked
             PROVE  FollowsWhatWasNamed(a) /\ QuestionsAgree(a)
  BY DEF PathKept
<1>1. PICK f \in Pose : Followed(a, f) /\ Unmoved(a, f)
  BY DEF PathInv
<1>2. /\ PoseTypes /\ a.kind \in {"line", "circle", "spin", "tilt"} /\ a.cs \in CSs /\ a.p \in Pose
  BY DEF PoseInv, PathInv, PathTypes
<1>3. Robot(a) \in Pose /\ gl_odometry = inv_trans_cs(f, Robot(a))
  <2>1. CASE a.cs # "FS"
    BY <1>1, <1>2, <2>1, GlobalSees DEF Unmoved, Robot
  <2>2. CASE a.cs = "FS"
    <3>1. PICK m \in Pose : /\ a.moved = {m}
                            /\ Adding(inv_trans_cs(tree["GL"], inv_trans_cs(f, m)))
      BY <1>1, <2>2 DEF Unmoved
    <3>2. pc \in {"read", "publish", "control", "load x"}
      BY DEF AtRest
    <3>3. \A b : Adding(b) <=> odo = b
      BY <3>2, AddingAtRest DEF Adding
    <3>4. odo = inv_trans_cs(tree["GL"], inv_trans_cs(f, m))
      BY <3>1, <3>3
    <3>5. inv_trans_cs(f, m) \in Pose /\ tree["GL"] \in Pose
      BY <1>2, TransType DEF PoseTypes, CSs
    <3>6. gl_odometry = inv_trans_cs(f, m)
      BY <3>4, <3>5, StepsUndo, Ways DEF gl_odometry, Position
    <3>7. Robot(a) = m
      BY <2>2, <3>1 DEF Robot
    <3> QED
      BY <3>6, <3>7
  <2> QED
    BY <2>1, <2>2
<1>4. /\ Target.x = g_spur.x /\ Target.y = g_spur.y /\ Target.theta = g_spur.theta
  BY DEF Target, pose
<1>5. /\ gl_odometry.theta = plus(Robot(a).theta, f.theta)
      /\ inv_trans_cs(f, a.p).theta = plus(a.p.theta, f.theta)
      /\ f.theta \in Angles /\ a.p.theta \in Angles /\ Robot(a).theta \in Angles
  BY <1>2, <1>3, PoseParts DEF inv_trans_cs, pose
<1>6. a.cs # "FS" => Answered(a.cs) = Robot(a)
  BY DEF Answered, Robot
<1>7. CASE a.kind = "line"
  <2>1. /\ g_run_mode = "LINEFOLLOW" /\ Target.theta = inv_trans_cs(f, a.p).theta
        /\ Target.x = inv_trans_cs(f, a.p).x /\ Target.y = inv_trans_cs(f, a.p).y
    BY <1>1, <1>4, <1>7 DEF Followed
  <2>2. /\ along(gl_odometry, Target) = along(Robot(a), a.p)
        /\ off(gl_odometry, Target) = off(Robot(a), a.p)
    BY <1>2, <1>3, <2>1, SameView
  <2>3. minus(gl_odometry.theta, Target.theta) = minus(Robot(a).theta, a.p.theta)
    BY <1>5, <2>1, SameAngle
  <2>4. run_control = line_follow(gl_odometry, Target)
    BY <2>1 DEF run_control
  <2>5. run_control = line_follow(Robot(a), a.p)
    BY <2>2, <2>3, <2>4 DEF line_follow
  <2>6. /\ run_control[3] = along(Robot(a), a.p)
        /\ run_control[2] = minus(Robot(a).theta, a.p.theta)
    BY <2>5 DEF line_follow
  <2> QED
    BY <1>6, <1>7, <2>5, <2>6 DEF FollowsWhatWasNamed, QuestionsAgree, over_line_com, near_ang_com
<1>8. CASE a.kind = "circle"
  <2>1. /\ g_run_mode = "CIRCLEFOLLOW"
        /\ Target.x = inv_trans_cs(f, a.p).x /\ Target.y = inv_trans_cs(f, a.p).y
    BY <1>1, <1>4, <1>8 DEF Followed
  <2>2. /\ dist(gl_odometry, Target) = dist(Robot(a), a.p)
        /\ ahead(gl_odometry, Target) = ahead(Robot(a), a.p)
    BY <1>2, <1>3, <2>1, SameView
  <2>3. run_control = circle_follow(gl_odometry, Target)
    BY <2>1 DEF run_control
  <2>4. run_control = circle_follow(Robot(a), a.p)
    BY <2>2, <2>3 DEF circle_follow
  <2>5. run_control[1] = dist(Robot(a), a.p)
    BY <2>4 DEF circle_follow
  <2> QED
    BY <1>6, <1>8, <2>4, <2>5 DEF FollowsWhatWasNamed, QuestionsAgree, near_pos_com
<1>9. CASE a.kind = "spin"
  <2>1. g_run_mode = "SPIN" /\ Target.theta = inv_trans_cs(f, a.p).theta
    BY <1>1, <1>4, <1>9 DEF Followed
  <2>2. run_control = spin(gl_odometry, Target)
    BY <2>1 DEF run_control
  <2>3. run_control = spin(Robot(a), a.p)
    BY <1>5, <2>1, <2>2, SameAngle DEF spin
  <2> QED
    BY <1>9, <2>3 DEF FollowsWhatWasNamed, QuestionsAgree
<1>10. CASE a.kind = "tilt"
  <2>1. g_spur.dir = inv_trans_cs(f, a.p).theta
    BY <1>1, <1>10 DEF Followed
  <2>2. gravity_compensation(gl_odometry, g_spur.dir) = gravity_compensation(Robot(a), a.p.theta)
    BY <1>5, <2>1, SameAngle DEF gravity_compensation
  <2> QED
    BY <1>10, <2>2 DEF FollowsWhatWasNamed, QuestionsAgree
<1> QED
  BY <1>2, <1>7, <1>8, <1>9, <1>10

\* The four places of g_spur that the commands set.
LEMMA SpurSet ==
  ASSUME NEW g \in [x : Int, y : Int, theta : Angles, dir : Angles],
         NEW x \in Int, NEW y \in Int, NEW theta \in Angles
  PROVE  /\ LET s == [g EXCEPT !.x = x, !.y = y, !.theta = theta]
            IN  /\ s \in [x : Int, y : Int, theta : Angles, dir : Angles]
                /\ s.x = x /\ s.y = y /\ s.theta = theta /\ s.dir = g.dir
         /\ LET s == [g EXCEPT !.x = x, !.y = y]
            IN  /\ s \in [x : Int, y : Int, theta : Angles, dir : Angles]
                /\ s.x = x /\ s.y = y /\ s.theta = g.theta /\ s.dir = g.dir
         /\ LET s == [g EXCEPT !.theta = theta]
            IN  /\ s \in [x : Int, y : Int, theta : Angles, dir : Angles]
                /\ s.x = g.x /\ s.y = g.y /\ s.theta = theta /\ s.dir = g.dir
         /\ LET s == [g EXCEPT !.dir = theta]
            IN  /\ s \in [x : Int, y : Int, theta : Angles, dir : Angles]
                /\ s.x = g.x /\ s.y = g.y /\ s.theta = g.theta /\ s.dir = theta
OBVIOUS

\* What a command makes of a pose seen from cs, in the system that cs is at that time.
LEMMA NamedNow ==
  ASSUME PoseInv, NEW cs \in CSs, Known(cs)
  PROVE  \E f \in Pose :
           /\ \A p \in Pose : InGlobal(cs, p) = inv_trans_cs(f, p)
           /\ \A a : a.cs = cs /\ a.moved = {Origin} => Unmoved(a, f)
<1>1. PoseTypes /\ AddingInv /\ Origin \in Pose
  BY OriginIsAPose DEF PoseInv
<1>2. CASE cs # "FS"
  <2>1. OnGlobal(tree, cs) \in Pose
        /\ \A p \in Pose : InGlobal(cs, p) = inv_trans_cs(OnGlobal(tree, cs), p)
    BY <1>1, <1>2, OnGlobalSees
  <2> QED
    BY <1>2, <2>1 DEF Unmoved
<1>3. CASE cs = "FS"
  <2> DEFINE f == trans_cs(tree["GL"], tree["FS"])
  <2>1. tree["GL"] \in Pose /\ tree["FS"] \in Pose
    BY <1>1 DEF PoseTypes, CSs
  <2>2. f \in Pose /\ \A p \in Pose : InGlobal(cs, p) = inv_trans_cs(f, p)
    BY <1>3, <2>1, Around, Ways DEF InGlobal
  <2>3. inv_trans_cs(tree["GL"], inv_trans_cs(f, Origin)) = tree["FS"]
    BY <2>1, <2>2, BaseTurned, StepsUndo
  <2>4. Adding(tree["FS"])
    BY <1>1, <1>3 DEF Known, AddingInv
  <2>5. \A a : a.cs = cs /\ a.moved = {Origin} => Unmoved(a, f)
    BY <1>1, <1>3, <2>3, <2>4 DEF Unmoved
  <2> QED
    BY <2>2, <2>5
<1> QED
  BY <1>2, <1>3

\* The parts of a pose do not depend on each other.
LEMMA Parted ==
  ASSUME NEW f \in Pose, NEW p \in Pose
  PROVE  /\ inv_trans_cs(f, pose(p.x, p.y, 0)).x = inv_trans_cs(f, p).x
         /\ inv_trans_cs(f, pose(p.x, p.y, 0)).y = inv_trans_cs(f, p).y
         /\ inv_trans_cs(f, pose(0, 0, p.theta)).theta = inv_trans_cs(f, p).theta
         /\ pose(p.x, p.y, 0) \in Pose /\ pose(0, 0, p.theta) \in Pose
<1>1. p.x \in Int /\ p.y \in Int /\ p.theta \in Angles /\ 0 \in Int /\ 0 \in Angles
  BY PoseParts DEF Angles
<1>2. pose(p.x, p.y, 0) \in Pose /\ pose(0, 0, p.theta) \in Pose
  BY <1>1 DEF pose, Pose
<1> QED
  BY <1>2 DEF inv_trans_cs, pose

LEMMA FollowPath == PoseInv /\ PathInv /\ Follow => PathInv'
<1> SUFFICES ASSUME PoseInv, PathInv, NEW cs \in CSs, NEW p \in Paths,
                    line_com(cs, p) \/ circle_com(cs, p) \/ spin_com(cs, p) \/ set_tilt_com(cs, p)
             PROVE  PathInv'
  BY DEF Follow
<1>1. p \in Pose /\ PathTypes
  BY PathAssumption DEF PathInv
<1>2. UNCHANGED <<odo, tree, pc, move, new>>
  BY FollowKeeps DEF Follow
<1>3. \A a, f : Unmoved(a, f) <=> Unmoved(a, f)'
  BY <1>2 DEF Unmoved, Adding
<1> DEFINE now(kind) == [kind |-> kind, cs |-> cs, p |-> p, moved |-> {Origin}]
\* What is kept of the paths named before, and what is named now.
<1>4. ASSUME NEW kind \in {"line", "circle", "spin", "tilt"}, Names(kind, cs, p),
             NEW a \in asked'
      PROVE  \/ a \in asked /\ (a.kind = "tilt" <=> kind # "tilt")
             \/ a = now(kind) /\ Known(cs)
  BY <1>1, <1>4 DEF Names, PathTypes
<1>5. ASSUME NEW kind \in {"line", "circle", "spin", "tilt"}, Names(kind, cs, p)
      PROVE  asked' \in SUBSET [kind : {"line", "circle", "spin", "tilt"}, cs : CSs, p : Pose,
                                moved : SUBSET Pose]
  <2>1. now(kind) \in [kind : {"line", "circle", "spin", "tilt"}, cs : CSs, p : Pose,
                       moved : SUBSET Pose]
    BY <1>1, OriginIsAPose
  <2> QED
    BY <1>1, <1>4, <1>5, <2>1 DEF PathTypes
\* It is enough that the command does with g_spur what its kind says.
<1>6. ASSUME NEW kind \in {"line", "circle", "spin", "tilt"}, Names(kind, cs, p),
             g_spur' \in [x : Int, y : Int, theta : Angles, dir : Angles],
             kind # "tilt" => g_spur'.dir = g_spur.dir,
             kind = "tilt" => /\ g_spur'.x = g_spur.x /\ g_spur'.y = g_spur.y
                              /\ g_spur'.theta = g_spur.theta /\ g_run_mode' = g_run_mode,
             \A f \in Pose : (\A q \in Pose : InGlobal(cs, q) = inv_trans_cs(f, q))
                               => Followed(now(kind), f)'
      PROVE  PathInv'
  <2>1. PathTypes'
    BY <1>5, <1>6 DEF PathTypes
  <2>2. ASSUME NEW a \in asked' PROVE \E f \in Pose : Followed(a, f)' /\ Unmoved(a, f)'
    <3>1. CASE a \in asked /\ (a.kind = "tilt" <=> kind # "tilt")
      <4>1. PICK f \in Pose : Followed(a, f) /\ Unmoved(a, f)
        BY <3>1 DEF PathInv
      <4>2. Followed(a, f)'
        BY <1>6, <3>1, <4>1 DEF Followed
      <4> QED
        BY <1>3, <4>1, <4>2
    <3>2. CASE a = now(kind) /\ Known(cs)
      <4>1. PICK f \in Pose :
               /\ \A q \in Pose : InGlobal(cs, q) = inv_trans_cs(f, q)
               /\ \A b : b.cs = cs /\ b.moved = {Origin} => Unmoved(b, f)
        BY <3>2, NamedNow
      <4>2. a.cs = cs /\ a.moved = {Origin}
        BY <3>2
      <4>3. Followed(a, f)'
        BY <1>6, <3>2, <4>1
      <4> QED
        BY <1>3, <4>1, <4>2, <4>3
    <3> QED
      BY <1>4, <1>6, <3>1, <3>2
  <2> QED
    BY <2>1, <2>2 DEF PathInv
<1>7. \A q \in Pose : InGlobal(cs, q) \in Pose
  BY WaysType DEF PoseInv, InGlobal
<1>8. g_spur \in [x : Int, y : Int, theta : Angles, dir : Angles]
  BY <1>1 DEF PathTypes
<1>9. CASE line_com(cs, p)
  <2> DEFINE q == InGlobal(cs, p)
  <2>1. q.x \in Int /\ q.y \in Int /\ q.theta \in Angles
    BY <1>1, <1>7, PoseParts
  <2>2. /\ g_spur' \in [x : Int, y : Int, theta : Angles, dir : Angles]
        /\ g_spur'.x = q.x /\ g_spur'.y = q.y /\ g_spur'.theta = q.theta /\ g_spur'.dir = g_spur.dir
    BY <1>8, <1>9, <2>1, SpurSet DEF line_com
  <2>3. Names("line", cs, p) /\ g_run_mode' = "LINEFOLLOW"
    BY <1>9 DEF line_com, Only
  <2>4. ASSUME NEW f \in Pose, \A r \in Pose : InGlobal(cs, r) = inv_trans_cs(f, r)
        PROVE  Followed(now("line"), f)'
    BY <1>1, <2>2, <2>3, <2>4 DEF Followed
  <2>5. g_spur' \in [x : Int, y : Int, theta : Angles, dir : Angles] /\ g_spur'.dir = g_spur.dir
    BY <1>8, <2>1, <2>2
  <2> HIDE DEF now, q
  <2> QED
    BY <1>6, <2>3, <2>4, <2>5
<1>10. CASE circle_com(cs, p)
  <2> DEFINE q == InGlobal(cs, pose(p.x, p.y, 0))
  <2>0. pose(p.x, p.y, 0) \in Pose
    BY <1>1, Parted
  <2>1. q.x \in Int /\ q.y \in Int
    BY <1>7, <2>0, PoseParts
  <2>2. /\ g_spur' \in [x : Int, y : Int, theta : Angles, dir : Angles]
        /\ g_spur'.x = q.x /\ g_spur'.y = q.y /\ g_spur'.theta = g_spur.theta /\ g_spur'.dir = g_spur.dir
    BY <1>8, <1>10, <2>1, SpurSet DEF circle_com
  <2>3. Names("circle", cs, p) /\ g_run_mode' = "CIRCLEFOLLOW"
    BY <1>10 DEF circle_com, Only
  <2>4. ASSUME NEW f \in Pose, \A r \in Pose : InGlobal(cs, r) = inv_trans_cs(f, r)
        PROVE  Followed(now("circle"), f)'
    <3>0. q = inv_trans_cs(f, pose(p.x, p.y, 0))
      BY <2>0, <2>4
    <3>1. /\ inv_trans_cs(f, pose(p.x, p.y, 0)).x = inv_trans_cs(f, p).x
          /\ inv_trans_cs(f, pose(p.x, p.y, 0)).y = inv_trans_cs(f, p).y
      BY <1>1, Parted
    <3>2. q.x = inv_trans_cs(f, p).x /\ q.y = inv_trans_cs(f, p).y
      BY <3>0, <3>1
    <3> QED
      BY <2>2, <2>3, <3>2 DEF Followed
  <2>5. g_spur' \in [x : Int, y : Int, theta : Angles, dir : Angles] /\ g_spur'.dir = g_spur.dir
    BY <1>8, <2>1, <2>2
  <2> HIDE DEF now, q
  <2> QED
    BY <1>6, <2>3, <2>4, <2>5
<1>11. CASE spin_com(cs, p)
  <2> DEFINE q == InGlobal(cs, pose(0, 0, p.theta))
  <2>0. pose(0, 0, p.theta) \in Pose
    BY <1>1, Parted
  <2>1. q.theta \in Angles
    BY <1>7, <2>0, PoseParts
  <2>2. /\ g_spur' \in [x : Int, y : Int, theta : Angles, dir : Angles]
        /\ g_spur'.x = g_spur.x /\ g_spur'.y = g_spur.y /\ g_spur'.theta = q.theta /\ g_spur'.dir = g_spur.dir
    BY <1>8, <1>11, <2>1, SpurSet DEF spin_com
  <2>3. Names("spin", cs, p) /\ g_run_mode' = "SPIN"
    BY <1>11 DEF spin_com, Only
  <2>4. ASSUME NEW f \in Pose, \A r \in Pose : InGlobal(cs, r) = inv_trans_cs(f, r)
        PROVE  Followed(now("spin"), f)'
    <3>0. q = inv_trans_cs(f, pose(0, 0, p.theta))
      BY <2>0, <2>4
    <3>1. q.theta = inv_trans_cs(f, p).theta
      BY <1>1, <3>0, Parted, ZenonT(60)
    <3> QED
      BY <2>2, <2>3, <3>1 DEF Followed
  <2>5. g_spur' \in [x : Int, y : Int, theta : Angles, dir : Angles] /\ g_spur'.dir = g_spur.dir
    BY <1>8, <2>1, <2>2
  <2> HIDE DEF now, q
  <2> QED
    BY <1>6, <2>3, <2>4, <2>5
<1>12. CASE set_tilt_com(cs, p)
  <2> DEFINE q == InGlobal(cs, pose(0, 0, p.theta))
  <2>0. pose(0, 0, p.theta) \in Pose
    BY <1>1, Parted
  <2>1. q.theta \in Angles
    BY <1>7, <2>0, PoseParts
  <2>2. /\ g_spur' \in [x : Int, y : Int, theta : Angles, dir : Angles]
        /\ g_spur'.x = g_spur.x /\ g_spur'.y = g_spur.y /\ g_spur'.theta = g_spur.theta /\ g_spur'.dir = q.theta
    BY <1>8, <1>12, <2>1, SpurSet DEF set_tilt_com
  <2>3. Names("tilt", cs, p) /\ g_run_mode' = g_run_mode
    BY <1>12 DEF set_tilt_com, Only
  <2>4. ASSUME NEW f \in Pose, \A r \in Pose : InGlobal(cs, r) = inv_trans_cs(f, r)
        PROVE  Followed(now("tilt"), f)'
    <3>0. q = inv_trans_cs(f, pose(0, 0, p.theta))
      BY <2>0, <2>4
    <3>1. q.theta = inv_trans_cs(f, p).theta
      BY <1>1, <3>0, Parted, ZenonT(60)
    <3> QED
      BY <2>2, <3>1 DEF Followed
  <2>5. /\ g_spur' \in [x : Int, y : Int, theta : Angles, dir : Angles]
        /\ g_spur'.x = g_spur.x /\ g_spur'.y = g_spur.y /\ g_spur'.theta = g_spur.theta
    BY <1>8, <2>1, <2>2
  <2> HIDE DEF now, q
  <2> QED
    BY <1>6, <2>3, <2>4, <2>5
<1> QED
  BY <1>9, <1>10, <1>11, <1>12

\* What odometry() adds up to goes on from step to step, but where it starts anew.
LEMMA AddingNext ==
  ASSUME PoseInv, Next, stale' # "reset", NEW b \in Pose, Adding(b)
  PROVE  AddingAt(pc', odo', move', new',
                  IF pc = "FS theta" /\ pc' = "publish" THEN inv_trans_cs(b, move) ELSE b)
<1>1. PoseTypes /\ FrameInv
  BY DEF PoseInv
<1>2. ASSUME UNCHANGED <<pc, odo, move, new>>
      PROVE  AddingAt(pc', odo', move', new',
                      IF pc = "FS theta" /\ pc' = "publish" THEN inv_trans_cs(b, move) ELSE b)
  <2>1. pc = "FS theta" => pc' # "publish"
    BY <1>2
  <2> QED
    BY <1>2, <2>1 DEF Adding
<1>3. ASSUME pc \in {"read", "publish", "control"},
             pc' \in {"read", "publish", "control", "load x"}, odo' = odo
      PROVE  AddingAt(pc', odo', move', new',
                      IF pc = "FS theta" /\ pc' = "publish" THEN inv_trans_cs(b, move) ELSE b)
  <2>1. pc \in {"read", "publish", "control", "load x"} /\ pc # "FS theta"
    BY <1>3
  <2>2. odo = b
    BY <2>1, AddingAtRest DEF Adding
  <2>3. AddingAt(pc', odo', move', new', b)
    BY <1>3, <2>2, AddingAtRest
  <2> QED
    BY <2>1, <2>3
<1>4. CASE Odometry /\ ~StoreFStheta
  <2>1. AddingAt(pc', odo', move', new', b)
    BY <1>1, <1>4, AddingStep DEF Adding
  <2>2. pc' # "publish"
    BY <1>4 DEF Odometry, LoadX, LoadY, LoadTheta, Load, StoreX, StoreY, StoreTheta, Store,
                LoadFS, StoreFSx, StoreFSy, StoreFS, Goto
  <2> QED
    BY <2>1, <2>2
<1>5. CASE StoreFStheta
  <2>1. pc = "FS theta" /\ pc' = "publish" /\ UNCHANGED <<odo, move, new>>
    BY <1>5 DEF StoreFStheta, StoreFS, Goto
  <2>2. odo = inv_trans_cs(b, move)
    BY <2>1 DEF Adding, AddingAt, Storing
  <2>3. AddingAt(pc', odo', move', new', inv_trans_cs(b, move))
    BY <2>1, <2>2, AddingAtRest
  <2> QED
    BY <2>1, <2>3
<1>6. CASE \/ \E m \in Moves : Packet(m)
           \/ PartOfPacket \/ NoSync \/ Publish \/ Sync
  BY <1>3, <1>6 DEF Packet, PartOfPacket, NoSync, Publish, Sync, Goto
<1>7. CASE Localizer \/ Clients
  <2>1. ~EnableBody
    BY DEF EnableBody
  <2>2. UNCHANGED <<pc, odo, move, new>>
    BY <1>7, <2>1 DEF Localizer, Clients, Localize, Expire, SetPos, SetGLonGL, Adjust, DisableBody,
                      main
  <2> QED
    BY <1>2, <2>2
<1> QED
  BY <1>4, <1>5, <1>6, <1>7 DEF Next, Main

\* A path that is not dropped stays where it is, and the robot moves on it by what a
\* packet says.
LEMMA OthersPath == PoseInv /\ PathInv /\ Others => PathInv'
<1> SUFFICES ASSUME PoseInv, PathInv, Others PROVE PathInv'
  OBVIOUS
<1>1. /\ Next /\ UNCHANGED <<g_spur, g_run_mode>>
      /\ asked' = {[a EXCEPT !.moved = Since(a)] : a \in {b \in asked : ~Moved(b.cs)}}
  BY DEF Others
<1>2. PathTypes /\ PoseTypes /\ PoseTypes'
  BY <1>1, PoseTypesStep DEF PathInv, PoseInv
<1>3. ASSUME NEW a \in asked
      PROVE  /\ a \in [kind : {"line", "circle", "spin", "tilt"}, cs : CSs, p : Pose,
                       moved : SUBSET Pose]
             /\ Since(a) \in SUBSET Pose
  <2>1. a \in [kind : {"line", "circle", "spin", "tilt"}, cs : CSs, p : Pose,
               moved : SUBSET Pose]
    BY <1>2 DEF PathTypes
  <2>2. a.moved \in SUBSET Pose
    BY <2>1
  <2>3. After(a.moved, move) \in SUBSET Pose
    BY <1>2, <2>2, AfterType DEF PoseTypes
  <2> QED
    BY <2>1, <2>2, <2>3 DEF Since
<1>4. ASSUME NEW c \in asked'
      PROVE  \E a \in asked : /\ ~Moved(a.cs)
                              /\ c.kind = a.kind /\ c.cs = a.cs /\ c.p = a.p /\ c.moved = Since(a)
                              /\ c \in [kind : {"line", "circle", "spin", "tilt"}, cs : CSs,
                                        p : Pose, moved : SUBSET Pose]
  <2>1. PICK a \in asked : ~Moved(a.cs) /\ c = [a EXCEPT !.moved = Since(a)]
    BY <1>1
  <2>2. /\ c.kind = a.kind /\ c.cs = a.cs /\ c.p = a.p /\ c.moved = Since(a)
        /\ c \in [kind : {"line", "circle", "spin", "tilt"}, cs : CSs,
                  p : Pose, moved : SUBSET Pose]
    BY <1>3, <2>1
  <2> QED
    BY <2>1, <2>2
<1>5. PathTypes'
  BY <1>1, <1>2, <1>4 DEF PathTypes
<1>6. ASSUME NEW c \in asked' PROVE \E f \in Pose : Followed(c, f)' /\ Unmoved(c, f)'
  <2>1. PICK a \in asked : /\ ~Moved(a.cs)
                           /\ c.kind = a.kind /\ c.cs = a.cs /\ c.p = a.p /\ c.moved = Since(a)
    BY <1>4, <1>6
  <2>2. a.cs \in CSs
    BY <1>3
  <2>3. PICK f \in Pose : Followed(a, f) /\ Unmoved(a, f)
    BY DEF PathInv
  <2>4. Followed(c, f)'
    BY <1>1, <2>1, <2>3 DEF Followed
  <2>5. CASE a.cs # "FS"
    <3>1. f = OnGlobal(tree, a.cs)
      BY <2>3, <2>5 DEF Unmoved
    <3>2. OnGlobal(tree', a.cs) = OnGlobal(tree, a.cs)
      BY <2>1, <2>2, <2>5 DEF OnGlobal, Moved, CSs
    <3>3. f = OnGlobal(tree', c.cs) /\ c.cs # "FS"
      BY <2>1, <2>5, <3>1, <3>2
    <3> QED
      BY <2>4, <3>3 DEF Unmoved
  <2>6. CASE a.cs = "FS"
    <3>1. stale' # "reset" /\ tree'["GL"] = tree["GL"]
      BY <2>1, <2>6 DEF Moved
    <3>2. PICK m \in Pose : /\ a.moved = {m}
                            /\ Adding(inv_trans_cs(tree["GL"], inv_trans_cs(f, m)))
      BY <2>3, <2>6 DEF Unmoved
    <3> DEFINE b == inv_trans_cs(tree["GL"], inv_trans_cs(f, m))
    <3>3. tree["GL"] \in Pose /\ move \in Pose
      BY <1>2 DEF PoseTypes, CSs
    <3>4. inv_trans_cs(f, m) \in Pose /\ b \in Pose
      BY <3>3, TransType
    <3>5. AddingAt(pc', odo', move', new',
                   IF pc = "FS theta" /\ pc' = "publish" THEN inv_trans_cs(b, move) ELSE b)
      BY <1>1, <3>1, <3>2, <3>4, AddingNext
    <3>6. \E n \in Pose : /\ c.moved = {n}
                          /\ AddingAt(pc', odo', move', new',
                                      inv_trans_cs(tree'["GL"], inv_trans_cs(f, n)))
      <4>1. CASE pc = "FS theta" /\ pc' = "publish"
        <5> DEFINE n == inv_trans_cs(m, move)
        <5>1. n \in Pose
          BY <3>3, TransType
        <5>2. c.moved = {n}
          BY <2>1, <3>2, <4>1 DEF Since, After
        <5>3. inv_trans_cs(f, n) = inv_trans_cs(inv_trans_cs(f, m), move)
          BY <3>3, Composed
        <5>4. inv_trans_cs(tree["GL"], inv_trans_cs(inv_trans_cs(f, m), move))
                = inv_trans_cs(b, move)
          BY <3>3, <3>4, Composed
        <5>5. inv_trans_cs(tree'["GL"], inv_trans_cs(f, n)) = inv_trans_cs(b, move)
          BY <3>1, <5>3, <5>4
        <5> HIDE DEF n, b
        <5> QED
          BY <3>5, <4>1, <5>1, <5>2, <5>5
      <4>2. CASE ~(pc = "FS theta" /\ pc' = "publish")
        <5>1. c.moved = {m}
          BY <2>1, <3>2, <4>2 DEF Since
        <5>2. AddingAt(pc', odo', move', new', b)
          BY <3>5, <4>2
        <5> QED
          BY <3>1, <5>1, <5>2
      <4> QED
        BY <4>1, <4>2
    <3>7. Unmoved(c, f)'
      BY <2>1, <2>6, <3>6 DEF Unmoved, Adding
    <3> QED
      BY <2>4, <3>7
  <2> QED
    BY <2>5, <2>6
<1> QED
  BY <1>5, <1>6 DEF PathInv

\* A path that a client named is what the robot follows and what the questions are
\* about, for every set of motions, poses and paths: whatever system it was named in
\* and whatever packets, corrections and commands come after it, until that system
\* is moved against the global one.
THEOREM PathIsKept == PathSpec => []PathKept
<1>1. PathInit => PoseInv /\ PathInv
  <2>1. PathInit => PathInv
    BY DEF PathInit, PathInv, PathTypes, Angles
  <2> QED
    BY <2>1, PoseInit DEF PathInit
<1>2. PoseInv /\ PathInv /\ [PathNext]_allVars => PathInv'
  <2>1. PathInv /\ UNCHANGED allVars => PathInv'
    BY DEF PathInv, PathTypes, Followed, Unmoved, Adding, allVars, vars, main, pathVars
  <2> QED
    BY <2>1, FollowPath, OthersPath DEF PathNext
<1>3. PoseInv /\ PathInv => PathKept
  BY PathImplies
<1> QED
  BY <1>1, <1>2, <1>3, PoseInvPaths, PTL DEF PathSpec
=============================================================================
