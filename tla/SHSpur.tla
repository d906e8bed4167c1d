------------------------------- MODULE SHSpur -------------------------------
(***************************************************************************)
(* sh_spur on the PC: a main thread that reads packets of the motor        *)
(* controller and then controls the motors, and a command thread that      *)
(* serves the clients through a message queue.  They share the mode of     *)
(* running and the line to the motor controller, under one mutex; only the *)
(* start-up of the main thread does not take it.                           *)
(*                                                                         *)
(* Poses, turning, the tracking of lines and gains are left out (see       *)
(* SHSpurPose): a set point is a speed, the same one for both wheels. Of   *)
(* the motor controller (see SHVel) there is what the PC can tell: the     *)
(* servo level, its packets and its watchdog. The unit of time is the      *)
(* period of the packets, and the PC is quick: time passes when its        *)
(* threads have nothing to do.                                             *)
(***************************************************************************)
EXTENDS Integers, SequencesExt

CONSTANTS
  Clients,
  Commands,     \* what clients send, see below
  Top,          \* the speed that clients ask for
  MAX_VEL,      \* the greatest speed of robot_speed_smooth
  MAX_ACC_V,    \* what the speed may change by in a control cycle
  Cycle,        \* periods between two control cycles: 20 ms
  WatchDog,     \* periods until the watchdog of the motor controller bites
  QueueMax,     \* messages the queue can hold
  MaxCommands   \* bound: commands of clients

ASSUME SpeedAssumption == Top \in Nat /\ MAX_VEL \in Nat /\ MAX_ACC_V \in Nat \ {0}
ASSUME TimeAssumption == Cycle \in Nat \ {0} /\ WatchDog \in Nat /\ Cycle <= WatchDog
ASSUME QueueAssumption == QueueMax \in Nat \ {0} /\ MaxCommands \in Nat

\* A mode of running, a state to enable or disable, or a question.
Modes  == {"FREE", "STOP", "VEL", "WHEEL_VEL"}
States == {"MOTOR", "VELOCITY", "BODY"}
Run(mode)       == [type |-> "run", what |-> mode]
Enable(state)   == [type |-> "enable", what |-> state]
Disable(state)  == [type |-> "disable", what |-> state]
Get             == [type |-> "get", what |-> "POS"]   \* and the other questions
ASSUME CommandAssumption ==
  Commands \subseteq {Run(m) : m \in Modes} \cup {Enable(s) : s \in States}
                       \cup {Disable(s) : s \in States} \cup {Get}

VARIABLES
  g_run_mode, g_state, g_spur_v, before_v,   \* shared by the threads
  mutex,                                     \* "free", or the thread that holds it
  pc, speed, since,            \* of the main thread; since: periods since before_time
  cpc, msg, before_run_mode,   \* of the command thread
  queue, client, sent,         \* messages, clients, how many commands were sent
  level, w_ref, dog, packet,   \* the motor controller, and whether a packet waits
  early, blamed                \* history: did the command thread see the mode FREE
                               \* of the start-up? did anything keep the PC silent?

shared  == <<g_run_mode, g_state, g_spur_v, before_v>>
main    == <<pc, speed, since>>
command == <<cpc, msg, before_run_mode>>
clients == <<queue, client, sent>>
motor   == <<level, w_ref, dog, packet>>
history == <<early, blamed>>
vars    == <<shared, mutex, main, command, clients, motor, history>>

Nothing == [to |-> "command", from |-> "command", cmd |-> Get]

\* The threads have just been started.  before_run_mode is -10000.
Init ==
  /\ g_run_mode = "FREE" /\ g_state = {} /\ g_spur_v = 0 /\ before_v = 0
  /\ mutex = "free"
  /\ pc = "velocity_first" /\ speed = 0 /\ since = Cycle
  /\ cpc = "receive" /\ msg = Nothing /\ before_run_mode = "none"
  /\ queue = << >> /\ client = [c \in Clients |-> "idle"] /\ sent = 0
  /\ level = "STOP" /\ w_ref = <<0, 0>> /\ dog = 0 /\ packet = FALSE
  /\ early = FALSE /\ blamed = FALSE

\* parameter_set(PARAM_w_ref, motor, v) and parameter_set(PARAM_servo, 0, l), as the
\* motor controller takes them.
Set_w_ref(motorid, v) ==
  /\ w_ref' = [w_ref EXCEPT ![motorid] = v] /\ dog' = 0
  /\ UNCHANGED <<level, packet>>
Set_servo(l) == level' = l /\ UNCHANGED <<w_ref, dog, packet>>

\* The speed nearest to v between two others.
Within(low, high, v) == IF v > high THEN high ELSE IF v < low THEN low ELSE v

\* Mutant: it does not slow down.
Smooth_stays(v) ==
  LET u == Within(-MAX_VEL, MAX_VEL, v)
  IN  IF u < before_v - MAX_ACC_V THEN before_v
      ELSE Within(before_v - MAX_ACC_V, before_v + MAX_ACC_V, u)
\* robot_speed_smooth: no faster than the robot may be, and no more than it may change.
Smooth(v) ==
  Within(before_v - MAX_ACC_V, before_v + MAX_ACC_V, Within(-MAX_VEL, MAX_VEL, v))
-----------------------------------------------------------------------------
(* The main thread.                                                        *)

StartUp == {"velocity_first", "velocity_second", "velocity_servo",
            "robot_first", "robot_second", "mode", "servo"}
Goto(from, to) == pc = from /\ pc' = to

\* set_param: set_param_velocity, and robot_speed(0,0).
BootWrite(from, to, motorid) ==
  /\ Goto(from, to) /\ Set_w_ref(motorid, 0)
  /\ UNCHANGED <<shared, mutex, speed, since, command, clients, history>>
BootServo ==
  /\ Goto("velocity_servo", "robot_first") /\ Set_servo("VELOCITY")
  /\ UNCHANGED <<shared, mutex, speed, since, command, clients, history>>
\* The rest of it.
BootMode ==
  /\ Goto("mode", "servo")
  /\ g_run_mode' = "STOP" /\ g_state' = States
  /\ UNCHANGED <<g_spur_v, before_v, mutex, speed, since, command, clients, motor, history>>
\* The servo of main().
BootMotorServo ==
  /\ Goto("servo", "read")
  /\ IF {"MOTOR", "VELOCITY"} \subseteq g_state THEN Set_servo("VELOCITY") ELSE UNCHANGED motor
  /\ UNCHANGED <<shared, mutex, speed, since, command, clients, history>>
Boot ==
  \/ BootWrite("velocity_first", "velocity_second", 1)
  \/ BootWrite("velocity_second", "velocity_servo", 2)
  \/ BootServo
  \/ BootWrite("robot_first", "robot_second", 1)
  \/ BootWrite("robot_second", "mode", 2)
  \/ BootMode \/ BootMotorServo

\* serial_receive returns with a packet, or a part of one.
Read ==
  /\ packet /\ packet' = FALSE
  /\ Goto("read", "control")
  /\ UNCHANGED <<shared, mutex, speed, since, command, clients, level, w_ref, dog, history>>

Due == since >= Cycle /\ {"MOTOR", "VELOCITY"} \subseteq g_state
NotDue ==
  /\ ~Due /\ Goto("control", "read")
  /\ UNCHANGED <<shared, mutex, speed, since, command, clients, motor, history>>
StartControl ==
  /\ Due /\ Goto("control", "lock")
  /\ since' = 0
  /\ UNCHANGED <<shared, mutex, speed, command, clients, motor, history>>

\* Mutant: a robot that is not to run gets no set points.
Sends_running ==
  \/ g_run_mode = "WHEEL_VEL"
  \/ (g_run_mode = "VEL" /\ "BODY" \in g_state)
\* In these modes and states, run_control sends set points.
Sends ==
  \/ g_run_mode \in {"FREE", "STOP", "WHEEL_VEL"}
  \/ (g_run_mode = "VEL" /\ "BODY" \in g_state)
\* Mutant: no mutex.
Control_unlocked ==
  /\ UNCHANGED mutex
  /\ Goto("lock", IF Sends THEN "first" ELSE "unlock")
  /\ speed' = CASE ~Sends -> speed
                [] g_run_mode = "WHEEL_VEL" -> g_spur_v
                [] OTHER -> Smooth(IF g_run_mode \in {"FREE", "STOP"} THEN 0 ELSE g_spur_v)
  /\ before_v' = IF Sends /\ g_run_mode # "WHEEL_VEL" THEN speed' ELSE before_v
  /\ UNCHANGED <<g_run_mode, g_state, g_spur_v, since, command, clients, motor, history>>
\* run_control, with the mutex locked: motor_speed for a speed of the wheels, and
\* robot_speed_smooth otherwise.
Control ==
  /\ mutex = "free" /\ mutex' = "main"
  /\ Goto("lock", IF Sends THEN "first" ELSE "unlock")
  /\ speed' = CASE ~Sends -> speed
                [] g_run_mode = "WHEEL_VEL" -> g_spur_v
                [] OTHER -> Smooth(IF g_run_mode \in {"FREE", "STOP"} THEN 0 ELSE g_spur_v)
  /\ before_v' = IF Sends /\ g_run_mode # "WHEEL_VEL" THEN speed' ELSE before_v
  /\ UNCHANGED <<g_run_mode, g_state, g_spur_v, since, command, clients, motor, history>>
\* motor_speed.
Write(from, to, motorid) ==
  /\ Goto(from, to) /\ Set_w_ref(motorid, speed)
  /\ UNCHANGED <<shared, mutex, speed, since, command, clients, history>>
Unlock ==
  /\ Goto("unlock", "read")
  /\ mutex' = "free" /\ speed' = 0
  /\ UNCHANGED <<shared, since, command, clients, motor, history>>
Loop ==
  \/ Read \/ NotDue \/ StartControl \/ Control
  \/ Write("first", "second", 1) \/ Write("second", "unlock", 2) \/ Unlock
-----------------------------------------------------------------------------
(* The command thread.                                                     *)

Step(from, to) == cpc = from /\ cpc' = to

\* msgrcv: the oldest message of a type is the one at i.
Oldest(who, i) ==
  /\ i \in 1 .. Len(queue) /\ queue[i].to = who
  /\ \A j \in 1 .. i - 1 : queue[j].to # who
For(who) == \E i \in 1 .. Len(queue) : queue[i].to = who
Booting == pc \in StartUp
Receive ==
  /\ Step("receive", "lock")
  /\ \E i \in 1 .. Len(queue) :
       Oldest("command", i) /\ msg' = queue[i] /\ queue' = RemoveAt(queue, i)
  /\ UNCHANGED <<shared, mutex, main, before_run_mode, client, sent, motor, history>>

Lock ==
  /\ mutex = "free" /\ mutex' = "command"
  /\ Step("lock", "handle")
  /\ UNCHANGED <<shared, main, msg, before_run_mode, clients, motor, history>>

\* command_run.c: the mode, and for VEL and WHEEL_VEL the speed.
HandleRun ==
  /\ msg.cmd.type = "run" /\ Step("handle", "change")
  /\ g_run_mode' = msg.cmd.what
  /\ g_spur_v' = IF msg.cmd.what \in {"VEL", "WHEEL_VEL"} THEN Top ELSE g_spur_v
  /\ UNCHANGED <<g_state, before_v, mutex, main, msg, before_run_mode, clients, motor, history>>
\* command_get.c: the answer is ready to be sent.
HandleGet ==
  /\ msg.cmd.type = "get" /\ Step("handle", "reply")
  /\ UNCHANGED <<shared, mutex, main, msg, before_run_mode, clients, motor, history>>
\* param_state_com.
HandleDisable ==
  /\ msg.cmd.type = "disable" /\ Step("handle", "change")
  /\ g_state' = g_state \ {msg.cmd.what}
  /\ blamed' = TRUE
  /\ UNCHANGED <<g_run_mode, g_spur_v, before_v, mutex, main, msg, before_run_mode,
                 clients, motor, early>>
HandleEnable ==
  /\ msg.cmd.type = "enable"
  /\ Step("handle", IF msg.cmd.what \in {"VELOCITY", "BODY"} THEN "first" ELSE "change")
  /\ g_state' = g_state \cup {msg.cmd.what}
  /\ before_v' = IF msg.cmd.what = "BODY" THEN 0 ELSE before_v
  /\ UNCHANGED <<g_run_mode, g_spur_v, mutex, main, msg, before_run_mode,
                 clients, motor, history>>
\* set_param_velocity, or robot_speed(0,0).
CommandWrite(from, to, motorid) ==
  /\ Step(from, to) /\ Set_w_ref(motorid, 0)
  /\ UNCHANGED <<shared, mutex, main, msg, before_run_mode, clients, history>>
WriteServo ==
  /\ Step("param_servo", "change")
  /\ IF msg.cmd.what = "VELOCITY" THEN Set_servo("VELOCITY") ELSE UNCHANGED motor
  /\ UNCHANGED <<shared, mutex, main, msg, before_run_mode, clients, history>>

\* Mutant: the answer is sent before the queue has room, and lost.
Reply_lost ==
  /\ Step("reply", "change")
  /\ IF Len(queue) < QueueMax - 1
       THEN queue' = Append(queue, [to |-> msg.from, from |-> "command", cmd |-> Get])
       ELSE UNCHANGED queue
  /\ UNCHANGED <<shared, mutex, main, msg, before_run_mode, client, sent, motor, history>>
\* message_return, with the mutex locked: waits until there is room in the queue.
Reply ==
  /\ Len(queue) < QueueMax
  /\ Step("reply", "change")
  /\ queue' = Append(queue, [to |-> msg.from, from |-> "command", cmd |-> Get])
  /\ UNCHANGED <<shared, mutex, main, msg, before_run_mode, client, sent, motor, history>>

\* Mutant: the servo is not switched on when FREE ends.
Change_off ==
  /\ Step("change", IF g_run_mode # before_run_mode /\ g_run_mode = "FREE"
                      THEN "motor_free" ELSE "done")
  /\ UNCHANGED <<shared, mutex, main, msg, before_run_mode, clients, motor, history>>
\* Has the mode changed?  Then the servo is switched off, or on.
Change ==
  /\ Step("change",
          CASE g_run_mode = before_run_mode -> "done"
            [] g_run_mode # before_run_mode /\ g_run_mode = "FREE" -> "motor_free"
            [] g_run_mode # before_run_mode /\ g_run_mode # "FREE" -> "was_free")
  /\ early' = (early \/ (Booting /\ g_run_mode = "FREE"))
  /\ UNCHANGED <<shared, mutex, main, msg, before_run_mode, clients, motor, blamed>>
MotorFree ==
  /\ Step("motor_free", "was_free") /\ Set_servo("TORQUE")
  /\ UNCHANGED <<shared, mutex, main, msg, before_run_mode, clients, history>>
MotorServo ==
  /\ Step("was_free", "done")
  /\ IF before_run_mode = "FREE" THEN Set_servo("VELOCITY") ELSE UNCHANGED motor
  /\ UNCHANGED <<shared, mutex, main, msg, before_run_mode, clients, history>>
Done ==
  /\ Step("done", "receive")
  /\ before_run_mode' = g_run_mode
  /\ mutex' = "free" /\ msg' = Nothing
  /\ UNCHANGED <<shared, main, clients, motor, history>>
CommandThread ==
  \/ Receive \/ Lock
  \/ HandleRun \/ HandleGet \/ HandleDisable \/ HandleEnable
  \/ CommandWrite("first", "second", 1) \/ CommandWrite("second", "param_servo", 2)
  \/ WriteServo \/ Reply \/ Change \/ MotorFree \/ MotorServo \/ Done
-----------------------------------------------------------------------------
(* The clients and the motor controller.                                   *)

\* SHSpur_...(): msgsnd waits until there is room in the queue.  The pid of the
\* client matters to a question only.
Ask(c, cmd) ==
  /\ client[c] = "idle" /\ sent < MaxCommands /\ Len(queue) < QueueMax
  /\ queue' = Append(queue, [to |-> "command", from |-> IF cmd = Get THEN c ELSE "command",
                             cmd |-> cmd])
  /\ client' = [client EXCEPT ![c] = IF cmd = Get THEN "waiting" ELSE "idle"]
  /\ sent' = sent + 1
  /\ UNCHANGED <<shared, mutex, main, command, motor, history>>
Answer(c) ==
  /\ client[c] = "waiting"
  /\ \E i \in 1 .. Len(queue) : Oldest(c, i) /\ queue' = RemoveAt(queue, i)
  /\ client' = [client EXCEPT ![c] = "idle"]
  /\ UNCHANGED <<shared, mutex, main, command, sent, motor, history>>
\* A client is killed while it waits.
Die(c) ==
  /\ client[c] = "waiting"
  /\ client' = [client EXCEPT ![c] = "dead"]
  /\ UNCHANGED <<shared, mutex, main, command, queue, sent, motor, history>>

MainWaits ==
  \/ pc = "read" /\ ~packet
  \/ pc = "lock" /\ mutex # "free"
CommandWaits ==
  \/ cpc = "receive" /\ ~For("command")
  \/ cpc = "reply" /\ Len(queue) >= QueueMax
\* A period goes by: the watchdog bites, or there is another packet.
Period ==
  /\ level # "STOP" /\ MainWaits /\ CommandWaits
  /\ since' = IF since < Cycle THEN since + 1 ELSE since
  /\ IF dog >= WatchDog
       THEN level' = "STOP" /\ dog' = 0 /\ UNCHANGED packet
       ELSE dog' = dog + 1 /\ packet' = TRUE /\ UNCHANGED level
  /\ blamed' = (blamed \/ cpc = "reply")
  /\ UNCHANGED <<shared, mutex, pc, speed, command, clients, w_ref, early>>
-----------------------------------------------------------------------------
AskAny == \E c \in Clients, cmd \in Commands : Ask(c, cmd)
DieAny == \E c \in Clients : Die(c)
Next == Boot \/ Loop \/ CommandThread \/ Period \/ AskAny \/ DieAny
          \/ \E c \in Clients : Answer(c)

\* The threads and the motor controller go on, the mutex is handed over, clients
\* collect their answers.  Nothing makes clients ask or die.
Fairness ==
  /\ SF_vars(Boot \/ Loop) /\ SF_vars(CommandThread) /\ WF_vars(Period)
  /\ \A c \in Clients : WF_vars(Answer(c))
Spec == Init /\ [][Next]_vars /\ Fairness
-----------------------------------------------------------------------------
Messages == [to : Clients \cup {"command"}, from : Clients \cup {"command"}, cmd : Commands \cup {Get}]
PlaceOK ==
  /\ mutex \in {"free", "main", "command"}
  /\ pc \in StartUp \cup {"read", "control", "lock", "first", "second", "unlock"}
  /\ cpc \in {"receive", "lock", "handle", "first", "second", "param_servo", "reply", "change",
             "motor_free", "was_free", "done"}
ModeOK ==
  /\ g_run_mode \in Modes /\ before_run_mode \in Modes \cup {"none"}
  /\ g_state \subseteq States
SpeedOK ==
  /\ g_spur_v \in {0, Top} /\ before_v \in 0 .. Top /\ speed \in 0 .. Top
  /\ w_ref \in [1 .. 2 -> 0 .. Top]
ClockOK ==
  /\ since \in 0 .. Cycle /\ dog \in 0 .. WatchDog
  /\ level \in {"STOP", "TORQUE", "VELOCITY"}
  /\ packet \in BOOLEAN /\ early \in BOOLEAN /\ blamed \in BOOLEAN
QueueOK ==
  /\ msg \in Messages
  /\ queue \in Seq(Messages) /\ Len(queue) <= QueueMax
  /\ client \in [Clients -> {"idle", "waiting", "dead"}] /\ sent \in 0 .. MaxCommands
\* The range of every variable.
TypeOK == PlaceOK /\ ModeOK /\ SpeedOK /\ ClockOK /\ QueueOK

\* Whatever the threads do at a time, the two wheels have set points of the same
\* call, unless a thread is between the two of them.
NoHalfPair ==
  pc \notin {"second", "velocity_second", "robot_second"} /\ cpc # "second"
    => w_ref[1] = w_ref[2]

\* When no command is being handled and the robot is to run, the servo is not
\* switched off; unless the command thread saw the mode FREE that the
\* main thread starts up with, and so switched it off.
ServoOn ==
  ~Booting /\ cpc \in {"receive", "lock"} /\ g_run_mode # "FREE" /\ ~early
    => level # "TORQUE"

\* The watchdog of the motor controller only bites when a state was disabled or
\* the command thread had to wait for room in the queue.
WatchDogSleeps == ~Booting /\ level = "STOP" => blamed

\* A client that asks is answered, unless the queue is full when the answer is to
\* be sent.
Jammed == cpc = "reply" /\ Len(queue) >= QueueMax
Answered == \A c \in Clients : client[c] = "waiting" ~> client[c] # "waiting" \/ Jammed

\* When no client wants the robot to run any more it comes to rest: the set points
\* become zero, or the watchdog bites.
Stops ==
  <>[](g_run_mode \in {"FREE", "STOP"}) => <>[](w_ref = <<0, 0>> \/ level = "STOP")

=============================================================================
