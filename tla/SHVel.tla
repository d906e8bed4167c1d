-------------------------------- MODULE SHVel --------------------------------
(***************************************************************************)
(* The motor controller, sh_vel/main.c: a timer interrupt every            *)
(* millisecond (int_cmi1) and a main loop that analyses the commands of    *)
(* the PC, sends the odometry, and looks after the watchdog.  They share   *)
(* their variables without any lock.                                       *)
(*                                                                         *)
(* The unit of time is the tick of the interrupt.  The serial line is slow *)
(* (a command takes 2.6 ms, an odometry packet 2.9 ms at 38400 baud) and   *)
(* the rest of the main loop fast, which is what SendTicks and CommandTicks*)
(* say.  A set point is the number of the call of motor_speed() it was sent *)
(* in; gains, torque and the value of the PWM are left out, and the two     *)
(* encoders are one.                                                       *)
(***************************************************************************)
EXTENDS Integers, Sequences

CONSTANTS
  CntMod,        \* the encoder counts are shorts: 2^16
  Moves,         \* counts an encoder can move by in a tick
  Period,        \* ticks between two odometry packets: 5
  SendTicks,     \* most ticks while the main loop is busy with a packet and
                 \* the commands that came meanwhile: 3
  CommandTicks,  \* fewest ticks a command takes on the line: 2
  DefaultLimit,  \* p_watch_dog_limit at power-up: 100
  PCLimit,       \* p_watch_dog_limit that the PC sets: 300
  Levels,        \* levels a servo command may contain
  Limits,        \* limits a watch_dog_limit command may contain
  MaxPairs,      \* bound: pairs of set points sent by the PC
  MaxOthers,     \* bound: other commands sent by the PC
  MaxLost        \* bound: commands that lose bytes to noise on the line

ASSUME CountAssumption ==
  CntMod \in Nat \ {0} /\ Moves \subseteq 0 .. CntMod - 1
ASSUME TimeAssumption ==
  /\ Period \in Nat /\ SendTicks \in Nat /\ CommandTicks \in Nat
  /\ 0 < SendTicks /\ SendTicks < Period
\* No two commands arrive within a tick.
ASSUME LineAssumption == CommandTicks > 1
ASSUME BoundAssumption ==
  MaxPairs \in Nat /\ MaxOthers \in Nat /\ MaxLost \in Nat

SERVO_LEVEL_STOP     == 0
SERVO_LEVEL_COUNTER  == 1
SERVO_LEVEL_TORQUE   == 2
SERVO_LEVEL_VELOCITY == 3
Motors == {0, 1}

\* What noise makes of a command may contain any int; the watchdog never exceeds the
\* greatest, which is no limit here.
ASSUME LevelAssumption ==
  Levels \subseteq Int /\ {SERVO_LEVEL_TORQUE, SERVO_LEVEL_VELOCITY} \subseteq Levels
ASSUME LimitAssumption ==
  /\ Limits \subseteq Int /\ {DefaultLimit, PCLimit} \subseteq Limits
  /\ DefaultLimit \in Nat /\ PCLimit \in Nat

\* The commands, as command_analyze tells them apart.
w_refCommand(motor, pair) == [type |-> "w_ref", motor |-> motor, value |-> pair]
servoCommands(levels) == [type : {"servo"}, motor : {0}, value : levels]
limitCommands(limits) == [type : {"watch_dog_limit"}, motor : {0}, value : limits]
\* A gain, a parameter or a motor there is not.
Ignored == [type |-> "ignored", motor |-> 0, value |-> 0]
Nothing == w_refCommand(0, 0)

\* What the PC sends besides set points.
Others ==
  servoCommands({SERVO_LEVEL_TORQUE, SERVO_LEVEL_VELOCITY}) \cup limitCommands({PCLimit})

\* What a command may be taken for when symbols of it are lost: a command has no length
\* and no check sum.  A set point it yields counts as sent in the given call.
Altered(call) ==
  {w_refCommand(m, call) : m \in Motors}
    \cup servoCommands(Levels) \cup limitCommands(Limits) \cup {Ignored}

VARIABLES
  \* shared by the interrupt and the main loop
  counter, counter_buf,    \* encoder; its value at the last complete period
  cnt_updated, watch_dog,  \* ticks since the last packet; since the last set point
  w_ref,                   \* 0, 1: set points in use; 2, 3: set points received
  param_change,            \* the motors whose set point was received
  servo_level,
  int_w,                   \* has the integral of the PI control grown?
  pwm,                     \* what the motors get: "off", "free" or "servo"
  \* of the main loop
  pc,
  command,                 \* the command that is analysed
  loaded,                  \* param_change, in the midst of param_change |= 1<<motor
  counter_buf2,            \* counter_buf as it was sent last
  packet,                  \* the counts in the packet on its way
  p_watch_dog_limit,
  \* the line and the PC
  buffer,                  \* commands in DTC_receive_buffer
  held,                    \* the command whose end byte was lost, if there is one
  gap, short,              \* ticks since the last command; was the gap before short?
  pairs, half, others, lost, \* how much the PC has sent, and the noise spoilt
  \* history, which the program does not keep
  slack,                   \* ticks that may come before the buffer is found empty
  odometer,                \* the sum of the packets, in the PC
  apart,                   \* ticks since the last pair of set points was complete
  slips,                   \* commands not taken as they were sent, halves forgotten,
                           \* pairs that came too close
  overdue                  \* ticks for which watch_dog has exceeded p_watch_dog_limit

shared == <<counter, counter_buf, cnt_updated, watch_dog, w_ref, param_change,
            servo_level, int_w, pwm>>
main   == <<pc, command, loaded, counter_buf2, packet, p_watch_dog_limit>>
line   == <<buffer, held, gap, short, pairs, half, others, lost>>
history == <<odometer, apart, slips, overdue>>
vars   == <<shared, main, line, slack, history>>

\* A pair may follow the one before after that many ticks; if it comes sooner,
\* it may overtake it.
CloseTicks == SendTicks + 1

\* (short)(a + b) and (short)(a - b), for 0 <= a, b < CntMod.
Plus(a, b)  == IF a + b < CntMod THEN a + b ELSE a + b - CntMod
Minus(a, b) == IF a >= b THEN a - b ELSE a - b + CntMod

Init ==
  /\ counter = 0 /\ counter_buf = 0 /\ counter_buf2 = 0 /\ packet = 0
  /\ cnt_updated = 0 /\ watch_dog = 0 /\ p_watch_dog_limit = DefaultLimit
  /\ w_ref = [i \in 0 .. 3 |-> 0] /\ param_change = {} /\ loaded = {}
  /\ servo_level = SERVO_LEVEL_STOP /\ int_w = FALSE /\ pwm = "off"
  /\ pc = "receive" /\ command = Nothing
  /\ buffer = << >> /\ held = << >> /\ gap = CommandTicks + 1 /\ short = FALSE
  /\ pairs = 0 /\ half = 0 /\ others = 0 /\ lost = 0
  /\ slack = 1 /\ odometer = 0 /\ apart = CloseTicks + 1 /\ slips = 0 /\ overdue = 0
-----------------------------------------------------------------------------
(* The PC and the line.                                                    *)

\* Commands do not come faster than the line is: n of them take 2.6 n ms, so a
\* gap of CommandTicks is followed by a longer one.
LineFree == gap >= IF short THEN CommandTicks + 1 ELSE CommandTicks

\* Command c has come down the line; noise may have taken its start byte, its end byte,
\* or symbols, which makes it d.  Without a start byte it is not collected, unless the
\* end byte of an earlier one was lost: then it is what follows in the data of that one,
\* which the next end byte executes.
Arrive(c, d, start, end) ==
  /\ LineFree
  /\ lost' = IF start /\ end /\ d = c THEN lost ELSE lost + 1
  /\ lost' <= MaxLost
  /\ LET opened == IF held # << >> THEN held ELSE IF start THEN <<d>> ELSE << >>
     IN  IF end THEN buffer' = buffer \o opened /\ held' = << >>
                ELSE held' = opened /\ UNCHANGED buffer
  /\ gap' = 0 /\ short' = (gap = CommandTicks)
  /\ UNCHANGED <<shared, main, slack, odometer, overdue>>
\* It is taken as it was sent.
Unspoilt(c, d, start, end) == start /\ end /\ d = c /\ held = << >>

\* motor_speed() in the PC sends the set points of motor 0 and of motor 1 with
\* its mutex locked; what else it sends comes before or after.  It may be
\* preempted between the two.  run_control() sends a pair every 20 ms, but
\* robot_speed(0,0) in a command of a client may come at any time.
ArriveFirst(d, start, end) ==
  LET c == w_refCommand(0, pairs + 1)
  IN  /\ half = 0 /\ pairs < MaxPairs
      /\ Arrive(c, d, start, end)
      /\ half' = 1
      /\ slips' = IF Unspoilt(c, d, start, end) /\ apart > CloseTicks THEN slips ELSE slips + 1
      /\ UNCHANGED <<pairs, others, apart>>
ArriveSecond(d, start, end) ==
  LET c == w_refCommand(1, pairs + 1)
  IN  /\ half = 1
      /\ Arrive(c, d, start, end)
      /\ half' = 0 /\ pairs' = pairs + 1 /\ apart' = 0
      /\ slips' = IF Unspoilt(c, d, start, end) THEN slips ELSE slips + 1
      /\ UNCHANGED others
ArriveOther(c, d, start, end) ==
  /\ half = 0 /\ others < MaxOthers
  /\ Arrive(c, d, start, end)
  /\ others' = others + 1
  /\ slips' = IF Unspoilt(c, d, start, end) THEN slips ELSE slips + 1
  /\ UNCHANGED <<pairs, half, apart>>

-----------------------------------------------------------------------------
(* The interrupt.                                                          *)

\* int_cmi1 at SERVO_LEVEL_STOP: nothing but the encoder and the PWM.
TickStopped ==
  /\ pwm' = "off"
  /\ UNCHANGED <<counter_buf, cnt_updated, watch_dog, w_ref, param_change, int_w>>

\* Mutant: a set point is taken over without waiting for the other.
TakeOver_single ==
  IF param_change # {}
    THEN /\ w_ref' = [w_ref EXCEPT ![0] = w_ref[2], ![1] = w_ref[3]]
         /\ param_change' = {}
    ELSE UNCHANGED <<w_ref, param_change>>
\* A pair of set points is taken over when both have come.
TakeOver ==
  IF param_change = Motors
    THEN /\ w_ref' = [w_ref EXCEPT ![0] = w_ref[2], ![1] = w_ref[3]]
         /\ param_change' = {}
    ELSE UNCHANGED <<w_ref, param_change>>

\* Mutant: the watchdog runs under velocity control only.
TickEnabled_free ==
  /\ TakeOver
  /\ int_w' = (int_w \/ servo_level >= SERVO_LEVEL_VELOCITY)
  /\ pwm' = IF servo_level >= SERVO_LEVEL_VELOCITY THEN "servo" ELSE "free"
  /\ cnt_updated' = cnt_updated + 1
  /\ watch_dog' = IF servo_level >= SERVO_LEVEL_VELOCITY THEN watch_dog + 1 ELSE watch_dog
  /\ counter_buf' = IF cnt_updated' = Period THEN counter' ELSE counter_buf
\* int_cmi1 above it.  At SERVO_LEVEL_COUNTER the PWM stays as it is.
TickEnabled ==
  /\ TakeOver
  /\ int_w' = (int_w \/ servo_level >= SERVO_LEVEL_VELOCITY)
  /\ pwm' = CASE servo_level >= SERVO_LEVEL_VELOCITY -> "servo"
              [] servo_level = SERVO_LEVEL_TORQUE -> "free"
              [] OTHER -> pwm
  /\ cnt_updated' = cnt_updated + 1
  /\ watch_dog' = watch_dog + 1
  /\ counter_buf' = IF cnt_updated' = Period THEN counter' ELSE counter_buf

\* The interrupt.  There is time between two ticks to empty the buffer, except
\* while a packet is sent.
Tick ==
  /\ slack > 0
  /\ \E d \in Moves : counter' = Plus(counter, d)
  /\ IF servo_level <= SERVO_LEVEL_STOP THEN TickStopped ELSE TickEnabled
  /\ slack' = slack - 1
  /\ gap' = IF gap <= CommandTicks THEN gap + 1 ELSE gap
  /\ apart' = IF apart <= CloseTicks THEN apart + 1 ELSE apart
  /\ overdue' = IF watch_dog' > p_watch_dog_limit THEN overdue + 1 ELSE 0
  /\ UNCHANGED <<servo_level, main, buffer, held, short, pairs, half, others, lost,
                 odometer, slips>>

-----------------------------------------------------------------------------
(* The main loop.                                                          *)

Goto(from, to) == pc = from /\ pc' = to

\* A local variable is set back when it is not used any more.
Forget == command' = Nothing

\* DTC_receive(): no complete command in the buffer.
ReceiveNothing ==
  /\ buffer = << >> /\ Goto("receive", "odometry")
  /\ slack' = 1
  /\ UNCHANGED <<shared, command, loaded, counter_buf2, packet, p_watch_dog_limit,
                 line, history>>

\* DTC_receive() decodes the oldest command, and command_analyze looks at it.
Receive ==
  /\ buffer # << >> /\ Goto("receive", "analyse")
  /\ command' = Head(buffer) /\ buffer' = Tail(buffer)
  /\ UNCHANGED <<shared, loaded, counter_buf2, packet, p_watch_dog_limit,
                 held, gap, short, pairs, half, others, lost, slack, history>>

\* case PARAM_w_ref: w_ref[motor+2] = i.integer;
AnalyseW_ref ==
  /\ command.type = "w_ref" /\ Goto("analyse", "load")
  /\ w_ref' = [w_ref EXCEPT ![command.motor + 2] = command.value]
  /\ UNCHANGED <<counter, counter_buf, cnt_updated, watch_dog, param_change, servo_level,
                 int_w, pwm, command, loaded, counter_buf2, packet, p_watch_dog_limit,
                 line, slack, history>>

\* param_change |= (1<<motor); watch_dog = 0; the |= is a load ...
LoadChange ==
  /\ Goto("load", "store")
  /\ loaded' = param_change
  /\ UNCHANGED <<shared, command, counter_buf2, packet, p_watch_dog_limit,
                 line, slack, history>>
\* ... and a store.
StoreChange ==
  /\ Goto("store", "odometry")
  /\ param_change' = loaded \cup {command.motor}
  /\ watch_dog' = 0
  /\ overdue' = 0
  /\ Forget /\ loaded' = {}
  /\ UNCHANGED <<counter, counter_buf, cnt_updated, w_ref, servo_level, int_w, pwm,
                 counter_buf2, packet, p_watch_dog_limit,
                 line, slack, odometer, apart, slips>>

\* Mutant: the integral is kept.
AnalyseServo_keep ==
  /\ command.type = "servo" /\ Goto("analyse", "odometry")
  /\ servo_level' = command.value
  /\ Forget
  /\ UNCHANGED <<counter, counter_buf, cnt_updated, watch_dog, w_ref, param_change, pwm, int_w,
                 loaded, counter_buf2, packet, p_watch_dog_limit, line, slack, history>>
\* case PARAM_servo: the integral starts anew with the velocity control.
AnalyseServo ==
  /\ command.type = "servo" /\ Goto("analyse", "odometry")
  /\ int_w' = IF servo_level < SERVO_LEVEL_VELOCITY /\ command.value >= SERVO_LEVEL_VELOCITY
                THEN FALSE ELSE int_w
  /\ servo_level' = command.value
  /\ Forget
  /\ UNCHANGED <<counter, counter_buf, cnt_updated, watch_dog, w_ref, param_change, pwm,
                 loaded, counter_buf2, packet, p_watch_dog_limit,
                 line, slack, history>>

\* case PARAM_watch_dog_limit: p_watch_dog_limit = i.integer;
AnalyseLimit ==
  /\ command.type = "watch_dog_limit" /\ Goto("analyse", "odometry")
  /\ p_watch_dog_limit' = command.value
  /\ overdue' = IF watch_dog > command.value THEN overdue ELSE 0
  /\ Forget
  /\ UNCHANGED <<shared, loaded, counter_buf2, packet, line, slack, odometer, apart, slips>>

\* Any other case changes nothing that is looked at here.
AnalyseIgnored ==
  /\ command.type = "ignored" /\ Goto("analyse", "odometry")
  /\ Forget
  /\ UNCHANGED <<shared, loaded, counter_buf2, packet, p_watch_dog_limit, line, slack, history>>

\* Mutant: the watchdog is looked at after a packet only.
NoPacket_continue ==
  /\ cnt_updated < Period /\ Goto("odometry", "receive")
  /\ UNCHANGED <<shared, command, loaded, counter_buf2, packet, p_watch_dog_limit,
                 line, slack, history>>
\* if(cnt_updated >= 5)
NoPacket ==
  /\ cnt_updated < Period /\ Goto("odometry", "watch_dog")
  /\ UNCHANGED <<shared, command, loaded, counter_buf2, packet, p_watch_dog_limit,
                 line, slack, history>>
PacketDue ==
  /\ cnt_updated >= Period /\ Goto("odometry", "packet")
  /\ UNCHANGED <<shared, command, loaded, counter_buf2, packet, p_watch_dog_limit,
                 line, slack, history>>

\* cnt_updated = 0, and the arguments of odometry_send, which then waits for the line.
StartPacket ==
  /\ Goto("packet", "sending")
  /\ cnt_updated' = 0
  /\ packet' = Minus(counter_buf, counter_buf2)
  /\ slack' = SendTicks
  /\ UNCHANGED <<counter, counter_buf, watch_dog, w_ref, param_change, servo_level, int_w, pwm,
                 command, loaded, counter_buf2, p_watch_dog_limit, line, history>>

\* Mutant: the encoder itself is remembered.
PacketSent_fresh ==
  /\ Goto("sending", "watch_dog")
  /\ counter_buf2' = counter
  /\ odometer' = Plus(odometer, packet)
  /\ packet' = 0
  /\ UNCHANGED <<shared, command, loaded, p_watch_dog_limit, line, slack, apart, slips, overdue>>
\* odometry_send is over: counter_buf2 = counter_buf, as it is by now.
PacketSent ==
  /\ Goto("sending", "watch_dog")
  /\ counter_buf2' = counter_buf
  /\ odometer' = Plus(odometer, packet)
  /\ packet' = 0
  /\ UNCHANGED <<shared, command, loaded, p_watch_dog_limit, line, slack, apart, slips, overdue>>

\* if(watch_dog > p_watch_dog_limit)
WatchDogQuiet ==
  /\ watch_dog <= p_watch_dog_limit /\ Goto("watch_dog", "receive")
  /\ UNCHANGED <<shared, command, loaded, counter_buf2, packet, p_watch_dog_limit,
                 line, slack, history>>
WatchDogBites ==
  /\ watch_dog > p_watch_dog_limit /\ Goto("watch_dog", "shut down")
  /\ UNCHANGED <<shared, command, loaded, counter_buf2, packet, p_watch_dog_limit,
                 line, slack, history>>
\* watch_dog = 0; param_change = 0; servo_level = SERVO_LEVEL_STOP;
ShutDown ==
  /\ Goto("shut down", "receive")
  /\ watch_dog' = 0 /\ param_change' = {} /\ servo_level' = SERVO_LEVEL_STOP
  /\ slips' = IF param_change = {0} THEN slips + 1 ELSE slips
  /\ overdue' = 0
  /\ UNCHANGED <<counter, counter_buf, cnt_updated, w_ref, int_w, pwm,
                 command, loaded, counter_buf2, packet, p_watch_dog_limit, line, slack, odometer, apart>>
-----------------------------------------------------------------------------
FromPC ==
  \E start, end \in BOOLEAN :
    \/ \E d \in Altered(pairs + 1) : ArriveFirst(d, start, end) \/ ArriveSecond(d, start, end)
    \/ \E c \in Others, d \in Altered(pairs) : ArriveOther(c, d, start, end)
Main ==
  \/ ReceiveNothing \/ Receive
  \/ AnalyseW_ref \/ LoadChange \/ StoreChange \/ AnalyseServo \/ AnalyseLimit \/ AnalyseIgnored
  \/ NoPacket \/ PacketDue \/ StartPacket \/ PacketSent
  \/ WatchDogQuiet \/ WatchDogBites \/ ShutDown
Next == FromPC \/ Tick \/ Main

\* The timer and the processor go on; nothing makes the PC send.
Spec == Init /\ [][Next]_vars /\ WF_vars(Tick) /\ WF_vars(Main)
-----------------------------------------------------------------------------
Commands ==
  {w_refCommand(m, n) : m \in Motors, n \in 0 .. MaxPairs}
    \cup servoCommands(Levels) \cup limitCommands(Limits) \cup {Ignored}

Counts   == 0 .. CntMod - 1

SharedOK ==
  /\ counter \in Counts /\ counter_buf \in Counts
  /\ cnt_updated \in Nat /\ watch_dog \in Nat
  /\ w_ref \in [0 .. 3 -> 0 .. MaxPairs] /\ param_change \in SUBSET Motors
  /\ servo_level \in Int
  /\ int_w \in BOOLEAN /\ pwm \in {"off", "free", "servo"}
MainOK ==
  /\ pc \in {"receive", "analyse", "load", "store", "odometry", "packet", "sending",
             "watch_dog", "shut down"}
  /\ command \in Commands /\ loaded \in SUBSET Motors
  /\ counter_buf2 \in Counts /\ packet \in Counts
  /\ p_watch_dog_limit \in Limits
LineOK ==
  /\ buffer \in Seq(Commands)
  /\ held = << >> \/ \E c \in Commands : held = <<c>>
  /\ gap \in 0 .. CommandTicks + 1 /\ short \in BOOLEAN
  /\ pairs \in 0 .. MaxPairs /\ half \in {0, 1}
  /\ half = 1 => pairs < MaxPairs
  /\ others \in 0 .. MaxOthers /\ lost \in 0 .. MaxLost
HistoryOK ==
  /\ slack \in 0 .. SendTicks
  /\ odometer \in Counts /\ apart \in 0 .. CloseTicks + 1
  /\ slips \in Nat /\ overdue \in Nat

\* The range of every variable.
TypeOK == SharedOK /\ MainOK /\ LineOK /\ HistoryOK

\* No count is lost between two packets: what the PC has added up is what the
\* controller believes it was told, although the interrupt may have refreshed
\* counter_buf while odometry_send was waiting for the line.
OdometryExact == pc # "sending" => odometer = counter_buf2

\* The two wheels run on set points of the same call of motor_speed(), unless a command
\* was not taken as it was sent: noise spoilt it, or swallowed it in one whose end byte
\* was lost, or the watchdog bit between the halves of a pair and forgot that the first
\* one had come. After that they may be out of step until something else is lost, but
\* never by more calls than commands were lost.
SkewBounded == w_ref[0] - w_ref[1] <= slips /\ w_ref[1] - w_ref[0] <= slips

\* A wheel that is switched on starts without the integral of an earlier run.
FreshIntegral == servo_level >= SERVO_LEVEL_VELOCITY /\ int_w => pwm = "servo"

\* However busy the main loop is with commands and packets, and whatever they make of
\* the limit, the watchdog is never overdue by more than two packets.
Watched == overdue <= 2 * SendTicks + 1

\* When the PC falls silent, whatever it sent last and whatever the line made of it, the
\* motors are switched off for good.
PCFallsSilent == <>[][~FromPC]_vars
SilenceStops == PCFallsSilent => <>[](servo_level <= SERVO_LEVEL_STOP /\ pwm = "off")
=============================================================================
