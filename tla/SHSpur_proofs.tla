--------------------------- MODULE SHSpur_proofs ----------------------------
(***************************************************************************)
(* What holds of the threads of sh_spur for every number of clients, every *)
(* length of the queue, every acceleration and every period of control;    *)
(* and of the serial line below them for any data and any losses.          *)
(***************************************************************************)
EXTENDS SHSpur, SerialLine, SequenceTheorems, FiniteSetTheorems, WellFoundedInduction, TLAPS

-----------------------------------------------------------------------------
(* The types.                                                              *)

LEMMA CommandKinds ==
  ASSUME NEW cmd \in Commands \cup {Get}
  PROVE  /\ cmd.type = "run" => cmd.what \in Modes
         /\ cmd.type \in {"enable", "disable"} => cmd.what \in States
BY CommandAssumption DEF Run, Enable, Disable, Get

\* A speed between two speeds.
LEMMA SmoothType ==
  ASSUME before_v \in 0 .. Top, NEW v \in 0 .. Top
  PROVE  Smooth(v) \in 0 .. Top
<1>1. PICK u : u = Within(-MAX_VEL, MAX_VEL, v)
  OBVIOUS
<1>2. u \in 0 .. Top
  BY <1>1, SpeedAssumption DEF Within
<1>3. QED
  BY <1>1, <1>2, SpeedAssumption DEF Smooth, Within

LEMMA QueueShorter ==
  ASSUME NEW S, NEW q \in Seq(S), NEW i \in 1 .. Len(q)
  PROVE  q[i] \in S /\ RemoveAt(q, i) \in Seq(S) /\ Len(RemoveAt(q, i)) <= Len(q)
<1>1. i - 1 \in Int /\ i + 1 \in Int /\ Len(q) \in Nat
  BY LenProperties
<1>2. \A j \in 1 .. Len(q) : q[j] \in S
  BY ElementOfSeq
<1>3. /\ SubSeq(q, 1, i - 1) \in Seq(S)
      /\ Len(SubSeq(q, 1, i - 1)) = IF 1 <= i - 1 THEN i - 1 - 1 + 1 ELSE 0
  <2>1. \A j \in 1 .. i - 1 : q[j] \in S
    BY <1>1, <1>2
  <2>2. QED
    BY <1>1, <2>1, SubSeqProperties
<1>4. /\ SubSeq(q, i + 1, Len(q)) \in Seq(S)
      /\ Len(SubSeq(q, i + 1, Len(q))) = IF i + 1 <= Len(q) THEN Len(q) - (i + 1) + 1 ELSE 0
  <2>1. \A j \in i + 1 .. Len(q) : q[j] \in S
    BY <1>1, <1>2
  <2>2. QED
    BY <1>1, <2>1, SubSeqProperties
<1>5. /\ RemoveAt(q, i) \in Seq(S)
      /\ Len(RemoveAt(q, i)) = Len(SubSeq(q, 1, i - 1)) + Len(SubSeq(q, i + 1, Len(q)))
  BY <1>3, <1>4, ConcatProperties DEF RemoveAt
<1>6. Len(RemoveAt(q, i)) <= Len(q)
  <2> DEFINE n == Len(q)
             a == Len(SubSeq(q, 1, i - 1))
             b == Len(SubSeq(q, i + 1, Len(q)))
  <2>1. n \in Nat /\ i \in 1 .. n
    BY <1>1
  <2>2. /\ a = IF 1 <= i - 1 THEN i - 1 - 1 + 1 ELSE 0
        /\ b = IF i + 1 <= n THEN n - (i + 1) + 1 ELSE 0
    BY <1>3, <1>4
  <2>3. Len(RemoveAt(q, i)) = a + b
    BY <1>5
  <2> HIDE DEF n, a, b
  <2>4. a + b <= n
    BY <2>1, <2>2
  <2>5. QED
    BY <2>3, <2>4 DEF n
<1>7. QED
  BY <1>2, <1>5, <1>6

LEMMA TypeInit == Init => TypeOK
<1>1. Nothing \in Messages
  BY DEF Nothing, Messages
<1>2. <<0, 0>> \in [1 .. 2 -> 0 .. Top]
  BY SpeedAssumption
<1>3. << >> \in Seq(Messages) /\ Len(<< >>) = 0
  BY EmptySeq
<1>4. ASSUME Init PROVE PlaceOK /\ ModeOK
  BY <1>4 DEF Init, PlaceOK, ModeOK, StartUp, Modes, States
<1>5. ASSUME Init PROVE SpeedOK
  <2>1. w_ref \in [1 .. 2 -> 0 .. Top]
    BY <1>2, <1>5, Zenon DEF Init
  <2>2. g_spur_v = 0 /\ before_v = 0 /\ speed = 0
    BY <1>5, Zenon DEF Init
  <2>3. QED
    BY <2>1, <2>2, SpeedAssumption DEF SpeedOK
<1>6. ASSUME Init PROVE ClockOK
  <2>1. since = Cycle /\ dog = 0 /\ level = "STOP" /\ ~packet /\ ~early /\ ~blamed
    BY <1>6, Zenon DEF Init
  <2>2. packet \in BOOLEAN /\ early \in BOOLEAN /\ blamed \in BOOLEAN
    BY <1>6, Zenon DEF Init
  <2>3. QED
    BY <2>1, <2>2, TimeAssumption DEF ClockOK
<1>7. ASSUME Init PROVE QueueOK
  <2>1. msg \in Messages /\ queue \in Seq(Messages) /\ Len(queue) = 0
    BY <1>1, <1>3, <1>7, Zenon DEF Init
  <2>2. client = [c \in Clients |-> "idle"] /\ sent = 0
    BY <1>7, Zenon DEF Init
  <2>3. QED
    BY <2>1, <2>2, QueueAssumption DEF QueueOK
<1>8. QED
  BY <1>4, <1>5, <1>6, <1>7 DEF TypeOK

LEMMA PlaceStep == PlaceOK /\ [Next]_vars => PlaceOK'
<1> SUFFICES ASSUME PlaceOK, [Next]_vars PROVE PlaceOK'
  OBVIOUS
<1> USE DEF PlaceOK, StartUp
<1>1. CASE Boot
  BY <1>1 DEF Boot, BootWrite, BootServo, BootMode, BootMotorServo, Goto, command
<1>2. CASE Loop
  BY <1>2 DEF Loop, Read, NotDue, StartControl, Control, Write, Unlock, Goto, command
<1>3. CASE CommandThread
  BY <1>3
  DEF CommandThread, Receive, Lock, HandleRun, HandleGet, HandleDisable, HandleEnable, CommandWrite,
      WriteServo, Reply, Change, MotorFree, MotorServo, Done, Step, main
<1>4. CASE Period \/ AskAny \/ DieAny \/ (\E c \in Clients : Answer(c))
  BY <1>4 DEF Period, AskAny, DieAny, Ask, Die, Answer, main, command
<1>5. CASE UNCHANGED vars
  BY <1>5 DEF vars, main, command
<1>6. QED
  BY <1>1, <1>2, <1>3, <1>4, <1>5 DEF Next

LEMMA ModeStep == ModeOK /\ QueueOK /\ [Next]_vars => ModeOK'
<1> SUFFICES ASSUME ModeOK, QueueOK, [Next]_vars PROVE ModeOK'
  OBVIOUS
<1>1. msg.cmd \in Commands \cup {Get}
  BY DEF QueueOK, Messages
<1> USE DEF ModeOK
<1>2. CASE Boot
  BY <1>2 DEF Boot, BootWrite, BootServo, BootMode, BootMotorServo, shared, command, Modes
<1>3. CASE Loop
  BY <1>3 DEF Loop, Read, NotDue, StartControl, Control, Write, Unlock, shared, command
<1>4. CASE HandleRun
  <2>1. msg.cmd.what \in Modes
    BY <1>1, <1>4, CommandKinds DEF HandleRun
  <2>2. QED
    BY <1>4, <2>1 DEF HandleRun
<1>5. CASE HandleDisable \/ HandleEnable
  <2>1. msg.cmd.what \in States
    BY <1>1, <1>5, CommandKinds DEF HandleDisable, HandleEnable
  <2>2. QED
    BY <1>5, <2>1 DEF HandleDisable, HandleEnable
<1>6. CASE Receive \/ Lock \/ HandleGet \/ CommandWrite("first", "second", 1)
             \/ CommandWrite("second", "param_servo", 2) \/ WriteServo \/ Reply
             \/ Change \/ MotorFree \/ MotorServo \/ Done
  BY <1>6 DEF Receive, Lock, HandleGet, CommandWrite, WriteServo, Reply, Change, MotorFree,
              MotorServo, Done, shared
<1>7. CASE Period \/ AskAny \/ DieAny \/ (\E c \in Clients : Answer(c))
  BY <1>7 DEF Period, AskAny, DieAny, Ask, Die, Answer, shared, command
<1>8. CASE UNCHANGED vars
  BY <1>8 DEF vars, shared, command
<1>9. QED
  BY <1>2, <1>3, <1>4, <1>5, <1>6, <1>7, <1>8 DEF Next, CommandThread

LEMMA SpeedStep == SpeedOK /\ [Next]_vars => SpeedOK'
<1> SUFFICES ASSUME SpeedOK, [Next]_vars PROVE SpeedOK'
  OBVIOUS
<1> USE DEF SpeedOK
<1>1. 0 \in 0 .. Top /\ g_spur_v \in 0 .. Top
  BY SpeedAssumption
<1>2. ASSUME NEW motorid, NEW v \in 0 .. Top, Set_w_ref(motorid, v)
      PROVE  w_ref' \in [1 .. 2 -> 0 .. Top]
  BY <1>2 DEF Set_w_ref
<1>3. CASE Boot
  BY <1>1, <1>2, <1>3
  DEF Boot, BootWrite, BootServo, BootMode, BootMotorServo, Set_servo, shared, motor
<1>4. CASE Read \/ NotDue \/ StartControl \/ Unlock
  BY <1>1, <1>4 DEF Read, NotDue, StartControl, Unlock, shared, motor
<1>5. CASE Control
  <2>1. speed' \in 0 .. Top
    BY <1>1, <1>5, SmoothType DEF Control
  <2>2. QED
    BY <1>5, <2>1 DEF Control, motor
<1>6. CASE Write("first", "second", 1) \/ Write("second", "unlock", 2)
  BY <1>2, <1>6 DEF Write, shared
<1>7. CASE CommandThread
  BY <1>1, <1>2, <1>7
  DEF CommandThread, Receive, Lock, HandleRun, HandleGet, HandleDisable, HandleEnable, CommandWrite,
      WriteServo, Reply, Change, MotorFree, MotorServo, Done, Set_servo, shared, main, motor
<1>8. CASE Period \/ AskAny \/ DieAny \/ (\E c \in Clients : Answer(c))
  BY <1>8 DEF Period, AskAny, DieAny, Ask, Die, Answer, shared, main, motor
<1>9. CASE UNCHANGED vars
  BY <1>9 DEF vars, shared, main, motor
<1>10. QED
  BY <1>3, <1>4, <1>5, <1>6, <1>7, <1>8, <1>9 DEF Next, Loop

LEMMA ClockStep == ClockOK /\ [Next]_vars => ClockOK'
<1> SUFFICES ASSUME ClockOK, [Next]_vars PROVE ClockOK'
  OBVIOUS
<1> USE DEF ClockOK
<1>1. 0 \in 0 .. Cycle /\ 0 \in 0 .. WatchDog
  BY TimeAssumption
<1>2. CASE Boot
  BY <1>1, <1>2 DEF Boot, BootWrite, BootServo, BootMode, BootMotorServo, Set_w_ref, Set_servo,
                    motor, history
<1>3. CASE Loop
  BY <1>1, <1>3 DEF Loop, Read, NotDue, StartControl, Control, Write, Unlock, Set_w_ref, motor, history
<1>4. CASE CommandThread
  BY <1>1, <1>4
  DEF CommandThread, Receive, Lock, HandleRun, HandleGet, HandleDisable, HandleEnable, CommandWrite,
      WriteServo, Reply, Change, MotorFree, MotorServo, Done, Set_w_ref, Set_servo, main, motor, history
<1>5. CASE Period
  <2>1. since' \in 0 .. Cycle /\ dog' \in 0 .. WatchDog
    BY <1>5, TimeAssumption DEF Period
  <2>2. QED
    BY <1>5, <2>1 DEF Period
<1>6. CASE AskAny \/ DieAny \/ (\E c \in Clients : Answer(c))
  BY <1>6 DEF AskAny, DieAny, Ask, Die, Answer, main, motor, history
<1>7. CASE UNCHANGED vars
  BY <1>7 DEF vars, main, motor, history
<1>8. QED
  BY <1>2, <1>3, <1>4, <1>5, <1>6, <1>7 DEF Next

LEMMA QueueStep == QueueOK /\ [Next]_vars => QueueOK'
<1> SUFFICES ASSUME QueueOK, [Next]_vars PROVE QueueOK'
  OBVIOUS
<1>1. Len(queue) \in Nat /\ QueueMax \in Nat
  BY LenProperties, QueueAssumption DEF QueueOK
<1>2. ASSUME NEW i \in 1 .. Len(queue), queue' = RemoveAt(queue, i)
      PROVE  queue[i] \in Messages /\ queue' \in Seq(Messages) /\ Len(queue') <= QueueMax
  <2>1. queue[i] \in Messages /\ queue' \in Seq(Messages) /\ Len(queue') <= Len(queue)
    BY <1>2, QueueShorter DEF QueueOK
  <2>2. Len(queue') \in Nat
    BY <2>1, LenProperties
  <2>3. QED
    BY <1>1, <2>1, <2>2 DEF QueueOK
<1>3. ASSUME NEW e \in Messages, Len(queue) < QueueMax, queue' = Append(queue, e)
      PROVE  queue' \in Seq(Messages) /\ Len(queue') <= QueueMax
  <2>1. queue' \in Seq(Messages) /\ Len(queue') = Len(queue) + 1
    BY <1>3, AppendProperties DEF QueueOK
  <2>2. QED
    BY <1>1, <1>3, <2>1
<1>4. CASE Receive
  BY <1>2, <1>4 DEF Receive, QueueOK
<1>5. CASE Reply
  <2>1. [to |-> msg.from, from |-> "command", cmd |-> Get] \in Messages
    BY DEF QueueOK, Messages
  <2>2. QED
    BY <1>3, <1>5, <2>1 DEF Reply, QueueOK
<1>6. CASE Done
  <2>1. Nothing \in Messages
    BY DEF Nothing, Messages
  <2>2. QED
    BY <1>6, <2>1 DEF Done, clients, QueueOK
<1>7. ASSUME NEW c \in Clients, NEW cmd \in Commands, Ask(c, cmd) PROVE QueueOK'
  <2>1. [to |-> "command", from |-> IF cmd = Get THEN c ELSE "command", cmd |-> cmd] \in Messages
    BY DEF Messages
  <2>2. client' \in [Clients -> {"idle", "waiting", "dead"}] /\ sent' \in 0 .. MaxCommands
    BY <1>7, QueueAssumption DEF Ask, QueueOK
  <2>3. QED
    BY <1>3, <1>7, <2>1, <2>2 DEF Ask, command, QueueOK
<1>8. ASSUME NEW c \in Clients, Answer(c) PROVE QueueOK'
  BY <1>2, <1>8 DEF Answer, command, QueueOK
<1>9. ASSUME NEW c \in Clients, Die(c) PROVE QueueOK'
  BY <1>9 DEF Die, command, QueueOK
<1>10. ASSUME UNCHANGED <<msg, queue, client, sent>> PROVE QueueOK'
  BY <1>10 DEF QueueOK
<1>11. CASE Boot
  BY <1>10, <1>11
  DEF Boot, BootWrite, BootServo, BootMode, BootMotorServo, command, clients
<1>12. CASE Loop
  BY <1>10, <1>12 DEF Loop, Read, NotDue, StartControl, Control, Write, Unlock, command, clients
<1>13. CASE Lock \/ HandleRun \/ HandleGet \/ HandleDisable \/ HandleEnable
              \/ CommandWrite("first", "second", 1) \/ CommandWrite("second", "param_servo", 2)
              \/ WriteServo \/ Change \/ MotorFree \/ MotorServo
  BY <1>10, <1>13 DEF Lock, HandleRun, HandleGet, HandleDisable, HandleEnable, CommandWrite,
                      WriteServo, Change, MotorFree, MotorServo, clients
<1>14. CASE Period \/ UNCHANGED vars
  BY <1>10, <1>14 DEF Period, vars, command, clients
<1>15. QED
  BY <1>4, <1>5, <1>6, <1>7, <1>8, <1>9, <1>11, <1>12, <1>13, <1>14
  DEF Next, CommandThread, AskAny, DieAny

LEMMA TypeStep == TypeOK /\ [Next]_vars => TypeOK'
BY PlaceStep, ModeStep, SpeedStep, ClockStep, QueueStep DEF TypeOK

\* Every variable of the threads, the queue, the clients and the motor controller
\* keeps its range; so no set point exceeds what clients may ask for.
THEOREM TypeCorrect == Spec => []TypeOK
BY TypeInit, TypeStep, PTL DEF Spec

-----------------------------------------------------------------------------
(* The mutex, and the pairs of set points.                                 *)

MainHolds == {"first", "second", "unlock"}
CommandHolds == {"handle", "first", "second", "param_servo", "reply", "change",
                 "motor_free", "was_free", "done"}
MutexInv ==
  /\ mutex = "main" <=> pc \in MainHolds
  /\ mutex = "command" <=> cpc \in CommandHolds

\* The start-up sends zeros only, and so do the commands.
PairInv ==
  /\ DOMAIN w_ref = {1, 2}
  /\ Booting => w_ref[1] = 0 /\ w_ref[2] = 0
  /\ pc = "second" => w_ref[1] = speed
  /\ cpc = "second" => w_ref[1] = 0
  /\ pc # "second" /\ cpc # "second" => w_ref[1] = w_ref[2]

LEMMA PairInit == Init => MutexInv /\ PairInv
<1>1. DOMAIN <<0, 0>> = {1, 2} /\ <<0, 0>>[1] = 0 /\ <<0, 0>>[2] = 0
  OBVIOUS
<1>2. QED
  BY <1>1 DEF Init, MutexInv, MainHolds, CommandHolds, PairInv, Booting, StartUp

LEMMA MutexStep == MutexInv /\ [Next]_vars => MutexInv'
<1> SUFFICES ASSUME MutexInv, [Next]_vars PROVE MutexInv'
  OBVIOUS
<1> USE DEF MutexInv, MainHolds, CommandHolds
<1>1. CASE Boot
  BY <1>1 DEF Boot, BootWrite, BootServo, BootMode, BootMotorServo, Goto, command
<1>2. CASE Loop
  BY <1>2 DEF Loop, Read, NotDue, StartControl, Control, Write, Unlock, Goto, command
<1>3. CASE CommandThread
  BY <1>3
  DEF CommandThread, Receive, Lock, HandleRun, HandleGet, HandleDisable, HandleEnable, CommandWrite,
      WriteServo, Reply, Change, MotorFree, MotorServo, Done, Step, main
<1>4. CASE Period \/ AskAny \/ DieAny \/ (\E c \in Clients : Answer(c))
  BY <1>4 DEF Period, AskAny, DieAny, Ask, Die, Answer, main, command
<1>5. CASE UNCHANGED vars
  BY <1>5 DEF vars, main, command
<1>6. QED
  BY <1>1, <1>2, <1>3, <1>4, <1>5 DEF Next

LEMMA PairStep == MutexInv /\ PairInv /\ [Next]_vars => PairInv'
<1> SUFFICES ASSUME MutexInv, PairInv, [Next]_vars PROVE PairInv'
  OBVIOUS
<1> USE DEF MutexInv, MainHolds, CommandHolds, PairInv, Booting, StartUp
<1>1. CASE Boot
  <2>1. ASSUME NEW from, NEW to, NEW motorid \in {1, 2}, BootWrite(from, to, motorid), Booting,
               to \notin MainHolds
        PROVE  PairInv'
    BY <2>1 DEF BootWrite, Goto, Set_w_ref, command
  <2>2. CASE BootServo \/ BootMode \/ BootMotorServo
    BY <2>2 DEF BootServo, BootMode, BootMotorServo, Set_servo, Goto, command, motor
  <2>3. QED
    BY <1>1, <2>1, <2>2 DEF Boot, BootWrite, Goto
<1>2. CASE Loop
  <2>1. CASE Read \/ NotDue \/ StartControl \/ Control \/ Unlock
    BY <2>1 DEF Read, NotDue, StartControl, Control, Unlock, Goto, command, motor
  <2>2. CASE Write("first", "second", 1)
    BY <2>2 DEF Write, Goto, Set_w_ref, command
  <2>3. CASE Write("second", "unlock", 2)
    BY <2>3 DEF Write, Goto, Set_w_ref, command
  <2>4. QED
    BY <1>2, <2>1, <2>2, <2>3 DEF Loop
<1>3. CASE CommandThread
  <2>1. CASE Receive \/ Lock \/ HandleRun \/ HandleGet \/ HandleDisable \/ HandleEnable \/ Reply
               \/ Change \/ Done
    BY <2>1 DEF Receive, Lock, HandleRun, HandleGet, HandleDisable, HandleEnable, Reply, Change,
                Done, Step, main, motor
  <2>2. CASE WriteServo \/ MotorFree \/ MotorServo
    BY <2>2 DEF WriteServo, MotorFree, MotorServo, Set_servo, Step, main, motor
  <2>3. CASE CommandWrite("first", "second", 1)
    BY <2>3 DEF CommandWrite, Step, Set_w_ref, main
  <2>4. CASE CommandWrite("second", "param_servo", 2)
    BY <2>4 DEF CommandWrite, Step, Set_w_ref, main
  <2>5. QED
    BY <1>3, <2>1, <2>2, <2>3, <2>4 DEF CommandThread
<1>4. CASE Period \/ AskAny \/ DieAny \/ (\E c \in Clients : Answer(c))
  BY <1>4 DEF Period, AskAny, DieAny, Ask, Die, Answer, main, command, motor
<1>5. CASE UNCHANGED vars
  BY <1>5 DEF vars, main, command, motor
<1>6. QED
  BY <1>1, <1>2, <1>3, <1>4, <1>5 DEF Next

\* Both threads write pairs of set points, and the mutex keeps them apart: the two
\* wheels never turn for different calls, unless a thread is between the two.
THEOREM PairsStayWhole == Spec => []NoHalfPair
<1>1. Init => MutexInv /\ PairInv
  BY PairInit
<1>2. MutexInv /\ PairInv /\ [Next]_vars => (MutexInv /\ PairInv)'
  BY MutexStep, PairStep
<1>3. MutexInv /\ PairInv => NoHalfPair
  BY DEF PairInv, NoHalfPair
<1>4. QED
  BY <1>1, <1>2, <1>3, PTL DEF Spec

-----------------------------------------------------------------------------
(* The servo.                                                              *)

\* Where the command thread is on its way when the servo is off.
ServoInv ==
  ~early =>
    /\ Booting => level # "TORQUE" /\ cpc # "motor_free"
    /\ cpc = "motor_free" => g_run_mode = "FREE"
    /\ level = "TORQUE" =>
         CASE cpc = "change" -> before_run_mode = "FREE"
           [] cpc = "motor_free" -> g_run_mode = "FREE"
           [] cpc = "was_free" -> g_run_mode = "FREE" \/ before_run_mode = "FREE"
           [] cpc = "done" -> g_run_mode = "FREE"
           [] OTHER -> g_run_mode = "FREE" /\ before_run_mode = "FREE"

LEMMA ServoInit == Init => ServoInv
BY DEF Init, ServoInv

LEMMA ServoStep == ServoInv /\ [Next]_vars => ServoInv'
<1> SUFFICES ASSUME ServoInv, [Next]_vars PROVE ServoInv'
  OBVIOUS
<1> USE DEF ServoInv, Booting, StartUp
<1>1. CASE Boot
  BY <1>1 DEF Boot, BootWrite, BootServo, BootMode, BootMotorServo, Goto, Set_w_ref, Set_servo,
              shared, command, motor, history
<1>2. CASE Loop
  BY <1>2 DEF Loop, Read, NotDue, StartControl, Control, Write, Unlock, Goto, Set_w_ref,
              shared, command, motor, history
<1>3. CASE CommandThread
  <2>1. CASE Receive \/ Lock \/ HandleRun \/ HandleGet \/ HandleDisable \/ HandleEnable \/ Reply
    BY <2>1 DEF Receive, Lock, HandleRun, HandleGet, HandleDisable, HandleEnable, Reply, Step,
                shared, main, motor, history
  <2>2. CASE CommandWrite("first", "second", 1) \/ CommandWrite("second", "param_servo", 2)
               \/ WriteServo
    BY <2>2 DEF CommandWrite, WriteServo, Step, Set_w_ref, Set_servo, shared, main, motor, history
  <2>3. CASE Change
    BY <2>3 DEF Change, Step, shared, main, motor
  <2>4. CASE MotorFree \/ MotorServo
    BY <2>4 DEF MotorFree, MotorServo, Step, Set_servo, shared, main, motor, history
  <2>5. CASE Done
    BY <2>5 DEF Done, Step, shared, main, motor, history
  <2>6. QED
    BY <1>3, <2>1, <2>2, <2>3, <2>4, <2>5 DEF CommandThread
<1>4. CASE Period
  BY <1>4 DEF Period, shared, command
<1>5. CASE AskAny \/ DieAny \/ (\E c \in Clients : Answer(c))
  BY <1>5 DEF AskAny, DieAny, Ask, Die, Answer, shared, main, command, motor, history
<1>6. CASE UNCHANGED vars
  BY <1>6 DEF vars, shared, main, command, motor, history
<1>7. QED
  BY <1>1, <1>2, <1>3, <1>4, <1>5, <1>6 DEF Next

\* When the robot is to run and no command is being handled, the servo is not
\* switched off; unless the start-up was raced by a command.
THEOREM ServoFollowsMode == Spec => []ServoOn
<1>1. ServoInv => ServoOn
  BY DEF ServoInv, ServoOn
<1>2. QED
  BY <1>1, ServoInit, ServoStep, PTL DEF Spec
-----------------------------------------------------------------------------
(* The watchdog.                                                           *)

\* While nothing is to blame: between two control cycles the watchdog counts no more
\* than the time since the last one, and every cycle resets it.
DogInv ==
  ~blamed =>
    /\ Booting => dog = 0 /\ since = Cycle
    /\ pc \notin StartUp \ {"servo"} => States \subseteq g_state
    /\ pc \notin {"velocity_first", "velocity_second", "velocity_servo"} => level # "STOP"
    /\ pc \in {"read", "control"} /\ since < Cycle => dog <= since
    /\ pc = "read" /\ ~packet => dog = 0 \/ since < Cycle
    /\ pc \in {"second", "unlock"} => dog = 0

LEMMA DogInit == Init => DogInv
BY DEF Init, DogInv, Booting, StartUp

\* No packet is due, and the main thread is not in its start-up, when a period ends.
LEMMA DogPeriod == TypeOK /\ MutexInv /\ DogInv /\ Period => DogInv'
<1> SUFFICES ASSUME TypeOK, MutexInv, DogInv, Period, ~blamed' PROVE DogInv'
  BY DEF DogInv
<1>1. ~blamed /\ cpc # "reply"
  BY Zenon DEF Period
<1>2. cpc = "receive"
  BY <1>1 DEF Period, CommandWaits
<1>3. mutex # "command"
  BY <1>2 DEF MutexInv, CommandHolds
<1>4. pc = "read" /\ ~packet
  <2>1. CASE pc = "lock" /\ mutex # "free"
    BY <1>3, <2>1 DEF TypeOK, PlaceOK, MutexInv, MainHolds
  <2>2. QED
    BY <2>1 DEF Period, MainWaits
<1>5. pc' = pc /\ g_state' = g_state
  BY DEF Period, shared
<1>6. since \in 0 .. Cycle /\ dog \in 0 .. WatchDog
  BY DEF TypeOK, ClockOK
<1>7. dog < WatchDog
  BY <1>1, <1>4, <1>6, TimeAssumption DEF DogInv
<1>8. /\ dog' = dog + 1 /\ packet' = TRUE /\ level' = level
      /\ since' = IF since < Cycle THEN since + 1 ELSE since
  BY <1>6, <1>7, TimeAssumption DEF Period
<1>9. since' < Cycle => dog' <= since'
  BY <1>1, <1>4, <1>6, <1>8, TimeAssumption DEF DogInv
<1>10. QED
  BY <1>1, <1>4, <1>5, <1>8, <1>9 DEF DogInv, Booting, StartUp

LEMMA DogStep == TypeOK /\ MutexInv /\ DogInv /\ [Next]_vars => DogInv'
<1> SUFFICES ASSUME TypeOK, MutexInv, DogInv, [Next]_vars PROVE DogInv'
  OBVIOUS
<1>1. since \in Nat /\ dog \in Nat /\ g_run_mode \in Modes
  BY TimeAssumption DEF TypeOK, ClockOK, ModeOK
<1>2. CASE Period
  BY <1>2, DogPeriod
<1> USE DEF DogInv, Booting, StartUp
<1>3. CASE Boot
  <2>1. CASE \/ BootWrite("velocity_first", "velocity_second", 1)
             \/ BootWrite("velocity_second", "velocity_servo", 2)
             \/ BootWrite("robot_first", "robot_second", 1)
             \/ BootWrite("robot_second", "mode", 2)
    BY <2>1 DEF BootWrite, Goto, Set_w_ref, shared, history
  <2>2. CASE BootServo
    BY <2>2 DEF BootServo, Goto, Set_servo, shared, history
  <2>3. CASE BootMode
    BY <2>3 DEF BootMode, Goto, motor, history
  <2>4. CASE BootMotorServo
    BY <1>1, <2>4 DEF BootMotorServo, Goto, Set_servo, shared, motor, history
  <2>5. QED
    BY <1>3, <2>1, <2>2, <2>3, <2>4 DEF Boot
<1>4. CASE Read \/ NotDue \/ StartControl
  <2>1. CASE Read
    BY <2>1 DEF Read, Goto, shared, history
  <2>2. CASE NotDue
    BY <1>1, <2>2, TimeAssumption DEF NotDue, Due, Goto, States, shared, motor, history
  <2>3. CASE StartControl
    BY <2>3 DEF StartControl, Goto, shared, motor, history
  <2>4. QED
    BY <1>4, <2>1, <2>2, <2>3
<1>5. CASE Control
  <2>1. ~blamed => Sends
    BY <1>1, <1>5 DEF Control, Goto, Sends, Modes, States
  <2>2. QED
    BY <1>5, <2>1 DEF Control, Goto, motor, history
<1>6. CASE Write("first", "second", 1) \/ Write("second", "unlock", 2) \/ Unlock
  <2>1. CASE Write("first", "second", 1) \/ Write("second", "unlock", 2)
    BY <2>1 DEF Write, Goto, Set_w_ref, shared, history
  <2>2. CASE Unlock
    BY <1>1, <2>2 DEF Unlock, Goto, shared, motor, history
  <2>3. QED
    BY <1>6, <2>1, <2>2
<1>7. CASE HandleDisable
  BY <1>7 DEF HandleDisable
<1>8. CASE HandleRun \/ HandleEnable \/ Receive \/ Lock \/ HandleGet \/ Reply \/ Change \/ Done
  <2>1. g_state \subseteq g_state' /\ UNCHANGED <<blamed, pc, since, level, dog, packet>>
    BY <1>8 DEF HandleRun, HandleEnable, Receive, Lock, HandleGet, Reply, Change, Done,
                shared, main, motor, history
  <2>2. QED
    BY <2>1
<1>9. CASE CommandWrite("first", "second", 1) \/ CommandWrite("second", "param_servo", 2)
  BY <1>1, <1>9 DEF CommandWrite, Set_w_ref, shared, main, history
<1>10. CASE WriteServo \/ MotorFree \/ MotorServo
  BY <1>10 DEF WriteServo, MotorFree, MotorServo, Set_servo, shared, main, motor, history
<1>11. CASE AskAny \/ DieAny \/ (\E c \in Clients : Answer(c))
  BY <1>11 DEF AskAny, DieAny, Ask, Die, Answer, shared, main, motor, history
<1>12. CASE UNCHANGED vars
  BY <1>12 DEF vars, shared, main, motor, history
<1>13. QED
  BY <1>2, <1>3, <1>4, <1>5, <1>6, <1>7, <1>8, <1>9, <1>10, <1>11, <1>12
  DEF Next, Loop, CommandThread

\* The watchdog of the motor controller only bites when a state was disabled or the
\* command thread had to wait for room in the queue.
THEOREM WatchDogOnlyBitesWhen == Spec => []WatchDogSleeps
<1>1. Init => TypeOK /\ MutexInv /\ DogInv
  BY TypeInit, PairInit, DogInit
<1>2. TypeOK /\ MutexInv /\ DogInv /\ [Next]_vars => (TypeOK /\ MutexInv /\ DogInv)'
  BY TypeStep, MutexStep, DogStep
<1>3. DogInv => WatchDogSleeps
  BY DEF DogInv, WatchDogSleeps, Booting, StartUp
<1>4. QED
  BY <1>1, <1>2, <1>3, PTL DEF Spec

-----------------------------------------------------------------------------
(* The codec of the serial line (SerialLine).                              *)

\* What Value makes of eight bits: its recursion, written out.
LEMMA ValueOfEight ==
  ASSUME NEW b \in [0 .. 7 -> {0, 1}]
  PROVE  Value(b, 8) = 128 * b[0] + 64 * b[1] + 32 * b[2] + 16 * b[3] + 8 * b[4] + 4 * b[5] + 2 * b[6] + b[7]
<1> DEFINE F(f) == [i \in 0 .. 8 |-> IF i = 0 THEN 0 ELSE 2 * f[i - 1] + b[i - 1]]
           value == CHOOSE f : f = F(f)
<1>1. \A i \in 0 .. 7 : b[i] \in {0, 1}  OBVIOUS
<1>2. \E f : f = F(f)
  <2> DEFINE g == [i \in 0 .. 8 |->
          IF i = 0 THEN 0 ELSE IF i = 1 THEN b[0] ELSE IF i = 2 THEN 2 * b[0] + b[1]
          ELSE IF i = 3 THEN 4 * b[0] + 2 * b[1] + b[2]
          ELSE IF i = 4 THEN 8 * b[0] + 4 * b[1] + 2 * b[2] + b[3]
          ELSE IF i = 5 THEN 16 * b[0] + 8 * b[1] + 4 * b[2] + 2 * b[3] + b[4]
          ELSE IF i = 6 THEN 32 * b[0] + 16 * b[1] + 8 * b[2] + 4 * b[3] + 2 * b[4] + b[5]
          ELSE IF i = 7 THEN 64 * b[0] + 32 * b[1] + 16 * b[2] + 8 * b[3] + 4 * b[4] + 2 * b[5] + b[6]
          ELSE 128 * b[0] + 64 * b[1] + 32 * b[2] + 16 * b[3] + 8 * b[4] + 4 * b[5] + 2 * b[6] + b[7]]
  <2>1. \A i \in 0 .. 8 : g[i] = IF i = 0 THEN 0 ELSE 2 * g[i - 1] + b[i - 1]
    BY <1>1, SMTT(30)
  <2>2. g = F(g)  BY <2>1
  <2> QED  BY <2>2
<1>3. value = F(value)  BY <1>2
<1>4. Value(b, 8) = value[8]  BY DEF Value
<1> HIDE DEF value
<1>5. /\ value[0] = 0 /\ value[1] = 2 * value[0] + b[0] /\ value[2] = 2 * value[1] + b[1]
      /\ value[3] = 2 * value[2] + b[2] /\ value[4] = 2 * value[3] + b[3]
      /\ value[5] = 2 * value[4] + b[4] /\ value[6] = 2 * value[5] + b[5]
      /\ value[7] = 2 * value[6] + b[6] /\ value[8] = 2 * value[7] + b[7]
  BY <1>3
<1> QED  BY <1>1, <1>4, <1>5

\* What Value makes of six bits.
LEMMA ValueOfSix ==
  ASSUME NEW b \in [0 .. 5 -> {0, 1}]
  PROVE  Value(b, 6) = 32 * b[0] + 16 * b[1] + 8 * b[2] + 4 * b[3] + 2 * b[4] + b[5]
<1> DEFINE F(f) == [i \in 0 .. 6 |-> IF i = 0 THEN 0 ELSE 2 * f[i - 1] + b[i - 1]]
           value == CHOOSE f : f = F(f)
<1>1. \A i \in 0 .. 5 : b[i] \in {0, 1}  OBVIOUS
<1>2. \E f : f = F(f)
  <2> DEFINE g == [i \in 0 .. 6 |->
          IF i = 0 THEN 0 ELSE IF i = 1 THEN b[0] ELSE IF i = 2 THEN 2 * b[0] + b[1]
          ELSE IF i = 3 THEN 4 * b[0] + 2 * b[1] + b[2]
          ELSE IF i = 4 THEN 8 * b[0] + 4 * b[1] + 2 * b[2] + b[3]
          ELSE IF i = 5 THEN 16 * b[0] + 8 * b[1] + 4 * b[2] + 2 * b[3] + b[4]
          ELSE 32 * b[0] + 16 * b[1] + 8 * b[2] + 4 * b[3] + 2 * b[4] + b[5]]
  <2>1. \A i \in 0 .. 6 : g[i] = IF i = 0 THEN 0 ELSE 2 * g[i - 1] + b[i - 1]
    BY <1>1, SMTT(30)
  <2>2. g = F(g)  BY <2>1
  <2> QED  BY <2>2
<1>3. value = F(value)  BY <1>2
<1>4. Value(b, 6) = value[6]  BY DEF Value
<1> HIDE DEF value
<1>5. /\ value[0] = 0 /\ value[1] = 2 * value[0] + b[0] /\ value[2] = 2 * value[1] + b[1]
      /\ value[3] = 2 * value[2] + b[2] /\ value[4] = 2 * value[3] + b[3]
      /\ value[5] = 2 * value[4] + b[4] /\ value[6] = 2 * value[5] + b[5]
  BY <1>3
<1> QED  BY <1>1, <1>4, <1>5

\* The powers of two in a byte.
LEMMA Powers ==
  /\ 2^0 = 1 /\ 2^1 = 2 /\ 2^2 = 4 /\ 2^3 = 8 /\ 2^4 = 16 /\ 2^5 = 32 /\ 2^6 = 64 /\ 2^7 = 128
OBVIOUS

\* A bit of a number is 0 or 1.
LEMMA Halves ==
  ASSUME NEW x \in Int, NEW i \in 0 .. 7
  PROVE  (x \div 2^i) % 2 \in {0, 1}
<1>1. 2^i \in {1, 2, 4, 8, 16, 32, 64, 128}
  <2>0. CASE i = 0  BY <2>0, Powers
  <2>1. CASE i = 1  BY <2>1, Powers
  <2>2. CASE i = 2  BY <2>2, Powers
  <2>3. CASE i = 3  BY <2>3, Powers
  <2>4. CASE i = 4  BY <2>4, Powers
  <2>5. CASE i = 5  BY <2>5, Powers
  <2>6. CASE i = 6  BY <2>6, Powers
  <2>7. CASE i = 7  BY <2>7, Powers
  <2> QED  BY <2>0, <2>1, <2>2, <2>3, <2>4, <2>5, <2>6, <2>7
<1>2. ASSUME NEW d \in {1, 2, 4, 8, 16, 32, 64, 128} PROVE (x \div d) % 2 \in {0, 1}
  BY <1>2
<1> QED  BY <1>1, <1>2

\* So is a bit of a sequence of bytes or of symbols, also beyond its end.
LEMMA BitRange ==
  ASSUME NEW s \in Seq(Int), NEW w \in {6, 8}, NEW j \in Nat
  PROVE  Bit(s, w, j) \in {0, 1}
<1>1. CASE j >= w * Len(s)  BY <1>1 DEF Bit
<1>2. CASE ~(j >= w * Len(s))
  <2>1. j \div w + 1 \in 1 .. Len(s)
    <3>1. Len(s) \in Nat  BY LenProperties
    <3>2. CASE w = 6  BY <1>2, <3>1, <3>2
    <3>3. CASE w = 8  BY <1>2, <3>1, <3>3
    <3> QED  BY <3>2, <3>3
  <2>2. s[j \div w + 1] \in Int  BY <2>1, ElementOfSeq
  <2>3. w - 1 - (j % w) \in 0 .. 7  OBVIOUS
  <2> HIDE DEF Bit
  <2>4. Bit(s, w, j) = (s[j \div w + 1] \div 2^(w - 1 - (j % w))) % 2  BY <1>2 DEF Bit
  <2> QED  BY <2>2, <2>3, <2>4, Halves
<1> QED  BY <1>1, <1>2

\* Six bits make a number below 64 ...
LEMMA ValueOfSixRange ==
  ASSUME NEW b \in [0 .. 5 -> {0, 1}]
  PROVE  Value(b, 6) \in 0 .. 63
<1> DEFINE v == Value(b, 6)
<1>1. v = 32 * b[0] + 16 * b[1] + 8 * b[2] + 4 * b[3] + 2 * b[4] + b[5]  BY ValueOfSix
<1> HIDE DEF v
<1>2. v \in 0 .. 63  BY <1>1
<1> QED  BY <1>2 DEF v

\* A symbol of encode() is six bits in a row ...
LEMMA NumberOfSix ==
  ASSUME NEW s \in Seq(Int), NEW to \in Nat
  PROVE  /\ Number(s, 8, to, 6) = 32 * Bit(s, 8, 6 * to) + 16 * Bit(s, 8, 6 * to + 1)
              + 8 * Bit(s, 8, 6 * to + 2) + 4 * Bit(s, 8, 6 * to + 3)
              + 2 * Bit(s, 8, 6 * to + 4) + Bit(s, 8, 6 * to + 5)
         /\ Number(s, 8, to, 6) \in 0 .. 63
<1> DEFINE b == [i \in 0 .. 5 |-> Bit(s, 8, to * 6 + i)]
<1>1. \A i \in 0 .. 5 : Bit(s, 8, to * 6 + i) \in {0, 1}
  <2>1. \A i \in 0 .. 5 : to * 6 + i \in Nat  OBVIOUS
  <2> QED  BY <2>1, BitRange
<1>2. b \in [0 .. 5 -> {0, 1}]  BY <1>1
<1>3. Number(s, 8, to, 6) = Value(b, 6)
  <2>1. 6 - 1 = 5  OBVIOUS
  <2> QED  BY <2>1 DEF Number
<1>4. /\ b[0] = Bit(s, 8, 6 * to) /\ b[1] = Bit(s, 8, 6 * to + 1) /\ b[2] = Bit(s, 8, 6 * to + 2)
      /\ b[3] = Bit(s, 8, 6 * to + 3) /\ b[4] = Bit(s, 8, 6 * to + 4) /\ b[5] = Bit(s, 8, 6 * to + 5)
  <2>1. to * 6 + 0 = 6 * to /\ to * 6 = 6 * to  OBVIOUS
  <2> QED  BY <2>1
<1>5. \A i \in 0 .. 5 : b[i] \in {0, 1}  BY <1>2
<1>6. Value(b, 6) = 32 * b[0] + 16 * b[1] + 8 * b[2] + 4 * b[3] + 2 * b[4] + b[5]
  BY <1>2, ValueOfSix
<1> HIDE DEF b
<1>7. Value(b, 6) \in 0 .. 63  BY <1>2, ValueOfSixRange
<1> QED  BY <1>3, <1>4, <1>6, <1>7

\* ... and eight bits one below 256.
LEMMA ValueOfEightRange ==
  ASSUME NEW b \in [0 .. 7 -> {0, 1}]
  PROVE  Value(b, 8) \in 0 .. 255
<1> DEFINE v == Value(b, 8)
<1>1. v = 128 * b[0] + 64 * b[1] + 32 * b[2] + 16 * b[3] + 8 * b[4] + 4 * b[5] + 2 * b[6] + b[7]  BY ValueOfEight
<1> HIDE DEF v
<1>2. v \in 0 .. 255  BY <1>1
<1> QED  BY <1>2 DEF v

\* ... and a byte of the decoders eight.
LEMMA NumberOfEight ==
  ASSUME NEW s \in Seq(Int), NEW to \in Nat
  PROVE  /\ Number(s, 6, to, 8) = 128 * Bit(s, 6, 8 * to) + 64 * Bit(s, 6, 8 * to + 1)
              + 32 * Bit(s, 6, 8 * to + 2) + 16 * Bit(s, 6, 8 * to + 3)
              + 8 * Bit(s, 6, 8 * to + 4) + 4 * Bit(s, 6, 8 * to + 5)
              + 2 * Bit(s, 6, 8 * to + 6) + Bit(s, 6, 8 * to + 7)
         /\ Number(s, 6, to, 8) \in 0 .. 255
<1> DEFINE b == [i \in 0 .. 7 |-> Bit(s, 6, to * 8 + i)]
<1>1. \A i \in 0 .. 7 : Bit(s, 6, to * 8 + i) \in {0, 1}
  <2>1. \A i \in 0 .. 7 : to * 8 + i \in Nat  OBVIOUS
  <2> QED  BY <2>1, BitRange
<1>2. b \in [0 .. 7 -> {0, 1}]  BY <1>1
<1>3. Number(s, 6, to, 8) = Value(b, 8)
  <2>1. 8 - 1 = 7  OBVIOUS
  <2> QED  BY <2>1 DEF Number
<1>4. /\ b[0] = Bit(s, 6, 8 * to) /\ b[1] = Bit(s, 6, 8 * to + 1) /\ b[2] = Bit(s, 6, 8 * to + 2)
      /\ b[3] = Bit(s, 6, 8 * to + 3) /\ b[4] = Bit(s, 6, 8 * to + 4) /\ b[5] = Bit(s, 6, 8 * to + 5)
      /\ b[6] = Bit(s, 6, 8 * to + 6) /\ b[7] = Bit(s, 6, 8 * to + 7)
  <2>1. to * 8 + 0 = 8 * to /\ to * 8 = 8 * to  OBVIOUS
  <2> QED  BY <2>1
<1>5. \A i \in 0 .. 7 : b[i] \in {0, 1}  BY <1>2
<1>6. Value(b, 8) = 128 * b[0] + 64 * b[1] + 32 * b[2] + 16 * b[3] + 8 * b[4] + 4 * b[5] + 2 * b[6] + b[7]
  BY <1>2, ValueOfEight
<1> HIDE DEF b
<1>7. Value(b, 8) \in 0 .. 255  BY <1>2, ValueOfEightRange
<1> QED  BY <1>3, <1>4, <1>6, <1>7

\* The bits of a symbol are those that it was made of.
LEMMA BitsOfSymbol ==
  ASSUME NEW b \in [0 .. 5 -> {0, 1}], NEW y \in 0 .. 63, NEW i \in 0 .. 5,
         y = 32 * b[0] + 16 * b[1] + 8 * b[2] + 4 * b[3] + 2 * b[4] + b[5]
  PROVE  (y \div 2^(5 - i)) % 2 = b[i]
<1>1. \A k \in 0 .. 5 : b[k] \in {0, 1}  OBVIOUS
<1>3. (y \div 32) % 2 = b[0]  BY <1>1
<1>4. (y \div 16) % 2 = b[1]  BY <1>1
<1>5. (y \div 8) % 2 = b[2]  BY <1>1
<1>6. (y \div 4) % 2 = b[3]  BY <1>1
<1>7. (y \div 2) % 2 = b[4]  BY <1>1
<1>8. (y \div 1) % 2 = b[5]  BY <1>1
<1>10. CASE i = 0
  <2>1. 5 - i = 5  BY <1>10
  <2> QED  BY <1>3, <1>10, <2>1, Powers
<1>11. CASE i = 1
  <2>1. 5 - i = 4  BY <1>11
  <2> QED  BY <1>4, <1>11, <2>1, Powers
<1>12. CASE i = 2
  <2>1. 5 - i = 3  BY <1>12
  <2> QED  BY <1>5, <1>12, <2>1, Powers
<1>13. CASE i = 3
  <2>1. 5 - i = 2  BY <1>13
  <2> QED  BY <1>6, <1>13, <2>1, Powers
<1>14. CASE i = 4
  <2>1. 5 - i = 1  BY <1>14
  <2> QED  BY <1>7, <1>14, <2>1, Powers
<1>15. CASE i = 5
  <2>1. 5 - i = 0  BY <1>15
  <2> QED  BY <1>8, <1>15, <2>1, Powers
<1> QED  BY <1>10, <1>11, <1>12, <1>13, <1>14, <1>15

\* A byte is made of its bits.
LEMMA BitsOfByte ==
  ASSUME NEW x \in 0 .. 255
  PROVE  x = 128 * ((x \div 128) % 2) + 64 * ((x \div 64) % 2) + 32 * ((x \div 32) % 2)
               + 16 * ((x \div 16) % 2) + 8 * ((x \div 8) % 2) + 4 * ((x \div 4) % 2)
               + 2 * ((x \div 2) % 2) + ((x \div 1) % 2)
OBVIOUS

\* The symbols of a packet.
Symbols(e) == IF e = "sh_spur" THEN 11 ELSE 8

\* A function on 1 .. m is a sequence of length m: of bytes ...
LEMMA PayloadSeq ==
  ASSUME NEW m \in Nat, NEW p \in [1 .. m -> 0 .. 255]
  PROVE  p \in Seq(Int) /\ p \in Seq(0 .. 255) /\ Len(p) = m
<1>1. p \in Seq(0 .. 255)  BY SeqDef
<1>2. DOMAIN p = 1 .. Len(p) /\ Len(p) \in Nat /\ DOMAIN p = 1 .. m  BY <1>1, LenProperties
<1>3. 0 .. 255 \subseteq Int  OBVIOUS
<1>4. p \in Seq(Int)  BY <1>1, <1>3, SeqMonotonic
<1>5. \A x \in Int : x \in 1 .. Len(p) <=> x \in 1 .. m  BY <1>2
<1>6. Len(p) = m  BY <1>2, <1>5
<1> QED  BY <1>1, <1>4, <1>6

\* When the symbols begin with those that encode() made of p, the bytes that are decoded
\* begin with those of p: bit j of the data is bit j of the symbols, for every j.
LEMMA ByteKept ==
  ASSUME NEW e, NEW p \in [1 .. Size(e) -> 0 .. 255],
         NEW symbol \in Seq(Int), Len(symbol) >= Symbols(e),
         \A q \in 1 .. Symbols(e) : symbol[q] = Number(p, 8, q - 1, 6),
         NEW k \in 1 .. Size(e)
  PROVE  Number(symbol, 6, k - 1, 8) = p[k]
<1> DEFINE m == Size(e)
           n == Symbols(e)
<1>1. (m = 8 /\ n = 11) \/ (m = 6 /\ n = 8)  BY DEF Size, Symbols
<1>2. p \in Seq(Int) /\ Len(p) = m
  <2>1. Size(e) \in Nat  BY <1>1
  <2> QED  BY <2>1, PayloadSeq, Zenon
<1>3. Len(symbol) \in Nat  BY LenProperties
<1> HIDE DEF m, n
<1>4. ASSUME NEW j \in 0 .. (8 * m - 1) PROVE Bit(symbol, 6, j) = Bit(p, 8, j)
  <2> DEFINE q == j \div 6
             r == j % 6
             b == [i \in 0 .. 5 |-> Bit(p, 8, 6 * q + i)]
  <2>1. q \in 0 .. n - 1 /\ r \in 0 .. 5 /\ j = 6 * q + r /\ j < 6 * n /\ q \in Nat
    <3>1. CASE m = 8 /\ n = 11  BY <3>1
    <3>2. CASE m = 6 /\ n = 8  BY <3>2
    <3> QED  BY <1>1, <3>1, <3>2
  <2>2. ~(j >= 6 * Len(symbol))  BY <1>1, <1>3, <2>1 DEF n
  <2>3. Bit(symbol, 6, j) = (symbol[q + 1] \div 2^(5 - r)) % 2
    <3>1. 6 - 1 - r = 5 - r  BY <2>1
    <3> QED  BY <2>2, <3>1 DEF Bit
  <2>4. symbol[q + 1] = Number(p, 8, q, 6)
    <3>1. q + 1 \in 1 .. n /\ q + 1 - 1 = q  BY <1>1, <2>1
    <3> HIDE DEF q
    <3>2. ASSUME NEW a \in 0 .. n - 1 PROVE symbol[a + 1] = Number(p, 8, a, 6)
      <4>1. a + 1 \in 1 .. Symbols(e) /\ a + 1 - 1 = a  BY <1>1 DEF n
      <4>2. symbol[a + 1] = Number(p, 8, a + 1 - 1, 6)  BY <4>1
      <4> QED  BY <4>1, <4>2
    <3> QED  BY <2>1, <3>2, Zenon
  <2> HIDE DEF q, r
  <2>5. b \in [0 .. 5 -> {0, 1}]
    <3>1. \A i \in 0 .. 5 : 6 * q + i \in Nat  BY <2>1
    <3> QED  BY <1>2, <3>1, BitRange
  <2>6. /\ Number(p, 8, q, 6) = 32 * b[0] + 16 * b[1] + 8 * b[2] + 4 * b[3] + 2 * b[4] + b[5]
        /\ Number(p, 8, q, 6) \in 0 .. 63
    <3>1. b[0] = Bit(p, 8, 6 * q)
      <4>1. 6 * q + 0 = 6 * q  BY <2>1
      <4> QED  BY <4>1
    <3>2. /\ b[1] = Bit(p, 8, 6 * q + 1) /\ b[2] = Bit(p, 8, 6 * q + 2)
          /\ b[3] = Bit(p, 8, 6 * q + 3) /\ b[4] = Bit(p, 8, 6 * q + 4) /\ b[5] = Bit(p, 8, 6 * q + 5)
      OBVIOUS
    <3> HIDE DEF b
    <3>3. /\ Number(p, 8, q, 6) = 32 * Bit(p, 8, 6 * q) + 16 * Bit(p, 8, 6 * q + 1)
              + 8 * Bit(p, 8, 6 * q + 2) + 4 * Bit(p, 8, 6 * q + 3)
              + 2 * Bit(p, 8, 6 * q + 4) + Bit(p, 8, 6 * q + 5)
          /\ Number(p, 8, q, 6) \in 0 .. 63
      BY <1>2, <2>1, NumberOfSix
    <3> QED  BY <3>1, <3>2, <3>3
  <2>7. b[r] = Bit(p, 8, j)  BY <2>1
  <2> HIDE DEF b
  <2>8. (Number(p, 8, q, 6) \div 2^(5 - r)) % 2 = b[r]  BY <2>1, <2>5, <2>6, BitsOfSymbol
  <2> QED  BY <2>3, <2>4, <2>7, <2>8
<1>5. ASSUME NEW i \in 0 .. 7
      PROVE  /\ Bit(p, 8, 8 * (k - 1) + i) = (p[k] \div 2^(7 - i)) % 2
             /\ 8 * (k - 1) + i \in 0 .. (8 * m - 1)
  <2> DEFINE j == 8 * (k - 1) + i
  <2>1. k \in 1 .. m /\ m \in Nat  BY <1>1 DEF m
  <2>2. j \in 0 .. (8 * m - 1) /\ j \div 8 + 1 = k /\ j % 8 = i /\ ~(j >= 8 * Len(p)) /\ 8 - 1 - (j % 8) = 7 - i
    <3>1. \A a \in Nat : (8 * a + i) \div 8 = a /\ (8 * a + i) % 8 = i  OBVIOUS
    <3>2. k - 1 \in Nat /\ k - 1 < m  BY <2>1
    <3>3. j \div 8 = k - 1 /\ j % 8 = i  BY <3>1, <3>2
    <3>4. j \in 0 .. (8 * m - 1) /\ ~(j >= 8 * m)  BY <2>1, <3>2
    <3> HIDE DEF j
    <3> QED  BY <1>2, <2>1, <3>3, <3>4
  <2> HIDE DEF j
  <2>3. Bit(p, 8, j) = (p[k] \div 2^(7 - i)) % 2  BY <2>2 DEF Bit
  <2> QED  BY <2>2, <2>3 DEF j
<1>6. k - 1 \in Nat /\ p[k] \in 0 .. 255
  <2>1. k \in 1 .. m /\ m \in Nat  BY <1>1 DEF m
  <2>2. k - 1 \in Nat  BY <2>1
  <2>3. p[k] \in 0 .. 255  OBVIOUS
  <2> QED  BY <2>2, <2>3
<1> DEFINE c(i) == Bit(symbol, 6, 8 * (k - 1) + i)
<1>7. /\ Bit(symbol, 6, 8 * (k - 1)) = (p[k] \div 128) % 2
      /\ Bit(symbol, 6, 8 * (k - 1) + 1) = (p[k] \div 64) % 2
      /\ Bit(symbol, 6, 8 * (k - 1) + 2) = (p[k] \div 32) % 2
      /\ Bit(symbol, 6, 8 * (k - 1) + 3) = (p[k] \div 16) % 2
      /\ Bit(symbol, 6, 8 * (k - 1) + 4) = (p[k] \div 8) % 2
      /\ Bit(symbol, 6, 8 * (k - 1) + 5) = (p[k] \div 4) % 2
      /\ Bit(symbol, 6, 8 * (k - 1) + 6) = (p[k] \div 2) % 2
      /\ Bit(symbol, 6, 8 * (k - 1) + 7) = (p[k] \div 1) % 2
  <2>1. \A i \in 0 .. 7 : Bit(symbol, 6, 8 * (k - 1) + i) = (p[k] \div 2^(7 - i)) % 2
    BY <1>4, <1>5
  <2>2. 8 * (k - 1) + 0 = 8 * (k - 1)  BY <1>6
  <2>3. /\ 7 - 0 = 7 /\ 7 - 1 = 6 /\ 7 - 2 = 5 /\ 7 - 3 = 4 /\ 7 - 4 = 3 /\ 7 - 5 = 2 /\ 7 - 6 = 1 /\ 7 - 7 = 0
    OBVIOUS
  <2>4. /\ 0 \in 0 .. 7 /\ 1 \in 0 .. 7 /\ 2 \in 0 .. 7 /\ 3 \in 0 .. 7
        /\ 4 \in 0 .. 7 /\ 5 \in 0 .. 7 /\ 6 \in 0 .. 7 /\ 7 \in 0 .. 7
    OBVIOUS
  <2>5. /\ Bit(symbol, 6, 8 * (k - 1) + 0) = (p[k] \div 2^(7 - 0)) % 2
        /\ Bit(symbol, 6, 8 * (k - 1) + 1) = (p[k] \div 2^(7 - 1)) % 2
        /\ Bit(symbol, 6, 8 * (k - 1) + 2) = (p[k] \div 2^(7 - 2)) % 2
        /\ Bit(symbol, 6, 8 * (k - 1) + 3) = (p[k] \div 2^(7 - 3)) % 2
        /\ Bit(symbol, 6, 8 * (k - 1) + 4) = (p[k] \div 2^(7 - 4)) % 2
        /\ Bit(symbol, 6, 8 * (k - 1) + 5) = (p[k] \div 2^(7 - 5)) % 2
        /\ Bit(symbol, 6, 8 * (k - 1) + 6) = (p[k] \div 2^(7 - 6)) % 2
        /\ Bit(symbol, 6, 8 * (k - 1) + 7) = (p[k] \div 2^(7 - 7)) % 2
    BY <2>1, <2>4, Zenon
  <2> QED  BY <2>2, <2>3, <2>5, Powers
<1>8. Number(symbol, 6, k - 1, 8)
        = 128 * Bit(symbol, 6, 8 * (k - 1)) + 64 * Bit(symbol, 6, 8 * (k - 1) + 1)
              + 32 * Bit(symbol, 6, 8 * (k - 1) + 2) + 16 * Bit(symbol, 6, 8 * (k - 1) + 3)
              + 8 * Bit(symbol, 6, 8 * (k - 1) + 4) + 4 * Bit(symbol, 6, 8 * (k - 1) + 5)
              + 2 * Bit(symbol, 6, 8 * (k - 1) + 6) + Bit(symbol, 6, 8 * (k - 1) + 7)
  BY <1>6, NumberOfEight
<1> QED  BY <1>6, <1>7, <1>8, BitsOfByte

\* What encode() makes of the data of a packet.
LEMMA EncodeFacts ==
  ASSUME NEW e, NEW p \in [1 .. Size(e) -> 0 .. 255]
  PROVE  /\ Encode(p) \in Seq(0 .. 255) /\ Len(Encode(p)) = Symbols(e) + 2
         /\ Encode(p)[1] = STX /\ Encode(p)[Symbols(e) + 2] = ETX
         /\ \A i \in 1 .. Symbols(e) : /\ Encode(p)[i + 1] = 64 + Number(p, 8, i - 1, 6)
                                       /\ Number(p, 8, i - 1, 6) \in 0 .. 63
<1> DEFINE n == Symbols(e)
           mid == [k \in 1 .. n |-> 64 + Number(p, 8, k - 1, 6)]
<1>1. (Size(e) = 8 /\ n = 11) \/ (Size(e) = 6 /\ n = 8)  BY DEF Size, Symbols
<1>2. p \in Seq(Int) /\ Len(p) = Size(e)
  <2>1. Size(e) \in Nat  BY <1>1
  <2> QED  BY <2>1, PayloadSeq, Zenon
<1>3. n \in Nat /\ n = (8 * Len(p) + 4) \div 6
  <2>1. CASE Size(e) = 8 /\ n = 11  BY <1>2, <2>1
  <2>2. CASE Size(e) = 6 /\ n = 8  BY <1>2, <2>2
  <2> QED  BY <1>1, <2>1, <2>2
<1>4. Encode(p) = <<STX>> \o mid \o <<ETX>>  BY <1>3 DEF Encode
<1> HIDE DEF n
<1>5. \A i \in 1 .. n : Number(p, 8, i - 1, 6) \in 0 .. 63
  <2>1. \A i \in 1 .. n : i - 1 \in Nat  BY <1>3
  <2> QED  BY <1>2, <2>1, NumberOfSix
<1>6. mid \in [1 .. n -> 0 .. 255]
  <2>1. \A i \in 1 .. n : 64 + Number(p, 8, i - 1, 6) \in 0 .. 255
    <3>1. \A x \in 0 .. 63 : 64 + x \in 0 .. 255  OBVIOUS
    <3> QED  BY <1>5, <3>1
  <2> QED  BY <2>1, Zenon
<1>7. mid \in Seq(0 .. 255) /\ Len(mid) = n  BY <1>3, <1>6, PayloadSeq
<1>8. \A i \in 1 .. n : mid[i] = 64 + Number(p, 8, i - 1, 6)  OBVIOUS
<1> HIDE DEF mid
<1>9. <<STX>> \in Seq(0 .. 255) /\ Len(<<STX>>) = 1 /\ <<STX>>[1] = STX
      /\ <<ETX>> \in Seq(0 .. 255) /\ Len(<<ETX>>) = 1 /\ <<ETX>>[1] = ETX
  BY DEF STX, ETX
<1> DEFINE front == <<STX>> \o mid
<1>10. /\ front \in Seq(0 .. 255) /\ Len(front) = n + 1
       /\ front[1] = STX /\ \A i \in 1 .. n : front[i + 1] = mid[i]
  <2>1. /\ front \in Seq(0 .. 255) /\ Len(front) = 1 + n
        /\ \A i \in 1 .. 1 + n : front[i] = IF i <= 1 THEN <<STX>>[i] ELSE mid[i - 1]
    BY <1>7, <1>9, ConcatProperties
  <2> HIDE DEF front
  <2>2. Len(front) = n + 1  BY <1>3, <2>1
  <2>3. front[1] = STX
    <3>1. 1 \in 1 .. 1 + n /\ 1 <= 1  BY <1>3
    <3>2. front[1] = <<STX>>[1]  BY <2>1, <3>1
    <3> QED  BY <1>9, <3>2
  <2>4. ASSUME NEW i \in 1 .. n PROVE front[i + 1] = mid[i]
    <3>1. i + 1 \in 1 .. 1 + n /\ ~(i + 1 <= 1) /\ i + 1 - 1 = i  BY <1>3
    <3>2. front[i + 1] = mid[i + 1 - 1]  BY <2>1, <3>1
    <3> QED  BY <3>1, <3>2
  <2> QED  BY <2>1, <2>2, <2>3, <2>4
<1> HIDE DEF front
<1>11. /\ front \o <<ETX>> \in Seq(0 .. 255) /\ Len(front \o <<ETX>>) = n + 2
       /\ \A i \in 1 .. n + 1 : (front \o <<ETX>>)[i] = front[i]
       /\ (front \o <<ETX>>)[n + 2] = ETX
  <2>1. /\ front \o <<ETX>> \in Seq(0 .. 255) /\ Len(front \o <<ETX>>) = n + 1 + 1
        /\ \A i \in 1 .. n + 1 + 1 : (front \o <<ETX>>)[i] = IF i <= n + 1 THEN front[i] ELSE <<ETX>>[i - (n + 1)]
    BY <1>9, <1>10, ConcatProperties
  <2> QED  BY <1>3, <1>9, <2>1
<1>12. Encode(p) = front \o <<ETX>>  BY <1>4 DEF front
<1>13. \A i \in 1 .. n : i + 1 \in 1 .. n + 1  BY <1>3
<1>14. 1 \in 1 .. n + 1  BY <1>3
<1>15. n = Symbols(e)  BY DEF n
<1>16. \A i \in 1 .. n : Encode(p)[i + 1] = 64 + Number(p, 8, i - 1, 6)
  BY <1>8, <1>10, <1>11, <1>12, <1>13
<1>17. \A i \in 1 .. Symbols(e) : /\ Encode(p)[i + 1] = 64 + Number(p, 8, i - 1, 6)
                                    /\ Number(p, 8, i - 1, 6) \in 0 .. 63
  BY <1>5, <1>15, <1>16, Zenon
<1>18. Encode(p) \in Seq(0 .. 255) /\ Len(Encode(p)) = n + 2 /\ Encode(p)[1] = STX /\ Encode(p)[n + 2] = ETX
  BY <1>10, <1>11, <1>12, <1>14
<1> QED  BY <1>15, <1>17, <1>18, Zenon

\* Decoded bytes are written over the old ones ...
LEMMA OverlayType ==
  ASSUME NEW m \in Nat, NEW old \in [1 .. m -> 0 .. 255], NEW n \in Nat,
         NEW new \in [1 .. n -> 0 .. 255], NEW most \in Nat
  PROVE  Overlay(old, new, most) \in [1 .. m -> 0 .. 255]
<1>1. Len(new) = n  BY PayloadSeq
<1>2. \A i \in 1 .. n : new[i] \in 0 .. 255  OBVIOUS
<1>3. \A i \in 1 .. m : i <= n => i \in 1 .. n  OBVIOUS
<1> QED  BY <1>1, <1>2, <1>3 DEF Overlay

\* ... over all of them, if there are enough.
LEMMA OverlayWhole ==
  ASSUME NEW m \in Nat, NEW old \in [1 .. m -> 0 .. 255], NEW n \in Nat,
         NEW new \in [1 .. n -> 0 .. 255], NEW most \in Nat, m <= n, m <= most
  PROVE  \A i \in 1 .. m : Overlay(old, new, most)[i] = new[i]
<1>1. Len(new) = n  BY PayloadSeq
<1>2. \A i \in 1 .. m : i <= n /\ i <= most  OBVIOUS
<1> QED  BY <1>1, <1>2 DEF Overlay

\* What DTC_receive() makes of a symbol is its six bits.
LEMMA LowBits ==
  \A x \in 0 .. 63 : (64 + x) % 64 = x
OBVIOUS

\* What it makes of any byte is a number.
LEMMA LowRange ==
  \A x \in 0 .. 255 : x % 64 \in Int
OBVIOUS

\* Whatever the symbols, bytes come out of them.
LEMMA BytesOf ==
  ASSUME NEW n \in Nat, NEW symbol \in Seq(Int)
  PROVE  [k \in 1 .. n |-> Number(symbol, 6, k - 1, 8)] \in [1 .. n -> 0 .. 255]
<1>1. \A k \in 1 .. n : k - 1 \in Nat  OBVIOUS
<1>2. \A k \in 1 .. n : Number(symbol, 6, k - 1, 8) \in 0 .. 255  BY <1>1, NumberOfEight
<1> QED  BY <1>2

\* The bytes begin with the packet of p.
Begins(c, e, p) ==
  Len(c) >= Symbols(e) + 2 /\ \A i \in 1 .. Symbols(e) + 1 : c[i] = Encode(p)[i]

\* ... and of integers.
LEMMA IntSeq ==
  ASSUME NEW m \in Nat, NEW p \in [1 .. m -> Int]
  PROVE  p \in Seq(Int) /\ Len(p) = m
<1>1. p \in Seq(Int)  BY SeqDef
<1>2. DOMAIN p = 1 .. Len(p) /\ Len(p) \in Nat /\ DOMAIN p = 1 .. m  BY <1>1, LenProperties
<1>3. \A x \in Int : x \in 1 .. Len(p) <=> x \in 1 .. m  BY <1>2
<1>4. Len(p) = m  BY <1>2, <1>3
<1> QED  BY <1>1, <1>4

\* A set of numbers up to m has a greatest one.
LEMMA GreatestOf ==
  ASSUME NEW m \in Nat, NEW S \in SUBSET (1 .. m), S # {}
  PROVE  \E k \in S : \A l \in S : l <= k
<1> DEFINE T == {i \in 0 .. m : m - i \in S}
<1>1. T \subseteq Nat  OBVIOUS
<1>2. T # {}
  <2>1. PICK k \in S : TRUE  OBVIOUS
  <2>2. m - k \in 0 .. m /\ m - (m - k) = k
    <3>1. k \in 1 .. m  BY <2>1
    <3> QED  BY <3>1
  <2> QED  BY <2>2
<1>3. PICK t \in T : \A u \in T : ~(<<u, t>> \in OpToRel(<, Nat))
  <2> HIDE DEF T
  <2> QED  BY <1>1, <1>2, NatLessThanWellFounded, WFMin
<1>4. ASSUME NEW l \in S PROVE l <= m - t
  <2>1. l \in 1 .. m /\ t \in 0 .. m  BY <1>3
  <2>2. m - l \in 0 .. m /\ m - (m - l) = l  BY <2>1
  <2>3. m - l \in T  BY <2>2
  <2>4. ~(<<m - l, t>> \in {r \in Nat \X Nat : r[1] < r[2]})  BY <1>3, <2>3 DEF OpToRel
  <2>5. ~(m - l < t)  BY <2>1, <2>2, <2>4
  <2> QED  BY <2>1, <2>5
<1> QED  BY <1>3, <1>4

\* decord() gets the data out of a buffer that begins with a packet of them, whatever is
\* behind, and bytes out of any buffer.
LEMMA DecordFacts ==
  ASSUME NEW c \in Seq(0 .. 255), Len(c) >= 2, NEW old \in [1 .. 8 -> 0 .. 255]
  PROVE  /\ Decord(c, old) \in [1 .. 8 -> 0 .. 255]
         /\ \A p \in [1 .. 8 -> 0 .. 255] : Begins(c, "sh_spur", p) => Decord(c, old) = p
<1> DEFINE src == SubSeq(c, 2, Len(c) - 1)
           n == Len(c) - 2
           Valid(i) == {k \in 1 .. i : src[k] >= 64}
           symbol == [i \in DOMAIN src |->
                        IF Valid(i) = {} THEN 0
                        ELSE src[CHOOSE k \in Valid(i) : \A l \in Valid(i) : l <= k] - 64]
           new == [k \in 1 .. ((6 * Len(src)) \div 8) |-> Number(symbol, 6, k - 1, 8)]
<1>1. Decord(c, old) = Overlay(old, new, 10)  BY DEF Decord
<1>2. n \in Nat /\ Len(c) \in Nat  BY LenProperties
<1>3. src \in Seq(0 .. 255) /\ Len(src) = n /\ DOMAIN src = 1 .. n /\ \A i \in 1 .. n : src[i] = c[i + 1]
  <2>1. ASSUME NEW i \in 2 .. Len(c) - 1 PROVE c[i] \in 0 .. 255
    <3>1. i \in 1 .. Len(c)  BY <1>2
    <3> QED  BY <3>1, ElementOfSeq
  <2>2. /\ src \in Seq(0 .. 255)
        /\ Len(src) = IF 2 <= Len(c) - 1 THEN Len(c) - 1 - 2 + 1 ELSE 0
        /\ \A i \in 1 .. Len(c) - 1 - 2 + 1 : src[i] = c[2 + i - 1]
    BY <1>2, <2>1, SubSeqProperties
  <2>3. Len(src) = n
    <3> DEFINE size == Len(src)
               k == Len(c)
    <3>1. size = (IF 2 <= k - 1 THEN k - 1 - 2 + 1 ELSE 0) /\ k \in Nat /\ k >= 2  BY <1>2, <2>2
    <3> HIDE DEF size, k
    <3>2. size = k - 2  BY <3>1
    <3> QED  BY <3>2 DEF size, k
  <2>4. DOMAIN src = 1 .. n  BY <2>2, <2>3, LenProperties
  <2>5. ASSUME NEW i \in 1 .. n PROVE src[i] = c[i + 1]
    <3>1. i \in 1 .. Len(c) - 1 - 2 + 1 /\ 2 + i - 1 = i + 1  BY <1>2
    <3> QED  BY <2>2, <3>1
  <2> QED  BY <2>2, <2>3, <2>4, <2>5
<1> HIDE DEF n
<1>4. \A i \in 1 .. n : src[i] \in Int
  <2>1. \A i \in 1 .. n : src[i] \in 0 .. 255  BY <1>3, ElementOfSeq
  <2>2. \A x \in 0 .. 255 : x \in Int  OBVIOUS
  <2> QED  BY <2>1, <2>2, Zenon
<1> HIDE DEF src
<1>5. ASSUME NEW i \in 1 .. n, Valid(i) # {} PROVE \E k \in Valid(i) : \A l \in Valid(i) : l <= k
  <2>1. Valid(i) \in SUBSET (1 .. i) /\ i \in Nat  BY <1>2
  <2> HIDE DEF Valid
  <2> QED  BY <1>5, <2>1, GreatestOf
<1>6. symbol \in [1 .. n -> Int]
  <2>1. ASSUME NEW i \in 1 .. n, Valid(i) # {}
        PROVE  src[CHOOSE k \in Valid(i) : \A l \in Valid(i) : l <= k] - 64 \in Int
    <3> DEFINE k == CHOOSE k \in Valid(i) : \A l \in Valid(i) : l <= k
    <3>1. k \in Valid(i)  BY <1>5, <2>1
    <3> HIDE DEF k
    <3>2. k \in 1 .. n  BY <1>2, <3>1
    <3>3. src[k] - 64 \in Int  BY <1>4, <3>2
    <3> QED  BY <3>3 DEF k
  <2>2. ASSUME NEW i \in 1 .. n
        PROVE  (IF Valid(i) = {} THEN 0
                ELSE src[CHOOSE k \in Valid(i) : \A l \in Valid(i) : l <= k] - 64) \in Int
    <3> HIDE DEF Valid
    <3>1. CASE Valid(i) = {}  BY <3>1
    <3>2. CASE Valid(i) # {}  BY <2>1, <3>2
    <3> QED  BY <3>1, <3>2
  <2>3. symbol = [i \in 1 .. n |->
                    IF Valid(i) = {} THEN 0
                    ELSE src[CHOOSE k \in Valid(i) : \A l \in Valid(i) : l <= k] - 64]
    BY <1>3
  <2> HIDE DEF Valid, symbol
  <2> QED  BY <2>2, <2>3
<1>7. symbol \in Seq(Int) /\ Len(symbol) = n
  <2> HIDE DEF symbol
  <2> QED  BY <1>2, <1>6, IntSeq
<1>8. new \in [1 .. ((6 * n) \div 8) -> 0 .. 255] /\ (6 * n) \div 8 \in Nat
  <2> HIDE DEF symbol
  <2>1. (6 * n) \div 8 \in Nat  BY <1>2
  <2>2. [k \in 1 .. ((6 * n) \div 8) |-> Number(symbol, 6, k - 1, 8)] \in [1 .. ((6 * n) \div 8) -> 0 .. 255]
    <3> DEFINE w == (6 * n) \div 8
    <3>1. w \in Nat /\ symbol \in Seq(Int)  BY <1>7, <2>1
    <3> HIDE DEF w
    <3>2. [k \in 1 .. w |-> Number(symbol, 6, k - 1, 8)] \in [1 .. w -> 0 .. 255]  BY <3>1, BytesOf, ZenonT(60)
    <3> QED  BY <3>2 DEF w
  <2> QED  BY <1>3, <2>1, <2>2
<1>11. /\ Overlay(old, new, 10) \in [1 .. 8 -> 0 .. 255]
       /\ 8 <= (6 * n) \div 8 => \A i \in 1 .. 8 : Overlay(old, new, 10)[i] = new[i]
  <2> DEFINE w == (6 * n) \div 8
  <2> HIDE DEF new, w
  <2>1. w \in Nat /\ new \in [1 .. w -> 0 .. 255]  BY <1>8 DEF w
  <2>2. 8 <= 10 /\ 8 \in Nat /\ 10 \in Nat  OBVIOUS
  <2>3. Overlay(old, new, 10) \in [1 .. 8 -> 0 .. 255]  BY <2>1, <2>2, OverlayType
  <2>4. ASSUME 8 <= w PROVE \A i \in 1 .. 8 : Overlay(old, new, 10)[i] = new[i]
    BY <2>1, <2>2, <2>4, OverlayWhole
  <2> QED  BY <2>2, <2>3, <2>4 DEF w
<1>9. ASSUME NEW p \in [1 .. 8 -> 0 .. 255], Begins(c, "sh_spur", p) PROVE Decord(c, old) = p
  <2>1. Symbols("sh_spur") = 11 /\ Size("sh_spur") = 8  BY DEF Symbols, Size
  <2>2. n >= 11 /\ \A i \in 1 .. 12 : c[i] = Encode(p)[i]
    BY <1>2, <1>9, <2>1 DEF Begins, n
  <2>3. \A i \in 1 .. 11 : /\ Encode(p)[i + 1] = 64 + Number(p, 8, i - 1, 6)
                           /\ Number(p, 8, i - 1, 6) \in 0 .. 63
    BY <2>1, EncodeFacts
  <2>4. ASSUME NEW i \in 1 .. 11 PROVE src[i] = 64 + Number(p, 8, i - 1, 6) /\ Number(p, 8, i - 1, 6) \in 0 .. 63
    <3>1. i \in 1 .. n /\ i + 1 \in 1 .. 12  BY <1>2, <2>2
    <3> QED  BY <1>3, <2>2, <2>3, <3>1
  <2>5. ASSUME NEW i \in 1 .. 11 PROVE symbol[i] = Number(p, 8, i - 1, 6)
    <3> DEFINE k == CHOOSE k \in Valid(i) : \A l \in Valid(i) : l <= k
    <3>1. i \in 1 .. n /\ i \in 1 .. i  BY <1>2, <2>2
    <3>2. src[i] >= 64
      <4>1. \A x \in 0 .. 63 : 64 + x >= 64  OBVIOUS
      <4> QED  BY <2>4, <4>1
    <3>3. i \in Valid(i)  BY <3>1, <3>2
    <3>4. k \in Valid(i) /\ \A l \in Valid(i) : l <= k  BY <1>5, <3>1, <3>3
    <3>5. symbol[i] = src[k] - 64  BY <1>3, <3>1, <3>3
    <3> HIDE DEF k
    <3>6. k = i
      <4>1. k \in 1 .. i /\ i <= k  BY <3>3, <3>4
      <4> QED  BY <4>1
    <3> HIDE DEF symbol, Valid
    <3>7. ASSUME NEW x \in 0 .. 63 PROVE (64 + x) - 64 = x  OBVIOUS
    <3>8. (64 + Number(p, 8, i - 1, 6)) - 64 = Number(p, 8, i - 1, 6)  BY <2>4, <3>7, ZenonT(60)
    <3>9. src[k] - 64 = (64 + Number(p, 8, i - 1, 6)) - 64  BY <2>4, <3>6, ZenonT(60)
    <3> QED  BY <3>5, <3>8, <3>9, Zenon
  <2> HIDE DEF symbol
  <2>6. \A k \in 1 .. 8 : Number(symbol, 6, k - 1, 8) = p[k]
    <3>1. Len(symbol) >= 11  BY <1>2, <1>7, <2>2
    <3>2. \A q \in 1 .. Symbols("sh_spur") : symbol[q] = Number(p, 8, q - 1, 6)  BY <2>1, <2>5
    <3>3. p \in [1 .. Size("sh_spur") -> 0 .. 255] /\ Len(symbol) >= Symbols("sh_spur")  BY <2>1, <3>1
    <3>4. \A k \in 1 .. Size("sh_spur") : Number(symbol, 6, k - 1, 8) = p[k]
      BY <1>7, <3>2, <3>3, ByteKept
    <3> QED  BY <2>1, <3>4
  <2>7. 8 <= (6 * n) \div 8 /\ \A k \in 1 .. 8 : k \in 1 .. ((6 * n) \div 8)  BY <1>2, <2>2
  <2>8. \A k \in 1 .. 8 : new[k] = p[k]  BY <1>3, <2>6, <2>7
  <2> HIDE DEF new
  <2>9. \A k \in 1 .. 8 : Overlay(old, new, 10)[k] = new[k]  BY <1>11, <2>7
  <2>10. Overlay(old, new, 10) \in [1 .. 8 -> 0 .. 255]  BY <1>11
  <2> QED  BY <1>1, <2>8, <2>9, <2>10
<1>10. Decord(c, old) \in [1 .. 8 -> 0 .. 255]  BY <1>1, <1>11
<1> QED  BY <1>9, <1>10

\* So does DTC_receive().
LEMMA DTCFacts ==
  ASSUME NEW c \in Seq(0 .. 255), Len(c) >= 2, NEW old \in [1 .. 6 -> 0 .. 255]
  PROVE  /\ DTC_decode(c, old) \in [1 .. 6 -> 0 .. 255]
         /\ \A p \in [1 .. 6 -> 0 .. 255] : Begins(c, "sh_vel", p) => DTC_decode(c, old) = p
<1> DEFINE n == Len(c) - 2
           symbol == [i \in 1 .. n |-> c[i + 1] % 64]
           w == (6 * n + 7) \div 8
           new == [k \in 1 .. ((6 * Len(symbol) + 7) \div 8) |-> Number(symbol, 6, k - 1, 8)]
<1>1. DTC_decode(c, old) = Overlay(old, new, 100)  BY DEF DTC_decode
<1>2. n \in Nat /\ Len(c) \in Nat  BY LenProperties
<1>3. symbol \in [1 .. n -> Int]
  <2>1. ASSUME NEW i \in 1 .. n PROVE c[i + 1] % 64 \in Int
    <3>1. i + 1 \in 1 .. Len(c)  BY <1>2
    <3>2. c[i + 1] \in 0 .. 255  BY <3>1, ElementOfSeq
    <3> QED  BY <3>2, LowRange, Zenon
  <2> HIDE DEF n
  <2> QED  BY <2>1
<1>4. \A i \in 1 .. n : symbol[i] = c[i + 1] % 64  OBVIOUS
<1>5. symbol \in Seq(Int) /\ Len(symbol) = n
  <2> HIDE DEF symbol, n
  <2> QED  BY <1>2, <1>3, IntSeq
<1>6. w \in Nat  BY <1>2
<1>7. new = [k \in 1 .. w |-> Number(symbol, 6, k - 1, 8)]
  <2> HIDE DEF symbol
  <2> QED  BY <1>5
<1> HIDE DEF symbol, new
<1>8. new \in [1 .. w -> 0 .. 255]
  <2> HIDE DEF w
  <2> QED  BY <1>5, <1>6, <1>7, BytesOf
<1>9. /\ Overlay(old, new, 100) \in [1 .. 6 -> 0 .. 255]
      /\ 6 <= w => \A i \in 1 .. 6 : Overlay(old, new, 100)[i] = new[i]
  <2> HIDE DEF w
  <2>1. 6 <= 100 /\ 6 \in Nat /\ 100 \in Nat  OBVIOUS
  <2>2. Overlay(old, new, 100) \in [1 .. 6 -> 0 .. 255]  BY <1>6, <1>8, <2>1, OverlayType
  <2>3. ASSUME 6 <= w PROVE \A i \in 1 .. 6 : Overlay(old, new, 100)[i] = new[i]
    <3>1. \A size \in Nat : \A bytes \in [1 .. size -> 0 .. 255] :
             6 <= size => \A i \in 1 .. 6 : Overlay(old, bytes, 100)[i] = bytes[i]
      BY <2>1, OverlayWhole, ZenonT(60)
    <3> QED  BY <1>6, <1>8, <2>3, <3>1, Zenon
  <2> QED  BY <2>1, <2>2, <2>3
<1>10. ASSUME NEW p \in [1 .. 6 -> 0 .. 255], Begins(c, "sh_vel", p) PROVE DTC_decode(c, old) = p
  <2>1. Symbols("sh_vel") = 8 /\ Size("sh_vel") = 6  BY DEF Symbols, Size
  <2>2. n >= 8 /\ \A i \in 1 .. 9 : c[i] = Encode(p)[i]  BY <1>2, <1>10, <2>1 DEF Begins
  <2>3. \A i \in 1 .. 8 : /\ Encode(p)[i + 1] = 64 + Number(p, 8, i - 1, 6)
                          /\ Number(p, 8, i - 1, 6) \in 0 .. 63
    BY <2>1, EncodeFacts
  <2>4. ASSUME NEW i \in 1 .. 8 PROVE symbol[i] = Number(p, 8, i - 1, 6)
    <3>1. i \in 1 .. n /\ i + 1 \in 1 .. 9  BY <1>2, <2>2
    <3> HIDE DEF n
    <3>2. symbol[i] = (64 + Number(p, 8, i - 1, 6)) % 64 /\ Number(p, 8, i - 1, 6) \in 0 .. 63
      BY <1>4, <2>2, <2>3, <3>1
    <3>3. (64 + Number(p, 8, i - 1, 6)) % 64 = Number(p, 8, i - 1, 6)  BY <3>2, LowBits, Zenon
    <3> QED  BY <3>2, <3>3, Zenon
  <2>5. \A k \in 1 .. 6 : Number(symbol, 6, k - 1, 8) = p[k]
    <3>1. Len(symbol) >= 8  BY <1>2, <1>5, <2>2
    <3>2. \A q \in 1 .. Symbols("sh_vel") : symbol[q] = Number(p, 8, q - 1, 6)  BY <2>1, <2>4
    <3>3. p \in [1 .. Size("sh_vel") -> 0 .. 255] /\ Len(symbol) >= Symbols("sh_vel")  BY <2>1, <3>1
    <3>4. \A k \in 1 .. Size("sh_vel") : Number(symbol, 6, k - 1, 8) = p[k]
      BY <1>5, <3>2, <3>3, ByteKept
    <3> QED  BY <2>1, <3>4
  <2>6. 6 <= w /\ \A k \in 1 .. 6 : k \in 1 .. w  BY <1>2, <2>2
  <2> HIDE DEF w
  <2>7. \A k \in 1 .. 6 : new[k] = p[k]  BY <1>7, <2>5, <2>6
  <2>8. \A k \in 1 .. 6 : Overlay(old, new, 100)[k] = new[k]  BY <1>9, <2>6
  <2> QED  BY <1>1, <1>9, <2>7, <2>8
<1> QED  BY <1>1, <1>9, <1>10

\* Both receivers decode what begins with a packet to the data of this packet.
LEMMA Decoding ==
  ASSUME NEW e \in Ends, NEW c \in Seq(0 .. 255), Len(c) >= 2, NEW old \in [1 .. Size(e) -> 0 .. 255]
  PROVE  LET decoded == IF e = "sh_spur" THEN Decord(c, old) ELSE DTC_decode(c, old)
         IN  /\ decoded \in [1 .. Size(e) -> 0 .. 255]
             /\ \A p \in [1 .. Size(e) -> 0 .. 255] : Begins(c, e, p) => decoded = p
<1>1. CASE e = "sh_spur"
  <2>1. Size(e) = 8  BY <1>1 DEF Size
  <2> QED  BY <1>1, <2>1, DecordFacts
<1>2. CASE e = "sh_vel"
  <2>1. Size(e) = 6 /\ e # "sh_spur"  BY <1>2 DEF Size
  <2> QED  BY <1>2, <2>1, DTCFacts
<1> QED  BY <1>1, <1>2, EndsAssumption

-----------------------------------------------------------------------------
(* What is on the line, and what the receivers have of it.                 *)

\* Packet n on the line; how much of the last one has passed; the packets that lost a symbol.
Code(n) == Encode(Payload(end, n))
Passed == Symbols(end) + 2 - Len(line)
LostSymbol == {lost.symbols[k] : k \in DOMAIN lost.symbols}

\* The types; line is the rest of the last packet.
LineTypes ==
  /\ end \in Ends /\ packets \in 0 .. MaxPackets
  /\ line \in Seq(0 .. 255) /\ Len(line) <= Symbols(end) + 2
  /\ \A i \in 1 .. Len(line) : line[i] = Code(packets)[Passed + i]
  /\ com \in Seq(0 .. 255)
  /\ data \in [1 .. Size(end) -> 0 .. 255] /\ taken \in Seq([1 .. Size(end) -> 0 .. 255])
  /\ lost \in [stx : SUBSET (1 .. packets), symbols : Seq(1 .. packets), etx : SUBSET (1 .. packets)]

\* What com has of packet h, if no symbol of that was lost.
Share(h) == IF h < packets \/ Passed > Symbols(end) THEN Symbols(end) + 1 ELSE Passed
\* com begins with packet h, and every packet from there on lost its end byte.
Collected(h) ==
  /\ h \in 1 .. packets
  /\ \A n \in h .. (packets - 1) : n \in lost.etx
  /\ line = <<>> => packets \in lost.etx
  /\ h = packets => Passed > 0
  /\ h \notin LostSymbol =>
       /\ Len(com) >= Share(h) /\ (h = packets => Len(com) = Share(h))
       /\ \A i \in 1 .. Share(h) : com[i] = Code(h)[i]
\* Every packet before h that was not taken lost a byte, or the packet before it its end byte.
Charged(h) ==
  \A n \in Arrived : n < h =>
    \/ n \in lost.stx \/ n \in LostSymbol \/ n - 1 \in lost.etx
    \/ \E i \in DOMAIN taken : taken[i] = Payload(end, n)
\* What was taken is of packets before h, as NothingInvented promises.
TakenBefore(h) ==
  \E of \in [DOMAIN taken -> 1 .. packets] :
    /\ \A i, j \in DOMAIN taken : i < j => of[i] < of[j]
    /\ \A i \in DOMAIN taken :
         of[i] < h /\ (taken[i] = Payload(end, of[i]) \/ of[i] \in LostSymbol)
\* There is a packet h that com begins with, or else that may be the next to do so.
BufferInv ==
  \E h \in 1 .. packets + 1 :
    /\ Charged(h) /\ TakenBefore(h)
    /\ com # <<>> => Collected(h)
    /\ com = <<>> => /\ h = (IF Passed = 0 THEN packets ELSE packets + 1)
                     /\ line # <<>> /\ Passed > 0 /\ packets > 0 => packets \in lost.stx
LineInv == LineTypes /\ BufferInv

\* Symbols and bytes are numbers.
LEMMA SymbolsType == ASSUME NEW e PROVE Symbols(e) \in Nat /\ Symbols(e) > 0 /\ Size(e) \in Nat
BY DEF Symbols, Size

\* The packets on the line begin and end with bytes that are nowhere else in them.
LEMMA CodeFacts ==
  ASSUME LineTypes, NEW n \in 0 .. MaxPackets
  PROVE  /\ Payload(end, n) \in [1 .. Size(end) -> 0 .. 255]
         /\ Code(n) \in Seq(0 .. 255) /\ Len(Code(n)) = Symbols(end) + 2
         /\ Code(n)[1] = STX /\ Code(n)[Symbols(end) + 2] = ETX
         /\ \A i \in 2 .. Symbols(end) + 1 : Code(n)[i] # STX /\ Code(n)[i] # ETX
<1>1. Payload(end, n) \in [1 .. Size(end) -> 0 .. 255]  BY PayloadAssumption DEF LineTypes
<1>2. /\ Code(n) \in Seq(0 .. 255) /\ Len(Code(n)) = Symbols(end) + 2
      /\ Code(n)[1] = STX /\ Code(n)[Symbols(end) + 2] = ETX
      /\ \A i \in 1 .. Symbols(end) : /\ Code(n)[i + 1] = 64 + Number(Payload(end, n), 8, i - 1, 6)
                                      /\ Number(Payload(end, n), 8, i - 1, 6) \in 0 .. 63
  BY <1>1, EncodeFacts DEF Code
<1>3. ASSUME NEW i \in 2 .. Symbols(end) + 1 PROVE Code(n)[i] # STX /\ Code(n)[i] # ETX
  <2>1. i - 1 \in 1 .. Symbols(end) /\ (i - 1) + 1 = i  BY SymbolsType
  <2>2. PICK x \in 0 .. 63 : Code(n)[i] = 64 + x
    <3>1. /\ Code(n)[(i - 1) + 1] = 64 + Number(Payload(end, n), 8, (i - 1) - 1, 6)
          /\ Number(Payload(end, n), 8, (i - 1) - 1, 6) \in 0 .. 63
      BY <1>2, <2>1, Zenon
    <3> QED  BY <2>1, <3>1, Zenon
  <2> QED  BY <2>2 DEF STX, ETX
<1> QED  BY <1>1, <1>2, <1>3

\* Where the byte at the head of the line is in its packet.
LEMMA HeadFacts ==
  ASSUME LineTypes, line # <<>>
  PROVE  /\ Passed \in 0 .. Symbols(end) + 1 /\ Head(line) \in 0 .. 255
         /\ Head(line) = Code(packets)[Passed + 1]
         /\ Head(line) = STX <=> Passed = 0
         /\ Head(line) = ETX <=> Passed = Symbols(end) + 1
<1>1. Len(line) \in Nat \ {0}  BY EmptySeq DEF LineTypes
<1>2. Symbols(end) \in Nat /\ Len(line) <= Symbols(end) + 2  BY SymbolsType DEF LineTypes
<1>3. Passed \in 0 .. Symbols(end) + 1  BY <1>1, <1>2 DEF Passed
<1>4. Head(line) \in 0 .. 255  BY HeadTailProperties DEF LineTypes
<1>5. Head(line) = line[1]  BY <1>1 DEF LineTypes
<1>6. line[1] = Code(packets)[Passed + 1]  BY <1>1 DEF LineTypes
<1>7. /\ Code(packets)[1] = STX /\ Code(packets)[Symbols(end) + 2] = ETX
      /\ \A i \in 2 .. Symbols(end) + 1 : Code(packets)[i] # STX /\ Code(packets)[i] # ETX
  BY CodeFacts DEF LineTypes
<1> DEFINE at == Passed + 1
<1>8. at \in 1 .. Symbols(end) + 2  BY <1>2, <1>3
<1>9. at = 1 \/ at = Symbols(end) + 2 \/ at \in 2 .. Symbols(end) + 1  BY <1>2, <1>8
<1>10. STX # ETX  BY DEF STX, ETX
<1>11. (at = 1 <=> Passed = 0) /\ (at = Symbols(end) + 2 <=> Passed = Symbols(end) + 1)  BY <1>2, <1>3
<1>12. 1 # Symbols(end) + 2 /\ ~(1 \in 2 .. Symbols(end) + 1) /\ ~(Symbols(end) + 2 \in 2 .. Symbols(end) + 1)
  BY <1>2
<1> HIDE DEF at
<1>13. (Code(packets)[at] = STX <=> at = 1) /\ (Code(packets)[at] = ETX <=> at = Symbols(end) + 2)
  BY <1>7, <1>9, <1>10, <1>12
<1> QED  BY <1>3, <1>4, <1>5, <1>6, <1>11, <1>13 DEF at

\* A byte leaves the line.
LEMMA TailFacts ==
  ASSUME LineTypes, line # <<>>, line' = Tail(line), end' = end, packets' = packets
  PROVE  /\ line' \in Seq(0 .. 255) /\ Len(line') <= Symbols(end) + 2
         /\ Passed' = Passed + 1
         /\ \A i \in 1 .. Len(line') : line'[i] = Code(packets)[Passed' + i]
         /\ line' = <<>> <=> Passed = Symbols(end) + 1
<1>1. Len(line) \in Nat \ {0}  BY EmptySeq DEF LineTypes
<1>2. Symbols(end) \in Nat /\ Len(line) <= Symbols(end) + 2  BY SymbolsType DEF LineTypes
<1>3. /\ line' \in Seq(0 .. 255) /\ Len(line') = Len(line) - 1
      /\ \A i \in 1 .. Len(line') : line'[i] = line[i + 1]
  BY HeadTailProperties DEF LineTypes
<1>4. Passed' = Symbols(end) + 2 - Len(line')  BY DEF Passed
<1>5. Passed = Symbols(end) + 2 - Len(line)  BY DEF Passed
<1>6. Passed' = Passed + 1  BY <1>1, <1>2, <1>3, <1>4, <1>5
<1>7. ASSUME NEW i \in 1 .. Len(line') PROVE line'[i] = Code(packets)[Passed' + i]
  <2>1. i + 1 \in 1 .. Len(line) /\ Passed + (i + 1) = Passed' + i  BY <1>1, <1>2, <1>3, <1>5, <1>6
  <2>2. line[i + 1] = Code(packets)[Passed + (i + 1)]  BY <2>1 DEF LineTypes
  <2> QED  BY <1>3, <2>1, <2>2
<1>8. line' = <<>> <=> Len(line') = 0  BY <1>3, EmptySeq
<1>9. Len(line') = 0 <=> Passed = Symbols(end) + 1
  <2> DEFINE a == Len(line)
             b == Len(line')
             n == Symbols(end)
             q == Passed
  <2>1. a \in Nat /\ n \in Nat /\ b = a - 1 /\ q = n + 2 - a  BY <1>1, <1>2, <1>3, <1>5
  <2> HIDE DEF a, b, n, q
  <2>2. b = 0 <=> q = n + 1  BY <2>1
  <2> QED  BY <2>2 DEF a, b, n, q
<1>10. Len(line') <= Symbols(end) + 2  BY <1>1, <1>2, <1>3
<1> QED  BY <1>3, <1>6, <1>7, <1>8, <1>9, <1>10

\* A receiver that starts in the middle of a packet.
LEMMA LineInitInv == LineInit => LineInv
<1> SUFFICES ASSUME LineInit PROVE LineInv  OBVIOUS
<1> DEFINE p == Encode(Payload(end, 0))
           n == Symbols(end)
<1>1. end \in Ends /\ packets = 0 /\ com = <<>> /\ data = [i \in 1 .. Size(end) |-> 0] /\ taken = <<>>
      /\ lost = [stx |-> {}, symbols |-> <<>>, etx |-> {}]
  BY DEF LineInit
<1>2. 0 \in 0 .. MaxPackets  BY EndsAssumption
<1>3. p \in Seq(0 .. 255) /\ Len(p) = n + 2 /\ n \in Nat
  <2>1. Payload(end, 0) \in [1 .. Size(end) -> 0 .. 255]  BY <1>1, <1>2, PayloadAssumption
  <2> QED  BY <2>1, EncodeFacts, SymbolsType
<1> HIDE DEF p
<1>4. PICK k \in 2 .. (Len(p) + 1) : line = SubSeq(p, k, Len(p))  BY DEF LineInit, p
<1>5. k \in 2 .. n + 3 /\ k \in Int /\ n + 2 \in Int  BY <1>3, <1>4
<1>6. /\ line \in Seq(0 .. 255)
      /\ Len(line) = IF k <= n + 2 THEN n + 2 - k + 1 ELSE 0
      /\ \A i \in 1 .. n + 2 - k + 1 : line[i] = p[k + i - 1]
  <2>1. ASSUME NEW i \in k .. n + 2 PROVE p[i] \in 0 .. 255
    <3>1. i \in 1 .. Len(p)  BY <1>3, <1>5
    <3> QED  BY <1>3, <3>1, ElementOfSeq
  <2> HIDE DEF n
  <2> QED  BY <1>3, <1>4, <1>5, <2>1, SubSeqProperties
<1> DEFINE size == Len(line)
<1>7. size = n + 3 - k
  <2>1. size = IF k <= n + 2 THEN n + 2 - k + 1 ELSE 0  BY <1>6
  <2> HIDE DEF size, n
  <2> QED  BY <1>3, <1>5, <2>1
<1>8. Passed = k - 1 /\ Passed > 0 /\ size <= n + 2
  <2>1. Passed = n + 2 - size  BY DEF Passed
  <2> HIDE DEF size, n
  <2> QED  BY <1>3, <1>5, <1>7, <2>1
<1>9. ASSUME NEW i \in 1 .. Len(line) PROVE line[i] = Code(packets)[Passed + i]
  <2>1. i \in 1 .. n + 2 - k + 1 /\ k + i - 1 = Passed + i
    <3>1. i \in 1 .. size  OBVIOUS
    <3> HIDE DEF size, n
    <3> QED  BY <1>3, <1>5, <1>7, <1>8, <3>1
  <2>2. p = Code(packets)  BY <1>1 DEF p, Code
  <2> HIDE DEF n
  <2> QED  BY <1>6, <2>1, <2>2
<1>10. LineTypes
  <2>1. data \in [1 .. Size(end) -> 0 .. 255]  BY <1>1
  <2>2. taken \in Seq([1 .. Size(end) -> 0 .. 255])  BY <1>1, EmptySeq
  <2>3. lost.symbols \in Seq(1 .. packets) /\ com \in Seq(0 .. 255)  BY <1>1, EmptySeq
  <2>4. lost \in [stx : SUBSET (1 .. packets), symbols : Seq(1 .. packets), etx : SUBSET (1 .. packets)]
    BY <1>1, <2>3
  <2> QED  BY <1>1, <1>2, <1>6, <1>8, <1>9, <2>1, <2>2, <2>3, <2>4 DEF LineTypes
<1>11. DOMAIN taken = {} /\ Arrived = {}
  <2>1. taken \in Seq({}) /\ Len(taken) = 0  BY <1>1, EmptySeq
  <2>2. DOMAIN taken = 1 .. 0  BY <2>1, LenProperties
  <2>3. Arrived = 1 .. 0 \/ Arrived = 1 .. 0 - 1  BY <1>1 DEF Arrived
  <2>4. 1 .. 0 = {} /\ 1 .. 0 - 1 = {}  OBVIOUS
  <2> QED  BY <2>2, <2>3, <2>4
<1>12. Charged(1)  BY <1>11 DEF Charged
<1>13. TakenBefore(1)
  <2>1. [i \in {} |-> 1] \in [DOMAIN taken -> 1 .. packets]  BY <1>11
  <2> QED  BY <1>11, <2>1 DEF TakenBefore
<1>14. Passed # 0  BY <1>8, <1>5
<1>15. BufferInv
  <2>1. ~(packets > 0) /\ 1 \in 1 .. packets + 1 /\ packets + 1 = 1  BY <1>1
  <2> QED  BY <1>1, <1>12, <1>13, <1>14, <2>1 DEF BufferInv
<1> QED  BY <1>10, <1>15 DEF LineInv

\* Packets that were accounted for stay so.
LEMMA ChargedKept ==
  ASSUME NEW h, NEW k, Charged(h), end' = end,
         \A i \in DOMAIN taken : i \in DOMAIN taken' /\ taken'[i] = taken[i],
         lost.stx \subseteq lost'.stx, LostSymbol \subseteq LostSymbol', lost.etx \subseteq lost'.etx,
         \A n \in Arrived' : n < k =>
           \/ n \in Arrived /\ n < h
           \/ n \in lost'.stx \/ n \in LostSymbol' \/ n - 1 \in lost'.etx
           \/ \E i \in DOMAIN taken' : taken'[i] = Payload(end, n)
  PROVE  Charged(k)'
<1>1. ASSUME NEW n \in Arrived', n < k
      PROVE  \/ n \in lost'.stx \/ n \in LostSymbol' \/ n - 1 \in lost'.etx
             \/ \E i \in DOMAIN taken' : taken'[i] = Payload(end, n)
  <2>1. CASE n \in Arrived /\ n < h  BY <2>1 DEF Charged
  <2> QED  BY <1>1, <2>1
<1> QED  BY <1>1 DEF Charged

\* Data that were taken stay those of their packets.
LEMMA TakenKept ==
  ASSUME NEW h \in Nat, NEW k \in Nat, h <= k, TakenBefore(h), packets \in Nat, packets' \in Nat,
         packets <= packets', end' = end, taken' = taken, LostSymbol \subseteq LostSymbol'
  PROVE  TakenBefore(k)'
<1>1. PICK of \in [DOMAIN taken -> 1 .. packets] :
        /\ \A i, j \in DOMAIN taken : i < j => of[i] < of[j]
        /\ \A i \in DOMAIN taken :
             of[i] < h /\ (taken[i] = Payload(end, of[i]) \/ of[i] \in LostSymbol)
  BY DEF TakenBefore
<1>2. of \in [DOMAIN taken' -> 1 .. packets']
  <2>1. \A i \in 1 .. packets : i \in 1 .. packets'  OBVIOUS
  <2> QED  BY <2>1
<1>3. ASSUME NEW i \in DOMAIN taken PROVE of[i] < k
  <2>1. of[i] \in 1 .. packets /\ of[i] < h  BY <1>1
  <2> QED  BY <2>1
<1> QED  BY <1>1, <1>2, <1>3 DEF TakenBefore

\* The types of what the invariant is about.
LEMMA LostFacts ==
  ASSUME LineTypes
  PROVE  /\ lost.stx \subseteq 1 .. packets /\ lost.etx \subseteq 1 .. packets
         /\ lost.symbols \in Seq(1 .. packets)
         /\ packets \in Nat /\ Symbols(end) \in Nat /\ Symbols(end) > 0
         /\ Passed \in 0 .. Symbols(end) + 2
<1>1. Len(line) \in Nat /\ Len(line) <= Symbols(end) + 2  BY LenProperties DEF LineTypes
<1>2. packets \in Nat  BY EndsAssumption DEF LineTypes
<1>3. Symbols(end) \in Nat /\ Symbols(end) > 0  BY SymbolsType
<1>4. Passed \in 0 .. Symbols(end) + 2  BY <1>1, <1>3 DEF Passed
<1> QED  BY <1>2, <1>3, <1>4 DEF LineTypes

\* A packet is put on the line.
LEMMA SendInv == LineInv /\ Send => LineInv'
<1> SUFFICES ASSUME LineInv, Send PROVE LineInv'  OBVIOUS
<1>1. /\ line = <<>> /\ packets < MaxPackets /\ packets' = packets + 1
      /\ line' = Encode(Payload(end, packets + 1)) /\ end' = end /\ com' = com
      /\ data' = data /\ taken' = taken /\ lost' = lost
  BY DEF Send
<1>2. LineTypes  BY DEF LineInv
<1>3. /\ packets \in Nat /\ Symbols(end) \in Nat /\ Symbols(end) > 0
      /\ lost.stx \subseteq 1 .. packets /\ lost.etx \subseteq 1 .. packets
      /\ lost.symbols \in Seq(1 .. packets)
  BY <1>2, LostFacts
<1>4. packets + 1 \in 0 .. MaxPackets /\ packets' \in Nat  BY <1>1, <1>3, EndsAssumption
<1>5. line' = Code(packets + 1)  BY <1>1 DEF Code
<1>6. line' \in Seq(0 .. 255) /\ Len(line') = Symbols(end) + 2
  BY <1>2, <1>4, <1>5, CodeFacts
<1>7. Passed' = 0 /\ Passed = Symbols(end) + 2
  <2>1. Len(line) = 0  BY <1>1, EmptySeq
  <2>2. Passed = Symbols(end) + 2 - Len(line)  BY DEF Passed
  <2>3. Passed' = Symbols(end) + 2 - Len(line')  BY <1>1 DEF Passed
  <2>4. Passed = Symbols(end) + 2  BY <1>3, <2>1, <2>2
  <2>5. Passed' = 0  BY <1>3, <1>6, <2>3
  <2> QED  BY <2>4, <2>5
<1>8. line' # <<>>  BY <1>3, <1>6, EmptySeq
<1>9. Arrived' = Arrived
  <2>1. Arrived = 1 .. packets /\ Arrived' = 1 .. packets' - 1  BY <1>1, <1>8 DEF Arrived
  <2> QED  BY <1>1, <1>3, <2>1
<1>10. LostSymbol' = LostSymbol  BY <1>1 DEF LostSymbol
<1>11. LineTypes'
  <2>1. ASSUME NEW i \in 1 .. Len(line') PROVE line'[i] = Code(packets)'[Passed' + i]
    <3>1. Code(packets)' = Code(packets + 1)  BY <1>1 DEF Code
    <3>2. Passed' + i = i  BY <1>6, <1>7
    <3> QED  BY <1>5, <3>1, <3>2
  <2>2. lost.stx \in SUBSET (1 .. packets') /\ lost.etx \in SUBSET (1 .. packets')
    <3>1. \A i \in 1 .. packets : i \in 1 .. packets'  BY <1>1, <1>3
    <3> QED  BY <1>3, <3>1
  <2>3. lost.symbols \in Seq(1 .. packets')
    <3>1. 1 .. packets \subseteq 1 .. packets'  BY <1>1, <1>3
    <3> QED  BY <1>3, <3>1, SeqMonotonic
  <2>4. lost \in [stx : SUBSET (1 .. packets'), symbols : Seq(1 .. packets'), etx : SUBSET (1 .. packets')]
    BY <1>2, <2>2, <2>3 DEF LineTypes
  <2>5. Len(line') <= Symbols(end) + 2  BY <1>3, <1>6
  <2> QED  BY <1>1, <1>2, <1>4, <1>6, <2>1, <2>4, <2>5 DEF LineTypes
<1>12. PICK h \in 1 .. packets + 1 :
         /\ Charged(h) /\ TakenBefore(h)
         /\ com # <<>> => Collected(h)
         /\ com = <<>> => h = (IF Passed = 0 THEN packets ELSE packets + 1)
  BY DEF LineInv, BufferInv
<1>13. h \in Nat /\ h \in 1 .. packets' + 1  BY <1>1, <1>3
<1>14. Charged(h)'
  <2>1. \A n \in Arrived' : n < h => n \in Arrived /\ n < h  BY <1>9
  <2> QED  BY <1>1, <1>10, <1>12, <2>1, ChargedKept
<1>15. TakenBefore(h)'
  <2>1. h <= h /\ packets <= packets'  BY <1>1, <1>3, <1>13
  <2> QED  BY <1>1, <1>3, <1>4, <1>10, <1>12, <1>13, <2>1, TakenKept
<1>16. ASSUME com # <<>> PROVE Collected(h)'
  <2>1. Collected(h)  BY <1>12, <1>16
  <2>2. h \in 1 .. packets  BY <2>1 DEF Collected
  <2>3. ASSUME NEW n \in h .. (packets' - 1) PROVE n \in lost'.etx
    <3>1. n \in h .. (packets - 1) \/ n = packets  BY <1>1, <1>3, <2>2
    <3> QED  BY <1>1, <2>1, <3>1 DEF Collected
  <2>4. Share(h) = Symbols(end) + 1 /\ Share(h)' = Symbols(end) + 1
    <3>1. h < packets' /\ Passed > Symbols(end)  BY <1>1, <1>3, <1>7, <2>2
    <3> QED  BY <1>1, <3>1 DEF Share
  <2>5. h # packets' /\ h \in 1 .. packets'  BY <1>1, <1>3, <2>2
  <2>6. Code(h)' = Code(h)  BY <1>1 DEF Code
  <2>8. h \notin LostSymbol' => Len(com') >= Share(h)' /\ \A i \in 1 .. Share(h)' : com'[i] = Code(h)'[i]
    BY <1>1, <1>10, <2>1, <2>4, <2>6 DEF Collected
  <2> QED  BY <1>8, <2>3, <2>5, <2>8 DEF Collected
<1>17. com = <<>> => h = packets'
  <2>1. Passed # 0  BY <1>3, <1>7
  <2> QED  BY <1>1, <1>12, <2>1
<1>18. BufferInv'
  BY <1>1, <1>7, <1>13, <1>14, <1>15, <1>16, <1>17 DEF BufferInv
<1> QED  BY <1>11, <1>18 DEF LineInv

\* The byte at the head of the line is passed, and its packet is still the last one.
LEMMA PassFacts ==
  ASSUME LineTypes, line # <<>>, line' = Tail(line), end' = end, packets' = packets
  PROVE  /\ Arrived' = IF Passed = Symbols(end) + 1 THEN (Arrived \cup {packets}) \ {0} ELSE Arrived
         /\ \A n \in Arrived : n < packets
         /\ \A h : Code(h)' = Code(h)
         /\ \A h \in 1 .. packets : h < packets \/ Passed > Symbols(end) => Share(h)' = Share(h)
         /\ Passed <= Symbols(end) => Share(packets)' = Passed + 1
<1>1. /\ packets \in Nat /\ Symbols(end) \in Nat /\ Passed \in 0 .. Symbols(end) + 2
  BY LostFacts
<1>2. Passed' = Passed + 1 /\ (line' = <<>> <=> Passed = Symbols(end) + 1)  BY TailFacts
<1>3. Arrived = 1 .. packets - 1  BY DEF Arrived
<1>4. Arrived' = IF Passed = Symbols(end) + 1 THEN 1 .. packets ELSE 1 .. packets - 1
  BY <1>2 DEF Arrived
<1>5. 1 .. packets = ((1 .. packets - 1) \cup {packets}) \ {0}  BY <1>1
<1>6. \A h : Code(h)' = Code(h)  BY DEF Code
<1>7. ASSUME NEW h \in 1 .. packets, h < packets \/ Passed > Symbols(end) PROVE Share(h)' = Share(h)
  <2>1. h < packets' \/ Passed' > Symbols(end)  BY <1>1, <1>2, <1>7
  <2> QED  BY <1>7, <2>1 DEF Share
<1>8. ASSUME Passed <= Symbols(end) PROVE Share(packets)' = Passed + 1
  <2>1. ~(packets' < packets')  BY <1>1
  <2>2. CASE Passed = Symbols(end)
    <3>1. Passed' > Symbols(end)'  BY <1>1, <1>2, <2>2
    <3> QED  BY <2>2, <3>1 DEF Share
  <2>3. CASE Passed < Symbols(end)
    <3>1. ~(Passed' > Symbols(end)')  BY <1>1, <1>2, <2>3
    <3> QED  BY <1>2, <2>1, <3>1 DEF Share
  <2> QED  BY <1>1, <1>8, <2>2, <2>3
<1>9. \A n \in Arrived : n < packets  BY <1>1, <1>3
<1>10. Arrived' = IF Passed = Symbols(end) + 1 THEN (Arrived \cup {packets}) \ {0} ELSE Arrived
  BY <1>3, <1>4, <1>5
<1> QED  BY <1>6, <1>7, <1>8, <1>9, <1>10

\* Which byte it is that is lost.
LEMMA LoseFacts ==
  ASSUME LineTypes, Lose
  PROVE  /\ packets \in Nat /\ packets > 0
         /\ lost' \in [stx : SUBSET (1 .. packets), symbols : Seq(1 .. packets), etx : SUBSET (1 .. packets)]
         /\ Passed = 0 => /\ lost'.stx = lost.stx \cup {packets} /\ lost'.etx = lost.etx
                          /\ LostSymbol' = LostSymbol
         /\ Passed = Symbols(end) + 1 => /\ lost'.etx = lost.etx \cup {packets} /\ lost'.stx = lost.stx
                                         /\ LostSymbol' = LostSymbol
         /\ Passed # 0 /\ Passed # Symbols(end) + 1 =>
              lost'.stx = lost.stx /\ lost'.etx = lost.etx /\ LostSymbol' = LostSymbol \cup {packets}
<1>1. line # <<>> /\ packets > 0 /\ packets \in Nat  BY LostFacts DEF Lose
<1>2. lost' = IF Head(line) = STX THEN [lost EXCEPT !.stx = @ \cup {packets}]
              ELSE IF Head(line) = ETX THEN [lost EXCEPT !.etx = @ \cup {packets}]
              ELSE [lost EXCEPT !.symbols = Append(@, packets)]
  BY DEF Lose
<1>3. (Head(line) = STX <=> Passed = 0) /\ (Head(line) = ETX <=> Passed = Symbols(end) + 1) /\ STX # ETX
  BY <1>1, HeadFacts DEF STX, ETX
<1>4. lost \in [stx : SUBSET (1 .. packets), symbols : Seq(1 .. packets), etx : SUBSET (1 .. packets)]
  BY DEF LineTypes
<1>5. packets \in 1 .. packets  BY <1>1
<1>6. CASE Head(line) = STX
  <2>1. lost' = [lost EXCEPT !.stx = @ \cup {packets}]  BY <1>2, <1>6
  <2>2. lost'.stx = lost.stx \cup {packets} /\ lost'.etx = lost.etx /\ lost'.symbols = lost.symbols
    BY <1>4, <2>1
  <2>3. LostSymbol' = LostSymbol  BY <2>2 DEF LostSymbol
  <2>4. lost' \in [stx : SUBSET (1 .. packets), symbols : Seq(1 .. packets), etx : SUBSET (1 .. packets)]
    BY <1>4, <1>5, <2>1
  <2> QED  BY <1>1, <1>3, <1>6, <2>2, <2>3, <2>4
<1>7. CASE Head(line) = ETX
  <2>1. lost' = [lost EXCEPT !.etx = @ \cup {packets}]  BY <1>2, <1>3, <1>7
  <2>2. lost'.etx = lost.etx \cup {packets} /\ lost'.stx = lost.stx /\ lost'.symbols = lost.symbols
    BY <1>4, <2>1
  <2>3. LostSymbol' = LostSymbol  BY <2>2 DEF LostSymbol
  <2>4. lost' \in [stx : SUBSET (1 .. packets), symbols : Seq(1 .. packets), etx : SUBSET (1 .. packets)]
    BY <1>4, <1>5, <2>1
  <2> QED  BY <1>1, <1>3, <1>7, <2>2, <2>3, <2>4
<1>8. CASE Head(line) # STX /\ Head(line) # ETX
  <2>1. lost' = [lost EXCEPT !.symbols = Append(@, packets)]  BY <1>2, <1>8
  <2>2. lost'.stx = lost.stx /\ lost'.etx = lost.etx /\ lost'.symbols = Append(lost.symbols, packets)
    BY <1>4, <2>1
  <2> DEFINE s == lost.symbols
             t == Append(s, packets)
  <2>3. /\ s \in Seq(1 .. packets) /\ t \in Seq(1 .. packets) /\ Len(t) = Len(s) + 1
        /\ \A k \in 1 .. Len(s) : t[k] = s[k]
        /\ t[Len(s) + 1] = packets
    BY <1>4, <1>5, AppendProperties
  <2> HIDE DEF s, t
  <2>4. DOMAIN s = 1 .. Len(s) /\ Len(s) \in Nat /\ DOMAIN t = 1 .. Len(t)  BY <2>3, LenProperties
  <2>5. {t[k] : k \in DOMAIN t} = {s[k] : k \in DOMAIN s} \cup {packets}
    <3>1. ASSUME NEW k \in DOMAIN t PROVE t[k] \in {s[x] : x \in DOMAIN s} \cup {packets}
      <4>1. k \in 1 .. Len(s) \/ k = Len(s) + 1  BY <2>3, <2>4
      <4> QED  BY <2>3, <2>4, <4>1
    <3>2. ASSUME NEW k \in DOMAIN s PROVE s[k] \in {t[x] : x \in DOMAIN t}
      <4>1. k \in DOMAIN t /\ t[k] = s[k]  BY <2>3, <2>4
      <4> QED  BY <4>1
    <3>3. packets \in {t[x] : x \in DOMAIN t}
      <4>1. Len(s) + 1 \in DOMAIN t  BY <2>3, <2>4
      <4> QED  BY <2>3, <4>1
    <3> QED  BY <3>1, <3>2, <3>3
  <2>6. LostSymbol' = LostSymbol \cup {packets}  BY <2>2, <2>5 DEF LostSymbol, s, t
  <2>7. lost' \in [stx : SUBSET (1 .. packets), symbols : Seq(1 .. packets), etx : SUBSET (1 .. packets)]
    BY <1>4, <2>1, <2>3 DEF s, t
  <2> QED  BY <1>1, <1>3, <1>8, <2>2, <2>6, <2>7
<1> QED  BY <1>6, <1>7, <1>8

\* A byte is lost.
LEMMA LoseInv == LineInv /\ Lose => LineInv'
<1> SUFFICES ASSUME LineInv, Lose PROVE LineInv'  OBVIOUS
<1> DEFINE n == Symbols(end)
<1>1. /\ line # <<>> /\ line' = Tail(line) /\ end' = end /\ packets' = packets /\ com' = com
      /\ data' = data /\ taken' = taken
  BY DEF Lose
<1>2. LineTypes  BY DEF LineInv
<1>3. /\ packets \in Nat /\ n \in Nat /\ n > 0 /\ Passed \in 0 .. n + 1
  BY <1>1, <1>2, LostFacts, HeadFacts
<1>4. /\ line' \in Seq(0 .. 255) /\ Len(line') <= n + 2
      /\ Passed' = Passed + 1
      /\ \A i \in 1 .. Len(line') : line'[i] = Code(packets)[Passed' + i]
      /\ line' = <<>> <=> Passed = n + 1
  BY <1>1, <1>2, TailFacts
<1>5. /\ Arrived' = IF Passed = n + 1 THEN (Arrived \cup {packets}) \ {0} ELSE Arrived
      /\ \A k \in Arrived : k < packets
      /\ \A h : Code(h)' = Code(h)
      /\ \A h \in 1 .. packets : h < packets \/ Passed > n => Share(h)' = Share(h)
  BY <1>1, <1>2, PassFacts
<1>6. /\ packets > 0
      /\ lost' \in [stx : SUBSET (1 .. packets), symbols : Seq(1 .. packets), etx : SUBSET (1 .. packets)]
      /\ Passed = 0 => /\ lost'.stx = lost.stx \cup {packets} /\ lost'.etx = lost.etx
                       /\ LostSymbol' = LostSymbol
      /\ Passed = n + 1 => /\ lost'.etx = lost.etx \cup {packets} /\ lost'.stx = lost.stx
                           /\ LostSymbol' = LostSymbol
      /\ Passed # 0 /\ Passed # n + 1 =>
              lost'.stx = lost.stx /\ lost'.etx = lost.etx /\ LostSymbol' = LostSymbol \cup {packets}
  BY <1>2, LoseFacts
<1>7. LineTypes'
  <2>1. \A i \in 1 .. Len(line') : line'[i] = Code(packets)'[Passed' + i]
    <3>1. Code(packets)' = Code(packets)  BY <1>1 DEF Code
    <3> QED  BY <1>4, <3>1
  <2> QED  BY <1>1, <1>2, <1>4, <1>6, <2>1 DEF LineTypes
<1>8. PICK h \in 1 .. packets + 1 :
         /\ Charged(h) /\ TakenBefore(h)
         /\ com # <<>> => Collected(h)
         /\ com = <<>> => /\ h = (IF Passed = 0 THEN packets ELSE packets + 1)
                          /\ line # <<>> /\ Passed > 0 /\ packets > 0 => packets \in lost.stx
  BY DEF LineInv, BufferInv
<1> HIDE DEF n
<1>9. lost.stx \subseteq lost'.stx /\ LostSymbol \subseteq LostSymbol' /\ lost.etx \subseteq lost'.etx
  BY <1>6
<1>10. CASE com # <<>>
  <2>1. Collected(h) /\ h \in 1 .. packets /\ h \in Nat
    <3>1. Collected(h)  BY <1>8, <1>10
    <3> QED  BY <3>1 DEF Collected
  <2>2. Charged(h)'
    <3>1. ASSUME NEW k \in Arrived', k < h PROVE k \in Arrived /\ k < h
      <4>1. k # packets  BY <1>3, <2>1, <3>1
      <4> QED  BY <1>5, <3>1, <4>1
    <3> QED  BY <1>1, <1>8, <1>9, <3>1, ChargedKept
  <2>3. TakenBefore(h)'
    <3>1. h <= h /\ packets <= packets' /\ packets' \in Nat  BY <1>1, <1>3, <2>1
    <3> QED  BY <1>1, <1>3, <1>8, <1>9, <2>1, <3>1, TakenKept
  <2>5. \A k \in h .. (packets' - 1) : k \in lost'.etx  BY <1>1, <1>9, <2>1 DEF Collected
  <2>6. line' = <<>> => packets' \in lost'.etx  BY <1>1, <1>4, <1>6
  <2>7. Passed' > 0  BY <1>3, <1>4
  <2>8. ASSUME h \notin LostSymbol'
        PROVE  /\ Len(com') >= Share(h)' /\ (h = packets' => Len(com') = Share(h)')
               /\ \A i \in 1 .. Share(h)' : com'[i] = Code(h)'[i]
    <3>1. h \notin LostSymbol  BY <1>9, <2>8
    <3>2. h < packets \/ Passed > n
      <4>1. h = packets => Passed # 0  BY <1>3, <2>1 DEF Collected
      <4>2. h = packets => Passed = n + 1  BY <1>6, <2>8, <4>1
      <4> QED  BY <1>3, <2>1, <4>2
    <3>3. Share(h)' = Share(h)  BY <1>5, <2>1, <3>2
    <3>4. /\ Len(com) >= Share(h) /\ (h = packets => Len(com) = Share(h))
          /\ \A i \in 1 .. Share(h) : com[i] = Code(h)[i]
      BY <2>1, <3>1 DEF Collected
    <3> QED  BY <1>1, <1>5, <3>3, <3>4
  <2>9. Collected(h)'  BY <1>1, <2>1, <2>5, <2>6, <2>7, <2>8 DEF Collected
  <2> QED  BY <1>1, <1>7, <1>8, <1>10, <2>2, <2>3, <2>9 DEF LineInv, BufferInv
<1>11. CASE com = <<>>
  <2>1. h = (IF Passed = 0 THEN packets ELSE packets + 1) /\ (Passed > 0 => packets \in lost.stx)
    BY <1>1, <1>6, <1>8, <1>11
  <2>2. packets \in lost'.stx \/ ~(Passed' > 0)
    <3>1. CASE Passed = 0  BY <1>6, <3>1
    <3>2. CASE Passed # 0
      <4>1. Passed > 0  BY <1>3, <3>2
      <4> QED  BY <1>9, <2>1, <4>1
    <3> QED  BY <3>1, <3>2
  <2>3. h \in Nat /\ packets + 1 \in Nat /\ h <= packets + 1  BY <1>3, <1>8
  <2> SUFFICES ASSUME NEW k, k = packets + 1 PROVE LineInv'  OBVIOUS
  <2>4. Charged(k)'
    <3>1. ASSUME NEW m \in Arrived' PROVE (m \in Arrived /\ m < h) \/ m \in lost'.stx
      <4>1. m \in Arrived \/ m = packets  BY <1>5, <3>1
      <4>2. m \in Arrived => m < h
        <5>1. m \in Arrived => m \in Int /\ m < packets  BY <1>5 DEF Arrived
        <5>2. h = packets \/ h = packets + 1  BY <2>1
        <5> QED  BY <1>3, <5>1, <5>2
      <4>3. m = packets => Passed = n + 1 \/ m \in Arrived  BY <1>5, <3>1
      <4>4. Passed = n + 1 => packets \in lost'.stx  BY <1>3, <1>4, <2>2
      <4> QED  BY <4>1, <4>2, <4>3, <4>4
    <3> QED  BY <1>1, <1>8, <1>9, <3>1, ChargedKept
  <2>5. TakenBefore(k)'
    <3>1. packets <= packets' /\ packets' \in Nat /\ k \in Nat /\ h <= k  BY <1>1, <1>3, <2>3
    <3> QED  BY <1>1, <1>3, <1>8, <1>9, <2>3, <3>1, TakenKept
  <2>6. k = (IF Passed' = 0 THEN packets' ELSE packets' + 1) /\ k \in 1 .. packets' + 1
    <3>1. Passed' # 0  BY <1>3, <1>4
    <3> QED  BY <1>1, <1>3, <3>1
  <2> QED  BY <1>1, <1>7, <1>11, <2>2, <2>4, <2>5, <2>6 DEF LineInv, BufferInv
<1> QED  BY <1>10, <1>11

\* A datum is taken from com, which begins with packet h.
LEMMA TakeFacts ==
  ASSUME LineTypes, NEW h \in 1 .. packets, Collected(h), com # <<>>, line # <<>>,
         Passed = Symbols(end) + 1, Take(Append(com, ETX))
  PROVE  /\ com' = <<>> /\ data' \in [1 .. Size(end) -> 0 .. 255]
         /\ \/ taken' = taken /\ h \in LostSymbol
            \/ taken' = Append(taken, data') /\ (data' = Payload(end, h) \/ h \in LostSymbol)
<1> DEFINE c == Append(com, ETX)
           n == Symbols(end)
           p == Payload(end, h)
<1>1. ETX \in 0 .. 255  BY DEF ETX
<1>2. /\ c \in Seq(0 .. 255) /\ Len(c) = Len(com) + 1
      /\ \A i \in 1 .. Len(com) : c[i] = com[i]
  BY <1>1, AppendProperties DEF LineTypes
<1>3. Len(com) \in Nat \ {0} /\ n \in Nat /\ n > 2 /\ packets \in Nat
  <2>1. Len(com) \in Nat \ {0}  BY EmptySeq DEF LineTypes
  <2>2. n \in Nat /\ n > 2  BY DEF Symbols
  <2> QED  BY <2>1, <2>2, LostFacts
<1>4. p \in [1 .. Size(end) -> 0 .. 255]
  <2>1. h \in 0 .. MaxPackets  BY <1>3, EndsAssumption DEF LineTypes
  <2> QED  BY <2>1, CodeFacts
<1>5. h \notin LostSymbol => Begins(c, end, p) /\ Len(c) >= 4
  <2> SUFFICES ASSUME h \notin LostSymbol PROVE Begins(c, end, p) /\ Len(c) >= 4  OBVIOUS
  <2>1. Share(h) = n + 1  BY <1>3 DEF Share
  <2>2. Len(com) >= n + 1 /\ \A i \in 1 .. n + 1 : com[i] = Encode(p)[i]
    BY <2>1 DEF Collected, Code
  <2> HIDE DEF c, p
  <2>3. Len(c) >= n + 2  BY <1>2, <1>3, <2>2
  <2>4. ASSUME NEW i \in 1 .. n + 1 PROVE c[i] = Encode(p)[i]
    <3>1. i \in 1 .. Len(com)  BY <1>3, <2>2
    <3> QED  BY <1>2, <2>2, <3>1
  <2>5. Len(c) >= 4  BY <1>2, <1>3, <2>3
  <2> QED  BY <2>3, <2>4, <2>5 DEF Begins
<1> DEFINE decoded == IF end = "sh_spur" THEN Decord(c, data) ELSE DTC_decode(c, data)
<1>6. /\ com' = <<>> /\ data' = decoded
      /\ taken' = IF end = "sh_spur" \/ Len(c) >= 4 THEN Append(taken, decoded) ELSE taken
  BY DEF Take
<1>7. /\ decoded \in [1 .. Size(end) -> 0 .. 255]
      /\ Begins(c, end, p) => decoded = p
  <2>1. Len(c) >= 2  BY <1>2, <1>3
  <2>2. end \in Ends /\ data \in [1 .. Size(end) -> 0 .. 255]  BY DEF LineTypes
  <2> HIDE DEF c, p
  <2> QED  BY <1>2, <1>4, <2>1, <2>2, Decoding
<1> HIDE DEF c, decoded
<1>8. CASE h \in LostSymbol  BY <1>6, <1>7, <1>8
<1>9. CASE h \notin LostSymbol
  <2>1. data' = p /\ taken' = Append(taken, data')  BY <1>5, <1>6, <1>7, <1>9
  <2> QED  BY <1>6, <1>7, <2>1
<1> QED  BY <1>8, <1>9

\* A byte is received.
LEMMA ReceiveInv == LineInv /\ ReceiveByte => LineInv'
<1> SUFFICES ASSUME LineInv, ReceiveByte PROVE LineInv'  OBVIOUS
<1> DEFINE n == Symbols(end)
<1>1. /\ line # <<>> /\ line' = Tail(line) /\ end' = end /\ packets' = packets /\ lost' = lost
  BY DEF ReceiveByte
<1>2. LineTypes  BY DEF LineInv
<1>3. /\ packets \in Nat /\ n \in Nat /\ n > 0 /\ Passed \in 0 .. n + 1
      /\ Head(line) = Code(packets)[Passed + 1] /\ Head(line) \in 0 .. 255
      /\ Head(line) = STX <=> Passed = 0
      /\ Head(line) = ETX <=> Passed = n + 1
  BY <1>1, <1>2, LostFacts, HeadFacts
<1>4. /\ line' \in Seq(0 .. 255) /\ Len(line') <= n + 2
      /\ Passed' = Passed + 1
      /\ \A i \in 1 .. Len(line') : line'[i] = Code(packets)[Passed' + i]
      /\ line' = <<>> <=> Passed = n + 1
  BY <1>1, <1>2, TailFacts
<1>5. /\ Arrived' = IF Passed = n + 1 THEN (Arrived \cup {packets}) \ {0} ELSE Arrived
      /\ \A k \in Arrived : k < packets
      /\ \A h : Code(h)' = Code(h)
      /\ \A h \in 1 .. packets : h < packets \/ Passed > n => Share(h)' = Share(h)
      /\ Passed <= n => Share(packets)' = Passed + 1
  BY <1>1, <1>2, PassFacts
<1>6. LostSymbol' = LostSymbol  BY <1>1 DEF LostSymbol
<1>7. ASSUME com' \in Seq(0 .. 255), data' \in [1 .. Size(end) -> 0 .. 255],
             taken' \in Seq([1 .. Size(end) -> 0 .. 255])
      PROVE  LineTypes'
  <2>1. \A i \in 1 .. Len(line') : line'[i] = Code(packets)'[Passed' + i]
    <3>1. Code(packets)' = Code(packets)  BY <1>1 DEF Code
    <3> QED  BY <1>4, <3>1
  <2> QED  BY <1>1, <1>2, <1>4, <1>7, <2>1 DEF LineTypes
<1>8. PICK h \in 1 .. packets + 1 :
         /\ Charged(h) /\ TakenBefore(h)
         /\ com # <<>> => Collected(h)
         /\ com = <<>> => /\ h = (IF Passed = 0 THEN packets ELSE packets + 1)
                          /\ line # <<>> /\ Passed > 0 /\ packets > 0 => packets \in lost.stx
  BY DEF LineInv, BufferInv
<1> HIDE DEF n
<1>9. h \in Nat /\ packets' = packets /\ packets <= packets' /\ packets' \in Nat /\ h <= h  BY <1>1, <1>3
<1>10. \A k \in Arrived : k \in Int /\ k < packets  BY <1>5 DEF Arrived
<1>11. CASE com = <<>> /\ Head(line) # STX
  <2>1. UNCHANGED <<com, data, taken>>  BY <1>11 DEF ReceiveByte
  <2>2. LineTypes'  BY <1>2, <1>7, <2>1 DEF LineTypes
  <2>3. Passed # 0 /\ Passed > 0 /\ h = packets + 1  BY <1>3, <1>8, <1>11
  <2>4. packets > 0 => packets \in lost'.stx  BY <1>1, <1>8, <1>11, <2>3
  <2>5. Charged(h)'
    <3>1. ASSUME NEW m \in Arrived' PROVE (m \in Arrived /\ m < h) \/ m \in lost'.stx
      <4>1. m \in Arrived \/ (m = packets /\ m # 0)  BY <1>5, <3>1
      <4>2. m \in Arrived => m < h  BY <1>3, <1>10, <2>3
      <4> QED  BY <1>3, <2>4, <4>1, <4>2
    <3> QED  BY <1>1, <1>6, <1>8, <2>1, <3>1, ChargedKept
  <2>6. TakenBefore(h)'  BY <1>1, <1>3, <1>6, <1>8, <1>9, <2>1, TakenKept
  <2>7. h = (IF Passed' = 0 THEN packets' ELSE packets' + 1) /\ h \in 1 .. packets' + 1
    <3>1. Passed' # 0  BY <1>3, <1>4
    <3> QED  BY <1>9, <2>3, <3>1
  <2> QED  BY <1>9, <1>11, <2>1, <2>2, <2>4, <2>5, <2>6, <2>7 DEF LineInv, BufferInv
<1>12. CASE com # <<>> /\ Head(line) = ETX
  <2>1. Take(Append(com, ETX))  BY <1>12 DEF ReceiveByte
  <2>2. Collected(h) /\ h \in 1 .. packets
    <3>1. Collected(h)  BY <1>8, <1>12
    <3> QED  BY <3>1 DEF Collected
  <2>3. Passed = Symbols(end) + 1  BY <1>3, <1>12 DEF n
  <2>4. /\ com' = <<>> /\ data' \in [1 .. Size(end) -> 0 .. 255]
        /\ \/ taken' = taken /\ h \in LostSymbol
           \/ taken' = Append(taken, data') /\ (data' = Payload(end, h) \/ h \in LostSymbol)
    BY <1>1, <1>2, <1>12, <2>1, <2>2, <2>3, TakeFacts
  <2> DEFINE T == [1 .. Size(end) -> 0 .. 255]
  <2>5. taken \in Seq(T)  BY <1>2 DEF LineTypes
  <2>6. /\ Append(taken, data') \in Seq(T) /\ Len(Append(taken, data')) = Len(taken) + 1
        /\ \A i \in 1 .. Len(taken) : Append(taken, data')[i] = taken[i]
        /\ Append(taken, data')[Len(taken) + 1] = data'
    <3> HIDE DEF T
    <3>1. data' \in T  BY <2>4 DEF T
    <3> QED  BY <2>5, <3>1, AppendProperties
  <2>7. Len(taken) \in Nat /\ DOMAIN taken = 1 .. Len(taken)
        /\ DOMAIN Append(taken, data') = 1 .. Len(taken) + 1
    <3> HIDE DEF T
    <3> QED  BY <2>5, <2>6, LenProperties
  <2>8. LineTypes'
    <3>1. taken' \in Seq(T)  BY <2>4, <2>5, <2>6
    <3>2. com' \in Seq(0 .. 255)  BY <2>4, EmptySeq
    <3> QED  BY <1>7, <2>4, <3>1, <3>2
  <2> SUFFICES ASSUME NEW k, k = packets + 1 PROVE LineInv'  OBVIOUS
  <2>9. Charged(k)'
    <3>1. \A i \in DOMAIN taken : i \in DOMAIN taken' /\ taken'[i] = taken[i]
      <4>1. \A i \in 1 .. Len(taken) : i \in 1 .. Len(taken) + 1  BY <2>7
      <4> QED  BY <2>4, <2>6, <2>7, <4>1
    <3>2. ASSUME NEW m \in Arrived'
          PROVE  \/ m \in Arrived /\ m < h
                 \/ m \in lost'.stx \/ m \in LostSymbol' \/ m - 1 \in lost'.etx
                 \/ \E i \in DOMAIN taken' : taken'[i] = Payload(end, m)
      <4>1. m \in Int /\ m <= packets /\ (m # packets => m \in Arrived)  BY <1>3, <1>5, <1>10, <3>2
      <4>2. CASE m < h  BY <1>9, <2>2, <4>1, <4>2
      <4>3. CASE m = h
        <5>1. CASE h \in LostSymbol  BY <1>6, <4>3, <5>1
        <5>2. CASE h \notin LostSymbol
          <6>1. taken' = Append(taken, data') /\ data' = Payload(end, h)  BY <2>4, <5>2
          <6>2. Len(taken) + 1 \in DOMAIN taken' /\ taken'[Len(taken) + 1] = Payload(end, m)
            BY <2>6, <2>7, <4>3, <6>1
          <6> QED  BY <6>2
        <5> QED  BY <5>1, <5>2
      <4>4. CASE m > h
        <5>1. m - 1 \in h .. (packets - 1)  BY <1>3, <1>9, <4>1, <4>4
        <5> QED  BY <1>1, <2>2, <5>1 DEF Collected
      <4> QED  BY <1>9, <4>1, <4>2, <4>3, <4>4
    <3> QED  BY <1>1, <1>6, <1>8, <3>1, <3>2, ChargedKept
  <2>10. TakenBefore(k)'
    <3>1. CASE taken' = taken
      <4>1. k \in Nat /\ h <= k  BY <1>3, <2>2
      <4> QED  BY <1>1, <1>3, <1>6, <1>8, <1>9, <3>1, <4>1, TakenKept
    <3>2. CASE taken' = Append(taken, data') /\ (data' = Payload(end, h) \/ h \in LostSymbol)
      <4>1. PICK of \in [DOMAIN taken -> 1 .. packets] :
              /\ \A i, j \in DOMAIN taken : i < j => of[i] < of[j]
              /\ \A i \in DOMAIN taken :
                   of[i] < h /\ (taken[i] = Payload(end, of[i]) \/ of[i] \in LostSymbol)
        BY <1>8 DEF TakenBefore
      <4> DEFINE s == Len(taken)
                 g == [i \in 1 .. s + 1 |-> IF i = s + 1 THEN h ELSE of[i]]
      <4>2. s \in Nat /\ DOMAIN taken = 1 .. s /\ DOMAIN taken' = 1 .. s + 1  BY <2>7, <3>2
      <4>3. /\ \A i \in 1 .. s : taken'[i] = taken[i] /\ of[i] \in 1 .. packets /\ of[i] < h
            /\ taken'[s + 1] = data'
        BY <2>6, <3>2, <4>1, <4>2
      <4> HIDE DEF s
      <4>4. \A i \in 1 .. s + 1 : i \in 1 .. s \/ i = s + 1  BY <4>2
      <4>5. g[s + 1] = h /\ \A i \in 1 .. s : g[i] = of[i]
        <5>1. s + 1 \in 1 .. s + 1 /\ \A i \in 1 .. s : i \in 1 .. s + 1 /\ i # s + 1  BY <4>2
        <5> QED  BY <5>1
      <4>6. g \in [1 .. s + 1 -> 1 .. packets]  BY <2>2, <4>3, <4>4
      <4> HIDE DEF g
      <4>7. ASSUME NEW i \in 1 .. s + 1, NEW j \in 1 .. s + 1, i < j PROVE g[i] < g[j]
        <5>1. i \in 1 .. s  BY <4>2, <4>7
        <5>2. CASE j \in 1 .. s  BY <4>1, <4>2, <4>5, <4>7, <5>1, <5>2
        <5>3. CASE j = s + 1  BY <4>3, <4>5, <5>1, <5>3
        <5> QED  BY <4>4, <5>2, <5>3
      <4>8. ASSUME NEW i \in 1 .. s + 1
            PROVE  g[i] < k /\ (taken'[i] = Payload(end, g[i]) \/ g[i] \in LostSymbol)
        <5>1. CASE i \in 1 .. s
          <6>1. g[i] = of[i] /\ taken'[i] = taken[i] /\ of[i] \in 1 .. packets /\ of[i] < h
            BY <4>3, <4>5, <5>1
          <6>2. taken[i] = Payload(end, of[i]) \/ of[i] \in LostSymbol  BY <4>1, <4>2, <5>1
          <6>3. of[i] < k  BY <1>3, <6>1
          <6> QED  BY <6>1, <6>2, <6>3
        <5>2. CASE i = s + 1
          <6>1. g[i] = h /\ taken'[i] = data' /\ h < k  BY <1>3, <2>2, <4>3, <4>5, <5>2
          <6> QED  BY <3>2, <6>1
        <5> QED  BY <4>4, <5>1, <5>2
      <4> QED  BY <1>1, <1>6, <4>2, <4>6, <4>7, <4>8 DEF TakenBefore
    <3> QED  BY <2>4, <3>1, <3>2
  <2>11. k = (IF Passed' = 0 THEN packets' ELSE packets' + 1) /\ k \in 1 .. packets' + 1
    <3>1. Passed' # 0  BY <1>3, <1>4
    <3> QED  BY <1>3, <1>9, <3>1
  <2>12. line' = <<>>  BY <1>4, <2>3 DEF n
  <2> QED  BY <2>4, <2>8, <2>9, <2>10, <2>11, <2>12 DEF LineInv, BufferInv
<1>13. CASE ~(com = <<>> /\ Head(line) # STX) /\ Head(line) # ETX
  <2>1. com' = Append(com, Head(line)) /\ data' = data /\ taken' = taken  BY <1>13 DEF ReceiveByte
  <2>2. /\ com' \in Seq(0 .. 255) /\ com' # <<>> /\ Len(com') = Len(com) + 1
        /\ \A i \in 1 .. Len(com) : com'[i] = com[i]
        /\ com'[Len(com) + 1] = Head(line)
    BY <1>2, <1>3, <2>1, AppendProperties DEF LineTypes
  <2>3. LineTypes'  BY <1>2, <1>7, <2>1, <2>2 DEF LineTypes
  <2>4. Passed <= n /\ line' # <<>> /\ Arrived' = Arrived /\ Passed' > 0  BY <1>3, <1>4, <1>5, <1>13
  <2>5. Charged(h)'
    <3>1. \A m \in Arrived' : m < h => m \in Arrived /\ m < h  BY <2>4
    <3> QED  BY <1>1, <1>6, <1>8, <2>1, <3>1, ChargedKept
  <2>6. TakenBefore(h)'  BY <1>1, <1>3, <1>6, <1>8, <1>9, <2>1, TakenKept
  <2>7. Collected(h)'
    <3>1. CASE com = <<>>
      <4>1. Passed = 0 /\ h = packets /\ h \in 1 .. packets  BY <1>3, <1>8, <1>9, <1>13, <3>1
      <4>2. Share(packets)' = 1 /\ Len(com) = 0
        <5>1. Len(com) = 0  BY <3>1, EmptySeq
        <5> QED  BY <1>3, <1>5, <4>1, <5>1
      <4>3. Share(h)' = 1
        <5>1. ~(h < packets') /\ ~(Passed' > Symbols(end)')
          <6>1. n > 1  BY DEF n, Symbols
          <6> QED  BY <1>1, <1>3, <1>4, <1>9, <4>1, <6>1 DEF n
        <5>2. Passed' = 1  BY <1>3, <1>4, <4>1
        <5> QED  BY <1>3, <1>9, <4>1, <5>1, <5>2 DEF Share
      <4>4. com'[1] = Code(h)'[1]
        <5>1. Code(h)' = Code(h)  BY <1>5
        <5>2. com'[1] = Head(line)  BY <2>2, <4>2
        <5>3. Head(line) = Code(h)[1]  BY <1>3, <4>1
        <5> QED  BY <5>1, <5>2, <5>3
      <4>5. \A m \in h .. (packets' - 1) : m \in lost'.etx  BY <1>3, <1>9, <4>1
      <4>6. Len(com') = 1  BY <2>2, <4>2
      <4>7. \A i \in 1 .. 1 : com'[i] = Code(h)'[i]
        <5>1. \A i \in 1 .. 1 : i = 1  OBVIOUS
        <5> QED  BY <4>4, <5>1
      <4> QED  BY <1>9, <2>4, <4>1, <4>3, <4>5, <4>6, <4>7 DEF Collected
    <3>2. CASE com # <<>>
      <4>1. Collected(h) /\ h \in 1 .. packets
        <5>1. Collected(h)  BY <1>8, <3>2
        <5> QED  BY <5>1 DEF Collected
      <4>2. \A m \in h .. (packets' - 1) : m \in lost'.etx  BY <1>1, <4>1 DEF Collected
      <4>3. Len(com) \in Nat  BY <1>2, LenProperties DEF LineTypes
      <4>4. ASSUME h \notin LostSymbol'
            PROVE  /\ Len(com') >= Share(h)' /\ (h = packets' => Len(com') = Share(h)')
                   /\ \A i \in 1 .. Share(h)' : com'[i] = Code(h)'[i]
        <5>1. /\ Len(com) >= Share(h) /\ (h = packets => Len(com) = Share(h))
              /\ \A i \in 1 .. Share(h) : com[i] = Code(h)[i]
          BY <1>6, <4>1, <4>4 DEF Collected
        <5>2. Code(h)' = Code(h)  BY <1>5
        <5>3. CASE h < packets
          <6>1. Share(h)' = Share(h) /\ Share(h) = n + 1  BY <1>5, <4>1, <5>3 DEF Share, n
          <6>2. Len(com') >= Share(h) /\ h # packets'  BY <1>3, <1>9, <2>2, <4>3, <5>1, <5>3, <6>1
          <6>3. \A i \in 1 .. n + 1 : com'[i] = com[i]
            <7>1. \A i \in 1 .. n + 1 : i \in 1 .. Len(com)  BY <1>3, <4>3, <5>1, <6>1
            <7> QED  BY <2>2, <7>1
          <6> QED  BY <5>1, <5>2, <6>1, <6>2, <6>3
        <5>4. CASE h = packets
          <6>1. Share(h) = Passed /\ Len(com) = Passed
            <7>1. ~(h < packets) /\ ~(Passed > Symbols(end))  BY <1>3, <2>4, <5>4 DEF n
            <7> QED  BY <5>1, <5>4, <7>1 DEF Share
          <6>2. Share(h)' = Passed + 1
            <7>1. Share(packets)' = Passed + 1  BY <1>5, <2>4
            <7>2. Share(h)' = Share(packets)'  BY <1>9, <5>4 DEF Share
            <7> QED  BY <7>1, <7>2
          <6>3. Len(com') = Passed + 1  BY <2>2, <6>1
          <6>4. ASSUME NEW i \in 1 .. Passed + 1 PROVE com'[i] = Code(h)[i]
            <7>1. CASE i \in 1 .. Passed  BY <2>2, <5>1, <6>1, <7>1
            <7>2. CASE i = Passed + 1  BY <1>3, <2>2, <5>4, <6>1, <7>2
            <7> QED  BY <1>3, <6>4, <7>1, <7>2
          <6> QED  BY <1>3, <5>2, <6>2, <6>3, <6>4
        <5> QED  BY <1>3, <4>1, <5>3, <5>4
      <4> QED  BY <1>9, <2>4, <4>1, <4>2, <4>4 DEF Collected
    <3> QED  BY <3>1, <3>2
  <2> QED  BY <1>8, <1>9, <2>2, <2>3, <2>5, <2>6, <2>7 DEF LineInv, BufferInv
<1>14. STX # ETX  BY DEF STX, ETX
<1> QED  BY <1>11, <1>12, <1>13, <1>14

\* The invariant of the line holds in every state.
THEOREM LineInvariance == LineSpec => []LineInv
<1>1. LineInv /\ [LineNext]_lineVars => LineInv'
  <2> SUFFICES ASSUME LineInv, [LineNext]_lineVars PROVE LineInv'  OBVIOUS
  <2>1. CASE Send  BY <2>1, SendInv
  <2>2. CASE Lose  BY <2>2, LoseInv
  <2>3. CASE ReceiveByte  BY <2>3, ReceiveInv
  <2>4. CASE UNCHANGED lineVars
    <3>1. LineTypes /\ BufferInv  BY DEF LineInv
    <3>2. LineTypes'  BY <2>4, <3>1 DEF LineTypes, lineVars, Code, Passed
    <3>3. PICK h \in 1 .. packets + 1 :
            /\ Charged(h) /\ TakenBefore(h)
            /\ com # <<>> => Collected(h)
            /\ com = <<>> => /\ h = (IF Passed = 0 THEN packets ELSE packets + 1)
                             /\ line # <<>> /\ Passed > 0 /\ packets > 0 => packets \in lost.stx
      BY <3>1 DEF BufferInv
    <3>4. Charged(h)'  BY <2>4, <3>3 DEF Charged, Arrived, LostSymbol, lineVars
    <3>5. TakenBefore(h)'  BY <2>4, <3>3 DEF TakenBefore, LostSymbol, lineVars
    <3>6. com # <<>> => Collected(h)'
      BY <2>4, <3>3 DEF Collected, Share, Passed, Code, LostSymbol, lineVars
    <3>7. BufferInv'  BY <2>4, <3>3, <3>4, <3>5, <3>6 DEF BufferInv, Passed, lineVars
    <3> QED  BY <3>2, <3>7 DEF LineInv
  <2> QED  BY <2>1, <2>2, <2>3, <2>4 DEF LineNext
<1> QED  BY <1>1, LineInitInv, PTL DEF LineSpec

\* The promise about what was taken is a part of the invariant.
LEMMA InvInvented == LineInv => NothingInvented
<1> SUFFICES ASSUME LineInv PROVE NothingInvented  OBVIOUS
<1>1. PICK h \in 1 .. packets + 1 : TakenBefore(h)  BY DEF LineInv, BufferInv
<1>2. PICK of \in [DOMAIN taken -> 1 .. packets] :
        /\ \A i, j \in DOMAIN taken : i < j => of[i] < of[j]
        /\ \A i \in DOMAIN taken : taken[i] = Payload(end, of[i]) \/ of[i] \in LostSymbol
  BY <1>1 DEF TakenBefore
<1> QED  BY <1>2 DEF NothingInvented, LostSymbol

\* What serial_receive() and DTC_receive() take is never made up of two packets, nor twice of
\* one, nor out of order, for any data, any number of packets and of lost bytes.
THEOREM NothingInventedHolds == LineSpec => []NothingInvented
BY LineInvariance, InvInvented, PTL

\* The packets that were not taken are counted. Those that lost a start byte or a symbol
\* are no more than these. Every other one is charged to an end byte: its own, while the packet
\* that com begins with has not been taken, and that of the packet before it otherwise; so no end
\* byte is charged twice.
LEMMA InvLocal == LineInv => LossIsLocal
<1> SUFFICES ASSUME LineInv PROVE LossIsLocal  OBVIOUS
<1> DEFINE U == {n \in Arrived : \A i \in DOMAIN taken : taken[i] # Payload(end, n)}
           V == {n \in U : n \notin lost.stx /\ n \notin LostSymbol}
<1>1. /\ lost.stx \subseteq 1 .. packets /\ lost.etx \subseteq 1 .. packets
      /\ lost.symbols \in Seq(1 .. packets) /\ packets \in Nat
  BY LostFacts DEF LineInv
<1>2. PICK h \in 1 .. packets + 1 :
         /\ Charged(h)
         /\ com # <<>> => Collected(h)
         /\ com = <<>> => h = (IF Passed = 0 THEN packets ELSE packets + 1)
  BY DEF LineInv, BufferInv
<1>3. \A n \in Arrived : n \in 1 .. packets /\ (n = packets => line = <<>>)  BY <1>1 DEF Arrived
<1>4. ASSUME NEW n \in V, n >= h PROVE n \in lost.etx
  <2>1. n \in Arrived /\ n \in 1 .. packets /\ (n = packets => line = <<>>)  BY <1>3
  <2>2. com # <<>>
    <3>1. ASSUME com = <<>> PROVE FALSE
      <4>1. h = packets /\ n = packets  BY <1>1, <1>2, <1>4, <2>1, <3>1
      <4>2. Passed = 0  BY <1>1, <1>2, <3>1, <4>1
      <4>3. Passed = Symbols(end) + 2
        <5>1. Len(line) = 0  BY <2>1, <4>1, EmptySeq
        <5>2. Symbols(end) \in Nat  BY SymbolsType
        <5> QED  BY <5>1, <5>2 DEF Passed
      <4>4. Symbols(end) \in Nat  BY SymbolsType
      <4> QED  BY <4>2, <4>3, <4>4
    <3> QED  BY <3>1
  <2>3. Collected(h)  BY <1>2, <2>2
  <2>4. CASE n = packets  BY <2>1, <2>3, <2>4 DEF Collected
  <2>5. CASE n # packets
    <3>1. n \in h .. (packets - 1)  BY <1>1, <1>4, <2>1, <2>5
    <3> QED  BY <2>3, <3>1 DEF Collected
  <2> QED  BY <2>4, <2>5
<1>5. ASSUME NEW n \in V, n < h PROVE n - 1 \in lost.etx
  BY <1>2, <1>5 DEF Charged
<1>6. \A n \in V : n \in Int  BY <1>3
<1>7. IsFiniteSet(lost.stx) /\ IsFiniteSet(lost.etx) /\ IsFiniteSet(LostSymbol) /\ IsFiniteSet(Arrived)
  <2>1. IsFiniteSet(1 .. packets)
    <3>1. packets \in Int /\ 1 \in Int  BY <1>1
    <3>2. \A a, b \in Int : IsFiniteSet(a .. b)  BY FS_Interval
    <3> QED  BY <3>1, <3>2, Zenon
  <2>2. Arrived \subseteq 1 .. packets  BY <1>3
  <2>3. LostSymbol \subseteq 1 .. packets
    <3>1. \A k \in DOMAIN lost.symbols : lost.symbols[k] \in 1 .. packets
      BY <1>1, LenProperties, ElementOfSeq
    <3> QED  BY <3>1 DEF LostSymbol
  <2> QED  BY <1>1, <2>1, <2>2, <2>3, FS_Subset
<1> HIDE DEF V
<1>8. Cardinality(V) <= Cardinality(lost.etx) /\ IsFiniteSet(V)
  <2> DEFINE g == [n \in V |-> IF n >= h THEN n ELSE n - 1]
  <2>1. \A n \in V : (n >= h \/ n < h) /\ ~(n >= h /\ n < h)  BY <1>1, <1>6
  <2>2. g \in [V -> lost.etx]  BY <1>4, <1>5, <2>1
  <2>3. ASSUME NEW m \in V, NEW n \in V, g[m] = g[n] PROVE m = n
    <3>1. m \in Int /\ n \in Int /\ h \in Int  BY <1>1, <1>6
    <3>2. (IF m >= h THEN m ELSE m - 1) = (IF n >= h THEN n ELSE n - 1)  BY <2>3
    <3> QED  BY <3>1, <3>2
  <2>4. g \in Injection(V, lost.etx)  BY <2>2, <2>3 DEF Injection, IsInjective
  <2> HIDE DEF g
  <2> QED  BY <1>7, <2>4, FS_Injection
<1>9. Cardinality(LostSymbol) <= Len(lost.symbols)
  <2> DEFINE s == lost.symbols
  <2>1. Len(s) \in Nat /\ DOMAIN s = 1 .. Len(s)  BY <1>1, LenProperties
  <2>2. s \in [1 .. Len(s) -> LostSymbol]
    <3>1. s \in [1 .. Len(s) -> 1 .. packets]  BY <1>1, LenProperties
    <3>2. \A k \in 1 .. Len(s) : s[k] \in LostSymbol  BY <2>1 DEF LostSymbol
    <3> QED  BY <3>1, <3>2
  <2>3. \A x \in LostSymbol : \E k \in 1 .. Len(s) : s[k] = x  BY <2>1 DEF LostSymbol
  <2>4. s \in Surjection(1 .. Len(s), LostSymbol)  BY <2>2, <2>3 DEF Surjection
  <2>5. IsFiniteSet(1 .. Len(s)) /\ Cardinality(1 .. Len(s)) = Len(s)
    <3> DEFINE l == Len(s)
               c == Cardinality(1 .. l)
    <3>1. l \in Nat  BY <2>1
    <3> HIDE DEF l
    <3>2. IsFiniteSet(1 .. l) /\ c = IF 1 > l THEN 0 ELSE l - 1 + 1  BY <3>1, FS_Interval
    <3> HIDE DEF c
    <3>3. c = l  BY <3>1, <3>2
    <3> QED  BY <3>2, <3>3 DEF c, l
  <2> HIDE DEF s
  <2>6. Cardinality(LostSymbol) <= Cardinality(1 .. Len(s))  BY <2>4, <2>5, FS_Surjection
  <2> QED  BY <2>5, <2>6 DEF s
<1>10. Cardinality(U) <= Cardinality(lost.stx) + Cardinality(LostSymbol) + Cardinality(lost.etx)
  <2> DEFINE X == lost.stx \cup LostSymbol
             Y == X \cup V
  <2>1. U \subseteq Y  BY DEF V
  <2>2. /\ IsFiniteSet(X) /\ IsFiniteSet(lost.stx \cap LostSymbol)
        /\ Cardinality(X) = Cardinality(lost.stx) + Cardinality(LostSymbol) - Cardinality(lost.stx \cap LostSymbol)
    BY <1>7, FS_Union, FS_Intersection
  <2> HIDE DEF X
  <2>3. /\ IsFiniteSet(Y) /\ IsFiniteSet(X \cap V)
        /\ Cardinality(Y) = Cardinality(X) + Cardinality(V) - Cardinality(X \cap V)
    BY <1>8, <2>2, FS_Union, FS_Intersection
  <2> HIDE DEF Y, U
  <2>4. Cardinality(U) <= Cardinality(Y)  BY <2>1, <2>3, FS_Subset
  <2>5. IsFiniteSet(U)  BY <2>1, <2>3, FS_Subset
  <2> DEFINE a == Cardinality(lost.stx)
             b == Cardinality(LostSymbol)
             c == Cardinality(lost.stx \cap LostSymbol)
             d == Cardinality(X)
             e == Cardinality(V)
             f == Cardinality(X \cap V)
             t == Cardinality(Y)
             u == Cardinality(U)
             w == Cardinality(lost.etx)
  <2>6. /\ a \in Nat /\ b \in Nat /\ c \in Nat /\ d \in Nat /\ e \in Nat /\ f \in Nat /\ t \in Nat
        /\ u \in Nat /\ w \in Nat
    BY <1>7, <1>8, <2>2, <2>3, <2>5, FS_CardinalityType
  <2>7. d = a + b - c /\ t = d + e - f /\ u <= t /\ e <= w  BY <1>8, <2>2, <2>3, <2>4
  <2> HIDE DEF a, b, c, d, e, f, t, u, w
  <2>8. u <= a + b + w  BY <2>6, <2>7
  <2> QED  BY <2>8 DEF u, a, b, w
<1>11. LossIsLocal
  <2> DEFINE a == Cardinality(lost.stx)
             b == Cardinality(LostSymbol)
             l == Len(lost.symbols)
             u == Cardinality(U)
             w == Cardinality(lost.etx)
  <2>1. IsFiniteSet(U)
    <3>1. U \subseteq Arrived  OBVIOUS
    <3> QED  BY <1>7, <3>1, FS_Subset
  <2>2. a \in Nat /\ b \in Nat /\ l \in Nat /\ w \in Nat
    BY <1>1, <1>7, FS_CardinalityType, LenProperties
  <2>3. u \in Nat
    <3> HIDE DEF U
    <3> QED  BY <2>1, FS_CardinalityType
  <2>4. u <= a + b + w /\ b <= l  BY <1>9, <1>10
  <2> HIDE DEF a, b, l, u, w
  <2>5. u <= a + l + w  BY <2>2, <2>3, <2>4
  <2> QED  BY <2>5 DEF u, a, l, w, LossIsLocal, Losses
<1> QED  BY <1>11

\* A byte that is lost between the controller and sh_spur costs at most one packet, for any
\* data, any number of packets and of lost bytes.
THEOREM LossIsLocalHolds == LineSpec => []LossIsLocal
BY LineInvariance, InvLocal, PTL
=============================================================================
