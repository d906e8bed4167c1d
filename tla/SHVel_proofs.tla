---------------------------- MODULE SHVel_proofs ----------------------------
(***************************************************************************)
(* Proofs about the motor controller, for every width of the counters, every *)
(* period and all limits: the variables keep their ranges, the odometry adds *)
(* up, the watchdog is never overdue by more than two packets, a wheel is   *)
(* never switched on with an old integral, and the wheels stay in pairs.   *)
(***************************************************************************)
EXTENDS SHVel, TLAPS

USE DEF SERVO_LEVEL_STOP, SERVO_LEVEL_COUNTER, SERVO_LEVEL_TORQUE, SERVO_LEVEL_VELOCITY, Motors

\* Counting round the corner stays in range, and a difference added to its
\* subtrahend gives the minuend: odometry can be summed in shorts.
LEMMA PlusMinus ==
  ASSUME NEW a \in 0 .. CntMod - 1, NEW b \in 0 .. CntMod - 1
  PROVE  /\ Plus(a, b) \in 0 .. CntMod - 1
         /\ Minus(a, b) \in 0 .. CntMod - 1
         /\ Plus(b, Minus(a, b)) = a
BY CountAssumption DEF Plus, Minus

\* What a command of the PC may contain.
LEMMA CommandValues ==
  ASSUME NEW c \in Commands
  PROVE  /\ c.motor \in Motors
         /\ c.type = "w_ref" => c.value \in 0 .. MaxPairs
         /\ c.type = "servo" => c.value \in Levels
         /\ c.type = "watch_dog_limit" => c.value \in Limits
BY BoundAssumption DEF Commands, servoCommands, limitCommands, Ignored, w_refCommand

\* What noise may make of a command is one.
LEMMA AlteredCommands ==
  ASSUME NEW call \in 0 .. MaxPairs, NEW d \in Altered(call)
  PROVE  d \in Commands
BY DEF Altered, Commands

LEMMA OthersCommands ==
  ASSUME NEW c \in Others
  PROVE  c \in Commands /\ c.type \in {"servo", "watch_dog_limit"}
BY LevelAssumption, LimitAssumption DEF Others, Commands, servoCommands, limitCommands

LEMMA NothingIsACommand == Nothing \in Commands
BY BoundAssumption DEF Nothing, Commands, w_refCommand

LEMMA TypeInit == Init => TypeOK
<1> SUFFICES ASSUME Init PROVE TypeOK
  OBVIOUS
<1>1. SharedOK
  <2>1. w_ref \in [0 .. 3 -> 0 .. MaxPairs]
    BY BoundAssumption DEF Init
  <2>2. int_w \in BOOLEAN
    BY DEF Init
  <2> QED
    BY <2>1, <2>2, CountAssumption DEF Init, SharedOK, Counts
<1>2. MainOK
  BY CountAssumption, LimitAssumption, NothingIsACommand DEF Init, MainOK, Counts
<1>3. LineOK
  <2>1. buffer \in Seq(Commands) /\ held = << >>
    BY DEF Init
  <2>2. gap \in 0 .. CommandTicks + 1
    BY TimeAssumption DEF Init
  <2>4. short \in BOOLEAN
    BY DEF Init
  <2>3. /\ pairs \in 0 .. MaxPairs /\ half \in {0, 1} /\ (half = 1 => pairs < MaxPairs)
        /\ others \in 0 .. MaxOthers /\ lost \in 0 .. MaxLost
    BY BoundAssumption DEF Init
  <2> QED
    BY <2>1, <2>2, <2>3, <2>4 DEF LineOK
<1>4. HistoryOK
  BY TimeAssumption, CountAssumption DEF Init, HistoryOK, Counts, CloseTicks
<1> QED
  BY <1>1, <1>2, <1>3, <1>4 DEF TypeOK

\* At most one command is put into the buffer: the one that is held, or this one.
LEMMA Arrived ==
  ASSUME LineOK, NEW c, NEW d \in Commands, NEW start \in BOOLEAN, NEW end \in BOOLEAN,
         Arrive(c, d, start, end)
  PROVE  /\ buffer' = buffer \/ \E x \in Commands : /\ held = <<x>> \/ (held = << >> /\ x = d)
                                                    /\ buffer' = Append(buffer, x)
         /\ held' = << >> \/ \E x \in Commands : /\ held = <<x>> \/ (held = << >> /\ x = d)
                                                /\ held' = <<x>>
         /\ held' # << >> => buffer' = buffer
         /\ Unspoilt(c, d, start, end) => held' = << >> /\ buffer' = Append(buffer, c)
<1> DEFINE opened == IF held # << >> THEN held ELSE IF start THEN <<d>> ELSE << >>
<1>1. /\ buffer \in Seq(Commands)
      /\ IF end THEN buffer' = buffer \o opened /\ held' = << >>
                ELSE held' = opened /\ UNCHANGED buffer
  BY DEF LineOK, Arrive
<1>2. held = << >> \/ \E x \in Commands : held = <<x>>
  BY DEF LineOK
<1>3. opened = << >> \/ \E x \in Commands : /\ held = <<x>> \/ (held = << >> /\ x = d)
                                            /\ opened = <<x>>
  BY <1>2
<1>4. buffer \o << >> = buffer /\ \A x : buffer \o <<x>> = Append(buffer, x)
  BY <1>1
<1>5. Unspoilt(c, d, start, end) => end /\ opened = <<c>>
  BY DEF Unspoilt
<1> HIDE DEF opened
<1>6. CASE end
  <2>1. buffer' = buffer \o opened /\ held' = << >>
    BY <1>1, <1>6
  <2>2. CASE opened = << >>
    BY <1>4, <1>5, <2>1, <2>2
  <2>3. CASE opened # << >>
    <3>1. PICK x \in Commands : (held = <<x>> \/ (held = << >> /\ x = d)) /\ opened = <<x>>
      BY <1>3, <2>3
    <3>2. buffer' = Append(buffer, x)
      BY <1>4, <2>1, <3>1
    <3>3. Unspoilt(c, d, start, end) => x = c
      BY <1>5, <3>1
    <3> QED
      BY <2>1, <3>1, <3>2, <3>3
  <2> QED
    BY <2>2, <2>3
<1>7. CASE ~end
  BY <1>1, <1>3, <1>5, <1>7
<1> QED
  BY <1>6, <1>7

LEMMA TypeArrive ==
  ASSUME LineOK, NEW c, NEW d \in Commands, NEW start \in BOOLEAN, NEW end \in BOOLEAN,
         Arrive(c, d, start, end)
  PROVE  /\ buffer' \in Seq(Commands) /\ lost' \in 0 .. MaxLost
         /\ held' = << >> \/ \E x \in Commands : held' = <<x>>
         /\ gap' \in 0 .. CommandTicks + 1 /\ short' \in BOOLEAN
<1>1. buffer' \in Seq(Commands)
  <2>1. buffer \in Seq(Commands) /\ \A x \in Commands : Append(buffer, x) \in Seq(Commands)
    BY DEF LineOK
  <2>2. buffer' = buffer \/ \E x \in Commands : buffer' = Append(buffer, x)
    BY Arrived
  <2> QED
    BY <2>1, <2>2
<1>2. held' = << >> \/ \E x \in Commands : held' = <<x>>
  BY Arrived
<1>3. lost' \in 0 .. MaxLost
  BY BoundAssumption DEF LineOK, Arrive
<1>4. gap' \in 0 .. CommandTicks + 1
  BY TimeAssumption DEF LineOK, Arrive
<1>5. short' \in BOOLEAN
  BY DEF LineOK, Arrive
<1> QED
  BY <1>1, <1>2, <1>3, <1>4, <1>5

LEMMA TypeFromPC == TypeOK /\ FromPC => TypeOK'
<1> SUFFICES ASSUME TypeOK, FromPC PROVE TypeOK'
  OBVIOUS
<1> PICK start \in BOOLEAN, end \in BOOLEAN :
      \/ \E d \in Altered(pairs + 1) : ArriveFirst(d, start, end) \/ ArriveSecond(d, start, end)
      \/ \E c \in Others, d \in Altered(pairs) : ArriveOther(c, d, start, end)
  BY DEF FromPC
<1>0. /\ pairs \in 0 .. MaxPairs /\ half \in {0, 1} /\ (half = 1 => pairs < MaxPairs)
      /\ others \in 0 .. MaxOthers /\ MaxPairs \in Nat /\ MaxOthers \in Nat /\ LineOK
      /\ apart \in 0 .. CloseTicks + 1 /\ CloseTicks \in Nat /\ slips \in Nat
  BY BoundAssumption, TimeAssumption DEF TypeOK, LineOK, HistoryOK, CloseTicks
<1>1. SharedOK' /\ MainOK'
  <2>1. UNCHANGED <<shared, main>>
    BY DEF ArriveFirst, ArriveSecond, ArriveOther, Arrive
  <2> QED
    BY <2>1 DEF TypeOK, SharedOK, MainOK, shared, main
<1>2. PICK c, d : d \in Commands /\ Arrive(c, d, start, end)
  <2>1. CASE \E e \in Altered(pairs + 1) : ArriveFirst(e, start, end) \/ ArriveSecond(e, start, end)
    <3>1. PICK e \in Altered(pairs + 1) : ArriveFirst(e, start, end) \/ ArriveSecond(e, start, end)
      BY <2>1
    <3>2. pairs + 1 \in 0 .. MaxPairs
      BY <1>0, <3>1 DEF ArriveFirst, ArriveSecond
    <3>3. e \in Commands
      BY <3>2, AlteredCommands
    <3> QED
      BY <3>1, <3>3 DEF ArriveFirst, ArriveSecond
  <2>2. CASE \E b \in Others, e \in Altered(pairs) : ArriveOther(b, e, start, end)
    <3>1. PICK b \in Others, e \in Altered(pairs) : ArriveOther(b, e, start, end)
      BY <2>2
    <3>2. e \in Commands
      BY <1>0, AlteredCommands
    <3> QED
      BY <3>1, <3>2 DEF ArriveOther
  <2> QED
    BY <2>1, <2>2
<1>3. /\ buffer' \in Seq(Commands) /\ lost' \in 0 .. MaxLost
      /\ held' = << >> \/ \E x \in Commands : held' = <<x>>
      /\ gap' \in 0 .. CommandTicks + 1 /\ short' \in BOOLEAN
  BY <1>0, <1>2, TypeArrive
<1>4. /\ pairs' \in 0 .. MaxPairs /\ half' \in {0, 1} /\ (half' = 1 => pairs' < MaxPairs)
      /\ others' \in 0 .. MaxOthers
  BY <1>0 DEF ArriveFirst, ArriveSecond, ArriveOther
<1>5. slips' \in Nat /\ apart' \in 0 .. CloseTicks + 1
  BY <1>0 DEF ArriveFirst, ArriveSecond, ArriveOther
<1>6. UNCHANGED <<slack, odometer, overdue>>
  BY <1>2 DEF Arrive
<1>7. LineOK'
  BY <1>3, <1>4 DEF LineOK
<1>8. HistoryOK'
  <2>1. CloseTicks' = CloseTicks
    BY DEF CloseTicks
  <2> QED
    BY <1>5, <1>6, <2>1 DEF TypeOK, HistoryOK, Counts
<1> QED
  BY <1>1, <1>7, <1>8 DEF TypeOK

LEMMA TypeTick == TypeOK /\ Tick => TypeOK'
<1> SUFFICES ASSUME TypeOK, Tick PROVE TypeOK'
  OBVIOUS
<1>1. counter' \in Counts
  BY PlusMinus, CountAssumption DEF TypeOK, SharedOK, Tick, Counts
<1>2. HistoryOK' /\ LineOK'
  BY TimeAssumption DEF TypeOK, HistoryOK, LineOK, Tick, CloseTicks
<1>3. MainOK'
  BY DEF TypeOK, MainOK, Tick, main
<1>4. SharedOK'
  <2>1. CASE servo_level <= SERVO_LEVEL_STOP
    BY <1>1, <2>1 DEF TypeOK, SharedOK, Tick, TickStopped
  <2>2. CASE ~(servo_level <= SERVO_LEVEL_STOP)
    <3>1. w_ref' \in [0 .. 3 -> 0 .. MaxPairs] /\ param_change' \in SUBSET Motors
      BY <2>2 DEF TypeOK, SharedOK, Tick, TickEnabled, TakeOver
    <3>2. pwm' \in {"off", "free", "servo"}
      BY <2>2 DEF TypeOK, SharedOK, Tick, TickEnabled
    <3>3. int_w' \in BOOLEAN
      BY <2>2 DEF Tick, TickEnabled
    <3>4. cnt_updated' \in Nat /\ watch_dog' \in Nat /\ counter_buf' \in Counts
      BY <1>1, <2>2 DEF TypeOK, SharedOK, Tick, TickEnabled
    <3> QED
      BY <1>1, <3>1, <3>2, <3>3, <3>4 DEF TypeOK, SharedOK, Tick
  <2> QED
    BY <2>1, <2>2
<1> QED
  BY <1>2, <1>3, <1>4 DEF TypeOK

LEMMA TypeShutDown ==
  ASSUME SharedOK, MainOK, HistoryOK, ShutDown
  PROVE  SharedOK' /\ MainOK' /\ HistoryOK'
<1>1. SharedOK'
  <2>1. int_w' \in BOOLEAN /\ w_ref' \in [0 .. 3 -> 0 .. MaxPairs]
    BY DEF ShutDown, SharedOK
  <2>2. /\ counter' \in Counts /\ counter_buf' \in Counts /\ cnt_updated' \in Nat
        /\ pwm' \in {"off", "free", "servo"}
    BY DEF ShutDown, SharedOK
  <2>3. watch_dog' = 0 /\ servo_level' = SERVO_LEVEL_STOP /\ param_change' = {}
    BY Zenon DEF ShutDown
  <2>4. watch_dog' \in Nat /\ servo_level' \in Int
    BY <2>3
  <2>5. param_change' \in SUBSET Motors
    BY <2>3
  <2> QED
    BY <2>1, <2>2, <2>4, <2>5 DEF SharedOK
<1>2. MainOK'
  BY DEF ShutDown, MainOK, Goto
<1>3. HistoryOK'
  <2>1. slips' = slips \/ slips' = slips + 1
    BY DEF ShutDown
  <2>2. slips \in Nat
    BY DEF HistoryOK
  <2>3. slips' \in Nat
    BY <2>1, <2>2
  <2>4. UNCHANGED <<slack, odometer, apart>>
    BY DEF ShutDown
  <2>5. overdue' \in Nat
    BY DEF ShutDown
  <2> QED
    BY <2>3, <2>4, <2>5 DEF HistoryOK
<1> QED
  BY <1>1, <1>2, <1>3

LEMMA TypeMain == TypeOK /\ Main => TypeOK'
<1> SUFFICES ASSUME TypeOK, Main PROVE TypeOK'
  OBVIOUS
<1> USE DEF Goto, history
<1>1. LineOK'
  <2>1. CASE Receive
    BY <2>1 DEF TypeOK, LineOK, Receive
  <2>2. CASE ~Receive
    <3>1. UNCHANGED line
      BY <2>2 DEF Main, ReceiveNothing, AnalyseW_ref, LoadChange, StoreChange, AnalyseServo,
           AnalyseLimit, AnalyseIgnored, NoPacket, PacketDue, StartPacket, PacketSent,
           WatchDogQuiet, WatchDogBites, ShutDown
    <3> QED
      BY <3>1 DEF TypeOK, LineOK, line
  <2> QED
    BY <2>1, <2>2
<1>2. SharedOK' /\ MainOK' /\ HistoryOK'
  <2> USE TimeAssumption DEF TypeOK, SharedOK, MainOK, HistoryOK, shared
  <2>1. CASE ReceiveNothing
    BY <2>1 DEF ReceiveNothing
  <2>2. CASE Receive
    <3>1. command' \in Commands
      BY <2>2 DEF LineOK, Receive
    <3> QED
      BY <2>2, <3>1 DEF Receive
  <2>3. CASE AnalyseW_ref
    <3>1. command.motor + 2 \in 0 .. 3 /\ command.value \in 0 .. MaxPairs
      BY <2>3, CommandValues DEF AnalyseW_ref, Motors
    <3>2. w_ref' \in [0 .. 3 -> 0 .. MaxPairs]
      BY <2>3, <3>1 DEF AnalyseW_ref
    <3> QED
      BY <2>3, <3>2 DEF AnalyseW_ref
  <2>4. CASE LoadChange
    BY <2>4 DEF LoadChange
  <2>5. CASE StoreChange
    <3>1. param_change' \in SUBSET Motors
      BY <2>5, CommandValues DEF StoreChange
    <3>2. command' \in Commands
      BY <2>5, NothingIsACommand DEF StoreChange, Forget
    <3> QED
      BY <2>5, <3>1, <3>2 DEF StoreChange
  <2>6. CASE AnalyseServo
    <3>1. int_w' \in BOOLEAN
      BY <2>6 DEF AnalyseServo
    <3>2. command' \in Commands
      BY <2>6, NothingIsACommand DEF AnalyseServo, Forget
    <3>3. servo_level' \in Int
      BY <2>6, CommandValues, LevelAssumption DEF AnalyseServo
    <3> QED
      BY <2>6, <3>1, <3>2, <3>3 DEF AnalyseServo
  <2>7. CASE AnalyseLimit
    <3>1. overdue' \in Nat /\ p_watch_dog_limit' \in Limits
      BY <2>7, CommandValues DEF AnalyseLimit
    <3> QED
      BY <2>7, <3>1, NothingIsACommand DEF AnalyseLimit, Forget
  <2>15. CASE AnalyseIgnored
    BY <2>15, NothingIsACommand DEF AnalyseIgnored, Forget
  <2>8. CASE NoPacket
    BY <2>8 DEF NoPacket
  <2>9. CASE PacketDue
    BY <2>9 DEF PacketDue
  <2>10. CASE StartPacket
    <3>1. packet' \in Counts
      <4>1. counter_buf \in Counts /\ counter_buf2 \in Counts
        OBVIOUS
      <4> QED
        BY <2>10, <4>1, PlusMinus DEF StartPacket, Counts
    <3> QED
      BY <2>10, <3>1 DEF StartPacket
  <2>11. CASE PacketSent
    <3>1. odometer' \in Counts /\ packet' \in Counts
      <4>1. odometer \in Counts /\ packet \in Counts
        OBVIOUS
      <4> QED
        BY <2>11, <4>1, PlusMinus, CountAssumption DEF PacketSent, Counts
    <3> QED
      BY <2>11, <3>1 DEF PacketSent
  <2>12. CASE WatchDogQuiet
    BY <2>12 DEF WatchDogQuiet
  <2>13. CASE WatchDogBites
    BY <2>13 DEF WatchDogBites
  <2>14. CASE ShutDown
    BY <2>14, TypeShutDown
  <2> QED
    BY <2>1, <2>2, <2>3, <2>4, <2>5, <2>6, <2>7, <2>8, <2>9, <2>10, <2>11, <2>12, <2>13, <2>14,
       <2>15 DEF Main
<1> QED
  BY <1>1, <1>2 DEF TypeOK

LEMMA TypeStep == TypeOK /\ [Next]_vars => TypeOK'
<1>1. TypeOK /\ UNCHANGED vars => TypeOK'
  BY DEF TypeOK, SharedOK, MainOK, LineOK, HistoryOK, vars, shared, main, line, history
<1> QED
  BY <1>1, TypeFromPC, TypeTick, TypeMain DEF Next

\* Every variable keeps its range (the commands of the line, the counters of the
\* interrupt, the state of the main loop).
THEOREM TypeCorrect == Spec => []TypeOK
  BY TypeInit, TypeStep, PTL DEF Spec

-----------------------------------------------------------------------------
(* The odometry.                                                           *)

\* While a packet is on its way, counter_buf is not refreshed: the packet is over
\* before the next period is, so that the difference that is being sent is the
\* one to what counter_buf2 will be.
OdometryInv ==
  /\ pc # "sending" => odometer = counter_buf2
  /\ pc = "sending" => /\ odometer = counter_buf2
                       /\ packet = Minus(counter_buf, counter_buf2)
                       /\ cnt_updated + slack <= SendTicks

\* A command that arrives changes nothing but the line.
LEMMA ArriveKeeps ==
  ASSUME FromPC
  PROVE  UNCHANGED <<shared, main, slack>> /\ odometer' = odometer /\ overdue' = overdue
<1>1. PICK c, d, start, end : Arrive(c, d, start, end)
  BY Zenon DEF FromPC, ArriveFirst, ArriveSecond, ArriveOther
<1> QED
  BY <1>1 DEF Arrive

LEMMA OdometryTick == TypeOK /\ OdometryInv /\ Tick => OdometryInv'
<1> SUFFICES ASSUME TypeOK, OdometryInv, Tick PROVE OdometryInv'
  OBVIOUS
<1>1. UNCHANGED <<pc, counter_buf2, packet, odometer>> /\ slack > 0 /\ slack' = slack - 1
  BY DEF Tick, main
<1>2. CASE pc # "sending"
  BY <1>1, <1>2 DEF OdometryInv
<1>3. CASE pc = "sending"
  <2>1. cnt_updated \in Nat /\ slack \in 0 .. SendTicks /\ cnt_updated + slack <= SendTicks
    BY <1>3 DEF TypeOK, SharedOK, HistoryOK, OdometryInv
  <2>2. counter_buf' = counter_buf /\ (cnt_updated' = cnt_updated \/ cnt_updated' = cnt_updated + 1)
    <3>1. cnt_updated + 1 # Period
      BY <1>1, <2>1, TimeAssumption
    <3>2. CASE TickStopped
      BY <3>2 DEF TickStopped
    <3>3. CASE TickEnabled
      BY <3>1, <3>3 DEF TickEnabled
    <3> QED
      BY <3>2, <3>3 DEF Tick
  <2>3. cnt_updated' + slack' <= SendTicks
    BY <1>1, <2>1, <2>2, TimeAssumption
  <2> QED
    BY <1>1, <1>3, <2>2, <2>3 DEF OdometryInv
<1> QED
  BY <1>2, <1>3

LEMMA OdometryStep == TypeOK /\ OdometryInv /\ [Next]_vars => OdometryInv'
<1> SUFFICES ASSUME TypeOK, OdometryInv, [Next]_vars PROVE OdometryInv'
  OBVIOUS
<1>1. CASE Tick
  BY <1>1, OdometryTick
<1>2. CASE StartPacket
  <2>1. slack' = SendTicks /\ cnt_updated' = 0 /\ odometer = counter_buf2
    BY <1>2 DEF StartPacket, OdometryInv, Goto, history
  <2>2. /\ packet' = Minus(counter_buf, counter_buf2)
        /\ UNCHANGED <<counter_buf, counter_buf2, odometer>>
    BY <1>2 DEF StartPacket, history
  <2> QED
    BY <2>1, <2>2, TimeAssumption DEF OdometryInv
<1>3. CASE PacketSent
  <2>1. counter_buf \in 0 .. CntMod - 1 /\ counter_buf2 \in 0 .. CntMod - 1
    BY DEF TypeOK, SharedOK, MainOK, Counts
  <2>2. Plus(counter_buf2, Minus(counter_buf, counter_buf2)) = counter_buf
    BY <2>1, PlusMinus
  <2>3. odometer = counter_buf2 /\ packet = Minus(counter_buf, counter_buf2)
    BY <1>3 DEF PacketSent, Goto, OdometryInv
  <2>4. odometer' = counter_buf2' /\ pc' # "sending"
    BY <1>3, <2>2, <2>3 DEF PacketSent, Goto
  <2> QED
    BY <2>4 DEF OdometryInv
<1>4. CASE FromPC
  <2>1. UNCHANGED <<shared, main, slack, odometer>>
    BY <1>4, ArriveKeeps
  <2> QED
    BY <2>1 DEF OdometryInv, shared, main
<1>5. CASE UNCHANGED vars
  BY <1>5 DEF OdometryInv, vars, shared, main, history
<1>6. CASE Main /\ ~StartPacket /\ ~PacketSent
  <2>1. pc # "sending" /\ pc' # "sending" /\ UNCHANGED <<counter_buf2, odometer>>
    BY <1>6 DEF Main, ReceiveNothing, Receive, AnalyseW_ref, LoadChange, StoreChange,
         AnalyseServo, AnalyseLimit, AnalyseIgnored, NoPacket, PacketDue, WatchDogQuiet,
         WatchDogBites, ShutDown, Goto, history
  <2> QED
    BY <2>1 DEF OdometryInv
<1> QED
  BY <1>1, <1>2, <1>3, <1>4, <1>5, <1>6 DEF Next

\* However the interrupt falls between the statements of the main loop, the PC's
\* sum of the packets is the count the controller takes as told; for every width
\* of the counters and every period longer than a packet takes on the line.
THEOREM OdometryAddsUp == Spec => []OdometryExact
<1>1. Init => OdometryInv
  BY DEF Init, OdometryInv
<1>2. OdometryInv => OdometryExact
  BY DEF OdometryInv, OdometryExact
<1> QED
  BY <1>1, <1>2, TypeCorrect, OdometryStep, PTL DEF Spec

-----------------------------------------------------------------------------
(* The watchdog.                                                           *)

\* How many ticks the watchdog may be overdue on the way round the main loop:
\* what is left of the slack, and what has gone by since it was looked at.
Overdue ==
  CASE pc \in {"receive", "analyse", "load", "store"} -> SendTicks - slack
    [] pc \in {"odometry", "packet"}                  -> SendTicks + 1 - slack
    [] OTHER                                          -> 2 * SendTicks + 1 - slack

WatchInv ==
  /\ overdue <= Overdue
  /\ overdue > 0 => watch_dog > p_watch_dog_limit

\* The numbers the argument is about.
LEMMA WatchNumbers ==
  ASSUME TypeOK
  PROVE  /\ SendTicks \in Nat /\ SendTicks >= 1 /\ slack \in 0 .. SendTicks
         /\ watch_dog \in Nat /\ p_watch_dog_limit \in Int /\ overdue \in Nat
         /\ Overdue \in Nat
<1>1. /\ SendTicks \in Nat /\ SendTicks >= 1 /\ slack \in 0 .. SendTicks
      /\ watch_dog \in Nat /\ overdue \in Nat
  BY TimeAssumption DEF TypeOK, SharedOK, HistoryOK
<1>2. p_watch_dog_limit \in Int
  <2>1. p_watch_dog_limit \in Limits
    BY DEF TypeOK, MainOK
  <2> QED
    BY <2>1, LimitAssumption
<1>3. Overdue \in Nat
  BY <1>1 DEF Overdue
<1> QED
  BY <1>1, <1>2, <1>3

\* A tick uses up as much of the slack as it lets the watchdog be overdue.
LEMMA WatchTick == TypeOK /\ WatchInv /\ Tick => WatchInv'
<1> SUFFICES ASSUME TypeOK, WatchInv, Tick PROVE WatchInv'
  OBVIOUS
<1>1. /\ UNCHANGED <<pc, p_watch_dog_limit>> /\ slack' = slack - 1
      /\ overdue' = IF watch_dog' > p_watch_dog_limit THEN overdue + 1 ELSE 0
  BY DEF Tick, main
<1>2. Overdue' = Overdue + 1
  BY <1>1, WatchNumbers DEF Overdue
<1> QED
  BY <1>1, <1>2, WatchNumbers DEF WatchInv

LEMMA WatchStep == TypeOK /\ WatchInv /\ [Next]_vars => WatchInv'
<1> SUFFICES ASSUME TypeOK, WatchInv, [Next]_vars PROVE WatchInv'
  OBVIOUS
<1>1. CASE Tick
  BY <1>1, WatchTick
<1>2. CASE ReceiveNothing
  <2>1. /\ pc = "receive" /\ pc' = "odometry" /\ slack' = 1
        /\ UNCHANGED <<watch_dog, p_watch_dog_limit, overdue>>
    BY <1>2 DEF ReceiveNothing, Goto, shared, history
  <2> QED
    BY <2>1, WatchNumbers DEF WatchInv, Overdue
<1>3. CASE StartPacket
  <2>1. /\ pc = "packet" /\ pc' = "sending" /\ slack' = SendTicks
        /\ UNCHANGED <<watch_dog, p_watch_dog_limit, overdue>>
    BY <1>3 DEF StartPacket, Goto, history
  <2> QED
    BY <2>1, WatchNumbers DEF WatchInv, Overdue
<1>4. CASE StoreChange
  <2>1. overdue' = 0 /\ pc' = "odometry" /\ UNCHANGED <<slack, p_watch_dog_limit>>
    BY <1>4, Zenon DEF StoreChange, Goto
  <2> QED
    BY <2>1, WatchNumbers DEF WatchInv, Overdue
<1>5. CASE ShutDown
  <2>1. overdue' = 0 /\ pc' = "receive" /\ UNCHANGED <<slack, p_watch_dog_limit>>
    BY <1>5, Zenon DEF ShutDown, Goto
  <2> QED
    BY <2>1, WatchNumbers DEF WatchInv, Overdue
<1>6. CASE AnalyseLimit
  <2>1. /\ pc = "analyse" /\ pc' = "odometry" /\ p_watch_dog_limit' = command.value
        /\ overdue' = (IF watch_dog > command.value THEN overdue ELSE 0)
        /\ UNCHANGED <<watch_dog, slack>>
    BY <1>6 DEF AnalyseLimit, Goto, shared
  <2> QED
    BY <2>1, WatchNumbers DEF WatchInv, Overdue
<1>7. CASE WatchDogQuiet
  <2>1. /\ watch_dog <= p_watch_dog_limit /\ pc' = "receive"
        /\ UNCHANGED <<watch_dog, slack, p_watch_dog_limit, overdue>>
    BY <1>7 DEF WatchDogQuiet, Goto, shared, history
  <2>2. overdue = 0
    BY <2>1, WatchNumbers DEF WatchInv
  <2> QED
    BY <2>1, <2>2, WatchNumbers DEF WatchInv, Overdue
<1>8. CASE Receive \/ LoadChange \/ AnalyseW_ref \/ AnalyseServo \/ AnalyseIgnored \/ NoPacket
           \/ PacketDue \/ PacketSent \/ WatchDogBites
  <2>1. UNCHANGED <<watch_dog, slack, p_watch_dog_limit, overdue>>
    BY <1>8 DEF Receive, LoadChange, AnalyseW_ref, AnalyseServo, AnalyseIgnored, NoPacket, PacketDue,
         PacketSent, WatchDogBites, shared, history
  <2>2. \/ pc = "receive" /\ pc' = "analyse"
        \/ pc = "load" /\ pc' = "store"
        \/ pc = "analyse" /\ pc' \in {"load", "odometry"}
        \/ pc = "odometry" /\ pc' \in {"watch_dog", "packet"}
        \/ pc = "sending" /\ pc' = "watch_dog"
        \/ pc = "watch_dog" /\ pc' = "shut down"
    BY <1>8 DEF Receive, LoadChange, AnalyseW_ref, AnalyseServo, AnalyseIgnored, NoPacket, PacketDue,
         PacketSent, WatchDogBites, Goto
  <2>3. Overdue' >= Overdue /\ Overdue' \in Int
    <3>1. CASE pc' \in {"analyse", "load", "store"}
      <4>1. pc \in {"receive", "analyse", "load", "store"}
        BY <2>2, <3>1
      <4> QED
        BY <2>1, <3>1, <4>1, WatchNumbers DEF Overdue
    <3>2. CASE pc' \in {"odometry", "packet"}
      <4>1. pc \in {"analyse", "odometry"}
        BY <2>2, <3>2
      <4> QED
        BY <2>1, <3>2, <4>1, WatchNumbers DEF Overdue
    <3>3. CASE pc' \in {"watch_dog", "shut down"}
      <4>1. pc \in {"odometry", "sending", "watch_dog"}
        BY <2>2, <3>3
      <4>2. Overdue' = 2 * SendTicks + 1 - slack
        BY <2>1, <3>3 DEF Overdue
      <4>3. Overdue = SendTicks + 1 - slack \/ Overdue = 2 * SendTicks + 1 - slack
        BY <4>1 DEF Overdue
      <4> QED
        BY <4>2, <4>3, WatchNumbers
    <3> QED
      BY <2>2, <3>1, <3>2, <3>3
  <2> QED
    BY <2>1, <2>3, WatchNumbers DEF WatchInv
<1>9. CASE FromPC
  <2>1. UNCHANGED <<shared, main, slack, overdue>>
    BY <1>9, ArriveKeeps
  <2> QED
    BY <2>1 DEF WatchInv, Overdue, shared, main
<1>10. CASE UNCHANGED vars
  BY <1>10 DEF WatchInv, Overdue, vars, shared, main, history
<1> QED
  BY <1>1, <1>2, <1>3, <1>4, <1>5, <1>6, <1>7, <1>8, <1>9, <1>10 DEF Next, Main

\* The watchdog is looked at in time, however many commands come, whatever noise makes of
\* them and whatever is sent: it is never overdue by more than two packets and a tick.
THEOREM WatchDogIsLookedAt == Spec => []Watched
<1>1. Init => WatchInv
  BY TimeAssumption DEF Init, WatchInv, Overdue
<1>2. TypeOK /\ WatchInv => Watched
  BY WatchNumbers DEF WatchInv, Watched, Overdue
<1> QED
  BY <1>1, <1>2, TypeCorrect, WatchStep, PTL DEF Spec

-----------------------------------------------------------------------------
(* The integral of the PI control.                                         *)

LEMMA IntegralStep == TypeOK /\ FreshIntegral /\ [Next]_vars => FreshIntegral'
<1> SUFFICES ASSUME TypeOK, FreshIntegral, [Next]_vars PROVE FreshIntegral'
  OBVIOUS
<1>1. CASE Tick
  <2>1. servo_level' = servo_level
    BY <1>1 DEF Tick
  <2>2. servo_level >= SERVO_LEVEL_VELOCITY => pwm' = "servo"
    <3>1. servo_level \in Int
      BY DEF TypeOK, SharedOK
    <3> QED
      BY <1>1, <3>1 DEF Tick, TickEnabled
  <2> QED
    BY <2>1, <2>2 DEF FreshIntegral
<1>2. CASE AnalyseServo
  <2>1. servo_level \in Int /\ servo_level' = command.value /\ pwm' = pwm
        /\ int_w' = IF servo_level < SERVO_LEVEL_VELOCITY /\ command.value >= SERVO_LEVEL_VELOCITY
                      THEN FALSE ELSE int_w
    BY <1>2 DEF TypeOK, SharedOK, AnalyseServo
  <2>2. CASE servo_level < SERVO_LEVEL_VELOCITY /\ command.value >= SERVO_LEVEL_VELOCITY
    BY <2>1, <2>2 DEF FreshIntegral
  <2>3. CASE servo_level < SERVO_LEVEL_VELOCITY /\ ~(command.value >= SERVO_LEVEL_VELOCITY)
    BY <2>1, <2>3 DEF FreshIntegral
  <2>4. CASE ~(servo_level < SERVO_LEVEL_VELOCITY)
    <3>1. servo_level >= SERVO_LEVEL_VELOCITY
      BY <2>1, <2>4
    <3>2. int_w' = int_w
      BY <2>1, <2>4, Zenon
    <3>3. servo_level >= SERVO_LEVEL_VELOCITY /\ int_w => pwm' = "servo"
      BY <2>1, Zenon DEF FreshIntegral
    <3> QED
      BY <3>1, <3>2, <3>3, Zenon DEF FreshIntegral
  <2> QED
    BY <2>2, <2>3, <2>4
<1>3. CASE ShutDown
  <2>1. servo_level' = SERVO_LEVEL_STOP
    BY <1>3, Zenon DEF ShutDown
  <2> QED
    BY <2>1 DEF FreshIntegral
<1>4. CASE FromPC
  <2>1. UNCHANGED shared
    BY <1>4, ArriveKeeps
  <2> QED
    BY <2>1 DEF FreshIntegral, shared
<1>5. CASE UNCHANGED vars
  BY <1>5 DEF FreshIntegral, vars, shared
<1>6. CASE Main /\ ~AnalyseServo /\ ~ShutDown
  <2>1. UNCHANGED <<servo_level, int_w, pwm>>
    BY <1>6 DEF Main, ReceiveNothing, Receive, AnalyseW_ref, LoadChange, StoreChange,
         AnalyseLimit, AnalyseIgnored, NoPacket, PacketDue, StartPacket, PacketSent,
         WatchDogQuiet, WatchDogBites, shared
  <2> QED
    BY <2>1 DEF FreshIntegral
<1> QED
  BY <1>1, <1>2, <1>3, <1>4, <1>5, <1>6 DEF Next

\* A wheel is never switched to velocity control with the integral of an earlier
\* run, even if the watchdog or a change of mode came in between.
THEOREM IntegralStartsAnew == Spec => []FreshIntegral
<1>1. Init => FreshIntegral
  BY DEF Init, FreshIntegral
<1> QED
  BY <1>1, TypeCorrect, IntegralStep, PTL DEF Spec
-----------------------------------------------------------------------------
(* The set points stay in pairs. A pair that is taken over is one whose second  *)
(* half has been stored; what must not happen in between is that the first half *)
(* of the next pair is stored as well. The invariant follows the commands from  *)
(* the line to w_ref. As long as every command is taken as it was sent it says  *)
(* why there was a tick in between; after that, how much the set points may lag *)
(* behind what was sent.                                                        *)

First(c)  == c.type = "w_ref" /\ c.motor = 0
Second(c) == c.type = "w_ref" /\ c.motor = 1

\* The commands that have arrived and are not analysed to the end.
InHand == pc \in {"analyse", "load", "store"}
InTransit(c) == (\E i \in 1 .. Len(buffer) : c = buffer[i]) \/ (InHand /\ c = command)

\* At most this much time has passed since the last pair was complete if the buffer has
\* not been found empty since: a tick and a packet.
Undrained ==
  \/ apart + slack <= 1
  \/ apart + slack <= CloseTicks /\ cnt_updated + slack <= SendTicks

\* What is in transit is what the PC sent.
SoundInv ==
  slips = 0 =>
    /\ held = << >> /\ p_watch_dog_limit \in Nat /\ servo_level \in {0, 2, 3}
    /\ \A c \in Commands : InTransit(c) => c.type = "w_ref" \/ c \in Others

\* The clocks. When the servo is off the watchdog does not count, and at most one more
\* packet is sent, before which no second set point is stored.
PacketInv ==
  /\ slack <= 1 \/ cnt_updated + slack <= SendTicks
  /\ pc = "packet" => cnt_updated >= Period
  /\ pc = "sending" => cnt_updated + slack <= SendTicks
QuietInv ==
  slips = 0 =>
    /\ servo_level = SERVO_LEVEL_STOP => watch_dog = 0
    /\ pc = "shut down" => servo_level # SERVO_LEVEL_STOP
HandInv == pc \in {"load", "store"} => command.type = "w_ref"
OffInv ==
  slips = 0 /\ servo_level = SERVO_LEVEL_STOP /\ cnt_updated >= Period =>
    /\ pc \in {"receive", "analyse", "load", "store", "odometry", "packet"}
    /\ pc \in {"receive", "analyse", "load", "store"} => param_change = {}
    /\ pc = "store" => loaded = {}

\* Set points in transit are of the pairs sent so far, and if that one is complete,
\* the buffer has not been found empty since.
AgeOf(c) ==
  /\ c.value <= (IF c.motor = 0 THEN pairs + half ELSE pairs)
  /\ c.value <= pairs => Undrained
AgeInv == slips = 0 => \A c \in Commands : InTransit(c) /\ c.type = "w_ref" => AgeOf(c)

LEMMA TransitShrinks ==
  ASSUME TypeOK, Tick \/ Main, NEW c \in Commands, InTransit(c)'
  PROVE  InTransit(c)
<1>1. CASE Receive
  <2>1. /\ buffer \in Seq(Commands) /\ buffer # << >> /\ buffer' = Tail(buffer)
        /\ command' = Head(buffer)
    BY <1>1 DEF Receive, TypeOK, LineOK
  <2>2. Len(buffer) \in Nat /\ Len(buffer) > 0 /\ Len(buffer') = Len(buffer) - 1
    BY <2>1
  <2>3. CASE \E i \in 1 .. Len(buffer') : c = buffer'[i]
    <3>1. PICK i \in 1 .. Len(buffer') : c = buffer'[i]
      BY <2>3
    <3>2. i + 1 \in 1 .. Len(buffer) /\ buffer'[i] = buffer[i + 1]
      BY <2>1, <2>2, <3>1
    <3> QED
      BY <3>1, <3>2 DEF InTransit
  <2>4. CASE c = command'
    <3>1. 1 \in 1 .. Len(buffer) /\ c = buffer[1]
      BY <2>1, <2>2, <2>4
    <3> QED
      BY <3>1 DEF InTransit
  <2> QED
    BY <2>3, <2>4 DEF InTransit
<1>2. CASE ~Receive
  <2>1. buffer' = buffer
    BY <1>2 DEF Main, Tick, ReceiveNothing, AnalyseW_ref, LoadChange, StoreChange, AnalyseServo,
                AnalyseLimit, AnalyseIgnored, NoPacket, PacketDue, StartPacket, PacketSent, WatchDogQuiet,
                WatchDogBites, ShutDown, line
  <2>2. InHand' => InHand /\ command' = command
    <3>1. CASE Tick
      BY <3>1 DEF Tick, main, InHand
    <3>2. CASE AnalyseW_ref \/ LoadChange
      BY <3>2 DEF AnalyseW_ref, LoadChange, Goto, InHand
    <3>3. CASE ~(Tick \/ AnalyseW_ref \/ LoadChange)
      <4>1. pc' \in {"odometry", "watch_dog", "packet", "sending", "receive", "shut down"}
        BY <1>2, <3>3 DEF Main, ReceiveNothing, StoreChange, AnalyseServo, AnalyseLimit, AnalyseIgnored, NoPacket,
                          PacketDue, StartPacket, PacketSent, WatchDogQuiet, WatchDogBites, ShutDown,
                          Goto
      <4> QED
        BY <4>1 DEF InHand
    <3> QED
      BY <3>1, <3>2, <3>3
  <2> QED
    BY <2>1, <2>2 DEF InTransit
<1> QED
  BY <1>1, <1>2

\* The numbers the argument is about.
LEMMA SkewNumbers ==
  ASSUME TypeOK
  PROVE  /\ slack \in Nat /\ slack <= SendTicks /\ cnt_updated \in Nat /\ watch_dog \in Nat
         /\ apart \in Nat /\ apart <= CloseTicks + 1 /\ slips \in Nat /\ gap \in Nat
         /\ pairs \in Nat /\ half \in {0, 1} /\ servo_level \in Int
         /\ SendTicks \in Nat /\ SendTicks > 0 /\ Period \in Nat /\ SendTicks < Period
         /\ CommandTicks \in Nat /\ CommandTicks > 1 /\ CloseTicks = SendTicks + 1
         /\ w_ref[2] \in Nat /\ w_ref[3] \in Nat
         /\ param_change \in SUBSET {0, 1} /\ loaded \in SUBSET {0, 1}
<1>1. w_ref[2] \in 0 .. MaxPairs /\ w_ref[3] \in 0 .. MaxPairs
  BY DEF TypeOK, SharedOK
<1>2. w_ref[2] \in Nat /\ w_ref[3] \in Nat
  BY <1>1, BoundAssumption
<1>3. SendTicks \in Nat /\ SendTicks > 0 /\ Period \in Nat /\ SendTicks < Period
  BY TimeAssumption
<1>4. CommandTicks \in Nat /\ CommandTicks > 1 /\ CloseTicks = SendTicks + 1
  BY TimeAssumption, LineAssumption DEF CloseTicks
<1>5. slack \in Nat /\ slack <= SendTicks /\ apart \in Nat /\ apart <= CloseTicks + 1 /\ slips \in Nat
  BY <1>3, <1>4 DEF TypeOK, HistoryOK
<1>6. gap \in Nat /\ pairs \in Nat /\ half \in {0, 1}
  BY <1>4, BoundAssumption DEF TypeOK, LineOK
<1>7. cnt_updated \in Nat /\ watch_dog \in Nat /\ servo_level \in Int
      /\ param_change \in SUBSET {0, 1} /\ loaded \in SUBSET {0, 1}
  BY DEF TypeOK, SharedOK, MainOK
<1> QED
  BY <1>2, <1>3, <1>4, <1>5, <1>6, <1>7

\* What happens to the history of the losses, step by step.
LEMMA SlipsGrow ==
  ASSUME TypeOK, [Next]_vars
  PROVE  slips \in Nat /\ (slips' = slips \/ slips' = slips + 1)
<1>0. slips \in Nat
  BY SkewNumbers
<1>1. CASE FromPC
  BY <1>0, <1>1 DEF FromPC, ArriveFirst, ArriveSecond, ArriveOther
<1>2. CASE Tick \/ Main \/ UNCHANGED vars
  BY <1>0, <1>2 DEF Tick, Main, ReceiveNothing, Receive, AnalyseW_ref, LoadChange, StoreChange,
        AnalyseServo, AnalyseLimit, AnalyseIgnored, NoPacket, PacketDue, StartPacket, PacketSent,
        WatchDogQuiet, WatchDogBites, ShutDown, history, vars
<1> QED
  BY <1>0, <1>1, <1>2 DEF Next

\* A command that is taken as it was sent is put into the buffer.
Put(c) ==
  /\ LineFree /\ buffer' = Append(buffer, c) /\ held' = << >> /\ gap' = 0
  /\ UNCHANGED <<shared, main, slack>>
SentFirst ==
  /\ half = 0 /\ pairs < MaxPairs /\ Put(w_refCommand(0, pairs + 1))
  /\ half' = 1 /\ ~(apart <= CloseTicks) /\ UNCHANGED <<pairs, apart>>
SentSecond ==
  /\ half = 1 /\ pairs < MaxPairs /\ Put(w_refCommand(1, pairs + 1))
  /\ half' = 0 /\ pairs' = pairs + 1 /\ apart' = 0
SentOther(c) == half = 0 /\ Put(c) /\ UNCHANGED <<pairs, half, apart>>

\* A command that arrives: how far the PC is, and what the command is taken for.
LEMMA Arrival ==
  ASSUME TypeOK, FromPC
  PROVE  \E c, d \in Commands, start, end \in BOOLEAN :
           /\ Arrive(c, d, start, end)
           /\ d.type = "w_ref" => d.value = (pairs + half)'
           /\ ~Unspoilt(c, d, start, end) => slips' = slips + 1
           /\ \/ /\ half = 0 /\ half' = 1 /\ UNCHANGED <<pairs, apart>> /\ pairs < MaxPairs
                 /\ c = w_refCommand(0, pairs + 1)
                 /\ apart <= CloseTicks => slips' = slips + 1
              \/ /\ half = 1 /\ half' = 0 /\ pairs' = pairs + 1 /\ apart' = 0 /\ pairs < MaxPairs
                 /\ c = w_refCommand(1, pairs + 1)
              \/ half = 0 /\ UNCHANGED <<half, pairs, apart>> /\ c \in Others
<1>0. /\ pairs \in 0 .. MaxPairs /\ half \in {0, 1} /\ (half = 1 => pairs < MaxPairs)
      /\ MaxPairs \in Nat /\ apart \in Nat /\ CloseTicks \in Nat
  BY BoundAssumption, SkewNumbers DEF TypeOK, LineOK
<1> PICK start \in BOOLEAN, end \in BOOLEAN :
      \/ \E d \in Altered(pairs + 1) : ArriveFirst(d, start, end) \/ ArriveSecond(d, start, end)
      \/ \E c \in Others, d \in Altered(pairs) : ArriveOther(c, d, start, end)
  BY DEF FromPC
<1>1. \A call, d : d \in Altered(call) /\ d.type = "w_ref" => d.value = call
  BY DEF Altered, w_refCommand, servoCommands, limitCommands, Ignored
<1>2. CASE \E d \in Altered(pairs + 1) : ArriveFirst(d, start, end)
  <2> PICK d \in Altered(pairs + 1) : ArriveFirst(d, start, end)
    BY <1>2
  <2> DEFINE c == w_refCommand(0, pairs + 1)
  <2>1. /\ half = 0 /\ half' = 1 /\ UNCHANGED <<pairs, apart>> /\ pairs < MaxPairs
        /\ Arrive(c, d, start, end)
        /\ slips' = IF Unspoilt(c, d, start, end) /\ apart > CloseTicks THEN slips ELSE slips + 1
    BY DEF ArriveFirst
  <2>2. pairs + 1 \in 0 .. MaxPairs
    BY <1>0, <2>1
  <2>3. c \in Commands /\ d \in Commands
    BY <2>2, AlteredCommands DEF Commands
  <2>4. d.type = "w_ref" => d.value = (pairs + half)'
    <3>1. pairs + 1 = (pairs + half)'
      BY <1>0, <2>1
    <3> QED
      BY <1>1, <3>1
  <2>5. /\ ~Unspoilt(c, d, start, end) => slips' = slips + 1
        /\ apart <= CloseTicks => slips' = slips + 1
    <3>1. apart <= CloseTicks => ~(apart > CloseTicks)
      BY <1>0
    <3> QED
      BY <2>1, <3>1
  <2> QED
    BY <2>1, <2>3, <2>4, <2>5
<1>3. CASE \E d \in Altered(pairs + 1) : ArriveSecond(d, start, end)
  <2> PICK d \in Altered(pairs + 1) : ArriveSecond(d, start, end)
    BY <1>3
  <2> DEFINE c == w_refCommand(1, pairs + 1)
  <2>1. /\ half = 1 /\ half' = 0 /\ pairs' = pairs + 1 /\ apart' = 0 /\ pairs < MaxPairs
        /\ Arrive(c, d, start, end)
        /\ slips' = IF Unspoilt(c, d, start, end) THEN slips ELSE slips + 1
    BY <1>0 DEF ArriveSecond
  <2>2. pairs + 1 \in 0 .. MaxPairs
    BY <1>0, <2>1
  <2>3. c \in Commands /\ d \in Commands
    BY <2>2, AlteredCommands DEF Commands
  <2>4. d.type = "w_ref" => d.value = (pairs + half)'
    <3>1. pairs + 1 = (pairs + half)'
      BY <1>0, <2>1
    <3> QED
      BY <1>1, <3>1
  <2> QED
    BY <2>1, <2>3, <2>4
<1>4. CASE \E c \in Others, d \in Altered(pairs) : ArriveOther(c, d, start, end)
  <2> PICK c \in Others, d \in Altered(pairs) : ArriveOther(c, d, start, end)
    BY <1>4
  <2>1. /\ half = 0 /\ UNCHANGED <<half, pairs, apart>> /\ Arrive(c, d, start, end)
        /\ slips' = IF Unspoilt(c, d, start, end) THEN slips ELSE slips + 1
    BY DEF ArriveOther
  <2>2. c \in Commands /\ d \in Commands
    BY <1>0, AlteredCommands, OthersCommands
  <2>3. d.type = "w_ref" => d.value = (pairs + half)'
    <3>1. pairs = (pairs + half)'
      BY <1>0, <2>1
    <3> QED
      BY <1>1, <3>1
  <2> QED
    BY <2>1, <2>2, <2>3
<1> QED
  BY <1>2, <1>3, <1>4

\* As long as nothing slips, what arrives is what was sent.
LEMMA SentWell ==
  ASSUME TypeOK, FromPC, slips' = 0
  PROVE  SentFirst \/ SentSecond \/ \E c \in Others : SentOther(c)
<1>1. slips \in Nat /\ slips' # slips + 1
  BY SkewNumbers
<1> PICK c \in Commands, d \in Commands, start \in BOOLEAN, end \in BOOLEAN :
      /\ Arrive(c, d, start, end)
      /\ d.type = "w_ref" => d.value = (pairs + half)'
      /\ ~Unspoilt(c, d, start, end) => slips' = slips + 1
      /\ \/ /\ half = 0 /\ half' = 1 /\ UNCHANGED <<pairs, apart>> /\ pairs < MaxPairs
            /\ c = w_refCommand(0, pairs + 1)
            /\ apart <= CloseTicks => slips' = slips + 1
         \/ /\ half = 1 /\ half' = 0 /\ pairs' = pairs + 1 /\ apart' = 0 /\ pairs < MaxPairs
            /\ c = w_refCommand(1, pairs + 1)
         \/ half = 0 /\ UNCHANGED <<half, pairs, apart>> /\ c \in Others
  BY Arrival
<1>2. Unspoilt(c, d, start, end) /\ LineOK
  BY <1>1 DEF TypeOK
<1>3. Put(c)
  <2>1. held' = << >> /\ buffer' = Append(buffer, c)
    BY <1>2, Arrived
  <2> QED
    BY <2>1 DEF Arrive, Put
<1> QED
  BY <1>1, <1>3 DEF SentFirst, SentSecond, SentOther

LEMMA TransitGrows ==
  ASSUME TypeOK, NEW d, Put(d), NEW c, InTransit(c)'
  PROVE  InTransit(c) \/ c = d
<1>1. (InHand /\ c = command)' => InHand /\ c = command
  BY DEF Put, main, InHand
<1>2. CASE \E i \in 1 .. Len(buffer') : c = buffer'[i]
  <2> PICK i \in 1 .. Len(buffer') : c = buffer'[i]
    BY <1>2
  <2>1. buffer \in Seq(Commands) /\ buffer' = Append(buffer, d)
    BY DEF Put, TypeOK, LineOK
  <2>2. CASE i = Len(buffer) + 1
    BY <2>1, <2>2
  <2>3. CASE i # Len(buffer) + 1
    <3>1. i \in 1 .. Len(buffer) /\ c = buffer[i]
      BY <2>1, <2>3
    <3> QED
      BY <3>1 DEF InTransit
  <2> QED
    BY <2>2, <2>3
<1> QED
  BY <1>1, <1>2 DEF InTransit

LEMMA UndrainedTick == TypeOK /\ Undrained /\ Tick => Undrained'
<1> SUFFICES ASSUME TypeOK, Undrained, Tick PROVE Undrained'
  OBVIOUS
<1>1. slack > 0 /\ slack' = slack - 1 /\ apart' = IF apart <= CloseTicks THEN apart + 1 ELSE apart
  BY DEF Tick
<1>2. cnt_updated' = cnt_updated \/ cnt_updated' = cnt_updated + 1
  BY DEF Tick, TickStopped, TickEnabled
<1> QED
  BY <1>1, <1>2, SkewNumbers DEF Undrained, CloseTicks

LEMMA UndrainedPacket == TypeOK /\ PacketInv /\ Undrained /\ StartPacket => Undrained'
<1> SUFFICES ASSUME TypeOK, PacketInv, Undrained, StartPacket PROVE Undrained'
  OBVIOUS
<1>1. slack' = SendTicks /\ cnt_updated' = 0 /\ apart' = apart /\ cnt_updated >= Period
  BY DEF StartPacket, Goto, PacketInv, history
<1> QED
  BY <1>1, SkewNumbers DEF Undrained, CloseTicks

\* No other step of the main loop or the interrupt concerns the clocks.
LEMMA UndrainedMain ==
  ASSUME TypeOK, PacketInv, Undrained, Tick \/ Main, ~ReceiveNothing
  PROVE  Undrained'
<1>1. CASE Tick
  BY <1>1, UndrainedTick
<1>2. CASE StartPacket
  BY <1>2, UndrainedPacket
<1>3. CASE ~Tick /\ ~StartPacket
  <2>1. UNCHANGED <<apart, slack, cnt_updated>>
    BY <1>3 DEF Main, Receive, AnalyseW_ref, LoadChange, StoreChange, AnalyseServo,
                AnalyseLimit, AnalyseIgnored, NoPacket, PacketDue, PacketSent, WatchDogQuiet,
                WatchDogBites, ShutDown, shared, history
  <2> QED
    BY <2>1 DEF Undrained, CloseTicks
<1> QED
  BY <1>1, <1>2, <1>3

LEMMA PacketStep == TypeOK /\ PacketInv /\ [Next]_vars => PacketInv'
<1> SUFFICES ASSUME TypeOK, PacketInv, [Next]_vars PROVE PacketInv'
  OBVIOUS
<1>1. CASE Tick
  <2>1. slack' = slack - 1 /\ slack > 0 /\ pc' = pc
    BY <1>1 DEF Tick, main
  <2>2. cnt_updated' = cnt_updated \/ cnt_updated' = cnt_updated + 1
    BY <1>1 DEF Tick, TickStopped, TickEnabled
  <2> QED
    BY <2>1, <2>2, SkewNumbers DEF PacketInv
<1>2. CASE ReceiveNothing
  BY <1>2, SkewNumbers DEF ReceiveNothing, PacketInv, Goto, shared
<1>3. CASE StartPacket
  BY <1>3, SkewNumbers DEF StartPacket, PacketInv, Goto
<1>4. CASE PacketDue
  BY <1>4, SkewNumbers DEF PacketDue, PacketInv, Goto, shared
<1>5. CASE Main /\ ~(ReceiveNothing \/ StartPacket \/ PacketDue)
  <2>1. UNCHANGED <<slack, cnt_updated>> /\ (pc' = pc \/ pc' \notin {"packet", "sending"})
    BY <1>5 DEF Main, Receive,
                AnalyseW_ref, LoadChange, StoreChange, AnalyseServo, AnalyseLimit, AnalyseIgnored, NoPacket,
                PacketSent, WatchDogQuiet, WatchDogBites, ShutDown, Goto, shared
  <2> QED
    BY <2>1 DEF PacketInv
<1>6. CASE FromPC \/ UNCHANGED vars
  <2>1. UNCHANGED <<slack, cnt_updated, pc>>
    BY <1>6, ArriveKeeps DEF shared, main, vars
  <2> QED
    BY <2>1 DEF PacketInv
<1> QED
  BY <1>1, <1>2, <1>3, <1>4, <1>5, <1>6 DEF Next

\* What is in transit stays what was sent, and a servo command switches the servo on.
LEMMA ServoOn ==
  ASSUME TypeOK, SoundInv, slips = 0, AnalyseServo
  PROVE  servo_level' \in {2, 3}
<1>1. /\ command \in Commands /\ command.type = "servo" /\ servo_level' = command.value
      /\ InTransit(command)
  BY DEF AnalyseServo, TypeOK, MainOK, InTransit, InHand, Goto
<1>2. command \in Others
  BY <1>1 DEF SoundInv
<1>3. command.value \in {2, 3}
  BY <1>1, <1>2 DEF Others, servoCommands, limitCommands
<1> QED
  BY <1>1, <1>3

LEMMA SoundStep == TypeOK /\ SoundInv /\ [Next]_vars => SoundInv'
<1> SUFFICES ASSUME TypeOK, SoundInv, [Next]_vars, slips' = 0
             PROVE  /\ held' = << >> /\ p_watch_dog_limit' \in Nat /\ servo_level' \in {0, 2, 3}
                    /\ \A c \in Commands : InTransit(c)' => c.type = "w_ref" \/ c \in Others
  BY DEF SoundInv
<1>0. slips = 0
  BY SlipsGrow
<1>1. /\ held = << >> /\ p_watch_dog_limit \in Nat /\ servo_level \in {0, 2, 3}
      /\ \A c \in Commands : InTransit(c) => c.type = "w_ref" \/ c \in Others
  BY <1>0 DEF SoundInv
<1>2. CASE FromPC
  <2>1. PICK d : Put(d) /\ (d.type = "w_ref" \/ d \in Others)
    <3>1. w_refCommand(0, pairs + 1).type = "w_ref" /\ w_refCommand(1, pairs + 1).type = "w_ref"
      BY DEF w_refCommand
    <3> QED
      BY <1>2, <3>1, SentWell DEF SentFirst, SentSecond, SentOther
  <2>2. held' = << >> /\ UNCHANGED <<p_watch_dog_limit, servo_level>>
    BY <2>1 DEF Put, shared, main
  <2> QED
    BY <1>1, <2>1, <2>2, TransitGrows
<1>3. CASE Tick \/ Main
  <2>1. \A c \in Commands : InTransit(c)' => c.type = "w_ref" \/ c \in Others
    BY <1>1, <1>3, TransitShrinks
  <2>2. held' = held
    BY <1>3 DEF Tick, Main, ReceiveNothing, Receive, AnalyseW_ref, LoadChange, StoreChange,
          AnalyseServo, AnalyseLimit, AnalyseIgnored, NoPacket, PacketDue, StartPacket, PacketSent,
          WatchDogQuiet, WatchDogBites, ShutDown, line
  <2>3. servo_level' \in {0, 2, 3}
    <3>1. CASE AnalyseServo
      BY <1>0, <3>1, ServoOn
    <3>2. CASE ~AnalyseServo
      <4>1. servo_level' = servo_level \/ servo_level' = 0
        BY <1>3, <3>2 DEF Tick, Main, ReceiveNothing, Receive, AnalyseW_ref, LoadChange,
              StoreChange, AnalyseLimit, AnalyseIgnored, NoPacket, PacketDue, StartPacket,
              PacketSent, WatchDogQuiet, WatchDogBites, ShutDown, shared
      <4> QED
        BY <1>1, <4>1
    <3> QED
      BY <3>1, <3>2
  <2>4. p_watch_dog_limit' \in Nat
    <3>1. CASE AnalyseLimit
      <4>1. /\ command \in Commands /\ command.type = "watch_dog_limit"
            /\ p_watch_dog_limit' = command.value /\ InTransit(command)
        BY <3>1 DEF AnalyseLimit, TypeOK, MainOK, InTransit, InHand, Goto
      <4>2. command \in Others
        BY <1>1, <4>1
      <4>3. command.value = PCLimit
        BY <4>1, <4>2 DEF Others, servoCommands, limitCommands
      <4> QED
        BY <4>1, <4>3, LimitAssumption
    <3>2. CASE ~AnalyseLimit
      <4>1. p_watch_dog_limit' = p_watch_dog_limit
        BY <1>3, <3>2 DEF Tick, Main, ReceiveNothing, Receive, AnalyseW_ref, LoadChange,
              StoreChange, AnalyseServo, AnalyseIgnored, NoPacket, PacketDue, StartPacket,
              PacketSent, WatchDogQuiet, WatchDogBites, ShutDown, main
      <4> QED
        BY <1>1, <4>1
    <3> QED
      BY <3>1, <3>2
  <2> QED
    BY <1>1, <2>1, <2>2, <2>3, <2>4
<1>4. CASE UNCHANGED vars
  BY <1>1, <1>4 DEF InTransit, InHand, vars, shared, main, line
<1> QED
  BY <1>2, <1>3, <1>4 DEF Next

LEMMA QuietStep == TypeOK /\ SoundInv /\ QuietInv /\ [Next]_vars => QuietInv'
<1> SUFFICES ASSUME TypeOK, SoundInv, QuietInv, [Next]_vars, slips' = 0 PROVE QuietInv'
  BY DEF QuietInv
<1>0. slips = 0
  BY SlipsGrow
<1>1. CASE Tick
  <2>1. pc' = pc /\ servo_level' = servo_level
    BY <1>1 DEF Tick, main
  <2>2. servo_level = SERVO_LEVEL_STOP => watch_dog' = watch_dog
    BY <1>1, SkewNumbers DEF Tick, TickStopped
  <2> QED
    BY <1>0, <2>1, <2>2 DEF QuietInv
<1>2. CASE StoreChange \/ ShutDown
  BY <1>0, <1>2 DEF StoreChange, ShutDown, QuietInv, Goto
<1>3. CASE AnalyseServo
  <2>1. servo_level' # SERVO_LEVEL_STOP
    BY <1>0, <1>3, ServoOn
  <2>2. pc' = "odometry"
    BY <1>3 DEF AnalyseServo, Goto
  <2> QED
    BY <1>0, <2>1, <2>2 DEF QuietInv
<1>4. CASE WatchDogBites
  <2>1. watch_dog # 0
    <3>1. p_watch_dog_limit \in Nat /\ watch_dog > p_watch_dog_limit
      BY <1>0, <1>4 DEF SoundInv, WatchDogBites
    <3> QED
      BY <3>1, SkewNumbers
  <2>2. UNCHANGED <<servo_level, watch_dog>>
    BY <1>4 DEF WatchDogBites, shared
  <2> QED
    BY <1>0, <2>1, <2>2 DEF QuietInv
<1>5. CASE Main /\ ~(StoreChange \/ ShutDown \/ AnalyseServo \/ WatchDogBites)
  <2>1. UNCHANGED <<servo_level, watch_dog>> /\ (pc' = pc \/ pc' # "shut down")
    BY <1>5 DEF Main, Receive,
                ReceiveNothing, AnalyseW_ref, LoadChange, AnalyseLimit, AnalyseIgnored, NoPacket, PacketDue,
                StartPacket, PacketSent, WatchDogQuiet, Goto, shared
  <2> QED
    BY <1>0, <2>1 DEF QuietInv
<1>6. CASE FromPC \/ UNCHANGED vars
  <2>1. UNCHANGED <<servo_level, watch_dog, pc>>
    BY <1>6, ArriveKeeps DEF shared, main, vars
  <2> QED
    BY <1>0, <2>1 DEF QuietInv
<1> QED
  BY <1>1, <1>2, <1>3, <1>4, <1>5, <1>6 DEF Next

LEMMA HandStep == HandInv /\ [Next]_vars => HandInv'
<1> SUFFICES ASSUME HandInv, [Next]_vars PROVE HandInv'
  OBVIOUS
<1>1. CASE AnalyseW_ref \/ LoadChange
  BY <1>1 DEF AnalyseW_ref, LoadChange, HandInv, Goto
<1>2. CASE Main /\ ~(AnalyseW_ref \/ LoadChange)
  <2>1. pc' \notin {"load", "store"}
    BY <1>2 DEF Main, Receive,
                ReceiveNothing, StoreChange, AnalyseServo, AnalyseLimit, AnalyseIgnored, NoPacket, PacketDue,
                StartPacket, PacketSent, WatchDogQuiet, WatchDogBites, ShutDown, Goto
  <2> QED
    BY <2>1 DEF HandInv
<1>3. CASE FromPC \/ Tick \/ UNCHANGED vars
  <2>1. pc' = pc /\ command' = command
    BY <1>3, ArriveKeeps DEF Tick, main, vars
  <2> QED
    BY <2>1 DEF HandInv
<1> QED
  BY <1>1, <1>2, <1>3 DEF Next

LEMMA OffStep == TypeOK /\ SoundInv /\ PacketInv /\ QuietInv /\ OffInv /\ [Next]_vars => OffInv'
<1> SUFFICES ASSUME TypeOK, SoundInv, PacketInv, QuietInv, OffInv, [Next]_vars,
                    slips' = 0, servo_level' = SERVO_LEVEL_STOP, cnt_updated' >= Period
             PROVE  /\ pc' \in {"receive", "analyse", "load", "store", "odometry", "packet"}
                    /\ pc' \in {"receive", "analyse", "load", "store"} => param_change' = {}
                    /\ pc' = "store" => loaded' = {}
  BY DEF OffInv
<1>0. slips = 0
  BY SlipsGrow
<1>1. CASE Tick
  <2>1. UNCHANGED <<pc, servo_level, loaded>>
    BY <1>1 DEF Tick, main
  <2>2. cnt_updated' = cnt_updated /\ param_change' = param_change
    BY <1>1, <2>1 DEF Tick, TickStopped
  <2> QED
    BY <1>0, <2>1, <2>2 DEF OffInv
<1>2. CASE FromPC \/ UNCHANGED vars
  <2>1. UNCHANGED <<shared, main>>
    BY <1>2, ArriveKeeps DEF vars
  <2> QED
    BY <1>0, <2>1 DEF OffInv, shared, main
<1>3. CASE ShutDown
  BY <1>3 DEF ShutDown, Goto
<1>4. CASE StartPacket
  BY <1>4, SkewNumbers DEF StartPacket
<1>5. CASE AnalyseServo
  BY <1>0, <1>5, ServoOn
<1>6. CASE Main /\ ~(ShutDown \/ StartPacket \/ AnalyseServo)
  <2>1. UNCHANGED <<servo_level, cnt_updated>>
    BY <1>6 DEF Main, Receive, ReceiveNothing, AnalyseW_ref, LoadChange, StoreChange, AnalyseLimit,
                AnalyseIgnored, NoPacket, PacketDue, PacketSent, WatchDogQuiet, WatchDogBites, shared
  <2>2. pc \in {"receive", "analyse", "load", "store", "odometry", "packet"} /\ ~(cnt_updated < Period)
    BY <1>0, <2>1, SkewNumbers DEF OffInv
  <2>3. CASE Receive \/ ReceiveNothing \/ AnalyseW_ref \/ AnalyseLimit \/ AnalyseIgnored
    BY <1>0, <2>1, <2>3 DEF Receive, ReceiveNothing, AnalyseW_ref, AnalyseLimit, AnalyseIgnored, Goto, OffInv, shared
  <2>4. CASE LoadChange \/ StoreChange \/ PacketDue
    BY <1>0, <2>1, <2>4 DEF LoadChange, StoreChange, PacketDue, Goto, OffInv, shared
  <2>5. ~(NoPacket \/ PacketSent \/ WatchDogQuiet \/ WatchDogBites)
    BY <2>2 DEF NoPacket, PacketSent, WatchDogQuiet, WatchDogBites, Goto
  <2> QED
    BY <1>6, <2>3, <2>4, <2>5 DEF Main
<1> QED
  BY <1>1, <1>2, <1>3, <1>4, <1>5, <1>6 DEF Next

LEMMA AgeStep == TypeOK /\ PacketInv /\ AgeInv /\ [Next]_vars => AgeInv'
<1> SUFFICES ASSUME TypeOK, PacketInv, AgeInv, [Next]_vars, slips' = 0,
                    NEW c \in Commands, InTransit(c)', c.type = "w_ref"
             PROVE  AgeOf(c)'
  BY DEF AgeInv
<1>0. c.motor \in {0, 1} /\ c.value \in Nat /\ slips = 0
  <2>1. c.motor \in {0, 1} /\ c.value \in 0 .. MaxPairs
    BY CommandValues
  <2>2. slips = 0
    BY SlipsGrow
  <2> QED
    BY <2>1, <2>2, BoundAssumption
<1>1. CASE SentFirst
  <2> DEFINE d == w_refCommand(0, pairs + 1)
  <2>1. Put(d)
    BY <1>1 DEF SentFirst
  <2>2. /\ half = 0 /\ half' = 1 /\ pairs' = pairs /\ apart' = apart /\ slack' = slack
        /\ cnt_updated' = cnt_updated
    BY <1>1 DEF SentFirst, Put, shared
  <2>3. InTransit(c) \/ c = d
    BY <2>1, TransitGrows
  <2>4. CASE InTransit(c)
    <3>1. AgeOf(c)
      BY <1>0, <2>4 DEF AgeInv
    <3> QED
      BY <1>0, <2>2, <3>1, SkewNumbers DEF AgeOf, Undrained, CloseTicks
  <2>5. CASE c = d
    <3>1. c.motor = 0 /\ c.value = pairs + 1
      BY <2>5 DEF w_refCommand
    <3> QED
      BY <2>2, <3>1, SkewNumbers DEF AgeOf
  <2> QED
    BY <2>3, <2>4, <2>5
<1>2. CASE SentSecond
  <2> DEFINE d == w_refCommand(1, pairs + 1)
  <2>1. Put(d)
    BY <1>2 DEF SentSecond
  <2>2. /\ half = 1 /\ half' = 0 /\ pairs' = pairs + 1 /\ apart' = 0 /\ slack' = slack
        /\ cnt_updated' = cnt_updated
    BY <1>2 DEF SentSecond, Put, shared
  <2>3. Undrained'
    BY <2>2, SkewNumbers DEF PacketInv, Undrained, CloseTicks
  <2>4. InTransit(c) \/ c = d
    BY <2>1, TransitGrows
  <2>5. c.value <= pairs + 1
    <3>1. CASE InTransit(c)
      <4>1. AgeOf(c)
        BY <1>0, <3>1 DEF AgeInv
      <4> QED
        BY <1>0, <2>2, <4>1, SkewNumbers DEF AgeOf
    <3>2. CASE c = d
      <4>1. c.value = pairs + 1
        BY <3>2 DEF w_refCommand
      <4> QED
        BY <4>1, SkewNumbers
    <3> QED
      BY <2>4, <3>1, <3>2
  <2> QED
    BY <1>0, <2>2, <2>3, <2>5, SkewNumbers DEF AgeOf
<1>3. CASE \E d \in Others : SentOther(d)
  <2> PICK d \in Others : SentOther(d)
    BY <1>3
  <2>1. Put(d) /\ UNCHANGED <<half, pairs, apart, slack, cnt_updated>>
    BY DEF SentOther, Put, shared
  <2>2. InTransit(c)
    <3>1. d.type # "w_ref"
      BY OthersCommands
    <3> QED
      BY <2>1, <3>1, TransitGrows
  <2>3. AgeOf(c)
    BY <1>0, <2>2 DEF AgeInv
  <2> QED
    BY <2>1, <2>3 DEF AgeOf, Undrained, CloseTicks
<1>4. CASE (Tick \/ Main) /\ ~ReceiveNothing
  <2>1. AgeOf(c)
    BY <1>0, <1>4, TransitShrinks DEF AgeInv
  <2>2. UNCHANGED <<half, pairs>>
    BY <1>4 DEF Tick, Main, Receive, AnalyseW_ref, LoadChange, StoreChange, AnalyseServo,
                AnalyseLimit, AnalyseIgnored, NoPacket, PacketDue, StartPacket, PacketSent, WatchDogQuiet,
                WatchDogBites, ShutDown, line
  <2> QED
    BY <1>4, <2>1, <2>2, UndrainedMain DEF AgeOf
<1>5. CASE ReceiveNothing
  <2>1. pc' = "odometry" /\ buffer' = << >>
    BY <1>5 DEF ReceiveNothing, Goto, line
  <2> QED
    BY <2>1 DEF InTransit, InHand
<1>6. CASE UNCHANGED vars
  <2>1. InTransit(c)
    BY <1>6 DEF InTransit, InHand, vars, line, main
  <2>2. AgeOf(c)
    BY <1>0, <2>1 DEF AgeInv
  <2> QED
    BY <1>6, <2>2 DEF AgeOf, Undrained, CloseTicks, vars, line, history, shared
<1> QED
  BY <1>1, <1>2, <1>3, <1>4, <1>5, <1>6, SentWell DEF Next, Main

\* What becomes of x and y, the set points received last, when c is analysed: after the
\* loss of k commands they are no more than k + 1 apart, and if none was lost the first
\* one of a pair leads by one, and the second one catches up.
Follows(c, x, y, x1, y1, k) ==
  /\ x1 = IF First(c) THEN c.value ELSE x
  /\ y1 = IF Second(c) THEN c.value ELSE y
  /\ x1 - y1 <= k + 1 /\ y1 - x1 <= k + 1
  /\ k = 0 =>
       /\ First(c)  => x = y /\ x1 = y1 + 1
       /\ Second(c) => x = y + 1 /\ x1 = y1
       /\ c.type # "w_ref" => x1 = y1

\* a[i] and b[i] are the set points of motor 0 and 1 once the oldest i commands of the
\* buffer, and the one that is analysed, have been stored.
Queue(a, b) ==
  /\ a \in [0 .. Len(buffer) -> Nat] /\ b \in [0 .. Len(buffer) -> Nat]
  /\ \A i \in 1 .. Len(buffer) : Follows(buffer[i], a[i - 1], b[i - 1], a[i], b[i], slips)
  /\ IF pc = "analyse" THEN Follows(command, w_ref[2], w_ref[3], a[0], b[0], slips)
                       ELSE a[0] = w_ref[2] /\ b[0] = w_ref[3]

\* In the end the motors get what was sent last, but for what was lost.
Sent(x, y) ==
  /\ x <= pairs + half /\ y <= pairs + half
  /\ (pairs + half) - x <= slips /\ pairs - y <= slips
  /\ slips = 0 => y = pairs

\* A set point that is held was sent after those.
Held(x, y) ==
  \A h \in Commands : held = <<h>> =>
    /\ First(h)  => x <= h.value /\ h.value <= pairs + half
    /\ Second(h) => y <= h.value /\ h.value <= pairs + half

EndOf(x, y) == Sent(x, y) /\ Held(x, y)

StopOK == 1 \in param_change => servo_level = SERVO_LEVEL_STOP

\* The first set point of a pair is the first command for w_ref in transit, and if a second
\* one is noted, the servo is off and stays off until it is stored.
Early ==
  /\ \A i \in 1 .. Len(buffer) : First(buffer[i]) =>
       /\ \A j \in 1 .. i - 1 : buffer[j].type # "w_ref"
       /\ InHand => command.type # "w_ref"
       /\ 1 \in param_change =>
            /\ servo_level = SERVO_LEVEL_STOP
            /\ \A j \in 1 .. i - 1 : buffer[j].type # "servo"
            /\ InHand => command.type # "servo"
  /\ pc = "analyse" /\ First(command) => StopOK

\* The set points that are stored.
ActInv ==
  /\ w_ref[2] = w_ref[3] \/ w_ref[2] = w_ref[3] + 1
  /\ pc \in {"load", "store"} /\ Second(command) => w_ref[2] = w_ref[3]
  /\ w_ref[2] # w_ref[3] =>
       StopOK /\ (pc = "store" /\ 1 \in loaded => servo_level = SERVO_LEVEL_STOP)
  /\ w_ref[2] # w_ref[3] /\ ~(pc \in {"load", "store"} /\ First(command)) => 0 \in param_change
  /\ pc = "load" /\ Second(command) => 0 \in param_change /\ StopOK
  /\ pc = "store" /\ Second(command) => 0 \in loaded

\* The set points received change in AnalyseW_ref only, those in use in Tick only.
LEMMA SetPoints ==
  ASSUME TypeOK, [Next]_vars
  PROVE  /\ ~AnalyseW_ref => w_ref'[2] = w_ref[2] /\ w_ref'[3] = w_ref[3]
         /\ ~AnalyseW_ref /\ ~Tick => UNCHANGED <<w_ref[0], w_ref[1]>>
<1>0. w_ref \in [0 .. 3 -> 0 .. MaxPairs]
  BY DEF TypeOK, SharedOK
<1>1. CASE AnalyseW_ref
  BY <1>1
<1>2. CASE Tick
  <2>1. w_ref' = w_ref \/ w_ref' = [w_ref EXCEPT ![0] = w_ref[2], ![1] = w_ref[3]]
    BY <1>2 DEF Tick, TickStopped, TickEnabled, TakeOver
  <2> QED
    BY <1>0, <1>2, <2>1
<1>3. CASE FromPC \/ UNCHANGED vars
  <2>1. w_ref' = w_ref
    BY <1>3, ArriveKeeps DEF shared, vars
  <2> QED
    BY <2>1
<1>4. CASE Main /\ ~AnalyseW_ref
  <2>1. w_ref' = w_ref
    BY <1>4 DEF Main, ReceiveNothing, Receive, LoadChange, StoreChange, AnalyseServo,
                AnalyseLimit, AnalyseIgnored, NoPacket, PacketDue, StartPacket, PacketSent,
                WatchDogQuiet, WatchDogBites, ShutDown, shared
  <2> QED
    BY <2>1
<1> QED
  BY <1>1, <1>2, <1>3, <1>4 DEF Next

LEMMA CommandOK ==
  ASSUME TypeOK
  PROVE  /\ command \in Commands /\ command.motor \in {0, 1}
         /\ command.type = "w_ref" => First(command) \/ Second(command)
         /\ ~(First(command) /\ Second(command))
         /\ First(command) => command.value \in Nat /\ command.type = "w_ref"
         /\ Second(command) => command.value \in Nat /\ command.type = "w_ref"
<1>1. command \in Commands
  BY DEF TypeOK, MainOK
<1>2. command.motor \in Motors /\ (command.type = "w_ref" => command.value \in 0 .. MaxPairs)
  BY <1>1, CommandValues
<1>3. command.type = "w_ref" => command.value \in Nat
  BY <1>2, BoundAssumption
<1> QED
  BY <1>1, <1>2, <1>3 DEF First, Second

LEMMA ActAnalyse ==
  ASSUME TypeOK, slips = 0, ActInv, AnalyseW_ref, NEW a, NEW b, Queue(a, b), Early
  PROVE  ActInv'
<1>0. w_ref[2] \in Nat /\ w_ref[3] \in Nat
  BY SkewNumbers
<1>1. /\ pc = "analyse" /\ pc' = "load" /\ command.type = "w_ref" /\ command' = command
      /\ UNCHANGED <<param_change, servo_level>>
  BY DEF AnalyseW_ref, Goto
<1>2. Follows(command, w_ref[2], w_ref[3], a[0], b[0], slips)
  BY <1>1 DEF Queue
<1>3. w_ref'[2] = a[0] /\ w_ref'[3] = b[0]
  <2>1. /\ w_ref \in [0 .. 3 -> 0 .. MaxPairs]
        /\ w_ref' = [w_ref EXCEPT ![command.motor + 2] = command.value]
    BY DEF AnalyseW_ref, TypeOK, SharedOK
  <2>2. CASE First(command)
    BY <1>2, <2>1, <2>2 DEF First, Follows
  <2>3. CASE Second(command)
    BY <1>2, <2>1, <2>3 DEF Second, Follows
  <2> QED
    BY <1>1, <2>2, <2>3, CommandOK
<1>4. a[0] \in Nat /\ b[0] \in Nat
  BY DEF Queue, TypeOK, LineOK
<1>5. CASE First(command)
  <2>1. a[0] = b[0] + 1 /\ ~Second(command)
    BY <1>2, <1>5, CommandOK DEF Follows
  <2>2. StopOK'
    BY <1>1, <1>5 DEF Early, StopOK
  <2> QED
    BY <1>1, <1>3, <1>5, <2>1, <2>2 DEF ActInv
<1>6. CASE Second(command)
  <2>1. a[0] = b[0] /\ w_ref[2] = w_ref[3] + 1 /\ ~First(command)
    BY <1>2, <1>6, CommandOK DEF Follows
  <2>2. w_ref[2] # w_ref[3]
    BY <1>0, <2>1
  <2>3. 0 \in param_change /\ StopOK
    BY <1>1, <2>2 DEF ActInv
  <2>4. 0 \in param_change' /\ StopOK'
    BY <1>1, <2>3 DEF StopOK
  <2>5. w_ref'[2] = w_ref'[3]
    BY <1>3, <2>1
  <2>6. pc' # "store"
    BY <1>1
  <2> QED
    BY <2>4, <2>5, <2>6 DEF ActInv
<1> QED
  BY <1>1, <1>5, <1>6, CommandOK

LEMMA ActStep ==
  ASSUME TypeOK, slips = 0, slips' = 0, SoundInv, QuietInv, HandInv, ActInv, [Next]_vars,
         NEW a, NEW b, Queue(a, b), Early
  PROVE  ActInv'
<1> DEFINE w2 == w_ref[2]
           w3 == w_ref[3]
<1>0. /\ w2 \in Nat /\ w3 \in Nat
      /\ param_change \in SUBSET {0, 1} /\ loaded \in SUBSET {0, 1} /\ servo_level \in {0, 2, 3}
  BY SkewNumbers DEF SoundInv
<1>1. CASE AnalyseW_ref
  BY <1>1, ActAnalyse
<1>2. CASE ~AnalyseW_ref
  <2>1. w_ref'[2] = w2 /\ w_ref'[3] = w3
    BY <1>2, SetPoints
  <2>2. w2 = w3 \/ w2 = w3 + 1
    BY DEF ActInv
  <2>3. w2 # w3 => StopOK /\ (pc = "store" /\ 1 \in loaded => servo_level = SERVO_LEVEL_STOP)
    BY DEF ActInv
  <2>4. w2 # w3 /\ ~(pc \in {"load", "store"} /\ First(command)) => 0 \in param_change
    BY DEF ActInv
  <2>5. pc \in {"load", "store"} /\ Second(command) => w2 = w3
    BY DEF ActInv
  <2> HIDE DEF w2, w3
  <2>6. CASE Tick
    <3>1. UNCHANGED <<pc, command, loaded, servo_level>>
      BY <2>6 DEF Tick, main
    <3>2. param_change' = param_change \/
            (param_change = {0, 1} /\ param_change' = {} /\ servo_level # SERVO_LEVEL_STOP)
      BY <2>6, <1>0 DEF Tick, TickStopped, TickEnabled, TakeOver
    <3>3. StopOK => StopOK' /\ param_change' = param_change
      BY <3>1, <3>2 DEF StopOK
    <3>4. CASE StopOK
      BY <2>1, <3>1, <3>3, <3>4 DEF ActInv, Second, First, w2, w3
    <3>5. CASE ~StopOK
      <4>1. w2 = w3
        BY <2>3, <3>5
      <4>2. ~(pc = "load" /\ Second(command))
        BY <3>5 DEF ActInv
      <4>3. pc = "store" /\ Second(command) => 0 \in loaded
        BY DEF ActInv
      <4> QED
        BY <2>1, <3>1, <4>1, <4>2, <4>3 DEF ActInv, Second, First
    <3> QED
      BY <3>4, <3>5
  <2>7. CASE ShutDown
    <3>1. pc' = "receive" /\ pc = "shut down" /\ param_change' = {}
      BY <2>7 DEF ShutDown, Goto
    <3>2. param_change # {0}
      <4>1. slips' = IF param_change = {0} THEN slips + 1 ELSE slips
        BY <2>7 DEF ShutDown
      <4>2. slips' # slips + 1
        OBVIOUS
      <4> QED
        BY <4>1, <4>2
    <3>3. w2 = w3
      <4>1. SUFFICES ASSUME w2 # w3 PROVE FALSE
        OBVIOUS
      <4>2. 0 \in param_change /\ StopOK
        BY <2>3, <2>4, <3>1, <4>1
      <4>3. 1 \in param_change
        BY <1>0, <3>2, <4>2
      <4> QED
        BY <3>1, <4>2, <4>3 DEF StopOK, QuietInv
    <3> QED
      BY <2>1, <3>1, <3>3 DEF ActInv
  <2>8. CASE LoadChange
    <3>1. /\ pc = "load" /\ pc' = "store" /\ loaded' = param_change
          /\ UNCHANGED <<param_change, servo_level, command>>
      BY <2>8 DEF LoadChange, Goto, shared
    <3>2. StopOK' = StopOK
      BY <3>1 DEF StopOK
    <3>3. StopOK => (1 \in loaded' => servo_level' = SERVO_LEVEL_STOP)
      BY <3>1 DEF StopOK
    <3>4. pc = "load" /\ Second(command) => 0 \in param_change
      BY DEF ActInv
    <3> HIDE DEF StopOK
    <3> QED
      BY <2>1, <2>2, <2>3, <2>4, <2>5, <3>1, <3>2, <3>3, <3>4 DEF ActInv, Second, First
  <2>9. CASE StoreChange
    <3>1. /\ pc = "store" /\ pc' = "odometry" /\ param_change' = loaded \cup {command.motor}
          /\ servo_level' = servo_level
      BY <2>9 DEF StoreChange, Goto
    <3>2. CASE First(command)
      <4>1. 0 \in param_change' /\ (1 \in param_change' => 1 \in loaded)
        BY <3>1, <3>2 DEF First
      <4>2. w2 # w3 => StopOK'
        BY <2>3, <3>1, <4>1 DEF StopOK
      <4> QED
        BY <2>1, <2>2, <3>1, <4>1, <4>2 DEF ActInv
    <3>3. CASE Second(command)
      <4>1. w2 = w3
        BY <2>5, <3>1, <3>3
      <4> QED
        BY <2>1, <3>1, <4>1 DEF ActInv
    <3> QED
      BY <3>1, <3>2, <3>3, CommandOK DEF HandInv
  <2>10. CASE AnalyseServo
    <3>1. /\ pc = "analyse" /\ pc' = "odometry" /\ command.type # "w_ref"
          /\ param_change' = param_change
      BY <2>10 DEF AnalyseServo, Goto
    <3>2. Follows(command, w_ref[2], w_ref[3], a[0], b[0], slips)
      BY <3>1 DEF Queue
    <3>3. ~First(command) /\ ~Second(command)
      BY <3>1 DEF First, Second
    <3>4. w2 = w3
      BY <3>1, <3>2, <3>3 DEF Follows, w2, w3
    <3> QED
      BY <2>1, <3>1, <3>4 DEF ActInv
  <2>11. CASE Main /\ ~(ShutDown \/ LoadChange \/ StoreChange \/ AnalyseServo)
    <3>1. UNCHANGED <<param_change, servo_level>>
      BY <1>2, <2>11 DEF Main, ReceiveNothing, Receive, AnalyseLimit, AnalyseIgnored, NoPacket,
            PacketDue, StartPacket, PacketSent, WatchDogQuiet, WatchDogBites, shared
    <3>2. pc \notin {"load", "store"} /\ pc' \notin {"load", "store"}
      BY <1>2, <2>11 DEF Main, ReceiveNothing, Receive, AnalyseLimit, AnalyseIgnored, NoPacket,
            PacketDue, StartPacket, PacketSent, WatchDogQuiet, WatchDogBites, Goto
    <3>3. StopOK' = StopOK
      BY <3>1 DEF StopOK
    <3> HIDE DEF StopOK
    <3> QED
      BY <2>1, <2>2, <2>3, <2>4, <3>1, <3>2, <3>3 DEF ActInv
  <2>12. CASE FromPC \/ UNCHANGED vars
    <3>1. UNCHANGED <<param_change, servo_level, pc, command, loaded>>
      BY <2>12, ArriveKeeps DEF shared, main, vars
    <3> QED
      BY <2>1, <3>1 DEF ActInv, StopOK, Second, First, w2, w3
  <2> QED
    BY <1>2, <2>6, <2>7, <2>8, <2>9, <2>10, <2>11, <2>12 DEF Next
<1> QED
  BY <1>1, <1>2

\* More may be lost.
LEMMA FollowsMore ==
  ASSUME NEW c, NEW x, NEW y, NEW x1 \in Nat, NEW y1 \in Nat,
         NEW j \in Nat, NEW k \in Nat, j <= k, Follows(c, x, y, x1, y1, j)
  PROVE  Follows(c, x, y, x1, y1, k)
<1>1. x1 - y1 <= k + 1 /\ y1 - x1 <= k + 1
  BY DEF Follows
<1>2. k = 0 => j = 0
  OBVIOUS
<1> QED
  BY <1>1, <1>2 DEF Follows

\* The queue stays as it is when neither the buffer nor what is analysed changes.
LEMMA QueueKept ==
  ASSUME TypeOK, TypeOK', slips <= slips', NEW a, NEW b, Queue(a, b), buffer' = buffer,
         w_ref'[2] = w_ref[2], w_ref'[3] = w_ref[3],
         \/ pc' = pc /\ command' = command
         \/ pc # "analyse" /\ pc' # "analyse"
  PROVE  Queue(a, b)'
<1> DEFINE L == Len(buffer)
<1>1. L \in Nat /\ slips \in Nat /\ slips' \in Nat
  <2>1. buffer \in Seq(Commands) /\ slips \in Nat
    BY DEF TypeOK, LineOK, HistoryOK
  <2>2. slips' \in Nat
    BY DEF TypeOK, HistoryOK
  <2> QED
    BY <2>1, <2>2
<1>2. a \in [0 .. L -> Nat] /\ b \in [0 .. L -> Nat]
  BY DEF Queue
<1>3. ASSUME NEW i \in 1 .. L
      PROVE  Follows(buffer[i], a[i - 1], b[i - 1], a[i], b[i], slips')
  <2>1. Follows(buffer[i], a[i - 1], b[i - 1], a[i], b[i], slips)
    BY DEF Queue
  <2>2. a[i] \in Nat /\ b[i] \in Nat
    BY <1>1, <1>2
  <2> QED
    BY <1>1, <2>1, <2>2, FollowsMore
<1>4. CASE pc = "analyse"
  <2>1. Follows(command, w_ref[2], w_ref[3], a[0], b[0], slips)
    BY <1>4 DEF Queue
  <2>2. a[0] \in Nat /\ b[0] \in Nat
    BY <1>1, <1>2
  <2>3. Follows(command, w_ref[2], w_ref[3], a[0], b[0], slips')
    BY <1>1, <2>1, <2>2, FollowsMore
  <2>4. pc' = "analyse" /\ command' = command
    BY <1>4
  <2> HIDE DEF L
  <2> QED
    BY <1>2, <1>3, <2>3, <2>4 DEF Queue, L
<1>5. CASE pc # "analyse"
  <2>1. pc' # "analyse" /\ a[0] = w_ref[2] /\ b[0] = w_ref[3]
    BY <1>5 DEF Queue
  <2> QED
    BY <1>2, <1>3, <2>1 DEF Queue
<1> QED
  BY <1>4, <1>5

\* A function on 0 .. n with one more value, and without its first.
Extend(f, n, x) == [i \in 0 .. n + 1 |-> IF i = n + 1 THEN x ELSE f[i]]
Shift(f, n)     == [i \in 0 .. n - 1 |-> f[i + 1]]

\* A command that arrives is the last.
LEMMA QueueArrive ==
  ASSUME TypeOK, TypeOK', slips <= slips', NEW a, NEW b, Queue(a, b),
         NEW c, buffer' = Append(buffer, c), UNCHANGED <<w_ref, pc, command>>,
         NEW x \in Nat, NEW y \in Nat,
         Follows(c, a[Len(buffer)], b[Len(buffer)], x, y, slips'),
         NEW a2, NEW b2,
         a2 = Extend(a, Len(buffer), x),
         b2 = Extend(b, Len(buffer), y)
  PROVE  Queue(a2, b2)'
<1> DEFINE L == Len(buffer)
<1>1. /\ buffer \in Seq(Commands) /\ L \in Nat /\ Len(buffer') = L + 1
      /\ slips \in Nat /\ slips' \in Nat
  BY DEF TypeOK, LineOK, HistoryOK
<1>2. a \in [0 .. L -> Nat] /\ b \in [0 .. L -> Nat]
  BY DEF Queue
<1>3. a2 \in [0 .. L + 1 -> Nat] /\ b2 \in [0 .. L + 1 -> Nat]
  BY <1>1, <1>2 DEF Extend
<1>4. \A i \in 0 .. L : a2[i] = a[i] /\ b2[i] = b[i]
  BY <1>1 DEF Extend
<1>5. a2[L + 1] = x /\ b2[L + 1] = y
  BY <1>1 DEF Extend
<1>6. ASSUME NEW i \in 1 .. L + 1
      PROVE  Follows(buffer'[i], a2[i - 1], b2[i - 1], a2[i], b2[i], slips')
  <2>1. CASE i = L + 1
    <3>1. i - 1 = L /\ L \in 0 .. L /\ buffer'[i] = c
      BY <1>1, <2>1
    <3>2. a2[i - 1] = a[L] /\ b2[i - 1] = b[L]
      BY <1>4, <3>1
    <3> QED
      BY <1>5, <2>1, <3>1, <3>2
  <2>2. CASE i # L + 1
    <3>1. i \in 1 .. L /\ i \in 0 .. L /\ i - 1 \in 0 .. L /\ buffer'[i] = buffer[i]
      BY <1>1, <2>2
    <3>2. Follows(buffer[i], a[i - 1], b[i - 1], a[i], b[i], slips)
      BY <3>1 DEF Queue
    <3>3. a[i] \in Nat /\ b[i] \in Nat
      BY <1>2, <3>1
    <3>4. Follows(buffer[i], a[i - 1], b[i - 1], a[i], b[i], slips')
      BY <1>1, <3>2, <3>3, FollowsMore
    <3> QED
      BY <1>4, <3>1, <3>4
  <2> QED
    BY <2>1, <2>2
<1>7. a[0] \in Nat /\ b[0] \in Nat /\ a2[0] = a[0] /\ b2[0] = b[0]
  <2>1. 0 \in 0 .. L
    BY <1>1
  <2>2. a[0] \in Nat /\ b[0] \in Nat
    BY <1>2, <2>1
  <2>3. a2[0] = a[0] /\ b2[0] = b[0]
    BY <1>4, <2>1
  <2> QED
    BY <2>2, <2>3
<1>8. IF pc' = "analyse" THEN Follows(command', w_ref'[2], w_ref'[3], a2[0], b2[0], slips')
                         ELSE a2[0] = w_ref'[2] /\ b2[0] = w_ref'[3]
  <2>1. CASE pc = "analyse"
    <3>1. Follows(command, w_ref[2], w_ref[3], a[0], b[0], slips)
      BY <2>1 DEF Queue
    <3>2. Follows(command, w_ref[2], w_ref[3], a[0], b[0], slips')
      BY <1>1, <1>7, <3>1, FollowsMore
    <3> QED
      BY <1>7, <2>1, <3>2
  <2>2. CASE pc # "analyse"
    BY <1>7, <2>2 DEF Queue
  <2> QED
    BY <2>1, <2>2
<1> HIDE DEF L
<1> QED
  BY <1>1, <1>3, <1>6, <1>8 DEF Queue

\* The oldest command is taken out of the buffer.
LEMMA QueueReceive ==
  ASSUME TypeOK, TypeOK', Receive, NEW a, NEW b, Queue(a, b),
         NEW a2, NEW b2,
         a2 = Shift(a, Len(buffer)),
         b2 = Shift(b, Len(buffer))
  PROVE  Queue(a2, b2)'
<1> DEFINE L == Len(buffer)
<1>1. /\ buffer \in Seq(Commands) /\ buffer # << >> /\ buffer' = Tail(buffer)
      /\ command' = Head(buffer) /\ pc = "receive" /\ pc' = "analyse"
      /\ UNCHANGED <<w_ref, slips>>
  BY DEF TypeOK, LineOK, Receive, Goto, shared, history
<1>2. L \in Nat /\ L > 0 /\ Len(buffer') = L - 1 /\ command' = buffer[1]
  BY <1>1
<1>3. a \in [0 .. L -> Nat] /\ b \in [0 .. L -> Nat]
  BY DEF Queue
<1>4. a2 \in [0 .. L - 1 -> Nat] /\ b2 \in [0 .. L - 1 -> Nat]
  BY <1>2, <1>3 DEF Shift
<1>5. \A i \in 0 .. L - 1 : a2[i] = a[i + 1] /\ b2[i] = b[i + 1]
  BY <1>2 DEF Shift
<1>6. ASSUME NEW i \in 1 .. L - 1
      PROVE  Follows(buffer'[i], a2[i - 1], b2[i - 1], a2[i], b2[i], slips)
  <2>1. i + 1 \in 1 .. L /\ i \in 0 .. L - 1 /\ i - 1 \in 0 .. L - 1 /\ buffer'[i] = buffer[i + 1]
    BY <1>1, <1>2
  <2>2. Follows(buffer[i + 1], a[(i + 1) - 1], b[(i + 1) - 1], a[i + 1], b[i + 1], slips)
    BY <2>1 DEF Queue
  <2>3. (i + 1) - 1 = i /\ (i - 1) + 1 = i
    OBVIOUS
  <2>4. a2[i - 1] = a[i] /\ b2[i - 1] = b[i] /\ a2[i] = a[i + 1] /\ b2[i] = b[i + 1]
    BY <1>5, <2>1, <2>3
  <2> QED
    BY <2>1, <2>2, <2>3, <2>4
<1>7. Follows(command', w_ref'[2], w_ref'[3], a2[0], b2[0], slips)
  <2>1. 1 \in 1 .. L /\ 0 \in 0 .. L - 1
    BY <1>2
  <2>2. Follows(buffer[1], a[1 - 1], b[1 - 1], a[1], b[1], slips)
    BY <2>1 DEF Queue
  <2>3. 1 - 1 = 0 /\ 0 + 1 = 1
    OBVIOUS
  <2>4. a[0] = w_ref[2] /\ b[0] = w_ref[3]
    BY <1>1 DEF Queue
  <2>5. a2[0] = a[1] /\ b2[0] = b[1]
    BY <1>5, <2>1, <2>3
  <2> QED
    BY <1>1, <1>2, <2>2, <2>3, <2>4, <2>5
<1> HIDE DEF L
<1> QED
  BY <1>1, <1>2, <1>4, <1>6, <1>7 DEF Queue

\* The command in hand is analysed.
LEMMA QueueAnalyse ==
  ASSUME TypeOK, AnalyseW_ref \/ AnalyseServo \/ AnalyseLimit \/ AnalyseIgnored,
         NEW a, NEW b, Queue(a, b)
  PROVE  Queue(a, b)'
<1>1. pc = "analyse" /\ pc' # "analyse" /\ UNCHANGED <<buffer, slips>>
  BY DEF AnalyseW_ref, AnalyseServo, AnalyseLimit, AnalyseIgnored, Goto, line, history
<1>2. Follows(command, w_ref[2], w_ref[3], a[0], b[0], slips)
  BY <1>1 DEF Queue
<1>3. a[0] = w_ref'[2] /\ b[0] = w_ref'[3]
  <2>1. CASE AnalyseW_ref
    <3>1. /\ w_ref \in [0 .. 3 -> 0 .. MaxPairs] /\ command.type = "w_ref"
          /\ w_ref' = [w_ref EXCEPT ![command.motor + 2] = command.value]
      BY <2>1 DEF AnalyseW_ref, TypeOK, SharedOK
    <3>2. CASE First(command)
      BY <1>2, <3>1, <3>2, CommandOK DEF First, Follows
    <3>3. CASE Second(command)
      BY <1>2, <3>1, <3>3, CommandOK DEF Second, Follows
    <3> QED
      BY <3>1, <3>2, <3>3, CommandOK
  <2>2. CASE AnalyseServo \/ AnalyseLimit \/ AnalyseIgnored
    <3>1. command.type # "w_ref" /\ w_ref' = w_ref
      BY <2>2 DEF AnalyseServo, AnalyseLimit, AnalyseIgnored, shared
    <3>2. ~First(command) /\ ~Second(command)
      BY <3>1 DEF First, Second
    <3> QED
      BY <1>2, <3>1, <3>2 DEF Follows
  <2> QED
    BY <2>1, <2>2
<1> QED
  BY <1>1, <1>3 DEF Queue

\* Every step but an arrival and Receive leaves the queue as it is.
LEMMA QueueRest ==
  ASSUME TypeOK, TypeOK', (Tick \/ Main) /\ ~Receive, NEW a, NEW b, Queue(a, b)
  PROVE  Queue(a, b)'
<1>1. CASE AnalyseW_ref \/ AnalyseServo \/ AnalyseLimit \/ AnalyseIgnored
  BY <1>1, QueueAnalyse
<1>2. CASE ~(AnalyseW_ref \/ AnalyseServo \/ AnalyseLimit \/ AnalyseIgnored)
  <2>1. w_ref'[2] = w_ref[2] /\ w_ref'[3] = w_ref[3] /\ slips <= slips'
    <3>1. slips \in Nat /\ (slips' = slips \/ slips' = slips + 1)
      BY SlipsGrow DEF Next
    <3>2. slips <= slips'
      BY <3>1
    <3> QED
      BY <1>2, <3>2, SetPoints DEF Next
  <2>2. buffer' = buffer
    BY <1>2 DEF Tick, Main, ReceiveNothing, LoadChange, StoreChange, NoPacket, PacketDue,
          StartPacket, PacketSent, WatchDogQuiet, WatchDogBites, ShutDown, line
  <2>3. CASE Tick
    <3>1. pc' = pc /\ command' = command
      BY <2>3 DEF Tick, main
    <3> QED
      BY <2>1, <2>2, <3>1, QueueKept
  <2>4. CASE Main
    <3>1. pc # "analyse" /\ pc' # "analyse"
      BY <1>2, <2>4 DEF Main, ReceiveNothing, LoadChange, StoreChange, NoPacket, PacketDue,
            StartPacket, PacketSent, WatchDogQuiet, WatchDogBites, ShutDown, Goto
    <3> QED
      BY <2>1, <2>2, <3>1, QueueKept
  <2> QED
    BY <2>3, <2>4
<1> QED
  BY <1>1, <1>2

\* In transit is what is in the buffer or in hand.
LEMMA Listed ==
  ASSUME TypeOK
  PROVE  /\ buffer \in Seq(Commands) /\ Len(buffer) \in Nat
         /\ \A i \in 1 .. Len(buffer) : buffer[i] \in Commands /\ InTransit(buffer[i])
         /\ InHand => command \in Commands /\ InTransit(command)
<1>1. buffer \in Seq(Commands) /\ Len(buffer) \in Nat
  BY DEF TypeOK, LineOK
<1>2. \A i \in 1 .. Len(buffer) : buffer[i] \in Commands /\ InTransit(buffer[i])
  BY <1>1 DEF InTransit
<1>3. InHand => command \in Commands /\ InTransit(command)
  BY CommandOK DEF InTransit
<1> QED
  BY <1>1, <1>2, <1>3

\* Steps of the interrupt and the main loop that store nothing and switch nothing on.
LEMMA EarlyKept ==
  ASSUME Early, buffer' = buffer,
         InHand' => InHand /\ command' = command,
         pc' = "analyse" => pc = "analyse" /\ command' = command,
         1 \in param_change' => 1 \in param_change /\ servo_level' = servo_level
  PROVE  Early'
<1>1. StopOK => StopOK'
  BY DEF StopOK
<1>2. ASSUME NEW i \in 1 .. Len(buffer), First(buffer[i])
      PROVE  /\ \A j \in 1 .. i - 1 : buffer[j].type # "w_ref"
             /\ InHand' => command'.type # "w_ref"
             /\ 1 \in param_change' =>
                  /\ servo_level' = SERVO_LEVEL_STOP
                  /\ \A j \in 1 .. i - 1 : buffer[j].type # "servo"
                  /\ InHand' => command'.type # "servo"
  BY <1>2 DEF Early
<1>3. pc' = "analyse" /\ First(command') => StopOK'
  BY <1>1 DEF Early
<1> HIDE DEF InHand, StopOK
<1> QED
  BY <1>2, <1>3 DEF Early

LEMMA EarlyRest ==
  ASSUME TypeOK, HandInv, (Tick \/ Main) /\ ~Receive, Early
  PROVE  Early'
<1>0. buffer' = buffer
  BY DEF Tick, Main, ReceiveNothing, AnalyseW_ref, LoadChange, StoreChange, AnalyseServo,
         AnalyseLimit, AnalyseIgnored, NoPacket, PacketDue, StartPacket, PacketSent, WatchDogQuiet,
         WatchDogBites, ShutDown, line
<1>1. CASE AnalyseW_ref
  <2>1. pc = "analyse" /\ pc' = "load" /\ command.type = "w_ref"
    BY <1>1 DEF AnalyseW_ref, Goto
  <2>2. \A i \in 1 .. Len(buffer) : ~First(buffer[i])
    BY <2>1 DEF Early, InHand
  <2> QED
    BY <1>0, <2>1, <2>2 DEF Early
<1>2. CASE StoreChange
  <2>1. pc = "store" /\ pc' = "odometry" /\ command.type = "w_ref"
    BY <1>2 DEF StoreChange, Goto, HandInv
  <2>2. \A i \in 1 .. Len(buffer) : ~First(buffer[i])
    BY <2>1 DEF Early, InHand
  <2> QED
    BY <1>0, <2>1, <2>2 DEF Early
<1>3. CASE AnalyseServo
  <2>1. /\ pc = "analyse" /\ pc' = "odometry" /\ command.type = "servo"
        /\ param_change' = param_change
    BY <1>3 DEF AnalyseServo, Goto
  <2>2. \A i \in 1 .. Len(buffer) : First(buffer[i]) => 1 \notin param_change
    BY <2>1 DEF Early, InHand
  <2>3. ~InHand'
    BY <2>1 DEF InHand
  <2>4. \A i \in 1 .. Len(buffer) : First(buffer[i]) =>
           \A j \in 1 .. i - 1 : buffer[j].type # "w_ref"
    BY DEF Early
  <2> HIDE DEF InHand
  <2> QED
    BY <1>0, <2>1, <2>2, <2>3, <2>4 DEF Early
<1>4. CASE Tick
  <2>1. pc' = pc /\ command' = command /\ servo_level' = servo_level
    BY <1>4 DEF Tick, main
  <2>2. 1 \in param_change' => 1 \in param_change
    BY <1>4 DEF Tick, TickStopped, TickEnabled, TakeOver
  <2>3. InHand' = InHand
    BY <2>1 DEF InHand
  <2> QED
    BY <1>0, <2>1, <2>2, <2>3, EarlyKept
<1>5. CASE LoadChange
  <2>1. pc = "load" /\ pc' = "store" /\ UNCHANGED <<command, param_change, servo_level>>
    BY <1>5 DEF LoadChange, Goto, shared
  <2>2. InHand
    BY <2>1 DEF InHand
  <2> QED
    BY <1>0, <2>1, <2>2, EarlyKept
<1>6. CASE Main /\ ~(AnalyseW_ref \/ StoreChange \/ AnalyseServo \/ LoadChange)
  <2>1. 1 \in param_change' => 1 \in param_change /\ servo_level' = servo_level
    BY <1>6 DEF Main, ReceiveNothing, AnalyseLimit, AnalyseIgnored, NoPacket,
          PacketDue, StartPacket, PacketSent, WatchDogQuiet, WatchDogBites, ShutDown, shared
  <2>2. pc' \notin {"analyse", "load", "store"}
    BY <1>6 DEF Main, ReceiveNothing, AnalyseLimit, AnalyseIgnored, NoPacket,
          PacketDue, StartPacket, PacketSent, WatchDogQuiet, WatchDogBites, ShutDown, Goto
  <2>3. ~InHand' /\ pc' # "analyse"
    BY <2>2 DEF InHand
  <2> QED
    BY <1>0, <2>1, <2>3, EarlyKept
<1> QED
  BY <1>1, <1>2, <1>3, <1>4, <1>5, <1>6

LEMMA EarlyReceive ==
  ASSUME TypeOK, Receive, Early
  PROVE  Early'
<1> DEFINE L == Len(buffer)
<1>1. /\ buffer \in Seq(Commands) /\ buffer # << >> /\ buffer' = Tail(buffer)
      /\ command' = Head(buffer) /\ pc' = "analyse"
      /\ UNCHANGED <<param_change, servo_level>>
  BY DEF TypeOK, LineOK, Receive, Goto, shared
<1>2. L \in Nat /\ L > 0 /\ Len(buffer') = L - 1 /\ command' = buffer[1]
  BY <1>1
<1>3. \A i \in 1 .. L - 1 : i + 1 \in 1 .. L /\ buffer'[i] = buffer[i + 1]
  BY <1>1, <1>2
<1>4. ASSUME NEW i \in 1 .. L - 1, First(buffer'[i])
      PROVE  /\ \A j \in 1 .. i - 1 : buffer'[j].type # "w_ref"
             /\ command'.type # "w_ref"
             /\ 1 \in param_change' =>
                  /\ servo_level' = SERVO_LEVEL_STOP
                  /\ \A j \in 1 .. i - 1 : buffer'[j].type # "servo"
                  /\ command'.type # "servo"
  <2>1. i + 1 \in 1 .. L /\ First(buffer[i + 1])
    BY <1>3, <1>4
  <2>2. /\ \A j \in 1 .. (i + 1) - 1 : buffer[j].type # "w_ref"
        /\ 1 \in param_change =>
             /\ servo_level = SERVO_LEVEL_STOP
             /\ \A j \in 1 .. (i + 1) - 1 : buffer[j].type # "servo"
    BY <2>1 DEF Early
  <2>3. 1 \in 1 .. (i + 1) - 1
    BY <1>2
  <2>4. \A j \in 1 .. i - 1 : j + 1 \in 1 .. (i + 1) - 1 /\ buffer'[j] = buffer[j + 1]
    <3>1. \A j \in 1 .. i - 1 : j + 1 \in 1 .. (i + 1) - 1 /\ j \in 1 .. L - 1
      BY <1>2
    <3> QED
      BY <1>3, <3>1
  <2>5. buffer[1].type # "w_ref" /\ \A j \in 1 .. i - 1 : buffer'[j].type # "w_ref"
    BY <2>2, <2>3, <2>4
  <2>6. 1 \in param_change =>
          /\ servo_level = SERVO_LEVEL_STOP /\ buffer[1].type # "servo"
          /\ \A j \in 1 .. i - 1 : buffer'[j].type # "servo"
    BY <2>2, <2>3, <2>4
  <2> QED
    BY <1>1, <1>2, <2>5, <2>6
<1>5. First(command') => StopOK'
  <2>1. 1 \in 1 .. L
    BY <1>2
  <2>2. First(buffer[1]) => StopOK
    BY <2>1 DEF Early, StopOK
  <2> QED
    BY <1>1, <1>2, <2>2 DEF StopOK
<1> HIDE DEF L
<1> QED
  BY <1>1, <1>2, <1>4, <1>5 DEF Early

\* No set point is in transit, and if a second one is noted, the servo stays off.
WayClear ==
  /\ \A d \in Commands : InTransit(d) => d.type # "w_ref"
  /\ 1 \in param_change =>
       /\ servo_level = SERVO_LEVEL_STOP
       /\ \A d \in Commands : InTransit(d) => d.type # "servo"

LEMMA EarlyArrive ==
  ASSUME TypeOK, UNCHANGED <<shared, main>>, Early,
         NEW c, buffer' = Append(buffer, c), First(c) => WayClear
  PROVE  Early'
<1> DEFINE L == Len(buffer)
<1>1. /\ buffer \in Seq(Commands) /\ L \in Nat /\ Len(buffer') = L + 1
      /\ UNCHANGED <<param_change, servo_level, pc, command>>
  BY DEF TypeOK, LineOK, shared, main
<1>2. \A i \in 1 .. L : buffer'[i] = buffer[i]
  BY <1>1
<1>3. InHand' = InHand /\ StopOK' = StopOK
  BY <1>1 DEF InHand, StopOK
<1>4. ASSUME NEW i \in 1 .. L + 1, First(buffer'[i])
      PROVE  /\ \A j \in 1 .. i - 1 : buffer'[j].type # "w_ref"
             /\ InHand' => command'.type # "w_ref"
             /\ 1 \in param_change' =>
                  /\ servo_level' = SERVO_LEVEL_STOP
                  /\ \A j \in 1 .. i - 1 : buffer'[j].type # "servo"
                  /\ InHand' => command'.type # "servo"
  <2>1. \A j \in 1 .. i - 1 : j \in 1 .. L /\ buffer'[j] = buffer[j]
    <3>1. \A j \in 1 .. i - 1 : j \in 1 .. L
      BY <1>1
    <3> QED
      BY <1>2, <3>1
  <2>2. CASE i = L + 1
    <3>1. First(c)
      <4>1. buffer'[i] = c
        BY <1>1, <2>2
      <4> QED
        BY <1>4, <4>1
    <3>2. /\ \A d \in Commands : InTransit(d) => d.type # "w_ref"
          /\ 1 \in param_change =>
                /\ servo_level = SERVO_LEVEL_STOP
                /\ \A d \in Commands : InTransit(d) => d.type # "servo"
      BY <3>1 DEF WayClear
    <3>3. \A j \in 1 .. i - 1 : buffer[j] \in Commands /\ InTransit(buffer[j])
      BY <2>1, Listed
    <3>4. InHand => command \in Commands /\ InTransit(command)
      BY Listed
    <3>5. /\ \A j \in 1 .. i - 1 : buffer'[j].type # "w_ref"
          /\ InHand => command.type # "w_ref"
      BY <2>1, <3>2, <3>3, <3>4
    <3>6. 1 \in param_change =>
            /\ servo_level = SERVO_LEVEL_STOP
            /\ \A j \in 1 .. i - 1 : buffer'[j].type # "servo"
            /\ InHand => command.type # "servo"
      BY <2>1, <3>2, <3>3, <3>4
    <3> QED
      BY <1>1, <1>3, <3>5, <3>6
  <2>3. CASE i # L + 1
    <3>1. i \in 1 .. L
      BY <1>1, <2>3
    <3>2. First(buffer[i])
      BY <1>2, <1>4, <3>1
    <3>3. /\ \A j \in 1 .. i - 1 : buffer[j].type # "w_ref"
          /\ InHand => command.type # "w_ref"
          /\ 1 \in param_change =>
               /\ servo_level = SERVO_LEVEL_STOP
               /\ \A j \in 1 .. i - 1 : buffer[j].type # "servo"
               /\ InHand => command.type # "servo"
      BY <3>1, <3>2 DEF Early
    <3> QED
      BY <1>1, <1>3, <2>1, <3>3
  <2> QED
    BY <2>2, <2>3
<1>5. pc' = "analyse" /\ First(command') => StopOK'
  BY <1>1, <1>3 DEF Early
<1> HIDE DEF L, StopOK, InHand
<1> QED
  BY <1>1, <1>4, <1>5 DEF Early

\* A pair that is complete is taken over, or the servo is off and stays off, before the
\* next one comes: the buffer has not been empty since; the next one may not come yet; or
\* no servo command will be analysed before the next tick.
Ready ==
  \/ Undrained
  \/ servo_level # SERVO_LEVEL_STOP /\ (apart <= CloseTicks \/ gap <= 1)
  \/ /\ servo_level = SERVO_LEVEL_STOP /\ slack <= 1 /\ cnt_updated < Period
     /\ (\E c \in Commands : InTransit(c) /\ c.type = "servo") => gap + slack <= 1

After ==
  /\ half = 1 => \A c \in Commands : InTransit(c) => ~Second(c)
  /\ 1 \in param_change => 0 \in param_change
  /\ half = 0 /\ 1 \in param_change => Ready

\* What holds whatever was lost, and what holds as long as nothing was.
BaseInv == SoundInv /\ PacketInv /\ QuietInv /\ HandInv /\ OffInv /\ AgeInv

LEMMA AfterTick ==
  ASSUME TypeOK, slips = 0, SoundInv, Tick, After
  PROVE  After'
<1>1. /\ UNCHANGED <<half, servo_level>> /\ slack > 0 /\ slack' = slack - 1
      /\ gap' = gap \/ gap' = gap + 1
  BY DEF Tick
<1>2. /\ param_change' = param_change \/ param_change' = {}
      /\ servo_level # SERVO_LEVEL_STOP /\ param_change = {0, 1} => param_change' = {}
      /\ servo_level = SERVO_LEVEL_STOP => cnt_updated' = cnt_updated
  <2>1. servo_level \in {0, 2, 3}
    BY DEF SoundInv
  <2> QED
    BY <2>1 DEF Tick, TickStopped, TickEnabled, TakeOver
<1>3. half' = 1 => \A c \in Commands : InTransit(c)' => ~Second(c)
  BY <1>1, TransitShrinks DEF After
<1>4. 1 \in param_change' => 0 \in param_change'
  BY <1>2 DEF After
<1>5. half' = 0 /\ 1 \in param_change' => Ready'
  <2>1. SUFFICES ASSUME half = 0, 1 \in param_change' PROVE Ready'
    BY <1>1
  <2>2. 1 \in param_change /\ param_change' = param_change /\ Ready
    BY <1>2, <2>1 DEF After
  <2>3. CASE Undrained
    <3>1. Undrained'
      BY <2>3, UndrainedTick
    <3> QED
      BY <3>1 DEF Ready
  <2>4. CASE servo_level # SERVO_LEVEL_STOP
    <3>1. 0 \in param_change /\ 1 \in param_change /\ param_change \in SUBSET {0, 1}
      BY <2>1, <2>2, SkewNumbers DEF After
    <3>2. param_change = {0, 1}
      BY <3>1
    <3> QED
      BY <1>2, <2>1, <2>4, <3>2
  <2>5. CASE /\ servo_level = SERVO_LEVEL_STOP /\ slack <= 1 /\ cnt_updated < Period
             /\ (\E c \in Commands : InTransit(c) /\ c.type = "servo") => gap + slack <= 1
    <3>1. servo_level' = SERVO_LEVEL_STOP /\ slack' <= 1 /\ cnt_updated' < Period
      BY <1>1, <1>2, <2>5, SkewNumbers
    <3>2. gap + slack <= 1 => gap' + slack' <= 1
      BY <1>1, SkewNumbers
    <3>3. (\E c \in Commands : InTransit(c)' /\ c.type = "servo") =>
            \E c \in Commands : InTransit(c) /\ c.type = "servo"
      BY TransitShrinks
    <3> HIDE DEF InTransit
    <3> QED
      BY <2>5, <3>1, <3>2, <3>3 DEF Ready
  <2> QED
    BY <2>2, <2>3, <2>4, <2>5 DEF Ready
<1> QED
  BY <1>3, <1>4, <1>5 DEF After

LEMMA AfterShutDown ==
  ASSUME TypeOK, ShutDown, After
  PROVE  After'
<1>1. UNCHANGED <<half>> /\ param_change' = {}
  BY DEF ShutDown, line
<1>2. half' = 1 => \A c \in Commands : InTransit(c)' => ~Second(c)
  BY <1>1, TransitShrinks DEF After, Main
<1> QED
  BY <1>1, <1>2 DEF After

LEMMA AfterStore ==
  ASSUME TypeOK, slips = 0, BaseInv, ActInv, StoreChange, After
  PROVE  After'
<1>1. /\ UNCHANGED <<pairs, half, apart, slack, cnt_updated>> /\ pc = "store"
      /\ param_change' = loaded \cup {command.motor}
  BY DEF StoreChange, Goto, line
<1>2. command \in Commands /\ InTransit(command) /\ command.type = "w_ref"
  BY <1>1, CommandOK DEF InTransit, InHand, BaseInv, HandInv
<1>3. half' = 1 => \A c \in Commands : InTransit(c)' => ~Second(c)
  BY <1>1, TransitShrinks DEF After, Main
<1>4. 0 \in param_change'
  <2>1. CASE First(command)
    BY <1>1, <2>1 DEF First
  <2>2. CASE Second(command)
    BY <1>1, <2>2 DEF ActInv
  <2> QED
    BY <1>2, <2>1, <2>2, CommandOK
<1>5. half' = 0 => Ready'
  <2>1. SUFFICES ASSUME half = 0 PROVE Undrained'
    BY <1>1 DEF Ready
  <2>2. AgeOf(command)
    BY <1>2 DEF BaseInv, AgeInv
  <2>3. command.value <= pairs
    BY <2>1, <2>2, SkewNumbers DEF AgeOf
  <2> QED
    BY <1>1, <2>2, <2>3 DEF AgeOf, Undrained, CloseTicks
<1> QED
  BY <1>3, <1>4, <1>5 DEF After

LEMMA AfterMain ==
  ASSUME TypeOK, slips = 0, BaseInv, Main, ~ShutDown, ~StoreChange, After
  PROVE  After'
<1>1. UNCHANGED <<half, param_change, gap, apart>>
  BY DEF Main, ReceiveNothing, Receive, AnalyseW_ref, LoadChange, AnalyseServo, AnalyseLimit,
         AnalyseIgnored, NoPacket, PacketDue, StartPacket, PacketSent, WatchDogQuiet, WatchDogBites,
         shared, line, history
<1>2. \A c \in Commands : InTransit(c)' => InTransit(c)
  BY TransitShrinks
<1>3. half' = 1 => \A c \in Commands : InTransit(c)' => ~Second(c)
  BY <1>1, <1>2 DEF After
<1>4. 1 \in param_change' => 0 \in param_change'
  BY <1>1 DEF After
<1>5. half' = 0 /\ 1 \in param_change' => Ready'
  <2>1. SUFFICES ASSUME half = 0, 1 \in param_change PROVE Ready'
    BY <1>1
  <2>2. Ready
    BY <2>1 DEF After
  <2>3. CASE ReceiveNothing
    <3>1. /\ pc = "receive" /\ pc' = "odometry" /\ buffer' = << >> /\ slack' = 1
          /\ UNCHANGED <<servo_level, cnt_updated>>
      BY <2>3 DEF ReceiveNothing, Goto, line, shared
    <3>2. \A c : ~InTransit(c)'
      BY <3>1 DEF InTransit, InHand
    <3>3. CASE servo_level = SERVO_LEVEL_STOP
      <4>1. ~(cnt_updated >= Period)
        BY <2>1, <3>1, <3>3 DEF BaseInv, OffInv
      <4>2. cnt_updated' < Period /\ slack' <= 1
        BY <3>1, <4>1, SkewNumbers
      <4> QED
        BY <3>1, <3>2, <3>3, <4>2 DEF Ready
    <3>4. CASE servo_level # SERVO_LEVEL_STOP
      <4>1. apart <= CloseTicks \/ gap <= 1
        BY <2>2, <3>4, SkewNumbers DEF Ready, Undrained
      <4> QED
        BY <1>1, <3>1, <3>4, <4>1 DEF Ready, CloseTicks
    <3> QED
      BY <3>3, <3>4
  <2>4. CASE StartPacket
    <3>1. pc = "packet" /\ UNCHANGED servo_level
      BY <2>4 DEF StartPacket, Goto
    <3>2. ~(cnt_updated < Period)
      BY <3>1, SkewNumbers DEF BaseInv, PacketInv
    <3>3. CASE Undrained
      <4>1. Undrained'
        BY <2>4, <3>3, UndrainedPacket DEF BaseInv
      <4> QED
        BY <4>1 DEF Ready
    <3>4. CASE servo_level # SERVO_LEVEL_STOP /\ (apart <= CloseTicks \/ gap <= 1)
      BY <1>1, <3>1, <3>4 DEF Ready, CloseTicks
    <3> QED
      BY <2>2, <3>2, <3>3, <3>4 DEF Ready
  <2>5. CASE AnalyseServo
    <3>1. /\ pc = "analyse" /\ command.type = "servo" /\ servo_level' # SERVO_LEVEL_STOP
          /\ UNCHANGED <<slack, cnt_updated>>
      <4>1. servo_level' # SERVO_LEVEL_STOP
        BY <2>5, ServoOn DEF BaseInv
      <4> QED
        BY <2>5, <4>1 DEF AnalyseServo, Goto
    <3>2. command \in Commands /\ InTransit(command)
      BY <3>1, CommandOK DEF InTransit, InHand
    <3>3. CASE Undrained
      BY <1>1, <3>1, <3>3 DEF Ready, Undrained, CloseTicks
    <3>4. CASE ~Undrained
      <4>1. apart <= CloseTicks \/ gap <= 1 \/ gap + slack <= 1
        BY <2>2, <3>1, <3>2, <3>4 DEF Ready
      <4>2. apart <= CloseTicks \/ gap <= 1
        BY <4>1, SkewNumbers
      <4> QED
        BY <1>1, <3>1, <4>2 DEF Ready, CloseTicks
    <3> QED
      BY <3>3, <3>4
  <2>6. CASE ~(ReceiveNothing \/ StartPacket \/ AnalyseServo)
    <3>1. UNCHANGED <<servo_level, slack, cnt_updated>>
      BY <2>6 DEF Main, Receive, AnalyseW_ref, LoadChange, AnalyseLimit, AnalyseIgnored, NoPacket,
                  PacketDue, PacketSent, WatchDogQuiet, WatchDogBites, shared
    <3>2. Undrained' = Undrained
      BY <1>1, <3>1 DEF Undrained, CloseTicks
    <3>3. CloseTicks' = CloseTicks
      BY DEF CloseTicks
    <3> HIDE DEF InTransit, Undrained, CloseTicks
    <3> QED
      BY <1>1, <1>2, <2>2, <3>1, <3>2, <3>3 DEF Ready
  <2> QED
    BY <2>3, <2>4, <2>5, <2>6
<1> QED
  BY <1>3, <1>4, <1>5 DEF After

\* When a pair comes late enough, the ones before have been stored.
LEMMA Drained ==
  ASSUME TypeOK, slips = 0, AgeInv, half = 0, ~(apart <= CloseTicks), NEW c \in Commands, InTransit(c)
  PROVE  c.type # "w_ref"
<1> SUFFICES ASSUME c.type = "w_ref" PROVE FALSE
  OBVIOUS
<1>1. AgeOf(c)
  BY DEF AgeInv
<1>2. c.value <= pairs
  BY <1>1, SkewNumbers DEF AgeOf
<1>3. Undrained
  BY <1>1, <1>2 DEF AgeOf
<1> QED
  BY <1>3, SkewNumbers DEF Undrained, CloseTicks

LEMMA AfterFirst ==
  ASSUME TypeOK, slips = 0, AgeInv, SentFirst, After
  PROVE  After'
<1> DEFINE d == w_refCommand(0, pairs + 1)
<1>1. Put(d) /\ half = 0 /\ half' = 1 /\ param_change' = param_change /\ ~(apart <= CloseTicks)
  BY DEF SentFirst, Put, shared
<1>2. ASSUME NEW c \in Commands, InTransit(c)' PROVE ~Second(c)
  <2>1. InTransit(c) \/ c = d
    BY <1>1, <1>2, TransitGrows
  <2>2. CASE InTransit(c)
    <3>1. c.type # "w_ref"
      BY <1>1, <2>2, Drained
    <3> QED
      BY <3>1 DEF Second
  <2>3. CASE c = d
    BY <2>3 DEF Second, w_refCommand
  <2> QED
    BY <2>1, <2>2, <2>3
<1> QED
  BY <1>1, <1>2 DEF After

LEMMA AfterSecond ==
  ASSUME TypeOK, PacketInv, SentSecond, After
  PROVE  After'
<1>1. /\ half' = 0 /\ param_change' = param_change /\ apart' = 0
      /\ slack' = slack /\ cnt_updated' = cnt_updated
  BY DEF SentSecond, Put, shared
<1>2. Undrained'
  BY <1>1, SkewNumbers DEF PacketInv, Undrained, CloseTicks
<1> QED
  BY <1>1, <1>2 DEF After, Ready

LEMMA AfterOther ==
  ASSUME TypeOK, NEW d \in Others, SentOther(d), After
  PROVE  After'
<1>1. /\ Put(d) /\ half = 0 /\ gap' = 0
      /\ UNCHANGED <<half, param_change, apart, slack, cnt_updated, servo_level>>
  BY DEF SentOther, Put, shared
<1>2. Ready => Ready'
  <2>1. Undrained' = Undrained /\ CloseTicks' = CloseTicks
    BY <1>1 DEF Undrained, CloseTicks
  <2>2. gap' <= 1 /\ (slack <= 1 => gap' + slack' <= 1)
    BY <1>1, SkewNumbers
  <2> HIDE DEF Undrained, CloseTicks, InTransit
  <2> QED
    BY <1>1, <2>1, <2>2 DEF Ready
<1> QED
  BY <1>1, <1>2 DEF After
-----------------------------------------------------------------------------
\* The queue of the set points, from those in use to those sent last.
Pairs(a, b) == Queue(a, b) /\ EndOf(a[Len(buffer)], b[Len(buffer)])

LEMMA PairsRest ==
  ASSUME TypeOK, TypeOK', (Tick \/ Main) /\ ~Receive, NEW a, NEW b, Pairs(a, b)
  PROVE  Pairs(a, b)'
<1>0. PICK x, y : x = a[Len(buffer)] /\ y = b[Len(buffer)]
  OBVIOUS
<1>1. buffer' = buffer /\ UNCHANGED <<pairs, half, held>>
  BY DEF Tick, Main, ReceiveNothing, AnalyseW_ref, LoadChange, StoreChange, AnalyseServo,
         AnalyseLimit, AnalyseIgnored, NoPacket, PacketDue, StartPacket, PacketSent, WatchDogQuiet,
         WatchDogBites, ShutDown, line
<1>2. Queue(a, b)'
  BY QueueRest DEF Pairs
<1>3. x \in Nat /\ y \in Nat /\ EndOf(x, y)
  <2>1. Len(buffer) \in 0 .. Len(buffer)
    BY DEF TypeOK, LineOK
  <2> QED
    BY <1>0, <2>1 DEF Pairs, Queue
<1>4. EndOf(x, y)'
  <2>1. slips \in Nat /\ (slips' = slips \/ slips' = slips + 1) /\ pairs \in Nat /\ half \in {0, 1}
    BY SlipsGrow, SkewNumbers DEF Next
  <2>2. (pairs + half) - x <= slips /\ pairs - y <= slips /\ (slips = 0 => y = pairs)
    BY <1>3 DEF EndOf, Sent
  <2>3. (pairs + half) - x <= slips' /\ pairs - y <= slips' /\ (slips' = 0 => y = pairs)
    BY <1>3, <2>1, <2>2
  <2>4. Sent(x, y)'
    BY <1>1, <1>3, <2>3 DEF EndOf, Sent
  <2>5. Held(x, y)'
    BY <1>1, <1>3 DEF EndOf, Held
  <2> QED
    BY <2>4, <2>5 DEF EndOf
<1> QED
  BY <1>0, <1>1, <1>2, <1>4 DEF Pairs

LEMMA PairsReceive ==
  ASSUME TypeOK, TypeOK', Receive, NEW a, NEW b, Pairs(a, b)
  PROVE  \E a2, b2 : Pairs(a2, b2)'
<1> DEFINE L == Len(buffer)
<1>1. PICK a2, b2 : a2 = Shift(a, Len(buffer)) /\ b2 = Shift(b, Len(buffer))
  OBVIOUS
<1>2. Queue(a2, b2)'
  BY <1>1, QueueReceive DEF Pairs
<1>3. /\ buffer \in Seq(Commands) /\ buffer # << >> /\ buffer' = Tail(buffer)
      /\ UNCHANGED <<pairs, half, slips, held>>
  BY DEF TypeOK, LineOK, Receive, history
<1>4. PICK x, y : x = a[L] /\ y = b[L]
  OBVIOUS
<1>5. a2[Len(buffer')] = x /\ b2[Len(buffer')] = y
  <2>1. L \in Nat /\ L > 0 /\ Len(buffer') = L - 1 /\ (L - 1) + 1 = L /\ L - 1 \in 0 .. L - 1
    BY <1>3
  <2>2. a2[L - 1] = a[(L - 1) + 1] /\ b2[L - 1] = b[(L - 1) + 1]
    BY <1>1, <2>1 DEF Shift
  <2> QED
    BY <1>4, <2>1, <2>2
<1>6. EndOf(x, y)'
  <2>1. EndOf(x, y)
    BY <1>4 DEF Pairs
  <2> QED
    BY <1>3, <2>1 DEF EndOf, Sent, Held
<1> QED
  BY <1>2, <1>5, <1>6 DEF Pairs

\* A command that arrives is put at the end of the queue.
LEMMA PairsAppend ==
  ASSUME TypeOK, TypeOK', NEW a, NEW b, Pairs(a, b), slips <= slips', UNCHANGED <<shared, main>>,
         NEW c, buffer' = Append(buffer, c),
         NEW x \in Nat, NEW y \in Nat,
         Follows(c, a[Len(buffer)], b[Len(buffer)], x, y, slips'), EndOf(x, y)'
  PROVE  \E a2, b2 : Pairs(a2, b2)'
<1> DEFINE L == Len(buffer)
<1>1. PICK a2, b2 : a2 = Extend(a, Len(buffer), x) /\ b2 = Extend(b, Len(buffer), y)
  OBVIOUS
<1>2. UNCHANGED <<w_ref, pc, command>>
  BY DEF shared, main
<1>3. Queue(a2, b2)'
  <2>1. Queue(a, b)
    BY DEF Pairs
  <2> QED
    BY <1>1, <1>2, <2>1, QueueArrive
<1>4. a2[Len(buffer')] = x /\ b2[Len(buffer')] = y
  <2>1. buffer \in Seq(Commands) /\ L \in Nat
    BY DEF TypeOK, LineOK
  <2>2. Len(buffer') = L + 1 /\ L + 1 \in 0 .. L + 1
    BY <2>1
  <2> QED
    BY <1>1, <2>2 DEF Extend
<1> QED
  BY <1>3, <1>4 DEF Pairs

\* What was sent last, or is held.
LEMMA EndNumbers ==
  ASSUME TypeOK, NEW a, NEW b, Pairs(a, b),
         NEW x, x = a[Len(buffer)], NEW y, y = b[Len(buffer)]
  PROVE  x \in Nat /\ y \in Nat /\ EndOf(x, y)
<1>1. Len(buffer) \in 0 .. Len(buffer)
  BY DEF TypeOK, LineOK
<1> QED
  BY <1>1 DEF Pairs, Queue

\* A command arrives that slips.
LEMMA EndArrive ==
  ASSUME TypeOK, FromPC, slips' # 0, NEW x \in Nat, NEW y \in Nat, EndOf(x, y)
  PROVE  \/ buffer' = buffer /\ EndOf(x, y)'
         \/ \E c \in Commands, x1, y1 \in Nat :
              buffer' = Append(buffer, c) /\ Follows(c, x, y, x1, y1, slips') /\ EndOf(x1, y1)'
<1> DEFINE n == pairs + half
           N == pairs' + half'
           M == pairs'
           S == slips'
<1>0. PICK c \in Commands, d \in Commands, start \in BOOLEAN, end \in BOOLEAN :
      /\ Arrive(c, d, start, end)
      /\ d.type = "w_ref" => d.value = (pairs + half)'
      /\ ~Unspoilt(c, d, start, end) => slips' = slips + 1
      /\ \/ /\ half = 0 /\ half' = 1 /\ UNCHANGED <<pairs, apart>> /\ pairs < MaxPairs
            /\ c = w_refCommand(0, pairs + 1)
            /\ apart <= CloseTicks => slips' = slips + 1
         \/ /\ half = 1 /\ half' = 0 /\ pairs' = pairs + 1 /\ apart' = 0 /\ pairs < MaxPairs
            /\ c = w_refCommand(1, pairs + 1)
         \/ half = 0 /\ UNCHANGED <<half, pairs, apart>> /\ c \in Others
  BY Arrival
<1>1. /\ pairs \in Nat /\ n \in Nat /\ N \in Nat /\ M \in Nat /\ slips \in Nat /\ S \in Nat
      /\ (S = slips \/ S = slips + 1)
      /\ n <= N /\ N <= n + 1 /\ pairs <= M /\ M <= pairs + 1 /\ M <= N /\ N <= M + 1
  <2>1. slips \in Nat /\ (S = slips \/ S = slips + 1) /\ pairs \in Nat /\ half \in {0, 1}
    BY SlipsGrow, SkewNumbers DEF Next
  <2>2. S \in Nat
    BY <2>1
  <2>3. CASE half = 0 /\ half' = 1 /\ pairs' = pairs
    BY <2>1, <2>2, <2>3
  <2>4. CASE half = 1 /\ half' = 0 /\ pairs' = pairs + 1
    BY <2>1, <2>2, <2>4
  <2>5. CASE half' = half /\ pairs' = pairs
    BY <2>1, <2>2, <2>5
  <2> QED
    BY <1>0, <2>3, <2>4, <2>5
<1>2. d.type = "w_ref" => d.value = N
  BY <1>0
<1>3. x <= n /\ y <= n /\ n - x <= slips /\ pairs - y <= slips
  BY DEF EndOf, Sent
<1>4. \A h \in Commands : held = <<h>> =>
        /\ First(h)  => x <= h.value /\ h.value <= n
        /\ Second(h) => y <= h.value /\ h.value <= n
  BY DEF EndOf, Held
<1>5. LineOK
  BY DEF TypeOK
<1>6. /\ buffer' = buffer \/ \E e \in Commands : /\ held = <<e>> \/ (held = << >> /\ e = d)
                                                 /\ buffer' = Append(buffer, e)
      /\ held' = << >> \/ \E e \in Commands : /\ held = <<e>> \/ (held = << >> /\ e = d)
                                              /\ held' = <<e>>
      /\ held' # << >> => buffer' = buffer
      /\ Unspoilt(c, d, start, end) => held' = << >> /\ buffer' = Append(buffer, c)
  BY <1>0, <1>5, Arrived
<1>7. \A e \in Commands : held = <<e>> \/ (held = << >> /\ e = d) =>
        /\ First(e)  => x <= e.value /\ e.value <= N
        /\ Second(e) => y <= e.value /\ e.value <= N
  <2>1. TAKE e \in Commands
  <2>2. HAVE held = <<e>> \/ (held = << >> /\ e = d)
  <2>3. CASE held = <<e>>
    <3>1. e.type = "w_ref" => e.value \in Nat
      BY CommandValues, BoundAssumption
    <3>2. /\ First(e)  => x <= e.value /\ e.value <= n
          /\ Second(e) => y <= e.value /\ e.value <= n
      BY <1>4, <2>3
    <3>3. (First(e) \/ Second(e)) => e.value \in Nat
      BY <3>1 DEF First, Second
    <3> HIDE DEF n, N
    <3> QED
      BY <1>1, <3>2, <3>3
  <2>4. CASE e = d
    <3>1. First(e) \/ Second(e) => e.value = N
      BY <1>2, <2>4 DEF First, Second
    <3> HIDE DEF n, N
    <3> QED
      BY <1>1, <1>3, <3>1
  <2> QED
    BY <2>2, <2>3, <2>4
<1> HIDE DEF n, N, M, S
<1>8. CASE Unspoilt(c, d, start, end)
  <2>1. held' = << >> /\ buffer' = Append(buffer, c)
    BY <1>6, <1>8
  <2>2. PICK x1, y1 : x1 = (IF First(c) THEN c.value ELSE x) /\ y1 = (IF Second(c) THEN c.value ELSE y)
    OBVIOUS
  <2>3. /\ First(c) => c.value = N /\ M = pairs
        /\ Second(c) => c.value = N /\ n = N
        /\ ~First(c) /\ ~Second(c) => n = N /\ M = pairs
        /\ ~(First(c) /\ Second(c))
    <3>1. pairs \in Nat
      BY SkewNumbers
    <3>2. CASE half = 0 /\ half' = 1 /\ pairs' = pairs /\ c = w_refCommand(0, pairs + 1)
      <4>1. c.type = "w_ref" /\ c.motor = 0 /\ c.value = pairs + 1
        BY <3>2 DEF w_refCommand
      <4> QED
        BY <3>1, <3>2, <4>1 DEF First, Second, N, M
    <3>3. CASE half = 1 /\ half' = 0 /\ pairs' = pairs + 1 /\ c = w_refCommand(1, pairs + 1)
      <4>1. c.type = "w_ref" /\ c.motor = 1 /\ c.value = pairs + 1
        BY <3>3 DEF w_refCommand
      <4> QED
        BY <3>1, <3>3, <4>1 DEF First, Second, N, n
    <3>4. CASE UNCHANGED <<half, pairs>> /\ c \in Others
      <4>1. c.type # "w_ref"
        BY <3>4, OthersCommands
      <4> QED
        BY <3>4, <4>1 DEF First, Second, N, n, M
    <3> QED
      BY <1>0, <3>2, <3>3, <3>4
  <2>4. /\ x1 \in Nat /\ y1 \in Nat /\ x1 <= N /\ y1 <= N /\ N - x1 <= S /\ M - y1 <= S
        /\ x1 - y1 <= S + 1 /\ y1 - x1 <= S + 1
    <3>1. CASE First(c)
      <4>1. x1 = N /\ y1 = y /\ M = pairs
        BY <2>2, <2>3, <3>1
      <4> QED
        BY <1>1, <1>3, <4>1
    <3>2. CASE Second(c)
      <4>1. x1 = x /\ y1 = N /\ n = N
        BY <2>2, <2>3, <3>2
      <4> QED
        BY <1>1, <1>3, <4>1
    <3>3. CASE ~First(c) /\ ~Second(c)
      <4>1. x1 = x /\ y1 = y /\ n = N /\ M = pairs
        BY <2>2, <2>3, <3>3
      <4> QED
        BY <1>1, <1>3, <4>1
    <3> QED
      BY <3>1, <3>2, <3>3
  <2>5. EndOf(x1, y1)'
    <3>1. Sent(x1, y1)'
      BY <1>1, <2>4, Zenon DEF Sent, N, M, S
    <3>2. Held(x1, y1)'
      BY <2>1 DEF Held
    <3> QED
      BY <3>1, <3>2 DEF EndOf
  <2>6. Follows(c, x, y, x1, y1, slips')
    BY <2>2, <2>4 DEF Follows, S
  <2> QED
    BY <2>1, <2>4, <2>5, <2>6
<1>9. CASE ~Unspoilt(c, d, start, end)
  <2>1. S = slips + 1
    BY <1>0, <1>9 DEF S
  <2>2. x <= N /\ y <= N /\ N - x <= S /\ M - y <= S
    BY <1>1, <1>3, <2>1
  <2>3. CASE buffer' = buffer
    <3>1. \A h \in Commands : held' = <<h>> =>
            /\ First(h)  => x <= h.value /\ h.value <= N
            /\ Second(h) => y <= h.value /\ h.value <= N
      <4>1. TAKE h \in Commands
      <4>2. HAVE held' = <<h>>
      <4>3. held' # << >>
        BY <4>2
      <4>4. PICK e \in Commands : (held = <<e>> \/ (held = << >> /\ e = d)) /\ held' = <<e>>
        BY <1>6, <4>3
      <4>5. h = e
        BY <4>2, <4>4
      <4> QED
        BY <1>7, <4>4, <4>5
    <3>2. EndOf(x, y)'
      <4>1. Sent(x, y)'
        BY <1>1, <2>2, Zenon DEF Sent, N, M, S
      <4>2. Held(x, y)'
        BY <3>1 DEF Held, N
      <4> QED
        BY <4>1, <4>2 DEF EndOf
    <3> QED
      BY <2>3, <3>2
  <2>4. CASE buffer' # buffer
    <3>1. PICK e \in Commands : /\ held = <<e>> \/ (held = << >> /\ e = d)
                                /\ buffer' = Append(buffer, e)
      BY <1>6, <2>4
    <3>2. PICK x1, y1 : x1 = (IF First(e) THEN e.value ELSE x) /\ y1 = (IF Second(e) THEN e.value ELSE y)
      OBVIOUS
    <3>3. /\ First(e)  => x <= e.value /\ e.value <= N
          /\ Second(e) => y <= e.value /\ e.value <= N
      BY <1>7, <3>1
    <3>4. /\ x1 \in Nat /\ y1 \in Nat /\ x1 <= N /\ y1 <= N /\ N - x1 <= S /\ M - y1 <= S
          /\ x1 - y1 <= S + 1 /\ y1 - x1 <= S + 1
      <4>1. (First(e) \/ Second(e) => e.value \in Nat) /\ ~(First(e) /\ Second(e))
        <5>1. e.type = "w_ref" => e.value \in Nat
          BY CommandValues, BoundAssumption
        <5> QED
          BY <5>1 DEF First, Second
      <4>2. CASE First(e)
        <5>1. x1 = e.value /\ y1 = y /\ x <= x1 /\ x1 <= N /\ x1 \in Nat
          BY <3>2, <3>3, <4>1, <4>2
        <5> QED
          BY <1>1, <2>2, <5>1
      <4>3. CASE Second(e)
        <5>1. x1 = x /\ y1 = e.value /\ y <= y1 /\ y1 <= N /\ y1 \in Nat
          BY <3>2, <3>3, <4>1, <4>3
        <5> QED
          BY <1>1, <2>2, <5>1
      <4>4. CASE ~First(e) /\ ~Second(e)
        <5>1. x1 = x /\ y1 = y
          BY <3>2, <4>4
        <5> QED
          BY <1>1, <2>2, <5>1
      <4> QED
        BY <4>2, <4>3, <4>4
    <3>5. held' = << >>
      BY <1>6, <2>4
    <3>6. EndOf(x1, y1)'
      <4>1. Sent(x1, y1)'
        BY <1>1, <3>4, Zenon DEF Sent, N, M, S
      <4>2. Held(x1, y1)'
        BY <3>5 DEF Held
      <4> QED
        BY <4>1, <4>2 DEF EndOf
    <3>7. Follows(e, x, y, x1, y1, slips')
      BY <3>2, <3>4 DEF Follows, S
    <3> QED
      BY <3>1, <3>4, <3>6, <3>7
  <2> QED
    BY <2>3, <2>4
<1> QED
  BY <1>8, <1>9

LEMMA PairsSlip ==
  ASSUME TypeOK, TypeOK', FromPC, slips' # 0, NEW a, NEW b, Pairs(a, b)
  PROVE  \E a2, b2 : Pairs(a2, b2)'
<1>0. PICK x, y : x = a[Len(buffer)] /\ y = b[Len(buffer)]
  OBVIOUS
<1>1. x \in Nat /\ y \in Nat /\ EndOf(x, y)
  BY <1>0, EndNumbers
<1>2. slips <= slips' /\ UNCHANGED <<shared, main>>
  <2>1. slips \in Nat /\ (slips' = slips \/ slips' = slips + 1)
    BY SlipsGrow DEF Next
  <2>2. slips <= slips'
    BY <2>1
  <2> QED
    BY <2>2, ArriveKeeps
<1>3. CASE buffer' = buffer /\ EndOf(x, y)'
  <2>1. UNCHANGED <<w_ref, pc, command>>
    BY <1>2 DEF shared, main
  <2>2. w_ref'[2] = w_ref[2] /\ w_ref'[3] = w_ref[3] /\ pc' = pc /\ command' = command
    BY <2>1
  <2>3. Queue(a, b)'
    BY <1>2, <1>3, <2>2, QueueKept DEF Pairs
  <2>4. Pairs(a, b)'
    BY <1>0, <1>3, <2>3 DEF Pairs
  <2> QED
    BY <2>4
<1>4. CASE \E c \in Commands, x1, y1 \in Nat :
             buffer' = Append(buffer, c) /\ Follows(c, x, y, x1, y1, slips') /\ EndOf(x1, y1)'
  <2> PICK c \in Commands, x1 \in Nat, y1 \in Nat :
        buffer' = Append(buffer, c) /\ Follows(c, x, y, x1, y1, slips') /\ EndOf(x1, y1)'
    BY <1>4
  <2>1. Follows(c, a[Len(buffer)], b[Len(buffer)], x1, y1, slips')
    BY <1>0
  <2> QED
    BY <1>2, <2>1, PairsAppend
<1> QED
  BY <1>1, <1>3, <1>4, EndArrive

\* As long as nothing slips, the motors are sent what the PC sent last.
LEMMA EndExact ==
  ASSUME TypeOK, slips = 0, NEW a, NEW b, Pairs(a, b)
  PROVE  a[Len(buffer)] = pairs + half /\ b[Len(buffer)] = pairs
<1>0. PICK x, y : x = a[Len(buffer)] /\ y = b[Len(buffer)]
  OBVIOUS
<1>1. x \in Nat /\ y \in Nat /\ EndOf(x, y)
  BY <1>0, EndNumbers
<1>2. x <= pairs + half /\ (pairs + half) - x <= 0 /\ y = pairs
  BY <1>1 DEF EndOf, Sent
<1>3. x = pairs + half
  BY <1>1, <1>2, SkewNumbers
<1> QED
  BY <1>0, <1>2, <1>3

LEMMA Exactly ==
  ASSUME NEW p \in Nat, NEW h \in Nat, NEW x, NEW y, x = p + h, y = p
  PROVE  x <= p + h /\ y <= p + h /\ (p + h) - x <= 0 /\ p - y <= 0
OBVIOUS

LEMMA EndThen ==
  ASSUME TypeOK', NEW c, Put(c), slips' = 0, NEW x \in Nat, NEW y \in Nat,
         x = pairs' + half', y = pairs'
  PROVE  EndOf(x, y)'
<1>1. PICK p \in Nat, h \in Nat : p = pairs' /\ h = half'
  <2>1. pairs' \in Nat /\ half' \in Nat
    BY BoundAssumption DEF TypeOK, LineOK
  <2> QED
    BY <2>1
<1>2. held' = << >>
  BY DEF Put
<1>3. Held(x, y)'
  BY <1>2 DEF Held
<1>4. x <= p + h /\ y <= p + h /\ (p + h) - x <= 0 /\ p - y <= 0 /\ y = p
  <2>1. x = p + h
    BY <1>1, Zenon
  <2>2. y = p
    BY <1>1, Zenon
  <2> QED
    BY <2>1, <2>2, Exactly, Zenon
<1>5. Sent(x, y)'
  BY <1>1, <1>4 DEF Sent
<1> QED
  BY <1>3, <1>5 DEF EndOf

\* The first set point of a pair finds the way clear.
LEMMA FirstClear ==
  ASSUME TypeOK, slips = 0, AgeInv, SentFirst, After
  PROVE  WayClear
<1>1. half = 0 /\ ~(apart <= CloseTicks) /\ LineFree
  BY DEF SentFirst, Put
<1>2. \A c \in Commands : InTransit(c) => c.type # "w_ref"
  BY <1>1, Drained
<1>3. ASSUME 1 \in param_change
      PROVE  /\ servo_level = SERVO_LEVEL_STOP
             /\ \A c \in Commands : InTransit(c) => c.type # "servo"
  <2>1. Ready
    BY <1>1, <1>3 DEF After
  <2>2. gap > 1
    BY <1>1, SkewNumbers DEF LineFree
  <2>3. ~Undrained
    BY <1>1, SkewNumbers DEF Undrained, CloseTicks
  <2>4. ~(gap <= 1) /\ ~(gap + slack <= 1)
    BY <2>2, SkewNumbers
  <2> QED
    BY <1>1, <2>1, <2>3, <2>4 DEF Ready
<1> QED
  BY <1>2, <1>3 DEF WayClear

LEMMA PairsFirst ==
  ASSUME TypeOK, TypeOK', slips = 0, slips' = 0, SentFirst, NEW a, NEW b, Pairs(a, b)
  PROVE  \E a2, b2 : Pairs(a2, b2)'
<1> DEFINE d == w_refCommand(0, pairs + 1)
<1>1. Put(d) /\ half = 0 /\ half' = 1 /\ pairs' = pairs
  BY DEF SentFirst
<1>2. PICK x, y : x = pairs + 1 /\ y = pairs /\ x \in Nat /\ y \in Nat
  <2>1. pairs \in Nat /\ pairs + 1 \in Nat
    BY SkewNumbers
  <2> QED
    BY <2>1
<1>3. a[Len(buffer)] = pairs + half /\ b[Len(buffer)] = pairs
  BY EndExact
<1>4. EndOf(x, y)'
  <2>1. x = pairs' + half' /\ y = pairs'
    BY <1>1, <1>2
  <2> QED
    BY <1>1, <1>2, <2>1, EndThen
<1>5. Follows(d, a[Len(buffer)], b[Len(buffer)], x, y, slips')
  <2>1. a[Len(buffer)] = y /\ b[Len(buffer)] = y /\ x = y + 1 /\ x - y <= 1 /\ y - x <= 1
    BY <1>1, <1>2, <1>3
  <2>2. d.type = "w_ref" /\ d.motor = 0 /\ d.value = x
    BY <1>2 DEF w_refCommand
  <2>3. First(d) /\ ~Second(d)
    BY <2>2 DEF First, Second
  <2> HIDE DEF d
  <2> QED
    BY <2>1, <2>2, <2>3 DEF Follows
<1>6. buffer' = Append(buffer, d) /\ UNCHANGED <<shared, main>> /\ slips <= slips'
  BY <1>1 DEF Put
<1> HIDE DEF d
<1> QED
  BY <1>2, <1>4, <1>5, <1>6, PairsAppend

LEMMA PairsSecond ==
  ASSUME TypeOK, TypeOK', slips = 0, slips' = 0, SentSecond, NEW a, NEW b, Pairs(a, b)
  PROVE  \E a2, b2 : Pairs(a2, b2)'
<1> DEFINE d == w_refCommand(1, pairs + 1)
<1>1. Put(d) /\ half = 1 /\ half' = 0 /\ pairs' = pairs + 1
  BY DEF SentSecond
<1>2. PICK x : x = pairs + 1 /\ x \in Nat
  <2>1. pairs + 1 \in Nat
    BY SkewNumbers
  <2> QED
    BY <2>1
<1>3. a[Len(buffer)] = pairs + half /\ b[Len(buffer)] = pairs
  BY EndExact
<1>4. EndOf(x, x)'
  <2>1. x = pairs' + half' /\ x = pairs'
    BY <1>1, <1>2
  <2> QED
    BY <1>1, <1>2, <2>1, EndThen
<1>5. Follows(d, a[Len(buffer)], b[Len(buffer)], x, x, slips')
  <2>1. a[Len(buffer)] = x /\ x = b[Len(buffer)] + 1 /\ x - x <= 0 + 1
    BY <1>1, <1>2, <1>3
  <2>2. d.type = "w_ref" /\ d.motor = 1 /\ d.value = x
    BY <1>2 DEF w_refCommand
  <2>3. ~First(d) /\ Second(d)
    BY <2>2 DEF First, Second
  <2> HIDE DEF d
  <2>4. x = (IF First(d) THEN d.value ELSE a[Len(buffer)])
    BY <2>1, <2>3
  <2>5. x = (IF Second(d) THEN d.value ELSE b[Len(buffer)])
    BY <2>2, <2>3
  <2>6. slips' = 0
    OBVIOUS
  <2> QED
    BY <2>1, <2>2, <2>3, <2>4, <2>5, <2>6 DEF Follows
<1>6. buffer' = Append(buffer, d) /\ UNCHANGED <<shared, main>> /\ slips <= slips'
  BY <1>1 DEF Put
<1> HIDE DEF d
<1> QED
  BY <1>2, <1>4, <1>5, <1>6, PairsAppend

LEMMA PairsOther ==
  ASSUME TypeOK, TypeOK', slips = 0, slips' = 0, NEW d \in Others, SentOther(d),
         NEW a, NEW b, Pairs(a, b)
  PROVE  \E a2, b2 : Pairs(a2, b2)'
<1>1. Put(d) /\ half = 0 /\ UNCHANGED <<pairs, half>>
  BY DEF SentOther
<1>2. PICK x : x = pairs /\ x \in Nat
  <2>1. pairs \in Nat
    BY SkewNumbers
  <2> QED
    BY <2>1
<1>3. a[Len(buffer)] = x /\ b[Len(buffer)] = x
  <2>1. a[Len(buffer)] = pairs + half /\ b[Len(buffer)] = pairs
    BY EndExact
  <2> QED
    BY <1>1, <1>2, <2>1
<1>4. EndOf(x, x)'
  <2>1. x = pairs' + half' /\ x = pairs'
    BY <1>1, <1>2
  <2> QED
    BY <1>1, <1>2, <2>1, EndThen
<1>5. Follows(d, a[Len(buffer)], b[Len(buffer)], x, x, slips')
  <2>1. d.type # "w_ref" /\ ~First(d) /\ ~Second(d)
    BY OthersCommands DEF First, Second
  <2>2. x - x <= 1
    BY <1>2
  <2> QED
    BY <1>3, <2>1, <2>2 DEF Follows
<1>6. buffer' = Append(buffer, d) /\ UNCHANGED <<shared, main>> /\ slips <= slips'
  BY <1>1 DEF Put
<1> QED
  BY <1>2, <1>4, <1>5, <1>6, PairsAppend

-----------------------------------------------------------------------------
\* The wheels are in step as long as every command was taken as it was sent, and after
\* that their set points are at most one more apart than commands were not.
Near(x, y) == x - y <= slips + 1 /\ y - x <= slips + 1
InStep == (slips = 0 => w_ref[0] = w_ref[1]) /\ Near(w_ref[0], w_ref[1])

SkewInv ==
  /\ TypeOK /\ BaseInv
  /\ Near(w_ref[0], w_ref[1]) /\ Near(w_ref[2], w_ref[3])
  /\ \E a, b : Pairs(a, b)
  /\ slips = 0 => ActInv /\ Early /\ After /\ w_ref[0] = w_ref[1]

LEMMA SkewInit == Init => SkewInv
<1> SUFFICES ASSUME Init PROVE SkewInv
  OBVIOUS
<1>1. TypeOK
  BY TypeInit
<1>2. /\ w_ref[0] = 0 /\ w_ref[1] = 0 /\ w_ref[2] = 0 /\ w_ref[3] = 0 /\ slips = 0 /\ slack = 1
      /\ param_change = {} /\ loaded = {} /\ pc = "receive" /\ buffer = << >> /\ watch_dog = 0
      /\ cnt_updated = 0 /\ pairs = 0 /\ half = 0 /\ held = << >> /\ servo_level = 0
      /\ p_watch_dog_limit = DefaultLimit
  BY DEF Init
<1>3. \A c \in Commands : ~InTransit(c)
  BY <1>2 DEF InTransit, InHand
<1>4. PacketInv /\ QuietInv /\ HandInv
  BY <1>2 DEF PacketInv, QuietInv, HandInv
<1>5. OffInv /\ AgeInv /\ SoundInv
  BY <1>2, <1>3, TimeAssumption, LimitAssumption DEF OffInv, AgeInv, SoundInv
<1>6. ActInv
  BY <1>2 DEF ActInv
<1>7. PICK a, b : a = [i \in 0 .. 0 |-> 0] /\ b = [i \in 0 .. 0 |-> 0]
  OBVIOUS
<1>8. Len(buffer) = 0 /\ a[0] = 0 /\ b[0] = 0
  BY <1>2, <1>7
<1>9. Queue(a, b)
  BY <1>2, <1>7, <1>8 DEF Queue
<1>10. Early /\ After
  BY <1>2, <1>8 DEF Early, After
<1>11. EndOf(0, 0)
  BY <1>2 DEF EndOf, Sent, Held
<1>12. Pairs(a, b)
  BY <1>8, <1>9, <1>11 DEF Pairs
<1>13. Near(w_ref[0], w_ref[1]) /\ Near(w_ref[2], w_ref[3])
  BY <1>2 DEF Near
<1> QED
  BY <1>1, <1>2, <1>4, <1>5, <1>6, <1>10, <1>12, <1>13 DEF SkewInv, BaseInv

\* More may be lost.
LEMMA NearMore ==
  ASSUME TypeOK, [Next]_vars, NEW x \in Nat, NEW y \in Nat, Near(x, y)
  PROVE  Near(x, y)'
<1>1. slips \in Nat /\ (slips' = slips \/ slips' = slips + 1)
  BY SlipsGrow
<1>2. PICK k : k = slips'
  OBVIOUS
<1>3. x - y <= slips + 1 /\ y - x <= slips + 1
  BY DEF Near
<1>4. x - y <= k + 1 /\ y - x <= k + 1
  BY <1>1, <1>2, <1>3
<1> QED
  BY <1>2, <1>4 DEF Near

\* The set points received come from the queue, those in use from those received.
LEMMA NearKept ==
  ASSUME TypeOK, [Next]_vars, NEW a, NEW b, Queue(a, b),
         Near(w_ref[0], w_ref[1]), Near(w_ref[2], w_ref[3])
  PROVE  Near(w_ref[0], w_ref[1])' /\ Near(w_ref[2], w_ref[3])'
<1>0. w_ref \in [0 .. 3 -> 0 .. MaxPairs] /\ MaxPairs \in Nat
  BY BoundAssumption DEF TypeOK, SharedOK
<1>1. PICK x \in Nat, y \in Nat, z \in Nat, t \in Nat :
        x = w_ref[0] /\ y = w_ref[1] /\ z = w_ref[2] /\ t = w_ref[3]
  BY <1>0
<1>2. Near(x, y)' /\ Near(z, t)'
  BY <1>1, NearMore, Zenon
<1>3. CASE AnalyseW_ref
  <2>1. pc = "analyse" /\ command.type = "w_ref" /\ slips' = slips
    BY <1>3 DEF AnalyseW_ref, Goto, history
  <2>5. w_ref' = [w_ref EXCEPT ![command.motor + 2] = command.value]
    BY <1>3 DEF AnalyseW_ref
  <2>2. Follows(command, w_ref[2], w_ref[3], a[0], b[0], slips)
    BY <2>1 DEF Queue
  <2>3. w_ref'[2] = a[0] /\ w_ref'[3] = b[0] /\ w_ref'[0] = x /\ w_ref'[1] = y
    <3>1. CASE First(command)
      <4>1. w_ref' = [w_ref EXCEPT ![2] = command.value] /\ ~Second(command)
        BY <2>5, <3>1 DEF First, Second
      <4>2. a[0] = command.value /\ b[0] = t
        BY <1>1, <2>2, <3>1, <4>1 DEF Follows
      <4> QED
        BY <1>0, <1>1, <4>1, <4>2
    <3>2. CASE Second(command)
      <4>1. w_ref' = [w_ref EXCEPT ![3] = command.value] /\ ~First(command)
        BY <2>5, <3>2 DEF First, Second
      <4>2. a[0] = z /\ b[0] = command.value
        BY <1>1, <2>2, <3>2, <4>1 DEF Follows
      <4> QED
        BY <1>0, <1>1, <4>1, <4>2
    <3> QED
      BY <2>1, <3>1, <3>2, CommandOK
  <2>4. Near(a[0], b[0])
    BY <2>2 DEF Follows, Near
  <2> QED
    BY <1>2, <2>1, <2>3, <2>4 DEF Near
<1>4. CASE Tick
  <2>1. w_ref' = w_ref \/ w_ref' = [w_ref EXCEPT ![0] = w_ref[2], ![1] = w_ref[3]]
    BY <1>4 DEF Tick, TickStopped, TickEnabled, TakeOver
  <2>2. w_ref'[2] = z /\ w_ref'[3] = t /\
        ((w_ref'[0] = x /\ w_ref'[1] = y) \/ (w_ref'[0] = z /\ w_ref'[1] = t))
    BY <1>0, <1>1, <2>1
  <2> QED
    BY <1>2, <2>2 DEF Near
<1>5. CASE ~AnalyseW_ref /\ ~Tick
  <2>1. w_ref'[0] = x /\ w_ref'[1] = y /\ w_ref'[2] = z /\ w_ref'[3] = t
    BY <1>1, <1>5, SetPoints
  <2> QED
    BY <1>2, <2>1 DEF Near
<1> QED
  BY <1>3, <1>4, <1>5

LEMMA SkewKept ==
  ASSUME TypeOK, slips = 0, SoundInv, ActInv, w_ref[0] = w_ref[1], [Next]_vars
  PROVE  w_ref'[0] = w_ref'[1]
<1>0. w_ref \in [0 .. 3 -> 0 .. MaxPairs]
  BY DEF TypeOK, SharedOK
<1>1. CASE AnalyseW_ref
  <2>1. w_ref' = [w_ref EXCEPT ![command.motor + 2] = command.value]
    BY <1>1 DEF AnalyseW_ref
  <2>2. command.motor + 2 \in {2, 3}
    BY CommandOK
  <2> QED
    BY <1>0, <2>1, <2>2
<1>2. CASE ~AnalyseW_ref /\ ~Tick
  <2>1. w_ref[0]' = w_ref[0] /\ w_ref[1]' = w_ref[1]
    BY <1>2, SetPoints
  <2> QED
    BY <2>1
<1>3. CASE Tick
  <2>1. servo_level \in {0, 2, 3}
    BY DEF SoundInv
  <2>2. CASE w_ref' # w_ref
    <3>1. /\ param_change = {0, 1} /\ servo_level # SERVO_LEVEL_STOP
          /\ w_ref' = [w_ref EXCEPT ![0] = w_ref[2], ![1] = w_ref[3]]
      BY <1>3, <2>1, <2>2 DEF Tick, TickStopped, TickEnabled, TakeOver
    <3>2. w_ref'[0] = w_ref[2] /\ w_ref'[1] = w_ref[3]
      BY <1>0, <3>1
    <3>3. w_ref[2] = w_ref[3]
      BY <3>1 DEF ActInv, StopOK
    <3> QED
      BY <3>2, <3>3
  <2> QED
    BY <2>2
<1> QED
  BY <1>1, <1>2, <1>3

LEMMA EarlyStep ==
  ASSUME TypeOK, slips = 0, slips' = 0, BaseInv, Early, After, [Next]_vars
  PROVE  Early'
<1>1. HandInv /\ AgeInv
  BY DEF BaseInv
<1>2. CASE FromPC
  <2>1. CASE SentFirst
    <3>1. WayClear
      BY <1>1, <2>1, FirstClear
    <3>2. buffer' = Append(buffer, w_refCommand(0, pairs + 1)) /\ UNCHANGED <<shared, main>>
      BY <2>1 DEF SentFirst, Put
    <3> QED
      BY <3>1, <3>2, EarlyArrive
  <2>2. CASE SentSecond
    <3> DEFINE d == w_refCommand(1, pairs + 1)
    <3>1. ~First(d)
      BY DEF First, w_refCommand
    <3>2. buffer' = Append(buffer, d) /\ UNCHANGED <<shared, main>>
      BY <2>2 DEF SentSecond, Put
    <3> HIDE DEF d
    <3> QED
      BY <3>1, <3>2, EarlyArrive
  <2>3. CASE \E c \in Others : SentOther(c)
    <3>1. PICK d \in Others : SentOther(d)
      BY <2>3
    <3>2. ~First(d)
      BY <3>1, OthersCommands DEF First
    <3>3. buffer' = Append(buffer, d) /\ UNCHANGED <<shared, main>>
      BY <3>1 DEF SentOther, Put
    <3> QED
      BY <3>2, <3>3, EarlyArrive
  <2> QED
    BY <1>2, <2>1, <2>2, <2>3, SentWell
<1>3. CASE Receive
  BY <1>3, EarlyReceive
<1>4. CASE (Tick \/ Main) /\ ~Receive
  BY <1>1, <1>4, EarlyRest
<1>5. CASE UNCHANGED vars
  BY <1>5 DEF Early, First, InHand, StopOK, vars, shared, main, line, history
<1> QED
  BY <1>2, <1>3, <1>4, <1>5 DEF Next

LEMMA AfterStep ==
  ASSUME TypeOK, slips = 0, slips' = 0, BaseInv, ActInv, After, [Next]_vars
  PROVE  After'
<1>1. SoundInv /\ PacketInv /\ AgeInv
  BY DEF BaseInv
<1>2. CASE FromPC
  <2>1. CASE SentFirst
    BY <1>1, <2>1, AfterFirst
  <2>2. CASE SentSecond
    BY <1>1, <2>2, AfterSecond
  <2>3. CASE \E c \in Others : SentOther(c)
    BY <2>3, AfterOther
  <2> QED
    BY <1>2, <2>1, <2>2, <2>3, SentWell
<1>3. CASE Tick
  BY <1>1, <1>3, AfterTick
<1>4. CASE ShutDown
  BY <1>4, AfterShutDown
<1>5. CASE StoreChange
  BY <1>5, AfterStore
<1>6. CASE Main /\ ~ShutDown /\ ~StoreChange
  BY <1>6, AfterMain
<1>7. CASE UNCHANGED vars
  BY <1>7 DEF After, Ready, InTransit, InHand, Second, Undrained, CloseTicks, vars, shared, main,
        line, history
<1> QED
  BY <1>2, <1>3, <1>4, <1>5, <1>6, <1>7 DEF Next, Main

LEMMA PairsStep ==
  ASSUME TypeOK, TypeOK', [Next]_vars, NEW a, NEW b, Pairs(a, b)
  PROVE  \E a2, b2 : Pairs(a2, b2)'
<1>1. CASE FromPC /\ slips' # 0
  BY <1>1, PairsSlip
<1>2. CASE FromPC /\ slips' = 0
  <2>1. slips = 0
    <3>1. slips \in Nat /\ (slips' = slips \/ slips' = slips + 1)
      BY SlipsGrow
    <3> QED
      BY <1>2, <3>1
  <2>2. CASE SentFirst
    BY <1>2, <2>1, <2>2, PairsFirst
  <2>3. CASE SentSecond
    BY <1>2, <2>1, <2>3, PairsSecond
  <2>4. CASE \E c \in Others : SentOther(c)
    BY <1>2, <2>1, <2>4, PairsOther
  <2> QED
    BY <1>2, <2>2, <2>3, <2>4, SentWell
<1>3. CASE Receive
  BY <1>3, PairsReceive
<1>4. CASE (Tick \/ Main) /\ ~Receive
  BY <1>4, PairsRest
<1>5. CASE UNCHANGED vars
  <2>1. UNCHANGED <<buffer, slips, pc, command, w_ref, pairs, half, held>>
    BY <1>5 DEF vars, shared, main, line, history
  <2>2. Pairs(a, b)'
    BY <2>1 DEF Pairs, Queue, EndOf, Sent, Held
  <2> QED
    BY <2>2
<1> QED
  BY <1>1, <1>2, <1>3, <1>4, <1>5 DEF Next

LEMMA SkewStep == SkewInv /\ [Next]_vars => SkewInv'
<1> SUFFICES ASSUME SkewInv, [Next]_vars PROVE SkewInv'
  OBVIOUS
<1>1. TypeOK /\ BaseInv /\ TypeOK'
  BY TypeStep DEF SkewInv
<1>2. BaseInv'
  <2>1. SoundInv' /\ PacketInv' /\ QuietInv' /\ HandInv'
    BY <1>1, SoundStep, PacketStep, QuietStep, HandStep DEF BaseInv
  <2>2. OffInv' /\ AgeInv'
    BY <1>1, OffStep, AgeStep DEF BaseInv
  <2> QED
    BY <2>1, <2>2 DEF BaseInv
<1>3. PICK a, b : Pairs(a, b)
  BY DEF SkewInv
<1>4. \E a2, b2 : Pairs(a2, b2)'
  BY <1>1, <1>3, PairsStep
<1>5. Queue(a, b)
  BY <1>3 DEF Pairs
<1>6. Near(w_ref[0], w_ref[1])' /\ Near(w_ref[2], w_ref[3])'
  <2>1. Near(w_ref[0], w_ref[1]) /\ Near(w_ref[2], w_ref[3])
    BY DEF SkewInv
  <2> QED
    BY <1>1, <1>5, <2>1, NearKept
<1>7. ASSUME slips' = 0
      PROVE  ActInv' /\ Early' /\ After' /\ w_ref'[0] = w_ref'[1]
  <2>1. slips = 0
    <3>1. slips \in Nat /\ (slips' = slips \/ slips' = slips + 1)
      BY <1>1, SlipsGrow
    <3> QED
      BY <1>7, <3>1
  <2>2. ActInv /\ Early /\ After /\ w_ref[0] = w_ref[1]
    BY <2>1 DEF SkewInv
  <2>3. ActInv'
    BY <1>1, <1>5, <1>7, <2>1, <2>2, ActStep DEF BaseInv
  <2>4. Early' /\ After'
    BY <1>1, <1>7, <2>1, <2>2, EarlyStep, AfterStep
  <2>5. w_ref'[0] = w_ref'[1]
    BY <1>1, <2>1, <2>2, SkewKept DEF BaseInv
  <2> QED
    BY <2>3, <2>4, <2>5
<1> QED
  BY <1>1, <1>2, <1>4, <1>6, <1>7 DEF SkewInv

\* As long as every command is taken as it was sent, no two pairs come too close and the
\* watchdog forgets no half of one, the two wheels run on set points of the same call of
\* motor_speed(), whenever the interrupt comes in the midst of the analysis: a pair is
\* never taken over with the first half of the next one. Whatever noise makes of the
\* commands, taken with another value, for another motor, or put together from two, the
\* wheels are never apart by more calls than one and those that were not taken as sent.
THEOREM PairsStayTogether == Spec => []InStep
<1>1. SkewInv => InStep
  BY DEF SkewInv, InStep
<1> QED
  BY <1>1, SkewInit, SkewStep, PTL DEF Spec
=============================================================================
