------------------------ MODULE ReturnUsingAutoware ------------------------
(* The node that publishes /cmd_vel (return_using_Autoware.py): it waits for *)
(* an output of the CNN, a twist of Autoware and a distance, chooses who     *)
(* steers by the buttons of the joystick, and caps the speed.                *)
(*                                                                           *)
(* rospy runs the callbacks of each subscription in a thread of its own, so  *)
(* three threads may run the method callback() at once while others replace  *)
(* what it reads: every read or write of an attribute of self is a step.     *)
(* (An expression that names one attribute twice reads it once here.) rospy  *)
(* logs an exception that leaves a callback and goes on with the next        *)
(* message: a body that raises publishes nothing, and its flags stay reset.  *)
(*                                                                           *)
(* Of a turning rate the model keeps who gave it, pubtype: its value follows *)
(* from the message and from the speed. A twist is its speed.                *)
EXTENDS Integers, Sequences, FiniteSets

CONSTANTS
  Twists,       \* linear.x of Autoware's /twist_cmd
  Joys,         \* /joy/joy: [left, right: buttons 4 and 5, x: axis 0]
  MaxVels,      \* /max_speed
  Flame,        \* commands steered by Autoware after a far distance (100)
  MaxMessages,  \* bound: messages of each of the three topics
  MaxBodies,    \* bound: bodies that run at once
  MaxOthers     \* bound: messages of the other topics after the first /joy/joy

Order == <<"CNN", "twist", "distance">>
Topics == {Order[i] : i \in 1..3}

ASSUME FlameAssumption ==
  /\ Flame \in Nat \ {0} /\ MaxBodies \in Nat /\ MaxOthers \in Nat
  /\ MaxMessages \in [Topics -> Nat]
  /\ MaxVels \subseteq Int /\ Twists \subseteq Int
  /\ Joys \subseteq [left : BOOLEAN, right : BOOLEAN, x : Int]

VARIABLES
  self,     \* the attributes; joy is <<>> while there is no joy_msg0, and stored
            \* the topics of which there is a message
  thread,   \* per topic: where its thread is, the flag or the if it looks at, and
            \* its locals; history: the speed before the cap, and which of the
            \* attributes that it has read were replaced meanwhile
  cmd,      \* the last /cmd_vel: the speed and who steers
  count     \* history: messages received, bodies begun, whether two ran at once, and
            \* whether one began after a flag it had read was reset

vars == <<self, thread, cmd, count>>

Idle == [pc |-> "idle", k |-> 1, ac |-> 0, pubtype |-> "none", flame |-> 0,
         asked |-> 0, replaced |-> {}]

Init ==
  /\ self = [sub_flag |-> [t \in Topics |-> 0], stored |-> {}, twist |-> 0,
             joy |-> <<>>, max_vel |-> 5, Autoware_flag |-> FALSE, distance_flame |-> 0]
  /\ thread = [t \in Topics |-> Idle]
  /\ cmd = [x |-> 0, by |-> "none"]
  /\ count = [received |-> [t \in Topics |-> 0], others |-> 0, bodies |-> 0,
              overlapped |-> FALSE, stale |-> FALSE]

At(t, label) == thread[t].pc = label
InBody(t) == ~\E label \in {"idle", "store", "check"} : At(t, label)
Step(t, local) == thread' = [thread EXCEPT ![t] = local]
Go(t, label) == [thread[t] EXCEPT !.pc = label]
NextIf(t) == [thread[t] EXCEPT !.pc = "if", !.k = @ + 1]
(* The bodies that run note which of the attributes they test is replaced,   *)
(* and the other threads that a flag they have read is reset.                *)
Noted(name) ==
  [t \in Topics |-> IF InBody(t) /\ name \in {"twist", "joy", "max"}
                    THEN [thread[t] EXCEPT !.replaced = @ \cup {name}] ELSE thread[t]]

NotedFlag(k) ==
  [t \in Topics |-> IF At(t, "check") /\ k < thread[t].k
                    THEN [thread[t] EXCEPT !.replaced = @ \cup {"flag"}] ELSE thread[t]]

-----------------------------------------------------------------------------
(* The callbacks of the three topics set the flag first, store the message,  *)
(* and call callback().                                                      *)
Callback(t) ==
  /\ At(t, "idle") /\ count.received[t] < MaxMessages[t]
  /\ self' = [self EXCEPT !.sub_flag[t] = 1]
  /\ count' = [count EXCEPT !.received[t] = @ + 1]
  /\ Step(t, Go(t, "store")) /\ UNCHANGED cmd

Stored(t) == [self EXCEPT !.stored = @ \cup {t}]

Store(t) ==
  /\ At(t, "store")
  /\ \/ t = "CNN" /\ self' = Stored(t)
     \/ t = "twist" /\ \E m \in Twists : self' = [Stored(t) EXCEPT !.twist = m]
     \/ t = "distance" /\ \E flame \in {Flame, self.distance_flame} :
          self' = [Stored(t) EXCEPT !.distance_flame = flame]
  /\ thread' = [Noted(t) EXCEPT ![t] = Go(t, "check")]
  /\ UNCHANGED <<cmd, count>>

(* The callbacks of the other topics store the message.                      *)
Counted == /\ count.others < MaxOthers
           /\ count' = [count EXCEPT !.others = @ + 1]

CallbackJoy ==
  /\ \E m \in Joys : self' = [self EXCEPT !.joy = <<m>>]
  /\ IF self.joy = <<>> THEN UNCHANGED count ELSE Counted
  /\ thread' = Noted("joy") /\ UNCHANGED cmd

CallbackMax ==
  /\ \E m \in MaxVels : self' = [self EXCEPT !.max_vel = m]
  /\ Counted /\ thread' = Noted("max") /\ UNCHANGED cmd

CallbackPose ==
  /\ \E b \in BOOLEAN : self' = [self EXCEPT !.Autoware_flag = b]
  /\ Counted /\ UNCHANGED <<thread, cmd>>

-----------------------------------------------------------------------------
\* Mutant: the thread looks at the last flag only.
Check_last(t) ==
  /\ At(t, "check") /\ self.sub_flag["distance"] = 1
  /\ Step(t, [thread[t] EXCEPT !.pc = "reset", !.k = 1])
  /\ count' = [count EXCEPT !.bodies = @ + 1,
                            !.overlapped = @ \/ \E u \in Topics : InBody(u)]
  /\ UNCHANGED <<self, cmd>>

(* callback(): the flags are read one by one, and reset one by one.          *)
Check(t) ==
  LET k == thread[t].k
  IN  /\ At(t, "check")
      /\ IF self.sub_flag[Order[k]] # 1 THEN Step(t, Idle) /\ UNCHANGED count
         ELSE IF k < 3 THEN Step(t, [thread[t] EXCEPT !.k = @ + 1]) /\ UNCHANGED count
         ELSE /\ Cardinality({u \in Topics : InBody(u)}) < MaxBodies
              /\ Step(t, [thread[t] EXCEPT !.pc = "reset", !.k = 1])
              /\ count' = [count EXCEPT !.bodies = @ + 1,
                                        !.overlapped = @ \/ \E u \in Topics : InBody(u),
                                        !.stale = @ \/ "flag" \in thread[t].replaced]
      /\ UNCHANGED <<self, cmd>>

Reset(t) ==
  LET k == thread[t].k
  IN  /\ At(t, "reset")
      /\ self' = [self EXCEPT !.sub_flag[Order[k]] = 0]
      /\ thread' = [NotedFlag(k) EXCEPT ![t] =
                      IF k < 3 THEN [thread[t] EXCEPT !.k = @ + 1]
                      ELSE [thread[t] EXCEPT !.pc = "if", !.k = 1]]
      /\ UNCHANGED <<cmd, count>>

\* Mutant: nobody drives while both buttons are pressed.
Chosen_not_both(k) ==
  LET j == Head(self.joy)
  IN  IF k = 5 THEN self.Autoware_flag
      ELSE k # 4 /\ (j.left <=> k \in {2, 4}) /\ (j.right <=> k \in {3, 4})

(* The five ifs: neither button, the left, the right, both, and the flag of  *)
(* the ndt pose, which overrides. Each of them looks at the newest message.  *)
Chosen(k) == LET j == Head(self.joy)
             IN  IF k = 5 THEN self.Autoware_flag
                 ELSE (j.left <=> k \in {2, 4}) /\ (j.right <=> k \in {3, 4})

If(t) ==
  LET k == thread[t].k
  IN  /\ At(t, "if") /\ k < 6
      /\ Step(t, IF k < 5 /\ self.joy = <<>> THEN Idle
                 ELSE IF Chosen(k) THEN Go(t, "speed") ELSE NextIf(t))
      /\ UNCHANGED <<self, cmd, count>>

(* A flag is set before its message is stored: at the first triple the       *)
(* message may not be there yet, and the body raises.                        *)
Speed(t) ==
  LET x == IF thread[t].k = 4 THEN Head(self.joy).x ELSE self.twist
  IN  /\ At(t, "speed")
      /\ Step(t, IF thread[t].k # 4 /\ "twist" \notin self.stored THEN Idle
                 ELSE [thread[t] EXCEPT !.pc = "cap", !.ac = x, !.asked = x])
      /\ UNCHANGED <<self, cmd, count>>

\* Mutant: the speed is that of max_vel, whatever was asked for.
Cap_always(t) ==
  /\ At(t, "cap")
  /\ Step(t, Go(t, "clip"))
  /\ UNCHANGED <<self, cmd, count>>

(* max_vel is read to compare, and read again to assign.                     *)
Cap(t) ==
  /\ At(t, "cap")
  /\ Step(t, Go(t, IF self.max_vel < thread[t].ac THEN "clip" ELSE "steer"))
  /\ UNCHANGED <<self, cmd, count>>

Clip(t) ==
  /\ At(t, "clip")
  /\ Step(t, [Go(t, "steer") EXCEPT !.ac = self.max_vel])
  /\ UNCHANGED <<self, cmd, count>>

\* Mutant: the count is not looked at.
Steer_uncounted(t) ==
  /\ At(t, "steer")
  /\ Step(t, CASE thread[t].k = 3 -> [NextIf(t) EXCEPT !.pubtype = "Cyclops"]
               [] thread[t].k = 4 -> [NextIf(t) EXCEPT !.pubtype = "Joy"]
               [] OTHER -> Go(t, "zero"))
  /\ UNCHANGED <<self, cmd, count>>

(* Who steers: the CNN, the joystick, or Autoware.                           *)
Steer(t) ==
  LET k == thread[t].k
      cnn == k = 3 \/ (k = 1 /\ self.distance_flame = 0)
  IN  /\ At(t, "steer")
      /\ Step(t, IF cnn /\ "CNN" \notin self.stored THEN Idle
                 ELSE IF cnn THEN [NextIf(t) EXCEPT !.pubtype = "Cyclops"]
                 ELSE IF k = 4 THEN [NextIf(t) EXCEPT !.pubtype = "Joy"]
                 ELSE Go(t, "zero"))
      /\ UNCHANGED <<self, cmd, count>>

(* Autoware's turning rate is divided by the speed, if that is not 0: it is  *)
(* read again to divide. The if for no button counts the command.            *)
ByAutoware(t) ==
  [(IF thread[t].k = 1 THEN Go(t, "load") ELSE NextIf(t)) EXCEPT !.pubtype = "Autoware"]

Zero(t) ==
  /\ At(t, "zero")
  /\ Step(t, IF self.twist # 0 THEN Go(t, "divide") ELSE ByAutoware(t))
  /\ UNCHANGED <<self, cmd, count>>

Divide(t) ==
  /\ At(t, "divide")
  /\ Step(t, IF self.twist # 0 THEN ByAutoware(t) ELSE Idle)
  /\ UNCHANGED <<self, cmd, count>>

Load(t) ==
  /\ At(t, "load")
  /\ Step(t, [Go(t, "less") EXCEPT !.flame = self.distance_flame])
  /\ UNCHANGED <<self, cmd, count>>

Less(t) ==
  /\ At(t, "less")
  /\ self' = [self EXCEPT !.distance_flame = thread[t].flame - 1]
  /\ Step(t, NextIf(t)) /\ UNCHANGED <<cmd, count>>

(* No if was true: ac is an unbound local, and nothing is published.         *)
Publish(t) ==
  /\ At(t, "if") /\ thread[t].k = 6
  /\ cmd' = IF thread[t].pubtype = "none" THEN cmd
            ELSE [x |-> thread[t].ac, by |-> thread[t].pubtype]
  /\ Step(t, Idle) /\ UNCHANGED <<self, count>>

Run(t) == \/ Check(t) \/ Reset(t) \/ If(t) \/ Speed(t) \/ Cap(t) \/ Clip(t)
          \/ Steer(t) \/ Zero(t) \/ Divide(t) \/ Load(t) \/ Less(t) \/ Publish(t)

Next == \/ CallbackJoy \/ CallbackMax \/ CallbackPose
        \/ \E t \in Topics : Callback(t) \/ Store(t) \/ Run(t)

Spec == Init /\ [][Next]_vars

-----------------------------------------------------------------------------
Publishing(t) == At(t, "if") /\ thread[t].k = 6

(* The cap lowers a speed and never raises it, but for one race: max_vel is  *)
(* compared with the speed and then read again, and a message that comes     *)
(* between the two makes the robot drive at the new maximum, 10 m/s when the *)
(* laser sees nothing, whatever Autoware asked for.                          *)
FasterOnlyIfCapReplaced ==
  \A t \in Topics : Publishing(t) =>
    thread[t].ac <= thread[t].asked \/ "max" \in thread[t].replaced

(* A triple that has been taken becomes a command. It is lost when a button  *)
(* changed between two of the ifs, so that none of them was true, and when   *)
(* the twist became 0 between the test and the division.                     *)
LostOnlyIfReplaced ==
  \A t \in Topics :
    /\ Publishing(t) /\ thread[t].pubtype = "none" => "joy" \in thread[t].replaced
    /\ At(t, "divide") /\ self.twist = 0 => "twist" \in thread[t].replaced

(* The count of the commands steered by Autoware ends at 0, where the CNN    *)
(* steers again, unless two bodies ran at once and both took the last one:   *)
(* below 0 it is never 0 again.                                              *)
FlameUnlessOverlapped == self.distance_flame >= 0 \/ count.overlapped

(* A message is used for one command, unless two bodies ran at once, or one  *)
(* began on a flag that another had reset after it read it: a thread that    *)
(* stands between the flags while another takes the triple takes it again,   *)
(* with messages of its past, as soon as the topics left are received.       *)
OnceUnlessOverlapped ==
  count.overlapped \/ count.stale \/ \A t \in Topics : count.bodies <= count.received[t]
=============================================================================
