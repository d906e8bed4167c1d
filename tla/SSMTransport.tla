---------------------------- MODULE SSMTransport ----------------------------
(***************************************************************************)
(* ssmtransport: the thread ssm2tcp of one machine copies streams through  *)
(* a socket to the thread tcp2ssm of another, which creates them there and *)
(* writes what arrives.  A program of SSMPoller follows one of the copies. *)
(*                                                                         *)
(* A message is a record: the header's type and id, and what the body      *)
(* stands for.  The connection is made before both threads start and keeps *)
(* the order.  The other direction is the same program with other streams. *)
(***************************************************************************)
EXTENDS SSMPoller

CONSTANTS
  File,      \* the sensors of the file send_sensors, in its order
  Setups,    \* what uids the sensors may have in the file, and which of them a property
  Followed,  \* the sensor whose copy is followed
  Last,      \* bound: the last tid the driver of each sensor writes
  Cap        \* bound: messages the socket takes before write blocks

SendSensors == {File[n] : n \in DOMAIN File}

ASSUME FileAssumption     == File \in Seq(SendSensors)
ASSUME FollowedAssumption == Followed \in SendSensors
ASSUME LastAssumption     == Last \in [SendSensors -> Nat]
ASSUME SetupsAssumption   ==
  Setups \subseteq [uid : [SendSensors -> Nat], sized : SUBSET SendSensors]

VARIABLES
  uid,     \* the uid of each sensor; never changes
  sized,   \* the sensors whose property has a size when they are announced;
           \* never changes
  top,     \* the newest tid of each source stream, Absent before createSSM
  turn,    \* i in ssm2tcp: the sensor of File it is at
  wanted,  \* out_sensor[].tid, 0 while out_sensor[].sid is 0
  looked,  \* ssm2tcp has read the newest tid and found no reason to skip
  ids,     \* the sensors announced, in the order of the static id
  net,     \* what is in the socket
  alive,   \* tcp2ssm has not returned
  regs,    \* in_sensor[]: the sensors registered by tcp2ssm, in order
  prop,    \* for each of them, whose property was set for it, or NoProperty
  copy     \* for each of them, the data written: pairs of sensor and tid

senderVars   == <<turn, wanted, looked, ids>>
receiverVars == <<alive, regs, prop, copy>>
transportVars == <<followerVars, uid, sized, top, senderVars, net, receiverVars>>

Absent     == -2
NoProperty == "none"

TransportInit ==
  /\ FollowerInit
  /\ \E setup \in Setups : uid = setup.uid /\ sized = setup.sized
  /\ top = [s \in SendSensors |-> Absent]
  /\ turn = 1
  /\ wanted = [s \in SendSensors |-> 0]
  /\ looked = FALSE
  /\ ids = << >>
  /\ net = << >>
  /\ alive = TRUE
  /\ regs = << >> /\ prop = << >> /\ copy = << >>

-----------------------------------------------------------------------------
\* The driver of a sensor creates its stream and writes to it.
CreateSource(s) ==
  /\ top[s] = Absent
  /\ top' = [top EXCEPT ![s] = None]
  /\ UNCHANGED <<followerVars, uid, sized, senderVars, net, receiverVars>>

WriteSource(s) ==
  /\ top[s] # Absent /\ top[s] < Last[s]
  /\ top' = [top EXCEPT ![s] = @ + 1]
  /\ UNCHANGED <<followerVars, uid, sized, senderVars, net, receiverVars>>

-----------------------------------------------------------------------------
Here == File[turn]
Advance == turn' = (turn % Len(File)) + 1

\* write blocks when the socket is full.
Put(messages) ==
  /\ Len(net) + Len(messages) <= Cap
  /\ net' = net \o messages

\* A sensor that is not registered is tried once in a second, and openSSM fails
\* before its driver has created it.
Pass ==
  /\ wanted[Here] = 0
  /\ Advance
  /\ UNCHANGED <<followerVars, uid, sized, top, wanted, looked, ids, net, receiverVars>>

News(s) == [type |-> "SSMT_NEW", id |-> 0, body |-> s]
Property(s) == [type |-> "SSMT_PROPERTY", id |-> uid[s], body |-> s]

\* send_newsensor, when openSSM succeeds: the announcement, the property under
\* the uid, if there is one, and the tid to begin with.
Announce ==
  /\ wanted[Here] = 0 /\ top[Here] # Absent
  /\ Put(IF Here \in sized THEN <<News(Here), Property(Here)>> ELSE <<News(Here)>>)
  /\ ids' = Append(ids, Here)
  /\ LET newest == readSSM(top[Here], -1)
     IN  wanted' = [wanted EXCEPT ![Here] = IF newest <= 0 THEN 1 ELSE newest]
  /\ Advance
  /\ UNCHANGED <<followerVars, uid, sized, top, looked, receiverVars>>

\* Mutant: no skip.
Look_patient ==
  /\ wanted[Here] > 0 /\ ~looked
  /\ looked' = TRUE
  /\ UNCHANGED <<followerVars, uid, sized, top, turn, wanted, ids, net, receiverVars>>

\* The newest tid, and the skip.
Look ==
  /\ wanted[Here] > 0 /\ ~looked
  /\ LET newest == readSSM(top[Here], -1)
     IN  IF newest - wanted[Here] > Num \div 2
           THEN /\ wanted' = [wanted EXCEPT ![Here] = newest - Num \div 2]
                /\ Advance /\ UNCHANGED looked
           ELSE looked' = TRUE /\ UNCHANGED <<turn, wanted>>
  /\ UNCHANGED <<followerVars, uid, sized, top, ids, net, receiverVars>>

\* send_sensor_data: header.id is the place of the sensor among those announced.
DataMessage(s, t) ==
  [type |-> "SSMT_DATA",
   id   |-> (CHOOSE n \in DOMAIN ids : ids[n] = s) - 1,
   body |-> <<s, t>>]

\* Mutant: the cursor is moved on, also when nothing was read.
Send_lossy ==
  /\ looked
  /\ IF readSSM(top[Here], wanted[Here]) > 0
       THEN Put(<<DataMessage(Here, wanted[Here])>>) ELSE UNCHANGED net
  /\ wanted' = [wanted EXCEPT ![Here] = IF @ <= Last[Here] THEN @ + 1 ELSE @]
  /\ looked' = FALSE
  /\ Advance
  /\ UNCHANGED <<followerVars, uid, sized, top, ids, receiverVars>>

\* The wanted tid, if it is still there (and is not 0).
Send ==
  /\ looked
  /\ IF readSSM(top[Here], wanted[Here]) > 0
       THEN /\ Put(<<DataMessage(Here, wanted[Here])>>)
            /\ wanted' = [wanted EXCEPT ![Here] = @ + 1]
       ELSE UNCHANGED <<net, wanted>>
  /\ looked' = FALSE
  /\ Advance
  /\ UNCHANGED <<followerVars, uid, sized, top, ids, receiverVars>>

ssm2tcp == Pass \/ Announce \/ Look \/ Send

-----------------------------------------------------------------------------
\* The next message of a type, taken out of the socket.
Take(type) ==
  /\ alive /\ net # << >> /\ Head(net).type = type
  /\ net' = Tail(net)

\* The header's id as an index of in_sensor[], from 1.
Addressed == Head(net).id + 1

\* regist_new_sensor, with createSSM_time.
Register ==
  /\ Take("SSMT_NEW")
  /\ regs' = Append(regs, Head(net).body)
  /\ prop' = Append(prop, NoProperty)
  /\ copy' = Append(copy, << >>)
  /\ UNCHANGED <<followerVars, uid, sized, top, senderVars, alive>>

\* createSSM_time or malloc fails: the thread returns, the socket stays open.
Refuse ==
  /\ Take("SSMT_NEW")
  /\ alive' = FALSE
  /\ UNCHANGED <<followerVars, uid, sized, top, senderVars, regs, prop, copy>>

\* The sensor the header's id points at has been given room for a property.
HasRoom == Addressed \in DOMAIN regs /\ regs[Addressed] \in sized

\* The property of a message is set for the sensor its id points at.
SetProperty ==
  /\ Take("SSMT_PROPERTY")
  /\ HasRoom
  /\ prop' = [prop EXCEPT ![Addressed] = Head(net).body]
  /\ UNCHANGED <<followerVars, uid, sized, top, senderVars, alive, regs, copy>>

\* No sensor is registered there, and the pointers on the stack were never set; or it
\* has no property, and its pointer is 0.  read fails for ever, or the process is killed,
\* or the bytes go elsewhere.
StraySetProperty ==
  /\ Take("SSMT_PROPERTY")
  /\ ~HasRoom
  /\ alive' \in BOOLEAN
  /\ UNCHANGED <<followerVars, uid, sized, top, senderVars, regs, prop, copy>>

\* writeSSM with the header's time; the copy has tids of its own.
WriteCopy ==
  /\ Take("SSMT_DATA")
  /\ copy' = [copy EXCEPT ![Addressed] = Append(@, Head(net).body)]
  /\ IF regs[Addressed] = Followed THEN Publish ELSE UNCHANGED followerVars
  /\ UNCHANGED <<uid, sized, top, senderVars, alive, regs, prop>>

tcp2ssm == Register \/ Refuse \/ SetProperty \/ StraySetProperty \/ WriteCopy

-----------------------------------------------------------------------------
\* openSSM in the follower fails until the copy exists.
Opened == \E n \in DOMAIN regs : regs[n] = Followed

Follow ==
  /\ Opened
  /\ Start \/ Poll
  /\ UNCHANGED <<uid, sized, top, senderVars, net, receiverVars>>

TransportNext ==
  \/ \E s \in SendSensors : CreateSource(s) \/ WriteSource(s)
  \/ ssm2tcp \/ tcp2ssm
  \/ Follow

\* The loops never end; nothing makes a driver start or publish.
TransportSpec == TransportInit /\ [][TransportNext]_transportVars
        /\ WF_transportVars(ssm2tcp) /\ WF_transportVars(tcp2ssm) /\ WF_transportVars(Follow)

-----------------------------------------------------------------------------
\* Everything of a sensor that was sent: written to its copy, or still on its way there.
OnTheWay(n) == {j \in DOMAIN net : net[j].type = "SSMT_DATA" /\ net[j].id + 1 = n}
Sent(n) == {copy[n][k] : k \in DOMAIN copy[n]} \cup {net[j].body : j \in OnTheWay(n)}

InOrder(n) ==
  /\ \A j, k \in DOMAIN copy[n] : j < k => copy[n][j][2] < copy[n][k][2]
  /\ \A k \in DOMAIN copy[n], j \in OnTheWay(n) : copy[n][k][2] < net[j].body[2]
  /\ \A j, k \in OnTheWay(n) : j < k => net[j].body[2] < net[k].body[2]

\* A copy holds data of its own sensor only, in order, and lacks only data that
\* were more than half a ring old when ssm2tcp came to them, or older than the
\* datum it began with.
CopiedUnlessOld ==
  \A n \in DOMAIN regs :
    LET s == regs[n]
    IN  /\ \A d \in Sent(n) : d[1] = s
        /\ InOrder(n)
        /\ \A d \in Sent(n) : \A t \in d[2] .. wanted[s] - 1 :
             <<s, t>> \in Sent(n) \/ t < top[s] - Num \div 2

\* A copy has the property of its own sensor or none, if every sensor's uid is
\* its place in the order of registration.  (The uid is sent as the id.)
PropertyUnlessUid ==
  (\A n \in DOMAIN ids : uid[ids[n]] = n - 1) =>
    \A n \in DOMAIN regs : prop[n] \in {NoProperty, regs[n]}

\* What is passed on from stream to stream, or by a follower of the copy, is in
\* order and as complete as the program promises.
PassedOn == Consecutive /\ CopiedUnlessOld /\ PropertyUnlessUid

\* When a driver pauses, everything of its sensor is sent or skipped, however
\* far ssm2tcp was behind: the skip always lands on a readable datum.
SenderCatchesUp ==
  []alive => \A s \in SendSensors :
    []<>(wanted[s] > 0 => wanted[s] > top[s] \/ top[s] < 1)

\* So has a follower passed on everything, but only if it is never lapped.
FollowerCatchesUp == NeverLapped /\ <>Opened => CaughtUp

=============================================================================
