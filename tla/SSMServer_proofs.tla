--------------------------- MODULE SSMServer_proofs ---------------------------
(***************************************************************************)
(* Theorems about SSMServer, for any number of processes, sensors, calls   *)
(* and restarts of the server, and, in the second part, about SSMTransport *)
(* and SSMPoller, for any file of sensors, any uids and any ring.          *)
(***************************************************************************)
EXTENDS SSMServer, SSMTransport, SequenceTheorems, TLAPS

\* q is a sequence, of anything.
Plain(q) == Len(q) \in Nat /\ q = [i \in 1 .. Len(q) |-> q[i]]

-----------------------------------------------------------------------------
(* The inductive invariant, as long as no call began under a pid in use.    *)

\* The queue of the commands, the list and the clients have their types.
Fields == {"sensor", "shm", "psize", "prop"}
TypeInv ==
  /\ DOMAIN msq = Types
  /\ Plain(msq[MSQ_CMD])
  /\ Plain(list)
  /\ \A i \in DOMAIN list :
       /\ DOMAIN list[i] = Fields
       /\ list[i].sensor \in Sensors /\ list[i].shm \in Nat /\ list[i].psize \in Int
  /\ keys \in Nat /\ base \in Nat
  /\ spc \in {"ready", "data"} /\ res_id \in ResIds
  /\ spc = "data" => setting \in DOMAIN list
  /\ pc \in [Clients -> {"idle", "waiting", "collect", "dead"}]
  /\ calls \in [Clients -> Nat]
  /\ DOMAIN req = Clients /\ DOMAIN result = Clients
  /\ \A c \in Clients : calls[c] > 0 => req[c].sensor \in Sensors /\ req[c].size \in Nat
  /\ att \in [Clients -> [Sensors -> Nat]]
  /\ DOMAIN latest = Sensors
  /\ misfit \in BOOLEAN

\* A pid is that of one call at a time, and of none that the server uses; what is left
\* under it when the call returns is nothing.
Reserved == {MSQ_CMD} \cup ResIds
Free(c) == msq[PidOf[c]] = << >> \/ \E d \in Clients : PidOf[d] = PidOf[c] /\ pc[d] # "idle"
PidInv ==
  /\ \A c \in Clients : pc[c] # "idle" => PidOf[c] \notin Reserved
  /\ \A c, d \in Clients :
       pc[c] # "idle" /\ pc[d] # "idle" /\ PidOf[c] = PidOf[d] => c = d
  /\ \A c \in Clients : PidOf[c] \notin Reserved => Free(c)

\* What is there for client c: nothing, outside a call.
Box(c) == IF pc[c] = "idle" THEN << >> ELSE Inbox(c)

\* A command in the queue is that of a call that is not answered yet, and the only one.
SentBy(c, m) == pc[c] # "idle" /\ m.from = PidOf[c]
Asks(c, m) ==
  /\ m.call = Call(c) /\ m.op = req[c].op /\ m.sensor = req[c].sensor /\ m.size = req[c].size
  /\ pc[c] \in {"waiting", "dead"} /\ calls[c] > 0
  /\ Box(c) = << >>
CommandInv ==
  \A i \in DOMAIN msq[MSQ_CMD] :
    /\ \E c \in Clients : SentBy(c, msq[MSQ_CMD][i])
    /\ \A c \in Clients : SentBy(c, msq[MSQ_CMD][i]) => Asks(c, msq[MSQ_CMD][i])
    /\ \A j \in DOMAIN msq[MSQ_CMD] : msq[MSQ_CMD][i].from = msq[MSQ_CMD][j].from => i = j

\* What a client finds in its inbox is the answer to its call: one message, or two
\* for a property, of which the first may have been taken.
Answers(c, m) ==
  /\ m.call = Call(c) /\ m.suid \in Int /\ m.ssize \in Int
  /\ req[c].op = "set" /\ m.ssize # 0 => m.res \in ResIds
InboxOf(c) ==
  \/ Box(c) = << >>
  \/ /\ Box(c) = <<Box(c)[1]>> /\ Answers(c, Box(c)[1])
     /\ pc[c] # "idle" /\ calls[c] > 0
     /\ pc[c] = "collect" => req[c].op = "get"
  \/ /\ Box(c) = <<Box(c)[1], Box(c)[2]>>
     /\ Answers(c, Box(c)[1]) /\ Answers(c, Box(c)[2])
     /\ pc[c] \in {"waiting", "dead"} /\ calls[c] > 0
     /\ req[c].op = "get" /\ Box(c)[1].ssize # 0
InboxInv == \A c \in Clients : InboxOf(c)

Replies ==
  \A c \in Clients : pc[c] = "idle" /\ calls[c] > 0 => result[c].call = Call(c)

OwnInv == TypeInv /\ PidInv /\ CommandInv /\ InboxInv /\ Replies

\* The segments of the list are of this life of the server, one for each sensor, and
\* who has one of this life, or is about to, has it from the list.
Held(s, k) == \E i \in DOMAIN list : list[i].sensor = s /\ list[i].shm = k
ListInv ==
  /\ base <= keys
  /\ \A i \in DOMAIN list : base < list[i].shm /\ list[i].shm <= keys
  /\ \A i, j \in DOMAIN list :
       list[i].sensor = list[j].sensor \/ list[i].shm = list[j].shm => i = j
SegmentInv ==
  \A c \in Clients :
    /\ \A s \in Sensors : att[c][s] <= keys /\ (att[c][s] > base => Held(s, att[c][s]))
    /\ Box(c) # << >> /\ req[c].op \in {"create", "open"} =>
         LET k == Box(c)[1].suid IN k <= keys /\ (k > base => Held(req[c].sensor, k))

\* Properties, as long as nothing misfits. The server waits for the data of one call
\* at a time: its client has been told where to send them, or they are there.
Told(c) == req[c].op = "set" /\ Box(c) # << >> /\ Box(c)[1].ssize # 0
Unsent ==
  /\ \A r \in ResIds : msq[r] = << >>
  /\ \A c, d \in Clients : Told(c) /\ Told(d) => c = d
  /\ \A c \in Clients : Told(c) =>
       LET m == Box(c)[1]
       IN  /\ m.res = res_id
           /\ req[c].size = list[setting].psize /\ req[c].sensor = list[setting].sensor
SentData ==
  /\ \A c \in Clients : ~Told(c)
  /\ \A r \in ResIds \ {res_id} : msq[r] = << >>
  /\ msq[res_id] = <<msq[res_id][1]>>
  /\ LET m == msq[res_id][1]
     IN  /\ m.ssize = list[setting].psize /\ m.call = latest[list[setting].sensor]
         /\ m.call # NoCall /\ m.call[3] = list[setting].sensor
Idle == (\A c \in Clients : ~Told(c)) /\ \A r \in ResIds : msq[r] = << >>

\* All of one call, for sensor s.
WholeFor(s, content) ==
  \A k \in DOMAIN content :
    content[k] = content[1] /\ content[k] # NoCall /\ content[k][3] = s
RoomInv ==
  \A i \in DOMAIN list :
    /\ DOMAIN list[i].prop = IF list[i].psize = Unset THEN {} ELSE 1 .. list[i].psize
    /\ list[i].psize # Unset => list[i].psize > 0
    /\ (spc = "data" /\ i = setting) \/ \A k \in DOMAIN list[i].prop :
         /\ list[i].prop[k] = latest[list[i].sensor]
         /\ list[i].prop[k] # NoCall /\ list[i].prop[k][3] = list[i].sensor
ContentOf(c) ==
  /\ \A k \in DOMAIN Box(c) : WholeFor(req[c].sensor, Box(c)[k].content)
  /\ result[c].op = "get" /\ result[c].ok => WholeFor(result[c].sensor, result[c].content)
ContentInv == \A c \in Clients : ContentOf(c)
PropertyInv ==
  ~misfit =>
    /\ spc = "ready" => Idle
    /\ spc = "data" => list[setting].psize # Unset /\ (Unsent \/ SentData)
    /\ RoomInv /\ ContentInv

IInv == mixed \in BOOLEAN /\ (~mixed => OwnInv /\ ListInv /\ SegmentInv /\ PropertyInv)
-----------------------------------------------------------------------------
(* Sequences, and what a step does to the queue.                           *)

LEMMA SeqIsPlain ==
  ASSUME NEW S, NEW q \in Seq(S)
  PROVE  Plain(q)
<1>1. Len(q) \in Nat /\ q \in [1 .. Len(q) -> S]  BY LenProperties
<1> QED  BY <1>1 DEF Plain

LEMMA PlainAppend ==
  ASSUME NEW q, Plain(q), NEW x
  PROVE  /\ Plain(Append(q, x)) /\ Len(Append(q, x)) = Len(q) + 1
         /\ \A i \in 1 .. Len(q) : Append(q, x)[i] = q[i]
         /\ Append(q, x)[Len(q) + 1] = x
<1>1. PICK n \in Nat : n = Len(q)  BY DEF Plain
<1>2. q \in Seq({q[i] : i \in 1 .. n} \cup {x})  BY <1>1 DEF Plain
<1>3. Append(q, x) \in Seq({q[i] : i \in 1 .. n} \cup {x})  BY <1>2
<1>4. Len(Append(q, x)) = Len(q) + 1 /\ Append(q, x)[Len(q) + 1] = x  BY <1>2
<1>5. \A i \in 1 .. Len(q) : Append(q, x)[i] = q[i]  BY <1>2
<1>6. Plain(Append(q, x))  BY <1>3, SeqIsPlain
<1> QED  BY <1>4, <1>5, <1>6

LEMMA PlainTail ==
  ASSUME NEW q, Plain(q), q # << >>
  PROVE  /\ Len(q) > 0 /\ Head(q) = q[1] /\ DOMAIN q = 1 .. Len(q)
         /\ Plain(Tail(q)) /\ Len(Tail(q)) = Len(q) - 1
         /\ \A i \in 1 .. Len(q) - 1 : Tail(q)[i] = q[i + 1]
<1>1. PICK n \in Nat : n = Len(q)  BY DEF Plain
<1>2. q \in Seq({q[i] : i \in 1 .. n})  BY <1>1 DEF Plain
<1>3. Len(q) > 0 /\ DOMAIN q = 1 .. Len(q)  BY <1>2
<1>4. Tail(q) \in Seq({q[i] : i \in 1 .. n}) /\ Head(q) = q[1]  BY <1>2
<1>5. Len(Tail(q)) = Len(q) - 1 /\ \A i \in 1 .. Len(q) - 1 : Tail(q)[i] = q[i + 1]
  BY <1>2, <1>3
<1>6. Plain(Tail(q))  BY <1>4, SeqIsPlain
<1> QED  BY <1>3, <1>4, <1>5, <1>6

LEMMA PlainExcept ==
  ASSUME NEW q, Plain(q), NEW i \in DOMAIN q, NEW x
  PROVE  /\ Plain([q EXCEPT ![i] = x]) /\ DOMAIN [q EXCEPT ![i] = x] = DOMAIN q
         /\ \A j \in DOMAIN q : [q EXCEPT ![i] = x][j] = IF j = i THEN x ELSE q[j]
<1>1. PICK n \in Nat : n = Len(q)  BY DEF Plain
<1>2. q \in Seq({q[j] : j \in 1 .. n} \cup {x}) /\ i \in 1 .. n  BY <1>1 DEF Plain
<1>3. [q EXCEPT ![i] = x] \in Seq({q[j] : j \in 1 .. n} \cup {x})  BY <1>2
<1>4. Plain([q EXCEPT ![i] = x])  BY <1>3, SeqIsPlain
<1> QED  BY <1>4

LEMMA PlainDomain ==
  ASSUME NEW q, Plain(q)
  PROVE  DOMAIN q = 1 .. Len(q)
BY DEF Plain

\* The types of messages are different.
LEMMA TypesDiffer ==
  /\ MSQ_CMD \in Types /\ ResIds \subseteq Types /\ MSQ_CMD \notin ResIds /\ 0 \notin ResIds
  /\ \A c \in Clients : PidOf[c] \in Types
  /\ get_receive_id \in ResIds /\ MSQ_RES \in ResIds
BY NumResAssumption DEF Types, ResIds, MSQ_CMD, MSQ_RES, get_receive_id

LEMMA PidsDiffer ==
  ASSUME PidInv, NEW c \in Clients, pc[c] # "idle"
  PROVE  /\ Box(c) = Inbox(c) /\ PidOf[c] \in Types
         /\ PidOf[c] # MSQ_CMD /\ PidOf[c] \notin ResIds
         /\ \A d \in Clients : pc[d] # "idle" /\ d # c => PidOf[d] # PidOf[c]
BY TypesDiffer DEF PidInv, Reserved, Box

\* What is there for a client changes with its queue only, or with its call.
LEMMA BoxSame ==
  ASSUME NEW d, pc'[d] = pc[d], pc[d] # "idle" => msq'[PidOf[d]] = msq[PidOf[d]]
  PROVE  Box(d)' = Box(d)
BY DEF Box, Inbox

LEMMA PidKept ==
  ASSUME PidInv, \A d \in Clients : pc'[d] # "idle" <=> pc[d] # "idle",
         \A c \in Clients : PidOf[c] \notin Reserved =>
            \/ msq'[PidOf[c]] = msq[PidOf[c]]
            \/ \E d \in Clients : PidOf[d] = PidOf[c] /\ pc[d] # "idle"
  PROVE  PidInv'
<1>1. \A c \in Clients : pc'[c] # "idle" => PidOf[c] \notin Reserved
  BY DEF PidInv
<1>2. \A c, d \in Clients :
        pc'[c] # "idle" /\ pc'[d] # "idle" /\ PidOf[c] = PidOf[d] => c = d
  BY DEF PidInv
<1>3. ASSUME NEW c \in Clients, PidOf[c] \notin Reserved PROVE Free(c)'
  <2>1. Free(c)  BY <1>3 DEF PidInv
  <2> QED  BY <1>3, <2>1 DEF Free
<1> QED  BY <1>1, <1>2, <1>3 DEF PidInv

\* The server takes the command of a client and answers it.
LEMMA AnswerStep ==
  ASSUME TypeInv, PidInv, CommandInv, msq[MSQ_CMD] # << >>, pc' = pc, NEW rs, Answer(rs)
  PROVE  \E c \in Clients :
           /\ Command.from = PidOf[c] /\ Asks(c, Command)
           /\ DOMAIN msq' = Types
           /\ msq'[MSQ_CMD] = Tail(msq[MSQ_CMD])
           /\ Box(c)' = << >> \o rs
           /\ \A t \in Types : t # MSQ_CMD /\ t # PidOf[c] => msq'[t] = msq[t]
<1>1. Command = msq[MSQ_CMD][1] /\ 1 \in DOMAIN msq[MSQ_CMD]
  BY PlainTail DEF TypeInv, Command
<1>2. PICK c \in Clients : pc[c] # "idle" /\ Command.from = PidOf[c]
  BY <1>1 DEF CommandInv, SentBy
<1>3. Asks(c, Command)  BY <1>1, <1>2 DEF CommandInv, SentBy
<1>4. Inbox(c) = << >>  BY <1>2, <1>3, PidsDiffer DEF Asks
<1>5. PidOf[c] \in Types /\ PidOf[c] # MSQ_CMD /\ MSQ_CMD \in Types
  BY <1>2, PidsDiffer, TypesDiffer
<1>6. DOMAIN msq' = Types /\ msq'[MSQ_CMD] = Tail(msq[MSQ_CMD])
  BY <1>2, <1>5 DEF TypeInv, Answer
<1>7. msq'[PidOf[c]] = msq[PidOf[c]] \o rs  BY <1>2, <1>5 DEF TypeInv, Answer
<1>8. \A t \in Types : t # MSQ_CMD /\ t # PidOf[c] => msq'[t] = msq[t]
  BY <1>2, <1>5 DEF TypeInv, Answer
<1>9. Box(c)' = << >> \o rs  BY <1>2, <1>4, <1>7 DEF Box, Inbox
<1> QED  BY <1>2, <1>3, <1>6, <1>8, <1>9

LEMMA OneReply == \A m : << >> \o <<m>> = <<m>>  OBVIOUS
LEMMA TwoReplies == \A m, n : << >> \o <<m, n>> = <<m, n>>  OBVIOUS
-----------------------------------------------------------------------------
(* Replies are own.                                                        *)

\* What the server sends to client c, whose command it is.
ReplyTo(c, m) ==
  /\ m.call = Call(c) /\ m.suid \in Int /\ m.ssize \in Int
  /\ req[c].op = "set" /\ m.ssize # 0 => m.res \in ResIds
Replied(c, box) ==
  \/ \E m : box = <<m>> /\ ReplyTo(c, m)
  \/ \E m, n : box = <<m, n>> /\ ReplyTo(c, m) /\ ReplyTo(c, n) /\ req[c].op = "get" /\ m.ssize # 0
\* The server serves c: the queue, and the rest of what the invariant speaks of.
Served(c) ==
  /\ msq[MSQ_CMD] # << >> /\ Command.from = PidOf[c] /\ Asks(c, Command)
  /\ DOMAIN msq' = Types
  /\ msq'[MSQ_CMD] = Tail(msq[MSQ_CMD])
  /\ \A t \in Types : t # MSQ_CMD /\ t # PidOf[c] => msq'[t] = msq[t]
  /\ UNCHANGED <<client, latest>>

LEMMA SearchFinds ==
  ASSUME TypeInv, ListInv, NEW s
  PROVE  \/ Search(s) = 0 /\ \A i \in DOMAIN list : list[i].sensor # s
         \/ Search(s) \in DOMAIN list /\ Search(s) # 0 /\ list[Search(s)].sensor = s
<1> DEFINE hits == {i \in DOMAIN list : list[i].sensor = s}
<1>1. DOMAIN list = 1 .. Len(list) /\ Len(list) \in Nat  BY DEF TypeInv, Plain
<1>2. CASE hits = {}
  BY <1>2 DEF Search
<1>3. CASE hits # {}
  <2>1. PICK i \in hits : TRUE  BY <1>3
  <2>2. \A j \in hits : j = i  BY <2>1 DEF ListInv
  <2>3. i \in hits /\ \A j \in hits : j <= i  BY <1>1, <2>1, <2>2
  <2>4. Search(s) \in hits  BY <1>3, <2>3 DEF Search
  <2> QED  BY <1>1, <2>4
<1> QED  BY <1>2, <1>3

LEMMA ServedBy ==
  ASSUME TypeInv, PidInv, CommandInv, msq[MSQ_CMD] # << >>, UNCHANGED <<client, latest>>,
         NEW rs, Answer(rs)
  PROVE  \E c \in Clients : Served(c) /\ Box(c)' = << >> \o rs
BY AnswerStep DEF Served, client

LEMMA QueryAnswers ==
  ASSUME TypeInv, PidInv, ListInv, CommandInv, Serve, Query
  PROVE  \E c \in Clients : Served(c) /\ \E m :
           /\ Box(c)' = <<m>> /\ ReplyTo(c, m) /\ m.content = << >>
           /\ req[c].op \notin {"create", "set", "get"}
           /\ req[c].op = "open" => m.suid = -1 \/ Held(req[c].sensor, m.suid)
<1> DEFINE m == CASE Command.op = "init" -> Reply(1, 0)
                  [] Command.op = "num" -> Reply(Len(list), 0)
                  [] OTHER -> Found(Wanted)
<1>1. PICK c \in Clients : Served(c) /\ Box(c)' = << >> \o <<m>>
  BY ServedBy DEF Serve, Query
<1>2. Box(c)' = <<m>>  BY <1>1, OneReply
<1>3. Command.call = Call(c) /\ Command.op = req[c].op /\ Command.sensor = req[c].sensor
  BY <1>1 DEF Served, Asks
<1>4. Command.op \notin {"create", "set", "get"}  BY DEF Query
<1>5. \A x, y : /\ Reply(x, y).call = Command.call /\ Reply(x, y).suid = x
                /\ Reply(x, y).ssize = y /\ Reply(x, y).content = << >>
  BY DEF Reply
<1>6. Len(list) \in Int /\ DOMAIN list = 1 .. Len(list)  BY DEF TypeInv, Plain
<1>7. Wanted = 0 \/ Wanted \in DOMAIN list
  <2>1. CASE Command.op # "name"  BY <2>1, SearchFinds DEF Wanted
  <2>2. CASE Command.op = "name"
    <3>1. Command.size \in Nat  BY <1>1, <1>3 DEF Served, Asks, TypeInv
    <3> QED  BY <2>2, <3>1, <1>6 DEF Wanted
  <2> QED  BY <2>1, <2>2
<1>8. Wanted # 0 => PropertySize(Wanted) \in Int /\ list[Wanted].shm \in Int
  BY <1>7 DEF TypeInv, PropertySize
<1>9. LET f == Found(Wanted)
      IN  /\ f.call = Command.call /\ f.suid \in Int /\ f.ssize \in Int /\ f.content = << >>
          /\ Command.op = "open" => f.suid = -1 \/ Held(req[c].sensor, f.suid)
  <2>1. CASE Wanted = 0  BY <2>1, <1>5 DEF Found
  <2>2. CASE Wanted # 0 /\ Command.op = "info"
    BY <2>2, <1>5, <1>8 DEF Found, DataSize
  <2>3. CASE Wanted # 0 /\ Command.op # "info"
    <3>1. Found(Wanted) = Reply(list[Wanted].shm, 0)  BY <2>3 DEF Found
    <3>2. Command.op = "open" => list[Wanted].sensor = req[c].sensor
      BY <2>3, <1>3, SearchFinds DEF Wanted
    <3>3. Command.op = "open" => Held(req[c].sensor, list[Wanted].shm)
      BY <3>2, <2>3, <1>7 DEF Held
    <3> QED  BY <3>1, <3>3, <1>5, <1>8, <2>3
  <2> QED  BY <2>1, <2>2, <2>3
<1>10. /\ m.call = Command.call /\ m.suid \in Int /\ m.ssize \in Int /\ m.content = << >>
       /\ Command.op = "open" => m.suid = -1 \/ Held(req[c].sensor, m.suid)
  <2>1. CASE Command.op = "init"
    <3>1. m = Reply(1, 0)  BY <2>1
    <3> QED  BY <3>1, <2>1, <1>5
  <2>2. CASE Command.op = "num"
    <3>1. m = Reply(Len(list), 0)  BY <2>2
    <3> QED  BY <3>1, <2>2, <1>5, <1>6
  <2>3. CASE Command.op \notin {"init", "num"}
    <3>1. m = Found(Wanted)  BY <2>3
    <3> HIDE DEF m
    <3> QED  BY <3>1, <1>9
  <2> QED  BY <2>1, <2>2, <2>3
<1> HIDE DEF m
<1> QED
  BY <1>1, <1>2, <1>3, <1>4, <1>10 DEF ReplyTo

LEMMA CreateAnswers ==
  ASSUME TypeInv, PidInv, ListInv, CommandInv, Serve, Create
  PROVE  \E c \in Clients : Served(c) /\ \E m :
           /\ Box(c)' = <<m>> /\ ReplyTo(c, m) /\ m.content = << >>
           /\ req[c].op = "create"
           /\ \/ /\ UNCHANGED <<list, keys>> /\ Held(req[c].sensor, m.suid)
              \/ /\ \A i \in DOMAIN list : list[i].sensor # req[c].sensor
                 /\ list' = Append(list, [sensor |-> req[c].sensor, shm |-> keys + 1,
                                          psize |-> Unset, prop |-> << >>])
                 /\ keys' = keys + 1 /\ m.suid = keys + 1
<1> DEFINE i == Search(Command.sensor)
<1>1. \A x, y : /\ Reply(x, y).call = Command.call /\ Reply(x, y).suid = x
                /\ Reply(x, y).ssize = y /\ Reply(x, y).content = << >>
  BY DEF Reply
<1>2. CASE i = 0
  <2>1. PICK c \in Clients : Served(c) /\ Box(c)' = << >> \o <<Reply(keys + 1, 0)>>
    BY <1>2, ServedBy DEF Serve, Create
  <2>2. Command.call = Call(c) /\ Command.op = req[c].op /\ Command.sensor = req[c].sensor
    BY <2>1 DEF Served, Asks
  <2>3. \A j \in DOMAIN list : list[j].sensor # req[c].sensor
    BY <1>2, <2>2, SearchFinds
  <2>4. /\ list' = Append(list, [sensor |-> req[c].sensor, shm |-> keys + 1,
                                 psize |-> Unset, prop |-> << >>])
        /\ keys' = keys + 1 /\ req[c].op = "create"
    BY <1>2, <2>2 DEF Create
  <2>5. Box(c)' = <<Reply(keys + 1, 0)>>  BY <2>1, OneReply
  <2>6. ReplyTo(c, Reply(keys + 1, 0))  BY <1>1, <2>2, <2>4 DEF ReplyTo, TypeInv
  <2> QED  BY <2>1, <2>3, <2>4, <2>5, <2>6, <1>1
<1>3. CASE i # 0
  <2>1. PICK c \in Clients : Served(c) /\ Box(c)' = << >> \o <<Reply(list[i].shm, 0)>>
    BY <1>3, ServedBy DEF Serve, Create
  <2>2. Command.call = Call(c) /\ Command.op = req[c].op /\ Command.sensor = req[c].sensor
    BY <2>1 DEF Served, Asks
  <2>3. i \in DOMAIN list /\ list[i].sensor = req[c].sensor
    BY <1>3, <2>2, SearchFinds
  <2>4. UNCHANGED <<list, keys>> /\ req[c].op = "create"
    BY <1>3, <2>2 DEF Create
  <2>5. Box(c)' = <<Reply(list[i].shm, 0)>>  BY <2>1, OneReply
  <2>6. ReplyTo(c, Reply(list[i].shm, 0))  BY <1>1, <2>2, <2>3, <2>4 DEF ReplyTo, TypeInv
  <2>7. Held(req[c].sensor, Reply(list[i].shm, 0).suid)  BY <2>3, <1>1 DEF Held
  <2> QED  BY <2>1, <2>4, <2>5, <2>6, <2>7, <1>1
<1> QED  BY <1>2, <1>3

\* What a transfer makes of the list: the element keeps its sensor and its segment.
Kept(i) ==
  /\ Plain(list') /\ DOMAIN list' = DOMAIN list
  /\ \A j \in DOMAIN list : j # i => list'[j] = list[j]
  /\ list'[i].sensor = list[i].sensor /\ list'[i].shm = list[i].shm
  /\ DOMAIN list'[i] = Fields

LEMMA SetAnswers ==
  ASSUME TypeInv, PidInv, ListInv, CommandInv, Serve, PropertySet
  PROVE  \E c \in Clients : Served(c) /\ req[c].op = "set" /\ \E m :
           /\ Box(c)' = <<m>> /\ ReplyTo(c, m) /\ m.content = << >>
           /\ \/ m.ssize = 0 /\ UNCHANGED <<list, spc, setting, res_id, misfit>>
              \/ \E i \in DOMAIN list :
                   LET room == IF list[i].psize = Unset THEN req[c].size ELSE list[i].psize
                   IN  /\ Kept(i) /\ list[i].sensor = req[c].sensor
                       /\ list'[i].psize = room
                       /\ list'[i].prop = IF list[i].psize = Unset
                                            THEN [k \in 1 .. room |-> NoCall] ELSE list[i].prop
                       /\ spc' = "data" /\ setting' = i
                       /\ misfit' = (misfit \/ room = 0 \/ req[c].size # room)
                       /\ m.ssize = room /\ m.res = res_id' /\ res_id' \in ResIds
<1> DEFINE i == Search(Command.sensor)
<1>1. \A x, y : /\ Reply(x, y).call = Command.call /\ Reply(x, y).suid = x
                /\ Reply(x, y).ssize = y /\ Reply(x, y).content = << >>
  BY DEF Reply
<1>2. CASE i = 0
  <2>1. PICK c \in Clients : Served(c) /\ Box(c)' = << >> \o <<Reply(0, 0)>>
    BY <1>2, ServedBy DEF Serve, PropertySet
  <2>2. Command.call = Call(c) /\ Command.op = req[c].op
    BY <2>1 DEF Served, Asks
  <2>3. UNCHANGED <<list, spc, setting, res_id, misfit>> /\ req[c].op = "set"
    BY <1>2, <2>2 DEF PropertySet
  <2>4. Box(c)' = <<Reply(0, 0)>>  BY <2>1, OneReply
  <2>5. ReplyTo(c, Reply(0, 0))  BY <1>1, <2>2 DEF ReplyTo
  <2> QED  BY <2>1, <2>3, <2>4, <2>5, <1>1
<1>3. CASE i # 0
  <2> DEFINE room == IF list[i].psize = Unset THEN Command.size ELSE list[i].psize
             m == [Reply(0, room) EXCEPT !.res = res_id']
  <2>1. PICK c \in Clients : Served(c) /\ Box(c)' = << >> \o <<m>>
    BY <1>3, ServedBy DEF Serve, PropertySet
  <2>2. /\ Command.call = Call(c) /\ Command.op = req[c].op /\ Command.sensor = req[c].sensor
        /\ Command.size = req[c].size
    BY <2>1 DEF Served, Asks
  <2>3. i \in DOMAIN list /\ list[i].sensor = req[c].sensor
    BY <1>3, <2>2, SearchFinds
  <2>4. Box(c)' = <<m>>  BY <2>1, OneReply
  <2>5. /\ m.call = Command.call /\ m.suid = 0 /\ m.ssize = room /\ m.res = res_id'
        /\ m.content = << >>
    BY DEF Reply
  <2>6. /\ res_id' = get_receive_id /\ spc' = "data" /\ setting' = i
        /\ misfit' = (misfit \/ room = 0 \/ Command.size # room) /\ Command.op = "set"
    BY <1>3 DEF PropertySet
  <2>7. res_id' \in ResIds  BY <2>6, TypesDiffer
  <2>8. room \in Int  BY <2>1, <2>2, <2>3 DEF Served, Asks, TypeInv
  <2>9. ReplyTo(c, m)  BY <2>2, <2>5, <2>7, <2>8 DEF ReplyTo
  <2>10. /\ Kept(i) /\ list'[i].psize = room
         /\ list'[i].prop = IF list[i].psize = Unset
                              THEN [k \in 1 .. room |-> NoCall] ELSE list[i].prop
    <3>1. CASE list[i].psize # Unset
      <4>1. list' = list  BY <1>3, <3>1 DEF PropertySet
      <4> QED  BY <4>1, <3>1, <2>3 DEF Kept, TypeInv
    <3>2. CASE list[i].psize = Unset
      <4> DEFINE blank == [k \in 1 .. room |-> NoCall]
                 e == [list[i] EXCEPT !.psize = room, !.prop = blank]
      <4>1. list' = [list EXCEPT ![i].psize = room, ![i].prop = blank]
        BY <1>3, <3>2 DEF PropertySet
      <4>2. DOMAIN list[i] = Fields  BY <2>3 DEF TypeInv
      <4> HIDE DEF blank, room, i
      <4>3. list' = [list EXCEPT ![i] = e]  BY <4>1, <4>2, <2>3 DEF Fields
      <4>4. e.psize = room /\ e.prop = blank /\ e.sensor = list[i].sensor /\ e.shm = list[i].shm
            /\ DOMAIN e = Fields
        BY <4>2 DEF Fields
      <4> HIDE DEF e
      <4>5. Plain(list)  BY DEF TypeInv
      <4>6. /\ Plain(list') /\ DOMAIN list' = DOMAIN list /\ list'[i] = e
            /\ \A j \in DOMAIN list : j # i => list'[j] = list[j]
        BY <4>3, <4>5, <2>3, PlainExcept
      <4> QED  BY <3>2, <4>4, <4>6 DEF Kept, blank
    <3> QED  BY <3>1, <3>2
  <2>11. room = IF list[i].psize = Unset THEN req[c].size ELSE list[i].psize  BY <2>2
  <2> DEFINE Taken(k) ==
        LET r == IF list[k].psize = Unset THEN req[c].size ELSE list[k].psize
        IN  /\ Kept(k) /\ list[k].sensor = req[c].sensor
            /\ list'[k].psize = r
            /\ list'[k].prop = IF list[k].psize = Unset
                                 THEN [j \in 1 .. r |-> NoCall] ELSE list[k].prop
            /\ spc' = "data" /\ setting' = k
            /\ misfit' = (misfit \/ r = 0 \/ req[c].size # r)
            /\ m.ssize = r /\ m.res = res_id' /\ res_id' \in ResIds
  <2> HIDE DEF m, room, i
  <2>12. Taken(i)  BY <2>2, <2>3, <2>5, <2>6, <2>7, <2>10, <2>11
  <2>13. \E k \in DOMAIN list : Taken(k)  BY <2>12, <2>3
  <2>14. req[c].op = "set" /\ m.content = << >>  BY <2>2, <2>5, <2>6
  <2> QED  BY <2>1, <2>4, <2>9, <2>13, <2>14
<1> QED  BY <1>2, <1>3

LEMMA GetAnswers ==
  ASSUME TypeInv, PidInv, ListInv, CommandInv, Serve, PropertyGet
  PROVE  \E c \in Clients : Served(c) /\ req[c].op = "get" /\
           \/ \E m : Box(c)' = <<m>> /\ ReplyTo(c, m) /\ m.content = << >> /\ m.ssize = 0
           \/ \E m, n : \E i \in DOMAIN list :
                /\ Box(c)' = <<m, n>> /\ ReplyTo(c, m) /\ ReplyTo(c, n) /\ m.ssize # 0
                /\ m.content = << >> /\ n.content = list[i].prop
                /\ list[i].sensor = req[c].sensor
<1> DEFINE i == Search(Command.sensor)
           m == Reply(0, list[i].psize)
           n == [m EXCEPT !.content = list[i].prop]
<1>1. \A x, y : /\ Reply(x, y).call = Command.call /\ Reply(x, y).suid = x
                /\ Reply(x, y).ssize = y /\ Reply(x, y).content = << >>
  BY DEF Reply
<1>2. CASE i = 0 \/ PropertySize(i) = 0
  <2>1. PICK c \in Clients : Served(c) /\ Box(c)' = << >> \o <<Reply(0, 0)>>
    BY <1>2, ServedBy DEF Serve, PropertyGet
  <2>2. Command.call = Call(c) /\ Command.op = req[c].op
    BY <2>1 DEF Served, Asks
  <2>3. req[c].op = "get"  BY <2>2 DEF PropertyGet
  <2>4. Box(c)' = <<Reply(0, 0)>>  BY <2>1, OneReply
  <2>5. ReplyTo(c, Reply(0, 0))  BY <1>1, <2>2 DEF ReplyTo
  <2> QED  BY <2>1, <2>3, <2>4, <2>5, <1>1
<1>3. CASE ~(i = 0 \/ PropertySize(i) = 0)
  <2>1. PICK c \in Clients : Served(c) /\ Box(c)' = << >> \o <<m, n>>
    BY <1>3, ServedBy DEF Serve, PropertyGet
  <2>2. Command.call = Call(c) /\ Command.op = req[c].op /\ Command.sensor = req[c].sensor
    BY <2>1 DEF Served, Asks
  <2>3. i \in DOMAIN list /\ list[i].sensor = req[c].sensor
    BY <1>3, <2>2, SearchFinds
  <2>4. list[i].psize \in Int /\ list[i].psize # 0
    BY <1>3, <2>3 DEF PropertySize, TypeInv
  <2>5. req[c].op = "get"  BY <2>2 DEF PropertyGet
  <2>6. Box(c)' = <<m, n>>  BY <2>1, TwoReplies
  <2>7. /\ m.call = Command.call /\ m.suid = 0 /\ m.ssize = list[i].psize /\ m.content = << >>
        /\ n.call = Command.call /\ n.suid = 0 /\ n.ssize = list[i].psize
        /\ n.content = list[i].prop
    BY DEF Reply
  <2> HIDE DEF m, n
  <2>8. ReplyTo(c, m) /\ ReplyTo(c, n)
    BY <2>2, <2>4, <2>5, <2>7 DEF ReplyTo
  <2> QED  BY <2>1, <2>3, <2>4, <2>5, <2>6, <2>7, <2>8
<1> QED  BY <1>2, <1>3
-----------------------------------------------------------------------------
(* Types and ownership are preserved.                                      *)

\* What the invariant says of client d does not change.
Same(d) ==
  /\ pc'[d] = pc[d] /\ req'[d] = req[d] /\ calls'[d] = calls[d] /\ result'[d] = result[d]
  /\ Box(d)' = Box(d)

LEMMA SameKeeps ==
  ASSUME InboxInv, Replies, NEW d \in Clients, Same(d)
  PROVE  /\ Call(d)' = Call(d) /\ InboxOf(d)'
         /\ pc'[d] = "idle" /\ calls'[d] > 0 => result'[d].call = Call(d)'
         /\ \A m : Asks(d, m) => Asks(d, m)'
<1>1. Call(d)' = Call(d)  BY DEF Same, Call
<1>2. InboxOf(d)  BY DEF InboxInv
<1>3. InboxOf(d)'  BY <1>1, <1>2 DEF InboxOf, Same, Answers
<1>4. \A m : Asks(d, m) => Asks(d, m)'  BY <1>1 DEF Asks, Same
<1>5. pc[d] = "idle" /\ calls[d] > 0 => result[d].call = Call(d)  BY DEF Replies
<1> QED  BY <1>1, <1>3, <1>4, <1>5 DEF Same

\* The rest of the queue, when its first command is taken.
LEMMA CommandsTail ==
  ASSUME TypeInv, CommandInv, InboxInv, Replies,
         msq[MSQ_CMD] # << >>, msq'[MSQ_CMD] = Tail(msq[MSQ_CMD]),
         \A d \in Clients : Same(d) \/ Command.from = PidOf[d],
         \A d \in Clients : pc'[d] = pc[d]
  PROVE  CommandInv' /\ Plain(msq'[MSQ_CMD])
<1> DEFINE q == msq[MSQ_CMD]
<1>1. /\ Len(q) > 0 /\ Len(q) \in Nat /\ Command = q[1] /\ DOMAIN q = 1 .. Len(q)
      /\ Plain(Tail(q)) /\ Len(Tail(q)) = Len(q) - 1
      /\ \A i \in 1 .. Len(q) - 1 : Tail(q)[i] = q[i + 1]
  BY PlainTail DEF TypeInv, Command, Plain
<1>2. DOMAIN Tail(q) = 1 .. Len(q) - 1  BY <1>1, PlainDomain
<1>3. ASSUME NEW i \in 1 .. Len(q) - 1, NEW x, x = q[i + 1]
      PROVE  /\ \E c \in Clients : SentBy(c, x)'
             /\ \A c \in Clients : SentBy(c, x)' => Asks(c, x)'
             /\ \A j \in 1 .. Len(q) - 1 : x.from = q[j + 1].from => i = j
  <2>1. i + 1 \in DOMAIN q /\ i + 1 # 1 /\ 1 \in DOMAIN q
    BY <1>1
  <2>2. \E c \in Clients : SentBy(c, x)'  BY <1>3, <2>1 DEF CommandInv, SentBy
  <2>3. ASSUME NEW c \in Clients, SentBy(c, x)'
        PROVE  Asks(c, x)'
    <3>1. Asks(c, x)  BY <1>3, <2>1, <2>3 DEF CommandInv, SentBy
    <3>2. q[1].from # x.from  BY <1>3, <2>1 DEF CommandInv
    <3>3. Same(c)  BY <1>1, <2>3, <3>2 DEF SentBy
    <3> QED  BY <3>1, <3>3, SameKeeps
  <2>4. ASSUME NEW j \in 1 .. Len(q) - 1, x.from = q[j + 1].from
        PROVE  i = j
    <3>1. j + 1 \in DOMAIN q  BY <1>1
    <3>2. i + 1 = j + 1  BY <1>3, <2>1, <2>4, <3>1 DEF CommandInv
    <3> QED  BY <3>2
  <2> QED  BY <2>2, <2>3, <2>4
<1>4. ASSUME NEW i \in DOMAIN msq'[MSQ_CMD]
      PROVE  /\ \E c \in Clients : SentBy(c, msq[MSQ_CMD][i])'
             /\ \A c \in Clients : SentBy(c, msq[MSQ_CMD][i])' => Asks(c, msq[MSQ_CMD][i])'
             /\ \A j \in DOMAIN msq'[MSQ_CMD] :
                  msq'[MSQ_CMD][i].from = msq'[MSQ_CMD][j].from => i = j
  <2>1. i \in 1 .. Len(q) - 1  BY <1>2
  <2>2. PICK x : x = q[i + 1]  OBVIOUS
  <2>3. msq'[MSQ_CMD][i] = x  BY <1>1, <2>1, <2>2
  <2>4. /\ \E c \in Clients : SentBy(c, x)'
        /\ \A c \in Clients : SentBy(c, x)' => Asks(c, x)'
    BY <1>3, <2>1, <2>2
  <2>5. /\ \E c \in Clients : SentBy(c, msq[MSQ_CMD][i])'
        /\ \A c \in Clients : SentBy(c, msq[MSQ_CMD][i])' => Asks(c, msq[MSQ_CMD][i])'
    BY <2>3, <2>4 DEF SentBy, Asks, Call, Box, Inbox
  <2>6. ASSUME NEW j \in DOMAIN msq'[MSQ_CMD], msq'[MSQ_CMD][i].from = msq'[MSQ_CMD][j].from
        PROVE  i = j
    <3>1. j \in 1 .. Len(q) - 1  BY <1>2
    <3>2. msq'[MSQ_CMD][j] = q[j + 1]  BY <1>1, <3>1
    <3>3. x.from = q[j + 1].from  BY <2>3, <2>6, <3>2
    <3> QED  BY <1>3, <2>1, <2>2, <3>1, <3>3
  <2> QED  BY <2>5, <2>6
<1> QED  BY <1>1, <1>4 DEF CommandInv

LEMMA ServedOwn ==
  ASSUME TypeInv, PidInv, CommandInv, InboxInv, Replies,
         NEW c \in Clients, Served(c), Replied(c, Box(c)')
  PROVE  /\ PidInv' /\ CommandInv' /\ Plain(msq'[MSQ_CMD]) /\ InboxInv' /\ Replies'
         /\ \A d \in Clients : d # c => Same(d)
<1>0. /\ pc' = pc /\ pc[c] # "idle"
      /\ \A t \in Types : t # MSQ_CMD /\ t # PidOf[c] => msq'[t] = msq[t]
      /\ MSQ_CMD \in Reserved
  BY DEF Served, client, Asks, Reserved
<1>1. ASSUME NEW d \in Clients, d # c PROVE Same(d)
  <2>1. Box(d)' = Box(d)
    <3>1. pc[d] # "idle" => PidOf[d] \in Types /\ PidOf[d] # MSQ_CMD /\ PidOf[d] # PidOf[c]
      BY <1>0, <1>1, PidsDiffer
    <3> QED  BY <1>0, <3>1, BoxSame
  <2> QED  BY <2>1 DEF Same, Served, client
<1>9. PidInv'
  <2>1. \A d \in Clients : PidOf[d] \notin Reserved =>
            msq'[PidOf[d]] = msq[PidOf[d]] \/ PidOf[d] = PidOf[c]
    BY <1>0, TypesDiffer
  <2> QED  BY <1>0, <2>1, PidKept
<1>2. \A d \in Clients : Same(d) \/ Command.from = PidOf[d]  BY <1>1 DEF Served
<1>3. CommandInv' /\ Plain(msq'[MSQ_CMD])
  BY <1>0, <1>2, CommandsTail DEF Served
<1>4. Call(c)' = Call(c) /\ pc'[c] = pc[c] /\ req'[c] = req[c] /\ calls'[c] = calls[c]
      /\ result'[c] = result[c]
  BY DEF Served, client, Call
<1>5. pc[c] \in {"waiting", "dead"} /\ calls[c] > 0  BY DEF Served, Asks
<1>6. InboxOf(c)'
  <2>1. ASSUME NEW m, Box(c)' = <<m>>, ReplyTo(c, m)
        PROVE  InboxOf(c)'
    <3>1. Box(c)'[1] = m /\ Box(c)' = <<Box(c)'[1]>>  BY <2>1
    <3> QED  BY <3>1, <2>1, <1>4, <1>5 DEF InboxOf, Answers, ReplyTo
  <2>2. ASSUME NEW m, NEW n, Box(c)' = <<m, n>>, ReplyTo(c, m), ReplyTo(c, n),
               req[c].op = "get", m.ssize # 0
        PROVE  InboxOf(c)'
    <3>1. Box(c)'[1] = m /\ Box(c)'[2] = n /\ Box(c)' = <<Box(c)'[1], Box(c)'[2]>>
      BY <2>2
    <3> QED  BY <3>1, <2>2, <1>4, <1>5 DEF InboxOf, Answers, ReplyTo
  <2> QED  BY <2>1, <2>2 DEF Replied
<1>7. InboxInv'  BY <1>1, <1>6, SameKeeps DEF InboxInv
<1>8. Replies'  BY <1>1, <1>4, <1>5, SameKeeps DEF Replies
<1> QED  BY <1>1, <1>3, <1>7, <1>8, <1>9

\* The client takes what was sent to it: it returns, or waits for the property.
Taken(c) ==
  /\ pc[c] \in {"waiting", "collect"} /\ calls[c] > 0
  /\ DOMAIN msq' = Types /\ msq'[MSQ_CMD] = msq[MSQ_CMD] /\ PidInv'
  /\ \A d \in Clients : d # c => Same(d)
  /\ UNCHANGED <<req, calls>>
  /\ DOMAIN result' = Clients /\ pc' \in [Clients -> {"idle", "waiting", "collect", "dead"}]
  /\ Answers(c, Box(c)[1])
  /\ \/ /\ Box(c) = <<Box(c)[1]>> /\ Box(c)' = << >> /\ pc'[c] = "idle"
        /\ result'[c].call = Call(c)
     \/ /\ \/ Box(c) = <<Box(c)[1]>> /\ Box(c)' = << >>
           \/ /\ Box(c) = <<Box(c)[1], Box(c)[2]>> /\ Box(c)' = <<Box(c)[2]>>
              /\ Answers(c, Box(c)[2])
        /\ req[c].op = "get" /\ pc'[c] = "collect" /\ result' = result

LEMMA TakeFirst ==
  ASSUME NEW c \in Clients, InboxOf(c), pc[c] \in {"waiting", "collect"}, Box(c) # << >>
  PROVE  /\ Head(Box(c)) = Box(c)[1] /\ Answers(c, Box(c)[1]) /\ calls[c] > 0
         /\ \/ /\ Box(c) = <<Box(c)[1]>> /\ Tail(Box(c)) = << >>
               /\ pc[c] = "collect" => req[c].op = "get"
            \/ /\ Box(c) = <<Box(c)[1], Box(c)[2]>> /\ Tail(Box(c)) = <<Box(c)[2]>>
               /\ Answers(c, Box(c)[2])
               /\ pc[c] = "waiting" /\ req[c].op = "get" /\ Box(c)[1].ssize # 0
<1>1. \A m : Head(<<m>>) = m /\ Tail(<<m>>) = << >>  OBVIOUS
<1>2. \A m, n : Head(<<m, n>>) = m /\ Tail(<<m, n>>) = <<n>>  OBVIOUS
<1> QED  BY <1>1, <1>2 DEF InboxOf

\* What becomes of the queue when client c takes a message, and may send one to r.
LEMMA TakeQueue ==
  ASSUME TypeInv, PidInv, NEW c \in Clients, pc[c] # "idle", NEW r \in ResIds, NEW x,
         \/ msq' = [msq EXCEPT ![PidOf[c]] = Tail(@)]
         \/ msq' = [msq EXCEPT ![PidOf[c]] = Tail(@), ![r] = Append(@, x)]
  PROVE  /\ DOMAIN msq' = Types /\ Inbox(c)' = Tail(Inbox(c))
         /\ \A t \in Types : t # PidOf[c] /\ t # r => msq'[t] = msq[t]
         /\ msq'[r] = msq[r] \/ msq'[r] = Append(msq[r], x)
<1>1. /\ DOMAIN msq = Types /\ PidOf[c] \in Types /\ r \in Types /\ r # PidOf[c]
  BY TypesDiffer, PidsDiffer DEF TypeInv
<1> QED  BY <1>1 DEF Inbox

LEMMA ReplyTaken ==
  ASSUME TypeInv, PidInv, InboxInv, NEW c \in Clients, ReceiveReply(c) \/ Collect(c)
  PROVE  Taken(c)
<1>0. pc[c] \in {"waiting", "collect"} /\ Inbox(c) # << >> /\ Box(c) = Inbox(c)
  BY PidsDiffer DEF ReceiveReply, Collect
<1>1. pc[c] \in {"waiting", "collect"} /\ Box(c) # << >> /\ InboxOf(c)
  BY <1>0 DEF InboxInv
<1> DEFINE m == Box(c)[1]
<1>2. /\ Head(Box(c)) = m /\ Answers(c, m) /\ calls[c] > 0
      /\ \/ /\ Box(c) = <<Box(c)[1]>> /\ Tail(Box(c)) = << >>
            /\ pc[c] = "collect" => req[c].op = "get"
         \/ /\ Box(c) = <<Box(c)[1], Box(c)[2]>> /\ Tail(Box(c)) = <<Box(c)[2]>>
            /\ Answers(c, Box(c)[2])
            /\ pc[c] = "waiting" /\ req[c].op = "get" /\ m.ssize # 0
  BY <1>1, TakeFirst
<1>12. Head(Inbox(c)) = m  BY <1>0, <1>2
<1>3. UNCHANGED <<req, calls>>  BY DEF ReceiveReply, Collect
<1>11. \A d \in Clients : d # c => pc'[d] = pc[d]
  BY DEF ReceiveReply, Collect, Attach, SendProperty, LearnSize, Learn, Return, TypeInv
<1>4. /\ DOMAIN msq' = Types /\ msq'[MSQ_CMD] = msq[MSQ_CMD]
      /\ Inbox(c)' = Tail(Inbox(c))
      /\ \A d \in Clients : PidOf[d] \notin Reserved /\ PidOf[d] # PidOf[c]
           => msq'[PidOf[d]] = msq[PidOf[d]]
  <2>1. ASSUME NEW r \in ResIds, NEW x,
               \/ msq' = [msq EXCEPT ![PidOf[c]] = Tail(@)]
               \/ msq' = [msq EXCEPT ![PidOf[c]] = Tail(@), ![r] = Append(@, x)]
        PROVE  /\ DOMAIN msq' = Types /\ msq'[MSQ_CMD] = msq[MSQ_CMD]
               /\ Inbox(c)' = Tail(Inbox(c))
               /\ \A d \in Clients : PidOf[d] \notin Reserved /\ PidOf[d] # PidOf[c]
                    => msq'[PidOf[d]] = msq[PidOf[d]]
    <3>1. /\ DOMAIN msq' = Types /\ Inbox(c)' = Tail(Inbox(c))
          /\ \A t \in Types : t # PidOf[c] /\ t # r => msq'[t] = msq[t]
      BY <1>1, <2>1, TakeQueue
    <3>2. PidOf[c] # MSQ_CMD /\ r # MSQ_CMD /\ MSQ_CMD \in Types
      BY <1>1, TypesDiffer, PidsDiffer
    <3> QED  BY <3>1, <3>2, TypesDiffer DEF Reserved
  <2>2. CASE SendProperty(c) /\ m.ssize # 0
    <3>1. m.res \in ResIds  BY <2>2, <1>2 DEF SendProperty, Answers
    <3>2. m.res # 0  BY <3>1, TypesDiffer
    <3>3. msq' = [msq EXCEPT ![PidOf[c]] = Tail(@),
                             ![m.res] = Append(@, [call |-> Call(c), ssize |-> req[c].size])]
      BY <2>2, <1>12, <3>2 DEF SendProperty
    <3> QED  BY <2>1, <3>1, <3>3
  <2>3. CASE ~(SendProperty(c) /\ m.ssize # 0)
    <3>1. msq' = [msq EXCEPT ![PidOf[c]] = Tail(@)]
      BY <2>3, <1>12 DEF ReceiveReply, Collect, Attach, SendProperty, LearnSize, Learn
    <3> QED  BY <2>1, <3>1, TypesDiffer
  <2> QED  BY <2>2, <2>3
<1>10. \A d \in Clients : d # c => Box(d)' = Box(d)
  <2>1. ASSUME NEW d \in Clients, d # c, pc[d] # "idle" PROVE msq'[PidOf[d]] = msq[PidOf[d]]
    BY <1>1, <1>4, <2>1, PidsDiffer DEF Reserved
  <2> QED  BY <1>11, <2>1, BoxSame
<1>5. \/ /\ \E ok : Return(c, m, ok)
         /\ ~(pc[c] = "waiting" /\ req[c].op = "get" /\ m.ssize # 0)
      \/ /\ pc[c] = "waiting" /\ req[c].op = "get" /\ m.ssize # 0
         /\ pc' = [pc EXCEPT ![c] = "collect"] /\ result' = result
  BY <1>12 DEF ReceiveReply, Collect, Attach, SendProperty, LearnSize, Learn
<1>13. ASSUME Inbox(c)' = << >> \/ pc'[c] # "idle" PROVE PidInv'
  <2>1. \A d \in Clients : pc'[d] # "idle" => pc[d] # "idle"  BY <1>1, <1>11
  <2>2. \A d \in Clients : pc'[d] # "idle" => PidOf[d] \notin Reserved
    BY <2>1 DEF PidInv
  <2>3. \A d, e \in Clients :
          pc'[d] # "idle" /\ pc'[e] # "idle" /\ PidOf[d] = PidOf[e] => d = e
    BY <2>1 DEF PidInv
  <2>4. ASSUME NEW d \in Clients, PidOf[d] \notin Reserved PROVE Free(d)'
    <3>1. CASE PidOf[d] = PidOf[c]
      BY <1>13, <3>1 DEF Free, Inbox
    <3>2. CASE PidOf[d] # PidOf[c]
      <4>1. Free(d)  BY <2>4 DEF PidInv
      <4>2. msq'[PidOf[d]] = msq[PidOf[d]]  BY <1>4, <2>4, <3>2
      <4>3. \A e \in Clients : PidOf[e] = PidOf[d] => pc'[e] = pc[e]  BY <1>11, <3>2
      <4> QED  BY <4>1, <4>2, <4>3 DEF Free
    <3> QED  BY <3>1, <3>2
  <2> QED  BY <2>2, <2>3, <2>4 DEF PidInv
<1>6. CASE /\ \E ok : Return(c, m, ok)
           /\ ~(pc[c] = "waiting" /\ req[c].op = "get" /\ m.ssize # 0)
  <2>1. PICK ok : Return(c, m, ok)  BY <1>6
  <2>2. pc' = [pc EXCEPT ![c] = "idle"] /\ result' = [result EXCEPT ![c] =
            [call |-> m.call, op |-> req[c].op, sensor |-> req[c].sensor, ok |-> ok,
             content |-> m.content]]
    BY <2>1 DEF Return
  <2>3. pc'[c] = "idle" /\ result'[c].call = Call(c) /\ DOMAIN result' = Clients
    BY <2>2, <1>2 DEF TypeInv, Answers
  <2>4. \A d \in Clients : d # c => pc'[d] = pc[d] /\ result'[d] = result[d]
    BY <2>2 DEF TypeInv
  <2>5. pc' \in [Clients -> {"idle", "waiting", "collect", "dead"}]  BY <2>2 DEF TypeInv
  <2>6. Box(c) = <<Box(c)[1]>> /\ Tail(Box(c)) = << >>
    BY <1>2, <1>6
  <2>7. Box(c)' = << >>  BY <2>3 DEF Box
  <2>8. PidInv'  BY <1>0, <1>4, <1>13, <2>6
  <2> HIDE DEF m
  <2> QED  BY <1>1, <1>2, <1>3, <1>4, <1>10, <2>3, <2>4, <2>5, <2>6, <2>7, <2>8 DEF Taken, Same, m
<1>7. CASE /\ pc[c] = "waiting" /\ req[c].op = "get" /\ m.ssize # 0
           /\ pc' = [pc EXCEPT ![c] = "collect"] /\ result' = result
  <2>1. pc'[c] = "collect" /\ pc' \in [Clients -> {"idle", "waiting", "collect", "dead"}]
        /\ \A d \in Clients : d # c => pc'[d] = pc[d]
    BY <1>7 DEF TypeInv
  <2>2. \/ Box(c) = <<Box(c)[1]>> /\ Tail(Box(c)) = << >>
        \/ /\ Box(c) = <<Box(c)[1], Box(c)[2]>> /\ Tail(Box(c)) = <<Box(c)[2]>>
           /\ Answers(c, Box(c)[2])
    BY <1>2, <1>7
  <2>3. Box(c)' = Tail(Box(c))
    <3>1. Box(c)' = Inbox(c)'  BY <2>1 DEF Box
    <3> QED  BY <1>0, <1>4, <3>1
  <2>4. PidInv'  BY <1>13, <2>1
  <2> HIDE DEF m
  <2> QED
    BY <1>1, <1>2, <1>3, <1>4, <1>7, <1>10, <2>1, <2>2, <2>3, <2>4 DEF Taken, Same, TypeInv, m
<1> QED  BY <1>5, <1>6, <1>7

LEMMA CommandsKept ==
  ASSUME TypeInv, CommandInv, InboxInv, Replies, msq'[MSQ_CMD] = msq[MSQ_CMD],
         \A d \in Clients : Same(d) \/ \A i \in DOMAIN msq[MSQ_CMD] : msq[MSQ_CMD][i].from # PidOf[d]
  PROVE  CommandInv' /\ Plain(msq'[MSQ_CMD])
<1>1. ASSUME NEW i \in DOMAIN msq'[MSQ_CMD]
      PROVE  /\ \E c \in Clients : SentBy(c, msq[MSQ_CMD][i])'
             /\ \A c \in Clients : SentBy(c, msq[MSQ_CMD][i])' => Asks(c, msq[MSQ_CMD][i])'
             /\ \A j \in DOMAIN msq'[MSQ_CMD] :
                  msq'[MSQ_CMD][i].from = msq'[MSQ_CMD][j].from => i = j
  <2>1. PICK x : x = msq[MSQ_CMD][i]  OBVIOUS
  <2>2. msq'[MSQ_CMD][i] = x  BY <2>1
  <2>3. ASSUME NEW c \in Clients, SentBy(c, x)'
        PROVE  Asks(c, x)'
    <3>1. Same(c)  BY <2>1, <2>3 DEF SentBy
    <3>2. Asks(c, x)  BY <2>1, <2>3, <3>1 DEF CommandInv, SentBy, Same
    <3> QED  BY <3>1, <3>2, SameKeeps
  <2>4. \A c \in Clients : SentBy(c, msq[MSQ_CMD][i])' => Asks(c, msq[MSQ_CMD][i])'
    BY <2>2, <2>3 DEF SentBy, Asks, Call, Box, Inbox
  <2>5. \E c \in Clients : SentBy(c, msq[MSQ_CMD][i])'
    <3>1. PICK c \in Clients : SentBy(c, x)  BY <2>1 DEF CommandInv
    <3>2. Same(c)  BY <2>1, <3>1 DEF SentBy
    <3> QED  BY <2>2, <3>1, <3>2 DEF SentBy, Same
  <2>6. \A j \in DOMAIN msq'[MSQ_CMD] :
          msq'[MSQ_CMD][i].from = msq'[MSQ_CMD][j].from => i = j
    BY DEF CommandInv
  <2> QED  BY <2>4, <2>5, <2>6
<1> QED  BY <1>1 DEF CommandInv, TypeInv

LEMMA TakenOwn ==
  ASSUME TypeInv, CommandInv, InboxInv, Replies, NEW c \in Clients, Taken(c)
  PROVE  CommandInv' /\ Plain(msq'[MSQ_CMD]) /\ InboxInv' /\ Replies'
<1>1. \A i \in DOMAIN msq[MSQ_CMD] : msq[MSQ_CMD][i].from # PidOf[c]
  <2>1. pc[c] # "idle" /\ Box(c) # << >>  BY DEF Taken
  <2> QED  BY <2>1 DEF CommandInv, SentBy, Asks
<1>2. CommandInv' /\ Plain(msq'[MSQ_CMD])
  BY <1>1, CommandsKept DEF Taken
<1>3. Call(c)' = Call(c) /\ req'[c] = req[c] /\ calls'[c] = calls[c]  BY DEF Taken, Call
<1>4. InboxOf(c)'
  <2>1. CASE Box(c)' = << >>
    BY <2>1 DEF InboxOf
  <2>2. CASE /\ Box(c)' = <<Box(c)[2]>> /\ Answers(c, Box(c)[2])
             /\ req[c].op = "get" /\ pc'[c] = "collect"
    <3>1. PICK n : n = Box(c)[2]  OBVIOUS
    <3>2. Box(c)'[1] = n /\ Box(c)' = <<Box(c)'[1]>>  BY <2>2, <3>1
    <3>3. calls[c] > 0  BY DEF Taken
    <3> QED  BY <2>2, <3>1, <3>2, <3>3, <1>3 DEF InboxOf, Answers
  <2> QED  BY <2>1, <2>2 DEF Taken
<1>5. pc'[c] = "idle" => result'[c].call = Call(c)'  BY <1>3 DEF Taken
<1>6. \A d \in Clients : d # c => Same(d)  BY DEF Taken
<1>7. InboxInv'  BY <1>4, <1>6, SameKeeps DEF InboxInv
<1>8. Replies'  BY <1>5, <1>6, SameKeeps DEF Replies
<1> QED  BY <1>2, <1>7, <1>8

LEMMA RequestOwn ==
  ASSUME TypeInv, PidInv, CommandInv, InboxInv, Replies,
         NEW c \in Clients, NEW q \in Requests, Request(c, q), ~mixed'
  PROVE  /\ TypeInv' /\ PidInv' /\ CommandInv' /\ InboxInv' /\ Replies'
         /\ \A d \in Clients : d # c => Same(d)
         /\ Box(c) = << >> /\ Box(c)' = << >>
         /\ \A t \in Types : t # MSQ_CMD => msq'[t] = msq[t]
<1>1. PICK o \in Ops : q \in [op : {o}, sensor : About(o), size : Numbers(o)]
  BY DEF Requests
<1>2. q.op = o /\ q.sensor \in Sensors /\ q.size \in Nat
  <2>1. About(o) \subseteq Sensors  BY SensorsAssumption DEF About
  <2>2. Numbers(o) \subseteq Nat  BY SizesAssumption DEF Numbers
  <2> QED  BY <1>1, <2>1, <2>2
<1>3. PICK x : x = [op |-> q.op, sensor |-> q.sensor, size |-> q.size,
                    from |-> PidOf[c], call |-> Call(c)']
  OBVIOUS
<1> DEFINE old == msq[MSQ_CMD]
<1>19. pc[c] = "idle" /\ ~InUse(c)  BY DEF Request
<1>20. /\ PidOf[c] \notin Reserved
       /\ \A d \in Clients : PidOf[d] = PidOf[c] => pc[d] = "idle"
  BY <1>19 DEF InUse, Reserved
<1>4. pc[c] = "idle" /\ Box(c) = << >> /\ Inbox(c) = << >>
  <2>1. Free(c)  BY <1>20 DEF PidInv
  <2> QED  BY <1>19, <1>20, <2>1 DEF Free, Box, Inbox
<1>5. /\ calls' = [calls EXCEPT ![c] = @ + 1] /\ req' = [req EXCEPT ![c] = q]
      /\ pc' = [pc EXCEPT ![c] = "waiting"] /\ UNCHANGED <<server, att, latest, misfit>>
      /\ result' = [result EXCEPT ![c] = NoResult]
      /\ msq' = [msq EXCEPT ![MSQ_CMD] = Append(@, x)]
  BY <1>3 DEF Request
<1>6. /\ calls'[c] > 0 /\ req'[c] = q /\ pc'[c] = "waiting"
      /\ calls' \in [Clients -> Nat] /\ DOMAIN req' = Clients
      /\ pc' \in [Clients -> {"idle", "waiting", "collect", "dead"}]
  BY <1>5 DEF TypeInv
<1>7. /\ DOMAIN msq' = Types /\ msq'[MSQ_CMD] = Append(old, x)
      /\ \A t \in Types : t # MSQ_CMD => msq'[t] = msq[t]
  BY <1>5, TypesDiffer DEF TypeInv
<1>8. \A d \in Clients : Box(d)' = Box(d)
  <2>1. Box(c)' = << >>
    <3>1. msq'[PidOf[c]] = msq[PidOf[c]]  BY <1>7, <1>20, TypesDiffer DEF Reserved
    <3> QED  BY <1>4, <1>6, <3>1 DEF Box, Inbox
  <2>2. ASSUME NEW d \in Clients, d # c PROVE Box(d)' = Box(d)
    <3>1. pc'[d] = pc[d]  BY <1>5, <2>2 DEF TypeInv
    <3>2. pc[d] # "idle" => msq'[PidOf[d]] = msq[PidOf[d]]  BY <1>7, PidsDiffer
    <3> QED  BY <3>1, <3>2, BoxSame
  <2> QED  BY <1>4, <2>1, <2>2
<1>9. \A d \in Clients : d # c => Same(d)
  BY <1>5, <1>8 DEF TypeInv, Same
<1>10. x.from = PidOf[c] /\ Asks(c, x)'
  BY <1>3, <1>4, <1>6, <1>8 DEF Asks
<1>11. /\ Plain(Append(old, x)) /\ Len(Append(old, x)) = Len(old) + 1
       /\ \A i \in 1 .. Len(old) : Append(old, x)[i] = old[i]
       /\ Append(old, x)[Len(old) + 1] = x
       /\ Len(old) \in Nat /\ DOMAIN old = 1 .. Len(old)
       /\ DOMAIN Append(old, x) = 1 .. Len(old) + 1
  <2>1. Plain(old)  BY DEF TypeInv
  <2>2. /\ Plain(Append(old, x)) /\ Len(Append(old, x)) = Len(old) + 1
        /\ \A i \in 1 .. Len(old) : Append(old, x)[i] = old[i]
        /\ Append(old, x)[Len(old) + 1] = x
    BY <2>1, PlainAppend
  <2> QED  BY <2>1, <2>2, PlainDomain DEF Plain
<1>12. \A i \in 1 .. Len(old) : old[i].from # PidOf[c]
  BY <1>11, <1>20 DEF CommandInv, SentBy
<1>21. PidInv'
  <2>1. \A d \in Clients : pc'[d] # "idle" => d = c \/ pc[d] # "idle"
    BY <1>5 DEF TypeInv
  <2>2. \A d \in Clients : pc'[d] # "idle" => PidOf[d] \notin Reserved
    BY <2>1, <1>20 DEF PidInv
  <2>3. \A d, e \in Clients :
          pc'[d] # "idle" /\ pc'[e] # "idle" /\ PidOf[d] = PidOf[e] => d = e
    BY <2>1, <1>20 DEF PidInv
  <2>4. ASSUME NEW d \in Clients, PidOf[d] \notin Reserved PROVE Free(d)'
    <3>1. Free(d)  BY <2>4 DEF PidInv
    <3>2. msq'[PidOf[d]] = msq[PidOf[d]]  BY <1>7, <2>4, TypesDiffer DEF Reserved
    <3>3. \A e \in Clients : pc[e] # "idle" => pc'[e] # "idle"  BY <1>5 DEF TypeInv
    <3> QED  BY <3>1, <3>2, <3>3 DEF Free
  <2> QED  BY <2>2, <2>3, <2>4 DEF PidInv
<1>13. ASSUME NEW i \in 1 .. Len(old) + 1, NEW y, y = Append(old, x)[i]
       PROVE  /\ \E d \in Clients : SentBy(d, y)'
              /\ \A d \in Clients : SentBy(d, y)' => Asks(d, y)'
              /\ \A j \in 1 .. Len(old) + 1 : y.from = Append(old, x)[j].from => i = j
  <2>1. CASE i = Len(old) + 1
    <3>1. y = x  BY <2>1, <1>11, <1>13
    <3>2. \A d \in Clients : SentBy(d, y)' => d = c
      BY <3>1, <1>6, <1>10, <1>21 DEF PidInv, SentBy
    <3>3. SentBy(c, y)'  BY <3>1, <1>6, <1>10 DEF SentBy
    <3>4. Asks(c, y)'  BY <3>1, <1>10
    <3> QED  BY <3>1, <3>2, <3>3, <3>4, <2>1, <1>10, <1>11, <1>12
  <2>2. CASE i \in 1 .. Len(old)
    <3>1. y = old[i] /\ i \in DOMAIN old  BY <2>2, <1>11, <1>13
    <3>2. ASSUME NEW d \in Clients, SentBy(d, y)'
          PROVE  Asks(d, y)'
      <4>1. d # c  BY <3>1, <3>2, <1>11, <1>12 DEF SentBy
      <4>2. Same(d)  BY <4>1, <1>9
      <4>3. Asks(d, y)  BY <3>1, <3>2, <4>2 DEF CommandInv, SentBy, Same
      <4> QED  BY <4>2, <4>3, SameKeeps
    <3>3. \E d \in Clients : SentBy(d, y)'
      <4>1. PICK d \in Clients : SentBy(d, y)  BY <3>1 DEF CommandInv
      <4>2. d # c  BY <1>19, <4>1 DEF SentBy
      <4> QED  BY <4>1, <4>2, <1>9 DEF SentBy, Same
    <3>4. \A j \in 1 .. Len(old) : y.from = old[j].from => i = j
      BY <3>1, <1>11 DEF CommandInv
    <3>5. y.from # x.from  BY <2>2, <3>1, <1>10, <1>12
    <3> QED  BY <3>2, <3>3, <3>4, <3>5, <1>11
  <2> QED  BY <2>1, <2>2, <1>11
<1>14. ASSUME NEW i \in DOMAIN msq'[MSQ_CMD]
       PROVE  /\ \E d \in Clients : SentBy(d, msq[MSQ_CMD][i])'
              /\ \A d \in Clients : SentBy(d, msq[MSQ_CMD][i])' => Asks(d, msq[MSQ_CMD][i])'
              /\ \A j \in DOMAIN msq'[MSQ_CMD] :
                   msq'[MSQ_CMD][i].from = msq'[MSQ_CMD][j].from => i = j
  <2>1. i \in 1 .. Len(old) + 1  BY <1>7, <1>11
  <2>2. PICK y : y = Append(old, x)[i]  OBVIOUS
  <2>3. msq'[MSQ_CMD][i] = y  BY <1>7, <2>2
  <2>4. /\ \E d \in Clients : SentBy(d, y)'
        /\ \A d \in Clients : SentBy(d, y)' => Asks(d, y)'
    BY <1>13, <2>1, <2>2
  <2>5. /\ \E d \in Clients : SentBy(d, msq[MSQ_CMD][i])'
        /\ \A d \in Clients : SentBy(d, msq[MSQ_CMD][i])' => Asks(d, msq[MSQ_CMD][i])'
    BY <2>3, <2>4 DEF SentBy, Asks, Call, Box, Inbox
  <2> QED  BY <1>7, <1>11, <1>13, <2>1, <2>2, <2>3, <2>5
<1>15. CommandInv'  BY <1>14 DEF CommandInv
<1>16. InboxInv'
  <2>1. InboxOf(c)'  BY <1>4, <1>6, <1>8 DEF InboxOf
  <2> QED  BY <2>1, <1>9, SameKeeps DEF InboxInv
<1>17. Replies'  BY <1>6, <1>9, SameKeeps DEF Replies
<1>18. TypeInv'
  <2>1. \A d \in Clients : calls'[d] > 0 => req'[d].sensor \in Sensors /\ req'[d].size \in Nat
    BY <1>2, <1>5, <1>6 DEF TypeInv
  <2> QED  BY <1>5, <1>6, <1>7, <1>11, <2>1 DEF TypeInv, server
<1> QED  BY <1>4, <1>7, <1>8, <1>9, <1>16, <1>17, <1>18, <1>15, <1>21

-----------------------------------------------------------------------------
(* The list and the segments.                                              *)

\* What client c is about to attach.
Offer(c) ==
  Box(c) # << >> /\ req[c].op \in {"create", "open"} =>
    LET k == Box(c)[1].suid IN k <= keys /\ (k > base => Held(req[c].sensor, k))

LEMMA SegmentsServed ==
  ASSUME TypeInv, SegmentInv, UNCHANGED <<att, base>>, keys' \in Nat, keys <= keys',
         \A s, k : Held(s, k) => Held(s, k)',
         InboxInv, \A d \in Clients : Offer(d)' \/ Same(d)
  PROVE  SegmentInv'
<1>1. ASSUME NEW d \in Clients, NEW s \in Sensors
      PROVE  att'[d][s] <= keys' /\ (att'[d][s] > base' => Held(s, att[d][s])')
  <2>1. PICK k \in Nat : k = att[d][s]  BY DEF TypeInv
  <2>2. k <= keys /\ (k > base => Held(s, k))  BY <2>1 DEF SegmentInv
  <2>3. k <= keys' /\ (k > base' => Held(s, k)')  BY <2>2 DEF TypeInv
  <2>4. att'[d][s] = k  BY <2>1
  <2> QED  BY <2>3, <2>4 DEF Held
<1>2. ASSUME NEW d \in Clients, Same(d) PROVE Offer(d)'
  <2>1. PICK k : k = Box(d)[1].suid  OBVIOUS
  <2>2. PICK s : s = req[d].sensor  OBVIOUS
  <2>3. Box(d)' = Box(d) /\ req'[d] = req[d]  BY <1>2 DEF Same
  <2>4. Box(d) # << >> => k \in Int  BY <2>1 DEF InboxInv, InboxOf, Answers
  <2>5. Box(d) # << >> /\ req[d].op \in {"create", "open"}
          => k <= keys /\ (k > base => Held(s, k))
    BY <2>1, <2>2 DEF SegmentInv
  <2>6. Box(d) # << >> /\ req[d].op \in {"create", "open"}
          => k <= keys' /\ (k > base' => Held(s, k)')
    BY <2>4, <2>5 DEF TypeInv
  <2> QED  BY <2>1, <2>2, <2>3, <2>6 DEF Offer, Held
<1> QED  BY <1>1, <1>2 DEF SegmentInv, Offer

LEMMA QueryKeeps ==
  ASSUME OwnInv, ListInv, SegmentInv, Serve, Query
  PROVE  OwnInv' /\ ListInv' /\ SegmentInv'
<1>1. PICK c \in Clients : Served(c) /\ \E m :
           /\ Box(c)' = <<m>> /\ ReplyTo(c, m) /\ m.content = << >>
           /\ req[c].op \notin {"create", "set", "get"}
           /\ req[c].op = "open" => m.suid = -1 \/ Held(req[c].sensor, m.suid)
  BY QueryAnswers DEF OwnInv
<1>2. PICK m : /\ Box(c)' = <<m>> /\ ReplyTo(c, m) /\ m.content = << >>
               /\ req[c].op \notin {"create", "set", "get"}
               /\ req[c].op = "open" => m.suid = -1 \/ Held(req[c].sensor, m.suid)
  BY <1>1
<1>3. Replied(c, Box(c)')  BY <1>2 DEF Replied
<1>4. /\ PidInv' /\ CommandInv' /\ Plain(msq'[MSQ_CMD]) /\ InboxInv' /\ Replies'
      /\ \A d \in Clients : d # c => Same(d)
  BY <1>1, <1>3, ServedOwn DEF OwnInv
<1>5. UNCHANGED <<server, misfit, client, latest>>  BY DEF Serve, Query
<1>6. TypeInv'  BY <1>1, <1>4, <1>5 DEF OwnInv, TypeInv, Served, server, client
<1>7. ListInv'  BY <1>5 DEF ListInv, server
<1>8. Offer(c)'
  <2>1. PICK s : s = req[c].sensor  OBVIOUS
  <2>2. PICK k : k = m.suid  OBVIOUS
  <2>3. Box(c)'[1].suid = k /\ req'[c] = req[c]  BY <1>2, <1>5, <2>2 DEF client
  <2>4. req[c].op = "open" => k = -1 \/ Held(s, k)  BY <1>2, <2>1, <2>2
  <2>5. req[c].op = "open" => k <= keys' /\ (k > base' => Held(s, k)')
    BY <2>4, <1>5 DEF Held, ListInv, TypeInv, OwnInv, server
  <2> QED  BY <2>1, <2>3, <2>5, <1>2 DEF Offer, Held
<1>9. SegmentInv'
  <2>1. \A s, k : Held(s, k) => Held(s, k)'  BY <1>5 DEF Held, server
  <2> QED  BY <1>4, <1>5, <1>8, <2>1, SegmentsServed DEF OwnInv, TypeInv, server, client
<1> QED  BY <1>4, <1>6, <1>7, <1>9 DEF OwnInv

LEMMA CreateKeeps ==
  ASSUME OwnInv, ListInv, SegmentInv, Serve, Create
  PROVE  OwnInv' /\ ListInv' /\ SegmentInv'
<1>1. PICK c \in Clients : Served(c) /\ \E m :
           /\ Box(c)' = <<m>> /\ ReplyTo(c, m) /\ m.content = << >>
           /\ req[c].op = "create"
           /\ \/ /\ UNCHANGED <<list, keys>> /\ Held(req[c].sensor, m.suid)
              \/ /\ \A i \in DOMAIN list : list[i].sensor # req[c].sensor
                 /\ list' = Append(list, [sensor |-> req[c].sensor, shm |-> keys + 1,
                                          psize |-> Unset, prop |-> << >>])
                 /\ keys' = keys + 1 /\ m.suid = keys + 1
  BY CreateAnswers DEF OwnInv
<1>2. PICK m :
           /\ Box(c)' = <<m>> /\ ReplyTo(c, m) /\ m.content = << >>
           /\ req[c].op = "create"
           /\ \/ /\ UNCHANGED <<list, keys>> /\ Held(req[c].sensor, m.suid)
              \/ /\ \A i \in DOMAIN list : list[i].sensor # req[c].sensor
                 /\ list' = Append(list, [sensor |-> req[c].sensor, shm |-> keys + 1,
                                          psize |-> Unset, prop |-> << >>])
                 /\ keys' = keys + 1 /\ m.suid = keys + 1
  BY <1>1
<1>3. Replied(c, Box(c)')  BY <1>2 DEF Replied
<1>4. /\ PidInv' /\ CommandInv' /\ Plain(msq'[MSQ_CMD]) /\ InboxInv' /\ Replies'
      /\ \A d \in Clients : d # c => Same(d)
  BY <1>1, <1>3, ServedOwn DEF OwnInv
<1>5. UNCHANGED <<base, spc, setting, res_id, restarts, misfit, client, latest>>
      /\ spc = "ready"
  BY DEF Serve, Create
<1> DEFINE s == req[c].sensor
           k == m.suid
<1>6. /\ Plain(list') /\ keys' \in Nat /\ keys <= keys'
      /\ \A i \in DOMAIN list' : /\ DOMAIN list'[i] = Fields
                                 /\ list'[i].sensor \in Sensors /\ list'[i].shm \in Nat
                                 /\ list'[i].psize \in Int
      /\ ListInv'
      /\ \A i \in DOMAIN list : i \in DOMAIN list' /\ list'[i] = list[i]
      /\ k <= keys' /\ \E i \in DOMAIN list' : list'[i].sensor = s /\ list'[i].shm = k
  <2>1. CASE UNCHANGED <<list, keys>> /\ Held(s, k)
    <3>1. \A i \in DOMAIN list : list[i].shm <= keys  BY DEF ListInv
    <3> QED  BY <2>1, <3>1, <1>5 DEF OwnInv, TypeInv, ListInv, Held
  <2>2. CASE /\ \A i \in DOMAIN list : list[i].sensor # s
             /\ list' = Append(list, [sensor |-> s, shm |-> keys + 1,
                                      psize |-> Unset, prop |-> << >>])
             /\ keys' = keys + 1 /\ k = keys + 1
    <3> DEFINE e == [sensor |-> s, shm |-> keys + 1, psize |-> Unset, prop |-> << >>]
               n == Len(list)
    <3>1. /\ e.sensor = s /\ e.shm = keys + 1 /\ e.psize = -1 /\ DOMAIN e = Fields
      BY DEF Fields, Unset
    <3>2. s \in Sensors  BY <1>1 DEF Served, Asks, OwnInv, TypeInv
    <3>3. list' = Append(list, e)  BY <2>2
    <3> HIDE DEF e, s, k
    <3>4. Plain(list) /\ n \in Nat /\ DOMAIN list = 1 .. n
      BY PlainDomain DEF OwnInv, TypeInv, Plain
    <3>5. /\ Plain(list') /\ DOMAIN list' = 1 .. n + 1 /\ list'[n + 1] = e
          /\ \A i \in 1 .. n : list'[i] = list[i]
      BY <3>3, <3>4, PlainAppend, PlainDomain
    <3> HIDE DEF n
    <3>6. /\ \A i \in DOMAIN list : i \in DOMAIN list' /\ list'[i] = list[i]
          /\ \A i \in DOMAIN list' : i \in DOMAIN list \/ (list'[i] = e /\ i = n + 1)
      BY <3>4, <3>5
    <3>7. keys \in Nat /\ base \in Nat /\ base <= keys
      BY DEF OwnInv, TypeInv, ListInv
    <3>8. \A i \in DOMAIN list : base < list[i].shm /\ list[i].shm <= keys /\ list[i].shm \in Nat
      BY DEF ListInv, OwnInv, TypeInv
    <3>9. \A i, j \in DOMAIN list' : list'[i].sensor = list'[j].sensor \/ list'[i].shm = list'[j].shm
            => i = j
      <4>1. \A i, j \in DOMAIN list : list[i].sensor = list[j].sensor \/ list[i].shm = list[j].shm
              => i = j
        BY DEF ListInv
      <4>2. \A i \in DOMAIN list : list[i].sensor # e.sensor /\ list[i].shm # e.shm
        BY <2>2, <3>1, <3>7, <3>8
      <4> QED  BY <3>6, <4>1, <4>2
    <3>10. \A i \in DOMAIN list' : base' < list'[i].shm /\ list'[i].shm <= keys'
      BY <1>5, <2>2, <3>1, <3>6, <3>7, <3>8
    <3>11. ListInv'  BY <1>5, <2>2, <3>7, <3>9, <3>10 DEF ListInv
    <3>12. \A i \in DOMAIN list' : /\ DOMAIN list'[i] = Fields
                                   /\ list'[i].sensor \in Sensors /\ list'[i].shm \in Nat
                                   /\ list'[i].psize \in Int
      BY <3>1, <3>2, <3>6, <3>7 DEF OwnInv, TypeInv
    <3>13. n + 1 \in DOMAIN list'  BY <3>4, <3>5
    <3> QED  BY <2>2, <3>1, <3>5, <3>6, <3>7, <3>11, <3>12, <3>13
  <2> QED  BY <1>2, <2>1, <2>2
<1>7. TypeInv'
  BY <1>1, <1>4, <1>5, <1>6 DEF OwnInv, TypeInv, Served, client
<1>8. Offer(c)'
  <2>1. Box(c)'[1].suid = k /\ req'[c].sensor = s  BY <1>2, <1>5 DEF client
  <2> QED  BY <1>6, <2>1 DEF Offer, Held
<1>9. \A x, y : Held(x, y) => Held(x, y)'  BY <1>6 DEF Held
<1>10. SegmentInv'
  BY <1>4, <1>5, <1>6, <1>8, <1>9, SegmentsServed DEF OwnInv, TypeInv, client
<1> QED  BY <1>4, <1>6, <1>7, <1>10 DEF OwnInv

\* Transfers leave sensors and segments alone.
LEMMA KeptList ==
  ASSUME TypeInv, ListInv, NEW i \in DOMAIN list, Kept(i), UNCHANGED <<keys, base>>
  PROVE  /\ ListInv' /\ \A s, k : Held(s, k) => Held(s, k)'
         /\ \A j \in DOMAIN list' :
              /\ DOMAIN list'[j] = Fields
              /\ list'[j].sensor = list[j].sensor /\ list'[j].shm = list[j].shm
<1>1. \A j \in DOMAIN list : /\ DOMAIN list'[j] = Fields
                             /\ list'[j].sensor = list[j].sensor /\ list'[j].shm = list[j].shm
  BY DEF Kept, TypeInv
<1>2. DOMAIN list' = DOMAIN list  BY DEF Kept
<1>3. ListInv'  BY <1>1, <1>2 DEF ListInv
<1>4. \A s, k : Held(s, k) => Held(s, k)'  BY <1>1, <1>2 DEF Held
<1> QED  BY <1>1, <1>2, <1>3, <1>4

LEMMA SetKeeps ==
  ASSUME OwnInv, ListInv, SegmentInv, Serve, PropertySet
  PROVE  OwnInv' /\ ListInv' /\ SegmentInv'
<1> DEFINE Room(c, i) == IF list[i].psize = Unset THEN req[c].size ELSE list[i].psize
           Refused(m) == m.ssize = 0 /\ UNCHANGED <<list, spc, setting, res_id, misfit>>
           Typed == /\ Plain(list')
                    /\ \A i \in DOMAIN list' :
                         /\ DOMAIN list'[i] = Fields
                         /\ list'[i].sensor \in Sensors /\ list'[i].shm \in Nat
                         /\ list'[i].psize \in Int
                    /\ spc' \in {"ready", "data"} /\ res_id' \in ResIds
                    /\ spc' = "data" => setting' \in DOMAIN list'
                    /\ misfit' \in BOOLEAN
           Begun(c, i) == /\ i \in DOMAIN list /\ Kept(i) /\ list'[i].psize = Room(c, i)
                          /\ spc' = "data" /\ setting' = i /\ res_id' \in ResIds
                          /\ misfit' = (misfit \/ Room(c, i) = 0 \/ req[c].size # Room(c, i))
<1>1. PICK c \in Clients : Served(c) /\ req[c].op = "set" /\ \E m :
           /\ Box(c)' = <<m>> /\ ReplyTo(c, m)
           /\ Refused(m) \/ \E i : Begun(c, i)
  BY SetAnswers DEF OwnInv
<1>2. PICK m : /\ Box(c)' = <<m>> /\ ReplyTo(c, m)
               /\ Refused(m) \/ \E i : Begun(c, i)
  BY <1>1
<1>3. Replied(c, Box(c)')  BY <1>1, <1>2 DEF Replied
<1>4. /\ PidInv' /\ CommandInv' /\ Plain(msq'[MSQ_CMD]) /\ InboxInv' /\ Replies'
      /\ \A d \in Clients : d # c => Same(d)
  BY <1>1, <1>3, ServedOwn DEF OwnInv
<1>5. UNCHANGED <<keys, base, restarts, client, latest>>  BY DEF Serve, PropertySet
<1>6. Offer(c)'  BY <1>1, <1>5 DEF Offer, client
<1>7. Typed /\ ListInv' /\ \A s, k : Held(s, k) => Held(s, k)'
  <2>1. CASE Refused(m)
    BY <2>1, <1>5 DEF OwnInv, TypeInv, ListInv, Held
  <2>2. ASSUME NEW i, Begun(c, i)
        PROVE  Typed /\ ListInv' /\ \A s, k : Held(s, k) => Held(s, k)'
    <3>1. Room(c, i) \in Int
      BY <1>1, <2>2 DEF Served, Asks, OwnInv, TypeInv
    <3>2. /\ ListInv' /\ \A s, k : Held(s, k) => Held(s, k)'
          /\ \A j \in DOMAIN list' :
               /\ DOMAIN list'[j] = Fields
               /\ list'[j].sensor = list[j].sensor /\ list'[j].shm = list[j].shm
      BY <2>2, <1>5, KeptList DEF OwnInv
    <3> HIDE DEF Room
    <3>3. \A j \in DOMAIN list' : list'[j].sensor \in Sensors /\ list'[j].shm \in Nat
                                  /\ list'[j].psize \in Int
      BY <2>2, <3>1, <3>2 DEF Kept, OwnInv, TypeInv
    <3> QED  BY <2>2, <3>2, <3>3 DEF Kept, OwnInv, TypeInv
  <2> QED  BY <1>2, <2>1, <2>2
<1>8. TypeInv'
  BY <1>1, <1>4, <1>5, <1>7 DEF OwnInv, TypeInv, Served, client
<1>9. SegmentInv'
  BY <1>4, <1>5, <1>6, <1>7, SegmentsServed DEF OwnInv, TypeInv, client
<1> QED  BY <1>4, <1>7, <1>8, <1>9 DEF OwnInv

LEMMA GetKeeps ==
  ASSUME OwnInv, ListInv, SegmentInv, Serve, PropertyGet
  PROVE  OwnInv' /\ ListInv' /\ SegmentInv'
<1>1. PICK c \in Clients : Served(c) /\ req[c].op = "get" /\
           \/ \E m : Box(c)' = <<m>> /\ ReplyTo(c, m) /\ m.content = << >> /\ m.ssize = 0
           \/ \E m, n : \E i \in DOMAIN list :
                /\ Box(c)' = <<m, n>> /\ ReplyTo(c, m) /\ ReplyTo(c, n) /\ m.ssize # 0
                /\ m.content = << >> /\ n.content = list[i].prop
                /\ list[i].sensor = req[c].sensor
  BY GetAnswers DEF OwnInv
<1>2. Replied(c, Box(c)')  BY <1>1 DEF Replied
<1>3. /\ PidInv' /\ CommandInv' /\ Plain(msq'[MSQ_CMD]) /\ InboxInv' /\ Replies'
      /\ \A d \in Clients : d # c => Same(d)
  BY <1>1, <1>2, ServedOwn DEF OwnInv
<1>4. UNCHANGED <<server, misfit, client, latest>>  BY DEF Serve, PropertyGet
<1>5. TypeInv'  BY <1>1, <1>3, <1>4 DEF OwnInv, TypeInv, Served, server, client
<1>6. ListInv'  BY <1>4 DEF ListInv, server
<1>7. Offer(c)'  BY <1>1, <1>4 DEF Offer, client
<1>8. \A s, k : Held(s, k) => Held(s, k)'  BY <1>4 DEF Held, server
<1>9. SegmentInv'
  BY <1>3, <1>4, <1>7, <1>8, SegmentsServed DEF OwnInv, TypeInv, server, client
<1> QED  BY <1>3, <1>5, <1>6, <1>9 DEF OwnInv

LEMMA AllSame ==
  ASSUME InboxInv, Replies, \A d \in Clients : Same(d)
  PROVE  InboxInv' /\ Replies'
BY SameKeeps DEF InboxInv, Replies

\* What the data make of the list.
LEMMA DataStored ==
  ASSUME TypeInv, TakeData
  PROVE  /\ setting \in DOMAIN list /\ res_id \in ResIds
         /\ list' = list \/ (Kept(setting) /\ list'[setting].psize = list[setting].psize)
<1>1. setting \in DOMAIN list /\ res_id \in ResIds  BY DEF TypeInv, TakeData
<1>2. ASSUME NEW x, list' = [list EXCEPT ![setting].prop = x]
      PROVE  Kept(setting) /\ list'[setting].psize = list[setting].psize
  <2>1. DOMAIN list[setting] = Fields /\ Plain(list)  BY <1>1 DEF TypeInv
  <2> DEFINE e == [list[setting] EXCEPT !.prop = x]
  <2>2. list' = [list EXCEPT ![setting] = e]  BY <1>2
  <2>3. /\ e.psize = list[setting].psize /\ e.sensor = list[setting].sensor
        /\ e.shm = list[setting].shm /\ DOMAIN e = Fields
    BY <2>1 DEF Fields
  <2> HIDE DEF e
  <2>4. /\ Plain(list') /\ DOMAIN list' = DOMAIN list /\ list'[setting] = e
        /\ \A j \in DOMAIN list : j # setting => list'[j] = list[j]
    BY <1>1, <2>1, <2>2, PlainExcept
  <2> QED  BY <2>3, <2>4 DEF Kept
<1>3. \/ list' = list
      \/ \E x : list' = [list EXCEPT ![setting].prop = x]
  BY DEF TakeData
<1> QED  BY <1>1, <1>2, <1>3

LEMMA TakeDataKeeps ==
  ASSUME OwnInv, ListInv, SegmentInv, TakeData
  PROVE  OwnInv' /\ ListInv' /\ SegmentInv'
<1>1. /\ setting \in DOMAIN list /\ res_id \in ResIds
      /\ list' = list \/ (Kept(setting) /\ list'[setting].psize = list[setting].psize)
  BY DataStored DEF OwnInv
<1>2. spc' = "ready" /\ UNCHANGED <<keys, base, setting, res_id, restarts, client, latest, misfit>>
  BY DEF TakeData
<1>3. DOMAIN msq' = Types /\ \A t \in Types : t # res_id => msq'[t] = msq[t]
  BY <1>1 DEF TakeData, OwnInv, TypeInv
<1>4. \A d \in Clients : Same(d)
  <2>1. ASSUME NEW d \in Clients PROVE Box(d)' = Box(d)
    <3>1. pc[d] # "idle" => msq'[PidOf[d]] = msq[PidOf[d]]
      BY <1>1, <1>3, PidsDiffer DEF OwnInv
    <3> QED  BY <1>2, <3>1, BoxSame DEF client
  <2> QED  BY <1>2, <2>1 DEF Same, client
<1>11. PidInv'
  <2>1. \A d \in Clients : PidOf[d] \notin Reserved => msq'[PidOf[d]] = msq[PidOf[d]]
    BY <1>1, <1>3, TypesDiffer DEF Reserved
  <2> QED  BY <1>2, <2>1, PidKept DEF OwnInv, client
<1>5. msq'[MSQ_CMD] = msq[MSQ_CMD]  BY <1>1, <1>3, TypesDiffer
<1>6. CommandInv' /\ Plain(msq'[MSQ_CMD])
  BY <1>4, <1>5, CommandsKept DEF OwnInv
<1>7. InboxInv' /\ Replies'  BY <1>4, AllSame DEF OwnInv
<1>8. /\ Plain(list') /\ ListInv' /\ \A s, k : Held(s, k) => Held(s, k)'
      /\ \A i \in DOMAIN list' :
           /\ DOMAIN list'[i] = Fields
           /\ list'[i].sensor \in Sensors /\ list'[i].shm \in Nat /\ list'[i].psize \in Int
  <2>1. CASE list' = list
    BY <2>1, <1>2 DEF OwnInv, TypeInv, ListInv, Held
  <2>2. CASE Kept(setting) /\ list'[setting].psize = list[setting].psize
    <3>1. /\ ListInv' /\ \A s, k : Held(s, k) => Held(s, k)'
          /\ \A j \in DOMAIN list' :
               /\ DOMAIN list'[j] = Fields
               /\ list'[j].sensor = list[j].sensor /\ list'[j].shm = list[j].shm
      BY <2>2, <1>1, <1>2, KeptList DEF OwnInv
    <3> QED  BY <2>2, <3>1 DEF Kept, OwnInv, TypeInv
  <2> QED  BY <1>1, <2>1, <2>2
<1>9. TypeInv'
  BY <1>2, <1>3, <1>6, <1>8 DEF OwnInv, TypeInv, client
<1>10. SegmentInv'
  BY <1>2, <1>4, <1>8, SegmentsServed DEF OwnInv, TypeInv, client
<1> QED  BY <1>6, <1>7, <1>8, <1>9, <1>10, <1>11 DEF OwnInv

\* What is left of the command that the server had taken when it was killed.
LEMMA KilledAnswers ==
  ASSUME TypeInv, PidInv, ListInv, CommandInv, Restart
  PROVE  \/ UNCHANGED msq
         \/ msq[MSQ_CMD] # << >> /\ msq' = [msq EXCEPT ![MSQ_CMD] = Tail(@)]
         \/ \E c \in Clients : Served(c) /\ req[c].op = "get" /\ Replied(c, Box(c)')
<1> DEFINE i == Search(Command.sensor)
           m == Reply(0, list[i].psize)
<1>1. SUFFICES ASSUME /\ msq[MSQ_CMD] # << >> /\ Command.op = "get"
                      /\ i # 0 /\ Answer(<<m>>)
               PROVE  \E c \in Clients : Served(c) /\ req[c].op = "get" /\ Replied(c, Box(c)')
  BY DEF Restart
<1>2. UNCHANGED <<client, latest>>  BY DEF Restart
<1> HIDE DEF m
<1>3. PICK c \in Clients : Served(c) /\ Box(c)' = << >> \o <<m>>
  BY <1>1, <1>2, ServedBy
<1>4. Box(c)' = <<m>>  BY <1>3, OneReply
<1>5. Command.call = Call(c) /\ Command.op = req[c].op  BY <1>3 DEF Served, Asks
<1>6. i \in DOMAIN list  BY <1>1, SearchFinds
<1>7. list[i].psize \in Int  BY <1>6 DEF TypeInv
<1>8. m.call = Command.call /\ m.suid = 0 /\ m.ssize = list[i].psize  BY DEF m, Reply
<1>9. ReplyTo(c, m)  BY <1>1, <1>5, <1>7, <1>8 DEF ReplyTo
<1> QED  BY <1>1, <1>3, <1>4, <1>5, <1>9 DEF Replied

LEMMA RestartKeeps ==
  ASSUME OwnInv, ListInv, SegmentInv, Restart
  PROVE  OwnInv' /\ ListInv' /\ SegmentInv'
<1>1. /\ list' = << >> /\ keys' = keys + 1 /\ base' = keys + 1 /\ spc' = "ready"
      /\ res_id' = MSQ_RES /\ UNCHANGED <<client, latest>> /\ misfit' \in BOOLEAN
  BY DEF Restart, OwnInv, TypeInv
<1>2. /\ DOMAIN msq' = Types /\ Plain(msq'[MSQ_CMD])
      /\ PidInv' /\ CommandInv' /\ InboxInv' /\ Replies'
      /\ \A d \in Clients : Same(d) \/ req[d].op = "get"
  <2>1. CASE /\ DOMAIN msq' = Types /\ \A t \in Types : t # MSQ_CMD => msq'[t] = msq[t]
             /\ \/ msq'[MSQ_CMD] = msq[MSQ_CMD]
                \/ msq[MSQ_CMD] # << >> /\ msq'[MSQ_CMD] = Tail(msq[MSQ_CMD])
    <3>1. ASSUME NEW d \in Clients PROVE Same(d)
      <4>1. pc[d] # "idle" => msq'[PidOf[d]] = msq[PidOf[d]]
        BY <2>1, PidsDiffer DEF OwnInv
      <4>2. Box(d)' = Box(d)  BY <1>1, <4>1, BoxSame DEF client
      <4> QED  BY <1>1, <4>2 DEF Same, client
    <3>2. PidInv'
      <4>1. \A d \in Clients : PidOf[d] \notin Reserved => msq'[PidOf[d]] = msq[PidOf[d]]
        BY <2>1, TypesDiffer DEF Reserved
      <4> QED  BY <1>1, <4>1, PidKept DEF OwnInv, client
    <3>3. CommandInv' /\ Plain(msq'[MSQ_CMD])
      <4>1. \A d \in Clients : pc'[d] = pc[d]  BY <1>1 DEF client
      <4> QED  BY <2>1, <3>1, <4>1, CommandsKept, CommandsTail DEF OwnInv
    <3>4. InboxInv' /\ Replies'  BY <3>1, AllSame DEF OwnInv
    <3> QED  BY <2>1, <3>1, <3>2, <3>3, <3>4
  <2>2. CASE \E c \in Clients : Served(c) /\ req[c].op = "get" /\ Replied(c, Box(c)')
    <3>1. PICK c \in Clients : Served(c) /\ req[c].op = "get" /\ Replied(c, Box(c)')
      BY <2>2
    <3>2. /\ PidInv' /\ CommandInv' /\ Plain(msq'[MSQ_CMD]) /\ InboxInv' /\ Replies'
          /\ \A d \in Clients : d # c => Same(d)
      BY <3>1, ServedOwn DEF OwnInv
    <3> QED  BY <3>1, <3>2 DEF Served
  <2> QED  BY <2>1, <2>2, KilledAnswers, TypesDiffer DEF OwnInv, TypeInv
<1>6. Plain(list') /\ DOMAIN list' = {}
  <2>1. << >> \in Seq({}) /\ Len(<< >>) = 0  OBVIOUS
  <2>2. Plain(<< >>)  BY <2>1, SeqIsPlain
  <2>3. DOMAIN << >> = 1 .. 0  BY <2>1, <2>2, PlainDomain
  <2> QED  BY <1>1, <2>2, <2>3
<1>7. keys' \in Nat /\ base' \in Nat /\ keys < base'  BY <1>1 DEF OwnInv, TypeInv
<1>8. TypeInv'
  BY <1>1, <1>2, <1>6, <1>7, TypesDiffer DEF OwnInv, TypeInv, client
<1>9. ListInv'  BY <1>1, <1>6, <1>7 DEF ListInv
<1>10. ASSUME NEW c \in Clients
       PROVE  /\ \A s \in Sensors : att'[c][s] <= keys' /\ ~(att'[c][s] > base')
              /\ Box(c)' # << >> /\ req'[c].op \in {"create", "open"} =>
                   Box(c)'[1].suid <= keys' /\ ~(Box(c)'[1].suid > base')
  <2>1. ASSUME NEW s \in Sensors PROVE att'[c][s] <= keys' /\ ~(att'[c][s] > base')
    <3>1. PICK k \in Nat : k = att[c][s]  BY DEF OwnInv, TypeInv
    <3>2. k <= keys  BY <3>1 DEF SegmentInv
    <3>3. att'[c][s] = k  BY <1>1, <3>1 DEF client
    <3> QED  BY <1>1, <3>2, <3>3 DEF OwnInv, TypeInv
  <2>2. ASSUME Box(c)' # << >>, req'[c].op \in {"create", "open"}
        PROVE  Box(c)'[1].suid <= keys' /\ ~(Box(c)'[1].suid > base')
    <3>1. PICK k : k = Box(c)[1].suid  OBVIOUS
    <3>2. Box(c)' = Box(c) /\ req'[c] = req[c]  BY <1>1, <1>2, <2>2 DEF Same, client
    <3>3. k \in Int /\ k <= keys
      BY <2>2, <3>1, <3>2 DEF SegmentInv, OwnInv, InboxInv, InboxOf, Answers
    <3>4. Box(c)'[1].suid = k  BY <3>1, <3>2
    <3> QED  BY <1>1, <3>3, <3>4 DEF OwnInv, TypeInv
  <2> QED  BY <2>1, <2>2
<1>11. SegmentInv'  BY <1>10 DEF SegmentInv
<1> QED  BY <1>2, <1>8, <1>9, <1>11 DEF OwnInv

LEMMA RequestKeeps ==
  ASSUME OwnInv, ListInv, SegmentInv, NEW c \in Clients, NEW q \in Requests, Request(c, q),
         ~mixed'
  PROVE  OwnInv' /\ ListInv' /\ SegmentInv'
<1>1. /\ OwnInv' /\ Box(c)' = << >> /\ \A d \in Clients : d # c => Same(d)
  BY RequestOwn DEF OwnInv
<1>2. UNCHANGED <<server, att>>  BY DEF Request
<1>3. ListInv'  BY <1>2 DEF ListInv, server
<1>4. Offer(c)'  BY <1>1 DEF Offer
<1>5. SegmentInv'
  BY <1>1, <1>2, <1>4, SegmentsServed DEF OwnInv, TypeInv, server, Held
<1> QED  BY <1>1, <1>3, <1>5

LEMMA ReplyKeeps ==
  ASSUME OwnInv, ListInv, SegmentInv, NEW c \in Clients, ReceiveReply(c) \/ Collect(c)
  PROVE  OwnInv' /\ ListInv' /\ SegmentInv'
<1>1. Taken(c)  BY ReplyTaken DEF OwnInv
<1>2. CommandInv' /\ Plain(msq'[MSQ_CMD]) /\ InboxInv' /\ Replies'
  BY <1>1, TakenOwn DEF OwnInv
<1>3. UNCHANGED <<server, misfit>>  BY DEF ReceiveReply, Collect
<1> DEFINE m == Box(c)[1]
<1>4. Head(Inbox(c)) = m /\ m.suid \in Int /\ calls[c] > 0 /\ Box(c) # << >>
  <2>1. InboxOf(c) /\ pc[c] \in {"waiting", "collect"} /\ Inbox(c) # << >>
    BY DEF OwnInv, InboxInv, ReceiveReply, Collect
  <2>2. Box(c) = Inbox(c)  BY <2>1, PidsDiffer DEF OwnInv
  <2> QED  BY <2>1, <2>2, TakeFirst DEF Answers
<1>5. req[c].sensor \in Sensors  BY <1>4 DEF OwnInv, TypeInv
<1>6. \/ att' = att
      \/ /\ req[c].op \in {"create", "open"} /\ m.suid >= 0
         /\ att' = [att EXCEPT ![c][req[c].sensor] = m.suid]
  <2>1. CASE Attach(c)
    <3>1. /\ req[c].op \in {"create", "open"}
          /\ att' = IF m.suid < 0 THEN att ELSE [att EXCEPT ![c][req[c].sensor] = m.suid]
      BY <2>1, <1>4 DEF Attach
    <3>2. m.suid < 0 \/ m.suid >= 0  BY <1>4
    <3> QED  BY <3>1, <3>2
  <2>2. CASE ~Attach(c)
    <3>1. att' = att  BY <2>2 DEF ReceiveReply, Collect, SendProperty, LearnSize, Learn
    <3> QED  BY <3>1
  <2> QED  BY <2>1, <2>2
<1>7. att' \in [Clients -> [Sensors -> Nat]]
  <2>1. CASE att' = att
    BY <2>1 DEF OwnInv, TypeInv
  <2>2. CASE att' = [att EXCEPT ![c][req[c].sensor] = m.suid] /\ m.suid >= 0
    <3>1. m.suid \in Nat  BY <2>2, <1>4
    <3>2. att \in [Clients -> [Sensors -> Nat]]  BY DEF OwnInv, TypeInv
    <3> HIDE DEF m
    <3> QED  BY <2>2, <3>1, <3>2, <1>5
  <2> QED  BY <1>6, <2>1, <2>2
<1>8. DOMAIN latest' = Sensors
  BY DEF ReceiveReply, Collect, Attach, SendProperty, LearnSize, Learn, OwnInv, TypeInv
<1>9. TypeInv'
  BY <1>1, <1>2, <1>3, <1>7, <1>8 DEF OwnInv, TypeInv, Taken, server
<1>10. ListInv'  BY <1>3 DEF ListInv, server
<1>11. \A s, k : Held(s, k) => Held(s, k)'  BY <1>3 DEF Held, server
<1>12. ASSUME NEW d \in Clients, NEW s \in Sensors
       PROVE  att'[d][s] <= keys' /\ (att'[d][s] > base' => Held(s, att[d][s])')
  <2>1. PICK k : k = att'[d][s]  OBVIOUS
  <2>2. k = att[d][s] \/ (/\ s = req[c].sensor /\ k = m.suid
                          /\ req[c].op \in {"create", "open"})
    BY <1>5, <1>6, <2>1 DEF OwnInv, TypeInv
  <2>3. k <= keys /\ (k > base => Held(s, k))
    BY <1>4, <2>2 DEF SegmentInv
  <2>4. k <= keys' /\ (k > base' => Held(s, k)')  BY <1>3, <1>11, <2>3 DEF server
  <2> QED  BY <2>1, <2>4 DEF Held
<1>13. ASSUME NEW d \in Clients PROVE Offer(d)'
  <2>1. CASE d # c
    <3>1. Same(d)  BY <1>1, <2>1 DEF Taken
    <3>2. Offer(d)  BY DEF SegmentInv, Offer
    <3> QED  BY <3>1, <3>2, <1>3, <1>11 DEF Offer, Same, server, Held
  <2>2. CASE d = c
    BY <1>1, <2>2 DEF Offer, Taken
  <2> QED  BY <2>1, <2>2
<1>14. SegmentInv'  BY <1>12, <1>13 DEF SegmentInv, Offer
<1>15. PidInv'  BY <1>1 DEF Taken
<1> QED  BY <1>2, <1>9, <1>10, <1>14, <1>15 DEF OwnInv

LEMMA DieKeeps ==
  ASSUME OwnInv, ListInv, SegmentInv, NEW c \in Clients, Die(c)
  PROVE  OwnInv' /\ ListInv' /\ SegmentInv'
<1>1. /\ pc[c] \in {"waiting", "collect"} /\ pc'[c] = "dead"
      /\ pc' \in [Clients -> {"idle", "waiting", "collect", "dead"}]
      /\ \A d \in Clients : d # c => pc'[d] = pc[d]
      /\ UNCHANGED <<msq, server, req, calls, result, att, latest, misfit>>
  BY DEF Die, OwnInv, TypeInv
<1>2. TypeInv'  BY <1>1 DEF OwnInv, TypeInv, server
<1>8. \A d \in Clients : (pc'[d] # "idle" <=> pc[d] # "idle") /\ Box(d)' = Box(d)
  BY <1>1 DEF Box, Inbox
<1>9. PidInv'  BY <1>1, <1>8, PidKept DEF OwnInv
<1>3. CommandInv'
  <2>1. ASSUME NEW i \in DOMAIN msq[MSQ_CMD], NEW d \in Clients,
               SentBy(d, msq[MSQ_CMD][i])'
        PROVE  Asks(d, msq[MSQ_CMD][i])'
    <3>1. Asks(d, msq[MSQ_CMD][i])
      BY <1>1, <1>8, <2>1 DEF OwnInv, CommandInv, SentBy
    <3> QED  BY <3>1, <1>1, <1>8 DEF Asks, Call
  <2>2. ASSUME NEW i \in DOMAIN msq[MSQ_CMD]
        PROVE  \E d \in Clients : SentBy(d, msq[MSQ_CMD][i])'
    <3>1. PICK d \in Clients : SentBy(d, msq[MSQ_CMD][i])
      BY <2>2 DEF OwnInv, CommandInv
    <3> QED  BY <1>1, <1>8, <3>1 DEF SentBy
  <2>3. msq' = msq  BY <1>1
  <2> QED  BY <2>1, <2>2, <2>3 DEF OwnInv, CommandInv
<1>4. ASSUME NEW d \in Clients PROVE InboxOf(d)'
  <2>1. InboxOf(d)  BY DEF OwnInv, InboxInv
  <2>2. Box(d)' = Box(d) /\ Call(d)' = Call(d) /\ req'[d] = req[d] /\ calls'[d] = calls[d]
    BY <1>1, <1>8 DEF Call
  <2> QED  BY <1>1, <2>1, <2>2 DEF InboxOf, Answers
<1>5. Replies'  BY <1>1 DEF OwnInv, Replies, Call
<1>6. ListInv'  BY <1>1 DEF ListInv, server
<1>7. SegmentInv'  BY <1>1, <1>8 DEF SegmentInv, server, Held
<1> QED  BY <1>2, <1>3, <1>4, <1>5, <1>6, <1>7, <1>9 DEF OwnInv, InboxInv

LEMMA StepKeeps ==
  ASSUME OwnInv, ListInv, SegmentInv, [Next]_vars, ~mixed'
  PROVE  OwnInv' /\ ListInv' /\ SegmentInv'
<1>1. CASE Serve
  BY <1>1, QueryKeeps, CreateKeeps, SetKeeps, GetKeeps DEF Serve
<1>2. CASE TakeData  BY <1>2, TakeDataKeeps
<1>3. CASE Restart  BY <1>3, RestartKeeps
<1>4. ASSUME NEW c \in Clients,
             (\E q \in Requests : Request(c, q)) \/ ReceiveReply(c) \/ Collect(c) \/ Die(c)
      PROVE  OwnInv' /\ ListInv' /\ SegmentInv'
  BY <1>4, RequestKeeps, ReplyKeeps, DieKeeps
<1>5. CASE UNCHANGED vars
  <2>1. OwnInv'
    <3>1. TypeInv'  BY <1>5 DEF OwnInv, TypeInv, vars, server, client
    <3>2. \A d \in Clients : Same(d)  BY <1>5 DEF Same, Box, Inbox, vars, client
    <3>3. CommandInv'  BY <1>5, <3>2, CommandsKept DEF OwnInv, vars
    <3>4. PidInv'  BY <1>5, PidKept DEF OwnInv, vars, client
    <3> QED  BY <3>1, <3>2, <3>3, <3>4, AllSame DEF OwnInv
  <2>2. ListInv' /\ SegmentInv'
    BY <1>5 DEF ListInv, SegmentInv, Held, Box, Inbox, vars, server, client
  <2> QED  BY <2>1, <2>2
<1> QED  BY <1>1, <1>2, <1>3, <1>4, <1>5 DEF Next

-----------------------------------------------------------------------------
(* Properties are kept.                                                    *)

\* Client d is, or was, not told where to send data; or nothing of it changes.
Quiet(d) ==
  \/ ~Told(d) /\ ~Told(d)'
  \/ req'[d] = req[d] /\ Box(d)' = Box(d)

LEMMA PropertiesSame ==
  ASSUME PropertyInv, ~misfit, UNCHANGED <<list, spc, setting, res_id, latest>>,
         \A r \in ResIds : msq'[r] = msq[r],
         \A d \in Clients : Quiet(d) /\ ContentOf(d)', res_id \in ResIds
  PROVE  PropertyInv'
<1>1. \A d \in Clients : Told(d)' => Told(d) /\ req'[d] = req[d] /\ Box(d)' = Box(d)
  BY DEF Quiet, Told
<1>2. Idle => Idle'  BY <1>1 DEF Idle
<1>3. Unsent => Unsent'
  <2>1. SUFFICES ASSUME Unsent PROVE Unsent'  OBVIOUS
  <2>2. \A c, d \in Clients : Told(c)' /\ Told(d)' => c = d  BY <1>1, <2>1 DEF Unsent
  <2>3. ASSUME NEW c \in Clients, Told(c)'
        PROVE  LET m == Box(c)'[1]
               IN  /\ m.res = res_id'
                   /\ req'[c].size = list'[setting'].psize
                   /\ req'[c].sensor = list'[setting'].sensor
    BY <1>1, <2>1, <2>3 DEF Unsent
  <2>4. \A r \in ResIds : msq'[r] = << >>  BY <2>1 DEF Unsent
  <2> QED  BY <2>2, <2>3, <2>4 DEF Unsent
<1>4. SentData => SentData'
  <2>1. SUFFICES ASSUME SentData PROVE SentData'  OBVIOUS
  <2>2. \A c \in Clients : ~Told(c)'  BY <1>1, <2>1 DEF SentData
  <2>3. PICK q : q = msq[res_id]  OBVIOUS
  <2>4. msq'[res_id'] = q  BY <2>3
  <2> QED  BY <2>1, <2>2, <2>3, <2>4 DEF SentData
<1>5. RoomInv'  BY DEF PropertyInv, RoomInv
<1>6. ContentInv'  BY DEF ContentInv
<1> QED  BY <1>2, <1>3, <1>4, <1>5, <1>6 DEF PropertyInv

LEMMA ContentSame ==
  ASSUME NEW d, ContentOf(d), req'[d] = req[d], Box(d)' = Box(d), result'[d] = result[d]
  PROVE  ContentOf(d)'
BY DEF ContentOf, WholeFor

LEMMA NoContent == \A s : WholeFor(s, << >>)
BY DEF WholeFor

\* Who is not served finds what was there.
LEMMA ServedBoxes ==
  ASSUME PidInv, NEW c \in Clients, Served(c)
  PROVE  \A d \in Clients : d # c => Box(d)' = Box(d)
<1>1. pc' = pc /\ pc[c] # "idle" /\ \A t \in Types : t # MSQ_CMD /\ t # PidOf[c] => msq'[t] = msq[t]
  BY DEF Served, client, Asks
<1>2. ASSUME NEW d \in Clients, d # c, pc[d] # "idle" PROVE msq'[PidOf[d]] = msq[PidOf[d]]
  BY <1>1, <1>2, PidsDiffer
<1> QED  BY <1>1, <1>2, BoxSame

\* What a served client finds, when it asked for nothing but one reply.
LEMMA ContentOfOne ==
  ASSUME NEW c, NEW m, Box(c)' = <<m>>, m.content = << >>, ContentOf(c), result'[c] = result[c]
  PROVE  ContentOf(c)'
<1>1. DOMAIN Box(c)' = {1} /\ Box(c)'[1] = m  OBVIOUS
<1> QED  BY <1>1, NoContent DEF ContentOf, WholeFor

LEMMA QueryProperty ==
  ASSUME OwnInv, ListInv, PropertyInv, Serve, Query
  PROVE  PropertyInv'
<1>1. SUFFICES ASSUME ~misfit' PROVE PropertyInv'  BY DEF PropertyInv
<1>2. PICK c \in Clients : Served(c) /\ \E m :
           /\ Box(c)' = <<m>> /\ ReplyTo(c, m) /\ m.content = << >>
           /\ req[c].op \notin {"create", "set", "get"}
           /\ req[c].op = "open" => m.suid = -1 \/ Held(req[c].sensor, m.suid)
  BY QueryAnswers DEF OwnInv
<1>3. PICK m : Box(c)' = <<m>> /\ m.content = << >> /\ req[c].op # "set"  BY <1>2
<1>4. UNCHANGED <<server, misfit, client, latest>>  BY DEF Serve, Query
<1>5. \A d \in Clients : ContentOf(d)  BY <1>1, <1>4 DEF PropertyInv, ContentInv
<1>6. \A t \in Types : t # MSQ_CMD /\ t # PidOf[c] => msq'[t] = msq[t]  BY <1>2 DEF Served
<1>7. \A r \in ResIds : msq'[r] = msq[r]
  BY <1>2, <1>6, TypesDiffer, PidsDiffer DEF Served, Asks, OwnInv
<1>8. \A d \in Clients : d # c => Box(d)' = Box(d)
  BY <1>2, ServedBoxes DEF OwnInv
<1>9. \A d \in Clients : Quiet(d)
  <2>1. Quiet(c)  BY <1>3, <1>4 DEF Quiet, Told, client
  <2> QED  BY <2>1, <1>4, <1>8 DEF Quiet, client
<1>10. \A d \in Clients : ContentOf(d)'
  <2>1. ContentOf(c)'  BY <1>3, <1>4, <1>5, ContentOfOne DEF client
  <2> QED  BY <2>1, <1>4, <1>5, <1>8, ContentSame DEF client
<1> QED  BY <1>1, <1>4, <1>7, <1>9, <1>10, PropertiesSame DEF OwnInv, TypeInv, server

LEMMA CreateProperty ==
  ASSUME OwnInv, ListInv, PropertyInv, Serve, Create
  PROVE  PropertyInv'
<1>1. SUFFICES ASSUME ~misfit' PROVE PropertyInv'  BY DEF PropertyInv
<1>2. PICK c \in Clients : Served(c) /\ \E m :
           /\ Box(c)' = <<m>> /\ ReplyTo(c, m) /\ m.content = << >>
           /\ req[c].op = "create"
           /\ \/ /\ UNCHANGED <<list, keys>> /\ Held(req[c].sensor, m.suid)
              \/ /\ \A i \in DOMAIN list : list[i].sensor # req[c].sensor
                 /\ list' = Append(list, [sensor |-> req[c].sensor, shm |-> keys + 1,
                                          psize |-> Unset, prop |-> << >>])
                 /\ keys' = keys + 1 /\ m.suid = keys + 1
  BY CreateAnswers DEF OwnInv
<1> DEFINE e == [sensor |-> req[c].sensor, shm |-> keys + 1, psize |-> Unset, prop |-> << >>]
<1>3. PICK m : /\ Box(c)' = <<m>> /\ m.content = << >> /\ req[c].op = "create"
               /\ list' = list \/ list' = Append(list, e)
  BY <1>2
<1>4. /\ UNCHANGED <<base, spc, setting, res_id, restarts, misfit, client, latest>>
      /\ spc = "ready"
  BY DEF Serve, Create
<1>5. Idle /\ RoomInv /\ \A d \in Clients : ContentOf(d)
  BY <1>1, <1>4 DEF PropertyInv, ContentInv
<1>6. \A t \in Types : t # MSQ_CMD /\ t # PidOf[c] => msq'[t] = msq[t]  BY <1>2 DEF Served
<1>7. \A r \in ResIds : msq'[r] = msq[r]
  BY <1>2, <1>6, TypesDiffer, PidsDiffer DEF Served, Asks, OwnInv
<1>8. \A d \in Clients : d # c => Box(d)' = Box(d)
  BY <1>2, ServedBoxes DEF OwnInv
<1>9. Idle'
  <2>1. ~Told(c)'  BY <1>3, <1>4 DEF Told, client
  <2>2. \A d \in Clients : ~Told(d)'  BY <2>1, <1>4, <1>5, <1>8 DEF Told, Idle, client
  <2> QED  BY <2>2, <1>5, <1>7 DEF Idle
<1>10. \A d \in Clients : ContentOf(d)'
  <2>1. ContentOf(c)'  BY <1>3, <1>4, <1>5, ContentOfOne DEF client
  <2> QED  BY <2>1, <1>4, <1>5, <1>8, ContentSame DEF client
<1>11. RoomInv'
  <2>1. CASE list' = list
    BY <2>1, <1>4, <1>5 DEF RoomInv
  <2>2. CASE list' = Append(list, e)
    <3> DEFINE n == Len(list)
    <3>1. e.psize = Unset /\ e.prop = << >> /\ DOMAIN << >> = {}  OBVIOUS
    <3> HIDE DEF e
    <3>2. Plain(list) /\ n \in Nat /\ DOMAIN list = 1 .. n
      BY PlainDomain DEF OwnInv, TypeInv, Plain
    <3>3. /\ DOMAIN list' = 1 .. n + 1 /\ list'[n + 1] = e
          /\ \A i \in 1 .. n : list'[i] = list[i]
      BY <2>2, <3>2, PlainAppend, PlainDomain
    <3> HIDE DEF n
    <3>4. \A i \in DOMAIN list' : (i \in DOMAIN list /\ list'[i] = list[i]) \/ list'[i] = e
      BY <3>2, <3>3
    <3>5. ASSUME NEW i \in DOMAIN list'
          PROVE  /\ DOMAIN list'[i].prop = IF list'[i].psize = Unset THEN {} ELSE 1 .. list'[i].psize
                 /\ list'[i].psize # Unset => list'[i].psize > 0
                 /\ \A k \in DOMAIN list'[i].prop :
                      /\ list'[i].prop[k] = latest[list'[i].sensor]
                      /\ list'[i].prop[k] # NoCall /\ list'[i].prop[k][3] = list'[i].sensor
      <4>1. CASE list'[i] = e  BY <3>1, <4>1
      <4>2. CASE i \in DOMAIN list /\ list'[i] = list[i]
        BY <1>4, <1>5, <4>2 DEF RoomInv
      <4> QED  BY <3>4, <4>1, <4>2
    <3> QED  BY <3>5, <1>4 DEF RoomInv
  <2> QED  BY <1>3, <2>1, <2>2
<1> QED  BY <1>4, <1>9, <1>10, <1>11 DEF PropertyInv, ContentInv

LEMMA GetProperty ==
  ASSUME OwnInv, ListInv, PropertyInv, Serve, PropertyGet
  PROVE  PropertyInv'
<1>1. SUFFICES ASSUME ~misfit' PROVE PropertyInv'  BY DEF PropertyInv
<1>2. PICK c \in Clients : Served(c) /\ req[c].op = "get" /\
           \/ \E m : Box(c)' = <<m>> /\ ReplyTo(c, m) /\ m.content = << >> /\ m.ssize = 0
           \/ \E m, n : \E i \in DOMAIN list :
                /\ Box(c)' = <<m, n>> /\ ReplyTo(c, m) /\ ReplyTo(c, n) /\ m.ssize # 0
                /\ m.content = << >> /\ n.content = list[i].prop
                /\ list[i].sensor = req[c].sensor
  BY GetAnswers DEF OwnInv
<1>4. UNCHANGED <<server, misfit, client, latest>> /\ spc = "ready"  BY DEF Serve, PropertyGet
<1>5. RoomInv /\ \A d \in Clients : ContentOf(d)
  BY <1>1, <1>4 DEF PropertyInv, ContentInv
<1>6. \A t \in Types : t # MSQ_CMD /\ t # PidOf[c] => msq'[t] = msq[t]  BY <1>2 DEF Served
<1>7. \A r \in ResIds : msq'[r] = msq[r]
  BY <1>2, <1>6, TypesDiffer, PidsDiffer DEF Served, Asks, OwnInv
<1>8. \A d \in Clients : d # c => Box(d)' = Box(d)
  BY <1>2, ServedBoxes DEF OwnInv
<1>9. \A d \in Clients : Quiet(d)
  <2>1. Quiet(c)  BY <1>2, <1>4 DEF Quiet, Told, client
  <2> QED  BY <2>1, <1>4, <1>8 DEF Quiet, client
<1>10. ContentOf(c)'
  <2>1. CASE \E m : Box(c)' = <<m>> /\ m.content = << >>
    BY <2>1, <1>4, <1>5, ContentOfOne DEF client
  <2>2. ASSUME NEW m, NEW n, NEW i \in DOMAIN list, Box(c)' = <<m, n>>,
               m.content = << >>, n.content = list[i].prop, list[i].sensor = req[c].sensor
        PROVE  ContentOf(c)'
    <3>1. DOMAIN Box(c)' = {1, 2} /\ Box(c)'[1] = m /\ Box(c)'[2] = n  BY <2>2
    <3> DEFINE p == list[i].prop
               s == req[c].sensor
    <3>2. DOMAIN p = IF list[i].psize = Unset THEN {} ELSE 1 .. list[i].psize
      BY <1>5 DEF RoomInv
    <3>3. list[i].psize \in Int  BY DEF OwnInv, TypeInv
    <3>4. \A k \in DOMAIN p : 1 \in DOMAIN p  BY <3>2, <3>3
    <3>5. \A k \in DOMAIN p : p[k] = latest[s] /\ p[k] # NoCall /\ p[k][3] = s
      BY <1>4, <1>5, <2>2 DEF RoomInv
    <3>6. WholeFor(s, p)  BY <3>4, <3>5 DEF WholeFor
    <3>7. WholeFor(s, << >>)  BY NoContent
    <3>8. req'[c].sensor = s /\ result' = result  BY <1>4 DEF client
    <3>9. n.content = p  BY <2>2
    <3>10. \A k \in DOMAIN Box(c)' : WholeFor(s, Box(c)'[k].content)
      BY <2>2, <3>1, <3>6, <3>7, <3>9
    <3>11. ContentOf(c)  BY <1>5
    <3> HIDE DEF s, p
    <3> QED  BY <3>8, <3>10, <3>11 DEF ContentOf, WholeFor
  <2> QED  BY <1>2, <2>1, <2>2
<1>11. \A d \in Clients : ContentOf(d)'
  BY <1>4, <1>5, <1>8, <1>10, ContentSame DEF client
<1> QED  BY <1>1, <1>4, <1>7, <1>9, <1>11, PropertiesSame DEF OwnInv, TypeInv, server

LEMMA PutProperty ==
  ASSUME OwnInv, ListInv, PropertyInv, Serve, PropertySet
  PROVE  PropertyInv'
<1>1. SUFFICES ASSUME ~misfit' PROVE PropertyInv'  BY DEF PropertyInv
<1> DEFINE Room(c, i) == IF list[i].psize = Unset THEN req[c].size ELSE list[i].psize
           Refused(m) == m.ssize = 0 /\ UNCHANGED <<list, spc, setting, res_id, misfit>>
           Begun(c, m, i) ==
             /\ Kept(i) /\ list[i].sensor = req[c].sensor /\ list'[i].psize = Room(c, i)
             /\ list'[i].prop = IF list[i].psize = Unset
                                  THEN [k \in 1 .. Room(c, i) |-> NoCall] ELSE list[i].prop
             /\ spc' = "data" /\ setting' = i
             /\ misfit' = (misfit \/ Room(c, i) = 0 \/ req[c].size # Room(c, i))
             /\ m.ssize = Room(c, i) /\ m.res = res_id' /\ res_id' \in ResIds
<1>2. PICK c \in Clients : Served(c) /\ req[c].op = "set" /\ \E m :
           /\ Box(c)' = <<m>> /\ m.content = << >>
           /\ Refused(m) \/ \E i \in DOMAIN list : Begun(c, m, i)
  BY SetAnswers DEF OwnInv
<1>3. PICK m : /\ Box(c)' = <<m>> /\ m.content = << >>
               /\ Refused(m) \/ \E i \in DOMAIN list : Begun(c, m, i)
  BY <1>2
<1>4. UNCHANGED <<keys, base, restarts, client, latest>> /\ spc = "ready"
  BY DEF Serve, PropertySet
<1>5. ~misfit  BY <1>1, <1>3
<1>6. Idle /\ RoomInv /\ \A d \in Clients : ContentOf(d)
  BY <1>4, <1>5 DEF PropertyInv, ContentInv
<1>7. \A t \in Types : t # MSQ_CMD /\ t # PidOf[c] => msq'[t] = msq[t]  BY <1>2 DEF Served
<1>8. \A r \in ResIds : msq'[r] = msq[r]
  BY <1>2, <1>7, TypesDiffer, PidsDiffer DEF Served, Asks, OwnInv
<1>9. \A d \in Clients : d # c => Box(d)' = Box(d)
  BY <1>2, ServedBoxes DEF OwnInv
<1>10. \A d \in Clients : ContentOf(d)'
  <2>1. ContentOf(c)'  BY <1>3, <1>4, <1>6, ContentOfOne DEF client
  <2> QED  BY <2>1, <1>4, <1>6, <1>9, ContentSame DEF client
<1>11. CASE Refused(m)
  <2>1. \A d \in Clients : Quiet(d)
    <3>1. Box(c)'[1] = m  BY <1>3
    <3>2. ~Told(c)'  BY <1>11, <3>1 DEF Told
    <3>3. Quiet(c)  BY <3>2, <1>6 DEF Quiet, Idle
    <3> QED  BY <3>3, <1>4, <1>9 DEF Quiet, client
  <2> QED  BY <1>1, <1>4, <1>5, <1>8, <1>10, <1>11, <2>1, PropertiesSame DEF OwnInv, TypeInv
<1>12. ASSUME NEW i \in DOMAIN list, Begun(c, m, i)
       PROVE  PropertyInv'
  <2> DEFINE room == Room(c, i)
  <2>1. room # 0 /\ req[c].size = room  BY <1>1, <1>12
  <2>2. room \in Nat  BY <1>2, <2>1 DEF Served, Asks, OwnInv, TypeInv
  <2>3. /\ Kept(i) /\ list[i].sensor = req[c].sensor /\ list'[i].psize = room
        /\ list'[i].prop = IF list[i].psize = Unset
                             THEN [k \in 1 .. room |-> NoCall] ELSE list[i].prop
        /\ spc' = "data" /\ setting' = i /\ m.ssize = room /\ m.res = res_id'
        /\ list[i].psize # Unset => list[i].psize = room
    BY <1>12
  <2> HIDE DEF room
  <2>4. room # Unset /\ room > 0  BY <2>1, <2>2 DEF Unset
  <2>5. Box(c)'[1] = m  BY <1>3
  <2>6. \A d \in Clients : d # c => ~Told(d)'
    BY <1>4, <1>6, <1>9 DEF Idle, Told, client
  <2>7. /\ m.res = res_id' /\ req'[c].size = list'[setting'].psize
        /\ req'[c].sensor = list'[setting'].sensor
    <3>1. list'[setting'].sensor = req[c].sensor /\ list'[setting'].psize = room
      BY <2>3 DEF Kept
    <3> QED  BY <1>4, <2>1, <2>3, <3>1 DEF client
  <2>8. Unsent'
    <3>1. \A r \in ResIds : msq'[r] = << >>  BY <1>6, <1>8 DEF Idle
    <3>2. ASSUME NEW d \in Clients, Told(d)'
          PROVE  d = c /\ LET n == Box(d)'[1]
                          IN  /\ n.res = res_id' /\ req'[d].size = list'[setting'].psize
                              /\ req'[d].sensor = list'[setting'].sensor
      BY <2>5, <2>6, <2>7, <3>2
    <3> QED  BY <3>1, <3>2 DEF Unsent
  <2>9. RoomInv'
    <3>1. ASSUME NEW j \in DOMAIN list', j # i
          PROVE  /\ DOMAIN list'[j].prop = IF list'[j].psize = Unset THEN {} ELSE 1 .. list'[j].psize
                 /\ list'[j].psize # Unset => list'[j].psize > 0
                 /\ \A k \in DOMAIN list'[j].prop :
                      /\ list'[j].prop[k] = latest'[list'[j].sensor]
                      /\ list'[j].prop[k] # NoCall /\ list'[j].prop[k][3] = list'[j].sensor
      <4>1. j \in DOMAIN list /\ list'[j] = list[j]  BY <2>3, <3>1 DEF Kept
      <4> QED  BY <1>4, <1>6, <4>1 DEF RoomInv
    <3>2. DOMAIN list'[i].prop = 1 .. room
      <4>1. CASE list[i].psize = Unset
        <5>1. list'[i].prop = [k \in 1 .. room |-> NoCall]  BY <2>3, <4>1
        <5> QED  BY <5>1
      <4>2. CASE list[i].psize # Unset
        BY <2>3, <4>2, <1>6 DEF RoomInv
      <4> QED  BY <4>1, <4>2
    <3>3. ASSUME NEW j \in DOMAIN list'
          PROVE  /\ DOMAIN list'[j].prop = IF list'[j].psize = Unset THEN {} ELSE 1 .. list'[j].psize
                 /\ list'[j].psize # Unset => list'[j].psize > 0
                 /\ (spc' = "data" /\ j = setting') \/ \A k \in DOMAIN list'[j].prop :
                      /\ list'[j].prop[k] = latest'[list'[j].sensor]
                      /\ list'[j].prop[k] # NoCall /\ list'[j].prop[k][3] = list'[j].sensor
      <4>1. CASE j = i
        BY <2>3, <2>4, <3>2, <4>1
      <4> QED  BY <3>1, <4>1
    <3> QED  BY <3>3 DEF RoomInv
  <2> QED  BY <1>10, <2>3, <2>4, <2>8, <2>9 DEF PropertyInv, ContentInv
<1> QED  BY <1>3, <1>11, <1>12

LEMMA TakeDataProperty ==
  ASSUME OwnInv, ListInv, PropertyInv, TakeData
  PROVE  PropertyInv'
<1>1. SUFFICES ASSUME ~misfit' PROVE PropertyInv'  BY DEF PropertyInv
<1>2. /\ spc = "data" /\ spc' = "ready" /\ msq[res_id] # << >>
      /\ UNCHANGED <<keys, base, setting, res_id, restarts, client, latest, misfit>>
  BY DEF TakeData
<1>3. list[setting].psize # Unset /\ (Unsent \/ SentData) /\ RoomInv /\ \A d \in Clients : ContentOf(d)
  BY <1>1, <1>2 DEF PropertyInv, ContentInv
<1>4. setting \in DOMAIN list /\ res_id \in ResIds  BY DataStored DEF OwnInv
<1>5. SentData  BY <1>2, <1>3, <1>4 DEF Unsent
<1> DEFINE m == msq[res_id][1]
           size == list[setting].psize
           s == list[setting].sensor
<1>6. msq[res_id] = <<m>> /\ m.ssize = size /\ m.call = latest[s] /\ m.call # NoCall /\ m.call[3] = s
  BY <1>5 DEF SentData
<1>7. \A x : Head(<<x>>) = x /\ Tail(<<x>>) = << >>  OBVIOUS
<1>8. Head(msq[res_id]) = m /\ Tail(msq[res_id]) = << >>  BY <1>6, <1>7
<1>9. size \in Int  BY <1>4 DEF OwnInv, TypeInv
<1>10. ~(m.ssize > size)  BY <1>6, <1>9
<1> DEFINE p == [k \in DOMAIN list[setting].prop |->
                   IF k <= m.ssize THEN m.call ELSE list[setting].prop[k]]
<1>11. /\ msq' = [msq EXCEPT ![res_id] = << >>]
       /\ list' = [list EXCEPT ![setting].prop = p]
  BY <1>8, <1>10 DEF TakeData
<1>12. DOMAIN list[setting].prop = 1 .. size  BY <1>3, <1>4 DEF RoomInv
<1>13. DOMAIN p = 1 .. size /\ \A k \in 1 .. size : p[k] = m.call
  BY <1>6, <1>9, <1>12
<1> HIDE DEF p, m
<1>14. DOMAIN msq' = Types /\ msq'[res_id] = << >> /\ \A t \in Types : t # res_id => msq'[t] = msq[t]
  BY <1>4, <1>11, TypesDiffer DEF OwnInv, TypeInv
<1>15. \A r \in ResIds : msq'[r] = << >>
  BY <1>5, <1>14, TypesDiffer DEF SentData
<1>16. ASSUME NEW d \in Clients PROVE Box(d)' = Box(d)
  <2>1. pc[d] # "idle" => msq'[PidOf[d]] = msq[PidOf[d]]
    BY <1>4, <1>14, PidsDiffer DEF OwnInv
  <2> QED  BY <1>2, <2>1, BoxSame DEF client
<1>17. Idle'  BY <1>2, <1>5, <1>15, <1>16 DEF Idle, SentData, Told, client
<1>18. \A d \in Clients : ContentOf(d)'
  BY <1>2, <1>3, <1>16, ContentSame DEF client
<1>19. RoomInv'
  <2> DEFINE e == [list[setting] EXCEPT !.prop = p]
  <2>1. DOMAIN list[setting] = Fields /\ Plain(list)  BY <1>4 DEF OwnInv, TypeInv
  <2>2. list' = [list EXCEPT ![setting] = e]  BY <1>11
  <2>3. e.psize = size /\ e.sensor = s /\ e.prop = p
    BY <2>1 DEF Fields
  <2> HIDE DEF e
  <2>4. /\ DOMAIN list' = DOMAIN list /\ list'[setting] = e
        /\ \A j \in DOMAIN list : j # setting => list'[j] = list[j]
    BY <1>4, <2>1, <2>2, PlainExcept
  <2>5. ASSUME NEW i \in DOMAIN list'
        PROVE  /\ DOMAIN list'[i].prop = IF list'[i].psize = Unset THEN {} ELSE 1 .. list'[i].psize
               /\ list'[i].psize # Unset => list'[i].psize > 0
               /\ \A k \in DOMAIN list'[i].prop :
                    /\ list'[i].prop[k] = latest'[list'[i].sensor]
                    /\ list'[i].prop[k] # NoCall /\ list'[i].prop[k][3] = list'[i].sensor
    <3>1. CASE i = setting
      <4>1. list'[i].psize = size /\ list'[i].sensor = s /\ list'[i].prop = p
        BY <2>3, <2>4, <3>1
      <4>2. size # Unset /\ size > 0  BY <1>3, <1>4 DEF RoomInv
      <4>3. \A k \in DOMAIN p : p[k] = latest'[s] /\ p[k] # NoCall /\ p[k][3] = s
        BY <1>2, <1>6, <1>13
      <4> HIDE DEF size, s
      <4> QED  BY <4>1, <4>2, <4>3, <1>13
    <3>2. CASE i # setting
      BY <1>2, <1>3, <2>4, <3>2 DEF RoomInv
    <3> QED  BY <3>1, <3>2
  <2> QED  BY <2>5 DEF RoomInv
<1> QED  BY <1>2, <1>17, <1>18, <1>19 DEF PropertyInv, ContentInv

LEMMA RestartProperty ==
  ASSUME OwnInv, PropertyInv, Restart
  PROVE  PropertyInv'
<1>1. SUFFICES ASSUME ~misfit' PROVE PropertyInv'  BY DEF PropertyInv
<1>2. /\ list' = << >> /\ spc' = "ready" /\ UNCHANGED <<client, latest>>
      /\ UNCHANGED msq /\ ~misfit /\ spc # "data"
  BY <1>1 DEF Restart
<1>3. spc = "ready"  BY <1>2 DEF OwnInv, TypeInv
<1>4. Idle /\ \A d \in Clients : ContentOf(d)
  BY <1>2, <1>3 DEF PropertyInv, ContentInv
<1>5. \A d \in Clients : Box(d)' = Box(d)  BY <1>2 DEF Box, Inbox, client
<1>6. Idle'  BY <1>2, <1>4, <1>5 DEF Idle, Told, client
<1>7. \A d \in Clients : ContentOf(d)'  BY <1>2, <1>4, <1>5, ContentSame DEF client
<1>8. RoomInv'  BY <1>2 DEF RoomInv
<1> QED  BY <1>2, <1>6, <1>7, <1>8 DEF PropertyInv, ContentInv

LEMMA RequestProperty ==
  ASSUME OwnInv, PropertyInv, NEW c \in Clients, NEW q \in Requests, Request(c, q), ~mixed'
  PROVE  PropertyInv'
<1>1. SUFFICES ASSUME ~misfit' PROVE PropertyInv'  BY DEF PropertyInv
<1>2. /\ \A d \in Clients : d # c => Same(d)
      /\ Box(c) = << >> /\ Box(c)' = << >>
      /\ \A t \in Types : t # MSQ_CMD => msq'[t] = msq[t]
  BY RequestOwn DEF OwnInv
<1>3. UNCHANGED <<server, att, latest, misfit>> /\ result'[c].op # "get"
  BY DEF Request, NoResult, OwnInv, TypeInv
<1>4. \A r \in ResIds : msq'[r] = msq[r]  BY <1>2, TypesDiffer
<1>5. \A d \in Clients : ContentOf(d)  BY <1>1, <1>3 DEF PropertyInv, ContentInv
<1>6. \A d \in Clients : Quiet(d)
  <2>1. Quiet(c)  BY <1>2 DEF Quiet, Told
  <2> QED  BY <2>1, <1>2 DEF Quiet, Same
<1>7. \A d \in Clients : ContentOf(d)'
  <2>1. ContentOf(c)'
    <3>1. DOMAIN Box(c)' = {}  BY <1>2
    <3> QED  BY <3>1, <1>3, <1>5 DEF ContentOf, WholeFor
  <2> QED  BY <2>1, <1>2, <1>5, ContentSame DEF Same
<1> QED  BY <1>1, <1>3, <1>4, <1>6, <1>7, PropertiesSame DEF OwnInv, TypeInv, server

\* Whatever it was for, what a client received it delivers whole.
LEMMA TakenContent ==
  ASSUME OwnInv, NEW c \in Clients, ReceiveReply(c) \/ Collect(c), Taken(c), ContentOf(c)
  PROVE  ContentOf(c)'
<1> DEFINE m == Box(c)[1]
           s == req[c].sensor
<1>1. InboxOf(c) /\ pc[c] \in {"waiting", "collect"} /\ Inbox(c) # << >>
  BY DEF OwnInv, InboxInv, ReceiveReply, Collect
<1>2. Head(Inbox(c)) = m
  <2>1. Box(c) = Inbox(c)  BY <1>1, PidsDiffer DEF OwnInv
  <2> QED  BY <1>1, <2>1, TakeFirst
<1>3. req'[c] = req[c]  BY DEF Taken
<1>4. /\ 1 \in DOMAIN Box(c)
      /\ \A k \in DOMAIN Box(c)' : k = 1 /\ 2 \in DOMAIN Box(c) /\ Box(c)'[1] = Box(c)[2]
  <2>1. \A x : DOMAIN <<x>> = {1} /\ <<x>>[1] = x  OBVIOUS
  <2>2. \A x, y : DOMAIN <<x, y>> = {1, 2}  OBVIOUS
  <2>3. DOMAIN << >> = {}  OBVIOUS
  <2> QED  BY <2>1, <2>2, <2>3 DEF Taken
<1>5. WholeFor(s, m.content) /\ \A k \in DOMAIN Box(c)' : WholeFor(s, Box(c)'[k].content)
  BY <1>4 DEF ContentOf
<1>6. result' = result \/ \E ok : Return(c, m, ok)
  BY <1>2 DEF ReceiveReply, Collect, Attach, SendProperty, LearnSize, Learn
<1>7. CASE result' = result
  BY <1>3, <1>5, <1>7 DEF ContentOf, WholeFor
<1>8. ASSUME NEW ok, Return(c, m, ok) PROVE ContentOf(c)'
  <2>1. result' = [result EXCEPT ![c] = [call |-> m.call, op |-> req[c].op, sensor |-> s,
                                         ok |-> ok, content |-> m.content]]
    BY <1>8 DEF Return
  <2>2. result'[c].sensor = s /\ result'[c].content = m.content
    BY <2>1 DEF OwnInv, TypeInv
  <2> HIDE DEF m, s
  <2>3. WholeFor(result'[c].sensor, result'[c].content)  BY <2>2, <1>5
  <2>4. req'[c].sensor = s  BY <1>3 DEF s
  <2> QED  BY <2>3, <2>4, <1>5 DEF ContentOf, WholeFor
<1> QED  BY <1>6, <1>7, <1>8

LEMMA ReplyProperty ==
  ASSUME OwnInv, ListInv, PropertyInv, NEW c \in Clients, ReceiveReply(c) \/ Collect(c)
  PROVE  PropertyInv'
<1>1. SUFFICES ASSUME ~misfit' PROVE PropertyInv'  BY DEF PropertyInv
<1>2. Taken(c)  BY ReplyTaken DEF OwnInv
<1> DEFINE m == Box(c)[1]
<1>3. UNCHANGED <<server, req, misfit>>  BY DEF ReceiveReply, Collect
<1>4. InboxOf(c) /\ pc[c] \in {"waiting", "collect"} /\ Box(c) # << >> /\ Box(c) = Inbox(c)
  <2>1. InboxOf(c) /\ pc[c] \in {"waiting", "collect"} /\ Inbox(c) # << >>
    BY DEF OwnInv, InboxInv, ReceiveReply, Collect
  <2>2. Box(c) = Inbox(c)  BY <2>1, PidsDiffer DEF OwnInv
  <2> QED  BY <2>1, <2>2
<1>10. PidOf[c] \in Types /\ PidOf[c] # MSQ_CMD /\ PidOf[c] \notin ResIds
  BY <1>4, PidsDiffer DEF OwnInv
<1>5. /\ Head(Inbox(c)) = m /\ Answers(c, m) /\ calls[c] > 0
      /\ pc[c] = "collect" => req[c].op = "get"
  BY <1>4, TakeFirst
<1>6. \A d \in Clients : ContentOf(d)  BY <1>1, <1>3 DEF PropertyInv, ContentInv
<1>7. \A d \in Clients : ContentOf(d)'
  <2>1. ContentOf(c)'  BY <1>2, <1>6, TakenContent
  <2>2. \A d \in Clients : d # c => Same(d)  BY <1>2 DEF Taken
  <2> QED  BY <2>1, <2>2, <1>6, ContentSame DEF Same
<1>8. CASE SendProperty(c) /\ m.ssize # 0
  <2> DEFINE s == req[c].sensor
             x == [call |-> Call(c), ssize |-> req[c].size]
  <2>0. m.res # 0
    <3>1. req[c].op = "set"  BY <1>8 DEF SendProperty
    <3>2. m.res \in ResIds  BY <1>5, <1>8, <3>1 DEF Answers
    <3> QED  BY <3>2, TypesDiffer
  <2>1. /\ req[c].op = "set" /\ latest' = [latest EXCEPT ![s] = Call(c)]
        /\ msq' = [msq EXCEPT ![PidOf[c]] = Tail(@), ![m.res] = Append(@, x)]
    BY <1>5, <1>8, <2>0 DEF SendProperty
  <2>2. Told(c)  BY <2>1, <1>4, <1>8 DEF Told
  <2>3. spc = "data" /\ Unsent /\ RoomInv /\ list[setting].psize # Unset
    BY <2>2, <1>1, <1>3 DEF PropertyInv, Idle, SentData, OwnInv, TypeInv
  <2>4. /\ m.res = res_id /\ res_id \in ResIds /\ setting \in DOMAIN list
        /\ req[c].size = list[setting].psize /\ s = list[setting].sensor
    BY <2>2, <2>3 DEF Unsent, OwnInv, TypeInv
  <2>5. s \in Sensors  BY <1>5 DEF OwnInv, TypeInv
  <2>6. x.call = Call(c) /\ x.ssize = req[c].size  OBVIOUS
  <2>7. Call(c) # NoCall /\ Call(c)[3] = s  BY DEF Call, NoCall
  <2>8. Append(<< >>, x) = <<x>> /\ <<x>>[1] = x  OBVIOUS
  <2> HIDE DEF x, s
  <2>9. msq[res_id] = << >>  BY <2>3, <2>4 DEF Unsent
  <2>10. msq'[res_id] = <<x>> /\ \A r \in ResIds : r # res_id => msq'[r] = << >>
    BY <1>10, <2>1, <2>3, <2>4, <2>8, <2>9, TypesDiffer DEF Unsent, OwnInv, TypeInv
  <2>11. \A d \in Clients : ~Told(d)'
    <3>1. Box(c)' = << >>  BY <1>2, <2>1 DEF Taken
    <3>2. \A d \in Clients : d # c => Same(d)  BY <1>2 DEF Taken
    <3>3. \A d \in Clients : d # c => ~Told(d)  BY <2>2, <2>3 DEF Unsent
    <3> QED  BY <3>1, <3>2, <3>3 DEF Told, Same
  <2>12. latest'[s] = Call(c) /\ \A t \in Sensors : t # s => latest'[t] = latest[t]
    BY <2>1, <2>5 DEF OwnInv, TypeInv
  <2>13. SentData'
    <3>1. res_id' = res_id /\ list' = list /\ setting' = setting  BY <1>3 DEF server
    <3>2. msq'[res_id'] = <<x>> /\ msq'[res_id'][1] = x  BY <2>8, <2>10, <3>1
    <3>3. x.ssize = list'[setting'].psize /\ x.call = latest'[list'[setting'].sensor]
          /\ x.call # NoCall /\ x.call[3] = list'[setting'].sensor
      BY <2>4, <2>6, <2>7, <2>12, <3>1
    <3>4. \A r \in ResIds : r # res_id' => msq'[r] = << >>  BY <2>10, <3>1
    <3> QED  BY <2>11, <3>2, <3>3, <3>4 DEF SentData
  <2>14. RoomInv'
    <3>1. list' = list /\ spc' = spc /\ setting' = setting  BY <1>3 DEF server
    <3>2. \A i \in DOMAIN list : i # setting => list[i].sensor # s /\ list[i].sensor \in Sensors
      BY <2>4 DEF ListInv, OwnInv, TypeInv
    <3> QED  BY <2>3, <2>12, <3>1, <3>2 DEF RoomInv
  <2> QED  BY <1>3, <1>7, <2>3, <2>13, <2>14 DEF PropertyInv, ContentInv, server
<1>9. CASE ~(SendProperty(c) /\ m.ssize # 0)
  <2>1. msq' = [msq EXCEPT ![PidOf[c]] = Tail(@)] /\ latest' = latest
        /\ (req[c].op = "set" => m.ssize = 0)
    BY <1>5, <1>9 DEF ReceiveReply, Collect, Attach, SendProperty, LearnSize, Learn
  <2>2. \A r \in ResIds : msq'[r] = msq[r]
    BY <1>10, <2>1, TypesDiffer DEF OwnInv, TypeInv
  <2>3. \A d \in Clients : Quiet(d)
    <3>1. ~Told(c)  BY <2>1 DEF Told
    <3>2. ~Told(c)'  BY <1>2 DEF Told, Taken
    <3>3. \A d \in Clients : d # c => Same(d)  BY <1>2 DEF Taken
    <3> QED  BY <3>1, <3>2, <3>3 DEF Quiet, Same
  <2> QED  BY <1>1, <1>3, <1>7, <2>1, <2>2, <2>3, PropertiesSame DEF OwnInv, TypeInv, server
<1> QED  BY <1>8, <1>9

LEMMA StepProperty ==
  ASSUME OwnInv, ListInv, PropertyInv, [Next]_vars, ~mixed'
  PROVE  PropertyInv'
<1>1. CASE Serve
  BY <1>1, QueryProperty, CreateProperty, PutProperty, GetProperty DEF Serve
<1>2. CASE TakeData  BY <1>2, TakeDataProperty
<1>3. CASE Restart  BY <1>3, RestartProperty
<1>4. ASSUME NEW c \in Clients,
             (\E q \in Requests : Request(c, q)) \/ ReceiveReply(c) \/ Collect(c)
      PROVE  PropertyInv'
  BY <1>4, RequestProperty, ReplyProperty
<1>5. CASE UNCHANGED vars \/ \E c \in Clients : Die(c)
  <2>1. UNCHANGED <<msq, server, req, result, latest, misfit>>
    BY <1>5 DEF vars, client, Die
  <2>4. \A d \in Clients : pc'[d] # "idle" <=> pc[d] # "idle"
    BY <1>5 DEF vars, client, Die, OwnInv, TypeInv
  <2>2. \A d \in Clients : req'[d] = req[d] /\ Box(d)' = Box(d) /\ result'[d] = result[d]
    BY <2>1, <2>4 DEF Box, Inbox
  <2>3. ASSUME ~misfit' PROVE \A d \in Clients : Quiet(d) /\ ContentOf(d)'
    BY <2>1, <2>2, <2>3, ContentSame DEF Quiet, PropertyInv, ContentInv
  <2>5. CASE ~misfit'
    BY <2>1, <2>3, <2>5, PropertiesSame DEF OwnInv, TypeInv, server
  <2> QED  BY <2>5 DEF PropertyInv
<1> QED  BY <1>1, <1>2, <1>3, <1>4, <1>5 DEF Next

-----------------------------------------------------------------------------
(* The theorems.                                                           *)

LEMMA InitInv == Init => IInv
<1> SUFFICES ASSUME Init PROVE IInv  OBVIOUS
<1>1. << >> \in Seq({}) /\ Len(<< >>) = 0  OBVIOUS
<1>2. Plain(<< >>)  BY <1>1, SeqIsPlain
<1>3. DOMAIN << >> = {}  OBVIOUS
<1>4. \A c \in Clients : Box(c) = << >> /\ pc[c] = "idle"  BY DEF Init, Box
<1>5. msq[MSQ_CMD] = << >> /\ \A r \in ResIds : msq[r] = << >>  BY TypesDiffer DEF Init
<1>6. OwnInv
  <2>1. TypeInv
    <3>1. /\ DOMAIN msq = Types /\ DOMAIN req = Clients /\ DOMAIN result = Clients
          /\ DOMAIN latest = Sensors /\ list = << >>
          /\ pc \in [Clients -> {"idle", "waiting", "collect", "dead"}]
      BY DEF Init
    <3>2. calls \in [Clients -> Nat] /\ \A c \in Clients : ~(calls[c] > 0)  BY DEF Init
    <3>3. att \in [Clients -> [Sensors -> Nat]]  BY DEF Init
    <3>4. /\ keys \in Nat /\ base \in Nat /\ spc \in {"ready", "data"} /\ res_id \in ResIds
          /\ spc # "data" /\ misfit \in BOOLEAN
      BY TypesDiffer DEF Init
    <3> QED  BY <1>2, <1>3, <1>5, <3>1, <3>2, <3>3, <3>4 DEF TypeInv
  <2>2. CommandInv  BY <1>3, <1>5 DEF CommandInv
  <2>3. InboxInv  BY <1>4 DEF Init, InboxInv, InboxOf
  <2>4. Replies  BY DEF Init, Replies
  <2>5. PidInv
    <3>1. \A c \in Clients : Free(c)  BY TypesDiffer DEF Init, Free
    <3> QED  BY <1>4, <3>1 DEF PidInv
  <2> QED  BY <2>1, <2>2, <2>3, <2>4, <2>5 DEF OwnInv
<1>7. ListInv /\ SegmentInv
  BY <1>3, <1>4 DEF Init, ListInv, SegmentInv
<1>8. PropertyInv
  <2>1. Idle  BY <1>4, <1>5 DEF Idle, Told
  <2>2. RoomInv  BY <1>3 DEF Init, RoomInv
  <2>3. ContentInv
    <3>1. \A c \in Clients : result[c].op = "none"  BY DEF Init, NoResult
    <3> QED  BY <1>3, <1>4, <3>1 DEF ContentInv, ContentOf
  <2> QED  BY <2>1, <2>2, <2>3 DEF Init, PropertyInv
<1>9. mixed \in BOOLEAN  BY DEF Init
<1> QED  BY <1>6, <1>7, <1>8, <1>9 DEF IInv

\* Replies that were mixed stay so.
LEMMA MixedStays == mixed \in BOOLEAN /\ [Next]_vars => mixed' \in BOOLEAN /\ (mixed => mixed')
<1> SUFFICES ASSUME mixed \in BOOLEAN, [Next]_vars
             PROVE  mixed' \in BOOLEAN /\ (mixed => mixed')
  OBVIOUS
<1>1. ASSUME NEW c \in Clients, NEW q \in Requests, Request(c, q)
      PROVE  mixed' \in BOOLEAN /\ (mixed => mixed')
  <2>1. mixed' = (mixed \/ InUse(c))  BY <1>1 DEF Request
  <2>2. (mixed \/ InUse(c)) \in BOOLEAN  OBVIOUS
  <2> QED  BY <2>1, <2>2
<1>2. CASE UNCHANGED mixed  BY <1>2
<1>3. CASE UNCHANGED vars  BY <1>2, <1>3 DEF vars
<1>4. CASE Serve \/ TakeData \/ Restart  BY <1>2, <1>4 DEF Serve, TakeData, Restart
<1>5. ASSUME NEW c \in Clients, ReceiveReply(c) \/ Collect(c) \/ Die(c)
      PROVE  mixed' \in BOOLEAN /\ (mixed => mixed')
  BY <1>2, <1>5 DEF ReceiveReply, Collect, Die
<1> QED  BY <1>1, <1>3, <1>4, <1>5 DEF Next

LEMMA NextInv == IInv /\ [Next]_vars => IInv'
BY StepKeeps, StepProperty, MixedStays DEF IInv

\* As long as no call begins under a pid that is in use: commands are unanswered and
\* unique, an inbox holds the answers to its owner's own call, the list is of this life
\* of the server, and one property travels at a time, in every state of the server, its
\* queue and its callers.
THEOREM Invariance == Spec => []IInv
<1>1. Init => IInv  BY InitInv
<1>2. IInv /\ [Next]_vars => IInv'  BY NextInv
<1> QED  BY <1>1, <1>2, PTL DEF Spec

\* Whatever pids the callers have, threads of one process among them: a call of libSSM
\* returns with the answer to this very call, though some die in a call and the server is
\* restarted, up to the first call that begins while its pid is in use, by a thread in a
\* call, by one that died in it, or by the server itself.
THEOREM RepliesAreOwnTheorem == Spec => []RepliesAreOwn
<1>1. IInv => RepliesAreOwn  BY DEF IInv, OwnInv, Replies, RepliesAreOwn
<1> QED  BY <1>1, Invariance, PTL

\* Whoever attached a sensor in this life of the server attached the one segment of it,
\* and no other sensor's, up to the first call under a pid in use.
THEOREM SegmentsAgreeTheorem == Spec => []SegmentsAgree
<1>1. ASSUME IInv, ~mixed,
             NEW c \in Clients, NEW d \in Clients, NEW s \in Sensors, NEW t \in Sensors,
             att[c][s] > base, att[d][t] > base
      PROVE  att[c][s] = att[d][t] <=> s = t
  <2>1. Held(s, att[c][s]) /\ Held(t, att[d][t])  BY <1>1 DEF IInv, SegmentInv
  <2> QED  BY <2>1, <1>1 DEF Held, IInv, ListInv
<1>2. IInv => SegmentsAgree  BY <1>1 DEF SegmentsAgree
<1> QED  BY <1>2, Invariance, PTL

\* Properties are kept and delivered whole, whoever sets and gets them at the same time,
\* up to the first call under a pid in use or the first transfer that misfits.
THEOREM PropertyKeptTheorem == Spec => []PropertyKept
<1>1. IInv => PropertyCurrent
  BY DEF IInv, PropertyInv, RoomInv, PropertyCurrent
<1>2. IInv => PropertyWhole
  BY DEF IInv, PropertyInv, ContentInv, ContentOf, WholeFor, PropertyWhole
<1> QED  BY <1>1, <1>2, Invariance, PTL DEF PropertyKept

-----------------------------------------------------------------------------
(***************************************************************************)
(* Second part: streams through a socket, and those who follow a stream.   *)
(***************************************************************************)
Datum    == SendSensors \X Nat
Messages ==
  [type : {"SSMT_NEW", "SSMT_PROPERTY"}, id : Nat, body : SendSensors]
    \cup [type : {"SSMT_DATA"}, id : Nat, body : Datum]

IsNew(j)  == net[j].type = "SSMT_NEW"
IsData(j) == net[j].type = "SSMT_DATA"

\* The follower has passed on exactly the tids from the first one to the next.
FollowerInv ==
  /\ tid_top \in Int /\ tid \in Int /\ first \in Int
  /\ kind \in {"logger", "bridge"}
  /\ ~polling => first = None /\ got = << >>
  /\ StartedWell => /\ first >= 0 /\ tid >= first
                    /\ got = [i \in 1 .. tid - first |-> first + i - 1]

\* The types, and that a sensor that was looked at is one that is registered.
TransportTypes ==
  /\ uid \in [SendSensors -> Nat]
  /\ top \in [SendSensors -> Int]
  /\ turn \in DOMAIN File
  /\ wanted \in [SendSensors -> Nat]
  /\ looked => wanted[Here] > 0
  /\ ids \in Seq(SendSensors)
  /\ net \in Seq(Messages)
  /\ regs \in Seq(SendSensors)
  /\ prop \in Seq(SendSensors \cup {NoProperty}) /\ Len(prop) = Len(regs)
  /\ copy \in Seq(Seq(Datum)) /\ Len(copy) = Len(regs)

\* The ids are given out once, to the sensors that have a cursor, and the receiver
\* registers in their order.
AnnouncedInv ==
  /\ \A m, n \in DOMAIN ids : ids[m] = ids[n] => m = n
  /\ \A s \in SendSensors : wanted[s] > 0 <=> \E n \in DOMAIN ids : ids[n] = s
  /\ Len(regs) <= Len(ids)
  /\ \A n \in DOMAIN regs : regs[n] = ids[n]

\* As long as the receiver lives: what it has not registered yet is announced in the
\* socket, in the order of the ids, and in front of the data.
NewsInv ==
  alive =>
    /\ \A j \in DOMAIN net : IsNew(j) =>
         \E n \in DOMAIN ids : n > Len(regs) /\ net[j].body = ids[n]
    /\ \A i, j \in DOMAIN net, m, n \in DOMAIN ids :
         i < j /\ IsNew(i) /\ IsNew(j) /\ net[i].body = ids[m] /\ net[j].body = ids[n] => m < n
    /\ \A n \in DOMAIN ids : n > Len(regs) =>
         \E j \in DOMAIN net : IsNew(j) /\ net[j].body = ids[n]
    /\ \A j \in DOMAIN net : IsData(j) =>
         \/ net[j].id + 1 <= Len(regs)
         \/ \E i \in DOMAIN net : i < j /\ IsNew(i) /\ net[i].body = ids[net[j].id + 1]

\* A datum is of the sensor whose id it carries, and older than the cursor.
DataInv ==
  /\ \A j \in DOMAIN net : IsData(j) =>
       /\ net[j].id + 1 \in DOMAIN ids
       /\ net[j].body[1] = ids[net[j].id + 1]
       /\ net[j].body[2] < wanted[ids[net[j].id + 1]]
  /\ \A n \in DOMAIN copy : \A k \in DOMAIN copy[n] :
       copy[n][k][1] = ids[n] /\ copy[n][k][2] < wanted[ids[n]]

\* The data of one id: those in the copy, then those in the socket, in order.
OrderInv ==
  /\ \A n \in DOMAIN copy : \A j, k \in DOMAIN copy[n] :
       j < k => copy[n][j][2] < copy[n][k][2]
  /\ \A n \in DOMAIN copy : \A k \in DOMAIN copy[n], j \in DOMAIN net :
       IsData(j) /\ net[j].id + 1 = n => copy[n][k][2] < net[j].body[2]
  /\ \A j, k \in DOMAIN net :
       IsData(j) /\ IsData(k) /\ net[j].id = net[k].id /\ j < k => net[j].body[2] < net[k].body[2]

InCopy(n, t) == n \in DOMAIN copy /\ \E k \in DOMAIN copy[n] : copy[n][k][2] = t
InNet(n, t)  == \E j \in DOMAIN net : IsData(j) /\ net[j].id + 1 = n /\ net[j].body[2] = t
WasSent(n, t) == InCopy(n, t) \/ InNet(n, t)

\* What lies between a datum that was sent and the cursor was sent, or is more than
\* half a ring old.
CompleteInv ==
  \A n \in DOMAIN ids : \A u, t \in Nat :
    WasSent(n, u) /\ u <= t /\ t < wanted[ids[n]] => WasSent(n, t) \/ t < top[ids[n]] - Num \div 2

\* A property travels under the uid of its sensor, and is set where that points at.
PropInv ==
  /\ \A j \in DOMAIN net : net[j].type = "SSMT_PROPERTY" =>
       net[j].id = uid[net[j].body] /\ \E m \in DOMAIN ids : net[j].body = ids[m]
  /\ \A n \in DOMAIN prop : prop[n] # NoProperty =>
       \E m \in DOMAIN ids : prop[n] = ids[m] /\ uid[ids[m]] + 1 = n

TransportInv ==
  /\ FollowerInv /\ TransportTypes /\ AnnouncedInv
  /\ NewsInv /\ DataInv /\ OrderInv /\ CompleteInv /\ PropInv

-----------------------------------------------------------------------------
(* Numbers, sequences, and the file of the sensors.                        *)

LEMMA HalfIsNat == Num \div 2 \in Nat
BY NumAssumption, SMT

LEMMA SensorsHere ==
  ASSUME turn \in DOMAIN File
  PROVE  Here \in SendSensors
BY DEF Here, SendSensors

LEMMA NextSensor ==
  ASSUME turn \in DOMAIN File, Advance
  PROVE  turn' \in DOMAIN File
<1> DEFINE L == Len(File)
<1>1. L \in Nat /\ DOMAIN File = 1 .. L
  BY FileAssumption
<1>2. turn \in Int /\ L > 0
  BY <1>1
<1>3. turn' = (turn % L) + 1
  BY DEF Advance
<1> HIDE DEF L
<1>4. turn % L \in 0 .. L - 1
  BY <1>1, <1>2, SMT
<1> QED
  BY <1>1, <1>3, <1>4, SMT

\* A sequence without its first element.
LEMMA TailFacts ==
  ASSUME NEW S, NEW q \in Seq(S), q # << >>
  PROVE  /\ Tail(q) \in Seq(S) /\ Len(Tail(q)) = Len(q) - 1
         /\ 1 \in DOMAIN q /\ Head(q) = q[1] /\ Head(q) \in S
         /\ \A j \in DOMAIN Tail(q) : j \in DOMAIN q /\ j + 1 \in DOMAIN q /\ Tail(q)[j] = q[j + 1]
         /\ \A j \in DOMAIN q : j = 1 \/ (j - 1 \in DOMAIN Tail(q) /\ Tail(q)[j - 1] = q[j])
OBVIOUS

\* A sequence with one element more.
LEMMA AppendFacts ==
  ASSUME NEW S, NEW q \in Seq(S), NEW e \in S
  PROVE  /\ Append(q, e) \in Seq(S) /\ Len(Append(q, e)) = Len(q) + 1
         /\ DOMAIN Append(q, e) = DOMAIN q \cup {Len(q) + 1}
         /\ Len(q) + 1 \notin DOMAIN q
         /\ Append(q, e)[Len(q) + 1] = e
         /\ \A j \in DOMAIN q : Append(q, e)[j] = q[j]
OBVIOUS

LEMMA PutFacts ==
  ASSUME NEW S, NEW q \in Seq(S), NEW e \in S
  PROVE  /\ q \o <<e>> \in Seq(S) /\ Len(q \o <<e>>) = Len(q) + 1
         /\ DOMAIN (q \o <<e>>) = DOMAIN q \cup {Len(q) + 1}
         /\ (q \o <<e>>)[Len(q) + 1] = e
         /\ \A j \in DOMAIN q : (q \o <<e>>)[j] = q[j]
OBVIOUS

LEMMA PutTwoFacts ==
  ASSUME NEW S, NEW q \in Seq(S), NEW e \in S, NEW f \in S
  PROVE  /\ q \o <<e, f>> \in Seq(S) /\ Len(q \o <<e, f>>) = Len(q) + 2
         /\ DOMAIN (q \o <<e, f>>) = DOMAIN q \cup {Len(q) + 1, Len(q) + 2}
         /\ (q \o <<e, f>>)[Len(q) + 1] = e
         /\ (q \o <<e, f>>)[Len(q) + 2] = f
         /\ \A j \in DOMAIN q : (q \o <<e, f>>)[j] = q[j]
OBVIOUS

-----------------------------------------------------------------------------
(* The follower.                                                           *)

LEMMA ReadWhat ==
  ASSUME NEW t \in Int, NEW u \in Int
  PROVE  /\ readSSM(t, u) \in Int /\ readSSM(t, u) >= None
         /\ u >= 0 /\ readSSM(t, u) # None => readSSM(t, u) = u /\ u <= t
         /\ u < 0 /\ readSSM(t, u) # None => readSSM(t, u) = t
BY NumAssumption DEF readSSM, InRegion, None, SSM_MARGIN

LEMMA ReadNewest ==
  ASSUME NEW t \in Int
  PROVE  /\ readSSM(t, -1) \in Int /\ readSSM(t, -1) >= -1
         /\ readSSM(t, -1) # -1 => readSSM(t, -1) = t
BY NumAssumption DEF readSSM, InRegion, None, SSM_MARGIN

LEMMA FollowerStarts == FollowerInit => FollowerInv
BY DEF FollowerInit, FollowerInv, StartedWell, Threshold, None

LEMMA FollowerStays ==
  ASSUME FollowerInv, UNCHANGED followerVars
  PROVE  FollowerInv'
BY DEF FollowerInv, StartedWell, Threshold, followerVars

LEMMA PublishKeeps ==
  ASSUME FollowerInv, Publish
  PROVE  FollowerInv'
BY DEF FollowerInv, StartedWell, Threshold, Publish

LEMMA EmptyRun ==
  ASSUME NEW a, a \in Int
  PROVE  << >> = [i \in 1 .. a - a |-> a + i - 1]
<1> DEFINE f == [i \in 1 .. a - a |-> a + i - 1]
<1>1. a - a = 0
  OBVIOUS
<1>2. f = [i \in 1 .. 0 |-> a + i - 1]
  BY <1>1
<1>3. f \in Seq(Int) /\ Len(f) = 0
  BY <1>2
<1> HIDE DEF f
<1>4. f = << >>
  BY <1>3
<1> QED
  BY <1>4 DEF f

LEMMA StartKeeps ==
  ASSUME FollowerInv, Start
  PROVE  FollowerInv'
<1>1. first' \in Int /\ first' >= -1 /\ tid' = first' /\ tid_top' \in Int
  BY ReadWhat DEF FollowerInv, Start, None
<1>2. got' = << >> /\ kind' \in {"logger", "bridge"} /\ polling'
  BY DEF FollowerInv, Start
<1>3. StartedWell' => first' >= 0
  BY <1>1, <1>2 DEF StartedWell, Threshold, None
<1>4. got' = [i \in 1 .. tid' - first' |-> first' + i - 1]
  BY <1>1, <1>2, EmptyRun
<1>5. tid' \in Int /\ tid' >= first'
  BY <1>1
<1> QED
  BY <1>1, <1>2, <1>3, <1>4, <1>5, Zenon DEF FollowerInv

LEMMA PollKeeps ==
  ASSUME FollowerInv, Poll
  PROVE  FollowerInv'
<1>1. /\ first' = first /\ kind' = kind /\ tid_top' = tid_top /\ polling' /\ tid' = tid + 1
      /\ tid \in Int /\ first \in Int /\ tid_top \in Int
  BY DEF FollowerInv, Poll
<1>2. StartedWell' <=> StartedWell
  BY <1>1 DEF StartedWell, Threshold
<1>3. ASSUME StartedWell
      PROVE  tid' >= first' /\ got' = [i \in 1 .. tid' - first' |-> first' + i - 1]
  <2>1. first >= 0 /\ tid >= first /\ got = [i \in 1 .. tid - first |-> first + i - 1]
    BY <1>3 DEF FollowerInv
  <2>2. readSSM(tid_top, tid) # None
    BY <1>1 DEF Poll, Threshold, None, FollowerInv
  <2>3. readSSM(tid_top, tid) = tid
    BY <1>1, <2>1, <2>2, ReadWhat
  <2>4. got' = Append(got, tid)
    BY <2>3 DEF Poll
  <2>5. got \in Seq(Int) /\ Len(got) = tid - first
    BY <1>1, <2>1
  <2>6. got' = [i \in 1 .. tid + 1 - first |-> first + i - 1]
    BY <1>1, <2>1, <2>4, <2>5
  <2> QED
    BY <1>1, <2>1, <2>6
<1>4. first >= 0 \/ ~StartedWell
  BY DEF FollowerInv
<1> QED
  BY <1>1, <1>2, <1>3, <1>4 DEF FollowerInv

-----------------------------------------------------------------------------
(* What keeps each part.                                                   *)

LEMMA MessageFacts ==
  ASSUME NEW m \in Messages
  PROVE  /\ m.id \in Nat
         /\ m.type = "SSMT_DATA" =>
              m.body \in Datum /\ m.body[1] \in SendSensors /\ m.body[2] \in Nat
         /\ m.type # "SSMT_DATA" => m.body \in SendSensors
         /\ m.type \in {"SSMT_NEW", "SSMT_PROPERTY", "SSMT_DATA"}
BY DEF Messages, Datum

LEMMA CopyFacts ==
  ASSUME TransportTypes, AnnouncedInv, NEW n \in DOMAIN copy
  PROVE  /\ n \in DOMAIN regs /\ n \in DOMAIN ids
         /\ ids[n] \in SendSensors /\ wanted[ids[n]] \in Nat /\ regs[n] = ids[n]
         /\ copy[n] \in Seq(Datum)
         /\ \A k \in DOMAIN copy[n] : k \in Nat /\ copy[n][k] \in Datum /\ copy[n][k][2] \in Nat
<1>1. copy \in Seq(Seq(Datum)) /\ Len(copy) = Len(regs)
  BY DEF TransportTypes
<1>2. ids \in Seq(SendSensors) /\ regs \in Seq(SendSensors) /\ Len(regs) <= Len(ids)
  BY DEF TransportTypes, AnnouncedInv
<1>3. n \in DOMAIN regs /\ n \in DOMAIN ids
  BY <1>1, <1>2
<1>4. ids[n] \in SendSensors /\ wanted[ids[n]] \in Nat /\ regs[n] = ids[n]
  BY <1>2, <1>3 DEF TransportTypes, AnnouncedInv
<1>5. copy[n] \in Seq(Datum)
  BY <1>1
<1>6. \A k \in DOMAIN copy[n] : k \in Nat /\ copy[n][k] \in Datum
  BY <1>5
<1>7. \A d \in Datum : d[2] \in Nat
  BY DEF Datum
<1> QED
  BY <1>3, <1>4, <1>5, <1>6, <1>7

LEMMA AnnouncedStays ==
  ASSUME AnnouncedInv, ids' = ids, regs' = regs,
         \A s \in SendSensors : wanted'[s] > 0 <=> wanted[s] > 0
  PROVE  AnnouncedInv'
BY DEF AnnouncedInv

LEMMA NewsStay ==
  ASSUME NewsInv, alive' = alive, net' = net, ids' = ids, regs' = regs
  PROVE  NewsInv'
BY DEF NewsInv, IsNew, IsData

LEMMA DataStay ==
  ASSUME DataInv, AnnouncedInv, TransportTypes, TransportTypes',
         net' = net, ids' = ids, copy' = copy,
         \A s \in SendSensors : wanted'[s] >= wanted[s]
  PROVE  DataInv'
<1>1. \A n \in DOMAIN ids :
        ids[n] \in SendSensors /\ wanted[ids[n]] \in Nat /\ wanted'[ids[n]] \in Nat
  BY DEF TransportTypes
<1>2. \A n \in DOMAIN ids : wanted'[ids[n]] >= wanted[ids[n]]
  BY <1>1
<1>3. ASSUME NEW j \in DOMAIN net, IsData(j)
      PROVE  /\ net[j].id + 1 \in DOMAIN ids
             /\ net[j].body[1] = ids[net[j].id + 1]
             /\ net[j].body[2] < wanted'[ids[net[j].id + 1]]
  <2>1. net[j].body[2] \in Nat
    BY <1>3, MessageFacts DEF TransportTypes, IsData
  <2>2. /\ net[j].id + 1 \in DOMAIN ids
        /\ net[j].body[1] = ids[net[j].id + 1]
        /\ net[j].body[2] < wanted[ids[net[j].id + 1]]
    BY <1>3 DEF DataInv
  <2> QED
    BY <1>1, <1>2, <2>1, <2>2
<1>4. ASSUME NEW n \in DOMAIN copy, NEW k \in DOMAIN copy[n]
      PROVE  copy[n][k][1] = ids[n] /\ copy[n][k][2] < wanted'[ids[n]]
  <2>1. copy[n][k][2] \in Nat /\ n \in DOMAIN ids
    BY CopyFacts
  <2> QED
    BY <1>1, <1>2, <2>1 DEF DataInv
<1> QED
  BY <1>3, <1>4 DEF DataInv, IsData

LEMMA OrderStays ==
  ASSUME OrderInv, net' = net, copy' = copy
  PROVE  OrderInv'
BY DEF OrderInv, IsData

LEMMA CompleteStays ==
  ASSUME CompleteInv, TransportTypes, TransportTypes',
         net' = net, copy' = copy, ids' = ids, wanted' = wanted,
         \A s \in SendSensors : top'[s] >= top[s]
  PROVE  CompleteInv'
<1>1. \A n \in DOMAIN ids : ids[n] \in SendSensors /\ top[ids[n]] \in Int /\ top'[ids[n]] \in Int
  BY DEF TransportTypes
<1>2. \A n, t : WasSent(n, t)' <=> WasSent(n, t)
  BY DEF WasSent, InCopy, InNet, IsData
<1> SUFFICES ASSUME NEW n \in DOMAIN ids, NEW u \in Nat, NEW t \in Nat,
                    WasSent(n, u), u <= t, t < wanted[ids[n]], ~WasSent(n, t)
             PROVE  t < top'[ids[n]] - Num \div 2
  BY <1>2 DEF CompleteInv
<1>3. t < top[ids[n]] - Num \div 2
  BY DEF CompleteInv
<1>4. top'[ids[n]] >= top[ids[n]]
  BY <1>1
<1> QED
  BY <1>1, <1>3, <1>4, HalfIsNat

LEMMA PropStays ==
  ASSUME PropInv, net' = net, ids' = ids, prop' = prop, uid' = uid
  PROVE  PropInv'
BY DEF PropInv

-----------------------------------------------------------------------------
(* The drivers, and the follower.                                          *)

LEMMA SourceKeeps ==
  ASSUME TransportInv, NEW s \in SendSensors, CreateSource(s) \/ WriteSource(s)
  PROVE  TransportInv'
<1>1. /\ UNCHANGED <<followerVars, uid, senderVars, net, receiverVars>>
      /\ \/ top[s] = Absent /\ top' = [top EXCEPT ![s] = None]
         \/ top' = [top EXCEPT ![s] = @ + 1]
  BY DEF CreateSource, WriteSource
<1>2. TransportTypes /\ top \in [SendSensors -> Int]
  BY DEF TransportInv, TransportTypes
<1>3. top' \in [SendSensors -> Int] /\ \A r \in SendSensors : top'[r] >= top[r]
  BY <1>1, <1>2 DEF None, Absent
<1>4. TransportTypes'
  BY <1>1, <1>2, <1>3 DEF TransportTypes, senderVars, receiverVars, Here
<1>5. FollowerInv'
  BY <1>1, FollowerStays DEF TransportInv
<1>6. /\ turn' = turn /\ wanted' = wanted /\ ids' = ids /\ net' = net /\ uid' = uid
      /\ alive' = alive /\ regs' = regs /\ prop' = prop /\ copy' = copy
  BY <1>1 DEF senderVars, receiverVars
<1>7. AnnouncedInv'
  BY <1>6, AnnouncedStays DEF TransportInv
<1>8. NewsInv'
  BY <1>6, NewsStay DEF TransportInv
<1>9. DataInv'
  <2>1. \A r \in SendSensors : wanted'[r] >= wanted[r]
    BY <1>2, <1>6 DEF TransportTypes
  <2> QED
    BY <1>2, <1>4, <1>6, <2>1, DataStay DEF TransportInv
<1>10. OrderInv' /\ PropInv'
  BY <1>6, OrderStays, PropStays DEF TransportInv
<1>11. CompleteInv'
  BY <1>2, <1>3, <1>4, <1>6, CompleteStays DEF TransportInv
<1> QED
  BY <1>4, <1>5, <1>7, <1>8, <1>9, <1>10, <1>11 DEF TransportInv

LEMMA FollowKeeps ==
  ASSUME TransportInv, Follow \/ UNCHANGED transportVars
  PROVE  TransportInv'
<1>1. UNCHANGED <<uid, top, senderVars, net, receiverVars>>
  BY DEF Follow, transportVars
<1>2. FollowerInv'
  BY StartKeeps, PollKeeps, FollowerStays DEF Follow, transportVars, TransportInv
<1>3. /\ turn' = turn /\ wanted' = wanted /\ ids' = ids /\ net' = net /\ uid' = uid /\ top' = top
      /\ alive' = alive /\ regs' = regs /\ prop' = prop /\ copy' = copy /\ looked' = looked
  BY <1>1 DEF senderVars, receiverVars
<1>4. TransportTypes /\ TransportTypes'
  BY <1>3 DEF TransportTypes, TransportInv, Here
<1>5. \A s \in SendSensors : wanted'[s] >= wanted[s] /\ top'[s] >= top[s]
  BY <1>3, <1>4 DEF TransportTypes
<1>6. AnnouncedInv' /\ NewsInv'
  BY <1>3, AnnouncedStays, NewsStay DEF TransportInv
<1>7. DataInv'
  BY <1>3, <1>4, <1>5, DataStay DEF TransportInv
<1>8. OrderInv' /\ PropInv'
  BY <1>3, OrderStays, PropStays DEF TransportInv
<1>9. CompleteInv'
  BY <1>3, <1>4, <1>5, CompleteStays DEF TransportInv
<1> QED
  BY <1>2, <1>4, <1>6, <1>7, <1>8, <1>9 DEF TransportInv

-----------------------------------------------------------------------------
(* The sender.                                                             *)

LEMMA PassKeeps ==
  ASSUME TransportInv, Pass
  PROVE  TransportInv'
<1>1. /\ UNCHANGED followerVars
      /\ wanted' = wanted /\ ids' = ids /\ net' = net /\ uid' = uid /\ top' = top
      /\ alive' = alive /\ regs' = regs /\ prop' = prop /\ copy' = copy /\ looked' = looked
  BY DEF Pass, receiverVars
<1>2. TransportTypes
  BY DEF TransportInv
<1>3. Here \in SendSensors /\ wanted[Here] = 0 /\ turn' \in DOMAIN File
  BY <1>2, SensorsHere, NextSensor DEF Pass, TransportTypes
<1>4. ~looked'
  BY <1>1, <1>2, <1>3 DEF TransportTypes
<1>5. TransportTypes'
  BY <1>1, <1>2, <1>3, <1>4 DEF TransportTypes
<1>6. \A s \in SendSensors : wanted'[s] >= wanted[s] /\ top'[s] >= top[s]
  BY <1>1, <1>2 DEF TransportTypes
<1>7. FollowerInv' /\ AnnouncedInv' /\ NewsInv'
  BY <1>1, FollowerStays, AnnouncedStays, NewsStay DEF TransportInv
<1>8. DataInv'
  BY <1>1, <1>2, <1>5, <1>6, DataStay DEF TransportInv
<1>9. OrderInv' /\ PropInv'
  BY <1>1, OrderStays, PropStays DEF TransportInv
<1>10. CompleteInv'
  BY <1>1, <1>2, <1>5, <1>6, CompleteStays DEF TransportInv
<1> QED
  BY <1>5, <1>7, <1>8, <1>9, <1>10 DEF TransportInv

LEMMA LookKeeps ==
  ASSUME TransportInv, Look
  PROVE  TransportInv'
<1> DEFINE newest == readSSM(top[Here], -1)
           late   == newest - wanted[Here] > Num \div 2
           skip   == newest - Num \div 2
<1>1. /\ UNCHANGED followerVars
      /\ ids' = ids /\ net' = net /\ uid' = uid /\ top' = top
      /\ alive' = alive /\ regs' = regs /\ prop' = prop /\ copy' = copy
  BY DEF Look, receiverVars
<1>2. TransportTypes /\ ~looked /\ wanted[Here] > 0
  BY DEF TransportInv, Look
<1>3. /\ Here \in SendSensors /\ wanted[Here] \in Nat /\ wanted \in [SendSensors -> Nat]
      /\ top[Here] \in Int /\ turn \in DOMAIN File
  BY <1>2, SensorsHere DEF TransportTypes
<1>4. newest \in Int /\ newest >= -1 /\ (newest # -1 => newest = top[Here])
  BY <1>3, ReadNewest
<1>5. \/ /\ late /\ wanted' = [wanted EXCEPT ![Here] = skip] /\ Advance /\ looked' = looked
      \/ ~late /\ looked' = TRUE /\ turn' = turn /\ wanted' = wanted
  BY DEF Look
<1> HIDE DEF newest
<1>6. late => newest = top[Here] /\ skip \in Nat /\ skip > wanted[Here]
  BY <1>2, <1>3, <1>4, HalfIsNat
<1>7. /\ wanted' \in [SendSensors -> Nat] /\ turn' \in DOMAIN File
      /\ \A s \in SendSensors : wanted'[s] >= wanted[s] /\ (s # Here => wanted'[s] = wanted[s])
  <2>1. CASE late
    <3>1. wanted' = [wanted EXCEPT ![Here] = skip] /\ turn' \in DOMAIN File
      BY <1>3, <1>5, <2>1, NextSensor
    <3> HIDE DEF skip
    <3> QED
      BY <1>3, <1>6, <2>1, <3>1
  <2>2. CASE ~late
    BY <1>3, <1>5, <2>2
  <2> QED
    BY <2>1, <2>2
<1>8. \A s \in SendSensors : wanted'[s] > 0 <=> wanted[s] > 0
  <2> TAKE s \in SendSensors
  <2>1. wanted[s] \in Nat /\ wanted'[s] \in Nat /\ wanted'[s] >= wanted[s]
    BY <1>3, <1>7
  <2>2. CASE s = Here
    BY <1>2, <2>1, <2>2
  <2>3. CASE s # Here
    BY <1>7, <2>3
  <2> QED
    BY <2>2, <2>3
<1>9. TransportTypes'
  <2>1. looked' => wanted'[Here'] > 0
    <3>1. looked' => turn' = turn /\ wanted' = wanted
      BY <1>2, <1>5
    <3> QED
      BY <1>2, <3>1 DEF Here
  <2> QED
    BY <1>1, <1>2, <1>7, <2>1 DEF TransportTypes
<1>10. FollowerInv' /\ AnnouncedInv' /\ NewsInv'
  BY <1>1, <1>8, FollowerStays, AnnouncedStays, NewsStay DEF TransportInv
<1>11. DataInv'
  BY <1>1, <1>2, <1>7, <1>9, DataStay DEF TransportInv
<1>12. OrderInv' /\ PropInv'
  BY <1>1, OrderStays, PropStays DEF TransportInv
<1>13. CompleteInv'
  <2>1. \A n, t : WasSent(n, t)' <=> WasSent(n, t)
    BY <1>1 DEF WasSent, InCopy, InNet, IsData
  <2> SUFFICES ASSUME NEW n \in DOMAIN ids, NEW u \in Nat, NEW t \in Nat,
                      WasSent(n, u), u <= t, t < wanted'[ids[n]], ~WasSent(n, t)
               PROVE  t < top[ids[n]] - Num \div 2
    BY <1>1, <2>1 DEF CompleteInv
  <2>2. CASE t < wanted[ids[n]]
    BY <2>2 DEF CompleteInv, TransportInv
  <2>3. CASE ~(t < wanted[ids[n]])
    <3>1. ids[n] \in SendSensors /\ wanted[ids[n]] \in Nat /\ wanted'[ids[n]] \in Nat
      BY <1>2, <1>7 DEF TransportTypes
    <3>2. ids[n] = Here /\ wanted' # wanted
      BY <1>7, <2>3, <3>1
    <3>3. late /\ wanted'[Here] = skip
      <4> HIDE DEF skip
      <4> QED
        BY <1>3, <1>5, <3>2
    <3>4. wanted'[Here] = top[Here] - Num \div 2
      BY <1>6, <3>3
    <3> QED
      BY <3>2, <3>4
  <2> QED
    BY <2>2, <2>3
<1> QED
  BY <1>9, <1>10, <1>11, <1>12, <1>13 DEF TransportInv

LEMMA AnnounceKeeps ==
  ASSUME TransportInv, Announce
  PROVE  TransportInv'
<1> DEFINE L  == Len(net)
           K  == Len(ids)
           new  == News(Here)
           info == Property(Here)
<1>1. /\ UNCHANGED followerVars
      /\ uid' = uid /\ top' = top /\ looked' = looked
      /\ net' = net \o <<new, info>> \/ net' = net \o <<new>>
      /\ ids' = Append(ids, Here)
      /\ alive' = alive /\ regs' = regs /\ prop' = prop /\ copy' = copy
  BY DEF Announce, Put, receiverVars
<1>2. TransportTypes /\ AnnouncedInv /\ NewsInv /\ DataInv /\ OrderInv /\ CompleteInv /\ PropInv
  BY DEF TransportInv
<1>3. /\ Here \in SendSensors /\ wanted[Here] = 0 /\ wanted \in [SendSensors -> Nat]
      /\ top[Here] \in Int /\ turn' \in DOMAIN File /\ uid[Here] \in Nat
  BY <1>2, SensorsHere, NextSensor DEF TransportTypes, Announce
<1>4. new \in Messages /\ info \in Messages
  <2>1. 0 \in Nat
    OBVIOUS
  <2> QED
    BY <1>3, <2>1 DEF Messages, News, Property
<1>5. /\ new.type = "SSMT_NEW" /\ new.body = Here
      /\ info.type = "SSMT_PROPERTY" /\ info.body = Here /\ info.id = uid[Here]
  BY DEF News, Property
<1>6. /\ net \in Seq(Messages) /\ L \in Nat /\ \A j \in DOMAIN net : j \in Nat /\ j <= L
      /\ ids \in Seq(SendSensors) /\ K \in Nat /\ DOMAIN ids = 1 .. K
  BY <1>2 DEF TransportTypes
<1> HIDE DEF new, info
<1>7. /\ net' \in Seq(Messages) /\ DOMAIN net' \subseteq DOMAIN net \cup {L + 1, L + 2}
      /\ DOMAIN net \cup {L + 1} \subseteq DOMAIN net' /\ net'[L + 1] = new
      /\ L + 2 \in DOMAIN net' => net'[L + 2] = info
      /\ \A j \in DOMAIN net : net'[j] = net[j]
  <2>1. CASE net' = net \o <<new, info>>
    BY <1>4, <1>6, <2>1, PutTwoFacts
  <2>2. CASE net' = net \o <<new>>
    <3>1. /\ net' \in Seq(Messages) /\ DOMAIN net' = DOMAIN net \cup {L + 1}
          /\ net'[L + 1] = new /\ \A j \in DOMAIN net : net'[j] = net[j]
      BY <1>4, <1>6, <2>2, PutFacts
    <3> QED
      BY <1>6, <3>1
  <2> QED
    BY <1>1, <2>1, <2>2
<1>8. /\ ids' \in Seq(SendSensors) /\ DOMAIN ids' = DOMAIN ids \cup {K + 1} /\ Len(ids') = K + 1
      /\ ids'[K + 1] = Here /\ K + 1 \notin DOMAIN ids
      /\ \A n \in DOMAIN ids : ids'[n] = ids[n]
  BY <1>1, <1>3, <1>6, AppendFacts
<1> HIDE DEF L, K
<1>9. /\ wanted' \in [SendSensors -> Nat] /\ wanted'[Here] > 0
      /\ \A s \in SendSensors : wanted'[s] >= wanted[s] /\ (s # Here => wanted'[s] = wanted[s])
  <2> DEFINE newest == readSSM(top[Here], -1)
             begin  == IF newest <= 0 THEN 1 ELSE newest
  <2>1. newest \in Int
    BY <1>3, ReadNewest
  <2>2. wanted' = [wanted EXCEPT ![Here] = begin]
    BY DEF Announce
  <2> HIDE DEF newest
  <2>3. begin \in Nat /\ begin > 0
    BY <2>1
  <2> HIDE DEF begin
  <2> QED
    BY <1>3, <2>2, <2>3
<1>10. \A n \in DOMAIN ids : ids[n] # Here /\ ids[n] \in SendSensors
  <2>1. \A n \in DOMAIN ids : ids[n] \in SendSensors
    BY <1>6
  <2> QED
    BY <1>2, <1>3, <2>1 DEF AnnouncedInv
<1>11. \A j \in DOMAIN net' : IsData(j)' => j \in DOMAIN net /\ IsData(j) /\ net'[j] = net[j]
  BY <1>5, <1>7 DEF IsData
<1>12. ~looked'
  BY <1>1, <1>2, <1>3 DEF TransportTypes
<1>13. TransportTypes'
  BY <1>1, <1>2, <1>3, <1>7, <1>8, <1>9, <1>12 DEF TransportTypes
<1>14. FollowerInv'
  BY <1>1, FollowerStays DEF TransportInv
<1>15. AnnouncedInv'
  <2>1. \A m, n \in DOMAIN ids' : ids'[m] = ids'[n] => m = n
    BY <1>2, <1>8, <1>10 DEF AnnouncedInv
  <2>2. ASSUME NEW s \in SendSensors
        PROVE  wanted'[s] > 0 <=> \E n \in DOMAIN ids' : ids'[n] = s
    <3>1. CASE s = Here
      BY <1>8, <1>9, <3>1
    <3>2. CASE s # Here
      <4>1. wanted'[s] = wanted[s]
        BY <1>9, <3>2
      <4>2. (\E n \in DOMAIN ids' : ids'[n] = s) <=> \E n \in DOMAIN ids : ids[n] = s
        BY <1>8, <3>2
      <4> QED
        BY <1>2, <4>1, <4>2 DEF AnnouncedInv
    <3> QED
      BY <3>1, <3>2
  <2>3. Len(regs') <= Len(ids') /\ \A n \in DOMAIN regs' : n \in DOMAIN ids
    <3>1. Len(regs) \in Nat /\ DOMAIN regs = 1 .. Len(regs) /\ Len(regs) <= K
      BY <1>2 DEF TransportTypes, AnnouncedInv, K
    <3> QED
      BY <1>1, <1>6, <1>8, <3>1
  <2>4. \A n \in DOMAIN regs' : regs'[n] = ids'[n]
    BY <1>1, <1>2, <1>8, <2>3 DEF AnnouncedInv
  <2> QED
    BY <2>1, <2>2, <2>3, <2>4 DEF AnnouncedInv
<1>16. NewsInv'
  <2> SUFFICES ASSUME alive
               PROVE  NewsInv'
    BY <1>1 DEF NewsInv
  <2>1. /\ \A j \in DOMAIN net : IsNew(j) =>
             \E n \in DOMAIN ids : n > Len(regs) /\ net[j].body = ids[n]
        /\ \A i, j \in DOMAIN net, m, n \in DOMAIN ids :
             i < j /\ IsNew(i) /\ IsNew(j) /\ net[i].body = ids[m] /\ net[j].body = ids[n] => m < n
        /\ \A n \in DOMAIN ids : n > Len(regs) =>
             \E j \in DOMAIN net : IsNew(j) /\ net[j].body = ids[n]
        /\ \A j \in DOMAIN net : IsData(j) =>
             \/ net[j].id + 1 <= Len(regs)
             \/ \E i \in DOMAIN net : i < j /\ IsNew(i) /\ net[i].body = ids[net[j].id + 1]
    BY <1>2 DEF NewsInv
  <2>2. \A j \in DOMAIN net' : IsNew(j)' =>
          j = L + 1 \/ (j \in DOMAIN net /\ IsNew(j) /\ net'[j] = net[j])
    BY <1>5, <1>7 DEF IsNew
  <2>3. \A j \in DOMAIN net : IsNew(j) => j \in DOMAIN net' /\ IsNew(j)'
    BY <1>7 DEF IsNew
  <2>4. /\ L + 1 \in DOMAIN net' /\ net'[L + 1].type = "SSMT_NEW"
        /\ net'[L + 1].body = Here /\ ids'[K + 1] = Here
    BY <1>5, <1>7, <1>8
  <2>5. Len(regs) \in Nat /\ K + 1 > Len(regs)
    BY <1>2, <1>6 DEF AnnouncedInv, TransportTypes, K
  <2>6. ASSUME NEW j \in DOMAIN net', IsNew(j)'
        PROVE  \E n \in DOMAIN ids' : n > Len(regs') /\ net'[j].body = ids'[n]
    <3>1. CASE j = L + 1
      BY <1>1, <1>8, <2>4, <2>5, <3>1
    <3>2. CASE j # L + 1
      <4>1. j \in DOMAIN net /\ IsNew(j) /\ net'[j] = net[j]
        BY <2>2, <2>6, <3>2
      <4>2. PICK n \in DOMAIN ids : n > Len(regs) /\ net[j].body = ids[n]
        BY <2>1, <4>1
      <4>3. n \in DOMAIN ids' /\ ids'[n] = ids[n]
        BY <1>8
      <4> QED
        BY <1>1, <4>1, <4>2, <4>3
    <3> QED
      BY <3>1, <3>2
  <2>7. ASSUME NEW i \in DOMAIN net', NEW j \in DOMAIN net',
               NEW m \in DOMAIN ids', NEW n \in DOMAIN ids',
               i < j, IsNew(i)', IsNew(j)', net'[i].body = ids'[m], net'[j].body = ids'[n]
        PROVE  m < n
    <3>1. i \in DOMAIN net /\ IsNew(i) /\ net[i].body = ids'[m]
      <4>1. i # L + 1
        BY <1>6, <1>7, <2>2, <2>7
      <4> QED
        BY <2>2, <2>7, <4>1
    <3>2. m \in DOMAIN ids /\ net[i].body = ids[m]
      BY <1>8, <1>10, <2>1, <3>1
    <3>3. CASE j = L + 1
      <4>1. ids'[n] = Here
        BY <2>4, <2>7, <1>8, <3>3
      <4>2. n = K + 1
        BY <1>8, <1>10, <4>1
      <4> QED
        BY <1>6, <3>2, <4>2
    <3>4. CASE j # L + 1
      <4>1. j \in DOMAIN net /\ IsNew(j) /\ net[j].body = ids'[n]
        BY <2>2, <2>7, <3>4
      <4>2. n \in DOMAIN ids /\ net[j].body = ids[n]
        BY <1>8, <1>10, <2>1, <4>1
      <4> QED
        BY <2>1, <2>7, <3>1, <3>2, <4>1, <4>2
    <3> QED
      BY <3>3, <3>4
  <2>8. ASSUME NEW n \in DOMAIN ids', n > Len(regs')
        PROVE  \E j \in DOMAIN net' : IsNew(j)' /\ net'[j].body = ids'[n]
    <3>1. CASE n = K + 1
      BY <2>4, <3>1 DEF IsNew
    <3>2. CASE n # K + 1
      <4>1. n \in DOMAIN ids /\ n > Len(regs) /\ ids'[n] = ids[n]
        BY <1>1, <1>8, <2>8, <3>2
      <4>2. PICK j \in DOMAIN net : IsNew(j) /\ net[j].body = ids[n]
        BY <2>1, <4>1
      <4> QED
        BY <1>7, <2>3, <4>1, <4>2
    <3> QED
      BY <3>1, <3>2
  <2>9. ASSUME NEW j \in DOMAIN net', IsData(j)'
        PROVE  \/ net'[j].id + 1 <= Len(regs')
               \/ \E i \in DOMAIN net' : i < j /\ IsNew(i)' /\ net'[i].body = ids'[net'[j].id + 1]
    <3>1. j \in DOMAIN net /\ IsData(j) /\ net'[j] = net[j] /\ net[j].id + 1 \in DOMAIN ids
      BY <1>2, <1>11, <2>9 DEF DataInv
    <3>2. CASE net[j].id + 1 <= Len(regs)
      BY <1>1, <3>1, <3>2
    <3>3. CASE ~(net[j].id + 1 <= Len(regs))
      <4>1. PICK i \in DOMAIN net : i < j /\ IsNew(i) /\ net[i].body = ids[net[j].id + 1]
        BY <2>1, <3>1, <3>3
      <4> QED
        BY <1>7, <1>8, <2>3, <3>1, <4>1
    <3> QED
      BY <3>2, <3>3
  <2> QED
    BY <2>6, <2>7, <2>8, <2>9 DEF NewsInv
<1>17. DataInv'
  <2>1. \A n \in DOMAIN ids :
          /\ wanted'[ids[n]] \in Nat /\ wanted'[ids[n]] = wanted[ids[n]]
          /\ n \in DOMAIN ids' /\ ids'[n] = ids[n]
    BY <1>8, <1>9, <1>10
  <2>2. ASSUME NEW j \in DOMAIN net', IsData(j)'
        PROVE  /\ net'[j].id + 1 \in DOMAIN ids'
               /\ net'[j].body[1] = ids'[net'[j].id + 1]
               /\ net'[j].body[2] < wanted'[ids'[net'[j].id + 1]]
    <3>1. /\ net'[j] = net[j] /\ net[j].id + 1 \in DOMAIN ids
          /\ net[j].body[1] = ids[net[j].id + 1]
          /\ net[j].body[2] < wanted[ids[net[j].id + 1]]
      BY <1>2, <1>11, <2>2 DEF DataInv
    <3> QED
      BY <2>1, <3>1
  <2>3. ASSUME NEW n \in DOMAIN copy, NEW k \in DOMAIN copy[n]
        PROVE  copy[n][k][1] = ids'[n] /\ copy[n][k][2] < wanted'[ids'[n]]
    <3>1. n \in DOMAIN ids /\ copy[n][k][1] = ids[n] /\ copy[n][k][2] < wanted[ids[n]]
      BY <1>2, CopyFacts DEF DataInv
    <3> QED
      BY <2>1, <3>1
  <2> QED
    BY <1>1, <2>2, <2>3 DEF DataInv
<1>18. OrderInv'
  <2>1. \A n \in DOMAIN copy : \A j, k \in DOMAIN copy[n] : j < k => copy[n][j][2] < copy[n][k][2]
    BY <1>2 DEF OrderInv
  <2>2. ASSUME NEW n \in DOMAIN copy, NEW k \in DOMAIN copy[n], NEW j \in DOMAIN net',
               IsData(j)', net'[j].id + 1 = n
        PROVE  copy[n][k][2] < net'[j].body[2]
    BY <1>2, <1>11, <2>2 DEF OrderInv
  <2>3. ASSUME NEW j \in DOMAIN net', NEW k \in DOMAIN net',
               IsData(j)', IsData(k)', net'[j].id = net'[k].id, j < k
        PROVE  net'[j].body[2] < net'[k].body[2]
    BY <1>2, <1>11, <2>3 DEF OrderInv
  <2> QED
    BY <1>1, <2>1, <2>2, <2>3 DEF OrderInv
<1>19. \A n, t : WasSent(n, t)' => WasSent(n, t) /\ n \in DOMAIN ids
  <2>1. \A n, t : InCopy(n, t)' => InCopy(n, t) /\ n \in DOMAIN ids
    BY <1>1, <1>2, CopyFacts DEF InCopy
  <2>2. \A n, t : InNet(n, t)' => InNet(n, t) /\ n \in DOMAIN ids
    BY <1>2, <1>11 DEF InNet, DataInv
  <2> QED
    BY <2>1, <2>2 DEF WasSent
<1>20. \A n, t : WasSent(n, t) => WasSent(n, t)'
  <2>1. \A j \in DOMAIN net : IsData(j) => j \in DOMAIN net' /\ IsData(j)' /\ net'[j] = net[j]
    BY <1>7 DEF IsData
  <2> QED
    BY <1>1, <2>1 DEF WasSent, InCopy, InNet
<1>21. CompleteInv'
  <2> SUFFICES ASSUME NEW n \in DOMAIN ids', NEW u \in Nat, NEW t \in Nat,
                      WasSent(n, u)', u <= t, t < wanted'[ids'[n]]
               PROVE  WasSent(n, t)' \/ t < top'[ids'[n]] - Num \div 2
    BY DEF CompleteInv
  <2>1. WasSent(n, u) /\ n \in DOMAIN ids /\ ids'[n] = ids[n] /\ wanted'[ids[n]] = wanted[ids[n]]
    BY <1>8, <1>9, <1>10, <1>19
  <2>2. WasSent(n, t) \/ t < top[ids[n]] - Num \div 2
    BY <1>2, <2>1 DEF CompleteInv
  <2> QED
    BY <1>1, <1>20, <2>1, <2>2
<1>22. PropInv'
  <2>1. ASSUME NEW j \in DOMAIN net', net'[j].type = "SSMT_PROPERTY"
        PROVE  net'[j].id = uid'[net'[j].body] /\ \E m \in DOMAIN ids' : net'[j].body = ids'[m]
    <3>1. CASE j = L + 2
      BY <1>1, <1>5, <1>7, <1>8, <3>1
    <3>2. CASE j # L + 2
      <4>1. j \in DOMAIN net /\ net'[j] = net[j]
        BY <1>5, <1>7, <2>1, <3>2
      <4> QED
        <5>1. net[j].id = uid[net[j].body] /\ \E m \in DOMAIN ids : net[j].body = ids[m]
          BY <1>2, <2>1, <4>1 DEF PropInv
        <5> QED
          BY <1>1, <1>8, <4>1, <5>1
    <3> QED
      BY <3>1, <3>2
  <2>2. ASSUME NEW n \in DOMAIN prop', prop'[n] # NoProperty
        PROVE  \E m \in DOMAIN ids' : prop'[n] = ids'[m] /\ uid'[ids'[m]] + 1 = n
    <3>1. PICK m \in DOMAIN ids : prop[n] = ids[m] /\ uid[ids[m]] + 1 = n
      BY <1>1, <1>2, <2>2 DEF PropInv
    <3> QED
      BY <1>1, <1>8, <3>1
  <2> QED
    BY <2>1, <2>2 DEF PropInv
<1> QED
  BY <1>13, <1>14, <1>15, <1>16, <1>17, <1>18, <1>21, <1>22 DEF TransportInv

LEMMA SentAway ==
  ASSUME TransportTypes, AnnouncedInv, NEW s \in SendSensors, wanted[s] > 0
  PROVE  \E n \in DOMAIN ids :
           /\ ids[n] = s
           /\ \A t \in Nat : /\ DataMessage(s, t) \in Messages
                             /\ DataMessage(s, t).type = "SSMT_DATA"
                             /\ DataMessage(s, t).id + 1 = n
                             /\ DataMessage(s, t).body = <<s, t>>
<1> DEFINE place == CHOOSE n \in DOMAIN ids : ids[n] = s
<1>1. place \in DOMAIN ids /\ ids[place] = s
  BY DEF AnnouncedInv
<1>2. \A t : DataMessage(s, t) = [type |-> "SSMT_DATA", id |-> place - 1, body |-> <<s, t>>]
  BY DEF DataMessage
<1> HIDE DEF place
<1>3. place - 1 \in Nat /\ (place - 1) + 1 = place
  BY <1>1 DEF TransportTypes
<1>4. \A t \in Nat : <<s, t>> \in Datum
  BY DEF Datum
<1>5. \A t \in Nat : DataMessage(s, t) \in [type : {"SSMT_DATA"}, id : Nat, body : Datum]
  BY <1>2, <1>3, <1>4
<1>6. \A t \in Nat : DataMessage(s, t) \in Messages
  BY <1>5 DEF Messages
<1> QED
  BY <1>1, <1>2, <1>3, <1>6

LEMMA SendKeeps ==
  ASSUME TransportInv, Send
  PROVE  TransportInv'
<1>1. /\ UNCHANGED followerVars
      /\ uid' = uid /\ top' = top /\ ids' = ids /\ ~looked'
      /\ alive' = alive /\ regs' = regs /\ prop' = prop /\ copy' = copy
  BY DEF Send, receiverVars
<1>2. TransportTypes /\ AnnouncedInv /\ NewsInv /\ DataInv /\ OrderInv /\ CompleteInv /\ PropInv
  BY DEF TransportInv
<1>3. /\ Here \in SendSensors /\ wanted[Here] \in Nat /\ wanted[Here] > 0
      /\ wanted \in [SendSensors -> Nat] /\ top[Here] \in Int /\ turn' \in DOMAIN File
  BY <1>2, SensorsHere, NextSensor DEF TransportTypes, Send
<1> DEFINE L == Len(net)
           T == wanted[Here]
           m == DataMessage(Here, T)
<1>4. PICK N \in DOMAIN ids :
        /\ ids[N] = Here
        /\ m \in Messages /\ m.type = "SSMT_DATA" /\ m.id + 1 = N /\ m.body = <<Here, T>>
  BY <1>2, <1>3, SentAway
<1>5. m.body[1] = Here /\ m.body[2] = T /\ m.id \in Nat
  BY <1>4, MessageFacts
<1>6. CASE net' = net /\ wanted' = wanted
  <2>1. TransportTypes'
    BY <1>1, <1>2, <1>3, <1>6 DEF TransportTypes
  <2>2. \A s \in SendSensors : wanted'[s] >= wanted[s] /\ top'[s] >= top[s]
    BY <1>1, <1>2, <1>6 DEF TransportTypes
  <2>3. FollowerInv' /\ AnnouncedInv' /\ NewsInv'
    BY <1>1, <1>6, FollowerStays, AnnouncedStays, NewsStay DEF TransportInv
  <2>4. DataInv'
    BY <1>1, <1>2, <1>6, <2>1, <2>2, DataStay
  <2>5. OrderInv' /\ PropInv' /\ CompleteInv'
    BY <1>1, <1>2, <1>6, <2>1, <2>2, OrderStays, PropStays, CompleteStays
  <2> QED
    BY <2>1, <2>3, <2>4, <2>5 DEF TransportInv
<1>7. CASE net' = net \o <<m>> /\ wanted' = [wanted EXCEPT ![Here] = @ + 1]
  <2> HIDE DEF m
  <2>1. /\ net \in Seq(Messages) /\ L \in Nat /\ L + 1 \notin DOMAIN net
        /\ \A j \in DOMAIN net : j \in Nat /\ j < L + 1
    BY <1>2 DEF TransportTypes
  <2>2. /\ net' \in Seq(Messages) /\ DOMAIN net' = DOMAIN net \cup {L + 1} /\ net'[L + 1] = m
        /\ \A j \in DOMAIN net : net'[j] = net[j]
    BY <1>4, <1>7, <2>1, PutFacts
  <2> HIDE DEF L
  <2>3. /\ wanted' \in [SendSensors -> Nat] /\ wanted'[Here] = T + 1
        /\ \A s \in SendSensors : wanted'[s] >= wanted[s] /\ (s # Here => wanted'[s] = wanted[s])
    BY <1>3, <1>7
  <2> HIDE DEF T
  <2>4. T \in Nat /\ T > 0 /\ wanted[Here] = T
    BY <1>3 DEF T
  <2>5. \A j \in DOMAIN net' : j = L + 1 \/ (j \in DOMAIN net /\ net'[j] = net[j] /\ j < L + 1)
    BY <2>1, <2>2
  <2>6. TransportTypes'
    BY <1>1, <1>2, <1>3, <2>2, <2>3 DEF TransportTypes
  <2>7. FollowerInv'
    BY <1>1, FollowerStays DEF TransportInv
  <2>8. AnnouncedInv'
    <3>1. ASSUME NEW s \in SendSensors
          PROVE  wanted'[s] > 0 <=> wanted[s] > 0
      <4>1. CASE s = Here
        BY <2>3, <2>4, <4>1
      <4>2. CASE s # Here
        BY <2>3, <4>2
      <4> QED
        BY <4>1, <4>2
    <3> QED
      BY <1>1, <1>2, <3>1, AnnouncedStays
  <2>9. NewsInv'
    <3> SUFFICES ASSUME alive
                 PROVE  NewsInv'
      BY <1>1 DEF NewsInv
    <3>1. /\ \A j \in DOMAIN net : IsNew(j) =>
               \E n \in DOMAIN ids : n > Len(regs) /\ net[j].body = ids[n]
          /\ \A i, j \in DOMAIN net, a, n \in DOMAIN ids :
               i < j /\ IsNew(i) /\ IsNew(j) /\ net[i].body = ids[a] /\ net[j].body = ids[n] => a < n
          /\ \A n \in DOMAIN ids : n > Len(regs) =>
               \E j \in DOMAIN net : IsNew(j) /\ net[j].body = ids[n]
          /\ \A j \in DOMAIN net : IsData(j) =>
               \/ net[j].id + 1 <= Len(regs)
               \/ \E i \in DOMAIN net : i < j /\ IsNew(i) /\ net[i].body = ids[net[j].id + 1]
      BY <1>2 DEF NewsInv
    <3>2. \A j \in DOMAIN net' : IsNew(j)' => j \in DOMAIN net /\ IsNew(j) /\ net'[j] = net[j]
      BY <1>4, <2>2, <2>5 DEF IsNew
    <3>3. \A j \in DOMAIN net : IsNew(j) => j \in DOMAIN net' /\ IsNew(j)' /\ net'[j] = net[j]
      BY <2>2 DEF IsNew
    <3>4. ASSUME NEW j \in DOMAIN net', IsNew(j)'
          PROVE  \E n \in DOMAIN ids' : n > Len(regs') /\ net'[j].body = ids'[n]
      BY <1>1, <3>1, <3>2, <3>4
    <3>5. \A i, j \in DOMAIN net', a, n \in DOMAIN ids' :
            i < j /\ IsNew(i)' /\ IsNew(j)' /\ net'[i].body = ids'[a] /\ net'[j].body = ids'[n] => a < n
      BY <1>1, <3>1, <3>2
    <3>6. ASSUME NEW n \in DOMAIN ids', n > Len(regs')
          PROVE  \E j \in DOMAIN net' : IsNew(j)' /\ net'[j].body = ids'[n]
      BY <1>1, <3>1, <3>3, <3>6
    <3>7. ASSUME NEW j \in DOMAIN net', IsData(j)'
          PROVE  \/ net'[j].id + 1 <= Len(regs')
                 \/ \E i \in DOMAIN net' : i < j /\ IsNew(i)' /\ net'[i].body = ids'[net'[j].id + 1]
      <4>1. CASE j = L + 1
        <5>1. net'[j].id + 1 = N
          BY <1>4, <2>2, <4>1
        <5>2. CASE N <= Len(regs)
          BY <1>1, <5>1, <5>2
        <5>3. CASE ~(N <= Len(regs))
          <6>1. N \in Nat /\ Len(regs) \in Nat
            BY <1>2, <1>4 DEF TransportTypes
          <6>2. PICK i \in DOMAIN net : IsNew(i) /\ net[i].body = ids[N]
            BY <1>4, <3>1, <5>3, <6>1
          <6>3. i < j
            BY <2>1, <4>1
          <6> QED
            BY <1>1, <3>3, <5>1, <6>2, <6>3
        <5> QED
          BY <5>2, <5>3
      <4>2. CASE j # L + 1
        <5>1. j \in DOMAIN net /\ IsData(j) /\ net'[j] = net[j]
          BY <2>5, <3>7, <4>2 DEF IsData
        <5>2. CASE net[j].id + 1 <= Len(regs)
          BY <1>1, <5>1, <5>2
        <5>3. CASE ~(net[j].id + 1 <= Len(regs))
          <6>1. PICK i \in DOMAIN net : i < j /\ IsNew(i) /\ net[i].body = ids[net[j].id + 1]
            BY <3>1, <5>1, <5>3
          <6> QED
            BY <1>1, <3>3, <5>1, <6>1
        <5> QED
          BY <5>2, <5>3
      <4> QED
        BY <4>1, <4>2
    <3> QED
      BY <3>4, <3>5, <3>6, <3>7 DEF NewsInv
  <2>10. /\ \A n \in DOMAIN ids : /\ ids[n] \in SendSensors
                                  /\ wanted[ids[n]] \in Nat /\ wanted'[ids[n]] \in Nat
                                  /\ wanted'[ids[n]] >= wanted[ids[n]]
         /\ \A n \in DOMAIN ids : ids[n] = Here => n = N
    <3>1. \A n \in DOMAIN ids : ids[n] \in SendSensors
      BY <1>2 DEF TransportTypes
    <3>2. \A n \in DOMAIN ids : ids[n] = Here => n = N
      BY <1>2, <1>4 DEF AnnouncedInv
    <3> QED
      BY <1>3, <2>3, <3>1, <3>2
  <2>11. \A j \in DOMAIN net : IsData(j) => net[j].body[2] \in Nat /\ net[j].id \in Nat
    BY <2>1, MessageFacts DEF IsData
  <2>12. DataInv'
    <3>1. ASSUME NEW j \in DOMAIN net', IsData(j)'
          PROVE  /\ net'[j].id + 1 \in DOMAIN ids
                 /\ net'[j].body[1] = ids[net'[j].id + 1]
                 /\ net'[j].body[2] < wanted'[ids[net'[j].id + 1]]
      <4>1. CASE j = L + 1
        BY <1>4, <1>5, <2>2, <2>3, <2>4, <4>1
      <4>2. CASE j # L + 1
        <5>1. j \in DOMAIN net /\ IsData(j) /\ net'[j] = net[j]
          BY <2>5, <3>1, <4>2 DEF IsData
        <5>2. /\ net[j].id + 1 \in DOMAIN ids /\ net[j].body[1] = ids[net[j].id + 1]
              /\ net[j].body[2] < wanted[ids[net[j].id + 1]]
          BY <1>2, <5>1 DEF DataInv
        <5> QED
          BY <2>10, <2>11, <5>1, <5>2
      <4> QED
        BY <4>1, <4>2
    <3>2. ASSUME NEW n \in DOMAIN copy, NEW k \in DOMAIN copy[n]
          PROVE  copy[n][k][1] = ids[n] /\ copy[n][k][2] < wanted'[ids[n]]
      <4>1. /\ n \in DOMAIN ids /\ copy[n][k][1] = ids[n] /\ copy[n][k][2] < wanted[ids[n]]
            /\ copy[n][k][2] \in Nat
        BY <1>2, CopyFacts DEF DataInv
      <4> QED
        BY <2>10, <4>1
    <3> QED
      BY <1>1, <3>1, <3>2 DEF DataInv
  <2>13. OrderInv'
    <3>1. \A j \in DOMAIN net : IsData(j) /\ net[j].id + 1 = N => net[j].body[2] < T
      BY <1>2, <1>4, <2>4 DEF DataInv
    <3>2. ASSUME NEW n \in DOMAIN copy, NEW k \in DOMAIN copy[n], NEW j \in DOMAIN net',
                 IsData(j)', net'[j].id + 1 = n
          PROVE  copy[n][k][2] < net'[j].body[2]
      <4>1. CASE j = L + 1
        <5>1. n = N /\ net'[j].body[2] = T
          BY <1>4, <1>5, <2>2, <3>2, <4>1
        <5> QED
          BY <1>2, <1>4, <2>4, <5>1 DEF DataInv
      <4>2. CASE j # L + 1
        <5>1. j \in DOMAIN net /\ IsData(j) /\ net'[j] = net[j]
          BY <2>5, <3>2, <4>2 DEF IsData
        <5> QED
          BY <1>2, <3>2, <5>1 DEF OrderInv
      <4> QED
        BY <4>1, <4>2
    <3>3. ASSUME NEW j \in DOMAIN net', NEW k \in DOMAIN net',
                 IsData(j)', IsData(k)', net'[j].id = net'[k].id, j < k
          PROVE  net'[j].body[2] < net'[k].body[2]
      <4>1. j \in DOMAIN net /\ IsData(j) /\ net'[j] = net[j]
        BY <2>1, <2>2, <2>5, <3>3 DEF IsData
      <4>2. CASE k = L + 1
        <5>1. net'[k].body[2] = T /\ net[j].id + 1 = N
          BY <1>4, <1>5, <2>2, <3>3, <4>1, <4>2
        <5> QED
          BY <3>1, <4>1, <5>1
      <4>3. CASE k # L + 1
        <5>1. k \in DOMAIN net /\ IsData(k) /\ net'[k] = net[k]
          BY <2>5, <3>3, <4>3 DEF IsData
        <5> QED
          BY <1>2, <3>3, <4>1, <5>1 DEF OrderInv
      <4> QED
        BY <4>2, <4>3
    <3>4. \A n \in DOMAIN copy : \A j, k \in DOMAIN copy[n] : j < k => copy[n][j][2] < copy[n][k][2]
      BY <1>2 DEF OrderInv
    <3> QED
      BY <1>1, <3>2, <3>3, <3>4 DEF OrderInv
  <2>14. \A n, t : WasSent(n, t) => WasSent(n, t)'
    <3>1. \A j \in DOMAIN net : IsData(j) => j \in DOMAIN net' /\ IsData(j)' /\ net'[j] = net[j]
      BY <2>2 DEF IsData
    <3> QED
      BY <1>1, <3>1 DEF WasSent, InCopy, InNet
  <2>15. \A t : t = T => WasSent(N, t)'
    BY <1>4, <1>5, <2>2 DEF WasSent, InNet, IsData
  <2>16. \A n, t : WasSent(n, t)' => WasSent(n, t) \/ (n = N /\ t = T)
    <3>1. \A n, t : InNet(n, t)' => InNet(n, t) \/ (n = N /\ t = T)
      <4> SUFFICES ASSUME NEW n, NEW t, InNet(n, t)'
                   PROVE  InNet(n, t) \/ (n = N /\ t = T)
        OBVIOUS
      <4>1. PICK j \in DOMAIN net' : IsData(j)' /\ net'[j].id + 1 = n /\ net'[j].body[2] = t
        BY DEF InNet
      <4>2. CASE j = L + 1
        BY <1>4, <1>5, <2>2, <4>1, <4>2
      <4>3. CASE j # L + 1
        <5>1. j \in DOMAIN net /\ IsData(j) /\ net'[j] = net[j]
          BY <2>5, <4>1, <4>3 DEF IsData
        <5> QED
          BY <4>1, <5>1 DEF InNet
      <4> QED
        BY <4>2, <4>3
    <3>2. \A n, t : InCopy(n, t)' => InCopy(n, t)
      BY <1>1 DEF InCopy
    <3> QED
      BY <3>1, <3>2 DEF WasSent
  <2>17. CompleteInv'
    <3> SUFFICES ASSUME NEW n \in DOMAIN ids, NEW u \in Nat, NEW t \in Nat,
                        WasSent(n, u)', u <= t, t < wanted'[ids[n]], ~(WasSent(n, t)')
                 PROVE  t < top[ids[n]] - Num \div 2
      BY <1>1 DEF CompleteInv
    <3>1. t < wanted[ids[n]]
      <4>1. CASE n = N
        <5>1. t # T
          BY <2>15, <4>1
        <5>2. t < T + 1
          BY <1>4, <2>3, <4>1
        <5> QED
          BY <1>4, <2>4, <4>1, <5>1, <5>2
      <4>2. CASE n # N
        <5>1. ids[n] # Here /\ ids[n] \in SendSensors
          BY <2>10, <4>2
        <5> QED
          BY <2>3, <5>1
      <4> QED
        BY <4>1, <4>2
    <3>2. WasSent(n, u)
      <4>1. CASE n = N /\ u = T
        BY <1>4, <2>4, <3>1, <4>1
      <4> QED
        BY <2>16, <4>1
    <3> QED
      BY <1>2, <2>14, <3>1, <3>2 DEF CompleteInv
  <2>18. PropInv'
    <3>1. ASSUME NEW j \in DOMAIN net', net'[j].type = "SSMT_PROPERTY"
          PROVE  net'[j].id = uid[net'[j].body] /\ \E a \in DOMAIN ids : net'[j].body = ids[a]
      <4>1. j # L + 1
        BY <1>4, <2>2, <3>1
      <4>2. j \in DOMAIN net /\ net'[j] = net[j]
        BY <2>5, <4>1
      <4> QED
        BY <1>2, <3>1, <4>2 DEF PropInv
    <3>2. \A n \in DOMAIN prop : prop[n] # NoProperty =>
            \E a \in DOMAIN ids : prop[n] = ids[a] /\ uid[ids[a]] + 1 = n
      BY <1>2 DEF PropInv
    <3> QED
      BY <1>1, <3>1, <3>2 DEF PropInv
  <2> QED
    BY <2>6, <2>7, <2>8, <2>9, <2>12, <2>13, <2>17, <2>18 DEF TransportInv
<1>8. \/ net' = net /\ wanted' = wanted
      \/ net' = net \o <<m>> /\ wanted' = [wanted EXCEPT ![Here] = @ + 1]
  BY DEF Send, Put
<1> QED
  BY <1>6, <1>7, <1>8

-----------------------------------------------------------------------------
(* The receiver.                                                           *)

LEMMA TakeFacts ==
  ASSUME TransportTypes, NEW type, Take(type)
  PROVE  /\ alive /\ 1 \in DOMAIN net /\ net[1].type = type
         /\ Head(net) = net[1] /\ net[1] \in Messages
         /\ net' \in Seq(Messages) /\ DOMAIN net \subseteq Nat
         /\ \A j \in DOMAIN net' : j \in DOMAIN net /\ j + 1 \in DOMAIN net /\ net'[j] = net[j + 1]
         /\ \A j \in DOMAIN net : j = 1 \/ (j - 1 \in DOMAIN net' /\ net'[j - 1] = net[j])
<1>1. net \in Seq(Messages) /\ net # << >> /\ net' = Tail(net) /\ alive /\ Head(net).type = type
  BY DEF TransportTypes, Take
<1>2. /\ Tail(net) \in Seq(Messages)
      /\ 1 \in DOMAIN net /\ Head(net) = net[1] /\ Head(net) \in Messages
      /\ \A j \in DOMAIN Tail(net) : j \in DOMAIN net /\ j + 1 \in DOMAIN net /\ Tail(net)[j] = net[j + 1]
      /\ \A j \in DOMAIN net : j = 1 \/ (j - 1 \in DOMAIN Tail(net) /\ Tail(net)[j - 1] = net[j])
  BY <1>1, TailFacts
<1>3. DOMAIN net \subseteq Nat
  BY <1>1
<1> QED
  BY <1>1, <1>2, <1>3

\* A message that is no datum is taken: what was sent stays as it was.
LEMMA TakeOther ==
  ASSUME TransportInv, NEW type \in {"SSMT_NEW", "SSMT_PROPERTY"}, Take(type),
         ids' = ids, wanted' = wanted, top' = top, uid' = uid,
         \/ copy' = copy
         \/ copy' = Append(copy, << >>)
  PROVE  DataInv' /\ OrderInv' /\ CompleteInv'
<1>1. TransportTypes /\ AnnouncedInv /\ DataInv /\ OrderInv /\ CompleteInv
  BY DEF TransportInv
<1>2. /\ 1 \in DOMAIN net /\ net[1].type = type /\ DOMAIN net \subseteq Nat
      /\ \A j \in DOMAIN net' : j \in DOMAIN net /\ j + 1 \in DOMAIN net /\ net'[j] = net[j + 1]
      /\ \A j \in DOMAIN net : j = 1 \/ (j - 1 \in DOMAIN net' /\ net'[j - 1] = net[j])
  BY <1>1, TakeFacts
<1>3. \A j \in DOMAIN net' : IsData(j)' => j + 1 \in DOMAIN net /\ IsData(j + 1) /\ net'[j] = net[j + 1]
  BY <1>2 DEF IsData
<1>4. \A j \in DOMAIN net : IsData(j) => j - 1 \in DOMAIN net' /\ net'[j - 1] = net[j]
  BY <1>2 DEF IsData
<1>5. /\ \A n \in DOMAIN copy' : \A k \in DOMAIN copy'[n] :
           n \in DOMAIN copy /\ k \in DOMAIN copy[n] /\ copy'[n][k] = copy[n][k]
      /\ \A n \in DOMAIN copy : n \in DOMAIN copy' /\ copy'[n] = copy[n]
  <2>1. CASE copy' = copy
    BY <2>1
  <2>2. CASE copy' = Append(copy, << >>)
    <3>1. copy \in Seq(Seq(Datum)) /\ << >> \in Seq(Datum)
      BY <1>1 DEF TransportTypes
    <3>2. /\ DOMAIN copy' = DOMAIN copy \cup {Len(copy) + 1}
          /\ copy'[Len(copy) + 1] = << >>
          /\ \A n \in DOMAIN copy : copy'[n] = copy[n]
      BY <2>2, <3>1, AppendFacts
    <3> QED
      BY <3>2
  <2> QED
    BY <2>1, <2>2
<1>6. DataInv'
  <2>1. ASSUME NEW j \in DOMAIN net', IsData(j)'
        PROVE  /\ net'[j].id + 1 \in DOMAIN ids'
               /\ net'[j].body[1] = ids'[net'[j].id + 1]
               /\ net'[j].body[2] < wanted'[ids'[net'[j].id + 1]]
    BY <1>1, <1>3, <2>1 DEF DataInv
  <2>2. ASSUME NEW n \in DOMAIN copy', NEW k \in DOMAIN copy'[n]
        PROVE  copy'[n][k][1] = ids'[n] /\ copy'[n][k][2] < wanted'[ids'[n]]
    BY <1>1, <1>5 DEF DataInv
  <2> QED
    BY <2>1, <2>2 DEF DataInv
<1>7. OrderInv'
  <2>1. ASSUME NEW n \in DOMAIN copy', NEW j \in DOMAIN copy'[n], NEW k \in DOMAIN copy'[n], j < k
        PROVE  copy'[n][j][2] < copy'[n][k][2]
    BY <1>1, <1>5, <2>1 DEF OrderInv
  <2>2. ASSUME NEW n \in DOMAIN copy', NEW k \in DOMAIN copy'[n], NEW j \in DOMAIN net',
               IsData(j)', net'[j].id + 1 = n
        PROVE  copy'[n][k][2] < net'[j].body[2]
    BY <1>1, <1>3, <1>5, <2>2 DEF OrderInv
  <2>3. ASSUME NEW j \in DOMAIN net', NEW k \in DOMAIN net',
               IsData(j)', IsData(k)', net'[j].id = net'[k].id, j < k
        PROVE  net'[j].body[2] < net'[k].body[2]
    <3>1. j \in Nat /\ k \in Nat /\ j + 1 < k + 1
      BY <1>2, <2>3
    <3> QED
      BY <1>1, <1>3, <2>3, <3>1 DEF OrderInv
  <2> QED
    BY <2>1, <2>2, <2>3 DEF OrderInv
<1>8. \A n, t : WasSent(n, t)' <=> WasSent(n, t)
  <2>1. \A n, t : InCopy(n, t)' <=> InCopy(n, t)
    <3> SUFFICES ASSUME NEW n, NEW t
                 PROVE  InCopy(n, t)' <=> InCopy(n, t)
      OBVIOUS
    <3> QED
      BY <1>5 DEF InCopy
  <2>2. \A n, t : InNet(n, t)' => InNet(n, t)
    BY <1>3 DEF InNet
  <2>3. \A n, t : InNet(n, t) => InNet(n, t)'
    <3>1. \A j \in DOMAIN net : IsData(j) =>
            \E i \in DOMAIN net' : IsData(i)' /\ net'[i] = net[j]
      BY <1>4 DEF IsData
    <3> QED
      BY <3>1 DEF InNet
  <2> QED
    BY <2>1, <2>2, <2>3 DEF WasSent
<1>9. CompleteInv'
  BY <1>1, <1>8 DEF CompleteInv
<1> QED
  BY <1>6, <1>7, <1>9

\* A message that announces nothing is taken.
LEMMA TakeNoNews ==
  ASSUME TransportInv, NEW type \in {"SSMT_DATA", "SSMT_PROPERTY"}, Take(type),
         ids' = ids, regs' = regs
  PROVE  NewsInv'
<1>1. TransportTypes /\ NewsInv
  BY DEF TransportInv
<1>2. /\ 1 \in DOMAIN net /\ net[1].type = type /\ DOMAIN net \subseteq Nat
      /\ \A j \in DOMAIN net' : j \in DOMAIN net /\ j + 1 \in DOMAIN net /\ net'[j] = net[j + 1]
      /\ \A j \in DOMAIN net : j = 1 \/ (j - 1 \in DOMAIN net' /\ net'[j - 1] = net[j])
  BY <1>1, TakeFacts
<1>3. /\ \A j \in DOMAIN net : IsNew(j) =>
           \E n \in DOMAIN ids : n > Len(regs) /\ net[j].body = ids[n]
      /\ \A i, j \in DOMAIN net, m, n \in DOMAIN ids :
           i < j /\ IsNew(i) /\ IsNew(j) /\ net[i].body = ids[m] /\ net[j].body = ids[n] => m < n
      /\ \A n \in DOMAIN ids : n > Len(regs) =>
           \E j \in DOMAIN net : IsNew(j) /\ net[j].body = ids[n]
      /\ \A j \in DOMAIN net : IsData(j) =>
           \/ net[j].id + 1 <= Len(regs)
           \/ \E i \in DOMAIN net : i < j /\ IsNew(i) /\ net[i].body = ids[net[j].id + 1]
  BY <1>1 DEF NewsInv, Take
<1>4. \A j \in DOMAIN net' : j + 1 \in DOMAIN net /\ net'[j] = net[j + 1]
                             /\ (IsNew(j)' <=> IsNew(j + 1)) /\ (IsData(j)' <=> IsData(j + 1))
  BY <1>2 DEF IsNew, IsData
<1>5. \A j \in DOMAIN net : IsNew(j) =>
        \E i \in DOMAIN net' : i = j - 1 /\ IsNew(i)' /\ net'[i] = net[j]
  BY <1>2 DEF IsNew
<1>6. ASSUME NEW j \in DOMAIN net', IsNew(j)'
      PROVE  \E n \in DOMAIN ids' : n > Len(regs') /\ net'[j].body = ids'[n]
  BY <1>3, <1>4, <1>6
<1>7. ASSUME NEW i \in DOMAIN net', NEW j \in DOMAIN net',
             NEW m \in DOMAIN ids', NEW n \in DOMAIN ids',
             i < j, IsNew(i)', IsNew(j)', net'[i].body = ids'[m], net'[j].body = ids'[n]
      PROVE  m < n
  <2>1. i \in Nat /\ j \in Nat /\ i + 1 < j + 1
    BY <1>2, <1>7
  <2> QED
    BY <1>3, <1>4, <1>7, <2>1
<1>8. ASSUME NEW n \in DOMAIN ids', n > Len(regs')
      PROVE  \E j \in DOMAIN net' : IsNew(j)' /\ net'[j].body = ids'[n]
  <2>1. PICK j \in DOMAIN net : IsNew(j) /\ net[j].body = ids[n]
    BY <1>3, <1>8
  <2> QED
    BY <1>5, <2>1
<1>9. ASSUME NEW j \in DOMAIN net', IsData(j)'
      PROVE  \/ net'[j].id + 1 <= Len(regs')
             \/ \E i \in DOMAIN net' : i < j /\ IsNew(i)' /\ net'[i].body = ids'[net'[j].id + 1]
  <2>1. j + 1 \in DOMAIN net /\ IsData(j + 1) /\ net'[j] = net[j + 1] /\ j \in Nat
    BY <1>2, <1>4, <1>9
  <2>2. CASE net[j + 1].id + 1 <= Len(regs)
    BY <2>1, <2>2
  <2>3. CASE ~(net[j + 1].id + 1 <= Len(regs))
    <3>1. PICK i \in DOMAIN net : i < j + 1 /\ IsNew(i) /\ net[i].body = ids[net[j + 1].id + 1]
      BY <1>3, <2>1, <2>3
    <3>2. PICK h \in DOMAIN net' : h = i - 1 /\ IsNew(h)' /\ net'[h] = net[i]
      BY <1>5, <3>1
    <3>3. h < j
      BY <1>2, <2>1, <3>1, <3>2
    <3> QED
      BY <2>1, <3>1, <3>2, <3>3
  <2> QED
    BY <2>2, <2>3
<1> QED
  BY <1>6, <1>7, <1>8, <1>9 DEF NewsInv

\* No more properties are on their way than before.
LEMMA TakeKeepsProperties ==
  ASSUME TransportInv, NEW type, Take(type), ids' = ids, uid' = uid,
         \A n \in DOMAIN prop' : prop'[n] # NoProperty =>
           \E m \in DOMAIN ids : prop'[n] = ids[m] /\ uid[ids[m]] + 1 = n
  PROVE  PropInv'
<1>1. TransportTypes /\ PropInv
  BY DEF TransportInv
<1>2. \A j \in DOMAIN net' : j + 1 \in DOMAIN net /\ net'[j] = net[j + 1]
  BY <1>1, TakeFacts
<1> QED
  BY <1>1, <1>2 DEF PropInv

LEMMA RegisterKeeps ==
  ASSUME TransportInv, Register
  PROVE  TransportInv'
<1> DEFINE R == Len(regs)
           s == net[1].body
<1>1. TransportTypes /\ AnnouncedInv /\ NewsInv /\ PropInv /\ DataInv
  BY DEF TransportInv
<1>2. /\ UNCHANGED followerVars /\ Take("SSMT_NEW")
      /\ uid' = uid /\ top' = top /\ alive' = alive
      /\ turn' = turn /\ wanted' = wanted /\ looked' = looked /\ ids' = ids
  BY DEF Register, senderVars
<1>3. /\ alive /\ 1 \in DOMAIN net /\ IsNew(1) /\ net[1] \in Messages /\ Head(net) = net[1]
      /\ net' \in Seq(Messages) /\ DOMAIN net \subseteq Nat
      /\ \A j \in DOMAIN net' : j \in DOMAIN net /\ j + 1 \in DOMAIN net /\ net'[j] = net[j + 1]
      /\ \A j \in DOMAIN net : j = 1 \/ (j - 1 \in DOMAIN net' /\ net'[j - 1] = net[j])
  BY <1>1, <1>2, TakeFacts DEF IsNew
<1>4. s \in SendSensors
  BY <1>3, MessageFacts DEF IsNew
<1>5. regs' = Append(regs, s) /\ prop' = Append(prop, NoProperty) /\ copy' = Append(copy, << >>)
  BY <1>3 DEF Register
<1>6. /\ regs \in Seq(SendSensors) /\ prop \in Seq(SendSensors \cup {NoProperty})
      /\ copy \in Seq(Seq(Datum))
      /\ R \in Nat /\ Len(prop) = R /\ Len(copy) = R /\ DOMAIN regs = 1 .. R
  BY <1>1 DEF TransportTypes
<1> HIDE DEF R, s
<1>7. /\ regs' \in Seq(SendSensors) /\ Len(regs') = R + 1 /\ DOMAIN regs' = DOMAIN regs \cup {R + 1}
      /\ regs'[R + 1] = s /\ \A n \in DOMAIN regs : regs'[n] = regs[n]
  BY <1>4, <1>5, <1>6, AppendFacts DEF R
<1>8. /\ prop' \in Seq(SendSensors \cup {NoProperty}) /\ Len(prop') = R + 1
      /\ DOMAIN prop' = DOMAIN prop \cup {R + 1}
      /\ prop'[R + 1] = NoProperty /\ \A n \in DOMAIN prop : prop'[n] = prop[n]
  BY <1>5, <1>6, AppendFacts
<1>9. copy' \in Seq(Seq(Datum)) /\ Len(copy') = R + 1
  <2>1. << >> \in Seq(Datum)
    OBVIOUS
  <2> QED
    BY <1>5, <1>6, <2>1, AppendFacts
<1>10. TransportTypes'
  BY <1>1, <1>2, <1>3, <1>7, <1>8, <1>9 DEF TransportTypes, Here
<1>11. FollowerInv'
  BY <1>2, FollowerStays DEF TransportInv
<1>12. DataInv' /\ OrderInv' /\ CompleteInv'
  BY <1>2, <1>5, TakeOther
<1>13. /\ \A j \in DOMAIN net : IsNew(j) =>
            \E n \in DOMAIN ids : n > R /\ net[j].body = ids[n]
       /\ \A i, j \in DOMAIN net, m, n \in DOMAIN ids :
            i < j /\ IsNew(i) /\ IsNew(j) /\ net[i].body = ids[m] /\ net[j].body = ids[n] => m < n
       /\ \A n \in DOMAIN ids : n > R =>
            \E j \in DOMAIN net : IsNew(j) /\ net[j].body = ids[n]
       /\ \A j \in DOMAIN net : IsData(j) =>
            \/ net[j].id + 1 <= R
            \/ \E i \in DOMAIN net : i < j /\ IsNew(i) /\ net[i].body = ids[net[j].id + 1]
  BY <1>1, <1>3 DEF NewsInv, R
<1>14. DOMAIN ids = 1 .. Len(ids) /\ Len(ids) \in Nat /\ R <= Len(ids) /\ \A n \in DOMAIN ids : n \in Nat
  BY <1>1 DEF TransportTypes, AnnouncedInv, R
\* The message at the head announces the next sensor in the order of the ids.
<1>15. R + 1 \in DOMAIN ids /\ s = ids[R + 1]
  <2>1. PICK n \in DOMAIN ids : n > R /\ s = ids[n]
    BY <1>3, <1>13 DEF s
  <2>2. R + 1 \in DOMAIN ids /\ R + 1 > R
    BY <1>6, <1>14, <2>1
  <2>3. PICK j \in DOMAIN net : IsNew(j) /\ net[j].body = ids[R + 1]
    BY <1>13, <2>2
  <2>4. CASE j = 1
    BY <2>2, <2>3, <2>4 DEF s
  <2>5. CASE j # 1
    <3>1. 1 < j
      <4>1. 1 \in Nat /\ j \in Nat /\ net \in Seq(Messages)
        BY <1>1, <1>3 DEF TransportTypes
      <4> QED
        BY <2>3, <2>5, <4>1
    <3>2. n < R + 1
      BY <1>3, <1>13, <2>1, <2>2, <2>3, <3>1 DEF s
    <3> QED
      BY <1>6, <1>14, <2>1, <3>2
  <2> QED
    BY <2>4, <2>5
<1>16. AnnouncedInv'
  <2>1. \A n \in DOMAIN regs' : regs'[n] = ids'[n]
    BY <1>1, <1>2, <1>7, <1>15 DEF AnnouncedInv
  <2>2. Len(regs') <= Len(ids')
    BY <1>2, <1>6, <1>7, <1>14, <1>15
  <2> QED
    BY <1>1, <1>2, <2>1, <2>2 DEF AnnouncedInv
<1>17. NewsInv'
  <2>1. \A j \in DOMAIN net' : j + 1 \in DOMAIN net /\ net'[j] = net[j + 1] /\ j \in Nat /\ 1 < j + 1
                               /\ (IsNew(j)' <=> IsNew(j + 1)) /\ (IsData(j)' <=> IsData(j + 1))
    <3>1. \A j \in DOMAIN net' : j \in Nat /\ 1 < j + 1
      BY <1>3
    <3> QED
      BY <1>3, <3>1 DEF IsNew, IsData
  <2>2. \A j \in DOMAIN net : IsNew(j) /\ j # 1 =>
          \E i \in DOMAIN net' : i = j - 1 /\ IsNew(i)' /\ net'[i] = net[j]
    BY <1>3 DEF IsNew
  <2>3. net[1].body = ids[R + 1] /\ \A m, n \in DOMAIN ids : ids[m] = ids[n] => m = n
    BY <1>1, <1>15 DEF AnnouncedInv, s
  <2>4. ASSUME NEW j \in DOMAIN net', IsNew(j)'
        PROVE  \E n \in DOMAIN ids' : n > Len(regs') /\ net'[j].body = ids'[n]
    <3>1. IsNew(j + 1) /\ j + 1 \in DOMAIN net /\ 1 < j + 1 /\ net'[j] = net[j + 1]
      BY <2>1, <2>4
    <3>2. PICK n \in DOMAIN ids : n > R /\ net[j + 1].body = ids[n]
      BY <1>13, <3>1
    <3>3. R + 1 < n
      BY <1>3, <1>13, <1>15, <2>3, <3>1, <3>2
    <3> QED
      BY <1>2, <1>7, <3>1, <3>2, <3>3
  <2>5. ASSUME NEW i \in DOMAIN net', NEW j \in DOMAIN net',
               NEW m \in DOMAIN ids', NEW n \in DOMAIN ids',
               i < j, IsNew(i)', IsNew(j)', net'[i].body = ids'[m], net'[j].body = ids'[n]
        PROVE  m < n
    <3>1. i + 1 < j + 1
      BY <2>1, <2>5
    <3> QED
      BY <1>2, <1>13, <2>1, <2>5, <3>1
  <2>6. ASSUME NEW n \in DOMAIN ids', n > Len(regs')
        PROVE  \E j \in DOMAIN net' : IsNew(j)' /\ net'[j].body = ids'[n]
    <3>1. n \in DOMAIN ids /\ n > R /\ n # R + 1
      BY <1>2, <1>6, <1>7, <1>14, <2>6
    <3>2. PICK j \in DOMAIN net : IsNew(j) /\ net[j].body = ids[n]
      BY <1>13, <3>1
    <3>3. j # 1
      BY <1>15, <2>3, <3>1, <3>2
    <3> QED
      BY <1>2, <2>2, <3>2, <3>3
  <2>7. ASSUME NEW j \in DOMAIN net', IsData(j)'
        PROVE  \/ net'[j].id + 1 <= Len(regs')
               \/ \E i \in DOMAIN net' : i < j /\ IsNew(i)' /\ net'[i].body = ids'[net'[j].id + 1]
    <3>1. j + 1 \in DOMAIN net /\ IsData(j + 1) /\ net'[j] = net[j + 1] /\ j \in Nat
      BY <2>1, <2>7
    <3>2. net[j + 1].id \in Nat /\ net[j + 1].id + 1 \in DOMAIN ids
      <4>1. net[j + 1] \in Messages
        BY <1>1, <3>1 DEF TransportTypes
      <4> QED
        BY <1>1, <3>1, <4>1, MessageFacts DEF DataInv
    <3>3. CASE net[j + 1].id + 1 <= R + 1
      BY <1>7, <3>1, <3>3
    <3>4. CASE ~(net[j + 1].id + 1 <= R + 1)
      <4>1. ~(net[j + 1].id + 1 <= R) /\ net[j + 1].id + 1 # R + 1
        BY <1>6, <3>2, <3>4
      <4>2. PICK i \in DOMAIN net : i < j + 1 /\ IsNew(i) /\ net[i].body = ids[net[j + 1].id + 1]
        BY <1>13, <3>1, <4>1
      <4>3. i # 1
        BY <1>15, <2>3, <3>2, <4>1, <4>2
      <4>4. PICK h \in DOMAIN net' : h = i - 1 /\ IsNew(h)' /\ net'[h] = net[i]
        BY <2>2, <4>2, <4>3
      <4>5. h < j
        BY <1>3, <3>1, <4>2, <4>4
      <4> QED
        BY <1>2, <3>1, <4>2, <4>4, <4>5
    <3> QED
      BY <3>3, <3>4
  <2> QED
    BY <2>4, <2>5, <2>6, <2>7 DEF NewsInv
<1>18. PropInv'
  <2>1. ASSUME NEW n \in DOMAIN prop', prop'[n] # NoProperty
        PROVE  \E m \in DOMAIN ids : prop'[n] = ids[m] /\ uid[ids[m]] + 1 = n
    BY <1>1, <1>8, <2>1 DEF PropInv
  <2> QED
    BY <1>2, <2>1, TakeKeepsProperties
<1> QED
  BY <1>10, <1>11, <1>12, <1>16, <1>17, <1>18 DEF TransportInv

LEMMA RefuseKeeps ==
  ASSUME TransportInv, Refuse
  PROVE  TransportInv'
<1>1. TransportTypes /\ AnnouncedInv /\ PropInv
  BY DEF TransportInv
<1>2. /\ UNCHANGED followerVars /\ Take("SSMT_NEW") /\ ~alive'
      /\ uid' = uid /\ top' = top /\ regs' = regs /\ prop' = prop /\ copy' = copy
      /\ turn' = turn /\ wanted' = wanted /\ looked' = looked /\ ids' = ids
  BY DEF Refuse, senderVars
<1>3. net' \in Seq(Messages)
  BY <1>1, <1>2, TakeFacts
<1>4. TransportTypes'
  BY <1>1, <1>2, <1>3 DEF TransportTypes, Here
<1>5. FollowerInv'
  BY <1>2, FollowerStays DEF TransportInv
<1>6. DataInv' /\ OrderInv' /\ CompleteInv'
  BY <1>2, TakeOther
<1>7. AnnouncedInv'
  BY <1>1, <1>2, AnnouncedStays
<1>8. NewsInv'
  BY <1>2 DEF NewsInv
<1>9. PropInv'
  BY <1>1, <1>2, TakeKeepsProperties DEF PropInv
<1> QED
  BY <1>4, <1>5, <1>6, <1>7, <1>8, <1>9 DEF TransportInv

LEMMA PropertyKeeps ==
  ASSUME TransportInv, SetProperty \/ StraySetProperty
  PROVE  TransportInv'
<1>1. TransportTypes /\ AnnouncedInv /\ PropInv
  BY DEF TransportInv
<1>2. /\ UNCHANGED followerVars /\ Take("SSMT_PROPERTY")
      /\ uid' = uid /\ top' = top /\ regs' = regs /\ copy' = copy
      /\ turn' = turn /\ wanted' = wanted /\ looked' = looked /\ ids' = ids
  BY DEF SetProperty, StraySetProperty, senderVars
<1>3. /\ net' \in Seq(Messages) /\ net[1] \in Messages /\ Head(net) = net[1] /\ 1 \in DOMAIN net
      /\ net[1].type = "SSMT_PROPERTY"
  BY <1>1, <1>2, TakeFacts
<1>4. /\ net[1].body \in SendSensors /\ net[1].id = uid[net[1].body]
      /\ \E m \in DOMAIN ids : net[1].body = ids[m]
  BY <1>1, <1>3, MessageFacts DEF PropInv
<1>5. Addressed = net[1].id + 1
  BY <1>3 DEF Addressed
<1>6. \/ prop' = [prop EXCEPT ![Addressed] = net[1].body]
      \/ prop' = prop
  BY <1>3 DEF SetProperty, StraySetProperty
<1>7. prop' \in Seq(SendSensors \cup {NoProperty}) /\ Len(prop') = Len(regs)
  <2>1. prop \in Seq(SendSensors \cup {NoProperty}) /\ Len(prop) = Len(regs)
    BY <1>1 DEF TransportTypes
  <2> QED
    BY <1>4, <1>6, <2>1
<1>8. TransportTypes'
  BY <1>1, <1>2, <1>3, <1>7 DEF TransportTypes, Here
<1>9. FollowerInv'
  BY <1>2, FollowerStays DEF TransportInv
<1>10. DataInv' /\ OrderInv' /\ CompleteInv'
  BY <1>2, TakeOther
<1>11. AnnouncedInv'
  BY <1>1, <1>2, AnnouncedStays
<1>12. NewsInv'
  BY <1>2, TakeNoNews
<1>13. ASSUME NEW n \in DOMAIN prop', prop'[n] # NoProperty
       PROVE  \E m \in DOMAIN ids : prop'[n] = ids[m] /\ uid[ids[m]] + 1 = n
  <2>1. n \in DOMAIN prop
    BY <1>6, <1>13
  <2>2. CASE prop'[n] = prop[n]
    BY <1>1, <1>13, <2>1, <2>2 DEF PropInv
  <2>3. CASE prop'[n] # prop[n]
    <3>1. n = net[1].id + 1 /\ prop'[n] = net[1].body
      BY <1>5, <1>6, <2>1, <2>3
    <3> QED
      BY <1>4, <3>1
  <2> QED
    BY <2>2, <2>3
<1>14. PropInv'
  BY <1>2, <1>13, TakeKeepsProperties
<1> QED
  BY <1>8, <1>9, <1>10, <1>11, <1>12, <1>14 DEF TransportInv

LEMMA WriteCopyKeeps ==
  ASSUME TransportInv, WriteCopy
  PROVE  TransportInv'
<1> DEFINE d == net[1].body
<1>1. TransportTypes /\ AnnouncedInv /\ NewsInv /\ DataInv /\ OrderInv /\ CompleteInv /\ PropInv
  BY DEF TransportInv
<1>2. /\ Take("SSMT_DATA")
      /\ uid' = uid /\ top' = top /\ alive' = alive /\ regs' = regs /\ prop' = prop
      /\ turn' = turn /\ wanted' = wanted /\ looked' = looked /\ ids' = ids
  BY DEF WriteCopy, senderVars
<1>3. /\ alive /\ 1 \in DOMAIN net /\ IsData(1) /\ net[1] \in Messages /\ Head(net) = net[1]
      /\ net' \in Seq(Messages) /\ DOMAIN net \subseteq Nat
      /\ \A j \in DOMAIN net' : j \in DOMAIN net /\ j + 1 \in DOMAIN net /\ net'[j] = net[j + 1]
      /\ \A j \in DOMAIN net : j = 1 \/ (j - 1 \in DOMAIN net' /\ net'[j - 1] = net[j])
  BY <1>1, <1>2, TakeFacts DEF IsData
<1>4. \A j \in DOMAIN net : j \in Nat /\ j >= 1
  BY <1>1 DEF TransportTypes
<1>5. d \in Datum /\ d[2] \in Nat /\ net[1].id \in Nat
  BY <1>3, MessageFacts DEF IsData
<1>6. PICK N : N = net[1].id + 1
  OBVIOUS
<1>7. N \in DOMAIN ids /\ d[1] = ids[N] /\ d[2] < wanted[ids[N]]
  BY <1>1, <1>3, <1>6 DEF DataInv
<1>8. N \in DOMAIN copy
  <2>1. N <= Len(regs)
    <3>1. \A i \in DOMAIN net : ~(i < 1)
      BY <1>4
    <3> QED
      BY <1>1, <1>3, <1>6, <3>1 DEF NewsInv
  <2>2. Len(regs) \in Nat /\ copy \in Seq(Seq(Datum)) /\ Len(copy) = Len(regs)
    BY <1>1 DEF TransportTypes
  <2> QED
    BY <1>5, <1>6, <2>1, <2>2
<1> DEFINE K == Len(copy[N])
<1>9. copy[N] \in Seq(Datum) /\ K \in Nat /\ DOMAIN copy[N] = 1 .. K
  <2>1. copy[N] \in Seq(Datum)
    BY <1>1, <1>8, CopyFacts
  <2> QED
    BY <2>1
<1>10. copy' = [copy EXCEPT ![N] = Append(copy[N], d)]
  BY <1>3, <1>6 DEF WriteCopy, Addressed
<1> HIDE DEF d, K
<1>11. /\ Append(copy[N], d) \in Seq(Datum)
       /\ DOMAIN Append(copy[N], d) = DOMAIN copy[N] \cup {K + 1}
       /\ Append(copy[N], d)[K + 1] = d
       /\ \A k \in DOMAIN copy[N] : Append(copy[N], d)[k] = copy[N][k]
  BY <1>5, <1>9, AppendFacts DEF K
<1>12. copy \in Seq(Seq(Datum)) /\ Len(copy) = Len(regs)
  BY <1>1 DEF TransportTypes
<1>13. /\ DOMAIN copy' = DOMAIN copy
       /\ copy'[N] = Append(copy[N], d)
       /\ \A n \in DOMAIN copy : n # N => copy'[n] = copy[n]
  BY <1>8, <1>10, <1>12
<1>14. copy' \in Seq(Seq(Datum)) /\ Len(copy') = Len(regs)
  <2> DEFINE c == Append(copy[N], d)
  <2>1. c \in Seq(Datum) /\ copy' = [copy EXCEPT ![N] = c]
    BY <1>10, <1>11
  <2> HIDE DEF c
  <2> QED
    BY <1>8, <1>12, <2>1
<1>15. TransportTypes'
  BY <1>1, <1>2, <1>3, <1>14 DEF TransportTypes, Here
<1>16. FollowerInv'
  <2>1. Publish \/ UNCHANGED followerVars
    BY DEF WriteCopy
  <2> QED
    BY <2>1, PublishKeeps, FollowerStays DEF TransportInv
<1>17. AnnouncedInv'
  BY <1>1, <1>2, AnnouncedStays
<1>18. NewsInv'
  BY <1>2, TakeNoNews
<1>19. PropInv'
  BY <1>1, <1>2, TakeKeepsProperties DEF PropInv
\* What is in the copies now, and what is still on its way.
<1>20. ASSUME NEW n \in DOMAIN copy, NEW k \in DOMAIN copy'[n]
       PROVE  \/ n = N /\ k = K + 1 /\ copy'[n][k] = d
              \/ k \in DOMAIN copy[n] /\ copy'[n][k] = copy[n][k] /\ (n = N => k < K + 1)
  <2>1. CASE n = N
    <3>1. \A i \in DOMAIN copy[N] : i < K + 1
      BY <1>9
    <3> QED
      BY <1>11, <1>13, <2>1, <3>1
  <2>2. CASE n # N
    BY <1>13, <2>2
  <2> QED
    BY <2>1, <2>2
<1>21. \A j \in DOMAIN net' : IsData(j)' =>
         j + 1 \in DOMAIN net /\ IsData(j + 1) /\ net'[j] = net[j + 1] /\ 1 < j + 1 /\ j \in Nat
  <2>1. \A j \in DOMAIN net' : j \in Nat /\ 1 < j + 1
    BY <1>3, <1>4
  <2> QED
    BY <1>3, <2>1 DEF IsData
<1>22. DataInv'
  <2>1. ASSUME NEW j \in DOMAIN net', IsData(j)'
        PROVE  /\ net'[j].id + 1 \in DOMAIN ids'
               /\ net'[j].body[1] = ids'[net'[j].id + 1]
               /\ net'[j].body[2] < wanted'[ids'[net'[j].id + 1]]
    BY <1>1, <1>2, <1>21, <2>1 DEF DataInv
  <2>2. ASSUME NEW n \in DOMAIN copy', NEW k \in DOMAIN copy'[n]
        PROVE  copy'[n][k][1] = ids'[n] /\ copy'[n][k][2] < wanted'[ids'[n]]
    <3>1. CASE n = N /\ copy'[n][k] = d
      BY <1>2, <1>7, <3>1
    <3>2. CASE k \in DOMAIN copy[n] /\ copy'[n][k] = copy[n][k]
      BY <1>1, <1>2, <1>13, <3>2 DEF DataInv
    <3> QED
      BY <1>13, <1>20, <3>1, <3>2
  <2> QED
    BY <2>1, <2>2 DEF DataInv
<1>23. OrderInv'
  <2>1. ASSUME NEW n \in DOMAIN copy', NEW j \in DOMAIN copy'[n], NEW k \in DOMAIN copy'[n], j < k
        PROVE  copy'[n][j][2] < copy'[n][k][2]
    <3>1. n \in DOMAIN copy
      BY <1>13
    <3>2. CASE n = N /\ k = K + 1 /\ copy'[n][k] = d
      <4>1. j # K + 1
        <5>1. K + 1 \in Nat
          BY <1>9
        <5> QED
          BY <2>1, <3>2, <5>1
      <4>2. j \in DOMAIN copy[n] /\ copy'[n][j] = copy[n][j]
        BY <1>20, <3>1, <4>1
      <4>3. copy[N][j][2] < net[1].body[2]
        BY <1>1, <1>3, <1>6, <1>8, <3>2, <4>2 DEF OrderInv
      <4> QED
        BY <3>2, <4>2, <4>3 DEF d
    <3>3. CASE k \in DOMAIN copy[n] /\ copy'[n][k] = copy[n][k] /\ (n = N => k < K + 1)
      <4>1. ~(n = N /\ j = K + 1)
        <5>1. SUFFICES ASSUME n = N, j = K + 1
                       PROVE  FALSE
          OBVIOUS
        <5>2. k < K + 1 /\ K + 1 < k /\ k \in Nat /\ K + 1 \in Nat
          BY <1>9, <2>1, <3>3, <5>1
        <5> QED
          BY <5>2
      <4>2. j \in DOMAIN copy[n] /\ copy'[n][j] = copy[n][j]
        BY <1>20, <3>1, <4>1
      <4> QED
        BY <1>1, <2>1, <3>1, <3>3, <4>2 DEF OrderInv
    <3> QED
      BY <1>20, <3>1, <3>2, <3>3
  <2>2. ASSUME NEW n \in DOMAIN copy', NEW k \in DOMAIN copy'[n], NEW j \in DOMAIN net',
               IsData(j)', net'[j].id + 1 = n
        PROVE  copy'[n][k][2] < net'[j].body[2]
    <3>1. /\ j + 1 \in DOMAIN net /\ IsData(j + 1) /\ net'[j] = net[j + 1] /\ 1 < j + 1
          /\ n \in DOMAIN copy
      BY <1>13, <1>21, <2>2
    <3>2. CASE n = N /\ copy'[n][k] = d
      <4>1. net[j + 1].id = net[1].id
        <5>1. net[j + 1].id \in Nat
          <6>1. net[j + 1] \in Messages
            BY <1>1, <3>1 DEF TransportTypes
          <6> QED
            BY <6>1, MessageFacts
        <5> QED
          BY <1>5, <1>6, <2>2, <3>1, <3>2, <5>1
      <4>2. net[1].body[2] < net[j + 1].body[2]
        BY <1>1, <1>3, <3>1, <4>1 DEF OrderInv
      <4> QED
        BY <3>1, <3>2, <4>2 DEF d
    <3>3. CASE k \in DOMAIN copy[n] /\ copy'[n][k] = copy[n][k]
      BY <1>1, <2>2, <3>1, <3>3 DEF OrderInv
    <3> QED
      BY <1>20, <3>1, <3>2, <3>3
  <2>3. ASSUME NEW j \in DOMAIN net', NEW k \in DOMAIN net',
               IsData(j)', IsData(k)', net'[j].id = net'[k].id, j < k
        PROVE  net'[j].body[2] < net'[k].body[2]
    <3>1. j + 1 < k + 1
      BY <1>21, <2>3
    <3> QED
      BY <1>1, <1>21, <2>3, <3>1 DEF OrderInv
  <2> QED
    BY <2>1, <2>2, <2>3 DEF OrderInv
<1>24. \A n, t : WasSent(n, t)' <=> WasSent(n, t)
  <2>1. ASSUME NEW n, NEW t, InCopy(n, t)
        PROVE  InCopy(n, t)'
    <3>1. PICK k \in DOMAIN copy[n] : n \in DOMAIN copy /\ copy[n][k][2] = t
      BY <2>1 DEF InCopy
    <3>2. k \in DOMAIN copy'[n] /\ copy'[n][k] = copy[n][k]
      BY <1>11, <1>13, <3>1
    <3> QED
      BY <1>13, <3>1, <3>2 DEF InCopy
  <2>2. ASSUME NEW n, NEW t, InNet(n, t)
        PROVE  WasSent(n, t)'
    <3>1. PICK j \in DOMAIN net : IsData(j) /\ net[j].id + 1 = n /\ net[j].body[2] = t
      BY <2>2 DEF InNet
    <3>2. CASE j = 1
      <4>1. n = N /\ d[2] = t /\ K + 1 \in DOMAIN copy'[N] /\ copy'[N][K + 1] = d /\ N \in DOMAIN copy'
        BY <1>6, <1>8, <1>11, <1>13, <3>1, <3>2 DEF d
      <4>2. \E k \in DOMAIN copy'[n] : copy'[n][k][2] = t
        BY <4>1
      <4> QED
        BY <4>1, <4>2 DEF WasSent, InCopy
    <3>3. CASE j # 1
      <4>1. j - 1 \in DOMAIN net' /\ net'[j - 1] = net[j]
        BY <1>3, <3>3
      <4>2. \E i \in DOMAIN net' : IsData(i)' /\ net'[i] = net[j]
        BY <3>1, <4>1 DEF IsData
      <4> QED
        BY <3>1, <4>2 DEF WasSent, InNet
    <3> QED
      BY <3>2, <3>3
  <2>3. ASSUME NEW n, NEW t, InNet(n, t)'
        PROVE  InNet(n, t)
    BY <1>21, <2>3 DEF InNet
  <2>4. ASSUME NEW n, NEW t, InCopy(n, t)'
        PROVE  WasSent(n, t)
    <3>1. PICK k \in DOMAIN copy'[n] : n \in DOMAIN copy /\ copy'[n][k][2] = t
      BY <1>13, <2>4 DEF InCopy
    <3>2. CASE n = N /\ copy'[n][k] = d
      BY <1>3, <1>6, <3>1, <3>2 DEF WasSent, InNet, d
    <3>3. CASE k \in DOMAIN copy[n] /\ copy'[n][k] = copy[n][k]
      BY <3>1, <3>3 DEF WasSent, InCopy
    <3> QED
      BY <1>20, <3>1, <3>2, <3>3
  <2> QED
    BY <2>1, <2>2, <2>3, <2>4 DEF WasSent
<1>25. CompleteInv'
  BY <1>1, <1>2, <1>24 DEF CompleteInv
<1> QED
  BY <1>15, <1>16, <1>17, <1>18, <1>19, <1>22, <1>23, <1>25 DEF TransportInv

-----------------------------------------------------------------------------
(* The theorems.                                                           *)

LEMMA TransportStarts == TransportInit => TransportInv
<1> SUFFICES ASSUME TransportInit
             PROVE  TransportInv
  OBVIOUS
<1>1. FollowerInv
  BY FollowerStarts DEF TransportInit
<1>2. /\ uid \in [SendSensors -> Nat] /\ turn = 1 /\ ~looked
      /\ top = [s \in SendSensors |-> Absent] /\ wanted = [s \in SendSensors |-> 0]
      /\ ids = << >> /\ net = << >> /\ regs = << >> /\ prop = << >> /\ copy = << >>
  BY SetupsAssumption DEF TransportInit
<1>3. 1 \in DOMAIN File
  <2>1. \E n : n \in DOMAIN File
    BY FollowedAssumption DEF SendSensors
  <2> QED
    BY <2>1, FileAssumption
<1>4. TransportTypes
  BY <1>2, <1>3 DEF TransportTypes, Absent
<1>5. AnnouncedInv
  BY <1>2 DEF AnnouncedInv
<1>6. NewsInv /\ DataInv /\ OrderInv
  BY <1>2 DEF NewsInv, DataInv, OrderInv
<1>7. CompleteInv /\ PropInv
  BY <1>2 DEF CompleteInv, PropInv
<1> QED
  BY <1>1, <1>4, <1>5, <1>6, <1>7 DEF TransportInv

\* The streams and their copies, the messages between them and the follower of a
\* copy belong together as the inductive invariant says.
THEOREM TransportInvariance == TransportSpec => []TransportInv
<1>1. TransportInv /\ [TransportNext]_transportVars => TransportInv'
  BY SourceKeeps, FollowKeeps, PassKeeps, AnnounceKeeps, LookKeeps, SendKeeps,
     RegisterKeeps, RefuseKeeps, PropertyKeeps, WriteCopyKeeps
     DEF TransportNext, ssm2tcp, tcp2ssm
<1> QED
  BY <1>1, TransportStarts, PTL DEF TransportSpec

LEMMA CopiesAreComplete == TransportInv => CopiedUnlessOld
<1> SUFFICES ASSUME TransportInv, NEW n \in DOMAIN regs
             PROVE  LET s == regs[n]
                    IN  /\ \A e \in Sent(n) : e[1] = s
                        /\ InOrder(n)
                        /\ \A e \in Sent(n) : \A t \in e[2] .. wanted[s] - 1 :
                             <<s, t>> \in Sent(n) \/ t < top[s] - Num \div 2
  BY DEF CopiedUnlessOld
<1>1. TransportTypes /\ AnnouncedInv /\ DataInv /\ OrderInv /\ CompleteInv
  BY DEF TransportInv
<1>2. n \in DOMAIN copy
  BY <1>1 DEF TransportTypes
<1>3. /\ n \in DOMAIN ids /\ regs[n] = ids[n] /\ ids[n] \in SendSensors /\ wanted[ids[n]] \in Nat
      /\ \A k \in DOMAIN copy[n] : copy[n][k] \in Datum
  BY <1>1, <1>2, CopyFacts
<1>4. \A j \in OnTheWay(n) : /\ j \in DOMAIN net /\ IsData(j) /\ net[j].id + 1 = n
                             /\ net[j].id \in Nat /\ net[j].body \in Datum
  <2>1. \A j \in DOMAIN net : net[j] \in Messages
    BY <1>1 DEF TransportTypes
  <2> QED
    BY <2>1, MessageFacts DEF OnTheWay, IsData
<1>5. \A e \in Sent(n) : e \in Datum /\ e[1] = ids[n] /\ WasSent(n, e[2])
  <2>1. \A k \in DOMAIN copy[n] : copy[n][k][1] = ids[n] /\ WasSent(n, copy[n][k][2])
    BY <1>1, <1>2 DEF DataInv, WasSent, InCopy
  <2>2. \A j \in OnTheWay(n) : net[j].body[1] = ids[n] /\ WasSent(n, net[j].body[2])
    BY <1>1, <1>4 DEF DataInv, WasSent, InNet
  <2> QED
    BY <1>3, <1>4, <2>1, <2>2 DEF Sent
<1>6. InOrder(n)
  <2>1. \A j, k \in OnTheWay(n) : net[j].id = net[k].id
    BY <1>4
  <2> QED
    BY <1>1, <1>2, <1>4, <2>1 DEF InOrder, OrderInv
<1>7. ASSUME NEW e \in Sent(n), NEW t \in e[2] .. wanted[ids[n]] - 1
      PROVE  <<ids[n], t>> \in Sent(n) \/ t < top[ids[n]] - Num \div 2
  <2>1. e[2] \in Nat /\ t \in Nat /\ e[2] <= t /\ t < wanted[ids[n]]
    <3>1. e[2] \in Nat
      BY <1>5 DEF Datum
    <3> QED
      BY <1>3, <3>1
  <2>2. WasSent(n, t) \/ t < top[ids[n]] - Num \div 2
    BY <1>1, <1>3, <1>5, <2>1 DEF CompleteInv
  <2>3. ASSUME WasSent(n, t)
        PROVE  <<ids[n], t>> \in Sent(n)
    <3>1. \A e1 \in Datum : e1 = <<e1[1], e1[2]>>
      BY DEF Datum
    <3>2. CASE InCopy(n, t)
      <4>1. PICK k \in DOMAIN copy[n] : copy[n][k][2] = t
        BY <3>2 DEF InCopy
      <4>2. copy[n][k] \in Sent(n) /\ copy[n][k] \in Datum
        BY <1>3 DEF Sent
      <4> QED
        BY <1>5, <3>1, <4>1, <4>2
    <3>3. CASE InNet(n, t)
      <4>1. PICK j \in DOMAIN net : IsData(j) /\ net[j].id + 1 = n /\ net[j].body[2] = t
        BY <3>3 DEF InNet
      <4>2. net[j].body \in Sent(n) /\ net[j].body \in Datum
        BY <1>4, <4>1 DEF Sent, OnTheWay, IsData
      <4> QED
        BY <1>5, <3>1, <4>1, <4>2
    <3> QED
      BY <2>3, <3>2, <3>3 DEF WasSent
  <2> QED
    BY <2>2, <2>3
<1> QED
  BY <1>3, <1>5, <1>6, <1>7

LEMMA PropertiesAreOwn == TransportInv => PropertyUnlessUid
<1> SUFFICES ASSUME TransportInv, \A n \in DOMAIN ids : uid[ids[n]] = n - 1,
                    NEW n \in DOMAIN regs, prop[n] # NoProperty
             PROVE  prop[n] = regs[n]
  BY DEF PropertyUnlessUid
<1>1. TransportTypes /\ AnnouncedInv /\ PropInv
  BY DEF TransportInv
<1>2. n \in DOMAIN prop /\ regs[n] = ids[n] /\ \A m \in DOMAIN ids : m \in Nat
  <2>1. /\ prop \in Seq(SendSensors \cup {NoProperty}) /\ regs \in Seq(SendSensors)
        /\ Len(prop) = Len(regs) /\ ids \in Seq(SendSensors)
    BY <1>1 DEF TransportTypes
  <2>2. n \in DOMAIN prop /\ \A m \in DOMAIN ids : m \in Nat
    BY <2>1
  <2> QED
    BY <1>1, <2>2 DEF AnnouncedInv
<1>3. PICK m \in DOMAIN ids : prop[n] = ids[m] /\ uid[ids[m]] + 1 = n
  BY <1>1, <1>2 DEF PropInv
<1>4. m = n
  BY <1>2, <1>3
<1> QED
  BY <1>2, <1>3, <1>4

\* ssmtransport and the pollers: what is passed on from stream to copy, and from
\* the copy by its follower, is in order, of the right sensor, and as complete as
\* the program promises, whatever the number of sensors and the uids.
THEOREM PassedOnHolds == TransportSpec => []PassedOn
<1>1. TransportInv => Consecutive
  BY DEF TransportInv, FollowerInv, Consecutive
<1>2. TransportInv => PassedOn
  BY <1>1, CopiesAreComplete, PropertiesAreOwn DEF PassedOn
<1> QED
  BY <1>2, TransportInvariance, PTL
===============================================================================
