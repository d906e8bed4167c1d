------------------------------- MODULE SSMServer -------------------------------
(***************************************************************************)
(* The Sensor Sharing Manager process (ssm.c) and the calls of libSSM.c    *)
(* that talk to it.  All of them share one System V message queue: a       *)
(* command goes out under MSQ_CMD with the caller's pid as its return      *)
(* address, and msgrcv takes the oldest message of the type it waits for.  *)
(* The queue is therefore one FIFO per type.  It belongs to the kernel,    *)
(* and survives the server.                                                *)
(*                                                                         *)
(* A property travels in a second message, under a type that the server    *)
(* hands out for this one transfer.  Its bytes are abstracted to the call  *)
(* that sent them, so that a mixture or an exchange shows.                 *)
(*                                                                         *)
(* The fields of a reply keep the name they have in the request; those a   *)
(* command does not use are zero.  `call`, `latest`, `base`, `misfit` and  *)
(* `mixed` are kept for the properties only.                               *)
(***************************************************************************)
EXTENDS Integers, Sequences

CONSTANTS
  Clients,      \* the threads that call libSSM
  PidOf,        \* PidOf[c]: the pid of the process of thread c
  Mortal,       \* the clients that may end in the middle of a call
  Sensors,      \* the sensors, each a name and a suid
  Ops,          \* the commands in use
  Sizes,        \* the sizes of a property, in words
  NumRes,       \* how many types get_receive_id goes through (1000 in ssm.h)
  MaxCalls,     \* bound: MaxCalls[c] calls of client c
  MaxRestarts   \* bound: restarts of the server

ASSUME NumResAssumption == NumRes \in Nat \ {0}
ASSUME SizesAssumption == Sizes \subseteq Nat
ASSUME SensorsAssumption == Sensors # {}

MSQ_CMD == 1000
MSQ_RES == 1001
ResIds  == MSQ_RES .. MSQ_RES + NumRes - 1
Types   == {MSQ_CMD} \cup ResIds \cup {PidOf[c] : c \in Clients}

NoCall == << >>
Unset  == -1      \* property == 0: never allocated

VARIABLES
  msq,      \* msq[t]: the messages of type t, oldest first
  list,     \* the SSM_List: sensor, shm_id, property size and property
  keys,     \* shm_key_num, counted over all lives of the server
  base,     \* keys at the start of this life
  spc,      \* the server: "ready" for a command, or waits for "data"
  setting,  \* which element of the list the data are for
  res_id,   \* the static id of get_receive_id
  pc,       \* pc[c]: "idle", "waiting" for the reply, or to "collect" a property
  req,      \* req[c]: the request of the call
  calls,    \* calls[c]: how many calls c has made
  result,   \* result[c]: how the last call ended
  att,      \* att[c][s]: the segment c attached for sensor s, 0 for none
  latest,   \* latest[s]: the call that sent a property of s last
  misfit,   \* a property transfer was left unfinished (see Serve and Restart)
  mixed,    \* a call began under a type that was in use (see InUse)
  restarts

server == <<list, keys, base, spc, setting, res_id, restarts>>
client == <<pc, req, calls, result, att>>
vars   == <<msq, server, client, latest, misfit, mixed>>

Call(c)   == <<c, calls[c], req[c].sensor>>
NoReq     == [op |-> "none", sensor |-> "none", size |-> 0]
NoResult  == [call |-> NoCall, op |-> "none", sensor |-> "none", ok |-> FALSE, content |-> << >>]

\* Only property_set has a size, and MCsensor_list_name the number of an element.
Numbers(op) ==
  CASE op = "set" -> Sizes [] op = "name" -> 0 .. 1 [] OTHER -> {0}
\* Some are about no sensor.
About(op) == IF op \in {"init", "num", "name"} THEN {CHOOSE s \in Sensors : TRUE} ELSE Sensors
Requests ==
  UNION {[op : {o}, sensor : About(o), size : Numbers(o)] : o \in Ops}

\* search_SSM_List: the last element of that name and suid, 0 when there is none.
Search(s) ==
  LET hits == {i \in DOMAIN list : list[i].sensor = s}
  IN  IF hits = {} THEN 0 ELSE CHOOSE i \in hits : \A j \in hits : j <= i

Init ==
  /\ msq = [t \in Types |-> << >>]
  /\ list = << >>
  /\ keys = 1 /\ base = 1          \* the common data (alloc_ssm_common_data)
  /\ spc = "ready" /\ setting = 0 /\ res_id = MSQ_RES
  /\ pc = [c \in Clients |-> "idle"]
  /\ req = [c \in Clients |-> NoReq]
  /\ calls = [c \in Clients |-> 0]
  /\ result = [c \in Clients |-> NoResult]
  /\ att = [c \in Clients |-> [s \in Sensors |-> 0]]
  /\ latest = [s \in Sensors |-> NoCall]
  /\ misfit = FALSE /\ mixed = FALSE
  /\ restarts = 0

-----------------------------------------------------------------------------
(* The server: msq_loop                                                    *)

Command == Head(msq[MSQ_CMD])

\* The command is taken from the queue and answered to its return address.
Answer(replies) ==
  msq' = [msq EXCEPT ![MSQ_CMD] = Tail(@), ![Command.from] = @ \o replies]

Reply(suid, ssize) ==
  [call |-> Command.call, suid |-> suid, ssize |-> ssize, res |-> 0, content |-> << >>]

\* property_size is 0 until there is a property; all data have the same size.
PropertySize(i) == IF list[i].psize = Unset THEN 0 ELSE list[i].psize
DataSize == 1

\* The element a query is about: a given one, or that of a sensor.
Wanted ==
  IF Command.op # "name" THEN Search(Command.sensor)
  ELSE IF Command.size < Len(list) THEN Command.size + 1 ELSE 0

\* MCinit, MCopen and the commands that ask for the list change nothing.
Found(i) ==
  IF i = 0 THEN Reply(-1, -1)
  ELSE IF Command.op = "info" THEN Reply(PropertySize(i), DataSize) ELSE Reply(list[i].shm, 0)
Query ==
  /\ Command.op \notin {"create", "set", "get"}
  /\ Answer(<<CASE Command.op = "init" -> Reply(1, 0)
               [] Command.op = "num"  -> Reply(Len(list), 0)
               [] OTHER -> Found(Wanted)>>)
  /\ UNCHANGED <<server, misfit>>

\* Mutant: no search, a create always adds to the list.
Create_blind ==
  /\ Command.op = "create"
  /\ list' = Append(list, [sensor |-> Command.sensor, shm |-> keys + 1,
                           psize |-> Unset, prop |-> << >>])
  /\ keys' = keys + 1
  /\ Answer(<<Reply(keys + 1, 0)>>)
  /\ UNCHANGED <<base, spc, setting, res_id, restarts, misfit>>

\* MCcreate: a known sensor keeps its segment, whatever size was asked for.
Create ==
  /\ Command.op = "create"
  /\ LET i == Search(Command.sensor)
     IN  IF i = 0
           THEN /\ list' = Append(list, [sensor |-> Command.sensor, shm |-> keys + 1,
                                         psize |-> Unset, prop |-> << >>])
                /\ keys' = keys + 1
                /\ Answer(<<Reply(keys + 1, 0)>>)
           ELSE Answer(<<Reply(list[i].shm, 0)>>) /\ UNCHANGED <<list, keys>>
  /\ UNCHANGED <<base, spc, setting, res_id, restarts, misfit>>

get_receive_id == IF res_id + 1 \in ResIds THEN res_id + 1 ELSE MSQ_RES

\* MCsensor_property_set: room is made once, for the first size; then the
\* caller is told where to send the data, and nobody else is served until they
\* come.
PropertySet ==
  /\ Command.op = "set"
  /\ LET i == Search(Command.sensor)
     IN  IF i = 0
           THEN Answer(<<Reply(0, 0)>>) /\ UNCHANGED <<list, spc, setting, res_id, misfit>>
           ELSE LET room == IF list[i].psize = Unset THEN Command.size ELSE list[i].psize
                IN  /\ list' = IF list[i].psize = Unset
                                 THEN [list EXCEPT ![i].psize = room,
                                                   ![i].prop = [k \in 1 .. room |-> NoCall]]
                                 ELSE list
                    /\ res_id' = get_receive_id
                    /\ Answer(<<[Reply(0, room) EXCEPT !.res = res_id']>>)
                    /\ spc' = "data" /\ setting' = i
                    /\ misfit' = (misfit \/ room = 0 \/ Command.size # room)
  /\ UNCHANGED <<keys, base, restarts>>

\* Mutant: no answer when there is no property.
PropertyGet_silent ==
  /\ Command.op = "get"
  /\ LET i == Search(Command.sensor)
     IN  IF i = 0 \/ PropertySize(i) = 0
           THEN msq' = [msq EXCEPT ![MSQ_CMD] = Tail(@)]
           ELSE Answer(<<Reply(0, list[i].psize),
                         [Reply(0, list[i].psize) EXCEPT !.content = list[i].prop]>>)
  /\ UNCHANGED <<server, misfit>>

\* MCsensor_property_get: the size, and then the property. Both go into one FIFO that the
\* caller alone reads, so it matters only for Restart that they are two.
PropertyGet ==
  /\ Command.op = "get"
  /\ LET i == Search(Command.sensor)
     IN  IF i = 0 \/ PropertySize(i) = 0
           THEN Answer(<<Reply(0, 0)>>)
           ELSE Answer(<<Reply(0, list[i].psize),
                         [Reply(0, list[i].psize) EXCEPT !.content = list[i].prop]>>)
  /\ UNCHANGED <<server, misfit>>

Serve ==
  /\ spc = "ready"
  /\ msq[MSQ_CMD] # << >>
  /\ Query \/ Create \/ PropertySet \/ PropertyGet
  /\ UNCHANGED <<client, latest, mixed>>

\* Mutant: the server goes on without waiting for the data.
TakeData_nowait ==
  /\ spc = "data"
  /\ spc' = "ready"
  /\ UNCHANGED <<msq, list, keys, base, setting, res_id, restarts, client, latest, misfit, mixed>>

\* The msgrcv of MCsensor_property_set.  Data that are longer than the room stay
\* in the queue (E2BIG), shorter ones leave the rest of the property alone.
TakeData ==
  /\ spc = "data"
  /\ msq[res_id] # << >>
  /\ LET m == Head(msq[res_id])
     IN  IF m.ssize > list[setting].psize
           THEN UNCHANGED <<msq, list>>
           ELSE /\ msq' = [msq EXCEPT ![res_id] = Tail(@)]
                /\ list' = [list EXCEPT ![setting].prop =
                              [k \in DOMAIN @ |-> IF k <= m.ssize THEN m.call ELSE @[k]]]
  /\ spc' = "ready"
  /\ UNCHANGED <<keys, base, setting, res_id, restarts, client, latest, misfit, mixed>>

\* The server is stopped and started again: every segment is released and the
\* list is lost, but not the queue, and the receive ids begin again.  A command
\* that it had taken but not answered yet, or not in full, is lost with it.
Restart ==
  /\ restarts < MaxRestarts
  /\ restarts' = restarts + 1
  /\ list' = << >>
  /\ keys' = keys + 1 /\ base' = keys + 1
  /\ \/ UNCHANGED msq /\ misfit' = (misfit \/ spc = "data")
     \/ /\ spc = "ready" /\ msq[MSQ_CMD] # << >>
        /\ misfit' = TRUE
        /\ \/ msq' = [msq EXCEPT ![MSQ_CMD] = Tail(@)]
           \/ LET i == Search(Command.sensor)
              IN  /\ Command.op = "get" /\ i # 0 /\ PropertySize(i) # 0
                  /\ Answer(<<Reply(0, list[i].psize)>>)
  /\ spc' = "ready" /\ setting' = 0 /\ res_id' = MSQ_RES
  /\ UNCHANGED <<client, latest, mixed>>

-----------------------------------------------------------------------------
(* The calls of libSSM                                                     *)

\* Replies carry the pid alone.  It is not c's alone when another thread of the
\* process is in a call (the mutex of ssmtransport.c is never taken), when a process
\* that had this pid ended in one (what was sent to it is still there, del_msg is never
\* called), or when it is one of the types that the server uses, which nothing rules out.
InUse(c) ==
  \/ \E d \in Clients \ {c} : PidOf[d] = PidOf[c] /\ pc[d] # "idle"
  \/ PidOf[c] \in {MSQ_CMD} \cup ResIds

\* Every call begins with a command, and waits.
Request(c, q) ==
  /\ pc[c] = "idle"
  /\ calls[c] < MaxCalls[c]
  /\ calls' = [calls EXCEPT ![c] = @ + 1]
  /\ req' = [req EXCEPT ![c] = q]
  /\ msq' = [msq EXCEPT ![MSQ_CMD] =
                Append(@, [op |-> q.op, sensor |-> q.sensor, size |-> q.size,
                           from |-> PidOf[c], call |-> Call(c)'])]
  /\ pc' = [pc EXCEPT ![c] = "waiting"]
  /\ mixed' = (mixed \/ InUse(c))
  /\ result' = [result EXCEPT ![c] = NoResult]
  /\ UNCHANGED <<server, att, latest, misfit>>

Inbox(c) == msq[PidOf[c]]

\* The call returns; m is the last message it received.
Return(c, m, ok) ==
  /\ pc' = [pc EXCEPT ![c] = "idle"]
  /\ result' = [result EXCEPT ![c] = [call |-> m.call, op |-> req[c].op,
                     sensor |-> req[c].sensor, ok |-> ok, content |-> m.content]]

\* createSSM and openSSM: attach the segment, if there is one.
Attach(c) ==
  LET m == Head(Inbox(c))
  IN  /\ req[c].op \in {"create", "open"}
      /\ att' = IF m.suid < 0 THEN att ELSE [att EXCEPT ![c][req[c].sensor] = m.suid]
      /\ Return(c, m, m.suid >= 0)
      /\ msq' = [msq EXCEPT ![PidOf[c]] = Tail(@)]
      /\ UNCHANGED latest

\* set_propertySSM: send the data where the reply says, and return at once.  There is
\* no type 0, which the reply to another thread's call may say: msgsnd fails unnoticed.
SendProperty(c) ==
  LET m == Head(Inbox(c))
  IN  /\ req[c].op = "set"
      /\ IF m.ssize = 0
           THEN msq' = [msq EXCEPT ![PidOf[c]] = Tail(@)] /\ UNCHANGED latest
           ELSE /\ msq' = IF m.res = 0 THEN [msq EXCEPT ![PidOf[c]] = Tail(@)]
                           ELSE [msq EXCEPT
                              ![PidOf[c]] = Tail(@),
                              ![m.res] = Append(@, [call |-> Call(c), ssize |-> req[c].size])]
                /\ latest' = [latest EXCEPT ![req[c].sensor] = Call(c)]
      /\ Return(c, m, m.ssize # 0)
      /\ UNCHANGED att

\* Mutant: the caller is content with the size.
LearnSize_only(c) ==
  LET m == Head(Inbox(c))
  IN  /\ req[c].op = "get"
      /\ msq' = [msq EXCEPT ![PidOf[c]] = Tail(@)]
      /\ Return(c, m, m.ssize # 0)
      /\ UNCHANGED <<att, latest>>

\* get_propertySSM: the size comes first.
LearnSize(c) ==
  LET m == Head(Inbox(c))
  IN  /\ req[c].op = "get"
      /\ msq' = [msq EXCEPT ![PidOf[c]] = Tail(@)]
      /\ IF m.ssize = 0
           THEN Return(c, m, FALSE)
           ELSE pc' = [pc EXCEPT ![c] = "collect"] /\ UNCHANGED result
      /\ UNCHANGED <<att, latest>>

\* initSSM, getSSM_num, getSSM_name and getSSM_info.
Learn(c) ==
  LET m == Head(Inbox(c))
  IN  /\ req[c].op \in {"init", "num", "name", "info"}
      /\ msq' = [msq EXCEPT ![PidOf[c]] = Tail(@)]
      /\ Return(c, m, m.ssize >= 0)
      /\ UNCHANGED <<att, latest>>

ReceiveReply(c) ==
  /\ pc[c] = "waiting"
  /\ Inbox(c) # << >>
  /\ Attach(c) \/ SendProperty(c) \/ LearnSize(c) \/ Learn(c)
  /\ UNCHANGED <<server, req, calls, misfit, mixed>>

\* get_propertySSM: the property.
Collect(c) ==
  /\ pc[c] = "collect"
  /\ Inbox(c) # << >>
  /\ msq' = [msq EXCEPT ![PidOf[c]] = Tail(@)]
  /\ Return(c, Head(Inbox(c)), TRUE)
  /\ UNCHANGED <<server, req, calls, att, latest, misfit, mixed>>

\* A client ends during a call; what was sent to it stays in the queue.  Another client
\* with its pid is a thread that goes on, or a later process with the same number.
Die(c) ==
  /\ c \in Mortal
  /\ pc[c] \in {"waiting", "collect"}
  /\ pc' = [pc EXCEPT ![c] = "dead"]
  /\ UNCHANGED <<msq, server, req, calls, result, att, latest, misfit, mixed>>

-----------------------------------------------------------------------------
Next ==
  \/ Serve
  \/ TakeData
  \/ Restart
  \/ \E c \in Clients :
       \/ \E q \in Requests : Request(c, q)
       \/ ReceiveReply(c)
       \/ Collect(c)
       \/ Die(c)

Spec == Init /\ [][Next]_vars

\* The server's loop goes on, and so does a caller that was answered.
FairSpec ==
  /\ Spec
  /\ WF_vars(Serve)
  /\ WF_vars(TakeData)
  /\ \A c \in Clients : WF_vars(ReceiveReply(c)) /\ WF_vars(Collect(c))
-----------------------------------------------------------------------------
\* libSSM.c says of my_pid that it "recognises the reply to oneself": a call
\* returns with the answer to this call, not to another client's and not to an
\* earlier one of its own or of another thread. (Unless a call ever began under a pid
\* that was in use: the threads of a process have to take turns.)
RepliesAreOwn ==
  ~mixed => \A c \in Clients :
    pc[c] = "idle" /\ calls[c] > 0 => result[c].call = Call(c)

\* Everyone who attached a sensor in this life of the server attached the same
\* segment, and no other sensor's. (Unless replies were mixed.)
SegmentsAgree ==
  ~mixed => \A c, d \in Clients, s, t \in Sensors :
    att[c][s] > base /\ att[d][t] > base => (att[c][s] = att[d][t] <=> s = t)

\* Between two commands the server holds, for every sensor, the whole of the
\* property that was sent last, though the setter returned before it was stored.
\* (As long as all properties of a sensor have one positive size, the server was not
\* killed during a transfer and no replies were mixed.)
PropertyCurrent ==
  spc = "ready" /\ ~misfit /\ ~mixed =>
    \A i \in DOMAIN list : \A k \in DOMAIN list[i].prop : list[i].prop[k] = latest[list[i].sensor]

\* A get that returns 1 delivers one property of that sensor, whole.
PropertyWhole ==
  \A c \in Clients :
    result[c].op = "get" /\ result[c].ok /\ ~misfit /\ ~mixed =>
      \A k \in DOMAIN result[c].content :
        /\ result[c].content[k] = result[c].content[1]
        /\ result[c].content[k] # NoCall /\ result[c].content[k][3] = result[c].sensor

\* Properties are kept and delivered whole.
PropertyKept == PropertyCurrent /\ PropertyWhole

\* Every call returns, whoever else dies in a call of his own: unless it is a
\* set_propertySSM, which the server waits for.
Undisturbed == ~misfit /\ ~mixed /\ \A c \in Clients : pc[c] = "dead" => req[c].op # "set"
CallsReturn ==
  []Undisturbed => \A c \in Clients : pc[c] # "idle" ~> pc[c] \in {"idle", "dead"}
=============================================================================
