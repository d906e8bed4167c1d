------------------------------ MODULE SSMStream ------------------------------
(***************************************************************************)
(* One sensor stream of the Sensor Sharing Manager: the ring of `num`      *)
(* data in shared memory, the process that fills it with writeSSM and the  *)
(* processes that read it with readSSM (libSSM.c).                         *)
(*                                                                         *)
(* There is no lock: a reader and the writer synchronise through tid_top   *)
(* alone.  Every access to shared memory is therefore a step of its own;   *)
(* memcpy moves the words of a datum one at a time, in any order.  Stores  *)
(* become visible in program order.                                        *)
(*                                                                         *)
(* A datum is abstracted to the tid it was written under: a word or a time *)
(* stamp equal to t comes from the t-th write, NoData is the zero fill of  *)
(* alloc_ssm_block.                                                        *)
(***************************************************************************)
EXTENDS Integers

CONSTANTS
  Readers,  \* the threads that call readSSM
  Words,    \* the words memcpy moves, together one datum of `size` bytes
  Num,      \* ssm_header.num, the number of slots of the ring
  MaxTid    \* bound: the last tid the writer uses

ASSUME NumAssumption == Num \in Nat \ {0}
ASSUME MaxTidAssumption == MaxTid \in Nat

SSM_MARGIN_none == 0   \* mutant: no slot in reserve
SSM_MARGIN == 1
SSM_TID_SP == 0
NoData     == SSM_TID_SP - 1
Tid        == NoData .. MaxTid
Asked      == -1 .. MaxTid + 1      \* a tid to ask for; negative is "the latest"

VARIABLES
  tid_top,  \* the newest published tid, NoData before the first
  data,     \* data[s][w]: the word w of slot s
  times,    \* times[s]: the time stamp of slot s
  wpc,      \* where the writer is in writeSSM
  wtodo,    \* the words its memcpy has still to store
  rpc,      \* rpc[r]: where reader r is in readSSM, or how its last call ended
  asked,    \* asked[r]: the tid argument of the call
  since,    \* since[r]: tid_top at the call, kept for the properties only
  tid,      \* tid[r]: the tid being read, which the call returns
  rtodo,    \* rtodo[r]: the words its memcpy has still to load
  buf,      \* buf[r]: the caller's data buffer
  stamp     \* stamp[r]: the caller's time stamp

writer == <<wpc, wtodo>>
shared == <<tid_top, data, times>>
reader == <<rpc, asked, since, tid, rtodo, buf, stamp>>
vars   == <<shared, writer, reader>>

Slot(t) == t % Num
Whole(t) == [w \in Words |-> t]

\* Mutant: the test against tid_top is forgotten.
InRegion_future(t) == t > tid_top - Num + SSM_MARGIN /\ t >= SSM_TID_SP

\* readSSM's region check: SSM_TID_SP <= tid_top-num+MARGIN < tid <= tid_top.
InRegion(t) ==
  /\ t <= tid_top
  /\ t > tid_top - Num + SSM_MARGIN
  /\ t >= SSM_TID_SP

-----------------------------------------------------------------------------
\* alloc_ssm_block: zero fill, tid_top below the first tid.
Init ==
  /\ tid_top = NoData
  /\ data = [s \in 0 .. Num - 1 |-> Whole(NoData)]
  /\ times = [s \in 0 .. Num - 1 |-> NoData]
  /\ wpc = "idle"
  /\ wtodo = {}
  /\ rpc = [r \in Readers |-> "none"]
  /\ asked = [r \in Readers |-> -1]
  /\ since = [r \in Readers |-> NoData]
  /\ tid = [r \in Readers |-> NoData]
  /\ rtodo = [r \in Readers |-> {}]
  /\ buf = [r \in Readers |-> Whole(NoData)]
  /\ stamp = [r \in Readers |-> NoData]

-----------------------------------------------------------------------------
(* writeSSM: always the slot of tid_top + 1.                               *)

\* Entry: the tid is taken and entered in the time table (module SSMTime).
BeginWrite ==
  /\ wpc = "idle"
  /\ tid_top < MaxTid
  /\ wpc' = "data"
  /\ wtodo' = Words
  /\ UNCHANGED <<shared, reader>>

\* One word of the memcpy into the ring.
StoreWord(w) ==
  /\ wpc = "data"
  /\ w \in wtodo
  /\ data' = [data EXCEPT ![Slot(tid_top + 1)][w] = tid_top + 1]
  /\ wtodo' = wtodo \ {w}
  /\ UNCHANGED <<tid_top, times, wpc, reader>>

\* Mutant: the stamp is stored, and the datum published, before the copy ends.
StoreTime_early ==
  /\ wpc = "data"
  /\ times' = [times EXCEPT ![Slot(tid_top + 1)] = tid_top + 1]
  /\ wpc' = "publish"
  /\ UNCHANGED <<tid_top, data, wtodo, reader>>

StoreTime ==
  /\ wpc = "data"
  /\ wtodo = {}
  /\ times' = [times EXCEPT ![Slot(tid_top + 1)] = tid_top + 1]
  /\ wpc' = "publish"
  /\ UNCHANGED <<tid_top, data, wtodo, reader>>

\* (shm_p->tid_top)++
Publish ==
  /\ wpc = "publish"
  /\ tid_top' = tid_top + 1
  /\ wpc' = "idle"
  /\ UNCHANGED <<data, times, wtodo, reader>>

\* The driver dies inside writeSSM; its successor's createSSM finds the sensor
\* in the server's list and attaches to the ring as it was left.
WriterRestart ==
  /\ wpc # "idle"
  /\ wpc' = "idle"
  /\ wtodo' = {}
  /\ UNCHANGED <<shared, reader>>

-----------------------------------------------------------------------------
(* readSSM                                                                 *)

InCall(r) == rpc[r] \in {"check", "copy"}

\* Mutant: tid 0 is taken for "the latest", too.
Call_zero(r, t) ==
  /\ ~InCall(r)
  /\ rpc' = [rpc EXCEPT ![r] = "check"]
  /\ asked' = [asked EXCEPT ![r] = t]
  /\ since' = [since EXCEPT ![r] = tid_top]
  /\ tid' = [tid EXCEPT ![r] = IF t <= 0 THEN tid_top ELSE t]
  /\ UNCHANGED <<shared, writer, rtodo, buf, stamp>>

\* Entry: a negative tid is replaced by tid_top.
Call(r, t) ==
  /\ ~InCall(r)
  /\ rpc' = [rpc EXCEPT ![r] = "check"]
  /\ asked' = [asked EXCEPT ![r] = t]
  /\ since' = [since EXCEPT ![r] = tid_top]
  /\ tid' = [tid EXCEPT ![r] = IF t < 0 THEN tid_top ELSE t]
  /\ UNCHANGED <<shared, writer, rtodo, buf, stamp>>

\* The region check fails: return -1.
Refuse(r) ==
  /\ rpc[r] = "check"
  /\ ~InRegion(tid[r])
  /\ rpc' = [rpc EXCEPT ![r] = "refused"]
  /\ UNCHANGED <<shared, writer, asked, since, tid, rtodo, buf, stamp>>

Accept(r) ==
  /\ rpc[r] = "check"
  /\ InRegion(tid[r])
  /\ rpc' = [rpc EXCEPT ![r] = "copy"]
  /\ rtodo' = [rtodo EXCEPT ![r] = Words]
  /\ UNCHANGED <<shared, writer, asked, since, tid, buf, stamp>>

\* One word of the memcpy out of the ring.
LoadWord(r, w) ==
  /\ rpc[r] = "copy"
  /\ w \in rtodo[r]
  /\ buf' = [buf EXCEPT ![r][w] = data[Slot(tid[r])][w]]
  /\ rtodo' = [rtodo EXCEPT ![r] = @ \ {w}]
  /\ UNCHANGED <<shared, writer, rpc, asked, since, tid, stamp>>

\* The time stamp is read last, and the tid returned: no second region check.
LoadTime(r) ==
  /\ rpc[r] = "copy"
  /\ rtodo[r] = {}
  /\ stamp' = [stamp EXCEPT ![r] = times[Slot(tid[r])]]
  /\ rpc' = [rpc EXCEPT ![r] = "got"]
  /\ UNCHANGED <<shared, writer, asked, since, tid, rtodo, buf>>

-----------------------------------------------------------------------------
Write ==
  \/ BeginWrite
  \/ \E w \in Words : StoreWord(w)
  \/ StoreTime
  \/ Publish

Read(r) ==
  \/ Refuse(r)
  \/ Accept(r)
  \/ \E w \in Words : LoadWord(r, w)
  \/ LoadTime(r)

Next ==
  \/ Write
  \/ WriterRestart
  \/ \E r \in Readers, t \in Asked : Call(r, t)
  \/ \E r \in Readers : Read(r)

Spec == Init /\ [][Next]_vars

-----------------------------------------------------------------------------
\* The range of every variable.
TypeOK ==
  /\ tid_top \in Tid
  /\ data \in [0 .. Num - 1 -> [Words -> Tid]]
  /\ times \in [0 .. Num - 1 -> Tid]
  /\ wpc \in {"idle", "data", "publish"}
  /\ wtodo \in SUBSET Words
  /\ rpc \in [Readers -> {"none", "check", "copy", "refused", "got"}]
  /\ asked \in [Readers -> Asked]
  /\ since \in [Readers -> Tid]
  /\ tid \in [Readers -> Asked]
  /\ rtodo \in [Readers -> SUBSET Words]
  /\ buf \in [Readers -> [Words -> Tid]]
  /\ stamp \in [Readers -> Tid]

\* The ring without the margin slot: every tid that readSSM may accept is
\* stored whole, also while the next one is written over the oldest, and also
\* after a writer died half way through.
PublishedIntact ==
  \A t \in 0 .. MaxTid :
    t <= tid_top /\ t > tid_top - Num + SSM_MARGIN =>
      data[Slot(t)] = Whole(t) /\ times[Slot(t)] = t

\* The caller's buffer holds the datum whose tid was returned.
Intact(r) == buf[r] = Whole(tid[r]) /\ stamp[r] = tid[r]

\* A call that returned a tid which is still inside the region delivered that
\* datum, whole and with its own time stamp.  (A caller that finds the tid
\* still readable after the call knows its copy is not torn.)
IntactUnlessLapped ==
  \A r \in Readers :
    rpc[r] = "got" /\ tid[r] > tid_top - Num + SSM_MARGIN =>
      Intact(r)

\* Written in the slot of t, as t or in a later lap.
SameOrLaterLap(v, t) == v >= t /\ Slot(v) = Slot(t)

\* What a torn copy may hold: words of the datum asked for and of the data that
\* overwrote its slot in later laps, never older ones and never another slot's.
TornOnlyByLaterLaps ==
  \A r \in Readers :
    rpc[r] = "got" =>
      /\ \A w \in Words : SameOrLaterLap(buf[r][w], tid[r])
      /\ SameOrLaterLap(stamp[r], tid[r])

-----------------------------------------------------------------------------
(* The inductive invariant behind the three properties above.              *)

\* The slot of tid_top + 1 while it is written.
WriterInv ==
  /\ wpc # "idle" => tid_top < MaxTid
  /\ wpc \in {"data", "publish"} =>
       \A w \in Words \ wtodo : data[Slot(tid_top + 1)][w] = tid_top + 1
  /\ wpc = "publish" => wtodo = {} /\ times[Slot(tid_top + 1)] = tid_top + 1

\* A slot only moves forward, in steps of a lap.
FitsSlot(v, s) ==
  /\ v # NoData => Slot(v) = s
  /\ \A t \in 0 .. MaxTid : t <= tid_top /\ Slot(t) = s => v >= t

SlotInv ==
  \A s \in 0 .. Num - 1 :
    /\ \A w \in Words : FitsSlot(data[s][w], s)
    /\ FitsSlot(times[s], s)

\* A copied value is the datum's own unless the reader was lapped meanwhile.
GoodCopy(v, t) ==
  /\ SameOrLaterLap(v, t)
  /\ t > tid_top - Num + SSM_MARGIN => v = t

ReaderInv ==
  \A r \in Readers :
    rpc[r] \in {"copy", "got"} =>
      /\ tid[r] \in 0 .. tid_top
      /\ \A w \in Words \ rtodo[r] : GoodCopy(buf[r][w], tid[r])
      /\ rpc[r] = "got" => rtodo[r] = {} /\ GoodCopy(stamp[r], tid[r])

\* The tid a call works on was fixed when it began.
CallInv ==
  \A r \in Readers :
    InCall(r) => since[r] <= tid_top /\ tid[r] = IF asked[r] < 0 THEN since[r] ELSE asked[r]

IInv == TypeOK /\ PublishedIntact /\ WriterInv /\ SlotInv /\ ReaderInv /\ CallInv

-----------------------------------------------------------------------------
\* readSSM as its callers see it.
View(r) ==
  CASE rpc[r] = "none"    -> [st |-> "none"]
    [] InCall(r)          -> [st |-> "calling", asked |-> asked[r], since |-> since[r]]
    [] rpc[r] = "refused" -> [st |-> "refused"]
    [] rpc[r] = "got"     -> [st |-> "got", tid |-> tid[r], intact |-> Intact(r)]

ClientView == [r \in Readers |-> View(r)]

History == INSTANCE SSMHistory WITH published <- tid_top, client <- ClientView

\* The stream implements the history that SSMHistory promises.
ImplementsHistory == History!Spec
=============================================================================
