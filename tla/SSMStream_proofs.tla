-------------------------- MODULE SSMStream_proofs ---------------------------
(***************************************************************************)
(* The inductive invariant of SSMStream, and what follows from it for      *)
(* every ring size, every set of readers and every size of datum.          *)
(***************************************************************************)
EXTENDS SSMStream, TLAPS

-----------------------------------------------------------------------------
(* Slots.  Two tids less than a ring apart have different slots.           *)

LEMMA SlotType == ASSUME NEW t \in Int PROVE Slot(t) \in 0 .. Num - 1
BY NumAssumption DEF Slot

LEMMA SlotsDiffer ==
  ASSUME NEW a \in Int, NEW b \in Int, a < b, b < a + Num
  PROVE  Slot(a) # Slot(b)
<1> DEFINE qa == a \div Num
           qb == b \div Num
<1>1. qa \in Int /\ qb \in Int
  BY NumAssumption
<1>2. a = Num * qa + Slot(a) /\ b = Num * qb + Slot(b)
  BY NumAssumption DEF Slot
<1>3. SUFFICES ASSUME Slot(a) = Slot(b) PROVE FALSE
  OBVIOUS
<1> HIDE DEF qa, qb
<1> DEFINE d == qb - qa
<1>4. d \in Int /\ qb = qa + d
  BY <1>1
<1>5. Num * qb = Num * qa + Num * d
  BY <1>1, <1>4, NumAssumption
<1>6. b - a = Num * d
  BY <1>1, <1>2, <1>3, <1>4, <1>5, SlotType, NumAssumption
<1> HIDE DEF d
<1>7. CASE d >= 1
  <2>1. Num * d >= Num
    BY <1>4, <1>7, NumAssumption
  <2>2. QED
    BY <2>1, <1>6, NumAssumption
<1>8. CASE d <= 0
  <2>1. Num * d <= 0
    BY <1>4, <1>8, NumAssumption
  <2>2. QED
    BY <2>1, <1>6, NumAssumption
<1>9. QED
  BY <1>4, <1>7, <1>8

\* The slots that the writer and the readers address exist.
LEMMA SlotsExist ==
  ASSUME TypeOK
  PROVE  /\ tid_top \in Int /\ tid_top + 1 \in Int
         /\ Slot(tid_top + 1) \in 0 .. Num - 1
         /\ \A r \in Readers : tid[r] \in Int /\ Slot(tid[r]) \in 0 .. Num - 1
<1>1. tid_top \in Int /\ tid_top + 1 \in Int
  BY MaxTidAssumption DEF TypeOK, Tid, NoData, SSM_TID_SP
<1>2. \A r \in Readers : tid[r] \in Int
  BY MaxTidAssumption DEF TypeOK, Asked
<1>3. QED
  BY ONLY <1>1, <1>2, SlotType

-----------------------------------------------------------------------------
LEMMA InitIInv == Init => IInv
<1> SUFFICES ASSUME Init PROVE IInv
  OBVIOUS
<1> USE NumAssumption, MaxTidAssumption DEF Init, Tid, NoData, SSM_TID_SP, Asked
<1>1. TypeOK
  BY DEF TypeOK, Whole
<1>2. PublishedIntact
  BY DEF PublishedIntact
<1>3. WriterInv
  BY DEF WriterInv
<1>4. SlotInv
  BY DEF SlotInv, FitsSlot, Whole
<1>5. ReaderInv
  BY DEF ReaderInv
<1>6. CallInv
  BY DEF CallInv, InCall
<1>7. QED
  BY <1>1, <1>2, <1>3, <1>4, <1>5, <1>6 DEF IInv

-----------------------------------------------------------------------------
(* Every step keeps TypeOK.                                                *)

LEMMA StepTypeOK == TypeOK /\ WriterInv /\ [Next]_vars => TypeOK'
<1> SUFFICES ASSUME TypeOK, WriterInv, [Next]_vars PROVE TypeOK'
  OBVIOUS
<1> USE NumAssumption, MaxTidAssumption
    DEF TypeOK, Tid, NoData, SSM_TID_SP, Asked, shared, writer, reader
<1>1. CASE BeginWrite
  BY <1>1 DEF BeginWrite
<1>2. ASSUME NEW w \in Words, StoreWord(w) PROVE TypeOK'
  <2>1. tid_top < MaxTid /\ tid_top + 1 \in Tid
    BY <1>2 DEF StoreWord, WriterInv
  <2>2. data' \in [0 .. Num - 1 -> [Words -> Tid]]
    BY <1>2, <2>1 DEF StoreWord
  <2>3. QED
    BY <1>2, <2>2 DEF StoreWord
<1>3. CASE StoreTime
  <2>1. tid_top < MaxTid /\ tid_top + 1 \in Tid
    BY <1>3 DEF StoreTime, WriterInv
  <2>2. times' \in [0 .. Num - 1 -> Tid]
    BY <1>3, <2>1 DEF StoreTime
  <2>3. QED
    BY <1>3, <2>2 DEF StoreTime
<1>4. CASE Publish
  BY <1>4 DEF Publish, WriterInv
<1>5. CASE WriterRestart
  BY <1>5 DEF WriterRestart
<1>6. ASSUME NEW r \in Readers, NEW t \in Asked, Call(r, t) PROVE TypeOK'
  BY <1>6, SMTT(60) DEF Call
<1>7. ASSUME NEW r \in Readers, Refuse(r) PROVE TypeOK'
  BY <1>7 DEF Refuse
<1>8. ASSUME NEW r \in Readers, Accept(r) PROVE TypeOK'
  BY <1>8 DEF Accept
<1>9. ASSUME NEW r \in Readers, NEW w \in Words, LoadWord(r, w) PROVE TypeOK'
  <2>1. data[Slot(tid[r])][w] \in Tid
    BY SlotsExist, SMTT(60)
  <2>2. buf' \in [Readers -> [Words -> Tid]]
    BY <1>9, <2>1 DEF LoadWord
  <2>3. rtodo' \in [Readers -> SUBSET Words]
    BY <1>9 DEF LoadWord
  <2>4. QED
    BY <1>9, <2>2, <2>3 DEF LoadWord
<1>10. ASSUME NEW r \in Readers, LoadTime(r) PROVE TypeOK'
  <2>1. times[Slot(tid[r])] \in Tid
    BY SlotsExist
  <2>2. QED
    BY <1>10, <2>1 DEF LoadTime
<1>11. CASE UNCHANGED vars
  BY <1>11 DEF vars
<1>12. QED
  BY <1>1, <1>2, <1>3, <1>4, <1>5, <1>6, <1>7, <1>8, <1>9, <1>10, <1>11
     DEF Next, Write, Read

-----------------------------------------------------------------------------
(* The writer's steps keep the ring in order.                              *)

\* The slot under the writer's hand belongs to no tid of the region.
LEMMA WrittenSlotOutsideRegion ==
  ASSUME TypeOK, NEW t \in Int, t <= tid_top, t > tid_top - Num + SSM_MARGIN
  PROVE  Slot(t) # Slot(tid_top + 1)
BY SlotsDiffer, NumAssumption, MaxTidAssumption
   DEF TypeOK, Tid, NoData, SSM_TID_SP, SSM_MARGIN

LEMMA StepPublishedIntact ==
  IInv /\ [Next]_vars => PublishedIntact'
<1> SUFFICES ASSUME IInv, [Next]_vars,
                    NEW t \in 0 .. MaxTid,
                    t <= tid_top', t > tid_top' - Num + SSM_MARGIN
             PROVE  data'[Slot(t)] = Whole(t) /\ times'[Slot(t)] = t
  BY DEF PublishedIntact, Slot, Whole
<1> USE NumAssumption, MaxTidAssumption DEF IInv, shared, writer, reader
<1>1. Slot(t) \in 0 .. Num - 1 /\ Slot(tid_top + 1) \in 0 .. Num - 1
  BY SlotsExist, SlotType
<1>2. ASSUME tid_top' = tid_top
      PROVE  /\ data[Slot(t)] = Whole(t) /\ times[Slot(t)] = t
             /\ Slot(t) # Slot(tid_top + 1)
  BY <1>2, WrittenSlotOutsideRegion DEF PublishedIntact
<1>3. ASSUME NEW w \in Words, StoreWord(w)
      PROVE  data'[Slot(t)] = Whole(t) /\ times'[Slot(t)] = t
  BY <1>1, <1>2, <1>3 DEF StoreWord, TypeOK
<1>4. CASE StoreTime
  BY <1>1, <1>2, <1>4 DEF StoreTime, TypeOK
<1>5. CASE Publish
  <2>1. CASE t <= tid_top
    BY <1>5, <2>1 DEF Publish, PublishedIntact, TypeOK, Tid, NoData, SSM_TID_SP, SSM_MARGIN
  <2>2. CASE t = tid_top + 1
    <3>1. \A w \in Words : data[Slot(t)][w] = t
      BY <1>5, <2>2 DEF Publish, WriterInv
    <3>2. data[Slot(t)] = Whole(t)
      BY <1>1, <3>1 DEF TypeOK, Whole
    <3>3. QED
      BY <1>5, <2>2, <3>2 DEF Publish, WriterInv
  <2>3. QED
    BY <1>5, <2>1, <2>2 DEF Publish, TypeOK, Tid, NoData, SSM_TID_SP
<1>6. CASE UNCHANGED shared
  BY <1>2, <1>6
<1>7. QED
  BY <1>3, <1>4, <1>5, <1>6
     DEF Next, Write, Read, BeginWrite, WriterRestart, Call, Refuse, Accept,
         LoadWord, LoadTime, vars

LEMMA StepWriterInv ==
  IInv /\ [Next]_vars => WriterInv'
<1> SUFFICES ASSUME IInv, [Next]_vars PROVE WriterInv'
  OBVIOUS
<1> USE NumAssumption, MaxTidAssumption
    DEF IInv, WriterInv, TypeOK, Tid, NoData, SSM_TID_SP, Slot, shared, writer, reader
<1>1. Slot(tid_top + 1) \in 0 .. Num - 1
  BY SlotsExist
<1>2. CASE BeginWrite
  BY <1>2 DEF BeginWrite
<1>3. ASSUME NEW w \in Words, StoreWord(w) PROVE WriterInv'
  <2>1. \A v \in Words \ wtodo' : data'[Slot(tid_top + 1)][v] = tid_top + 1
    <3> SUFFICES ASSUME NEW v \in Words \ wtodo'
                 PROVE  data'[Slot(tid_top + 1)][v] = tid_top + 1
      OBVIOUS
    <3>1. CASE v = w
      BY <1>1, <1>3, <3>1 DEF StoreWord
    <3>2. CASE v # w
      BY <1>1, <1>3, <3>2 DEF StoreWord
    <3>3. QED
      BY <3>1, <3>2
  <2>2. QED
    BY <1>3, <2>1 DEF StoreWord
<1>4. CASE StoreTime
  BY <1>1, <1>4 DEF StoreTime
<1>5. CASE Publish
  BY <1>5 DEF Publish
<1>6. CASE WriterRestart
  BY <1>6 DEF WriterRestart
<1>7. CASE UNCHANGED <<shared, writer>>
  BY <1>7
<1>8. QED
  BY <1>2, <1>3, <1>4, <1>5, <1>6, <1>7
     DEF Next, Write, Read, Call, Refuse, Accept, LoadWord, LoadTime, vars

LEMMA StepSlotInv ==
  IInv /\ [Next]_vars => SlotInv'
<1> SUFFICES ASSUME IInv, [Next]_vars, NEW s \in 0 .. Num - 1
             PROVE  /\ \A w \in Words : FitsSlot(data[s][w], s)'
                    /\ FitsSlot(times[s], s)'
  BY DEF SlotInv
<1> USE DEF IInv, shared, writer, reader
<1>1. /\ \A w \in Words : FitsSlot(data[s][w], s)
      /\ FitsSlot(times[s], s)
  BY DEF SlotInv
<1>2. ASSUME NEW v, FitsSlot(v, s), tid_top' = tid_top
      PROVE  /\ v # NoData => Slot(v) = s
             /\ \A t \in 0 .. MaxTid : t <= tid_top' /\ Slot(t) = s => v >= t
  BY <1>2 DEF FitsSlot
<1>3. /\ tid_top + 1 # NoData
      /\ \A t \in 0 .. MaxTid : t <= tid_top => tid_top + 1 >= t
  BY SlotsExist, MaxTidAssumption DEF TypeOK, Tid, NoData, SSM_TID_SP
<1>4. ASSUME NEW x \in Words, StoreWord(x)
      PROVE  /\ \A w \in Words : FitsSlot(data[s][w], s)'
             /\ FitsSlot(times[s], s)'
  <2>1. ASSUME NEW w \in Words
        PROVE  \/ data'[s][w] = data[s][w]
               \/ data'[s][w] = tid_top + 1 /\ Slot(tid_top + 1) = s
    BY <1>4, SlotsExist DEF StoreWord, TypeOK
  <2>2. QED
    BY <1>1, <1>3, <1>4, <2>1 DEF StoreWord, FitsSlot, Slot
<1>5. CASE StoreTime
  <2>1. \/ times'[s] = times[s]
        \/ times'[s] = tid_top + 1 /\ Slot(tid_top + 1) = s
    BY <1>5, SlotsExist DEF StoreTime, TypeOK
  <2>2. QED
    BY <1>1, <1>3, <1>5, <2>1 DEF StoreTime, FitsSlot, Slot
<1>6. CASE Publish
  <2>1. ASSUME NEW v, FitsSlot(v, s), s = Slot(tid_top + 1) => v = tid_top + 1
        PROVE  /\ v # NoData => Slot(v) = s
               /\ \A t \in 0 .. MaxTid : t <= tid_top' /\ Slot(t) = s => v >= t
    <3>1. \A t \in 0 .. MaxTid : t <= tid_top' => t <= tid_top \/ t = tid_top + 1
      BY <1>6, SlotsExist, MaxTidAssumption DEF Publish
    <3>2. QED
      BY <2>1, <3>1, SlotsExist DEF FitsSlot
  <2>2. /\ \A w \in Words : s = Slot(tid_top + 1) => data[s][w] = tid_top + 1
        /\ s = Slot(tid_top + 1) => times[s] = tid_top + 1
    BY <1>6 DEF Publish, WriterInv
  <2>3. QED
    BY <1>1, <1>6, <2>1, <2>2 DEF Publish, FitsSlot, Slot
<1>7. CASE UNCHANGED shared
  BY <1>1, <1>7 DEF FitsSlot, Slot
<1>8. QED
  BY <1>4, <1>5, <1>6, <1>7
     DEF Next, Write, Read, BeginWrite, WriterRestart, Call, Refuse, Accept,
         LoadWord, LoadTime, vars

-----------------------------------------------------------------------------
(* The readers' steps.                                                     *)

\* What a reader finds in the slot of a published tid.
LEMMA LoadedIsGood ==
  ASSUME IInv, NEW t \in 0 .. tid_top
  PROVE  /\ \A w \in Words : GoodCopy(data[Slot(t)][w], t)
         /\ GoodCopy(times[Slot(t)], t)
<1>1. t \in 0 .. MaxTid /\ t <= tid_top /\ t \in Int
  BY MaxTidAssumption DEF IInv, TypeOK, Tid, NoData, SSM_TID_SP
<1>2. Slot(t) \in 0 .. Num - 1
  BY <1>1, SlotType
<1>3. ASSUME NEW v \in Tid, FitsSlot(v, Slot(t)) PROVE SameOrLaterLap(v, t)
  BY <1>1, <1>3, MaxTidAssumption DEF FitsSlot, SameOrLaterLap, Tid, NoData, SSM_TID_SP
<1>4. /\ \A w \in Words : data[Slot(t)][w] \in Tid
      /\ times[Slot(t)] \in Tid
  BY <1>2 DEF IInv, TypeOK
<1>5. /\ \A w \in Words : SameOrLaterLap(data[Slot(t)][w], t)
      /\ SameOrLaterLap(times[Slot(t)], t)
  BY <1>2, <1>3, <1>4 DEF IInv, SlotInv
<1>6. t > tid_top - Num + SSM_MARGIN =>
        /\ \A w \in Words : data[Slot(t)][w] = t
        /\ times[Slot(t)] = t
  BY <1>1 DEF IInv, PublishedIntact, Whole
<1>7. QED
  BY <1>5, <1>6 DEF GoodCopy

LEMMA StepReaderInv ==
  IInv /\ [Next]_vars => ReaderInv'
<1> SUFFICES ASSUME IInv, [Next]_vars, NEW r \in Readers, rpc'[r] \in {"copy", "got"}
             PROVE  /\ tid'[r] \in 0 .. tid_top'
                    /\ \A w \in Words \ rtodo'[r] : GoodCopy(buf[r][w], tid[r])'
                    /\ rpc'[r] = "got" => rtodo'[r] = {} /\ GoodCopy(stamp[r], tid[r])'
  BY DEF ReaderInv
<1> DEFINE Good ==
      /\ tid'[r] \in 0 .. tid_top'
      /\ \A w \in Words \ rtodo'[r] : GoodCopy(buf[r][w], tid[r])'
      /\ rpc'[r] = "got" => rtodo'[r] = {} /\ GoodCopy(stamp[r], tid[r])'
<1> USE DEF shared, writer, reader
<1>1. rpc[r] \in {"copy", "got"} =>
        /\ tid[r] \in 0 .. tid_top
        /\ \A w \in Words \ rtodo[r] : GoodCopy(buf[r][w], tid[r])
        /\ rpc[r] = "got" => rtodo[r] = {} /\ GoodCopy(stamp[r], tid[r])
  BY DEF IInv, ReaderInv
<1>2. ASSUME UNCHANGED <<rpc[r], tid[r], rtodo[r], buf[r], stamp[r], tid_top>>
      PROVE  Good
  BY <1>1, <1>2 DEF GoodCopy, SameOrLaterLap, Slot
<1>3. CASE Publish
  <2>1. \A v : GoodCopy(v, tid[r]) /\ tid[r] \in 0 .. tid_top =>
          /\ SameOrLaterLap(v, tid[r])
          /\ tid[r] > tid_top' - Num + SSM_MARGIN => v = tid[r]
    BY <1>3, SlotsExist, NumAssumption DEF IInv, Publish, GoodCopy, SSM_MARGIN
  <2>2. tid[r] \in 0 .. tid_top => tid[r] \in 0 .. tid_top'
    BY <1>3, SlotsExist DEF IInv, Publish
  <2>3. QED
    BY <1>1, <1>3, <2>1, <2>2 DEF Publish, GoodCopy, SameOrLaterLap, Slot
<1>4. ASSUME NEW t \in Asked, Call(r, t) PROVE Good
  BY <1>4 DEF Call, IInv, TypeOK
<1>5. CASE Refuse(r)
  BY <1>5 DEF Refuse, IInv, TypeOK
<1>6. CASE Accept(r)
  <2>1. tid[r] \in 0 .. tid_top
    BY <1>6, SlotsExist DEF Accept, InRegion, SSM_TID_SP, IInv
  <2>2. rpc'[r] = "copy" /\ rtodo'[r] = Words /\ UNCHANGED <<tid, tid_top>>
    BY <1>6 DEF Accept, IInv, TypeOK
  <2>3. QED
    BY <2>1, <2>2
<1>7. ASSUME NEW x \in Words, LoadWord(r, x) PROVE Good
  <2>1. tid[r] \in 0 .. tid_top
    BY <1>1, <1>7 DEF LoadWord
  <2>2. ASSUME NEW w \in Words \ rtodo'[r]
        PROVE  GoodCopy(buf'[r][w], tid[r])
    <3>1. CASE w = x
      <4>1. buf'[r][w] = data[Slot(tid[r])][w]
        BY <1>7, <3>1 DEF LoadWord, IInv, TypeOK
      <4>2. QED
        BY <2>1, <4>1, LoadedIsGood
    <3>2. CASE w # x
      <4>1. buf'[r][w] = buf[r][w] /\ w \in Words \ rtodo[r]
        BY <1>7, <3>2 DEF LoadWord, IInv, TypeOK
      <4>2. QED
        BY <1>1, <1>7, <4>1 DEF LoadWord
    <3>3. QED
      BY <3>1, <3>2
  <2>3. QED
    BY <1>7, <2>1, <2>2 DEF LoadWord, GoodCopy, SameOrLaterLap, Slot
<1>8. CASE LoadTime(r)
  <2>1. tid[r] \in 0 .. tid_top
    BY <1>1, <1>8 DEF LoadTime
  <2>2. stamp'[r] = times[Slot(tid[r])]
    BY <1>8 DEF LoadTime, IInv, TypeOK
  <2>3. GoodCopy(stamp'[r], tid[r])
    BY <2>1, <2>2, LoadedIsGood
  <2>4. QED
    BY <1>1, <1>8, <2>1, <2>3 DEF LoadTime, GoodCopy, SameOrLaterLap, Slot
<1>9. ASSUME NEW p \in Readers, p # r,
             \/ \E t \in Asked : Call(p, t)
             \/ Read(p)
      PROVE  Good
  <2>1. UNCHANGED <<rpc[r], tid[r], rtodo[r], buf[r], stamp[r], tid_top>>
    BY <1>9 DEF Call, Read, Refuse, Accept, LoadWord, LoadTime, IInv, TypeOK
  <2>2. QED
    BY <1>2, <2>1
<1>10. CASE BeginWrite \/ (\E w \in Words : StoreWord(w)) \/ StoreTime \/ WriterRestart
  BY <1>2, <1>10 DEF BeginWrite, StoreWord, StoreTime, WriterRestart
<1>11. CASE UNCHANGED vars
  BY <1>2, <1>11 DEF vars
<1>12. QED
  BY <1>3, <1>4, <1>5, <1>6, <1>7, <1>8, <1>9, <1>10, <1>11 DEF Next, Write, Read

LEMMA StepCallInv ==
  IInv /\ [Next]_vars => CallInv'
<1> SUFFICES ASSUME IInv, [Next]_vars, NEW r \in Readers, InCall(r)'
             PROVE  /\ since'[r] <= tid_top'
                    /\ tid'[r] = IF asked'[r] < 0 THEN since'[r] ELSE asked'[r]
  BY DEF CallInv
<1> DEFINE Good == /\ since'[r] <= tid_top'
                   /\ tid'[r] = IF asked'[r] < 0 THEN since'[r] ELSE asked'[r]
<1> USE DEF shared, writer, reader
<1>1. TypeOK /\ since[r] \in Int
  BY MaxTidAssumption DEF IInv, TypeOK, Tid, NoData, SSM_TID_SP
<1>2. ASSUME UNCHANGED <<tid[r], since[r], asked[r]>>, InCall(r),
             tid_top' = tid_top \/ tid_top' = tid_top + 1
      PROVE  Good
  BY <1>1, <1>2, SlotsExist DEF IInv, CallInv
<1>3. CASE Write \/ WriterRestart \/ UNCHANGED vars
  BY <1>2, <1>3
     DEF Write, BeginWrite, StoreWord, StoreTime, Publish, WriterRestart, InCall, vars
<1>4. ASSUME NEW t \in Asked, Call(r, t) PROVE Good
  BY <1>1, <1>4, SlotsExist DEF Call, TypeOK
<1>5. ASSUME NEW p \in Readers, p # r, \E t \in Asked : Call(p, t) PROVE Good
  <2>1. InCall(r) /\ UNCHANGED <<tid[r], since[r], asked[r], tid_top>>
    BY <1>1, <1>5 DEF Call, InCall, TypeOK
  <2>2. QED
    BY <1>2, <2>1
<1>6. ASSUME NEW p \in Readers, Read(p) PROVE Good
  <2>1. InCall(r) /\ UNCHANGED <<tid[r], since[r], asked[r], tid_top>>
    BY <1>1, <1>6 DEF Read, Refuse, Accept, LoadWord, LoadTime, InCall, TypeOK
  <2>2. QED
    BY <1>2, <2>1
<1>7. QED
  BY <1>3, <1>4, <1>5, <1>6 DEF Next

-----------------------------------------------------------------------------
(* The theorems.                                                           *)

LEMMA Inductive == Spec => []IInv
<1>1. IInv /\ [Next]_vars => IInv'
  BY StepTypeOK, StepPublishedIntact, StepWriterInv, StepSlotInv, StepReaderInv,
     StepCallInv DEF IInv
<1>2. QED
  BY InitIInv, <1>1, PTL DEF Spec

\* Every variable keeps its range: in particular writer and readers address no
\* slot outside the ring, whatever tid a caller asks for.
THEOREM TypeCorrect == Spec => []TypeOK
<1>1. IInv => TypeOK
  BY DEF IInv
<1>2. QED
  BY <1>1, Inductive, PTL

\* While writeSSM overwrites the oldest slot, and after a writer died in the
\* middle of it, every tid inside readSSM's region is stored whole.
THEOREM RegionIntact == Spec => []PublishedIntact
<1>1. IInv => PublishedIntact
  BY DEF IInv
<1>2. QED
  BY <1>1, Inductive, PTL

\* A copy that readSSM returned is whole if its tid is still in the region.
THEOREM CopyIntact == Spec => []IntactUnlessLapped
<1>1. IInv => IntactUnlessLapped
  <2> SUFFICES ASSUME IInv, NEW r \in Readers, rpc[r] = "got",
                      tid[r] > tid_top - Num + SSM_MARGIN
               PROVE  Intact(r)
    BY DEF IntactUnlessLapped
  <2>1. \A w \in Words : buf[r][w] = tid[r]
    BY DEF IInv, ReaderInv, GoodCopy
  <2>2. buf[r] = Whole(tid[r])
    BY <2>1 DEF IInv, TypeOK, Whole
  <2>3. QED
    BY <2>2 DEF IInv, ReaderInv, GoodCopy, Intact
<1>2. QED
  BY <1>1, Inductive, PTL

\* A torn copy holds nothing older than the datum asked for, and nothing of
\* another slot.
THEOREM CopyNeverOlder == Spec => []TornOnlyByLaterLaps
<1>1. IInv => TornOnlyByLaterLaps
  BY DEF IInv, ReaderInv, GoodCopy, TornOnlyByLaterLaps
<1>2. QED
  BY <1>1, Inductive, PTL

-----------------------------------------------------------------------------
(* Refinement.                                                             *)

\* A step that leaves a reader's variables alone leaves its view alone.
LEMMA ViewUnchanged ==
  ASSUME NEW r \in Readers,
         UNCHANGED <<rpc[r], asked[r], since[r], tid[r], buf[r], stamp[r]>>
  PROVE  View(r)' = View(r)
<1>1. InCall(r)' = InCall(r)
  BY DEF InCall
<1>2. Intact(r)' = Intact(r)
  BY DEF Intact, Whole
<1>3. QED
  BY <1>1, <1>2 DEF View

LEMMA AllViewsUnchanged ==
  ASSUME UNCHANGED <<rpc, asked, since, tid, buf, stamp>>
  PROVE  UNCHANGED ClientView
BY ViewUnchanged DEF ClientView

\* A step of reader r changes the view of r alone.
LEMMA ViewExcept ==
  ASSUME NEW r \in Readers, NEW v, View(r)' = v,
         \A p \in Readers \ {r} :
           UNCHANGED <<rpc[p], asked[p], since[p], tid[p], buf[p], stamp[p]>>
  PROVE  ClientView' = [ClientView EXCEPT ![r] = v]
<1>1. \A p \in Readers \ {r} : View(p)' = View(p)
  BY ViewUnchanged
<1>2. QED
  BY <1>1 DEF ClientView

LEMMA InitRefines == Init => History!Init
BY DEF Init, History!Init, ClientView, View, NoData, SSM_TID_SP, InCall

LEMMA StepRefines ==
  IInv /\ IInv' /\ [Next]_vars => [History!Next]_<<tid_top, ClientView>>
<1> SUFFICES ASSUME IInv, IInv', [Next]_vars
             PROVE  History!Next \/ UNCHANGED <<tid_top, ClientView>>
  OBVIOUS
<1> USE DEF shared, writer, reader, IInv
<1>1. CASE Publish
  <2>1. tid_top < MaxTid /\ tid_top' = tid_top + 1 /\ UNCHANGED ClientView
    BY <1>1, AllViewsUnchanged DEF Publish, WriterInv
  <2>2. QED
    BY <2>1 DEF History!Next, History!Publish
<1>2. CASE \/ BeginWrite \/ (\E w \in Words : StoreWord(w)) \/ StoreTime
           \/ WriterRestart \/ UNCHANGED vars
  BY <1>2, AllViewsUnchanged DEF BeginWrite, StoreWord, StoreTime, WriterRestart, vars
<1>3. ASSUME NEW r \in Readers, NEW t \in Asked, Call(r, t)
      PROVE  History!Next
  <2>1. ClientView[r].st # "calling"
    BY <1>3 DEF Call, ClientView, View, InCall, TypeOK
  <2>2. View(r)' = [st |-> "calling", asked |-> t, since |-> tid_top]
    BY <1>3 DEF Call, ClientView, View, InCall, TypeOK
  <2>3. ClientView' = [ClientView EXCEPT
                         ![r] = [st |-> "calling", asked |-> t, since |-> tid_top]]
    BY <1>3, <2>2, ViewExcept DEF Call, TypeOK
  <2>4. tid_top' = tid_top
    BY <1>3 DEF Call
  <2>5. QED
    BY <2>1, <2>3, <2>4 DEF History!Next, History!Call, Asked, History!Asked
<1>4. ASSUME NEW r \in Readers, Refuse(r)
      PROVE  History!Next
  <2>1. ClientView[r] = [st |-> "calling", asked |-> asked[r], since |-> since[r]]
    BY <1>4 DEF Refuse, ClientView, View, InCall
  <2>2. History!Refusable(asked[r], since[r])
    BY <1>4, SlotsExist, NumAssumption, MaxTidAssumption
       DEF Refuse, InRegion, CallInv, InCall, TypeOK, Asked, Tid, NoData, SSM_TID_SP,
           SSM_MARGIN, History!Refusable, History!Readable, History!SSM_MARGIN
  <2>3. View(r)' = [st |-> "refused"]
    BY <1>4 DEF Refuse, ClientView, View, InCall, TypeOK
  <2>4. ClientView' = [ClientView EXCEPT ![r] = [st |-> "refused"]]
    BY <1>4, <2>3, ViewExcept DEF Refuse, TypeOK
  <2>5. tid_top' = tid_top
    BY <1>4 DEF Refuse
  <2>6. History!Refuse(r)
    BY <2>1, <2>2, <2>4, <2>5 DEF History!Refuse
  <2>7. QED
    BY <2>6 DEF History!Next
<1>5. ASSUME NEW r \in Readers,
             \/ Accept(r)
             \/ \E w \in Words : LoadWord(r, w)
      PROVE  UNCHANGED <<tid_top, ClientView>>
  <2>1. View(r)' = View(r)
    BY <1>5 DEF Accept, LoadWord, ClientView, View, InCall, TypeOK
  <2>2. ClientView' = [ClientView EXCEPT ![r] = View(r)]
    BY <1>5, <2>1, ViewExcept DEF Accept, LoadWord, TypeOK
  <2>3. QED
    BY <1>5, <2>2 DEF Accept, LoadWord, ClientView
<1>6. ASSUME NEW r \in Readers, LoadTime(r)
      PROVE  History!Next
  <2> DEFINE intact == Intact(r)'
  <2>1. ClientView[r] = [st |-> "calling", asked |-> asked[r], since |-> since[r]]
    BY <1>6 DEF LoadTime, ClientView, View, InCall
  <2>2. tid[r] = IF asked[r] < 0 THEN since[r] ELSE asked[r]
    BY <1>6 DEF LoadTime, CallInv, InCall
  <2>3. /\ rpc'[r] = "got" /\ tid' = tid /\ tid_top' = tid_top
        /\ tid[r] \in 0 .. tid_top /\ tid[r] \in 0 .. MaxTid
    BY <1>6, SlotsExist, MaxTidAssumption
       DEF LoadTime, ReaderInv, TypeOK, Tid, NoData, SSM_TID_SP
  <2>4. History!Readable(tid[r]) => intact
    <3> SUFFICES ASSUME tid[r] > tid_top - Num + SSM_MARGIN PROVE intact
      BY DEF History!Readable, History!SSM_MARGIN, SSM_MARGIN
    <3>1. \A w \in Words : buf'[r][w] = tid'[r]
      BY <2>3 DEF ReaderInv, GoodCopy
    <3>2. buf'[r] = Whole(tid'[r])
      BY <3>1 DEF TypeOK, Whole
    <3>3. stamp'[r] = tid'[r]
      BY <2>3 DEF ReaderInv, GoodCopy
    <3>4. QED
      BY <3>2, <3>3 DEF Intact, Whole
  <2>5. intact \in BOOLEAN
    BY DEF Intact
  <2>6. View(r)' = [st |-> "got", tid |-> tid[r], intact |-> intact]
    BY <2>3 DEF View, InCall
  <2>7. ClientView' = [ClientView EXCEPT
                         ![r] = [st |-> "got", tid |-> tid[r], intact |-> intact]]
    BY <1>6, <2>6, ViewExcept DEF LoadTime, TypeOK
  <2> HIDE DEF intact
  <2>8. History!Deliver(r, tid[r], intact)
    BY <2>1, <2>2, <2>3, <2>4, <2>7 DEF History!Deliver
  <2>9. QED
    BY <2>3, <2>5, <2>8 DEF History!Next
<1>7. QED
  BY <1>1, <1>2, <1>3, <1>4, <1>5, <1>6 DEF Next, Write, Read

\* readSSM and writeSSM together implement the history of SSMHistory: a call is
\* refused only for the reasons given there, and delivers the datum asked for.
THEOREM StreamImplementsHistory == Spec => ImplementsHistory
<1>1. IInv /\ IInv' /\ [Next]_vars => [History!Next]_<<tid_top, ClientView>>
  BY StepRefines
<1>2. QED
  BY <1>1, InitRefines, Inductive, PTL DEF Spec, ImplementsHistory, History!Spec
=============================================================================
