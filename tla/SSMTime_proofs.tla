---------------------------- MODULE SSMTime_proofs ----------------------------
(***************************************************************************)
(* Theorems about SSMTime, for every size of the ring, every cycle and any *)
(* intervals between the data; and, behind them, about SSMReplay, in which *)
(* recorded streams come back in the order of their times, for every set   *)
(* of logs.                                                                *)
(***************************************************************************)
EXTENDS SSMTime, SSMReplay, FiniteSetTheorems, WellFoundedInduction, TLAPS

-----------------------------------------------------------------------------
(* Slots and buckets: arithmetic modulo Num, and division by Cycle.        *)

LEMMA ModParts ==
  ASSUME NEW a \in Int
  PROVE  /\ a % Num \in 0 .. Num - 1 /\ a \div Num \in Int
         /\ a = Num * (a \div Num) + (a % Num)
BY NumAssumption

\* A multiple of Num that is nearer to 0 than Num is 0.
LEMMA SmallMultiple ==
  ASSUME NEW d \in Int, Num * d < Num, -Num < Num * d
  PROVE  d = 0
<1>1. CASE d >= 1
  <2>1. Num * d >= Num  BY <1>1, NumAssumption
  <2> QED  BY <2>1, NumAssumption
<1>2. CASE d <= -1
  <2>1. Num * d <= -Num  BY <1>2, NumAssumption
  <2> QED  BY <2>1, NumAssumption
<1> QED  BY <1>1, <1>2

LEMMA ModUnique ==
  ASSUME NEW a \in Int, NEW q \in Int, NEW r \in 0 .. Num - 1, a = Num * q + r
  PROVE  a % Num = r
<1> DEFINE p == a \div Num
           s == a % Num
           d == p - q
<1>1. s \in 0 .. Num - 1 /\ p \in Int /\ a = Num * p + s  BY ModParts
<1> HIDE DEF p, s
<1>2. d \in Int /\ p = q + d  BY <1>1
<1> HIDE DEF d
<1>3. Num * p = Num * q + Num * d  BY <1>2, NumAssumption
<1>4. Num * d = r - s  BY <1>1, <1>2, <1>3, NumAssumption
<1>5. d = 0  BY <1>1, <1>2, <1>4, SmallMultiple, NumAssumption
<1>6. Num * d = 0  BY <1>5, NumAssumption
<1>7. s = r  BY <1>1, <1>4, <1>6, NumAssumption
<1> QED  BY <1>7 DEF s

LEMMA ModDiffers ==
  ASSUME NEW a \in Int, NEW b \in Int, a < b, b < a + Num
  PROVE  a % Num # b % Num
<1> SUFFICES ASSUME a % Num = b % Num PROVE FALSE  OBVIOUS
<1> DEFINE p == a \div Num
           q == b \div Num
           s == a % Num
           d == q - p
<1>1. s \in 0 .. Num - 1 /\ p \in Int /\ q \in Int /\ a = Num * p + s /\ b = Num * q + s
  BY ModParts
<1> HIDE DEF p, q, s
<1>2. d \in Int /\ q = p + d  BY <1>1
<1> HIDE DEF d
<1>3. Num * q = Num * p + Num * d  BY <1>1, <1>2, NumAssumption
<1>4. Num * d = b - a  BY <1>1, <1>2, <1>3, NumAssumption
<1>5. d = 0  BY <1>2, <1>4, SmallMultiple, NumAssumption
<1>6. Num * d = 0  BY <1>5, NumAssumption
<1> QED  BY <1>4, <1>6, NumAssumption

LEMMA ModWraps ==
  ASSUME NEW a \in Int
  PROVE  (a - Num) % Num = a % Num
<1> DEFINE q == a \div Num
           s == a % Num
<1>1. s \in 0 .. Num - 1 /\ q \in Int /\ a = Num * q + s  BY ModParts
<1> HIDE DEF q, s
<1>2. a - Num = Num * (q - 1) + s  BY <1>1, NumAssumption
<1>3. (a - Num) % Num = s  BY <1>1, <1>2, ModUnique, NumAssumption
<1> QED  BY <1>3 DEF s

\* One step back in the table.
Before(p) == IF p = 0 THEN Num - 1 ELSE p - 1
LEMMA ModBefore ==
  ASSUME NEW a \in Int
  PROVE  (a - 1) % Num = Before(a % Num)
<1> DEFINE q == a \div Num
           s == a % Num
<1>1. s \in 0 .. Num - 1 /\ q \in Int /\ a = Num * q + s  BY ModParts
<1> HIDE DEF q, s
<1>2. CASE s = 0
  <2>1. a - 1 = Num * (q - 1) + (Num - 1)  BY <1>1, <1>2, NumAssumption
  <2>2. (a - 1) % Num = Num - 1  BY <1>1, <2>1, ModUnique, NumAssumption
  <2> QED  BY <1>2, <2>2 DEF Before, s
<1>3. CASE s # 0
  <2>1. a - 1 = Num * q + (s - 1)  BY <1>1, NumAssumption
  <2>2. s - 1 \in 0 .. Num - 1  BY <1>1, <1>3, NumAssumption
  <2>3. (a - 1) % Num = s - 1  BY <1>1, <2>1, <2>2, ModUnique, NumAssumption
  <2> QED  BY <1>3, <2>3 DEF Before, s
<1> QED  BY <1>2, <1>3

\* Num steps back go round the table.
LEMMA ModReaches ==
  ASSUME NEW a \in Int, NEW p \in 0 .. Num - 1
  PROVE  \E k \in 0 .. Num - 1 : p = (a - k) % Num
<1> DEFINE q == (a - p) \div Num
           k == (a - p) % Num
<1>1. a - p \in Int  BY NumAssumption
<1>2. k \in 0 .. Num - 1 /\ q \in Int /\ a - p = Num * q + k  BY <1>1, ModParts
<1> HIDE DEF q, k
<1>3. a - k = Num * q + p /\ a - k \in Int  BY <1>2, NumAssumption
<1>4. (a - k) % Num = p  BY <1>2, <1>3, ModUnique
<1> QED  BY <1>2, <1>4

LEMMA DivMonotonic ==
  ASSUME NEW y \in Int, NEW z \in Int, y <= z
  PROVE  y \div Cycle <= z \div Cycle /\ y \div Cycle \in Int /\ z \div Cycle \in Int
<1> DEFINE p == y \div Cycle
           q == z \div Cycle
           d == p - q
<1>1. p \in Int /\ q \in Int  BY CycleAssumption
<1>2. Cycle * p <= y /\ z < Cycle * q + Cycle  BY CycleAssumption
<1> HIDE DEF p, q
<1>3. d \in Int /\ p = q + d  BY <1>1
<1> HIDE DEF d
<1>4. Cycle * p = Cycle * q + Cycle * d  BY <1>1, <1>3, CycleAssumption
<1>5. Cycle * d < Cycle  BY <1>1, <1>2, <1>3, <1>4, CycleAssumption
<1>6. CASE d >= 1
  <2>1. Cycle * d >= Cycle  BY <1>3, <1>6, CycleAssumption
  <2> QED  BY <1>3, <1>5, <2>1, CycleAssumption
<1>7. CASE d <= 0
  <2>1. p <= q  BY <1>1, <1>3, <1>7
  <2> QED  BY <1>1, <2>1 DEF p, q
<1> QED  BY <1>3, <1>6, <1>7

-----------------------------------------------------------------------------
(* The inductive invariant.                                                *)

\* The last tid that has a stamp: the one being written, or the newest.
Last == IF wpc = "idle" THEN tid_top ELSE tid_top + 1

\* Where a call is.
Places == {"none", "newest", "table", "search", "found", "region", "copy", "got", "failed"}

\* The values of the variables.
TypeInv ==
  /\ tid_top \in -1 .. MaxTid
  /\ times \in [0 .. Num - 1 -> Nat]
  /\ table \in [0 .. Num - 1 -> Int]
  /\ hist \in [0 .. MaxTid -> Nat]
  /\ cleared \in BOOLEAN
  /\ wpc \in {"idle", "fill", "store", "publish"}
  /\ wpos \in 0 .. Num - 1
  /\ wfill \in 0 .. Num
  /\ rpc \in [Readers -> Places]
  /\ ytime \in [Readers -> Int]
  /\ rtid \in [Readers -> Int]
  /\ ret_time \in [Readers -> Int]
  /\ overlap \in [Readers -> Overlaps]
  /\ Last <= MaxTid

\* The stamps increase, that of the datum being written included.
HistInv == \A t \in 0 .. Last : hist[t] > 0 /\ \A s \in 0 .. t - 1 : hist[s] < hist[t]

\* Every slot but the one a write may be filling holds the stamp of its datum.
RingInv ==
  /\ \A t \in Published : t > tid_top - Num + 1 => times[Slot(t)] = hist[t]
  /\ wpc = "publish" => times[Slot(tid_top + 1)] = hist[tid_top + 1]

\* No entry is ahead of the datum being written, the newest tids stand in the
\* bucket of the newest datum only, and a cleared table is filled from nothing.
EntriesInv ==
  /\ ~cleared => tid_top >= 0
  /\ \A p \in 0 .. Num - 1 :
       /\ table[p] > 0 /\ table[p] > tid_top =>
            wpc # "idle" /\ table[p] = tid_top + 1 /\ p = Bucket(hist[tid_top + 1])
       /\ wpc = "idle" /\ tid_top >= 1 /\ table[p] >= tid_top => p = Bucket(hist[tid_top])
       /\ wpc = "idle" /\ cleared => table[p] <= 0
       /\ wpc = "fill" /\ cleared => table[p] <= 0 \/ table[p] >= tid_top

\* setTID_time has gone back over the buckets Bound(0) .. Bound(wfill).
Bound(k) == (hist[tid_top + 1] \div Cycle - k) % Num
FillInv ==
  /\ wpc = "fill" => table[Bound(0)] = tid_top + 1
  /\ wpc = "fill" /\ tid_top >= 1 =>
       /\ wpos = Bound(wfill)
       /\ \A k \in 0 .. wfill : table[Bound(k)] >= tid_top
       /\ \A p \in 0 .. Num - 1 : table[p] >= tid_top =>
            \/ ~cleared /\ p = Bucket(hist[tid_top])
            \/ \E k \in 0 .. wfill : p = Bound(k)

\* InPause, for the data up to tid top.
PauseBelow(top, y) ==
  \E t \in 0 .. top - 1 : /\ hist[t] < y /\ y < hist[t + 1]
                         /\ hist[t + 1] \div Cycle - hist[t] \div Cycle > Num
\* No entry lags behind, as far as the stamps up to tid top go.
CoverTo(top) ==
  \A y \in 1 .. hist[top] : ~PauseBelow(top, y) =>
    \A t \in 1 .. top : t > table[Bucket(y)] => hist[t] > y

CoverInv ==
  /\ wpc \in {"idle", "fill"} /\ ~cleared => CoverTo(tid_top)
  /\ wpc \in {"store", "publish"} => CoverTo(tid_top + 1)

\* Every datum after m is newer than y.
Above(m, y) == \A t \in Published : t > m => hist[t] > y

\* What overlap[r] says of the write that is going on.
OverlapInv(r) ==
  wpc # "idle" /\ InCall(r) =>
    /\ overlap[r] # "none"
    /\ overlap[r] # "bucket" => Bucket(hist[tid_top + 1]) # Bucket(ytime[r])

\* The call knows that its time is not in the future.
PastNewest == {"table", "search", "found", "region", "copy", "got"}
\* The search never goes past the nearest datum while it is readable.
ReaderInv(r) ==
  ytime[r] > 0 /\ rpc[r] \in PastNewest =>
    /\ tid_top >= 0 /\ ytime[r] <= hist[tid_top]
    /\ overlap[r] # "bucket" /\ ~InPause(ytime[r]) =>
         /\ rpc[r] # "table" => rtid[r] <= tid_top
         /\ rpc[r] = "search" /\ rtid[r] >= 1 /\ InRegion(rtid[r]) => Above(rtid[r], ytime[r])
         /\ rpc[r] \in {"found", "region"} /\ rtid[r] >= 1 /\ InRegion(rtid[r])
              => Above(rtid[r], ytime[r]) /\ hist[rtid[r]] <= ytime[r]
         /\ rpc[r] = "region" => rtid[r] >= 1
         /\ rpc[r] \in {"copy", "got"} =>
              rtid[r] >= 1 /\ Above(rtid[r], ytime[r]) /\ hist[rtid[r]] <= ytime[r]
         /\ rpc[r] = "got" /\ InRegion(rtid[r]) => ret_time[r] = hist[rtid[r]]

\* When nothing overlaps, it starts above it and stops at it.
QuietInv(r) ==
  ytime[r] > 0 /\ InCall(r) /\ overlap[r] = "none" /\ ~cleared /\ ~InPause(ytime[r]) =>
    \A m \in 1 .. tid_top :
      hist[m] <= ytime[r] /\ Above(m, ytime[r]) /\ InRegion(m) =>
        /\ rpc[r] = "search" => rtid[r] >= m
        /\ rpc[r] \in {"found", "region"} => rtid[r] = m

CallInv(r) == OverlapInv(r) /\ ReaderInv(r) /\ QuietInv(r)

IInv ==
  /\ TypeInv /\ HistInv /\ RingInv /\ EntriesInv /\ FillInv /\ CoverInv
  /\ \A r \in Readers : CallInv(r)

-----------------------------------------------------------------------------
LEMMA BucketType ==
  ASSUME NEW y \in Int
  PROVE  Bucket(y) \in 0 .. Num - 1 /\ y \div Cycle \in Int /\ Slot(y) \in 0 .. Num - 1
<1>1. y \div Cycle \in Int  BY DivMonotonic
<1> QED  BY <1>1, ModParts DEF Bucket, Slot

\* Two tids of the same turn of the ring are in different slots.
LEMMA SlotDiffers ==
  ASSUME NEW t \in Int, NEW u \in Int, t < u, u < t + Num
  PROVE  Slot(t) # Slot(u)
BY ModDiffers DEF Slot

\* What a step of a reader leaves alone.
LEMMA ReadersOnlyRead ==
  ASSUME NEW r \in Readers, Read(r) \/ \E y \in Queries : Call(r, y)
  PROVE  UNCHANGED <<tid_top, times, table, hist, cleared, wpc, wpos, wfill>>
<1>1. CASE CheckNewest(r)  BY <1>1 DEF CheckNewest, shared, writer
<1>2. CASE LoadEntry(r)  BY <1>2 DEF LoadEntry, shared, writer
<1>3. CASE StepBack(r)  BY <1>3 DEF StepBack, shared, writer
<1>4. CASE StopSearch(r)  BY <1>4 DEF StopSearch, shared, writer
<1>5. CASE CheckFound(r)  BY <1>5 DEF CheckFound, shared, writer
<1>6. CASE CheckRegion(r)  BY <1>6 DEF CheckRegion, shared, writer
<1>7. CASE Copy(r)  BY <1>7 DEF Copy, shared, writer
<1>8. CASE \E y \in Queries : Call(r, y)  BY <1>8 DEF Call, shared, writer
<1> QED  BY <1>1, <1>2, <1>3, <1>4, <1>5, <1>6, <1>7, <1>8 DEF Read

LEMMA TypeStep ==
  ASSUME TypeInv, [Next]_vars
  PROVE  TypeInv'
<1> USE NumAssumption, GapsAssumption, BoundsAssumption
<1>1. ASSUME NEW gap \in Gaps, Register(gap) PROVE TypeInv'
  <2> DEFINE stamp == LastStamp + gap
  <2>1. gap \in Nat \ {0} /\ tid_top + 1 \in 0 .. MaxTid  BY <1>1 DEF Register, TypeInv
  <2>2. LastStamp \in Nat  BY DEF LastStamp, TypeInv, NoTid
  <2>3. stamp \in Nat /\ stamp \in Int  BY <2>1, <2>2
  <2>4. Bucket(stamp) \in 0 .. Num - 1  BY <2>3, BucketType
  <2>5. /\ hist' = [hist EXCEPT ![tid_top + 1] = stamp]
        /\ table' = [table EXCEPT ![Bucket(stamp)] = tid_top + 1]
        /\ wpos' = Bucket(stamp) /\ wfill' = 0 /\ wpc' = "fill"
        /\ UNCHANGED <<tid_top, times, cleared, rpc, ytime, rtid, ret_time>>
    BY <1>1 DEF Register
  <2>6. overlap' \in [Readers -> Overlaps]
    BY <1>1 DEF Register, TypeInv, Overlap, Overlaps
  <2> HIDE DEF stamp
  <2>7. hist' \in [0 .. MaxTid -> Nat]  BY <2>1, <2>3, <2>5 DEF TypeInv
  <2>8. table' \in [0 .. Num - 1 -> Int]  BY <2>1, <2>4, <2>5 DEF TypeInv
  <2> QED  BY <2>1, <2>4, <2>5, <2>6, <2>7, <2>8 DEF TypeInv, Last
<1>2. CASE FillBack
  <2> DEFINE p == IF wpos = 0 THEN Num - 1 ELSE wpos - 1
  <2>1. p \in 0 .. Num - 1  BY DEF TypeInv
  <2>2. /\ table' = [table EXCEPT ![p] = tid_top] /\ wpos' = p /\ wfill' = wfill + 1 /\ wfill < Num
        /\ UNCHANGED <<tid_top, times, hist, cleared, wpc, rpc, ytime, rtid, ret_time, overlap>>
    BY <1>2 DEF FillBack, reader
  <2> HIDE DEF p
  <2>3. table' \in [0 .. Num - 1 -> Int]  BY <2>1, <2>2 DEF TypeInv
  <2>4. wfill' \in 0 .. Num  BY <2>2 DEF TypeInv
  <2> QED  BY <2>1, <2>2, <2>3, <2>4 DEF TypeInv, Last
<1>3. CASE EndFill
  BY <1>3 DEF EndFill, TypeInv, Last, shared, reader
<1>4. CASE Store
  <2>1. tid_top + 1 \in Int /\ tid_top + 1 \in 0 .. MaxTid  BY <1>4 DEF Store, TypeInv, Last
  <2>2. Slot(tid_top + 1) \in 0 .. Num - 1  BY <2>1, BucketType
  <2>3. times' \in [0 .. Num - 1 -> Nat]  BY <1>4, <2>1, <2>2 DEF Store, TypeInv
  <2> QED  BY <1>4, <2>3 DEF Store, TypeInv, Last, reader
<1>5. CASE Publish
  <2>1. /\ tid_top' = tid_top + 1 /\ cleared' = FALSE /\ wpc = "publish" /\ wpc' = "idle"
        /\ UNCHANGED <<times, table, hist, wpos, wfill, rpc, ytime, rtid, ret_time, overlap>>
    BY <1>5 DEF Publish, reader
  <2>2. tid_top' \in -1 .. MaxTid /\ Last' <= MaxTid  BY <2>1 DEF TypeInv, Last
  <2>3. cleared' \in BOOLEAN  BY <2>1
  <2> QED  BY <2>1, <2>2, <2>3 DEF TypeInv
<1>6. CASE Recreate
  <2>1. ClearedTable \in [0 .. Num - 1 -> Int]  BY DEF ClearedTable, Floor
  <2> QED  BY <1>6, <2>1 DEF Recreate, TypeInv, Last, reader
<1>7. ASSUME NEW r \in Readers, Read(r) \/ \E y \in Queries : Call(r, y) PROVE TypeInv'
  <2>1. UNCHANGED <<tid_top, times, table, hist, cleared, wpc, wpos, wfill>>
    BY <1>7, ReadersOnlyRead
  <2> DEFINE ReaderTypes == /\ rpc \in [Readers -> Places]
                            /\ ytime \in [Readers -> Int]
                            /\ rtid \in [Readers -> Int]
                            /\ ret_time \in [Readers -> Int]
                            /\ overlap \in [Readers -> Overlaps]
  <2>2. ReaderTypes  BY DEF TypeInv
  <2>3. ReaderTypes'
    <3>1. ASSUME NEW place \in Places, Goto(r, place) PROVE rpc' \in [Readers -> Places]
      BY <2>2, <3>1 DEF Goto
    <3>2. ASSUME Fail(r) PROVE rpc' \in [Readers -> Places] /\ rtid' \in [Readers -> Int]
      BY <2>2, <3>2 DEF Goto, Fail, Places
    <3>3. {"table", "search", "found", "region", "copy", "got", "newest"} \subseteq Places
      BY DEF Places
    <3>4. CASE CheckNewest(r)
      <4>1. CASE Fail(r)  BY <2>2, <3>2, <3>4, <4>1 DEF CheckNewest
      <4>2. CASE Goto(r, "table") /\ UNCHANGED rtid  BY <2>2, <3>1, <3>3, <3>4, <4>2 DEF CheckNewest
      <4> QED  BY <3>4, <4>1, <4>2 DEF CheckNewest
    <3>5. CASE LoadEntry(r)
      <4>1. Bucket(ytime[r]) \in 0 .. Num - 1  BY BucketType DEF TypeInv
      <4>2. table[Bucket(ytime[r])] \in Int  BY <4>1 DEF TypeInv
      <4>3. rtid' \in [Readers -> Int]  BY <2>2, <3>5, <4>2 DEF LoadEntry
      <4> QED  BY <2>2, <3>1, <3>3, <3>5, <4>3 DEF LoadEntry
    <3>6. CASE StepBack(r)
      <4>1. (IF rtid[r] = Floor THEN rtid[r] ELSE rtid[r] - 1) \in Int  BY <2>2 DEF Floor
      <4>2. rtid' \in [Readers -> Int]  BY <2>2, <3>6, <4>1 DEF StepBack
      <4> QED  BY <2>2, <3>6, <4>2 DEF StepBack
    <3>7. CASE StopSearch(r)  BY <2>2, <3>1, <3>3, <3>7 DEF StopSearch
    <3>8. CASE CheckFound(r)
      <4>1. CASE Fail(r)  BY <2>2, <3>2, <3>8, <4>1 DEF CheckFound
      <4>2. CASE Goto(r, "region") /\ UNCHANGED rtid  BY <2>2, <3>1, <3>3, <3>8, <4>2 DEF CheckFound
      <4> QED  BY <3>8, <4>1, <4>2 DEF CheckFound
    <3>9. CASE CheckRegion(r)
      <4>1. CASE Fail(r)  BY <2>2, <3>2, <3>9, <4>1 DEF CheckRegion
      <4>2. CASE Goto(r, "copy") /\ UNCHANGED rtid  BY <2>2, <3>1, <3>3, <3>9, <4>2 DEF CheckRegion
      <4> QED  BY <3>9, <4>1, <4>2 DEF CheckRegion
    <3>10. CASE Copy(r)
      <4>1. Slot(rtid[r]) \in 0 .. Num - 1  BY BucketType DEF TypeInv
      <4>2. (IF ytime[r] > 0 THEN times[Slot(rtid[r])] ELSE ytime[r]) \in Int  BY <4>1 DEF TypeInv
      <4>3. ret_time' \in [Readers -> Int]  BY <2>2, <3>10, <4>2 DEF Copy
      <4> QED  BY <2>2, <3>1, <3>3, <3>10, <4>3 DEF Copy
    <3>11. ASSUME NEW y \in Queries, Call(r, y) PROVE ReaderTypes'
      <4>1. (IF wpc = "idle" THEN "none" ELSE Overlap(hist[tid_top + 1], y)) \in Overlaps
        BY DEF Overlap, Overlaps
      <4>2. overlap' \in [Readers -> Overlaps] /\ ytime' \in [Readers -> Int]
        BY <2>2, <3>11, <4>1 DEF Call
      <4>3. CASE Goto(r, "region") /\ rtid' = [rtid EXCEPT ![r] = tid_top]
        <5>1. rtid' \in [Readers -> Int]  BY <2>2, <4>3 DEF TypeInv
        <5> QED  BY <2>2, <3>1, <3>3, <3>11, <4>2, <4>3, <5>1 DEF Call
      <4>4. CASE Goto(r, "newest") /\ UNCHANGED rtid  BY <2>2, <3>1, <3>3, <3>11, <4>2, <4>4 DEF Call
      <4> QED  BY <3>11, <4>3, <4>4 DEF Call
    <3> QED  BY <1>7, <3>4, <3>5, <3>6, <3>7, <3>8, <3>9, <3>10, <3>11 DEF Read
  <2> QED  BY <2>1, <2>3 DEF TypeInv, Last
<1>8. CASE UNCHANGED vars
  BY <1>8 DEF TypeInv, Last, vars, shared, writer, reader
<1> QED  BY <1>1, <1>2, <1>3, <1>4, <1>5, <1>6, <1>7, <1>8 DEF Next, Write

-----------------------------------------------------------------------------
(* The writer.                                                             *)

LEMMA HistFacts ==
  ASSUME TypeInv, HistInv, NEW t \in 0 .. Last
  PROVE  /\ hist[t] \in Nat \ {0} /\ t \in 0 .. MaxTid /\ Last \in Int
         /\ \A s \in 0 .. t : hist[s] \in Nat \ {0} /\ hist[s] <= hist[t]
         /\ \A s \in 0 .. t - 1 : hist[s] < hist[t]
<1>1. Last \in Int /\ Last <= MaxTid /\ t \in 0 .. MaxTid /\ MaxTid \in Int
  BY BoundsAssumption DEF TypeInv, Last
<1>0. ASSUME NEW s \in 0 .. Last PROVE hist[s] \in Nat \ {0}
  <2>1. s \in 0 .. MaxTid  BY <1>1
  <2>2. hist[s] \in Nat  BY <2>1 DEF TypeInv
  <2>3. hist[s] > 0  BY DEF HistInv
  <2> QED  BY <2>2, <2>3
<1>2. hist[t] \in Nat \ {0}  BY <1>0
<1>3. \A s \in 0 .. t - 1 : hist[s] < hist[t]  BY DEF HistInv
<1>4. ASSUME NEW s \in 0 .. t PROVE hist[s] \in Nat \ {0} /\ hist[s] <= hist[t]
  <2>1. s \in 0 .. Last /\ s \in 0 .. MaxTid  BY <1>1
  <2>2. hist[s] \in Nat \ {0}  BY <1>0, <2>1
  <2>3. CASE s = t  BY <1>2, <2>2, <2>3
  <2>4. CASE s # t
    <3>1. s \in 0 .. t - 1  BY <1>1, <2>4
    <3>2. hist[s] < hist[t]  BY <1>3, <3>1
    <3> QED  BY <1>2, <2>2, <3>2
  <2> QED  BY <2>3, <2>4
<1> QED  BY <1>1, <1>2, <1>3, <1>4

\* The stamp that Register gives to the next tid.
LEMMA NextStamp ==
  ASSUME TypeInv, HistInv, NEW gap \in Gaps, Register(gap)
  PROVE  /\ LastStamp + gap \in Nat \ {0}
         /\ tid_top + 1 \in 0 .. MaxTid
         /\ hist' = [hist EXCEPT ![tid_top + 1] = LastStamp + gap]
         /\ hist'[tid_top + 1] = LastStamp + gap
         /\ \A t \in Published : hist'[t] = hist[t] /\ hist[t] < LastStamp + gap
         /\ tid_top' = tid_top /\ wpc' = "fill" /\ wpc = "idle"
         /\ times' = times /\ cleared' = cleared
<1>1. /\ hist' = [hist EXCEPT ![tid_top + 1] = LastStamp + gap] /\ wpc = "idle"
      /\ tid_top < MaxTid /\ tid_top' = tid_top /\ wpc' = "fill"
      /\ times' = times /\ cleared' = cleared
  BY DEF Register
<1>2. gap \in Nat \ {0} /\ tid_top + 1 \in 0 .. MaxTid
  BY <1>1, GapsAssumption, BoundsAssumption DEF TypeInv
<1>3. LastStamp \in Nat  BY DEF LastStamp, TypeInv, NoTid
<1>4. hist'[tid_top + 1] = LastStamp + gap  BY <1>1, <1>2 DEF TypeInv
<1>5. ASSUME NEW t \in Published PROVE hist'[t] = hist[t] /\ hist[t] < LastStamp + gap
  <2>1. t \in 0 .. Last /\ t \in 0 .. tid_top /\ tid_top \in 0 .. Last /\ tid_top \in Int
        /\ LastStamp = hist[tid_top]
    BY <1>1 DEF Published, TypeInv, Last, LastStamp, NoTid
  <2>2. hist[t] \in Nat /\ hist[t] <= hist[tid_top] /\ t \in 0 .. MaxTid  BY <2>1, HistFacts
  <2>3. hist'[t] = hist[t]  BY <1>1, <1>2, <2>1, <2>2 DEF TypeInv
  <2> QED  BY <1>2, <1>3, <2>1, <2>2, <2>3
<1> QED  BY <1>1, <1>2, <1>3, <1>4, <1>5

LEMMA HistStep ==
  ASSUME TypeInv, HistInv, [Next]_vars
  PROVE  HistInv'
<1>1. ASSUME NEW gap \in Gaps, Register(gap) PROVE HistInv'
  <2> DEFINE n == tid_top + 1
             stamp == LastStamp + gap
  <2>1. /\ stamp \in Nat \ {0} /\ n \in Nat /\ tid_top \in Int
        /\ hist'[n] = stamp
        /\ \A t \in 0 .. tid_top : hist'[t] = hist[t] /\ hist[t] < stamp
        /\ Last = tid_top /\ Last' = n
    BY <1>1, NextStamp DEF Last, Published, TypeInv
  <2> SUFFICES ASSUME NEW t \in 0 .. n
               PROVE  hist'[t] > 0 /\ \A s \in 0 .. t - 1 : hist'[s] < hist'[t]
    BY <2>1 DEF HistInv
  <2> HIDE DEF stamp
  <2>2. CASE t = n  BY <2>1, <2>2
  <2>3. CASE t # n
    <3>1. t \in 0 .. tid_top  BY <2>1, <2>3
    <3>2. hist[t] > 0 /\ \A s \in 0 .. t - 1 : hist[s] < hist[t]  BY <2>1, <3>1 DEF HistInv
    <3>3. \A s \in 0 .. t - 1 : s \in 0 .. tid_top  BY <2>1, <3>1
    <3> QED  BY <2>1, <3>1, <3>2, <3>3
  <2> QED  BY <2>2, <2>3
<1>2. CASE Recreate
  <2>1. hist' = hist /\ \A t \in 0 .. Last' : t \in 0 .. Last
    BY <1>2 DEF Recreate, Last, TypeInv
  <2> QED  BY <2>1 DEF HistInv
<1>3. CASE Publish
  <2>1. hist' = hist /\ Last' = Last  BY <1>3 DEF Publish, Last
  <2> QED  BY <2>1 DEF HistInv
<1>4. ASSUME FillBack \/ EndFill \/ Store \/ UNCHANGED vars PROVE HistInv'
  <2>1. hist' = hist /\ Last' = Last
    BY <1>4 DEF FillBack, EndFill, Store, Last, shared, writer, vars
  <2> QED  BY <2>1 DEF HistInv
<1>5. ASSUME NEW r \in Readers, Read(r) \/ \E y \in Queries : Call(r, y) PROVE HistInv'
  <2>1. hist' = hist /\ Last' = Last  BY <1>5, ReadersOnlyRead DEF Last
  <2> QED  BY <2>1 DEF HistInv
<1> QED  BY <1>1, <1>2, <1>3, <1>4, <1>5 DEF Next, Write

LEMMA RingStep ==
  ASSUME TypeInv, HistInv, RingInv, [Next]_vars
  PROVE  RingInv'
<1>1. ASSUME NEW gap \in Gaps, Register(gap) PROVE RingInv'
  <2>1. /\ \A t \in Published : hist'[t] = hist[t]
        /\ tid_top' = tid_top /\ times' = times /\ wpc' = "fill"
    BY <1>1, NextStamp
  <2> QED  BY <2>1 DEF RingInv, Published
<1>2. CASE Store
  <2> DEFINE n == tid_top + 1
  <2>1. /\ times' = [times EXCEPT ![Slot(n)] = hist[n]]
        /\ tid_top' = tid_top /\ hist' = hist /\ n \in Int /\ tid_top \in Int
    BY <1>2 DEF Store, TypeInv
  <2>2. Slot(n) \in 0 .. Num - 1  BY <2>1, BucketType
  <2>3. times'[Slot(n)] = hist[n]  BY <2>1, <2>2 DEF TypeInv
  <2>4. ASSUME NEW t \in Published, t > tid_top - Num + 1 PROVE times'[Slot(t)] = hist[t]
    <3>1. t \in Int /\ t < n /\ n < t + Num  BY <2>1, <2>4, NumAssumption DEF Published
    <3>2. Slot(t) # Slot(n) /\ Slot(t) \in 0 .. Num - 1  BY <2>1, <3>1, SlotDiffers, BucketType
    <3> QED  BY <2>1, <2>2, <2>4, <3>2 DEF RingInv, TypeInv
  <2> QED  BY <2>1, <2>3, <2>4 DEF RingInv, Published
<1>3. CASE Publish
  <2>1. /\ tid_top' = tid_top + 1 /\ times' = times /\ hist' = hist /\ wpc' = "idle" /\ wpc = "publish"
    BY <1>3 DEF Publish
  <2>2. tid_top \in Int  BY DEF TypeInv
  <2>3. ASSUME NEW t \in 0 .. tid_top + 1, t > tid_top + 1 - Num + 1
        PROVE  times[Slot(t)] = hist[t]
    <3>1. CASE t = tid_top + 1  BY <2>1, <3>1 DEF RingInv
    <3>2. CASE t # tid_top + 1
      <4>1. t \in 0 .. tid_top /\ t > tid_top - Num + 1  BY <2>2, <2>3, <3>2, NumAssumption
      <4> QED  BY <4>1 DEF RingInv, Published
    <3> QED  BY <3>1, <3>2
  <2>4. \A t \in Published' : t > tid_top' - Num + 1 => times'[Slot(t)] = hist'[t]
    <3>1. ASSUME NEW t \in Published', t > tid_top' - Num + 1 PROVE times'[Slot(t)] = hist'[t]
      <4>1. t \in 0 .. tid_top + 1 /\ t > tid_top + 1 - Num + 1
        BY <2>1, <2>2, <3>1, NumAssumption DEF Published
      <4>2. times[Slot(t)] = hist[t]  BY <2>3, <4>1
      <4> QED  BY <2>1, <4>2
    <3> QED  BY <3>1
  <2> QED  BY <2>1, <2>4 DEF RingInv
<1>4. ASSUME FillBack \/ EndFill \/ Recreate PROVE RingInv'
  <2>1. tid_top' = tid_top /\ times' = times /\ hist' = hist /\ wpc' # "publish"
    BY <1>4 DEF FillBack, EndFill, Recreate, shared
  <2> QED  BY <2>1 DEF RingInv, Published
<1>5. ASSUME UNCHANGED <<tid_top, times, hist, wpc>> PROVE RingInv'
  BY <1>5 DEF RingInv, Published
<1>6. ASSUME NEW r \in Readers, Read(r) \/ \E y \in Queries : Call(r, y) PROVE RingInv'
  <2>1. UNCHANGED <<tid_top, times, hist, wpc>>  BY <1>6, ReadersOnlyRead
  <2> QED  BY <1>5, <2>1
<1>7. CASE UNCHANGED vars  BY <1>5, <1>7 DEF vars, shared, writer
<1> QED  BY <1>1, <1>2, <1>3, <1>4, <1>6, <1>7 DEF Next, Write

\* What setTID_time does to the table first, for each entry.
LEMMA RegisterTable ==
  ASSUME TypeInv, HistInv, NEW gap \in Gaps, Register(gap)
  PROVE  /\ Bucket(LastStamp + gap) \in 0 .. Num - 1
         /\ \A p \in 0 .. Num - 1 :
              table'[p] = IF p = Bucket(LastStamp + gap) THEN tid_top + 1 ELSE table[p]
<1>1. LastStamp + gap \in Int  BY NextStamp
<1>2. Bucket(LastStamp + gap) \in 0 .. Num - 1  BY <1>1, BucketType
<1>3. table' = [table EXCEPT ![Bucket(LastStamp + gap)] = tid_top + 1]  BY DEF Register
<1> QED  BY <1>2, <1>3 DEF TypeInv

\* What one step back does to the table.
LEMMA FillBackTable ==
  ASSUME TypeInv, FillBack
  PROVE  /\ Before(wpos) \in 0 .. Num - 1 /\ wpos' = Before(wpos)
         /\ table[Before(wpos)] < tid_top
         /\ \A p \in 0 .. Num - 1 : table'[p] = IF p = Before(wpos) THEN tid_top ELSE table[p]
         /\ wfill < Num /\ wfill' = wfill + 1 /\ wpc = "fill"
         /\ UNCHANGED <<tid_top, hist, cleared, wpc>>
<1>1. Before(wpos) \in 0 .. Num - 1  BY NumAssumption DEF Before, TypeInv
<1>2. /\ table[Before(wpos)] <= tid_top - 1
      /\ table' = [table EXCEPT ![Before(wpos)] = tid_top] /\ wpos' = Before(wpos)
      /\ wfill < Num /\ wfill' = wfill + 1 /\ wpc = "fill"
      /\ UNCHANGED <<tid_top, hist, cleared, wpc>>
  BY DEF FillBack, Before
<1>3. table[Before(wpos)] < tid_top  BY <1>1, <1>2 DEF TypeInv
<1>4. \A p \in 0 .. Num - 1 : table'[p] = IF p = Before(wpos) THEN tid_top ELSE table[p]
  BY <1>1, <1>2 DEF TypeInv
<1> QED  BY <1>1, <1>2, <1>3, <1>4

LEMMA EntriesStep ==
  ASSUME TypeInv, HistInv, EntriesInv, [Next]_vars
  PROVE  EntriesInv'
<1> USE NumAssumption
<1>a. tid_top \in Int /\ \A p \in 0 .. Num - 1 : table[p] \in Int  BY DEF TypeInv
<1>1. ASSUME NEW gap \in Gaps, Register(gap) PROVE EntriesInv'
  <2> DEFINE stamp == LastStamp + gap
  <2>1. /\ hist'[tid_top + 1] = stamp
        /\ tid_top' = tid_top /\ wpc' = "fill" /\ wpc = "idle" /\ cleared' = cleared
    BY <1>1, NextStamp
  <2>2. \A p \in 0 .. Num - 1 :
          table'[p] = IF p = Bucket(stamp) THEN tid_top + 1 ELSE table[p]
    BY <1>1, RegisterTable
  <2> HIDE DEF stamp
  <2>3. ASSUME NEW p \in 0 .. Num - 1
        PROVE  /\ table'[p] > 0 /\ table'[p] > tid_top =>
                    table'[p] = tid_top + 1 /\ p = Bucket(stamp)
               /\ cleared => table'[p] <= 0 \/ table'[p] >= tid_top
    <3>1. CASE p = Bucket(stamp)  BY <1>a, <2>2, <3>1
    <3>2. CASE p # Bucket(stamp)  BY <1>a, <2>1, <2>2, <3>2 DEF EntriesInv
    <3> QED  BY <3>1, <3>2
  <2> QED  BY <2>1, <2>3 DEF EntriesInv
<1>2. CASE FillBack
  <2>1. /\ \A p \in 0 .. Num - 1 : table'[p] = IF p = Before(wpos) THEN tid_top ELSE table[p]
        /\ wpc = "fill" /\ tid_top' = tid_top /\ hist' = hist /\ cleared' = cleared /\ wpc' = wpc
    BY <1>2, FillBackTable
  <2>2. ASSUME NEW p \in 0 .. Num - 1
        PROVE  /\ table'[p] > 0 /\ table'[p] > tid_top =>
                    table'[p] = tid_top + 1 /\ p = Bucket(hist[tid_top + 1])
               /\ cleared => table'[p] <= 0 \/ table'[p] >= tid_top
    <3>1. CASE p = Before(wpos)  BY <1>a, <2>1, <3>1
    <3>2. CASE p # Before(wpos)  BY <1>a, <2>1, <3>2 DEF EntriesInv
    <3> QED  BY <3>1, <3>2
  <2> QED  BY <2>1, <2>2 DEF EntriesInv
<1>3. CASE Publish
  <2>1. /\ tid_top' = tid_top + 1 /\ table' = table /\ hist' = hist /\ wpc' = "idle"
        /\ cleared' = FALSE /\ tid_top + 1 >= 0
    BY <1>3 DEF Publish, TypeInv
  <2>2. ASSUME NEW p \in 0 .. Num - 1
        PROVE  /\ ~(table[p] > 0 /\ table[p] > tid_top + 1)
               /\ tid_top + 1 >= 1 /\ table[p] >= tid_top + 1 => p = Bucket(hist[tid_top + 1])
    BY <1>a DEF EntriesInv
  <2> QED  BY <2>1, <2>2 DEF EntriesInv
<1>4. ASSUME EndFill \/ Store PROVE EntriesInv'
  <2>1. UNCHANGED <<tid_top, table, hist, cleared>> /\ wpc # "idle" /\ wpc' \in {"store", "publish"}
    BY <1>4 DEF EndFill, Store, shared
  <2> QED  BY <2>1 DEF EntriesInv
<1>5. CASE Recreate
  <2>1. table' = ClearedTable /\ wpc' = "idle" /\ cleared' = TRUE /\ tid_top' = tid_top
    BY <1>5 DEF Recreate
  <2>2. ASSUME NEW p \in 0 .. Num - 1 PROVE table'[p] \in Int /\ table'[p] <= 0
    <3>1. table'[p] = IF p = 0 THEN -Num ELSE 0  BY <2>1 DEF ClearedTable, Floor
    <3> QED  BY <3>1
  <2>3. ASSUME NEW p \in 0 .. Num - 1
        PROVE  ~(table'[p] > 0) /\ ~(tid_top >= 1 /\ table'[p] >= tid_top)
    BY <1>a, <2>2
  <2> QED  BY <2>1, <2>2, <2>3 DEF EntriesInv
<1>6. ASSUME UNCHANGED <<tid_top, table, hist, cleared, wpc>> PROVE EntriesInv'
  BY <1>6 DEF EntriesInv
<1>7. ASSUME NEW r \in Readers, Read(r) \/ \E y \in Queries : Call(r, y) PROVE EntriesInv'
  <2>1. UNCHANGED <<tid_top, table, hist, cleared, wpc>>  BY <1>7, ReadersOnlyRead
  <2> QED  BY <1>6, <2>1
<1>8. CASE UNCHANGED vars  BY <1>6, <1>8 DEF vars, shared, writer
<1> QED  BY <1>1, <1>2, <1>3, <1>4, <1>5, <1>7, <1>8 DEF Next, Write

\* The buckets that setTID_time goes back over.
LEMMA BoundFacts ==
  ASSUME TypeInv, wpc # "idle"
  PROVE  /\ \A k \in Int : Bound(k) \in 0 .. Num - 1 /\ Before(Bound(k)) = Bound(k + 1)
         /\ Bound(0) = Bucket(hist[tid_top + 1])
<1> DEFINE S == hist[tid_top + 1] \div Cycle
<1>1. tid_top + 1 \in 0 .. MaxTid  BY BoundsAssumption DEF TypeInv, Last
<1>2. hist[tid_top + 1] \in Nat  BY <1>1 DEF TypeInv
<1>3. S \in Int  BY <1>2, DivMonotonic
<1>4. \A k : Bound(k) = (S - k) % Num  BY DEF Bound
<1>5. Bucket(hist[tid_top + 1]) = S % Num  BY DEF Bucket
<1> HIDE DEF S
<1>6. ASSUME NEW k \in Int PROVE Bound(k) \in 0 .. Num - 1 /\ Before(Bound(k)) = Bound(k + 1)
  <2>1. S - k \in Int /\ (S - k) - 1 = S - (k + 1)  BY <1>3
  <2>2. (S - k) % Num \in 0 .. Num - 1  BY <2>1, ModParts
  <2>3. (S - (k + 1)) % Num = Before((S - k) % Num)  BY <2>1, ModBefore
  <2> QED  BY <1>4, <2>2, <2>3
<1>7. S - 0 = S  BY <1>3
<1> QED  BY <1>4, <1>5, <1>6, <1>7

LEMMA FillStep ==
  ASSUME TypeInv, HistInv, EntriesInv, FillInv, TypeInv', [Next]_vars
  PROVE  FillInv'
<1> USE NumAssumption
<1>a. tid_top \in Int /\ (\A p \in 0 .. Num - 1 : table[p] \in Int) /\ wfill \in Int  BY DEF TypeInv
<1>1. ASSUME NEW gap \in Gaps, Register(gap) PROVE FillInv'
  <2> DEFINE stamp == LastStamp + gap
             b == Bucket(stamp)
  <2>1. /\ hist'[tid_top + 1] = stamp /\ tid_top' = tid_top /\ wpc' = "fill" /\ wpc = "idle"
        /\ cleared' = cleared /\ \A t \in Published : hist'[t] = hist[t]
    BY <1>1, NextStamp
  <2>2. wfill' = 0 /\ wpos' = b  BY <1>1 DEF Register
  <2>3. /\ b \in 0 .. Num - 1
        /\ \A p \in 0 .. Num - 1 : table'[p] = IF p = b THEN tid_top + 1 ELSE table[p]
    BY <1>1, RegisterTable
  <2>4. Bound(0)' = b
    <3>1. stamp \in Int /\ stamp \div Cycle \in Int  BY <1>1, NextStamp, DivMonotonic
    <3>2. (stamp \div Cycle) - 0 = stamp \div Cycle  BY <3>1
    <3> QED  BY <2>1, <3>2 DEF Bound, Bucket
  <2> HIDE DEF b, stamp
  <2>5. table'[b] = tid_top + 1  BY <2>3
  <2>6. \A k \in 0 .. 0 : k = 0  OBVIOUS
  <2>7. Bound(wfill)' = b  BY <2>2, <2>4 DEF Bound
  <2>8. ASSUME tid_top >= 1, NEW p \in 0 .. Num - 1, table'[p] >= tid_top
        PROVE  \/ ~cleared /\ p = Bucket(hist'[tid_top])
               \/ \E k \in 0 .. 0 : p = Bound(k)'
    <3>1. CASE p = b
      <4>1. 0 \in 0 .. 0  OBVIOUS
      <4> QED  BY <2>4, <3>1, <4>1
    <3>2. CASE p # b
      <4>1. table[p] >= tid_top  BY <2>3, <2>8, <3>2
      <4>2. p = Bucket(hist[tid_top])  BY <2>1, <2>8, <4>1 DEF EntriesInv
      <4>3. table[p] > 0  BY <1>a, <2>8, <4>1
      <4>4. ~(table[p] <= 0)  BY <1>a, <4>3
      <4>5. ~cleared  BY <2>1, <4>4 DEF EntriesInv
      <4>6. tid_top \in Published  BY <1>a, <2>8 DEF Published
      <4> QED  BY <2>1, <4>2, <4>5, <4>6
    <3> QED  BY <3>1, <3>2
  <2>9. tid_top + 1 >= tid_top  BY <1>a
  <2>10. \A k \in 0 .. wfill' : table'[Bound(k)'] >= tid_top'
    BY <2>1, <2>2, <2>4, <2>5, <2>6, <2>9
  <2>11. table'[Bound(0)'] = tid_top' + 1  BY <2>1, <2>4, <2>5
  <2> QED  BY <2>1, <2>2, <2>7, <2>8, <2>10, <2>11 DEF FillInv
<1>2. ASSUME FillBack PROVE FillInv'
  <2> DEFINE q == Before(wpos)
  <2>1. /\ q \in 0 .. Num - 1 /\ wpos' = q
        /\ table[q] < tid_top
        /\ \A p \in 0 .. Num - 1 : table'[p] = IF p = q THEN tid_top ELSE table[p]
        /\ wfill < Num /\ wfill' = wfill + 1 /\ wpc = "fill"
        /\ UNCHANGED <<tid_top, hist, cleared, wpc>>
    BY <1>2, FillBackTable
  <2>2. (\A k : Bound(k)' = Bound(k)) /\ Bound(0)' = Bound(0)  BY <2>1 DEF Bound
  <2>3. \A k \in Int : Bound(k) \in 0 .. Num - 1 /\ Before(Bound(k)) = Bound(k + 1)
    BY <2>1, BoundFacts
  <2> HIDE DEF q
  <2>4. table'[Bound(0)] = tid_top + 1
    <3>1. table[Bound(0)] = tid_top + 1 /\ Bound(0) \in 0 .. Num - 1  BY <2>1, <2>3 DEF FillInv
    <3>2. Bound(0) # q  BY <1>a, <2>1, <3>1
    <3> QED  BY <2>1, <3>1, <3>2
  <2>5. ASSUME tid_top >= 1
        PROVE  /\ q = Bound(wfill + 1)
               /\ \A k \in 0 .. wfill + 1 : table'[Bound(k)] >= tid_top
               /\ \A p \in 0 .. Num - 1 : table'[p] >= tid_top =>
                    \/ ~cleared /\ p = Bucket(hist[tid_top])
                    \/ \E k \in 0 .. wfill + 1 : p = Bound(k)
    <3>1. /\ wpos = Bound(wfill)
          /\ \A k \in 0 .. wfill : table[Bound(k)] >= tid_top
          /\ \A p \in 0 .. Num - 1 : table[p] >= tid_top =>
               \/ ~cleared /\ p = Bucket(hist[tid_top])
               \/ \E k \in 0 .. wfill : p = Bound(k)
      BY <2>1, <2>5 DEF FillInv
    <3>2. q = Bound(wfill + 1)  BY <1>a, <2>3, <3>1 DEF q
    <3>3. ASSUME NEW k \in 0 .. wfill PROVE table'[Bound(k)] = table[Bound(k)]
      <4>1. Bound(k) \in 0 .. Num - 1 /\ table[Bound(k)] >= tid_top  BY <1>a, <2>3, <3>1
      <4>2. Bound(k) # q  BY <1>a, <2>1, <4>1
      <4> QED  BY <2>1, <4>1, <4>2
    <3>4. ASSUME NEW k \in 0 .. wfill + 1 PROVE table'[Bound(k)] >= tid_top
      <4>1. CASE k = wfill + 1
        <5>1. table'[q] = tid_top  BY <2>1
        <5> QED  BY <1>a, <3>2, <4>1, <5>1
      <4>2. CASE k # wfill + 1
        <5>1. k \in 0 .. wfill  BY <1>a, <4>2
        <5> QED  BY <3>1, <3>3, <5>1
      <4> QED  BY <4>1, <4>2
    <3>5. ASSUME NEW p \in 0 .. Num - 1, table'[p] >= tid_top
          PROVE  \/ ~cleared /\ p = Bucket(hist[tid_top])
                 \/ \E k \in 0 .. wfill + 1 : p = Bound(k)
      <4>1. CASE p = q
        <5>1. wfill + 1 \in 0 .. wfill + 1  BY DEF TypeInv
        <5> QED  BY <3>2, <4>1, <5>1
      <4>2. CASE p # q
        <5>1. table[p] >= tid_top  BY <2>1, <3>5, <4>2
        <5>2. \A k \in 0 .. wfill : k \in 0 .. wfill + 1  BY <1>a
        <5> QED  BY <3>1, <5>1, <5>2
      <4> QED  BY <4>1, <4>2
    <3> QED  BY <3>2, <3>4, <3>5
  <2>6. Bound(wfill)' = Bound(wfill + 1)  BY <2>1 DEF Bound
  <2> QED  BY <2>1, <2>2, <2>4, <2>5, <2>6 DEF FillInv
<1>3. ASSUME EndFill \/ Store \/ Publish \/ Recreate PROVE FillInv'
  <2>1. wpc' # "fill"  BY <1>3 DEF EndFill, Store, Publish, Recreate
  <2> QED  BY <2>1 DEF FillInv
<1>4. ASSUME UNCHANGED <<tid_top, table, hist, cleared, wpc, wpos, wfill>> PROVE FillInv'
  <2>1. \A k : Bound(k)' = Bound(k)  BY <1>4 DEF Bound
  <2>2. Bound(wfill)' = Bound(wfill) /\ Bound(0)' = Bound(0)  BY <1>4 DEF Bound
  <2> QED  BY <1>4, <2>1, <2>2 DEF FillInv
<1>5. ASSUME NEW r \in Readers, Read(r) \/ \E y \in Queries : Call(r, y) PROVE FillInv'
  <2>1. UNCHANGED <<tid_top, table, hist, cleared, wpc, wpos, wfill>>  BY <1>5, ReadersOnlyRead
  <2> QED  BY <1>4, <2>1
<1>6. CASE UNCHANGED vars  BY <1>4, <1>6 DEF vars, shared, writer
<1> QED  BY <1>1, <1>2, <1>3, <1>5, <1>6 DEF Next, Write

\* The end of setTID_time: no entry lags behind the datum that is being written.
LEMMA EndFillCovers ==
  ASSUME TypeInv, HistInv, EntriesInv, FillInv, CoverInv, EndFill
  PROVE  CoverTo(tid_top + 1)
<1> USE NumAssumption
<1> DEFINE n == tid_top + 1
           S == hist[n] \div Cycle
<1>1. /\ wpc = "fill" /\ tid_top \in Int /\ n \in 0 .. MaxTid /\ n \in 0 .. Last /\ n \in Int
      /\ wfill \in 0 .. Num /\ wpos \in 0 .. Num - 1
      /\ \A p \in 0 .. Num - 1 : table[p] \in Int
  BY DEF EndFill, TypeInv, Last
<1>2. /\ hist[n] \in Nat \ {0}
      /\ \A s \in 0 .. n : hist[s] \in Nat \ {0} /\ hist[s] <= hist[n]
      /\ \A s \in 0 .. n - 1 : hist[s] < hist[n]
  BY <1>1, HistFacts
<1> SUFFICES ASSUME NEW y \in 1 .. hist[n], ~PauseBelow(n, y),
                    NEW t \in 1 .. n, t > table[Bucket(y)]
             PROVE  hist[t] > y
  BY DEF CoverTo
<1>3. y \in Int /\ y \in Nat /\ t \in Int /\ y <= hist[n]  BY <1>1, <1>2
<1>4. Bucket(y) \in 0 .. Num - 1 /\ y \div Cycle \in Int  BY <1>3, BucketType
<1>5. /\ \A k \in Int : Bound(k) \in 0 .. Num - 1 /\ Before(Bound(k)) = Bound(k + 1)
      /\ Bound(0) = Bucket(hist[n]) /\ table[Bound(0)] = n
  BY <1>1, BoundFacts DEF FillInv
<1>6. y < hist[n]
  <2>1. CASE y = hist[n]  BY <1>1, <1>3, <1>5, <2>1
  <2> QED  BY <1>2, <1>3, <2>1
<1>7. CASE table[Bucket(y)] >= tid_top
  <2>1. t = n  BY <1>1, <1>3, <1>4, <1>7
  <2> QED  BY <1>2, <1>3, <1>6, <2>1
<1>8. CASE tid_top <= 0
  <2>1. t = n  BY <1>1, <1>3, <1>8
  <2> QED  BY <1>2, <1>3, <1>6, <2>1
<1>9. CASE tid_top >= 1
  <2> DEFINE H == hist[tid_top] \div Cycle
             j == y \div Cycle
  <2>1. /\ wpos = Bound(wfill)
        /\ \A k \in 0 .. wfill : table[Bound(k)] >= tid_top
        /\ \A p \in 0 .. Num - 1 : table[p] >= tid_top =>
             \/ ~cleared /\ p = Bucket(hist[tid_top])
             \/ \E k \in 0 .. wfill : p = Bound(k)
    BY <1>1, <1>9 DEF FillInv
  <2>2. wfill = Num \/ table[Bound(wfill + 1)] >= tid_top
    <3>1. wfill = Num \/ table[Before(wpos)] > tid_top - 1  BY DEF EndFill, Before
    <3>2. Before(wpos) = Bound(wfill + 1) /\ Bound(wfill + 1) \in 0 .. Num - 1
      BY <1>1, <1>5, <2>1
    <3> QED  BY <1>1, <3>1, <3>2
  <2>3. tid_top \in 0 .. n /\ tid_top \in 0 .. n - 1 /\ hist[tid_top] \in Int /\ hist[n] \in Int
    BY <1>1, <1>2, <1>9
  <2>4. S \in Int /\ H \in Int /\ j \in Int  BY <1>3, <2>3, DivMonotonic
  <2>5. \A k : Bound(k) = (S - k) % Num  BY DEF Bound
  <2>6. Bucket(y) = j % Num /\ Bucket(hist[tid_top]) = H % Num  BY DEF Bucket
  <2>7. j <= S  BY <1>3, <1>6, <2>3, DivMonotonic
  <2>8. hist[tid_top] < y => H <= j  BY <1>3, <2>3, DivMonotonic
  <2>9. hist[tid_top] < y => S - H <= Num
    <3>1. tid_top + 1 = n  OBVIOUS
    <3> QED  BY <1>6, <2>3, <2>4, <3>1 DEF PauseBelow
  <2> HIDE DEF S, H, j
  \* Going back to a bucket that this write has filled is a full turn.
  <2>10. ASSUME NEW k \in 0 .. wfill, wfill < Num, Bound(wfill + 1) = Bound(k)
         PROVE  wfill = Num - 1
    <3>1. CASE wfill + 1 - k < Num
      <4>1. /\ S - (wfill + 1) \in Int /\ S - k \in Int /\ S - (wfill + 1) < S - k
            /\ S - k < S - (wfill + 1) + Num
        BY <1>1, <2>4, <3>1
      <4>2. (S - (wfill + 1)) % Num # (S - k) % Num  BY <4>1, ModDiffers
      <4> QED  BY <2>5, <2>10, <4>2
    <3> QED  BY <1>1, <2>10, <3>1
  <2>11. CASE cleared
    <3>1. wfill >= Num - 1
      <4>1. CASE wfill = Num  BY <4>1
      <4>2. CASE wfill < Num
        <5>1. Bound(wfill + 1) \in 0 .. Num - 1 /\ table[Bound(wfill + 1)] >= tid_top
          BY <1>1, <1>5, <2>2, <4>2
        <5>2. PICK k \in 0 .. wfill : Bound(wfill + 1) = Bound(k)  BY <2>1, <2>11, <5>1
        <5>3. wfill = Num - 1  BY <2>10, <4>2, <5>2
        <5> QED  BY <5>3
      <4> QED  BY <1>1, <4>1, <4>2
    <3>2. PICK k \in 0 .. Num - 1 : Bucket(y) = (S - k) % Num  BY <1>4, <2>4, ModReaches
    <3>3. k \in 0 .. wfill  BY <1>1, <3>1
    <3>4. table[Bucket(y)] >= tid_top  BY <2>1, <2>5, <3>2, <3>3
    <3> QED  BY <1>7, <3>4
  <2>12. CASE ~cleared /\ y <= hist[tid_top]
    <3>1. CoverTo(tid_top)  BY <1>1, <2>12 DEF CoverInv
    <3>2. ~PauseBelow(tid_top, y)
      <4>1. \A u \in 0 .. tid_top - 1 : u \in 0 .. n - 1  BY <1>1
      <4> QED  BY <4>1 DEF PauseBelow
    <3>3. y \in 1 .. hist[tid_top]  BY <1>3, <2>3, <2>12
    <3>4. CASE t = n  BY <1>2, <1>3, <1>6, <3>4
    <3>5. CASE t # n
      <4>1. t \in 1 .. tid_top  BY <1>1, <1>3, <3>5
      <4> QED  BY <3>1, <3>2, <3>3, <4>1 DEF CoverTo
    <3> QED  BY <3>4, <3>5
  <2>13. CASE ~cleared /\ hist[tid_top] < y
    <3> DEFINE k == S - j
    <3>1. /\ H <= j /\ S - H <= Num /\ k \in Int /\ k >= 0 /\ k <= Num /\ S - k = j
      BY <2>4, <2>7, <2>8, <2>9, <2>13, NumAssumption
    <3>2. Bucket(y) = Bound(k)  BY <2>5, <2>6, <3>1
    <3> HIDE DEF k
    <3>3. CASE k <= wfill
      <4>1. k \in 0 .. wfill  BY <1>1, <3>1, <3>3
      <4>2. table[Bucket(y)] >= tid_top  BY <2>1, <3>2, <4>1
      <4> QED  BY <1>7, <4>2
    <3>4. CASE k > wfill
      <4>1. wfill < Num /\ wfill + 1 <= k /\ wfill + 1 \in Int  BY <1>1, <3>1, <3>4
      <4>2. Bound(wfill + 1) \in 0 .. Num - 1 /\ table[Bound(wfill + 1)] >= tid_top
        BY <1>1, <1>5, <2>2, <4>1
      <4>3. CASE Bound(wfill + 1) = Bucket(hist[tid_top])
        \* The fill has come to the bucket of the previous datum.
        <5> DEFINE c == S - (wfill + 1)
        <5>1. c \in Int /\ H <= j /\ j <= c /\ c < H + Num  BY <1>1, <2>4, <3>1, <4>1
        <5>2. c % Num = H % Num  BY <2>5, <2>6, <4>3
        <5> HIDE DEF c
        <5>3. ~(H < c)  BY <2>4, <5>1, <5>2, ModDiffers
        <5>4. j = c  BY <2>4, <5>1, <5>3
        <5>5. Bucket(y) = Bound(wfill + 1)  BY <2>5, <2>6, <5>4 DEF c
        <5>6. table[Bucket(y)] >= tid_top  BY <4>2, <5>5
        <5> QED  BY <1>7, <5>6
      <4>4. CASE \E i \in 0 .. wfill : Bound(wfill + 1) = Bound(i)
        <5>1. wfill = Num - 1  BY <2>10, <4>1, <4>4
        <5>2. k = Num  BY <1>1, <3>1, <4>1, <5>1
        <5>3. S - Num = j /\ S - 0 = S  BY <2>4, <3>1, <5>2
        <5>4. Bucket(y) = Bound(0)  BY <2>4, <2>5, <2>6, <5>3, ModWraps
        <5>5. table[Bucket(y)] >= tid_top  BY <1>1, <1>5, <5>4
        <5> QED  BY <1>7, <5>5
      <4> QED  BY <2>1, <4>2, <4>3, <4>4
    <3> QED  BY <1>1, <3>1, <3>3, <3>4
  <2> QED  BY <1>3, <2>3, <2>11, <2>12, <2>13
<1> QED  BY <1>1, <1>8, <1>9

\* Raising entries keeps the table covering.
LEMMA CoverKept ==
  ASSUME TypeInv, HistInv, NEW CONSTANT top, top \in 0 .. Last, CoverTo(top),
         \A t \in 0 .. top : hist'[t] = hist[t],
         \A p \in 0 .. Num - 1 : table'[p] \in Int /\ (table'[p] >= table[p] \/ table'[p] >= top)
  PROVE  CoverTo(top)'
<1>1. top \in Nat /\ top \in 0 .. top /\ hist[top] \in Nat  BY HistFacts DEF TypeInv, Last
<1>2. hist'[top] = hist[top]  BY <1>1
<1> SUFFICES ASSUME NEW y \in 1 .. hist[top], ~PauseBelow(top, y)',
                    NEW t \in 1 .. top, t > table'[Bucket(y)]
             PROVE  hist'[t] > y
  BY <1>2 DEF CoverTo
<1>3. ~PauseBelow(top, y)
  <2>1. \A u \in 0 .. top - 1 : u \in 0 .. top /\ u + 1 \in 0 .. top  BY <1>1
  <2>2. \A u \in 0 .. top - 1 : hist'[u] = hist[u] /\ hist'[u + 1] = hist[u + 1]  BY <2>1
  <2> QED  BY <2>2 DEF PauseBelow
<1>4. y \in Int /\ t \in Int /\ t \in 0 .. top  BY <1>1
<1>5. Bucket(y) \in 0 .. Num - 1  BY <1>4, BucketType
<1>6. table[Bucket(y)] \in Int /\ table'[Bucket(y)] \in Int  BY <1>5 DEF TypeInv
<1>7. t > table[Bucket(y)]
  <2>1. table'[Bucket(y)] >= table[Bucket(y)] \/ table'[Bucket(y)] >= top  BY <1>5
  <2> QED  BY <1>1, <1>4, <1>6, <2>1
<1>8. hist[t] > y  BY <1>3, <1>7 DEF CoverTo
<1> QED  BY <1>4, <1>8

LEMMA CoverStep ==
  ASSUME TypeInv, HistInv, EntriesInv, FillInv, CoverInv, TypeInv', [Next]_vars
  PROVE  CoverInv'
<1>a. /\ tid_top \in Int /\ \A p \in 0 .. Num - 1 : table[p] \in Int /\ table'[p] \in Int
      /\ ~cleared => tid_top \in 0 .. Last
  <2>0. tid_top \in Int /\ table \in [0 .. Num - 1 -> Int]  BY DEF TypeInv
  <2>1. tid_top \in Int /\ \A p \in 0 .. Num - 1 : table[p] \in Int  BY <2>0
  <2>2. \A p \in 0 .. Num - 1 : table'[p] \in Int  BY DEF TypeInv
  <2>3. ~cleared => tid_top >= 0  BY DEF EntriesInv
  <2>4. tid_top <= Last /\ Last \in Int  BY <2>1 DEF Last
  <2> QED  BY <2>1, <2>2, <2>3, <2>4
<1>1. ASSUME NEW gap \in Gaps, Register(gap) PROVE CoverInv'
  <2>1. /\ \A t \in Published : hist'[t] = hist[t]
        /\ tid_top' = tid_top /\ wpc' = "fill" /\ wpc = "idle" /\ cleared' = cleared
    BY <1>1, NextStamp
  <2>2. \A p \in 0 .. Num - 1 :
          table'[p] = IF p = Bucket(LastStamp + gap) THEN tid_top + 1 ELSE table[p]
    BY <1>1, RegisterTable
  <2>3. ASSUME NEW p \in 0 .. Num - 1 PROVE table'[p] >= table[p] \/ table'[p] >= tid_top
    <3>1. CASE p = Bucket(LastStamp + gap)
      <4>1. table'[p] = tid_top + 1  BY <2>2, <3>1
      <4> QED  BY <1>a, <4>1
    <3>2. CASE p # Bucket(LastStamp + gap)
      <4>1. table'[p] = table[p]  BY <2>2, <3>2
      <4> QED  BY <1>a, <4>1
    <3> QED  BY <3>1, <3>2
  <2>4. ASSUME ~cleared PROVE CoverTo(tid_top)'
    <3>1. PICK top \in Int : top = tid_top  BY <1>a
    <3>2. top \in 0 .. Last /\ CoverTo(top)  BY <1>a, <2>1, <2>4, <3>1 DEF CoverInv
    <3>3. \A t \in 0 .. top : hist'[t] = hist[t]  BY <2>1, <3>1 DEF Published
    <3>4. CoverTo(top)'  BY <1>a, <2>3, <3>1, <3>2, <3>3, CoverKept
    <3> QED  BY <2>1, <3>1, <3>4 DEF CoverTo, PauseBelow
  <2> QED  BY <2>1, <2>4 DEF CoverInv
<1>2. CASE FillBack
  <2>1. /\ \A p \in 0 .. Num - 1 : table'[p] = IF p = Before(wpos) THEN tid_top ELSE table[p]
        /\ wpc = "fill" /\ UNCHANGED <<tid_top, hist, cleared, wpc>>
    BY <1>2, FillBackTable
  <2>2. ASSUME NEW p \in 0 .. Num - 1 PROVE table'[p] >= table[p] \/ table'[p] >= tid_top
    <3>1. CASE p = Before(wpos)
      <4>1. table'[p] = tid_top  BY <2>1, <3>1
      <4> QED  BY <1>a, <4>1
    <3>2. CASE p # Before(wpos)
      <4>1. table'[p] = table[p]  BY <2>1, <3>2
      <4> QED  BY <1>a, <4>1
    <3> QED  BY <3>1, <3>2
  <2>3. ASSUME ~cleared PROVE CoverTo(tid_top)'
    <3>1. PICK top \in Int : top = tid_top  BY <1>a
    <3>2. top \in 0 .. Last /\ CoverTo(top)  BY <1>a, <2>1, <2>3, <3>1 DEF CoverInv
    <3>3. \A t \in 0 .. top : hist'[t] = hist[t]  BY <2>1
    <3>4. CoverTo(top)'  BY <1>a, <2>2, <3>1, <3>2, <3>3, CoverKept
    <3> QED  BY <2>1, <3>1, <3>4 DEF CoverTo, PauseBelow
  <2> QED  BY <2>1, <2>3 DEF CoverInv
<1>3. ASSUME EndFill \/ Store PROVE CoverInv'
  <2>1. CoverTo(tid_top + 1)
    <3>1. CASE EndFill  BY <3>1, EndFillCovers
    <3>2. CASE Store  BY <3>2 DEF Store, CoverInv
    <3> QED  BY <1>3, <3>1, <3>2
  <2>2. UNCHANGED <<tid_top, table, hist, cleared>> /\ wpc' \in {"store", "publish"}
    BY <1>3 DEF EndFill, Store, shared
  <2>3. CoverTo(tid_top + 1)'  BY <2>1, <2>2 DEF CoverTo, PauseBelow
  <2> QED  BY <2>2, <2>3 DEF CoverInv
<1>4. CASE Publish
  <2>1. /\ tid_top' = tid_top + 1 /\ table' = table /\ hist' = hist /\ wpc' = "idle"
        /\ wpc = "publish"
    BY <1>4 DEF Publish
  <2>2. CoverTo(tid_top + 1)  BY <2>1 DEF CoverInv
  <2>3. CoverTo(tid_top)'  BY <2>1, <2>2 DEF CoverTo, PauseBelow
  <2> QED  BY <2>1, <2>3 DEF CoverInv
<1>5. CASE Recreate
  <2>1. cleared' = TRUE /\ wpc' = "idle"  BY <1>5 DEF Recreate
  <2> QED  BY <2>1 DEF CoverInv
<1>6. ASSUME UNCHANGED <<tid_top, table, hist, cleared, wpc>> PROVE CoverInv'
  BY <1>6 DEF CoverInv, CoverTo, PauseBelow
<1>7. ASSUME NEW r \in Readers, Read(r) \/ \E y \in Queries : Call(r, y) PROVE CoverInv'
  <2>1. UNCHANGED <<tid_top, table, hist, cleared, wpc>>  BY <1>7, ReadersOnlyRead
  <2> QED  BY <1>6, <2>1
<1>8. CASE UNCHANGED vars  BY <1>6, <1>8 DEF vars, shared, writer
<1> QED  BY <1>1, <1>2, <1>3, <1>4, <1>5, <1>7, <1>8 DEF Next, Write

-----------------------------------------------------------------------------
(* The readers.                                                            *)

\* The entry that a call finds, unless a write into the same bucket or a long
\* pause comes in between.
LEMMA EntryFound ==
  ASSUME TypeInv, HistInv, EntriesInv, CoverInv,
         NEW y \in Int, y > 0, tid_top >= 0, y <= hist[tid_top], ~InPause(y),
         wpc # "idle" => Bucket(hist[tid_top + 1]) # Bucket(y)
  PROVE  LET e == table[Bucket(y)]
         IN /\ e \in Int /\ e <= tid_top
            /\ e >= 1 => Above(e, y)
            /\ wpc = "idle" /\ ~cleared => \A m \in 1 .. tid_top : hist[m] <= y => e >= m
<1> DEFINE p == Bucket(y)
           e == table[p]
<1>1. p \in 0 .. Num - 1  BY BucketType
<1>2. e \in Int /\ tid_top \in Int /\ tid_top \in 0 .. tid_top  BY <1>1 DEF TypeInv
<1>3. tid_top \in 0 .. Last /\ Last \in Int /\ tid_top <= Last  BY <1>2 DEF Last
<1>4. /\ hist[tid_top] \in Nat
      /\ \A s \in 0 .. tid_top : hist[s] \in Nat /\ hist[s] <= hist[tid_top]
  BY <1>3, HistFacts
<1>5. e <= tid_top
  <2>1. e > 0 /\ e > tid_top => wpc # "idle" /\ p = Bucket(hist[tid_top + 1])
    BY <1>1 DEF EntriesInv
  <2>2. ~(e > 0 /\ e > tid_top)  BY <2>1
  <2> QED  BY <1>2, <2>2
<1>6. ~PauseBelow(tid_top, y)
  <2>1. \A t \in 0 .. tid_top - 1 : t \in Published /\ t + 1 \in Published  BY <1>2 DEF Published
  <2> QED  BY <2>1 DEF PauseBelow, InPause
<1>7. CoverTo(tid_top) => \A t \in 1 .. tid_top : t > e => hist[t] > y
  <2>1. y \in 1 .. hist[tid_top]  BY <1>4
  <2> QED  BY <1>6, <2>1 DEF CoverTo
<1>8. ASSUME e >= 1, NEW t \in Published, t > e PROVE hist[t] > y
  <2>1. t \in 1 .. tid_top  BY <1>2, <1>8 DEF Published
  <2>2. CASE wpc \in {"idle", "fill"} /\ ~cleared  BY <1>7, <1>8, <2>1, <2>2 DEF CoverInv
  <2>3. CASE wpc \in {"idle", "fill"} /\ cleared
    <3>1. (wpc = "idle" => e <= 0) /\ (wpc = "fill" => e <= 0 \/ e >= tid_top)
      BY <1>1, <2>3 DEF EntriesInv
    <3>2. ~(e <= 0) /\ ~(e >= tid_top)  BY <1>2, <1>8, <2>1
    <3> QED  BY <2>3, <3>1, <3>2
  <2>4. CASE wpc \in {"store", "publish"}
    <3> DEFINE n == tid_top + 1
    <3>1. CoverTo(n)  BY <2>4 DEF CoverInv
    <3>2. Last = n /\ n \in 0 .. Last  BY <1>2, <2>4 DEF Last
    <3>3. hist[n] \in Nat /\ hist[tid_top] <= hist[n]
      <4>1. tid_top \in 0 .. n  BY <1>2
      <4> QED  BY <3>2, <4>1, HistFacts
    <3>4. y \in 1 .. hist[n]  BY <1>4, <3>3
    <3>5. ~PauseBelow(n, y)
      <4>1. ASSUME NEW u \in 0 .. n - 1 PROVE u = tid_top \/ u \in 0 .. tid_top - 1
        BY <1>2
      <4>2. ~(hist[tid_top] < y)  BY <1>4
      <4> QED  BY <1>6, <4>1, <4>2 DEF PauseBelow
    <3>6. t \in 1 .. n  BY <1>2, <2>1
    <3> QED  BY <1>8, <3>1, <3>4, <3>5, <3>6 DEF CoverTo
  <2> QED  BY <2>2, <2>3, <2>4 DEF TypeInv
<1>9. ASSUME wpc = "idle", ~cleared, NEW m \in 1 .. tid_top, hist[m] <= y PROVE e >= m
  <2>1. CoverTo(tid_top)  BY <1>9 DEF CoverInv
  <2>2. m > e => hist[m] > y  BY <1>7, <2>1
  <2>3. hist[m] \in Nat /\ m \in Int
    <3>1. m \in 0 .. tid_top  BY <1>2
    <3> QED  BY <1>4, <3>1
  <2> QED  BY <1>2, <1>9, <2>2, <2>3
<1>10. e >= 1 => Above(e, y)  BY <1>8 DEF Above
<1> QED  BY <1>2, <1>5, <1>9, <1>10

\* A call goes on undisturbed when its state, the published data and the overlap are kept.
LEMMA CallKept ==
  ASSUME TypeInv, NEW r \in Readers, CallInv(r),
         UNCHANGED <<tid_top, rpc, ytime, rtid, ret_time>>,
         \A t \in Published : hist'[t] = hist[t],
         overlap'[r] # "bucket" => overlap[r] # "bucket",
         \/ InCall(r) /\ overlap'[r] # "none"
         \/ ~InCall(r)
         \/ cleared'
         \/ overlap'[r] = overlap[r] /\ cleared' = cleared
  PROVE  ReaderInv(r)' /\ QuietInv(r)'
<1> USE NumAssumption
<1>1. /\ rpc'[r] = rpc[r] /\ ytime'[r] = ytime[r] /\ rtid'[r] = rtid[r] /\ ret_time'[r] = ret_time[r]
      /\ tid_top' = tid_top /\ tid_top \in Int /\ rtid[r] \in Int /\ Published' = Published
  BY DEF TypeInv, Published
<1>2. \A y : InPause(y)' <=> InPause(y)  BY <1>1 DEF InPause
<1>3. \A m, y : Above(m, y)' <=> Above(m, y)  BY <1>1 DEF Above
<1>4. \A t : InRegion(t)' <=> InRegion(t)  BY <1>1 DEF InRegion
<1>5. InCall(r)' <=> InCall(r)  BY <1>1 DEF InCall
<1>6. \A t \in 1 .. tid_top : t \in Published  BY <1>1 DEF Published
<1>7. tid_top >= 0 => tid_top \in Published  BY <1>1 DEF Published
<1>8. ReaderInv(r)'
  <2>1. CASE ~(ytime[r] > 0 /\ rpc[r] \in PastNewest)  BY <1>1, <2>1 DEF ReaderInv, PastNewest
  <2>2. CASE ytime[r] > 0 /\ rpc[r] \in PastNewest
    <3>1. /\ tid_top >= 0 /\ ytime[r] <= hist[tid_top] /\ hist'[tid_top] = hist[tid_top]
      BY <1>7, <2>2 DEF ReaderInv, CallInv
    <3>2. CASE overlap'[r] = "bucket" \/ InPause(ytime[r])
      BY <1>1, <1>2, <3>1, <3>2 DEF ReaderInv, PastNewest
    <3>3. CASE overlap'[r] # "bucket" /\ ~InPause(ytime[r])
      <4>1. /\ rpc[r] # "table" => rtid[r] <= tid_top
            /\ rpc[r] = "search" /\ rtid[r] >= 1 /\ InRegion(rtid[r]) => Above(rtid[r], ytime[r])
            /\ rpc[r] \in {"found", "region"} /\ rtid[r] >= 1 /\ InRegion(rtid[r])
                 => Above(rtid[r], ytime[r]) /\ hist[rtid[r]] <= ytime[r]
            /\ rpc[r] = "region" => rtid[r] >= 1
            /\ rpc[r] \in {"copy", "got"} =>
                 rtid[r] >= 1 /\ Above(rtid[r], ytime[r]) /\ hist[rtid[r]] <= ytime[r]
            /\ rpc[r] = "got" /\ InRegion(rtid[r]) => ret_time[r] = hist[rtid[r]]
        BY <2>2, <3>3 DEF ReaderInv, CallInv
      <4>2. rpc[r] # "table" /\ rtid[r] >= 1 => hist'[rtid[r]] = hist[rtid[r]]
        BY <1>1, <1>6, <4>1
      <4>3. rpc[r] = "got" => rtid[r] >= 1  BY <4>1
      <4> QED  BY <1>1, <1>3, <1>4, <3>1, <4>1, <4>2, <4>3 DEF ReaderInv, PastNewest
    <3> QED  BY <3>2, <3>3
  <2> QED  BY <2>1, <2>2
<1>9. QuietInv(r)'
  <2>1. ASSUME ytime[r] > 0, InCall(r), overlap'[r] = "none", ~cleared', ~InPause(ytime[r]),
               NEW m \in 1 .. tid_top, hist'[m] <= ytime[r], Above(m, ytime[r]), InRegion(m)
        PROVE  (rpc[r] = "search" => rtid[r] >= m) /\ (rpc[r] \in {"found", "region"} => rtid[r] = m)
    <3>1. hist'[m] = hist[m]  BY <1>6
    <3>2. overlap[r] = "none" /\ ~cleared  BY <2>1
    <3> QED  BY <2>1, <3>1, <3>2 DEF QuietInv, CallInv
  <2> QED  BY <1>1, <1>2, <1>3, <1>4, <1>5, <2>1 DEF QuietInv
<1> QED  BY <1>8, <1>9

\* The steps of the writer, and those of the other readers.
LEMMA OthersStep ==
  ASSUME TypeInv, HistInv, TypeInv', NEW r \in Readers, CallInv(r),
         \/ Write \/ Recreate \/ UNCHANGED vars
         \/ \E q \in Readers \ {r} : Read(q) \/ \E y \in Queries : Call(q, y)
  PROVE  CallInv(r)'
<1>1. ASSUME NEW gap \in Gaps, Register(gap) PROVE CallInv(r)'
  <2> DEFINE stamp == LastStamp + gap
  <2>1. /\ \A t \in Published : hist'[t] = hist[t]
        /\ tid_top' = tid_top /\ hist'[tid_top + 1] = stamp /\ cleared' = cleared
    BY <1>1, NextStamp
  <2>2. /\ UNCHANGED <<rpc, ytime, rtid, ret_time>>
        /\ overlap'[r] = IF InCall(r) /\ overlap[r] # "bucket"
                           THEN Overlap(stamp, ytime[r]) ELSE overlap[r]
    BY <1>1 DEF Register
  <2> HIDE DEF stamp
  <2>3. InCall(r)' <=> InCall(r)  BY <2>2 DEF InCall
  <2>4. InCall(r) => overlap'[r] # "none"  BY <2>2 DEF Overlap
  <2>5. overlap'[r] # "bucket" => overlap[r] # "bucket"  BY <2>2
  <2>6. InCall(r) /\ overlap'[r] # "bucket" => Bucket(stamp) # Bucket(ytime[r])
    BY <2>2 DEF Overlap
  <2>7. OverlapInv(r)'  BY <2>1, <2>2, <2>3, <2>4, <2>6 DEF OverlapInv
  <2>8. ReaderInv(r)' /\ QuietInv(r)'  BY <2>1, <2>2, <2>4, <2>5, CallKept
  <2> QED  BY <2>7, <2>8 DEF CallInv
<1>2. ASSUME UNCHANGED <<tid_top, hist, cleared>>, overlap'[r] = overlap[r], rpc'[r] = rpc[r],
             ytime'[r] = ytime[r], rtid'[r] = rtid[r], ret_time'[r] = ret_time[r],
             wpc' # "idle" => wpc # "idle"
      PROVE  CallInv(r)'
  <2>1. InCall(r)' <=> InCall(r)  BY <1>2 DEF InCall
  <2>2. \A y : InPause(y)' <=> InPause(y)  BY <1>2 DEF InPause, Published
  <2>3. \A m, y : Above(m, y)' <=> Above(m, y)  BY <1>2 DEF Above, Published
  <2>4. \A t : InRegion(t)' <=> InRegion(t)  BY <1>2 DEF InRegion
  <2>5. OverlapInv(r)'  BY <1>2, <2>1 DEF OverlapInv, CallInv
  <2>6. ReaderInv(r)'  BY <1>2, <2>2, <2>3, <2>4 DEF ReaderInv, CallInv
  <2>7. QuietInv(r)'  BY <1>2, <2>1, <2>2, <2>3, <2>4 DEF QuietInv, CallInv
  <2> QED  BY <2>5, <2>6, <2>7 DEF CallInv
<1>3. ASSUME FillBack \/ EndFill \/ Store \/ UNCHANGED vars PROVE CallInv(r)'
  <2>1. UNCHANGED <<tid_top, hist, cleared, overlap, rpc, ytime, rtid, ret_time>>
        /\ (wpc' # "idle" => wpc # "idle")
    BY <1>3 DEF FillBack, EndFill, Store, vars, shared, writer, reader
  <2> QED  BY <1>2, <2>1
<1>4. CASE Recreate
  <2>1. UNCHANGED <<tid_top, hist, overlap, rpc, ytime, rtid, ret_time>> /\ cleared' /\ wpc' = "idle"
    BY <1>4 DEF Recreate, reader
  <2>2. OverlapInv(r)'  BY <2>1 DEF OverlapInv
  <2>3. ReaderInv(r)' /\ QuietInv(r)'  BY <2>1, CallKept
  <2> QED  BY <2>2, <2>3 DEF CallInv
<1>5. CASE Publish
  <2> DEFINE n == tid_top + 1
  <2>1. /\ tid_top' = n /\ hist' = hist /\ wpc = "publish" /\ wpc' = "idle"
        /\ UNCHANGED <<rpc, ytime, rtid, ret_time, overlap>>
    BY <1>5 DEF Publish, reader
  <2>2. tid_top \in Int /\ n \in Int /\ rtid[r] \in Int /\ ytime[r] \in Int  BY DEF TypeInv
  <2>3. OverlapInv(r)'  BY <2>1 DEF OverlapInv
  <2>4. InCall(r)' <=> InCall(r)  BY <2>1 DEF InCall
  <2>5. QuietInv(r)'
    <3>1. InCall(r) => overlap[r] # "none"  BY <2>1 DEF OverlapInv, CallInv
    <3> QED  BY <2>1, <2>4, <3>1 DEF QuietInv
  <2>6. ReaderInv(r)'
    <3>1. CASE ~(ytime[r] > 0 /\ rpc[r] \in PastNewest)  BY <2>1, <3>1 DEF ReaderInv, PastNewest
    <3>2. CASE ytime[r] > 0 /\ rpc[r] \in PastNewest
      <4>1. tid_top >= 0 /\ ytime[r] <= hist[tid_top]  BY <3>2 DEF ReaderInv, CallInv
      <4>2. n \in 0 .. Last /\ tid_top \in 0 .. n - 1 /\ tid_top \in 0 .. n
        BY <2>1, <2>2, <4>1 DEF Last
      <4>3. hist[n] \in Nat /\ hist[tid_top] \in Nat /\ hist[tid_top] < hist[n]
        BY <4>2, HistFacts
      <4>4. n >= 0 /\ ytime[r] <= hist[n] /\ hist[n] > ytime[r]  BY <2>2, <4>1, <4>3
      <4>5. InPause(ytime[r]) => InPause(ytime[r])'
        <5>1. \A t \in Published : t \in Published'  BY <2>1, <2>2 DEF Published
        <5> QED  BY <2>1, <5>1 DEF InPause
      <4>6. Above(rtid[r], ytime[r]) => Above(rtid[r], ytime[r])'
        <5>1. ASSUME NEW t \in 0 .. n PROVE t = n \/ t \in 0 .. tid_top  BY <2>2
        <5> QED  BY <2>1, <4>4, <5>1 DEF Above, Published
      <4>7. rtid[r] <= tid_top /\ InRegion(rtid[r])' => InRegion(rtid[r])
        BY <2>1, <2>2, NumAssumption DEF InRegion, SSM_MARGIN
      <4>8. rtid[r] <= tid_top => rtid[r] <= n  BY <2>2
      <4>9. CASE overlap[r] = "bucket" \/ InPause(ytime[r])
        BY <2>1, <4>4, <4>5, <4>9 DEF ReaderInv, PastNewest
      <4>10. CASE overlap[r] # "bucket" /\ ~InPause(ytime[r])
        <5>1. /\ rpc[r] # "table" => rtid[r] <= tid_top
              /\ rpc[r] = "search" /\ rtid[r] >= 1 /\ InRegion(rtid[r]) => Above(rtid[r], ytime[r])
              /\ rpc[r] \in {"found", "region"} /\ rtid[r] >= 1 /\ InRegion(rtid[r])
                   => Above(rtid[r], ytime[r]) /\ hist[rtid[r]] <= ytime[r]
              /\ rpc[r] = "region" => rtid[r] >= 1
              /\ rpc[r] \in {"copy", "got"} =>
                   rtid[r] >= 1 /\ Above(rtid[r], ytime[r]) /\ hist[rtid[r]] <= ytime[r]
              /\ rpc[r] = "got" /\ InRegion(rtid[r]) => ret_time[r] = hist[rtid[r]]
          BY <3>2, <4>10 DEF ReaderInv, CallInv
        <5>2. /\ rpc[r] # "table" => rtid[r] <= n
              /\ rpc[r] = "search" /\ rtid[r] >= 1 /\ InRegion(rtid[r])' => Above(rtid[r], ytime[r])'
              /\ rpc[r] \in {"found", "region"} /\ rtid[r] >= 1 /\ InRegion(rtid[r])'
                   => Above(rtid[r], ytime[r])' /\ hist[rtid[r]] <= ytime[r]
              /\ rpc[r] \in {"copy", "got"} =>
                   rtid[r] >= 1 /\ Above(rtid[r], ytime[r])' /\ hist[rtid[r]] <= ytime[r]
              /\ rpc[r] = "got" /\ InRegion(rtid[r])' => ret_time[r] = hist[rtid[r]]
          BY <4>6, <4>7, <4>8, <5>1
        <5> QED  BY <2>1, <4>4, <5>1, <5>2 DEF ReaderInv, PastNewest
      <4> QED  BY <4>9, <4>10
    <3> QED  BY <3>1, <3>2
  <2> QED  BY <2>3, <2>5, <2>6 DEF CallInv
<1>6. ASSUME NEW q \in Readers \ {r}, Read(q) \/ \E y \in Queries : Call(q, y) PROVE CallInv(r)'
  <2>1. UNCHANGED <<tid_top, hist, cleared, wpc>>  BY <1>6, ReadersOnlyRead
  <2>2. /\ rpc'[r] = rpc[r] /\ ytime'[r] = ytime[r] /\ rtid'[r] = rtid[r]
        /\ ret_time'[r] = ret_time[r] /\ overlap'[r] = overlap[r]
    <3>1. ASSUME NEW place, Goto(q, place) PROVE rpc'[r] = rpc[r]  BY <3>1 DEF Goto, TypeInv
    <3>2. CASE CheckNewest(q)  BY <3>1, <3>2 DEF CheckNewest, Fail, TypeInv
    <3>3. CASE LoadEntry(q)  BY <3>1, <3>3 DEF LoadEntry, TypeInv
    <3>4. CASE StepBack(q)  BY <3>4 DEF StepBack, TypeInv
    <3>5. CASE StopSearch(q)  BY <3>1, <3>5 DEF StopSearch
    <3>6. CASE CheckFound(q)  BY <3>1, <3>6 DEF CheckFound, Fail, TypeInv
    <3>7. CASE CheckRegion(q)  BY <3>1, <3>7 DEF CheckRegion, Fail, TypeInv
    <3>8. CASE Copy(q)  BY <3>1, <3>8 DEF Copy, TypeInv
    <3>9. ASSUME NEW y \in Queries, Call(q, y)
          PROVE  /\ rpc'[r] = rpc[r] /\ ytime'[r] = ytime[r] /\ rtid'[r] = rtid[r]
                 /\ ret_time'[r] = ret_time[r] /\ overlap'[r] = overlap[r]
      BY <3>1, <3>9 DEF Call, TypeInv
    <3> QED  BY <1>6, <3>2, <3>3, <3>4, <3>5, <3>6, <3>7, <3>8, <3>9 DEF Read
  <2> QED  BY <1>2, <2>1, <2>2
<1> QED  BY <1>1, <1>3, <1>4, <1>5, <1>6 DEF Write

\* What a slot says of the stamp of a datum that is still readable.
LEMMA SlotStamp ==
  ASSUME RingInv, NEW t \in Int, InRegion(t)
  PROVE  times[Slot(t)] = hist[t] /\ t \in Published
BY DEF RingInv, InRegion, Published, SSM_MARGIN

\* The steps of the call itself.
LEMMA OwnStep ==
  ASSUME TypeInv, HistInv, RingInv, EntriesInv, CoverInv, TypeInv',
         NEW r \in Readers, CallInv(r), Read(r) \/ \E y \in Queries : Call(r, y)
  PROVE  CallInv(r)'
<1> USE NumAssumption
<1> DEFINE y == ytime[r]
           t == rtid[r]
<1>1. /\ UNCHANGED <<tid_top, times, table, hist, cleared, wpc>>
      /\ y \in Int /\ t \in Int /\ tid_top \in Int /\ r \in Readers
      /\ rpc \in [Readers -> Places] /\ rtid \in [Readers -> Int]
      /\ ret_time \in [Readers -> Int]
  BY ReadersOnlyRead, SMTT(60) DEF TypeInv
<1>0. ASSUME NEW m \in 0 .. tid_top PROVE hist[m] \in Int
  <2>1. tid_top <= MaxTid /\ MaxTid \in Int  BY <1>1, BoundsAssumption DEF TypeInv
  <2>2. m \in 0 .. MaxTid  BY <1>1, <2>1
  <2>3. hist[m] \in Nat  BY <2>2 DEF TypeInv
  <2> QED  BY <2>3
<1>2. ASSUME NEW place, Goto(r, place) PROVE rpc'[r] = place  BY <1>1, <1>2 DEF Goto
<1>3. ASSUME Fail(r) PROVE CallInv(r)'
  <2>1. rpc'[r] = "failed"  BY <1>2, <1>3 DEF Fail
  <2>2. ~InCall(r)'  BY <2>1 DEF InCall
  <2> QED  BY <2>1, <2>2 DEF CallInv, OverlapInv, ReaderInv, QuietInv, PastNewest
<1>4. /\ \A u : InPause(u)' <=> InPause(u)
      /\ \A m, u : Above(m, u)' <=> Above(m, u)
      /\ \A u : InRegion(u)' <=> InRegion(u)
  BY <1>1 DEF InPause, Above, InRegion, Published
\* What the call knew before, when it matters.
<1>5. ASSUME y > 0, rpc[r] \in PastNewest
      PROVE  /\ tid_top >= 0 /\ y <= hist[tid_top]
             /\ overlap[r] # "bucket" /\ ~InPause(y) =>
                  /\ rpc[r] # "table" => t <= tid_top
                  /\ rpc[r] = "search" /\ t >= 1 /\ InRegion(t) => Above(t, y)
                  /\ rpc[r] \in {"found", "region"} /\ t >= 1 /\ InRegion(t)
                       => Above(t, y) /\ hist[t] <= y
                  /\ rpc[r] = "region" => t >= 1
                  /\ rpc[r] \in {"copy", "got"} => t >= 1 /\ Above(t, y) /\ hist[t] <= y
  BY <1>5 DEF ReaderInv, CallInv
<1>6. ASSUME InCall(r)
      PROVE  /\ wpc # "idle" => overlap[r] # "none"
             /\ wpc # "idle" /\ overlap[r] # "bucket" => Bucket(hist[tid_top + 1]) # Bucket(y)
  BY <1>6 DEF OverlapInv, CallInv
<1>7. ASSUME y > 0, InCall(r), overlap[r] = "none", ~cleared, ~InPause(y), NEW m \in 1 .. tid_top,
             hist[m] <= y, Above(m, y), InRegion(m)
      PROVE  (rpc[r] = "search" => t >= m) /\ (rpc[r] \in {"found", "region"} => t = m)
  BY <1>7 DEF QuietInv, CallInv
\* A step that stays in the call keeps what is known of the overlap.
<1>8. ASSUME InCall(r), UNCHANGED <<ytime, overlap>> PROVE OverlapInv(r)'
  BY <1>1, <1>6, <1>8 DEF OverlapInv
\* One that comes to place with the tid u has kept the invariant if these hold.
<1>9. ASSUME InCall(r), UNCHANGED <<ytime, overlap>>, NEW place, rpc'[r] = place, NEW u \in Int, rtid'[r] = u,
             place \in {"table", "search", "found", "region", "copy", "got"},
             y > 0 => tid_top >= 0 /\ y <= hist[tid_top],
             y > 0 /\ overlap[r] # "bucket" /\ ~InPause(y) =>
               /\ place # "table" => u <= tid_top
               /\ place = "search" /\ u >= 1 /\ InRegion(u) => Above(u, y)
               /\ place \in {"found", "region"} /\ u >= 1 /\ InRegion(u) => Above(u, y) /\ hist[u] <= y
               /\ place = "region" => u >= 1
               /\ place \in {"copy", "got"} => u >= 1 /\ Above(u, y) /\ hist[u] <= y
               /\ place = "got" /\ InRegion(u) => ret_time'[r] = hist[u],
             \A m \in 1 .. tid_top :
               /\ y > 0 /\ overlap[r] = "none" /\ ~cleared /\ ~InPause(y)
               /\ hist[m] <= y /\ Above(m, y) /\ InRegion(m)
               => (place = "search" => u >= m) /\ (place \in {"found", "region"} => u = m)
      PROVE  CallInv(r)'
  <2>1. OverlapInv(r)'  BY <1>8, <1>9
  <2>2. /\ ytime'[r] = y /\ overlap'[r] = overlap[r] /\ (InPause(ytime[r])' <=> InPause(y))
        /\ (InRegion(rtid[r])' <=> InRegion(u)) /\ (Above(rtid[r], ytime[r])' <=> Above(u, y))
        /\ hist' = hist /\ tid_top' = tid_top
    BY <1>1, <1>9 DEF InPause, Above, InRegion, Published
  <2>3. ReaderInv(r)'  BY <1>9, <2>2 DEF ReaderInv
  <2>4. QuietInv(r)'
    <3> SUFFICES ASSUME y > 0, overlap[r] = "none", ~cleared, ~InPause(y), NEW m \in 1 .. tid_top,
                        hist[m] <= y, Above(m, y), InRegion(m)
                 PROVE  (place = "search" => u >= m) /\ (place \in {"found", "region"} => u = m)
      <4>1. \A m : /\ Above(m, ytime[r])' <=> Above(m, y)
                   /\ InRegion(m)' <=> InRegion(m)
        BY <1>1, <2>2 DEF Above, InRegion, Published
      <4> QED  BY <1>1, <1>9, <2>2, <4>1 DEF QuietInv
    <3> QED  BY <1>9
  <2> QED  BY <2>1, <2>3, <2>4 DEF CallInv
<1>10. ASSUME NEW z \in Queries, Call(r, z) PROVE CallInv(r)'
  <2>1. /\ ytime'[r] = z
        /\ overlap'[r] = IF wpc = "idle" THEN "none" ELSE Overlap(hist[tid_top + 1], z)
    BY <1>10 DEF Call, TypeInv
  <2>2. rpc'[r] = IF z <= 0 THEN "region" ELSE "newest"  BY <1>2, <1>10 DEF Call
  <2>3. z \in Int  BY BoundsAssumption
  <2>4. OverlapInv(r)'  BY <1>1, <2>1 DEF OverlapInv, Overlap
  <2>5. ~(z > 0 /\ rpc'[r] \in PastNewest)  BY <2>2, <2>3 DEF PastNewest
  <2>6. ~(z > 0 /\ (rpc'[r] = "search" \/ rpc'[r] \in {"found", "region"}))  BY <2>5 DEF PastNewest
  <2>7. ReaderInv(r)'  BY <2>1, <2>5 DEF ReaderInv
  <2>8. QuietInv(r)'  BY <2>1, <2>6 DEF QuietInv
  <2> QED  BY <2>4, <2>7, <2>8 DEF CallInv
<1>11. CASE CheckNewest(r)
  <2>1. CASE Fail(r)  BY <1>3, <2>1
  <2>2. CASE ~(y > NewestStamp) /\ Goto(r, "table") /\ UNCHANGED rtid
    <3>1. rpc[r] = "newest" /\ UNCHANGED <<ytime, overlap>> /\ InCall(r)
      BY <1>11 DEF CheckNewest, InCall
    <3>2. rpc'[r] = "table" /\ rtid'[r] = t  BY <1>2, <2>2
    <3>3. ASSUME y > 0 PROVE tid_top >= 0 /\ y <= hist[tid_top]
      <4>1. NewestStamp \in Int
        <5>1. Slot(tid_top) \in 0 .. Num - 1  BY <1>1, BucketType
        <5> QED  BY <5>1 DEF NewestStamp, TypeInv
      <4>2. NewestStamp # 0 /\ y <= NewestStamp  BY <1>1, <2>2, <3>3, <4>1
      <4>3. tid_top # NoTid  BY <4>2 DEF NewestStamp
      <4>4. tid_top \in 0 .. tid_top  BY <4>3 DEF NoTid, TypeInv
      <4>5. InRegion(tid_top)  BY <4>4 DEF InRegion, SSM_MARGIN, TypeInv
      <4> QED  BY <1>1, <4>2, <4>3, <4>4, <4>5, SlotStamp DEF NewestStamp
    <3> QED  BY <1>1, <1>9, <3>1, <3>2, <3>3
  <2> QED  BY <1>11, <2>1, <2>2 DEF CheckNewest
<1>12. CASE LoadEntry(r)
  <2> DEFINE e == table[Bucket(y)]
  <2>1. rpc[r] = "table" /\ UNCHANGED <<ytime, overlap>> /\ InCall(r) /\ rpc[r] \in PastNewest
    BY <1>12 DEF LoadEntry, InCall, PastNewest
  <2>2. rpc'[r] = "search" /\ rtid'[r] = e  BY <1>1, <1>2, <1>12 DEF LoadEntry
  <2>3. y > 0 => tid_top >= 0 /\ y <= hist[tid_top]  BY <1>5, <2>1
  <2>4. e \in Int
    <3>1. Bucket(y) \in 0 .. Num - 1  BY <1>1, BucketType
    <3> QED  BY <3>1 DEF TypeInv
  <2>5. ASSUME y > 0, overlap[r] # "bucket", ~InPause(y)
        PROVE  /\ e <= tid_top /\ (e >= 1 => Above(e, y))
               /\ wpc = "idle" /\ ~cleared => \A m \in 1 .. tid_top : hist[m] <= y => e >= m
    BY <1>1, <1>6, <2>1, <2>3, <2>5, EntryFound
  <2>6. overlap[r] = "none" => wpc = "idle"  BY <1>6, <2>1
  <2>7. overlap[r] = "none" => overlap[r] # "bucket"  OBVIOUS
  <2> HIDE DEF e, y, t
  <2>8. "search" \in {"table", "search", "found", "region", "copy", "got"}  OBVIOUS
  <2> QED  BY <1>9, <2>1, <2>2, <2>3, <2>4, <2>5, <2>6, <2>7, <2>8
<1>13. CASE StepBack(r)
  <2> DEFINE u == IF t = Floor THEN t ELSE t - 1
  <2>1. /\ rpc[r] = "search" /\ rpc' = rpc /\ UNCHANGED <<ytime, overlap>> /\ InCall(r)
        /\ rpc[r] \in PastNewest /\ (t >= 0 => times[Slot(t)] > y)
    BY <1>13 DEF StepBack, InCall, PastNewest
  <2>2. rtid'[r] = u /\ rpc'[r] = "search"  BY <1>1, <1>13, <2>1 DEF StepBack
  <2>3. y > 0 => tid_top >= 0 /\ y <= hist[tid_top]  BY <1>5, <2>1
  <2>4. u \in Int /\ (u >= 0 => u = t - 1) /\ u <= t  BY <1>1 DEF Floor
  <2> HIDE DEF u
  <2>5. ASSUME y > 0, overlap[r] # "bucket", ~InPause(y)
        PROVE  u <= tid_top /\ (u >= 1 /\ InRegion(u) => Above(u, y))
    <3>1. t <= tid_top /\ (t >= 1 /\ InRegion(t) => Above(t, y))  BY <1>5, <2>1, <2>5
    <3>2. ASSUME u >= 1, InRegion(u) PROVE Above(u, y)
      <4>1. t = u + 1 /\ InRegion(t) /\ t >= 1
        BY <1>1, <2>4, <3>1, <3>2 DEF InRegion, SSM_MARGIN
      <4>2. times[Slot(t)] = hist[t] /\ times[Slot(t)] > y  BY <1>1, <2>1, <4>1, SlotStamp
      <4>3. ASSUME NEW v \in Published, v > u PROVE v = t \/ v > t
        BY <1>1, <2>4, <4>1, <4>3 DEF Published
      <4> QED  BY <3>1, <4>1, <4>2, <4>3 DEF Above
    <3> QED  BY <1>1, <2>4, <3>1, <3>2
  <2>6. ASSUME NEW m \in 1 .. tid_top, y > 0, overlap[r] = "none", ~cleared, ~InPause(y),
               hist[m] <= y, Above(m, y), InRegion(m)
        PROVE  u >= m
    <3>1. t >= m  BY <1>7, <2>1, <2>6
    <3>2. m \in Int /\ m >= 1  BY <1>1
    <3>3. t # m
      <4>1. times[Slot(m)] = hist[m] /\ hist[m] \in Int
        <5>1. m \in 0 .. tid_top  BY <1>1
        <5> QED  BY <1>0, <2>6, <3>2, <5>1, SlotStamp
      <4>2. ~(times[Slot(m)] > y)  BY <1>1, <2>6, <4>1
      <4> QED  BY <2>1, <3>2, <4>2
    <3> QED  BY <1>1, <2>4, <3>1, <3>2, <3>3 DEF Floor, u
  <2> HIDE DEF y, t
  <2>7. "search" \in {"table", "search", "found", "region", "copy", "got"}  OBVIOUS
  <2> QED  BY <1>9, <2>1, <2>2, <2>3, <2>4, <2>5, <2>6, <2>7
<1>14. CASE StopSearch(r)
  <2>1. /\ rpc[r] = "search" /\ UNCHANGED <<ytime, overlap, rtid>> /\ InCall(r)
        /\ rpc[r] \in PastNewest /\ (t >= 0 => times[Slot(t)] <= y)
    BY <1>14 DEF StopSearch, InCall, PastNewest
  <2>2. rtid'[r] = t /\ rpc'[r] = "found"  BY <1>1, <1>2, <1>14, <2>1 DEF StopSearch
  <2>3. y > 0 => tid_top >= 0 /\ y <= hist[tid_top]  BY <1>5, <2>1
  <2>4. t >= 1 /\ InRegion(t) => hist[t] <= y /\ t \in Published  BY <1>1, <2>1, SlotStamp
  <2>5. ASSUME y > 0, overlap[r] # "bucket", ~InPause(y)
        PROVE  t <= tid_top /\ (t >= 1 /\ InRegion(t) => Above(t, y) /\ hist[t] <= y)
    BY <1>5, <2>1, <2>4, <2>5
  <2>6. ASSUME NEW m \in 1 .. tid_top, y > 0, overlap[r] = "none", ~cleared, ~InPause(y),
               hist[m] <= y, Above(m, y), InRegion(m)
        PROVE  t = m
    <3>1. t >= m  BY <1>7, <2>1, <2>6
    <3>2. m \in Int /\ m >= 1 /\ t <= tid_top  BY <1>1, <2>5, <2>6
    <3>3. t >= 1 /\ InRegion(t)  BY <1>1, <2>6, <3>1, <3>2 DEF InRegion, SSM_MARGIN
    <3>4. hist[t] <= y /\ t \in Published /\ hist[t] \in Int
      <4>1. t \in 0 .. tid_top  BY <1>1, <3>2, <3>3
      <4> QED  BY <1>0, <2>4, <3>3, <4>1
    <3>5. ~(t > m)  BY <1>1, <2>6, <3>4 DEF Above
    <3> QED  BY <1>1, <3>1, <3>2, <3>5
  <2> HIDE DEF y, t
  <2>7. "found" \in {"table", "search", "found", "region", "copy", "got"}  OBVIOUS
  <2> QED  BY <1>1, <1>9, <2>1, <2>2, <2>3, <2>5, <2>6, <2>7
<1>15. CASE CheckFound(r)
  <2>1. CASE Fail(r)  BY <1>3, <2>1
  <2>2. CASE ~(t <= 0) /\ Goto(r, "region") /\ UNCHANGED rtid
    <3>1. /\ rpc[r] = "found" /\ UNCHANGED <<ytime, overlap>> /\ InCall(r) /\ rpc[r] \in PastNewest
      BY <1>15 DEF CheckFound, InCall, PastNewest
    <3>2. rpc'[r] = "region" /\ rtid'[r] = t  BY <1>2, <2>2
    <3>3. y > 0 => tid_top >= 0 /\ y <= hist[tid_top]  BY <1>5, <3>1
    <3>4. t >= 1  BY <1>1, <2>2
    <3>5. ASSUME y > 0, overlap[r] # "bucket", ~InPause(y)
          PROVE  t <= tid_top /\ (t >= 1 /\ InRegion(t) => Above(t, y) /\ hist[t] <= y)
      BY <1>5, <3>1, <3>5
    <3>6. ASSUME NEW m \in 1 .. tid_top, y > 0, overlap[r] = "none", ~cleared, ~InPause(y),
                 hist[m] <= y, Above(m, y), InRegion(m)
          PROVE  t = m
      BY <1>7, <3>1, <3>6
    <3> HIDE DEF y, t
    <3>7. "region" \in {"table", "search", "found", "region", "copy", "got"}  OBVIOUS
    <3> QED  BY <1>1, <1>9, <3>1, <3>2, <3>3, <3>4, <3>5, <3>6, <3>7
  <2> QED  BY <1>15, <2>1, <2>2 DEF CheckFound
<1>16. CASE CheckRegion(r)
  <2>1. CASE Fail(r)  BY <1>3, <2>1
  <2>2. CASE InRegion(t) /\ Goto(r, "copy") /\ UNCHANGED rtid
    <3>1. /\ rpc[r] = "region" /\ UNCHANGED <<ytime, overlap>> /\ InCall(r) /\ rpc[r] \in PastNewest
      BY <1>16 DEF CheckRegion, InCall, PastNewest
    <3>2. rpc'[r] = "copy" /\ rtid'[r] = t  BY <1>2, <2>2
    <3>3. y > 0 => tid_top >= 0 /\ y <= hist[tid_top]  BY <1>5, <3>1
    <3>4. ASSUME y > 0, overlap[r] # "bucket", ~InPause(y)
          PROVE  t <= tid_top /\ t >= 1 /\ Above(t, y) /\ hist[t] <= y
      BY <1>5, <2>2, <3>1, <3>4
    <3> HIDE DEF y, t
    <3>5. "copy" \in {"table", "search", "found", "region", "copy", "got"}  OBVIOUS
    <3> QED  BY <1>1, <1>9, <3>1, <3>2, <3>3, <3>4, <3>5
  <2> QED  BY <1>16, <2>1, <2>2 DEF CheckRegion
<1>17. CASE Copy(r)
  <2>1. /\ rpc[r] = "copy" /\ UNCHANGED <<ytime, overlap, rtid>> /\ InCall(r) /\ rpc[r] \in PastNewest
    BY <1>17 DEF Copy, InCall, PastNewest
  <2>2. rpc'[r] = "got" /\ rtid'[r] = t  BY <1>2, <1>17, <2>1 DEF Copy
  <2>3. y > 0 => tid_top >= 0 /\ y <= hist[tid_top]  BY <1>5, <2>1
  <2>4. y > 0 => ret_time'[r] = times[Slot(t)]  BY <1>1, <1>17 DEF Copy
  <2>5. InRegion(t) => times[Slot(t)] = hist[t]  BY <1>1, SlotStamp
  <2>6. ASSUME y > 0, overlap[r] # "bucket", ~InPause(y)
        PROVE  t <= tid_top /\ t >= 1 /\ Above(t, y) /\ hist[t] <= y
    BY <1>5, <2>1, <2>6
  <2> HIDE DEF y, t
  <2>7. "got" \in {"table", "search", "found", "region", "copy", "got"}  OBVIOUS
  <2> QED  BY <1>1, <1>9, <2>1, <2>2, <2>3, <2>4, <2>5, <2>6, <2>7
<1> QED
  BY <1>10, <1>11, <1>12, <1>13, <1>14, <1>15, <1>16, <1>17 DEF Read

-----------------------------------------------------------------------------
(* The theorems.                                                           *)

LEMMA InitIInv ==
  ASSUME Init
  PROVE  IInv
<1> USE NumAssumption, BoundsAssumption
<1>1. /\ tid_top = -1 /\ cleared = TRUE /\ wpc = "idle" /\ wpos = 0 /\ wfill = 0
      /\ table = ClearedTable
  BY DEF Init, NoTid
<1>2. \A p \in 0 .. Num - 1 : table[p] \in Int /\ table[p] <= 0
  BY <1>1 DEF ClearedTable, Floor
<1>3. TypeInv
  <2>1. ClearedTable \in [0 .. Num - 1 -> Int]  BY DEF ClearedTable, Floor
  <2>2. /\ times \in [0 .. Num - 1 -> Nat] /\ hist \in [0 .. MaxTid -> Nat]
    BY DEF Init
  <2>3. tid_top \in -1 .. MaxTid /\ Last <= MaxTid  BY <1>1 DEF Last
  <2>4. rpc \in [Readers -> Places]  BY DEF Init, Places
  <2>5. /\ ytime \in [Readers -> Int] /\ rtid \in [Readers -> Int] /\ ret_time \in [Readers -> Int]
    BY DEF Init
  <2>6. overlap \in [Readers -> Overlaps]  BY DEF Init, Overlaps
  <2>7. wpos \in 0 .. Num - 1 /\ wfill \in 0 .. Num /\ cleared \in BOOLEAN  BY <1>1
  <2> QED  BY <1>1, <2>1, <2>2, <2>3, <2>4, <2>5, <2>6, <2>7 DEF TypeInv
<1>4. HistInv  BY <1>1 DEF HistInv, Last
<1>5. RingInv  BY <1>1 DEF RingInv, Published
<1>6. EntriesInv
  <2>1. \A p \in 0 .. Num - 1 : ~(table[p] > 0)  BY <1>2
  <2> QED  BY <1>1, <1>2, <2>1 DEF EntriesInv
<1>7. FillInv /\ CoverInv  BY <1>1 DEF FillInv, CoverInv
<1>8. ASSUME NEW r \in Readers PROVE CallInv(r)
  <2>1. ytime[r] = 0 /\ rpc[r] = "none"  BY DEF Init
  <2> QED  BY <1>1, <2>1 DEF CallInv, OverlapInv, ReaderInv, QuietInv
<1> QED  BY <1>3, <1>4, <1>5, <1>6, <1>7, <1>8 DEF IInv

LEMMA IInvStep ==
  ASSUME IInv, [Next]_vars
  PROVE  IInv'
<1>1. TypeInv /\ HistInv /\ RingInv /\ EntriesInv /\ FillInv /\ CoverInv  BY DEF IInv
<1>2. TypeInv'  BY <1>1, TypeStep
<1>3. HistInv' /\ RingInv' /\ EntriesInv' /\ FillInv' /\ CoverInv'
  BY <1>1, <1>2, HistStep, RingStep, EntriesStep, FillStep, CoverStep
<1>4. ASSUME NEW r \in Readers PROVE CallInv(r)'
  <2>1. CallInv(r)  BY DEF IInv
  <2>2. CASE Write \/ Recreate \/ UNCHANGED vars  BY <1>1, <1>2, <2>1, <2>2, OthersStep
  <2>3. ASSUME NEW q \in Readers, Read(q) \/ \E y \in Queries : Call(q, y) PROVE CallInv(r)'
    <3>1. CASE q = r  BY <1>1, <1>2, <2>1, <2>3, <3>1, OwnStep
    <3>2. CASE q # r
      <4>1. q \in Readers \ {r}  BY <3>2
      <4> QED  BY <1>1, <1>2, <2>1, <2>3, <4>1, OthersStep
    <3> QED  BY <3>1, <3>2
  <2> QED  BY <2>2, <2>3 DEF Next
<1> QED  BY <1>2, <1>3, <1>4 DEF IInv

\* The invariant of the ring, the table and the calls, for every size of the ring.
THEOREM Invariance == Spec => []IInv
<1>1. Init => IInv  BY InitIInv
<1>2. IInv /\ [Next]_vars => IInv'  BY IInvStep
<1> QED  BY <1>1, <1>2, PTL DEF Spec

\* The naturals are well-founded: a set of them has a least element.
LEMMA LeastOfNats ==
  ASSUME NEW S \in SUBSET Nat, S # {}
  PROVE  \E m \in S : \A k \in S : m <= k
<1>1. PICK m \in S : \A k \in S : ~(<<k, m>> \in OpToRel(<, Nat))
  BY NatLessThanWellFounded, WFMin
<1>2. ASSUME NEW k \in S PROVE m <= k
  <2>1. ~(<<k, m>> \in {ss \in Nat \X Nat : ss[1] < ss[2]})  BY <1>1 DEF OpToRel
  <2> QED  BY <2>1
<1> QED  BY <1>2

\* The largest of some numbers below a bound.
LEMMA MaxOfBounded ==
  ASSUME NEW n \in Nat, NEW S \in SUBSET (0 .. n), S # {}
  PROVE  Max(S) \in S /\ \A t \in S : t <= Max(S)
<1> DEFINE D == {n - t : t \in S}
<1>1. D \in SUBSET Nat /\ D # {}  OBVIOUS
<1>2. (\A t \in S : n - t \in D) /\ \A e \in D : \E t \in S : e = n - t  OBVIOUS
<1> HIDE DEF D
<1>0. \E d \in D : \A e \in D : d <= e  BY <1>1, LeastOfNats
<1>a. PICK d \in D : \A e \in D : d <= e  BY <1>0
<1>3. PICK x \in S : d = n - x  BY <1>2
<1>4. ASSUME NEW t \in S PROVE x >= t
  <2>1. n - t \in D  BY <1>2
  <2> QED  BY <1>a, <1>3, <2>1
<1>5. Max(S) \in S /\ \A t \in S : Max(S) >= t  BY <1>3, <1>4 DEF Max
<1> QED  BY <1>5

\* The nearest datum that is not newer than y.
LEMMA NearestFacts ==
  ASSUME TypeInv, NEW y \in Int, NotAfter(y) # {}
  PROVE  /\ Nearest(y) \in Published /\ hist[Nearest(y)] <= y
         /\ Above(Nearest(y), y)
         /\ \A t \in Published : hist[t] <= y => t <= Nearest(y)
<1>1. NotAfter(y) \in SUBSET (0 .. tid_top) /\ tid_top \in Nat
  BY DEF NotAfter, Published, TypeInv
<1>2. Nearest(y) \in NotAfter(y) /\ \A t \in NotAfter(y) : t <= Nearest(y)
  BY <1>1, MaxOfBounded DEF Nearest
<1>3. \A t \in Published : hist[t] \in Nat /\ t \in Nat
  BY BoundsAssumption DEF TypeInv, Published
<1>4. \A t \in Published : hist[t] <= y => t <= Nearest(y)  BY <1>2 DEF NotAfter
<1>5. ASSUME NEW t \in Published, t > Nearest(y) PROVE hist[t] > y
  <2>1. Nearest(y) \in Nat  BY <1>2, <1>3 DEF NotAfter
  <2> QED  BY <1>3, <1>4, <1>5, <2>1
<1> QED  BY <1>2, <1>4, <1>5 DEF NotAfter, Above

\* It is the one datum that is not newer with only newer ones above it.
LEMMA NearestIs ==
  ASSUME TypeInv, NEW y \in Int, NEW t \in Published, hist[t] <= y, Above(t, y)
  PROVE  NotAfter(y) # {} /\ t = Nearest(y)
<1>1. t \in NotAfter(y)  BY DEF NotAfter
<1>2. /\ Nearest(y) \in Published /\ hist[Nearest(y)] <= y
      /\ \A u \in Published : hist[u] <= y => u <= Nearest(y)
  BY <1>1, NearestFacts
<1>3. \A u \in Published : hist[u] \in Nat /\ u \in Nat
  BY BoundsAssumption DEF TypeInv, Published
<1>4. t <= Nearest(y)  BY <1>2
<1>5. ~(Nearest(y) > t)
  <2>1. Nearest(y) > t => hist[Nearest(y)] > y  BY <1>2 DEF Above
  <2> QED  BY <1>2, <1>3, <2>1
<1> QED  BY <1>1, <1>2, <1>3, <1>4, <1>5

\* Outside a write no entry of the table lags behind the nearest datum.
THEOREM TableCoversTheorem == Spec => []TableCovers
<1>1. IInv => TableCovers
  <2> SUFFICES ASSUME IInv, wpc = "idle", ~cleared, NEW y \in 1 .. hist[tid_top],
                      NotAfter(y) # {}, Nearest(y) > 0, ~InPause(y)
               PROVE  table[Bucket(y)] \in Nearest(y) .. tid_top
    BY DEF TableCovers
  <2>1. TypeInv /\ HistInv /\ EntriesInv /\ CoverInv  BY DEF IInv
  <2>2. tid_top >= 0 /\ tid_top \in Int  BY <2>1 DEF EntriesInv, TypeInv
  <2>3. y \in Int /\ y > 0 /\ y <= hist[tid_top]
    <3>1. hist[tid_top] \in Nat
      <4>1. tid_top \in 0 .. MaxTid  BY <2>1, <2>2, BoundsAssumption DEF TypeInv
      <4> QED  BY <2>1, <4>1 DEF TypeInv
    <3> QED  BY <3>1
  <2>4. Nearest(y) \in Published /\ hist[Nearest(y)] <= y  BY <2>1, <2>3, NearestFacts
  <2>5. Nearest(y) \in 1 .. tid_top  BY <2>2, <2>4 DEF Published
  <2>6. LET e == table[Bucket(y)] IN e \in Int /\ e <= tid_top /\ e >= Nearest(y)
    BY <2>1, <2>2, <2>3, <2>4, <2>5, EntryFound
  <2> QED  BY <2>2, <2>5, <2>6
<1> QED  BY <1>1, Invariance, PTL

\* A read by time that no write into the same bucket overlaps gives the nearest
\* datum that is not newer, with its own stamp while it is readable.
THEOREM NearestOlderTheorem == Spec => []NearestOlderUnlessAliased
<1>1. IInv => NearestOlderUnlessAliased
  <2> SUFFICES ASSUME IInv, NEW r \in Readers, rpc[r] = "got", ytime[r] > 0,
                      overlap[r] # "bucket", ~InPause(ytime[r])
               PROVE  /\ NotAfter(ytime[r]) # {} /\ rtid[r] = Nearest(ytime[r])
                      /\ InRegion(rtid[r]) => ret_time[r] = hist[rtid[r]]
    BY DEF NearestOlderUnlessAliased
  <2>1. TypeInv /\ ReaderInv(r)  BY DEF IInv, CallInv
  <2>2. rpc[r] \in PastNewest  BY DEF PastNewest
  <2>3. /\ rtid[r] <= tid_top /\ rtid[r] >= 1 /\ Above(rtid[r], ytime[r]) /\ hist[rtid[r]] <= ytime[r]
        /\ InRegion(rtid[r]) => ret_time[r] = hist[rtid[r]]
    BY <2>1, <2>2 DEF ReaderInv
  <2>4. rtid[r] \in Published /\ ytime[r] \in Int  BY <2>1, <2>3 DEF TypeInv, Published
  <2> QED  BY <2>1, <2>3, <2>4, NearestIs
<1> QED  BY <1>1, Invariance, PTL

\* A call that no write overlaps fails only if there is nothing for it to find.
THEOREM QuietCallTheorem == Spec => QuietCallFinds
<1> DEFINE Finds ==
      \A r \in Readers :
       /\ InCall(r)
       /\ rpc'[r] = "failed"
       /\ ytime[r] > 0
       /\ overlap[r] = "none"
       /\ ~cleared
       => \/ ytime[r] > hist[tid_top]
          \/ NotAfter(ytime[r]) = {}
          \/ Nearest(ytime[r]) = 0 \/ InPause(ytime[r])
          \/ ~InRegion(Nearest(ytime[r]))
<1>1. IInv /\ [Next]_vars => [Finds]_vars
  <2> SUFFICES ASSUME IInv, Next, NEW r \in Readers, InCall(r), rpc'[r] = "failed", ytime[r] > 0,
                      overlap[r] = "none", ~cleared, NotAfter(ytime[r]) # {},
                      Nearest(ytime[r]) # 0, ~InPause(ytime[r]), InRegion(Nearest(ytime[r]))
               PROVE  ytime[r] > hist[tid_top]
    OBVIOUS
  <2> DEFINE y == ytime[r]
             m == Nearest(y)
  <2>1. TypeInv /\ HistInv /\ RingInv /\ EntriesInv /\ QuietInv(r) /\ rpc[r] # "failed"
    BY DEF IInv, CallInv, InCall
  <2>2. /\ tid_top \in Int /\ rtid[r] \in Int /\ y \in Int /\ tid_top >= 0
        /\ rpc \in [Readers -> Places]
    BY <2>1 DEF TypeInv, EntriesInv
  <2>3. m \in Published /\ hist[m] <= y /\ Above(m, y)  BY <2>1, <2>2, NearestFacts
  <2>4. m \in 1 .. tid_top  BY <2>2, <2>3 DEF Published
  <2>5. (rpc[r] = "search" => rtid[r] >= m) /\ (rpc[r] \in {"found", "region"} => rtid[r] = m)
    BY <2>1, <2>3, <2>4 DEF QuietInv
  <2>6. ASSUME NEW place, Goto(r, place) PROVE place = "failed"  BY <2>2, <2>6 DEF Goto
  \* Only the steps of the call itself end it.
  <2>7. ASSUME rpc'[r] = rpc[r] PROVE FALSE  BY <2>1, <2>7
  <2>8. CASE CheckNewest(r)
    <3>1. y > NewestStamp  BY <2>6, <2>8 DEF CheckNewest
    <3>2. InRegion(tid_top)  BY <2>2, NumAssumption DEF InRegion, SSM_MARGIN
    <3>3. times[Slot(tid_top)] = hist[tid_top]  BY <2>1, <2>2, <3>2, SlotStamp
    <3> QED  BY <2>2, <3>1, <3>3 DEF NewestStamp, NoTid
  <2>9. CASE CheckFound(r)
    <3>1. rpc[r] = "found" /\ (rtid[r] <= tid_top - Num \/ rtid[r] <= 0)
      BY <2>6, <2>9 DEF CheckFound
    <3>2. rtid[r] = m  BY <2>5, <3>1
    <3>3. m \in Int /\ m >= 1 /\ m > tid_top - Num
      BY <2>2, <2>4, NumAssumption DEF InRegion, SSM_MARGIN
    <3> QED  BY <2>2, <3>1, <3>2, <3>3, NumAssumption
  <2>10. CASE CheckRegion(r)
    <3>1. rpc[r] = "region" /\ ~InRegion(rtid[r])  BY <2>6, <2>10 DEF CheckRegion
    <3> QED  BY <2>5, <3>1
  <2>11. CASE LoadEntry(r) \/ StopSearch(r) \/ Copy(r)
    BY <2>6, <2>11 DEF LoadEntry, StopSearch, Copy
  <2>12. CASE StepBack(r)  BY <2>7, <2>12 DEF StepBack
  <2>13. ASSUME NEW z \in Queries, Call(r, z) PROVE FALSE  BY <2>13 DEF Call
  <2>14. CASE Write \/ Recreate
    <3>1. rpc' = rpc
      BY <2>14 DEF Write, Recreate, Register, FillBack, EndFill, Store, Publish, reader
    <3> QED  BY <2>7, <3>1
  <2>15. ASSUME NEW q \in Readers, q # r, Read(q) \/ \E z \in Queries : Call(q, z) PROVE FALSE
    <3>1. ASSUME NEW place, Goto(q, place) PROVE FALSE
      <4>1. rpc'[r] = rpc[r]  BY <2>2, <2>15, <3>1 DEF Goto
      <4> QED  BY <2>7, <4>1
    <3>2. CASE StepBack(q)  BY <2>7, <3>2 DEF StepBack
    <3>3. CASE Read(q) /\ ~StepBack(q)
      BY <3>1, <3>3 DEF Read, CheckNewest, LoadEntry, StopSearch, CheckFound, CheckRegion, Copy, Fail
    <3>4. ASSUME NEW z \in Queries, Call(q, z) PROVE FALSE  BY <3>1, <3>4 DEF Call
    <3> QED  BY <2>15, <3>2, <3>3, <3>4
  <2> QED
    <3>1. CASE \E q \in Readers : q # r /\ (Read(q) \/ \E z \in Queries : Call(q, z))
      BY <2>15, <3>1
    <3>2. CASE Read(r)  BY <2>8, <2>9, <2>10, <2>11, <2>12, <3>2 DEF Read
    <3>3. CASE \E z \in Queries : Call(r, z)  BY <2>13, <3>3
    <3> QED  BY <2>14, <3>1, <3>2, <3>3 DEF Next
<1> QED  BY <1>1, Invariance, PTL DEF Spec, QuietCallFinds
-----------------------------------------------------------------------------
(* The replay of logs (SSMReplay).  The inductive invariant says how far a *)
(* log was read and how much of it was written, by its status; whether the *)
(* clock has reached what was written; and what the round that is running  *)
(* has found out about the logs it has been at.                            *)

Datum == [record : Int, stamp : Nat]

ReplayTypes ==
  /\ file \in [Logs -> LogFiles] /\ kind \in {"player", "library"}
  /\ g_speed \in Nat /\ turn \in Nat /\ log_num \in 0 .. g_log_num
  /\ status \in [Logs -> {"read", "write", "end"}]
  /\ read \in [Logs -> Nat] /\ time \in [Logs -> Nat] /\ buf \in [Logs -> Int]
  /\ out \in [Logs -> Seq(Datum)]
  /\ working \in BOOLEAN
  /\ cur_time \in Nat /\ real \in Nat /\ real >= Start
  /\ common \in [settime : Int, offset : Int, speed : Nat \ {0}]
  /\ asked \in [Logs -> Nat]

\* Where a program may be, and what is open there.
PhaseInv ==
  /\ pc \in IF kind = "player" THEN {"open", "settime", "quit", "play", "done"}
            ELSE {"idle", "proceed"}
  /\ pc = "open" => log_num < g_log_num
  /\ pc \in {"settime", "play", "done"} => log_num = g_log_num
  /\ pc \in {"open", "settime"} => turn = 1
  /\ pc \in {"open", "settime", "quit"} => \A l \in Logs : out[l] = <<>>
  /\ \A l \in Logs : l > log_num => out[l] = <<>> /\ status[l] = "read"

\* What was written is a prefix of the records; by its status, how many were read,
\* and of which record the time is.
Prefix(l) ==
  \A i \in 1 .. Len(out[l]) : i <= Len(file[l].stamps) =>
    out[l][i] = [record |-> i, stamp |-> file[l].stamps[i]]
Progress(l) ==
  /\ read[l] <= Len(file[l].stamps)
  /\ status[l] = "read" => Len(out[l]) = read[l]
  /\ status[l] = "write" => /\ kind = "player" /\ Len(out[l]) + 1 = read[l]
                            /\ time[l] = file[l].stamps[read[l]] /\ buf[l] = read[l]
  /\ status[l] = "end" =>
       Len(out[l]) = Len(file[l].stamps) + (IF kind = "player" THEN 0 ELSE 1)
TimeRead(l) ==
  kind = "library" /\ status[l] = "read" /\ l <= log_num =>
    time[l] = IF read[l] = 0 THEN file[l].head ELSE file[l].stamps[read[l]]
LogsInv == \A l \in Logs : Prefix(l) /\ Progress(l) /\ TimeRead(l)

\* What the clock of the program has not reached.
NoneEarly ==
  kind = "player" => \A l \in Logs : \A i \in 1 .. Len(out[l]) : out[l][i].stamp <= gettimeSSM
EarlyBefore(l) ==
  {i \in 1 .. Len(out[l]) : /\ i < Len(out[l]) /\ i <= Len(file[l].stamps)
                            /\ out[l][i].stamp >= cur_time}
FewEarly ==
  kind = "library" => \A l \in Logs : Cardinality(EarlyBefore(l)) <= asked[l]

\* The logs that a round has been at.
LaterThanAll(t) == \A k \in Logs : \A i \in 1 .. Len(out[k]) : out[k][i].stamp < t
RoundInv ==
  /\ pc = "play" /\ ~working => \A l \in Logs : l < turn =>
       status[l] = "end" \/ (status[l] = "write" /\ LaterThanAll(time[l]))
  /\ pc = "proceed" => \A l \in Logs : l <= log_num /\ l < turn => ~Behind(l)

ReplayInv ==
  ReplayTypes /\ PhaseInv /\ LogsInv /\ NoneEarly /\ FewEarly /\ RoundInv

-----------------------------------------------------------------------------
LEMMA LogNumbers ==
  /\ g_log_num \in Nat /\ g_log_num > 0 /\ Start \in Nat
  /\ \A l \in Logs : l \in Nat /\ l >= 1 /\ l <= g_log_num
  /\ \A n \in Nat : n >= 1 /\ n <= g_log_num => n \in Logs
BY LogsAssumption, StampsAssumption DEF Logs

LEMMA FileFacts ==
  ASSUME file \in [Logs -> LogFiles], NEW l \in Logs
  PROVE  /\ file[l].head \in Nat
         /\ file[l].stamps \in Seq(Nat) /\ Len(file[l].stamps) \in Nat
         /\ \A i \in 1 .. Len(file[l].stamps) :
              file[l].stamps[i] \in Nat /\ file[l].stamps[i] <= Start
<1> DEFINE records == UNION {[1 .. n -> Stamps] : n \in 0 .. MaxRecords}
<1>1. file[l] \in [head : Stamps \cup {0}, stamps : records, end : emergency]
  BY DEF LogFiles
<1>2. PICK n \in 0 .. MaxRecords : file[l].stamps \in [1 .. n -> Stamps]
  BY <1>1
<1>3. n \in Nat  BY LogsAssumption
<1>4. file[l].stamps \in Seq(Stamps) /\ Len(file[l].stamps) = n
  BY <1>2, <1>3
<1>5. \A y \in Stamps : y \in Nat /\ y <= Start
  BY StampsAssumption
<1>6. file[l].head \in Nat
  BY <1>1, <1>5
<1>7. file[l].stamps \in Seq(Nat)
  BY <1>2, <1>3, <1>5
<1> QED  BY <1>2, <1>3, <1>4, <1>5, <1>6, <1>7

LEMMA LogTypes ==
  ASSUME ReplayTypes, NEW l \in Logs
  PROVE  /\ Len(out[l]) \in Nat /\ read[l] \in Nat /\ Len(file[l].stamps) \in Nat
         /\ time[l] \in Nat /\ buf[l] \in Int /\ asked[l] \in Nat
         /\ status[l] \in {"read", "write", "end"}
<1>1. out[l] \in Seq(Datum) /\ read[l] \in Nat  BY DEF ReplayTypes
<1>2. Len(file[l].stamps) \in Nat  BY FileFacts DEF ReplayTypes
<1> QED  BY <1>1, <1>2 DEF ReplayTypes

LEMMA Appended ==
  ASSUME out \in [Logs -> Seq(Datum)], NEW l \in Logs, NEW n \in Int, NEW y \in Nat,
         Written(l, n, y)
  PROVE  /\ out' \in [Logs -> Seq(Datum)]
         /\ Len(out[l]) \in Nat /\ Len(out'[l]) = Len(out[l]) + 1
         /\ \A i \in 1 .. Len(out[l]) : out'[l][i] = out[l][i]
         /\ out'[l][Len(out[l]) + 1] = [record |-> n, stamp |-> y]
         /\ \A k \in Logs \ {l} : out'[k] = out[k]
<1> DEFINE e == [record |-> n, stamp |-> y]
<1>1. e \in Datum /\ out[l] \in Seq(Datum)  BY DEF Datum
<1> HIDE DEF e
<1>2. out' = [out EXCEPT ![l] = Append(out[l], e)]  BY DEF Written, e
<1>3. /\ Append(out[l], e) \in Seq(Datum)
      /\ Len(Append(out[l], e)) = Len(out[l]) + 1
      /\ \A i \in 1 .. Len(out[l]) : Append(out[l], e)[i] = out[l][i]
      /\ Append(out[l], e)[Len(out[l]) + 1] = e
  BY <1>1
<1>4. out'[l] = Append(out[l], e)  BY <1>2
<1> QED  BY <1>1, <1>2, <1>3, <1>4 DEF e

\* Reading a record, or what is left behind the last one.
LEMMA RecordFacts ==
  ASSUME ReplayTypes, LogsInv, NEW l \in Logs, status[l] = "read", Record(l)
  PROVE  /\ read[l] = Len(out[l]) /\ read[l] + 1 <= Len(file[l].stamps)
         /\ read' = [read EXCEPT ![l] = Len(out[l]) + 1]
         /\ time' = [time EXCEPT ![l] = file[l].stamps[Len(out[l]) + 1]]
         /\ buf' = [buf EXCEPT ![l] = Len(out[l]) + 1]
         /\ read' \in [Logs -> Nat] /\ time' \in [Logs -> Nat] /\ buf' \in [Logs -> Int]
<1>1. read[l] = Len(out[l])  BY DEF LogsInv, Progress
<1>2. /\ Len(out[l]) \in Nat /\ read[l] \in Nat /\ Len(file[l].stamps) \in Nat
  BY LogTypes
<1>3. read[l] + 1 <= Len(file[l].stamps)  BY <1>1, <1>2 DEF Record, HasRecord
<1>4. file[l].stamps[Len(out[l]) + 1] \in Nat
  <2>1. Len(out[l]) + 1 \in 1 .. Len(file[l].stamps)  BY <1>1, <1>2, <1>3
  <2> QED  BY <2>1, FileFacts DEF ReplayTypes
<1> QED  BY <1>1, <1>3, <1>4 DEF Record, ReplayTypes

LEMMA EndFacts ==
  ASSUME ReplayTypes, LogsInv, NEW l \in Logs, status[l] = "read", EndOfFile(l)
  PROVE  /\ read[l] = Len(out[l]) /\ read[l] = Len(file[l].stamps)
         /\ read' = read
         /\ time' \in [Logs -> Nat] /\ buf' \in [Logs -> Int]
         /\ \A k \in Logs \ {l} : time'[k] = time[k] /\ buf'[k] = buf[k]
<1>1. read[l] = Len(out[l]) /\ read[l] <= Len(file[l].stamps)
  BY DEF LogsInv, Progress
<1>2. /\ Len(out[l]) \in Nat /\ read[l] \in Nat /\ Len(file[l].stamps) \in Nat
  BY LogTypes
<1>3. read[l] = Len(file[l].stamps)
  <2>1. ~HasRecord(l)  BY DEF EndOfFile
  <2> QED  BY <1>1, <1>2, <2>1 DEF HasRecord
<1>4. PICK y \in IF file[l].end = "whole" THEN {time[l]} ELSE Stamps \cup {0} :
        time' = [time EXCEPT ![l] = y]
  BY DEF EndOfFile
<1>5. y \in Nat  BY <1>4, StampsAssumption DEF ReplayTypes
<1>6. Torn \in Int /\ buf[l] \in Int  BY DEF Torn, ReplayTypes
<1> QED  BY <1>1, <1>3, <1>4, <1>5, <1>6 DEF EndOfFile, ReplayTypes

\* The player has a record, read in this round or in an earlier one.
LEMMA FetchFacts ==
  ASSUME ReplayTypes, LogsInv, NEW l \in Logs, Fetch(l)
  PROVE  /\ Len(out[l]) \in Nat /\ Len(out[l]) + 1 <= Len(file[l].stamps)
         /\ read'[l] = Len(out[l]) + 1 /\ buf'[l] = Len(out[l]) + 1
         /\ time'[l] = file[l].stamps[Len(out[l]) + 1] /\ time'[l] \in Nat
         /\ read' \in [Logs -> Nat] /\ time' \in [Logs -> Nat] /\ buf' \in [Logs -> Int]
         /\ \A k \in Logs \ {l} : read'[k] = read[k] /\ time'[k] = time[k] /\ buf'[k] = buf[k]
<1>0. Len(out[l]) \in Nat  BY LogTypes
<1>1. CASE status[l] = "write" /\ UNCHANGED <<read, time, buf>>
  <2>1. /\ Len(out[l]) + 1 = read[l] /\ read[l] <= Len(file[l].stamps)
        /\ time[l] = file[l].stamps[read[l]] /\ buf[l] = read[l]
    BY <1>1 DEF LogsInv, Progress
  <2> QED  BY <1>0, <1>1, <2>1 DEF ReplayTypes
<1>2. CASE status[l] = "read" /\ Record(l)
  <2>1. /\ read[l] = Len(out[l]) /\ read[l] + 1 <= Len(file[l].stamps)
        /\ read' = [read EXCEPT ![l] = Len(out[l]) + 1]
        /\ time' = [time EXCEPT ![l] = file[l].stamps[Len(out[l]) + 1]]
        /\ buf' = [buf EXCEPT ![l] = Len(out[l]) + 1]
        /\ read' \in [Logs -> Nat] /\ time' \in [Logs -> Nat] /\ buf' \in [Logs -> Int]
    BY <1>2, RecordFacts
  <2> QED  BY <1>0, <2>1 DEF ReplayTypes
<1> QED  BY <1>1, <1>2 DEF Fetch

\* The library writes a record, or at the end once more what it has.
LEMMA ReadAndWriteFacts ==
  ASSUME ReplayTypes, LogsInv, kind = "library", NEW l \in Logs, ReadAndWrite(l)
  PROVE  /\ status[l] = "read" /\ buf'[l] \in Int /\ time'[l] \in Nat
         /\ Written(l, buf'[l], time'[l])
         /\ read' \in [Logs -> Nat] /\ time' \in [Logs -> Nat] /\ buf' \in [Logs -> Int]
         /\ status' \in [Logs -> {"read", "write", "end"}]
         /\ \A k \in Logs \ {l} : /\ read'[k] = read[k] /\ time'[k] = time[k]
                                  /\ buf'[k] = buf[k] /\ status'[k] = status[k]
         /\ \/ /\ Len(out[l]) + 1 <= Len(file[l].stamps)
               /\ read'[l] = Len(out[l]) + 1 /\ buf'[l] = Len(out[l]) + 1
               /\ time'[l] = file[l].stamps[Len(out[l]) + 1] /\ status'[l] = "read"
            \/ /\ Len(out[l]) = Len(file[l].stamps) /\ read'[l] = Len(file[l].stamps)
               /\ status'[l] = "end"
<1>1. status[l] = "read"
  <2>1. status[l] \in {"read", "write", "end"}  BY LogTypes
  <2>2. status[l] # "end"  BY DEF ReadAndWrite
  <2>3. status[l] # "write"  BY DEF LogsInv, Progress
  <2> QED  BY <2>1, <2>2, <2>3
<1>2. Written(l, buf'[l], time'[l])  BY DEF ReadAndWrite
<1>3. CASE Record(l) /\ UNCHANGED status
  <2>1. /\ read[l] = Len(out[l]) /\ read[l] + 1 <= Len(file[l].stamps)
        /\ read' = [read EXCEPT ![l] = Len(out[l]) + 1]
        /\ time' = [time EXCEPT ![l] = file[l].stamps[Len(out[l]) + 1]]
        /\ buf' = [buf EXCEPT ![l] = Len(out[l]) + 1]
        /\ read' \in [Logs -> Nat] /\ time' \in [Logs -> Nat] /\ buf' \in [Logs -> Int]
    BY <1>1, <1>3, RecordFacts
  <2> QED  BY <1>1, <1>2, <1>3, <2>1 DEF ReplayTypes
<1>4. CASE EndOfFile(l) /\ status' = [status EXCEPT ![l] = "end"]
  <2>1. /\ read[l] = Len(out[l]) /\ read[l] = Len(file[l].stamps)
        /\ read' = read
        /\ time' \in [Logs -> Nat] /\ buf' \in [Logs -> Int]
        /\ \A k \in Logs \ {l} : time'[k] = time[k] /\ buf'[k] = buf[k]
    BY <1>1, <1>4, EndFacts
  <2> QED  BY <1>1, <1>2, <1>4, <2>1 DEF ReplayTypes
<1> QED  BY <1>3, <1>4 DEF ReadAndWrite

\* The clock of the SSM is set.
LEMMA SetFacts ==
  ASSUME ReplayTypes, NEW t \in Nat, NEW s \in Nat, settimeSSM(t, s)
  PROVE  common' \in [settime : Int, offset : Int, speed : Nat \ {0}]
BY DEF settimeSSM, ReplayTypes

\* What is never changed.
LEMMA Static == ReplayNext => UNCHANGED <<file, kind, g_speed>>
BY DEF ReplayNext, Tick, Player, Open, OpenFails, SetTime, NextRound, Finish, AtEnd, Ended,
       Wait, WriteDue, NextTurn, Library, openSSMlog, Return, proceedSSMlog_time,
       proceedSSMlog, Proceed, Proceeded, ReadAndWrite

LEMMA ReplayTypesInit == ReplayInit => ReplayTypes
<1> SUFFICES ASSUME ReplayInit PROVE ReplayTypes  OBVIOUS
<1>1. g_speed \in Nat
  <2>1. g_speed \in Speeds \/ g_speed = 0  BY DEF ReplayInit, arg_analysis
  <2>2. Speeds \subseteq Nat  BY SpeedsAssumption
  <2>3. g_speed \in Speeds => g_speed \in Nat  BY <2>2
  <2>4. g_speed = 0 => g_speed \in Nat  OBVIOUS
  <2> QED  BY <2>1, <2>3, <2>4
<1>2. log_num \in 0 .. g_log_num  BY LogNumbers DEF ReplayInit
<1>3. real \in Nat /\ real >= Start /\ cur_time \in Nat  BY LogNumbers DEF ReplayInit
<1>4. out \in [Logs -> Seq(Datum)]  BY DEF ReplayInit
<1>5. common \in [settime : Int, offset : Int, speed : Nat \ {0}]  BY DEF ReplayInit
<1>6. asked \in [Logs -> Nat] /\ read \in [Logs -> Nat] /\ time \in [Logs -> Nat]
  BY DEF ReplayInit
<1>7. buf \in [Logs -> Int] /\ status \in [Logs -> {"read", "write", "end"}]
  BY DEF ReplayInit
<1>8. turn \in Nat /\ working \in BOOLEAN  BY DEF ReplayInit
<1>9. kind \in {"player", "library"} /\ file \in [Logs -> LogFiles]  BY DEF ReplayInit
<1> QED  BY <1>1, <1>2, <1>3, <1>4, <1>5, <1>6, <1>7, <1>8, <1>9 DEF ReplayTypes

LEMMA ReplayTypesNext ==
  ASSUME ReplayTypes, PhaseInv, LogsInv, ReplayNext
  PROVE  ReplayTypes'
<1> USE DEF ReplayTypes
<1>0. /\ file' = file /\ kind' = kind /\ g_speed' = g_speed
      /\ turn \in Nat /\ log_num \in Nat /\ real \in Nat /\ cur_time \in Nat
      /\ turn + 1 \in Nat /\ log_num + 1 \in Nat
  BY LogNumbers, Static
<1>1. CASE Tick
  <2>1. real' = real + 1  BY <1>1 DEF Tick
  <2>2. real' \in Nat /\ real' >= Start  BY <1>0, <2>1, LogNumbers
  <2> QED  BY <1>1, <2>2 DEF Tick, log
<1>2. ASSUME Open \/ openSSMlog PROVE ReplayTypes'
  <2>1. log_num < g_log_num /\ log_num' = log_num + 1
        /\ time' = [time EXCEPT ![log_num + 1] = file[log_num + 1].head]
    BY <1>2 DEF Open, openSSMlog, PhaseInv
  <2>2. log_num' \in 0 .. g_log_num /\ log_num + 1 \in Logs  BY <1>0, <2>1, LogNumbers
  <2>3. file[log_num + 1].head \in Nat  BY <2>2, FileFacts
  <2>4. time' \in [Logs -> Nat]  BY <2>1, <2>3
  <2>5. cur_time' \in Nat  BY <1>2, <2>3 DEF Open, openSSMlog, clocks
  <2> QED  BY <1>0, <1>2, <2>2, <2>4, <2>5 DEF Open, openSSMlog, clocks
<1>3. CASE SetTime
  <2>1. 1 \in Logs  BY LogNumbers
  <2>2. time[1] \in Nat /\ g_speed \in Nat  BY <2>1
  <2>3. common' \in [settime : Int, offset : Int, speed : Nat \ {0}]
    BY <1>3, <2>2, SetFacts DEF SetTime
  <2> QED  BY <1>3, <2>3 DEF SetTime, log
<1>4. CASE Finish
  <2>1. common' \in [settime : Int, offset : Int, speed : Nat \ {0}]
    BY <1>4, SetFacts DEF Finish
  <2> QED  BY <1>4, <2>1 DEF Finish, log
<1>5. CASE NextRound
  <2>1. turn' \in Nat /\ working' \in BOOLEAN  BY <1>5 DEF NextRound
  <2> QED  BY <1>5, <2>1 DEF NextRound, log, clocks
<1>12. CASE OpenFails \/ Return
  BY <1>12 DEF OpenFails, Return, log, clocks
<1>6. ASSUME NEW l \in Logs, Ended(l) \/ Proceeded(l) PROVE ReplayTypes'
  BY <1>0, <1>6 DEF Ended, Proceeded, NextTurn, log, clocks
<1>7. ASSUME NEW l \in Logs, AtEnd(l) PROVE ReplayTypes'
  <2>1. status[l] = "read" /\ EndOfFile(l)  BY <1>7 DEF AtEnd
  <2>2. read' = read /\ time' \in [Logs -> Nat] /\ buf' \in [Logs -> Int]
    BY <2>1, EndFacts
  <2>3. status' \in [Logs -> {"read", "write", "end"}]  BY <1>7 DEF AtEnd
  <2> QED  BY <1>0, <1>7, <2>2, <2>3 DEF AtEnd, NextTurn, clocks
<1>8. ASSUME NEW l \in Logs, Wait(l) PROVE ReplayTypes'
  <2>1. Fetch(l)  BY <1>8 DEF Wait
  <2>2. read' \in [Logs -> Nat] /\ time' \in [Logs -> Nat] /\ buf' \in [Logs -> Int]
    BY <2>1, FetchFacts
  <2>3. status' \in [Logs -> {"read", "write", "end"}]  BY <1>8 DEF Wait
  <2> QED  BY <1>0, <1>8, <2>2, <2>3 DEF Wait, NextTurn, clocks
<1>9. ASSUME NEW l \in Logs, WriteDue(l) PROVE ReplayTypes'
  <2>1. Fetch(l) /\ Written(l, buf'[l], time'[l])  BY <1>9 DEF WriteDue
  <2>2. read' \in [Logs -> Nat] /\ time' \in [Logs -> Nat] /\ buf' \in [Logs -> Int]
    BY <2>1, FetchFacts
  <2>3. status' \in [Logs -> {"read", "write", "end"}] /\ working' \in BOOLEAN
    BY <1>9 DEF WriteDue
  <2>4. buf'[l] \in Int /\ time'[l] \in Nat  BY <2>2
  <2>5. out' \in [Logs -> Seq(Datum)]  BY <2>1, <2>4, Appended
  <2> QED  BY <1>0, <1>9, <2>2, <2>3, <2>5 DEF WriteDue, NextTurn, clocks
<1>10. ASSUME NEW t \in Steps, proceedSSMlog_time(t) PROVE ReplayTypes'
  <2>1. cur_time + t \in Nat  BY <1>0, SpeedsAssumption
  <2> QED  BY <1>10, <2>1 DEF proceedSSMlog_time, log
<1>11. ASSUME NEW l \in Logs, proceedSSMlog(l) \/ Proceed(l) PROVE ReplayTypes'
  <2>1. ReadAndWrite(l) /\ kind = "library" /\ turn' = turn
    BY <1>11 DEF proceedSSMlog, Proceed, PhaseInv
  <2>2. /\ read' \in [Logs -> Nat] /\ time' \in [Logs -> Nat] /\ buf' \in [Logs -> Int]
        /\ status' \in [Logs -> {"read", "write", "end"}]
        /\ buf'[l] \in Int /\ time'[l] \in Nat /\ Written(l, buf'[l], time'[l])
    BY <2>1, ReadAndWriteFacts
  <2>3. out' \in [Logs -> Seq(Datum)]  BY <2>2, Appended
  <2>4. asked' = asked \/ asked' = [asked EXCEPT ![l] = asked[l] + 1]
    BY <1>11 DEF proceedSSMlog, Proceed
  <2>5. asked[l] + 1 \in Nat  OBVIOUS
  <2>6. asked' \in [Logs -> Nat]  BY <2>4, <2>5
  <2> QED  BY <1>0, <2>1, <2>2, <2>3, <2>6 DEF ReadAndWrite, clocks
<1> QED
  BY <1>1, <1>2, <1>3, <1>4, <1>5, <1>6, <1>7, <1>8, <1>9, <1>10, <1>11, <1>12
     DEF ReplayNext, Player, Library

-----------------------------------------------------------------------------
(* Where the programs are.                                                 *)
LEMMA PhaseInit == ReplayInit => PhaseInv
<1> SUFFICES ASSUME ReplayInit PROVE PhaseInv  OBVIOUS
<1>1. \A l \in Logs : out[l] = <<>> /\ status[l] = "read"  BY DEF ReplayInit
<1>2. log_num = 0 /\ turn = 1 /\ 0 < g_log_num  BY LogNumbers DEF ReplayInit
<1>3. kind \in {"player", "library"} /\ pc = (IF kind = "player" THEN "open" ELSE "idle")
  BY DEF ReplayInit
<1> QED  BY <1>1, <1>2, <1>3 DEF PhaseInv

\* The last conjunct, and what is written before a player plays, for one log.
LEMMA PhaseNext ==
  ASSUME ReplayTypes, PhaseInv, LogsInv, ReplayNext
  PROVE  PhaseInv'
<1>0. /\ kind' = kind /\ kind \in {"player", "library"}
      /\ log_num \in Nat /\ log_num <= g_log_num /\ g_log_num \in Nat
  BY LogNumbers, Static DEF ReplayTypes
<1>1. CASE Tick
  BY <1>0, <1>1 DEF Tick, PhaseInv, log
<1>2. CASE Open
  <2>1. log_num' = log_num + 1 /\ log_num < g_log_num /\ UNCHANGED <<turn, out, status>>
        /\ pc' = (IF log_num + 1 = g_log_num THEN "settime" ELSE "open")
        /\ pc = "open" /\ kind = "player"
    BY <1>0, <1>2 DEF Open, PhaseInv
  <2>2. \A l \in Logs : l > log_num + 1 => l > log_num  BY <1>0, LogNumbers
  <2>3. \A l \in Logs : l > log_num' => out'[l] = <<>> /\ status'[l] = "read"
    BY <2>1, <2>2 DEF PhaseInv
  <2>4. log_num + 1 # g_log_num => log_num + 1 < g_log_num  BY <1>0, <2>1
  <2> QED  BY <1>0, <2>1, <2>3, <2>4 DEF PhaseInv
<1>3. CASE openSSMlog
  <2>1. log_num' = log_num + 1 /\ UNCHANGED <<pc, turn, out, status>>
        /\ pc = "idle" /\ kind = "library"
    BY <1>0, <1>3 DEF openSSMlog
  <2>2. \A l \in Logs : l > log_num + 1 => l > log_num  BY <1>0, LogNumbers
  <2>3. \A l \in Logs : l > log_num' => out'[l] = <<>> /\ status'[l] = "read"
    BY <2>1, <2>2 DEF PhaseInv
  <2> QED  BY <1>0, <2>1, <2>3 DEF PhaseInv
<1>4. CASE OpenFails \/ SetTime \/ Finish
  <2>1. /\ \/ pc = "open" /\ pc' = "quit"
           \/ pc = "settime" /\ pc' = "play"
           \/ pc = "play" /\ pc' = "done"
        /\ UNCHANGED <<log_num, turn, out, status>>
    BY <1>4 DEF OpenFails, SetTime, Finish, log
  <2> QED  BY <1>0, <2>1 DEF PhaseInv
<1>5. CASE NextRound
  BY <1>0, <1>5 DEF NextRound, PhaseInv, log
<1>6. CASE Return
  BY <1>0, <1>6 DEF Return, PhaseInv, log
<1>7. ASSUME NEW t \in Steps, proceedSSMlog_time(t) PROVE PhaseInv'
  BY <1>0, <1>7 DEF proceedSSMlog_time, PhaseInv, log
<1>8. ASSUME NEW l \in Logs, Ended(l) \/ AtEnd(l) \/ Wait(l) \/ WriteDue(l) PROVE PhaseInv'
  <2>1. pc = "play" /\ pc' = "play" /\ log_num' = log_num /\ log_num = g_log_num /\ kind = "player"
    BY <1>0, <1>8 DEF Ended, AtEnd, Wait, WriteDue, Playing, NextTurn, PhaseInv
  <2>2. \A k \in Logs : ~(k > log_num)  BY <2>1, LogNumbers
  <2> QED  BY <1>0, <2>1, <2>2 DEF PhaseInv
<1>9. ASSUME NEW l \in Logs, Proceeded(l) PROVE PhaseInv'
  BY <1>0, <1>9 DEF Proceeded, PhaseInv, log
<1>10. ASSUME NEW l \in Logs, proceedSSMlog(l) \/ Proceed(l) PROVE PhaseInv'
  <2>1. /\ ReadAndWrite(l) /\ l <= log_num /\ log_num' = log_num
        /\ pc' = pc /\ pc \in {"idle", "proceed"} /\ kind = "library"
    BY <1>0, <1>10 DEF proceedSSMlog, Proceed, PhaseInv, ReadAndWrite
  <2>2. /\ buf'[l] \in Int /\ time'[l] \in Nat /\ Written(l, buf'[l], time'[l])
        /\ \A k \in Logs \ {l} : status'[k] = status[k]
    BY <2>1, ReadAndWriteFacts
  <2>3. \A k \in Logs \ {l} : out'[k] = out[k]  BY <2>2, Appended DEF ReplayTypes
  <2>4. \A k \in Logs : k > log_num => k # l  BY <2>1, <1>0, LogNumbers
  <2>5. \A k \in Logs : k > log_num' => out'[k] = <<>> /\ status'[k] = "read"
    BY <2>1, <2>2, <2>3, <2>4 DEF PhaseInv
  <2> QED  BY <1>0, <2>1, <2>5 DEF PhaseInv
<1> QED
  BY <1>1, <1>2, <1>3, <1>4, <1>5, <1>6, <1>7, <1>8, <1>9, <1>10
     DEF ReplayNext, Player, Library

-----------------------------------------------------------------------------
(* The logs, one by one: a step leaves a log alone, or takes it one record *)
(* further.                                                                *)
LogInv(l) == Prefix(l) /\ Progress(l) /\ TimeRead(l)

LEMMA OtherLog ==
  ASSUME LogsInv, NEW k \in Logs, file' = file, kind' = kind, log_num' = log_num,
         out'[k] = out[k], status'[k] = status[k], read'[k] = read[k], time'[k] = time[k],
         buf'[k] = buf[k]
  PROVE  LogInv(k)'
<1>1. Prefix(k) /\ Progress(k) /\ TimeRead(k)  BY DEF LogsInv
<1>2. Prefix(k)'  BY <1>1 DEF Prefix
<1>3. Progress(k)'  BY <1>1 DEF Progress
<1>4. TimeRead(k)'  BY <1>1 DEF TimeRead
<1> QED  BY <1>2, <1>3, <1>4 DEF LogInv

\* A record or the last datum was appended to out.
LEMMA PrefixGrows ==
  ASSUME ReplayTypes, LogsInv, file' = file, NEW l \in Logs, NEW n \in Int, NEW y \in Nat,
         Written(l, n, y), 
         Len(out[l]) + 1 <= Len(file[l].stamps) =>
           n = Len(out[l]) + 1 /\ y = file[l].stamps[Len(out[l]) + 1]
  PROVE  Prefix(l)'
<1>1. /\ Len(out[l]) \in Nat /\ Len(out'[l]) = Len(out[l]) + 1
      /\ \A i \in 1 .. Len(out[l]) : out'[l][i] = out[l][i]
      /\ out'[l][Len(out[l]) + 1] = [record |-> n, stamp |-> y]
  BY Appended DEF ReplayTypes
<1> SUFFICES ASSUME NEW i \in 1 .. Len(out'[l]), i <= Len(file[l].stamps)
             PROVE  out'[l][i] = [record |-> i, stamp |-> file[l].stamps[i]]
  BY DEF Prefix
<1>2. CASE i = Len(out[l]) + 1  BY <1>1, <1>2
<1>3. CASE i # Len(out[l]) + 1
  <2>1. i \in 1 .. Len(out[l])  BY <1>1, <1>3
  <2>2. out[l][i] = [record |-> i, stamp |-> file[l].stamps[i]]
    BY <2>1 DEF LogsInv, Prefix
  <2> QED  BY <1>1, <2>1, <2>2
<1> QED  BY <1>2, <1>3

LEMMA LogsInit == ReplayInit => LogsInv
<1> SUFFICES ASSUME ReplayInit, NEW l \in Logs PROVE LogInv(l)  BY DEF LogsInv, LogInv
<1>1. out[l] = <<>> /\ read[l] = 0 /\ status[l] = "read" /\ log_num = 0  BY DEF ReplayInit
<1>2. Len(file[l].stamps) \in Nat  BY FileFacts DEF ReplayInit
<1>3. Prefix(l)  BY <1>1 DEF Prefix
<1>4. Progress(l)  BY <1>1, <1>2 DEF Progress
<1>5. ~(l <= log_num)  BY <1>1, LogNumbers
<1> QED  BY <1>3, <1>4, <1>5 DEF LogInv, TimeRead

LEMMA LogsNext ==
  ASSUME ReplayTypes, PhaseInv, LogsInv, ReplayNext
  PROVE  LogsInv'
<1>0. /\ file' = file /\ kind' = kind /\ kind \in {"player", "library"}
      /\ log_num \in Nat /\ log_num <= g_log_num /\ g_log_num \in Nat
      /\ Logs' = Logs
  BY LogNumbers, Static DEF ReplayTypes, Logs
<1> SUFFICES ASSUME NEW k \in Logs PROVE LogInv(k)'
  BY <1>0 DEF LogsInv, LogInv
<1>1. CASE UNCHANGED <<log, log_num>>
  BY <1>0, <1>1, OtherLog DEF log
<1>2. CASE Open \/ openSSMlog
  <2>1. /\ log_num' = log_num + 1 /\ log_num + 1 \in Logs
        /\ time' = [time EXCEPT ![log_num + 1] = file[log_num + 1].head]
        /\ UNCHANGED <<out, status, read, buf>>
    BY <1>0, <1>2, LogNumbers DEF Open, openSSMlog, PhaseInv
  <2>2. CASE k = log_num + 1
    <3>1. k > log_num /\ ~(k <= log_num)  BY <1>0, <2>2
    <3>2. out[k] = <<>> /\ status[k] = "read"  BY <3>1 DEF PhaseInv
    <3>3. read[k] = 0  BY <3>2 DEF LogsInv, Progress
    <3>4. time'[k] = file[k].head  BY <2>1, <2>2 DEF ReplayTypes
    <3> QED  BY <1>0, <2>1, <3>2, <3>3, <3>4 DEF LogInv, LogsInv, Prefix, Progress, TimeRead
  <2>3. CASE k # log_num + 1
    <3>1. time'[k] = time[k]  BY <2>1, <2>3 DEF ReplayTypes
    <3>2. k <= log_num + 1 => k <= log_num  BY <1>0, <2>3, LogNumbers
    <3> QED  BY <1>0, <2>1, <3>1, <3>2 DEF LogInv, LogsInv, Prefix, Progress, TimeRead
  <2> QED  BY <2>2, <2>3
<1>3. ASSUME NEW l \in Logs, AtEnd(l) PROVE LogInv(k)'
  <2>0. /\ pc = "play" /\ kind = "player" /\ status[l] = "read" /\ EndOfFile(l)
        /\ status' = [status EXCEPT ![l] = "end"] /\ UNCHANGED <<out, log_num>>
    BY <1>0, <1>3 DEF AtEnd, Playing, NextTurn, PhaseInv
  <2>1. /\ read[l] = Len(out[l]) /\ read[l] = Len(file[l].stamps) /\ read' = read
        /\ \A m \in Logs \ {l} : time'[m] = time[m] /\ buf'[m] = buf[m]
    BY <2>0, EndFacts
  <2>2. CASE k = l
    <3>1. status'[k] = "end"  BY <2>0, <2>2 DEF ReplayTypes
    <3>2. Len(file[k].stamps) \in Nat  BY FileFacts DEF ReplayTypes
    <3> QED  BY <1>0, <2>0, <2>1, <2>2, <3>1, <3>2
             DEF LogInv, LogsInv, Prefix, Progress, TimeRead
  <2>3. CASE k # l
    <3>1. status'[k] = status[k]  BY <2>0, <2>3 DEF ReplayTypes
    <3> QED  BY <1>0, <2>0, <2>1, <2>3, <3>1, OtherLog
  <2> QED  BY <2>2, <2>3
<1>4. ASSUME NEW l \in Logs, Wait(l) PROVE LogInv(k)'
  <2>0. /\ pc = "play" /\ kind = "player" /\ Fetch(l)
        /\ status' = [status EXCEPT ![l] = "write"] /\ UNCHANGED <<out, log_num>>
    BY <1>0, <1>4 DEF Wait, Playing, NextTurn, PhaseInv
  <2>1. /\ Len(out[l]) \in Nat /\ Len(out[l]) + 1 <= Len(file[l].stamps)
        /\ read'[l] = Len(out[l]) + 1 /\ buf'[l] = Len(out[l]) + 1
        /\ time'[l] = file[l].stamps[Len(out[l]) + 1]
        /\ \A m \in Logs \ {l} : read'[m] = read[m] /\ time'[m] = time[m] /\ buf'[m] = buf[m]
    BY <2>0, FetchFacts
  <2>2. CASE k = l
    <3>1. status'[k] = "write"  BY <2>0, <2>2 DEF ReplayTypes
    <3> QED  BY <1>0, <2>0, <2>1, <2>2, <3>1
             DEF LogInv, LogsInv, Prefix, Progress, TimeRead
  <2>3. CASE k # l
    <3>1. status'[k] = status[k]  BY <2>0, <2>3 DEF ReplayTypes
    <3> QED  BY <1>0, <2>0, <2>1, <2>3, <3>1, OtherLog
  <2> QED  BY <2>2, <2>3
<1>5. ASSUME NEW l \in Logs, WriteDue(l) PROVE LogInv(k)'
  <2>0. /\ pc = "play" /\ kind = "player" /\ Fetch(l) /\ Written(l, buf'[l], time'[l])
        /\ status' = [status EXCEPT ![l] = "read"] /\ UNCHANGED log_num
    BY <1>0, <1>5 DEF WriteDue, Playing, NextTurn, PhaseInv
  <2>1. /\ Len(out[l]) \in Nat /\ Len(out[l]) + 1 <= Len(file[l].stamps)
        /\ read'[l] = Len(out[l]) + 1 /\ buf'[l] = Len(out[l]) + 1
        /\ time'[l] = file[l].stamps[Len(out[l]) + 1] /\ time'[l] \in Nat
        /\ \A m \in Logs \ {l} : read'[m] = read[m] /\ time'[m] = time[m] /\ buf'[m] = buf[m]
    BY <2>0, FetchFacts
  <2>2. buf'[l] \in Int  BY <2>1
  <2>3. /\ Len(out'[l]) = Len(out[l]) + 1 /\ \A m \in Logs \ {l} : out'[m] = out[m]
    BY <2>0, <2>1, <2>2, Appended DEF ReplayTypes
  <2>4. CASE k = l
    <3>1. status'[k] = "read"  BY <2>0, <2>4 DEF ReplayTypes
    <3>2. Prefix(k)'  BY <1>0, <2>0, <2>1, <2>2, <2>4, PrefixGrows
    <3> QED  BY <1>0, <2>0, <2>1, <2>3, <2>4, <3>1, <3>2
             DEF LogInv, LogsInv, Progress, TimeRead
  <2>5. CASE k # l
    <3>1. status'[k] = status[k]  BY <2>0, <2>5 DEF ReplayTypes
    <3> QED  BY <1>0, <2>0, <2>1, <2>3, <2>5, <3>1, OtherLog
  <2> QED  BY <2>4, <2>5
<1>6. ASSUME NEW l \in Logs, proceedSSMlog(l) \/ Proceed(l) PROVE LogInv(k)'
  <2>0. ReadAndWrite(l) /\ kind = "library" /\ log_num' = log_num
    BY <1>0, <1>6 DEF proceedSSMlog, Proceed, PhaseInv, ReadAndWrite
  <2>1. /\ buf'[l] \in Int /\ time'[l] \in Nat /\ Written(l, buf'[l], time'[l])
        /\ \A m \in Logs \ {l} : /\ read'[m] = read[m] /\ time'[m] = time[m]
                                 /\ buf'[m] = buf[m] /\ status'[m] = status[m]
        /\ \/ /\ Len(out[l]) + 1 <= Len(file[l].stamps)
              /\ read'[l] = Len(out[l]) + 1 /\ buf'[l] = Len(out[l]) + 1
              /\ time'[l] = file[l].stamps[Len(out[l]) + 1] /\ status'[l] = "read"
           \/ /\ Len(out[l]) = Len(file[l].stamps) /\ read'[l] = Len(file[l].stamps)
              /\ status'[l] = "end"
    BY <2>0, ReadAndWriteFacts
  <2>2. /\ Len(out[l]) \in Nat /\ Len(out'[l]) = Len(out[l]) + 1
        /\ \A m \in Logs \ {l} : out'[m] = out[m]
    BY <2>1, Appended DEF ReplayTypes
  <2>3. CASE k = l
    <3>1. Len(file[k].stamps) \in Nat  BY FileFacts DEF ReplayTypes
    <3>2. Prefix(k)'  BY <1>0, <2>1, <2>2, <2>3, <3>1, PrefixGrows
    <3>3. Progress(k)'  BY <1>0, <2>0, <2>1, <2>2, <2>3, <3>1 DEF Progress
    <3>4. TimeRead(k)'  BY <1>0, <2>0, <2>1, <2>2, <2>3, <3>1 DEF TimeRead
    <3> QED  BY <3>2, <3>3, <3>4 DEF LogInv
  <2>4. CASE k # l
    BY <1>0, <2>0, <2>1, <2>2, <2>4, OtherLog
  <2> QED  BY <2>3, <2>4
<1> QED
  BY <1>1, <1>2, <1>3, <1>4, <1>5, <1>6
     DEF ReplayNext, Tick, Player, OpenFails, SetTime, NextRound, Finish, Ended, NextTurn,
         Library, Return, proceedSSMlog_time, Proceeded

-----------------------------------------------------------------------------
(* The clocks.  That of the SSM goes on by at least a tick, and when it is *)
(* set back to the real time, every log is of the past.                    *)
LEMMA StampsOf ==
  ASSUME ReplayTypes, NEW l \in Logs, NEW i \in 1 .. Len(out[l])
  PROVE  out[l][i].stamp \in Nat
<1>1. out[l] \in Seq(Datum)  BY DEF ReplayTypes
<1>2. out[l][i] \in Datum  BY <1>1
<1> QED  BY <1>2 DEF Datum

LEMMA ClockType == ASSUME ReplayTypes PROVE gettimeSSM \in Int
<1>1. /\ real \in Int /\ common.settime \in Int /\ common.offset \in Int /\ common.speed \in Int
  BY DEF ReplayTypes
<1>2. (real - common.settime) * common.speed \in Int  BY <1>1
<1> QED  BY <1>1, <1>2 DEF gettimeSSM

LEMMA ClockTicks ==
  ASSUME ReplayTypes, Tick
  PROVE  gettimeSSM' \in Int /\ gettimeSSM <= gettimeSSM'
<1> DEFINE d == real - common.settime  v == common.speed  o == common.offset
<1>1. real' = real + 1 /\ common' = common  BY DEF Tick
<1>2. d \in Int /\ v \in Nat /\ o \in Int  BY DEF ReplayTypes
<1>3. gettimeSSM = d * v + o  BY DEF gettimeSSM
<1>4. (real + 1) - common.settime = d + 1  BY DEF ReplayTypes
<1>5. gettimeSSM' = (d + 1) * v + o  BY <1>1, <1>4 DEF gettimeSSM
<1> HIDE DEF d, v, o
<1>6. (d + 1) * v = d * v + v /\ d * v \in Int  BY <1>2
<1> QED  BY <1>2, <1>3, <1>5, <1>6

LEMMA NoneEarlyInit == ReplayInit => NoneEarly
<1> SUFFICES ASSUME ReplayInit, NEW l \in Logs, NEW i \in 1 .. Len(out[l]) PROVE FALSE
  BY DEF NoneEarly
<1>1. out[l] = <<>>  BY DEF ReplayInit
<1> QED  BY <1>1

LEMMA NoneEarlyNext ==
  ASSUME ReplayTypes, ReplayTypes', PhaseInv, LogsInv, NoneEarly, ReplayNext
  PROVE  NoneEarly'
<1> SUFFICES ASSUME kind' = "player", NEW k \in Logs, NEW i \in 1 .. Len(out'[k])
             PROVE  out'[k][i].stamp <= gettimeSSM'
  BY DEF NoneEarly
<1>0. kind = "player"
  BY Static
<1>1. CASE out' = out /\ UNCHANGED <<real, common>>
  <2>1. gettimeSSM' = gettimeSSM  BY <1>1 DEF gettimeSSM
  <2> QED  BY <1>0, <1>1, <2>1 DEF NoneEarly
<1>2. CASE Tick
  <2>1. out' = out  BY <1>2 DEF Tick, log
  <2>2. out[k][i].stamp <= gettimeSSM /\ out[k][i].stamp \in Nat
    BY <1>0, <2>1, StampsOf DEF NoneEarly
  <2>3. gettimeSSM \in Int  BY ClockType
  <2>4. gettimeSSM' \in Int /\ gettimeSSM <= gettimeSSM'  BY <1>2, ClockTicks
  <2> QED  BY <2>1, <2>2, <2>3, <2>4
<1>3. CASE SetTime
  <2>1. out'[k] = <<>>  BY <1>3 DEF SetTime, log, PhaseInv
  <2> QED  BY <2>1
<1>4. CASE Finish
  <2>1. out' = out /\ real' = real /\ common' = [settime |-> real, offset |-> real, speed |-> 1]
    BY <1>4 DEF Finish, log, settimeSSM
  <2>2. gettimeSSM' = (real - real) * 1 + real  BY <2>1 DEF gettimeSSM
  <2>3. gettimeSSM' = real /\ real \in Nat /\ real >= Start /\ Start \in Nat
    BY <2>2, LogNumbers DEF ReplayTypes
  <2>4. /\ Len(out[k]) \in Nat /\ Len(file[k].stamps) \in Nat /\ read[k] \in Nat
        /\ status[k] \in {"read", "write", "end"}
    BY LogTypes
  <2>5. Len(out[k]) <= Len(file[k].stamps)
    BY <1>0, <2>4 DEF LogsInv, Progress
  <2>6. i \in 1 .. Len(out[k]) /\ i <= Len(file[k].stamps) /\ i \in 1 .. Len(file[k].stamps)
    BY <2>1, <2>4, <2>5
  <2>7. out[k][i] = [record |-> i, stamp |-> file[k].stamps[i]]
    BY <2>6 DEF LogsInv, Prefix
  <2>8. file[k].stamps[i] \in Nat /\ file[k].stamps[i] <= Start
    BY <2>6, FileFacts DEF ReplayTypes
  <2> QED  BY <2>1, <2>3, <2>7, <2>8
<1>5. ASSUME NEW l \in Logs, WriteDue(l) PROVE out'[k][i].stamp <= gettimeSSM'
  <2>1. /\ Fetch(l) /\ Written(l, buf'[l], time'[l]) /\ gettimeSSM >= time'[l]
        /\ real' = real /\ common' = common
    BY <1>5 DEF WriteDue, NextTurn, clocks
  <2>2. buf' \in [Logs -> Int] /\ time' \in [Logs -> Nat]  BY <2>1, FetchFacts
  <2>3. buf'[l] \in Int /\ time'[l] \in Nat  BY <2>2
  <2>4. /\ Len(out[l]) \in Nat /\ Len(out'[l]) = Len(out[l]) + 1
        /\ \A j \in 1 .. Len(out[l]) : out'[l][j] = out[l][j]
        /\ out'[l][Len(out[l]) + 1] = [record |-> buf'[l], stamp |-> time'[l]]
        /\ \A m \in Logs \ {l} : out'[m] = out[m]
    <3>1. out \in [Logs -> Seq(Datum)]  BY DEF ReplayTypes
    <3> QED  BY <2>1, <2>3, <3>1, Appended
  <2>5. gettimeSSM' = gettimeSSM  BY <2>1 DEF gettimeSSM
  <2>6. CASE k = l /\ i = Len(out[l]) + 1
    <3>1. out'[k][i].stamp = time'[l]  BY <2>4, <2>6
    <3> QED  BY <2>1, <2>3, <2>5, <3>1, ClockType
  <2>7. CASE ~(k = l /\ i = Len(out[l]) + 1)
    <3>1. i \in 1 .. Len(out[k]) /\ out'[k][i] = out[k][i]  BY <2>4, <2>7
    <3> QED  BY <1>0, <2>5, <3>1 DEF NoneEarly
  <2> QED  BY <2>6, <2>7
<1> QED
  BY <1>0, <1>1, <1>2, <1>3, <1>4, <1>5
     DEF ReplayNext, Player, Open, OpenFails, NextRound, Ended, AtEnd, Wait, NextTurn,
         Library, openSSMlog, Return, proceedSSMlog_time, proceedSSMlog, Proceed, Proceeded,
         ReadAndWrite, PhaseInv, log, clocks

-----------------------------------------------------------------------------
(* The data of a log that the clock of the library has not reached.        *)
Early(l) ==
  {i \in 1 .. Len(out[l]) : i <= Len(file[l].stamps) /\ out[l][i].stamp >= cur_time}

LEMMA EarlyFinite ==
  ASSUME ReplayTypes, NEW l \in Logs
  PROVE  /\ IsFiniteSet(Early(l)) /\ IsFiniteSet(EarlyBefore(l))
         /\ Cardinality(Early(l)) \in Nat /\ Cardinality(EarlyBefore(l)) \in Nat
         /\ Cardinality(Early(l)) <= Cardinality(EarlyBefore(l)) + 1
<1> DEFINE last == Len(out[l])
<1>1. last \in Nat  BY LogTypes
<1>2. IsFiniteSet(1 .. last)  BY <1>1, FS_Interval
<1>3. /\ Early(l) \subseteq 1 .. last /\ EarlyBefore(l) \subseteq 1 .. last
  BY DEF Early, EarlyBefore
<1>4. IsFiniteSet(Early(l)) /\ IsFiniteSet(EarlyBefore(l))  BY <1>2, <1>3, FS_Subset
<1>5. Early(l) \subseteq EarlyBefore(l) \cup {last}
  <2> SUFFICES ASSUME NEW i \in Early(l), i # last PROVE i \in EarlyBefore(l)  OBVIOUS
  <2>1. i \in 1 .. last /\ i < last  BY <1>1 DEF Early
  <2> QED  BY <2>1 DEF Early, EarlyBefore
<1>6. /\ IsFiniteSet(EarlyBefore(l) \cup {last})
      /\ Cardinality(EarlyBefore(l) \cup {last}) <= Cardinality(EarlyBefore(l)) + 1
      /\ Cardinality(EarlyBefore(l)) \in Nat
  <2>1. Cardinality(EarlyBefore(l)) \in Nat  BY <1>4, FS_CardinalityType
  <2>2. /\ IsFiniteSet(EarlyBefore(l) \cup {last})
        /\ \/ Cardinality(EarlyBefore(l) \cup {last}) = Cardinality(EarlyBefore(l))
           \/ Cardinality(EarlyBefore(l) \cup {last}) = Cardinality(EarlyBefore(l)) + 1
    BY <1>4, FS_AddElement
  <2> QED  BY <2>1, <2>2
<1>7. Cardinality(Early(l)) <= Cardinality(EarlyBefore(l) \cup {last})
  BY <1>5, <1>6, FS_Subset
<1>8. Cardinality(Early(l)) \in Nat /\ Cardinality(EarlyBefore(l) \cup {last}) \in Nat
  BY <1>4, <1>6, FS_CardinalityType
<1> QED  BY <1>4, <1>6, <1>7, <1>8

\* What is before the last after a datum was written was there before.
LEMMA EarlyShrinks ==
  ASSUME ReplayTypes, file' = file, NEW l \in Logs, NEW n \in Int, NEW y \in Nat,
         Written(l, n, y), cur_time' = cur_time
  PROVE  EarlyBefore(l)' \subseteq Early(l)
<1>1. /\ Len(out[l]) \in Nat /\ Len(out'[l]) = Len(out[l]) + 1
      /\ \A i \in 1 .. Len(out[l]) : out'[l][i] = out[l][i]
  BY Appended DEF ReplayTypes
<1> SUFFICES ASSUME NEW i \in 1 .. Len(out'[l]), i < Len(out'[l]), i <= Len(file[l].stamps),
                    out'[l][i].stamp >= cur_time
             PROVE  i \in Early(l)
  BY DEF EarlyBefore
<1>2. i \in 1 .. Len(out[l])  BY <1>1
<1> QED  BY <1>1, <1>2 DEF Early

\* A log that is behind has written nothing early last.
LEMMA NoneEarlyLast ==
  ASSUME ReplayTypes, LogsInv, kind = "library", NEW l \in Logs, l <= log_num,
         status[l] = "read", time[l] < cur_time
  PROVE  Early(l) \subseteq EarlyBefore(l)
<1> SUFFICES ASSUME NEW i \in Early(l) PROVE i < Len(out[l])
  BY DEF Early, EarlyBefore
<1>1. /\ i \in 1 .. Len(out[l]) /\ i <= Len(file[l].stamps) /\ out[l][i].stamp >= cur_time
  BY DEF Early
<1>2. Len(out[l]) \in Nat /\ read[l] = Len(out[l])  BY LogTypes DEF LogsInv, Progress
<1>3. ASSUME i = Len(out[l]) PROVE FALSE
  <2>1. read[l] # 0  BY <1>1, <1>2, <1>3
  <2>2. time[l] = file[l].stamps[read[l]]  BY <2>1 DEF LogsInv, TimeRead
  <2>3. out[l][i] = [record |-> i, stamp |-> file[l].stamps[i]]
    BY <1>1 DEF LogsInv, Prefix
  <2>4. time[l] \in Nat /\ cur_time \in Nat  BY DEF ReplayTypes
  <2> QED  BY <1>1, <1>2, <1>3, <2>2, <2>3, <2>4
<1> QED  BY <1>1, <1>2, <1>3

LEMMA FewEarlyInit == ReplayInit => FewEarly
<1> SUFFICES ASSUME ReplayInit, NEW l \in Logs PROVE Cardinality(EarlyBefore(l)) <= asked[l]
  BY DEF FewEarly
<1>1. out[l] = <<>> /\ asked[l] = 0  BY DEF ReplayInit
<1>2. EarlyBefore(l) = {}  BY <1>1 DEF EarlyBefore
<1> QED  BY <1>1, <1>2, FS_EmptySet

LEMMA FewEarlyNext ==
  ASSUME ReplayTypes, ReplayTypes', PhaseInv, LogsInv, FewEarly, ReplayNext
  PROVE  FewEarly'
<1> SUFFICES ASSUME kind' = "library", NEW k \in Logs
             PROVE  Cardinality(EarlyBefore(k)') <= asked'[k]
  BY DEF FewEarly
<1>0. kind = "library" /\ file' = file
  BY Static
<1>1. /\ Cardinality(EarlyBefore(k)) <= asked[k] /\ asked[k] \in Nat
      /\ IsFiniteSet(EarlyBefore(k)) /\ Cardinality(EarlyBefore(k)) \in Nat
  BY <1>0, EarlyFinite, LogTypes DEF FewEarly
<1>2. IsFiniteSet(EarlyBefore(k)') /\ Cardinality(EarlyBefore(k)') \in Nat
  <2>1. Len(out'[k]) \in Nat
    <3>1. out'[k] \in Seq(Datum)  BY DEF ReplayTypes
    <3> QED  BY <3>1
  <2>2. IsFiniteSet(1 .. Len(out'[k]))  BY <2>1, FS_Interval
  <2>3. EarlyBefore(k)' \subseteq 1 .. Len(out'[k])  BY DEF EarlyBefore
  <2>4. IsFiniteSet(EarlyBefore(k)')  BY <2>2, <2>3, FS_Subset
  <2> QED  BY <2>4, FS_CardinalityType
<1>3. ASSUME EarlyBefore(k)' \subseteq EarlyBefore(k), asked' = asked
      PROVE  Cardinality(EarlyBefore(k)') <= asked'[k]
  <2>1. Cardinality(EarlyBefore(k)') <= Cardinality(EarlyBefore(k))
    BY <1>1, <1>3, FS_Subset
  <2> QED  BY <1>1, <1>2, <1>3, <2>1
<1>4. ASSUME UNCHANGED <<out, asked>>, cur_time <= cur_time'
      PROVE  Cardinality(EarlyBefore(k)') <= asked'[k]
  <2> SUFFICES ASSUME NEW i \in EarlyBefore(k)' PROVE i \in EarlyBefore(k)
    BY <1>3, <1>4
  <2>1. i \in 1 .. Len(out[k]) /\ i < Len(out[k]) /\ i <= Len(file[k].stamps)
        /\ out[k][i].stamp >= cur_time'
    BY <1>0, <1>4 DEF EarlyBefore
  <2>2. out[k][i].stamp \in Nat /\ cur_time \in Nat /\ cur_time' \in Nat
    BY <2>1, StampsOf DEF ReplayTypes
  <2>3. out[k][i].stamp >= cur_time  BY <1>4, <2>1, <2>2
  <2> QED  BY <2>1, <2>3 DEF EarlyBefore
<1>5. CASE UNCHANGED <<out, asked, cur_time>>
  <2>1. cur_time <= cur_time'  BY <1>5 DEF ReplayTypes
  <2> QED  BY <1>4, <1>5, <2>1
<1>6. CASE openSSMlog
  <2>1. log_num + 1 \in Logs
    BY <1>6, LogNumbers DEF openSSMlog, ReplayTypes
  <2>2. file[log_num + 1].head \in Nat  BY <2>1, FileFacts DEF ReplayTypes
  <2>3. cur_time' = (IF cur_time = 0 THEN file[log_num + 1].head ELSE cur_time)
    BY <1>6 DEF openSSMlog
  <2>4. cur_time <= cur_time'
    <3>1. cur_time \in Nat  BY DEF ReplayTypes
    <3>2. CASE cur_time = 0  BY <2>2, <2>3, <3>2
    <3>3. CASE cur_time # 0  BY <2>3, <3>1, <3>3
    <3> QED  BY <3>2, <3>3
  <2>5. UNCHANGED <<out, asked>>  BY <1>6 DEF openSSMlog
  <2> QED  BY <1>4, <2>4, <2>5
<1>7. ASSUME NEW t \in Steps, proceedSSMlog_time(t)
      PROVE  Cardinality(EarlyBefore(k)') <= asked'[k]
  <2>1. cur_time' = cur_time + t /\ t \in Nat /\ cur_time \in Nat
    BY <1>7, SpeedsAssumption DEF proceedSSMlog_time, ReplayTypes
  <2>2. cur_time <= cur_time'  BY <2>1
  <2>3. UNCHANGED <<out, asked>>  BY <1>7 DEF proceedSSMlog_time, log
  <2> QED  BY <1>4, <2>2, <2>3
<1>8. ASSUME NEW l \in Logs, proceedSSMlog(l) \/ Proceed(l)
      PROVE  Cardinality(EarlyBefore(k)') <= asked'[k]
  <2>1. ReadAndWrite(l) /\ cur_time' = cur_time
    BY <1>8 DEF proceedSSMlog, Proceed, ReadAndWrite, clocks
  <2>2. /\ buf'[l] \in Int /\ time'[l] \in Nat /\ Written(l, buf'[l], time'[l])
        /\ status[l] = "read"
    BY <1>0, <2>1, ReadAndWriteFacts
  <2>3. CASE k # l
    <3>0. out \in [Logs -> Seq(Datum)]  BY DEF ReplayTypes
    <3>1. k \in Logs \ {l}  BY <2>3
    <3>2. \A m \in Logs \ {l} : out'[m] = out[m]  BY <2>2, <3>0, Appended
    <3>3. out'[k] = out[k]  BY <3>1, <3>2
    <3>4. asked'[k] = asked[k]
      BY <1>8, <2>3 DEF proceedSSMlog, Proceed, ReplayTypes
    <3>5. EarlyBefore(k)' = EarlyBefore(k)  BY <1>0, <2>1, <3>3 DEF EarlyBefore
    <3> QED  BY <1>1, <3>4, <3>5
  <2>4. CASE k = l
    <3>1. EarlyBefore(k)' \subseteq Early(k)  BY <1>0, <2>1, <2>2, <2>4, EarlyShrinks
    <3>2. CASE Proceed(l)
      <4>1. l <= log_num /\ time[l] < cur_time /\ asked' = asked
        BY <3>2 DEF Proceed, Behind
      <4>2. Early(k) \subseteq EarlyBefore(k)  BY <1>0, <2>2, <2>4, <4>1, NoneEarlyLast
      <4> QED  BY <1>3, <3>1, <4>1, <4>2
    <3>3. CASE proceedSSMlog(l)
      <4>1. asked'[k] = asked[k] + 1  BY <2>4, <3>3 DEF proceedSSMlog, ReplayTypes
      <4>2. /\ IsFiniteSet(Early(k)) /\ Cardinality(Early(k)) \in Nat
            /\ Cardinality(Early(k)) <= Cardinality(EarlyBefore(k)) + 1
        BY EarlyFinite
      <4>3. Cardinality(EarlyBefore(k)') <= Cardinality(Early(k))
        BY <3>1, <4>2, FS_Subset
      <4> QED  BY <1>1, <1>2, <4>1, <4>2, <4>3
    <3> QED  BY <1>8, <3>2, <3>3
  <2> QED  BY <2>3, <2>4
<1> QED
  BY <1>0, <1>5, <1>6, <1>7, <1>8
     DEF ReplayNext, Tick, Player, Open, OpenFails, SetTime, NextRound, Finish, AtEnd, Ended,
         Wait, WriteDue, NextTurn, Playing, Library, Return, Proceeded, PhaseInv, log, clocks

-----------------------------------------------------------------------------
(* What a round has found out.  A log that waits is later than everything  *)
(* that was written, because all of this was due.                          *)
LEMMA RoundInit == ReplayInit => RoundInv
BY DEF ReplayInit, RoundInv

\* The logs that the round was at before: a step of another log leaves it so.
LEMMA RoundNext ==
  ASSUME ReplayTypes, PhaseInv, LogsInv, NoneEarly, RoundInv, ReplayNext
  PROVE  RoundInv'
<1>0. /\ kind \in {"player", "library"} /\ turn \in Nat
      /\ \A k \in Logs : k \in Nat
      /\ pc \in {"play", "open", "settime", "quit", "done"} => kind = "player"
      /\ pc \in {"idle", "proceed"} => kind = "library"
  BY LogNumbers DEF ReplayTypes, PhaseInv
<1>1. CASE Tick \/ openSSMlog \/ Open \/ OpenFails \/ Finish \/ Return \/ SetTime \/ NextRound
           \/ \E t \in Steps : proceedSSMlog_time(t)
  <2>1. CASE Tick
    <3>1. kind = "player" /\ UNCHANGED <<pc, turn, log, working, log_num>>  BY <2>1 DEF Tick
    <3> QED  BY <1>0, <3>1 DEF RoundInv, LaterThanAll, log
  <2>2. CASE openSSMlog \/ Open \/ OpenFails \/ Finish \/ Return
    <3>1. pc' \notin {"play", "proceed"}
      BY <2>2 DEF openSSMlog, Open, OpenFails, Finish, Return
    <3> QED  BY <3>1 DEF RoundInv
  <2>3. CASE SetTime \/ NextRound \/ \E t \in Steps : proceedSSMlog_time(t)
    <3>1. turn' = 1
      BY <2>3 DEF SetTime, NextRound, proceedSSMlog_time, PhaseInv
    <3>2. \A l \in Logs : ~(l < turn')  BY <3>1, LogNumbers
    <3> QED  BY <3>2 DEF RoundInv
  <2> QED  BY <1>1, <2>1, <2>2, <2>3
<1>2. ASSUME NEW l \in Logs, AtEnd(l) \/ Ended(l) \/ Wait(l) PROVE RoundInv'
  <2>1. /\ pc = "play" /\ turn = l /\ turn' = l + 1 /\ pc' = "play" /\ out' = out
        /\ working' = working
    BY <1>2 DEF AtEnd, Ended, Wait, Playing, NextTurn, log
  <2>2. ASSUME ~working, NEW k \in Logs, k < turn
        PROVE  \/ status'[k] = "end"
               \/ status'[k] = "write" /\ LaterThanAll(time[k]) /\ time'[k] = time[k]
    <3>1. status[k] = "end" \/ (status[k] = "write" /\ LaterThanAll(time[k]))
      BY <2>1, <2>2 DEF RoundInv
    <3>2. k # l  BY <1>0, <2>1, <2>2
    <3>3. status'[k] = status[k]  BY <1>2, <3>2 DEF AtEnd, Ended, Wait, log, ReplayTypes
    <3>4. time'[k] = time[k]
      <4>1. CASE Ended(l)  BY <4>1 DEF Ended, log
      <4>2. CASE AtEnd(l)
        <5>1. status[l] = "read" /\ EndOfFile(l)  BY <4>2 DEF AtEnd
        <5> QED  BY <3>2, <5>1, EndFacts
      <4>3. CASE Wait(l)
        <5>1. Fetch(l)  BY <4>3 DEF Wait
        <5> QED  BY <3>2, <5>1, FetchFacts
      <4> QED  BY <1>2, <4>1, <4>2, <4>3
    <3> QED  BY <3>1, <3>3, <3>4
  <2>3. status'[l] = "end" \/ (status'[l] = "write" /\ LaterThanAll(time'[l]))
    <3>1. CASE Ended(l)  BY <3>1 DEF Ended, log
    <3>2. CASE AtEnd(l)  BY <3>2 DEF AtEnd, ReplayTypes
    <3>3. CASE Wait(l)
      <4>1. Fetch(l) /\ gettimeSSM < time'[l] /\ status'[l] = "write"
        BY <3>3 DEF Wait, ReplayTypes
      <4>2. time'[l] \in Nat  BY <4>1, FetchFacts
      <4>3. ASSUME NEW k \in Logs, NEW i \in 1 .. Len(out[k]) PROVE out[k][i].stamp < time'[l]
        <5>1. out[k][i].stamp <= gettimeSSM  BY <1>0, <2>1 DEF NoneEarly
        <5>2. out[k][i].stamp \in Nat /\ gettimeSSM \in Int  BY StampsOf, ClockType
        <5> QED  BY <4>1, <4>2, <5>1, <5>2
      <4> QED  BY <4>1, <4>3 DEF LaterThanAll
    <3> QED  BY <1>2, <3>1, <3>2, <3>3
  <2>4. ASSUME NEW k \in Logs, k < turn' PROVE k < turn \/ k = l
    BY <1>0, <2>1, <2>4
  <2>5. ASSUME ~working, NEW k \in Logs, k < turn'
        PROVE  status'[k] = "end" \/ (status'[k] = "write" /\ LaterThanAll(time[k])')
    <3>1. CASE k = l  BY <2>1, <2>3, <3>1 DEF LaterThanAll
    <3>2. CASE k < turn  BY <2>1, <2>2, <2>5, <3>2 DEF LaterThanAll
    <3> QED  BY <2>4, <2>5, <3>1, <3>2
  <2> QED  BY <2>1, <2>5 DEF RoundInv
<1>3. ASSUME NEW l \in Logs, WriteDue(l) PROVE RoundInv'
  <2>1. pc' = "play" /\ working'  BY <1>3 DEF WriteDue, Playing, NextTurn
  <2> QED  BY <2>1 DEF RoundInv
<1>4. ASSUME NEW l \in Logs, proceedSSMlog(l) PROVE RoundInv'
  BY <1>4 DEF proceedSSMlog, RoundInv
<1>5. ASSUME NEW l \in Logs, Proceed(l) PROVE RoundInv'
  <2>1. /\ pc = "proceed" /\ turn = l /\ turn' = turn /\ pc' = "proceed" /\ log_num' = log_num
        /\ ReadAndWrite(l) /\ cur_time' = cur_time /\ kind = "library"
    BY <1>0, <1>5 DEF Proceed, ReadAndWrite, clocks
  <2>2. \A k \in Logs \ {l} : time'[k] = time[k] /\ status'[k] = status[k]
    BY <2>1, ReadAndWriteFacts
  <2>3. ASSUME NEW k \in Logs, k <= log_num, k < turn PROVE ~Behind(k)'
    <3>1. k # l  BY <1>0, <2>1, <2>3
    <3>2. ~Behind(k)  BY <2>1, <2>3 DEF RoundInv
    <3> QED  BY <2>1, <2>2, <3>1, <3>2 DEF Behind
  <2> QED  BY <2>1, <2>3 DEF RoundInv
<1>6. ASSUME NEW l \in Logs, Proceeded(l) PROVE RoundInv'
  <2>1. /\ pc = "proceed" /\ turn = l /\ turn' = turn + 1 /\ pc' = "proceed" /\ log_num' = log_num
        /\ UNCHANGED <<time, status, cur_time>> /\ ~Behind(l)
    BY <1>6 DEF Proceeded, log, clocks
  <2>2. ASSUME NEW k \in Logs, k <= log_num, k < turn' PROVE ~Behind(k)'
    <3>1. k < turn \/ k = l  BY <1>0, <2>1, <2>2
    <3>2. ~Behind(k)  BY <2>1, <2>2, <3>1 DEF RoundInv
    <3> QED  BY <2>1, <3>2 DEF Behind
  <2> QED  BY <2>1, <2>2 DEF RoundInv
<1> QED
  BY <1>1, <1>2, <1>3, <1>4, <1>5, <1>6 DEF ReplayNext, Player, Library

-----------------------------------------------------------------------------
(* For every number of logs, every log, cut or not, in order or not, any   *)
(* speed of the clock, and any steps of the application.                   *)
THEOREM ReplayInvariance == ReplaySpec => []ReplayInv
<1>1. ReplayInit => ReplayInv
  BY ReplayTypesInit, PhaseInit, LogsInit, NoneEarlyInit, FewEarlyInit, RoundInit DEF ReplayInv
<1>2. ReplayInv /\ [ReplayNext]_replayVars => ReplayInv'
  <2> SUFFICES ASSUME ReplayInv, [ReplayNext]_replayVars PROVE ReplayInv'  OBVIOUS
  <2>1. CASE ReplayNext
    <3>1. ReplayTypes /\ PhaseInv /\ LogsInv /\ NoneEarly /\ FewEarly /\ RoundInv
      BY DEF ReplayInv
    <3>2. ReplayTypes'  BY <2>1, <3>1, ReplayTypesNext
    <3>3. PhaseInv' /\ LogsInv'  BY <2>1, <3>1, PhaseNext, LogsNext
    <3>4. NoneEarly' /\ FewEarly' /\ RoundInv'
      BY <2>1, <3>1, <3>2, NoneEarlyNext, FewEarlyNext, RoundNext
    <3> QED  BY <3>2, <3>3, <3>4 DEF ReplayInv
  <2>2. CASE UNCHANGED replayVars
    <3>1. UNCHANGED <<file, kind, pc, turn, g_speed, log_num, status, read, time, buf, out,
                      working, cur_time, real, common, asked>>
      BY <2>2 DEF replayVars, log, clocks
    <3>2. ReplayTypes' /\ PhaseInv'  BY <3>1 DEF ReplayInv, ReplayTypes, PhaseInv
    <3>3. LogsInv'  BY <3>1 DEF ReplayInv, LogsInv, Prefix, Progress, TimeRead
    <3>4. NoneEarly' /\ FewEarly'
      BY <3>1 DEF ReplayInv, NoneEarly, gettimeSSM, FewEarly, EarlyBefore
    <3>5. RoundInv'  BY <3>1 DEF ReplayInv, RoundInv, LaterThanAll, Behind
    <3> QED  BY <3>2, <3>3, <3>4, <3>5 DEF ReplayInv
  <2> QED  BY <2>1, <2>2
<1> QED  BY <1>1, <1>2, PTL DEF ReplaySpec

(* A stream gets the records of its log, each once, in order and with its  *)
(* stamp, none of them early but those the library may write so, and one   *)
(* more at the end from the library.                                       *)
THEOREM ReplayedHolds == ReplaySpec => []Replayed
<1>1. ReplayInv => Replayed
  <2> SUFFICES ASSUME ReplayInv, NEW l \in Logs
               PROVE  LET whole == {n \in DOMAIN out[l] : n <= Len(file[l].stamps)}
                      IN  /\ \A n \in whole :
                               out[l][n] = [record |-> n, stamp |-> file[l].stamps[n]]
                          /\ Len(out[l]) <= Len(file[l].stamps)
                                            + (IF kind = "player" THEN 0 ELSE 1)
                          /\ Cardinality({n \in whole : out[l][n].stamp > Now})
                               <= (IF kind = "player" THEN 0 ELSE 1 + asked[l])
    BY DEF Replayed
  <2> DEFINE whole == {n \in DOMAIN out[l] : n <= Len(file[l].stamps)}
             early == {n \in whole : out[l][n].stamp > Now}
  <2>1. /\ ReplayTypes /\ LogsInv /\ NoneEarly /\ FewEarly /\ kind \in {"player", "library"}
    BY DEF ReplayInv, ReplayTypes
  <2>2. /\ Len(out[l]) \in Nat /\ Len(file[l].stamps) \in Nat /\ asked[l] \in Nat
        /\ read[l] \in Nat /\ status[l] \in {"read", "write", "end"}
    BY <2>1, LogTypes
  <2>3. DOMAIN out[l] = 1 .. Len(out[l])
    <3>1. out[l] \in Seq(Datum)  BY <2>1 DEF ReplayTypes
    <3> QED  BY <3>1
  <2>4. \A n \in whole : out[l][n] = [record |-> n, stamp |-> file[l].stamps[n]]
    BY <2>1, <2>3 DEF LogsInv, Prefix
  <2>5. Len(out[l]) <= Len(file[l].stamps) + (IF kind = "player" THEN 0 ELSE 1)
    <3>1. Progress(l)  BY <2>1 DEF LogsInv
    <3>2. CASE status[l] = "end"
      <4>1. Len(out[l]) = Len(file[l].stamps) + (IF kind = "player" THEN 0 ELSE 1)
        BY <3>1, <3>2 DEF Progress
      <4>2. CASE kind = "player"  BY <2>2, <4>1, <4>2
      <4>3. CASE kind # "player"  BY <2>2, <4>1, <4>3
      <4> QED  BY <4>2, <4>3
    <3>3. CASE status[l] # "end"
      <4>1. Len(out[l]) <= read[l] /\ read[l] <= Len(file[l].stamps)
        BY <2>2, <3>1, <3>3 DEF Progress
      <4>2. Len(out[l]) <= Len(file[l].stamps)  BY <2>2, <4>1
      <4>3. CASE kind = "player"  BY <2>2, <4>2, <4>3
      <4>4. CASE kind # "player"  BY <2>2, <4>2, <4>4
      <4> QED  BY <4>3, <4>4
    <3> QED  BY <3>2, <3>3
  <2>6. Cardinality(early) <= (IF kind = "player" THEN 0 ELSE 1 + asked[l])
    <3>1. CASE kind = "player"
      <4>1. ASSUME NEW n \in early PROVE FALSE
        <5>1. n \in 1 .. Len(out[l]) /\ out[l][n].stamp > gettimeSSM
          BY <2>3, <3>1, <4>1 DEF Now
        <5>2. out[l][n].stamp <= gettimeSSM  BY <2>1, <3>1, <5>1 DEF NoneEarly
        <5>3. out[l][n].stamp \in Nat /\ gettimeSSM \in Int  BY <2>1, <5>1, StampsOf, ClockType
        <5> QED  BY <5>1, <5>2, <5>3
      <4>2. early = {}  BY <4>1
      <4>3. Cardinality(early) = 0  BY <4>2, FS_EmptySet
      <4> HIDE DEF early
      <4> QED  BY <3>1, <4>3
    <3>2. CASE kind = "library"
      <4>1. ASSUME NEW n \in early PROVE n \in Early(l)
        <5>1. /\ n \in 1 .. Len(out[l]) /\ n <= Len(file[l].stamps)
              /\ out[l][n].stamp > cur_time - 1
          BY <2>3, <3>2, <4>1 DEF Now
        <5>2. out[l][n].stamp \in Nat /\ cur_time \in Nat
          BY <2>1, <5>1, StampsOf DEF ReplayTypes
        <5>3. out[l][n].stamp >= cur_time  BY <5>1, <5>2
        <5> QED  BY <5>1, <5>3 DEF Early
      <4>2. early \subseteq Early(l)  BY <4>1
      <4> HIDE DEF early
      <4>3. /\ IsFiniteSet(Early(l)) /\ Cardinality(Early(l)) \in Nat
            /\ Cardinality(EarlyBefore(l)) \in Nat
            /\ Cardinality(Early(l)) <= Cardinality(EarlyBefore(l)) + 1
        BY <2>1, EarlyFinite
      <4>4. Cardinality(early) <= Cardinality(Early(l)) /\ IsFiniteSet(early)
        BY <4>2, <4>3, FS_Subset
      <4>5. Cardinality(EarlyBefore(l)) <= asked[l]  BY <2>1, <3>2 DEF FewEarly
      <4>6. Cardinality(early) \in Nat  BY <4>4, FS_CardinalityType
      <4>7. Cardinality(early) <= 1 + asked[l]  BY <2>2, <4>3, <4>4, <4>5, <4>6
      <4> QED  BY <3>2, <4>7
    <3> QED  BY <2>1, <3>1, <3>2
  <2> QED  BY <2>4, <2>5, <2>6
<1> QED  BY <1>1, ReplayInvariance, PTL

(* Streams are next to each other in time, whenever a round had nothing to *)
(* write or a call of proceedSSMlog_time is over.                          *)
THEOREM SynchronousHolds == ReplaySpec => []Synchronous
<1>1. ReplayInv => Synchronous
  <2> SUFFICES ASSUME ReplayInv, RoundOver, pc = "proceed" \/ (pc = "play" /\ ~working),
                      NEW k \in 1 .. log_num, NEW l \in 1 .. log_num, NEW n \in DOMAIN out[k],
                      out[k][n].stamp <= Now, InOrder(l), Len(out[l]) < Len(file[l].stamps)
               PROVE  file[l].stamps[Len(out[l]) + 1] > out[k][n].stamp
    BY DEF Synchronous
  <2>1. ReplayTypes /\ PhaseInv /\ LogsInv /\ RoundInv  BY DEF ReplayInv
  <2>2. /\ k \in Logs /\ l \in Logs /\ l <= log_num /\ l < turn
    <3>1. log_num \in 0 .. g_log_num /\ turn \in Nat /\ turn > log_num
      BY <2>1 DEF ReplayTypes, RoundOver
    <3> QED  BY <3>1, LogNumbers
  <2>3. n \in 1 .. Len(out[k]) /\ out[k][n].stamp \in Nat
    <3>1. out[k] \in Seq(Datum)  BY <2>1, <2>2 DEF ReplayTypes
    <3>2. n \in 1 .. Len(out[k])  BY <3>1
    <3> QED  BY <2>1, <2>2, <3>2, StampsOf
  <2>4. /\ Len(out[l]) \in Nat /\ Len(file[l].stamps) \in Nat /\ read[l] \in Nat
        /\ time[l] \in Nat /\ status[l] \in {"read", "write", "end"}
    BY <2>1, <2>2, LogTypes
  <2>5. status[l] # "end"
    <3>1. Progress(l)  BY <2>1, <2>2 DEF LogsInv
    <3>2. ASSUME status[l] = "end" PROVE FALSE
      <4>1. Len(out[l]) = Len(file[l].stamps) + (IF kind = "player" THEN 0 ELSE 1)
        BY <3>1, <3>2 DEF Progress
      <4>2. CASE kind = "player"  BY <2>4, <4>1, <4>2
      <4>3. CASE kind # "player"  BY <2>4, <4>1, <4>3
      <4> QED  BY <4>2, <4>3
    <3> QED  BY <3>2
  <2>6. CASE pc = "play" /\ ~working
    <3>1. status[l] = "write" /\ LaterThanAll(time[l])  BY <2>1, <2>2, <2>5, <2>6 DEF RoundInv
    <3>2. time[l] = file[l].stamps[Len(out[l]) + 1]
      BY <2>1, <2>2, <3>1 DEF LogsInv, Progress
    <3>3. out[k][n].stamp < time[l]  BY <2>2, <2>3, <3>1 DEF LaterThanAll
    <3> QED  BY <2>3, <2>4, <3>2, <3>3
  <2>7. CASE pc = "proceed"
    <3>1. kind = "library" /\ ~Behind(l) /\ cur_time \in Nat
      BY <2>1, <2>2, <2>7 DEF RoundInv, PhaseInv, ReplayTypes
    <3>2. status[l] = "read" /\ read[l] = Len(out[l])
      BY <2>1, <2>2, <2>4, <2>5, <3>1 DEF LogsInv, Progress
    <3>3. cur_time <= time[l]  BY <2>4, <2>5, <3>1 DEF Behind
    <3>4. out[k][n].stamp < cur_time  BY <2>3, <3>1 DEF Now
    <3>5. time[l] = IF read[l] = 0 THEN file[l].head ELSE file[l].stamps[read[l]]
      BY <2>1, <2>2, <3>1, <3>2 DEF LogsInv, TimeRead
    <3> DEFINE next == Len(out[l]) + 1
    <3>6. /\ next \in 1 .. Len(file[l].stamps) /\ DOMAIN file[l].stamps = 1 .. Len(file[l].stamps)
          /\ file[l].stamps[next] \in Nat
      <4>1. /\ file[l].stamps \in Seq(Nat)
            /\ \A i \in 1 .. Len(file[l].stamps) : file[l].stamps[i] \in Nat
        BY <2>1, <2>2, FileFacts DEF ReplayTypes
      <4>2. next \in 1 .. Len(file[l].stamps)  BY <2>4
      <4>3. DOMAIN file[l].stamps = 1 .. Len(file[l].stamps)  BY <4>1
      <4> HIDE DEF next
      <4> QED  BY <4>1, <4>2, <4>3
    <3>7. time[l] <= file[l].stamps[next]
      <4>1. /\ file[l].head <= file[l].stamps[next]
            /\ \A m \in 1 .. next : file[l].stamps[m] <= file[l].stamps[next]
        BY <3>6 DEF InOrder
      <4>2. CASE read[l] = 0  BY <3>5, <4>1, <4>2
      <4>3. CASE read[l] # 0
        <5>1. read[l] \in 1 .. next  BY <2>4, <3>2, <4>3
        <5> QED  BY <3>5, <4>1, <4>3, <5>1
      <4> QED  BY <4>2, <4>3
    <3> DEFINE after == file[l].stamps[next]  before == out[k][n].stamp  t == time[l]
    <3>8. after \in Nat /\ before \in Nat /\ t \in Nat /\ cur_time \in Nat
      BY <2>3, <2>4, <3>1, <3>6
    <3>9. before < cur_time /\ cur_time <= t /\ t <= after  BY <3>3, <3>4, <3>7
    <3> HIDE DEF after, before, t
    <3>10. after > before  BY <3>8, <3>9
    <3> QED  BY <3>10 DEF after, before
  <2> QED  BY <2>6, <2>7
<1> QED  BY <1>1, ReplayInvariance, PTL
=============================================================================
