------------------------------- MODULE SSMTime -------------------------------
(***************************************************************************)
(* Reading a stream by time: the TID table of a sensor, kept by            *)
(* setTID_time inside writeSSM and searched by getTID_time inside          *)
(* readSSM_time (libSSM.c), while both run at the same time.               *)
(*                                                                         *)
(* A time is a number of ticks.  The table has one entry per `cycle`, as   *)
(* many as the ring has slots, and is used modulo its size.  The copy of   *)
(* the datum is one step here: module SSMStream is about torn copies.      *)
(* `hist`, `overlap` and `cleared` are kept for the properties only.       *)
(***************************************************************************)
EXTENDS Integers, FiniteSetsExt

CONSTANTS
  Readers,  \* the threads that call readSSM_time
  Num,      \* ssm_header.num and table_size (alloc_ssm_block makes them equal)
  Cycle,    \* ssm_header.cycle, in ticks
  Gaps,     \* the possible intervals between the stamps of two successive data
  MaxTid,   \* bound: the last tid written
  Queries   \* the ytime arguments of readSSM_time; 0 asks for the latest

ASSUME NumAssumption == Num \in Nat \ {0, 1}
ASSUME CycleAssumption == Cycle \in Nat \ {0}
ASSUME GapsAssumption == Gaps \subseteq Nat \ {0}
ASSUME BoundsAssumption == MaxTid \in Nat /\ Queries \subseteq Int

SSM_MARGIN == 1
NoTid      == -1
\* Search positions at or below -Num all end the same way; -1000000, which
\* createSSM puts into entry 0, is one of them.
Floor      == -Num

VARIABLES
  tid_top,  \* the newest published tid
  times,    \* times[s]: the stamp in slot s, 0 from the zero fill
  table,    \* table[p]: the TID table
  hist,     \* hist[t]: the stamp given to tid t, 0 before it is written
  cleared,  \* createSSM cleared the table and no write was completed since
  wpc,      \* where the writer is in writeSSM
  wpos,     \* table_pos in setTID_time
  wfill,    \* the loop counter of setTID_time
  rpc,      \* rpc[r]: where reader r is in readSSM_time, or how it ended
  ytime,    \* ytime[r]: the time asked for
  rtid,     \* rtid[r]: the tid found so far
  ret_time, \* ret_time[r]: the time given back
  overlap   \* overlap[r]: the closest a write came to the call of r (Overlaps)

shared == <<tid_top, times, table, hist, cleared>>
writer == <<wpc, wpos, wfill>>
reader == <<rpc, ytime, rtid, ret_time, overlap>>
vars   == <<shared, writer, reader>>

InCall(r) == rpc[r] \in {"newest", "table", "search", "found", "region", "copy"}

Slot(t)   == t % Num
Bucket(y) == (y \div Cycle) % Num
\* No write overlaps a call, or writes do, one of them into the same bucket.
Overlaps  == {"none", "other", "bucket"}
Overlap(stamp, y) == IF Bucket(stamp) = Bucket(y) THEN "bucket" ELSE "other"
\* ((int*)table)[i] = 0 for every i, then entry 0.
ClearedTable == [p \in 0 .. Num - 1 |-> IF p = 0 THEN Floor ELSE 0]

\* alloc_ssm_block, then createSSM.
Init ==
  /\ tid_top = NoTid
  /\ times = [s \in 0 .. Num - 1 |-> 0]
  /\ table = ClearedTable
  /\ hist = [t \in 0 .. MaxTid |-> 0]
  /\ cleared = TRUE
  /\ wpc = "idle" /\ wpos = 0 /\ wfill = 0
  /\ rpc = [r \in Readers |-> "none"]
  /\ ytime = [r \in Readers |-> 0]
  /\ rtid = [r \in Readers |-> 0]
  /\ ret_time = [r \in Readers |-> 0]
  /\ overlap = [r \in Readers |-> "none"]

-----------------------------------------------------------------------------
(* writeSSM                                                                *)

LastStamp == IF tid_top = NoTid THEN 0 ELSE hist[tid_top]

\* setTID_time: the entry of the stamp's own bucket.
Register(gap) ==
  /\ wpc = "idle"
  /\ tid_top < MaxTid
  /\ LET stamp == LastStamp + gap
     IN /\ hist' = [hist EXCEPT ![tid_top + 1] = stamp]
        /\ table' = [table EXCEPT ![Bucket(stamp)] = tid_top + 1]
        /\ wpos' = Bucket(stamp)
        /\ overlap' = [r \in Readers |->
                          IF InCall(r) /\ overlap[r] # "bucket"
                            THEN Overlap(stamp, ytime[r]) ELSE overlap[r]]
  /\ wfill' = 0
  /\ wpc' = "fill"
  /\ UNCHANGED <<tid_top, times, cleared, rpc, ytime, rtid, ret_time>>

\* setTID_time: backwards over the buckets since the previous datum.
FillBack ==
  LET p == IF wpos = 0 THEN Num - 1 ELSE wpos - 1
  IN /\ wpc = "fill"
     /\ wfill < Num
     /\ table[p] <= tid_top - 1
     /\ table' = [table EXCEPT ![p] = tid_top]
     /\ wpos' = p
     /\ wfill' = wfill + 1
     /\ UNCHANGED <<tid_top, times, hist, cleared, wpc, reader>>

\* Mutant: the loop may end before the buckets in between are filled.
EndFill_short ==
  /\ wpc = "fill"
  /\ wpc' = "store"
  /\ wpos' = 0 /\ wfill' = 0
  /\ UNCHANGED <<shared, reader>>

EndFill ==
  LET p == IF wpos = 0 THEN Num - 1 ELSE wpos - 1
  IN /\ wpc = "fill"
     /\ wfill = Num \/ table[p] > tid_top - 1
     /\ wpc' = "store"
     /\ wpos' = 0 /\ wfill' = 0
     /\ UNCHANGED <<shared, reader>>

\* The memcpy of the datum and the store of its stamp.
Store ==
  /\ wpc = "store"
  /\ times' = [times EXCEPT ![Slot(tid_top + 1)] = hist[tid_top + 1]]
  /\ wpc' = "publish"
  /\ UNCHANGED <<tid_top, table, hist, cleared, wpos, wfill, reader>>

Publish ==
  /\ wpc = "publish"
  /\ tid_top' = tid_top + 1
  /\ cleared' = FALSE
  /\ wpc' = "idle"
  /\ UNCHANGED <<times, table, hist, wpos, wfill, reader>>

\* The driver is started again, wherever its predecessor was: createSSM finds
\* the sensor in the server's list and clears the table of the live ring.
Recreate ==
  /\ table' = ClearedTable
  /\ cleared' = TRUE
  /\ wpc' = "idle" /\ wpos' = 0 /\ wfill' = 0
  /\ UNCHANGED <<tid_top, times, hist, reader>>

-----------------------------------------------------------------------------
(* readSSM_time                                                            *)

Goto(r, pc) == rpc' = [rpc EXCEPT ![r] = pc]

\* A negative return value; the caller's buffers are left alone.
Fail(r) == Goto(r, "failed") /\ rtid' = [rtid EXCEPT ![r] = 0]

\* ytime <= 0 asks for the newest datum.
Call(r, y) ==
  /\ ~InCall(r)
  /\ ytime' = [ytime EXCEPT ![r] = y]
  /\ overlap' = [overlap EXCEPT
                    ![r] = IF wpc = "idle" THEN "none" ELSE Overlap(hist[tid_top + 1], y)]
  /\ IF y <= 0
       THEN Goto(r, "region") /\ rtid' = [rtid EXCEPT ![r] = tid_top]
       ELSE Goto(r, "newest") /\ UNCHANGED rtid
  /\ UNCHANGED <<shared, writer, ret_time>>

\* getTID_time: nothing is newer than the newest datum.  Before the first
\* datum the index is -1, in the zero fill of the data area.
NewestStamp == IF tid_top = NoTid THEN 0 ELSE times[Slot(tid_top)]

\* Mutant: a datum of just the time asked for counts as older.
CheckNewest_equal(r) ==
  /\ rpc[r] = "newest"
  /\ IF ytime[r] >= NewestStamp THEN Fail(r) ELSE Goto(r, "table") /\ UNCHANGED rtid
  /\ UNCHANGED <<shared, writer, ytime, ret_time, overlap>>

CheckNewest(r) ==
  /\ rpc[r] = "newest"
  /\ IF ytime[r] > NewestStamp THEN Fail(r) ELSE Goto(r, "table") /\ UNCHANGED rtid
  /\ UNCHANGED <<shared, writer, ytime, ret_time, overlap>>

LoadEntry(r) ==
  /\ rpc[r] = "table"
  /\ rtid' = [rtid EXCEPT ![r] = table[Bucket(ytime[r])]]
  /\ Goto(r, "search")
  /\ UNCHANGED <<shared, writer, ytime, ret_time, overlap>>

\* Mutant: the search goes on at a datum of just the time asked for.
StepBack_equal(r) ==
  /\ rpc[r] = "search"
  /\ rtid[r] >= 0 => times[Slot(rtid[r])] >= ytime[r]
  /\ rtid' = [rtid EXCEPT ![r] = IF @ = Floor THEN @ ELSE @ - 1]
  /\ UNCHANGED <<shared, writer, rpc, ytime, ret_time, overlap>>

\* while(time[tid%num] > ytime) tid--;  A negative tid indexes the data area
\* in front of the times: whatever is found there may be above ytime or not.
StepBack(r) ==
  /\ rpc[r] = "search"
  /\ rtid[r] >= 0 => times[Slot(rtid[r])] > ytime[r]
  /\ rtid' = [rtid EXCEPT ![r] = IF @ = Floor THEN @ ELSE @ - 1]
  /\ UNCHANGED <<shared, writer, rpc, ytime, ret_time, overlap>>

StopSearch(r) ==
  /\ rpc[r] = "search"
  /\ rtid[r] >= 0 => times[Slot(rtid[r])] <= ytime[r]
  /\ Goto(r, "found")
  /\ UNCHANGED <<shared, writer, ytime, rtid, ret_time, overlap>>

\* The tid check of getTID_time, and what readSSM_time makes of its result: a
\* negative tid is returned as -1, tid 0 and a tid out of the ring as -5.
CheckFound(r) ==
  /\ rpc[r] = "found"
  /\ IF rtid[r] <= tid_top - Num \/ rtid[r] <= 0
       THEN Fail(r)
       ELSE Goto(r, "region") /\ UNCHANGED rtid
  /\ UNCHANGED <<shared, writer, ytime, ret_time, overlap>>

\* SSM_TID_SP <= tid_top-num+MARGIN < tid <= tid_top, else -2, -3 or -4.
InRegion(t) == t <= tid_top /\ t > tid_top - Num + SSM_MARGIN /\ t >= 0

CheckRegion(r) ==
  /\ rpc[r] = "region"
  /\ IF InRegion(rtid[r]) THEN Goto(r, "copy") /\ UNCHANGED rtid ELSE Fail(r)
  /\ UNCHANGED <<shared, writer, ytime, ret_time, overlap>>

\* The stamp is given back only for a positive ytime: else ytime itself is.
Copy(r) ==
  /\ rpc[r] = "copy"
  /\ ret_time' = [ret_time EXCEPT
                    ![r] = IF ytime[r] > 0 THEN times[Slot(rtid[r])] ELSE ytime[r]]
  /\ Goto(r, "got")
  /\ UNCHANGED <<shared, writer, ytime, rtid, overlap>>

-----------------------------------------------------------------------------
Write ==
  \/ \E gap \in Gaps : Register(gap)
  \/ FillBack
  \/ EndFill
  \/ Store
  \/ Publish

Read(r) ==
  \/ CheckNewest(r)
  \/ LoadEntry(r)
  \/ StepBack(r)
  \/ StopSearch(r)
  \/ CheckFound(r)
  \/ CheckRegion(r)
  \/ Copy(r)

Next ==
  \/ Write
  \/ Recreate
  \/ \E r \in Readers, y \in Queries : Call(r, y)
  \/ \E r \in Readers : Read(r)

Spec == Init /\ [][Next]_vars
-----------------------------------------------------------------------------
Published == 0 .. tid_top
NotAfter(y) == {t \in Published : hist[t] <= y}
\* The datum asked for: the nearest one that is not newer than y.
Nearest(y) == Max(NotAfter(y))

\* The writer paused at y for longer than the table is. setTID_time then comes to an
\* entry of before the pause too early, and entries in between keep older tids.
InPause(y) ==
  \E t \in Published : /\ t + 1 \in Published /\ hist[t] < y /\ y < hist[t + 1]
                      /\ hist[t + 1] \div Cycle - hist[t] \div Cycle > Num

\* No entry lags behind: outside a write, every search for a time that is not
\* in the future, nor in a long pause, starts at the nearest datum or at a newer
\* one, of which it can only step back.  (Tid 0 is left out: it is never found by
\* time.)
TableCovers ==
  wpc = "idle" /\ ~cleared =>
    \A y \in 1 .. hist[tid_top] :
      NotAfter(y) # {} /\ Nearest(y) > 0 /\ ~InPause(y)
        => table[Bucket(y)] \in Nearest(y) .. tid_top

\* A read by time gives the nearest datum that is not newer than the time asked for
\* (what the example SensorAB_sync.c says of the call) when no write with a stamp in
\* the bucket of the time asked for overlaps the call and that time is not in a long
\* pause, and gives the stamp of that datum back with it as long as the datum is readable.
NearestOlderUnlessAliased ==
  \A r \in Readers :
    rpc[r] = "got" /\ ytime[r] > 0 /\ overlap[r] # "bucket" /\ ~InPause(ytime[r]) =>
      /\ NotAfter(ytime[r]) # {}
      /\ rtid[r] = Nearest(ytime[r])
      /\ InRegion(rtid[r]) => ret_time[r] = hist[rtid[r]]

\* A call that no write overlaps fails only when the nearest datum is in the
\* future, does not exist, is tid 0 or is no longer readable, or when the table
\* was cleared under the stream or the time asked for is in a long pause.
QuietCallFinds ==
  [][\A r \in Readers :
       /\ InCall(r)
       /\ rpc'[r] = "failed"
       /\ ytime[r] > 0
       /\ overlap[r] = "none"
       /\ ~cleared
       => \/ ytime[r] > hist[tid_top]
          \/ NotAfter(ytime[r]) = {}
          \/ Nearest(ytime[r]) = 0 \/ InPause(ytime[r])
          \/ ~InRegion(Nearest(ytime[r]))]_vars
=============================================================================
