------------------------------ MODULE SSMPoller ------------------------------
(***************************************************************************)
(* The programs that follow a stream: they remember the tid they want next *)
(* and poll readSSM until it returns it.  Two loops are in use:            *)
(*   "logger"  ssmlogger.c, example SensorA_continual_read.c: a return     *)
(*             value <= 0 means "not there yet";                           *)
(*   "bridge"  ssmodm2ros.cpp: a return value <= -1 does.                  *)
(* Readers do not disturb each other, so there is one, of either kind.     *)
(* readSSM is one step here, as SSMHistory promises it: the ring itself is *)
(* module SSMStream.  Module SSMTransport says who writes the stream.      *)
(***************************************************************************)
EXTENDS Integers, Sequences

CONSTANT Num     \* ssm_header.num

ASSUME NumAssumption == Num \in Nat \ {0, 1, 2}

SSM_MARGIN == 1
None       == -1   \* what readSSM returns when it refuses

VARIABLES
  tid_top,  \* the newest published tid
  kind,     \* which loop the reader runs; never changes
  polling,  \* it is in its loop
  tid,      \* the tid to read next
  first,    \* what the readSSM(-1) at the start returned
  got       \* the tids the reader passed on, in order

followerVars == <<tid_top, kind, polling, tid, first, got>>

InRegion(top, t) == t <= top /\ t > top - Num + SSM_MARGIN /\ t >= 0

\* The return value of readSSM(t) on a ring whose newest tid is top.
readSSM(top, t) == LET asked == IF t < 0 THEN top ELSE t
                   IN  IF InRegion(top, asked) THEN asked ELSE None

FollowerInit ==
  /\ tid_top = None            \* the reader may be started before the first datum
  /\ kind \in {"logger", "bridge"}
  /\ polling = FALSE
  /\ tid = None
  /\ first = None
  /\ got = << >>

\* writeSSM in the program that writes the stream.
Publish ==
  /\ tid_top' = tid_top + 1
  /\ UNCHANGED <<kind, polling, tid, first, got>>

\* tid = readSSM(-1)
Start ==
  /\ ~polling
  /\ first' = readSSM(tid_top, -1)
  /\ tid' = first'
  /\ polling' = TRUE
  /\ UNCHANGED <<tid_top, kind, got>>

-----------------------------------------------------------------------------
\* Return values up to this one mean "not there yet".
Threshold == IF kind = "logger" THEN 0 ELSE -1

\* Mutant: the newest datum is left for the next time.
Poll_behind ==
  /\ polling
  /\ readSSM(tid_top, tid) > Threshold /\ tid < tid_top
  /\ got' = Append(got, readSSM(tid_top, tid))
  /\ tid' = tid + 1
  /\ UNCHANGED <<tid_top, kind, polling, first>>

\* while(readSSM(tid) <= Threshold) usleep();  ...  tid++;
Poll ==
  /\ polling
  /\ readSSM(tid_top, tid) > Threshold
  /\ got' = Append(got, readSSM(tid_top, tid))
  /\ tid' = tid + 1
  /\ UNCHANGED <<tid_top, kind, polling, first>>

-----------------------------------------------------------------------------
\* The first datum can be read by the loop (a logger takes tid 0 for an error).
StartedWell == first > Threshold

\* A logger or a bridge that was started on a stream passes on every datum from
\* there on: none twice, none left out, none out of order.
Consecutive ==
  StartedWell => got = [i \in 1 .. tid - first |-> first + i - 1]

\* The reader was started on a datum and no lap has overtaken it: it has no skip.
NeverLapped == [](polling => StartedWell /\ tid > tid_top - Num + SSM_MARGIN)

\* Then it has passed on everything whenever the writer pauses.
CaughtUp == []<>(polling /\ tid > tid_top)

=============================================================================
