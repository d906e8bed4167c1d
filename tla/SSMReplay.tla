------------------------------ MODULE SSMReplay ------------------------------
(***************************************************************************)
(* Recorded streams are played back: ssmlogger leaves a file per stream,   *)
(* and one of two programs writes the data of several files to streams     *)
(* again, so that other processes find them as they were, next to each     *)
(* other in time:                                                          *)
(*   "player"   ssmmultiplayer.c sets the clock of the SSM to the time of  *)
(*              the first log and goes round its logs: a datum is written  *)
(*              when that clock has reached its stamp;                     *)
(*   "library"  libSSMlog.c for an application that has a clock of its     *)
(*              own, cur_time, and proceeds in steps.                      *)
(* The streams themselves (writeSSM) are modules SSMStream and SSMTime;    *)
(* how the logger follows a stream is module SSMPoller.                    *)
(***************************************************************************)
EXTENDS Integers, Sequences, FiniteSets

CONSTANTS
  g_log_num,   \* the number of logs, in the order of the arguments
  Stamps,      \* the stamps of data
  MaxRecords,  \* bound: whole records of a log
  Speeds,      \* that the clock may be set to
  Steps,       \* by which the application proceeds
  Start, End,  \* bounds: the real time of the beginning, and of the end
  MaxProceed   \* bound: data of a log that the application asks for one by one

Logs == 1 .. g_log_num
ASSUME LogsAssumption == g_log_num \in Nat \ {0} /\ MaxRecords \in Nat
\* Logs are of the past, and times are after 1970.
ASSUME StampsAssumption == Start \in Nat /\ Stamps \subseteq 1 .. Start
ASSUME SpeedsAssumption == Speeds \subseteq Nat \ {0} /\ Steps \subseteq Nat

Torn == -1   \* in a buffer: bytes of two data

VARIABLES
  file,      \* file[l]: what the logger left
  kind,      \* which program plays; never changes
  pc, turn,  \* where it is, and sensors[turn] of a loop
  g_speed,
  log_num,   \* the logs that are open: 1 .. log_num
  status,    \* sensors[l].status
  read,      \* the records read from log l
  time, buf, \* sensors[l].time, and of which record sensors[l].buf is
  out,       \* out[l]: what was written to the stream of l
  working,   \* was anything written in this round?
  cur_time,  \* the clock of the library
  real,      \* gettimeofday
  common,    \* ssmtime_settime, ssmtime_offset, ssmtime_speed in shared memory
  asked      \* asked[l]: data of l that the application asked for one by one

log        == <<status, read, time, buf, out>>
clocks     == <<cur_time, real, common>>
replayVars == <<file, kind, pc, turn, g_speed, log_num, log, working, clocks, asked>>
-----------------------------------------------------------------------------
(* The files, and the clock of the SSM.                                    *)

\* A logger that is stopped may leave a part of a record: the handler of its signal
\* closes the file between two fwrite()s, or what they left in memory is lost.
emergency == {"whole", "stamp cut", "data cut"}
\* The header of a log has the stamp of the datum that was the newest when the logger
\* was started, and this is the first record. There is none if that was tid 0 (the
\* logger takes it for an error), and at most one, and any stamp in the header, if
\* the stream was empty.
LogFiles ==
  LET records == UNION {[1 .. n -> Stamps] : n \in 0 .. MaxRecords}
  IN  {f \in [head : Stamps \cup {0}, stamps : records, end : emergency] :
         Len(f.stamps) > 1 => f.head = f.stamps[1]}

gettimeSSM == (real - common.settime) * common.speed + common.offset
settimeSSM(offset_time, speed) ==
  common' = [settime |-> real,
             offset  |-> IF offset_time > 0 THEN offset_time ELSE real,
             speed   |-> IF speed > 0 THEN speed ELSE 1]
Tick ==
  /\ kind = "player" /\ real < End /\ real' = real + 1
  /\ UNCHANGED <<file, kind, pc, turn, g_speed, log_num, log, working, cur_time, common, asked>>

arg_analysis == g_speed \in Speeds

ReplayInit ==
  /\ file \in [Logs -> LogFiles] /\ kind \in {"player", "library"}
  /\ pc = (IF kind = "player" THEN "open" ELSE "idle") /\ turn = 1
  /\ IF kind = "player" THEN arg_analysis ELSE g_speed = 0
  /\ log_num = 0
  /\ status = [l \in Logs |-> "read"] /\ read = [l \in Logs |-> 0]
  /\ time = [l \in Logs |-> 0] /\ buf = [l \in Logs |-> 0]
  /\ out = [l \in Logs |-> <<>>]
  /\ working = FALSE
  /\ cur_time = 0 /\ real = Start /\ common = [settime |-> 0, offset |-> 0, speed |-> 1]
  /\ asked = [l \in Logs |-> 0]
-----------------------------------------------------------------------------
(* fread of a stamp and a datum into sensors[l], and writeSSM_time of them. *)

HasRecord(l) == read[l] < Len(file[l].stamps)
Record(l) ==
  /\ HasRecord(l)
  /\ read' = [read EXCEPT ![l] = @ + 1]
  /\ time' = [time EXCEPT ![l] = file[l].stamps[read[l] + 1]]
  /\ buf'  = [buf EXCEPT ![l] = read[l] + 1]
\* What is left of a record is read all the same: the time is that of the record, or
\* a part of it is.
EndOfFile(l) ==
  /\ ~HasRecord(l)
  /\ \E y \in IF file[l].end = "whole" THEN {time[l]} ELSE Stamps \cup {0} :
       time' = [time EXCEPT ![l] = y]
  /\ buf' = [buf EXCEPT ![l] = IF file[l].end = "data cut" THEN Torn ELSE @]
  /\ UNCHANGED read
Written(l, n, y) == out' = [out EXCEPT ![l] = Append(@, [record |-> n, stamp |-> y])]
-----------------------------------------------------------------------------
(* ssmmultiplayer.c                                                        *)

Open ==
  /\ pc = "open"
  /\ log_num' = log_num + 1
  /\ time' = [time EXCEPT ![log_num + 1] = file[log_num + 1].head]
  /\ pc' = IF log_num + 1 = g_log_num THEN "settime" ELSE "open"
  /\ UNCHANGED <<file, kind, turn, g_speed, status, read, buf, out, working, clocks, asked>>
\* No such file, or the SSM does not know the stream.
OpenFails ==
  /\ pc = "open" /\ pc' = "quit"
  /\ UNCHANGED <<file, kind, turn, g_speed, log_num, log, working, clocks, asked>>
SetTime ==
  /\ pc = "settime" /\ pc' = "play"
  /\ settimeSSM(time[1], g_speed)
  /\ UNCHANGED <<file, kind, turn, g_speed, log_num, log, working, cur_time, real, asked>>

\* The turn of log l is over.
NextTurn(l) ==
  /\ turn' = turn + 1
  /\ UNCHANGED <<file, kind, pc, g_speed, log_num, clocks, asked>>
Playing(l) == pc = "play" /\ turn = l

AtEnd(l) ==
  /\ Playing(l) /\ status[l] = "read" /\ EndOfFile(l)
  /\ status' = [status EXCEPT ![l] = "end"]
  /\ NextTurn(l) /\ UNCHANGED <<out, working>>
Ended(l) ==
  /\ Playing(l) /\ status[l] = "end"
  /\ NextTurn(l) /\ UNCHANGED <<log, working>>

\* A record is there: it was read in an earlier round, or now.
Fetch(l) ==
  \/ status[l] = "write" /\ UNCHANGED <<read, time, buf>>
  \/ status[l] = "read" /\ Record(l)
\* Mutant: a log that has to wait ends the round ("break" instead of "continue").
Wait_break(l) ==
  /\ Playing(l) /\ Fetch(l) /\ gettimeSSM < time'[l]
  /\ status' = [status EXCEPT ![l] = "write"]
  /\ turn' = log_num + 1
  /\ UNCHANGED <<file, kind, pc, g_speed, log_num, clocks, asked, out, working>>
\* Mutant: a record that is not due is not kept for the next round.
Wait_reads(l) ==
  /\ Playing(l) /\ Fetch(l) /\ gettimeSSM < time'[l]
  /\ status' = [status EXCEPT ![l] = "read"]
  /\ NextTurn(l) /\ UNCHANGED <<out, working>>
Wait(l) ==
  /\ Playing(l) /\ Fetch(l) /\ gettimeSSM < time'[l]
  /\ status' = [status EXCEPT ![l] = "write"]
  /\ NextTurn(l) /\ UNCHANGED <<out, working>>
WriteDue(l) ==
  /\ Playing(l) /\ Fetch(l) /\ gettimeSSM >= time'[l]
  /\ Written(l, buf'[l], time'[l])
  /\ status' = [status EXCEPT ![l] = "read"]
  /\ working' = TRUE
  /\ NextTurn(l)

RoundOver == turn > log_num
NextRound ==
  /\ pc = "play" /\ RoundOver /\ \E l \in Logs : status[l] # "end"
  /\ turn' = 1 /\ working' = FALSE
  /\ UNCHANGED <<file, kind, pc, g_speed, log_num, log, clocks, asked>>
\* The clock is the real one again.
Finish ==
  /\ pc = "play" /\ RoundOver /\ \A l \in Logs : status[l] = "end"
  /\ pc' = "done" /\ settimeSSM(0, 0)
  /\ UNCHANGED <<file, kind, turn, g_speed, log_num, log, working, cur_time, real, asked>>
Player == Open \/ OpenFails \/ SetTime \/ NextRound \/ Finish
          \/ \E l \in Logs : AtEnd(l) \/ Ended(l) \/ Wait(l) \/ WriteDue(l)
-----------------------------------------------------------------------------
(* libSSMlog.c                                                             *)

openSSMlog ==
  /\ kind = "library" /\ pc = "idle" /\ log_num < g_log_num
  /\ log_num' = log_num + 1
  /\ time' = [time EXCEPT ![log_num + 1] = file[log_num + 1].head]
  /\ cur_time' = IF cur_time = 0 THEN file[log_num + 1].head ELSE cur_time
  /\ UNCHANGED <<file, kind, pc, turn, g_speed, status, read, buf, out, working, real, common, asked>>

\* A record is read and written. At the end of the file this is not so: what is in the
\* buffer is written once more.
ReadAndWrite(l) ==
  /\ status[l] # "end"
  /\ \/ Record(l) /\ UNCHANGED status
     \/ EndOfFile(l) /\ status' = [status EXCEPT ![l] = "end"]
  /\ Written(l, buf'[l], time'[l])
  /\ UNCHANGED <<file, kind, g_speed, log_num, working, clocks>>

proceedSSMlog(l) ==
  /\ kind = "library" /\ pc = "idle" /\ l <= log_num /\ asked[l] < MaxProceed
  /\ ReadAndWrite(l)
  /\ asked' = [asked EXCEPT ![l] = @ + 1]
  /\ UNCHANGED <<pc, turn>>

proceedSSMlog_time(t) ==
  /\ kind = "library" /\ pc = "idle" /\ cur_time + t <= End
  /\ cur_time' = cur_time + t
  /\ pc' = "proceed" /\ turn' = 1
  /\ UNCHANGED <<file, kind, g_speed, log_num, log, working, real, common, asked>>
\* while(sensors[i].time < cur_time)
Behind(l) == time[l] < cur_time /\ status[l] # "end"
Proceed(l) ==
  /\ pc = "proceed" /\ turn = l /\ l <= log_num /\ Behind(l)
  /\ ReadAndWrite(l)
  /\ UNCHANGED <<pc, turn, asked>>
Proceeded(l) ==
  /\ pc = "proceed" /\ turn = l /\ l <= log_num /\ ~Behind(l)
  /\ turn' = turn + 1
  /\ UNCHANGED <<file, kind, pc, g_speed, log_num, log, working, clocks, asked>>
Return ==
  /\ pc = "proceed" /\ RoundOver /\ pc' = "idle"
  /\ UNCHANGED <<file, kind, turn, g_speed, log_num, log, working, clocks, asked>>
Library ==
  \/ openSSMlog \/ Return
  \/ \E t \in Steps : proceedSSMlog_time(t)
  \/ \E l \in Logs : proceedSSMlog(l) \/ Proceed(l) \/ Proceeded(l)
-----------------------------------------------------------------------------
ReplayNext == Tick \/ Player \/ Library
ReplaySpec == ReplayInit /\ [][ReplayNext]_replayVars

\* The time that a stream has been played to.
Now == IF kind = "player" THEN gettimeSSM ELSE cur_time - 1

\* Every stream gets the records of its log, each once, in their order and with their
\* stamps. None is early: the player writes none before its time, and the library, for
\* each log, one and those the application asks for. At the end of a log the library
\* writes one more, which is not a record.
Replayed ==
  \A l \in Logs :
    LET whole == {n \in DOMAIN out[l] : n <= Len(file[l].stamps)}
    IN  /\ \A n \in whole : out[l][n] = [record |-> n, stamp |-> file[l].stamps[n]]
        /\ Len(out[l]) <= Len(file[l].stamps) + (IF kind = "player" THEN 0 ELSE 1)
        /\ Cardinality({n \in whole : out[l][n].stamp > Now})
             <= (IF kind = "player" THEN 0 ELSE 1 + asked[l])

\* Streams are next to each other in time. When a round had nothing to write, or a call
\* of proceedSSMlog_time is over, and a stream has a datum of some time that has come,
\* then the next datum of any other stream is later, provided its log is in order.
InOrder(l) ==
  LET s == file[l].stamps
  IN  \A n \in DOMAIN s : file[l].head <= s[n] /\ \A m \in 1 .. n : s[m] <= s[n]
Synchronous ==
  RoundOver /\ (pc = "proceed" \/ (pc = "play" /\ ~working)) =>
    \A k, l \in 1 .. log_num : \A n \in DOMAIN out[k] :
      out[k][n].stamp <= Now /\ InOrder(l) /\ Len(out[l]) < Len(file[l].stamps)
        => file[l].stamps[Len(out[l]) + 1] > out[k][n].stamp
=============================================================================
