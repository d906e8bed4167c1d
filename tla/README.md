# TLA+ models of the TC2017 robot software

This directory holds TLA+ models of the software of the robot of the Tsukuba
Challenge 2017, the TLC configurations that check them, and proofs for TLAPS.
`PROJECT.json` lists the runs, the source lines each definition stands for, the
mutants that each property catches, the hazards and the theorems.

`R` below stands for `src/RobotControl/ssm-shspur-ros`, `E` for `src/E2E`, `F` for
`E/tsukuba_ws/src/cyclops_waypoint_follower`, `C` for `E/Cyclops/PlaNet_L/CNN`.

## 1. The system

```
 lane, pose, velocity        laser scan                 camera
        |                        |                        |
   pure pursuit --> twist filter | --> CNN's node <-------+
        | distance        limiter|          | label, speed
        |   (one of three nodes) | max_speed|      joystick, Autoware's twist
        v                        v          v          v
   +--------- the node of /cmd_vel (return_using_Autoware.py) ------+
   +-----------------------------+----------------------------------+
                                 | /cmd_vel
                                 v
                  the bridge to sh_spur (sh_spur.cpp)
 joystick, tuners                |          localizer (ndt), loggers, ssmtransport
        |  SHSpur_*()            |               |  writeSSM / readSSM / readSSM_time
        v  System V message queue v              v
   +---------- sh_spur (PC) ---------+    SSM streams (shared memory rings)
   | command thread     main thread  |--->  spur_odometry, spur_global, pws_motor
   |        \   mutex    /           |    registered with the ssm server process
   +---------- serial line ----------+    (its own message queue)
        |  parameter_set    ^ packets, 5 ms
        v                   |
   +---------- sh_vel (firmware, SH-2) ---------+
   | 1 ms timer interrupt  <->  main loop       |
   +--------------------------------------------+
```

| part | code | state | operations | what is hard |
|---|---|---|---|---|
| SSM stream | `R/SSM-0.32/src/libSSM/libSSM.c`, `include/ssm_common.h` | header and ring of data with stamps in shared memory | `writeSSM`, `readSSM` | no lock: a reader copies while the writer overwrites; a writer dies and is started again |
| SSM time table | `libSSM.c` | a table from time to tid | `setTID_time`, `getTID_time`, `readSSM_time`, `createSSM` | table, stamps and `tid_top` are not updated together; a table that wraps |
| SSM server | `R/SSM-0.32/src/ssm/ssm.c`, `libSSM.c` | list of sensors, properties, one message queue | create, open, num, name, info, property set and get | one queue for everybody, two-message transfers, threads with one pid, death of a client, restart of the server |
| SSM pollers | `ssmlogger.c`, `SensorA_continual_read.c`, `ssmodm2ros.cpp` | the tid to read next | polling loops | lapping, the first datum, return codes that mean two things |
| ssmtransport | `R/SSM-0.32/utilities/ssmtransport` | tids wanted, sensors announced, a socket, sensors created | `ssm2tcp`, `tcp2ssm` | a driver that outruns the socket; ids that mean a place or a uid |
| sh_vel | `R/sh_spur-0.11/sh_vel` | servo level, set points, counters, watchdog | timer interrupt, main loop, commands of the PC | interrupt against main loop, commands altered by lost bytes, a PC that falls silent |
| serial line | `sh_spur/serial.c`, `sh_vel/serial.c` | bytes on their way, a packet half read | `encode`, `decord`, `serial_receive`, `DTC_receive` | no length and no check sum: what a lost byte costs |
| sh_spur, position and paths | `R/sh_spur-0.11/sh_spur/{control,serial,command_*}.c`, `libCoordinateSystem2D.c`, `libSHSpur.c` | odometry, a tree of five coordinate systems, the path that is followed | odometry, set and adjust positions, correction by a localizer, lines, circles, spins, questions about them | odometry without the mutex, an estimate that is older than the odometry, a path translated once and a question translated each time |
| sh_spur, control | `main.c`, `command*.c`, `control.c`, `param.c`, `libSHSpur.c` | mode of running, states, queue, mutex | start-up, control cycle, commands, answers | two threads and one line, a queue that fills up, watchdog |
| pure pursuit | `F/nodes/pure_pursuit`, `F/lib` | lane, pose, speed, configuration | four callbacks, a loop | the target at the edges of a segment, the side of the turn, short lanes |
| limiters of the speed | `E/tsukuba_ws/src/laser-stop`, `.../velocity_filter` | counters kept from scan to scan | scan callback | sums and runs of rays, counters that are not reset |
| twist filter, CNN's node | `F/nodes/twist_filter`, `C/tensorflow_in_ros.py` | last twist, last image, flags | callbacks, each with a thread | a clipped turn, a twist that is replaced between two reads, a division by a speed of 0 |
| node of `/cmd_vel` | `C/return_using_Autoware.py` | inputs, flags, a count | six callbacks, each with a thread | everything is an attribute that another thread may replace |
| bridge | `R/catkin_ws/src/sh_spur` | a queue of one command | callback, 10 Hz loop | the last command is kept for ever |
| replay of logs | `R/SSM-0.32/utilities/ssmmultiplayer`, `R/SSM-0.32/utilities/libSSMlog` | files read so far, a record not yet due, the clock of the SSM | `ssmmultiplayer`'s rounds, `proceedSSMlog`, `proceedSSMlog_time` | several logs at once, a log that was cut off in a record |
| tuners, joystick programs, training, maps, start scripts | | | | not modelled, see section 5 |

What makes each part correct:

* a stream gives its readers what was written, whole, and in its own words
  "the nearest, older one" of a time;
* the server's answers reach who asked, and all processes see the same segments
  and properties;
* a poller and the transport pass on what was published, in order, to the right
  sensor, and catch up;
* logs are played back whole, in order, not early, and streams stay next to each other in time;
* the motor controller loses no counts, keeps the set points of a call together,
  and stops when the PC falls silent;
* a byte that is lost costs one packet and makes up none;
* a position that was set stays where it was set, plus the motion since, and the
  path that is followed and asked about is the one that was named;
* the wheels never turn for two different calls, the servo follows the mode, and
  a question is answered;
* the robot turns to the side on which the lane lies;
* a command is used once, is not faster than the cap, and an obstacle or a stop of
  Autoware stops the robot.

## 2. Modules

| module | models | composition |
|---|---|---|
| `SSMHistory` | abstract specification of a stream: published tids, calls that are refused or deliver | |
| `SSMStream` | `writeSSM` and `readSSM`, one action per word copied | implements `SSMHistory` |
| `SSMStream_proofs` | inductive invariant, five theorems | EXTENDS `SSMStream` |
| `SSMTime` | time table, reads by time, `createSSM` of a driver that restarts | copies as one step |
| `SSMTime_proofs` | inductive invariants of reads by time and of the replay, and their theorems | EXTENDS `SSMTime`, `SSMReplay` |
| `SSMPoller` | two kinds of polling loop | `readSSM` as `SSMHistory` promises it |
| `SSMTransport`, `SSMTransportMC` | both threads of ssmtransport, the socket, drivers, a follower of a copy | EXTENDS `SSMPoller` |
| `SSMServer`, `SSMServerMC` | server process and the calls of libSSM over the queue | |
| `SSMServer_proofs` | inductive invariants of the server and of ssmtransport, and their theorems | EXTENDS `SSMServer`, `SSMTransport` |
| `SSMReplay` | ssmmultiplayer and libSSMlog, which play logs back | `writeSSM` as one step; the logs are what the logger may leave |
| `SHVel` | firmware: interrupt, main loop, serial commands | the PC is any sender |
| `SHVel_proofs` | five theorems | EXTENDS `SHVel` |
| `SerialLine`, `SerialLineMC` | the code of the line and both receivers | |
| `CoordinateSystem2D` | the library of coordinate systems, as operators | |
| `SHSpurPose` | odometry and positions in sh_spur | EXTENDS `CoordinateSystem2D` |
| `SHSpurPath`, `SHSpurPathMC` | paths, what the control loop sees of them, and questions about them | EXTENDS `SHSpurPose` |
| `SHSpurPose_proofs` | theorems about frames, positions and paths | EXTENDS `SHSpurPath` |
| `SHSpur`, `SHSpurMC` | threads, mutex, queue, modes, clients | the motor controller reduced to what the PC can tell |
| `SHSpur_proofs` | theorems about the threads, and the inductive invariant of the serial line with its theorems | EXTENDS `SHSpur`, `SerialLine` |
| `PurePursuit` | the algorithm of the waypoint follower, as operators | |
| `PurePursuitNode`, `PurePursuitNodeMC` | its node: callbacks and loop | EXTENDS `PurePursuit` |
| `PurePursuitNode_proofs` | theorems about the waypoint follower and the side of the drive | EXTENDS `PurePursuitNode`, `CyclopsDrive` |
| `ReturnUsingAutoware`, `ReturnUsingAutowareMC` | the node of `/cmd_vel`, attribute by attribute | |
| `ReturnUsingAutoware_proofs` | inductive invariant, four theorems | EXTENDS `ReturnUsingAutoware` |
| `MaxSpeed` | the three limiters, as operators | |
| `CyclopsDrive`, `CyclopsDriveMC` | all nodes from the lane and the laser to the bridge | EXTENDS `MaxSpeed` |

State and actions keep the names of the code: `tid_top`, `g_run_mode`, `w_ref`,
`param_change`. Program counters (`pc`, `wpc`, `cpc`) name the place in a
handler. Variables called history in a module are read by no guard; they exist
for the properties.

### SSMStream

`BeginWrite`, `StoreWord`, `StoreTime` and `Publish` are `writeSSM`; `Call`,
`Refuse`, `Accept`, `LoadWord`, `LoadTime` are `readSSM`. The compiled code
(gcc -O2, x86-64) keeps the order of the stores, and x86 keeps the order
other processors see; the model relies on that. `readSSM` loads `tid_top` once; the
model allows the latch and the check to be two loads, a superset. `WriterRestart` is the
death of a writer anywhere and `createSSM` by the next one.

### SSMTime

`Register` and `FillBack` are `setTID_time`, before the datum is stored; the
reader's actions are the steps of `getTID_time` and `readSSM_time`. A time is
in ticks; `Floor` stands for -1000000. Stamps never step back within a run (the
stamps of sh_spur may, when `time_estimate` is anchored anew: not modelled).
`overlap` remembers whether a read overlapped a write, `hist` the stamp of each
tid.

The properties make two exceptions, both facts of the code. A tid is registered
before its stamp is stored (`libSSM.c:314`), so that a search in the same bucket
may compare with the stamp of a lap before and return a datum that is newer than
the time asked for, which the example `SensorAB_sync.c:24` rules out
(`overlap = "bucket"`). And when a writer pauses for longer than the table lasts,
`setTID_time` stops filling at an entry that is of before the pause
(`libSSM.c:344`), one turn too early: a search for a time in the pause may
start at a tid of an earlier turn, and fail or give an older datum (`InPause`).
The second one came to light as a step of the proof that would not go through.

### SSMPoller and SSMTransport

`kind` picks the loop. `Poll` is the loop of the logger and the bridge with
their thresholds (`<= 0`, `<= -1`). In `SSMTransport` the follower reads a copy that
`tcp2ssm` writes. `ssm2tcp` is one turn of the sender: it goes round the
sensors (`Advance`), announces one that has appeared (`Announce`, with its property, if it
has one, whose id is the uid), looks at the newest tid and jumps by half a ring when it is
too far behind (`Look`), and sends a datum (`Send`); `Look` and `Send` are two steps
because the driver goes on between them. `tcp2ssm` takes one message.
`sized` are the sensors whose property has a size when they are announced; a property that
arrives for another one meets no room (`HasRoom`). A message is a record; the receiver reads on until a structure is
whole, so bytes are not modelled. The socket takes `Cap` messages before a write blocks; `Send`
waits for room before it reads the datum, where the code reads first and then waits in `write`,
with the same messages in the same order.

### SSMServer

`Serve` is one command of `msq_loop`, `TakeData` the second message of a
property that is set. A client's call is `Request`, then `ReceiveReply`, then
`Collect` for the property it gets. `Die` is the kernel ending a process; its
messages stay. A client is a thread and makes one call at a time. What a reply carries is
the pid (`PidOf`), which is that of all threads of a process (ssmtransport has two, and the mutex made
for them is never taken), may be that of a process that ended in a call, whose messages nobody
deletes, and may be one of the server's receive ids. A call that begins while its
pid is `InUse` in one of these ways sets `mixed`, for good, and no property says anything after that: the
code does mix replies up then, and what a call makes of another's reply is not followed. All other
orders of threads and processes are in the model, those with a shared pid included. The
run stops at mixed states (`CONSTRAINT Unmixed`), which loses nothing: every property has
`~mixed` as an antecedent. `Restart` may fall between the two messages of a get, and then the client
waits for the second. `RepliesAreOwn` compares what a call returns with what it asked, gets of a
property included. `misfit` is set when a property message is longer than its
receiver allows and stays in the queue.

### SSMReplay

`kind` picks the program. The player goes round its logs: `AtEnd`, `Ended`, `Wait`
and `WriteDue` are the turns of one log, `Fetch` the read of a record unless one is
waiting. The library's `proceedSSMlog` reads and writes one record,
`proceedSSMlog_time` as many of each log as its clock has passed (`Proceed`). `LogFiles` are the logs
that a logger can leave: cut in a stamp or in a datum by the handler of its
signal, with stamps in any order, and with a header whose stamp is the first
record's (or any, when there is at most one). The end of a log in the library's functions
writes the buffer once more, which the properties leave out (`whole`); they bound it by one.

### SHVel

Time is in ticks of 1 ms. `Tick` is the interrupt (with and without servo),
`Main` the body of the main loop cut where the interrupt may come, `FromPC` the
bytes of a command as they arrive. A command of 10 bytes takes 2.6 ms at 38400
baud: `CommandTicks`; noise may take its start byte, its end byte or symbols
(`Arrive`). The decoder and `command_analyze` look at neither length nor sum, so a command that
lost symbols is executed as what is left of it (`Altered`: a set point of either
motor, any level or limit, or nothing that matters here), and one that lost its end byte
is kept open (`held`) and swallows what follows, up to the next end byte. A set point of which noise changes
nothing but the value counts as the one that was sent: which number of rad/s a wheel turns at is not
modelled, but which call it is of. A packet of 13 bytes keeps the main loop for up to 2.9
ms: `SendTicks`. `slack` counts the part of a packet that is behind the clock.
Encoders wrap at `CntMod` (2^16 in the controller). The two
wheels have one encoder in the model. PI control, torque, PWM and registers are
left out, except that the integral is zero or not (`int_w`).

### SerialLine

A packet is a start byte, the data as symbols of six bits, and an end byte. `Send`
puts a packet on the line, `Lose` takes any byte off it, `ReceiveByte` is one byte at
either receiver: both drop bytes until a start byte and collect everything behind it
until an end byte. `Take` is what follows: sh_spur takes whatever it has decoded, the
controller only a command of at least one byte. `Encode` is the same at both ends;
`Decord` (sh_spur) and `DTC_decode` (the controller) differ in what they make of a byte
that is no symbol and of bits left over. Both write over the bytes decoded last time
(`Overlay`), which are static, so that a short packet leaves the rest of an old one.
This is why `NothingInvented` excepts packets that lost a symbol: there is no check
sum, and such a packet is taken with wrong data. What it says of all others is that the data
are those of one packet, and of packets in the order they were sent, each at most once.
`LossIsLocal` bounds how many of them are missing.

### SHSpurPose and SHSpurPath

`odometry()` is split into loads and stores because it takes no mutex;
everything under the mutex is one action. A pose is exact (grid and quarter
turns), so that rounding cannot hide or feign a difference; the library applies
the same formulas to doubles and never compares. `since` and `expect` are sets
of at most one pose: empty where it is not determined. Each read of the port
yields at most one packet. The localizer is external.
`PositionKept` leaves out positions set while "FS" is being stored, and those set between
the enabling of the body and the next packet; both are hazards of the code.
The library's recursion from a system to the base is written out for the depth of the tree
(`Call`). The odometry moves a pose along its heading only (`PoseAssumption`).

`SHSpurPath` adds the commands that name a path (line, circle, spin, tilt): each is
translated to the global system when it is handled (`g_spur`), and the control loop compares that with the odometry in the global system in every
cycle. `run_control` is what the control laws take into account, before any
gain. A client's question (`near_pos_com`, `near_ang_com`, `over_line_com`) is
translated to the client's system at the time of the question. The property relates
both: what the loop follows and what a question answers is the path that was named, as
long as nobody moves its system against the global one. Paths in the robot's own
system are followed from where it was when they were named; questions in it
are answered as if the system were "BS" (the code falls through), which
`QuestionsAgree` leaves out.

### SHSpur

`Boot` is `set_param` and the servo of `main()`, without the mutex. `Loop` is
`serial_receive` and `run_control`; `CommandThread` one turn of `command()`. A
write to the line is a step, so that pairs of two threads could mix. The
start-up of the command thread itself is over in `Init`; MOTOR, VELOCITY, BODY
are the states kept; of the paths only VEL, WHEEL_VEL, STOP and FREE are commands
here. `--control` (no parameter file) and equal
`pid & 0x7fff` of two clients are not modelled. The lock of
`coordinate_synchronize` is not a section of its own here. After `Period` finds the watchdog due, the motor
controller sends no more packets until a servo level is set.

### PurePursuit and PurePursuitNode

Points are pairs of integers, and every decision of the code is taken exactly:
distances are compared as squares, and the intersections of a line with the circle of
the lookahead by the sign of p + q * sqrt(d) (`RootSign`). `NextWaypoint` is
`getNextWaypoint`, `InterpolateNextTarget` the function of that name,
`Curvature` the sign of kappa. Waypoint numbers are one more than in the code.
One thread runs the callbacks, inside `spinOnce`, and the body of the loop, so each is
one action. `calcCurvature` reads the second waypoint of the lane (the distance
published for the CNN), whether there is one or not; nobody catches the exception, and
`alive` becomes false. So it does after the twist when the marker asks for the
position of waypoint -1.

### ReturnUsingAutoware

rospy gives each subscription a thread. The three main callbacks store their message,
set their flag and call `callback()`; each read or write of an attribute of `self` is
a step: `Check` reads the three flags one after the other, `Reset` clears them, `If`
is one of the tests of the buttons, `Speed`, `Cap` (compares, then reads `max_vel`
again), `Steer`, `Zero`, `Divide`, `Load`, `Less` and `Publish` the rest. Joystick,
cap and pose replace attributes at any time. `replaced` remembers what was replaced while a
body ran; `count.overlapped` that two bodies ran at once, `count.stale` that one began
on a flag that was reset after it was read. A turning rate is
reduced to its source. A callback sets its flag before it stores its message (`stored`): a
body that comes between finds no message, and `Speed` and `Steer` raise.

### MaxSpeed and CyclopsDrive

`Stopper`, `StopperAndBack` and `VelocityFilter` map a scan, and what was kept of the
scans before, to a speed; units are dm and cm/s, so that all comparisons are exact
but the root, which is rounded down. `CyclopsDrive` runs one of them, chosen in
`Init`. Messages reach the next node in the step that publishes them, except that the twist of a round
and its distance, which take different ways, come independently; the
bridge's queue of one is `cmd`. The CNN's node has two threads (`Callbacks`), of the camera and of the
twist. Each sets its flag, and goes on with both flags up (`Taken`); the twist's stores its
message after its flag (`FlagTwist`, `StoreTwist`). The body reads the stored twist
once for the speed (`ReadSpeed`, line 128) and once for the rate (`Infer`, line 129), and the other thread may
replace it in between, with which the speed of one twist is asked with the rate of the next (`Ask`). `TwistFilter` clips a turn by the lateral
acceleration (for a right turn the formula makes the *speed* negative), `Label` is the
side of a speed and a rate; beyond 1 rad/s the root is not a number, which the theorem
covers and the run does not reach. `Commands` in the properties says
that commands keep coming: the code waits for all its inputs.

## 3. Runs

| run | instance | shows |
|---|---|---|
| `stream` | 1 reader, 2 words, 3 slots, 7 data | torn copies and refusals only as `SSMHistory` allows; refinement |
| `time` | 1 reader, 4 slots, cycle 2, gaps 1, 3, 10, 5 data, three query times | the table covers the past, a read by time finds the nearest older datum and its stamp unless a write into its bucket overlaps or the writer paused, and fails only when it may |
| `transport` | 2 sensors with equal or different uids, one maybe without a property, 7 and 2 data, rings of 4, a socket of 3 messages, either follower | order, completeness, owners of data and properties; sender and follower catch up |
| `server` | a mortal process with 1 call, two threads of another (one pid) with 2 and 1; 2 sensors, 1 restart | replies, segments, properties, progress, until a call begins under a pid in use |
| `replay` | 2 logs of up to 2 records with stamps 1 to 3, whole or cut; clock from 3 to 5, at speed 1 or 2; steps of 1 or 2 | data are played in order, once, not early, and streams stay next to each other |
| `vel` | counter mod 2, 2 pairs, 1 other command, 1 command that loses bytes, limits 1 and 4, levels 0, 2, 3 | odometry, skew, watchdog, integral, stop on silence |
| `line` | 4 packets to either receiver, 3 bytes lost anywhere | a byte costs at most one packet, nothing is invented |
| `pose` | 2 packets, 2 commands, 1 estimate; 1 motion, 2 poses, 1 path | positions stay, paths and questions agree |
| `spur` | 2 clients, 3 commands, queue of 2, speed 3 cut to 2, in steps of 1 | pairs, servo, watchdog, answers, rest |
| `pursuit` | all lanes of 0 to 4 waypoints by five steps, lookaheads 2 to 4 | where the target is lost, the side of the turn, what kills the node |
| `cmdvel` | 1 or 2 messages of each topic, 2 caps, 2 joysticks, 2 bodies at once | cap, buttons, count, flags: each holds but for a named race |
| `drive` | the three limiters, twists to the left, to the right, to the right and clipped, and of 0; 2 scans, 1 speed of Autoware | the side to the CNN, stop at an obstacle, silence when the target is lost |

Why the bounds are enough to be of use:

* Rings of three or four slots are lapped twice, and the margin of one slot is a
  third of the ring, not a corner of it. Readers do not write to anything they
  share, so one is enough; the theorems cover any set.
* In `transport`, the followed driver writes nearly two rings while the socket is full, and
  the other sensor comes and goes between.
* The server has more transfers than `NumRes` ids, so that ids wrap; two threads of one pid
  take turns, and a process dies, in every place of every call.
* In `time`, gaps of 1 and 3 fall into one bucket, the next and the one after; a gap of
  10 is a pause of five buckets, more than the table of four. Tids wrap once, the table more
  than once.
* In `replay`, two records to a log let one wait while the other is written, and
  stamps step back; the clock passes all of them.
* In `vel`, the counter wraps with every second move, and period, packet and
  command overlap in every order; the watchdog bites within the run at both
  limits. Command pairs may be closer than a packet. One command may lose any of its bytes, with
  every command it can be taken for, the first or second of a pair, or one between. TLC
  found no error either with 3 pairs, 2 losses and limits 0, 1, 4 (25.8 million states), nor with 4
  pairs, 2 other commands and 1 loss (29.5 million), which take too long for a run kept here.
* In `line`, the payload has every bit of every byte as 0 and as 1, and there is one
  packet more than bytes that may be lost, so that recovery is seen.
* In `pose`, an estimate can be older than a packet, a command can
  fall between any two stores, and two commands meet (a path and one that moves
  its system, two paths, two positions).
* In `spur`, three commands fill the queue while a question is being answered,
  and the modes FREE, STOP and VEL follow each other in every order; the ramp
  from 0 to 2 takes two cycles.
* In `pursuit`, steps of 3, 2\*sqrt(2), sqrt(5) and 0 against lookaheads of 2, 3
  and 4 put waypoints within, on and beyond the circle, and segments tangent to it,
  across it and of no length.
* In `cmdvel`, two bodies overlap at every pair of attributes; the twist that
  comes twice is the one that is divided by. There is one value of a twist, which is
positive; that others change nothing is what `LostTheorem` shows for all.

Deadlock is off where the system may stop: `transport` (the drivers may stop
publishing), `server` (all calls made, or a setter died in the middle), `spur` (clients stop
asking while the motor controller is off; a full queue stops everything, see below),
`pursuit` (the node dies), `cmdvel` and `line` (all messages used), `replay` (the logs
have been played, or one cannot be opened), `drive`
(nobody has to go on). It is on in `stream`, `time`, `vel` and `pose`.

### Fairness

* `SSMTransport`: the loops of both threads and of the follower run on (WF);
  nothing makes a driver start or publish.
* `SSMServer`: the server and the clients go on (WF); no client has to call or
  die.
* `SHVel`: the clock and the main loop (WF); none for the PC, which may fall
  silent anywhere.
* `SHSpur`: SF for both threads. Each releases the mutex and then blocks (the
  main thread in `read()` for about a period, the command thread in `msgrcv`),
  so that the other one gets it. WF for periods and for clients that collect.
  None for clients that ask.
* `CyclopsDrive`: WF for the laser's scans, which come at the driver's rate, and for the
  bridge, which spins at 10 Hz. None for anything that makes a command: lane,
  camera, Autoware and joystick may stop.

### What holds only with its exceptions

The properties name, as antecedents, states in which the code does not do what one
might wish. These are recorded as hazards:

* tid 0 is never found by time, and a time at or before 0 asks for the latest; a
  time within a pause that is longer than the table may not be found, or an
  older datum be given (`InPause`); a read that overlaps a write into its bucket may
  give a newer one (`overlap`);
* a stream with one slot can never be read;
* a reader that was lapped, or takes 0 for "not yet", waits for ever (`StartedWell`,
  `NeverLapped`);
* ssmtransport sends a property with the sensor's uid, and the receiver takes it as a place in
  its order of registration (`PropertyUnlessUid`);
* at the end of a log the library writes the last record, or parts of two, once more
  (`Replayed` allows one more than there are records);
* replies of the server carry a pid, so that two threads of one process that call at once may get
  each other's, as may a process with the pid of one that died in a call, or with a receive id (`mixed`);
* a new pair of set points that comes less than a packet after the one before
  may be mixed with it, a command that lost bytes is executed as another one, and a lost end byte
  swallows the next command: the wheels stay out of step (`slips`). After the watchdog has bitten
  `w_ref` keeps its value;
* a position set between "enable body" and the next packet is lost;
* questions in "FS" are answered in "BS";
* a command seen during start-up while the mode is FREE may switch the servo
  off for good (`early`);
* when the queue is full at the moment of an answer, the command thread waits
  for room and holds the mutex: the control loop stops, the watchdog bites
  (`Jammed`, `blamed`);
* while a state is disabled nothing wakes the watchdog, and when it has bitten
  the main thread stays in `read()`;
* pure pursuit loses its target when the waypoint before lies exactly on the circle, and
  dies of a lane with fewer than two waypoints;
* the twist filter clips a right turn into a negative speed, which the CNN's node
  then takes for a left turn (`Clipped`); when the thread of the camera reads the
  twist while it is replaced, that speed may meet the rate of the next turn, and a left turn
  is asked for as a right one;
* a lost target becomes a division by zero in the CNN's node; `/cmd_vel` falls silent
  and the bridge keeps the last command (`LostSilences`);
* `max_vel` and the buttons are read twice, and two bodies of `callback()` may run at once
  (`replaced`, `overlapped`).

## 4. Proofs

All theorems are checked by TLAPS, for every value of the constants that the
named assumptions allow.

`SSMStream_proofs`. `IInv` is `TypeOK` with the writer's progress (`WriterInv`),
the meaning of each slot (`SlotInv`: a slot holds its latest datum, or while
it is written, words of the next lap), the readers' partial copies
(`ReaderInv`) and their calls (`CallInv`). The arithmetic fact behind it is
`SlotsDiffer`: two tids less than a ring apart have different slots, so that the slot
being written lies outside of what `readSSM` accepts. From `IInv` follow
`TypeCorrect`, `RegionIntact`, `CopyIntact`, `CopyNeverOlder`; and
`StreamImplementsHistory`: every step of the ring maps to a step or a stutter of
`SSMHistory`.

`SSMTime_proofs`. For every size of the ring and of the cycle, any intervals and any
times asked for. Slots and buckets are arithmetic modulo `Num` (`ModDiffers`,
`ModReaches`) and division by `Cycle` (`DivMonotonic`). The invariant has a part for the
stamps (`HistInv`: they increase), for the ring (`RingInv`), for the table
(`EntriesInv`, `FillInv`: how far back `setTID_time` has filled it; `CoverInv`: no
entry lags behind), and for the calls (`OverlapInv`, `ReaderInv`: a search never
passes the nearest datum; `QuietInv`: and stops at it if no write overlaps). The core is
`EndFillCovers`: when the back-fill meets an entry of the turn before, or has
gone round, the buckets it did not visit are those of times that the entries cover
already, except in a long pause. `TableCoversTheorem`, `NearestOlderTheorem` and
`QuietCallTheorem` are what remains when a call has found its tid, or failed.

The second part of the module is about the replay, for any number of logs a logger can
leave and any speed. `ReplayInv` says what was read and written of a log by its status
(`Prefix`, `Progress`), where the program is (`PhaseInv`), and that the player has
written nothing that its clock has not reached (`NoneEarly`), the library no more than it
was asked for (`FewEarly`, by counting: `EarlyShrinks`). What a round has found out of
the logs it has been at (`RoundInv`) must survive the steps of the others: a log that
waits is later than all that was written (`LaterThanAll`), because the player writes nothing
in a round that found nothing due, and its clock only grows. From this follow
`ReplayedHolds` and `SynchronousHolds`.

`SSMServer_proofs`. For any number of processes and threads with any pids, and any number of sensors, calls and
restarts. `PidInv`: as long as nothing is `mixed`, a pid is in use by one caller, and by nothing left in the
queue. `OwnInv`: a command in the queue is that of an
unanswered call and the only one of its process (`CommandInv`), and an inbox holds
the answer to its owner's last call or nothing, two messages only for a property, or the
first of them when the server was killed between (`InboxInv`, `KilledAnswers`); each of the server's answers keeps this (`QueryAnswers`, `CreateAnswers`,
`SetAnswers`, `GetAnswers`). This gives `RepliesAreOwn`, deaths in a call and restarts
included. `ListInv` and `SegmentInv`: a segment that was given out in this life of the server
is in the list, with one sensor to a segment and one segment to a sensor; hence
`SegmentsAgree`. `PropertyInv` says how far the one transfer of a property is, as long as
no message misfits (`Idle`, `Unsent`, `SentData`): the data on their way are those of the set
that the server waits for, and what it has stored is of one call; hence `PropertyKept`.

The second part of the module is about ssmtransport and the pollers, for every file of sensors,
any uids, any ring and any socket. `TransportInv` relates the sender's list of ids to what the
receiver has registered: as long as it lives, what is missing is announced in the socket, in the
order of the ids and in front of the data (`NewsInv`); so the message at the head of the socket
announces the next id, and the datum at its head has a copy to go to. The data
of one id are those of its copy followed by those in the socket, in order, of one sensor, behind its
cursor (`DataInv`, `OrderInv`), and without gaps but for what was more than half a ring old
(`CompleteInv`: `Look` moves the cursor only over such data, `Send` sends the datum it stands
at). A property points at its sensor's uid (`PropInv`). `FollowerInv` has what a logger or
a bridge has passed on. `PassedOnHolds` is what of this is promised; it needs no
fairness and holds when the receiver has died.

`SHVel_proofs`. `TypeCorrect`, by one lemma per part of the main loop.
`OdometryAddsUp` needs `OdometryInv`, which says how far the interrupt's clock
may be while a packet is sent: `cnt_updated + slack <= SendTicks`, which is less
than the period, so that the buffer is not refreshed between its two uses.
`WatchDogIsLookedAt` bounds the watchdog by a term that depends on the place in
the main loop (`Overdue`); `IntegralStartsAnew` is inductive as it stands.

`PairsStayTogether` is most of `SkewBounded`: the wheels are in step as long as every command was taken as it was
sent (`InStep`), and never apart by more than one call and the slips (`Near`). That the one is not
needed is model-checked only. Whether two wheels differ depends on several rounds of
the main loop, the ticks between them and the commands that wait in the buffer, so the
invariant `SkewInv` follows a set point from the line to the motor. `Queue` names what
`w_ref[2]` and `w_ref[3]` will be after each command in the buffer, two functions that exist in every
state (`PairsAppend`, `PairsSlip` and `EndArrive` append to them, `PairsReceive` shifts them). `EndOf` says
that they end with what was sent last, but for `slips`: whatever noise makes of a command, it is a
set point of a call that was just sent, or none, and counts as a slip; the same holds of what was swallowed
by a command without an end byte (`Held`). Without a slip, the first half of a pair is never taken over
alone: that is `Early` and `ActInv`: such a half comes when everything before it has been stored, and the
pair before has been taken over or the servo is off and stays off (`StopOK`). That it does
come so late is `After` with `Ready`, which rests on time: a pair not counted as too close comes
more than `CloseTicks` after the last, by then the buffer has been found empty
(`AgeInv`, `Undrained`), there has been a tick, and a servo command just received was not
followed by another command within a tick (`LineAssumption`: a command takes 2.6 ms). The
watchdog's clocks are in `PacketInv`, `QuietInv`, `OffInv`.

`SHSpurPose_proofs`. `StepsUndo`: a step down the tree of coordinate systems and
a step up undo each other, for every pose on the grid (four cases of the angle,
`Quarter`). `RobotFrame` needs `StoreInv`: from the moment `odometry()` loads the
result until it has stored the last field of "FS", the odometry does not change, so
that the fields stored so far are the odometry's. Only the enabling of the body
may change it in between, and that shows in `stale`. The invariant asks of the
other systems nothing but that they exist. `RobotFrameOnPaths` is the same
theorem of the specification with paths: the commands that name one leave the tree and
the odometry alone.

`PositionIsKeptOnPaths` and `PathIsKept` compare everything with b, where `odometry()`
began to add the packet of this moment. `AddingInv`: the record, and the estimate of the
localizer, come to b by what the robot moved since, whatever the order of packets,
estimates and commands. `ExpectInv`: where a client expects the robot, seen from its
system, is the system of the robot or, while that is stored, the odometry before the
packet. Set and adjusted positions (`SetPosExpects`, `SetGLonGLExpects`, `AdjustExpects`),
the localizer (`SyncExpects`) and the odometry (`OdometryExpects`) each keep that; all rest
on the library's translations being inverse to each other and composing
(`Composed`, `Levels`). `PathInv`: a path named in a system is where that
system is seen from the global one, and one in the robot's own where it was (`Followed`,
`Unmoved`); `SameView` and `GlobalSees` then say that what the control
loop sees of it and what a question answers are the same.

`SHSpur_proofs`. `TypeCorrect`, in five parts; that a message taken out leaves a
shorter queue is `QueueShorter`. `PairsStayWhole` needs `MutexInv` (who is where
while the mutex is held) and `PairInv` (the first wheel has the speed that the
second will get; the start-up and the commands, which may meet, both send zeros).
`ServoFollowsMode` needs `ServoInv`: where the command thread is on its way whenever
the servo is off. `WatchDogOnlyBitesWhen` needs `DogInv`: between two control
cycles the watchdog counts no more than `since`, and every control cycle resets it
unless `blamed`; it rests on `Cycle <= WatchDog`.

`SHSpur_proofs` also has the serial line, for any data (`PayloadAssumption`: they are bytes),
any number of packets and of lost bytes. `Value` is recursive, but over the bits of one
number: `ValueOfSix` and `ValueOfEight` write it out, so no induction is needed. Bit
j of the data is bit j of the symbols (`BitsOfSymbol`, `BitsOfByte`), hence each byte comes
back (`ByteKept`) and both decoders return the data of what begins with a packet, whatever
follows it (`Decoding`). The invariant `LineInv` says that the buffer begins with a packet
`h`, that all packets from `h` on lost their end byte (`Collected`), that every packet before
`h` was taken or lost a byte, or the packet before it lost its end byte (`Charged`), and that what was
taken is of packets before `h` (`TakenBefore`). `Charged` is what makes it inductive: an end
byte is charged to its own packet while that is still in the buffer, and to the next one
once it has been taken. `LossIsLocal` follows because no lost byte is then charged twice
(an injection from the packets that are missing).

`PurePursuitNode_proofs`. The theorems hold for every lane of integer points, every
lookahead and every speed that is not negative (`LaneAssumption`). `IInv` is the
type of lane, configuration and speed with `DiesOnShortLane`; what the loop's body
does to them is geometry. `NextWaypointFound`: the next waypoint is beyond the
lookahead and the one before it within (the least far waypoint exists because the natural
numbers are well-founded; the first waypoint is not far from itself). `Circle`: so
the segment between them leaves the circle: with Lagrange's identity and the law of
cosines, half the chord reaches back to the start of the segment at least, and
forward not to its end (`Leaves`). From this, the intersection in front of the foot is the
one that the code accepts (`BeforeEnd`), strictly so unless the waypoint before is on
the circle, which is `LostOnlyOnCircleHolds`; the one behind is never accepted
(`NotBehind`); and what lies between two points on one side of the heading is on that side
(`Between`, `SideOfLane`), which is `TurnsTowardsLaneHolds`. `OnlyRunRan` tells the
loop's body from the callbacks. `SideUnlessClippedHolds`, of `CyclopsDrive`, goes on from there, for
every twist that drives forward (`RawsAssumption`), every limit, and any order of the two threads: the
invariant says where a thread's speed came from, and that in the thread of the twist nothing replaces the message
between its two reads. The twist filter keeps the sign of
the rate and, unless it clips, the speed (`FilterSigns`), and the label is the sign of their product
(`SideOf`); a clipped right turn has a negative speed, with its own rate or with that of the twist that came
in between.

`ReturnUsingAutoware_proofs`. For all messages, any number of them, and any number of bodies
at once. The steps of a thread are assignments to attributes; `Assign` and the lemmas after it
say once what such a step leaves alone. `IInv` has the types with the range of each
program counter (`TypeOK`, `KRange`), and one part per property: `CapSound` (a speed about
to be capped is above the cap, unless `max_vel` was replaced), `ChoiceSound` (no if before this
one was true, and the divisor is not 0, unless buttons or twist were replaced),
`FlameSound` (one body at a time has the count to itself from the test to the subtraction) and
`FlagsSound` (a flag that is up and that nobody is about to reset stands for a message
that no body has had: the number of bodies plus the flag is at most the number of
messages). The last two hold until bodies overlap, or one begins on a stale flag;
that is what the antecedents of `FlameUnlessOverlapped` and `OnceUnlessOverlapped` say, and
an attempt to prove the second without the stale flag is how that race was found.

Only model-checked are the exact bound of `SkewBounded`, and liveness (`CallsReturn`, `SilenceStops`, `Answered`, `Stops`,
`SenderCatchesUp`, `FollowerCatchesUp`, `StopsAtObstacle`, `LostSilences`), which is out of the
prover's reach.

## 5. Not modelled

* Floating point: gains and feedback of the control laws, gravity compensation's
  torque, kinematics, the low-pass of the twist filter.
* `time_synchronize` and `time_estimate`: the fit of the packets' clock to the PC's.
* Exhaustion of shared memory, a full queue at the SSM server, what calls do with replies that are
  not theirs (`mixed`), readers that look at the clock between the three stores of `settimeSSM`, the connection set-up
  of ssmtransport and a broken socket (the code does not handle one).
* What `DTC_receive` finds on its very first scan (its read pointer is not
  initialised; the start-up code clears it).
* A write of `DTC_receive` behind its array, after so many lost end bytes that the data of some twelve
  commands run together; and a watchdog limit that noise turned into the greatest int, which never bites.
* A parameter file that cannot be opened (`set_param` returns before it has set anything, and main goes
  on with all parameters 0), as with `--control`.
* That a log's header keeps six decimals of its stamp (`%lf`): the clock of the replay, which starts at it,
  may be half a microsecond off. The stamps of records are kept in full.
* The tolerance of 1e-5 in `getLinearEquation`: between points with integer coordinates it makes no
  difference, since they are equal or at least 1 apart.
* A joystick message that is replaced between the two buttons of one `if` of the node of `/cmd_vel`
  (lines 43, 60, 71, 78 name `self.joy` twice); between the ifs it may be replaced.
* Mode WHEEL_VEL of `SHSpur` is modelled and covered by the theorems, but is not among the commands
  of the run.
* The other ROS nodes: bridges with a single callback and no state, displays,
  loggers, regions of a map.
* User interfaces, the network and its training, register set-up, maps, start scripts.

## 6. Plan

Done, in this order: `SSMStream` with `SSMHistory` and proofs, `SSMTime`,
`SSMPoller`, `SSMServer`, `SHVel` and proofs, `CoordinateSystem2D` and
`SHSpurPose` and proofs, `SHSpur` and proofs; then `SSMTransport`, `SHSpurPath`,
`PurePursuit` with its node and proofs, `ReturnUsingAutoware`, `MaxSpeed`,
`CyclopsDrive`, `SerialLine`; then the proofs of `ReturnUsingAutoware`, `SHSpurPose` with
paths, `SSMServer` and `SSMTime`, and `SSMReplay`; then the set points of `SHVel` in pairs; then the proofs of
`SSMReplay`, `SSMTransport`, the side of `CyclopsDrive` and `SerialLine`.

Next, models: `SHSpur`'s two threads and `SHVel` composed over a line that carries
packets (the threads implement what `SHVel` assumes of the PC).
