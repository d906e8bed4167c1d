----------------------------- MODULE SerialLine -----------------------------
(* The serial line between sh_spur and the motor controller, byte by byte.   *)
(* A packet is a start byte, the data in symbols of six bits, and an end     *)
(* byte; there is no length and no check sum. The controller sends four      *)
(* numbers of 16 bits, which serial_receive() of sh_spur takes; sh_spur sends*)
(* commands of six bytes, which DTC_receive() takes. Bytes that arrive       *)
(* damaged are dropped by the driver (IGNPAR) or the hardware: they are lost.*)
(* Neither receiver minds where a read() ends: a byte is a step.             *)
EXTENDS Integers, Sequences, FiniteSets

CONSTANTS
  Ends,          \* the receivers that are looked at
  Payload(_, _), \* the data of the n-th packet to one of them, 1 .. Size(e)
  MaxPackets,    \* bound: packets sent
  MaxLost        \* bound: bytes lost

Size(e) == IF e = "sh_spur" THEN 8 ELSE 6
ASSUME EndsAssumption ==
  /\ Ends \subseteq {"sh_spur", "sh_vel"}
  /\ MaxPackets \in Nat /\ MaxLost \in Nat
\* Data are bytes.
ASSUME PayloadAssumption ==
  \A e \in Ends, n \in 0 .. MaxPackets : Payload(e, n) \in [1 .. Size(e) -> 0 .. 255]

VARIABLES
  end,           \* the receiver
  packets,       \* how many were sent
  line,          \* bytes that are on the way
  com,           \* com_buf of sh_spur; what DTC_receive has decoded since STX
  data,          \* the decoded bytes, static in both
  taken,         \* history: the data that were taken
  lost           \* history: for every part of a packet, the packets that lost it

lineVars == <<end, packets, line, com, data, taken, lost>>

STX == 9
ETX == 10

-----------------------------------------------------------------------------
(* The codec. Bit j of a sequence of numbers of the given width, from the    *)
(* most significant one of the first; 0 beyond its end.                      *)
Bit(s, width, j) ==
  IF j >= width * Len(s) THEN 0
  ELSE (s[j \div width + 1] \div 2^(width - 1 - (j % width))) % 2
Value(bits, width) ==
  LET value[i \in 0..width] == IF i = 0 THEN 0 ELSE 2 * value[i - 1] + bits[i - 1]
  IN  value[width]
Number(s, from, to, width) ==
  Value([i \in 0..(width - 1) |-> Bit(s, from, to * width + i)], width)

\* Mutant: the symbol of the last bits is left out.
Encode_unpadded(src) ==
  LET symbols == (8 * Len(src)) \div 6
  IN  <<STX>> \o [k \in 1..symbols |-> 64 + Number(src, 8, k - 1, 6)] \o <<ETX>>

(* encode(), the same at both ends: four more bits make room for the last.   *)
Encode(src) ==
  LET symbols == (8 * Len(src) + 4) \div 6
  IN  <<STX>> \o [k \in 1..symbols |-> 64 + Number(src, 8, k - 1, 6)] \o <<ETX>>

Overlay(old, new, most) ==
  [i \in DOMAIN old |-> IF i <= Len(new) /\ i <= most THEN new[i] ELSE old[i]]

(* decord() writes whole bytes only, at most ten. A byte that is no symbol   *)
(* counts as the one before it, and the error that is returned is not        *)
(* looked at. Bytes that are not written keep what was decoded before.       *)
Decord(com_buf, old) ==
  LET src == SubSeq(com_buf, 2, Len(com_buf) - 1)
      Valid(i) == {k \in 1..i : src[k] >= 64}
      symbol == [i \in DOMAIN src |->
                   IF Valid(i) = {} THEN 0
                   ELSE src[CHOOSE k \in Valid(i) : \A l \in Valid(i) : l <= k] - 64]
  IN  Overlay(old, [k \in 1..((6 * Len(src)) \div 8) |-> Number(symbol, 6, k - 1, 8)], 10)

(* The states 1 to 4 of DTC_receive() decode a symbol each; a byte that is   *)
(* begun is written with zeros behind, and any byte is a symbol.             *)
DTC_decode(com_buf, old) ==
  LET symbol == [i \in 1..(Len(com_buf) - 2) |-> com_buf[i + 1] % 64]
  IN  Overlay(old, [k \in 1..((6 * Len(symbol) + 7) \div 8) |-> Number(symbol, 6, k - 1, 8)], 100)

-----------------------------------------------------------------------------
(* A receiver may start in the middle of a packet.                           *)
LineInit ==
  /\ end \in Ends /\ packets = 0
  /\ LET p == Encode(Payload(end, 0))
     IN  \E k \in 2..(Len(p) + 1) : line = SubSeq(p, k, Len(p))
  /\ com = <<>> /\ data = [i \in 1..Size(end) |-> 0]
  /\ taken = <<>>
  /\ lost = [stx |-> {}, symbols |-> <<>>, etx |-> {}]

(* odometry_send(), or parameter_set() through encode_write().               *)
Send ==
  /\ line = <<>> /\ packets < MaxPackets
  /\ packets' = packets + 1
  /\ line' = Encode(Payload(end, packets + 1))
  /\ UNCHANGED <<end, com, data, taken, lost>>

Lose ==
  /\ line # <<>> /\ packets > 0
  /\ Cardinality(lost.stx) + Len(lost.symbols) + Cardinality(lost.etx) < MaxLost
  /\ lost' = IF Head(line) = STX THEN [lost EXCEPT !.stx = @ \cup {packets}]
             ELSE IF Head(line) = ETX THEN [lost EXCEPT !.etx = @ \cup {packets}]
             ELSE [lost EXCEPT !.symbols = Append(@, packets)]
  /\ line' = Tail(line)
  /\ UNCHANGED <<end, packets, com, data, taken>>

\* Mutant: the buffer is not emptied behind a packet.
Take_kept(com_buf) ==
  LET decoded == IF end = "sh_spur" THEN Decord(com_buf, data) ELSE DTC_decode(com_buf, data)
  IN  com' = SubSeq(com_buf, 1, Len(com_buf) - 1) /\ data' = decoded /\ taken' = Append(taken, decoded)

(* The end byte has come: the data are decoded, and taken. A command without *)
(* a whole byte is not.                                                      *)
Take(com_buf) ==
  LET decoded == IF end = "sh_spur" THEN Decord(com_buf, data) ELSE DTC_decode(com_buf, data)
      command == end = "sh_spur" \/ Len(com_buf) >= 4
  IN  /\ com' = <<>> /\ data' = decoded
      /\ taken' = IF command THEN Append(taken, decoded) ELSE taken

(* Before a start byte everything is noise, behind it everything is data but *)
(* for the end byte: a second start byte too.                                *)
ReceiveByte ==
  /\ line # <<>>
  /\ line' = Tail(line)
  /\ IF com = <<>> /\ Head(line) # STX THEN UNCHANGED <<com, data, taken>>
     ELSE IF Head(line) = ETX THEN Take(Append(com, ETX))
     ELSE com' = Append(com, Head(line)) /\ UNCHANGED <<data, taken>>
  /\ UNCHANGED <<end, packets, lost>>

LineNext == Send \/ Lose \/ ReceiveByte
LineSpec == LineInit /\ [][LineNext]_lineVars

-----------------------------------------------------------------------------
Losses == Cardinality(lost.stx) + Len(lost.symbols) + Cardinality(lost.etx)
Arrived == 1 .. (IF line = <<>> THEN packets ELSE packets - 1)

(* A lost byte costs at most one packet: every other one that has been on the*)
(* line has been taken as it was sent. (When an end byte is lost two packets *)
(* become one: the first is taken, the second is the cost.)                  *)
LossIsLocal ==
  Cardinality({n \in Arrived : \A i \in DOMAIN taken : taken[i] # Payload(end, n)}) <= Losses

(* What is taken is never made up of two packets, nor twice of one, nor out  *)
(* of order: every datum that was taken is that of a packet of its own, later*)
(* than those of the data before, and as it was sent, unless a symbol of just*)
(* this packet was lost.                                                     *)
NothingInvented ==
  \E of \in [DOMAIN taken -> 1 .. packets] :
    /\ \A i, j \in DOMAIN taken : i < j => of[i] < of[j]
    /\ \A i \in DOMAIN taken :
         \/ taken[i] = Payload(end, of[i])
         \/ \E k \in DOMAIN lost.symbols : lost.symbols[k] = of[i]
=============================================================================
