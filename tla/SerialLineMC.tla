---------------------------- MODULE SerialLineMC ----------------------------
(* Data in which every bit of a byte is 0 in one packet and 1 in another.    *)
EXTENDS SerialLine

MCPayload(e, n) == [i \in 1..Size(e) |-> (85 * (n + 1) + 91 * i) % 256]
=============================================================================
