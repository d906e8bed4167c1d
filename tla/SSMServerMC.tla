----------------------------- MODULE SSMServerMC ------------------------------
(* SSMServer for TLC: which process each client is of. c1 is a process; c2   *)
(* and c3 are threads of another one, which take turns or do not, or one is  *)
(* a later process that was given the pid of the other.                      *)
EXTENDS SSMServer

CONSTANTS c1, c2, c3

MCClients == {c1, c2, c3}
MCPids == [c \in MCClients |-> IF c = c1 THEN c1 ELSE c2]
MCCalls == [c \in MCClients |-> IF c = c1 THEN 1 ELSE IF c = c2 THEN 2 ELSE 1]
Unmixed == ~mixed
=============================================================================
