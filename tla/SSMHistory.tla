----------------------------- MODULE SSMHistory ------------------------------
(***************************************************************************)
(* What a sensor stream promises the callers of readSSM, without rings,    *)
(* slots or copies: data are published one after the other, a call returns *)
(* once, and it is refused or delivers a datum that is allowed by what was *)
(* published between the call and the return.                              *)
(***************************************************************************)
EXTENDS Integers

CONSTANTS Readers, Num, MaxTid

SSM_MARGIN == 1
Asked == -1 .. MaxTid + 1

VARIABLES
  published,  \* the newest published tid, -1 before the first
  client      \* client[r]: the call reader r is in, or what its last call gave

\* The tids a reader may still ask for; the oldest slot is the margin.
Readable(t) == t > published - Num + SSM_MARGIN

Init ==
  /\ published = -1
  /\ client = [r \in Readers |-> [st |-> "none"]]

Publish ==
  /\ published < MaxTid
  /\ published' = published + 1
  /\ UNCHANGED client

Call(r, t) ==
  /\ client[r].st # "calling"
  /\ client' = [client EXCEPT ![r] = [st |-> "calling", asked |-> t, since |-> published]]
  /\ UNCHANGED published

\* The latest datum is refused only when there is none, or when the writer
\* went through the ring during the call; a given tid when it was not there
\* yet at the call, or is no longer readable.
Refusable(asked, since) ==
  IF asked < 0
    THEN since < 0 \/ ~Readable(since)
    ELSE asked > since \/ ~Readable(asked)

Refuse(r) ==
  /\ client[r].st = "calling"
  /\ Refusable(client[r].asked, client[r].since)
  /\ client' = [client EXCEPT ![r] = [st |-> "refused"]]
  /\ UNCHANGED published

\* The datum delivered is the one asked for, or the one that was the latest at
\* the call; it is intact if it is still readable at the return.
Deliver(r, d, intact) ==
  /\ client[r].st = "calling"
  /\ d \in 0 .. published
  /\ d = IF client[r].asked < 0 THEN client[r].since ELSE client[r].asked
  /\ Readable(d) => intact
  /\ client' = [client EXCEPT ![r] = [st |-> "got", tid |-> d, intact |-> intact]]
  /\ UNCHANGED published

Next ==
  \/ Publish
  \/ \E r \in Readers, t \in Asked : Call(r, t)
  \/ \E r \in Readers : Refuse(r)
  \/ \E r \in Readers, d \in 0 .. MaxTid, intact \in BOOLEAN : Deliver(r, d, intact)

Spec == Init /\ [][Next]_<<published, client>>
=============================================================================
