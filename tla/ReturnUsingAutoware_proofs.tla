-------------------- MODULE ReturnUsingAutoware_proofs --------------------
(* Proofs about the node of /cmd_vel: for every set of messages, any number  *)
(* of them, and any number of bodies that run at once.                       *)
EXTENDS ReturnUsingAutoware, TLAPS

-----------------------------------------------------------------------------
(* Types: where a thread can be, with the flags or the if it looks at.       *)
Types == {"none", "Cyclops", "Joy", "Autoware"}
Pcs == {"idle", "store", "check", "reset", "if", "speed", "cap", "clip",
        "steer", "zero", "divide", "load", "less"}
Names == {"twist", "joy", "max", "flag"}
Locals == [pc : Pcs, k : Int, ac : Int, pubtype : Types, flame : Int, asked : Int,
           replaced : SUBSET Names]

KRange(t) ==
  /\ thread[t].k \in 1..6
  /\ At(t, "idle") \/ At(t, "store") \/ At(t, "load") \/ At(t, "less") => thread[t].k = 1
  /\ At(t, "check") \/ At(t, "reset") => thread[t].k \in 1..3
  /\ thread[t].k = 6 => At(t, "if")
  /\ At(t, "speed") /\ thread[t].k < 5 => self.joy # <<>>

Selves == [sub_flag : [Topics -> {0, 1}], stored : SUBSET Topics, twist : Int,
           joy : {<<>>} \cup {<<m>> : m \in Joys}, max_vel : Int,
           Autoware_flag : BOOLEAN, distance_flame : Int]
Counts == [received : [Topics -> Nat], others : Nat, bodies : Nat,
           overlapped : BOOLEAN, stale : BOOLEAN]

TypeOK ==
  /\ self \in Selves
  /\ thread \in [Topics -> Locals]
  /\ count \in Counts
  /\ \A t \in Topics : KRange(t)

(* The cap: a speed that is about to be replaced is above the maximum,       *)
(* unless the maximum was replaced.                                          *)
CapSound(t) ==
  /\ thread[t].ac <= thread[t].asked \/ "max" \in thread[t].replaced
  /\ At(t, "clip") => self.max_vel < thread[t].ac \/ "max" \in thread[t].replaced

(* The ifs: as long as none of them was true, the buttons are not those of   *)
(* the ifs before, and the twist is not 0 where it divides, unless they were *)
(* replaced.                                                                 *)
NotChosen(t) ==
  self.joy # <<>> /\ ("joy" \in thread[t].replaced
                      \/ \A i \in 1..4 : i < thread[t].k => ~Chosen(i))

ChoiceSound(t) ==
  /\ At(t, "load") \/ At(t, "less") => thread[t].pubtype # "none"
  /\ At(t, "if") /\ thread[t].pubtype = "none" /\ thread[t].k > 1 => NotChosen(t)
  /\ At(t, "divide") => self.twist # 0 \/ "twist" \in thread[t].replaced

(* One body at a time has the count to itself from the test to the           *)
(* subtraction.                                                              *)
Alone == \A t, u \in Topics : InBody(t) /\ InBody(u) => t = u

FlameSound ==
  /\ self.distance_flame >= 0
  /\ \A t \in Topics :
       /\ At(t, "less") => thread[t].flame > 0
       /\ At(t, "load") \/ (thread[t].k = 1 /\ (At(t, "zero") \/ At(t, "divide")))
            => self.distance_flame > 0

(* A flag that is up, and that no body is about to reset, stands for a       *)
(* message that no body has had; a thread that has read a flag finds it up.  *)
Resets(t, i) == At(t, "reset") /\ thread[t].k <= i

FlagsSound ==
  /\ \A i \in 1..3 :
       /\ count.bodies <= count.received[Order[i]]
       /\ (\A t \in Topics : ~Resets(t, i)) =>
            count.bodies + self.sub_flag[Order[i]] <= count.received[Order[i]]
  /\ \A t \in Topics : At(t, "check") =>
       \A i \in 1..3 : i < thread[t].k =>
         self.sub_flag[Order[i]] = 1 \/ "flag" \in thread[t].replaced

IInv ==
  /\ TypeOK
  /\ \A t \in Topics : CapSound(t) /\ ChoiceSound(t)
  /\ count.overlapped \/ (Alone /\ FlameSound)
  /\ count.overlapped \/ count.stale \/ FlagsSound

-----------------------------------------------------------------------------
(* The three topics, and the flag that each of them has.                     *)
LEMMA TheTopics ==
  /\ Topics = {"CNN", "twist", "distance"}
  /\ Order[1] = "CNN" /\ Order[2] = "twist" /\ Order[3] = "distance"
  /\ \A t \in Topics : \E i \in 1..3 : t = Order[i]
  /\ \A i, j \in 1..3 : Order[i] = Order[j] => i = j
<1>1. Order[1] = "CNN" /\ Order[2] = "twist" /\ Order[3] = "distance"
  BY DEF Order
<1>2. 1..3 = {1, 2, 3}
  OBVIOUS
<1> QED
  BY <1>1, <1>2 DEF Topics

(* A thread that notes a replaced attribute stays where it is.               *)
Kept(old, new) ==
  /\ new \in Locals
  /\ new.pc = old.pc /\ new.k = old.k /\ new.ac = old.ac /\ new.asked = old.asked
  /\ new.pubtype = old.pubtype /\ new.flame = old.flame
  /\ old.replaced \subseteq new.replaced

LEMMA Noting ==
  ASSUME TypeOK, NEW u \in Topics
  PROVE  /\ Kept(thread[u], thread[u])
         /\ \A name \in Names : Kept(thread[u], [thread[u] EXCEPT !.replaced = @ \cup {name}])
<1>1. thread[u] \in Locals
  BY DEF TypeOK
<1> QED
  BY <1>1 DEF Kept, Locals

LEMMA NotedKeeps ==
  ASSUME TypeOK, NEW name \in {"CNN", "twist", "distance", "joy", "max"}, NEW u \in Topics
  PROVE  /\ Kept(thread[u], Noted(name)[u])
         /\ InBody(u) /\ name \in {"twist", "joy", "max"} => name \in Noted(name)[u].replaced
<1>1. thread[u] \in Locals
  BY DEF TypeOK
<1>2. Noted(name)[u] = IF InBody(u) /\ name \in {"twist", "joy", "max"}
                       THEN [thread[u] EXCEPT !.replaced = @ \cup {name}] ELSE thread[u]
  BY DEF Noted
<1>3. CASE InBody(u) /\ name \in {"twist", "joy", "max"}
  <2>1. name \in Names
    BY <1>3 DEF Names
  <2>2. [thread[u] EXCEPT !.replaced = @ \cup {name}].replaced = thread[u].replaced \cup {name}
    BY <1>1 DEF Locals
  <2> QED
    BY <1>2, <1>3, <2>1, <2>2, Noting
<1>4. CASE ~(InBody(u) /\ name \in {"twist", "joy", "max"})
  BY <1>2, <1>4, Noting
<1> QED
  BY <1>3, <1>4

LEMMA NotedFlagKeeps ==
  ASSUME TypeOK, NEW k \in 1..3, NEW u \in Topics
  PROVE  /\ Kept(thread[u], NotedFlag(k)[u])
         /\ At(u, "check") /\ k < thread[u].k => "flag" \in NotedFlag(k)[u].replaced
<1>1. thread[u] \in Locals
  BY DEF TypeOK
<1>2. NotedFlag(k)[u] = IF At(u, "check") /\ k < thread[u].k
                        THEN [thread[u] EXCEPT !.replaced = @ \cup {"flag"}] ELSE thread[u]
  BY DEF NotedFlag
<1>3. CASE At(u, "check") /\ k < thread[u].k
  <2>1. "flag" \in Names
    BY DEF Names
  <2>2. [thread[u] EXCEPT !.replaced = @ \cup {"flag"}].replaced = thread[u].replaced \cup {"flag"}
    BY <1>1 DEF Locals
  <2> QED
    BY <1>2, <1>3, <2>1, <2>2, Noting
<1>4. CASE ~(At(u, "check") /\ k < thread[u].k)
  BY <1>2, <1>4, Noting
<1> QED
  BY <1>3, <1>4

(* Locals with these values, and the forms that assignments to them take.    *)
Has(r, pc, k, ac, asked, by, flame, replaced) ==
  /\ r \in Locals
  /\ r.pc = pc /\ r.k = k /\ r.ac = ac /\ r.asked = asked
  /\ r.pubtype = by /\ r.flame = flame /\ r.replaced = replaced

LEMMA Assign ==
  ASSUME NEW r \in Locals
  PROVE  /\ \A v \in Pcs : Has([r EXCEPT !.pc = v],
              v, r.k, r.ac, r.asked, r.pubtype, r.flame, r.replaced)
         /\ \A v \in Int : Has([r EXCEPT !.k = v],
              r.pc, v, r.ac, r.asked, r.pubtype, r.flame, r.replaced)
         /\ \A v \in Int : Has([r EXCEPT !.ac = v],
              r.pc, r.k, v, r.asked, r.pubtype, r.flame, r.replaced)
         /\ \A v \in Int : Has([r EXCEPT !.asked = v],
              r.pc, r.k, r.ac, v, r.pubtype, r.flame, r.replaced)
         /\ \A v \in Types : Has([r EXCEPT !.pubtype = v],
              r.pc, r.k, r.ac, r.asked, v, r.flame, r.replaced)
         /\ \A v \in Int : Has([r EXCEPT !.flame = v],
              r.pc, r.k, r.ac, r.asked, r.pubtype, v, r.replaced)
<1>1. ASSUME NEW v \in Pcs
      PROVE  Has([r EXCEPT !.pc = v], v, r.k, r.ac, r.asked, r.pubtype, r.flame, r.replaced)
  BY DEF Has, Locals
<1>2. ASSUME NEW v \in Int
      PROVE  /\ Has([r EXCEPT !.k = v], r.pc, v, r.ac, r.asked, r.pubtype, r.flame, r.replaced)
             /\ Has([r EXCEPT !.ac = v], r.pc, r.k, v, r.asked, r.pubtype, r.flame, r.replaced)
             /\ Has([r EXCEPT !.asked = v], r.pc, r.k, r.ac, v, r.pubtype, r.flame, r.replaced)
             /\ Has([r EXCEPT !.flame = v], r.pc, r.k, r.ac, r.asked, r.pubtype, v, r.replaced)
  BY DEF Has, Locals
<1>3. ASSUME NEW v \in Types
      PROVE  Has([r EXCEPT !.pubtype = v], r.pc, r.k, r.ac, r.asked, v, r.flame, r.replaced)
  BY DEF Has, Locals
<1> QED
  BY <1>1, <1>2, <1>3

LEMMA AssignTwo ==
  ASSUME NEW r \in Locals, NEW pc \in Pcs
  PROVE  /\ \A k \in Int : Has([r EXCEPT !.pc = pc, !.k = k],
              pc, k, r.ac, r.asked, r.pubtype, r.flame, r.replaced)
         /\ \A x \in Int : Has([r EXCEPT !.pc = pc, !.ac = x],
              pc, r.k, x, r.asked, r.pubtype, r.flame, r.replaced)
         /\ \A by \in Types : Has([r EXCEPT !.pc = pc, !.pubtype = by],
              pc, r.k, r.ac, r.asked, by, r.flame, r.replaced)
         /\ \A x \in Int : Has([r EXCEPT !.pc = pc, !.flame = x],
              pc, r.k, r.ac, r.asked, r.pubtype, x, r.replaced)
<1> DEFINE m == [r EXCEPT !.pc = pc]
<1>1. Has(m, pc, r.k, r.ac, r.asked, r.pubtype, r.flame, r.replaced)
  BY Assign, Zenon
<1> HIDE DEF m
<1>2. ASSUME NEW x \in Int
      PROVE  /\ Has([m EXCEPT !.k = x], m.pc, x, m.ac, m.asked, m.pubtype, m.flame, m.replaced)
             /\ Has([m EXCEPT !.ac = x], m.pc, m.k, x, m.asked, m.pubtype, m.flame, m.replaced)
             /\ Has([m EXCEPT !.flame = x], m.pc, m.k, m.ac, m.asked, m.pubtype, x, m.replaced)
  BY <1>1, Assign, ZenonT(60) DEF Has
<1>3. ASSUME NEW by \in Types
      PROVE  Has([m EXCEPT !.pubtype = by], m.pc, m.k, m.ac, m.asked, by, m.flame, m.replaced)
  BY <1>1, Assign, Zenon DEF Has
<1>4. /\ m.pc = pc /\ m.k = r.k /\ m.ac = r.ac /\ m.asked = r.asked
      /\ m.pubtype = r.pubtype /\ m.flame = r.flame /\ m.replaced = r.replaced
  BY <1>1, Zenon DEF Has
<1> QED
  BY <1>2, <1>3, <1>4, Zenon DEF m

LEMMA AssignThree ==
  ASSUME NEW r \in Locals, NEW pc \in Pcs
  PROVE  /\ \A k \in Int, by \in Types :
              Has([r EXCEPT !.pc = pc, !.k = k, !.pubtype = by],
                  pc, k, r.ac, r.asked, by, r.flame, r.replaced)
         /\ \A x \in Int : Has([r EXCEPT !.pc = pc, !.ac = x, !.asked = x],
              pc, r.k, x, x, r.pubtype, r.flame, r.replaced)
<1>1. ASSUME NEW k \in Int, NEW by \in Types
      PROVE  Has([r EXCEPT !.pc = pc, !.k = k, !.pubtype = by],
                 pc, k, r.ac, r.asked, by, r.flame, r.replaced)
  <2> DEFINE n == [r EXCEPT !.pc = pc, !.k = k]
  <2>1. Has(n, pc, k, r.ac, r.asked, r.pubtype, r.flame, r.replaced)
    BY AssignTwo, Zenon
  <2> HIDE DEF n
  <2>2. Has([n EXCEPT !.pubtype = by], n.pc, n.k, n.ac, n.asked, by, n.flame, n.replaced)
    BY <2>1, Assign, Zenon DEF Has
  <2>3. Has([n EXCEPT !.pubtype = by], pc, k, r.ac, r.asked, by, r.flame, r.replaced)
    BY <2>1, <2>2, Zenon DEF Has
  <2> QED
    BY <2>3, Zenon DEF n
<1>2. ASSUME NEW x \in Int
      PROVE  Has([r EXCEPT !.pc = pc, !.ac = x, !.asked = x],
                 pc, r.k, x, x, r.pubtype, r.flame, r.replaced)
  <2> DEFINE n == [r EXCEPT !.pc = pc, !.ac = x]
  <2>1. Has(n, pc, r.k, x, r.asked, r.pubtype, r.flame, r.replaced)
    BY AssignTwo, Zenon
  <2> HIDE DEF n
  <2>2. Has([n EXCEPT !.asked = x], n.pc, n.k, n.ac, x, n.pubtype, n.flame, n.replaced)
    BY <2>1, Assign, Zenon DEF Has
  <2>3. Has([n EXCEPT !.asked = x], pc, r.k, x, x, r.pubtype, r.flame, r.replaced)
    BY <2>1, <2>2, Zenon DEF Has
  <2> QED
    BY <2>3, Zenon DEF n
<1> QED
  BY <1>1, <1>2

LEMMA IdleHas == Has(Idle, "idle", 1, 0, 0, "none", 0, {})
BY DEF Has, Idle, Locals, Pcs, Types

(* What a thread has after a step of its own: stopped, elsewhere in the body *)
(* with the same locals, or with others. What it noted stays.                *)
Stops(t) == Has(thread'[t], "idle", 1, 0, 0, "none", 0, {})
Goes(t, pc, k, ac, asked, by, flame) ==
  Has(thread'[t], pc, k, ac, asked, by, flame, thread[t].replaced)
Jumps(t, pc, k) ==
  Goes(t, pc, k, thread[t].ac, thread[t].asked, thread[t].pubtype, thread[t].flame)

LEMMA Stepping ==
  ASSUME TypeOK, NEW t \in Topics
  PROVE  /\ thread[t] \in Locals /\ KRange(t) /\ thread[t].k \in 1..6
         /\ thread[t].k + 1 \in Int /\ thread[t].k \in Int
         /\ \A new : Step(t, new) => thread'[t] = new
         /\ thread'[t] = Idle => Stops(t)
         /\ \A pc \in Pcs : thread'[t] = Go(t, pc) => Jumps(t, pc, thread[t].k)
         /\ thread'[t] = NextIf(t) => Jumps(t, "if", thread[t].k + 1)
<1>1. thread[t] \in Locals /\ KRange(t) /\ thread[t].k \in 1..6
  BY DEF TypeOK, KRange
<1>2. thread[t].k + 1 \in Int /\ thread[t].k \in Int
  BY <1>1
<1>3. \A new : Step(t, new) => thread'[t] = new
  BY DEF TypeOK, Step
<1>4. thread'[t] = Idle => Stops(t)
  BY IdleHas, Zenon DEF Stops
<1>5. ASSUME NEW pc \in Pcs, thread'[t] = Go(t, pc) PROVE Jumps(t, pc, thread[t].k)
  BY <1>1, <1>5, Assign, Zenon DEF Go, Jumps, Goes
<1>6. "if" \in Pcs /\ "none" \in Types /\ 0 \in Int
  BY DEF Pcs, Types
<1>7. thread'[t] = NextIf(t) => Jumps(t, "if", thread[t].k + 1)
  <2>1. Has([thread[t] EXCEPT !.pc = "if", !.k = thread[t].k + 1],
            "if", thread[t].k + 1, thread[t].ac, thread[t].asked, thread[t].pubtype,
            thread[t].flame, thread[t].replaced)
    BY <1>1, <1>2, <1>6, AssignTwo, Zenon
  <2>2. NextIf(t) = [thread[t] EXCEPT !.pc = "if", !.k = thread[t].k + 1]
    BY DEF NextIf
  <2> QED
    BY <2>1, <2>2, Zenon DEF Jumps, Goes
<1> QED
  BY <1>1, <1>2, <1>3, <1>4, <1>5, <1>7, Zenon

(* The flags: the message, and the reset.                                    *)
LEMMA OwnFlags ==
  ASSUME TypeOK, NEW t \in Topics
  PROVE  /\ Callback(t) => At(t, "idle") /\ Jumps(t, "store", thread[t].k)
         /\ Store(t) => At(t, "store") /\ Jumps(t, "check", thread[t].k)
         /\ Reset(t) => /\ At(t, "reset")
                        /\ \/ thread[t].k < 3 /\ Jumps(t, "reset", thread[t].k + 1)
                           \/ thread[t].k = 3 /\ Jumps(t, "if", 1)
<1> DEFINE r == thread[t]
<1>1. {"store", "check", "reset", "if"} \subseteq Pcs /\ "none" \in Types
  BY DEF Pcs, Types
<1>2. ASSUME Callback(t) PROVE At(t, "idle") /\ Jumps(t, "store", r.k)
  <2>1. At(t, "idle") /\ Step(t, Go(t, "store"))
    BY <1>2 DEF Callback
  <2> QED
    BY <1>1, <2>1, Stepping, Zenon
<1>3. ASSUME Store(t) PROVE At(t, "store") /\ Jumps(t, "check", r.k)
  <2>1. At(t, "store") /\ thread'[t] = Go(t, "check")
    BY <1>3 DEF Store, Noted
  <2> QED
    BY <1>1, <2>1, Stepping, Zenon
<1>4. ASSUME At(t, "check") \/ At(t, "reset") PROVE r.k \in 1..3
  <2>1. KRange(t)
    BY Stepping, Zenon
  <2> QED
    BY <1>4, <2>1 DEF KRange
<1>5. \A k \in Int : thread'[t] = [r EXCEPT !.k = k] => Jumps(t, r.pc, k)
  BY Stepping, Assign, Zenon DEF Jumps, Goes
<1>6. \A pc \in Pcs : thread'[t] = [r EXCEPT !.pc = pc, !.k = 1] => Jumps(t, pc, 1)
  <2>1. 1 \in Int
    OBVIOUS
  <2> QED
    <3>1. ASSUME NEW pc \in Pcs
          PROVE  Has([r EXCEPT !.pc = pc, !.k = 1],
                     pc, 1, r.ac, r.asked, r.pubtype, r.flame, r.replaced)
      BY <2>1, Stepping, AssignTwo, Zenon
    <3> QED
      BY <3>1, Zenon DEF Jumps, Goes
<1>8. ASSUME Reset(t)
      PROVE  /\ At(t, "reset")
             /\ \/ r.k < 3 /\ Jumps(t, "reset", r.k + 1)
                \/ r.k = 3 /\ Jumps(t, "if", 1)
  <2>1. /\ At(t, "reset")
        /\ \/ r.k < 3 /\ thread'[t] = [r EXCEPT !.k = r.k + 1]
           \/ ~(r.k < 3) /\ thread'[t] = [r EXCEPT !.pc = "if", !.k = 1]
    BY <1>8 DEF Reset, NotedFlag
  <2>2. ~(r.k < 3) => r.k = 3
    BY <1>4, <2>1
  <2> QED
    BY <1>1, <1>5, <1>6, <2>1, <2>2, Stepping, Zenon DEF At
<1> QED
  BY <1>2, <1>3, <1>8

(* The test: the thread gives up, goes on to the next flag, or begins a      *)
(* body, and the count knows of it.                                          *)
Begins(t) ==
  /\ thread[t].k = 3 /\ Jumps(t, "reset", 1)
  /\ count'.bodies = count.bodies + 1 /\ count'.received = count.received
  /\ count'.overlapped <=> count.overlapped \/ \E u \in Topics : InBody(u)
  /\ count'.stale <=> count.stale \/ "flag" \in thread[t].replaced

LEMMA Checking ==
  ASSUME TypeOK, NEW t \in Topics, Check(t)
  PROVE  /\ At(t, "check") /\ count' \in Counts
         /\ \/ Stops(t) /\ count' = count
            \/ /\ self.sub_flag[Order[thread[t].k]] = 1
               /\ \/ /\ thread[t].k < 3 /\ count' = count
                     /\ Jumps(t, "check", thread[t].k + 1)
                  \/ Begins(t)
<1> DEFINE r == thread[t]
           over == count.overlapped \/ \E u \in Topics : InBody(u)
           late == count.stale \/ "flag" \in thread[t].replaced
<1>1. At(t, "check")
  BY DEF Check
<1>2. r.k \in 1..3
  BY <1>1 DEF TypeOK, KRange
<1>3. \/ Step(t, Idle) /\ count' = count
      \/ /\ self.sub_flag[Order[r.k]] = 1
         /\ \/ r.k < 3 /\ Step(t, [r EXCEPT !.k = r.k + 1]) /\ count' = count
            \/ /\ ~(r.k < 3) /\ Step(t, [r EXCEPT !.pc = "reset", !.k = 1])
               /\ count' = [count EXCEPT !.bodies = count.bodies + 1, !.overlapped = over,
                                         !.stale = late]
  BY Zenon DEF Check
<1>4. CASE Step(t, Idle) /\ count' = count
  BY <1>1, <1>4, Stepping, Zenon DEF TypeOK
<1>5. CASE /\ self.sub_flag[Order[r.k]] = 1 /\ r.k < 3
           /\ Step(t, [r EXCEPT !.k = r.k + 1]) /\ count' = count
  <2>1. Has([r EXCEPT !.k = r.k + 1],
            r.pc, r.k + 1, r.ac, r.asked, r.pubtype, r.flame, r.replaced)
    BY Stepping, Assign, Zenon
  <2>2. Jumps(t, "check", r.k + 1)
    BY <1>1, <1>5, <2>1, Stepping, Zenon DEF At, Jumps, Goes
  <2> QED
    BY <1>1, <1>5, <2>2, Zenon DEF TypeOK
<1>6. CASE /\ self.sub_flag[Order[r.k]] = 1 /\ ~(r.k < 3)
           /\ Step(t, [r EXCEPT !.pc = "reset", !.k = 1])
           /\ count' = [count EXCEPT !.bodies = count.bodies + 1, !.overlapped = over,
                                     !.stale = late]
  <2>1. r.k = 3 /\ 1 \in Int /\ "reset" \in Pcs
    BY <1>2, <1>6 DEF Pcs
  <2>2. Has([r EXCEPT !.pc = "reset", !.k = 1],
            "reset", 1, r.ac, r.asked, r.pubtype, r.flame, r.replaced)
    BY <2>1, Stepping, AssignTwo, Zenon
  <2>3. Jumps(t, "reset", 1)
    BY <1>6, <2>2, Stepping, Zenon DEF Jumps, Goes
  <2>4. over \in BOOLEAN /\ late \in BOOLEAN
    BY DEF TypeOK, Counts
  <2> HIDE DEF over, late
  <2>5. PICK c : c = [count EXCEPT !.bodies = count.bodies + 1]
    OBVIOUS
  <2>6. c \in Counts /\ c.bodies = count.bodies + 1 /\ c.received = count.received
    BY <2>5 DEF TypeOK, Counts
  <2>7. PICK d : d = [c EXCEPT !.overlapped = over]
    OBVIOUS
  <2>8. /\ d \in Counts /\ d.bodies = c.bodies /\ d.received = c.received
        /\ d.overlapped = over
    BY <2>4, <2>6, <2>7 DEF Counts
  <2>9. count' = [d EXCEPT !.stale = late]
    BY <1>6, <2>5, <2>7, Zenon
  <2>10. /\ count' \in Counts /\ count'.bodies = d.bodies /\ count'.received = d.received
         /\ count'.overlapped = d.overlapped /\ count'.stale = late
    BY <2>4, <2>8, <2>9 DEF Counts
  <2>11. Begins(t)
    BY <2>1, <2>3, <2>6, <2>8, <2>10, Zenon DEF Begins, over, late
  <2> QED
    BY <1>1, <1>6, <2>10, <2>11, Zenon
<1> QED
  BY <1>3, <1>4, <1>5, <1>6

(* The ifs, and the command they end with.                                   *)
LEMMA OwnIfs ==
  ASSUME TypeOK, NEW t \in Topics
  PROVE  /\ If(t) => /\ At(t, "if") /\ thread[t].k < 6
                     /\ \/ Stops(t)
                        \/ /\ thread[t].k < 5 => self.joy # <<>>
                           /\ IF Chosen(thread[t].k) THEN Jumps(t, "speed", thread[t].k)
                              ELSE Jumps(t, "if", thread[t].k + 1)
         /\ Publish(t) => Stops(t)
<1>1. "speed" \in Pcs
  BY DEF Pcs
<1>2. ASSUME If(t)
      PROVE  /\ At(t, "if") /\ thread[t].k < 6
             /\ \/ Stops(t)
                \/ /\ thread[t].k < 5 => self.joy # <<>>
                   /\ IF Chosen(thread[t].k) THEN Jumps(t, "speed", thread[t].k)
                      ELSE Jumps(t, "if", thread[t].k + 1)
  BY <1>1, <1>2, Stepping, Zenon DEF If
<1>3. ASSUME Publish(t) PROVE Stops(t)
  BY <1>3, Stepping, Zenon DEF Publish
<1> QED
  BY <1>2, <1>3

(* The speed asked for, and its cap.                                         *)
LEMMA OwnCap ==
  ASSUME TypeOK, NEW t \in Topics
  PROVE  /\ Speed(t) => /\ At(t, "speed")
                        /\ \/ Stops(t)
                           \/ \E x \in Int :
                                Goes(t, "cap", thread[t].k, x, x, thread[t].pubtype, thread[t].flame)
         /\ Cap(t) => /\ At(t, "cap")
                      /\ IF self.max_vel < thread[t].ac THEN Jumps(t, "clip", thread[t].k)
                         ELSE Jumps(t, "steer", thread[t].k)
         /\ Clip(t) => /\ At(t, "clip")
                       /\ Goes(t, "steer", thread[t].k, self.max_vel, thread[t].asked,
                               thread[t].pubtype, thread[t].flame)
<1> DEFINE r == thread[t]
<1>1. {"cap", "clip", "steer"} \subseteq Pcs /\ "none" \in Types /\ 0 \in Int
  BY DEF Pcs, Types
<1>2. /\ self.joy \in {<<>>} \cup {<<m>> : m \in Joys}
      /\ self.twist \in Int /\ self.max_vel \in Int
  BY DEF TypeOK, Selves
<1>3. ASSUME Speed(t)
      PROVE  /\ At(t, "speed")
             /\ \/ Stops(t)
                \/ \E x \in Int : Goes(t, "cap", r.k, x, x, r.pubtype, r.flame)
  <2> DEFINE x == IF r.k = 4 THEN Head(self.joy).x ELSE self.twist
  <2>1. /\ At(t, "speed")
        /\ \/ Step(t, Idle)
           \/ Step(t, [r EXCEPT !.pc = "cap", !.ac = x, !.asked = x])
    BY <1>3 DEF Speed
  <2>2. x \in Int
    <3>1. CASE r.k = 4
      <4> KRange(t)
        BY Stepping, Zenon
      <4>1. self.joy # <<>>
        BY <2>1, <3>1 DEF KRange
      <4>2. PICK m \in Joys : self.joy = <<m>>
        BY <1>2, <4>1
      <4>3. m.x \in Int
        BY FlameAssumption
      <4> QED
        BY <3>1, <4>2, <4>3
    <3> QED
      BY <1>2, <3>1
  <2> HIDE DEF x
  <2>3. thread'[t] = [r EXCEPT !.pc = "cap", !.ac = x, !.asked = x] =>
          Goes(t, "cap", r.k, x, x, r.pubtype, r.flame)
    <3>1. Has([r EXCEPT !.pc = "cap", !.ac = x, !.asked = x],
              "cap", r.k, x, x, r.pubtype, r.flame, r.replaced)
      BY <1>1, <2>2, Stepping, AssignThree, Zenon
    <3> QED
      BY <3>1, Zenon DEF Goes
  <2> QED
    BY <2>1, <2>2, <2>3, Stepping, Zenon
<1>4. ASSUME Cap(t)
      PROVE  /\ At(t, "cap")
             /\ IF self.max_vel < r.ac THEN Jumps(t, "clip", r.k) ELSE Jumps(t, "steer", r.k)
  <2>1. /\ At(t, "cap")
        /\ Step(t, Go(t, IF self.max_vel < r.ac THEN "clip" ELSE "steer"))
    BY <1>4 DEF Cap
  <2> QED
    BY <1>1, <2>1, Stepping, Zenon
<1>5. ASSUME Clip(t)
      PROVE  At(t, "clip") /\ Goes(t, "steer", r.k, self.max_vel, r.asked, r.pubtype, r.flame)
  <2>1. At(t, "clip") /\ thread'[t] = [r EXCEPT !.pc = "steer", !.ac = self.max_vel]
    BY <1>5, Stepping, Zenon DEF Clip, Go
  <2>2. Has([r EXCEPT !.pc = "steer", !.ac = self.max_vel],
            "steer", r.k, self.max_vel, r.asked, r.pubtype, r.flame, r.replaced)
    BY <1>1, <1>2, Stepping, AssignTwo, Zenon
  <2> QED
    BY <2>1, <2>2, Zenon DEF Goes
<1> QED
  BY <1>3, <1>4, <1>5

(* Who steers: at the if for no button, Autoware only while the count runs.  *)
LEMMA OwnSteer ==
  ASSUME TypeOK, NEW t \in Topics, Steer(t)
  PROVE  /\ At(t, "steer")
         /\ \/ Stops(t)
            \/ \E by \in Types \ {"none"} :
                 Goes(t, "if", thread[t].k + 1, thread[t].ac, thread[t].asked, by, thread[t].flame)
            \/ /\ thread[t].k = 1 => self.distance_flame # 0
               /\ Jumps(t, "zero", thread[t].k)
<1> DEFINE r == thread[t]
           who(by) == [r EXCEPT !.pc = "if", !.k = r.k + 1, !.pubtype = by]
<1>1. "if" \in Pcs /\ "zero" \in Pcs /\ {"Cyclops", "Joy"} \subseteq Types \ {"none"}
  BY DEF Pcs, Types
<1>2. At(t, "steer")
  BY DEF Steer
<1>3. \/ thread'[t] = Idle
      \/ \E by \in {"Cyclops", "Joy"} : thread'[t] = who(by)
      \/ (r.k = 1 => self.distance_flame # 0) /\ thread'[t] = Go(t, "zero")
  BY Stepping, Zenon DEF Steer, NextIf
<1>4. ASSUME NEW by \in {"Cyclops", "Joy"}, thread'[t] = who(by)
      PROVE  Goes(t, "if", r.k + 1, r.ac, r.asked, by, r.flame)
  <2>1. by \in Types
    BY <1>1
  <2>2. Has(who(by), "if", r.k + 1, r.ac, r.asked, by, r.flame, r.replaced)
    BY <1>1, <2>1, Stepping, AssignThree, Zenon
  <2> QED
    BY <1>4, <2>2, Zenon DEF Goes
<1> HIDE DEF who
<1> QED
  BY <1>1, <1>2, <1>3, <1>4, Stepping, Zenon

(* The division by the twist, and the count.                                 *)
LEMMA OwnDivision ==
  ASSUME TypeOK, NEW t \in Topics
  PROVE  LET r == thread[t]
             by == "Autoware"
             Steers == IF r.k = 1 THEN Goes(t, "load", r.k, r.ac, r.asked, by, r.flame)
                       ELSE Goes(t, "if", r.k + 1, r.ac, r.asked, by, r.flame)
         IN  /\ Zero(t) => /\ At(t, "zero")
                           /\ IF self.twist # 0 THEN Jumps(t, "divide", r.k) ELSE Steers
             /\ Divide(t) => At(t, "divide") /\ (Stops(t) \/ Steers)
             /\ Load(t) => /\ At(t, "load")
                           /\ Goes(t, "less", r.k, r.ac, r.asked, r.pubtype, self.distance_flame)
             /\ Less(t) => At(t, "less") /\ Jumps(t, "if", r.k + 1)
<1> DEFINE r == thread[t]
           by == "Autoware"
           Steers == IF r.k = 1 THEN Goes(t, "load", r.k, r.ac, r.asked, by, r.flame)
                     ELSE Goes(t, "if", r.k + 1, r.ac, r.asked, by, r.flame)
<1>1. {"if", "divide", "load", "less"} \subseteq Pcs /\ by \in Types
  BY DEF Pcs, Types
<1>2. self.distance_flame \in Int
  BY DEF TypeOK, Selves
<1>3. ASSUME thread'[t] = ByAutoware(t) PROVE Steers
  <2>1. Has([r EXCEPT !.pc = "load", !.pubtype = by],
            "load", r.k, r.ac, r.asked, by, r.flame, r.replaced)
    BY <1>1, Stepping, AssignTwo, Zenon
  <2>2. Has([r EXCEPT !.pc = "if", !.k = r.k + 1, !.pubtype = by],
            "if", r.k + 1, r.ac, r.asked, by, r.flame, r.replaced)
    BY <1>1, Stepping, AssignThree, Zenon
  <2>3. ByAutoware(t) = IF r.k = 1 THEN [r EXCEPT !.pc = "load", !.pubtype = by]
                        ELSE [r EXCEPT !.pc = "if", !.k = r.k + 1, !.pubtype = by]
    BY DEF ByAutoware, Go, NextIf
  <2> QED
    BY <1>3, <2>1, <2>2, <2>3, Zenon DEF Goes
<1> HIDE DEF Steers
<1>4. ASSUME Zero(t)
      PROVE  At(t, "zero") /\ (IF self.twist # 0 THEN Jumps(t, "divide", r.k) ELSE Steers)
  BY <1>1, <1>3, <1>4, Stepping, Zenon DEF Zero
<1>5. ASSUME Divide(t) PROVE At(t, "divide") /\ (Stops(t) \/ Steers)
  BY <1>3, <1>5, Stepping, Zenon DEF Divide
<1>6. ASSUME Load(t)
      PROVE  At(t, "load") /\ Goes(t, "less", r.k, r.ac, r.asked, r.pubtype, self.distance_flame)
  <2>1. At(t, "load") /\ thread'[t] = [r EXCEPT !.pc = "less", !.flame = self.distance_flame]
    BY <1>6, Stepping, Zenon DEF Load, Go
  <2>2. Has([r EXCEPT !.pc = "less", !.flame = self.distance_flame],
            "less", r.k, r.ac, r.asked, r.pubtype, self.distance_flame, r.replaced)
    BY <1>1, <1>2, Stepping, AssignTwo, Zenon
  <2> QED
    BY <2>1, <2>2, Zenon DEF Goes
<1>7. ASSUME Less(t) PROVE At(t, "less") /\ Jumps(t, "if", r.k + 1)
  BY <1>7, Stepping, Zenon DEF Less
<1> QED
  BY <1>4, <1>5, <1>6, <1>7, Zenon DEF Steers

(* What a step of a thread does to the others.                               *)
LEMMA Others ==
  ASSUME TypeOK, NEW t \in Topics, NEW u \in Topics, u # t,
         Callback(t) \/ Store(t) \/ Run(t)
  PROVE  Kept(thread[u], thread'[u])
<1>1. \A new : Step(t, new) => thread'[u] = thread[u]
  BY DEF TypeOK, Step
<1>2. thread'[u] = thread[u] => Kept(thread[u], thread'[u])
  BY Noting, Zenon
<1>3. CASE Store(t)
  <2>1. thread'[u] = Noted(t)[u]
    BY <1>3 DEF Store, Noted
  <2>2. t \in {"CNN", "twist", "distance", "joy", "max"}
    BY TheTopics
  <2> QED
    BY <2>1, <2>2, NotedKeeps, Zenon
<1>4. CASE Reset(t)
  <2>1. thread'[u] = NotedFlag(thread[t].k)[u]
    BY <1>4 DEF Reset, NotedFlag
  <2>2. thread[t].k \in 1..3
    BY <1>4 DEF TypeOK, KRange, Reset
  <2> QED
    BY <2>1, <2>2, NotedFlagKeeps, Zenon
<1>5. CASE Callback(t) \/ Check(t) \/ If(t) \/ Speed(t) \/ Cap(t) \/ Clip(t)
           \/ Steer(t) \/ Zero(t) \/ Divide(t) \/ Load(t) \/ Less(t) \/ Publish(t)
  BY <1>1, <1>2, <1>5, Zenon DEF Callback, Check, If, Speed, Cap, Clip, Steer, Zero, Divide,
     Load, Less, Publish
<1> QED
  BY <1>3, <1>4, <1>5 DEF Run

(* What a step of a thread does to the attributes.                           *)
LEMMA Attributes ==
  ASSUME TypeOK, NEW t \in Topics
  PROVE  LET Same == self'.joy = self.joy /\ self'.max_vel = self.max_vel
         IN  /\ Callback(t) =>
                  /\ Same /\ self'.twist = self.twist
                  /\ self'.distance_flame = self.distance_flame
                  /\ self'.sub_flag = [self.sub_flag EXCEPT ![t] = 1]
             /\ Store(t) =>
                  /\ Same /\ self'.sub_flag = self.sub_flag
                  /\ self'.twist = self.twist \/ t = "twist"
                  /\ self'.distance_flame \in {Flame, self.distance_flame}
             /\ Reset(t) =>
                  /\ Same /\ self'.twist = self.twist
                  /\ self'.distance_flame = self.distance_flame
                  /\ self'.sub_flag = [self.sub_flag EXCEPT ![Order[thread[t].k]] = 0]
             /\ Less(t) =>
                  /\ Same /\ self'.twist = self.twist /\ self'.sub_flag = self.sub_flag
                  /\ self'.distance_flame = thread[t].flame - 1
             /\ Run(t) /\ ~Reset(t) /\ ~Less(t) => self' = self
             /\ Callback(t) \/ Store(t) \/ Run(t) => self' \in Selves
<1> DEFINE Same == self'.joy = self.joy /\ self'.max_vel = self.max_vel
<1>1. self \in Selves
  BY DEF TypeOK
<1>2. ASSUME Callback(t)
      PROVE  /\ Same /\ self'.twist = self.twist
             /\ self'.distance_flame = self.distance_flame
             /\ self'.sub_flag = [self.sub_flag EXCEPT ![t] = 1]
             /\ self' \in Selves
  <2>1. self' = [self EXCEPT !.sub_flag = [self.sub_flag EXCEPT ![t] = 1]]
    BY <1>2 DEF Callback
  <2>2. [self.sub_flag EXCEPT ![t] = 1] \in [Topics -> {0, 1}]
    BY <1>1 DEF Selves
  <2> QED
    BY <1>1, <2>1, <2>2 DEF Selves
<1>3. ASSUME Store(t)
      PROVE  /\ Same /\ self'.sub_flag = self.sub_flag
             /\ self'.twist = self.twist \/ t = "twist"
             /\ self'.distance_flame \in {Flame, self.distance_flame}
             /\ self' \in Selves
  <2>1. PICK s : s = [self EXCEPT !.stored = @ \cup {t}]
    OBVIOUS
  <2>2. /\ s \in Selves /\ s.joy = self.joy /\ s.max_vel = self.max_vel
        /\ s.sub_flag = self.sub_flag /\ s.twist = self.twist
        /\ s.distance_flame = self.distance_flame
    BY <1>1, <2>1 DEF Selves
  <2>3. \/ self' = s
        \/ t = "twist" /\ \E m \in Twists : self' = [s EXCEPT !.twist = m]
        \/ \E flame \in {Flame, self.distance_flame} : self' = [s EXCEPT !.distance_flame = flame]
    BY <1>3, <2>1, Zenon DEF Store, Stored
  <2>4. CASE self' = s
    BY <2>2, <2>4 DEF Selves
  <2>5. ASSUME NEW m \in Twists, t = "twist", self' = [s EXCEPT !.twist = m]
        PROVE  /\ Same /\ self'.sub_flag = self.sub_flag
               /\ self'.distance_flame = self.distance_flame /\ self' \in Selves
    <3>1. m \in Int
      BY FlameAssumption
    <3> QED
      BY <2>2, <2>5, <3>1 DEF Selves
  <2>6. ASSUME NEW flame \in {Flame, self.distance_flame},
               self' = [s EXCEPT !.distance_flame = flame]
        PROVE  /\ Same /\ self'.sub_flag = self.sub_flag /\ self'.twist = self.twist
               /\ self'.distance_flame = flame /\ self' \in Selves
    <3>1. flame \in Int
      BY <1>1, FlameAssumption DEF Selves
    <3> QED
      BY <2>2, <2>6, <3>1 DEF Selves
  <2> QED
    BY <2>3, <2>4, <2>5, <2>6
<1>4. ASSUME Reset(t)
      PROVE  /\ Same /\ self'.twist = self.twist
             /\ self'.distance_flame = self.distance_flame
             /\ self'.sub_flag = [self.sub_flag EXCEPT ![Order[thread[t].k]] = 0]
             /\ self' \in Selves
  <2>1. self' = [self EXCEPT !.sub_flag = [self.sub_flag EXCEPT ![Order[thread[t].k]] = 0]]
    BY <1>4 DEF Reset
  <2>2. [self.sub_flag EXCEPT ![Order[thread[t].k]] = 0] \in [Topics -> {0, 1}]
    BY <1>1 DEF Selves
  <2> QED
    BY <1>1, <2>1, <2>2 DEF Selves
<1>5. ASSUME Less(t)
      PROVE  /\ Same /\ self'.twist = self.twist /\ self'.sub_flag = self.sub_flag
             /\ self'.distance_flame = thread[t].flame - 1
             /\ self' \in Selves
  <2>1. self' = [self EXCEPT !.distance_flame = thread[t].flame - 1]
    BY <1>5 DEF Less
  <2>2. thread[t].flame - 1 \in Int
    BY DEF TypeOK, Locals
  <2> QED
    BY <1>1, <2>1, <2>2 DEF Selves
<1>6. ASSUME Run(t), ~Reset(t), ~Less(t) PROVE self' = self /\ self' \in Selves
  BY <1>1, <1>6, Zenon DEF Run, Check, If, Speed, Cap, Clip, Steer, Zero, Divide, Load, Publish
<1> QED
  BY <1>2, <1>3, <1>4, <1>5, <1>6, Zenon

(* What the messages of the other topics do.                                 *)
LEMMA OtherTopics ==
  ASSUME TypeOK, CallbackJoy \/ CallbackMax \/ CallbackPose
  PROVE  /\ self' \in Selves /\ count' \in Counts /\ thread' \in [Topics -> Locals]
         /\ count'.bodies = count.bodies /\ count'.received = count.received
         /\ count'.overlapped = count.overlapped /\ count'.stale = count.stale
         /\ self'.twist = self.twist /\ self'.sub_flag = self.sub_flag
         /\ self'.distance_flame = self.distance_flame
         /\ self.joy # <<>> => self'.joy # <<>>
         /\ \A u \in Topics :
              /\ Kept(thread[u], thread'[u])
              /\ InBody(u) => /\ self'.joy = self.joy \/ "joy" \in thread'[u].replaced
                              /\ self'.max_vel = self.max_vel \/ "max" \in thread'[u].replaced
<1>1. self \in Selves /\ count \in Counts /\ thread \in [Topics -> Locals]
  BY DEF TypeOK
<1>2. count' = count \/ count' = [count EXCEPT !.others = @ + 1]
  BY Zenon DEF CallbackJoy, CallbackMax, CallbackPose, Counted
<1>3. /\ count' \in Counts
      /\ count'.bodies = count.bodies /\ count'.received = count.received
      /\ count'.overlapped = count.overlapped /\ count'.stale = count.stale
  BY <1>1, <1>2 DEF Counts
<1>4. \A u \in Topics : Kept(thread[u], thread[u])
  BY Noting, Zenon
<1>5. ASSUME NEW name \in {"joy", "max"}, thread' = Noted(name)
      PROVE  /\ thread' \in [Topics -> Locals]
             /\ \A u \in Topics : /\ Kept(thread[u], thread'[u])
                                  /\ InBody(u) => name \in thread'[u].replaced
  <2>1. \A u \in Topics : /\ Kept(thread[u], thread'[u])
                          /\ InBody(u) => name \in thread'[u].replaced
    BY <1>5, NotedKeeps, Zenon
  <2>2. thread' = [u \in Topics |-> thread'[u]]
    BY <1>5 DEF Noted
  <2>3. \A u \in Topics : thread'[u] \in Locals
    BY <2>1, Zenon DEF Kept
  <2> QED
    BY <2>1, <2>2, <2>3, Zenon
<1>6. CASE CallbackJoy
  <2>1. PICK m \in Joys : self' = [self EXCEPT !.joy = <<m>>]
    BY <1>6 DEF CallbackJoy
  <2>2. /\ self' \in Selves /\ self'.twist = self.twist /\ self'.sub_flag = self.sub_flag
        /\ self'.distance_flame = self.distance_flame /\ self'.max_vel = self.max_vel
        /\ self'.joy = <<m>>
    BY <1>1, <2>1 DEF Selves
  <2>3. self'.joy # <<>>
    BY <2>2
  <2>4. thread' = Noted("joy")
    BY <1>6 DEF CallbackJoy
  <2> QED
    BY <1>3, <1>5, <2>2, <2>3, <2>4, Zenon
<1>7. CASE CallbackMax
  <2>1. PICK m \in MaxVels : self' = [self EXCEPT !.max_vel = m]
    BY <1>7 DEF CallbackMax
  <2>2. m \in Int
    BY FlameAssumption
  <2>3. /\ self' \in Selves /\ self'.twist = self.twist /\ self'.sub_flag = self.sub_flag
        /\ self'.distance_flame = self.distance_flame /\ self'.joy = self.joy
    BY <1>1, <2>1, <2>2 DEF Selves
  <2>4. thread' = Noted("max")
    BY <1>7 DEF CallbackMax
  <2> QED
    BY <1>3, <1>5, <2>3, <2>4, Zenon
<1>8. CASE CallbackPose
  <2>1. PICK b \in BOOLEAN : self' = [self EXCEPT !.Autoware_flag = b]
    BY <1>8 DEF CallbackPose
  <2>2. /\ self' \in Selves /\ self'.twist = self.twist /\ self'.sub_flag = self.sub_flag
        /\ self'.distance_flame = self.distance_flame /\ self'.joy = self.joy
        /\ self'.max_vel = self.max_vel
    BY <1>1, <2>1 DEF Selves
  <2>3. thread' = thread
    BY <1>8 DEF CallbackPose
  <2> QED
    BY <1>1, <1>3, <1>4, <2>2, <2>3, Zenon
<1> QED
  BY <1>6, <1>7, <1>8

(* What the steps of the threads do to the count.                            *)
LEMMA Counting ==
  ASSUME TypeOK, NEW t \in Topics
  PROVE  /\ Callback(t) =>
              /\ count' \in Counts
              /\ count'.received = [count.received EXCEPT ![t] = @ + 1]
              /\ count'.bodies = count.bodies
              /\ count'.overlapped = count.overlapped /\ count'.stale = count.stale
         /\ Store(t) \/ (Run(t) /\ ~Check(t)) => count' = count
<1>1. count \in Counts
  BY DEF TypeOK
<1>2. ASSUME Callback(t)
      PROVE  /\ count' \in Counts
             /\ count'.received = [count.received EXCEPT ![t] = @ + 1]
             /\ count'.bodies = count.bodies
             /\ count'.overlapped = count.overlapped /\ count'.stale = count.stale
  <2>1. count' = [count EXCEPT !.received = [count.received EXCEPT ![t] = @ + 1]]
    BY <1>2 DEF Callback
  <2>2. [count.received EXCEPT ![t] = @ + 1] \in [Topics -> Nat]
    BY <1>1 DEF Counts
  <2> QED
    BY <1>1, <2>1, <2>2 DEF Counts
<1>3. ASSUME Store(t) \/ (Run(t) /\ ~Check(t)) PROVE count' = count
  BY <1>3, Zenon DEF Store, Run, Reset, If, Speed, Cap, Clip, Steer, Zero, Divide, Load, Less,
     Publish
<1> QED
  BY <1>2, <1>3

(* Own step: the thread stays in its types and ranges.                       *)
LEMMA OwnType ==
  ASSUME TypeOK, NEW t \in Topics, Callback(t) \/ Store(t) \/ Run(t)
  PROVE  thread'[t] \in Locals /\ KRange(t)'
<1> DEFINE r == thread[t]
           new == thread'[t]
           Fine == new \in Locals /\ KRange(t)'
<1> SUFFICES Fine
  OBVIOUS
<1>1. r.k \in 1..6 /\ KRange(t)
  BY DEF TypeOK, KRange
<1>2. /\ At(t, "idle") \/ At(t, "store") \/ At(t, "load") \/ At(t, "less") => r.k = 1
      /\ At(t, "check") \/ At(t, "reset") => r.k \in 1..3
      /\ ~At(t, "if") => r.k \in 1..5
  BY <1>1 DEF KRange
<1>3. self'.joy = self.joy
  BY Attributes, Zenon DEF Run
<1>4. /\ \A pc, k, ac, asked, by, flame : Goes(t, pc, k, ac, asked, by, flame) =>
           new \in Locals /\ new.pc = pc /\ new.k = k
      /\ \A pc, k : Jumps(t, pc, k) => new \in Locals /\ new.pc = pc /\ new.k = k
      /\ Stops(t) => new \in Locals /\ new.pc = "idle" /\ new.k = 1
  BY Zenon DEF Goes, Jumps, Stops, Has
<1> HIDE DEF r, new
<1>5. ASSUME new.pc \in {"idle", "store", "load", "less"}, new.k = 1 PROVE KRange(t)'
  BY <1>5 DEF KRange, At, new
<1>6. ASSUME new.pc \in {"check", "reset"}, new.k \in 1..3 PROVE KRange(t)'
  BY <1>6 DEF KRange, At, new
<1>7. ASSUME new.pc = "if", new.k \in 1..6 PROVE KRange(t)'
  BY <1>7 DEF KRange, At, new
<1>8. ASSUME new.pc \in {"cap", "clip", "steer", "zero", "divide"}, new.k \in 1..5
      PROVE  KRange(t)'
  BY <1>8 DEF KRange, At, new
<1>9. ASSUME new.pc = "speed", new.k \in 1..5, new.k < 5 => self'.joy # <<>> PROVE KRange(t)'
  BY <1>9 DEF KRange, At, new
<1>10. ASSUME Stops(t) PROVE Fine
  BY <1>4, <1>5, <1>10
<1>11. CASE Callback(t) \/ Store(t)
  <2>1. (At(t, "idle") /\ Jumps(t, "store", r.k)) \/ (At(t, "store") /\ Jumps(t, "check", r.k))
    BY <1>11, OwnFlags, Zenon DEF r
  <2>2. r.k = 1 /\ 1 \in 1..3
    BY <1>2, <2>1
  <2> QED
    BY <1>4, <1>5, <1>6, <2>1, <2>2, Zenon
<1>12. CASE Check(t)
  <2>1. /\ At(t, "check")
        /\ Stops(t) \/ (r.k < 3 /\ Jumps(t, "check", r.k + 1)) \/ Jumps(t, "reset", 1)
    BY <1>12, Checking, Zenon DEF r, Begins
  <2>2. (r.k < 3 => r.k + 1 \in 1..3) /\ 1 \in 1..3
    BY <1>2, <2>1
  <2> QED
    BY <1>4, <1>6, <1>10, <2>1, <2>2, Zenon
<1>13. CASE Reset(t)
  <2>1. /\ At(t, "reset")
        /\ (r.k < 3 /\ Jumps(t, "reset", r.k + 1)) \/ Jumps(t, "if", 1)
    BY <1>13, OwnFlags, Zenon DEF r
  <2>2. (r.k < 3 => r.k + 1 \in 1..3) /\ 1 \in 1..6
    BY <1>2, <2>1
  <2> QED
    BY <1>4, <1>6, <1>7, <2>1, <2>2, Zenon
<1>14. CASE If(t)
  <2>1. /\ At(t, "if") /\ r.k < 6
        /\ \/ Stops(t)
           \/ (r.k < 5 => self.joy # <<>>) /\ Jumps(t, "speed", r.k)
           \/ Jumps(t, "if", r.k + 1)
    BY <1>14, OwnIfs, Zenon DEF r
  <2>2. r.k \in 1..5 /\ r.k + 1 \in 1..6
    BY <1>1, <2>1
  <2>3. CASE (r.k < 5 => self.joy # <<>>) /\ Jumps(t, "speed", r.k)
    <3>1. new \in Locals /\ new.pc = "speed" /\ new.k = r.k
      BY <1>4, <2>3, Zenon
    <3> QED
      BY <1>3, <1>9, <2>2, <2>3, <3>1
  <2> QED
    BY <1>4, <1>7, <1>10, <2>1, <2>2, <2>3, Zenon
<1>15. CASE Publish(t)
  BY <1>10, <1>15, OwnIfs, Zenon
<1>16. ASSUME \E label \in {"speed", "cap", "clip", "steer", "zero", "divide", "load", "less"} :
                At(t, label)
       PROVE  r.k \in 1..5 /\ r.k + 1 \in 1..6
  <2>1. ~At(t, "if")
    BY <1>16 DEF At
  <2>2. r.k \in 1..5
    BY <1>2, <2>1, Zenon
  <2> QED
    BY <2>2
<1>17. CASE Speed(t) \/ Cap(t) \/ Clip(t)
  <2>1. /\ At(t, "speed") \/ At(t, "cap") \/ At(t, "clip")
        /\ \/ Stops(t)
           \/ \E pc \in {"cap", "clip", "steer"} : \E ac, asked, by, flame :
                Goes(t, pc, r.k, ac, asked, by, flame)
    BY <1>17, OwnCap, Zenon DEF r, Jumps
  <2> QED
    BY <1>4, <1>8, <1>10, <1>16, <2>1, Zenon
<1>18. CASE Steer(t)
  <2>1. /\ At(t, "steer")
        /\ \/ Stops(t)
           \/ \E by : Goes(t, "if", r.k + 1, r.ac, r.asked, by, r.flame)
           \/ Jumps(t, "zero", r.k)
    BY <1>18, OwnSteer, Zenon DEF r
  <2> QED
    BY <1>4, <1>7, <1>8, <1>10, <1>16, <2>1, Zenon
<1>19. CASE Zero(t) \/ Divide(t)
  <2>1. /\ At(t, "zero") \/ At(t, "divide")
        /\ \/ Stops(t) \/ Jumps(t, "divide", r.k)
           \/ r.k = 1 /\ Goes(t, "load", r.k, r.ac, r.asked, "Autoware", r.flame)
           \/ Goes(t, "if", r.k + 1, r.ac, r.asked, "Autoware", r.flame)
    BY <1>19, OwnDivision, Zenon DEF r
  <2> QED
    BY <1>4, <1>5, <1>7, <1>8, <1>10, <1>16, <2>1, ZenonT(60)
<1>20. CASE Load(t) \/ Less(t)
  <2>1. \/ /\ At(t, "load")
           /\ Goes(t, "less", r.k, r.ac, r.asked, r.pubtype, self.distance_flame)
        \/ At(t, "less") /\ Jumps(t, "if", r.k + 1)
    BY <1>20, OwnDivision, Zenon DEF r
  <2>2. r.k = 1
    BY <1>2, <2>1, Zenon
  <2> QED
    BY <1>4, <1>5, <1>7, <1>16, <2>1, <2>2, Zenon
<1> QED
  BY <1>11, <1>12, <1>13, <1>14, <1>15, <1>17, <1>18, <1>19, <1>20, Zenon DEF Run, r, new

LEMMA TypeStep == TypeOK /\ [Next]_vars => TypeOK'
<1> SUFFICES ASSUME TypeOK, [Next]_vars PROVE TypeOK'
  OBVIOUS
<1>1. CASE UNCHANGED vars
  BY <1>1 DEF vars, TypeOK, KRange, At
<1>2. ASSUME NEW u \in Topics, Kept(thread[u], thread'[u]), self.joy # <<>> => self'.joy # <<>>
      PROVE  thread'[u] \in Locals /\ KRange(u)'
  <2>1. KRange(u)
    BY DEF TypeOK
  <2>2. /\ thread'[u] \in Locals
        /\ thread'[u].pc = thread[u].pc /\ thread'[u].k = thread[u].k
    BY <1>2, Zenon DEF Kept
  <2> QED
    BY <1>2, <2>1, <2>2 DEF KRange, At
<1>3. CASE CallbackJoy \/ CallbackMax \/ CallbackPose
  <2>1. /\ self' \in Selves /\ count' \in Counts /\ thread' \in [Topics -> Locals]
        /\ self.joy # <<>> => self'.joy # <<>>
        /\ \A u \in Topics : Kept(thread[u], thread'[u])
    BY <1>3, OtherTopics, Zenon
  <2> QED
    BY <1>2, <2>1, Zenon DEF TypeOK
<1>4. ASSUME NEW t \in Topics, Callback(t) \/ Store(t) \/ Run(t) PROVE TypeOK'
  <2>1. self' \in Selves /\ self'.joy = self.joy
    BY <1>4, Attributes, Zenon DEF Run
  <2>2. count' \in Counts
    BY <1>4, Counting, Checking, Zenon DEF TypeOK
  <2>3. \A u \in Topics : thread'[u] \in Locals /\ KRange(u)'
    BY <1>2, <1>4, <2>1, OwnType, Others, Zenon
  <2>4. thread' = [u \in Topics |-> thread'[u]]
    <3>1. \A new : Step(t, new) => thread' = [u \in Topics |-> thread'[u]]
      BY DEF Step, TypeOK
    <3>2. Store(t) \/ Reset(t) => thread' = [u \in Topics |-> thread'[u]]
      BY DEF Store, Reset, Noted, NotedFlag
    <3> QED
      BY <1>4, <3>1, <3>2, Zenon DEF Callback, Run, Check, If, Speed, Cap, Clip, Steer, Zero,
         Divide, Load, Less, Publish
  <2> QED
    BY <2>1, <2>2, <2>3, <2>4, Zenon DEF TypeOK
<1> QED
  BY <1>1, <1>3, <1>4 DEF Next

-----------------------------------------------------------------------------
(* The cap.                                                                  *)
LEMMA CapOthers ==
  ASSUME TypeOK, NEW u \in Topics, CapSound(u), Kept(thread[u], thread'[u]),
         InBody(u) => self'.max_vel = self.max_vel \/ "max" \in thread'[u].replaced
  PROVE  CapSound(u)'
<1>1. /\ thread'[u].pc = thread[u].pc /\ thread'[u].ac = thread[u].ac
      /\ thread'[u].asked = thread[u].asked
      /\ "max" \in thread[u].replaced => "max" \in thread'[u].replaced
  BY DEF Kept
<1>2. At(u, "clip") => InBody(u)
  BY DEF At, InBody
<1> QED
  BY <1>1, <1>2, Zenon DEF CapSound, At

LEMMA CapOwn ==
  ASSUME TypeOK, NEW t \in Topics, CapSound(t), Callback(t) \/ Store(t) \/ Run(t)
  PROVE  CapSound(t)'
<1> DEFINE r == thread[t]
           new == thread'[t]
           Elsewhere == \E pc, k, by, flame :
                          pc # "clip" /\ Goes(t, pc, k, r.ac, r.asked, by, flame)
<1>1. ASSUME Stops(t) PROVE CapSound(t)'
  <2>1. new.pc = "idle" /\ new.ac = 0 /\ new.asked = 0
    BY <1>1, Zenon DEF Stops, Has
  <2> QED
    BY <2>1 DEF CapSound, At
<1>2. ASSUME Elsewhere PROVE CapSound(t)'
  <2>1. /\ new.pc # "clip" /\ new.ac = r.ac /\ new.asked = r.asked
        /\ new.replaced = r.replaced
    BY <1>2, Zenon DEF Goes, Has
  <2> QED
    BY <2>1, Zenon DEF CapSound, At
<1>3. \A pc, k : pc # "clip" /\ Jumps(t, pc, k) => Elsewhere
  BY Zenon DEF Jumps
<1>4. /\ "store" # "clip" /\ "check" # "clip" /\ "reset" # "clip" /\ "if" # "clip"
      /\ "speed" # "clip" /\ "steer" # "clip" /\ "zero" # "clip" /\ "divide" # "clip"
      /\ "load" # "clip" /\ "less" # "clip"
  OBVIOUS
<1>5. CASE Callback(t) \/ Store(t) \/ Reset(t)
  <2> HIDE DEF Elsewhere
  <2> QED
    BY <1>2, <1>3, <1>4, <1>5, OwnFlags, Zenon
<1>6. CASE Check(t)
  <2> HIDE DEF Elsewhere
  <2> QED
    BY <1>1, <1>2, <1>3, <1>4, <1>6, Checking, Zenon DEF Begins
<1>7. CASE If(t) \/ Publish(t)
  <2> HIDE DEF Elsewhere
  <2> QED
    BY <1>1, <1>2, <1>3, <1>4, <1>7, OwnIfs, Zenon
<1>8. CASE Speed(t)
  <2>1. Stops(t) \/ \E x \in Int : new.pc = "cap" /\ new.ac = x /\ new.asked = x
    BY <1>8, OwnCap, Zenon DEF Goes, Has
  <2>2. ASSUME NEW x \in Int, new.pc = "cap", new.ac = x, new.asked = x PROVE CapSound(t)'
    BY <2>2 DEF CapSound, At
  <2> QED
    BY <1>1, <2>1, <2>2
<1>9. CASE Cap(t)
  <2>1. /\ At(t, "cap")
        /\ IF self.max_vel < r.ac THEN Jumps(t, "clip", r.k) ELSE Jumps(t, "steer", r.k)
    BY <1>9, OwnCap, Zenon
  <2>2. self' = self
    BY <1>9 DEF Cap
  <2>3. ASSUME self.max_vel < r.ac, Jumps(t, "clip", r.k) PROVE CapSound(t)'
    <3>1. new.ac = r.ac /\ new.asked = r.asked /\ new.replaced = r.replaced
      BY <2>3, Zenon DEF Jumps, Goes, Has
    <3> QED
      BY <2>2, <2>3, <3>1, Zenon DEF CapSound
  <2> HIDE DEF Elsewhere
  <2> QED
    BY <1>2, <1>3, <1>4, <2>1, <2>3, Zenon
<1>10. CASE Clip(t)
  <2>1. /\ At(t, "clip") /\ new.pc = "steer" /\ new.ac = self.max_vel
        /\ new.asked = r.asked /\ new.replaced = r.replaced
    BY <1>10, OwnCap, Zenon DEF Goes, Has
  <2>2. /\ r.ac <= r.asked \/ "max" \in r.replaced
        /\ self.max_vel < r.ac \/ "max" \in r.replaced
    BY <2>1, Zenon DEF CapSound
  <2>3. r.ac \in Int /\ r.asked \in Int /\ self.max_vel \in Int
    BY DEF TypeOK, Locals, Selves
  <2>4. self.max_vel <= r.asked \/ "max" \in r.replaced
    BY <2>2, <2>3
  <2> QED
    BY <1>4, <2>1, <2>4, Zenon DEF CapSound, At
<1>11. CASE Steer(t)
  <2> QED
    BY <1>1, <1>2, <1>3, <1>4, <1>11, OwnSteer, Zenon
<1>12. CASE Zero(t) \/ Divide(t) \/ Load(t) \/ Less(t)
  <2> QED
    BY <1>1, <1>2, <1>3, <1>4, <1>12, OwnDivision, Zenon
<1> QED
  BY <1>5, <1>6, <1>7, <1>8, <1>9, <1>10, <1>11, <1>12 DEF Run

LEMMA CapStep ==
  ASSUME TypeOK, \A t \in Topics : CapSound(t), [Next]_vars
  PROVE  \A t \in Topics : CapSound(t)'
<1>1. CASE UNCHANGED vars
  BY <1>1 DEF vars, CapSound, At
<1>2. CASE CallbackJoy \/ CallbackMax \/ CallbackPose
  BY <1>2, OtherTopics, CapOthers, Zenon
<1>3. ASSUME NEW t \in Topics, Callback(t) \/ Store(t) \/ Run(t)
      PROVE  \A u \in Topics : CapSound(u)'
  <2>1. self'.max_vel = self.max_vel
    BY <1>3, Attributes, Zenon DEF Run
  <2> QED
    BY <1>3, <2>1, Others, CapOthers, CapOwn, Zenon
<1> QED
  BY <1>1, <1>2, <1>3 DEF Next

-----------------------------------------------------------------------------
(* The ifs.                                                                  *)
LEMMA ChosenByJoy ==
  ASSUME self'.joy = self.joy
  PROVE  \A i \in 1..4 : Chosen(i) <=> Chosen(i)'
BY DEF Chosen

LEMMA ChoiceOthers ==
  ASSUME TypeOK, NEW u \in Topics, ChoiceSound(u), Kept(thread[u], thread'[u]),
         self.joy # <<>> => self'.joy # <<>>,
         InBody(u) => /\ self'.joy = self.joy \/ "joy" \in thread'[u].replaced
                      /\ self'.twist = self.twist \/ "twist" \in thread'[u].replaced
  PROVE  ChoiceSound(u)'
<1>1. /\ thread'[u].pc = thread[u].pc /\ thread'[u].k = thread[u].k
      /\ thread'[u].pubtype = thread[u].pubtype
      /\ thread[u].replaced \subseteq thread'[u].replaced
  BY DEF Kept
<1>2. At(u, "if") \/ At(u, "divide") => InBody(u)
  BY DEF At, InBody
<1>3. At(u, "if") /\ NotChosen(u) => NotChosen(u)'
  <2>1. \/ self'.joy = self.joy
        \/ ~InBody(u)
        \/ "joy" \in thread'[u].replaced
    OBVIOUS
  <2>2. self'.joy = self.joy /\ NotChosen(u) => NotChosen(u)'
    BY <1>1, ChosenByJoy, Zenon DEF NotChosen
  <2>3. "joy" \in thread'[u].replaced /\ NotChosen(u) => NotChosen(u)'
    BY Zenon DEF NotChosen
  <2> QED
    BY <1>2, <2>1, <2>2, <2>3, Zenon
<1> QED
  BY <1>1, <1>2, <1>3, Zenon DEF ChoiceSound, At

LEMMA ChoiceOwn ==
  ASSUME TypeOK, NEW t \in Topics, ChoiceSound(t), Callback(t) \/ Store(t) \/ Run(t)
  PROVE  ChoiceSound(t)'
<1> DEFINE r == thread[t]
           new == thread'[t]
           Away == {"idle", "store", "check", "reset", "speed", "cap", "clip", "steer", "zero"}
<1>1. ASSUME new.pc \in Away PROVE ChoiceSound(t)'
  BY <1>1 DEF ChoiceSound, At
<1>2. ASSUME new.pc \in {"if", "load"}, new.pubtype # "none" PROVE ChoiceSound(t)'
  BY <1>2 DEF ChoiceSound, At
<1>3. Stops(t) => ChoiceSound(t)'
  BY <1>1, Zenon DEF Stops, Has
<1>4. \A pc, k, ac, asked, by, flame : Goes(t, pc, k, ac, asked, by, flame) =>
        /\ new.pc = pc /\ new.k = k /\ new.pubtype = by /\ new.replaced = r.replaced
  BY Zenon DEF Goes, Has
<1>5. \A pc \in Away : \A k, ac, asked, by, flame :
        Goes(t, pc, k, ac, asked, by, flame) => ChoiceSound(t)'
  BY <1>1, <1>4, Zenon
<1>6. \A pc \in {"if", "load"}, by \in Types \ {"none"} : \A k, ac, asked, flame :
        Goes(t, pc, k, ac, asked, by, flame) => ChoiceSound(t)'
  BY <1>2, <1>4, Zenon
<1>7. /\ "store" \in Away /\ "check" \in Away /\ "reset" \in Away /\ "speed" \in Away
      /\ "cap" \in Away /\ "clip" \in Away /\ "steer" \in Away /\ "zero" \in Away
      /\ "Autoware" \in Types \ {"none"}
  BY DEF Types
<1> HIDE DEF Away
<1>8. CASE Callback(t) \/ Store(t)
  BY <1>5, <1>7, <1>8, OwnFlags, Zenon DEF Jumps
<1>9. CASE Check(t)
  BY <1>3, <1>5, <1>7, <1>9, Checking, Zenon DEF Jumps, Begins
<1>10. CASE Reset(t)
  <2>1. Jumps(t, "if", 1) => ChoiceSound(t)'
    <3>1. Jumps(t, "if", 1) => new.pc = "if" /\ new.k = 1
      BY <1>4, Zenon DEF Jumps
    <3> QED
      BY <3>1 DEF ChoiceSound, At
  <2> QED
    BY <1>5, <1>7, <1>10, <2>1, OwnFlags, Zenon DEF Jumps
<1>11. CASE If(t)
  <2>1. /\ At(t, "if") /\ r.k \in 1..5
        /\ \/ Stops(t)
           \/ Jumps(t, "speed", r.k)
           \/ (r.k < 5 => self.joy # <<>>) /\ ~Chosen(r.k) /\ Jumps(t, "if", r.k + 1)
    <3>1. r.k \in 1..6
      BY Stepping, Zenon
    <3>2. /\ At(t, "if") /\ r.k < 6
          /\ \/ Stops(t)
             \/ Jumps(t, "speed", r.k)
             \/ (r.k < 5 => self.joy # <<>>) /\ ~Chosen(r.k) /\ Jumps(t, "if", r.k + 1)
      BY <1>11, OwnIfs, Zenon
    <3>3. r.k \in 1..5
      BY <3>1, <3>2
    <3> QED
      BY <3>2, <3>3, Zenon
  <2>2. self' = self
    BY <1>11 DEF If
  <2>3. ASSUME r.k < 5 => self.joy # <<>>, ~Chosen(r.k), Jumps(t, "if", r.k + 1)
        PROVE  ChoiceSound(t)'
    <3>1. /\ new.pc = "if" /\ new.k = r.k + 1 /\ new.pubtype = r.pubtype
          /\ new.replaced = r.replaced
      BY <1>4, <2>3, Zenon DEF Jumps
    <3>2. CASE r.pubtype = "none"
      <4>1. r.k > 1 => NotChosen(t)
        BY <2>1, <3>2, Zenon DEF ChoiceSound
      <4>2. self.joy # <<>>
        BY <2>1, <2>3, <4>1 DEF NotChosen
      <4>3. \A i \in 1..4 : i < r.k + 1 => (i < r.k /\ r.k > 1) \/ i = r.k
        BY <2>1
      <4>4. "joy" \in new.replaced \/ \A i \in 1..4 : i < new.k => ~Chosen(i)'
        <5>1. \A i \in 1..4 : Chosen(i) <=> Chosen(i)'
          BY <2>2, ChosenByJoy, Zenon
        <5> QED
          BY <2>3, <3>1, <4>1, <4>3, <5>1, Zenon DEF NotChosen
      <4>5. NotChosen(t)'
        BY <2>2, <4>2, <4>4, Zenon DEF NotChosen
      <4> QED
        BY <3>1, <4>5 DEF ChoiceSound, At
    <3>3. CASE r.pubtype # "none"
      BY <1>2, <3>1, <3>3
    <3> QED
      BY <3>2, <3>3
  <2> QED
    BY <1>3, <1>5, <1>7, <2>1, <2>3, Zenon DEF Jumps
<1>12. CASE Publish(t)
  BY <1>3, <1>12, OwnIfs, Zenon
<1>13. CASE Speed(t) \/ Cap(t) \/ Clip(t)
  BY <1>3, <1>5, <1>7, <1>13, OwnCap, Zenon DEF Jumps
<1>14. CASE Steer(t)
  <2>1. "if" \in {"if", "load"}
    OBVIOUS
  <2> QED
    BY <1>3, <1>5, <1>6, <1>7, <1>14, <2>1, OwnSteer, Zenon DEF Jumps
<1>15. CASE Zero(t)
  <2>1. /\ At(t, "zero")
        /\ \/ self.twist # 0 /\ Jumps(t, "divide", r.k)
           \/ Goes(t, "load", r.k, r.ac, r.asked, "Autoware", r.flame)
           \/ Goes(t, "if", r.k + 1, r.ac, r.asked, "Autoware", r.flame)
    BY <1>15, OwnDivision, Zenon
  <2>2. self' = self
    BY <1>15 DEF Zero
  <2>3. ASSUME self.twist # 0, Jumps(t, "divide", r.k) PROVE ChoiceSound(t)'
    <3>1. new.pc = "divide"
      BY <1>4, <2>3, Zenon DEF Jumps
    <3> QED
      BY <2>2, <2>3, <3>1 DEF ChoiceSound, At
  <2>4. "if" \in {"if", "load"} /\ "load" \in {"if", "load"}
    OBVIOUS
  <2> QED
    BY <1>6, <1>7, <2>1, <2>3, <2>4, Zenon
<1>16. CASE Divide(t)
  <2>1. \/ Stops(t)
        \/ Goes(t, "load", r.k, r.ac, r.asked, "Autoware", r.flame)
        \/ Goes(t, "if", r.k + 1, r.ac, r.asked, "Autoware", r.flame)
    BY <1>16, OwnDivision, Zenon
  <2>2. "if" \in {"if", "load"} /\ "load" \in {"if", "load"}
    OBVIOUS
  <2> QED
    BY <1>3, <1>6, <1>7, <2>1, <2>2, Zenon
<1>17. CASE Load(t) \/ Less(t)
  <2>1. \/ /\ At(t, "load")
           /\ Goes(t, "less", r.k, r.ac, r.asked, r.pubtype, self.distance_flame)
        \/ At(t, "less") /\ Jumps(t, "if", r.k + 1)
    BY <1>17, OwnDivision, Zenon
  <2>2. r.pubtype # "none"
    BY <2>1, Zenon DEF ChoiceSound
  <2>3. new.pc \in {"less", "if"} /\ new.pubtype = r.pubtype
    BY <1>4, <2>1, ZenonT(60) DEF Jumps
  <2> QED
    BY <2>2, <2>3 DEF ChoiceSound, At
<1> QED
  BY <1>8, <1>9, <1>10, <1>11, <1>12, <1>13, <1>14, <1>15, <1>16, <1>17, Zenon DEF Run

LEMMA ChoiceStep ==
  ASSUME TypeOK, \A t \in Topics : ChoiceSound(t), [Next]_vars
  PROVE  \A t \in Topics : ChoiceSound(t)'
<1>1. CASE UNCHANGED vars
  BY <1>1 DEF vars, ChoiceSound, NotChosen, Chosen, At
<1>2. CASE CallbackJoy \/ CallbackMax \/ CallbackPose
  BY <1>2, OtherTopics, ChoiceOthers, Zenon
<1>3. ASSUME NEW t \in Topics, NEW u \in Topics, u # t, Callback(t) \/ Store(t) \/ Run(t)
      PROVE  ChoiceSound(u)'
  <2>1. self'.joy = self.joy
    BY <1>3, Attributes, Zenon DEF Run
  <2>2. self'.twist = self.twist \/ (InBody(u) => "twist" \in thread'[u].replaced)
    <3>1. CASE Store(t) /\ t = "twist"
      <4>1. thread'[u] = Noted("twist")[u]
        BY <1>3, <3>1 DEF Store, Noted
      <4> QED
        BY <4>1, NotedKeeps, Zenon
    <3>2. CASE ~(Store(t) /\ t = "twist")
      BY <1>3, <3>2, Attributes, Zenon DEF Run
    <3> QED
      BY <3>1, <3>2
  <2> QED
    BY <1>3, <2>1, <2>2, Others, ChoiceOthers, Zenon
<1>4. ASSUME NEW t \in Topics, Callback(t) \/ Store(t) \/ Run(t)
      PROVE  \A u \in Topics : ChoiceSound(u)'
  BY <1>3, <1>4, ChoiceOwn, Zenon
<1> QED
  BY <1>1, <1>2, <1>4 DEF Next

-----------------------------------------------------------------------------
(* One body at a time.                                                       *)
LEMMA BodyKept ==
  ASSUME NEW u \in Topics, Kept(thread[u], thread'[u])
  PROVE  InBody(u)' <=> InBody(u)
BY DEF Kept, InBody, At

LEMMA BodyOwn ==
  ASSUME TypeOK, NEW t \in Topics, Callback(t) \/ Store(t) \/ Run(t), InBody(t)', ~InBody(t)
  PROVE  Check(t) /\ Begins(t)
<1> DEFINE new == thread'[t]
<1>1. At(t, "idle") \/ At(t, "store") \/ At(t, "check")
  BY DEF InBody
<1>2. new.pc # "idle" /\ new.pc # "store" /\ new.pc # "check"
  BY DEF InBody, At
<1>3. ~Stops(t) /\ \A k : ~Jumps(t, "store", k) /\ ~Jumps(t, "check", k)
  BY <1>2, Zenon DEF Stops, Jumps, Goes, Has
<1>4. /\ ~At(t, "reset") /\ ~At(t, "if") /\ ~At(t, "speed") /\ ~At(t, "cap") /\ ~At(t, "clip")
      /\ ~At(t, "steer") /\ ~At(t, "zero") /\ ~At(t, "divide") /\ ~At(t, "load")
      /\ ~At(t, "less")
  BY <1>1 DEF At
<1>5. ~Callback(t) /\ ~Store(t)
  BY <1>3, OwnFlags, Zenon
<1>6. /\ ~Reset(t) /\ ~If(t) /\ ~Publish(t) /\ ~Speed(t) /\ ~Cap(t) /\ ~Clip(t) /\ ~Steer(t)
      /\ ~Zero(t) /\ ~Divide(t) /\ ~Load(t) /\ ~Less(t)
  BY <1>4, Zenon DEF Reset, If, Publish, Speed, Cap, Clip, Steer, Zero, Divide, Load, Less
<1>7. Check(t)
  BY <1>5, <1>6, Zenon DEF Run
<1> QED
  BY <1>3, <1>7, Checking, Zenon

LEMMA OverlappedStays ==
  ASSUME TypeOK, [Next]_vars
  PROVE  /\ count.overlapped => count'.overlapped
         /\ count.stale => count'.stale
<1>1. CASE UNCHANGED vars
  BY <1>1 DEF vars
<1>2. CASE CallbackJoy \/ CallbackMax \/ CallbackPose
  BY <1>2, OtherTopics, Zenon
<1>3. ASSUME NEW t \in Topics, Callback(t) \/ Store(t) \/ Run(t)
      PROVE  /\ count.overlapped => count'.overlapped
             /\ count.stale => count'.stale
  <2>1. CASE Check(t)
    BY <2>1, Checking, Zenon DEF Begins
  <2>2. CASE ~Check(t)
    BY <1>3, <2>2, Counting, Zenon
  <2> QED
    BY <2>1, <2>2
<1> QED
  BY <1>1, <1>2, <1>3 DEF Next

LEMMA AloneStep ==
  ASSUME TypeOK, Alone, [Next]_vars, ~count'.overlapped
  PROVE  Alone'
<1>1. CASE UNCHANGED vars
  BY <1>1 DEF vars, Alone, InBody, At
<1>2. CASE CallbackJoy \/ CallbackMax \/ CallbackPose
  BY <1>2, OtherTopics, BodyKept, Zenon DEF Alone
<1>3. ASSUME NEW t \in Topics, Callback(t) \/ Store(t) \/ Run(t) PROVE Alone'
  <2>1. \A u \in Topics : u # t => (InBody(u)' <=> InBody(u))
    BY <1>3, Others, BodyKept, Zenon
  <2>2. InBody(t)' => InBody(t) \/ \A u \in Topics : ~InBody(u)
    BY <1>3, BodyOwn, Zenon DEF Begins
  <2> QED
    BY <2>1, <2>2, Zenon DEF Alone
<1> QED
  BY <1>1, <1>2, <1>3 DEF Next

(* The count of the commands steered by Autoware.                            *)
FlameOf(t) ==
  /\ At(t, "less") => thread[t].flame > 0
  /\ At(t, "load") \/ (thread[t].k = 1 /\ (At(t, "zero") \/ At(t, "divide")))
       => self.distance_flame > 0

LEMMA FlameOthers ==
  ASSUME NEW u \in Topics, FlameOf(u), Kept(thread[u], thread'[u]),
         ~InBody(u) \/ (self.distance_flame > 0 => self'.distance_flame > 0)
  PROVE  FlameOf(u)'
<1>1. /\ thread'[u].pc = thread[u].pc /\ thread'[u].k = thread[u].k
      /\ thread'[u].flame = thread[u].flame
  BY DEF Kept
<1>2. At(u, "load") \/ At(u, "zero") \/ At(u, "divide") => InBody(u)
  BY DEF At, InBody
<1> QED
  BY <1>1, <1>2, Zenon DEF FlameOf, At

LEMMA FlameOwn ==
  ASSUME TypeOK, NEW t \in Topics, FlameOf(t), self.distance_flame >= 0,
         Callback(t) \/ Store(t) \/ Run(t)
  PROVE  FlameOf(t)' /\ self'.distance_flame >= 0
<1> DEFINE r == thread[t]
           new == thread'[t]
           Away == {"idle", "store", "check", "reset", "if", "speed", "cap", "clip", "steer"}
<1>1. self.distance_flame \in Int
  BY DEF TypeOK, Selves
<1>2. self'.distance_flame >= 0
  <2>1. Flame \in Nat
    BY FlameAssumption
  <2>2. CASE Less(t)
    <3>1. self'.distance_flame = r.flame - 1
      BY <2>2, Attributes, Zenon
    <3>2. r.flame > 0 /\ r.flame \in Int
      BY <2>2 DEF FlameOf, Less, TypeOK, Locals
    <3> QED
      BY <3>1, <3>2
  <2>3. CASE ~Less(t)
    <3>1. self'.distance_flame \in {Flame, self.distance_flame}
      BY <2>3, Attributes, Zenon
    <3> QED
      BY <2>1, <3>1
  <2> QED
    BY <2>2, <2>3
<1> SUFFICES FlameOf(t)'
  BY <1>2
<1>3. ASSUME new.pc \in Away PROVE FlameOf(t)'
  BY <1>3 DEF FlameOf, At
<1>4. Stops(t) => FlameOf(t)'
  BY <1>3, Zenon DEF Stops, Has
<1>5. \A pc, k, ac, asked, by, flame : Goes(t, pc, k, ac, asked, by, flame) =>
        new.pc = pc /\ new.k = k /\ new.flame = flame
  BY Zenon DEF Goes, Has
<1>6. \A pc \in Away : \A k, ac, asked, by, flame :
        Goes(t, pc, k, ac, asked, by, flame) => FlameOf(t)'
  BY <1>3, <1>5, Zenon
<1>7. /\ "store" \in Away /\ "check" \in Away /\ "reset" \in Away /\ "if" \in Away
      /\ "speed" \in Away /\ "cap" \in Away /\ "clip" \in Away /\ "steer" \in Away
  OBVIOUS
<1> HIDE DEF Away
<1>8. CASE Callback(t) \/ Store(t) \/ Reset(t)
  BY <1>6, <1>7, <1>8, OwnFlags, Zenon DEF Jumps
<1>9. CASE Check(t)
  BY <1>4, <1>6, <1>7, <1>9, Checking, Zenon DEF Jumps, Begins
<1>10. CASE If(t) \/ Publish(t)
  BY <1>4, <1>6, <1>7, <1>10, OwnIfs, Zenon DEF Jumps
<1>11. CASE Speed(t) \/ Cap(t) \/ Clip(t)
  BY <1>4, <1>6, <1>7, <1>11, OwnCap, Zenon DEF Jumps
<1>12. CASE Steer(t)
  <2>1. ASSUME r.k = 1 => self.distance_flame # 0, Jumps(t, "zero", r.k) PROVE FlameOf(t)'
    <3>1. new.pc = "zero" /\ new.k = r.k
      BY <1>5, <2>1, Zenon DEF Jumps
    <3>2. self' = self
      BY <1>12 DEF Steer
    <3>3. r.k = 1 => self.distance_flame > 0
      BY <1>1, <2>1
    <3> QED
      BY <3>1, <3>2, <3>3 DEF FlameOf, At
  <2> QED
    BY <1>4, <1>6, <1>7, <1>12, <2>1, OwnSteer, Zenon
<1>13. CASE Zero(t) \/ Divide(t)
  <2>1. /\ At(t, "zero") \/ At(t, "divide")
        /\ \/ Stops(t) \/ Jumps(t, "divide", r.k)
           \/ r.k = 1 /\ Goes(t, "load", r.k, r.ac, r.asked, "Autoware", r.flame)
           \/ Goes(t, "if", r.k + 1, r.ac, r.asked, "Autoware", r.flame)
    BY <1>13, OwnDivision, Zenon
  <2>2. self' = self
    BY <1>13 DEF Zero, Divide
  <2>3. r.k = 1 => self.distance_flame > 0
    BY <2>1, Zenon DEF FlameOf
  <2>4. ASSUME Jumps(t, "divide", r.k) PROVE FlameOf(t)'
    <3>1. new.pc = "divide" /\ new.k = r.k
      BY <1>5, <2>4, Zenon DEF Jumps
    <3> QED
      BY <2>2, <2>3, <3>1 DEF FlameOf, At
  <2>5. ASSUME r.k = 1, Goes(t, "load", r.k, r.ac, r.asked, "Autoware", r.flame)
        PROVE  FlameOf(t)'
    <3>1. new.pc = "load"
      BY <1>5, <2>5, Zenon
    <3> QED
      BY <2>2, <2>3, <2>5, <3>1 DEF FlameOf, At
  <2> QED
    BY <1>4, <1>6, <1>7, <2>1, <2>4, <2>5, Zenon
<1>14. CASE Load(t)
  <2>1. /\ At(t, "load") /\ new.pc = "less" /\ new.flame = self.distance_flame
    BY <1>5, <1>14, OwnDivision, Zenon
  <2>2. self.distance_flame > 0
    BY <2>1, Zenon DEF FlameOf
  <2> QED
    BY <2>1, <2>2 DEF FlameOf, At
<1>15. CASE Less(t)
  BY <1>6, <1>7, <1>15, OwnDivision, Zenon DEF Jumps
<1> QED
  BY <1>8, <1>9, <1>10, <1>11, <1>12, <1>13, <1>14, <1>15, Zenon DEF Run

LEMMA FlameStep ==
  ASSUME TypeOK, Alone, FlameSound, [Next]_vars
  PROVE  FlameSound'
<1>1. /\ self.distance_flame >= 0 /\ self.distance_flame \in Int
      /\ \A u \in Topics : FlameOf(u)
  BY DEF FlameSound, FlameOf, TypeOK, Selves
<1>2. self'.distance_flame >= 0 /\ (\A u \in Topics : FlameOf(u)') => FlameSound'
  BY DEF FlameSound, FlameOf
<1>3. CASE UNCHANGED vars
  BY <1>3 DEF vars, FlameSound, At
<1>4. CASE CallbackJoy \/ CallbackMax \/ CallbackPose
  BY <1>1, <1>2, <1>4, OtherTopics, FlameOthers, Zenon
<1>5. ASSUME NEW t \in Topics, Callback(t) \/ Store(t) \/ Run(t),
             NEW u \in Topics, u # t
      PROVE  FlameOf(u)'
  <2>1. CASE Less(t)
    <3>1. InBody(t)
      BY <2>1 DEF Less, InBody, At
    <3>2. ~InBody(u)
      BY <1>5, <3>1 DEF Alone
    <3> QED
      BY <1>1, <1>5, <3>2, Others, FlameOthers, Zenon
  <2>2. CASE ~Less(t)
    <3>1. self'.distance_flame \in {Flame, self.distance_flame}
      BY <1>5, <2>2, Attributes, Zenon DEF Run
    <3>2. Flame > 0
      BY FlameAssumption
    <3>3. self.distance_flame > 0 => self'.distance_flame > 0
      BY <3>1, <3>2
    <3> QED
      BY <1>1, <1>5, <3>3, Others, FlameOthers, Zenon
  <2> QED
    BY <2>1, <2>2
<1>6. ASSUME NEW t \in Topics, Callback(t) \/ Store(t) \/ Run(t) PROVE FlameSound'
  <2>1. FlameOf(t)' /\ self'.distance_flame >= 0
    BY <1>1, <1>6, FlameOwn, Zenon
  <2>2. \A u \in Topics : u # t => FlameOf(u)'
    BY <1>5, <1>6, Zenon
  <2> QED
    BY <1>2, <2>1, <2>2, Zenon
<1> QED
  BY <1>3, <1>4, <1>6 DEF Next

-----------------------------------------------------------------------------
(* The flags, and the messages they stand for.                               *)
FlagOf(i) ==
  /\ count.bodies <= count.received[Order[i]]
  /\ (\A t \in Topics : ~Resets(t, i)) =>
       count.bodies + self.sub_flag[Order[i]] <= count.received[Order[i]]

ReadBy(t) == At(t, "check") =>
  \A i \in 1..3 : i < thread[t].k =>
    self.sub_flag[Order[i]] = 1 \/ "flag" \in thread[t].replaced

LEMMA FlagParts == FlagsSound <=> (\A i \in 1..3 : FlagOf(i)) /\ \A t \in Topics : ReadBy(t)
BY Zenon DEF FlagsSound, FlagOf, ReadBy

LEMMA FlagParts1 ==
  FlagsSound' <=> (\A i \in 1..3 : FlagOf(i)') /\ \A t \in Topics : ReadBy(t)'
BY Zenon DEF FlagsSound, FlagOf, ReadBy

(* A thread that stays where it is.                                          *)
LEMMA FlagKept ==
  ASSUME NEW u \in Topics, Kept(thread[u], thread'[u])
  PROVE  /\ \A i \in 1..3 : Resets(u, i)' <=> Resets(u, i)
         /\ ReadBy(u) /\ (\A i \in 1..3 : self.sub_flag[Order[i]] = 1 =>
                             \/ self'.sub_flag[Order[i]] = 1
                             \/ i < thread[u].k /\ At(u, "check") =>
                                  "flag" \in thread'[u].replaced)
              => ReadBy(u)'
<1>1. /\ thread'[u].pc = thread[u].pc /\ thread'[u].k = thread[u].k
      /\ "flag" \in thread[u].replaced => "flag" \in thread'[u].replaced
  BY DEF Kept
<1> QED
  BY <1>1, Zenon DEF Resets, ReadBy, At

(* A step that moves no flag, and no thread among the flags.                 *)
LEMMA FlagsQuiet ==
  ASSUME TypeOK, FlagsSound, self'.sub_flag = self.sub_flag,
         count'.bodies = count.bodies, count'.received = count.received,
         \A u \in Topics : \/ Kept(thread[u], thread'[u])
                           \/ ~At(u, "reset") /\ ~At(u, "reset")' /\ ~At(u, "check")'
  PROVE  FlagsSound'
<1>1. ASSUME NEW u \in Topics
      PROVE  ReadBy(u)' /\ \A i \in 1..3 : Resets(u, i)' <=> Resets(u, i)
  <2>1. ReadBy(u)
    BY FlagParts, Zenon
  <2>2. CASE Kept(thread[u], thread'[u])
    BY <2>1, <2>2, FlagKept, Zenon
  <2>3. CASE ~At(u, "reset") /\ ~At(u, "reset")' /\ ~At(u, "check")'
    BY <2>3, Zenon DEF ReadBy, Resets
  <2> QED
    BY <2>2, <2>3
<1>2. \A i \in 1..3 : FlagOf(i)'
  BY <1>1, FlagParts, Zenon DEF FlagOf
<1> QED
  BY <1>1, <1>2, FlagParts1, Zenon

LEMMA BodyMoves ==
  ASSUME TypeOK, NEW t \in Topics, Run(t), ~Check(t), ~Reset(t)
  PROVE  ~At(t, "reset") /\ ~At(t, "reset")' /\ ~At(t, "check")'
<1> DEFINE new == thread'[t]
           Away == {"idle", "if", "speed", "cap", "clip", "steer", "zero", "divide", "load", "less"}
<1>1. new.pc \in Away => ~At(t, "reset")' /\ ~At(t, "check")'
  BY DEF At
<1>2. /\ Stops(t) => new.pc = "idle"
      /\ \A pc, k, ac, asked, by, flame : Goes(t, pc, k, ac, asked, by, flame) => new.pc = pc
  BY Zenon DEF Stops, Goes, Has
<1>3. /\ "idle" \in Away /\ "if" \in Away /\ "speed" \in Away /\ "cap" \in Away
      /\ "clip" \in Away /\ "steer" \in Away /\ "zero" \in Away /\ "divide" \in Away
      /\ "load" \in Away /\ "less" \in Away
  OBVIOUS
<1> HIDE DEF Away
<1>4. ~At(t, "reset")
  BY DEF At, Run, If, Publish, Speed, Cap, Clip, Steer, Zero, Divide, Load, Less
<1>5. CASE If(t) \/ Publish(t)
  BY <1>1, <1>2, <1>3, <1>4, <1>5, OwnIfs, Zenon DEF Jumps
<1>6. CASE Speed(t) \/ Cap(t) \/ Clip(t)
  BY <1>1, <1>2, <1>3, <1>4, <1>6, OwnCap, Zenon DEF Jumps
<1>7. CASE Steer(t)
  BY <1>1, <1>2, <1>3, <1>4, <1>7, OwnSteer, Zenon DEF Jumps
<1>8. CASE Zero(t) \/ Divide(t) \/ Load(t) \/ Less(t)
  BY <1>1, <1>2, <1>3, <1>4, <1>8, OwnDivision, Zenon DEF Jumps
<1> QED
  BY <1>5, <1>6, <1>7, <1>8, Zenon DEF Run

LEMMA FlagTypes ==
  ASSUME TypeOK
  PROVE  /\ \A i \in 1..3 : /\ Order[i] \in Topics /\ self.sub_flag[Order[i]] \in {0, 1}
                            /\ count.received[Order[i]] \in Nat
         /\ count.bodies \in Nat
BY TheTopics DEF TypeOK, Selves, Counts, Topics

(* A message: its flag is up, and counts for it.                             *)
LEMMA FlagsCallback ==
  ASSUME TypeOK, FlagsSound, NEW t \in Topics, Callback(t)
  PROVE  FlagsSound'
<1>1. /\ self'.sub_flag = [self.sub_flag EXCEPT ![t] = 1]
      /\ count'.received = [count.received EXCEPT ![t] = @ + 1]
      /\ count'.bodies = count.bodies
  BY Attributes, Counting, Zenon
<1>2. thread'[t].pc = "store" /\ At(t, "idle")
  BY OwnFlags, Zenon DEF Jumps, Goes, Has
<1>3. /\ self.sub_flag \in [Topics -> {0, 1}] /\ count.received \in [Topics -> Nat]
      /\ count.bodies \in Nat
  BY DEF TypeOK, Selves, Counts
<1>4. ASSUME NEW u \in Topics
      PROVE  ReadBy(u)' /\ \A i \in 1..3 : Resets(u, i)' <=> Resets(u, i)
  <2>1. CASE u = t
    BY <1>2, <2>1 DEF ReadBy, Resets, At
  <2>2. CASE u # t
    <3>1. \A i \in 1..3 : self.sub_flag[Order[i]] = 1 => self'.sub_flag[Order[i]] = 1
      BY <1>1, <1>3, FlagTypes
    <3>2. Kept(thread[u], thread'[u]) /\ ReadBy(u)
      BY <2>2, Others, FlagParts, Zenon
    <3> QED
      BY <3>1, <3>2, FlagKept, Zenon
  <2> QED
    BY <2>1, <2>2
<1>5. ASSUME NEW i \in 1..3 PROVE FlagOf(i)'
  <2>1. FlagOf(i) /\ Order[i] \in Topics
    BY FlagParts, FlagTypes, Zenon
  <2>2. CASE Order[i] = t
    <3>1. self'.sub_flag[Order[i]] = 1 /\ count'.received[Order[i]] = count.received[Order[i]] + 1
      BY <1>1, <1>3, <2>1, <2>2
    <3>2. count.bodies <= count.received[Order[i]] /\ count.received[Order[i]] \in Nat
      BY <1>3, <2>1 DEF FlagOf
    <3>3. count.bodies + 1 <= count.received[Order[i]] + 1
      BY <1>3, <3>2
    <3>4. count.bodies <= count.received[Order[i]] + 1
      BY <1>3, <3>2
    <3> QED
      BY <1>1, <3>1, <3>3, <3>4, Zenon DEF FlagOf
  <2>3. CASE Order[i] # t
    <3>1. /\ self'.sub_flag[Order[i]] = self.sub_flag[Order[i]]
          /\ count'.received[Order[i]] = count.received[Order[i]]
      BY <1>1, <1>3, <2>1, <2>3
    <3> QED
      BY <1>1, <1>4, <2>1, <3>1, Zenon DEF FlagOf
  <2> QED
    BY <2>2, <2>3
<1> QED
  BY <1>4, <1>5, FlagParts1, Zenon

(* A body that begins takes one message of each topic.                       *)
LEMMA FlagsBegin ==
  ASSUME TypeOK, FlagsSound, NEW t \in Topics, Check(t), Begins(t),
         self.sub_flag[Order[thread[t].k]] = 1, ~count'.overlapped, ~count'.stale
  PROVE  FlagsSound'
<1>1. /\ thread[t].k = 3 /\ At(t, "check")
      /\ count'.bodies = count.bodies + 1 /\ count'.received = count.received
      /\ \A u \in Topics : ~InBody(u)
      /\ "flag" \notin thread[t].replaced
  BY Checking, Zenon DEF Begins
<1>2. thread'[t].pc = "reset" /\ thread'[t].k = 1
  BY Zenon DEF Begins, Jumps, Goes, Has
<1>3. self' = self
  BY DEF Check
<1>4. ASSUME NEW i \in 1..3 PROVE self.sub_flag[Order[i]] = 1
  <2>1. ReadBy(t)
    BY FlagParts, Zenon
  <2>2. i < 3 \/ i = 3
    OBVIOUS
  <2> QED
    BY <1>1, <2>1, <2>2, Zenon DEF ReadBy
<1>5. \A u \in Topics : ~At(u, "reset")
  BY <1>1 DEF InBody, At
<1>6. ASSUME NEW i \in 1..3 PROVE FlagOf(i)'
  <2>1. count.bodies + 1 <= count.received[Order[i]]
    BY <1>4, <1>5, FlagParts, Zenon DEF FlagOf, Resets
  <2>2. Resets(t, i)'
    BY <1>2 DEF Resets, At
  <2> QED
    BY <1>1, <2>1, <2>2, Zenon DEF FlagOf
<1>7. ASSUME NEW u \in Topics PROVE ReadBy(u)'
  <2>1. CASE u = t
    BY <1>2, <2>1 DEF ReadBy, At
  <2>2. CASE u # t
    BY <1>3, <2>2, Others, FlagParts, FlagKept, Zenon DEF Run
  <2> QED
    BY <2>1, <2>2
<1> QED
  BY <1>6, <1>7, FlagParts1, Zenon

(* The reset of a flag: its message is the body's.                           *)
LEMMA FlagsReset ==
  ASSUME TypeOK, FlagsSound, Alone, NEW t \in Topics, Reset(t)
  PROVE  FlagsSound'
<1> DEFINE k == thread[t].k
           new == thread'[t]
<1>1. /\ At(t, "reset") /\ k \in 1..3
      /\ \/ k < 3 /\ new.pc = "reset" /\ new.k = k + 1
         \/ k = 3 /\ new.pc = "if"
  <2>1. /\ At(t, "reset")
        /\ \/ k < 3 /\ new.pc = "reset" /\ new.k = k + 1
           \/ k = 3 /\ new.pc = "if"
    BY OwnFlags, Zenon DEF Jumps, Goes, Has
  <2> QED
    BY <2>1 DEF TypeOK, KRange
<1>2. /\ self'.sub_flag = [self.sub_flag EXCEPT ![Order[k]] = 0]
      /\ count' = count
  BY Attributes, Counting, Zenon DEF Run, Reset, Check, At
<1>3. self.sub_flag \in [Topics -> {0, 1}] /\ Order[k] \in Topics
  BY <1>1, FlagTypes DEF TypeOK, Selves
<1>4. ASSUME NEW i \in 1..3, i # k PROVE self'.sub_flag[Order[i]] = self.sub_flag[Order[i]]
  <2>1. Order[i] # Order[k] /\ Order[i] \in Topics
    BY <1>1, <1>4, TheTopics, FlagTypes, Zenon
  <2> QED
    BY <1>2, <1>3, <2>1
<1>5. self'.sub_flag[Order[k]] = 0
  BY <1>2, <1>3
<1>6. ASSUME NEW u \in Topics, u # t PROVE Kept(thread[u], thread'[u]) /\ ReadBy(u)'
  <2>1. Kept(thread[u], thread'[u]) /\ ReadBy(u)
    BY <1>6, Others, FlagParts, Zenon DEF Run
  <2>2. At(u, "check") /\ k < thread[u].k => "flag" \in thread'[u].replaced
    <3>1. thread'[u] = NotedFlag(k)[u]
      BY <1>6 DEF Reset, NotedFlag
    <3> QED
      BY <1>1, <3>1, NotedFlagKeeps, Zenon
  <2> QED
    BY <1>4, <2>1, <2>2, FlagKept, Zenon
<1>7. ReadBy(t)'
  BY <1>1 DEF ReadBy, At
<1>8. ASSUME NEW i \in 1..3 PROVE FlagOf(i)'
  <2>1. FlagOf(i)
    BY FlagParts, Zenon
  <2>2. CASE i = k
    <3>1. count.bodies <= count.received[Order[i]] /\ count.bodies \in Nat
      BY <2>1, FlagTypes, Zenon DEF FlagOf
    <3>2. count.bodies + self'.sub_flag[Order[i]] <= count.received[Order[i]]
      BY <1>5, <2>2, <3>1
    <3> QED
      BY <1>2, <3>1, <3>2, Zenon DEF FlagOf
  <2>3. CASE i # k
    <3>1. ASSUME \A u \in Topics : ~Resets(u, i)' PROVE \A u \in Topics : ~Resets(u, i)
      <4>1. ~Resets(t, i)
        <5>1. ~(k <= i)
          BY <1>1, <2>3, <3>1 DEF Resets, At
        <5> QED
          BY <5>1 DEF Resets
      <4>2. \A u \in Topics : u # t => ~Resets(u, i)
        BY <1>6, <3>1, FlagKept, Zenon
      <4> QED
        BY <4>1, <4>2, Zenon
    <3> QED
      BY <1>2, <1>4, <2>1, <2>3, <3>1, Zenon DEF FlagOf
  <2> QED
    BY <2>2, <2>3
<1> QED
  BY <1>6, <1>7, <1>8, FlagParts1, Zenon

(* The test of the flags: the one it has just read is up.                    *)
LEMMA FlagsCheck ==
  ASSUME TypeOK, FlagsSound, NEW t \in Topics, Check(t), ~count'.overlapped, ~count'.stale
  PROVE  FlagsSound'
<1> DEFINE k == thread[t].k
           new == thread'[t]
<1>1. /\ At(t, "check")
      /\ \/ Stops(t) /\ count' = count
         \/ /\ self.sub_flag[Order[k]] = 1
            /\ \/ k < 3 /\ count' = count /\ Jumps(t, "check", k + 1)
               \/ Begins(t)
  BY Checking, Zenon
<1>2. self' = self
  BY DEF Check
<1>3. \A u \in Topics : u # t => Kept(thread[u], thread'[u])
  BY Others, Zenon DEF Run
<1>4. CASE Stops(t) /\ count' = count
  <2>1. ~At(t, "reset") /\ ~At(t, "reset")' /\ ~At(t, "check")'
    <3>1. new.pc = "idle"
      BY <1>4, Zenon DEF Stops, Has
    <3> QED
      BY <1>1, <3>1 DEF At
  <2> QED
    BY <1>2, <1>3, <1>4, <2>1, FlagsQuiet, Zenon
<1>5. CASE self.sub_flag[Order[k]] = 1 /\ k < 3 /\ count' = count /\ Jumps(t, "check", k + 1)
  <2>1. new.pc = "check" /\ new.k = k + 1 /\ new.replaced = thread[t].replaced
    BY <1>5, Zenon DEF Jumps, Goes, Has
  <2>2. ReadBy(t)'
    <3>1. ReadBy(t)
      BY FlagParts, Zenon
    <3>2. \A i \in 1..3 : i < k + 1 => i < k \/ i = k
      BY Stepping DEF TypeOK, KRange
    <3> QED
      BY <1>1, <1>2, <1>5, <2>1, <3>1, <3>2, Zenon DEF ReadBy
  <2>3. \A u \in Topics : u # t => ReadBy(u)'
    BY <1>2, <1>3, FlagParts, FlagKept, Zenon
  <2>4. \A u \in Topics : \A i \in 1..3 : Resets(u, i)' <=> Resets(u, i)
    <3>1. \A i \in 1..3 : ~Resets(t, i) /\ ~Resets(t, i)'
      BY <1>1, <2>1 DEF Resets, At
    <3> QED
      BY <1>3, <3>1, FlagKept, Zenon
  <2>5. \A i \in 1..3 : FlagOf(i)'
    BY <1>2, <1>5, <2>4, FlagParts, Zenon DEF FlagOf
  <2> QED
    BY <2>2, <2>3, <2>5, FlagParts1, Zenon
<1>6. CASE self.sub_flag[Order[k]] = 1 /\ Begins(t)
  BY <1>6, FlagsBegin, Zenon
<1> QED
  BY <1>1, <1>4, <1>5, <1>6

LEMMA FlagsStep ==
  ASSUME TypeOK, Alone, FlagsSound, [Next]_vars, ~count'.overlapped, ~count'.stale
  PROVE  FlagsSound'
<1>1. CASE UNCHANGED vars
  BY <1>1 DEF vars, FlagsSound, Resets, At
<1>2. CASE CallbackJoy \/ CallbackMax \/ CallbackPose
  BY <1>2, OtherTopics, FlagsQuiet, Zenon
<1>3. ASSUME NEW t \in Topics, Store(t) PROVE FlagsSound'
  <2>1. /\ self'.sub_flag = self.sub_flag /\ count' = count
        /\ At(t, "store") /\ Jumps(t, "check", thread[t].k)
    BY <1>3, Attributes, Counting, OwnFlags, Zenon
  <2>2. thread'[t].pc = "check" /\ thread'[t].k = 1
    <3>1. thread[t].k = 1
      BY <2>1 DEF TypeOK, KRange
    <3> QED
      BY <2>1, <3>1, Zenon DEF Jumps, Goes, Has
  <2>3. ReadBy(t)' /\ \A i \in 1..3 : ~Resets(t, i) /\ ~Resets(t, i)'
    BY <2>1, <2>2 DEF ReadBy, Resets, At
  <2>4. \A u \in Topics : u # t => /\ ReadBy(u)'
                                   /\ \A i \in 1..3 : Resets(u, i)' <=> Resets(u, i)
    BY <1>3, <2>1, Others, FlagParts, FlagKept, Zenon
  <2>5. \A i \in 1..3 : FlagOf(i)'
    BY <2>1, <2>3, <2>4, FlagParts, Zenon DEF FlagOf
  <2> QED
    BY <2>3, <2>4, <2>5, FlagParts1, Zenon
<1>4. ASSUME NEW t \in Topics, Run(t), ~Check(t), ~Reset(t) PROVE FlagsSound'
  <2>1. self'.sub_flag = self.sub_flag /\ count' = count
    BY <1>4, Attributes, Counting, Zenon
  <2>2. \A u \in Topics : u # t => Kept(thread[u], thread'[u])
    BY <1>4, Others, Zenon
  <2> QED
    BY <1>4, <2>1, <2>2, BodyMoves, FlagsQuiet, Zenon
<1> QED
  BY <1>1, <1>2, <1>3, <1>4, FlagsCallback, FlagsCheck, FlagsReset, Zenon DEF Next

-----------------------------------------------------------------------------
LEMMA InitInv == Init => IInv
<1> SUFFICES ASSUME Init PROVE IInv
  OBVIOUS
<1>1. \A t \in Topics : thread[t] = Idle
  BY DEF Init
<1>2. self \in Selves
  <2>1. [t \in Topics |-> 0] \in [Topics -> {0, 1}]
    OBVIOUS
  <2> QED
    BY <2>1 DEF Init, Selves
<1>3. count \in Counts
  <2>1. [t \in Topics |-> 0] \in [Topics -> Nat]
    OBVIOUS
  <2> QED
    BY <2>1 DEF Init, Counts
<1>4. thread \in [Topics -> Locals]
  BY IdleHas DEF Init, Has
<1>5. \A t \in Topics : thread[t].pc = "idle" /\ thread[t].k = 1 /\ thread[t].ac = 0
                        /\ thread[t].asked = 0
  BY <1>1, IdleHas, Zenon DEF Has
<1>6. TypeOK
  BY <1>2, <1>3, <1>4, <1>5 DEF TypeOK, KRange, At
<1>7. \A t \in Topics : CapSound(t) /\ ChoiceSound(t)
  BY <1>5 DEF CapSound, ChoiceSound, At
<1>8. Alone
  BY <1>5 DEF Alone, InBody, At
<1>9. FlameSound
  <2>1. self.distance_flame = 0
    BY DEF Init
  <2> QED
    BY <1>5, <2>1 DEF FlameSound, At
<1>10. FlagsSound
  <2>1. /\ count.bodies = 0
        /\ \A i \in 1..3 : count.received[Order[i]] = 0 /\ self.sub_flag[Order[i]] = 0
    BY FlagTypes, <1>6 DEF Init
  <2> QED
    BY <1>5, <2>1 DEF FlagsSound, At
<1> QED
  BY <1>6, <1>7, <1>8, <1>9, <1>10 DEF IInv

LEMMA NextInv == IInv /\ [Next]_vars => IInv'
<1> SUFFICES ASSUME IInv, [Next]_vars PROVE IInv'
  OBVIOUS
<1>1. TypeOK /\ TypeOK'
  BY TypeStep DEF IInv
<1>2. \A t \in Topics : CapSound(t)' /\ ChoiceSound(t)'
  BY <1>1, CapStep, ChoiceStep, Zenon DEF IInv
<1>3. count'.overlapped \/ (Alone' /\ FlameSound')
  BY <1>1, OverlappedStays, AloneStep, FlameStep, Zenon DEF IInv
<1>4. count'.overlapped \/ count'.stale \/ FlagsSound'
  BY <1>1, OverlappedStays, FlagsStep, Zenon DEF IInv
<1> QED
  BY <1>1, <1>2, <1>3, <1>4, Zenon DEF IInv

(* The inductive invariant: types, the cap, the ifs, the count and the flags.*)
THEOREM Invariance == Spec => []IInv
BY InitInv, NextInv, PTL DEF Spec

(* callback(): the speed that is published is at most the one asked for,     *)
(* unless a /max_speed came while the body ran.                              *)
THEOREM CapTheorem == Spec => []FasterOnlyIfCapReplaced
<1>1. IInv => FasterOnlyIfCapReplaced
  BY Zenon DEF IInv, CapSound, FasterOnlyIfCapReplaced
<1> QED
  BY <1>1, Invariance, PTL

(* callback(): a triple that was taken becomes a command, unless a button or *)
(* the twist was replaced while the body ran: the four ifs of the buttons    *)
(* leave no case out.                                                        *)
THEOREM LostTheorem == Spec => []LostOnlyIfReplaced
<1>1. ASSUME IInv, NEW t \in Topics, Publishing(t), thread[t].pubtype = "none"
      PROVE  "joy" \in thread[t].replaced
  <2>1. self.joy # <<>> /\ ("joy" \in thread[t].replaced \/ \A i \in 1..4 : ~Chosen(i))
    <3>1. ChoiceSound(t) /\ At(t, "if") /\ thread[t].k = 6
      BY <1>1 DEF IInv, Publishing
    <3>2. thread[t].k > 1 /\ \A i \in 1..4 : i < thread[t].k
      BY <3>1
    <3> QED
      BY <1>1, <3>1, <3>2, Zenon DEF ChoiceSound, NotChosen
  <2>2. PICK m \in Joys : self.joy = <<m>>
    BY <1>1, <2>1 DEF IInv, TypeOK, Selves
  <2>3. Head(self.joy) = m
    BY <2>2
  <2>4. /\ Chosen(1) <=> ~m.left /\ ~m.right
        /\ Chosen(2) <=> m.left /\ ~m.right
        /\ Chosen(3) <=> ~m.left /\ m.right
        /\ Chosen(4) <=> m.left /\ m.right
    BY <2>3 DEF Chosen
  <2>5. \E i \in 1..4 : Chosen(i)
    BY <2>4
  <2> QED
    BY <2>1, <2>5, Zenon
<1>2. IInv => LostOnlyIfReplaced
  BY <1>1, Zenon DEF IInv, ChoiceSound, LostOnlyIfReplaced
<1> QED
  BY <1>2, Invariance, PTL

(* callback(): the count of the commands steered by Autoware never passes 0, *)
(* unless two bodies ran at once.                                            *)
THEOREM FlameTheorem == Spec => []FlameUnlessOverlapped
<1>1. IInv => FlameUnlessOverlapped
  BY Zenon DEF IInv, FlameSound, FlameUnlessOverlapped
<1> QED
  BY <1>1, Invariance, PTL

(* The flags: a message is used by one body, unless two bodies ran at once   *)
(* or one began on a flag that had been reset since it read it.              *)
THEOREM OnceTheorem == Spec => []OnceUnlessOverlapped
<1>1. IInv => OnceUnlessOverlapped
  BY TheTopics, Zenon DEF IInv, FlagsSound, OnceUnlessOverlapped
<1> QED
  BY <1>1, Invariance, PTL
===========================================================================
