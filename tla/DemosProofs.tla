---------------------------- MODULE DemosProofs ----------------------------
(***************************************************************************)
(* Proofs about Demos, for any sessions, threads and mutexes: mutexes, the *)
(* detector and condition variables keep their promises in every demo, a   *)
(* writer writes alone, and the detector's verdict at the end is right.    *)
(***************************************************************************)
EXTENDS Demos, MutexProofs

-----------------------------------------------------------------------------
(* The scripts.                                                             *)

Roles == {"idle", "mutex", "semaphore", "awaiter", "announcer", "producer", "consumer",
          "deadlock_a", "deadlock_b", "reader", "writer", "philosopher"}

\* The calls of the loops, by their place in a turn.
ReaderOp(k) ==
    IF k \in {1, 5} THEN "lock" ELSE IF k \in {3, 7} THEN "unlock"
    ELSE IF k = 2 THEN "count_up" ELSE IF k = 6 THEN "count_down" ELSE "yield"
WriterOp(k) == IF k = 1 THEN "wait" ELSE IF k = 3 THEN "signal" ELSE "yield"
ItemOp(k, op) ==
    IF k = 1 THEN "lock" ELSE IF k = 2 THEN op ELSE IF k = 3 THEN "unlock" ELSE "yield"

\* A loop of two turns.
Place(p, n) == IF p <= n THEN p ELSE p - n

\* What is at a place of a loop of two turns.
LEMMA TwoTurns ==
    ASSUME NEW C, NEW s \in Seq(C), NEW n \in Nat, Len(s) = n
    PROVE  /\ Len(s \o s) = 2 * n
           /\ \A p \in 1..(2 * n) : Place(p, n) \in 1..n /\ (s \o s)[p] = s[Place(p, n)]
BY DEF Place

\* The scripts, call by call.
LEMMA ReaderScript ==
    ASSUME NEW t, role[t] = "reader"
    PROVE  /\ Len(Script(t)) = 16
           /\ \A p \in 1..16 : /\ Script(t)[p].op = ReaderOp(Place(p, 8))
                               /\ Script(t)[p].op \in {"lock", "unlock"} => Script(t)[p].m = 0
<1>1. Script(t) = ReaderTurn \o ReaderTurn
  BY DEF Script
<1>2. Len(ReaderTurn) = 8 /\ ReaderTurn \in Seq({ReaderTurn[k] : k \in 1..8})
  BY DEF ReaderTurn
<1>3. \A k \in 1..8 : /\ ReaderTurn[k].op = ReaderOp(k)
                      /\ ReaderTurn[k].op \in {"lock", "unlock"} => ReaderTurn[k].m = 0
  BY DEF ReaderTurn, ReaderOp, Locking, Unlocking, Does, Yielding
<1>4. /\ Len(ReaderTurn \o ReaderTurn) = 16
      /\ \A p \in 1..16 : /\ Place(p, 8) \in 1..8
                          /\ (ReaderTurn \o ReaderTurn)[p] = ReaderTurn[Place(p, 8)]
  <2> HIDE DEF ReaderTurn
  <2> DEFINE C == {ReaderTurn[k] : k \in 1..8}
  <2>1. ReaderTurn \in Seq(C) /\ Len(ReaderTurn) = 8
    BY <1>2
  <2> HIDE DEF C
  <2>2. /\ Len(ReaderTurn \o ReaderTurn) = 2 * 8
        /\ \A p \in 1..(2 * 8) : /\ Place(p, 8) \in 1..8
                                 /\ (ReaderTurn \o ReaderTurn)[p] = ReaderTurn[Place(p, 8)]
    BY <2>1, TwoTurns
  <2>3. 2 * 8 = 16
    OBVIOUS
  <2>4. QED
    BY <2>2, <2>3, Zenon
<1>5. ASSUME NEW p \in 1..16
      PROVE  /\ Script(t)[p].op = ReaderOp(Place(p, 8))
             /\ Script(t)[p].op \in {"lock", "unlock"} => Script(t)[p].m = 0
  <2>1. Script(t)[p] = ReaderTurn[Place(p, 8)] /\ Place(p, 8) \in 1..8
    BY <1>1, <1>4
  <2> HIDE DEF ReaderTurn
  <2>2. QED
    BY <1>3, <2>1
<1>6. Len(Script(t)) = 16
  BY <1>1, <1>4
<1>7. QED
  BY <1>5, <1>6

LEMMA WriterScript ==
    ASSUME NEW t, role[t] = "writer"
    PROVE  /\ Len(Script(t)) = 8
           /\ \A p \in 1..8 : Script(t)[p].op = WriterOp(Place(p, 4))
<1>1. Script(t) = WriterTurn \o WriterTurn
  BY DEF Script
<1>2. Len(WriterTurn) = 4 /\ WriterTurn \in Seq({WriterTurn[k] : k \in 1..4})
  BY DEF WriterTurn
<1>3. \A k \in 1..4 : WriterTurn[k].op = WriterOp(k)
  BY DEF WriterTurn, WriterOp, Does, Yielding
<1>4. /\ Len(WriterTurn \o WriterTurn) = 8
      /\ \A p \in 1..8 : /\ Place(p, 4) \in 1..4
                         /\ (WriterTurn \o WriterTurn)[p] = WriterTurn[Place(p, 4)]
  <2> HIDE DEF WriterTurn
  <2>1. 2 * 4 = 8 /\ 4 \in Nat
    OBVIOUS
  <2>2. QED
    BY <1>2, <2>1, TwoTurns
<1>5. QED
  BY <1>1, <1>3, <1>4

LEMMA ProducerScript ==
    ASSUME NEW t, role[t] = "producer"
    PROVE  /\ Len(Script(t)) = 8
           /\ \A p \in 1..8 : /\ Script(t)[p].op = ItemOp(Place(p, 4), "put")
                              /\ Script(t)[p].op \in {"lock", "unlock"} => Script(t)[p].m = 0
<1>1. Script(t) = ProducerTurn \o ProducerTurn
  BY DEF Script
<1>2. Len(ProducerTurn) = 4 /\ ProducerTurn \in Seq({ProducerTurn[k] : k \in 1..4})
  BY DEF ProducerTurn
<1>3. \A k \in 1..4 : /\ ProducerTurn[k].op = ItemOp(k, "put")
                      /\ ProducerTurn[k].op \in {"lock", "unlock"} => ProducerTurn[k].m = 0
  BY DEF ProducerTurn, ItemOp, Locking, Unlocking, Does, Yielding
<1>4. /\ Len(ProducerTurn \o ProducerTurn) = 8
      /\ \A p \in 1..8 : /\ Place(p, 4) \in 1..4
                         /\ (ProducerTurn \o ProducerTurn)[p] = ProducerTurn[Place(p, 4)]
  <2> HIDE DEF ProducerTurn
  <2>1. 2 * 4 = 8 /\ 4 \in Nat
    OBVIOUS
  <2>2. QED
    BY <1>2, <2>1, TwoTurns
<1>5. QED
  BY <1>1, <1>3, <1>4

LEMMA ConsumerScript ==
    ASSUME NEW t, role[t] = "consumer"
    PROVE  /\ Len(Script(t)) = 8
           /\ \A p \in 1..8 : /\ Script(t)[p].op = ItemOp(Place(p, 4), "take")
                              /\ Script(t)[p].op \in {"lock", "unlock"} => Script(t)[p].m = 0
<1>1. Script(t) = ConsumerTurn \o ConsumerTurn
  BY DEF Script
<1>2. Len(ConsumerTurn) = 4 /\ ConsumerTurn \in Seq({ConsumerTurn[k] : k \in 1..4})
  BY DEF ConsumerTurn
<1>3. \A k \in 1..4 : /\ ConsumerTurn[k].op = ItemOp(k, "take")
                      /\ ConsumerTurn[k].op \in {"lock", "unlock"} => ConsumerTurn[k].m = 0
  BY DEF ConsumerTurn, ItemOp, Locking, Unlocking, Does, Yielding
<1>4. /\ Len(ConsumerTurn \o ConsumerTurn) = 8
      /\ \A p \in 1..8 : /\ Place(p, 4) \in 1..4
                         /\ (ConsumerTurn \o ConsumerTurn)[p] = ConsumerTurn[Place(p, 4)]
  <2> HIDE DEF ConsumerTurn
  <2>1. 2 * 4 = 8 /\ 4 \in Nat
    OBVIOUS
  <2>2. QED
    BY <1>2, <2>1, TwoTurns
<1>5. QED
  BY <1>1, <1>3, <1>4

\* The bodies without a loop.
LEMMA ShortScripts ==
    ASSUME NEW t
    PROVE  /\ role[t] = "idle" => Len(Script(t)) = 0
           /\ role[t] = "semaphore" =>
                 /\ Len(Script(t)) = 3 /\ Script(t)[1].op = "wait"
                 /\ Script(t)[2].op = "yield" /\ Script(t)[3].op = "signal"
           /\ role[t] \in {"mutex", "awaiter", "announcer"} =>
                 /\ Len(Script(t)) = 3
                 /\ Script(t)[1].op = "lock" /\ Script(t)[1].m = 0
                 /\ Script(t)[3].op = "unlock" /\ Script(t)[3].m = 0
           /\ role[t] = "mutex" => Script(t)[2].op = "yield"
           /\ role[t] = "awaiter" => Script(t)[2].op = "await"
           /\ role[t] = "announcer" => Script(t)[2].op = "announce"
<1>1. CASE role[t] = "idle"
  <2>1. Script(t) = << >>
    BY <1>1 DEF Script
  <2>2. QED
    BY <1>1, <2>1
<1>2. CASE role[t] = "semaphore"
  <2>1. Script(t) = <<Does("wait"), Yielding, Does("signal")>>
    BY <1>2 DEF Script
  <2>2. QED
    BY <1>2, <2>1 DEF Does, Yielding
<1>3. CASE role[t] \in {"mutex", "awaiter", "announcer"}
  <2>1. PICK call : /\ Script(t) = <<Locking(0), call, Unlocking(0)>>
                    /\ role[t] = "mutex" => call.op = "yield"
                    /\ role[t] = "awaiter" => call.op = "await"
                    /\ role[t] = "announcer" => call.op = "announce"
    BY <1>3 DEF Script, Does, Yielding
  <2>2. QED
    BY <1>3, <2>1 DEF Locking, Unlocking
<1>4. QED
  BY <1>1, <1>2, <1>3

\* The bodies that take two mutexes.
Nested(s) ==
    /\ Len(s) = 5 \/ Len(s) = 7
    /\ \A p \in 1..Len(s) : s[p].op \in {"yield", "lock", "unlock"}
    /\ Len(s) = 5 => /\ s[1].op = "lock" /\ s[2].op = "yield" /\ s[3].op = "lock"
                     /\ s[4].op = "unlock" /\ s[5].op = "unlock"
                     /\ s[1].m = s[5].m /\ s[3].m = s[4].m
    /\ Len(s) = 7 => /\ s[1].op = "yield" /\ s[2].op = "lock" /\ s[3].op = "yield"
                     /\ s[4].op = "lock" /\ s[5].op = "yield"
                     /\ s[6].op = "unlock" /\ s[7].op = "unlock"
                     /\ s[2].m = s[7].m /\ s[4].m = s[6].m

\* The bodies that take two mutexes take them and give them back in order.
LEMMA NestedScripts ==
    ASSUME NEW t, role[t] \in {"deadlock_a", "deadlock_b", "philosopher"}
    PROVE  Nested(Script(t))
<1>1. CASE role[t] = "philosopher"
  <2>1. PICK a, b : Script(t) = <<Yielding, Locking(a), Yielding, Locking(b), Yielding,
                                  Unlocking(b), Unlocking(a)>>
    <3>1. Script(t) = Philosopher(t)
      BY <1>1 DEF Script
    <3>2. QED
      BY <3>1 DEF Philosopher
  <2>2. QED
    BY <2>1 DEF Nested, Locking, Unlocking, Yielding
<1>2. CASE role[t] \in {"deadlock_a", "deadlock_b"}
  <2>1. PICK a, b : Script(t) = <<Locking(a), Yielding, Locking(b), Unlocking(b), Unlocking(a)>>
    <3>1. Script(t) = TwoLocks(0, 1) \/ Script(t) = TwoLocks(1, 0)
      BY <1>2 DEF Script
    <3>2. QED
      BY <3>1 DEF TwoLocks
  <2>2. QED
    BY <2>1 DEF Nested, Locking, Unlocking, Yielding
<1>3. QED
  BY <1>1, <1>2

\* Every lock of a script is followed by its unlock, and no mutex is unlocked
\* that has not been locked.
Paired(s) ==
    /\ Len(s) \in Nat
    /\ \A i \in 1..Len(s) :
          s[i].op = "lock" => \E j \in (i + 1)..Len(s) : s[j].op = "unlock" /\ s[j].m = s[i].m
    /\ \A j \in 1..Len(s) :
          s[j].op = "unlock" => \E i \in 1..(j - 1) : s[i].op = "lock" /\ s[i].m = s[j].m

\* All scripts lock and unlock in pairs.
LEMMA ScriptsPaired ==
    ASSUME NEW t, role[t] \in Roles
    PROVE  Paired(Script(t))
<1> DEFINE s == Script(t)
<1>1. CASE role[t] = "reader"
  <2>1. /\ Len(s) = 16
        /\ \A p \in 1..16 : /\ s[p].op = ReaderOp(Place(p, 8))
                            /\ s[p].op \in {"lock", "unlock"} => s[p].m = 0
    BY <1>1, ReaderScript
  <2> HIDE DEF s
  <2>2. \A p \in 1..16 : /\ s[p].op = "lock" <=> p \in {1, 5, 9, 13}
                         /\ s[p].op = "unlock" <=> p \in {3, 7, 11, 15}
    BY <2>1 DEF ReaderOp, Place
  <2>3. ASSUME NEW i \in 1..16, s[i].op = "lock"
        PROVE  i + 2 \in (i + 1)..16 /\ s[i + 2].op = "unlock" /\ s[i + 2].m = s[i].m
    BY <2>1, <2>2, <2>3
  <2>4. ASSUME NEW j \in 1..16, s[j].op = "unlock"
        PROVE  j - 2 \in 1..(j - 1) /\ s[j - 2].op = "lock" /\ s[j - 2].m = s[j].m
    BY <2>1, <2>2, <2>4
  <2>5. QED
    BY <2>1, <2>3, <2>4 DEF Paired, s
<1>2. CASE role[t] \in {"producer", "consumer"}
  <2>1. PICK op \in {"put", "take"} :
            /\ Len(s) = 8
            /\ \A p \in 1..8 : /\ s[p].op = ItemOp(Place(p, 4), op)
                               /\ s[p].op \in {"lock", "unlock"} => s[p].m = 0
    BY <1>2, ProducerScript, ConsumerScript
  <2> HIDE DEF s
  <2>2. \A p \in 1..8 : /\ s[p].op = "lock" <=> p \in {1, 5}
                        /\ s[p].op = "unlock" <=> p \in {3, 7}
    BY <2>1 DEF ItemOp, Place
  <2>3. ASSUME NEW i \in 1..8, s[i].op = "lock"
        PROVE  i + 2 \in (i + 1)..8 /\ s[i + 2].op = "unlock" /\ s[i + 2].m = s[i].m
    BY <2>1, <2>2, <2>3
  <2>4. ASSUME NEW j \in 1..8, s[j].op = "unlock"
        PROVE  j - 2 \in 1..(j - 1) /\ s[j - 2].op = "lock" /\ s[j - 2].m = s[j].m
    BY <2>1, <2>2, <2>4
  <2>5. QED
    BY <2>1, <2>3, <2>4 DEF Paired, s
<1>3. CASE role[t] = "writer"
  <2>1. Len(s) = 8 /\ \A p \in 1..8 : s[p].op = WriterOp(Place(p, 4))
    BY <1>3, WriterScript
  <2>2. \A p \in 1..8 : s[p].op \notin {"lock", "unlock"}
    BY <2>1 DEF WriterOp
  <2>3. QED
    BY <2>1, <2>2 DEF Paired
<1>4. CASE role[t] \in {"idle", "semaphore", "mutex", "awaiter", "announcer"}
  <2>1. CASE role[t] = "idle"
    BY <2>1, ShortScripts DEF Paired
  <2>2. CASE role[t] = "semaphore"
    <3>1. Len(s) = 3 /\ \A p \in 1..3 : s[p].op \notin {"lock", "unlock"}
      BY <2>2, ShortScripts
    <3>2. QED
      BY <3>1 DEF Paired
  <2>3. CASE role[t] \in {"mutex", "awaiter", "announcer"}
    <3>0. s[2].op \in {"yield", "await", "announce"}
      BY <2>3, ShortScripts
    <3>1. /\ Len(s) = 3 /\ s[1].op = "lock" /\ s[3].op = "unlock" /\ s[1].m = s[3].m
          /\ s[2].op \notin {"lock", "unlock"}
      BY <2>3, <3>0, ShortScripts
    <3> HIDE DEF s
    <3>2. QED
      BY <3>1 DEF Paired, s
  <2>4. QED
    BY <1>4, <2>1, <2>2, <2>3
<1>5. CASE role[t] \in {"deadlock_a", "deadlock_b", "philosopher"}
  <2>1. Nested(s)
    BY <1>5, NestedScripts
  <2> HIDE DEF s
  <2>2. Paired(s)
    <3>1. CASE Len(s) = 5
      <4>1. \A i \in 1..5 : /\ s[i].op = "lock" => i \in {1, 3}
                            /\ s[i].op = "unlock" => i \in {4, 5}
        BY <2>1, <3>1 DEF Nested
      <4>2. /\ s[5].op = "unlock" /\ s[5].m = s[1].m /\ s[1].op = "lock"
            /\ s[4].op = "unlock" /\ s[4].m = s[3].m /\ s[3].op = "lock"
        BY <2>1, <3>1 DEF Nested
      <4>3. QED
        BY <3>1, <4>1, <4>2 DEF Paired
    <3>2. CASE Len(s) = 7
      <4>1. \A i \in 1..7 : /\ s[i].op = "lock" => i \in {2, 4}
                            /\ s[i].op = "unlock" => i \in {6, 7}
        BY <2>1, <3>2 DEF Nested
      <4>2. /\ s[7].op = "unlock" /\ s[7].m = s[2].m /\ s[2].op = "lock"
            /\ s[6].op = "unlock" /\ s[6].m = s[4].m /\ s[4].op = "lock"
        BY <2>1, <3>2 DEF Nested
      <4>3. QED
        BY <3>2, <4>1, <4>2 DEF Paired
    <3>3. QED
      BY <2>1, <3>1, <3>2 DEF Nested
  <2>3. QED
    BY <2>2 DEF s
<1>6. QED
  BY <1>1, <1>2, <1>3, <1>4, <1>5 DEF Roles

AllPaired == \A t : role[t] \in Roles => Paired(Script(t))

LEMMA EachPaired == AllPaired
BY ScriptsPaired DEF AllPaired

\* The mutexes that a script has locked and not unlocked before its call p.
HeldAt(s, p) ==
    {m \in Mutexes : \E i \in 1..(p - 1) :
        /\ s[i].op = "lock" /\ s[i].m = m
        /\ \A j \in (i + 1)..(p - 1) : s[j].op = "unlock" => s[j].m # m}

\* How a call changes what its thread has locked and not unlocked.
LEMMA HeldStep ==
    ASSUME NEW s, NEW p \in Nat \ {0}
    PROVE  /\ s[p].op \notin {"lock", "unlock"} => HeldAt(s, p + 1) = HeldAt(s, p)
           /\ s[p].op = "lock" /\ s[p].m \in Mutexes =>
                 HeldAt(s, p + 1) = HeldAt(s, p) \union {s[p].m}
           /\ s[p].op = "unlock" => HeldAt(s, p + 1) = HeldAt(s, p) \ {s[p].m}
<1> DEFINE At(m, i, n) == /\ s[i].op = "lock" /\ s[i].m = m
                          /\ \A j \in (i + 1)..(n - 1) : s[j].op = "unlock" => s[j].m # m
<1>1. \A m \in Mutexes, n \in {p, p + 1} : m \in HeldAt(s, n) <=> \E i \in 1..(n - 1) : At(m, i, n)
  BY DEF HeldAt
<1>2. HeldAt(s, p) \subseteq Mutexes /\ HeldAt(s, p + 1) \subseteq Mutexes
  BY DEF HeldAt
<1>3. \A m \in Mutexes, i \in 1..(p - 1) :
          At(m, i, p + 1) <=> At(m, i, p) /\ (s[p].op = "unlock" => s[p].m # m)
  <2>1. \A i \in 1..(p - 1) : (i + 1)..(p + 1 - 1) = ((i + 1)..(p - 1)) \union {p}
    OBVIOUS
  <2>2. QED
    BY <2>1
<1>4. \A m \in Mutexes : At(m, p, p + 1) <=> s[p].op = "lock" /\ s[p].m = m
  OBVIOUS
<1>5. 1..(p + 1 - 1) = (1..(p - 1)) \union {p}
  OBVIOUS
<1> HIDE DEF At
<1>6. \A m \in Mutexes :
          m \in HeldAt(s, p + 1) <=> \/ m \in HeldAt(s, p) /\ (s[p].op = "unlock" => s[p].m # m)
                                     \/ s[p].op = "lock" /\ s[p].m = m
  BY <1>1, <1>3, <1>4, <1>5
<1>7. QED
  BY <1>2, <1>6

\* Nothing is left locked at the end of a script.
LEMMA HeldEnds ==
    ASSUME NEW s, Paired(s)
    PROVE  HeldAt(s, 1) = {} /\ HeldAt(s, Len(s) + 1) = {}
<1>1. HeldAt(s, 1) = {}
  BY DEF HeldAt
<1>2. Len(s) \in Nat /\ Len(s) + 1 - 1 = Len(s)
  BY DEF Paired
<1>3. ASSUME NEW m \in Mutexes, m \in HeldAt(s, Len(s) + 1) PROVE FALSE
  <2>1. PICK i \in 1..Len(s) :
            /\ s[i].op = "lock" /\ s[i].m = m
            /\ \A j \in (i + 1)..Len(s) : s[j].op = "unlock" => s[j].m # m
    BY <1>2, <1>3 DEF HeldAt
  <2>2. QED
    BY <2>1 DEF Paired
<1>4. QED
  BY <1>1, <1>3 DEF HeldAt

-----------------------------------------------------------------------------
(* The objects in the demos: every step is a step of CondVar, or a call of *)
(* the semaphore, so that what is proved of the mutexes, the detector and   *)
(* the condition variables holds in every demo.                             *)

\* The demos that create threads for a function.
DemosOf(r) ==
    IF r \in {"awaiter", "announcer"} THEN {"condition"}
    ELSE IF r \in {"producer", "consumer"} THEN {"producer_consumer"}
    ELSE IF r \in {"deadlock_a", "deadlock_b"} THEN {"deadlock", "deadlock_avoid"}
    ELSE IF r \in {"reader", "writer"} THEN {"readers_writers"}
    ELSE IF r = "philosopher" THEN {"philosophers"}
    ELSE {r}

\* What the menu keeps in order: threads without a function come from
\* handleCreate, the others play in the demo that runs, ...
MenuInv ==
    /\ meddled = 0
    /\ ~running => InMain
    /\ pos \in [Tids -> Nat \ {0}]
    /\ \A t \in pool : t < next_tid
    /\ \A t \in Tids : t >= next_tid => role[t] = "idle" /\ pos[t] = 1
    /\ \A t \in Tids : role[t] \in Roles
    /\ \A t \in pool : role[t] # "idle" => demo \in DemosOf(role[t])

\* ... where the threads are in their scripts, ...
ScriptInv ==
    \A t \in pool :
        /\ pos[t] \in 1..(Len(Script(t)) + 1)
        /\ finished[t] => pos[t] = Len(Script(t)) + 1
        /\ \A i \in 1..(pos[t] - 1) :
              Script(t)[i].op = "lock" => Script(t)[i].m \in Mutexes

\* ... and the semaphore, whose queue is the set of threads asleep in wait().
SemInv ==
    /\ sem_count \in Nat
    /\ sem_queue \in Seq(Tids) /\ Distinct(sem_queue)
    /\ sem_waiting \subseteq pool
    /\ \A t \in sem_waiting : ~finished[t] /\ waiting[t] = NoMutex /\ cv_pc[t] = "out"
    /\ \A t \in Tids : InQueue(sem_queue, t) <=> t \in sem_waiting /\ state[t] = "BLOCKED"

BaseInv == CvInv /\ MenuInv /\ ScriptInv /\ SemInv

\* The steps of the demos are steps of CondVar beside the semaphore, ...
BesideSem ==
    /\ [CvNext]_all_vars
    /\ UNCHANGED <<demo_sem_vars, meddled>>
    /\ InThread => current \notin sem_waiting

\* ... or the three things that wait() and signal() of the semaphore do.
Acquires ==
    /\ sem_count > 0 /\ sem_count' = sem_count - 1
    /\ sem_waiting' = sem_waiting \ {current}
    /\ UNCHANGED <<sem_queue, coop_vars>>

FallsAsleep ==
    /\ sem_count = 0 /\ sem_count' = 0
    /\ sem_queue' = Append(sem_queue, current)
    /\ sem_waiting' = sem_waiting \union {current}
    /\ Block

Signals ==
    /\ sem_count' = sem_count + 1
    /\ sem_waiting' = sem_waiting
    /\ IF sem_queue = << >>
       THEN UNCHANGED <<sem_queue, state, self_woken>>
       ELSE sem_queue' = Tail(sem_queue) /\ WakeEffect(Head(sem_queue))
    /\ UNCHANGED <<next_tid, pool, finished, ended, current, on_cpu>>

SemStep ==
    /\ InThread /\ waiting[current] = NoMutex /\ cv_pc[current] = "out"
    /\ UNCHANGED <<mutex_vars, cv_vars>>
    /\ Acquires \/ FallsAsleep \/ (Signals /\ current \notin sem_waiting)

\* What wait() and signal() of the semaphore's module do.
LEMMA SemCalls ==
    ASSUME sem_count \in Nat
    PROVE  /\ S!Wait \/ S!WaitResume => Acquires \/ FallsAsleep
           /\ S!Signal => Signals
           /\ S!WaitResume => InThread /\ current \in sem_waiting
<1>0. \A old, new : S!AfterSetState(old, new) = AfterSetState(old, new)
  BY DEF S!AfterSetState, AfterSetState, S!SetStateOk, SetStateOk, S!Successors, Successors
<1>1. S!Acquire /\ sem_count # 0 => Acquires
  BY DEF S!Acquire, Acquires, S!coop_vars, coop_vars
<1>2. S!WaitTurn /\ sem_count = 0 => FallsAsleep
  BY <1>0 DEF S!WaitTurn, FallsAsleep, S!Block, Block, S!InThread, InThread
<1>3. S!Wait \/ S!WaitResume => Acquires \/ FallsAsleep
  BY <1>1, <1>2 DEF S!Wait, S!WaitResume
<1>4. S!Signal => Signals
  BY <1>0 DEF S!Signal, Signals, S!WakeFirst, S!WakeEffect, WakeEffect
<1>5. QED
  BY <1>3, <1>4 DEF S!WaitResume, S!InThread, InThread

\* Who makes a call, and where it is in the script.
LEMMA CallFacts ==
    ASSUME NEW t, role[t] \in Roles, NEW p \in 1..Len(Script(t)), NEW op, Script(t)[p].op = op
    PROVE  /\ op \in {"wait", "signal"} => role[t] \in {"semaphore", "writer"}
           /\ op \in {"count_up", "count_down"} => role[t] = "reader"
           /\ op = "await" => role[t] = "awaiter" /\ p = 2
           /\ op = "announce" => role[t] = "announcer" /\ p = 2
           /\ op = "put" => role[t] = "producer" /\ p \in {2, 6}
           /\ op = "take" => role[t] = "consumer" /\ p \in {2, 6}
           /\ op \in {"lock", "unlock"} =>
                 /\ role[t] \notin {"idle", "semaphore", "writer"}
                 /\ role[t] \in {"awaiter", "announcer", "producer", "consumer", "reader"} =>
                       Script(t)[p].m = 0
<1> DEFINE s == Script(t)
<1>1. CASE role[t] = "reader"
  <2>1. p \in 1..16 /\ op = ReaderOp(Place(p, 8)) /\ (op \in {"lock", "unlock"} => s[p].m = 0)
    BY <1>1, ReaderScript
  <2>2. QED
    BY <1>1, <2>1 DEF ReaderOp
<1>2. CASE role[t] = "producer"
  <2>1. p \in 1..8 /\ op = ItemOp(Place(p, 4), "put") /\ (op \in {"lock", "unlock"} => s[p].m = 0)
    BY <1>2, ProducerScript
  <2>2. QED
    BY <1>2, <2>1 DEF ItemOp, Place
<1>3. CASE role[t] = "consumer"
  <2>1. p \in 1..8 /\ op = ItemOp(Place(p, 4), "take") /\ (op \in {"lock", "unlock"} => s[p].m = 0)
    BY <1>3, ConsumerScript
  <2>2. QED
    BY <1>3, <2>1 DEF ItemOp, Place
<1>4. CASE role[t] = "writer"
  <2>1. p \in 1..8 /\ op = WriterOp(Place(p, 4))
    BY <1>4, WriterScript
  <2>2. QED
    BY <1>4, <2>1 DEF WriterOp
<1>5. CASE role[t] \in {"idle", "semaphore", "mutex", "awaiter", "announcer"}
  <2>1. CASE role[t] = "idle"
    BY <2>1, ShortScripts
  <2>2. CASE role[t] # "idle"
    <3>0. Len(s) = 3
      BY <1>5, <2>2, ShortScripts
    <3>1. p \in {1, 2, 3}
      BY <3>0
    <3> HIDE DEF s
    <3>2. QED
      BY <1>5, <2>2, <3>1, ShortScripts
  <2>3. QED
    BY <2>1, <2>2
<1>6. CASE role[t] \in {"deadlock_a", "deadlock_b", "philosopher"}
  <2>1. Nested(s)
    BY <1>6, NestedScripts
  <2>2. op \in {"yield", "lock", "unlock"}
    BY <2>1 DEF Nested
  <2>3. QED
    BY <1>6, <2>2
<1>7. QED
  BY <1>1, <1>2, <1>3, <1>4, <1>5, <1>6 DEF Roles

\* The thread that executes is a thread of the demo, RUNNING and not finished.
LEMMA Executing ==
    ASSUME BaseInv, InThread
    PROVE  /\ current \in pool /\ current \in Tids /\ state[current] = "RUNNING"
           /\ ~finished[current] /\ role[current] \in Roles /\ running /\ ~InMain
<1>1. LockInv /\ Calm
  BY DEF BaseInv, CvInv, WakeInv, MenuInv
<1>2. current \in Tids /\ ~InMain
  BY <1>1 DEF LockInv, CoopInv, CoopTypeOK, InThread, InMain, NoThread, Tids
<1>3. state[current] = "RUNNING" /\ current \in pool
  BY <1>1, <1>2 DEF LockInv, CoopInv, CoopSafety, CpuIsRunning, Calm, InThread, InMain
<1>4. ~finished[current]
  BY <1>1, <1>2, <1>3 DEF LockInv, CoopInv, CoopSafety, EndedIsFinished
<1>5. QED
  BY <1>2, <1>3, <1>4 DEF BaseInv, MenuInv

\* A call of the running thread.
LEMMA Calling ==
    ASSUME BaseInv, NEW op, AtCall(op)
    PROVE  /\ InThread /\ CvBody /\ waiting[current] = NoMutex /\ cv_pc[current] = "out"
           /\ current \notin sem_waiting
           /\ pos[current] \in 1..Len(Script(current)) /\ Script(current)[pos[current]].op = op
BY DEF AtCall, CvBody, InBody

\* The mutex of an unlock, or of a wait on a condition variable, exists.
LEMMA LockedBefore ==
    ASSUME BaseInv, NEW op, AtCall(op)
    PROVE  /\ op = "unlock" => CallMutex \in Mutexes
           /\ op \in {"await", "put", "take"} => 0 \in Mutexes
<1> DEFINE s == Script(current)
           p == pos[current]
<1>1. /\ p \in 1..Len(s) /\ s[p].op = op /\ current \in pool /\ role[current] \in Roles
      /\ \A i \in 1..(p - 1) : s[i].op = "lock" => s[i].m \in Mutexes
  BY Calling, Executing DEF BaseInv, ScriptInv
<1>2. ASSUME op = "unlock" PROVE CallMutex \in Mutexes
  <2>1. Paired(s)
    BY <1>1, ScriptsPaired
  <2>2. QED
    BY <1>1, <1>2, <2>1 DEF Paired, CallMutex
<1>3. ASSUME op \in {"await", "put", "take"} PROVE 0 \in Mutexes
  <2>1. p \in {2, 6} /\ role[current] \in {"awaiter", "producer", "consumer"}
    BY <1>1, <1>3, CallFacts
  <2>2. s[1].op = "lock" /\ s[1].m = 0
    <3>1. CASE role[current] = "awaiter"
      BY <3>1, ShortScripts
    <3>2. CASE role[current] = "producer"
      <4>1. 1 \in 1..8 /\ ItemOp(Place(1, 4), "put") = "lock"
        BY DEF ItemOp, Place
      <4>2. QED
        BY <3>2, <4>1, ProducerScript
    <3>3. CASE role[current] = "consumer"
      <4>1. 1 \in 1..8 /\ ItemOp(Place(1, 4), "take") = "lock"
        BY DEF ItemOp, Place
      <4>2. QED
        BY <3>3, <4>1, ConsumerScript
    <3>4. QED
      BY <2>1, <3>1, <3>2, <3>3
  <2>3. 1 \in 1..(p - 1)
    BY <2>1
  <2> HIDE DEF s, p
  <2>4. QED
    BY <1>1, <2>2, <2>3
<1>4. QED
  BY <1>2, <1>3

\* The state of the globals and the menu does not matter to the objects.
LEMMA ThreadCallKinds ==
    ASSUME BaseInv, ThreadCall
    PROVE  BesideSem \/ SemStep
<1>1. sem_count \in Nat /\ (\A t \in sem_waiting : waiting[t] = NoMutex /\ cv_pc[t] = "out")
  BY DEF BaseInv, SemInv
<1>2. ASSUME NEW op, AtCall(op)
      PROVE  /\ CvBody /\ InThread /\ waiting[current] = NoMutex /\ cv_pc[current] = "out"
             /\ current \notin sem_waiting
  BY <1>2, Calling
<1>3. ASSUME UNCHANGED demo_sem_vars, UNCHANGED meddled, CvNext,
             InThread => current \notin sem_waiting
      PROVE  BesideSem
  BY <1>3 DEF BesideSem
<1>4. CASE DemoYield
  <2>1. CvSched
    BY <1>2, <1>4 DEF DemoYield, CvSched
  <2>2. QED
    BY <1>2, <1>3, <1>4, <2>1 DEF DemoYield, CvNext, mutex_vars
<1>5. CASE DemoLock
  <2>1. PICK m \in Mutexes : LockFree(m) \/ LockBusy(m)
    BY <1>5 DEF DemoLock
  <2>2. CvLock(m)
    BY <1>2, <1>5, <2>1 DEF DemoLock, CvLock
  <2>3. UNCHANGED meddled
    BY <2>1 DEF LockFree, LockBusy, Take, WaitFor
  <2>4. CvNext
    BY <2>2 DEF CvNext
  <2>5. QED
    BY <1>2, <1>3, <1>5, <2>3, <2>4 DEF DemoLock
<1>6. CASE DemoUnlock
  <2>1. CallMutex \in Mutexes
    BY <1>6, LockedBefore DEF DemoUnlock
  <2>2. CvLock(CallMutex)
    BY <1>2, <1>6 DEF DemoUnlock, CvLock
  <2>3. CvNext
    BY <2>1, <2>2 DEF CvNext
  <2>4. QED
    BY <1>2, <1>3, <1>6, <2>3 DEF DemoUnlock, Unlock
<1>7. ASSUME NEW op, AtCall(op), UNCHANGED <<mutex_vars, cv_vars>>,
             S!Wait \/ S!Signal \/ UNCHANGED <<coop_vars, demo_sem_vars>>
      PROVE  BesideSem \/ SemStep
  <2>1. CASE S!Wait \/ S!Signal
    BY <1>1, <1>2, <1>7, <2>1, SemCalls DEF SemStep
  <2>2. CASE UNCHANGED <<coop_vars, demo_sem_vars>>
    BY <1>2, <1>7, <2>2 DEF BesideSem, all_vars, vars, mutex_vars
  <2>3. QED
    BY <1>7, <2>1, <2>2
<1>8. CASE DemoWait \/ DemoSignal \/ CountUp \/ CountDown
  BY <1>7, <1>8 DEF DemoWait, DemoSignal, CountUp, CountDown
<1>9. ASSUME NEW op \in {"await", "put", "take"}, AtCall(op), NEW c \in Conds, WaitOn(c)
      PROVE  BesideSem
  <2>1. WaitRelease(c, 0) /\ 0 \in Mutexes /\ UNCHANGED demo_sem_vars
    BY <1>9, LockedBefore DEF WaitOn
  <2>2. CvNext /\ UNCHANGED meddled
    BY <2>1 DEF CvNext, WaitRelease, Unlock
  <2>3. QED
    BY <1>2, <1>3, <1>9, <2>1, <2>2
<1>10. ASSUME NEW op, AtCall(op), NEW c \in Conds, PassedAndSignal(c)
       PROVE  BesideSem
  <2>1. Signal(c) /\ UNCHANGED demo_sem_vars
    BY <1>10 DEF PassedAndSignal
  <2>2. CvNext /\ UNCHANGED meddled
    BY <2>1 DEF CvNext, Signal, NotifyFrame, mutex_vars
  <2>3. QED
    BY <1>2, <1>3, <1>10, <2>1, <2>2
<1>11. CASE Await
  <2>1. CASE UNCHANGED <<all_vars, demo_sem_vars>>
    BY <1>2, <1>11, <2>1 DEF Await, BesideSem, all_vars, vars, mutex_vars
  <2>2. CASE WaitOn("condition")
    BY <1>9, <1>11, <2>2, CondsAssumption DEF Await
  <2>3. QED
    BY <1>11, <2>1, <2>2 DEF Await
<1>12. CASE Announce
  BY <1>10, <1>12, CondsAssumption DEF Announce
<1>13. CASE Put
  <2>1. AtCall("put") /\ (WaitOn("not_full") \/ PassedAndSignal("not_empty"))
    BY <1>13 DEF Put
  <2>2. QED
    BY <1>9, <1>10, <2>1, CondsAssumption
<1>14. CASE TakeItem
  <2>1. AtCall("take") /\ (WaitOn("not_empty") \/ PassedAndSignal("not_full"))
    BY <1>14 DEF TakeItem
  <2>2. QED
    BY <1>9, <1>10, <2>1, CondsAssumption
<1>15. CASE DemoInside
  <2>1. ASSUME NEW m \in Mutexes, LockResume(m), UNCHANGED <<cv_vars, demo_sem_vars>>
        PROVE  BesideSem
    <3>1. CvNext /\ UNCHANGED meddled
      BY <2>1 DEF CvNext, CvLock, LockResume, WaitFor, Take
    <3>2. current \notin sem_waiting
      BY <1>1, <2>1, MutexAssumption DEF LockResume
    <3>3. QED
      BY <1>3, <2>1, <3>1, <3>2
  <2>2. CASE (WaitBlock \/ WaitRelock) /\ UNCHANGED demo_sem_vars
    <3>1. CvNext
      BY <2>2 DEF CvNext
    <3>2. UNCHANGED meddled
      BY <2>2 DEF WaitBlock, WaitRelock, LockFree, LockBusy, Take, WaitFor, mutex_vars
    <3>3. current \notin sem_waiting
      BY <1>1, <2>2 DEF WaitBlock, WaitRelock
    <3>4. QED
      BY <1>3, <2>2, <3>1, <3>2, <3>3
  <2>3. CASE S!WaitResume /\ UNCHANGED <<mutex_vars, cv_vars>>
    <3>1. (Acquires \/ FallsAsleep) /\ InThread /\ current \in sem_waiting
      BY <1>1, <2>3, SemCalls
    <3>2. QED
      BY <1>1, <2>3, <3>1 DEF SemStep
  <2>4. QED
    BY <1>15, <2>1, <2>2, <2>3 DEF DemoInside
<1>16. QED
  BY <1>4, <1>5, <1>6, <1>8, <1>11, <1>12, <1>13, <1>14, <1>15 DEF ThreadCall

\* So are the other steps, the start of a demo excepted.
LEMMA StepKinds ==
    ASSUME BaseInv, RunStep \/ HandleCreate \/ HandleRun
    PROVE  BesideSem \/ SemStep
<1>1. on_cpu => ~InMain
  BY DEF BaseInv, CvInv, DetectorInv, LockInv, CoopInv, CoopTypeOK, InMain
<1>2. ~running => InMain
  BY DEF BaseInv, MenuInv
<1>3. CASE RunReturns \/ HandleRun
  <2>1. UNCHANGED <<all_vars, demo_sem_vars>> /\ InMain
    BY <1>2, <1>3 DEF RunReturns, HandleRun, Picks
  <2>2. QED
    BY <1>1, <2>1 DEF BesideSem, all_vars, vars, mutex_vars, InThread
<1>4. CASE HandleCreate
  <2>1. InMain /\ CreateThread /\ UNCHANGED <<mutex_vars, cv_vars, demo_sem_vars>>
    BY <1>2, <1>4 DEF HandleCreate, Picks
  <2>2. QED
    BY <1>1, <2>1 DEF BesideSem, CvNext, CvSched, mutex_vars, InThread
<1>5. CASE DemoSched
  <2>1. UNCHANGED <<mutex_vars, cv_vars, demo_sem_vars>>
    BY <1>5 DEF DemoSched
  <2>2. CASE \E t \in Tids : Dispatch(t)
    BY <2>1, <2>2 DEF Dispatch, BesideSem, CvNext, CvSched, mutex_vars, InThread
  <2>3. CASE EndStep
    BY <2>1, <2>3 DEF EndStep, BesideSem, CvNext, CvSched, mutex_vars, InThread
  <2>4. CASE DemoReturn
    BY <2>1, <2>4 DEF DemoReturn, BesideSem, CvNext, CvSched, mutex_vars
  <2>5. QED
    BY <1>5, <2>2, <2>3, <2>4 DEF DemoSched
<1>6. QED
  BY <1>3, <1>4, <1>5, ThreadCallKinds DEF RunStep

\* Only a thread asleep in wait() changes its state beside the caller.
SemEffect ==
    /\ UNCHANGED <<mutex_vars, cv_vars, next_tid, pool, finished, ended, current, self_woken>>
    /\ \/ Acquires /\ UNCHANGED <<state, on_cpu>>
       \/ FallsAsleep /\ state' = [state EXCEPT ![current] = "BLOCKED"]
       \/ Signals /\ sem_queue = << >> /\ UNCHANGED <<state, on_cpu, sem_queue>>
       \/ \E h \in Tids :
             /\ Signals /\ sem_queue # << >> /\ UNCHANGED on_cpu
             /\ h \in sem_waiting /\ state[h] = "BLOCKED" /\ h = Head(sem_queue)
             /\ state' = [state EXCEPT ![h] = "READY"] /\ sem_queue' = Tail(sem_queue)

\* wait() and signal() of the semaphore leave the mutexes, the detector and the
\* condition variables alone, and wake only a thread that sleeps in wait().
LEMMA SemEffects ==
    ASSUME BaseInv, SemStep
    PROVE  SemEffect
<1> USE DEF SemEffect
<1>1. InThread /\ UNCHANGED <<mutex_vars, cv_vars>>
  BY DEF SemStep
<1>2. /\ state \in [Tids -> ThreadState] /\ state[current] = "RUNNING" /\ current \in Tids
  BY <1>1, Executing DEF BaseInv, CvInv, DetectorInv, LockInv, CoopInv, CoopTypeOK
<1>3. CASE Acquires
  BY <1>1, <1>3 DEF Acquires, coop_vars
<1>4. CASE FallsAsleep
  BY <1>1, <1>2, <1>4, SetStateTable DEF FallsAsleep, Block
<1>5. CASE Signals /\ sem_queue = << >>
  BY <1>1, <1>5 DEF Signals
<1>6. CASE Signals /\ sem_queue # << >>
  <2> DEFINE h == Head(sem_queue)
  <2>1. h \in Tids /\ h \in sem_waiting /\ state[h] = "BLOCKED" /\ h \in pool
    <3>1. InQueue(sem_queue, h) /\ h \in Tids
      BY <1>6, PopFacts DEF BaseInv, SemInv
    <3>2. QED
      BY <3>1 DEF BaseInv, SemInv
  <2>2. WakeEffect(h) /\ sem_queue' = Tail(sem_queue)
    BY <1>6 DEF Signals
  <2>3. state' = [state EXCEPT ![h] = "READY"] /\ self_woken' = self_woken
    BY <1>2, <2>1, <2>2, SetStateTable DEF WakeEffect
  <2>4. UNCHANGED <<next_tid, pool, finished, ended, current, on_cpu>>
    BY <1>6 DEF Signals
  <2>5. QED
    BY <1>1, <1>6, <2>1, <2>2, <2>3, <2>4
<1>7. QED
  BY <1>3, <1>4, <1>5, <1>6 DEF SemStep

\* The steps of the semaphore keep the invariant of the other objects, ...
LEMMA SemStepCv ==
    ASSUME BaseInv, SemStep
    PROVE  CvInv'
<1> USE DEF SemEffect
<1>1. SemEffect
  BY SemEffects
<1>2. /\ DetectorInv /\ LockInv /\ EdgesExact /\ DetectorExact /\ TypeOK /\ CoopInv
      /\ OwnersAgree /\ Calm /\ CvPlaces /\ CvCalm /\ meddled = 0
  BY DEF BaseInv, CvInv, DetectorInv, WakeInv, MenuInv, LockInv
<1>3. /\ InThread /\ waiting[current] = NoMutex /\ cv_pc[current] = "out"
      /\ \A t \in sem_waiting : waiting[t] = NoMutex /\ cv_pc[t] = "out"
  BY DEF SemStep, BaseInv, SemInv
<1>4. \A t \in Tids : waiting[t] # NoMutex \/ cv_pc[t] # "out" => state'[t] = state[t]
  BY <1>1, <1>2, <1>3 DEF CoopInv, CoopTypeOK
<1>5. [CoopNext]_coop_vars
  <2>1. CASE FallsAsleep
    BY <2>1 DEF FallsAsleep, CoopNext
  <2>2. CASE Acquires \/ (Signals /\ sem_queue = << >>)
    BY <1>1, <2>2 DEF Acquires, Signals, coop_vars
  <2>3. CASE Signals /\ sem_queue # << >>
    <3>1. Head(sem_queue) \in Tids
      BY <2>3 DEF BaseInv, SemInv
    <3>2. WakeThread(Head(sem_queue))
      BY <1>3, <2>3 DEF Signals, WakeThread, ApiCallable
    <3>3. QED
      BY <3>1, <3>2 DEF CoopNext
  <2>4. QED
    BY <2>1, <2>2, <2>3 DEF SemStep
<1>6. CoopInv' /\ CoopTypeOK'
  BY <1>2, <1>5, CoopNextInv DEF CoopInv
<1>7. TypeOK'
  BY <1>1, <1>2, <1>6 DEF TypeOK, mutex_vars, lock_vars, graph_vars
<1>8. OwnersAgree' /\ EdgesExact' /\ DetectorExact'
  BY <1>1, <1>2 DEF OwnersAgree, EdgesExact, DetectorExact, Deadlocked, mutex_vars, lock_vars,
                    graph_vars
<1>9. Calm'
  BY <1>1, <1>2, <1>4, CalmKept
<1>10. CvPlaces'
  <2>1. \A t \in Tids : cv_pc[t] # "block"
    BY <1>2, <1>3 DEF CvPlaces
  <2>2. QED
    BY <1>1, <1>2, <2>1 DEF CvPlaces, cv_vars, mutex_vars
<1>11. CvCalm'
  BY <1>1, <1>2, <1>4, CvCalmKept
<1>12. QED
  BY <1>6, <1>7, <1>8, <1>9, <1>10, <1>11 DEF CvInv, DetectorInv, WakeInv, LockInv

\* The queue of the semaphore stays the set of its sleeping threads.
LEMMA SemStepSem ==
    ASSUME BaseInv, SemStep
    PROVE  SemInv'
<1> USE DEF SemEffect
<1>1. SemEffect
  BY SemEffects
<1>2. UNCHANGED <<waiting, cv_pc, pool, finished, current>>
  BY <1>1 DEF mutex_vars, cv_vars
<1>3. /\ InThread /\ waiting[current] = NoMutex /\ cv_pc[current] = "out"
      /\ current \in pool /\ current \in Tids /\ state[current] = "RUNNING" /\ ~finished[current]
  BY Executing DEF SemStep
<1>4. state \in [Tids -> ThreadState] /\ pool \subseteq Tids
  BY DEF BaseInv, CvInv, DetectorInv, LockInv, CoopInv, CoopTypeOK
<1> USE DEF SemInv
<1>5. SemInv
  BY DEF BaseInv
<1>6. CASE Acquires /\ UNCHANGED <<state, on_cpu>>
  BY <1>2, <1>3, <1>4, <1>5, <1>6 DEF Acquires
<1>7. CASE FallsAsleep /\ state' = [state EXCEPT ![current] = "BLOCKED"]
  <2>1. ~InQueue(sem_queue, current)
    BY <1>3, <1>5
  <2>2. /\ sem_queue' \in Seq(Tids) /\ Distinct(sem_queue')
        /\ \A u \in Tids : InQueue(sem_queue', u) <=> InQueue(sem_queue, u) \/ u = current
    <3>1. sem_queue' = Append(sem_queue, current) /\ sem_queue \in Seq(Tids) /\ Distinct(sem_queue)
      BY <1>5, <1>7 DEF FallsAsleep
    <3>2. Append(sem_queue, current) \in Seq(Tids)
      BY <1>3, <3>1
    <3>3. QED
      BY <1>3, <2>1, <3>1, <3>2, PushFacts
  <2>3. \A u \in Tids : state'[u] = IF u = current THEN "BLOCKED" ELSE state[u]
    BY <1>4, <1>7
  <2>4. QED
    BY <1>2, <1>3, <1>4, <1>5, <1>7, <2>2, <2>3 DEF FallsAsleep
<1>8. CASE Signals /\ sem_queue = << >> /\ UNCHANGED <<state, on_cpu, sem_queue>>
  BY <1>2, <1>4, <1>5, <1>8 DEF Signals
<1>9. ASSUME NEW h \in Tids, Signals, sem_queue # << >>, h = Head(sem_queue),
             state' = [state EXCEPT ![h] = "READY"], sem_queue' = Tail(sem_queue)
      PROVE  SemInv'
  <2>1. /\ sem_queue' \in Seq(Tids) /\ Distinct(sem_queue')
        /\ \A u \in Tids : InQueue(sem_queue', u) <=> InQueue(sem_queue, u) /\ u # h
    <3>1. Tail(sem_queue) \in Seq(Tids)
      BY <1>5, <1>9
    <3>2. QED
      BY <1>5, <1>9, <3>1, PopFacts
  <2>2. \A u \in Tids : state'[u] = IF u = h THEN "READY" ELSE state[u]
    BY <1>4, <1>9
  <2>3. QED
    BY <1>2, <1>4, <1>5, <1>9, <2>1, <2>2 DEF Signals
<1>10. QED
  BY <1>1, <1>6, <1>7, <1>8, <1>9

\* The other steps do not touch the threads in wait() of the semaphore.
LEMMA SleepersLeftAlone ==
    ASSUME BaseInv, BesideSem, NEW t \in sem_waiting
    PROVE  /\ t \in pool' /\ finished'[t] = finished[t]
           /\ waiting'[t] = NoMutex /\ cv_pc'[t] = "out"
           /\ state'[t] = "BLOCKED" <=> state[t] = "BLOCKED"
<1> DEFINE Same ==
      /\ t \in pool' /\ finished'[t] = finished[t]
      /\ waiting'[t] = NoMutex /\ cv_pc'[t] = "out"
      /\ state'[t] = "BLOCKED" <=> state[t] = "BLOCKED"
<1>1. /\ DetectorInv /\ LockInv /\ TypeOK /\ CoopInv /\ CoopTypeOK /\ FreshTids
      /\ Calm /\ CvPlaces /\ CvCalm /\ meddled = 0 /\ meddled' = meddled
  BY DEF BaseInv, CvInv, DetectorInv, WakeInv, MenuInv, LockInv, CoopInv, BesideSem
<1>2. /\ t \in pool /\ t \in Tids /\ ~finished[t] /\ waiting[t] = NoMutex /\ cv_pc[t] = "out"
      /\ state[t] \in ThreadState
  BY <1>1 DEF BaseInv, SemInv, CoopTypeOK
<1>3. InThread => current # t
  BY DEF BesideSem
<1>4. CASE CvSched
  <2>1. UNCHANGED <<waiting, cv_pc>>
    BY <1>4 DEF CvSched, mutex_vars, cv_vars
  <2>2. CASE InMain /\ CreateThread
    <3>1. t # next_tid
      BY <1>1, <1>2, <2>2, MaxThreadsAssumption DEF FreshTids, CreateThread, Tids
    <3>2. /\ pool' = pool \union {next_tid} /\ finished' = [finished EXCEPT ![next_tid] = FALSE]
          /\ state' = [state EXCEPT ![next_tid] = "READY"]
      BY <2>2 DEF CreateThread
    <3>3. QED
      BY <1>1, <1>2, <2>1, <3>1, <3>2 DEF CoopTypeOK
  <2>3. ASSUME NEW u \in Tids, Dispatch(u) PROVE Same
    BY <1>1, <1>2, <2>1, <2>3, SetStateTable DEF Dispatch, CoopTypeOK
  <2>4. CASE EndStep \/ LinkReturn
    BY <1>1, <1>2, <2>1, <2>4 DEF EndStep, LinkReturn
  <2>5. CASE CvBody /\ (Yield \/ Return)
    <3>1. current # t
      BY <1>3, <2>5 DEF CvBody, InBody
    <3>2. QED
      BY <1>1, <1>2, <2>1, <2>5, <3>1 DEF Yield, Return, ExitCurrent, CoopTypeOK
  <2>6. QED
    BY <1>4, <2>2, <2>3, <2>4, <2>5 DEF CvSched
<1>5. ASSUME NEW m \in Mutexes, LockFree(m) \/ LockBusy(m) \/ LockResume(m) \/ Unlock(m)
      PROVE  t \in pool' /\ finished'[t] = finished[t] /\ waiting'[t] = NoMutex
             /\ state'[t] = state[t] /\ current # t
  <2>1. current # t
    BY <1>3, <1>5 DEF LockFree, LockBusy, LockResume, Unlock, InBody
  <2>2. UNCHANGED <<pool, finished>>
    BY <1>1, <1>5, LockSteps
  <2>3. waiting'[t] = NoMutex
    BY <1>1, <1>2, <1>5, <2>1
       DEF LockFree, LockBusy, LockResume, Unlock, Take, WaitFor, TypeOK
  <2>4. CASE Unlock(m) /\ wait_queue[m] # << >>
    <3> DEFINE h == Head(wait_queue[m])
    <3>1. h \in Tids /\ InQueue(wait_queue[m], h)
      BY <1>1, <2>4, PopFacts DEF Calm, QueueOf, TypeOK
    <3>2. WakeEffect(h)
      BY <2>4 DEF Unlock, WakeFirst
    <3> HIDE DEF h
    <3>3. h # t
      BY <1>1, <1>2, <3>1, MutexAssumption DEF Calm, QueueOf
    <3>4. QED
      BY <1>2, <2>1, <2>2, <2>3, <3>2, <3>3 DEF WakeEffect
  <2>5. CASE Unlock(m) /\ wait_queue[m] = << >>
    BY <1>2, <2>1, <2>2, <2>3, <2>5 DEF Unlock, WakeFirst
  <2>6. CASE LockFree(m) \/ LockBusy(m) \/ LockResume(m)
    BY <1>1, <1>2, <2>1, <2>2, <2>3, <2>6
       DEF LockFree, LockBusy, LockResume, Take, WaitFor, Block, coop_vars, CoopTypeOK
  <2>7. QED
    BY <1>5, <2>4, <2>5, <2>6
<1>6. ASSUME NEW m \in Mutexes, CvLock(m) PROVE Same
  BY <1>2, <1>5, <1>6 DEF CvLock, cv_vars
<1>7. CASE WaitRelock
  BY <1>1, <1>2, <1>5, <1>7 DEF WaitRelock, CvPlaces
<1>8. ASSUME NEW m \in Mutexes, NEW c \in Conds, WaitRelease(c, m) PROVE Same
  BY <1>1, <1>2, <1>5, <1>8 DEF WaitRelease, CvPlaces
<1>9. CASE WaitBlock
  <2>1. current # t
    BY <1>3, <1>9 DEF WaitBlock
  <2>2. QED
    BY <1>1, <1>2, <1>9, <2>1 DEF WaitBlock, Block, mutex_vars, CvPlaces, CoopTypeOK
<1>10. ASSUME NEW c \in Conds, Signal(c) \/ Broadcast(c) PROVE Same
  <2>1. state'[t] = state[t]
    <3>1. PICK W \in SUBSET Tids : /\ \A u \in W : cv_pc[u] = "relock"
                                   /\ \A u \in Tids : u \notin W => state'[u] = state[u]
      BY <1>1, <1>10, NotifyFacts
    <3>2. t \notin W
      BY <1>2, <3>1
    <3>3. QED
      BY <1>2, <3>1, <3>2
  <2>2. UNCHANGED <<pool, finished, waiting, cv_pc>>
    BY <1>10 DEF Signal, Broadcast, NotifyFrame, mutex_vars
  <2>3. QED
    BY <1>2, <2>1, <2>2
<1>11. ASSUME NEW u \in Tids, CvMeddle(u) PROVE FALSE
  BY <1>1, <1>11 DEF CvMeddle, Meddle
<1>12. CASE UNCHANGED all_vars
  BY <1>2, <1>12 DEF all_vars, vars, coop_vars, mutex_vars, cv_vars
<1>13. QED
  BY <1>4, <1>6, <1>7, <1>8, <1>9, <1>10, <1>11, <1>12 DEF BesideSem, CvNext

\* So the objects keep their invariants, whichever of the two kinds a step is.
LEMMA BesideSemInv ==
    ASSUME BaseInv, BesideSem
    PROVE  CvInv' /\ SemInv'
<1>1. CvInv'
  BY NextCvInv DEF BaseInv, BesideSem
<1>2. UNCHANGED demo_sem_vars
  BY DEF BesideSem
<1>3. sem_waiting \subseteq Tids
  BY DEF BaseInv, SemInv, CvInv, DetectorInv, LockInv, CoopInv, CoopTypeOK
<1>4. SemInv
  BY DEF BaseInv
<1>5. SemInv'
  BY <1>2, <1>3, <1>4, SleepersLeftAlone DEF SemInv, demo_sem_vars
<1>6. QED
  BY <1>1, <1>5

\* A call leaves the threads of the demo and their roles alone.
LEMMA CallFrame ==
    ASSUME BaseInv, ThreadCall
    PROVE  UNCHANGED <<next_tid, pool, finished, current, meddled>>
<1>1. ASSUME SemStep PROVE UNCHANGED <<next_tid, pool, finished, current, meddled>>
  BY <1>1, SemEffects DEF SemEffect, mutex_vars
<1>2. ASSUME NEW m, LockFree(m) \/ LockBusy(m) \/ LockResume(m) \/ Unlock(m)
      PROVE  UNCHANGED <<next_tid, pool, finished, current, meddled>>
  BY <1>2 DEF LockFree, LockBusy, LockResume, Unlock, Take, WaitFor, Block, coop_vars
<1>3. CASE DemoYield
  BY <1>3 DEF DemoYield, Yield, mutex_vars
<1>4. CASE DemoLock \/ DemoUnlock
  BY <1>2, <1>4 DEF DemoLock, DemoUnlock
<1>5. ASSUME NEW op, AtCall(op), UNCHANGED <<mutex_vars, cv_vars>>,
             S!Wait \/ S!Signal \/ UNCHANGED <<coop_vars, demo_sem_vars>>
      PROVE  UNCHANGED <<next_tid, pool, finished, current, meddled>>
  <2>1. CASE S!Wait \/ S!Signal
    <3>1. SemStep
      BY <1>5, <2>1, Calling, SemCalls DEF SemStep, BaseInv, SemInv
    <3>2. QED
      BY <1>1, <3>1
  <2>2. CASE UNCHANGED coop_vars
    BY <1>5, <2>2 DEF coop_vars, mutex_vars
  <2>3. QED
    BY <1>5, <2>1, <2>2
<1>6. CASE DemoWait \/ DemoSignal \/ CountUp \/ CountDown
  BY <1>5, <1>6 DEF DemoWait, DemoSignal, CountUp, CountDown
<1>7. ASSUME NEW c, WaitOn(c) PROVE UNCHANGED <<next_tid, pool, finished, current, meddled>>
  BY <1>2, <1>7 DEF WaitOn, WaitRelease
<1>8. ASSUME NEW c, PassedAndSignal(c)
      PROVE  UNCHANGED <<next_tid, pool, finished, current, meddled>>
  BY <1>8 DEF PassedAndSignal, Signal, NotifyFrame, mutex_vars
<1>9. CASE Await \/ Announce \/ Put \/ TakeItem
  BY <1>7, <1>8, <1>9
     DEF Await, Announce, Put, TakeItem, all_vars, vars, coop_vars, mutex_vars
<1>10. CASE DemoInside
  <2>1. CASE S!WaitResume /\ UNCHANGED <<mutex_vars, cv_vars>>
    <3>1. SemStep
      BY <2>1, SemCalls DEF SemStep, BaseInv, SemInv
    <3>2. QED
      BY <1>1, <3>1
  <2>2. CASE WaitBlock
    BY <2>2 DEF WaitBlock, Block, mutex_vars
  <2>3. CASE WaitRelock
    BY <1>2, <2>3 DEF WaitRelock
  <2>4. QED
    BY <1>2, <1>10, <2>1, <2>2, <2>3 DEF DemoInside
<1>11. QED
  BY <1>3, <1>4, <1>6, <1>9, <1>10 DEF ThreadCall

\* A call is passed when it is made, the wait of a loop on a condition excepted.
LEMMA CallPasses ==
    ASSUME ThreadCall
    PROVE  \/ pos' = pos
           \/ \E op : AtCall(op) /\ Passed /\ (op = "lock" => CallMutex \in Mutexes)
BY DEF ThreadCall, DemoYield, DemoLock, DemoUnlock, DemoWait, DemoSignal, CountUp, CountDown,
       Await, Announce, Put, TakeItem, DemoInside, WaitOn, PassedAndSignal

\* A thread returns at the end of its script only.
LEMMA SchedFrame ==
    ASSUME BaseInv, DemoSched
    PROVE  /\ running /\ UNCHANGED <<next_tid, pool, meddled, pos>>
           /\ \A t \in Tids :
                 finished'[t] => finished[t] \/ (t = current /\ pos[t] > Len(Script(t)))
<1>1. UNCHANGED <<meddled, pos>>
  BY DEF DemoSched, mutex_vars
<1>2. finished \in [Tids -> BOOLEAN]
  BY DEF BaseInv, CvInv, DetectorInv, LockInv, CoopInv, CoopTypeOK
<1>3. CASE (\E t \in Tids : Dispatch(t)) \/ EndStep
  BY <1>1, <1>3 DEF DemoSched, Dispatch, EndStep
<1>4. CASE DemoReturn
  BY <1>1, <1>2, <1>4 DEF DemoSched, DemoReturn, Return, ExitCurrent
<1>5. QED
  BY <1>3, <1>4 DEF DemoSched

\* A script does not change while its demo runs.
LEMMA SameScript ==
    ASSUME UNCHANGED <<role, demo>>, NEW t
    PROVE  Script(t)' = Script(t)
BY DEF Script, TwoLocks, Philosopher, ForkOrder, LeftFork, RightFork, Number, Lesser, Greater,
       ProducerTurn, ConsumerTurn, ReaderTurn, WriterTurn, Locking, Unlocking, Does, Yielding

\* What goes on inside run() keeps the menu and the places in the scripts in order.
LEMMA RunStepMenu ==
    ASSUME BaseInv, RunStep
    PROVE  /\ MenuInv' /\ ScriptInv' /\ UNCHANGED <<next_tid, pool, role, demo>>
           /\ \A t \in Tids : Script(t)' = Script(t)
<1>1. MenuInv /\ ScriptInv /\ pool \subseteq Tids /\ finished \in [Tids -> BOOLEAN]
  BY DEF BaseInv, CvInv, DetectorInv, LockInv, CoopInv, CoopTypeOK
<1>2. /\ UNCHANGED <<next_tid, pool, role, demo, meddled>> /\ (~running' => InMain')
      /\ \A t \in Tids : finished'[t] =>
            finished[t] \/ (t = current /\ pos[t] > Len(Script(t)) /\ pos' = pos)
      /\ \/ pos' = pos
         \/ \E op : AtCall(op) /\ Passed /\ (op = "lock" => CallMutex \in Mutexes)
  <2>1. CASE RunReturns
    BY <1>1, <2>1
       DEF RunReturns, InMain, all_vars, vars, coop_vars, mutex_vars
  <2>2. CASE DemoSched /\ UNCHANGED menu_vars
    BY <2>2, SchedFrame DEF menu_vars
  <2>3. CASE ThreadCall /\ UNCHANGED menu_vars
    <3>1. running
      <4>1. ThreadCall => InThread
        <5>1. ASSUME NEW op, AtCall(op) PROVE InThread
          BY <5>1, Calling
        <5>2. DemoInside => InThread
          BY SemCalls
             DEF DemoInside, LockResume, WaitBlock, WaitRelock, BaseInv, SemInv
        <5>3. QED
          BY <5>1, <5>2
             DEF ThreadCall, DemoYield, DemoLock, DemoUnlock, DemoWait, DemoSignal, CountUp,
                 CountDown, Await, Announce, Put, TakeItem
      <4>2. QED
        BY <2>3, <4>1, Executing
    <3>2. QED
      BY <2>3, <3>1, CallFrame, CallPasses DEF menu_vars
  <2>4. QED
    BY <2>1, <2>2, <2>3 DEF RunStep
<1>3. \A t \in Tids : Script(t)' = Script(t)
  BY <1>2, SameScript
<1>4. CASE pos' = pos
  <2>1. MenuInv'
    BY <1>1, <1>2, <1>4 DEF MenuInv
  <2>2. ScriptInv'
    <3> SUFFICES ASSUME NEW t \in pool'
                 PROVE  /\ pos'[t] \in 1..(Len(Script(t)') + 1)
                        /\ finished'[t] => pos'[t] = Len(Script(t)') + 1
                        /\ \A i \in 1..(pos'[t] - 1) :
                              Script(t)'[i].op = "lock" => Script(t)'[i].m \in Mutexes
      BY DEF ScriptInv
    <3>1. t \in pool /\ t \in Tids /\ Script(t)' = Script(t) /\ pos'[t] = pos[t]
      BY <1>1, <1>2, <1>3, <1>4
    <3>2. Len(Script(t)) \in Nat
      BY <1>1, <3>1, ScriptsPaired DEF MenuInv, Paired
    <3>3. QED
      BY <1>1, <1>2, <3>1, <3>2 DEF ScriptInv
  <2>3. QED
    BY <1>2, <1>3, <2>1, <2>2
<1>5. ASSUME NEW op, AtCall(op), Passed, op = "lock" => CallMutex \in Mutexes,
             pos' # pos
      PROVE  MenuInv' /\ ScriptInv'
  <2>1. /\ current \in pool /\ current \in Tids /\ ~finished[current]
        /\ pos[current] \in 1..Len(Script(current))
        /\ Script(current)[pos[current]].op = op
    BY <1>5, Calling, Executing
  <2>2. \A t \in Tids : pos'[t] = IF t = current THEN pos[t] + 1 ELSE pos[t]
    BY <1>1, <1>5 DEF Passed, MenuInv
  <2>3. pos' \in [Tids -> Nat \ {0}]
    BY <1>1, <1>5, <2>1 DEF Passed, MenuInv
  <2>4. current < next_tid /\ next_tid \in 1..(MaxThreads + 1)
    BY <1>1, <2>1 DEF MenuInv, BaseInv, CvInv, DetectorInv, LockInv, CoopInv, CoopTypeOK
  <2>5. MenuInv'
    BY <1>1, <1>2, <2>1, <2>2, <2>3, <2>4, MaxThreadsAssumption DEF MenuInv, Tids
  <2>6. ScriptInv'
    <3> SUFFICES ASSUME NEW t \in pool'
                 PROVE  /\ pos'[t] \in 1..(Len(Script(t)') + 1)
                        /\ finished'[t] => pos'[t] = Len(Script(t)') + 1
                        /\ \A i \in 1..(pos'[t] - 1) :
                              Script(t)'[i].op = "lock" => Script(t)'[i].m \in Mutexes
      BY DEF ScriptInv
    <3>1. t \in pool /\ t \in Tids /\ Script(t)' = Script(t)
      BY <1>1, <1>2, <1>3
    <3>2. finished'[t] => finished[t]
      BY <1>2, <1>5, <3>1
    <3>3. /\ Len(Script(t)) \in Nat /\ pos[t] \in 1..(Len(Script(t)) + 1)
          /\ finished[t] => pos[t] = Len(Script(t)) + 1
          /\ \A i \in 1..(pos[t] - 1) : Script(t)[i].op = "lock" => Script(t)[i].m \in Mutexes
      BY <1>1, <3>1, ScriptsPaired DEF MenuInv, Paired, ScriptInv
    <3>4. CASE t = current
      <4>1. \A i \in 1..pos[t] : i \in 1..(pos[t] - 1) \/ i = pos[t]
        BY <3>3
      <4>2. Script(t)[pos[t]].op = "lock" => Script(t)[pos[t]].m \in Mutexes
        BY <1>5, <2>1, <3>4 DEF CallMutex
      <4>3. pos'[t] = pos[t] + 1 /\ pos[t] \in 1..Len(Script(t))
        BY <2>1, <2>2, <3>4
      <4>4. QED
        BY <2>1, <3>1, <3>2, <3>3, <3>4, <4>1, <4>2, <4>3
    <3>5. CASE t # current
      <4>1. pos'[t] = pos[t]
        BY <2>2, <3>1, <3>5
      <4>2. QED
        BY <3>1, <3>2, <3>3, <4>1
    <3>6. QED
      BY <3>4, <3>5
  <2>7. QED
    BY <2>5, <2>6
<1>6. QED
  BY <1>2, <1>3, <1>4, <1>5

\* The menu entries that start no demo.
LEMMA MenuStepMenu ==
    ASSUME BaseInv, HandleCreate \/ HandleRun
    PROVE  MenuInv' /\ ScriptInv'
<1>1. MenuInv /\ ScriptInv /\ CoopTypeOK
  BY DEF BaseInv, CvInv, DetectorInv, LockInv, CoopInv
<1>2. UNCHANGED <<role, demo, pos, meddled>> /\ \A t \in Tids : Script(t)' = Script(t)
  <2>1. UNCHANGED <<role, demo, pos, meddled>>
    BY DEF HandleCreate, HandleRun, all_vars, vars, mutex_vars
  <2>2. QED
    BY <2>1, SameScript
<1>3. CASE HandleRun
  <2>1. UNCHANGED <<pool, next_tid, finished>> /\ running'
    BY <1>3 DEF HandleRun, all_vars, vars, coop_vars
  <2>2. QED
    BY <1>1, <1>2, <2>1 DEF MenuInv, ScriptInv, CoopTypeOK
<1>4. CASE HandleCreate
  <2>1. /\ next_tid \in Tids /\ pool' = pool \union {next_tid} /\ next_tid' = next_tid + 1
        /\ finished' = [finished EXCEPT ![next_tid] = FALSE] /\ InMain' /\ UNCHANGED running
    BY <1>1, <1>4 DEF HandleCreate, Picks, CreateThread, MenuInv, InMain
  <2>2. role[next_tid] = "idle" /\ pos[next_tid] = 1
    BY <1>1, <2>1 DEF MenuInv, Tids
  <2>3. MenuInv'
    BY <1>1, <1>2, <2>1, <2>2 DEF MenuInv, CoopTypeOK, Tids
  <2>4. ScriptInv'
    <3>1. Len(Script(next_tid)) = 0
      BY <2>2, ShortScripts
    <3>2. \A t \in pool : t # next_tid /\ t \in Tids
      BY <1>1, <2>1 DEF MenuInv, CoopTypeOK, Tids
    <3>3. QED
      BY <1>1, <1>2, <2>1, <2>2, <3>1, <3>2 DEF ScriptInv, CoopTypeOK
  <2>5. QED
    BY <2>3, <2>4
<1>5. QED
  BY <1>3, <1>4

\* Whom a demo creates threads for.
LEMMA CastRoles ==
    ASSUME NEW d \in DemoNames
    PROVE  /\ Len(Cast(d)) \in Nat
           /\ \A i \in 1..Len(Cast(d)) :
                 Cast(d)[i] \in Roles /\ Cast(d)[i] # "idle" /\ d \in DemosOf(Cast(d)[i])
<1>1. CASE d = "philosophers"
  <2>1. Cast(d) = [i \in 1..Seats |-> "philosopher"]
    BY <1>1 DEF Cast
  <2>2. Len(Cast(d)) = Seats /\ \A i \in 1..Seats : Cast(d)[i] = "philosopher"
    BY <2>1, SeatsAssumption
  <2>3. QED
    BY <1>1, <2>2, SeatsAssumption DEF Roles, DemosOf
<1>2. CASE d = "readers_writers"
  <2>1. Cast(d) = <<"reader", "reader", "writer", "reader">>
    BY <1>2 DEF Cast
  <2>2. Len(Cast(d)) = 4 /\ \A i \in 1..4 : Cast(d)[i] \in {"reader", "writer"}
    BY <2>1
  <2>3. QED
    BY <1>2, <2>2 DEF Roles, DemosOf
<1>3. CASE d = "semaphore"
  <2>1. Cast(d) = <<"semaphore", "semaphore", "semaphore">>
    BY <1>3 DEF Cast, SyncCast
  <2>2. QED
    BY <1>3, <2>1 DEF Roles, DemosOf
<1>4. CASE d \in {"mutex", "condition", "producer_consumer", "deadlock", "deadlock_avoid"}
  <2>1. PICK x, y : /\ Cast(d) = <<x, y>>
                    /\ d = "mutex" => x = "mutex" /\ y = "mutex"
                    /\ d = "condition" => x = "awaiter" /\ y = "announcer"
                    /\ d = "producer_consumer" => x = "producer" /\ y = "consumer"
                    /\ d \in {"deadlock", "deadlock_avoid"} =>
                           x = "deadlock_a" /\ y = "deadlock_b"
    BY <1>4 DEF Cast, SyncCast
  <2>2. Len(Cast(d)) = 2 /\ Cast(d)[1] = x /\ Cast(d)[2] = y
    BY <2>1
  <2>3. QED
    BY <1>4, <2>1, <2>2 DEF Roles, DemosOf
<1>5. QED
  BY <1>1, <1>2, <1>3, <1>4 DEF DemoNames

\* A demo starts with fresh objects, whatever the one before it left behind.
LEMMA StartDemoBase ==
    ASSUME BaseInv, NEW d \in DemoNames, StartDemo(d)
    PROVE  BaseInv'
<1> DEFINE n == Len(Cast(d))
           born == next_tid..(next_tid + n - 1)
<1>1. /\ DetectorInv /\ LockInv /\ TypeOK /\ CoopInv /\ CoopTypeOK /\ CoopSafety /\ FreshTids
      /\ Calm /\ CvPlaces /\ CvCalm /\ meddled = 0 /\ MenuInv /\ ScriptInv
  BY DEF BaseInv, CvInv, DetectorInv, WakeInv, MenuInv, LockInv, CoopInv
<1>2. n \in Nat /\ \A i \in 1..n : Cast(d)[i] \in Roles
  BY CastRoles
<1>3. /\ born \subseteq Tids /\ ~running /\ InMain
      /\ pool' = born /\ next_tid' = next_tid + n
      /\ state' = [t \in Tids |-> IF t \in born THEN "READY" ELSE state[t]]
      /\ role' = [t \in Tids |-> IF t \in born THEN Cast(d)[t - next_tid + 1] ELSE role[t]]
      /\ pos' = [t \in Tids |-> IF t \in born THEN 1 ELSE pos[t]]
      /\ UNCHANGED <<finished, ended, current, on_cpu, self_woken, meddled>>
  BY <1>1 DEF StartDemo, Picks, MenuInv
<1>4. /\ wait_edges' = {} /\ hold_edges' = {} /\ reported' = FALSE
      /\ locked' = [m \in Mutexes |-> FALSE]
      /\ owner' = [m \in Mutexes |-> NoThread]
      /\ wait_queue' = [m \in Mutexes |-> << >>]
      /\ waiting' = [t \in Tids |-> NoMutex]
      /\ held' = [t \in Tids |-> {}]
      /\ cv_queue' = [c \in Conds |-> << >>]
      /\ cv_mutex' = [t \in Tids |-> NoMutex]
      /\ cv_pc' = [t \in Tids |-> "out"]
      /\ sem_count' = Permits(d) /\ sem_queue' = << >> /\ sem_waiting' = {}
      /\ demo' = d /\ running' = TRUE
  BY DEF StartDemo, ClearDetector
<1> HIDE DEF n
<1>5. next_tid \in 1..(MaxThreads + 1) /\ MaxThreads \in Nat /\ Tids = 1..MaxThreads
  BY <1>1, MaxThreadsAssumption DEF CoopTypeOK, Tids
<1>6. born = {t \in Tids : next_tid <= t /\ t < next_tid'}
  BY <1>2, <1>3, <1>5
<1>7. next_tid' \in 1..(MaxThreads + 1) /\ next_tid' >= next_tid
  <2>1. CASE n = 0
    BY <1>3, <1>5, <2>1
  <2>2. CASE n # 0
    <3>1. next_tid \in Int /\ n \in Int /\ n >= 1
      BY <1>2, <1>5, <2>2
    <3>2. next_tid + n - 1 \in born
      BY <3>1
    <3>3. next_tid + n - 1 <= MaxThreads
      BY <1>3, <1>5, <3>2
    <3>4. QED
      BY <1>3, <1>5, <3>1, <3>3
  <2>3. QED
    BY <2>1, <2>2
<1>8. \A t \in born : t >= next_tid /\ t \in Tids
  BY <1>6
<1>9. /\ ~on_cpu /\ self_woken = {}
      /\ \A t \in born : state[t] = "READY" /\ ~finished[t] /\ ~ended[t]
  BY <1>1, <1>3, <1>8 DEF FreshTids, CoopTypeOK, Calm, InMain
<1>10. state' = state
  BY <1>1, <1>3, <1>9 DEF CoopTypeOK
<1> HIDE DEF born
<1>11. CoopInv'
  <2>1. CoopTypeOK'
    BY <1>1, <1>3, <1>7, <1>10 DEF CoopTypeOK
  <2>2. CoopSafety'
    BY <1>1, <1>3, <1>10
       DEF CoopSafety, OneRunning, CpuIsRunning, EndedIsFinished, Zombie
  <2>3. FreshTids'
    <3>1. current < next_tid'
      BY <1>1, <1>3, <1>5, <1>7 DEF FreshTids, InMain, NoThread
    <3>2. \A t \in Tids : t >= next_tid' => t >= next_tid /\ t \notin pool'
      BY <1>3, <1>5, <1>6, <1>7
    <3>3. QED
      BY <1>1, <1>3, <1>10, <3>1, <3>2 DEF FreshTids
  <2>4. QED
    BY <2>1, <2>2, <2>3 DEF CoopInv
<1>12. LockInv' /\ EdgesExact' /\ DetectorExact'
  <2>1. TypeOK'
    <3>1. CoopTypeOK' /\ meddled' \in Nat
      BY <1>1, <1>3, <1>11 DEF CoopInv
    <3>2. locked' \in [Mutexes -> BOOLEAN] /\ reported' \in BOOLEAN
      BY <1>4, Zenon
    <3>3. QED
      BY <1>4, <3>1, <3>2 DEF TypeOK
  <2>2. OwnersAgree'
    <3>1. /\ \A m \in Mutexes : ~locked'[m] /\ owner'[m] = NoThread
          /\ \A t \in Tids : held'[t] = {} /\ t # NoThread
      BY <1>4 DEF NoThread, Tids
    <3>2. QED
      BY <3>1 DEF OwnersAgree
  <2>3. EdgesExact'
    <3>1. /\ \A m \in Mutexes : owner'[m] = NoThread /\ m # NoMutex
          /\ \A t \in Tids : waiting'[t] = NoMutex /\ t # NoThread
      BY <1>4, MutexAssumption DEF NoThread, Tids
    <3>2. QED
      BY <1>4, <3>1 DEF EdgesExact
  <2>4. DetectorExact'
    <3>1. ASSUME NEW K \in SUBSET Tids PROVE ~Deadlocked(K)'
      BY <1>4 DEF Deadlocked
    <3>2. QED
      BY <1>4, <3>1 DEF DetectorExact
  <2>5. QED
    BY <1>11, <2>1, <2>2, <2>3, <2>4 DEF LockInv
<1>13. Calm'
  BY <1>3, <1>4, <1>9, MutexAssumption DEF Calm, QueueOf, WokenFor, Distinct, InQueue, InMain
<1>14. CvPlaces' /\ CvCalm'
  BY <1>4 DEF CvPlaces, CvCalm, Distinct, InQueue, Sleeping
<1>15. CvInv'
  BY <1>12, <1>13, <1>14 DEF CvInv, DetectorInv, WakeInv
<1>16. \A t \in born : t - next_tid + 1 \in 1..n
  BY <1>2, <1>3, <1>5, <1>6
<1>17. MenuInv'
  <2>1. \A t \in Tids : role'[t] \in Roles
    BY <1>1, <1>2, <1>3, <1>16 DEF MenuInv
  <2>2. \A t \in pool' : demo' \in DemosOf(role'[t])
    BY <1>3, <1>4, <1>8, <1>16, CastRoles DEF n
  <2>3. pos' \in [Tids -> Nat \ {0}]
    BY <1>1, <1>3 DEF MenuInv
  <2>4. \A t \in Tids : t >= next_tid' => t \notin born /\ t >= next_tid
    BY <1>5, <1>6, <1>7
  <2>5. \A t \in pool' : t < next_tid'
    BY <1>3, <1>6
  <2>6. QED
    BY <1>1, <1>3, <1>4, <2>1, <2>2, <2>3, <2>4, <2>5 DEF MenuInv, InMain
<1>18. ScriptInv'
  <2>1. ASSUME NEW t \in born
        PROVE  pos'[t] = 1 /\ ~finished'[t] /\ Len(Script(t)') \in Nat
    <3>1. role'[t] \in Roles
      BY <1>8, <1>17 DEF MenuInv
    <3>2. AllPaired'
      BY EachPaired, PTL
    <3>3. Paired(Script(t)')
      BY <3>1, <3>2 DEF AllPaired
    <3>4. QED
      BY <1>3, <1>8, <1>9, <3>3 DEF Paired
  <2>2. QED
    <3> SUFFICES ASSUME NEW t \in pool'
                 PROVE  /\ pos'[t] \in 1..(Len(Script(t)') + 1)
                        /\ finished'[t] => pos'[t] = Len(Script(t)') + 1
                        /\ \A i \in 1..(pos'[t] - 1) :
                              Script(t)'[i].op = "lock" => Script(t)'[i].m \in Mutexes
      BY DEF ScriptInv
    <3>1. pool' = born
      BY <1>3 DEF born
    <3>2. pos'[t] = 1 /\ ~finished'[t] /\ Len(Script(t)') \in Nat
      BY <2>1, <3>1
    <3>3. QED
      BY <3>2
<1>19. SemInv'
  BY <1>3, <1>4 DEF SemInv, Permits, Distinct, InQueue
<1>20. QED
  BY <1>15, <1>17, <1>18, <1>19 DEF BaseInv

\* Nothing has been started yet.
LEMMA InitBase == DemosInit => BaseInv
<1> SUFFICES ASSUME DemosInit PROVE BaseInv
  OBVIOUS
<1>1. CvInv /\ CvInit /\ Init /\ CoopInit
  BY InitCvInv DEF DemosInit, CvInit, Init
<1>2. MenuInv
  BY <1>1 DEF DemosInit, MenuInv, Init, CoopInit, InMain, Roles
<1>3. ScriptInv /\ SemInv
  BY <1>1 DEF DemosInit, ScriptInv, SemInv, CoopInit, Distinct, InQueue
<1>4. QED
  BY <1>1, <1>2, <1>3 DEF BaseInv

\* Every step of the menu and of its threads keeps the objects in order.
LEMMA NextBase == BaseInv /\ [DemosNext]_demo_vars => BaseInv'
<1> SUFFICES ASSUME BaseInv, [DemosNext]_demo_vars PROVE BaseInv'
  OBVIOUS
<1>1. ASSUME RunStep \/ HandleCreate \/ HandleRun PROVE CvInv' /\ SemInv'
  BY <1>1, StepKinds, SemStepCv, SemStepSem, BesideSemInv
<1>2. CASE RunStep \/ HandleCreate \/ HandleRun
  BY <1>1, <1>2, RunStepMenu, MenuStepMenu DEF BaseInv
<1>3. ASSUME NEW d \in DemoNames, StartDemo(d) PROVE BaseInv'
  BY <1>3, StartDemoBase
<1>4. CASE UNCHANGED demo_vars
  <2>1. UNCHANGED <<all_vars, menu_vars, pos, demo_sem_vars>>
    BY <1>4 DEF demo_vars
  <2>2. CvInv'
    BY <2>1, NextCvInv DEF BaseInv
  <2>3. \A t \in Tids : Script(t)' = Script(t)
    BY <2>1, SameScript DEF menu_vars
  <2>4. pool \subseteq Tids
    BY DEF BaseInv, CvInv, DetectorInv, LockInv, CoopInv, CoopTypeOK
  <2>5. MenuInv' /\ ScriptInv' /\ SemInv'
    BY <2>1, <2>3, <2>4
       DEF BaseInv, MenuInv, ScriptInv, SemInv, InMain, all_vars, vars, coop_vars, mutex_vars,
           cv_vars, menu_vars, demo_sem_vars
  <2>6. QED
    BY <2>2, <2>5 DEF BaseInv
<1>5. QED
  BY <1>2, <1>3, <1>4 DEF DemosNext

\* The objects keep their invariants in every session.
LEMMA BaseInvariant == DemosSpec => []BaseInv
BY InitBase, NextBase, PTL DEF DemosSpec

\* What the synchronisation objects promise holds in every demo, and whatever
\* demo was run before.
THEOREM DemosKeepPromises ==
    DemosSpec => [](TypeOK /\ MutualExclusion /\ DetectorExact /\ NoLostWakeup /\ QueueIsBlocked
                    /\ CvQueueIsAsleep)
<1>1. BaseInv => TypeOK /\ MutualExclusion /\ DetectorExact /\ NoLostWakeup /\ QueueIsBlocked
                  /\ CvQueueIsAsleep
  BY CvPromises DEF BaseInv
<1>2. QED
  BY <1>1, BaseInvariant, PTL

-----------------------------------------------------------------------------
(* Where the threads of a demo wait, and what they own.                     *)

\* A thread owns or waits for a mutex that its script has locked before and
\* not unlocked; one that waits for a mutex does not own it, and one in wait()
\* of a condition variable has given its mutex back.
PlaceOf(t) ==
    /\ cv_pc[t] # "out" =>
          /\ role[t] \in {"awaiter", "producer", "consumer"}
          /\ pos[t] \in 1..Len(Script(t))
          /\ Script(t)[pos[t]].op \in {"await", "put", "take"}
          /\ cv_mutex[t] = 0 /\ 0 \in HeldAt(Script(t), pos[t])
          /\ \A m \in Mutexes : m = 0 => owner[m] # t
    /\ t \in sem_waiting => role[t] \in {"semaphore", "reader", "writer"}
    /\ \A m \in Mutexes : owner[m] = t => t \in pool
    /\ \A m \in Mutexes : owner[m] = t \/ waiting[t] = m => m \in HeldAt(Script(t), pos[t])
    /\ \A m \in Mutexes : waiting[t] = m => owner[m] # t
    /\ t \in pool /\ state[t] = "BLOCKED" =>
          waiting[t] # NoMutex \/ t \in sem_waiting \/ cv_pc[t] = "relock"

PlaceInv == \A t \in Tids : PlaceOf(t)

\* What a step may not do to the threads that do not execute.
LeftAlone(t) ==
    /\ waiting'[t] = waiting[t] /\ cv_pc'[t] = cv_pc[t] /\ cv_mutex'[t] = cv_mutex[t]
    /\ t \in sem_waiting' <=> t \in sem_waiting
    /\ state'[t] = "BLOCKED" => state[t] = "BLOCKED"
    /\ \A m \in Mutexes : owner'[m] = t <=> owner[m] = t

\* No step of a thread or of the scheduler touches what another thread owns or waits
\* for; it may only wake it.
LEMMA OthersLeftAlone ==
    ASSUME BaseInv, RunStep \/ HandleCreate \/ HandleRun, NEW t \in Tids, t # current
    PROVE  LeftAlone(t)
<1>1. /\ DetectorInv /\ LockInv /\ TypeOK /\ CoopInv /\ CoopTypeOK /\ FreshTids
      /\ Calm /\ CvPlaces /\ CvCalm /\ meddled = 0
  BY DEF BaseInv, CvInv, DetectorInv, WakeInv, MenuInv, LockInv, CoopInv
<1>2. /\ waiting \in [Tids -> Mutexes \union {NoMutex}]
      /\ cv_pc \in [Tids -> {"out", "block", "relock"}]
      /\ cv_mutex \in [Tids -> Mutexes \union {NoMutex}]
      /\ owner \in [Mutexes -> Tids \union {NoThread}]
      /\ state \in [Tids -> ThreadState] /\ t # NoThread
  BY <1>1 DEF TypeOK, CvPlaces, CoopTypeOK, NoThread, Tids
<1>3. CASE SemStep
  <2>1. UNCHANGED <<waiting, cv_pc, cv_mutex, owner>>
    BY <1>3 DEF SemStep, mutex_vars, lock_vars, cv_vars
  <2>2. /\ t \in sem_waiting' <=> t \in sem_waiting
        /\ state'[t] = "BLOCKED" => state[t] = "BLOCKED"
    BY <1>2, <1>3, SemEffects DEF SemEffect, Acquires, FallsAsleep, Signals
  <2>3. QED
    BY <2>1, <2>2 DEF LeftAlone
<1>4. ASSUME UNCHANGED demo_sem_vars,
             waiting'[t] = waiting[t], cv_pc'[t] = cv_pc[t], cv_mutex'[t] = cv_mutex[t],
             state'[t] = "BLOCKED" => state[t] = "BLOCKED",
             \A m \in Mutexes : owner'[m] = t <=> owner[m] = t
      PROVE  LeftAlone(t)
  BY <1>4 DEF LeftAlone, demo_sem_vars
<1>5. CASE BesideSem
  <2>1. UNCHANGED demo_sem_vars /\ UNCHANGED meddled
    BY <1>5 DEF BesideSem
  <2>2. CASE CvSched
    <3>1. UNCHANGED <<waiting, cv_pc, cv_mutex, owner>>
      BY <2>2 DEF CvSched, mutex_vars, lock_vars, cv_vars
    <3>2. state'[t] = "BLOCKED" => state[t] = "BLOCKED"
      <4>1. CASE InMain /\ CreateThread
        BY <1>2, <4>1 DEF CreateThread
      <4>2. ASSUME NEW u \in Tids, Dispatch(u) PROVE state'[t] = "BLOCKED" => state[t] = "BLOCKED"
        BY <1>2, <4>2, SetStateTable DEF Dispatch
      <4>3. CASE EndStep \/ LinkReturn
        BY <4>3 DEF EndStep, LinkReturn
      <4>4. CASE Yield \/ Return
        BY <1>2, <4>4 DEF Yield, Return, ExitCurrent
      <4>5. QED
        BY <2>2, <4>1, <4>2, <4>3, <4>4 DEF CvSched
    <3>3. QED
      BY <1>4, <2>1, <3>1, <3>2
  <2>3. ASSUME NEW m \in Mutexes, LockFree(m) \/ LockBusy(m) \/ LockResume(m) \/ Unlock(m)
        PROVE  /\ waiting'[t] = waiting[t]
               /\ state'[t] = "BLOCKED" => state[t] = "BLOCKED"
               /\ \A n \in Mutexes : owner'[n] = t <=> owner[n] = t
    <3>1. waiting'[t] = waiting[t]
      BY <1>2, <2>3 DEF LockFree, LockBusy, LockResume, Unlock, Take, WaitFor
    <3>2. \A n \in Mutexes : owner'[n] = t <=> owner[n] = t
      <4>1. CASE (LockFree(m) \/ LockResume(m)) /\ ~locked[m]
        <5>1. owner[m] = NoThread /\ owner' = [owner EXCEPT ![m] = current]
          BY <1>1, <4>1 DEF LockFree, LockResume, Take, LockInv, OwnersAgree
        <5>2. QED
          BY <1>2, <5>1
      <4>2. CASE LockBusy(m) \/ (LockResume(m) /\ locked[m])
        BY <4>2 DEF LockBusy, LockResume, WaitFor
      <4>3. CASE Unlock(m)
        BY <1>2, <4>3 DEF Unlock
      <4>4. QED
        BY <2>3, <4>1, <4>2, <4>3 DEF LockFree
    <3>3. state'[t] = "BLOCKED" => state[t] = "BLOCKED"
      <4>1. CASE Unlock(m) /\ wait_queue[m] # << >>
        <5> DEFINE h == Head(wait_queue[m])
        <5>1. h \in Tids /\ InQueue(wait_queue[m], h)
          BY <1>1, <4>1, PopFacts DEF Calm, QueueOf, TypeOK
        <5>2. WakeEffect(h)
          BY <4>1 DEF Unlock, WakeFirst
        <5> HIDE DEF h
        <5>3. QED
          BY <1>2, <5>1, <5>2, SetStateTable DEF WakeEffect
      <4>2. CASE Unlock(m) /\ wait_queue[m] = << >>
        BY <4>2 DEF Unlock, WakeFirst
      <4>3. CASE LockFree(m) \/ LockBusy(m) \/ LockResume(m)
        BY <1>2, <4>3 DEF LockFree, LockBusy, LockResume, Take, WaitFor, Block, coop_vars
      <4>4. QED
        BY <2>3, <4>1, <4>2, <4>3
    <3>4. QED
      BY <3>1, <3>2, <3>3
  <2>4. ASSUME NEW m \in Mutexes, CvLock(m) PROVE LeftAlone(t)
    <3>1. UNCHANGED <<cv_pc, cv_mutex>>
      BY <2>4 DEF CvLock, cv_vars
    <3>2. QED
      BY <1>4, <2>1, <2>3, <2>4, <3>1 DEF CvLock
  <2>5. CASE WaitRelock
    BY <1>2, <1>4, <2>1, <2>3, <2>5 DEF WaitRelock
  <2>6. ASSUME NEW m \in Mutexes, NEW c \in Conds, WaitRelease(c, m) PROVE LeftAlone(t)
    BY <1>2, <1>4, <2>1, <2>3, <2>6 DEF WaitRelease
  <2>7. CASE WaitBlock
    BY <1>2, <1>4, <2>1, <2>7 DEF WaitBlock, Block, mutex_vars, lock_vars
  <2>8. ASSUME NEW c \in Conds, Signal(c) \/ Broadcast(c) PROVE LeftAlone(t)
    <3>1. state'[t] = "BLOCKED" => state[t] = "BLOCKED"
      <4>1. PICK W \in SUBSET Tids :
                \A u \in Tids : /\ u \in W => state'[u] = "READY"
                                /\ u \notin W => state'[u] = state[u]
        BY <1>1, <2>8, NotifyFacts
      <4>2. QED
        BY <4>1
    <3>2. UNCHANGED <<waiting, cv_pc, cv_mutex, owner>>
      BY <2>8 DEF Signal, Broadcast, NotifyFrame, mutex_vars, lock_vars
    <3>3. QED
      BY <1>4, <2>1, <3>1, <3>2
  <2>9. ASSUME NEW u \in Tids, CvMeddle(u) PROVE FALSE
    BY <1>1, <2>1, <2>9 DEF CvMeddle, Meddle
  <2>10. CASE UNCHANGED all_vars
    BY <1>4, <2>1, <2>10 DEF all_vars, vars, coop_vars, mutex_vars, lock_vars, cv_vars
  <2>11. QED
    BY <1>5, <2>2, <2>4, <2>5, <2>6, <2>7, <2>8, <2>9, <2>10 DEF BesideSem, CvNext
<1>6. QED
  BY <1>3, <1>5, StepKinds

\* Such a thread is where it was, ...
LEMMA PlaceKept ==
    ASSUME NEW t \in Tids, PlaceOf(t), LeftAlone(t), t \in pool => t \in pool',
           t \in pool' => t \in pool \/ state'[t] # "BLOCKED",
           role'[t] = role[t], pos'[t] = pos[t], Script(t)' = Script(t)
    PROVE  PlaceOf(t)'
<1>1. HeldAt(Script(t), pos[t])' = HeldAt(Script(t), pos[t])
  BY DEF HeldAt
<1>2. QED
  BY <1>1 DEF PlaceOf, LeftAlone

\* ... and the scheduler and the menu leave all threads alone, ...
LEMMA SchedLeavesAlone ==
    ASSUME BaseInv, DemoSched \/ RunReturns \/ HandleRun \/ HandleCreate, NEW t \in Tids
    PROVE  LeftAlone(t)
<1>1. CoopTypeOK /\ CoopSafety /\ Calm
  BY DEF BaseInv, CvInv, DetectorInv, WakeInv, MenuInv, LockInv, CoopInv
<1>2. UNCHANGED <<waiting, cv_pc, cv_mutex, owner, sem_waiting>>
  BY DEF DemoSched, RunReturns, HandleRun, HandleCreate, all_vars, vars, mutex_vars, lock_vars,
         cv_vars, demo_sem_vars
<1>3. state'[t] = "BLOCKED" => state[t] = "BLOCKED"
  <2>1. CASE RunReturns \/ HandleRun
    BY <2>1 DEF RunReturns, HandleRun, all_vars, vars, coop_vars
  <2>2. CASE HandleCreate
    BY <1>1, <2>2 DEF HandleCreate, CreateThread, CoopTypeOK
  <2>3. ASSUME NEW u \in Tids, Dispatch(u) PROVE state'[t] = "BLOCKED" => state[t] = "BLOCKED"
    BY <1>1, <2>3, SetStateTable DEF Dispatch, CoopTypeOK
  <2>4. CASE EndStep
    BY <2>4 DEF EndStep
  <2>5. CASE DemoReturn
    <3>1. state[current] = "RUNNING" /\ current \in Tids
      BY <2>5, Executing DEF DemoReturn, CvBody, InBody
    <3>2. QED
      BY <1>1, <2>5, <3>1, SetStateTable DEF DemoReturn, Return, ExitCurrent, CoopTypeOK
  <2>6. QED
    BY <2>1, <2>2, <2>3, <2>4, <2>5 DEF DemoSched
<1>4. QED
  BY <1>2, <1>3 DEF LeftAlone

\* The mutex operations, seen by their caller.
LEMMA LockEffects ==
    ASSUME BaseInv, NEW m \in Mutexes
    PROVE  /\ LockFree(m) =>
                 /\ waiting[current] = NoMutex /\ owner[m] = NoThread
                 /\ owner' = [owner EXCEPT ![m] = current]
                 /\ UNCHANGED <<waiting, state>>
           /\ LockResume(m) /\ ~locked[m] =>
                 /\ waiting[current] = m /\ owner[m] = NoThread
                 /\ owner' = [owner EXCEPT ![m] = current]
                 /\ waiting' = [waiting EXCEPT ![current] = NoMutex]
                 /\ UNCHANGED state
           /\ LockBusy(m) \/ (LockResume(m) /\ locked[m]) =>
                 /\ waiting[current] \in {m, NoMutex}
                 /\ owner[m] # NoThread /\ UNCHANGED owner
                 /\ waiting' = [waiting EXCEPT ![current] = m]
                 /\ state'[current] = "BLOCKED"
           /\ LockBusy(m) => owner[m] # current
           /\ Unlock(m) =>
                 /\ waiting[current] = NoMutex /\ owner[m] = current
                 /\ owner' = [owner EXCEPT ![m] = NoThread]
                 /\ UNCHANGED waiting
                 /\ state'[current] = state[current]
<1>1. /\ LockInv /\ OwnersAgree /\ CoopTypeOK /\ Calm /\ CvPlaces /\ TypeOK
  BY DEF BaseInv, CvInv, DetectorInv, WakeInv, MenuInv, LockInv, CoopInv
<1>2. LockFree(m) \/ LockBusy(m) \/ LockResume(m) \/ Unlock(m) =>
          state[current] = "RUNNING" /\ current \in Tids
  BY <1>1, LockSteps
<1>3. ASSUME LockBusy(m) \/ (LockResume(m) /\ locked[m])
      PROVE  state'[current] = "BLOCKED" /\ waiting[current] \in {m, NoMutex}
             /\ waiting' = [waiting EXCEPT ![current] = m] /\ UNCHANGED owner
  BY <1>1, <1>2, <1>3, SetStateTable
     DEF LockBusy, LockResume, WaitFor, Block, InBody, CoopTypeOK
<1>4. Unlock(m) => state'[current] = state[current]
  BY <1>1, LockSteps
<1>5. locked[m] <=> owner[m] # NoThread
  BY <1>1 DEF OwnersAgree
<1>6. QED
  BY <1>3, <1>4, <1>5
     DEF LockFree, LockBusy, LockResume, Unlock, Take, InBody, coop_vars

\* ... and a call takes its caller on in the script.
LEMMA CallerPlace ==
    ASSUME BaseInv, PlaceInv, ThreadCall, UNCHANGED <<role, demo>>
    PROVE  PlaceOf(current)'
<1> DEFINE c == current
           s == Script(c)
           p == pos[c]
<1>1. /\ DetectorInv /\ LockInv /\ TypeOK /\ OwnersAgree /\ CoopInv /\ CoopTypeOK
      /\ Calm /\ CvPlaces /\ CvCalm /\ pos \in [Tids -> Nat \ {0}]
  BY DEF BaseInv, CvInv, DetectorInv, WakeInv, MenuInv, LockInv, CoopInv
<1>2. UNCHANGED <<pool, current>> /\ pool \subseteq Tids
  BY <1>1, CallFrame DEF CoopTypeOK
<1>3. ASSUME InThread
      PROVE  /\ c \in Tids /\ c \in pool /\ state[c] = "RUNNING" /\ c # NoThread
             /\ role[c] \in Roles /\ PlaceOf(c)
  BY <1>3, Executing DEF PlaceInv, NoThread, Tids
<1>4. Script(c)' = Script(c) /\ role'[c] = role[c]
  BY <1>2, SameScript
<1>5. /\ waiting \in [Tids -> Mutexes \union {NoMutex}]
      /\ owner \in [Mutexes -> Tids \union {NoThread}]
      /\ cv_pc \in [Tids -> {"out", "block", "relock"}]
      /\ cv_mutex \in [Tids -> Mutexes \union {NoMutex}]
      /\ NoMutex \notin Mutexes
  BY <1>1, MutexAssumption DEF TypeOK, CvPlaces
\* A call of the body, passed.
<1>6. ASSUME NEW op, AtCall(op), Passed
      PROVE  /\ c \in Tids /\ c \in pool /\ state[c] = "RUNNING" /\ c # NoThread
             /\ role[c] \in Roles /\ PlaceOf(c)
             /\ cv_pc[c] = "out" /\ waiting[c] = NoMutex /\ c \notin sem_waiting
             /\ p \in 1..Len(s) /\ s[p].op = op /\ pos'[c] = p + 1
             /\ op \notin {"lock", "unlock"} => HeldAt(s, p + 1) = HeldAt(s, p)
             /\ op = "lock" /\ CallMutex \in Mutexes =>
                   HeldAt(s, p + 1) = HeldAt(s, p) \union {CallMutex}
             /\ op = "unlock" => HeldAt(s, p + 1) = HeldAt(s, p) \ {CallMutex}
  <2>1. /\ InThread /\ cv_pc[c] = "out" /\ waiting[c] = NoMutex /\ c \notin sem_waiting
        /\ p \in 1..Len(s) /\ s[p].op = op
    BY <1>6, Calling
  <2>2. pos'[c] = p + 1 /\ p \in Nat \ {0}
    BY <1>1, <1>3, <1>6, <2>1 DEF Passed
  <2>3. CallMutex = s[p].m
    BY DEF CallMutex
  <2> HIDE DEF s, p
  <2>4. QED
    BY <1>3, <2>1, <2>2, <2>3, HeldStep DEF c
<1> DEFINE Held == HeldAt(s, p)
           NewHeld == HeldAt(s, p + 1)
\* What is left to show in each case.
<1>7. ASSUME c \in Tids, c \in pool, cv_pc'[c] = "out", pos'[c] = p + 1,
             c \in sem_waiting' => role[c] \in {"semaphore", "reader", "writer"},
             \A m \in Mutexes : owner'[m] = c \/ waiting'[c] = m => m \in NewHeld,
             \A m \in Mutexes : waiting'[c] = m => owner'[m] # c,
             state'[c] = "BLOCKED" => waiting'[c] # NoMutex \/ c \in sem_waiting'
      PROVE  PlaceOf(c)'
  <2>1. HeldAt(Script(c), pos[c])' = NewHeld
    BY <1>2, <1>4, <1>7 DEF HeldAt
  <2>2. QED
    BY <1>2, <1>4, <1>7, <2>1 DEF PlaceOf
<1>8. ASSUME NEW op, AtCall(op), Passed, op \notin {"lock", "unlock"},
             UNCHANGED <<owner, waiting, cv_pc>>, state'[c] # "BLOCKED",
             c \in sem_waiting' => c \in sem_waiting
      PROVE  PlaceOf(c)'
  <2>1. \A m \in Mutexes : owner[m] = c \/ waiting[c] = m => m \in Held
    BY <1>6, <1>8 DEF PlaceOf
  <2> HIDE DEF s, p
  <2>2. QED
    BY <1>5, <1>6, <1>7, <1>8, <2>1
<1>9. CASE DemoYield
  <2>1. AtCall("yield") /\ Passed /\ UNCHANGED <<owner, waiting, cv_pc, sem_waiting>>
    BY <1>9 DEF DemoYield, mutex_vars, lock_vars, cv_vars, demo_sem_vars
  <2>2. state'[c] = "READY"
    BY <1>1, <1>6, <1>9, <2>1, SetStateTable DEF DemoYield, Yield, CoopTypeOK
  <2>3. QED
    BY <1>8, <2>1, <2>2
<1>10. CASE DemoLock
  <2>1. PICK m \in Mutexes : m = CallMutex /\ (LockFree(m) \/ LockBusy(m))
    BY <1>10 DEF DemoLock
  <2>2. AtCall("lock") /\ Passed /\ UNCHANGED <<cv_pc, sem_waiting>>
    BY <1>10 DEF DemoLock, cv_vars, demo_sem_vars
  <2>3. NewHeld = Held \union {m}
    BY <1>6, <2>1, <2>2
  <2>4. \A n \in Mutexes : owner[n] = c => n \in Held
    BY <1>6, <2>2 DEF PlaceOf
  <2> HIDE DEF s, p, Held, NewHeld
  <2>5. CASE LockFree(m)
    BY <1>5, <1>6, <1>7, <2>2, <2>3, <2>4, <2>5, LockEffects DEF NewHeld
  <2>6. CASE LockBusy(m)
    <3>1. /\ owner[m] # c /\ owner' = owner /\ waiting'[c] = m /\ state'[c] = "BLOCKED"
      BY <1>5, <1>6, <2>2, <2>6, LockEffects
    <3>2. QED
      BY <1>5, <1>6, <1>7, <2>2, <2>3, <2>4, <3>1 DEF NewHeld
  <2>7. QED
    BY <2>1, <2>5, <2>6
<1>11. CASE DemoUnlock
  <2>1. AtCall("unlock") /\ Passed /\ UNCHANGED <<cv_pc, sem_waiting>> /\ Unlock(CallMutex)
    BY <1>11 DEF DemoUnlock, cv_vars, demo_sem_vars
  <2>2. CallMutex \in Mutexes
    BY <2>1, LockedBefore
  <2> DEFINE m == CallMutex
  <2>3. NewHeld = Held \ {m}
    BY <1>6, <2>1
  <2>4. \A n \in Mutexes : owner[n] = c => n \in Held
    BY <1>6, <2>1 DEF PlaceOf
  <2>5. /\ owner' = [owner EXCEPT ![m] = NoThread] /\ waiting' = waiting
        /\ state'[c] = state[c]
    BY <2>1, <2>2, LockEffects
  <2> HIDE DEF s, p, Held, NewHeld, m
  <2>6. QED
    BY <1>5, <1>6, <1>7, <2>1, <2>3, <2>4, <2>5 DEF NewHeld
<1>12. ASSUME NEW op \in {"wait", "signal", "count_up", "count_down"}, AtCall(op), Passed,
              UNCHANGED <<mutex_vars, cv_vars>>,
              S!Wait \/ S!Signal \/ UNCHANGED <<coop_vars, demo_sem_vars>>
       PROVE  PlaceOf(c)'
  <2>1. UNCHANGED <<owner, waiting, cv_pc>>
    BY <1>12 DEF mutex_vars, lock_vars, cv_vars
  <2>2. role[c] \in {"semaphore", "writer", "reader"}
    BY <1>6, <1>12, CallFacts
  <2>3. /\ state'[c] = "BLOCKED" => c \in sem_waiting'
    <3>1. CASE UNCHANGED coop_vars
      BY <1>6, <1>12, <3>1 DEF coop_vars
    <3>2. CASE S!Wait \/ S!Signal
      <4>1. SemStep
        BY <1>12, <3>2, Calling, SemCalls DEF SemStep, BaseInv, SemInv
      <4>2. QED
        BY <1>1, <1>6, <1>12, <4>1, SemEffects
           DEF SemEffect, Acquires, FallsAsleep, Signals, CoopTypeOK
    <3>3. QED
      BY <1>12, <3>1, <3>2
  <2>4. \A m \in Mutexes : owner[m] = c \/ waiting[c] = m => m \in Held
    BY <1>6, <1>12 DEF PlaceOf
  <2> HIDE DEF s, p
  <2>5. QED
    BY <1>5, <1>6, <1>7, <1>12, <2>1, <2>2, <2>3, <2>4
<1>13. CASE DemoWait \/ DemoSignal \/ CountUp \/ CountDown
  BY <1>12, <1>13 DEF DemoWait, DemoSignal, CountUp, CountDown
<1>14. ASSUME NEW op \in {"await", "put", "take"}, AtCall(op), NEW d \in Conds, WaitOn(d)
       PROVE  PlaceOf(c)'
  <2>1. /\ WaitRelease(d, 0) /\ 0 \in Mutexes /\ UNCHANGED <<pos, sem_waiting>> /\ Unlock(0)
        /\ owner[0] = c
    BY <1>14, LockedBefore DEF WaitOn, demo_sem_vars, WaitRelease
  <2>2. /\ InThread /\ cv_pc[c] = "out" /\ waiting[c] = NoMutex /\ c \notin sem_waiting
        /\ p \in 1..Len(s) /\ s[p].op = op
    BY <1>14, Calling
  <2>3. /\ c \in Tids /\ c \in pool /\ state[c] = "RUNNING" /\ c # NoThread
        /\ role[c] \in Roles /\ PlaceOf(c)
    BY <1>3, <2>2
  <2>4. role[c] \in {"awaiter", "producer", "consumer"}
    BY <1>14, <2>2, <2>3, CallFacts
  <2>5. /\ owner' = [owner EXCEPT ![0] = NoThread] /\ waiting' = waiting
        /\ state'[c] = state[c]
    BY <2>1, LockEffects
  <2>6. cv_mutex'[c] = 0 /\ cv_pc'[c] = "block"
    BY <1>5, <2>1, <2>3 DEF WaitRelease
  <2>7. \A m \in Mutexes : owner[m] = c => m \in HeldAt(s, p)
    BY <2>3 DEF PlaceOf
  <2>8. HeldAt(Script(c), pos[c])' = HeldAt(s, p)
    BY <1>2, <1>4, <2>1 DEF HeldAt
  <2>9. pos'[c] = p /\ Script(c)' = s /\ role'[c] = role[c] /\ pool' = pool /\ current' = c
    BY <1>2, <1>4, <2>1
  <2> HIDE DEF s, p
  <2>10. QED
    BY <1>5, <1>14, <2>1, <2>2, <2>3, <2>4, <2>5, <2>6, <2>7, <2>8, <2>9 DEF PlaceOf
<1>15. ASSUME NEW op \in {"announce", "put", "take"}, AtCall(op), NEW d \in Conds,
              PassedAndSignal(d)
       PROVE  PlaceOf(c)'
  <2>1. Signal(d) /\ Passed /\ UNCHANGED <<owner, waiting, cv_pc, sem_waiting>>
    BY <1>15 DEF PassedAndSignal, Signal, NotifyFrame, mutex_vars, lock_vars, demo_sem_vars
  <2>2. state'[c] # "BLOCKED"
    <3>1. PICK W \in SUBSET Tids :
              \A u \in Tids : /\ u \in W => state'[u] = "READY"
                              /\ u \notin W => state'[u] = state[u]
      BY <1>1, <2>1, NotifyFacts
    <3>2. QED
      BY <1>6, <1>15, <2>1, <3>1
  <2>3. QED
    BY <1>8, <1>15, <2>1, <2>2
<1>16. CASE Await
  <2>1. CASE Passed /\ UNCHANGED <<all_vars, demo_sem_vars>>
    <3>1. AtCall("await") /\ UNCHANGED <<owner, waiting, cv_pc, sem_waiting, state>>
      BY <1>16, <2>1
         DEF Await, all_vars, vars, coop_vars, mutex_vars, lock_vars, cv_vars, demo_sem_vars
    <3>2. QED
      BY <1>6, <1>8, <2>1, <3>1
  <2>2. CASE WaitOn("condition")
    BY <1>14, <1>16, <2>2, CondsAssumption DEF Await
  <2>3. QED
    BY <1>16, <2>1, <2>2 DEF Await
<1>17. CASE Announce
  BY <1>15, <1>17, CondsAssumption DEF Announce
<1>18. CASE Put
  <2>1. AtCall("put") /\ (WaitOn("not_full") \/ PassedAndSignal("not_empty"))
    BY <1>18 DEF Put
  <2>2. QED
    BY <1>14, <1>15, <2>1, CondsAssumption
<1>19. CASE TakeItem
  <2>1. AtCall("take") /\ (WaitOn("not_empty") \/ PassedAndSignal("not_full"))
    BY <1>19 DEF TakeItem
  <2>2. QED
    BY <1>14, <1>15, <2>1, CondsAssumption
\* Inside a call the place in the script stays the same.
<1>20. ASSUME InThread, UNCHANGED pos, c \in sem_waiting' => c \in sem_waiting,
              cv_pc'[c] # "out" => cv_pc[c] # "out" /\ cv_mutex'[c] = cv_mutex[c]
                                      /\ UNCHANGED owner,
              \A m \in Mutexes : owner'[m] = c \/ waiting'[c] = m =>
                  owner[m] = c \/ waiting[c] = m \/ m \in HeldAt(s, p),
              \A m \in Mutexes : waiting'[c] = m => owner'[m] # c,
              state'[c] = "BLOCKED" =>
                  waiting'[c] # NoMutex \/ c \in sem_waiting' \/ cv_pc'[c] = "relock"
       PROVE  PlaceOf(c)'
  <2>1. HeldAt(Script(c), pos[c])' = HeldAt(s, p)
    BY <1>2, <1>4, <1>20 DEF HeldAt
  <2>2. pos'[c] = p /\ Script(c)' = s /\ role'[c] = role[c] /\ pool' = pool /\ current' = c
    BY <1>2, <1>4, <1>20
  <2>3. c \in pool /\ PlaceOf(c)
    BY <1>3, <1>20
  <2> HIDE DEF s, p
  <2>4. QED
    BY <1>20, <2>1, <2>2, <2>3 DEF PlaceOf, s, p
<1>21. CASE DemoInside
  <2>1. UNCHANGED pos
    BY <1>21 DEF DemoInside
  <2>2. ASSUME NEW m \in Mutexes, LockResume(m), UNCHANGED <<cv_vars, demo_sem_vars>>
        PROVE  PlaceOf(c)'
    <3>1. InThread /\ waiting[c] = m /\ UNCHANGED <<cv_pc, cv_mutex, sem_waiting>>
      BY <2>2 DEF LockResume, cv_vars, demo_sem_vars
    <3>2. c \in Tids /\ PlaceOf(c) /\ cv_pc[c] = "out" /\ state[c] = "RUNNING"
      BY <1>1, <1>3, <3>1, MutexAssumption DEF CvPlaces
    <3>3. owner[m] # c
      BY <3>1, <3>2 DEF PlaceOf
    <3>4. CASE locked[m]
      <4>1. UNCHANGED owner /\ waiting'[c] = m
        BY <1>5, <2>2, <3>2, <3>4, LockEffects
      <4> HIDE DEF s, p
      <4>2. QED
        BY <1>5, <1>20, <2>1, <3>1, <3>2, <3>3, <4>1
    <3>5. CASE ~locked[m]
      <4>1. owner' = [owner EXCEPT ![m] = c] /\ waiting'[c] = NoMutex /\ state'[c] = "RUNNING"
        BY <1>5, <2>2, <3>2, <3>5, LockEffects
      <4> HIDE DEF s, p
      <4>2. QED
        BY <1>5, <1>20, <2>1, <3>1, <3>2, <4>1
    <3>6. QED
      BY <3>4, <3>5
  <2>3. CASE WaitBlock /\ UNCHANGED demo_sem_vars
    <3>1. /\ InThread /\ cv_pc[c] = "block" /\ UNCHANGED <<owner, waiting, cv_mutex, sem_waiting>>
          /\ cv_pc' = [cv_pc EXCEPT ![c] = "relock"]
      BY <2>3 DEF WaitBlock, mutex_vars, lock_vars, demo_sem_vars
    <3>2. c \in Tids /\ PlaceOf(c)
      BY <1>3, <3>1
    <3> HIDE DEF s, p
    <3>3. QED
      BY <1>5, <1>20, <2>1, <3>1, <3>2 DEF PlaceOf
  <2>4. CASE WaitRelock /\ UNCHANGED demo_sem_vars
    <3>1. PICK m \in Mutexes : m = cv_mutex[c] /\ (LockFree(m) \/ LockBusy(m))
      BY <2>4 DEF WaitRelock
    <3>2. /\ InThread /\ cv_pc[c] = "relock" /\ UNCHANGED sem_waiting
          /\ cv_pc' = [cv_pc EXCEPT ![c] = "out"]
      BY <2>4 DEF WaitRelock, demo_sem_vars
    <3>3. c \in Tids /\ PlaceOf(c) /\ cv_pc'[c] = "out" /\ state[c] = "RUNNING"
      BY <1>3, <1>5, <3>2
    <3>4. m = 0 /\ m \in HeldAt(s, p) /\ owner[m] # c
      BY <3>1, <3>2, <3>3 DEF PlaceOf
    <3> HIDE DEF s, p
    <3>5. CASE LockFree(m)
      <4>1. owner' = [owner EXCEPT ![m] = c] /\ waiting'[c] = NoMutex /\ state'[c] = "RUNNING"
        BY <1>5, <3>3, <3>5, LockEffects
      <4>2. QED
        BY <1>5, <1>20, <2>1, <3>2, <3>3, <3>4, <4>1
    <3>6. CASE LockBusy(m)
      <4>1. UNCHANGED owner /\ waiting'[c] = m
        BY <1>5, <3>3, <3>6, LockEffects
      <4>2. QED
        BY <1>5, <1>20, <2>1, <3>2, <3>3, <3>4, <4>1
    <3>7. QED
      BY <3>1, <3>5, <3>6
  <2>5. CASE S!WaitResume /\ UNCHANGED <<mutex_vars, cv_vars>>
    <3>1. SemStep /\ c \in sem_waiting /\ InThread /\ (Acquires \/ FallsAsleep)
      BY <2>5, SemCalls DEF SemStep, BaseInv, SemInv
    <3>2. UNCHANGED <<owner, waiting, cv_pc, cv_mutex>>
      BY <2>5 DEF mutex_vars, lock_vars, cv_vars
    <3>3. c \in Tids /\ PlaceOf(c) /\ state[c] = "RUNNING"
      BY <1>3, <3>1
    <3>4. /\ c \in sem_waiting' => c \in sem_waiting
          /\ state'[c] = "BLOCKED" => c \in sem_waiting'
      BY <3>1, <3>3 DEF Acquires, FallsAsleep, coop_vars
    <3>5. \A m \in Mutexes : waiting[c] = m => owner[m] # c
      BY <3>3 DEF PlaceOf
    <3> HIDE DEF s, p
    <3>6. QED
      BY <1>20, <2>1, <3>1, <3>2, <3>4, <3>5
  <2>6. QED
    BY <1>21, <2>2, <2>3, <2>4, <2>5 DEF DemoInside
<1>22. QED
  BY <1>9, <1>10, <1>11, <1>13, <1>16, <1>17, <1>18, <1>19, <1>21 DEF ThreadCall

\* A demo starts with all its threads before their first call.
LEMMA StartDemoPlace ==
    ASSUME BaseInv, PlaceInv, NEW d \in DemoNames, StartDemo(d)
    PROVE  PlaceInv'
<1>1. /\ waiting' = [t \in Tids |-> NoMutex] /\ owner' = [m \in Mutexes |-> NoThread]
      /\ cv_pc' = [t \in Tids |-> "out"] /\ sem_waiting' = {}
  BY DEF StartDemo
<1>2. \A t \in pool' : t \in Tids => state'[t] = "READY"
  BY DEF StartDemo
<1>3. QED
  BY <1>1, <1>2, MutexAssumption DEF PlaceInv, PlaceOf, NoThread, Tids

\* The places of the threads, from the start on and step by step.
LEMMA InitPlace == DemosInit => PlaceInv
<1> SUFFICES ASSUME DemosInit PROVE PlaceInv
  OBVIOUS
<1>1. CvInit /\ Init /\ CoopInit /\ sem_waiting = {}
  BY DEF DemosInit, CvInit, Init
<1>2. QED
  BY <1>1, MutexAssumption DEF CvInit, Init, CoopInit, PlaceInv, PlaceOf, NoThread, Tids

LEMMA NextPlace == BaseInv /\ PlaceInv /\ [DemosNext]_demo_vars => PlaceInv'
<1> SUFFICES ASSUME BaseInv, PlaceInv, [DemosNext]_demo_vars PROVE PlaceInv'
  OBVIOUS
<1>1. MenuInv /\ CoopTypeOK /\ pos \in [Tids -> Nat \ {0}] /\ (\A t \in Tids : PlaceOf(t))
  BY DEF BaseInv, CvInv, DetectorInv, MenuInv, LockInv, CoopInv, PlaceInv
<1>2. ASSUME ThreadCall, UNCHANGED menu_vars, NEW t \in Tids PROVE PlaceOf(t)'
  <2>1. RunStep /\ UNCHANGED <<role, demo, pool>>
    BY <1>2, CallFrame DEF RunStep, menu_vars
  <2>2. CASE t = current
    BY <1>2, <2>1, <2>2, CallerPlace, CallFrame
  <2>3. CASE t # current
    <3>1. LeftAlone(t) /\ Script(t)' = Script(t) /\ role'[t] = role[t]
      BY <2>1, <2>3, OthersLeftAlone, SameScript
    <3>2. pos'[t] = pos[t]
      BY <1>1, <1>2, <2>3, CallPasses DEF Passed
    <3>3. QED
      BY <1>1, <2>1, <3>1, <3>2, PlaceKept
  <2>4. QED
    BY <2>2, <2>3
<1>3. ASSUME DemoSched \/ RunReturns \/ HandleRun \/ HandleCreate,
             UNCHANGED <<role, demo, pos>>, NEW t \in Tids
      PROVE  PlaceOf(t)'
  <2>1. LeftAlone(t) /\ Script(t)' = Script(t) /\ role'[t] = role[t] /\ pos'[t] = pos[t]
    BY <1>3, SchedLeavesAlone, SameScript
  <2>2. (t \in pool => t \in pool') /\ (t \in pool' => t \in pool \/ state'[t] # "BLOCKED")
    <3>1. CASE DemoSched
      BY <3>1, SchedFrame
    <3>2. CASE RunReturns \/ HandleRun
      BY <3>2 DEF RunReturns, HandleRun, all_vars, vars, coop_vars
    <3>3. CASE HandleCreate
      BY <1>1, <3>3 DEF HandleCreate, CreateThread, CoopTypeOK
    <3>4. QED
      BY <1>3, <3>1, <3>2, <3>3
  <2>3. QED
    BY <1>1, <2>1, <2>2, PlaceKept
<1>4. CASE RunStep
  <2>1. CASE RunReturns
    BY <1>3, <2>1 DEF RunReturns, PlaceInv
  <2>2. CASE DemoSched /\ UNCHANGED menu_vars
    BY <1>3, <2>2, SchedFrame DEF menu_vars, PlaceInv
  <2>3. CASE ThreadCall /\ UNCHANGED menu_vars
    BY <1>2, <2>3 DEF PlaceInv
  <2>4. QED
    BY <1>4, <2>1, <2>2, <2>3 DEF RunStep
<1>5. CASE HandleCreate \/ HandleRun
  BY <1>3, <1>5 DEF HandleCreate, HandleRun, PlaceInv
<1>6. CASE UNCHANGED demo_vars
  <2>1. UNCHANGED <<waiting, cv_pc, cv_mutex, sem_waiting, owner, state, pool, role, demo, pos>>
    BY <1>6 DEF demo_vars, all_vars, vars, coop_vars, mutex_vars, lock_vars, cv_vars, menu_vars,
                demo_sem_vars
  <2>2. \A t \in Tids : PlaceOf(t)'
    <3> SUFFICES ASSUME NEW t \in Tids PROVE PlaceOf(t)'
      OBVIOUS
    <3>1. Script(t)' = Script(t) /\ LeftAlone(t)
      BY <2>1, SameScript DEF LeftAlone
    <3>2. QED
      BY <1>1, <2>1, <3>1, PlaceKept
  <2>3. QED
    BY <2>2 DEF PlaceInv
<1>7. QED
  BY <1>4, <1>5, <1>6, StartDemoPlace DEF DemosNext

LEMMA PlaceInvariant == DemosSpec => [](BaseInv /\ PlaceInv)
<1>1. DemosInit => BaseInv /\ PlaceInv
  BY InitBase, InitPlace
<1>2. BaseInv /\ PlaceInv /\ [DemosNext]_demo_vars => (BaseInv /\ PlaceInv)'
  BY NextBase, NextPlace
<1>3. QED
  BY <1>1, <1>2, PTL DEF DemosSpec

-----------------------------------------------------------------------------
(* Readers and writers.  The one permit of the semaphore is with the writer *)
(* that has come out of wait(), or with the readers that are counted; the   *)
(* count mutex keeps the first reader's wait() and the count together.      *)

Reader(t) == t \in pool /\ role[t] = "reader"
Writer(t) == t \in pool /\ role[t] = "writer"

\* Between ++g_rw_read_count and --g_rw_read_count, in either turn.
Counted == {t \in Tids : Reader(t) /\ pos[t] \in {3, 4, 5, 6, 11, 12, 13, 14}}

\* A writer between wait() and signal().
Writers == {t \in Tids : Writer(t) /\ t \notin sem_waiting /\ pos[t] \in {2, 3, 6, 7}}

\* A reader is in the section of the count mutex when its script is there, the
\* first of them may sleep in the semaphore's wait() there.
TurnOf(t) ==
    /\ Reader(t) =>
          /\ pos[t] \in 1..17
          /\ waiting[t] # NoMutex => waiting[t] = 0 /\ pos[t] \in {2, 6, 10, 14}
          /\ pos[t] \in {2, 3, 6, 7, 10, 11, 14, 15} /\ waiting[t] = NoMutex =>
                0 \in Mutexes /\ owner[0] = t
          /\ t \in sem_waiting => pos[t] \in {3, 11}
    /\ Writer(t) => pos[t] \in 1..9 /\ (t \in sem_waiting => pos[t] \in {2, 6})

TurnsInv == \A t \in Tids : TurnOf(t)

\* The reader that sleeps in wait() is the only one counted; the permit is
\* there, or with the counted readers, or with one writer.
PermitInv ==
    /\ \A t \in sem_waiting : Reader(t) => Counted = {t}
    /\ demo = "readers_writers" =>
          /\ read_count = Cardinality(Counted)
          /\ \/ sem_count = 1 /\ Counted \subseteq sem_waiting /\ Writers = {}
             \/ /\ sem_count = 0 /\ Writers = {}
                /\ Counted # {} /\ Counted \intersect sem_waiting = {}
             \/ sem_count = 0 /\ Counted \subseteq sem_waiting /\ \E t \in Tids : Writers = {t}

RWInv == TurnsInv /\ PermitInv

\* Where readers and writers make which calls.
LEMMA ReaderPlaces ==
    ASSUME NEW t, role[t] = "reader", NEW p \in 1..Len(Script(t)), NEW op,
           Script(t)[p].op = op
    PROVE  /\ p \in 1..16
           /\ op = "lock" => p \in {1, 5, 9, 13} /\ Script(t)[p].m = 0
           /\ op = "unlock" => p \in {3, 7, 11, 15} /\ Script(t)[p].m = 0
           /\ op = "count_up" <=> p \in {2, 10}
           /\ op = "count_down" <=> p \in {6, 14}
           /\ op = "yield" => p \in {4, 8, 12, 16}
           /\ op \in {"lock", "unlock", "count_up", "count_down", "yield"}
<1>1. p \in 1..16 /\ op = ReaderOp(Place(p, 8)) /\ (op \in {"lock", "unlock"} => Script(t)[p].m = 0)
  BY ReaderScript
<1>2. QED
  BY <1>1 DEF ReaderOp, Place

LEMMA WriterPlaces ==
    ASSUME NEW t, role[t] = "writer", NEW p \in 1..Len(Script(t)), NEW op,
           Script(t)[p].op = op
    PROVE  /\ p \in 1..8
           /\ op = "wait" <=> p \in {1, 5}
           /\ op = "signal" <=> p \in {3, 7}
           /\ op \in {"wait", "signal", "yield"}
<1>1. p \in 1..8 /\ op = WriterOp(Place(p, 4))
  BY WriterScript
<1>2. QED
  BY <1>1 DEF WriterOp, Place

\* A thread that may read is counted, one that may write has the permit.
LEMMA WhereReading ==
    ASSUME BaseInv, TurnsInv, NEW t \in Tids
    PROVE  /\ Reading(t) => t \in Counted /\ t \notin sem_waiting
           /\ Writing(t) => t \in Writers
<1>1. Len(ReaderTurn) = 8 /\ Len(WriterTurn) = 4
  BY DEF ReaderTurn, WriterTurn
<1>2. ASSUME Reading(t) PROVE t \in Counted /\ t \notin sem_waiting
  <2>1. Reader(t) /\ t \notin sem_waiting /\ pos[t] \in 1..17
    BY <1>2 DEF Reading, Reader, TurnsInv, TurnOf
  <2>2. ((pos[t] - 1) % 8) + 1 \in 3..6
    BY <1>1, <1>2 DEF Reading, InTurn
  <2>3. pos[t] \in {3, 4, 5, 6, 11, 12, 13, 14}
    BY <2>1, <2>2
  <2>4. QED
    BY <2>1, <2>3 DEF Counted
<1>3. ASSUME Writing(t) PROVE t \in Writers
  <2>1. Writer(t) /\ t \notin sem_waiting /\ pos[t] \in 1..9
    BY <1>3 DEF Writing, Writer, TurnsInv, TurnOf
  <2>2. ((pos[t] - 1) % 4) + 1 \in 2..3
    BY <1>1, <1>3 DEF Writing, InTurn
  <2>3. pos[t] \in {2, 3, 6, 7}
    BY <2>1, <2>2
  <2>4. QED
    BY <2>1, <2>3 DEF Writers
<1>4. QED
  BY <1>2, <1>3

\* Readers and writers are there in their own demo only.
LEMMA RWDemo ==
    ASSUME BaseInv, NEW t \in Tids, Reader(t) \/ Writer(t)
    PROVE  demo = "readers_writers"
BY DEF BaseInv, MenuInv, Reader, Writer, DemosOf

\* Where the permit is decides who may read and write.
LEMMA RWIsAlone == BaseInv /\ RWInv => WriterAlone
<1> SUFFICES ASSUME BaseInv, RWInv PROVE WriterAlone
  OBVIOUS
<1>1. SUFFICES ASSUME NEW t \in Tids, Writing(t), NEW u \in Tids \ {t}
               PROVE  ~Reading(u) /\ ~Writing(u)
  BY DEF WriterAlone
<1>2. t \in Writers /\ demo = "readers_writers"
  BY <1>1, WhereReading, RWDemo DEF RWInv, Writers
<1>3. Writers = {t} /\ Counted \subseteq sem_waiting
  BY <1>2 DEF RWInv, PermitInv
<1>4. QED
  BY <1>1, <1>3, WhereReading DEF RWInv

\* A thread that a step leaves alone stays where it is in its turn, ...
LEMMA TurnKept ==
    ASSUME NEW t \in Tids, TurnOf(t), LeftAlone(t), t \in pool' => t \in pool \/ role[t] = "idle",
           role'[t] = role[t], pos'[t] = pos[t]
    PROVE  TurnOf(t)'
BY DEF TurnOf, LeftAlone, Reader, Writer

\* Where a reader or a writer makes its calls.
RWCall(op) ==
    /\ Reader(current) =>
          /\ pos[current] \in 1..16
          /\ op = "lock" => pos[current] \in {1, 5, 9, 13} /\ CallMutex = 0
          /\ op = "unlock" => pos[current] \in {3, 7, 11, 15} /\ CallMutex = 0
          /\ op = "count_up" <=> pos[current] \in {2, 10}
          /\ op = "count_down" <=> pos[current] \in {6, 14}
          /\ op = "yield" => pos[current] \in {4, 8, 12, 16}
          /\ op \in {"lock", "unlock", "count_up", "count_down", "yield"}
    /\ Writer(current) =>
          /\ pos[current] \in 1..8
          /\ op = "wait" <=> pos[current] \in {1, 5}
          /\ op = "signal" <=> pos[current] \in {3, 7}
          /\ op \in {"wait", "signal", "yield"}

\* The calls of readers and writers are at the places of their scripts.
LEMMA RWCalls ==
    ASSUME BaseInv, NEW op, AtCall(op)
    PROVE  RWCall(op)
<1>1. /\ pos[current] \in 1..Len(Script(current)) /\ Script(current)[pos[current]].op = op
  BY Calling
<1>2. CASE Reader(current)
  <2>1. role[current] = "reader" /\ ~Writer(current)
    BY <1>2 DEF Reader, Writer
  <2> DEFINE p == pos[current]
  <2>2. /\ p \in 1..16
        /\ op = "lock" => p \in {1, 5, 9, 13} /\ CallMutex = 0
        /\ op = "unlock" => p \in {3, 7, 11, 15} /\ CallMutex = 0
        /\ op = "count_up" <=> p \in {2, 10}
        /\ op = "count_down" <=> p \in {6, 14}
        /\ op = "yield" => p \in {4, 8, 12, 16}
        /\ op \in {"lock", "unlock", "count_up", "count_down", "yield"}
    BY <1>1, <2>1, ReaderPlaces, SMTT(30) DEF CallMutex
  <2>3. QED
    BY <2>1, <2>2 DEF RWCall
<1>3. CASE Writer(current)
  <2>1. role[current] = "writer" /\ ~Reader(current)
    BY <1>3 DEF Reader, Writer
  <2>2. QED
    BY <1>1, <1>3, <2>1, WriterPlaces DEF RWCall
<1>4. QED
  BY <1>2, <1>3 DEF RWCall

\* ... and the thread that makes a call gets to its next place.
LEMMA CallerTurn ==
    ASSUME BaseInv, PlaceInv, TurnsInv, ThreadCall, UNCHANGED <<role, demo>>
    PROVE  TurnOf(current)'
<1> DEFINE c == current
           s == Script(c)
           p == pos[c]
<1>1. /\ DetectorInv /\ LockInv /\ TypeOK /\ CoopInv /\ CoopTypeOK
      /\ Calm /\ CvPlaces /\ pos \in [Tids -> Nat \ {0}]
  BY DEF BaseInv, CvInv, DetectorInv, WakeInv, MenuInv, LockInv, CoopInv
<1>2. UNCHANGED <<pool, current>> /\ UNCHANGED role
  BY CallFrame
<1>3. /\ waiting \in [Tids -> Mutexes \union {NoMutex}]
      /\ owner \in [Mutexes -> Tids \union {NoThread}]
      /\ NoMutex \notin Mutexes
  BY <1>1, MutexAssumption DEF TypeOK
<1>4. CASE DemoInside
  <2>1. UNCHANGED pos
    BY <1>4 DEF DemoInside
  <2>2. ASSUME NEW m \in Mutexes, LockResume(m), UNCHANGED <<cv_vars, demo_sem_vars>>
        PROVE  TurnOf(c)'
    <3>1. InThread /\ waiting[c] = m /\ UNCHANGED sem_waiting
      BY <2>2 DEF LockResume, demo_sem_vars
    <3>2. c \in Tids /\ TurnOf(c)
      BY <3>1, Executing DEF TurnsInv
    <3>3. \/ owner' = [owner EXCEPT ![m] = c] /\ waiting'[c] = NoMutex
          \/ waiting'[c] = m
      BY <1>3, <2>2, <3>2, LockEffects
    <3> HIDE DEF s, p
    <3>4. QED
      BY <1>2, <1>3, <2>1, <3>1, <3>2, <3>3 DEF TurnOf, Reader, Writer
  <2>3. CASE WaitBlock \/ WaitRelock
    <3>1. InThread /\ cv_pc[c] # "out"
      BY <2>3 DEF WaitBlock, WaitRelock
    <3>2. PlaceOf(c)
      BY <3>1, Executing DEF PlaceInv
    <3>3. role[c] \notin {"reader", "writer"}
      BY <3>1, <3>2 DEF PlaceOf
    <3>4. QED
      BY <1>2, <3>3 DEF TurnOf, Reader, Writer
  <2>4. CASE S!WaitResume /\ UNCHANGED <<mutex_vars, cv_vars>>
    <3>1. c \in sem_waiting /\ InThread
      BY <2>4, SemCalls DEF BaseInv, SemInv
    <3>2. UNCHANGED <<owner, waiting>>
      BY <2>4 DEF mutex_vars, lock_vars
    <3>3. c \in Tids /\ TurnOf(c)
      BY <3>1, Executing DEF TurnsInv
    <3>4. QED
      BY <1>2, <2>1, <3>1, <3>2, <3>3 DEF TurnOf, Reader, Writer
  <2>5. QED
    BY <1>4, <2>2, <2>3, <2>4 DEF DemoInside
<1>5. CASE \E op \in {"await", "announce", "put", "take"} : AtCall(op)
  <2>1. PICK op \in {"await", "announce", "put", "take"} : AtCall(op)
    BY <1>5
  <2>2. role[c] \notin {"reader", "writer"}
    BY <2>1, Calling, Executing, CallFacts
  <2>3. QED
    BY <1>2, <2>2 DEF TurnOf, Reader, Writer
<1>6. ASSUME NEW op, AtCall(op), Passed
      PROVE  /\ c \in Tids /\ TurnOf(c) /\ c # NoThread /\ RWCall(op)
             /\ waiting[c] = NoMutex /\ c \notin sem_waiting
             /\ pos'[c] = p + 1
  <2>1. RWCall(op) /\ c \in Tids /\ TurnOf(c) /\ InThread
    BY <1>6, RWCalls, Calling, Executing DEF TurnsInv
  <2>2. pos'[c] = p + 1 /\ c # NoThread
    BY <1>1, <1>6, <2>1 DEF Passed, NoThread, Tids
  <2>3. QED
    BY <1>6, <2>1, <2>2, Calling
<1> USE DEF RWCall
<1>7. CASE DemoYield
  <2>1. AtCall("yield") /\ Passed /\ UNCHANGED <<owner, waiting, sem_waiting>>
    BY <1>7 DEF DemoYield, mutex_vars, lock_vars, demo_sem_vars
  <2>2. QED
    BY <1>2, <1>6, <2>1 DEF TurnOf, Reader, Writer
<1>8. CASE DemoLock
  <2>1. PICK m \in Mutexes : m = CallMutex /\ (LockFree(m) \/ LockBusy(m))
    BY <1>8 DEF DemoLock
  <2>2. AtCall("lock") /\ Passed /\ UNCHANGED sem_waiting
    BY <1>8 DEF DemoLock, demo_sem_vars
  <2>3. \/ owner' = [owner EXCEPT ![m] = c] /\ waiting'[c] = NoMutex
        \/ waiting'[c] = m
    BY <1>3, <1>6, <2>1, <2>2, LockEffects
  <2>4. ~Writer(c)
    BY <1>6, <2>2
  <2> HIDE DEF s
  <2>5. QED
    BY <1>2, <1>3, <1>6, <2>1, <2>2, <2>3, <2>4 DEF TurnOf, Reader, Writer
<1>9. CASE DemoUnlock
  <2>1. AtCall("unlock") /\ Passed /\ UNCHANGED <<waiting, sem_waiting>>
    BY <1>9 DEF DemoUnlock, Unlock, demo_sem_vars
  <2>2. QED
    BY <1>2, <1>6, <2>1 DEF TurnOf, Reader, Writer
<1>10. ASSUME NEW op \in {"wait", "signal", "count_up", "count_down"}, AtCall(op), Passed,
              UNCHANGED <<mutex_vars, cv_vars>>,
              op \in {"signal", "count_down"} => sem_waiting' = sem_waiting
       PROVE  TurnOf(c)'
  <2>1. UNCHANGED <<owner, waiting>>
    BY <1>10 DEF mutex_vars, lock_vars
  <2>2. QED
    BY <1>2, <1>6, <1>10, <2>1 DEF TurnOf, Reader, Writer
<1>11. S!Signal => sem_waiting' = sem_waiting
  BY DEF S!Signal
<1>12. CASE DemoWait \/ DemoSignal \/ CountUp \/ CountDown
  <2>1. PICK op \in {"wait", "signal", "count_up", "count_down"} :
            /\ AtCall(op) /\ Passed /\ UNCHANGED <<mutex_vars, cv_vars>>
            /\ op \in {"signal", "count_down"} => sem_waiting' = sem_waiting
    BY <1>11, <1>12 DEF DemoWait, DemoSignal, CountUp, CountDown, demo_sem_vars
  <2>2. QED
    BY <1>10, <2>1
<1>13. QED
  BY <1>4, <1>5, <1>7, <1>8, <1>9, <1>12 DEF ThreadCall, Await, Announce, Put, TakeItem

LEMMA NextTurns == BaseInv /\ PlaceInv /\ TurnsInv /\ [DemosNext]_demo_vars => TurnsInv'
<1> SUFFICES ASSUME BaseInv, PlaceInv, TurnsInv, [DemosNext]_demo_vars PROVE TurnsInv'
  OBVIOUS
<1>1. /\ CoopTypeOK /\ pos \in [Tids -> Nat \ {0}] /\ (\A t \in Tids : TurnOf(t))
      /\ \A t \in Tids : t >= next_tid => role[t] = "idle"
  BY DEF BaseInv, CvInv, DetectorInv, MenuInv, LockInv, CoopInv, TurnsInv
<1>2. ASSUME ThreadCall, UNCHANGED menu_vars, NEW t \in Tids PROVE TurnOf(t)'
  <2>1. RunStep /\ UNCHANGED <<role, demo, pool>>
    BY <1>2, CallFrame DEF RunStep, menu_vars
  <2>2. CASE t = current
    BY <1>2, <2>1, <2>2, CallerTurn, CallFrame
  <2>3. CASE t # current
    <3>1. LeftAlone(t) /\ role'[t] = role[t]
      BY <2>1, <2>3, OthersLeftAlone
    <3>2. pos'[t] = pos[t]
      BY <1>1, <1>2, <2>3, CallPasses DEF Passed
    <3>3. QED
      BY <1>1, <2>1, <3>1, <3>2, TurnKept
  <2>4. QED
    BY <2>2, <2>3
<1>3. ASSUME DemoSched \/ RunReturns \/ HandleRun \/ HandleCreate,
             UNCHANGED <<role, pos>>, NEW t \in Tids
      PROVE  TurnOf(t)'
  <2>1. LeftAlone(t) /\ role'[t] = role[t] /\ pos'[t] = pos[t]
    BY <1>3, SchedLeavesAlone
  <2>2. t \in pool' => t \in pool \/ role[t] = "idle"
    <3>1. CASE DemoSched
      BY <3>1, SchedFrame
    <3>2. CASE RunReturns \/ HandleRun
      BY <3>2 DEF RunReturns, HandleRun, all_vars, vars, coop_vars
    <3>3. CASE HandleCreate
      BY <1>1, <3>3 DEF HandleCreate, CreateThread, Tids
    <3>4. QED
      BY <1>3, <3>1, <3>2, <3>3
  <2>3. QED
    BY <1>1, <2>1, <2>2, TurnKept
<1>4. CASE RunStep
  <2>1. CASE RunReturns
    BY <1>3, <2>1 DEF RunReturns, TurnsInv
  <2>2. CASE DemoSched /\ UNCHANGED menu_vars
    BY <1>3, <2>2, SchedFrame DEF menu_vars, TurnsInv
  <2>3. CASE ThreadCall /\ UNCHANGED menu_vars
    BY <1>2, <2>3 DEF TurnsInv
  <2>4. QED
    BY <1>4, <2>1, <2>2, <2>3 DEF RunStep
<1>5. CASE HandleCreate \/ HandleRun
  BY <1>3, <1>5 DEF HandleCreate, HandleRun, TurnsInv
<1>6. ASSUME NEW d \in DemoNames, StartDemo(d) PROVE TurnsInv'
  <2>1. /\ waiting' = [t \in Tids |-> NoMutex] /\ sem_waiting' = {}
        /\ \A t \in Tids : t \in pool' => pos'[t] = 1
    BY <1>6 DEF StartDemo
  <2>2. QED
    BY <2>1 DEF TurnsInv, TurnOf, Reader, Writer
<1>7. CASE UNCHANGED demo_vars
  <2>1. UNCHANGED <<waiting, sem_waiting, owner, pool, role, pos>>
    BY <1>7 DEF demo_vars, all_vars, vars, coop_vars, mutex_vars, lock_vars, menu_vars,
                demo_sem_vars
  <2>2. QED
    BY <1>1, <2>1 DEF TurnsInv, TurnOf, Reader, Writer
<1>8. QED
  BY <1>4, <1>5, <1>6, <1>7 DEF DemosNext

\* A call touches nobody's place but the caller's.
LEMMA CallOthers ==
    ASSUME BaseInv, ThreadCall, UNCHANGED menu_vars, NEW t \in Tids, t # current
    PROVE  /\ pos'[t] = pos[t] /\ (t \in sem_waiting' <=> t \in sem_waiting)
           /\ Reader(t)' <=> Reader(t)
           /\ Writer(t)' <=> Writer(t)
           /\ t \in Counted' <=> t \in Counted
           /\ t \in Writers' <=> t \in Writers
<1>1. RunStep /\ UNCHANGED <<role, demo, pool>>
  BY CallFrame DEF RunStep, menu_vars
<1>2. t \in sem_waiting' <=> t \in sem_waiting
  BY <1>1, OthersLeftAlone DEF LeftAlone
<1>3. pos'[t] = pos[t]
  BY CallPasses DEF Passed, BaseInv, MenuInv
<1>4. QED
  BY <1>1, <1>2, <1>3 DEF Reader, Writer, Counted, Writers

\* When a reader counts itself, in or out, no other is in the semaphore's
\* wait(): that one would own the count mutex.
LEMMA NoReaderAsleep ==
    ASSUME BaseInv, RWInv, InThread, current \notin sem_waiting, waiting[current] = NoMutex,
           Reader(current), pos[current] \in {2, 6, 10, 14}
    PROVE  Counted \intersect sem_waiting = {}
<1>1. current \in Tids /\ TurnOf(current)
  BY Executing DEF RWInv, TurnsInv
<1>2. 0 \in Mutexes /\ owner[0] = current
  BY <1>1 DEF TurnOf
<1>3. ASSUME NEW t \in Counted, t \in sem_waiting PROVE FALSE
  <2>1. Reader(t) /\ TurnOf(t) /\ waiting[t] = NoMutex
    BY <1>3 DEF Counted, RWInv, TurnsInv, BaseInv, SemInv
  <2>2. owner[0] = t
    BY <1>3, <2>1 DEF TurnOf
  <2>3. QED
    BY <1>2, <1>3, <2>2
<1>4. QED
  BY <1>3

\* The calls that are not about the semaphore leave the permit where it is.
LEMMA PermitKept ==
    ASSUME PermitInv, UNCHANGED <<demo, sem_count, sem_waiting, read_count>>,
           Counted' = Counted, Writers' = Writers,
           \A t \in sem_waiting : Reader(t)' => Reader(t)
    PROVE  PermitInv'
BY DEF PermitInv

\* A call moves the permit and the count together.
LEMMA CallerPermit ==
    ASSUME BaseInv, PlaceInv, RWInv, ThreadCall, UNCHANGED menu_vars,
           demo = "readers_writers"
    PROVE  PermitInv'
<1> DEFINE c == current
           p == pos[c]
<1>1. UNCHANGED <<pool, current, role, demo>> /\ pos \in [Tids -> Nat \ {0}]
  BY CallFrame DEF BaseInv, MenuInv, menu_vars
<1>2. /\ Counted \in SUBSET Tids /\ Writers \in SUBSET Tids
      /\ Counted' \in SUBSET Tids /\ Writers' \in SUBSET Tids
  BY DEF Counted, Writers
<1>3. /\ sem_waiting \subseteq Tids /\ sem_count \in Nat
      /\ \A t \in sem_waiting : Reader(t) => Counted = {t}
      /\ read_count = Cardinality(Counted)
      /\ \/ sem_count = 1 /\ Counted \subseteq sem_waiting /\ Writers = {}
         \/ /\ sem_count = 0 /\ Writers = {}
            /\ Counted # {} /\ Counted \intersect sem_waiting = {}
         \/ sem_count = 0 /\ Counted \subseteq sem_waiting /\ \E t \in Tids : Writers = {t}
  BY DEF RWInv, PermitInv, BaseInv, SemInv, CvInv, DetectorInv, LockInv, CoopInv, CoopTypeOK
<1>4. ASSUME InThread
      PROVE  c \in Tids /\ (Reader(c) \/ Writer(c) \/ role[c] = "idle") /\ TurnOf(c)
  <2>1. c \in Tids /\ c \in pool /\ role[c] \in Roles /\ TurnOf(c)
    BY <1>4, Executing DEF RWInv, TurnsInv
  <2>2. QED
    BY <2>1 DEF BaseInv, MenuInv, DemosOf, Roles, Reader, Writer
\* The caller's place, before and after.
<1>5. ASSUME NEW op, AtCall(op), Passed
      PROVE  /\ InThread /\ c \in Tids /\ TurnOf(c) /\ RWCall(op)
             /\ waiting[c] = NoMutex /\ c \notin sem_waiting /\ pos'[c] = p + 1
             /\ Reader(c) \/ Writer(c)
             /\ ~(Reader(c) /\ Writer(c))
             /\ (Reader(c)' <=> Reader(c)) /\ (Writer(c)' <=> Writer(c))
  <2>1. /\ InThread /\ waiting[c] = NoMutex /\ c \notin sem_waiting
        /\ p \in 1..Len(Script(c)) /\ RWCall(op)
    BY <1>5, Calling, RWCalls
  <2>2. pos'[c] = p + 1
    BY <1>1, <1>4, <1>5, <2>1 DEF Passed
  <2>3. role[c] # "idle"
    BY <2>1, ShortScripts
  <2>4. QED
    BY <1>1, <1>4, <2>1, <2>2, <2>3 DEF Reader, Writer
<1>6. \A t \in Tids \ {c} :
          /\ t \in sem_waiting' <=> t \in sem_waiting
          /\ Reader(t)' <=> Reader(t)
          /\ t \in Counted' <=> t \in Counted
          /\ t \in Writers' <=> t \in Writers
  BY CallOthers
<1>0. /\ c \in Counted <=> c \in Tids /\ Reader(c) /\ p \in {3, 4, 5, 6, 11, 12, 13, 14}
      /\ c \in Counted' <=> c \in Tids /\ Reader(c)' /\ pos'[c] \in {3, 4, 5, 6, 11, 12, 13, 14}
      /\ c \in Writers <=> c \in Tids /\ Writer(c) /\ c \notin sem_waiting /\ p \in {2, 3, 6, 7}
      /\ c \in Writers' <=>
            c \in Tids /\ Writer(c)' /\ c \notin sem_waiting' /\ pos'[c] \in {2, 3, 6, 7}
  BY <1>1 DEF Counted, Writers, Reader, Writer
<1> HIDE DEF p
<1>7. ASSUME UNCHANGED <<sem_count, sem_waiting, read_count, pos>>, InThread
      PROVE  PermitInv'
  <2>1. Counted' = Counted /\ Writers' = Writers /\ \A t \in Tids : Reader(t)' <=> Reader(t)
    BY <1>1, <1>7 DEF Counted, Writers, Reader, Writer
  <2>2. QED
    BY <1>1, <1>3, <1>7, <2>1, PermitKept DEF RWInv
<1>8. ASSUME NEW op \in {"yield", "lock", "unlock"}, AtCall(op), Passed,
             UNCHANGED <<sem_count, sem_waiting, read_count>>
      PROVE  PermitInv'
  <2>1. /\ c \in Counted' <=> c \in Counted
        /\ c \in Writers' <=> c \in Writers
    BY <1>0, <1>5, <1>8 DEF RWCall, p
  <2>2. Counted' = Counted /\ Writers' = Writers
    BY <1>2, <1>6, <2>1
  <2>3. \A t \in sem_waiting : Reader(t)' => Reader(t)
    BY <1>3, <1>5, <1>6, <1>8
  <2>4. QED
    BY <1>1, <1>8, <2>2, <2>3, PermitKept DEF RWInv
<1>9. CASE DemoYield \/ DemoLock \/ DemoUnlock
  BY <1>8, <1>9 DEF DemoYield, DemoLock, DemoUnlock, demo_sem_vars, global_vars
<1>10. ASSUME NEW op \in {"await", "announce", "put", "take"}, AtCall(op) PROVE FALSE
  BY <1>4, <1>10, Calling, RWCalls, ShortScripts DEF RWCall
\* wait() of a writer, by a new call or after a wakeup.
<1>11. ASSUME Writer(c), Writer(c)', c \in Tids, c \notin Writers, ~Reader(c), ~Reader(c)',
              UNCHANGED read_count, pos'[c] \in {2, 6}, Acquires \/ FallsAsleep
       PROVE  PermitInv'
  <2>1. Counted' = Counted
    BY <1>0, <1>2, <1>6, <1>11
  <2>2. CASE Acquires
    <3>1. Writers' = Writers \union {c}
      BY <1>0, <1>2, <1>6, <1>11, <2>2 DEF Acquires
    <3>2. sem_count = 1 /\ sem_count' = 0 /\ sem_waiting' = sem_waiting \ {c}
      BY <1>3, <2>2 DEF Acquires
    <3>3. QED
      BY <1>1, <1>3, <1>6, <1>11, <2>1, <3>1, <3>2 DEF PermitInv, Counted
  <2>3. CASE FallsAsleep
    <3>1. sem_waiting' = sem_waiting \union {c} /\ sem_count = 0 /\ sem_count' = 0
      BY <2>3 DEF FallsAsleep
    <3>2. Writers' = Writers
      BY <1>0, <1>2, <1>6, <1>11, <3>1
    <3>3. QED
      BY <1>1, <1>3, <1>6, <1>11, <2>1, <3>1, <3>2 DEF PermitInv, Counted
  <2>4. QED
    BY <1>11, <2>2, <2>3
<1>12. CASE DemoWait
  <2>1. AtCall("wait") /\ Passed /\ S!Wait /\ UNCHANGED read_count
    BY <1>12 DEF DemoWait, global_vars
  <2>2. Acquires \/ FallsAsleep
    BY <1>3, <2>1, SemCalls
  <2>3. Writer(c) /\ p \in {1, 5} /\ pos'[c] \in {2, 6} /\ c \notin Writers
    BY <1>0, <1>5, <2>1 DEF RWCall, p
  <2>4. QED
    BY <1>5, <1>11, <2>1, <2>2, <2>3
<1>13. CASE DemoSignal
  <2>1. AtCall("signal") /\ Passed /\ S!Signal /\ UNCHANGED read_count
    BY <1>13 DEF DemoSignal, global_vars
  <2>2. Signals
    BY <1>3, <2>1, SemCalls
  <2>3. Writer(c) /\ ~Reader(c) /\ ~Reader(c)' /\ pos'[c] \in {4, 8} /\ c \in Writers
    BY <1>0, <1>5, <2>1 DEF RWCall, p
  <2>4. Counted' = Counted /\ Writers' = Writers \ {c}
    BY <1>0, <1>2, <1>6, <2>3
  <2>5. sem_count = 0 /\ Counted \subseteq sem_waiting /\ Writers = {c}
    BY <1>3, <2>3
  <2>6. sem_count' = 1 /\ sem_waiting' = sem_waiting
    BY <1>3, <2>2, <2>5 DEF Signals
  <2>7. QED
    BY <1>1, <1>3, <1>6, <2>1, <2>3, <2>4, <2>5, <2>6 DEF PermitInv
<1>14. CASE CountUp
  <2>1. AtCall("count_up") /\ Passed /\ read_count' = read_count + 1
    BY <1>14 DEF CountUp
  <2>2. /\ Reader(c) /\ ~Writer(c) /\ ~Writer(c)' /\ p \in {2, 10} /\ pos'[c] \in {3, 11}
        /\ c \notin Counted /\ c \in Counted' /\ c \notin sem_waiting
    BY <1>0, <1>5, <2>1 DEF RWCall, p
  <2>3. Counted' = Counted \union {c} /\ Writers' = Writers
    BY <1>0, <1>2, <1>6, <2>2
  <2>4. Counted \intersect sem_waiting = {}
    BY <1>5, <2>1, <2>2, NoReaderAsleep DEF p
  <2>5. /\ Cardinality(Counted') = Cardinality(Counted) + 1 /\ Cardinality(Counted) \in Nat
        /\ Cardinality(Counted) = 0 => Counted = {}
    <3>1. IsFiniteSet(Counted)
      BY <1>2, TidSets
    <3>2. QED
      BY <1>2, <1>5, <2>1, <2>2, <2>3, <3>1, TidSets, FS_EmptySet
  <2>6. CASE read_count' = 1
    <3>1. Counted = {} /\ Counted' = {c}
      BY <1>3, <2>1, <2>3, <2>5, <2>6
    <3>2. S!Wait
      BY <1>14, <2>6 DEF CountUp
    <3>3. Acquires \/ FallsAsleep
      BY <1>3, <3>2, SemCalls
    <3>4. \A t \in sem_waiting : ~Reader(t)
      BY <1>3, <3>1
    <3>5. CASE Acquires
      <4>1. sem_count = 1 /\ sem_count' = 0 /\ sem_waiting' = sem_waiting \ {c}
        BY <1>3, <3>5 DEF Acquires
      <4>2. QED
        BY <1>1, <1>3, <1>6, <2>1, <2>2, <2>3, <2>5, <3>1, <3>4, <4>1 DEF PermitInv
    <3>6. CASE FallsAsleep
      <4>1. sem_waiting' = sem_waiting \union {c} /\ sem_count = 0 /\ sem_count' = 0
        BY <3>6 DEF FallsAsleep
      <4>2. QED
        BY <1>1, <1>3, <1>6, <2>1, <2>2, <2>3, <2>5, <3>1, <3>4, <4>1 DEF PermitInv
    <3>7. QED
      BY <3>3, <3>5, <3>6
  <2>7. CASE read_count' # 1
    <3>1. UNCHANGED <<sem_count, sem_waiting>>
      BY <1>14, <2>7 DEF CountUp, demo_sem_vars
    <3>2. Counted # {}
      BY <1>3, <2>1, <2>7, FS_EmptySet
    <3>3. \A t \in sem_waiting : ~Reader(t)
      BY <1>3, <2>4
    <3>4. sem_count = 0 /\ Writers = {}
      BY <1>3, <2>4, <3>2
    <3>5. Counted' # {} /\ Counted' \intersect sem_waiting' = {}
      BY <2>2, <2>3, <2>4, <3>1
    <3>6. QED
      BY <1>1, <1>3, <1>6, <2>1, <2>2, <2>3, <2>5, <3>1, <3>3, <3>4, <3>5 DEF PermitInv
  <2>8. QED
    BY <2>6, <2>7
<1>15. CASE CountDown
  <2>1. AtCall("count_down") /\ Passed /\ read_count' = read_count - 1
    BY <1>15 DEF CountDown
  <2>2. /\ Reader(c) /\ ~Writer(c) /\ ~Writer(c)' /\ p \in {6, 14} /\ pos'[c] \in {7, 15}
        /\ c \in Counted /\ c \notin Counted' /\ c \notin sem_waiting
    BY <1>0, <1>5, <2>1 DEF RWCall, p
  <2>3. Counted' = Counted \ {c} /\ Writers' = Writers
    BY <1>0, <1>2, <1>6, <2>2
  <2>4. Counted \intersect sem_waiting = {}
    BY <1>5, <2>1, <2>2, NoReaderAsleep DEF p
  <2>5. /\ Cardinality(Counted') = Cardinality(Counted) - 1 /\ Cardinality(Counted') \in Nat
        /\ Cardinality(Counted') = 0 <=> Counted' = {}
    <3>1. IsFiniteSet(Counted')
      BY <1>2, TidSets
    <3>2. QED
      BY <1>2, <1>5, <2>1, <2>2, <2>3, <3>1, TidSets, FS_EmptySet
  <2>6. sem_count = 0 /\ Writers = {} /\ \A t \in sem_waiting : ~Reader(t)
    BY <1>3, <2>2, <2>4
  <2>7. CASE read_count' = 0
    <3>1. Counted' = {}
      BY <1>3, <2>1, <2>5, <2>7
    <3>2. S!Signal
      BY <1>15, <2>7 DEF CountDown
    <3>3. sem_count' = 1 /\ sem_waiting' = sem_waiting
      BY <1>3, <2>6, <3>2, SemCalls DEF Signals
    <3>4. QED
      BY <1>1, <1>3, <1>6, <2>1, <2>2, <2>3, <2>5, <2>6, <3>1, <3>3 DEF PermitInv
  <2>8. CASE read_count' # 0
    <3>1. UNCHANGED <<sem_count, sem_waiting>>
      BY <1>15, <2>8 DEF CountDown, demo_sem_vars
    <3>2. Counted' # {} /\ Counted' \intersect sem_waiting' = {}
      BY <1>3, <2>1, <2>3, <2>4, <2>5, <2>8, <3>1
    <3>3. QED
      BY <1>1, <1>3, <1>6, <2>1, <2>2, <2>3, <2>5, <2>6, <3>1, <3>2 DEF PermitInv
  <2>9. QED
    BY <2>7, <2>8
<1>16. CASE DemoInside
  <2>1. UNCHANGED <<pos, read_count>>
    BY <1>16 DEF DemoInside, global_vars
  <2>2. CASE S!WaitResume
    <3>1. (Acquires \/ FallsAsleep) /\ InThread /\ c \in sem_waiting
      BY <1>3, <2>2, SemCalls
    <3>2. c \in Tids /\ TurnOf(c) /\ role[c] \in {"reader", "writer"} /\ c \in pool
      BY <3>1, Executing DEF PlaceInv, PlaceOf, RWInv, TurnsInv, BaseInv, MenuInv, DemosOf
    <3>3. CASE role[c] = "writer"
      <4>1. /\ Writer(c) /\ Writer(c)' /\ ~Reader(c) /\ ~Reader(c)' /\ pos'[c] \in {2, 6}
            /\ c \notin Writers
        BY <1>1, <2>1, <3>1, <3>2, <3>3 DEF Writer, Reader, TurnOf, Writers
      <4>2. QED
        BY <1>11, <2>1, <3>1, <3>2, <4>1
    <3>4. CASE role[c] = "reader"
      <4>1. /\ Reader(c) /\ Reader(c)' /\ ~Writer(c) /\ ~Writer(c)'
        BY <1>1, <3>2, <3>4 DEF Writer, Reader
      <4>2. Counted = {c} /\ Counted' = {c} /\ Writers' = Writers
        BY <1>1, <1>2, <1>3, <1>6, <2>1, <3>1, <4>1 DEF Counted, Writers
      <4>3. \A t \in sem_waiting : Reader(t) => t = c
        BY <1>3, <4>2
      <4>4. CASE Acquires
        <5>1. sem_count = 1 /\ sem_count' = 0 /\ sem_waiting' = sem_waiting \ {c}
          BY <1>3, <4>4 DEF Acquires
        <5>2. QED
          BY <1>1, <1>3, <1>6, <2>1, <3>2, <4>2, <4>3, <5>1 DEF PermitInv
      <4>5. CASE FallsAsleep
        <5>1. sem_waiting' = sem_waiting \union {c} /\ sem_count = 0 /\ sem_count' = 0
          BY <4>5 DEF FallsAsleep
        <5>2. QED
          BY <1>1, <1>3, <1>6, <2>1, <3>1, <3>2, <4>2, <4>3, <5>1 DEF PermitInv
      <4>6. QED
        BY <3>1, <4>4, <4>5
    <3>5. QED
      BY <3>2, <3>3, <3>4
  <2>3. ASSUME NEW m \in Mutexes, LockResume(m), UNCHANGED demo_sem_vars PROVE PermitInv'
    BY <1>7, <2>1, <2>3 DEF LockResume, demo_sem_vars
  <2>4. CASE (WaitBlock \/ WaitRelock) /\ UNCHANGED demo_sem_vars
    BY <1>7, <2>1, <2>4 DEF WaitBlock, WaitRelock, demo_sem_vars
  <2>5. QED
    BY <1>16, <2>2, <2>3, <2>4 DEF DemoInside
<1>17. QED
  BY <1>9, <1>10, <1>12, <1>13, <1>14, <1>15, <1>16
     DEF ThreadCall, Await, Announce, Put, TakeItem

\* So does every other step, the start of a demo included.
LEMMA NextPermit == BaseInv /\ PlaceInv /\ RWInv /\ [DemosNext]_demo_vars => PermitInv'
<1> SUFFICES ASSUME BaseInv, PlaceInv, RWInv, [DemosNext]_demo_vars PROVE PermitInv'
  OBVIOUS
<1>1. /\ CoopTypeOK /\ SemInv /\ PermitInv
      /\ \A t \in Tids : t >= next_tid => role[t] = "idle"
  BY DEF BaseInv, CvInv, DetectorInv, MenuInv, LockInv, CoopInv, RWInv
<1>2. sem_waiting \subseteq Tids
  BY <1>1 DEF SemInv, CoopTypeOK
<1>3. ASSUME UNCHANGED <<demo, sem_count, sem_waiting, read_count, pos, role>>,
             \A t \in Tids : role[t] # "idle" => (t \in pool' <=> t \in pool)
      PROVE  PermitInv'
  <2>1. \A t \in Tids : (Reader(t)' <=> Reader(t)) /\ (Writer(t)' <=> Writer(t))
    BY <1>3 DEF Reader, Writer
  <2>2. Counted' = Counted /\ Writers' = Writers
    BY <1>3, <2>1 DEF Counted, Writers
  <2>3. QED
    BY <1>1, <1>2, <1>3, <2>1, <2>2, PermitKept
<1>4. CASE RunReturns \/ HandleRun \/ UNCHANGED demo_vars
  <2>1. UNCHANGED <<demo, sem_count, sem_waiting, read_count, pos, role, pool>>
    BY <1>4 DEF RunReturns, HandleRun, demo_vars, all_vars, vars, coop_vars, demo_sem_vars,
                global_vars, menu_vars
  <2>2. QED
    BY <1>3, <2>1
<1>5. CASE HandleCreate
  <2>1. /\ UNCHANGED <<demo, sem_count, sem_waiting, read_count, pos, role>>
        /\ pool' = pool \union {next_tid} /\ next_tid \in Tids
    BY <1>5 DEF HandleCreate, CreateThread, demo_sem_vars, global_vars
  <2>2. role[next_tid] = "idle"
    BY <1>1, <2>1 DEF Tids
  <2>3. QED
    BY <1>3, <2>1, <2>2
<1>6. CASE DemoSched /\ UNCHANGED menu_vars
  <2>1. UNCHANGED <<demo, sem_count, sem_waiting, read_count, pos, role, pool>>
    BY <1>6, SchedFrame DEF DemoSched, demo_sem_vars, global_vars, menu_vars
  <2>2. QED
    BY <1>3, <2>1
<1>7. CASE ThreadCall /\ UNCHANGED menu_vars
  <2>1. CASE demo = "readers_writers"
    BY <1>7, <2>1, CallerPermit
  <2>2. CASE demo # "readers_writers"
    <3>1. UNCHANGED <<pool, role, demo>>
      BY <1>7, CallFrame DEF menu_vars
    <3>2. \A t \in Tids : ~Reader(t) /\ ~Reader(t)'
      BY <2>2, <3>1, RWDemo DEF Reader
    <3>3. sem_waiting' \subseteq Tids
      <4>1. BaseInv'
        BY NextBase
      <4>2. QED
        BY <4>1 DEF BaseInv, SemInv, CvInv, DetectorInv, LockInv, CoopInv, CoopTypeOK
    <3>4. QED
      BY <2>2, <3>1, <3>2, <3>3 DEF PermitInv
  <2>3. QED
    BY <2>1, <2>2
<1>8. ASSUME NEW d \in DemoNames, StartDemo(d) PROVE PermitInv'
  <2>1. /\ sem_waiting' = {} /\ read_count' = 0 /\ sem_count' = Permits(d) /\ demo' = d
        /\ \A t \in Tids : t \in pool' => pos'[t] = 1
    BY <1>8 DEF StartDemo
  <2>2. Counted' = {} /\ Writers' = {}
    BY <2>1 DEF Counted, Writers, Reader, Writer
  <2>3. QED
    BY <2>1, <2>2, FS_EmptySet DEF PermitInv, Permits
<1>9. QED
  BY <1>4, <1>5, <1>6, <1>7, <1>8 DEF DemosNext, RunStep

\* Before the first demo there are no readers and writers.
LEMMA InitRW == DemosInit => RWInv
<1> SUFFICES ASSUME DemosInit PROVE RWInv
  OBVIOUS
<1>1. pool = {} /\ sem_waiting = {} /\ demo = "none"
  BY DEF DemosInit, CvInit, Init, CoopInit
<1>2. QED
  BY <1>1 DEF RWInv, TurnsInv, TurnOf, PermitInv, Reader, Writer

DemosInv == BaseInv /\ PlaceInv /\ RWInv

\* The three invariants together.
LEMMA DemosInvariant == DemosSpec => []DemosInv
<1>1. DemosInit => DemosInv
  BY InitBase, InitPlace, InitRW DEF DemosInv
<1>2. DemosInv /\ [DemosNext]_demo_vars => DemosInv'
  BY NextBase, NextPlace, NextTurns, NextPermit DEF DemosInv, RWInv
<1>3. QED
  BY <1>1, <1>2, PTL DEF DemosSpec

\* A writer writes alone, for any number of mutexes and threads, whatever was
\* run before.
THEOREM DemosWriterAlone == DemosSpec => []WriterAlone
<1>1. DemosInv => WriterAlone
  BY RWIsAlone DEF DemosInv
<1>2. QED
  BY <1>1, DemosInvariant, PTL

-----------------------------------------------------------------------------
(* The verdict of the detector at the end of a demo.  It is right because   *)
(* only mutexes can leave a thread unfinished: the permits of a semaphore   *)
(* and the signals of the condition variables reach all who sleep.          *)

\* Threads in wait() of the semaphore that have been woken.
AwakeInWait == {t \in Tids : t \in sem_waiting /\ state[t] # "BLOCKED"}

\* While threads sleep in the semaphore's queue, each permit has a woken
\* thread on its way to take it.
PermitsWanted == sem_queue # << >> => sem_count <= Cardinality(AwakeInWait)

\* semaphoreDemoThread: who has a permit of the two.
Customer(t) == t \in pool /\ role[t] = "semaphore"
Holders == {t \in Tids : Customer(t) /\ t \notin sem_waiting /\ pos[t] \in {2, 3}}

CustomerInv ==
    /\ \A t \in Tids : Customer(t) => pos[t] \in 1..4 /\ (t \in sem_waiting => pos[t] = 2)
    /\ demo = "semaphore" => sem_count + Cardinality(Holders) = 2

\* There is one thread for each side of the demos with condition variables.
Alone == {"awaiter", "announcer", "producer", "consumer"}
CastInv ==
    /\ \A t, u \in pool : role[t] \in Alone /\ role[t] = role[u] => t = u
    /\ demo = "condition" => \E t \in pool : role[t] = "announcer"
    /\ demo = "producer_consumer" =>
          \E t, u \in pool : role[t] = "producer" /\ role[u] = "consumer"

\* The condition on which a function waits.
CondOf(r) ==
    IF r = "awaiter" THEN "condition" ELSE IF r = "producer" THEN "not_full" ELSE "not_empty"

\* The items that a producer has put or a consumer has taken before call p.
Items(p) == IF p <= 2 THEN 0 ELSE IF p <= 6 THEN 1 ELSE 2

\* A thread sleeps on a condition only while it has reason to.
ReasonInv ==
    /\ \A c \in Conds, t \in Tids : InQueue(cv_queue[c], t) => c = CondOf(role[t])
    /\ \A t \in pool : role[t] = "announcer" => (ready <=> pos[t] > 2)
    /\ \A t, u \in pool : role[t] = "producer" /\ role[u] = "consumer" =>
          demo_buffer = Items(pos[t]) - Items(pos[u]) /\ demo_buffer >= 0
    /\ \A t \in Tids : InQueue(cv_queue[CondOf(role[t])], t) =>
          /\ role[t] = "awaiter" => ~ready
          /\ role[t] = "producer" => demo_buffer > 0
          /\ role[t] = "consumer" => demo_buffer = 0

WaitersInv == PermitsWanted /\ CustomerInv /\ CastInv /\ ReasonInv

\* A thread that has locked a mutex is not at its end, and which mutex it is.
LEMMA HeldFacts ==
    ASSUME BaseInv, NEW t \in pool, NEW m \in HeldAt(Script(t), pos[t])
    PROVE  /\ ~finished[t] /\ role[t] \notin {"idle", "semaphore", "writer"}
           /\ role[t] \in Alone \union {"reader"} => m = 0
<1> DEFINE s == Script(t)
           p == pos[t]
<1>1. t \in Tids /\ role[t] \in Roles
  BY DEF BaseInv, MenuInv, CvInv, DetectorInv, LockInv, CoopInv, CoopTypeOK
<1>2. p \in 1..(Len(s) + 1) /\ (finished[t] => p = Len(s) + 1)
  BY DEF BaseInv, ScriptInv
<1>3. Paired(s)
  BY <1>1, ScriptsPaired
<1>4. ~finished[t]
  BY <1>2, <1>3, HeldEnds
<1>5. PICK i \in 1..(p - 1) : s[i].op = "lock" /\ s[i].m = m
  BY DEF HeldAt
<1>6. i \in 1..Len(s)
  BY <1>2, <1>3, <1>5 DEF Paired
<1> HIDE DEF p
<1>7. /\ role[t] \notin {"idle", "semaphore", "writer"}
      /\ role[t] \in Alone \union {"reader"} => s[i].m = 0
  BY <1>1, <1>5, <1>6, CallFacts DEF Alone
<1>8. QED
  BY <1>4, <1>5, <1>7

\* When run() has found nothing to select, the threads of the pool have
\* finished or are blocked.
Stopped == ~running /\ \A t \in pool : state[t] # "READY"

\* A stopped thread has finished, or is where its place says.
LEMMA StoppedThreads ==
    ASSUME DemosInv, Stopped, NEW t \in pool
    PROVE  /\ t \in Tids /\ state[t] \in {"BLOCKED", "FINISHED"}
           /\ state[t] = "FINISHED" <=> finished[t]
           /\ PlaceOf(t)
<1>1. CoopTypeOK /\ CoopSafety /\ Calm /\ InMain
  BY DEF DemosInv, BaseInv, CvInv, DetectorInv, WakeInv, MenuInv, LockInv, CoopInv, Stopped
<1>2. t \in Tids /\ state[t] \in ThreadState /\ state[t] # "READY"
  BY <1>1 DEF CoopTypeOK, Stopped
<1>3. state[t] # "RUNNING"
  BY <1>1, <1>2 DEF CoopTypeOK, CoopSafety, OneRunning, Zombie, Calm, InMain
<1>4. state[t] = "FINISHED" <=> finished[t]
  BY <1>1, <1>2 DEF CoopSafety, EndedIsFinished
<1>5. QED
  BY <1>2, <1>3, <1>4 DEF ThreadState, DemosInv, PlaceInv

\* The mutex a blocked thread waits for then has an owner, blocked as well.
LEMMA OwnerBlocked ==
    ASSUME DemosInv, Stopped, NEW t \in pool, NEW m \in Mutexes, waiting[t] = m,
           state[t] = "BLOCKED"
    PROVE  /\ owner[m] \in pool /\ state[owner[m]] = "BLOCKED" /\ owner[m] # t
           /\ m \in HeldAt(Script(owner[m]), pos[owner[m]])
<1>1. LockInv /\ TypeOK /\ OwnersAgree /\ Calm /\ t \in Tids
  BY StoppedThreads
     DEF DemosInv, BaseInv, CvInv, DetectorInv, WakeInv, MenuInv, LockInv
<1>2. wait_queue[m] # << >>
  BY <1>1 DEF Calm, QueueOf, InQueue
<1>3. \A u \in pool : state[u] \notin {"READY", "RUNNING"}
  BY StoppedThreads
<1>4. locked[m]
  BY <1>1, <1>2, <1>3 DEF Calm, WokenFor
<1> DEFINE u == owner[m]
<1>5. u # NoThread /\ u \in Tids
  BY <1>1, <1>4 DEF OwnersAgree, TypeOK
<1>6. PlaceOf(u)
  BY <1>5 DEF DemosInv, PlaceInv
<1>7. u \in pool /\ m \in HeldAt(Script(u), pos[u])
  BY <1>6 DEF PlaceOf
<1>8. state[u] = "BLOCKED"
  BY <1>7, HeldFacts, StoppedThreads DEF DemosInv
<1>9. u # t
  BY <1>6 DEF PlaceOf
<1>10. QED
  BY <1>7, <1>8, <1>9

\* Where everyone locks one mutex only, nobody is left waiting for it: its
\* owner would sleep on a condition or in a semaphore, ...
LEMMA NobodyWaits ==
    ASSUME DemosInv, Stopped, NEW t \in pool, state[t] = "BLOCKED",
           role[t] \in Alone \union {"reader"}
    PROVE  waiting[t] = NoMutex \/ \E u \in Counted : u \in sem_waiting
<1>1. SUFFICES ASSUME waiting[t] # NoMutex PROVE \E u \in Counted : u \in sem_waiting
  OBVIOUS
<1>2. TypeOK /\ t \in Tids /\ PlaceOf(t)
  BY StoppedThreads DEF DemosInv, BaseInv, CvInv, DetectorInv, LockInv
<1>3. waiting[t] \in Mutexes
  BY <1>1, <1>2 DEF TypeOK
<1>4. waiting[t] = 0
  BY <1>2, <1>3, HeldFacts DEF PlaceOf, DemosInv
<1> DEFINE u == owner[0]
<1>5. u \in pool /\ state[u] = "BLOCKED" /\ 0 \in HeldAt(Script(u), pos[u]) /\ 0 \in Mutexes
  BY <1>3, <1>4, OwnerBlocked
<1>6. u \in Tids /\ PlaceOf(u) /\ role[u] \in Roles /\ TurnOf(u)
  BY <1>5, StoppedThreads DEF DemosInv, BaseInv, MenuInv, RWInv, TurnsInv
<1>7. /\ role[u] \notin {"idle", "semaphore", "writer"}
      /\ role[u] \in Alone \union {"reader"}
  <2>1. role[u] \notin {"idle", "semaphore", "writer"}
    BY <1>5, HeldFacts DEF DemosInv
  <2>2. demo \in DemosOf(role[u]) /\ demo \in DemosOf(role[t])
    BY <1>5, <2>1 DEF DemosInv, BaseInv, MenuInv, Alone
  <2>3. QED
    BY <1>6, <2>1, <2>2 DEF Alone, DemosOf, Roles
<1>8. cv_pc[u] = "out"
  BY <1>5, <1>6 DEF PlaceOf
<1>9. waiting[u] = NoMutex
  <2>1. SUFFICES ASSUME waiting[u] \in Mutexes PROVE FALSE
    BY <1>2, <1>6 DEF TypeOK
  <2>2. waiting[u] = 0
    BY <1>5, <1>6, <1>7, <2>1, HeldFacts DEF PlaceOf, DemosInv
  <2>3. QED
    BY <1>5, <1>6, <2>2 DEF PlaceOf
<1>10. u \in sem_waiting
  BY <1>5, <1>6, <1>8, <1>9 DEF PlaceOf
<1>11. role[u] = "reader"
  BY <1>6, <1>7, <1>10 DEF PlaceOf, Alone
<1>12. u \in Counted
  BY <1>5, <1>6, <1>10, <1>11 DEF TurnOf, Reader, Counted
<1>13. QED
  BY <1>10, <1>12

\* ... nor for a permit: who has one would sleep on a mutex or on a condition.
LEMMA PermitsReachAll ==
    ASSUME DemosInv, WaitersInv, Stopped, NEW t \in pool, state[t] = "BLOCKED"
    PROVE  t \notin sem_waiting
<1> SUFFICES ASSUME t \in sem_waiting PROVE FALSE
  OBVIOUS
<1>1. /\ SemInv /\ MenuInv /\ ScriptInv /\ PermitInv /\ CustomerInv /\ BaseInv
      /\ sem_waiting \subseteq pool /\ t \in Tids /\ PlaceOf(t)
  BY StoppedThreads DEF DemosInv, BaseInv, SemInv, RWInv, WaitersInv
<1>2. sem_queue # << >>
  BY <1>1 DEF SemInv, InQueue
<1>3. AwakeInWait = {}
  BY <1>1, StoppedThreads DEF AwakeInWait, SemInv
<1>4. sem_count = 0
  BY <1>1, <1>2, <1>3, FS_EmptySet DEF WaitersInv, PermitsWanted, SemInv
\* Nobody sleeps who has a permit.
<1>5. ASSUME NEW u \in pool, u \notin sem_waiting, pos[u] <= Len(Script(u)),
             role[u] \in {"semaphore", "reader", "writer"}
      PROVE  /\ role[u] = "reader"
             /\ \E w \in Counted : w \in sem_waiting
  <2>1. ~finished[u]
    BY <1>1, <1>5 DEF ScriptInv
  <2>2. state[u] = "BLOCKED" /\ u \in Tids /\ PlaceOf(u)
    BY <2>1, StoppedThreads
  <2>3. waiting[u] # NoMutex
    BY <1>5, <2>2 DEF PlaceOf
  <2>4. waiting[u] \in HeldAt(Script(u), pos[u])
    <3>1. waiting[u] \in Mutexes
      BY <2>2, <2>3 DEF DemosInv, BaseInv, CvInv, DetectorInv, LockInv, TypeOK
    <3>2. QED
      BY <2>2, <3>1 DEF PlaceOf
  <2>5. role[u] = "reader"
    BY <1>1, <1>5, <2>4, HeldFacts
  <2>6. QED
    BY <2>2, <2>3, <2>5, NobodyWaits
<1>6. CASE role[t] = "semaphore"
  <2>1. demo = "semaphore"
    BY <1>1, <1>6 DEF MenuInv, DemosOf
  <2>2. Cardinality(Holders) = 2
    BY <1>1, <1>4, <2>1, TidSets DEF CustomerInv, Holders
  <2>3. PICK u \in Holders : TRUE
    BY <2>2, FS_EmptySet
  <2>4. u \in pool /\ role[u] = "semaphore" /\ u \notin sem_waiting /\ pos[u] \in {2, 3}
    BY <2>3 DEF Holders, Customer
  <2>5. Len(Script(u)) = 3
    BY <2>4, ShortScripts
  <2>6. QED
    BY <1>5, <2>4, <2>5
<1>7. CASE role[t] \in {"reader", "writer"}
  <2>1. demo = "readers_writers"
    BY <1>1, <1>7 DEF MenuInv, DemosOf
  <2>2. CASE Counted # {} /\ Counted \intersect sem_waiting = {}
    <3>1. PICK u \in Counted : TRUE
      BY <2>2
    <3>2. u \in pool /\ role[u] = "reader" /\ u \notin sem_waiting /\ pos[u] \in 1..16
      BY <2>2, <3>1 DEF Counted, Reader
    <3>3. pos[u] <= Len(Script(u))
      <4>1. Len(Script(u)) = 16
        BY <3>2, ReaderScript
      <4>2. QED
        BY <3>2, <4>1
    <3>4. \E w \in Counted : w \in sem_waiting
      BY <1>5, <3>2, <3>3
    <3>5. QED
      BY <2>2, <3>4
  <2>3. ASSUME NEW u \in Tids, Writers = {u} PROVE FALSE
    <3>1. u \in pool /\ role[u] = "writer" /\ u \notin sem_waiting /\ pos[u] \in 1..8
      BY <2>3 DEF Writers, Writer
    <3>2. pos[u] <= Len(Script(u))
      <4>1. Len(Script(u)) = 8
        BY <3>1, WriterScript
      <4>2. QED
        BY <3>1, <4>1
    <3>3. QED
      BY <1>5, <3>1, <3>2
  <2>4. QED
    BY <1>1, <1>4, <2>1, <2>2, <2>3 DEF PermitInv
<1>8. QED
  BY <1>1, <1>6, <1>7 DEF PlaceOf

\* ... nor on a condition: what it waits for has come, or the other side of it
\* would sleep on a condition as well, both of them with good reason.
LEMMA SignalsReachAll ==
    ASSUME DemosInv, WaitersInv, Stopped, NEW t \in pool, state[t] = "BLOCKED"
    PROVE  cv_pc[t] # "relock"
<1> SUFFICES ASSUME cv_pc[t] = "relock" PROVE FALSE
  OBVIOUS
<1>1. /\ BaseInv /\ CvCalm /\ MenuInv /\ ScriptInv /\ ReasonInv /\ CastInv
      /\ sem_waiting \subseteq pool /\ \A u \in sem_waiting : ~finished[u]
  BY DEF DemosInv, BaseInv, CvInv, MenuInv, SemInv, WaitersInv
\* Those who are not at their end are asleep on their condition.
<1>2. ASSUME NEW u \in pool, cv_pc[u] = "relock", state[u] = "BLOCKED"
      PROVE  /\ InQueue(cv_queue[CondOf(role[u])], u)
             /\ role[u] \in {"awaiter", "producer", "consumer"}
             /\ role[u] \in {"producer", "consumer"} => pos[u] \in {2, 6}
  <2>1. u \in Tids /\ PlaceOf(u) /\ Sleeping(u) /\ role[u] \in Roles
    BY <1>1, <1>2, StoppedThreads DEF Sleeping, MenuInv
  <2>2. \E c \in Conds : InQueue(cv_queue[c], u)
    BY <1>1, <2>1 DEF CvCalm
  <2>3. InQueue(cv_queue[CondOf(role[u])], u)
    BY <1>1, <2>1, <2>2 DEF ReasonInv
  <2>4. /\ role[u] \in {"awaiter", "producer", "consumer"}
        /\ pos[u] \in 1..Len(Script(u)) /\ Script(u)[pos[u]].op \in {"await", "put", "take"}
    BY <1>2, <2>1 DEF PlaceOf
  <2>5. role[u] \in {"producer", "consumer"} => pos[u] \in {2, 6}
    BY <2>1, <2>4, CallFacts
  <2>6. QED
    BY <2>3, <2>4, <2>5
<1>3. ASSUME NEW u \in pool, role[u] \in Alone, pos[u] <= Len(Script(u))
      PROVE  cv_pc[u] = "relock" /\ state[u] = "BLOCKED" /\ u \in Tids
  <2>1. ~finished[u]
    BY <1>1, <1>3 DEF ScriptInv
  <2>2. state[u] = "BLOCKED" /\ u \in Tids /\ PlaceOf(u)
    BY <2>1, StoppedThreads
  <2>3. u \notin sem_waiting
    BY <2>2, PermitsReachAll
  <2>4. \A w \in Counted : w \notin sem_waiting
    <3>1. SUFFICES ASSUME NEW w \in Counted, w \in sem_waiting PROVE FALSE
      OBVIOUS
    <3>2. w \in pool /\ state[w] = "BLOCKED"
      BY <1>1, <3>1, StoppedThreads
    <3>3. QED
      BY <3>1, <3>2, PermitsReachAll
  <2>5. waiting[u] = NoMutex
    BY <1>3, <2>2, <2>4, NobodyWaits
  <2>6. QED
    BY <2>2, <2>3, <2>5 DEF PlaceOf
<1>4. t \in Tids /\ InQueue(cv_queue[CondOf(role[t])], t) /\ demo \in DemosOf(role[t])
  BY <1>1, <1>2, StoppedThreads DEF MenuInv
<1>5. CASE role[t] = "awaiter"
  <2>1. ~ready /\ demo = "condition"
    BY <1>1, <1>4, <1>5 DEF ReasonInv, DemosOf
  <2>2. PICK u \in pool : role[u] = "announcer"
    BY <1>1, <2>1 DEF CastInv
  <2>3. pos[u] <= Len(Script(u))
    <3>1. ~(pos[u] > 2) /\ u \in Tids
      BY <1>1, <2>1, <2>2, StoppedThreads DEF ReasonInv
    <3>2. Len(Script(u)) = 3 /\ pos[u] \in Nat
      BY <1>1, <2>2, <3>1, ShortScripts DEF MenuInv
    <3>3. QED
      BY <3>1, <3>2
  <2>4. cv_pc[u] = "relock" /\ state[u] = "BLOCKED"
    BY <1>3, <2>2, <2>3 DEF Alone
  <2>5. QED
    BY <1>2, <2>2, <2>4
<1>6. ASSUME role[t] \in {"producer", "consumer"}
      PROVE  \E u, w \in pool :
                /\ role[u] = "producer" /\ role[w] = "consumer" /\ t \in {u, w}
                /\ Len(Script(u)) = 8 /\ Len(Script(w)) = 8
                /\ pos[u] \in Nat /\ pos[w] \in Nat
                /\ demo_buffer = Items(pos[u]) - Items(pos[w])
  <2>1. demo = "producer_consumer"
    BY <1>4, <1>6 DEF DemosOf
  <2>2. PICK u, w \in pool : role[u] = "producer" /\ role[w] = "consumer"
    BY <1>1, <2>1 DEF CastInv
  <2>3. t \in {u, w}
    BY <1>1, <1>6, <2>2 DEF CastInv, Alone
  <2>4. Len(Script(u)) = 8 /\ Len(Script(w)) = 8
    BY <2>2, ProducerScript, ConsumerScript
  <2>5. pos[u] \in Nat /\ pos[w] \in Nat
    BY <1>1, StoppedThreads DEF MenuInv
  <2>6. QED
    BY <1>1, <2>2, <2>3, <2>4, <2>5 DEF ReasonInv
<1>7. CASE role[t] = "producer"
  <2>1. PICK u \in pool : /\ role[u] = "consumer" /\ Len(Script(u)) = 8 /\ pos[u] \in Nat
                          /\ demo_buffer = Items(pos[t]) - Items(pos[u])
    BY <1>6, <1>7
  <2>2. demo_buffer > 0 /\ pos[t] \in {2, 6}
    BY <1>1, <1>2, <1>4, <1>7 DEF ReasonInv
  <2>3. pos[u] <= Len(Script(u))
    BY <2>1, <2>2 DEF Items
  <2>4. cv_pc[u] = "relock" /\ state[u] = "BLOCKED" /\ u \in Tids
    BY <1>3, <2>1, <2>3 DEF Alone
  <2>5. demo_buffer = 0
    BY <1>1, <1>2, <2>1, <2>4 DEF ReasonInv
  <2>6. QED
    BY <2>2, <2>5
<1>8. CASE role[t] = "consumer"
  <2>1. PICK u \in pool : /\ role[u] = "producer" /\ Len(Script(u)) = 8 /\ pos[u] \in Nat
                          /\ demo_buffer = Items(pos[u]) - Items(pos[t])
    BY <1>6, <1>8
  <2>2. demo_buffer = 0 /\ pos[t] \in {2, 6}
    BY <1>1, <1>2, <1>4, <1>8 DEF ReasonInv
  <2>3. pos[u] <= Len(Script(u))
    BY <2>1, <2>2 DEF Items
  <2>4. cv_pc[u] = "relock" /\ state[u] = "BLOCKED" /\ u \in Tids
    BY <1>3, <2>1, <2>3 DEF Alone
  <2>5. demo_buffer > 0
    BY <1>1, <1>2, <2>1, <2>4 DEF ReasonInv
  <2>6. QED
    BY <2>2, <2>5
<1>9. QED
  BY <1>2, <1>5, <1>7, <1>8

\* So those that are left wait for each other's mutexes, which is what the
\* detector looks for; and nobody who has finished waits.
LEMMA VerdictOfStopped == DemosInv /\ WaitersInv => VerdictIsRight
<1> SUFFICES ASSUME DemosInv, WaitersInv, Stopped
             PROVE  Detect(wait_edges, hold_edges) <=> ~Done
  BY DEF VerdictIsRight, Stopped
<1>1. TypeOK /\ EdgesExact /\ Calm /\ pool \subseteq Tids
  BY DEF DemosInv, BaseInv, CvInv, DetectorInv, WakeInv, MenuInv, LockInv, CoopInv, CoopTypeOK
<1>2. Detect(wait_edges, hold_edges) <=> \E K \in SUBSET Tids : Deadlocked(K)
  <2>1. ASSUME NEW K \in SUBSET Tids
        PROVE  Knot(K, wait_edges, hold_edges) <=> Deadlocked(K)
    <3>1. /\ waiting \in [Tids -> Mutexes \union {NoMutex}]
          /\ owner \in [Mutexes -> Tids \union {NoThread}]
          /\ \A t \in Tids, m \in Mutexes : <<t, m>> \in wait_edges <=> waiting[t] = m
          /\ \A m \in Mutexes, t \in Tids : <<m, t>> \in hold_edges <=> owner[m] = t
      BY <1>1 DEF TypeOK, EdgesExact
    <3>2. QED
      BY <3>1, KnotIsDeadlock DEF Deadlocked
  <2>2. QED
    BY <2>1 DEF Detect
<1>3. ASSUME ~Done PROVE \E K \in SUBSET Tids : Deadlocked(K)
  <2> DEFINE K == {t \in pool : state[t] = "BLOCKED"}
  <2>1. K # {} /\ K \in SUBSET Tids
    BY <1>1, <1>3, StoppedThreads DEF Done
  <2>2. ASSUME NEW t \in K PROVE waiting[t] # NoMutex /\ owner[waiting[t]] \in K
    <3>1. t \in pool /\ t \in Tids /\ state[t] = "BLOCKED" /\ PlaceOf(t)
      BY StoppedThreads
    <3>2. waiting[t] # NoMutex
      BY <3>1, PermitsReachAll, SignalsReachAll DEF PlaceOf
    <3>3. waiting[t] \in Mutexes
      BY <1>1, <3>1, <3>2 DEF TypeOK
    <3>4. QED
      BY <3>1, <3>2, <3>3, OwnerBlocked
  <2>3. QED
    BY <2>1, <2>2 DEF Deadlocked
<1>4. ASSUME NEW K \in SUBSET Tids, Deadlocked(K) PROVE ~Done
  <2>1. PICK t \in K : waiting[t] # NoMutex
    BY <1>4 DEF Deadlocked
  <2>2. t \in pool /\ ~finished[t]
    BY <1>1, <2>1 DEF Calm
  <2>3. QED
    BY <2>2, StoppedThreads DEF Done
<1>5. QED
  BY <1>2, <1>3, <1>4

-----------------------------------------------------------------------------
(* The invariants behind the verdict, step by step.                         *)

\* A thread without a function does not count among those of a demo.
SameCast ==
    /\ UNCHANGED <<role, demo>> /\ pool' \subseteq Tids
    /\ \A t \in Tids : role[t] # "idle" => (t \in pool' <=> t \in pool)

\* Only the start of a demo changes who plays in it, ...
LEMMA CastKept ==
    ASSUME BaseInv, ~\E d \in DemoNames : StartDemo(d), [DemosNext]_demo_vars
    PROVE  SameCast
<1>1. pool \subseteq Tids /\ \A t \in Tids : t >= next_tid => role[t] = "idle"
  BY DEF BaseInv, CvInv, DetectorInv, MenuInv, LockInv, CoopInv, CoopTypeOK
<1>2. CASE UNCHANGED <<role, demo, pool>>
  BY <1>1, <1>2 DEF SameCast
<1>3. CASE RunStep
  BY <1>2, <1>3, RunStepMenu
<1>4. CASE HandleRun \/ UNCHANGED demo_vars
  BY <1>2, <1>4 DEF HandleRun, demo_vars, all_vars, vars, coop_vars, menu_vars
<1>5. CASE HandleCreate
  <2>1. UNCHANGED <<demo, role>> /\ pool' = pool \union {next_tid} /\ next_tid \in Tids
    BY <1>5 DEF HandleCreate, CreateThread
  <2>2. role[next_tid] = "idle"
    BY <1>1, <2>1 DEF Tids
  <2>3. QED
    BY <1>1, <2>1, <2>2 DEF SameCast
<1>6. QED
  BY <1>3, <1>4, <1>5 DEF DemosNext

\* ... and it gives each side of a condition to one thread.
LEMMA NextCast == BaseInv /\ CastInv /\ [DemosNext]_demo_vars => CastInv'
<1> SUFFICES ASSUME BaseInv, CastInv, [DemosNext]_demo_vars PROVE CastInv'
  OBVIOUS
<1>1. CASE SameCast
  <2>1. pool \subseteq Tids
    BY DEF BaseInv, CvInv, DetectorInv, LockInv, CoopInv, CoopTypeOK
  <2>2. \A t \in Tids : role[t] # "idle" => (t \in pool' <=> t \in pool)
    BY <1>1 DEF SameCast
  <2>3. UNCHANGED <<role, demo>> /\ pool' \subseteq Tids
    BY <1>1 DEF SameCast
  <2>4. QED
    BY <2>1, <2>2, <2>3 DEF CastInv, Alone
<1>2. ASSUME NEW d \in DemoNames, StartDemo(d) PROVE CastInv'
  <2>1. /\ demo' = d /\ next_tid \in Nat
        /\ pool' = next_tid..(next_tid + Len(Cast(d)) - 1) /\ pool' \subseteq Tids
        /\ \A t \in pool' : role'[t] = Cast(d)[t - next_tid + 1]
    <3>1. CoopTypeOK
      BY DEF BaseInv, CvInv, DetectorInv, LockInv, CoopInv
    <3>2. next_tid \in Nat
      BY <3>1 DEF CoopTypeOK
    <3> DEFINE n == Len(Cast(d))
    <3>3. /\ demo' = d
          /\ pool' = next_tid..(next_tid + n - 1) /\ pool' \subseteq Tids
          /\ role' = [t \in Tids |-> IF t \in next_tid..(next_tid + n - 1)
                                    THEN Cast(d)[t - next_tid + 1] ELSE role[t]]
      BY <1>2 DEF StartDemo
    <3> HIDE DEF n
    <3>4. \A t \in pool' : role'[t] = Cast(d)[t - next_tid + 1]
      BY <3>3
    <3>5. QED
      BY <3>2, <3>3, <3>4 DEF n
  <2>2. /\ Len(Cast(d)) \in Nat
        /\ \A i, j \in 1..Len(Cast(d)) : Cast(d)[i] \in Alone /\ Cast(d)[i] = Cast(d)[j] => i = j
        /\ d = "condition" => Len(Cast(d)) = 2 /\ Cast(d)[2] = "announcer"
        /\ d = "producer_consumer" =>
              Len(Cast(d)) = 2 /\ Cast(d)[1] = "producer" /\ Cast(d)[2] = "consumer"
    <3>1. CASE d = "philosophers"
      BY <3>1, SeatsAssumption DEF Cast, Alone
    <3>2. CASE d = "readers_writers"
      BY <3>2 DEF Cast, Alone
    <3>3. CASE d \notin {"philosophers", "readers_writers"}
      BY <1>2, <3>3 DEF Cast, SyncCast, DemoNames, Alone
    <3>4. QED
      BY <3>1, <3>2, <3>3
  <2> DEFINE n == Len(Cast(d))
             at(t) == t - next_tid + 1
  <2>3. \A t \in pool' : at(t) \in 1..n /\ role'[t] = Cast(d)[at(t)]
    BY <2>1, <2>2
  <2>4. \A t, u \in pool' : at(t) = at(u) => t = u
    BY <2>1, <2>2
  <2>5. \A i \in 1..n : \E t \in pool' : role'[t] = Cast(d)[i]
    <3>1. SUFFICES ASSUME NEW i \in 1..n PROVE \E t \in pool' : role'[t] = Cast(d)[i]
      OBVIOUS
    <3>2. next_tid + i - 1 \in pool' /\ at(next_tid + i - 1) = i
      BY <2>1, <2>2
    <3>3. QED
      BY <2>3, <3>2
  <2> HIDE DEF at, n
  <2>6. \A t, u \in pool' : role'[t] \in Alone /\ role'[t] = role'[u] => t = u
    BY <2>2, <2>3, <2>4 DEF n
  <2>7. /\ demo' = "condition" => \E t \in pool' : role'[t] = "announcer"
        /\ demo' = "producer_consumer" =>
              \E t, u \in pool' : role'[t] = "producer" /\ role'[u] = "consumer"
    <3>1. CASE d = "condition"
      <4>1. 2 \in 1..n /\ Cast(d)[2] = "announcer"
        BY <2>2, <3>1 DEF n
      <4>2. QED
        BY <2>1, <2>5, <3>1, <4>1
    <3>2. CASE d = "producer_consumer"
      <4>1. 1 \in 1..n /\ 2 \in 1..n /\ Cast(d)[1] = "producer" /\ Cast(d)[2] = "consumer"
        BY <2>2, <3>2 DEF n
      <4>2. /\ \E t \in pool' : role'[t] = "producer"
            /\ \E t \in pool' : role'[t] = "consumer"
        BY <2>5, <4>1
      <4>3. QED
        BY <2>1, <3>2, <4>2
    <3>3. QED
      BY <2>1, <3>1, <3>2
  <2>8. QED
    BY <2>6, <2>7 DEF CastInv
<1>3. QED
  BY <1>1, <1>2, CastKept

\* wait() takes no permit that a woken thread needs more than a newcomer, and
\* signal() wakes a thread for the permit that it gives back.
LEMMA NextPermitsWanted ==
    BaseInv /\ PermitsWanted /\ [DemosNext]_demo_vars => PermitsWanted'
<1> SUFFICES ASSUME BaseInv, PermitsWanted, [DemosNext]_demo_vars PROVE PermitsWanted'
  OBVIOUS
<1>1. /\ SemInv /\ sem_count \in Nat /\ sem_waiting \subseteq Tids
      /\ state \in [Tids -> ThreadState]
  BY DEF BaseInv, SemInv, CvInv, DetectorInv, LockInv, CoopInv, CoopTypeOK
<1>2. AwakeInWait \in SUBSET Tids /\ AwakeInWait' \in SUBSET Tids
  BY DEF AwakeInWait
<1>3. Cardinality(AwakeInWait) \in Nat /\ Cardinality(AwakeInWait') \in Nat
  BY <1>2, TidSets
<1>4. CASE BesideSem
  <2>1. UNCHANGED <<sem_count, sem_queue, sem_waiting>>
    BY <1>4 DEF BesideSem, demo_sem_vars
  <2>2. \A t \in sem_waiting : state'[t] = "BLOCKED" <=> state[t] = "BLOCKED"
    BY <1>4, SleepersLeftAlone
  <2>3. AwakeInWait' = AwakeInWait
    BY <2>1, <2>2 DEF AwakeInWait
  <2>4. QED
    BY <2>1, <2>3 DEF PermitsWanted
<1>5. CASE SemStep
  <2>1. SemEffect /\ current \in Tids
    BY <1>5, SemEffects, Executing DEF SemStep
  <2>2. CASE Acquires /\ UNCHANGED state
    <3>1. /\ sem_count' = sem_count - 1 /\ sem_count > 0 /\ sem_queue' = sem_queue
          /\ sem_waiting' = sem_waiting \ {current}
      BY <2>2 DEF Acquires
    <3>2. AwakeInWait' = AwakeInWait \ {current}
      BY <2>2, <3>1 DEF AwakeInWait
    <3>3. Cardinality(AwakeInWait') >= Cardinality(AwakeInWait) - 1
      <4>1. CASE current \in AwakeInWait
        BY <1>2, <1>3, <3>2, <4>1, TidSets
      <4>2. CASE current \notin AwakeInWait
        <5>1. AwakeInWait' = AwakeInWait
          BY <3>2, <4>2
        <5>2. QED
          BY <1>3, <5>1
      <4>3. QED
        BY <4>1, <4>2
    <3>4. QED
      BY <1>1, <1>3, <3>1, <3>3 DEF PermitsWanted
  <2>3. CASE FallsAsleep
    BY <1>3, <2>3 DEF FallsAsleep, PermitsWanted
  <2>4. CASE sem_queue = << >> /\ UNCHANGED sem_queue
    BY <2>4 DEF PermitsWanted
  <2>5. ASSUME NEW h \in Tids, Signals, sem_queue # << >>, h \in sem_waiting,
               state[h] = "BLOCKED", state' = [state EXCEPT ![h] = "READY"]
        PROVE  PermitsWanted'
    <3>1. sem_count' = sem_count + 1 /\ sem_waiting' = sem_waiting
      BY <2>5 DEF Signals
    <3>2. \A t \in Tids : state'[t] = IF t = h THEN "READY" ELSE state[t]
      BY <1>1, <2>5
    <3>3. AwakeInWait' = AwakeInWait \union {h} /\ h \notin AwakeInWait
      BY <2>5, <3>1, <3>2 DEF AwakeInWait
    <3>4. Cardinality(AwakeInWait') = Cardinality(AwakeInWait) + 1
      BY <1>2, <2>5, <3>3, TidSets
    <3>5. QED
      BY <1>1, <1>3, <2>5, <3>1, <3>4 DEF PermitsWanted
  <2>6. QED
    BY <2>1, <2>2, <2>3, <2>4, <2>5 DEF SemEffect
<1>6. ASSUME NEW d \in DemoNames, StartDemo(d) PROVE PermitsWanted'
  BY <1>6 DEF StartDemo, PermitsWanted
<1>7. CASE UNCHANGED demo_vars
  <2>1. UNCHANGED <<sem_count, sem_queue, sem_waiting, state>>
    BY <1>7 DEF demo_vars, all_vars, vars, coop_vars, demo_sem_vars
  <2>2. QED
    BY <2>1 DEF PermitsWanted, AwakeInWait
<1>8. QED
  BY <1>4, <1>5, <1>6, <1>7, StepKinds DEF DemosNext

\* The customers of the semaphore demo take their permits and give them back.
LEMMA CallerCustomer ==
    ASSUME BaseInv, PlaceInv, CustomerInv, ThreadCall, UNCHANGED menu_vars, demo = "semaphore"
    PROVE  CustomerInv'
<1> DEFINE c == current
           p == pos[c]
<1>1. UNCHANGED <<pool, current, role, demo>> /\ pos \in [Tids -> Nat \ {0}]
  BY CallFrame DEF BaseInv, MenuInv, menu_vars
<1>2. Holders \in SUBSET Tids /\ Holders' \in SUBSET Tids
  BY DEF Holders
<1>3. /\ sem_count \in Nat /\ sem_count + Cardinality(Holders) = 2
      /\ \A t \in Tids : Customer(t) => pos[t] \in 1..4 /\ (t \in sem_waiting => pos[t] = 2)
  BY DEF CustomerInv, BaseInv, SemInv
\* Where a customer makes its calls.
<1>4. ASSUME NEW op, AtCall(op)
      PROVE  /\ InThread /\ c \in Tids /\ Customer(c) /\ c \notin sem_waiting
             /\ p \in 1..3
             /\ op = "wait" <=> p = 1
             /\ op = "yield" <=> p = 2
             /\ op = "signal" <=> p = 3
             /\ op \in {"wait", "yield", "signal"}
  <2>1. /\ InThread /\ c \notin sem_waiting
        /\ p \in 1..Len(Script(c)) /\ Script(c)[p].op = op
    BY <1>4, Calling
  <2>2. c \in pool /\ c \in Tids /\ role[c] \in Roles
    BY <2>1, Executing
  <2>3. role[c] # "idle"
    BY <2>1, ShortScripts
  <2>4. role[c] = "semaphore"
    BY <2>2, <2>3 DEF BaseInv, MenuInv, DemosOf, Roles
  <2> HIDE DEF p
  <2>5. p \in 1..3
    BY <2>1, <2>4, ShortScripts
  <2>6. Customer(c)
    BY <2>2, <2>4 DEF Customer
  <2>7. /\ Script(c)[1].op = "wait" /\ Script(c)[2].op = "yield" /\ Script(c)[3].op = "signal"
    BY <2>4, ShortScripts
  <2>8. p = 1 \/ p = 2 \/ p = 3
    BY <2>5
  <2>9. QED
    BY <2>1, <2>2, <2>5, <2>6, <2>7, <2>8
<1>5. /\ \A t \in Tids : Customer(t)' <=> Customer(t)
      /\ \A t \in Tids \ {c} : pos'[t] = pos[t] /\ (t \in sem_waiting' <=> t \in sem_waiting)
  BY <1>1, CallOthers DEF Customer
<1>6. \A t \in Tids \ {c} : t \in Holders' <=> t \in Holders
  BY <1>5 DEF Holders
<1>7. ASSUME NEW op, AtCall(op), Passed PROVE pos'[c] = p + 1
  BY <1>1, <1>4, <1>7 DEF Passed
<1>8. c \in Tids => /\ c \in Holders <=> Customer(c) /\ c \notin sem_waiting /\ p \in {2, 3}
                    /\ c \in Holders' <=>
                          Customer(c) /\ c \notin sem_waiting' /\ pos'[c] \in {2, 3}
  BY <1>1, <1>5 DEF Holders
<1> HIDE DEF p
\* What is left to show of a step.
<1>9. ASSUME sem_count' + Cardinality(Holders') = 2,
             c \in Tids /\ Customer(c) => pos'[c] \in 1..4 /\ (c \in sem_waiting' => pos'[c] = 2)
      PROVE  CustomerInv'
  <2>1. \A t \in Tids : Customer(t)' => pos'[t] \in 1..4 /\ (t \in sem_waiting' => pos'[t] = 2)
    BY <1>3, <1>5, <1>9
  <2>2. QED
    BY <1>9, <2>1 DEF CustomerInv
<1>10. ASSUME UNCHANGED <<sem_count, sem_waiting, pos>> PROVE CustomerInv'
  <2>1. Holders' = Holders
    BY <1>5, <1>10 DEF Holders
  <2>2. QED
    BY <1>1, <1>3, <1>5, <1>10, <2>1 DEF CustomerInv
<1>11. ASSUME c \in Tids, Customer(c), pos'[c] = 2, c \notin Holders, Acquires \/ FallsAsleep
       PROVE  CustomerInv'
  <2>1. CASE Acquires
    <3>1. sem_count' = sem_count - 1 /\ sem_waiting' = sem_waiting \ {c}
      BY <2>1 DEF Acquires
    <3>2. Holders' = Holders \union {c}
      BY <1>2, <1>6, <1>8, <1>11, <3>1
    <3>3. Cardinality(Holders') = Cardinality(Holders) + 1
      BY <1>2, <1>11, <3>2, TidSets
    <3>4. QED
      BY <1>2, <1>3, <1>9, <1>11, <3>1, <3>3, TidSets
  <2>2. CASE FallsAsleep
    <3>1. sem_count' = sem_count /\ sem_waiting' = sem_waiting \union {c}
      BY <2>2 DEF FallsAsleep
    <3>2. Holders' = Holders
      BY <1>2, <1>6, <1>8, <1>11, <3>1
    <3>3. QED
      BY <1>3, <1>9, <1>11, <3>1, <3>2
  <2>3. QED
    BY <1>11, <2>1, <2>2
<1>12. CASE DemoYield
  <2>1. AtCall("yield") /\ Passed /\ UNCHANGED <<sem_count, sem_waiting>>
    BY <1>12 DEF DemoYield, demo_sem_vars
  <2>2. c \in Tids /\ Customer(c) /\ p = 2 /\ pos'[c] = 3 /\ c \notin sem_waiting
    BY <1>4, <1>7, <2>1
  <2>3. Holders' = Holders
    BY <1>2, <1>6, <1>8, <2>1, <2>2
  <2>4. QED
    BY <1>3, <1>9, <2>1, <2>2, <2>3
<1>13. CASE DemoWait
  <2>1. AtCall("wait") /\ Passed /\ S!Wait
    BY <1>13 DEF DemoWait
  <2>2. c \in Tids /\ Customer(c) /\ p = 1 /\ pos'[c] = 2
    BY <1>4, <1>7, <2>1
  <2>3. QED
    BY <1>3, <1>8, <1>11, <2>1, <2>2, SemCalls
<1>14. CASE DemoSignal
  <2>1. AtCall("signal") /\ Passed /\ S!Signal
    BY <1>14 DEF DemoSignal
  <2>2. c \in Tids /\ Customer(c) /\ p = 3 /\ pos'[c] = 4 /\ c \notin sem_waiting
    BY <1>4, <1>7, <2>1
  <2>3. sem_count' = sem_count + 1 /\ sem_waiting' = sem_waiting
    BY <1>3, <2>1, SemCalls DEF Signals
  <2>4. c \in Holders /\ Holders' = Holders \ {c}
    BY <1>2, <1>6, <1>8, <2>2
  <2>5. Cardinality(Holders') = Cardinality(Holders) - 1 /\ Cardinality(Holders) \in Nat
    BY <1>2, <2>4, TidSets
  <2>6. QED
    BY <1>3, <1>9, <2>2, <2>3, <2>5
<1>15. CASE DemoInside
  <2>1. UNCHANGED pos
    BY <1>15 DEF DemoInside
  <2>2. CASE S!WaitResume
    <3>1. (Acquires \/ FallsAsleep) /\ InThread /\ c \in sem_waiting
      BY <1>3, <2>2, SemCalls
    <3>2. c \in Tids /\ c \in pool
      BY <3>1, Executing
    <3>3. role[c] = "semaphore"
      BY <3>1, <3>2 DEF PlaceInv, PlaceOf, BaseInv, MenuInv, DemosOf
    <3>4. Customer(c) /\ pos'[c] = 2 /\ c \notin Holders
      BY <1>3, <1>8, <2>1, <3>1, <3>2, <3>3 DEF Customer
    <3>5. QED
      BY <1>11, <3>1, <3>2, <3>4
  <2>3. CASE UNCHANGED demo_sem_vars
    BY <1>10, <2>1, <2>3 DEF demo_sem_vars
  <2>4. QED
    BY <1>15, <2>2, <2>3 DEF DemoInside
<1>16. ASSUME NEW op, AtCall(op), op \notin {"wait", "yield", "signal"} PROVE FALSE
  BY <1>4, <1>16
<1>17. QED
  BY <1>12, <1>13, <1>14, <1>15, <1>16
     DEF ThreadCall, DemoLock, DemoUnlock, CountUp, CountDown, Await, Announce, Put, TakeItem

\* So do the other steps, which do not touch the permits.
LEMMA NextCustomer ==
    BaseInv /\ PlaceInv /\ CustomerInv /\ [DemosNext]_demo_vars => CustomerInv'
<1> SUFFICES ASSUME BaseInv, PlaceInv, CustomerInv, [DemosNext]_demo_vars PROVE CustomerInv'
  OBVIOUS
<1>1. CASE demo' # "semaphore"
  <2>1. MenuInv'
    BY NextBase DEF BaseInv
  <2>2. \A t \in pool' : role'[t] # "semaphore"
    BY <1>1, <2>1 DEF MenuInv, DemosOf
  <2>3. QED
    BY <1>1, <2>2 DEF CustomerInv, Customer
<1>2. ASSUME NEW d \in DemoNames, StartDemo(d) PROVE CustomerInv'
  <2>1. /\ sem_waiting' = {} /\ sem_count' = Permits(d) /\ demo' = d
        /\ \A t \in Tids : t \in pool' => pos'[t] = 1
    BY <1>2 DEF StartDemo
  <2>2. Holders' = {}
    BY <2>1 DEF Holders, Customer
  <2>3. QED
    BY <2>1, <2>2, FS_EmptySet DEF CustomerInv, Customer, Permits
<1>3. CASE SameCast /\ UNCHANGED <<sem_count, sem_waiting, pos>>
  <2>1. \A t \in Tids : Customer(t)' <=> Customer(t)
    BY <1>3 DEF SameCast, Customer
  <2>2. Holders' = Holders
    BY <1>3, <2>1 DEF Holders
  <2>3. QED
    BY <1>3, <2>1, <2>2 DEF CustomerInv, SameCast
<1>4. CASE SameCast /\ ThreadCall /\ UNCHANGED menu_vars
  BY <1>1, <1>4, CallerCustomer DEF SameCast
<1>5. CASE SameCast /\ DemoSched /\ UNCHANGED menu_vars
  BY <1>3, <1>5, SchedFrame DEF DemoSched, demo_sem_vars
<1>6. CASE SameCast /\ (RunReturns \/ HandleRun \/ HandleCreate \/ UNCHANGED demo_vars)
  BY <1>3, <1>6 DEF RunReturns, HandleRun, HandleCreate, demo_vars, demo_sem_vars
<1>7. QED
  BY <1>2, <1>4, <1>5, <1>6, CastKept DEF DemosNext, RunStep

\* Steps that leave the conditions and their queues alone.
LEMMA ReasonKept ==
    ASSUME ReasonInv, pool \subseteq Tids, SameCast, UNCHANGED <<cv_queue, ready, demo_buffer>>,
           \A t \in Tids : role[t] = "announcer" => (pos'[t] > 2 <=> pos[t] > 2),
           \A t \in Tids : role[t] \in {"producer", "consumer"} => Items(pos'[t]) = Items(pos[t])
    PROVE  ReasonInv'
<1>1. UNCHANGED role /\ pool' \subseteq Tids
  BY DEF SameCast
<1>2. \A t \in pool' : role[t] # "idle" => t \in pool
  BY DEF SameCast
<1>3. \A c \in Conds, t \in Tids : InQueue(cv_queue'[c], t) => c = CondOf(role'[t])
  BY <1>1 DEF ReasonInv
<1>4. \A t \in pool' : role'[t] = "announcer" => (ready' <=> pos'[t] > 2)
  BY <1>1, <1>2 DEF ReasonInv
<1>5. \A t, u \in pool' : role'[t] = "producer" /\ role'[u] = "consumer" =>
          demo_buffer' = Items(pos'[t]) - Items(pos'[u]) /\ demo_buffer' >= 0
  BY <1>1, <1>2 DEF ReasonInv
<1>6. \A t \in Tids : InQueue(cv_queue'[CondOf(role'[t])], t) =>
          /\ role'[t] = "awaiter" => ~ready'
          /\ role'[t] = "producer" => demo_buffer' > 0
          /\ role'[t] = "consumer" => demo_buffer' = 0
  BY <1>1 DEF ReasonInv
<1>7. QED
  BY <1>3, <1>4, <1>5, <1>6 DEF ReasonInv, CondOf, Items

\* A thread goes to sleep on its own condition, which does not hold.
LEMMA WaitOnReason ==
    ASSUME BaseInv, ReasonInv, UNCHANGED <<pool, role>>, WaitOn(CondOf(role[current])),
           /\ role[current] = "awaiter" => ~ready
           /\ role[current] = "producer" => demo_buffer > 0
           /\ role[current] = "consumer" => demo_buffer = 0
    PROVE  ReasonInv'
<1> DEFINE own == CondOf(role[current])
<1>1. /\ own \in Conds
      /\ cv_queue' = [cv_queue EXCEPT ![own] = Append(@, current)]
      /\ CvBody /\ InThread /\ cv_pc[current] = "out" /\ UNCHANGED <<pos, ready, demo_buffer>>
  BY CondsAssumption DEF WaitOn, WaitRelease, CvBody, InBody, global_vars, CondOf
<1>2. current \in Tids
  BY <1>1, Executing
<1>3. /\ CvCalm /\ cv_queue \in [Conds -> Seq(Tids)]
  BY DEF BaseInv, CvInv, MenuInv, CvPlaces
<1>4. ~InQueue(cv_queue[own], current) /\ Distinct(cv_queue[own])
  BY <1>1, <1>2, <1>3 DEF CvCalm, Sleeping
<1> HIDE DEF own
<1>5. \A t \in Tids : InQueue(cv_queue'[own], t) <=> InQueue(cv_queue[own], t) \/ t = current
  BY <1>1, <1>2, <1>3, <1>4, PushFacts
<1>6. \A c \in Conds \ {own} : cv_queue'[c] = cv_queue[c]
  BY <1>1, <1>3
<1>7. \A t \in Tids : CondOf(role[t]) \in Conds
  BY CondsAssumption DEF CondOf
<1>8. \A c \in Conds, t \in Tids : InQueue(cv_queue'[c], t) => c = CondOf(role[t])
  BY <1>5, <1>6 DEF ReasonInv, own
<1>9. \A t \in Tids : InQueue(cv_queue'[CondOf(role[t])], t) =>
          t = current \/ InQueue(cv_queue[CondOf(role[t])], t)
  BY <1>5, <1>6, <1>7
<1>10. \A t \in Tids : InQueue(cv_queue'[CondOf(role[t])], t) =>
          /\ role[t] = "awaiter" => ~ready
          /\ role[t] = "producer" => demo_buffer > 0
          /\ role[t] = "consumer" => demo_buffer = 0
  BY <1>9 DEF ReasonInv
<1>11. QED
  BY <1>1, <1>8, <1>10 DEF ReasonInv

\* The signal for the only thread that may wait on a condition leaves nobody
\* of its kind behind in the queue.
LEMMA SignalEmpties ==
    ASSUME BaseInv, PlaceInv, CastInv, ReasonInv, NEW r \in {"awaiter", "producer", "consumer"},
           Signal(CondOf(r))
    PROVE  \A c \in Conds, t \in Tids :
              InQueue(cv_queue'[c], t) => InQueue(cv_queue[c], t) /\ role[t] # r
<1> DEFINE own == CondOf(r)
           q == cv_queue[own]
<1>1. own \in Conds /\ SignalEffect(own)
  BY CondsAssumption DEF CondOf, Signal
<1>2. /\ CvCalm /\ cv_queue \in [Conds -> Seq(Tids)] /\ q \in Seq(Tids) /\ Distinct(q)
  BY <1>1 DEF BaseInv, CvInv, MenuInv, CvPlaces, CvCalm
<1>3. \A t \in Tids : InQueue(q, t) => t \in pool /\ role[t] = r
  <2>1. SUFFICES ASSUME NEW t \in Tids, InQueue(q, t) PROVE t \in pool /\ role[t] = r
    OBVIOUS
  <2>2. Sleeping(t)
    BY <1>1, <1>2, <2>1 DEF CvCalm
  <2>3. t \in pool
    BY <1>2, <2>2 DEF CvCalm, Sleeping
  <2>4. role[t] \in {"awaiter", "producer", "consumer"}
    BY <2>2 DEF PlaceInv, PlaceOf, Sleeping
  <2>5. own = CondOf(role[t])
    BY <1>1, <2>1 DEF ReasonInv
  <2>6. QED
    BY <2>3, <2>4, <2>5 DEF CondOf
<1>4. \A c \in Conds, t \in Tids : InQueue(cv_queue[c], t) /\ role[t] = r => c = own
  BY DEF ReasonInv
<1> HIDE DEF own
<1>5. CASE q = << >>
  <2>1. cv_queue' = cv_queue
    BY <1>1, <1>5 DEF SignalEffect
  <2>2. \A t \in Tids : ~InQueue(q, t)
    BY <1>5 DEF InQueue
  <2>3. QED
    BY <1>4, <2>1, <2>2
<1>6. CASE q # << >>
  <2>1. cv_queue' = [cv_queue EXCEPT ![own] = Tail(@)]
    BY <1>1, <1>6 DEF SignalEffect
  <2>2. /\ InQueue(q, Head(q)) /\ Head(q) \in Tids
        /\ \A t \in Tids : InQueue(Tail(q), t) <=> InQueue(q, t) /\ t # Head(q)
    BY <1>2, <1>6, PopFacts
  <2>3. \A t \in Tids : InQueue(q, t) => t = Head(q)
    BY <1>3, <2>2 DEF CastInv, Alone
  <2>4. \A t \in Tids : ~InQueue(cv_queue'[own], t)
    BY <1>1, <1>2, <2>1, <2>2, <2>3
  <2>5. \A c \in Conds \ {own} : cv_queue'[c] = cv_queue[c]
    BY <1>2, <2>1
  <2>6. QED
    BY <1>4, <2>4, <2>5
<1>7. QED
  BY <1>5, <1>6

\* A call puts a thread to sleep with reason, or makes its condition true and wakes it.
LEMMA CallerReason ==
    ASSUME BaseInv, PlaceInv, CastInv, ReasonInv, ThreadCall, UNCHANGED menu_vars
    PROVE  ReasonInv'
<1> DEFINE c == current
           p == pos[c]
<1>1. /\ UNCHANGED <<pool, role, demo>> /\ pool \subseteq Tids /\ pos \in [Tids -> Nat \ {0}]
      /\ SameCast
  BY CallFrame DEF BaseInv, MenuInv, menu_vars, SameCast, CvInv, DetectorInv, LockInv, CoopInv,
                   CoopTypeOK
\* Where those who wait on a condition, or signal it, make their calls.
<1>2. ASSUME NEW op, AtCall(op)
      PROVE  /\ c \in Tids /\ c \in pool
             /\ role[c] = "announcer" => p \in 1..3 /\ (p = 2 => op = "announce")
             /\ role[c] = "producer" => p \in 1..8 /\ (p \in {2, 6} => op = "put")
             /\ role[c] = "consumer" => p \in 1..8 /\ (p \in {2, 6} => op = "take")
             /\ op = "await" => role[c] = "awaiter"
             /\ op = "announce" => role[c] = "announcer" /\ p = 2
             /\ op = "put" => role[c] = "producer" /\ p \in {2, 6}
             /\ op = "take" => role[c] = "consumer" /\ p \in {2, 6}
  <2>1. InThread /\ p \in 1..Len(Script(c)) /\ Script(c)[p].op = op
    BY <1>2, Calling
  <2>2. c \in pool /\ c \in Tids /\ role[c] \in Roles
    BY <2>1, Executing
  <2> HIDE DEF p
  <2>3. role[c] = "announcer" => p \in 1..3 /\ (p = 2 => op = "announce")
    BY <2>1, ShortScripts
  <2>4. role[c] = "producer" => p \in 1..8 /\ op = ItemOp(Place(p, 4), "put")
    BY <2>1, ProducerScript
  <2>5. role[c] = "consumer" => p \in 1..8 /\ op = ItemOp(Place(p, 4), "take")
    BY <2>1, ConsumerScript
  <2>6. /\ op = "await" => role[c] = "awaiter"
        /\ op = "announce" => role[c] = "announcer" /\ p = 2
        /\ op = "put" => role[c] = "producer" /\ p \in {2, 6}
        /\ op = "take" => role[c] = "consumer" /\ p \in {2, 6}
    BY <2>1, <2>2, CallFacts
  <2>7. QED
    BY <2>2, <2>3, <2>4, <2>5, <2>6 DEF ItemOp, Place
<1>3. ASSUME NEW op, AtCall(op), Passed
      PROVE  /\ pos'[c] = p + 1
             /\ \A t \in Tids \ {c} : pos'[t] = pos[t]
  BY <1>1, <1>2, <1>3 DEF Passed
<1> HIDE DEF p
<1>4. ASSUME UNCHANGED <<pos, cv_queue, ready, demo_buffer>> PROVE ReasonInv'
  BY <1>1, <1>4, ReasonKept
<1>5. ASSUME NEW op, AtCall(op), Passed, op \notin {"announce", "put", "take"},
             UNCHANGED <<cv_queue, ready, demo_buffer>>
      PROVE  ReasonInv'
  <2>1. /\ role[c] = "announcer" => (p + 1 > 2 <=> p > 2)
        /\ role[c] \in {"producer", "consumer"} => Items(p + 1) = Items(p)
    BY <1>2, <1>5 DEF Items
  <2>2. /\ \A t \in Tids : role[t] = "announcer" => (pos'[t] > 2 <=> pos[t] > 2)
        /\ \A t \in Tids : role[t] \in {"producer", "consumer"} => Items(pos'[t]) = Items(pos[t])
    BY <1>3, <1>5, <2>1 DEF p
  <2>3. QED
    BY <1>1, <1>5, <2>2, ReasonKept
<1>6. CASE DemoYield \/ DemoLock \/ DemoUnlock \/ DemoWait \/ DemoSignal \/ CountUp \/ CountDown
  BY <1>5, <1>6 DEF DemoYield, DemoLock, DemoUnlock, DemoWait, DemoSignal, CountUp, CountDown,
                    global_vars, cv_vars
<1>7. CASE DemoInside
  <2>1. UNCHANGED <<pos, ready, demo_buffer, cv_queue>>
    BY <1>7 DEF DemoInside, global_vars, cv_vars, WaitBlock, WaitRelock
  <2>2. QED
    BY <1>4, <2>1
<1>8. CASE Await
  <2>1. AtCall("await") /\ role[c] = "awaiter"
    BY <1>2, <1>8 DEF Await
  <2>2. CASE ready
    BY <1>5, <1>8, <2>1, <2>2 DEF Await, global_vars, all_vars, cv_vars
  <2>3. CASE ~ready
    <3>1. WaitOn("condition") /\ CondOf(role[c]) = "condition"
      BY <1>8, <2>1, <2>3 DEF Await, CondOf
    <3>2. QED
      BY <1>1, <2>1, <2>3, <3>1, WaitOnReason
  <2>4. QED
    BY <2>2, <2>3
\* The calls that make a condition true, and signal it.
<1>9. ASSUME NEW op, AtCall(op), NEW r \in {"awaiter", "producer", "consumer"},
             PassedAndSignal(CondOf(r)),
             role[c] = "announcer" => ready',
             role[c] # "announcer" => ready' = ready,
             r = "awaiter" => role[c] = "announcer" /\ p = 2 /\ demo_buffer' = demo_buffer,
             r = "consumer" => /\ role[c] = "producer" /\ p \in {2, 6}
                               /\ demo_buffer = 0 /\ demo_buffer' = demo_buffer + 1,
             r = "producer" => /\ role[c] = "consumer" /\ p \in {2, 6}
                               /\ demo_buffer > 0 /\ demo_buffer' = demo_buffer - 1
      PROVE  ReasonInv'
  <2>1. Signal(CondOf(r)) /\ Passed
    BY <1>9 DEF PassedAndSignal
  <2>2. \A d \in Conds, t \in Tids :
            InQueue(cv_queue'[d], t) => InQueue(cv_queue[d], t) /\ role[t] # r
    BY <1>9, <2>1, SignalEmpties
  <2>3. \A d \in Conds, t \in Tids : InQueue(cv_queue'[d], t) => d = CondOf(role'[t])
    BY <1>1, <2>2 DEF ReasonInv
  <2>4. c \in pool /\ c \in Tids /\ pos'[c] = p + 1 /\ \A t \in Tids \ {c} : pos'[t] = pos[t]
    BY <1>2, <1>3, <1>9, <2>1
  <2>5. \A t \in pool' : role'[t] = "announcer" => (ready' <=> pos'[t] > 2)
    <3>1. SUFFICES ASSUME NEW t \in pool, role[t] = "announcer" PROVE ready' <=> pos'[t] > 2
      BY <1>1
    <3>2. CASE role[c] = "announcer"
      <4>1. t = c
        BY <2>4, <3>1, <3>2 DEF CastInv, Alone
      <4>2. ready' /\ p = 2
        BY <1>9, <3>2
      <4>3. QED
        BY <2>4, <4>1, <4>2
    <3>3. CASE role[c] # "announcer"
      <4>1. ready' = ready /\ t # c /\ t \in Tids
        BY <1>1, <1>9, <3>1, <3>3
      <4>2. QED
        BY <2>4, <3>1, <4>1 DEF ReasonInv
    <3>4. QED
      BY <3>2, <3>3
  <2>6. \A t, u \in pool' : role'[t] = "producer" /\ role'[u] = "consumer" =>
            demo_buffer' = Items(pos'[t]) - Items(pos'[u]) /\ demo_buffer' >= 0
    <3>1. SUFFICES ASSUME NEW t \in pool, NEW u \in pool, role[t] = "producer",
                          role[u] = "consumer"
                   PROVE  demo_buffer' = Items(pos'[t]) - Items(pos'[u]) /\ demo_buffer' >= 0
      BY <1>1
    <3>2. demo_buffer = Items(pos[t]) - Items(pos[u]) /\ demo_buffer >= 0
      BY <3>1 DEF ReasonInv
    <3>3. t \in Tids /\ u \in Tids /\ Items(pos[t]) \in 0..2 /\ Items(pos[u]) \in 0..2
      BY <1>1 DEF Items
    <3>4. p \in {2, 6} => Items(p + 1) = Items(p) + 1
      BY DEF Items
    <3>5. CASE r = "awaiter"
      <4>1. t # c /\ u # c /\ demo_buffer' = demo_buffer
        BY <1>9, <3>1, <3>5
      <4>2. QED
        BY <2>4, <3>2, <3>3, <4>1
    <3>6. CASE r = "consumer"
      <4>1. t = c /\ u # c
        BY <1>9, <2>4, <3>1, <3>6 DEF CastInv, Alone
      <4>2. Items(pos'[t]) = Items(pos[t]) + 1 /\ pos'[u] = pos[u]
        BY <1>9, <2>4, <3>3, <3>4, <3>6, <4>1 DEF p
      <4>3. QED
        BY <1>9, <3>2, <3>3, <3>6, <4>2
    <3>7. CASE r = "producer"
      <4>1. u = c /\ t # c
        BY <1>9, <2>4, <3>1, <3>7 DEF CastInv, Alone
      <4>2. Items(pos'[u]) = Items(pos[u]) + 1 /\ pos'[t] = pos[t]
        BY <1>9, <2>4, <3>3, <3>4, <3>7, <4>1 DEF p
      <4>3. QED
        BY <1>9, <3>2, <3>3, <3>7, <4>2
    <3>8. QED
      BY <1>9, <3>5, <3>6, <3>7
  <2>7. \A t \in Tids : InQueue(cv_queue'[CondOf(role'[t])], t) =>
            /\ role'[t] = "awaiter" => ~ready'
            /\ role'[t] = "producer" => demo_buffer' > 0
            /\ role'[t] = "consumer" => demo_buffer' = 0
    <3>1. SUFFICES ASSUME NEW t \in Tids, InQueue(cv_queue'[CondOf(role[t])], t)
                   PROVE  /\ role[t] = "awaiter" => ~ready'
                          /\ role[t] = "producer" => demo_buffer' > 0
                          /\ role[t] = "consumer" => demo_buffer' = 0
      BY <1>1
    <3>2. CondOf(role[t]) \in Conds
      BY CondsAssumption DEF CondOf
    <3>3. InQueue(cv_queue[CondOf(role[t])], t) /\ role[t] # r
      BY <2>2, <3>1, <3>2
    <3>4. /\ role[t] = "awaiter" => ~ready
          /\ role[t] = "producer" => demo_buffer > 0
          /\ role[t] = "consumer" => demo_buffer = 0
      BY <3>3 DEF ReasonInv
    <3>5. r = "awaiter" => demo_buffer' = demo_buffer
      BY <1>9
    <3>6. r # "awaiter" => ready' = ready
      BY <1>9
    <3>7. r = "consumer" => demo_buffer = 0
      BY <1>9
    <3>8. r = "producer" => demo_buffer > 0
      BY <1>9
    <3>9. QED
      BY <1>9, <3>3, <3>4, <3>5, <3>6, <3>7, <3>8
  <2>8. QED
    BY <2>3, <2>5, <2>6, <2>7 DEF ReasonInv, CondOf, Items
<1>10. CASE Announce
  <2>1. AtCall("announce") /\ role[c] = "announcer" /\ p = 2
    BY <1>2, <1>10 DEF Announce
  <2>2. PassedAndSignal(CondOf("awaiter")) /\ ready' /\ demo_buffer' = demo_buffer
    BY <1>10 DEF Announce, CondOf
  <2>3. QED
    BY <1>9, <2>1, <2>2
<1>11. CASE Put
  <2>1. AtCall("put") /\ role[c] = "producer" /\ p \in {2, 6}
    BY <1>2, <1>11 DEF Put
  <2>2. CASE demo_buffer > 0 /\ WaitOn("not_full")
    <3>1. WaitOn(CondOf(role[c]))
      BY <2>1, <2>2 DEF CondOf
    <3>2. QED
      BY <1>1, <2>1, <2>2, <3>1, WaitOnReason
  <2>3. CASE demo_buffer = 0 /\ PassedAndSignal("not_empty")
    <3>1. PassedAndSignal(CondOf("consumer"))
      BY <2>3 DEF CondOf
    <3>2. demo_buffer' = demo_buffer + 1 /\ ready' = ready
      BY <1>11, <2>3 DEF Put, WaitOn, global_vars
    <3>3. QED
      BY <1>9, <2>1, <2>3, <3>1, <3>2
  <2>4. QED
    BY <1>11, <2>2, <2>3 DEF Put
<1>12. CASE TakeItem
  <2>1. AtCall("take") /\ role[c] = "consumer" /\ p \in {2, 6}
    BY <1>2, <1>12 DEF TakeItem
  <2>2. CASE demo_buffer = 0 /\ WaitOn("not_empty")
    <3>1. WaitOn(CondOf(role[c]))
      BY <2>1, <2>2 DEF CondOf
    <3>2. QED
      BY <1>1, <2>1, <2>2, <3>1, WaitOnReason
  <2>3. CASE demo_buffer > 0 /\ PassedAndSignal("not_full")
    <3>1. PassedAndSignal(CondOf("producer"))
      BY <2>3 DEF CondOf
    <3>2. demo_buffer' = demo_buffer - 1 /\ ready' = ready
      BY <1>12, <2>3 DEF TakeItem, WaitOn, global_vars
    <3>3. QED
      BY <1>9, <2>1, <2>3, <3>1, <3>2
  <2>4. QED
    BY <1>12, <2>2, <2>3 DEF TakeItem
<1>13. QED
  BY <1>6, <1>7, <1>8, <1>10, <1>11, <1>12 DEF ThreadCall

\* The other steps leave the conditions alone; a new demo starts with none asleep.
LEMMA NextReason ==
    BaseInv /\ PlaceInv /\ CastInv /\ ReasonInv /\ [DemosNext]_demo_vars => ReasonInv'
<1> SUFFICES ASSUME BaseInv, PlaceInv, CastInv, ReasonInv, [DemosNext]_demo_vars
             PROVE  ReasonInv'
  OBVIOUS
<1>1. ASSUME NEW d \in DemoNames, StartDemo(d) PROVE ReasonInv'
  <2>1. /\ cv_queue' = [c \in Conds |-> << >>] /\ ready' = FALSE /\ demo_buffer' = 0
        /\ pool' \subseteq Tids /\ \A t \in Tids : t \in pool' => pos'[t] = 1
    BY <1>1 DEF StartDemo
  <2>2. \A c \in Conds, t \in Tids : ~InQueue(cv_queue'[c], t)
    BY <2>1 DEF InQueue
  <2>3. \A t \in Tids : CondOf(role'[t]) \in Conds
    BY CondsAssumption DEF CondOf
  <2>4. \A t \in Tids : ~InQueue(cv_queue'[CondOf(role'[t])], t)
    BY <2>2, <2>3
  <2>5. \A t \in pool' : role'[t] = "announcer" => (ready' <=> pos'[t] > 2)
    BY <2>1
  <2>6. \A t, u \in pool' : demo_buffer' = Items(pos'[t]) - Items(pos'[u]) /\ demo_buffer' >= 0
    BY <2>1 DEF Items
  <2>7. QED
    BY <2>2, <2>4, <2>5, <2>6 DEF ReasonInv, CondOf, Items
<1>2. CASE SameCast /\ UNCHANGED <<cv_queue, ready, demo_buffer, pos>>
  <2>1. pool \subseteq Tids
    BY DEF BaseInv, CvInv, DetectorInv, LockInv, CoopInv, CoopTypeOK
  <2>2. QED
    BY <1>2, <2>1, ReasonKept
<1>3. CASE ThreadCall /\ UNCHANGED menu_vars
  BY <1>3, CallerReason
<1>4. CASE SameCast /\ DemoSched
  BY <1>2, <1>4, SchedFrame DEF DemoSched, cv_vars, global_vars
<1>5. CASE SameCast /\ (RunReturns \/ HandleRun \/ HandleCreate \/ UNCHANGED demo_vars)
  BY <1>2, <1>5 DEF RunReturns, HandleRun, HandleCreate, demo_vars, all_vars, cv_vars, global_vars
<1>6. QED
  BY <1>1, <1>3, <1>4, <1>5, CastKept DEF DemosNext, RunStep

\* Before the first demo nobody waits.
LEMMA InitWaiters == DemosInit => WaitersInv
<1> SUFFICES ASSUME DemosInit PROVE WaitersInv
  OBVIOUS
<1>1. pool = {} /\ sem_queue = << >> /\ demo = "none" /\ cv_queue = [c \in Conds |-> << >>]
  BY DEF DemosInit, CvInit, Init, CoopInit
<1>2. \A c \in Conds, t \in Tids : ~InQueue(cv_queue[c], t)
  BY <1>1 DEF InQueue
<1>3. \A t \in Tids : CondOf(role[t]) \in Conds
  BY CondsAssumption DEF CondOf
<1>4. ReasonInv
  BY <1>1, <1>2, <1>3 DEF ReasonInv
<1>5. QED
  BY <1>1, <1>4 DEF WaitersInv, PermitsWanted, CustomerInv, Customer, CastInv

\* At the end of every demo the detector reports a deadlock exactly if some
\* thread is left unfinished, whatever was run before.
THEOREM DemosVerdictIsRight == DemosSpec => []VerdictIsRight
<1>1. DemosInit => WaitersInv
  BY InitWaiters
<1>2. DemosInv /\ WaitersInv /\ [DemosNext]_demo_vars => WaitersInv'
  BY NextPermitsWanted, NextCustomer, NextCast, NextReason DEF DemosInv, WaitersInv
<1>3. DemosInv /\ WaitersInv => VerdictIsRight
  BY VerdictOfStopped
<1>4. QED
  BY <1>1, <1>2, <1>3, DemosInvariant, PTL DEF DemosSpec
=============================================================================
