-------------------------- MODULE RingBufferProofs --------------------------
(***************************************************************************)
(* Proofs about RingBuffer, for any number of threads, items and places:   *)
(* it implements BoundedQueue, and nobody sleeps beside work to be done.   *)
(***************************************************************************)
EXTENDS RingBuffer, MutexProofs, SequenceTheorems

-----------------------------------------------------------------------------
(* The calls of the ring buffer are calls of its mutex and its condition    *)
(* variables, so all that is proved of those holds here.                    *)

LEMMA TheMutex == mutex_ \in Mutexes
BY RingBufferAssumption DEF mutex_

LEMMA RbStepIsCv == [RbNext]_rb_vars => [CvNext]_all_vars
<1> SUFFICES ASSUME [RbNext]_rb_vars PROVE [CvNext]_all_vars
  OBVIOUS
<1> USE TheMutex, RingBufferAssumption
<1>1. CASE Operate
  <2>1. CASE WaitNotFull
    BY <2>1 DEF WaitNotFull, CvNext
  <2>2. CASE WaitNotEmpty
    BY <2>2 DEF WaitNotEmpty, CvNext
  <2>3. CASE Consume
    <3>1. Signal("not_full")
      BY <2>3 DEF Consume, AtTest, Signal
    <3>2. QED
      BY <3>1 DEF CvNext
  <2>4. CASE Leave
    <3>1. CvLock(mutex_)
      BY <2>4 DEF Leave, CvLock
    <3>2. QED
      BY <3>1 DEF CvNext
  <2>5. CASE Inside
    BY <2>5 DEF Inside, CvLock, CvNext
  <2>6. ASSUME NEW x \in Items, Produce(x) PROVE CvNext
    <3>1. Signal("not_empty")
      BY <2>6 DEF Produce, AtTest, Signal
    <3>2. QED
      BY <3>1 DEF CvNext
  <2>7. QED
    BY <1>1, <2>1, <2>2, <2>3, <2>4, <2>5, <2>6 DEF Operate
<1>2. CASE RbSwitch
  BY <1>2 DEF RbSwitch, CvSched, CvNext
<1>3. CASE RbSched
  BY <1>3 DEF RbSched, CvSched, CvNext
<1>4. CASE RbEndStep
  BY <1>4 DEF RbEndStep, CvSched, CvNext
<1>5. ASSUME NEW o \in {"produce", "consume"}, Enter(o) PROVE CvNext
  <2>1. CvLock(mutex_)
    BY <1>5 DEF Enter, CvLock
  <2>2. QED
    BY <2>1 DEF CvNext
<1>6. ASSUME NEW t \in Tids, RbRun(t) \/ RbMeddle(t) PROVE CvNext
  BY <1>6 DEF RbRun, RbMeddle, CvSched, CvNext
<1>7. CASE UNCHANGED rb_vars
  BY <1>7 DEF rb_vars
<1>8. QED
  BY <1>1, <1>2, <1>3, <1>4, <1>5, <1>6, <1>7 DEF RbNext

\* The invariant of mutexes and condition variables holds under the buffer.
LEMMA RbCvInvariant == RbSpec => []CvInv
<1>1. RbInit => CvInv
  BY InitCvInv DEF RbInit
<1>2. CvInv /\ [RbNext]_rb_vars => CvInv'
  BY NextCvInv, RbStepIsCv
<1>3. QED
  BY <1>1, <1>2, PTL DEF RbSpec

-----------------------------------------------------------------------------
(* The circular array.  The indices stay below twice the capacity before    *)
(* they are reduced, so that % capacity subtracts the capacity at most once.*)

Wrap(x) == IF x < capacity THEN x ELSE x - capacity

Places == 0..(capacity - 1)

RingOK ==
    /\ count \in 0..capacity
    /\ head \in Nat /\ tail \in Nat
    /\ capacity # 0 => head \in Places /\ tail = Wrap(head + count)
    /\ buffer \in [Places -> Items \union {NoItem}]

LEMMA ModWrap ==
    ASSUME capacity # 0, NEW x \in Nat, x < capacity + capacity
    PROVE  x % capacity = Wrap(x) /\ Wrap(x) \in Places
<1>1. capacity \in Nat \ {0}
  BY RingBufferAssumption
<1>2. x % capacity \in Places /\ x = (capacity * (x \div capacity)) + (x % capacity)
      /\ x \div capacity \in Int
  BY <1>1 DEF Places
<1>3. \A q \in Int, r \in Places : x = capacity * q + r => r = Wrap(x)
  <2> SUFFICES ASSUME NEW q \in Int, NEW r \in Places, x = capacity * q + r PROVE r = Wrap(x)
    OBVIOUS
  <2>1. CASE q = 0
    BY <1>1, <2>1 DEF Wrap, Places
  <2>2. CASE q = 1
    BY <1>1, <2>2 DEF Wrap, Places
  <2>3. CASE q >= 2
    <3>1. capacity * q >= capacity + capacity
      BY <1>1, <2>3
    <3>2. QED
      BY <1>1, <3>1 DEF Places
  <2>4. CASE q <= -1
    <3>1. capacity * q <= -capacity
      BY <1>1, <2>4
    <3>2. QED
      BY <1>1, <3>1 DEF Places
  <2>5. QED
    BY <2>1, <2>2, <2>3, <2>4
<1>4. x % capacity = Wrap(x)
  BY <1>2, <1>3
<1>5. QED
  BY <1>2, <1>4

\* The places of the items, without the operator %.
LEMMA PlacesOf ==
    ASSUME capacity # 0, NEW h \in Places, NEW n \in 0..capacity
    PROVE  \A i \in 1..n : /\ (h + i - 1) % capacity = Wrap(h + i - 1)
                           /\ Wrap(h + i - 1) \in Places
<1> SUFFICES ASSUME NEW i \in 1..n
             PROVE  /\ (h + i - 1) % capacity = Wrap(h + i - 1)
                    /\ Wrap(h + i - 1) \in Places
  OBVIOUS
<1>1. capacity \in Nat
  BY RingBufferAssumption
<1>2. h + i - 1 \in Nat /\ h + i - 1 < capacity + capacity
  BY <1>1 DEF Places
<1>3. QED
  BY <1>1, <1>2, ModWrap

\* A sequence given by its elements: what Append and Tail make of it.
LEMMA SameSequence ==
    ASSUME NEW S, NEW n \in Nat, NEW a \in Seq(S), Len(a) = n, NEW new \in [1..n -> S],
           \A i \in 1..n : new[i] = a[i]
    PROVE  new = a
<1>1. a \in [1..n -> S]
  OBVIOUS
<1>2. QED
  BY <1>1

LEMMA AppendIs ==
    ASSUME NEW S, NEW s \in Seq(S), NEW x \in S, NEW n \in Nat, Len(s) = n,
           NEW new \in [1..(n + 1) -> S], new[n + 1] = x,
           \A i \in 1..n : new[i] = s[i]
    PROVE  new = Append(s, x)
<1> DEFINE a == Append(s, x)
<1>1. a \in Seq(S) /\ Len(a) = n + 1 /\ a[n + 1] = x /\ \A i \in 1..n : a[i] = s[i]
  BY AppendProperties
<1> HIDE DEF a
<1>2. \A i \in 1..(n + 1) : i \in 1..n \/ i = n + 1
  OBVIOUS
<1>3. n + 1 \in Nat /\ \A i \in 1..(n + 1) : new[i] = a[i]
  BY <1>1, <1>2
<1>4. new = a
  BY <1>1, <1>3, SameSequence
<1>5. QED
  BY <1>4 DEF a

LEMMA TailIs ==
    ASSUME NEW S, NEW s \in Seq(S), NEW n \in Nat, Len(s) = n, n # 0,
           NEW new \in [1..(n - 1) -> S],
           \A i \in 1..(n - 1) : new[i] = s[i + 1]
    PROVE  s # << >> /\ Head(s) = s[1] /\ new = Tail(s)
<1>1. s # << >> /\ Head(s) = s[1]
  OBVIOUS
<1> DEFINE a == Tail(s)
<1>2. a \in Seq(S) /\ Len(a) = n - 1 /\ \A i \in 1..(n - 1) : a[i] = s[i + 1]
  BY <1>1, HeadTailProperties
<1> HIDE DEF a
<1>3. n - 1 \in Nat /\ \A i \in 1..(n - 1) : new[i] = a[i]
  BY <1>2
<1>4. new = a
  BY <1>2, <1>3, SameSequence
<1>5. QED
  BY <1>1, <1>4 DEF a

LEMMA InitRing == RbInit => RingOK /\ BQ!QueueInit
<1> SUFFICES ASSUME RbInit PROVE RingOK /\ BQ!QueueInit
  OBVIOUS
<1>1. RingOK
  BY RingBufferAssumption DEF RbInit, RingOK, Places, Wrap
<1>2. Contents = << >>
  BY DEF RbInit, Contents
<1>3. QED
  BY <1>1, <1>2 DEF RbInit, BQ!QueueInit

\* produce writes behind the last item, into a place that no item occupies.
LEMMA ProduceStep ==
    ASSUME RingOK, NEW x \in Items, Produce(x)
    PROVE  RingOK' /\ BQ!Put(x)
<1>1. /\ capacity \in Nat /\ capacity # 0 /\ count \in Nat /\ count < capacity
      /\ head \in Places /\ tail = Wrap(head + count) /\ head \in Nat
      /\ buffer \in [Places -> Items \union {NoItem}]
  BY RingBufferAssumption DEF Produce, RingOK
<1>2. /\ buffer' = [buffer EXCEPT ![tail] = x] /\ tail' = (tail + 1) % capacity
      /\ count' = count + 1 /\ UNCHANGED <<head, taken>>
  BY DEF Produce
<1>3. tail \in Places
  BY <1>1 DEF Wrap, Places
<1>4. tail' = Wrap(tail + 1)
  <2>1. tail + 1 \in Nat /\ tail + 1 < capacity + capacity
    BY <1>1, <1>3 DEF Places
  <2>2. QED
    BY <1>1, <1>2, <2>1, ModWrap
<1>5. RingOK'
  <2>1. buffer' \in [Places -> Items \union {NoItem}]
    BY <1>1, <1>2
  <2>2. tail' = Wrap(head + count') /\ tail' \in Nat
    BY <1>1, <1>2, <1>3, <1>4 DEF Wrap, Places
  <2>3. QED
    BY <1>1, <1>2, <2>1, <2>2 DEF RingOK
<1> DEFINE old == [i \in 1..count |-> buffer[Wrap(head + i - 1)]]
           new == [i \in 1..(count + 1) |-> buffer'[Wrap(head + i - 1)]]
<1>6. /\ Contents = old /\ Contents' = new
      /\ \A i \in 1..count : Wrap(head + i - 1) \in Places
  <2>1. count \in 0..capacity /\ count + 1 \in 0..capacity
    BY <1>1
  <2>2. Contents' = [i \in 1..(count + 1) |-> buffer'[(head + i - 1) % capacity]]
    BY <1>2 DEF Contents
  <2>3. \A i \in 1..count : /\ (head + i - 1) % capacity = Wrap(head + i - 1)
                            /\ Wrap(head + i - 1) \in Places
    BY <1>1, <2>1, PlacesOf
  <2>4. \A i \in 1..(count + 1) : (head + i - 1) % capacity = Wrap(head + i - 1)
    BY <1>1, <2>1, PlacesOf
  <2>5. QED
    BY <2>2, <2>3, <2>4 DEF Contents
<1>7. old \in Seq(Items \union {NoItem}) /\ Len(old) = count
  <2>1. \A i \in 1..count : old[i] \in Items \union {NoItem}
    BY <1>1, <1>6
  <2>2. old = [i \in 1..count |-> old[i]]
    OBVIOUS
  <2> HIDE DEF old
  <2>3. old \in [1..count -> Items \union {NoItem}]
    BY <2>1, <2>2
  <2>4. QED
    BY <1>1, <2>3
<1>8. new = Append(old, x)
  <2>1. ASSUME NEW i \in 1..count PROVE new[i] = old[i]
    <3>1. Wrap(head + i - 1) # tail /\ Wrap(head + i - 1) \in Places
      BY <1>1 DEF Wrap, Places
    <3>2. QED
      BY <1>1, <1>2, <3>1
  <2>2. new[count + 1] = x
    BY <1>1, <1>2, <1>3
  <2>3. /\ x \in Items \union {NoItem}
        /\ \A i \in 1..(count + 1) : i \in 1..count \/ i = count + 1
    BY <1>1
  <2>4. \A i \in 1..(count + 1) : new[i] \in Items \union {NoItem}
    <3> HIDE DEF old, new
    <3>1. \A i \in 1..count : old[i] \in Items \union {NoItem}
      BY <1>7
    <3>2. QED
      BY <2>1, <2>2, <2>3, <3>1
  <2>5. new = [i \in 1..(count + 1) |-> new[i]]
    OBVIOUS
  <2> HIDE DEF old, new
  <2>6. new \in [1..(count + 1) -> Items \union {NoItem}]
    BY <2>4, <2>5
  <2>7. QED
    BY <1>1, <1>7, <2>1, <2>2, <2>3, <2>6, AppendIs
<1> HIDE DEF old, new
<1>9. QED
  BY <1>1, <1>2, <1>5, <1>6, <1>7, <1>8 DEF BQ!Put

\* consume takes the oldest item.
LEMMA ConsumeStep ==
    ASSUME RingOK, Consume
    PROVE  RingOK' /\ BQ!Get
<1>1. /\ capacity \in Nat /\ capacity # 0 /\ count \in Nat /\ count # 0 /\ count <= capacity
      /\ head \in Places /\ tail = Wrap(head + count) /\ head \in Nat /\ tail \in Nat
      /\ buffer \in [Places -> Items \union {NoItem}]
  BY RingBufferAssumption DEF Consume, RingOK
<1>2. /\ taken' = buffer[head] /\ head' = (head + 1) % capacity
      /\ count' = count - 1 /\ UNCHANGED <<buffer, tail>>
  BY DEF Consume
<1>3. head' = Wrap(head + 1) /\ head' \in Places
  <2>1. head + 1 \in Nat /\ head + 1 < capacity + capacity
    BY <1>1 DEF Places
  <2>2. QED
    BY <1>1, <1>2, <2>1, ModWrap
<1>4. RingOK'
  <2>1. tail = Wrap(head' + count')
    BY <1>1, <1>2, <1>3 DEF Wrap, Places
  <2>2. QED
    BY <1>1, <1>2, <1>3, <2>1 DEF RingOK, Places
<1> DEFINE old == [i \in 1..count |-> buffer[Wrap(head + i - 1)]]
           new == [i \in 1..(count - 1) |-> buffer[Wrap(head' + i - 1)]]
<1>5. /\ Contents = old /\ Contents' = new
      /\ \A i \in 1..count : Wrap(head + i - 1) \in Places
  <2>1. count \in 0..capacity /\ count - 1 \in 0..capacity
    BY <1>1
  <2>2. Contents' = [i \in 1..(count - 1) |-> buffer[(head' + i - 1) % capacity]]
    BY <1>2 DEF Contents
  <2>3. \A i \in 1..count : /\ (head + i - 1) % capacity = Wrap(head + i - 1)
                            /\ Wrap(head + i - 1) \in Places
    BY <1>1, <2>1, PlacesOf
  <2>4. \A i \in 1..(count - 1) : (head' + i - 1) % capacity = Wrap(head' + i - 1)
    BY <1>1, <1>3, <2>1, PlacesOf
  <2>5. QED
    BY <2>2, <2>3, <2>4 DEF Contents
<1>6. old \in Seq(Items \union {NoItem}) /\ Len(old) = count
  <2>1. \A i \in 1..count : old[i] \in Items \union {NoItem}
    BY <1>1, <1>5
  <2>2. old = [i \in 1..count |-> old[i]]
    OBVIOUS
  <2> HIDE DEF old
  <2>3. old \in [1..count -> Items \union {NoItem}]
    BY <2>1, <2>2
  <2>4. QED
    BY <1>1, <2>3
<1>7. old[1] = buffer[head]
  BY <1>1 DEF Wrap, Places
<1>8. old # << >> /\ Head(old) = old[1] /\ new = Tail(old)
  <2>1. ASSUME NEW i \in 1..(count - 1) PROVE new[i] = old[i + 1]
    <3>1. i + 1 \in 1..count /\ Wrap(head' + i - 1) = Wrap(head + (i + 1) - 1)
      BY <1>1, <1>3 DEF Wrap, Places
    <3>2. QED
      BY <3>1
  <2>2. new = [i \in 1..(count - 1) |-> new[i]]
    OBVIOUS
  <2> HIDE DEF old, new
  <2>3. \A i \in 1..(count - 1) : i + 1 \in 1..Len(old) /\ old[i + 1] \in Items \union {NoItem}
    BY <1>1, <1>6
  <2>4. new \in [1..(count - 1) -> Items \union {NoItem}]
    BY <2>1, <2>2, <2>3
  <2>5. QED
    BY <1>1, <1>6, <2>1, <2>4, TailIs
<1> HIDE DEF old, new
<1>9. QED
  BY <1>2, <1>4, <1>5, <1>6, <1>7, <1>8 DEF BQ!Get

\* All other steps leave the array alone.
LEMMA OtherSteps ==
    ASSUME [RbNext]_rb_vars
    PROVE  (\E x \in Items : Produce(x)) \/ Consume \/ UNCHANGED ring_vars
BY DEF RbNext, Operate, WaitNotFull, WaitNotEmpty, Leave, Inside, Enter, RbSwitch, RbSched,
       RbEndStep, RbRun, RbMeddle, rb_vars

LEMMA NextRing ==
    ASSUME RingOK, [RbNext]_rb_vars
    PROVE  RingOK' /\ [BQ!QueueNext]_<<Contents, taken>>
<1>1. ASSUME NEW x \in Items, Produce(x) PROVE RingOK' /\ BQ!QueueNext
  BY <1>1, ProduceStep DEF BQ!QueueNext
<1>2. CASE Consume
  BY <1>2, ConsumeStep DEF BQ!QueueNext
<1>3. CASE UNCHANGED ring_vars
  BY <1>3 DEF ring_vars, RingOK, Contents
<1>4. QED
  BY <1>1, <1>2, <1>3, OtherSteps

\* The array with its indices is a bounded first-in-first-out queue, whatever
\* the threads and the menu do (RingBuffer::produce, consume).
THEOREM RingBufferImplementsQueue == RbSpec => ImplementsQueue
<1>1. RbInit => RingOK /\ BQ!QueueInit
  BY InitRing
<1>2. RingOK /\ [RbNext]_rb_vars => RingOK' /\ [BQ!QueueNext]_<<Contents, taken>>
  BY NextRing
<1>3. QED
  BY <1>1, <1>2, PTL DEF RbSpec, ImplementsQueue, BQ!QueueSpec

-----------------------------------------------------------------------------
(* Nobody sleeps beside work to be done.  Producers sleep in not_full and   *)
(* consumers in not_empty; a place or an item is work for them.             *)

Operations == {"produce", "consume"}

WaitsFor(o) == IF o = "produce" THEN "not_full" ELSE "not_empty"

Work(o) == IF o = "produce" THEN capacity - count ELSE count

PcOK ==
    /\ call \in [Tids -> Operations \union {"none"}]
    /\ rb_pc \in [Tids -> {"test", "unlock"}]

\* A condition variable holds threads of one operation, in its loop.
Roles ==
    \A o \in Operations, t \in Tids :
        InQueue(cv_queue[WaitsFor(o)], t) => call[t] = o /\ rb_pc[t] = "test"

\* While threads sleep, all the work has awake threads on their way to it.
EnoughAwake ==
    \A o \in Operations :
        cv_queue[WaitsFor(o)] # << >> => Cardinality(OnTheWay(o)) >= Work(o)

WorkInv == CvInv /\ RingOK /\ PcOK /\ (meddled = 0 => Roles /\ EnoughAwake)

LEMMA TheConds ==
    /\ \A o \in Operations : WaitsFor(o) \in Conds
    /\ \A c \in Conds : \E o \in Operations : c = WaitsFor(o)
    /\ \A o, p \in Operations : WaitsFor(o) = WaitsFor(p) => o = p
BY RingBufferAssumption DEF Operations, WaitsFor

\* Who is on the way, told by the queues of the condition variables.
LEMMA OnTheWayIs ==
    ASSUME CvCalm
    PROVE  \A o : /\ OnTheWay(o) \in SUBSET Tids
                  /\ \A t \in Tids : t \in OnTheWay(o) <=>
                        (/\ call[t] = o /\ rb_pc[t] = "test"
                         /\ \A c \in Conds : ~InQueue(cv_queue[c], t))
BY DEF CvCalm, OnTheWay

LEMMA OnTheWayNext ==
    ASSUME CvCalm'
    PROVE  \A o : /\ OnTheWay(o)' \in SUBSET Tids
                  /\ \A t \in Tids : t \in OnTheWay(o)' <=>
                        (/\ call'[t] = o /\ rb_pc'[t] = "test"
                         /\ \A c \in Conds : ~InQueue(cv_queue'[c], t))
BY DEF CvCalm, OnTheWay

LEMMA WorkType == RingOK => \A o \in Operations : Work(o) \in Nat
BY RingBufferAssumption DEF RingOK, Operations, Work

\* A step that leaves every queue and every place in the calls as it is.
LEMMA WorkKept ==
    ASSUME CvCalm, CvCalm', Roles, EnoughAwake, UNCHANGED <<cv_queue, count, call, rb_pc>>
    PROVE  Roles' /\ EnoughAwake'
<1>1. ASSUME NEW o PROVE OnTheWay(o)' = OnTheWay(o)
  <2>1. \A t \in Tids : t \in OnTheWay(o)' <=> t \in OnTheWay(o)
    BY OnTheWayIs, OnTheWayNext
  <2>2. OnTheWay(o) \in SUBSET Tids /\ OnTheWay(o)' \in SUBSET Tids
    BY OnTheWayIs, OnTheWayNext
  <2>3. QED
    BY <2>1, <2>2
<1>2. Roles'
  BY DEF Roles
<1>3. EnoughAwake'
  BY <1>1 DEF EnoughAwake, Work
<1>4. QED
  BY <1>2, <1>3

\* A thread that sleeps in no queue enters or leaves a call: nobody who was on
\* the way is lost.
LEMMA WorkEntered ==
    ASSUME CvCalm, CvCalm', PcOK, Roles, EnoughAwake, RingOK, current \in Tids,
           UNCHANGED <<cv_queue, count>>,
           NEW o1, call' = [call EXCEPT ![current] = o1],
           rb_pc' = [rb_pc EXCEPT ![current] = "test"],
           call[current] = "none" \/ rb_pc[current] = "unlock"
    PROVE  Roles' /\ EnoughAwake'
<1>1. \A t \in Tids : t # current => call'[t] = call[t] /\ rb_pc'[t] = rb_pc[t]
  BY DEF PcOK
<1>2. \A o \in Operations : ~InQueue(cv_queue[WaitsFor(o)], current)
  BY DEF Roles, Operations
<1>3. Roles'
  BY <1>1, <1>2 DEF Roles
<1>4. ASSUME NEW o \in Operations PROVE Cardinality(OnTheWay(o)) <= Cardinality(OnTheWay(o)')
  <2>1. ASSUME NEW t \in Tids, t \in OnTheWay(o) PROVE t \in OnTheWay(o)'
    <3>1. call[t] = o /\ rb_pc[t] = "test" /\ \A c \in Conds : ~InQueue(cv_queue[c], t)
      BY <2>1, OnTheWayIs
    <3>2. t # current
      BY <3>1 DEF Operations
    <3>3. QED
      BY <1>1, <3>1, <3>2, OnTheWayNext
  <2>2. OnTheWay(o) \in SUBSET Tids /\ OnTheWay(o)' \in SUBSET Tids
    BY OnTheWayIs, OnTheWayNext
  <2>3. OnTheWay(o) \in SUBSET (OnTheWay(o)')
    BY <2>1, <2>2
  <2>4. QED
    BY <2>2, <2>3, TidSets
<1>5. ASSUME NEW o \in Operations, cv_queue'[WaitsFor(o)] # << >>
      PROVE  Cardinality(OnTheWay(o)') >= Work(o)'
  <2>1. Cardinality(OnTheWay(o)) >= Work(o) /\ Work(o)' = Work(o)
    BY <1>5 DEF EnoughAwake, Work
  <2>2. Cardinality(OnTheWay(o)) \in Nat /\ Cardinality(OnTheWay(o)') \in Nat
    BY OnTheWayIs, OnTheWayNext, TidSets
  <2>3. QED
    BY <1>4, <2>1, <2>2, WorkType
<1>6. EnoughAwake'
  BY <1>5 DEF EnoughAwake
<1>7. QED
  BY <1>3, <1>6

\* wait() is called only when there is no work for the caller.
LEMMA WorkWait ==
    ASSUME LockInv, CvPlaces, CvCalm, CvCalm', PcOK, Roles, EnoughAwake, RingOK,
           NEW p \in Operations, Work(p) = 0, WaitRelease(WaitsFor(p), mutex_),
           AtTest(p), UNCHANGED <<ring_vars, pc_vars>>
    PROVE  Roles' /\ EnoughAwake'
<1>1. /\ current \in Tids /\ call[current] = p /\ rb_pc[current] = "test"
      /\ UNCHANGED <<count, call, rb_pc>>
      /\ cv_queue' = [cv_queue EXCEPT ![WaitsFor(p)] = Append(@, current)]
  BY DEF AtTest, CvBody, InBody, InThread, LockInv, CoopInv, CoopTypeOK, WaitRelease, ring_vars,
         pc_vars
<1>2. /\ \A t \in Tids : InQueue(cv_queue'[WaitsFor(p)], t) <=>
                            InQueue(cv_queue[WaitsFor(p)], t) \/ t = current
      /\ \A c \in Conds : c # WaitsFor(p) => cv_queue'[c] = cv_queue[c]
  <2> DEFINE q == cv_queue[WaitsFor(p)]
  <2>1. WaitsFor(p) \in Conds /\ q \in Seq(Tids) /\ Distinct(q) /\ ~InQueue(q, current)
    <3>1. ~Sleeping(current) /\ WaitsFor(p) \in Conds
      BY TheConds DEF AtTest, CvBody, Sleeping
    <3>2. QED
      BY <1>1, <3>1 DEF CvPlaces, CvCalm
  <2>2. cv_queue'[WaitsFor(p)] = Append(q, current)
    BY <1>1, <2>1 DEF CvPlaces
  <2>3. \A c \in Conds : c # WaitsFor(p) => cv_queue'[c] = cv_queue[c]
    BY <1>1 DEF CvPlaces
  <2> HIDE DEF q
  <2>4. \A t \in Tids : InQueue(Append(q, current), t) <=> InQueue(q, t) \/ t = current
    BY <1>1, <2>1, PushFacts
  <2>5. QED
    BY <2>2, <2>3, <2>4 DEF q
<1>3. \A o \in Operations : o # p => cv_queue'[WaitsFor(o)] = cv_queue[WaitsFor(o)]
  BY <1>2, TheConds
<1>4. Roles'
  <2>1. ASSUME NEW o \in Operations, NEW t \in Tids, InQueue(cv_queue'[WaitsFor(o)], t)
        PROVE  call'[t] = o /\ rb_pc'[t] = "test"
    BY <1>1, <1>2, <1>3, <2>1 DEF Roles
  <2>2. QED
    BY <2>1 DEF Roles
<1>5. ASSUME NEW o \in Operations, cv_queue'[WaitsFor(o)] # << >>
      PROVE  Cardinality(OnTheWay(o)') >= Work(o)'
  <2>1. Work(o)' = Work(o) /\ Cardinality(OnTheWay(o)') \in Nat
    BY <1>1, OnTheWayNext, TidSets DEF Work
  <2>2. CASE o = p
    BY <2>1, <2>2
  <2>3. CASE o # p
    <3>1. \A t \in Tids : t \in OnTheWay(o)' <=> t \in OnTheWay(o)
      <4>1. ASSUME NEW t \in Tids, call[t] = o
            PROVE  \A c \in Conds : InQueue(cv_queue'[c], t) <=> InQueue(cv_queue[c], t)
        BY <1>1, <1>2, <2>3, <4>1
      <4>2. QED
        BY <1>1, <4>1, OnTheWayIs, OnTheWayNext
    <3>2. OnTheWay(o)' = OnTheWay(o)
      BY <3>1, OnTheWayIs, OnTheWayNext
    <3>3. cv_queue[WaitsFor(o)] # << >>
      BY <1>3, <1>5, <2>3
    <3>4. QED
      BY <2>1, <3>2, <3>3 DEF EnoughAwake
  <2>4. QED
    BY <2>2, <2>3
<1>6. QED
  BY <1>4, <1>5 DEF EnoughAwake

\* One operation of kind p makes work for the other kind o and wakes one of it.
LEMMA WorkDone ==
    ASSUME LockInv, CvPlaces, CvCalm, CvCalm', PcOK, Roles, EnoughAwake, RingOK,
           NEW p \in Operations, NEW o \in Operations, o # p, AtTest(p),
           call' = call, rb_pc' = [rb_pc EXCEPT ![current] = "unlock"],
           SignalEffect(WaitsFor(o)), Work(o)' = Work(o) + 1, Work(p)' = Work(p) - 1
    PROVE  Roles' /\ EnoughAwake'
<1>1. /\ current \in Tids /\ call[current] = p /\ rb_pc[current] = "test"
      /\ cv_pc[current] = "out"
  BY DEF AtTest, CvBody, InBody, InThread, LockInv, CoopInv, CoopTypeOK
<1>2. \A c \in Conds : ~InQueue(cv_queue[c], current)
  BY <1>1 DEF CvCalm, Sleeping
<1>3. \A t \in Tids : t # current => rb_pc'[t] = rb_pc[t]
  BY DEF PcOK
<1>4. /\ WaitsFor(o) \in Conds /\ WaitsFor(p) \in Conds /\ WaitsFor(o) # WaitsFor(p)
      /\ \A x \in Operations : x = o \/ x = p
  BY TheConds DEF Operations
<1>5. Work(o) \in Nat /\ Work(p) \in Nat
  BY WorkType
<1>6. /\ Cardinality(OnTheWay(o)) \in Nat /\ Cardinality(OnTheWay(o)') \in Nat
      /\ Cardinality(OnTheWay(p)) \in Nat /\ Cardinality(OnTheWay(p)') \in Nat
      /\ OnTheWay(o) \in SUBSET Tids /\ OnTheWay(o)' \in SUBSET Tids
      /\ OnTheWay(p) \in SUBSET Tids /\ OnTheWay(p)' \in SUBSET Tids
  BY OnTheWayIs, OnTheWayNext, TidSets
\* No queue grows, and the one of the other kind loses its first thread.
<1>7. /\ \A c \in Conds : c # WaitsFor(o) => cv_queue'[c] = cv_queue[c]
      /\ \A c \in Conds, t \in Tids : InQueue(cv_queue'[c], t) => InQueue(cv_queue[c], t)
      /\ cv_queue[WaitsFor(o)] = << >> => cv_queue'[WaitsFor(o)] = << >>
      /\ cv_queue[WaitsFor(o)] # << >> =>
            \E h \in Tids : /\ InQueue(cv_queue[WaitsFor(o)], h)
                            /\ ~InQueue(cv_queue'[WaitsFor(o)], h)
  <2>1. CASE cv_queue[WaitsFor(o)] = << >>
    <3>1. cv_queue' = cv_queue
      BY <2>1 DEF SignalEffect
    <3>2. QED
      BY <2>1, <3>1
  <2>2. CASE cv_queue[WaitsFor(o)] # << >>
    <3> DEFINE q == cv_queue[WaitsFor(o)]
    <3>1. cv_queue' = [cv_queue EXCEPT ![WaitsFor(o)] = Tail(q)]
      BY <2>2 DEF SignalEffect
    <3>2. cv_queue'[WaitsFor(o)] = Tail(q)
          /\ \A c \in Conds : c # WaitsFor(o) => cv_queue'[c] = cv_queue[c]
      BY <1>4, <3>1 DEF CvPlaces
    <3>3. q \in Seq(Tids) /\ q # << >> /\ Distinct(q)
      BY <1>4, <2>2 DEF CvPlaces, CvCalm
    <3> HIDE DEF q
    <3>4. /\ InQueue(q, Head(q)) /\ Head(q) \in Tids
          /\ \A u \in Tids : InQueue(Tail(q), u) <=> InQueue(q, u) /\ u # Head(q)
      BY <3>3, PopFacts
    <3>5. \A c \in Conds, t \in Tids : InQueue(cv_queue'[c], t) => InQueue(cv_queue[c], t)
      BY <3>2, <3>4 DEF q
    <3>6. InQueue(cv_queue[WaitsFor(o)], Head(q)) /\ ~InQueue(cv_queue'[WaitsFor(o)], Head(q))
      BY <3>2, <3>4 DEF q
    <3>7. QED
      BY <2>2, <3>2, <3>4, <3>5, <3>6
  <2>3. QED
    BY <2>1, <2>2
<1>8. Roles'
  <2>1. ASSUME NEW x \in Operations, NEW t \in Tids, InQueue(cv_queue'[WaitsFor(x)], t)
        PROVE  call'[t] = x /\ rb_pc'[t] = "test"
    <3>1. InQueue(cv_queue[WaitsFor(x)], t) /\ t # current
      BY <1>2, <1>7, <2>1, TheConds
    <3>2. QED
      BY <1>3, <3>1 DEF Roles
  <2>2. QED
    BY <2>1 DEF Roles
\* The thread itself is the only one that is no longer on its way.
<1>9. cv_queue'[WaitsFor(p)] # << >> => Cardinality(OnTheWay(p)') >= Work(p)'
  <2>1. \A t \in Tids : t \in OnTheWay(p) /\ t # current => t \in OnTheWay(p)'
    BY <1>3, <1>7, OnTheWayIs, OnTheWayNext
  <2>2. OnTheWay(p) \ {current} \subseteq OnTheWay(p)'
    BY <1>6, <2>1
  <2>3. Cardinality(OnTheWay(p)) - 1 <= Cardinality(OnTheWay(p)')
    BY <1>6, <2>2, LosesOne
  <2>4. cv_queue'[WaitsFor(p)] # << >> => Cardinality(OnTheWay(p)) >= Work(p)
    BY <1>4, <1>7 DEF EnoughAwake
  <2>5. QED
    BY <1>5, <1>6, <2>3, <2>4
\* The thread woken by the signal joins those on their way.
<1>10. ASSUME cv_queue'[WaitsFor(o)] # << >> PROVE Cardinality(OnTheWay(o)') >= Work(o)'
  <2>1. cv_queue[WaitsFor(o)] # << >>
    BY <1>7, <1>10
  <2>2. PICK h \in Tids : InQueue(cv_queue[WaitsFor(o)], h) /\ ~InQueue(cv_queue'[WaitsFor(o)], h)
    BY <1>7, <2>1
  <2>3. call[h] = o /\ rb_pc[h] = "test" /\ h # current
    BY <1>2, <1>4, <2>2 DEF Roles
  <2>4. h \notin OnTheWay(o)
    BY <1>4, <2>2, OnTheWayIs
  <2>5. h \in OnTheWay(o)'
    <3>1. \A c \in Conds : ~InQueue(cv_queue'[c], h)
      BY <1>4, <1>7, <2>2 DEF CvCalm
    <3>2. QED
      BY <1>3, <2>3, <3>1, OnTheWayNext
  <2>6. \A t \in Tids : t \in OnTheWay(o) => t \in OnTheWay(o)'
    <3>1. ASSUME NEW t \in Tids, t \in OnTheWay(o) PROVE t \in OnTheWay(o)'
      <4>1. call[t] = o /\ rb_pc[t] = "test" /\ \A c \in Conds : ~InQueue(cv_queue[c], t)
        BY <3>1, OnTheWayIs
      <4>2. t # current
        BY <1>1, <4>1
      <4>3. QED
        BY <1>3, <1>7, <4>1, <4>2, OnTheWayNext
    <3>2. QED
      BY <3>1
  <2>7. OnTheWay(o) \union {h} \in SUBSET (OnTheWay(o)')
    BY <1>6, <2>5, <2>6
  <2>8. Cardinality(OnTheWay(o) \union {h}) = Cardinality(OnTheWay(o)) + 1
    BY <1>6, <2>4, TidSets
  <2>9. Cardinality(OnTheWay(o) \union {h}) <= Cardinality(OnTheWay(o)')
    BY <1>6, <2>7, TidSets
  <2>10. Cardinality(OnTheWay(o)) >= Work(o)
    BY <2>1 DEF EnoughAwake
  <2>11. QED
    BY <1>5, <1>6, <2>8, <2>9, <2>10
<1>11. QED
  BY <1>4, <1>8, <1>9, <1>10 DEF EnoughAwake

LEMMA InitWorkInv == RbInit => WorkInv
<1> SUFFICES ASSUME RbInit PROVE WorkInv
  OBVIOUS
<1>1. CvInv /\ RingOK
  BY InitCvInv, InitRing DEF RbInit
<1>2. PcOK
  BY DEF RbInit, PcOK
<1>3. \A o \in Operations : cv_queue[WaitsFor(o)] = << >>
  BY TheConds DEF RbInit, CvInit
<1>4. \A t \in Tids : ~InQueue(<< >>, t)
  BY DEF InQueue
<1>5. Roles /\ EnoughAwake
  BY <1>3, <1>4 DEF Roles, EnoughAwake
<1>6. QED
  BY <1>1, <1>2, <1>5 DEF WorkInv

LEMMA NextPcOK == PcOK /\ [RbNext]_rb_vars => PcOK'
BY DEF PcOK, Operations, RbNext, Operate, WaitNotFull, WaitNotEmpty, Produce, Consume, Leave,
       Inside, Enter, RbSwitch, RbSched, RbEndStep, RbRun, RbMeddle, rb_vars, pc_vars

LEMMA NextWorkInv == WorkInv /\ [RbNext]_rb_vars => WorkInv'
<1> SUFFICES ASSUME WorkInv, [RbNext]_rb_vars PROVE WorkInv'
  OBVIOUS
<1>1. CvInv /\ RingOK /\ PcOK /\ (meddled = 0 => Roles /\ EnoughAwake)
  BY DEF WorkInv
<1>2. [CvNext]_all_vars
  BY RbStepIsCv
<1>3. CvInv' /\ RingOK' /\ PcOK'
  BY <1>1, <1>2, NextCvInv, NextRing, NextPcOK
<1>4. ASSUME meddled' = 0 PROVE Roles' /\ EnoughAwake'
  <2>1. meddled = 0
    BY <1>1, <1>2, <1>4, MeddledStays
  <2>2. LockInv /\ CvPlaces /\ CvCalm /\ CvCalm' /\ Roles /\ EnoughAwake
    BY <1>1, <1>3, <1>4, <2>1 DEF CvInv, WakeInv
  <2>3. count \in Nat /\ capacity \in Nat
    BY <1>1, RingBufferAssumption DEF RingOK
  <2>4. CASE WaitNotFull
    <3>1. /\ AtTest("produce") /\ Work("produce") = 0 /\ WaitRelease(WaitsFor("produce"), mutex_)
          /\ UNCHANGED <<ring_vars, pc_vars>> /\ "produce" \in Operations
      BY <2>3, <2>4 DEF WaitNotFull, Work, WaitsFor, Operations
    <3>2. QED
      BY <1>1, <2>2, <3>1, WorkWait
  <2>5. CASE WaitNotEmpty
    <3>1. /\ AtTest("consume") /\ Work("consume") = 0 /\ WaitRelease(WaitsFor("consume"), mutex_)
          /\ UNCHANGED <<ring_vars, pc_vars>> /\ "consume" \in Operations
      BY <2>3, <2>5 DEF WaitNotEmpty, Work, WaitsFor, Operations
    <3>2. QED
      BY <1>1, <2>2, <3>1, WorkWait
  <2>6. ASSUME NEW x \in Items, Produce(x) PROVE Roles' /\ EnoughAwake'
    <3>1. /\ AtTest("produce") /\ call' = call /\ rb_pc' = [rb_pc EXCEPT ![current] = "unlock"]
          /\ SignalEffect(WaitsFor("consume"))
          /\ "produce" \in Operations /\ "consume" \in Operations
      BY <2>6 DEF Produce, WaitsFor, Operations
    <3>2. Work("consume")' = Work("consume") + 1 /\ Work("produce")' = Work("produce") - 1
      BY <2>3, <2>6 DEF Produce, Work
    <3>3. QED
      BY <1>1, <2>2, <3>1, <3>2, WorkDone
  <2>7. CASE Consume
    <3>1. /\ AtTest("consume") /\ call' = call /\ rb_pc' = [rb_pc EXCEPT ![current] = "unlock"]
          /\ SignalEffect(WaitsFor("produce"))
          /\ "produce" \in Operations /\ "consume" \in Operations
      BY <2>7 DEF Consume, WaitsFor, Operations
    <3>2. Work("produce")' = Work("produce") + 1 /\ Work("consume")' = Work("consume") - 1
      BY <2>3, <2>7 DEF Consume, Work
    <3>3. QED
      BY <1>1, <2>2, <3>1, <3>2, WorkDone
  <2>8. CASE Leave
    <3>1. /\ current \in Tids /\ UNCHANGED <<cv_queue, count>> /\ rb_pc[current] = "unlock"
          /\ call' = [call EXCEPT ![current] = "none"]
          /\ rb_pc' = [rb_pc EXCEPT ![current] = "test"]
      BY <2>2, <2>8 DEF Leave, CvBody, InBody, InThread, cv_vars, ring_vars, LockInv, CoopInv,
                        CoopTypeOK
    <3>2. QED
      BY <1>1, <2>2, <3>1, WorkEntered
  <2>9. ASSUME NEW o \in {"produce", "consume"}, Enter(o) PROVE Roles' /\ EnoughAwake'
    <3>1. /\ current \in Tids /\ UNCHANGED <<cv_queue, count>> /\ call[current] = "none"
          /\ call' = [call EXCEPT ![current] = o]
          /\ rb_pc' = [rb_pc EXCEPT ![current] = "test"]
      BY <2>2, <2>9 DEF Enter, CvBody, InBody, InThread, cv_vars, ring_vars, LockInv, CoopInv,
                        CoopTypeOK
    <3>2. QED
      BY <1>1, <2>2, <3>1, WorkEntered
  <2>10. CASE UNCHANGED <<cv_queue, count, call, rb_pc>>
    BY <2>2, <2>10, WorkKept
  <2>11. CASE Inside \/ RbSwitch \/ RbSched \/ RbEndStep \/ UNCHANGED rb_vars
    <3>1. UNCHANGED <<cv_queue, count, call, rb_pc>>
      BY <2>11 DEF Inside, WaitBlock, WaitRelock, RbSwitch, RbSched, RbEndStep, rb_vars, all_vars,
                   cv_vars, ring_vars, pc_vars
    <3>2. QED
      BY <2>10, <3>1
  <2>12. ASSUME NEW t \in Tids, RbRun(t) PROVE Roles' /\ EnoughAwake'
    <3>1. UNCHANGED <<cv_queue, count, call, rb_pc>>
      BY <2>12 DEF RbRun, cv_vars, ring_vars, pc_vars
    <3>2. QED
      BY <2>10, <3>1
  <2>13. ASSUME NEW t \in Tids, RbMeddle(t) PROVE FALSE
    BY <1>4, <2>1, <2>13 DEF RbMeddle, CvMeddle, Meddle
  <2>14. QED
    BY <2>4, <2>5, <2>6, <2>7, <2>8, <2>9, <2>11, <2>12, <2>13 DEF RbNext, Operate
<1>5. QED
  BY <1>1, <1>3, <1>4 DEF WorkInv

\* One signal per item is enough, with any number of producers and consumers:
\* while consumers sleep, every item has an awake consumer on its way to it,
\* and while producers sleep, every free place has an awake producer.
THEOREM RingBufferKeepsAwake == RbSpec => []NoSleepBesideWork
<1>1. WorkInv => NoSleepBesideWork
  BY DEF WorkInv, EnoughAwake, NoSleepBesideWork, Operations, WaitsFor, Work
<1>2. QED
  BY <1>1, InitWorkInv, NextWorkInv, PTL DEF RbSpec
=============================================================================
