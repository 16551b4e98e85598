--------------------------- MODULE VirtualProofs ----------------------------
(***************************************************************************)
(* Proofs about the two virtual devices, VirtualMemory and VirtualFS, that *)
(* have nothing in common but their use of the integers.  The memory, for  *)
(* any number of frames and pages: its tables agree and the oldest page    *)
(* goes.  The file system, for any disk, any names and any strings: bitmap *)
(* and inodes agree, nothing of an old content survives, and the file      *)
(* system implements FileStore.                                            *)
(***************************************************************************)
EXTENDS VirtualMemory, VirtualFS, SequenceTheorems, FiniteSetTheorems, TLAPS

-----------------------------------------------------------------------------
(* The page table, the frames and the two replacement orders.              *)

\* Page p is in the replacement order q, and q has no page twice.
InOrder(q, p) == \E k \in 1..Len(q) : q[k] = p
Distinct(q) == \A k, l \in 1..Len(q) : q[k] = q[l] => k = l

\* The elements of an order from its first to its last have falling ages
\* (most recently used first), or rising ones (oldest first).
Falling(q, age) == \A k, l \in 1..Len(q) : k < l => age[q[k]] > age[q[l]]
Rising(q, age) == \A k, l \in 1..Len(q) : k < l => age[q[k]] < age[q[l]]

\* push_front of a page that is not in the list.
LEMMA PushFrontFacts ==
    ASSUME NEW q \in Seq(Pages), NEW p \in Pages
    PROVE  /\ PushFront(q, p) \in Seq(Pages)
           /\ Len(PushFront(q, p)) = Len(q) + 1
           /\ PushFront(q, p)[1] = p
           /\ \A k \in 1..Len(q) : PushFront(q, p)[k + 1] = q[k]
<1>1. <<p>> \in Seq(Pages) /\ Len(<<p>>) = 1 /\ <<p>>[1] = p
  OBVIOUS
<1>2. Len(q) \in Nat
  OBVIOUS
<1>3. QED
  BY <1>1, <1>2, ConcatProperties DEF PushFront

\* pop_back.
LEMMA FrontFacts ==
    ASSUME NEW q \in Seq(Pages), q # << >>
    PROVE  /\ Front(q) \in Seq(Pages)
           /\ Len(Front(q)) = Len(q) - 1
           /\ \A k \in 1..(Len(q) - 1) : Front(q)[k] = q[k]
           /\ Len(q) \in Nat \ {0} /\ Last(q) = q[Len(q)]
<1>1. Len(q) \in Nat \ {0} /\ \A k \in 1..Len(q) : q[k] \in Pages
  BY EmptySeq
<1>2. QED
  <2>1. \A k \in 1..(Len(q) - 1) : q[k] \in Pages
    BY <1>1
  <2>2. /\ SubSeq(q, 1, Len(q) - 1) \in Seq(Pages)
        /\ Len(SubSeq(q, 1, Len(q) - 1)) = Len(q) - 1
        /\ \A k \in 1..(Len(q) - 1) : SubSeq(q, 1, Len(q) - 1)[k] = q[k]
    <3> DEFINE n == Len(q) - 1
    <3>1. n \in Nat /\ \A k \in 1..n : q[k] \in Pages
      BY <1>1, <2>1
    <3> HIDE DEF n
    <3>2. /\ SubSeq(q, 1, n) \in Seq(Pages)
          /\ Len(SubSeq(q, 1, n)) = IF 1 <= n THEN n - 1 + 1 ELSE 0
          /\ \A k \in 1..(n - 1 + 1) : SubSeq(q, 1, n)[k] = q[1 + k - 1]
      BY <3>1, SubSeqProperties
    <3>3. \A k \in 1..n : k \in 1..(n - 1 + 1) /\ 1 + k - 1 = k
      BY <3>1
    <3>4. Len(SubSeq(q, 1, n)) = n /\ \A k \in 1..n : SubSeq(q, 1, n)[k] = q[k]
      BY <3>1, <3>2, <3>3
    <3>5. QED
      BY <3>2, <3>4 DEF n
  <2>3. QED
    BY <1>1, <2>2 DEF Front, Last

\* lru_list_.remove: the pages behind p move up.
LEMMA RemovePageFacts ==
    ASSUME NEW q \in Seq(Pages), NEW j \in 1..Len(q), Distinct(q)
    PROVE  /\ RemovePage(q, q[j]) \in Seq(Pages)
           /\ Len(RemovePage(q, q[j])) = Len(q) - 1
           /\ \A k \in 1..(Len(q) - 1) :
                 RemovePage(q, q[j])[k] = IF k < j THEN q[k] ELSE q[k + 1]
<1>1. (CHOOSE k \in 1..Len(q) : q[k] = q[j]) = j
  BY DEF Distinct
<1>2. RemovePage(q, q[j]) = SubSeq(q, 1, j - 1) \o SubSeq(q, j + 1, Len(q))
  BY <1>1 DEF RemovePage, RemoveAt
<1>3. /\ SubSeq(q, 1, j - 1) \in Seq(Pages)
      /\ Len(SubSeq(q, 1, j - 1)) = j - 1
      /\ \A k \in 1..(j - 1) : SubSeq(q, 1, j - 1)[k] = q[k]
  OBVIOUS
<1>4. /\ SubSeq(q, j + 1, Len(q)) \in Seq(Pages)
      /\ Len(SubSeq(q, j + 1, Len(q))) = Len(q) - j
      /\ \A k \in 1..(Len(q) - j) : SubSeq(q, j + 1, Len(q))[k] = q[k + j]
  <2>1. Len(q) \in Nat /\ \A k \in 1..Len(q) : q[k] \in Pages
    OBVIOUS
  <2>2. QED
    BY <2>1, SubSeqProperties
<1>5. Len(q) \in Nat /\ j \in Nat /\ j <= Len(q)
  OBVIOUS
<1> DEFINE a == SubSeq(q, 1, j - 1)
<1> DEFINE b == SubSeq(q, j + 1, Len(q))
<1>6. /\ a \o b \in Seq(Pages)
      /\ Len(a \o b) = Len(q) - 1
      /\ \A k \in 1..(Len(q) - 1) : (a \o b)[k] = IF k <= j - 1 THEN a[k] ELSE b[k - (j - 1)]
  <2> HIDE DEF a, b
  <2>1. a \in Seq(Pages) /\ b \in Seq(Pages) /\ Len(a) = j - 1 /\ Len(b) = Len(q) - j
    BY <1>3, <1>4 DEF a, b
  <2>2. QED
    <3>1. /\ a \o b \in Seq(Pages)
          /\ Len(a \o b) = Len(a) + Len(b)
          /\ \A k \in 1..(Len(a) + Len(b)) :
                (a \o b)[k] = IF k <= Len(a) THEN a[k] ELSE b[k - Len(a)]
      BY <2>1, ConcatProperties
    <3>2. Len(a) + Len(b) = Len(q) - 1 /\ Len(a) = j - 1
      BY <1>5, <2>1
    <3>3. QED
      BY <3>1, <3>2
<1>7. \A k \in 1..(Len(q) - 1) : (a \o b)[k] = IF k < j THEN q[k] ELSE q[k + 1]
  <2> SUFFICES ASSUME NEW k \in 1..(Len(q) - 1)
               PROVE  (a \o b)[k] = IF k < j THEN q[k] ELSE q[k + 1]
    OBVIOUS
  <2>1. CASE k < j
    <3>1. k <= j - 1 /\ k \in 1..(j - 1)
      BY <1>5, <2>1
    <3>2. (a \o b)[k] = a[k] /\ a[k] = q[k]
      BY <1>3, <1>6, <3>1
    <3>3. QED
      BY <2>1, <3>2
  <2>2. CASE ~(k < j)
    <3>1. k - (j - 1) \in 1..(Len(q) - j) /\ k - (j - 1) + j = k + 1
      BY <1>5, <2>2
    <3>2. QED
      <4>1. ~(k <= j - 1)
        BY <1>5, <2>2
      <4>2. (a \o b)[k] = b[k - (j - 1)]
        BY <1>6, <4>1
      <4>3. b[k - (j - 1)] = q[k - (j - 1) + j]
        BY <1>4, <3>1
      <4>4. QED
        BY <2>2, <3>1, <4>2, <4>3
  <2>3. QED
    BY <2>1, <2>2
<1>8. QED
  BY <1>2, <1>6, <1>7

-----------------------------------------------------------------------------
(* What the operations on the two lists do to the replacement order.       *)

\* A page that comes in is the youngest: in front of the LRU list ...
LEMMA PushNew ==
    ASSUME NEW q \in Seq(Pages), NEW p \in Pages, NEW age \in [Pages -> Nat], NEW n \in Nat,
           ~InOrder(q, p), Distinct(q), Falling(q, age), \A x \in Pages : age[x] < n
    PROVE  /\ PushFront(q, p) \in Seq(Pages)
           /\ Distinct(PushFront(q, p))
           /\ \A x \in Pages : InOrder(PushFront(q, p), x) <=> InOrder(q, x) \/ x = p
           /\ Falling(PushFront(q, p), [age EXCEPT ![p] = n])
<1> DEFINE r == PushFront(q, p)
<1>1. /\ r \in Seq(Pages) /\ Len(r) = Len(q) + 1 /\ r[1] = p
      /\ \A k \in 1..Len(q) : r[k + 1] = q[k]
      /\ Len(q) \in Nat
      /\ \A k \in 1..Len(q) : q[k] \in Pages
  <2>1. Len(q) \in Nat /\ \A k \in 1..Len(q) : q[k] \in Pages
    OBVIOUS
  <2>2. QED
    BY <2>1, PushFrontFacts
<1> HIDE DEF r
<1>2. \A k \in 1..Len(r) : k # 1 => k - 1 \in 1..Len(q) /\ r[k] = q[k - 1]
  <2> SUFFICES ASSUME NEW k \in 1..Len(r), k # 1
               PROVE  k - 1 \in 1..Len(q) /\ r[k] = q[k - 1]
    OBVIOUS
  <2>1. k - 1 \in 1..Len(q) /\ k - 1 + 1 = k
    BY <1>1
  <2>2. QED
    BY <1>1, <2>1
<1>3. Distinct(r)
  <2> SUFFICES ASSUME NEW k \in 1..Len(r), NEW l \in 1..Len(r), r[k] = r[l]
               PROVE  k = l
    BY DEF Distinct
  <2>1. \A i \in 1..Len(q) : q[i] # p
    BY DEF InOrder
  <2>2. CASE k = 1 \/ l = 1
    BY <1>1, <1>2, <2>1, <2>2
  <2>3. CASE k # 1 /\ l # 1
    <3>1. k - 1 = l - 1
      BY <1>2, <2>3 DEF Distinct
    <3>2. QED
      BY <1>1, <3>1
  <2>4. QED
    BY <2>2, <2>3
<1>4. ASSUME NEW x \in Pages PROVE InOrder(r, x) <=> InOrder(q, x) \/ x = p
  <2>1. InOrder(r, x) => InOrder(q, x) \/ x = p
    <3> SUFFICES ASSUME NEW k \in 1..Len(r), r[k] = x, k # 1 PROVE InOrder(q, x)
      BY <1>1 DEF InOrder
    <3>1. k - 1 \in 1..Len(q) /\ q[k - 1] = x
      BY <1>2
    <3>2. QED
      BY <3>1 DEF InOrder
  <2>2. InOrder(q, x) => InOrder(r, x)
    <3> SUFFICES ASSUME NEW k \in 1..Len(q), q[k] = x PROVE InOrder(r, x)
      BY DEF InOrder
    <3>1. k + 1 \in 1..Len(r) /\ k + 1 # 1 /\ (k + 1) - 1 = k
      BY <1>1
    <3>2. r[k + 1] = x
      BY <1>2, <3>1
    <3>3. QED
      BY <3>1, <3>2 DEF InOrder
  <2>3. 1 \in 1..Len(r) /\ r[1] = p
    BY <1>1
  <2>4. QED
    BY <2>1, <2>2, <2>3 DEF InOrder
<1>5. Falling(r, [age EXCEPT ![p] = n])
  <2> SUFFICES ASSUME NEW k \in 1..Len(r), NEW l \in 1..Len(r), k < l
               PROVE  [age EXCEPT ![p] = n][r[k]] > [age EXCEPT ![p] = n][r[l]]
    BY DEF Falling
  <2>1. l # 1 /\ l - 1 \in 1..Len(q) /\ r[l] = q[l - 1] /\ r[l] # p /\ r[l] \in Pages
    <3>1. l # 1
      OBVIOUS
    <3>2. l - 1 \in 1..Len(q) /\ r[l] = q[l - 1]
      BY <1>2, <3>1
    <3>3. q[l - 1] \in Pages /\ q[l - 1] # p
      BY <3>2 DEF InOrder
    <3>4. QED
      BY <3>1, <3>2, <3>3
  <2>2. [age EXCEPT ![p] = n][r[l]] = age[r[l]]
    BY <2>1
  <2>3. CASE k = 1
    <3>1. [age EXCEPT ![p] = n][r[k]] = n
      BY <1>1, <2>3
    <3>2. age[r[l]] < n /\ age[r[l]] \in Nat
      BY <2>1
    <3>3. QED
      BY <2>2, <3>1, <3>2
  <2>4. CASE k # 1
    <3>1. k - 1 \in 1..Len(q) /\ r[k] = q[k - 1] /\ k - 1 < l - 1
      <4>1. k - 1 \in 1..Len(q) /\ r[k] = q[k - 1]
        BY <1>2, <2>4
      <4>2. k \in Int /\ l \in Int
        BY <1>1
      <4>3. QED
        BY <4>1, <4>2
    <3>2. r[k] # p /\ r[k] \in Pages
      BY <1>1, <3>1 DEF InOrder
    <3>3. [age EXCEPT ![p] = n][r[k]] = age[r[k]] /\ age[q[k - 1]] > age[q[l - 1]]
      BY <2>1, <3>1, <3>2 DEF Falling
    <3>4. QED
      BY <2>1, <2>2, <3>1, <3>3
  <2>5. QED
    BY <2>3, <2>4
<1>6. QED
  BY <1>1, <1>3, <1>4, <1>5 DEF r

\* ... or at the end of the FIFO queue.
LEMMA AppendNew ==
    ASSUME NEW q \in Seq(Pages), NEW p \in Pages, NEW age \in [Pages -> Nat], NEW n \in Nat,
           ~InOrder(q, p), Distinct(q), Rising(q, age), \A x \in Pages : age[x] < n
    PROVE  /\ Append(q, p) \in Seq(Pages)
           /\ Distinct(Append(q, p))
           /\ \A x \in Pages : InOrder(Append(q, p), x) <=> InOrder(q, x) \/ x = p
           /\ Rising(Append(q, p), [age EXCEPT ![p] = n])
<1> DEFINE r == Append(q, p)
<1>1. /\ r \in Seq(Pages) /\ Len(r) = Len(q) + 1 /\ r[Len(q) + 1] = p
      /\ \A k \in 1..Len(q) : r[k] = q[k]
      /\ Len(q) \in Nat
      /\ \A k \in 1..Len(q) : q[k] \in Pages
  OBVIOUS
<1> HIDE DEF r
<1>2. \A k \in 1..Len(r) : k = Len(q) + 1 \/ k \in 1..Len(q)
  BY <1>1
<1>3. Distinct(r)
  BY <1>1, <1>2 DEF Distinct, InOrder
<1>4. ASSUME NEW x \in Pages PROVE InOrder(r, x) <=> InOrder(q, x) \/ x = p
  <2>1. InOrder(r, x) => InOrder(q, x) \/ x = p
    BY <1>1, <1>2 DEF InOrder
  <2>2. \A k \in 1..Len(q) : k \in 1..Len(r) /\ r[k] = q[k]
    BY <1>1
  <2>3. Len(q) + 1 \in 1..Len(r) /\ r[Len(q) + 1] = p
    BY <1>1
  <2>4. QED
    BY <2>1, <2>2, <2>3 DEF InOrder
<1>5. Rising(r, [age EXCEPT ![p] = n])
  <2> SUFFICES ASSUME NEW k \in 1..Len(r), NEW l \in 1..Len(r), k < l
               PROVE  [age EXCEPT ![p] = n][r[k]] < [age EXCEPT ![p] = n][r[l]]
    BY DEF Rising
  <2>1. k \in 1..Len(q) /\ r[k] = q[k] /\ r[k] # p /\ r[k] \in Pages
    <3>1. k \in 1..Len(q)
      BY <1>1
    <3>2. QED
      BY <1>1, <3>1 DEF InOrder
  <2>2. [age EXCEPT ![p] = n][r[k]] = age[r[k]]
    BY <2>1
  <2>3. CASE l = Len(q) + 1
    BY <1>1, <2>1, <2>2, <2>3
  <2>4. CASE l \in 1..Len(q)
    <3>1. r[l] = q[l] /\ r[l] # p /\ r[l] \in Pages
      BY <1>1, <2>4 DEF InOrder
    <3>2. QED
      BY <2>1, <2>2, <2>4, <3>1 DEF Rising
  <2>5. QED
    BY <1>2, <2>3, <2>4
<1>6. QED
  BY <1>1, <1>3, <1>4, <1>5 DEF r

\* replaceLRU's pop_back.
LEMMA PopBack ==
    ASSUME NEW q \in Seq(Pages), q # << >>, NEW age \in [Pages -> Nat],
           Distinct(q), Falling(q, age)
    PROVE  /\ Front(q) \in Seq(Pages) /\ Last(q) \in Pages
           /\ Distinct(Front(q)) /\ Falling(Front(q), age)
           /\ \A x \in Pages : InOrder(Front(q), x) <=> InOrder(q, x) /\ x # Last(q)
           /\ InOrder(q, Last(q))
           /\ \A x \in Pages : InOrder(q, x) => age[Last(q)] <= age[x]
<1> DEFINE r == Front(q)
<1>1. /\ r \in Seq(Pages) /\ Len(r) = Len(q) - 1
      /\ \A k \in 1..Len(r) : r[k] = q[k]
      /\ Len(q) \in Nat \ {0} /\ Last(q) = q[Len(q)]
      /\ \A k \in 1..Len(q) : q[k] \in Pages
  BY FrontFacts
<1> HIDE DEF r
<1>2. \A k \in 1..Len(q) : k = Len(q) \/ k \in 1..Len(r)
  BY <1>1
<1>3. \A k \in 1..Len(r) : k \in 1..Len(q) /\ k # Len(q) /\ k < Len(q)
  BY <1>1
<1>4. Len(q) \in 1..Len(q)
  BY <1>1
<1>5. Distinct(r) /\ Falling(r, age)
  BY <1>1, <1>3 DEF Distinct, Falling
<1>6. \A x \in Pages : InOrder(r, x) <=> InOrder(q, x) /\ x # Last(q)
  BY <1>1, <1>2, <1>3, <1>4 DEF InOrder, Distinct
<1>7. \A x \in Pages : InOrder(q, x) => age[Last(q)] <= age[x]
  <2> SUFFICES ASSUME NEW k \in 1..Len(q) PROVE age[Last(q)] <= age[q[k]]
    BY DEF InOrder
  <2>1. age[q[k]] \in Nat
    BY <1>1
  <2>2. CASE k = Len(q)
    BY <1>1, <2>1, <2>2
  <2>3. CASE k \in 1..Len(r)
    <3>1. age[q[k]] > age[q[Len(q)]]
      BY <1>3, <1>4, <2>3 DEF Falling
    <3>2. age[q[Len(q)]] \in Nat
      BY <1>1, <1>4
    <3>3. QED
      BY <1>1, <2>1, <3>1, <3>2
  <2>4. QED
    BY <1>2, <2>2, <2>3
<1>8. QED
  BY <1>1, <1>4, <1>5, <1>6, <1>7 DEF r, InOrder

\* replaceFIFO's pop_front.
LEMMA PopFront ==
    ASSUME NEW q \in Seq(Pages), q # << >>, NEW age \in [Pages -> Nat],
           Distinct(q), Rising(q, age)
    PROVE  /\ Tail(q) \in Seq(Pages) /\ Head(q) \in Pages
           /\ Distinct(Tail(q)) /\ Rising(Tail(q), age)
           /\ \A x \in Pages : InOrder(Tail(q), x) <=> InOrder(q, x) /\ x # Head(q)
           /\ InOrder(q, Head(q))
           /\ \A x \in Pages : InOrder(q, x) => age[Head(q)] <= age[x]
<1> DEFINE r == Tail(q)
<1>1. /\ r \in Seq(Pages) /\ Len(r) = Len(q) - 1
      /\ \A k \in 1..Len(r) : r[k] = q[k + 1]
      /\ Len(q) \in Nat \ {0} /\ Head(q) = q[1]
      /\ \A k \in 1..Len(q) : q[k] \in Pages
  BY EmptySeq
<1> HIDE DEF r
<1>2. \A k \in 1..Len(q) : k = 1 \/ (k - 1 \in 1..Len(r) /\ r[k - 1] = q[k] /\ 1 < k)
  <2> SUFFICES ASSUME NEW k \in 1..Len(q), k # 1
               PROVE  k - 1 \in 1..Len(r) /\ r[k - 1] = q[k] /\ 1 < k
    OBVIOUS
  <2>1. k - 1 \in 1..Len(r) /\ k - 1 + 1 = k /\ 1 < k
    BY <1>1
  <2>2. QED
    BY <1>1, <2>1
<1>3. \A k \in 1..Len(r) : k + 1 \in 1..Len(q) /\ k + 1 # 1
  BY <1>1
<1>4. 1 \in 1..Len(q)
  BY <1>1
<1>5. Distinct(r) /\ Rising(r, age)
  <2> SUFFICES ASSUME NEW k \in 1..Len(r), NEW l \in 1..Len(r)
               PROVE  (r[k] = r[l] => k = l) /\ (k < l => age[r[k]] < age[r[l]])
    BY DEF Distinct, Rising
  <2>1. /\ k + 1 \in 1..Len(q) /\ l + 1 \in 1..Len(q) /\ r[k] = q[k + 1] /\ r[l] = q[l + 1]
        /\ k + 1 = l + 1 => k = l
        /\ k < l => k + 1 < l + 1
    BY <1>1, <1>3
  <2>2. QED
    BY <2>1 DEF Distinct, Rising
<1>6. ASSUME NEW x \in Pages PROVE InOrder(r, x) <=> InOrder(q, x) /\ x # Head(q)
  <2>1. InOrder(r, x) => InOrder(q, x) /\ x # Head(q)
    BY <1>1, <1>3, <1>4 DEF InOrder, Distinct
  <2>2. InOrder(q, x) /\ x # Head(q) => InOrder(r, x)
    BY <1>1, <1>2 DEF InOrder
  <2>3. QED
    BY <2>1, <2>2
<1>7. \A x \in Pages : InOrder(q, x) => age[Head(q)] <= age[x]
  BY <1>1, <1>2, <1>4 DEF InOrder, Rising
<1>8. QED
  BY <1>1, <1>4, <1>5, <1>6, <1>7 DEF r, InOrder

\* A hit's lru_list_.remove.
LEMMA TakeOut ==
    ASSUME NEW q \in Seq(Pages), NEW p \in Pages, InOrder(q, p), NEW age \in [Pages -> Nat],
           Distinct(q), Falling(q, age)
    PROVE  /\ RemovePage(q, p) \in Seq(Pages)
           /\ Distinct(RemovePage(q, p)) /\ Falling(RemovePage(q, p), age)
           /\ \A x \in Pages : InOrder(RemovePage(q, p), x) <=> InOrder(q, x) /\ x # p
<1> DEFINE r == RemovePage(q, p)
<1>1. PICK j \in 1..Len(q) : q[j] = p
  BY DEF InOrder
<1>2. /\ r \in Seq(Pages) /\ Len(r) = Len(q) - 1
      /\ \A k \in 1..Len(r) : r[k] = IF k < j THEN q[k] ELSE q[k + 1]
      /\ Len(q) \in Nat /\ j \in 1..Len(q)
      /\ \A k \in 1..Len(q) : q[k] \in Pages
  <2>1. Len(q) \in Nat /\ \A k \in 1..Len(q) : q[k] \in Pages
    OBVIOUS
  <2>2. QED
    BY <1>1, <2>1, RemovePageFacts
<1> HIDE DEF r
<1> DEFINE from(k) == IF k < j THEN k ELSE k + 1
<1>3. \A k \in 1..Len(r) : from(k) \in 1..Len(q) /\ r[k] = q[from(k)] /\ from(k) # j
  <2> SUFFICES ASSUME NEW k \in 1..Len(r)
               PROVE  from(k) \in 1..Len(q) /\ r[k] = q[from(k)] /\ from(k) # j
    OBVIOUS
  <2>1. CASE k < j
    BY <1>2, <2>1
  <2>2. CASE ~(k < j)
    <3>1. k + 1 \in 1..Len(q) /\ k + 1 # j
      BY <1>2, <2>2
    <3>2. QED
      BY <1>2, <2>2, <3>1
  <2>3. QED
    BY <2>1, <2>2
<1>4. \A k, l \in 1..Len(r) : k < l => from(k) < from(l)
  <2>1. \A k \in 1..Len(r) : k \in Int
    OBVIOUS
  <2>2. j \in Int
    OBVIOUS
  <2>3. QED
    BY <2>1, <2>2
<1>5. \A k \in 1..Len(q) : k # j => \E l \in 1..Len(r) : from(l) = k
  <2> SUFFICES ASSUME NEW k \in 1..Len(q), k # j PROVE \E l \in 1..Len(r) : from(l) = k
    OBVIOUS
  <2>1. CASE k < j
    <3>1. k \in 1..Len(r) /\ from(k) = k
      BY <1>2, <2>1
    <3>2. QED
      BY <3>1
  <2>2. CASE k > j
    <3>1. k - 1 \in 1..Len(r) /\ from(k - 1) = k
      BY <1>2, <2>2
    <3>2. QED
      BY <3>1
  <2>3. QED
    BY <1>2, <2>1, <2>2
<1> HIDE DEF from
<1>6. Falling(r, age)
  BY <1>3, <1>4 DEF Falling
<1>7. Distinct(r)
  <2>1. \A k, l \in 1..Len(r) : k # l => k < l \/ l < k
    BY <1>2
  <2>2. \A k, l \in 1..Len(r) : k < l => from(k) # from(l)
    BY <1>2, <1>3, <1>4
  <2>3. QED
    BY <1>3, <2>1, <2>2 DEF Distinct
<1>8. \A x \in Pages : InOrder(r, x) <=> InOrder(q, x) /\ x # p
  <2> SUFFICES ASSUME NEW x \in Pages PROVE InOrder(r, x) <=> InOrder(q, x) /\ x # p
    OBVIOUS
  <2>1. InOrder(r, x) => InOrder(q, x) /\ x # p
    BY <1>1, <1>3 DEF InOrder, Distinct
  <2>2. InOrder(q, x) /\ x # p => InOrder(r, x)
    BY <1>1, <1>3, <1>5 DEF InOrder
  <2>3. QED
    BY <2>1, <2>2
<1>9. QED
  BY <1>2, <1>6, <1>7, <1>8 DEF r

-----------------------------------------------------------------------------
(* The inductive invariant.                                                *)

\* The part of TablesAgree about the page table and the frames.
TablesOK ==
    /\ \A p \in Pages : valid[p] => frame_id[p] \in Frames /\ frames[frame_id[p]] = p
    /\ \A p \in Pages : ~valid[p] => frame_id[p] = None
    /\ \A f \in Frames : frames[f] # None => valid[frames[f]] /\ frame_id[frames[f]] = f
    /\ \A f \in Frames : frames[f] # None <=> f < page_faults

\* The order in force holds the valid pages, sorted by the time that counts.
FIFOOrder ==
    /\ lru_list = << >> /\ Distinct(fifo_queue) /\ Rising(fifo_queue, loaded_at)
    /\ \A p \in Pages : valid[p] <=> InOrder(fifo_queue, p)
LRUOrder ==
    /\ fifo_queue = << >> /\ Distinct(lru_list) /\ Falling(lru_list, used_at)
    /\ \A p \in Pages : valid[p] <=> InOrder(lru_list, p)
OrderOK == (algo = "FIFO" => FIFOOrder) /\ (algo = "LRU" => LRUOrder)

\* No page was loaded or used in the future.
TimesOK == \A p \in Pages : loaded_at[p] <= total_accesses /\ used_at[p] <= total_accesses

MemoryInv == VmTypeOK /\ TablesOK /\ OrderOK /\ TimesOK

\* Page p moves into frame f, which is the first free one, or that of the
\* victim when none is free.
LEMMA InstallTables ==
    ASSUME VmTypeOK, TablesOK, NEW p \in Pages, ~valid[p], NEW f \in Frames, NEW victims,
           Install(p, f, victims),
           \/ /\ victims = {} /\ FreeFrame(f)
              /\ \A g \in Frames : g < f => ~FreeFrame(g)
           \/ /\ \E v \in Pages : victims = {v} /\ valid[v] /\ frame_id[v] = f
              /\ \A g \in Frames : ~FreeFrame(g)
    PROVE  /\ TablesOK'
           /\ valid' \in [Pages -> BOOLEAN]
           /\ frame_id' \in [Pages -> Frames \union {None}]
           /\ frames' \in [Frames -> Pages \union {None}]
           /\ page_faults' \in Nat
           /\ \A q \in Pages : valid'[q] <=> (valid[q] /\ q \notin victims) \/ q = p
<1>1. /\ valid \in [Pages -> BOOLEAN] /\ frame_id \in [Pages -> Frames \union {None}]
      /\ frames \in [Frames -> Pages \union {None}] /\ page_faults \in Nat
  BY DEF VmTypeOK
<1>2. \A x \in Pages : x \in Nat /\ x # None
  BY VirtualMemoryAssumption DEF Pages, None
<1>3. \A g \in Frames : g \in Nat
  BY VirtualMemoryAssumption DEF Frames
<1>4. /\ \A q \in Pages : valid'[q] <=> (valid[q] /\ q \notin victims) \/ q = p
      /\ \A q \in Pages : frame_id'[q] = IF q = p THEN f
                                         ELSE IF q \in victims THEN None ELSE frame_id[q]
      /\ \A g \in Frames : frames'[g] = IF g = f THEN p ELSE frames[g]
      /\ page_faults' = page_faults + 1
  BY <1>1 DEF Install
<1>5. /\ valid' \in [Pages -> BOOLEAN]
      /\ frame_id' \in [Pages -> Frames \union {None}]
      /\ frames' \in [Frames -> Pages \union {None}]
  BY <1>1 DEF Install
<1>6. \A q \in Pages : q \in victims => valid[q] /\ frame_id[q] = f
  OBVIOUS
<1>7. \A q \in Pages : valid[q] /\ frame_id[q] = f => q \in victims
  BY <1>2 DEF TablesOK, FreeFrame
<1>8. \A q \in Pages : valid'[q] => frame_id'[q] \in Frames /\ frames'[frame_id'[q]] = q
  BY <1>4, <1>7 DEF TablesOK
<1>9. \A q \in Pages : ~valid'[q] => frame_id'[q] = None
  BY <1>4 DEF TablesOK
<1>10. ASSUME NEW g \in Frames, frames'[g] # None
       PROVE  valid'[frames'[g]] /\ frame_id'[frames'[g]] = g
  <2>1. CASE g = f
    BY <1>4, <2>1
  <2>2. CASE g # f
    <3>1. /\ frames'[g] = frames[g] /\ frames[g] \in Pages
          /\ valid[frames[g]] /\ frame_id[frames[g]] = g
      BY <1>1, <1>4, <1>10, <2>2 DEF TablesOK
    <3>2. frames[g] \notin victims /\ frames[g] # p
      BY <1>6, <2>2, <3>1
    <3>3. QED
      BY <1>4, <3>1, <3>2
  <2>3. QED
    BY <2>1, <2>2
<1>11. ASSUME NEW g \in Frames PROVE frames'[g] # None <=> g < page_faults'
  <2>1. CASE \A h \in Frames : ~FreeFrame(h)
    BY <1>1, <1>2, <1>3, <1>4, <2>1 DEF TablesOK, FreeFrame
  <2>2. CASE FreeFrame(f) /\ \A h \in Frames : h < f => ~FreeFrame(h)
    <3>1. f = page_faults
      <4>1. f >= page_faults /\ f \in Nat /\ f < NumFrames
        BY <1>1, <1>3, <2>2, VirtualMemoryAssumption DEF TablesOK, FreeFrame, Frames
      <4>2. CASE page_faults < f
        <5>1. page_faults \in Frames /\ page_faults \in Nat
          BY <1>1, <4>1, <4>2, VirtualMemoryAssumption DEF Frames
        <5>2. ~FreeFrame(page_faults)
          BY <2>2, <4>2, <5>1
        <5>3. page_faults < page_faults
          BY <5>1, <5>2 DEF TablesOK, FreeFrame
        <5>4. QED
          BY <5>1, <5>3
      <4>3. QED
        BY <1>1, <4>1, <4>2
    <3>2. CASE g = f
      BY <1>1, <1>2, <1>4, <3>1, <3>2
    <3>3. CASE g # f
      BY <1>1, <1>3, <1>4, <3>1, <3>3 DEF TablesOK
    <3>4. QED
      BY <3>2, <3>3
  <2>3. QED
    BY <2>1, <2>2
<1>12. QED
  BY <1>1, <1>4, <1>5, <1>8, <1>9, <1>10, <1>11 DEF TablesOK

\* The tables start empty, and so do the two lists.
LEMMA EmptyTables ==
    ASSUME VmInit PROVE MemoryInv
<1>1. VmTypeOK
  BY VirtualMemoryAssumption DEF VmInit, VmTypeOK
<1>2. TablesOK
  <2>1. \A f \in Frames : f \in Nat
    BY VirtualMemoryAssumption DEF Frames
  <2>2. QED
    BY <2>1 DEF VmInit, TablesOK
<1>3. Len(<< >>) = 0 /\ \A k \in 1..0 : FALSE
  OBVIOUS
<1>4. OrderOK
  BY <1>3 DEF VmInit, OrderOK, FIFOOrder, LRUOrder, Distinct, Rising, Falling, InOrder
<1>5. TimesOK
  BY DEF VmInit, TimesOK
<1>6. QED
  BY <1>1, <1>2, <1>4, <1>5 DEF MemoryInv

\* reset() empties them again.
LEMMA ResetTables ==
    ASSUME MemoryInv, NEW a \in PageReplaceAlgo, SetAlgorithm(a) PROVE MemoryInv'
<1>1. VmTypeOK'
  BY VirtualMemoryAssumption DEF SetAlgorithm, Reset, VmTypeOK
<1>2. TablesOK'
  <2>1. \A f \in Frames : f \in Nat
    BY VirtualMemoryAssumption DEF Frames
  <2>2. QED
    BY <2>1 DEF SetAlgorithm, Reset, TablesOK
<1>3. Len(<< >>) = 0 /\ \A k \in 1..0 : FALSE
  OBVIOUS
<1>4. OrderOK'
  BY <1>3 DEF SetAlgorithm, Reset, OrderOK, FIFOOrder, LRUOrder, Distinct, Rising, Falling, InOrder
<1>5. TimesOK'
  BY DEF SetAlgorithm, Reset, TimesOK
<1>6. QED
  BY <1>1, <1>2, <1>4, <1>5 DEF MemoryInv

\* What every access does to the clock and to the times of use.
LEMMA AccessTimes ==
    ASSUME MemoryInv, NEW p \in Pages, AccessPage(p)
    PROVE  /\ total_accesses \in Nat /\ total_accesses' = total_accesses + 1
           /\ used_at \in [Pages -> Nat] /\ loaded_at \in [Pages -> Nat]
           /\ used_at' = [used_at EXCEPT ![p] = total_accesses + 1]
           /\ used_at' \in [Pages -> Nat]
           /\ \A x \in Pages : used_at[x] < total_accesses + 1 /\ loaded_at[x] < total_accesses + 1
           /\ \A x \in Pages : used_at'[x] <= total_accesses'
           /\ algo' = algo /\ algo \in PageReplaceAlgo
<1>1. /\ total_accesses \in Nat /\ total_accesses' = total_accesses + 1
      /\ used_at \in [Pages -> Nat] /\ loaded_at \in [Pages -> Nat]
      /\ used_at' = [used_at EXCEPT ![p] = total_accesses + 1]
      /\ algo' = algo /\ algo \in PageReplaceAlgo
      /\ \A x \in Pages : loaded_at[x] <= total_accesses /\ used_at[x] <= total_accesses
  BY DEF MemoryInv, VmTypeOK, TimesOK, AccessPage
<1>2. \A x \in Pages : used_at[x] < total_accesses + 1 /\ loaded_at[x] < total_accesses + 1
  BY <1>1
<1>3. used_at' \in [Pages -> Nat]
  BY <1>1
<1>4. \A x \in Pages : used_at'[x] <= total_accesses'
  BY <1>1
<1>5. QED
  BY <1>1, <1>2, <1>3, <1>4

\* The page was there: under LRU it moves to the front of the list.
LEMMA HitKeeps ==
    ASSUME MemoryInv, NEW p \in Pages, AccessPage(p), Hit(p) PROVE MemoryInv'
<1>1. /\ valid[p]
      /\ lru_list' = IF algo = "LRU" THEN PushFront(RemovePage(lru_list, p), p) ELSE lru_list
      /\ fifo_queue' = fifo_queue /\ valid' = valid /\ frame_id' = frame_id /\ frames' = frames
      /\ page_faults' = page_faults /\ loaded_at' = loaded_at
  BY DEF Hit, table_vars
<1>2. TablesOK'
  BY <1>1 DEF MemoryInv, TablesOK
<1>3. CASE algo = "FIFO"
  <2>1. lru_list' = lru_list /\ algo' = "FIFO"
    BY <1>1, <1>3, AccessTimes
  <2>2. FIFOOrder
    BY <1>3 DEF MemoryInv, OrderOK
  <2>3. OrderOK' /\ lru_list' \in Seq(Pages)
    BY <1>1, <2>1, <2>2 DEF MemoryInv, VmTypeOK, OrderOK, FIFOOrder, Distinct, Rising, InOrder
  <2>4. QED
    BY <1>1, <1>2, <2>1, <2>3, AccessTimes DEF MemoryInv, VmTypeOK, TimesOK
<1>4. CASE algo = "LRU"
  <2> DEFINE r == RemovePage(lru_list, p)
  <2>1. /\ lru_list \in Seq(Pages) /\ fifo_queue = << >>
        /\ Distinct(lru_list) /\ Falling(lru_list, used_at)
        /\ \A x \in Pages : valid[x] <=> InOrder(lru_list, x)
    BY <1>4 DEF MemoryInv, VmTypeOK, OrderOK, LRUOrder
  <2>2. /\ r \in Seq(Pages) /\ Distinct(r) /\ Falling(r, used_at)
        /\ \A x \in Pages : InOrder(r, x) <=> InOrder(lru_list, x) /\ x # p
    BY <1>1, <2>1, AccessTimes, TakeOut
  <2> HIDE DEF r
  <2>3. lru_list' = PushFront(r, p)
    BY <1>1, <1>4 DEF r
  <2>4. /\ lru_list' \in Seq(Pages) /\ Distinct(lru_list')
        /\ \A x \in Pages : InOrder(lru_list', x) <=> InOrder(r, x) \/ x = p
        /\ Falling(lru_list', used_at')
    <3>1. /\ ~InOrder(r, p) /\ \A x \in Pages : used_at[x] < total_accesses + 1
          /\ used_at \in [Pages -> Nat] /\ total_accesses + 1 \in Nat
          /\ used_at' = [used_at EXCEPT ![p] = total_accesses + 1]
      BY <2>2, AccessTimes
    <3>2. QED
      BY <2>2, <2>3, <3>1, PushNew
  <2>5. \A x \in Pages : valid'[x] <=> InOrder(lru_list', x)
    BY <1>1, <2>1, <2>2, <2>4
  <2>6. algo' = "LRU" /\ fifo_queue' = << >>
    BY <1>1, <1>4, <2>1, AccessTimes
  <2>7. OrderOK'
    BY <2>4, <2>5, <2>6 DEF OrderOK, LRUOrder
  <2>8. QED
    BY <1>1, <1>2, <2>4, <2>6, <2>7, AccessTimes DEF MemoryInv, VmTypeOK, TimesOK
<1>5. QED
  BY <1>3, <1>4, AccessTimes DEF PageReplaceAlgo

\* A free frame takes the page.
LEMMA LoadKeeps ==
    ASSUME MemoryInv, NEW p \in Pages, AccessPage(p), LoadFree(p) PROVE MemoryInv'
<1>1. PICK f \in Frames : /\ FreeFrame(f) /\ \A g \in Frames : g < f => ~FreeFrame(g)
                          /\ Install(p, f, {})
  BY DEF LoadFree
<1>2. ~valid[p] /\ VmTypeOK /\ TablesOK
  BY DEF LoadFree, MemoryInv
<1>3. /\ TablesOK'
      /\ valid' \in [Pages -> BOOLEAN]
      /\ frame_id' \in [Pages -> Frames \union {None}]
      /\ frames' \in [Frames -> Pages \union {None}]
      /\ page_faults' \in Nat
      /\ \A q \in Pages : valid'[q] <=> valid[q] \/ q = p
  BY <1>1, <1>2, InstallTables
<1>4. loaded_at' = [loaded_at EXCEPT ![p] = total_accesses + 1]
  BY <1>1 DEF Install
<1>5. TimesOK' /\ loaded_at' \in [Pages -> Nat] /\ total_accesses + 1 \in Nat
  BY <1>4, AccessTimes DEF TimesOK
<1>6. CASE algo = "FIFO"
  <2>1. fifo_queue' = Append(fifo_queue, p) /\ lru_list' = lru_list /\ algo' = "FIFO"
    BY <1>6, AccessTimes DEF LoadFree
  <2>2. /\ fifo_queue \in Seq(Pages) /\ lru_list = << >>
        /\ Distinct(fifo_queue) /\ Rising(fifo_queue, loaded_at)
        /\ \A x \in Pages : valid[x] <=> InOrder(fifo_queue, x)
    BY <1>6 DEF MemoryInv, VmTypeOK, OrderOK, FIFOOrder
  <2>3. ~InOrder(fifo_queue, p) /\ \A x \in Pages : loaded_at[x] < total_accesses + 1
    BY <1>2, <2>2, AccessTimes
  <2>4. /\ fifo_queue' \in Seq(Pages) /\ Distinct(fifo_queue')
        /\ \A x \in Pages : InOrder(fifo_queue', x) <=> InOrder(fifo_queue, x) \/ x = p
        /\ Rising(fifo_queue', loaded_at')
    BY <1>4, <1>5, <2>1, <2>2, <2>3, AccessTimes, AppendNew
  <2>5. OrderOK'
    BY <1>3, <2>1, <2>2, <2>4 DEF OrderOK, FIFOOrder
  <2>6. lru_list' \in Seq(Pages)
    BY <2>1 DEF MemoryInv, VmTypeOK
  <2>7. VmTypeOK'
    BY <1>3, <1>5, <2>4, <2>6, AccessTimes DEF VmTypeOK
  <2>8. QED
    BY <1>3, <1>5, <2>5, <2>7 DEF MemoryInv
<1>7. CASE algo = "LRU"
  <2>1. lru_list' = PushFront(lru_list, p) /\ fifo_queue' = fifo_queue /\ algo' = "LRU"
    BY <1>7, AccessTimes DEF LoadFree
  <2>2. /\ lru_list \in Seq(Pages) /\ fifo_queue = << >>
        /\ Distinct(lru_list) /\ Falling(lru_list, used_at)
        /\ \A x \in Pages : valid[x] <=> InOrder(lru_list, x)
    BY <1>7 DEF MemoryInv, VmTypeOK, OrderOK, LRUOrder
  <2>3. ~InOrder(lru_list, p) /\ \A x \in Pages : used_at[x] < total_accesses + 1
    BY <1>2, <2>2, AccessTimes
  <2>4. /\ lru_list' \in Seq(Pages) /\ Distinct(lru_list')
        /\ \A x \in Pages : InOrder(lru_list', x) <=> InOrder(lru_list, x) \/ x = p
        /\ Falling(lru_list', used_at')
    <3>1. /\ used_at \in [Pages -> Nat]
          /\ used_at' = [used_at EXCEPT ![p] = total_accesses + 1]
      BY AccessTimes
    <3>2. /\ PushFront(lru_list, p) \in Seq(Pages) /\ Distinct(PushFront(lru_list, p))
          /\ \A x \in Pages : InOrder(PushFront(lru_list, p), x) <=> InOrder(lru_list, x) \/ x = p
          /\ Falling(PushFront(lru_list, p), [used_at EXCEPT ![p] = total_accesses + 1])
      BY <1>5, <2>2, <2>3, <3>1, PushNew
    <3>3. QED
      BY <2>1, <3>1, <3>2
  <2>5. OrderOK'
    BY <1>3, <2>1, <2>2, <2>4 DEF OrderOK, LRUOrder
  <2>6. fifo_queue' \in Seq(Pages)
    BY <2>1 DEF MemoryInv, VmTypeOK
  <2>7. VmTypeOK'
    BY <1>3, <1>5, <2>4, <2>6, AccessTimes DEF VmTypeOK
  <2>8. QED
    BY <1>3, <1>5, <2>5, <2>7 DEF MemoryInv
<1>8. QED
  BY <1>6, <1>7, AccessTimes DEF PageReplaceAlgo

-----------------------------------------------------------------------------
(* Replacement.                                                            *)

\* With no free frame some page is valid, so the order in force has a victim.
LEMMA VictimExists ==
    ASSUME MemoryInv, \A f \in Frames : ~FreeFrame(f)
    PROVE  \E v \in Pages : valid[v]
<1>1. 0 \in Frames
  BY VirtualMemoryAssumption DEF Frames
<1>2. frames[0] # None /\ frames[0] \in Pages \union {None}
  BY <1>1 DEF FreeFrame, MemoryInv, VmTypeOK
<1>3. QED
  BY <1>1, <1>2 DEF MemoryInv, TablesOK

\* What replaceFIFO does: the head of the queue was the page loaded first, and
\* it is the only one that goes.
LEMMA ReplaceFIFOFacts ==
    ASSUME MemoryInv, NEW p \in Pages, AccessPage(p), ReplaceFIFO(p)
    PROVE  /\ MemoryInv'
           /\ Head(fifo_queue) \in Pages
           /\ \A q \in Pages : valid[q] => loaded_at[Head(fifo_queue)] <= loaded_at[q]
           /\ \A q \in Pages : valid[q] /\ q # Head(fifo_queue) => valid'[q]
<1> DEFINE v == Head(fifo_queue)
<1>1. /\ ~valid[p] /\ algo = "FIFO" /\ algo' = "FIFO" /\ \A f \in Frames : ~FreeFrame(f)
      /\ Install(p, frame_id[v], {v})
      /\ fifo_queue' = Append(Tail(fifo_queue), p) /\ lru_list' = lru_list
  BY AccessTimes DEF ReplaceFIFO
<1>2. /\ fifo_queue \in Seq(Pages) /\ lru_list = << >> /\ loaded_at \in [Pages -> Nat]
      /\ Distinct(fifo_queue) /\ Rising(fifo_queue, loaded_at)
      /\ \A x \in Pages : valid[x] <=> InOrder(fifo_queue, x)
  BY <1>1 DEF MemoryInv, VmTypeOK, OrderOK, FIFOOrder
<1>3. fifo_queue # << >>
  <2>1. PICK x \in Pages : InOrder(fifo_queue, x)
    BY <1>1, <1>2, VictimExists
  <2>2. QED
    BY <2>1 DEF InOrder
<1> DEFINE r == Tail(fifo_queue)
<1>4. /\ r \in Seq(Pages) /\ v \in Pages /\ Distinct(r) /\ Rising(r, loaded_at)
      /\ \A x \in Pages : InOrder(r, x) <=> InOrder(fifo_queue, x) /\ x # v
      /\ InOrder(fifo_queue, v)
      /\ \A x \in Pages : InOrder(fifo_queue, x) => loaded_at[v] <= loaded_at[x]
  BY <1>2, <1>3, PopFront
<1> HIDE DEF v, r
<1>5. valid[v] /\ frame_id[v] \in Frames
  BY <1>2, <1>4 DEF MemoryInv, TablesOK
<1>6. /\ TablesOK'
      /\ valid' \in [Pages -> BOOLEAN]
      /\ frame_id' \in [Pages -> Frames \union {None}]
      /\ frames' \in [Frames -> Pages \union {None}]
      /\ page_faults' \in Nat
      /\ \A q \in Pages : valid'[q] <=> (valid[q] /\ q \notin {v}) \/ q = p
  <2>1. VmTypeOK /\ TablesOK
    BY DEF MemoryInv
  <2>2. QED
    BY <1>1, <1>4, <1>5, <2>1, InstallTables
<1>7. loaded_at' = [loaded_at EXCEPT ![p] = total_accesses + 1]
  BY <1>1 DEF Install
<1>8. TimesOK' /\ loaded_at' \in [Pages -> Nat] /\ total_accesses + 1 \in Nat
  BY <1>7, AccessTimes DEF TimesOK
<1>9. /\ fifo_queue' \in Seq(Pages) /\ Distinct(fifo_queue')
      /\ \A x \in Pages : InOrder(fifo_queue', x) <=> InOrder(r, x) \/ x = p
      /\ Rising(fifo_queue', loaded_at')
  <2>1. ~InOrder(r, p) /\ \A x \in Pages : loaded_at[x] < total_accesses + 1
    BY <1>1, <1>2, <1>4, AccessTimes
  <2>2. fifo_queue' = Append(r, p)
    BY <1>1 DEF r
  <2>3. /\ Append(r, p) \in Seq(Pages) /\ Distinct(Append(r, p))
        /\ \A x \in Pages : InOrder(Append(r, p), x) <=> InOrder(r, x) \/ x = p
        /\ Rising(Append(r, p), [loaded_at EXCEPT ![p] = total_accesses + 1])
    BY <1>2, <1>4, <1>8, <2>1, AppendNew
  <2>4. QED
    BY <1>7, <2>2, <2>3
<1>10. \A x \in Pages : valid'[x] <=> InOrder(fifo_queue', x)
  BY <1>2, <1>4, <1>6, <1>9
<1>11. OrderOK'
  BY <1>1, <1>2, <1>9, <1>10 DEF OrderOK, FIFOOrder
<1>12. lru_list' \in Seq(Pages)
  BY <1>1 DEF MemoryInv, VmTypeOK
<1>13. VmTypeOK'
  BY <1>6, <1>8, <1>9, <1>12, AccessTimes DEF VmTypeOK
<1>14. \A q \in Pages : valid[q] => loaded_at[v] <= loaded_at[q]
  BY <1>2, <1>4
<1>15. \A q \in Pages : valid[q] /\ q # v => valid'[q]
  BY <1>6
<1>16. QED
  BY <1>4, <1>6, <1>8, <1>11, <1>13, <1>14, <1>15 DEF MemoryInv, v

\* What replaceLRU does: the back of the list was the page not used for the
\* longest time, and it is the only one that goes.
LEMMA ReplaceLRUFacts ==
    ASSUME MemoryInv, NEW p \in Pages, AccessPage(p), ReplaceLRU(p)
    PROVE  /\ MemoryInv'
           /\ Last(lru_list) \in Pages
           /\ \A q \in Pages : valid[q] => used_at[Last(lru_list)] <= used_at[q]
           /\ \A q \in Pages : valid[q] /\ q # Last(lru_list) => valid'[q]
<1> DEFINE v == Last(lru_list)
<1>1. /\ ~valid[p] /\ algo = "LRU" /\ algo' = "LRU" /\ \A f \in Frames : ~FreeFrame(f)
      /\ Install(p, frame_id[v], {v})
      /\ lru_list' = PushFront(Front(lru_list), p) /\ fifo_queue' = fifo_queue
  BY AccessTimes DEF ReplaceLRU
<1>2. /\ lru_list \in Seq(Pages) /\ fifo_queue = << >> /\ used_at \in [Pages -> Nat]
      /\ Distinct(lru_list) /\ Falling(lru_list, used_at)
      /\ \A x \in Pages : valid[x] <=> InOrder(lru_list, x)
  BY <1>1 DEF MemoryInv, VmTypeOK, OrderOK, LRUOrder
<1>3. lru_list # << >>
  <2>1. PICK x \in Pages : InOrder(lru_list, x)
    BY <1>1, <1>2, VictimExists
  <2>2. QED
    BY <2>1 DEF InOrder
<1> DEFINE r == Front(lru_list)
<1>4. /\ r \in Seq(Pages) /\ v \in Pages /\ Distinct(r) /\ Falling(r, used_at)
      /\ \A x \in Pages : InOrder(r, x) <=> InOrder(lru_list, x) /\ x # v
      /\ InOrder(lru_list, v)
      /\ \A x \in Pages : InOrder(lru_list, x) => used_at[v] <= used_at[x]
  BY <1>2, <1>3, PopBack
<1> HIDE DEF v, r
<1>5. valid[v] /\ frame_id[v] \in Frames
  BY <1>2, <1>4 DEF MemoryInv, TablesOK
<1>6. /\ TablesOK'
      /\ valid' \in [Pages -> BOOLEAN]
      /\ frame_id' \in [Pages -> Frames \union {None}]
      /\ frames' \in [Frames -> Pages \union {None}]
      /\ page_faults' \in Nat
      /\ \A q \in Pages : valid'[q] <=> (valid[q] /\ q \notin {v}) \/ q = p
  <2>1. VmTypeOK /\ TablesOK
    BY DEF MemoryInv
  <2>2. QED
    BY <1>1, <1>4, <1>5, <2>1, InstallTables
<1>7. loaded_at' = [loaded_at EXCEPT ![p] = total_accesses + 1]
  BY <1>1 DEF Install
<1>8. TimesOK' /\ loaded_at' \in [Pages -> Nat] /\ total_accesses + 1 \in Nat
  BY <1>7, AccessTimes DEF TimesOK
<1>9. /\ lru_list' \in Seq(Pages) /\ Distinct(lru_list')
      /\ \A x \in Pages : InOrder(lru_list', x) <=> InOrder(r, x) \/ x = p
      /\ Falling(lru_list', used_at')
  <2>1. ~InOrder(r, p) /\ \A x \in Pages : used_at[x] < total_accesses + 1
    BY <1>1, <1>2, <1>4, AccessTimes
  <2>2. lru_list' = PushFront(r, p) /\ used_at' = [used_at EXCEPT ![p] = total_accesses + 1]
    BY <1>1, AccessTimes DEF r
  <2>3. /\ PushFront(r, p) \in Seq(Pages) /\ Distinct(PushFront(r, p))
        /\ \A x \in Pages : InOrder(PushFront(r, p), x) <=> InOrder(r, x) \/ x = p
        /\ Falling(PushFront(r, p), [used_at EXCEPT ![p] = total_accesses + 1])
    BY <1>2, <1>4, <1>8, <2>1, PushNew
  <2>4. QED
    BY <2>2, <2>3
<1>10. \A x \in Pages : valid'[x] <=> InOrder(lru_list', x)
  BY <1>2, <1>4, <1>6, <1>9
<1>11. OrderOK'
  BY <1>1, <1>2, <1>9, <1>10 DEF OrderOK, LRUOrder
<1>12. fifo_queue' \in Seq(Pages)
  BY <1>1 DEF MemoryInv, VmTypeOK
<1>13. VmTypeOK'
  BY <1>6, <1>8, <1>9, <1>12, AccessTimes DEF VmTypeOK
<1>14. \A q \in Pages : valid[q] => used_at[v] <= used_at[q]
  BY <1>2, <1>4
<1>15. \A q \in Pages : valid[q] /\ q # v => valid'[q]
  BY <1>6
<1>16. QED
  BY <1>4, <1>6, <1>8, <1>11, <1>13, <1>14, <1>15 DEF MemoryInv, v

-----------------------------------------------------------------------------
(* The theorems.                                                           *)

\* Every step keeps the inductive invariant.
LEMMA MemoryStep ==
    ASSUME MemoryInv, [VmNext]_vm_vars PROVE MemoryInv'
<1>1. ASSUME NEW p \in Pages, AccessPage(p) PROVE MemoryInv'
  <2>1. Hit(p) \/ LoadFree(p) \/ ReplaceFIFO(p) \/ ReplaceLRU(p)
    BY <1>1 DEF AccessPage
  <2>2. QED
    BY <1>1, <2>1, HitKeeps, LoadKeeps, ReplaceFIFOFacts, ReplaceLRUFacts
<1>2. ASSUME NEW a \in PageReplaceAlgo, SetAlgorithm(a) PROVE MemoryInv'
  BY <1>2, ResetTables
<1>3. ASSUME UNCHANGED vm_vars PROVE MemoryInv'
  BY <1>3 DEF MemoryInv, VmTypeOK, TablesOK, OrderOK, FIFOOrder, LRUOrder, Distinct, Rising,
              Falling, InOrder, TimesOK, FreeFrame, vm_vars, table_vars, order_vars, count_vars,
              time_vars
<1>4. QED
  BY <1>1, <1>2, <1>3 DEF VmNext

\* The inductive invariant: the page table, the frames and the order agree, and
\* the order is sorted by the time that decides.
THEOREM MemoryInvariant == VmSpec => []MemoryInv
<1>1. VmInit => MemoryInv
  BY EmptyTables
<1>2. MemoryInv /\ [VmNext]_vm_vars => MemoryInv'
  BY MemoryStep
<1>3. QED
  BY <1>1, <1>2, PTL DEF VmSpec

\* Type correctness of the page table, the frames, the lists and the counters
\* (PageTableEntry, frames_, fifo_queue_, lru_list_ in virtual_memory.h).
THEOREM MemoryTypes == VmSpec => []VmTypeOK
<1>1. MemoryInv => VmTypeOK
  BY DEF MemoryInv
<1>2. QED
  BY <1>1, MemoryInvariant, PTL

\* accessPage, replaceFIFO, replaceLRU and reset keep the page table, the frames
\* and the order in force in agreement: a page is valid exactly if its frame
\* holds it and exactly if the order lists it, once.
THEOREM MemoryTablesAgree == VmSpec => []TablesAgree
<1>1. MemoryInv => TablesAgree
  <2> SUFFICES ASSUME MemoryInv PROVE TablesAgree
    OBVIOUS
  <2>1. CASE algo = "FIFO"
    BY <2>1 DEF MemoryInv, TablesOK, OrderOK, FIFOOrder, Order, Distinct, InOrder, TablesAgree
  <2>2. CASE algo = "LRU"
    BY <2>2 DEF MemoryInv, TablesOK, OrderOK, LRUOrder, Order, Distinct, InOrder, TablesAgree
  <2>3. QED
    BY <2>1, <2>2 DEF MemoryInv, VmTypeOK, PageReplaceAlgo
<1>2. QED
  BY <1>1, MemoryInvariant, PTL

\* An access evicts only when no frame is free, at most one page, and that page
\* is the one loaded longest ago (FIFO) or not used for the longest time (LRU).
THEOREM MemoryEvictsOldest == VmSpec => EvictsOldest
<1> DEFINE Evicts ==
        \A p \in Pages :
           (valid[p] /\ ~valid'[p] /\ total_accesses' # 0) =>
               /\ \A q \in Pages : valid[q] => Age(p) <= Age(q)
               /\ \A f \in Frames : ~FreeFrame(f)
               /\ \A q \in Pages : valid[q] /\ q # p => valid'[q]
<1>1. MemoryInv /\ [VmNext]_vm_vars => [Evicts]_vm_vars
  <2> SUFFICES ASSUME MemoryInv, VmNext PROVE Evicts
    OBVIOUS
  <2>1. ASSUME NEW a \in PageReplaceAlgo, SetAlgorithm(a) PROVE Evicts
    BY <2>1 DEF SetAlgorithm, Reset
  <2>2. ASSUME NEW x \in Pages, AccessPage(x) PROVE Evicts
    <3> SUFFICES ASSUME NEW p \in Pages, valid[p], ~valid'[p]
                 PROVE  /\ \A q \in Pages : valid[q] => Age(p) <= Age(q)
                        /\ \A f \in Frames : ~FreeFrame(f)
                        /\ \A q \in Pages : valid[q] /\ q # p => valid'[q]
      OBVIOUS
    <3>1. CASE Hit(x)
      BY <3>1 DEF Hit, table_vars
    <3>2. CASE LoadFree(x)
      BY <3>2 DEF LoadFree, Install
    <3>3. CASE ReplaceFIFO(x)
      <4>1. algo = "FIFO" /\ \A f \in Frames : ~FreeFrame(f)
        BY <3>3 DEF ReplaceFIFO
      <4>2. p = Head(fifo_queue)
        BY <2>2, <3>3, ReplaceFIFOFacts
      <4>3. QED
        BY <2>2, <3>3, <4>1, <4>2, ReplaceFIFOFacts DEF Age
    <3>4. CASE ReplaceLRU(x)
      <4>1. algo = "LRU" /\ \A f \in Frames : ~FreeFrame(f)
        BY <3>4 DEF ReplaceLRU
      <4>2. p = Last(lru_list)
        BY <2>2, <3>4, ReplaceLRUFacts
      <4>3. QED
        BY <2>2, <3>4, <4>1, <4>2, ReplaceLRUFacts DEF Age
    <3>5. QED
      BY <2>2, <3>1, <3>2, <3>3, <3>4 DEF AccessPage
  <2>3. QED
    BY <2>1, <2>2 DEF VmNext
<1>2. QED
  BY <1>1, MemoryInvariant, PTL DEF VmSpec, EvictsOldest

-----------------------------------------------------------------------------
(* The file system.                                                        *)

\* A common factor may be cancelled.
LEMMA Cancel ==
    ASSUME NEW a \in Nat \ {0}, NEW b \in Int, NEW c \in Int, a * b < a * c
    PROVE  b < c
OBVIOUS

\* Block b is among the blocks of sequence s.
In(b, s) == \E k \in 1..Len(s) : s[k] = b

\* The first two parts of DiskConsistent: the bitmap marks what is held, and
\* nothing is held twice.
BitmapExact == \A b \in Blocks : bitmap[b] <=> \E i \in InodeIds : In(b, inodes[i].blocks)
HeldOnce ==
    \A i, j \in InodeIds :
        \A k \in 1..Len(inodes[i].blocks), l \in 1..Len(inodes[j].blocks) :
            inodes[i].blocks[k] = inodes[j].blocks[l] => i = j /\ k = l

\* The bytes after the end of a file in its last block, and the free blocks.
FreeIsZero == \A b \in Blocks : ~bitmap[b] => data_blocks[b] = ZeroBlock
TailIsZero(i) ==
    inodes[i].size # 0 =>
        \A k \in 1..Len(inodes[i].blocks), x \in Offsets :
            (k - 1) * BlockSize + x >= inodes[i].size =>
                data_blocks[inodes[i].blocks[k]][x] = Zero

\* The remaining part of DiskConsistent, one inode at a time.
SizeFits(i) ==
    inodes[i].size # 0 =>
        /\ (Len(inodes[i].blocks) - 1) * BlockSize < inodes[i].size
        /\ inodes[i].size <= Len(inodes[i].blocks) * BlockSize
NamesOnce ==
    \A i, j \in InodeIds :
        inodes[i].used /\ inodes[j].used /\ inodes[i].name = inodes[j].name => i = j
UnusedIsEmpty == \A i \in InodeIds : ~inodes[i].used => inodes[i].blocks = << >>

\* The inductive invariant: the parts of DiskConsistent and of FreedIsErased.
DiskInv ==
    /\ TypeOK
    /\ BitmapExact /\ HeldOnce /\ NamesOnce /\ UnusedIsEmpty /\ FreeIsZero
    /\ \A i \in InodeIds : SizeFits(i) /\ TailIsZero(i)

\* The number of blocks for L bytes is L / B rounded up (my_write).
LEMMA RoundUp ==
    ASSUME NEW L \in Nat, NEW B \in Nat \ {0}
    PROVE  /\ (L + B - 1) \div B \in Nat
           /\ L <= ((L + B - 1) \div B) * B
           /\ L # 0 => (((L + B - 1) \div B) - 1) * B < L
<1> DEFINE q == (L + B - 1) \div B
<1>1. q \in Int /\ B * q <= L + B - 1 /\ L + B - 1 < B * q + B
  OBVIOUS
<1>2. QED
  BY <1>1

\* BlocksOf as membership in the block list.
LEMMA BlocksOfIn ==
    ASSUME NEW i, NEW b
    PROVE  b \in BlocksOf(i) <=> In(b, inodes[i].blocks)
BY DEF BlocksOf, In

\* Freeing the blocks of inode i and giving it those of s, which allocBlock
\* took afterwards, keeps bitmap and inodes in step.
LEMMA ReplaceBlocks ==
    ASSUME TypeOK, BitmapExact, HeldOnce,
           NEW i \in InodeIds, NEW s \in Seq(Blocks),
           AllocBlocks(Cleared(BlocksOf(i)), s),
           \A j \in InodeIds \ {i} : inodes'[j] = inodes[j],
           inodes'[i].blocks = s,
           bitmap' = [b \in Blocks |-> Cleared(BlocksOf(i))[b] \/ In(b, s)]
    PROVE  BitmapExact' /\ HeldOnce'
<1>1. BitmapExact /\ HeldOnce
  OBVIOUS
<1>2. \A k \in 1..Len(s) : s[k] \in Blocks
  OBVIOUS
<1>3. \A b \in Blocks : Cleared(BlocksOf(i))[b] <=> bitmap[b] /\ ~In(b, inodes[i].blocks)
  BY BlocksOfIn DEF Cleared
<1>4. \A k \in 1..Len(s), j \in InodeIds \ {i} : ~In(s[k], inodes[j].blocks)
  <2> SUFFICES ASSUME NEW k \in 1..Len(s), NEW j \in InodeIds, j # i, In(s[k], inodes[j].blocks)
               PROVE  FALSE
    OBVIOUS
  <2>1. s[k] \in Blocks /\ ~Cleared(BlocksOf(i))[s[k]]
    BY <1>2 DEF AllocBlocks
  <2>2. bitmap[s[k]]
    BY <1>1, <2>1 DEF BitmapExact
  <2>3. In(s[k], inodes[i].blocks)
    BY <1>3, <2>1, <2>2
  <2>4. QED
    BY <1>1, <2>3 DEF HeldOnce, In
<1>5. \A k, l \in 1..Len(s) : s[k] = s[l] => k = l
  <2>1. \A k, l \in 1..Len(s) : k < l => s[k] < s[l]
    BY DEF AllocBlocks
  <2>2. \A k \in 1..Len(s) : s[k] \in Int
    BY <1>2, VirtualFSAssumption DEF Blocks
  <2>3. QED
    BY <2>1, <2>2
<1>6. BitmapExact'
  <2> SUFFICES ASSUME NEW b \in Blocks
               PROVE  bitmap'[b] <=> \E j \in InodeIds : In(b, inodes'[j].blocks)
    BY DEF BitmapExact, In
  <2>1. bitmap'[b] <=> (bitmap[b] /\ ~In(b, inodes[i].blocks)) \/ In(b, s)
    BY <1>3
  <2>2. \A j \in InodeIds \ {i} : In(b, inodes[j].blocks) => ~In(b, inodes[i].blocks)
    BY <1>1 DEF HeldOnce, In
  <2>3. QED
    BY <1>1, <2>1, <2>2 DEF BitmapExact
<1>7. HeldOnce'
  <2> SUFFICES ASSUME NEW j \in InodeIds, NEW h \in InodeIds,
                      NEW k \in 1..Len(inodes'[j].blocks), NEW l \in 1..Len(inodes'[h].blocks),
                      inodes'[j].blocks[k] = inodes'[h].blocks[l]
               PROVE  j = h /\ k = l
    BY DEF HeldOnce
  <2>1. CASE j = i /\ h = i
    BY <2>1, <1>5
  <2>2. CASE j = i /\ h # i
    BY <2>2, <1>4 DEF In
  <2>3. CASE j # i /\ h = i
    BY <2>3, <1>4 DEF In
  <2>4. CASE j # i /\ h # i
    <3>1. inodes'[j].blocks = inodes[j].blocks /\ inodes'[h].blocks = inodes[h].blocks
      BY <2>4, <1>1
    <3>2. QED
      BY <3>1 DEF HeldOnce
  <2>5. QED
    BY <2>1, <2>2, <2>3, <2>4
<1>8. QED
  BY <1>6, <1>7

\* freeBlock erases what it frees, so a block that allocBlock hands out, or
\* that is still free afterwards, is zero.
LEMMA UnmarkedIsZero ==
    ASSUME TypeOK, FreeIsZero, NEW i \in InodeIds,
           NEW b \in Blocks, ~Cleared(BlocksOf(i))[b]
    PROVE  Erased(BlocksOf(i))[b] = ZeroBlock
BY DEF TypeOK, FreeIsZero, Erased, Cleared

\* Freeing the blocks of inode i does not touch a block of another one.
LEMMA OthersKept ==
    ASSUME TypeOK, HeldOnce, NEW i \in InodeIds, NEW j \in InodeIds, j # i,
           NEW k \in 1..Len(inodes[j].blocks)
    PROVE  /\ inodes[j].blocks[k] \in Blocks
           /\ Erased(BlocksOf(i))[inodes[j].blocks[k]] = data_blocks[inodes[j].blocks[k]]
<1>1. inodes[j].blocks \in Seq(Blocks)
  BY DEF TypeOK, Inode
<1>2. inodes[j].blocks[k] \in Blocks
  BY <1>1
<1>3. inodes[j].blocks[k] \notin BlocksOf(i)
  BY DEF HeldOnce, BlocksOf
<1>4. QED
  BY <1>2, <1>3 DEF Erased

-----------------------------------------------------------------------------
\* The steps.

\* my_write of a string that fits, complete or cut off by a full disk.
LEMMA StoreStep ==
    ASSUME DiskInv, NEW i \in InodeIds, inodes[i].used, NEW d \in Data,
           NEW s \in Seq(Blocks), AllocBlocks(Cleared(BlocksOf(i)), s), Store(i, d, s)
    PROVE  DiskInv'
<1> DEFINE er == Erased(BlocksOf(i))
<1> DEFINE cl == Cleared(BlocksOf(i))
<1>1. /\ TypeOK /\ BitmapExact /\ HeldOnce /\ NamesOnce /\ UnusedIsEmpty
      /\ FreeIsZero
      /\ \A j \in InodeIds : SizeFits(j) /\ TailIsZero(j)
  BY DEF DiskInv
<1>2. d \in Seq(Bytes) /\ Zero \in Bytes /\ BlockSize \in Nat \ {0} /\ MaxBlocks \in Nat
  BY VirtualFSAssumption
<1>3. /\ inodes' = [inodes EXCEPT ![i].blocks = s,
                        ![i].size = IF Len(s) = NeededBlocks(d) THEN Len(d) ELSE 0]
      /\ bitmap' = [b \in Blocks |-> cl[b] \/ In(b, s)]
      /\ data_blocks' = [b \in Blocks |->
            IF In(b, s) THEN Chunk(d, CHOOSE k \in 1..Len(s) : s[k] = b, er[b]) ELSE er[b]]
      /\ ok' = (Len(s) = NeededBlocks(d))
      /\ content' = << >>
  BY DEF Store, In
<1>4. /\ \A j \in InodeIds \ {i} : inodes'[j] = inodes[j]
      /\ inodes'[i].blocks = s
      /\ inodes'[i].size = IF Len(s) = NeededBlocks(d) THEN Len(d) ELSE 0
      /\ inodes'[i].used = inodes[i].used
      /\ inodes'[i].name = inodes[i].name
      /\ inodes' \in [InodeIds -> Inode]
  <2> DEFINE z == IF Len(s) = NeededBlocks(d) THEN Len(d) ELSE 0
  <2> DEFINE new == [used |-> inodes[i].used, name |-> inodes[i].name, size |-> z, blocks |-> s]
  <2>1. inodes[i] \in Inode /\ inodes \in [InodeIds -> Inode]
    BY <1>1 DEF TypeOK
  <2>2. inodes'[i] = new
    BY <1>3, <2>1 DEF Inode
  <2>3. inodes' = [inodes EXCEPT ![i] = new]
    BY <1>3, <2>1, <2>2
  <2>4. z \in Nat
    BY <1>2
  <2>5. QED
    BY <2>1, <2>2, <2>3, <2>4 DEF Inode
<1>5. \A k \in 1..Len(s) : s[k] \in Blocks /\ ~cl[s[k]]
  BY DEF AllocBlocks
<1>6. \A k, l \in 1..Len(s) : s[k] = s[l] => k = l
  <2>1. \A k, l \in 1..Len(s) : k < l => s[k] < s[l]
    BY DEF AllocBlocks
  <2>2. \A k \in 1..Len(s) : s[k] \in Int
    BY <1>2, <1>5 DEF Blocks
  <2>3. QED
    BY <2>1, <2>2
<1>7. er \in [Blocks -> [Offsets -> Bytes]]
  BY <1>1, <1>2 DEF TypeOK, Erased, ZeroBlock
<1>8. \A k \in 1..Len(s), b \in Blocks : Chunk(d, k, er[b]) \in [Offsets -> Bytes]
  <2> SUFFICES ASSUME NEW k \in 1..Len(s), NEW b \in Blocks, NEW x \in Offsets
               PROVE  (LET at == (k - 1) * BlockSize + x + 1
                       IN  IF at <= Len(d) THEN d[at] ELSE er[b][x]) \in Bytes
    BY DEF Chunk
  <2>1. (k - 1) * BlockSize \in Nat /\ x \in Nat
    BY <1>2 DEF Offsets
  <2>2. er[b][x] \in Bytes
    BY <1>7
  <2>3. QED
    BY <1>2, <2>1, <2>2
<1>9. \A b \in Blocks : In(b, s) => (CHOOSE k \in 1..Len(s) : s[k] = b) \in 1..Len(s)
  BY DEF In
<1>10. TypeOK'
  <2>1. bitmap' \in [Blocks -> BOOLEAN]
    BY <1>1, <1>3 DEF TypeOK, Cleared, In
  <2>2. data_blocks' \in [Blocks -> [Offsets -> Bytes]]
    BY <1>3, <1>7, <1>8, <1>9
  <2>3. ok' \in BOOLEAN /\ content' \in Seq(Bytes)
    BY <1>3
  <2>4. QED
    BY <1>4, <2>1, <2>2, <2>3 DEF TypeOK
<1>11. BitmapExact' /\ HeldOnce'
  BY <1>1, <1>3, <1>4, ReplaceBlocks
<1>12. NamesOnce' /\ UnusedIsEmpty'
  <2>1. NamesOnce'
    BY <1>1, <1>4 DEF NamesOnce
  <2>2. UnusedIsEmpty'
    BY <1>1, <1>4 DEF UnusedIsEmpty
  <2>3. QED
    BY <2>1, <2>2
<1>13. ASSUME NEW j \in InodeIds PROVE SizeFits(j)'
  <2>1. CASE j # i
    BY <1>1, <1>4, <2>1 DEF SizeFits
  <2>2. CASE j = i
    <3>1. SUFFICES ASSUME Len(s) = NeededBlocks(d), Len(d) # 0
                   PROVE  (Len(s) - 1) * BlockSize < Len(d) /\ Len(d) <= Len(s) * BlockSize
      BY <1>4, <2>2 DEF SizeFits
    <3>2. QED
      BY <1>2, <3>1, RoundUp DEF NeededBlocks
  <2>3. QED
    BY <2>1, <2>2
<1>14. FreeIsZero'
  <2> SUFFICES ASSUME NEW b \in Blocks, ~bitmap'[b]
               PROVE  data_blocks'[b] = ZeroBlock
    BY DEF FreeIsZero, ZeroBlock
  <2>1. ~cl[b] /\ ~In(b, s)
    BY <1>3
  <2>2. QED
    BY <1>1, <1>3, <2>1, UnmarkedIsZero
<1>15. ASSUME NEW j \in InodeIds PROVE TailIsZero(j)'
  <2>1. CASE j # i
    <3> SUFFICES ASSUME inodes[j].size # 0, NEW k \in 1..Len(inodes[j].blocks), NEW x \in Offsets,
                        (k - 1) * BlockSize + x >= inodes[j].size
                 PROVE  data_blocks'[inodes[j].blocks[k]][x] = Zero
      BY <1>4, <2>1 DEF TailIsZero
    <3>1. data_blocks[inodes[j].blocks[k]][x] = Zero
      BY <1>1 DEF TailIsZero
    <3>2. /\ inodes[j].blocks[k] \in Blocks
          /\ er[inodes[j].blocks[k]] = data_blocks[inodes[j].blocks[k]]
      BY <1>1, <2>1, OthersKept
    <3>3. ~In(inodes[j].blocks[k], s)
      <4>1. inodes'[j].blocks = inodes[j].blocks /\ inodes'[i].blocks = s
        BY <1>4, <2>1
      <4>2. QED
        BY <1>11, <2>1, <4>1 DEF HeldOnce, In
    <3>4. QED
      BY <1>3, <3>1, <3>2, <3>3
  <2>2. CASE j = i
    <3> SUFFICES ASSUME NEW k \in 1..Len(s), NEW x \in Offsets,
                        (k - 1) * BlockSize + x >= Len(d)
                 PROVE  data_blocks'[s[k]][x] = Zero
      BY <1>4, <2>2 DEF TailIsZero
    <3>1. (CHOOSE l \in 1..Len(s) : s[l] = s[k]) = k
      BY <1>6
    <3>2. In(s[k], s) /\ s[k] \in Blocks
      BY <1>5 DEF In
    <3>3. data_blocks'[s[k]] = Chunk(d, k, er[s[k]])
      BY <1>3, <3>1, <3>2
    <3>4. (k - 1) * BlockSize \in Nat /\ x \in Nat
      BY <1>2 DEF Offsets
    <3>5. data_blocks'[s[k]][x] = er[s[k]][x]
      BY <1>2, <3>3, <3>4 DEF Chunk
    <3>6. er[s[k]] = ZeroBlock
      BY <1>1, <1>5, UnmarkedIsZero
    <3>7. QED
      BY <3>5, <3>6 DEF ZeroBlock
  <2>3. QED
    BY <2>1, <2>2
<1>16. QED
  BY <1>10, <1>11, <1>12, <1>13, <1>14, <1>15 DEF DiskInv

\* Freeing the blocks of inode i and emptying it, which is how my_delete ends
\* and my_write begins; the inode may lose its name.
LEMMA FreeStep ==
    ASSUME DiskInv, NEW i \in InodeIds,
           inodes' \in [InodeIds -> Inode],
           \A j \in InodeIds \ {i} : inodes'[j] = inodes[j],
           inodes'[i].blocks = << >>, inodes'[i].size = 0,
           inodes'[i].used => inodes[i].used /\ inodes'[i].name = inodes[i].name,
           bitmap' = Cleared(BlocksOf(i)), data_blocks' = Erased(BlocksOf(i)),
           ok' \in BOOLEAN, content' = << >>
    PROVE  DiskInv'
<1>1. /\ TypeOK /\ BitmapExact /\ HeldOnce /\ NamesOnce /\ UnusedIsEmpty
      /\ FreeIsZero
      /\ \A j \in InodeIds : SizeFits(j) /\ TailIsZero(j)
  BY DEF DiskInv
<1>2. TypeOK'
  <2>1. bitmap' \in [Blocks -> BOOLEAN]
    BY <1>1 DEF TypeOK, Cleared
  <2>2. data_blocks' \in [Blocks -> [Offsets -> Bytes]]
    BY <1>1, VirtualFSAssumption DEF TypeOK, Erased, ZeroBlock
  <2>3. QED
    BY <2>1, <2>2 DEF TypeOK
<1>3. BitmapExact' /\ HeldOnce'
  <2>1. << >> \in Seq(Blocks) /\ AllocBlocks(Cleared(BlocksOf(i)), << >>)
    BY DEF AllocBlocks
  <2>2. bitmap' = [b \in Blocks |-> Cleared(BlocksOf(i))[b] \/ In(b, << >>)]
    <3>1. \A b \in Blocks : ~In(b, << >>)
      BY DEF In
    <3>2. \A b \in Blocks : Cleared(BlocksOf(i))[b] \in BOOLEAN
      BY <1>1 DEF TypeOK, Cleared
    <3>3. bitmap' = [b \in Blocks |-> Cleared(BlocksOf(i))[b]]
      BY DEF Cleared
    <3>4. QED
      BY <3>1, <3>2, <3>3
  <2>3. QED
    BY <1>1, <2>1, <2>2, ReplaceBlocks
<1>4. NamesOnce' /\ UnusedIsEmpty'
  BY <1>1 DEF NamesOnce, UnusedIsEmpty
<1>5. FreeIsZero'
  BY <1>1, UnmarkedIsZero DEF FreeIsZero, ZeroBlock
<1>6. ASSUME NEW j \in InodeIds PROVE SizeFits(j)' /\ TailIsZero(j)'
  <2>1. CASE j = i
    BY <2>1 DEF SizeFits, TailIsZero
  <2>2. CASE j # i
    <3>1. inodes'[j] = inodes[j]
      BY <2>2
    <3>2. \A k \in 1..Len(inodes[j].blocks) :
              data_blocks'[inodes[j].blocks[k]] = data_blocks[inodes[j].blocks[k]]
      BY <1>1, <2>2, OthersKept
    <3>3. QED
      BY <1>1, <3>1, <3>2 DEF SizeFits, TailIsZero
  <2>3. QED
    BY <2>1, <2>2
<1>7. QED
  BY <1>2, <1>3, <1>4, <1>5, <1>6 DEF DiskInv

\* A step that leaves the disk as it is.
LEMMA SameDisk ==
    ASSUME DiskInv, UNCHANGED <<inodes, bitmap, data_blocks>>,
           ok' \in BOOLEAN, content' \in Seq(Bytes)
    PROVE  DiskInv'
<1>1. TypeOK'
  BY DEF DiskInv, TypeOK
<1>2. BitmapExact' /\ HeldOnce' /\ NamesOnce' /\ UnusedIsEmpty' /\ FreeIsZero'
  BY DEF DiskInv, BitmapExact, HeldOnce, NamesOnce, UnusedIsEmpty, FreeIsZero, In
<1>3. ASSUME NEW i \in InodeIds PROVE SizeFits(i)' /\ TailIsZero(i)'
  BY DEF DiskInv, SizeFits, TailIsZero
<1>4. QED
  BY <1>1, <1>2, <1>3 DEF DiskInv

\* A refused call leaves the disk as it is.
LEMMA RefuseStep ==
    ASSUME DiskInv, Refuse
    PROVE  DiskInv'
<1>1. << >> \in Seq(Bytes)
  OBVIOUS
<1>2. ok' \in BOOLEAN /\ content' = << >> /\ UNCHANGED <<inodes, bitmap, data_blocks>>
  BY DEF Refuse
<1>3. QED
  BY <1>1, <1>2, SameDisk

\* my_create.
LEMMA CreateStep ==
    ASSUME DiskInv, NEW n \in Names, Create(n)
    PROVE  DiskInv'
<1>1. CASE Refuse
  BY <1>1, RefuseStep
<1>2. ASSUME n \in LegalNames, Missing(n), NEW i \in InodeIds, ~inodes[i].used,
             inodes' = [inodes EXCEPT ![i] =
                 [used |-> TRUE, name |-> n, size |-> 0, blocks |-> << >>]],
             Succeed, UNCHANGED <<bitmap, data_blocks>>
      PROVE  DiskInv'
  <2>1. /\ TypeOK /\ BitmapExact /\ HeldOnce /\ NamesOnce /\ UnusedIsEmpty
        /\ FreeIsZero
        /\ \A j \in InodeIds : SizeFits(j) /\ TailIsZero(j)
    BY DEF DiskInv
  <2>2. /\ \A j \in InodeIds \ {i} : inodes'[j] = inodes[j]
        /\ inodes'[i] = [used |-> TRUE, name |-> n, size |-> 0, blocks |-> << >>]
        /\ inodes[i].blocks = << >>
    BY <1>2, <2>1 DEF TypeOK, UnusedIsEmpty
  <2>3. \A j \in InodeIds : inodes'[j].blocks = inodes[j].blocks
    BY <2>2
  <2>4. TypeOK'
    BY <1>2, <2>1 DEF TypeOK, Inode, Succeed
  <2>5. BitmapExact' /\ HeldOnce' /\ FreeIsZero'
    BY <1>2, <2>1, <2>3 DEF BitmapExact, HeldOnce, FreeIsZero, In, ZeroBlock
  <2>6. NamesOnce' /\ UnusedIsEmpty'
    BY <1>2, <2>1, <2>2 DEF NamesOnce, UnusedIsEmpty, Missing, FindFile
  <2>7. ASSUME NEW j \in InodeIds PROVE SizeFits(j)' /\ TailIsZero(j)'
    BY <1>2, <2>1, <2>2 DEF SizeFits, TailIsZero
  <2>8. QED
    BY <2>4, <2>5, <2>6, <2>7 DEF DiskInv
<1>3. QED
  BY <1>1, <1>2 DEF Create

\* my_write.
LEMMA WriteStep ==
    ASSUME DiskInv, NEW n \in Names, NEW d \in Data, Write(n, d)
    PROVE  DiskInv'
<1>1. CASE Refuse
  BY <1>1, RefuseStep
<1>2. ASSUME NEW i \in InodeIds, FindFile(n, i), WriteTooLarge(i)
      PROVE  DiskInv'
  <2> DEFINE new == [used |-> inodes[i].used, name |-> inodes[i].name, size |-> 0, blocks |-> << >>]
  <2>1. inodes[i] \in Inode /\ inodes \in [InodeIds -> Inode]
    BY DEF TypeOK, DiskInv
  <2>2. inodes'[i] = new
    BY <1>2, <2>1 DEF Inode, WriteTooLarge
  <2>3. inodes' = [inodes EXCEPT ![i] = new]
    BY <1>2, <2>1, <2>2 DEF WriteTooLarge
  <2>4. inodes' \in [InodeIds -> Inode]
    BY <2>1, <2>3 DEF Inode
  <2>5. \A j \in InodeIds \ {i} : inodes'[j] = inodes[j]
    BY <2>1, <2>3
  <2>6. /\ bitmap' = Cleared(BlocksOf(i)) /\ data_blocks' = Erased(BlocksOf(i))
        /\ ok' \in BOOLEAN /\ content' = << >>
    BY <1>2 DEF WriteTooLarge
  <2>7. QED
    BY <1>2, <2>2, <2>4, <2>5, <2>6, FreeStep DEF FindFile
<1>3. ASSUME NEW i \in InodeIds, FindFile(n, i), WriteBlocks(i, d)
      PROVE  DiskInv'
  <2>1. PICK len \in 0..BlocksPerFile : \E s \in [1..len -> Blocks] :
            AllocBlocks(Cleared(BlocksOf(i)), s) /\ Store(i, d, s)
    BY <1>3 DEF WriteBlocks
  <2>2. PICK s \in [1..len -> Blocks] :
            AllocBlocks(Cleared(BlocksOf(i)), s) /\ Store(i, d, s)
    BY <2>1
  <2>3. s \in Seq(Blocks)
    BY VirtualFSAssumption
  <2>4. QED
    BY <1>3, <2>2, <2>3, StoreStep DEF FindFile
<1>4. QED
  BY <1>1, <1>2, <1>3 DEF Write

\* my_delete.
LEMMA DeleteStep ==
    ASSUME DiskInv, NEW n \in Names, Delete(n)
    PROVE  DiskInv'
<1>1. CASE Refuse
  BY <1>1, RefuseStep
<1>2. ASSUME NEW i \in InodeIds, bitmap' = Cleared(BlocksOf(i)),
             data_blocks' = Erased(BlocksOf(i)),
             inodes' = [inodes EXCEPT ![i] = UnusedInode], Succeed
      PROVE  DiskInv'
  <2>1. inodes \in [InodeIds -> Inode]
    BY DEF TypeOK, DiskInv
  <2>2. /\ inodes' \in [InodeIds -> Inode]
        /\ \A j \in InodeIds \ {i} : inodes'[j] = inodes[j]
        /\ inodes'[i] = UnusedInode
    BY <1>2, <2>1 DEF Inode, UnusedInode
  <2>3. QED
    BY <1>2, <2>2, FreeStep DEF UnusedInode, Succeed
<1>3. QED
  BY <1>1, <1>2 DEF Delete

\* my_read looks up byte x of a file in a block that the file has, at an offset
\* that a block has.
LEMMA Within ==
    ASSUME NEW n \in Nat, NEW x \in Int, 1 <= x, x <= BlockSize * n
    PROVE  /\ (x - 1) \div BlockSize + 1 \in 1..n
           /\ (x - 1) % BlockSize \in Offsets
           /\ ((x - 1) \div BlockSize) * BlockSize + ((x - 1) % BlockSize) + 1 = x
<1> DEFINE q == (x - 1) \div BlockSize
<1>1. BlockSize \in Nat \ {0}
  BY VirtualFSAssumption
<1>2. /\ q \in Int /\ BlockSize * q <= x - 1 /\ x - 1 < BlockSize * (q + 1)
      /\ BlockSize * q + ((x - 1) % BlockSize) = x - 1
  BY <1>1
<1>3. q + 1 \in 1..n
  <2>1. BlockSize * q < BlockSize * n
    <3> DEFINE low == BlockSize * q
               room == BlockSize * n
    <3>1. x <= room /\ low <= x - 1 /\ low \in Int /\ room \in Int
      BY <1>1, <1>2
    <3> HIDE DEF low, room
    <3>2. low < room
      BY <3>1
    <3>3. QED
      BY <3>2 DEF low, room
  <2>2. q < n
    BY <1>1, <1>2, <2>1, Cancel
  <2>3. BlockSize * 0 < BlockSize * (q + 1)
    BY <1>1, <1>2
  <2>4. 0 < q + 1
    BY <1>1, <1>2, <2>3, Cancel
  <2>5. QED
    BY <1>2, <2>2, <2>4
<1>4. (x - 1) % BlockSize \in Offsets
  BY <1>1 DEF Offsets
<1>5. QED
  BY <1>1, <1>2, <1>3, <1>4

\* The number of bytes that my_read collects of inode i.
ReadLen(i) ==
    IF inodes[i].size <= BlockSize * Len(inodes[i].blocks)
    THEN inodes[i].size ELSE BlockSize * Len(inodes[i].blocks)

\* The bytes that my_read collects, one by one.
LEMMA BytesOfIs ==
    ASSUME DiskInv, NEW i \in InodeIds
    PROVE  /\ ReadLen(i) \in Nat /\ ReadLen(i) <= BlockSize * Len(inodes[i].blocks)
           /\ BytesOf(i) = [x \in 1..ReadLen(i) |->
                  data_blocks[inodes[i].blocks[(x - 1) \div BlockSize + 1]]
                             [(x - 1) % BlockSize]]
           /\ \A x \in 1..ReadLen(i) :
                  /\ (x - 1) \div BlockSize + 1 \in 1..Len(inodes[i].blocks)
                  /\ inodes[i].blocks[(x - 1) \div BlockSize + 1] \in Blocks
                  /\ (x - 1) % BlockSize \in Offsets
<1>1. inodes[i].size \in Nat /\ inodes[i].blocks \in Seq(Blocks) /\ BlockSize \in Nat \ {0}
  BY VirtualFSAssumption DEF DiskInv, TypeOK, Inode
<1>2. Len(inodes[i].blocks) \in Nat
  BY <1>1
<1>3. ReadLen(i) \in Nat /\ ReadLen(i) <= BlockSize * Len(inodes[i].blocks)
  BY <1>1, <1>2 DEF ReadLen
<1>4. BytesOf(i) = [x \in 1..ReadLen(i) |->
          data_blocks[inodes[i].blocks[(x - 1) \div BlockSize + 1]][(x - 1) % BlockSize]]
  BY DEF BytesOf, ReadLen
<1>5. ASSUME NEW x \in 1..ReadLen(i)
      PROVE  /\ (x - 1) \div BlockSize + 1 \in 1..Len(inodes[i].blocks)
             /\ inodes[i].blocks[(x - 1) \div BlockSize + 1] \in Blocks
             /\ (x - 1) % BlockSize \in Offsets
  <2> DEFINE n == Len(inodes[i].blocks)
             room == BlockSize * n
             k == (x - 1) \div BlockSize + 1
  <2>1. room \in Nat /\ ReadLen(i) <= room
    BY <1>1, <1>2, <1>3
  <2> HIDE DEF room
  <2>2. x \in Int /\ 1 <= x /\ x <= room
    BY <1>3, <2>1
  <2>3. n \in Nat /\ x \in Int /\ 1 <= x /\ x <= BlockSize * n
    BY <1>2, <2>2 DEF room
  <2> HIDE DEF n
  <2>4. k \in 1..n /\ (x - 1) % BlockSize \in Offsets
    BY <2>3, Within
  <2> HIDE DEF k
  <2>5. inodes[i].blocks[k] \in Blocks
    BY <1>1, <2>4 DEF n
  <2>6. QED
    BY <2>4, <2>5 DEF k, n
<1>6. QED
  BY <1>3, <1>4, <1>5

\* What my_read collects is a string of bytes.
LEMMA BytesOfType ==
    ASSUME DiskInv, NEW i \in InodeIds
    PROVE  BytesOf(i) \in Seq(Bytes)
<1>1. data_blocks \in [Blocks -> [Offsets -> Bytes]]
  BY DEF DiskInv, TypeOK
<1>2. \A x \in 1..ReadLen(i) :
          data_blocks[inodes[i].blocks[(x - 1) \div BlockSize + 1]][(x - 1) % BlockSize]
              \in Bytes
  BY <1>1, BytesOfIs
<1>3. BytesOf(i) \in [1..ReadLen(i) -> Bytes] /\ ReadLen(i) \in Nat
  <2>1. BytesOf(i) = [x \in 1..ReadLen(i) |->
            data_blocks[inodes[i].blocks[(x - 1) \div BlockSize + 1]][(x - 1) % BlockSize]]
    BY BytesOfIs
  <2>2. ReadLen(i) \in Nat
    BY BytesOfIs
  <2>3. QED
    BY <1>2, <2>1, <2>2
<1>4. QED
  BY <1>3

\* my_read.
LEMMA ReadStep ==
    ASSUME DiskInv, NEW n \in Names, Read(n)
    PROVE  DiskInv'
<1>1. CASE Refuse
  BY <1>1, RefuseStep
<1>2. ASSUME NEW i \in InodeIds, content' = BytesOf(i), ok' = TRUE,
             UNCHANGED <<inodes, bitmap, data_blocks>>
      PROVE  DiskInv'
  <2>1. BytesOf(i) \in Seq(Bytes)
    BY BytesOfType
  <2>2. QED
    BY <1>2, <2>1, SameDisk
<1>3. QED
  BY <1>1, <1>2 DEF Read

-----------------------------------------------------------------------------
\* The constructor leaves an empty disk.
LEMMA InitInv == Init => DiskInv
<1> SUFFICES ASSUME Init PROVE DiskInv
  OBVIOUS
<1>1. TypeOK
  BY VirtualFSAssumption DEF Init, TypeOK, Inode, UnusedInode, ZeroBlock
<1>2. \A i \in InodeIds : inodes[i] = UnusedInode
  BY DEF Init
<1>3. \A i \in InodeIds : inodes[i].blocks = << >> /\ inodes[i].size = 0 /\ ~inodes[i].used
  BY <1>2 DEF UnusedInode
<1>4. QED
  BY <1>1, <1>3 DEF Init, DiskInv, BitmapExact, HeldOnce, NamesOnce, UnusedIsEmpty, FreeIsZero,
                    SizeFits, TailIsZero, In

\* Every call preserves the invariant.
LEMMA NextInv == DiskInv /\ [Next]_vars => DiskInv'
<1> SUFFICES ASSUME DiskInv, [Next]_vars PROVE DiskInv'
  OBVIOUS
<1>1. CASE UNCHANGED vars
  <2>1. UNCHANGED <<inodes, bitmap, data_blocks>> /\ ok' = ok /\ content' = content
    BY <1>1 DEF vars
  <2>2. QED
    BY <2>1, SameDisk DEF DiskInv, TypeOK
<1>2. CASE Next
  BY <1>2, CreateStep, ReadStep, DeleteStep, WriteStep DEF Next
<1>3. QED
  BY <1>1, <1>2

\* The invariant holds after every sequence of calls of VirtualFS.
THEOREM DiskInvariant == Spec => []DiskInv
BY InitInv, NextInv, PTL DEF Spec

\* After any sequence of creates, writes and deletes, failed ones included,
\* the bitmap of the disk and the block lists of the inodes agree and no block
\* is shared (allocBlock, freeBlock, my_write).
THEOREM DiskStaysConsistent == Spec => []DiskConsistent
<1>1. BitmapExact => \A b \in Blocks : bitmap[b] <=> \E i \in InodeIds : b \in BlocksOf(i)
  BY BlocksOfIn DEF BitmapExact
<1>2. DiskInv => DiskConsistent
  BY <1>1 DEF DiskInv, DiskConsistent, HeldOnce, NamesOnce, UnusedIsEmpty, SizeFits
<1>3. QED
  BY <1>2, DiskInvariant, PTL

\* No byte of a deleted or overwritten file is left in a free block or behind
\* the end of another file (the memset of freeBlock).
THEOREM FreedStaysErased == Spec => []FreedIsErased
<1>1. DiskInv => FreedIsErased
  BY DEF DiskInv, FreedIsErased, FreeIsZero, TailIsZero
<1>2. QED
  BY <1>1, DiskInvariant, PTL

-----------------------------------------------------------------------------
\* The refinement: the file system is a store of named byte strings.

\* A file has one of the names that calls are given.
UsedIsNamed == \A i \in InodeIds : inodes[i].used => inodes[i].name \in Names

\* What the refinement mapping makes of the disk.
Content(n) == IF Missing(n) THEN NoName ELSE BytesOf(FileOf(n))
Holds(n) == IF Missing(n) THEN 0 ELSE Len(inodes[FileOf(n)].blocks)
Contents == [n \in Names |-> Content(n)]
Holdings == [n \in Names |-> Holds(n)]
FreeBlocks == {b \in Blocks : ~bitmap[b]}

\* A list without repetition has as many members as entries.
LEMMA ListCount ==
    ASSUME NEW S, NEW s \in Seq(S), \A k, l \in 1..Len(s) : s[k] = s[l] => k = l
    PROVE  /\ IsFiniteSet({s[k] : k \in 1..Len(s)})
           /\ Cardinality({s[k] : k \in 1..Len(s)}) = Len(s)
<1> DEFINE T == {s[k] : k \in 1..Len(s)}
<1>1. Len(s) \in Nat
  OBVIOUS
<1>2. IsFiniteSet(1..Len(s)) /\ Cardinality(1..Len(s)) = Len(s)
  <2> DEFINE n == Len(s)
  <2>1. n \in Int /\ 1 \in Int /\ n >= 0
    BY <1>1
  <2> HIDE DEF n
  <2>2. IsFiniteSet(1..n) /\ Cardinality(1..n) = n
    BY <2>1, FS_Interval
  <2>3. QED
    BY <2>2 DEF n
<1>3. DOMAIN s = 1..Len(s)
  OBVIOUS
<1>4. s \in [1..Len(s) -> T]
  OBVIOUS
<1>5. s \in Bijection(1..Len(s), T)
  <2>1. s \in Injection(1..Len(s), T)
    BY <1>3, <1>4 DEF Injection, IsInjective
  <2>2. s \in Surjection(1..Len(s), T)
    BY <1>4 DEF Surjection
  <2>3. QED
    BY <2>1, <2>2 DEF Bijection
<1>6. QED
  BY <1>2, <1>5, FS_Bijection DEF ExistsBijection

\* The blocks are finitely many.
LEMMA BlocksFinite == IsFiniteSet(Blocks) /\ Cardinality(Blocks) = MaxBlocks
BY VirtualFSAssumption, FS_Interval DEF Blocks

\* Once the blocks of inode i are freed, there are as many free blocks as there
\* were and as it had, and each block that is then taken makes one less.
LEMMA FreeCount ==
    ASSUME DiskInv, NEW i \in InodeIds, NEW s \in Seq(Blocks),
           AllocBlocks(Cleared(BlocksOf(i)), s), NEW F,
           F = {b \in Blocks : ~(Cleared(BlocksOf(i))[b] \/ In(b, s))}
    PROVE  /\ Cardinality(FreeBlocks) \in Nat /\ Cardinality(F) \in Nat
           /\ Cardinality(F) =
                  Cardinality(FreeBlocks) + Len(inodes[i].blocks) - Len(s)
           /\ DiskFull(Cleared(BlocksOf(i)), s) => Cardinality(F) = 0
<1> DEFINE bl == inodes[i].blocks
           Old == {bl[k] : k \in 1..Len(bl)}
           New == {s[k] : k \in 1..Len(s)}
<1>1. bl \in Seq(Blocks) /\ bitmap \in [Blocks -> BOOLEAN]
  BY DEF DiskInv, TypeOK, Inode
<1>2. \A k, l \in 1..Len(bl) : bl[k] = bl[l] => k = l
  BY DEF DiskInv, HeldOnce
<1>3. \A k, l \in 1..Len(s) : s[k] = s[l] => k = l
  <2>1. \A k, l \in 1..Len(s) : k < l => s[k] < s[l]
    BY DEF AllocBlocks
  <2>2. \A k \in 1..Len(s) : s[k] \in Int
    BY VirtualFSAssumption DEF Blocks
  <2>3. QED
    BY <2>1, <2>2
<1>4. IsFiniteSet(Old) /\ Cardinality(Old) = Len(bl)
  <2> HIDE DEF bl
  <2>1. QED
    BY <1>1, <1>2, ListCount
<1>5. IsFiniteSet(New) /\ Cardinality(New) = Len(s)
  BY <1>3, ListCount
<1>6. IsFiniteSet(FreeBlocks) /\ Cardinality(FreeBlocks) \in Nat
  <2>1. FreeBlocks \in SUBSET Blocks
    BY DEF FreeBlocks
  <2>2. QED
    BY <2>1, BlocksFinite, FS_Subset, FS_CardinalityType
<1>7. \A b \in Blocks : ~Cleared(BlocksOf(i))[b] <=> b \in FreeBlocks \/ b \in Old
  BY <1>1 DEF Cleared, BlocksOf, FreeBlocks
<1>8. Old \subseteq Blocks /\ New \subseteq Blocks
  BY <1>1
<1>9. FreeBlocks \cap Old = {}
  BY <1>8 DEF FreeBlocks, DiskInv, BitmapExact, In
<1>10. New \subseteq FreeBlocks \cup Old
  BY <1>7, <1>8 DEF AllocBlocks
<1>11. F = (FreeBlocks \cup Old) \ New
  <2>1. \A b : In(b, s) <=> b \in New
    BY DEF In
  <2>2. FreeBlocks \subseteq Blocks
    BY DEF FreeBlocks
  <2>3. QED
    BY <1>7, <1>8, <2>1, <2>2
<1> HIDE DEF Old, New
<1>12. /\ IsFiniteSet(FreeBlocks \cup Old)
       /\ Cardinality(FreeBlocks \cup Old) = Cardinality(FreeBlocks) + Len(bl)
  <2>1. /\ IsFiniteSet(FreeBlocks \cup Old)
        /\ Cardinality(FreeBlocks \cup Old) =
              Cardinality(FreeBlocks) + Cardinality(Old) - Cardinality(FreeBlocks \cap Old)
    BY <1>4, <1>6, FS_Union
  <2>2. Cardinality(FreeBlocks \cap Old) = 0
    BY <1>9, FS_EmptySet
  <2>3. Len(bl) \in Nat
    BY <1>1
  <2>4. QED
    BY <1>4, <1>6, <2>1, <2>2, <2>3
<1>13. (FreeBlocks \cup Old) \cap New = New
  BY <1>10
<1>14. /\ IsFiniteSet(F)
       /\ Cardinality(F) = Cardinality(FreeBlocks) + Len(bl) - Len(s)
  <2>1. /\ IsFiniteSet(F)
        /\ Cardinality(F) = Cardinality(FreeBlocks \cup Old) - Cardinality(New)
    <3> DEFINE U == FreeBlocks \cup Old
    <3>1. IsFiniteSet(U) /\ U \cap New = New /\ F = U \ New
      BY <1>11, <1>12, <1>13
    <3> HIDE DEF U
    <3>2. IsFiniteSet(U \ New) /\ Cardinality(U \ New) = Cardinality(U) - Cardinality(U \cap New)
      BY <3>1, FS_Difference
    <3>3. QED
      BY <3>1, <3>2 DEF U
  <2>2. Len(bl) \in Nat /\ Len(s) \in Nat
    BY <1>1
  <2>3. QED
    BY <1>5, <1>6, <1>12, <2>1, <2>2
<1>15. DiskFull(Cleared(BlocksOf(i)), s) => F = {}
  BY DEF DiskFull, In
<1>16. QED
  BY <1>6, <1>14, <1>15, FS_CardinalityType, FS_EmptySet

\* findFile finds the one inode with the name, before the step and after it.
LEMMA FileFound ==
    ASSUME NamesOnce, NEW n, NEW i \in InodeIds, FindFile(n, i)
    PROVE  ~Missing(n) /\ FileOf(n) = i
BY DEF NamesOnce, Missing, FileOf, FindFile

LEMMA FileFoundNext ==
    ASSUME NamesOnce', NEW n, NEW i \in InodeIds, FindFile(n, i)'
    PROVE  ~Missing(n)' /\ FileOf(n)' = i
BY DEF NamesOnce, Missing, FileOf, FindFile

LEMMA FileExists ==
    ASSUME NEW n, ~Missing(n)
    PROVE  FileOf(n) \in InodeIds /\ FindFile(n, FileOf(n))
BY DEF Missing, FileOf

\* The store counts as this module does.
LEMMA SameCount == \A S : FS!Cardinality(S) = Cardinality(S)
BY DEF FS!Cardinality, Cardinality

\* The store has the files that findFile finds.
LEMMA ExistingIs ==
    ASSUME DiskInv
    PROVE  FS!Existing = {n \in Names : ~Missing(n)}
<1>1. \A n \in Names : ~Missing(n) => BytesOf(FileOf(n)) \in Seq(Bytes)
  BY FileExists, BytesOfType
<1>2. NoName \notin Seq(Bytes)
  BY VirtualFSAssumption
<1>3. QED
  BY <1>1, <1>2 DEF FS!Existing

\* The store can take one more file exactly if an inode is unused.
LEMMA TableCount ==
    ASSUME DiskInv, UsedIsNamed
    PROVE  Cardinality(FS!Existing) < MaxFiles <=> \E i \in InodeIds : ~inodes[i].used
<1> DEFINE E == {n \in Names : ~Missing(n)}
           f == [n \in E |-> FileOf(n)]
<1>1. IsFiniteSet(InodeIds) /\ Cardinality(InodeIds) = MaxFiles
  BY VirtualFSAssumption, FS_Interval DEF InodeIds
<1>2. f \in [E -> InodeIds]
  BY FileExists
<1>3. f \in Injection(E, InodeIds)
  <2>1. \A m, n \in E : FileOf(m) = FileOf(n) => m = n
    BY FileExists DEF FindFile
  <2>2. QED
    BY <1>2, <2>1 DEF Injection, IsInjective
<1>4. f \in Surjection(E, InodeIds) <=> \A i \in InodeIds : inodes[i].used
  <2>1. ASSUME f \in Surjection(E, InodeIds), NEW i \in InodeIds PROVE inodes[i].used
    <3>1. PICK n \in E : f[n] = i
      BY <2>1 DEF Surjection
    <3>2. QED
      BY <3>1, FileExists DEF FindFile
  <2>2. ASSUME \A i \in InodeIds : inodes[i].used PROVE f \in Surjection(E, InodeIds)
    <3>1. ASSUME NEW i \in InodeIds PROVE \E n \in E : f[n] = i
      <4>1. inodes[i].name \in Names /\ FindFile(inodes[i].name, i)
        BY <2>2 DEF UsedIsNamed, FindFile
      <4>2. inodes[i].name \in E /\ FileOf(inodes[i].name) = i
        BY <4>1, FileFound DEF DiskInv
      <4>3. QED
        BY <4>2
    <3>2. QED
      BY <1>2, <3>1 DEF Surjection
  <2>3. QED
    BY <2>1, <2>2
<1>5. /\ IsFiniteSet(E) /\ Cardinality(E) <= Cardinality(InodeIds)
      /\ Cardinality(E) = Cardinality(InodeIds) <=> f \in Surjection(E, InodeIds)
  <2> HIDE DEF f, E
  <2>1. QED
    BY <1>1, <1>3, FS_Injection
<1>6. Cardinality(E) \in Nat /\ MaxFiles \in Nat
  BY <1>5, FS_CardinalityType, VirtualFSAssumption
<1>7. FS!Existing = E
  BY ExistingIs
<1> HIDE DEF E
<1>8. QED
  BY <1>1, <1>4, <1>5, <1>6, <1>7

\* A file whose inode and blocks a step leaves alone keeps its content.
LEMMA KeptBytes ==
    ASSUME DiskInv, NEW j \in InodeIds, inodes'[j] = inodes[j],
           \A k \in 1..Len(inodes[j].blocks) :
               data_blocks'[inodes[j].blocks[k]] = data_blocks[inodes[j].blocks[k]]
    PROVE  BytesOf(j)' = BytesOf(j)
<1>1. BytesOf(j)' = [x \in 1..ReadLen(j) |->
          data_blocks'[inodes[j].blocks[(x - 1) \div BlockSize + 1]][(x - 1) % BlockSize]]
  BY DEF BytesOf, ReadLen
<1>2. \A x \in 1..ReadLen(j) :
          data_blocks'[inodes[j].blocks[(x - 1) \div BlockSize + 1]]
              = data_blocks[inodes[j].blocks[(x - 1) \div BlockSize + 1]]
  BY BytesOfIs
<1>3. QED
  BY <1>1, <1>2, BytesOfIs

\* A step that changes one inode, which has no name but n before and after it,
\* changes no other file.
LEMMA OthersView ==
    ASSUME DiskInv, DiskInv', NEW i \in InodeIds, NEW n \in Names,
           \A j \in InodeIds \ {i} : inodes'[j] = inodes[j] /\ BytesOf(j)' = BytesOf(j),
           inodes[i].used => inodes[i].name = n,
           inodes'[i].used => inodes'[i].name = n
    PROVE  /\ Contents' = [Contents EXCEPT ![n] = Content(n)']
           /\ Holdings' = [Holdings EXCEPT ![n] = Holds(n)']
<1>1. NamesOnce /\ NamesOnce'
  BY DEF DiskInv
<1>2. ASSUME NEW m \in Names, m # n
      PROVE  Content(m)' = Content(m) /\ Holds(m)' = Holds(m)
  <2>1. \A j \in InodeIds : FindFile(m, j)' <=> FindFile(m, j)
    BY <1>2 DEF FindFile
  <2>2. CASE Missing(m)
    <3>1. Missing(m)'
      BY <2>1, <2>2 DEF Missing
    <3>2. QED
      BY <2>2, <3>1 DEF Content, Holds
  <2>3. CASE ~Missing(m)
    <3>1. PICK j \in InodeIds : FindFile(m, j)
      BY <2>3 DEF Missing
    <3>2. ~Missing(m)' /\ FileOf(m)' = j
      BY <1>1, <2>1, <3>1, FileFoundNext
    <3>3. FileOf(m) = j
      BY <1>1, <3>1, FileFound
    <3>4. j # i
      BY <1>2, <3>1 DEF FindFile
    <3>5. inodes'[j] = inodes[j] /\ BytesOf(j)' = BytesOf(j)
      BY <3>4
    <3>6. Content(m) = BytesOf(j) /\ Holds(m) = Len(inodes[j].blocks)
      BY <2>3, <3>3 DEF Content, Holds
    <3>7. Content(m)' = BytesOf(j)' /\ Holds(m)' = Len(inodes'[j].blocks)
      BY <3>2 DEF Content, Holds
    <3>8. QED
      BY <3>5, <3>6, <3>7
  <2>4. QED
    BY <2>2, <2>3
<1>3. QED
  BY <1>2 DEF Contents, Holdings

\* The step in which inode i, which has the name n, gives back its blocks and
\* takes those of s, if any, seen by the store.
LEMMA ExchangeView ==
    ASSUME DiskInv, DiskInv', NEW n \in Names, NEW i \in InodeIds, FindFile(n, i),
           NEW s \in Seq(Blocks), AllocBlocks(Cleared(BlocksOf(i)), s),
           \A j \in InodeIds \ {i} : inodes'[j] = inodes[j],
           inodes'[i].used => inodes'[i].name = n,
           \A b \in Blocks : bitmap'[b] <=> Cleared(BlocksOf(i))[b] \/ In(b, s),
           \A b \in Blocks : ~In(b, s) => data_blocks'[b] = Erased(BlocksOf(i))[b]
    PROVE  /\ n \in FS!Existing
           /\ Contents' = [Contents EXCEPT ![n] = Content(n)']
           /\ Holdings' = [Holdings EXCEPT ![n] = Holds(n)']
           /\ Holds(n) \in Nat /\ Cardinality(FreeBlocks) \in Nat
           /\ Cardinality(FreeBlocks') = Cardinality(FreeBlocks) + Holds(n) - Len(s)
           /\ Cardinality(FreeBlocks') \in Nat
           /\ DiskFull(Cleared(BlocksOf(i)), s) =>
                  Len(s) = Cardinality(FreeBlocks) + Holds(n)
<1>1. NamesOnce /\ TypeOK /\ HeldOnce
  BY DEF DiskInv
<1>2. ~Missing(n) /\ FileOf(n) = i
  BY <1>1, FileFound
<1>3. n \in FS!Existing
  BY <1>2, ExistingIs
<1>4. Holds(n) = Len(inodes[i].blocks) /\ Len(inodes[i].blocks) \in Nat
  BY <1>1, <1>2 DEF Holds, TypeOK, Inode
<1>5. /\ Cardinality(FreeBlocks) \in Nat /\ Cardinality(FreeBlocks') \in Nat
      /\ Cardinality(FreeBlocks') =
             Cardinality(FreeBlocks) + Len(inodes[i].blocks) - Len(s)
      /\ DiskFull(Cleared(BlocksOf(i)), s) => Cardinality(FreeBlocks') = 0
  <2> DEFINE F == {b \in Blocks : ~(Cleared(BlocksOf(i))[b] \/ In(b, s))}
  <2>1. FreeBlocks' = F
    BY DEF FreeBlocks
  <2> HIDE DEF F
  <2>2. F = {b \in Blocks : ~(Cleared(BlocksOf(i))[b] \/ In(b, s))}
    BY DEF F
  <2>3. /\ Cardinality(FreeBlocks) \in Nat /\ Cardinality(F) \in Nat
        /\ Cardinality(F) = Cardinality(FreeBlocks) + Len(inodes[i].blocks) - Len(s)
        /\ DiskFull(Cleared(BlocksOf(i)), s) => Cardinality(F) = 0
    BY <2>2, FreeCount
  <2>4. QED
    BY <2>1, <2>3
<1>6. ASSUME NEW j \in InodeIds \ {i} PROVE BytesOf(j)' = BytesOf(j)
  <2>1. inodes'[j] = inodes[j] /\ j \in InodeIds /\ j # i
    OBVIOUS
  <2>2. ASSUME NEW k \in 1..Len(inodes[j].blocks)
        PROVE  data_blocks'[inodes[j].blocks[k]] = data_blocks[inodes[j].blocks[k]]
    <3> DEFINE b == inodes[j].blocks[k]
    <3>1. b \in Blocks /\ Erased(BlocksOf(i))[b] = data_blocks[b]
      BY <1>1, <2>1, OthersKept
    <3>2. b \notin BlocksOf(i)
      <4>1. \A l \in 1..Len(inodes[i].blocks) : inodes[i].blocks[l] # b
        BY <1>1, <2>1 DEF HeldOnce
      <4> HIDE DEF b
      <4>2. QED
        BY <4>1 DEF BlocksOf
    <3>3. bitmap[b]
      BY <2>1, <3>1 DEF DiskInv, BitmapExact, In
    <3>4. Cleared(BlocksOf(i))[b]
      BY <3>1, <3>2, <3>3 DEF Cleared
    <3>5. ~In(b, s)
      BY <3>4 DEF AllocBlocks, In
    <3>6. QED
      BY <3>1, <3>5
  <2>3. QED
    BY <2>1, <2>2, KeptBytes
<1>7. /\ Contents' = [Contents EXCEPT ![n] = Content(n)']
      /\ Holdings' = [Holdings EXCEPT ![n] = Holds(n)']
  <2>1. inodes[i].used => inodes[i].name = n
    BY DEF FindFile
  <2>2. \A j \in InodeIds \ {i} : inodes'[j] = inodes[j] /\ BytesOf(j)' = BytesOf(j)
    BY <1>6
  <2>3. QED
    BY <2>1, <2>2, OthersView
<1>8. Len(s) \in Nat
  OBVIOUS
<1>9. QED
  BY <1>3, <1>4, <1>5, <1>7, <1>8

\* What the inode of a written file says of it afterwards.
LEMMA WrittenView ==
    ASSUME DiskInv', NEW n \in Names, NEW i \in InodeIds, FindFile(n, i)'
    PROVE  Content(n)' = BytesOf(i)' /\ Holds(n)' = Len(inodes'[i].blocks)
<1>1. ~Missing(n)' /\ FileOf(n)' = i
  BY FileFoundNext DEF DiskInv
<1>2. QED
  BY <1>1 DEF Content, Holds

\* An inode of size 0 has nothing to read.
LEMMA EmptyFile ==
    ASSUME DiskInv', NEW i \in InodeIds, inodes'[i].size = 0
    PROVE  BytesOf(i)' = << >>
<1>1. inodes'[i].blocks \in Seq(Blocks)
  BY DEF DiskInv, TypeOK, Inode
<1>2. 0 <= BlockSize * Len(inodes'[i].blocks)
  BY <1>1, VirtualFSAssumption
<1>3. BytesOf(i)' = [x \in 1..0 |->
          data_blocks'[inodes'[i].blocks[(x - 1) \div BlockSize + 1]][(x - 1) % BlockSize]]
  BY <1>2 DEF BytesOf
<1>4. QED
  BY <1>3

\* The calls the program refuses are the ones that the store fails.
LEMMA RefuseMaps ==
    ASSUME Refuse
    PROVE  FS!Fail
BY DEF Refuse, FS!Fail, Missing, FindFile, BytesOf, FileOf

\* What a step of the store says, in terms of the disk.
LEMMA ReplaceMaps ==
    ASSUME NEW n \in Names, NEW d, NEW blocks,
           Contents' = [Contents EXCEPT ![n] = d],
           Holdings' = [Holdings EXCEPT ![n] = blocks],
           Cardinality(FreeBlocks') = Cardinality(FreeBlocks) + Holds(n) - blocks,
           content' = << >>
    PROVE  FS!Replace(n, d, blocks)
<1>1. Holdings[n] = Holds(n)
  BY DEF Holdings
<1>2. Cardinality(FreeBlocks') = Cardinality(FreeBlocks) + Holdings[n] - blocks
  BY <1>1
<1>3. QED
  BY <1>2 DEF FS!Replace, Contents, Content, Holdings, Holds, FreeBlocks

\* my_write of a string that does not fit into one file.
LEMMA TooLargeMaps ==
    ASSUME DiskInv, DiskInv', NEW n \in Names, NEW d \in Data, NEW i \in InodeIds,
           FindFile(n, i), NeededBlocks(d) > BlocksPerFile, WriteTooLarge(i)
    PROVE  FS!Write(n, d)
<1>1. inodes \in [InodeIds -> Inode] /\ bitmap \in [Blocks -> BOOLEAN]
  BY DEF DiskInv, TypeOK
<1>2. /\ \A j \in InodeIds \ {i} : inodes'[j] = inodes[j]
      /\ inodes'[i].blocks = << >> /\ inodes'[i].size = 0
      /\ FindFile(n, i)'
  BY <1>1 DEF WriteTooLarge, FindFile, Inode
<1>3. << >> \in Seq(Blocks) /\ AllocBlocks(Cleared(BlocksOf(i)), << >>)
  BY DEF AllocBlocks
<1>4. \A b : ~In(b, << >>)
  BY DEF In
<1>5. \A b \in Blocks : bitmap'[b] <=> Cleared(BlocksOf(i))[b] \/ In(b, << >>)
  BY <1>4 DEF WriteTooLarge
<1>6. /\ n \in FS!Existing
      /\ Contents' = [Contents EXCEPT ![n] = Content(n)']
      /\ Holdings' = [Holdings EXCEPT ![n] = Holds(n)']
      /\ Cardinality(FreeBlocks') = Cardinality(FreeBlocks) + Holds(n) - Len(<< >>)
  <2>1. inodes'[i].used => inodes'[i].name = n
    BY <1>2 DEF FindFile
  <2>2. \A b \in Blocks : ~In(b, << >>) => data_blocks'[b] = Erased(BlocksOf(i))[b]
    BY DEF WriteTooLarge
  <2>3. PICK s \in Seq(Blocks) : s = << >>
    BY <1>3
  <2>4. /\ AllocBlocks(Cleared(BlocksOf(i)), s)
        /\ \A b \in Blocks : bitmap'[b] <=> Cleared(BlocksOf(i))[b] \/ In(b, s)
        /\ \A b \in Blocks : ~In(b, s) => data_blocks'[b] = Erased(BlocksOf(i))[b]
        /\ \A j \in InodeIds \ {i} : inodes'[j] = inodes[j]
    BY <1>2, <1>3, <1>5, <2>2, <2>3
  <2>5. /\ n \in FS!Existing
        /\ Contents' = [Contents EXCEPT ![n] = Content(n)']
        /\ Holdings' = [Holdings EXCEPT ![n] = Holds(n)']
        /\ Cardinality(FreeBlocks') = Cardinality(FreeBlocks) + Holds(n) - Len(s)
    BY <2>1, <2>4, ExchangeView
  <2>6. QED
    BY <2>3, <2>5
<1>7. Content(n)' = << >> /\ Holds(n)' = 0
  BY <1>2, WrittenView, EmptyFile
<1>8. FS!Replace(n, << >>, 0)
  BY <1>6, <1>7, ReplaceMaps DEF WriteTooLarge
<1>9. QED
  BY <1>6, <1>8 DEF FS!Write, FS!BlocksFor, NeededBlocks, WriteTooLarge

\* my_read of a file whose write was complete returns what was written.
LEMMA ReadsBack ==
    ASSUME DiskInv', NEW i \in InodeIds, NEW d \in Data, NEW s \in Seq(Blocks),
           Len(s) = NeededBlocks(d), inodes'[i].blocks = s, inodes'[i].size = Len(d),
           NEW old,
           \A k \in 1..Len(s) : data_blocks'[s[k]] = Chunk(d, k, old[s[k]])
    PROVE  BytesOf(i)' = d
<1>1. d \in Seq(Bytes) /\ BlockSize \in Nat \ {0} /\ Len(d) \in Nat /\ Len(s) \in Nat
  BY VirtualFSAssumption
<1>2. Len(d) <= BlockSize * Len(s)
  BY <1>1, RoundUp DEF NeededBlocks
<1>3. BytesOf(i)' = [x \in 1..Len(d) |->
          data_blocks'[s[(x - 1) \div BlockSize + 1]][(x - 1) % BlockSize]]
  BY <1>2 DEF BytesOf
<1>4. ASSUME NEW x \in 1..Len(d)
      PROVE  data_blocks'[s[(x - 1) \div BlockSize + 1]][(x - 1) % BlockSize] = d[x]
  <2> DEFINE k == (x - 1) \div BlockSize + 1
             y == (x - 1) % BlockSize
  <2>1. k \in 1..Len(s) /\ y \in Offsets /\ (k - 1) * BlockSize + y + 1 = x
    <3> DEFINE n == Len(s)
               L == Len(d)
               room == BlockSize * n
    <3>1. L <= room /\ L \in Nat /\ room \in Nat /\ x \in 1..L
      BY <1>1, <1>2
    <3> HIDE DEF room, L
    <3>2. x \in Int /\ 1 <= x /\ x <= room
      BY <3>1
    <3>3. n \in Nat /\ x \in Int /\ 1 <= x /\ x <= BlockSize * n
      BY <1>1, <3>2 DEF room
    <3> HIDE DEF n
    <3>4. /\ k \in 1..n /\ y \in Offsets
          /\ ((x - 1) \div BlockSize) * BlockSize + y + 1 = x
      BY <3>3, Within
    <3>5. (x - 1) \div BlockSize = k - 1
      BY <1>1, <3>3
    <3>6. QED
      BY <3>4, <3>5 DEF n
  <2> HIDE DEF k, y
  <2>2. Chunk(d, k, old[s[k]])[y] = d[x]
    <3>1. (k - 1) * BlockSize + y + 1 = x /\ x <= Len(d)
      BY <1>1, <2>1
    <3>2. QED
      BY <2>1, <3>1 DEF Chunk
  <2>3. QED
    BY <2>1, <2>2 DEF k, y
<1>5. d = [x \in 1..Len(d) |-> d[x]]
  BY <1>1
<1>6. QED
  BY <1>3, <1>4, <1>5

\* my_write of a string that fits, complete or cut off by a full disk.
LEMMA StoreMaps ==
    ASSUME DiskInv, DiskInv', NEW n \in Names, NEW d \in Data, NEW i \in InodeIds,
           FindFile(n, i), NEW s \in Seq(Blocks),
           NeededBlocks(d) <= BlocksPerFile, Len(s) <= NeededBlocks(d),
           AllocBlocks(Cleared(BlocksOf(i)), s),
           Len(s) = NeededBlocks(d) \/ DiskFull(Cleared(BlocksOf(i)), s),
           Store(i, d, s)
    PROVE  FS!Write(n, d)
<1> DEFINE er == Erased(BlocksOf(i))
           done == Len(s) = NeededBlocks(d)
           room == Cardinality(FreeBlocks) + Holds(n)
<1>1. /\ inodes \in [InodeIds -> Inode] /\ bitmap \in [Blocks -> BOOLEAN]
      /\ d \in Seq(Bytes) /\ Len(d) \in Nat /\ Len(s) \in Nat
  BY VirtualFSAssumption DEF DiskInv, TypeOK
<1>2. NeededBlocks(d) \in Nat
  BY <1>1, VirtualFSAssumption, RoundUp DEF NeededBlocks
<1>3. /\ inodes' = [inodes EXCEPT ![i].blocks = s, ![i].size = IF done THEN Len(d) ELSE 0]
      /\ \A b \in Blocks : bitmap'[b] <=> Cleared(BlocksOf(i))[b] \/ In(b, s)
      /\ \A b \in Blocks : ~In(b, s) => data_blocks'[b] = er[b]
      /\ \A b \in Blocks : In(b, s) =>
             data_blocks'[b] = Chunk(d, CHOOSE k \in 1..Len(s) : s[k] = b, er[b])
      /\ ok' = done /\ content' = << >>
  BY DEF Store, In
<1>4. /\ \A j \in InodeIds \ {i} : inodes'[j] = inodes[j]
      /\ inodes'[i].blocks = s /\ inodes'[i].size = IF done THEN Len(d) ELSE 0
      /\ FindFile(n, i)'
  BY <1>1, <1>3 DEF FindFile, Inode
<1>5. /\ n \in FS!Existing
      /\ Contents' = [Contents EXCEPT ![n] = Content(n)']
      /\ Holdings' = [Holdings EXCEPT ![n] = Holds(n)']
      /\ Holds(n) \in Nat /\ Cardinality(FreeBlocks) \in Nat
      /\ Cardinality(FreeBlocks') = room - Len(s) /\ Cardinality(FreeBlocks') \in Nat
      /\ DiskFull(Cleared(BlocksOf(i)), s) => Len(s) = room
  <2>1. inodes'[i].used => inodes'[i].name = n
    BY <1>4 DEF FindFile
  <2>2. /\ \A j \in InodeIds \ {i} : inodes'[j] = inodes[j]
        /\ \A b \in Blocks : bitmap'[b] <=> Cleared(BlocksOf(i))[b] \/ In(b, s)
        /\ \A b \in Blocks : ~In(b, s) => data_blocks'[b] = Erased(BlocksOf(i))[b]
    BY <1>3, <1>4
  <2>3. /\ n \in FS!Existing
        /\ Contents' = [Contents EXCEPT ![n] = Content(n)']
        /\ Holdings' = [Holdings EXCEPT ![n] = Holds(n)']
        /\ Holds(n) \in Nat /\ Cardinality(FreeBlocks) \in Nat
        /\ Cardinality(FreeBlocks') = Cardinality(FreeBlocks) + Holds(n) - Len(s)
        /\ Cardinality(FreeBlocks') \in Nat
        /\ DiskFull(Cleared(BlocksOf(i)), s) =>
               Len(s) = Cardinality(FreeBlocks) + Holds(n)
    BY <2>1, <2>2, ExchangeView
  <2>4. QED
    BY <2>3
<1>6. Content(n)' = BytesOf(i)' /\ Holds(n)' = Len(s)
  BY <1>4, WrittenView
<1>7. CASE done
  <2>1. \A k, l \in 1..Len(s) : s[k] = s[l] => k = l
    <3>1. \A k, l \in 1..Len(s) : k < l => s[k] < s[l]
      BY DEF AllocBlocks
    <3>2. \A k \in 1..Len(s) : s[k] \in Int
      BY VirtualFSAssumption DEF Blocks
    <3>3. QED
      BY <3>1, <3>2
  <2>2. BytesOf(i)' = d
    <3>1. ASSUME NEW k \in 1..Len(s)
          PROVE  data_blocks'[s[k]] = Chunk(d, k, er[s[k]])
      <4>1. s[k] \in Blocks /\ In(s[k], s)
        BY DEF In
      <4>2. (CHOOSE l \in 1..Len(s) : s[l] = s[k]) = k
        BY <2>1
      <4>3. QED
        BY <1>3, <4>1, <4>2
    <3>2. Len(s) = NeededBlocks(d) /\ inodes'[i].blocks = s /\ inodes'[i].size = Len(d)
      BY <1>4, <1>7
    <3>3. QED
      BY <3>1, <3>2, ReadsBack
  <2>3. FS!Replace(n, d, Len(s))
    <3>1. /\ Contents' = [Contents EXCEPT ![n] = d]
          /\ Holdings' = [Holdings EXCEPT ![n] = Len(s)]
          /\ Cardinality(FreeBlocks') = Cardinality(FreeBlocks) + Holds(n) - Len(s)
          /\ content' = << >>
      BY <1>3, <1>5, <1>6, <2>2
    <3>2. QED
      BY <3>1, ReplaceMaps
  <2>4. NeededBlocks(d) <= room
    BY <1>1, <1>5, <1>7
  <2>5. NeededBlocks(d) <= Cardinality(FreeBlocks) + Holdings[n] /\ ok' = TRUE
    BY <1>3, <1>7, <2>4 DEF Holdings
  <2>6. QED
    BY <1>5, <1>7, <2>3, <2>5
       DEF FS!Write, FS!BlocksFor, NeededBlocks, FreeBlocks, Holdings, Holds
<1>8. CASE ~done
  <2>1. Len(s) = room /\ ~(NeededBlocks(d) <= room)
    BY <1>1, <1>2, <1>5, <1>8
  <2>2. BytesOf(i)' = << >>
    BY <1>4, <1>8, EmptyFile
  <2>3. FS!Replace(n, << >>, room)
    <3>1. /\ Contents' = [Contents EXCEPT ![n] = << >>]
          /\ Holdings' = [Holdings EXCEPT ![n] = Len(s)]
          /\ Cardinality(FreeBlocks') = Cardinality(FreeBlocks) + Holds(n) - Len(s)
          /\ content' = << >>
      BY <1>3, <1>5, <1>6, <2>2
    <3>2. FS!Replace(n, << >>, Len(s))
      BY <3>1, ReplaceMaps
    <3>3. QED
      BY <2>1, <3>2
  <2>4. /\ ~(NeededBlocks(d) <= Cardinality(FreeBlocks) + Holdings[n]) /\ ok' = FALSE
        /\ FS!Replace(n, << >>, Cardinality(FreeBlocks) + Holdings[n])
    BY <1>3, <1>8, <2>1, <2>3 DEF Holdings
  <2>5. QED
    BY <1>5, <2>4 DEF FS!Write, FS!BlocksFor, NeededBlocks, FreeBlocks, Holdings, Holds
<1>9. QED
  BY <1>7, <1>8

\* my_write.
LEMMA WriteMaps ==
    ASSUME DiskInv, DiskInv', NEW n \in Names, NEW d \in Data, Write(n, d)
    PROVE  FS!Write(n, d)
<1>1. CASE Missing(n) /\ Refuse
  BY <1>1, ExistingIs, RefuseMaps DEF FS!Write
<1>2. ASSUME NEW i \in InodeIds, FindFile(n, i),
             NeededBlocks(d) > BlocksPerFile, WriteTooLarge(i)
      PROVE  FS!Write(n, d)
  BY <1>2, TooLargeMaps
<1>3. ASSUME NEW i \in InodeIds, FindFile(n, i),
             ~(NeededBlocks(d) > BlocksPerFile), WriteBlocks(i, d)
      PROVE  FS!Write(n, d)
  <2>1. NeededBlocks(d) <= BlocksPerFile
    <3>1. d \in Seq(Bytes) /\ Len(d) \in Nat /\ BlocksPerFile \in Nat
      BY VirtualFSAssumption
    <3>2. NeededBlocks(d) \in Nat
      BY <3>1, VirtualFSAssumption, RoundUp DEF NeededBlocks
    <3>3. QED
      BY <1>3, <3>1, <3>2
  <2>2. PICK len \in 0..BlocksPerFile : \E s \in [1..len -> Blocks] :
            /\ len <= NeededBlocks(d)
            /\ AllocBlocks(Cleared(BlocksOf(i)), s)
            /\ len = NeededBlocks(d) \/ DiskFull(Cleared(BlocksOf(i)), s)
            /\ Store(i, d, s)
    BY <1>3 DEF WriteBlocks
  <2>3. PICK s \in [1..len -> Blocks] :
            /\ len <= NeededBlocks(d)
            /\ AllocBlocks(Cleared(BlocksOf(i)), s)
            /\ len = NeededBlocks(d) \/ DiskFull(Cleared(BlocksOf(i)), s)
            /\ Store(i, d, s)
    BY <2>2
  <2>4. s \in Seq(Blocks) /\ Len(s) = len
    BY VirtualFSAssumption
  <2>5. QED
    BY <1>3, <2>1, <2>3, <2>4, StoreMaps
<1>4. QED
  BY <1>1, <1>2, <1>3 DEF Write

\* my_delete.
LEMMA DeleteMaps ==
    ASSUME DiskInv, DiskInv', NEW n \in Names, Delete(n)
    PROVE  FS!Delete(n)
<1>1. CASE Missing(n) /\ Refuse
  BY <1>1, ExistingIs, RefuseMaps DEF FS!Delete
<1>2. ASSUME NEW i \in InodeIds, FindFile(n, i), bitmap' = Cleared(BlocksOf(i)),
             data_blocks' = Erased(BlocksOf(i)),
             inodes' = [inodes EXCEPT ![i] = UnusedInode], Succeed
      PROVE  FS!Delete(n)
  <2>1. inodes \in [InodeIds -> Inode] /\ NamesOnce
    BY DEF DiskInv, TypeOK
  <2>2. (\A j \in InodeIds \ {i} : inodes'[j] = inodes[j]) /\ ~inodes'[i].used
    BY <1>2, <2>1 DEF UnusedInode
  <2>3. << >> \in Seq(Blocks) /\ AllocBlocks(Cleared(BlocksOf(i)), << >>)
    BY DEF AllocBlocks
  <2>4. /\ \A b \in Blocks : bitmap'[b] <=> Cleared(BlocksOf(i))[b] \/ In(b, << >>)
        /\ \A b \in Blocks : ~In(b, << >>) => data_blocks'[b] = Erased(BlocksOf(i))[b]
    BY <1>2 DEF In
  <2>5. /\ n \in FS!Existing
        /\ Contents' = [Contents EXCEPT ![n] = Content(n)']
        /\ Holdings' = [Holdings EXCEPT ![n] = Holds(n)']
        /\ Holds(n) \in Nat /\ Cardinality(FreeBlocks) \in Nat
        /\ Cardinality(FreeBlocks') = Cardinality(FreeBlocks) + Holds(n) - Len(<< >>)
    BY <1>2, <2>2, <2>3, <2>4, ExchangeView
  <2>6. Missing(n)'
    BY <1>2, <2>1, <2>2 DEF Missing, FindFile, NamesOnce
  <2>7. Content(n)' = NoName /\ Holds(n)' = 0
    BY <2>6 DEF Content, Holds
  <2>8. Cardinality(FreeBlocks') = Cardinality(FreeBlocks) + Holdings[n]
    BY <2>5 DEF Holdings
  <2>9. QED
    BY <1>2, <2>5, <2>7, <2>8
       DEF FS!Delete, Succeed, Contents, Content, Holdings, Holds, FreeBlocks
<1>3. QED
  BY <1>1, <1>2 DEF Delete

\* my_read.
LEMMA ReadMaps ==
    ASSUME DiskInv, NEW n \in Names, Read(n)
    PROVE  FS!Read(n)
<1>1. CASE Missing(n) /\ Refuse
  BY <1>1, ExistingIs, RefuseMaps DEF FS!Read
<1>2. ASSUME NEW i \in InodeIds, FindFile(n, i), content' = BytesOf(i), ok' = TRUE,
             UNCHANGED <<inodes, bitmap, data_blocks>>
      PROVE  FS!Read(n)
  <2>1. ~Missing(n) /\ FileOf(n) = i
    BY <1>2, FileFound DEF DiskInv
  <2>2. n \in FS!Existing
    BY <2>1, ExistingIs
  <2>3. Contents[n] = BytesOf(i)
    BY <2>1 DEF Contents, Content
  <2>4. Contents' = Contents /\ Holdings' = Holdings /\ FreeBlocks' = FreeBlocks
    BY <1>2 DEF Contents, Content, Holdings, Holds, FreeBlocks, Missing, FindFile, FileOf,
                BytesOf
  <2>5. QED
    BY <1>2, <2>2, <2>3, <2>4
       DEF FS!Read, Contents, Content, Holdings, Holds, FreeBlocks
<1>3. QED
  BY <1>1, <1>2 DEF Read

\* my_create.
LEMMA CreateMaps ==
    ASSUME DiskInv, DiskInv', UsedIsNamed, NEW n \in Names, Create(n)
    PROVE  FS!Create(n)
<1>1. CASE (n \notin LegalNames \/ ~Missing(n) \/ \A i \in InodeIds : inodes[i].used) /\ Refuse
  <2>1. ~(n \in LegalNames /\ n \notin FS!Existing /\ Cardinality(FS!Existing) < MaxFiles)
    BY <1>1, ExistingIs, TableCount
  <2>2. FS!Fail
    BY <1>1, RefuseMaps
  <2>3. QED
    BY <2>1, <2>2, SameCount DEF FS!Create
<1>2. ASSUME n \in LegalNames, Missing(n), NEW i \in InodeIds, ~inodes[i].used,
             inodes' = [inodes EXCEPT ![i] =
                 [used |-> TRUE, name |-> n, size |-> 0, blocks |-> << >>]],
             Succeed, UNCHANGED <<bitmap, data_blocks>>
      PROVE  FS!Create(n)
  <2>1. inodes \in [InodeIds -> Inode]
    BY DEF DiskInv, TypeOK
  <2>2. /\ \A j \in InodeIds \ {i} : inodes'[j] = inodes[j]
        /\ inodes'[i].size = 0 /\ inodes'[i].blocks = << >> /\ inodes'[i].name = n
        /\ FindFile(n, i)'
    BY <1>2, <2>1 DEF FindFile
  <2>3. \A j \in InodeIds \ {i} : BytesOf(j)' = BytesOf(j)
    BY <1>2, <2>2, KeptBytes
  <2>4. /\ Contents' = [Contents EXCEPT ![n] = Content(n)']
        /\ Holdings' = [Holdings EXCEPT ![n] = Holds(n)']
    BY <1>2, <2>2, <2>3, OthersView
  <2>5. Content(n)' = << >> /\ Holds(n)' = 0
    BY <2>2, WrittenView, EmptyFile
  <2>6. Holdings' = Holdings
    BY <1>2, <2>4, <2>5 DEF Holdings, Holds
  <2>7. n \in LegalNames /\ n \notin FS!Existing /\ Cardinality(FS!Existing) < MaxFiles
    BY <1>2, ExistingIs, TableCount
  <2>8. /\ Contents' = [Contents EXCEPT ![n] = << >>]
        /\ ok' = TRUE /\ content' = << >>
        /\ Holdings' = Holdings /\ Cardinality(FreeBlocks') = Cardinality(FreeBlocks)
    BY <1>2, <2>4, <2>5, <2>6 DEF Succeed, FreeBlocks
  <2>9. QED
    BY <2>7, <2>8, SameCount DEF FS!Create, Contents, Content, Holdings, Holds, FreeBlocks
<1>3. QED
  BY <1>1, <1>2 DEF Create

-----------------------------------------------------------------------------
\* An inode is named when my_create takes it and cleared when my_delete gives
\* it up.
LEMMA NamedInit == Init => UsedIsNamed
BY DEF Init, UsedIsNamed, UnusedInode

LEMMA NamedNext ==
    ASSUME DiskInv, UsedIsNamed, [Next]_vars
    PROVE  UsedIsNamed'
<1>1. inodes \in [InodeIds -> Inode]
  BY DEF DiskInv, TypeOK
<1>2. CASE UNCHANGED inodes
  BY <1>2 DEF UsedIsNamed
<1>3. ASSUME NEW n \in Names, NEW i \in InodeIds,
             inodes' = [inodes EXCEPT ![i] =
                 [used |-> TRUE, name |-> n, size |-> 0, blocks |-> << >>]]
      PROVE  UsedIsNamed'
  BY <1>1, <1>3 DEF UsedIsNamed
<1>4. ASSUME NEW i \in InodeIds, inodes' = [inodes EXCEPT ![i] = UnusedInode]
      PROVE  UsedIsNamed'
  BY <1>1, <1>4 DEF UsedIsNamed, UnusedInode
<1>5. ASSUME NEW i \in InodeIds, NEW d \in Data, WriteTooLarge(i) \/ WriteBlocks(i, d)
      PROVE  UsedIsNamed'
  <2>1. PICK s, z : inodes' = [inodes EXCEPT ![i].blocks = s, ![i].size = z]
    <3>1. CASE WriteTooLarge(i)
      BY <3>1 DEF WriteTooLarge
    <3>2. CASE WriteBlocks(i, d)
      <4>1. PICK len, q : Store(i, d, q)
        BY <3>2 DEF WriteBlocks
      <4>2. QED
        BY <4>1 DEF Store
    <3>3. QED
      BY <1>5, <3>1, <3>2
  <2>2. \A j \in InodeIds :
            inodes'[j].used = inodes[j].used /\ inodes'[j].name = inodes[j].name
    BY <1>1, <2>1 DEF Inode
  <2>3. QED
    BY <2>2 DEF UsedIsNamed
<1>6. QED
  BY <1>2, <1>3, <1>4, <1>5 DEF Next, vars, Create, Read, Delete, Write, Refuse

\* Every call is a call of the store, or changes nothing.
LEMMA StoreNextMaps ==
    ASSUME DiskInv, DiskInv', UsedIsNamed, [Next]_vars
    PROVE  [FS!StoreNext]_(FS!store_vars)
<1>1. CASE UNCHANGED vars
  BY <1>1 DEF vars, FS!store_vars, Missing, FindFile, FileOf, BytesOf
<1>2. CASE Next
  <2>1. ASSUME NEW n \in Names, Create(n) PROVE FS!StoreNext
    BY <2>1, CreateMaps DEF FS!StoreNext
  <2>2. ASSUME NEW n \in Names, Read(n) PROVE FS!StoreNext
    BY <2>2, ReadMaps DEF FS!StoreNext
  <2>3. ASSUME NEW n \in Names, Delete(n) PROVE FS!StoreNext
    BY <2>3, DeleteMaps DEF FS!StoreNext
  <2>4. ASSUME NEW n \in Names, NEW d \in Data, Write(n, d) PROVE FS!StoreNext
    BY <2>4, WriteMaps DEF FS!StoreNext
  <2>5. QED
    BY <1>2, <2>1, <2>2, <2>3, <2>4 DEF Next
<1>3. QED
  BY <1>1, <1>2

\* The empty disk is the empty store.
LEMMA StoreInitMaps == Init => FS!StoreInit
<1> SUFFICES ASSUME Init PROVE FS!StoreInit
  OBVIOUS
<1>1. \A n \in Names : Missing(n)
  BY DEF Init, Missing, FindFile, UnusedInode
<1>2. FreeBlocks = Blocks
  BY DEF Init, FreeBlocks
<1>3. Cardinality(FreeBlocks) = MaxBlocks
  BY <1>2, BlocksFinite
<1>4. QED
  BY <1>1, <1>3 DEF Init, FS!StoreInit, FreeBlocks

\* For any disk, names and strings, the file system implements the store of
\* named byte strings: my_read returns what the last complete my_write stored,
\* whatever became of other files, and a call fails exactly when the store has
\* a reason to (my_create, my_write, my_read, my_delete).
THEOREM FileSystemImplementsStore == Spec => ImplementsFileStore
<1>1. Spec => [](DiskInv /\ UsedIsNamed)
  <2>1. Init => DiskInv /\ UsedIsNamed
    BY InitInv, NamedInit
  <2>2. DiskInv /\ UsedIsNamed /\ [Next]_vars => (DiskInv /\ UsedIsNamed)'
    BY NextInv, NamedNext
  <2>3. QED
    BY <2>1, <2>2, PTL DEF Spec
<1>2. Init => FS!StoreInit
  BY StoreInitMaps
<1>3. DiskInv /\ UsedIsNamed /\ DiskInv' /\ [Next]_vars => [FS!StoreNext]_(FS!store_vars)
  BY StoreNextMaps
<1>4. QED
  BY <1>1, <1>2, <1>3, PTL DEF Spec, ImplementsFileStore, FS!StoreSpec
=============================================================================
