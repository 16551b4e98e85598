--------------------------- MODULE VirtualMemory ---------------------------
(***************************************************************************)
(* VirtualMemory (src/virtual_memory.cpp): a page table, the frames and a  *)
(* replacement order, under FIFO and LRU.                                  *)
(*                                                                         *)
(*   valid, frame_id   the fields of page_table_[p]                        *)
(*   frames            frames_                                             *)
(*   fifo_queue, lru_list   fifo_queue_ (oldest first) and lru_list_       *)
(*                     (most recently used first)                          *)
(*   algo              algo_                                               *)
(*   page_faults, total_accesses   the two counters                        *)
(*   loaded_at, used_at   history: the value of total_accesses when a page *)
(*                     was last loaded, and last accessed                  *)
(*                                                                         *)
(* accessPage of a page outside the table returns at once and changes      *)
(* nothing.  With no frame at all the code would take the front of an      *)
(* empty list; every caller has at least one.                              *)
(***************************************************************************)
EXTENDS Integers, SequencesExt

CONSTANTS NumFrames, NumPages,
          MaxAccesses        \* bound on total_accesses

ASSUME VirtualMemoryAssumption ==
    NumFrames \in Nat \ {0} /\ NumPages \in Nat /\ MaxAccesses \in Nat

VARIABLES valid, frame_id, frames, fifo_queue, lru_list, algo,
          page_faults, total_accesses, loaded_at, used_at

table_vars == <<valid, frame_id, frames>>
order_vars == <<fifo_queue, lru_list>>
count_vars == <<page_faults, total_accesses>>
time_vars == <<loaded_at, used_at>>
vm_vars == <<table_vars, order_vars, algo, count_vars, time_vars>>

PageReplaceAlgo == {"FIFO", "LRU"}
Pages == 0..(NumPages - 1)
Frames == 0..(NumFrames - 1)
None == -1

VmInit ==
    /\ valid = [p \in Pages |-> FALSE]
    /\ frame_id = [p \in Pages |-> None]
    /\ frames = [f \in Frames |-> None]
    /\ fifo_queue = << >> /\ lru_list = << >>
    /\ algo \in PageReplaceAlgo
    /\ page_faults = 0 /\ total_accesses = 0
    /\ loaded_at = [p \in Pages |-> 0]
    /\ used_at = [p \in Pages |-> 0]

-----------------------------------------------------------------------------
(* accessPage.                                                             *)

PushFront(seq, p) == <<p>> \o seq

\* lru_list_.remove(p): p is in the list at most once (TablesAgree).
RemovePage(seq, p) ==
    IF \E k \in 1..Len(seq) : seq[k] = p
    THEN RemoveAt(seq, CHOOSE k \in 1..Len(seq) : seq[k] = p)
    ELSE seq

\* Mutant: a hit leaves the LRU list as it is.
MutantHit(p) ==
    /\ valid[p]
    /\ UNCHANGED <<fifo_queue, lru_list, table_vars, page_faults, loaded_at>>

\* The page is resident; under LRU it moves to the front.
Hit(p) ==
    /\ valid[p]
    /\ lru_list' = IF algo = "LRU" THEN PushFront(RemovePage(lru_list, p), p)
                                   ELSE lru_list
    /\ UNCHANGED <<fifo_queue, table_vars, page_faults, loaded_at>>

\* Page p is put into frame f, in place of the victim if there is one.
Install(p, f, victims) ==
    /\ valid' = [q \in Pages |-> IF q = p THEN TRUE
                                 ELSE IF q \in victims THEN FALSE ELSE valid[q]]
    /\ frame_id' = [q \in Pages |-> IF q = p THEN f
                                    ELSE IF q \in victims THEN None ELSE frame_id[q]]
    /\ frames' = [frames EXCEPT ![f] = p]
    /\ page_faults' = page_faults + 1
    /\ loaded_at' = [loaded_at EXCEPT ![p] = total_accesses + 1]

FreeFrame(f) == frames[f] = None

\* The first free frame takes the page.
LoadFree(p) ==
    /\ ~valid[p]
    /\ \E f \in Frames :
          /\ FreeFrame(f)
          /\ \A g \in Frames : g < f => ~FreeFrame(g)
          /\ Install(p, f, {})
    /\ IF algo = "FIFO"
       THEN fifo_queue' = Append(fifo_queue, p) /\ UNCHANGED lru_list
       ELSE lru_list' = PushFront(lru_list, p) /\ UNCHANGED fifo_queue

\* replaceFIFO: the front of the queue goes.
ReplaceFIFO(p) ==
    /\ ~valid[p] /\ algo = "FIFO"
    /\ \A f \in Frames : ~FreeFrame(f)
    /\ Install(p, frame_id[Head(fifo_queue)], {Head(fifo_queue)})
    /\ fifo_queue' = Append(Tail(fifo_queue), p)
    /\ UNCHANGED lru_list

\* Mutant: the victim leaves its frame and stays in the list.
MutantReplaceLRU(p) ==
    /\ ~valid[p] /\ algo = "LRU"
    /\ \A f \in Frames : ~FreeFrame(f)
    /\ Install(p, frame_id[Last(lru_list)], {Last(lru_list)})
    /\ lru_list' = PushFront(lru_list, p)
    /\ UNCHANGED fifo_queue

\* replaceLRU: the back of the list goes.
ReplaceLRU(p) ==
    /\ ~valid[p] /\ algo = "LRU"
    /\ \A f \in Frames : ~FreeFrame(f)
    /\ Install(p, frame_id[Last(lru_list)], {Last(lru_list)})
    /\ lru_list' = PushFront(Front(lru_list), p)
    /\ UNCHANGED fifo_queue

AccessPage(p) ==
    /\ total_accesses < MaxAccesses
    /\ total_accesses' = total_accesses + 1
    /\ used_at' = [used_at EXCEPT ![p] = total_accesses + 1]
    /\ Hit(p) \/ LoadFree(p) \/ ReplaceFIFO(p) \/ ReplaceLRU(p)
    /\ UNCHANGED algo

-----------------------------------------------------------------------------
\* VirtualMemory::reset.
Reset ==
    /\ valid' = [p \in Pages |-> FALSE]
    /\ frame_id' = [p \in Pages |-> None]
    /\ frames' = [f \in Frames |-> None]
    /\ fifo_queue' = << >> /\ lru_list' = << >>
    /\ page_faults' = 0 /\ total_accesses' = 0
    /\ loaded_at' = [p \in Pages |-> 0]
    /\ used_at' = [p \in Pages |-> 0]

\* setAlgorithm resets too; reset() alone keeps the algorithm.
SetAlgorithm(a) == algo' = a /\ Reset

VmNext ==
    \/ \E p \in Pages : AccessPage(p)
    \/ \E a \in PageReplaceAlgo : SetAlgorithm(a)

VmSpec == VmInit /\ [][VmNext]_vm_vars

-----------------------------------------------------------------------------
(* Correctness.                                                            *)

VmTypeOK ==
    /\ valid \in [Pages -> BOOLEAN]
    /\ frame_id \in [Pages -> Frames \union {None}]
    /\ frames \in [Frames -> Pages \union {None}]
    /\ fifo_queue \in Seq(Pages) /\ lru_list \in Seq(Pages)
    /\ algo \in PageReplaceAlgo
    /\ page_faults \in Nat /\ total_accesses \in Nat
    /\ loaded_at \in [Pages -> Nat] /\ used_at \in [Pages -> Nat]

\* The replacement order that the algorithm in force keeps, oldest last.
Order == IF algo = "FIFO" THEN fifo_queue ELSE lru_list

\* The three records of what is in memory agree: a page is valid exactly if
\* it is in the frame its entry names and nowhere else, the order in force
\* has exactly the valid pages, once each, the other is empty, and the frames
\* were filled one fault after the other: a victim always exists, and none is
\* taken while a frame is free (accessPage, replaceFIFO, replaceLRU, reset).
TablesAgree ==
    /\ \A p \in Pages : valid[p] => frame_id[p] \in Frames /\ frames[frame_id[p]] = p
    /\ \A p \in Pages : ~valid[p] => frame_id[p] = None
    /\ \A f \in Frames : frames[f] # None => valid[frames[f]] /\ frame_id[frames[f]] = f
    /\ \A f \in Frames : frames[f] # None <=> f < page_faults
    /\ \A p \in Pages : valid[p] <=> \E k \in 1..Len(Order) : Order[k] = p
    /\ \A k, l \in 1..Len(Order) : Order[k] = Order[l] => k = l
    /\ algo = "FIFO" => lru_list = << >>
    /\ algo = "LRU" => fifo_queue = << >>

\* The time that decides who goes first.
Age(p) == IF algo = "FIFO" THEN loaded_at[p] ELSE used_at[p]

\* An access evicts at most one page, only for a page that was not there and
\* when no frame is free, and that page is the one loaded longest ago under
\* FIFO, the one not used for the longest time under LRU, however hits and
\* faults were mixed before.
EvictsOldest ==
    [][\A p \in Pages :
          (valid[p] /\ ~valid'[p] /\ total_accesses' # 0) =>
              /\ \A q \in Pages : valid[q] => Age(p) <= Age(q)
              /\ \A f \in Frames : ~FreeFrame(f)
              /\ \A q \in Pages : valid[q] /\ q # p => valid'[q]]_vm_vars
=============================================================================
