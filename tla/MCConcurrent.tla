----------------------------- MODULE MCConcurrent ------------------------------
(* The reader-writer lock, the ready queues of two schedulers with four     *)
(* coroutines, the heap and the skip lists, and the lock-free containers    *)
(* where their users do not keep apart.  A behaviour is about one of them,  *)
(* the component: RWLock has its own variables, since its theorems need the *)
(* same names, and x1 .. x17 are the other's, 0 where it has fewer.         *)
EXTENDS RWLock, Sequences, TLC

CONSTANTS a1, a2, a3, b1, b2, p, q, m, nil

VARIABLES
  component,
  x1, x2, x3, x4, x5, x6, x7, x8, x9, x10, x11, x12, x13, x14, x15, x16, x17

A == {a1, a2, a3}
B == {b1, b2}
x == <<x1, x2, x3, x4, x5, x6, x7, x8, x9, x10, x11, x12, x13, x14, x15, x16, x17>>

(* std::less                                                                *)
MCLess(a, b) == a < b

Ready == INSTANCE Scheduler WITH
    CPU_CORE <- 2, TIMERS <- 0, Co <- {m, a1, a2, a3}, MainCo <- m,
    NoCo <- nil, APPLY_BUFFER_SIZE <- 1, ready <- x1,
    readyCount <- x2, buffer <- x3, semReady <- x4, schedLock <- x5,
    status <- x6, scheduler <- x7, occupyThread <- x8, stkActive <- x9,
    parked <- x10, pc <- x11, arg <- x12, target <- x13, bag <- x14,
    current <- x15, victim <- x16, trans <- x17

Heap == INSTANCE QuaternaryHeap WITH
    Priority <- {1, 2, 3}, Less <- MCLess, MaxSize <- 11, MaxAll <- 2,
    m_data <- x1, bag <- x2, mode <- x3

Skip == INSTANCE SkipList WITH
    MaxKey <- 4, MaxHeight <- 3, MaxCount <- 2, next <- x1, count <- x2,
    m_size <- x3, answer <- x4

Skip2 == INSTANCE SkipListLockFree WITH
    Thread <- B, MaxKey <- 3, Apart <- TRUE, MAX_HEIGHT <- 2, Limit <- 0,
    SizeModulus <- 16, MaxNodes <- 7, MaxCalls <- 4, key <- x1,
    height <- x2, m_skip <- x3, marked <- x4, linked <- x5,
    ref_count <- x6, holder <- x7, head <- x8, m_size <- x9,
    created <- x10, th <- x11, count <- x12, calls <- x13

Skip3 == INSTANCE SkipListLockFree WITH
    Thread <- A, MaxKey <- 2, Apart <- TRUE, MAX_HEIGHT <- 2, Limit <- 0,
    SizeModulus <- 16, MaxNodes <- 6, MaxCalls <- 4, key <- x1,
    height <- x2, m_skip <- x3, marked <- x4, linked <- x5,
    ref_count <- x6, holder <- x7, head <- x8, m_size <- x9,
    created <- x10, th <- x11, count <- x12, calls <- x13

Queue == INSTANCE QueueLockFree WITH
    Pusher <- B, Popper <- {p, q}, OnePop <- FALSE, MaxNodes <- 2,
    MaxPops <- 2, next <- x1, removal <- x2, tail <- x3, created <- x4,
    freed <- x5, pc <- x6, cur <- x7, mine <- x8, after <- x9,
    linked <- x10, popped <- x11, late <- x12, beside <- x13,
    dangling <- x14

Ring == INSTANCE RingBufferLockFree WITH
    Pusher <- B, Popper <- {p, q}, Capacity <- 2, MaxPush <- 3,
    m_data <- x1, m_write <- x2, m_write_fence <- x3, m_read <- x4,
    m_read_fence <- x5, pc <- x6, idx <- x7, fence <- x8, pushed <- x9,
    popped <- x10

List == INSTANCE ListLockFree WITH
    Thread <- A, MaxNodes <- 2, MaxPops <- 1, next <- x1, pred <- x2,
    removal <- x3, holder <- x4, tail <- x5, m_size <- x6, created <- x7,
    pc <- x8, op <- x9, self <- x10, prev <- x11, succ <- x12,
    owner <- x13, asked <- x14, taken <- x15, pops <- x16

Bits == INSTANCE BitSetLockFree WITH
    Thread <- A, BITS_COUNT <- 3, block_bits <- 2, Phases <- FALSE,
    MaxCalls <- 1, m_block <- x1, pc <- x2, op <- x3, idx <- x4,
    expected <- x5, value <- x6, i <- x7, cur <- x8, bit_idx <- x9,
    ans <- x10, found <- x11, did <- x12, was_set <- x13, picked <- x14,
    calls <- x15

ASSUME
  /\ Heap!QuaternaryHeapAssumption /\ Skip!SkipListAssumption
  /\ Skip2!SkipAssumption /\ Skip3!SkipAssumption
  /\ Queue!QueueAssumption /\ Ring!RingAssumption /\ List!ListAssumption
  /\ Bits!BitSetAssumption

(* What is not used by a component of n variables.                          *)
Zero16 == x17 = 0
Zero15 == Zero16 /\ x16 = 0
Zero14 == Zero15 /\ x15 = 0
Zero13 == Zero14 /\ x14 = 0
Zero10 == Zero13 /\ x11 = 0 /\ x12 = 0 /\ x13 = 0
Zero4 == Zero10 /\ x5 = 0 /\ x6 = 0 /\ x7 = 0 /\ x8 = 0 /\ x9 = 0 /\ x10 = 0
Zero3 == Zero4 /\ x4 = 0
Zero0 == Zero3 /\ x1 = 0 /\ x2 = 0 /\ x3 = 0
from17 == <<x17>>
from16 == <<x16, from17>>
from15 == <<x15, from16>>
from14 == <<x14, from15>>
from11 == <<x11, x12, x13, from14>>
from5 == <<x5, x6, x7, x8, x9, x10, from11>>
from4 == <<x4, from5>>

MCInit ==
  /\ Init
  /\ \/ component = "rw_lock" /\ Zero0
     \/ component = "ready_queues" /\ Ready!Init
     \/ component = "heap" /\ Heap!Init /\ Zero3
     \/ component = "skip_list" /\ Skip!Init /\ Zero4
     \/ component = "skip_list_2" /\ Skip2!Init /\ Zero13
     \/ component = "skip_list_3" /\ Skip3!Init /\ Zero13
     \/ component = "queue" /\ Queue!Init /\ Zero14
     \/ component = "ring" /\ Ring!Init /\ Zero10
     \/ component = "list" /\ List!Init /\ Zero16
     \/ component = "bits" /\ Bits!Init /\ Zero15

MCNext ==
  /\ UNCHANGED component
  /\ \/ component = "rw_lock" /\ Next /\ UNCHANGED x
     \/ /\ UNCHANGED vars
        /\ \/ component = "ready_queues" /\ Ready!Next
           \/ component = "heap" /\ Heap!Next /\ UNCHANGED from4
           \/ component = "skip_list" /\ Skip!Next /\ UNCHANGED from5
           \/ component = "skip_list_2" /\ Skip2!Next /\ UNCHANGED from14
           \/ component = "skip_list_3" /\ Skip3!Next /\ UNCHANGED from14
           \/ component = "queue" /\ Queue!Next /\ UNCHANGED from15
           \/ component = "ring" /\ Ring!Next /\ UNCHANGED from11
           \/ component = "list" /\ List!Next /\ UNCHANGED from17
           \/ component = "bits" /\ Bits!Next /\ UNCHANGED from16

MCSpec == MCInit /\ [][MCNext]_<<component, vars, x>>

-----------------------------------------------------------------------------
(* No coroutine is lost between the heaps, the buffers and the stacks, and  *)
(* a thief that takes two at once leaves the counts as they should be       *)
(* (Scheduler::pull_half_co, pickup_ready).  No swap loses an element of a  *)
(* heap, and its top is least while elements only come, and least of the    *)
(* first quarter while they go (QuaternaryHeap.h pushup, pushdown, push_all, *)
(* pop).  The levels of a skip list are lists of the same keys, thinned     *)
(* out, with m_size copies, also between the calls of threads that use it   *)
(* at once (SkipList.h push, erase, clear; SkipListLockFree.h).  Threads    *)
(* that do not keep apart get what was pushed, pass no fence and change the *)
(* bits they say, and no set of waits in a list closes into a circle        *)
(* (QueueLockFree.h, RingBufferLockFree.h, BitSetLockFree.h,                *)
(* ListLockFree.h).                                                         *)
QueuesWhole ==
  /\ component = "ready_queues" =>
       /\ Ready!TypeOK /\ Ready!TokensMatchWork
       /\ \A c \in {m, a1, a2, a3} :
            Cardinality({place \in Ready!Place : c \in Ready!Contents(place)}) = 1
       /\ Ready!CountExact /\ Ready!BufferPathFindsCo /\ Ready!StackExclusive
       /\ Ready!OwnerAgrees /\ Ready!AssertionsHold /\ Ready!LockDiscipline
  /\ component = "heap" => /\ Heap!TypeOK /\ Heap!NothingLost
                           /\ Heap!TopLeast /\ Heap!QuarterOrdered
  /\ component = "skip_list" => Skip!TypeOK /\ Skip!LevelsWhole /\ Skip!SizeExact
  /\ component = "skip_list_2" =>
       Skip2!TypeOK /\ Skip2!ListWhole /\ Skip2!LevelsExist /\ Skip2!StableFound
  /\ component = "skip_list_3" => Skip3!ListWhole /\ Skip3!SomeoneGoesOn
  /\ component = "queue" => Queue!OnlyPushed
  /\ component = "ring" => Ring!NeverPastFence
  /\ component = "list" => List!SomeoneGoesOn
  /\ component = "bits" => Bits!TypeOK /\ Bits!ChangeHonest /\ Bits!CompareTrue

(* A skip list is a multiset: erase and exists find a key from the highest  *)
(* level down exactly when a copy of it is in the list, and one copy goes   *)
(* at a time (SkipList.h find, push, erase, exists).                        *)
SkipListIsMultiset ==
  /\ component = "skip_list" => Skip!Copies!Init
  /\ [][component = "skip_list" => [Skip!Copies!Next]_<<Skip!Bag, x4>>]_x

Symmetry == Permutations(A) \cup Permutations(B)
===============================================================================
