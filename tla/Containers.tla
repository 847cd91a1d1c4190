------------------------------ MODULE Containers ------------------------------
(***************************************************************************)
(* The containers that threads share: the lock-free ring, queue, list and  *)
(* bit set, and the semaphore's wait queue, which has a lock.  They share  *)
(* nothing, so a behaviour is about one of them, the container, and the    *)
(* others stay where they begin.                                           *)
(***************************************************************************)
EXTENDS Integers

CONSTANTS RingPusher, RingPopper, Capacity, MaxPush
VARIABLES ring_data, m_write, m_write_fence, m_read, m_read_fence, ring_pc,
  ring_idx, fence, ring_pushed, ring_popped
Rb == INSTANCE RingBufferLockFree WITH
  Pusher <- RingPusher, Popper <- RingPopper, m_data <- ring_data,
  pc <- ring_pc, idx <- ring_idx, pushed <- ring_pushed, popped <- ring_popped

CONSTANTS Pusher, Popper, OnePop, MaxNodes, MaxPops
VARIABLES queue_next, queue_removal, queue_tail, queue_created, freed,
  queue_pc, queue_cur, mine, after, linked, queue_popped, late, beside, dangling
Qu == INSTANCE QueueLockFree WITH
  next <- queue_next, removal <- queue_removal, tail <- queue_tail,
  created <- queue_created, pc <- queue_pc, cur <- queue_cur,
  popped <- queue_popped

CONSTANTS Worker, ListNodes, ListPops
VARIABLES list_next, pred, list_removal, holder, list_tail, list_size,
  list_created, list_pc, list_op, self, prev, succ, owner, asked, taken, pops
Li == INSTANCE ListLockFree WITH
  Thread <- Worker, MaxNodes <- ListNodes, MaxPops <- ListPops,
  next <- list_next, removal <- list_removal, tail <- list_tail,
  m_size <- list_size, created <- list_created, pc <- list_pc, op <- list_op

CONSTANTS BITS_COUNT, block_bits, Phases, BitCalls
VARIABLES m_block, bits_pc, bits_op, bits_idx, expected, value, block_i,
  bits_cur, bit_idx, ans, found, did, was_set, picked, bits_calls
Bi == INSTANCE BitSetLockFree WITH
  Thread <- Worker, MaxCalls <- BitCalls, pc <- bits_pc, op <- bits_op,
  idx <- bits_idx, i <- block_i, cur <- bits_cur, calls <- bits_calls

CONSTANTS Item, nil, MaxCalls
VARIABLES locked_data, locked_size, m_lock, locked_pc, arg, got,
  locked_pushed, locked_calls
Lc == INSTANCE LockedContainer WITH
  Thread <- Worker, None <- nil, m_data <- locked_data, m_size <- locked_size,
  pc <- locked_pc, pushed <- locked_pushed, calls <- locked_calls

ASSUME ContainersAssumption ==
  /\ Rb!RingAssumption /\ Qu!QueueAssumption /\ Li!ListAssumption
  /\ Bi!BitSetAssumption /\ Lc!LockedContainerAssumption

VARIABLE container

ringVars == <<ring_data, m_write, m_write_fence, m_read, m_read_fence, ring_pc,
              ring_idx, fence, ring_pushed, ring_popped>>
queueVars == <<queue_next, queue_removal, queue_tail, queue_created, freed,
               queue_pc, queue_cur, mine, after, linked, queue_popped, late, beside,
               dangling>>
listVars == <<list_next, pred, list_removal, holder, list_tail, list_size,
              list_created, list_pc, list_op, self, prev, succ, owner, asked,
              taken, pops>>
bitsVars == <<m_block, bits_pc, bits_op, bits_idx, expected, value, block_i,
              bits_cur, bit_idx, ans, found, did, was_set, picked, bits_calls>>
lockedVars == <<locked_data, locked_size, m_lock, locked_pc, arg, got,
                locked_pushed, locked_calls>>
containerVars == <<container, ringVars, queueVars, listVars, bitsVars, lockedVars>>

-----------------------------------------------------------------------------
ContainersInit ==
  /\ container \in {"ring", "queue", "list", "bits", "locked"}
  /\ Rb!Init /\ Qu!Init /\ Li!Init /\ Bi!Init /\ Lc!Init

ContainersNext ==
  /\ UNCHANGED container
  /\ \/ /\ container = "ring" /\ Rb!Next
        /\ UNCHANGED <<queueVars, listVars, bitsVars, lockedVars>>
     \/ /\ container = "queue" /\ Qu!Next
        /\ UNCHANGED <<ringVars, listVars, bitsVars, lockedVars>>
     \/ /\ container = "list" /\ Li!Next
        /\ UNCHANGED <<ringVars, queueVars, bitsVars, lockedVars>>
     \/ /\ container = "bits" /\ Bi!Next
        /\ UNCHANGED <<ringVars, queueVars, listVars, lockedVars>>
     \/ /\ container = "locked" /\ Lc!Next
        /\ UNCHANGED <<ringVars, queueVars, listVars, bitsVars>>

ContainersSpec == ContainersInit /\ [][ContainersNext]_containerVars

-----------------------------------------------------------------------------
(* No index of the ring passes its fence, and one pusher and one popper get *)
(* every value once, in order and undisturbed (RingBufferLockFree.h).       *)
RingKept ==
  /\ Rb!NeverPastFence
  /\ (\E p \in RingPusher, q \in RingPopper : RingPusher = {p} /\ RingPopper = {q}) =>
       Rb!TypeOK /\ Rb!Fifo /\ Rb!SlotExclusive

(* The queue gives out what was pushed, and while its pops run one at a     *)
(* time in order, each node once, and none skipped but what a push has      *)
(* linked behind a node being taken (QueueLockFree.h).                      *)
QueueKept ==
  /\ Qu!TypeOK /\ Qu!OnlyPushed
  /\ OnePop => Qu!QueueOrder

(* A change of a bit says what it did, and a bit is picked once by who      *)
(* picks among bits set before (BitSetLockFree.h).                          *)
BitsKept ==
  /\ Bi!TypeOK /\ Bi!ChangeHonest /\ Bi!CompareTrue
  /\ Phases /\ Worker # {} => Bi!PickedIsOff /\ Bi!EachPickedOnce

(* Whatever the threads do at once, the containers keep what they hold: the *)
(* ring, the queue and the bit set as above, a list is whole between the    *)
(* calls, and an item of the wait queue leaves it once (ListLockFree.h,     *)
(* LockedContainer.h).                                                      *)
ContainersWhole ==
  /\ RingKept /\ QueueKept /\ BitsKept
  /\ Li!TypeOK /\ Li!ListWhole /\ Li!AllErased
  /\ Lc!EachOnce /\ Lc!SizeExact
===============================================================================
