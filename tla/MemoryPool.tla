------------------------------ MODULE MemoryPool ------------------------------
(***************************************************************************)
(* MemoryPool (allocator/MemoryPool.cpp), from which coroutines, invokers  *)
(* and stacks (DynStackPool) come: blocks in a doubly linked list, units   *)
(* cut off the last one, a block given back when all its units are.  Each  *)
(* thread has its pools, and any thread gives units back to any pool.      *)
(*                                                                         *)
(* A unit's length includes its header and the padding to ALIGN.           *)
(***************************************************************************)
EXTENDS Integers, FiniteSets

CONSTANTS
  Thread,
  Block,              \* addresses of blocks
  null,
  defaultBlockSize,
  Length,             \* lengths of units
  MaxUnits,           \* bound: units that are live at a time
  use_mmap            \* DynStackPool's pool: TRUE

MemoryPoolAssumption ==
  /\ null \notin Block
  /\ defaultBlockSize \in Nat \ {0}
  /\ Length \subseteq Nat \ {0}
  /\ use_mmap \in BOOLEAN /\ MaxUnits \in Nat

VARIABLES
  firstBlock, currentBlock,
  next, prev, blockSize, offset, numberOfAllocated, numberOfDeleted,
  made_by,      \* the function that made a block: "malloc", "mmap"
  mapped,       \* blocks that exist
  units,        \* live units
  releasing,    \* a block that a thread has unlinked and will release
  leaked        \* blocks that the wrong function was to release

headerVars == <<next, prev, blockSize, offset, numberOfAllocated, numberOfDeleted>>
vars == <<firstBlock, currentBlock, headerVars, made_by, mapped, units,
          releasing, leaked>>

TypeOK ==
  /\ firstBlock \in Block /\ currentBlock \in Block
  /\ next \in [Block -> Block \cup {null}] /\ prev \in [Block -> Block \cup {null}]
  /\ blockSize \in [Block -> Nat] /\ offset \in [Block -> Nat]
  /\ numberOfAllocated \in [Block -> Nat] /\ numberOfDeleted \in [Block -> Nat]
  /\ made_by \in [Block -> {"malloc", "mmap"}]
  /\ mapped \subseteq Block /\ leaked \subseteq Block
  /\ units \subseteq [container : Block, at : Nat, length : Length]
  /\ releasing \in [Thread -> Block \cup {null}]

(* The constructor makes the first block before it sets use_mmap.           *)
Init ==
  \E b \in Block :
    /\ firstBlock = b /\ currentBlock = b
    /\ next = [x \in Block |-> null] /\ prev = [x \in Block |-> null]
    /\ blockSize = [x \in Block |-> IF x = b THEN defaultBlockSize ELSE 0]
    /\ offset = [x \in Block |-> 0]
    /\ numberOfAllocated = [x \in Block |-> 0]
    /\ numberOfDeleted = [x \in Block |-> 0]
    /\ made_by = [x \in Block |-> "malloc"]
    /\ mapped = {b} /\ leaked = {} /\ units = {}
    /\ releasing = [t \in Thread |-> null]

-----------------------------------------------------------------------------
Set(f, b, x) == [f EXCEPT ![b] = x]

LastUnit(u) == u.at + u.length = offset[u.container]

AddUnit(b, at, n) ==
  units' = units \cup {[container |-> b, at |-> at, length |-> n]}

fits(n) == n < blockSize[currentBlock] - offset[currentBlock]

allocate(n) ==
  LET b == currentBlock IN
  /\ fits(n)
  /\ AddUnit(b, offset[b], n)
  /\ numberOfAllocated' = Set(numberOfAllocated, b, numberOfAllocated[b] + 1)
  /\ offset' = Set(offset, b, offset[b] + n)
  /\ UNCHANGED <<firstBlock, currentBlock, next, prev, blockSize, numberOfDeleted,
                 made_by, mapped, releasing, leaked>>

(* createMemoryBlock, behind the last block, and the unit in it.            *)
allocate_new_block(n, b) ==
  /\ ~fits(n)
  /\ b \notin mapped \cup leaked
  /\ made_by' = Set(made_by, b, IF use_mmap THEN "mmap" ELSE "malloc")
  /\ mapped' = mapped \cup {b}
  /\ blockSize' = Set(blockSize, b, IF n >= defaultBlockSize THEN n ELSE defaultBlockSize)
  /\ next' = [next EXCEPT ![b] = null, ![currentBlock] = b]
  /\ prev' = Set(prev, b, currentBlock)
  /\ currentBlock' = b
  /\ AddUnit(b, 0, n)
  /\ numberOfAllocated' = Set(numberOfAllocated, b, 1)
  /\ numberOfDeleted' = Set(numberOfDeleted, b, 0)
  /\ offset' = Set(offset, b, n)
  /\ UNCHANGED <<firstBlock, releasing, leaked>>

(* A block without live units leaves the list.                              *)
unlink(b) ==
  IF b = firstBlock
  THEN /\ firstBlock' = next[b]
       /\ prev' = Set(prev, next[b], null)
       /\ UNCHANGED <<next, currentBlock>>
  ELSE IF b = currentBlock
  THEN /\ currentBlock' = prev[b]
       /\ next' = Set(next, prev[b], null)
       /\ UNCHANGED <<prev, firstBlock>>
  ELSE /\ next' = Set(next, prev[b], next[b])
       /\ prev' = Set(prev, next[b], prev[b])
       /\ UNCHANGED <<firstBlock, currentBlock>>

(* Mutant: every unit is cut off, also one in the middle. *)
count_off_any(u) ==
  LET b == u.container IN
  /\ offset' = Set(offset, b, offset[b] - u.length)
  /\ numberOfAllocated' = Set(numberOfAllocated, b, numberOfAllocated[b] - 1)
  /\ UNCHANGED numberOfDeleted

(* The last unit of a block is cut off it, another one only counted.        *)
count_off(u) ==
  LET b == u.container IN
  \/ /\ LastUnit(u)
     /\ offset' = Set(offset, b, u.at)
     /\ numberOfAllocated' = Set(numberOfAllocated, b, numberOfAllocated[b] - 1)
     /\ UNCHANGED numberOfDeleted
  \/ /\ ~LastUnit(u)
     /\ numberOfDeleted' = Set(numberOfDeleted, b, numberOfDeleted[b] + 1)
     /\ UNCHANGED <<offset, numberOfAllocated>>

(* A block goes when it is empty and not the only one.                      *)
removable(b) ==
  /\ currentBlock # firstBlock
  /\ offset'[b] = 0 \/ numberOfAllocated'[b] = numberOfDeleted'[b]

(* deallocate: under m_lock up to here; the block is released after that.   *)
deallocate(t, u) ==
  LET b == u.container IN
  /\ releasing[t] = null
  /\ u \in units /\ units' = units \ {u}
  /\ count_off(u)
  /\ \/ /\ removable(b)
        /\ unlink(b)
        /\ releasing' = Set(releasing, t, b)
     \/ /\ ~removable(b)
        /\ UNCHANGED <<firstBlock, currentBlock, next, prev, releasing>>
  /\ UNCHANGED <<blockSize, made_by, mapped, leaked>>

(* free, or munmap, which refuses what malloc made.                         *)
released_by == IF use_mmap THEN "mmap" ELSE "malloc"

release(t) ==
  LET b == releasing[t] IN
  /\ b # null
  /\ mapped' = mapped \ {b}
  /\ leaked' = IF made_by[b] = released_by THEN leaked ELSE leaked \cup {b}
  /\ releasing' = Set(releasing, t, null)
  /\ UNCHANGED <<firstBlock, currentBlock, headerVars, made_by, units>>

Next ==
  \/ \E n \in Length :
       /\ Cardinality(units) < MaxUnits
       /\ allocate(n) \/ \E b \in Block : allocate_new_block(n, b)
  \/ \E t \in Thread : release(t) \/ \E u \in units : deallocate(t, u)

Spec == Init /\ [][Next]_vars

-----------------------------------------------------------------------------
Linked == {b \in mapped : \A t \in Thread : releasing[t] # b}

(* A live unit lies in a block that is not being released, below its        *)
(* offset and within its size, apart from every other one (allocate_unsafe, *)
(* deallocate).                                                             *)
UnitsDisjoint ==
  /\ \A u \in units : /\ u.container \in Linked
                      /\ u.at + u.length =< offset[u.container]
  /\ \A b \in Linked : offset[b] =< blockSize[b]
  /\ \A u, v \in units :
       u # v /\ u.container = v.container
         => u.at + u.length =< v.at \/ v.at + v.length =< u.at

(* Only the first block may be without live units: the one that was emptied *)
(* while it was the only one.  What else is empty is given back.            *)
OnlyFirstIdle ==
  \A b \in Linked : b = firstBlock \/ \E u \in units : u.container = b

(* The list runs from firstBlock to currentBlock through all blocks, in     *)
(* both directions.                                                         *)
ListCoherent ==
  /\ firstBlock \in Linked /\ currentBlock \in Linked
  /\ prev[firstBlock] = null /\ next[currentBlock] = null
  /\ \A b \in Linked :
       /\ b # currentBlock => next[b] \in Linked /\ prev[next[b]] = b
       /\ b # firstBlock => prev[b] \in Linked /\ next[prev[b]] = b

(* Every block is released by the function that made it, except that a pool *)
(* of mapped blocks releases its constructor's block by munmap, which fails:*)
(* it loses that block and no other (MemoryPool::MemoryPool).               *)
OneBlockLeaked ==
  /\ Cardinality(leaked) =< 1
  /\ leaked # {} => use_mmap

(* Live units are apart and in blocks of the list, an empty block is given  *)
(* back to where it came from, but the first one (allocate, deallocate).    *)
UnitsKept ==
  TypeOK /\ UnitsDisjoint /\ OnlyFirstIdle /\ ListCoherent /\ OneBlockLeaked
===============================================================================
