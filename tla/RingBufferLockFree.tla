-------------------------- MODULE RingBufferLockFree --------------------------
(***************************************************************************)
(* RingBufferLockFree (data_structure/include/RingBufferLockFree.h): a push *)
(* claims an index at m_write, writes the slot, and counts itself in       *)
(* m_read_fence; a pop does the same on the other side.  The fences count  *)
(* what was completed, in whatever order.  A full buffer is seen by        *)
(* m_write being equal to its fence, an empty one likewise.                *)
(***************************************************************************)
EXTENDS Integers, Sequences, SequencesExt

CONSTANTS
  Pusher, Popper,
  Capacity,
  MaxPush       \* bound on the pushes that succeed

RingAssumption ==
  Capacity \in Nat \ {0} /\ MaxPush \in Nat /\ Pusher \cap Popper = {}

VARIABLES
  m_data,                    \* the number of the push that wrote the slot, 0 for none
  m_write, m_write_fence, m_read, m_read_fence,
  pc, idx, fence,            \* cur_write or cur_read, cur_write_fence or cur_read_fence
  pushed, popped             \* what the pushes wrote and the pops returned (history)

fences == <<m_write, m_write_fence, m_read, m_read_fence>>
vars == <<m_data, fences, pc, idx, fence, pushed, popped>>

Caller == Pusher \cup Popper
mod_idx(i) == i % Capacity

TypeOK ==
  /\ m_data \in [0 .. Capacity - 1 -> 0 .. MaxPush]
  /\ m_write \in 0 .. MaxPush /\ m_write_fence \in 0 .. MaxPush + Capacity
  /\ m_read \in 0 .. MaxPush /\ m_read_fence \in 0 .. MaxPush
  /\ pc \in [Caller -> {"idle", "fence", "claim", "slot", "count"}]
  /\ idx \in [Caller -> Nat] /\ fence \in [Caller -> Nat]
  /\ pushed \in 0 .. MaxPush /\ popped \in Seq(0 .. MaxPush)

Init ==
  /\ m_data = [i \in 0 .. Capacity - 1 |-> 0]
  /\ m_write = 0 /\ m_write_fence = Capacity /\ m_read = 0 /\ m_read_fence = 0
  /\ pc = [t \in Caller |-> "idle"]
  /\ idx = [t \in Caller |-> 0] /\ fence = idx
  /\ pushed = 0 /\ popped = <<>>

-----------------------------------------------------------------------------
Goto(t, from, to) == pc[t] = from /\ pc' = [pc EXCEPT ![t] = to]

(* The index is read first, ...                                             *)
load(t) ==
  /\ Goto(t, "idle", "fence")
  /\ t \in Pusher => m_write < MaxPush
  /\ idx' = [idx EXCEPT ![t] = IF t \in Pusher THEN m_write ELSE m_read]
  /\ UNCHANGED <<m_data, fences, fence, pushed, popped>>

(* ... then the fence: the buffer is full, or empty, when they are equal.   *)
load_fence(t) ==
  LET f == IF t \in Pusher THEN m_write_fence ELSE m_read_fence IN
  /\ Goto(t, "fence", IF idx[t] = f THEN "idle" ELSE "claim")
  /\ fence' = [fence EXCEPT ![t] = f]
  /\ UNCHANGED <<m_data, fences, idx, pushed, popped>>

(* The exchange of the index; it fails when another was faster, and the     *)
(* fence is read again.                                                     *)
claim(t) ==
  LET now == IF t \in Pusher THEN m_write ELSE m_read IN
  \/ /\ Goto(t, "claim", "slot") /\ now = idx[t]
     /\ t \in Pusher => m_write < MaxPush
     /\ m_write' = IF t \in Pusher THEN m_write + 1 ELSE m_write
     /\ m_read' = IF t \in Popper THEN m_read + 1 ELSE m_read
     /\ UNCHANGED <<m_data, m_write_fence, m_read_fence, idx, fence, pushed, popped>>
  \/ /\ Goto(t, "claim", "fence") /\ now # idx[t]
     /\ idx' = [idx EXCEPT ![t] = now]
     /\ UNCHANGED <<m_data, fences, fence, pushed, popped>>

write_slot(t) ==
  /\ t \in Pusher /\ Goto(t, "slot", "count")
  /\ m_data' = [m_data EXCEPT ![mod_idx(idx[t])] = pushed + 1]
  /\ pushed' = pushed + 1
  /\ UNCHANGED <<fences, idx, fence, popped>>

read_slot(t) ==
  /\ t \in Popper /\ Goto(t, "slot", "count")
  /\ popped' = Append(popped, m_data[mod_idx(idx[t])])
  /\ UNCHANGED <<m_data, fences, idx, fence, pushed>>

(* m_read_fence++ of a push, m_write_fence++ of a pop.                      *)
count(t) ==
  /\ Goto(t, "count", "idle")
  /\ IF t \in Pusher
     THEN m_read_fence' = m_read_fence + 1 /\ UNCHANGED m_write_fence
     ELSE m_write_fence' = m_write_fence + 1 /\ UNCHANGED m_read_fence
  /\ UNCHANGED <<m_data, m_write, m_read, idx, fence, pushed, popped>>

Next ==
  \E t \in Caller :
    load(t) \/ load_fence(t) \/ claim(t) \/ write_slot(t) \/ read_slot(t) \/ count(t)

Spec == Init /\ [][Next]_vars

-----------------------------------------------------------------------------
(* An index never gets past its fence, so that the test for equality finds  *)
(* a full and an empty buffer, whoever claimed in between (push, pop).      *)
NeverPastFence == m_write =< m_write_fence /\ m_read =< m_read_fence

(* With one pusher and one popper: the values come out in order, none read  *)
(* before it is written, none written over before it is read.               *)
Fifo == \A i \in DOMAIN popped : popped[i] = i

(* Nor are a slot's writer and reader ever in it at the same time.          *)
InSlot(t) == pc[t] = "slot"
SlotExclusive ==
  \A t, u \in Caller :
    (t # u /\ InSlot(t) /\ InSlot(u)) => mod_idx(idx[t]) # mod_idx(idx[u])
===============================================================================
