-------------------------------- MODULE RingQueue -------------------------------
(***************************************************************************)
(* RingQueue (data_structure/include/RingQueue.h): a queue in an array that *)
(* wraps around, and that grows when it is full.  One thread uses it.      *)
(* make_ring_by_move_front and make_ring_by_move_back are never called.    *)
(***************************************************************************)
EXTENDS Integers, Sequences

CONSTANTS
  Value,
  NoValue,       \* what an answer is before the first one
  DEFAULT_SIZE,  \* 128 in the code
  GROW_FACTOR,   \* 4 in the code
  Sizes,         \* the sizes its user may ask for
  MaxSize,       \* bound on the values in it
  MaxVec         \* bound on the values that push_all takes

ASSUME RingQueueAssumption ==
  /\ NoValue \notin Value
  /\ DEFAULT_SIZE \in Nat \ {0}
  /\ GROW_FACTOR \in Nat \ {0, 1}
  /\ Sizes \subseteq Nat \ {0}
  /\ MaxSize \in Nat /\ MaxVec \in Nat

VARIABLES
  m_data,        \* index -> value, NoValue where the memory is raw
  m_capacity, m_front, m_back, m_size,
  vec,           \* the values that a push_all has left to push
  answer         \* what the last pop(x) or front(x) gave, NoValue when it was false

ring == <<m_data, m_capacity, m_front, m_back, m_size>>
vars == <<ring, vec, answer>>

Index == 0 .. m_capacity - 1

TypeOK ==
  /\ m_capacity \in Nat \ {0}
  /\ m_front \in Index /\ m_back \in Index
  /\ m_size \in 0 .. m_capacity
  /\ m_data \in [Index -> Value \cup {NoValue}]
  /\ vec \in Seq(Value)
  /\ answer \in Value \cup {NoValue}

(* One shifted by the number of bits of x: the power of 2 above x.          *)
ceil_pow_2(x) == {p \in x + 1 .. 2 * x : \E n \in 1 .. x : p = 2 ^ n}

Init ==
  /\ m_capacity \in {DEFAULT_SIZE} \cup UNION {ceil_pow_2(x) : x \in Sizes}
  /\ m_data = [i \in Index |-> NoValue]
  /\ m_front = 0 /\ m_back = 0 /\ m_size = 0
  /\ vec = <<>> /\ answer = NoValue

-----------------------------------------------------------------------------
full == m_size = m_capacity
empty == m_size = 0

(* idx & (M - 1): a capacity is a power of 2.                               *)
mod_idx(idx, M) == idx % M

current ==
  [data |-> m_data, capacity |-> m_capacity, front |-> m_front, back |-> m_back]

(* Mutant: the array is copied as it lies. *)
extend_straight ==
  LET capacity == m_capacity * GROW_FACTOR
  IN [data |-> [i \in 0 .. capacity - 1 |-> IF i < m_size THEN m_data[i] ELSE NoValue],
      capacity |-> capacity, front |-> 0, back |-> m_size]

(* The part from the front on, then the part before the back, to the start  *)
(* of an array of GROW_FACTOR times the capacity.                           *)
extend ==
  LET capacity == m_capacity * GROW_FACTOR
      size_first == m_size - m_front
  IN [data |-> [i \in 0 .. capacity - 1 |->
                  IF i < size_first THEN m_data[m_front + i]
                  ELSE IF i < size_first + m_back THEN m_data[i - size_first] ELSE NoValue],
      capacity |-> capacity, front |-> 0, back |-> m_size]

put(x) ==
  LET r == IF full THEN extend ELSE current
  IN /\ m_size < MaxSize
     /\ m_data' = [r.data EXCEPT ![r.back] = x]
     /\ m_capacity' = r.capacity
     /\ m_front' = r.front
     /\ m_back' = mod_idx(r.back + 1, r.capacity)
     /\ m_size' = m_size + 1

push(x) == vec = <<>> /\ put(x) /\ UNCHANGED <<vec, answer>>

(* push_all(vec): one push after the other.                                 *)
push_all ==
  /\ vec = <<>>
  /\ \E n \in 1 .. MaxVec :
       m_size + n =< MaxSize /\ vec' \in [1 .. n -> Value]
  /\ UNCHANGED <<ring, answer>>

push_next ==
  /\ vec # <<>>
  /\ put(Head(vec))
  /\ vec' = Tail(vec)
  /\ UNCHANGED answer

(* Mutant: what is at the new front is destroyed. *)
drop_new_front ==
  /\ m_front' = mod_idx(m_front + 1, m_capacity)
  /\ m_data' = [m_data EXCEPT ![mod_idx(m_front + 1, m_capacity)] = NoValue]
  /\ m_size' = m_size - 1
  /\ UNCHANGED <<m_capacity, m_back>>

(* The value at the front goes, and what was in its place is destroyed.     *)
drop ==
  /\ m_front' = mod_idx(m_front + 1, m_capacity)
  /\ m_data' = [m_data EXCEPT ![m_front] = NoValue]
  /\ m_size' = m_size - 1
  /\ UNCHANGED <<m_capacity, m_back>>

(* pop(x): false when there is nothing.                                     *)
pop ==
  /\ vec = <<>> /\ UNCHANGED vec
  /\ \/ empty /\ answer' = NoValue /\ UNCHANGED ring
     \/ ~empty /\ answer' = m_data[m_front] /\ drop

(* pop(): the value is not wanted.                                          *)
discard ==
  /\ vec = <<>> /\ UNCHANGED <<vec, answer>>
  /\ ~empty /\ drop

(* front(x)                                                                 *)
front ==
  /\ vec = <<>> /\ UNCHANGED <<vec, ring>>
  /\ \/ empty /\ answer' = NoValue
     \/ ~empty /\ answer' = m_data[m_front]

Next ==
  \/ \E x \in Value : push(x)
  \/ push_all \/ push_next \/ pop \/ discard \/ front

Spec == Init /\ [][Next]_vars

-----------------------------------------------------------------------------
(* The values from the front on.                                            *)
Content == [i \in 1 .. m_size |-> m_data[mod_idx(m_front + (i - 1), m_capacity)]]

Queue == INSTANCE Fifo WITH q <- Content, answer <- answer, Limit <- MaxSize

(* Every value leaves once and in the order in which it came, across any    *)
(* number of turns of the ring and of moves to a larger array               *)
(* (RingQueue.h extend, push, pop, front).                                  *)
ImplementsFifo == Queue!Spec

Live == {mod_idx(m_front + i, m_capacity) : i \in 0 .. m_size - 1}

(* The back is as far from the front as there are values, a place outside   *)
(* of the values is raw and one inside is not: no value is destroyed that   *)
(* is still to come, and none is left behind (RingQueue.h push, pop).       *)
RingWhole ==
  /\ m_back = mod_idx(m_front + m_size, m_capacity)
  /\ \A i \in Index : (m_data[i] # NoValue) <=> i \in Live

===============================================================================
