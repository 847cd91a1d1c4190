---------------------------- MODULE ContainerProofs ---------------------------
(***************************************************************************)
(* Proofs about the containers, each for every value of its constants:     *)
(* RingQueue implements Fifo, and what the ring buffer, the queue, the     *)
(* list, the bit set and the containers behind a lock promise the threads  *)
(* that share them.  A theorem is about one container, with what its       *)
(* module assumes of its constants as a hypothesis; the last one is about  *)
(* all of them.                                                            *)
(***************************************************************************)
EXTENDS RingQueue, Containers, FiniteSets, SequenceTheorems, FiniteSetTheorems,
        WellFoundedInduction, TLAPS

-----------------------------------------------------------------------------
(* An index that has passed the end of the array once comes back to its     *)
(* start (RingQueue.h mod_idx).                                            *)
LEMMA ModIdx ==
  ASSUME NEW M \in Nat \ {0}, NEW i \in 0 .. 2 * M - 1
  PROVE  mod_idx(i, M) = IF i < M THEN i ELSE i - M
<1>1. CASE i < M
  BY <1>1, SMT DEF mod_idx
<1>2. CASE i >= M
  BY <1>2, SMT DEF mod_idx
<1> QED
  BY <1>1, <1>2

-----------------------------------------------------------------------------
(* What push_all has left to push still fits under the bound.               *)
Room == m_size + Len(vec) =< MaxSize

IInv == TypeOK /\ RingWhole /\ Room

(* i is the place of a value: between the front and the back, or before the *)
(* back when the values wrap around.                                       *)
Taken(i, front_, size, cap) ==
  \/ front_ =< i /\ i < front_ + size
  \/ i + cap < front_ + size

(* The places that the ring's arithmetic names are those between front and  *)
(* back (RingQueue.h mod_idx).                                             *)
LEMMA LiveTaken ==
  ASSUME NEW cap \in Nat \ {0}, NEW f \in 0 .. cap - 1, NEW size \in 0 .. cap,
         NEW i \in 0 .. cap - 1
  PROVE  i \in {mod_idx(f + j, cap) : j \in 0 .. size - 1} <=> Taken(i, f, size, cap)
<1>1. ASSUME NEW j \in 0 .. size - 1, i = mod_idx(f + j, cap)
      PROVE  Taken(i, f, size, cap)
  <2>1. mod_idx(f + j, cap) = IF f + j < cap THEN f + j ELSE f + j - cap
    BY ModIdx
  <2> QED
    BY <1>1, <2>1 DEF Taken
<1>2. ASSUME f =< i, i < f + size
      PROVE  \E j \in 0 .. size - 1 : i = mod_idx(f + j, cap)
  <2>1. i - f \in 0 .. size - 1 /\ f + (i - f) = i
    BY <1>2
  <2>2. mod_idx(i, cap) = i
    BY ModIdx
  <2> QED
    BY <2>1, <2>2
<1>3. ASSUME i + cap < f + size
      PROVE  \E j \in 0 .. size - 1 : i = mod_idx(f + j, cap)
  <2>1. i + cap - f \in 0 .. size - 1 /\ f + (i + cap - f) = i + cap
    BY <1>3
  <2>2. mod_idx(i + cap, cap) = i
    BY ModIdx
  <2> QED
    BY <2>1, <2>2
<1> QED
  BY <1>1, <1>2, <1>3 DEF Taken

(* The same of the places of the current ring.                              *)
LEMMA WholeTaken ==
  ASSUME TypeOK
  PROVE  RingWhole <=>
           /\ m_back = mod_idx(m_front + m_size, m_capacity)
           /\ \A i \in Index : (m_data[i] # NoValue) <=> Taken(i, m_front, m_size, m_capacity)
<1>1. \A i \in Index : i \in Live <=> Taken(i, m_front, m_size, m_capacity)
  BY LiveTaken DEF Live, Index, TypeOK
<1> QED
  BY <1>1 DEF RingWhole

(* The same after a step.                                                   *)
LEMMA WholeTakenAfter ==
  ASSUME TypeOK'
  PROVE  RingWhole' <=>
           /\ m_back' = mod_idx(m_front' + m_size', m_capacity')
           /\ \A i \in Index' : (m_data'[i] # NoValue) <=> Taken(i, m_front', m_size', m_capacity')
<1>1. \A i \in Index' : i \in Live' <=> Taken(i, m_front', m_size', m_capacity')
  BY LiveTaken DEF Live, Index, TypeOK
<1> QED
  BY <1>1 DEF RingWhole

(* A ring starts empty, with an array of raw memory.                        *)
LEMMA InitIInv == Init => IInv
<1> SUFFICES ASSUME Init PROVE IInv
  OBVIOUS
<1>1. m_capacity \in Nat \ {0}
  BY RingQueueAssumption DEF Init, ceil_pow_2
<1>2. TypeOK
  BY <1>1 DEF Init, TypeOK, Index
<1>3. mod_idx(0, m_capacity) = 0
  BY <1>1, ModIdx
<1>4. RingWhole
  BY <1>1, <1>2, <1>3, WholeTaken DEF Init, Index, Taken
<1>5. Room
  BY RingQueueAssumption DEF Init, Room
<1> QED
  BY <1>2, <1>4, <1>5 DEF IInv

(* put leaves the ring whole, whether or not it had to grow.                *)
LEMMA PutWhole ==
  ASSUME IInv, NEW x \in Value, put(x),
         vec' \in Seq(Value), answer' \in Value \cup {NoValue}
  PROVE  TypeOK' /\ RingWhole'
<1> USE RingQueueAssumption
<1>1. CASE ~full
  <2>1. m_size < m_capacity
    BY <1>1 DEF IInv, TypeOK, full
  <2>2. /\ m_data' = [m_data EXCEPT ![m_back] = x]
        /\ m_capacity' = m_capacity /\ m_front' = m_front /\ m_size' = m_size + 1
        /\ m_back' = mod_idx(m_back + 1, m_capacity)
    BY <1>1 DEF put, current
  <2>3. m_back' = IF m_back + 1 < m_capacity THEN m_back + 1 ELSE 0
    BY <2>2, ModIdx DEF IInv, TypeOK, Index
  <2>4. TypeOK'
    BY <2>1, <2>2, <2>3 DEF IInv, TypeOK, Index
  <2>5. m_back = IF m_front + m_size < m_capacity THEN m_front + m_size
                 ELSE m_front + m_size - m_capacity
    BY <2>1, ModIdx DEF IInv, TypeOK, RingWhole, Index
  <2>6. mod_idx(m_front + (m_size + 1), m_capacity)
          = IF m_front + (m_size + 1) < m_capacity THEN m_front + (m_size + 1)
            ELSE m_front + (m_size + 1) - m_capacity
    BY <2>1, ModIdx DEF IInv, TypeOK, Index
  <2>7. \A i \in Index : (m_data[i] # NoValue) <=> Taken(i, m_front, m_size, m_capacity)
    BY WholeTaken DEF IInv
  <2>8. \A i \in Index : Taken(i, m_front, m_size + 1, m_capacity)
                           <=> Taken(i, m_front, m_size, m_capacity) \/ i = m_back
    BY <2>1, <2>5 DEF IInv, TypeOK, Index, Taken
  <2>9. \A i \in Index : (m_data'[i] # NoValue) <=> (m_data[i] # NoValue \/ i = m_back)
    BY <2>2 DEF IInv, TypeOK
  <2> QED
    BY <2>2, <2>3, <2>4, <2>5, <2>6, <2>7, <2>8, <2>9, WholeTakenAfter DEF Index, IInv,
        TypeOK
<1>2. CASE full
  <2> DEFINE cap == m_capacity * GROW_FACTOR
  <2>1. cap \in Nat /\ cap > m_size /\ cap > 1 /\ m_size = m_capacity /\ m_size \in Nat \ {0}
    <3>1. m_size = m_capacity /\ m_capacity \in Nat \ {0}
      BY <1>2 DEF full, IInv, TypeOK
    <3>2. cap \in Nat /\ cap >= 2 * m_capacity
      BY <3>1, SMT
    <3> QED
      BY <3>1, <3>2
  <2>2. m_back = m_front
    BY <2>1, ModIdx DEF IInv, TypeOK, RingWhole, Index
  <2> HIDE DEF cap
  <2>3. /\ m_data' = [i \in 0 .. cap - 1 |->
                        IF i = m_size THEN x
                        ELSE IF i < m_size - m_front THEN m_data[m_front + i]
                        ELSE IF i < m_size THEN m_data[i - (m_size - m_front)] ELSE NoValue]
        /\ m_capacity' = cap /\ m_front' = 0 /\ m_size' = m_size + 1
        /\ m_back' = mod_idx(m_size + 1, cap)
    <3> DEFINE new == [i \in 0 .. cap - 1 |->
                         IF i < m_size - m_front THEN m_data[m_front + i]
                         ELSE IF i < m_size - m_front + m_back
                              THEN m_data[i - (m_size - m_front)] ELSE NoValue]
    <3>1. extend = [data |-> new, capacity |-> cap, front |-> 0, back |-> m_size]
      BY DEF extend, cap
    <3>2. /\ m_data' = [new EXCEPT ![m_size] = x]
          /\ m_capacity' = cap /\ m_front' = 0 /\ m_size' = m_size + 1
          /\ m_back' = mod_idx(m_size + 1, cap)
      <4> HIDE DEF new
      <4> QED
        BY <1>2, <3>1 DEF put
    <3>3. m_size - m_front + m_back = m_size
      BY <2>1, <2>2 DEF IInv, TypeOK, Index
    <3> QED
      BY <2>1, <3>2, <3>3
  <2>4. \/ m_size + 1 < cap /\ m_back' = m_size + 1
        \/ m_size + 1 = cap /\ m_back' = 0
    BY <2>1, <2>3, ModIdx
  <2>5. \A i \in 0 .. m_size - 1 : m_data'[i] \in Value
    <3>1. \A i \in Index : m_data[i] \in Value
      <4>1. \A i \in Index : Taken(i, m_front, m_size, m_capacity)
        BY <2>1 DEF IInv, TypeOK, Index, Taken
      <4> QED
        BY <4>1, WholeTaken DEF IInv, TypeOK
    <3>2. ASSUME NEW i \in 0 .. m_size - 1
          PROVE  m_data'[i] \in Value
      <4>1. i < m_size - m_front => m_front + i \in Index
        BY <2>1 DEF IInv, TypeOK, Index
      <4>2. i >= m_size - m_front => i - (m_size - m_front) \in Index
        BY <2>1 DEF IInv, TypeOK, Index
      <4>3. i \in 0 .. cap - 1 /\ i # m_size /\ i < m_size
        BY <2>1
      <4> QED
        BY <2>1, <2>3, <3>1, <4>1, <4>2, <4>3 DEF IInv, TypeOK, Index
    <3> QED
      BY <3>2
  <2>6. m_data'[m_size] = x /\ \A i \in m_size + 1 .. cap - 1 : m_data'[i] = NoValue
    BY <2>1, <2>3 DEF IInv, TypeOK, Index
  <2>7. \A i \in 0 .. cap - 1 : i < m_size \/ i = m_size \/ i \in m_size + 1 .. cap - 1
    BY <2>1
  <2>8. TypeOK'
    <3>1. \A i \in 0 .. cap - 1 : m_data'[i] \in Value \cup {NoValue}
      BY <2>1, <2>5, <2>6, <2>7
    <3>2. m_data' = [i \in 0 .. cap - 1 |-> m_data'[i]]
      BY <2>3
    <3>3. m_data' \in [0 .. cap - 1 -> Value \cup {NoValue}]
      BY <3>1, <3>2, Zenon
    <3>4. Index' = 0 .. cap - 1
      BY <2>3 DEF Index
    <3>5. /\ m_capacity' \in Nat \ {0} /\ m_size' \in 0 .. m_capacity'
          /\ m_front' \in 0 .. cap - 1 /\ m_back' \in 0 .. cap - 1
      <4>1. m_capacity' = cap /\ m_front' = 0 /\ m_size' = m_size + 1
        BY <2>3
      <4> QED
        BY <4>1, <2>1, <2>4
    <3> QED
      BY <3>3, <3>4, <3>5 DEF TypeOK
  <2>9. \A i \in 0 .. cap - 1 : (m_data'[i] # NoValue) <=> Taken(i, 0, m_size + 1, cap)
    BY <2>1, <2>5, <2>6, <2>7 DEF Taken
  <2> QED
    BY <2>3, <2>8, <2>9, WholeTakenAfter DEF Index
<1> QED
  BY <1>1, <1>2

(* drop leaves the ring whole.                                              *)
LEMMA DropWhole ==
  ASSUME IInv, ~empty, drop, vec' \in Seq(Value), answer' \in Value \cup {NoValue}
  PROVE  TypeOK' /\ RingWhole'
<1>1. m_size \in 1 .. m_capacity /\ m_front \in Index
  BY DEF IInv, TypeOK, empty
<1>2. m_front' = IF m_front + 1 < m_capacity THEN m_front + 1 ELSE 0
  BY <1>1, ModIdx DEF drop, IInv, TypeOK, Index
<1>3. TypeOK'
  BY <1>1, <1>2 DEF drop, IInv, TypeOK, Index
<1>4. mod_idx(m_front + m_size, m_capacity) = mod_idx(m_front' + (m_size - 1), m_capacity)
  <2>1. mod_idx(m_front + m_size, m_capacity)
          = IF m_front + m_size < m_capacity THEN m_front + m_size
            ELSE m_front + m_size - m_capacity
    BY <1>1, ModIdx DEF IInv, TypeOK, Index
  <2>2. mod_idx(m_front' + (m_size - 1), m_capacity)
          = IF m_front' + (m_size - 1) < m_capacity THEN m_front' + (m_size - 1)
            ELSE m_front' + (m_size - 1) - m_capacity
    BY <1>1, <1>2, ModIdx DEF IInv, TypeOK, Index
  <2> QED
    BY <1>1, <1>2, <2>1, <2>2 DEF IInv, TypeOK, Index
<1>5. \A i \in Index : (m_data[i] # NoValue) <=> Taken(i, m_front, m_size, m_capacity)
  BY WholeTaken DEF IInv
<1>6. \A i \in Index : Taken(i, m_front', m_size - 1, m_capacity)
                         <=> Taken(i, m_front, m_size, m_capacity) /\ i # m_front
  BY <1>1, <1>2 DEF IInv, TypeOK, Index, Taken
<1>7. \A i \in Index : (m_data'[i] # NoValue) <=> (m_data[i] # NoValue /\ i # m_front)
  BY <1>1 DEF drop, IInv, TypeOK
<1>8. m_back' = m_back /\ m_size' = m_size - 1 /\ m_capacity' = m_capacity
  BY DEF drop
<1>9. m_back = mod_idx(m_front + m_size, m_capacity)
  BY DEF IInv, RingWhole
<1> QED
  BY <1>3, <1>4, <1>5, <1>6, <1>7, <1>8, <1>9, WholeTakenAfter DEF Index
-----------------------------------------------------------------------------
(* The content is a sequence of as many values as the ring counts.          *)
LEMMA ContentSeq ==
  ASSUME IInv
  PROVE  /\ Content \in Seq(Value) /\ Len(Content) = m_size
         /\ \A i \in 1 .. m_size :
              Content[i] = m_data[IF m_front + (i - 1) < m_capacity THEN m_front + (i - 1)
                                  ELSE (m_front + (i - 1)) - m_capacity]
<1>1. ASSUME NEW i \in 1 .. m_size
      PROVE  /\ mod_idx(m_front + (i - 1), m_capacity)
                  = IF m_front + (i - 1) < m_capacity THEN m_front + (i - 1)
                    ELSE (m_front + (i - 1)) - m_capacity
             /\ m_data[mod_idx(m_front + (i - 1), m_capacity)] \in Value
  <2>1. m_front + (i - 1) \in 0 .. 2 * m_capacity - 1
    BY DEF IInv, TypeOK, Index
  <2>2. mod_idx(m_front + (i - 1), m_capacity)
          = IF m_front + (i - 1) < m_capacity THEN m_front + (i - 1)
            ELSE (m_front + (i - 1)) - m_capacity
    <3> DEFINE k == m_front + (i - 1)
    <3>1. k \in 0 .. 2 * m_capacity - 1 /\ m_capacity \in Nat \ {0}
      BY <2>1 DEF IInv, TypeOK
    <3> HIDE DEF k
    <3>2. mod_idx(k, m_capacity) = IF k < m_capacity THEN k ELSE k - m_capacity
      BY <3>1, ModIdx
    <3> QED
      BY <3>2 DEF k
  <2>3. mod_idx(m_front + (i - 1), m_capacity) \in Index
    BY <2>2 DEF IInv, TypeOK, Index
  <2>4. Taken(mod_idx(m_front + (i - 1), m_capacity), m_front, m_size, m_capacity)
    BY <2>2 DEF IInv, TypeOK, Index, Taken
  <2> QED
    BY <2>2, <2>3, <2>4, WholeTaken DEF IInv, TypeOK
<1>2. m_size \in Nat
  BY DEF IInv, TypeOK
<1>3. Content \in [1 .. m_size -> Value]
  BY <1>1 DEF Content
<1>4. Content \in Seq(Value)
  BY <1>2, <1>3
<1>5. Len(Content) = m_size
  BY <1>2, <1>3
<1> QED
  BY <1>1, <1>4, <1>5 DEF Content

(* The invariant holds after every step.                                    *)
LEMMA NextIInv == IInv /\ [Next]_vars => IInv'
<1> SUFFICES ASSUME IInv, [Next]_vars PROVE IInv'
  OBVIOUS
<1> USE RingQueueAssumption
<1>1. ASSUME NEW x \in Value, push(x)
      PROVE  IInv'
  <2>1. TypeOK' /\ RingWhole'
    BY <1>1, PutWhole DEF push, IInv, TypeOK
  <2>2. Room'
    BY <1>1 DEF push, put, Room, IInv, TypeOK
  <2> QED
    BY <2>1, <2>2 DEF IInv
<1>2. CASE push_all
  <2>1. PICK n \in 1 .. MaxVec : m_size + n =< MaxSize /\ vec' \in [1 .. n -> Value]
    BY <1>2 DEF push_all
  <2>2. vec' \in Seq(Value) /\ Len(vec') = n
    BY <2>1
  <2>3. UNCHANGED <<ring, answer>>
    BY <1>2 DEF push_all
  <2>4. TypeOK'
    BY <2>2, <2>3 DEF TypeOK, IInv, ring, Index
  <2>5. RingWhole'
    BY <2>3 DEF RingWhole, Live, IInv, ring, Index
  <2>6. Room'
    BY <2>1, <2>2, <2>3 DEF Room, ring
  <2> QED
    BY <2>4, <2>5, <2>6 DEF IInv
<1>3. CASE push_next
  <2>1. vec \in Seq(Value) /\ vec # <<>>
    BY <1>3 DEF push_next, IInv, TypeOK
  <2>2. Head(vec) \in Value /\ Tail(vec) \in Seq(Value) /\ Len(Tail(vec)) = Len(vec) - 1
    BY <2>1
  <2>3. TypeOK' /\ RingWhole'
    BY <1>3, <2>2, PutWhole DEF push_next, IInv, TypeOK
  <2>4. m_size' = m_size + 1
    BY <1>3 DEF push_next, put
  <2>5. Room'
    BY <1>3, <2>1, <2>2, <2>4 DEF push_next, Room, IInv, TypeOK
  <2> QED
    BY <2>3, <2>5 DEF IInv
<1>4. ASSUME ~empty, drop, UNCHANGED vec, answer' \in Value \cup {NoValue}
      PROVE  IInv'
  <2>1. TypeOK' /\ RingWhole'
    BY <1>4, DropWhole DEF IInv, TypeOK
  <2>2. Room'
    BY <1>4 DEF drop, Room, IInv, TypeOK
  <2> QED
    BY <2>1, <2>2 DEF IInv
<1>5. ASSUME UNCHANGED <<ring, vec>>, answer' \in Value \cup {NoValue}
      PROVE  IInv'
  <2>1. TypeOK'
    BY <1>5 DEF TypeOK, IInv, ring, Index
  <2>2. RingWhole' /\ Room'
    BY <1>5 DEF RingWhole, Live, Room, IInv, ring, Index
  <2> QED
    BY <2>1, <2>2 DEF IInv
<1>6. ~empty => m_data[m_front] \in Value
  <2>1. ~empty => m_front \in Index /\ Taken(m_front, m_front, m_size, m_capacity)
    BY DEF empty, Taken, IInv, TypeOK, Index
  <2> QED
    BY <2>1, WholeTaken DEF IInv, TypeOK
<1>7. CASE pop
  BY <1>4, <1>5, <1>6, <1>7 DEF pop
<1>8. CASE discard
  BY <1>4, <1>8 DEF discard, IInv, TypeOK
<1>9. CASE front
  BY <1>5, <1>6, <1>9 DEF front
<1>10. CASE UNCHANGED vars
  BY <1>5, <1>10 DEF vars, IInv, TypeOK
<1> QED
  BY <1>1, <1>2, <1>3, <1>7, <1>8, <1>9, <1>10 DEF Next

(* The state always has its type (RingQueue.h's fields).                    *)
THEOREM RingTypeCorrect == Spec => []TypeOK
<1>1. IInv => TypeOK
  BY DEF IInv
<1> QED
  BY InitIInv, NextIInv, <1>1, PTL DEF Spec

(* The ring is always whole: exactly the places from the front on, as many  *)
(* as it counts, hold values, whatever it is asked and however often it     *)
(* turns and grows (RingQueue.h push, pop, extend).                        *)
THEOREM RingAlwaysWhole == Spec => []RingWhole
<1>1. IInv => RingWhole
  BY DEF IInv
<1> QED
  BY InitIInv, NextIInv, <1>1, PTL DEF Spec

-----------------------------------------------------------------------------
(* Where the i-th value is.                                                 *)
Place(i, f, cap) == IF f + (i - 1) < cap THEN f + (i - 1) ELSE (f + (i - 1)) - cap

(* The places of the values are in the array (RingQueue.h mod_idx).         *)
LEMMA PlaceOf ==
  ASSUME NEW cap \in Nat \ {0}, NEW f \in 0 .. cap - 1, NEW size \in 0 .. cap,
         NEW i \in 1 .. size
  PROVE  mod_idx(f + (i - 1), cap) = Place(i, f, cap) /\ Place(i, f, cap) \in 0 .. cap - 1
<1> DEFINE k == f + (i - 1)
<1>1. k \in 0 .. 2 * cap - 1 /\ k - cap < cap
  OBVIOUS
<1>2. mod_idx(k, cap) = IF k < cap THEN k ELSE k - cap
  <2> HIDE DEF k
  <2> QED
    BY <1>1, ModIdx
<1> QED
  BY <1>1, <1>2 DEF Place

(* An empty ring is an empty queue.                                         *)
LEMMA InitFifo == Init => Queue!Init
<1> SUFFICES ASSUME Init PROVE Queue!Init
  OBVIOUS
<1>1. Content = <<>>
  BY DEF Content, Init
<1> QED
  BY <1>1 DEF Init, Queue!Init

(* put appends, with and without a larger array (RingQueue.h push, extend). *)
LEMMA PutFifo ==
  ASSUME IInv, NEW x \in Value, put(x), UNCHANGED answer
  PROVE  Queue!Put(x)
<1> USE RingQueueAssumption
<1>1. /\ m_size \in Nat /\ Content \in Seq(Value) /\ Len(Content) = m_size
      /\ m_capacity \in Nat \ {0} /\ m_front \in 0 .. m_capacity - 1
      /\ m_size \in 0 .. m_capacity
  BY ContentSeq DEF IInv, TypeOK, Index
<1>2. m_size < MaxSize /\ m_size' = m_size + 1
  BY DEF put
<1>3. \A i \in 1 .. m_size : Content[i] = m_data[Place(i, m_front, m_capacity)]
  BY ContentSeq DEF Place
<1>4. ASSUME ~full
      PROVE  \A i \in 1 .. m_size + 1 :
               m_data'[mod_idx(m_front' + (i - 1), m_capacity')]
                 = IF i = m_size + 1 THEN x ELSE m_data[Place(i, m_front, m_capacity)]
  <2>1. /\ m_data' = [m_data EXCEPT ![m_back] = x]
        /\ m_capacity' = m_capacity /\ m_front' = m_front
    BY <1>4 DEF put, current
  <2>2. m_size + 1 \in 0 .. m_capacity
    BY <1>1, <1>4 DEF full
  <2>3. m_back = Place(m_size + 1, m_front, m_capacity)
    <3>1. mod_idx(m_front + ((m_size + 1) - 1), m_capacity)
            = Place(m_size + 1, m_front, m_capacity)
      BY <1>1, <2>2, PlaceOf
    <3>2. m_front + ((m_size + 1) - 1) = m_front + m_size
      BY <1>1
    <3> QED
      BY <3>1, <3>2 DEF IInv, RingWhole
  <2>4. ASSUME NEW i \in 1 .. m_size + 1
        PROVE  /\ mod_idx(m_front + (i - 1), m_capacity) = Place(i, m_front, m_capacity)
               /\ Place(i, m_front, m_capacity) \in Index
               /\ i # m_size + 1 => Place(i, m_front, m_capacity) # m_back
    <3>1. /\ mod_idx(m_front + (i - 1), m_capacity) = Place(i, m_front, m_capacity)
          /\ Place(i, m_front, m_capacity) \in Index
      BY <1>1, <2>2, PlaceOf DEF Index
    <3>2. i # m_size + 1 => Place(i, m_front, m_capacity) # m_back
      BY <1>1, <2>2, <2>3 DEF Place
    <3> QED
      BY <3>1, <3>2
  <2>5. m_data \in [Index -> Value \cup {NoValue}]
    BY DEF IInv, TypeOK
  <2> QED
    BY <2>1, <2>3, <2>4, <2>5
<1>5. ASSUME full
      PROVE  \A i \in 1 .. m_size + 1 :
               m_data'[mod_idx(m_front' + (i - 1), m_capacity')]
                 = IF i = m_size + 1 THEN x ELSE m_data[Place(i, m_front, m_capacity)]
  <2> DEFINE cap == m_capacity * GROW_FACTOR
             new == [i \in 0 .. cap - 1 |->
                       IF i < m_size - m_front THEN m_data[m_front + i]
                       ELSE IF i < m_size - m_front + m_back
                            THEN m_data[i - (m_size - m_front)] ELSE NoValue]
  <2>1. cap \in Nat /\ cap > m_size /\ m_size = m_capacity
    <3>1. m_size = m_capacity
      BY <1>5 DEF full
    <3>2. cap \in Nat /\ cap >= 2 * m_capacity
      BY <1>1, SMT
    <3> QED
      BY <1>1, <3>1, <3>2
  <2>2. m_back = m_front
    BY <1>1, <2>1, ModIdx DEF IInv, RingWhole
  <2> HIDE DEF cap
  <2>3. extend = [data |-> new, capacity |-> cap, front |-> 0, back |-> m_size]
    BY DEF extend, cap
  <2>4. m_data' = [new EXCEPT ![m_size] = x] /\ m_capacity' = cap /\ m_front' = 0
    <3> HIDE DEF new
    <3> QED
      BY <1>5, <2>3 DEF put
  <2>5. ASSUME NEW i \in 1 .. m_size + 1
        PROVE  m_data'[mod_idx(m_front' + (i - 1), m_capacity')]
                 = IF i = m_size + 1 THEN x ELSE m_data[Place(i, m_front, m_capacity)]
    <3>1. i - 1 \in 0 .. cap - 1 /\ i - 1 =< m_size /\ i - 1 < cap
      BY <1>1, <2>1
    <3>2. mod_idx(0 + (i - 1), cap) = i - 1
      <4> DEFINE k == 0 + (i - 1)
      <4>1. k \in 0 .. 2 * cap - 1 /\ k < cap /\ k = i - 1 /\ cap \in Nat \ {0}
        BY <2>1, <3>1
      <4>2. mod_idx(k, cap) = k
        <5> HIDE DEF k
        <5> QED
          BY <4>1, ModIdx
      <4> QED
        BY <4>1, <4>2
    <3>3. new[m_size + 1 - 1] = new[m_size]
      BY <1>1
    <3>4. ASSUME i # m_size + 1
          PROVE  new[i - 1] = m_data[Place(i, m_front, m_capacity)]
      <4>1. i - 1 < m_size - m_front
              => new[i - 1] = m_data[m_front + (i - 1)] /\ m_front + (i - 1) < m_capacity
        BY <1>1, <2>1, <3>1
      <4>2. ~(i - 1 < m_size - m_front)
              => /\ new[i - 1] = m_data[(i - 1) - (m_size - m_front)]
                 /\ ~(m_front + (i - 1) < m_capacity)
                 /\ (i - 1) - (m_size - m_front) = (m_front + (i - 1)) - m_capacity
        BY <1>1, <2>1, <2>2, <3>1, <3>4
      <4> QED
        BY <4>1, <4>2 DEF Place
    <3>5. m_data'[i - 1] = IF i - 1 = m_size THEN x ELSE new[i - 1]
      BY <2>4, <3>1
    <3>6. i - 1 = m_size <=> i = m_size + 1
      BY <1>1
    <3> QED
      BY <2>4, <3>2, <3>4, <3>5, <3>6
  <2> QED
    BY <2>5
<1>6. Content' = [i \in 1 .. m_size + 1 |-> IF i = m_size + 1 THEN x ELSE Content[i]]
  <2>1. Content' = [i \in 1 .. m_size + 1 |-> m_data'[mod_idx(m_front' + (i - 1), m_capacity')]]
    BY <1>2 DEF Content
  <2>2. \A i \in 1 .. m_size + 1 :
          m_data'[mod_idx(m_front' + (i - 1), m_capacity')]
            = IF i = m_size + 1 THEN x ELSE Content[i]
    <3>1. \A i \in 1 .. m_size + 1 : i = m_size + 1 \/ i \in 1 .. m_size
      BY <1>1
    <3> QED
      BY <1>3, <1>4, <1>5, <3>1
  <2> QED
    BY <2>1, <2>2
<1>7. Content' = Append(Content, x)
  <2>1. Content' \in [1 .. m_size + 1 -> Value]
    <3>1. \A i \in 1 .. m_size + 1 : i # m_size + 1 => Content[i] \in Value
      <4>1. \A i \in 1 .. m_size + 1 : i # m_size + 1 => i \in 1 .. Len(Content)
        BY <1>1
      <4> QED
        BY <1>1, <4>1, ElementOfSeq
    <3> QED
      BY <1>6, <3>1
  <2>2. Content' \in Seq(Value) /\ Len(Content') = m_size + 1
    BY <1>1, <2>1
  <2>3. Append(Content, x) \in Seq(Value) /\ Len(Append(Content, x)) = m_size + 1
    BY <1>1
  <2>4. \A i \in 1 .. m_size + 1 : Append(Content, x)[i] = IF i = m_size + 1 THEN x ELSE Content[i]
    BY <1>1
  <2>5. \A i \in 1 .. Len(Content') : Content'[i] = Append(Content, x)[i]
    BY <1>6, <2>2, <2>4
  <2> QED
    BY <2>2, <2>3, <2>5, SeqEqual
<1> QED
  BY <1>1, <1>2, <1>7 DEF Queue!Put

(* drop takes the head off (RingQueue.h pop).                               *)
LEMMA DropFifo ==
  ASSUME IInv, ~empty, drop
  PROVE  Content # <<>> /\ Head(Content) = m_data[m_front] /\ Content' = Tail(Content)
<1>1. /\ m_size \in Nat \ {0} /\ Content \in Seq(Value) /\ Len(Content) = m_size
      /\ m_capacity \in Nat \ {0} /\ m_front \in 0 .. m_capacity - 1
      /\ m_size \in 0 .. m_capacity /\ m_data \in [0 .. m_capacity - 1 -> Value \cup {NoValue}]
  BY ContentSeq DEF IInv, TypeOK, Index, empty
<1>2. \A i \in 1 .. m_size : Content[i] = m_data[Place(i, m_front, m_capacity)]
  BY ContentSeq DEF Place
<1>3. Content # <<>> /\ Head(Content) = m_data[m_front]
  <2>1. Content # <<>>
    BY <1>1
  <2>2. 1 \in 1 .. m_size /\ Place(1, m_front, m_capacity) = m_front
    BY <1>1 DEF Place
  <2> QED
    BY <1>1, <1>2, <2>1, <2>2
<1>4. /\ m_data' = [m_data EXCEPT ![m_front] = NoValue]
      /\ m_size' = m_size - 1 /\ m_capacity' = m_capacity
      /\ m_front' = IF m_front + 1 < m_capacity THEN m_front + 1 ELSE 0
  BY <1>1, ModIdx DEF drop
<1>5. ASSUME NEW i \in 1 .. m_size - 1
      PROVE  m_data'[mod_idx(m_front' + (i - 1), m_capacity)] = Content[i + 1]
  <2>1. m_front' \in 0 .. m_capacity - 1 /\ m_size - 1 \in 0 .. m_capacity
    BY <1>1, <1>4
  <2>2. /\ mod_idx(m_front' + (i - 1), m_capacity) = Place(i, m_front', m_capacity)
        /\ Place(i, m_front', m_capacity) \in 0 .. m_capacity - 1
    BY <1>1, <2>1, PlaceOf
  <2>3. Place(i, m_front', m_capacity) = Place(i + 1, m_front, m_capacity)
    BY <1>1, <1>4 DEF Place
  <2>4. Place(i + 1, m_front, m_capacity) # m_front
    BY <1>1 DEF Place
  <2>5. i + 1 \in 1 .. m_size
    BY <1>1
  <2> QED
    BY <1>1, <1>2, <1>4, <2>2, <2>3, <2>4, <2>5
<1>6. Content' = [i \in 1 .. m_size - 1 |-> Content[i + 1]]
  <2>1. Content' = [i \in 1 .. m_size - 1 |-> m_data'[mod_idx(m_front' + (i - 1), m_capacity)]]
    BY <1>4 DEF Content
  <2> QED
    BY <1>5, <2>1
<1>7. Content' = Tail(Content)
  <2>1. /\ Tail(Content) \in Seq(Value) /\ Len(Tail(Content)) = m_size - 1
        /\ \A i \in 1 .. m_size - 1 : Tail(Content)[i] = Content[i + 1]
    BY <1>1, <1>3, HeadTailProperties
  <2>2. \A i \in 1 .. m_size - 1 : Content'[i] = Tail(Content)[i]
    BY <1>6, <2>1
  <2>3. Content' \in [1 .. m_size - 1 -> Value]
    <3>1. \A i \in 1 .. m_size - 1 : Content[i + 1] \in Value
      <4>1. \A i \in 1 .. m_size - 1 : i + 1 \in 1 .. Len(Content)
        BY <1>1
      <4> QED
        BY <1>1, <4>1, ElementOfSeq
    <3> QED
      BY <1>6, <3>1
  <2>4. Content' \in Seq(Value) /\ Len(Content') = m_size - 1
    BY <1>1, <2>3
  <2> QED
    BY <2>1, <2>2, <2>4, SeqEqual
<1> QED
  BY <1>3, <1>7

(* Every step is one of the queue's, or changes neither its values nor its  *)
(* answer.                                                                  *)
LEMMA NextFifo == IInv /\ [Next]_vars => [Queue!Next]_Queue!vars
<1> SUFFICES ASSUME IInv, [Next]_vars PROVE [Queue!Next]_Queue!vars
  OBVIOUS
<1> USE DEF Queue!Next, Queue!vars
<1>1. ASSUME NEW x \in Value, push(x)
      PROVE  Queue!Next
  <2>1. Queue!Put(x)
    BY <1>1, PutFifo DEF push
  <2> QED
    BY <2>1
<1>2. ASSUME UNCHANGED <<ring, answer>>
      PROVE  UNCHANGED Queue!vars
  BY <1>2 DEF ring, Content
<1>3. CASE push_all
  BY <1>2, <1>3 DEF push_all
<1>4. CASE push_next
  <2>1. Head(vec) \in Value /\ put(Head(vec)) /\ UNCHANGED answer
    <3>1. vec \in Seq(Value) /\ vec # <<>>
      BY <1>4 DEF push_next, IInv, TypeOK
    <3> QED
      BY <1>4, <3>1 DEF push_next
  <2>2. Queue!Put(Head(vec))
    BY <2>1, PutFifo
  <2> QED
    BY <2>1, <2>2
<1>5. empty => Content = <<>>
  BY DEF empty, Content
<1>6. CASE pop
  <2>1. CASE empty
    <3>1. answer' = NoValue /\ UNCHANGED ring
      BY <1>6, <2>1 DEF pop
    <3>2. UNCHANGED Content
      BY <3>1 DEF ring, Content
    <3> QED
      BY <1>5, <2>1, <3>1, <3>2 DEF Queue!Nothing
  <2>2. CASE ~empty
    <3>1. answer' = m_data[m_front] /\ drop
      BY <1>6, <2>2 DEF pop
    <3> QED
      BY <2>2, <3>1, DropFifo DEF Queue!Take
  <2> QED
    BY <2>1, <2>2
<1>7. CASE discard
  BY <1>7, DropFifo DEF discard, Queue!Discard
<1>8. CASE front
  <2>1. UNCHANGED Content
    BY <1>8 DEF front, ring, Content
  <2>2. CASE empty
    BY <1>5, <1>8, <2>1, <2>2 DEF front, Queue!Nothing
  <2>3. CASE ~empty
    <3>1. m_size \in 1 .. m_capacity /\ m_capacity \in Nat \ {0} /\ m_front \in 0 .. m_capacity - 1
      BY <2>3 DEF empty, IInv, TypeOK, Index
    <3>2. Content # <<>> /\ Head(Content) = m_data[m_front]
      <4>1. 1 \in 1 .. m_size /\ Place(1, m_front, m_capacity) = m_front
        BY <3>1 DEF Place
      <4>2. Content \in Seq(Value) /\ Len(Content) = m_size
        BY ContentSeq
      <4>3. Content[1] = m_data[Place(1, m_front, m_capacity)]
        BY <4>1, ContentSeq DEF Place
      <4> QED
        BY <3>1, <4>1, <4>2, <4>3
    <3> QED
      BY <1>8, <2>1, <2>3, <3>2 DEF front, Queue!Look
  <2> QED
    BY <2>2, <2>3
<1>9. CASE UNCHANGED vars
  BY <1>2, <1>9 DEF vars
<1> QED
  BY <1>1, <1>3, <1>4, <1>6, <1>7, <1>8, <1>9 DEF Next

(* The ring is a queue: every value leaves once and in the order in which   *)
(* it came, whatever its first capacity, its growth and what is asked of it *)
(* (RingQueue.h).                                                          *)
THEOREM RingIsFifo == Spec => ImplementsFifo
<1>1. Spec => []IInv
  BY InitIInv, NextIInv, PTL DEF Spec
<1>2. Spec => Queue!Spec
  BY <1>1, InitFifo, NextFifo, PTL DEF Spec, Queue!Spec
<1> QED
  BY <1>2 DEF ImplementsFifo

-----------------------------------------------------------------------------
(* What a caller has read: an index that was not past m_write, or m_read,   *)
(* and with that index a fence beyond it.                                   *)
SideSays(t, index, its_fence) ==
  /\ ring_pc[t] \in {"fence", "claim"} => ring_idx[t] =< index
  /\ ring_pc[t] = "claim" => ring_idx[t] < fence[t] /\ fence[t] =< its_fence

FenceInv ==
  /\ m_write \in Nat /\ m_write_fence \in Nat /\ m_read \in Nat /\ m_read_fence \in Nat
  /\ ring_pc \in [Rb!Caller -> {"idle", "fence", "claim", "slot", "count"}]
  /\ ring_idx \in [Rb!Caller -> Nat] /\ fence \in [Rb!Caller -> Nat]
  /\ Rb!NeverPastFence
  /\ \A t \in RingPusher : SideSays(t, m_write, m_write_fence)
  /\ \A t \in RingPopper : SideSays(t, m_read, m_read_fence)

(* One pusher, one popper: 1 while its claim is not carried out.            *)
Claims(t, places) == IF ring_pc[t] \in places THEN 1 ELSE 0

OneSays(p, q) ==
  /\ m_write =< MaxPush
  /\ m_read_fence = m_write - Claims(p, {"slot", "count"})
  /\ m_write_fence = Capacity + m_read - Claims(q, {"slot", "count"})
  /\ ring_pushed = m_write - Claims(p, {"slot"})
  /\ Len(ring_popped) = m_read - Claims(q, {"slot"})
  /\ ring_pc[p] \in {"slot", "count"} => ring_idx[p] = m_write - 1
  /\ ring_pc[q] \in {"slot", "count"} => ring_idx[q] = m_read - 1

(* The slots between what was popped and what was pushed.                   *)
SlotsSay ==
  /\ \A j \in Nat : Len(ring_popped) =< j /\ j < ring_pushed => ring_data[Rb!mod_idx(j)] = j + 1
  /\ Rb!Fifo

-----------------------------------------------------------------------------
(* An index is read before its fence, and neither goes back: an index that  *)
(* differs from the fence is below it, and so is what comes after it.       *)
LEMMA FenceStep ==
  ASSUME Rb!RingAssumption, FenceInv, [Rb!Next]_Rb!vars PROVE FenceInv'
<1> USE DEF FenceInv, Rb!fences
<1>c. RingPusher \subseteq Rb!Caller /\ RingPopper \subseteq Rb!Caller /\ RingPusher \cap RingPopper = {}
      /\ Rb!Caller = RingPusher \cup RingPopper
  BY DEF Rb!Caller, Rb!RingAssumption
<1>1. ASSUME NEW t \in Rb!Caller, Rb!load(t) PROVE FenceInv'
  <2>1. ring_idx' \in [Rb!Caller -> Nat] /\ ring_pc' \in [Rb!Caller -> {"idle", "fence", "claim", "slot", "count"}]
    BY <1>1 DEF Rb!load, Rb!Goto
  <2> QED BY <1>c, <1>1, <2>1 DEF Rb!load, Rb!Goto, SideSays, Rb!NeverPastFence
<1>2. ASSUME NEW t \in Rb!Caller, Rb!load_fence(t) PROVE FenceInv'
  BY <1>c, <1>2 DEF Rb!load_fence, Rb!Goto, SideSays, Rb!NeverPastFence
<1>3. ASSUME NEW t \in Rb!Caller, Rb!claim(t) PROVE FenceInv'
  <2>1. CASE t \in RingPusher
    BY <1>c, <1>3, <2>1 DEF Rb!claim, Rb!Goto, SideSays, Rb!NeverPastFence
  <2>2. CASE t \in RingPopper
    BY <1>c, <1>3, <2>2 DEF Rb!claim, Rb!Goto, SideSays, Rb!NeverPastFence
  <2> QED BY <1>c, <2>1, <2>2
<1>4. ASSUME NEW t \in Rb!Caller, Rb!write_slot(t) \/ Rb!read_slot(t) PROVE FenceInv'
  BY <1>c, <1>4 DEF Rb!write_slot, Rb!read_slot, Rb!Goto, SideSays, Rb!NeverPastFence
<1>5. ASSUME NEW t \in Rb!Caller, Rb!count(t) PROVE FenceInv'
  BY <1>c, <1>5 DEF Rb!count, Rb!Goto, SideSays, Rb!NeverPastFence
<1>6. CASE UNCHANGED Rb!vars
  BY <1>c, <1>6 DEF Rb!vars, SideSays, Rb!NeverPastFence
<1> QED BY <1>1, <1>2, <1>3, <1>4, <1>5, <1>6 DEF Rb!Next

(* An empty ring is inside its fences. *)
LEMMA FenceInit == ASSUME Rb!RingAssumption, Rb!Init PROVE FenceInv
BY DEF Rb!RingAssumption, Rb!Init, FenceInv, SideSays, Rb!NeverPastFence, Rb!Caller

(* However many push and pop, no index gets past its fence (push, pop).     *)
THEOREM FencesHold == ASSUME Rb!RingAssumption PROVE Rb!Spec => []Rb!NeverPastFence
<1>1. FenceInv => Rb!NeverPastFence
  BY DEF FenceInv
<1>2. Rb!Init => FenceInv
  BY FenceInit
<1>3. FenceInv /\ [Rb!Next]_Rb!vars => FenceInv'
  BY FenceStep
<1> QED BY <1>1, <1>2, <1>3, PTL DEF Rb!Spec

-----------------------------------------------------------------------------
(* Two indices that are less than a buffer apart have slots of their own.   *)
LEMMA ModIs ==
  ASSUME NEW C \in Nat, C > 0, NEW a \in Nat
  PROVE  a % C \in 0 .. C - 1 /\ a \div C \in Int /\ a = C * (a \div C) + (a % C)
<1>1. a % C \in 0 .. C - 1
  BY SMT
<1>2. a \div C \in Int
  BY SMT
<1>3. a = C * (a \div C) + (a % C)
  BY SMT
<1> QED BY <1>1, <1>2, <1>3

(* No multiple of the capacity lies strictly between nothing and the capacity. *)
LEMMA Multiple ==
  ASSUME NEW C \in Nat, C > 0, NEW x \in Int, NEW y \in Int, C * y - C * x > 0,
         C * y - C * x < C
  PROVE  FALSE
<1>1. CASE y =< x
  BY <1>1, SMT
<1>2. CASE y >= x + 1
  BY <1>2, SMT
<1> QED BY <1>1, <1>2

(* Two indices less than a turn apart are in different slots (mod_idx). *)
LEMMA SlotsApart ==
  ASSUME Rb!RingAssumption, NEW a \in Nat, NEW b \in Nat, a < b, b - a < Capacity
  PROVE  Rb!mod_idx(a) # Rb!mod_idx(b)
<1> DEFINE x == a \div Capacity
           y == b \div Capacity
<1>0. Capacity \in Nat /\ Capacity > 0
  BY DEF Rb!RingAssumption
<1> SUFFICES ASSUME a % Capacity = b % Capacity PROVE FALSE
  BY DEF Rb!mod_idx
<1>1. a = Capacity * x + (a % Capacity) /\ x \in Int /\ a % Capacity \in Int
  BY <1>0, ModIs
<1>2. b = Capacity * y + (a % Capacity) /\ y \in Int
  BY <1>0, ModIs
<1> HIDE DEF x, y
<1>3. Capacity * x \in Int /\ Capacity * y \in Int
  BY <1>0, <1>1, <1>2, SMT
<1> DEFINE cx == Capacity * x
           cy == Capacity * y
           r  == a % Capacity
<1>4. cy - cx > 0 /\ cy - cx < Capacity
  <2> HIDE DEF cx, cy, r
  <2>1. a = cx + r /\ b = cy + r /\ r \in Int /\ cx \in Int /\ cy \in Int
    BY <1>1, <1>2, <1>3 DEF cx, cy, r
  <2> QED BY <1>0, <2>1
<1> QED BY <1>0, <1>1, <1>2, <1>4, Multiple

(* One pusher and one popper.                                               *)
DataTypes ==
  /\ ring_data \in [0 .. Capacity - 1 -> 0 .. MaxPush]
  /\ ring_pushed \in 0 .. MaxPush /\ ring_popped \in Seq(0 .. MaxPush)

OneInv(p, q) == FenceInv /\ DataTypes /\ OneSays(p, q) /\ SlotsSay

(* The accounts of one pusher and one popper hold of the empty ring. *)
LEMMA OneInit ==
  ASSUME Rb!RingAssumption, NEW p, NEW q, RingPusher = {p}, RingPopper = {q}, Rb!Init
  PROVE  OneInv(p, q)
<1>1. DataTypes /\ Len(ring_popped) = 0 /\ ring_pushed = 0
  BY DEF Rb!RingAssumption, Rb!Init, DataTypes
<1>2. ring_pc[p] = "idle" /\ ring_pc[q] = "idle"
  BY DEF Rb!Init, Rb!Caller
<1>3. OneSays(p, q)
  <2>1. m_write = 0 /\ m_write_fence = Capacity /\ m_read = 0 /\ m_read_fence = 0
        /\ Capacity \in Nat /\ MaxPush \in Nat
    BY DEF Rb!Init, Rb!RingAssumption
  <2>2. /\ Claims(p, {"slot", "count"}) = 0 /\ Claims(q, {"slot", "count"}) = 0
        /\ Claims(p, {"slot"}) = 0 /\ Claims(q, {"slot"}) = 0
    BY <1>2 DEF Claims
  <2> QED BY <1>1, <1>2, <2>1, <2>2 DEF OneSays
<1>4. SlotsSay
  BY <1>1 DEF Rb!Init, SlotsSay, Rb!Fifo
<1> QED BY <1>1, <1>3, <1>4, FenceInit DEF OneInv

(* What the accounts say of the two, and of the slots between them.         *)
LEMMA OneNumbers ==
  ASSUME Rb!RingAssumption, NEW p, NEW q, RingPusher = {p}, RingPopper = {q}, OneInv(p, q)
  PROVE  /\ Rb!Caller = {p, q} /\ p # q /\ Capacity \in Nat /\ Capacity > 0 /\ MaxPush \in Nat
         /\ m_write \in Nat /\ m_read \in Nat /\ ring_pushed \in Nat /\ Len(ring_popped) \in Nat
         /\ m_read_fence \in Nat /\ m_write_fence \in Nat
         /\ Len(ring_popped) =< ring_pushed /\ ring_pushed - Len(ring_popped) =< Capacity
         /\ ring_pc[q] = "slot" => Len(ring_popped) < ring_pushed
         /\ ring_pc[p] = "slot" => ring_pushed - Len(ring_popped) < Capacity
<1>1. Rb!Caller = {p, q}
  BY DEF Rb!Caller
<1>0. p # q
  <2>1. p \in RingPusher /\ q \in RingPopper /\ RingPusher \cap RingPopper = {}
    BY DEF Rb!RingAssumption
  <2> QED BY <2>1
<1>2. p # q /\ Capacity \in Nat /\ Capacity > 0 /\ MaxPush \in Nat
  BY <1>0 DEF Rb!RingAssumption
<1>3. m_write \in Nat /\ m_read \in Nat /\ m_read_fence \in Nat /\ m_write_fence \in Nat
      /\ m_write =< m_write_fence /\ m_read =< m_read_fence
  BY DEF OneInv, FenceInv, Rb!NeverPastFence
<1>4. ring_pushed \in Nat /\ Len(ring_popped) \in Nat
  BY DEF OneInv, DataTypes
<1> DEFINE n == Len(ring_popped)
<1> HIDE DEF n
<1>5. /\ m_read_fence = m_write - Claims(p, {"slot", "count"})
      /\ m_write_fence = Capacity + m_read - Claims(q, {"slot", "count"})
      /\ ring_pushed = m_write - Claims(p, {"slot"}) /\ n = m_read - Claims(q, {"slot"})
  BY DEF OneInv, OneSays, n
<1>6. n \in Nat
  BY <1>4 DEF n
<1>7. n =< ring_pushed /\ ring_pushed - n =< Capacity
      /\ (ring_pc[q] = "slot" => n < ring_pushed) /\ (ring_pc[p] = "slot" => ring_pushed - n < Capacity)
  BY <1>2, <1>3, <1>4, <1>5, <1>6 DEF Claims
<1> QED BY <1>1, <1>2, <1>3, <1>4, <1>7 DEF n

(* The accounts of one pusher and one popper contain the types. *)
LEMMA OneTypes ==
  ASSUME Rb!RingAssumption, NEW p, NEW q, RingPusher = {p}, RingPopper = {q}, OneInv(p, q)
  PROVE  Rb!TypeOK
<1>1. /\ Capacity \in Nat /\ MaxPush \in Nat /\ m_write \in Nat /\ m_read \in Nat
      /\ m_read_fence \in Nat /\ m_write_fence \in Nat
  BY OneNumbers
<1>2. /\ m_write =< MaxPush /\ m_read =< m_read_fence
      /\ m_read_fence = m_write - Claims(p, {"slot", "count"})
      /\ m_write_fence = Capacity + m_read - Claims(q, {"slot", "count"})
  BY DEF OneInv, OneSays, FenceInv, Rb!NeverPastFence
<1>3. /\ m_write \in 0 .. MaxPush /\ m_write_fence \in 0 .. MaxPush + Capacity
      /\ m_read \in 0 .. MaxPush /\ m_read_fence \in 0 .. MaxPush
  BY <1>1, <1>2 DEF Claims
<1> QED BY <1>3 DEF OneInv, DataTypes, FenceInv, Rb!TypeOK

(* Every step of the pusher and of the popper keeps their accounts. *)
LEMMA OneStep ==
  ASSUME Rb!RingAssumption, NEW p, NEW q, RingPusher = {p}, RingPopper = {q}, OneInv(p, q), [Rb!Next]_Rb!vars
  PROVE  OneInv(p, q)'
<1>0. FenceInv /\ DataTypes /\ OneSays(p, q) /\ SlotsSay
  BY DEF OneInv
<1>c. /\ Rb!Caller = {p, q} /\ p # q /\ Capacity \in Nat /\ Capacity > 0 /\ MaxPush \in Nat
      /\ m_write \in Nat /\ m_read \in Nat /\ ring_pushed \in Nat /\ Len(ring_popped) \in Nat
      /\ m_read_fence \in Nat /\ m_write_fence \in Nat
      /\ ring_pc \in [{p, q} -> {"idle", "fence", "claim", "slot", "count"}]
      /\ ring_idx \in [{p, q} -> Nat] /\ fence \in [{p, q} -> Nat]
  BY <1>0, OneNumbers DEF FenceInv
<1>f. FenceInv'
  BY <1>0, FenceStep
<1>p. /\ Len(ring_popped) =< ring_pushed /\ ring_pushed - Len(ring_popped) =< Capacity
      /\ ring_pc[q] = "slot" => Len(ring_popped) < ring_pushed
      /\ ring_pc[p] = "slot" => ring_pushed - Len(ring_popped) < Capacity
  BY OneNumbers
<1> USE DEF Rb!fences
<1>1. ASSUME NEW t \in Rb!Caller, Rb!load(t) \/ Rb!load_fence(t) PROVE OneInv(p, q)'
  <2>1. UNCHANGED <<ring_data, m_write, m_write_fence, m_read, m_read_fence, ring_pushed, ring_popped>>
    BY <1>1 DEF Rb!load, Rb!load_fence
  <2>2. /\ Claims(p, {"slot", "count"})' = Claims(p, {"slot", "count"})
        /\ Claims(q, {"slot", "count"})' = Claims(q, {"slot", "count"})
        /\ Claims(p, {"slot"})' = Claims(p, {"slot"}) /\ Claims(q, {"slot"})' = Claims(q, {"slot"})
    BY <1>c, <1>1 DEF Rb!load, Rb!load_fence, Rb!Goto, Claims
  <2>3. /\ ring_pc'[p] \in {"slot", "count"} => ring_pc'[p] = ring_pc[p] /\ ring_idx'[p] = ring_idx[p]
        /\ ring_pc'[q] \in {"slot", "count"} => ring_pc'[q] = ring_pc[q] /\ ring_idx'[q] = ring_idx[q]
    BY <1>c, <1>1 DEF Rb!load, Rb!load_fence, Rb!Goto
  <2>4. OneSays(p, q)'
    BY <1>0, <2>1, <2>2, <2>3 DEF OneSays
  <2> QED BY <1>0, <1>f, <2>1, <2>4 DEF OneInv, DataTypes, SlotsSay, Rb!Fifo
<1>2. ASSUME NEW t \in Rb!Caller, Rb!claim(t) PROVE OneInv(p, q)'
  <2>1. UNCHANGED <<ring_data, m_write_fence, m_read_fence, ring_pushed, ring_popped>>
    BY <1>2 DEF Rb!claim
  <2>2. CASE t = p /\ ring_pc'[p] = "slot"
    <3>1. /\ ring_pc[p] = "claim" /\ ring_pc'[q] = ring_pc[q] /\ ring_idx' = ring_idx /\ ring_idx[p] = m_write
          /\ m_write < MaxPush /\ m_write' = m_write + 1 /\ m_read' = m_read
      BY <1>c, <1>2, <2>2 DEF Rb!claim, Rb!Goto
    <3>2. OneSays(p, q)'
      BY <1>0, <1>c, <2>1, <2>2, <3>1 DEF OneSays, Claims
    <3> QED BY <1>0, <1>f, <2>1, <3>2 DEF OneInv, DataTypes, SlotsSay, Rb!Fifo
  <2>3. CASE t = q /\ ring_pc'[q] = "slot"
    <3>1. /\ ring_pc[q] = "claim" /\ ring_pc'[p] = ring_pc[p] /\ ring_idx' = ring_idx /\ ring_idx[q] = m_read
          /\ m_write' = m_write /\ m_read' = m_read + 1
      BY <1>c, <1>2, <2>3 DEF Rb!claim, Rb!Goto
    <3>2. OneSays(p, q)'
      BY <1>0, <1>c, <2>1, <2>3, <3>1 DEF OneSays, Claims
    <3> QED BY <1>0, <1>f, <2>1, <3>2 DEF OneInv, DataTypes, SlotsSay, Rb!Fifo
  <2>4. CASE ring_pc'[t] # "slot"
    <3>1. /\ ring_pc[t] = "claim" /\ ring_pc'[t] = "fence"
          /\ \A u \in {p, q} : u # t => ring_pc'[u] = ring_pc[u] /\ ring_idx'[u] = ring_idx[u]
          /\ m_write' = m_write /\ m_read' = m_read
      BY <1>c, <1>2, <2>4 DEF Rb!claim, Rb!Goto
    <3>2. OneSays(p, q)'
      BY <1>0, <1>c, <2>1, <3>1 DEF OneSays, Claims
    <3> QED BY <1>0, <1>f, <2>1, <3>2 DEF OneInv, DataTypes, SlotsSay, Rb!Fifo
  <2> QED BY <1>c, <2>2, <2>3, <2>4
<1>3. ASSUME NEW t \in Rb!Caller, Rb!write_slot(t) PROVE OneInv(p, q)'
  <2>1. /\ t = p /\ ring_pc[p] = "slot" /\ ring_pc'[p] = "count" /\ ring_pc'[q] = ring_pc[q] /\ ring_idx' = ring_idx
        /\ UNCHANGED <<m_write, m_write_fence, m_read, m_read_fence, ring_popped>>
        /\ ring_pushed' = ring_pushed + 1
        /\ ring_data' = [ring_data EXCEPT ![Rb!mod_idx(ring_idx[p])] = ring_pushed + 1]
    BY <1>c, <1>3 DEF Rb!write_slot, Rb!Goto
  <2>2. ring_idx[p] = ring_pushed /\ ring_pushed + 1 =< MaxPush
    BY <1>0, <1>c, <2>1 DEF OneSays, Claims
  <2>3. OneSays(p, q)'
    BY <1>0, <1>c, <2>1 DEF OneSays, Claims
  <2>4. Rb!mod_idx(ring_pushed) \in 0 .. Capacity - 1
    BY <1>c, ModIs DEF Rb!mod_idx
  <2>5. DataTypes'
    BY <1>0, <1>c, <2>1, <2>2, <2>4 DEF DataTypes
  <2>6. ASSUME NEW j \in Nat, Len(ring_popped) =< j, j < ring_pushed + 1
        PROVE  ring_data'[Rb!mod_idx(j)] = j + 1
    <3>1. CASE j = ring_pushed
      BY <1>0, <2>1, <2>2, <2>4, <3>1 DEF DataTypes
    <3>2. CASE j < ring_pushed
      <4>1. ring_pushed - j < Capacity
        BY <1>c, <1>p, <2>1, <2>6, <3>2
      <4>2. Rb!mod_idx(j) # Rb!mod_idx(ring_pushed)
        BY <1>c, <3>2, <4>1, SlotsApart
      <4>3. Rb!mod_idx(j) \in 0 .. Capacity - 1
        BY <1>c, ModIs DEF Rb!mod_idx
      <4>4. ring_data'[Rb!mod_idx(j)] = ring_data[Rb!mod_idx(j)]
        BY <1>0, <2>1, <2>2, <4>2, <4>3 DEF DataTypes
      <4> QED BY <1>0, <2>6, <3>2, <4>4 DEF SlotsSay
    <3> QED BY <1>c, <2>6, <3>1, <3>2
  <2>7. SlotsSay'
    BY <1>0, <2>1, <2>6 DEF SlotsSay, Rb!Fifo
  <2> QED BY <1>f, <2>3, <2>5, <2>7 DEF OneInv
<1>4. ASSUME NEW t \in Rb!Caller, Rb!read_slot(t) PROVE OneInv(p, q)'
  <2> DEFINE n == Len(ring_popped)
  <2>1. /\ t = q /\ ring_pc[q] = "slot" /\ ring_pc'[q] = "count" /\ ring_pc'[p] = ring_pc[p] /\ ring_idx' = ring_idx
        /\ UNCHANGED <<m_write, m_write_fence, m_read, m_read_fence, ring_pushed, ring_data>>
        /\ ring_popped' = Append(ring_popped, ring_data[Rb!mod_idx(ring_idx[q])])
    BY <1>c, <1>4 DEF Rb!read_slot, Rb!Goto
  <2>2. ring_idx[q] = n
    BY <1>0, <1>c, <2>1 DEF OneSays, Claims
  <2>3. ring_data[Rb!mod_idx(n)] = n + 1 /\ n + 1 \in 0 .. MaxPush
    <3>1. n < ring_pushed /\ n \in Nat
      BY <1>c, <1>p, <2>1
    <3>2. ring_data[Rb!mod_idx(n)] = n + 1
      BY <1>0, <3>1 DEF SlotsSay
    <3>3. ring_pushed =< MaxPush
      BY <1>0 DEF DataTypes
    <3> QED BY <1>c, <3>1, <3>2, <3>3
  <2>4. ring_popped \in Seq(0 .. MaxPush)
    BY <1>0 DEF DataTypes
  <2>5. /\ Len(ring_popped') = n + 1 /\ ring_popped' \in Seq(0 .. MaxPush)
        /\ \A i \in 1 .. n : ring_popped'[i] = ring_popped[i]
        /\ ring_popped'[n + 1] = n + 1
    BY <2>1, <2>2, <2>3, <2>4
  <2>6. DOMAIN ring_popped = 1 .. n /\ DOMAIN ring_popped' = 1 .. n + 1 /\ n \in Nat
    BY <2>4, <2>5
  <2>7. Rb!Fifo'
    <3> SUFFICES ASSUME NEW i \in 1 .. n + 1 PROVE ring_popped'[i] = i
      BY <2>6 DEF Rb!Fifo
    <3>1. CASE i = n + 1
      BY <2>5, <3>1
    <3>2. CASE i \in 1 .. n
      BY <1>0, <2>5, <2>6, <3>2 DEF SlotsSay, Rb!Fifo
    <3> QED BY <2>6, <3>1, <3>2
  <2>8. OneSays(p, q)'
    <3> HIDE DEF n
    <3>1. n = m_read - Claims(q, {"slot"}) /\ Len(ring_popped') = n + 1 /\ n \in Nat
      BY <1>0, <2>5, <2>6 DEF OneSays, n
    <3> QED BY <1>0, <1>c, <2>1, <3>1 DEF OneSays, Claims
  <2>9. SlotsSay'
    <3> SUFFICES ASSUME NEW j \in Nat, n + 1 =< j, j < ring_pushed PROVE ring_data[Rb!mod_idx(j)] = j + 1
      BY <2>1, <2>5, <2>7 DEF SlotsSay
    <3>1. n =< j
      BY <2>6
    <3> QED BY <1>0, <3>1 DEF SlotsSay
  <2> QED BY <1>0, <1>f, <2>1, <2>5, <2>8, <2>9 DEF OneInv, DataTypes
<1>5. ASSUME NEW t \in Rb!Caller, Rb!count(t) PROVE OneInv(p, q)'
  <2>1. /\ UNCHANGED <<ring_data, m_write, m_read, ring_pushed, ring_popped, ring_idx>>
        /\ ring_pc[t] = "count" /\ ring_pc'[t] = "idle" /\ \A u \in {p, q} : u # t => ring_pc'[u] = ring_pc[u]
        /\ t = p => m_read_fence' = m_read_fence + 1 /\ m_write_fence' = m_write_fence
        /\ t = q => m_write_fence' = m_write_fence + 1 /\ m_read_fence' = m_read_fence
    BY <1>c, <1>5 DEF Rb!count, Rb!Goto
  <2>2. OneSays(p, q)'
    <3>1. CASE t = p
      BY <1>0, <1>c, <2>1, <3>1 DEF OneSays, Claims
    <3>2. CASE t = q
      BY <1>0, <1>c, <2>1, <3>2 DEF OneSays, Claims
    <3> QED BY <1>c, <3>1, <3>2
  <2> QED BY <1>0, <1>f, <2>1, <2>2 DEF OneInv, DataTypes, SlotsSay, Rb!Fifo
<1>6. CASE UNCHANGED Rb!vars
  <2>1. OneSays(p, q)'
    BY <1>0, <1>6 DEF Rb!vars, OneSays, Claims
  <2>2. SlotsSay' /\ DataTypes'
    BY <1>0, <1>6 DEF Rb!vars, SlotsSay, Rb!Fifo, DataTypes
  <2> QED BY <1>f, <2>1, <2>2 DEF OneInv
<1> QED BY <1>1, <1>2, <1>3, <1>4, <1>5, <1>6 DEF Rb!Next

(* With one pusher and one popper the values come out in order, and nobody  *)
(* reads a slot that is being written, whatever the buffer's size.          *)
THEOREM RingOneByOne ==
  ASSUME Rb!RingAssumption, NEW CONSTANT p, NEW CONSTANT q, RingPusher = {p}, RingPopper = {q}
  PROVE  Rb!Spec => [](Rb!TypeOK /\ Rb!Fifo /\ Rb!SlotExclusive)
<1>1. Rb!Init => OneInv(p, q)
  BY OneInit
<1>2. OneInv(p, q) /\ [Rb!Next]_Rb!vars => OneInv(p, q)'
  BY OneStep
<1>3. OneInv(p, q) => Rb!TypeOK /\ Rb!Fifo /\ Rb!SlotExclusive
  <2> SUFFICES ASSUME OneInv(p, q) PROVE Rb!TypeOK /\ Rb!Fifo /\ Rb!SlotExclusive
    OBVIOUS
  <2>1. Rb!TypeOK /\ Rb!Fifo
    BY OneTypes DEF OneInv, SlotsSay
  <2>2. ASSUME Rb!InSlot(p), Rb!InSlot(q) PROVE Rb!mod_idx(ring_idx[p]) # Rb!mod_idx(ring_idx[q])
    <3>1. /\ ring_idx[p] = m_write - 1 /\ ring_idx[q] = m_read - 1 /\ ring_idx[p] \in Nat /\ ring_idx[q] \in Nat
          /\ m_read =< m_read_fence /\ m_write =< m_write_fence
          /\ m_read_fence = m_write - 1 /\ m_write_fence = Capacity + m_read - 1
      BY <2>2 DEF OneInv, OneSays, Rb!InSlot, Claims, FenceInv, Rb!NeverPastFence, Rb!Caller
    <3>2. ring_idx[q] < ring_idx[p] /\ ring_idx[p] - ring_idx[q] < Capacity
      BY <3>1, OneNumbers
    <3> QED BY <3>1, <3>2, SlotsApart
  <2>3. Rb!Caller = {p, q}
    BY DEF Rb!Caller
  <2>4. Rb!SlotExclusive
    BY <2>2, <2>3 DEF Rb!SlotExclusive
  <2> QED BY <2>1, <2>4
<1> QED BY <1>1, <1>2, <1>3, PTL DEF Rb!Spec

-----------------------------------------------------------------------------
(* What the pushes have linked and the pops returned, and the place behind  *)
(* k of them: the sentinel stands for the node that was popped last.        *)
NLink == Len(linked)
NPop  == Len(queue_popped)
ChainAt(k, i) == IF i = k THEN 0 ELSE linked[i]

Popping(t) == queue_pc[t] \in {"mark", "next", "unlink", "retract", "take"}
Fresh(t)   == queue_pc[t] \in {"load", "flag", "link"}

(* The nodes behind the first k that were linked are the list.              *)
ListSays(k) ==
  \A i \in k .. NLink : queue_next[ChainAt(k, i)] = IF i < NLink THEN linked[i + 1] ELSE Qu!Null

SeqSays ==
  /\ \A i, j \in 1 .. NLink : linked[i] = linked[j] => i = j
  /\ \A i \in 1 .. NLink : linked[i] \in 1 .. queue_created
  /\ NPop =< NLink /\ \A i \in 1 .. NPop : queue_popped[i] = linked[i]
  /\ \A n \in Qu!Node : (\A i \in 1 .. NLink : linked[i] # n) => queue_next[n] = Qu!Null
  /\ freed = {linked[i] : i \in 1 .. NPop}
  /\ ~dangling

(* A push has a node of its own until it is linked, and a tail that is in   *)
(* the list, not behind the node that another push has yet to make the tail.*)
FreshSays(t) ==
  Fresh(t) => /\ mine[t] \in 1 .. queue_created
              /\ \A i \in 1 .. NLink : linked[i] # mine[t]
              /\ \A u \in Qu!Caller : Fresh(u) /\ mine[u] = mine[t] => u = t

LastSays(t) ==
  queue_pc[t] \in {"flag", "link"} =>
    \E i \in NPop .. NLink : /\ queue_cur[t] = ChainAt(NPop, i)
                             /\ i = NLink => \A u \in Qu!Caller : queue_pc[u] # "tail"

TailSays(t) ==
  queue_pc[t] = "tail" => /\ NPop < NLink /\ mine[t] = linked[NLink]
                    /\ queue_tail = ChainAt(NPop, NLink - 1)
                    /\ \A u \in Qu!Caller : queue_pc[u] = "tail" => u = t

PushSays == \A t \in Qu!Caller : FreshSays(t) /\ LastSays(t) /\ TailSays(t)

(* While no push has run beside a pop: a pop is alone and has the first     *)
(* node of the list.                                                        *)
PopSays ==
  \A t \in Qu!Caller : Popping(t) =>
    /\ t \in Popper /\ \A u \in Qu!Caller : u # t => queue_pc[u] = "idle"
    /\ NPop < NLink /\ mine[t] = linked[NPop + 1] /\ queue_cur[t] = mine[t]
    /\ queue_pc[t] \in {"mark", "next", "unlink"} => ListSays(NPop) /\ queue_tail = linked[NLink]
    /\ queue_pc[t] = "unlink" => after[t] = IF NPop + 1 < NLink THEN linked[NPop + 2] ELSE Qu!Null
    /\ queue_pc[t] \in {"retract", "take"} => ListSays(NPop + 1)
    /\ queue_pc[t] = "retract" => queue_tail = linked[NLink]
    /\ queue_pc[t] = "take" => queue_tail = ChainAt(NPop + 1, NLink)

QuietSays ==
  (\A t \in Qu!Caller : ~Popping(t)) =>
    /\ ListSays(NPop)
    /\ (\A t \in Qu!Caller : queue_pc[t] # "tail") => queue_tail = ChainAt(NPop, NLink)

ApartInv == SeqSays /\ PushSays /\ PopSays /\ QuietSays

(* Pushes and pops at once: whatever a pointer leads to has been linked.    *)
Listed == {linked[j] : j \in 1 .. NLink}

ListedAt(t) ==
  /\ Fresh(t) \/ queue_pc[t] = "tail" => mine[t] \in Qu!Node
  /\ queue_pc[t] \in {"mark", "next"} => queue_cur[t] \in Listed
  /\ Popping(t) => mine[t] \in Listed
  /\ queue_pc[t] = "unlink" => after[t] \in Listed \cup {Qu!Null}

ListedInv ==
  /\ Qu!TypeOK
  /\ \A n \in {0} \cup Qu!Node : queue_next[n] \in Listed \cup {Qu!Null}
  /\ \A i \in 1 .. NPop : queue_popped[i] \in Listed
  /\ \A t \in Qu!Caller : ListedAt(t)

-----------------------------------------------------------------------------
(* Pops one at a time, beside any pushes: a pop has taken its node off the  *)
(* list once the sentinel no longer leads to it.                            *)
Off(t) == queue_pc[t] \in {"retract", "take"}
Gone ==
  {n \in Qu!Node : \/ \E i \in 1 .. NPop : queue_popped[i] = n
                   \/ \E t \in Popper : Off(t) /\ mine[t] = n}
NGone == IF \E t \in Popper : Off(t) THEN NPop + 1 ELSE NPop

(* m was linked before n.                                                   *)
Earlier(m, n) == \E i, j \in 1 .. NLink : i < j /\ linked[i] = m /\ linked[j] = n

(* A node leads to one that was linked later, and nothing is linked twice.  *)
LinksSay ==
  /\ \A i, j \in 1 .. NLink : linked[i] = linked[j] => i = j
  /\ \A i \in 1 .. NLink : linked[i] \in 1 .. queue_created
  /\ \A n \in Qu!Node : queue_next[n] # Qu!Null => Earlier(n, queue_next[n])
  /\ queue_tail \in {0} \cup Listed

LinkerSays(t) ==
  /\ FreshSays(t)
  /\ queue_pc[t] \in {"flag", "link"} => queue_cur[t] \in {0} \cup Listed
  /\ queue_pc[t] = "tail" => mine[t] \in Listed

(* Nodes go in the order in which they were linked, and the sentinel leads  *)
(* past all that have gone.                                                 *)
GoneSays ==
  /\ \A i, j \in 1 .. NPop : i < j => Earlier(queue_popped[i], queue_popped[j])
  /\ \A t \in Popper : Off(t) => \A i \in 1 .. NPop : Earlier(queue_popped[i], mine[t])
  /\ Gone \subseteq Listed /\ Gone \subseteq queue_removal
  /\ queue_next[0] # Qu!Null =>
       queue_next[0] \in Listed /\ \A g \in Gone : Earlier(g, queue_next[0])

TakerSays(t) ==
  Popping(t) =>
    /\ t \in Popper /\ \A u \in Popper : u # t => ~Popping(u)
    /\ ~Off(t) => queue_cur[t] = queue_next[0] /\ mine[t] = queue_next[0]
                  /\ queue_next[0] # Qu!Null
    /\ queue_pc[t] \in {"next", "unlink"} => queue_cur[t] \in queue_removal
    /\ queue_pc[t] = "unlink" =>
         /\ after[t] # Qu!Null => Earlier(queue_cur[t], after[t])
         /\ \A n \in Listed \ late : queue_next[queue_cur[t]] = n => after[t] = n

(* What was not linked behind a marked node goes after its predecessor.     *)
FollowSays ==
  \A n \in Listed \ late :
    (\A f \in Qu!Node : queue_next[f] = n => f \in Gone) => n \in Gone \cup {queue_next[0]}

(* As long as nothing was, the list is what was linked and has not gone.    *)
WholeSays ==
  late = {} =>
    /\ NGone =< NLink /\ ListSays(NGone)
    /\ \A i \in 1 .. NPop : queue_popped[i] = linked[i]
    /\ \A t \in Popper : Off(t) => mine[t] = linked[NPop + 1]
    /\ \A t \in Popper : queue_pc[t] = "unlink" =>
         after[t] = IF NPop + 1 < NLink THEN linked[NPop + 2] ELSE Qu!Null

OnePopInv ==
  /\ LinksSay /\ \A t \in Qu!Caller : LinkerSays(t) /\ TakerSays(t)
  /\ GoneSays /\ FollowSays /\ WholeSays

-----------------------------------------------------------------------------
(* The constructor's list is the sentinel alone, and nothing was popped. *)
LEMMA QueueInit ==
  ASSUME Qu!QueueAssumption, Qu!Init PROVE ApartInv /\ ListedInv
<1>1. linked = <<>> /\ queue_popped = <<>> /\ NLink = 0 /\ NPop = 0
      /\ linked \in Seq(Qu!Node) /\ queue_popped \in Seq(Qu!Node)
  BY DEF Qu!Init, NLink, NPop
<1>2. Qu!TypeOK
  <2>1. \A t \in Qu!Caller : queue_pc[t] = "idle" /\ queue_cur[t] = Qu!Null /\ mine[t] = Qu!Null /\ after[t] = Qu!Null
    BY DEF Qu!Init
  <2>2. queue_created \in 0 .. MaxNodes /\ queue_next \in [{0} \cup Qu!Node -> Qu!Ptr]
    BY DEF Qu!Init, Qu!QueueAssumption, Qu!Ptr
  <2>3. queue_cur \in [Qu!Caller -> Qu!Ptr] /\ mine \in [Qu!Caller -> Qu!Ptr] /\ after \in [Qu!Caller -> Qu!Ptr]
    BY DEF Qu!Init, Qu!Ptr
  <2> QED BY <1>1, <2>2, <2>3 DEF Qu!Init, Qu!TypeOK
<1>3. SeqSays
  BY <1>1 DEF Qu!QueueAssumption, Qu!Init, SeqSays
<1>4. \A t \in Qu!Caller : queue_pc[t] = "idle" /\ queue_cur[t] = Qu!Null
  BY DEF Qu!Init
<1>5. PushSays /\ PopSays
  BY <1>4 DEF PushSays, FreshSays, LastSays, TailSays, PopSays, Popping, Fresh
<1>6. QuietSays
  BY <1>1 DEF Qu!Init, QuietSays, ListSays, ChainAt
<1>7. ListedInv
  BY <1>1, <1>2, <1>4 DEF Qu!Init, ListedInv, ListedAt, Popping, Fresh
<1> QED BY <1>3, <1>5, <1>6, <1>7 DEF ApartInv

(* The numbers, and where the nodes are.                                    *)
LEMMA QueueNumbers ==
  ASSUME Qu!QueueAssumption, Qu!TypeOK
  PROVE  /\ NLink \in Nat /\ NPop \in Nat /\ MaxNodes \in Nat /\ queue_created \in 0 .. MaxNodes
         /\ \A i \in 1 .. NLink : linked[i] \in Qu!Node
         /\ Qu!Null \notin Qu!Node /\ 0 \notin Qu!Node /\ Qu!Null # 0
         /\ DOMAIN linked = 1 .. NLink /\ DOMAIN queue_popped = 1 .. NPop
BY DEF Qu!QueueAssumption, Qu!TypeOK, NLink, NPop, Qu!Node, Qu!Null

(* Pushes and pops at once: what a pointer leads to has been linked.        *)
LEMMA ListedStep ==
  ASSUME Qu!QueueAssumption, ListedInv, [Qu!Next]_Qu!vars PROVE ListedInv'
<1>0. /\ Qu!TypeOK /\ \A n \in {0} \cup Qu!Node : queue_next[n] \in Listed \cup {Qu!Null}
      /\ \A i \in 1 .. NPop : queue_popped[i] \in Listed
      /\ \A u \in Qu!Caller : ListedAt(u)
  BY DEF ListedInv
<1>n. /\ NLink \in Nat /\ NPop \in Nat /\ MaxNodes \in Nat /\ queue_created \in 0 .. MaxNodes
      /\ \A i \in 1 .. NLink : linked[i] \in Qu!Node
      /\ Qu!Null \notin Qu!Node /\ 0 \notin Qu!Node /\ Qu!Null # 0
  BY <1>0, QueueNumbers
<1>l. Listed \subseteq Qu!Node
  BY <1>n DEF Listed
<1> DEFINE Pcs == {"idle", "load", "flag", "link", "tail",
                   "read", "mark", "next", "unlink", "retract", "take"}
<1>1. ASSUME NEW t \in Pusher, Qu!push(t) PROVE ListedInv'
  <2>1. /\ UNCHANGED <<queue_next, queue_removal, queue_tail, freed, queue_cur, after, linked, queue_popped, late, dangling>>
        /\ beside' \in BOOLEAN /\ queue_created' = queue_created + 1 /\ queue_created + 1 \in 0 .. MaxNodes /\ queue_created + 1 \in Qu!Node
        /\ mine' = [mine EXCEPT ![t] = queue_created + 1] /\ queue_pc' = [queue_pc EXCEPT ![t] = "load"]
        /\ NLink' = NLink /\ NPop' = NPop /\ Listed' = Listed
    BY <1>0, <1>1, <1>n DEF Qu!push, Qu!Goto, NLink, NPop, Listed, Qu!Node, Qu!TypeOK
  <2>2. Qu!TypeOK'
    BY <1>0, <2>1 DEF Qu!TypeOK, Qu!Ptr
  <2>3. \A u \in Qu!Caller : ListedAt(u)'
    BY <1>0, <2>1 DEF Qu!TypeOK, ListedAt, Fresh, Popping
  <2> QED BY <1>0, <2>1, <2>2, <2>3 DEF ListedInv
<1>2. ASSUME NEW t \in Pusher, Qu!push_load(t) \/ Qu!push_flag(t) \/ (Qu!push_link(t) /\ queue_pc'[t] = "load")
      PROVE  ListedInv'
  <2>0. t \in Qu!Caller
    BY DEF Qu!Caller
  <2>1. /\ UNCHANGED <<queue_next, queue_removal, queue_tail, freed, after, linked, queue_popped, queue_created, mine,
                        late, beside>>
        /\ NLink' = NLink /\ NPop' = NPop /\ Listed' = Listed
    BY <1>0, <1>2, <2>0 DEF Qu!push_load, Qu!push_flag, Qu!push_link, Qu!Goto,
        Qu!TypeOK, NLink, NPop, Listed
  <2>2. /\ queue_pc[t] \in {"load", "flag", "link"} /\ queue_pc'[t] \in {"load", "flag", "link"}
        /\ queue_pc' \in [Qu!Caller -> Pcs] /\ \A u \in Qu!Caller : u # t => queue_pc'[u] = queue_pc[u] /\ queue_cur'[u] = queue_cur[u]
    BY <1>0, <1>2, <2>0 DEF Qu!push_load, Qu!push_flag, Qu!push_link, Qu!Goto, Qu!TypeOK
  <2>3. queue_cur' \in [Qu!Caller -> Qu!Ptr] /\ dangling' \in BOOLEAN
    BY <1>0, <1>2, <2>0 DEF Qu!push_load, Qu!push_flag, Qu!push_link, Qu!Goto,
        Qu!TypeOK, Qu!Use, Qu!Ptr
  <2>4. Qu!TypeOK'
    BY <1>0, <2>1, <2>2, <2>3 DEF Qu!TypeOK
  <2>5. \A u \in Qu!Caller : ListedAt(u)'
    BY <1>0, <2>1, <2>2 DEF ListedAt, Fresh, Popping
  <2> QED BY <1>0, <2>1, <2>4, <2>5 DEF ListedInv
<1>3. ASSUME NEW t \in Pusher, Qu!push_link(t), queue_pc'[t] # "load" PROVE ListedInv'
  <2>1. /\ t \in Qu!Caller /\ queue_pc[t] = "link" /\ queue_next' = [queue_next EXCEPT ![queue_cur[t]] = mine[t]]
        /\ linked' = Append(linked, mine[t]) /\ queue_pc' = [queue_pc EXCEPT ![t] = "tail"]
        /\ UNCHANGED <<queue_tail, queue_popped, queue_removal, freed, after, queue_created, mine, queue_cur, beside>>
        /\ late' \in {late, late \cup {mine[t]}} /\ dangling' \in BOOLEAN
    BY <1>0, <1>3 DEF Qu!push_link, Qu!Goto, Qu!TypeOK, Qu!Use, Qu!Caller
  <2>2. mine[t] \in Qu!Node
    BY <1>0, <2>1 DEF ListedAt, Fresh
  <2>3. linked \in Seq(Qu!Node)
    BY <1>0 DEF Qu!TypeOK
  <2>4. /\ NLink' = NLink + 1 /\ NPop' = NPop /\ linked' \in Seq(Qu!Node)
        /\ linked'[NLink + 1] = mine[t] /\ \A i \in 1 .. NLink : linked'[i] = linked[i]
    BY <2>1, <2>2, <2>3 DEF NLink, NPop
  <2>5. Listed \subseteq Listed' /\ mine[t] \in Listed'
    <3>1. \A i \in 1 .. NLink : i \in 1 .. NLink + 1
      BY <1>n
    <3>2. NLink + 1 \in 1 .. NLink + 1
      BY <1>n
    <3> QED BY <2>4, <3>1, <3>2 DEF Listed
  <2>6. Qu!TypeOK'
    BY <1>0, <2>1, <2>2, <2>4 DEF Qu!TypeOK, Qu!Ptr
  <2>7. \A n \in {0} \cup Qu!Node : queue_next'[n] \in Listed' \cup {Qu!Null}
    BY <1>0, <2>1, <2>5 DEF Qu!TypeOK
  <2>8. \A u \in Qu!Caller : ListedAt(u)'
    BY <1>0, <2>1, <2>2, <2>5 DEF Qu!TypeOK, ListedAt, Fresh, Popping
  <2>9. \A i \in 1 .. NPop : queue_popped[i] \in Listed'
    BY <1>0, <2>5
  <2> QED BY <2>1, <2>4, <2>6, <2>7, <2>8, <2>9 DEF ListedInv
<1>4. ASSUME NEW t \in Pusher, Qu!push_tail(t) PROVE ListedInv'
  <2>1. /\ t \in Qu!Caller /\ queue_pc[t] = "tail" /\ queue_pc' = [queue_pc EXCEPT ![t] = "idle"] /\ queue_tail' = mine[t]
        /\ UNCHANGED <<queue_next, linked, queue_popped, queue_removal, freed, after, queue_created, mine, queue_cur, late, beside, dangling>>
        /\ NLink' = NLink /\ NPop' = NPop /\ Listed' = Listed
    BY <1>4 DEF Qu!push_tail, Qu!Goto, Qu!Caller, NLink, NPop, Listed
  <2>2. mine[t] \in Qu!Node
    BY <1>0, <2>1 DEF ListedAt
  <2>3. Qu!TypeOK'
    BY <1>0, <2>1, <2>2 DEF Qu!TypeOK
  <2>4. \A u \in Qu!Caller : ListedAt(u)'
    BY <1>0, <2>1 DEF Qu!TypeOK, ListedAt, Fresh, Popping
  <2> QED BY <1>0, <2>1, <2>3, <2>4 DEF ListedInv
<1>5. ASSUME NEW t \in Popper, Qu!try_pop(t) PROVE ListedInv'
  <2>1. /\ t \in Qu!Caller /\ UNCHANGED <<queue_next, queue_removal, queue_tail, queue_created, freed, after, linked, queue_popped, late, dangling>>
        /\ beside' \in BOOLEAN /\ NLink' = NLink /\ NPop' = NPop /\ Listed' = Listed
        /\ queue_cur' = [queue_cur EXCEPT ![t] = queue_next[0]] /\ mine' = [mine EXCEPT ![t] = queue_next[0]]
        /\ queue_pc' = [queue_pc EXCEPT ![t] = IF queue_next[0] = Qu!Null THEN "idle" ELSE "mark"]
    BY <1>0, <1>5 DEF Qu!try_pop, Qu!Goto, Qu!Caller, NLink, NPop, Listed, Qu!TypeOK
  <2>2. queue_next[0] \in Qu!Ptr /\ queue_next[0] \in Listed \cup {Qu!Null}
    BY <1>0 DEF Qu!TypeOK
  <2>3. Qu!TypeOK'
    BY <1>0, <2>1, <2>2 DEF Qu!TypeOK
  <2>4. \A u \in Qu!Caller : ListedAt(u)'
    BY <1>0, <2>1, <2>2 DEF Qu!TypeOK, ListedAt, Fresh, Popping
  <2> QED BY <1>0, <2>1, <2>3, <2>4 DEF ListedInv
<1>6. ASSUME NEW t \in Popper, Qu!pop_mark(t) \/ Qu!pop_next(t) PROVE ListedInv'
  <2>1. /\ t \in Qu!Caller /\ UNCHANGED <<queue_next, queue_tail, queue_created, freed, linked, queue_popped, queue_cur, mine,
                                        late, beside>>
        /\ NLink' = NLink /\ NPop' = NPop /\ Listed' = Listed
        /\ queue_pc[t] \in {"mark", "next"} /\ dangling' \in BOOLEAN
        /\ queue_pc' = [queue_pc EXCEPT ![t] = IF queue_pc[t] = "mark" THEN "next" ELSE "unlink"]
    <3>1. CASE Qu!pop_mark(t)
      BY <3>1 DEF Qu!pop_mark, Qu!Goto, Qu!Caller, NLink, NPop, Listed, Qu!Use
    <3>2. CASE Qu!pop_next(t)
      BY <3>2 DEF Qu!pop_next, Qu!Goto, Qu!Caller, NLink, NPop, Listed, Qu!Use
    <3> QED BY <1>6, <3>1, <3>2
  <2>2. queue_cur[t] \in Listed /\ queue_cur[t] \in Qu!Node
    BY <1>0, <1>l, <2>1 DEF ListedAt
  <2>3. /\ queue_removal' \subseteq Qu!Node
        /\ after' = after \/ (queue_pc[t] = "next" /\ after' = [after EXCEPT ![t] = queue_next[queue_cur[t]]])
        /\ queue_pc[t] = "next" => after' = [after EXCEPT ![t] = queue_next[queue_cur[t]]]
    BY <1>0, <1>6, <2>2 DEF Qu!pop_mark, Qu!pop_next, Qu!Goto, Qu!TypeOK
  <2>4. queue_next[queue_cur[t]] \in Qu!Ptr /\ queue_next[queue_cur[t]] \in Listed \cup {Qu!Null}
    BY <1>0, <2>2 DEF Qu!TypeOK
  <2>5. Qu!TypeOK'
    BY <1>0, <2>1, <2>3, <2>4 DEF Qu!TypeOK
  <2>6. \A u \in Qu!Caller : ListedAt(u)'
    BY <1>0, <2>1, <2>2, <2>3, <2>4 DEF Qu!TypeOK, ListedAt, Fresh, Popping
  <2> QED BY <1>0, <2>1, <2>5, <2>6 DEF ListedInv
<1>7. ASSUME NEW t \in Popper, Qu!pop_unlink(t) PROVE ListedInv'
  <2>0. /\ t \in Qu!Caller /\ UNCHANGED <<queue_removal, queue_tail, queue_created, freed, linked, queue_popped, late, beside, dangling>>
        /\ NLink' = NLink /\ NPop' = NPop /\ Listed' = Listed /\ queue_pc[t] = "unlink"
    BY <1>7 DEF Qu!pop_unlink, Qu!Goto, Qu!Caller, NLink, NPop, Listed
  <2>1. after[t] \in Listed \cup {Qu!Null} /\ mine[t] \in Listed /\ after[t] \in Qu!Ptr
    BY <1>0, <2>0 DEF ListedAt, Popping, Qu!TypeOK
  <2>2. queue_next[0] \in Qu!Ptr /\ queue_next[0] \in Listed \cup {Qu!Null}
    BY <1>0 DEF Qu!TypeOK
  <2>a. CASE queue_next[0] = queue_cur[t] /\ queue_pc' = [queue_pc EXCEPT ![t] = "retract"]
             /\ queue_next' = [queue_next EXCEPT ![0] = after[t]] /\ UNCHANGED <<queue_cur, mine, after>>
    <3>1. Qu!TypeOK'
      BY <1>0, <2>0, <2>1, <2>a DEF Qu!TypeOK
    <3>2. \A n \in {0} \cup Qu!Node : queue_next'[n] \in Listed \cup {Qu!Null}
      BY <1>0, <2>1, <2>a DEF Qu!TypeOK
    <3>3. \A u \in Qu!Caller : ListedAt(u)'
      BY <1>0, <2>0, <2>1, <2>a DEF Qu!TypeOK, ListedAt, Fresh, Popping
    <3> QED BY <1>0, <2>0, <3>1, <3>2, <3>3 DEF ListedInv
  <2>b. CASE queue_next[0] \notin {queue_cur[t], Qu!Null} /\ queue_pc' = [queue_pc EXCEPT ![t] = "mark"]
             /\ queue_cur' = [queue_cur EXCEPT ![t] = queue_next[0]] /\ mine' = [mine EXCEPT ![t] = queue_next[0]]
             /\ UNCHANGED <<queue_next, after>>
    <3>1. Qu!TypeOK'
      BY <1>0, <2>0, <2>2, <2>b DEF Qu!TypeOK
    <3>3. \A u \in Qu!Caller : ListedAt(u)'
      BY <1>0, <2>0, <2>2, <2>b DEF Qu!TypeOK, ListedAt, Fresh, Popping
    <3> QED BY <1>0, <2>0, <2>b, <3>1, <3>3 DEF ListedInv
  <2>c. CASE UNCHANGED <<queue_pc, queue_next, mine>> /\ queue_cur' = [queue_cur EXCEPT ![t] = Qu!Null]
             /\ after' = [after EXCEPT ![t] = Qu!Null]
    <3>1. Qu!TypeOK'
      BY <1>0, <2>0, <2>c DEF Qu!TypeOK, Qu!Ptr
    <3>3. \A u \in Qu!Caller : ListedAt(u)'
      BY <1>0, <2>0, <2>c DEF Qu!TypeOK, ListedAt, Fresh, Popping
    <3> QED BY <1>0, <2>0, <2>c, <3>1, <3>3 DEF ListedInv
  <2> QED BY <1>7, <2>a, <2>b, <2>c DEF Qu!pop_unlink, Qu!Goto
<1>8. ASSUME NEW t \in Popper, Qu!pop_retract(t) PROVE ListedInv'
  <2>1. /\ t \in Qu!Caller /\ queue_pc[t] = "retract" /\ queue_pc' = [queue_pc EXCEPT ![t] = "take"]
        /\ UNCHANGED <<queue_next, queue_removal, queue_created, freed, linked, queue_popped, late, beside, dangling, queue_cur, mine, after>>
        /\ queue_tail' \in {0, queue_tail} /\ NLink' = NLink /\ NPop' = NPop /\ Listed' = Listed
    BY <1>8 DEF Qu!pop_retract, Qu!Goto, Qu!Caller, NLink, NPop, Listed
  <2>2. Qu!TypeOK'
    BY <1>0, <2>1 DEF Qu!TypeOK
  <2>3. \A u \in Qu!Caller : ListedAt(u)'
    BY <1>0, <2>1 DEF Qu!TypeOK, ListedAt, Fresh, Popping
  <2> QED BY <1>0, <2>1, <2>2, <2>3 DEF ListedInv
<1>9. ASSUME NEW t \in Popper, Qu!pop_take(t) PROVE ListedInv'
  <2>1. /\ t \in Qu!Caller /\ queue_pc[t] = "take" /\ queue_pc' = [queue_pc EXCEPT ![t] = "idle"]
        /\ UNCHANGED <<queue_next, queue_removal, queue_tail, queue_created, linked, queue_cur, mine, after, late, beside>>
        /\ queue_popped' = Append(queue_popped, mine[t]) /\ freed' = freed \cup {mine[t]}
        /\ dangling' \in BOOLEAN /\ NLink' = NLink /\ Listed' = Listed
    BY <1>9 DEF Qu!pop_take, Qu!Goto, Qu!Caller, NLink, Listed, Qu!Use
  <2>2. mine[t] \in Listed /\ mine[t] \in Qu!Node /\ queue_popped \in Seq(Qu!Node)
    BY <1>0, <1>l, <2>1 DEF ListedAt, Popping, Qu!TypeOK
  <2>3. /\ NPop' = NPop + 1 /\ queue_popped' \in Seq(Qu!Node)
        /\ queue_popped'[NPop + 1] = mine[t] /\ \A i \in 1 .. NPop : queue_popped'[i] = queue_popped[i]
    BY <2>1, <2>2 DEF NPop
  <2>4. Qu!TypeOK'
    BY <1>0, <2>1, <2>2, <2>3 DEF Qu!TypeOK
  <2>5. \A u \in Qu!Caller : ListedAt(u)'
    BY <1>0, <2>1 DEF Qu!TypeOK, ListedAt, Fresh, Popping
  <2>6. \A i \in 1 .. NPop + 1 : queue_popped'[i] \in Listed
    BY <1>0, <1>n, <2>2, <2>3
  <2> QED BY <1>0, <2>1, <2>3, <2>4, <2>5, <2>6 DEF ListedInv
<1>10. CASE UNCHANGED Qu!vars
  <2>1. UNCHANGED <<NLink, NPop, Listed>>
    BY <1>10 DEF Qu!vars, NLink, NPop, Listed
  <2> QED BY <1>0, <1>10, <2>1 DEF Qu!vars, ListedInv, Qu!TypeOK, ListedAt, Fresh, Popping
<1> QED BY <1>1, <1>2, <1>3, <1>4, <1>5, <1>6, <1>7, <1>8, <1>9, <1>10
        DEF Qu!Next, Qu!PushStep, Qu!PopStep

(* Whatever runs at once, a node that is popped has been pushed (try_pop).  *)
THEOREM QueueOnlyPushed == ASSUME Qu!QueueAssumption PROVE Qu!Spec => [](Qu!TypeOK /\ Qu!OnlyPushed)
<1>1. Qu!Init => ListedInv
  BY QueueInit
<1>2. ListedInv /\ [Qu!Next]_Qu!vars => ListedInv'
  BY ListedStep
<1>3. ListedInv => Qu!TypeOK /\ Qu!OnlyPushed
  BY QueueNumbers DEF ListedInv, Listed, Qu!OnlyPushed
<1> QED BY <1>1, <1>2, <1>3, PTL DEF Qu!Spec

-----------------------------------------------------------------------------
(* A node linked behind the last of the list is the last.                   *)
LEMMA ListGrows ==
  ASSUME Qu!QueueAssumption, Qu!TypeOK, NEW k \in Nat, k =< NLink, ListSays(k),
         \A i, j \in 1 .. NLink : linked[i] = linked[j] => i = j,
         NEW t \in Qu!Caller, queue_cur[t] = ChainAt(k, NLink),
         mine[t] \in Qu!Node, \A i \in 1 .. NLink : linked[i] # mine[t],
         queue_next[mine[t]] = Qu!Null,
         queue_next' = [queue_next EXCEPT ![queue_cur[t]] = mine[t]],
         linked' = Append(linked, mine[t])
  PROVE  \A i \in k .. NLink + 1 :
           queue_next'[IF i = k THEN 0 ELSE linked'[i]]
             = IF i < NLink + 1 THEN linked'[i + 1] ELSE Qu!Null
<1>n. /\ NLink \in Nat /\ \A i \in 1 .. NLink : linked[i] \in Qu!Node
      /\ Qu!Null \notin Qu!Node /\ 0 \notin Qu!Node /\ Qu!Null # 0
  BY QueueNumbers
<1>1. linked'[NLink + 1] = mine[t] /\ \A i \in 1 .. NLink : linked'[i] = linked[i]
  BY DEF NLink, Qu!TypeOK
<1>2. queue_cur[t] \in {0} \cup Qu!Node
  BY <1>n DEF ChainAt
<1> SUFFICES ASSUME NEW i \in k .. NLink + 1
             PROVE  queue_next'[IF i = k THEN 0 ELSE linked'[i]]
                      = IF i < NLink + 1 THEN linked'[i + 1] ELSE Qu!Null
  OBVIOUS
<1>3. CASE i = NLink + 1
  <2>1. (IF i = k THEN 0 ELSE linked'[i]) = mine[t] /\ ~(i < NLink + 1)
    BY <1>n, <1>1, <1>3
  <2>2. mine[t] # queue_cur[t]
    BY <1>n DEF ChainAt
  <2> QED BY <2>1, <2>2 DEF Qu!TypeOK
<1>4. CASE i = NLink
  <2>1. (IF i = k THEN 0 ELSE linked'[i]) = queue_cur[t]
    BY <1>n, <1>1, <1>4 DEF ChainAt
  <2>2. queue_next'[queue_cur[t]] = mine[t]
    BY <1>2 DEF Qu!TypeOK
  <2> QED BY <1>n, <1>1, <1>4, <2>1, <2>2
<1>5. CASE i < NLink
  <2>1. (IF i = k THEN 0 ELSE linked'[i]) = ChainAt(k, i) /\ ChainAt(k, i) \in {0} \cup Qu!Node
    BY <1>n, <1>1, <1>5 DEF ChainAt
  <2>2. ChainAt(k, i) # queue_cur[t]
    BY <1>n, <1>5 DEF ChainAt
  <2>3. queue_next[ChainAt(k, i)] = linked[i + 1] /\ linked'[i + 1] = linked[i + 1]
    BY <1>n, <1>1, <1>5 DEF ListSays
  <2>4. queue_next'[ChainAt(k, i)] = linked'[i + 1]
    BY <2>1, <2>2, <2>3 DEF Qu!TypeOK
  <2>5. i < NLink + 1
    BY <1>n, <1>5
  <2> QED BY <2>1, <2>4, <2>5
<1>6. i = NLink + 1 \/ i = NLink \/ i < NLink
  BY <1>n
<1> QED BY <1>3, <1>4, <1>5, <1>6

(* A push that overlaps no pop keeps the list behind the sentinel whole.    *)
LEMMA Pushes ==
  ASSUME Qu!QueueAssumption, Qu!TypeOK, ApartInv, ~beside', NEW t \in Pusher,
         Qu!push(t) \/ Qu!PushStep(t)
  PROVE  ApartInv'
<1>0. Qu!TypeOK /\ SeqSays /\ PushSays /\ PopSays /\ QuietSays /\ t \in Qu!Caller
  BY DEF ApartInv, Qu!Caller
<1>n. /\ NLink \in Nat /\ NPop \in Nat /\ MaxNodes \in Nat /\ queue_created \in 0 .. MaxNodes
      /\ \A i \in 1 .. NLink : linked[i] \in Qu!Node
      /\ Qu!Null \notin Qu!Node /\ 0 \notin Qu!Node /\ Qu!Null # 0 /\ NPop =< NLink
  BY <1>0, QueueNumbers DEF SeqSays
<1>1. \A u \in Qu!Caller : ~Popping(u)
  <2>1. CASE Qu!push(t)
    BY <1>0, <2>1 DEF Qu!push, Qu!Idle, PopSays, Popping
  <2>2. CASE Qu!PushStep(t)
    BY <1>0, <2>2 DEF Qu!PushStep, Qu!push_load, Qu!push_flag, Qu!push_link,
        Qu!push_tail, Qu!Goto, PopSays, Popping
  <2> QED BY <2>1, <2>2
<1>2. ListSays(NPop) /\ ((\A u \in Qu!Caller : queue_pc[u] # "tail") => queue_tail = ChainAt(NPop, NLink))
  BY <1>0, <1>1 DEF QuietSays
<1>3. \A u \in Qu!Caller : u # t => queue_pc'[u] = queue_pc[u] /\ mine'[u] = mine[u] /\ queue_cur'[u] = queue_cur[u]
  BY <1>0 DEF Qu!PushStep, Qu!push, Qu!push_load, Qu!push_flag, Qu!push_link,
      Qu!push_tail, Qu!Goto, Qu!TypeOK
<1>4. queue_pc'[t] \in {"load", "flag", "link", "tail", "idle"} /\ \A u \in Qu!Caller : ~Popping(u)'
  BY <1>0, <1>1, <1>3 DEF Qu!PushStep, Qu!push, Qu!push_load, Qu!push_flag,
      Qu!push_link, Qu!push_tail, Qu!Goto,
     Qu!TypeOK, Popping
<1>5. PopSays'
  BY <1>4 DEF PopSays
<1>a. CASE Qu!push(t) \/ Qu!push_load(t)
  <2>0. UNCHANGED <<queue_next, queue_tail, linked, queue_popped, queue_removal, freed, after, dangling>>
        /\ NLink' = NLink /\ NPop' = NPop
    BY <1>a DEF Qu!push, Qu!push_load, NLink, NPop
  <2>1. queue_created' \in 0 .. MaxNodes /\ queue_created =< queue_created'
    BY <1>n, <1>a DEF Qu!push, Qu!push_load
  <2>3. SeqSays'
    BY <1>0, <1>n, <2>0, <2>1 DEF SeqSays
  <2>4. QuietSays'
    <3>1. (\A u \in Qu!Caller : queue_pc'[u] # "tail") => (\A u \in Qu!Caller : queue_pc[u] # "tail")
      BY <1>0, <1>3, <1>a DEF Qu!push, Qu!push_load, Qu!Goto
    <3> QED BY <1>2, <2>0, <3>1 DEF QuietSays, ListSays, ChainAt
  <2>5. PushSays'
    <3>1. CASE Qu!push(t)
      <4>1. mine'[t] = queue_created + 1 /\ queue_pc'[t] = "load" /\ queue_created' = queue_created + 1 /\ queue_pc[t] = "idle"
        BY <1>0, <3>1 DEF Qu!push, Qu!Goto, Qu!TypeOK
      <4>2. \A u \in Qu!Caller : Fresh(u) => mine[u] # queue_created + 1
        BY <1>0, <1>n DEF PushSays, FreshSays, LastSays, TailSays
      <4>3. \A i \in 1 .. NLink : linked[i] # queue_created + 1
        BY <1>0, <1>n DEF SeqSays
      <4>4. \A u \in Qu!Caller : queue_pc'[u] = "tail" <=> queue_pc[u] = "tail"
        BY <1>3, <4>1
      <4>5. \A u \in Qu!Caller : Fresh(u)' =>
              /\ mine'[u] \in 1 .. queue_created'
              /\ \A i \in 1 .. NLink : linked[i] # mine'[u]
              /\ \A v \in Qu!Caller : Fresh(v)' /\ mine'[v] = mine'[u] => v = u
        BY <1>0, <1>n, <1>3, <4>1, <4>2, <4>3 DEF PushSays, FreshSays, LastSays,
            TailSays, Fresh
      <4>6. \A u \in Qu!Caller : queue_pc'[u] \in {"flag", "link"} =>
              \E i \in NPop .. NLink : /\ queue_cur'[u] = ChainAt(NPop, i)
                                       /\ i = NLink => \A v \in Qu!Caller : queue_pc'[v] # "tail"
        BY <1>0, <1>3, <4>1, <4>4 DEF PushSays, FreshSays, LastSays, TailSays
      <4>7. \A u \in Qu!Caller : queue_pc'[u] = "tail" =>
              /\ NPop < NLink /\ mine'[u] = linked[NLink] /\ queue_tail = ChainAt(NPop, NLink - 1)
              /\ \A v \in Qu!Caller : queue_pc'[v] = "tail" => v = u
        BY <1>0, <1>3, <4>1, <4>4 DEF PushSays, FreshSays, LastSays, TailSays
      <4> SUFFICES ASSUME NEW u \in Qu!Caller PROVE (FreshSays(u) /\ LastSays(u) /\ TailSays(u))'
        BY DEF PushSays
      <4>8. FreshSays(u)'
        BY <2>0, <4>5 DEF FreshSays, Fresh
      <4>9. LastSays(u)'
        BY <2>0, <4>6 DEF LastSays, ChainAt
      <4>10. TailSays(u)'
        BY <2>0, <4>7 DEF TailSays, ChainAt
      <4> QED BY <4>8, <4>9, <4>10
    <3>2. CASE Qu!push_load(t)
      <4>1. mine' = mine /\ queue_pc'[t] = "flag" /\ queue_created' = queue_created /\ queue_pc[t] = "load" /\ queue_cur'[t] = queue_tail
        BY <1>0, <3>2 DEF Qu!push_load, Qu!Goto, Qu!TypeOK
      <4>4. \A u \in Qu!Caller : (queue_pc'[u] = "tail" <=> queue_pc[u] = "tail") /\ (Fresh(u)' <=> Fresh(u))
        BY <1>3, <4>1 DEF Fresh
      <4>5. \A u \in Qu!Caller : Fresh(u)' =>
              /\ mine'[u] \in 1 .. queue_created'
              /\ \A i \in 1 .. NLink : linked[i] # mine'[u]
              /\ \A v \in Qu!Caller : Fresh(v)' /\ mine'[v] = mine'[u] => v = u
        BY <1>0, <4>1, <4>4 DEF PushSays, FreshSays, LastSays, TailSays
      <4>6. \E i \in NPop .. NLink : /\ queue_tail = ChainAt(NPop, i)
                                     /\ i = NLink => \A v \in Qu!Caller : queue_pc[v] # "tail"
        <5>1. CASE \A v \in Qu!Caller : queue_pc[v] # "tail"
          BY <1>2, <1>n, <5>1
        <5>2. CASE \E v \in Qu!Caller : queue_pc[v] = "tail"
          <6>1. NPop < NLink /\ queue_tail = ChainAt(NPop, NLink - 1)
            BY <1>0, <5>2 DEF PushSays, FreshSays, LastSays, TailSays
          <6>2. NLink - 1 \in NPop .. NLink /\ NLink - 1 # NLink
            BY <1>n, <6>1
          <6> QED BY <6>1, <6>2
        <5> QED BY <5>1, <5>2
      <4>7. \A u \in Qu!Caller : queue_pc'[u] \in {"flag", "link"} =>
              \E i \in NPop .. NLink : /\ queue_cur'[u] = ChainAt(NPop, i)
                                       /\ i = NLink => \A v \in Qu!Caller : queue_pc'[v] # "tail"
        BY <1>0, <1>3, <4>1, <4>4, <4>6 DEF PushSays, FreshSays, LastSays, TailSays
      <4>8. \A u \in Qu!Caller : queue_pc'[u] = "tail" =>
              /\ NPop < NLink /\ mine'[u] = linked[NLink] /\ queue_tail = ChainAt(NPop, NLink - 1)
              /\ \A v \in Qu!Caller : queue_pc'[v] = "tail" => v = u
        BY <1>0, <4>1, <4>4 DEF PushSays, FreshSays, LastSays, TailSays
      <4> SUFFICES ASSUME NEW u \in Qu!Caller PROVE (FreshSays(u) /\ LastSays(u) /\ TailSays(u))'
        BY DEF PushSays
      <4>9. FreshSays(u)'
        BY <2>0, <4>5 DEF FreshSays, Fresh
      <4>10. LastSays(u)'
        BY <2>0, <4>7 DEF LastSays, ChainAt
      <4>11. TailSays(u)'
        BY <2>0, <4>8 DEF TailSays, ChainAt
      <4> QED BY <4>9, <4>10, <4>11
    <3> QED BY <1>a, <3>1, <3>2
  <2> QED BY <1>5, <2>3, <2>4, <2>5 DEF ApartInv
<1>b. CASE Qu!push_flag(t) \/ (Qu!push_link(t) /\ queue_pc'[t] = "load")
  <2>0. UNCHANGED <<queue_next, queue_tail, linked, queue_popped, queue_removal, freed, after, queue_created, mine, queue_cur>>
        /\ NLink' = NLink /\ NPop' = NPop
    BY <1>0, <1>b DEF Qu!push_flag, Qu!push_link, NLink, NPop, Qu!Goto, Qu!TypeOK
  <2>1. queue_pc[t] \in {"flag", "link"} /\ queue_pc'[t] \in {"load", "link"}
        /\ dangling' = (dangling \/ queue_cur[t] \in freed)
    BY <1>0, <1>b DEF Qu!push_flag, Qu!push_link, Qu!Goto, Qu!TypeOK, Qu!Use
  <2>2. ~dangling'
    <3>1. PICK i \in NPop .. NLink : queue_cur[t] = ChainAt(NPop, i)
      BY <1>0, <2>1 DEF PushSays, FreshSays, LastSays, TailSays
    <3>2. CASE i = NPop
      BY <1>0, <1>n, <2>1, <3>1, <3>2 DEF ChainAt, SeqSays, Qu!TypeOK
    <3>3. CASE i > NPop
      <4>1. queue_cur[t] = linked[i] /\ i \in 1 .. NLink /\ \A j \in 1 .. NPop : j # i /\ j \in 1 .. NLink
        BY <1>n, <3>1, <3>3 DEF ChainAt
      <4> QED BY <1>0, <2>1, <4>1 DEF SeqSays
    <3> QED BY <1>n, <3>2, <3>3
  <2>4. SeqSays'
    BY <1>0, <2>0, <2>2 DEF SeqSays
  <2>5. \A u \in Qu!Caller : (queue_pc'[u] = "tail" <=> queue_pc[u] = "tail") /\ (Fresh(u)' <=> Fresh(u))
                          /\ (queue_pc'[u] \in {"flag", "link"} => queue_pc[u] \in {"flag", "link"})
    BY <1>3, <2>1 DEF Fresh
  <2>6. QuietSays'
    BY <1>2, <2>0, <2>5 DEF QuietSays, ListSays, ChainAt
  <2>7. PushSays'
    <3> SUFFICES ASSUME NEW u \in Qu!Caller
                 PROVE  /\ Fresh(u)' => /\ mine[u] \in 1 .. queue_created
                                        /\ \A i \in 1 .. NLink : linked[i] # mine[u]
                                        /\ \A v \in Qu!Caller : Fresh(v)' /\ mine[v] = mine[u] => v = u
                        /\ queue_pc'[u] \in {"flag", "link"} =>
                             \E i \in NPop .. NLink : /\ queue_cur[u] = ChainAt(NPop, i)
                                                      /\ i = NLink => \A v \in Qu!Caller : queue_pc'[v] # "tail"
                        /\ queue_pc'[u] = "tail" => /\ NPop < NLink /\ mine[u] = linked[NLink]
                                              /\ queue_tail = ChainAt(NPop, NLink - 1)
                                              /\ \A v \in Qu!Caller : queue_pc'[v] = "tail" => v = u
      BY <2>0 DEF PushSays, FreshSays, LastSays, TailSays, ChainAt, Fresh
    <3> QED BY <1>0, <2>5 DEF PushSays, FreshSays, LastSays, TailSays
  <2> QED BY <1>5, <2>4, <2>6, <2>7 DEF ApartInv
<1>c. CASE Qu!push_link(t) /\ queue_pc'[t] # "load"
  <2>1. /\ queue_pc[t] = "link" /\ queue_pc'[t] = "tail" /\ queue_next[queue_cur[t]] = Qu!Null
        /\ queue_next' = [queue_next EXCEPT ![queue_cur[t]] = mine[t]] /\ linked' = Append(linked, mine[t])
        /\ dangling' = (dangling \/ queue_cur[t] \in freed)
        /\ UNCHANGED <<queue_tail, queue_popped, queue_removal, freed, after, queue_created, mine, queue_cur>>
        /\ queue_pc' = [queue_pc EXCEPT ![t] = "tail"]
    BY <1>0, <1>c DEF Qu!push_link, Qu!Goto, Qu!TypeOK, Qu!Use
  <2>2. /\ mine[t] \in 1 .. queue_created /\ mine[t] \in Qu!Node /\ \A i \in 1 .. NLink : linked[i] # mine[t]
        /\ \A u \in Qu!Caller : Fresh(u) /\ mine[u] = mine[t] => u = t
    BY <1>0, <1>n, <2>1 DEF PushSays, FreshSays, Fresh, Qu!Node
  <2>3. /\ NLink' = NLink + 1 /\ NPop' = NPop /\ linked' \in Seq(Qu!Node)
        /\ linked'[NLink + 1] = mine[t] /\ \A i \in 1 .. NLink : linked'[i] = linked[i]
    BY <1>0, <2>1, <2>2 DEF NLink, NPop, Qu!TypeOK
  <2>4. queue_cur[t] = ChainAt(NPop, NLink) /\ \A u \in Qu!Caller : queue_pc[u] # "tail"
    <3>1. PICK i \in NPop .. NLink : queue_cur[t] = ChainAt(NPop, i)
                                     /\ (i = NLink => \A u \in Qu!Caller : queue_pc[u] # "tail")
      BY <1>0, <2>1 DEF PushSays, FreshSays, LastSays, TailSays
    <3>2. i < NLink => queue_next[queue_cur[t]] = linked[i + 1] /\ i + 1 \in 1 .. NLink
      BY <1>2, <1>n, <3>1 DEF ListSays
    <3> QED BY <1>n, <2>1, <3>1, <3>2
  <2>5. queue_cur[t] \in {0} \cup Qu!Node /\ queue_cur[t] \notin freed
    <3>1. CASE NLink = NPop
      BY <1>0, <1>n, <2>4, <3>1 DEF ChainAt, SeqSays, Qu!TypeOK
    <3>2. CASE NLink > NPop
      <4>1. queue_cur[t] = linked[NLink] /\ NLink \in 1 .. NLink
            /\ \A j \in 1 .. NPop : j # NLink /\ j \in 1 .. NLink
        BY <1>n, <2>4, <3>2 DEF ChainAt
      <4> QED BY <1>0, <1>n, <4>1 DEF SeqSays
    <3> QED BY <1>n, <3>1, <3>2
  <2>7. SeqSays'
    <3>0. \A i \in 1 .. NLink + 1 : i \in 1 .. NLink \/ i = NLink + 1
      BY <1>n
    <3>1. \A i, j \in 1 .. NLink + 1 : linked'[i] = linked'[j] => i = j
      BY <1>0, <2>2, <2>3, <3>0 DEF SeqSays
    <3>2. \A i \in 1 .. NLink + 1 : linked'[i] \in 1 .. queue_created
      BY <1>0, <2>2, <2>3, <3>0 DEF SeqSays
    <3>3. NPop =< NLink + 1 /\ \A i \in 1 .. NPop : queue_popped[i] = linked'[i]
      BY <1>0, <1>n, <2>3 DEF SeqSays
    <3>4. ASSUME NEW n \in Qu!Node, \A i \in 1 .. NLink + 1 : linked'[i] # n PROVE queue_next'[n] = Qu!Null
      <4>1. \A i \in 1 .. NLink : linked[i] # n
        BY <1>n, <2>3, <3>4
      <4>2. n # queue_cur[t]
        BY <1>n, <2>4, <4>1 DEF ChainAt
      <4> QED BY <1>0, <2>1, <4>1, <4>2 DEF SeqSays, Qu!TypeOK
    <3>5. freed = {linked'[i] : i \in 1 .. NPop}
      <4>1. \A i \in 1 .. NPop : linked'[i] = linked[i]
        BY <1>n, <2>3
      <4> QED BY <1>0, <4>1 DEF SeqSays
    <3>6. ~dangling'
      BY <1>0, <2>1, <2>5 DEF SeqSays
    <3> QED BY <2>1, <2>3, <3>1, <3>2, <3>3, <3>4, <3>5, <3>6 DEF SeqSays
  <2>8. ListSays(NPop)'
    <3>1. queue_next[mine[t]] = Qu!Null /\ \A i, j \in 1 .. NLink : linked[i] = linked[j] => i = j
      BY <1>0, <2>2 DEF SeqSays
    <3>2. \A i \in NPop .. NLink + 1 :
            queue_next'[IF i = NPop THEN 0 ELSE linked'[i]]
              = IF i < NLink + 1 THEN linked'[i + 1] ELSE Qu!Null
      BY <1>0, <1>n, <1>2, <2>1, <2>2, <2>4, <3>1, ListGrows
    <3> QED BY <2>3, <3>2 DEF ListSays, ChainAt
  <2>9. QuietSays'
    BY <2>1, <2>8, <1>0 DEF QuietSays
  <2>10. PushSays'
    <3> SUFFICES ASSUME NEW u \in Qu!Caller
                 PROVE  FreshSays(u)' /\ LastSays(u)' /\ TailSays(u)'
      BY DEF PushSays
    <3>1. ASSUME Fresh(u)' PROVE /\ mine[u] \in 1 .. queue_created
                                 /\ \A i \in 1 .. NLink + 1 : linked'[i] # mine[u]
                                 /\ \A v \in Qu!Caller : Fresh(v)' /\ mine[v] = mine[u] => v = u
      <4>1. u # t /\ Fresh(u) /\ Fresh(t) /\ \A v \in Qu!Caller : Fresh(v)' => Fresh(v)
        BY <1>0, <1>3, <2>1, <3>1 DEF Fresh
      <4>2. mine[u] # mine[t]
        BY <2>2, <4>1
      <4> QED BY <1>0, <1>n, <2>3, <4>1, <4>2 DEF PushSays, FreshSays, LastSays, TailSays
    <3>2. ASSUME queue_pc'[u] \in {"flag", "link"}
          PROVE  \E i \in NPop .. NLink + 1 : /\ queue_cur[u] = ChainAt(NPop, i)'
                                              /\ i = NLink + 1 => \A v \in Qu!Caller : queue_pc'[v] # "tail"
      <4>1. u # t /\ queue_pc[u] \in {"flag", "link"}
        BY <1>3, <2>1, <3>2
      <4>2. PICK i \in NPop .. NLink : queue_cur[u] = ChainAt(NPop, i)
        BY <1>0, <4>1 DEF PushSays, FreshSays, LastSays, TailSays
      <4>3. ChainAt(NPop, i)' = ChainAt(NPop, i) /\ i \in NPop .. NLink + 1 /\ i # NLink + 1
        BY <1>n, <2>3, <4>2 DEF ChainAt
      <4> QED BY <4>2, <4>3
    <3>3. ASSUME queue_pc'[u] = "tail"
          PROVE  /\ NPop < NLink + 1 /\ mine[u] = linked'[NLink + 1]
                 /\ queue_tail = IF NLink = NPop THEN 0 ELSE linked'[NLink]
                 /\ \A v \in Qu!Caller : queue_pc'[v] = "tail" => v = u
      <4>1. u = t /\ \A v \in Qu!Caller : queue_pc'[v] = "tail" => v = u
        BY <1>3, <2>4, <3>3
      <4>2. queue_tail = ChainAt(NPop, NLink)
        BY <1>2, <2>4
      <4>3. (IF NLink = NPop THEN 0 ELSE linked'[NLink]) = ChainAt(NPop, NLink)
        BY <1>n, <2>3 DEF ChainAt
      <4> QED BY <1>n, <2>3, <4>1, <4>2, <4>3 DEF ChainAt
    <3>4. FreshSays(u)'
      BY <2>1, <2>3, <3>1 DEF FreshSays
    <3>5. LastSays(u)'
      BY <2>1, <2>3, <3>2 DEF LastSays
    <3>6. TailSays(u)'
      <4>1. NLink' - 1 = NLink
        BY <1>n, <2>3
      <4> QED BY <2>1, <2>3, <3>3, <4>1 DEF TailSays, ChainAt
    <3> QED BY <3>4, <3>5, <3>6
  <2> QED BY <1>5, <2>7, <2>9, <2>10 DEF ApartInv
<1>d. CASE Qu!push_tail(t)
  <2>0. UNCHANGED <<queue_next, linked, queue_popped, queue_removal, freed, after, queue_created, mine, queue_cur, dangling>>
        /\ NLink' = NLink /\ NPop' = NPop /\ queue_tail' = mine[t] /\ queue_pc[t] = "tail" /\ queue_pc'[t] = "idle"
    BY <1>0, <1>d DEF Qu!push_tail, NLink, NPop, Qu!Goto, Qu!TypeOK
  <2>1. NPop < NLink /\ mine[t] = linked[NLink] /\ \A u \in Qu!Caller : queue_pc[u] = "tail" => u = t
    BY <1>0, <2>0 DEF PushSays, FreshSays, LastSays, TailSays
  <2>2. queue_tail' = ChainAt(NPop, NLink) /\ queue_tail' \in Qu!Node /\ \A u \in Qu!Caller : queue_pc'[u] # "tail"
    BY <1>3, <1>n, <2>0, <2>1 DEF ChainAt
  <2>4. SeqSays'
    BY <1>0, <2>0 DEF SeqSays
  <2>5. QuietSays'
    BY <1>2, <2>0, <2>2 DEF QuietSays, ListSays, ChainAt
  <2>6. \A u \in Qu!Caller : (Fresh(u)' <=> Fresh(u))
                          /\ (queue_pc'[u] \in {"flag", "link"} => queue_pc[u] \in {"flag", "link"})
    BY <1>3, <2>0 DEF Fresh
  <2>7. PushSays'
    <3> SUFFICES ASSUME NEW u \in Qu!Caller
                 PROVE  /\ Fresh(u)' => /\ mine[u] \in 1 .. queue_created
                                        /\ \A i \in 1 .. NLink : linked[i] # mine[u]
                                        /\ \A v \in Qu!Caller : Fresh(v)' /\ mine[v] = mine[u] => v = u
                        /\ queue_pc'[u] \in {"flag", "link"} =>
                             \E i \in NPop .. NLink : queue_cur[u] = ChainAt(NPop, i)
      BY <2>0, <2>2 DEF PushSays, FreshSays, LastSays, TailSays, ChainAt, Fresh
    <3> QED BY <1>0, <2>6 DEF PushSays, FreshSays, LastSays, TailSays
  <2> QED BY <1>5, <2>4, <2>5, <2>7 DEF ApartInv
<1> QED BY <1>a, <1>b, <1>c, <1>d DEF Qu!PushStep

(* A pop by itself: the sentinel leads to the node that it takes.           *)
LEMMA TryPops ==
  ASSUME Qu!QueueAssumption, OnePop, Qu!TypeOK, ApartInv, ~beside', NEW t \in Popper, Qu!try_pop(t)
  PROVE  ApartInv'
<1>0. Qu!TypeOK /\ SeqSays /\ PushSays /\ PopSays /\ QuietSays /\ t \in Qu!Caller
  BY DEF ApartInv, Qu!Caller
<1>n. /\ NLink \in Nat /\ NPop \in Nat /\ \A i \in 1 .. NLink : linked[i] \in Qu!Node
      /\ Qu!Null \notin Qu!Node /\ 0 \notin Qu!Node /\ Qu!Null # 0 /\ NPop =< NLink
  BY <1>0, QueueNumbers DEF SeqSays
<1>1. \A u \in Qu!Caller : queue_pc[u] = "idle"
  BY DEF Qu!try_pop, Qu!Idle, Qu!Caller
<1>2. ListSays(NPop) /\ queue_tail = ChainAt(NPop, NLink)
  BY <1>0, <1>1 DEF QuietSays, Popping
<1>3. queue_next[0] = IF NPop < NLink THEN linked[NPop + 1] ELSE Qu!Null
  BY <1>2, <1>n DEF ListSays, ChainAt
<1>4. /\ UNCHANGED <<queue_next, queue_removal, queue_tail, queue_created, freed, after, linked, queue_popped, dangling>>
      /\ NLink' = NLink /\ NPop' = NPop
      /\ queue_cur' = [queue_cur EXCEPT ![t] = queue_next[0]] /\ mine' = [mine EXCEPT ![t] = queue_next[0]]
      /\ queue_pc' = [queue_pc EXCEPT ![t] = IF queue_next[0] = Qu!Null THEN "idle" ELSE "mark"]
  BY DEF Qu!try_pop, Qu!Goto, NLink, NPop
<1>5. queue_next[0] \in Qu!Ptr
  BY <1>n, <1>3 DEF Qu!Ptr
<1>7. SeqSays'
  BY <1>0, <1>4 DEF SeqSays
<1>8. \A u \in Qu!Caller : queue_pc'[u] = IF u = t /\ queue_next[0] # Qu!Null THEN "mark" ELSE "idle"
  BY <1>0, <1>1, <1>4 DEF Qu!TypeOK
<1>9. PushSays'
  BY <1>8 DEF PushSays, FreshSays, LastSays, TailSays, Fresh
<1>10. QuietSays'
  BY <1>2, <1>4 DEF QuietSays, ListSays, ChainAt
<1>11. PopSays'
  <2>1. CASE queue_next[0] = Qu!Null
    BY <1>8, <2>1 DEF PopSays, Popping
  <2>2. CASE queue_next[0] # Qu!Null
    <3>1. NPop < NLink /\ mine'[t] = linked[NPop + 1] /\ queue_cur'[t] = mine'[t] /\ queue_pc'[t] = "mark"
      BY <1>0, <1>3, <1>4, <1>8, <2>2 DEF Qu!TypeOK
    <3>2. queue_tail = linked[NLink]
      BY <1>n, <1>2, <3>1 DEF ChainAt
    <3>3. ListSays(NPop)'
      BY <1>2, <1>4 DEF ListSays, ChainAt
    <3> QED BY <1>4, <1>8, <3>1, <3>2, <3>3 DEF PopSays, Popping
  <2> QED BY <2>1, <2>2
<1> QED BY <1>7, <1>9, <1>10, <1>11 DEF ApartInv

(* A pop that overlaps no push and no other pop keeps the list whole.       *)
LEMMA Pops ==
  ASSUME Qu!QueueAssumption, Qu!TypeOK, ApartInv, NEW t \in Popper, Qu!PopStep(t)
  PROVE  ApartInv'
<1>0. Qu!TypeOK /\ SeqSays /\ PushSays /\ PopSays /\ QuietSays /\ t \in Qu!Caller
  BY DEF ApartInv, Qu!Caller
<1>n. /\ NLink \in Nat /\ NPop \in Nat /\ \A i \in 1 .. NLink : linked[i] \in Qu!Node
      /\ Qu!Null \notin Qu!Node /\ 0 \notin Qu!Node /\ Qu!Null # 0 /\ NPop =< NLink
  BY <1>0, QueueNumbers DEF SeqSays
<1>1. Popping(t)
  BY DEF Qu!PopStep, Qu!pop_mark, Qu!pop_next, Qu!pop_unlink, Qu!pop_retract,
      Qu!pop_take, Qu!Goto, Popping
<1>2. /\ \A u \in Qu!Caller : u # t => queue_pc[u] = "idle"
      /\ NPop < NLink /\ mine[t] = linked[NPop + 1] /\ queue_cur[t] = mine[t]
      /\ queue_pc[t] \in {"mark", "next", "unlink"} => ListSays(NPop) /\ queue_tail = linked[NLink]
      /\ queue_pc[t] = "unlink" => after[t] = IF NPop + 1 < NLink THEN linked[NPop + 2] ELSE Qu!Null
      /\ queue_pc[t] \in {"retract", "take"} => ListSays(NPop + 1)
      /\ queue_pc[t] = "retract" => queue_tail = linked[NLink]
      /\ queue_pc[t] = "take" => queue_tail = ChainAt(NPop + 1, NLink)
  BY <1>0, <1>1 DEF PopSays
<1>3. /\ NPop + 1 \in 1 .. NLink /\ queue_cur[t] \in Qu!Node /\ queue_cur[t] \notin freed
      /\ queue_cur[t] = linked[NPop + 1]
  BY <1>0, <1>n, <1>2 DEF SeqSays
<1>4. \A u \in Qu!Caller : u # t => queue_pc'[u] = "idle"
  BY <1>0, <1>2 DEF Qu!PopStep, Qu!pop_mark, Qu!pop_next, Qu!pop_unlink, Qu!pop_retract,
      Qu!pop_take, Qu!Goto, Qu!TypeOK
<1>5. queue_pc'[t] \in {"mark", "next", "unlink", "retract", "take", "idle"}
      /\ queue_pc' \in [Qu!Caller -> {"idle", "load", "flag", "link", "tail",
                        "read", "mark", "next", "unlink", "retract", "take"}]
  BY <1>0, <1>1 DEF Qu!PopStep, Qu!pop_mark, Qu!pop_next, Qu!pop_unlink, Qu!pop_retract,
      Qu!pop_take, Qu!Goto, Qu!TypeOK,
     Popping
<1>6. PushSays'
  BY <1>4, <1>5 DEF PushSays, FreshSays, LastSays, TailSays, Fresh
<1>7. ListSays(NPop) => queue_next[0] = queue_cur[t]
  BY <1>n, <1>2, <1>3 DEF ListSays, ChainAt
<1>a. CASE Qu!pop_mark(t) \/ Qu!pop_next(t)
  <2>1. /\ UNCHANGED <<queue_next, queue_tail, queue_created, freed, linked, queue_popped, queue_cur, mine>>
        /\ NLink' = NLink /\ NPop' = NPop /\ queue_pc[t] \in {"mark", "next"}
        /\ dangling' = (dangling \/ queue_cur[t] \in freed)
        /\ queue_pc'[t] = IF queue_pc[t] = "mark" THEN "next" ELSE "unlink"
    BY <1>0, <1>a DEF Qu!pop_mark, Qu!pop_next, Qu!Goto, NLink, NPop, Qu!Use, Qu!TypeOK
  <2>2. queue_removal' \subseteq Qu!Node
    BY <1>0, <1>3, <1>a DEF Qu!pop_mark, Qu!pop_next, Qu!TypeOK
  <2>3. queue_next[queue_cur[t]] = IF NPop + 1 < NLink THEN linked[NPop + 2] ELSE Qu!Null
    <3>1. ListSays(NPop) /\ NPop + 1 \in NPop .. NLink /\ NPop + 1 # NPop
          /\ (NPop + 1) + 1 = NPop + 2
      BY <1>n, <1>2, <2>1
    <3>2. ChainAt(NPop, NPop + 1) = queue_cur[t]
      BY <1>3, <3>1 DEF ChainAt
    <3> QED BY <3>1, <3>2 DEF ListSays
  <2>4. after' \in [Qu!Caller -> Qu!Ptr] /\ (queue_pc[t] = "next" => after'[t] = queue_next[queue_cur[t]])
    <3>1. queue_next[queue_cur[t]] \in Qu!Ptr
      BY <1>0, <1>3 DEF Qu!TypeOK
    <3> QED BY <1>0, <1>a, <3>1 DEF Qu!pop_mark, Qu!pop_next, Qu!Goto, Qu!TypeOK
  <2>6. SeqSays'
    BY <1>0, <1>3, <2>1 DEF SeqSays
  <2>7. QuietSays'
    BY <1>0, <2>1 DEF QuietSays, Popping
  <2>8. ListSays(NPop)' /\ queue_tail = linked[NLink]
    BY <1>2, <2>1 DEF ListSays, ChainAt
  <2>9. PopSays'
    <3>1. queue_pc'[t] = "unlink" => after'[t] = IF NPop + 1 < NLink THEN linked[NPop + 2] ELSE Qu!Null
      BY <2>1, <2>3, <2>4
    <3> QED BY <1>2, <1>4, <2>1, <2>8, <3>1 DEF PopSays, Popping
  <2> QED BY <1>6, <2>6, <2>7, <2>9 DEF ApartInv
<1>b. CASE Qu!pop_unlink(t)
  <2>1. queue_pc[t] = "unlink"
    BY <1>b DEF Qu!pop_unlink, Qu!Goto
  <2>2. queue_next[0] = queue_cur[t] /\ queue_cur[t] # Qu!Null
    BY <1>n, <1>2, <1>3, <1>7, <2>1
  <2>3. /\ UNCHANGED <<queue_removal, queue_tail, queue_created, freed, linked, queue_popped, dangling, queue_cur, mine, after>>
        /\ queue_next' = [queue_next EXCEPT ![0] = after[t]] /\ NLink' = NLink /\ NPop' = NPop
        /\ queue_pc'[t] = "retract"
    BY <1>0, <1>b, <2>2 DEF Qu!pop_unlink, Qu!Goto, NLink, NPop, Qu!TypeOK
  <2>5. \A n \in Qu!Node : queue_next'[n] = queue_next[n]
    BY <1>0, <1>n, <2>3 DEF Qu!TypeOK
  <2>6. SeqSays'
    BY <1>0, <2>3, <2>5 DEF SeqSays
  <2>7. ListSays(NPop + 1)'
    <3> SUFFICES ASSUME NEW i \in NPop + 1 .. NLink
                 PROVE  queue_next'[IF i = NPop + 1 THEN 0 ELSE linked[i]]
                          = IF i < NLink THEN linked[i + 1] ELSE Qu!Null
      BY <2>3 DEF ListSays, ChainAt
    <3>1. CASE i = NPop + 1
      <4>1. queue_next'[0] = after[t]
        BY <1>0, <2>3 DEF Qu!TypeOK
      <4>2. (NPop + 1) + 1 = NPop + 2
        BY <1>n
      <4> QED BY <1>2, <2>1, <3>1, <4>1, <4>2
    <3>2. CASE i # NPop + 1
      <4>1. i \in NPop .. NLink /\ i # NPop /\ i \in 1 .. NLink
        BY <1>n
      <4>2. queue_next[linked[i]] = IF i < NLink THEN linked[i + 1] ELSE Qu!Null
        BY <1>2, <2>1, <4>1 DEF ListSays, ChainAt
      <4> QED BY <1>n, <2>5, <3>2, <4>1, <4>2
    <3> QED BY <3>1, <3>2
  <2>8. PopSays'
    <3>1. (NPop + 1)' = NPop + 1
      BY <2>3
    <3> QED BY <1>2, <1>4, <2>1, <2>3, <2>7, <3>1 DEF PopSays, Popping
  <2>9. QuietSays'
    BY <1>0, <2>3 DEF QuietSays, Popping
  <2> QED BY <1>6, <2>6, <2>8, <2>9 DEF ApartInv
<1>c. CASE Qu!pop_retract(t)
  <2>1. /\ UNCHANGED <<queue_next, queue_removal, queue_created, freed, linked, queue_popped, dangling, queue_cur, mine, after>>
        /\ NLink' = NLink /\ NPop' = NPop /\ queue_pc[t] = "retract" /\ queue_pc'[t] = "take"
        /\ queue_tail' = IF queue_tail = mine[t] THEN 0 ELSE queue_tail
    BY <1>0, <1>c DEF Qu!pop_retract, Qu!Goto, NLink, NPop, Qu!TypeOK
  <2>2. queue_tail' = ChainAt(NPop + 1, NLink)
    <3>1. queue_tail = mine[t] <=> NLink = NPop + 1
      BY <1>0, <1>n, <1>2, <1>3, <2>1 DEF SeqSays
    <3> QED BY <1>2, <2>1, <3>1 DEF ChainAt
  <2>4. SeqSays'
    BY <1>0, <2>1 DEF SeqSays
  <2>5. ListSays(NPop + 1)' /\ queue_tail' = ChainAt(NPop + 1, NLink)'
    BY <1>2, <2>1, <2>2 DEF ListSays, ChainAt
  <2>6. PopSays'
    BY <1>2, <1>4, <2>1, <2>5 DEF PopSays, Popping
  <2>7. QuietSays'
    BY <1>0, <2>1 DEF QuietSays, Popping
  <2> QED BY <1>6, <2>4, <2>6, <2>7 DEF ApartInv
<1>d. CASE Qu!pop_take(t)
  <2>1. /\ UNCHANGED <<queue_next, queue_removal, queue_tail, queue_created, linked, queue_cur, mine, after>>
        /\ NLink' = NLink /\ queue_pc[t] = "take" /\ queue_pc'[t] = "idle"
        /\ queue_popped' = Append(queue_popped, mine[t]) /\ freed' = freed \cup {mine[t]}
        /\ dangling' = (dangling \/ mine[t] \in freed)
    BY <1>0, <1>d DEF Qu!pop_take, Qu!Goto, NLink, Qu!TypeOK, Qu!Use
  <2>2. queue_popped \in Seq(Qu!Node) /\ mine[t] \in Qu!Node /\ mine[t] = linked[NPop + 1]
    BY <1>0, <1>2, <1>3 DEF Qu!TypeOK
  <2>3. /\ NPop' = NPop + 1 /\ queue_popped' \in Seq(Qu!Node)
        /\ queue_popped'[NPop + 1] = mine[t] /\ \A i \in 1 .. NPop : queue_popped'[i] = queue_popped[i]
    BY <2>1, <2>2 DEF NPop
  <2>5. SeqSays'
    <3>1. ~dangling'
      BY <1>0, <1>2, <1>3, <2>1 DEF SeqSays
    <3>2. \A i \in 1 .. NPop + 1 : i \in 1 .. NPop \/ i = NPop + 1
      BY <1>n
    <3>3. \A i \in 1 .. NPop + 1 : queue_popped'[i] = linked[i]
      BY <1>0, <2>2, <2>3, <3>2 DEF SeqSays
    <3>4. freed' = {linked[i] : i \in 1 .. NPop + 1}
      <4>1. freed' = {linked[i] : i \in 1 .. NPop} \cup {linked[NPop + 1]}
        BY <1>0, <2>1, <2>2 DEF SeqSays
      <4>2. \A i \in 1 .. NPop : i \in 1 .. NPop + 1
        BY <1>n
      <4>3. NPop + 1 \in 1 .. NPop + 1
        BY <1>n
      <4> QED BY <3>2, <4>1, <4>2, <4>3
    <3>5. NPop + 1 =< NLink
      BY <1>n, <1>2
    <3> QED BY <1>0, <2>1, <2>3, <3>1, <3>3, <3>4, <3>5 DEF SeqSays
  <2>6. PopSays'
    BY <1>4, <2>1 DEF PopSays, Popping
  <2>7. QuietSays'
    <3>1. ListSays(NPop + 1) /\ queue_tail = ChainAt(NPop + 1, NLink)
      BY <1>2, <2>1
    <3> QED BY <2>1, <2>3, <3>1 DEF QuietSays, ListSays, ChainAt
  <2> QED BY <1>6, <2>5, <2>6, <2>7 DEF ApartInv
<1> QED BY <1>a, <1>b, <1>c, <1>d DEF Qu!PopStep

(* While no push has run beside a pop, every step keeps the list whole.     *)
LEMMA ApartStep ==
  ASSUME Qu!QueueAssumption, OnePop, Qu!TypeOK, ApartInv, ~beside', [Qu!Next]_Qu!vars
  PROVE  ApartInv'
<1>1. CASE UNCHANGED Qu!vars
  <2>1. UNCHANGED <<NLink, NPop>>
    BY <1>1 DEF Qu!vars, NLink, NPop
  <2> USE <1>1, <2>1 DEF Qu!vars, ApartInv
  <2>2. SeqSays'
    BY DEF SeqSays
  <2>3. PushSays'
    BY DEF PushSays, FreshSays, LastSays, TailSays, Fresh, ChainAt
  <2>4. PopSays'
    BY DEF PopSays, Popping, ListSays, ChainAt
  <2>5. QuietSays'
    BY DEF QuietSays, Popping, ListSays, ChainAt
  <2> QED BY <2>2, <2>3, <2>4, <2>5
<1> QED BY <1>1, Pushes, TryPops, Pops DEF Qu!Next

-----------------------------------------------------------------------------
(* Earlier is an order of the nodes, and lasts while others are linked.     *)
LEMMA EarlierOrder ==
  ASSUME Qu!QueueAssumption, Qu!TypeOK, LinksSay
  PROVE  /\ \A a, b, c : Earlier(a, b) /\ Earlier(b, c) => Earlier(a, c)
         /\ \A a, b : Earlier(a, b) => a \in Listed /\ b \in Listed /\ a # b
<1>1. NLink \in Nat
  BY QueueNumbers
<1>2. ASSUME NEW a, NEW b, NEW c, Earlier(a, b), Earlier(b, c) PROVE Earlier(a, c)
  <2>1. PICK i, j \in 1 .. NLink : i < j /\ linked[i] = a /\ linked[j] = b
    BY <1>2 DEF Earlier
  <2>2. PICK k, l \in 1 .. NLink : k < l /\ linked[k] = b /\ linked[l] = c
    BY <1>2 DEF Earlier
  <2>3. j = k
    BY <2>1, <2>2 DEF LinksSay
  <2>4. i < l
    BY <1>1, <2>1, <2>2, <2>3
  <2> QED BY <2>1, <2>2, <2>4 DEF Earlier
<1>3. ASSUME NEW a, NEW b, Earlier(a, b) PROVE a \in Listed /\ b \in Listed /\ a # b
  <2>1. PICK i, j \in 1 .. NLink : i < j /\ linked[i] = a /\ linked[j] = b
    BY <1>3 DEF Earlier
  <2>2. i # j
    BY <1>1, <2>1
  <2> QED BY <2>1, <2>2 DEF Listed, LinksSay
<1> QED BY <1>2, <1>3

(* What a step that moves no node leaves as it is: the list and the pops.   *)
LEMMA PathStays ==
  ASSUME Qu!QueueAssumption, Qu!TypeOK, OnePopInv,
         UNCHANGED <<queue_next, linked, queue_popped, late>>,
         queue_removal \subseteq queue_removal',
         \A u \in Popper : (Off(u)' <=> Off(u)) /\ (Off(u) => mine'[u] = mine[u]),
         \A u \in Popper : queue_pc'[u] = "unlink" =>
           \/ queue_pc[u] = "unlink" /\ after'[u] = after[u]
           \/ late # {}
           \/ after'[u] = IF NPop + 1 < NLink THEN linked[NPop + 2] ELSE Qu!Null
  PROVE  /\ UNCHANGED <<NLink, NPop, Listed>> /\ \A a, b : Earlier(a, b)' = Earlier(a, b)
         /\ GoneSays' /\ FollowSays' /\ WholeSays'
         /\ \A t \in Qu!Caller :
              \/ Popping(t)' /\ ~UNCHANGED <<queue_pc[t], queue_cur[t], mine[t], after[t]>>
              \/ \E u \in Popper : Popping(u)' /\ ~Popping(u)
              \/ TakerSays(t)'
<1>1. UNCHANGED <<NLink, NPop, Listed>> /\ \A a, b : Earlier(a, b)' = Earlier(a, b)
  BY DEF NLink, NPop, Listed, Earlier
<1>2. Gone' = Gone
  BY <1>1 DEF Gone
<1>3. NGone' = NGone
  BY <1>1 DEF NGone
<1>4. GoneSays'
  BY <1>1, <1>2 DEF OnePopInv, GoneSays
<1>5. FollowSays'
  BY <1>1, <1>2 DEF OnePopInv, FollowSays
<1>6. WholeSays'
  <2> SUFFICES ASSUME late = {} PROVE WholeSays'
    BY DEF WholeSays
  <2>1. ListSays(NGone)' <=> ListSays(NGone)
    BY <1>1, <1>3 DEF ListSays, ChainAt
  <2>2. \A u \in Popper : queue_pc'[u] = "unlink" =>
          after'[u] = IF NPop + 1 < NLink THEN linked[NPop + 2] ELSE Qu!Null
    BY DEF OnePopInv, WholeSays
  <2> QED BY <1>1, <1>3, <2>1, <2>2 DEF OnePopInv, WholeSays
<1>7. ASSUME NEW t \in Qu!Caller, \A u \in Popper : Popping(u)' => Popping(u),
             Popping(t)' => UNCHANGED <<queue_pc[t], queue_cur[t], mine[t], after[t]>>
      PROVE  TakerSays(t)'
  <2> SUFFICES ASSUME Popping(t)' PROVE TakerSays(t)'
    BY DEF TakerSays
  <2>1. Popping(t) /\ (Off(t)' <=> Off(t))
    BY <1>7 DEF Popping, Off
  <2> QED BY <1>1, <1>7, <2>1 DEF OnePopInv, TakerSays
<1> QED BY <1>1, <1>4, <1>5, <1>6, <1>7

(* The steps of a push before and after its exchange.                       *)
LEMMA PushesAround ==
  ASSUME Qu!QueueAssumption, Qu!TypeOK, OnePopInv, NEW t \in Pusher,
         \/ Qu!push(t) \/ Qu!push_load(t) \/ Qu!push_flag(t)
         \/ (Qu!push_link(t) /\ queue_pc'[t] = "load") \/ Qu!push_tail(t)
  PROVE  OnePopInv'
<1>0. t \in Qu!Caller /\ LinksSay /\ \A u \in Qu!Caller : LinkerSays(u)
  BY DEF OnePopInv, Qu!Caller
<1>n. /\ NLink \in Nat /\ MaxNodes \in Nat /\ queue_created \in 0 .. MaxNodes
      /\ \A i \in 1 .. NLink : linked[i] \in Qu!Node
  BY QueueNumbers
<1>1. /\ UNCHANGED <<queue_next, linked, queue_popped, queue_removal, late, after>>
      /\ \A u \in Qu!Caller : u # t => UNCHANGED <<queue_pc[u], queue_cur[u], mine[u]>>
      /\ ~Popping(t) /\ ~Popping(t)' /\ queue_created' >= queue_created /\ queue_created' \in Nat
  BY <1>0, <1>n DEF Qu!push, Qu!push_load, Qu!push_flag, Qu!push_link, Qu!push_tail,
      Qu!Goto, Qu!TypeOK, Popping
<1>2. /\ UNCHANGED <<NLink, NPop, Listed>> /\ \A a, b : Earlier(a, b)' = Earlier(a, b)
      /\ GoneSays' /\ FollowSays' /\ WholeSays' /\ \A u \in Qu!Caller : TakerSays(u)'
  <2>1. \A u \in Qu!Caller : /\ Popping(u)' => u # t
                             /\ Off(u)' => u # t
                             /\ Off(u) => u # t
                             /\ queue_pc'[u] = "unlink" => u # t
    BY <1>1 DEF Popping, Off
  <2>2. \A u \in Qu!Caller : u # t => (Off(u)' <=> Off(u)) /\ (Popping(u)' <=> Popping(u))
    BY <1>1 DEF Popping, Off
  <2>3. Popper \subseteq Qu!Caller
    BY DEF Qu!Caller
  <2> QED BY <1>1, <2>1, <2>2, <2>3, PathStays
<1>3. queue_tail' \in {0} \cup Listed
  BY <1>0 DEF LinksSay, LinkerSays, Qu!push, Qu!push_load, Qu!push_flag, Qu!push_link,
      Qu!push_tail, Qu!Goto
<1>4. LinksSay'
  BY <1>0, <1>n, <1>1, <1>2, <1>3 DEF LinksSay
<1>5. \A u \in Qu!Caller : FreshSays(u)'
  <2>1. CASE Qu!push(t)
    <3>1. /\ mine'[t] = queue_created + 1 /\ queue_pc'[t] = "load"
          /\ queue_created' = queue_created + 1
      BY <1>0, <2>1 DEF Qu!push, Qu!Goto, Qu!TypeOK
    <3>2. \A u \in Qu!Caller : Fresh(u) => mine[u] \in 1 .. queue_created
      BY <1>0 DEF LinkerSays, FreshSays
    <3>3. \A i \in 1 .. NLink : linked[i] \in 1 .. queue_created
      BY <1>0 DEF LinksSay
    <3>4. queue_created + 1 \notin 1 .. queue_created /\ queue_created + 1 \in 1 .. queue_created'
      BY <1>n, <3>1
    <3>5. \A u \in Qu!Caller : u # t => mine'[u] = mine[u] /\ (Fresh(u)' <=> Fresh(u))
      BY <1>1 DEF Fresh
    <3> SUFFICES ASSUME NEW u \in Qu!Caller, Fresh(u)'
                 PROVE  /\ mine'[u] \in 1 .. queue_created'
                        /\ \A i \in 1 .. NLink : linked[i] # mine'[u]
                        /\ \A v \in Qu!Caller : Fresh(v)' /\ mine'[v] = mine'[u] => v = u
      BY <1>1, <1>2 DEF FreshSays
    <3>6. CASE u = t
      BY <3>1, <3>2, <3>3, <3>4, <3>5, <3>6
    <3>7. CASE u # t
      <4>1. mine'[u] \in 1 .. queue_created'
        BY <1>n, <3>1, <3>2, <3>5, <3>7
      <4> QED BY <1>0, <3>1, <3>2, <3>4, <3>5, <3>7, <4>1 DEF LinkerSays, FreshSays
    <3> QED BY <3>6, <3>7
  <2>2. CASE ~Qu!push(t)
    <3>1. UNCHANGED <<mine, queue_created>> /\ (Fresh(t)' => Fresh(t))
      BY <1>0, <2>2 DEF Qu!push_load, Qu!push_flag, Qu!push_link, Qu!push_tail, Qu!Goto,
          Qu!TypeOK, Fresh
    <3>2. \A u \in Qu!Caller : Fresh(u)' => Fresh(u)
      BY <1>1, <3>1 DEF Fresh
    <3> QED BY <1>0, <1>1, <1>2, <3>1, <3>2 DEF LinkerSays, FreshSays
  <2> QED BY <2>1, <2>2
<1>6. ASSUME NEW u \in Qu!Caller PROVE LinkerSays(u)'
  <2>1. CASE u # t
    BY <1>0, <1>1, <1>2, <1>5, <2>1 DEF LinkerSays
  <2>2. CASE u = t
    <3>1. queue_pc'[t] \in {"flag", "link"} => queue_cur'[t] \in {0} \cup Listed
      BY <1>0 DEF LinksSay, LinkerSays, Qu!push, Qu!push_load, Qu!push_flag, Qu!push_link,
          Qu!push_tail, Qu!Goto, Qu!TypeOK
    <3>2. queue_pc'[t] # "tail"
      BY <1>0 DEF Qu!push, Qu!push_load, Qu!push_flag, Qu!push_link, Qu!push_tail,
          Qu!Goto, Qu!TypeOK
    <3> QED BY <1>2, <1>5, <2>2, <3>1, <3>2 DEF LinkerSays
  <2> QED BY <2>1, <2>2
<1> QED BY <1>2, <1>4, <1>6 DEF OnePopInv


(* The exchange of a push: the node is behind the last one, or behind one   *)
(* that a pop had marked and is then known to be late.                      *)
LEMMA PushLinks ==
  ASSUME Qu!QueueAssumption, Qu!TypeOK, OnePopInv, NEW t \in Pusher,
         Qu!push_link(t), queue_pc'[t] # "load"
  PROVE  OnePopInv'
<1>0. /\ t \in Qu!Caller /\ LinksSay /\ \A u \in Qu!Caller : LinkerSays(u) /\ TakerSays(u)
      /\ GoneSays /\ FollowSays /\ WholeSays
  BY DEF OnePopInv, Qu!Caller
<1>n. /\ NLink \in Nat /\ NPop \in Nat /\ MaxNodes \in Nat /\ queue_created \in 0 .. MaxNodes
      /\ \A i \in 1 .. NLink : linked[i] \in Qu!Node
      /\ Qu!Null \notin Qu!Node /\ 0 \notin Qu!Node /\ Qu!Null # 0 /\ Listed \subseteq Qu!Node
  BY QueueNumbers DEF Listed
<1>1. /\ queue_pc[t] = "link" /\ queue_pc' = [queue_pc EXCEPT ![t] = "tail"]
      /\ queue_next[queue_cur[t]] = Qu!Null
      /\ queue_next' = [queue_next EXCEPT ![queue_cur[t]] = mine[t]] /\ linked' = Append(linked, mine[t])
      /\ late' = IF queue_cur[t] \in queue_removal THEN late \cup {mine[t]} ELSE late
      /\ UNCHANGED <<queue_tail, queue_popped, queue_removal, after, queue_created, mine, queue_cur>>
  BY <1>0 DEF Qu!push_link, Qu!Goto, Qu!TypeOK
<1>2. /\ mine[t] \in 1 .. queue_created /\ mine[t] \in Qu!Node /\ \A i \in 1 .. NLink : linked[i] # mine[t]
      /\ \A u \in Qu!Caller : Fresh(u) /\ mine[u] = mine[t] => u = t
      /\ queue_cur[t] \in {0} \cup Listed
  BY <1>0, <1>n, <1>1 DEF LinkerSays, FreshSays, Fresh, Qu!Node
<1>3. /\ NLink' = NLink + 1 /\ NPop' = NPop /\ linked'[NLink + 1] = mine[t]
      /\ \A i \in 1 .. NLink : linked'[i] = linked[i] /\ i \in 1 .. NLink + 1
      /\ \A i \in 1 .. NLink + 1 : i \in 1 .. NLink \/ i = NLink + 1
  BY <1>n, <1>1, <1>2 DEF NLink, NPop, Qu!TypeOK
<1>4. Listed' = Listed \cup {mine[t]} /\ mine[t] \notin Listed
  <2>1. NLink + 1 \in 1 .. NLink + 1
    BY <1>n
  <2>2. Listed' = {linked'[j] : j \in 1 .. NLink + 1}
    BY <1>3 DEF Listed
  <2> QED BY <1>2, <1>3, <2>1, <2>2 DEF Listed
<1>5. /\ \A a, b : Earlier(a, b) => Earlier(a, b)'
      /\ \A a \in Listed : Earlier(a, mine[t])'
  <2>1. \A a, b : Earlier(a, b) => Earlier(a, b)'
    BY <1>3 DEF Earlier
  <2>2. ASSUME NEW a \in Listed PROVE Earlier(a, mine[t])'
    <3>1. PICK i \in 1 .. NLink : linked[i] = a
      BY <2>2 DEF Listed
    <3>2. i < NLink + 1 /\ NLink + 1 \in 1 .. NLink + 1
      BY <1>n
    <3> QED BY <1>1, <1>3, <3>1, <3>2 DEF Earlier
  <2> QED BY <2>1, <2>2
<1>6. /\ queue_cur[t] \in {0} \cup Qu!Node /\ queue_next'[queue_cur[t]] = mine[t]
      /\ \A n \in {0} \cup Qu!Node : n # queue_cur[t] => queue_next'[n] = queue_next[n]
  BY <1>n, <1>1, <1>2 DEF Qu!TypeOK
<1>7. \A u \in Qu!Caller : /\ u # t => queue_pc'[u] = queue_pc[u]
                           /\ Popping(u)' <=> Popping(u)
                           /\ Off(u)' <=> Off(u)
  BY <1>1 DEF Qu!TypeOK, Popping, Off
<1>8. Gone' = Gone /\ NGone' = NGone /\ Popper \subseteq Qu!Caller
  BY <1>1, <1>3, <1>7 DEF Gone, NGone, Qu!Caller
<1>9. LinksSay'
  <2>1. \A i, j \in 1 .. NLink + 1 : linked'[i] = linked'[j] => i = j
    BY <1>0, <1>2, <1>3 DEF LinksSay
  <2>2. \A i \in 1 .. NLink + 1 : linked'[i] \in 1 .. queue_created
    BY <1>0, <1>2, <1>3 DEF LinksSay
  <2>3. ASSUME NEW n \in Qu!Node, queue_next'[n] # Qu!Null PROVE Earlier(n, queue_next[n])'
    <3>1. CASE n = queue_cur[t]
      <4>1. n \in Listed /\ queue_next'[n] = mine'[t]
        BY <1>n, <1>1, <1>2, <1>6, <3>1
      <4> QED BY <1>5, <4>1
    <3>2. CASE n # queue_cur[t]
      <4>1. queue_next'[n] = queue_next[n] /\ Earlier(n, queue_next[n])
        BY <1>0, <1>6, <2>3, <3>2 DEF LinksSay
      <4>2. Earlier(n, queue_next'[n])
        BY <4>1
      <4> QED BY <1>5, <4>1, <4>2
    <3> QED BY <3>1, <3>2
  <2> QED BY <1>0, <1>1, <1>3, <1>4, <2>1, <2>2, <2>3 DEF LinksSay
<1>10. ASSUME NEW u \in Qu!Caller PROVE LinkerSays(u)'
  <2>1. CASE u = t
    BY <1>1, <1>4, <1>0, <2>1 DEF LinkerSays, FreshSays, Fresh, Qu!TypeOK
  <2>2. CASE u # t
    <3>1. FreshSays(u)'
      <4> SUFFICES ASSUME Fresh(u)
                   PROVE  /\ mine[u] \in 1 .. queue_created
                          /\ \A i \in 1 .. NLink + 1 : linked'[i] # mine[u]
                          /\ \A v \in Qu!Caller : Fresh(v) /\ mine[v] = mine[u] => v = u
        <5>1. \A v \in Qu!Caller : Fresh(v)' => Fresh(v)
          BY <1>1, <1>7 DEF Fresh
        <5> QED BY <1>1, <1>3, <5>1 DEF FreshSays
      <4>1. mine[u] # mine[t]
        BY <1>2, <2>2
      <4> QED BY <1>0, <1>3, <4>1 DEF LinkerSays, FreshSays
    <3> QED BY <1>0, <1>1, <1>4, <1>7, <2>2, <3>1 DEF LinkerSays
  <2> QED BY <2>1, <2>2
<1>11. queue_next[0] # Qu!Null => queue_next'[0] = queue_next[0]
  BY <1>1, <1>6
<1>12. GoneSays'
  <2>1. ASSUME queue_next'[0] # Qu!Null
        PROVE  queue_next'[0] \in Listed' /\ \A g \in Gone : Earlier(g, queue_next[0])'
    <3>1. CASE queue_cur[t] = 0
      BY <1>0, <1>1, <1>4, <1>5, <1>6, <3>1 DEF GoneSays
    <3>2. CASE queue_cur[t] # 0
      BY <1>0, <1>4, <1>5, <1>6, <2>1, <3>2 DEF GoneSays
    <3> QED BY <3>1, <3>2
  <2> QED BY <1>0, <1>1, <1>3, <1>4, <1>5, <1>7, <1>8, <2>1 DEF GoneSays
<1>13. ASSUME NEW u \in Qu!Caller PROVE TakerSays(u)'
  <2>1. CASE ~Popping(u)
    BY <1>7, <2>1 DEF TakerSays
  <2>2. CASE Popping(u)
    <3>1. u # t /\ queue_pc'[u] = queue_pc[u] /\ TakerSays(u)
      BY <1>0, <1>1, <1>7, <2>2 DEF Popping
    <3>2. ASSUME queue_pc[u] = "unlink", NEW n \in Listed' \ late', queue_next'[queue_cur[u]] = n
          PROVE  after[u] = n
      <4>1. queue_cur[u] \in queue_removal /\ queue_cur[u] \in Qu!Node
        BY <2>2, <3>1, <3>2 DEF TakerSays, Qu!TypeOK
      <4>2. CASE queue_cur[u] = queue_cur[t]
        BY <1>1, <1>6, <3>2, <4>1, <4>2
      <4>3. CASE queue_cur[u] # queue_cur[t]
        <5>1. queue_next[queue_cur[u]] = n /\ (n \in Listed \/ n = mine[t])
          BY <1>4, <1>6, <3>2, <4>1, <4>3
        <5>2. n \notin late
          BY <1>1, <3>2
        <5>3. ASSUME n = mine[t] PROVE FALSE
          <6>1. queue_next[queue_cur[u]] = mine[t] /\ mine[t] # Qu!Null
            BY <1>n, <1>2, <1>6, <3>2, <4>1, <4>3, <5>3
          <6>2. Earlier(queue_cur[u], mine[t])
            BY <1>0, <4>1, <6>1 DEF LinksSay
          <6> QED BY <1>0, <1>4, <6>2, EarlierOrder
        <5> QED BY <2>2, <3>1, <3>2, <5>1, <5>2, <5>3 DEF TakerSays
      <4> QED BY <4>2, <4>3
    <3> QED BY <1>1, <1>5, <1>7, <1>8, <1>11, <2>2, <3>1, <3>2 DEF TakerSays
  <2> QED BY <2>1, <2>2
<1>14. FollowSays'
  <2> SUFFICES ASSUME NEW n \in Listed' \ late', \A f \in Qu!Node : queue_next'[f] = n => f \in Gone
               PROVE  n \in Gone \cup {queue_next'[0]}
    BY <1>8 DEF FollowSays
  <2>1. n \in Qu!Node /\ n \notin late
    BY <1>n, <1>1, <1>2, <1>4
  <2>2. CASE n = mine[t]
    <3>1. CASE queue_cur[t] = 0
      BY <1>6, <2>2, <3>1
    <3>2. CASE queue_cur[t] # 0
      BY <1>0, <1>1, <1>6, <2>2, <3>2 DEF GoneSays
    <3> QED BY <3>1, <3>2
  <2>3. CASE n # mine[t]
    <3>1. \A f \in Qu!Node : queue_next[f] = n => f \in Gone
      BY <1>n, <1>1, <1>6, <2>1
    <3>2. n \in Gone \cup {queue_next[0]}
      BY <1>0, <1>4, <2>1, <2>3, <3>1 DEF FollowSays
    <3> QED BY <1>n, <1>11, <2>1, <3>2
  <2> QED BY <2>2, <2>3
<1>15. WholeSays'
  <2> SUFFICES ASSUME late' = {} PROVE WholeSays'
    BY DEF WholeSays
  <2>1. late = {} /\ queue_cur[t] \notin queue_removal
    BY <1>1
  <2>2. /\ NGone =< NLink /\ ListSays(NGone) /\ NGone \in Nat
        /\ \A i \in 1 .. NPop : queue_popped[i] = linked[i]
        /\ \A u \in Popper : Off(u) => mine[u] = linked[NPop + 1]
        /\ \A u \in Popper : queue_pc[u] = "unlink" =>
             after[u] = IF NPop + 1 < NLink THEN linked[NPop + 2] ELSE Qu!Null
    BY <1>0, <1>n, <2>1 DEF WholeSays, NGone
  <2>3. \A i \in 1 .. NGone : linked[i] \in queue_removal
    <3> SUFFICES ASSUME NEW i \in 1 .. NGone PROVE linked[i] \in Gone
      BY <1>0 DEF GoneSays
    <3>1. i \in 1 .. NLink /\ linked[i] \in Qu!Node
      BY <1>n, <2>2
    <3>2. CASE i \in 1 .. NPop
      BY <2>2, <3>1, <3>2 DEF Gone
    <3>3. CASE i \notin 1 .. NPop
      <4>1. i = NPop + 1 /\ \E u \in Popper : Off(u)
        BY <1>n, <3>3 DEF NGone
      <4> QED BY <2>2, <3>1, <4>1 DEF Gone
    <3> QED BY <3>2, <3>3
  <2>4. queue_cur[t] = ChainAt(NGone, NLink)
    <3>1. CASE queue_cur[t] = 0
      <4>1. ChainAt(NGone, NGone) = 0 /\ NGone \in NGone .. NLink
        BY <2>2 DEF ChainAt
      <4>2. NGone < NLink => NGone + 1 \in 1 .. NLink
        BY <1>n, <2>2
      <4> QED BY <1>n, <1>1, <2>2, <3>1, <4>1, <4>2 DEF ListSays
    <3>2. CASE queue_cur[t] # 0
      <4>1. PICK i \in 1 .. NLink : queue_cur[t] = linked[i]
        BY <1>2, <3>2 DEF Listed
      <4>2. i \in NGone .. NLink /\ i # NGone
        BY <1>n, <2>1, <2>2, <2>3, <4>1
      <4>3. ChainAt(NGone, i) = queue_cur[t] /\ (i < NLink => i + 1 \in 1 .. NLink)
        BY <1>n, <4>1, <4>2 DEF ChainAt
      <4> QED BY <1>n, <1>1, <2>2, <4>2, <4>3 DEF ListSays
    <3> QED BY <3>1, <3>2
  <2>5. ListSays(NGone)'
    <3>1. queue_next[mine[t]] = Qu!Null
      BY <1>0, <1>2, <1>4, EarlierOrder DEF LinksSay
    <3>2. \A i, j \in 1 .. NLink : linked[i] = linked[j] => i = j
      BY <1>0 DEF LinksSay
    <3>3. \A i \in NGone .. NLink + 1 :
            queue_next'[IF i = NGone THEN 0 ELSE linked'[i]]
              = IF i < NLink + 1 THEN linked'[i + 1] ELSE Qu!Null
      BY <1>0, <1>1, <1>2, <2>2, <2>4, <3>1, <3>2, ListGrows
    <3> QED BY <1>3, <1>8, <3>3 DEF ListSays, ChainAt
  <2>6. \A i \in 1 .. NPop : i \in 1 .. NLink
    BY <1>n, <2>2 DEF NGone
  <2>7. \A u \in Popper : Off(u) => NPop + 1 \in 1 .. NLink
    BY <1>n, <2>2 DEF NGone
  <2>8. ASSUME NEW u \in Popper, queue_pc[u] = "unlink"
        PROVE  after[u] = IF NPop + 1 < NLink + 1 THEN linked'[NPop + 2] ELSE Qu!Null
    <3>1. /\ Popping(u) /\ ~Off(u) /\ u \in Qu!Caller /\ queue_cur[u] \in queue_removal
          /\ queue_cur[u] = queue_next[0] /\ queue_next[0] # Qu!Null
      BY <1>0, <1>8, <2>8 DEF TakerSays, Popping, Off
    <3>2. NGone = NPop
      BY <1>0, <1>8, <3>1 DEF NGone, TakerSays, Off, Popping
    <3>3. NPop < NLink /\ queue_next[0] = linked[NPop + 1]
      <4>1. ChainAt(NPop, NPop) = 0 /\ NPop \in NPop .. NLink
        BY <1>n, <2>2, <3>2 DEF ChainAt
      <4> QED BY <2>2, <3>1, <3>2, <4>1 DEF ListSays
    <3>4. NLink # NPop + 1
      <4> SUFFICES ASSUME NLink = NPop + 1 PROVE FALSE
        OBVIOUS
      <4>1. queue_cur[t] = linked[NPop + 1]
        BY <1>n, <2>4, <3>2 DEF ChainAt
      <4> QED BY <2>1, <3>1, <3>3, <4>1
    <3>5. NPop + 1 < NLink /\ NPop + 2 \in 1 .. NLink
      BY <1>n, <3>3, <3>4
    <3> QED BY <1>3, <2>2, <2>8, <3>5, <1>n
  <2>9. \A u \in Popper : queue_pc'[u] = "unlink" => queue_pc[u] = "unlink"
    BY <1>1, <1>7, <1>8
  <2>10. NGone' =< NLink' /\ \A i \in 1 .. NPop' : queue_popped'[i] = linked'[i]
    <3>1. NGone' =< NLink'
      BY <1>n, <1>3, <1>8, <2>2
    <3>2. \A i \in 1 .. NPop : queue_popped'[i] = linked'[i]
      BY <1>1, <1>3, <2>2, <2>6
    <3> QED BY <1>3, <3>1, <3>2
  <2>11. \A u \in Popper : Off(u)' => mine'[u] = linked'[NPop' + 1]
    BY <1>1, <1>3, <1>7, <1>8, <2>2, <2>7
  <2>12. \A u \in Popper : queue_pc'[u] = "unlink" =>
           after'[u] = IF NPop' + 1 < NLink' THEN linked'[NPop' + 2] ELSE Qu!Null
    BY <1>1, <1>3, <2>8, <2>9
  <2> QED BY <2>5, <2>10, <2>11, <2>12 DEF WholeSays
<1> QED BY <1>9, <1>10, <1>12, <1>13, <1>14, <1>15 DEF OnePopInv


(* A pop leaves the pushes and what they have linked alone.                 *)
LEMMA PopsKeep ==
  ASSUME Qu!QueueAssumption, Qu!TypeOK, OnePopInv, NEW t \in Popper,
         Qu!try_pop(t) \/ Qu!PopStep(t)
  PROVE  /\ t \in Qu!Caller /\ Popper \subseteq Qu!Caller
         /\ UNCHANGED <<linked, NLink, Listed, late>> /\ queue_removal \subseteq queue_removal'
         /\ \A a, b : Earlier(a, b)' = Earlier(a, b)
         /\ \A u \in Qu!Caller : u # t =>
              UNCHANGED <<queue_pc[u], queue_cur[u], mine[u], after[u]>>
         /\ LinksSay' /\ \A u \in Qu!Caller : LinkerSays(u)'
<1>0. t \in Qu!Caller /\ LinksSay /\ \A u \in Qu!Caller : LinkerSays(u)
  BY DEF OnePopInv, Qu!Caller
<1>1. /\ UNCHANGED <<linked, queue_created, late>> /\ queue_removal \subseteq queue_removal'
      /\ \A n \in Qu!Node : queue_next'[n] = queue_next[n]
      /\ queue_tail' \in {0, queue_tail}
      /\ \A u \in Qu!Caller : u # t => UNCHANGED <<queue_pc[u], queue_cur[u], mine[u], after[u]>>
      /\ queue_pc[t] \notin {"load", "flag", "link", "tail"}
      /\ queue_pc'[t] \notin {"load", "flag", "link", "tail"}
  <2>1. 0 \notin Qu!Node
    BY QueueNumbers
  <2> QED BY <1>0, <2>1 DEF Qu!try_pop, Qu!PopStep, Qu!pop_mark, Qu!pop_next, Qu!pop_unlink,
      Qu!pop_retract, Qu!pop_take, Qu!Goto, Qu!TypeOK
<1>2. UNCHANGED <<NLink, Listed>> /\ \A a, b : Earlier(a, b)' = Earlier(a, b)
  BY <1>1 DEF NLink, Listed, Earlier
<1>3. LinksSay'
  BY <1>0, <1>1, <1>2 DEF LinksSay
<1>4. \A u \in Qu!Caller : (Fresh(u)' <=> Fresh(u)) /\ (Fresh(u) => mine'[u] = mine[u])
  BY <1>1 DEF Fresh
<1>5. ASSUME NEW u \in Qu!Caller PROVE LinkerSays(u)'
  <2>1. FreshSays(u)'
    BY <1>0, <1>1, <1>2, <1>4 DEF LinkerSays, FreshSays
  <2> QED BY <1>0, <1>1, <1>2, <2>1 DEF LinkerSays
<1> QED BY <1>0, <1>1, <1>2, <1>3, <1>5 DEF Qu!Caller

(* A pop begins with the node that the sentinel leads to.                   *)
LEMMA TakesNode ==
  ASSUME Qu!QueueAssumption, OnePop, Qu!TypeOK, OnePopInv, NEW t \in Popper, Qu!try_pop(t)
  PROVE  OnePopInv'
<1>0. /\ t \in Qu!Caller /\ Popper \subseteq Qu!Caller
      /\ \A u \in Qu!Caller : u # t =>
           UNCHANGED <<queue_pc[u], queue_cur[u], mine[u], after[u]>>
      /\ LinksSay' /\ \A u \in Qu!Caller : LinkerSays(u)'
  BY PopsKeep
<1>1. /\ UNCHANGED <<queue_next, linked, queue_popped, queue_removal, late, after>>
      /\ queue_pc'[t] = IF queue_next[0] = Qu!Null THEN "idle" ELSE "mark"
      /\ queue_cur'[t] = queue_next[0] /\ mine'[t] = queue_next[0]
  BY <1>0 DEF Qu!try_pop, Qu!Goto, Qu!TypeOK
<1>2. \A u \in Popper : queue_pc[u] = "idle"
  BY DEF Qu!try_pop, Qu!Idle
<1>3. \A u \in Popper : ~Off(u) /\ ~Off(u)' /\ ~Popping(u) /\ queue_pc'[u] # "unlink"
                        /\ (u # t => ~Popping(u)')
  BY <1>0, <1>1, <1>2 DEF Off, Popping
<1>4. GoneSays' /\ FollowSays' /\ WholeSays'
  BY <1>1, <1>3, PathStays
<1>5. ASSUME NEW u \in Qu!Caller PROVE TakerSays(u)'
  <2>1. CASE u = t
    BY <1>1, <1>3, <2>1 DEF TakerSays, Popping
  <2>2. CASE u # t
    <3>1. Popping(u)' => u \in Popper
      BY <1>0, <2>2 DEF OnePopInv, TakerSays, Popping
    <3> QED BY <1>3, <2>2, <3>1 DEF TakerSays
  <2> QED BY <2>1, <2>2
<1> QED BY <1>0, <1>4, <1>5 DEF OnePopInv

(* It marks the node, reads what is behind it and in the end takes it off   *)
(* the sentinel, the tail and the queue.                                    *)
LEMMA TakesOff ==
  ASSUME Qu!QueueAssumption, Qu!TypeOK, ListedInv, OnePopInv, NEW t \in Popper, Qu!PopStep(t)
  PROVE  OnePopInv'
<1>0. /\ t \in Qu!Caller /\ Popper \subseteq Qu!Caller
      /\ UNCHANGED <<linked, NLink, Listed, late>> /\ queue_removal \subseteq queue_removal'
      /\ \A a, b : Earlier(a, b)' = Earlier(a, b)
      /\ \A u \in Qu!Caller : u # t =>
           UNCHANGED <<queue_pc[u], queue_cur[u], mine[u], after[u]>>
      /\ LinksSay' /\ \A u \in Qu!Caller : LinkerSays(u)'
  BY PopsKeep
<1>n. /\ NLink \in Nat /\ NPop \in Nat /\ \A i \in 1 .. NLink : linked[i] \in Qu!Node
      /\ Qu!Null \notin Qu!Node /\ 0 \notin Qu!Node /\ Qu!Null # 0 /\ Listed \subseteq Qu!Node
  BY QueueNumbers DEF Listed
<1>i. LinksSay /\ TakerSays(t) /\ GoneSays /\ FollowSays /\ WholeSays
  BY <1>0 DEF OnePopInv
<1>1. Popping(t)
  BY DEF Qu!PopStep, Qu!pop_mark, Qu!pop_next, Qu!pop_unlink, Qu!pop_retract,
      Qu!pop_take, Qu!Goto, Popping
<1>2. \A u \in Qu!Caller : u # t => ~Popping(u) /\ ~Popping(u)' /\ TakerSays(u)'
  <2> SUFFICES ASSUME NEW u \in Qu!Caller, u # t PROVE ~Popping(u) /\ ~Popping(u)'
    BY DEF TakerSays
  <2>1. ~Popping(u)
    BY <1>i, <1>1 DEF OnePopInv, TakerSays
  <2> QED BY <1>0, <2>1 DEF Popping
<1>3. \A u \in Popper : u # t => ~Off(u) /\ ~Off(u)' /\ queue_pc'[u] # "unlink"
                                 /\ queue_pc[u] # "unlink"
  BY <1>0, <1>2 DEF Off, Popping
<1>4. /\ Gone = {n \in Qu!Node : (\E i \in 1 .. NPop : queue_popped[i] = n)
                                   \/ (Off(t) /\ mine[t] = n)}
      /\ Gone' = {n \in Qu!Node : (\E i \in 1 .. NPop' : queue_popped'[i] = n)
                                    \/ (Off(t) /\ mine[t] = n)'}
      /\ NGone = IF Off(t) THEN NPop + 1 ELSE NPop
      /\ NGone' = IF Off(t)' THEN NPop' + 1 ELSE NPop'
  BY <1>3 DEF Gone, NGone
<1>a. CASE Qu!pop_mark(t)
  <2>1. /\ UNCHANGED <<queue_next, queue_popped, queue_cur, mine, after>>
        /\ queue_pc[t] = "mark" /\ queue_pc'[t] = "next" /\ queue_cur[t] \in queue_removal'
    BY <1>0, <1>a DEF Qu!pop_mark, Qu!Goto, Qu!TypeOK
  <2>2. GoneSays' /\ FollowSays' /\ WholeSays'
    BY <1>0, <1>3, <2>1, PathStays DEF Off
  <2>3. TakerSays(t)'
    BY <1>0, <1>i, <1>1, <1>2, <2>1 DEF TakerSays, Off
  <2> QED BY <1>0, <1>2, <2>2, <2>3 DEF OnePopInv
<1>b. CASE Qu!pop_next(t)
  <2>1. /\ UNCHANGED <<queue_next, queue_popped, queue_removal, queue_cur, mine>>
        /\ queue_pc[t] = "next" /\ queue_pc'[t] = "unlink" /\ after'[t] = queue_next[queue_cur[t]]
    BY <1>0, <1>b DEF Qu!pop_next, Qu!Goto, Qu!TypeOK
  <2>2. /\ queue_cur[t] = queue_next[0] /\ mine[t] = queue_next[0] /\ queue_next[0] # Qu!Null
        /\ queue_cur[t] \in Qu!Node /\ queue_cur[t] \in queue_removal
    BY <1>n, <1>i, <1>1, <2>1 DEF TakerSays, Off, GoneSays
  <2>3. ASSUME late = {} PROVE after'[t] = IF NPop + 1 < NLink THEN linked[NPop + 2] ELSE Qu!Null
    <3>1. NGone = NPop /\ ListSays(NPop) /\ NPop =< NLink
      BY <1>i, <1>4, <2>1, <2>3 DEF WholeSays, Off
    <3>2. NPop < NLink /\ queue_next[0] = linked[NPop + 1]
      <4>1. ChainAt(NPop, NPop) = 0 /\ NPop \in NPop .. NLink
        BY <1>n, <3>1 DEF ChainAt
      <4> QED BY <2>2, <3>1, <4>1 DEF ListSays
    <3>3. ChainAt(NPop, NPop + 1) = queue_cur[t] /\ NPop + 1 \in NPop .. NLink
          /\ (NPop + 1) + 1 = NPop + 2
      BY <1>n, <2>2, <3>2 DEF ChainAt
    <3> QED BY <2>1, <3>1, <3>3 DEF ListSays
  <2>4. GoneSays' /\ FollowSays' /\ WholeSays'
    BY <1>0, <1>3, <2>1, <2>3, PathStays DEF Off
  <2>5. after'[t] # Qu!Null => Earlier(queue_cur[t], queue_next[queue_cur[t]])
    BY <1>i, <2>1, <2>2 DEF LinksSay
  <2>6. TakerSays(t)'
    <3>1. (after[t] # Qu!Null => Earlier(queue_cur[t], after[t]))'
      BY <1>0, <2>1, <2>5
    <3> QED BY <1>0, <1>2, <2>1, <2>2, <3>1 DEF TakerSays, Off
  <2> QED BY <1>0, <1>2, <2>4, <2>6 DEF OnePopInv
<1>c. CASE Qu!pop_unlink(t)
  <2>1. queue_pc[t] = "unlink"
    BY <1>c DEF Qu!pop_unlink, Qu!Goto
  <2>2. /\ queue_cur[t] = queue_next[0] /\ mine[t] = queue_next[0] /\ queue_next[0] # Qu!Null
        /\ queue_cur[t] \in Qu!Node /\ queue_cur[t] \in queue_removal /\ queue_cur[t] \in Listed
        /\ \A g \in Gone : Earlier(g, queue_cur[t])
        /\ after[t] # Qu!Null => Earlier(queue_cur[t], after[t])
        /\ \A n \in Listed \ late : queue_next[queue_cur[t]] = n => after[t] = n
    BY <1>n, <1>i, <1>1, <2>1 DEF TakerSays, Off, GoneSays
  <2>3. /\ UNCHANGED <<queue_popped, queue_removal, queue_cur, mine, after>> /\ NPop' = NPop
        /\ queue_next'[0] = after[t] /\ \A n \in Qu!Node : queue_next'[n] = queue_next[n]
        /\ queue_pc'[t] = "retract"
    BY <1>0, <1>n, <1>c, <2>2 DEF Qu!pop_unlink, Qu!Goto, NPop, Qu!TypeOK
  <2>4. ~Off(t) /\ Off(t)'
    BY <2>1, <2>3 DEF Off
  <2>5. Gone' = Gone \cup {queue_cur[t]}
    BY <1>4, <2>2, <2>3, <2>4
  <2>6. \A i \in 1 .. NPop : queue_popped[i] \in Gone
    <3>1. \A i \in 1 .. NPop : queue_popped[i] \in Qu!Node
      BY QueueNumbers DEF Qu!TypeOK
    <3> QED BY <1>4, <3>1
  <2>7. GoneSays'
    <3>1. ASSUME after[t] # Qu!Null
          PROVE  after[t] \in Listed /\ \A g \in Gone \cup {queue_cur[t]} : Earlier(g, after[t])
      <4>1. Earlier(queue_cur[t], after[t])
        BY <2>2, <3>1
      <4> QED BY <1>i, <2>2, <4>1, EarlierOrder
    <3>2. \A i \in 1 .. NPop : Earlier(queue_popped[i], mine[t])
      BY <2>2, <2>6
    <3> QED BY <1>0, <1>3, <1>i, <2>2, <2>3, <2>5, <3>1, <3>2 DEF GoneSays
  <2>8. FollowSays'
    <3> SUFFICES ASSUME NEW n \in Listed \ late,
                        \A f \in Qu!Node : queue_next[f] = n => f \in Gone \cup {queue_cur[t]}
                 PROVE  n \in Gone \cup {queue_cur[t], after[t]}
      BY <1>0, <2>3, <2>5 DEF FollowSays
    <3>1. CASE queue_next[queue_cur[t]] = n
      BY <2>2, <3>1
    <3>2. CASE queue_next[queue_cur[t]] # n
      BY <1>i, <2>2, <3>2 DEF FollowSays
    <3> QED BY <3>1, <3>2
  <2>9. WholeSays'
    <3> SUFFICES ASSUME late = {} PROVE WholeSays'
      BY <1>0 DEF WholeSays
    <3>1. /\ NGone = NPop /\ NGone' = NPop + 1 /\ ListSays(NPop) /\ NPop =< NLink
          /\ \A i \in 1 .. NPop : queue_popped[i] = linked[i]
          /\ after[t] = IF NPop + 1 < NLink THEN linked[NPop + 2] ELSE Qu!Null
      BY <1>4, <1>i, <2>1, <2>3, <2>4 DEF WholeSays
    <3>2. NPop < NLink /\ queue_cur[t] = linked[NPop + 1]
      <4>1. ChainAt(NPop, NPop) = 0 /\ NPop \in NPop .. NLink
        BY <1>n, <3>1 DEF ChainAt
      <4> QED BY <2>2, <3>1, <4>1 DEF ListSays
    <3>3. \A i \in NPop + 1 .. NLink :
            queue_next'[IF i = NPop + 1 THEN 0 ELSE linked[i]]
              = IF i < NLink THEN linked[i + 1] ELSE Qu!Null
      <4> SUFFICES ASSUME NEW i \in NPop + 1 .. NLink
                   PROVE  queue_next'[IF i = NPop + 1 THEN 0 ELSE linked[i]]
                            = IF i < NLink THEN linked[i + 1] ELSE Qu!Null
        OBVIOUS
      <4>1. CASE i = NPop + 1
        <5>1. (NPop + 1) + 1 = NPop + 2
          BY <1>n
        <5> QED BY <2>3, <3>1, <4>1, <5>1
      <4>2. CASE i # NPop + 1
        <5>1. i \in NPop .. NLink /\ i # NPop /\ i \in 1 .. NLink
          BY <1>n
        <5>2. queue_next[linked[i]] = IF i < NLink THEN linked[i + 1] ELSE Qu!Null
          BY <3>1, <5>1 DEF ListSays, ChainAt
        <5> QED BY <1>n, <2>3, <4>2, <5>1, <5>2
      <4> QED BY <4>1, <4>2
    <3>4. ListSays(NGone)'
      BY <1>0, <3>1, <3>3 DEF ListSays, ChainAt
    <3>5. NPop + 1 =< NLink
      BY <1>n, <3>2
    <3> QED BY <1>0, <1>3, <2>2, <2>3, <3>1, <3>2, <3>4, <3>5 DEF WholeSays
  <2>10. TakerSays(t)'
    BY <1>0, <1>2, <2>3, <2>4 DEF TakerSays
  <2> QED BY <1>0, <1>2, <2>7, <2>8, <2>9, <2>10 DEF OnePopInv
<1>d. CASE Qu!pop_retract(t)
  <2>1. /\ UNCHANGED <<queue_next, queue_popped, queue_removal, queue_cur, mine, after>>
        /\ queue_pc[t] = "retract" /\ queue_pc'[t] = "take"
    BY <1>0, <1>d DEF Qu!pop_retract, Qu!Goto, Qu!TypeOK
  <2>2. GoneSays' /\ FollowSays' /\ WholeSays'
    BY <1>0, <1>3, <2>1, PathStays DEF Off
  <2>3. TakerSays(t)'
    BY <1>0, <1>2, <2>1 DEF TakerSays, Off
  <2> QED BY <1>0, <1>2, <2>2, <2>3 DEF OnePopInv
<1>e. CASE Qu!pop_take(t)
  <2>1. /\ UNCHANGED <<queue_next, queue_removal, queue_cur, mine, after>>
        /\ queue_pc[t] = "take" /\ queue_pc'[t] = "idle"
        /\ queue_popped' = Append(queue_popped, mine[t])
    BY <1>0, <1>e DEF Qu!pop_take, Qu!Goto, Qu!TypeOK
  <2>2. Off(t) /\ ~Off(t)' /\ ~Popping(t)'
    BY <2>1 DEF Off, Popping
  <2>3. mine[t] \in Qu!Node /\ mine[t] \in Gone
    <3>1. mine[t] \in Qu!Node
      BY <1>0, <1>n, <1>1 DEF ListedInv, ListedAt
    <3> QED BY <1>4, <2>2, <3>1
  <2>4. /\ NPop' = NPop + 1 /\ queue_popped'[NPop + 1] = mine[t]
        /\ \A i \in 1 .. NPop : queue_popped'[i] = queue_popped[i] /\ i \in 1 .. NPop + 1
        /\ NPop + 1 \in 1 .. NPop + 1 /\ \A i \in 1 .. NPop + 1 : i \in 1 .. NPop \/ i = NPop + 1
    BY <1>n, <2>1, <2>3 DEF NPop, Qu!TypeOK
  <2>5. Gone' = Gone /\ NGone' = NGone
    BY <1>4, <2>2, <2>4
  <2>6. GoneSays'
    <3>1. \A i, j \in 1 .. NPop + 1 : i < j => Earlier(queue_popped'[i], queue_popped'[j])
      <4> SUFFICES ASSUME NEW i \in 1 .. NPop + 1, NEW j \in 1 .. NPop + 1, i < j
                   PROVE  Earlier(queue_popped'[i], queue_popped'[j])
        OBVIOUS
      <4>1. i \in 1 .. NPop
        BY <1>n
      <4> QED BY <1>i, <2>2, <2>4, <4>1 DEF GoneSays
    <3> QED BY <1>0, <1>3, <1>i, <2>1, <2>2, <2>4, <2>5, <3>1 DEF GoneSays
  <2>7. FollowSays'
    BY <1>0, <1>i, <2>1, <2>5 DEF FollowSays
  <2>8. WholeSays'
    <3> SUFFICES ASSUME late = {} PROVE WholeSays'
      BY <1>0 DEF WholeSays
    <3>1. ListSays(NGone)'
      BY <1>0, <1>i, <2>1, <2>5 DEF WholeSays, ListSays, ChainAt
    <3>2. \A i \in 1 .. NPop + 1 : queue_popped'[i] = linked[i]
      BY <1>i, <2>2, <2>4 DEF WholeSays
    <3> QED BY <1>0, <1>3, <1>i, <2>1, <2>2, <2>4, <2>5, <3>1, <3>2 DEF WholeSays
  <2>9. TakerSays(t)'
    BY <2>2 DEF TakerSays
  <2> QED BY <1>0, <1>2, <2>6, <2>7, <2>8, <2>9 DEF OnePopInv
<1> QED BY <1>a, <1>b, <1>c, <1>d, <1>e DEF Qu!PopStep


(* The list of the constructor, and every step while pops run one at a      *)
(* time.                                                                    *)
QueueInv == ListedInv /\ OnePopInv /\ (~beside => ApartInv)

LEMMA QueueBegins ==
  ASSUME Qu!QueueAssumption, Qu!Init PROVE QueueInv
<1>1. ListedInv /\ ApartInv
  BY QueueInit
<1>2. /\ linked = <<>> /\ queue_popped = <<>> /\ NLink = 0 /\ NPop = 0 /\ Listed = {}
      /\ queue_tail = 0 /\ \A n \in {0} \cup Qu!Node : queue_next[n] = Qu!Null
      /\ \A t \in Qu!Caller : queue_pc[t] = "idle"
  BY DEF Qu!Init, NLink, NPop, Listed
<1>3. LinksSay
  <2>1. 1 .. NLink = {}
    BY <1>2
  <2> QED BY <1>2, <2>1 DEF LinksSay
<1>4. \A t \in Qu!Caller : LinkerSays(t) /\ TakerSays(t) /\ ~Off(t)
  BY <1>2 DEF LinkerSays, FreshSays, Fresh, TakerSays, Popping, Off
<1>5. Gone = {} /\ NGone = 0 /\ \A t \in Popper : queue_pc[t] = "idle" /\ ~Off(t)
  BY <1>2, <1>4 DEF Gone, NGone, Qu!Caller
<1>6. GoneSays /\ FollowSays
  BY <1>2, <1>5 DEF GoneSays, FollowSays
<1>7. WholeSays
  BY <1>2, <1>5 DEF WholeSays, ListSays, ChainAt
<1> QED BY <1>1, <1>3, <1>4, <1>6, <1>7 DEF QueueInv, OnePopInv

LEMMA QueueStep ==
  ASSUME Qu!QueueAssumption, OnePop, QueueInv, [Qu!Next]_Qu!vars PROVE QueueInv'
<1>0. ListedInv /\ OnePopInv /\ Qu!TypeOK
  BY DEF QueueInv, ListedInv
<1>1. ListedInv'
  BY <1>0, ListedStep
<1>2. OnePopInv'
  <2>1. CASE UNCHANGED Qu!vars
    <3>1. /\ UNCHANGED <<queue_next, linked, queue_popped, queue_removal, late, after,
                         queue_tail, queue_created, queue_pc, queue_cur, mine>>
      BY <2>1 DEF Qu!vars
    <3>2. /\ UNCHANGED <<NLink, NPop, Listed>> /\ \A a, b : Earlier(a, b)' = Earlier(a, b)
          /\ GoneSays' /\ FollowSays' /\ WholeSays' /\ \A t \in Qu!Caller : TakerSays(t)'
      BY <1>0, <3>1, PathStays DEF Off, Popping
    <3>3. LinksSay' /\ \A t \in Qu!Caller : LinkerSays(t)'
      BY <1>0, <3>1, <3>2 DEF OnePopInv, LinksSay, LinkerSays, FreshSays, Fresh
    <3> QED BY <3>2, <3>3 DEF OnePopInv
  <2>2. ASSUME NEW t \in Pusher, Qu!push(t) \/ Qu!PushStep(t) PROVE OnePopInv'
    BY <1>0, <2>2, PushesAround, PushLinks DEF Qu!PushStep
  <2>3. ASSUME NEW t \in Popper, Qu!try_pop(t) \/ Qu!PopStep(t) PROVE OnePopInv'
    BY <1>0, <2>3, TakesNode, TakesOff
  <2> QED BY <2>1, <2>2, <2>3 DEF Qu!Next
<1>3. ASSUME ~beside' PROVE ApartInv'
  <2>1. ~beside
    BY <1>0, <1>3 DEF Qu!TypeOK, Qu!Next, Qu!vars, Qu!push, Qu!PushStep, Qu!push_load,
        Qu!push_flag, Qu!push_link, Qu!push_tail, Qu!try_pop, Qu!PopStep, Qu!pop_mark,
        Qu!pop_next, Qu!pop_unlink, Qu!pop_retract, Qu!pop_take
  <2> QED BY <1>0, <1>3, <2>1, ApartStep DEF QueueInv
<1> QED BY <1>1, <1>2, <1>3 DEF QueueInv

(* The specification's chain is the sentinel and the places behind the pops. *)
LEMMA ChainListed ==
  ASSUME Qu!QueueAssumption, Qu!TypeOK, NPop =< NLink
  PROVE  /\ Len(Qu!Chain) = NLink - NPop + 1 /\ Qu!Last(Qu!Chain) = Qu!Chain[Len(Qu!Chain)]
         /\ \A j \in 0 .. NLink - NPop : Qu!Chain[j + 1] = ChainAt(NPop, NPop + j)
<1>n. NLink \in Nat /\ NPop \in Nat
  BY QueueNumbers
<1>1. linked \in Seq(Qu!Node) /\ <<0>> \in Seq({0} \cup Qu!Node)
  BY DEF Qu!TypeOK
<1>2. /\ Qu!Rest \in Seq(Qu!Node) /\ Len(Qu!Rest) = NLink - NPop
      /\ \A i \in 1 .. NLink - NPop : Qu!Rest[i] = linked[NPop + i]
  <2>1. NPop + 1 \in Nat /\ NPop + 1 \in 1 .. NLink + 1
    BY <1>n
  <2>2. /\ SubSeq(linked, NPop + 1, NLink) \in Seq(Qu!Node)
        /\ Len(SubSeq(linked, NPop + 1, NLink))
             = IF NPop + 1 =< NLink THEN NLink - (NPop + 1) + 1 ELSE 0
        /\ \A i \in 1 .. NLink - (NPop + 1) + 1 :
             SubSeq(linked, NPop + 1, NLink)[i] = linked[(NPop + 1) + i - 1]
    BY <1>n, <1>1, <2>1, SubSeqProperties DEF NLink
  <2>3. \A i \in 1 .. NLink - NPop : (NPop + 1) + i - 1 = NPop + i
    BY <1>n
  <2>4. NLink - (NPop + 1) + 1 = NLink - NPop
    BY <1>n
  <2>5. Qu!Rest = SubSeq(linked, NPop + 1, NLink)
    BY DEF Qu!Rest, NLink, NPop
  <2> QED BY <1>n, <2>2, <2>3, <2>4, <2>5
<1>3. Qu!Rest \in Seq({0} \cup Qu!Node)
  BY <1>2
<1> HIDE DEF Qu!Rest
<1>4. Len(<<0>>) = 1 /\ <<0>>[1] = 0
  OBVIOUS
<1>5. /\ Len(Qu!Chain) = 1 + Len(Qu!Rest)
      /\ \A i \in 1 .. 1 + Len(Qu!Rest) :
           Qu!Chain[i] = IF i =< 1 THEN <<0>>[i] ELSE Qu!Rest[i - 1]
  BY <1>1, <1>3, <1>4, ConcatProperties DEF Qu!Chain
<1>6. ASSUME NEW j \in 0 .. NLink - NPop PROVE Qu!Chain[j + 1] = ChainAt(NPop, NPop + j)
  <2>1. j + 1 \in 1 .. 1 + Len(Qu!Rest) /\ (j + 1) - 1 = j
    BY <1>n, <1>2
  <2>2. CASE j = 0
    BY <1>n, <1>4, <1>5, <2>1, <2>2 DEF ChainAt
  <2>3. CASE j # 0
    <3>1. j \in 1 .. NLink - NPop /\ NPop + j # NPop /\ ~(j + 1 =< 1)
      BY <1>n, <2>3
    <3> QED BY <1>2, <1>5, <2>1, <3>1 DEF ChainAt
  <2> QED BY <2>2, <2>3
<1> QED BY <1>n, <1>2, <1>5, <1>6 DEF Qu!Last

(* While pops run one at a time, whatever pushes run beside them, they      *)
(* return nodes in the order of their linking, none twice, and skip none    *)
(* but what a push linked behind a marked node; without such a push the     *)
(* list is whole, and while none has run beside a pop the tail is the last  *)
(* node and no destroyed node is used (push, try_pop).                      *)
THEOREM QueueInOrder ==
  ASSUME Qu!QueueAssumption, OnePop PROVE Qu!Spec => []Qu!QueueOrder
<1>1. Qu!Init => QueueInv
  BY QueueBegins
<1>2. QueueInv /\ [Qu!Next]_Qu!vars => QueueInv'
  BY QueueStep
<1>3. QueueInv => Qu!QueueOrder
  <2> SUFFICES ASSUME QueueInv PROVE Qu!QueueOrder
    OBVIOUS
  <2>0. /\ Qu!TypeOK /\ LinksSay /\ GoneSays /\ FollowSays /\ WholeSays
        /\ \A t \in Qu!Caller : TakerSays(t)
    BY DEF QueueInv, ListedInv, OnePopInv
  <2>n. /\ NLink \in Nat /\ NPop \in Nat /\ \A i \in 1 .. NLink : linked[i] \in Qu!Node
        /\ Qu!Null \notin Qu!Node /\ 0 \notin Qu!Node /\ Qu!Null # 0
        /\ DOMAIN linked = 1 .. NLink /\ DOMAIN queue_popped = 1 .. NPop
        /\ \A i \in 1 .. NPop : queue_popped[i] \in Qu!Node
    BY <2>0, QueueNumbers DEF Qu!TypeOK
  <2>1. Qu!InOrder
    <3> SUFFICES ASSUME NEW i \in 1 .. NPop, NEW j \in 1 .. NPop, i < j
                 PROVE  Qu!Place(queue_popped[i]) < Qu!Place(queue_popped[j])
      BY <2>n DEF Qu!InOrder
    <3>1. PICK k, l \in 1 .. NLink : k < l /\ linked[k] = queue_popped[i] /\ linked[l] = queue_popped[j]
      BY <2>0 DEF GoneSays, Earlier
    <3>2. Qu!Place(queue_popped[i]) = k /\ Qu!Place(queue_popped[j]) = l
      BY <2>0, <2>n, <3>1 DEF Qu!Place, LinksSay
    <3> QED BY <3>1, <3>2
  <2>2. ASSUME Qu!Idle(Popper) PROVE Gone = Qu!Popped /\ NGone = NPop
    <3>1. \A t \in Popper : ~Off(t)
      BY <2>2 DEF Qu!Idle, Off
    <3> QED BY <2>n, <3>1 DEF Gone, NGone, Qu!Popped
  <2>3. Qu!Follows
    <3>1. Qu!Linked = Listed
      BY <2>n DEF Qu!Linked, Listed
    <3> QED BY <2>0, <2>2, <3>1 DEF Qu!Follows, FollowSays
  <2>4. ASSUME NPop =< NLink
        PROVE  /\ Len(Qu!Chain) = NLink - NPop + 1 /\ Qu!Last(Qu!Chain) = Qu!Chain[Len(Qu!Chain)]
               /\ \A j \in 0 .. NLink - NPop : Qu!Chain[j + 1] = ChainAt(NPop, NPop + j)
    BY <2>0, <2>4, ChainListed
  <2>5. Qu!NothingLost
    <3> SUFFICES ASSUME late = {} 
                 PROVE  /\ Qu!Fifo
                        /\ Qu!Idle(Popper) => \A i \in 1 .. Len(Qu!Chain) :
                             queue_next[Qu!Chain[i]] = IF i < Len(Qu!Chain) THEN Qu!Chain[i + 1] ELSE Qu!Null
      BY DEF Qu!NothingLost
    <3>1. /\ NPop =< NLink /\ \A i \in 1 .. NPop : queue_popped[i] = linked[i]
          /\ ListSays(NGone)
      BY <2>0, <2>n DEF WholeSays, NGone
    <3>2. Qu!Fifo
      BY <2>n, <3>1 DEF Qu!Fifo, Qu!IsPrefix, NPop, NLink
    <3>3. ASSUME Qu!Idle(Popper), NEW i \in 1 .. Len(Qu!Chain)
          PROVE  queue_next[Qu!Chain[i]] = IF i < Len(Qu!Chain) THEN Qu!Chain[i + 1] ELSE Qu!Null
      <4>1. PICK j \in 0 .. NLink - NPop : i = j + 1
        <5>1. i - 1 \in 0 .. NLink - NPop /\ i = (i - 1) + 1
          BY <2>n, <2>4, <3>1
        <5> QED BY <5>1
      <4>2. /\ NPop + j \in NPop .. NLink /\ ListSays(NPop)
            /\ i < Len(Qu!Chain) <=> NPop + j < NLink
            /\ i < Len(Qu!Chain) => j + 1 \in 0 .. NLink - NPop /\ NPop + (j + 1) # NPop
            /\ NPop + (j + 1) = (NPop + j) + 1
        BY <2>n, <2>2, <2>4, <3>1, <3>3, <4>1
      <4>3. queue_next[Qu!Chain[i]] = IF NPop + j < NLink THEN linked[(NPop + j) + 1] ELSE Qu!Null
        <5>1. Qu!Chain[i] = ChainAt(NPop, NPop + j)
          BY <2>4, <3>1, <4>1
        <5> QED BY <4>2, <5>1 DEF ListSays
      <4>4. i < Len(Qu!Chain) => Qu!Chain[i + 1] = linked[(NPop + j) + 1]
        <5> SUFFICES ASSUME i < Len(Qu!Chain) PROVE Qu!Chain[i + 1] = linked[(NPop + j) + 1]
          OBVIOUS
        <5>1. Qu!Chain[(j + 1) + 1] = ChainAt(NPop, NPop + (j + 1))
          BY <2>4, <3>1, <4>2
        <5> QED BY <4>1, <4>2, <5>1 DEF ChainAt
      <4> QED BY <4>2, <4>3, <4>4
    <3> QED BY <3>2, <3>3
  <2>6. Qu!TailRight
    <3> SUFFICES ASSUME ~beside
                 PROVE  ~dangling /\ (Qu!Idle(Qu!Caller) => queue_tail = Qu!Last(Qu!Chain))
      BY DEF Qu!TailRight
    <3>1. SeqSays /\ QuietSays
      BY DEF QueueInv, ApartInv
    <3>2. ASSUME Qu!Idle(Qu!Caller) PROVE queue_tail = Qu!Last(Qu!Chain)
      <4>1. queue_tail = ChainAt(NPop, NLink) /\ NPop =< NLink
        BY <3>1, <3>2 DEF QuietSays, SeqSays, Qu!Idle, Popping
      <4>2. NLink - NPop \in 0 .. NLink - NPop /\ NPop + (NLink - NPop) = NLink
        BY <2>n, <4>1
      <4> QED BY <2>4, <4>1, <4>2
    <3> QED BY <3>1, <3>2 DEF SeqSays
  <2> QED BY <2>1, <2>3, <2>5, <2>6 DEF Qu!QueueOrder
<1> QED BY <1>1, <1>2, <1>3, PTL DEF Qu!Spec

-----------------------------------------------------------------------------
(* Who is under the lock, and by how much m_size is behind there.           *)
HoldPc == {"push_size", "push_unlock", "swap", "pop_size", "pop_unlock", "wait_unlock"}

Behind ==
  IF m_lock \in Worker /\ locked_pc[m_lock] = "push_size" THEN 1
  ELSE IF m_lock \in Worker /\ locked_pc[m_lock] \in {"swap", "pop_size"} THEN -1 ELSE 0

LockSays ==
  /\ locked_data \in Seq(Item) /\ locked_size \in Int
  /\ m_lock \in Worker \cup {nil}
  /\ locked_pc \in [Worker -> {"idle", "push", "push_size", "push_unlock", "try", "wait",
                        "wait_lock", "swap", "pop_size", "pop_unlock", "wait_unlock"}]
  /\ arg \in [Worker -> Item \cup {nil}]
  /\ got \in [Worker -> SUBSET Item]
  /\ locked_pushed \subseteq Item
  /\ \A t \in Worker : m_lock = t <=> locked_pc[t] \in HoldPc
  /\ \A t \in Worker : locked_pc[t] = "push" <=> arg[t] # nil
  /\ Len(locked_data) = locked_size + Behind

(* The places of an item, one by one.                                       *)
Pushing(x) == \E t \in Worker : arg[t] = x
Kept(x)    == \E i \in 1 .. Len(locked_data) : locked_data[i] = x
Given(x)   == \E t \in Worker : x \in got[t]

OnceSays ==
  \A x \in Item :
    /\ x \in locked_pushed <=> Pushing(x) \/ Kept(x) \/ Given(x)
    /\ Pushing(x) => ~Kept(x) /\ ~Given(x)
    /\ Kept(x) => ~Given(x)
    /\ \A t, u \in Worker : arg[t] = x /\ arg[u] = x => t = u
    /\ \A t, u \in Worker : x \in got[t] /\ x \in got[u] => t = u
    /\ \A i, j \in 1 .. Len(locked_data) : locked_data[i] = x /\ locked_data[j] = x => i = j

LockedInv == LockSays /\ OnceSays

-----------------------------------------------------------------------------
(* The container starts unlocked, empty and with nothing pushed. *)
LEMMA LockedInit == ASSUME Lc!LockedContainerAssumption, Lc!Init PROVE LockedInv
<1>1. locked_data = <<>> /\ Len(locked_data) = 0 /\ locked_data \in Seq(Item)
  BY DEF Lc!Init
<1>2. LockSays
  BY <1>1 DEF Lc!LockedContainerAssumption, Lc!Init, LockSays, HoldPc, Behind
<1>3. OnceSays
  BY <1>1 DEF Lc!LockedContainerAssumption, Lc!Init, OnceSays, Pushing, Kept, Given
<1> QED BY <1>2, <1>3 DEF LockedInv

(* Nothing moves.                                                           *)
LEMMA ItemsStay ==
  ASSUME OnceSays, UNCHANGED <<locked_data, arg, got, locked_pushed>> PROVE OnceSays'
BY DEF OnceSays, Pushing, Kept, Given

(* Every step of every thread keeps the lock exclusive and each value in one place. *)
LEMMA LockedStep ==
  ASSUME Lc!LockedContainerAssumption, LockedInv, [Lc!Next]_Lc!vars PROVE LockedInv'
<1>0. LockSays /\ OnceSays /\ nil \notin Worker /\ nil \notin Item
  BY DEF LockedInv, Lc!LockedContainerAssumption
<1>1. ASSUME NEW t \in Worker, Lc!push(t) PROVE LockedInv'
  <2>1. PICK y \in Item \ locked_pushed : arg' = [arg EXCEPT ![t] = y] /\ locked_pushed' = locked_pushed \cup {y}
    BY <1>1 DEF Lc!push
  <2>2. UNCHANGED <<locked_data, locked_size, m_lock, got>> /\ locked_pc[t] = "idle"
        /\ locked_pc' = [locked_pc EXCEPT ![t] = "push"]
    BY <1>1 DEF Lc!push, Lc!Call, Lc!Goto
  <2>3. LockSays'
    BY <1>0, <2>1, <2>2 DEF LockSays, HoldPc, Behind
  <2>4. OnceSays'
    BY <1>0, <2>1, <2>2 DEF LockSays, OnceSays, Pushing, Kept, Given
  <2> QED BY <2>3, <2>4 DEF LockedInv
<1>2. ASSUME NEW t \in Worker, Lc!push_data(t) PROVE LockedInv'
  <2> DEFINE n == Len(locked_data)
  <2>y. PICK y : y = arg[t]
    OBVIOUS
  <2>1. /\ locked_pc[t] = "push" /\ locked_pc' = [locked_pc EXCEPT ![t] = "push_size"] /\ m_lock = nil /\ m_lock' = t
        /\ locked_data' = Append(locked_data, y) /\ arg' = [arg EXCEPT ![t] = nil]
        /\ UNCHANGED <<locked_size, got, locked_pushed>>
    BY <1>2, <2>y DEF Lc!push_data, Lc!Goto, Lc!lock
  <2>2. y \in Item /\ n \in Nat
    BY <1>0, <2>1, <2>y DEF LockSays
  <2>3. /\ locked_data' \in Seq(Item) /\ Len(locked_data') = n + 1 /\ locked_data'[n + 1] = y
        /\ \A i \in 1 .. n : locked_data'[i] = locked_data[i]
    BY <1>0, <2>1, <2>2 DEF LockSays
  <2>4. LockSays'
    <3>1. Behind = 0 /\ Behind' = 1
      BY <1>0, <2>1 DEF LockSays, Behind
    <3> QED BY <1>0, <2>1, <2>2, <2>3, <3>1 DEF LockSays, HoldPc
  <2>5. ASSUME NEW x \in Item, x # y
        PROVE  /\ Pushing(x)' <=> Pushing(x)
               /\ Kept(x)' <=> Kept(x)
    <3>1. Pushing(x)' <=> Pushing(x)
      BY <1>0, <2>1, <2>5, <2>y DEF LockSays, Pushing
    <3>2. Kept(x)' <=> Kept(x)
      BY <2>2, <2>3, <2>5 DEF Kept
    <3> QED BY <3>1, <3>2
  <2>6. ~Pushing(y)' /\ Pushing(y) /\ Kept(y)'
    <3>1. ~Pushing(y)'
      BY <1>0, <2>1, <2>2, <2>y DEF LockSays, OnceSays, Pushing
    <3>2. Pushing(y)
      BY <2>y DEF Pushing
    <3>3. Kept(y)'
      BY <2>2, <2>3 DEF Kept
    <3> QED BY <3>1, <3>2, <3>3
  <2>7. \A x \in Item : \A i, j \in 1 .. n + 1 : locked_data'[i] = x /\ locked_data'[j] = x => i = j
    <3>1. ~Kept(y)
      BY <1>0, <2>2, <2>6 DEF OnceSays
    <3> QED BY <1>0, <2>2, <2>3, <3>1 DEF OnceSays, Kept
  <2>8. \A x \in Item : \A a, b \in Worker : arg'[a] = x /\ arg'[b] = x => a = b
    BY <1>0, <2>1 DEF LockSays, OnceSays
  <2>9. \A x \in Item : Given(x)' <=> Given(x)
    BY <2>1 DEF Given
  <2>10. OnceSays'
    <3> SUFFICES ASSUME NEW x \in Item
                 PROVE  /\ x \in locked_pushed <=> Pushing(x)' \/ Kept(x)' \/ Given(x)
                        /\ Pushing(x)' => ~Kept(x)' /\ ~Given(x)
                        /\ Kept(x)' => ~Given(x)
      BY <1>0, <2>1, <2>3, <2>7, <2>8, <2>9 DEF OnceSays
    <3>1. CASE x = y
      <4>1. y \in locked_pushed /\ ~Given(y)
        BY <1>0, <2>2, <2>6 DEF OnceSays
      <4> QED BY <2>6, <3>1, <4>1
    <3>2. CASE x # y
      BY <1>0, <2>5, <3>2 DEF OnceSays
    <3> QED BY <3>1, <3>2
  <2> QED BY <2>4, <2>10 DEF LockedInv
<1>3. ASSUME NEW t \in Worker, NEW from \in {"try", "wait_lock"}, Lc!pop_data(t, from)
      PROVE  LockedInv'
  <2> DEFINE n == Len(locked_data)
  <2>y. PICK y : y = locked_data[n]
    OBVIOUS
  <2>1. /\ locked_pc[t] = from /\ locked_pc' = [locked_pc EXCEPT ![t] = "swap"] /\ m_lock = nil /\ m_lock' = t
        /\ locked_data # <<>> /\ locked_data' = SubSeq(locked_data, 1, n - 1)
        /\ got' = [got EXCEPT ![t] = got[t] \cup {y}]
        /\ UNCHANGED <<locked_size, arg, locked_pushed>>
    BY <1>0, <1>3, <2>y DEF Lc!pop_data, Lc!Goto, Lc!lock, Lc!Last, Lc!Front, LockSays
  <2>2. n \in Nat /\ n > 0 /\ y \in Item /\ locked_data \in Seq(Item)
    BY <1>0, <2>1, <2>y DEF LockSays
  <2>3. /\ locked_data' \in Seq(Item) /\ Len(locked_data') = n - 1
        /\ \A i \in 1 .. n - 1 : locked_data'[i] = locked_data[i]
    <3>1. \A i \in 1 .. n - 1 : locked_data[i] \in Item
      BY <2>2
    <3>2. n - 1 \in Int /\ 1 \in Int /\ n - 1 >= 0
      BY <2>2
    <3> HIDE DEF n
    <3>3. /\ SubSeq(locked_data, 1, n - 1) \in Seq(Item)
          /\ Len(SubSeq(locked_data, 1, n - 1)) = IF 1 =< n - 1 THEN n - 1 - 1 + 1 ELSE 0
          /\ \A i \in 1 .. n - 1 - 1 + 1 : SubSeq(locked_data, 1, n - 1)[i] = locked_data[1 + i - 1]
      BY <3>1, <3>2, SubSeqProperties
    <3> QED BY <2>1, <3>2, <3>3
  <2>4. LockSays'
    <3>1. Behind = 0 /\ Behind' = -1
      BY <1>0, <2>1 DEF LockSays, Behind
    <3> QED BY <1>0, <2>1, <2>2, <2>3, <3>1 DEF LockSays, HoldPc
  <2>5. ASSUME NEW x \in Item, x # y
        PROVE  (Kept(x)' <=> Kept(x)) /\ (Given(x)' <=> Given(x))
    <3>1. Kept(x)' <=> Kept(x)
      BY <2>2, <2>3, <2>5, <2>y DEF Kept
    <3>2. Given(x)' <=> Given(x)
      BY <1>0, <2>1, <2>5 DEF LockSays, Given
    <3> QED BY <3>1, <3>2
  <2>6. Kept(y) /\ ~Kept(y)' /\ Given(y)'
    <3>1. Kept(y)
      BY <2>2, <2>y DEF Kept
    <3>2. ~Kept(y)'
      <4> SUFFICES ASSUME NEW i \in 1 .. n - 1, locked_data'[i] = y PROVE FALSE
        BY <2>3 DEF Kept
      <4>1. i \in 1 .. n /\ n \in 1 .. n /\ locked_data[i] = y /\ i # n
        BY <2>2, <2>3
      <4> QED BY <1>0, <2>2, <2>y, <4>1 DEF OnceSays
    <3>3. Given(y)'
      <4>1. y \in got'[t]
        BY <1>0, <2>1 DEF LockSays
      <4> QED BY <4>1 DEF Given
    <3> QED BY <3>1, <3>2, <3>3
  <2>7. \A x \in Item : \A a, b \in Worker : x \in got'[a] /\ x \in got'[b] => a = b
    <3>1. ~Given(y)
      BY <1>0, <2>2, <2>6 DEF OnceSays
    <3> QED BY <1>0, <2>1, <3>1 DEF LockSays, OnceSays, Given
  <2>8. \A x \in Item : \A i, j \in 1 .. n - 1 : locked_data'[i] = x /\ locked_data'[j] = x => i = j
    BY <1>0, <2>2, <2>3 DEF OnceSays
  <2>9. \A x \in Item : Pushing(x)' <=> Pushing(x)
    BY <2>1 DEF Pushing
  <2>10. OnceSays'
    <3> SUFFICES ASSUME NEW x \in Item
                 PROVE  /\ x \in locked_pushed <=> Pushing(x) \/ Kept(x)' \/ Given(x)'
                        /\ Pushing(x) => ~Kept(x)' /\ ~Given(x)'
                        /\ Kept(x)' => ~Given(x)'
      BY <1>0, <2>1, <2>3, <2>7, <2>8, <2>9 DEF OnceSays
    <3>1. CASE x = y
      <4>1. y \in locked_pushed /\ ~Pushing(y)
        BY <1>0, <2>2, <2>6 DEF OnceSays
      <4> QED BY <2>6, <3>1, <4>1
    <3>2. CASE x # y
      BY <1>0, <2>5, <3>2 DEF OnceSays
    <3> QED BY <3>1, <3>2
  <2> QED BY <2>4, <2>10 DEF LockedInv
<1>4. ASSUME NEW t \in Worker, Lc!pop_swap(t) PROVE LockedInv'
  <2> DEFINE n == Len(locked_data)
  <2>1. /\ locked_pc[t] = "swap" /\ locked_pc' = [locked_pc EXCEPT ![t] = "pop_size"]
        /\ UNCHANGED <<locked_size, m_lock, arg, got, locked_pushed>>
    BY <1>4 DEF Lc!pop_swap, Lc!Goto
  <2>2. n \in Nat /\ locked_data \in Seq(Item) /\ DOMAIN locked_data = 1 .. n
    BY <1>0 DEF LockSays
  <2>3. /\ locked_data' \in Seq(Item) /\ Len(locked_data') = n
        /\ \E i \in 1 .. n : n > 1 /\ locked_data'[i] = locked_data[n] /\ locked_data'[n] = locked_data[i]
             /\ \A j \in 1 .. n : j # i /\ j # n => locked_data'[j] = locked_data[j]
        \/ locked_data' = locked_data
    <3>1. CASE UNCHANGED locked_data
      BY <2>2, <3>1
    <3>2. ASSUME NEW i \in 1 .. n, n > 1,
                 locked_data' = [locked_data EXCEPT ![i] = locked_data[n], ![n] = locked_data[i]]
          PROVE  /\ locked_data' \in Seq(Item) /\ Len(locked_data') = n
                 /\ locked_data'[i] = locked_data[n] /\ locked_data'[n] = locked_data[i]
                 /\ \A j \in 1 .. n : j # i /\ j # n => locked_data'[j] = locked_data[j]
      BY <2>2, <3>2
    <3> QED BY <1>4, <2>2, <3>1, <3>2 DEF Lc!pop_swap, Lc!Last
  <2>4. LockSays'
    <3>1. Behind = -1 /\ Behind' = -1
      BY <1>0, <2>1 DEF LockSays, Behind, HoldPc
    <3> QED BY <1>0, <2>1, <2>2, <2>3, <3>1 DEF LockSays, HoldPc
  <2>5. ASSUME NEW x \in Item
        PROVE  /\ Kept(x)' <=> Kept(x)
               /\ \A i, j \in 1 .. n : locked_data'[i] = x /\ locked_data'[j] = x => i = j
    <3> HIDE DEF n
    <3>0. \A i, j \in 1 .. n : locked_data[i] = x /\ locked_data[j] = x => i = j
      BY <1>0 DEF OnceSays, n
    <3>1. CASE locked_data' = locked_data
      BY <2>3, <3>0, <3>1 DEF Kept, n
    <3>2. ASSUME NEW k \in 1 .. n, n > 1, locked_data'[k] = locked_data[n], locked_data'[n] = locked_data[k],
                 \A j \in 1 .. n : j # k /\ j # n => locked_data'[j] = locked_data[j]
          PROVE  /\ (\E i \in 1 .. n : locked_data'[i] = x) <=> (\E i \in 1 .. n : locked_data[i] = x)
                 /\ \A i, j \in 1 .. n : locked_data'[i] = x /\ locked_data'[j] = x => i = j
      <4>1. n \in 1 .. n
        BY <2>2, <3>2
      <4> QED BY <3>0, <3>2, <4>1
    <3> QED BY <2>3, <3>1, <3>2 DEF Kept, n
  <2>7. OnceSays'
    BY <1>0, <2>1, <2>3, <2>5 DEF OnceSays, Pushing, Given
  <2> QED BY <2>4, <2>7 DEF LockedInv
<1>5. ASSUME NEW t \in Worker, Lc!try_pop(t) \/ Lc!wait_and_pop(t) \/ Lc!wait_look(t)
      PROVE  LockedInv'
  <2>1. /\ locked_pc[t] \notin HoldPc \cup {"push"} /\ locked_pc'[t] \notin HoldPc \cup {"push"}
        /\ \A u \in Worker : u # t => locked_pc'[u] = locked_pc[u]
        /\ locked_pc' \in [Worker -> {"idle", "push", "push_size", "push_unlock", "try", "wait",
                        "wait_lock", "swap", "pop_size", "pop_unlock", "wait_unlock"}]
        /\ UNCHANGED <<locked_data, locked_size, m_lock, arg, got, locked_pushed>>
    BY <1>0, <1>5 DEF LockSays, Lc!try_pop, Lc!wait_and_pop, Lc!wait_look, Lc!Call,
        Lc!Goto, HoldPc
  <2>2. LockSays'
    BY <1>0, <2>1 DEF LockSays, HoldPc, Behind
  <2> QED BY <1>0, <2>1, <2>2, ItemsStay DEF LockedInv
<1>6. ASSUME NEW t \in Worker, Lc!push_size(t) \/ Lc!pop_size(t) PROVE LockedInv'
  <2>1. UNCHANGED <<locked_data, m_lock, arg, got, locked_pushed>>
    BY <1>6 DEF Lc!push_size, Lc!pop_size
  <2>2. m_lock = t
    BY <1>0, <1>6 DEF LockSays, Lc!push_size, Lc!pop_size, Lc!Goto, HoldPc
  <2>3. LockSays'
    BY <1>0, <1>6, <2>1, <2>2 DEF LockSays, Lc!push_size, Lc!pop_size, Lc!Goto, HoldPc,
        Behind
  <2> QED BY <1>0, <2>1, <2>3, ItemsStay DEF LockedInv
<1>7. ASSUME NEW t \in Worker, Lc!nothing(t) \/ Lc!leave(t) PROVE LockedInv'
  <2>1. UNCHANGED <<locked_data, locked_size, arg, got, locked_pushed>>
    BY <1>7 DEF Lc!nothing, Lc!leave
  <2>2. ASSUME Lc!nothing(t) PROVE LockSays'
    BY <1>0, <2>1, <2>2 DEF LockSays, Lc!nothing, Lc!Goto, Lc!lock, HoldPc, Behind
  <2>3. ASSUME Lc!leave(t) PROVE LockSays'
    BY <1>0, <2>1, <2>3 DEF LockSays, Lc!leave, Lc!Goto, Lc!unlock, HoldPc, Behind
  <2> QED BY <1>0, <1>7, <2>1, <2>2, <2>3, ItemsStay DEF LockedInv
<1>8. CASE UNCHANGED Lc!vars
  <2>1. LockSays'
    BY <1>0, <1>8 DEF LockSays, Lc!vars, Behind
  <2> QED BY <1>0, <1>8, <2>1, ItemsStay DEF LockedInv, Lc!vars
<1> QED BY <1>1, <1>2, <1>3, <1>4, <1>5, <1>6, <1>7, <1>8 DEF Lc!Next, Lc!Step

(* LockedContainer counts with its own copy of FiniteSets.                   *)
LEMMA LcCounts ==
  ASSUME NEW S PROVE Lc!Cardinality(S) = Cardinality(S)
BY DEF Lc!Cardinality, Cardinality

(* The invariant counts what EachOnce counts.                               *)
LEMMA OnePlaceEach == ASSUME Lc!LockedContainerAssumption, LockedInv PROVE Lc!EachOnce
<1> DEFINE Places(x) == {<<"push", t>> : t \in {u \in Worker : arg[u] = x}}
                     \cup {<<"data", i>> : i \in {j \in DOMAIN locked_data : locked_data[j] = x}}
                     \cup {<<"got", t>> : t \in {u \in Worker : x \in got[u]}}
<1>0. LockSays /\ OnceSays /\ DOMAIN locked_data = 1 .. Len(locked_data)
  BY DEF LockedInv, LockSays
<1>1. ASSUME NEW x \in Item PROVE Lc!Cardinality(Places(x)) = IF x \in locked_pushed THEN 1 ELSE 0
  <2>1. CASE Pushing(x)
    <3>1. PICK t \in Worker : arg[t] = x
      BY <2>1 DEF Pushing
    <3>2. Places(x) = {<<"push", t>>}
      BY <1>0, <2>1, <3>1 DEF OnceSays, Kept, Given
    <3> QED BY <1>0, <2>1, <3>2, FS_Singleton, LcCounts DEF OnceSays
  <2>2. CASE Kept(x)
    <3>1. PICK i \in 1 .. Len(locked_data) : locked_data[i] = x
      BY <2>2 DEF Kept
    <3>2. Places(x) = {<<"data", i>>}
      BY <1>0, <2>2, <3>1 DEF OnceSays, Pushing, Given
    <3> QED BY <1>0, <2>2, <3>2, FS_Singleton, LcCounts DEF OnceSays
  <2>3. CASE Given(x)
    <3>1. PICK t \in Worker : x \in got[t]
      BY <2>3 DEF Given
    <3>2. Places(x) = {<<"got", t>>}
      BY <1>0, <2>3, <3>1 DEF OnceSays, Pushing, Kept
    <3> QED BY <1>0, <2>3, <3>2, FS_Singleton, LcCounts DEF OnceSays
  <2>4. CASE ~Pushing(x) /\ ~Kept(x) /\ ~Given(x)
    <3>1. Places(x) = {}
      BY <1>0, <2>4 DEF Pushing, Kept, Given
    <3> QED BY <1>0, <2>4, <3>1, FS_EmptySet, LcCounts DEF OnceSays
  <2> QED BY <2>1, <2>2, <2>3, <2>4
<1> QED BY <1>1 DEF Lc!EachOnce

(* However many threads push and pop, an item that was pushed is with its   *)
(* pusher, in the stack or with one thread that popped it, and m_size is    *)
(* exact whenever the lock is free (push, try_pop, wait_and_pop).           *)
THEOREM LockedOnce ==
  ASSUME Lc!LockedContainerAssumption PROVE Lc!Spec => [](Lc!EachOnce /\ Lc!SizeExact)
<1>1. Lc!Init => LockedInv
  BY LockedInit
<1>2. LockedInv /\ [Lc!Next]_Lc!vars => LockedInv'
  BY LockedStep
<1>3. LockedInv => Lc!EachOnce /\ Lc!SizeExact
  BY OnePlaceEach DEF LockedInv, LockSays, Behind, Lc!SizeExact,
      Lc!LockedContainerAssumption
<1> QED BY <1>1, <1>2, <1>3, PTL DEF Lc!Spec

-----------------------------------------------------------------------------
(* ListLockFree.  The places of a push before its node is linked, of a      *)
(* push, of a removal that holds its node, of one that has marked it, and   *)
(* of one that has unlinked it and not said so yet.                         *)
FreshPc == {"load", "try", "link"}
InPush == FreshPc \cup {"ptail", "psize"}
Locking == {"mark", "pred", "plock", "check", "slock", "unlink", "back", "tail",
            "release", "size", "unlock"}
Marking == (Locking \ {"mark"}) \cup {"clear"}
Unlinked == {"back", "tail", "release"}
Leaving == {"valid", "lock"} \cup Locking \cup Li!Failing
Nodes == 1 .. list_created

(* A node is unborn until a push links it and known from then on, and out   *)
(* once a removal has unlinked it; the spine is what is linked, behind      *)
(* the sentinel.                                                            *)
Unborn == {n \in Li!Node : \E t \in Worker : list_pc[t] \in FreshPc /\ self[t] = n}
Known == Nodes \ Unborn
Out == {n \in Li!Node : taken[n] > 0 \/ \E t \in Worker : list_pc[t] \in Unlinked /\ self[t] = n}
In == Known \ Out
Spine == {0} \cup In
ListPlace == {0} \cup Known

(* Which call a thread is in, and which nodes it may hold in its locals:    *)
(* a push its own new node, an erase a node of its own, a pop a known       *)
(* one.                                                                     *)
OpSays(t) ==
  /\ list_pc[t] \in InPush => /\ list_op[t] = "push" /\ self[t] \in Nodes /\ owner[self[t]] = t
                          /\ self[t] \notin asked
  /\ list_pc[t] \in {"try", "link", "ptail"} => prev[t] \in ListPlace
  /\ list_pc[t] = "empty" => list_op[t] = "pop"
  /\ list_pc[t] \in Leaving => list_op[t] # "push"
  /\ list_pc[t] \in Leaving /\ list_op[t] = "erase" => owner[self[t]] = t /\ self[t] \in asked
  /\ list_pc[t] = "valid" => self[t] = Li!Null \/ self[t] \in Known
  /\ list_pc[t] \in Leaving \ {"valid"} => self[t] \in Known
  /\ list_pc[t] \in {"plock", "check", "slock", "unlink", "back", "tail"} => prev[t] \in ListPlace

(* The node of a push is untouched until it is linked.                      *)
NewSays(t) ==
  list_pc[t] \in FreshPc => self[t] \notin list_removal /\ taken[self[t]] = 0 /\ list_next[self[t]] = Li!Null

(* A thread holds the lock of the node it removes, and of its neighbours    *)
(* while it changes them; the three are different nodes.                    *)
LocksSay(t) ==
  /\ list_pc[t] \in Locking => holder[self[t]] = t
  /\ list_pc[t] \in {"link", "ptail", "check", "slock", "unlink", "back", "tail"}
       => holder[prev[t]] = t
  /\ list_pc[t] \in {"unlink", "back", "tail"} /\ succ[t] # Li!Null => holder[succ[t]] = t
  /\ list_pc[t] \in {"check", "slock", "unlink", "back", "tail"} => prev[t] # self[t]
  /\ list_pc[t] \in {"unlink", "back", "tail"} => succ[t] # self[t]

(* What a removal has checked stays true until it unlocks: its              *)
(* predecessor and its successor are linked and not marked, and it moves    *)
(* tail when it removes the last.                                           *)
RemoverSays(t) ==
  /\ list_pc[t] \in {"slock", "unlink"} =>
       prev[t] \notin list_removal /\ list_next[prev[t]] = self[t] /\ succ[t] = list_next[self[t]]
  /\ list_pc[t] = "slock" => succ[t] # Li!Null
  /\ list_pc[t] = "unlink" /\ succ[t] # Li!Null => pred[succ[t]] = self[t] /\ succ[t] \notin list_removal
  /\ list_pc[t] \in {"back", "tail"} =>
       /\ prev[t] \notin list_removal /\ list_next[prev[t]] = succ[t]
       /\ succ[t] # Li!Null => succ[t] \notin list_removal
       /\ succ[t] = Li!Null => list_tail = self[t]

(* Between the link and the store of tail the new node is the last one,     *)
(* and nobody else has come to it through tail.                             *)
PusherSays(t) ==
  list_pc[t] = "ptail" =>
    /\ prev[t] \notin list_removal /\ list_next[prev[t]] = self[t] /\ list_next[self[t]] = Li!Null
    /\ self[t] \in In /\ list_tail # self[t]
    /\ \A u \in Worker : list_pc[u] \in {"try", "link", "back", "tail"} => prev[u] # self[t]

ThreadSays(t) == OpSays(t) /\ NewSays(t) /\ LocksSay(t) /\ RemoverSays(t) /\ PusherSays(t)

(* Pointers lead to known nodes.                                            *)
KnownSays ==
  /\ \A n \in {0} \cup Li!Node : list_next[n] = Li!Null \/ list_next[n] \in Known
  /\ \A n \in Known : pred[n] \in ListPlace
  /\ list_tail \in ListPlace
  /\ \A n \in Li!Node : owner[n] # Li!None => n \in Nodes
  /\ \A n \in Li!Node : n \notin Nodes => list_next[n] = Li!Null /\ n \notin list_removal /\ taken[n] = 0
  /\ \A n \in asked : n \in Known

(* A node is marked by one removal at a time, and for good once that        *)
(* removal returns true.                                                    *)
MarkSays ==
  /\ \A t \in Worker : list_pc[t] \in Marking => self[t] \in list_removal
  /\ \A t \in Worker : list_pc[t] \in Marking \ {"size"} => taken[self[t]] = 0
  /\ \A t \in Worker : list_pc[t] = "size" => taken[self[t]] > 0
  /\ \A t, u \in Worker : list_pc[t] \in Marking /\ list_pc[u] \in Marking /\ self[t] = self[u] => t = u
  /\ \A n \in Li!Node : taken[n] > 0 => n \in list_removal
  /\ \A n \in list_removal : taken[n] > 0 \/ \E t \in Worker : list_pc[t] \in Marking /\ self[t] = n

(* The linked nodes form one chain: no two have the same successor, and     *)
(* each is the successor of the node it takes for its predecessor, unless   *)
(* a removal is just about to correct that.                                 *)
SpineSays ==
  /\ \A a, b \in Spine : list_next[a] = list_next[b] => a = b
  /\ \A a \in Spine : list_next[a] = Li!Null \/ list_next[a] \in In
  /\ \A n \in In :
       \/ pred[n] \in Spine /\ list_next[pred[n]] = n
       \/ \E t \in Worker : list_pc[t] = "back" /\ succ[t] = n

(* The thread is about to store tail.                                       *)
LastMoves(t) ==
  \/ list_pc[t] = "ptail"
  \/ list_pc[t] \in {"back", "tail"} /\ succ[t] = Li!Null
(* Otherwise tail is the last node of the spine.                            *)
EndSays == (\A t \in Worker : ~LastMoves(t)) => list_tail \in Spine /\ list_next[list_tail] = Li!Null

(* The shape of the list while threads push and remove.                     *)
Shape == (\A t \in Worker : ThreadSays(t)) /\ KnownSays /\ MarkSays /\ SpineSays /\ EndSays

-----------------------------------------------------------------------------
(* What a step of one thread leaves alone.                                  *)
Others(t) ==
  \A u \in Worker \ {t} : /\ list_pc'[u] = list_pc[u] /\ list_op'[u] = list_op[u] /\ self'[u] = self[u]
                          /\ prev'[u] = prev[u] /\ succ'[u] = succ[u]
HoldersStay(t) ==
  \A x \in {0} \cup Li!Node, u \in Worker \ {t} : holder[x] = u => holder'[x] = u
SameNodes == UNCHANGED <<list_next, pred, list_removal, list_tail, list_created, owner, taken>>
AskedGrows(t) ==
  /\ asked \subseteq asked'
  /\ \A n \in asked' \ asked : n \in Known /\ owner[n] = t

(* A step of t that neither links, unlinks nor marks a node.                *)
Quiet(t) ==
  /\ Others(t) /\ HoldersStay(t) /\ SameNodes /\ AskedGrows(t)
  /\ list_pc[t] \in FreshPc <=> list_pc'[t] \in FreshPc
  /\ list_pc[t] \in Marking <=> list_pc'[t] \in Marking
  /\ list_pc[t] \in FreshPc \cup Marking => self'[t] = self[t]
  /\ list_pc[t] \notin {"ptail", "size"} \cup Unlinked /\ list_pc'[t] \notin {"ptail", "size"} \cup Unlinked
  /\ list_pc'[t] \in {"try", "link"} =>
       \A u \in Worker : list_pc[u] = "ptail" => prev'[t] # self[u]

(* The sets of nodes are sets of nodes, and none holds the null pointer.    *)
LEMMA KnownNodes ==
  ASSUME Li!ListAssumption, Li!TypeOK
  PROVE  /\ Nodes \subseteq Li!Node /\ Known \subseteq Li!Node /\ In \subseteq Li!Node
         /\ ListPlace \subseteq {0} \cup Li!Node /\ Li!Null \notin ListPlace \cup Known
         /\ Spine \subseteq {0} \cup Li!Node /\ Li!Null \notin Spine
<1>1. Nodes \subseteq Li!Node
  BY SMT DEF Li!ListAssumption, Li!TypeOK, Nodes, Li!Node
<1>2. \A n \in Li!Node : n # Li!Null
  BY DEF Li!Node, Li!Null
<1> QED BY <1>1, <1>2 DEF Known, In, ListPlace, Spine, Li!Null

(* A quiet step changes none of them.                                       *)
LEMMA QuietKinds ==
  ASSUME NEW t \in Worker, Quiet(t)
  PROVE  Known' = Known /\ Out' = Out /\ In' = In /\ Spine' = Spine /\ ListPlace' = ListPlace
<1>1. Unborn' = Unborn
  BY DEF Quiet, Others, Unborn
<1>2. Out' = Out
  BY DEF Quiet, Others, SameNodes, Out
<1>3. Nodes' = Nodes
  BY DEF Quiet, SameNodes, Nodes
<1> QED BY <1>1, <1>2, <1>3 DEF Known, In, Spine, ListPlace

(* A quiet step keeps the shape of the list if the thread can still say     *)
(* what it has to say of itself.                                            *)
LEMMA QuietStep ==
  ASSUME Li!ListAssumption, Li!TypeOK, Shape, NEW t \in Worker, Quiet(t),
         OpSays(t)', LocksSay(t)', RemoverSays(t)'
  PROVE  Shape'
<1>0. /\ \A u \in Worker : OpSays(u) /\ NewSays(u) /\ LocksSay(u) /\ RemoverSays(u) /\ PusherSays(u)
      /\ KnownSays /\ MarkSays /\ SpineSays /\ EndSays
  BY DEF Shape, ThreadSays
<1>k. Known' = Known /\ Out' = Out /\ In' = In /\ Spine' = Spine /\ ListPlace' = ListPlace
  BY QuietKinds
<1>s. SameNodes /\ Nodes' = Nodes
  BY DEF Quiet, SameNodes, Nodes
<1>o. \A u \in Worker \ {t} : /\ list_pc'[u] = list_pc[u] /\ list_op'[u] = list_op[u] /\ self'[u] = self[u]
                              /\ prev'[u] = prev[u] /\ succ'[u] = succ[u]
  BY DEF Quiet, Others
<1>1. ASSUME NEW u \in Worker PROVE OpSays(u)'
  <2>1. CASE u # t
    <3>1. list_pc[u] \in InPush => self[u] \notin asked'
      BY <1>0, <2>1 DEF OpSays, Quiet, AskedGrows
    <3>2. asked \subseteq asked'
      BY DEF Quiet, AskedGrows
    <3> QED BY <1>0, <1>k, <1>s, <1>o, <2>1, <3>1, <3>2 DEF OpSays, SameNodes
  <2> QED BY <2>1
<1>2. ASSUME NEW u \in Worker PROVE NewSays(u)'
  BY <1>0, <1>s, <1>o DEF NewSays, Quiet, SameNodes
<1>3. ASSUME NEW u \in Worker PROVE LocksSay(u)'
  <2>1. CASE u # t
    <3>1. \A x \in {0} \cup Li!Node : holder[x] = u => holder'[x] = u
      BY <2>1 DEF Quiet, HoldersStay
    <3>2. /\ list_pc[u] \in Locking => self[u] \in {0} \cup Li!Node
          /\ list_pc[u] \in {"link", "ptail", "check", "slock", "unlink", "back", "tail"} => prev[u] \in {0} \cup Li!Node
          /\ succ[u] # Li!Null => succ[u] \in {0} \cup Li!Node
      <4>1. Nodes \subseteq Li!Node
        BY SMT DEF Li!ListAssumption, Li!TypeOK, Nodes, Li!Node
      <4>2. succ[u] \in Li!Ptr
        BY DEF Li!TypeOK
      <4> QED BY <1>0, <4>1, <4>2 DEF OpSays, Known, ListPlace, Leaving, Locking, Li!Ptr
    <3> QED BY <1>0, <1>o, <2>1, <3>1, <3>2 DEF LocksSay
  <2> QED BY <2>1
<1>4. ASSUME NEW u \in Worker PROVE RemoverSays(u)'
  BY <1>0, <1>s, <1>o DEF RemoverSays, SameNodes
<1>5. ASSUME NEW u \in Worker PROVE PusherSays(u)'
  <2>1. SUFFICES ASSUME list_pc'[u] = "ptail" PROVE PusherSays(u)'
    BY DEF PusherSays
  <2>2. u # t /\ list_pc[u] = "ptail"
    BY <2>1, <1>o DEF Quiet
  <2>3. \A v \in Worker : list_pc'[v] \in {"try", "link", "back", "tail"} => prev'[v] # self[u]
    BY <1>0, <1>o, <2>2 DEF PusherSays, Quiet, Unlinked
  <2> QED BY <1>0, <1>s, <1>o, <1>k, <2>2, <2>3 DEF PusherSays, SameNodes
<1>6. KnownSays'
  <2>1. \A n \in asked' : n \in Known
    BY <1>0 DEF KnownSays, Quiet, AskedGrows
  <2> QED BY <1>0, <1>s, <1>k, <2>1 DEF KnownSays, SameNodes
<1>7. MarkSays'
  <2>1. \A u \in Worker : /\ list_pc'[u] \in Marking <=> list_pc[u] \in Marking
                          /\ list_pc[u] \in Marking => self'[u] = self[u]
                          /\ list_pc'[u] = "size" <=> list_pc[u] = "size"
                          /\ list_pc[u] = "size" => self'[u] = self[u]
    BY <1>o DEF Quiet
  <2> QED BY <1>0, <1>s, <2>1 DEF MarkSays, SameNodes
<1>8. \A u \in Worker : /\ list_pc'[u] \in {"back", "tail"} <=> list_pc[u] \in {"back", "tail"}
                        /\ list_pc[u] \in {"back", "tail"} => succ'[u] = succ[u] /\ u # t
                        /\ list_pc'[u] = "back" <=> list_pc[u] = "back"
                        /\ list_pc'[u] = "ptail" <=> list_pc[u] = "ptail"
  BY <1>o DEF Quiet, Unlinked
<1>9. SpineSays'
  BY <1>0, <1>s, <1>k, <1>8 DEF SpineSays, SameNodes
<1>10. EndSays'
  <2>1. ASSUME NEW u \in Worker PROVE LastMoves(u)' <=> LastMoves(u)
    BY <1>8 DEF LastMoves
  <2>2. list_tail' = list_tail /\ list_next' = list_next
    BY <1>s DEF SameNodes
  <2> QED BY <1>0, <1>k, <2>1, <2>2 DEF EndSays
<1> QED BY <1>1, <1>2, <1>3, <1>4, <1>5, <1>6, <1>7, <1>9, <1>10 DEF Shape, ThreadSays

(* push_load keeps the shape of the list.                                   *)
LEMMA ListPushLoad ==
  ASSUME Li!ListAssumption, Li!TypeOK, Shape, NEW t \in Worker, Li!push_load(t) PROVE Shape'
<1>0. /\ OpSays(t) /\ NewSays(t) /\ LocksSay(t) /\ RemoverSays(t) /\ KnownSays /\ Li!None \notin Worker
      /\ \A u \in Worker : PusherSays(u)
  BY DEF Shape, ThreadSays, Li!ListAssumption
<1>1. SameNodes
  BY DEF SameNodes, Li!push_load, Li!Goto, Li!nodes, Li!history
<1>2. Others(t)
  BY DEF Li!TypeOK, Others, Li!push_load, Li!Goto, Li!nodes, Li!history
<1>3. HoldersStay(t)
  BY <1>0 DEF Li!TypeOK, HoldersStay, Li!push_load, Li!Goto, Li!nodes, Li!history
<1>4. AskedGrows(t)
  BY DEF AskedGrows, Li!push_load, Li!Goto, Li!nodes, Li!history
<1>5. Quiet(t)
  BY <1>0, <1>1, <1>2, <1>3, <1>4 DEF Quiet, Li!TypeOK, FreshPc, Marking, Locking,
      Unlinked, PusherSays, OpSays, Leaving, Li!push_load, Li!Goto, Li!nodes, Li!history
<1>k. Known' = Known /\ ListPlace' = ListPlace /\ Nodes' = Nodes
  BY <1>1, <1>5, QuietKinds DEF SameNodes, Nodes
<1>d. /\ Known \subseteq Li!Node /\ ListPlace \subseteq {0} \cup Li!Node /\ Li!Null \notin ListPlace \cup Known /\ Li!None \notin Worker
      /\ list_tail \in ListPlace /\ list_next[0] \in Known \cup {Li!Null} /\ \A m \in Known : pred[m] \in ListPlace
  BY <1>0, KnownNodes DEF KnownSays
<1>6. OpSays(t)'
  BY <1>0, <1>k, <1>d DEF Li!TypeOK, OpSays, InPush, FreshPc, Leaving, Locking,
      Li!Failing, ListPlace, Li!push_load, Li!Goto, Li!nodes, Li!history
<1>7. LocksSay(t)'
  BY <1>0, <1>d DEF Li!TypeOK, LocksSay, OpSays, RemoverSays, Locking, Leaving,
      Li!Failing, Li!Node, Li!Ptr, Li!push_load, Li!Goto, Li!nodes, Li!history
<1>8. RemoverSays(t)'
  BY <1>0, <1>1 DEF Li!TypeOK, RemoverSays, SameNodes, Li!push_load, Li!Goto, Li!nodes,
      Li!history
<1> QED BY <1>5, <1>6, <1>7, <1>8, QuietStep

(* push_size keeps the shape of the list.                                   *)
LEMMA ListPushSize ==
  ASSUME Li!ListAssumption, Li!TypeOK, Shape, NEW t \in Worker, Li!push_size(t) PROVE Shape'
<1>0. /\ OpSays(t) /\ NewSays(t) /\ LocksSay(t) /\ RemoverSays(t) /\ KnownSays /\ Li!None \notin Worker
      /\ \A u \in Worker : PusherSays(u)
  BY DEF Shape, ThreadSays, Li!ListAssumption
<1>1. SameNodes
  BY DEF SameNodes, Li!push_size, Li!Goto, Li!nodes, Li!history
<1>2. Others(t)
  BY DEF Li!TypeOK, Others, Li!push_size, Li!Goto, Li!nodes, Li!history
<1>3. HoldersStay(t)
  BY <1>0 DEF Li!TypeOK, HoldersStay, Li!push_size, Li!Goto, Li!nodes, Li!history
<1>4. AskedGrows(t)
  BY DEF AskedGrows, Li!push_size, Li!Goto, Li!nodes, Li!history
<1>5. Quiet(t)
  BY <1>0, <1>1, <1>2, <1>3, <1>4 DEF Quiet, Li!TypeOK, FreshPc, Marking, Locking,
      Unlinked, PusherSays, OpSays, Leaving, Li!push_size, Li!Goto, Li!nodes, Li!history
<1>k. Known' = Known /\ ListPlace' = ListPlace /\ Nodes' = Nodes
  BY <1>1, <1>5, QuietKinds DEF SameNodes, Nodes
<1>d. /\ Known \subseteq Li!Node /\ ListPlace \subseteq {0} \cup Li!Node /\ Li!Null \notin ListPlace \cup Known /\ Li!None \notin Worker
      /\ list_tail \in ListPlace /\ list_next[0] \in Known \cup {Li!Null} /\ \A m \in Known : pred[m] \in ListPlace
  BY <1>0, KnownNodes DEF KnownSays
<1>6. OpSays(t)'
  BY <1>0, <1>k, <1>d DEF Li!TypeOK, OpSays, InPush, FreshPc, Leaving, Locking,
      Li!Failing, ListPlace, Li!push_size, Li!Goto, Li!nodes, Li!history
<1>7. LocksSay(t)'
  BY <1>0, <1>d DEF Li!TypeOK, LocksSay, OpSays, RemoverSays, Locking, Leaving,
      Li!Failing, Li!Node, Li!Ptr, Li!push_size, Li!Goto, Li!nodes, Li!history
<1>8. RemoverSays(t)'
  BY <1>0, <1>1 DEF Li!TypeOK, RemoverSays, SameNodes, Li!push_size, Li!Goto, Li!nodes,
      Li!history
<1> QED BY <1>5, <1>6, <1>7, <1>8, QuietStep

(* try_pop_front keeps the shape of the list.                               *)
LEMMA ListTryPopFront ==
  ASSUME Li!ListAssumption, Li!TypeOK, Shape, NEW t \in Worker, Li!try_pop_front(t) PROVE Shape'
<1>0. /\ OpSays(t) /\ NewSays(t) /\ LocksSay(t) /\ RemoverSays(t) /\ KnownSays /\ Li!None \notin Worker
      /\ \A u \in Worker : PusherSays(u)
  BY DEF Shape, ThreadSays, Li!ListAssumption
<1>1. SameNodes
  BY DEF SameNodes, Li!try_pop_front, Li!Goto, Li!nodes
<1>2. Others(t)
  BY DEF Li!TypeOK, Others, Li!try_pop_front, Li!Goto, Li!nodes
<1>3. HoldersStay(t)
  BY <1>0 DEF Li!TypeOK, HoldersStay, Li!try_pop_front, Li!Goto, Li!nodes
<1>4. AskedGrows(t)
  BY DEF AskedGrows, Li!try_pop_front, Li!Goto, Li!nodes
<1>5. Quiet(t)
  BY <1>0, <1>1, <1>2, <1>3, <1>4 DEF Quiet, Li!TypeOK, FreshPc, Marking, Locking,
      Unlinked, PusherSays, OpSays, Leaving, Li!try_pop_front, Li!Goto, Li!nodes
<1>k. Known' = Known /\ ListPlace' = ListPlace /\ Nodes' = Nodes
  BY <1>1, <1>5, QuietKinds DEF SameNodes, Nodes
<1>d. /\ Known \subseteq Li!Node /\ ListPlace \subseteq {0} \cup Li!Node /\ Li!Null \notin ListPlace \cup Known /\ Li!None \notin Worker
      /\ list_tail \in ListPlace /\ list_next[0] \in Known \cup {Li!Null} /\ \A m \in Known : pred[m] \in ListPlace
  BY <1>0, KnownNodes DEF KnownSays
<1>6. OpSays(t)'
  BY <1>0, <1>k, <1>d DEF Li!TypeOK, OpSays, InPush, FreshPc, Leaving, Locking,
      Li!Failing, ListPlace, Li!try_pop_front, Li!Goto, Li!nodes
<1>7. LocksSay(t)'
  BY <1>0, <1>d DEF Li!TypeOK, LocksSay, OpSays, RemoverSays, Locking, Leaving,
      Li!Failing, Li!Node, Li!Ptr, Li!try_pop_front, Li!Goto, Li!nodes
<1>8. RemoverSays(t)'
  BY <1>0, <1>1 DEF Li!TypeOK, RemoverSays, SameNodes, Li!try_pop_front, Li!Goto, Li!nodes
<1> QED BY <1>5, <1>6, <1>7, <1>8, QuietStep

(* pop_first keeps the shape of the list.                                   *)
LEMMA ListPopFirst ==
  ASSUME Li!ListAssumption, Li!TypeOK, Shape, NEW t \in Worker, Li!pop_first(t) PROVE Shape'
<1>0. /\ OpSays(t) /\ NewSays(t) /\ LocksSay(t) /\ RemoverSays(t) /\ KnownSays /\ Li!None \notin Worker
      /\ \A u \in Worker : PusherSays(u)
  BY DEF Shape, ThreadSays, Li!ListAssumption
<1>1. SameNodes
  BY DEF SameNodes, Li!pop_first, Li!Goto, Li!nodes, Li!history
<1>2. Others(t)
  BY DEF Li!TypeOK, Others, Li!pop_first, Li!Goto, Li!nodes, Li!history
<1>3. HoldersStay(t)
  BY <1>0 DEF Li!TypeOK, HoldersStay, Li!pop_first, Li!Goto, Li!nodes, Li!history
<1>4. AskedGrows(t)
  BY DEF AskedGrows, Li!pop_first, Li!Goto, Li!nodes, Li!history
<1>5. Quiet(t)
  BY <1>0, <1>1, <1>2, <1>3, <1>4 DEF Quiet, Li!TypeOK, FreshPc, Marking, Locking,
      Unlinked, PusherSays, OpSays, Leaving, Li!pop_first, Li!Goto, Li!nodes, Li!history
<1>k. Known' = Known /\ ListPlace' = ListPlace /\ Nodes' = Nodes
  BY <1>1, <1>5, QuietKinds DEF SameNodes, Nodes
<1>d. /\ Known \subseteq Li!Node /\ ListPlace \subseteq {0} \cup Li!Node /\ Li!Null \notin ListPlace \cup Known /\ Li!None \notin Worker
      /\ list_tail \in ListPlace /\ list_next[0] \in Known \cup {Li!Null} /\ \A m \in Known : pred[m] \in ListPlace
  BY <1>0, KnownNodes DEF KnownSays
<1>6. OpSays(t)'
  BY <1>0, <1>k, <1>d DEF Li!TypeOK, OpSays, InPush, FreshPc, Leaving, Locking,
      Li!Failing, ListPlace, Li!pop_first, Li!Goto, Li!nodes, Li!history
<1>7. LocksSay(t)'
  BY <1>0, <1>d DEF Li!TypeOK, LocksSay, OpSays, RemoverSays, Locking, Leaving,
      Li!Failing, Li!Node, Li!Ptr, Li!pop_first, Li!Goto, Li!nodes, Li!history
<1>8. RemoverSays(t)'
  BY <1>0, <1>1 DEF Li!TypeOK, RemoverSays, SameNodes, Li!pop_first, Li!Goto, Li!nodes,
      Li!history
<1> QED BY <1>5, <1>6, <1>7, <1>8, QuietStep

(* valid keeps the shape of the list.                                       *)
LEMMA ListValid ==
  ASSUME Li!ListAssumption, Li!TypeOK, Shape, NEW t \in Worker, Li!valid(t) PROVE Shape'
<1>0. /\ OpSays(t) /\ NewSays(t) /\ LocksSay(t) /\ RemoverSays(t) /\ KnownSays /\ Li!None \notin Worker
      /\ \A u \in Worker : PusherSays(u)
  BY DEF Shape, ThreadSays, Li!ListAssumption
<1>1. SameNodes
  BY DEF SameNodes, Li!valid, Li!Goto, Li!Giveup, Li!validNode, Li!nodes, Li!history
<1>2. Others(t)
  BY DEF Li!TypeOK, Others, Li!valid, Li!Goto, Li!Giveup, Li!validNode, Li!nodes, Li!history
<1>3. HoldersStay(t)
  BY <1>0 DEF Li!TypeOK, HoldersStay, Li!valid, Li!Goto, Li!Giveup, Li!validNode,
      Li!nodes, Li!history
<1>4. AskedGrows(t)
  BY DEF AskedGrows, Li!valid, Li!Goto, Li!Giveup, Li!validNode, Li!nodes, Li!history
<1>5. Quiet(t)
  BY <1>0, <1>1, <1>2, <1>3, <1>4 DEF Quiet, Li!TypeOK, FreshPc, Marking, Locking,
      Unlinked, PusherSays, OpSays, Leaving, Li!valid, Li!Goto, Li!Giveup, Li!validNode,
      Li!nodes, Li!history
<1>k. Known' = Known /\ ListPlace' = ListPlace /\ Nodes' = Nodes
  BY <1>1, <1>5, QuietKinds DEF SameNodes, Nodes
<1>d. /\ Known \subseteq Li!Node /\ ListPlace \subseteq {0} \cup Li!Node /\ Li!Null \notin ListPlace \cup Known /\ Li!None \notin Worker
      /\ list_tail \in ListPlace /\ list_next[0] \in Known \cup {Li!Null} /\ \A m \in Known : pred[m] \in ListPlace
  BY <1>0, KnownNodes DEF KnownSays
<1>6. OpSays(t)'
  BY <1>0, <1>k, <1>d DEF Li!TypeOK, OpSays, InPush, FreshPc, Leaving, Locking,
      Li!Failing, ListPlace, Li!valid, Li!Goto, Li!Giveup, Li!validNode, Li!nodes,
      Li!history
<1>7. LocksSay(t)'
  BY <1>0, <1>d DEF Li!TypeOK, LocksSay, OpSays, RemoverSays, Locking, Leaving,
      Li!Failing, Li!Node, Li!Ptr, Li!valid, Li!Goto, Li!Giveup, Li!validNode, Li!nodes,
      Li!history
<1>8. RemoverSays(t)'
  BY <1>0, <1>1 DEF Li!TypeOK, RemoverSays, SameNodes, Li!valid, Li!Goto, Li!Giveup,
      Li!validNode, Li!nodes, Li!history
<1> QED BY <1>5, <1>6, <1>7, <1>8, QuietStep

(* lock_self keeps the shape of the list.                                   *)
LEMMA ListLockSelf ==
  ASSUME Li!ListAssumption, Li!TypeOK, Shape, NEW t \in Worker, Li!lock_self(t) PROVE Shape'
<1>0. /\ OpSays(t) /\ NewSays(t) /\ LocksSay(t) /\ RemoverSays(t) /\ KnownSays /\ Li!None \notin Worker
      /\ \A u \in Worker : PusherSays(u)
  BY DEF Shape, ThreadSays, Li!ListAssumption
<1>1. SameNodes
  BY DEF SameNodes, Li!lock_self, Li!Goto, Li!acquire, Li!nodes, Li!history
<1>2. Others(t)
  BY DEF Li!TypeOK, Others, Li!lock_self, Li!Goto, Li!acquire, Li!nodes, Li!history
<1>3. HoldersStay(t)
  BY <1>0 DEF Li!TypeOK, HoldersStay, Li!lock_self, Li!Goto, Li!acquire, Li!nodes,
      Li!history
<1>4. AskedGrows(t)
  BY DEF AskedGrows, Li!lock_self, Li!Goto, Li!acquire, Li!nodes, Li!history
<1>5. Quiet(t)
  BY <1>0, <1>1, <1>2, <1>3, <1>4 DEF Quiet, Li!TypeOK, FreshPc, Marking, Locking,
      Unlinked, PusherSays, OpSays, Leaving, Li!lock_self, Li!Goto, Li!acquire,
      Li!nodes, Li!history
<1>k. Known' = Known /\ ListPlace' = ListPlace /\ Nodes' = Nodes
  BY <1>1, <1>5, QuietKinds DEF SameNodes, Nodes
<1>d. /\ Known \subseteq Li!Node /\ ListPlace \subseteq {0} \cup Li!Node /\ Li!Null \notin ListPlace \cup Known /\ Li!None \notin Worker
      /\ list_tail \in ListPlace /\ list_next[0] \in Known \cup {Li!Null} /\ \A m \in Known : pred[m] \in ListPlace
  BY <1>0, KnownNodes DEF KnownSays
<1>6. OpSays(t)'
  BY <1>0, <1>k, <1>d DEF Li!TypeOK, OpSays, InPush, FreshPc, Leaving, Locking,
      Li!Failing, ListPlace, Li!lock_self, Li!Goto, Li!acquire, Li!nodes, Li!history
<1>7. LocksSay(t)'
  BY <1>0, <1>d DEF Li!TypeOK, LocksSay, OpSays, RemoverSays, Locking, Leaving,
      Li!Failing, Li!Node, Li!Ptr, Li!lock_self, Li!Goto, Li!acquire, Li!nodes,
      Li!history
<1>8. RemoverSays(t)'
  BY <1>0, <1>1 DEF Li!TypeOK, RemoverSays, SameNodes, Li!lock_self, Li!Goto,
      Li!acquire, Li!nodes, Li!history
<1> QED BY <1>5, <1>6, <1>7, <1>8, QuietStep

(* read_pred keeps the shape of the list.                                   *)
LEMMA ListReadPred ==
  ASSUME Li!ListAssumption, Li!TypeOK, Shape, NEW t \in Worker, Li!read_pred(t) PROVE Shape'
<1>0. /\ OpSays(t) /\ NewSays(t) /\ LocksSay(t) /\ RemoverSays(t) /\ KnownSays /\ Li!None \notin Worker
      /\ \A u \in Worker : PusherSays(u)
  BY DEF Shape, ThreadSays, Li!ListAssumption
<1>1. SameNodes
  BY DEF SameNodes, Li!read_pred, Li!Goto, Li!nodes, Li!history
<1>2. Others(t)
  BY DEF Li!TypeOK, Others, Li!read_pred, Li!Goto, Li!nodes, Li!history
<1>3. HoldersStay(t)
  BY <1>0 DEF Li!TypeOK, HoldersStay, Li!read_pred, Li!Goto, Li!nodes, Li!history
<1>4. AskedGrows(t)
  BY DEF AskedGrows, Li!read_pred, Li!Goto, Li!nodes, Li!history
<1>5. Quiet(t)
  BY <1>0, <1>1, <1>2, <1>3, <1>4 DEF Quiet, Li!TypeOK, FreshPc, Marking, Locking,
      Unlinked, PusherSays, OpSays, Leaving, Li!read_pred, Li!Goto, Li!nodes, Li!history
<1>k. Known' = Known /\ ListPlace' = ListPlace /\ Nodes' = Nodes
  BY <1>1, <1>5, QuietKinds DEF SameNodes, Nodes
<1>d. /\ Known \subseteq Li!Node /\ ListPlace \subseteq {0} \cup Li!Node /\ Li!Null \notin ListPlace \cup Known /\ Li!None \notin Worker
      /\ list_tail \in ListPlace /\ list_next[0] \in Known \cup {Li!Null} /\ \A m \in Known : pred[m] \in ListPlace
  BY <1>0, KnownNodes DEF KnownSays
<1>6. OpSays(t)'
  BY <1>0, <1>k, <1>d DEF Li!TypeOK, OpSays, InPush, FreshPc, Leaving, Locking,
      Li!Failing, ListPlace, Li!read_pred, Li!Goto, Li!nodes, Li!history
<1>7. LocksSay(t)'
  BY <1>0, <1>d DEF Li!TypeOK, LocksSay, OpSays, RemoverSays, Locking, Leaving,
      Li!Failing, Li!Node, Li!Ptr, Li!read_pred, Li!Goto, Li!nodes, Li!history
<1>8. RemoverSays(t)'
  BY <1>0, <1>1 DEF Li!TypeOK, RemoverSays, SameNodes, Li!read_pred, Li!Goto, Li!nodes,
      Li!history
<1> QED BY <1>5, <1>6, <1>7, <1>8, QuietStep

(* lock_pred keeps the shape of the list.                                   *)
LEMMA ListLockPred ==
  ASSUME Li!ListAssumption, Li!TypeOK, Shape, NEW t \in Worker, Li!lock_pred(t) PROVE Shape'
<1>0. /\ OpSays(t) /\ NewSays(t) /\ LocksSay(t) /\ RemoverSays(t) /\ KnownSays /\ Li!None \notin Worker
      /\ \A u \in Worker : PusherSays(u)
  BY DEF Shape, ThreadSays, Li!ListAssumption
<1>1. SameNodes
  BY DEF SameNodes, Li!lock_pred, Li!Goto, Li!acquire, Li!nodes, Li!history
<1>2. Others(t)
  BY DEF Li!TypeOK, Others, Li!lock_pred, Li!Goto, Li!acquire, Li!nodes, Li!history
<1>3. HoldersStay(t)
  BY <1>0 DEF Li!TypeOK, HoldersStay, Li!lock_pred, Li!Goto, Li!acquire, Li!nodes,
      Li!history
<1>4. AskedGrows(t)
  BY DEF AskedGrows, Li!lock_pred, Li!Goto, Li!acquire, Li!nodes, Li!history
<1>5. Quiet(t)
  BY <1>0, <1>1, <1>2, <1>3, <1>4 DEF Quiet, Li!TypeOK, FreshPc, Marking, Locking,
      Unlinked, PusherSays, OpSays, Leaving, Li!lock_pred, Li!Goto, Li!acquire,
      Li!nodes, Li!history
<1>k. Known' = Known /\ ListPlace' = ListPlace /\ Nodes' = Nodes
  BY <1>1, <1>5, QuietKinds DEF SameNodes, Nodes
<1>d. /\ Known \subseteq Li!Node /\ ListPlace \subseteq {0} \cup Li!Node /\ Li!Null \notin ListPlace \cup Known /\ Li!None \notin Worker
      /\ list_tail \in ListPlace /\ list_next[0] \in Known \cup {Li!Null} /\ \A m \in Known : pred[m] \in ListPlace
  BY <1>0, KnownNodes DEF KnownSays
<1>6. OpSays(t)'
  BY <1>0, <1>k, <1>d DEF Li!TypeOK, OpSays, InPush, FreshPc, Leaving, Locking,
      Li!Failing, ListPlace, Li!lock_pred, Li!Goto, Li!acquire, Li!nodes, Li!history
<1>7. LocksSay(t)'
  BY <1>0, <1>d DEF Li!TypeOK, LocksSay, OpSays, RemoverSays, Locking, Leaving,
      Li!Failing, Li!Node, Li!Ptr, Li!lock_pred, Li!Goto, Li!acquire, Li!nodes,
      Li!history
<1>8. RemoverSays(t)'
  BY <1>0, <1>1 DEF Li!TypeOK, RemoverSays, SameNodes, Li!lock_pred, Li!Goto,
      Li!acquire, Li!nodes, Li!history
<1> QED BY <1>5, <1>6, <1>7, <1>8, QuietStep

(* check_pred keeps the shape of the list.                                  *)
LEMMA ListCheckPred ==
  ASSUME Li!ListAssumption, Li!TypeOK, Shape, NEW t \in Worker, Li!check_pred(t) PROVE Shape'
<1>0. /\ OpSays(t) /\ NewSays(t) /\ LocksSay(t) /\ RemoverSays(t) /\ KnownSays /\ Li!None \notin Worker
      /\ \A u \in Worker : PusherSays(u)
  BY DEF Shape, ThreadSays, Li!ListAssumption
<1>1. SameNodes
  BY DEF SameNodes, Li!check_pred, Li!Goto, Li!Fail, Li!nodes, Li!history
<1>2. Others(t)
  BY DEF Li!TypeOK, Others, Li!check_pred, Li!Goto, Li!Fail, Li!nodes, Li!history
<1>3. HoldersStay(t)
  BY <1>0 DEF Li!TypeOK, HoldersStay, Li!check_pred, Li!Goto, Li!Fail, Li!nodes, Li!history
<1>4. AskedGrows(t)
  BY DEF AskedGrows, Li!check_pred, Li!Goto, Li!Fail, Li!nodes, Li!history
<1>5. Quiet(t)
  BY <1>0, <1>1, <1>2, <1>3, <1>4 DEF Quiet, Li!TypeOK, FreshPc, Marking, Locking,
      Unlinked, PusherSays, OpSays, Leaving, Li!check_pred, Li!Goto, Li!Fail, Li!nodes,
      Li!history
<1>k. Known' = Known /\ ListPlace' = ListPlace /\ Nodes' = Nodes
  BY <1>1, <1>5, QuietKinds DEF SameNodes, Nodes
<1>d. /\ Known \subseteq Li!Node /\ ListPlace \subseteq {0} \cup Li!Node /\ Li!Null \notin ListPlace \cup Known /\ Li!None \notin Worker
      /\ list_tail \in ListPlace /\ list_next[0] \in Known \cup {Li!Null} /\ \A m \in Known : pred[m] \in ListPlace
  BY <1>0, KnownNodes DEF KnownSays
<1>6. OpSays(t)'
  BY <1>0, <1>k, <1>d DEF Li!TypeOK, OpSays, InPush, FreshPc, Leaving, Locking,
      Li!Failing, ListPlace, Li!check_pred, Li!Goto, Li!Fail, Li!nodes, Li!history
<1>7. LocksSay(t)'
  BY <1>0, <1>d DEF Li!TypeOK, LocksSay, OpSays, RemoverSays, Locking, Leaving,
      Li!Failing, Li!Node, Li!Ptr, Li!check_pred, Li!Goto, Li!Fail, Li!nodes, Li!history
<1>8. RemoverSays(t)'
  BY <1>0, <1>1 DEF Li!TypeOK, RemoverSays, SameNodes, Li!check_pred, Li!Goto, Li!Fail,
      Li!nodes, Li!history
<1> QED BY <1>5, <1>6, <1>7, <1>8, QuietStep

(* lock_succ keeps the shape of the list.                                   *)
LEMMA ListLockSucc ==
  ASSUME Li!ListAssumption, Li!TypeOK, Shape, NEW t \in Worker, Li!lock_succ(t) PROVE Shape'
<1>0. /\ OpSays(t) /\ NewSays(t) /\ LocksSay(t) /\ RemoverSays(t) /\ KnownSays /\ Li!None \notin Worker
      /\ \A u \in Worker : PusherSays(u)
  BY DEF Shape, ThreadSays, Li!ListAssumption
<1>1. SameNodes
  BY DEF SameNodes, Li!lock_succ, Li!Goto, Li!acquire, Li!Fail, Li!nodes, Li!history
<1>2. Others(t)
  BY DEF Li!TypeOK, Others, Li!lock_succ, Li!Goto, Li!acquire, Li!Fail, Li!nodes, Li!history
<1>3. HoldersStay(t)
  BY <1>0 DEF Li!TypeOK, HoldersStay, Li!lock_succ, Li!Goto, Li!acquire, Li!Fail,
      Li!nodes, Li!history
<1>4. AskedGrows(t)
  BY DEF AskedGrows, Li!lock_succ, Li!Goto, Li!acquire, Li!Fail, Li!nodes, Li!history
<1>5. Quiet(t)
  BY <1>0, <1>1, <1>2, <1>3, <1>4 DEF Quiet, Li!TypeOK, FreshPc, Marking, Locking,
      Unlinked, PusherSays, OpSays, Leaving, Li!lock_succ, Li!Goto, Li!acquire, Li!Fail,
      Li!nodes, Li!history
<1>k. Known' = Known /\ ListPlace' = ListPlace /\ Nodes' = Nodes
  BY <1>1, <1>5, QuietKinds DEF SameNodes, Nodes
<1>d. /\ Known \subseteq Li!Node /\ ListPlace \subseteq {0} \cup Li!Node /\ Li!Null \notin ListPlace \cup Known /\ Li!None \notin Worker
      /\ list_tail \in ListPlace /\ list_next[0] \in Known \cup {Li!Null} /\ \A m \in Known : pred[m] \in ListPlace
  BY <1>0, KnownNodes DEF KnownSays
<1>6. OpSays(t)'
  BY <1>0, <1>k, <1>d DEF Li!TypeOK, OpSays, InPush, FreshPc, Leaving, Locking,
      Li!Failing, ListPlace, Li!lock_succ, Li!Goto, Li!acquire, Li!Fail, Li!nodes,
      Li!history
<1>7. LocksSay(t)'
  BY <1>0, <1>d DEF Li!TypeOK, LocksSay, OpSays, RemoverSays, Locking, Leaving,
      Li!Failing, Li!Node, Li!Ptr, Li!lock_succ, Li!Goto, Li!acquire, Li!Fail, Li!nodes,
      Li!history
<1>8. RemoverSays(t)'
  BY <1>0, <1>1 DEF Li!TypeOK, RemoverSays, SameNodes, Li!lock_succ, Li!Goto,
      Li!acquire, Li!Fail, Li!nodes, Li!history
<1> QED BY <1>5, <1>6, <1>7, <1>8, QuietStep

(* unlock_self keeps the shape of the list.                                 *)
LEMMA ListUnlockSelf ==
  ASSUME Li!ListAssumption, Li!TypeOK, Shape, NEW t \in Worker, Li!unlock_self(t) PROVE Shape'
<1>0. /\ OpSays(t) /\ NewSays(t) /\ LocksSay(t) /\ RemoverSays(t) /\ KnownSays /\ Li!None \notin Worker
      /\ \A u \in Worker : PusherSays(u)
  BY DEF Shape, ThreadSays, Li!ListAssumption
<1>1. SameNodes
  BY DEF SameNodes, Li!unlock_self, Li!Goto, Li!release, Li!nodes, Li!history
<1>2. Others(t)
  BY DEF Li!TypeOK, Others, Li!unlock_self, Li!Goto, Li!release, Li!nodes, Li!history
<1>3. HoldersStay(t)
  BY <1>0 DEF Li!TypeOK, HoldersStay, Li!unlock_self, Li!Goto, Li!release, Li!nodes,
      Li!history
<1>4. AskedGrows(t)
  BY DEF AskedGrows, Li!unlock_self, Li!Goto, Li!release, Li!nodes, Li!history
<1>5. Quiet(t)
  BY <1>0, <1>1, <1>2, <1>3, <1>4 DEF Quiet, Li!TypeOK, FreshPc, Marking, Locking,
      Unlinked, PusherSays, OpSays, Leaving, Li!unlock_self, Li!Goto, Li!release,
      Li!nodes, Li!history
<1>k. Known' = Known /\ ListPlace' = ListPlace /\ Nodes' = Nodes
  BY <1>1, <1>5, QuietKinds DEF SameNodes, Nodes
<1>d. /\ Known \subseteq Li!Node /\ ListPlace \subseteq {0} \cup Li!Node /\ Li!Null \notin ListPlace \cup Known /\ Li!None \notin Worker
      /\ list_tail \in ListPlace /\ list_next[0] \in Known \cup {Li!Null} /\ \A m \in Known : pred[m] \in ListPlace
  BY <1>0, KnownNodes DEF KnownSays
<1>6. OpSays(t)'
  BY <1>0, <1>k, <1>d DEF Li!TypeOK, OpSays, InPush, FreshPc, Leaving, Locking,
      Li!Failing, ListPlace, Li!unlock_self, Li!Goto, Li!release, Li!nodes, Li!history
<1>7. LocksSay(t)'
  BY <1>0, <1>d DEF Li!TypeOK, LocksSay, OpSays, RemoverSays, Locking, Leaving,
      Li!Failing, Li!Node, Li!Ptr, Li!unlock_self, Li!Goto, Li!release, Li!nodes,
      Li!history
<1>8. RemoverSays(t)'
  BY <1>0, <1>1 DEF Li!TypeOK, RemoverSays, SameNodes, Li!unlock_self, Li!Goto,
      Li!release, Li!nodes, Li!history
<1> QED BY <1>5, <1>6, <1>7, <1>8, QuietStep

(* drop keeps the shape of the list.                                        *)
LEMMA ListDrop ==
  ASSUME Li!ListAssumption, Li!TypeOK, Shape, NEW t \in Worker, Li!drop(t) PROVE Shape'
<1>0. /\ OpSays(t) /\ NewSays(t) /\ LocksSay(t) /\ RemoverSays(t) /\ KnownSays /\ Li!None \notin Worker
      /\ \A u \in Worker : PusherSays(u)
  BY DEF Shape, ThreadSays, Li!ListAssumption
<1>1. SameNodes
  BY DEF SameNodes, Li!drop, Li!Goto, Li!release, Li!nodes, Li!history
<1>2. Others(t)
  BY DEF Li!TypeOK, Others, Li!drop, Li!Goto, Li!release, Li!nodes, Li!history
<1>3. HoldersStay(t)
  BY <1>0 DEF Li!TypeOK, HoldersStay, Li!drop, Li!Goto, Li!release, Li!nodes, Li!history
<1>4. AskedGrows(t)
  BY DEF AskedGrows, Li!drop, Li!Goto, Li!release, Li!nodes, Li!history
<1>5. Quiet(t)
  BY <1>0, <1>1, <1>2, <1>3, <1>4 DEF Quiet, Li!TypeOK, FreshPc, Marking, Locking,
      Unlinked, PusherSays, OpSays, Leaving, Li!drop, Li!Goto, Li!release, Li!nodes,
      Li!history
<1>k. Known' = Known /\ ListPlace' = ListPlace /\ Nodes' = Nodes
  BY <1>1, <1>5, QuietKinds DEF SameNodes, Nodes
<1>d. /\ Known \subseteq Li!Node /\ ListPlace \subseteq {0} \cup Li!Node /\ Li!Null \notin ListPlace \cup Known /\ Li!None \notin Worker
      /\ list_tail \in ListPlace /\ list_next[0] \in Known \cup {Li!Null} /\ \A m \in Known : pred[m] \in ListPlace
  BY <1>0, KnownNodes DEF KnownSays
<1>6. OpSays(t)'
  BY <1>0, <1>k, <1>d DEF Li!TypeOK, OpSays, InPush, FreshPc, Leaving, Locking,
      Li!Failing, ListPlace, Li!drop, Li!Goto, Li!release, Li!nodes, Li!history
<1>7. LocksSay(t)'
  BY <1>0, <1>d DEF Li!TypeOK, LocksSay, OpSays, RemoverSays, Locking, Leaving,
      Li!Failing, Li!Node, Li!Ptr, Li!drop, Li!Goto, Li!release, Li!nodes, Li!history
<1>8. RemoverSays(t)'
  BY <1>0, <1>1 DEF Li!TypeOK, RemoverSays, SameNodes, Li!drop, Li!Goto, Li!release,
      Li!nodes, Li!history
<1> QED BY <1>5, <1>6, <1>7, <1>8, QuietStep

(* push_try keeps the shape of the list.                                    *)
LEMMA ListPushTry ==
  ASSUME Li!ListAssumption, Li!TypeOK, Shape, NEW t \in Worker, Li!push_try(t) PROVE Shape'
<1>0. /\ OpSays(t) /\ NewSays(t) /\ LocksSay(t) /\ RemoverSays(t) /\ KnownSays /\ Li!None \notin Worker
      /\ \A u \in Worker : PusherSays(u)
  BY DEF Shape, ThreadSays, Li!ListAssumption
<1>1. SameNodes
  BY DEF SameNodes, Li!push_try, Li!Goto, Li!acquire, Li!nodes, Li!history
<1>2. Others(t)
  BY DEF Li!TypeOK, Others, Li!push_try, Li!Goto, Li!acquire, Li!nodes, Li!history
<1>3. HoldersStay(t)
  BY <1>0 DEF Li!TypeOK, HoldersStay, Li!push_try, Li!Goto, Li!acquire, Li!nodes, Li!history
<1>4. AskedGrows(t)
  BY DEF AskedGrows, Li!push_try, Li!Goto, Li!acquire, Li!nodes, Li!history
<1>5. Quiet(t)
  BY <1>0, <1>1, <1>2, <1>3, <1>4 DEF Quiet, Li!TypeOK, FreshPc, Marking, Locking,
      Unlinked, PusherSays, OpSays, Leaving, Li!push_try, Li!Goto, Li!acquire, Li!nodes,
      Li!history
<1>k. Known' = Known /\ ListPlace' = ListPlace /\ Nodes' = Nodes
  BY <1>1, <1>5, QuietKinds DEF SameNodes, Nodes
<1>d. /\ Known \subseteq Li!Node /\ ListPlace \subseteq {0} \cup Li!Node /\ Li!Null \notin ListPlace \cup Known /\ Li!None \notin Worker
      /\ list_tail \in ListPlace /\ list_next[0] \in Known \cup {Li!Null} /\ \A m \in Known : pred[m] \in ListPlace
  BY <1>0, KnownNodes DEF KnownSays
<1>6. OpSays(t)'
  BY <1>0, <1>k, <1>d DEF Li!TypeOK, OpSays, InPush, FreshPc, Leaving, Locking,
      Li!Failing, ListPlace, Li!push_try, Li!Goto, Li!acquire, Li!nodes, Li!history
<1>7. LocksSay(t)'
  BY <1>0, <1>d DEF Li!TypeOK, LocksSay, OpSays, RemoverSays, Locking, Leaving,
      Li!Failing, Li!Node, Li!Ptr, Li!push_try, Li!Goto, Li!acquire, Li!nodes,
      Li!history
<1>8. RemoverSays(t)'
  BY <1>0, <1>1 DEF Li!TypeOK, RemoverSays, SameNodes, Li!push_try, Li!Goto, Li!acquire,
      Li!nodes, Li!history
<1> QED BY <1>5, <1>6, <1>7, <1>8, QuietStep

(* try_erase keeps the shape of the list.                                   *)
LEMMA ListTryErase ==
  ASSUME Li!ListAssumption, Li!TypeOK, Shape, NEW t \in Worker, NEW n \in Li!Node, Li!try_erase(t, n) PROVE Shape'
<1>0. /\ OpSays(t) /\ NewSays(t) /\ LocksSay(t) /\ RemoverSays(t) /\ KnownSays /\ Li!None \notin Worker
      /\ \A u \in Worker : PusherSays(u)
  BY DEF Shape, ThreadSays, Li!ListAssumption
<1>n. n \in Known /\ owner[n] = t
  <2>1. n \in Nodes /\ owner[n] = t /\ list_pc[t] = "idle"
    BY <1>0 DEF KnownSays, Li!try_erase, Li!Goto
  <2>2. \A u \in Worker : list_pc[u] \in FreshPc => owner[self[u]] = u
    BY DEF Shape, ThreadSays, OpSays, InPush
  <2> QED BY <2>1, <2>2 DEF Known, Unborn, FreshPc
<1>1. SameNodes
  BY DEF SameNodes, Li!try_erase, Li!Goto, Li!nodes
<1>2. Others(t)
  BY DEF Li!TypeOK, Others, Li!try_erase, Li!Goto, Li!nodes
<1>3. HoldersStay(t)
  BY <1>0 DEF Li!TypeOK, HoldersStay, Li!try_erase, Li!Goto, Li!nodes
<1>4. AskedGrows(t)
  BY <1>n DEF AskedGrows, Li!try_erase, Li!Goto, Li!nodes
<1>5. Quiet(t)
  BY <1>0, <1>1, <1>2, <1>3, <1>4 DEF Quiet, Li!TypeOK, FreshPc, Marking, Locking,
      Unlinked, PusherSays, OpSays, Leaving, Li!try_erase, Li!Goto, Li!nodes
<1>k. Known' = Known /\ ListPlace' = ListPlace /\ Nodes' = Nodes
  BY <1>1, <1>5, QuietKinds DEF SameNodes, Nodes
<1>d. /\ Known \subseteq Li!Node /\ ListPlace \subseteq {0} \cup Li!Node /\ Li!Null \notin ListPlace \cup Known /\ Li!None \notin Worker
      /\ list_tail \in ListPlace /\ list_next[0] \in Known \cup {Li!Null} /\ \A m \in Known : pred[m] \in ListPlace
  BY <1>0, KnownNodes DEF KnownSays
<1>6. OpSays(t)'
  BY <1>n, <1>0, <1>k, <1>d DEF Li!TypeOK, OpSays, InPush, FreshPc, Leaving, Locking,
      Li!Failing, ListPlace, Li!try_erase, Li!Goto, Li!nodes
<1>7. LocksSay(t)'
  BY <1>0, <1>d DEF Li!TypeOK, LocksSay, OpSays, RemoverSays, Locking, Leaving,
      Li!Failing, Li!Node, Li!Ptr, Li!try_erase, Li!Goto, Li!nodes
<1>8. RemoverSays(t)'
  BY <1>0, <1>1 DEF Li!TypeOK, RemoverSays, SameNodes, Li!try_erase, Li!Goto, Li!nodes
<1> QED BY <1>5, <1>6, <1>7, <1>8, QuietStep

(* push_link, when it has to load tail again.                               *)
LEMMA ListPushLinkAgain ==
  ASSUME Li!ListAssumption, Li!TypeOK, Shape, NEW t \in Worker, Li!push_link(t), list_pc'[t] # "ptail" PROVE Shape'
<1>0. /\ OpSays(t) /\ NewSays(t) /\ LocksSay(t) /\ RemoverSays(t) /\ KnownSays /\ Li!None \notin Worker
      /\ \A u \in Worker : PusherSays(u)
  BY DEF Shape, ThreadSays, Li!ListAssumption
<1>1. SameNodes
  BY Li!TypeOK DEF Li!TypeOK, SameNodes, Li!push_link, Li!Goto, Li!release, Li!history
<1>2. Others(t)
  BY DEF Li!TypeOK, Others, Li!push_link, Li!Goto, Li!release, Li!history
<1>3. HoldersStay(t)
  BY <1>0 DEF Li!TypeOK, HoldersStay, Li!push_link, Li!Goto, Li!release, Li!history
<1>4. AskedGrows(t)
  BY DEF AskedGrows, Li!push_link, Li!Goto, Li!release, Li!history
<1>5. Quiet(t)
  BY <1>0, <1>1, <1>2, <1>3, <1>4 DEF Quiet, Li!TypeOK, FreshPc, Marking, Locking,
      Unlinked, PusherSays, OpSays, Leaving, Li!push_link, Li!Goto, Li!release,
      Li!history
<1>k. Known' = Known /\ ListPlace' = ListPlace /\ Nodes' = Nodes
  BY <1>1, <1>5, QuietKinds DEF SameNodes, Nodes
<1>d. /\ Known \subseteq Li!Node /\ ListPlace \subseteq {0} \cup Li!Node /\ Li!Null \notin ListPlace \cup Known /\ Li!None \notin Worker
      /\ list_tail \in ListPlace /\ list_next[0] \in Known \cup {Li!Null} /\ \A m \in Known : pred[m] \in ListPlace
  BY <1>0, KnownNodes DEF KnownSays
<1>6. OpSays(t)'
  BY <1>0, <1>k, <1>d DEF Li!TypeOK, OpSays, InPush, FreshPc, Leaving, Locking,
      Li!Failing, ListPlace, Li!push_link, Li!Goto, Li!release, Li!history
<1>7. LocksSay(t)'
  BY <1>0, <1>d DEF Li!TypeOK, LocksSay, OpSays, RemoverSays, Locking, Leaving,
      Li!Failing, Li!Node, Li!Ptr, Li!push_link, Li!Goto, Li!release, Li!history
<1>8. RemoverSays(t)'
  BY <1>0, <1>1 DEF Li!TypeOK, RemoverSays, SameNodes, Li!push_link, Li!Goto,
      Li!release, Li!history
<1> QED BY <1>5, <1>6, <1>7, <1>8, QuietStep

(* mark, when another removal has marked the node.                          *)
LEMMA ListMarkGiveup ==
  ASSUME Li!ListAssumption, Li!TypeOK, Shape, NEW t \in Worker, Li!mark(t), self[t] \in list_removal PROVE Shape'
<1>0. /\ OpSays(t) /\ NewSays(t) /\ LocksSay(t) /\ RemoverSays(t) /\ KnownSays /\ Li!None \notin Worker
      /\ \A u \in Worker : PusherSays(u)
  BY DEF Shape, ThreadSays, Li!ListAssumption
<1>1. SameNodes
  BY Li!TypeOK DEF Li!TypeOK, SameNodes, Li!mark, Li!Goto, Li!release, Li!Giveup, Li!history
<1>2. Others(t)
  BY DEF Li!TypeOK, Others, Li!mark, Li!Goto, Li!release, Li!Giveup, Li!history
<1>3. HoldersStay(t)
  BY <1>0 DEF Li!TypeOK, HoldersStay, Li!mark, Li!Goto, Li!release, Li!Giveup, Li!history
<1>4. AskedGrows(t)
  BY DEF AskedGrows, Li!mark, Li!Goto, Li!release, Li!Giveup, Li!history
<1>5. Quiet(t)
  BY <1>0, <1>1, <1>2, <1>3, <1>4 DEF Quiet, Li!TypeOK, FreshPc, Marking, Locking,
      Unlinked, PusherSays, OpSays, Leaving, Li!mark, Li!Goto, Li!release, Li!Giveup,
      Li!history
<1>k. Known' = Known /\ ListPlace' = ListPlace /\ Nodes' = Nodes
  BY <1>1, <1>5, QuietKinds DEF SameNodes, Nodes
<1>d. /\ Known \subseteq Li!Node /\ ListPlace \subseteq {0} \cup Li!Node /\ Li!Null \notin ListPlace \cup Known /\ Li!None \notin Worker
      /\ list_tail \in ListPlace /\ list_next[0] \in Known \cup {Li!Null} /\ \A m \in Known : pred[m] \in ListPlace
  BY <1>0, KnownNodes DEF KnownSays
<1>6. OpSays(t)'
  BY <1>0, <1>k, <1>d DEF Li!TypeOK, OpSays, InPush, FreshPc, Leaving, Locking,
      Li!Failing, ListPlace, Li!mark, Li!Goto, Li!release, Li!Giveup, Li!history
<1>7. LocksSay(t)'
  BY <1>0, <1>d DEF Li!TypeOK, LocksSay, OpSays, RemoverSays, Locking, Leaving,
      Li!Failing, Li!Node, Li!Ptr, Li!mark, Li!Goto, Li!release, Li!Giveup, Li!history
<1>8. RemoverSays(t)'
  BY <1>0, <1>1 DEF Li!TypeOK, RemoverSays, SameNodes, Li!mark, Li!Goto, Li!release,
      Li!Giveup, Li!history
<1> QED BY <1>5, <1>6, <1>7, <1>8, QuietStep
-----------------------------------------------------------------------------
(* What the other threads say of their operations and locks is left alone   *)
(* by a step that only adds nodes and only releases locks of its own.       *)
Grows(t) ==
  /\ Others(t) /\ HoldersStay(t) /\ asked' = asked
  /\ Nodes \subseteq Nodes' /\ \A n \in Nodes : owner'[n] = owner[n]
  /\ Known \subseteq Known'

(* A step that only adds links and marks, and leaves the others their       *)
(* locals and locks, leaves them what they say of themselves.               *)
LEMMA OthersSay ==
  ASSUME Li!ListAssumption, Li!TypeOK, Shape, NEW t \in Worker, Grows(t), NEW u \in Worker, u # t
  PROVE  OpSays(u)' /\ LocksSay(u)'
<1>0. OpSays(u) /\ LocksSay(u) /\ ListPlace \subseteq ListPlace'
  BY DEF Shape, ThreadSays, ListPlace, Grows
<1>o. /\ list_pc'[u] = list_pc[u] /\ list_op'[u] = list_op[u] /\ self'[u] = self[u]
      /\ prev'[u] = prev[u] /\ succ'[u] = succ[u]
  BY DEF Grows, Others
<1>g. /\ asked' = asked /\ Known \subseteq Known' /\ Nodes \subseteq Nodes'
      /\ \A n \in Nodes : owner'[n] = owner[n]
  BY DEF Grows
<1>d. /\ list_pc[u] \in Leaving => list_pc[u] \notin InPush
      /\ list_pc[u] \in Leaving /\ list_op[u] = "erase" => self[u] \in Nodes
  <2>1. list_pc[u] \in Leaving \ {"valid"} => self[u] \in Nodes
    BY <1>0 DEF OpSays, Known
  <2>2. list_pc[u] = "valid" /\ list_op[u] = "erase" => self[u] \in Nodes
    BY <1>0 DEF OpSays, Known, Leaving, Shape, KnownSays
  <2> QED BY <2>1, <2>2 DEF Leaving, Locking, Li!Failing, InPush, FreshPc
<1>1. OpSays(u)'
  BY <1>0, <1>o, <1>g, <1>d DEF OpSays
<1>2. \A x \in {0} \cup Li!Node : holder[x] = u => holder'[x] = u
  BY DEF Grows, HoldersStay
<1>3. /\ list_pc[u] \in Locking => self[u] \in {0} \cup Li!Node
      /\ list_pc[u] \in {"link", "ptail", "check", "slock", "unlink", "back", "tail"} => prev[u] \in {0} \cup Li!Node
      /\ succ[u] # Li!Null => succ[u] \in {0} \cup Li!Node
  BY <1>0, KnownNodes DEF Li!TypeOK, OpSays, Leaving, Locking, Li!Ptr
<1>4. LocksSay(u)'
  BY <1>0, <1>o, <1>2, <1>3 DEF LocksSay
<1> QED BY <1>1, <1>4

(* A known node that is not marked is on the spine.                         *)
LEMMA OnSpine ==
  ASSUME MarkSays, NEW n \in ListPlace, n \notin list_removal PROVE n \in Spine
<1>1. CASE n \in Known
  BY <1>1 DEF MarkSays, Marking, Locking, Unlinked, Out, In, Spine
<1> QED BY <1>1 DEF ListPlace, Spine

(* While a push is about to store tail, nobody else is.                     *)
LEMMA LastAlone ==
  ASSUME Li!ListAssumption, Li!TypeOK, Shape, NEW t \in Worker, NEW u \in Worker, list_pc[t] = "ptail",
         LastMoves(u)
  PROVE  u = t
<1>0. /\ PusherSays(t) /\ PusherSays(u) /\ OpSays(t) /\ OpSays(u) /\ RemoverSays(u)
      /\ SpineSays /\ MarkSays
  BY DEF Shape, ThreadSays
<1>1. self[t] \in Spine /\ list_next[self[t]] = Li!Null /\ owner[self[t]] = t
  BY <1>0 DEF PusherSays, OpSays, InPush, Spine
<1>2. CASE list_pc[u] = "ptail"
  <2>1. self[u] \in Spine /\ list_next[self[u]] = Li!Null /\ owner[self[u]] = u
    BY <1>0, <1>2 DEF PusherSays, OpSays, InPush, Spine
  <2> QED BY <1>0, <1>1, <2>1 DEF SpineSays
<1>3. CASE list_pc[u] \in {"back", "tail"} /\ succ[u] = Li!Null
  <2>1. prev[u] \in Spine /\ list_next[prev[u]] = Li!Null
    BY <1>0, <1>3, OnSpine DEF RemoverSays, OpSays
  <2>2. prev[u] = self[t]
    BY <1>0, <1>1, <2>1 DEF SpineSays
  <2> QED BY <1>0, <1>3, <2>2 DEF PusherSays
<1> QED BY <1>2, <1>3 DEF LastMoves

(* push_back: a node is born.                                               *)
LEMMA ListPushBack ==
  ASSUME Li!ListAssumption, Li!TypeOK, Shape, NEW t \in Worker, Li!push_back(t) PROVE Shape'
<1>0. /\ \A u \in Worker : NewSays(u) /\ RemoverSays(u) /\ PusherSays(u) /\ OpSays(u)
      /\ KnownSays /\ MarkSays /\ SpineSays /\ EndSays /\ Li!None \notin Worker
  BY DEF Shape, ThreadSays, Li!ListAssumption
<1>c. list_created + 1 \in Li!Node /\ list_created + 1 \notin Nodes /\ Nodes' = Nodes \cup {list_created + 1}
  BY SMT DEF Li!ListAssumption, Li!TypeOK, Li!push_back, Li!Node, Nodes
<1>a. /\ list_pc[t] = "idle" /\ list_pc'[t] = "load" /\ list_op'[t] = "push" /\ self'[t] = list_created + 1
      /\ owner'[list_created + 1] = t /\ \A n \in Nodes : owner'[n] = owner[n]
      /\ \A n \in Li!Node : n \notin Nodes' => owner'[n] = owner[n]
      /\ UNCHANGED <<list_next, pred, list_removal, list_tail, holder, list_size, prev, succ, asked, taken, pops>>
  BY <1>c, KnownNodes DEF Li!TypeOK, Li!push_back, Li!Goto, Li!nodes
<1>o. \A u \in Worker \ {t} : /\ list_pc'[u] = list_pc[u] /\ list_op'[u] = list_op[u] /\ self'[u] = self[u]
                              /\ prev'[u] = prev[u] /\ succ'[u] = succ[u]
  BY <1>a DEF Li!TypeOK, Li!push_back, Li!Goto
<1>1. \A n \in Nodes : n \in Unborn' <=> n \in Unborn
  BY <1>c, <1>a, <1>o DEF Unborn, FreshPc
<1>2. list_created + 1 \in Unborn'
  BY <1>c, <1>a DEF Unborn, FreshPc
<1>3. Known' = Known
  BY <1>1, <1>2, <1>c DEF Known
<1>4. Out' = Out
  BY <1>a, <1>o DEF Out, Unlinked
<1>k. In' = In /\ Spine' = Spine /\ ListPlace' = ListPlace
  BY <1>3, <1>4 DEF In, Spine, ListPlace
<1>g. Grows(t)
  BY <1>c, <1>a, <1>o, <1>3 DEF Grows, Others, HoldersStay
<1>5. OpSays(t)'
  <2>1. list_created + 1 \notin asked
    BY <1>0, <1>c DEF KnownSays, Known
  <2> QED BY <1>a, <1>c, <2>1 DEF OpSays, InPush, FreshPc, Leaving, Locking, Li!Failing
<1>6. LocksSay(t)'
  BY <1>a DEF LocksSay, Locking
<1>7. \A u \in Worker : NewSays(u)'
  BY <1>0, <1>c, <1>a, <1>o DEF NewSays, KnownSays
<1>8. \A u \in Worker : RemoverSays(u)'
  BY <1>0, <1>a, <1>o DEF RemoverSays
<1>9. \A u \in Worker : PusherSays(u)'
  BY <1>0, <1>a, <1>o, <1>k DEF PusherSays
<1>10. KnownSays'
  BY <1>0, <1>c, <1>a, <1>3, <1>k DEF KnownSays
<1>11. MarkSays'
  <2>1. \A u \in Worker : /\ list_pc'[u] \in Marking <=> list_pc[u] \in Marking
                          /\ list_pc[u] \in Marking => self'[u] = self[u]
                          /\ list_pc'[u] = "size" <=> list_pc[u] = "size"
                          /\ list_pc[u] = "size" => self'[u] = self[u]
    BY <1>a, <1>o DEF Marking, Locking
  <2> QED BY <1>0, <1>a, <2>1 DEF MarkSays
<1>12. SpineSays'
  BY <1>0, <1>a, <1>o, <1>k DEF SpineSays
<1>13. EndSays'
  <2>1. ASSUME NEW u \in Worker PROVE LastMoves(u)' <=> LastMoves(u)
    BY <1>a, <1>o DEF LastMoves
  <2> QED BY <1>0, <1>a, <1>k, <2>1 DEF EndSays
<1> QED BY <1>g, <1>5, <1>6, <1>7, <1>8, <1>9, <1>10, <1>11, <1>12, <1>13, OthersSay
    DEF Shape, ThreadSays

(* push_link, when the last node is still the last: the new node joins      *)
(* the spine.                                                               *)
LEMMA ListPushLink ==
  ASSUME Li!ListAssumption, Li!TypeOK, Shape, NEW t \in Worker, Li!push_link(t), list_pc'[t] = "ptail" PROVE Shape'
<1>0. /\ \A u \in Worker : NewSays(u) /\ RemoverSays(u) /\ PusherSays(u) /\ OpSays(u) /\ LocksSay(u)
      /\ KnownSays /\ MarkSays /\ SpineSays /\ EndSays /\ Li!None \notin Worker
  BY DEF Shape, ThreadSays, Li!ListAssumption
<1> DEFINE s == self[t]
           p == prev[t]
<1>a. /\ list_pc[t] = "link" /\ list_next[p] = Li!Null /\ p \notin list_removal
      /\ pred' = [pred EXCEPT ![s] = p] /\ list_next' = [list_next EXCEPT ![p] = s]
      /\ UNCHANGED <<holder, list_removal, list_tail, list_size, list_created, list_op, self, prev, succ, owner, asked, taken, pops>>
  BY DEF Li!TypeOK, Li!push_link, Li!Goto, Li!history
<1>o. \A u \in Worker \ {t} : list_pc'[u] = list_pc[u]
  BY DEF Li!TypeOK, Li!push_link, Li!Goto
<1>s. /\ s \in Nodes /\ s \in Li!Node /\ s \in Unborn /\ s \notin Known /\ s \notin ListPlace /\ p \in ListPlace
      /\ owner[s] = t /\ p \in {0} \cup Li!Node /\ p # s /\ s # Li!Null
  <2>1. s \in Nodes /\ owner[s] = t /\ p \in ListPlace /\ s # 0
    BY <1>0, <1>a, KnownNodes DEF OpSays, InPush, FreshPc, Li!Node
  <2>2. s \in Unborn
    BY <1>a, <2>1, KnownNodes DEF Unborn, FreshPc
  <2> QED BY <2>1, <2>2, KnownNodes DEF Known, ListPlace, Li!Node, Li!Null
<1>n. /\ \A n \in {0} \cup Li!Node : n # p => list_next'[n] = list_next[n]
      /\ list_next'[p] = s /\ list_next'[s] = Li!Null
      /\ \A n \in Li!Node : n # s => pred'[n] = pred[n]
      /\ pred'[s] = p
  <2>1. list_next[s] = Li!Null
    BY <1>0, <1>a DEF NewSays, FreshPc
  <2> QED BY <1>a, <1>s, <2>1 DEF Li!TypeOK
<1>1. p \in Spine
  BY <1>0, <1>a, <1>s, OnSpine
<1>2. Unborn' = Unborn \ {s}
  <2>1. \A u \in Worker : list_pc[u] \in FreshPc /\ self[u] = s => u = t
    BY <1>0, <1>s DEF OpSays, InPush
  <2> QED BY <1>a, <1>o, <2>1 DEF Unborn, FreshPc
<1>3. Known' = Known \cup {s}
  <2>1. Nodes' = Nodes
    BY <1>a DEF Nodes
  <2> QED BY <1>2, <1>s, <2>1 DEF Known
<1>4. Out' = Out /\ s \notin Out
  <2>1. Out' = Out
    BY <1>a, <1>o DEF Out, Unlinked
  <2>2. taken[s] = 0
    BY <1>0, <1>a DEF NewSays, FreshPc
  <2>3. \A u \in Worker : list_pc[u] \in Unlinked => self[u] # s
    BY <1>0, <1>s DEF OpSays, Unlinked, Leaving, Locking
  <2> QED BY <2>1, <2>2, <2>3 DEF Out
<1>k. In' = In \cup {s} /\ Spine' = Spine \cup {s} /\ ListPlace' = ListPlace \cup {s}
  BY <1>3, <1>4 DEF In, Spine, ListPlace
<1>g. Grows(t)
  <2>1. Nodes' = Nodes
    BY <1>a DEF Nodes
  <2> QED BY <1>a, <1>o, <1>3, <2>1 DEF Grows, Others, HoldersStay
<1>5. OpSays(t)'
  <2>1. Nodes' = Nodes
    BY <1>a DEF Nodes
  <2> QED BY <1>0, <1>a, <1>s, <1>k, <2>1 DEF OpSays, InPush, FreshPc, Leaving, Locking,
      Li!Failing
<1>6. LocksSay(t)'
  BY <1>0, <1>a DEF LocksSay, Locking
<1>7. ASSUME NEW u \in Worker PROVE NewSays(u)'
  <2>1. SUFFICES ASSUME u # t, list_pc[u] \in FreshPc PROVE NewSays(u)'
    BY <1>o DEF NewSays, FreshPc
  <2>2. self[u] \in Li!Node /\ self[u] \in Unborn /\ self[u] \notin ListPlace
    BY <1>0, <2>1, KnownNodes DEF OpSays, InPush, Unborn, Known, ListPlace, Li!Node
  <2> QED BY <1>0, <1>a, <1>s, <1>n, <1>o, <2>1, <2>2 DEF NewSays
<1>8. ASSUME NEW u \in Worker PROVE RemoverSays(u)'
  <2>1. SUFFICES ASSUME u # t, list_pc[u] \in {"slock", "unlink", "back", "tail"} PROVE RemoverSays(u)'
    BY <1>o DEF RemoverSays
  <2>2. prev[u] # p /\ prev[u] \in {0} \cup Li!Node
    BY <1>0, <1>a, <2>1, KnownNodes DEF LocksSay, OpSays
  <2>3. list_pc[u] \in {"slock", "unlink"} => self[u] # p /\ self[u] \in {0} \cup Li!Node
    BY <1>0, <1>a, <2>1, KnownNodes DEF LocksSay, Locking, OpSays, Leaving
  <2>4. list_pc[u] = "unlink" /\ succ[u] # Li!Null => succ[u] \in Li!Node /\ succ[u] # s
    BY <1>0, <2>3, <1>s, KnownNodes DEF RemoverSays, KnownSays
  <2> QED BY <1>0, <1>a, <1>n, <1>o, <2>1, <2>2, <2>3, <2>4 DEF RemoverSays
<1>9. ASSUME NEW u \in Worker PROVE PusherSays(u)'
  <2>1. CASE u = t
    <3>1. list_tail # s
      BY <1>0, <1>s DEF KnownSays
    <3>2. \A v \in Worker : list_pc'[v] \in {"try", "link", "back", "tail"} => prev[v] # s
      BY <1>0, <1>s, <1>o DEF OpSays
    <3> QED BY <1>a, <1>n, <1>k, <2>1, <3>1, <3>2 DEF PusherSays
  <2>2. CASE u # t
    <3>1. SUFFICES ASSUME list_pc[u] = "ptail" PROVE FALSE
      BY <1>o, <2>2 DEF PusherSays
    <3>2. self[u] \in Spine /\ list_next[self[u]] = Li!Null /\ p # self[u]
      BY <1>0, <1>a, <3>1 DEF PusherSays, Spine
    <3> QED BY <1>0, <1>1, <1>a, <3>2 DEF SpineSays
  <2> QED BY <2>1, <2>2
<1>10. KnownSays'
  <2>1. \A n \in {0} \cup Li!Node : list_next'[n] = Li!Null \/ list_next'[n] \in Known'
    BY <1>0, <1>n, <1>3 DEF KnownSays
  <2>2. \A n \in Known' : pred'[n] \in ListPlace'
    BY <1>0, <1>n, <1>3, <1>k, <1>s, KnownNodes DEF KnownSays
  <2>3. Nodes' = Nodes
    BY <1>a DEF Nodes
  <2>4. \A n \in Li!Node : n \notin Nodes => list_next'[n] = Li!Null
    BY <1>0, <1>n, <1>s, <2>3 DEF KnownSays, ListPlace, Known, Li!Node
  <2> QED BY <1>0, <1>a, <1>3, <1>k, <2>1, <2>2, <2>3, <2>4 DEF KnownSays
<1>11. MarkSays'
  <2>1. \A u \in Worker : /\ list_pc'[u] \in Marking <=> list_pc[u] \in Marking
                          /\ list_pc'[u] = "size" <=> list_pc[u] = "size"
    BY <1>a, <1>o DEF Marking, Locking
  <2> QED BY <1>0, <1>a, <2>1 DEF MarkSays
<1>12. SpineSays'
  <2>0. In \subseteq Li!Node /\ Spine \subseteq {0} \cup Li!Node /\ s \notin In /\ s \notin Spine /\ Li!Null \notin In
    BY <1>s, KnownNodes DEF In, Spine, Known, Li!Node, Li!Null
  <2>a. /\ \A a, b \in Spine : list_next[a] = list_next[b] => a = b
        /\ \A a \in Spine : list_next[a] = Li!Null \/ list_next[a] \in In
    BY <1>0 DEF SpineSays
  <2>1. \A a \in Spine : a # p => list_next'[a] = list_next[a] /\ list_next[a] # Li!Null /\ list_next[a] # s
    <3> TAKE a \in Spine
    <3>1. a # p => list_next[a] # Li!Null
      BY <1>1, <1>a, <2>a
    <3>2. a # p => list_next'[a] = list_next[a]
      BY <1>n, <2>0
    <3>3. list_next[a] # s
      BY <1>s, <2>0, <2>a
    <3> QED BY <3>1, <3>2, <3>3
  <2>2. \A a, b \in Spine' : list_next'[a] = list_next'[b] => a = b
    BY <1>0, <1>k, <1>n, <1>s, <2>1 DEF SpineSays
  <2>3. \A a \in Spine' : list_next'[a] = Li!Null \/ list_next'[a] \in In'
    BY <1>0, <1>k, <1>n, <2>0, <2>1 DEF SpineSays
  <2>4. ASSUME NEW n \in In' PROVE \/ pred'[n] \in Spine' /\ list_next'[pred'[n]] = n
                                   \/ \E u \in Worker : list_pc'[u] = "back" /\ succ'[u] = n
    <3>1. CASE n = s
      BY <1>k, <1>n, <1>1, <3>1
    <3>2. CASE n \in In /\ n # s
      <4>1. pred'[n] = pred[n]
        BY <1>n, <2>0, <3>2
      <4>2. CASE pred[n] \in Spine /\ list_next[pred[n]] = n
        <5>1. pred[n] # p
          BY <1>a, <2>0, <3>2, <4>2
        <5> QED BY <1>k, <1>n, <2>0, <4>1, <4>2, <5>1
      <4>3. CASE \E u \in Worker : list_pc[u] = "back" /\ succ[u] = n
        BY <1>a, <1>o, <4>3
      <4> QED BY <1>0, <3>2, <4>2, <4>3 DEF SpineSays
    <3> QED BY <1>k, <3>1, <3>2, <2>4
  <2> QED BY <2>2, <2>3, <2>4 DEF SpineSays
<1>13. EndSays'
  BY DEF EndSays, LastMoves
<1> QED BY <1>g, <1>5, <1>6, <1>7, <1>8, <1>9, <1>10, <1>11, <1>12, <1>13, OthersSay
    DEF Shape, ThreadSays

(* push_tail keeps the shape of the list.                                   *)
LEMMA ListPushTail ==
  ASSUME Li!ListAssumption, Li!TypeOK, Shape, NEW t \in Worker, Li!push_tail(t) PROVE Shape'
<1>0. /\ \A u \in Worker : NewSays(u) /\ RemoverSays(u) /\ PusherSays(u) /\ OpSays(u) /\ LocksSay(u)
      /\ KnownSays /\ MarkSays /\ SpineSays /\ EndSays /\ Li!None \notin Worker
  BY DEF Shape, ThreadSays, Li!ListAssumption
<1>a. /\ list_pc[t] = "ptail" /\ list_pc'[t] = "psize" /\ list_tail' = self[t] /\ Li!release(t, {prev[t]})
      /\ UNCHANGED <<list_next, pred, list_removal, list_size, list_created, list_op, self, prev, succ, owner, asked, taken, pops>>
  BY DEF Li!TypeOK, Li!push_tail, Li!Goto, Li!history
<1>o. \A u \in Worker \ {t} : list_pc'[u] = list_pc[u]
  BY DEF Li!TypeOK, Li!push_tail, Li!Goto
<1>h. HoldersStay(t)
  BY <1>a, <1>0 DEF Li!TypeOK, HoldersStay, Li!release
<1>3. Unborn' = Unborn /\ Nodes' = Nodes /\ Out' = Out
  BY <1>a, <1>o DEF Unborn, FreshPc, Nodes, Out, Unlinked
<1>k. Known' = Known /\ In' = In /\ Spine' = Spine /\ ListPlace' = ListPlace
  BY <1>3 DEF Known, In, Spine, ListPlace
<1>g. Grows(t)
  BY <1>a, <1>o, <1>h, <1>3, <1>k DEF Grows, Others
<1>l. \A u \in Worker : u # t => ~LastMoves(u)
  BY <1>a, LastAlone
<1>s. self[t] \in In /\ list_next[self[t]] = Li!Null
  BY <1>0, <1>a DEF PusherSays
<1>5. OpSays(t)'
  BY <1>0, <1>a, <1>3 DEF OpSays, InPush, FreshPc, Leaving, Locking, Li!Failing
<1>6. LocksSay(t)'
  BY <1>a DEF LocksSay, Locking
<1>7. \A u \in Worker : NewSays(u)'
  BY <1>0, <1>a, <1>o DEF NewSays, FreshPc
<1>8. ASSUME NEW u \in Worker PROVE RemoverSays(u)'
  BY <1>0, <1>a, <1>o, <1>l DEF RemoverSays, LastMoves
<1>9. \A u \in Worker : PusherSays(u)'
  BY <1>a, <1>o, <1>l DEF PusherSays, LastMoves
<1>10. KnownSays'
  <2>1. list_tail' \in ListPlace'
    BY <1>a, <1>s, <1>k DEF In, ListPlace
  <2> QED BY <1>0, <1>a, <1>3, <1>k, <2>1 DEF KnownSays
<1>11. MarkSays'
  <2>1. \A u \in Worker : /\ list_pc'[u] \in Marking <=> list_pc[u] \in Marking
                          /\ list_pc'[u] = "size" <=> list_pc[u] = "size"
    BY <1>a, <1>o DEF Marking, Locking
  <2> QED BY <1>0, <1>a, <2>1 DEF MarkSays
<1>12. SpineSays'
  <2>1. \A u \in Worker : list_pc'[u] = "back" <=> list_pc[u] = "back"
    BY <1>a, <1>o
  <2> QED BY <1>0, <1>a, <1>k, <2>1 DEF SpineSays
<1>13. EndSays'
  BY <1>a, <1>k, <1>s DEF EndSays, Spine
<1> QED BY <1>g, <1>5, <1>6, <1>7, <1>8, <1>9, <1>10, <1>11, <1>12, <1>13, OthersSay
    DEF Shape, ThreadSays

(* mark, when nobody has marked the node.                                   *)
LEMMA ListMark ==
  ASSUME Li!ListAssumption, Li!TypeOK, Shape, NEW t \in Worker, Li!mark(t), self[t] \notin list_removal PROVE Shape'
<1>0. /\ \A u \in Worker : NewSays(u) /\ RemoverSays(u) /\ PusherSays(u) /\ OpSays(u) /\ LocksSay(u)
      /\ KnownSays /\ MarkSays /\ SpineSays /\ EndSays /\ Li!None \notin Worker
  BY DEF Shape, ThreadSays, Li!ListAssumption
<1> DEFINE s == self[t]
<1>a. /\ list_pc[t] = "mark" /\ list_pc'[t] = "pred" /\ list_removal' = list_removal \cup {s} /\ s \notin list_removal
      /\ UNCHANGED <<list_next, pred, list_tail, holder, list_size, list_created, list_op, self, prev, succ, owner, asked, taken, pops>>
  BY DEF Li!TypeOK, Li!mark, Li!Goto, Li!history
<1>o. \A u \in Worker \ {t} : list_pc'[u] = list_pc[u]
  BY DEF Li!TypeOK, Li!mark, Li!Goto
<1>3. Unborn' = Unborn /\ Nodes' = Nodes /\ Out' = Out
  BY <1>a, <1>o DEF Unborn, FreshPc, Nodes, Out, Unlinked
<1>k. Known' = Known /\ In' = In /\ Spine' = Spine /\ ListPlace' = ListPlace
  BY <1>3 DEF Known, In, Spine, ListPlace
<1>g. Grows(t)
  BY <1>a, <1>o, <1>3, <1>k DEF Grows, Others, HoldersStay
<1>s. s \in Known /\ holder[s] = t /\ taken[s] = 0
  <2>1. s \in Known /\ holder[s] = t
    BY <1>0, <1>a DEF OpSays, LocksSay, Locking, Leaving
  <2> QED BY <1>0, <1>a, <2>1, KnownNodes DEF MarkSays, Li!TypeOK
<1>5. OpSays(t)'
  BY <1>0, <1>a, <1>k DEF OpSays, InPush, FreshPc, Leaving, Locking, Li!Failing
<1>6. LocksSay(t)'
  BY <1>a, <1>s DEF LocksSay
<1>7. \A u \in Worker : NewSays(u)'
  <2>1. \A u \in Worker : list_pc[u] \in FreshPc => self[u] # s
    BY <1>s, KnownNodes DEF Known, Unborn
  <2> QED BY <1>0, <1>a, <1>o, <2>1 DEF NewSays, FreshPc
<1>8. ASSUME NEW u \in Worker PROVE RemoverSays(u)'
  <2>1. SUFFICES ASSUME u # t, list_pc[u] \in {"slock", "unlink", "back", "tail"} PROVE RemoverSays(u)'
    BY <1>a, <1>o DEF RemoverSays
  <2>2. prev[u] # s /\ (list_pc[u] # "slock" /\ succ[u] # Li!Null => succ[u] # s)
    BY <1>0, <1>s, <2>1 DEF LocksSay
  <2> QED BY <1>0, <1>a, <1>o, <2>1, <2>2 DEF RemoverSays
<1>9. ASSUME NEW u \in Worker PROVE PusherSays(u)'
  <2>1. SUFFICES ASSUME u # t, list_pc[u] = "ptail" PROVE PusherSays(u)'
    BY <1>a, <1>o DEF PusherSays
  <2>2. prev[u] # s
    BY <1>0, <1>s, <2>1 DEF LocksSay
  <2>3. \A v \in Worker : list_pc'[v] \in {"try", "link", "back", "tail"} => list_pc[v] = list_pc'[v]
    BY <1>a, <1>o
  <2> QED BY <1>0, <1>a, <1>k, <1>o, <2>1, <2>2, <2>3 DEF PusherSays
<1>10. KnownSays'
  BY <1>0, <1>a, <1>3, <1>k, <1>s DEF KnownSays, Known
<1>11. MarkSays'
  <2>1. \A u \in Worker \ {t} : /\ list_pc'[u] \in Marking <=> list_pc[u] \in Marking
                                /\ list_pc'[u] = "size" <=> list_pc[u] = "size"
    BY <1>o
  <2>2. list_pc'[t] \in Marking /\ list_pc'[t] # "size" /\ list_pc[t] \notin Marking
    BY <1>a DEF Marking, Locking
  <2>3. \A u \in Worker \ {t} : list_pc[u] \in Marking => self[u] # s
    BY <1>0, <1>a DEF MarkSays
  <2> QED BY <1>0, <1>a, <1>s, <2>1, <2>2, <2>3 DEF MarkSays
<1>12. SpineSays'
  <2>1. \A u \in Worker : list_pc'[u] = "back" <=> list_pc[u] = "back"
    BY <1>a, <1>o
  <2> QED BY <1>0, <1>a, <1>k, <2>1 DEF SpineSays
<1>13. EndSays'
  <2>1. ASSUME NEW u \in Worker PROVE LastMoves(u)' <=> LastMoves(u)
    BY <1>a, <1>o DEF LastMoves
  <2> QED BY <1>0, <1>a, <1>k, <2>1 DEF EndSays
<1> QED BY <1>g, <1>5, <1>6, <1>7, <1>8, <1>9, <1>10, <1>11, <1>12, <1>13, OthersSay
    DEF Shape, ThreadSays

(* unlink: the node leaves the spine, its successor does not know yet.      *)
LEMMA ListUnlink ==
  ASSUME Li!ListAssumption, Li!TypeOK, Shape, NEW t \in Worker, Li!unlink(t) PROVE Shape'
<1>0. /\ \A u \in Worker : NewSays(u) /\ RemoverSays(u) /\ PusherSays(u) /\ OpSays(u) /\ LocksSay(u)
      /\ KnownSays /\ MarkSays /\ SpineSays /\ EndSays /\ Li!None \notin Worker
  BY DEF Shape, ThreadSays, Li!ListAssumption
<1> DEFINE s == self[t]
           p == prev[t]
           q == succ[t]
<1>a. /\ list_pc[t] = "unlink" /\ list_pc'[t] = "back" /\ list_next' = [list_next EXCEPT ![p] = q]
      /\ UNCHANGED <<pred, list_removal, list_tail, holder, list_size, list_created, list_op, self, prev, succ, owner, asked, taken, pops>>
  BY DEF Li!TypeOK, Li!unlink, Li!Goto, Li!history
<1>o. \A u \in Worker \ {t} : list_pc'[u] = list_pc[u]
  BY DEF Li!TypeOK, Li!unlink, Li!Goto
<1>s. /\ s \in Known /\ p \in ListPlace /\ p # s /\ q # s /\ holder[s] = t /\ holder[p] = t
      /\ (q # Li!Null => holder[q] = t) /\ p \notin list_removal /\ list_next[p] = s /\ list_next[s] = q
      /\ (q # Li!Null => pred[q] = s /\ q \notin list_removal)
  BY <1>0, <1>a DEF OpSays, Leaving, Locking, LocksSay, RemoverSays
<1>n. /\ \A n \in {0} \cup Li!Node : n # p => list_next'[n] = list_next[n]
      /\ list_next'[p] = q /\ list_next'[s] = q /\ p \in {0} \cup Li!Node /\ s \in Li!Node
  BY <1>a, <1>s, KnownNodes DEF Li!TypeOK
<1>1. p \in Spine
  BY <1>0, <1>s, OnSpine
<1>2. s \in In /\ s # Li!Null /\ s # 0
  <2>1. taken[s] = 0 /\ \A u \in Worker : list_pc[u] \in Unlinked => self[u] # s
    BY <1>0, <1>a DEF MarkSays, Marking, Locking, Unlinked
  <2> QED BY <1>s, <2>1, KnownNodes DEF In, Out, Li!Node, Li!Null
<1>3. Unborn' = Unborn /\ Nodes' = Nodes
  BY <1>a, <1>o DEF Unborn, FreshPc, Nodes
<1>4. Out' = Out \cup {s}
  BY <1>a, <1>o, <1>n DEF Out, Unlinked
<1>k. Known' = Known /\ ListPlace' = ListPlace /\ In' = In \ {s} /\ Spine' = Spine \ {s}
  BY <1>2, <1>3, <1>4 DEF Known, In, Spine, ListPlace
<1>i. /\ \A a, b \in Spine : list_next[a] = list_next[b] => a = b
      /\ \A a \in Spine : list_next[a] = Li!Null \/ list_next[a] \in In
      /\ In \subseteq Spine /\ In \subseteq Li!Node /\ Spine \subseteq {0} \cup Li!Node
      /\ Li!Null \notin Spine
  BY <1>0, KnownNodes DEF SpineSays, Spine
<1>g. Grows(t)
  BY <1>a, <1>o, <1>3, <1>k DEF Grows, Others, HoldersStay
<1>5. OpSays(t)'
  BY <1>0, <1>a, <1>k DEF OpSays, InPush, FreshPc, Leaving, Locking, Li!Failing
<1>6. LocksSay(t)'
  BY <1>a, <1>s DEF LocksSay
<1>7. ASSUME NEW u \in Worker PROVE NewSays(u)'
  <2>1. SUFFICES ASSUME u # t, list_pc[u] \in FreshPc PROVE NewSays(u)'
    BY <1>a, <1>o DEF NewSays, FreshPc
  <2>2. self[u] \in Li!Node /\ self[u] \notin ListPlace
    BY <1>0, <2>1, KnownNodes DEF OpSays, InPush, Unborn, Known, ListPlace, Li!Node
  <2> QED BY <1>0, <1>a, <1>s, <1>n, <1>o, <2>1, <2>2 DEF NewSays
<1>u. \A u \in Worker \ {t} : list_pc[u] = "ptail" => prev[u] # p /\ self[u] # s /\ prev[u] \in Spine
  <2> TAKE u \in Worker \ {t}
  <2> HAVE list_pc[u] = "ptail"
  <2>1. prev[u] # p
    BY <1>0, <1>s DEF LocksSay
  <2>2. prev[u] \in Spine /\ list_next[prev[u]] = self[u]
    BY <1>0, OnSpine DEF PusherSays, OpSays
  <2> QED BY <1>1, <1>i, <1>s, <2>1, <2>2
<1>l. q = Li!Null => \A u \in Worker : ~LastMoves(u)
  <2> SUFFICES ASSUME q = Li!Null, NEW u \in Worker, LastMoves(u) PROVE FALSE
    OBVIOUS
  <2>0. u # t
    BY <1>a DEF LastMoves
  <2>1. CASE list_pc[u] = "ptail"
    <3>1. self[u] \in Spine /\ list_next[self[u]] = Li!Null
      BY <1>0, <2>1 DEF PusherSays, Spine
    <3> QED BY <1>i, <1>s, <1>2, <1>u, <2>0, <2>1, <3>1
  <2>2. CASE list_pc[u] \in {"back", "tail"} /\ succ[u] = Li!Null
    <3>1. prev[u] \in Spine /\ list_next[prev[u]] = Li!Null /\ holder[prev[u]] = u
      BY <1>0, <2>2, OnSpine DEF RemoverSays, OpSays, LocksSay
    <3>2. prev[u] = s
      BY <1>i, <1>s, <1>2, <3>1
    <3> QED BY <1>s, <2>0, <3>1, <3>2
  <2> QED BY <2>1, <2>2 DEF LastMoves
<1>t. q = Li!Null => list_tail = s
  BY <1>0, <1>i, <1>l, <1>s, <1>2 DEF EndSays
<1>8. ASSUME NEW u \in Worker PROVE RemoverSays(u)'
  <2>0. CASE u = t
    BY <1>a, <1>n, <1>s, <1>t, <2>0 DEF RemoverSays
  <2>1. CASE u # t /\ list_pc[u] \in {"slock", "unlink", "back", "tail"}
    <3>1. prev[u] # p /\ prev[u] \in {0} \cup Li!Node
      BY <1>0, <1>s, <2>1, KnownNodes DEF LocksSay, OpSays
    <3>2. list_pc[u] \in {"slock", "unlink"} => self[u] # p /\ self[u] \in {0} \cup Li!Node
      BY <1>0, <1>s, <2>1, KnownNodes DEF LocksSay, Locking, OpSays, Leaving
    <3> QED BY <1>0, <1>a, <1>n, <1>o, <2>1, <3>1, <3>2 DEF RemoverSays
  <2> QED BY <1>o, <2>0, <2>1 DEF RemoverSays
<1>9. ASSUME NEW u \in Worker PROVE PusherSays(u)'
  <2>1. SUFFICES ASSUME u # t, list_pc[u] = "ptail" PROVE PusherSays(u)'
    BY <1>a, <1>o DEF PusherSays
  <2>2. /\ prev[u] \notin list_removal /\ list_next[prev[u]] = self[u] /\ list_next[self[u]] = Li!Null
        /\ self[u] \in In /\ list_tail # self[u]
        /\ \A v \in Worker : list_pc[v] \in {"try", "link", "back", "tail"} => prev[v] # self[u]
    BY <1>0, <2>1 DEF PusherSays
  <2>3. prev[u] # p /\ self[u] # s /\ prev[u] \in Spine
    BY <1>u, <2>1
  <2>4. self[u] # p
    BY <1>s, <1>2, <2>2
  <2>5. list_next'[prev[u]] = self[u] /\ list_next'[self[u]] = Li!Null /\ self[u] \in In'
    BY <1>i, <1>k, <1>n, <2>2, <2>3, <2>4
  <2>6. \A v \in Worker : list_pc'[v] \in {"try", "link", "back", "tail"} => prev[v] # self[u]
    BY <1>o, <2>2, <2>4
  <2> QED BY <1>a, <1>o, <2>1, <2>2, <2>5, <2>6 DEF PusherSays
<1>10. KnownSays'
  <2>1. q = Li!Null \/ q \in Known
    BY <1>s, <1>n, <1>0 DEF KnownSays
  <2>2. \A n \in Li!Node : n \notin Nodes => n # p
    BY <1>s DEF ListPlace, Known, Li!Node
  <2> QED BY <1>0, <1>a, <1>n, <1>3, <1>k, <2>1, <2>2 DEF KnownSays
<1>11. MarkSays'
  <2>1. \A u \in Worker : /\ list_pc'[u] \in Marking <=> list_pc[u] \in Marking
                          /\ list_pc'[u] = "size" <=> list_pc[u] = "size"
    BY <1>a, <1>o DEF Marking, Locking
  <2> QED BY <1>0, <1>a, <2>1 DEF MarkSays
<1>12. SpineSays'
  <2>1. \A a \in Spine' : a # p => list_next'[a] = list_next[a] /\ list_next[a] # s
    BY <1>1, <1>i, <1>k, <1>n, <1>s
  <2>2. \A a \in Spine' : a # p => list_next'[a] # q
    <3> TAKE a \in Spine'
    <3>1. a \in Spine /\ a # s /\ s \in Spine
      BY <1>2, <1>i, <1>k
    <3>2. list_next[a] # list_next[s]
      BY <1>i, <3>1
    <3> QED BY <1>s, <2>1, <3>2
  <2>3. \A a, b \in Spine' : list_next'[a] = list_next'[b] => a = b
    BY <1>i, <1>k, <1>n, <2>1, <2>2
  <2>4. \A a \in Spine' : list_next'[a] = Li!Null \/ list_next'[a] \in In'
    <3>1. q = Li!Null \/ q \in In
      BY <1>2, <1>i, <1>s
    <3> QED BY <1>i, <1>k, <1>n, <1>s, <2>1, <3>1
  <2>5. ASSUME NEW n \in In' PROVE \/ pred'[n] \in Spine' /\ list_next'[pred'[n]] = n
                                   \/ \E u \in Worker : list_pc'[u] = "back" /\ succ'[u] = n
    <3>0. n \in In /\ n # s /\ pred'[n] = pred[n]
      BY <1>a, <1>k, <2>5
    <3>1. CASE pred[n] \in Spine /\ list_next[pred[n]] = n
      <4>1. pred[n] # p
        BY <1>s, <3>0, <3>1
      <4>2. CASE pred[n] = s
        BY <1>a, <1>s, <3>1, <4>2
      <4>3. CASE pred[n] # s
        BY <1>i, <1>k, <1>n, <3>0, <3>1, <4>1, <4>3
      <4> QED BY <4>2, <4>3
    <3>2. CASE \E u \in Worker : list_pc[u] = "back" /\ succ[u] = n
      BY <1>a, <1>o, <3>2
    <3> QED BY <1>0, <3>0, <3>1, <3>2 DEF SpineSays
  <2> QED BY <2>3, <2>4, <2>5 DEF SpineSays
<1>13. EndSays'
  <2>1. SUFFICES ASSUME \A u \in Worker : ~LastMoves(u)' PROVE list_tail' \in Spine' /\ list_next'[list_tail'] = Li!Null
    BY DEF EndSays
  <2>2. q # Li!Null
    BY <1>a, <2>1 DEF LastMoves
  <2>3. \A u \in Worker : ~LastMoves(u)
    BY <1>a, <1>o, <2>1 DEF LastMoves
  <2>4. list_tail \in Spine /\ list_next[list_tail] = Li!Null
    BY <1>0, <2>3 DEF EndSays
  <2> QED BY <1>a, <1>i, <1>k, <1>n, <1>s, <1>2, <2>2, <2>4
<1> QED BY <1>g, <1>5, <1>6, <1>7, <1>8, <1>9, <1>10, <1>11, <1>12, <1>13, OthersSay
    DEF Shape, ThreadSays

(* link_back: the successor learns of its predecessor.                      *)
LEMMA ListLinkBack ==
  ASSUME Li!ListAssumption, Li!TypeOK, Shape, NEW t \in Worker, Li!link_back(t) PROVE Shape'
<1>0. /\ \A u \in Worker : NewSays(u) /\ RemoverSays(u) /\ PusherSays(u) /\ OpSays(u) /\ LocksSay(u)
      /\ KnownSays /\ MarkSays /\ SpineSays /\ EndSays /\ Li!None \notin Worker
  BY DEF Shape, ThreadSays, Li!ListAssumption
<1> DEFINE s == self[t]
           p == prev[t]
           q == succ[t]
<1>a. /\ list_pc[t] = "back" /\ list_pc'[t] = "tail" /\ pred' = IF q = Li!Null THEN pred ELSE [pred EXCEPT ![q] = p]
      /\ UNCHANGED <<list_next, list_removal, list_tail, holder, list_size, taken, list_op, self, prev, succ, owner, asked, pops, list_created>>
  BY DEF Li!TypeOK, Li!link_back, Li!Goto, Li!history, Li!nodes
<1>o. \A u \in Worker \ {t} : list_pc'[u] = list_pc[u]
  BY DEF Li!TypeOK, Li!link_back, Li!Goto
<1>h. HoldersStay(t)
  BY <1>0, <1>a DEF Li!TypeOK, HoldersStay, Li!release
<1>3. Unborn' = Unborn /\ Nodes' = Nodes /\ Out' = Out
  BY <1>a, <1>o DEF Unborn, FreshPc, Nodes, Out, Unlinked
<1>k. Known' = Known /\ In' = In /\ Spine' = Spine /\ ListPlace' = ListPlace
  BY <1>3 DEF Known, In, Spine, ListPlace
<1>g. Grows(t)
  BY <1>a, <1>o, <1>h, <1>3, <1>k DEF Grows, Others
<1>s. /\ s \in Known /\ p \in ListPlace /\ p # s /\ q # s /\ holder[s] = t /\ holder[p] = t
      /\ (q # Li!Null => holder[q] = t) /\ p \notin list_removal /\ list_next[p] = q
      /\ (q # Li!Null => q \notin list_removal)
  BY <1>0, <1>a DEF OpSays, Leaving, Locking, LocksSay, RemoverSays
<1>1. p \in Spine /\ p \in {0} \cup Li!Node
  BY <1>0, <1>s, OnSpine, KnownNodes
<1>2. q # Li!Null => (q \in In /\ q \in Li!Node)
  BY <1>0, <1>1, <1>s, KnownNodes DEF SpineSays
<1>n. /\ q # Li!Null => pred'[q] = p
      /\ \A n \in Li!Node : n # q => pred'[n] = pred[n]
  BY <1>a, <1>1, <1>2 DEF Li!TypeOK
<1>5. OpSays(t)'
  BY <1>0, <1>a, <1>k DEF OpSays, InPush, FreshPc, Leaving, Locking, Li!Failing
<1>6. LocksSay(t)'
  BY <1>a, <1>s DEF LocksSay, Locking
<1>7. \A u \in Worker : NewSays(u)'
  BY <1>0, <1>a, <1>o DEF NewSays, FreshPc
<1>8. ASSUME NEW u \in Worker PROVE RemoverSays(u)'
  <2>0. CASE u = t
    BY <1>0, <1>a, <2>0 DEF RemoverSays
  <2>1. CASE u # t
    <3>1. ASSUME list_pc[u] = "unlink", succ[u] # Li!Null PROVE pred'[succ[u]] = pred[succ[u]]
      <4>1. holder[succ[u]] = u
        BY <1>0, <3>1 DEF LocksSay
      <4>2. succ[u] # q
        BY <1>s, <2>1, <3>1, <4>1
      <4>3. succ[u] \in Li!Node
        <5>1. self[u] \in Known /\ succ[u] = list_next[self[u]]
          BY <1>0, <3>1 DEF OpSays, Leaving, Locking, RemoverSays
        <5> QED BY <1>0, <3>1, <5>1, KnownNodes DEF KnownSays
      <4> QED BY <1>n, <4>2, <4>3
    <3> QED BY <1>0, <1>a, <1>o, <2>1, <3>1 DEF RemoverSays
  <2> QED BY <2>0, <2>1
<1>9. \A u \in Worker : PusherSays(u)'
  BY <1>0, <1>a, <1>o, <1>k DEF PusherSays
<1>10. KnownSays'
  <2>1. \A n \in Known : pred'[n] \in ListPlace
    BY <1>0, <1>n, <1>s, <1>2, KnownNodes DEF KnownSays
  <2> QED BY <1>0, <1>a, <1>3, <1>k, <2>1 DEF KnownSays
<1>11. MarkSays'
  <2>1. \A u \in Worker : /\ list_pc'[u] \in Marking <=> list_pc[u] \in Marking
                          /\ list_pc'[u] = "size" <=> list_pc[u] = "size"
    BY <1>a, <1>o DEF Marking, Locking
  <2> QED BY <1>0, <1>a, <2>1 DEF MarkSays
<1>12. SpineSays'
  <2>1. ASSUME NEW n \in In PROVE \/ pred'[n] \in Spine /\ list_next[pred'[n]] = n
                                  \/ \E u \in Worker : list_pc'[u] = "back" /\ succ[u] = n
    <3>0. n \in Li!Node /\ n # Li!Null
      BY KnownNodes DEF Li!Node, Li!Null
    <3>1. CASE n = q
      BY <1>1, <1>n, <1>s, <3>0, <3>1
    <3>2. CASE n # q
      <4>1. pred'[n] = pred[n]
        BY <1>n, <3>0, <3>2
      <4>2. (\E u \in Worker : list_pc[u] = "back" /\ succ[u] = n)
              => \E u \in Worker : list_pc'[u] = "back" /\ succ[u] = n
        BY <1>o, <3>2
      <4> QED BY <1>0, <4>1, <4>2 DEF SpineSays
    <3> QED BY <3>1, <3>2
  <2> QED BY <1>0, <1>a, <1>k, <2>1 DEF SpineSays
<1>13. EndSays'
  <2>1. ASSUME NEW u \in Worker PROVE LastMoves(u)' <=> LastMoves(u)
    BY <1>a, <1>o DEF LastMoves
  <2> QED BY <1>0, <1>a, <1>k, <2>1 DEF EndSays
<1> QED BY <1>g, <1>5, <1>6, <1>7, <1>8, <1>9, <1>10, <1>11, <1>12, <1>13, OthersSay
    DEF Shape, ThreadSays

(* move_tail keeps the shape of the list.                                   *)
LEMMA ListMoveTail ==
  ASSUME Li!ListAssumption, Li!TypeOK, Shape, NEW t \in Worker, Li!move_tail(t) PROVE Shape'
<1>0. /\ \A u \in Worker : NewSays(u) /\ RemoverSays(u) /\ PusherSays(u) /\ OpSays(u) /\ LocksSay(u)
      /\ KnownSays /\ MarkSays /\ SpineSays /\ EndSays /\ Li!None \notin Worker
  BY DEF Shape, ThreadSays, Li!ListAssumption
<1> DEFINE s == self[t]
           p == prev[t]
           q == succ[t]
<1>a. /\ list_pc[t] = "tail" /\ list_pc'[t] = "release" /\ list_tail' = (IF list_tail = s THEN p ELSE list_tail) /\ Li!release(t, {p, q})
      /\ UNCHANGED <<list_next, pred, list_removal, list_size, taken, list_op, self, prev, succ, owner, asked, pops, list_created>>
  BY DEF Li!TypeOK, Li!move_tail, Li!Goto, Li!history, Li!nodes
<1>o. \A u \in Worker \ {t} : list_pc'[u] = list_pc[u]
  BY DEF Li!TypeOK, Li!move_tail, Li!Goto
<1>h. HoldersStay(t)
  BY <1>0, <1>a DEF Li!TypeOK, HoldersStay, Li!release
<1>3. Unborn' = Unborn /\ Nodes' = Nodes /\ Out' = Out
  BY <1>a, <1>o DEF Unborn, FreshPc, Nodes, Out, Unlinked
<1>k. Known' = Known /\ In' = In /\ Spine' = Spine /\ ListPlace' = ListPlace
  BY <1>3 DEF Known, In, Spine, ListPlace
<1>g. Grows(t)
  BY <1>a, <1>o, <1>h, <1>3, <1>k DEF Grows, Others
<1>s. /\ s \in Known /\ p \in ListPlace /\ p # s /\ q # s /\ holder[s] = t
      /\ p \notin list_removal /\ list_next[p] = q /\ (q = Li!Null => list_tail = s) /\ s \in Li!Node
  BY <1>0, <1>a, KnownNodes DEF OpSays, Leaving, Locking, LocksSay, RemoverSays
<1>1. p \in Spine
  BY <1>0, <1>s, OnSpine
<1>2. s \notin Spine
  BY <1>a, <1>s DEF Spine, In, Out, Unlinked, Li!Node
<1>5. OpSays(t)'
  BY <1>0, <1>a, <1>k DEF OpSays, InPush, FreshPc, Leaving, Locking, Li!Failing
<1>6. LocksSay(t)'
  <2>1. holder'[s] = t
    BY <1>a, <1>s DEF Li!TypeOK, Li!release
  <2> QED BY <1>a, <2>1 DEF LocksSay, Locking
<1>7. \A u \in Worker : NewSays(u)'
  BY <1>0, <1>a, <1>o DEF NewSays, FreshPc
<1>8. ASSUME NEW u \in Worker PROVE RemoverSays(u)'
  <2>1. u # t /\ list_pc[u] \in {"back", "tail"} => self[u] # s
    BY <1>0, <1>a DEF MarkSays, Marking, Locking
  <2> QED BY <1>0, <1>a, <1>o, <2>1 DEF RemoverSays
<1>9. ASSUME NEW u \in Worker PROVE PusherSays(u)'
  <2>1. list_pc[u] = "ptail" => list_tail' # self[u]
    BY <1>0, <1>a DEF PusherSays
  <2>2. \A v \in Worker : list_pc'[v] \in {"try", "link", "back", "tail"} => list_pc'[v] = list_pc[v]
    BY <1>a, <1>o
  <2> QED BY <1>0, <1>a, <1>o, <1>k, <2>1, <2>2 DEF PusherSays
<1>10. KnownSays'
  <2>1. list_tail' \in ListPlace'
    BY <1>0, <1>a, <1>k, <1>s DEF KnownSays
  <2> QED BY <1>0, <1>a, <1>3, <1>k, <2>1 DEF KnownSays
<1>11. MarkSays'
  <2>1. \A u \in Worker : /\ list_pc'[u] \in Marking <=> list_pc[u] \in Marking
                          /\ list_pc'[u] = "size" <=> list_pc[u] = "size"
    BY <1>a, <1>o DEF Marking, Locking
  <2> QED BY <1>0, <1>a, <2>1 DEF MarkSays
<1>12. SpineSays'
  <2>1. \A u \in Worker : list_pc'[u] = "back" <=> list_pc[u] = "back"
    BY <1>a, <1>o
  <2> QED BY <1>0, <1>a, <1>k, <2>1 DEF SpineSays
<1>13. EndSays'
  <2>1. SUFFICES ASSUME \A u \in Worker : ~LastMoves(u)' PROVE list_tail' \in Spine /\ list_next[list_tail'] = Li!Null
    BY <1>a, <1>k DEF EndSays
  <2>2. CASE q = Li!Null
    BY <1>1, <1>a, <1>s, <2>2
  <2>3. CASE q # Li!Null
    <3>1. \A u \in Worker : ~LastMoves(u)
      BY <1>a, <1>o, <2>1, <2>3 DEF LastMoves
    <3>2. list_tail \in Spine /\ list_next[list_tail] = Li!Null
      BY <1>0, <3>1 DEF EndSays
    <3> QED BY <1>2, <1>a, <3>2
  <2> QED BY <2>2, <2>3
<1> QED BY <1>g, <1>5, <1>6, <1>7, <1>8, <1>9, <1>10, <1>11, <1>12, <1>13, OthersSay
    DEF Shape, ThreadSays

(* removed keeps the shape of the list.                                     *)
LEMMA ListRemoved ==
  ASSUME Li!ListAssumption, Li!TypeOK, Shape, NEW t \in Worker, Li!removed(t) PROVE Shape'
<1>0. /\ \A u \in Worker : NewSays(u) /\ RemoverSays(u) /\ PusherSays(u) /\ OpSays(u) /\ LocksSay(u)
      /\ KnownSays /\ MarkSays /\ SpineSays /\ EndSays /\ Li!None \notin Worker
  BY DEF Shape, ThreadSays, Li!ListAssumption
<1> DEFINE s == self[t]
           p == prev[t]
           q == succ[t]
<1>a. /\ list_pc[t] = "release" /\ list_pc'[t] = "size" /\ taken' = [taken EXCEPT ![s] = @ + 1]
      /\ UNCHANGED <<list_next, pred, list_removal, list_tail, holder, list_op, self, prev, succ, owner, asked, pops, list_created>>
  BY DEF Li!TypeOK, Li!removed, Li!Goto, Li!history, Li!nodes
<1>o. \A u \in Worker \ {t} : list_pc'[u] = list_pc[u]
  BY DEF Li!TypeOK, Li!removed, Li!Goto
<1>h. HoldersStay(t)
  BY <1>0, <1>a DEF Li!TypeOK, HoldersStay, Li!release
<1>n. taken[s] \in Nat /\ taken'[s] = taken[s] + 1 /\ \A n \in Li!Node : n # s => taken'[n] = taken[n]
  BY <1>0, <1>a, KnownNodes DEF Li!TypeOK, OpSays, Leaving, Locking
<1>m. taken'[s] > 0
  BY <1>n
<1>3. Unborn' = Unborn /\ Nodes' = Nodes /\ Out' = Out
  <2>1. Unborn' = Unborn /\ Nodes' = Nodes
    BY <1>a, <1>o DEF Unborn, FreshPc, Nodes
  <2>2. \A n \in Li!Node : n # s => (n \in Out' <=> n \in Out)
    BY <1>a, <1>o, <1>n DEF Out, Unlinked
  <2>3. s \in Li!Node => s \in Out /\ s \in Out'
    BY <1>a, <1>m DEF Out, Unlinked
  <2>4. Out \subseteq Li!Node /\ Out' \subseteq Li!Node
    BY DEF Out
  <2> QED BY <2>1, <2>2, <2>3, <2>4
<1>k. Known' = Known /\ In' = In /\ Spine' = Spine /\ ListPlace' = ListPlace
  BY <1>3 DEF Known, In, Spine, ListPlace
<1>g. Grows(t)
  BY <1>a, <1>o, <1>h, <1>3, <1>k DEF Grows, Others
<1>s. s \in Known /\ s \in Li!Node /\ s \in Nodes /\ s \in list_removal
  BY <1>0, <1>a, KnownNodes DEF OpSays, Leaving, Locking, Li!Failing, MarkSays, Marking,
      Known
<1>f. \A u \in Worker : list_pc[u] \in FreshPc => self[u] # s
  BY <1>s, KnownNodes DEF Known, Unborn
<1>w. holder[s] = t
  BY <1>0, <1>a DEF LocksSay, Locking
<1>5. OpSays(t)'
  BY <1>0, <1>a, <1>k DEF OpSays, InPush, FreshPc, Leaving, Locking, Li!Failing
<1>6. LocksSay(t)'
  BY <1>a, <1>w DEF LocksSay
<1>7. \A u \in Worker : NewSays(u)'
  <2>1. \A u \in Worker : list_pc[u] \in FreshPc => self[u] \in Li!Node
    BY <1>0, KnownNodes DEF OpSays, InPush
  <2> QED BY <1>0, <1>a, <1>f, <1>n, <1>o, <2>1 DEF NewSays, FreshPc
<1>8. \A u \in Worker : RemoverSays(u)'
  BY <1>0, <1>a, <1>o DEF RemoverSays
<1>9. \A u \in Worker : PusherSays(u)'
  BY <1>0, <1>a, <1>o, <1>k DEF PusherSays
<1>10. KnownSays'
  <2>1. \A n \in Li!Node : n \notin Nodes => taken'[n] = 0
    BY <1>0, <1>n, <1>s DEF KnownSays
  <2> QED BY <1>0, <1>a, <1>3, <1>k, <2>1 DEF KnownSays
<1>11. MarkSays'
  <2>1. \A u \in Worker : /\ list_pc'[u] \in Marking <=> list_pc[u] \in Marking
                          /\ u # t => (list_pc'[u] = "size" <=> list_pc[u] = "size")
                          /\ u # t /\ list_pc[u] \in Marking => self[u] # s
    BY <1>0, <1>a, <1>o DEF Marking, Locking, MarkSays
  <2>2. \A u \in Worker : list_pc[u] \in Marking => self[u] \in Li!Node
    BY <1>0, KnownNodes DEF OpSays, Marking, Leaving, Locking, Li!Failing
  <2>3. /\ \A u \in Worker : list_pc'[u] \in Marking => self[u] \in list_removal
        /\ \A u, v \in Worker : list_pc'[u] \in Marking /\ list_pc'[v] \in Marking /\ self[u] = self[v] => u = v
    BY <1>0, <2>1 DEF MarkSays
  <2>4. /\ \A u \in Worker : list_pc'[u] \in Marking \ {"size"} => taken'[self[u]] = 0
        /\ \A u \in Worker : list_pc'[u] = "size" => taken'[self[u]] > 0
    <3>1. \A u \in Worker \ {t} : list_pc[u] \in Marking => taken'[self[u]] = taken[self[u]]
      BY <1>n, <2>1, <2>2
    <3> QED BY <1>0, <1>a, <1>m, <2>1, <3>1 DEF MarkSays, Marking, Locking
  <2>5. \A n \in Li!Node : taken'[n] > 0 => n \in list_removal
    BY <1>0, <1>n, <1>s DEF MarkSays
  <2>6. \A n \in list_removal : taken'[n] > 0 \/ \E u \in Worker : list_pc'[u] \in Marking /\ self[u] = n
    <3>1. list_removal \subseteq Li!Node
      BY DEF Li!TypeOK
    <3> QED BY <1>0, <1>m, <1>n, <2>1, <3>1 DEF MarkSays
  <2> QED BY <1>a, <2>3, <2>4, <2>5, <2>6 DEF MarkSays
<1>12. SpineSays'
  <2>1. \A u \in Worker : list_pc'[u] = "back" <=> list_pc[u] = "back"
    BY <1>a, <1>o
  <2> QED BY <1>0, <1>a, <1>k, <2>1 DEF SpineSays
<1>13. EndSays'
  <2>1. ASSUME NEW u \in Worker PROVE LastMoves(u)' <=> LastMoves(u)
    BY <1>a, <1>o DEF LastMoves
  <2> QED BY <1>0, <1>a, <1>k, <2>1 DEF EndSays
<1> QED BY <1>g, <1>5, <1>6, <1>7, <1>8, <1>9, <1>10, <1>11, <1>12, <1>13, OthersSay
    DEF Shape, ThreadSays

(* return keeps the shape of the list.                                      *)
LEMMA ListReturn ==
  ASSUME Li!ListAssumption, Li!TypeOK, Shape, NEW t \in Worker, Li!return(t) PROVE Shape'
<1>0. /\ \A u \in Worker : NewSays(u) /\ RemoverSays(u) /\ PusherSays(u) /\ OpSays(u) /\ LocksSay(u)
      /\ KnownSays /\ MarkSays /\ SpineSays /\ EndSays /\ Li!None \notin Worker
  BY DEF Shape, ThreadSays, Li!ListAssumption
<1> DEFINE s == self[t]
           p == prev[t]
           q == succ[t]
<1>a. /\ list_pc[t] = "size" /\ list_pc'[t] = "idle" /\ Li!release(t, {s})
      /\ UNCHANGED <<list_next, pred, list_removal, list_tail, list_size, taken, list_op, self, prev, succ, owner, asked, pops, list_created>>
  BY DEF Li!TypeOK, Li!return, Li!Goto, Li!history, Li!nodes
<1>o. \A u \in Worker \ {t} : list_pc'[u] = list_pc[u]
  BY DEF Li!TypeOK, Li!return, Li!Goto
<1>h. HoldersStay(t)
  BY <1>0, <1>a DEF Li!TypeOK, HoldersStay, Li!release
<1>3. Unborn' = Unborn /\ Nodes' = Nodes /\ Out' = Out
  BY <1>a, <1>o DEF Unborn, FreshPc, Nodes, Out, Unlinked
<1>k. Known' = Known /\ In' = In /\ Spine' = Spine /\ ListPlace' = ListPlace
  BY <1>3 DEF Known, In, Spine, ListPlace
<1>g. Grows(t)
  BY <1>a, <1>o, <1>h, <1>3, <1>k DEF Grows, Others
<1>s. s \in Li!Node /\ taken[s] > 0
  BY <1>0, <1>a, KnownNodes DEF OpSays, Leaving, Locking, MarkSays
<1>5. OpSays(t)'
  BY <1>0, <1>a, <1>k DEF OpSays, InPush, FreshPc, Leaving, Locking, Li!Failing
<1>6. LocksSay(t)'
  BY <1>a, <1>s DEF LocksSay, Locking
<1>7. \A u \in Worker : NewSays(u)'
  BY <1>0, <1>a, <1>o DEF NewSays, FreshPc
<1>8. \A u \in Worker : RemoverSays(u)'
  BY <1>0, <1>a, <1>o DEF RemoverSays
<1>9. \A u \in Worker : PusherSays(u)'
  BY <1>0, <1>a, <1>o, <1>k DEF PusherSays
<1>10. KnownSays'
  BY <1>0, <1>a, <1>3, <1>k DEF KnownSays
<1>11. MarkSays'
  <2>1. \A u \in Worker : /\ u # t => (list_pc'[u] \in Marking <=> list_pc[u] \in Marking)
                          /\ list_pc'[u] \in Marking => list_pc[u] \in Marking
                          /\ list_pc'[u] = "size" => list_pc[u] = "size"
                          /\ list_pc[u] = "size" /\ u # t => list_pc'[u] = "size"
    BY <1>a, <1>o DEF Marking, Locking
  <2>2. \A n \in list_removal : taken[n] > 0 \/ \E u \in Worker : list_pc'[u] \in Marking /\ self[u] = n
    BY <1>0, <1>s, <2>1 DEF MarkSays
  <2>3. \A u \in Worker : list_pc'[u] \in Marking \ {"size"} => list_pc[u] \in Marking \ {"size"}
    BY <1>a, <1>o DEF Marking, Locking
  <2> QED BY <1>0, <1>a, <2>1, <2>2, <2>3 DEF MarkSays
<1>12. SpineSays'
  <2>1. \A u \in Worker : list_pc'[u] = "back" <=> list_pc[u] = "back"
    BY <1>a, <1>o
  <2> QED BY <1>0, <1>a, <1>k, <2>1 DEF SpineSays
<1>13. EndSays'
  <2>1. ASSUME NEW u \in Worker PROVE LastMoves(u)' <=> LastMoves(u)
    BY <1>a, <1>o DEF LastMoves
  <2> QED BY <1>0, <1>a, <1>k, <2>1 DEF EndSays
<1> QED BY <1>g, <1>5, <1>6, <1>7, <1>8, <1>9, <1>10, <1>11, <1>12, <1>13, OthersSay
    DEF Shape, ThreadSays

(* clearRemoval keeps the shape of the list.                                *)
LEMMA ListClearRemoval ==
  ASSUME Li!ListAssumption, Li!TypeOK, Shape, NEW t \in Worker, Li!clearRemoval(t) PROVE Shape'
<1>0. /\ \A u \in Worker : NewSays(u) /\ RemoverSays(u) /\ PusherSays(u) /\ OpSays(u) /\ LocksSay(u)
      /\ KnownSays /\ MarkSays /\ SpineSays /\ EndSays /\ Li!None \notin Worker
  BY DEF Shape, ThreadSays, Li!ListAssumption
<1> DEFINE s == self[t]
           p == prev[t]
           q == succ[t]
<1>a. /\ list_pc[t] = "clear" /\ list_pc'[t] = "drop" /\ list_removal' = list_removal \ {s}
      /\ UNCHANGED <<list_next, pred, list_tail, holder, list_size, taken, list_op, self, prev, succ, owner, asked, pops, list_created>>
  BY DEF Li!TypeOK, Li!clearRemoval, Li!Goto, Li!history, Li!nodes
<1>o. \A u \in Worker \ {t} : list_pc'[u] = list_pc[u]
  BY DEF Li!TypeOK, Li!clearRemoval, Li!Goto
<1>h. HoldersStay(t)
  BY <1>0, <1>a DEF Li!TypeOK, HoldersStay, Li!release
<1>3. Unborn' = Unborn /\ Nodes' = Nodes /\ Out' = Out
  BY <1>a, <1>o DEF Unborn, FreshPc, Nodes, Out, Unlinked
<1>k. Known' = Known /\ In' = In /\ Spine' = Spine /\ ListPlace' = ListPlace
  BY <1>3 DEF Known, In, Spine, ListPlace
<1>g. Grows(t)
  BY <1>a, <1>o, <1>h, <1>3, <1>k DEF Grows, Others
<1>s. s \in Known /\ s \in Li!Node /\ s \in Nodes /\ s \in list_removal
  BY <1>0, <1>a, KnownNodes DEF OpSays, Leaving, Locking, Li!Failing, MarkSays, Marking,
      Known
<1>f. \A u \in Worker : list_pc[u] \in FreshPc => self[u] # s
  BY <1>s, KnownNodes DEF Known, Unborn
<1>5. OpSays(t)'
  BY <1>0, <1>a, <1>k DEF OpSays, InPush, FreshPc, Leaving, Locking, Li!Failing
<1>6. LocksSay(t)'
  BY <1>a, <1>s DEF LocksSay, Locking
<1>7. \A u \in Worker : NewSays(u)'
  BY <1>0, <1>a, <1>o DEF NewSays, FreshPc
<1>8. \A u \in Worker : RemoverSays(u)'
  BY <1>0, <1>a, <1>o DEF RemoverSays
<1>9. \A u \in Worker : PusherSays(u)'
  BY <1>0, <1>a, <1>o, <1>k DEF PusherSays
<1>10. KnownSays'
  BY <1>0, <1>a, <1>3, <1>k DEF KnownSays
<1>11. MarkSays'
  <2>1. \A u \in Worker : /\ u # t => (list_pc'[u] \in Marking <=> list_pc[u] \in Marking)
                          /\ list_pc'[u] \in Marking => list_pc[u] \in Marking /\ u # t /\ self[u] # s
                          /\ list_pc'[u] = "size" <=> list_pc[u] = "size"
    BY <1>0, <1>a, <1>o DEF Marking, Locking, Li!Failing, MarkSays
  <2>2. \A n \in list_removal' : taken[n] > 0 \/ \E u \in Worker : list_pc'[u] \in Marking /\ self[u] = n
    BY <1>0, <1>a, <2>1 DEF MarkSays
  <2>3. taken[s] = 0
    BY <1>0, <1>a DEF MarkSays, Marking, Locking
  <2>4. \A n \in Li!Node : taken[n] > 0 => n \in list_removal'
    BY <1>0, <1>a, <2>3 DEF MarkSays
  <2> QED BY <1>0, <1>a, <2>1, <2>2, <2>4 DEF MarkSays
<1>12. SpineSays'
  <2>1. \A u \in Worker : list_pc'[u] = "back" <=> list_pc[u] = "back"
    BY <1>a, <1>o
  <2> QED BY <1>0, <1>a, <1>k, <2>1 DEF SpineSays
<1>13. EndSays'
  <2>1. ASSUME NEW u \in Worker PROVE LastMoves(u)' <=> LastMoves(u)
    BY <1>a, <1>o DEF LastMoves
  <2> QED BY <1>0, <1>a, <1>k, <2>1 DEF EndSays
<1> QED BY <1>g, <1>5, <1>6, <1>7, <1>8, <1>9, <1>10, <1>11, <1>12, <1>13, OthersSay
    DEF Shape, ThreadSays

-----------------------------------------------------------------------------
(* Every step keeps the shape of the list.                                  *)
LEMMA ShapeStep == ASSUME Li!ListAssumption, Li!TypeOK, Shape, [Li!Next]_Li!vars PROVE Shape'
<1>1. CASE UNCHANGED Li!vars
  <2>1. /\ Unborn' = Unborn /\ Nodes' = Nodes /\ Out' = Out
    BY <1>1 DEF Li!vars, Li!nodes, Li!history, Unborn, Nodes, Out
  <2>2. Known' = Known /\ In' = In /\ Spine' = Spine /\ ListPlace' = ListPlace
    BY <2>1 DEF Known, In, Spine, ListPlace
  <2> USE <1>1, <2>1, <2>2 DEF Li!vars, Li!nodes, Li!history, Shape
  <2>3. ASSUME NEW t \in Worker PROVE ThreadSays(t)'
    <3>1. OpSays(t)' /\ NewSays(t)' /\ LocksSay(t)' /\ RemoverSays(t)'
      BY DEF ThreadSays, OpSays, NewSays, LocksSay, RemoverSays
    <3>2. PusherSays(t)'
      BY DEF ThreadSays, PusherSays
    <3> QED BY <3>1, <3>2 DEF ThreadSays
  <2>4. KnownSays' /\ MarkSays'
    BY DEF KnownSays, MarkSays
  <2>5. SpineSays'
    BY DEF SpineSays
  <2>6. EndSays'
    BY DEF EndSays, LastMoves
  <2> QED BY <2>3, <2>4, <2>5, <2>6
<1>2. ASSUME NEW t \in Worker, Li!push_back(t) PROVE Shape'
  BY <1>2, ListPushBack
<1>3. ASSUME NEW t \in Worker, Li!push_load(t) PROVE Shape'
  BY <1>3, ListPushLoad
<1>4. ASSUME NEW t \in Worker, Li!push_try(t) PROVE Shape'
  BY <1>4, ListPushTry
<1>5. ASSUME NEW t \in Worker, Li!push_link(t) PROVE Shape'
  BY <1>5, ListPushLink, ListPushLinkAgain
<1>6. ASSUME NEW t \in Worker, Li!push_tail(t) PROVE Shape'
  BY <1>6, ListPushTail
<1>7. ASSUME NEW t \in Worker, Li!push_size(t) PROVE Shape'
  BY <1>7, ListPushSize
<1>8. ASSUME NEW t \in Worker, Li!try_pop_front(t) PROVE Shape'
  BY <1>8, ListTryPopFront
<1>9. ASSUME NEW t \in Worker, Li!pop_first(t) PROVE Shape'
  BY <1>9, ListPopFirst
<1>10. ASSUME NEW t \in Worker, NEW n \in Li!Node, Li!try_erase(t, n) PROVE Shape'
  BY <1>10, ListTryErase
<1>11. ASSUME NEW t \in Worker, Li!valid(t) PROVE Shape'
  BY <1>11, ListValid
<1>12. ASSUME NEW t \in Worker, Li!lock_self(t) PROVE Shape'
  BY <1>12, ListLockSelf
<1>13. ASSUME NEW t \in Worker, Li!mark(t) PROVE Shape'
  BY <1>13, ListMark, ListMarkGiveup
<1>14. ASSUME NEW t \in Worker, Li!read_pred(t) PROVE Shape'
  BY <1>14, ListReadPred
<1>15. ASSUME NEW t \in Worker, Li!lock_pred(t) PROVE Shape'
  BY <1>15, ListLockPred
<1>16. ASSUME NEW t \in Worker, Li!check_pred(t) PROVE Shape'
  BY <1>16, ListCheckPred
<1>17. ASSUME NEW t \in Worker, Li!lock_succ(t) PROVE Shape'
  BY <1>17, ListLockSucc
<1>18. ASSUME NEW t \in Worker, Li!unlink(t) PROVE Shape'
  BY <1>18, ListUnlink
<1>19. ASSUME NEW t \in Worker, Li!link_back(t) PROVE Shape'
  BY <1>19, ListLinkBack
<1>20. ASSUME NEW t \in Worker, Li!move_tail(t) PROVE Shape'
  BY <1>20, ListMoveTail
<1>21. ASSUME NEW t \in Worker, Li!removed(t) PROVE Shape'
  BY <1>21, ListRemoved
<1>22. ASSUME NEW t \in Worker, Li!return(t) PROVE Shape'
  BY <1>22, ListReturn
<1>23. ASSUME NEW t \in Worker, Li!unlock_self(t) PROVE Shape'
  BY <1>23, ListUnlockSelf
<1>24. ASSUME NEW t \in Worker, Li!clearRemoval(t) PROVE Shape'
  BY <1>24, ListClearRemoval
<1>25. ASSUME NEW t \in Worker, Li!drop(t) PROVE Shape'
  BY <1>25, ListDrop
<1> QED BY <1>1, <1>2, <1>3, <1>4, <1>5, <1>6, <1>7, <1>8, <1>9, <1>10, <1>11, <1>12,
    <1>13, <1>14, <1>15, <1>16, <1>17, <1>18, <1>19, <1>20, <1>21, <1>22, <1>23, <1>24,
    <1>25 DEF Li!Next, Li!Step

(* Every step keeps the types.                                              *)
LEMMA TypeStep == ASSUME Li!ListAssumption, Li!TypeOK, Shape, [Li!Next]_Li!vars PROVE Li!TypeOK'
<1>0. /\ \A t \in Worker : OpSays(t) /\ RemoverSays(t) /\ KnownSays
      /\ Known \subseteq Li!Node /\ ListPlace \subseteq {0} \cup Li!Node
  BY KnownNodes DEF Shape, ThreadSays
<1>m. Nodes \subseteq Li!Node
  BY SMT DEF Li!TypeOK, Li!ListAssumption, Nodes, Li!Node
<1>1. CASE UNCHANGED Li!vars
  BY <1>1 DEF Li!vars, Li!nodes, Li!history, Li!TypeOK
<1>2. ASSUME NEW t \in Worker, Li!push_back(t) PROVE Li!TypeOK'
  BY <1>2, SMT DEF Li!ListAssumption, Li!TypeOK, Li!Node, Li!Ptr, Li!push_back, Li!Goto,
      Li!nodes
<1>3. ASSUME NEW t \in Worker, Li!push_load(t) PROVE Li!TypeOK'
  BY <1>0, <1>3 DEF Li!TypeOK, Li!Ptr, Li!Removing, Li!Failing, Li!push_load, Li!Goto,
      Li!nodes, Li!history
<1>4. ASSUME NEW t \in Worker, Li!push_try(t) PROVE Li!TypeOK'
  <2>0. TRUE
    BY <1>0, <1>m, <1>4 DEF Li!TypeOK, OpSays, Leaving, Locking, Li!Failing, InPush,
        FreshPc, Li!Ptr, Li!push_try, Li!Goto, Li!acquire, Li!nodes, Li!history
  <2>1. list_next' \in [{0} \cup Li!Node -> Li!Ptr] /\ pred' \in [Li!Node -> Li!Ptr]
    BY <2>0, <1>4 DEF Li!TypeOK, Li!Ptr, Li!Removing, Li!Failing, Li!push_try, Li!Goto,
        Li!acquire, Li!nodes, Li!history
  <2>2. list_removal' \subseteq Li!Node /\ list_tail' \in {0} \cup Li!Node
    BY <2>0, <1>4 DEF Li!TypeOK, Li!Ptr, Li!Removing, Li!Failing, Li!push_try, Li!Goto,
        Li!acquire, Li!nodes, Li!history
  <2>3. holder' \in [{0} \cup Li!Node -> Worker \cup {Li!None}]
    BY <2>0, <1>4 DEF Li!TypeOK, Li!Ptr, Li!Removing, Li!Failing, Li!push_try, Li!Goto,
        Li!acquire, Li!nodes, Li!history
  <2>4. list_pc' \in [Worker -> {"idle", "load", "try", "link", "ptail", "psize", "empty", "valid"}
                       \cup Li!Removing \cup Li!Failing]
    BY <2>0, <1>4 DEF Li!TypeOK, Li!Ptr, Li!Removing, Li!Failing, Li!push_try, Li!Goto,
        Li!acquire, Li!nodes, Li!history
  <2>5. /\ list_size' \in Int /\ list_created' \in 0 .. ListNodes /\ list_op' \in [Worker -> {"push", "pop", "erase"}]
         /\ self' \in [Worker -> Li!Ptr] /\ prev' \in [Worker -> Li!Ptr] /\ succ' \in [Worker -> Li!Ptr]
    BY <2>0, <1>4 DEF Li!TypeOK, Li!Ptr, Li!Removing, Li!Failing, Li!push_try, Li!Goto,
        Li!acquire, Li!nodes, Li!history
  <2>6. /\ owner' \in [Li!Node -> Worker \cup {Li!None}] /\ asked' \subseteq Li!Node
         /\ taken' \in [Li!Node -> Nat] /\ pops' \in 0 .. ListPops
    BY <2>0, <1>4 DEF Li!TypeOK, Li!Ptr, Li!Removing, Li!Failing, Li!push_try, Li!Goto,
        Li!acquire, Li!nodes, Li!history
  <2> QED BY <2>1, <2>2, <2>3, <2>4, <2>5, <2>6 DEF Li!TypeOK
<1>5. ASSUME NEW t \in Worker, Li!push_link(t) PROVE Li!TypeOK'
  <2>0. self[t] \in Li!Node /\ prev[t] \in {0} \cup Li!Node
    BY <1>0, <1>m, <1>5 DEF Li!TypeOK, OpSays, Leaving, Locking, Li!Failing, InPush,
        FreshPc, Li!Ptr, Li!push_link, Li!Goto, Li!release, Li!history
  <2>h. holder' = holder \/ holder' = [m \in {0} \cup Li!Node |-> IF m \in {prev[t]} /\ holder[m] = t THEN Li!None ELSE holder[m]]
    BY <1>5 DEF Li!TypeOK, Li!push_link, Li!Goto, Li!release, Li!history
  <2>1. list_next' \in [{0} \cup Li!Node -> Li!Ptr] /\ pred' \in [Li!Node -> Li!Ptr]
    BY <2>0, <1>5 DEF Li!TypeOK, Li!Ptr, Li!Removing, Li!Failing, Li!push_link, Li!Goto,
        Li!release, Li!history
  <2>2. list_removal' \subseteq Li!Node /\ list_tail' \in {0} \cup Li!Node
    BY <2>0, <1>5 DEF Li!TypeOK, Li!Ptr, Li!Removing, Li!Failing, Li!push_link, Li!Goto,
        Li!release, Li!history
  <2>3. holder' \in [{0} \cup Li!Node -> Worker \cup {Li!None}]
    BY <2>h DEF Li!TypeOK
  <2>4. list_pc' \in [Worker -> {"idle", "load", "try", "link", "ptail", "psize", "empty", "valid"}
                       \cup Li!Removing \cup Li!Failing]
    BY <2>0, <1>5 DEF Li!TypeOK, Li!Ptr, Li!Removing, Li!Failing, Li!push_link, Li!Goto,
        Li!release, Li!history
  <2>5. /\ list_size' \in Int /\ list_created' \in 0 .. ListNodes /\ list_op' \in [Worker -> {"push", "pop", "erase"}]
         /\ self' \in [Worker -> Li!Ptr] /\ prev' \in [Worker -> Li!Ptr] /\ succ' \in [Worker -> Li!Ptr]
    BY <2>0, <1>5 DEF Li!TypeOK, Li!Ptr, Li!Removing, Li!Failing, Li!push_link, Li!Goto,
        Li!release, Li!history
  <2>6. /\ owner' \in [Li!Node -> Worker \cup {Li!None}] /\ asked' \subseteq Li!Node
         /\ taken' \in [Li!Node -> Nat] /\ pops' \in 0 .. ListPops
    BY <2>0, <1>5 DEF Li!TypeOK, Li!Ptr, Li!Removing, Li!Failing, Li!push_link, Li!Goto,
        Li!release, Li!history
  <2> QED BY <2>1, <2>2, <2>3, <2>4, <2>5, <2>6 DEF Li!TypeOK
<1>6. ASSUME NEW t \in Worker, Li!push_tail(t) PROVE Li!TypeOK'
  <2>0. self[t] \in Li!Node /\ prev[t] \in {0} \cup Li!Node
    BY <1>0, <1>m, <1>6 DEF Li!TypeOK, OpSays, Leaving, Locking, Li!Failing, InPush,
        FreshPc, Li!Ptr, Li!push_tail, Li!Goto, Li!release, Li!history
  <2>h. holder' = holder \/ holder' = [m \in {0} \cup Li!Node |-> IF m \in {prev[t]} /\ holder[m] = t THEN Li!None ELSE holder[m]]
    BY <1>6 DEF Li!TypeOK, Li!push_tail, Li!Goto, Li!release, Li!history
  <2>1. list_next' \in [{0} \cup Li!Node -> Li!Ptr] /\ pred' \in [Li!Node -> Li!Ptr]
    BY <2>0, <1>6 DEF Li!TypeOK, Li!Ptr, Li!Removing, Li!Failing, Li!push_tail, Li!Goto,
        Li!release, Li!history
  <2>2. list_removal' \subseteq Li!Node /\ list_tail' \in {0} \cup Li!Node
    BY <2>0, <1>6 DEF Li!TypeOK, Li!Ptr, Li!Removing, Li!Failing, Li!push_tail, Li!Goto,
        Li!release, Li!history
  <2>3. holder' \in [{0} \cup Li!Node -> Worker \cup {Li!None}]
    BY <2>h DEF Li!TypeOK
  <2>4. list_pc' \in [Worker -> {"idle", "load", "try", "link", "ptail", "psize", "empty", "valid"}
                       \cup Li!Removing \cup Li!Failing]
    BY <2>0, <1>6 DEF Li!TypeOK, Li!Ptr, Li!Removing, Li!Failing, Li!push_tail, Li!Goto,
        Li!release, Li!history
  <2>5. /\ list_size' \in Int /\ list_created' \in 0 .. ListNodes /\ list_op' \in [Worker -> {"push", "pop", "erase"}]
         /\ self' \in [Worker -> Li!Ptr] /\ prev' \in [Worker -> Li!Ptr] /\ succ' \in [Worker -> Li!Ptr]
    BY <2>0, <1>6 DEF Li!TypeOK, Li!Ptr, Li!Removing, Li!Failing, Li!push_tail, Li!Goto,
        Li!release, Li!history
  <2>6. /\ owner' \in [Li!Node -> Worker \cup {Li!None}] /\ asked' \subseteq Li!Node
         /\ taken' \in [Li!Node -> Nat] /\ pops' \in 0 .. ListPops
    BY <2>0, <1>6 DEF Li!TypeOK, Li!Ptr, Li!Removing, Li!Failing, Li!push_tail, Li!Goto,
        Li!release, Li!history
  <2> QED BY <2>1, <2>2, <2>3, <2>4, <2>5, <2>6 DEF Li!TypeOK
<1>7. ASSUME NEW t \in Worker, Li!push_size(t) PROVE Li!TypeOK'
  BY <1>0, <1>7 DEF Li!TypeOK, Li!Ptr, Li!Removing, Li!Failing, Li!push_size, Li!Goto,
      Li!nodes, Li!history
<1>8. ASSUME NEW t \in Worker, Li!try_pop_front(t) PROVE Li!TypeOK'
  BY <1>8, SMT DEF Li!ListAssumption, Li!TypeOK, Li!Node, Li!Ptr, Li!try_pop_front,
      Li!Goto, Li!nodes
<1>9. ASSUME NEW t \in Worker, Li!pop_first(t) PROVE Li!TypeOK'
  BY <1>0, <1>9 DEF Li!TypeOK, Li!Ptr, Li!Removing, Li!Failing, Li!pop_first, Li!Goto,
      Li!nodes, Li!history
<1>10. ASSUME NEW t \in Worker, NEW n \in Li!Node, Li!try_erase(t, n) PROVE Li!TypeOK'
  BY <1>0, <1>10 DEF Li!TypeOK, Li!Ptr, Li!Removing, Li!Failing, Li!try_erase, Li!Goto,
      Li!nodes
<1>11. ASSUME NEW t \in Worker, Li!valid(t) PROVE Li!TypeOK'
  BY <1>0, <1>11 DEF Li!TypeOK, Li!Ptr, Li!Removing, Li!Failing, Li!valid, Li!Goto,
      Li!Giveup, Li!validNode, Li!nodes, Li!history
<1>12. ASSUME NEW t \in Worker, Li!lock_self(t) PROVE Li!TypeOK'
  BY <1>0, <1>12 DEF Li!TypeOK, Li!Ptr, Li!Removing, Li!Failing, Li!lock_self, Li!Goto,
      Li!acquire, Li!nodes, Li!history
<1>13. ASSUME NEW t \in Worker, Li!mark(t) PROVE Li!TypeOK'
  <2>0. self[t] \in Li!Node
    BY <1>0, <1>m, <1>13 DEF Li!TypeOK, OpSays, Leaving, Locking, Li!Failing, InPush,
        FreshPc, Li!Ptr, Li!mark, Li!Goto, Li!release, Li!Giveup, Li!history
  <2>h. holder' = holder \/ holder' = [m \in {0} \cup Li!Node |-> IF m \in {self[t]} /\ holder[m] = t THEN Li!None ELSE holder[m]]
    BY <1>13 DEF Li!TypeOK, Li!mark, Li!Goto, Li!release, Li!Giveup, Li!history
  <2>1. list_next' \in [{0} \cup Li!Node -> Li!Ptr] /\ pred' \in [Li!Node -> Li!Ptr]
    BY <2>0, <1>13 DEF Li!TypeOK, Li!Ptr, Li!Removing, Li!Failing, Li!mark, Li!Goto,
        Li!release, Li!Giveup, Li!history
  <2>2. list_removal' \subseteq Li!Node /\ list_tail' \in {0} \cup Li!Node
    BY <2>0, <1>13 DEF Li!TypeOK, Li!Ptr, Li!Removing, Li!Failing, Li!mark, Li!Goto,
        Li!release, Li!Giveup, Li!history
  <2>3. holder' \in [{0} \cup Li!Node -> Worker \cup {Li!None}]
    BY <2>h DEF Li!TypeOK
  <2>4. list_pc' \in [Worker -> {"idle", "load", "try", "link", "ptail", "psize", "empty", "valid"}
                       \cup Li!Removing \cup Li!Failing]
    BY <2>0, <1>13 DEF Li!TypeOK, Li!Ptr, Li!Removing, Li!Failing, Li!mark, Li!Goto,
        Li!release, Li!Giveup, Li!history
  <2>5. /\ list_size' \in Int /\ list_created' \in 0 .. ListNodes /\ list_op' \in [Worker -> {"push", "pop", "erase"}]
         /\ self' \in [Worker -> Li!Ptr] /\ prev' \in [Worker -> Li!Ptr] /\ succ' \in [Worker -> Li!Ptr]
    BY <2>0, <1>13 DEF Li!TypeOK, Li!Ptr, Li!Removing, Li!Failing, Li!mark, Li!Goto,
        Li!release, Li!Giveup, Li!history
  <2>6. /\ owner' \in [Li!Node -> Worker \cup {Li!None}] /\ asked' \subseteq Li!Node
         /\ taken' \in [Li!Node -> Nat] /\ pops' \in 0 .. ListPops
    BY <2>0, <1>13 DEF Li!TypeOK, Li!Ptr, Li!Removing, Li!Failing, Li!mark, Li!Goto,
        Li!release, Li!Giveup, Li!history
  <2> QED BY <2>1, <2>2, <2>3, <2>4, <2>5, <2>6 DEF Li!TypeOK
<1>14. ASSUME NEW t \in Worker, Li!read_pred(t) PROVE Li!TypeOK'
  <2>0. self[t] \in Li!Node /\ pred[self[t]] \in Li!Ptr
    BY <1>0, <1>m, <1>14 DEF Li!TypeOK, OpSays, Leaving, Locking, Li!Failing, InPush,
        FreshPc, Li!Ptr, Li!read_pred, Li!Goto, Li!nodes, Li!history
  <2>1. list_next' \in [{0} \cup Li!Node -> Li!Ptr] /\ pred' \in [Li!Node -> Li!Ptr]
    BY <2>0, <1>14 DEF Li!TypeOK, Li!Ptr, Li!Removing, Li!Failing, Li!read_pred,
        Li!Goto, Li!nodes, Li!history
  <2>2. list_removal' \subseteq Li!Node /\ list_tail' \in {0} \cup Li!Node
    BY <2>0, <1>14 DEF Li!TypeOK, Li!Ptr, Li!Removing, Li!Failing, Li!read_pred,
        Li!Goto, Li!nodes, Li!history
  <2>3. holder' \in [{0} \cup Li!Node -> Worker \cup {Li!None}]
    BY <2>0, <1>14 DEF Li!TypeOK, Li!Ptr, Li!Removing, Li!Failing, Li!read_pred,
        Li!Goto, Li!nodes, Li!history
  <2>4. list_pc' \in [Worker -> {"idle", "load", "try", "link", "ptail", "psize", "empty", "valid"}
                       \cup Li!Removing \cup Li!Failing]
    BY <2>0, <1>14 DEF Li!TypeOK, Li!Ptr, Li!Removing, Li!Failing, Li!read_pred,
        Li!Goto, Li!nodes, Li!history
  <2>5. /\ list_size' \in Int /\ list_created' \in 0 .. ListNodes /\ list_op' \in [Worker -> {"push", "pop", "erase"}]
         /\ self' \in [Worker -> Li!Ptr] /\ prev' \in [Worker -> Li!Ptr] /\ succ' \in [Worker -> Li!Ptr]
    BY <2>0, <1>14 DEF Li!TypeOK, Li!Ptr, Li!Removing, Li!Failing, Li!read_pred,
        Li!Goto, Li!nodes, Li!history
  <2>6. /\ owner' \in [Li!Node -> Worker \cup {Li!None}] /\ asked' \subseteq Li!Node
         /\ taken' \in [Li!Node -> Nat] /\ pops' \in 0 .. ListPops
    BY <2>0, <1>14 DEF Li!TypeOK, Li!Ptr, Li!Removing, Li!Failing, Li!read_pred,
        Li!Goto, Li!nodes, Li!history
  <2> QED BY <2>1, <2>2, <2>3, <2>4, <2>5, <2>6 DEF Li!TypeOK
<1>15. ASSUME NEW t \in Worker, Li!lock_pred(t) PROVE Li!TypeOK'
  BY <1>0, <1>15 DEF Li!TypeOK, Li!Ptr, Li!Removing, Li!Failing, Li!lock_pred, Li!Goto,
      Li!acquire, Li!nodes, Li!history
<1>16. ASSUME NEW t \in Worker, Li!check_pred(t) PROVE Li!TypeOK'
  <2>0. self[t] \in Li!Node /\ prev[t] \in {0} \cup Li!Node
    BY <1>0, <1>m, <1>16 DEF Li!TypeOK, OpSays, Leaving, Locking, Li!Failing, InPush,
        FreshPc, Li!Ptr, Li!check_pred, Li!Goto, Li!Fail, Li!nodes, Li!history
  <2>1. list_next' \in [{0} \cup Li!Node -> Li!Ptr] /\ pred' \in [Li!Node -> Li!Ptr]
    BY <2>0, <1>16 DEF Li!TypeOK, Li!Ptr, Li!Removing, Li!Failing, Li!check_pred,
        Li!Goto, Li!Fail, Li!nodes, Li!history
  <2>2. list_removal' \subseteq Li!Node /\ list_tail' \in {0} \cup Li!Node
    BY <2>0, <1>16 DEF Li!TypeOK, Li!Ptr, Li!Removing, Li!Failing, Li!check_pred,
        Li!Goto, Li!Fail, Li!nodes, Li!history
  <2>3. holder' \in [{0} \cup Li!Node -> Worker \cup {Li!None}]
    BY <2>0, <1>16 DEF Li!TypeOK, Li!Ptr, Li!Removing, Li!Failing, Li!check_pred,
        Li!Goto, Li!Fail, Li!nodes, Li!history
  <2>4. list_pc' \in [Worker -> {"idle", "load", "try", "link", "ptail", "psize", "empty", "valid"}
                       \cup Li!Removing \cup Li!Failing]
    BY <2>0, <1>16 DEF Li!TypeOK, Li!Ptr, Li!Removing, Li!Failing, Li!check_pred,
        Li!Goto, Li!Fail, Li!nodes, Li!history
  <2>5. /\ list_size' \in Int /\ list_created' \in 0 .. ListNodes /\ list_op' \in [Worker -> {"push", "pop", "erase"}]
         /\ self' \in [Worker -> Li!Ptr] /\ prev' \in [Worker -> Li!Ptr] /\ succ' \in [Worker -> Li!Ptr]
    BY <2>0, <1>16 DEF Li!TypeOK, Li!Ptr, Li!Removing, Li!Failing, Li!check_pred,
        Li!Goto, Li!Fail, Li!nodes, Li!history
  <2>6. /\ owner' \in [Li!Node -> Worker \cup {Li!None}] /\ asked' \subseteq Li!Node
         /\ taken' \in [Li!Node -> Nat] /\ pops' \in 0 .. ListPops
    BY <2>0, <1>16 DEF Li!TypeOK, Li!Ptr, Li!Removing, Li!Failing, Li!check_pred,
        Li!Goto, Li!Fail, Li!nodes, Li!history
  <2> QED BY <2>1, <2>2, <2>3, <2>4, <2>5, <2>6 DEF Li!TypeOK
<1>17. ASSUME NEW t \in Worker, Li!lock_succ(t) PROVE Li!TypeOK'
  <2>0. TRUE
    BY <1>0, <1>m, <1>17 DEF Li!TypeOK, OpSays, Leaving, Locking, Li!Failing, InPush,
        FreshPc, Li!Ptr, Li!lock_succ, Li!Goto, Li!acquire, Li!Fail, Li!nodes,
        Li!history
  <2>1. list_next' \in [{0} \cup Li!Node -> Li!Ptr] /\ pred' \in [Li!Node -> Li!Ptr]
    BY <2>0, <1>17 DEF Li!TypeOK, Li!Ptr, Li!Removing, Li!Failing, Li!lock_succ,
        Li!Goto, Li!acquire, Li!Fail, Li!nodes, Li!history
  <2>2. list_removal' \subseteq Li!Node /\ list_tail' \in {0} \cup Li!Node
    BY <2>0, <1>17 DEF Li!TypeOK, Li!Ptr, Li!Removing, Li!Failing, Li!lock_succ,
        Li!Goto, Li!acquire, Li!Fail, Li!nodes, Li!history
  <2>3. holder' \in [{0} \cup Li!Node -> Worker \cup {Li!None}]
    BY <2>0, <1>17 DEF Li!TypeOK, Li!Ptr, Li!Removing, Li!Failing, Li!lock_succ,
        Li!Goto, Li!acquire, Li!Fail, Li!nodes, Li!history
  <2>4. list_pc' \in [Worker -> {"idle", "load", "try", "link", "ptail", "psize", "empty", "valid"}
                       \cup Li!Removing \cup Li!Failing]
    BY <2>0, <1>17 DEF Li!TypeOK, Li!Ptr, Li!Removing, Li!Failing, Li!lock_succ,
        Li!Goto, Li!acquire, Li!Fail, Li!nodes, Li!history
  <2>5. /\ list_size' \in Int /\ list_created' \in 0 .. ListNodes /\ list_op' \in [Worker -> {"push", "pop", "erase"}]
         /\ self' \in [Worker -> Li!Ptr] /\ prev' \in [Worker -> Li!Ptr] /\ succ' \in [Worker -> Li!Ptr]
    BY <2>0, <1>17 DEF Li!TypeOK, Li!Ptr, Li!Removing, Li!Failing, Li!lock_succ,
        Li!Goto, Li!acquire, Li!Fail, Li!nodes, Li!history
  <2>6. /\ owner' \in [Li!Node -> Worker \cup {Li!None}] /\ asked' \subseteq Li!Node
         /\ taken' \in [Li!Node -> Nat] /\ pops' \in 0 .. ListPops
    BY <2>0, <1>17 DEF Li!TypeOK, Li!Ptr, Li!Removing, Li!Failing, Li!lock_succ,
        Li!Goto, Li!acquire, Li!Fail, Li!nodes, Li!history
  <2> QED BY <2>1, <2>2, <2>3, <2>4, <2>5, <2>6 DEF Li!TypeOK
<1>18. ASSUME NEW t \in Worker, Li!unlink(t) PROVE Li!TypeOK'
  BY <1>0, <1>18 DEF Li!TypeOK, Li!Ptr, Li!Removing, Li!Failing, Li!unlink, Li!Goto,
      Li!history
<1>19. ASSUME NEW t \in Worker, Li!link_back(t) PROVE Li!TypeOK'
  BY <1>0, <1>19 DEF Li!TypeOK, Li!Ptr, Li!Removing, Li!Failing, Li!link_back, Li!Goto,
      Li!history
<1>20. ASSUME NEW t \in Worker, Li!move_tail(t) PROVE Li!TypeOK'
  BY <1>0, <1>20 DEF Li!TypeOK, Li!Ptr, Li!Removing, Li!Failing, OpSays, Leaving,
      Locking, InPush, FreshPc, Li!move_tail, Li!Goto, Li!release, Li!history
<1>21. ASSUME NEW t \in Worker, Li!removed(t) PROVE Li!TypeOK'
  <2>0. self[t] \in Li!Node
    BY <1>0, <1>m, <1>21 DEF Li!TypeOK, OpSays, Leaving, Locking, Li!Failing, InPush,
        FreshPc, Li!Ptr, Li!removed, Li!Goto, Li!nodes
  <2>1. list_next' \in [{0} \cup Li!Node -> Li!Ptr] /\ pred' \in [Li!Node -> Li!Ptr]
    BY <2>0, <1>21 DEF Li!TypeOK, Li!Ptr, Li!Removing, Li!Failing, Li!removed, Li!Goto,
        Li!nodes
  <2>2. list_removal' \subseteq Li!Node /\ list_tail' \in {0} \cup Li!Node
    BY <2>0, <1>21 DEF Li!TypeOK, Li!Ptr, Li!Removing, Li!Failing, Li!removed, Li!Goto,
        Li!nodes
  <2>3. holder' \in [{0} \cup Li!Node -> Worker \cup {Li!None}]
    BY <2>0, <1>21 DEF Li!TypeOK, Li!Ptr, Li!Removing, Li!Failing, Li!removed, Li!Goto,
        Li!nodes
  <2>4. list_pc' \in [Worker -> {"idle", "load", "try", "link", "ptail", "psize", "empty", "valid"}
                       \cup Li!Removing \cup Li!Failing]
    BY <2>0, <1>21 DEF Li!TypeOK, Li!Ptr, Li!Removing, Li!Failing, Li!removed, Li!Goto,
        Li!nodes
  <2>5. /\ list_size' \in Int /\ list_created' \in 0 .. ListNodes /\ list_op' \in [Worker -> {"push", "pop", "erase"}]
         /\ self' \in [Worker -> Li!Ptr] /\ prev' \in [Worker -> Li!Ptr] /\ succ' \in [Worker -> Li!Ptr]
    BY <2>0, <1>21 DEF Li!TypeOK, Li!Ptr, Li!Removing, Li!Failing, Li!removed, Li!Goto,
        Li!nodes
  <2>6. /\ owner' \in [Li!Node -> Worker \cup {Li!None}] /\ asked' \subseteq Li!Node
         /\ taken' \in [Li!Node -> Nat] /\ pops' \in 0 .. ListPops
    BY <2>0, <1>21 DEF Li!TypeOK, Li!Ptr, Li!Removing, Li!Failing, Li!removed, Li!Goto,
        Li!nodes
  <2> QED BY <2>1, <2>2, <2>3, <2>4, <2>5, <2>6 DEF Li!TypeOK
<1>22. ASSUME NEW t \in Worker, Li!return(t) PROVE Li!TypeOK'
  BY <1>0, <1>22 DEF Li!TypeOK, Li!Ptr, Li!Removing, Li!Failing, Li!return, Li!Goto,
      Li!release, Li!nodes, Li!history
<1>23. ASSUME NEW t \in Worker, Li!unlock_self(t) PROVE Li!TypeOK'
  BY <1>0, <1>23 DEF Li!TypeOK, Li!Ptr, Li!Removing, Li!Failing, Li!unlock_self,
      Li!Goto, Li!release, Li!nodes, Li!history
<1>24. ASSUME NEW t \in Worker, Li!clearRemoval(t) PROVE Li!TypeOK'
  BY <1>0, <1>24 DEF Li!TypeOK, Li!Ptr, Li!Removing, Li!Failing, OpSays, Leaving,
      Locking, InPush, FreshPc, Li!clearRemoval, Li!Goto, Li!history
<1>25. ASSUME NEW t \in Worker, Li!drop(t) PROVE Li!TypeOK'
  BY <1>0, <1>25 DEF Li!TypeOK, Li!Ptr, Li!Removing, Li!Failing, Li!drop, Li!Goto,
      Li!release, Li!nodes, Li!history
<1> QED BY <1>1, <1>2, <1>3, <1>4, <1>5, <1>6, <1>7, <1>8, <1>9, <1>10, <1>11, <1>12,
    <1>13, <1>14, <1>15, <1>16, <1>17, <1>18, <1>19, <1>20, <1>21, <1>22, <1>23, <1>24,
    <1>25 DEF Li!Next, Li!Step

-----------------------------------------------------------------------------
(* m_size counts the pushes that returned and not the removals that did.    *)
Counted == {n \in Nodes : \A t \in Worker : list_pc[t] \in InPush => self[t] # n}
SizeInv == list_size = Cardinality(Counted) - Cardinality(Li!Gone)

(* What m_size counts is finite.                                            *)
LEMMA Finite ==
  ASSUME Li!ListAssumption, Li!TypeOK
  PROVE  /\ IsFiniteSet(Nodes) /\ Cardinality(Nodes) = list_created
         /\ IsFiniteSet(Counted) /\ IsFiniteSet(Li!Gone)
<1>1. IsFiniteSet(Nodes) /\ Cardinality(Nodes) = list_created
  BY FS_Interval, list_created \in Nat, SMT DEF Nodes, Li!TypeOK, Li!ListAssumption
<1>2. IsFiniteSet(Li!Node)
  BY FS_Interval DEF Li!Node, Li!ListAssumption
<1>3. Counted \subseteq Nodes /\ Li!Gone \subseteq Li!Node
  BY DEF Counted, Li!Gone
<1> QED BY <1>1, <1>2, <1>3, FS_Subset

(* A step that ends neither a push nor a removal leaves the count alone.    *)
LEMMA SizeStays ==
  ASSUME SizeInv, NEW t \in Worker, \A u \in Worker \ {t} : list_pc'[u] = list_pc[u] /\ self'[u] = self[u],
         list_created' = list_created, taken' = taken, list_size' = list_size,
         list_pc[t] \in InPush <=> list_pc'[t] \in InPush, list_pc[t] \in InPush => self'[t] = self[t]
  PROVE  SizeInv'
<1>1. Nodes' = Nodes
  BY DEF Nodes
<1>2. Counted' = Counted
  BY <1>1 DEF Counted
<1>3. Li!Gone' = Li!Gone
  BY DEF Li!Gone
<1> QED BY <1>2, <1>3 DEF SizeInv

(* Every step keeps the count exact.                                        *)
LEMMA SizeStep == ASSUME Li!ListAssumption, Li!TypeOK, Shape, SizeInv, [Li!Next]_Li!vars PROVE SizeInv'
<1>0. /\ \A t \in Worker : OpSays(t)
      /\ KnownSays /\ MarkSays
  BY DEF Shape, ThreadSays
<1>1. CASE UNCHANGED Li!vars
  BY <1>1 DEF Li!vars, Li!nodes, Li!history, SizeInv, Counted, Nodes, Li!Gone
<1>2. ASSUME NEW t \in Worker, Li!push_back(t) PROVE SizeInv'
  <2>1. list_created + 1 \in Li!Node /\ list_created + 1 \notin Nodes /\ Nodes' = Nodes \cup {list_created + 1}
    BY <1>2, SMT DEF Li!ListAssumption, Li!TypeOK, Li!push_back, Li!Node, Nodes
  <2>2. /\ list_pc[t] = "idle" /\ list_pc'[t] = "load" /\ self'[t] = list_created + 1 /\ taken' = taken /\ list_size' = list_size
        /\ \A u \in Worker \ {t} : list_pc'[u] = list_pc[u] /\ self'[u] = self[u]
    BY <1>2 DEF Li!TypeOK, Li!push_back, Li!Goto
  <2>3. Counted' = Counted
    BY <2>1, <2>2 DEF Counted, InPush, FreshPc
  <2>4. Li!Gone' = Li!Gone
    BY <2>2 DEF Li!Gone
  <2> QED BY <2>2, <2>3, <2>4 DEF SizeInv
<1>3. ASSUME NEW t \in Worker, Li!push_load(t) PROVE SizeInv'
  BY <1>0, <1>3, SizeStays DEF Li!TypeOK, OpSays, Leaving, Locking, Li!Failing, InPush,
      FreshPc, Li!push_load, Li!Goto, Li!nodes, Li!history
<1>4. ASSUME NEW t \in Worker, Li!push_try(t) PROVE SizeInv'
  BY <1>0, <1>4, SizeStays DEF Li!TypeOK, OpSays, Leaving, Locking, Li!Failing, InPush,
      FreshPc, Li!push_try, Li!Goto, Li!acquire, Li!nodes, Li!history
<1>5. ASSUME NEW t \in Worker, Li!push_link(t) PROVE SizeInv'
  BY <1>0, <1>5, SizeStays DEF Li!TypeOK, OpSays, Leaving, Locking, Li!Failing, InPush,
      FreshPc, Li!push_link, Li!Goto, Li!release, Li!history
<1>6. ASSUME NEW t \in Worker, Li!push_tail(t) PROVE SizeInv'
  BY <1>0, <1>6, SizeStays DEF Li!TypeOK, OpSays, Leaving, Locking, Li!Failing, InPush,
      FreshPc, Li!push_tail, Li!Goto, Li!release, Li!history
<1>7. ASSUME NEW t \in Worker, Li!push_size(t) PROVE SizeInv'
  <2>1. /\ list_pc[t] = "psize" /\ list_pc'[t] = "idle" /\ self' = self /\ taken' = taken /\ list_size' = list_size + 1
        /\ list_created' = list_created /\ \A u \in Worker \ {t} : list_pc'[u] = list_pc[u]
    BY <1>7 DEF Li!TypeOK, Li!push_size, Li!Goto, Li!history
  <2>2. Nodes' = Nodes /\ self[t] \in Nodes
    BY <1>0, <2>1 DEF Nodes, OpSays, InPush
  <2>3. \A u \in Worker : list_pc[u] \in InPush /\ self[u] = self[t] => u = t
    BY <1>0, <2>1 DEF OpSays, InPush
  <2>4. Counted' = Counted \cup {self[t]} /\ self[t] \notin Counted
    BY <2>1, <2>2, <2>3 DEF Counted, InPush, FreshPc
  <2>5. Li!Gone' = Li!Gone
    BY <2>1 DEF Li!Gone
  <2>6. Cardinality(Counted') = Cardinality(Counted) + 1 /\ Cardinality(Counted) \in Nat /\ Cardinality(Li!Gone) \in Nat
    BY <2>4, Finite, FS_AddElement, FS_CardinalityType
  <2> QED BY <2>1, <2>5, <2>6 DEF SizeInv, Li!TypeOK
<1>8. ASSUME NEW t \in Worker, Li!try_pop_front(t) PROVE SizeInv'
  BY <1>0, <1>8, SizeStays DEF Li!TypeOK, OpSays, Leaving, Locking, Li!Failing, InPush,
      FreshPc, Li!try_pop_front, Li!Goto, Li!nodes
<1>9. ASSUME NEW t \in Worker, Li!pop_first(t) PROVE SizeInv'
  BY <1>0, <1>9, SizeStays DEF Li!TypeOK, OpSays, Leaving, Locking, Li!Failing, InPush,
      FreshPc, Li!pop_first, Li!Goto, Li!nodes, Li!history
<1>10. ASSUME NEW t \in Worker, NEW n \in Li!Node, Li!try_erase(t, n) PROVE SizeInv'
  BY <1>0, <1>10, SizeStays DEF Li!TypeOK, OpSays, Leaving, Locking, Li!Failing, InPush,
      FreshPc, Li!try_erase, Li!Goto, Li!nodes
<1>11. ASSUME NEW t \in Worker, Li!valid(t) PROVE SizeInv'
  BY <1>0, <1>11, SizeStays DEF Li!TypeOK, OpSays, Leaving, Locking, Li!Failing, InPush,
      FreshPc, Li!valid, Li!Goto, Li!Giveup, Li!validNode, Li!nodes, Li!history
<1>12. ASSUME NEW t \in Worker, Li!lock_self(t) PROVE SizeInv'
  BY <1>0, <1>12, SizeStays DEF Li!TypeOK, OpSays, Leaving, Locking, Li!Failing, InPush,
      FreshPc, Li!lock_self, Li!Goto, Li!acquire, Li!nodes, Li!history
<1>13. ASSUME NEW t \in Worker, Li!mark(t) PROVE SizeInv'
  BY <1>0, <1>13, SizeStays DEF Li!TypeOK, OpSays, Leaving, Locking, Li!Failing, InPush,
      FreshPc, Li!mark, Li!Goto, Li!release, Li!Giveup, Li!history
<1>14. ASSUME NEW t \in Worker, Li!read_pred(t) PROVE SizeInv'
  BY <1>0, <1>14, SizeStays DEF Li!TypeOK, OpSays, Leaving, Locking, Li!Failing, InPush,
      FreshPc, Li!read_pred, Li!Goto, Li!nodes, Li!history
<1>15. ASSUME NEW t \in Worker, Li!lock_pred(t) PROVE SizeInv'
  BY <1>0, <1>15, SizeStays DEF Li!TypeOK, OpSays, Leaving, Locking, Li!Failing, InPush,
      FreshPc, Li!lock_pred, Li!Goto, Li!acquire, Li!nodes, Li!history
<1>16. ASSUME NEW t \in Worker, Li!check_pred(t) PROVE SizeInv'
  BY <1>0, <1>16, SizeStays DEF Li!TypeOK, OpSays, Leaving, Locking, Li!Failing, InPush,
      FreshPc, Li!check_pred, Li!Goto, Li!Fail, Li!nodes, Li!history
<1>17. ASSUME NEW t \in Worker, Li!lock_succ(t) PROVE SizeInv'
  BY <1>0, <1>17, SizeStays DEF Li!TypeOK, OpSays, Leaving, Locking, Li!Failing, InPush,
      FreshPc, Li!lock_succ, Li!Goto, Li!acquire, Li!Fail, Li!nodes, Li!history
<1>18. ASSUME NEW t \in Worker, Li!unlink(t) PROVE SizeInv'
  BY <1>0, <1>18, SizeStays DEF Li!TypeOK, OpSays, Leaving, Locking, Li!Failing, InPush,
      FreshPc, Li!unlink, Li!Goto, Li!history
<1>19. ASSUME NEW t \in Worker, Li!link_back(t) PROVE SizeInv'
  BY <1>0, <1>19, SizeStays DEF Li!TypeOK, OpSays, Leaving, Locking, Li!Failing, InPush,
      FreshPc, Li!link_back, Li!Goto, Li!history
<1>20. ASSUME NEW t \in Worker, Li!move_tail(t) PROVE SizeInv'
  BY <1>0, <1>20, SizeStays DEF Li!TypeOK, OpSays, Leaving, Locking, Li!Failing, InPush,
      FreshPc, Li!move_tail, Li!Goto, Li!release, Li!history
<1>21. ASSUME NEW t \in Worker, Li!removed(t) PROVE SizeInv'
  <2>1. /\ list_pc[t] = "release" /\ list_pc'[t] = "size" /\ self' = self /\ list_size' = list_size - 1
        /\ list_created' = list_created /\ \A u \in Worker \ {t} : list_pc'[u] = list_pc[u]
        /\ taken' = [taken EXCEPT ![self[t]] = @ + 1]
    BY <1>21 DEF Li!TypeOK, Li!removed, Li!Goto
  <2>2. Nodes' = Nodes
    BY <2>1 DEF Nodes
  <2>3. Counted' = Counted
    BY <2>1, <2>2 DEF Counted, InPush, FreshPc
  <2>4. self[t] \in Li!Node /\ taken[self[t]] = 0
    BY <1>0, <2>1, KnownNodes DEF OpSays, Leaving, Locking, MarkSays, Marking
  <2>5. Li!Gone' = Li!Gone \cup {self[t]} /\ self[t] \notin Li!Gone
    BY <2>1, <2>4 DEF Li!TypeOK, Li!Gone
  <2>6. Cardinality(Li!Gone') = Cardinality(Li!Gone) + 1 /\ Cardinality(Counted) \in Nat /\ Cardinality(Li!Gone) \in Nat
    BY <2>5, Finite, FS_AddElement, FS_CardinalityType
  <2> QED BY <2>1, <2>3, <2>6 DEF SizeInv, Li!TypeOK
<1>22. ASSUME NEW t \in Worker, Li!return(t) PROVE SizeInv'
  BY <1>0, <1>22, SizeStays DEF Li!TypeOK, OpSays, Leaving, Locking, Li!Failing, InPush,
      FreshPc, Li!return, Li!Goto, Li!release, Li!nodes, Li!history
<1>23. ASSUME NEW t \in Worker, Li!unlock_self(t) PROVE SizeInv'
  BY <1>0, <1>23, SizeStays DEF Li!TypeOK, OpSays, Leaving, Locking, Li!Failing, InPush,
      FreshPc, Li!unlock_self, Li!Goto, Li!release, Li!nodes, Li!history
<1>24. ASSUME NEW t \in Worker, Li!clearRemoval(t) PROVE SizeInv'
  BY <1>0, <1>24, SizeStays DEF Li!TypeOK, OpSays, Leaving, Locking, Li!Failing, InPush,
      FreshPc, Li!clearRemoval, Li!Goto, Li!history
<1>25. ASSUME NEW t \in Worker, Li!drop(t) PROVE SizeInv'
  BY <1>0, <1>25, SizeStays DEF Li!TypeOK, OpSays, Leaving, Locking, Li!Failing, InPush,
      FreshPc, Li!drop, Li!Goto, Li!release, Li!nodes, Li!history
<1> QED BY <1>1, <1>2, <1>3, <1>4, <1>5, <1>6, <1>7, <1>8, <1>9, <1>10, <1>11, <1>12,
    <1>13, <1>14, <1>15, <1>16, <1>17, <1>18, <1>19, <1>20, <1>21, <1>22, <1>23, <1>24,
    <1>25 DEF Li!Next, Li!Step

-----------------------------------------------------------------------------
(* While nobody pops, a node whose erase was called was removed, or the     *)
(* call is still running.                                                   *)
EraseSays ==
  pops = 0 =>
    /\ \A t \in Worker : list_op[t] # "pop"
    /\ \A n \in asked :
         \/ taken[n] > 0
         \/ \E t \in Worker : list_op[t] = "erase" /\ self[t] = n /\ list_pc[t] # "idle"

(* Nobody is marking a node whose mark an erase finds: without pops it is   *)
(* out already.                                                             *)
LEMMA FoundGone ==
  ASSUME Li!ListAssumption, Li!TypeOK, Shape, EraseSays, pops = 0, NEW t \in Worker,
         list_pc[t] \in {"valid", "mark"}, list_op[t] = "erase", self[t] \in list_removal
  PROVE  taken[self[t]] > 0
<1>0. (\A u \in Worker : OpSays(u)) /\ MarkSays
  BY DEF Shape, ThreadSays
<1>1. SUFFICES ASSUME NEW u \in Worker, list_pc[u] \in Marking, self[u] = self[t] PROVE FALSE
  BY <1>0 DEF MarkSays
<1>2. list_pc[u] \in Leaving /\ u # t
  BY <1>1 DEF Marking, Leaving, Locking, Li!Failing
<1>3. list_op[u] = "erase"
  BY <1>0, <1>2 DEF OpSays, EraseSays, Li!TypeOK
<1>4. owner[self[u]] = u /\ owner[self[t]] = t
  BY <1>0, <1>2, <1>3 DEF OpSays, Leaving, Locking
<1> QED BY <1>1, <1>2, <1>4

(* A step that neither erases nor pops leaves the account of the erased     *)
(* alone.                                                                   *)
LEMMA EraseStays ==
  ASSUME EraseSays, NEW t \in Worker, Others(t), pops' = pops,
         \A n \in asked : taken[n] > 0 => taken'[n] > 0,
         list_op[t] # "pop" => list_op'[t] # "pop",
         \A n \in asked' \ asked : list_op'[t] = "erase" /\ self'[t] = n /\ list_pc'[t] # "idle",
         (pops = 0 /\ list_op[t] = "erase" /\ list_pc[t] # "idle")
           => \/ list_op'[t] = "erase" /\ self'[t] = self[t] /\ list_pc'[t] # "idle"
              \/ taken'[self[t]] > 0
  PROVE  EraseSays'
<1>1. SUFFICES ASSUME pops = 0
               PROVE  /\ \A u \in Worker : list_op'[u] # "pop"
                      /\ \A n \in asked' :
                           \/ taken'[n] > 0
                           \/ \E u \in Worker : list_op'[u] = "erase" /\ self'[u] = n /\ list_pc'[u] # "idle"
  BY DEF EraseSays
<1>2. \A u \in Worker : list_op'[u] # "pop"
  BY <1>1 DEF EraseSays, Others
<1>3. ASSUME NEW n \in asked' PROVE \/ taken'[n] > 0
                                    \/ \E u \in Worker : list_op'[u] = "erase" /\ self'[u] = n /\ list_pc'[u] # "idle"
  <2>1. CASE n \notin asked
    BY <2>1
  <2>2. CASE n \in asked /\ taken[n] > 0
    BY <2>2
  <2>3. CASE n \in asked /\ ~(taken[n] > 0)
    <3>1. PICK u \in Worker : list_op[u] = "erase" /\ self[u] = n /\ list_pc[u] # "idle"
      BY <1>1, <2>3 DEF EraseSays
    <3>2. CASE u = t
      BY <1>1, <3>1, <3>2
    <3>3. CASE u # t
      BY <3>1, <3>3 DEF Others
    <3> QED BY <3>2, <3>3
  <2> QED BY <2>1, <2>2, <2>3
<1> QED BY <1>2, <1>3

(* Every step keeps the account of the erased.                              *)
LEMMA EraseStep == ASSUME Li!ListAssumption, Li!TypeOK, Shape, EraseSays, [Li!Next]_Li!vars PROVE EraseSays'
<1>0. /\ \A t \in Worker : OpSays(t)
      /\ KnownSays /\ MarkSays /\ Li!None \notin Worker
  BY DEF Shape, ThreadSays, Li!ListAssumption
<1>1. CASE UNCHANGED Li!vars
  BY <1>1 DEF Li!vars, Li!nodes, Li!history, EraseSays
<1>2. ASSUME NEW t \in Worker, Li!push_back(t) PROVE EraseSays'
  <2>1. Others(t)
    BY <1>2 DEF Li!TypeOK, Others, Li!push_back, Li!Goto, Li!nodes
  <2> QED BY <1>0, <2>1, <1>2, EraseStays DEF Li!TypeOK, OpSays, InPush, FreshPc,
      Leaving, Locking, Li!Failing, EraseSays, Li!push_back, Li!Goto, Li!nodes
<1>3. ASSUME NEW t \in Worker, Li!push_load(t) PROVE EraseSays'
  <2>1. Others(t)
    BY <1>3 DEF Li!TypeOK, Others, Li!push_load, Li!Goto, Li!nodes, Li!history
  <2> QED BY <1>0, <2>1, <1>3, EraseStays DEF Li!TypeOK, OpSays, InPush, FreshPc,
      Leaving, Locking, Li!Failing, EraseSays, Li!push_load, Li!Goto, Li!nodes,
      Li!history
<1>4. ASSUME NEW t \in Worker, Li!push_try(t) PROVE EraseSays'
  <2>1. Others(t)
    BY <1>4 DEF Li!TypeOK, Others, Li!push_try, Li!Goto, Li!acquire, Li!nodes, Li!history
  <2> QED BY <1>0, <2>1, <1>4, EraseStays DEF Li!TypeOK, OpSays, InPush, FreshPc,
      Leaving, Locking, Li!Failing, EraseSays, Li!push_try, Li!Goto, Li!acquire,
      Li!nodes, Li!history
<1>5. ASSUME NEW t \in Worker, Li!push_link(t) PROVE EraseSays'
  <2>1. Others(t)
    BY <1>5 DEF Li!TypeOK, Others, Li!push_link, Li!Goto, Li!release, Li!history
  <2> QED BY <1>0, <2>1, <1>5, EraseStays DEF Li!TypeOK, OpSays, InPush, FreshPc,
      Leaving, Locking, Li!Failing, EraseSays, Li!push_link, Li!Goto, Li!release,
      Li!history
<1>6. ASSUME NEW t \in Worker, Li!push_tail(t) PROVE EraseSays'
  <2>1. Others(t)
    BY <1>6 DEF Li!TypeOK, Others, Li!push_tail, Li!Goto, Li!release, Li!history
  <2> QED BY <1>0, <2>1, <1>6, EraseStays DEF Li!TypeOK, OpSays, InPush, FreshPc,
      Leaving, Locking, Li!Failing, EraseSays, Li!push_tail, Li!Goto, Li!release,
      Li!history
<1>7. ASSUME NEW t \in Worker, Li!push_size(t) PROVE EraseSays'
  <2>1. Others(t)
    BY <1>7 DEF Li!TypeOK, Others, Li!push_size, Li!Goto, Li!nodes, Li!history
  <2> QED BY <1>0, <2>1, <1>7, EraseStays DEF Li!TypeOK, OpSays, InPush, FreshPc,
      Leaving, Locking, Li!Failing, EraseSays, Li!push_size, Li!Goto, Li!nodes,
      Li!history
<1>8. ASSUME NEW t \in Worker, Li!try_pop_front(t) PROVE EraseSays'
  BY <1>8 DEF Li!ListAssumption, Li!TypeOK, EraseSays, Li!try_pop_front, Li!Goto, Li!nodes
<1>9. ASSUME NEW t \in Worker, Li!pop_first(t) PROVE EraseSays'
  <2>1. Others(t)
    BY <1>9 DEF Li!TypeOK, Others, Li!pop_first, Li!Goto, Li!nodes, Li!history
  <2> QED BY <1>0, <2>1, <1>9, EraseStays DEF Li!TypeOK, OpSays, InPush, FreshPc,
      Leaving, Locking, Li!Failing, EraseSays, Li!pop_first, Li!Goto, Li!nodes,
      Li!history
<1>10. ASSUME NEW t \in Worker, NEW n \in Li!Node, Li!try_erase(t, n) PROVE EraseSays'
  <2>1. Others(t)
    BY <1>10 DEF Li!TypeOK, Others, Li!try_erase, Li!Goto, Li!nodes
  <2> QED BY <1>0, <2>1, <1>10, EraseStays DEF Li!TypeOK, OpSays, InPush, FreshPc,
      Leaving, Locking, Li!Failing, EraseSays, Li!try_erase, Li!Goto, Li!nodes
<1>11. ASSUME NEW t \in Worker, Li!valid(t) PROVE EraseSays'
  <2>1. Others(t)
    BY <1>11 DEF Li!TypeOK, Others, Li!valid, Li!Goto, Li!Giveup, Li!validNode,
        Li!nodes, Li!history
  <2>2. (pops = 0 /\ list_op[t] = "erase") => \/ list_op'[t] = "erase" /\ self'[t] = self[t] /\ list_pc'[t] # "idle"
                                      \/ taken[self[t]] > 0
    <3>1. list_op[t] = "erase" => self[t] # Li!Null
      BY <1>0, <1>11, KnownNodes DEF OpSays, KnownSays, Leaving, Locking, Li!valid,
          Li!Goto, Li!Giveup, Li!validNode, Li!nodes, Li!history
    <3> QED BY <3>1, <1>11, FoundGone DEF Li!TypeOK, Li!valid, Li!Goto, Li!Giveup,
        Li!validNode, Li!nodes, Li!history
  <2> QED BY <2>1, <2>2, <1>11, EraseStays DEF Li!TypeOK, Li!valid, Li!Goto, Li!Giveup,
      Li!validNode, Li!nodes, Li!history
<1>12. ASSUME NEW t \in Worker, Li!lock_self(t) PROVE EraseSays'
  <2>1. Others(t)
    BY <1>12 DEF Li!TypeOK, Others, Li!lock_self, Li!Goto, Li!acquire, Li!nodes, Li!history
  <2> QED BY <1>0, <2>1, <1>12, EraseStays DEF Li!TypeOK, OpSays, InPush, FreshPc,
      Leaving, Locking, Li!Failing, EraseSays, Li!lock_self, Li!Goto, Li!acquire,
      Li!nodes, Li!history
<1>13. ASSUME NEW t \in Worker, Li!mark(t) PROVE EraseSays'
  <2>1. Others(t)
    BY <1>13 DEF Li!TypeOK, Others, Li!mark, Li!Goto, Li!release, Li!Giveup, Li!history
  <2>2. (pops = 0 /\ list_op[t] = "erase") => \/ list_op'[t] = "erase" /\ self'[t] = self[t] /\ list_pc'[t] # "idle"
                                      \/ taken[self[t]] > 0
    <3>1. list_op[t] = "erase" => self[t] # Li!Null
      BY <1>0, <1>13, KnownNodes DEF OpSays, KnownSays, Leaving, Locking, Li!mark,
          Li!Goto, Li!release, Li!Giveup, Li!history
    <3> QED BY <3>1, <1>13, FoundGone DEF Li!TypeOK, Li!mark, Li!Goto, Li!release,
        Li!Giveup, Li!history
  <2> QED BY <2>1, <2>2, <1>13, EraseStays DEF Li!TypeOK, Li!mark, Li!Goto, Li!release,
      Li!Giveup, Li!history
<1>14. ASSUME NEW t \in Worker, Li!read_pred(t) PROVE EraseSays'
  <2>1. Others(t)
    BY <1>14 DEF Li!TypeOK, Others, Li!read_pred, Li!Goto, Li!nodes, Li!history
  <2> QED BY <1>0, <2>1, <1>14, EraseStays DEF Li!TypeOK, OpSays, InPush, FreshPc,
      Leaving, Locking, Li!Failing, EraseSays, Li!read_pred, Li!Goto, Li!nodes,
      Li!history
<1>15. ASSUME NEW t \in Worker, Li!lock_pred(t) PROVE EraseSays'
  <2>1. Others(t)
    BY <1>15 DEF Li!TypeOK, Others, Li!lock_pred, Li!Goto, Li!acquire, Li!nodes, Li!history
  <2> QED BY <1>0, <2>1, <1>15, EraseStays DEF Li!TypeOK, OpSays, InPush, FreshPc,
      Leaving, Locking, Li!Failing, EraseSays, Li!lock_pred, Li!Goto, Li!acquire,
      Li!nodes, Li!history
<1>16. ASSUME NEW t \in Worker, Li!check_pred(t) PROVE EraseSays'
  <2>1. Others(t)
    BY <1>16 DEF Li!TypeOK, Others, Li!check_pred, Li!Goto, Li!Fail, Li!nodes, Li!history
  <2> QED BY <1>0, <2>1, <1>16, EraseStays DEF Li!TypeOK, OpSays, InPush, FreshPc,
      Leaving, Locking, Li!Failing, EraseSays, Li!check_pred, Li!Goto, Li!Fail,
      Li!nodes, Li!history
<1>17. ASSUME NEW t \in Worker, Li!lock_succ(t) PROVE EraseSays'
  <2>1. Others(t)
    BY <1>17 DEF Li!TypeOK, Others, Li!lock_succ, Li!Goto, Li!acquire, Li!Fail,
        Li!nodes, Li!history
  <2> QED BY <1>0, <2>1, <1>17, EraseStays DEF Li!TypeOK, OpSays, InPush, FreshPc,
      Leaving, Locking, Li!Failing, EraseSays, Li!lock_succ, Li!Goto, Li!acquire,
      Li!Fail, Li!nodes, Li!history
<1>18. ASSUME NEW t \in Worker, Li!unlink(t) PROVE EraseSays'
  <2>1. Others(t)
    BY <1>18 DEF Li!TypeOK, Others, Li!unlink, Li!Goto, Li!history
  <2> QED BY <1>0, <2>1, <1>18, EraseStays DEF Li!TypeOK, OpSays, InPush, FreshPc,
      Leaving, Locking, Li!Failing, EraseSays, Li!unlink, Li!Goto, Li!history
<1>19. ASSUME NEW t \in Worker, Li!link_back(t) PROVE EraseSays'
  <2>1. Others(t)
    BY <1>19 DEF Li!TypeOK, Others, Li!link_back, Li!Goto, Li!history
  <2> QED BY <1>0, <2>1, <1>19, EraseStays DEF Li!TypeOK, OpSays, InPush, FreshPc,
      Leaving, Locking, Li!Failing, EraseSays, Li!link_back, Li!Goto, Li!history
<1>20. ASSUME NEW t \in Worker, Li!move_tail(t) PROVE EraseSays'
  <2>1. Others(t)
    BY <1>20 DEF Li!TypeOK, Others, Li!move_tail, Li!Goto, Li!release, Li!history
  <2> QED BY <1>0, <2>1, <1>20, EraseStays DEF Li!TypeOK, OpSays, InPush, FreshPc,
      Leaving, Locking, Li!Failing, EraseSays, Li!move_tail, Li!Goto, Li!release,
      Li!history
<1>21. ASSUME NEW t \in Worker, Li!removed(t) PROVE EraseSays'
  <2>1. Others(t)
    BY <1>21 DEF Li!TypeOK, Others, Li!removed, Li!Goto, Li!nodes
  <2>2. \A m \in Li!Node : taken[m] > 0 => taken'[m] > 0
    BY <1>21 DEF Li!TypeOK, Li!removed
  <2>3. asked \subseteq Li!Node
    BY DEF Li!TypeOK
  <2> QED BY <2>1, <2>2, <2>3, <1>21, EraseStays DEF Li!TypeOK, Li!removed, Li!Goto,
      Li!nodes
<1>22. ASSUME NEW t \in Worker, Li!return(t) PROVE EraseSays'
  <2>1. Others(t)
    BY <1>22 DEF Li!TypeOK, Others, Li!return, Li!Goto, Li!release, Li!nodes, Li!history
  <2>2. taken[self[t]] > 0
    BY <1>0, <1>22 DEF MarkSays, Li!return, Li!Goto, Li!release, Li!nodes, Li!history
  <2> QED BY <2>1, <2>2, <1>22, EraseStays DEF Li!TypeOK, Li!return, Li!Goto,
      Li!release, Li!nodes, Li!history
<1>23. ASSUME NEW t \in Worker, Li!unlock_self(t) PROVE EraseSays'
  <2>1. Others(t)
    BY <1>23 DEF Li!TypeOK, Others, Li!unlock_self, Li!Goto, Li!release, Li!nodes,
        Li!history
  <2> QED BY <1>0, <2>1, <1>23, EraseStays DEF Li!TypeOK, OpSays, InPush, FreshPc,
      Leaving, Locking, Li!Failing, EraseSays, Li!unlock_self, Li!Goto, Li!release,
      Li!nodes, Li!history
<1>24. ASSUME NEW t \in Worker, Li!clearRemoval(t) PROVE EraseSays'
  <2>1. Others(t)
    BY <1>24 DEF Li!TypeOK, Others, Li!clearRemoval, Li!Goto, Li!history
  <2> QED BY <1>0, <2>1, <1>24, EraseStays DEF Li!TypeOK, OpSays, InPush, FreshPc,
      Leaving, Locking, Li!Failing, EraseSays, Li!clearRemoval, Li!Goto, Li!history
<1>25. ASSUME NEW t \in Worker, Li!drop(t) PROVE EraseSays'
  <2>1. Others(t)
    BY <1>25 DEF Li!TypeOK, Others, Li!drop, Li!Goto, Li!release, Li!nodes, Li!history
  <2> QED BY <1>0, <2>1, <1>25, EraseStays DEF Li!TypeOK, OpSays, InPush, FreshPc,
      Leaving, Locking, Li!Failing, EraseSays, Li!drop, Li!Goto, Li!release, Li!nodes,
      Li!history
<1> QED BY <1>1, <1>2, <1>3, <1>4, <1>5, <1>6, <1>7, <1>8, <1>9, <1>10, <1>11, <1>12,
    <1>13, <1>14, <1>15, <1>16, <1>17, <1>18, <1>19, <1>20, <1>21, <1>22, <1>23, <1>24,
    <1>25 DEF Li!Next, Li!Step

-----------------------------------------------------------------------------
(* The inductive invariant.                                                 *)
ListInv == Li!TypeOK /\ Shape /\ SizeInv /\ EraseSays

(* It holds of the empty list.                                              *)
LEMMA ListInit == ASSUME Li!ListAssumption, Li!Init PROVE ListInv
<1>0. /\ \A t \in Worker : list_pc[t] = "idle" /\ list_op[t] = "push" /\ self[t] = Li!Null /\ prev[t] = Li!Null
      /\ Li!Null \notin Li!Node /\ Li!None \notin Worker /\ 0 \notin Li!Node
      /\ \A n \in {0} \cup Li!Node : list_next[n] = Li!Null
      /\ \A n \in Li!Node : taken[n] = 0 /\ pred[n] = Li!Null /\ owner[n] = Li!None
  BY DEF Li!ListAssumption, Li!Init, Li!Null, Li!Node
<1>1. Li!TypeOK
  BY SMT DEF Li!ListAssumption, Li!Init, Li!TypeOK, Li!Ptr, Li!Null, Li!None
<1>2. Nodes = {} /\ asked = {} /\ list_removal = {}
  BY SMT DEF Li!Init, Nodes
<1>3. Known = {} /\ In = {} /\ Spine = {0} /\ ListPlace = {0}
  BY <1>2 DEF Known, In, Spine, ListPlace
<1>4. \A t \in Worker : ThreadSays(t)
  BY <1>0 DEF ThreadSays, OpSays, NewSays, LocksSay, RemoverSays, PusherSays, InPush,
      FreshPc, Leaving, Locking, Li!Failing
<1>5. KnownSays /\ MarkSays
  BY <1>0, <1>2, <1>3 DEF Li!Init, KnownSays, MarkSays, Marking, Locking
<1>6. SpineSays /\ EndSays
  BY <1>0, <1>3 DEF Li!Init, SpineSays, EndSays
<1>7. SizeInv
  <2>1. Counted = {} /\ Li!Gone = {}
    BY <1>0, <1>2 DEF Counted, Li!Gone
  <2> QED BY <2>1, FS_EmptySet DEF Li!Init, SizeInv
<1>8. EraseSays
  BY <1>0, <1>2 DEF EraseSays
<1> QED BY <1>1, <1>4, <1>5, <1>6, <1>7, <1>8 DEF ListInv, Shape

(* ListLockFree counts with its own copy of FiniteSets.                     *)
LEMMA LiCounts ==
  ASSUME NEW S PROVE Li!Cardinality(S) = Cardinality(S)
BY DEF Li!Cardinality, Cardinality

(* When no call is running, nothing is unborn or in between: the spine is   *)
(* the list.                                                                *)
LEMMA WholeWhenIdle == ASSUME Li!ListAssumption, ListInv PROVE Li!ListWhole /\ Li!AllErased
<1> SUFFICES ASSUME Li!Idle PROVE Li!ListWhole /\ Li!AllErased
  BY DEF Li!ListWhole, Li!AllErased
<1>0. Li!TypeOK /\ KnownSays /\ MarkSays /\ SpineSays /\ EndSays /\ SizeInv /\ EraseSays
  BY DEF ListInv, Shape
<1>i. \A t \in Worker : list_pc[t] = "idle"
  BY DEF Li!Idle
<1>1. Unborn = {} /\ Known = Nodes /\ Nodes \subseteq Li!Node
  BY <1>0, <1>i, KnownNodes DEF Unborn, FreshPc, Known
<1>2. Out = Li!Gone
  BY <1>i DEF Out, Unlinked, Li!Gone
<1>3. In = Li!Live /\ Spine = Li!Live \cup {0}
  BY <1>1, <1>2 DEF In, Spine, Li!Live, Nodes
<1>4. list_size = Cardinality(Li!Live)
  <2>1. Counted = Nodes
    BY <1>i DEF Counted, InPush, FreshPc
  <2>2. Li!Gone \subseteq Nodes
    BY <1>0 DEF Li!Gone, KnownSays
  <2>3. Li!Live = Nodes \ Li!Gone /\ Nodes \cap Li!Gone = Li!Gone
    BY <2>2 DEF Li!Live, Nodes
  <2>4. Cardinality(Nodes \ Li!Gone) = Cardinality(Nodes) - Cardinality(Nodes \cap Li!Gone)
    BY <1>0, Finite, FS_Difference
  <2> QED BY <1>0, <2>1, <2>3, <2>4 DEF SizeInv
<1>5. \A n \in Li!Live : pred[n] \in Li!Live \cup {0} /\ list_next[pred[n]] = n
  BY <1>0, <1>3, <1>i DEF SpineSays
<1>6. {list_next[n] : n \in Li!Live \cup {0}} \ {Li!Null} = Li!Live
  <2>1. \A n \in Li!Live \cup {0} : list_next[n] = Li!Null \/ list_next[n] \in Li!Live
    BY <1>0, <1>3 DEF SpineSays
  <2>2. Li!Null \notin Li!Live
    BY <1>0, <1>3, KnownNodes DEF In, Known, Li!Node, Li!Null
  <2> QED BY <1>5, <2>1, <2>2
<1>7. list_tail \in Li!Live \cup {0} /\ list_next[list_tail] = Li!Null
  BY <1>0, <1>3, <1>i DEF EndSays, LastMoves
<1>8. list_removal \cap Li!Live = {}
  BY <1>0, <1>i, <1>3, KnownNodes DEF MarkSays, Marking, Locking, Li!Live, Li!Gone,
      Li!TypeOK
<1>9. Li!ListWhole
  BY <1>4, <1>5, <1>6, <1>7, <1>8, LiCounts DEF Li!ListWhole
<1>10. ASSUME pops = 0, asked = 1 .. list_created PROVE list_size = 0 /\ list_next[0] = Li!Null /\ list_tail = 0
  <2>1. Li!Live = {}
    BY <1>0, <1>1, <1>i, <1>10 DEF EraseSays, Li!Live, Li!Gone, Nodes
  <2> QED BY <1>4, <1>6, <1>7, <2>1, FS_EmptySet
<1> QED BY <1>9, <1>10 DEF Li!AllErased

(* However many threads push, pop and erase, the list is whole between      *)
(* calls: linked in both directions, tail last, m_size exact and nothing    *)
(* in it marked, and a test that only pushes and erases its own leaves      *)
(* nothing (push_back, try_pop_front, try_erase; main.cpp                   *)
(* list_free_test).                                                         *)
THEOREM ListStaysWhole ==
  ASSUME Li!ListAssumption PROVE Li!Spec => [](Li!TypeOK /\ Li!ListWhole /\ Li!AllErased)
<1>1. Li!Init => ListInv
  BY ListInit
<1>2. ListInv /\ [Li!Next]_Li!vars => ListInv'
  BY ShapeStep, TypeStep, SizeStep, EraseStep DEF ListInv
<1>3. ListInv => Li!TypeOK /\ Li!ListWhole /\ Li!AllErased
  BY WholeWhenIdle DEF ListInv
<1> QED BY <1>1, <1>2, <1>3, PTL DEF Li!Spec

-----------------------------------------------------------------------------
(* A call is told by its program counter, and what it has changed by did.   *)
CallSays(t) ==
  /\ bits_op[t] = "set" => bits_pc[t] \in {"idle", "done"}
  /\ bits_pc[t] \in {"load", "exchange", "next"} => block_i[t] < Bi!total_block
  /\ bits_op[t] = "compare_set" /\ bits_pc[t] \in {"load", "exchange", "next"}
       => block_i[t] = Bi!get_data_pos(bits_idx[t]).block_idx
  /\ bits_op[t] = "compare_set" /\ bits_pc[t] \in {"next", "done"} /\ ans[t] /\ expected[t] # value[t]
       => did[t] = bits_idx[t]
  /\ bits_op[t] = "change" /\ expected[t] # value[t]
       => /\ bits_pc[t] \in {"load", "exchange"} => did[t] = Bi!Nothing
          /\ bits_pc[t] = "next" => did[t] = IF bit_idx[t] < block_bits
                                        THEN block_i[t] * block_bits + bit_idx[t] ELSE Bi!Nothing
          /\ bits_pc[t] = "done" => found[t] = IF did[t] \in Bi!Idx THEN did[t] ELSE Bi!INVALID_INDEX

HonestInv == Bi!TypeOK /\ \A t \in Worker : CallSays(t)

(* The threads pick: a bit that was set is on, or one thread holds it, or   *)
(* it was picked, once.                                                     *)
Holds(t, n) == bits_op[t] = "change" /\ bits_pc[t] \in {"next", "done"} /\ did[t] = n

BitSays(n) ==
  /\ n \in was_set <=> Bi!get(n) \/ picked[n] > 0 \/ \E t \in Worker : Holds(t, n)
  /\ picked[n] =< 1
  /\ Bi!get(n) => picked[n] = 0
  /\ \A t \in Worker : Holds(t, n) => ~Bi!get(n) /\ picked[n] = 0
  /\ \A t, u \in Worker : Holds(t, n) /\ Holds(u, n) => t = u

(* Nothing is on where a picking thread has passed.                         *)
PassSays(t) ==
  bits_op[t] = "change" =>
    /\ expected[t] /\ ~value[t]
    /\ bits_pc[t] \in {"load", "exchange", "next"} => \A b \in 0 .. block_i[t] - 1 : m_block[b] = {}
    /\ bits_pc[t] = "next" /\ bit_idx[t] = block_bits => m_block[block_i[t]] = {}
    /\ bits_pc[t] = "next" /\ bit_idx[t] < block_bits => did[t] \in Bi!Idx
    /\ (bits_pc[t] = "done" /\ found[t] = Bi!INVALID_INDEX) \/ bits_pc[t] = "over"
         => \A b \in 0 .. Bi!total_block - 1 : m_block[b] = {}

Picking == \E t \in Worker : bits_op[t] = "change"

PickInv ==
  /\ HonestInv
  /\ \A t \in Worker : bits_op[t] \in {"set", "change"}
  /\ Picking => \A t \in Worker : bits_op[t] = "set" => bits_pc[t] = "idle"
  /\ ~Picking => \A n \in Bi!Idx : picked[n] = 0
  /\ \A b \in 0 .. Bi!total_block - 1 : \A o \in m_block[b] : b * block_bits + o < BITS_COUNT
  /\ \A n \in Bi!Idx : BitSays(n)
  /\ \A t \in Worker : PassSays(t)
-----------------------------------------------------------------------------
(* The least of a set of numbers is in it: numbers are well-founded.        *)
Less == {ss \in Nat \X Nat : ss[1] < ss[2]}

(* The order of the naturals is well founded, as the library's relation says it. *)
LEMMA LessFounded == IsWellFoundedOn(Less, Nat)
<1>1. OpToRel(<, Nat) = Less
  BY DEF OpToRel, Less
<1> QED BY <1>1, NatLessThanWellFounded

(* Min picks an element of a set of naturals that is not empty (countl). *)
LEMMA Least == ASSUME NEW S, S \subseteq Nat, S # {} PROVE Bi!Min(S) \in S
<1>1. PICK x \in S : \A y \in S : <<y, x>> \notin Less
  BY LessFounded, WFMin
<1>2. \A y \in S : x =< y
  <2> SUFFICES ASSUME NEW y \in S, ~(x =< y) PROVE FALSE
    OBVIOUS
  <2>1. y < x /\ x \in Nat /\ y \in Nat
    OBVIOUS
  <2>2. <<y, x>> \in Nat \X Nat /\ <<y, x>>[1] < <<y, x>>[2]
    BY <2>1
  <2>3. <<y, x>> \in Less
    BY <2>2 DEF Less
  <2> QED BY <1>1, <2>3
<1> QED BY <1>2 DEF Bi!Min

(* countl finds a bit that is as expected, or none is (countl_zero,         *)
(* countl_one).                                                             *)
LEMMA Countl ==
  ASSUME Bi!BitSetAssumption, NEW block \in SUBSET Bi!Offset, NEW e \in BOOLEAN
  PROVE  /\ Bi!countl(block, e) \in 0 .. block_bits
         /\ Bi!countl(block, e) < block_bits
              => Bi!countl(block, e) \in Bi!Offset /\ ((Bi!countl(block, e) \in block) = e)
         /\ Bi!countl(block, e) = block_bits /\ e => block = {}
<1> DEFINE hits == IF e THEN block ELSE Bi!Offset \ block
<1>0. block_bits \in Nat /\ block_bits > 0
  BY DEF Bi!BitSetAssumption
<1>1. hits \subseteq Bi!Offset /\ hits \subseteq Nat
  BY <1>0 DEF Bi!Offset
<1>2. CASE hits = {}
  <2>1. Bi!countl(block, e) = block_bits
    BY <1>2 DEF Bi!countl
  <2> QED BY <1>0, <1>2, <2>1
<1>3. CASE hits # {}
  <2>1. Bi!countl(block, e) = Bi!Min(hits)
    BY <1>3 DEF Bi!countl
  <2>2. Bi!Min(hits) \in hits
    BY <1>1, <1>3, Least
  <2>3. Bi!Min(hits) \in Bi!Offset
    BY <1>1, <2>2
  <2>4. Bi!Min(hits) \in 0 .. block_bits - 1
    BY <2>3 DEF Bi!Offset
  <2> QED BY <1>0, <2>1, <2>2, <2>3, <2>4
<1> QED BY <1>2, <1>3

-----------------------------------------------------------------------------
(* A bit is at one place: block block_idx, offset data_offset.              *)
LEMMA DivMod ==
  ASSUME NEW C \in Nat, C > 0, NEW a \in Nat
  PROVE  a % C \in 0 .. C - 1 /\ a \div C \in Int /\ a = (a \div C) * C + (a % C)
<1>1. a % C \in 0 .. C - 1
  BY SMT
<1>2. a \div C \in Int
  BY SMT
<1>3. a = (a \div C) * C + (a % C)
  BY SMT
<1> QED BY <1>1, <1>2, <1>3

(* Multiplying by the block's bits keeps the order of the blocks. *)
LEMMA ProductLess ==
  ASSUME NEW C \in Nat, C > 0, NEW x \in Int, NEW y \in Int
  PROVE  /\ x * C \in Int /\ y * C \in Int
         /\ x =< y => x * C =< y * C
         /\ x + 1 =< y => x * C + C =< y * C
<1>1. x * C \in Int /\ y * C \in Int
  BY SMT
<1>2. x =< y => x * C =< y * C
  BY SMT
<1>3. x + 1 =< y => x * C + C =< y * C
  <2>1. (x + 1) * C = x * C + C
    BY SMT
  <2>2. x + 1 =< y => (x + 1) * C =< y * C
    BY SMT
  <2> QED BY <2>1, <2>2
<1> QED BY <1>1, <1>2, <1>3

(* The block and the offset of a bit are in range and give the bit back (get_data_pos). *)
LEMMA Pos ==
  ASSUME Bi!BitSetAssumption, NEW n \in Bi!Idx
  PROVE  /\ Bi!get_data_pos(n).block_idx \in 0 .. Bi!total_block - 1
         /\ Bi!get_data_pos(n).data_offset \in Bi!Offset
         /\ n = Bi!get_data_pos(n).block_idx * block_bits + Bi!get_data_pos(n).data_offset
<1> DEFINE B == block_bits
           b == n \div B
           y == (BITS_COUNT + B - 1) \div B
<1>0. B \in Nat /\ B > 0 /\ BITS_COUNT \in Nat /\ n \in Nat /\ n =< BITS_COUNT - 1
  BY DEF Bi!BitSetAssumption, Bi!Idx
<1>1. n % B \in 0 .. B - 1 /\ b \in Int /\ n = b * B + (n % B)
  BY <1>0, DivMod
<1>2. LET r == (BITS_COUNT + B - 1) % B IN
      r \in 0 .. B - 1 /\ y \in Int /\ BITS_COUNT + B - 1 = y * B + r
  <2>1. BITS_COUNT + B - 1 \in Nat
    BY <1>0
  <2> QED BY <1>0, <2>1, DivMod
<1> HIDE DEF b, y
<1>3. b * B \in Int /\ y * B \in Int /\ 0 * B = 0
  BY <1>0, <1>1, <1>2, SMT
<1>4. 0 =< b
  <2> SUFFICES ASSUME b + 1 =< 0 PROVE FALSE
    BY <1>1
  <2>1. b * B + B =< 0 * B
    BY <1>0, <1>1, ProductLess
  <2> QED BY <1>0, <1>1, <1>3, <2>1
<1>5. b + 1 =< y
  <2> SUFFICES ASSUME y =< b PROVE FALSE
    BY <1>1, <1>2
  <2>1. y * B =< b * B
    BY <1>0, <1>1, <1>2, ProductLess
  <2>2. n + B =< BITS_COUNT + B - 1
    BY <1>0
  <2> QED BY <1>0, <1>1, <1>2, <1>3, <2>1, <2>2
<1>6. b \in 0 .. y - 1
  BY <1>1, <1>2, <1>4, <1>5
<1>7. Bi!get_data_pos(n).block_idx = b /\ Bi!get_data_pos(n).data_offset = n % B /\ Bi!total_block = y
  BY DEF Bi!get_data_pos, b, y, Bi!total_block
<1> QED BY <1>1, <1>6, <1>7 DEF Bi!Offset

(* A bit is in one block, at one offset. *)
LEMMA OnePlace ==
  ASSUME Bi!BitSetAssumption, NEW b \in Int, NEW c \in Int, NEW o \in Bi!Offset, NEW p \in Bi!Offset,
         b * block_bits + o = c * block_bits + p
  PROVE  b = c /\ o = p
<1>0. block_bits \in Nat /\ block_bits > 0 /\ o \in 0 .. block_bits - 1 /\ p \in 0 .. block_bits - 1
  BY DEF Bi!BitSetAssumption, Bi!Offset
<1>1. ~(b + 1 =< c)
  <2> SUFFICES ASSUME b + 1 =< c PROVE FALSE
    OBVIOUS
  <2>1. b * block_bits + block_bits =< c * block_bits /\ b * block_bits \in Int
        /\ c * block_bits \in Int
    BY <1>0, ProductLess
  <2> QED BY <1>0, <2>1
<1>2. ~(c + 1 =< b)
  <2> SUFFICES ASSUME c + 1 =< b PROVE FALSE
    OBVIOUS
  <2>1. c * block_bits + block_bits =< b * block_bits /\ b * block_bits \in Int
        /\ c * block_bits \in Int
    BY <1>0, ProductLess
  <2> QED BY <1>0, <2>1
<1>3. b = c
  BY <1>1, <1>2
<1>4. b * block_bits \in Int
  BY <1>0, ProductLess
<1> QED BY <1>0, <1>3, <1>4

-----------------------------------------------------------------------------
(* The numbers of the bit set, and what no call returns as a bit's index. *)
LEMMA BitNumbers ==
  ASSUME Bi!BitSetAssumption
  PROVE  /\ block_bits \in Nat /\ block_bits > 0 /\ BITS_COUNT \in Nat /\ BITS_COUNT > 0
         /\ BitCalls \in Nat /\ Bi!total_block \in Int /\ Bi!total_block > 0 /\ 0 \in Bi!Idx
         /\ Bi!INVALID_INDEX \notin Bi!Idx /\ Bi!Nothing \notin Bi!Idx
<1>0. 0 \in Bi!Idx
  BY DEF Bi!BitSetAssumption, Bi!Idx
<1>1. Bi!get_data_pos(0).block_idx \in 0 .. Bi!total_block - 1
  BY <1>0, Pos
<1>2. Bi!total_block \in Int
  <2>1. BITS_COUNT + block_bits - 1 \in Nat /\ block_bits \in Nat /\ block_bits > 0
    BY DEF Bi!BitSetAssumption
  <2> QED BY <2>1, DivMod DEF Bi!total_block
<1>3. Bi!total_block > 0
  BY <1>1, <1>2
<1> QED BY <1>0, <1>2, <1>3 DEF Bi!BitSetAssumption, Bi!Idx, Bi!INVALID_INDEX, Bi!Nothing

(* Before the first call no caller has anything to say. *)
LEMMA HonestInit == ASSUME Bi!BitSetAssumption, Bi!Init PROVE HonestInv
<1>0. \A t \in Worker : bits_pc[t] = "idle" /\ bits_op[t] = "set"
  BY DEF Bi!Init
<1>1. \A t \in Worker : CallSays(t)
  BY <1>0 DEF CallSays
<1>2. Bi!TypeOK
  <2>1. m_block \in [0 .. Bi!total_block - 1 -> SUBSET Bi!Offset]
    BY DEF Bi!Init
  <2>2. block_i \in [Worker -> 0 .. Bi!total_block] /\ bit_idx \in [Worker -> 0 .. block_bits]
        /\ bits_idx \in [Worker -> Bi!Idx] /\ bits_calls \in [Worker -> 0 .. BitCalls]
    BY BitNumbers DEF Bi!Init
  <2> QED BY <2>1, <2>2 DEF Bi!Init, Bi!TypeOK, Bi!Nothing
<1> QED BY <1>1, <1>2 DEF HonestInv

(* What the block becomes, and what the call will say of it.                *)
LEMMA Modified ==
  ASSUME Bi!BitSetAssumption, Bi!TypeOK, NEW t \in Worker
  PROVE  /\ Bi!modify(t) \subseteq Bi!Offset
         /\ Bi!countl(bits_cur[t], expected[t]) \in 0 .. block_bits
         /\ bits_op[t] = "change" /\ Bi!countl(bits_cur[t], expected[t]) = block_bits => Bi!modify(t) = bits_cur[t]
         /\ bits_op[t] = "change" /\ expected[t] # value[t] /\ Bi!countl(bits_cur[t], expected[t]) < block_bits
              => Bi!modify(t) # bits_cur[t]
         /\ bits_op[t] = "compare_set" /\ expected[t] # value[t]
              /\ (Bi!get_data_pos(bits_idx[t]).data_offset \in bits_cur[t]) = expected[t]
              => Bi!modify(t) # bits_cur[t]
<1>1. bits_cur[t] \subseteq Bi!Offset /\ expected[t] \in BOOLEAN /\ value[t] \in BOOLEAN /\ bits_idx[t] \in Bi!Idx
      /\ bits_op[t] \in {"set", "compare_set", "change", "flip"}
  BY DEF Bi!TypeOK
<1> DEFINE k == Bi!countl(bits_cur[t], expected[t])
           o == Bi!get_data_pos(bits_idx[t]).data_offset
<1>2. /\ k \in 0 .. block_bits
      /\ k < block_bits => k \in Bi!Offset /\ ((k \in bits_cur[t]) = expected[t])
  BY <1>1, Countl
<1>3. o \in Bi!Offset
  BY <1>1, Pos
<1>4. block_bits \in Nat
  BY BitNumbers
<1> HIDE DEF k, o
<1>5. Bi!modify(t) = CASE bits_op[t] = "compare_set" ->
                         IF (o \in bits_cur[t]) # expected[t] THEN bits_cur[t] ELSE Bi!Written(bits_cur[t], o, value[t])
                    [] bits_op[t] = "change" ->
                         IF k = block_bits THEN bits_cur[t] ELSE Bi!Written(bits_cur[t], k, value[t])
                    [] OTHER -> Bi!Offset \ bits_cur[t]
  BY DEF Bi!modify, k, o
<1>6. CASE bits_op[t] = "compare_set"
  <2>1. Bi!modify(t) = IF (o \in bits_cur[t]) # expected[t] THEN bits_cur[t] ELSE Bi!Written(bits_cur[t], o, value[t])
    BY <1>5, <1>6
  <2>2. Bi!modify(t) \subseteq Bi!Offset
    BY <1>1, <1>3, <2>1 DEF Bi!Written
  <2>3. expected[t] # value[t] /\ (o \in bits_cur[t]) = expected[t] => Bi!modify(t) # bits_cur[t]
    BY <1>1, <2>1 DEF Bi!Written
  <2> QED BY <1>2, <1>6, <2>2, <2>3 DEF k, o
<1>7. CASE bits_op[t] = "change"
  <2>1. Bi!modify(t) = IF k = block_bits THEN bits_cur[t] ELSE Bi!Written(bits_cur[t], k, value[t])
    BY <1>5, <1>7
  <2>2. Bi!modify(t) \subseteq Bi!Offset
    BY <1>1, <1>2, <1>4, <2>1 DEF Bi!Written
  <2>3. expected[t] # value[t] /\ k < block_bits => Bi!modify(t) # bits_cur[t]
    BY <1>1, <1>2, <1>4, <2>1 DEF Bi!Written
  <2> QED BY <1>2, <1>7, <2>1, <2>2, <2>3 DEF k, o
<1>8. CASE bits_op[t] \notin {"compare_set", "change"}
  <2>1. Bi!modify(t) \subseteq Bi!Offset
    BY <1>5, <1>8
  <2> QED BY <1>2, <1>8, <2>1 DEF k, o
<1> QED BY <1>6, <1>7, <1>8

(* Every step keeps the types of the bit set and of its callers. *)
LEMMA HonestType ==
  ASSUME Bi!BitSetAssumption, HonestInv, [Bi!Next]_Bi!vars PROVE Bi!TypeOK'
<1>0. Bi!TypeOK /\ \A t \in Worker : CallSays(t)
  BY DEF HonestInv
<1>n. /\ block_bits \in Nat /\ block_bits > 0 /\ BITS_COUNT \in Nat /\ BITS_COUNT > 0
      /\ BitCalls \in Nat /\ Bi!total_block \in Int /\ Bi!total_block > 0 /\ 0 \in Bi!Idx
  BY BitNumbers
<1> USE DEF Bi!args, Bi!local
<1>1. ASSUME NEW t \in Worker, NEW n \in Bi!Idx, NEW v \in BOOLEAN, Bi!set(t, n, v) PROVE Bi!TypeOK'
  <2> DEFINE b == Bi!get_data_pos(n).block_idx
             o == Bi!get_data_pos(n).data_offset
  <2>1. b \in 0 .. Bi!total_block - 1 /\ o \in Bi!Offset
    BY Pos
  <2>2. Bi!get(n) \in BOOLEAN
    BY DEF Bi!get
  <2> HIDE DEF b, o
  <2>3. m_block' = [m_block EXCEPT ![b] = Bi!Written(@, o, v)]
    BY <1>1 DEF Bi!set, b, o
  <2>4. m_block' \in [0 .. Bi!total_block - 1 -> SUBSET Bi!Offset]
    <3>1. Bi!Written(m_block[b], o, v) \subseteq Bi!Offset
      BY <1>0, <2>1 DEF Bi!TypeOK, Bi!Written
    <3> QED BY <1>0, <2>1, <2>3, <3>1 DEF Bi!TypeOK
  <2>5. bits_calls' \in [Worker -> 0 .. BitCalls]
    BY <1>0, <1>1, <1>n DEF Bi!set, Bi!Count, Bi!TypeOK
  <2>6. did' \in [Worker -> Int] /\ was_set' \subseteq Bi!Idx
    BY <1>0, <1>1, <1>n DEF Bi!set, Bi!TypeOK, Bi!Nothing, Bi!Idx
  <2>7. ans' \in [Worker -> BOOLEAN] /\ bits_pc' \in [Worker -> {"idle", "load", "exchange", "next", "done", "over"}]
    BY <1>0, <1>1, <2>2 DEF Bi!set, Bi!Goto, Bi!TypeOK
  <2> QED BY <1>0, <1>1, <2>4, <2>5, <2>6, <2>7 DEF Bi!set, Bi!Call, Bi!TypeOK
<1>2. ASSUME NEW t \in Worker, NEW n \in Bi!Idx, NEW e \in BOOLEAN, NEW v \in BOOLEAN,
             Bi!compare_set(t, n, e, v)
      PROVE  Bi!TypeOK'
  <2>1. Bi!get_data_pos(n).block_idx \in 0 .. Bi!total_block
    BY <1>n, Pos
  <2>2. bits_calls' \in [Worker -> 0 .. BitCalls]
    BY <1>0, <1>2, <1>n DEF Bi!compare_set, Bi!Count, Bi!TypeOK
  <2>3. did' \in [Worker -> Int] /\ block_i' \in [Worker -> 0 .. Bi!total_block]
    BY <1>0, <1>2, <2>1 DEF Bi!compare_set, Bi!TypeOK, Bi!Nothing
  <2> QED BY <1>0, <1>2, <2>2, <2>3 DEF Bi!compare_set, Bi!Call, Bi!Goto, Bi!TypeOK
<1>3. ASSUME NEW t \in Worker, NEW o \in {"change", "flip"}, NEW e \in BOOLEAN, NEW v \in BOOLEAN,
             Bi!Start(t, o, e, v), UNCHANGED bits_calls \/ Bi!Count(t)
      PROVE  Bi!TypeOK'
  <2>1. bits_calls' \in [Worker -> 0 .. BitCalls]
    <3>1. CASE Bi!Count(t)
      BY <1>0, <1>n, <3>1 DEF Bi!Count, Bi!TypeOK
    <3>2. CASE bits_calls' = bits_calls
      BY <1>0, <3>2 DEF Bi!TypeOK
    <3> QED BY <1>3, <3>1, <3>2
  <2>2. did' \in [Worker -> Int] /\ block_i' \in [Worker -> 0 .. Bi!total_block]
        /\ bit_idx' \in [Worker -> 0 .. block_bits]
    BY <1>0, <1>3, <1>n DEF Bi!Start, Bi!TypeOK, Bi!Nothing
  <2> QED BY <1>0, <1>3, <1>n, <2>1, <2>2 DEF Bi!Start, Bi!Call, Bi!Goto, Bi!TypeOK
<1>4. ASSUME NEW t \in Worker, Bi!load(t) PROVE Bi!TypeOK'
  <2>1. block_i[t] \in 0 .. Bi!total_block - 1
    BY <1>0, <1>4, <1>n DEF Bi!load, Bi!Goto, CallSays, Bi!TypeOK
  <2> QED BY <1>0, <1>4, <2>1 DEF Bi!load, Bi!Goto, Bi!TypeOK
<1>5. ASSUME NEW t \in Worker, Bi!exchange(t) PROVE Bi!TypeOK'
  <2> DEFINE k == Bi!countl(bits_cur[t], expected[t])
  <2>1. block_i[t] \in 0 .. Bi!total_block - 1
    BY <1>0, <1>5, <1>n DEF Bi!exchange, Bi!Goto, CallSays, Bi!TypeOK
  <2>2. Bi!modify(t) \subseteq Bi!Offset /\ k \in 0 .. block_bits
    BY <1>0, Modified
  <2>3. Bi!get_data_pos(bits_idx[t]).data_offset \in Int
    BY <1>0, <1>n, Pos DEF Bi!TypeOK, Bi!Offset
  <2> HIDE DEF k
  <2>4. bit_idx' \in [Worker -> 0 .. block_bits] /\ ans' \in [Worker -> BOOLEAN]
    BY <1>0, <1>5, <2>2 DEF Bi!exchange, Bi!effects, Bi!TypeOK, k
  <2>5. block_i[t] * block_bits + bit_idx'[t] \in Int
        /\ block_i[t] * block_bits + Bi!get_data_pos(bits_idx[t]).data_offset \in Int
    <3>1. block_i[t] * block_bits \in Int /\ bit_idx'[t] \in Int
      BY <1>n, <2>1, <2>4, ProductLess
    <3> QED BY <2>3, <3>1
  <2>6. did' \in [Worker -> Int]
    BY <1>0, <1>5, <2>5 DEF Bi!exchange, Bi!TypeOK
  <2>7. m_block' \in [0 .. Bi!total_block - 1 -> SUBSET Bi!Offset]
    BY <1>0, <1>5, <2>2 DEF Bi!exchange, Bi!TypeOK
  <2>8. bits_pc' \in [Worker -> {"idle", "load", "exchange", "next", "done", "over"}]
    BY <1>0, <1>5 DEF Bi!exchange, Bi!Goto, Bi!TypeOK
  <2> QED BY <1>0, <1>5, <2>4, <2>6, <2>7, <2>8 DEF Bi!exchange, Bi!TypeOK
<1>6. ASSUME NEW t \in Worker, Bi!skip_block(t) PROVE Bi!TypeOK'
  <2>1. block_i' \in [Worker -> 0 .. Bi!total_block]
    BY <1>0, <1>6, <1>n DEF Bi!skip_block, Bi!TypeOK
  <2> QED BY <1>0, <1>6, <2>1 DEF Bi!skip_block, Bi!Goto, Bi!TypeOK
<1>7. ASSUME NEW t \in Worker, Bi!finish(t) PROVE Bi!TypeOK'
  <2>1. block_i[t] * block_bits + bit_idx[t] \in Int /\ block_i[t] * block_bits + bit_idx[t] >= 0
    <3>1. block_i[t] \in Int /\ 0 =< block_i[t] /\ bit_idx[t] \in Nat
      BY <1>0, <1>n DEF Bi!TypeOK
    <3>2. block_i[t] * block_bits \in Int /\ 0 * block_bits =< block_i[t] * block_bits /\ 0 * block_bits = 0
      BY <1>n, <3>1, ProductLess
    <3> QED BY <3>1, <3>2
  <2>2. found' \in [Worker -> Bi!Idx \cup {Bi!INVALID_INDEX}]
    BY <1>0, <1>7, <1>n, <2>1 DEF Bi!finish, Bi!TypeOK, Bi!Idx
  <2> QED BY <1>0, <1>7, <2>2 DEF Bi!finish, Bi!TypeOK
<1>8. ASSUME NEW t \in Worker, Bi!one_block(t) PROVE Bi!TypeOK'
  BY <1>0, <1>8 DEF Bi!one_block, Bi!Goto, Bi!TypeOK
<1>9. ASSUME NEW t \in Worker, Bi!done(t) PROVE Bi!TypeOK'
  <2>1. picked' \in [Bi!Idx -> Nat]
    BY <1>0, <1>9 DEF Bi!done, Bi!TypeOK
  <2> QED BY <1>0, <1>9, <2>1 DEF Bi!done, Bi!Goto, Bi!TypeOK
<1>10. CASE UNCHANGED Bi!vars
  BY <1>0, <1>10 DEF Bi!vars, Bi!TypeOK
<1> QED BY <1>1, <1>2, <1>3, <1>4, <1>5, <1>6, <1>7, <1>8, <1>9, <1>10
        DEF Bi!Next, Bi!change_first_expect, Bi!flip, Bi!pick

(* Each action keeps what a call says of itself.                            *)
LEMMA HonestCalls ==
  ASSUME Bi!BitSetAssumption, HonestInv, [Bi!Next]_Bi!vars PROVE \A t \in Worker : CallSays(t)'
<1>0. Bi!TypeOK /\ \A t \in Worker : CallSays(t)
  BY DEF HonestInv
<1>n. /\ block_bits \in Nat /\ block_bits > 0 /\ BITS_COUNT \in Nat /\ BITS_COUNT > 0
      /\ BitCalls \in Nat /\ Bi!total_block \in Int /\ Bi!total_block > 0 /\ 0 \in Bi!Idx
  BY BitNumbers
<1> USE DEF Bi!args, Bi!local
<1>1. ASSUME NEW t \in Worker, NEW n \in Bi!Idx, NEW v \in BOOLEAN, Bi!set(t, n, v)
      PROVE  \A u \in Worker : CallSays(u)'
  <2>1. bits_op'[t] = "set" /\ bits_pc'[t] = "done"
    BY <1>0, <1>1 DEF Bi!set, Bi!Call, Bi!Goto, Bi!TypeOK
  <2> QED BY <1>0, <1>1, <2>1 DEF Bi!set, Bi!Call, Bi!Goto, Bi!TypeOK, CallSays
<1>2. ASSUME NEW t \in Worker, NEW n \in Bi!Idx, NEW e \in BOOLEAN, NEW v \in BOOLEAN,
             Bi!compare_set(t, n, e, v)
      PROVE  \A u \in Worker : CallSays(u)'
  <2>1. bits_op'[t] = "compare_set" /\ bits_pc'[t] = "load" /\ bits_idx'[t] = n
    BY <1>0, <1>2 DEF Bi!compare_set, Bi!Call, Bi!Goto, Bi!TypeOK
  <2>2. Bi!get_data_pos(n).block_idx \in 0 .. Bi!total_block - 1
    BY Pos
  <2>3. block_i'[t] = Bi!get_data_pos(n).block_idx
    BY <1>0, <1>2 DEF Bi!compare_set, Bi!TypeOK
  <2>4. CallSays(t)'
    BY <1>n, <2>1, <2>2, <2>3 DEF CallSays
  <2>5. \A u \in Worker : u # t => CallSays(u)'
    BY <1>0, <1>2 DEF Bi!compare_set, Bi!Call, Bi!Goto, Bi!TypeOK, CallSays
  <2> QED BY <2>4, <2>5
<1>3. ASSUME NEW t \in Worker, NEW o \in {"change", "flip"}, NEW e \in BOOLEAN, NEW v \in BOOLEAN,
             Bi!Start(t, o, e, v)
      PROVE  \A u \in Worker : CallSays(u)'
  <2>1. bits_op'[t] = o /\ bits_pc'[t] = "load" /\ block_i'[t] = 0 /\ did'[t] = Bi!Nothing
    BY <1>0, <1>3 DEF Bi!Start, Bi!Call, Bi!Goto, Bi!TypeOK
  <2>4. CallSays(t)'
    BY <1>n, <2>1 DEF CallSays
  <2>5. \A u \in Worker : u # t => CallSays(u)'
    BY <1>0, <1>3 DEF Bi!Start, Bi!Call, Bi!Goto, Bi!TypeOK, CallSays
  <2> QED BY <2>4, <2>5
<1>4. ASSUME NEW t \in Worker, Bi!load(t) PROVE \A u \in Worker : CallSays(u)'
  BY <1>0, <1>4 DEF Bi!load, Bi!Goto, Bi!TypeOK, CallSays
<1>5. ASSUME NEW t \in Worker, Bi!exchange(t) PROVE \A u \in Worker : CallSays(u)'
  <2> DEFINE k == Bi!countl(bits_cur[t], expected[t])
             o == Bi!get_data_pos(bits_idx[t]).data_offset
  <2>1. /\ UNCHANGED <<bits_op, bits_idx, expected, value, block_i, bits_cur, found>> /\ bits_pc[t] = "exchange"
        /\ bits_pc'[t] \in {"next", "load"}
        /\ \A u \in Worker : u # t => bits_pc'[u] = bits_pc[u] /\ did'[u] = did[u] /\ ans'[u] = ans[u]
                                      /\ bit_idx'[u] = bit_idx[u]
    BY <1>0, <1>5 DEF Bi!exchange, Bi!effects, Bi!Goto, Bi!TypeOK
  <2>2. \A u \in Worker : u # t => CallSays(u)'
    BY <1>0, <2>1 DEF CallSays
  <2>3. CallSays(t)
    BY <1>0
  <2> SUFFICES CallSays(t)'
    BY <2>2
  <2>4. CASE bits_op[t] = "change"
    <3>1. bit_idx'[t] = k
      BY <1>0, <1>5, <2>4 DEF Bi!exchange, Bi!effects, Bi!TypeOK
    <3>2. k \in 0 .. block_bits
      BY <1>0, Modified
    <3>3. CASE expected[t] # value[t]
      <4>1. did[t] = Bi!Nothing
        BY <2>1, <2>3, <2>4, <3>3 DEF CallSays
      <4>2. Bi!modify(t) = bits_cur[t] <=> k = block_bits
        BY <1>0, <1>n, <2>4, <3>2, <3>3, Modified
      <4>3. bits_pc'[t] = "next" => did'[t] = IF Bi!modify(t) = bits_cur[t] THEN did[t] ELSE block_i[t] * block_bits + k
        BY <1>0, <1>5, <2>1, <2>4, <3>1 DEF Bi!exchange, Bi!Goto, Bi!TypeOK
      <4>4. bits_pc'[t] = "load" => did' = did
        BY <1>0, <1>5, <2>1 DEF Bi!exchange, Bi!Goto, Bi!TypeOK
      <4>5. bits_pc'[t] = "next" => did'[t] = IF k < block_bits THEN block_i[t] * block_bits + k ELSE Bi!Nothing
        BY <1>n, <3>2, <4>1, <4>2, <4>3
      <4> HIDE DEF k
      <4> QED BY <2>1, <2>3, <2>4, <3>1, <4>1, <4>4, <4>5 DEF CallSays
    <3> QED BY <2>1, <2>3, <2>4, <3>3 DEF CallSays
  <2>5. CASE bits_op[t] = "compare_set"
    <3>1. CASE bits_pc'[t] = "next" /\ ans'[t] /\ expected[t] # value[t]
      <4>1. (o \in bits_cur[t]) = expected[t]
        BY <1>0, <1>5, <2>5, <3>1 DEF Bi!exchange, Bi!effects, Bi!TypeOK
      <4>2. Bi!modify(t) # bits_cur[t]
        BY <1>0, <2>5, <3>1, <4>1, Modified
      <4>3. did'[t] = block_i[t] * block_bits + o
        BY <1>0, <1>5, <2>1, <2>5, <3>1, <4>2 DEF Bi!exchange, Bi!Goto, Bi!TypeOK
      <4>4. block_i[t] = Bi!get_data_pos(bits_idx[t]).block_idx
        BY <2>1, <2>3, <2>5 DEF CallSays
      <4>5. bits_idx[t] = block_i[t] * block_bits + o
        BY <1>0, <4>4, Pos DEF Bi!TypeOK
      <4> QED BY <2>1, <2>3, <2>5, <4>3, <4>5 DEF CallSays
    <3> QED BY <2>1, <2>3, <2>5, <3>1 DEF CallSays
  <2>6. CASE bits_op[t] \notin {"change", "compare_set"}
    BY <2>1, <2>3, <2>6 DEF CallSays
  <2> QED BY <2>4, <2>5, <2>6
<1>6. ASSUME NEW t \in Worker, Bi!skip_block(t) PROVE \A u \in Worker : CallSays(u)'
  <2>1. /\ bits_pc[t] = "next" /\ bits_pc'[t] = "load" /\ bits_op[t] # "compare_set" /\ bits_op' = bits_op
        /\ block_i'[t] = block_i[t] + 1 /\ block_i[t] + 1 < Bi!total_block
        /\ UNCHANGED <<expected, value, did>>
    BY <1>0, <1>6 DEF Bi!skip_block, Bi!Goto, Bi!TypeOK
  <2>2. bits_op[t] = "change" => bit_idx[t] = block_bits
    BY <1>6 DEF Bi!skip_block
  <2>3. CallSays(t)'
    BY <1>0, <1>n, <2>1, <2>2 DEF CallSays
  <2>4. \A u \in Worker : u # t => CallSays(u)'
    BY <1>0, <1>6 DEF Bi!skip_block, Bi!Goto, Bi!TypeOK, CallSays
  <2> QED BY <2>3, <2>4
<1>7. ASSUME NEW t \in Worker, Bi!finish(t) PROVE \A u \in Worker : CallSays(u)'
  <2> DEFINE n == block_i[t] * block_bits + bit_idx[t]
  <2>1. /\ bits_pc[t] = "next" /\ bits_pc'[t] = "done" /\ bits_op[t] = "change"
        /\ found'[t] = IF bit_idx[t] < block_bits /\ n < BITS_COUNT THEN n ELSE Bi!INVALID_INDEX
        /\ UNCHANGED <<bits_op, bits_idx, expected, value, did, block_i, bit_idx, ans>>
        /\ \A u \in Worker : u # t => bits_pc'[u] = bits_pc[u] /\ found'[u] = found[u]
    BY <1>0, <1>7 DEF Bi!finish, Bi!TypeOK
  <2>2. n \in Int /\ n >= 0
    <3>1. block_i[t] \in Int /\ 0 =< block_i[t] /\ bit_idx[t] \in Nat
      BY <1>0, <1>n DEF Bi!TypeOK
    <3>2. block_i[t] * block_bits \in Int /\ 0 * block_bits =< block_i[t] * block_bits /\ 0 * block_bits = 0
      BY <1>n, <3>1, ProductLess
    <3> QED BY <3>1, <3>2
  <2>3. expected[t] # value[t] => did[t] = IF bit_idx[t] < block_bits THEN n ELSE Bi!Nothing
    BY <1>0, <2>1 DEF CallSays
  <2> HIDE DEF n
  <2>4. n \in Bi!Idx <=> n < BITS_COUNT
    BY <1>n, <2>2 DEF Bi!Idx
  <2>5. CallSays(t)'
    BY <2>1, <2>3, <2>4, BitNumbers DEF CallSays
  <2>6. \A u \in Worker : u # t => CallSays(u)'
    BY <1>0, <2>1 DEF CallSays
  <2> QED BY <2>5, <2>6
<1>8. ASSUME NEW t \in Worker, Bi!one_block(t) PROVE \A u \in Worker : CallSays(u)'
  BY <1>0, <1>8 DEF Bi!one_block, Bi!Goto, Bi!TypeOK, CallSays
<1>9. ASSUME NEW t \in Worker, Bi!done(t) PROVE \A u \in Worker : CallSays(u)'
  <2>1. /\ bits_pc'[t] \in {"idle", "over"} /\ (bits_op[t] = "set" => bits_pc'[t] = "idle")
        /\ UNCHANGED <<bits_op, bits_idx, expected, value, did, block_i, bit_idx, ans, found>>
        /\ \A u \in Worker : u # t => bits_pc'[u] = bits_pc[u]
    BY <1>0, <1>9 DEF Bi!done, Bi!Goto, Bi!Picks, Bi!TypeOK
  <2> QED BY <1>0, <2>1 DEF CallSays
<1>10. CASE UNCHANGED Bi!vars
  BY <1>0, <1>10 DEF Bi!vars, CallSays
<1> QED BY <1>1, <1>2, <1>3, <1>4, <1>5, <1>6, <1>7, <1>8, <1>9, <1>10
        DEF Bi!Next, Bi!change_first_expect, Bi!flip, Bi!pick

(* Whatever the threads call at once, change_first_expect returns the bit   *)
(* that it changed, or none, and a compare_set that returns true changed    *)
(* its bit.                                                                 *)
THEOREM BitSetHonest ==
  ASSUME Bi!BitSetAssumption PROVE Bi!Spec => [](Bi!TypeOK /\ Bi!ChangeHonest /\ Bi!CompareTrue)
<1>1. Bi!Init => HonestInv
  BY HonestInit
<1>2. HonestInv /\ [Bi!Next]_Bi!vars => HonestInv'
  BY HonestType, HonestCalls DEF HonestInv
<1>3. HonestInv => Bi!TypeOK /\ Bi!ChangeHonest /\ Bi!CompareTrue
  BY DEF HonestInv, CallSays, Bi!ChangeHonest, Bi!CompareTrue
<1> QED BY <1>1, <1>2, <1>3, PTL DEF Bi!Spec

-----------------------------------------------------------------------------
(* Before the first call no bit is on and none is picked. *)
LEMMA PickInit == ASSUME Bi!BitSetAssumption, Bi!Init PROVE PickInv
<1>1. \A t \in Worker : bits_pc[t] = "idle" /\ bits_op[t] = "set"
  BY DEF Bi!Init
<1>2. \A n \in Bi!Idx : ~Bi!get(n)
  BY Pos DEF Bi!Init, Bi!get
<1>3. \A n \in Bi!Idx : BitSays(n)
  BY <1>1, <1>2 DEF Bi!Init, BitSays, Holds
<1>4. \A t \in Worker : PassSays(t)
  BY <1>1 DEF PassSays
<1> QED BY <1>1, <1>3, <1>4, HonestInit DEF Bi!Init, PickInv, Picking

(* Writing the bit at offset o of block b, that is bit n, changes no other. *)
LEMMA OneBit ==
  ASSUME Bi!BitSetAssumption, Bi!TypeOK, NEW b \in 0 .. Bi!total_block - 1, NEW o \in Bi!Offset, NEW n \in Bi!Idx,
         NEW v \in BOOLEAN, n = b * block_bits + o,
         m_block' = [m_block EXCEPT ![b] = Bi!Written(@, o, v)]
  PROVE  \A m \in Bi!Idx : Bi!get(m)' = IF m = n THEN v ELSE Bi!get(m)
<1> SUFFICES ASSUME NEW m \in Bi!Idx PROVE Bi!get(m)' = IF m = n THEN v ELSE Bi!get(m)
  OBVIOUS
<1> DEFINE c == Bi!get_data_pos(m).block_idx
           q == Bi!get_data_pos(m).data_offset
<1>1. c \in 0 .. Bi!total_block - 1 /\ q \in Bi!Offset /\ m = c * block_bits + q
  BY Pos
<1>2. Bi!get(m) = (q \in m_block[c]) /\ Bi!get(m)' = (q \in m_block'[c])
  BY DEF Bi!get, Bi!get_data_pos
<1> HIDE DEF c, q
<1>3. m = n <=> c = b /\ q = o
  <2>1. m = n => c = b /\ q = o
    BY <1>1, OnePlace
  <2> QED BY <1>1, <2>1
<1> QED BY <1>1, <1>2, <1>3 DEF Bi!TypeOK, Bi!Written

(* Nothing happens to the bits.                                             *)
LEMMA BitsStay ==
  ASSUME \A n \in Bi!Idx : BitSays(n), UNCHANGED <<m_block, was_set, picked>>,
         \A t \in Worker, n \in Bi!Idx : Holds(t, n)' <=> Holds(t, n)
  PROVE  \A n \in Bi!Idx : BitSays(n)'
<1>1. \A n \in Bi!Idx : Bi!get(n)' = Bi!get(n)
  BY DEF Bi!get, Bi!get_data_pos
<1> QED BY <1>1 DEF BitSays

(* Every step of the phases keeps what each bit and each picker says. *)
LEMMA PickStep ==
  ASSUME Bi!BitSetAssumption, Phases, PickInv, [Bi!Next]_Bi!vars PROVE PickInv'
<1>0. /\ Bi!TypeOK /\ \A t \in Worker : CallSays(t)
      /\ \A t \in Worker : bits_op[t] \in {"set", "change"}
      /\ Picking => \A t \in Worker : bits_op[t] = "set" => bits_pc[t] = "idle"
      /\ ~Picking => \A n \in Bi!Idx : picked[n] = 0
      /\ \A b \in 0 .. Bi!total_block - 1 : \A o \in m_block[b] : b * block_bits + o < BITS_COUNT
      /\ \A n \in Bi!Idx : BitSays(n)
      /\ \A t \in Worker : PassSays(t)
  BY DEF PickInv, HonestInv
<1>n. /\ block_bits \in Nat /\ block_bits > 0 /\ BITS_COUNT \in Nat /\ BITS_COUNT > 0
      /\ BitCalls \in Nat /\ Bi!total_block \in Int /\ Bi!total_block > 0 /\ 0 \in Bi!Idx
      /\ Bi!INVALID_INDEX \notin Bi!Idx /\ Bi!Nothing \notin Bi!Idx
  BY BitNumbers
<1>h. HonestInv'
  BY HonestType, HonestCalls DEF PickInv, HonestInv
<1> USE DEF Bi!args, Bi!local
<1>1. ASSUME NEW t \in Worker, NEW n \in Bi!Idx, NEW v \in BOOLEAN, Bi!set(t, n, v) PROVE PickInv'
  <2>1. /\ v /\ \A u \in Worker : bits_op[u] = "set" /\ bits_op'[u] = "set"
        /\ was_set' = was_set \cup {n} /\ picked' = picked
    BY <1>0, <1>1 DEF Bi!set, Bi!Call, Bi!TypeOK
  <2>2. ~Picking /\ ~Picking' /\ \A m \in Bi!Idx : picked[m] = 0
    BY <1>0, <2>1 DEF Picking
  <2>3. \A m \in Bi!Idx : Bi!get(m)' = IF m = n THEN TRUE ELSE Bi!get(m)
    BY <1>0, <1>1, <2>1, Pos, OneBit DEF Bi!set
  <2>4. \A m \in Bi!Idx : BitSays(m)'
    BY <1>0, <2>1, <2>2, <2>3 DEF BitSays, Holds
  <2>5. \A u \in Worker : PassSays(u)'
    BY <2>1 DEF PassSays
  <2>6. \A b \in 0 .. Bi!total_block - 1 : \A o \in m_block'[b] : b * block_bits + o < BITS_COUNT
    <3>1. /\ Bi!get_data_pos(n).block_idx \in 0 .. Bi!total_block - 1
          /\ Bi!get_data_pos(n).block_idx * block_bits + Bi!get_data_pos(n).data_offset < BITS_COUNT
      BY <1>n, Pos DEF Bi!Idx
    <3> QED BY <1>0, <1>1, <3>1 DEF Bi!set, Bi!TypeOK, Bi!Written
  <2> QED BY <1>h, <2>1, <2>2, <2>4, <2>5, <2>6 DEF PickInv
<1>2. ASSUME NEW t \in Worker, Bi!pick(t) PROVE PickInv'
  <2>1. /\ bits_pc[t] = "idle" /\ bits_pc'[t] = "load" /\ bits_op'[t] = "change" /\ expected'[t] /\ ~value'[t]
        /\ block_i'[t] = 0 /\ UNCHANGED <<m_block, was_set, picked>>
        /\ \A u \in Worker : bits_op[u] = "set" => bits_pc[u] = "idle"
        /\ \A u \in Worker : u # t =>
             /\ bits_pc'[u] = bits_pc[u] /\ bits_op'[u] = bits_op[u] /\ expected'[u] = expected[u] /\ value'[u] = value[u]
             /\ block_i'[u] = block_i[u] /\ did'[u] = did[u] /\ bit_idx'[u] = bit_idx[u] /\ found'[u] = found[u]
    BY <1>0, <1>2 DEF Bi!pick, Bi!Start, Bi!Call, Bi!Goto, Bi!TypeOK
  <2>2. \A m \in Bi!Idx : BitSays(m)'
    BY <1>0, <2>1, BitsStay DEF Holds
  <2>3. PassSays(t)'
    BY <2>1 DEF PassSays
  <2>4. \A u \in Worker : u # t => PassSays(u)'
    BY <1>0, <2>1 DEF PassSays
  <2>5. Picking' /\ \A u \in Worker : bits_op'[u] = "set" => bits_pc'[u] = "idle"
    BY <2>1 DEF Picking
  <2> QED BY <1>0, <1>h, <2>1, <2>2, <2>3, <2>4, <2>5 DEF PickInv
<1>3. ASSUME NEW t \in Worker, Bi!load(t) PROVE PickInv'
  <2>1. /\ bits_pc[t] = "load" /\ bits_pc'[t] = "exchange" /\ UNCHANGED <<m_block, was_set, picked>>
        /\ UNCHANGED <<bits_op, expected, value, block_i, did, bit_idx, found>>
        /\ \A u \in Worker : u # t => bits_pc'[u] = bits_pc[u]
    BY <1>0, <1>3 DEF Bi!load, Bi!Goto, Bi!TypeOK
  <2>2. \A m \in Bi!Idx : BitSays(m)'
    BY <1>0, <2>1, BitsStay DEF Holds
  <2>3. \A u \in Worker : PassSays(u)'
    BY <1>0, <2>1 DEF PassSays
  <2>4. bits_op[t] # "set" /\ Picking /\ Picking'
    BY <1>0, <2>1 DEF Picking, CallSays
  <2>5. \A u \in Worker : bits_op'[u] = "set" => bits_pc'[u] = "idle"
    BY <1>0, <2>1, <2>4
  <2> QED BY <1>0, <1>h, <2>1, <2>2, <2>3, <2>4, <2>5 DEF PickInv
<1>4. ASSUME NEW t \in Worker, Bi!exchange(t) PROVE PickInv'
  <2> DEFINE k == Bi!countl(bits_cur[t], expected[t])
             n == block_i[t] * block_bits + k
  <2>1. /\ bits_pc[t] = "exchange" /\ bits_pc'[t] \in {"next", "load"} /\ UNCHANGED <<was_set, picked>>
        /\ UNCHANGED <<bits_op, expected, value, block_i, bits_cur, found>>
        /\ \A u \in Worker : u # t => bits_pc'[u] = bits_pc[u] /\ did'[u] = did[u] /\ bit_idx'[u] = bit_idx[u]
    BY <1>0, <1>4 DEF Bi!exchange, Bi!effects, Bi!Goto, Bi!TypeOK
  <2>2. bits_op[t] = "change" /\ expected[t] /\ ~value[t] /\ Picking /\ Picking'
    BY <1>0, <2>1 DEF Picking, CallSays, PassSays
  <2>3. block_i[t] \in 0 .. Bi!total_block - 1 /\ bits_cur[t] \subseteq Bi!Offset /\ did[t] = Bi!Nothing
        /\ expected[t] \in BOOLEAN
    BY <1>0, <1>n, <2>1, <2>2 DEF Bi!TypeOK, CallSays
  <2>4. /\ k \in 0 .. block_bits
        /\ k < block_bits => k \in Bi!Offset /\ k \in bits_cur[t]
        /\ bit_idx'[t] = k
        /\ Bi!modify(t) = IF k = block_bits THEN bits_cur[t] ELSE Bi!Written(bits_cur[t], k, FALSE)
    <3>1. k \in 0 .. block_bits /\ (k < block_bits => k \in Bi!Offset /\ k \in bits_cur[t])
      BY <2>2, <2>3, Countl
    <3>2. bit_idx'[t] = k
      BY <1>0, <1>4, <2>2 DEF Bi!exchange, Bi!effects, Bi!TypeOK
    <3>3. Bi!modify(t) = IF k = block_bits THEN bits_cur[t] ELSE Bi!Written(bits_cur[t], k, FALSE)
      <4>1. value[t] = FALSE
        BY <1>0, <2>2 DEF Bi!TypeOK
      <4>2. bits_op[t] = "change" /\ bits_op[t] # "compare_set"
        BY <2>2
      <4> QED BY <4>1, <4>2 DEF Bi!modify, k
    <3> QED BY <3>1, <3>2, <3>3
  <2> HIDE DEF k
  <2>5. \A u \in Worker : bits_op'[u] = "set" => bits_pc'[u] = "idle"
    BY <1>0, <2>1, <2>2
  <2>6. \A u \in Worker : bits_op'[u] \in {"set", "change"}
    BY <1>0, <2>1
  <2>a. CASE bits_pc'[t] = "load"
    <3>1. UNCHANGED <<m_block, did>>
      BY <1>0, <1>4, <2>1, <2>a DEF Bi!exchange, Bi!Goto, Bi!TypeOK
    <3>2. \A m \in Bi!Idx : BitSays(m)'
      BY <1>0, <2>1, <2>a, <3>1, BitsStay DEF Holds
    <3>3. \A u \in Worker : PassSays(u)'
      BY <1>0, <2>1, <2>a, <3>1 DEF PassSays
    <3> QED BY <1>0, <1>h, <2>2, <2>5, <2>6, <3>1, <3>2, <3>3 DEF PickInv
  <2>b. CASE bits_pc'[t] = "next" /\ k = block_bits
    <3>1. m_block[block_i[t]] = bits_cur[t] /\ bits_cur[t] = {}
      <4>1. m_block[block_i[t]] = bits_cur[t]
        BY <1>0, <1>4, <2>1, <2>b DEF Bi!exchange, Bi!Goto, Bi!TypeOK
      <4>2. bits_cur[t] = {}
        BY <2>2, <2>3, <2>b, Countl DEF k
      <4> QED BY <4>1, <4>2
    <3>2. UNCHANGED <<m_block, did>>
      <4>1. Bi!modify(t) = bits_cur[t]
        BY <2>4, <2>b
      <4>2. m_block' = [m_block EXCEPT ![block_i[t]] = bits_cur[t]] /\ did' = did
        BY <1>0, <1>4, <2>1, <2>b, <4>1 DEF Bi!exchange, Bi!Goto, Bi!TypeOK
      <4> QED BY <1>0, <2>3, <3>1, <4>2 DEF Bi!TypeOK
    <3>3. \A m \in Bi!Idx : BitSays(m)'
      BY <1>0, <1>n, <2>1, <2>3, <2>b, <3>2, BitsStay DEF Holds
    <3>4. PassSays(t)'
      BY <1>0, <1>n, <2>1, <2>2, <2>4, <2>b, <3>1, <3>2 DEF PassSays
    <3>5. \A u \in Worker : u # t => PassSays(u)'
      BY <1>0, <2>1, <3>2 DEF PassSays
    <3> QED BY <1>0, <1>h, <2>2, <2>5, <2>6, <3>2, <3>3, <3>4, <3>5, <2>1 DEF PickInv
  <2>c. CASE bits_pc'[t] = "next" /\ k < block_bits
    <3>1. /\ m_block[block_i[t]] = bits_cur[t] /\ k \in Bi!Offset /\ k \in bits_cur[t] /\ bit_idx'[t] = k
          /\ m_block' = [m_block EXCEPT ![block_i[t]] = Bi!Written(@, k, FALSE)]
          /\ did'[t] = n
      <4>1. Bi!modify(t) = Bi!Written(bits_cur[t], k, FALSE) /\ Bi!modify(t) # bits_cur[t]
        BY <1>n, <2>4, <2>c DEF Bi!Written
      <4>2. m_block[block_i[t]] = bits_cur[t] /\ m_block' = [m_block EXCEPT ![block_i[t]] = Bi!modify(t)]
        BY <1>0, <1>4, <2>1, <2>c DEF Bi!exchange, Bi!Goto, Bi!TypeOK
      <4>3. did'[t] = block_i[t] * block_bits + k
        <5>1. did' = [did EXCEPT ![t] = block_i[t] * block_bits
                        + IF bits_op[t] = "change" THEN bit_idx'[t]
                          ELSE Bi!get_data_pos(bits_idx[t]).data_offset]
          BY <1>0, <1>4, <2>1, <2>c, <4>1 DEF Bi!exchange, Bi!Goto, Bi!TypeOK
        <5>2. did' = [did EXCEPT ![t] = block_i[t] * block_bits + k]
          BY <2>2, <2>4, <5>1
        <5> QED BY <1>0, <5>2 DEF Bi!TypeOK
      <4> QED BY <1>n, <2>3, <2>4, <2>c, <4>1, <4>2, <4>3 DEF Bi!TypeOK
    <3>2. n \in Bi!Idx
      <4>1. n < BITS_COUNT
        BY <1>0, <2>3, <3>1
      <4>2. block_i[t] * block_bits \in Int /\ 0 * block_bits =< block_i[t] * block_bits /\ 0 * block_bits = 0
        BY <1>n, <2>3, ProductLess
      <4> QED BY <1>n, <2>4, <4>1, <4>2 DEF Bi!Idx
    <3>3. \A m \in Bi!Idx : Bi!get(m)' = IF m = n THEN FALSE ELSE Bi!get(m)
      BY <1>0, <2>3, <3>1, <3>2, OneBit
    <3>4. Bi!get(n)
      <4>1. /\ Bi!get_data_pos(n).block_idx \in 0 .. Bi!total_block - 1
            /\ Bi!get_data_pos(n).data_offset \in Bi!Offset
            /\ n = Bi!get_data_pos(n).block_idx * block_bits + Bi!get_data_pos(n).data_offset
        BY <3>2, Pos
      <4>2. Bi!get_data_pos(n).block_idx = block_i[t] /\ Bi!get_data_pos(n).data_offset = k
        BY <2>3, <3>1, <4>1, OnePlace
      <4> QED BY <3>1, <4>2 DEF Bi!get
    <3> HIDE DEF n
    <3>5. \A u \in Worker, m \in Bi!Idx : Holds(u, m)' <=> Holds(u, m) \/ (u = t /\ m = n)
      BY <1>n, <2>1, <2>2, <2>3, <2>c, <3>1, <3>2 DEF Holds
    <3>6. \A m \in Bi!Idx : BitSays(m)'
      <4> SUFFICES ASSUME NEW m \in Bi!Idx PROVE BitSays(m)'
        OBVIOUS
      <4>0. BitSays(m) /\ BitSays(n) /\ UNCHANGED <<was_set, picked>>
        BY <1>0, <2>1, <3>2
      <4>1. CASE m # n
        <5>1. (Bi!get(m)' <=> Bi!get(m)) /\ \A u \in Worker : Holds(u, m)' <=> Holds(u, m)
          BY <3>3, <3>5, <4>1
        <5> QED BY <4>0, <5>1 DEF BitSays
      <4>2. CASE m = n
        <5>1. \A u \in Worker : ~Holds(u, m)
          BY <3>4, <4>0, <4>2 DEF BitSays
        <5>2. ~Bi!get(m)' /\ \A u \in Worker : Holds(u, m)' <=> u = t
          BY <3>3, <3>5, <4>2, <5>1
        <5>3. m \in was_set /\ picked[m] = 0
          BY <3>4, <4>0, <4>2 DEF BitSays
        <5> QED BY <4>0, <5>2, <5>3 DEF BitSays
      <4> QED BY <4>1, <4>2
    <3>7. \A b \in 0 .. Bi!total_block - 1 : m_block'[b] \subseteq m_block[b]
      BY <1>0, <2>3, <3>1 DEF Bi!TypeOK, Bi!Written
    <3>8. PassSays(t)'
      <4>1. \A b \in 0 .. block_i[t] - 1 : b \in 0 .. Bi!total_block - 1 /\ m_block[b] = {}
        BY <1>0, <1>n, <2>1, <2>2, <2>3 DEF PassSays
      <4>2. \A b \in 0 .. block_i[t] - 1 : m_block'[b] = {}
        BY <3>7, <4>1
      <4>3. bit_idx'[t] # block_bits /\ did'[t] \in Bi!Idx
        BY <1>n, <2>4, <2>c, <3>1, <3>2
      <4> QED BY <2>1, <2>2, <2>c, <4>2, <4>3 DEF PassSays
    <3>9. ASSUME NEW u \in Worker, u # t PROVE PassSays(u)'
      <4>0. PassSays(u) /\ CallSays(u) /\ block_i[u] \in 0 .. Bi!total_block
        BY <1>0 DEF Bi!TypeOK
      <4>1. \A b \in 0 .. Bi!total_block - 1 : m_block[b] = {} => m_block'[b] = {}
        BY <3>7
      <4>2. \A b \in 0 .. block_i[u] - 1 : b \in 0 .. Bi!total_block - 1
        BY <1>n, <4>0
      <4>3. bits_pc[u] = "next" => block_i[u] \in 0 .. Bi!total_block - 1
        BY <1>n, <4>0 DEF CallSays
      <4> QED BY <2>1, <3>9, <4>0, <4>1, <4>2, <4>3 DEF PassSays
    <3>10. \A b \in 0 .. Bi!total_block - 1 : \A o \in m_block'[b] : b * block_bits + o < BITS_COUNT
      BY <1>0, <3>7
    <3> QED BY <1>h, <2>2, <2>5, <2>6, <3>6, <3>8, <3>9, <3>10 DEF PickInv
  <2> QED BY <1>n, <2>1, <2>4, <2>a, <2>b, <2>c
<1>5. ASSUME NEW t \in Worker, Bi!skip_block(t) PROVE PickInv'
  <2>1. /\ bits_pc[t] = "next" /\ bits_pc'[t] = "load" /\ block_i[t] + 1 < Bi!total_block /\ block_i'[t] = block_i[t] + 1
        /\ UNCHANGED <<m_block, bits_op, expected, value, bit_idx, found, did, was_set, picked>>
        /\ \A u \in Worker : u # t => bits_pc'[u] = bits_pc[u] /\ block_i'[u] = block_i[u]
    BY <1>0, <1>5 DEF Bi!skip_block, Bi!Goto, Bi!TypeOK
  <2>2. bits_op[t] = "change" /\ expected[t] /\ ~value[t] /\ Picking /\ Picking'
    BY <1>0, <2>1 DEF Picking, CallSays, PassSays
  <2>3. bit_idx[t] = block_bits /\ did[t] = Bi!Nothing
    BY <1>0, <1>5, <1>n, <2>1, <2>2 DEF Bi!skip_block, CallSays
  <2>4. \A m \in Bi!Idx : BitSays(m)'
    BY <1>0, <1>n, <2>1, <2>3, BitsStay DEF Holds
  <2>5. PassSays(t)'
    <3>1. \A b \in 0 .. block_i[t] : m_block[b] = {}
      <4>1. \A b \in 0 .. block_i[t] : b \in 0 .. block_i[t] - 1 \/ b = block_i[t]
        BY <1>0 DEF Bi!TypeOK
      <4> QED BY <1>0, <2>1, <2>2, <2>3, <4>1 DEF PassSays
    <3>2. (block_i[t] + 1) - 1 = block_i[t]
      BY <1>0 DEF Bi!TypeOK
    <3> QED BY <2>1, <2>2, <3>1, <3>2 DEF PassSays
  <2>6. \A u \in Worker : u # t => PassSays(u)'
    BY <1>0, <2>1 DEF PassSays
  <2>7. \A u \in Worker : bits_op'[u] = "set" => bits_pc'[u] = "idle"
    BY <1>0, <2>1, <2>2
  <2> QED BY <1>0, <1>h, <2>1, <2>2, <2>4, <2>5, <2>6, <2>7 DEF PickInv
<1>6. ASSUME NEW t \in Worker, Bi!finish(t) PROVE PickInv'
  <2>1. /\ bits_pc[t] = "next" /\ bits_pc'[t] = "done" /\ bits_op[t] = "change"
        /\ UNCHANGED <<m_block, bits_op, expected, value, block_i, bit_idx, did, was_set, picked>>
        /\ \A u \in Worker : u # t => bits_pc'[u] = bits_pc[u] /\ found'[u] = found[u]
        /\ bit_idx[t] < block_bits \/ block_i[t] + 1 = Bi!total_block
    BY <1>0, <1>6 DEF Bi!finish, Bi!TypeOK
  <2>2. Picking /\ Picking' /\ expected[t] /\ ~value[t]
    BY <1>0, <2>1 DEF Picking, PassSays
  <2>3. found'[t] = Bi!INVALID_INDEX => did[t] \notin Bi!Idx
    <3>1. CallSays(t)'
      BY <1>h DEF HonestInv
    <3> QED BY <1>n, <2>1, <2>2, <3>1 DEF CallSays
  <2>4. \A m \in Bi!Idx : BitSays(m)'
    BY <1>0, <2>1, BitsStay DEF Holds
  <2>5. PassSays(t)'
    <3>1. ASSUME found'[t] = Bi!INVALID_INDEX PROVE \A b \in 0 .. Bi!total_block - 1 : m_block[b] = {}
      <4>1. bit_idx[t] = block_bits /\ block_i[t] + 1 = Bi!total_block
        BY <1>0, <1>n, <2>1, <2>3, <3>1 DEF PassSays, Bi!TypeOK
      <4>2. \A b \in 0 .. Bi!total_block - 1 : b \in 0 .. block_i[t] - 1 \/ b = block_i[t]
        BY <1>0, <1>n, <4>1 DEF Bi!TypeOK
      <4> QED BY <1>0, <2>1, <4>1, <4>2 DEF PassSays
    <3> QED BY <2>1, <2>2, <3>1 DEF PassSays
  <2>6. \A u \in Worker : u # t => PassSays(u)'
    BY <1>0, <2>1 DEF PassSays
  <2>7. \A u \in Worker : bits_op'[u] = "set" => bits_pc'[u] = "idle"
    BY <1>0, <2>1, <2>2
  <2> QED BY <1>0, <1>h, <2>1, <2>2, <2>4, <2>5, <2>6, <2>7 DEF PickInv
<1>7. ASSUME NEW t \in Worker, Bi!one_block(t) PROVE PickInv'
  BY <1>0, <1>7 DEF Bi!one_block
<1>8. ASSUME NEW t \in Worker, Bi!done(t) PROVE PickInv'
  <2>1. /\ bits_pc[t] = "done" /\ bits_pc'[t] \in {"idle", "over"}
        /\ UNCHANGED <<m_block, bits_op, expected, value, block_i, bit_idx, found, did, was_set>>
        /\ \A u \in Worker : u # t => bits_pc'[u] = bits_pc[u]
        /\ bits_pc'[t] = IF Bi!Picks(t) /\ found[t] = Bi!INVALID_INDEX THEN "over" ELSE "idle"
        /\ picked' = IF Bi!Picks(t) /\ found[t] # Bi!INVALID_INDEX
                     THEN [picked EXCEPT ![found[t]] = @ + 1] ELSE picked
    BY <1>0, <1>8 DEF Bi!done, Bi!Goto, Bi!TypeOK
  <2>2. Picking' <=> Picking
    BY <2>1 DEF Picking
  <2>3. Bi!Picks(t) <=> bits_op[t] = "change"
    BY <1>0 DEF Bi!Picks, PassSays
  <2>4. \A u \in Worker : PassSays(u)'
    BY <1>0, <2>1, <2>3 DEF PassSays
  <2>5. Picking' => \A u \in Worker : bits_op'[u] = "set" => bits_pc'[u] = "idle"
    BY <1>0, <2>1, <2>2, <2>3
  <2>6. bits_op[t] = "change" => found[t] = IF did[t] \in Bi!Idx THEN did[t] ELSE Bi!INVALID_INDEX
    BY <1>0, <2>1 DEF CallSays, PassSays
  <2>a. CASE bits_op[t] = "change" /\ did[t] \in Bi!Idx
    <3>1. /\ picked' = [picked EXCEPT ![did[t]] = @ + 1] /\ picked[did[t]] = 0
          /\ Holds(t, did[t]) /\ ~Bi!get(did[t]) /\ did[t] \in was_set
      <4>1. Holds(t, did[t])
        BY <2>1, <2>a DEF Holds
      <4> QED BY <1>0, <1>n, <2>1, <2>3, <2>6, <2>a, <4>1 DEF BitSays
    <3>2. \A u \in Worker, m \in Bi!Idx : Holds(u, m)' <=> Holds(u, m) /\ u # t
      BY <2>1 DEF Holds
    <3>3. \A m \in Bi!Idx : Bi!get(m)' = Bi!get(m)
      BY <2>1 DEF Bi!get, Bi!get_data_pos
    <3>4. \A m \in Bi!Idx : picked'[m] = IF m = did[t] THEN 1 ELSE picked[m]
      BY <1>0, <2>a, <3>1 DEF Bi!TypeOK
    <3>5. \A m \in Bi!Idx : Holds(t, m) => m = did[t]
      BY DEF Holds
    <3>6. \A m \in Bi!Idx : BitSays(m)'
      BY <1>0, <2>1, <2>a, <3>1, <3>2, <3>3, <3>4, <3>5 DEF BitSays
    <3>7. Picking
      BY <2>a DEF Picking
    <3> QED BY <1>0, <1>h, <2>1, <2>2, <2>4, <2>5, <3>6, <3>7 DEF PickInv
  <2>b. CASE ~(bits_op[t] = "change" /\ did[t] \in Bi!Idx)
    <3>1. picked' = picked
      BY <1>n, <2>1, <2>3, <2>6, <2>b
    <3>2. \A m \in Bi!Idx : BitSays(m)'
      BY <1>0, <2>1, <2>b, <3>1, BitsStay DEF Holds
    <3> QED BY <1>0, <1>h, <2>1, <2>2, <2>4, <2>5, <3>1, <3>2 DEF PickInv
  <2> QED BY <2>a, <2>b
<1>9. CASE UNCHANGED Bi!vars
  <2>1. \A m \in Bi!Idx : BitSays(m)'
    BY <1>0, <1>9, BitsStay DEF Holds, Bi!vars
  <2> QED BY <1>0, <1>h, <1>9, <2>1 DEF Bi!vars, PickInv, Picking, PassSays
<1>10. ~(\E t \in Worker : Bi!flip(t)
         \/ \E n \in Bi!Idx, e, v \in BOOLEAN : Bi!compare_set(t, n, e, v) \/ Bi!change_first_expect(t, e, v))
  BY DEF Bi!flip, Bi!compare_set, Bi!change_first_expect
<1> QED BY <1>1, <1>2, <1>3, <1>4, <1>5, <1>6, <1>7, <1>8, <1>9, <1>10 DEF Bi!Next

(* bitset_test: of the bits that were set each is picked once, and none is  *)
(* left, whatever the number of the bits, the blocks and the threads.       *)
THEOREM BitSetPickedOnce ==
  ASSUME Bi!BitSetAssumption, Phases, Worker # {} PROVE Bi!Spec => [](Bi!PickedIsOff /\ Bi!EachPickedOnce)
<1>1. Bi!Init => PickInv
  BY PickInit
<1>2. PickInv /\ [Bi!Next]_Bi!vars => PickInv'
  BY PickStep
<1>3. PickInv => Bi!PickedIsOff /\ Bi!EachPickedOnce
  <2> SUFFICES ASSUME PickInv PROVE Bi!PickedIsOff /\ Bi!EachPickedOnce
    OBVIOUS
  <2>0. Bi!TypeOK /\ (\A n \in Bi!Idx : BitSays(n)) /\ \A t \in Worker : PassSays(t) /\ CallSays(t)
    BY DEF PickInv, HonestInv
  <2>1. Bi!PickedIsOff
    BY <2>0 DEF BitSays, Bi!PickedIsOff, Bi!TypeOK
  <2>2. Bi!EachPickedOnce
    <3> SUFFICES ASSUME \A t \in Worker : bits_pc[t] = "over"
                 PROVE  /\ picked = [n \in Bi!Idx |-> IF n \in was_set THEN 1 ELSE 0]
                        /\ \A n \in Bi!Idx : ~Bi!get(n)
      BY DEF Bi!EachPickedOnce
    <3>1. PICK t \in Worker : bits_pc[t] = "over"
      OBVIOUS
    <3>2. bits_op[t] = "change"
      BY <2>0, <3>1 DEF CallSays, PickInv
    <3>3. \A b \in 0 .. Bi!total_block - 1 : m_block[b] = {}
      BY <2>0, <3>1, <3>2 DEF PassSays
    <3>4. \A n \in Bi!Idx : ~Bi!get(n)
      BY <3>3, Pos DEF Bi!get
    <3>5. \A n \in Bi!Idx : picked[n] = IF n \in was_set THEN 1 ELSE 0
      <4> SUFFICES ASSUME NEW n \in Bi!Idx PROVE picked[n] = IF n \in was_set THEN 1 ELSE 0
        OBVIOUS
      <4>1. \A u \in Worker : ~Holds(u, n)
        BY DEF Holds
      <4>2. picked[n] \in Nat /\ picked[n] =< 1 /\ ~Bi!get(n)
        BY <2>0, <3>4 DEF BitSays, Bi!TypeOK
      <4>3. n \in was_set <=> picked[n] > 0
        BY <2>0, <4>1, <4>2 DEF BitSays
      <4> QED BY <4>2, <4>3
    <3> QED BY <2>0, <3>4, <3>5 DEF Bi!TypeOK
  <2> QED BY <2>1, <2>2
<1> QED BY <1>1, <1>2, <1>3, PTL DEF Bi!Spec

-----------------------------------------------------------------------------
(* A behaviour is about one container to its end, and the container's own   *)
(* behaviour is what its specification allows.                              *)
LEMMA ContainersApart ==
  ASSUME [ContainersNext]_containerVars
  PROVE  /\ UNCHANGED container
         /\ [Rb!Next]_Rb!vars /\ [Qu!Next]_Qu!vars /\ [Li!Next]_Li!vars
         /\ [Bi!Next]_Bi!vars /\ [Lc!Next]_Lc!vars
<1>1. /\ UNCHANGED ringVars => UNCHANGED Rb!vars
      /\ UNCHANGED queueVars => UNCHANGED Qu!vars
      /\ UNCHANGED listVars => UNCHANGED Li!vars
      /\ UNCHANGED bitsVars => UNCHANGED Bi!vars
      /\ UNCHANGED lockedVars => UNCHANGED Lc!vars
  BY DEF ringVars, Rb!vars, Rb!fences, queueVars, Qu!vars, listVars, Li!vars,
      Li!nodes, Li!history, bitsVars, Bi!vars, Bi!args, Bi!local, lockedVars, Lc!vars
<1>2. CASE UNCHANGED containerVars
  BY <1>1, <1>2 DEF containerVars
<1>3. CASE ContainersNext
  BY <1>1, <1>3 DEF ContainersNext
<1> QED BY <1>2, <1>3

(* A behaviour of the containers is one of each of them.                    *)
LEMMA ContainersAre ==
  ContainersSpec => Rb!Spec /\ Qu!Spec /\ Li!Spec /\ Bi!Spec /\ Lc!Spec
<1>1. ContainersInit => Rb!Init /\ Qu!Init /\ Li!Init /\ Bi!Init /\ Lc!Init
  BY DEF ContainersInit
<1>2. [ContainersNext]_containerVars =>
        /\ [Rb!Next]_Rb!vars /\ [Qu!Next]_Qu!vars /\ [Li!Next]_Li!vars
        /\ [Bi!Next]_Bi!vars /\ [Lc!Next]_Lc!vars
  BY ContainersApart
<1> QED BY <1>1, <1>2, PTL DEF ContainersSpec, Rb!Spec, Qu!Spec, Li!Spec, Bi!Spec, Lc!Spec

(* What the containers that threads share keep, for any threads, sizes and bounds: the
   theorems above together (ContainersWhole). *)
THEOREM ContainersKeep == ContainersSpec => []ContainersWhole
<1>1. /\ Rb!RingAssumption /\ Qu!QueueAssumption /\ Li!ListAssumption
      /\ Bi!BitSetAssumption /\ Lc!LockedContainerAssumption
  BY ContainersAssumption
<1>2. ContainersSpec => []RingKept
  <2>1. CASE \E p \in RingPusher, q \in RingPopper : RingPusher = {p} /\ RingPopper = {q}
    <3>1. Rb!Spec => [](Rb!TypeOK /\ Rb!Fifo /\ Rb!SlotExclusive)
      BY <1>1, <2>1, RingOneByOne
    <3>2. Rb!NeverPastFence /\ Rb!TypeOK /\ Rb!Fifo /\ Rb!SlotExclusive => RingKept
      BY DEF RingKept
    <3>3. Rb!Spec => []Rb!NeverPastFence
      BY <1>1, FencesHold
    <3> QED BY <3>1, <3>2, <3>3, ContainersAre, PTL
  <2>2. CASE ~\E p \in RingPusher, q \in RingPopper : RingPusher = {p} /\ RingPopper = {q}
    <3>1. Rb!NeverPastFence => RingKept
      BY <2>2 DEF RingKept
    <3>2. Rb!Spec => []Rb!NeverPastFence
      BY <1>1, FencesHold
    <3> QED BY <3>1, <3>2, ContainersAre, PTL
  <2> QED BY <2>1, <2>2
<1>3. ContainersSpec => []QueueKept
  <2>1. Qu!Spec => [](Qu!TypeOK /\ Qu!OnlyPushed)
    BY <1>1, QueueOnlyPushed
  <2>2. CASE OnePop
    <3>1. Qu!Spec => []Qu!QueueOrder
      BY <1>1, <2>2, QueueInOrder
    <3>2. (Qu!TypeOK /\ Qu!OnlyPushed) /\ Qu!QueueOrder => QueueKept
      BY DEF QueueKept
    <3> QED BY <2>1, <3>1, <3>2, ContainersAre, PTL
  <2>3. CASE ~OnePop
    <3>1. Qu!TypeOK /\ Qu!OnlyPushed => QueueKept
      BY <2>3 DEF QueueKept
    <3> QED BY <2>1, <3>1, ContainersAre, PTL
  <2> QED BY <2>2, <2>3
<1>4. ContainersSpec => []BitsKept
  <2>1. Bi!Spec => [](Bi!TypeOK /\ Bi!ChangeHonest /\ Bi!CompareTrue)
    BY <1>1, BitSetHonest
  <2>2. CASE Phases /\ Worker # {}
    <3>1. Bi!Spec => [](Bi!PickedIsOff /\ Bi!EachPickedOnce)
      BY <1>1, <2>2, BitSetPickedOnce
    <3>2. (Bi!TypeOK /\ Bi!ChangeHonest /\ Bi!CompareTrue)
          /\ (Bi!PickedIsOff /\ Bi!EachPickedOnce) => BitsKept
      BY DEF BitsKept
    <3> QED BY <2>1, <3>1, <3>2, ContainersAre, PTL
  <2>3. CASE ~(Phases /\ Worker # {})
    <3>1. Bi!TypeOK /\ Bi!ChangeHonest /\ Bi!CompareTrue => BitsKept
      BY <2>3 DEF BitsKept
    <3> QED BY <2>1, <3>1, ContainersAre, PTL
  <2> QED BY <2>2, <2>3
<1>5. ContainersSpec => [](Li!TypeOK /\ Li!ListWhole /\ Li!AllErased)
  BY <1>1, ListStaysWhole, ContainersAre, PTL
<1>6. ContainersSpec => [](Lc!EachOnce /\ Lc!SizeExact)
  BY <1>1, LockedOnce, ContainersAre, PTL
<1>7. (RingKept /\ QueueKept /\ BitsKept)
      /\ (Li!TypeOK /\ Li!ListWhole /\ Li!AllErased)
      /\ (Lc!EachOnce /\ Lc!SizeExact) => ContainersWhole
  BY DEF ContainersWhole
<1> QED BY <1>2, <1>3, <1>4, <1>5, <1>6, <1>7, PTL
===============================================================================
