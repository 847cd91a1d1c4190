----------------------------- MODULE ChannelProofs -----------------------------
(***************************************************************************)
(* The channel: its assertions hold, no value is lost or received twice,   *)
(* and when nobody is under way no coroutine waits that could go on.       *)
(*                                                                         *)
(* The four semaphores are accounts.  Every unit of one is in its count,   *)
(* or with a coroutine that has taken it and not yet given it on; a signal *)
(* that owes a wakeup holds its unit until the wakeup.                     *)
(***************************************************************************)
EXTENDS TimedChannel, FiniteSetTheorems, TLAPS

(* A coroutine waits only where it has called wait.                         *)
ParkedSays ==
  /\ \A c \in parked["receiver"] : pc[c] = "stage" /\ ~is_exec[c]
  /\ \A c \in parked["empty"] : pc[c] = "store"
  /\ \A c \in parked["sender"] : pc[c] = "signalReceiver"
  /\ \A c \in parked["full"] : pc[c] = "load"

(* A signaller that owes a wakeup has got no further; the puller that will  *)
(* run a callback has not received a value.                                 *)
GrantSays ==
  \A c \in Co :
    /\ granting[c] = "receiver" => pc[c] = "fetch" /\ ~buffer_has_value[c]
    /\ granting[c] = "full" => pc[c] = "signalSender"
    /\ granting[c] \in {"sender", "empty"} => pc[c] = "idle"

(* Where a value is with a coroutine.                                       *)
HandSays ==
  \A c \in Co :
    /\ x[c] # NoVal <=> pc[c] = "store" \/ (pc[c] = "stage" /\ ~is_exec[c])
    /\ ans[c] # NoVal <=> pc[c] = "signalEmpty" \/ (pc[c] = "fetch" /\ buffer_has_value[c])
    /\ pc[c] = "signalReceiver" => ~buffer_has_value[c]

(* The ring: front, rear and m_size agree, and the values are between them. *)
Between(i, f, n) == (f =< i /\ i < f + n) \/ i + SIZE < f + n

RingSays ==
  /\ rear = (front + m_size) % SIZE
  /\ \A i \in 0 .. SIZE - 1 : m_data[i] # NoVal <=> Between(i, front, m_size)

(* Two places never hold the same value.                                    *)
OnceSays ==
  /\ \A a, b \in Co : a # b /\ x[a] # NoVal => x[a] # x[b]
  /\ \A a, b \in Co : a # b /\ ans[a] # NoVal => ans[a] # ans[b]
  /\ \A i, j \in 0 .. SIZE - 1 : i # j /\ m_data[i] # NoVal => m_data[i] # m_data[j]
  /\ \A a, b \in Co : x[a] # NoVal => x[a] # ans[b]
  /\ \A a \in Co, i \in 0 .. SIZE - 1 : x[a] # NoVal => x[a] # m_data[i]
  /\ \A a \in Co, i \in 0 .. SIZE - 1 : ans[a] # NoVal => ans[a] # m_data[i]

(* Who holds a slot to write, a slot to read, the right to push or the      *)
(* right to pull, and a value that is due to a pull.                        *)
HasEmpty(c) == \/ granting[c] = "empty" \/ pc[c] = "signalEmpty"
               \/ pc[c] = "store" /\ c \notin parked["empty"]

HasFull(c) == \/ granting[c] = "full" \/ pc[c] = "signalFull"
              \/ pc[c] = "load" /\ c \notin parked["full"]

HasTurn(c) == \/ granting[c] \in {"receiver", "sender"}
              \/ pc[c] \in {"store", "signalFull", "signalSender"}
              \/ pc[c] = "stage" /\ c \notin parked["receiver"]
              \/ pc[c] = "signalReceiver" /\ c \notin parked["sender"]

HasValue(c) == \/ granting[c] = "sender"
               \/ pc[c] \in {"signalFull", "signalSender", "load"}
               \/ pc[c] = "stage" /\ is_exec[c]
               \/ pc[c] = "fetch" /\ ~buffer_has_value[c]
               \/ pc[c] = "signalReceiver" /\ c \notin parked["sender"]

HoldsEmpty == {c \in Co : HasEmpty(c)}
HoldsFull  == {c \in Co : HasFull(c)}
HoldsTurn  == {c \in Co : HasTurn(c)}
HoldsValue == {c \in Co : HasValue(c)}

Owes(s) == {c \in Co : granting[c] = s}

(* The accounts of the four semaphores.                                     *)
AccountsSay ==
  /\ m_size + count["empty"] + Cardinality(HoldsEmpty) = SIZE
  /\ count["full"] + Cardinality(HoldsFull) = m_size
  /\ count["receiver"] + count["sender"] + Cardinality(HoldsTurn) = SIZE
  /\ count["sender"] + Cardinality(HoldsValue) = m_size

(* How many more waiters and wakeups a semaphore has than coroutines that   *)
(* wait.                                                                    *)
Surplus(s) == waiters[s] + Cardinality(Owes(s)) - Cardinality(parked[s])

(* A semaphore has waiters or a count, and a waiter is parked.              *)
SemSays ==
  \A s \in Sem : Surplus(s) = 0 /\ (count[s] = 0 \/ waiters[s] = 0)

(* What a coroutine says of itself, and all of the invariant.               *)
SelfSays == ParkedSays /\ GrantSays /\ HandSays /\ BufferAsserts

ChannelInv == TypeOK /\ SelfSays /\ RingSays /\ OnceSays /\ AccountsSay /\ SemSays

-----------------------------------------------------------------------------
(* The remainder of a sum of two places of the ring.                        *)
LEMMA ModSize ==
  ASSUME NEW i \in 0 .. 2 * SIZE - 1
  PROVE  i % SIZE = IF i < SIZE THEN i ELSE i - SIZE
<1> USE ChannelAssumption
<1>1. CASE i < SIZE
  BY <1>1, SMT
<1>2. CASE i >= SIZE
  BY <1>2, SMT
<1> QED
  BY <1>1, <1>2

(* The place n places after i, and the next one.                            *)
LEMMA ModSum ==
  ASSUME NEW i \in 0 .. SIZE - 1, NEW n \in 0 .. SIZE
  PROVE  (i + n) % SIZE = IF i + n < SIZE THEN i + n ELSE i + n - SIZE
<1> DEFINE k == i + n
<1>1. k \in 0 .. 2 * SIZE - 1 /\ i + n = k
  BY ChannelAssumption
<1> HIDE DEF k
<1>2. k % SIZE = IF k < SIZE THEN k ELSE k - SIZE
  BY <1>1, ModSize
<1> QED BY <1>1, <1>2, ChannelAssumption

(* The place after i.                                                       *)
LEMMA ModNext ==
  ASSUME NEW i \in 0 .. SIZE - 1
  PROVE  (i + 1) % SIZE = IF i + 1 < SIZE THEN i + 1 ELSE 0
<1>1. 1 \in 0 .. SIZE
  BY ChannelAssumption
<1>2. (i + 1) % SIZE = IF i + 1 < SIZE THEN i + 1 ELSE i + 1 - SIZE
  BY <1>1, ModSum
<1> QED BY <1>2, ChannelAssumption

(* The types of the semaphores, and of the values with the coroutines and   *)
(* in the buffer.                                                           *)
SemTypes == /\ count \in [Sem -> Nat] /\ waiters \in [Sem -> Nat]
            /\ parked \in [Sem -> SUBSET Co]
            /\ granting \in [Co -> Sem \cup {NoSem}]

DataTypes ==
  /\ is_close \in BOOLEAN
  /\ m_data \in [0 .. SIZE - 1 -> Val \cup {NoVal}]
  /\ front \in 0 .. SIZE - 1 /\ rear \in 0 .. SIZE - 1 /\ m_size \in 0 .. SIZE
  /\ x \in [Co -> Val \cup {NoVal}] /\ is_exec \in [Co -> BOOLEAN]
  /\ ans \in [Co -> Val \cup {NoVal}] /\ buffer_has_value \in [Co -> BOOLEAN]

LEMMA TypesAre == TypeOK <=> SemTypes /\ pc \in [Co -> Pc] /\ DataTypes
BY DEF TypeOK, SemTypes, DataTypes

(* The filled slots are those between front and rear.                       *)
LEMMA FilledBetween ==
  ASSUME DataTypes, NEW i \in 0 .. SIZE - 1
  PROVE  i \in Filled <=> Between(i, front, m_size)
<1> USE ChannelAssumption
<1>0. front \in 0 .. SIZE - 1 /\ m_size \in 0 .. SIZE
  BY DEF DataTypes
<1>1. ASSUME NEW j \in 0 .. m_size - 1, i = (front + j) % SIZE
      PROVE  Between(i, front, m_size)
  <2>1. (front + j) % SIZE = IF front + j < SIZE THEN front + j ELSE front + j - SIZE
    BY <1>0, ModSize
  <2> QED
    BY <1>0, <1>1, <2>1 DEF Between
<1>2. ASSUME front =< i, i < front + m_size
      PROVE  \E j \in 0 .. m_size - 1 : i = (front + j) % SIZE
  <2>1. i - front \in 0 .. m_size - 1 /\ front + (i - front) = i
    BY <1>0, <1>2
  <2>2. i % SIZE = i
    BY ModSize
  <2> QED
    BY <2>1, <2>2
<1>3. ASSUME i + SIZE < front + m_size
      PROVE  \E j \in 0 .. m_size - 1 : i = (front + j) % SIZE
  <2>1. i + SIZE - front \in 0 .. m_size - 1 /\ front + (i + SIZE - front) = i + SIZE
    BY <1>0, <1>3
  <2>2. (i + SIZE) % SIZE = i
    BY ModSize
  <2> QED
    BY <2>1, <2>2
<1> QED
  BY <1>1, <1>2, <1>3 DEF Between, Filled

(* A filled slot is a place of the array.                                   *)
LEMMA FilledSlot ==
  ASSUME DataTypes, NEW i \in Filled
  PROVE  i \in 0 .. SIZE - 1
<1> USE ChannelAssumption
<1>1. PICK j \in 0 .. m_size - 1 : i = (front + j) % SIZE
  BY DEF Filled
<1>2. front + j \in 0 .. 2 * SIZE - 1
  BY DEF DataTypes
<1> QED
  BY <1>1, <1>2, ModSize DEF DataTypes

-----------------------------------------------------------------------------
(* wait, signal and a step of pc keep the types.                            *)
LEMMA WaitTypes ==
  ASSUME SemTypes, NEW c \in Co, NEW s \in Sem, wait(c, s)
  PROVE  SemTypes'
<1>1. /\ count \in [Sem -> Nat] /\ waiters \in [Sem -> Nat] /\ parked \in [Sem -> SUBSET Co]
      /\ granting \in [Co -> Sem \cup {NoSem}]
  BY DEF SemTypes
<1>2. CASE count[s] > 0 /\ count' = [count EXCEPT ![s] = @ - 1] /\ UNCHANGED <<waiters, parked>>
  <2>1. count[s] - 1 \in Nat
    BY <1>1, <1>2
  <2> QED BY <1>1, <1>2, <2>1 DEF SemTypes, wait
<1>3. CASE /\ waiters' = [waiters EXCEPT ![s] = @ + 1]
           /\ parked' = [parked EXCEPT ![s] = @ \cup {c}] /\ UNCHANGED count
  <2>1. waiters[s] + 1 \in Nat /\ parked[s] \cup {c} \in SUBSET Co
    BY <1>1
  <2>2. waiters' \in [Sem -> Nat]
    BY <1>1, <1>3, <2>1
  <2>3. parked' \in [Sem -> SUBSET Co]
    BY <1>1, <1>3, <2>1
  <2> QED BY <1>1, <1>3, <2>2, <2>3 DEF SemTypes, wait
<1> QED BY <1>2, <1>3 DEF wait

LEMMA SignalTypes ==
  ASSUME SemTypes, NEW c \in Co, NEW s \in Sem, signal(c, s)
  PROVE  SemTypes'
<1>1. /\ count \in [Sem -> Nat] /\ waiters \in [Sem -> Nat] /\ parked \in [Sem -> SUBSET Co]
      /\ granting \in [Co -> Sem \cup {NoSem}]
  BY DEF SemTypes
<1>2. CASE count' = [count EXCEPT ![s] = @ + 1] /\ UNCHANGED <<waiters, granting>>
  <2>1. count[s] + 1 \in Nat
    BY <1>1
  <2> QED BY <1>1, <1>2, <2>1 DEF SemTypes, signal
<1>3. CASE /\ waiters[s] > 0 /\ waiters' = [waiters EXCEPT ![s] = @ - 1]
           /\ granting' = [granting EXCEPT ![c] = s] /\ UNCHANGED count
  <2>1. waiters[s] - 1 \in Nat
    BY <1>1, <1>3
  <2>2. waiters' \in [Sem -> Nat]
    BY <1>1, <1>3, <2>1
  <2> QED BY <1>1, <1>3, <2>2 DEF SemTypes, signal
<1> QED BY <1>2, <1>3 DEF signal

LEMMA GotoTypes ==
  ASSUME TypeOK, NEW c \in Co, NEW from, NEW to \in Pc, Goto(c, from, to)
  PROVE  pc' \in [Co -> Pc]
BY DEF Goto, TypeOK

LEMMA TypesAreNext == TypeOK' <=> (SemTypes /\ pc \in [Co -> Pc] /\ DataTypes)'
BY TypesAre, PTL

(* Every step keeps the types.                                              *)
LEMMA TypeStep ==
  ASSUME TypeOK, [Next]_vars
  PROVE  TypeOK'
<1> USE ChannelAssumption
<1> SUFFICES SemTypes' /\ pc' \in [Co -> Pc] /\ DataTypes'
  BY TypesAreNext
<1>0. SemTypes /\ pc \in [Co -> Pc] /\ DataTypes
  BY TypesAre
<1>1. ASSUME NEW c \in Co, close(c) PROVE SemTypes' /\ pc' \in [Co -> Pc] /\ DataTypes'
  BY <1>0, <1>1, GotoTypes DEF close, SemTypes, DataTypes, Pc, semVars, bufferVars, handVars
<1>2. ASSUME NEW c \in Co, NEW v \in Val, push(c, v)
      PROVE  SemTypes' /\ pc' \in [Co -> Pc] /\ DataTypes'
  BY <1>0, <1>2, GotoTypes, WaitTypes DEF push, DataTypes, Pc, Sem, bufferVars
<1>3. ASSUME NEW c \in Co, stage(c), UNCHANGED is_close
      PROVE  SemTypes' /\ pc' \in [Co -> Pc] /\ DataTypes'
  <2>1. DataTypes'
    BY <1>0, <1>3 DEF stage, DataTypes, bufferVars, handVars
  <2>2. SemTypes'
    BY <1>0, <1>3, WaitTypes DEF stage, SemTypes, Sem, semVars
  <2>3. pc' \in [Co -> Pc]
    BY <1>3, GotoTypes DEF stage, Pc
  <2> QED BY <2>1, <2>2, <2>3
<1>4. ASSUME NEW c \in Co, store(c), UNCHANGED is_close
      PROVE  SemTypes' /\ pc' \in [Co -> Pc] /\ DataTypes'
  <2>1. SemTypes'
    BY <1>0, <1>4 DEF store, SemTypes, semVars
  <2>2. pc' \in [Co -> Pc]
    BY <1>4, GotoTypes DEF store, Pc
  <2>3. DataTypes'
    <3>1. CASE UNCHANGED <<bufferVars, handVars>>
      BY <1>0, <1>4, <3>1 DEF DataTypes, bufferVars, handVars
    <3>2. CASE /\ m_size < SIZE /\ m_data' = [m_data EXCEPT ![rear] = x[c]]
               /\ rear' = (rear + 1) % SIZE /\ m_size' = m_size + 1
               /\ x' = [x EXCEPT ![c] = NoVal]
               /\ UNCHANGED <<semVars, front, is_exec, ans, buffer_has_value>>
      <4>1. (rear + 1) % SIZE \in 0 .. SIZE - 1 /\ m_size + 1 \in 0 .. SIZE
        BY <1>0, <3>2, ModNext DEF DataTypes
      <4>2. m_data' \in [0 .. SIZE - 1 -> Val \cup {NoVal}] /\ x' \in [Co -> Val \cup {NoVal}]
        BY <1>0, <3>2 DEF DataTypes
      <4> QED BY <1>0, <1>4, <3>2, <4>1, <4>2 DEF DataTypes
    <3> QED BY <1>4, <3>1, <3>2 DEF store
  <2> QED BY <2>1, <2>2, <2>3
<1>5. ASSUME NEW c \in Co, signalFull(c), UNCHANGED is_close
      PROVE  SemTypes' /\ pc' \in [Co -> Pc] /\ DataTypes'
  BY <1>0, <1>5, GotoTypes, SignalTypes DEF signalFull, DataTypes, Pc, Sem, bufferVars,
      handVars
<1>6. ASSUME NEW c \in Co, signalSender(c), UNCHANGED is_close
      PROVE  SemTypes' /\ pc' \in [Co -> Pc] /\ DataTypes'
  BY <1>0, <1>6, GotoTypes, SignalTypes DEF signalSender, DataTypes, Pc, Sem,
      bufferVars, handVars
<1>7. ASSUME NEW c \in Co, pull(c)
      PROVE  SemTypes' /\ pc' \in [Co -> Pc] /\ DataTypes'
  BY <1>0, <1>7, GotoTypes, WaitTypes DEF pull, DataTypes, Pc, Sem, bufferVars
<1>8. ASSUME NEW c \in Co, signalReceiver(c), UNCHANGED is_close
      PROVE  SemTypes' /\ pc' \in [Co -> Pc] /\ DataTypes'
  BY <1>0, <1>8, GotoTypes, SignalTypes
     DEF signalReceiver, DataTypes, Pc, Sem, bufferVars, handVars
<1>9. ASSUME NEW c \in Co, fetch(c), UNCHANGED is_close
      PROVE  SemTypes' /\ pc' \in [Co -> Pc] /\ DataTypes'
  <2>1. DataTypes'
    BY <1>0, <1>9 DEF fetch, DataTypes, bufferVars
  <2>2. SemTypes'
    BY <1>0, <1>9, WaitTypes DEF fetch, SemTypes, Sem, semVars
  <2>3. pc' \in [Co -> Pc]
    BY <1>9, GotoTypes DEF fetch, Pc
  <2> QED BY <2>1, <2>2, <2>3
<1>10. ASSUME NEW c \in Co, load(c), UNCHANGED is_close
       PROVE  SemTypes' /\ pc' \in [Co -> Pc] /\ DataTypes'
  <2>1. SemTypes'
    BY <1>0, <1>10 DEF load, SemTypes, semVars
  <2>2. pc' \in [Co -> Pc]
    BY <1>10, GotoTypes DEF load, Pc
  <2>3. DataTypes'
    <3>1. CASE UNCHANGED <<bufferVars, handVars>>
      BY <1>0, <1>10, <3>1 DEF DataTypes, bufferVars, handVars
    <3>2. CASE /\ m_size > 0 /\ ans' = [ans EXCEPT ![c] = m_data[front]]
               /\ m_data' = [m_data EXCEPT ![front] = NoVal]
               /\ front' = (front + 1) % SIZE /\ m_size' = m_size - 1
               /\ UNCHANGED <<semVars, rear, x, is_exec, buffer_has_value>>
      <4>1. (front + 1) % SIZE \in 0 .. SIZE - 1 /\ m_size - 1 \in 0 .. SIZE
        BY <1>0, <3>2, ModNext DEF DataTypes
      <4>2. m_data' \in [0 .. SIZE - 1 -> Val \cup {NoVal}] /\ ans' \in [Co -> Val \cup {NoVal}]
        BY <1>0, <3>2 DEF DataTypes
      <4> QED BY <1>0, <1>10, <3>2, <4>1, <4>2 DEF DataTypes
    <3> QED BY <1>10, <3>1, <3>2 DEF load
  <2> QED BY <2>1, <2>2, <2>3
<1>11. ASSUME NEW c \in Co, signalEmpty(c), UNCHANGED is_close
       PROVE  SemTypes' /\ pc' \in [Co -> Pc] /\ DataTypes'
  BY <1>0, <1>11, GotoTypes, SignalTypes DEF signalEmpty, DataTypes, Pc, Sem, bufferVars
<1>12. ASSUME NEW c \in Co, NEW w \in Co, grant(c, w), UNCHANGED is_close
       PROVE  SemTypes' /\ pc' \in [Co -> Pc] /\ DataTypes'
  <2>1. SemTypes'
    BY <1>0, <1>12 DEF grant, SemTypes
  <2>2. DataTypes'
    BY <1>0, <1>12 DEF grant, callback, DataTypes, bufferVars, handVars
  <2>3. pc' \in [Co -> Pc]
    BY <1>0, <1>12 DEF grant
  <2> QED BY <2>1, <2>2, <2>3
<1>13. CASE UNCHANGED vars
  BY <1>0, <1>13 DEF vars, SemTypes, DataTypes, semVars, bufferVars, handVars
<1> QED BY <1>1, <1>2, <1>3, <1>4, <1>5, <1>6, <1>7, <1>8, <1>9, <1>10, <1>11, <1>12, <1>13
  DEF Next, UserStep, PushStep, PullStep, Grant

-----------------------------------------------------------------------------
(* A wait parks the coroutine where its pc says, and only a grant, which    *)
(* chooses it, moves it on.                                                 *)
LEMMA ParkedStep ==
  ASSUME TypeOK, SelfSays, [Next]_vars
  PROVE  ParkedSays'
<1> USE ChannelAssumption DEF Goto, Parked, Sem, NoSem, TypeOK, SelfSays, ParkedSays,
    GrantSays, semVars, bufferVars, handVars
<1>1. ASSUME NEW c \in Co, close(c) PROVE ParkedSays'
  BY <1>1 DEF close
<1>2. ASSUME NEW c \in Co, NEW v \in Val \ Circulating, push(c, v) PROVE ParkedSays'
  BY <1>2 DEF push, wait
<1>3. ASSUME NEW c \in Co, stage(c) PROVE ParkedSays'
  BY <1>3 DEF stage, wait
<1>4. ASSUME NEW c \in Co, store(c) PROVE ParkedSays'
  BY <1>4 DEF store
<1>5. ASSUME NEW c \in Co, signalFull(c) PROVE ParkedSays'
  BY <1>5 DEF signalFull, signal
<1>6. ASSUME NEW c \in Co, signalSender(c) PROVE ParkedSays'
  BY <1>6 DEF signalSender, signal
<1>7. ASSUME NEW c \in Co, pull(c) PROVE ParkedSays'
  BY <1>7 DEF pull, wait
<1>8. ASSUME NEW c \in Co, signalReceiver(c) PROVE ParkedSays'
  BY <1>8 DEF signalReceiver, signal
<1>9. ASSUME NEW c \in Co, fetch(c) PROVE ParkedSays'
  BY <1>9 DEF fetch, wait
<1>10. ASSUME NEW c \in Co, load(c) PROVE ParkedSays'
  BY <1>10 DEF load
<1>11. ASSUME NEW c \in Co, signalEmpty(c) PROVE ParkedSays'
  BY <1>11 DEF signalEmpty, signal
<1>12. ASSUME NEW c \in Co, NEW w \in Co, grant(c, w) PROVE ParkedSays'
  BY <1>12 DEF grant, callback
<1>13. CASE UNCHANGED vars
  BY <1>13 DEF vars
<1> QED BY <1>1, <1>2, <1>3, <1>4, <1>5, <1>6, <1>7, <1>8, <1>9, <1>10, <1>11, <1>12, <1>13
  DEF Next, UserStep, PushStep, PullStep, Grant

(* A signal that finds a waiter is the last step before the wakeup.         *)
LEMMA GrantStep ==
  ASSUME TypeOK, SelfSays, [Next]_vars
  PROVE  GrantSays'
<1> USE ChannelAssumption DEF Goto, Parked, Sem, NoSem, TypeOK, SelfSays, ParkedSays,
    GrantSays, HandSays, semVars, bufferVars, handVars
<1>1. ASSUME NEW c \in Co, close(c) PROVE GrantSays'
  BY <1>1 DEF close
<1>2. ASSUME NEW c \in Co, NEW v \in Val \ Circulating, push(c, v) PROVE GrantSays'
  BY <1>2 DEF push, wait
<1>3. ASSUME NEW c \in Co, stage(c) PROVE GrantSays'
  BY <1>3 DEF stage, wait
<1>4. ASSUME NEW c \in Co, store(c) PROVE GrantSays'
  BY <1>4 DEF store
<1>5. ASSUME NEW c \in Co, signalFull(c) PROVE GrantSays'
  BY <1>5 DEF signalFull, signal
<1>6. ASSUME NEW c \in Co, signalSender(c) PROVE GrantSays'
  BY <1>6 DEF signalSender, signal
<1>7. ASSUME NEW c \in Co, pull(c) PROVE GrantSays'
  BY <1>7 DEF pull, wait
<1>8. ASSUME NEW c \in Co, signalReceiver(c) PROVE GrantSays'
  BY <1>8 DEF signalReceiver, signal
<1>9. ASSUME NEW c \in Co, fetch(c) PROVE GrantSays'
  BY <1>9 DEF fetch, wait
<1>10. ASSUME NEW c \in Co, load(c) PROVE GrantSays'
  BY <1>10 DEF load
<1>11. ASSUME NEW c \in Co, signalEmpty(c) PROVE GrantSays'
  BY <1>11 DEF signalEmpty, signal
<1>12. ASSUME NEW c \in Co, NEW w \in Co, grant(c, w) PROVE GrantSays'
  BY <1>12 DEF grant, callback
<1>13. CASE UNCHANGED vars
  BY <1>13 DEF vars
<1> QED BY <1>1, <1>2, <1>3, <1>4, <1>5, <1>6, <1>7, <1>8, <1>9, <1>10, <1>11, <1>12, <1>13
  DEF Next, UserStep, PushStep, PullStep, Grant

(* The slot a push writes is free and the one a pull reads holds a value.   *)
LEMMA RearFree ==
  ASSUME DataTypes, RingSays, m_size < SIZE
  PROVE  m_data[rear] = NoVal
<1> USE ChannelAssumption
<1>1. rear = IF front + m_size < SIZE THEN front + m_size ELSE front + m_size - SIZE
  BY ModSum DEF DataTypes, RingSays
<1>2. ~Between(rear, front, m_size)
  BY <1>1 DEF DataTypes, Between
<1> QED BY <1>2 DEF DataTypes, RingSays

(* The slot at front holds a value.                                         *)
LEMMA FrontTaken ==
  ASSUME DataTypes, RingSays, m_size > 0
  PROVE  m_data[front] # NoVal
BY DEF DataTypes, RingSays, Between

(* A value is with the coroutine whose pc says so.                          *)
LEMMA HandStep ==
  ASSUME TypeOK, SelfSays, RingSays, BufferAsserts', [Next]_vars
  PROVE  HandSays'
<1> USE ChannelAssumption DEF Goto, Parked, Sem, NoSem, TypeOK, SelfSays, ParkedSays,
    GrantSays, HandSays, semVars, bufferVars, handVars
<1>1. ASSUME NEW c \in Co, close(c) PROVE HandSays'
  BY <1>1 DEF close
<1>2. ASSUME NEW c \in Co, NEW v \in Val \ Circulating, push(c, v) PROVE HandSays'
  BY <1>2 DEF push, wait
<1>3. ASSUME NEW c \in Co, stage(c) PROVE HandSays'
  BY <1>3 DEF stage, wait
<1>4. ASSUME NEW c \in Co, store(c) PROVE HandSays'
  <2>1. pc'[c] # "abort"
    BY DEF BufferAsserts
  <2> QED BY <1>4, <2>1 DEF store
<1>5. ASSUME NEW c \in Co, signalFull(c) PROVE HandSays'
  BY <1>5 DEF signalFull, signal
<1>6. ASSUME NEW c \in Co, signalSender(c) PROVE HandSays'
  BY <1>6 DEF signalSender, signal
<1>7. ASSUME NEW c \in Co, pull(c) PROVE HandSays'
  BY <1>7 DEF pull, wait
<1>8. ASSUME NEW c \in Co, signalReceiver(c) PROVE HandSays'
  BY <1>8 DEF signalReceiver, signal
<1>9. ASSUME NEW c \in Co, fetch(c) PROVE HandSays'
  BY <1>9 DEF fetch, wait
<1>10. ASSUME NEW c \in Co, load(c) PROVE HandSays'
  <2>1. m_data[front] # NoVal \/ m_size = 0
    BY TypesAre, FrontTaken
  <2>2. m_data[front] \in Val \cup {NoVal}
    OBVIOUS
  <2>3. pc'[c] # "abort"
    BY DEF BufferAsserts
  <2> QED BY <1>10, <2>1, <2>2, <2>3 DEF load
<1>11. ASSUME NEW c \in Co, signalEmpty(c) PROVE HandSays'
  BY <1>11 DEF signalEmpty, signal
<1>12. ASSUME NEW c \in Co, NEW w \in Co, grant(c, w) PROVE HandSays'
  BY <1>12 DEF grant, callback
<1>13. CASE UNCHANGED vars
  BY <1>13 DEF vars
<1> QED BY <1>1, <1>2, <1>3, <1>4, <1>5, <1>6, <1>7, <1>8, <1>9, <1>10, <1>11, <1>12, <1>13
  DEF Next, UserStep, PushStep, PullStep, Grant

-----------------------------------------------------------------------------
(* What a step does to the values: a new one is pushed, the ring takes one  *)
(* or gives one, the callback of w hands its value to c, a pull returns     *)
(* with its value, or a push_for with a value that it has not delivered.    *)
NewValue(c, v) ==
  /\ v \in Val \ Circulating /\ x[c] = NoVal
  /\ x' = [x EXCEPT ![c] = v]
  /\ UNCHANGED <<ans, bufferVars>>

Stored(c) ==
  /\ x[c] # NoVal /\ m_size < SIZE
  /\ m_data' = [m_data EXCEPT ![rear] = x[c]]
  /\ rear' = (rear + 1) % SIZE
  /\ m_size' = m_size + 1
  /\ x' = [x EXCEPT ![c] = NoVal]
  /\ UNCHANGED <<front, ans>>

Loaded(c) ==
  /\ ans[c] = NoVal /\ m_size > 0
  /\ ans' = [ans EXCEPT ![c] = m_data[front]]
  /\ m_data' = [m_data EXCEPT ![front] = NoVal]
  /\ front' = (front + 1) % SIZE
  /\ m_size' = m_size - 1
  /\ UNCHANGED <<rear, x>>

Handed(c, w) ==
  /\ x[w] # NoVal /\ ans[c] = NoVal
  /\ ans' = [ans EXCEPT ![c] = x[w]]
  /\ x' = [x EXCEPT ![w] = NoVal]
  /\ UNCHANGED bufferVars

Returned(c) ==
  /\ ReturnsTrue(c)
  /\ ans' = [ans EXCEPT ![c] = NoVal]
  /\ UNCHANGED <<x, bufferVars>>

Withdrawn(c) ==
  /\ ReturnsFalse(c)
  /\ x' = [x EXCEPT ![c] = NoVal]
  /\ UNCHANGED <<ans, bufferVars>>

DataMove ==
  \/ UNCHANGED <<x, ans, bufferVars>>
  \/ \E c \in Co : \/ Stored(c) \/ Loaded(c) \/ Returned(c) \/ Withdrawn(c)
                   \/ \E v \in Val : NewValue(c, v)
                   \/ \E w \in Co : Handed(c, w)

(* Every step of push and pull is one of these.                             *)
LEMMA DataMoves ==
  ASSUME TypeOK, SelfSays, RingSays, [Next]_vars
  PROVE  DataMove
<1> USE DEF Goto, TypeOK, SelfSays, HandSays, bufferVars, handVars
<1>1. ASSUME NEW c \in Co, NEW v \in Val \ Circulating, push(c, v) PROVE NewValue(c, v)
  BY <1>1 DEF push, NewValue
<1>2. ASSUME NEW c \in Co, store(c) PROVE Stored(c) \/ UNCHANGED <<x, ans, bufferVars>>
  BY <1>2 DEF store, Stored
<1>3. ASSUME NEW c \in Co, load(c) PROVE Loaded(c) \/ UNCHANGED <<x, ans, bufferVars>>
  BY <1>3 DEF load, Loaded
<1>4. ASSUME NEW c \in Co, fetch(c) \/ signalEmpty(c)
      PROVE  Returned(c) \/ UNCHANGED <<x, ans, bufferVars>>
  BY <1>4 DEF fetch, signalEmpty, Returned, ReturnsTrue
<1>5. ASSUME NEW c \in Co, NEW w \in Co, grant(c, w)
      PROVE  Handed(c, w) \/ UNCHANGED <<x, ans, bufferVars>>
  <2>1. CASE granting[c] = "receiver"
    <3>1. w \in parked["receiver"] /\ callback(c, w) /\ UNCHANGED bufferVars
      BY <1>5, <2>1 DEF grant
    <3>2. x[w] # NoVal /\ ans[c] = NoVal
      BY <2>1, <3>1 DEF ParkedSays, GrantSays
    <3> QED BY <3>1, <3>2 DEF callback, Handed
  <2> QED BY <1>5, <2>1 DEF grant
<1>6. ASSUME NEW c \in Co,
             \/ close(c) \/ pull(c) \/ stage(c) \/ signalFull(c) \/ signalSender(c)
             \/ signalReceiver(c)
      PROVE  UNCHANGED <<x, ans, bufferVars>>
  BY <1>6 DEF close, pull, stage, signalFull, signalSender, signalReceiver
<1>7. CASE UNCHANGED vars
  BY <1>7 DEF vars, DataMove
<1> QED BY <1>1, <1>2, <1>3, <1>4, <1>5, <1>6, <1>7
  DEF DataMove, Next, UserStep, PushStep, PullStep, Grant

(* A store puts a value at the rear, a load takes the one at the front.     *)
LEMMA RingMove ==
  ASSUME DataTypes, RingSays, DataMove
  PROVE  RingSays'
<1> USE ChannelAssumption
<1>0. /\ front \in 0 .. SIZE - 1 /\ rear \in 0 .. SIZE - 1 /\ m_size \in 0 .. SIZE
      /\ m_data \in [0 .. SIZE - 1 -> Val \cup {NoVal}]
      /\ rear = IF front + m_size < SIZE THEN front + m_size ELSE front + m_size - SIZE
  BY ModSum DEF DataTypes, RingSays
<1>1. CASE UNCHANGED bufferVars
  BY <1>1 DEF bufferVars, RingSays, Between
<1>2. ASSUME NEW c \in Co, Stored(c)
      PROVE  RingSays'
  <2>1. /\ m_size < SIZE /\ m_data' = [m_data EXCEPT ![rear] = x[c]]
        /\ rear' = (rear + 1) % SIZE /\ m_size' = m_size + 1 /\ front' = front
        /\ x[c] # NoVal
    BY <1>2 DEF Stored
  <2>3. (rear + 1) % SIZE = (front + (m_size + 1)) % SIZE
    <3>1. (rear + 1) % SIZE = IF rear + 1 < SIZE THEN rear + 1 ELSE 0
      BY <1>0, ModNext
    <3>2. (front + (m_size + 1)) % SIZE
            = IF front + (m_size + 1) < SIZE THEN front + (m_size + 1)
              ELSE front + (m_size + 1) - SIZE
      <4>1. m_size + 1 \in 0 .. SIZE
        BY <1>0, <2>1
      <4> QED BY <1>0, <4>1, ModSum
    <3> QED BY <1>0, <2>1, <3>1, <3>2
  <2>4. \A i \in 0 .. SIZE - 1 : Between(i, front, m_size + 1)
                                   <=> Between(i, front, m_size) \/ i = rear
    BY <1>0, <2>1 DEF Between
  <2>5. \A i \in 0 .. SIZE - 1 : m_data'[i] # NoVal <=> m_data[i] # NoVal \/ i = rear
    BY <1>0, <2>1
  <2>6. \A i \in 0 .. SIZE - 1 : m_data'[i] # NoVal <=> Between(i, front', m_size')
    BY <2>1, <2>4, <2>5 DEF RingSays
  <2> QED BY <2>1, <2>3, <2>6 DEF RingSays, Between
<1>3. ASSUME NEW c \in Co, Loaded(c)
      PROVE  RingSays'
  <2>1. /\ m_size > 0 /\ m_data' = [m_data EXCEPT ![front] = NoVal]
        /\ front' = (front + 1) % SIZE /\ m_size' = m_size - 1 /\ rear' = rear
    BY <1>3 DEF Loaded
  <2>2. (front + 1) % SIZE = IF front + 1 < SIZE THEN front + 1 ELSE 0
    BY <1>0, ModNext
  <2>3. (front' + (m_size - 1)) % SIZE
          = IF front' + (m_size - 1) < SIZE THEN front' + (m_size - 1)
            ELSE front' + (m_size - 1) - SIZE
    <3>1. front' \in 0 .. SIZE - 1 /\ m_size - 1 \in 0 .. SIZE
      BY <1>0, <2>1, <2>2
    <3> QED BY <3>1, ModSum
  <2>4. rear = (front' + (m_size - 1)) % SIZE
    BY <1>0, <2>1, <2>2, <2>3, SMTT(30)
  <2>5. \A i \in 0 .. SIZE - 1 : Between(i, front', m_size - 1)
                                   <=> Between(i, front, m_size) /\ i # front
    BY <1>0, <2>1, <2>2 DEF Between
  <2>6. \A i \in 0 .. SIZE - 1 : m_data'[i] # NoVal <=> m_data[i] # NoVal /\ i # front
    BY <1>0, <2>1
  <2>7. \A i \in 0 .. SIZE - 1 : m_data'[i] # NoVal <=> Between(i, front', m_size')
    BY <2>1, <2>5, <2>6 DEF RingSays
  <2> QED BY <2>1, <2>4, <2>7 DEF RingSays, Between
<1> QED BY <1>1, <1>2, <1>3 DEF DataMove, NewValue, Handed, Returned, Withdrawn, bufferVars

(* A value goes from one place to the next, and a new one is pushed only    *)
(* when no place holds it.                                                  *)
LEMMA OnceMove ==
  ASSUME DataTypes, RingSays, OnceSays, DataMove
  PROVE  OnceSays'
<1>0. /\ x \in [Co -> Val \cup {NoVal}] /\ ans \in [Co -> Val \cup {NoVal}]
      /\ m_data \in [0 .. SIZE - 1 -> Val \cup {NoVal}]
      /\ front \in 0 .. SIZE - 1 /\ rear \in 0 .. SIZE - 1 /\ NoVal \notin Val
  BY ChannelAssumption DEF DataTypes
<1>1. CASE UNCHANGED <<x, ans, bufferVars>>
  BY <1>1 DEF OnceSays, bufferVars
<1>2. ASSUME NEW c \in Co, NEW v \in Val, NewValue(c, v) PROVE OnceSays'
  <2>1. v # NoVal /\ (\A a \in Co : v # x[a] /\ v # ans[a])
    BY <1>0, <1>2 DEF NewValue, Circulating
  <2>2. \A i \in 0 .. SIZE - 1 : v # m_data[i]
    BY <1>2, <2>1, FilledBetween DEF NewValue, Circulating, RingSays
  <2>3. (\A a \in Co : x'[a] = IF a = c THEN v ELSE x[a]) /\ ans' = ans /\ m_data' = m_data
    BY <1>0, <1>2 DEF NewValue, bufferVars
  <2> QED BY <1>0, <2>1, <2>2, <2>3 DEF OnceSays
<1>3. ASSUME NEW c \in Co, Stored(c) PROVE OnceSays'
  <2>1. /\ x[c] # NoVal /\ ans' = ans
        /\ \A i \in 0 .. SIZE - 1 : m_data'[i] = IF i = rear THEN x[c] ELSE m_data[i]
        /\ \A a \in Co : x'[a] = IF a = c THEN NoVal ELSE x[a]
    BY <1>0, <1>3 DEF Stored
  <2> QED BY <1>0, <2>1 DEF OnceSays
<1>4. ASSUME NEW c \in Co, Loaded(c) PROVE OnceSays'
  <2>1. /\ x' = x /\ m_data[front] # NoVal
        /\ \A i \in 0 .. SIZE - 1 : m_data'[i] = IF i = front THEN NoVal ELSE m_data[i]
        /\ \A a \in Co : ans'[a] = IF a = c THEN m_data[front] ELSE ans[a]
    BY <1>0, <1>4, FrontTaken DEF Loaded
  <2> QED BY <1>0, <2>1 DEF OnceSays
<1>5. ASSUME NEW c \in Co, NEW w \in Co, Handed(c, w) PROVE OnceSays'
  <2>1. /\ m_data' = m_data /\ x[w] # NoVal
        /\ \A a \in Co : x'[a] = IF a = w THEN NoVal ELSE x[a]
        /\ \A a \in Co : ans'[a] = IF a = c THEN x[w] ELSE ans[a]
    BY <1>0, <1>5 DEF Handed, bufferVars
  <2> QED BY <1>0, <2>1 DEF OnceSays
<1>6. ASSUME NEW c \in Co, Returned(c) \/ Withdrawn(c) PROVE OnceSays'
  <2>1. /\ m_data' = m_data
        /\ \A a \in Co : x'[a] = x[a] \/ x'[a] = NoVal
        /\ \A a \in Co : ans'[a] = ans[a] \/ ans'[a] = NoVal
    BY <1>0, <1>6 DEF Returned, Withdrawn, bufferVars
  <2> QED BY <1>0, <2>1 DEF OnceSays
<1> QED BY <1>1, <1>2, <1>3, <1>4, <1>5, <1>6 DEF DataMove

-----------------------------------------------------------------------------
(* Two sets of coroutines that agree on all but c.                          *)
LEMMA Moved ==
  ASSUME NEW S \in SUBSET Co, NEW T \in SUBSET Co, NEW c \in Co,
         \A y \in Co \ {c} : y \in T <=> y \in S
  PROVE  /\ Cardinality(S) \in Nat /\ Cardinality(T) \in Nat
         /\ (c \in S <=> c \in T) => Cardinality(T) = Cardinality(S)
         /\ c \in S /\ c \notin T => Cardinality(S) = Cardinality(T) + 1
         /\ c \notin S /\ c \in T => Cardinality(T) = Cardinality(S) + 1
<1>1. IsFiniteSet(S) /\ IsFiniteSet(T)
  BY ChannelAssumption, FS_Subset
<1>2. Cardinality(S) \in Nat /\ Cardinality(T) \in Nat
  BY <1>1, FS_CardinalityType
<1>3. ASSUME c \in S <=> c \in T PROVE Cardinality(T) = Cardinality(S)
  <2>1. S = T
    BY <1>3
  <2> QED BY <2>1
<1>4. ASSUME c \in S, c \notin T PROVE Cardinality(S) = Cardinality(T) + 1
  <2>1. S = T \cup {c}
    BY <1>4
  <2> QED BY <1>1, <1>4, <2>1, FS_AddElement
<1>5. ASSUME c \notin S, c \in T PROVE Cardinality(T) = Cardinality(S) + 1
  <2>1. T = S \cup {c}
    BY <1>5
  <2> QED BY <1>1, <1>5, <2>1, FS_AddElement
<1> QED BY <1>2, <1>3, <1>4, <1>5

(* Two sets that agree on all but c and w, where w has taken c's place.     *)
LEMMA Swapped ==
  ASSUME NEW S \in SUBSET Co, NEW T \in SUBSET Co, NEW c \in Co, NEW w \in Co, c # w,
         \A y \in Co \ {c, w} : y \in T <=> y \in S,
         \/ c \in S /\ w \notin S /\ c \notin T /\ w \in T
         \/ (c \in S <=> c \in T) /\ (w \in S <=> w \in T)
  PROVE  Cardinality(T) = Cardinality(S)
<1>1. CASE (c \in S <=> c \in T) /\ (w \in S <=> w \in T)
  <2>1. S = T
    BY <1>1
  <2> QED BY <2>1
<1>2. CASE c \in S /\ w \notin S /\ c \notin T /\ w \in T
  <2> DEFINE U == S \ {c}
  <2>1. /\ U \in SUBSET Co /\ c \notin U /\ w \notin U
        /\ \A y \in Co \ {c} : y \in U <=> y \in S
        /\ \A y \in Co \ {w} : y \in T <=> y \in U
    BY <1>2
  <2> HIDE DEF U
  <2>2. Cardinality(S) = Cardinality(U) + 1
    BY <1>2, <2>1, Moved
  <2>3. Cardinality(T) = Cardinality(U) + 1
    BY <1>2, <2>1, Moved
  <2> QED BY <2>2, <2>3
<1> QED BY <1>1, <1>2

(* The numbers the accounts are kept in.                                    *)
LEMMA HoldsCounted ==
  /\ Cardinality(HoldsEmpty) \in Nat /\ Cardinality(HoldsFull) \in Nat
  /\ Cardinality(HoldsTurn) \in Nat /\ Cardinality(HoldsValue) \in Nat
  /\ \A s \in Sem : Cardinality(Owes(s)) \in Nat
<1>1. ASSUME NEW S \in SUBSET Co PROVE Cardinality(S) \in Nat
  BY ChannelAssumption, FS_Subset, FS_CardinalityType
<1> QED BY <1>1 DEF HoldsEmpty, HoldsFull, HoldsTurn, HoldsValue, Owes

(* A set with an element counts at least one.                               *)
LEMMA Somebody ==
  ASSUME NEW S \in SUBSET Co, NEW c \in S
  PROVE  Cardinality(S) \in Nat /\ Cardinality(S) > 0
<1>1. IsFiniteSet(S)
  BY ChannelAssumption, FS_Subset
<1> QED BY <1>1, FS_EmptySet, FS_CardinalityType

(* The assertions: who may store holds a slot that is empty, who may load   *)
(* holds one that is full.                                                  *)
LEMMA BufferStep ==
  ASSUME TypeOK, SelfSays, AccountsSay, [Next]_vars
  PROVE  BufferAsserts'
<1> USE ChannelAssumption DEF BufferAsserts, SelfSays
<1>0. /\ m_size \in Nat /\ count["empty"] \in Nat /\ count["full"] \in Nat /\ pc \in [Co -> Pc]
  BY DEF TypeOK, Sem
<1>1. ASSUME NEW c \in Co, pc[c] = "store", ~Parked(c) PROVE m_size < SIZE
  <2>1. c \in HoldsEmpty
    BY <1>1 DEF HoldsEmpty, HasEmpty, Parked, Sem
  <2>2. Cardinality(HoldsEmpty) \in Nat /\ Cardinality(HoldsEmpty) > 0
    BY <2>1, Somebody DEF HoldsEmpty
  <2> QED BY <1>0, <2>2 DEF AccountsSay
<1>2. ASSUME NEW c \in Co, pc[c] = "load", ~Parked(c) PROVE m_size > 0
  <2>1. c \in HoldsFull
    BY <1>2 DEF HoldsFull, HasFull, Parked, Sem
  <2>2. Cardinality(HoldsFull) \in Nat /\ Cardinality(HoldsFull) > 0
    BY <2>1, Somebody DEF HoldsFull
  <2> QED BY <1>0, <2>2 DEF AccountsSay
<1>3. ASSUME NEW c \in Co, store(c) PROVE BufferAsserts'
  BY <1>0, <1>1, <1>3 DEF store, Goto
<1>4. ASSUME NEW c \in Co, load(c) PROVE BufferAsserts'
  BY <1>0, <1>2, <1>4 DEF load, Goto
<1>5. ASSUME NEW c \in Co,
             \/ UserStep(c)
             \/ stage(c) \/ signalFull(c) \/ signalSender(c)
             \/ signalReceiver(c) \/ fetch(c) \/ signalEmpty(c)
             \/ Grant(c)
      PROVE  BufferAsserts'
  BY <1>0, <1>5 DEF UserStep, close, push, pull, stage, signalFull, signalSender,
                    signalReceiver, fetch, signalEmpty, Grant, grant, Goto
<1>6. CASE UNCHANGED vars
  BY <1>6 DEF vars
<1> QED BY <1>3, <1>4, <1>5, <1>6 DEF Next, PushStep, PullStep

-----------------------------------------------------------------------------
(* A step of c alone leaves the others where they are.                      *)
OthersPlaces(c) ==
  \A y \in Co \ {c} :
    /\ pc'[y] = pc[y] /\ granting'[y] = granting[y]
    /\ \A s \in Sem : y \in parked'[s] <=> y \in parked[s]

Others(c) ==
  /\ OthersPlaces(c)
  /\ \A y \in Co \ {c} :
       is_exec'[y] = is_exec[y] /\ buffer_has_value'[y] = buffer_has_value[y]

Solo(c) == \/ UserStep(c) \/ PushStep(c) \/ PullStep(c)

(* A step of c alone moves no other coroutine.                              *)
LEMMA OthersStay ==
  ASSUME TypeOK, NEW c \in Co, Solo(c)
  PROVE  Others(c)
<1> USE DEF Others, OthersPlaces, Goto, TypeOK, Sem, semVars, bufferVars, handVars
<1>1. CASE UserStep(c)
  BY <1>1 DEF UserStep, close, push, pull, wait
<1>2. CASE PushStep(c)
  BY <1>2 DEF PushStep, stage, store, signalFull, signalSender, wait, signal
<1>3. CASE PullStep(c)
  BY <1>3 DEF PullStep, signalReceiver, fetch, load, signalEmpty, wait, signal
<1> QED BY <1>1, <1>2, <1>3 DEF Solo

(* What a step of c alone does to the accounts.                             *)
Bit(b) == IF b THEN 1 ELSE 0

(* A set from which at most c comes or goes, and the four accounts.         *)
LEMMA SetMove ==
  ASSUME NEW c \in Co, NEW S \in SUBSET Co, NEW T \in SUBSET Co,
         \A y \in Co \ {c} : y \in T <=> y \in S
  PROVE  Cardinality(T) = Cardinality(S) + (Bit(c \in T) - Bit(c \in S))
BY Moved DEF Bit

LEMMA EmptyMove ==
  ASSUME NEW c \in Co, OthersPlaces(c)
  PROVE  Cardinality(HoldsEmpty)' = Cardinality(HoldsEmpty) + (Bit(HasEmpty(c)') - Bit(HasEmpty(c)))
<1>1. /\ \A y \in Co \ {c} : y \in HoldsEmpty' <=> y \in HoldsEmpty
      /\ c \in HoldsEmpty <=> HasEmpty(c)
      /\ c \in HoldsEmpty' <=> HasEmpty(c)'
      /\ HoldsEmpty \in SUBSET Co /\ HoldsEmpty' \in SUBSET Co
  BY DEF Others, OthersPlaces, HoldsEmpty, HasEmpty, Sem
<1>2. Cardinality(HoldsEmpty)' = Cardinality(HoldsEmpty) + (Bit(c \in HoldsEmpty') - Bit(c \in HoldsEmpty))
  BY <1>1, SetMove
<1> QED BY <1>1, <1>2 DEF Bit

LEMMA FullMove ==
  ASSUME NEW c \in Co, OthersPlaces(c)
  PROVE  Cardinality(HoldsFull)' = Cardinality(HoldsFull) + (Bit(HasFull(c)') - Bit(HasFull(c)))
<1>1. /\ \A y \in Co \ {c} : y \in HoldsFull' <=> y \in HoldsFull
      /\ c \in HoldsFull <=> HasFull(c)
      /\ c \in HoldsFull' <=> HasFull(c)'
      /\ HoldsFull \in SUBSET Co /\ HoldsFull' \in SUBSET Co
  BY DEF Others, OthersPlaces, HoldsFull, HasFull, Sem
<1>2. Cardinality(HoldsFull)' = Cardinality(HoldsFull) + (Bit(c \in HoldsFull') - Bit(c \in HoldsFull))
  BY <1>1, SetMove
<1> QED BY <1>1, <1>2 DEF Bit

LEMMA TurnMove ==
  ASSUME NEW c \in Co, Others(c)
  PROVE  Cardinality(HoldsTurn)' = Cardinality(HoldsTurn) + (Bit(HasTurn(c)') - Bit(HasTurn(c)))
<1>1. /\ \A y \in Co \ {c} : y \in HoldsTurn' <=> y \in HoldsTurn
      /\ c \in HoldsTurn <=> HasTurn(c)
      /\ c \in HoldsTurn' <=> HasTurn(c)'
      /\ HoldsTurn \in SUBSET Co /\ HoldsTurn' \in SUBSET Co
  BY DEF Others, OthersPlaces, HoldsTurn, HasTurn, Sem
<1>2. Cardinality(HoldsTurn)' = Cardinality(HoldsTurn) + (Bit(c \in HoldsTurn') - Bit(c \in HoldsTurn))
  BY <1>1, SetMove
<1> QED BY <1>1, <1>2 DEF Bit

LEMMA ValueMove ==
  ASSUME NEW c \in Co, Others(c)
  PROVE  Cardinality(HoldsValue)' = Cardinality(HoldsValue) + (Bit(HasValue(c)') - Bit(HasValue(c)))
<1>1. /\ \A y \in Co \ {c} : y \in HoldsValue' <=> y \in HoldsValue
      /\ c \in HoldsValue <=> HasValue(c)
      /\ c \in HoldsValue' <=> HasValue(c)'
      /\ HoldsValue \in SUBSET Co /\ HoldsValue' \in SUBSET Co
  BY DEF Others, OthersPlaces, HoldsValue, HasValue, Sem
<1>2. Cardinality(HoldsValue)' = Cardinality(HoldsValue) + (Bit(c \in HoldsValue') - Bit(c \in HoldsValue))
  BY <1>1, SetMove
<1> QED BY <1>1, <1>2 DEF Bit

-----------------------------------------------------------------------------
(* The numbers of a semaphore.                                              *)
LEMMA SurplusParts ==
  ASSUME SemTypes, NEW s \in Sem
  PROVE  /\ waiters[s] \in Nat /\ Cardinality(Owes(s)) \in Nat
         /\ Cardinality(parked[s]) \in Nat /\ Surplus(s) \in Int
<1>1. waiters[s] \in Nat /\ parked[s] \in SUBSET Co
  BY DEF SemTypes
<1>2. Cardinality(Owes(s)) \in Nat /\ Cardinality(parked[s]) \in Nat
  BY <1>1, HoldsCounted, FS_Subset, FS_CardinalityType, ChannelAssumption
<1> QED BY <1>1, <1>2 DEF Surplus

(* A wait that parks c is one waiter more; a signal that takes a waiter off *)
(* the number owes it the wakeup; a grant wakes one for one wakeup.         *)
LEMMA WaitSurplus ==
  ASSUME SemTypes, NEW c \in Co, NEW s \in Sem, ~Parked(c), wait(c, s)
  PROVE  \A t \in Sem : Surplus(t)' = Surplus(t)
<1>0. /\ waiters \in [Sem -> Nat] /\ parked \in [Sem -> SUBSET Co] /\ c \notin parked[s]
      /\ \A t \in Sem : Owes(t)' = Owes(t)
  BY DEF SemTypes, Parked, wait, Owes
<1>1. CASE UNCHANGED <<waiters, parked>>
  BY <1>0, <1>1 DEF Surplus
<1>2. CASE /\ waiters' = [waiters EXCEPT ![s] = @ + 1]
           /\ parked' = [parked EXCEPT ![s] = @ \cup {c}]
  <2>1. /\ waiters'[s] = waiters[s] + 1 /\ parked'[s] = parked[s] \cup {c}
        /\ \A t \in Sem : t # s => waiters'[t] = waiters[t] /\ parked'[t] = parked[t]
    BY <1>0, <1>2
  <2>2. Cardinality(parked'[s]) = Cardinality(parked[s]) + 1
    <3>1. parked[s] \in SUBSET Co /\ parked'[s] \in SUBSET Co
      BY <1>0, <2>1
    <3> QED BY <1>0, <2>1, <3>1, Moved
  <2>3. Surplus(s)' = Surplus(s)
    BY <1>0, <2>1, <2>2, SurplusParts DEF Surplus
  <2> QED BY <1>0, <2>1, <2>3 DEF Surplus
<1> QED BY <1>1, <1>2 DEF wait

(* A signal that takes a waiter off the number owes it the wakeup.          *)
LEMMA SignalSurplus ==
  ASSUME SemTypes, NEW c \in Co, NEW s \in Sem, granting[c] = NoSem, signal(c, s)
  PROVE  \A t \in Sem : Surplus(t)' = Surplus(t)
<1>0. /\ waiters \in [Sem -> Nat] /\ granting \in [Co -> Sem \cup {NoSem}] /\ parked' = parked
  BY DEF SemTypes, signal
<1>1. CASE UNCHANGED <<waiters, granting>>
  BY <1>0, <1>1 DEF Surplus, Owes
<1>2. CASE /\ waiters' = [waiters EXCEPT ![s] = @ - 1] /\ granting' = [granting EXCEPT ![c] = s]
  <2>1. /\ waiters'[s] = waiters[s] - 1
        /\ \A t \in Sem : t # s => waiters'[t] = waiters[t] /\ Owes(t)' = Owes(t)
    BY <1>0, <1>2 DEF Owes, Sem, NoSem
  <2>2. Cardinality(Owes(s)') = Cardinality(Owes(s)) + 1
    <3>1. c \notin Owes(s) /\ c \in Owes(s)'
          /\ \A y \in Co \ {c} : y \in Owes(s)' <=> y \in Owes(s)
      BY <1>0, <1>2 DEF Owes, Sem, NoSem
    <3>2. Owes(s) \in SUBSET Co /\ Owes(s)' \in SUBSET Co
      BY DEF Owes
    <3> QED BY <3>1, <3>2, Moved
  <2>3. Surplus(s)' = Surplus(s)
    BY <1>0, <2>1, <2>2, SurplusParts DEF Surplus
  <2> QED BY <1>0, <2>1, <2>3 DEF Surplus
<1> QED BY <1>1, <1>2 DEF signal

(* The end of a signal: one wakeup less.                                    *)
LEMMA OwesLess ==
  ASSUME SemTypes, NEW c \in Co, NEW s \in Sem, granting[c] = s,
         granting' = [granting EXCEPT ![c] = NoSem]
  PROVE  /\ Cardinality(Owes(s)') = Cardinality(Owes(s)) - 1
         /\ \A t \in Sem : t # s => Owes(t)' = Owes(t)
<1>0. \A y \in Co : granting'[y] = IF y = c THEN NoSem ELSE granting[y]
  BY DEF SemTypes
<1>1. NoSem \notin Sem
  BY DEF Sem, NoSem
<1>2. \A t \in Sem : t # s => Owes(t)' = Owes(t)
  BY <1>0, <1>1 DEF Owes
<1>3. /\ c \in Owes(s) /\ c \notin Owes(s)'
      /\ \A y \in Co \ {c} : y \in Owes(s)' <=> y \in Owes(s)
  BY <1>0, <1>1 DEF Owes
<1>4. Owes(s) \in SUBSET Co /\ Owes(s)' \in SUBSET Co
  BY DEF Owes
<1>5. Cardinality(Owes(s)) = Cardinality(Owes(s)') + 1 /\ Cardinality(Owes(s)') \in Nat
  BY <1>3, <1>4, Moved
<1> QED BY <1>2, <1>5

(* One coroutine parked less.                                               *)
LEMMA ParkedLess ==
  ASSUME SemTypes, NEW s \in Sem, NEW w \in parked[s], parked' = [parked EXCEPT ![s] = @ \ {w}]
  PROVE  /\ Cardinality(parked'[s]) = Cardinality(parked[s]) - 1
         /\ \A t \in Sem : t # s => parked'[t] = parked[t]
<1>1. parked'[s] = parked[s] \ {w} /\ parked[s] \in SUBSET Co /\ parked'[s] \in SUBSET Co
  BY DEF SemTypes
<1>2. Cardinality(parked[s]) = Cardinality(parked'[s]) + 1 /\ Cardinality(parked'[s]) \in Nat
  BY <1>1, Moved
<1>3. \A t \in Sem : t # s => parked'[t] = parked[t]
  BY DEF SemTypes
<1> QED BY <1>2, <1>3

(* A grant pays one wakeup and unparks one.                                 *)
LEMMA GrantSurplus ==
  ASSUME SemTypes, NEW c \in Co, NEW w \in Co, grant(c, w)
  PROVE  \A t \in Sem : Surplus(t)' = Surplus(t)
<1> PICK s \in Sem : granting[c] = s
  BY DEF SemTypes, grant
<1>0. /\ w \in parked[s] /\ waiters' = waiters
      /\ parked' = [parked EXCEPT ![s] = @ \ {w}] /\ granting' = [granting EXCEPT ![c] = NoSem]
  BY DEF grant
<1>1. /\ Cardinality(Owes(s)') = Cardinality(Owes(s)) - 1
      /\ Cardinality(parked'[s]) = Cardinality(parked[s]) - 1
      /\ \A t \in Sem : t # s => Owes(t)' = Owes(t) /\ parked'[t] = parked[t]
  BY <1>0, OwesLess, ParkedLess
<1>2. Surplus(s)' = Surplus(s)
  BY <1>0, <1>1, SurplusParts DEF Surplus
<1> QED BY <1>0, <1>1, <1>2 DEF Surplus

(* A semaphore that gets a waiter had no count, and the reverse.            *)
CountOrWaiters == \A s \in Sem : count[s] = 0 \/ waiters[s] = 0

(* wait and signal never leave a count beside a waiter.                     *)
LEMMA WaitCount ==
  ASSUME SemTypes, CountOrWaiters, NEW c \in Co, NEW s \in Sem,
         wait(c, s) \/ signal(c, s)
  PROVE  CountOrWaiters'
<1> USE DEF SemTypes, CountOrWaiters
<1>1. CASE count[s] > 0 /\ count' = [count EXCEPT ![s] = @ - 1] /\ UNCHANGED waiters
  BY <1>1
<1>2. CASE count[s] = 0 /\ waiters' = [waiters EXCEPT ![s] = @ + 1] /\ UNCHANGED count
  BY <1>2
<1>3. CASE waiters[s] = 0 /\ count' = [count EXCEPT ![s] = @ + 1] /\ UNCHANGED waiters
  BY <1>3
<1>4. CASE waiters[s] > 0 /\ waiters' = [waiters EXCEPT ![s] = @ - 1] /\ UNCHANGED count
  BY <1>4
<1> QED BY <1>1, <1>2, <1>3, <1>4 DEF wait, signal

(* The two halves of SemSays, and how wait, signal and grant keep them.     *)
LEMMA SemParts == SemSays <=> (\A s \in Sem : Surplus(s) = 0) /\ CountOrWaiters
BY DEF SemSays, CountOrWaiters

LEMMA SemPartsNext == SemSays' <=> ((\A s \in Sem : Surplus(s)' = 0) /\ CountOrWaiters')
BY DEF SemSays, CountOrWaiters

LEMMA WaitSem ==
  ASSUME SemTypes, SemSays, NEW c \in Co, NEW s \in Sem, ~Parked(c), wait(c, s)
  PROVE  SemSays'
BY SemParts, SemPartsNext, WaitSurplus, WaitCount

LEMMA SignalSem ==
  ASSUME SemTypes, SemSays, NEW c \in Co, NEW s \in Sem, granting[c] = NoSem, signal(c, s)
  PROVE  SemSays'
BY SemParts, SemPartsNext, SignalSurplus, WaitCount

LEMMA GrantSem ==
  ASSUME SemTypes, SemSays, NEW c \in Co, NEW w \in Co, grant(c, w)
  PROVE  SemSays'
BY SemParts, SemPartsNext, GrantSurplus DEF grant, CountOrWaiters

(* A step that touches no semaphore.                                        *)
LEMMA SemStill ==
  ASSUME SemSays, UNCHANGED <<count, waiters, parked, granting>>
  PROVE  SemSays'
BY DEF SemSays, Surplus, Owes

(* The numbers of the semaphores after every step.                          *)
LEMMA SemStep ==
  ASSUME TypeOK, SemSays, [Next]_vars
  PROVE  SemSays'
<1> USE TypesAre DEF Goto, Sem, semVars
<1>1. ASSUME NEW c \in Co, close(c) \/ store(c) \/ load(c) PROVE SemSays'
  BY <1>1, SemStill DEF close, store, load
<1>2. ASSUME NEW c \in Co, NEW v \in Val, push(c, v) PROVE SemSays'
  BY <1>2, WaitSem DEF push
<1>3. ASSUME NEW c \in Co, stage(c) PROVE SemSays'
  BY <1>3, WaitSem, SemStill DEF stage
<1>4. ASSUME NEW c \in Co, signalFull(c) \/ signalSender(c) \/ signalReceiver(c) \/ signalEmpty(c)
      PROVE  SemSays'
  BY <1>4, SignalSem DEF signalFull, signalSender, signalReceiver, signalEmpty
<1>5. ASSUME NEW c \in Co, pull(c) PROVE SemSays'
  BY <1>5, WaitSem DEF pull
<1>6. ASSUME NEW c \in Co, fetch(c) PROVE SemSays'
  BY <1>6, WaitSem, SemStill DEF fetch
<1>7. ASSUME NEW c \in Co, NEW w \in Co, grant(c, w) PROVE SemSays'
  BY <1>7, GrantSem
<1>8. CASE UNCHANGED vars
  BY <1>8, SemStill DEF vars
<1> QED BY <1>1, <1>2, <1>3, <1>4, <1>5, <1>6, <1>7, <1>8
  DEF Next, UserStep, PushStep, PullStep, Grant

-----------------------------------------------------------------------------
(* The accounts balance after a step of c that moves what c holds.          *)
LEMMA AccountsMove ==
  ASSUME TypeOK, TypeOK', AccountsSay, NEW c \in Co, Others(c),
         (count["empty"]' - count["empty"]) + (m_size' - m_size)
           + (Bit(HasEmpty(c)') - Bit(HasEmpty(c))) = 0,
         (count["full"]' - count["full"]) + (Bit(HasFull(c)') - Bit(HasFull(c))) = m_size' - m_size,
         (count["receiver"]' - count["receiver"]) + (count["sender"]' - count["sender"])
           + (Bit(HasTurn(c)') - Bit(HasTurn(c))) = 0,
         (count["sender"]' - count["sender"]) + (Bit(HasValue(c)') - Bit(HasValue(c)))
           = m_size' - m_size
  PROVE  AccountsSay'
<1>1. /\ m_size \in Nat /\ count["empty"] \in Nat /\ count["full"] \in Nat
      /\ count["sender"] \in Nat /\ count["receiver"] \in Nat
  BY ChannelAssumption DEF TypeOK, Sem
<1>2. PICK m \in Nat, e \in Nat, f \in Nat, s \in Nat, r \in Nat :
        /\ m_size' = m /\ count["empty"]' = e /\ count["full"]' = f
        /\ count["sender"]' = s /\ count["receiver"]' = r
  <2>1. /\ m_size' \in Nat /\ count["empty"]' \in Nat /\ count["full"]' \in Nat
        /\ count["sender"]' \in Nat /\ count["receiver"]' \in Nat
    <3>1. m_size' \in 0 .. SIZE /\ count' \in [Sem -> Nat]
      BY DEF TypeOK
    <3>2. \A n \in 0 .. SIZE : n \in Nat
      BY ChannelAssumption
    <3> QED BY <3>1, <3>2 DEF Sem
  <2> QED BY <2>1
<1>3. /\ Cardinality(HoldsEmpty) \in Nat /\ Cardinality(HoldsFull) \in Nat
      /\ Cardinality(HoldsTurn) \in Nat /\ Cardinality(HoldsValue) \in Nat
  BY HoldsCounted
<1>4. m + e + Cardinality(HoldsEmpty)' = SIZE
  <2>1. PICK d \in Int : d = Bit(HasEmpty(c)') - Bit(HasEmpty(c))
    BY DEF Bit
  <2>2. Cardinality(HoldsEmpty)' = Cardinality(HoldsEmpty) + d
    BY <2>1, EmptyMove DEF Others
  <2>3. (e - count["empty"]) + (m - m_size) + d = 0
    BY <1>2, <2>1
  <2>4. m_size + count["empty"] + Cardinality(HoldsEmpty) = SIZE
    BY DEF AccountsSay
  <2> QED BY <1>1, <1>3, <2>2, <2>3, <2>4
<1>5. f + Cardinality(HoldsFull)' = m
  <2>1. PICK d \in Int : d = Bit(HasFull(c)') - Bit(HasFull(c))
    BY DEF Bit
  <2>2. Cardinality(HoldsFull)' = Cardinality(HoldsFull) + d
    BY <2>1, FullMove DEF Others
  <2>3. (f - count["full"]) + d = m - m_size
    BY <1>2, <2>1
  <2>4. count["full"] + Cardinality(HoldsFull) = m_size
    BY DEF AccountsSay
  <2> QED BY <1>1, <1>3, <2>2, <2>3, <2>4
<1>6. r + s + Cardinality(HoldsTurn)' = SIZE
  <2>1. PICK d \in Int : d = Bit(HasTurn(c)') - Bit(HasTurn(c))
    BY DEF Bit
  <2>2. Cardinality(HoldsTurn)' = Cardinality(HoldsTurn) + d
    BY <2>1, TurnMove
  <2>3. (r - count["receiver"]) + (s - count["sender"]) + d = 0
    BY <1>2, <2>1
  <2>4. count["receiver"] + count["sender"] + Cardinality(HoldsTurn) = SIZE
    BY DEF AccountsSay
  <2> QED BY <1>1, <1>3, <2>2, <2>3, <2>4
<1>7. s + Cardinality(HoldsValue)' = m
  <2>1. PICK d \in Int : d = Bit(HasValue(c)') - Bit(HasValue(c))
    BY DEF Bit
  <2>2. Cardinality(HoldsValue)' = Cardinality(HoldsValue) + d
    BY <2>1, ValueMove
  <2>3. (s - count["sender"]) + d = m - m_size
    BY <1>2, <2>1
  <2>4. count["sender"] + Cardinality(HoldsValue) = m_size
    BY DEF AccountsSay
  <2> QED BY <1>1, <1>3, <2>2, <2>3, <2>4
<1> QED BY <1>2, <1>4, <1>5, <1>6, <1>7 DEF AccountsSay

(* Each step of one coroutine, case by case.                                *)
LEMMA SoloAccounts ==
  ASSUME TypeOK, TypeOK', SelfSays, BufferAsserts', AccountsSay, NEW c \in Co, Solo(c)
  PROVE  AccountsSay'
<1> USE ChannelAssumption DEF Goto, Parked, Sem, NoSem, semVars, bufferVars, handVars
<1>0. /\ count \in [Sem -> Nat] /\ m_size \in Nat
      /\ pc \in [Co -> Pc] /\ granting \in [Co -> Sem \cup {NoSem}]
      /\ parked \in [Sem -> SUBSET Co] /\ is_exec \in [Co -> BOOLEAN]
      /\ buffer_has_value \in [Co -> BOOLEAN] /\ Others(c)
  BY OthersStay, SMTT(30) DEF TypeOK
<1>1. ASSUME close(c) PROVE AccountsSay'
  <2>1. CASE TRUE
    <3>1. ~HasEmpty(c) /\ ~HasFull(c) /\ ~HasTurn(c) /\ ~HasValue(c)
      BY <1>0, <1>1, <2>1 DEF close, HasEmpty, HasFull, HasTurn, HasValue, SelfSays,
          HandSays
    <3>2. ~HasEmpty(c)' /\ ~HasFull(c)' /\ ~HasTurn(c)' /\ ~HasValue(c)'
      BY <1>0, <1>1, <2>1 DEF close, HasEmpty, HasFull, HasTurn, HasValue, SelfSays,
          HandSays, BufferAsserts
    <3>3. count' = count /\ m_size' = m_size
      BY <1>0, <1>1, <2>1 DEF close, BufferAsserts
    <3> QED BY <1>0, <3>1, <3>2, <3>3, AccountsMove DEF Bit
  <2> QED BY <1>1, <2>1 DEF close
<1>2. ASSUME NEW v \in Val, push(c, v) PROVE AccountsSay'
  <2>1. CASE count' = [count EXCEPT !["receiver"] = @ - 1] /\ parked' = parked
    <3>1. ~HasEmpty(c) /\ ~HasFull(c) /\ ~HasTurn(c) /\ ~HasValue(c)
      BY <1>0, <1>2, <2>1 DEF push, wait, HasEmpty, HasFull, HasTurn, HasValue,
          SelfSays, HandSays
    <3>2. ~HasEmpty(c)' /\ ~HasFull(c)' /\ HasTurn(c)' /\ ~HasValue(c)'
      BY <1>0, <1>2, <2>1 DEF push, wait, HasEmpty, HasFull, HasTurn, HasValue,
          SelfSays, HandSays, BufferAsserts
    <3>3. count' = [count EXCEPT !["receiver"] = @ - 1] /\ m_size' = m_size
      BY <1>0, <1>2, <2>1 DEF push, wait, BufferAsserts
    <3> QED BY <1>0, <3>1, <3>2, <3>3, AccountsMove DEF Bit
  <2>2. CASE count' = count /\ parked' = [parked EXCEPT !["receiver"] = @ \cup {c}]
    <3>1. ~HasEmpty(c) /\ ~HasFull(c) /\ ~HasTurn(c) /\ ~HasValue(c)
      BY <1>0, <1>2, <2>2 DEF push, wait, HasEmpty, HasFull, HasTurn, HasValue,
          SelfSays, HandSays
    <3>2. ~HasEmpty(c)' /\ ~HasFull(c)' /\ ~HasTurn(c)' /\ ~HasValue(c)'
      BY <1>0, <1>2, <2>2 DEF push, wait, HasEmpty, HasFull, HasTurn, HasValue,
          SelfSays, HandSays, BufferAsserts
    <3>3. count' = count /\ m_size' = m_size
      BY <1>0, <1>2, <2>2 DEF push, wait, BufferAsserts
    <3> QED BY <1>0, <3>1, <3>2, <3>3, AccountsMove DEF Bit
  <2> QED BY <1>2, <2>1, <2>2 DEF push, wait
<1>3. ASSUME stage(c) PROVE AccountsSay'
  <2>1. CASE is_exec[c]
    <3>1. ~HasEmpty(c) /\ ~HasFull(c) /\ HasTurn(c) /\ HasValue(c)
      BY <1>0, <1>3, <2>1 DEF stage, wait, HasEmpty, HasFull, HasTurn, HasValue,
          SelfSays, HandSays
    <3>2. ~HasEmpty(c)' /\ ~HasFull(c)' /\ HasTurn(c)' /\ HasValue(c)'
      BY <1>0, <1>3, <2>1 DEF stage, wait, HasEmpty, HasFull, HasTurn, HasValue,
          SelfSays, HandSays, BufferAsserts
    <3>3. count' = count /\ m_size' = m_size
      BY <1>0, <1>3, <2>1 DEF stage, wait, BufferAsserts
    <3> QED BY <1>0, <3>1, <3>2, <3>3, AccountsMove DEF Bit
  <2>2. CASE ~is_exec[c] /\ count' = [count EXCEPT !["empty"] = @ - 1] /\ parked' = parked
    <3>1. ~HasEmpty(c) /\ ~HasFull(c) /\ HasTurn(c) /\ ~HasValue(c)
      BY <1>0, <1>3, <2>2 DEF stage, wait, HasEmpty, HasFull, HasTurn, HasValue,
          SelfSays, HandSays
    <3>2. HasEmpty(c)' /\ ~HasFull(c)' /\ HasTurn(c)' /\ ~HasValue(c)'
      BY <1>0, <1>3, <2>2 DEF stage, wait, HasEmpty, HasFull, HasTurn, HasValue,
          SelfSays, HandSays, BufferAsserts
    <3>3. count' = [count EXCEPT !["empty"] = @ - 1] /\ m_size' = m_size
      BY <1>0, <1>3, <2>2 DEF stage, wait, BufferAsserts
    <3> QED BY <1>0, <3>1, <3>2, <3>3, AccountsMove DEF Bit
  <2>3. CASE ~is_exec[c] /\ count' = count /\ parked' = [parked EXCEPT !["empty"] = @ \cup {c}]
    <3>1. ~HasEmpty(c) /\ ~HasFull(c) /\ HasTurn(c) /\ ~HasValue(c)
      BY <1>0, <1>3, <2>3 DEF stage, wait, HasEmpty, HasFull, HasTurn, HasValue,
          SelfSays, HandSays
    <3>2. ~HasEmpty(c)' /\ ~HasFull(c)' /\ HasTurn(c)' /\ ~HasValue(c)'
      BY <1>0, <1>3, <2>3 DEF stage, wait, HasEmpty, HasFull, HasTurn, HasValue,
          SelfSays, HandSays, BufferAsserts
    <3>3. count' = count /\ m_size' = m_size
      BY <1>0, <1>3, <2>3 DEF stage, wait, BufferAsserts
    <3> QED BY <1>0, <3>1, <3>2, <3>3, AccountsMove DEF Bit
  <2> QED BY <1>3, <2>1, <2>2, <2>3 DEF stage, wait
<1>4. ASSUME store(c) PROVE AccountsSay'
  <2>1. CASE TRUE
    <3>1. HasEmpty(c) /\ ~HasFull(c) /\ HasTurn(c) /\ ~HasValue(c)
      BY <1>0, <1>4, <2>1 DEF store, HasEmpty, HasFull, HasTurn, HasValue, SelfSays,
          HandSays
    <3>2. ~HasEmpty(c)' /\ HasFull(c)' /\ HasTurn(c)' /\ HasValue(c)'
      BY <1>0, <1>4, <2>1 DEF store, HasEmpty, HasFull, HasTurn, HasValue, SelfSays,
          HandSays, BufferAsserts
    <3>3. count' = count /\ m_size' = m_size + 1
      BY <1>0, <1>4, <2>1 DEF store, BufferAsserts
    <3> QED BY <1>0, <3>1, <3>2, <3>3, AccountsMove DEF Bit
  <2> QED BY <1>4, <2>1 DEF store
<1>5. ASSUME signalFull(c) PROVE AccountsSay'
  <2>1. CASE count' = [count EXCEPT !["full"] = @ + 1] /\ granting' = granting
    <3>1. ~HasEmpty(c) /\ HasFull(c) /\ HasTurn(c) /\ HasValue(c)
      BY <1>0, <1>5, <2>1 DEF signalFull, signal, HasEmpty, HasFull, HasTurn, HasValue,
          SelfSays, HandSays
    <3>2. ~HasEmpty(c)' /\ ~HasFull(c)' /\ HasTurn(c)' /\ HasValue(c)'
      BY <1>0, <1>5, <2>1 DEF signalFull, signal, HasEmpty, HasFull, HasTurn, HasValue,
          SelfSays, HandSays, BufferAsserts
    <3>3. count' = [count EXCEPT !["full"] = @ + 1] /\ m_size' = m_size
      BY <1>0, <1>5, <2>1 DEF signalFull, signal, BufferAsserts
    <3> QED BY <1>0, <3>1, <3>2, <3>3, AccountsMove DEF Bit
  <2>2. CASE count' = count /\ granting' = [granting EXCEPT ![c] = "full"]
    <3>1. ~HasEmpty(c) /\ HasFull(c) /\ HasTurn(c) /\ HasValue(c)
      BY <1>0, <1>5, <2>2 DEF signalFull, signal, HasEmpty, HasFull, HasTurn, HasValue,
          SelfSays, HandSays
    <3>2. ~HasEmpty(c)' /\ HasFull(c)' /\ HasTurn(c)' /\ HasValue(c)'
      BY <1>0, <1>5, <2>2 DEF signalFull, signal, HasEmpty, HasFull, HasTurn, HasValue,
          SelfSays, HandSays, BufferAsserts
    <3>3. count' = count /\ m_size' = m_size
      BY <1>0, <1>5, <2>2 DEF signalFull, signal, BufferAsserts
    <3> QED BY <1>0, <3>1, <3>2, <3>3, AccountsMove DEF Bit
  <2> QED BY <1>5, <2>1, <2>2 DEF signalFull, signal
<1>6. ASSUME signalSender(c) PROVE AccountsSay'
  <2>1. CASE count' = [count EXCEPT !["sender"] = @ + 1] /\ granting' = granting
    <3>1. ~HasEmpty(c) /\ ~HasFull(c) /\ HasTurn(c) /\ HasValue(c)
      BY <1>0, <1>6, <2>1 DEF signalSender, signal, HasEmpty, HasFull, HasTurn,
          HasValue, SelfSays, HandSays
    <3>2. ~HasEmpty(c)' /\ ~HasFull(c)' /\ ~HasTurn(c)' /\ ~HasValue(c)'
      BY <1>0, <1>6, <2>1 DEF signalSender, signal, HasEmpty, HasFull, HasTurn,
          HasValue, SelfSays, HandSays, BufferAsserts
    <3>3. count' = [count EXCEPT !["sender"] = @ + 1] /\ m_size' = m_size
      BY <1>0, <1>6, <2>1 DEF signalSender, signal, BufferAsserts
    <3> QED BY <1>0, <3>1, <3>2, <3>3, AccountsMove DEF Bit
  <2>2. CASE count' = count /\ granting' = [granting EXCEPT ![c] = "sender"]
    <3>1. ~HasEmpty(c) /\ ~HasFull(c) /\ HasTurn(c) /\ HasValue(c)
      BY <1>0, <1>6, <2>2 DEF signalSender, signal, HasEmpty, HasFull, HasTurn,
          HasValue, SelfSays, HandSays
    <3>2. ~HasEmpty(c)' /\ ~HasFull(c)' /\ HasTurn(c)' /\ HasValue(c)'
      BY <1>0, <1>6, <2>2 DEF signalSender, signal, HasEmpty, HasFull, HasTurn,
          HasValue, SelfSays, HandSays, BufferAsserts
    <3>3. count' = count /\ m_size' = m_size
      BY <1>0, <1>6, <2>2 DEF signalSender, signal, BufferAsserts
    <3> QED BY <1>0, <3>1, <3>2, <3>3, AccountsMove DEF Bit
  <2> QED BY <1>6, <2>1, <2>2 DEF signalSender, signal
<1>7. ASSUME pull(c) PROVE AccountsSay'
  <2>1. CASE count' = [count EXCEPT !["sender"] = @ - 1] /\ parked' = parked
    <3>1. ~HasEmpty(c) /\ ~HasFull(c) /\ ~HasTurn(c) /\ ~HasValue(c)
      BY <1>0, <1>7, <2>1 DEF pull, wait, HasEmpty, HasFull, HasTurn, HasValue,
          SelfSays, HandSays
    <3>2. ~HasEmpty(c)' /\ ~HasFull(c)' /\ HasTurn(c)' /\ HasValue(c)'
      BY <1>0, <1>7, <2>1 DEF pull, wait, HasEmpty, HasFull, HasTurn, HasValue,
          SelfSays, HandSays, BufferAsserts
    <3>3. count' = [count EXCEPT !["sender"] = @ - 1] /\ m_size' = m_size
      BY <1>0, <1>7, <2>1 DEF pull, wait, BufferAsserts
    <3> QED BY <1>0, <3>1, <3>2, <3>3, AccountsMove DEF Bit
  <2>2. CASE count' = count /\ parked' = [parked EXCEPT !["sender"] = @ \cup {c}]
    <3>1. ~HasEmpty(c) /\ ~HasFull(c) /\ ~HasTurn(c) /\ ~HasValue(c)
      BY <1>0, <1>7, <2>2 DEF pull, wait, HasEmpty, HasFull, HasTurn, HasValue,
          SelfSays, HandSays
    <3>2. ~HasEmpty(c)' /\ ~HasFull(c)' /\ ~HasTurn(c)' /\ ~HasValue(c)'
      BY <1>0, <1>7, <2>2 DEF pull, wait, HasEmpty, HasFull, HasTurn, HasValue,
          SelfSays, HandSays, BufferAsserts
    <3>3. count' = count /\ m_size' = m_size
      BY <1>0, <1>7, <2>2 DEF pull, wait, BufferAsserts
    <3> QED BY <1>0, <3>1, <3>2, <3>3, AccountsMove DEF Bit
  <2> QED BY <1>7, <2>1, <2>2 DEF pull, wait
<1>8. ASSUME signalReceiver(c) PROVE AccountsSay'
  <2>1. CASE count' = [count EXCEPT !["receiver"] = @ + 1] /\ granting' = granting
    <3>1. ~HasEmpty(c) /\ ~HasFull(c) /\ HasTurn(c) /\ HasValue(c)
      BY <1>0, <1>8, <2>1 DEF signalReceiver, signal, HasEmpty, HasFull, HasTurn,
          HasValue, SelfSays, HandSays
    <3>2. ~HasEmpty(c)' /\ ~HasFull(c)' /\ ~HasTurn(c)' /\ HasValue(c)'
      BY <1>0, <1>8, <2>1 DEF signalReceiver, signal, HasEmpty, HasFull, HasTurn,
          HasValue, SelfSays, HandSays, BufferAsserts
    <3>3. count' = [count EXCEPT !["receiver"] = @ + 1] /\ m_size' = m_size
      BY <1>0, <1>8, <2>1 DEF signalReceiver, signal, BufferAsserts
    <3> QED BY <1>0, <3>1, <3>2, <3>3, AccountsMove DEF Bit
  <2>2. CASE count' = count /\ granting' = [granting EXCEPT ![c] = "receiver"]
    <3>1. ~HasEmpty(c) /\ ~HasFull(c) /\ HasTurn(c) /\ HasValue(c)
      BY <1>0, <1>8, <2>2 DEF signalReceiver, signal, HasEmpty, HasFull, HasTurn,
          HasValue, SelfSays, HandSays
    <3>2. ~HasEmpty(c)' /\ ~HasFull(c)' /\ HasTurn(c)' /\ HasValue(c)'
      BY <1>0, <1>8, <2>2 DEF signalReceiver, signal, HasEmpty, HasFull, HasTurn,
          HasValue, SelfSays, HandSays, BufferAsserts
    <3>3. count' = count /\ m_size' = m_size
      BY <1>0, <1>8, <2>2 DEF signalReceiver, signal, BufferAsserts
    <3> QED BY <1>0, <3>1, <3>2, <3>3, AccountsMove DEF Bit
  <2> QED BY <1>8, <2>1, <2>2 DEF signalReceiver, signal
<1>9. ASSUME fetch(c) PROVE AccountsSay'
  <2>1. CASE buffer_has_value[c]
    <3>1. ~HasEmpty(c) /\ ~HasFull(c) /\ ~HasTurn(c) /\ ~HasValue(c)
      BY <1>0, <1>9, <2>1 DEF fetch, wait, HasEmpty, HasFull, HasTurn, HasValue,
          SelfSays, HandSays
    <3>2. ~HasEmpty(c)' /\ ~HasFull(c)' /\ ~HasTurn(c)' /\ ~HasValue(c)'
      BY <1>0, <1>9, <2>1 DEF fetch, wait, HasEmpty, HasFull, HasTurn, HasValue,
          SelfSays, HandSays, BufferAsserts
    <3>3. count' = count /\ m_size' = m_size
      BY <1>0, <1>9, <2>1 DEF fetch, wait, BufferAsserts
    <3> QED BY <1>0, <3>1, <3>2, <3>3, AccountsMove DEF Bit
  <2>2. CASE ~buffer_has_value[c] /\ count' = [count EXCEPT !["full"] = @ - 1] /\ parked' = parked
    <3>1. ~HasEmpty(c) /\ ~HasFull(c) /\ ~HasTurn(c) /\ HasValue(c)
      BY <1>0, <1>9, <2>2 DEF fetch, wait, HasEmpty, HasFull, HasTurn, HasValue,
          SelfSays, HandSays
    <3>2. ~HasEmpty(c)' /\ HasFull(c)' /\ ~HasTurn(c)' /\ HasValue(c)'
      BY <1>0, <1>9, <2>2 DEF fetch, wait, HasEmpty, HasFull, HasTurn, HasValue,
          SelfSays, HandSays, BufferAsserts
    <3>3. count' = [count EXCEPT !["full"] = @ - 1] /\ m_size' = m_size
      BY <1>0, <1>9, <2>2 DEF fetch, wait, BufferAsserts
    <3> QED BY <1>0, <3>1, <3>2, <3>3, AccountsMove DEF Bit
  <2>3. CASE ~buffer_has_value[c] /\ count' = count /\ parked' = [parked EXCEPT !["full"] = @ \cup {c}]
    <3>1. ~HasEmpty(c) /\ ~HasFull(c) /\ ~HasTurn(c) /\ HasValue(c)
      BY <1>0, <1>9, <2>3 DEF fetch, wait, HasEmpty, HasFull, HasTurn, HasValue,
          SelfSays, HandSays
    <3>2. ~HasEmpty(c)' /\ ~HasFull(c)' /\ ~HasTurn(c)' /\ HasValue(c)'
      BY <1>0, <1>9, <2>3 DEF fetch, wait, HasEmpty, HasFull, HasTurn, HasValue,
          SelfSays, HandSays, BufferAsserts
    <3>3. count' = count /\ m_size' = m_size
      BY <1>0, <1>9, <2>3 DEF fetch, wait, BufferAsserts
    <3> QED BY <1>0, <3>1, <3>2, <3>3, AccountsMove DEF Bit
  <2> QED BY <1>9, <2>1, <2>2, <2>3 DEF fetch, wait
<1>10. ASSUME load(c) PROVE AccountsSay'
  <2>1. CASE TRUE
    <3>1. ~HasEmpty(c) /\ HasFull(c) /\ ~HasTurn(c) /\ HasValue(c)
      BY <1>0, <1>10, <2>1 DEF load, HasEmpty, HasFull, HasTurn, HasValue, SelfSays,
          HandSays
    <3>2. HasEmpty(c)' /\ ~HasFull(c)' /\ ~HasTurn(c)' /\ ~HasValue(c)'
      BY <1>0, <1>10, <2>1 DEF load, HasEmpty, HasFull, HasTurn, HasValue, SelfSays,
          HandSays, BufferAsserts
    <3>3. count' = count /\ m_size' = m_size - 1
      BY <1>0, <1>10, <2>1 DEF load, BufferAsserts
    <3> QED BY <1>0, <3>1, <3>2, <3>3, AccountsMove DEF Bit
  <2> QED BY <1>10, <2>1 DEF load
<1>11. ASSUME signalEmpty(c) PROVE AccountsSay'
  <2>1. CASE count' = [count EXCEPT !["empty"] = @ + 1] /\ granting' = granting
    <3>1. HasEmpty(c) /\ ~HasFull(c) /\ ~HasTurn(c) /\ ~HasValue(c)
      BY <1>0, <1>11, <2>1 DEF signalEmpty, signal, HasEmpty, HasFull, HasTurn,
          HasValue, SelfSays, HandSays
    <3>2. ~HasEmpty(c)' /\ ~HasFull(c)' /\ ~HasTurn(c)' /\ ~HasValue(c)'
      BY <1>0, <1>11, <2>1 DEF signalEmpty, signal, HasEmpty, HasFull, HasTurn,
          HasValue, SelfSays, HandSays, BufferAsserts
    <3>3. count' = [count EXCEPT !["empty"] = @ + 1] /\ m_size' = m_size
      BY <1>0, <1>11, <2>1 DEF signalEmpty, signal, BufferAsserts
    <3> QED BY <1>0, <3>1, <3>2, <3>3, AccountsMove DEF Bit
  <2>2. CASE count' = count /\ granting' = [granting EXCEPT ![c] = "empty"]
    <3>1. HasEmpty(c) /\ ~HasFull(c) /\ ~HasTurn(c) /\ ~HasValue(c)
      BY <1>0, <1>11, <2>2 DEF signalEmpty, signal, HasEmpty, HasFull, HasTurn,
          HasValue, SelfSays, HandSays
    <3>2. HasEmpty(c)' /\ ~HasFull(c)' /\ ~HasTurn(c)' /\ ~HasValue(c)'
      BY <1>0, <1>11, <2>2 DEF signalEmpty, signal, HasEmpty, HasFull, HasTurn,
          HasValue, SelfSays, HandSays, BufferAsserts
    <3>3. count' = count /\ m_size' = m_size
      BY <1>0, <1>11, <2>2 DEF signalEmpty, signal, BufferAsserts
    <3> QED BY <1>0, <3>1, <3>2, <3>3, AccountsMove DEF Bit
  <2> QED BY <1>11, <2>1, <2>2 DEF signalEmpty, signal
<1> QED BY <1>1, <1>2, <1>3, <1>4, <1>5, <1>6, <1>7, <1>8, <1>9, <1>10, <1>11
  DEF Solo, UserStep, PushStep, PullStep

(* A grant hands what the signaller holds to the coroutine it wakes.        *)
LEMMA GrantAccounts ==
  ASSUME TypeOK, SelfSays, AccountsSay, NEW c \in Co, NEW w \in Co, grant(c, w)
  PROVE  AccountsSay'
<1> PICK s \in Sem : s = granting[c]
  BY DEF TypeOK, grant
<1>0. /\ pc' = pc /\ count' = count /\ m_size' = m_size
      /\ pc \in [Co -> Pc] /\ granting \in [Co -> Sem \cup {NoSem}]
      /\ parked \in [Sem -> SUBSET Co] /\ is_exec \in [Co -> BOOLEAN]
      /\ buffer_has_value \in [Co -> BOOLEAN]
      /\ w \in parked[s] /\ parked' = [parked EXCEPT ![s] = @ \ {w}]
      /\ granting' = [granting EXCEPT ![c] = NoSem]
      /\ s = "receiver" => /\ is_exec' = [is_exec EXCEPT ![w] = TRUE]
                           /\ buffer_has_value' = [buffer_has_value EXCEPT ![c] = TRUE]
      /\ s # "receiver" => is_exec' = is_exec /\ buffer_has_value' = buffer_has_value
  BY DEF TypeOK, grant, callback, bufferVars, handVars
<1>1. /\ s = "receiver" => /\ pc[c] = "fetch" /\ ~buffer_has_value[c]
                           /\ pc[w] = "stage" /\ ~is_exec[w]
      /\ s = "full"     => pc[c] = "signalSender" /\ pc[w] = "load"
      /\ s = "sender"   => pc[c] = "idle" /\ pc[w] = "signalReceiver"
      /\ s = "empty"    => pc[c] = "idle" /\ pc[w] = "store"
  BY <1>0 DEF SelfSays, ParkedSays, GrantSays
<1>2. c # w /\ s \in {"receiver", "full", "sender", "empty"}
  BY <1>1 DEF Sem
<1>3. granting[w] = NoSem
  BY <1>0, <1>1 DEF SelfSays, GrantSays, Sem, NoSem
<1>4. /\ \A y \in Co : granting'[y] = IF y = c THEN NoSem ELSE granting[y]
      /\ \A t \in Sem, y \in Co : y \in parked'[t] <=> y \in parked[t] /\ ~(t = s /\ y = w)
      /\ \A y \in Co : is_exec'[y] = IF s = "receiver" /\ y = w THEN TRUE ELSE is_exec[y]
      /\ \A y \in Co : buffer_has_value'[y]
                         = IF s = "receiver" /\ y = c THEN TRUE ELSE buffer_has_value[y]
  BY <1>0
<1>5. Cardinality(HoldsEmpty)' = Cardinality(HoldsEmpty)
  <2>1. HoldsEmpty \in SUBSET Co /\ HoldsEmpty' \in SUBSET Co
    BY DEF HoldsEmpty
  <2>2. \A y \in Co \ {c, w} : y \in HoldsEmpty' <=> y \in HoldsEmpty
    BY <1>0, <1>4 DEF HoldsEmpty, HasEmpty, Sem
  <2>3. \/ c \in HoldsEmpty /\ w \notin HoldsEmpty /\ c \notin HoldsEmpty' /\ w \in HoldsEmpty'
        \/ (c \in HoldsEmpty <=> c \in HoldsEmpty') /\ (w \in HoldsEmpty <=> w \in HoldsEmpty')
    BY <1>0, <1>1, <1>2, <1>3, <1>4 DEF HoldsEmpty, HasEmpty, Sem, NoSem
  <2> QED BY <1>2, <2>1, <2>2, <2>3, Swapped
<1>6. Cardinality(HoldsFull)' = Cardinality(HoldsFull)
  <2>1. HoldsFull \in SUBSET Co /\ HoldsFull' \in SUBSET Co
    BY DEF HoldsFull
  <2>2. \A y \in Co \ {c, w} : y \in HoldsFull' <=> y \in HoldsFull
    BY <1>0, <1>4 DEF HoldsFull, HasFull, Sem
  <2>3. \/ c \in HoldsFull /\ w \notin HoldsFull /\ c \notin HoldsFull' /\ w \in HoldsFull'
        \/ (c \in HoldsFull <=> c \in HoldsFull') /\ (w \in HoldsFull <=> w \in HoldsFull')
    BY <1>0, <1>1, <1>2, <1>3, <1>4 DEF HoldsFull, HasFull, Sem, NoSem
  <2> QED BY <1>2, <2>1, <2>2, <2>3, Swapped
<1>7. Cardinality(HoldsTurn)' = Cardinality(HoldsTurn)
  <2>1. HoldsTurn \in SUBSET Co /\ HoldsTurn' \in SUBSET Co
    BY DEF HoldsTurn
  <2>2. \A y \in Co \ {c, w} : y \in HoldsTurn' <=> y \in HoldsTurn
    BY <1>0, <1>4 DEF HoldsTurn, HasTurn, Sem
  <2>3. \/ c \in HoldsTurn /\ w \notin HoldsTurn /\ c \notin HoldsTurn' /\ w \in HoldsTurn'
        \/ (c \in HoldsTurn <=> c \in HoldsTurn') /\ (w \in HoldsTurn <=> w \in HoldsTurn')
    BY <1>0, <1>1, <1>2, <1>3, <1>4 DEF HoldsTurn, HasTurn, Sem, NoSem
  <2> QED BY <1>2, <2>1, <2>2, <2>3, Swapped
<1>8. Cardinality(HoldsValue)' = Cardinality(HoldsValue)
  <2>1. HoldsValue \in SUBSET Co /\ HoldsValue' \in SUBSET Co
    BY DEF HoldsValue
  <2>2. \A y \in Co \ {c, w} : y \in HoldsValue' <=> y \in HoldsValue
    BY <1>0, <1>4 DEF HoldsValue, HasValue, Sem
  <2>3. \/ c \in HoldsValue /\ w \notin HoldsValue /\ c \notin HoldsValue' /\ w \in HoldsValue'
        \/ (c \in HoldsValue <=> c \in HoldsValue') /\ (w \in HoldsValue <=> w \in HoldsValue')
    BY <1>0, <1>1, <1>2, <1>3, <1>4 DEF HoldsValue, HasValue, Sem, NoSem
  <2> QED BY <1>2, <2>1, <2>2, <2>3, Swapped
<1> QED BY <1>0, <1>5, <1>6, <1>7, <1>8 DEF AccountsSay

(* The accounts after every step.                                           *)
LEMMA AccountsStep ==
  ASSUME TypeOK, TypeOK', SelfSays, BufferAsserts', AccountsSay, [Next]_vars
  PROVE  AccountsSay'
<1>1. ASSUME NEW c \in Co, Solo(c) PROVE AccountsSay'
  BY <1>1, SoloAccounts
<1>2. ASSUME NEW c \in Co, Grant(c) PROVE AccountsSay'
  BY <1>2, GrantAccounts DEF Grant
<1>3. CASE UNCHANGED vars
  BY <1>3 DEF vars, semVars, bufferVars, handVars, AccountsSay, HoldsEmpty, HoldsFull,
              HoldsTurn, HoldsValue, HasEmpty, HasFull, HasTurn, HasValue
<1> QED BY <1>1, <1>2, <1>3 DEF Next, Solo

-----------------------------------------------------------------------------
(* The inductive invariant.                                                 *)
LEMMA InitChannelInv == Init => ChannelInv
<1> SUFFICES ASSUME Init PROVE ChannelInv
  OBVIOUS
<1> USE ChannelAssumption
<1>1. TypeOK
  <2>1. SemTypes
    <3>1. count \in [Sem -> Nat]
      BY DEF Init
    <3>2. waiters \in [Sem -> Nat] /\ parked \in [Sem -> SUBSET Co]
      BY DEF Init
    <3> QED BY <3>1, <3>2 DEF Init, SemTypes
  <2>2. pc \in [Co -> Pc]
    BY DEF Init, Pc
  <2>3. DataTypes
    <3>1. m_data \in [0 .. SIZE - 1 -> Val \cup {NoVal}]
      BY DEF Init
    <3>2. front \in 0 .. SIZE - 1 /\ rear \in 0 .. SIZE - 1 /\ m_size \in 0 .. SIZE
      BY DEF Init
    <3> QED BY <3>1, <3>2 DEF Init, DataTypes
  <2> QED BY <2>1, <2>2, <2>3, TypesAre
<1>2. SelfSays
  BY DEF Init, SelfSays, ParkedSays, GrantSays, HandSays, BufferAsserts, Sem, NoSem
<1>3. RingSays
  <2>1. (0 + 0) % SIZE = 0
    BY ModSum
  <2> QED BY <2>1 DEF Init, RingSays, Between
<1>4. OnceSays
  BY DEF Init, OnceSays
<1>5. AccountsSay
  <2>1. HoldsEmpty = {} /\ HoldsFull = {} /\ HoldsTurn = {} /\ HoldsValue = {}
    BY DEF Init, HoldsEmpty, HoldsFull, HoldsTurn, HoldsValue, HasEmpty, HasFull, HasTurn,
           HasValue, NoSem
  <2>2. /\ count["receiver"] = SIZE /\ count["empty"] = SIZE
        /\ count["sender"] = 0 /\ count["full"] = 0 /\ m_size = 0
    BY DEF Init, Sem
  <2> QED BY <2>1, <2>2, FS_EmptySet DEF AccountsSay
<1>6. SemSays
  <2>1. \A s \in Sem : Owes(s) = {} /\ parked[s] = {} /\ waiters[s] = 0
    BY DEF Init, Owes, Sem, NoSem
  <2> QED BY <2>1, FS_EmptySet DEF SemSays, Surplus
<1> QED BY <1>1, <1>2, <1>3, <1>4, <1>5, <1>6 DEF ChannelInv

(* Every step keeps it.                                                     *)
LEMMA NextChannelInv == ChannelInv /\ [Next]_vars => ChannelInv'
<1> SUFFICES ASSUME ChannelInv, [Next]_vars PROVE ChannelInv'
  OBVIOUS
<1>0. TypeOK /\ SelfSays /\ RingSays /\ OnceSays /\ AccountsSay /\ SemSays
  BY DEF ChannelInv
<1>1. TypeOK'
  BY <1>0, TypeStep
<1>2. BufferAsserts'
  BY <1>0, BufferStep
<1>3. ParkedSays' /\ GrantSays' /\ HandSays'
  BY <1>0, <1>2, ParkedStep, GrantStep, HandStep
<1>4. RingSays' /\ OnceSays'
  BY <1>0, TypesAre, DataMoves, RingMove, OnceMove
<1>5. AccountsSay' /\ SemSays'
  BY <1>0, <1>1, <1>2, AccountsStep, SemStep
<1> QED BY <1>1, <1>2, <1>3, <1>4, <1>5 DEF ChannelInv, SelfSays

(* It holds in every state.                                                 *)
LEMMA SpecChannelInv == Spec => []ChannelInv
BY InitChannelInv, NextChannelInv, PTL DEF Spec

-----------------------------------------------------------------------------
(* Every variable of push, pull and their semaphores keeps its type: no     *)
(* count goes below zero, and front and rear stay inside the array.         *)
THEOREM ChannelTypes == Spec => []TypeOK
<1>1. ChannelInv => TypeOK
  BY DEF ChannelInv
<1> QED BY <1>1, SpecChannelInv, PTL

(* assert(buffer.push(x)) and assert(buffer.pop(ans)) never fail, however   *)
(* many coroutines push and pull and whatever the size of the buffer: who   *)
(* gets past empty holds a free slot, and who gets past full a filled one,  *)
(* although receiver is signalled while the slot is still taken.            *)
THEOREM BufferNeverFails == Spec => []BufferAsserts
<1>1. ChannelInv => BufferAsserts
  BY DEF ChannelInv, SelfSays
<1> QED BY <1>1, SpecChannelInv, PTL

(* No value is in two places: with its pusher, in the buffer or with its    *)
(* puller; handed over by the callback it is in no slot, and no slot        *)
(* between front and rear is without one.                                   *)
LEMMA OnceEverywhere ==
  ASSUME DataTypes, RingSays, OnceSays
  PROVE  EachValueOnce
<1>1. \A i \in Filled : i \in 0 .. SIZE - 1 /\ m_data[i] # NoVal
  BY FilledSlot, FilledBetween DEF RingSays
<1>2. \A a \in Co : At(<<"x", a>>) = x[a] /\ At(<<"ans", a>>) = ans[a]
  BY DEF At
<1>3. \A i \in Filled : At(<<"slot", i>>) = m_data[i]
  BY DEF At
<1>4. ASSUME NEW p \in Places, NEW q \in Places, p # q, At(p) # NoVal
      PROVE  At(p) # At(q)
  <2>0. \A r \in Places : \/ \E a \in Co : r = <<"x", a>>
                          \/ \E a \in Co : r = <<"ans", a>>
                          \/ \E i \in Filled : r = <<"slot", i>>
    BY DEF Places
  <2>1. \A r \in Places : \/ \E a \in Co : r = <<"x", a>> /\ At(r) = x[a]
                          \/ \E a \in Co : r = <<"ans", a>> /\ At(r) = ans[a]
                          \/ \E i \in Filled : r = <<"slot", i>> /\ At(r) = m_data[i]
    BY <1>2, <1>3, <2>0
  <2>2. ASSUME NEW a \in Co, p = <<"x", a>>, At(p) = x[a]
       PROVE  At(p) # At(q)
    <3>1. ASSUME NEW b \in Co, q = <<"x", b>>, At(q) = x[b]
          PROVE  At(p) # At(q)
      <4>1. x[a] # NoVal /\ a # b
        BY <1>4, <2>2, <3>1
      <4> QED BY <1>1, <2>2, <3>1, <4>1 DEF OnceSays
    <3>2. ASSUME NEW b \in Co, q = <<"ans", b>>, At(q) = ans[b]
          PROVE  At(p) # At(q)
      <4>1. x[a] # NoVal
        BY <1>4, <2>2, <3>2
      <4> QED BY <1>1, <2>2, <3>2, <4>1 DEF OnceSays
    <3>3. ASSUME NEW j \in Filled, q = <<"slot", j>>, At(q) = m_data[j]
          PROVE  At(p) # At(q)
      <4>1. x[a] # NoVal
        BY <1>4, <2>2, <3>3
      <4> QED BY <1>1, <2>2, <3>3, <4>1 DEF OnceSays
    <3> QED BY <2>1, <3>1, <3>2, <3>3
  <2>3. ASSUME NEW a \in Co, p = <<"ans", a>>, At(p) = ans[a]
       PROVE  At(p) # At(q)
    <3>1. ASSUME NEW b \in Co, q = <<"x", b>>, At(q) = x[b]
          PROVE  At(p) # At(q)
      <4>1. ans[a] # NoVal
        BY <1>4, <2>3, <3>1
      <4> QED BY <1>1, <2>3, <3>1, <4>1 DEF OnceSays
    <3>2. ASSUME NEW b \in Co, q = <<"ans", b>>, At(q) = ans[b]
          PROVE  At(p) # At(q)
      <4>1. ans[a] # NoVal /\ a # b
        BY <1>4, <2>3, <3>2
      <4> QED BY <1>1, <2>3, <3>2, <4>1 DEF OnceSays
    <3>3. ASSUME NEW j \in Filled, q = <<"slot", j>>, At(q) = m_data[j]
          PROVE  At(p) # At(q)
      <4>1. ans[a] # NoVal
        BY <1>4, <2>3, <3>3
      <4> QED BY <1>1, <2>3, <3>3, <4>1 DEF OnceSays
    <3> QED BY <2>1, <3>1, <3>2, <3>3
  <2>4. ASSUME NEW i \in Filled, p = <<"slot", i>>, At(p) = m_data[i]
       PROVE  At(p) # At(q)
    <3>1. ASSUME NEW b \in Co, q = <<"x", b>>, At(q) = x[b]
          PROVE  At(p) # At(q)
      <4>1. m_data[i] # NoVal
        BY <1>4, <2>4, <3>1
      <4> QED BY <1>1, <2>4, <3>1, <4>1 DEF OnceSays
    <3>2. ASSUME NEW b \in Co, q = <<"ans", b>>, At(q) = ans[b]
          PROVE  At(p) # At(q)
      <4>1. m_data[i] # NoVal
        BY <1>4, <2>4, <3>2
      <4> QED BY <1>1, <2>4, <3>2, <4>1 DEF OnceSays
    <3>3. ASSUME NEW j \in Filled, q = <<"slot", j>>, At(q) = m_data[j]
          PROVE  At(p) # At(q)
      <4>1. m_data[i] # NoVal /\ i # j
        BY <1>4, <2>4, <3>3
      <4> QED BY <1>1, <2>4, <3>3, <4>1 DEF OnceSays
    <3> QED BY <2>1, <3>1, <3>2, <3>3
  <2> QED BY <2>1, <2>2, <2>3, <2>4
<1> QED BY <1>1, <1>4 DEF EachValueOnce

(* The same of every state of the channel.                                  *)
THEOREM ValuesOnce == Spec => []EachValueOnce
<1>1. ChannelInv => EachValueOnce
  BY OnceEverywhere, TypesAre DEF ChannelInv
<1> QED BY <1>1, SpecChannelInv, PTL

-----------------------------------------------------------------------------
(* When no wakeup is owed, a semaphore somebody waits on has no count.      *)
LEMMA WaitedOnEmpty ==
  ASSUME TypeOK, SemSays, Settled, NEW s \in Sem, NEW c \in parked[s]
  PROVE  count[s] = 0
<1>1. Owes(s) = {}
  BY DEF Settled, Owes, Sem, NoSem
<1>2. Cardinality(parked[s]) \in Nat /\ Cardinality(parked[s]) > 0
  BY Somebody DEF TypeOK
<1>3. waiters[s] > 0
  <2>1. waiters[s] \in Nat /\ waiters[s] + Cardinality(Owes(s)) - Cardinality(parked[s]) = 0
    BY DEF TypeOK, SemSays, Surplus
  <2>2. Cardinality(Owes(s)) = 0
    BY <1>1, FS_EmptySet
  <2> QED BY <1>2, <2>1, <2>2
<1> QED BY <1>3 DEF SemSays

(* The accounts of a settled channel: nobody holds a slot, so the slots are *)
(* in the counts; who has a turn waits for a slot, and who is due a value   *)
(* waits for it.                                                            *)
LEMMA SettledAccounts ==
  ASSUME ChannelInv, Settled
  PROVE  /\ m_size + count["empty"] = SIZE /\ count["full"] = m_size
         /\ parked["empty"] = {} => count["receiver"] + count["sender"] = SIZE
         /\ parked["full"] = {} => count["sender"] = m_size
<1> USE DEF ChannelInv, SelfSays
<1>1. /\ count["empty"] \in Nat /\ count["full"] \in Nat /\ count["sender"] \in Nat
      /\ count["receiver"] \in Nat /\ m_size \in Nat
  BY ChannelAssumption DEF TypeOK, Sem
<1>2. \A c \in Co : /\ granting[c] = NoSem
                    /\ \/ pc[c] = "idle"
                       \/ pc[c] = "stage" /\ ~is_exec[c] /\ c \in parked["receiver"]
                       \/ pc[c] = "store" /\ c \in parked["empty"]
                       \/ pc[c] = "signalReceiver" /\ c \in parked["sender"]
                       \/ pc[c] = "load" /\ c \in parked["full"]
  BY DEF Settled, Parked, ParkedSays, Sem
<1>3. HoldsEmpty = {} /\ HoldsFull = {}
  BY <1>2 DEF HoldsEmpty, HasEmpty, HoldsFull, HasFull, NoSem
<1>4. parked["empty"] = {} => HoldsTurn = {}
  BY <1>2 DEF HoldsTurn, HasTurn, NoSem
<1>5. parked["full"] = {} => HoldsValue = {}
  BY <1>2 DEF HoldsValue, HasValue, NoSem
<1>6. Cardinality({}) = 0
  BY FS_EmptySet
<1>7. m_size + count["empty"] = SIZE /\ count["full"] = m_size
  <2>1. /\ m_size + count["empty"] + Cardinality(HoldsEmpty) = SIZE
        /\ count["full"] + Cardinality(HoldsFull) = m_size
    BY DEF AccountsSay
  <2> QED BY <1>1, <1>3, <1>6, <2>1
<1>8. parked["empty"] = {} => count["receiver"] + count["sender"] = SIZE
  <2> SUFFICES ASSUME parked["empty"] = {} PROVE count["receiver"] + count["sender"] = SIZE
    OBVIOUS
  <2>1. count["receiver"] + count["sender"] + Cardinality(HoldsTurn) = SIZE
    BY DEF AccountsSay
  <2>2. Cardinality(HoldsTurn) = 0
    BY <1>4, <1>6
  <2> QED BY <1>1, <2>1, <2>2
<1>9. parked["full"] = {} => count["sender"] = m_size
  <2>1. count["sender"] + Cardinality(HoldsValue) = m_size
    BY DEF AccountsSay
  <2> QED BY <1>1, <1>5, <1>6, <2>1
<1> QED BY <1>7, <1>8, <1>9

(* A push that waits with nobody under way waits for room, and a pull for a *)
(* value: a waiter's semaphore has no count, and the counts of a settled    *)
(* channel are its slots.                                                   *)
LEMMA SettledForgetsNobody ==
  ASSUME ChannelInv
  PROVE  NobodyForgotten
<1> SUFFICES ASSUME Settled
             PROVE  /\ Pushing # {} => m_size = SIZE
                    /\ Pulling # {} => m_size = 0
  BY DEF NobodyForgotten
<1>0. /\ TypeOK /\ SemSays /\ SIZE \in Nat
      /\ count["empty"] \in Nat /\ count["full"] \in Nat /\ count["sender"] \in Nat
      /\ count["receiver"] \in Nat /\ m_size \in 0 .. SIZE
      /\ {"sender", "receiver", "full", "empty"} = Sem
      /\ \A s \in Sem : parked[s] # {} => count[s] = 0
  <2>1. TypeOK /\ SemSays
    BY DEF ChannelInv
  <2>2. \A s \in Sem : parked[s] # {} => count[s] = 0
    BY <2>1, WaitedOnEmpty
  <2> QED BY <2>1, <2>2, ChannelAssumption DEF TypeOK, Sem
<1>1. /\ m_size + count["empty"] = SIZE /\ count["full"] = m_size
      /\ parked["empty"] = {} => count["receiver"] + count["sender"] = SIZE
      /\ parked["full"] = {} => count["sender"] = m_size
  BY SettledAccounts
<1>2. ASSUME NEW c \in Pushing PROVE m_size = SIZE
  <2>1. CASE parked["empty"] # {}
    <3>1. count["empty"] = 0
      BY <1>0, <2>1
    <3> QED BY <1>0, <1>1, <3>1
  <2>2. CASE parked["empty"] = {}
    <3>1. parked["receiver"] # {}
      BY <1>2, <2>2 DEF Pushing
    <3>2. count["receiver"] = 0
      BY <1>0, <3>1
    <3>3. count["sender"] = SIZE
      BY <1>0, <1>1, <2>2, <3>2
    <3>4. CASE parked["full"] = {}
      BY <1>1, <3>3, <3>4
    <3>5. CASE parked["full"] # {}
      <4>1. m_size = 0
        BY <1>0, <1>1, <3>5
      <4>2. count["sender"] + Cardinality(HoldsValue) = m_size
        BY DEF ChannelInv, AccountsSay
      <4> QED BY <1>0, <3>3, <4>1, <4>2, HoldsCounted
    <3> QED BY <3>4, <3>5
  <2> QED BY <2>1, <2>2
<1>3. ASSUME NEW c \in Pulling PROVE m_size = 0
  <2>1. CASE parked["full"] # {}
    BY <1>0, <1>1, <2>1
  <2>2. CASE parked["full"] = {}
    <3>1. parked["sender"] # {}
      BY <1>3, <2>2 DEF Pulling
    <3> QED BY <1>0, <1>1, <2>2, <3>1
  <2> QED BY <2>1, <2>2
<1> QED BY <1>2, <1>3

(* No coroutine waits for what is there, in any state of the channel.       *)
THEOREM NobodyWaitsForNothing == Spec => []NobodyForgotten
<1>1. ChannelInv => NobodyForgotten
  BY SettledForgetsNobody
<1> QED BY <1>1, SpecChannelInv, PTL

-----------------------------------------------------------------------------
(* Where a value that circulates is.                                        *)
Kept(v) == \/ \E a \in Co : x[a] = v
           \/ \E a \in Co : ans[a] = v
           \/ \E i \in 0 .. SIZE - 1 : m_data[i] = v

(* A value circulates exactly when a coroutine or the ring holds it.        *)
LEMMA CirculatingKept ==
  ASSUME DataTypes, RingSays, NEW v \in Val
  PROVE  v \in Circulating <=> Kept(v)
<1>1. v # NoVal
  BY ChannelAssumption
<1>2. \A i \in Filled : i \in 0 .. SIZE - 1
  BY FilledSlot
<1>3. ASSUME NEW i \in 0 .. SIZE - 1, m_data[i] = v PROVE i \in Filled
  BY <1>1, <1>3, FilledBetween DEF RingSays
<1> QED BY <1>2, <1>3 DEF Circulating, Kept

KeptSays == \A v \in Val : v \in Circulating <=> Kept(v)

LEMMA CirculatingKeptNext == DataTypes' /\ RingSays' => KeptSays'
<1>1. DataTypes /\ RingSays => KeptSays
  BY CirculatingKept DEF KeptSays
<1> QED BY <1>1, PTL

(* A value is kept unless a pull returns it or a push_for withdraws it:     *)
(* the ring and the callback write where no value is.                       *)
LEMMA ValueStays ==
  ASSUME DataTypes, RingSays, DataMove, NEW v \in Val, Kept(v),
         ~\E c \in Co : \/ ans[c] = v /\ ReturnsTrue(c)
                        \/ x[c] = v /\ ReturnsFalse(c)
  PROVE  Kept(v)'
<1>0. /\ x \in [Co -> Val \cup {NoVal}] /\ ans \in [Co -> Val \cup {NoVal}]
      /\ m_data \in [0 .. SIZE - 1 -> Val \cup {NoVal}]
      /\ front \in 0 .. SIZE - 1 /\ rear \in 0 .. SIZE - 1 /\ v # NoVal
  BY ChannelAssumption DEF DataTypes
<1>1. CASE UNCHANGED <<x, ans, bufferVars>>
  BY <1>1 DEF Kept, bufferVars
<1>2. ASSUME NEW c \in Co, NEW u \in Val, NewValue(c, u) PROVE Kept(v)'
  <2>1. ans' = ans /\ m_data' = m_data /\ (\A a \in Co : x[a] = v => x'[a] = v)
    BY <1>0, <1>2 DEF NewValue, bufferVars
  <2> QED BY <2>1 DEF Kept
<1>3. ASSUME NEW c \in Co, Stored(c) PROVE Kept(v)'
  <2>1. /\ ans' = ans /\ m_data'[rear] = x[c]
        /\ \A a \in Co : a # c => x'[a] = x[a]
        /\ \A i \in 0 .. SIZE - 1 : i # rear => m_data'[i] = m_data[i]
    BY <1>0, <1>3 DEF Stored
  <2>2. m_data[rear] = NoVal
    BY <1>3, RearFree DEF Stored
  <2> QED BY <1>0, <2>1, <2>2 DEF Kept
<1>4. ASSUME NEW c \in Co, Loaded(c) PROVE Kept(v)'
  <2>1. /\ x' = x /\ ans'[c] = m_data[front] /\ ans[c] = NoVal
        /\ \A a \in Co : a # c => ans'[a] = ans[a]
        /\ \A i \in 0 .. SIZE - 1 : i # front => m_data'[i] = m_data[i]
    BY <1>0, <1>4 DEF Loaded
  <2> QED BY <1>0, <2>1 DEF Kept
<1>5. ASSUME NEW c \in Co, NEW w \in Co, Handed(c, w) PROVE Kept(v)'
  <2>1. /\ m_data' = m_data /\ ans'[c] = x[w] /\ ans[c] = NoVal
        /\ \A a \in Co : a # c => ans'[a] = ans[a]
        /\ \A a \in Co : a # w => x'[a] = x[a]
    BY <1>0, <1>5 DEF Handed, bufferVars
  <2> QED BY <1>0, <2>1 DEF Kept
<1>6. ASSUME NEW c \in Co, Returned(c) \/ Withdrawn(c) PROVE Kept(v)'
  <2>1. /\ m_data' = m_data
        /\ \A a \in Co : x[a] = v => x'[a] = v
        /\ \A a \in Co : ans[a] = v => ans'[a] = v
    BY <1>0, <1>6 DEF Returned, Withdrawn, bufferVars
  <2> QED BY <2>1 DEF Kept
<1> QED BY <1>1, <1>2, <1>3, <1>4, <1>5, <1>6 DEF DataMove

(* A value ceases to circulate only then.                                   *)
LEMMA ValueGone ==
  ASSUME DataTypes, RingSays, DataMove, DataTypes', RingSays',
         NEW v \in Val, v \in Circulating, v \notin Circulating'
  PROVE  \E c \in Co : \/ ans[c] = v /\ ReturnsTrue(c)
                       \/ x[c] = v /\ ReturnsFalse(c)
<1>1. Kept(v)
  BY CirculatingKept
<1>2. ~Kept(v)'
  BY CirculatingKeptNext DEF KeptSays
<1> QED BY <1>1, <1>2, ValueStays

(* In a channel without timed waits: only when the pull that holds it       *)
(* returns.                                                                 *)
THEOREM ValuesNeverLost == Spec => NeverLost
<1>1. ASSUME ChannelInv, ChannelInv', [Next]_vars,
             NEW v \in Val, v \in Circulating, v \notin Circulating'
      PROVE  \E c \in Co : ans[c] = v /\ Returns(c)
  <2>1. TypeOK /\ RingSays /\ DataMove
    BY <1>1, DataMoves DEF ChannelInv
  <2>2. DataTypes /\ DataTypes' /\ RingSays'
    BY <1>1, <2>1, TypesAre, TypesAreNext DEF ChannelInv
  <2>3. PICK c \in Co : (ans[c] = v /\ ReturnsTrue(c)) \/ ReturnsFalse(c)
    BY <1>1, <2>1, <2>2, ValueGone
  <2>4. pc[c] \in Pc
    BY <2>1 DEF TypeOK
  <2> QED BY <2>3, <2>4 DEF Pc, Returns, ReturnsTrue, ReturnsFalse
<1>2. ChannelInv /\ ChannelInv' /\ [Next]_vars
        => [\A v \in Val : v \in Circulating /\ v \notin Circulating'
              => \E c \in Co : ans[c] = v /\ Returns(c)]_vars
  BY <1>1
<1> QED BY <1>2, SpecChannelInv, PTL DEF Spec, NeverLost

-----------------------------------------------------------------------------
(***************************************************************************)
(* The channel with timed waits: the assertions on the buffer hold, and    *)
(* what a call reports of its value is what happened to it.                *)
(*                                                                         *)
(* The timed waits are on sender and receiver, whose accounts they         *)
(* unbalance.  The slots are accounted for by empty and full alone.        *)
(***************************************************************************)

(* A coroutine waits only where it has called wait or wait_for.             *)
TimedParked ==
  /\ \A c \in parked["receiver"] : pc[c] \in {"stage", "pushFor"}
  /\ \A c \in parked["empty"] : pc[c] = "store"
  /\ \A c \in parked["sender"] : pc[c] \in {"signalReceiver", "pullFor"}
  /\ \A c \in parked["full"] : pc[c] = "load"

(* A signaller of full or empty that owes a wakeup has got no further.      *)
SlotGranting ==
  \A c \in Co : /\ granting[c] = "full" => pc[c] = "signalSender"
                /\ granting[c] = "empty" => pc[c] = "idle"

(* The timed waits are those on receiver and sender.                        *)
TimedIn == timed \subseteq parked["receiver"] \cup parked["sender"]

(* No timer has anything to do with empty and full.                         *)
SlotsUntimed ==
  \A s \in {"empty", "full"} : stale[s] = 0 /\ owed[s] = 0

(* The accounts of the slots.                                               *)
SlotsSay ==
  /\ m_size + count["empty"] + Cardinality(HoldsEmpty) = SIZE
  /\ count["full"] + Cardinality(HoldsFull) = m_size

(* The types, in parts.                                                     *)
TimedPc == Pc \cup {"pushFor", "pullFor", "fetchFor"}

StepTypes == m_size \in 0 .. SIZE /\ pc \in [Co -> TimedPc]

TimerTypes == stale \in [Sem -> Nat] /\ owed \in [Sem -> Nat]

CallTypes ==
  /\ timedOut \subseteq Co
  /\ rounds \in [Co -> 0 .. Rounds]
  /\ sent \in [Co -> Val \cup {NoVal}]
  /\ tally \in [Val -> Int]

TimedPlaces == TimedParked /\ SlotGranting /\ TimedIn /\ SlotsUntimed

TimedInv == SemTypes /\ StepTypes /\ TimerTypes /\ CallTypes /\ TimedPlaces
            /\ BufferAsserts /\ SlotsSay

-----------------------------------------------------------------------------
(* What a step is to the semaphores and the buffer: a wait, a signal, a     *)
(* move between them, a store or a load, or the end of a signal.            *)
WaitMove(c) ==
  /\ \/ Goto(c, "idle", "stage") /\ wait(c, "receiver")
     \/ Goto(c, "stage", "store") /\ wait(c, "empty")
     \/ Goto(c, "idle", "signalReceiver") /\ wait(c, "sender")
     \/ Goto(c, "fetch", "load") /\ wait(c, "full")
     \/ Goto(c, "idle", "pushFor") /\ wait(c, "receiver")
     \/ Goto(c, "idle", "pullFor") /\ wait(c, "sender")
  /\ timed' \subseteq timed \cup (parked'["receiver"] \cup parked'["sender"])
  /\ UNCHANGED <<m_size, stale, owed>>

SignalMove(c) ==
  /\ \/ Goto(c, "signalFull", "signalSender") /\ signal(c, "full")
     \/ Goto(c, "signalSender", "idle") /\ signal(c, "sender")
     \/ Goto(c, "signalReceiver", "fetch") /\ signal(c, "receiver")
     \/ Goto(c, "signalEmpty", "idle") /\ signal(c, "empty")
     \/ Goto(c, "pullFor", "fetchFor") /\ signal(c, "receiver")
  /\ UNCHANGED <<m_size, timed, stale, owed>>

PlainMove(c) ==
  /\ \/ Goto(c, "stage", "signalSender") \/ Goto(c, "fetch", "idle")
     \/ Goto(c, "pushFor", "idle") \/ Goto(c, "pullFor", "idle") \/ Goto(c, "fetchFor", "idle")
  /\ UNCHANGED <<semVars, m_size, timed, stale, owed>>

BufferMove(c) ==
  /\ \/ Goto(c, "store", "signalFull") /\ m_size < SIZE /\ m_size' = m_size + 1
     \/ Goto(c, "load", "signalEmpty") /\ m_size > 0 /\ m_size' = m_size - 1
     \/ Goto(c, "store", "abort") /\ m_size = SIZE /\ UNCHANGED m_size
     \/ Goto(c, "load", "abort") /\ m_size = 0 /\ UNCHANGED m_size
  /\ UNCHANGED <<semVars, timed, stale, owed>>

Move(c) == WaitMove(c) \/ SignalMove(c) \/ PlainMove(c) \/ BufferMove(c)

(* Whoever starts a timed wait is parked where it waits.                    *)
LEMMA TimedWaits ==
  ASSUME SemTypes, NEW c \in Co, NEW s \in {"receiver", "sender"}, wait_for(c, s)
  PROVE  timed' \subseteq timed \cup (parked'["receiver"] \cup parked'["sender"])
<1>1. CASE count[s] > 0
  BY <1>1 DEF wait_for
<1>2. CASE ~(count[s] > 0)
  <2>1. timed' = timed \cup {c}
    BY <1>2 DEF wait_for
  <2>2. parked' = [parked EXCEPT ![s] = @ \cup {c}]
    BY <1>2 DEF wait_for, wait
  <2>3. c \in parked'[s]
    BY <2>2 DEF SemTypes, Sem
  <2> QED BY <2>1, <2>3
<1> QED BY <1>1, <1>2

(* Every step of one coroutine is a Move.                                   *)
LEMMA Moves ==
  ASSUME SemTypes, TimedNext
  PROVE  \/ \E c \in Co : Move(c)
         \/ \E c \in Co : timed_grant(c)
         \/ \E c \in Co, s \in Sem : timeout(c, s)
         \/ \E s \in Sem : timer_grant(s)
<1> USE DEF timedVars, bufferVars
<1>1. ASSUME NEW c \in Co, PlainStep(c) PROVE Move(c)
  <2>1. CASE pull(c) /\ UNCHANGED timedVars
    BY <2>1 DEF pull, Move, WaitMove
  <2>2. CASE \E v \in Val \ Circulating : push(c, v) /\ UNCHANGED timedVars
    BY <2>2 DEF push, Move, WaitMove
  <2>3. CASE PushStep(c) /\ UNCHANGED timedVars
    BY <2>3 DEF PushStep, stage, store, signalFull, signalSender, semVars,
                Move, WaitMove, SignalMove, PlainMove, BufferMove
  <2>4. CASE PullStep(c) /\ UNCHANGED timedVars
    BY <2>4 DEF PullStep, signalReceiver, fetch, load, signalEmpty, semVars,
                Move, WaitMove, SignalMove, PlainMove, BufferMove
  <2> QED BY <1>1, <2>1, <2>2, <2>3, <2>4 DEF PlainStep
<1>2. ASSUME NEW c \in Co, pull_for(c) PROVE Move(c)
  BY <1>2, TimedWaits DEF pull_for, wait_for, Move, WaitMove
<1>3. ASSUME NEW c \in Co, NEW v \in Val, push_for(c, v) PROVE Move(c)
  BY <1>3, TimedWaits DEF push_for, wait_for, Move, WaitMove
<1>4. ASSUME NEW c \in Co, push_for_return(c) \/ pull_for_wait(c) \/ pull_for_end(c)
      PROVE  Move(c)
  BY <1>4 DEF push_for_return, pull_for_wait, pull_for_end, ReturnFalse, Move, SignalMove,
              PlainMove, semVars
<1> QED BY <1>1, <1>2, <1>3, <1>4 DEF TimedNext, TimedStep

-----------------------------------------------------------------------------
(* The types of the calls, which no other part of the invariant needs.      *)
LEMMA CallsStep ==
  ASSUME CallTypes, SemTypes, TimedNext
  PROVE  CallTypes'
<1> USE TimedChannelAssumption DEF CallTypes
<1>0. ASSUME NEW c \in Co, Called(c) PROVE rounds' \in [Co -> 0 .. Rounds]
  <2>1. rounds[c] - 1 \in 0 .. Rounds
    BY <1>0 DEF Called
  <2> QED BY <1>0, <2>1 DEF Called
<1>1. ASSUME NEW c \in Co, PlainStep(c) PROVE CallTypes'
  BY <1>0, <1>1 DEF PlainStep, timedVars, testVars
<1>2. ASSUME NEW c \in Co, pull_for(c) PROVE CallTypes'
  BY <1>0, <1>2 DEF pull_for, wait_for
<1>3. ASSUME NEW c \in Co, NEW v \in Val, push_for(c, v) PROVE CallTypes'
  BY <1>0, <1>3 DEF push_for, wait_for
<1>4. ASSUME NEW c \in Co, push_for_return(c) PROVE CallTypes'
  <2>1. tally' \in [Val -> Int]
    <3>1. tally' = [tally EXCEPT ![sent[c]] = @ + 1]
      BY <1>4 DEF push_for_return
    <3>2. CASE sent[c] \in Val
      <4>1. tally[sent[c]] + 1 \in Int
        BY <3>2
      <4> QED BY <3>1, <4>1
    <3>3. CASE sent[c] \notin Val
      BY <3>1, <3>3
    <3> QED BY <3>2, <3>3
  <2> QED BY <1>4, <2>1 DEF push_for_return, timedVars
<1>5. ASSUME NEW c \in Co, pull_for_wait(c) \/ pull_for_end(c) PROVE CallTypes'
  BY <1>5 DEF pull_for_wait, pull_for_end, ReturnFalse, timedVars
<1>6. ASSUME NEW c \in Co, timed_grant(c) PROVE CallTypes'
  BY <1>6 DEF timed_grant, drop_stale, testVars
<1>7. ASSUME NEW c \in Co, NEW s \in Sem, timeout(c, s) PROVE CallTypes'
  BY <1>7 DEF timeout, testVars
<1>8. ASSUME NEW s \in Sem, timer_grant(s) PROVE CallTypes'
  BY <1>8 DEF timer_grant, drop_stale, testVars
<1> QED BY <1>1, <1>2, <1>3, <1>4, <1>5, <1>6, <1>7, <1>8 DEF TimedNext, TimedStep

(* The types of the semaphores, the timers, the buffer and pc.              *)
LEMMA MoveTypes ==
  ASSUME SemTypes, StepTypes, TimerTypes, NEW c \in Co, Move(c)
  PROVE  SemTypes' /\ StepTypes' /\ TimerTypes'
<1>1. TimerTypes'
  BY DEF TimerTypes, Move, WaitMove, SignalMove, PlainMove, BufferMove
<1>2. m_size' \in 0 .. SIZE
  BY ChannelAssumption DEF StepTypes, Move, WaitMove, SignalMove, PlainMove, BufferMove
<1>3. pc' \in [Co -> TimedPc]
  BY DEF StepTypes, TimedPc, Pc, Goto, Move, WaitMove, SignalMove, PlainMove, BufferMove
<1>4. SemTypes'
  <2>1. CASE WaitMove(c)
    BY <2>1, WaitTypes DEF WaitMove, Sem
  <2>2. CASE SignalMove(c)
    BY <2>2, SignalTypes DEF SignalMove, Sem
  <2>3. CASE PlainMove(c) \/ BufferMove(c)
    BY <2>3 DEF PlainMove, BufferMove, semVars, SemTypes
  <2> QED BY <2>1, <2>2, <2>3 DEF Move
<1> QED BY <1>1, <1>2, <1>3, <1>4 DEF StepTypes

(* The same of a grant, a timeout and the signal of a timer.                *)
LEMMA GrantTypes ==
  ASSUME SemTypes, StepTypes, TimerTypes, NEW c \in Co, timed_grant(c)
  PROVE  SemTypes' /\ StepTypes' /\ TimerTypes'
<1> PICK s \in Sem : s = granting[c]
  BY DEF SemTypes, timed_grant
<1>1. StepTypes'
  BY DEF timed_grant, grant, StepTypes, bufferVars
<1>2. CASE /\ drop_stale(s) /\ granting' = [granting EXCEPT ![c] = NoSem]
           /\ UNCHANGED <<count, waiters, owed>>
  <2>1. stale[s] - 1 \in Nat
    BY <1>2 DEF drop_stale, TimerTypes
  <2> QED BY <1>1, <1>2, <2>1 DEF drop_stale, SemTypes, TimerTypes
<1>3. CASE \E w \in Pickable(s) : grant(c, w) /\ UNCHANGED <<stale, owed>>
  BY <1>1, <1>3 DEF grant, SemTypes, TimerTypes
<1> QED BY <1>2, <1>3 DEF timed_grant

LEMMA TimeoutTypes ==
  ASSUME SemTypes, StepTypes, TimerTypes, NEW c \in Co, NEW s \in Sem, timeout(c, s)
  PROVE  SemTypes' /\ StepTypes' /\ TimerTypes'
<1>1. StepTypes'
  BY DEF timeout, StepTypes, bufferVars
<1>2. /\ parked' \in [Sem -> SUBSET Co] /\ stale' \in [Sem -> Nat] /\ granting' = granting
  BY DEF timeout, SemTypes, TimerTypes
<1>3. CASE /\ waiters[s] > 0 /\ waiters' = [waiters EXCEPT ![s] = @ - 1]
           /\ owed' = [owed EXCEPT ![s] = @ + 1] /\ UNCHANGED count
  <2>1. waiters[s] - 1 \in Nat /\ owed[s] + 1 \in Nat
    BY <1>3 DEF SemTypes, TimerTypes
  <2> QED BY <1>1, <1>2, <1>3, <2>1 DEF SemTypes, TimerTypes
<1>4. CASE count' = [count EXCEPT ![s] = @ + 1] /\ UNCHANGED <<waiters, owed>>
  <2>1. count[s] + 1 \in Nat
    BY DEF SemTypes
  <2> QED BY <1>1, <1>2, <1>4, <2>1 DEF SemTypes, TimerTypes
<1> QED BY <1>3, <1>4 DEF timeout

LEMMA TimerGrantTypes ==
  ASSUME SemTypes, StepTypes, TimerTypes, NEW s \in Sem, timer_grant(s)
  PROVE  SemTypes' /\ StepTypes' /\ TimerTypes'
<1>1. StepTypes'
  BY DEF timer_grant, StepTypes, bufferVars
<1>2. owed[s] - 1 \in Nat /\ (stale[s] > 0 => stale[s] - 1 \in Nat)
  BY DEF timer_grant, TimerTypes
<1>3. TimerTypes'
  BY <1>2 DEF timer_grant, drop_stale, TimerTypes
<1>4. SemTypes'
  BY DEF timer_grant, drop_stale, SemTypes
<1> QED BY <1>1, <1>3, <1>4

-----------------------------------------------------------------------------
(* Where the coroutines wait, and for what.                                 *)
LEMMA PlacesMove ==
  ASSUME SemTypes, StepTypes, TimedPlaces, NEW c \in Co, Move(c)
  PROVE  TimedPlaces'
<1> USE DEF TimedPlaces, Goto, Parked, Sem, NoSem
<1>0. /\ pc \in [Co -> TimedPc] /\ parked \in [Sem -> SUBSET Co]
      /\ granting \in [Co -> Sem \cup {NoSem}] /\ waiters \in [Sem -> Nat]
      /\ count \in [Sem -> Nat]
  BY DEF SemTypes, StepTypes
<1>1. SlotsUntimed'
  BY DEF Move, WaitMove, SignalMove, PlainMove, BufferMove, SlotsUntimed
<1>2. CASE WaitMove(c)
  <2>1. granting' = granting /\ \A s \in Sem : parked[s] \subseteq parked'[s]
    BY <1>0, <1>2 DEF WaitMove, wait
  <2>2. TimedIn'
    BY <1>2, <2>1 DEF WaitMove, TimedIn
  <2>3. TimedParked'
    BY <1>0, <1>2 DEF WaitMove, wait, TimedParked
  <2>4. SlotGranting'
    BY <1>0, <1>2 DEF WaitMove, wait, SlotGranting
  <2> QED BY <1>1, <2>2, <2>3, <2>4
<1>3. CASE SignalMove(c)
  BY <1>0, <1>1, <1>3 DEF SignalMove, signal, TimedIn, TimedParked, SlotGranting
<1>4. CASE PlainMove(c) \/ BufferMove(c)
  BY <1>0, <1>1, <1>4 DEF PlainMove, BufferMove, semVars, TimedIn, TimedParked, SlotGranting
<1> QED BY <1>2, <1>3, <1>4 DEF Move

(* A grant unparks one coroutine.                                           *)
LEMMA PlacesGrant ==
  ASSUME SemTypes, StepTypes, TimerTypes, TimedPlaces, NEW c \in Co, timed_grant(c)
  PROVE  TimedPlaces'
<1> USE DEF TimedPlaces, Sem, NoSem
<1>0. /\ pc' = pc /\ parked \in [Sem -> SUBSET Co] /\ granting \in [Co -> Sem \cup {NoSem}]
      /\ granting' = [granting EXCEPT ![c] = NoSem] /\ owed' = owed /\ stale \in [Sem -> Nat]
  BY DEF SemTypes, TimerTypes, timed_grant, grant
<1>1. SlotGranting'
  BY <1>0 DEF SlotGranting
<1> PICK s \in Sem : s = granting[c]
  BY DEF SemTypes, timed_grant
<1>2. CASE drop_stale(s)
  <2>1. s \notin {"empty", "full"}
    BY <1>2 DEF drop_stale, SlotsUntimed
  <2> QED BY <1>0, <1>1, <1>2, <2>1 DEF drop_stale, TimedIn, TimedParked, SlotsUntimed
<1>3. CASE \E w \in Pickable(s) : grant(c, w) /\ timed' = timed \ {w} /\ UNCHANGED stale
  <2> PICK w \in Pickable(s) : grant(c, w) /\ timed' = timed \ {w} /\ UNCHANGED stale
    BY <1>3
  <2>1. parked' = [parked EXCEPT ![s] = @ \ {w}]
    BY DEF grant
  <2> QED BY <1>0, <1>1, <2>1 DEF TimedIn, TimedParked, SlotsUntimed
<1> QED BY <1>2, <1>3 DEF timed_grant

(* Timeouts and the signals of timers are about receiver and sender.        *)
LEMMA PlacesTimer ==
  ASSUME SemTypes, StepTypes, TimerTypes, TimedPlaces, NEW s \in Sem,
         timer_grant(s) \/ \E c \in Co : timeout(c, s)
  PROVE  TimedPlaces' /\ s \notin {"empty", "full"}
<1> USE DEF TimedPlaces, Sem
<1>0. /\ pc' = pc /\ granting' = granting /\ parked \in [Sem -> SUBSET Co]
      /\ stale \in [Sem -> Nat] /\ owed \in [Sem -> Nat]
  BY DEF SemTypes, TimerTypes, timer_grant, timeout
<1>1. SlotGranting'
  BY <1>0 DEF SlotGranting
<1>2. CASE timer_grant(s)
  <2>1. s \notin {"empty", "full"}
    BY <1>2 DEF timer_grant, SlotsUntimed
  <2>2. SlotsUntimed'
    BY <1>0, <1>2, <2>1 DEF timer_grant, drop_stale, SlotsUntimed
  <2>3. TimedIn' /\ TimedParked'
    BY <1>0, <1>2 DEF timer_grant, drop_stale, TimedIn, TimedParked
  <2> QED BY <1>1, <2>1, <2>2, <2>3
<1>3. ASSUME NEW c \in Co, timeout(c, s)
      PROVE  TimedPlaces' /\ s \notin {"empty", "full"}
  <2>1. c \in timed /\ c \in parked[s] /\ timed' = timed \ {c}
        /\ parked' = [parked EXCEPT ![s] = @ \ {c}]
    BY <1>3 DEF timeout
  <2>2. s \notin {"empty", "full"}
    BY <2>1 DEF TimedIn, TimedParked
  <2>3. SlotsUntimed'
    BY <1>0, <1>3, <2>2 DEF timeout, SlotsUntimed
  <2>4. TimedIn' /\ TimedParked'
    BY <1>0, <2>1 DEF TimedIn, TimedParked
  <2> QED BY <1>1, <2>2, <2>3, <2>4
<1> QED BY <1>2, <1>3

-----------------------------------------------------------------------------
(* Who may store holds an empty slot, and who may load a full one.          *)
LEMMA TimedBufferStep ==
  ASSUME SemTypes, StepTypes, SlotsSay, BufferAsserts, TimedNext
  PROVE  BufferAsserts'
<1> USE ChannelAssumption DEF BufferAsserts
<1>0. /\ m_size \in Nat /\ count["empty"] \in Nat /\ count["full"] \in Nat
      /\ pc \in [Co -> TimedPc]
  BY DEF SemTypes, StepTypes, Sem
<1>1. ASSUME NEW c \in Co, pc[c] = "store", ~Parked(c) PROVE m_size < SIZE
  <2>1. c \in HoldsEmpty
    BY <1>1 DEF HoldsEmpty, HasEmpty, Parked, Sem
  <2>2. Cardinality(HoldsEmpty) \in Nat /\ Cardinality(HoldsEmpty) > 0
    BY <2>1, Somebody DEF HoldsEmpty
  <2>3. m_size + count["empty"] + Cardinality(HoldsEmpty) = SIZE
    BY DEF SlotsSay
  <2> QED BY <1>0, <2>2, <2>3
<1>2. ASSUME NEW c \in Co, pc[c] = "load", ~Parked(c) PROVE m_size > 0
  <2>1. c \in HoldsFull
    BY <1>2 DEF HoldsFull, HasFull, Parked, Sem
  <2>2. Cardinality(HoldsFull) \in Nat /\ Cardinality(HoldsFull) > 0
    BY <2>1, Somebody DEF HoldsFull
  <2>3. count["full"] + Cardinality(HoldsFull) = m_size
    BY DEF SlotsSay
  <2> QED BY <1>0, <2>2, <2>3
<1>3. ASSUME NEW c \in Co, Move(c) PROVE BufferAsserts'
  BY <1>0, <1>1, <1>2, <1>3 DEF Goto, Move, WaitMove, SignalMove, PlainMove, BufferMove
<1>4. ASSUME UNCHANGED pc PROVE BufferAsserts'
  BY <1>4
<1> QED BY <1>3, <1>4, Moves DEF timed_grant, grant, timeout, timer_grant

-----------------------------------------------------------------------------
(* The slots after a move of c.                                             *)
LEMMA MoveStays ==
  ASSUME SemTypes, StepTypes, NEW c \in Co, Move(c)
  PROVE  OthersPlaces(c)
<1> USE DEF OthersPlaces, Goto, SemTypes, StepTypes, Sem, semVars
<1>1. CASE WaitMove(c)
  BY <1>1 DEF WaitMove, wait
<1>2. CASE SignalMove(c)
  BY <1>2 DEF SignalMove, signal
<1>3. CASE PlainMove(c) \/ BufferMove(c)
  BY <1>3 DEF PlainMove, BufferMove
<1> QED BY <1>1, <1>2, <1>3 DEF Move

(* The numbers in which the accounts of the slots change.                   *)
LEMMA SlotsMove ==
  ASSUME SemTypes, StepTypes, SemTypes', StepTypes', SlotsSay, NEW c \in Co, OthersPlaces(c),
         (count["empty"]' - count["empty"]) + (m_size' - m_size)
           + (Bit(HasEmpty(c)') - Bit(HasEmpty(c))) = 0,
         (count["full"]' - count["full"]) + (Bit(HasFull(c)') - Bit(HasFull(c))) = m_size' - m_size
  PROVE  SlotsSay'
<1>1. /\ m_size \in Nat /\ count["empty"] \in Nat /\ count["full"] \in Nat
  BY ChannelAssumption DEF SemTypes, StepTypes, Sem
<1>2. PICK m \in Nat, e \in Nat, f \in Nat :
        m_size' = m /\ count["empty"]' = e /\ count["full"]' = f
  <2>1. m_size' \in Nat /\ count["empty"]' \in Nat /\ count["full"]' \in Nat
    <3>1. m_size' \in 0 .. SIZE /\ count' \in [Sem -> Nat]
      BY DEF SemTypes, StepTypes
    <3>2. \A n \in 0 .. SIZE : n \in Nat
      BY ChannelAssumption
    <3> QED BY <3>1, <3>2 DEF Sem
  <2> QED BY <2>1
<1>3. Cardinality(HoldsEmpty) \in Nat /\ Cardinality(HoldsFull) \in Nat
  BY HoldsCounted
<1>4. m + e + Cardinality(HoldsEmpty)' = SIZE
  <2>1. PICK d \in Int : d = Bit(HasEmpty(c)') - Bit(HasEmpty(c))
    BY DEF Bit
  <2>2. Cardinality(HoldsEmpty)' = Cardinality(HoldsEmpty) + d
    BY <2>1, EmptyMove
  <2>3. (e - count["empty"]) + (m - m_size) + d = 0
    BY <1>2, <2>1
  <2>4. m_size + count["empty"] + Cardinality(HoldsEmpty) = SIZE
    BY DEF SlotsSay
  <2> QED BY <1>1, <1>3, <2>2, <2>3, <2>4
<1>5. f + Cardinality(HoldsFull)' = m
  <2>1. PICK d \in Int : d = Bit(HasFull(c)') - Bit(HasFull(c))
    BY DEF Bit
  <2>2. Cardinality(HoldsFull)' = Cardinality(HoldsFull) + d
    BY <2>1, FullMove
  <2>3. (f - count["full"]) + d = m - m_size
    BY <1>2, <2>1
  <2>4. count["full"] + Cardinality(HoldsFull) = m_size
    BY DEF SlotsSay
  <2> QED BY <1>1, <1>3, <2>2, <2>3, <2>4
<1> QED BY <1>2, <1>4, <1>5 DEF SlotsSay

(* The accounts of the slots after a move.                                  *)
LEMMA MoveSlots ==
  ASSUME SemTypes, StepTypes, SemTypes', StepTypes', SlotsSay, BufferAsserts',
         NEW c \in Co, Move(c)
  PROVE  SlotsSay'
<1> USE DEF Goto, Parked, Sem, NoSem
<1>0. /\ count \in [Sem -> Nat] /\ m_size \in Nat
      /\ pc \in [Co -> TimedPc] /\ granting \in [Co -> Sem \cup {NoSem}]
      /\ parked \in [Sem -> SUBSET Co] /\ OthersPlaces(c)
  BY MoveStays, ChannelAssumption DEF SemTypes, StepTypes
<1>1. CASE WaitMove(c)
  <2>1. CASE Goto(c, "stage", "store") /\ wait(c, "empty")
    <3>1. CASE count' = [count EXCEPT !["empty"] = @ - 1] /\ UNCHANGED <<parked, granting>>
      <4>1. ~HasEmpty(c) /\ ~HasFull(c) /\ HasEmpty(c)' /\ ~HasFull(c)'
        BY <1>0, <1>1, <2>1, <3>1 DEF HasEmpty, HasFull
      <4>2. m_size' = m_size
        BY <1>1 DEF WaitMove
      <4> QED BY <1>0, <3>1, <4>1, <4>2, SlotsMove DEF Bit
    <3>2. CASE parked' = [parked EXCEPT !["empty"] = @ \cup {c}] /\ UNCHANGED <<count, granting>>
      <4>1. ~HasEmpty(c) /\ ~HasFull(c) /\ ~HasEmpty(c)' /\ ~HasFull(c)'
        BY <1>0, <1>1, <2>1, <3>2 DEF HasEmpty, HasFull
      <4>2. m_size' = m_size
        BY <1>1 DEF WaitMove
      <4> QED BY <1>0, <3>2, <4>1, <4>2, SlotsMove DEF Bit
    <3> QED BY <2>1, <3>1, <3>2 DEF wait
  <2>2. CASE Goto(c, "fetch", "load") /\ wait(c, "full")
    <3>1. CASE count' = [count EXCEPT !["full"] = @ - 1] /\ UNCHANGED <<parked, granting>>
      <4>1. ~HasEmpty(c) /\ ~HasFull(c) /\ ~HasEmpty(c)' /\ HasFull(c)'
        BY <1>0, <1>1, <2>2, <3>1 DEF HasEmpty, HasFull
      <4>2. m_size' = m_size
        BY <1>1 DEF WaitMove
      <4> QED BY <1>0, <3>1, <4>1, <4>2, SlotsMove DEF Bit
    <3>2. CASE parked' = [parked EXCEPT !["full"] = @ \cup {c}] /\ UNCHANGED <<count, granting>>
      <4>1. ~HasEmpty(c) /\ ~HasFull(c) /\ ~HasEmpty(c)' /\ ~HasFull(c)'
        BY <1>0, <1>1, <2>2, <3>2 DEF HasEmpty, HasFull
      <4>2. m_size' = m_size
        BY <1>1 DEF WaitMove
      <4> QED BY <1>0, <3>2, <4>1, <4>2, SlotsMove DEF Bit
    <3> QED BY <2>2, <3>1, <3>2 DEF wait
  <2>3. ASSUME NEW s \in {"receiver", "sender"}, wait(c, s),
               \/ Goto(c, "idle", "stage") \/ Goto(c, "idle", "signalReceiver")
               \/ Goto(c, "idle", "pushFor") \/ Goto(c, "idle", "pullFor")
        PROVE  SlotsSay'
    <3>1. ~HasEmpty(c) /\ ~HasFull(c) /\ ~HasEmpty(c)' /\ ~HasFull(c)'
      BY <1>0, <2>3 DEF HasEmpty, HasFull, wait
    <3>2. m_size' = m_size /\ count'["empty"] = count["empty"] /\ count'["full"] = count["full"]
      BY <1>0, <1>1, <2>3 DEF WaitMove, wait
    <3> QED BY <1>0, <3>1, <3>2, SlotsMove DEF Bit
  <2> QED BY <1>1, <2>1, <2>2, <2>3 DEF WaitMove
<1>2. CASE SignalMove(c)
  <2>1. CASE Goto(c, "signalFull", "signalSender") /\ signal(c, "full")
    <3>1. CASE count' = [count EXCEPT !["full"] = @ + 1] /\ UNCHANGED <<parked, granting>>
      <4>1. ~HasEmpty(c) /\ HasFull(c) /\ ~HasEmpty(c)' /\ ~HasFull(c)'
        BY <1>0, <1>2, <2>1, <3>1 DEF HasEmpty, HasFull
      <4>2. m_size' = m_size
        BY <1>2 DEF SignalMove
      <4> QED BY <1>0, <3>1, <4>1, <4>2, SlotsMove DEF Bit
    <3>2. CASE granting' = [granting EXCEPT ![c] = "full"] /\ UNCHANGED <<count, parked>>
      <4>1. ~HasEmpty(c) /\ HasFull(c) /\ ~HasEmpty(c)' /\ HasFull(c)'
        BY <1>0, <1>2, <2>1, <3>2 DEF HasEmpty, HasFull
      <4>2. m_size' = m_size
        BY <1>2 DEF SignalMove
      <4> QED BY <1>0, <3>2, <4>1, <4>2, SlotsMove DEF Bit
    <3> QED BY <2>1, <3>1, <3>2 DEF signal
  <2>2. CASE Goto(c, "signalEmpty", "idle") /\ signal(c, "empty")
    <3>1. CASE count' = [count EXCEPT !["empty"] = @ + 1] /\ UNCHANGED <<parked, granting>>
      <4>1. HasEmpty(c) /\ ~HasFull(c) /\ ~HasEmpty(c)' /\ ~HasFull(c)'
        BY <1>0, <1>2, <2>2, <3>1 DEF HasEmpty, HasFull
      <4>2. m_size' = m_size
        BY <1>2 DEF SignalMove
      <4> QED BY <1>0, <3>1, <4>1, <4>2, SlotsMove DEF Bit
    <3>2. CASE granting' = [granting EXCEPT ![c] = "empty"] /\ UNCHANGED <<count, parked>>
      <4>1. HasEmpty(c) /\ ~HasFull(c) /\ HasEmpty(c)' /\ ~HasFull(c)'
        BY <1>0, <1>2, <2>2, <3>2 DEF HasEmpty, HasFull
      <4>2. m_size' = m_size
        BY <1>2 DEF SignalMove
      <4> QED BY <1>0, <3>2, <4>1, <4>2, SlotsMove DEF Bit
    <3> QED BY <2>2, <3>1, <3>2 DEF signal
  <2>3. ASSUME NEW s \in {"receiver", "sender"}, signal(c, s),
               \/ Goto(c, "signalSender", "idle") \/ Goto(c, "signalReceiver", "fetch")
               \/ Goto(c, "pullFor", "fetchFor")
        PROVE  SlotsSay'
    <3>1. ~HasEmpty(c) /\ ~HasFull(c) /\ ~HasEmpty(c)' /\ ~HasFull(c)'
      BY <1>0, <2>3 DEF HasEmpty, HasFull, signal
    <3>2. m_size' = m_size /\ count'["empty"] = count["empty"] /\ count'["full"] = count["full"]
      BY <1>0, <1>2, <2>3 DEF SignalMove, signal
    <3> QED BY <1>0, <3>1, <3>2, SlotsMove DEF Bit
  <2> QED BY <1>2, <2>1, <2>2, <2>3 DEF SignalMove
<1>3. CASE PlainMove(c)
  <2>1. ~HasEmpty(c) /\ ~HasFull(c) /\ ~HasEmpty(c)' /\ ~HasFull(c)'
    BY <1>0, <1>3 DEF PlainMove, HasEmpty, HasFull, semVars
  <2>2. m_size' = m_size /\ count' = count
    BY <1>3 DEF PlainMove, semVars
  <2> QED BY <1>0, <2>1, <2>2, SlotsMove DEF Bit
<1>4. CASE BufferMove(c)
  <2>0. pc'[c] # "abort" /\ count' = count /\ granting' = granting /\ parked' = parked
    BY <1>4 DEF BufferAsserts, BufferMove, semVars
  <2>1. CASE Goto(c, "store", "signalFull") /\ m_size' = m_size + 1
    <3>1. HasEmpty(c) /\ ~HasFull(c) /\ ~HasEmpty(c)' /\ HasFull(c)'
      BY <1>0, <2>0, <2>1 DEF HasEmpty, HasFull
    <3> QED BY <1>0, <2>0, <2>1, <3>1, SlotsMove DEF Bit
  <2>2. CASE Goto(c, "load", "signalEmpty") /\ m_size' = m_size - 1
    <3>1. ~HasEmpty(c) /\ HasFull(c) /\ HasEmpty(c)' /\ ~HasFull(c)'
      BY <1>0, <2>0, <2>2 DEF HasEmpty, HasFull
    <3> QED BY <1>0, <2>0, <2>2, <3>1, SlotsMove DEF Bit
  <2> QED BY <1>0, <1>4, <2>0, <2>1, <2>2 DEF BufferMove
<1> QED BY <1>1, <1>2, <1>3, <1>4 DEF Move

(* The end of a signal hands the slot over, or is not about a slot.         *)
LEMMA GrantSlots ==
  ASSUME SemTypes, StepTypes, TimerTypes, TimedPlaces, SlotsSay, NEW c \in Co, timed_grant(c)
  PROVE  SlotsSay'
<1> PICK s \in Sem : s = granting[c]
  BY DEF SemTypes, timed_grant
<1>0. /\ pc' = pc /\ count' = count /\ m_size' = m_size
      /\ granting' = [granting EXCEPT ![c] = NoSem]
      /\ pc \in [Co -> TimedPc] /\ granting \in [Co -> Sem \cup {NoSem}]
      /\ parked \in [Sem -> SUBSET Co]
      /\ \A y \in Co : granting'[y] = IF y = c THEN NoSem ELSE granting[y]
  BY DEF SemTypes, StepTypes, timed_grant, grant, bufferVars
<1>1. ASSUME s \notin {"empty", "full"},
             parked'["empty"] = parked["empty"], parked'["full"] = parked["full"]
      PROVE  SlotsSay'
  <2>1. HoldsEmpty' = HoldsEmpty /\ HoldsFull' = HoldsFull
    BY <1>0, <1>1 DEF HoldsEmpty, HoldsFull, HasEmpty, HasFull, NoSem
  <2> QED BY <1>0, <2>1 DEF SlotsSay
<1>2. CASE drop_stale(s)
  <2>1. s \notin {"empty", "full"}
    BY <1>2 DEF drop_stale, TimedPlaces, SlotsUntimed
  <2> QED BY <1>1, <1>2, <2>1 DEF drop_stale
<1>3. ASSUME NEW w \in parked[s], parked' = [parked EXCEPT ![s] = @ \ {w}],
             s \in {"empty", "full"}
      PROVE  SlotsSay'
  <2>1. /\ s = "empty" => pc[c] = "idle" /\ pc[w] = "store"
        /\ s = "full" => pc[c] = "signalSender" /\ pc[w] = "load"
    BY <1>0, <1>3 DEF TimedPlaces, TimedParked, SlotGranting
  <2>2. c # w /\ w \in Co
    BY <1>0, <1>3, <2>1
  <2>3. \A t \in Sem, y \in Co : y \in parked'[t] <=> y \in parked[t] /\ ~(t = s /\ y = w)
    BY <1>0, <1>3
  <2>4. granting[w] \notin {"empty", "full"}
    BY <1>3, <2>1, <2>2 DEF TimedPlaces, SlotGranting
  <2>5. Cardinality(HoldsEmpty)' = Cardinality(HoldsEmpty)
    <3>1. HoldsEmpty \in SUBSET Co /\ HoldsEmpty' \in SUBSET Co
      BY DEF HoldsEmpty
    <3>2. \A y \in Co \ {c, w} : y \in HoldsEmpty' <=> y \in HoldsEmpty
      BY <1>0, <2>3 DEF HoldsEmpty, HasEmpty, Sem
    <3>3. \/ c \in HoldsEmpty /\ w \notin HoldsEmpty /\ c \notin HoldsEmpty' /\ w \in HoldsEmpty'
          \/ (c \in HoldsEmpty <=> c \in HoldsEmpty') /\ (w \in HoldsEmpty <=> w \in HoldsEmpty')
      BY <1>0, <1>3, <2>1, <2>2, <2>3, <2>4 DEF HoldsEmpty, HasEmpty, Sem, NoSem
    <3> QED BY <2>2, <3>1, <3>2, <3>3, Swapped
  <2>6. Cardinality(HoldsFull)' = Cardinality(HoldsFull)
    <3>1. HoldsFull \in SUBSET Co /\ HoldsFull' \in SUBSET Co
      BY DEF HoldsFull
    <3>2. \A y \in Co \ {c, w} : y \in HoldsFull' <=> y \in HoldsFull
      BY <1>0, <2>3 DEF HoldsFull, HasFull, Sem
    <3>3. \/ c \in HoldsFull /\ w \notin HoldsFull /\ c \notin HoldsFull' /\ w \in HoldsFull'
          \/ (c \in HoldsFull <=> c \in HoldsFull') /\ (w \in HoldsFull <=> w \in HoldsFull')
      BY <1>0, <1>3, <2>1, <2>2, <2>3, <2>4 DEF HoldsFull, HasFull, Sem, NoSem
    <3> QED BY <2>2, <3>1, <3>2, <3>3, Swapped
  <2> QED BY <1>0, <2>5, <2>6 DEF SlotsSay
<1>4. CASE \E w \in Pickable(s) : grant(c, w)
  <2> PICK w \in Pickable(s) : grant(c, w)
    BY <1>4
  <2>1. w \in parked[s] /\ parked' = [parked EXCEPT ![s] = @ \ {w}]
    BY DEF grant
  <2>2. CASE s \in {"empty", "full"}
    BY <1>3, <2>1, <2>2
  <2>3. CASE s \notin {"empty", "full"}
    BY <1>0, <1>1, <2>1, <2>3 DEF Sem
  <2> QED BY <2>2, <2>3
<1> QED BY <1>2, <1>4 DEF timed_grant

(* A timer changes no slot.                                                 *)
LEMMA TimerSlots ==
  ASSUME SemTypes, StepTypes, TimerTypes, TimedPlaces, SlotsSay, NEW s \in Sem,
         timer_grant(s) \/ \E c \in Co : timeout(c, s)
  PROVE  SlotsSay'
<1>1. s \notin {"empty", "full"}
  BY PlacesTimer
<1>2. /\ pc' = pc /\ granting' = granting /\ m_size' = m_size
      /\ count'["empty"] = count["empty"] /\ count'["full"] = count["full"]
      /\ parked'["empty"] = parked["empty"] /\ parked'["full"] = parked["full"]
  BY <1>1 DEF SemTypes, timer_grant, timeout, drop_stale, bufferVars, Sem
<1>3. HoldsEmpty' = HoldsEmpty /\ HoldsFull' = HoldsFull
  BY <1>2 DEF HoldsEmpty, HoldsFull, HasEmpty, HasFull
<1> QED BY <1>2, <1>3 DEF SlotsSay

-----------------------------------------------------------------------------
(* The inductive invariant.                                                 *)
LEMMA InitTimedInv == TimedInit => TimedInv
<1> SUFFICES ASSUME TimedInit PROVE TimedInv
  OBVIOUS
<1>0. ChannelInv /\ parked = [s \in Sem |-> {}] /\ pc = [c \in Co |-> "idle"]
      /\ granting = [c \in Co |-> NoSem]
  BY InitChannelInv DEF TimedInit, Init
<1>1. SemTypes /\ m_size \in 0 .. SIZE
  BY <1>0, TypesAre DEF ChannelInv, TypeOK
<1>2. StepTypes
  BY <1>0, <1>1 DEF StepTypes, TimedPc, Pc
<1>3. TimerTypes
  BY DEF TimedInit, TimerTypes
<1>4. CallTypes
  BY TimedChannelAssumption DEF TimedInit, CallTypes
<1>5. TimedPlaces
  BY <1>0 DEF TimedInit, TimedPlaces, TimedParked, SlotGranting, TimedIn, SlotsUntimed,
      Sem, NoSem
<1>6. BufferAsserts /\ SlotsSay
  BY <1>0 DEF ChannelInv, SelfSays, AccountsSay, SlotsSay
<1> QED BY <1>1, <1>2, <1>3, <1>4, <1>5, <1>6 DEF TimedInv

(* Every step keeps it.                                                     *)
LEMMA NextTimedInv == TimedInv /\ [TimedNext]_tvars => TimedInv'
<1> SUFFICES ASSUME TimedInv, [TimedNext]_tvars PROVE TimedInv'
  OBVIOUS
<1>0. /\ SemTypes /\ StepTypes /\ TimerTypes /\ CallTypes /\ TimedPlaces
      /\ BufferAsserts /\ SlotsSay
  BY DEF TimedInv
<1>1. ASSUME TimedNext
      PROVE  /\ SemTypes' /\ StepTypes' /\ TimerTypes' /\ TimedPlaces'
             /\ SlotsSay'
  <2>0. BufferAsserts'
    BY <1>0, <1>1, TimedBufferStep
  <2>1. ASSUME NEW c \in Co, Move(c)
        PROVE  /\ SemTypes' /\ StepTypes' /\ TimerTypes' /\ TimedPlaces'
               /\ SlotsSay'
    <3>1. SemTypes' /\ StepTypes' /\ TimerTypes'
      BY <1>0, <2>1, MoveTypes
    <3> QED BY <1>0, <2>0, <2>1, <3>1, PlacesMove, MoveSlots
  <2>2. ASSUME NEW c \in Co, timed_grant(c)
        PROVE  /\ SemTypes' /\ StepTypes' /\ TimerTypes' /\ TimedPlaces'
               /\ SlotsSay'
    BY <1>0, <2>2, GrantTypes, PlacesGrant, GrantSlots
  <2>3. ASSUME NEW c \in Co, NEW s \in Sem, timeout(c, s)
        PROVE  /\ SemTypes' /\ StepTypes' /\ TimerTypes' /\ TimedPlaces'
               /\ SlotsSay'
    BY <1>0, <2>3, TimeoutTypes, PlacesTimer, TimerSlots
  <2>4. ASSUME NEW s \in Sem, timer_grant(s)
        PROVE  /\ SemTypes' /\ StepTypes' /\ TimerTypes' /\ TimedPlaces'
               /\ SlotsSay'
    BY <1>0, <2>4, TimerGrantTypes, PlacesTimer, TimerSlots
  <2> QED BY <1>0, <1>1, <2>1, <2>2, <2>3, <2>4, Moves
<1>2. CASE TimedNext
  <2>1. CallTypes' /\ BufferAsserts'
    BY <1>0, <1>2, CallsStep, TimedBufferStep
  <2> QED BY <1>1, <1>2, <2>1 DEF TimedInv
<1>3. CASE UNCHANGED tvars
  <2>1. UNCHANGED <<count, waiters, parked, granting, m_size, pc>>
    BY <1>3 DEF tvars, vars, semVars, bufferVars
  <2>2. UNCHANGED <<timed, timedOut, stale, owed, rounds, sent, tally>>
    BY <1>3 DEF tvars, timedVars, testVars
  <2>3. SemTypes' /\ StepTypes' /\ TimerTypes' /\ CallTypes'
    BY <1>0, <2>1, <2>2 DEF SemTypes, StepTypes, TimerTypes, CallTypes
  <2>4. TimedPlaces'
    BY <1>0, <2>1, <2>2 DEF TimedPlaces, TimedParked, SlotGranting, TimedIn, SlotsUntimed
  <2>5. BufferAsserts'
    BY <1>0, <2>1 DEF BufferAsserts
  <2>6. SlotsSay'
    BY <1>0, <2>1 DEF SlotsSay, HoldsEmpty, HoldsFull, HasEmpty, HasFull
  <2> QED BY <2>3, <2>4, <2>5, <2>6 DEF TimedInv
<1> QED BY <1>2, <1>3

(* It holds in every state.                                                 *)
LEMMA SpecTimedInv == TimedSpec => []TimedInv
BY InitTimedInv, NextTimedInv, PTL DEF TimedSpec

-----------------------------------------------------------------------------
(* The assertions on buffer.push and buffer.pop hold beside push_for and    *)
(* pull_for too: those give no slot away, since with a permit they return   *)
(* at once and without one they have no time to wait for a slot.            *)
THEOREM TimedBufferNeverFails == TimedSpec => []TimedBufferAsserts
<1>1. TimedInv => TimedBufferAsserts
  <2> SUFFICES ASSUME TimedInv PROVE TimedBufferAsserts
    OBVIOUS
  <2>1. timed \subseteq UNION {parked[s] : s \in {"sender", "receiver"}}
    BY DEF TimedInv, TimedPlaces, TimedIn
  <2> QED BY <2>1 DEF TimedInv, SemTypes, StepTypes, TimerTypes, CallTypes, TimedPc,
                      TimedBufferAsserts, TimedTypeOK
<1> QED BY <1>1, SpecTimedInv, PTL

-----------------------------------------------------------------------------
(* Where a value is with a coroutine, with the timed calls; a push that     *)
(* waits has not been delivered, and who will run a callback has no value.  *)
TimedHands ==
  \A c \in Co :
    /\ x[c] # NoVal <=> pc[c] = "store" \/ (pc[c] \in {"stage", "pushFor"} /\ ~is_exec[c])
    /\ ans[c] # NoVal
         <=> pc[c] = "signalEmpty" \/ (pc[c] \in {"fetch", "fetchFor"} /\ buffer_has_value[c])
    /\ pc[c] \in {"signalReceiver", "pullFor"} => ~buffer_has_value[c]
    /\ c \in parked["receiver"] => ~is_exec[c]
    /\ granting[c] = "receiver" => pc[c] \in {"fetch", "fetchFor"} /\ ~buffer_has_value[c]

HeldInv == DataTypes /\ TimedHands /\ RingSays /\ OnceSays

(* Every step of the timed calls, too, moves a value as above.              *)
LEMMA TimedDataMoves ==
  ASSUME TimedInv, HeldInv, TimedNext
  PROVE  DataMove
<1> USE DEF Goto, bufferVars, handVars, TimedInv, StepTypes, HeldInv, DataTypes, TimedHands
<1> USE DEF DataMove
<1>1. ASSUME NEW c \in Co, NEW v \in Val \ Circulating, push(c, v) \/ push_for(c, v)
      PROVE  NewValue(c, v)
  BY <1>1 DEF push, push_for, NewValue
<1>2. ASSUME NEW c \in Co, store(c) PROVE Stored(c) \/ UNCHANGED <<x, ans, bufferVars>>
  BY <1>2 DEF store, Stored
<1>3. ASSUME NEW c \in Co, load(c) PROVE Loaded(c) \/ UNCHANGED <<x, ans, bufferVars>>
  BY <1>3 DEF load, Loaded
<1>4. ASSUME NEW c \in Co, fetch(c) \/ signalEmpty(c) \/ pull_for_end(c)
      PROVE  Returned(c) \/ UNCHANGED <<x, ans, bufferVars>>
  BY <1>4 DEF fetch, signalEmpty, pull_for_end, ReturnFalse, Returned, ReturnsTrue
<1>5. ASSUME NEW c \in Co, push_for_return(c) PROVE Withdrawn(c)
  BY <1>5 DEF push_for_return, Withdrawn, ReturnsFalse
<1>6. ASSUME NEW c \in Co, NEW w \in Co, grant(c, w)
      PROVE  Handed(c, w) \/ UNCHANGED <<x, ans, bufferVars>>
  <2>1. CASE granting[c] = "receiver"
    <3>1. w \in parked["receiver"] /\ callback(c, w) /\ UNCHANGED bufferVars
      BY <1>6, <2>1 DEF grant
    <3>2. x[w] # NoVal /\ ans[c] = NoVal
      BY <2>1, <3>1 DEF TimedPlaces, TimedParked
    <3> QED BY <3>1, <3>2 DEF callback, Handed
  <2> QED BY <1>6, <2>1 DEF grant
<1>7. ASSUME NEW c \in Co, timed_grant(c)
      PROVE  (\E w \in Co : grant(c, w)) \/ UNCHANGED <<x, ans, bufferVars>>
  <2>1. ASSUME NEW w \in Pickable(granting[c]), grant(c, w) PROVE w \in Co
    BY <1>7, <2>1 DEF grant, timed_grant, SemTypes, NoSem
  <2> QED BY <1>7, <2>1 DEF timed_grant
<1>8. ASSUME NEW c \in Co,
             \/ pull(c) \/ stage(c) \/ signalFull(c) \/ signalSender(c) \/ signalReceiver(c)
             \/ pull_for(c) \/ pull_for_wait(c)
      PROVE  UNCHANGED <<x, ans, bufferVars>>
  BY <1>8 DEF pull, stage, signalFull, signalSender, signalReceiver, pull_for, pull_for_wait,
              ReturnFalse
<1>9. ASSUME NEW s \in Sem, timer_grant(s) \/ \E c \in Co : timeout(c, s)
      PROVE  UNCHANGED <<x, ans, bufferVars>>
  BY <1>9 DEF timer_grant, timeout
<1>10. ASSUME NEW c \in Co, PlainStep(c) PROVE DataMove
  BY <1>1, <1>2, <1>3, <1>4, <1>8, <1>10 DEF PlainStep, PushStep, PullStep
<1>11. ASSUME NEW c \in Co, TimedStep(c) PROVE DataMove
  BY <1>1, <1>4, <1>5, <1>6, <1>7, <1>8, <1>9, <1>11 DEF TimedStep
<1> QED BY <1>9, <1>10, <1>11 DEF TimedNext

(* The types of the values.                                                 *)
LEMMA HeldTypes ==
  ASSUME TimedInv, HeldInv, TimedNext
  PROVE  DataTypes'
<1>0. /\ is_close \in BOOLEAN
      /\ m_data \in [0 .. SIZE - 1 -> Val \cup {NoVal}]
      /\ front \in 0 .. SIZE - 1 /\ rear \in 0 .. SIZE - 1 /\ m_size \in 0 .. SIZE
      /\ x \in [Co -> Val \cup {NoVal}] /\ is_exec \in [Co -> BOOLEAN]
      /\ ans \in [Co -> Val \cup {NoVal}] /\ buffer_has_value \in [Co -> BOOLEAN]
  BY DEF HeldInv, DataTypes
<1>1. /\ x' \in [Co -> Val \cup {NoVal}] /\ ans' \in [Co -> Val \cup {NoVal}]
      /\ m_data' \in [0 .. SIZE - 1 -> Val \cup {NoVal}]
  BY <1>0, TimedDataMoves
  DEF DataMove, NewValue, Stored, Loaded, Handed, Returned, Withdrawn, bufferVars
<1>2. front' \in 0 .. SIZE - 1 /\ rear' \in 0 .. SIZE - 1 /\ m_size' \in 0 .. SIZE
  <2>1. /\ (front + 1) % SIZE \in 0 .. SIZE - 1 /\ (rear + 1) % SIZE \in 0 .. SIZE - 1
        /\ m_size < SIZE => m_size + 1 \in 0 .. SIZE
        /\ m_size > 0 => m_size - 1 \in 0 .. SIZE
    BY <1>0, ModNext, ChannelAssumption
  <2> QED BY <1>0, <2>1, TimedDataMoves
      DEF DataMove, NewValue, Stored, Loaded, Handed, Returned, Withdrawn, bufferVars
<1>3. /\ is_close' = is_close
      /\ is_exec' \in [Co -> BOOLEAN] /\ buffer_has_value' \in [Co -> BOOLEAN]
  <2>1. ASSUME NEW c \in Co, PlainStep(c)
        PROVE  /\ is_close' = is_close
               /\ is_exec' \in [Co -> BOOLEAN] /\ buffer_has_value' \in [Co -> BOOLEAN]
    BY <1>0, <2>1 DEF PlainStep, push, pull, PushStep, PullStep, stage, store, signalFull,
       signalSender, signalReceiver, fetch, load, signalEmpty, handVars
  <2>2. ASSUME NEW c \in Co, timed_grant(c)
        PROVE  /\ is_close' = is_close
               /\ is_exec' \in [Co -> BOOLEAN] /\ buffer_has_value' \in [Co -> BOOLEAN]
    BY <1>0, <2>2 DEF timed_grant, grant, callback, handVars
  <2>3. ASSUME NEW c \in Co,
               \/ \E v \in Val : push_for(c, v)
               \/ pull_for(c) \/ push_for_return(c) \/ pull_for_wait(c) \/ pull_for_end(c)
        PROVE  /\ is_close' = is_close
               /\ is_exec' \in [Co -> BOOLEAN] /\ buffer_has_value' \in [Co -> BOOLEAN]
    BY <1>0, <2>3 DEF push_for, pull_for, push_for_return, pull_for_wait, pull_for_end
  <2>4. ASSUME NEW s \in Sem, timer_grant(s) \/ \E c \in Co : timeout(c, s)
        PROVE  /\ is_close' = is_close
               /\ is_exec' \in [Co -> BOOLEAN] /\ buffer_has_value' \in [Co -> BOOLEAN]
    BY <1>0, <2>4 DEF timer_grant, timeout, handVars
  <2> QED BY <2>1, <2>2, <2>3, <2>4 DEF TimedNext, TimedStep
<1> QED BY <1>0, <1>1, <1>2, <1>3 DEF DataTypes

(* The pc of a coroutine says whether it holds a value.                     *)
LEMMA TimedHandsStep ==
  ASSUME TimedInv, HeldInv, TimedNext
  PROVE  TimedHands'
<1>0. /\ pc \in [Co -> TimedPc]
      /\ count \in [Sem -> Nat] /\ parked \in [Sem -> SUBSET Co]
      /\ granting \in [Co -> Sem \cup {NoSem}]
      /\ m_data \in [0 .. SIZE - 1 -> Val \cup {NoVal}] /\ front \in 0 .. SIZE - 1
      /\ x \in [Co -> Val \cup {NoVal}] /\ is_exec \in [Co -> BOOLEAN]
      /\ ans \in [Co -> Val \cup {NoVal}] /\ buffer_has_value \in [Co -> BOOLEAN]
      /\ TimedParked /\ TimedHands /\ NoVal \notin Val
  BY ChannelAssumption
  DEF TimedInv, StepTypes, SemTypes, HeldInv, DataTypes, TimedPlaces
<1>00. BufferAsserts'
  BY TimedBufferStep DEF TimedInv
<1> USE DEF Goto, Parked, Sem, NoSem, TimedHands, TimedParked, semVars, bufferVars, handVars
<1>1. ASSUME NEW c \in Co, NEW v \in Val, push(c, v) PROVE TimedHands'
  BY <1>0, <1>1 DEF push, wait
<1>2. ASSUME NEW c \in Co, stage(c) PROVE TimedHands'
  BY <1>0, <1>2 DEF stage, wait
<1>3. ASSUME NEW c \in Co, store(c) PROVE TimedHands'
  <2>1. pc'[c] # "abort"
    BY <1>00 DEF BufferAsserts
  <2> QED BY <1>0, <1>3, <2>1 DEF store
<1>4. ASSUME NEW c \in Co, signalFull(c) \/ signalSender(c) PROVE TimedHands'
  BY <1>0, <1>4 DEF signalFull, signalSender, signal
<1>5. ASSUME NEW c \in Co, pull(c) PROVE TimedHands'
  BY <1>0, <1>5 DEF pull, wait
<1>6. ASSUME NEW c \in Co, signalReceiver(c) PROVE TimedHands'
  BY <1>0, <1>6 DEF signalReceiver, signal
<1>7. ASSUME NEW c \in Co, fetch(c) PROVE TimedHands'
  BY <1>0, <1>7 DEF fetch, wait
<1>8. ASSUME NEW c \in Co, load(c) PROVE TimedHands'
  <2>1. m_data[front] # NoVal \/ m_size = 0
    BY FrontTaken DEF HeldInv, DataTypes
  <2>2. pc'[c] # "abort"
    BY <1>00 DEF BufferAsserts
  <2> QED BY <1>0, <1>8, <2>1, <2>2 DEF load
<1>9. ASSUME NEW c \in Co, signalEmpty(c) PROVE TimedHands'
  BY <1>0, <1>9 DEF signalEmpty, signal
<1>10. ASSUME NEW c \in Co, NEW v \in Val, push_for(c, v) PROVE TimedHands'
  BY <1>0, <1>10 DEF push_for, wait_for, wait
<1>11. ASSUME NEW c \in Co, push_for_return(c) PROVE TimedHands'
  BY <1>0, <1>11 DEF push_for_return
<1>12. ASSUME NEW c \in Co, pull_for(c) PROVE TimedHands'
  BY <1>0, <1>12 DEF pull_for, wait_for, wait
<1>13. ASSUME NEW c \in Co, pull_for_wait(c) PROVE TimedHands'
  BY <1>0, <1>13 DEF pull_for_wait, ReturnFalse, signal
<1>14. ASSUME NEW c \in Co, pull_for_end(c) PROVE TimedHands'
  BY <1>0, <1>14 DEF pull_for_end, ReturnFalse
<1>15. ASSUME NEW c \in Co, timed_grant(c) PROVE TimedHands'
  <2>1. ASSUME NEW w, grant(c, w) PROVE TimedHands'
    BY <1>0, <2>1 DEF grant, callback
  <2>2. CASE drop_stale(granting[c]) /\ granting' = [granting EXCEPT ![c] = NoSem]
             /\ UNCHANGED <<pc, handVars>>
    BY <1>0, <2>2 DEF drop_stale
  <2> QED BY <1>15, <2>1, <2>2 DEF timed_grant
<1>16. ASSUME NEW s \in Sem, timer_grant(s) \/ \E c \in Co : timeout(c, s) PROVE TimedHands'
  BY <1>0, <1>16 DEF timer_grant, drop_stale, timeout
<1> QED BY <1>1, <1>2, <1>3, <1>4, <1>5, <1>6, <1>7, <1>8, <1>9, <1>10, <1>11, <1>12, <1>13,
           <1>14, <1>15, <1>16
  DEF TimedNext, PlainStep, PushStep, PullStep, TimedStep

(* The values in every state of TimedSpec.                                  *)
LEMMA SpecHeldInv == TimedSpec => [](TimedInv /\ HeldInv)
<1>1. TimedInit => HeldInv
  <2> SUFFICES ASSUME TimedInit PROVE HeldInv
    OBVIOUS
  <2>1. ChannelInv /\ pc = [c \in Co |-> "idle"] /\ granting = [c \in Co |-> NoSem]
        /\ parked = [s \in Sem |-> {}]
    BY InitChannelInv DEF TimedInit, Init
  <2>2. TimedHands
    BY <2>1 DEF ChannelInv, SelfSays, HandSays, TimedHands, Sem, NoSem
  <2> QED BY <2>1, <2>2, TypesAre DEF ChannelInv, HeldInv
<1>2. TimedInv /\ HeldInv /\ [TimedNext]_tvars => HeldInv'
  <2> SUFFICES ASSUME TimedInv, HeldInv, [TimedNext]_tvars PROVE HeldInv'
    OBVIOUS
  <2>1. CASE TimedNext
    <3>1. DataMove /\ DataTypes /\ RingSays /\ OnceSays
      BY <2>1, TimedDataMoves DEF HeldInv
    <3> QED BY <2>1, <3>1, HeldTypes, TimedHandsStep, RingMove, OnceMove DEF HeldInv
  <2>2. CASE UNCHANGED tvars
    <3>1. /\ UNCHANGED <<is_close, m_data, front, rear, m_size, x, is_exec, ans,
                         buffer_has_value>>
          /\ UNCHANGED <<pc, parked, granting>>
      BY <2>2 DEF tvars, vars, semVars, bufferVars, handVars
    <3> QED BY <3>1 DEF HeldInv, DataTypes, TimedHands, RingSays, Between, OnceSays
  <2> QED BY <2>1, <2>2
<1> QED BY <1>1, <1>2, InitTimedInv, NextTimedInv, PTL DEF TimedSpec

(* What a call reports is what happened to its value: it is in one place,   *)
(* the caller that finds buffer_has_value set has one, and it goes only     *)
(* with the pull or pull_for that returns it or with the push_for that      *)
(* returns false and has not delivered it, whatever times out.              *)
THEOREM TimedValuesReported == TimedSpec => ValuesReported
<1>1. TimedInv /\ HeldInv => EachValueOnce /\ Told
  <2>1. HeldInv => EachValueOnce
    BY OnceEverywhere DEF HeldInv
  <2>2. HeldInv => Told
    BY DEF HeldInv, TimedHands, Told
  <2> QED BY <2>1, <2>2
<1>2. ASSUME TimedInv, HeldInv, HeldInv', TimedNext,
             NEW v \in Val, v \in Circulating, v \notin Circulating'
      PROVE  \E c \in Co : (ans[c] = v /\ ReturnsTrue(c)) \/ (x[c] = v /\ ReturnsFalse(c))
  <2>1. DataMove /\ DataTypes /\ RingSays /\ DataTypes' /\ RingSays'
    BY <1>2, TimedDataMoves DEF HeldInv
  <2> QED BY <1>2, <2>1, ValueGone
<1>3. TimedInv /\ HeldInv /\ HeldInv' /\ [TimedNext]_tvars
        => [\A v \in Val : v \in Circulating /\ v \notin Circulating' =>
              \E c \in Co : \/ ans[c] = v /\ ReturnsTrue(c)
                            \/ x[c] = v /\ ReturnsFalse(c)]_tvars
  BY <1>2
<1> QED BY <1>1, <1>3, SpecHeldInv, PTL DEF TimedSpec, ValuesReported

===============================================================================
