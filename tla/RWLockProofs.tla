------------------------------ MODULE RWLockProofs ------------------------------
(***************************************************************************)
(* The readers-writer lock, for any number of threads that its bits can    *)
(* count: m_value counts exactly who is in, and a writer is in alone.      *)
(***************************************************************************)
EXTENDS RWLock, FiniteSetTheorems, TLAPS

-----------------------------------------------------------------------------
(* Where a writer is once it has seen that the readers are gone.            *)
Past == {"wlock", "writing", "uncount", "btry"}

(* A writer that is past the readers keeps them out.                        *)
ReadersOut == (\E t \in Threads : pc[t] \in Past) => Readers = {}

(* w_lock is set while somebody holds it, and one thread holds it.          *)
OneHolds ==
  /\ \A t \in Threads : Holds(t) => w_lock
  /\ \A t, u \in Threads : Holds(t) /\ Holds(u) => t = u

(* A try that got w_lock saw no reader in the value it will exchange.       *)
TrySaw == \A t \in Threads : pc[t] = "cas" /\ ans[t] => cur[t].readers = 0

IInv == TypeOK /\ ValueExact /\ ReadersOut /\ OneHolds /\ TrySaw

-----------------------------------------------------------------------------
(* Sets of threads are finite, and fit into the bits for writers.           *)
LEMMA Counts ==
  ASSUME NEW S \in SUBSET Threads
  PROVE  /\ Cardinality(S) \in Nat /\ Cardinality(S) < WriterLimit
         /\ Cardinality(S) = 0 <=> S = {}
         /\ \A t \in Threads \ S : /\ Cardinality(S \cup {t}) = Cardinality(S) + 1
                                  /\ Cardinality(S) + 1 < WriterLimit
         /\ \A t \in S : Cardinality(S \ {t}) = Cardinality(S) - 1
<1> USE RWLockAssumption
<1>1. /\ IsFiniteSet(S) /\ Cardinality(S) \in Nat
      /\ Cardinality(S) =< Cardinality(Threads) /\ Cardinality(Threads) \in Nat
  BY FS_Subset, FS_CardinalityType
<1>2. Cardinality(S) = 0 <=> S = {}
  BY <1>1, FS_EmptySet
<1>3. ASSUME NEW t \in Threads \ S
      PROVE  /\ Cardinality(S \cup {t}) = Cardinality(S) + 1
             /\ Cardinality(S) + 1 < WriterLimit
  <2>1. Cardinality(S \cup {t}) = Cardinality(S) + 1
    BY <1>1, <1>3, FS_AddElement
  <2>2. S \cup {t} \subseteq Threads
    BY <1>3
  <2>3. Cardinality(S \cup {t}) =< Cardinality(Threads)
    BY <2>2, FS_Subset
  <2> QED
    BY <1>1, <2>1, <2>3
<1>4. ASSUME NEW t \in S
      PROVE  Cardinality(S \ {t}) = Cardinality(S) - 1
  BY <1>1, <1>4, FS_RemoveElement
<1> QED
  BY <1>1, <1>2, <1>3, <1>4

(* The counts say whether somebody is in.                                   *)
LEMMA CountsZero ==
  ASSUME IInv
  PROVE  /\ m_value.readers = 0 <=> Readers = {}
         /\ m_value.writers = 0 <=> Counted = {}
<1>1. Readers \in SUBSET Threads /\ Counted \in SUBSET Threads
  BY DEF Readers, Counted
<1> QED
  BY <1>1, Counts DEF IInv, ValueExact

(* A step that moves nobody in or out leaves the counts exact.              *)
LEMMA SameCounts ==
  ASSUME IInv, UNCHANGED m_value, Readers' = Readers, Counted' = Counted
  PROVE  m_value' \in Value /\ ValueExact'
BY DEF IInv, TypeOK, ValueExact

(* A reader comes in and counts itself (reader::lock and its tries).        *)
LEMMA ReaderIn ==
  ASSUME IInv, NEW t \in Threads, t \notin Readers, Readers' = Readers \cup {t},
         Counted' = Counted, m_value' = [m_value EXCEPT !.readers = @ + 1]
  PROVE  m_value' \in Value /\ ValueExact'
<1>1. Readers \in SUBSET Threads
  BY DEF Readers
<1>2. Cardinality(Readers') = Cardinality(Readers) + 1
  BY <1>1, Counts
<1>3. /\ m_value' \in Value
      /\ m_value'.readers = m_value.readers + 1 /\ m_value'.writers = m_value.writers
  BY DEF IInv, TypeOK, Value
<1> QED
  BY <1>2, <1>3 DEF IInv, ValueExact

(* A reader leaves (reader::unlock).                                        *)
LEMMA ReaderOut ==
  ASSUME IInv, NEW t \in Readers, Readers' = Readers \ {t}, Counted' = Counted,
         m_value' = IF m_value.readers > 0 THEN [m_value EXCEPT !.readers = @ - 1]
                    ELSE m_value
  PROVE  m_value' \in Value /\ ValueExact'
<1>1. Readers \in SUBSET Threads
  BY DEF Readers
<1>2. Cardinality(Readers') = Cardinality(Readers) - 1
  BY <1>1, Counts
<1>3. m_value.readers \in Nat /\ m_value.readers # 0
  BY CountsZero DEF IInv, TypeOK, Value
<1>4. /\ m_value' \in Value
      /\ m_value'.readers = m_value.readers - 1 /\ m_value'.writers = m_value.writers
  BY <1>3 DEF IInv, TypeOK, Value
<1> QED
  BY <1>2, <1>4 DEF IInv, ValueExact

(* A writer counts itself, and never into the readers' bits (writer::lock,  *)
(* the tries).                                                             *)
LEMMA WriterIn ==
  ASSUME IInv, NEW t \in Threads, t \notin Counted, Counted' = Counted \cup {t},
         Readers' = Readers, m_value' = plus_writer(m_value)
  PROVE  m_value' \in Value /\ ValueExact'
<1>1. Counted \in SUBSET Threads
  BY DEF Counted
<1>2. /\ Cardinality(Counted') = Cardinality(Counted) + 1
      /\ Cardinality(Counted) + 1 < WriterLimit /\ Cardinality(Counted) \in Nat
  BY <1>1, Counts
<1>3. m_value.writers = Cardinality(Counted)
  BY DEF IInv, ValueExact
<1>4. /\ m_value' \in Value
      /\ m_value'.readers = m_value.readers /\ m_value'.writers = m_value.writers + 1
  BY <1>2, <1>3, RWLockAssumption DEF IInv, TypeOK, Value, plus_writer
<1> QED
  BY <1>2, <1>4 DEF IInv, ValueExact

(* A writer takes itself out (writer::unlock, a try that fails).            *)
LEMMA WriterOut ==
  ASSUME IInv, NEW t \in Counted, Counted' = Counted \ {t},
         Readers' = Readers, m_value' = dec_writer(m_value)
  PROVE  m_value' \in Value /\ ValueExact'
<1>1. Counted \in SUBSET Threads
  BY DEF Counted
<1>2. Cardinality(Counted') = Cardinality(Counted) - 1
  BY <1>1, Counts
<1>3. m_value.writers \in Nat /\ m_value.writers # 0
  BY CountsZero DEF IInv, TypeOK, Value
<1>4. /\ m_value' \in Value
      /\ m_value'.readers = m_value.readers /\ m_value'.writers = m_value.writers - 1
  BY <1>3, RWLockAssumption DEF IInv, TypeOK, Value, dec_writer
<1> QED
  BY <1>2, <1>4 DEF IInv, ValueExact
-----------------------------------------------------------------------------
(* Nobody is in.                                                            *)
LEMMA InitIInv == Init => IInv
<1> SUFFICES ASSUME Init PROVE IInv
  OBVIOUS
<1> USE RWLockAssumption
<1>1. Cardinality(Threads) \in Nat /\ WriterLimit > 0
  BY FS_CardinalityType
<1>2. NoLock \in Value
  BY <1>1 DEF NoLock, Value
<1>3. TypeOK
  <2>1. budget \in [Threads -> 0 .. BackoffWidth - 1]
    BY DEF Init
  <2>2. cur \in [Threads -> Value] /\ ans \in [Threads -> BOOLEAN]
    BY <1>2 DEF Init
  <2>3. op \in [Threads -> AllOps] /\ pc \in [Threads -> Places]
    BY DEF Init, AllOps, Places
  <2> QED
    BY <1>2, <2>1, <2>2, <2>3 DEF Init, TypeOK
<1>4. Readers = {} /\ Counted = {}
  BY DEF Init, Readers, Counted
<1>5. ValueExact
  BY <1>4, FS_EmptySet DEF Init, NoLock, ValueExact
<1>6. ReadersOut /\ OneHolds /\ TrySaw
  BY <1>4 DEF Init, ReadersOut, OneHolds, TrySaw, Holds
<1> QED
  BY <1>3, <1>5, <1>6 DEF IInv

(* A call begins; lock() counts the writer at once.                         *)
LEMMA CallIInv ==
  ASSUME IInv, NEW t \in Threads, NEW o \in Ops, Call(t, o)
  PROVE  IInv'
<1> USE RWLockAssumption DEF Goto
<1>1. pc[t] = "idle" /\ o \in AllOps /\ pc \in [Threads -> Places]
  BY DEF Call, IInv, TypeOK
<1>2. pc' = [pc EXCEPT ![t] = IF o = "wlock" THEN "drain" ELSE IF o = "wtry" THEN "load"
                              ELSE IF o = "wbackoff" THEN "count" ELSE "enter"]
  BY DEF Call
<1>3. Readers' = Readers /\ Counted' = IF o = "wlock" THEN Counted \cup {t} ELSE Counted
  BY <1>1, <1>2 DEF Readers, Counted
<1>4. m_value' \in Value /\ ValueExact'
  <2>1. CASE o = "wlock"
    <3>1. t \notin Counted
      BY <1>1 DEF Counted
    <3> QED
      BY <1>3, <2>1, <3>1, WriterIn DEF Call
  <2>2. CASE o # "wlock"
    BY <1>3, <2>2, SameCounts DEF Call
  <2> QED
    BY <2>1, <2>2
<1>5. TypeOK'
  <2>1. budget' \in [Threads -> 0 .. BackoffWidth - 1]
    BY DEF Call, IInv, TypeOK
  <2>2. pc' \in [Threads -> Places]
    BY <1>1, <1>2 DEF Places
  <2>3. op' \in [Threads -> AllOps]
    BY <1>1 DEF Call, IInv, TypeOK
  <2> QED
    BY <1>4, <2>1, <2>2, <2>3 DEF Call, IInv, TypeOK
<1>6. ReadersOut'
  BY <1>1, <1>2, <1>3 DEF IInv, ReadersOut, Past
<1>7. OneHolds' /\ TrySaw'
  BY <1>1, <1>2 DEF Call, IInv, OneHolds, TrySaw, Holds
<1> QED
  BY <1>4, <1>5, <1>6, <1>7 DEF IInv

(* What Return leaves in the locals has their types.                        *)
LEMMA ReturnTyped ==
  ASSUME TypeOK, NEW t \in Threads, Return(t)
  PROVE  /\ op' \in [Threads -> AllOps] /\ budget' \in [Threads -> 0 .. BackoffWidth - 1]
         /\ cur' \in [Threads -> Value] /\ ans' \in [Threads -> BOOLEAN]
<1> USE RWLockAssumption
<1>1. Cardinality(Threads) \in Nat /\ WriterLimit > 0
  BY FS_CardinalityType
<1>2. NoLock \in Value
  BY <1>1 DEF NoLock, Value
<1>3. budget' \in [Threads -> 0 .. BackoffWidth - 1]
  BY DEF Return, TypeOK
<1> QED
  BY <1>2, <1>3 DEF Return, TypeOK, AllOps

(* Readers: they enter while no writer is counted, wait, and leave.         *)
LEMMA ReaderIInv ==
  ASSUME IInv, NEW t \in Threads, reader_enter(t) \/ reader_wait(t) \/ reader_unlock(t)
  PROVE  IInv'
<1> USE RWLockAssumption DEF Goto
<1>0. pc \in [Threads -> Places] /\ TypeOK
  BY DEF IInv, TypeOK
<1>1. ASSUME NEW from \in {"enter", "rwait"}, NEW to \in {"idle", "enter", "rwait"},
             Goto(t, from, to) \/ (pc[t] = from /\ UNCHANGED pc),
             UNCHANGED <<m_value, w_lock>>, Return(t) \/ UNCHANGED <<op, cur, ans>>,
             budget' \in [Threads -> 0 .. BackoffWidth - 1]
      PROVE  IInv'
  <2>1. pc' \in [Threads -> Places]
    BY <1>0, <1>1 DEF Places
  <2>2. Readers' = Readers /\ Counted' = Counted
    BY <1>0, <1>1 DEF Readers, Counted
  <2>3. m_value' \in Value /\ ValueExact'
    BY <1>1, <2>2, SameCounts
  <2>4. op' \in [Threads -> AllOps] /\ cur' \in [Threads -> Value] /\ ans' \in [Threads -> BOOLEAN]
    BY <1>0, <1>1, ReturnTyped DEF TypeOK
  <2>5. TypeOK'
    BY <1>0, <1>1, <2>1, <2>3, <2>4 DEF TypeOK
  <2>6. ReadersOut'
    BY <1>0, <1>1, <2>2 DEF IInv, ReadersOut, Past
  <2>7. \A u \in Threads : pc'[u] = "cas" <=> pc[u] = "cas"
    BY <1>0, <1>1
  <2>8. \A u \in Threads : pc[u] = "cas" => ans'[u] = ans[u] /\ cur'[u] = cur[u]
    BY <1>0, <1>1 DEF TypeOK, Return
  <2>9. \A u \in Threads : pc'[u] = "writing" <=> pc[u] = "writing"
    BY <1>0, <1>1
  <2>10. OneHolds'
    BY <1>1, <2>7, <2>8, <2>9 DEF IInv, OneHolds, Holds
  <2>11. TrySaw'
    BY <2>7, <2>8 DEF IInv, TrySaw
  <2> QED
    BY <2>3, <2>5, <2>6, <2>10, <2>11 DEF IInv
<1>2. ASSUME Goto(t, "enter", "reading"), m_value.writers = 0, Return(t),
             m_value' = [m_value EXCEPT !.readers = @ + 1], UNCHANGED w_lock
      PROVE  IInv'
  <2>1. t \notin Readers /\ Readers' = Readers \cup {t} /\ Counted' = Counted
    BY <1>0, <1>2 DEF Readers, Counted
  <2>2. m_value' \in Value /\ ValueExact'
    BY <1>2, <2>1, ReaderIn
  <2>3. TypeOK'
    <3>1. pc' \in [Threads -> Places]
      BY <1>0, <1>2 DEF Places
    <3> QED
      BY <1>0, <1>2, <2>2, <3>1, ReturnTyped DEF TypeOK
  <2>4. Counted' = {}
    BY <1>2, <2>1, CountsZero
  <2>5. ReadersOut'
    BY <2>4 DEF ReadersOut, Past, Counted
  <2>6. OneHolds' /\ TrySaw'
    BY <1>0, <1>2 DEF Return, IInv, TypeOK, OneHolds, TrySaw, Holds
  <2> QED
    BY <2>2, <2>3, <2>5, <2>6 DEF IInv
<1>3. CASE reader_enter(t)
  <2>1. CASE Goto(t, "enter", "idle") /\ Return(t) /\ UNCHANGED m_value
    BY <1>0, <1>1, <1>3, <2>1, ReturnTyped DEF reader_enter
  <2>2. CASE Goto(t, "enter", "rwait") /\ Locals /\ UNCHANGED m_value
    BY <1>0, <1>1, <1>3, <2>2 DEF reader_enter, Locals, TypeOK
  <2>3. CASE /\ m_value.writers = 0
             /\ Goto(t, "enter", "reading") /\ Return(t)
             /\ m_value' = [m_value EXCEPT !.readers = @ + 1]
    BY <1>2, <1>3, <2>3 DEF reader_enter
  <2> QED
    BY <1>3, <2>1, <2>2, <2>3 DEF reader_enter
<1>4. CASE reader_wait(t)
  <2>1. budget' \in [Threads -> 0 .. BackoffWidth - 1]
    <3>1. CASE UNCHANGED budget
      BY <1>0, <3>1 DEF TypeOK
    <3>2. ASSUME NEW n \in 0 .. budget[t] - 1, budget' = [budget EXCEPT ![t] = n]
          PROVE  budget' \in [Threads -> 0 .. BackoffWidth - 1]
      BY <1>0, <3>2 DEF TypeOK
    <3>3. CASE budget' = [budget EXCEPT ![t] = (@ + BackoffWidth - 1) % BackoffWidth]
      BY <1>0, <3>3 DEF TypeOK
    <3> QED
      BY <1>4, <3>1, <3>2, <3>3 DEF reader_wait
  <2>2. Goto(t, "rwait", "enter") \/ (pc[t] = "rwait" /\ UNCHANGED pc)
    BY <1>4 DEF reader_wait
  <2>3. UNCHANGED <<m_value, w_lock, op, cur, ans>>
    BY <1>4 DEF reader_wait
  <2> QED
    BY <1>1, <2>1, <2>2, <2>3
<1>5. CASE reader_unlock(t)
  <2>1. t \in Readers /\ Readers' = Readers \ {t} /\ Counted' = Counted
    BY <1>0, <1>5 DEF reader_unlock, Readers, Counted
  <2>2. m_value' \in Value /\ ValueExact'
    BY <1>5, <2>1, ReaderOut DEF reader_unlock
  <2>3. TypeOK'
    <3>1. pc' \in [Threads -> Places]
      BY <1>0, <1>5 DEF reader_unlock, Places
    <3> QED
      BY <1>0, <1>5, <2>2, <3>1 DEF reader_unlock, Locals, TypeOK
  <2>4. ReadersOut'
    BY <1>0, <1>5, <2>1 DEF reader_unlock, IInv, ReadersOut, Past
  <2>5. OneHolds' /\ TrySaw'
    BY <1>0, <1>5 DEF reader_unlock, Locals, IInv, OneHolds, TrySaw, Holds
  <2> QED
    BY <2>2, <2>3, <2>4, <2>5 DEF IInv
<1> QED
  BY <1>3, <1>4, <1>5

(* A writer that is counted waits for the readers, takes w_lock and gives   *)
(* it back (writer::lock, writer::unlock).                                 *)
LEMMA WriterIInv ==
  ASSUME IInv, NEW t \in Threads,
         writer_drain(t) \/ writer_lock(t) \/ writer_unlock(t) \/ uncount(t)
  PROVE  IInv'
<1> USE RWLockAssumption DEF Goto
<1>0. pc \in [Threads -> Places] /\ TypeOK
  BY DEF IInv, TypeOK
<1>1. pc' \in [Threads -> Places]
  BY <1>0 DEF writer_drain, writer_lock, writer_unlock, uncount, Places
<1>2. CASE writer_drain(t)
  <2>1. Readers' = Readers /\ Counted' = Counted
    BY <1>0, <1>2 DEF writer_drain, Readers, Counted
  <2>2. m_value' \in Value /\ ValueExact'
    BY <1>2, <2>1, SameCounts DEF writer_drain
  <2>3. TypeOK'
    BY <1>0, <1>1, <1>2, <2>2 DEF writer_drain, Locals, TypeOK
  <2>4. Readers' = {}
    BY <1>2, <2>1, CountsZero DEF writer_drain
  <2>5. ReadersOut' /\ OneHolds' /\ TrySaw'
    BY <1>0, <1>2, <2>4 DEF writer_drain, Locals, IInv, ReadersOut, OneHolds, TrySaw, Holds
  <2> QED
    BY <2>2, <2>3, <2>5 DEF IInv
<1>3. CASE writer_lock(t)
  <2>1. Readers' = Readers /\ Counted' = Counted
    BY <1>0, <1>3 DEF writer_lock, Readers, Counted
  <2>2. m_value' \in Value /\ ValueExact'
    BY <1>3, <2>1, SameCounts DEF writer_lock
  <2>3. TypeOK'
    BY <1>0, <1>1, <1>3, <2>2, ReturnTyped DEF writer_lock, TypeOK
  <2>4. ReadersOut'
    BY <1>0, <1>3, <2>1 DEF writer_lock, IInv, ReadersOut, Past
  <2>5. OneHolds' /\ TrySaw'
    BY <1>0, <1>3 DEF writer_lock, Return, IInv, TypeOK, OneHolds, TrySaw, Holds
  <2> QED
    BY <2>2, <2>3, <2>4, <2>5 DEF IInv
<1>4. CASE writer_unlock(t)
  <2>1. Readers' = Readers /\ Counted' = Counted
    BY <1>0, <1>4 DEF writer_unlock, Readers, Counted
  <2>2. m_value' \in Value /\ ValueExact'
    BY <1>4, <2>1, SameCounts DEF writer_unlock
  <2>3. TypeOK'
    BY <1>0, <1>1, <1>4, <2>2 DEF writer_unlock, Locals, TypeOK
  <2>4. ReadersOut'
    BY <1>0, <1>4, <2>1 DEF writer_unlock, IInv, ReadersOut, Past
  <2>5. OneHolds' /\ TrySaw'
    BY <1>0, <1>4 DEF writer_unlock, Locals, IInv, OneHolds, TrySaw, Holds
  <2> QED
    BY <2>2, <2>3, <2>4, <2>5 DEF IInv
<1>5. CASE uncount(t)
  <2>1. t \in Counted /\ Counted' = Counted \ {t} /\ Readers' = Readers
    BY <1>0, <1>5 DEF uncount, Readers, Counted
  <2>2. m_value' \in Value /\ ValueExact'
    BY <1>5, <2>1, WriterOut DEF uncount
  <2>3. TypeOK'
    BY <1>0, <1>1, <1>5, <2>2 DEF uncount, Locals, TypeOK
  <2>4. ReadersOut'
    BY <1>0, <1>5, <2>1 DEF uncount, IInv, ReadersOut, Past
  <2>5. OneHolds' /\ TrySaw'
    BY <1>0, <1>5 DEF uncount, Locals, IInv, OneHolds, TrySaw, Holds
  <2> QED
    BY <2>2, <2>3, <2>4, <2>5 DEF IInv
<1> QED
  BY <1>2, <1>3, <1>4, <1>5

(* writer::try_lock: it takes w_lock inside its compare-and-exchange loop,  *)
(* and is counted by the exchange.                                         *)
LEMMA TryIInv ==
  ASSUME IInv, NEW t \in Threads, try_load(t) \/ try_modify(t) \/ try_exchange(t)
  PROVE  IInv'
<1> USE RWLockAssumption DEF Goto
<1>0. pc \in [Threads -> Places] /\ TypeOK
  BY DEF IInv, TypeOK
<1>1. pc' \in [Threads -> Places]
  BY <1>0 DEF try_load, try_modify, try_exchange, Places
<1>2. CASE try_load(t)
  <2>1. Readers' = Readers /\ Counted' = Counted
    BY <1>0, <1>2 DEF try_load, Readers, Counted
  <2>2. m_value' \in Value /\ ValueExact'
    BY <1>2, <2>1, SameCounts DEF try_load
  <2>3. TypeOK'
    BY <1>0, <1>1, <1>2, <2>2 DEF try_load, TypeOK
  <2>4. ReadersOut'
    BY <1>0, <1>2, <2>1 DEF try_load, IInv, ReadersOut, Past
  <2>5. OneHolds' /\ TrySaw'
    BY <1>0, <1>2 DEF try_load, IInv, TypeOK, OneHolds, TrySaw, Holds
  <2> QED
    BY <2>2, <2>3, <2>4, <2>5 DEF IInv
<1>3. CASE try_modify(t)
  <2>1. Readers' = Readers /\ Counted' = Counted
    BY <1>0, <1>3 DEF try_modify, Readers, Counted
  <2>2. m_value' \in Value /\ ValueExact'
    BY <1>3, <2>1, SameCounts DEF try_modify
  <2>3. TypeOK'
    BY <1>0, <1>1, <1>3, <2>2 DEF try_modify, TypeOK
  <2>4. ReadersOut'
    BY <1>0, <1>3, <2>1 DEF try_modify, IInv, ReadersOut, Past
  <2>5. OneHolds' /\ TrySaw'
    BY <1>0, <1>3 DEF try_modify, IInv, TypeOK, OneHolds, TrySaw, Holds
  <2> QED
    BY <2>2, <2>3, <2>4, <2>5 DEF IInv
<1>4. CASE try_exchange(t)
  <2>1. CASE m_value # cur[t]
    <3>1. Readers' = Readers /\ Counted' = Counted
      BY <1>0, <1>4, <2>1 DEF try_exchange, Readers, Counted
    <3>2. m_value' \in Value /\ ValueExact'
      BY <1>4, <2>1, <3>1, SameCounts DEF try_exchange
    <3>3. TypeOK'
      BY <1>0, <1>1, <1>4, <2>1, <3>2 DEF try_exchange, TypeOK
    <3>4. ReadersOut'
      BY <1>0, <1>4, <2>1, <3>1 DEF try_exchange, IInv, ReadersOut, Past
    <3>5. OneHolds' /\ TrySaw'
      BY <1>0, <1>4, <2>1 DEF try_exchange, IInv, TypeOK, OneHolds, TrySaw, Holds
    <3> QED
      BY <3>2, <3>3, <3>4, <3>5 DEF IInv
  <2>2. CASE m_value = cur[t] /\ ans[t]
    <3>1. pc[t] = "cas" /\ pc' = [pc EXCEPT ![t] = "writing"] /\ Return(t) /\ UNCHANGED w_lock
          /\ m_value' = plus_writer(m_value)
      BY <1>4, <2>2 DEF try_exchange
    <3>2. t \notin Counted /\ Counted' = Counted \cup {t} /\ Readers' = Readers
      BY <1>0, <3>1 DEF Readers, Counted
    <3>3. m_value' \in Value /\ ValueExact'
      BY <3>1, <3>2, WriterIn
    <3>4. TypeOK'
      BY <1>0, <1>1, <3>1, <3>3, ReturnTyped DEF TypeOK
    <3>5. Readers' = {}
      <4>1. m_value.readers = 0
        BY <2>2, <3>1 DEF IInv, TrySaw
      <4> QED
        BY <3>2, <4>1, CountsZero
    <3>6. ReadersOut'
      BY <3>5 DEF ReadersOut
    <3>7. OneHolds' /\ TrySaw'
      BY <1>0, <2>2, <3>1 DEF Return, IInv, TypeOK, OneHolds, TrySaw, Holds
    <3> QED
      BY <3>3, <3>4, <3>6, <3>7 DEF IInv
  <2>3. CASE m_value = cur[t] /\ ~ans[t]
    <3>1. pc[t] = "cas" /\ pc' = [pc EXCEPT ![t] = "idle"] /\ Return(t) /\ UNCHANGED w_lock
          /\ m_value' = m_value
      BY <1>4, <2>3 DEF try_exchange
    <3>2. Readers' = Readers /\ Counted' = Counted
      BY <1>0, <3>1 DEF Readers, Counted
    <3>3. m_value' \in Value /\ ValueExact'
      BY <3>1, <3>2, SameCounts
    <3>4. TypeOK'
      BY <1>0, <1>1, <3>1, <3>3, ReturnTyped DEF TypeOK
    <3>5. ReadersOut'
      BY <1>0, <3>1, <3>2 DEF IInv, ReadersOut, Past
    <3>6. OneHolds' /\ TrySaw'
      BY <1>0, <3>1 DEF Return, IInv, TypeOK, OneHolds, TrySaw, Holds
    <3> QED
      BY <3>3, <3>4, <3>5, <3>6 DEF IInv
  <2> QED
    BY <1>0, <2>1, <2>2, <2>3 DEF TypeOK
<1> QED
  BY <1>2, <1>3, <1>4

(* writer::try_lock_backoff: counted while there is no reader, then a try   *)
(* of w_lock.                                                              *)
LEMMA BackoffIInv ==
  ASSUME IInv, NEW t \in Threads, backoff_count(t) \/ backoff_wait(t) \/ backoff_try(t)
  PROVE  IInv'
<1> USE RWLockAssumption DEF Goto
<1>0. pc \in [Threads -> Places] /\ TypeOK
  BY DEF IInv, TypeOK
<1>1. pc' \in [Threads -> Places]
  BY <1>0 DEF backoff_count, backoff_wait, backoff_try, Places
<1>2. CASE backoff_count(t) /\ m_value.readers = 0
  <2>1. /\ pc[t] = "count" /\ pc' = [pc EXCEPT ![t] = "btry"]
        /\ m_value' = plus_writer(m_value) /\ UNCHANGED w_lock /\ Locals
    BY <1>2 DEF backoff_count
  <2>2. t \notin Counted /\ Counted' = Counted \cup {t} /\ Readers' = Readers
    BY <1>0, <2>1 DEF Readers, Counted
  <2>3. m_value' \in Value /\ ValueExact'
    BY <2>1, <2>2, WriterIn
  <2>4. TypeOK'
    BY <1>0, <1>1, <2>1, <2>3 DEF Locals, TypeOK
  <2>5. Readers' = {}
    BY <1>2, <2>2, CountsZero
  <2>6. ReadersOut' /\ OneHolds' /\ TrySaw'
    BY <1>0, <2>1, <2>5 DEF Locals, IInv, ReadersOut, OneHolds, TrySaw, Holds
  <2> QED
    BY <2>3, <2>4, <2>6 DEF IInv
<1>3. CASE backoff_wait(t) \/ (backoff_count(t) /\ m_value.readers # 0)
  <2>1. /\ pc[t] \in {"count", "bwait"}
        /\ \/ UNCHANGED pc
           \/ pc' = [pc EXCEPT ![t] = "count"] \/ pc' = [pc EXCEPT ![t] = "bwait"]
        /\ UNCHANGED <<m_value, w_lock, op, cur, ans>>
    BY <1>3 DEF backoff_wait, backoff_count, Locals
  <2>2. budget' \in [Threads -> 0 .. BackoffWidth - 1]
    <3>1. CASE UNCHANGED budget
      BY <1>0, <3>1 DEF TypeOK
    <3>2. CASE budget' = [budget EXCEPT ![t] = (@ + BackoffWidth - 1) % BackoffWidth]
      BY <1>0, <3>2 DEF TypeOK
    <3> QED
      BY <1>3, <3>1, <3>2 DEF backoff_wait, backoff_count, Locals
  <2>3. Readers' = Readers /\ Counted' = Counted
    BY <1>0, <2>1 DEF Readers, Counted
  <2>4. m_value' \in Value /\ ValueExact'
    BY <2>1, <2>3, SameCounts
  <2>5. TypeOK'
    BY <1>0, <1>1, <2>1, <2>2, <2>4 DEF TypeOK
  <2>6. ReadersOut'
    BY <1>0, <2>1, <2>3 DEF IInv, ReadersOut, Past
  <2>7. OneHolds' /\ TrySaw'
    BY <1>0, <2>1 DEF IInv, OneHolds, TrySaw, Holds
  <2> QED
    BY <2>4, <2>5, <2>6, <2>7 DEF IInv
<1>4. CASE backoff_try(t)
  <2>1. /\ pc[t] = "btry" /\ Return(t) /\ UNCHANGED m_value
        /\ \/ pc' = [pc EXCEPT ![t] = "writing"] /\ ~w_lock /\ w_lock'
           \/ pc' = [pc EXCEPT ![t] = "uncount"] /\ UNCHANGED w_lock
    BY <1>4 DEF backoff_try
  <2>2. Readers' = Readers /\ Counted' = Counted
    BY <1>0, <2>1 DEF Readers, Counted
  <2>3. m_value' \in Value /\ ValueExact'
    BY <2>1, <2>2, SameCounts
  <2>4. w_lock' \in BOOLEAN
    BY <1>0, <1>4 DEF backoff_try, TypeOK
  <2>5. TypeOK'
    BY <1>0, <1>1, <2>1, <2>3, <2>4, ReturnTyped DEF TypeOK
  <2>6. ReadersOut'
    BY <1>0, <2>1, <2>2 DEF IInv, ReadersOut, Past
  <2>7. OneHolds' /\ TrySaw'
    BY <1>0, <2>1 DEF Return, IInv, TypeOK, OneHolds, TrySaw, Holds
  <2> QED
    BY <2>3, <2>5, <2>6, <2>7 DEF IInv
<1> QED
  BY <1>2, <1>3, <1>4

(* The invariant holds after every step.                                    *)
LEMMA NextIInv == IInv /\ [Next]_vars => IInv'
<1> SUFFICES ASSUME IInv, [Next]_vars PROVE IInv'
  OBVIOUS
<1>1. ASSUME NEW t \in Threads, Step(t)
      PROVE  IInv'
  BY <1>1, ReaderIInv, WriterIInv, TryIInv, BackoffIInv DEF Step
<1>2. ASSUME NEW t \in Threads, Unlock(t)
      PROVE  IInv'
  BY <1>2, ReaderIInv, WriterIInv DEF Unlock
<1>3. ASSUME NEW t \in Threads, NEW o \in Ops, Call(t, o)
      PROVE  IInv'
  BY <1>3, CallIInv
<1>4. CASE UNCHANGED vars
  <2>1. Readers' = Readers /\ Counted' = Counted
    BY <1>4 DEF vars, Readers, Counted
  <2>2. TypeOK'
    BY <1>4 DEF vars, IInv, TypeOK
  <2>3. ValueExact' /\ ReadersOut' /\ OneHolds' /\ TrySaw'
    BY <1>4, <2>1 DEF vars, IInv, ValueExact, ReadersOut, OneHolds, TrySaw, Holds
  <2> QED
    BY <2>2, <2>3 DEF IInv
<1> QED
  BY <1>1, <1>2, <1>3, <1>4 DEF Next

-----------------------------------------------------------------------------
(* Every variable keeps its type: the writers never carry into the readers' *)
(* bits and no budget leaves its width (spin_rw_lock_sleep).               *)
THEOREM RWTypeCorrect == Spec => []TypeOK
<1>1. IInv => TypeOK
  BY DEF IInv
<1> QED
  BY InitIInv, NextIInv, <1>1, PTL DEF Spec

(* m_value counts the readers and the writers exactly, however many threads *)
(* enter, fail and retry at once (spin_rw_lock_sleep).                     *)
THEOREM ValueAlwaysExact == Spec => []ValueExact
<1>1. IInv => ValueExact
  BY DEF IInv
<1> QED
  BY InitIInv, NextIInv, <1>1, PTL DEF Spec

(* A writer is in alone, for any number of threads and any mix of lock,     *)
(* try_lock and the tries with a budget (spin_rw_lock_sleep).              *)
THEOREM WriterAlone == Spec => []MutualExclusion
<1>1. IInv => MutualExclusion
  <2> SUFFICES ASSUME IInv, NEW t \in Threads, NEW u \in Threads, pc[t] = "writing", t # u
               PROVE  pc[u] \notin {"reading", "writing"}
    BY DEF MutualExclusion
  <2>1. pc[u] # "reading"
    BY DEF IInv, ReadersOut, Past, Readers
  <2>2. pc[u] # "writing"
    BY DEF IInv, OneHolds, Holds
  <2> QED
    BY <2>1, <2>2
<1> QED
  BY InitIInv, NextIInv, <1>1, PTL DEF Spec

(* While a writer is counted no reader enters (reader::lock and the tries). *)
THEOREM WritersGoFirst == Spec => WritersFirst
<1>1. ASSUME IInv, [Next]_vars
      PROVE  [\A t \in Threads : (pc[t] # "reading" /\ pc'[t] = "reading") => Counted = {}]_vars
  <2> USE DEF Goto
  <2>0. pc \in [Threads -> Places]
    BY <1>1 DEF IInv, TypeOK
  <2> SUFFICES ASSUME Next, NEW t \in Threads, pc[t] # "reading", pc'[t] = "reading"
               PROVE  Counted = {}
    BY <1>1
  <2>1. PICK u \in Threads : Step(u) \/ Unlock(u) \/ \E o \in Ops : Call(u, o)
    BY DEF Next
  <2>2. reader_enter(u) /\ m_value.writers = 0
    <3>1. ASSUME NEW o \in Ops, Call(u, o)
          PROVE  FALSE
      BY <2>0, <3>1 DEF Call
    <3>2. ~(writer_drain(u) \/ writer_lock(u) \/ writer_unlock(u) \/ uncount(u) \/ reader_unlock(u))
      BY <2>0 DEF writer_drain, writer_lock, writer_unlock, uncount, reader_unlock
    <3>3. ~(try_load(u) \/ try_modify(u) \/ try_exchange(u))
      BY <2>0 DEF try_load, try_modify, try_exchange
    <3>4. ~(backoff_count(u) \/ backoff_wait(u) \/ backoff_try(u) \/ reader_wait(u))
      BY <2>0 DEF backoff_count, backoff_wait, backoff_try, reader_wait
    <3>5. reader_enter(u)
      BY <2>1, <3>1, <3>2, <3>3, <3>4 DEF Step, Unlock
    <3> QED
      BY <2>0, <3>5 DEF reader_enter
  <2> QED
    BY <1>1, <2>2, CountsZero
<1> QED
  BY InitIInv, NextIInv, <1>1, PTL DEF Spec, WritersFirst

(* The three together: whoever calls what, the counts are what the threads  *)
(* that are counted make them, stay in their widths, and a writer is in     *)
(* alone (spin_rw_lock_sleep's reader and writer).                                *)
THEOREM RWLockSafe == Spec => []RWSafe
<1> QED
  BY RWTypeCorrect, WriterAlone, ValueAlwaysExact, PTL DEF RWSafe
===============================================================================
