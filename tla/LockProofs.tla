------------------------------- MODULE LockProofs -------------------------------
(***************************************************************************)
(* What SpinLock promises, for any number of threads and any budget: its   *)
(* flag has one holder, its steps are those of Lock, and an operation that *)
(* fails had a reason to.                                                  *)
(***************************************************************************)
EXTENDS SpinLock, FiniteSetTheorems, TLAPS

-----------------------------------------------------------------------------
(* The flag is set while somebody is in, and nobody is in beside another.   *)
OneHolder ==
  /\ \A t \in Thread : pc[t] = "held" => m_lock
  /\ \A t, u \in Thread : pc[t] = "held" /\ pc[u] = "held" => t = u
  /\ m_lock => \E t \in Thread : pc[t] = "held"

(* Who found the flag set, or is in an operation while it is set, has seen  *)
(* it held.                                                                *)
SeenWhenHeld ==
  \A t \in Thread :
    /\ pc[t] # "idle" /\ m_lock => seen[t]
    /\ pc[t] \in {"spin", "failed"} => seen[t]

IInv == TypeOK /\ OneHolder /\ SeenWhenHeld

(* No operation has begun, and the flag is not set.                         *)
LEMMA InitIInv == Init => IInv
<1> SUFFICES ASSUME Init PROVE IInv
  OBVIOUS
<1>1. TypeOK
  <2>1. max_spin \in [Thread -> 0 .. MaxSpin]
    BY SpinLockAssumption DEF Init
  <2>2. call \in [Thread -> Calls] /\ seen \in [Thread -> BOOLEAN]
    BY DEF Init, Calls
  <2>3. pc \in [Thread -> {"idle", "exchange", "spin", "tryLoad", "tryExchange",
                          "held", "failed"}]
    BY DEF Init
  <2> QED
    BY <2>1, <2>2, <2>3 DEF Init, TypeOK
<1>2. OneHolder /\ SeenWhenHeld
  BY DEF Init, OneHolder, SeenWhenHeld
<1> QED
  BY <1>1, <1>2 DEF IInv

(* An exchange lets one thread in, and only while nobody is in.             *)
LEMMA ExchangeIInv ==
  ASSUME IInv, NEW t \in Thread,
         NEW from \in {"exchange", "tryExchange"}, NEW otherwise \in {"spin", "failed"},
         exchange(t, from, otherwise)
  PROVE  IInv'
<1>1. CASE ~m_lock /\ Goto(t, from, "held") /\ seen' = [u \in Thread |-> TRUE]
  <2>1. TypeOK'
    BY <1>1 DEF exchange, Goto, IInv, TypeOK
  <2>2. OneHolder'
    BY <1>1 DEF exchange, Goto, IInv, TypeOK, OneHolder
  <2>3. SeenWhenHeld'
    BY <1>1 DEF exchange, Goto, IInv, TypeOK, SeenWhenHeld
  <2> QED
    BY <2>1, <2>2, <2>3 DEF IInv
<1>2. CASE m_lock /\ Goto(t, from, otherwise) /\ UNCHANGED seen
  <2>1. TypeOK'
    BY <1>2 DEF exchange, Goto, IInv, TypeOK
  <2>2. OneHolder'
    BY <1>2 DEF exchange, Goto, IInv, TypeOK, OneHolder
  <2>3. SeenWhenHeld'
    BY <1>2 DEF exchange, Goto, IInv, TypeOK, SeenWhenHeld
  <2> QED
    BY <2>1, <2>2, <2>3 DEF IInv
<1> QED
  BY <1>1, <1>2 DEF exchange

(* The invariant holds after every step.                                    *)
LEMMA NextIInv == IInv /\ [Next]_vars => IInv'
<1> SUFFICES ASSUME IInv, [Next]_vars PROVE IInv'
  OBVIOUS
<1> USE SpinLockAssumption DEF Goto
<1>1. ASSUME NEW t \in Thread, NEW o \in Calls, Call(t, o)
      PROVE  IInv'
  <2>1. TypeOK'
    BY <1>1 DEF Call, IInv, TypeOK
  <2>2. OneHolder'
    BY <1>1 DEF Call, IInv, TypeOK, OneHolder
  <2>3. SeenWhenHeld'
    BY <1>1 DEF Call, IInv, TypeOK, SeenWhenHeld
  <2> QED
    BY <2>1, <2>2, <2>3 DEF IInv
<1>2. ASSUME NEW t \in Thread, exchange(t, "exchange", "spin")
      PROVE  IInv'
  BY <1>2, ExchangeIInv
<1>3. ASSUME NEW t \in Thread, exchange(t, "tryExchange", "failed")
      PROVE  IInv'
  BY <1>3, ExchangeIInv
<1>4. ASSUME NEW t \in Thread, spin(t)
      PROVE  IInv'
  <2>1. TypeOK'
    <3>1. max_spin' \in [Thread -> 0 .. MaxSpin]
      BY <1>4 DEF spin, pause, IInv, TypeOK
    <3> QED
      BY <1>4, <3>1 DEF spin, IInv, TypeOK
  <2>2. OneHolder'
    BY <1>4 DEF spin, IInv, TypeOK, OneHolder
  <2>3. SeenWhenHeld'
    BY <1>4 DEF spin, IInv, TypeOK, SeenWhenHeld
  <2> QED
    BY <2>1, <2>2, <2>3 DEF IInv
<1>5. ASSUME NEW t \in Thread, try_load(t)
      PROVE  IInv'
  <2>1. TypeOK'
    BY <1>5 DEF try_load, IInv, TypeOK
  <2>2. OneHolder'
    BY <1>5 DEF try_load, IInv, TypeOK, OneHolder
  <2>3. SeenWhenHeld'
    BY <1>5 DEF try_load, IInv, TypeOK, SeenWhenHeld
  <2> QED
    BY <2>1, <2>2, <2>3 DEF IInv
<1>6. ASSUME NEW t \in Thread, return_false(t)
      PROVE  IInv'
  <2>1. TypeOK'
    BY <1>6 DEF return_false, IInv, TypeOK
  <2>2. OneHolder' /\ SeenWhenHeld'
    BY <1>6 DEF return_false, IInv, TypeOK, OneHolder, SeenWhenHeld
  <2> QED
    BY <2>1, <2>2 DEF IInv
<1>7. ASSUME NEW t \in Thread, unlock(t)
      PROVE  IInv'
  <2>1. TypeOK'
    BY <1>7 DEF unlock, IInv, TypeOK
  <2>2. OneHolder'
    BY <1>7 DEF unlock, IInv, TypeOK, OneHolder
  <2>3. SeenWhenHeld'
    BY <1>7 DEF unlock, IInv, TypeOK, SeenWhenHeld
  <2> QED
    BY <2>1, <2>2, <2>3 DEF IInv
<1>8. CASE UNCHANGED vars
  BY <1>8 DEF vars, IInv, TypeOK, OneHolder, SeenWhenHeld
<1> QED
  BY <1>1, <1>2, <1>3, <1>4, <1>5, <1>6, <1>7, <1>8 DEF Next

-----------------------------------------------------------------------------
(* Every variable of SpinLock keeps its type; no budget goes below zero.    *)
THEOREM SpinTypeCorrect == Spec => []TypeOK
<1>1. IInv => TypeOK
  BY DEF IInv
<1> QED
  BY InitIInv, NextIInv, <1>1, PTL DEF Spec

(* A lock operation that returns false has had the lock held by somebody    *)
(* else since it was called (spin_lock_sleep.h try_lock, try_lock_for).    *)
THEOREM FailureJustified == Spec => []FailsOnlyIfHeld
<1>1. IInv => FailsOnlyIfHeld
  BY DEF IInv, SeenWhenHeld, FailsOnlyIfHeld
<1> QED
  BY InitIInv, NextIInv, <1>1, PTL DEF Spec

(* The lock has one holder (spin_lock.h, spin_lock_sleep.h lock, unlock).   *)
THEOREM HoldersAlone == Spec => [](Cardinality(Holders) =< 1)
<1>1. IInv => Cardinality(Holders) =< 1
  <2> SUFFICES ASSUME IInv PROVE Cardinality(Holders) =< 1
    OBVIOUS
  <2>1. CASE Holders = {}
    BY <2>1, FS_EmptySet
  <2>2. CASE Holders # {}
    <3>1. PICK t \in Thread : t \in Holders
      BY <2>2 DEF Holders
    <3>2. Holders = {t}
      BY <3>1 DEF Holders, IInv, OneHolder
    <3> QED
      BY <3>2, FS_Singleton
  <2> QED
    BY <2>1, <2>2
<1> QED
  BY InitIInv, NextIInv, <1>1, PTL DEF Spec

-----------------------------------------------------------------------------
(* Nobody holds the lock and nobody tries.                                  *)
LEMMA InitLock == Init => L!Init
  BY DEF Init, L!Init, Holders, Trying

(* A step of a thread is a step of Lock, or Lock does not see it.           *)
LEMMA NextLock == IInv /\ [Next]_vars => [L!Next]_L!vars
<1> SUFFICES ASSUME IInv, [Next]_vars PROVE [L!Next]_L!vars
  OBVIOUS
<1> USE DEF Goto
<1>0. pc \in [Thread -> {"idle", "exchange", "spin", "tryLoad", "tryExchange", "held", "failed"}]
  BY DEF IInv, TypeOK
<1>1. ASSUME NEW t \in Thread, Trying' = Trying \cup {t}, t \notin Trying \cup Holders,
             Holders' = Holders
      PROVE  [L!Next]_L!vars
  BY <1>1 DEF L!Next, L!Call
<1>2. ASSUME NEW t \in Thread, t \in Trying, Trying' = Trying \ {t},
             Holders = {}, Holders' = {t}
      PROVE  [L!Next]_L!vars
  BY <1>2 DEF L!Next, L!Acquire
<1>3. ASSUME NEW t \in Thread, t \in Trying, Trying' = Trying \ {t}, Holders' = Holders
      PROVE  [L!Next]_L!vars
  BY <1>3 DEF L!Next, L!GiveUp
<1>4. ASSUME NEW t \in Thread, t \in Holders, Holders' = Holders \ {t}, Trying' = Trying
      PROVE  [L!Next]_L!vars
  BY <1>4 DEF L!Next, L!Release
<1>5. ASSUME Trying' = Trying, Holders' = Holders
      PROVE  [L!Next]_L!vars
  BY <1>5 DEF L!vars
<1>6. ASSUME NEW t \in Thread, NEW from \in {"exchange", "tryExchange"},
             NEW otherwise \in {"spin", "failed"}, exchange(t, from, otherwise)
      PROVE  [L!Next]_L!vars
  <2>1. CASE ~m_lock /\ Goto(t, from, "held")
    <3>1. Holders = {}
      BY <2>1 DEF IInv, OneHolder, Holders
    <3>2. Holders' = {t}
      BY <1>0, <2>1 DEF IInv, OneHolder, Holders
    <3>3. t \in Trying /\ Trying' = Trying \ {t}
      BY <1>0, <2>1 DEF Trying
    <3> QED
      BY <1>2, <3>1, <3>2, <3>3
  <2>2. CASE Goto(t, from, otherwise)
    <3>1. Holders' = Holders
      BY <1>0, <2>2 DEF Holders
    <3>2. t \in Trying /\ (Trying' = Trying \/ Trying' = Trying \ {t})
      BY <1>0, <2>2 DEF Trying
    <3> QED
      BY <1>3, <1>5, <3>1, <3>2
  <2> QED
    BY <1>6, <2>1, <2>2 DEF exchange
<1>7. ASSUME NEW t \in Thread, NEW o \in Calls, Call(t, o)
      PROVE  [L!Next]_L!vars
  <2>1. Holders' = Holders
    BY <1>0, <1>7 DEF Call, Holders
  <2>2. t \notin Trying \cup Holders /\ Trying' = Trying \cup {t}
    BY <1>0, <1>7 DEF Call, Trying, Holders
  <2> QED
    BY <1>1, <2>1, <2>2
<1>8. ASSUME NEW t \in Thread, spin(t)
      PROVE  [L!Next]_L!vars
  <2>1. Holders' = Holders
    BY <1>0, <1>8 DEF spin, Holders
  <2>2. t \in Trying /\ (Trying' = Trying \/ Trying' = Trying \ {t})
    BY <1>0, <1>8 DEF spin, Trying
  <2> QED
    BY <1>3, <1>5, <2>1, <2>2
<1>9. ASSUME NEW t \in Thread, try_load(t)
      PROVE  [L!Next]_L!vars
  <2>1. Holders' = Holders
    BY <1>0, <1>9 DEF try_load, Holders
  <2>2. t \in Trying /\ (Trying' = Trying \/ Trying' = Trying \ {t})
    BY <1>0, <1>9 DEF try_load, Trying
  <2> QED
    BY <1>3, <1>5, <2>1, <2>2
<1>10. ASSUME NEW t \in Thread, return_false(t)
       PROVE  [L!Next]_L!vars
  <2>1. Holders' = Holders /\ Trying' = Trying
    BY <1>0, <1>10 DEF return_false, Holders, Trying
  <2> QED
    BY <1>5, <2>1
<1>11. ASSUME NEW t \in Thread, unlock(t)
       PROVE  [L!Next]_L!vars
  <2>1. t \in Holders /\ Holders' = Holders \ {t}
    BY <1>0, <1>11 DEF unlock, Holders
  <2>2. Trying' = Trying
    BY <1>0, <1>11 DEF unlock, Trying
  <2> QED
    BY <1>4, <2>1, <2>2
<1>12. CASE UNCHANGED vars
  BY <1>5, <1>12 DEF vars, Holders, Trying
<1> QED
  BY <1>6, <1>7, <1>8, <1>9, <1>10, <1>11, <1>12 DEF Next

(* The flag, exchanged and read by any number of threads, is a lock: one of *)
(* them is in at a time (spin_lock.h, spin_lock_sleep.h).                   *)
THEOREM SpinIsLock == Spec => ImplementsLock
<1>1. Spec => []IInv
  BY InitIInv, NextIInv, PTL DEF Spec
<1> QED
  BY <1>1, InitLock, NextLock, PTL DEF Spec, ImplementsLock, L!Spec
===============================================================================
