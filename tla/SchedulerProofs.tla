---------------------------- MODULE SchedulerProofs ----------------------------
EXTENDS Scheduler, FiniteSetTheorems, TLAPS

(* What a thread's locals are at each place in the code.                    *)
PcTyping ==
  /\ \A t \in Thread : pc[t] \in ApplyPc => arg[t] \in Co
  /\ \A t \in Thread : pc[t] \in ApplyPc \ {"apply"} => target[t] \in Sched
  /\ \A s \in Sched : pc[s] \in {"run", "leave", "dying", "start"} => current[s] \in Co
  /\ \A s \in Sched : pc[s] \in {"stealLock", "stealMove"} => victim[s] \in Sched \ {s}

TypeInv == TypeOK /\ PcTyping

LEMMA ThreadSets == Sched \subseteq Thread /\ Timer \subseteq Thread /\ None \notin Thread
BY ConstantsAssumption DEF Sched, Thread, Timer, None

LEMMA InitTypeInv == Init => TypeInv
BY ConstantsAssumption, ThreadSets
   DEF Init, TypeInv, TypeOK, PcTyping, Sched, Thread, Timer, None, Home, Status, Pc, ApplyPc,
       PickPc, BufferPc, CoPc

(* A local vector is finite: its size is a natural number.                  *)
LEMMA BagSize == ASSUME TypeInv, NEW t \in Thread PROVE Cardinality(bag[t]) \in Nat
<1>1. bag[t] \subseteq Co
  BY DEF TypeInv, TypeOK
<1> QED BY <1>1, ConstantsAssumption, FS_Subset, FS_CardinalityType

(* The loop index of stealing_work stays within the array of schedulers.    *)
LEMMA VictimBound == /\ \A v \in Sched : v + 1 \in 0 .. CPU_CORE
                     /\ \A v \in 0 .. CPU_CORE : v < CPU_CORE => v \in Sched
BY ConstantsAssumption DEF Sched

LEMMA TypeInvStep == TypeInv /\ [Next]_vars => TypeInv'
<1> SUFFICES ASSUME TypeInv, [Next]_vars PROVE TypeInv'
  OBVIOUS
<1> USE ThreadSets DEF TypeInv, TypeOK, PcTyping, Goto, queueVars, coVars, threadVars,
    Status, Pc,
        ApplyPc, PickPc, BufferPc, CoPc
<1>1. ASSUME NEW t \in Thread, ApplyStep(t) PROVE TypeInv'
  <2>1. CASE \E s \in Sched : apply_impl(t, s)
    BY <2>1 DEF apply_impl, get_ready_to_push, SetAll
  <2>2. CASE try_lock(t)
    <3>1. CASE Acquire(t, target[t], "tryLock", "push")
      BY <2>2, <3>1 DEF try_lock, Acquire
    <3>2. CASE ~Acquire(t, target[t], "tryLock", "push")
      BY <2>2, <3>2, SMTT(30) DEF try_lock
    <3> QED BY <3>1, <3>2
  <2>3. CASE push_to_ready(t)
    BY <2>3 DEF push_to_ready
  <2>4. CASE apply_ready_lazy(t)
    <3>1. CASE Goto(t, "lazy", "signal")
      BY <2>4, <3>1 DEF apply_ready_lazy
    <3>2. CASE Goto(t, "lazy", "drain")
      BY <2>4, <3>2 DEF apply_ready_lazy
    <3> QED BY <2>4, <3>1, <3>2 DEF apply_ready_lazy
  <2>5. CASE \E s \in Sched, c \in Co : s = target[t] /\ PopBuffer(t, s, "drain", c)
    BY <2>5 DEF PopBuffer
  <2>6. CASE drain_end(t)
    BY <2>6 DEF drain_end, get_ready_to_push, SetAll
  <2>7. CASE overflow_lock(t)
    BY <2>7 DEF overflow_lock, Acquire
  <2>8. CASE overflow_push(t)
    BY <2>8, BagSize DEF overflow_push, push_all_to_ready
  <2>9. CASE signal(t)
    BY <2>9 DEF signal, Return
  <2> QED BY <1>1, <2>1, <2>2, <2>3, <2>4, <2>5, <2>6, <2>7, <2>8, <2>9 DEF ApplyStep
<1>2. ASSUME NEW t \in Thread, NEW c \in Co, Wake(t, c) PROVE TypeInv'
  BY <1>2 DEF Wake
<1>3. ASSUME NEW s \in Sched, CoStep(s) PROVE TypeInv'
  <2>1. CASE \E c \in Co : Create(s, c)
    BY <2>1 DEF Create
  <2>2. CASE WaitOn(s)
    BY <2>2 DEF WaitOn
  <2>3. CASE coroutine_sleep(s)
    BY <2>3 DEF coroutine_sleep
  <2>4. CASE coroutine_await(s)
    BY <2>4 DEF coroutine_await
  <2>5. CASE coroutine_yield(s)
    BY <2>5 DEF coroutine_yield
  <2>6. CASE coroutine_dead(s)
    BY <2>6 DEF coroutine_dead
  <2> QED BY <1>3, <2>1, <2>2, <2>3, <2>4, <2>5, <2>6 DEF CoStep
<1>4. ASSUME NEW s \in Sched, PickStep(s) PROVE TypeInv'
  <2>1. CASE pick_try_wait(s)
    BY <2>1, SMTT(30) DEF pick_try_wait
  <2>2. CASE steal_look(s)
    <3>1. CASE NextVictim(s) /\ UNCHANGED pc
      BY <2>2, <3>1, ConstantsAssumption DEF steal_look, NextVictim
    <3>2. CASE Goto(s, "steal", "stealLock") /\ UNCHANGED victim
      <4>1. victim[s] \in Sched
        BY <2>2, <3>2, VictimBound DEF steal_look
      <4> QED BY <2>2, <3>2, <4>1 DEF steal_look
    <3> QED BY <2>2, <3>1, <3>2 DEF steal_look
  <2>3. CASE steal_lock(s)
    BY <2>3 DEF steal_lock, Acquire
  <2>4. CASE \E c \in Co : steal_one(s, c)
    BY <2>4 DEF steal_one
  <2>5. CASE steal_unlock(s)
    <3>1. victim[s] \in Sched
      BY <2>5 DEF steal_unlock
    <3>2. victim' \in [Sched -> 0 .. CPU_CORE]
      BY <2>5, <3>1, VictimBound DEF steal_unlock, NextVictim
    <3> QED BY <2>5, <3>1, <3>2 DEF steal_unlock, NextVictim
  <2>6. CASE steal_end(s)
    <3> victim' \in [Sched -> 0 .. CPU_CORE]
      BY <2>6, ConstantsAssumption DEF steal_end
    <3>1. CASE Goto(s, "steal", "try2") /\ UNCHANGED coVars
      BY <2>6, <3>1 DEF steal_end
    <3>2. CASE Goto(s, "steal", "stLock") /\ get_ready_to_push(s, bag[s])
               /\ occupyThread' = SetAll(occupyThread, bag[s], s) /\ UNCHANGED <<stkActive, parked>>
      BY <2>6, <3>2 DEF steal_end, get_ready_to_push, SetAll
    <3> QED BY <2>6, <3>1, <3>2 DEF steal_end
  <2>7. CASE loot_lock(s)
    BY <2>7 DEF loot_lock, Acquire
  <2>8. CASE loot_push(s)
    BY <2>8, BagSize DEF loot_push, push_all_to_ready
  <2>9. CASE second_try_wait(s)
    <3>1. CASE Goto(s, "try2", "endSteal")
      BY <2>9, <3>1 DEF second_try_wait
    <3>2. CASE Goto(s, "try2", "block")
      BY <2>9, <3>2, SMTT(30) DEF second_try_wait
    <3> QED BY <2>9, <3>1, <3>2 DEF second_try_wait
  <2>10. CASE sem_wait(s)
    BY <2>10 DEF sem_wait
  <2>11. CASE check_ready_count(s)
    BY <2>11 DEF check_ready_count
  <2>12. CASE recheck_lock(s)
    BY <2>12 DEF recheck_lock, Acquire
  <2>13. CASE recheck(s)
    <3>1. CASE Goto(s, "pullTest", "end")
      BY <2>13, <3>1 DEF recheck
    <3>2. CASE Goto(s, "pullTest", "pull")
      BY <2>13, <3>2 DEF recheck
    <3> QED BY <2>13, <3>1, <3>2 DEF recheck
  <2>14. CASE \E c \in Co : PopBuffer(s, s, "pullPop", c)
    BY <2>14 DEF PopBuffer
  <2>15. CASE pull_end(s)
    <3>1. CASE Goto(s, "pullPop", "pull") /\ UNCHANGED coVars
      BY <2>15, <3>1 DEF pull_end
    <3>2. CASE Goto(s, "pullPop", "pbLock") /\ get_ready_to_push(s, bag[s])
               /\ UNCHANGED <<occupyThread, stkActive, parked>>
      BY <2>15, <3>2 DEF pull_end, get_ready_to_push, SetAll
    <3> QED BY <2>15, <3>1, <3>2 DEF pull_end
  <2>16. CASE buffer_lock(s)
    BY <2>16 DEF buffer_lock, Acquire
  <2>17. CASE buffer_push(s)
    BY <2>17, BagSize DEF buffer_push, push_all_to_ready
  <2>18. CASE end_lock(s)
    BY <2>18 DEF end_lock, Acquire
  <2>19. CASE pickup_assert(s)
    BY <2>19 DEF pickup_assert
  <2>20. CASE \E c \in Co : pickup_pop(s, c)
    BY <2>20 DEF pickup_pop
  <2>21. CASE run(s)
    BY <2>21 DEF run
  <2>22. CASE process_co_exec_end(s)
    BY <2>22 DEF process_co_exec_end
  <2>23. CASE dead_end(s)
    BY <2>23 DEF dead_end
  <2> QED BY <1>4, <2>1, <2>2, <2>3, <2>4, <2>5, <2>6, <2>7, <2>8, <2>9, <2>10, <2>11,
      <2>12, <2>13, <2>14, <2>15, <2>16, <2>17, <2>18, <2>19, <2>20, <2>21, <2>22, <2>23
      DEF PickStep
<1>5. CASE UNCHANGED vars
  BY <1>5 DEF vars
<1> QED BY <1>1, <1>2, <1>3, <1>4, <1>5 DEF Next

(* Every variable keeps its type in every execution, for any number of      *)
(* schedulers, timer threads and coroutines: no index of stealing_work      *)
(* leaves the array of schedulers, no semaphore goes below zero.            *)
THEOREM TypeCorrect == Spec => []TypeOK
<1>1. Spec => []TypeInv
  BY InitTypeInv, TypeInvStep, PTL DEF Spec
<1>2. TypeInv => TypeOK
  BY DEF TypeInv
<1> QED BY <1>1, <1>2, PTL

-----------------------------------------------------------------------------
(* The locks.                                                               *)

(* The places in the code where a thread may, and must, hold sched_lock.    *)
MayHold(t, s) ==
  \/ pc[t] \in {"push", "ovPush"} /\ target[t] = s
  \/ pc[t] = "stealMove" /\ victim[t] = s
  \/ pc[t] \in {"stPush", "try2", "pullTest", "pbPush", "end", "endSteal", "abort"} /\ t = s

MustHold(t, s) ==
  \/ pc[t] \in {"push", "ovPush"} /\ target[t] = s
  \/ pc[t] = "stealMove" /\ victim[t] = s
  \/ pc[t] \in {"stPush", "pullTest", "pbPush"} /\ t = s

(* Threads other than the schedulers do nothing but apply.                  *)
LockInv ==
  /\ \A t \in Thread : pc[t] \in ApplyPc \cup {"idle"} \/ t \in Sched
  /\ \A t \in Thread, s \in Sched : schedLock[s] = t => MayHold(t, s)
  /\ \A t \in Thread, s \in Sched : MustHold(t, s) => schedLock[s] = t

LEMMA InitLockInv == Init => LockInv
BY ConstantsAssumption, ThreadSets
   DEF Init, LockInv, MayHold, MustHold, Sched, Thread, Timer, None, Home, ApplyPc

LEMMA LockInvStep == TypeInv /\ LockInv /\ [Next]_vars => LockInv'
<1> SUFFICES ASSUME TypeInv, LockInv, [Next]_vars PROVE LockInv'
  OBVIOUS
<1> USE ThreadSets DEF TypeInv, TypeOK, PcTyping, LockInv, MayHold, MustHold, Goto,
    queueVars,
        coVars, threadVars, ApplyPc
<1>1. ASSUME NEW t \in Thread, ApplyStep(t) PROVE LockInv'
  <2>1. CASE \E s \in Sched : apply_impl(t, s)
    BY <2>1 DEF apply_impl, get_ready_to_push, SetAll
  <2>2. CASE try_lock(t)
    <3>1. CASE Acquire(t, target[t], "tryLock", "push")
      BY <2>2, <3>1 DEF try_lock, Acquire
    <3>2. CASE Goto(t, "tryLock", "lazy") /\ UNCHANGED schedLock
      BY <2>2, <3>2 DEF try_lock, Acquire
    <3> QED BY <2>2, <3>1, <3>2 DEF try_lock, Acquire
  <2>3. CASE push_to_ready(t)
    BY <2>3 DEF push_to_ready
  <2>4. CASE apply_ready_lazy(t)
    <3>1. CASE Goto(t, "lazy", "signal")
      BY <2>4, <3>1 DEF apply_ready_lazy
    <3>2. CASE Goto(t, "lazy", "drain")
      BY <2>4, <3>2 DEF apply_ready_lazy
    <3> QED BY <2>4, <3>1, <3>2 DEF apply_ready_lazy
  <2>5. CASE \E s \in Sched, c \in Co : s = target[t] /\ PopBuffer(t, s, "drain", c)
    BY <2>5 DEF PopBuffer
  <2>6. CASE drain_end(t)
    BY <2>6 DEF drain_end, get_ready_to_push, SetAll
  <2>7. CASE overflow_lock(t)
    BY <2>7 DEF overflow_lock, Acquire
  <2>8. CASE overflow_push(t)
    BY <2>8 DEF overflow_push, push_all_to_ready
  <2>9. CASE signal(t)
    <3>1. Return(t) \in {"idle", "pick", "dying", "run"} /\ (t \in Sched \/ Return(t) = "idle")
      BY ThreadSets, ConstantsAssumption DEF Return, Sched, Timer, Thread
    <3> QED BY <2>9, <3>1 DEF signal
  <2> QED BY <1>1, <2>1, <2>2, <2>3, <2>4, <2>5, <2>6, <2>7, <2>8, <2>9 DEF ApplyStep
<1>2. ASSUME NEW t \in Thread, NEW c \in Co, Wake(t, c) PROVE LockInv'
  BY <1>2 DEF Wake
<1>3. ASSUME NEW s \in Sched, CoStep(s) PROVE LockInv'
  <2>1. CASE \E c \in Co : Create(s, c)
    BY <2>1 DEF Create
  <2>2. CASE WaitOn(s)
    BY <2>2 DEF WaitOn
  <2>3. CASE coroutine_sleep(s)
    BY <2>3 DEF coroutine_sleep
  <2>4. CASE coroutine_await(s)
    BY <2>4 DEF coroutine_await
  <2>5. CASE coroutine_yield(s)
    BY <2>5 DEF coroutine_yield
  <2>6. CASE coroutine_dead(s)
    BY <2>6 DEF coroutine_dead
  <2> QED BY <1>3, <2>1, <2>2, <2>3, <2>4, <2>5, <2>6 DEF CoStep
<1>4. ASSUME NEW s \in Sched, PickStep(s) PROVE LockInv'
  <2>1. CASE pick_try_wait(s)
    <3>1. CASE Goto(s, "pick", "checkBuf")
      BY <2>1, <3>1 DEF pick_try_wait
    <3>2. CASE Goto(s, "pick", "steal")
      BY <2>1, <3>2 DEF pick_try_wait
    <3> QED BY <2>1, <3>1, <3>2 DEF pick_try_wait
  <2>2. CASE steal_look(s)
    <3>1. CASE NextVictim(s) /\ UNCHANGED pc
      BY <2>2, <3>1 DEF steal_look, NextVictim
    <3>2. CASE Goto(s, "steal", "stealLock") /\ UNCHANGED victim
      BY <2>2, <3>2 DEF steal_look, NextVictim
    <3> QED BY <2>2, <3>1, <3>2 DEF steal_look, NextVictim
  <2>3. CASE steal_lock(s)
    BY <2>3 DEF steal_lock, Acquire
  <2>4. CASE \E c \in Co : steal_one(s, c)
    BY <2>4 DEF steal_one
  <2>5. CASE steal_unlock(s)
    BY <2>5 DEF steal_unlock, NextVictim
  <2>6. CASE steal_end(s)
    <3>1. CASE Goto(s, "steal", "try2")
      BY <2>6, <3>1 DEF steal_end, get_ready_to_push, SetAll
    <3>2. CASE Goto(s, "steal", "stLock")
      BY <2>6, <3>2 DEF steal_end, get_ready_to_push, SetAll
    <3> QED BY <2>6, <3>1, <3>2 DEF steal_end, get_ready_to_push, SetAll
  <2>7. CASE loot_lock(s)
    BY <2>7 DEF loot_lock, Acquire
  <2>8. CASE loot_push(s)
    BY <2>8 DEF loot_push, push_all_to_ready
  <2>9. CASE second_try_wait(s)
    <3>1. CASE Goto(s, "try2", "endSteal") /\ UNCHANGED schedLock
      BY <2>9, <3>1 DEF second_try_wait
    <3>2. CASE Goto(s, "try2", "block") /\ schedLock' = [schedLock EXCEPT ![s] = IF @ = s THEN None ELSE @]
      BY <2>9, <3>2 DEF second_try_wait
    <3> QED BY <2>9, <3>1, <3>2 DEF second_try_wait
  <2>10. CASE sem_wait(s)
    BY <2>10 DEF sem_wait
  <2>11. CASE check_ready_count(s)
    <3>1. CASE Goto(s, "checkBuf", "pullLock") /\ readyCount[s] = 0
      BY <2>11, <3>1 DEF check_ready_count
    <3>2. CASE Goto(s, "checkBuf", "pull") /\ readyCount[s] # 0
      BY <2>11, <3>2 DEF check_ready_count
    <3>3. CASE Goto(s, "pull", "pullPop") /\ readyCount[s] = 0
      BY <2>11, <3>3 DEF check_ready_count
    <3>4. CASE Goto(s, "pull", "end") /\ readyCount[s] # 0
      BY <2>11, <3>4 DEF check_ready_count
    <3> QED BY <2>11, <3>1, <3>2, <3>3, <3>4 DEF check_ready_count
  <2>12. CASE recheck_lock(s)
    BY <2>12 DEF recheck_lock, Acquire
  <2>13. CASE recheck(s)
    <3>1. CASE Goto(s, "pullTest", "end") /\ UNCHANGED schedLock
      BY <2>13, <3>1 DEF recheck
    <3>2. CASE Goto(s, "pullTest", "pull") /\ schedLock' = [schedLock EXCEPT ![s] = None]
      BY <2>13, <3>2 DEF recheck
    <3> QED BY <2>13, <3>1, <3>2 DEF recheck
  <2>14. CASE \E c \in Co : PopBuffer(s, s, "pullPop", c)
    BY <2>14 DEF PopBuffer
  <2>15. CASE pull_end(s)
    <3>1. CASE Goto(s, "pullPop", "pull")
      BY <2>15, <3>1 DEF pull_end, get_ready_to_push, SetAll
    <3>2. CASE Goto(s, "pullPop", "pbLock")
      BY <2>15, <3>2 DEF pull_end, get_ready_to_push, SetAll
    <3> QED BY <2>15, <3>1, <3>2 DEF pull_end, get_ready_to_push, SetAll
  <2>16. CASE buffer_lock(s)
    BY <2>16 DEF buffer_lock, Acquire
  <2>17. CASE buffer_push(s)
    BY <2>17 DEF buffer_push, push_all_to_ready
  <2>18. CASE end_lock(s)
    BY <2>18 DEF end_lock, Acquire
  <2>19. CASE pickup_assert(s)
    BY <2>19 DEF pickup_assert
  <2>20. CASE \E c \in Co : pickup_pop(s, c)
    BY <2>20 DEF pickup_pop
  <2>21. CASE run(s)
    BY <2>21 DEF run
  <2>22. CASE process_co_exec_end(s)
    BY <2>22 DEF process_co_exec_end
  <2>23. CASE dead_end(s)
    BY <2>23 DEF dead_end
  <2> QED BY <1>4, <2>1, <2>2, <2>3, <2>4, <2>5, <2>6, <2>7, <2>8, <2>9, <2>10, <2>11,
      <2>12, <2>13, <2>14, <2>15, <2>16, <2>17, <2>18, <2>19, <2>20, <2>21, <2>22, <2>23
      DEF PickStep
<1>5. CASE UNCHANGED vars
  BY <1>5 DEF vars
<1> QED BY <1>1, <1>2, <1>3, <1>4, <1>5 DEF Next

-----------------------------------------------------------------------------
(* Places.                                                                  *)

Dead == {c \in Co : status[c] = "DEAD" /\ \A s \in Sched : current[s] # c}

ArgOf(t) == IF HasArg(t) THEN {arg[t]} ELSE {}

(* The seven kinds of places.                                               *)
LEMMA PlaceKinds ==
  /\ \A s \in Sched : <<"ready", s>> \in Place /\ Contents(<<"ready", s>>) = ready[s]
  /\ \A s \in Sched : <<"buffer", s>> \in Place /\ Contents(<<"buffer", s>>) = buffer[s]
  /\ \A s \in Sched : <<"current", s>> \in Place /\ Contents(<<"current", s>>) = Holds(s)
  /\ \A t \in Thread : <<"arg", t>> \in Place /\ Contents(<<"arg", t>>) = ArgOf(t)
  /\ \A t \in Thread : <<"bag", t>> \in Place /\ Contents(<<"bag", t>>) = bag[t]
  /\ <<"parked", Home>> \in Place /\ Contents(<<"parked", Home>>) = parked
  /\ <<"dead", Home>> \in Place /\ Contents(<<"dead", Home>>) = Dead
BY DEF Place, Contents, ArgOf, Dead

LEMMA PlaceKindsNext ==
  /\ \A s \in Sched : Contents(<<"ready", s>>)' = ready'[s]
  /\ \A s \in Sched : Contents(<<"buffer", s>>)' = buffer'[s]
  /\ \A s \in Sched : Contents(<<"current", s>>)' = Holds(s)'
  /\ \A t \in Thread : Contents(<<"arg", t>>)' = ArgOf(t)'
  /\ \A t \in Thread : Contents(<<"bag", t>>)' = bag'[t]
  /\ Contents(<<"parked", Home>>)' = parked'
  /\ Contents(<<"dead", Home>>)' = Dead'
BY DEF Contents, ArgOf, Dead

(* What a step that moves from src to dst leaves alone: every other place.  *)
Frozen(src, dst) ==
  /\ \A s \in Sched : <<"ready", s>> \notin {src, dst} => ready'[s] = ready[s]
  /\ \A s \in Sched : <<"buffer", s>> \notin {src, dst} => buffer'[s] = buffer[s]
  /\ \A s \in Sched : <<"current", s>> \notin {src, dst} => Holds(s)' = Holds(s)
  /\ \A t \in Thread : <<"arg", t>> \notin {src, dst} => ArgOf(t)' = ArgOf(t)
  /\ \A t \in Thread : <<"bag", t>> \notin {src, dst} => bag'[t] = bag[t]
  /\ <<"parked", Home>> \notin {src, dst} => parked' = parked
  /\ <<"dead", Home>> \notin {src, dst} => Dead' = Dead

(* A place that is neither src nor dst keeps its coroutines.                *)
LEMMA Frame ==
  ASSUME NEW src \in Place, NEW dst \in Place, Frozen(src, dst)
  PROVE  \A p \in Place : p # src /\ p # dst => Contents(p)' = Contents(p)
<1> SUFFICES ASSUME NEW p \in Place, p # src, p # dst
             PROVE  Contents(p)' = Contents(p)
  OBVIOUS
<1>1. CASE \E s \in Sched : p \in {<<"ready", s>>, <<"buffer", s>>, <<"current", s>>}
  BY <1>1, PlaceKinds, PlaceKindsNext DEF Frozen
<1>2. CASE \E t \in Thread : p \in {<<"arg", t>>, <<"bag", t>>}
  BY <1>2, PlaceKinds, PlaceKindsNext DEF Frozen
<1>3. CASE p \in {<<"parked", Home>>, <<"dead", Home>>}
  BY <1>3, PlaceKinds, PlaceKindsNext DEF Frozen
<1> QED BY <1>1, <1>2, <1>3 DEF Place

(* A step that takes S out of one place and puts it into another.           *)
LEMMA Move ==
  ASSUME ExactlyOnePlace,
         NEW src \in Place, NEW dst \in Place, src # dst,
         NEW S \in SUBSET Contents(src),
         \A p \in Place : p # src /\ p # dst => Contents(p)' = Contents(p),
         Contents(src)' = Contents(src) \ S,
         Contents(dst)' = Contents(dst) \cup S
  PROVE  ExactlyOnePlace'
<1>1. ASSUME NEW p \in Place, NEW q \in Place, p # q
      PROVE  Contents(p)' \cap Contents(q)' = {}
  <2>1. Contents(p) \cap Contents(q) = {}
    BY <1>1 DEF ExactlyOnePlace
  <2>2. \A r \in Place : r # src => Contents(r) \cap S = {}
    BY DEF ExactlyOnePlace
  <2> QED BY <1>1, <2>1, <2>2
<1>2. ASSUME NEW c \in Co
      PROVE  \E p \in Place : c \in Contents(p)'
  <2>1. PICK p \in Place : c \in Contents(p)
    BY DEF ExactlyOnePlace
  <2>2. CASE p = src /\ c \in S
    BY <2>2
  <2>3. CASE ~(p = src /\ c \in S)
    BY <2>1, <2>3
  <2> QED BY <2>2, <2>3
<1> QED BY <1>1, <1>2 DEF ExactlyOnePlace

(* A step that moves nothing.                                               *)
LEMMA Stay ==
  ASSUME ExactlyOnePlace, \A p \in Place : Contents(p)' = Contents(p)
  PROVE  ExactlyOnePlace'
<1>1. \A p, q \in Place : p # q => Contents(p)' \cap Contents(q)' = {}
  BY DEF ExactlyOnePlace
<1>2. \A c \in Co : \E p \in Place : c \in Contents(p)'
  BY DEF ExactlyOnePlace
<1> QED BY <1>1, <1>2 DEF ExactlyOnePlace

(* A coroutine that is READY, or waits, or runs is not dead.                *)
LEMMA DeadFrame ==
  ASSUME NEW cs \in SUBSET Co, cs \cap Dead = {}, NEW v, v # "DEAD",
         status' = SetAll(status, cs, v), current' = current
  PROVE  Dead' = Dead
BY DEF Dead, SetAll

(* What is in an argument, a vector or a heap is nowhere else.              *)
LEMMA Elsewhere ==
  ASSUME TypeInv, ExactlyOnePlace
  PROVE  /\ \A t \in Thread : ArgOf(t) \cap Dead = {} /\ bag[t] \cap Dead = {}
         /\ \A t \in Thread : ArgOf(t) \cap bag[t] = {}
         /\ \A t \in Thread, s \in Sched : /\ ArgOf(t) \cap ready[s] = {}
                                          /\ bag[t] \cap ready[s] = {}
                                          /\ ArgOf(t) \cap Holds(s) = {}
                                          /\ bag[t] \cap Holds(s) = {}
         /\ \A s \in Sched : ready[s] \cap Dead = {} /\ Holds(s) \cap Dead = {}
         /\ \A s, u \in Sched : s # u => Holds(s) \cap Holds(u) = {}
<1>1. \A p, q \in Place : p # q => Contents(p) \cap Contents(q) = {}
  BY DEF ExactlyOnePlace
<1>2. /\ \A t \in Thread : ArgOf(t) \cap Dead = {} /\ bag[t] \cap Dead = {}
      /\ \A t \in Thread : ArgOf(t) \cap bag[t] = {}
  BY <1>1, PlaceKinds
<1>3. ASSUME NEW t \in Thread, NEW s \in Sched
      PROVE  ArgOf(t) \cap ready[s] = {} /\ bag[t] \cap ready[s] = {}
  <2>1. <<"ready", s>> \in Place /\ Contents(<<"ready", s>>) = ready[s]
    BY PlaceKinds
  <2>2. <<"arg", t>> \in Place /\ Contents(<<"arg", t>>) = ArgOf(t)
    BY PlaceKinds
  <2>3. <<"bag", t>> \in Place /\ Contents(<<"bag", t>>) = bag[t]
    BY PlaceKinds
  <2>4. ArgOf(t) \cap ready[s] = {}
    BY <1>1, <2>1, <2>2
  <2>5. bag[t] \cap ready[s] = {}
    BY <1>1, <2>1, <2>3
  <2> QED BY <2>4, <2>5
<1>4. ASSUME NEW t \in Thread, NEW s \in Sched
      PROVE  ArgOf(t) \cap Holds(s) = {} /\ bag[t] \cap Holds(s) = {}
  <2>1. <<"current", s>> \in Place /\ Contents(<<"current", s>>) = Holds(s)
    BY PlaceKinds
  <2>2. <<"arg", t>> \in Place /\ Contents(<<"arg", t>>) = ArgOf(t)
    BY PlaceKinds
  <2>3. <<"bag", t>> \in Place /\ Contents(<<"bag", t>>) = bag[t]
    BY PlaceKinds
  <2>4. ArgOf(t) \cap Holds(s) = {}
    BY <1>1, <2>1, <2>2
  <2>5. bag[t] \cap Holds(s) = {}
    BY <1>1, <2>1, <2>3
  <2> QED BY <2>4, <2>5
<1>5. \A s \in Sched : ready[s] \cap Dead = {} /\ Holds(s) \cap Dead = {}
  BY <1>1, PlaceKinds
<1>6. \A s, u \in Sched : s # u => Holds(s) \cap Holds(u) = {}
  BY <1>1, PlaceKinds
<1> QED BY <1>2, <1>3, <1>4, <1>5, <1>6

(* A step that changes no place.                                            *)
LEMMA Undisturbed ==
  ASSUME ExactlyOnePlace, UNCHANGED <<ready, buffer, bag, parked>>, Dead' = Dead,
         \A s \in Sched : Holds(s)' = Holds(s), \A t \in Thread : ArgOf(t)' = ArgOf(t)
  PROVE  ExactlyOnePlace'
<1>1. \A p \in Place : p # <<"dead", Home>> => Contents(p)' = Contents(p)
  <2>1. Frozen(<<"dead", Home>>, <<"dead", Home>>)
    BY DEF Frozen
  <2> QED BY <2>1, PlaceKinds, Frame
<1>2. Contents(<<"dead", Home>>)' = Contents(<<"dead", Home>>)
  BY PlaceKinds, PlaceKindsNext
<1> QED BY <1>1, <1>2, Stay


(* Who is on a stack, and what that stack's coroutine says of itself.       *)
StackInv ==
  /\ \A s \in Sched : current[s] # NoCo => pc[s] \in {"start", "run", "leave", "dying"} \cup ApplyPc
  /\ \A s \in Sched : pc[s] \in {"run", "leave"} => status[current[s]] # "DEAD"
  /\ \A s \in Sched : pc[s] = "dying" => status[current[s]] = "DEAD"
  /\ \A s \in Sched : OnStack(s) => stkActive[current[s]]
  /\ StackExclusive

LEMMA PlaceStep == TypeInv /\ StackInv /\ ExactlyOnePlace /\ [Next]_vars => ExactlyOnePlace'
<1> SUFFICES ASSUME TypeInv, StackInv, ExactlyOnePlace, [Next]_vars PROVE ExactlyOnePlace'
  OBVIOUS
<1> USE ThreadSets DEF TypeInv, TypeOK, PcTyping, Goto, queueVars, coVars, threadVars,
    ApplyPc
<1>1. ASSUME NEW t \in Thread, ApplyStep(t) PROVE ExactlyOnePlace'
  <2>1. CASE \E s \in Sched : apply_impl(t, s)
    <3>1. \A u \in Sched : Holds(u)' = Holds(u)
      BY <2>1 DEF apply_impl, get_ready_to_push, SetAll, Holds
    <3>2. \A u \in Thread : ArgOf(u)' = ArgOf(u)
      BY <2>1 DEF apply_impl, get_ready_to_push, SetAll, ArgOf, HasArg
    <3>3. Dead' = Dead
      <4>1. status' = SetAll(status, {arg[t]}, "READY") /\ current' = current
        BY <2>1 DEF apply_impl, get_ready_to_push
      <4>2. {arg[t]} \in SUBSET Co /\ {arg[t]} \cap Dead = {}
        BY <2>1, Elsewhere DEF apply_impl, ArgOf, HasArg
      <4> QED BY <4>1, <4>2, DeadFrame
    <3>4. UNCHANGED <<ready, buffer, bag, parked>>
      BY <2>1 DEF apply_impl, get_ready_to_push, SetAll
    <3> QED BY <3>1, <3>2, <3>3, <3>4, Undisturbed
  <2>2. CASE try_lock(t)
    <3>1. CASE Acquire(t, target[t], "tryLock", "push")
      <4>1. \A u \in Sched : Holds(u)' = Holds(u)
        BY <2>2, <3>1 DEF try_lock, Acquire, Holds
      <4>2. \A u \in Thread : ArgOf(u)' = ArgOf(u)
        BY <2>2, <3>1 DEF try_lock, Acquire, ArgOf, HasArg
      <4>3. Dead' = Dead
        BY <2>2, <3>1 DEF try_lock, Acquire, Dead
      <4>4. UNCHANGED <<ready, buffer, bag, parked>>
        BY <2>2, <3>1 DEF try_lock, Acquire
      <4> QED BY <4>1, <4>2, <4>3, <4>4, Undisturbed
    <3>2. CASE Goto(t, "tryLock", "lazy") /\ UNCHANGED schedLock
      <4>1. \A u \in Sched : Holds(u)' = Holds(u)
        BY <2>2, <3>2 DEF try_lock, Acquire, Holds
      <4>2. \A u \in Thread : ArgOf(u)' = ArgOf(u)
        BY <2>2, <3>2 DEF try_lock, Acquire, ArgOf, HasArg
      <4>3. Dead' = Dead
        BY <2>2, <3>2 DEF try_lock, Acquire, Dead
      <4>4. UNCHANGED <<ready, buffer, bag, parked>>
        BY <2>2, <3>2 DEF try_lock, Acquire
      <4> QED BY <4>1, <4>2, <4>3, <4>4, Undisturbed
    <3> QED BY <2>2, <3>1, <3>2 DEF try_lock, Acquire
  <2>3. CASE push_to_ready(t)
    <3>p. PICK v \in Sched : v = target[t] /\ push_to_ready(t)
      BY <2>3 DEF push_to_ready
    <3> DEFINE src == <<"arg", t>>
               dst == <<"ready", v>>
               S == {arg[t]}
    <3>1. \A u \in Sched : Holds(u)' = Holds(u)
      BY <3>p DEF push_to_ready, Holds
    <3>2. \A u \in Thread : u # t => ArgOf(u)' = ArgOf(u)
      BY <3>p DEF push_to_ready, ArgOf, HasArg
    <3>3. Dead' = Dead
      BY <3>p DEF push_to_ready, Dead
    <3>a. ArgOf(t) = {arg[t]} /\ ArgOf(t)' = {}
      BY <3>p, ConstantsAssumption DEF push_to_ready, ArgOf, HasArg, Holds
    <3>4. src \in Place /\ dst \in Place /\ src # dst
      BY <3>p, PlaceKinds DEF push_to_ready
    <3>5. /\ \A u \in Sched : <<"ready", u>> \notin {src, dst} => ready'[u] = ready[u]
          /\ \A u \in Sched : <<"buffer", u>> \notin {src, dst} => buffer'[u] = buffer[u]
          /\ \A u \in Thread : <<"bag", u>> \notin {src, dst} => bag'[u] = bag[u]
          /\ <<"parked", Home>> \notin {src, dst} => parked' = parked
      BY <3>p DEF push_to_ready
    <3>6. /\ \A u \in Sched : <<"current", u>> \notin {src, dst} => Holds(u)' = Holds(u)
          /\ \A u \in Thread : <<"arg", u>> \notin {src, dst} => ArgOf(u)' = ArgOf(u)
          /\ <<"dead", Home>> \notin {src, dst} => Dead' = Dead
      BY <3>1, <3>2, <3>3
    <3>7. Contents(src)' = Contents(src) \ S /\ S \in SUBSET Contents(src)
      BY <3>p, <3>3, PlaceKinds, PlaceKindsNext, <3>a DEF push_to_ready
    <3>8. Contents(dst)' = Contents(dst) \cup S
      BY <3>p, <3>3, PlaceKinds, PlaceKindsNext, <3>a DEF push_to_ready
    <3> HIDE DEF src, dst, S
    <3>9. \A p \in Place : p # src /\ p # dst => Contents(p)' = Contents(p)
      <4>1. Frozen(src, dst)
        BY <3>5, <3>6 DEF Frozen
      <4> QED BY <3>4, <4>1, Frame
    <3> QED BY <3>4, <3>7, <3>8, <3>9, Move
  <2>4. CASE apply_ready_lazy(t)
    <3>1. CASE Goto(t, "lazy", "signal")
      <4>p. PICK v \in Sched : v = target[t] /\ apply_ready_lazy(t) /\ Goto(t, "lazy", "signal")
        BY <2>4, <3>1 DEF apply_ready_lazy
      <4> DEFINE src == <<"arg", t>>
                 dst == <<"buffer", v>>
                 S == {arg[t]}
      <4>1. \A u \in Sched : Holds(u)' = Holds(u)
        BY <4>p DEF apply_ready_lazy, Holds
      <4>2. \A u \in Thread : u # t => ArgOf(u)' = ArgOf(u)
        BY <4>p DEF apply_ready_lazy, ArgOf, HasArg
      <4>3. Dead' = Dead
        BY <4>p DEF apply_ready_lazy, Dead
      <4>a. ArgOf(t) = {arg[t]} /\ ArgOf(t)' = {}
        BY <4>p, ConstantsAssumption DEF apply_ready_lazy, ArgOf, HasArg, Holds
      <4>4. src \in Place /\ dst \in Place /\ src # dst
        BY <4>p, PlaceKinds DEF apply_ready_lazy
      <4>5. /\ \A u \in Sched : <<"ready", u>> \notin {src, dst} => ready'[u] = ready[u]
            /\ \A u \in Sched : <<"buffer", u>> \notin {src, dst} => buffer'[u] = buffer[u]
            /\ \A u \in Thread : <<"bag", u>> \notin {src, dst} => bag'[u] = bag[u]
            /\ <<"parked", Home>> \notin {src, dst} => parked' = parked
        BY <4>p DEF apply_ready_lazy
      <4>6. /\ \A u \in Sched : <<"current", u>> \notin {src, dst} => Holds(u)' = Holds(u)
            /\ \A u \in Thread : <<"arg", u>> \notin {src, dst} => ArgOf(u)' = ArgOf(u)
            /\ <<"dead", Home>> \notin {src, dst} => Dead' = Dead
        BY <4>1, <4>2, <4>3
      <4>7. Contents(src)' = Contents(src) \ S /\ S \in SUBSET Contents(src)
        BY <4>p, <4>3, PlaceKinds, PlaceKindsNext, <4>a DEF apply_ready_lazy
      <4>8. Contents(dst)' = Contents(dst) \cup S
        BY <4>p, <4>3, PlaceKinds, PlaceKindsNext, <4>a DEF apply_ready_lazy
      <4> HIDE DEF src, dst, S
      <4>9. \A p \in Place : p # src /\ p # dst => Contents(p)' = Contents(p)
        <5>1. Frozen(src, dst)
          BY <4>5, <4>6 DEF Frozen
        <5> QED BY <4>4, <5>1, Frame
      <4> QED BY <4>4, <4>7, <4>8, <4>9, Move
    <3>2. CASE Goto(t, "lazy", "drain")
      <4>1. \A u \in Sched : Holds(u)' = Holds(u)
        BY <2>4, <3>2 DEF apply_ready_lazy, Holds
      <4>2. \A u \in Thread : ArgOf(u)' = ArgOf(u)
        BY <2>4, <3>2 DEF apply_ready_lazy, ArgOf, HasArg
      <4>3. Dead' = Dead
        BY <2>4, <3>2 DEF apply_ready_lazy, Dead
      <4>4. UNCHANGED <<ready, buffer, bag, parked>>
        BY <2>4, <3>2 DEF apply_ready_lazy
      <4> QED BY <4>1, <4>2, <4>3, <4>4, Undisturbed
    <3> QED BY <2>4, <3>1, <3>2 DEF apply_ready_lazy
  <2>5. CASE \E s \in Sched, c \in Co : s = target[t] /\ PopBuffer(t, s, "drain", c)
    <3>p. PICK v \in Sched, c \in Co : v = target[t] /\ PopBuffer(t, v, "drain", c)
      BY <2>5 DEF PopBuffer
    <3> DEFINE src == <<"buffer", v>>
               dst == <<"bag", t>>
               S == {c}
    <3>1. \A u \in Sched : Holds(u)' = Holds(u)
      BY <3>p DEF PopBuffer, Holds
    <3>2. \A u \in Thread : ArgOf(u)' = ArgOf(u)
      BY <3>p DEF PopBuffer, ArgOf, HasArg
    <3>3. Dead' = Dead
      BY <3>p DEF PopBuffer, Dead
    <3>4. src \in Place /\ dst \in Place /\ src # dst
      BY <3>p, PlaceKinds DEF PopBuffer
    <3>5. /\ \A u \in Sched : <<"ready", u>> \notin {src, dst} => ready'[u] = ready[u]
          /\ \A u \in Sched : <<"buffer", u>> \notin {src, dst} => buffer'[u] = buffer[u]
          /\ \A u \in Thread : <<"bag", u>> \notin {src, dst} => bag'[u] = bag[u]
          /\ <<"parked", Home>> \notin {src, dst} => parked' = parked
      BY <3>p DEF PopBuffer
    <3>6. /\ \A u \in Sched : <<"current", u>> \notin {src, dst} => Holds(u)' = Holds(u)
          /\ \A u \in Thread : <<"arg", u>> \notin {src, dst} => ArgOf(u)' = ArgOf(u)
          /\ <<"dead", Home>> \notin {src, dst} => Dead' = Dead
      BY <3>1, <3>2, <3>3
    <3>7. Contents(src)' = Contents(src) \ S /\ S \in SUBSET Contents(src)
      BY <3>p, <3>3, PlaceKinds, PlaceKindsNext DEF PopBuffer
    <3>8. Contents(dst)' = Contents(dst) \cup S
      BY <3>p, <3>3, PlaceKinds, PlaceKindsNext DEF PopBuffer
    <3> HIDE DEF src, dst, S
    <3>9. \A p \in Place : p # src /\ p # dst => Contents(p)' = Contents(p)
      <4>1. Frozen(src, dst)
        BY <3>5, <3>6 DEF Frozen
      <4> QED BY <3>4, <4>1, Frame
    <3> QED BY <3>4, <3>7, <3>8, <3>9, Move
  <2>6. CASE drain_end(t)
    <3> DEFINE src == <<"arg", t>>
               dst == <<"bag", t>>
               S == {arg[t]}
    <3>1. \A u \in Sched : Holds(u)' = Holds(u)
      BY <2>6 DEF drain_end, get_ready_to_push, Holds
    <3>2. \A u \in Thread : u # t => ArgOf(u)' = ArgOf(u)
      BY <2>6 DEF drain_end, get_ready_to_push, ArgOf, HasArg
    <3>3. Dead' = Dead
      <4>1. status' = SetAll(status, (bag[t] \cup {arg[t]}), "READY") /\ current' = current
        BY <2>6 DEF drain_end, get_ready_to_push
      <4>2. (bag[t] \cup {arg[t]}) \in SUBSET Co /\ (bag[t] \cup {arg[t]}) \cap Dead = {}
        BY <2>6, Elsewhere DEF drain_end, ArgOf, HasArg
      <4> QED BY <4>1, <4>2, DeadFrame
    <3>a. ArgOf(t) = {arg[t]} /\ ArgOf(t)' = {}
      BY <2>6, ConstantsAssumption DEF drain_end, get_ready_to_push, ArgOf, HasArg, Holds
    <3>4. src \in Place /\ dst \in Place /\ src # dst
      BY <2>6, PlaceKinds DEF drain_end, get_ready_to_push
    <3>5. /\ \A u \in Sched : <<"ready", u>> \notin {src, dst} => ready'[u] = ready[u]
          /\ \A u \in Sched : <<"buffer", u>> \notin {src, dst} => buffer'[u] = buffer[u]
          /\ \A u \in Thread : <<"bag", u>> \notin {src, dst} => bag'[u] = bag[u]
          /\ <<"parked", Home>> \notin {src, dst} => parked' = parked
      BY <2>6 DEF drain_end, get_ready_to_push
    <3>6. /\ \A u \in Sched : <<"current", u>> \notin {src, dst} => Holds(u)' = Holds(u)
          /\ \A u \in Thread : <<"arg", u>> \notin {src, dst} => ArgOf(u)' = ArgOf(u)
          /\ <<"dead", Home>> \notin {src, dst} => Dead' = Dead
      BY <3>1, <3>2, <3>3
    <3>7. Contents(src)' = Contents(src) \ S /\ S \in SUBSET Contents(src)
      BY <2>6, <3>3, PlaceKinds, PlaceKindsNext, <3>a DEF drain_end, get_ready_to_push
    <3>8. Contents(dst)' = Contents(dst) \cup S
      BY <2>6, <3>3, PlaceKinds, PlaceKindsNext, <3>a DEF drain_end, get_ready_to_push
    <3> HIDE DEF src, dst, S
    <3>9. \A p \in Place : p # src /\ p # dst => Contents(p)' = Contents(p)
      <4>1. Frozen(src, dst)
        BY <3>5, <3>6 DEF Frozen
      <4> QED BY <3>4, <4>1, Frame
    <3> QED BY <3>4, <3>7, <3>8, <3>9, Move
  <2>7. CASE overflow_lock(t)
    <3>1. \A u \in Sched : Holds(u)' = Holds(u)
      BY <2>7 DEF overflow_lock, Acquire, Holds
    <3>2. \A u \in Thread : ArgOf(u)' = ArgOf(u)
      BY <2>7 DEF overflow_lock, Acquire, ArgOf, HasArg
    <3>3. Dead' = Dead
      BY <2>7 DEF overflow_lock, Acquire, Dead
    <3>4. UNCHANGED <<ready, buffer, bag, parked>>
      BY <2>7 DEF overflow_lock, Acquire
    <3> QED BY <3>1, <3>2, <3>3, <3>4, Undisturbed
  <2>8. CASE overflow_push(t)
    <3>p. PICK v \in Sched : v = target[t] /\ overflow_push(t)
      BY <2>8 DEF overflow_push, push_all_to_ready
    <3> DEFINE src == <<"bag", t>>
               dst == <<"ready", v>>
               S == bag[t]
    <3>1. \A u \in Sched : Holds(u)' = Holds(u)
      BY <3>p DEF overflow_push, push_all_to_ready, Holds
    <3>2. \A u \in Thread : ArgOf(u)' = ArgOf(u)
      BY <3>p DEF overflow_push, push_all_to_ready, ArgOf, HasArg
    <3>3. Dead' = Dead
      BY <3>p DEF overflow_push, push_all_to_ready, Dead
    <3>4. src \in Place /\ dst \in Place /\ src # dst
      BY <3>p, PlaceKinds DEF overflow_push, push_all_to_ready
    <3>5. /\ \A u \in Sched : <<"ready", u>> \notin {src, dst} => ready'[u] = ready[u]
          /\ \A u \in Sched : <<"buffer", u>> \notin {src, dst} => buffer'[u] = buffer[u]
          /\ \A u \in Thread : <<"bag", u>> \notin {src, dst} => bag'[u] = bag[u]
          /\ <<"parked", Home>> \notin {src, dst} => parked' = parked
      BY <3>p DEF overflow_push, push_all_to_ready
    <3>6. /\ \A u \in Sched : <<"current", u>> \notin {src, dst} => Holds(u)' = Holds(u)
          /\ \A u \in Thread : <<"arg", u>> \notin {src, dst} => ArgOf(u)' = ArgOf(u)
          /\ <<"dead", Home>> \notin {src, dst} => Dead' = Dead
      BY <3>1, <3>2, <3>3
    <3>7. Contents(src)' = Contents(src) \ S /\ S \in SUBSET Contents(src)
      BY <3>p, <3>3, PlaceKinds, PlaceKindsNext DEF overflow_push, push_all_to_ready
    <3>8. Contents(dst)' = Contents(dst) \cup S
      BY <3>p, <3>3, PlaceKinds, PlaceKindsNext DEF overflow_push, push_all_to_ready
    <3> HIDE DEF src, dst, S
    <3>9. \A p \in Place : p # src /\ p # dst => Contents(p)' = Contents(p)
      <4>1. Frozen(src, dst)
        BY <3>5, <3>6 DEF Frozen
      <4> QED BY <3>4, <4>1, Frame
    <3> QED BY <3>4, <3>7, <3>8, <3>9, Move
  <2>9. CASE signal(t)
    <3>0. Return(t) \in {"idle", "pick", "dying", "run"}
      BY ThreadSets, ConstantsAssumption DEF Return, Sched, Timer, Thread
    <3>1. \A u \in Sched : Holds(u)' = Holds(u)
      BY <2>9, <3>0 DEF signal, Holds
    <3>2. \A u \in Thread : ArgOf(u)' = ArgOf(u)
      BY <2>9, <3>0 DEF signal, ArgOf, HasArg
    <3>3. Dead' = Dead
      BY <2>9, <3>0 DEF signal, Dead
    <3>4. UNCHANGED <<ready, buffer, bag, parked>>
      BY <2>9, <3>0 DEF signal
    <3> QED BY <3>1, <3>2, <3>3, <3>4, Undisturbed
  <2> QED BY <1>1, <2>1, <2>2, <2>3, <2>4, <2>5, <2>6, <2>7, <2>8, <2>9 DEF ApplyStep
<1>2. ASSUME NEW t \in Thread, NEW c \in Co, Wake(t, c) PROVE ExactlyOnePlace'
  <3> DEFINE src == <<"parked", Home>>
             dst == <<"arg", t>>
             S == {c}
  <3>1. \A u \in Sched : Holds(u)' = Holds(u)
    BY <1>2 DEF Wake, Holds
  <3>2. \A u \in Thread : u # t => ArgOf(u)' = ArgOf(u)
    BY <1>2 DEF Wake, ArgOf, HasArg
  <3>3. Dead' = Dead
    BY <1>2 DEF Wake, Dead
  <3>a. ArgOf(t) = {} /\ ArgOf(t)' = {c}
    BY <1>2, ConstantsAssumption DEF Wake, ArgOf, HasArg, Holds
  <3>4. src \in Place /\ dst \in Place /\ src # dst
    BY <1>2, PlaceKinds DEF Wake
  <3>5. /\ \A u \in Sched : <<"ready", u>> \notin {src, dst} => ready'[u] = ready[u]
        /\ \A u \in Sched : <<"buffer", u>> \notin {src, dst} => buffer'[u] = buffer[u]
        /\ \A u \in Thread : <<"bag", u>> \notin {src, dst} => bag'[u] = bag[u]
        /\ <<"parked", Home>> \notin {src, dst} => parked' = parked
    BY <1>2 DEF Wake
  <3>6. /\ \A u \in Sched : <<"current", u>> \notin {src, dst} => Holds(u)' = Holds(u)
        /\ \A u \in Thread : <<"arg", u>> \notin {src, dst} => ArgOf(u)' = ArgOf(u)
        /\ <<"dead", Home>> \notin {src, dst} => Dead' = Dead
    BY <3>1, <3>2, <3>3
  <3>7. Contents(src)' = Contents(src) \ S /\ S \in SUBSET Contents(src)
    BY <1>2, <3>3, PlaceKinds, PlaceKindsNext, <3>a DEF Wake
  <3>8. Contents(dst)' = Contents(dst) \cup S
    BY <1>2, <3>3, PlaceKinds, PlaceKindsNext, <3>a DEF Wake
  <3> HIDE DEF src, dst, S
  <3>9. \A p \in Place : p # src /\ p # dst => Contents(p)' = Contents(p)
    <4>1. Frozen(src, dst)
      BY <3>5, <3>6 DEF Frozen
    <4> QED BY <3>4, <4>1, Frame
  <3> QED BY <3>4, <3>7, <3>8, <3>9, Move
<1>3. ASSUME NEW s \in Sched, CoStep(s) PROVE ExactlyOnePlace'
  <2>1. CASE \E c \in Co : Create(s, c)
    <3>p. PICK c \in Co : Create(s, c)
      BY <2>1 DEF Create
    <3> DEFINE src == <<"dead", Home>>
               dst == <<"arg", s>>
               S == {c}
    <3>1. \A u \in Sched : Holds(u)' = Holds(u)
      BY <3>p DEF Create, Holds
    <3>2. \A u \in Thread : u # s => ArgOf(u)' = ArgOf(u)
      BY <3>p DEF Create, ArgOf, HasArg
    <3>3. Dead' = Dead \ {c} /\ c \in Dead
      BY <3>p DEF Create, Dead
    <3>a. ArgOf(s) = {} /\ ArgOf(s)' = {c}
      BY <3>p, ConstantsAssumption DEF Create, ArgOf, HasArg, Holds
    <3>4. src \in Place /\ dst \in Place /\ src # dst
      BY <3>p, PlaceKinds DEF Create
    <3>5. /\ \A u \in Sched : <<"ready", u>> \notin {src, dst} => ready'[u] = ready[u]
          /\ \A u \in Sched : <<"buffer", u>> \notin {src, dst} => buffer'[u] = buffer[u]
          /\ \A u \in Thread : <<"bag", u>> \notin {src, dst} => bag'[u] = bag[u]
          /\ <<"parked", Home>> \notin {src, dst} => parked' = parked
      BY <3>p DEF Create
    <3>6. /\ \A u \in Sched : <<"current", u>> \notin {src, dst} => Holds(u)' = Holds(u)
          /\ \A u \in Thread : <<"arg", u>> \notin {src, dst} => ArgOf(u)' = ArgOf(u)
          /\ <<"dead", Home>> \notin {src, dst} => Dead' = Dead
      BY <3>1, <3>2, <3>3
    <3>7. Contents(src)' = Contents(src) \ S /\ S \in SUBSET Contents(src)
      BY <3>p, <3>3, PlaceKinds, PlaceKindsNext, <3>a DEF Create
    <3>8. Contents(dst)' = Contents(dst) \cup S
      BY <3>p, <3>3, PlaceKinds, PlaceKindsNext, <3>a DEF Create
    <3> HIDE DEF src, dst, S
    <3>9. \A p \in Place : p # src /\ p # dst => Contents(p)' = Contents(p)
      <4>1. Frozen(src, dst)
        BY <3>5, <3>6 DEF Frozen
      <4> QED BY <3>4, <4>1, Frame
    <3> QED BY <3>4, <3>7, <3>8, <3>9, Move
  <2>2. CASE WaitOn(s)
    <3> DEFINE src == <<"current", s>>
               dst == <<"parked", Home>>
               S == {current[s]}
    <3>1. \A u \in Sched : u # s => Holds(u)' = Holds(u)
      BY <2>2, ConstantsAssumption DEF WaitOn, Holds
    <3>2. \A u \in Thread : ArgOf(u)' = ArgOf(u)
      BY <2>2, ConstantsAssumption DEF WaitOn, ArgOf, HasArg
    <3>3. Dead' = Dead
      BY <2>2, ConstantsAssumption DEF WaitOn, Dead
    <3>a. Holds(s) = {current[s]} /\ Holds(s)' = {}
      BY <2>2, ConstantsAssumption, ConstantsAssumption DEF WaitOn, ArgOf, HasArg, Holds
    <3>4. src \in Place /\ dst \in Place /\ src # dst
      BY <2>2, PlaceKinds, ConstantsAssumption DEF WaitOn
    <3>5. /\ \A u \in Sched : <<"ready", u>> \notin {src, dst} => ready'[u] = ready[u]
          /\ \A u \in Sched : <<"buffer", u>> \notin {src, dst} => buffer'[u] = buffer[u]
          /\ \A u \in Thread : <<"bag", u>> \notin {src, dst} => bag'[u] = bag[u]
          /\ <<"parked", Home>> \notin {src, dst} => parked' = parked
      BY <2>2, ConstantsAssumption DEF WaitOn
    <3>6. /\ \A u \in Sched : <<"current", u>> \notin {src, dst} => Holds(u)' = Holds(u)
          /\ \A u \in Thread : <<"arg", u>> \notin {src, dst} => ArgOf(u)' = ArgOf(u)
          /\ <<"dead", Home>> \notin {src, dst} => Dead' = Dead
      BY <3>1, <3>2, <3>3
    <3>7. Contents(src)' = Contents(src) \ S /\ S \in SUBSET Contents(src)
      BY <2>2, <3>3, PlaceKinds, PlaceKindsNext, <3>a, ConstantsAssumption DEF WaitOn
    <3>8. Contents(dst)' = Contents(dst) \cup S
      BY <2>2, <3>3, PlaceKinds, PlaceKindsNext, <3>a, ConstantsAssumption DEF WaitOn
    <3> HIDE DEF src, dst, S
    <3>9. \A p \in Place : p # src /\ p # dst => Contents(p)' = Contents(p)
      <4>1. Frozen(src, dst)
        BY <3>5, <3>6 DEF Frozen
      <4> QED BY <3>4, <4>1, Frame
    <3> QED BY <3>4, <3>7, <3>8, <3>9, Move
  <2>3. CASE coroutine_sleep(s)
    <3> DEFINE src == <<"current", s>>
               dst == <<"parked", Home>>
               S == {current[s]}
    <3>1. \A u \in Sched : u # s => Holds(u)' = Holds(u)
      BY <2>3, ConstantsAssumption DEF coroutine_sleep, Holds
    <3>2. \A u \in Thread : ArgOf(u)' = ArgOf(u)
      BY <2>3, ConstantsAssumption DEF coroutine_sleep, ArgOf, HasArg
    <3>3. Dead' = Dead
      BY <2>3, ConstantsAssumption DEF coroutine_sleep, Dead
    <3>a. Holds(s) = {current[s]} /\ Holds(s)' = {}
      BY <2>3, ConstantsAssumption, ConstantsAssumption DEF coroutine_sleep, ArgOf,
          HasArg, Holds
    <3>4. src \in Place /\ dst \in Place /\ src # dst
      BY <2>3, PlaceKinds, ConstantsAssumption DEF coroutine_sleep
    <3>5. /\ \A u \in Sched : <<"ready", u>> \notin {src, dst} => ready'[u] = ready[u]
          /\ \A u \in Sched : <<"buffer", u>> \notin {src, dst} => buffer'[u] = buffer[u]
          /\ \A u \in Thread : <<"bag", u>> \notin {src, dst} => bag'[u] = bag[u]
          /\ <<"parked", Home>> \notin {src, dst} => parked' = parked
      BY <2>3, ConstantsAssumption DEF coroutine_sleep
    <3>6. /\ \A u \in Sched : <<"current", u>> \notin {src, dst} => Holds(u)' = Holds(u)
          /\ \A u \in Thread : <<"arg", u>> \notin {src, dst} => ArgOf(u)' = ArgOf(u)
          /\ <<"dead", Home>> \notin {src, dst} => Dead' = Dead
      BY <3>1, <3>2, <3>3
    <3>7. Contents(src)' = Contents(src) \ S /\ S \in SUBSET Contents(src)
      BY <2>3, <3>3, PlaceKinds, PlaceKindsNext, <3>a, ConstantsAssumption
          DEF coroutine_sleep
    <3>8. Contents(dst)' = Contents(dst) \cup S
      BY <2>3, <3>3, PlaceKinds, PlaceKindsNext, <3>a, ConstantsAssumption
          DEF coroutine_sleep
    <3> HIDE DEF src, dst, S
    <3>9. \A p \in Place : p # src /\ p # dst => Contents(p)' = Contents(p)
      <4>1. Frozen(src, dst)
        BY <3>5, <3>6 DEF Frozen
      <4> QED BY <3>4, <4>1, Frame
    <3> QED BY <3>4, <3>7, <3>8, <3>9, Move
  <2>4. CASE coroutine_await(s)
    <3> DEFINE src == <<"current", s>>
               dst == <<"parked", Home>>
               S == {current[s]}
    <3>1. \A u \in Sched : u # s => Holds(u)' = Holds(u)
      BY <2>4, ConstantsAssumption DEF coroutine_await, Holds
    <3>2. \A u \in Thread : ArgOf(u)' = ArgOf(u)
      BY <2>4, ConstantsAssumption DEF coroutine_await, ArgOf, HasArg
    <3>3. Dead' = Dead
      BY <2>4, ConstantsAssumption DEF coroutine_await, Dead
    <3>a. Holds(s) = {current[s]} /\ Holds(s)' = {}
      BY <2>4, ConstantsAssumption, ConstantsAssumption DEF coroutine_await, ArgOf,
          HasArg, Holds
    <3>4. src \in Place /\ dst \in Place /\ src # dst
      BY <2>4, PlaceKinds, ConstantsAssumption DEF coroutine_await
    <3>5. /\ \A u \in Sched : <<"ready", u>> \notin {src, dst} => ready'[u] = ready[u]
          /\ \A u \in Sched : <<"buffer", u>> \notin {src, dst} => buffer'[u] = buffer[u]
          /\ \A u \in Thread : <<"bag", u>> \notin {src, dst} => bag'[u] = bag[u]
          /\ <<"parked", Home>> \notin {src, dst} => parked' = parked
      BY <2>4, ConstantsAssumption DEF coroutine_await
    <3>6. /\ \A u \in Sched : <<"current", u>> \notin {src, dst} => Holds(u)' = Holds(u)
          /\ \A u \in Thread : <<"arg", u>> \notin {src, dst} => ArgOf(u)' = ArgOf(u)
          /\ <<"dead", Home>> \notin {src, dst} => Dead' = Dead
      BY <3>1, <3>2, <3>3
    <3>7. Contents(src)' = Contents(src) \ S /\ S \in SUBSET Contents(src)
      BY <2>4, <3>3, PlaceKinds, PlaceKindsNext, <3>a, ConstantsAssumption
          DEF coroutine_await
    <3>8. Contents(dst)' = Contents(dst) \cup S
      BY <2>4, <3>3, PlaceKinds, PlaceKindsNext, <3>a, ConstantsAssumption
          DEF coroutine_await
    <3> HIDE DEF src, dst, S
    <3>9. \A p \in Place : p # src /\ p # dst => Contents(p)' = Contents(p)
      <4>1. Frozen(src, dst)
        BY <3>5, <3>6 DEF Frozen
      <4> QED BY <3>4, <4>1, Frame
    <3> QED BY <3>4, <3>7, <3>8, <3>9, Move
  <2>5. CASE coroutine_yield(s)
    <3> DEFINE src == <<"current", s>>
               dst == <<"arg", s>>
               S == {current[s]}
    <3>1. \A u \in Sched : u # s => Holds(u)' = Holds(u)
      BY <2>5, ConstantsAssumption DEF coroutine_yield, Holds
    <3>2. \A u \in Thread : u # s => ArgOf(u)' = ArgOf(u)
      BY <2>5, ConstantsAssumption DEF coroutine_yield, ArgOf, HasArg
    <3>3. Dead' = Dead
      BY <2>5, ConstantsAssumption DEF coroutine_yield, Dead
    <3>a. Holds(s) = {current[s]} /\ Holds(s)' = {}
      BY <2>5, ConstantsAssumption, ConstantsAssumption DEF coroutine_yield, ArgOf,
          HasArg, Holds
    <3>b. ArgOf(s) = {} /\ ArgOf(s)' = {current[s]}
      BY <2>5, ConstantsAssumption, ConstantsAssumption DEF coroutine_yield, ArgOf,
          HasArg, Holds
    <3>4. src \in Place /\ dst \in Place /\ src # dst
      BY <2>5, PlaceKinds, ConstantsAssumption DEF coroutine_yield
    <3>5. /\ \A u \in Sched : <<"ready", u>> \notin {src, dst} => ready'[u] = ready[u]
          /\ \A u \in Sched : <<"buffer", u>> \notin {src, dst} => buffer'[u] = buffer[u]
          /\ \A u \in Thread : <<"bag", u>> \notin {src, dst} => bag'[u] = bag[u]
          /\ <<"parked", Home>> \notin {src, dst} => parked' = parked
      BY <2>5, ConstantsAssumption DEF coroutine_yield
    <3>6. /\ \A u \in Sched : <<"current", u>> \notin {src, dst} => Holds(u)' = Holds(u)
          /\ \A u \in Thread : <<"arg", u>> \notin {src, dst} => ArgOf(u)' = ArgOf(u)
          /\ <<"dead", Home>> \notin {src, dst} => Dead' = Dead
      BY <3>1, <3>2, <3>3
    <3>7. Contents(src)' = Contents(src) \ S /\ S \in SUBSET Contents(src)
      BY <2>5, <3>3, PlaceKinds, PlaceKindsNext, <3>a, <3>b, ConstantsAssumption
          DEF coroutine_yield
    <3>8. Contents(dst)' = Contents(dst) \cup S
      BY <2>5, <3>3, PlaceKinds, PlaceKindsNext, <3>a, <3>b, ConstantsAssumption
          DEF coroutine_yield
    <3> HIDE DEF src, dst, S
    <3>9. \A p \in Place : p # src /\ p # dst => Contents(p)' = Contents(p)
      <4>1. Frozen(src, dst)
        BY <3>5, <3>6 DEF Frozen
      <4> QED BY <3>4, <4>1, Frame
    <3> QED BY <3>4, <3>7, <3>8, <3>9, Move
  <2>6. CASE coroutine_dead(s)
    <3>1. \A u \in Sched : Holds(u)' = Holds(u)
      BY <2>6 DEF coroutine_dead, Holds
    <3>2. \A u \in Thread : ArgOf(u)' = ArgOf(u)
      BY <2>6 DEF coroutine_dead, ArgOf, HasArg
    <3>3. Dead' = Dead
      BY <2>6 DEF coroutine_dead, Dead
    <3>4. UNCHANGED <<ready, buffer, bag, parked>>
      BY <2>6 DEF coroutine_dead
    <3> QED BY <3>1, <3>2, <3>3, <3>4, Undisturbed
  <2> QED BY <1>3, <2>1, <2>2, <2>3, <2>4, <2>5, <2>6 DEF CoStep
<1>4. ASSUME NEW s \in Sched, PickStep(s) PROVE ExactlyOnePlace'
  <2>1. CASE pick_try_wait(s)
    <3>1. CASE Goto(s, "pick", "checkBuf")
      <4>1. \A u \in Sched : Holds(u)' = Holds(u)
        BY <2>1, <3>1 DEF pick_try_wait, Holds
      <4>2. \A u \in Thread : ArgOf(u)' = ArgOf(u)
        BY <2>1, <3>1 DEF pick_try_wait, ArgOf, HasArg
      <4>3. Dead' = Dead
        BY <2>1, <3>1 DEF pick_try_wait, Dead
      <4>4. UNCHANGED <<ready, buffer, bag, parked>>
        BY <2>1, <3>1 DEF pick_try_wait
      <4> QED BY <4>1, <4>2, <4>3, <4>4, Undisturbed
    <3>2. CASE Goto(s, "pick", "steal")
      <4>1. \A u \in Sched : Holds(u)' = Holds(u)
        BY <2>1, <3>2 DEF pick_try_wait, Holds
      <4>2. \A u \in Thread : ArgOf(u)' = ArgOf(u)
        BY <2>1, <3>2 DEF pick_try_wait, ArgOf, HasArg
      <4>3. Dead' = Dead
        BY <2>1, <3>2 DEF pick_try_wait, Dead
      <4>4. UNCHANGED <<ready, buffer, bag, parked>>
        BY <2>1, <3>2 DEF pick_try_wait
      <4> QED BY <4>1, <4>2, <4>3, <4>4, Undisturbed
    <3> QED BY <2>1, <3>1, <3>2 DEF pick_try_wait
  <2>2. CASE steal_look(s)
    <3>1. CASE NextVictim(s) /\ UNCHANGED pc
      <4>1. \A u \in Sched : Holds(u)' = Holds(u)
        BY <2>2, <3>1 DEF steal_look, NextVictim, Holds
      <4>2. \A u \in Thread : ArgOf(u)' = ArgOf(u)
        BY <2>2, <3>1 DEF steal_look, NextVictim, ArgOf, HasArg
      <4>3. Dead' = Dead
        BY <2>2, <3>1 DEF steal_look, NextVictim, Dead
      <4>4. UNCHANGED <<ready, buffer, bag, parked>>
        BY <2>2, <3>1 DEF steal_look, NextVictim
      <4> QED BY <4>1, <4>2, <4>3, <4>4, Undisturbed
    <3>2. CASE Goto(s, "steal", "stealLock") /\ UNCHANGED victim
      <4>1. \A u \in Sched : Holds(u)' = Holds(u)
        BY <2>2, <3>2 DEF steal_look, NextVictim, Holds
      <4>2. \A u \in Thread : ArgOf(u)' = ArgOf(u)
        BY <2>2, <3>2 DEF steal_look, NextVictim, ArgOf, HasArg
      <4>3. Dead' = Dead
        BY <2>2, <3>2 DEF steal_look, NextVictim, Dead
      <4>4. UNCHANGED <<ready, buffer, bag, parked>>
        BY <2>2, <3>2 DEF steal_look, NextVictim
      <4> QED BY <4>1, <4>2, <4>3, <4>4, Undisturbed
    <3> QED BY <2>2, <3>1, <3>2 DEF steal_look, NextVictim
  <2>3. CASE steal_lock(s)
    <3>1. \A u \in Sched : Holds(u)' = Holds(u)
      BY <2>3 DEF steal_lock, Acquire, Holds
    <3>2. \A u \in Thread : ArgOf(u)' = ArgOf(u)
      BY <2>3 DEF steal_lock, Acquire, ArgOf, HasArg
    <3>3. Dead' = Dead
      BY <2>3 DEF steal_lock, Acquire, Dead
    <3>4. UNCHANGED <<ready, buffer, bag, parked>>
      BY <2>3 DEF steal_lock, Acquire
    <3> QED BY <3>1, <3>2, <3>3, <3>4, Undisturbed
  <2>4. CASE \E c \in Co : steal_one(s, c)
    <3>p. PICK v \in Sched, c \in Co : v = victim[s] /\ steal_one(s, c)
      BY <2>4 DEF steal_one
    <3> DEFINE src == <<"ready", v>>
               dst == <<"bag", s>>
               S == {c}
    <3>1. \A u \in Sched : Holds(u)' = Holds(u)
      BY <3>p DEF steal_one, Holds
    <3>2. \A u \in Thread : ArgOf(u)' = ArgOf(u)
      BY <3>p DEF steal_one, ArgOf, HasArg
    <3>3. Dead' = Dead
      BY <3>p DEF steal_one, Dead
    <3>4. src \in Place /\ dst \in Place /\ src # dst
      BY <3>p, PlaceKinds DEF steal_one
    <3>5. /\ \A u \in Sched : <<"ready", u>> \notin {src, dst} => ready'[u] = ready[u]
          /\ \A u \in Sched : <<"buffer", u>> \notin {src, dst} => buffer'[u] = buffer[u]
          /\ \A u \in Thread : <<"bag", u>> \notin {src, dst} => bag'[u] = bag[u]
          /\ <<"parked", Home>> \notin {src, dst} => parked' = parked
      BY <3>p DEF steal_one
    <3>6. /\ \A u \in Sched : <<"current", u>> \notin {src, dst} => Holds(u)' = Holds(u)
          /\ \A u \in Thread : <<"arg", u>> \notin {src, dst} => ArgOf(u)' = ArgOf(u)
          /\ <<"dead", Home>> \notin {src, dst} => Dead' = Dead
      BY <3>1, <3>2, <3>3
    <3>7. Contents(src)' = Contents(src) \ S /\ S \in SUBSET Contents(src)
      BY <3>p, <3>3, PlaceKinds, PlaceKindsNext DEF steal_one
    <3>8. Contents(dst)' = Contents(dst) \cup S
      BY <3>p, <3>3, PlaceKinds, PlaceKindsNext DEF steal_one
    <3> HIDE DEF src, dst, S
    <3>9. \A p \in Place : p # src /\ p # dst => Contents(p)' = Contents(p)
      <4>1. Frozen(src, dst)
        BY <3>5, <3>6 DEF Frozen
      <4> QED BY <3>4, <4>1, Frame
    <3> QED BY <3>4, <3>7, <3>8, <3>9, Move
  <2>5. CASE steal_unlock(s)
    <3>1. \A u \in Sched : Holds(u)' = Holds(u)
      BY <2>5 DEF steal_unlock, NextVictim, Holds
    <3>2. \A u \in Thread : ArgOf(u)' = ArgOf(u)
      BY <2>5 DEF steal_unlock, NextVictim, ArgOf, HasArg
    <3>3. Dead' = Dead
      BY <2>5 DEF steal_unlock, NextVictim, Dead
    <3>4. UNCHANGED <<ready, buffer, bag, parked>>
      BY <2>5 DEF steal_unlock, NextVictim
    <3> QED BY <3>1, <3>2, <3>3, <3>4, Undisturbed
  <2>6. CASE steal_end(s)
    <3>1. CASE Goto(s, "steal", "try2")
      <4>1. \A u \in Sched : Holds(u)' = Holds(u)
        BY <2>6, <3>1 DEF steal_end, Holds
      <4>2. \A u \in Thread : ArgOf(u)' = ArgOf(u)
        BY <2>6, <3>1 DEF steal_end, ArgOf, HasArg
      <4>3. Dead' = Dead
        BY <2>6, <3>1 DEF steal_end, Dead
      <4>4. UNCHANGED <<ready, buffer, bag, parked>>
        BY <2>6, <3>1 DEF steal_end
      <4> QED BY <4>1, <4>2, <4>3, <4>4, Undisturbed
    <3>2. CASE Goto(s, "steal", "stLock")
      <4>1. \A u \in Sched : Holds(u)' = Holds(u)
        BY <2>6, <3>2 DEF steal_end, get_ready_to_push, Holds
      <4>2. \A u \in Thread : ArgOf(u)' = ArgOf(u)
        BY <2>6, <3>2 DEF steal_end, get_ready_to_push, ArgOf, HasArg
      <4>3. Dead' = Dead
        <5>1. status' = SetAll(status, bag[s], "READY") /\ current' = current
          BY <2>6, <3>2 DEF steal_end, get_ready_to_push
        <5>2. bag[s] \in SUBSET Co /\ bag[s] \cap Dead = {}
          BY Elsewhere
        <5> QED BY <5>1, <5>2, DeadFrame
      <4>4. UNCHANGED <<ready, buffer, bag, parked>>
        BY <2>6, <3>2 DEF steal_end, get_ready_to_push
      <4> QED BY <4>1, <4>2, <4>3, <4>4, Undisturbed
    <3> QED BY <2>6, <3>1, <3>2 DEF steal_end
  <2>7. CASE loot_lock(s)
    <3>1. \A u \in Sched : Holds(u)' = Holds(u)
      BY <2>7 DEF loot_lock, Acquire, Holds
    <3>2. \A u \in Thread : ArgOf(u)' = ArgOf(u)
      BY <2>7 DEF loot_lock, Acquire, ArgOf, HasArg
    <3>3. Dead' = Dead
      BY <2>7 DEF loot_lock, Acquire, Dead
    <3>4. UNCHANGED <<ready, buffer, bag, parked>>
      BY <2>7 DEF loot_lock, Acquire
    <3> QED BY <3>1, <3>2, <3>3, <3>4, Undisturbed
  <2>8. CASE loot_push(s)
    <3> DEFINE src == <<"bag", s>>
               dst == <<"ready", s>>
               S == bag[s]
    <3>1. \A u \in Sched : Holds(u)' = Holds(u)
      BY <2>8 DEF loot_push, push_all_to_ready, Holds
    <3>2. \A u \in Thread : ArgOf(u)' = ArgOf(u)
      BY <2>8 DEF loot_push, push_all_to_ready, ArgOf, HasArg
    <3>3. Dead' = Dead
      BY <2>8 DEF loot_push, push_all_to_ready, Dead
    <3>4. src \in Place /\ dst \in Place /\ src # dst
      BY <2>8, PlaceKinds DEF loot_push, push_all_to_ready
    <3>5. /\ \A u \in Sched : <<"ready", u>> \notin {src, dst} => ready'[u] = ready[u]
          /\ \A u \in Sched : <<"buffer", u>> \notin {src, dst} => buffer'[u] = buffer[u]
          /\ \A u \in Thread : <<"bag", u>> \notin {src, dst} => bag'[u] = bag[u]
          /\ <<"parked", Home>> \notin {src, dst} => parked' = parked
      BY <2>8 DEF loot_push, push_all_to_ready
    <3>6. /\ \A u \in Sched : <<"current", u>> \notin {src, dst} => Holds(u)' = Holds(u)
          /\ \A u \in Thread : <<"arg", u>> \notin {src, dst} => ArgOf(u)' = ArgOf(u)
          /\ <<"dead", Home>> \notin {src, dst} => Dead' = Dead
      BY <3>1, <3>2, <3>3
    <3>7. Contents(src)' = Contents(src) \ S /\ S \in SUBSET Contents(src)
      BY <2>8, <3>3, PlaceKinds, PlaceKindsNext DEF loot_push, push_all_to_ready
    <3>8. Contents(dst)' = Contents(dst) \cup S
      BY <2>8, <3>3, PlaceKinds, PlaceKindsNext DEF loot_push, push_all_to_ready
    <3> HIDE DEF src, dst, S
    <3>9. \A p \in Place : p # src /\ p # dst => Contents(p)' = Contents(p)
      <4>1. Frozen(src, dst)
        BY <3>5, <3>6 DEF Frozen
      <4> QED BY <3>4, <4>1, Frame
    <3> QED BY <3>4, <3>7, <3>8, <3>9, Move
  <2>9. CASE second_try_wait(s)
    <3>1. CASE Goto(s, "try2", "endSteal") /\ UNCHANGED schedLock
      <4>1. \A u \in Sched : Holds(u)' = Holds(u)
        BY <2>9, <3>1 DEF second_try_wait, Holds
      <4>2. \A u \in Thread : ArgOf(u)' = ArgOf(u)
        BY <2>9, <3>1 DEF second_try_wait, ArgOf, HasArg
      <4>3. Dead' = Dead
        BY <2>9, <3>1 DEF second_try_wait, Dead
      <4>4. UNCHANGED <<ready, buffer, bag, parked>>
        BY <2>9, <3>1 DEF second_try_wait
      <4> QED BY <4>1, <4>2, <4>3, <4>4, Undisturbed
    <3>2. CASE Goto(s, "try2", "block") /\ schedLock' = [schedLock EXCEPT ![s] = IF @ = s THEN None ELSE @]
      <4>1. \A u \in Sched : Holds(u)' = Holds(u)
        BY <2>9, <3>2 DEF second_try_wait, Holds
      <4>2. \A u \in Thread : ArgOf(u)' = ArgOf(u)
        BY <2>9, <3>2 DEF second_try_wait, ArgOf, HasArg
      <4>3. Dead' = Dead
        BY <2>9, <3>2 DEF second_try_wait, Dead
      <4>4. UNCHANGED <<ready, buffer, bag, parked>>
        BY <2>9, <3>2 DEF second_try_wait
      <4> QED BY <4>1, <4>2, <4>3, <4>4, Undisturbed
    <3> QED BY <2>9, <3>1, <3>2 DEF second_try_wait
  <2>10. CASE sem_wait(s)
    <3>1. \A u \in Sched : Holds(u)' = Holds(u)
      BY <2>10 DEF sem_wait, Holds
    <3>2. \A u \in Thread : ArgOf(u)' = ArgOf(u)
      BY <2>10 DEF sem_wait, ArgOf, HasArg
    <3>3. Dead' = Dead
      BY <2>10 DEF sem_wait, Dead
    <3>4. UNCHANGED <<ready, buffer, bag, parked>>
      BY <2>10 DEF sem_wait
    <3> QED BY <3>1, <3>2, <3>3, <3>4, Undisturbed
  <2>11. CASE check_ready_count(s)
    <3>1. CASE Goto(s, "checkBuf", "pullLock") /\ readyCount[s] = 0
      <4>1. \A u \in Sched : Holds(u)' = Holds(u)
        BY <2>11, <3>1 DEF check_ready_count, Holds
      <4>2. \A u \in Thread : ArgOf(u)' = ArgOf(u)
        BY <2>11, <3>1 DEF check_ready_count, ArgOf, HasArg
      <4>3. Dead' = Dead
        BY <2>11, <3>1 DEF check_ready_count, Dead
      <4>4. UNCHANGED <<ready, buffer, bag, parked>>
        BY <2>11, <3>1 DEF check_ready_count
      <4> QED BY <4>1, <4>2, <4>3, <4>4, Undisturbed
    <3>2. CASE Goto(s, "checkBuf", "pull") /\ readyCount[s] # 0
      <4>1. \A u \in Sched : Holds(u)' = Holds(u)
        BY <2>11, <3>2 DEF check_ready_count, Holds
      <4>2. \A u \in Thread : ArgOf(u)' = ArgOf(u)
        BY <2>11, <3>2 DEF check_ready_count, ArgOf, HasArg
      <4>3. Dead' = Dead
        BY <2>11, <3>2 DEF check_ready_count, Dead
      <4>4. UNCHANGED <<ready, buffer, bag, parked>>
        BY <2>11, <3>2 DEF check_ready_count
      <4> QED BY <4>1, <4>2, <4>3, <4>4, Undisturbed
    <3>3. CASE Goto(s, "pull", "pullPop") /\ readyCount[s] = 0
      <4>1. \A u \in Sched : Holds(u)' = Holds(u)
        BY <2>11, <3>3 DEF check_ready_count, Holds
      <4>2. \A u \in Thread : ArgOf(u)' = ArgOf(u)
        BY <2>11, <3>3 DEF check_ready_count, ArgOf, HasArg
      <4>3. Dead' = Dead
        BY <2>11, <3>3 DEF check_ready_count, Dead
      <4>4. UNCHANGED <<ready, buffer, bag, parked>>
        BY <2>11, <3>3 DEF check_ready_count
      <4> QED BY <4>1, <4>2, <4>3, <4>4, Undisturbed
    <3>4. CASE Goto(s, "pull", "end") /\ readyCount[s] # 0
      <4>1. \A u \in Sched : Holds(u)' = Holds(u)
        BY <2>11, <3>4 DEF check_ready_count, Holds
      <4>2. \A u \in Thread : ArgOf(u)' = ArgOf(u)
        BY <2>11, <3>4 DEF check_ready_count, ArgOf, HasArg
      <4>3. Dead' = Dead
        BY <2>11, <3>4 DEF check_ready_count, Dead
      <4>4. UNCHANGED <<ready, buffer, bag, parked>>
        BY <2>11, <3>4 DEF check_ready_count
      <4> QED BY <4>1, <4>2, <4>3, <4>4, Undisturbed
    <3> QED BY <2>11, <3>1, <3>2, <3>3, <3>4 DEF check_ready_count
  <2>12. CASE recheck_lock(s)
    <3>1. \A u \in Sched : Holds(u)' = Holds(u)
      BY <2>12 DEF recheck_lock, Acquire, Holds
    <3>2. \A u \in Thread : ArgOf(u)' = ArgOf(u)
      BY <2>12 DEF recheck_lock, Acquire, ArgOf, HasArg
    <3>3. Dead' = Dead
      BY <2>12 DEF recheck_lock, Acquire, Dead
    <3>4. UNCHANGED <<ready, buffer, bag, parked>>
      BY <2>12 DEF recheck_lock, Acquire
    <3> QED BY <3>1, <3>2, <3>3, <3>4, Undisturbed
  <2>13. CASE recheck(s)
    <3>1. CASE Goto(s, "pullTest", "end") /\ UNCHANGED schedLock
      <4>1. \A u \in Sched : Holds(u)' = Holds(u)
        BY <2>13, <3>1 DEF recheck, Holds
      <4>2. \A u \in Thread : ArgOf(u)' = ArgOf(u)
        BY <2>13, <3>1 DEF recheck, ArgOf, HasArg
      <4>3. Dead' = Dead
        BY <2>13, <3>1 DEF recheck, Dead
      <4>4. UNCHANGED <<ready, buffer, bag, parked>>
        BY <2>13, <3>1 DEF recheck
      <4> QED BY <4>1, <4>2, <4>3, <4>4, Undisturbed
    <3>2. CASE Goto(s, "pullTest", "pull") /\ schedLock' = [schedLock EXCEPT ![s] = None]
      <4>1. \A u \in Sched : Holds(u)' = Holds(u)
        BY <2>13, <3>2 DEF recheck, Holds
      <4>2. \A u \in Thread : ArgOf(u)' = ArgOf(u)
        BY <2>13, <3>2 DEF recheck, ArgOf, HasArg
      <4>3. Dead' = Dead
        BY <2>13, <3>2 DEF recheck, Dead
      <4>4. UNCHANGED <<ready, buffer, bag, parked>>
        BY <2>13, <3>2 DEF recheck
      <4> QED BY <4>1, <4>2, <4>3, <4>4, Undisturbed
    <3> QED BY <2>13, <3>1, <3>2 DEF recheck
  <2>14. CASE \E c \in Co : PopBuffer(s, s, "pullPop", c)
    <3>p. PICK c \in Co : PopBuffer(s, s, "pullPop", c)
      BY <2>14 DEF PopBuffer
    <3> DEFINE src == <<"buffer", s>>
               dst == <<"bag", s>>
               S == {c}
    <3>1. \A u \in Sched : Holds(u)' = Holds(u)
      BY <3>p DEF PopBuffer, Holds
    <3>2. \A u \in Thread : ArgOf(u)' = ArgOf(u)
      BY <3>p DEF PopBuffer, ArgOf, HasArg
    <3>3. Dead' = Dead
      BY <3>p DEF PopBuffer, Dead
    <3>4. src \in Place /\ dst \in Place /\ src # dst
      BY <3>p, PlaceKinds DEF PopBuffer
    <3>5. /\ \A u \in Sched : <<"ready", u>> \notin {src, dst} => ready'[u] = ready[u]
          /\ \A u \in Sched : <<"buffer", u>> \notin {src, dst} => buffer'[u] = buffer[u]
          /\ \A u \in Thread : <<"bag", u>> \notin {src, dst} => bag'[u] = bag[u]
          /\ <<"parked", Home>> \notin {src, dst} => parked' = parked
      BY <3>p DEF PopBuffer
    <3>6. /\ \A u \in Sched : <<"current", u>> \notin {src, dst} => Holds(u)' = Holds(u)
          /\ \A u \in Thread : <<"arg", u>> \notin {src, dst} => ArgOf(u)' = ArgOf(u)
          /\ <<"dead", Home>> \notin {src, dst} => Dead' = Dead
      BY <3>1, <3>2, <3>3
    <3>7. Contents(src)' = Contents(src) \ S /\ S \in SUBSET Contents(src)
      BY <3>p, <3>3, PlaceKinds, PlaceKindsNext DEF PopBuffer
    <3>8. Contents(dst)' = Contents(dst) \cup S
      BY <3>p, <3>3, PlaceKinds, PlaceKindsNext DEF PopBuffer
    <3> HIDE DEF src, dst, S
    <3>9. \A p \in Place : p # src /\ p # dst => Contents(p)' = Contents(p)
      <4>1. Frozen(src, dst)
        BY <3>5, <3>6 DEF Frozen
      <4> QED BY <3>4, <4>1, Frame
    <3> QED BY <3>4, <3>7, <3>8, <3>9, Move
  <2>15. CASE pull_end(s)
    <3>1. CASE Goto(s, "pullPop", "pull")
      <4>1. \A u \in Sched : Holds(u)' = Holds(u)
        BY <2>15, <3>1 DEF pull_end, Holds
      <4>2. \A u \in Thread : ArgOf(u)' = ArgOf(u)
        BY <2>15, <3>1 DEF pull_end, ArgOf, HasArg
      <4>3. Dead' = Dead
        BY <2>15, <3>1 DEF pull_end, Dead
      <4>4. UNCHANGED <<ready, buffer, bag, parked>>
        BY <2>15, <3>1 DEF pull_end
      <4> QED BY <4>1, <4>2, <4>3, <4>4, Undisturbed
    <3>2. CASE Goto(s, "pullPop", "pbLock")
      <4>1. \A u \in Sched : Holds(u)' = Holds(u)
        BY <2>15, <3>2 DEF pull_end, get_ready_to_push, Holds
      <4>2. \A u \in Thread : ArgOf(u)' = ArgOf(u)
        BY <2>15, <3>2 DEF pull_end, get_ready_to_push, ArgOf, HasArg
      <4>3. Dead' = Dead
        <5>1. status' = SetAll(status, bag[s], "READY") /\ current' = current
          BY <2>15, <3>2 DEF pull_end, get_ready_to_push
        <5>2. bag[s] \in SUBSET Co /\ bag[s] \cap Dead = {}
          BY Elsewhere
        <5> QED BY <5>1, <5>2, DeadFrame
      <4>4. UNCHANGED <<ready, buffer, bag, parked>>
        BY <2>15, <3>2 DEF pull_end, get_ready_to_push
      <4> QED BY <4>1, <4>2, <4>3, <4>4, Undisturbed
    <3> QED BY <2>15, <3>1, <3>2 DEF pull_end
  <2>16. CASE buffer_lock(s)
    <3>1. \A u \in Sched : Holds(u)' = Holds(u)
      BY <2>16 DEF buffer_lock, Acquire, Holds
    <3>2. \A u \in Thread : ArgOf(u)' = ArgOf(u)
      BY <2>16 DEF buffer_lock, Acquire, ArgOf, HasArg
    <3>3. Dead' = Dead
      BY <2>16 DEF buffer_lock, Acquire, Dead
    <3>4. UNCHANGED <<ready, buffer, bag, parked>>
      BY <2>16 DEF buffer_lock, Acquire
    <3> QED BY <3>1, <3>2, <3>3, <3>4, Undisturbed
  <2>17. CASE buffer_push(s)
    <3> DEFINE src == <<"bag", s>>
               dst == <<"ready", s>>
               S == bag[s]
    <3>1. \A u \in Sched : Holds(u)' = Holds(u)
      BY <2>17 DEF buffer_push, push_all_to_ready, Holds
    <3>2. \A u \in Thread : ArgOf(u)' = ArgOf(u)
      BY <2>17 DEF buffer_push, push_all_to_ready, ArgOf, HasArg
    <3>3. Dead' = Dead
      BY <2>17 DEF buffer_push, push_all_to_ready, Dead
    <3>4. src \in Place /\ dst \in Place /\ src # dst
      BY <2>17, PlaceKinds DEF buffer_push, push_all_to_ready
    <3>5. /\ \A u \in Sched : <<"ready", u>> \notin {src, dst} => ready'[u] = ready[u]
          /\ \A u \in Sched : <<"buffer", u>> \notin {src, dst} => buffer'[u] = buffer[u]
          /\ \A u \in Thread : <<"bag", u>> \notin {src, dst} => bag'[u] = bag[u]
          /\ <<"parked", Home>> \notin {src, dst} => parked' = parked
      BY <2>17 DEF buffer_push, push_all_to_ready
    <3>6. /\ \A u \in Sched : <<"current", u>> \notin {src, dst} => Holds(u)' = Holds(u)
          /\ \A u \in Thread : <<"arg", u>> \notin {src, dst} => ArgOf(u)' = ArgOf(u)
          /\ <<"dead", Home>> \notin {src, dst} => Dead' = Dead
      BY <3>1, <3>2, <3>3
    <3>7. Contents(src)' = Contents(src) \ S /\ S \in SUBSET Contents(src)
      BY <2>17, <3>3, PlaceKinds, PlaceKindsNext DEF buffer_push, push_all_to_ready
    <3>8. Contents(dst)' = Contents(dst) \cup S
      BY <2>17, <3>3, PlaceKinds, PlaceKindsNext DEF buffer_push, push_all_to_ready
    <3> HIDE DEF src, dst, S
    <3>9. \A p \in Place : p # src /\ p # dst => Contents(p)' = Contents(p)
      <4>1. Frozen(src, dst)
        BY <3>5, <3>6 DEF Frozen
      <4> QED BY <3>4, <4>1, Frame
    <3> QED BY <3>4, <3>7, <3>8, <3>9, Move
  <2>18. CASE end_lock(s)
    <3>1. \A u \in Sched : Holds(u)' = Holds(u)
      BY <2>18 DEF end_lock, Acquire, Holds
    <3>2. \A u \in Thread : ArgOf(u)' = ArgOf(u)
      BY <2>18 DEF end_lock, Acquire, ArgOf, HasArg
    <3>3. Dead' = Dead
      BY <2>18 DEF end_lock, Acquire, Dead
    <3>4. UNCHANGED <<ready, buffer, bag, parked>>
      BY <2>18 DEF end_lock, Acquire
    <3> QED BY <3>1, <3>2, <3>3, <3>4, Undisturbed
  <2>19. CASE pickup_assert(s)
    <3>1. \A u \in Sched : Holds(u)' = Holds(u)
      BY <2>19 DEF pickup_assert, Holds
    <3>2. \A u \in Thread : ArgOf(u)' = ArgOf(u)
      BY <2>19 DEF pickup_assert, ArgOf, HasArg
    <3>3. Dead' = Dead
      BY <2>19 DEF pickup_assert, Dead
    <3>4. UNCHANGED <<ready, buffer, bag, parked>>
      BY <2>19 DEF pickup_assert
    <3> QED BY <3>1, <3>2, <3>3, <3>4, Undisturbed
  <2>20. CASE \E c \in Co : pickup_pop(s, c)
    <3>p. PICK c \in Co : pickup_pop(s, c)
      BY <2>20 DEF pickup_pop
    <3> DEFINE src == <<"ready", s>>
               dst == <<"current", s>>
               S == {c}
    <3>0. current[s] = NoCo /\ c # NoCo /\ c \notin Dead
      BY <3>p, Elsewhere, ConstantsAssumption DEF pickup_pop, StackInv
    <3>1. \A u \in Sched : u # s => Holds(u)' = Holds(u)
      BY <3>p, <3>0, ConstantsAssumption DEF pickup_pop, Holds
    <3>2. \A u \in Thread : ArgOf(u)' = ArgOf(u)
      BY <3>p, <3>0, ConstantsAssumption DEF pickup_pop, ArgOf, HasArg
    <3>3. Dead' = Dead
      BY <3>p, <3>0, ConstantsAssumption DEF pickup_pop, Dead
    <3>a. Holds(s) = {} /\ Holds(s)' = {c}
      BY <3>p, ConstantsAssumption, <3>0, ConstantsAssumption DEF pickup_pop, ArgOf,
          HasArg, Holds
    <3>4. src \in Place /\ dst \in Place /\ src # dst
      BY <3>p, PlaceKinds, <3>0, ConstantsAssumption DEF pickup_pop
    <3>5. /\ \A u \in Sched : <<"ready", u>> \notin {src, dst} => ready'[u] = ready[u]
          /\ \A u \in Sched : <<"buffer", u>> \notin {src, dst} => buffer'[u] = buffer[u]
          /\ \A u \in Thread : <<"bag", u>> \notin {src, dst} => bag'[u] = bag[u]
          /\ <<"parked", Home>> \notin {src, dst} => parked' = parked
      BY <3>p, <3>0, ConstantsAssumption DEF pickup_pop
    <3>6. /\ \A u \in Sched : <<"current", u>> \notin {src, dst} => Holds(u)' = Holds(u)
          /\ \A u \in Thread : <<"arg", u>> \notin {src, dst} => ArgOf(u)' = ArgOf(u)
          /\ <<"dead", Home>> \notin {src, dst} => Dead' = Dead
      BY <3>1, <3>2, <3>3
    <3>7. Contents(src)' = Contents(src) \ S /\ S \in SUBSET Contents(src)
      BY <3>p, <3>3, PlaceKinds, PlaceKindsNext, <3>a, <3>0, ConstantsAssumption
          DEF pickup_pop
    <3>8. Contents(dst)' = Contents(dst) \cup S
      BY <3>p, <3>3, PlaceKinds, PlaceKindsNext, <3>a, <3>0, ConstantsAssumption
          DEF pickup_pop
    <3> HIDE DEF src, dst, S
    <3>9. \A p \in Place : p # src /\ p # dst => Contents(p)' = Contents(p)
      <4>1. Frozen(src, dst)
        BY <3>5, <3>6 DEF Frozen
      <4> QED BY <3>4, <4>1, Frame
    <3> QED BY <3>4, <3>7, <3>8, <3>9, Move
  <2>21. CASE run(s)
    <3>1. \A u \in Sched : Holds(u)' = Holds(u)
      BY <2>21 DEF run, Holds
    <3>2. \A u \in Thread : ArgOf(u)' = ArgOf(u)
      BY <2>21 DEF run, ArgOf, HasArg
    <3>3. Dead' = Dead
      BY <2>21 DEF run, Dead
    <3>4. UNCHANGED <<ready, buffer, bag, parked>>
      BY <2>21 DEF run
    <3> QED BY <3>1, <3>2, <3>3, <3>4, Undisturbed
  <2>22. CASE process_co_exec_end(s)
    <3>1. \A u \in Sched : Holds(u)' = Holds(u)
      BY <2>22, ConstantsAssumption DEF process_co_exec_end, StackInv, Holds
    <3>2. \A u \in Thread : ArgOf(u)' = ArgOf(u)
      BY <2>22, ConstantsAssumption DEF process_co_exec_end, StackInv, ArgOf, HasArg
    <3>3. Dead' = Dead
      BY <2>22, ConstantsAssumption DEF process_co_exec_end, StackInv, Dead
    <3>4. UNCHANGED <<ready, buffer, bag, parked>>
      BY <2>22, ConstantsAssumption DEF process_co_exec_end, StackInv
    <3> QED BY <3>1, <3>2, <3>3, <3>4, Undisturbed
  <2>23. CASE dead_end(s)
    <3> DEFINE src == <<"current", s>>
               dst == <<"dead", Home>>
               S == {current[s]}
    <3>1. \A u \in Sched : u # s => Holds(u)' = Holds(u)
      BY <2>23, ConstantsAssumption DEF dead_end, Holds
    <3>2. \A u \in Thread : ArgOf(u)' = ArgOf(u)
      BY <2>23, ConstantsAssumption DEF dead_end, ArgOf, HasArg
    <3>0. \A u \in Sched : u # s => current[u] # current[s]
      BY <2>23, Elsewhere, ConstantsAssumption DEF dead_end, StackInv, Holds
    <3>3. Dead' = Dead \cup {current[s]}
      BY <2>23, <3>0, ConstantsAssumption DEF dead_end, Dead, StackInv
    <3>a. Holds(s) = {current[s]} /\ Holds(s)' = {}
      BY <2>23, ConstantsAssumption, ConstantsAssumption DEF dead_end, ArgOf, HasArg, Holds
    <3>4. src \in Place /\ dst \in Place /\ src # dst
      BY <2>23, PlaceKinds, ConstantsAssumption DEF dead_end
    <3>5. /\ \A u \in Sched : <<"ready", u>> \notin {src, dst} => ready'[u] = ready[u]
          /\ \A u \in Sched : <<"buffer", u>> \notin {src, dst} => buffer'[u] = buffer[u]
          /\ \A u \in Thread : <<"bag", u>> \notin {src, dst} => bag'[u] = bag[u]
          /\ <<"parked", Home>> \notin {src, dst} => parked' = parked
      BY <2>23, ConstantsAssumption DEF dead_end
    <3>6. /\ \A u \in Sched : <<"current", u>> \notin {src, dst} => Holds(u)' = Holds(u)
          /\ \A u \in Thread : <<"arg", u>> \notin {src, dst} => ArgOf(u)' = ArgOf(u)
          /\ <<"dead", Home>> \notin {src, dst} => Dead' = Dead
      BY <3>1, <3>2, <3>3
    <3>7. Contents(src)' = Contents(src) \ S /\ S \in SUBSET Contents(src)
      BY <2>23, <3>3, PlaceKinds, PlaceKindsNext, <3>a, ConstantsAssumption DEF dead_end
    <3>8. Contents(dst)' = Contents(dst) \cup S
      BY <2>23, <3>3, PlaceKinds, PlaceKindsNext, <3>a, ConstantsAssumption DEF dead_end
    <3> HIDE DEF src, dst, S
    <3>9. \A p \in Place : p # src /\ p # dst => Contents(p)' = Contents(p)
      <4>1. Frozen(src, dst)
        BY <3>5, <3>6 DEF Frozen
      <4> QED BY <3>4, <4>1, Frame
    <3> QED BY <3>4, <3>7, <3>8, <3>9, Move
  <2> QED BY <1>4, <2>1, <2>2, <2>3, <2>4, <2>5, <2>6, <2>7, <2>8, <2>9, <2>10, <2>11,
      <2>12, <2>13, <2>14, <2>15, <2>16, <2>17, <2>18, <2>19, <2>20, <2>21, <2>22, <2>23
      DEF PickStep
<1>5. CASE UNCHANGED vars
  <2>1. Dead' = Dead
    BY <1>5 DEF vars, Dead
  <2>2. \A s \in Sched : Holds(s)' = Holds(s)
    BY <1>5 DEF vars, Holds
  <2>3. \A t \in Thread : ArgOf(t)' = ArgOf(t)
    BY <1>5 DEF vars, ArgOf, HasArg
  <2> QED BY <1>5, <2>1, <2>2, <2>3, Undisturbed DEF vars
<1> QED BY <1>1, <1>2, <1>3, <1>4, <1>5 DEF Next
LEMMA InitStackPlace == Init => StackInv /\ ExactlyOnePlace
<1> SUFFICES ASSUME Init PROVE StackInv /\ ExactlyOnePlace
  OBVIOUS
<1>1. StackInv
  BY ConstantsAssumption, ThreadSets DEF Init, StackInv, StackExclusive, OnStack,
      ApplyPc, CoPc
<1>2. /\ Home \in Sched /\ Home \in Thread
      /\ \A s \in Sched : ready[s] = {} /\ buffer[s] = {} /\ Holds(s) = {}
      /\ \A t \in Thread : bag[t] = {} /\ ArgOf(t) = IF t = Home THEN {MainCo} ELSE {}
      /\ parked = {} /\ Dead = Co \ {MainCo}
  <2>1. Home \in Sched /\ Home \in Thread
    BY ConstantsAssumption DEF Home, Sched, Thread
  <2>2. /\ \A s \in Sched : ready[s] = {} /\ buffer[s] = {} /\ Holds(s) = {}
        /\ \A t \in Thread : bag[t] = {}
        /\ parked = {}
    BY DEF Init, Holds
  <2>3. \A t \in Thread : ArgOf(t) = IF t = Home THEN {MainCo} ELSE {}
    BY <2>1 DEF Init, ArgOf, HasArg
  <2>4. Dead = Co \ {MainCo}
    BY ConstantsAssumption DEF Init, Dead
  <2> QED BY <2>1, <2>2, <2>3, <2>4
<1>3. \A p \in Place : p # <<"arg", Home>> /\ p # <<"dead", Home>> => Contents(p) = {}
  <2> SUFFICES ASSUME NEW p \in Place, p # <<"arg", Home>>, p # <<"dead", Home>>
               PROVE  Contents(p) = {}
    OBVIOUS
  <2>1. CASE \E s \in Sched : p \in {<<"ready", s>>, <<"buffer", s>>, <<"current", s>>}
    BY <1>2, <2>1, PlaceKinds
  <2>2. CASE \E t \in Thread : p \in {<<"arg", t>>, <<"bag", t>>}
    BY <1>2, <2>2, PlaceKinds
  <2>3. CASE p \in {<<"parked", Home>>, <<"dead", Home>>}
    BY <1>2, <2>3, PlaceKinds
  <2> QED BY <2>1, <2>2, <2>3 DEF Place
<1>4. Contents(<<"arg", Home>>) = {MainCo} /\ Contents(<<"dead", Home>>) = Co \ {MainCo}
  BY <1>2, PlaceKinds
<1>5. <<"arg", Home>> \in Place /\ <<"dead", Home>> \in Place
  BY <1>2, PlaceKinds
<1>6. \A p, q \in Place : p # q => Contents(p) \cap Contents(q) = {}
  BY <1>3, <1>4
<1>7. \A c \in Co : \E p \in Place : c \in Contents(p)
  BY <1>4, <1>5, ConstantsAssumption
<1> QED BY <1>1, <1>6, <1>7 DEF ExactlyOnePlace

LEMMA NotBoth == Sched \cap Timer = {}
BY ConstantsAssumption DEF Sched, Timer

(* A thread that goes from a place in apply to another, or from a place in  *)
(* pickup_ready to another, does not enter or leave a stack.                *)
SamePhase(s) == \/ pc'[s] = pc[s]
                \/ pc[s] \in ApplyPc /\ pc'[s] \in ApplyPc
                \/ pc[s] \in PickPc \ {"start"} /\ pc'[s] \in PickPc \ {"start"}

(* Making coroutines READY that no scheduler holds.                         *)
LEMMA ReadyFrame ==
  ASSUME TypeInv, StackInv, NEW cs \in SUBSET Co, \A s \in Sched : Holds(s) \cap cs = {},
         status' = SetAll(status, cs, "READY"), UNCHANGED <<current, stkActive>>,
         \A s \in Sched : SamePhase(s)
  PROVE  StackInv'
<1>1. \A c \in Co : status'[c] = "DEAD" => status[c] = "DEAD"
  BY DEF SetAll
<1>2. ASSUME NEW s \in Sched, current[s] # NoCo, pc[s] # "leave"
      PROVE  status'[current[s]] = status[current[s]]
  BY <1>2 DEF SetAll, Holds, TypeInv, TypeOK
<1>3. \A s \in Sched : pc'[s] = "leave" => pc[s] = "leave"
  BY DEF SamePhase, ApplyPc, PickPc, BufferPc
<1>4. \A s \in Sched : OnStack(s)' => OnStack(s)
  BY <1>2, <1>3 DEF OnStack, SamePhase, ApplyPc, PickPc, BufferPc
<1>5. \A s \in Sched : current'[s] # NoCo
          => pc'[s] \in {"start", "run", "leave", "dying"} \cup ApplyPc
  BY DEF StackInv, SamePhase, ApplyPc, PickPc, BufferPc
<1>6. \A s \in Sched : pc'[s] \in {"run", "leave"} => status'[current'[s]] # "DEAD"
  BY <1>1 DEF StackInv, SamePhase, ApplyPc, PickPc, BufferPc, TypeInv, PcTyping
<1>7. \A s \in Sched : pc'[s] = "dying" => status'[current'[s]] = "DEAD"
  BY <1>2, ConstantsAssumption
  DEF StackInv, SamePhase, ApplyPc, PickPc, BufferPc, TypeInv, PcTyping
<1>8. \A s \in Sched : OnStack(s)' => stkActive'[current'[s]]
  BY <1>4 DEF StackInv
<1>9. StackExclusive'
  BY <1>4 DEF StackInv, StackExclusive
<1> QED BY <1>5, <1>6, <1>7, <1>8, <1>9 DEF StackInv

LEMMA StackStep == TypeInv /\ LockInv /\ StackInv /\ ExactlyOnePlace /\ [Next]_vars => StackInv'
<1> SUFFICES ASSUME TypeInv, LockInv, StackInv, ExactlyOnePlace, [Next]_vars PROVE StackInv'
  OBVIOUS
<1>a. \A t \in Thread : pc[t] \in ApplyPc \cup {"idle"} \/ t \in Sched
  BY DEF LockInv
<1>b. /\ \A s, u \in Sched : s # u => Holds(s) \cap Holds(u) = {}
      /\ \A t \in Thread, s \in Sched : ArgOf(t) \cap Holds(s) = {} /\ bag[t] \cap Holds(s) = {}
  BY Elsewhere
<1> USE ThreadSets, ConstantsAssumption, <1>a
    DEF TypeInv, TypeOK, PcTyping, Goto, queueVars, coVars, threadVars, ApplyPc, StackInv,
        StackExclusive, OnStack
<1>1. ASSUME NEW t \in Thread, ApplyStep(t) PROVE StackInv'
  <2>1. CASE \E s \in Sched : apply_impl(t, s)
    <3>1. status' = SetAll(status, {arg[t]}, "READY") /\ UNCHANGED <<current, stkActive>>
      BY <2>1 DEF apply_impl, get_ready_to_push
    <3>2. {arg[t]} \in SUBSET Co /\ \A u \in Sched : Holds(u) \cap {arg[t]} = {}
      BY <2>1, <1>b DEF apply_impl, ArgOf, HasArg
    <3>3. \A u \in Sched : SamePhase(u)
      BY <2>1 DEF apply_impl, SamePhase, PickPc, BufferPc
    <3> QED BY <3>1, <3>2, <3>3, ReadyFrame
  <2>2. CASE try_lock(t)
    <3>1. CASE Acquire(t, target[t], "tryLock", "push")
      BY <2>2, <3>1 DEF try_lock, Acquire
    <3>2. CASE Goto(t, "tryLock", "lazy") /\ UNCHANGED schedLock
      BY <2>2, <3>2 DEF try_lock, Acquire
    <3> QED BY <2>2, <3>1, <3>2 DEF try_lock, Acquire
  <2>3. CASE push_to_ready(t)
    BY <2>3 DEF push_to_ready
  <2>4. CASE apply_ready_lazy(t)
    <3>1. CASE Goto(t, "lazy", "signal")
      BY <2>4, <3>1 DEF apply_ready_lazy
    <3>2. CASE Goto(t, "lazy", "drain")
      BY <2>4, <3>2 DEF apply_ready_lazy
    <3> QED BY <2>4, <3>1, <3>2 DEF apply_ready_lazy
  <2>5. CASE \E s \in Sched, c \in Co : s = target[t] /\ PopBuffer(t, s, "drain", c)
    BY <2>5 DEF PopBuffer
  <2>6. CASE drain_end(t)
    <3>1. status' = SetAll(status, bag[t] \cup {arg[t]}, "READY") /\ UNCHANGED <<current, stkActive>>
      BY <2>6 DEF drain_end, get_ready_to_push
    <3>2. bag[t] \cup {arg[t]} \in SUBSET Co /\ \A u \in Sched : Holds(u) \cap (bag[t] \cup {arg[t]}) = {}
      BY <2>6, <1>b DEF drain_end, ArgOf, HasArg
    <3>3. \A u \in Sched : SamePhase(u)
      BY <2>6 DEF drain_end, SamePhase, PickPc, BufferPc
    <3> QED BY <3>1, <3>2, <3>3, ReadyFrame
  <2>7. CASE overflow_lock(t)
    BY <2>7 DEF overflow_lock, Acquire
  <2>8. CASE overflow_push(t)
    BY <2>8 DEF overflow_push, push_all_to_ready
  <2>9. CASE signal(t)
    <3>0. /\ pc' = [pc EXCEPT ![t] = Return(t)] /\ pc[t] = "signal"
          /\ UNCHANGED <<current, status, stkActive>>
      BY <2>9 DEF signal
    <3>1. CASE t \notin Sched
      BY <2>9, <3>0, <3>1
    <3>2. CASE t \in Sched /\ current[t] = NoCo
      <4>1. Return(t) = "pick"
        BY <3>2, NotBoth DEF Return
      <4> QED BY <3>0, <3>2, <4>1
    <3>3. CASE t \in Sched /\ current[t] # NoCo /\ status[current[t]] = "DEAD"
      <4>1. Return(t) = "dying"
        BY <3>3, NotBoth DEF Return
      <4> QED BY <3>0, <3>3, <4>1
    <3>4. CASE t \in Sched /\ current[t] # NoCo /\ status[current[t]] # "DEAD"
      <4>1. Return(t) = "run"
        BY <3>4, NotBoth DEF Return
      <4> QED BY <3>0, <3>4, <4>1
    <3> QED BY <3>1, <3>2, <3>3, <3>4
  <2> QED BY <1>1, <2>1, <2>2, <2>3, <2>4, <2>5, <2>6, <2>7, <2>8, <2>9 DEF ApplyStep
<1>2. ASSUME NEW t \in Thread, NEW c \in Co, Wake(t, c) PROVE StackInv'
  BY <1>2 DEF Wake
<1>3. ASSUME NEW s \in Sched, CoStep(s) PROVE StackInv'
  <2>1. CASE \E c \in Co : Create(s, c)
    BY <2>1 DEF Create
  <2>2. CASE WaitOn(s)
    BY <2>2 DEF WaitOn
  <2>3. CASE coroutine_sleep(s)
    BY <2>3 DEF coroutine_sleep
  <2>4. CASE coroutine_await(s)
    BY <2>4 DEF coroutine_await
  <2>5. CASE coroutine_yield(s)
    BY <2>5 DEF coroutine_yield
  <2>6. CASE coroutine_dead(s)
    BY <2>6, SMTT(30) DEF coroutine_dead
  <2> QED BY <1>3, <2>1, <2>2, <2>3, <2>4, <2>5, <2>6 DEF CoStep
<1>4. ASSUME NEW s \in Sched, PickStep(s) PROVE StackInv'
  <2>1. CASE pick_try_wait(s)
    <3>1. CASE Goto(s, "pick", "checkBuf")
      BY <2>1, <3>1 DEF pick_try_wait
    <3>2. CASE Goto(s, "pick", "steal")
      BY <2>1, <3>2 DEF pick_try_wait
    <3> QED BY <2>1, <3>1, <3>2 DEF pick_try_wait
  <2>2. CASE steal_look(s)
    <3>1. CASE NextVictim(s) /\ UNCHANGED pc
      BY <2>2, <3>1 DEF steal_look, NextVictim
    <3>2. CASE Goto(s, "steal", "stealLock") /\ UNCHANGED victim
      BY <2>2, <3>2 DEF steal_look, NextVictim
    <3> QED BY <2>2, <3>1, <3>2 DEF steal_look, NextVictim
  <2>3. CASE steal_lock(s)
    BY <2>3 DEF steal_lock, Acquire
  <2>4. CASE \E c \in Co : steal_one(s, c)
    BY <2>4 DEF steal_one
  <2>5. CASE steal_unlock(s)
    BY <2>5 DEF steal_unlock, NextVictim
  <2>6. CASE steal_end(s)
    <3>1. CASE Goto(s, "steal", "try2")
      BY <2>6, <3>1 DEF steal_end
    <3>2. CASE Goto(s, "steal", "stLock")
      <4>1. status' = SetAll(status, bag[s], "READY") /\ UNCHANGED <<current, stkActive>>
        BY <2>6, <3>2 DEF steal_end, get_ready_to_push
      <4>2. bag[s] \in SUBSET Co /\ \A u \in Sched : Holds(u) \cap bag[s] = {}
        BY <2>6, <3>2, <1>b DEF steal_end, ArgOf, HasArg
      <4>3. \A u \in Sched : SamePhase(u)
        BY <2>6, <3>2 DEF steal_end, SamePhase, PickPc, BufferPc
      <4> QED BY <4>1, <4>2, <4>3, ReadyFrame
    <3> QED BY <2>6, <3>1, <3>2 DEF steal_end
  <2>7. CASE loot_lock(s)
    BY <2>7 DEF loot_lock, Acquire
  <2>8. CASE loot_push(s)
    BY <2>8 DEF loot_push, push_all_to_ready
  <2>9. CASE second_try_wait(s)
    <3>1. CASE Goto(s, "try2", "endSteal") /\ UNCHANGED schedLock
      BY <2>9, <3>1 DEF second_try_wait
    <3>2. CASE Goto(s, "try2", "block") /\ schedLock' = [schedLock EXCEPT ![s] = IF @ = s THEN None ELSE @]
      BY <2>9, <3>2 DEF second_try_wait
    <3> QED BY <2>9, <3>1, <3>2 DEF second_try_wait
  <2>10. CASE sem_wait(s)
    BY <2>10 DEF sem_wait
  <2>11. CASE check_ready_count(s)
    <3>1. CASE Goto(s, "checkBuf", "pullLock") /\ readyCount[s] = 0
      BY <2>11, <3>1 DEF check_ready_count
    <3>2. CASE Goto(s, "checkBuf", "pull") /\ readyCount[s] # 0
      BY <2>11, <3>2 DEF check_ready_count
    <3>3. CASE Goto(s, "pull", "pullPop") /\ readyCount[s] = 0
      BY <2>11, <3>3 DEF check_ready_count
    <3>4. CASE Goto(s, "pull", "end") /\ readyCount[s] # 0
      BY <2>11, <3>4 DEF check_ready_count
    <3> QED BY <2>11, <3>1, <3>2, <3>3, <3>4 DEF check_ready_count
  <2>12. CASE recheck_lock(s)
    BY <2>12 DEF recheck_lock, Acquire
  <2>13. CASE recheck(s)
    <3>1. CASE Goto(s, "pullTest", "end") /\ UNCHANGED schedLock
      BY <2>13, <3>1 DEF recheck
    <3>2. CASE Goto(s, "pullTest", "pull") /\ schedLock' = [schedLock EXCEPT ![s] = None]
      BY <2>13, <3>2 DEF recheck
    <3> QED BY <2>13, <3>1, <3>2 DEF recheck
  <2>14. CASE \E c \in Co : PopBuffer(s, s, "pullPop", c)
    BY <2>14 DEF PopBuffer
  <2>15. CASE pull_end(s)
    <3>1. CASE Goto(s, "pullPop", "pull")
      BY <2>15, <3>1 DEF pull_end
    <3>2. CASE Goto(s, "pullPop", "pbLock")
      <4>1. status' = SetAll(status, bag[s], "READY") /\ UNCHANGED <<current, stkActive>>
        BY <2>15, <3>2 DEF pull_end, get_ready_to_push
      <4>2. bag[s] \in SUBSET Co /\ \A u \in Sched : Holds(u) \cap bag[s] = {}
        BY <2>15, <3>2, <1>b DEF pull_end, ArgOf, HasArg
      <4>3. \A u \in Sched : SamePhase(u)
        BY <2>15, <3>2 DEF pull_end, SamePhase, PickPc, BufferPc
      <4> QED BY <4>1, <4>2, <4>3, ReadyFrame
    <3> QED BY <2>15, <3>1, <3>2 DEF pull_end
  <2>16. CASE buffer_lock(s)
    BY <2>16 DEF buffer_lock, Acquire
  <2>17. CASE buffer_push(s)
    BY <2>17 DEF buffer_push, push_all_to_ready
  <2>18. CASE end_lock(s)
    BY <2>18 DEF end_lock, Acquire
  <2>19. CASE pickup_assert(s)
    BY <2>19 DEF pickup_assert
  <2>20. CASE \E c \in Co : pickup_pop(s, c)
    BY <2>20 DEF pickup_pop
  <2>21. CASE run(s)
    BY <2>21 DEF run
  <2>22. CASE process_co_exec_end(s)
    BY <2>22 DEF process_co_exec_end
  <2>23. CASE dead_end(s)
    BY <2>23 DEF dead_end
  <2> QED BY <1>4, <2>1, <2>2, <2>3, <2>4, <2>5, <2>6, <2>7, <2>8, <2>9, <2>10, <2>11,
      <2>12, <2>13, <2>14, <2>15, <2>16, <2>17, <2>18, <2>19, <2>20, <2>21, <2>22, <2>23
      DEF PickStep
<1>5. CASE UNCHANGED vars
  BY <1>5 DEF vars
<1> QED BY <1>1, <1>2, <1>3, <1>4, <1>5 DEF Next

-----------------------------------------------------------------------------
(* ready_count.                                                             *)

(* The vector of the buffer stage is pushed only if it holds something.     *)
BagKept == \A s \in Sched : pc[s] \in {"pbLock", "pbPush"} => bag[s] # {}

(* A thief that has taken something leaves something, so its victim's heap  *)
(* stays non-empty whatever it takes.                                       *)
CountInv ==
  /\ CountExact
  /\ \A s \in Sched : pc[s] = "stealMove" /\ trans[s] > 0 => ready[victim[s]] # {}
  /\ BufferPathFindsCo
  /\ BagKept

LEMMA InitCountInv == Init => CountInv
BY ConstantsAssumption, ThreadSets, FS_EmptySet
   DEF Init, CountInv, CountExact, Robbed, BufferPathFindsCo, BagKept

LEMMA FiniteParts ==
  ASSUME TypeInv
  PROVE  /\ \A s \in Sched : IsFiniteSet(ready[s]) /\ Cardinality(ready[s]) \in Nat
         /\ \A t \in Thread : IsFiniteSet(bag[t]) /\ Cardinality(bag[t]) \in Nat
BY ConstantsAssumption, FS_Subset, FS_CardinalityType DEF TypeInv, TypeOK

LEMMA AddOne ==
  ASSUME NEW S, IsFiniteSet(S), NEW x, x \notin S
  PROVE  Cardinality(S \cup {x}) = Cardinality(S) + 1
BY FS_AddElement

LEMMA TakeOne ==
  ASSUME NEW S, IsFiniteSet(S), NEW x, x \in S
  PROVE  Cardinality(S \ {x}) = Cardinality(S) - 1
BY FS_RemoveElement

LEMMA AddAll ==
  ASSUME NEW S, IsFiniteSet(S), NEW T, IsFiniteSet(T), T \cap S = {}
  PROVE  Cardinality(S \cup T) = Cardinality(S) + Cardinality(T)
<1>1. S \cap T = {} /\ Cardinality(S) \in Nat /\ Cardinality(T) \in Nat
  BY FS_CardinalityType
<1>2. Cardinality(S \cup T) = Cardinality(S) + Cardinality(T) - Cardinality(S \cap T)
  BY FS_Union
<1> QED BY <1>1, <1>2, FS_EmptySet

(* Outside the loop of pull_half_co nobody's count is behind.               *)
LEMMA RobbedFrame ==
  ASSUME TypeInv, NEW t \in Thread, \A u \in Thread : u # t => pc'[u] = pc[u],
         pc[t] # "stealMove", pc'[t] # "stealMove", trans' = trans,
         \A s \in Sched : schedLock'[s] = schedLock[s] \/ {schedLock[s], schedLock'[s]} \subseteq {None, t}
  PROVE  \A s \in Sched : Robbed(s)' = Robbed(s)
<1> SUFFICES ASSUME NEW s \in Sched PROVE Robbed(s)' = Robbed(s)
  OBVIOUS
<1>1. CASE schedLock'[s] = schedLock[s]
  BY <1>1, ThreadSets DEF Robbed, TypeInv, TypeOK
<1>2. CASE {schedLock[s], schedLock'[s]} \subseteq {None, t}
  BY <1>2, ThreadSets DEF Robbed, TypeInv, TypeOK
<1> QED BY <1>1, <1>2

LEMMA CountStep == TypeInv /\ LockInv /\ ExactlyOnePlace /\ CountInv /\ [Next]_vars => CountInv'
<1> SUFFICES ASSUME TypeInv, LockInv, ExactlyOnePlace, CountInv, [Next]_vars PROVE CountInv'
  OBVIOUS
<1>a. /\ \A s \in Sched : IsFiniteSet(ready[s]) /\ Cardinality(ready[s]) \in Nat
      /\ \A t \in Thread : IsFiniteSet(bag[t]) /\ Cardinality(bag[t]) \in Nat
  BY FiniteParts
<1>b. \A t \in Thread, s \in Sched : ArgOf(t) \cap ready[s] = {} /\ bag[t] \cap ready[s] = {}
  BY Elsewhere
<1>c. \A S : Cardinality(S) = 0 /\ IsFiniteSet(S) => S = {}
  BY FS_EmptySet
<1>d. Cardinality({}) = 0
  BY FS_EmptySet
<1>e. \A s \in Sched : Robbed(s) \in Nat
  BY DEF Robbed, TypeInv, TypeOK
<1> USE ThreadSets, <1>a DEF TypeInv, TypeOK, PcTyping, Goto, queueVars, coVars,
    threadVars, ApplyPc, CountInv,
        CountExact, BufferPathFindsCo, Robbed, BagKept
<1>1. ASSUME NEW t \in Thread, ApplyStep(t) PROVE CountInv'
  <2>1. CASE \E s \in Sched : apply_impl(t, s)
    BY <2>1 DEF apply_impl, get_ready_to_push, SetAll
  <2>2. CASE try_lock(t)
    <3>1. CASE Acquire(t, target[t], "tryLock", "push")
      BY <2>2, <3>1 DEF try_lock, Acquire
    <3>2. CASE Goto(t, "tryLock", "lazy") /\ UNCHANGED schedLock
      BY <2>2, <3>2 DEF try_lock, Acquire
    <3> QED BY <2>2, <3>1, <3>2 DEF try_lock, Acquire
  <2>3. CASE push_to_ready(t)
    <3>p. PICK v \in Sched : v = target[t] /\ push_to_ready(t) /\ schedLock[v] = t
      BY <2>3 DEF push_to_ready, LockInv, MustHold, MayHold
    <3>1. \A u \in Sched : Robbed(u)' = Robbed(u)
      <4> HIDE DEF Robbed
      <4> QED BY <3>p, RobbedFrame DEF push_to_ready
    <3>2. Cardinality(ready'[v]) = Cardinality(ready[v]) + 1
      <4>1. arg[t] \notin ready[v] /\ ready'[v] = ready[v] \cup {arg[t]}
        BY <3>p, <1>b DEF push_to_ready, ArgOf, HasArg
      <4> QED BY <4>1, AddOne
    <3>3. \A u \in Sched : ready[u] \subseteq ready'[u] /\ (u # v => ready'[u] = ready[u] /\ readyCount'[u] = readyCount[u])
      BY <3>p DEF push_to_ready
    <3>4. readyCount'[v] = readyCount[v] + 1
      BY <3>p DEF push_to_ready
    <3>5. CountExact'
      <4> HIDE DEF Robbed
      <4>0. Robbed(v) = 0
        BY <3>p DEF Robbed, push_to_ready
      <4> QED BY <3>p, <3>1, <3>2, <3>3, <3>4, <4>0 DEF push_to_ready
    <3>6. \A u \in Sched : pc'[u] = "stealMove" /\ trans'[u] > 0 => ready'[victim'[u]] # {}
      BY <3>p, <3>3 DEF push_to_ready
    <3>7. BufferPathFindsCo'
      BY <3>p, <3>3 DEF push_to_ready
    <3>9. BagKept'
      BY <3>p DEF push_to_ready
    <3> QED BY <3>5, <3>6, <3>7, <3>9
  <2>4. CASE apply_ready_lazy(t)
    <3>1. CASE Goto(t, "lazy", "signal")
      BY <2>4, <3>1 DEF apply_ready_lazy
    <3>2. CASE Goto(t, "lazy", "drain")
      BY <2>4, <3>2 DEF apply_ready_lazy
    <3> QED BY <2>4, <3>1, <3>2 DEF apply_ready_lazy
  <2>5. CASE \E s \in Sched, c \in Co : s = target[t] /\ PopBuffer(t, s, "drain", c)
    BY <2>5 DEF PopBuffer
  <2>6. CASE drain_end(t)
    BY <2>6 DEF drain_end, get_ready_to_push, SetAll
  <2>7. CASE overflow_lock(t)
    BY <2>7 DEF overflow_lock, Acquire
  <2>8. CASE overflow_push(t)
    <3>p. PICK v \in Sched : v = target[t] /\ overflow_push(t) /\ schedLock[v] = t
      BY <2>8 DEF overflow_push, push_all_to_ready, LockInv, MustHold, MayHold
    <3>1. \A u \in Sched : Robbed(u)' = Robbed(u)
      <4> HIDE DEF Robbed
      <4> QED BY <3>p, RobbedFrame DEF overflow_push, push_all_to_ready
    <3>2. Cardinality(ready'[v]) = Cardinality(ready[v]) + Cardinality(bag[t])
      <4>1. bag[t] \cap ready[v] = {} /\ ready'[v] = ready[v] \cup bag[t]
        BY <3>p, <1>b DEF overflow_push, push_all_to_ready
      <4> QED BY <4>1, AddAll
    <3>3. \A u \in Sched : ready[u] \subseteq ready'[u] /\ (u # v => ready'[u] = ready[u] /\ readyCount'[u] = readyCount[u])
      BY <3>p DEF overflow_push, push_all_to_ready
    <3>4. readyCount'[v] = readyCount[v] + Cardinality(bag[t])
      BY <3>p DEF overflow_push, push_all_to_ready
    <3>5. CountExact'
      <4> HIDE DEF Robbed
      <4>0. Robbed(v) = 0
        BY <3>p DEF Robbed, overflow_push, push_all_to_ready
      <4> QED BY <3>p, <3>1, <3>2, <3>3, <3>4, <4>0 DEF overflow_push, push_all_to_ready
    <3>6. \A u \in Sched : pc'[u] = "stealMove" /\ trans'[u] > 0 => ready'[victim'[u]] # {}
      BY <3>p, <3>3 DEF overflow_push, push_all_to_ready
    <3>7. BufferPathFindsCo'
      BY <3>p, <3>3 DEF overflow_push, push_all_to_ready
    <3>9. BagKept'
      BY <3>p DEF overflow_push, push_all_to_ready
    <3> QED BY <3>5, <3>6, <3>7, <3>9
  <2>9. CASE signal(t)
    BY <2>9 DEF signal, Return
  <2> QED BY <1>1, <2>1, <2>2, <2>3, <2>4, <2>5, <2>6, <2>7, <2>8, <2>9 DEF ApplyStep
<1>2. ASSUME NEW t \in Thread, NEW c \in Co, Wake(t, c) PROVE CountInv'
  BY <1>2 DEF Wake
<1>3. ASSUME NEW s \in Sched, CoStep(s) PROVE CountInv'
  <2>1. CASE \E c \in Co : Create(s, c)
    BY <2>1 DEF Create
  <2>2. CASE WaitOn(s)
    BY <2>2 DEF WaitOn
  <2>3. CASE coroutine_sleep(s)
    BY <2>3 DEF coroutine_sleep
  <2>4. CASE coroutine_await(s)
    BY <2>4 DEF coroutine_await
  <2>5. CASE coroutine_yield(s)
    BY <2>5 DEF coroutine_yield
  <2>6. CASE coroutine_dead(s)
    BY <2>6 DEF coroutine_dead
  <2> QED BY <1>3, <2>1, <2>2, <2>3, <2>4, <2>5, <2>6 DEF CoStep
<1>4. ASSUME NEW s \in Sched, PickStep(s) PROVE CountInv'
  <2>1. CASE pick_try_wait(s)
    <3>1. CASE Goto(s, "pick", "checkBuf")
      BY <2>1, <3>1 DEF pick_try_wait
    <3>2. CASE Goto(s, "pick", "steal")
      BY <2>1, <3>2 DEF pick_try_wait
    <3> QED BY <2>1, <3>1, <3>2 DEF pick_try_wait
  <2>2. CASE steal_look(s)
    BY <2>2, SMTT(30) DEF steal_look, NextVictim
  <2>3. CASE steal_lock(s)
    BY <2>3 DEF steal_lock, Acquire
  <2>4. CASE \E c \in Co : steal_one(s, c)
    <3>p. PICK v \in Sched, c \in Co : v = victim[s] /\ steal_one(s, c) /\ schedLock[v] = s
      BY <2>4 DEF steal_one, LockInv, MustHold
    <3>1. Cardinality(ready'[v]) = Cardinality(ready[v]) - 1
      <4>1. ready'[v] = ready[v] \ {c} /\ c \in ready[v]
        BY <3>p DEF steal_one
      <4> QED BY <4>1, TakeOne
    <3>2. Cardinality(ready[v]) >= trans[s] + 2
      BY <3>p DEF steal_one, PullCount
    <3>3. ready'[v] # {}
      <4>1. Cardinality(ready'[v]) # 0
        BY <3>p, <3>1, <3>2
      <4> QED BY <4>1, <1>d
    <3>4. Robbed(v) = trans[s] /\ Robbed(v)' = trans[s] + 1
      BY <3>p DEF steal_one
    <3>5. \A u \in Sched : u # v => Robbed(u)' = Robbed(u)
      <4>1. ASSUME NEW u \in Sched, u # v, schedLock[u] = s PROVE FALSE
        BY <3>p, <4>1 DEF steal_one, LockInv, MayHold
      <4> QED BY <3>p, <4>1 DEF steal_one
    <3>6. \A u \in Sched : u # v => ready'[u] = ready[u]
      BY <3>p DEF steal_one
    <3>7. UNCHANGED <<readyCount, pc, victim>>
      BY <3>p DEF steal_one
    <3>8. CountExact'
      <4> SUFFICES ASSUME NEW u \in Sched, pc'[u] # "abort"
                   PROVE  readyCount'[u] = Cardinality(ready'[u]) + Robbed(u)'
        BY DEF CountExact
      <4> HIDE DEF Robbed
      <4>1. CASE u = v
        BY <4>1, <3>p, <3>1, <3>4, <3>7, <1>e
      <4>2. CASE u # v
        BY <4>2, <3>6, <3>5, <3>7, <1>e
      <4> QED BY <4>1, <4>2
    <3>9. \A u \in Sched : pc'[u] = "stealMove" /\ trans'[u] > 0 => ready'[victim'[u]] # {}
      BY <3>p, <3>3, <3>6, <3>7 DEF steal_one
    <3>10. BufferPathFindsCo'
      BY <3>3, <3>6, <3>7
    <3>20. BagKept'
      BY <3>p DEF steal_one
    <3> QED BY <3>8, <3>9, <3>10, <3>20
  <2>5. CASE steal_unlock(s)
    <3>p. PICK v \in Sched : v = victim[s] /\ steal_unlock(s) /\ schedLock[v] = s
      BY <2>5 DEF steal_unlock, LockInv, MustHold
    <3>1. Robbed(v) = trans[s] /\ Robbed(v)' = 0
      BY <3>p DEF steal_unlock
    <3>2. \A u \in Sched : u # v => Robbed(u)' = Robbed(u)
      <4>1. ASSUME NEW u \in Sched, u # v, schedLock[u] = s PROVE FALSE
        BY <3>p, <4>1 DEF steal_unlock, LockInv, MayHold
      <4> QED BY <3>p, <4>1 DEF steal_unlock
    <3>3. ready' = ready /\ readyCount' = [readyCount EXCEPT ![v] = @ - trans[s]]
      BY <3>p DEF steal_unlock
    <3>4. CountExact'
      <4> HIDE DEF Robbed
      <4> QED BY <3>p, <3>1, <3>2, <3>3 DEF steal_unlock
    <3>5. \A u \in Sched : pc'[u] = "stealMove" /\ trans'[u] > 0 => ready'[victim'[u]] # {}
      BY <3>p, <3>3 DEF steal_unlock, NextVictim
    <3>6. BufferPathFindsCo'
      BY <3>p, <3>3 DEF steal_unlock
    <3>20. BagKept'
      BY <3>p DEF steal_unlock
    <3> QED BY <3>4, <3>5, <3>6, <3>20
  <2>6. CASE steal_end(s)
    BY <2>6, SMTT(30) DEF steal_end, get_ready_to_push, SetAll
  <2>7. CASE loot_lock(s)
    BY <2>7 DEF loot_lock, Acquire
  <2>8. CASE loot_push(s)
    <3>p. PICK v \in Sched : v = s /\ loot_push(s) /\ schedLock[v] = s
      BY <2>8 DEF loot_push, push_all_to_ready, LockInv, MustHold, MayHold
    <3>1. \A u \in Sched : Robbed(u)' = Robbed(u)
      <4> HIDE DEF Robbed
      <4> QED BY <3>p, RobbedFrame DEF loot_push, push_all_to_ready
    <3>2. Cardinality(ready'[v]) = Cardinality(ready[v]) + Cardinality(bag[s])
      <4>1. bag[s] \cap ready[v] = {} /\ ready'[v] = ready[v] \cup bag[s]
        BY <3>p, <1>b DEF loot_push, push_all_to_ready
      <4> QED BY <4>1, AddAll
    <3>3. \A u \in Sched : ready[u] \subseteq ready'[u] /\ (u # v => ready'[u] = ready[u] /\ readyCount'[u] = readyCount[u])
      BY <3>p DEF loot_push, push_all_to_ready
    <3>4. readyCount'[v] = readyCount[v] + Cardinality(bag[s])
      BY <3>p DEF loot_push, push_all_to_ready
    <3>5. CountExact'
      <4> HIDE DEF Robbed
      <4>0. Robbed(v) = 0
        BY <3>p DEF Robbed, loot_push, push_all_to_ready
      <4> QED BY <3>p, <3>1, <3>2, <3>3, <3>4, <4>0 DEF loot_push, push_all_to_ready
    <3>6. \A u \in Sched : pc'[u] = "stealMove" /\ trans'[u] > 0 => ready'[victim'[u]] # {}
      BY <3>p, <3>3 DEF loot_push, push_all_to_ready
    <3>7. BufferPathFindsCo'
      BY <3>p, <3>3 DEF loot_push, push_all_to_ready
    <3>9. BagKept'
      BY <3>p DEF loot_push, push_all_to_ready
    <3> QED BY <3>5, <3>6, <3>7, <3>9
  <2>9. CASE second_try_wait(s)
    <3>1. CASE Goto(s, "try2", "endSteal") /\ UNCHANGED schedLock
      BY <2>9, <3>1 DEF second_try_wait
    <3>2. CASE Goto(s, "try2", "block") /\ schedLock' = [schedLock EXCEPT ![s] = IF @ = s THEN None ELSE @]
      BY <2>9, <3>2 DEF second_try_wait
    <3> QED BY <2>9, <3>1, <3>2 DEF second_try_wait
  <2>10. CASE sem_wait(s)
    BY <2>10 DEF sem_wait
  <2>11. CASE check_ready_count(s)
    <3>1. readyCount[s] # 0 => ready[s] # {} \/ pc[s] = "abort"
      <4>1. Robbed(s) # 0 => ready[s] # {}
        <5>1. CASE Robbed(s) = 0
          BY <5>1
        <5>2. CASE schedLock[s] \in Sched /\ pc[schedLock[s]] = "stealMove" /\ trans[schedLock[s]] > 0
          <6>1. victim[schedLock[s]] = s
            BY <5>2 DEF LockInv, MayHold
          <6> QED BY <5>2, <6>1
        <5> QED BY <5>1, <5>2
      <4>2. pc[s] # "abort" => readyCount[s] = Cardinality(ready[s]) + Robbed(s)
        OBVIOUS
      <4> HIDE DEF Robbed
      <4> QED BY <4>1, <4>2, FS_EmptySet
    <3>2. \A u \in Sched : Robbed(u)' = Robbed(u)
      <4> HIDE DEF Robbed
      <4>0. UNCHANGED <<trans, schedLock>>
        BY <2>11 DEF check_ready_count
      <4>1. pc[s] # "stealMove" /\ pc'[s] # "stealMove" /\ \A u \in Thread : u # s => pc'[u] = pc[u]
        BY <2>11 DEF check_ready_count
      <4> QED BY <4>0, <4>1, RobbedFrame
    <3>3. UNCHANGED <<ready, readyCount, victim, trans>>
      BY <2>11 DEF check_ready_count
    <3>4. CountExact'
      <4> HIDE DEF Robbed
      <4> QED BY <2>11, <3>2, <3>3 DEF check_ready_count
    <3>5. \A u \in Sched : pc'[u] = "stealMove" /\ trans'[u] > 0 => ready'[victim'[u]] # {}
      BY <2>11, <3>3 DEF check_ready_count
    <3>6. BufferPathFindsCo'
      BY <2>11, <3>1, <3>3 DEF check_ready_count
    <3>20. BagKept'
      BY <2>11 DEF check_ready_count
    <3> QED BY <3>4, <3>5, <3>6, <3>20
  <2>12. CASE recheck_lock(s)
    BY <2>12 DEF recheck_lock, Acquire
  <2>13. CASE recheck(s)
    <3>7. schedLock[s] = s /\ pc[s] = "pullTest"
      BY <2>13 DEF recheck, LockInv, MustHold
    <3>8. readyCount[s] > 0 => ready[s] # {}
      BY <3>7, FS_EmptySet
    <3>1. CASE Goto(s, "pullTest", "end") /\ UNCHANGED schedLock
      BY <2>13, <3>1, <3>7, <3>8 DEF recheck
    <3>2. CASE Goto(s, "pullTest", "pull") /\ schedLock' = [schedLock EXCEPT ![s] = None]
      BY <2>13, <3>2, <3>7, <3>8 DEF recheck
    <3> QED BY <2>13, <3>1, <3>2 DEF recheck
  <2>14. CASE \E c \in Co : PopBuffer(s, s, "pullPop", c)
    BY <2>14 DEF PopBuffer
  <2>15. CASE pull_end(s)
    <3>1. CASE Goto(s, "pullPop", "pull")
      BY <2>15, <3>1 DEF pull_end, get_ready_to_push, SetAll
    <3>2. CASE Goto(s, "pullPop", "pbLock")
      BY <2>15, <3>2 DEF pull_end, get_ready_to_push, SetAll
    <3> QED BY <2>15, <3>1, <3>2 DEF pull_end, get_ready_to_push, SetAll
  <2>16. CASE buffer_lock(s)
    BY <2>16 DEF buffer_lock, Acquire
  <2>17. CASE buffer_push(s)
    <3>p. PICK v \in Sched : v = s /\ buffer_push(s) /\ schedLock[v] = s
      BY <2>17 DEF buffer_push, push_all_to_ready, LockInv, MustHold, MayHold
    <3>1. \A u \in Sched : Robbed(u)' = Robbed(u)
      <4> HIDE DEF Robbed
      <4> QED BY <3>p, RobbedFrame, SMTT(30) DEF buffer_push, push_all_to_ready
    <3>2. Cardinality(ready'[v]) = Cardinality(ready[v]) + Cardinality(bag[s])
      <4>1. bag[s] \cap ready[v] = {} /\ ready'[v] = ready[v] \cup bag[s]
        BY <3>p, <1>b DEF buffer_push, push_all_to_ready
      <4> QED BY <4>1, AddAll
    <3>3. \A u \in Sched : ready[u] \subseteq ready'[u] /\ (u # v => ready'[u] = ready[u] /\ readyCount'[u] = readyCount[u])
      BY <3>p DEF buffer_push, push_all_to_ready
    <3>4. readyCount'[v] = readyCount[v] + Cardinality(bag[s])
      BY <3>p DEF buffer_push, push_all_to_ready
    <3>5. CountExact'
      <4> HIDE DEF Robbed
      <4>0. Robbed(v) = 0
        BY <3>p DEF Robbed, buffer_push, push_all_to_ready
      <4> QED BY <3>p, <3>1, <3>2, <3>3, <3>4, <4>0 DEF buffer_push, push_all_to_ready
    <3>6. \A u \in Sched : pc'[u] = "stealMove" /\ trans'[u] > 0 => ready'[victim'[u]] # {}
      BY <3>p, <3>3 DEF buffer_push, push_all_to_ready
    <3>8. ready'[s] # {}
      BY <3>p DEF buffer_push, push_all_to_ready
    <3>7. BufferPathFindsCo'
      BY <3>p, <3>3, <3>8 DEF buffer_push, push_all_to_ready
    <3>9. BagKept'
      BY <3>p DEF buffer_push, push_all_to_ready
    <3> QED BY <3>5, <3>6, <3>7, <3>9
  <2>18. CASE end_lock(s)
    BY <2>18 DEF end_lock, Acquire
  <2>19. CASE pickup_assert(s)
    BY <2>19 DEF pickup_assert
  <2>20. CASE \E c \in Co : pickup_pop(s, c)
    <3>p. PICK c \in Co : pickup_pop(s, c)
      BY <2>20
    <3>1. Cardinality(ready'[s]) = Cardinality(ready[s]) - 1
      <4>1. ready'[s] = ready[s] \ {c} /\ c \in ready[s]
        BY <3>p DEF pickup_pop
      <4> QED BY <4>1, TakeOne
    <3>2. \A u \in Sched : Robbed(u)' = Robbed(u)
      <4> HIDE DEF Robbed
      <4> QED BY <3>p, RobbedFrame DEF pickup_pop
    <3>3. CountExact'
      <4> SUFFICES ASSUME NEW u \in Sched, pc'[u] # "abort"
                   PROVE  readyCount'[u] = Cardinality(ready'[u]) + Robbed(u)'
        BY DEF CountExact
      <4> HIDE DEF Robbed
      <4>1. CASE u = s
        BY <4>1, <3>p, <3>1, <3>2, <1>e DEF pickup_pop
      <4>2. CASE u # s
        BY <4>2, <3>p, <3>2, <1>e DEF pickup_pop
      <4> QED BY <4>1, <4>2
    <3>4. \A u \in Sched : pc[u] = "stealMove" => victim[u] # s
      BY <3>p DEF pickup_pop, LockInv, MustHold
    <3>5. \A u \in Sched : pc'[u] = "stealMove" /\ trans'[u] > 0 => ready'[victim'[u]] # {}
      BY <3>p, <3>4 DEF pickup_pop
    <3>6. BufferPathFindsCo'
      BY <3>p DEF pickup_pop
    <3>20. BagKept'
      BY <3>p DEF pickup_pop
    <3> QED BY <3>3, <3>5, <3>6, <3>20
  <2>21. CASE run(s)
    BY <2>21 DEF run
  <2>22. CASE process_co_exec_end(s)
    BY <2>22 DEF process_co_exec_end
  <2>23. CASE dead_end(s)
    BY <2>23 DEF dead_end
  <2> QED BY <1>4, <2>1, <2>2, <2>3, <2>4, <2>5, <2>6, <2>7, <2>8, <2>9, <2>10, <2>11,
      <2>12, <2>13, <2>14, <2>15, <2>16, <2>17, <2>18, <2>19, <2>20, <2>21, <2>22, <2>23
      DEF PickStep
<1>5. CASE UNCHANGED vars
  BY <1>5 DEF vars
<1> QED BY <1>1, <1>2, <1>3, <1>4, <1>5 DEF Next

-----------------------------------------------------------------------------
(* The inductive invariant.                                                 *)

IInv == TypeInv /\ LockInv /\ StackInv /\ ExactlyOnePlace /\ CountInv

LEMMA InitIInv == Init => IInv
BY InitTypeInv, InitLockInv, InitStackPlace, InitCountInv DEF IInv

LEMMA IInvStep == IInv /\ [Next]_vars => IInv'
BY TypeInvStep, LockInvStep, StackStep, PlaceStep, CountStep DEF IInv

(* The inductive invariant holds in every reachable state: what apply,      *)
(* stealing, pickup and run rely on about locks, stacks, places and counts. *)
THEOREM Invariance == Spec => []IInv
BY InitIInv, IInvStep, PTL DEF Spec

(* A coroutine that is created is in one heap, buffer, vector, wait queue   *)
(* or scheduler until it dies: apply, the overflow of the buffer, stealing  *)
(* and pickup never lose one and never queue one twice.                     *)
THEOREM NothingLost == Spec => []ExactlyOnePlace
<1>1. IInv => ExactlyOnePlace
  BY DEF IInv
<1> QED BY <1>1, Invariance, PTL

(* stk_active_lock keeps two threads off one stack, although a coroutine is *)
(* in a wait queue, can be applied, stolen and picked, before its thread    *)
(* has left the stack.                                                      *)
THEOREM StacksExclusive == Spec => []StackExclusive
<1>1. IInv => StackExclusive
  BY DEF IInv, StackInv
<1> QED BY <1>1, Invariance, PTL

(* ready_count is exact under the lock, with any number of thieves.         *)
THEOREM CountsExact == Spec => []CountExact
<1>1. IInv => CountExact
  BY DEF IInv, CountInv
<1> QED BY <1>1, Invariance, PTL

(* The assertion of pickup_ready can fail only after the second try_wait.   *)
THEOREM BufferPathSafe == Spec => []BufferPathFindsCo
<1>1. IInv => BufferPathFindsCo
  BY DEF IInv, CountInv
<1> QED BY <1>1, Invariance, PTL

(* No thread waits for a second sched_lock, or sleeps or runs a coroutine   *)
(* with one: a cycle of schedulers waiting for each other's lock is         *)
(* impossible.                                                              *)
THEOREM LocksDisciplined == Spec => []LockDiscipline
<1>1. IInv => LockDiscipline
  <2> SUFFICES ASSUME IInv, NEW t \in Thread
               PROVE  /\ Cardinality(Locked(t)) <= 1
                      /\ pc[t] \in CoPc \cup {"pick", "block", "start"} => Locked(t) = {}
    BY DEF LockDiscipline
  <2>1. \A s, u \in Locked(t) : s = u
    BY DEF IInv, LockInv, Locked, MayHold
  <2>2. Cardinality(Locked(t)) <= 1
    <3>1. CASE Locked(t) = {}
      BY <3>1, FS_EmptySet
    <3>2. CASE Locked(t) # {}
      <4>1. PICK s : Locked(t) = {s}
        BY <2>1, <3>2
      <4>2. Cardinality({s}) = 1
        BY FS_Singleton
      <4> QED BY <4>1, <4>2
    <3> QED BY <3>1, <3>2
  <2>3. pc[t] \in CoPc \cup {"pick", "block", "start"} => Locked(t) = {}
    BY DEF IInv, LockInv, Locked, MayHold, CoPc
  <2> QED BY <2>2, <2>3
<1> QED BY <1>1, Invariance, PTL

-----------------------------------------------------------------------------
(***************************************************************************)
(* What a coroutine says about itself wherever it is, and from that: the   *)
(* assertions of apply_impl and run hold, the scheduler implements         *)
(* Dispatch, and the tokens of sem_ready are as many as the coroutines     *)
(* queued.                                                                 *)
(***************************************************************************)

(* status, scheduler and occupy_thread name s.                              *)
Owned(c, s) == status[c] = "READY" /\ scheduler[c] = s /\ occupyThread[c] = s

(* Where a thread has coroutines in its local vector.                       *)
BagPc == {"drain", "ovLock", "ovPush", "steal", "stealLock", "stealMove", "stLock", "stPush",
          "pullPop", "pbLock", "pbPush"}

(* A coroutine about to be applied is not queued by its own account; past   *)
(* apply_impl it names the scheduler it is applied to.                      *)
ArgSays ==
  /\ \A t \in Thread : pc[t] = "apply" => status[arg[t]] \in {"NEW", "WAITING", "INTERRUPT"}
  /\ \A t \in Thread : pc[t] \in {"tryLock", "push", "lazy", "drain"} => Owned(arg[t], target[t])

(* In a vector of the overflow, of the buffer stage or of the loot a        *)
(* coroutine names where it will be pushed; stolen, it is only READY.       *)
BagSays ==
  /\ \A t \in Thread : pc[t] \in {"drain", "ovLock", "ovPush"} =>
       \A c \in bag[t] : Owned(c, target[t])
  /\ \A s \in Sched : pc[s] \in {"pullPop", "pbLock", "pbPush", "stLock", "stPush"} =>
       \A c \in bag[s] : Owned(c, s)
  /\ \A s \in Sched : pc[s] \in {"steal", "stealLock", "stealMove"} =>
       \A c \in bag[s] : status[c] = "READY"

(* A picked coroutine is READY and a running one RUNNING, also while it     *)
(* applies another; one that is dying applies its callers as DEAD.          *)
CurrentSays ==
  /\ \A s \in Sched : pc[s] = "start" => status[current[s]] = "READY"
  /\ \A s \in Sched : pc[s] = "run" => status[current[s]] = "RUNNING"
  /\ \A s \in Sched : pc[s] \in ApplyPc /\ current[s] # NoCo =>
       status[current[s]] \in {"RUNNING", "DEAD"}

(* What waits in a queue, a timer or an await list is WAITING.              *)
ParkedSays == \A c \in parked : status[c] = "WAITING"

(* The locals of a thread are empty outside the code that uses them.        *)
LocalsInv ==
  /\ \A t \in Thread : pc[t] \notin BagPc => bag[t] = {}
  /\ \A t \in Thread : target[t] # None => pc[t] \in ApplyPc \ {"apply"}
  /\ \A t \in Timer : pc[t] \in ApplyPc \cup {"idle"}

(* The inductive strengthening of OwnerAgrees.                              *)
SelfInv == LocalsInv /\ OwnerAgrees /\ ArgSays /\ BagSays /\ CurrentSays /\ ParkedSays

(* A coroutine that is in one place is in no other.                         *)
LEMMA Apart ==
  ASSUME TypeInv, ExactlyOnePlace
  PROVE  /\ \A t \in Thread : HasArg(t) =>
              /\ arg[t] \notin parked
              /\ \A s \in Sched : arg[t] \notin ready[s] /\ arg[t] \notin buffer[s]
              /\ \A u \in Thread : arg[t] \notin bag[u]
              /\ \A u \in Thread : u # t /\ HasArg(u) => arg[u] # arg[t]
              /\ \A s \in Sched : pc[s] # "leave" => current[s] # arg[t]
         /\ \A t \in Thread : \A c \in bag[t] :
              /\ c \notin parked
              /\ \A s \in Sched : c \notin ready[s] /\ c \notin buffer[s]
              /\ \A u \in Thread : u # t => c \notin bag[u]
              /\ \A s \in Sched : pc[s] # "leave" => current[s] # c
         /\ \A s \in Sched : current[s] # NoCo /\ pc[s] # "leave" =>
              /\ current[s] \notin parked
              /\ \A u \in Sched : current[s] \notin ready[u] /\ current[s] \notin buffer[u]
              /\ \A u \in Sched : u # s /\ pc[u] # "leave" => current[u] # current[s]
         /\ \A s \in Sched : \A c \in ready[s] \cup buffer[s] :
              /\ c \notin parked
              /\ \A u \in Sched : u # s => c \notin ready[u] /\ c \notin buffer[u]
         /\ \A s \in Sched : ready[s] \cap buffer[s] = {}
<1>1. \A p, q \in Place : \A c \in Contents(p) : p # q => c \notin Contents(q)
  BY DEF ExactlyOnePlace
<1>2. ASSUME NEW p \in Place, NEW c \in Contents(p)
      PROVE  /\ p # <<"parked", Home>> => c \notin parked
             /\ \A s \in Sched : p # <<"ready", s>> => c \notin ready[s]
             /\ \A s \in Sched : p # <<"buffer", s>> => c \notin buffer[s]
             /\ \A u \in Thread : p # <<"bag", u>> => c \notin bag[u]
             /\ \A u \in Thread : p # <<"arg", u>> => c \notin ArgOf(u)
             /\ \A s \in Sched : p # <<"current", s>> => c \notin Holds(s)
  <2>1. p # <<"parked", Home>> => c \notin parked
    BY <1>1, PlaceKinds
  <2>2. ASSUME NEW s \in Sched, p # <<"ready", s>> PROVE c \notin ready[s]
    <3>1. <<"ready", s>> \in Place /\ Contents(<<"ready", s>>) = ready[s]
      BY PlaceKinds
    <3> QED BY <1>1, <2>2, <3>1
  <2>3. ASSUME NEW s \in Sched, p # <<"buffer", s>> PROVE c \notin buffer[s]
    <3>1. <<"buffer", s>> \in Place /\ Contents(<<"buffer", s>>) = buffer[s]
      BY PlaceKinds
    <3> QED BY <1>1, <2>3, <3>1
  <2>4. ASSUME NEW u \in Thread, p # <<"bag", u>> PROVE c \notin bag[u]
    <3>1. <<"bag", u>> \in Place /\ Contents(<<"bag", u>>) = bag[u]
      BY PlaceKinds
    <3> QED BY <1>1, <2>4, <3>1
  <2>5. ASSUME NEW u \in Thread, p # <<"arg", u>> PROVE c \notin ArgOf(u)
    <3>1. <<"arg", u>> \in Place /\ Contents(<<"arg", u>>) = ArgOf(u)
      BY PlaceKinds
    <3> QED BY <1>1, <2>5, <3>1
  <2>6. ASSUME NEW s \in Sched, p # <<"current", s>> PROVE c \notin Holds(s)
    <3>1. <<"current", s>> \in Place /\ Contents(<<"current", s>>) = Holds(s)
      BY PlaceKinds
    <3> QED BY <1>1, <2>6, <3>1
  <2> QED BY <2>1, <2>2, <2>3, <2>4, <2>5, <2>6
<1>3. \A s \in Sched, c \in Co : pc[s] # "leave" /\ current[s] = c => c \in Holds(s)
  BY ConstantsAssumption DEF Holds
<1>4. \A u \in Thread : HasArg(u) => arg[u] \in ArgOf(u)
  BY DEF ArgOf
<1>5. ASSUME NEW t \in Thread, HasArg(t)
      PROVE  /\ arg[t] \notin parked
             /\ \A s \in Sched : arg[t] \notin ready[s] /\ arg[t] \notin buffer[s]
             /\ \A u \in Thread : arg[t] \notin bag[u]
             /\ \A u \in Thread : u # t /\ HasArg(u) => arg[u] # arg[t]
             /\ \A s \in Sched : pc[s] # "leave" => current[s] # arg[t]
  <2>1. <<"arg", t>> \in Place /\ arg[t] \in Contents(<<"arg", t>>) /\ arg[t] \in Co
    BY <1>4, <1>5, PlaceKinds DEF HasArg, TypeInv, PcTyping, ApplyPc
  <2> QED BY <1>2, <1>3, <1>4, <2>1
<1>6. ASSUME NEW t \in Thread, NEW c \in bag[t]
      PROVE  /\ c \notin parked
             /\ \A s \in Sched : c \notin ready[s] /\ c \notin buffer[s]
             /\ \A u \in Thread : u # t => c \notin bag[u]
             /\ \A s \in Sched : pc[s] # "leave" => current[s] # c
  <2>1. <<"bag", t>> \in Place /\ c \in Contents(<<"bag", t>>) /\ c \in Co
    BY PlaceKinds DEF TypeInv, TypeOK
  <2> QED BY <1>2, <1>3, <2>1
<1>7. ASSUME NEW s \in Sched, current[s] # NoCo, pc[s] # "leave"
      PROVE  /\ current[s] \notin parked
             /\ \A u \in Sched : current[s] \notin ready[u] /\ current[s] \notin buffer[u]
             /\ \A u \in Sched : u # s /\ pc[u] # "leave" => current[u] # current[s]
  <2>1. <<"current", s>> \in Place /\ current[s] \in Contents(<<"current", s>>) /\ current[s] \in Co
    BY <1>3, <1>7, PlaceKinds DEF TypeInv, TypeOK
  <2> QED BY <1>2, <1>3, <2>1
<1>8. ASSUME NEW s \in Sched, NEW c \in ready[s]
      PROVE  c \notin parked /\ c \notin buffer[s]
             /\ \A u \in Sched : u # s => c \notin ready[u] /\ c \notin buffer[u]
  <2>1. <<"ready", s>> \in Place /\ c \in Contents(<<"ready", s>>)
    BY PlaceKinds
  <2> QED BY <1>2, <2>1
<1>9. ASSUME NEW s \in Sched, NEW c \in buffer[s]
      PROVE  c \notin parked /\ \A u \in Sched : u # s => c \notin ready[u] /\ c \notin buffer[u]
  <2>1. <<"buffer", s>> \in Place /\ c \in Contents(<<"buffer", s>>)
    BY PlaceKinds
  <2> QED BY <1>2, <2>1
<1> QED BY <1>5, <1>6, <1>7, <1>8, <1>9

(* A coroutine is rewritten only by the thread that holds it, so what the   *)
(* others say is untouched (Apart).                                         *)
LEMMA SelfStep == IInv /\ SelfInv /\ [Next]_vars => SelfInv'
<1> SUFFICES ASSUME IInv, SelfInv, [Next]_vars PROVE SelfInv'
  OBVIOUS
<1>0. TypeInv /\ StackInv /\ ExactlyOnePlace
  BY DEF IInv
<1>a. TypeOK /\ PcTyping
  BY <1>0 DEF TypeInv
<1>b. StackInv
  BY <1>0
<1> USE ThreadSets, NotBoth, ConstantsAssumption DEF SelfInv, LocalsInv, OwnerAgrees,
    ArgSays, BagSays, CurrentSays, ParkedSays,
   Owned, BagPc, Goto, queueVars, coVars, threadVars, ApplyPc, HasArg, BufferPc, PickPc, CoPc
<1>1. ASSUME NEW t \in Thread, ApplyStep(t) PROVE SelfInv'
  <2>1. CASE \E s \in Sched : apply_impl(t, s)
    BY <1>a, <1>b, <1>0, <2>1, Apart DEF apply_impl, get_ready_to_push, SetAll, TypeOK,
        PcTyping, StackInv
  <2>2. CASE try_lock(t)
    <3>1. CASE Acquire(t, target[t], "tryLock", "push")
      BY <1>a, <1>b, <1>0, <2>2, <3>1, Apart DEF try_lock, Acquire, TypeOK, PcTyping,
          StackInv
    <3>2. CASE Goto(t, "tryLock", "lazy") /\ UNCHANGED schedLock
      BY <1>a, <1>b, <1>0, <2>2, <3>2, Apart DEF try_lock, Acquire, TypeOK, PcTyping,
          StackInv
    <3> QED BY <2>2, <3>1, <3>2 DEF try_lock, Acquire
  <2>3. CASE push_to_ready(t)
    BY <1>a, <1>b, <1>0, <2>3, Apart DEF push_to_ready, TypeOK, PcTyping, StackInv
  <2>4. CASE apply_ready_lazy(t)
    <3>1. CASE Goto(t, "lazy", "signal")
      <4>1. /\ Goto(t, "lazy", "signal")
            /\ UNCHANGED <<ready, coVars, arg, target, bag, current>>
            /\ buffer' = [buffer EXCEPT ![target[t]] = @ \cup {arg[t]}]
        BY <1>a, <2>4, <3>1 DEF apply_ready_lazy, TypeOK
      <4> QED BY <1>a, <1>b, <1>0, <4>1, Apart DEF TypeOK, PcTyping, StackInv
    <3>2. CASE Goto(t, "lazy", "drain")
      <4>1. /\ Goto(t, "lazy", "drain")
            /\ UNCHANGED <<ready, buffer, coVars, arg, target, bag, current>>
        BY <1>a, <2>4, <3>2 DEF apply_ready_lazy, TypeOK
      <4> QED BY <1>a, <1>b, <1>0, <4>1, Apart, SMTT(30) DEF TypeOK, PcTyping, StackInv
    <3> QED BY <2>4, <3>1, <3>2 DEF apply_ready_lazy
  <2>5. CASE \E s \in Sched, c \in Co : s = target[t] /\ PopBuffer(t, s, "drain", c)
    BY <1>a, <1>b, <1>0, <2>5, Apart DEF PopBuffer, TypeOK, PcTyping, StackInv
  <2>6. CASE drain_end(t)
    BY <1>a, <1>b, <1>0, <2>6, Apart DEF drain_end, get_ready_to_push, SetAll, TypeOK,
        PcTyping, StackInv
  <2>7. CASE overflow_lock(t)
    BY <1>a, <1>b, <1>0, <2>7, Apart DEF overflow_lock, Acquire, TypeOK, PcTyping, StackInv
  <2>8. CASE overflow_push(t)
    BY <1>a, <1>b, <1>0, <2>8, Apart DEF overflow_push, push_all_to_ready, TypeOK,
        PcTyping, StackInv
  <2>9. CASE signal(t)
    BY <1>a, <1>b, <1>0, <2>9, Apart DEF signal, Return, TypeOK, PcTyping, StackInv
  <2> QED BY <1>1, <2>1, <2>2, <2>3, <2>4, <2>5, <2>6, <2>7, <2>8, <2>9 DEF ApplyStep
<1>2. ASSUME NEW t \in Thread, NEW c \in Co, Wake(t, c) PROVE SelfInv'
  BY <1>a, <1>b, <1>0, <1>2, Apart DEF Wake, TypeOK, PcTyping, StackInv
<1>3. ASSUME NEW s \in Sched, CoStep(s) PROVE SelfInv'
  <2>1. CASE \E c \in Co : Create(s, c)
    BY <1>a, <1>b, <1>0, <2>1, Apart DEF Create, TypeOK, PcTyping, StackInv
  <2>2. CASE WaitOn(s)
    BY <1>a, <1>b, <1>0, <2>2, Apart DEF WaitOn, TypeOK, PcTyping, StackInv
  <2>3. CASE coroutine_sleep(s)
    BY <1>a, <1>b, <1>0, <2>3, Apart DEF coroutine_sleep, TypeOK, PcTyping, StackInv
  <2>4. CASE coroutine_await(s)
    BY <1>a, <1>b, <1>0, <2>4, Apart DEF coroutine_await, TypeOK, PcTyping, StackInv
  <2>5. CASE coroutine_yield(s)
    BY <1>a, <1>b, <1>0, <2>5, Apart DEF coroutine_yield, TypeOK, PcTyping, StackInv
  <2>6. CASE coroutine_dead(s)
    BY <1>a, <1>b, <1>0, <2>6, Apart DEF coroutine_dead, TypeOK, PcTyping, StackInv
  <2> QED BY <1>3, <2>1, <2>2, <2>3, <2>4, <2>5, <2>6 DEF CoStep
<1>4. ASSUME NEW s \in Sched, PickStep(s) PROVE SelfInv'
  <2>1. CASE pick_try_wait(s)
    <3>1. CASE Goto(s, "pick", "checkBuf")
      BY <1>a, <1>b, <1>0, <2>1, <3>1, Apart DEF pick_try_wait, TypeOK, PcTyping, StackInv
    <3>2. CASE Goto(s, "pick", "steal")
      <4>1. UNCHANGED <<ready, buffer, coVars, arg, target, bag, current>>
        BY <2>1 DEF pick_try_wait
      <4> QED BY <1>a, <1>b, <1>0, <3>2, <4>1, Apart, SMTT(30) DEF TypeOK, PcTyping,
          StackInv
    <3> QED BY <2>1, <3>1, <3>2 DEF pick_try_wait
  <2>2. CASE steal_look(s)
    <3>1. CASE UNCHANGED pc
      BY <1>a, <1>b, <1>0, <2>2, <3>1, Apart DEF steal_look, NextVictim, TypeOK,
          PcTyping, StackInv
    <3>2. CASE Goto(s, "steal", "stealLock")
      BY <1>a, <1>b, <1>0, <2>2, <3>2, Apart DEF steal_look, NextVictim, TypeOK,
          PcTyping, StackInv
    <3> QED BY <2>2, <3>1, <3>2 DEF steal_look, NextVictim
  <2>3. CASE steal_lock(s)
    BY <1>a, <1>b, <1>0, <2>3, Apart DEF steal_lock, Acquire, TypeOK, PcTyping, StackInv
  <2>4. CASE \E c \in Co : steal_one(s, c)
    BY <1>a, <1>b, <1>0, <2>4, Apart DEF steal_one, TypeOK, PcTyping, StackInv
  <2>5. CASE steal_unlock(s)
    BY <1>a, <1>b, <1>0, <2>5, Apart DEF steal_unlock, NextVictim, TypeOK, PcTyping,
        StackInv
  <2>6. CASE steal_end(s)
    <3>1. CASE Goto(s, "steal", "try2")
      BY <1>a, <1>b, <1>0, <2>6, <3>1, Apart DEF steal_end, get_ready_to_push, SetAll,
          TypeOK, PcTyping, StackInv
    <3>2. CASE Goto(s, "steal", "stLock")
      BY <1>a, <1>b, <1>0, <2>6, <3>2, Apart DEF steal_end, get_ready_to_push, SetAll,
          TypeOK, PcTyping, StackInv
    <3> QED BY <2>6, <3>1, <3>2 DEF steal_end, get_ready_to_push, SetAll
  <2>7. CASE loot_lock(s)
    BY <1>a, <1>b, <1>0, <2>7, Apart DEF loot_lock, Acquire, TypeOK, PcTyping, StackInv
  <2>8. CASE loot_push(s)
    BY <1>a, <1>b, <1>0, <2>8, Apart DEF loot_push, push_all_to_ready, TypeOK, PcTyping,
        StackInv
  <2>9. CASE second_try_wait(s)
    <3>1. CASE Goto(s, "try2", "endSteal")
      BY <1>a, <1>b, <1>0, <2>9, <3>1, Apart DEF second_try_wait, TypeOK, PcTyping, StackInv
    <3>2. CASE Goto(s, "try2", "block")
      BY <1>a, <1>b, <1>0, <2>9, <3>2, Apart DEF second_try_wait, TypeOK, PcTyping, StackInv
    <3> QED BY <2>9, <3>1, <3>2 DEF second_try_wait
  <2>10. CASE sem_wait(s)
    BY <1>a, <1>b, <1>0, <2>10, Apart DEF sem_wait, TypeOK, PcTyping, StackInv
  <2>11. CASE check_ready_count(s)
    <3>1. CASE Goto(s, "checkBuf", "pullLock")
      BY <1>a, <1>b, <1>0, <2>11, <3>1, Apart DEF check_ready_count, TypeOK, PcTyping,
          StackInv
    <3>2. CASE Goto(s, "checkBuf", "pull")
      BY <1>a, <1>b, <1>0, <2>11, <3>2, Apart DEF check_ready_count, TypeOK, PcTyping,
          StackInv
    <3>3. CASE Goto(s, "pull", "pullPop")
      BY <1>a, <1>b, <1>0, <2>11, <3>3, Apart DEF check_ready_count, TypeOK, PcTyping,
          StackInv
    <3>4. CASE Goto(s, "pull", "end")
      BY <1>a, <1>b, <1>0, <2>11, <3>4, Apart DEF check_ready_count, TypeOK, PcTyping,
          StackInv
    <3> QED BY <2>11, <3>1, <3>2, <3>3, <3>4 DEF check_ready_count
  <2>12. CASE recheck_lock(s)
    BY <1>a, <1>b, <1>0, <2>12, Apart DEF recheck_lock, Acquire, TypeOK, PcTyping, StackInv
  <2>13. CASE recheck(s)
    <3>1. CASE Goto(s, "pullTest", "end")
      BY <1>a, <1>b, <1>0, <2>13, <3>1, Apart DEF recheck, TypeOK, PcTyping, StackInv
    <3>2. CASE Goto(s, "pullTest", "pull")
      BY <1>a, <1>b, <1>0, <2>13, <3>2, Apart DEF recheck, TypeOK, PcTyping, StackInv
    <3> QED BY <2>13, <3>1, <3>2 DEF recheck
  <2>14. CASE \E c \in Co : PopBuffer(s, s, "pullPop", c)
    BY <1>a, <1>b, <1>0, <2>14, Apart DEF PopBuffer, TypeOK, PcTyping, StackInv
  <2>15. CASE pull_end(s)
    <3>1. CASE Goto(s, "pullPop", "pull")
      BY <1>a, <1>b, <1>0, <2>15, <3>1, Apart DEF pull_end, get_ready_to_push, SetAll,
          TypeOK, PcTyping, StackInv
    <3>2. CASE Goto(s, "pullPop", "pbLock")
      BY <1>a, <1>b, <1>0, <2>15, <3>2, Apart DEF pull_end, get_ready_to_push, SetAll,
          TypeOK, PcTyping, StackInv
    <3> QED BY <2>15, <3>1, <3>2 DEF pull_end, get_ready_to_push, SetAll
  <2>16. CASE buffer_lock(s)
    BY <1>a, <1>b, <1>0, <2>16, Apart DEF buffer_lock, Acquire, TypeOK, PcTyping, StackInv
  <2>17. CASE buffer_push(s)
    BY <1>a, <1>b, <1>0, <2>17, Apart DEF buffer_push, push_all_to_ready, TypeOK,
        PcTyping, StackInv
  <2>18. CASE end_lock(s)
    BY <1>a, <1>b, <1>0, <2>18, Apart DEF end_lock, Acquire, TypeOK, PcTyping, StackInv
  <2>19. CASE pickup_assert(s)
    BY <1>a, <1>b, <1>0, <2>19, Apart DEF pickup_assert, TypeOK, PcTyping, StackInv
  <2>20. CASE \E c \in Co : pickup_pop(s, c)
    BY <1>a, <1>b, <1>0, <2>20, Apart DEF pickup_pop, TypeOK, PcTyping, StackInv
  <2>21. CASE run(s)
    BY <1>a, <1>b, <1>0, <2>21, Apart DEF run, TypeOK, PcTyping, StackInv
  <2>22. CASE process_co_exec_end(s)
    BY <1>a, <1>b, <1>0, <2>22, Apart DEF process_co_exec_end, TypeOK, PcTyping, StackInv
  <2>23. CASE dead_end(s)
    BY <1>a, <1>b, <1>0, <2>23, Apart DEF dead_end, TypeOK, PcTyping, StackInv
  <2> QED BY <1>4, <2>1, <2>2, <2>3, <2>4, <2>5, <2>6, <2>7, <2>8, <2>9, <2>10, <2>11,
      <2>12, <2>13, <2>14, <2>15, <2>16, <2>17, <2>18, <2>19, <2>20, <2>21, <2>22, <2>23
      DEF PickStep
<1>5. CASE UNCHANGED vars
  BY <1>5 DEF vars
<1> QED BY <1>1, <1>2, <1>3, <1>4, <1>5 DEF Next

(* Initially the main coroutine is being applied, and no other exists.      *)
LEMMA InitSelfInv == Init => SelfInv
BY ConstantsAssumption, ThreadSets
   DEF Init, SelfInv, LocalsInv, OwnerAgrees, ArgSays, BagSays, CurrentSays, ParkedSays,
       Owned, BagPc, ApplyPc, Sched, Thread, Timer, Home, None

(* The inductive invariant of this module.                                  *)
OwnInv == IInv /\ SelfInv

(* Both invariants hold in every state.                                     *)
LEMMA OwnInvariance == Spec => []OwnInv
<1>1. Init => OwnInv
  BY InitIInv, InitSelfInv DEF OwnInv
<1>2. OwnInv /\ [Next]_vars => OwnInv'
  BY IInvStep, SelfStep DEF OwnInv
<1> QED BY <1>1, <1>2, PTL DEF Spec

(* A coroutine that is queued at a scheduler says so itself: status,        *)
(* scheduler and occupy_thread are those of the queue it is in, however     *)
(* often it is buffered, stolen, overflows or is applied by other threads.  *)
THEOREM OwnersAgree == Spec => []OwnerAgrees
<1>1. OwnInv => OwnerAgrees
  BY DEF OwnInv, SelfInv
<1> QED BY <1>1, OwnInvariance, PTL

(* apply_impl never throws and never fails its assertion, and run always    *)
(* starts a READY coroutine.                                                *)
THEOREM AssertionsNeverFail == Spec => []AssertionsHold
<1>1. OwnInv => AssertionsHold
  BY DEF OwnInv, SelfInv, AssertionsHold, ArgSays, CurrentSays, Rejected
<1> QED BY <1>1, OwnInvariance, PTL

-----------------------------------------------------------------------------
(* The refinement of Dispatch.                                              *)

(* Nothing is queued and nobody executes.                                   *)
LEMMA InitDispatch == Init => D!Init
<1> SUFFICES ASSUME Init PROVE D!Init
  OBVIOUS
<1>1. queued = {}
  BY DEF Init, queued
<1>2. \A s \in Sched : ~Executes(s)
  BY DEF Init, Executes
<1> QED BY <1>1, <1>2 DEF D!Init, executing

(* A step that changes no status, takes no coroutine and leaves no stack.   *)
LEMMA Quiet ==
  ASSUME UNCHANGED <<status, current>>,
         \A s \in Sched : pc'[s] = "leave" <=> pc[s] = "leave"
  PROVE  UNCHANGED D!vars
<1>1. \A s \in Sched : Executes(s)' = Executes(s)
  BY DEF Executes
<1> QED BY <1>1 DEF D!vars, queued, executing

(* A scheduler that takes or leaves a coroutine without executing it.       *)
LEMMA Idle ==
  ASSUME NEW s \in Sched, status' = status, ~Executes(s), ~Executes(s)',
         \A u \in Sched : u # s => current'[u] = current[u] /\ pc'[u] = pc[u]
  PROVE  UNCHANGED D!vars
<1>1. \A u \in Sched : u # s => Executes(u)' = Executes(u) /\ current'[u] = current[u]
  BY DEF Executes
<1>2. executing' = executing
  BY <1>1 DEF executing
<1> QED BY <1>2 DEF D!vars, queued

(* A scheduler whose coroutine stops being executed.                        *)
LEMMA Stops ==
  ASSUME NEW s \in Sched, NEW c \in Co, c = current[s], Executes(s), ~Executes(s)',
         status \in [Co -> Status], NEW v \in Status \ {"READY", "RUNNING"},
         status' = [status EXCEPT ![c] = v],
         \A u \in Sched : u # s => /\ current'[u] = current[u] /\ pc'[u] = pc[u]
                                   /\ current[u] = c => pc[u] = "leave"
  PROVE  D!Release(s)
<1>1. \A u \in Sched : u # s => Executes(u)' = Executes(u) /\ current'[u] = current[u]
  BY DEF Executes
<1>2. queued' = queued
  BY DEF queued, Executes
<1>3. executing[s] # NoCo
  BY DEF executing, Executes
<1>4. executing' = [executing EXCEPT ![s] = NoCo]
  BY <1>1 DEF executing
<1> QED BY <1>2, <1>3, <1>4 DEF D!Release

(* Every step of the scheduler is a step of Dispatch or changes nothing it  *)
(* sees.                                                                    *)
LEMMA NextDispatch == OwnInv /\ [Next]_vars => [D!Next]_D!vars
<1> SUFFICES ASSUME OwnInv, [Next]_vars PROVE [D!Next]_D!vars
  OBVIOUS
<1>0. TypeInv /\ StackInv /\ ExactlyOnePlace
  BY DEF OwnInv, IInv
<1>a. TypeOK /\ PcTyping
  BY <1>0 DEF TypeInv
<1>b. SelfInv
  BY DEF OwnInv
<1>c. \A s, u \in Sched : s # u /\ current[s] # NoCo /\ current[s] = current[u]
        => pc[s] = "leave" \/ pc[u] = "leave"
  BY <1>0, Apart
<1> USE ThreadSets, NotBoth, ConstantsAssumption DEF Goto, queueVars, coVars, threadVars
<1>1. ASSUME NEW t \in Thread, ApplyStep(t) PROVE [D!Next]_D!vars
  <2>1. CASE \E s \in Sched : apply_impl(t, s)
    <3>1. PICK s \in Sched : apply_impl(t, s)
      BY <2>1
    <3>2. arg[t] \in Co /\ HasArg(t) /\ status[arg[t]] \in {"NEW", "WAITING", "INTERRUPT"}
      BY <1>a, <1>b, <3>1 DEF apply_impl, PcTyping, ApplyPc, HasArg, SelfInv, ArgSays
    <3>3. \A u \in Sched : Executes(u)' = Executes(u) /\ current'[u] = current[u]
      BY <1>a, <3>1, <3>2 DEF apply_impl, get_ready_to_push, SetAll, Executes, TypeOK
    <3>4. \A u \in Sched : executing[u] # arg[t]
      BY <3>2 DEF executing, Executes
    <3>5. arg[t] \notin queued /\ queued' = queued \cup {arg[t]}
      BY <1>a, <3>1, <3>2 DEF apply_impl, get_ready_to_push, SetAll, queued, TypeOK
    <3>6. executing' = executing
      BY <3>3 DEF executing
    <3>7. D!Submit(arg[t])
      BY <3>4, <3>5, <3>6 DEF D!Submit
    <3> QED BY <3>2, <3>7 DEF D!Next
  <2>2. CASE try_lock(t)
    BY <1>a, <2>2, Quiet DEF try_lock, Acquire, TypeOK
  <2>3. CASE push_to_ready(t)
    BY <1>a, <2>3, Quiet DEF push_to_ready, TypeOK
  <2>4. CASE apply_ready_lazy(t)
    BY <1>a, <2>4, Quiet DEF apply_ready_lazy, TypeOK
  <2>5. CASE \E s \in Sched, c \in Co : s = target[t] /\ PopBuffer(t, s, "drain", c)
    BY <1>a, <2>5, Quiet DEF PopBuffer, TypeOK
  <2>6. CASE drain_end(t)
    <3>1. status' = status
      BY <1>a, <1>b, <2>6 DEF drain_end, get_ready_to_push, SetAll, SelfInv, BagSays,
          ArgSays, Owned, TypeOK
    <3>2. current' = current /\ \A u \in Sched : pc'[u] = "leave" <=> pc[u] = "leave"
      BY <1>a, <2>6 DEF drain_end, TypeOK
    <3> QED BY <3>1, <3>2, Quiet
  <2>7. CASE overflow_lock(t)
    BY <1>a, <2>7, Quiet DEF overflow_lock, Acquire, TypeOK
  <2>8. CASE overflow_push(t)
    BY <1>a, <2>8, Quiet DEF overflow_push, push_all_to_ready, TypeOK
  <2>9. CASE signal(t)
    BY <1>a, <2>9, Quiet DEF signal, Return, TypeOK
  <2> QED BY <1>1, <2>1, <2>2, <2>3, <2>4, <2>5, <2>6, <2>7, <2>8, <2>9 DEF ApplyStep
<1>2. ASSUME NEW t \in Thread, NEW c \in Co, Wake(t, c) PROVE [D!Next]_D!vars
  BY <1>a, <1>2, Quiet DEF Wake, TypeOK
<1>3. ASSUME NEW s \in Sched, CoStep(s) PROVE [D!Next]_D!vars
  <2>1. CASE \E c \in Co : Create(s, c)
    <3>1. PICK c \in Co : Create(s, c)
      BY <2>1
    <3>2. \A u \in Sched : Executes(u)' = Executes(u) /\ current'[u] = current[u]
      BY <1>a, <3>1 DEF Create, TypeOK, Executes
    <3>3. queued' = queued
      BY <1>a, <3>1 DEF Create, TypeOK, queued
    <3> QED BY <3>2, <3>3 DEF D!vars, executing
  <2>2. CASE WaitOn(s)
    <3>1. current[s] \in Co /\ Executes(s) /\ pc[s] = "run"
      BY <1>a, <1>b, <2>2 DEF WaitOn, PcTyping, SelfInv, CurrentSays, Executes
    <3>2. /\ status' = [status EXCEPT ![current[s]] = "WAITING"]
          /\ \A u \in Sched : u # s => current'[u] = current[u] /\ pc'[u] = pc[u]
          /\ ~Executes(s)'
      BY <1>a, <2>2, <3>1 DEF WaitOn, TypeOK, Executes
    <3>3. \A u \in Sched : u # s /\ current[u] = current[s] => pc[u] = "leave"
      BY <1>c, <3>1
    <3>4. D!Release(s)
      BY <1>a, <3>1, <3>2, <3>3, Stops DEF TypeOK, Status
    <3> QED BY <3>4 DEF D!Next
  <2>3. CASE coroutine_sleep(s)
    <3>1. current[s] \in Co /\ Executes(s) /\ pc[s] = "run"
      BY <1>a, <1>b, <2>3 DEF coroutine_sleep, PcTyping, SelfInv, CurrentSays, Executes
    <3>2. /\ status' = [status EXCEPT ![current[s]] = "WAITING"]
          /\ \A u \in Sched : u # s => current'[u] = current[u] /\ pc'[u] = pc[u]
          /\ ~Executes(s)'
      BY <1>a, <2>3, <3>1 DEF coroutine_sleep, TypeOK, Executes
    <3>3. \A u \in Sched : u # s /\ current[u] = current[s] => pc[u] = "leave"
      BY <1>c, <3>1
    <3>4. D!Release(s)
      BY <1>a, <3>1, <3>2, <3>3, Stops DEF TypeOK, Status
    <3> QED BY <3>4 DEF D!Next
  <2>4. CASE coroutine_await(s)
    <3>1. current[s] \in Co /\ Executes(s) /\ pc[s] = "run"
      BY <1>a, <1>b, <2>4 DEF coroutine_await, PcTyping, SelfInv, CurrentSays, Executes
    <3>2. /\ status' = [status EXCEPT ![current[s]] = "WAITING"]
          /\ \A u \in Sched : u # s => current'[u] = current[u] /\ pc'[u] = pc[u]
          /\ ~Executes(s)'
      BY <1>a, <2>4, <3>1 DEF coroutine_await, TypeOK, Executes
    <3>3. \A u \in Sched : u # s /\ current[u] = current[s] => pc[u] = "leave"
      BY <1>c, <3>1
    <3>4. D!Release(s)
      BY <1>a, <3>1, <3>2, <3>3, Stops DEF TypeOK, Status
    <3> QED BY <3>4 DEF D!Next
  <2>5. CASE coroutine_yield(s)
    <3>1. current[s] \in Co /\ Executes(s) /\ pc[s] = "run"
      BY <1>a, <1>b, <2>5 DEF coroutine_yield, PcTyping, SelfInv, CurrentSays, Executes
    <3>2. /\ status' = [status EXCEPT ![current[s]] = "INTERRUPT"]
          /\ \A u \in Sched : u # s => current'[u] = current[u] /\ pc'[u] = pc[u]
          /\ ~Executes(s)'
      BY <1>a, <2>5, <3>1 DEF coroutine_yield, TypeOK, Executes
    <3>3. \A u \in Sched : u # s /\ current[u] = current[s] => pc[u] = "leave"
      BY <1>c, <3>1
    <3>4. D!Release(s)
      BY <1>a, <3>1, <3>2, <3>3, Stops DEF TypeOK, Status
    <3> QED BY <3>4 DEF D!Next
  <2>6. CASE coroutine_dead(s)
    <3>1. current[s] \in Co /\ Executes(s) /\ pc[s] = "run"
      BY <1>a, <1>b, <2>6 DEF coroutine_dead, PcTyping, SelfInv, CurrentSays, Executes
    <3>2. /\ status' = [status EXCEPT ![current[s]] = "DEAD"]
          /\ \A u \in Sched : u # s => current'[u] = current[u] /\ pc'[u] = pc[u]
          /\ ~Executes(s)'
      BY <1>a, <2>6, <3>1 DEF coroutine_dead, TypeOK, Executes
    <3>3. \A u \in Sched : u # s /\ current[u] = current[s] => pc[u] = "leave"
      BY <1>c, <3>1
    <3>4. D!Release(s)
      BY <1>a, <3>1, <3>2, <3>3, Stops DEF TypeOK, Status
    <3> QED BY <3>4 DEF D!Next
  <2> QED BY <1>3, <2>1, <2>2, <2>3, <2>4, <2>5, <2>6 DEF CoStep
<1>4. ASSUME NEW s \in Sched, PickStep(s) PROVE [D!Next]_D!vars
  <2>1. CASE pick_try_wait(s)
    BY <1>a, <2>1, Quiet DEF pick_try_wait, TypeOK
  <2>2. CASE steal_look(s)
    BY <1>a, <2>2, Quiet DEF steal_look, NextVictim, TypeOK
  <2>3. CASE steal_lock(s)
    BY <1>a, <2>3, Quiet DEF steal_lock, Acquire, TypeOK
  <2>4. CASE \E c \in Co : steal_one(s, c)
    BY <1>a, <2>4, Quiet DEF steal_one, TypeOK
  <2>5. CASE steal_unlock(s)
    BY <1>a, <2>5, Quiet DEF steal_unlock, NextVictim, TypeOK
  <2>6. CASE steal_end(s)
    <3>1. status' = status
      BY <1>a, <1>b, <2>6 DEF steal_end, get_ready_to_push, SetAll, SelfInv, BagSays,
          ArgSays, Owned, TypeOK
    <3>2. current' = current /\ \A u \in Sched : pc'[u] = "leave" <=> pc[u] = "leave"
      BY <1>a, <2>6 DEF steal_end, TypeOK
    <3> QED BY <3>1, <3>2, Quiet
  <2>7. CASE loot_lock(s)
    BY <1>a, <2>7, Quiet DEF loot_lock, Acquire, TypeOK
  <2>8. CASE loot_push(s)
    BY <1>a, <2>8, Quiet DEF loot_push, push_all_to_ready, TypeOK
  <2>9. CASE second_try_wait(s)
    BY <1>a, <2>9, Quiet DEF second_try_wait, TypeOK
  <2>10. CASE sem_wait(s)
    BY <1>a, <2>10, Quiet DEF sem_wait, TypeOK
  <2>11. CASE check_ready_count(s)
    BY <1>a, <2>11, Quiet DEF check_ready_count, TypeOK
  <2>12. CASE recheck_lock(s)
    BY <1>a, <2>12, Quiet DEF recheck_lock, Acquire, TypeOK
  <2>13. CASE recheck(s)
    BY <1>a, <2>13, Quiet DEF recheck, TypeOK
  <2>14. CASE \E c \in Co : PopBuffer(s, s, "pullPop", c)
    BY <1>a, <2>14, Quiet DEF PopBuffer, TypeOK
  <2>15. CASE pull_end(s)
    <3>1. status' = status
      BY <1>a, <1>b, <2>15 DEF pull_end, get_ready_to_push, SetAll, SelfInv, BagSays,
          ArgSays, Owned, TypeOK
    <3>2. current' = current /\ \A u \in Sched : pc'[u] = "leave" <=> pc[u] = "leave"
      BY <1>a, <2>15 DEF pull_end, TypeOK
    <3> QED BY <3>1, <3>2, Quiet
  <2>16. CASE buffer_lock(s)
    BY <1>a, <2>16, Quiet DEF buffer_lock, Acquire, TypeOK
  <2>17. CASE buffer_push(s)
    BY <1>a, <2>17, Quiet DEF buffer_push, push_all_to_ready, TypeOK
  <2>18. CASE end_lock(s)
    BY <1>a, <2>18, Quiet DEF end_lock, Acquire, TypeOK
  <2>19. CASE pickup_assert(s)
    BY <1>a, <2>19, Quiet DEF pickup_assert, TypeOK
  <2>20. CASE \E c \in Co : pickup_pop(s, c)
    <3>1. PICK c \in Co : pickup_pop(s, c)
      BY <2>20
    <3>2. current[s] = NoCo
      BY <1>0, <3>1 DEF pickup_pop, StackInv, ApplyPc
    <3>3. status[c] = "READY"
      BY <1>b, <3>1 DEF pickup_pop, SelfInv, OwnerAgrees
    <3>4. ~Executes(s) /\ ~Executes(s)'
      BY <1>a, <3>1, <3>2, <3>3 DEF pickup_pop, Executes, TypeOK
    <3>5. status' = status /\ \A u \in Sched : u # s => current'[u] = current[u] /\ pc'[u] = pc[u]
      BY <1>a, <3>1 DEF pickup_pop, TypeOK
    <3> QED BY <3>4, <3>5, Idle
  <2>21. CASE run(s)
    <3>1. current[s] \in Co /\ pc[s] = "start" /\ status[current[s]] = "READY"
      BY <1>a, <2>21 DEF run, PcTyping
    <3>2. /\ status' = [status EXCEPT ![current[s]] = "RUNNING"]
          /\ current' = current
          /\ \A u \in Sched : u # s => pc'[u] = pc[u]
          /\ ~Executes(s) /\ Executes(s)'
      BY <1>a, <2>21, <3>1 DEF run, TypeOK, Executes
    <3>3. \A u \in Sched : u # s /\ current[u] = current[s] => pc[u] = "leave"
      BY <1>c, <3>1
    <3>4. \A u \in Sched : u # s => Executes(u)' = Executes(u)
      BY <1>a, <3>2, <3>3 DEF Executes, TypeOK
    <3>5. current[s] \in queued /\ queued' = queued \ {current[s]}
      BY <1>a, <3>1, <3>2 DEF queued, TypeOK
    <3>6. executing[s] = NoCo /\ executing' = [executing EXCEPT ![s] = current[s]]
      BY <3>2, <3>4 DEF executing
    <3>7. D!Take(s, current[s])
      BY <3>5, <3>6 DEF D!Take
    <3> QED BY <3>1, <3>7 DEF D!Next
  <2>22. CASE process_co_exec_end(s)
    <3>1. ~Executes(s) /\ ~Executes(s)'
      BY <1>0, <1>a, <2>22 DEF process_co_exec_end, TypeOK, Executes, StackInv
    <3>2. status' = status /\ \A u \in Sched : u # s => current'[u] = current[u] /\ pc'[u] = pc[u]
      BY <1>a, <2>22 DEF process_co_exec_end, TypeOK
    <3> QED BY <3>1, <3>2, Idle
  <2>23. CASE dead_end(s)
    <3>1. ~Executes(s) /\ ~Executes(s)'
      BY <1>0, <1>a, <2>23 DEF dead_end, TypeOK, Executes, StackInv
    <3>2. status' = status /\ \A u \in Sched : u # s => current'[u] = current[u] /\ pc'[u] = pc[u]
      BY <1>a, <2>23 DEF dead_end, TypeOK
    <3> QED BY <3>1, <3>2, Idle
  <2> QED BY <1>4, <2>1, <2>2, <2>3, <2>4, <2>5, <2>6, <2>7, <2>8, <2>9, <2>10, <2>11,
      <2>12, <2>13, <2>14, <2>15, <2>16, <2>17, <2>18, <2>19, <2>20, <2>21, <2>22, <2>23
      DEF PickStep
<1>5. CASE UNCHANGED vars
  BY <1>5, Quiet DEF vars
<1> QED BY <1>1, <1>2, <1>3, <1>4, <1>5 DEF Next

(* The scheduler implements Dispatch: what is applied once is executed      *)
(* once, by one scheduler that executes nothing else, for any number of     *)
(* schedulers, timer threads and coroutines and any size of the buffer.     *)
THEOREM SchedulerDispatches == Spec => ImplementsDispatch
<1>1. Spec => D!Spec
  BY OwnInvariance, InitDispatch, NextDispatch, PTL DEF Spec, D!Spec
<1> QED BY <1>1 DEF ImplementsDispatch

-----------------------------------------------------------------------------
(* The tokens of sem_ready.                                                 *)

(* What is queued at s, and the token it holds.                             *)
Work(s) == ready[s] \cup buffer[s] \cup InTransit(s)
Token(s) == IF HoldsToken(s) THEN 1 ELSE 0

(* Where the thread of apply still owes the signal.                         *)
OwingPc == {"signal", "ovLock", "ovPush"}

(* What is in transit to s, and who carries it.                             *)
LEMMA Transit ==
  ASSUME NEW s \in Sched
  PROVE  \A c : c \in InTransit(s) <=> \E t \in Thread : Carries(t, s) /\ c \in bag[t]
<1> DEFINE S == {u \in Thread : Carries(u, s)}
<1>1. InTransit(s) = UNION {bag[t] : t \in S}
  BY DEF InTransit
<1>2. \A t : t \in S <=> t \in Thread /\ Carries(t, s)
  OBVIOUS
<1> HIDE DEF S
<1> QED BY <1>1, <1>2

LEMMA TransitNext ==
  ASSUME NEW s \in Sched
  PROVE  \A c : c \in InTransit(s)' <=> \E t \in Thread : Carries(t, s)' /\ c \in bag'[t]
<1> DEFINE S == {u \in Thread : Carries(u, s)'}
<1>1. InTransit(s)' = UNION {bag'[t] : t \in S}
  BY DEF InTransit
<1>2. \A t : t \in S <=> t \in Thread /\ Carries(t, s)'
  OBVIOUS
<1> HIDE DEF S
<1> QED BY <1>1, <1>2

(* The sets that are counted are finite.                                    *)
LEMMA FiniteWork ==
  ASSUME TypeInv, NEW s \in Sched
  PROVE  /\ IsFiniteSet(Work(s)) /\ Cardinality(Work(s)) \in Nat
         /\ IsFiniteSet(Owing(s)) /\ Cardinality(Owing(s)) \in Nat
<1>1. Work(s) \subseteq Co
  BY Transit DEF Work, TypeInv, TypeOK
<1>2. Owing(s) \subseteq Thread /\ IsFiniteSet(Thread)
  BY ConstantsAssumption, FS_Interval DEF Owing, Thread
<1> QED BY <1>1, <1>2, ConstantsAssumption, FS_Subset, FS_CardinalityType

LEMMA FiniteWorkNext ==
  ASSUME TypeInv', NEW s \in Sched
  PROVE  Cardinality(Work(s))' \in Nat /\ Cardinality(Owing(s))' \in Nat
<1>1. Work(s)' \subseteq Co
  BY TransitNext DEF Work, TypeInv, TypeOK
<1>2. Owing(s)' \subseteq Thread /\ IsFiniteSet(Thread)
  BY ConstantsAssumption, FS_Interval DEF Owing, Thread
<1> QED BY <1>1, <1>2, ConstantsAssumption, FS_Subset, FS_CardinalityType

(* A step that moves no work between schedulers and no token.               *)
LEMMA Level ==
  ASSUME TokensMatchWork, UNCHANGED semReady,
         \A s \in Sched : /\ Work(s)' = Work(s)
                          /\ Owing(s)' = Owing(s)
                          /\ HoldsToken(s)' = HoldsToken(s)
  PROVE  TokensMatchWork'
BY DEF TokensMatchWork, Work

(* What a thread that carries nothing may do without moving work.           *)
LEMMA WorkFrame ==
  ASSUME UNCHANGED bag, NEW s \in Sched, UNCHANGED <<ready[s], buffer[s]>>,
         \A t \in Thread : bag[t] # {} => Carries(t, s)' = Carries(t, s)
  PROVE  Work(s)' = Work(s)
<1>1. InTransit(s)' = InTransit(s)
  BY Transit, TransitNext
<1> QED BY <1>1 DEF Work

(* A coroutine is handed to v and its signal is pending.                    *)
LEMMA Handed ==
  ASSUME TypeInv, TokensMatchWork, UNCHANGED semReady, NEW v \in Sched, NEW t \in Thread, NEW c,
         \A s \in Sched : HoldsToken(s)' = HoldsToken(s),
         \A s \in Sched : s # v => Work(s)' = Work(s) /\ Owing(s)' = Owing(s),
         Work(v)' = Work(v) \cup {c}, c \notin Work(v),
         Owing(v)' = Owing(v) \cup {t}, t \notin Owing(v)
  PROVE  TokensMatchWork'
<1>1. Cardinality(Work(v))' = Cardinality(Work(v)) + 1
  BY FiniteWork, AddOne
<1>2. Cardinality(Owing(v))' = Cardinality(Owing(v)) + 1
  BY FiniteWork, AddOne
<1>3. semReady[v] \in Nat
  BY DEF TypeInv, TypeOK
<1>4. \A s \in Sched : Cardinality(Work(s)) = semReady[s] + Cardinality(Owing(s)) + Token(s)
  BY DEF TokensMatchWork, Work, Token
<1>5. \A s \in Sched : Token(s)' = Token(s) /\ Token(s) \in 0 .. 1
  BY DEF Token
<1>6. Cardinality(Work(v))' = semReady'[v] + Cardinality(Owing(v))' + Token(v)'
  BY <1>1, <1>2, <1>3, <1>4, <1>5, FiniteWork
<1>7. \A s \in Sched : Cardinality(Work(s))' = semReady'[s] + Cardinality(Owing(s))' + Token(s)'
  BY <1>4, <1>5, <1>6
<1> QED BY <1>7 DEF TokensMatchWork, Work, Token

(* The tokens of one scheduler v change as its work and its debts do.       *)
LEMMA Settles ==
  ASSUME TypeInv, TypeInv', TokensMatchWork, NEW v \in Sched,
         \A s \in Sched : s # v => /\ Work(s)' = Work(s) /\ Owing(s)' = Owing(s)
                                   /\ HoldsToken(s)' = HoldsToken(s)
                                   /\ semReady'[s] = semReady[s],
         Cardinality(Work(v))' - Cardinality(Work(v))
           = semReady'[v] - semReady[v] + Token(v)' - Token(v)
             + Cardinality(Owing(v))' - Cardinality(Owing(v))
  PROVE  TokensMatchWork'
<1>1. \A s \in Sched : Cardinality(Work(s)) = semReady[s] + Cardinality(Owing(s)) + Token(s)
  BY DEF TokensMatchWork, Work, Token
<1>2. /\ semReady[v] \in Nat /\ semReady'[v] \in Nat /\ Token(v) \in 0 .. 1 /\ Token(v)' \in 0 .. 1
      /\ Cardinality(Work(v)) \in Nat /\ Cardinality(Owing(v)) \in Nat
  BY FiniteWork DEF Token, TypeInv, TypeOK
<1>3. Cardinality(Work(v))' \in Nat /\ Cardinality(Owing(v))' \in Nat
  BY FiniteWorkNext
<1>4. Cardinality(Work(v))' = semReady'[v] + Cardinality(Owing(v))' + Token(v)'
  BY <1>1, <1>2, <1>3
<1>5. \A s \in Sched : s # v => Token(s)' = Token(s)
  BY DEF Token
<1>6. \A s \in Sched : Cardinality(Work(s))' = semReady'[s] + Cardinality(Owing(s))' + Token(s)'
  BY <1>1, <1>4, <1>5
<1> QED BY <1>6 DEF TokensMatchWork, Work, Token

(* A step of t that leaves queues, vectors and semaphores alone: it may     *)
(* give an empty vector another destination.                                *)
LEMMA Still ==
  ASSUME TypeOK, TokensMatchWork, UNCHANGED <<ready, buffer, bag, semReady>>, NEW t \in Thread,
         pc' \in [Thread -> Pc],
         \A u \in Thread : u # t => pc'[u] = pc[u] /\ target'[u] = target[u],
         pc'[t] \in OwingPc <=> pc[t] \in OwingPc,
         pc'[t] \in BufferPc \cup {"end", "endSteal", "abort"}
           <=> pc[t] \in BufferPc \cup {"end", "endSteal", "abort"},
         bag[t] # {} => pc'[t] \in BufferPc <=> pc[t] \in BufferPc,
         bag[t] # {} \/ pc[t] \in OwingPc => target'[t] = target[t]
  PROVE  TokensMatchWork'
<1>1. ASSUME NEW s \in Sched
      PROVE  Work(s)' = Work(s) /\ Owing(s)' = Owing(s) /\ HoldsToken(s)' = HoldsToken(s)
  <2>1. \A u \in Thread : bag[u] # {} => Carries(u, s)' = Carries(u, s)
    BY DEF Carries
  <2>2. Work(s)' = Work(s)
    BY <2>1, WorkFrame
  <2>3. Owing(s)' = Owing(s)
    BY DEF Owing, OwingPc
  <2>4. HoldsToken(s)' = HoldsToken(s)
    BY ThreadSets DEF HoldsToken
  <2> QED BY <2>2, <2>3, <2>4
<1> QED BY <1>1, Level

(* A step of t that carries nothing for s, before and after.                *)
LEMMA TransitFrame ==
  ASSUME NEW s \in Sched, NEW t \in Thread,
         \A u \in Thread : u # t => bag'[u] = bag[u] /\ Carries(u, s)' = Carries(u, s),
         ~Carries(t, s) \/ bag[t] = {}, ~Carries(t, s)' \/ bag'[t] = {}
  PROVE  InTransit(s)' = InTransit(s)
<1>1. \A u \in Thread : \A c : Carries(u, s) /\ c \in bag[u] <=> Carries(u, s)' /\ c \in bag'[u]
  OBVIOUS
<1> QED BY <1>1, Transit, TransitNext

(* A step of t that moves coroutines of v from one part of its work to      *)
(* another.                                                                 *)
LEMMA Shift ==
  ASSUME TypeOK, TokensMatchWork, UNCHANGED <<semReady, target>>, NEW t \in Thread, NEW v \in Sched,
         \A u \in Thread : u # t => pc'[u] = pc[u] /\ bag'[u] = bag[u],
         \A s \in Sched : s # v => ready'[s] = ready[s] /\ buffer'[s] = buffer[s],
         \A s \in Sched : s # v => ~Carries(t, s) /\ ~Carries(t, s)',
         pc'[t] \in OwingPc <=> pc[t] \in OwingPc,
         t \in Sched => HoldsToken(t)' = HoldsToken(t),
         \A u \in Thread : u # t => Carries(u, v)' = Carries(u, v),
         ready'[v] \cup buffer'[v] \cup (IF Carries(t, v)' THEN bag'[t] ELSE {})
           = ready[v] \cup buffer[v] \cup (IF Carries(t, v) THEN bag[t] ELSE {})
  PROVE  TokensMatchWork'
<1>1. ASSUME NEW s \in Sched, s # v PROVE Work(s)' = Work(s)
  <2>1. \A u \in Thread : u # t => Carries(u, s)' = Carries(u, s)
    BY <1>1 DEF Carries
  <2>2. InTransit(s)' = InTransit(s)
    BY <1>1, <2>1, TransitFrame
  <2> QED BY <1>1, <2>2 DEF Work
<1>2. Work(v)' = Work(v)
  <2> DEFINE rest == {c \in Co : \E u \in Thread : u # t /\ Carries(u, v) /\ c \in bag[u]}
  <2>1. InTransit(v) = rest \cup (IF Carries(t, v) THEN bag[t] ELSE {})
    BY Transit DEF TypeOK
  <2>2. InTransit(v)' = rest \cup (IF Carries(t, v)' THEN bag'[t] ELSE {})
    BY TransitNext DEF TypeOK
  <2> HIDE DEF rest
  <2> QED BY <2>1, <2>2 DEF Work
<1>3. \A s \in Sched : Owing(s)' = Owing(s)
  BY DEF Owing, OwingPc
<1>4. \A s \in Sched : HoldsToken(s)' = HoldsToken(s)
  BY ThreadSets DEF HoldsToken
<1> QED BY <1>1, <1>2, <1>3, <1>4, Level

(* A try_wait or wait that takes a token.                                   *)
LEMMA TakesToken ==
  ASSUME TypeInv, TypeInv', TokensMatchWork, NEW s \in Sched,
         pc[s] \in {"pick", "try2", "block"}, NEW to \in {"checkBuf", "endSteal"},
         pc' = [pc EXCEPT ![s] = to], bag[s] = {},
         semReady' = [semReady EXCEPT ![s] = @ - 1],
         UNCHANGED <<ready, buffer, bag, target>>
  PROVE  TokensMatchWork'
<1>0. TypeOK
  BY DEF TypeInv
<1>1. s \in Thread /\ \A u \in Thread : u # s => pc'[u] = pc[u]
  BY <1>0, ThreadSets DEF TypeOK
<1>2. pc'[s] = to
  BY <1>0, ThreadSets DEF TypeOK
<1>3. \A u \in Thread, v \in Sched : bag[u] # {} => Carries(u, v)' = Carries(u, v)
  BY <1>1 DEF Carries
<1>4. \A v \in Sched : Work(v)' = Work(v)
  BY <1>3, WorkFrame
<1>5. \A v \in Sched : Owing(v)' = Owing(v)
  BY <1>1, <1>2 DEF Owing
<1>6. Token(s)' = 1 /\ Token(s) = 0
  BY <1>2 DEF Token, HoldsToken, BufferPc
<1>7. \A v \in Sched : v # s => HoldsToken(v)' = HoldsToken(v) /\ semReady'[v] = semReady[v]
  BY <1>0, <1>1, ThreadSets DEF HoldsToken, TypeOK
<1>8. semReady'[s] = semReady[s] - 1 /\ semReady[s] \in Nat
  BY <1>0 DEF TypeOK
<1>9. Cardinality(Work(s))' - Cardinality(Work(s))
        = semReady'[s] - semReady[s] + Token(s)' - Token(s)
          + Cardinality(Owing(s))' - Cardinality(Owing(s))
  BY <1>4, <1>5, <1>6, <1>8, FiniteWork
<1> QED BY <1>4, <1>5, <1>7, <1>9, Settles

(* A coroutine is queued, or taken, in the step that changes the tokens by  *)
(* as many.                                                                 *)
LEMMA TokenStep == OwnInv /\ TokensMatchWork /\ [Next]_vars => TokensMatchWork'
<1> SUFFICES ASSUME OwnInv, TokensMatchWork, [Next]_vars PROVE TokensMatchWork'
  OBVIOUS
<1>0. TypeInv /\ StackInv /\ ExactlyOnePlace /\ TypeInv'
  BY IInvStep DEF OwnInv, IInv
<1>a. TypeOK /\ PcTyping /\ TypeOK'
  BY <1>0 DEF TypeInv
<1>b. SelfInv /\ LocalsInv
  BY DEF OwnInv, SelfInv
<1>c. pc' \in [Thread -> Pc]
  BY <1>a DEF TypeOK
<1> USE ThreadSets, NotBoth, ConstantsAssumption DEF Goto, queueVars, coVars,
    threadVars, BufferPc
<1>1. ASSUME NEW t \in Thread, ApplyStep(t) PROVE TokensMatchWork'
  <2>1. CASE \E s \in Sched : apply_impl(t, s)
    <3>1. PICK s \in Sched : apply_impl(t, s)
      BY <2>1
    <3>2. /\ pc[t] = "apply" /\ pc' = [pc EXCEPT ![t] = "tryLock"] /\ bag[t] = {}
          /\ UNCHANGED <<ready, buffer, bag, semReady>>
          /\ \A u \in Thread : u # t => target'[u] = target[u]
      BY <1>a, <1>b, <3>1 DEF apply_impl, LocalsInv, BagPc, TypeOK
    <3> QED BY <1>a, <1>c, <3>2, Still DEF TypeOK, OwingPc
  <2>2. CASE try_lock(t)
    <3>1. CASE Acquire(t, target[t], "tryLock", "push")
      BY <1>a, <1>b, <1>c, <2>2, <3>1, Still, SMTT(30) DEF try_lock, Acquire, TypeOK,
          LocalsInv, BagPc, OwingPc
    <3>2. CASE Goto(t, "tryLock", "lazy")
      BY <1>a, <1>b, <1>c, <2>2, <3>2, Still DEF try_lock, Acquire, TypeOK, LocalsInv,
          BagPc, OwingPc
    <3> QED BY <2>2, <3>1, <3>2 DEF try_lock, Acquire
  <2>3. CASE push_to_ready(t)
    <3>1. PICK v \in Sched : v = target[t] /\ push_to_ready(t)
      BY <1>a, <2>3 DEF push_to_ready, PcTyping, ApplyPc
    <3>2. HasArg(t) /\ bag[t] = {}
      BY <1>b, <3>1 DEF push_to_ready, HasArg, LocalsInv, BagPc
    <3>0. bag' = bag /\ \A u \in Thread, s \in Sched : u # t => Carries(u, s)' = Carries(u, s)
      BY <1>a, <3>1 DEF push_to_ready, Carries, TypeOK
    <3>4. \A s \in Sched : InTransit(s)' = InTransit(s)
      BY <3>0, <3>2, TransitFrame
    <3>5. \A s \in Sched : s # v => Work(s)' = Work(s)
      BY <3>1, <3>4 DEF push_to_ready, Work
    <3>6. Work(v)' = Work(v) \cup {arg[t]}
      BY <1>a, <3>1, <3>4 DEF push_to_ready, Work, TypeOK
    <3>7. arg[t] \notin Work(v)
      BY <1>0, <3>2, Apart, Transit DEF Work
    <3>8. /\ \A s \in Sched : s # v => Owing(s)' = Owing(s)
          /\ Owing(v)' = Owing(v) \cup {t} /\ t \notin Owing(v)
      BY <1>a, <3>1 DEF push_to_ready, Owing, TypeOK
    <3>9. UNCHANGED semReady /\ \A s \in Sched : HoldsToken(s)' = HoldsToken(s)
      BY <1>a, <3>1 DEF push_to_ready, HoldsToken, TypeOK
    <3> QED BY <1>0, <3>5, <3>6, <3>7, <3>8, <3>9, Handed
  <2>4. CASE apply_ready_lazy(t)
    <3>1. CASE Goto(t, "lazy", "signal")
      <4>1. PICK v \in Sched : /\ v = target[t]
                               /\ Goto(t, "lazy", "signal")
                               /\ buffer' = [buffer EXCEPT ![v] = @ \cup {arg[t]}]
                               /\ UNCHANGED <<ready, bag, semReady, target>>
        BY <1>a, <2>4, <3>1 DEF apply_ready_lazy, PcTyping, ApplyPc, TypeOK
      <4>2. HasArg(t) /\ bag[t] = {}
        BY <1>b, <4>1 DEF HasArg, LocalsInv, BagPc
      <4>3. \A u \in Thread, s \in Sched : u # t => Carries(u, s)' = Carries(u, s)
        BY <1>a, <4>1 DEF Carries, TypeOK
      <4>4. \A s \in Sched : InTransit(s)' = InTransit(s)
        BY <4>1, <4>2, <4>3, TransitFrame
      <4>5. \A s \in Sched : s # v => Work(s)' = Work(s)
        BY <4>1, <4>4 DEF Work
      <4>6. Work(v)' = Work(v) \cup {arg[t]}
        BY <1>a, <4>1, <4>4 DEF Work, TypeOK
      <4>7. arg[t] \notin Work(v)
        BY <1>0, <4>2, Apart, Transit DEF Work
      <4>8. /\ \A s \in Sched : s # v => Owing(s)' = Owing(s)
            /\ Owing(v)' = Owing(v) \cup {t} /\ t \notin Owing(v)
        BY <1>a, <4>1 DEF Owing, TypeOK
      <4>9. \A s \in Sched : HoldsToken(s)' = HoldsToken(s)
        BY <1>a, <4>1 DEF HoldsToken, TypeOK
      <4> QED BY <1>0, <4>1, <4>5, <4>6, <4>7, <4>8, <4>9, Handed
    <3>2. CASE Goto(t, "lazy", "drain")
      <4>1. UNCHANGED <<ready, buffer, bag, semReady, target>>
        BY <1>a, <2>4, <3>2 DEF apply_ready_lazy, TypeOK
      <4> QED BY <1>a, <1>0, <3>2, <4>1, Still DEF OwingPc, TypeOK
    <3> QED BY <2>4, <3>1, <3>2 DEF apply_ready_lazy
  <2>5. CASE \E s \in Sched, c \in Co : s = target[t] /\ PopBuffer(t, s, "drain", c)
    <3>1. PICK v \in Sched, c \in Co : v = target[t] /\ PopBuffer(t, v, "drain", c)
      BY <2>5
    <3>2. /\ UNCHANGED <<semReady, target>>
          /\ \A u \in Thread : u # t => pc'[u] = pc[u] /\ bag'[u] = bag[u]
          /\ \A s \in Sched : s # v => ready'[s] = ready[s] /\ buffer'[s] = buffer[s]
      BY <1>a, <3>1 DEF PopBuffer, TypeOK
    <3>3. /\ \A s \in Sched : s # v => ~Carries(t, s) /\ ~Carries(t, s)'
          /\ \A u \in Thread : u # t => Carries(u, v)' = Carries(u, v)
          /\ Carries(t, v) /\ Carries(t, v)'
      BY <1>a, <1>b, <3>1, <3>2 DEF PopBuffer, Carries, TypeOK, LocalsInv
    <3>4. /\ pc'[t] \in OwingPc <=> pc[t] \in OwingPc
          /\ t \in Sched => HoldsToken(t)' = HoldsToken(t)
      BY <1>a, <3>1 DEF PopBuffer, OwingPc, HoldsToken, TypeOK
    <3>5. ready'[v] \cup buffer'[v] \cup (IF Carries(t, v)' THEN bag'[t] ELSE {})
            = ready[v] \cup buffer[v] \cup (IF Carries(t, v) THEN bag[t] ELSE {})
      BY <1>a, <3>1, <3>3 DEF PopBuffer, TypeOK
    <3> QED BY <1>0, <1>a, <3>2, <3>3, <3>4, <3>5, Shift
  <2>6. CASE drain_end(t)
    <3>1. PICK v \in Sched : v = target[t] /\ drain_end(t)
      BY <1>a, <2>6 DEF drain_end, PcTyping, ApplyPc
    <3>2. HasArg(t) /\ Carries(t, v)
      BY <3>1 DEF drain_end, HasArg, Carries
    <3>3. \A u \in Thread, s \in Sched : Carries(u, s)' = Carries(u, s)
      BY <1>a, <3>1 DEF drain_end, Carries, TypeOK
    <3>4. \A u \in Thread : bag'[u] = IF u = t THEN bag[t] \cup {arg[t]} ELSE bag[u]
      BY <1>a, <3>1 DEF drain_end, TypeOK
    <3>5. \A s \in Sched : s # v => ~Carries(t, s)
      BY <3>1 DEF drain_end, Carries
    <3>6. \A s \in Sched : s # v => InTransit(s)' = InTransit(s)
      BY <3>3, <3>4, <3>5, TransitFrame
    <3>7. InTransit(v)' = InTransit(v) \cup {arg[t]}
      BY <3>2, <3>3, <3>4, Transit, TransitNext
    <3>8. /\ \A s \in Sched : s # v => Work(s)' = Work(s)
          /\ Work(v)' = Work(v) \cup {arg[t]}
      BY <3>1, <3>6, <3>7 DEF drain_end, Work
    <3>9. arg[t] \notin Work(v)
      BY <1>0, <3>2, Apart, Transit DEF Work
    <3>10. /\ \A s \in Sched : s # v => Owing(s)' = Owing(s)
           /\ Owing(v)' = Owing(v) \cup {t} /\ t \notin Owing(v)
      BY <1>a, <3>1 DEF drain_end, Owing, TypeOK
    <3>11. UNCHANGED semReady /\ \A s \in Sched : HoldsToken(s)' = HoldsToken(s)
      BY <1>a, <3>1 DEF drain_end, HoldsToken, TypeOK
    <3> QED BY <1>0, <3>8, <3>9, <3>10, <3>11, Handed
  <2>7. CASE overflow_lock(t)
    BY <1>a, <1>b, <1>c, <2>7, Still, SMTT(30) DEF overflow_lock, Acquire, TypeOK,
        LocalsInv, BagPc, OwingPc
  <2>8. CASE overflow_push(t)
    <3>1. PICK v \in Sched : v = target[t] /\ overflow_push(t)
      BY <1>a, <2>8 DEF overflow_push, PcTyping, ApplyPc
    <3>2. /\ UNCHANGED <<semReady, target>>
          /\ \A u \in Thread : u # t => pc'[u] = pc[u] /\ bag'[u] = bag[u]
          /\ \A s \in Sched : s # v => ready'[s] = ready[s] /\ buffer'[s] = buffer[s]
      BY <1>a, <3>1 DEF overflow_push, push_all_to_ready, TypeOK
    <3>3. /\ \A s \in Sched : s # v => ~Carries(t, s) /\ ~Carries(t, s)'
          /\ \A u \in Thread : u # t => Carries(u, v)' = Carries(u, v)
          /\ Carries(t, v)
      BY <1>a, <1>b, <3>1, <3>2 DEF overflow_push, push_all_to_ready, Carries, TypeOK,
          LocalsInv
    <3>4. /\ pc'[t] \in OwingPc <=> pc[t] \in OwingPc
          /\ t \in Sched => HoldsToken(t)' = HoldsToken(t)
      BY <1>a, <3>1 DEF overflow_push, push_all_to_ready, OwingPc, HoldsToken, TypeOK
    <3>5. ready'[v] \cup buffer'[v] \cup (IF Carries(t, v)' THEN bag'[t] ELSE {})
            = ready[v] \cup buffer[v] \cup (IF Carries(t, v) THEN bag[t] ELSE {})
      BY <1>a, <3>1, <3>3 DEF overflow_push, push_all_to_ready, TypeOK
    <3> QED BY <1>0, <1>a, <3>2, <3>3, <3>4, <3>5, Shift
  <2>9. CASE signal(t)
    <3>1. PICK v \in Sched : v = target[t] /\ signal(t)
      BY <1>a, <2>9 DEF signal, PcTyping, ApplyPc
    <3>2. bag[t] = {} /\ pc'[t] \in {"idle", "pick", "dying", "run"} /\ pc[t] = "signal"
      BY <1>a, <1>b, <3>1 DEF signal, Return, LocalsInv, BagPc, TypeOK
    <3>3. \A u \in Thread : u # t => pc'[u] = pc[u] /\ target'[u] = target[u]
      BY <1>a, <3>1 DEF signal, TypeOK
    <3>4. \A u \in Thread, s \in Sched : bag[u] # {} => Carries(u, s)' = Carries(u, s)
      BY <3>2, <3>3 DEF Carries
    <3>5. \A s \in Sched : Work(s)' = Work(s)
      BY <3>1, <3>4, WorkFrame DEF signal
    <3>6. target'[t] = None
      BY <1>a, <3>1 DEF signal, TypeOK
    <3>7. /\ \A s \in Sched : s # v => Owing(s)' = Owing(s)
          /\ Owing(v)' = Owing(v) \ {t} /\ t \in Owing(v)
      BY <3>1, <3>2, <3>3, <3>6 DEF Owing
    <3>8. \A s \in Sched : HoldsToken(s)' = HoldsToken(s)
      BY <3>2, <3>3 DEF HoldsToken
    <3>9. Cardinality(Owing(v))' = Cardinality(Owing(v)) - 1
      BY <1>0, <3>7, FiniteWork, TakeOne
    <3>10. semReady'[v] = semReady[v] + 1 /\ \A s \in Sched : s # v => semReady'[s] = semReady[s]
      BY <1>a, <3>1 DEF signal, TypeOK
    <3>11. Token(v)' = Token(v)
      BY <3>8 DEF Token
    <3>12. Cardinality(Work(v))' - Cardinality(Work(v))
             = semReady'[v] - semReady[v] + Token(v)' - Token(v)
               + Cardinality(Owing(v))' - Cardinality(Owing(v))
      BY <1>0, <1>a, <3>5, <3>9, <3>10, <3>11, FiniteWork DEF Token, TypeOK
    <3> QED BY <1>0, <3>5, <3>7, <3>8, <3>10, <3>12, Settles
  <2> QED BY <1>1, <2>1, <2>2, <2>3, <2>4, <2>5, <2>6, <2>7, <2>8, <2>9 DEF ApplyStep
<1>2. ASSUME NEW t \in Thread, NEW c \in Co, Wake(t, c) PROVE TokensMatchWork'
  BY <1>a, <1>c, <1>2, Still DEF Wake, TypeOK, OwingPc
<1>3. ASSUME NEW s \in Sched, CoStep(s) PROVE TokensMatchWork'
  <2>1. CASE \E c \in Co : Create(s, c)
    <3>1. PICK c \in Co : Create(s, c)
      BY <2>1
    <3> QED BY <1>a, <1>c, <3>1, Still, SMTT(30) DEF Create, TypeOK, OwingPc
  <2>2. CASE WaitOn(s)
    BY <1>a, <1>b, <1>c, <2>2, Still DEF WaitOn, TypeOK, LocalsInv, BagPc, OwingPc
  <2>3. CASE coroutine_sleep(s)
    <3>1. /\ pc[s] = "run"  /\ pc' = [pc EXCEPT ![s] = "pick"]
          /\ UNCHANGED <<ready, buffer, bag, semReady, target>>
      BY <2>3 DEF coroutine_sleep, Goto, queueVars
    <3>2. bag[s] = {} /\ target[s] = target'[s]
      BY <1>b, <1>a, <3>1 DEF LocalsInv, BagPc
    <3> QED BY <1>a, <1>c, <3>1, <3>2, Still DEF TypeOK, OwingPc
  <2>4. CASE coroutine_await(s)
    BY <1>a, <1>b, <1>c, <2>4, Still DEF coroutine_await, TypeOK, LocalsInv, BagPc, OwingPc
  <2>5. CASE coroutine_yield(s)
    BY <1>a, <1>b, <1>c, <2>5, Still DEF coroutine_yield, TypeOK, LocalsInv, BagPc, OwingPc
  <2>6. CASE coroutine_dead(s)
    BY <1>a, <1>b, <1>c, <2>6, Still DEF coroutine_dead, TypeOK, LocalsInv, BagPc, OwingPc
  <2> QED BY <1>3, <2>1, <2>2, <2>3, <2>4, <2>5, <2>6 DEF CoStep
<1>4. ASSUME NEW s \in Sched, PickStep(s) PROVE TokensMatchWork'
  <2>1. CASE pick_try_wait(s)
    <3>1. CASE Goto(s, "pick", "checkBuf")
      <4>1. /\ bag[s] = {} /\ semReady' = [semReady EXCEPT ![s] = @ - 1]
            /\ UNCHANGED <<ready, buffer, bag, target>>
        BY <1>a, <1>b, <2>1, <3>1 DEF pick_try_wait, LocalsInv, BagPc, TypeOK
      <4> QED BY <1>0, <3>1, <4>1, TakesToken
    <3>2. CASE Goto(s, "pick", "steal")
      <4>1. bag[s] = {} /\ UNCHANGED <<ready, buffer, bag, semReady, target>>
        BY <1>a, <1>b, <2>1, <3>2 DEF pick_try_wait, LocalsInv, BagPc, TypeOK
      <4> QED BY <1>0, <1>a, <1>c, <3>2, <4>1, Still DEF OwingPc, TypeOK
    <3> QED BY <2>1, <3>1, <3>2 DEF pick_try_wait
  <2>2. CASE steal_look(s)
    <3>1. CASE UNCHANGED pc
      BY <1>a, <1>b, <1>c, <2>2, <3>1, Still DEF steal_look, NextVictim, TypeOK,
          LocalsInv, BagPc, OwingPc
    <3>2. CASE Goto(s, "steal", "stealLock")
      BY <1>a, <1>b, <1>c, <2>2, <3>2, Still DEF steal_look, NextVictim, TypeOK,
          LocalsInv, BagPc, OwingPc
    <3> QED BY <2>2, <3>1, <3>2 DEF steal_look, NextVictim
  <2>3. CASE steal_lock(s)
    BY <1>a, <1>b, <1>c, <2>3, Still, SMTT(30) DEF steal_lock, Acquire, TypeOK,
        LocalsInv, BagPc, OwingPc
  <2>4. CASE \E c \in Co : steal_one(s, c)
    <3>1. PICK v \in Sched, c \in Co : v = victim[s] /\ steal_one(s, c)
      BY <1>a, <2>4 DEF steal_one, PcTyping
    <3>2. /\ v # s /\ c \in ready[v] /\ semReady[v] > 0 /\ pc' = pc /\ target' = target
          /\ \A u \in Sched : u # v => ready'[u] = ready[u] /\ semReady'[u] = semReady[u]
          /\ buffer' = buffer /\ ready'[v] = ready[v] \ {c} /\ semReady'[v] = semReady[v] - 1
          /\ \A u \in Thread : u # s => bag'[u] = bag[u]
      BY <1>a, <3>1 DEF steal_one, PcTyping, TypeOK
    <3>3. \A u \in Sched : ~Carries(s, u)
      BY <1>b, <3>1 DEF steal_one, Carries, LocalsInv, ApplyPc, None, Sched
    <3>4. \A u \in Thread, w \in Sched : Carries(u, w)' = Carries(u, w)
      BY <3>2 DEF Carries
    <3>5. \A u \in Sched : InTransit(u)' = InTransit(u)
      BY <3>2, <3>3, <3>4, TransitFrame
    <3>6. c \notin buffer[v] /\ c \notin InTransit(v)
      BY <1>0, <3>2, Apart, Transit
    <3>7. Work(v)' = Work(v) \ {c} /\ c \in Work(v) /\ \A u \in Sched : u # v => Work(u)' = Work(u)
      BY <3>2, <3>5, <3>6 DEF Work
    <3>8. \A u \in Sched : Owing(u)' = Owing(u) /\ HoldsToken(u)' = HoldsToken(u) /\ Token(u)' = Token(u)
      BY <3>2 DEF Owing, HoldsToken, Token
    <3>9. Cardinality(Work(v))' = Cardinality(Work(v)) - 1
      BY <1>0, <3>7, FiniteWork, TakeOne
    <3>10. Cardinality(Work(v))' - Cardinality(Work(v))
             = semReady'[v] - semReady[v] + Token(v)' - Token(v)
               + Cardinality(Owing(v))' - Cardinality(Owing(v))
      BY <1>0, <1>a, <3>2, <3>8, <3>9, FiniteWork DEF Token, TypeOK
    <3> QED BY <1>0, <3>2, <3>7, <3>8, <3>10, Settles
  <2>5. CASE steal_unlock(s)
    BY <1>a, <1>b, <1>c, <2>5, Still DEF steal_unlock, NextVictim, TypeOK, LocalsInv,
        BagPc, OwingPc
  <2>6. CASE steal_end(s)
    <3>1. CASE Goto(s, "steal", "try2")
      BY <1>a, <1>b, <1>c, <2>6, <3>1, Still DEF steal_end, get_ready_to_push, SetAll,
          TypeOK, LocalsInv, BagPc, OwingPc
    <3>2. CASE Goto(s, "steal", "stLock")
      BY <1>a, <1>b, <1>c, <2>6, <3>2, Still DEF steal_end, get_ready_to_push, SetAll,
          TypeOK, LocalsInv, BagPc, OwingPc
    <3> QED BY <2>6, <3>1, <3>2 DEF steal_end, get_ready_to_push, SetAll
  <2>7. CASE loot_lock(s)
    BY <1>a, <1>b, <1>c, <2>7, Still, SMTT(30) DEF loot_lock, Acquire, TypeOK,
        LocalsInv, BagPc, OwingPc
  <2>8. CASE loot_push(s)
    <3>1. /\ \A u \in Sched : u # s => ready'[u] = ready[u] /\ semReady'[u] = semReady[u]
          /\ ready'[s] = ready[s] \cup bag[s] /\ semReady'[s] = semReady[s] + Cardinality(bag[s])
          /\ bag' = [bag EXCEPT ![s] = {}] /\ UNCHANGED <<buffer, target>>
          /\ pc[s] = "stPush" /\ pc' = [pc EXCEPT ![s] = "try2"]
      BY <1>a, <2>8 DEF loot_push, push_all_to_ready, TypeOK
    <3>2. \A u \in Sched : ~Carries(s, u) /\ ~Carries(s, u)'
      <4>1. target[s] = None /\ target'[s] = None /\ pc'[s] = "try2"
        BY <1>a, <1>b, <3>1 DEF LocalsInv, ApplyPc, TypeOK
      <4> QED BY <3>1, <4>1 DEF Carries
    <3>3. \A u \in Thread : u # s => bag'[u] = bag[u] /\ \A w \in Sched : Carries(u, w)' = Carries(u, w)
      BY <1>a, <3>1 DEF Carries, TypeOK
    <3>4. \A u \in Sched : InTransit(u)' = InTransit(u)
      BY <3>2, <3>3, TransitFrame
    <3>5. Work(s)' = Work(s) \cup bag[s] /\ \A u \in Sched : u # s => Work(u)' = Work(u)
      BY <3>1, <3>4 DEF Work
    <3>6. bag[s] \cap Work(s) = {}
      BY <1>0, <3>2, Apart, Transit DEF Work
    <3>7. \A u \in Sched : Owing(u)' = Owing(u) /\ HoldsToken(u)' = HoldsToken(u) /\ Token(u)' = Token(u)
      BY <1>a, <3>1 DEF Owing, HoldsToken, Token, TypeOK
    <3>8. IsFiniteSet(bag[s]) /\ Cardinality(bag[s]) \in Nat
      BY <1>0, FiniteParts
    <3>9. Cardinality(Work(s))' = Cardinality(Work(s)) + Cardinality(bag[s])
      BY <1>0, <3>5, <3>6, <3>8, FiniteWork, AddAll
    <3>10. Cardinality(Work(s))' - Cardinality(Work(s))
             = semReady'[s] - semReady[s] + Token(s)' - Token(s)
               + Cardinality(Owing(s))' - Cardinality(Owing(s))
      BY <1>0, <1>a, <3>1, <3>7, <3>8, <3>9, FiniteWork DEF Token, TypeOK
    <3> QED BY <1>0, <3>1, <3>5, <3>7, <3>10, Settles
  <2>9. CASE second_try_wait(s)
    <3>1. CASE Goto(s, "try2", "endSteal")
      <4>1. /\ bag[s] = {} /\ semReady' = [semReady EXCEPT ![s] = @ - 1]
            /\ UNCHANGED <<ready, buffer, bag, target>>
        BY <1>a, <1>b, <2>9, <3>1 DEF second_try_wait, LocalsInv, BagPc, TypeOK
      <4> QED BY <1>0, <3>1, <4>1, TakesToken
    <3>2. CASE Goto(s, "try2", "block")
      <4>1. bag[s] = {} /\ UNCHANGED <<ready, buffer, bag, semReady, target>>
        BY <1>a, <1>b, <2>9, <3>2 DEF second_try_wait, LocalsInv, BagPc, TypeOK
      <4> QED BY <1>0, <1>a, <1>c, <3>2, <4>1, Still DEF OwingPc, TypeOK
    <3> QED BY <2>9, <3>1, <3>2 DEF second_try_wait
  <2>10. CASE sem_wait(s)
    <3>1. /\ pc[s] = "block" /\ pc' = [pc EXCEPT ![s] = "checkBuf"] /\ bag[s] = {}
          /\ semReady' = [semReady EXCEPT ![s] = @ - 1]
          /\ UNCHANGED <<ready, buffer, bag, target>>
      BY <1>a, <1>b, <2>10 DEF sem_wait, LocalsInv, BagPc, TypeOK
    <3> QED BY <1>0, <3>1, TakesToken
  <2>11. CASE check_ready_count(s)
    <3>1. CASE Goto(s, "checkBuf", "pullLock")
      BY <1>a, <1>b, <1>c, <2>11, <3>1, Still DEF check_ready_count, TypeOK, LocalsInv,
          BagPc, OwingPc
    <3>2. CASE Goto(s, "checkBuf", "pull")
      BY <1>a, <1>b, <1>c, <2>11, <3>2, Still DEF check_ready_count, TypeOK, LocalsInv,
          BagPc, OwingPc
    <3>3. CASE Goto(s, "pull", "pullPop")
      BY <1>a, <1>b, <1>c, <2>11, <3>3, Still DEF check_ready_count, TypeOK, LocalsInv,
          BagPc, OwingPc
    <3>4. CASE Goto(s, "pull", "end")
      BY <1>a, <1>b, <1>c, <2>11, <3>4, Still DEF check_ready_count, TypeOK, LocalsInv,
          BagPc, OwingPc
    <3> QED BY <2>11, <3>1, <3>2, <3>3, <3>4 DEF check_ready_count
  <2>12. CASE recheck_lock(s)
    BY <1>a, <1>b, <1>c, <2>12, Still DEF recheck_lock, Acquire, TypeOK, LocalsInv,
        BagPc, OwingPc
  <2>13. CASE recheck(s)
    <3>1. CASE Goto(s, "pullTest", "end")
      BY <1>a, <1>b, <1>c, <2>13, <3>1, Still DEF recheck, TypeOK, LocalsInv, BagPc, OwingPc
    <3>2. CASE Goto(s, "pullTest", "pull")
      BY <1>a, <1>b, <1>c, <2>13, <3>2, Still DEF recheck, TypeOK, LocalsInv, BagPc, OwingPc
    <3> QED BY <2>13, <3>1, <3>2 DEF recheck
  <2>14. CASE \E c \in Co : PopBuffer(s, s, "pullPop", c)
    <3>1. PICK v \in Sched, c \in Co : v = s /\ PopBuffer(s, v, "pullPop", c)
      BY <2>14
    <3>a. target[s] = None /\ target' = target
      BY <1>b, <3>1 DEF PopBuffer, LocalsInv, ApplyPc
    <3>2. /\ UNCHANGED <<semReady, target>>
          /\ \A u \in Thread : u # s => pc'[u] = pc[u] /\ bag'[u] = bag[u]
          /\ \A w \in Sched : w # v => ready'[w] = ready[w] /\ buffer'[w] = buffer[w]
      BY <1>a, <3>1 DEF PopBuffer, TypeOK
    <3>3. /\ \A w \in Sched : w # v => ~Carries(s, w) /\ ~Carries(s, w)'
          /\ \A u \in Thread : u # s => Carries(u, v)' = Carries(u, v)
          /\ Carries(s, v) /\ Carries(s, v)'
      BY <1>a, <3>a, <3>1, <3>2 DEF PopBuffer, Carries, TypeOK
    <3>4. /\ pc'[s] \in OwingPc <=> pc[s] \in OwingPc
          /\ s \in Sched => HoldsToken(s)' = HoldsToken(s)
      BY <1>a, <3>1 DEF PopBuffer, OwingPc, HoldsToken, TypeOK
    <3>5. ready'[v] \cup buffer'[v] \cup (IF Carries(s, v)' THEN bag'[s] ELSE {})
            = ready[v] \cup buffer[v] \cup (IF Carries(s, v) THEN bag[s] ELSE {})
      BY <1>a, <3>1, <3>3 DEF PopBuffer, TypeOK
    <3> QED BY <1>0, <1>a, <3>2, <3>3, <3>4, <3>5, Shift
  <2>15. CASE pull_end(s)
    <3>1. CASE Goto(s, "pullPop", "pull")
      BY <1>a, <1>b, <1>c, <2>15, <3>1, Still DEF pull_end, get_ready_to_push, SetAll,
          TypeOK, LocalsInv, BagPc, OwingPc
    <3>2. CASE Goto(s, "pullPop", "pbLock")
      BY <1>a, <1>b, <1>c, <2>15, <3>2, Still DEF pull_end, get_ready_to_push, SetAll,
          TypeOK, LocalsInv, BagPc, OwingPc
    <3> QED BY <2>15, <3>1, <3>2 DEF pull_end, get_ready_to_push, SetAll
  <2>16. CASE buffer_lock(s)
    BY <1>a, <1>b, <1>c, <2>16, Still DEF buffer_lock, Acquire, TypeOK, LocalsInv,
        BagPc, OwingPc
  <2>17. CASE buffer_push(s)
    <3>1. PICK v \in Sched : v = s /\ buffer_push(s)
      BY <2>17
    <3>a. target[s] = None /\ target' = target
      BY <1>b, <3>1 DEF buffer_push, LocalsInv, ApplyPc
    <3>2. /\ UNCHANGED <<semReady, target>>
          /\ \A u \in Thread : u # s => pc'[u] = pc[u] /\ bag'[u] = bag[u]
          /\ \A w \in Sched : w # v => ready'[w] = ready[w] /\ buffer'[w] = buffer[w]
      BY <1>a, <3>1 DEF buffer_push, push_all_to_ready, TypeOK
    <3>3. /\ \A w \in Sched : w # v => ~Carries(s, w) /\ ~Carries(s, w)'
          /\ \A u \in Thread : u # s => Carries(u, v)' = Carries(u, v)
          /\ Carries(s, v)
      BY <1>a, <3>a, <3>1, <3>2 DEF buffer_push, push_all_to_ready, Carries, TypeOK
    <3>4. /\ pc'[s] \in OwingPc <=> pc[s] \in OwingPc
          /\ s \in Sched => HoldsToken(s)' = HoldsToken(s)
      BY <1>a, <3>1 DEF buffer_push, push_all_to_ready, OwingPc, HoldsToken, TypeOK
    <3>5. ready'[v] \cup buffer'[v] \cup (IF Carries(s, v)' THEN bag'[s] ELSE {})
            = ready[v] \cup buffer[v] \cup (IF Carries(s, v) THEN bag[s] ELSE {})
      BY <1>a, <3>1, <3>3 DEF buffer_push, push_all_to_ready, TypeOK
    <3> QED BY <1>0, <1>a, <3>2, <3>3, <3>4, <3>5, Shift
  <2>18. CASE end_lock(s)
    BY <1>a, <1>b, <1>c, <2>18, Still, SMTT(30) DEF end_lock, Acquire, TypeOK,
        LocalsInv, BagPc, OwingPc
  <2>19. CASE pickup_assert(s)
    BY <1>a, <1>b, <1>c, <2>19, Still DEF pickup_assert, TypeOK, LocalsInv, BagPc, OwingPc
  <2>20. CASE \E c \in Co : pickup_pop(s, c)
    <3>1. PICK c \in Co : pickup_pop(s, c)
      BY <2>20
    <3>2. /\ \A u \in Sched : u # s => ready'[u] = ready[u]
          /\ ready'[s] = ready[s] \ {c} /\ c \in ready[s] /\ UNCHANGED <<semReady, buffer, bag, target>>
          /\ pc[s] \in {"end", "endSteal"} /\ pc' = [pc EXCEPT ![s] = "start"] /\ bag[s] = {}
      BY <1>a, <1>b, <3>1 DEF pickup_pop, LocalsInv, BagPc, TypeOK
    <3>3. \A u \in Thread : u # s => \A w \in Sched : Carries(u, w)' = Carries(u, w)
      BY <1>a, <3>2 DEF Carries, TypeOK
    <3>4. \A u \in Sched : InTransit(u)' = InTransit(u)
      BY <3>2, <3>3, TransitFrame
    <3>5. c \notin buffer[s] /\ c \notin InTransit(s)
      BY <1>0, <3>2, Apart, Transit
    <3>6. Work(s)' = Work(s) \ {c} /\ c \in Work(s) /\ \A u \in Sched : u # s => Work(u)' = Work(u)
      BY <3>2, <3>4, <3>5 DEF Work
    <3>7. /\ \A u \in Sched : Owing(u)' = Owing(u) /\ (u # s => HoldsToken(u)' = HoldsToken(u))
          /\ Token(s) = 1 /\ Token(s)' = 0
      BY <1>a, <3>2 DEF Owing, HoldsToken, Token, TypeOK
    <3>8. Cardinality(Work(s))' = Cardinality(Work(s)) - 1
      BY <1>0, <3>6, FiniteWork, TakeOne
    <3>9. Cardinality(Work(s))' - Cardinality(Work(s))
             = semReady'[s] - semReady[s] + Token(s)' - Token(s)
               + Cardinality(Owing(s))' - Cardinality(Owing(s))
      BY <1>0, <1>a, <3>2, <3>7, <3>8, FiniteWork DEF TypeOK
    <3> QED BY <1>0, <3>2, <3>6, <3>7, <3>9, Settles
  <2>21. CASE run(s)
    BY <1>a, <1>b, <1>c, <2>21, Still DEF run, TypeOK, LocalsInv, BagPc, OwingPc
  <2>22. CASE process_co_exec_end(s)
    BY <1>a, <1>b, <1>c, <2>22, Still DEF process_co_exec_end, TypeOK, LocalsInv, BagPc,
        OwingPc
  <2>23. CASE dead_end(s)
    BY <1>a, <1>b, <1>c, <2>23, Still DEF dead_end, TypeOK, LocalsInv, BagPc, OwingPc
  <2> QED BY <1>4, <2>1, <2>2, <2>3, <2>4, <2>5, <2>6, <2>7, <2>8, <2>9, <2>10, <2>11,
      <2>12, <2>13, <2>14, <2>15, <2>16, <2>17, <2>18, <2>19, <2>20, <2>21, <2>22, <2>23
      DEF PickStep
<1>5. CASE UNCHANGED vars
  <2>1. \A s \in Sched : Work(s)' = Work(s) /\ Owing(s)' = Owing(s) /\ HoldsToken(s)' = HoldsToken(s)
    BY <1>5 DEF vars, Work, InTransit, Carries, Owing, HoldsToken
  <2> QED BY <1>5, <2>1, Level DEF vars
<1> QED BY <1>1, <1>2, <1>3, <1>4, <1>5 DEF Next

(* Initially there are no tokens and no work.                               *)
LEMMA InitTokens == Init => TokensMatchWork
<1> SUFFICES ASSUME Init, NEW s \in Sched
             PROVE  Cardinality(Work(s)) = semReady[s] + Cardinality(Owing(s)) + Token(s)
  BY DEF TokensMatchWork, Work, Token
<1>1. Work(s) = {}
  BY Transit, ThreadSets DEF Init, Work
<1>2. Owing(s) = {}
  BY DEF Init, Owing
<1>3. Token(s) = 0 /\ semReady[s] = 0
  BY ThreadSets DEF Init, Token, HoldsToken, BufferPc
<1> QED BY <1>1, <1>2, <1>3, FS_EmptySet

(* sem_ready never drifts from the work: however schedulers overflow,       *)
(* steal, give up and sleep, the tokens, those held and those pending are   *)
(* as many as the coroutines queued.                                        *)
THEOREM TokensAccounted == Spec => []TokensMatchWork
<1>1. OwnInv /\ TokensMatchWork /\ [Next]_vars => TokensMatchWork'
  BY TokenStep
<1> QED BY <1>1, InitTokens, OwnInvariance, PTL DEF Spec
=============================================================================
