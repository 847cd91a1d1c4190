---------------------------- MODULE LifecycleProofs ----------------------------
(***************************************************************************)
(* A coroutine that is awaited before its handle is destroyed is freed at  *)
(* rest, is always in one place, and is joined: an await returns after the *)
(* end of its callee.                                                      *)
(***************************************************************************)
EXTENDS Lifecycle, FiniteSetTheorems, TLAPS

AwaitPc == {"lock", "await", "register", "releaseCaller", "releaseCallee", "returned"}
HoldPc  == {"await", "register", "releaseCaller", "releaseCallee"}
DyingPc == {"wakeup", "freeStack", "finish"}
FreePc  == {"waitLock", "check"}

(* status_lock is held by an await of the callee, from await_impl to the    *)
(* end of its callback, and by a coroutine's own callback.                  *)
LockSays ==
  \A c, d \in Co : status_lock[d] = c <=>
     \/ handle[c] = d /\ pc[c] \in HoldPc
     \/ c = d /\ pc[c] \in {"register", "releaseCaller"} \cup DyingPc

(* A coroutine has a handle in a call and while it waits, and what it holds *)
(* the lock of lives.                                                       *)
HandleSays ==
  /\ \A c \in Co : handle[c] # None => handle[c] \in alive
  /\ \A c \in Co : pc[c] \in AwaitPc \cup FreePc => handle[c] # None
  /\ \A c \in Co : handle[c] # None => pc[c] \in AwaitPc \cup FreePc \cup {"none"}
  /\ \A c \in Co : pc[c] \in HoldPc => status[handle[c]] # "DEAD"
  /\ \A c \in Co : pc[c] \in HoldPc \ {"await"} => handle[c] # c

(* A coroutine registers once, with the callee whose handle it has; when it *)
(* is no longer registered the callee is dead.                              *)
AwaitSays ==
  /\ \A c, d \in Co : c \in await_caller[d] =>
        handle[c] = d /\ pc[c] \in {"releaseCaller", "releaseCallee", "none"}
  /\ \A c \in Co : pc[c] \in {"releaseCaller", "releaseCallee"} => c \in await_caller[handle[c]]
  /\ \A c \in Co : handle[c] # None /\ pc[c] \in {"none", "returned"}
        => \/ pc[c] = "none" /\ c \in await_caller[handle[c]]
           \/ status[handle[c]] = "DEAD"

(* Who destroys a handle is the only one to have it, and has awaited it.    *)
FreeSays ==
  /\ \A c, e \in Co : pc[c] \in FreePc /\ handle[e] = handle[c] => e = c
  /\ \A c \in Co : pc[c] \in FreePc => owner[handle[c]] = c /\ handle[c] \in joined
  /\ \A c \in Co : pc[c] = "check" => Unlocked(handle[c])

(* Nobody but its owner awaits the coroutine of a co::await.                *)
FrameSays ==
  \A d \in alive : invoker[d] = "frame" =>
     /\ owner[d] \in Co /\ handle[owner[d]] = d
     /\ \A e \in Co : handle[e] = d => e = owner[d]

(* What a coroutine with status DEAD may still do, and what has been done.  *)
DeadSays ==
  /\ \A d \in Co : pc[d] \in DyingPc => status[d] = "DEAD"
  /\ \A d \in alive : status[d] = "DEAD" => pc[d] \in DyingPc \cup {"none"} /\ handle[d] = None
  /\ \A d \in alive : status[d] = "DEAD" \/ pc[d] = "dead" => d \in written
  /\ \A d \in joined : d \in alive /\ status[d] = "DEAD"
  /\ \A d \in alive : status[d] = "DEAD" /\ pc[d] # "wakeup" => await_caller[d] = {}

(* The places of OnePlace, one by one.                                      *)
OnThread(c) == pc[c] \notin {"none", "releaseCaller", "releaseCallee"}
Queued(c)   == c \in buffer \/ c \in ready \/ c \in timer
Applied(c)  == \E d \in Co : applying[d] = c
Waits(c)    == \E d \in Co : c \in await_caller[d]

(* A coroutine that is not created is nowhere.                              *)
GoneSays ==
  \A c \in Co : c \notin alive => pc[c] = "none" /\ handle[c] = None /\ await_caller[c] = {}

(* No coroutine is in two places, and a dead one in none.                   *)
PlaceSays ==
  /\ \A c \in Co : OnThread(c) \/ c \notin alive \/ status[c] = "DEAD"
        => ~Queued(c) /\ ~Applied(c) /\ ~Waits(c)
  /\ \A c \in buffer : c \notin ready /\ c \notin timer
  /\ \A c \in ready : c \notin timer
  /\ \A c \in Co : Applied(c) => ~Queued(c) /\ ~Waits(c)
  /\ \A c \in Co : Waits(c) => ~Queued(c)
  /\ \A c, d \in Co : applying[c] = applying[d] => c = d \/ applying[c] = None

(* A coroutine that lives is somewhere.                                     *)
KeptSays ==
  \A c \in alive : OnThread(c) \/ Queued(c) \/ Applied(c) \/ Waits(c)
                   \/ Resting(c) \/ c \in sleep_zero

LifeInv == /\ TypeOK /\ LockSays /\ HandleSays /\ AwaitSays /\ FreeSays /\ FrameSays
           /\ DeadSays /\ GoneSays /\ PlaceSays /\ KeptSays
           /\ thrown = None

-----------------------------------------------------------------------------
(* The types.                                                               *)
LEMMA TypeStep ==
  ASSUME TypeOK, HandleSays, [Next]_vars
  PROVE  TypeOK'
<1>1. ASSUME NEW c \in Co, apply_end(c) PROVE TypeOK'
  BY <1>1, LifecycleAssumption DEF TypeOK, Pc, Status, apply_end, get_ready_to_push,
     Unlocked, objectVars, userVars, queueVars
<1>2. ASSUME NEW c \in Co, apply_ready_all(c) PROVE TypeOK'
  BY <1>2, LifecycleAssumption DEF TypeOK, Pc, Status, apply_ready_all, get_ready_to_push,
     Unlocked, objectVars, userVars, queueVars
<1>3. ASSUME NEW c \in Co, run(c) PROVE TypeOK'
  BY <1>3, LifecycleAssumption DEF TypeOK, Pc, Status, run, objectVars, userVars,
     queueVars
<1>4. ASSUME NEW c \in Co, NEW d \in Co, NEW b \in BOOLEAN, construct(c, d, b) PROVE TypeOK'
  BY <1>4, LifecycleAssumption DEF TypeOK, Pc, Status, construct, Goto, apply, CountOp,
     objectVars, userVars, queueVars
<1>5. ASSUME NEW c \in Co, NEW d \in Co, await_call(c, d) PROVE TypeOK'
  BY <1>5, LifecycleAssumption DEF TypeOK, Pc, Status, await_call, Goto, CountOp,
     objectVars, userVars, queueVars
<1>6. ASSUME NEW c \in Co, await_impl(c) PROVE TypeOK'
  BY <1>6, LifecycleAssumption DEF TypeOK, Pc, Status, await_impl, Goto, lock, Unlocked,
     objectVars, userVars, queueVars
<1>7. ASSUME NEW c \in Co, await_interrupt(c) PROVE TypeOK'
  BY <1>7, LifecycleAssumption DEF TypeOK, Pc, Status, await_interrupt, interrupt, Goto,
     lock, Unlocked, objectVars, userVars, queueVars
<1>8. ASSUME NEW c \in Co, register(c) PROVE TypeOK'
  BY <1>8, LifecycleAssumption DEF TypeOK, Pc, Status, register, Goto, objectVars,
     userVars, queueVars
<1>9. ASSUME NEW c \in Co, release_caller(c) PROVE TypeOK'
  BY <1>9, LifecycleAssumption DEF TypeOK, Pc, Status, release_caller, Goto, unlock,
     objectVars, userVars, queueVars
<1>10. ASSUME NEW c \in Co, release_callee(c) PROVE TypeOK'
  BY <1>10, LifecycleAssumption DEF TypeOK, Pc, Status, release_callee, Goto, unlock,
     objectVars, userVars, queueVars
<1>11. ASSUME NEW c \in Co, await_return(c) PROVE TypeOK'
  BY <1>11, LifecycleAssumption DEF TypeOK, Pc, Status, HandleSays, AwaitPc, HoldPc,
     FreePc, await_return, Goto, objectVars, userVars, queueVars
<1>12. ASSUME NEW c \in Co, yield(c) PROVE TypeOK'
  BY <1>12, LifecycleAssumption DEF TypeOK, Pc, Status, yield, Goto, CountOp, objectVars,
     userVars, queueVars
<1>13. ASSUME NEW c \in Co, yield_interrupt(c) PROVE TypeOK'
  BY <1>13, LifecycleAssumption DEF TypeOK, Pc, Status, yield_interrupt, Goto, Unlocked,
     objectVars, userVars, queueVars
<1>14. ASSUME NEW c \in Co, yield_apply(c) PROVE TypeOK'
  BY <1>14, LifecycleAssumption DEF TypeOK, Pc, Status, yield_apply, Goto, apply,
     objectVars, userVars, queueVars
<1>15. ASSUME NEW c \in Co, NEW z \in {FALSE, ZeroSleep}, sleep(c, z) PROVE TypeOK'
  BY <1>15, LifecycleAssumption DEF TypeOK, Pc, Status, sleep, Goto, CountOp, objectVars,
     userVars, queueVars
<1>16. ASSUME NEW c \in Co, sleep_interrupt(c) PROVE TypeOK'
  BY <1>16, LifecycleAssumption DEF TypeOK, Pc, Status, sleep_interrupt, Goto, Unlocked,
     objectVars, userVars, queueVars
<1>17. ASSUME NEW c \in Co, add_task(c) PROVE TypeOK'
  BY <1>17, LifecycleAssumption DEF TypeOK, Pc, Status, add_task, Goto, objectVars,
     userVars, queueVars
<1>18. ASSUME NEW c \in Co, timeout(c) PROVE TypeOK'
  BY <1>18, LifecycleAssumption DEF TypeOK, Pc, Status, timeout, objectVars, userVars,
     queueVars
<1>19. ASSUME NEW c \in Co, invoker_wrapper(c) PROVE TypeOK'
  BY <1>19, LifecycleAssumption DEF TypeOK, Pc, Status, invoker_wrapper, Goto, objectVars,
     userVars, queueVars
<1>20. ASSUME NEW c \in Co, dead_interrupt(c) PROVE TypeOK'
  BY <1>20, LifecycleAssumption DEF TypeOK, Pc, Status, dead_interrupt, interrupt, Goto,
     lock, Unlocked, objectVars, userVars, queueVars
<1>21. ASSUME NEW c \in Co, wakeup_await_co_all(c) PROVE TypeOK'
  BY <1>21, LifecycleAssumption DEF TypeOK, Pc, Status, wakeup_await_co_all, Goto, apply,
     objectVars, userVars, queueVars
<1>22. ASSUME NEW c \in Co, free_stk(c) PROVE TypeOK'
  BY <1>22, LifecycleAssumption DEF TypeOK, Pc, Status, free_stk, Goto, objectVars,
     userVars, queueVars
<1>23. ASSUME NEW c \in Co, dead_finish(c) PROVE TypeOK'
  BY <1>23, LifecycleAssumption DEF TypeOK, Pc, Status, dead_finish, Goto, unlock,
     objectVars, userVars, queueVars
<1>24. ASSUME NEW c \in Co, NEW d \in Co, destroy_call(c, d) PROVE TypeOK'
  BY <1>24, LifecycleAssumption DEF TypeOK, Pc, Status, destroy_call, Goto, objectVars,
     userVars, queueVars
<1>25. ASSUME NEW c \in Co, wait_until_lockable(c) PROVE TypeOK'
  BY <1>25, LifecycleAssumption DEF TypeOK, Pc, Status, wait_until_lockable, Goto,
     Unlocked, objectVars, userVars, queueVars
<1>26. ASSUME NEW c \in Co, destroy(c) PROVE TypeOK'
  BY <1>26, LifecycleAssumption DEF TypeOK, Pc, Status, destroy, Goto, objectVars,
     userVars, queueVars
<1>27. CASE UNCHANGED vars
  BY <1>27 DEF TypeOK, Pc, Status, vars, objectVars, userVars, queueVars
<1> QED BY <1>1, <1>2, <1>3, <1>4, <1>5, <1>6, <1>7, <1>8, <1>9, <1>10, <1>11, <1>12,
     <1>13, <1>14, <1>15, <1>16, <1>17, <1>18, <1>19, <1>20, <1>21, <1>22, <1>23, <1>24,
     <1>25, <1>26, <1>27 DEF Next, Step, Choose, Serve

(* Who holds a status lock.                                                 *)
LEMMA LockStep ==
  ASSUME TypeOK, LockSays, HandleSays, AwaitSays, PlaceSays, [Next]_vars
  PROVE  LockSays'
<1>1. ASSUME NEW c \in Co, apply_end(c) PROVE LockSays'
  BY <1>1, LifecycleAssumption DEF TypeOK, LockSays, HoldPc, DyingPc, apply_end,
     get_ready_to_push, Unlocked, objectVars, userVars, queueVars
<1>2. ASSUME NEW c \in Co, apply_ready_all(c) PROVE LockSays'
  BY <1>2, LifecycleAssumption DEF TypeOK, LockSays, HoldPc, DyingPc, apply_ready_all,
     get_ready_to_push, Unlocked, objectVars, userVars, queueVars
<1>3. ASSUME NEW c \in Co, run(c) PROVE LockSays'
  BY <1>3, LifecycleAssumption DEF TypeOK, LockSays, HoldPc, DyingPc, AwaitSays,
     PlaceSays, OnThread, Queued, Applied, Waits, HandleSays, AwaitPc, FreePc, run,
     objectVars, userVars, queueVars
<1>4. ASSUME NEW c \in Co, NEW d \in Co, NEW b \in BOOLEAN, construct(c, d, b) PROVE LockSays'
  BY <1>4, LifecycleAssumption DEF TypeOK, LockSays, HoldPc, DyingPc, HandleSays, AwaitPc,
     FreePc, construct, Goto, apply, CountOp, objectVars, userVars, queueVars
<1>5. ASSUME NEW c \in Co, NEW d \in Co, await_call(c, d) PROVE LockSays'
  BY <1>5, LifecycleAssumption DEF TypeOK, LockSays, HoldPc, DyingPc, HandleSays, AwaitPc,
     FreePc, await_call, Goto, CountOp, objectVars, userVars, queueVars
<1>6. ASSUME NEW c \in Co, await_impl(c) PROVE LockSays'
  BY <1>6, LifecycleAssumption DEF TypeOK, LockSays, HoldPc, DyingPc, HandleSays, AwaitPc,
     FreePc, await_impl, Goto, lock, Unlocked, objectVars, userVars, queueVars
<1>7. ASSUME NEW c \in Co, await_interrupt(c) PROVE LockSays'
  BY <1>7, LifecycleAssumption DEF TypeOK, LockSays, HoldPc, DyingPc, HandleSays, AwaitPc,
     FreePc, await_interrupt, interrupt, Goto, lock, Unlocked, objectVars, userVars,
     queueVars
<1>8. ASSUME NEW c \in Co, register(c) PROVE LockSays'
  BY <1>8, LifecycleAssumption DEF TypeOK, LockSays, HoldPc, DyingPc, register, Goto,
     objectVars, userVars, queueVars
<1>9. ASSUME NEW c \in Co, release_caller(c) PROVE LockSays'
  BY <1>9, LifecycleAssumption DEF TypeOK, LockSays, HoldPc, DyingPc, HandleSays, AwaitPc,
     FreePc, release_caller, Goto, unlock, objectVars, userVars, queueVars
<1>10. ASSUME NEW c \in Co, release_callee(c) PROVE LockSays'
  BY <1>10, LifecycleAssumption DEF TypeOK, LockSays, HoldPc, DyingPc, HandleSays,
     AwaitPc, FreePc, release_callee, Goto, unlock, objectVars, userVars, queueVars
<1>11. ASSUME NEW c \in Co, await_return(c) PROVE LockSays'
  BY <1>11, LifecycleAssumption DEF TypeOK, LockSays, HoldPc, DyingPc, HandleSays,
     AwaitPc, FreePc, await_return, Goto, objectVars, userVars, queueVars
<1>12. ASSUME NEW c \in Co, yield(c) PROVE LockSays'
  BY <1>12, LifecycleAssumption DEF TypeOK, LockSays, HoldPc, DyingPc, yield, Goto,
     CountOp, objectVars, userVars, queueVars
<1>13. ASSUME NEW c \in Co, yield_interrupt(c) PROVE LockSays'
  BY <1>13, LifecycleAssumption DEF TypeOK, LockSays, HoldPc, DyingPc, yield_interrupt,
     Goto, Unlocked, objectVars, userVars, queueVars
<1>14. ASSUME NEW c \in Co, yield_apply(c) PROVE LockSays'
  BY <1>14, LifecycleAssumption DEF TypeOK, LockSays, HoldPc, DyingPc, yield_apply, Goto,
     apply, objectVars, userVars, queueVars
<1>15. ASSUME NEW c \in Co, NEW z \in {FALSE, ZeroSleep}, sleep(c, z) PROVE LockSays'
  BY <1>15, LifecycleAssumption DEF TypeOK, LockSays, HoldPc, DyingPc, sleep, Goto,
     CountOp, objectVars, userVars, queueVars
<1>16. ASSUME NEW c \in Co, sleep_interrupt(c) PROVE LockSays'
  BY <1>16, LifecycleAssumption DEF TypeOK, LockSays, HoldPc, DyingPc, sleep_interrupt,
     Goto, Unlocked, objectVars, userVars, queueVars
<1>17. ASSUME NEW c \in Co, add_task(c) PROVE LockSays'
  BY <1>17, LifecycleAssumption DEF TypeOK, LockSays, HoldPc, DyingPc, add_task, Goto,
     objectVars, userVars, queueVars
<1>18. ASSUME NEW c \in Co, timeout(c) PROVE LockSays'
  BY <1>18, LifecycleAssumption DEF TypeOK, LockSays, HoldPc, DyingPc, timeout,
     objectVars, userVars, queueVars
<1>19. ASSUME NEW c \in Co, invoker_wrapper(c) PROVE LockSays'
  BY <1>19, LifecycleAssumption DEF TypeOK, LockSays, HoldPc, DyingPc, invoker_wrapper,
     Goto, objectVars, userVars, queueVars
<1>20. ASSUME NEW c \in Co, dead_interrupt(c) PROVE LockSays'
  BY <1>20, LifecycleAssumption DEF TypeOK, LockSays, HoldPc, DyingPc, HandleSays,
     AwaitPc, FreePc, dead_interrupt, interrupt, Goto, lock, Unlocked, objectVars,
     userVars, queueVars
<1>21. ASSUME NEW c \in Co, wakeup_await_co_all(c) PROVE LockSays'
  BY <1>21, LifecycleAssumption DEF TypeOK, LockSays, HoldPc, DyingPc,
     wakeup_await_co_all, Goto, apply, objectVars, userVars, queueVars
<1>22. ASSUME NEW c \in Co, free_stk(c) PROVE LockSays'
  BY <1>22, LifecycleAssumption DEF TypeOK, LockSays, HoldPc, DyingPc, free_stk, Goto,
     objectVars, userVars, queueVars
<1>23. ASSUME NEW c \in Co, dead_finish(c) PROVE LockSays'
  BY <1>23, LifecycleAssumption DEF TypeOK, LockSays, HoldPc, DyingPc, dead_finish, Goto,
     unlock, objectVars, userVars, queueVars
<1>24. ASSUME NEW c \in Co, NEW d \in Co, destroy_call(c, d) PROVE LockSays'
  BY <1>24, LifecycleAssumption DEF TypeOK, LockSays, HoldPc, DyingPc, HandleSays,
     AwaitPc, FreePc, destroy_call, Goto, objectVars, userVars, queueVars
<1>25. ASSUME NEW c \in Co, wait_until_lockable(c) PROVE LockSays'
  BY <1>25, LifecycleAssumption DEF TypeOK, LockSays, HoldPc, DyingPc,
     wait_until_lockable, Goto, Unlocked, objectVars, userVars, queueVars
<1>26. ASSUME NEW c \in Co, destroy(c) PROVE LockSays'
  BY <1>26, LifecycleAssumption DEF TypeOK, LockSays, HoldPc, DyingPc, HandleSays,
     AwaitPc, FreePc, destroy, Goto, objectVars, userVars, queueVars
<1>27. CASE UNCHANGED vars
  BY <1>27 DEF TypeOK, LockSays, HoldPc, DyingPc, vars, objectVars, userVars, queueVars
<1> QED BY <1>1, <1>2, <1>3, <1>4, <1>5, <1>6, <1>7, <1>8, <1>9, <1>10, <1>11, <1>12,
     <1>13, <1>14, <1>15, <1>16, <1>17, <1>18, <1>19, <1>20, <1>21, <1>22, <1>23, <1>24,
     <1>25, <1>26, <1>27 DEF Next, Step, Choose, Serve

(* Who has a handle, and what lives as long as a lock is held.              *)
LEMMA HandleStep ==
  ASSUME TypeOK, LockSays, HandleSays, AwaitSays, FreeSays, DeadSays, GoneSays, PlaceSays, ~Careless, [Next]_vars
  PROVE  HandleSays'
<1>1. ASSUME NEW c \in Co, apply_end(c) PROVE HandleSays'
  BY <1>1, LifecycleAssumption DEF TypeOK, HandleSays, AwaitPc, HoldPc, FreePc, apply_end,
     get_ready_to_push, Unlocked, objectVars, userVars, queueVars
<1>2. ASSUME NEW c \in Co, apply_ready_all(c) PROVE HandleSays'
  BY <1>2, LifecycleAssumption DEF TypeOK, HandleSays, AwaitPc, HoldPc, FreePc,
     apply_ready_all, get_ready_to_push, Unlocked, objectVars, userVars, queueVars
<1>3. ASSUME NEW c \in Co, run(c) PROVE HandleSays'
  BY <1>3, LifecycleAssumption DEF TypeOK, HandleSays, AwaitPc, HoldPc, FreePc, AwaitSays,
     PlaceSays, OnThread, Queued, Applied, Waits, run, objectVars, userVars, queueVars
<1>4. ASSUME NEW c \in Co, NEW d \in Co, NEW b \in BOOLEAN, construct(c, d, b) PROVE HandleSays'
  BY <1>4, LifecycleAssumption DEF TypeOK, HandleSays, AwaitPc, HoldPc, FreePc, construct,
     Goto, apply, CountOp, objectVars, userVars, queueVars
<1>5. ASSUME NEW c \in Co, NEW d \in Co, await_call(c, d) PROVE HandleSays'
  BY <1>5, LifecycleAssumption DEF TypeOK, HandleSays, AwaitPc, HoldPc, FreePc,
     await_call, Goto, CountOp, objectVars, userVars, queueVars
<1>6. ASSUME NEW c \in Co, await_impl(c) PROVE HandleSays'
  BY <1>6, LifecycleAssumption DEF TypeOK, HandleSays, AwaitPc, HoldPc, FreePc,
     await_impl, Goto, lock, Unlocked, objectVars, userVars, queueVars
<1>7. ASSUME NEW c \in Co, await_interrupt(c) PROVE HandleSays'
  BY <1>7, LifecycleAssumption DEF TypeOK, HandleSays, AwaitPc, HoldPc, FreePc, LockSays,
     DyingPc, await_interrupt, interrupt, Goto, lock, Unlocked, objectVars, userVars,
     queueVars
<1>8. ASSUME NEW c \in Co, register(c) PROVE HandleSays'
  BY <1>8, LifecycleAssumption DEF TypeOK, HandleSays, AwaitPc, HoldPc, FreePc, register,
     Goto, objectVars, userVars, queueVars
<1>9. ASSUME NEW c \in Co, release_caller(c) PROVE HandleSays'
  BY <1>9, LifecycleAssumption DEF TypeOK, HandleSays, AwaitPc, HoldPc, FreePc,
     release_caller, Goto, unlock, objectVars, userVars, queueVars
<1>10. ASSUME NEW c \in Co, release_callee(c) PROVE HandleSays'
  BY <1>10, LifecycleAssumption DEF TypeOK, HandleSays, AwaitPc, HoldPc, FreePc,
     release_callee, Goto, unlock, objectVars, userVars, queueVars
<1>11. ASSUME NEW c \in Co, await_return(c) PROVE HandleSays'
  BY <1>11, LifecycleAssumption DEF TypeOK, HandleSays, AwaitPc, HoldPc, FreePc,
     await_return, Goto, objectVars, userVars, queueVars
<1>12. ASSUME NEW c \in Co, yield(c) PROVE HandleSays'
  BY <1>12, LifecycleAssumption DEF TypeOK, HandleSays, AwaitPc, HoldPc, FreePc, yield,
     Goto, CountOp, objectVars, userVars, queueVars
<1>13. ASSUME NEW c \in Co, yield_interrupt(c) PROVE HandleSays'
  BY <1>13, LifecycleAssumption DEF TypeOK, HandleSays, AwaitPc, HoldPc, FreePc,
     yield_interrupt, Goto, Unlocked, objectVars, userVars, queueVars
<1>14. ASSUME NEW c \in Co, yield_apply(c) PROVE HandleSays'
  BY <1>14, LifecycleAssumption DEF TypeOK, HandleSays, AwaitPc, HoldPc, FreePc,
     yield_apply, Goto, apply, objectVars, userVars, queueVars
<1>15. ASSUME NEW c \in Co, NEW z \in {FALSE, ZeroSleep}, sleep(c, z) PROVE HandleSays'
  BY <1>15, LifecycleAssumption DEF TypeOK, HandleSays, AwaitPc, HoldPc, FreePc, sleep,
     Goto, CountOp, objectVars, userVars, queueVars
<1>16. ASSUME NEW c \in Co, sleep_interrupt(c) PROVE HandleSays'
  BY <1>16, LifecycleAssumption DEF TypeOK, HandleSays, AwaitPc, HoldPc, FreePc,
     sleep_interrupt, Goto, Unlocked, objectVars, userVars, queueVars
<1>17. ASSUME NEW c \in Co, add_task(c) PROVE HandleSays'
  BY <1>17, LifecycleAssumption DEF TypeOK, HandleSays, AwaitPc, HoldPc, FreePc, add_task,
     Goto, objectVars, userVars, queueVars
<1>18. ASSUME NEW c \in Co, timeout(c) PROVE HandleSays'
  BY <1>18, LifecycleAssumption DEF TypeOK, HandleSays, AwaitPc, HoldPc, FreePc, timeout,
     objectVars, userVars, queueVars
<1>19. ASSUME NEW c \in Co, invoker_wrapper(c) PROVE HandleSays'
  BY <1>19, LifecycleAssumption DEF TypeOK, HandleSays, AwaitPc, HoldPc, FreePc,
     invoker_wrapper, Goto, objectVars, userVars, queueVars
<1>20. ASSUME NEW c \in Co, dead_interrupt(c) PROVE HandleSays'
  BY <1>20, LifecycleAssumption DEF TypeOK, HandleSays, AwaitPc, HoldPc, FreePc, LockSays,
     DyingPc, dead_interrupt, interrupt, Goto, lock, Unlocked, objectVars, userVars,
     queueVars
<1>21. ASSUME NEW c \in Co, wakeup_await_co_all(c) PROVE HandleSays'
  BY <1>21, LifecycleAssumption DEF TypeOK, HandleSays, AwaitPc, HoldPc, FreePc,
     wakeup_await_co_all, Goto, apply, objectVars, userVars, queueVars
<1>22. ASSUME NEW c \in Co, free_stk(c) PROVE HandleSays'
  BY <1>22, LifecycleAssumption DEF TypeOK, HandleSays, AwaitPc, HoldPc, FreePc, free_stk,
     Goto, objectVars, userVars, queueVars
<1>23. ASSUME NEW c \in Co, dead_finish(c) PROVE HandleSays'
  BY <1>23, LifecycleAssumption DEF TypeOK, HandleSays, AwaitPc, HoldPc, FreePc, DeadSays,
     DyingPc, dead_finish, Goto, unlock, objectVars, userVars, queueVars
<1>24. ASSUME NEW c \in Co, NEW d \in Co, destroy_call(c, d) PROVE HandleSays'
  BY <1>24, LifecycleAssumption DEF TypeOK, HandleSays, AwaitPc, HoldPc, FreePc, DeadSays,
     DyingPc, destroy_call, Goto, objectVars, userVars, queueVars
<1>25. ASSUME NEW c \in Co, wait_until_lockable(c) PROVE HandleSays'
  BY <1>25, LifecycleAssumption DEF TypeOK, HandleSays, AwaitPc, HoldPc, FreePc,
     wait_until_lockable, Goto, Unlocked, objectVars, userVars, queueVars
<1>26. ASSUME NEW c \in Co, destroy(c) PROVE HandleSays'
  BY <1>26, LifecycleAssumption DEF TypeOK, HandleSays, AwaitPc, HoldPc, FreePc, FreeSays,
     Unlocked, destroy, Goto, objectVars, userVars, queueVars
<1>27. CASE UNCHANGED vars
  BY <1>27 DEF TypeOK, HandleSays, AwaitPc, HoldPc, FreePc, vars, objectVars, userVars,
     queueVars
<1> QED BY <1>1, <1>2, <1>3, <1>4, <1>5, <1>6, <1>7, <1>8, <1>9, <1>10, <1>11, <1>12,
     <1>13, <1>14, <1>15, <1>16, <1>17, <1>18, <1>19, <1>20, <1>21, <1>22, <1>23, <1>24,
     <1>25, <1>26, <1>27 DEF Next, Step, Choose, Serve

(* Who is registered with whom.                                             *)
LEMMA AwaitStep ==
  ASSUME TypeOK, HandleSays, AwaitSays, DeadSays, PlaceSays, [Next]_vars
  PROVE  AwaitSays'
<1>1. ASSUME NEW c \in Co, apply_end(c) PROVE AwaitSays'
  BY <1>1, LifecycleAssumption DEF TypeOK, AwaitSays, HandleSays, AwaitPc, HoldPc, FreePc,
     DeadSays, DyingPc, PlaceSays, OnThread, Queued, Applied, Waits, apply_end,
     get_ready_to_push, Unlocked, objectVars, userVars, queueVars
<1>2. ASSUME NEW c \in Co, apply_ready_all(c) PROVE AwaitSays'
  BY <1>2, LifecycleAssumption DEF TypeOK, AwaitSays, HandleSays, AwaitPc, HoldPc, FreePc,
     DeadSays, DyingPc, PlaceSays, OnThread, Queued, Applied, Waits, apply_ready_all,
     get_ready_to_push, Unlocked, objectVars, userVars, queueVars
<1>3. ASSUME NEW c \in Co, run(c) PROVE AwaitSays'
  BY <1>3, LifecycleAssumption DEF TypeOK, AwaitSays, HandleSays, AwaitPc, HoldPc, FreePc,
     DeadSays, DyingPc, PlaceSays, OnThread, Queued, Applied, Waits, run, objectVars,
     userVars, queueVars
<1>4. ASSUME NEW c \in Co, NEW d \in Co, NEW b \in BOOLEAN, construct(c, d, b) PROVE AwaitSays'
  BY <1>4, LifecycleAssumption DEF TypeOK, AwaitSays, HandleSays, AwaitPc, HoldPc, FreePc,
     DeadSays, DyingPc, construct, Goto, apply, CountOp, objectVars, userVars, queueVars
<1>5. ASSUME NEW c \in Co, NEW d \in Co, await_call(c, d) PROVE AwaitSays'
  BY <1>5, LifecycleAssumption DEF TypeOK, AwaitSays, HandleSays, AwaitPc, HoldPc, FreePc,
     DeadSays, DyingPc, await_call, Goto, CountOp, objectVars, userVars, queueVars
<1>6. ASSUME NEW c \in Co, await_impl(c) PROVE AwaitSays'
  BY <1>6, LifecycleAssumption DEF TypeOK, AwaitSays, HandleSays, AwaitPc, HoldPc, FreePc,
     DeadSays, DyingPc, await_impl, Goto, lock, Unlocked, objectVars, userVars,
     queueVars
<1>7. ASSUME NEW c \in Co, await_interrupt(c) PROVE AwaitSays'
  BY <1>7, LifecycleAssumption DEF TypeOK, AwaitSays, HandleSays, AwaitPc, HoldPc, FreePc,
     DeadSays, DyingPc, await_interrupt, interrupt, Goto, lock, Unlocked, objectVars,
     userVars, queueVars
<1>8. ASSUME NEW c \in Co, register(c) PROVE AwaitSays'
  BY <1>8, LifecycleAssumption DEF TypeOK, AwaitSays, HandleSays, AwaitPc, HoldPc, FreePc,
     DeadSays, DyingPc, register, Goto, objectVars, userVars, queueVars
<1>9. ASSUME NEW c \in Co, release_caller(c) PROVE AwaitSays'
  BY <1>9, LifecycleAssumption DEF TypeOK, AwaitSays, HandleSays, AwaitPc, HoldPc, FreePc,
     DeadSays, DyingPc, release_caller, Goto, unlock, objectVars, userVars, queueVars
<1>10. ASSUME NEW c \in Co, release_callee(c) PROVE AwaitSays'
  BY <1>10, LifecycleAssumption DEF TypeOK, AwaitSays, HandleSays, AwaitPc, HoldPc,
     FreePc, DeadSays, DyingPc, release_callee, Goto, unlock, objectVars, userVars,
     queueVars
<1>11. ASSUME NEW c \in Co, await_return(c) PROVE AwaitSays'
  BY <1>11, LifecycleAssumption DEF TypeOK, AwaitSays, HandleSays, AwaitPc, HoldPc,
     FreePc, DeadSays, DyingPc, await_return, Goto, objectVars, userVars, queueVars
<1>12. ASSUME NEW c \in Co, yield(c) PROVE AwaitSays'
  BY <1>12, LifecycleAssumption DEF TypeOK, AwaitSays, HandleSays, AwaitPc, HoldPc,
     FreePc, DeadSays, DyingPc, yield, Goto, CountOp, objectVars, userVars, queueVars
<1>13. ASSUME NEW c \in Co, yield_interrupt(c) PROVE AwaitSays'
  BY <1>13, LifecycleAssumption DEF TypeOK, AwaitSays, HandleSays, AwaitPc, HoldPc,
     FreePc, DeadSays, DyingPc, yield_interrupt, Goto, Unlocked, objectVars, userVars,
     queueVars
<1>14. ASSUME NEW c \in Co, yield_apply(c) PROVE AwaitSays'
  BY <1>14, LifecycleAssumption DEF TypeOK, AwaitSays, HandleSays, AwaitPc, HoldPc,
     FreePc, DeadSays, DyingPc, yield_apply, Goto, apply, objectVars, userVars,
     queueVars
<1>15. ASSUME NEW c \in Co, NEW z \in {FALSE, ZeroSleep}, sleep(c, z) PROVE AwaitSays'
  BY <1>15, LifecycleAssumption DEF TypeOK, AwaitSays, HandleSays, AwaitPc, HoldPc,
     FreePc, DeadSays, DyingPc, sleep, Goto, CountOp, objectVars, userVars, queueVars
<1>16. ASSUME NEW c \in Co, sleep_interrupt(c) PROVE AwaitSays'
  BY <1>16, LifecycleAssumption DEF TypeOK, AwaitSays, HandleSays, AwaitPc, HoldPc,
     FreePc, DeadSays, DyingPc, sleep_interrupt, Goto, Unlocked, objectVars, userVars,
     queueVars
<1>17. ASSUME NEW c \in Co, add_task(c) PROVE AwaitSays'
  BY <1>17, LifecycleAssumption DEF TypeOK, AwaitSays, HandleSays, AwaitPc, HoldPc,
     FreePc, DeadSays, DyingPc, add_task, Goto, objectVars, userVars, queueVars
<1>18. ASSUME NEW c \in Co, timeout(c) PROVE AwaitSays'
  BY <1>18, LifecycleAssumption DEF TypeOK, AwaitSays, HandleSays, AwaitPc, HoldPc,
     FreePc, DeadSays, DyingPc, timeout, objectVars, userVars, queueVars
<1>19. ASSUME NEW c \in Co, invoker_wrapper(c) PROVE AwaitSays'
  BY <1>19, LifecycleAssumption DEF TypeOK, AwaitSays, HandleSays, AwaitPc, HoldPc,
     FreePc, DeadSays, DyingPc, invoker_wrapper, Goto, objectVars, userVars, queueVars
<1>20. ASSUME NEW c \in Co, dead_interrupt(c) PROVE AwaitSays'
  BY <1>20, LifecycleAssumption DEF TypeOK, AwaitSays, HandleSays, AwaitPc, HoldPc,
     FreePc, DeadSays, DyingPc, dead_interrupt, interrupt, Goto, lock, Unlocked,
     objectVars, userVars, queueVars
<1>21. ASSUME NEW c \in Co, wakeup_await_co_all(c) PROVE AwaitSays'
  BY <1>21, LifecycleAssumption DEF TypeOK, AwaitSays, HandleSays, AwaitPc, HoldPc,
     FreePc, DeadSays, DyingPc, wakeup_await_co_all, Goto, apply, objectVars, userVars,
     queueVars
<1>22. ASSUME NEW c \in Co, free_stk(c) PROVE AwaitSays'
  BY <1>22, LifecycleAssumption DEF TypeOK, AwaitSays, HandleSays, AwaitPc, HoldPc,
     FreePc, DeadSays, DyingPc, free_stk, Goto, objectVars, userVars, queueVars
<1>23. ASSUME NEW c \in Co, dead_finish(c) PROVE AwaitSays'
  BY <1>23, LifecycleAssumption DEF TypeOK, AwaitSays, HandleSays, AwaitPc, HoldPc,
     FreePc, DeadSays, DyingPc, dead_finish, Goto, unlock, objectVars, userVars,
     queueVars
<1>24. ASSUME NEW c \in Co, NEW d \in Co, destroy_call(c, d) PROVE AwaitSays'
  BY <1>24, LifecycleAssumption DEF TypeOK, AwaitSays, HandleSays, AwaitPc, HoldPc,
     FreePc, DeadSays, DyingPc, destroy_call, Goto, objectVars, userVars, queueVars
<1>25. ASSUME NEW c \in Co, wait_until_lockable(c) PROVE AwaitSays'
  BY <1>25, LifecycleAssumption DEF TypeOK, AwaitSays, HandleSays, AwaitPc, HoldPc,
     FreePc, DeadSays, DyingPc, wait_until_lockable, Goto, Unlocked, objectVars,
     userVars, queueVars
<1>26. ASSUME NEW c \in Co, destroy(c) PROVE AwaitSays'
  BY <1>26, LifecycleAssumption DEF TypeOK, AwaitSays, HandleSays, AwaitPc, HoldPc,
     FreePc, DeadSays, DyingPc, destroy, Goto, objectVars, userVars, queueVars
<1>27. CASE UNCHANGED vars
  BY <1>27 DEF TypeOK, AwaitSays, vars, objectVars, userVars, queueVars
<1> QED BY <1>1, <1>2, <1>3, <1>4, <1>5, <1>6, <1>7, <1>8, <1>9, <1>10, <1>11, <1>12,
     <1>13, <1>14, <1>15, <1>16, <1>17, <1>18, <1>19, <1>20, <1>21, <1>22, <1>23, <1>24,
     <1>25, <1>26, <1>27 DEF Next, Step, Choose, Serve

(* Who destroys.                                                            *)
LEMMA FreeStep ==
  ASSUME TypeOK, LockSays, HandleSays, AwaitSays, FreeSays, FrameSays, DeadSays, PlaceSays, ~Careless, [Next]_vars
  PROVE  FreeSays'
<1>1. ASSUME NEW c \in Co, apply_end(c) PROVE FreeSays'
  BY <1>1, LifecycleAssumption DEF TypeOK, FreeSays, FreePc, Unlocked, HandleSays,
     AwaitPc, HoldPc, DeadSays, DyingPc, apply_end, get_ready_to_push, objectVars,
     userVars, queueVars
<1>2. ASSUME NEW c \in Co, apply_ready_all(c) PROVE FreeSays'
  BY <1>2, LifecycleAssumption DEF TypeOK, FreeSays, FreePc, Unlocked, HandleSays,
     AwaitPc, HoldPc, DeadSays, DyingPc, apply_ready_all, get_ready_to_push, objectVars,
     userVars, queueVars
<1>3. ASSUME NEW c \in Co, run(c) PROVE FreeSays'
  BY <1>3, LifecycleAssumption DEF TypeOK, FreeSays, FreePc, Unlocked, HandleSays,
     AwaitPc, HoldPc, PlaceSays, OnThread, Queued, Applied, Waits, AwaitSays, run,
     objectVars, userVars, queueVars
<1>4. ASSUME NEW c \in Co, NEW d \in Co, NEW b \in BOOLEAN, construct(c, d, b) PROVE FreeSays'
  BY <1>4, LifecycleAssumption DEF TypeOK, FreeSays, FreePc, Unlocked, HandleSays,
     AwaitPc, HoldPc, DeadSays, DyingPc, construct, Goto, apply, CountOp, objectVars,
     userVars, queueVars
<1>5. ASSUME NEW c \in Co, NEW d \in Co, await_call(c, d) PROVE FreeSays'
  BY <1>5, LifecycleAssumption DEF TypeOK, FreeSays, FreePc, Unlocked, HandleSays,
     AwaitPc, HoldPc, DeadSays, DyingPc, await_call, Goto, CountOp, objectVars,
     userVars, queueVars
<1>6. ASSUME NEW c \in Co, await_impl(c) PROVE FreeSays'
  BY <1>6, LifecycleAssumption DEF TypeOK, FreeSays, FreePc, Unlocked, HandleSays,
     AwaitPc, HoldPc, DeadSays, DyingPc, await_impl, Goto, lock, objectVars, userVars,
     queueVars
<1>7. ASSUME NEW c \in Co, await_interrupt(c) PROVE FreeSays'
  BY <1>7, LifecycleAssumption DEF TypeOK, FreeSays, FreePc, Unlocked, HandleSays,
     AwaitPc, HoldPc, DeadSays, DyingPc, await_interrupt, interrupt, Goto, lock,
     objectVars, userVars, queueVars
<1>8. ASSUME NEW c \in Co, register(c) PROVE FreeSays'
  BY <1>8, LifecycleAssumption DEF TypeOK, FreeSays, FreePc, Unlocked, HandleSays,
     AwaitPc, HoldPc, DeadSays, DyingPc, register, Goto, objectVars, userVars, queueVars
<1>9. ASSUME NEW c \in Co, release_caller(c) PROVE FreeSays'
  BY <1>9, LifecycleAssumption DEF TypeOK, FreeSays, FreePc, Unlocked, HandleSays,
     AwaitPc, HoldPc, DeadSays, DyingPc, release_caller, Goto, unlock, objectVars,
     userVars, queueVars
<1>10. ASSUME NEW c \in Co, release_callee(c) PROVE FreeSays'
  BY <1>10, LifecycleAssumption DEF TypeOK, FreeSays, FreePc, Unlocked, HandleSays,
     AwaitPc, HoldPc, DeadSays, DyingPc, release_callee, Goto, unlock, objectVars,
     userVars, queueVars
<1>11. ASSUME NEW c \in Co, await_return(c) PROVE FreeSays'
  BY <1>11, LifecycleAssumption DEF TypeOK, FreeSays, FreePc, Unlocked, HandleSays,
     AwaitPc, HoldPc, DeadSays, DyingPc, FrameSays, AwaitSays, await_return, Goto,
     objectVars, userVars, queueVars
<1>12. ASSUME NEW c \in Co, yield(c) PROVE FreeSays'
  BY <1>12, LifecycleAssumption DEF TypeOK, FreeSays, FreePc, Unlocked, HandleSays,
     AwaitPc, HoldPc, DeadSays, DyingPc, yield, Goto, CountOp, objectVars, userVars,
     queueVars
<1>13. ASSUME NEW c \in Co, yield_interrupt(c) PROVE FreeSays'
  BY <1>13, LifecycleAssumption DEF TypeOK, FreeSays, FreePc, Unlocked, HandleSays,
     AwaitPc, HoldPc, DeadSays, DyingPc, yield_interrupt, Goto, objectVars, userVars,
     queueVars
<1>14. ASSUME NEW c \in Co, yield_apply(c) PROVE FreeSays'
  BY <1>14, LifecycleAssumption DEF TypeOK, FreeSays, FreePc, Unlocked, HandleSays,
     AwaitPc, HoldPc, DeadSays, DyingPc, yield_apply, Goto, apply, objectVars, userVars,
     queueVars
<1>15. ASSUME NEW c \in Co, NEW z \in {FALSE, ZeroSleep}, sleep(c, z) PROVE FreeSays'
  BY <1>15, LifecycleAssumption DEF TypeOK, FreeSays, FreePc, Unlocked, HandleSays,
     AwaitPc, HoldPc, DeadSays, DyingPc, sleep, Goto, CountOp, objectVars, userVars,
     queueVars
<1>16. ASSUME NEW c \in Co, sleep_interrupt(c) PROVE FreeSays'
  BY <1>16, LifecycleAssumption DEF TypeOK, FreeSays, FreePc, Unlocked, HandleSays,
     AwaitPc, HoldPc, DeadSays, DyingPc, sleep_interrupt, Goto, objectVars, userVars,
     queueVars
<1>17. ASSUME NEW c \in Co, add_task(c) PROVE FreeSays'
  BY <1>17, LifecycleAssumption DEF TypeOK, FreeSays, FreePc, Unlocked, HandleSays,
     AwaitPc, HoldPc, DeadSays, DyingPc, add_task, Goto, objectVars, userVars, queueVars
<1>18. ASSUME NEW c \in Co, timeout(c) PROVE FreeSays'
  BY <1>18, LifecycleAssumption DEF TypeOK, FreeSays, FreePc, Unlocked, HandleSays,
     AwaitPc, HoldPc, DeadSays, DyingPc, timeout, objectVars, userVars, queueVars
<1>19. ASSUME NEW c \in Co, invoker_wrapper(c) PROVE FreeSays'
  BY <1>19, LifecycleAssumption DEF TypeOK, FreeSays, FreePc, Unlocked, HandleSays,
     AwaitPc, HoldPc, DeadSays, DyingPc, invoker_wrapper, Goto, objectVars, userVars,
     queueVars
<1>20. ASSUME NEW c \in Co, dead_interrupt(c) PROVE FreeSays'
  BY <1>20, LifecycleAssumption DEF TypeOK, FreeSays, FreePc, Unlocked, HandleSays,
     AwaitPc, HoldPc, DeadSays, DyingPc, dead_interrupt, interrupt, Goto, lock,
     objectVars, userVars, queueVars
<1>21. ASSUME NEW c \in Co, wakeup_await_co_all(c) PROVE FreeSays'
  BY <1>21, LifecycleAssumption DEF TypeOK, FreeSays, FreePc, Unlocked, HandleSays,
     AwaitPc, HoldPc, DeadSays, DyingPc, wakeup_await_co_all, Goto, apply, objectVars,
     userVars, queueVars
<1>22. ASSUME NEW c \in Co, free_stk(c) PROVE FreeSays'
  BY <1>22, LifecycleAssumption DEF TypeOK, FreeSays, FreePc, Unlocked, HandleSays,
     AwaitPc, HoldPc, DeadSays, DyingPc, free_stk, Goto, objectVars, userVars, queueVars
<1>23. ASSUME NEW c \in Co, dead_finish(c) PROVE FreeSays'
  BY <1>23, LifecycleAssumption DEF TypeOK, FreeSays, FreePc, Unlocked, HandleSays,
     AwaitPc, HoldPc, DeadSays, DyingPc, dead_finish, Goto, unlock, objectVars,
     userVars, queueVars
<1>24. ASSUME NEW c \in Co, NEW d \in Co, destroy_call(c, d) PROVE FreeSays'
  BY <1>24, LifecycleAssumption DEF TypeOK, FreeSays, FreePc, Unlocked, HandleSays,
     AwaitPc, HoldPc, DeadSays, DyingPc, destroy_call, Goto, objectVars, userVars,
     queueVars
<1>25. ASSUME NEW c \in Co, wait_until_lockable(c) PROVE FreeSays'
  BY <1>25, LifecycleAssumption DEF TypeOK, FreeSays, FreePc, Unlocked, HandleSays,
     AwaitPc, HoldPc, DeadSays, DyingPc, wait_until_lockable, Goto, objectVars,
     userVars, queueVars
<1>26. ASSUME NEW c \in Co, destroy(c) PROVE FreeSays'
  BY <1>26, LifecycleAssumption DEF TypeOK, FreeSays, FreePc, Unlocked, HandleSays,
     AwaitPc, HoldPc, DeadSays, DyingPc, destroy, Goto, objectVars, userVars, queueVars
<1>27. CASE UNCHANGED vars
  BY <1>27 DEF TypeOK, FreeSays, FreePc, Unlocked, vars, objectVars, userVars, queueVars
<1> QED BY <1>1, <1>2, <1>3, <1>4, <1>5, <1>6, <1>7, <1>8, <1>9, <1>10, <1>11, <1>12,
     <1>13, <1>14, <1>15, <1>16, <1>17, <1>18, <1>19, <1>20, <1>21, <1>22, <1>23, <1>24,
     <1>25, <1>26, <1>27 DEF Next, Step, Choose, Serve

(* The coroutines of co::await.                                             *)
LEMMA FrameStep ==
  ASSUME TypeOK, HandleSays, FreeSays, FrameSays, [Next]_vars
  PROVE  FrameSays'
<1>1. ASSUME NEW c \in Co, apply_end(c) PROVE FrameSays'
  BY <1>1, LifecycleAssumption DEF TypeOK, FrameSays, apply_end, get_ready_to_push,
     Unlocked, objectVars, userVars, queueVars
<1>2. ASSUME NEW c \in Co, apply_ready_all(c) PROVE FrameSays'
  BY <1>2, LifecycleAssumption DEF TypeOK, FrameSays, apply_ready_all, get_ready_to_push,
     Unlocked, objectVars, userVars, queueVars
<1>3. ASSUME NEW c \in Co, run(c) PROVE FrameSays'
  BY <1>3, LifecycleAssumption DEF TypeOK, FrameSays, run, objectVars, userVars, queueVars
<1>4. ASSUME NEW c \in Co, NEW d \in Co, NEW b \in BOOLEAN, construct(c, d, b) PROVE FrameSays'
  BY <1>4, LifecycleAssumption DEF TypeOK, FrameSays, HandleSays, AwaitPc, HoldPc, FreePc,
     construct, Goto, apply, CountOp, objectVars, userVars, queueVars
<1>5. ASSUME NEW c \in Co, NEW d \in Co, await_call(c, d) PROVE FrameSays'
  BY <1>5, LifecycleAssumption DEF TypeOK, FrameSays, HandleSays, AwaitPc, HoldPc, FreePc,
     await_call, Goto, CountOp, objectVars, userVars, queueVars
<1>6. ASSUME NEW c \in Co, await_impl(c) PROVE FrameSays'
  BY <1>6, LifecycleAssumption DEF TypeOK, FrameSays, await_impl, Goto, lock, Unlocked,
     objectVars, userVars, queueVars
<1>7. ASSUME NEW c \in Co, await_interrupt(c) PROVE FrameSays'
  BY <1>7, LifecycleAssumption DEF TypeOK, FrameSays, await_interrupt, interrupt, Goto,
     lock, Unlocked, objectVars, userVars, queueVars
<1>8. ASSUME NEW c \in Co, register(c) PROVE FrameSays'
  BY <1>8, LifecycleAssumption DEF TypeOK, FrameSays, register, Goto, objectVars,
     userVars, queueVars
<1>9. ASSUME NEW c \in Co, release_caller(c) PROVE FrameSays'
  BY <1>9, LifecycleAssumption DEF TypeOK, FrameSays, release_caller, Goto, unlock,
     objectVars, userVars, queueVars
<1>10. ASSUME NEW c \in Co, release_callee(c) PROVE FrameSays'
  BY <1>10, LifecycleAssumption DEF TypeOK, FrameSays, release_callee, Goto, unlock,
     objectVars, userVars, queueVars
<1>11. ASSUME NEW c \in Co, await_return(c) PROVE FrameSays'
  BY <1>11, LifecycleAssumption DEF TypeOK, FrameSays, HandleSays, AwaitPc, HoldPc,
     FreePc, await_return, Goto, objectVars, userVars, queueVars
<1>12. ASSUME NEW c \in Co, yield(c) PROVE FrameSays'
  BY <1>12, LifecycleAssumption DEF TypeOK, FrameSays, yield, Goto, CountOp, objectVars,
     userVars, queueVars
<1>13. ASSUME NEW c \in Co, yield_interrupt(c) PROVE FrameSays'
  BY <1>13, LifecycleAssumption DEF TypeOK, FrameSays, yield_interrupt, Goto, Unlocked,
     objectVars, userVars, queueVars
<1>14. ASSUME NEW c \in Co, yield_apply(c) PROVE FrameSays'
  BY <1>14, LifecycleAssumption DEF TypeOK, FrameSays, yield_apply, Goto, apply,
     objectVars, userVars, queueVars
<1>15. ASSUME NEW c \in Co, NEW z \in {FALSE, ZeroSleep}, sleep(c, z) PROVE FrameSays'
  BY <1>15, LifecycleAssumption DEF TypeOK, FrameSays, sleep, Goto, CountOp, objectVars,
     userVars, queueVars
<1>16. ASSUME NEW c \in Co, sleep_interrupt(c) PROVE FrameSays'
  BY <1>16, LifecycleAssumption DEF TypeOK, FrameSays, sleep_interrupt, Goto, Unlocked,
     objectVars, userVars, queueVars
<1>17. ASSUME NEW c \in Co, add_task(c) PROVE FrameSays'
  BY <1>17, LifecycleAssumption DEF TypeOK, FrameSays, add_task, Goto, objectVars,
     userVars, queueVars
<1>18. ASSUME NEW c \in Co, timeout(c) PROVE FrameSays'
  BY <1>18, LifecycleAssumption DEF TypeOK, FrameSays, timeout, objectVars, userVars,
     queueVars
<1>19. ASSUME NEW c \in Co, invoker_wrapper(c) PROVE FrameSays'
  BY <1>19, LifecycleAssumption DEF TypeOK, FrameSays, invoker_wrapper, Goto, objectVars,
     userVars, queueVars
<1>20. ASSUME NEW c \in Co, dead_interrupt(c) PROVE FrameSays'
  BY <1>20, LifecycleAssumption DEF TypeOK, FrameSays, dead_interrupt, interrupt, Goto,
     lock, Unlocked, objectVars, userVars, queueVars
<1>21. ASSUME NEW c \in Co, wakeup_await_co_all(c) PROVE FrameSays'
  BY <1>21, LifecycleAssumption DEF TypeOK, FrameSays, wakeup_await_co_all, Goto, apply,
     objectVars, userVars, queueVars
<1>22. ASSUME NEW c \in Co, free_stk(c) PROVE FrameSays'
  BY <1>22, LifecycleAssumption DEF TypeOK, FrameSays, free_stk, Goto, objectVars,
     userVars, queueVars
<1>23. ASSUME NEW c \in Co, dead_finish(c) PROVE FrameSays'
  BY <1>23, LifecycleAssumption DEF TypeOK, FrameSays, dead_finish, Goto, unlock,
     objectVars, userVars, queueVars
<1>24. ASSUME NEW c \in Co, NEW d \in Co, destroy_call(c, d) PROVE FrameSays'
  BY <1>24, LifecycleAssumption DEF TypeOK, FrameSays, HandleSays, AwaitPc, HoldPc,
     FreePc, destroy_call, Goto, objectVars, userVars, queueVars
<1>25. ASSUME NEW c \in Co, wait_until_lockable(c) PROVE FrameSays'
  BY <1>25, LifecycleAssumption DEF TypeOK, FrameSays, wait_until_lockable, Goto,
     Unlocked, objectVars, userVars, queueVars
<1>26. ASSUME NEW c \in Co, destroy(c) PROVE FrameSays'
  BY <1>26, LifecycleAssumption DEF TypeOK, FrameSays, FreeSays, FreePc, Unlocked,
     HandleSays, AwaitPc, HoldPc, destroy, Goto, objectVars, userVars, queueVars
<1>27. CASE UNCHANGED vars
  BY <1>27 DEF TypeOK, FrameSays, vars, objectVars, userVars, queueVars
<1> QED BY <1>1, <1>2, <1>3, <1>4, <1>5, <1>6, <1>7, <1>8, <1>9, <1>10, <1>11, <1>12,
     <1>13, <1>14, <1>15, <1>16, <1>17, <1>18, <1>19, <1>20, <1>21, <1>22, <1>23, <1>24,
     <1>25, <1>26, <1>27 DEF Next, Step, Choose, Serve

(* The dead.                                                                *)
LEMMA DeadStep ==
  ASSUME TypeOK, LockSays, HandleSays, AwaitSays, FreeSays, FrameSays, DeadSays, GoneSays, PlaceSays, [Next]_vars
  PROVE  DeadSays'
<1>1. ASSUME NEW c \in Co, apply_end(c) PROVE DeadSays'
  BY <1>1, LifecycleAssumption DEF TypeOK, DeadSays, DyingPc, PlaceSays, OnThread, Queued,
     Applied, Waits, apply_end, get_ready_to_push, Unlocked, objectVars, userVars,
     queueVars
<1>2. ASSUME NEW c \in Co, apply_ready_all(c) PROVE DeadSays'
  BY <1>2, LifecycleAssumption DEF TypeOK, DeadSays, DyingPc, PlaceSays, OnThread, Queued,
     Applied, Waits, apply_ready_all, get_ready_to_push, Unlocked, objectVars, userVars,
     queueVars
<1>3. ASSUME NEW c \in Co, run(c) PROVE DeadSays'
  BY <1>3, LifecycleAssumption DEF TypeOK, DeadSays, DyingPc, PlaceSays, OnThread, Queued,
     Applied, Waits, AwaitSays, run, objectVars, userVars, queueVars
<1>4. ASSUME NEW c \in Co, NEW d \in Co, NEW b \in BOOLEAN, construct(c, d, b) PROVE DeadSays'
  BY <1>4, LifecycleAssumption DEF TypeOK, DeadSays, DyingPc, GoneSays, construct, Goto,
     apply, CountOp, objectVars, userVars, queueVars
<1>5. ASSUME NEW c \in Co, NEW d \in Co, await_call(c, d) PROVE DeadSays'
  BY <1>5, LifecycleAssumption DEF TypeOK, DeadSays, DyingPc, await_call, Goto, CountOp,
     objectVars, userVars, queueVars
<1>6. ASSUME NEW c \in Co, await_impl(c) PROVE DeadSays'
  BY <1>6, LifecycleAssumption DEF TypeOK, DeadSays, DyingPc, await_impl, Goto, lock,
     Unlocked, objectVars, userVars, queueVars
<1>7. ASSUME NEW c \in Co, await_interrupt(c) PROVE DeadSays'
  BY <1>7, LifecycleAssumption DEF TypeOK, DeadSays, DyingPc, await_interrupt, interrupt,
     Goto, lock, Unlocked, objectVars, userVars, queueVars
<1>8. ASSUME NEW c \in Co, register(c) PROVE DeadSays'
  BY <1>8, LifecycleAssumption DEF TypeOK, DeadSays, DyingPc, HandleSays, AwaitPc, HoldPc,
     FreePc, register, Goto, objectVars, userVars, queueVars
<1>9. ASSUME NEW c \in Co, release_caller(c) PROVE DeadSays'
  BY <1>9, LifecycleAssumption DEF TypeOK, DeadSays, DyingPc, release_caller, Goto,
     unlock, objectVars, userVars, queueVars
<1>10. ASSUME NEW c \in Co, release_callee(c) PROVE DeadSays'
  BY <1>10, LifecycleAssumption DEF TypeOK, DeadSays, DyingPc, release_callee, Goto,
     unlock, objectVars, userVars, queueVars
<1>11. ASSUME NEW c \in Co, await_return(c) PROVE DeadSays'
  BY <1>11, LifecycleAssumption DEF TypeOK, DeadSays, DyingPc, HandleSays, AwaitPc,
     HoldPc, FreePc, AwaitSays, await_return, Goto, objectVars, userVars, queueVars
<1>12. ASSUME NEW c \in Co, yield(c) PROVE DeadSays'
  BY <1>12, LifecycleAssumption DEF TypeOK, DeadSays, DyingPc, yield, Goto, CountOp,
     objectVars, userVars, queueVars
<1>13. ASSUME NEW c \in Co, yield_interrupt(c) PROVE DeadSays'
  BY <1>13, LifecycleAssumption DEF TypeOK, DeadSays, DyingPc, yield_interrupt, Goto,
     Unlocked, objectVars, userVars, queueVars
<1>14. ASSUME NEW c \in Co, yield_apply(c) PROVE DeadSays'
  BY <1>14, LifecycleAssumption DEF TypeOK, DeadSays, DyingPc, yield_apply, Goto, apply,
     objectVars, userVars, queueVars
<1>15. ASSUME NEW c \in Co, NEW z \in {FALSE, ZeroSleep}, sleep(c, z) PROVE DeadSays'
  BY <1>15, LifecycleAssumption DEF TypeOK, DeadSays, DyingPc, sleep, Goto, CountOp,
     objectVars, userVars, queueVars
<1>16. ASSUME NEW c \in Co, sleep_interrupt(c) PROVE DeadSays'
  BY <1>16, LifecycleAssumption DEF TypeOK, DeadSays, DyingPc, sleep_interrupt, Goto,
     Unlocked, objectVars, userVars, queueVars
<1>17. ASSUME NEW c \in Co, add_task(c) PROVE DeadSays'
  BY <1>17, LifecycleAssumption DEF TypeOK, DeadSays, DyingPc, add_task, Goto, objectVars,
     userVars, queueVars
<1>18. ASSUME NEW c \in Co, timeout(c) PROVE DeadSays'
  BY <1>18, LifecycleAssumption DEF TypeOK, DeadSays, DyingPc, timeout, objectVars,
     userVars, queueVars
<1>19. ASSUME NEW c \in Co, invoker_wrapper(c) PROVE DeadSays'
  BY <1>19, LifecycleAssumption DEF TypeOK, DeadSays, DyingPc, invoker_wrapper, Goto,
     objectVars, userVars, queueVars
<1>20. ASSUME NEW c \in Co, dead_interrupt(c) PROVE DeadSays'
  BY <1>20, LifecycleAssumption DEF TypeOK, DeadSays, DyingPc, HandleSays, AwaitPc,
     HoldPc, FreePc, dead_interrupt, interrupt, Goto, lock, Unlocked, objectVars,
     userVars, queueVars
<1>21. ASSUME NEW c \in Co, wakeup_await_co_all(c) PROVE DeadSays'
  BY <1>21, LifecycleAssumption DEF TypeOK, DeadSays, DyingPc, wakeup_await_co_all, Goto,
     apply, objectVars, userVars, queueVars
<1>22. ASSUME NEW c \in Co, free_stk(c) PROVE DeadSays'
  BY <1>22, LifecycleAssumption DEF TypeOK, DeadSays, DyingPc, free_stk, Goto, objectVars,
     userVars, queueVars
<1>23. ASSUME NEW c \in Co, dead_finish(c) PROVE DeadSays'
  BY <1>23, LifecycleAssumption DEF TypeOK, DeadSays, DyingPc, dead_finish, Goto, unlock,
     objectVars, userVars, queueVars
<1>24. ASSUME NEW c \in Co, NEW d \in Co, destroy_call(c, d) PROVE DeadSays'
  BY <1>24, LifecycleAssumption DEF TypeOK, DeadSays, DyingPc, destroy_call, Goto,
     objectVars, userVars, queueVars
<1>25. ASSUME NEW c \in Co, wait_until_lockable(c) PROVE DeadSays'
  BY <1>25, LifecycleAssumption DEF TypeOK, DeadSays, DyingPc, wait_until_lockable, Goto,
     Unlocked, objectVars, userVars, queueVars
<1>26. ASSUME NEW c \in Co, destroy(c) PROVE DeadSays'
  BY <1>26, LifecycleAssumption DEF TypeOK, DeadSays, DyingPc, FreeSays, FreePc, Unlocked,
     destroy, Goto, objectVars, userVars, queueVars
<1>27. CASE UNCHANGED vars
  BY <1>27 DEF TypeOK, DeadSays, DyingPc, vars, objectVars, userVars, queueVars
<1> QED BY <1>1, <1>2, <1>3, <1>4, <1>5, <1>6, <1>7, <1>8, <1>9, <1>10, <1>11, <1>12,
     <1>13, <1>14, <1>15, <1>16, <1>17, <1>18, <1>19, <1>20, <1>21, <1>22, <1>23, <1>24,
     <1>25, <1>26, <1>27 DEF Next, Step, Choose, Serve

(* The coroutines that are not created.                                     *)
LEMMA GoneStep ==
  ASSUME TypeOK, LockSays, HandleSays, FreeSays, DeadSays, GoneSays, PlaceSays, [Next]_vars
  PROVE  GoneSays'
<1>1. ASSUME NEW c \in Co, apply_end(c) PROVE GoneSays'
  BY <1>1, LifecycleAssumption DEF TypeOK, GoneSays, apply_end, get_ready_to_push,
     Unlocked, objectVars, userVars, queueVars
<1>2. ASSUME NEW c \in Co, apply_ready_all(c) PROVE GoneSays'
  BY <1>2, LifecycleAssumption DEF TypeOK, GoneSays, apply_ready_all, get_ready_to_push,
     Unlocked, objectVars, userVars, queueVars
<1>3. ASSUME NEW c \in Co, run(c) PROVE GoneSays'
  BY <1>3, LifecycleAssumption DEF TypeOK, GoneSays, PlaceSays, OnThread, Queued, Applied,
     Waits, run, objectVars, userVars, queueVars
<1>4. ASSUME NEW c \in Co, NEW d \in Co, NEW b \in BOOLEAN, construct(c, d, b) PROVE GoneSays'
  BY <1>4, LifecycleAssumption DEF TypeOK, GoneSays, construct, Goto, apply, CountOp,
     objectVars, userVars, queueVars
<1>5. ASSUME NEW c \in Co, NEW d \in Co, await_call(c, d) PROVE GoneSays'
  BY <1>5, LifecycleAssumption DEF TypeOK, GoneSays, await_call, Goto, CountOp,
     objectVars, userVars, queueVars
<1>6. ASSUME NEW c \in Co, await_impl(c) PROVE GoneSays'
  BY <1>6, LifecycleAssumption DEF TypeOK, GoneSays, await_impl, Goto, lock, Unlocked,
     objectVars, userVars, queueVars
<1>7. ASSUME NEW c \in Co, await_interrupt(c) PROVE GoneSays'
  BY <1>7, LifecycleAssumption DEF TypeOK, GoneSays, await_interrupt, interrupt, Goto,
     lock, Unlocked, objectVars, userVars, queueVars
<1>8. ASSUME NEW c \in Co, register(c) PROVE GoneSays'
  BY <1>8, LifecycleAssumption DEF TypeOK, GoneSays, HandleSays, AwaitPc, HoldPc, FreePc,
     register, Goto, objectVars, userVars, queueVars
<1>9. ASSUME NEW c \in Co, release_caller(c) PROVE GoneSays'
  BY <1>9, LifecycleAssumption DEF TypeOK, GoneSays, release_caller, Goto, unlock,
     objectVars, userVars, queueVars
<1>10. ASSUME NEW c \in Co, release_callee(c) PROVE GoneSays'
  BY <1>10, LifecycleAssumption DEF TypeOK, GoneSays, release_callee, Goto, unlock,
     objectVars, userVars, queueVars
<1>11. ASSUME NEW c \in Co, await_return(c) PROVE GoneSays'
  BY <1>11, LifecycleAssumption DEF TypeOK, GoneSays, await_return, Goto, objectVars,
     userVars, queueVars
<1>12. ASSUME NEW c \in Co, yield(c) PROVE GoneSays'
  BY <1>12, LifecycleAssumption DEF TypeOK, GoneSays, yield, Goto, CountOp, objectVars,
     userVars, queueVars
<1>13. ASSUME NEW c \in Co, yield_interrupt(c) PROVE GoneSays'
  BY <1>13, LifecycleAssumption DEF TypeOK, GoneSays, yield_interrupt, Goto, Unlocked,
     objectVars, userVars, queueVars
<1>14. ASSUME NEW c \in Co, yield_apply(c) PROVE GoneSays'
  BY <1>14, LifecycleAssumption DEF TypeOK, GoneSays, yield_apply, Goto, apply,
     objectVars, userVars, queueVars
<1>15. ASSUME NEW c \in Co, NEW z \in {FALSE, ZeroSleep}, sleep(c, z) PROVE GoneSays'
  BY <1>15, LifecycleAssumption DEF TypeOK, GoneSays, sleep, Goto, CountOp, objectVars,
     userVars, queueVars
<1>16. ASSUME NEW c \in Co, sleep_interrupt(c) PROVE GoneSays'
  BY <1>16, LifecycleAssumption DEF TypeOK, GoneSays, sleep_interrupt, Goto, Unlocked,
     objectVars, userVars, queueVars
<1>17. ASSUME NEW c \in Co, add_task(c) PROVE GoneSays'
  BY <1>17, LifecycleAssumption DEF TypeOK, GoneSays, add_task, Goto, objectVars,
     userVars, queueVars
<1>18. ASSUME NEW c \in Co, timeout(c) PROVE GoneSays'
  BY <1>18, LifecycleAssumption DEF TypeOK, GoneSays, timeout, objectVars, userVars,
     queueVars
<1>19. ASSUME NEW c \in Co, invoker_wrapper(c) PROVE GoneSays'
  BY <1>19, LifecycleAssumption DEF TypeOK, GoneSays, invoker_wrapper, Goto, objectVars,
     userVars, queueVars
<1>20. ASSUME NEW c \in Co, dead_interrupt(c) PROVE GoneSays'
  BY <1>20, LifecycleAssumption DEF TypeOK, GoneSays, dead_interrupt, interrupt, Goto,
     lock, Unlocked, objectVars, userVars, queueVars
<1>21. ASSUME NEW c \in Co, wakeup_await_co_all(c) PROVE GoneSays'
  BY <1>21, LifecycleAssumption DEF TypeOK, GoneSays, wakeup_await_co_all, Goto, apply,
     objectVars, userVars, queueVars
<1>22. ASSUME NEW c \in Co, free_stk(c) PROVE GoneSays'
  BY <1>22, LifecycleAssumption DEF TypeOK, GoneSays, free_stk, Goto, objectVars,
     userVars, queueVars
<1>23. ASSUME NEW c \in Co, dead_finish(c) PROVE GoneSays'
  BY <1>23, LifecycleAssumption DEF TypeOK, GoneSays, dead_finish, Goto, unlock,
     objectVars, userVars, queueVars
<1>24. ASSUME NEW c \in Co, NEW d \in Co, destroy_call(c, d) PROVE GoneSays'
  BY <1>24, LifecycleAssumption DEF TypeOK, GoneSays, destroy_call, Goto, objectVars,
     userVars, queueVars
<1>25. ASSUME NEW c \in Co, wait_until_lockable(c) PROVE GoneSays'
  BY <1>25, LifecycleAssumption DEF TypeOK, GoneSays, wait_until_lockable, Goto, Unlocked,
     objectVars, userVars, queueVars
<1>26. ASSUME NEW c \in Co, destroy(c) PROVE GoneSays'
  BY <1>26, LifecycleAssumption DEF TypeOK, GoneSays, FreeSays, FreePc, Unlocked,
     LockSays, HoldPc, DyingPc, DeadSays, HandleSays, AwaitPc, destroy, Goto,
     objectVars, userVars, queueVars
<1>27. CASE UNCHANGED vars
  BY <1>27 DEF TypeOK, GoneSays, vars, objectVars, userVars, queueVars
<1> QED BY <1>1, <1>2, <1>3, <1>4, <1>5, <1>6, <1>7, <1>8, <1>9, <1>10, <1>11, <1>12,
     <1>13, <1>14, <1>15, <1>16, <1>17, <1>18, <1>19, <1>20, <1>21, <1>22, <1>23, <1>24,
     <1>25, <1>26, <1>27 DEF Next, Step, Choose, Serve

(* One place at a time.                                                     *)
LEMMA PlaceStep ==
  ASSUME TypeOK, HandleSays, AwaitSays, FreeSays, DeadSays, GoneSays, PlaceSays, [Next]_vars
  PROVE  PlaceSays'
<1>1. ASSUME NEW c \in Co, apply_end(c) PROVE PlaceSays'
  BY <1>1, LifecycleAssumption DEF TypeOK, PlaceSays, OnThread, Queued, Applied, Waits,
     AwaitSays, apply_end, get_ready_to_push, Unlocked, objectVars, userVars, queueVars
<1>2. ASSUME NEW c \in Co, apply_ready_all(c) PROVE PlaceSays'
  BY <1>2, LifecycleAssumption DEF TypeOK, PlaceSays, OnThread, Queued, Applied, Waits,
     AwaitSays, apply_ready_all, get_ready_to_push, Unlocked, objectVars, userVars,
     queueVars
<1>3. ASSUME NEW c \in Co, run(c) PROVE PlaceSays'
  BY <1>3, LifecycleAssumption DEF TypeOK, PlaceSays, OnThread, Queued, Applied, Waits,
     AwaitSays, run, objectVars, userVars, queueVars
<1>4. ASSUME NEW c \in Co, NEW d \in Co, NEW b \in BOOLEAN, construct(c, d, b) PROVE PlaceSays'
  <2>1. /\ d \notin alive /\ pc[d] = "none" /\ c # d /\ applying[c] = None
        /\ ~Queued(d) /\ ~Applied(d) /\ ~Waits(d) /\ ~OnThread(d)
    BY <1>4 DEF GoneSays, PlaceSays, OnThread, construct, Goto
  <2>2. /\ alive' = alive \cup {d} /\ status' = [status EXCEPT ![d] = "NEW"]
        /\ UNCHANGED <<ready, timer, await_caller>>
        /\ \A e \in Co : OnThread(e)' <=> OnThread(e)
    BY <1>4, <2>1 DEF TypeOK, OnThread, construct, apply, Goto
  <2>3. CASE buffer' = buffer \cup {d} /\ UNCHANGED applying
    BY <2>1, <2>2, <2>3 DEF TypeOK, PlaceSays, Queued, Applied, Waits
  <2>4. CASE applying' = [applying EXCEPT ![c] = d] /\ UNCHANGED buffer
    BY <2>1, <2>2, <2>4, LifecycleAssumption DEF TypeOK, PlaceSays, Queued, Applied, Waits
  <2> QED BY <1>4, <2>3, <2>4 DEF construct, apply
<1>5. ASSUME NEW c \in Co, NEW d \in Co, await_call(c, d) PROVE PlaceSays'
  BY <1>5, LifecycleAssumption DEF TypeOK, PlaceSays, OnThread, Queued, Applied, Waits,
     await_call, Goto, CountOp, objectVars, userVars, queueVars
<1>6. ASSUME NEW c \in Co, await_impl(c) PROVE PlaceSays'
  BY <1>6, LifecycleAssumption DEF TypeOK, PlaceSays, OnThread, Queued, Applied, Waits,
     await_impl, Goto, lock, Unlocked, objectVars, userVars, queueVars
<1>7. ASSUME NEW c \in Co, await_interrupt(c) PROVE PlaceSays'
  BY <1>7, LifecycleAssumption DEF TypeOK, PlaceSays, OnThread, Queued, Applied, Waits,
     await_interrupt, interrupt, Goto, lock, Unlocked, objectVars, userVars, queueVars
<1>8. ASSUME NEW c \in Co, register(c) PROVE PlaceSays'
  BY <1>8, LifecycleAssumption DEF TypeOK, PlaceSays, OnThread, Queued, Applied, Waits,
     HandleSays, AwaitPc, HoldPc, FreePc, AwaitSays, DeadSays, DyingPc, GoneSays,
     register, Goto, objectVars, userVars, queueVars
<1>9. ASSUME NEW c \in Co, release_caller(c) PROVE PlaceSays'
  BY <1>9, LifecycleAssumption DEF TypeOK, PlaceSays, OnThread, Queued, Applied, Waits,
     release_caller, Goto, unlock, objectVars, userVars, queueVars
<1>10. ASSUME NEW c \in Co, release_callee(c) PROVE PlaceSays'
  BY <1>10, LifecycleAssumption DEF TypeOK, PlaceSays, OnThread, Queued, Applied, Waits,
     release_callee, Goto, unlock, objectVars, userVars, queueVars
<1>11. ASSUME NEW c \in Co, await_return(c) PROVE PlaceSays'
  BY <1>11, LifecycleAssumption DEF TypeOK, PlaceSays, OnThread, Queued, Applied, Waits,
     await_return, Goto, objectVars, userVars, queueVars
<1>12. ASSUME NEW c \in Co, yield(c) PROVE PlaceSays'
  BY <1>12, LifecycleAssumption DEF TypeOK, PlaceSays, OnThread, Queued, Applied, Waits,
     yield, Goto, CountOp, objectVars, userVars, queueVars
<1>13. ASSUME NEW c \in Co, yield_interrupt(c) PROVE PlaceSays'
  BY <1>13, LifecycleAssumption DEF TypeOK, PlaceSays, OnThread, Queued, Applied, Waits,
     yield_interrupt, Goto, Unlocked, objectVars, userVars, queueVars
<1>14. ASSUME NEW c \in Co, yield_apply(c) PROVE PlaceSays'
  BY <1>14, LifecycleAssumption DEF TypeOK, PlaceSays, OnThread, Queued, Applied, Waits,
     DeadSays, DyingPc, GoneSays, yield_apply, Goto, apply, objectVars, userVars,
     queueVars
<1>15. ASSUME NEW c \in Co, NEW z \in {FALSE, ZeroSleep}, sleep(c, z) PROVE PlaceSays'
  BY <1>15, LifecycleAssumption DEF TypeOK, PlaceSays, OnThread, Queued, Applied, Waits,
     sleep, Goto, CountOp, objectVars, userVars, queueVars
<1>16. ASSUME NEW c \in Co, sleep_interrupt(c) PROVE PlaceSays'
  BY <1>16, LifecycleAssumption DEF TypeOK, PlaceSays, OnThread, Queued, Applied, Waits,
     sleep_interrupt, Goto, Unlocked, objectVars, userVars, queueVars
<1>17. ASSUME NEW c \in Co, add_task(c) PROVE PlaceSays'
  BY <1>17, LifecycleAssumption DEF TypeOK, PlaceSays, OnThread, Queued, Applied, Waits,
     DeadSays, DyingPc, GoneSays, add_task, Goto, objectVars, userVars, queueVars
<1>18. ASSUME NEW c \in Co, timeout(c) PROVE PlaceSays'
  BY <1>18, LifecycleAssumption DEF TypeOK, PlaceSays, OnThread, Queued, Applied, Waits,
     AwaitSays, timeout, objectVars, userVars, queueVars
<1>19. ASSUME NEW c \in Co, invoker_wrapper(c) PROVE PlaceSays'
  BY <1>19, LifecycleAssumption DEF TypeOK, PlaceSays, OnThread, Queued, Applied, Waits,
     invoker_wrapper, Goto, objectVars, userVars, queueVars
<1>20. ASSUME NEW c \in Co, dead_interrupt(c) PROVE PlaceSays'
  BY <1>20, LifecycleAssumption DEF TypeOK, PlaceSays, OnThread, Queued, Applied, Waits,
     dead_interrupt, interrupt, Goto, lock, Unlocked, objectVars, userVars, queueVars
<1>21. ASSUME NEW c \in Co, wakeup_await_co_all(c) PROVE PlaceSays'
  <2>1. /\ UNCHANGED <<status, alive, ready, timer>> /\ applying[c] = None
        /\ \A e \in Co : OnThread(e)' <=> OnThread(e)
    BY <1>21 DEF TypeOK, OnThread, wakeup_await_co_all, apply, Goto, queueVars
  <2>2. CASE UNCHANGED <<await_caller, queueVars>>
    BY <2>1, <2>2 DEF PlaceSays, Queued, Applied, Waits, queueVars
  <2>3. ASSUME NEW w \in await_caller[c], apply(c, w),
               await_caller' = [await_caller EXCEPT ![c] = await_caller[c] \ {w}]
        PROVE  PlaceSays'
    <3>0. w \in Co /\ w # None /\ \A e \in Co : w \in await_caller[e] => e = c
      BY <2>3, LifecycleAssumption DEF TypeOK, AwaitSays
    <3>a. await_caller \in [Co -> SUBSET Co]
      BY DEF TypeOK
    <3>1. \A e, u \in Co : u \in await_caller'[e] => u \in await_caller[e] /\ u # w
      BY <2>3, <3>0, <3>a
    <3>2. ~OnThread(w) /\ w \in alive /\ status[w] # "DEAD" /\ ~Queued(w) /\ ~Applied(w)
      BY <2>3, <3>0 DEF PlaceSays, Waits
    <3>3. CASE buffer' = buffer \cup {w} /\ UNCHANGED applying
      BY <2>1, <3>0, <3>1, <3>2, <3>3 DEF TypeOK, PlaceSays, Queued, Applied, Waits
    <3>4. CASE applying' = [applying EXCEPT ![c] = w] /\ UNCHANGED buffer
      BY <2>1, <3>0, <3>1, <3>2, <3>4, LifecycleAssumption DEF TypeOK, PlaceSays,
          Queued, Applied, Waits
    <3> QED BY <2>3, <3>3, <3>4 DEF apply
  <2>4. \/ UNCHANGED <<await_caller, queueVars>>
        \/ \E w \in await_caller[c] : apply(c, w) /\ await_caller' = [await_caller EXCEPT ![c] = await_caller[c] \ {w}]
    BY <1>21 DEF wakeup_await_co_all
  <2> QED BY <2>2, <2>3, <2>4
<1>22. ASSUME NEW c \in Co, free_stk(c) PROVE PlaceSays'
  BY <1>22, LifecycleAssumption DEF TypeOK, PlaceSays, OnThread, Queued, Applied, Waits,
     free_stk, Goto, objectVars, userVars, queueVars
<1>23. ASSUME NEW c \in Co, dead_finish(c) PROVE PlaceSays'
  BY <1>23, LifecycleAssumption DEF TypeOK, PlaceSays, OnThread, Queued, Applied, Waits,
     DeadSays, DyingPc, dead_finish, Goto, unlock, objectVars, userVars, queueVars
<1>24. ASSUME NEW c \in Co, NEW d \in Co, destroy_call(c, d) PROVE PlaceSays'
  BY <1>24, LifecycleAssumption DEF TypeOK, PlaceSays, OnThread, Queued, Applied, Waits,
     destroy_call, Goto, objectVars, userVars, queueVars
<1>25. ASSUME NEW c \in Co, wait_until_lockable(c) PROVE PlaceSays'
  BY <1>25, LifecycleAssumption DEF TypeOK, PlaceSays, OnThread, Queued, Applied, Waits,
     wait_until_lockable, Goto, Unlocked, objectVars, userVars, queueVars
<1>26. ASSUME NEW c \in Co, destroy(c) PROVE PlaceSays'
  <2>1. UNCHANGED <<status, await_caller, queueVars>>
    BY <1>26 DEF destroy
  <2>2. CASE UNCHANGED <<alive, pc>>
    BY <2>1, <2>2 DEF PlaceSays, OnThread, Queued, Applied, Waits, queueVars
  <2>3. CASE status[handle[c]] = "DEAD" /\ Goto(c, "check", "body") /\ alive' = alive \ {handle[c]}
    <3>1. \A e \in Co : OnThread(e)' \/ e \notin alive' => OnThread(e) \/ e \notin alive \/ status[e] = "DEAD"
      BY <2>3 DEF TypeOK, OnThread, Goto
    <3>2. \A e \in Co : (Queued(e)' <=> Queued(e)) /\ (Applied(e)' <=> Applied(e)) /\ (Waits(e)' <=> Waits(e))
      BY <2>1 DEF Queued, Applied, Waits, queueVars
    <3> QED BY <2>1, <3>1, <3>2 DEF PlaceSays, queueVars
  <2> QED BY <1>26, <2>2, <2>3 DEF destroy
<1>27. CASE UNCHANGED vars
  BY <1>27 DEF TypeOK, PlaceSays, OnThread, Queued, Applied, Waits, vars, objectVars,
     userVars, queueVars
<1> QED BY <1>1, <1>2, <1>3, <1>4, <1>5, <1>6, <1>7, <1>8, <1>9, <1>10, <1>11, <1>12,
     <1>13, <1>14, <1>15, <1>16, <1>17, <1>18, <1>19, <1>20, <1>21, <1>22, <1>23, <1>24,
     <1>25, <1>26, <1>27 DEF Next, Step, Choose, Serve

(* No coroutine is forgotten.                                               *)
LEMMA KeptStep ==
  ASSUME TypeOK, HandleSays, AwaitSays, DeadSays, GoneSays, PlaceSays, KeptSays, [Next]_vars
  PROVE  KeptSays'
<1>1. ASSUME NEW c \in Co, apply_end(c) PROVE KeptSays'
  BY <1>1, LifecycleAssumption DEF TypeOK, KeptSays, OnThread, Queued, Applied, Waits,
     Resting, AwaitSays, PlaceSays, DeadSays, DyingPc, apply_end, get_ready_to_push,
     Unlocked, objectVars, userVars, queueVars
<1>2. ASSUME NEW c \in Co, apply_ready_all(c) PROVE KeptSays'
  BY <1>2, LifecycleAssumption DEF TypeOK, KeptSays, OnThread, Queued, Applied, Waits,
     Resting, AwaitSays, PlaceSays, DeadSays, DyingPc, apply_ready_all,
     get_ready_to_push, Unlocked, objectVars, userVars, queueVars
<1>3. ASSUME NEW c \in Co, run(c) PROVE KeptSays'
  BY <1>3, LifecycleAssumption DEF TypeOK, KeptSays, OnThread, Queued, Applied, Waits,
     Resting, AwaitSays, PlaceSays, DeadSays, DyingPc, run, objectVars, userVars,
     queueVars
<1>4. ASSUME NEW c \in Co, NEW d \in Co, NEW b \in BOOLEAN, construct(c, d, b) PROVE KeptSays'
  BY <1>4, LifecycleAssumption DEF TypeOK, KeptSays, OnThread, Queued, Applied, Waits,
     Resting, AwaitSays, PlaceSays, DeadSays, DyingPc, construct, Goto, apply, CountOp,
     objectVars, userVars, queueVars
<1>5. ASSUME NEW c \in Co, NEW d \in Co, await_call(c, d) PROVE KeptSays'
  BY <1>5, LifecycleAssumption DEF TypeOK, KeptSays, OnThread, Queued, Applied, Waits,
     Resting, AwaitSays, PlaceSays, DeadSays, DyingPc, await_call, Goto, CountOp,
     objectVars, userVars, queueVars
<1>6. ASSUME NEW c \in Co, await_impl(c) PROVE KeptSays'
  BY <1>6, LifecycleAssumption DEF TypeOK, KeptSays, OnThread, Queued, Applied, Waits,
     Resting, AwaitSays, PlaceSays, DeadSays, DyingPc, await_impl, Goto, lock, Unlocked,
     objectVars, userVars, queueVars
<1>7. ASSUME NEW c \in Co, await_interrupt(c) PROVE KeptSays'
  BY <1>7, LifecycleAssumption DEF TypeOK, KeptSays, OnThread, Queued, Applied, Waits,
     Resting, AwaitSays, PlaceSays, DeadSays, DyingPc, await_interrupt, interrupt, Goto,
     lock, Unlocked, objectVars, userVars, queueVars
<1>8. ASSUME NEW c \in Co, register(c) PROVE KeptSays'
  <2>1. handle[c] \in Co /\ c \in await_caller'[handle[c]]
    BY <1>8 DEF TypeOK, HandleSays, AwaitPc, register, Goto
  <2>2. Waits(c)'
    BY <2>1 DEF Waits
  <2>3. \A x \in Co : Waits(x) => Waits(x)'
    BY <1>8 DEF TypeOK, Waits, register
  <2> QED
    BY <1>8, <2>2, <2>3 DEF TypeOK, KeptSays, OnThread, Queued, Applied, Resting,
        register, Goto,
       userVars, queueVars
<1>9. ASSUME NEW c \in Co, release_caller(c) PROVE KeptSays'
  BY <1>9, LifecycleAssumption DEF TypeOK, KeptSays, OnThread, Queued, Applied, Waits,
     Resting, AwaitSays, PlaceSays, DeadSays, DyingPc, release_caller, Goto, unlock,
     objectVars, userVars, queueVars
<1>10. ASSUME NEW c \in Co, release_callee(c) PROVE KeptSays'
  BY <1>10, LifecycleAssumption DEF TypeOK, KeptSays, OnThread, Queued, Applied, Waits,
     Resting, AwaitSays, PlaceSays, DeadSays, DyingPc, release_callee, Goto, unlock,
     objectVars, userVars, queueVars
<1>11. ASSUME NEW c \in Co, await_return(c) PROVE KeptSays'
  BY <1>11, LifecycleAssumption DEF TypeOK, KeptSays, OnThread, Queued, Applied, Waits,
     Resting, AwaitSays, PlaceSays, DeadSays, DyingPc, await_return, Goto, objectVars,
     userVars, queueVars
<1>12. ASSUME NEW c \in Co, yield(c) PROVE KeptSays'
  BY <1>12, LifecycleAssumption DEF TypeOK, KeptSays, OnThread, Queued, Applied, Waits,
     Resting, AwaitSays, PlaceSays, DeadSays, DyingPc, yield, Goto, CountOp, objectVars,
     userVars, queueVars
<1>13. ASSUME NEW c \in Co, yield_interrupt(c) PROVE KeptSays'
  BY <1>13, LifecycleAssumption DEF TypeOK, KeptSays, OnThread, Queued, Applied, Waits,
     Resting, AwaitSays, PlaceSays, DeadSays, DyingPc, yield_interrupt, Goto, Unlocked,
     objectVars, userVars, queueVars
<1>14. ASSUME NEW c \in Co, yield_apply(c) PROVE KeptSays'
  BY <1>14, LifecycleAssumption DEF TypeOK, KeptSays, OnThread, Queued, Applied, Waits,
     Resting, AwaitSays, PlaceSays, DeadSays, DyingPc, yield_apply, Goto, apply,
     objectVars, userVars, queueVars
<1>15. ASSUME NEW c \in Co, NEW z \in {FALSE, ZeroSleep}, sleep(c, z) PROVE KeptSays'
  BY <1>15, LifecycleAssumption DEF TypeOK, KeptSays, OnThread, Queued, Applied, Waits,
     Resting, AwaitSays, PlaceSays, DeadSays, DyingPc, sleep, Goto, CountOp, objectVars,
     userVars, queueVars
<1>16. ASSUME NEW c \in Co, sleep_interrupt(c) PROVE KeptSays'
  BY <1>16, LifecycleAssumption DEF TypeOK, KeptSays, OnThread, Queued, Applied, Waits,
     Resting, AwaitSays, PlaceSays, DeadSays, DyingPc, sleep_interrupt, Goto, Unlocked,
     objectVars, userVars, queueVars
<1>17. ASSUME NEW c \in Co, add_task(c) PROVE KeptSays'
  BY <1>17, LifecycleAssumption DEF TypeOK, KeptSays, OnThread, Queued, Applied, Waits,
     Resting, AwaitSays, PlaceSays, DeadSays, DyingPc, add_task, Goto, objectVars,
     userVars, queueVars
<1>18. ASSUME NEW c \in Co, timeout(c) PROVE KeptSays'
  BY <1>18, LifecycleAssumption DEF TypeOK, KeptSays, OnThread, Queued, Applied, Waits,
     Resting, AwaitSays, PlaceSays, DeadSays, DyingPc, timeout, objectVars, userVars,
     queueVars
<1>19. ASSUME NEW c \in Co, invoker_wrapper(c) PROVE KeptSays'
  BY <1>19, LifecycleAssumption DEF TypeOK, KeptSays, OnThread, Queued, Applied, Waits,
     Resting, AwaitSays, PlaceSays, DeadSays, DyingPc, invoker_wrapper, Goto,
     objectVars, userVars, queueVars
<1>20. ASSUME NEW c \in Co, dead_interrupt(c) PROVE KeptSays'
  BY <1>20, LifecycleAssumption DEF TypeOK, KeptSays, OnThread, Queued, Applied, Waits,
     Resting, AwaitSays, PlaceSays, DeadSays, DyingPc, dead_interrupt, interrupt, Goto,
     lock, Unlocked, objectVars, userVars, queueVars
<1>21. ASSUME NEW c \in Co, wakeup_await_co_all(c) PROVE KeptSays'
  BY <1>21, LifecycleAssumption DEF TypeOK, KeptSays, OnThread, Queued, Applied, Waits,
     Resting, AwaitSays, PlaceSays, DeadSays, DyingPc, wakeup_await_co_all, Goto, apply,
     objectVars, userVars, queueVars
<1>22. ASSUME NEW c \in Co, free_stk(c) PROVE KeptSays'
  BY <1>22, LifecycleAssumption DEF TypeOK, KeptSays, OnThread, Queued, Applied, Waits,
     Resting, AwaitSays, PlaceSays, DeadSays, DyingPc, free_stk, Goto, objectVars,
     userVars, queueVars
<1>23. ASSUME NEW c \in Co, dead_finish(c) PROVE KeptSays'
  BY <1>23, LifecycleAssumption DEF TypeOK, KeptSays, OnThread, Queued, Applied, Waits,
     Resting, AwaitSays, PlaceSays, DeadSays, DyingPc, dead_finish, Goto, unlock,
     objectVars, userVars, queueVars
<1>24. ASSUME NEW c \in Co, NEW d \in Co, destroy_call(c, d) PROVE KeptSays'
  BY <1>24, LifecycleAssumption DEF TypeOK, KeptSays, OnThread, Queued, Applied, Waits,
     Resting, AwaitSays, PlaceSays, DeadSays, DyingPc, destroy_call, Goto, objectVars,
     userVars, queueVars
<1>25. ASSUME NEW c \in Co, wait_until_lockable(c) PROVE KeptSays'
  BY <1>25, LifecycleAssumption DEF TypeOK, KeptSays, OnThread, Queued, Applied, Waits,
     Resting, AwaitSays, PlaceSays, DeadSays, DyingPc, wait_until_lockable, Goto,
     Unlocked, objectVars, userVars, queueVars
<1>26. ASSUME NEW c \in Co, destroy(c) PROVE KeptSays'
  BY <1>26, LifecycleAssumption DEF TypeOK, KeptSays, OnThread, Queued, Applied, Waits,
     Resting, AwaitSays, PlaceSays, DeadSays, DyingPc, destroy, Goto, objectVars,
     userVars, queueVars
<1>27. CASE UNCHANGED vars
  BY <1>27 DEF TypeOK, KeptSays, OnThread, Queued, Applied, Waits, Resting, vars,
     objectVars, userVars, queueVars
<1> QED BY <1>1, <1>2, <1>3, <1>4, <1>5, <1>6, <1>7, <1>8, <1>9, <1>10, <1>11, <1>12,
     <1>13, <1>14, <1>15, <1>16, <1>17, <1>18, <1>19, <1>20, <1>21, <1>22, <1>23, <1>24,
     <1>25, <1>26, <1>27 DEF Next, Step, Choose, Serve

(* The inductive invariant.                                                 *)
LEMMA InitLife == Init => LifeInv
BY LifecycleAssumption DEF Init, LifeInv, TypeOK, Pc, Status, LockSays, HandleSays,
    AwaitSays, FreeSays,
   FrameSays, DeadSays, GoneSays, PlaceSays, KeptSays, AwaitPc, HoldPc, DyingPc, FreePc, OnThread,
   Queued, Applied, Waits, Resting, Unlocked

(* No destructor throws: what has been awaited is dead.                     *)
LEMMA NothingThrown ==
  ASSUME TypeOK, FreeSays, DeadSays, thrown = None, [Next]_vars, ~Careless
  PROVE  thrown' = None
<1>1. ASSUME NEW c \in Co, destroy(c) PROVE thrown' = None
  BY <1>1 DEF destroy, FreeSays, FreePc, DeadSays
<1>2. ASSUME NEW c \in Co, apply_end(c) \/ Serve(c) PROVE thrown' = None
  BY <1>2 DEF apply_end, Serve, apply_ready_all, run, timeout, get_ready_to_push, userVars
<1>3. ASSUME NEW c \in Co, Choose(c) PROVE thrown' = None
  BY <1>3 DEF Choose, construct, await_call, destroy_call, yield, sleep,
      invoker_wrapper, userVars
<1>4. ASSUME NEW c \in Co, Step(c), ~destroy(c) PROVE thrown' = None
  BY <1>4 DEF Step, await_impl, await_interrupt, interrupt, register, release_caller,
     release_callee, await_return, yield_interrupt, yield_apply, sleep_interrupt, add_task,
     dead_interrupt, wakeup_await_co_all, free_stk, dead_finish, wait_until_lockable, userVars
<1>5. CASE UNCHANGED vars
  BY <1>5 DEF vars, userVars
<1> QED BY <1>1, <1>2, <1>3, <1>4, <1>5 DEF Next

LEMMA NextLife == ~Careless => (LifeInv /\ [Next]_vars => LifeInv')
BY TypeStep, LockStep, HandleStep, AwaitStep, FreeStep, FrameStep, DeadStep, GoneStep,
    PlaceStep,
   KeptStep, NothingThrown DEF LifeInv

LEMMA LifeInvariance == ASSUME ~Careless PROVE Spec => []LifeInv
BY InitLife, NextLife, PTL DEF Spec

-----------------------------------------------------------------------------
(* What is in Places(c).                                                    *)
LEMMA PlacesOf ==
  ASSUME NEW c \in Co
  PROVE  \A p : p \in Places(c) <=>
           \/ p = <<"thread", c>> /\ OnThread(c)
           \/ \E d \in Co : p = <<"applied by", d>> /\ applying[d] = c
           \/ \E d \in Co : p = <<"waits for", d>> /\ c \in await_caller[d]
           \/ p = <<"buffer", c>> /\ c \in buffer
           \/ p = <<"ready", c>> /\ c \in ready
           \/ p = <<"timer", c>> /\ c \in timer
<1> DEFINE Thread  == {"thread"} \X {d \in {c} : pc[d] \notin {"none", "releaseCaller", "releaseCallee"}}
           Apply   == {"applied by"} \X {d \in Co : applying[d] = c}
           Wait    == {"waits for"} \X {d \in Co : c \in await_caller[d]}
           Buffer  == {"buffer"} \X ({c} \cap buffer)
           Ready   == {"ready"} \X ({c} \cap ready)
           Asleep  == {"timer"} \X ({c} \cap timer)
<1>1. \A p : p \in Thread <=> p = <<"thread", c>> /\ OnThread(c)
  BY DEF OnThread
<1>2. \A p : p \in Apply <=> \E d \in Co : p = <<"applied by", d>> /\ applying[d] = c
  <2> DEFINE tag == "applied by"
  <2> HIDE DEF tag
  <2>1. \A p : p \in {tag} \X {d \in Co : applying[d] = c} <=> \E d \in Co : p = <<tag, d>> /\ applying[d] = c
    OBVIOUS
  <2> QED BY <2>1 DEF tag
<1>3. \A p : p \in Wait <=> \E d \in Co : p = <<"waits for", d>> /\ c \in await_caller[d]
  <2> DEFINE tag == "waits for"
  <2> HIDE DEF tag
  <2>1. \A p : p \in {tag} \X {d \in Co : c \in await_caller[d]} <=> \E d \in Co : p = <<tag, d>> /\ c \in await_caller[d]
    OBVIOUS
  <2> QED BY <2>1 DEF tag
<1>4. \A p : /\ p \in Buffer <=> p = <<"buffer", c>> /\ c \in buffer
             /\ p \in Ready <=> p = <<"ready", c>> /\ c \in ready
             /\ p \in Asleep <=> p = <<"timer", c>> /\ c \in timer
  OBVIOUS
<1>5. Places(c) = UNION {Thread, Apply, Wait, Buffer, Ready, Asleep}
  BY DEF Places
<1> HIDE DEF Thread, Apply, Wait, Buffer, Ready, Asleep
<1>6. \A p : p \in Places(c) <=> \/ p \in Thread \/ p \in Apply \/ p \in Wait
                                 \/ p \in Buffer \/ p \in Ready \/ p \in Asleep
  BY <1>5
<1> QED BY <1>1, <1>2, <1>3, <1>4, <1>6

(* A coroutine that is nowhere has no place.                                *)
LEMMA NoPlace ==
  ASSUME NEW c \in Co, ~OnThread(c), ~Queued(c), ~Applied(c), ~Waits(c)
  PROVE  Places(c) = {}
BY PlacesOf DEF Queued, Applied, Waits

(* Every place of a coroutine is the only one.                              *)
LEMMA OnlyPlace ==
  ASSUME TypeOK, HandleSays, AwaitSays, PlaceSays, NEW c \in Co, NEW p \in Places(c)
  PROVE  Places(c) = {p}
<1> SUFFICES ASSUME NEW q \in Places(c) PROVE q = p
  OBVIOUS
<1>0. /\ \A d, e \in Co : applying[d] = c /\ applying[e] = c => d = e
      /\ \A d, e \in Co : c \in await_caller[d] /\ c \in await_caller[e] => d = e
  BY LifecycleAssumption DEF PlaceSays, AwaitSays
<1>1. CASE OnThread(c)
  <2>1. ~Queued(c) /\ ~Applied(c) /\ ~Waits(c)
    BY <1>1 DEF PlaceSays
  <2>2. \A r \in Places(c) : r = <<"thread", c>>
    BY <2>1, PlacesOf DEF Queued, Applied, Waits
  <2> QED BY <2>2
<1>2. CASE Applied(c)
  <2>1. ~OnThread(c) /\ ~Queued(c) /\ ~Waits(c)
    BY <1>2 DEF PlaceSays
  <2>2. \A r \in Places(c) : \E d \in Co : r = <<"applied by", d>> /\ applying[d] = c
    BY <2>1, PlacesOf DEF Queued, Waits
  <2> QED BY <1>0, <2>2
<1>3. CASE Waits(c)
  <2>1. ~OnThread(c) /\ ~Queued(c) /\ ~Applied(c)
    BY <1>3 DEF PlaceSays
  <2>2. \A r \in Places(c) : \E d \in Co : r = <<"waits for", d>> /\ c \in await_caller[d]
    BY <2>1, PlacesOf DEF Queued, Applied
  <2> QED BY <1>0, <2>2
<1>4. CASE Queued(c)
  <2>1. ~OnThread(c) /\ ~Applied(c) /\ ~Waits(c)
    BY <1>4 DEF PlaceSays
  <2>2. \A r \in Places(c) : \/ r = <<"buffer", c>> /\ c \in buffer
                             \/ r = <<"ready", c>> /\ c \in ready
                             \/ r = <<"timer", c>> /\ c \in timer
    BY <2>1, PlacesOf DEF Applied, Waits
  <2> QED BY <2>2 DEF PlaceSays
<1>5. OnThread(c) \/ Queued(c) \/ Applied(c) \/ Waits(c)
  BY PlacesOf DEF Queued, Applied, Waits
<1> QED BY <1>1, <1>2, <1>3, <1>4, <1>5

(* What CoroutinesKept says of a state.                                     *)
LEMMA KeptEverywhere ==
  ASSUME LifeInv
  PROVE  CoroutinesKept
<1> USE DEF LifeInv
<1>1. OnlyUnjoinedThrows
  BY DEF OnlyUnjoinedThrows
<1>2. ASSUME NEW c \in alive
      PROVE  Cardinality(Places(c)) = 1 \/ (Places(c) = {} /\ (Resting(c) \/ c \in sleep_zero))
  <2>0. c \in Co
    BY DEF TypeOK
  <2>1. CASE \E p : p \in Places(c)
    BY <2>0, <2>1, OnlyPlace, FS_Singleton
  <2>2. CASE Places(c) = {}
    <3>1. ~OnThread(c) /\ ~Queued(c) /\ ~Applied(c) /\ ~Waits(c)
      BY <2>0, <2>2, PlacesOf DEF Queued, Applied, Waits
    <3> QED BY <2>2, <3>1 DEF KeptSays
  <2> QED BY <2>1, <2>2
<1>3. NoLateCaller
  BY DEF NoLateCaller, DeadSays, DyingPc, Resting, GoneSays
<1>4. InvokerAlive
  <2> SUFFICES ASSUME NEW d \in alive, invoker[d] = "frame", d \notin written
               PROVE  /\ handle[owner[d]] = d
                      /\ pc[owner[d]] \notin {"returned", "waitLock", "check", "body"}
    BY DEF InvokerAlive
  <2>1. owner[d] \in Co /\ handle[owner[d]] = d /\ d # None /\ status[d] # "DEAD"
    BY LifecycleAssumption DEF FrameSays, DeadSays, TypeOK
  <2>2. pc[owner[d]] \notin {"returned", "body"}
    BY <2>1 DEF HandleSays, AwaitSays, AwaitPc, FreePc
  <2>3. pc[owner[d]] \notin FreePc
    BY <2>1 DEF FreeSays, DeadSays
  <2> QED BY <2>1, <2>2, <2>3 DEF FreePc
<1>5. AwaitFindsValue
  BY DEF AwaitFindsValue, HandleSays, AwaitSays, DeadSays, AwaitPc
<1>6. OnePlace
  BY <1>2 DEF OnePlace
<1> QED BY <1>1, <1>3, <1>4, <1>5, <1>6 DEF CoroutinesKept

(* A coroutine is in one place from create to death, a dying one gets no    *)
(* caller more, the invoker of a co::await outlives its use, an await finds *)
(* the value of its callee, and no destructor of an awaited handle throws.  *)
THEOREM CoroutinesNeverLost == ASSUME ~Careless PROVE Spec => []CoroutinesKept
BY LifeInvariance, KeptEverywhere, PTL

-----------------------------------------------------------------------------
(* What destroy frees.                                                      *)
LEMMA FreesAtRest ==
  ASSUME LifeInv, NEW c \in Co, destroy(c), NEW d \in alive \ alive'
  PROVE  /\ Resting(d) /\ Places(d) = {} /\ Unlocked(d) /\ await_caller[d] = {}
         /\ \A e \in Co : handle'[e] # d
<1> USE DEF LifeInv
<1>1. /\ d = handle[c] /\ d \in Co /\ pc[c] = "check" /\ status[d] = "DEAD"
      /\ handle' = [handle EXCEPT ![c] = None]
  BY DEF destroy, Goto, TypeOK
<1>2. Unlocked(d) /\ \A e \in Co : handle[e] = d => e = c
  BY <1>1 DEF FreeSays, FreePc
<1>3. pc[d] = "none"
  BY <1>1, <1>2, LifecycleAssumption DEF DeadSays, LockSays, Unlocked
<1>4. await_caller[d] = {}
  BY <1>1, <1>3 DEF DeadSays
<1>5. Places(d) = {}
  BY <1>1, <1>3, NoPlace DEF PlaceSays, OnThread
<1>6. \A e \in Co : handle'[e] # d
  BY <1>1, <1>2, LifecycleAssumption DEF TypeOK
<1> QED BY <1>1, <1>2, <1>3, <1>4, <1>5, <1>6 DEF Resting

(* Only destroy frees.                                                      *)
LEMMA OnlyDestroyFrees ==
  ASSUME [Next]_vars, NEW d \in alive \ alive'
  PROVE  \E c \in Co : destroy(c)
<1>2. ASSUME NEW c \in Co, apply_end(c) \/ Serve(c) PROVE FALSE
  BY <1>2 DEF apply_end, Serve, apply_ready_all, run, timeout, get_ready_to_push, objectVars
<1>3. ASSUME NEW c \in Co, Choose(c) PROVE FALSE
  BY <1>3 DEF Choose, construct, await_call, destroy_call, yield, sleep,
      invoker_wrapper, objectVars
<1>4. ASSUME NEW c \in Co, Step(c), ~destroy(c) PROVE FALSE
  BY <1>4 DEF Step, await_impl, await_interrupt, interrupt, register, release_caller,
     release_callee, await_return, yield_interrupt, yield_apply, sleep_interrupt, add_task,
     dead_interrupt, wakeup_await_co_all, free_stk, dead_finish, wait_until_lockable, objectVars
<1>5. CASE UNCHANGED vars
  BY <1>5 DEF vars, objectVars
<1> QED BY <1>2, <1>3, <1>4, <1>5 DEF Next

(* A Co_t is freed when its callback is over, its lock is free, it is in no *)
(* queue and nobody awaits it, if every handle is awaited before it is      *)
(* destroyed.                                                               *)
THEOREM FreedWhenAtRest == ASSUME ~Careless PROVE Spec => FreedOnlyAtRest
<1>1. LifeInv /\ [Next]_vars =>
        [\A d \in alive \ alive' :
           /\ Resting(d) /\ Places(d) = {} /\ Unlocked(d) /\ await_caller[d] = {}
           /\ \A c \in Co : handle'[c] # d]_vars
  BY FreesAtRest, OnlyDestroyFrees
<1> QED BY <1>1, LifeInvariance, PTL DEF Spec, FreedOnlyAtRest

-----------------------------------------------------------------------------
(* Every step of a coroutine is a step of Join or a stutter.                *)
LEMMA NextJoin ==
  ASSUME LifeInv, [Next]_vars, ~Careless
  PROVE  [J!Next]_J!vars
<1> USE LifecycleAssumption DEF LifeInv
<1>1. ASSUME NEW c \in Co, apply_end(c) PROVE UNCHANGED <<phase, awaited>>
  BY <1>1 DEF TypeOK, phase, awaited, PlaceSays, OnThread, Queued, Applied, Waits,
     apply_end, get_ready_to_push, Unlocked, objectVars, userVars, queueVars
<1>2. ASSUME NEW c \in Co, apply_ready_all(c) PROVE UNCHANGED <<phase, awaited>>
  BY <1>2 DEF TypeOK, phase, awaited, PlaceSays, OnThread, Queued, Applied, Waits,
     apply_ready_all, get_ready_to_push, Unlocked, objectVars, userVars, queueVars
<1>3. ASSUME NEW c \in Co, run(c) PROVE UNCHANGED <<phase, awaited>>
  BY <1>3 DEF TypeOK, phase, awaited, PlaceSays, OnThread, Queued, Applied, Waits,
     AwaitSays, run, objectVars, userVars, queueVars
<1>4. ASSUME NEW c \in Co, NEW d \in Co, NEW b \in BOOLEAN, construct(c, d, b) PROVE
     J!Create(d)
  <2>1. c # d /\ d \notin alive /\ handle[c] = None /\ handle[d] = None /\ pc[d] = "none"
    BY <1>4 DEF HandleSays, AwaitPc, FreePc, GoneSays, construct, Goto
  <2>2. phase[d] = "none" /\ phase' = [phase EXCEPT ![d] = "live"]
    BY <1>4, <2>1 DEF TypeOK, phase, construct
  <2>3. awaited' = awaited
    BY <1>4, <2>1 DEF TypeOK, awaited, construct, Goto
  <2> QED BY <2>2, <2>3 DEF J!Create
<1>5. ASSUME NEW c \in Co, NEW d \in Co, await_call(c, d) PROVE UNCHANGED <<phase,
     awaited>>
  BY <1>5 DEF TypeOK, phase, awaited, HandleSays, AwaitPc, HoldPc, FreePc, await_call,
     Goto, CountOp, objectVars, userVars, queueVars
<1>6. ASSUME NEW c \in Co, await_impl(c) PROVE \E d \in Co : J!Call(c, d)
  <2>1. /\ handle[c] \in Co /\ handle[c] # None /\ pc[c] = "lock"
        /\ handle[c] \in alive /\ c \in alive /\ status[c] # "DEAD"
    BY <1>6 DEF TypeOK, HandleSays, AwaitPc, DeadSays, DyingPc, GoneSays, await_impl
  <2>2. phase' = phase /\ phase[c] = "live" /\ phase[handle[c]] # "none" /\ awaited[c] = None
    BY <1>6, <2>1 DEF phase, awaited, await_impl
  <2>3. awaited' = [awaited EXCEPT ![c] = handle[c]]
    BY <1>6 DEF TypeOK, awaited, await_impl, Goto
  <2> QED BY <2>1, <2>2, <2>3 DEF J!Call
<1>7. ASSUME NEW c \in Co, await_interrupt(c) PROVE UNCHANGED <<phase, awaited>>
  BY <1>7 DEF TypeOK, phase, awaited, HandleSays, AwaitPc, HoldPc, FreePc, DeadSays,
     DyingPc, await_interrupt, interrupt, Goto, lock, Unlocked, objectVars, userVars,
     queueVars
<1>8. ASSUME NEW c \in Co, register(c) PROVE UNCHANGED <<phase, awaited>>
  BY <1>8 DEF TypeOK, phase, awaited, HandleSays, AwaitPc, HoldPc, FreePc, DeadSays,
     DyingPc, register, Goto, objectVars, userVars, queueVars
<1>9. ASSUME NEW c \in Co, release_caller(c) PROVE UNCHANGED <<phase, awaited>>
  BY <1>9 DEF TypeOK, phase, awaited, HandleSays, AwaitPc, HoldPc, FreePc, DeadSays,
     DyingPc, release_caller, Goto, unlock, objectVars, userVars, queueVars
<1>10. ASSUME NEW c \in Co, release_callee(c) PROVE UNCHANGED <<phase, awaited>>
  BY <1>10 DEF TypeOK, phase, awaited, HandleSays, AwaitPc, HoldPc, FreePc, DeadSays,
     DyingPc, release_callee, Goto, unlock, objectVars, userVars, queueVars
<1>11. ASSUME NEW c \in Co, await_return(c) PROVE J!Return(c)
  <2>1. /\ handle[c] \in Co /\ handle[c] # None /\ pc[c] = "returned"
        /\ handle[c] \in alive /\ status[handle[c]] = "DEAD"
    BY <1>11 DEF TypeOK, HandleSays, AwaitSays, AwaitPc, await_return, Goto
  <2>2. phase' = phase /\ phase[handle[c]] = "ended" /\ awaited[c] = handle[c]
    BY <1>11, <2>1 DEF phase, awaited, await_return, objectVars
  <2>3. awaited' = [awaited EXCEPT ![c] = None]
    BY <1>11 DEF TypeOK, awaited, await_return, Goto
  <2> QED BY <2>1, <2>2, <2>3 DEF J!Return
<1>12. ASSUME NEW c \in Co, yield(c) PROVE UNCHANGED <<phase, awaited>>
  BY <1>12 DEF TypeOK, phase, awaited, HandleSays, AwaitPc, HoldPc, FreePc, DeadSays,
     DyingPc, yield, Goto, CountOp, objectVars, userVars, queueVars
<1>13. ASSUME NEW c \in Co, yield_interrupt(c) PROVE UNCHANGED <<phase, awaited>>
  BY <1>13 DEF TypeOK, phase, awaited, HandleSays, AwaitPc, HoldPc, FreePc, DeadSays,
     DyingPc, yield_interrupt, Goto, Unlocked, objectVars, userVars, queueVars
<1>14. ASSUME NEW c \in Co, yield_apply(c) PROVE UNCHANGED <<phase, awaited>>
  BY <1>14 DEF TypeOK, phase, awaited, HandleSays, AwaitPc, HoldPc, FreePc, DeadSays,
     DyingPc, yield_apply, Goto, apply, objectVars, userVars, queueVars
<1>15. ASSUME NEW c \in Co, NEW z \in {FALSE, ZeroSleep}, sleep(c, z) PROVE UNCHANGED
     <<phase, awaited>>
  BY <1>15 DEF TypeOK, phase, awaited, HandleSays, AwaitPc, HoldPc, FreePc, DeadSays,
     DyingPc, sleep, Goto, CountOp, objectVars, userVars, queueVars
<1>16. ASSUME NEW c \in Co, sleep_interrupt(c) PROVE UNCHANGED <<phase, awaited>>
  BY <1>16 DEF TypeOK, phase, awaited, HandleSays, AwaitPc, HoldPc, FreePc, DeadSays,
     DyingPc, sleep_interrupt, Goto, Unlocked, objectVars, userVars, queueVars
<1>17. ASSUME NEW c \in Co, add_task(c) PROVE UNCHANGED <<phase, awaited>>
  BY <1>17 DEF TypeOK, phase, awaited, HandleSays, AwaitPc, HoldPc, FreePc, DeadSays,
     DyingPc, add_task, Goto, objectVars, userVars, queueVars
<1>18. ASSUME NEW c \in Co, timeout(c) PROVE UNCHANGED <<phase, awaited>>
  BY <1>18 DEF TypeOK, phase, awaited, HandleSays, AwaitPc, HoldPc, FreePc, DeadSays,
     DyingPc, timeout, objectVars, userVars, queueVars
<1>19. ASSUME NEW c \in Co, invoker_wrapper(c) PROVE UNCHANGED <<phase, awaited>>
  BY <1>19 DEF TypeOK, phase, awaited, HandleSays, AwaitPc, HoldPc, FreePc, DeadSays,
     DyingPc, invoker_wrapper, Goto, objectVars, userVars, queueVars
<1>20. ASSUME NEW c \in Co, dead_interrupt(c) PROVE J!End(c)
  <2>1. c \in alive /\ status[c] # "DEAD" /\ handle[c] = None /\ pc[c] = "dead"
    BY <1>20 DEF HandleSays, AwaitPc, FreePc, DeadSays, DyingPc, GoneSays,
        dead_interrupt, interrupt, Goto
  <2>2. phase[c] = "live" /\ awaited[c] = None
    BY <2>1 DEF phase, awaited
  <2>3. status' = [status EXCEPT ![c] = "DEAD"] /\ alive' = alive /\ handle' = handle
        /\ pc' = [pc EXCEPT ![c] = "wakeup"]
    BY <1>20 DEF dead_interrupt, interrupt, Goto
  <2>4. phase' = [phase EXCEPT ![c] = "ended"]
    BY <2>1, <2>3 DEF TypeOK, phase
  <2>5. awaited' = awaited
    BY <2>1, <2>3 DEF TypeOK, awaited
  <2> QED BY <2>2, <2>4, <2>5 DEF J!End
<1>21. ASSUME NEW c \in Co, wakeup_await_co_all(c) PROVE UNCHANGED <<phase, awaited>>
  BY <1>21 DEF TypeOK, phase, awaited, HandleSays, AwaitPc, HoldPc, FreePc, DeadSays,
     DyingPc, wakeup_await_co_all, Goto, apply, objectVars, userVars, queueVars
<1>22. ASSUME NEW c \in Co, free_stk(c) PROVE UNCHANGED <<phase, awaited>>
  BY <1>22 DEF TypeOK, phase, awaited, HandleSays, AwaitPc, HoldPc, FreePc, DeadSays,
     DyingPc, free_stk, Goto, objectVars, userVars, queueVars
<1>23. ASSUME NEW c \in Co, dead_finish(c) PROVE UNCHANGED <<phase, awaited>>
  BY <1>23 DEF TypeOK, phase, awaited, HandleSays, AwaitPc, HoldPc, FreePc, DeadSays,
     DyingPc, dead_finish, Goto, unlock, objectVars, userVars, queueVars
<1>24. ASSUME NEW c \in Co, NEW d \in Co, destroy_call(c, d) PROVE UNCHANGED <<phase,
     awaited>>
  BY <1>24 DEF TypeOK, phase, awaited, HandleSays, AwaitPc, HoldPc, FreePc, destroy_call,
     Goto, objectVars, userVars, queueVars
<1>25. ASSUME NEW c \in Co, wait_until_lockable(c) PROVE UNCHANGED <<phase, awaited>>
  BY <1>25 DEF TypeOK, phase, awaited, HandleSays, AwaitPc, HoldPc, FreePc, DeadSays,
     DyingPc, wait_until_lockable, Goto, Unlocked, objectVars, userVars, queueVars
<1>26. ASSUME NEW c \in Co, destroy(c) PROVE \E d \in Co : J!Destroy(d)
  <2> DEFINE d == handle[c]
  <2>1. /\ d \in Co /\ d # None /\ pc[c] = "check" /\ d \in alive /\ status[d] = "DEAD"
        /\ \A e \in Co : handle[e] = d => e = c
    BY <1>26 DEF TypeOK, HandleSays, FreeSays, FreePc, DeadSays, destroy
  <2>2. /\ alive' = alive \ {d} /\ status' = status /\ Goto(c, "check", "body")
        /\ handle' = [handle EXCEPT ![c] = None]
    BY <1>26, <2>1 DEF destroy
  <2> HIDE DEF d
  <2>3. phase' = [phase EXCEPT ![d] = "none"] /\ phase[d] = "ended"
    BY <2>1, <2>2 DEF phase
  <2>4. awaited' = awaited
    BY <2>1, <2>2 DEF TypeOK, awaited, Goto
  <2>5. \A e \in Co : awaited[e] # d
    BY <2>1 DEF awaited
  <2> QED BY <2>1, <2>3, <2>4, <2>5 DEF J!Destroy
<1>27. CASE UNCHANGED vars
  BY <1>27 DEF phase, awaited, J!vars, vars, objectVars, userVars, queueVars
<1> HIDE DEF LifeInv
<1> QED BY <1>1, <1>2, <1>3, <1>4, <1>5, <1>6, <1>7, <1>8, <1>9, <1>10, <1>11, <1>12,
     <1>13, <1>14, <1>15, <1>16, <1>17, <1>18, <1>19, <1>20, <1>21, <1>22, <1>23, <1>24,
     <1>25, <1>26, <1>27 DEF Next, Step, Choose, Serve, J!Next, J!vars

(* Lifecycle implements Join, in safety: an await returns only after the    *)
(* end of its callee, which ends once and is destroyed when nobody waits    *)
(* for it.                                                                  *)
THEOREM LifecycleJoins == ASSUME ~Careless PROVE Spec => J!Init /\ [][J!Next]_J!vars
<1>1. Init => J!Init
  BY LifecycleAssumption DEF Init, phase, awaited, J!Init
<1>2. LifeInv /\ [Next]_vars => [J!Next]_J!vars
  BY NextJoin
<1> QED BY <1>1, <1>2, LifeInvariance, PTL DEF Spec
==============================================================================
