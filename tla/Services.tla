------------------------------- MODULE Services -------------------------------
(***************************************************************************)
(* The services under the coroutines: the accounting of the scheduler, the *)
(* memory pool, the timers and the epoller.  They share nothing, so a      *)
(* behaviour is about one of them, the service, and the others stay where  *)
(* they begin.                                                             *)
(***************************************************************************)
EXTENDS Integers

CONSTANTS Co, Sched, Own, Slice, MaxRuntime
VARIABLES where, occupy_thread, own, nice, prev_nice, v_runtime,
  real_runtime_ns, wakeup_timer, stk_active, key, reboosted, contended,
  min_v_runtime
Cf == INSTANCE Cfs

CONSTANTS PoolThread, Block, null, defaultBlockSize, Length, MaxUnits, use_mmap
VARIABLES firstBlock, currentBlock, next, prev, blockSize, offset,
  numberOfAllocated, numberOfDeleted, made_by, mapped, units, releasing,
  leaked
Po == INSTANCE MemoryPool WITH Thread <- PoolThread

CONSTANTS Timer, Task, None, MaxTime, MaxResets
VARIABLES now, m_task, timer, end_time, m_duration, is_canceled, is_handled,
  task_pc, tick, end_point, expired, calls, resets
Ti == INSTANCE Timers WITH pc <- task_pc

CONSTANTS Fd, User, EventsSize, MaxRequests
VARIABLES registered, oneshot, fired, ready, m_requests, cancelling, waiter,
  events, current, called, cancelled, crossed, strayed, adds
Ep == INSTANCE Epoller

ASSUME ServicesAssumption ==
  /\ Cf!CfsAssumption /\ Po!MemoryPoolAssumption /\ Ti!TimersAssumption
  /\ Ep!EpollerAssumption

VARIABLE service

cfsVars == <<where, occupy_thread, own, nice, prev_nice, v_runtime,
             real_runtime_ns, wakeup_timer, stk_active, key, reboosted,
             contended, min_v_runtime>>
poolVars == <<firstBlock, currentBlock, next, prev, blockSize, offset,
              numberOfAllocated, numberOfDeleted, made_by, mapped, units,
              releasing, leaked>>
timersVars == <<now, m_task, timer, end_time, m_duration, is_canceled,
                is_handled, task_pc, tick, end_point, expired, calls, resets>>
epollerVars == <<registered, oneshot, fired, ready, m_requests, cancelling,
                 waiter, events, current, called, cancelled, crossed, strayed,
                 adds>>
serviceVars == <<service, cfsVars, poolVars, timersVars, epollerVars>>

-----------------------------------------------------------------------------
ServicesInit ==
  /\ service \in {"cfs", "pool", "timers", "epoller"}
  /\ Cf!Init /\ Po!Init /\ Ti!Init /\ Ep!Init

ServicesNext ==
  /\ UNCHANGED service
  /\ \/ /\ service = "cfs" /\ Cf!Next
        /\ UNCHANGED <<poolVars, timersVars, epollerVars>>
     \/ /\ service = "pool" /\ Po!Next
        /\ UNCHANGED <<cfsVars, timersVars, epollerVars>>
     \/ /\ service = "timers" /\ Ti!Next
        /\ UNCHANGED <<cfsVars, poolVars, epollerVars>>
     \/ /\ service = "epoller" /\ Ep!Next
        /\ UNCHANGED <<cfsVars, poolVars, timersVars>>

ServicesSpec == ServicesInit /\ [][ServicesNext]_serviceVars

-----------------------------------------------------------------------------
(* Who is boosted after a timeout keeps the nice value of its create, and   *)
(* its priority is what it has run, but for those boosted twice (up_nice,   *)
(* back_nice, up_v_runtime).                                                *)
BoostsAccounted == Cf!BoostsAccounted

(* Live units are apart and in blocks of the list, which is coherent, and   *)
(* at most one block is lost (allocate, deallocate).                        *)
UnitsKept == Po!UnitsKept

(* A timer's task and an epoll request are called back at most once.  Who   *)
(* looks for a task finds it; who looks for a request finds it, unless a    *)
(* cancel, an earlier callback or an add beside a cancel explains why not   *)
(* (cancel, reset, process_expired; add, cancel, waiter).                   *)
CallbacksOnce == Ti!CallbacksOnce /\ Ep!CallbacksOnce
===============================================================================
