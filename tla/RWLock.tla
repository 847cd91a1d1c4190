-------------------------------- MODULE RWLock --------------------------------
(***************************************************************************)
(* spin_rw_lock_sleep (utils/include/spin_lock_sleep.h): m_value counts the *)
(* writers in its low bits and the readers above them, and the writers     *)
(* share a spin lock, w_lock, which is Lock here (SpinLock implements it). *)
(* Each compare-and-exchange loop whose function has no side effect is one *)
(* step; the one of writer::try_lock takes w_lock inside and is not.       *)
(***************************************************************************)
EXTENDS Integers, FiniteSets

CONSTANTS
  Threads,
  Ops,          \* the operations the threads call
  WriterLimit,  \* 1 << READER_SHIFT: the writers the low bits can count
  MaxBackoff,   \* the argument of the tries with a budget
  BackoffWidth  \* what a uint8_t counts to

AllOps == {"rlock", "rtry", "rfor", "rbackoff", "wlock", "wtry", "wbackoff"}

ASSUME RWLockAssumption ==
  /\ IsFiniteSet(Threads)
  /\ WriterLimit \in Nat /\ Cardinality(Threads) < WriterLimit
  /\ Ops \subseteq AllOps
  /\ BackoffWidth \in Nat /\ MaxBackoff \in Nat
  /\ 0 < MaxBackoff /\ MaxBackoff < BackoffWidth

VARIABLES
  m_value,   \* [readers, writers]
  w_lock,
  pc, op,
  budget,    \* max_spin, max_backoff
  cur, ans   \* the locals of writer::try_lock

vars == <<m_value, w_lock, pc, op, budget, cur, ans>>

Places == {"idle", "enter", "rwait", "reading", "drain", "wlock", "writing",
           "uncount", "load", "modify", "cas", "count", "bwait", "btry"}

Value == [readers : Nat, writers : 0 .. WriterLimit - 1]

NoLock == [readers |-> 0, writers |-> 0]

TypeOK ==
  /\ m_value \in Value
  /\ w_lock \in BOOLEAN
  /\ pc \in [Threads -> Places]
  /\ op \in [Threads -> AllOps]
  /\ budget \in [Threads -> 0 .. BackoffWidth - 1]
  /\ cur \in [Threads -> Value]
  /\ ans \in [Threads -> BOOLEAN]

Init ==
  /\ m_value = NoLock
  /\ w_lock = FALSE
  /\ pc = [t \in Threads |-> "idle"]
  /\ op = [t \in Threads |-> "rlock"]
  /\ budget = [t \in Threads |-> 0]
  /\ cur = [t \in Threads |-> NoLock]
  /\ ans = [t \in Threads |-> FALSE]

-----------------------------------------------------------------------------
Goto(t, from, to) == pc[t] = from /\ pc' = [pc EXCEPT ![t] = to]
Locals == UNCHANGED <<op, budget, cur, ans>>
(* The locals of an operation end with it. *)
Return(t) ==
  /\ op' = [op EXCEPT ![t] = "rlock"]
  /\ budget' = [budget EXCEPT ![t] = 0]
  /\ cur' = [cur EXCEPT ![t] = NoLock]
  /\ ans' = [ans EXCEPT ![t] = FALSE]

Readers == {t \in Threads : pc[t] = "reading"}
(* The threads that have added themselves to the writers of m_value.        *)
Counted == {t \in Threads : pc[t] \in {"drain", "wlock", "writing", "uncount", "btry"}}
(* The threads that hold w_lock.                                            *)
Holds(t) == pc[t] = "writing" \/ (pc[t] = "cas" /\ ans[t])

(* m_value + 1: one writer more than the low bits count is a reader.        *)
plus_writer(v) ==
  IF v.writers = WriterLimit - 1 THEN [readers |-> v.readers + 1, writers |-> 0]
  ELSE [v EXCEPT !.writers = @ + 1]

dec_writer(v) == IF v.writers > 0 THEN [v EXCEPT !.writers = @ - 1] ELSE v

Call(t, o) ==
  /\ Goto(t, "idle", CASE o = "wlock"    -> "drain"
                       [] o = "wtry"     -> "load"
                       [] o = "wbackoff" -> "count"
                       [] OTHER          -> "enter")
  /\ op' = [op EXCEPT ![t] = o]
  /\ budget' = [budget EXCEPT ![t] = IF o \in {"rfor", "rbackoff", "wbackoff"}
                                     THEN MaxBackoff ELSE 0]
  /\ m_value' = IF o = "wlock" THEN plus_writer(m_value) ELSE m_value
  /\ UNCHANGED <<w_lock, cur, ans>>

-----------------------------------------------------------------------------
(* reader *)

(* A reader counts itself if there is no writer; a try ends at once when    *)
(* there is one, or when its budget is used up.                             *)
reader_enter(t) ==
  /\ \/ /\ op[t] \in {"rfor", "rbackoff"} /\ budget[t] = 0
        /\ Goto(t, "enter", "idle") /\ Return(t) /\ UNCHANGED m_value
     \/ /\ op[t] \in {"rfor", "rbackoff"} => budget[t] > 0
        /\ m_value.writers = 0
        /\ Goto(t, "enter", "reading") /\ Return(t)
        /\ m_value' = [m_value EXCEPT !.readers = @ + 1]
     \/ /\ op[t] = "rtry" /\ m_value.writers > 0
        /\ Goto(t, "enter", "idle") /\ Return(t) /\ UNCHANGED m_value
     \/ /\ op[t] # "rtry" /\ m_value.writers > 0
        /\ op[t] # "rlock" => budget[t] > 0
        /\ Goto(t, "enter", "rwait") /\ Locals /\ UNCHANGED m_value
  /\ UNCHANGED w_lock

(* Waiting for the writers to go.  The budget is only counted here, never   *)
(* compared: that of try_lock_for stays below one, that of                  *)
(* try_lock_for_backoff wraps around.                                       *)
reader_wait(t) ==
  /\ \/ /\ m_value.writers = 0
        /\ Goto(t, "rwait", "enter") /\ UNCHANGED budget
     \/ /\ m_value.writers > 0 /\ pc[t] = "rwait" /\ UNCHANGED pc
        /\ \/ /\ op[t] = "rfor" /\ budget[t] > 0
              /\ \E n \in 0 .. budget[t] - 1 : budget' = [budget EXCEPT ![t] = n]
           \/ /\ op[t] = "rbackoff"
              /\ budget' = [budget EXCEPT ![t] = (@ + BackoffWidth - 1) % BackoffWidth]
  /\ UNCHANGED <<m_value, w_lock, op, cur, ans>>

reader_unlock(t) ==
  /\ Goto(t, "reading", "idle")
  /\ m_value' = IF m_value.readers > 0 THEN [m_value EXCEPT !.readers = @ - 1]
                ELSE m_value
  /\ UNCHANGED w_lock /\ Locals

-----------------------------------------------------------------------------
(* writer *)

(* Mutant: a writer does not wait for the readers. *)
writer_drain_not(t) ==
  /\ Goto(t, "drain", "wlock")
  /\ UNCHANGED <<m_value, w_lock>> /\ Locals

(* lock, once it is counted: the readers leave.                             *)
writer_drain(t) ==
  /\ m_value.readers = 0
  /\ Goto(t, "drain", "wlock")
  /\ UNCHANGED <<m_value, w_lock>> /\ Locals

writer_lock(t) ==
  /\ ~w_lock /\ w_lock' = TRUE
  /\ Goto(t, "wlock", "writing")
  /\ UNCHANGED m_value /\ Return(t)

(* unlock gives w_lock back before it takes itself out of m_value.          *)
writer_unlock(t) ==
  /\ Goto(t, "writing", "uncount")
  /\ w_lock' = FALSE
  /\ UNCHANGED m_value /\ Locals

(* The last line of unlock, and of a try_lock_backoff that fails.           *)
uncount(t) ==
  /\ Goto(t, "uncount", "idle")
  /\ m_value' = dec_writer(m_value)
  /\ UNCHANGED w_lock /\ Locals

(* try_lock reads m_value, ...                                              *)
try_load(t) ==
  /\ Goto(t, "load", "modify")
  /\ cur' = [cur EXCEPT ![t] = m_value]
  /\ UNCHANGED <<m_value, w_lock, op, budget, ans>>

(* ... tries w_lock if it saw no reader (again after each failed exchange), *)
try_modify(t) ==
  /\ Goto(t, "modify", "cas")
  /\ \/ /\ cur[t].readers = 0 /\ ~w_lock
        /\ w_lock' = TRUE
        /\ ans' = [ans EXCEPT ![t] = TRUE]
     \/ /\ cur[t].readers = 0 => w_lock
        /\ ans' = [ans EXCEPT ![t] = FALSE]
        /\ UNCHANGED w_lock
  /\ UNCHANGED <<m_value, op, budget, cur>>

(* ... and exchanges the value it computed.                                 *)
try_exchange(t) ==
  /\ \/ /\ m_value = cur[t]
        /\ Goto(t, "cas", IF ans[t] THEN "writing" ELSE "idle")
        /\ m_value' = IF ans[t] THEN plus_writer(cur[t]) ELSE cur[t]
        /\ Return(t)
     \/ /\ m_value # cur[t]
        /\ Goto(t, "cas", "modify")
        /\ cur' = [cur EXCEPT ![t] = m_value]
        /\ UNCHANGED <<m_value, op, budget, ans>>
  /\ UNCHANGED w_lock

(* try_lock_backoff counts itself if there is no reader.                    *)
backoff_count(t) ==
  /\ IF m_value.readers = 0
     THEN Goto(t, "count", "btry") /\ m_value' = plus_writer(m_value)
     ELSE Goto(t, "count", "bwait") /\ UNCHANGED m_value
  /\ UNCHANGED w_lock /\ Locals

(* It waits until there is neither reader nor writer, however long.         *)
backoff_wait(t) ==
  /\ IF m_value.readers = 0 /\ m_value.writers = 0
     THEN Goto(t, "bwait", "count") /\ UNCHANGED budget
     ELSE /\ pc[t] = "bwait" /\ UNCHANGED pc
          /\ budget' = [budget EXCEPT ![t] = (@ + BackoffWidth - 1) % BackoffWidth]
  /\ UNCHANGED <<m_value, w_lock, op, cur, ans>>

(* w_lock.try_lock_for_backoff(max_backoff): at least one exchange, if      *)
(* there is any budget left.                                                *)
backoff_try(t) ==
  /\ \/ Goto(t, "btry", "writing") /\ ~w_lock /\ budget[t] > 0 /\ w_lock' = TRUE
     \/ Goto(t, "btry", "uncount") /\ (w_lock \/ budget[t] = 0) /\ UNCHANGED w_lock
  /\ UNCHANGED m_value /\ Return(t)

-----------------------------------------------------------------------------
Step(t) ==
  \/ reader_enter(t) \/ reader_wait(t)
  \/ writer_drain(t) \/ writer_lock(t) \/ uncount(t)
  \/ try_load(t) \/ try_modify(t) \/ try_exchange(t)
  \/ backoff_count(t) \/ backoff_wait(t) \/ backoff_try(t)

Unlock(t) == reader_unlock(t) \/ writer_unlock(t)

Next == \E t \in Threads : Step(t) \/ Unlock(t) \/ \E o \in Ops : Call(t, o)

Spec == Init /\ [][Next]_vars

-----------------------------------------------------------------------------
(* One writer, or readers: never both (lock, the tries and unlock of both   *)
(* sides).                                                                  *)
MutualExclusion ==
  \A t, u \in Threads :
    (pc[t] = "writing" /\ t # u) => pc[u] \notin {"reading", "writing"}

(* m_value counts the readers and the writers exactly: no try that fails or *)
(* is retried leaves a count behind.                                        *)
ValueExact ==
  /\ m_value.readers = Cardinality(Readers)
  /\ m_value.writers = Cardinality(Counted)

(* The lock as a whole: its counts, who is in, and the width of both.       *)
RWSafe == TypeOK /\ MutualExclusion /\ ValueExact

(* While a writer is counted no reader enters (reader::lock and the tries). *)
WritersFirst ==
  [][\A t \in Threads : (pc[t] # "reading" /\ pc'[t] = "reading") => Counted = {}]_vars
===============================================================================
