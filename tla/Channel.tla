------------------------------- MODULE Channel -------------------------------
(***************************************************************************)
(* Channel<T, SIZE> (sync/include/Channel.h) with push and pull by any     *)
(* number of coroutines.                                                   *)
(*                                                                         *)
(* Four semaphores lead values through a ring buffer.  receiver and sender *)
(* count the pushes that may start and the pulls that may start; empty and *)
(* full count the slots.  A pull signals receiver before it has taken its  *)
(* value out: when a push waits there, the callback of its wait writes its *)
(* value straight into the puller's variable, and the buffer is left alone.*)
(*                                                                         *)
(* A semaphore is its count, its waiters and the coroutines in its queue   *)
(* (module Semaphore shows what Sem_t makes of them).  A signal that takes *)
(* a waiter off the number chooses the coroutine in a step of its own.     *)
(***************************************************************************)
EXTENDS Integers, FiniteSets

CONSTANTS
  Co,           \* coroutines that push and pull
  Val,          \* values; a value is not pushed again before it is received
  NoVal,        \* no value
  SIZE          \* capacity of the buffer

ASSUME ChannelAssumption ==
  /\ IsFiniteSet(Co)
  /\ NoVal \notin Val
  /\ SIZE \in Nat \ {0}

Sem   == {"sender", "receiver", "full", "empty"}
NoSem == "none"

VARIABLES
  is_close,
  count, waiters, parked,        \* of each semaphore
  m_data, front, rear, m_size,   \* RingBufferLock
  pc,                            \* the next step of push or pull
  granting,                      \* the semaphore a signaller owes a wakeup
  x,                             \* the value a push has not delivered yet
  is_exec,                       \* set by the callback of a push
  ans,                           \* the variable a pull receives into
  buffer_has_value               \* set by the callback for the puller

semVars    == <<count, waiters, parked, granting>>
bufferVars == <<m_data, front, rear, m_size>>
handVars   == <<x, is_exec, ans, buffer_has_value>>
vars == <<is_close, semVars, bufferVars, pc, handVars>>

Pc == {"idle", "abort",
       "stage", "store", "signalFull", "signalSender",       \* push
       "signalReceiver", "fetch", "load", "signalEmpty"}     \* pull

TypeOK ==
  /\ is_close \in BOOLEAN
  /\ count \in [Sem -> Nat]
  /\ waiters \in [Sem -> Nat]
  /\ parked \in [Sem -> SUBSET Co]
  /\ m_data \in [0 .. SIZE - 1 -> Val \cup {NoVal}]
  /\ front \in 0 .. SIZE - 1
  /\ rear \in 0 .. SIZE - 1
  /\ m_size \in 0 .. SIZE
  /\ pc \in [Co -> Pc]
  /\ granting \in [Co -> Sem \cup {NoSem}]
  /\ x \in [Co -> Val \cup {NoVal}]
  /\ is_exec \in [Co -> BOOLEAN]
  /\ ans \in [Co -> Val \cup {NoVal}]
  /\ buffer_has_value \in [Co -> BOOLEAN]

Init ==
  /\ is_close = FALSE
  /\ count = [s \in Sem |-> IF s \in {"receiver", "empty"} THEN SIZE ELSE 0]
  /\ waiters = [s \in Sem |-> 0]
  /\ parked = [s \in Sem |-> {}]
  /\ m_data = [i \in 0 .. SIZE - 1 |-> NoVal]
  /\ front = 0
  /\ rear = 0
  /\ m_size = 0
  /\ pc = [c \in Co |-> "idle"]
  /\ granting = [c \in Co |-> NoSem]
  /\ x = [c \in Co |-> NoVal]
  /\ is_exec = [c \in Co |-> FALSE]
  /\ ans = [c \in Co |-> NoVal]
  /\ buffer_has_value = [c \in Co |-> FALSE]

-----------------------------------------------------------------------------
Parked(c) == \E s \in Sem : c \in parked[s]

(* c is at `from`, is not blocked in a wait there and owes no wakeup.       *)
Goto(c, from, to) ==
  /\ pc[c] = from
  /\ ~Parked(c) /\ granting[c] = NoSem
  /\ pc' = [pc EXCEPT ![c] = to]

(* s.wait(): c goes on at once or when it is woken.                         *)
wait(c, s) ==
  /\ \/ /\ count[s] > 0
        /\ count' = [count EXCEPT ![s] = @ - 1]
        /\ UNCHANGED <<waiters, parked>>
     \/ /\ count[s] = 0
        /\ waiters' = [waiters EXCEPT ![s] = @ + 1]
        /\ parked' = [parked EXCEPT ![s] = @ \cup {c}]
        /\ UNCHANGED count
  /\ UNCHANGED granting

(* s.signal(): a count more, or a waiter less and a coroutine to wake.      *)
signal(c, s) ==
  /\ \/ /\ waiters[s] = 0
        /\ count' = [count EXCEPT ![s] = @ + 1]
        /\ UNCHANGED <<waiters, granting>>
     \/ /\ waiters[s] > 0
        /\ waiters' = [waiters EXCEPT ![s] = @ - 1]
        /\ granting' = [granting EXCEPT ![c] = s]
        /\ UNCHANGED count
  /\ UNCHANGED parked

(* Mutant: the callback does not tell the pusher. *)
callback_untold(c, w) ==
  /\ ans' = [ans EXCEPT ![c] = x[w]]
  /\ buffer_has_value' = [buffer_has_value EXCEPT ![c] = TRUE]
  /\ UNCHANGED <<is_exec, x>>

(* The callback of push, run by the puller c for the pusher w.              *)
callback(c, w) ==
  /\ ans' = [ans EXCEPT ![c] = x[w]]
  /\ buffer_has_value' = [buffer_has_value EXCEPT ![c] = TRUE]
  /\ is_exec' = [is_exec EXCEPT ![w] = TRUE]
  /\ x' = [x EXCEPT ![w] = NoVal]

(* The end of a signal that found a waiter: any waiting coroutine w.  Only  *)
(* the wait on receiver has a callback.                                     *)
grant(c, w) ==
  LET s == granting[c] IN
  /\ s # NoSem
  /\ w \in parked[s]
  /\ parked' = [parked EXCEPT ![s] = @ \ {w}]
  /\ granting' = [granting EXCEPT ![c] = NoSem]
  /\ IF s = "receiver" THEN callback(c, w) ELSE UNCHANGED handVars
  /\ UNCHANGED <<count, waiters, bufferVars, pc>>

-----------------------------------------------------------------------------
(* push and emplace.  On a closed channel push throws, and so does pull     *)
(* when sender.count() is zero; close wakes nobody.                         *)

close(c) ==
  /\ Goto(c, "idle", "idle")
  /\ is_close' = TRUE
  /\ UNCHANGED <<semVars, bufferVars, handVars>>

push(c, v) ==
  /\ ~is_close
  /\ Goto(c, "idle", "stage")
  /\ x' = [x EXCEPT ![c] = v]
  /\ is_exec' = [is_exec EXCEPT ![c] = FALSE]
  /\ wait(c, "receiver")
  /\ UNCHANGED <<is_close, bufferVars, ans, buffer_has_value>>

(* Mutant: a push does not wait for an empty slot. *)
stage_no_wait(c) ==
  /\ Goto(c, "stage", IF is_exec[c] THEN "signalSender" ELSE "store")
  /\ UNCHANGED <<semVars, bufferVars, handVars>>

(* if (!is_exec) empty.wait();                                              *)
stage(c) ==
  /\ \/ /\ Goto(c, "stage", "signalSender")
        /\ is_exec[c]
        /\ UNCHANGED semVars
     \/ /\ Goto(c, "stage", "store")
        /\ ~is_exec[c]
        /\ wait(c, "empty")
  /\ UNCHANGED <<bufferVars, handVars>>

(* assert(buffer.push(x)): false when the buffer is full.                   *)
store(c) ==
  \/ /\ Goto(c, "store", "signalFull")
     /\ m_size < SIZE
     /\ m_data' = [m_data EXCEPT ![rear] = x[c]]
     /\ rear' = (rear + 1) % SIZE
     /\ m_size' = m_size + 1
     /\ x' = [x EXCEPT ![c] = NoVal]
     /\ UNCHANGED <<semVars, front, is_exec, ans, buffer_has_value>>
  \/ /\ Goto(c, "store", "abort")
     /\ m_size = SIZE
     /\ UNCHANGED <<semVars, bufferVars, handVars>>

(* Mutant: sender is signalled, full is not. *)
signalFull_missing(c) ==
  /\ Goto(c, "signalFull", "signalSender")
  /\ UNCHANGED <<semVars, bufferVars, handVars>>

signalFull(c) ==
  /\ Goto(c, "signalFull", "signalSender")
  /\ signal(c, "full")
  /\ UNCHANGED <<bufferVars, handVars>>

signalSender(c) ==
  /\ Goto(c, "signalSender", "idle")
  /\ signal(c, "sender")
  /\ UNCHANGED <<bufferVars, handVars>>

-----------------------------------------------------------------------------
(* pull.                                                                    *)

pull(c) ==
  /\ ~(is_close /\ count["sender"] - waiters["sender"] = 0)
  /\ Goto(c, "idle", "signalReceiver")
  /\ buffer_has_value' = [buffer_has_value EXCEPT ![c] = FALSE]
  /\ wait(c, "sender")
  /\ UNCHANGED <<is_close, bufferVars, x, is_exec, ans>>

signalReceiver(c) ==
  /\ Goto(c, "signalReceiver", "fetch")
  /\ signal(c, "receiver")
  /\ UNCHANGED <<bufferVars, handVars>>

(* Mutant: pull goes to the buffer whatever the callback has done. *)
fetch_always(c) ==
  /\ Goto(c, "fetch", "load")
  /\ wait(c, "full")
  /\ UNCHANGED <<bufferVars, handVars>>

(* if (!buffer_has_value) full.wait(); otherwise pull returns the value the *)
(* callback has written.                                                    *)
fetch(c) ==
  /\ \/ /\ Goto(c, "fetch", "idle")
        /\ buffer_has_value[c]
        /\ ans' = [ans EXCEPT ![c] = NoVal]
        /\ UNCHANGED semVars
     \/ /\ Goto(c, "fetch", "load")
        /\ ~buffer_has_value[c]
        /\ wait(c, "full")
        /\ UNCHANGED ans
  /\ UNCHANGED <<bufferVars, x, is_exec, buffer_has_value>>

(* assert(buffer.pop(ans)): false when the buffer is empty.                 *)
load(c) ==
  \/ /\ Goto(c, "load", "signalEmpty")
     /\ m_size > 0
     /\ ans' = [ans EXCEPT ![c] = m_data[front]]
     /\ m_data' = [m_data EXCEPT ![front] = NoVal]
     /\ front' = (front + 1) % SIZE
     /\ m_size' = m_size - 1
     /\ UNCHANGED <<semVars, rear, x, is_exec, buffer_has_value>>
  \/ /\ Goto(c, "load", "abort")
     /\ m_size = 0
     /\ UNCHANGED <<semVars, bufferVars, handVars>>

(* Mutant: the slot is not given back. *)
signalEmpty_missing(c) ==
  /\ Goto(c, "signalEmpty", "idle")
  /\ ans' = [ans EXCEPT ![c] = NoVal]
  /\ UNCHANGED <<semVars, bufferVars, x, is_exec, buffer_has_value>>

(* empty.signal(), and pull returns.                                        *)
signalEmpty(c) ==
  /\ Goto(c, "signalEmpty", "idle")
  /\ signal(c, "empty")
  /\ ans' = [ans EXCEPT ![c] = NoVal]
  /\ UNCHANGED <<bufferVars, x, is_exec, buffer_has_value>>

-----------------------------------------------------------------------------
(* The slots between front and rear, which hold the m_size values.          *)
Filled == {(front + i) % SIZE : i \in 0 .. m_size - 1}

Circulating == {x[c] : c \in Co} \cup {ans[c] : c \in Co} \cup {m_data[i] : i \in Filled}

UserStep(c) == close(c) \/ pull(c) \/ \E v \in Val \ Circulating : push(c, v)

PushStep(c) == stage(c) \/ store(c) \/ signalFull(c) \/ signalSender(c)
PullStep(c) == signalReceiver(c) \/ fetch(c) \/ load(c) \/ signalEmpty(c)
Grant(c)    == \E w \in Co : grant(c, w)

Next == \/ \E c \in Co : UserStep(c)
        \/ /\ \E c \in Co : PushStep(c) \/ PullStep(c) \/ Grant(c)
           /\ UNCHANGED is_close

(* A push or pull under way goes on when it is not blocked.                 *)
Fairness == \A c \in Co : WF_vars((PushStep(c) \/ PullStep(c) \/ Grant(c)) /\ UNCHANGED is_close)

Spec == Init /\ [][Next]_vars
FairSpec == Spec /\ Fairness

-----------------------------------------------------------------------------
(* The assertions on buffer.push and buffer.pop hold: the semaphores admit  *)
(* no push to a full and no pull to an empty buffer, although receiver is   *)
(* signalled before the slot is free.                                       *)
BufferAsserts == \A c \in Co : pc[c] # "abort"

(* A value is in one place from its push to the return of the pull that     *)
(* gets it: with its pusher, in the buffer or with its puller.  Handed over *)
(* by a callback it is in no slot, and no two coroutines get it.            *)
Places == {<<"x", c>> : c \in Co} \cup {<<"ans", c>> : c \in Co}
          \cup {<<"slot", i>> : i \in Filled}

At(p) == CASE p[1] = "x"    -> x[p[2]]
           [] p[1] = "ans"  -> ans[p[2]]
           [] p[1] = "slot" -> m_data[p[2]]

EachValueOnce ==
  /\ \A p, q \in Places : p # q /\ At(p) # NoVal => At(p) # At(q)
  /\ \A i \in Filled : m_data[i] # NoVal

(* A value ceases to circulate only when a pull returns it: no variable and *)
(* no slot is written over while it holds one.                              *)
Returns(c) == pc[c] \in {"fetch", "signalEmpty"} /\ pc'[c] = "idle"

NeverLost ==
  [][\A v \in Val : v \in Circulating /\ v \notin Circulating'
       => \E c \in Co : ans[c] = v /\ Returns(c)]_vars

(* When nobody is under way, a push waits only for room and a pull only for *)
(* a value: not both, no push while the buffer has room, no pull while it   *)
(* has a value.                                                             *)
Pushing == {c \in Co : c \in parked["receiver"] \cup parked["empty"]}
Pulling == {c \in Co : c \in parked["sender"] \cup parked["full"]}

Settled == \A c \in Co : granting[c] = NoSem /\ (pc[c] = "idle" \/ Parked(c))

NobodyForgotten ==
  Settled => /\ Pushing # {} => m_size = SIZE
             /\ Pulling # {} => m_size = 0

(* A pull that has got past sender, and a push that has got past receiver,  *)
(* return: each later wait is for a coroutine that is on its way.           *)
PullReturns == \A c \in Co : pc[c] = "signalReceiver" /\ ~Parked(c) ~> pc[c] = "idle"
PushReturns == \A c \in Co : pc[c] = "stage" /\ ~Parked(c) ~> pc[c] = "idle"
=============================================================================
