----------------------------- MODULE TimedChannel -----------------------------
(***************************************************************************)
(* Channel with push_for and pull_for (sync/include/Channel.h), beside     *)
(* push and pull.                                                          *)
(*                                                                         *)
(* Both take the result of a timed wait for "it timed out", while wait_for *)
(* returns true when the permit was given.  What follows a wait that did   *)
(* time out has no time left: duration - stage_1_cost is not positive, and *)
(* the second wait_for returns false at once.                              *)
(*                                                                         *)
(* A timed wait that times out leaves its wrap in cancelable_wait and      *)
(* signals for itself, without the callbacks; whoever picks that wrap      *)
(* wakes nobody (module Semaphore has the steps of it).                    *)
(***************************************************************************)
EXTENDS Channel

CONSTANTS
  Rounds,       \* bound: calls of each coroutine
  Default       \* the value of a variable that nothing was received into

ASSUME TimedChannelAssumption == Rounds \in Nat /\ Default \in Val

VARIABLES
  timed,        \* the coroutines in a timed wait
  timedOut,     \* those whose last timed wait returned false
  stale,        \* of each semaphore: wraps in cancelable_wait whose time is over
  owed,         \* of each semaphore: wakeups the timers' signals owe
  rounds,       \* calls left
  sent,         \* the value of a push_for under way (history)
  tally         \* channel_timed_test's count

timedVars == <<timed, timedOut, stale, owed>>
testVars  == <<rounds, sent, tally>>
tvars == <<vars, timedVars, testVars>>

TimedTypeOK ==
  /\ count \in [Sem -> Nat] /\ waiters \in [Sem -> Nat]
  /\ m_size \in 0 .. SIZE
  /\ pc \in [Co -> Pc \cup {"pushFor", "pullFor", "fetchFor"}]
  /\ timed \subseteq UNION {parked[s] : s \in {"sender", "receiver"}}
  /\ timedOut \subseteq Co
  /\ stale \in [Sem -> Nat] /\ owed \in [Sem -> Nat]
  /\ rounds \in [Co -> 0 .. Rounds]
  /\ sent \in [Co -> Val \cup {NoVal}]
  /\ tally \in [Val -> Int]

TimedInit ==
  /\ Init
  /\ timed = {} /\ timedOut = {}
  /\ stale = [s \in Sem |-> 0] /\ owed = [s \in Sem |-> 0]
  /\ rounds = [c \in Co |-> Rounds]
  /\ sent = [c \in Co |-> NoVal]
  /\ tally = [v \in Val |-> 0]

-----------------------------------------------------------------------------
Called(c) == rounds[c] > 0 /\ rounds' = [rounds EXCEPT ![c] = @ - 1]

(* wait_for(s): c takes a permit, or is parked with a timer.                *)
wait_for(c, s) ==
  /\ wait(c, s)
  /\ timed' = IF count[s] > 0 THEN timed ELSE timed \cup {c}
  /\ timedOut' = timedOut \ {c}
  /\ UNCHANGED <<stale, owed>>

push_for(c, v) ==
  /\ ~is_close /\ Called(c)
  /\ Goto(c, "idle", "pushFor")
  /\ wait_for(c, "receiver")
  /\ x' = [x EXCEPT ![c] = v]
  /\ is_exec' = [is_exec EXCEPT ![c] = FALSE]
  /\ sent' = [sent EXCEPT ![c] = v]
  /\ UNCHANGED <<is_close, bufferVars, ans, buffer_has_value, tally>>

(* push_for returns false: with the permit it takes it for a timeout, and   *)
(* without it the wait on empty has no time.                                *)
push_for_return(c) ==
  /\ Goto(c, "pushFor", "idle")
  /\ tally' = [tally EXCEPT ![sent[c]] = @ + 1]
  /\ sent' = [sent EXCEPT ![c] = NoVal]
  /\ x' = [x EXCEPT ![c] = NoVal]
  /\ UNCHANGED <<is_close, semVars, bufferVars, is_exec, ans, buffer_has_value,
                 timedVars, rounds>>

(* Mutant: buffer_has_value keeps what an earlier call left. *)
pull_for_no_reset(c) ==
  /\ Called(c)
  /\ Goto(c, "idle", "pullFor")
  /\ wait_for(c, "sender")
  /\ UNCHANGED <<is_close, bufferVars, handVars, sent, tally>>

pull_for(c) ==
  /\ ~(is_close /\ count["sender"] - waiters["sender"] = 0)
  /\ Called(c)
  /\ Goto(c, "idle", "pullFor")
  /\ wait_for(c, "sender")
  /\ buffer_has_value' = [buffer_has_value EXCEPT ![c] = FALSE]
  /\ UNCHANGED <<is_close, bufferVars, x, is_exec, ans, sent, tally>>

ReturnFalse(c, from) ==
  /\ Goto(c, from, "idle")
  /\ tally' = [tally EXCEPT ![Default] = @ - 1]
  /\ UNCHANGED <<semVars, ans>>

(* pull_for after its wait: with the permit it takes it for a timeout;      *)
(* without it it signals receiver all the same.                             *)
pull_for_wait(c) ==
  /\ \/ c \notin timedOut /\ ReturnFalse(c, "pullFor")
     \/ /\ c \in timedOut
        /\ Goto(c, "pullFor", "fetchFor") /\ signal(c, "receiver")
        /\ UNCHANGED <<ans, tally>>
  /\ UNCHANGED <<is_close, bufferVars, x, is_exec, buffer_has_value, timedVars,
                 rounds, sent>>

(* Mutant: the buffer is read without its semaphore. *)
pull_for_load(c) ==
  /\ \/ /\ ~buffer_has_value[c] /\ Goto(c, "fetchFor", "load")
        /\ UNCHANGED <<semVars, ans, tally>>
     \/ /\ buffer_has_value[c]
        /\ Goto(c, "fetchFor", "idle")
        /\ ans' = [ans EXCEPT ![c] = NoVal]
        /\ UNCHANGED <<semVars, tally>>
  /\ UNCHANGED <<is_close, bufferVars, x, is_exec, buffer_has_value, timedVars,
                 rounds, sent>>

(* It has a value if the callback of a push gave it one: it returns true,   *)
(* else the wait on full has no time.                                       *)
pull_for_end(c) ==
  /\ \/ ~buffer_has_value[c] /\ ReturnFalse(c, "fetchFor")
     \/ /\ buffer_has_value[c]
        /\ Goto(c, "fetchFor", "idle")
        /\ ans' = [ans EXCEPT ![c] = NoVal]
        /\ UNCHANGED <<semVars, tally>>
  /\ UNCHANGED <<is_close, bufferVars, x, is_exec, buffer_has_value, timedVars,
                 rounds, sent>>

-----------------------------------------------------------------------------
(* The time of c's wait is over: its timer signals s for it.                *)
timeout(c, s) ==
  /\ c \in timed \cap parked[s]
  /\ timed' = timed \ {c}
  /\ timedOut' = timedOut \cup {c}
  /\ parked' = [parked EXCEPT ![s] = @ \ {c}]
  /\ stale' = [stale EXCEPT ![s] = @ + 1]
  /\ IF waiters[s] > 0
     THEN /\ waiters' = [waiters EXCEPT ![s] = @ - 1]
          /\ owed' = [owed EXCEPT ![s] = @ + 1]
          /\ UNCHANGED count
     ELSE /\ count' = [count EXCEPT ![s] = @ + 1]
          /\ UNCHANGED <<waiters, owed>>
  /\ UNCHANGED <<is_close, bufferVars, pc, granting, handVars, testVars>>

(* The coroutines a signal may pick: those in cancelable_wait first.        *)
Pickable(s) ==
  IF timed \cap parked[s] # {} \/ stale[s] > 0 THEN timed \cap parked[s] ELSE parked[s]

drop_stale(s) ==
  /\ stale[s] > 0
  /\ stale' = [stale EXCEPT ![s] = @ - 1]
  /\ UNCHANGED <<timed, timedOut, parked>>

(* A signal of a coroutine picks a wrap.                                    *)
timed_grant(c) ==
  LET s == granting[c] IN
  /\ s # NoSem
  /\ \/ /\ drop_stale(s)
        /\ granting' = [granting EXCEPT ![c] = NoSem]
        /\ UNCHANGED <<count, waiters, bufferVars, pc, handVars>>
     \/ /\ \E w \in Pickable(s) : grant(c, w) /\ timed' = timed \ {w}
        /\ UNCHANGED <<timedOut, stale>>
  /\ UNCHANGED <<is_close, owed, testVars>>

(* A timer's signal picks one, and runs no callback.                        *)
timer_grant(s) ==
  /\ owed[s] > 0 /\ owed' = [owed EXCEPT ![s] = @ - 1]
  /\ \/ drop_stale(s)
     \/ /\ \E w \in Pickable(s) :
             parked' = [parked EXCEPT ![s] = @ \ {w}] /\ timed' = timed \ {w}
        /\ UNCHANGED <<timedOut, stale>>
  /\ UNCHANGED <<is_close, count, waiters, granting, bufferVars, pc, handVars, testVars>>

-----------------------------------------------------------------------------
PlainStep(c) ==
  \/ /\ Called(c) /\ (pull(c) \/ \E v \in Val \ Circulating : push(c, v))
     /\ UNCHANGED <<timedVars, sent, tally>>
  \/ (PushStep(c) \/ PullStep(c)) /\ UNCHANGED <<is_close, timedVars, testVars>>

TimedStep(c) ==
  \/ pull_for(c) \/ \E v \in Val \ Circulating : push_for(c, v)
  \/ push_for_return(c) \/ pull_for_wait(c) \/ pull_for_end(c)
  \/ timed_grant(c) \/ \E s \in Sem : timeout(c, s)

TimedNext ==
  \/ \E c \in Co : PlainStep(c) \/ TimedStep(c)
  \/ \E s \in Sem : timer_grant(s)

TimedSpec == TimedInit /\ [][TimedNext]_tvars

(* The workers of channel_timed_test call push_for and pull_for only.       *)
TestSpec == TimedInit /\ [][(\E c \in Co : TimedStep(c)) \/ (\E s \in Sem : timer_grant(s))]_tvars

-----------------------------------------------------------------------------
(* Neither a store into a full buffer nor a load from an empty one, also    *)
(* beside timed waits that give permits back (Channel.h:52, 160).           *)
TimedBufferAsserts == TimedTypeOK /\ BufferAsserts

(* What a call reports is what happened to its value, also beside timeouts  *)
(* and the timers' signals, which run no callback: a value stays in one     *)
(* place, a caller that finds buffer_has_value set has one value in its     *)
(* variable, and a value ceases to circulate only when it is returned by    *)
(* the pull, or the pull_for that returns true, which received it, or with  *)
(* the push_for that returns false and has not delivered it (Channel.h:93). *)
Told ==
  \A c \in Co : pc[c] \in {"fetch", "fetchFor"} => (buffer_has_value[c] <=> ans[c] # NoVal)

ReturnsTrue(c)  == pc[c] \in {"fetch", "fetchFor", "signalEmpty"} /\ pc'[c] = "idle"
ReturnsFalse(c) == pc[c] = "pushFor" /\ pc'[c] = "idle"

ValuesReported ==
  /\ [](EachValueOnce /\ Told)
  /\ [][\A v \in Val : v \in Circulating /\ v \notin Circulating' =>
         \E c \in Co : \/ ans[c] = v /\ ReturnsTrue(c)
                       \/ x[c] = v /\ ReturnsFalse(c)]_tvars

(* channel_timed_test, "unclear count" (test/test.cpp:405): when all calls  *)
(* are done each value was pushed as often as it was pulled.                *)
ClearCount ==
  (\A c \in Co : rounds[c] = 0 /\ pc[c] = "idle") => \A v \in Val : tally[v] = 0
===============================================================================
