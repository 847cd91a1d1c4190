------------------------------- MODULE Epoller --------------------------------
(***************************************************************************)
(* Epoller (io/epoller.cpp): a map from file descriptor to request, the     *)
(* kernel's interest list beside it, users that add and cancel, and one    *)
(* thread in waiter.  add passes the caller's events on as they are: a     *)
(* one-shot descriptor (EPOLLONESHOT) stays on the list after its report   *)
(* but is reported no more, a level-triggered one comes again while it has *)
(* input.                                                                  *)
(***************************************************************************)
EXTENDS Integers, FiniteSets

CONSTANTS
  Fd, User, None,
  EventsSize,   \* events_size, 128
  MaxRequests   \* bound on the adds that succeed

EpollerAssumption ==
  /\ None \notin Fd /\ IsFiniteSet(Fd)
  /\ EventsSize \in Nat \ {0} /\ MaxRequests \in Nat

VARIABLES
  registered,          \* the interest list,
  oneshot, fired,      \* what of it is one-shot, and what of that was reported
  ready,               \* the descriptors with input
  m_requests,          \* descriptor -> number of the request, 0 for none
  cancelling,          \* user -> the descriptor it is about to erase
  waiter,              \* "wait", "lock", "events", "thrown"
  events,              \* what epoll_wait returned, with the request it is for
  current,             \* descriptor -> the last request add said yes to (history)
  called,              \* request -> how often its callback ran (history)
  cancelled,           \* the requests taken off the list by cancel (history)
  crossed,             \* those added while a cancel had yet to erase (history)
  strayed,             \* those called back for an event of another (history)
  adds

kernel == <<registered, oneshot, fired, ready>>
history == <<current, called, cancelled, crossed, strayed>>
vars == <<kernel, m_requests, cancelling, waiter, events, history, adds>>

Request == 1 .. MaxRequests

TypeOK ==
  /\ registered \subseteq Fd /\ oneshot \subseteq registered
  /\ fired \subseteq oneshot /\ ready \subseteq Fd
  /\ m_requests \in [Fd -> {0} \cup Request]
  /\ cancelling \in [User -> Fd \cup {None}]
  /\ waiter \in {"wait", "lock", "events", "thrown"}
  /\ events \subseteq Fd \X Request /\ Cardinality(events) =< EventsSize
  /\ current \in [Fd -> {0} \cup Request]
  /\ called \in [Request -> Nat]
  /\ cancelled \subseteq Request /\ crossed \subseteq Request /\ strayed \subseteq Request
  /\ adds \in 0 .. MaxRequests

Init ==
  /\ registered = {} /\ oneshot = {} /\ fired = {} /\ ready = {}
  /\ m_requests = [f \in Fd |-> 0]
  /\ cancelling = [u \in User |-> None]
  /\ waiter = "wait" /\ events = {}
  /\ current = [f \in Fd |-> 0]
  /\ called = [r \in Request |-> 0]
  /\ cancelled = {} /\ crossed = {} /\ strayed = {}
  /\ adds = 0

-----------------------------------------------------------------------------
(* m_lock: the waiter holds it for all the events it was given.             *)
Unlocked == waiter # "events"

(* The kernel refuses a descriptor it has already; the map keeps an old     *)
(* request that is still there.                                             *)
add(u, f) ==
  /\ cancelling[u] = None /\ Unlocked
  /\ f \notin registered /\ adds < MaxRequests
  /\ adds' = adds + 1
  /\ registered' = registered \cup {f}
  /\ oneshot' \in {oneshot, oneshot \cup {f}}
  /\ m_requests' = [m_requests EXCEPT ![f] = IF @ = 0 THEN adds + 1 ELSE @]
  /\ current' = [current EXCEPT ![f] = adds + 1]
  /\ crossed' = IF \E v \in User : cancelling[v] = f
                THEN crossed \cup {adds + 1} ELSE crossed
  /\ UNCHANGED <<fired, ready, cancelling, waiter, events, called, cancelled, strayed>>

(* cancel leaves the interest list first, ...                               *)
cancel(u, f) ==
  /\ cancelling[u] = None
  /\ f \in registered
  /\ registered' = registered \ {f}
  /\ oneshot' = oneshot \ {f}
  /\ fired' = fired \ {f}
  /\ cancelling' = [cancelling EXCEPT ![u] = f]
  /\ cancelled' = cancelled \cup {current[f]}
  /\ UNCHANGED <<ready, m_requests, waiter, events, current, called, crossed, strayed,
                 adds>>

(* ... and erases the request when it has the lock.                         *)
cancel_erase(u) ==
  /\ cancelling[u] # None /\ Unlocked
  /\ m_requests' = [m_requests EXCEPT ![cancelling[u]] = 0]
  /\ cancelling' = [cancelling EXCEPT ![u] = None]
  /\ UNCHANGED <<kernel, waiter, events, history, adds>>

(* Input arrives.                                                           *)
Arrive(f) ==
  /\ f \notin ready /\ ready' = ready \cup {f}
  /\ UNCHANGED <<registered, oneshot, fired, m_requests, cancelling, waiter, events,
                 history, adds>>

Reported == (registered \ fired) \cap ready

(* epoll_wait returns as many as there are, but at most EventsSize.         *)
epoll_wait ==
  /\ waiter = "wait" /\ Reported # {}
  /\ \E F \in SUBSET Reported :
       /\ Cardinality(F) = IF Cardinality(Reported) < EventsSize
                           THEN Cardinality(Reported) ELSE EventsSize
       /\ fired' = fired \cup (F \cap oneshot)
       /\ events' = {<<f, current[f]>> : f \in F}
  /\ waiter' = "lock"
  /\ UNCHANGED <<registered, oneshot, ready, m_requests, cancelling, history, adds>>

waiter_lock ==
  /\ waiter = "lock" /\ waiter' = "events"
  /\ UNCHANGED <<kernel, m_requests, cancelling, events, history, adds>>

(* Mutant: the request stays, as if its event were to come again. *)
callback_kept(e) ==
  /\ waiter = "events" /\ e \in events
  /\ LET r == m_requests[e[1]] IN
     \/ /\ r = 0
        /\ waiter' = "thrown"
        /\ UNCHANGED <<called, strayed, events, ready>>
     \/ /\ r # 0
        /\ called' = [called EXCEPT ![r] = @ + 1]
        /\ strayed' = IF r = e[2] THEN strayed ELSE strayed \cup {r}
        /\ events' = events \ {e}
        /\ waiter' = IF events' = {} THEN "wait" ELSE "events"
        /\ ready' \in {ready, ready \ {e[1]}}
  /\ UNCHANGED <<registered, oneshot, fired, m_requests, cancelling, current,
                 cancelled, crossed, adds>>

(* One event: without a request it is an error, else the callback runs,     *)
(* which may consume the input, and the request is erased.                  *)
callback(e) ==
  /\ waiter = "events" /\ e \in events
  /\ LET r == m_requests[e[1]] IN
     \/ /\ r = 0
        /\ waiter' = "thrown"
        /\ UNCHANGED <<m_requests, called, strayed, events, ready>>
     \/ /\ r # 0
        /\ called' = [called EXCEPT ![r] = @ + 1]
        /\ m_requests' = [m_requests EXCEPT ![e[1]] = 0]
        /\ strayed' = IF r = e[2] THEN strayed ELSE strayed \cup {r}
        /\ events' = events \ {e}
        /\ waiter' = IF events' = {} THEN "wait" ELSE "events"
        /\ ready' \in {ready, ready \ {e[1]}}
  /\ UNCHANGED <<registered, oneshot, fired, cancelling, current, cancelled,
                 crossed, adds>>

WaiterStep == epoll_wait \/ waiter_lock \/ \E e \in events : callback(e)

(* The error leaves waiter's thread, which ends the program.                *)
Next ==
  /\ waiter # "thrown"
  /\ \/ WaiterStep
     \/ \E u \in User, f \in Fd : add(u, f) \/ cancel(u, f)
     \/ \E u \in User : cancel_erase(u)
     \/ \E f \in Fd : Arrive(f)

Spec == Init /\ [][Next]_vars

-----------------------------------------------------------------------------
(* A request that was added while nobody was about to erase under its      *)
(* descriptor is in the map for as long as its descriptor is on the list    *)
(* and it was not called back: no other step takes it out (add, cancel).    *)
RegisteredHasRequest ==
  \A f \in registered :
    \/ m_requests[f] = current[f]
    \/ called[current[f]] > 0 \/ current[f] \in crossed

(* An event in the waiter's hands finds the request it was for, but for     *)
(* three: a cancel has taken the request off meanwhile; the add crossed a   *)
(* cancel; the callback has run already, and the descriptor came again      *)
(* because it is level-triggered, or it ran for the event of a cancelled    *)
(* request.  Only these make waiter throw "Epoller::waiter: invalid fd"     *)
(* (epoller.cpp:69) or give an event to the callback of another request.    *)
EventsExplained ==
  \A e \in events :
    \/ m_requests[e[1]] = e[2]
    \/ e[2] \in cancelled \cup crossed
    \/ called[e[2]] > 0 /\ (e[1] \in registered \ oneshot \/ e[2] \in strayed)

(* A callback gets the event of another request only after a cancel.        *)
StraysExplained == strayed # {} => cancelled # {}

(* Nor is any request called back twice, whatever comes again.              *)
CalledOnce == \A r \in Request : called[r] =< 1

(* What the error at epoller.cpp:69 supposes: waiter meets no descriptor    *)
(* without a request.                                                       *)
NoInvalidFd == waiter # "thrown"

(* An epoll request is called back at most once, whoever looks for it finds *)
(* it unless it was cancelled, crossed or used up, and it is one of these   *)
(* when waiter throws (add, cancel, waiter).                                *)
CallbacksOnce ==
  /\ TypeOK /\ RegisteredHasRequest /\ EventsExplained /\ StraysExplained
  /\ CalledOnce
  /\ waiter = "thrown" => \E e \in events : m_requests[e[1]] = 0
===============================================================================
