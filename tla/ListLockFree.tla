---------------------------- MODULE ListLockFree ----------------------------
(***************************************************************************)
(* ListLockFree (data_structure/include/ListLockFree.h): a doubly linked   *)
(* list behind a sentinel, with a spin lock and a removal mark in every    *)
(* node.  push_back appends under the lock of the last node; a removal     *)
(* holds the lock of its node, then waits for that of the one before, then *)
(* only tries that of the one behind, and starts over when that fails.     *)
(*                                                                         *)
(* Nodes are numbered in the order of their creation, the sentinel is 0.   *)
(* The recycler gives a node out again only after LIFE_CYCLE others went   *)
(* through it, which is more than the nodes here.                          *)
(***************************************************************************)
EXTENDS Integers, FiniteSets

CONSTANTS
  Thread,
  MaxNodes,     \* bound on the pushes
  MaxPops       \* bound on the calls of try_pop_front

Null == -1
None == "none"

ListAssumption ==
  IsFiniteSet(Thread) /\ None \notin Thread /\ MaxNodes \in Nat /\ MaxPops \in Nat

Node == 1 .. MaxNodes
Ptr  == {Null, 0} \cup Node

VARIABLES
  next, pred, removal, holder,   \* of each node
  tail, m_size,
  created,
  pc, op,        \* where a thread is, and in which operation
  self,          \* nodeToDel, or the node being pushed
  prev, succ,    \* cur_tail or pred, and succ: what the thread has locked besides
  owner,         \* the thread that pushed a node
  asked,         \* the nodes try_erase was called with, and ...
  taken,         \* ... how often a removal of the node returned true (history)
  pops           \* calls of try_pop_front

nodes   == <<next, pred, removal, tail>>
history == <<owner, asked, taken, pops>>
vars == <<nodes, holder, m_size, created, pc, op, self, prev, succ, history>>

Removing == {"lock", "mark", "pred", "plock", "check", "slock", "unlink", "back",
             "tail", "release", "size"}
Failing  == {"unlock", "clear", "drop"}

TypeOK ==
  /\ next \in [{0} \cup Node -> Ptr] /\ pred \in [Node -> Ptr]
  /\ removal \subseteq Node
  /\ holder \in [{0} \cup Node -> Thread \cup {None}]
  /\ tail \in {0} \cup Node /\ m_size \in Int
  /\ created \in 0 .. MaxNodes
  /\ pc \in [Thread -> {"idle", "load", "try", "link", "ptail", "psize", "empty", "valid"}
                       \cup Removing \cup Failing]
  /\ op \in [Thread -> {"push", "pop", "erase"}]
  /\ self \in [Thread -> Ptr] /\ prev \in [Thread -> Ptr] /\ succ \in [Thread -> Ptr]
  /\ owner \in [Node -> Thread \cup {None}] /\ asked \subseteq Node
  /\ taken \in [Node -> Nat] /\ pops \in 0 .. MaxPops

Init ==
  /\ next = [n \in {0} \cup Node |-> Null] /\ pred = [n \in Node |-> Null]
  /\ removal = {}
  /\ holder = [n \in {0} \cup Node |-> None]
  /\ tail = 0 /\ m_size = 0 /\ created = 0
  /\ pc = [t \in Thread |-> "idle"] /\ op = [t \in Thread |-> "push"]
  /\ self = [t \in Thread |-> Null] /\ prev = self /\ succ = self
  /\ owner = [n \in Node |-> None] /\ asked = {}
  /\ taken = [n \in Node |-> 0] /\ pops = 0

-----------------------------------------------------------------------------
Goto(t, from, to) == pc[t] = from /\ pc' = [pc EXCEPT ![t] = to]

acquire(t, n) == holder[n] = None /\ holder' = [holder EXCEPT ![n] = t]
release(t, ns) ==
  holder' = [n \in DOMAIN holder |-> IF n \in ns /\ holder[n] = t THEN None ELSE holder[n]]

push_back(t) ==
  /\ Goto(t, "idle", "load")
  /\ created < MaxNodes /\ created' = created + 1
  /\ op' = [op EXCEPT ![t] = "push"]
  /\ self' = [self EXCEPT ![t] = created + 1]
  /\ owner' = [owner EXCEPT ![created + 1] = t]
  /\ UNCHANGED <<nodes, holder, m_size, prev, succ, asked, taken, pops>>

push_load(t) ==
  /\ Goto(t, "load", "try")
  /\ prev' = [prev EXCEPT ![t] = tail]
  /\ UNCHANGED <<nodes, holder, m_size, created, op, self, succ, history>>

push_try(t) ==
  /\ \/ Goto(t, "try", "link") /\ acquire(t, prev[t])
     \/ Goto(t, "try", "load") /\ holder[prev[t]] # None /\ UNCHANGED holder
  /\ UNCHANGED <<nodes, m_size, created, op, self, prev, succ, history>>

(* Is the node still the last?  If not, tail is loaded again.               *)
push_link(t) ==
  /\ \/ /\ Goto(t, "link", "ptail")
        /\ next[prev[t]] = Null /\ prev[t] \notin removal
        /\ pred' = [pred EXCEPT ![self[t]] = prev[t]]
        /\ next' = [next EXCEPT ![prev[t]] = self[t]]
        /\ UNCHANGED holder
     \/ /\ Goto(t, "link", "load")
        /\ next[prev[t]] # Null \/ prev[t] \in removal
        /\ release(t, {prev[t]}) /\ UNCHANGED <<next, pred>>
  /\ UNCHANGED <<removal, tail, m_size, created, op, self, prev, succ, history>>

push_tail(t) ==
  /\ Goto(t, "ptail", "psize")
  /\ tail' = self[t]
  /\ release(t, {prev[t]})
  /\ UNCHANGED <<next, pred, removal, m_size, created, op, self, prev, succ, history>>

push_size(t) ==
  /\ Goto(t, "psize", "idle")
  /\ m_size' = m_size + 1
  /\ UNCHANGED <<nodes, holder, created, op, self, prev, succ, history>>

-----------------------------------------------------------------------------
try_pop_front(t) ==
  /\ Goto(t, "idle", "empty")
  /\ pops < MaxPops /\ pops' = pops + 1
  /\ op' = [op EXCEPT ![t] = "pop"]
  /\ UNCHANGED <<nodes, holder, m_size, created, self, prev, succ, owner, asked, taken>>

(* Nothing to pop: nullopt.  Otherwise the first node, if there is one yet. *)
pop_first(t) ==
  /\ Goto(t, "empty", IF m_size = 0 THEN "idle" ELSE "valid")
  /\ self' = [self EXCEPT ![t] = next[0]]
  /\ UNCHANGED <<nodes, holder, m_size, created, op, prev, succ, history>>

(* A thread erases a node of its own, once it is in the list.               *)
try_erase(t, n) ==
  /\ Goto(t, "idle", "valid")
  /\ owner[n] = t /\ n \notin asked
  /\ asked' = asked \cup {n}
  /\ op' = [op EXCEPT ![t] = "erase"]
  /\ self' = [self EXCEPT ![t] = n]
  /\ UNCHANGED <<nodes, holder, m_size, created, prev, succ, owner, taken, pops>>

(* A pop starts over, an erase is done: it returns false.                   *)
Giveup(t) == IF op[t] = "pop" THEN "empty" ELSE "idle"

validNode(n) == n # Null /\ n \notin removal

valid(t) ==
  /\ Goto(t, "valid", IF validNode(self[t]) THEN "lock" ELSE Giveup(t))
  /\ UNCHANGED <<nodes, holder, m_size, created, op, self, prev, succ, history>>

lock_self(t) ==
  /\ Goto(t, "lock", "mark")
  /\ acquire(t, self[t])
  /\ UNCHANGED <<nodes, m_size, created, op, self, prev, succ, history>>

mark(t) ==
  /\ \/ /\ Goto(t, "mark", "pred") /\ self[t] \notin removal
        /\ removal' = removal \cup {self[t]} /\ UNCHANGED holder
     \/ /\ Goto(t, "mark", Giveup(t)) /\ self[t] \in removal
        /\ release(t, {self[t]}) /\ UNCHANGED removal
  /\ UNCHANGED <<next, pred, tail, m_size, created, op, self, prev, succ, history>>

(* A pop takes the sentinel for the predecessor, an erase asks the node.    *)
read_pred(t) ==
  /\ Goto(t, "pred", "plock")
  /\ prev' = [prev EXCEPT ![t] = IF op[t] = "pop" THEN 0 ELSE pred[self[t]]]
  /\ UNCHANGED <<nodes, holder, m_size, created, op, self, succ, history>>

lock_pred(t) ==
  /\ Goto(t, "plock", "check")
  /\ acquire(t, prev[t])
  /\ UNCHANGED <<nodes, m_size, created, op, self, prev, succ, history>>

(* lockForAlter: is it still the predecessor, and is there a successor?  An *)
(* erase unlocks its node before it takes the mark off, a pop after.        *)
Fail(t) == IF op[t] = "pop" THEN "clear" ELSE "unlock"
check_pred(t) ==
  /\ Goto(t, "check",
       CASE prev[t] \in removal \/ next[prev[t]] # self[t] -> Fail(t)
         [] OTHER -> IF next[self[t]] = Null THEN "unlink" ELSE "slock")
  /\ succ' = [succ EXCEPT ![t] = next[self[t]]]
  /\ UNCHANGED <<nodes, holder, m_size, created, op, self, prev, history>>

lock_succ(t) ==
  /\ \/ /\ Goto(t, "slock", "unlink") /\ acquire(t, succ[t])
        /\ succ[t] \notin removal /\ pred[succ[t]] = self[t]
     \/ /\ Goto(t, "slock", Fail(t)) /\ acquire(t, succ[t])
        /\ succ[t] \in removal \/ pred[succ[t]] # self[t]
     \/ /\ Goto(t, "slock", Fail(t)) /\ holder[succ[t]] # None
        /\ UNCHANGED holder
  /\ UNCHANGED <<nodes, m_size, created, op, self, prev, succ, history>>

unlink(t) ==
  /\ Goto(t, "unlink", "back")
  /\ next' = [next EXCEPT ![prev[t]] = succ[t]]
  /\ UNCHANGED <<pred, removal, tail, holder, m_size, created, op, self, prev, succ, history>>

link_back(t) ==
  /\ Goto(t, "back", "tail")
  /\ pred' = IF succ[t] = Null THEN pred ELSE [pred EXCEPT ![succ[t]] = prev[t]]
  /\ UNCHANGED <<next, removal, tail, holder, m_size, created, op, self, prev, succ, history>>

move_tail(t) ==
  /\ Goto(t, "tail", "release")
  /\ tail' = IF tail = self[t] THEN prev[t] ELSE tail
  /\ release(t, {prev[t], succ[t]})
  /\ UNCHANGED <<next, pred, removal, m_size, created, op, self, prev, succ, history>>

removed(t) ==
  /\ Goto(t, "release", "size")
  /\ m_size' = m_size - 1
  /\ taken' = [taken EXCEPT ![self[t]] = @ + 1]
  /\ UNCHANGED <<nodes, holder, created, op, self, prev, succ, owner, asked, pops>>

(* The guard of the node itself goes with the call.                         *)
return(t) ==
  /\ Goto(t, "size", "idle")
  /\ release(t, {self[t]})
  /\ UNCHANGED <<nodes, m_size, created, op, self, prev, succ, history>>

unlock_self(t) ==
  /\ Goto(t, "unlock", "clear")
  /\ release(t, {self[t]})
  /\ UNCHANGED <<nodes, m_size, created, op, self, prev, succ, history>>

clearRemoval(t) ==
  /\ Goto(t, "clear", "drop")
  /\ removal' = removal \ {self[t]}
  /\ UNCHANGED <<next, pred, tail, holder, m_size, created, op, self, prev, succ, history>>

(* The locks of the neighbours go last, and the attempt is made anew.       *)
drop(t) ==
  /\ Goto(t, "drop", IF op[t] = "pop" THEN "empty" ELSE "valid")
  /\ release(t, {self[t], prev[t], succ[t]})
  /\ UNCHANGED <<nodes, m_size, created, op, self, prev, succ, history>>

-----------------------------------------------------------------------------
Step(t) ==
  \/ push_load(t) \/ push_try(t) \/ push_link(t) \/ push_tail(t) \/ push_size(t)
  \/ pop_first(t)
  \/ valid(t) \/ lock_self(t) \/ mark(t) \/ read_pred(t) \/ lock_pred(t)
  \/ check_pred(t) \/ lock_succ(t) \/ unlink(t) \/ link_back(t) \/ move_tail(t)
  \/ removed(t) \/ return(t)
  \/ unlock_self(t) \/ clearRemoval(t) \/ drop(t)

Next ==
  \E t \in Thread :
    push_back(t) \/ try_pop_front(t) \/ (\E n \in Node : try_erase(t, n)) \/ Step(t)

Spec == Init /\ [][Next]_vars

-----------------------------------------------------------------------------
(* The nodes that are in the list: pushed, and not unlinked again.          *)
Idle == \A t \in Thread : pc[t] = "idle"
Gone == {n \in Node : taken[n] > 0}
Live == (1 .. created) \ Gone

(* The list between calls: the nodes that were not removed, each the        *)
(* predecessor of the one behind it in both directions, up to tail, and as  *)
(* many as m_size says (push_back, try_pop_front, try_erase).               *)
ListWhole ==
  Idle =>
    /\ m_size = Cardinality(Live)
    /\ {next[n] : n \in Live \cup {0}} \ {Null} = Live
    /\ \A n \in Live : next[pred[n]] = n /\ pred[n] \in Live \cup {0}
    /\ tail \in Live \cup {0} /\ next[tail] = Null
    /\ removal \cap Live = {}

(* The locks never block everyone: a removal that holds its node waits only *)
(* for a predecessor, and does not wait for the successor (lockForAlter).   *)
SomeoneGoesOn == ~Idle => \E t \in Thread : ENABLED Step(t)

(* list_free_test: every thread erases what it pushed, nobody pops, and     *)
(* nothing is left (main.cpp:59 prints the size).                           *)
AllErased ==
  (Idle /\ pops = 0 /\ asked = 1 .. created) => m_size = 0 /\ next[0] = Null /\ tail = 0
===============================================================================
