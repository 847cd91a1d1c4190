----------------------------- MODULE QueueLockFree ----------------------------
(***************************************************************************)
(* QueueLockFree (data_structure/include/QueueLockFree.h): a linked list   *)
(* behind a sentinel, pushed at tail by exchanging the last next pointer   *)
(* and popped at the sentinel's.  Nodes are numbered in the order of their *)
(* creation, the sentinel is 0; a node that was destroyed keeps its        *)
(* contents, so that what reads it after that goes on.                     *)
(***************************************************************************)
EXTENDS Integers, Sequences, SequencesExt

CONSTANTS
  Pusher, Popper,
  OnePop,       \* pops run one at a time (main.cpp:91), beside any pushes
  MaxNodes,     \* bound on the pushes
  MaxPops       \* bound on the pops: a node may be popped again and again

QueueAssumption == OnePop \in BOOLEAN /\ MaxNodes \in Nat /\ MaxPops \in Nat

Null == -1
Node == 1 .. MaxNodes
Ptr  == {Null, 0} \cup Node

VARIABLES
  next, removal, tail,
  created, freed,
  pc,
  cur,       \* cur_tail of a push, cur of a pop
  mine,      \* the node of a push, nodeToBeDel of a pop
  after,     \* what the pop function returned
  linked,    \* the nodes in the order of their exchanges (history)
  popped,    \* and in the order they were returned (history)
  late,      \* the nodes linked behind a node that a pop had marked (history)
  beside,    \* a push and a pop have been under way at once (history)
  dangling   \* a destroyed node was written to or read (history)

vars == <<next, removal, tail, created, freed, pc, cur, mine, after, linked, popped,
          late, beside, dangling>>

Caller == Pusher \cup Popper

TypeOK ==
  /\ next \in [{0} \cup Node -> Ptr]
  /\ removal \subseteq Node
  /\ tail \in {0} \cup Node
  /\ created \in 0 .. MaxNodes /\ freed \subseteq Node
  /\ pc \in [Caller -> {"idle", "load", "flag", "link", "tail",
                        "read", "mark", "next", "unlink", "retract", "take"}]
  /\ cur \in [Caller -> Ptr] /\ mine \in [Caller -> Ptr] /\ after \in [Caller -> Ptr]
  /\ linked \in Seq(Node) /\ popped \in Seq(Node)
  /\ late \subseteq Node /\ beside \in BOOLEAN /\ dangling \in BOOLEAN

Init ==
  /\ next = [n \in {0} \cup Node |-> Null]
  /\ removal = {} /\ tail = 0
  /\ created = 0 /\ freed = {}
  /\ pc = [t \in Caller |-> "idle"]
  /\ cur = [t \in Caller |-> Null] /\ mine = cur /\ after = cur
  /\ linked = <<>> /\ popped = <<>>
  /\ late = {} /\ beside = FALSE /\ dangling = FALSE

-----------------------------------------------------------------------------
Goto(t, from, to) == pc[t] = from /\ pc' = [pc EXCEPT ![t] = to]
Idle(ts) == \A t \in ts : pc[t] = "idle"

(* The members of a node are used: a mistake when the node is destroyed.    *)
Use(n) == dangling' = (dangling \/ n \in freed)

push(t) ==
  /\ Goto(t, "idle", "load")
  /\ created < MaxNodes /\ created' = created + 1
  /\ mine' = [mine EXCEPT ![t] = created + 1]
  /\ beside' = (beside \/ ~Idle(Popper))
  /\ UNCHANGED <<next, removal, tail, freed, cur, after, linked, popped, late, dangling>>

push_load(t) ==
  /\ Goto(t, "load", "flag")
  /\ cur' = [cur EXCEPT ![t] = tail]
  /\ UNCHANGED <<next, removal, tail, created, freed, mine, after, linked, popped, late,
                 beside, dangling>>

push_flag(t) ==
  /\ Goto(t, "flag", IF cur[t] \in removal THEN "load" ELSE "link")
  /\ Use(cur[t])
  /\ UNCHANGED <<next, removal, tail, created, freed, cur, mine, after, linked, popped, late,
                 beside>>

push_link(t) ==
  /\ \/ /\ Goto(t, "link", "tail")
        /\ next[cur[t]] = Null
        /\ next' = [next EXCEPT ![cur[t]] = mine[t]]
        /\ linked' = Append(linked, mine[t])
        /\ late' = IF cur[t] \in removal THEN late \cup {mine[t]} ELSE late
     \/ /\ Goto(t, "link", "load")
        /\ next[cur[t]] # Null
        /\ UNCHANGED <<next, linked, late>>
  /\ Use(cur[t])
  /\ UNCHANGED <<removal, tail, created, freed, cur, mine, after, popped, beside>>

push_tail(t) ==
  /\ Goto(t, "tail", "idle")
  /\ tail' = mine[t]
  /\ UNCHANGED <<next, removal, created, freed, cur, mine, after, linked, popped, late, beside,
                 dangling>>

-----------------------------------------------------------------------------
(* try_pop: pop_fn is called with what the sentinel's next is now ...       *)
try_pop(t) ==
  /\ Goto(t, "idle", IF next[0] = Null THEN "idle" ELSE "mark")
  /\ OnePop => Idle(Popper)
  /\ Len(popped) < MaxPops
  /\ cur' = [cur EXCEPT ![t] = next[0]]
  /\ mine' = [mine EXCEPT ![t] = next[0]]
  /\ beside' = (beside \/ ~Idle(Pusher))
  /\ UNCHANGED <<next, removal, tail, created, freed, after, linked, popped, late, dangling>>

(* Mutant: the node is not marked, so a push goes on behind it. *)
pop_mark_not(t) ==
  /\ Goto(t, "mark", "next")
  /\ Use(cur[t])
  /\ UNCHANGED <<next, removal, tail, created, freed, cur, mine, after, linked, popped, late,
                 beside>>

pop_mark(t) ==
  /\ Goto(t, "mark", "next")
  /\ removal' = removal \cup {cur[t]}
  /\ Use(cur[t])
  /\ UNCHANGED <<next, tail, created, freed, cur, mine, after, linked, popped, late, beside>>

pop_next(t) ==
  /\ Goto(t, "next", "unlink")
  /\ after' = [after EXCEPT ![t] = next[cur[t]]]
  /\ Use(cur[t])
  /\ UNCHANGED <<next, removal, tail, created, freed, cur, mine, linked, popped, late, beside>>

(* ... until the exchange succeeds; called with no node, pop_fn leaves      *)
(* nodeToBeDel as it was.                                                   *)
pop_unlink(t) ==
  /\ \/ /\ next[0] = cur[t]
        /\ Goto(t, "unlink", "retract")
        /\ next' = [next EXCEPT ![0] = after[t]]
        /\ UNCHANGED <<cur, mine, after>>
     \/ /\ next[0] \notin {cur[t], Null}
        /\ Goto(t, "unlink", "mark")
        /\ cur' = [cur EXCEPT ![t] = next[0]]
        /\ mine' = [mine EXCEPT ![t] = next[0]]
        /\ UNCHANGED <<next, after>>
     \/ /\ next[0] = Null /\ cur[t] # Null
        /\ pc[t] = "unlink" /\ UNCHANGED pc
        /\ cur' = [cur EXCEPT ![t] = Null]
        /\ after' = [after EXCEPT ![t] = Null]
        /\ UNCHANGED <<next, mine>>
  /\ UNCHANGED <<removal, tail, created, freed, linked, popped, late, beside, dangling>>

(* If the node was the last, the sentinel is.                               *)
pop_retract(t) ==
  /\ Goto(t, "retract", "take")
  /\ tail' = IF tail = mine[t] THEN 0 ELSE tail
  /\ UNCHANGED <<next, removal, created, freed, cur, mine, after, linked, popped, late, beside,
                 dangling>>

pop_take(t) ==
  /\ Goto(t, "take", "idle")
  /\ popped' = Append(popped, mine[t])
  /\ freed' = freed \cup {mine[t]}
  /\ Use(mine[t])
  /\ UNCHANGED <<next, removal, tail, created, cur, mine, after, linked, late, beside>>

-----------------------------------------------------------------------------
PushStep(t) == push_load(t) \/ push_flag(t) \/ push_link(t) \/ push_tail(t)
PopStep(t)  == pop_mark(t) \/ pop_next(t) \/ pop_unlink(t) \/ pop_retract(t) \/ pop_take(t)

Next ==
  \/ \E t \in Pusher : push(t) \/ PushStep(t)
  \/ \E t \in Popper : try_pop(t) \/ PopStep(t)

Spec == Init /\ [][Next]_vars

-----------------------------------------------------------------------------
(* Pops return nodes in the order in which they were linked, and none       *)
(* twice, whatever pushes run beside them (push, try_pop).                  *)
Place(n) == CHOOSE i \in DOMAIN linked : linked[i] = n

InOrder ==
  \A i, j \in DOMAIN popped : i < j => Place(popped[i]) < Place(popped[j])

(* What a push beside a pop can lose is a node that it links behind one the *)
(* pop has marked, and what is linked behind such a node: between pops, any *)
(* other node whose predecessor was popped, or was the sentinel, is popped  *)
(* or the next to be (QueueLockFree.h:82, 113).                             *)
Popped == {popped[i] : i \in DOMAIN popped}
Linked == {linked[i] : i \in DOMAIN linked}
Follows ==
  Idle(Popper) =>
    \A n \in Linked \ late :
      (\A f \in Node : next[f] = n => f \in Popped) => n \in Popped \cup {next[0]}

(* If no node was linked so, pops skip none, and between pops the list      *)
(* behind the sentinel is exactly what was linked and not popped.           *)
Fifo == IsPrefix(popped, linked)

Rest == SubSeq(linked, Len(popped) + 1, Len(linked))
Chain == <<0>> \o Rest
NothingLost ==
  late = {} =>
    /\ Fifo
    /\ Idle(Popper) => \A i \in 1 .. Len(Chain) :
         next[Chain[i]] = IF i < Len(Chain) THEN Chain[i + 1] ELSE Null

(* If no push and pop have overlapped, no node is used after it was         *)
(* destroyed, and tail is the last node whenever nobody is under way.       *)
TailRight ==
  ~beside => ~dangling /\ (Idle(Caller) => tail = Last(Chain))

QueueOrder == InOrder /\ Follows /\ NothingLost /\ TailRight

(* With pops and pushes at once, what is popped has at least been pushed.   *)
OnlyPushed == \A i \in DOMAIN popped : \E j \in DOMAIN linked : popped[i] = linked[j]

(* queue_lock_free_test (main.cpp:107): every value that was pushed is      *)
(* pulled, as often as it was pushed.                                       *)
AllPulled ==
  (Idle(Caller) /\ created = MaxNodes /\ next[0] = Null)
     => {popped[i] : i \in DOMAIN popped} = Node /\ Len(popped) = MaxNodes
===============================================================================
