-------------------------------- MODULE SkipList --------------------------------
(***************************************************************************)
(* SkipList (data_structure/include/SkipList.h): an ordered multiset in    *)
(* levels of linked lists, for one thread.  A key has one container, which *)
(* counts its copies, and one node in each of its levels; level 1 is the   *)
(* lowest.  clear() on a list with values in it follows a null pointer     *)
(* (SkipList.h:234), so only the clear of an emptied list is modelled.     *)
(***************************************************************************)
EXTENDS Integers, Sequences, FiniteSetsExt

CONSTANTS
  MaxKey,      \* the keys are 1 .. MaxKey
  MaxHeight,   \* bound on the levels
  MaxCount     \* bound on the copies of a key

SkipListAssumption ==
  MaxKey \in Nat /\ MaxHeight \in Nat \ {0} /\ MaxCount \in Nat

VARIABLES
  next,     \* level -> node -> the node on its right
  count,    \* key -> its container's count, 0 when it has none
  m_size,
  answer    \* what the last erase or exists gave

vars == <<next, count, m_size, answer>>

Key == 1 .. MaxKey
Top == 0       \* the head node of a level
Null == -1      \* no node on the right
Freed == -2     \* what the next of a node that is not there stands for
height == Len(next)

TypeOK ==
  /\ height \in 1 .. MaxHeight
  /\ \A l \in 1 .. height : next[l] \in [Key \cup {Top} -> Key \cup {Null, Freed}]
  /\ count \in [Key -> 0 .. MaxCount]
  /\ m_size \in Int
  /\ answer \in BOOLEAN

(* A level that has a head only.                                            *)
EmptyLevel == [n \in Key \cup {Top} |-> IF n = Top THEN Null ELSE Freed]

Init ==
  /\ next = <<EmptyLevel>>
  /\ count = [k \in Key |-> 0] /\ m_size = 0
  /\ answer = FALSE

-----------------------------------------------------------------------------
(* The last node of level l from cur on that is less than t.                *)
RECURSIVE right(_, _, _)
right(l, cur, t) ==
  IF next[l][cur] # Null /\ next[l][cur] < t THEN right(l, next[l][cur], t) ELSE cur

(* Where find goes down from level l: it comes from the level above, and    *)
(* goes right.                                                             *)
RECURSIVE find(_, _)
find(l, t) == right(l, IF l = height THEN Top ELSE find(l + 1, t), t)

(* The levels whose node of t is the next one on the way.                   *)
path(t) == {l \in 1 .. height : next[l][find(l, t)] = t}

(* Between n and what was on its right.                                     *)
link(l, n, t) == [next[l] EXCEPT ![t] = next[l][n], ![n] = t]

(* A node in each level up to insert_level; at most one new level.          *)
inserted(t, insert_level) ==
  LET old == [l \in 1 .. height |->
                IF l =< insert_level THEN link(l, find(l, t), t) ELSE next[l]]
      top == [EmptyLevel EXCEPT ![Top] = t, ![t] = Null]
  IN IF insert_level > height THEN Append(old, top) ELSE old

(* RandLevel gives insert_level.                                            *)
push(t, insert_level) ==
  /\ count[t] < MaxCount
  /\ count' = [count EXCEPT ![t] = @ + 1]
  /\ m_size' = m_size + 1
  /\ IF next[1][find(1, t)] = t
       THEN UNCHANGED next
       ELSE next' = inserted(t, insert_level)
  /\ height' =< MaxHeight
  /\ UNCHANGED answer

(* t's node goes from every level of its path.                              *)
unlinked(t) ==
  [l \in 1 .. height |->
     IF l \in path(t)
       THEN [next[l] EXCEPT ![find(l, t)] = next[l][t], ![t] = Freed]
       ELSE next[l]]

(* Mutant: a key that is not there is counted down too. *)
erase_blind(t) ==
  IF m_size = 0
    THEN answer' = FALSE /\ UNCHANGED <<next, count, m_size>>
    ELSE /\ answer' = TRUE
         /\ count' = [count EXCEPT ![t] = @ - 1]
         /\ m_size' = m_size - 1
         /\ next' = IF count[t] > 1 THEN next ELSE unlinked(t)

(* The nodes go with the last copy.                                         *)
erase(t) ==
  IF m_size = 0 \/ path(t) = {}
    THEN answer' = FALSE /\ UNCHANGED <<next, count, m_size>>
    ELSE /\ answer' = TRUE
         /\ count' = [count EXCEPT ![t] = @ - 1]
         /\ m_size' = m_size - 1
         /\ next' = IF count[t] > 1 THEN next ELSE unlinked(t)

exists(t) ==
  /\ answer' = (path(t) # {})
  /\ UNCHANGED <<next, count, m_size>>

(* The levels above the lowest go.                                          *)
clear ==
  /\ next[1][Top] = Null
  /\ next' = <<next[1]>>
  /\ UNCHANGED <<count, m_size, answer>>

Next ==
  \/ \E t \in Key : \/ \E i \in 1 .. MaxHeight : push(t, i)
                    \/ erase(t)
                    \/ exists(t)
  \/ clear

Spec == Init /\ [][Next]_vars

-----------------------------------------------------------------------------
(* Each level runs upwards from its head through every node it has and no   *)
(* freed one, and a node has one below it and a container                  *)
(* (SkipList.h push, erase, clear).                                        *)
LevelsWhole ==
  \A l \in 1 .. height :
    /\ \A n \in Key \cup {Top} :
         next[l][n] \in Key => next[l][n] > n /\ next[l][next[l][n]] # Freed
    /\ \A k \in Key : next[l][k] # Freed =>
         /\ \E n \in Key \cup {Top} : next[l][n] = k
         /\ l > 1 => next[l - 1][k] # Freed
         /\ count[k] > 0

(* m_size, by which an erase tells an empty list, is the number of copies   *)
(* (SkipList.h:121, 161, 186, 203).                                        *)
SizeExact == m_size = MapThenSumSet(LAMBDA k : count[k], Key)

(* A key's copies, as far as its container is in the lowest level.          *)
Bag == [k \in Key |-> IF next[1][k] # Freed THEN count[k] ELSE 0]

(* The list is a multiset, with the answers of erase and exists             *)
(* (SkipList.h find, push, erase, exists).                                  *)
Copies == INSTANCE Multiset WITH bag <- Bag, answer <- answer

===============================================================================
