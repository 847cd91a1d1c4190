-------------------------- MODULE SkipListLockFree --------------------------
(***************************************************************************)
(* SkipListLockFree (data_structure/include/SkipListLockFree.h): a lazy    *)
(* skip list with counted keys.  push and erase look the neighbours of a   *)
(* key up without a lock, lock the predecessors from the lowest level up   *)
(* and look again; a node is marked before it is unlinked and usable only  *)
(* once it is fully linked.  The head has a lock and a height of its own   *)
(* and is replaced by a higher one as the list grows.                      *)
(*                                                                         *)
(* Nodes are numbered in the order of their creation, the first head is 1; *)
(* key 0 stands for a head, which is below every key.  The recycler keeps  *)
(* the memory of a freed node readable, and gives it out again only after  *)
(* more calls than there are here.                                         *)
(***************************************************************************)
EXTENDS Integers, FiniteSets, FiniteSetsExt

CONSTANTS
  Thread,
  MaxKey,
  Apart,        \* no push of a key runs beside an erase of the same key
  MAX_HEIGHT,
  Limit,        \* the head grows beyond cur_h + Limit nodes, not 2^cur_h: sooner
  SizeModulus,  \* m_size is a size_t: this stands for 2^64
  MaxNodes,     \* bound on the nodes, heads and losing heads included
  MaxCalls      \* bound on the calls

SkipAssumption ==
  /\ IsFiniteSet(Thread) /\ Apart \in BOOLEAN
  /\ {MaxKey, MAX_HEIGHT, SizeModulus, MaxNodes, MaxCalls} \subseteq Nat \ {0}
  /\ Limit \in Nat
  /\ SizeModulus > 2 * MaxCalls

Null == 0
None == "none"
Key   == 1 .. MaxKey
Node  == 1 .. MaxNodes
Level == 0 .. MAX_HEIGHT - 1

VARIABLES
  key, height, m_skip, marked, linked, ref_count, holder,   \* of each node
  head, m_size,
  created,
  th,         \* the local variables of a thread
  count,      \* copies of a key that were pushed and not erased (history)
  calls

nodes == <<key, height, m_skip, marked, linked, ref_count>>
vars  == <<nodes, holder, head, m_size, created, th, count, calls>>

Pc == {"idle", "top", "start", "find", "found", "wait", "count", "lock", "link", "linked",
       "size", "unlock", "grow", "copy", "self", "dec", "mark", "unlink", "less", "free",
       "pred", "look", "right", "absent"}

Idle0 == [pc |-> "idle", op |-> "push", key |-> 0, max |-> 0, pos |-> 1, level |-> 0,
          preds |-> [i \in Level |-> Null], succs |-> [i \in Level |-> Null],
          found |-> -1, node |-> Null, nh |-> 0, isMarked |-> FALSE, size |-> 0,
          sure |-> FALSE]

TypeOK ==
  /\ key \in [Node -> 0 .. MaxKey] /\ height \in [Node -> 0 .. MAX_HEIGHT]
  /\ m_skip \in [Node -> [Level -> Node \cup {Null}]]
  /\ marked \subseteq Node /\ linked \subseteq Node
  /\ ref_count \in [Node -> Nat]
  /\ holder \in [Node -> Thread \cup {None}]
  /\ head \in Node /\ m_size \in 0 .. SizeModulus - 1
  /\ created \in Node
  /\ \A t \in Thread : th[t].pc \in Pc /\ th[t].level \in -1 .. MAX_HEIGHT
  /\ count \in [Key -> Nat] /\ calls \in 0 .. MaxCalls

(* The list starts with a head of height one.                               *)
Init ==
  /\ key = [n \in Node |-> 0] /\ height = [n \in Node |-> IF n = 1 THEN 1 ELSE 0]
  /\ m_skip = [n \in Node |-> [i \in Level |-> Null]]
  /\ marked = {} /\ linked = {} /\ ref_count = [n \in Node |-> 0]
  /\ holder = [n \in Node |-> None]
  /\ head = 1 /\ m_size = 0 /\ created = 1
  /\ th = [t \in Thread |-> Idle0]
  /\ count = [k \in Key |-> 0] /\ calls = 0

-----------------------------------------------------------------------------
At(t, from) == th[t].pc = from
Skip(n, l)  == m_skip[n][l]
less(k, n)    == n # Null => k < key[n]
greater(k, n) == n # Null /\ key[n] < k

acquire(t, n)  == holder[n] = None /\ holder' = [holder EXCEPT ![n] = t]
release(t, ns) ==
  holder' = [n \in Node |-> IF n \in ns /\ holder[n] = t THEN None ELSE holder[n]]
Guards(t) == {th[t].preds[i] : i \in Level}

Return(t) == [th EXCEPT ![t] = Idle0]

AddSize(d) == m_size' = (m_size + d) % SizeModulus
Running(op, k) == \E u \in Thread : th[u].pc # "idle" /\ th[u].op = op /\ th[u].key = k

Call(t, op, k, pc) ==
  /\ At(t, "idle") /\ calls < MaxCalls /\ calls' = calls + 1
  /\ th' = [th EXCEPT ![t] = [Idle0 EXCEPT !.pc = pc, !.op = op, !.key = k,
                                           !.max = height[head] - 1,
                                           !.sure = count[k] > 0 /\ ~Running("erase", k)]]

(* getMaxHeight is asked once more by findKeyNode.                          *)
push(t, k) ==
  /\ Apart => ~Running("erase", k)
  /\ Call(t, "push", k, "top")
  /\ UNCHANGED <<nodes, holder, head, m_size, created, count>>

erase(t, k) ==
  /\ Apart => ~Running("push", k)
  /\ At(t, "idle") /\ calls < MaxCalls /\ calls' = calls + 1
  /\ th' = [u \in Thread |->
              IF u = t THEN [Idle0 EXCEPT !.pc = "top", !.op = "erase", !.key = k]
              ELSE [th[u] EXCEPT !.sure = @ /\ th[u].key # k]]
  /\ UNCHANGED <<nodes, holder, head, m_size, created, count>>

-----------------------------------------------------------------------------
(* findKeyNode: the height of the head, then the head itself (its arguments *)
(* are evaluated from the right), then down.                                *)
find_top(t) ==
  /\ At(t, "top")
  /\ th' = [th EXCEPT ![t].pc = "start", ![t].level = height[head] - 1, ![t].found = -1,
                      ![t].preds = Idle0.preds, ![t].succs = Idle0.succs]
  /\ UNCHANGED <<nodes, holder, head, m_size, created, count, calls>>

find_start(t) ==
  /\ At(t, "start")
  /\ th' = [th EXCEPT ![t].pc = "find", ![t].pos = head]
  /\ UNCHANGED <<nodes, holder, head, m_size, created, count, calls>>

find_right(t) ==
  LET next == Skip(th[t].pos, th[t].level) IN
  /\ At(t, "find") /\ th[t].level >= 0
  /\ greater(th[t].key, next)
  /\ th' = [th EXCEPT ![t].pos = next]
  /\ UNCHANGED <<nodes, holder, head, m_size, created, count, calls>>

(* On the highest level on which the key is met, and below, it is the       *)
(* successor.                                                               *)
find_down(t) ==
  LET l == th[t].level
      next == Skip(th[t].pos, l)
      hit  == th[t].found = -1 /\ ~less(th[t].key, next)
  IN
  /\ At(t, "find") /\ l >= 0
  /\ ~greater(th[t].key, next)
  /\ th' = [th EXCEPT ![t].preds[l] = th[t].pos,
                      ![t].succs[l] = IF th[t].found = -1 THEN next
                                      ELSE th[t].succs[th[t].found],
                      ![t].found = IF hit THEN l ELSE @,
                      ![t].level = l - 1,
                      ![t].pc = IF l = 0 THEN "found" ELSE "find"]
  /\ UNCHANGED <<nodes, holder, head, m_size, created, count, calls>>

Found(t) == th[t].succs[th[t].found]

-----------------------------------------------------------------------------
Again(t) == [th EXCEPT ![t].pc = "top", ![t].max = height[head] - 1]

(* push: the key is there, or is being added or removed by another ...      *)
push_found(t) ==
  /\ At(t, "found") /\ th[t].op = "push" /\ th[t].found >= 0
  /\ th' = IF Found(t) \in marked THEN Again(t) ELSE [th EXCEPT ![t].pc = "wait"]
  /\ UNCHANGED <<nodes, holder, head, m_size, created, count, calls>>

push_count(t) ==
  /\ At(t, "wait") /\ Found(t) \in linked
  /\ ref_count' = [ref_count EXCEPT ![Found(t)] = @ + 1]
  /\ th' = [th EXCEPT ![t].pc = "count"]
  /\ UNCHANGED <<key, height, m_skip, marked, linked, holder, head, m_size, created, count,
                 calls>>

push_again(t) ==
  /\ At(t, "count")
  /\ AddSize(1)
  /\ count' = [count EXCEPT ![th[t].key] = @ + 1]
  /\ th' = Return(t)
  /\ UNCHANGED <<nodes, holder, head, created, calls>>

(* ... or it is not, and a height is drawn: 1 to max_level + 1.             *)
push_height(t, h) ==
  /\ At(t, "found") /\ th[t].op = "push" /\ th[t].found = -1
  /\ h \in 1 .. th[t].max + 1
  /\ th' = [th EXCEPT ![t].pc = "lock", ![t].nh = h, ![t].level = 0]
  /\ UNCHANGED <<nodes, holder, head, m_size, created, count, calls>>

(* lockNodesForChange: each predecessor once, and whether what was found    *)
(* still holds; if not, all locks go and the search starts over.            *)
Valid(t, i) ==
  /\ th[t].preds[i] \notin marked
  /\ Skip(th[t].preds[i], i) = th[t].succs[i]
  /\ th[t].op = "push" => th[t].succs[i] \notin marked

lock_level(t) ==
  LET i == th[t].level
      same == i > 0 /\ th[t].preds[i] = th[t].preds[i - 1]
  IN
  /\ At(t, "lock") /\ i \in 0 .. th[t].nh - 1
  /\ IF same THEN UNCHANGED holder ELSE acquire(t, th[t].preds[i])
  /\ th' = [th EXCEPT ![t].level = IF Valid(t, i) THEN i + 1 ELSE -1]
  /\ UNCHANGED <<nodes, head, m_size, created, count, calls>>

lock_failed(t) ==
  /\ At(t, "lock") /\ th[t].level = -1
  /\ release(t, Guards(t))
  /\ th' = Again(t)
  /\ UNCHANGED <<nodes, head, m_size, created, count, calls>>

locked(t) == th[t].pc = "lock" /\ th[t].level = th[t].nh

create(t) ==
  /\ locked(t) /\ th[t].op = "push"
  /\ created < MaxNodes /\ created' = created + 1
  /\ key' = [key EXCEPT ![created'] = th[t].key]
  /\ height' = [height EXCEPT ![created'] = th[t].nh]
  /\ ref_count' = [ref_count EXCEPT ![created'] = 1]
  /\ th' = [th EXCEPT ![t].pc = "link", ![t].node = created', ![t].level = 0]
  /\ UNCHANGED <<m_skip, marked, linked, holder, head, m_size, count, calls>>

link(t) ==
  LET i == th[t].level IN
  /\ At(t, "link")
  /\ m_skip' = [m_skip EXCEPT ![th[t].node][i] = th[t].succs[i],
                              ![th[t].preds[i]][i] = th[t].node]
  /\ th' = [th EXCEPT ![t].level = i + 1,
                      ![t].pc = IF i + 1 = th[t].nh THEN "linked" ELSE "link"]
  /\ UNCHANGED <<key, height, marked, linked, ref_count, holder, head, m_size, created,
                 count, calls>>

setFullyLinked(t) ==
  /\ At(t, "linked")
  /\ linked' = linked \cup {th[t].node}
  /\ th' = [th EXCEPT ![t].pc = "size"]
  /\ UNCHANGED <<key, height, m_skip, marked, ref_count, holder, head, m_size, created,
                 count, calls>>

push_size(t) ==
  /\ At(t, "size")
  /\ AddSize(1)
  /\ th' = [th EXCEPT ![t].size = m_size', ![t].pc = "unlock"]
  /\ UNCHANGED <<nodes, holder, head, created, count, calls>>

(* The locks go, and the head grows if there are too many for its height.   *)
push_unlock(t) ==
  /\ At(t, "unlock")
  /\ release(t, Guards(t))
  /\ count' = [count EXCEPT ![th[t].key] = @ + 1]
  /\ th' = IF height[head] < MAX_HEIGHT /\ th[t].size > height[head] + Limit
           THEN [th EXCEPT ![t].pc = "grow", ![t].nh = height[head] + 1]
           ELSE Return(t)
  /\ UNCHANGED <<nodes, head, m_size, created, calls>>

-----------------------------------------------------------------------------
(* growHeight: has another been faster?                                     *)
grow(t) ==
  /\ At(t, "grow")
  /\ \/ /\ height[head] >= th[t].nh
        /\ th' = Return(t)
        /\ UNCHANGED <<nodes, created>>
     \/ /\ height[head] < th[t].nh
        /\ created < MaxNodes /\ created' = created + 1
        /\ height' = [height EXCEPT ![created'] = th[t].nh]
        /\ th' = [th EXCEPT ![t].pc = "copy", ![t].pos = head, ![t].node = created']
        /\ UNCHANGED <<key, m_skip, marked, linked, ref_count>>
  /\ UNCHANGED <<holder, head, m_size, count, calls>>

(* Mutant: the copy is made without the lock of the old head. *)
swap_head_unlocked(t) ==
  /\ At(t, "copy") /\ head = th[t].pos
  /\ m_skip' = [m_skip EXCEPT ![th[t].node] = m_skip[th[t].pos]]
  /\ head' = th[t].node /\ marked' = marked \cup {th[t].pos}
  /\ th' = Return(t)
  /\ UNCHANGED <<key, height, linked, ref_count, holder, m_size, created, count, calls>>

(* Under the lock of the old head: copyHead, the exchange of head, the mark *)
(* on the old one.  The exchange shows whether another was faster.          *)
swap_head(t) ==
  LET old == th[t].pos IN
  /\ At(t, "copy") /\ holder[old] = None
  /\ m_skip' = [m_skip EXCEPT ![th[t].node] = m_skip[old]]
  /\ IF head = old
     THEN head' = th[t].node /\ marked' = marked \cup {old}
     ELSE UNCHANGED <<head, marked>>
  /\ th' = Return(t)
  /\ UNCHANGED <<key, height, linked, ref_count, holder, m_size, created, count, calls>>

-----------------------------------------------------------------------------
readyToDelete(n, l) == n \in linked /\ height[n] - 1 = l /\ n \notin marked

(* erase: nothing to erase is false; once the node is marked, only the      *)
(* predecessors have to be found again.                                     *)
erase_found(t) ==
  /\ At(t, "found") /\ th[t].op = "erase"
  /\ \/ /\ th[t].isMarked
        /\ th' = [th EXCEPT ![t].pc = "lock", ![t].level = 0]
     \/ /\ ~th[t].isMarked /\ th[t].found >= 0 /\ readyToDelete(Found(t), th[t].found)
        /\ th' = [th EXCEPT ![t].pc = "self", ![t].node = Found(t), ![t].nh = height[Found(t)]]
     \/ /\ ~th[t].isMarked /\ (th[t].found >= 0 => ~readyToDelete(Found(t), th[t].found))
        /\ th' = Return(t)
  /\ UNCHANGED <<nodes, holder, head, m_size, created, count, calls>>

lock_self(t) ==
  /\ At(t, "self")
  /\ acquire(t, th[t].node)
  /\ th' = [th EXCEPT ![t].pc = "dec"]
  /\ UNCHANGED <<nodes, head, m_size, created, count, calls>>

(* Another has marked it: false.  More than one copy: one less is enough.   *)
decRefCount(t) ==
  LET n == th[t].node IN
  /\ At(t, "dec")
  /\ \/ /\ n \in marked
        /\ release(t, {n}) /\ UNCHANGED ref_count
        /\ th' = Return(t)
     \/ /\ n \notin marked
        /\ ref_count' = [ref_count EXCEPT ![n] = @ - 1]
        /\ th' = [th EXCEPT ![t].pc = IF ref_count'[n] > 0 THEN "less" ELSE "mark"]
        /\ UNCHANGED holder
  /\ UNCHANGED <<key, height, m_skip, marked, linked, head, m_size, created, count, calls>>

setMarked(t) ==
  /\ At(t, "mark")
  /\ marked' = marked \cup {th[t].node}
  /\ th' = [th EXCEPT ![t].pc = "lock", ![t].level = 0, ![t].isMarked = TRUE]
  /\ UNCHANGED <<key, height, m_skip, linked, ref_count, holder, head, m_size, created,
                 count, calls>>

start_unlink(t) ==
  /\ locked(t) /\ th[t].op = "erase"
  /\ th' = [th EXCEPT ![t].pc = "unlink", ![t].level = th[t].nh - 1]
  /\ UNCHANGED <<nodes, holder, head, m_size, created, count, calls>>

unlink(t) ==
  LET i == th[t].level IN
  /\ At(t, "unlink")
  /\ m_skip' = [m_skip EXCEPT ![th[t].preds[i]][i] = Skip(th[t].node, i)]
  /\ th' = [th EXCEPT ![t].level = i - 1, ![t].pc = IF i = 0 THEN "free" ELSE "unlink"]
  /\ UNCHANGED <<key, height, marked, linked, ref_count, holder, head, m_size, created,
                 count, calls>>

erase_unlock(t) ==
  /\ At(t, "free")
  /\ release(t, Guards(t))
  /\ th' = [th EXCEPT ![t].pc = "less"]
  /\ UNCHANGED <<nodes, head, m_size, created, count, calls>>

erased(t) ==
  /\ At(t, "less")
  /\ AddSize(-1)
  /\ count' = [count EXCEPT ![th[t].key] = @ - 1]
  /\ release(t, {th[t].node})
  /\ th' = Return(t)
  /\ UNCHANGED <<nodes, head, created, calls>>

-----------------------------------------------------------------------------
(* exists, that is findNode: from the head down and to the right, on the    *)
(* levels where something is not above the key.                             *)
exists(t, k) ==
  /\ Call(t, "exists", k, "pred")
  /\ UNCHANGED <<nodes, holder, head, m_size, created, count>>

look_pred(t) ==
  /\ At(t, "pred")
  /\ th' = [th EXCEPT ![t].pc = "look", ![t].pos = head, ![t].level = height[head]]
  /\ UNCHANGED <<nodes, holder, head, m_size, created, count, calls>>

look_down(t) ==
  LET cur_h == th[t].level IN
  /\ At(t, "look")
  /\ \/ /\ cur_h = 0
        /\ th' = [th EXCEPT ![t].pc = "absent"]
     \/ /\ cur_h > 0 /\ less(th[t].key, Skip(th[t].pos, cur_h - 1))
        /\ th' = [th EXCEPT ![t].level = cur_h - 1]
     \/ /\ cur_h > 0 /\ ~less(th[t].key, Skip(th[t].pos, cur_h - 1))
        /\ th' = [th EXCEPT ![t].level = cur_h - 1, ![t].pc = "right",
                            ![t].node = Skip(th[t].pos, cur_h - 1)]
  /\ UNCHANGED <<nodes, holder, head, m_size, created, count, calls>>

look_right(t) ==
  LET cur == th[t].node IN
  /\ At(t, "right")
  /\ th' = IF greater(th[t].key, cur)
           THEN [th EXCEPT ![t].pos = cur, ![t].node = Skip(cur, th[t].level)]
           ELSE IF less(th[t].key, cur) THEN [th EXCEPT ![t].pc = "look"] ELSE Return(t)
  /\ UNCHANGED <<nodes, holder, head, m_size, created, count, calls>>

absent(t) ==
  /\ At(t, "absent")
  /\ th' = Return(t)
  /\ UNCHANGED <<nodes, holder, head, m_size, created, count, calls>>

-----------------------------------------------------------------------------
Step(t) ==
  \/ find_top(t) \/ find_start(t) \/ find_right(t) \/ find_down(t)
  \/ push_found(t) \/ push_count(t) \/ push_again(t) \/ (\E h \in 1 .. MAX_HEIGHT : push_height(t, h))
  \/ lock_level(t) \/ lock_failed(t)
  \/ create(t) \/ link(t) \/ setFullyLinked(t) \/ push_size(t) \/ push_unlock(t)
  \/ grow(t) \/ swap_head(t)
  \/ erase_found(t) \/ lock_self(t) \/ decRefCount(t) \/ setMarked(t)
  \/ start_unlink(t) \/ unlink(t) \/ erase_unlock(t) \/ erased(t)
  \/ look_pred(t) \/ look_down(t) \/ look_right(t) \/ absent(t)

Next ==
  \E t \in Thread :
    (\E k \in Key : push(t, k) \/ erase(t, k) \/ exists(t, k)) \/ Step(t)

Spec == Init /\ [][Next]_vars

-----------------------------------------------------------------------------
Idle == \A t \in Thread : At(t, "idle")

(* The nodes of a level, and what follows one of them there.                *)
Live(l) == {n \in linked \ marked : height[n] > l}
Behind(n, l) ==
  LET above == {m \in Live(l) : key[m] > key[n]} IN
  IF above = {} THEN Null ELSE CHOOSE m \in above : \A o \in above : key[m] =< key[o]

(* Between calls every level of the list is the nodes of that height in the *)
(* order of their keys, and every key is there as often as it was pushed    *)
(* and not erased (push, erase, growHeight).                                *)
ListWhole ==
  Idle =>
    /\ \A l \in 0 .. height[head] - 1 : \A n \in Live(l) \cup {head} :
         Skip(n, l) = Behind(n, l)
    /\ \A k \in Key : count[k] = MapThenSumSet(LAMBDA n : ref_count[n],
                                               {n \in Live(0) : key[n] = k})
    /\ \A n, m \in Live(0) : key[n] = key[m] => n = m
    /\ m_size = MapThenSumSet(LAMBDA k : count[k], Key)

(* DASSERT of skip, setSkip and lockNodesForChange: no level of a node is   *)
(* used that it does not have, and every level to be locked was searched.   *)
LevelsExist ==
  \A t \in Thread :
    /\ (At(t, "find") /\ th[t].level >= 0) => th[t].level < height[th[t].pos]
    /\ (At(t, "lock") /\ th[t].level \in 0 .. th[t].nh - 1) => th[t].preds[th[t].level] # Null

(* A key that is in the list before a reader starts, and is not erased      *)
(* while it looks, is found, whatever else is linked, unlinked or replaced  *)
(* on its way (findNode).                                                   *)
StableFound == \A t \in Thread : At(t, "absent") => ~th[t].sure

(* The locks never block everyone: they are taken from the highest key to   *)
(* the lowest, and a push waits for a node only until it is linked.         *)
SomeoneGoesOn == ~Idle => \E t \in Thread : ENABLED Step(t)

(* DASSERT(newSize > 0) at the end of push: the size counts what it pushed. *)
NewSizePositive == \A t \in Thread : At(t, "unlock") => th[t].size > 0
===============================================================================
