------------------------------ MODULE QuaternaryHeap ----------------------------
(***************************************************************************)
(* QuaternaryHeap (data_structure/include/QuaternaryHeap.h), which keeps   *)
(* the ready coroutines of a scheduler: a heap of four sons in an array    *)
(* whose place 0 is not used.  One thread uses it, under the caller's lock. *)
(* gc(), which shrinks the array's memory, is left out.                    *)
(***************************************************************************)
EXTENDS Integers, Sequences, SequencesExt

CONSTANTS
  Priority,
  Less(_, _),    \* m_cmp
  MaxSize,       \* bound on the elements
  MaxAll         \* bound on the elements of one push_all

QuaternaryHeapAssumption ==
  /\ Priority \subseteq Int
  /\ \A a, b \in Priority : Less(a, b) \in BOOLEAN
  /\ MaxSize \in Nat /\ MaxAll \in Nat

VARIABLES
  m_data,   \* the elements from place 1 on
  bag,      \* priority -> the elements that came and did not leave (history)
  mode      \* "push" until an element has gone from the top, "pop" while they
            \* only go, "mixed" when others came after that (history)

vars == <<m_data, bag, mode>>

TypeOK ==
  /\ m_data \in Seq(Priority) /\ Len(m_data) =< MaxSize
  /\ bag \in [Priority -> 0 .. MaxSize]
  /\ mode \in {"push", "pop", "mixed"}

Init == m_data = <<>> /\ bag = [p \in Priority |-> 0] /\ mode = "push"

-----------------------------------------------------------------------------
get_son(fa, x) == (fa - 1) * 4 + 2 + x
get_fa(son) == (son + 2) \div 4

swap(d, i, j) == [d EXCEPT ![i] = d[j], ![j] = d[i]]

(* Up, past every ancestor that is not less.                                *)
RECURSIVE pushup(_, _)
pushup(d, u) ==
  LET fa == get_fa(u)
  IN IF fa # 0 /\ ~Less(d[fa], d[u]) THEN pushup(swap(d, fa, u), fa) ELSE d

(* Mutant: the first son is taken for the least one. *)
min_son_first(d, u, limit) == get_son(u, 0)

(* The first of the sons in places up to limit that no other one is less    *)
(* than.                                                                   *)
min_son(d, u, limit) ==
  LET sons == {i \in {get_son(u, x) : x \in 0 .. 3} : i =< limit}
  IN CHOOSE i \in sons :
       \A j \in sons : ~Less(d[j], d[i]) /\ (j < i => Less(d[i], d[j]))

(* Down, while a son is not greater.  Only the places up to a quarter of    *)
(* the array are looked at.                                                *)
RECURSIVE pushdown(_, _)
pushdown(d, u) ==
  LET limit == (Len(d) + 1) \div 4
      son == min_son(d, u, limit)
  IN IF get_son(u, 0) > limit THEN d
     ELSE IF Less(d[u], d[son]) THEN d
     ELSE pushdown(swap(d, u, son), son)

-----------------------------------------------------------------------------
Came(vec) == [p \in Priority |-> bag[p] + Len(SelectSeq(vec, LAMBDA v : v = p))]
Went(p) == [bag EXCEPT ![p] = @ - 1]

AfterPush == IF mode = "push" THEN "push" ELSE "mixed"
AfterPop(d) == IF d = <<>> THEN "push" ELSE IF mode = "mixed" THEN "mixed" ELSE "pop"

(* push and emplace.                                                        *)
push(v) ==
  /\ Len(m_data) < MaxSize
  /\ m_data' = pushup(Append(m_data, v), Len(m_data) + 1)
  /\ bag' = Came(<<v>>) /\ mode' = AfterPush

(* The vector goes to the end; then each of its elements goes up, the first *)
(* one first.                                                              *)
push_all(vec) ==
  /\ Len(m_data) + Len(vec) =< MaxSize
  /\ m_data' = FoldLeft(pushup, m_data \o vec,
                        [i \in 1 .. Len(vec) |-> Len(m_data) + i])
  /\ bag' = Came(vec) /\ mode' = AfterPush

(* top(), then pop(): the last element takes the place of the top.          *)
pop ==
  /\ m_data # <<>>
  /\ LET d == Front(swap(m_data, 1, Len(m_data)))
     IN m_data' = IF d = <<>> THEN d ELSE pushdown(d, 1)
  /\ bag' = Went(m_data[1])
  /\ mode' = AfterPop(m_data')

(* A thief takes the last one.                                              *)
pop_back ==
  /\ m_data # <<>>
  /\ m_data' = Front(m_data)
  /\ bag' = Went(Last(m_data))
  /\ mode' = IF m_data' = <<>> THEN "push" ELSE mode

replace_top(v) ==
  /\ m_data # <<>>
  /\ m_data' = pushdown([m_data EXCEPT ![1] = v], 1)
  /\ bag' = [p \in Priority |-> bag[p] - (IF p = m_data[1] THEN 1 ELSE 0)
                                       + (IF p = v THEN 1 ELSE 0)]
  /\ mode' = AfterPop(m_data')

Next ==
  \/ \E v \in Priority : push(v) \/ replace_top(v)
  \/ \E n \in 1 .. MaxAll : \E vec \in [1 .. n -> Priority] : push_all(vec)
  \/ pop \/ pop_back

Spec == Init /\ [][Next]_vars

-----------------------------------------------------------------------------
Count(p) == Len(SelectSeq(m_data, LAMBDA v : v = p))

(* No swap, push or pop loses an element or makes a second one of it        *)
(* (QuaternaryHeap.h pushup, pushdown, pop, push_all).                     *)
NothingLost == \A p \in Priority : Count(p) = bag[p]

(* No element of the places 2 to n is less than its father.                 *)
Ordered(n) == \A i \in 2 .. n : ~Less(m_data[i], m_data[get_fa(i)])

(* While elements only come, one by one or many at once, and thieves take   *)
(* the last one, the top is least (QuaternaryHeap.h pushup, push_all).     *)
TopLeast ==
  mode = "push" => \A i \in DOMAIN m_data : ~Less(m_data[i], m_data[1])

(* While they only go from the top, it is least of the first quarter, and   *)
(* only of that (QuaternaryHeap.h:39, 46).                                 *)
QuarterOrdered == mode = "pop" => Ordered((Len(m_data) + 1) \div 4)

===============================================================================
