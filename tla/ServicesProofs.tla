---------------------------- MODULE ServicesProofs ----------------------------
(***************************************************************************)
(* Proofs about the services under the coroutines: MemoryPool, Timers,     *)
(* Epoller and Cfs, each for every value of its constants.  What the       *)
(* module of a service assumes of its constants is a hypothesis here.      *)
(***************************************************************************)
EXTENDS Services, FiniteSets, FiniteSetTheorems, TLAPS

(* A step of the services is a step of one of them or changes none of its   *)
(* variables.                                                               *)
LEMMA ServiceSteps ==
  ASSUME [ServicesNext]_serviceVars
  PROVE  /\ [Cf!Next]_Cf!vars /\ [Po!Next]_Po!vars
         /\ [Ti!Next]_Ti!vars /\ [Ep!Next]_Ep!vars
<1>1. /\ UNCHANGED cfsVars => UNCHANGED Cf!vars
      /\ UNCHANGED poolVars => UNCHANGED Po!vars
      /\ UNCHANGED timersVars => UNCHANGED Ti!vars
      /\ UNCHANGED epollerVars => UNCHANGED Ep!vars
  BY DEF cfsVars, Cf!vars, Cf!entityVars, poolVars, Po!vars, Po!headerVars,
      timersVars, Ti!vars, Ti!taskVars, Ti!tickVars, epollerVars, Ep!vars, Ep!kernel, Ep!history
<1>2. CASE UNCHANGED serviceVars
  BY <1>1, <1>2 DEF serviceVars
<1>3. CASE ServicesNext
  BY <1>1, <1>3 DEF ServicesNext
<1> QED BY <1>2, <1>3

-----------------------------------------------------------------------------
(* A service's module counts with its own copy of FiniteSets.               *)
LEMMA PoCounts ==
  ASSUME NEW S
  PROVE  (Po!IsFiniteSet(S) <=> IsFiniteSet(S)) /\ Po!Cardinality(S) = Cardinality(S)
BY DEF Po!IsFiniteSet, IsFiniteSet, Po!Cardinality, Cardinality

(* The operators of FiniteSets seen through the instance are the library's own. *)
LEMMA EpCounts ==
  ASSUME NEW S
  PROVE  (Ep!IsFiniteSet(S) <=> IsFiniteSet(S)) /\ Ep!Cardinality(S) = Cardinality(S)
BY DEF Ep!IsFiniteSet, IsFiniteSet, Ep!Cardinality, Cardinality

(* A block counts its live units.                                           *)
Live(b) == {u \in units : u.container = b}

CountsSay ==
  /\ IsFiniteSet(units)
  /\ \A b \in Po!Linked : Cardinality(Live(b)) = numberOfAllocated[b] - numberOfDeleted[b]

(* A block that was unlinked exists and is released by one thread.          *)
ReleaseSays ==
  /\ \A t \in PoolThread : releasing[t] # null => releasing[t] \in mapped
  /\ \A t, s \in PoolThread : releasing[t] = releasing[s] => t = s \/ releasing[t] = null

(* Only the constructor's block may be of the wrong kind.                   *)
MadeSays ==
  /\ \A b \in leaked : use_mmap /\ made_by[b] = "malloc" /\ b \notin mapped
  /\ \A b \in mapped : ~use_mmap => made_by[b] = "malloc"
  /\ use_mmap => \A b, c \in mapped \cup leaked :
                   made_by[b] = "malloc" /\ made_by[c] = "malloc" => b = c

(* The list passes every block once: positions ascend along next, and next  *)
(* skips nothing.                                                           *)
InOrder(pos) ==
  /\ \A b, c \in Po!Linked : pos[b] = pos[c] => b = c
  /\ \A b \in Po!Linked : pos[firstBlock] =< pos[b] /\ pos[b] =< pos[currentBlock]
  /\ \A b \in Po!Linked \ {currentBlock} :
       /\ pos[b] < pos[next[b]]
       /\ \A c \in Po!Linked : pos[b] < pos[c] => pos[next[b]] =< pos[c]

OrderSays == \E pos \in [Block -> Int] : InOrder(pos)

PoolInv ==
  /\ Po!TypeOK /\ ReleaseSays /\ MadeSays /\ CountsSay
  /\ Po!ListCoherent /\ OrderSays /\ Po!UnitsDisjoint /\ Po!OnlyFirstIdle

-----------------------------------------------------------------------------
(* The blocks of the list, before and after a step.                         *)
LEMMA LinkedAdd ==
  ASSUME Po!MemoryPoolAssumption, Po!TypeOK, ReleaseSays, NEW n \in Length, NEW b \in Block,
         Po!allocate_new_block(n, b)
  PROVE  b \notin Po!Linked /\ Po!Linked' = Po!Linked \cup {b}
BY DEF Po!MemoryPoolAssumption, Po!TypeOK, ReleaseSays, Po!allocate_new_block, Po!Linked

(* Giving a unit back takes its block out of the list when the block is removable,
   and leaves the list as it is otherwise (MemoryPool::deallocate). *)
LEMMA LinkedGive ==
  ASSUME Po!MemoryPoolAssumption, Po!TypeOK, NEW t \in PoolThread, NEW u \in units, Po!deallocate(t, u)
  PROVE  /\ Po!removable(u.container) => Po!Linked' = Po!Linked \ {u.container}
         /\ ~Po!removable(u.container) => Po!Linked' = Po!Linked
<1>1. u.container \in Block /\ u.container # null
  BY DEF Po!TypeOK, Po!MemoryPoolAssumption
<1> HIDE DEF Po!removable
<1>2. CASE Po!removable(u.container)
  <2>1. releasing' = [releasing EXCEPT ![t] = u.container] /\ mapped' = mapped /\ releasing[t] = null
    BY <1>2 DEF Po!deallocate, Po!Set
  <2>2. \A b \in Block : (\A s \in PoolThread : releasing'[s] # b)
                           <=> (\A s \in PoolThread : releasing[s] # b) /\ b # u.container
    BY <1>1, <2>1 DEF Po!TypeOK, Po!MemoryPoolAssumption
  <2> QED BY <1>2, <2>1, <2>2 DEF Po!Linked, Po!TypeOK
<1>3. CASE ~Po!removable(u.container)
  BY <1>3 DEF Po!deallocate, Po!Linked
<1> QED BY <1>2, <1>3

(* Unmapping a block changes nothing of the list: deallocate unlinked it before. *)
LEMMA LinkedRelease ==
  ASSUME Po!MemoryPoolAssumption, Po!TypeOK, ReleaseSays, NEW t \in PoolThread, Po!release(t)
  PROVE  Po!Linked' = Po!Linked
<1>1. /\ releasing[t] \in Block /\ releasing[t] \in mapped /\ releasing[t] # null
      /\ mapped' = mapped \ {releasing[t]}
      /\ releasing' = [releasing EXCEPT ![t] = null]
  BY DEF Po!TypeOK, ReleaseSays, Po!release, Po!Set
<1>2. \A b \in mapped' : (\A s \in PoolThread : releasing'[s] # b) <=> (\A s \in PoolThread : releasing[s] # b)
  BY <1>1 DEF Po!TypeOK, Po!MemoryPoolAssumption
<1> QED BY <1>1, <1>2 DEF Po!Linked

(* The blocks of the list depend on what is mapped and what is being released only. *)
LEMMA LinkedStays == ASSUME UNCHANGED <<mapped, releasing>> PROVE Po!Linked' = Po!Linked
BY DEF Po!Linked

-----------------------------------------------------------------------------
(* Blocks are released once, by the thread that unlinked them.              *)
LEMMA ReleaseStep ==
  ASSUME Po!MemoryPoolAssumption, Po!TypeOK, Po!UnitsDisjoint, ReleaseSays, MadeSays, [Po!Next]_Po!vars
  PROVE  ReleaseSays' /\ MadeSays'
<1>1. ASSUME NEW n \in Length, Po!allocate(n) PROVE ReleaseSays' /\ MadeSays'
  BY <1>1 DEF Po!allocate, ReleaseSays, MadeSays
<1>2. ASSUME NEW n \in Length, NEW b \in Block, Po!allocate_new_block(n, b)
      PROVE  ReleaseSays' /\ MadeSays'
  <2>1. mapped' = mapped \cup {b} /\ b \notin mapped \cup leaked /\ leaked' = leaked
        /\ releasing' = releasing
        /\ made_by' = [made_by EXCEPT ![b] = IF use_mmap THEN "mmap" ELSE "malloc"]
    BY <1>2 DEF Po!allocate_new_block, Po!Set
  <2>2. made_by'[b] = IF use_mmap THEN "mmap" ELSE "malloc"
    BY <2>1 DEF Po!TypeOK
  <2>3. \A c \in mapped \cup leaked : c # b /\ made_by'[c] = made_by[c]
    BY <2>1 DEF Po!TypeOK
  <2> QED BY <2>1, <2>2, <2>3, Po!MemoryPoolAssumption DEF ReleaseSays, MadeSays,
      Po!MemoryPoolAssumption
<1>3. ASSUME NEW t \in PoolThread, NEW u \in units, Po!deallocate(t, u)
      PROVE  ReleaseSays' /\ MadeSays'
  <2>1. UNCHANGED <<made_by, mapped, leaked>>
    BY <1>3 DEF Po!deallocate
  <2>2. u.container \in mapped /\ \A s \in PoolThread : releasing[s] # u.container
    BY DEF Po!UnitsDisjoint, Po!Linked
  <2>3. \/ releasing' = releasing
        \/ releasing' = [releasing EXCEPT ![t] = u.container]
    BY <1>3 DEF Po!deallocate, Po!Set
  <2> QED BY <2>1, <2>2, <2>3 DEF ReleaseSays, MadeSays, Po!TypeOK
<1>4. ASSUME NEW t \in PoolThread, Po!release(t) PROVE ReleaseSays' /\ MadeSays'
  <2>1. /\ releasing[t] # null /\ mapped' = mapped \ {releasing[t]}
        /\ releasing' = [releasing EXCEPT ![t] = null] /\ made_by' = made_by
        /\ releasing[t] \in mapped
        /\ leaked' = IF made_by[releasing[t]] = Po!released_by THEN leaked
                     ELSE leaked \cup {releasing[t]}
    BY <1>4 DEF Po!release, Po!Set, ReleaseSays
  <2>2. ReleaseSays'
    BY <2>1 DEF ReleaseSays, Po!TypeOK
  <2>3. made_by[releasing[t]] # Po!released_by => use_mmap /\ made_by[releasing[t]] = "malloc"
    BY <2>1 DEF MadeSays, Po!released_by, Po!TypeOK
  <2>4. MadeSays'
    BY <2>1, <2>3 DEF MadeSays
  <2> QED BY <2>2, <2>4
<1>5. CASE UNCHANGED Po!vars
  BY <1>5 DEF Po!vars, ReleaseSays, MadeSays
<1> QED BY <1>1, <1>2, <1>3, <1>4, <1>5 DEF Po!Next

-----------------------------------------------------------------------------
(* What count_off does to the numbers of a block, and to nothing else.      *)
LEMMA CountOff ==
  ASSUME Po!MemoryPoolAssumption, Po!TypeOK, CountsSay, Po!UnitsDisjoint, NEW u \in units,
         Po!count_off(u), units' = units \ {u}
  PROVE  /\ numberOfAllocated' \in [Block -> Nat] /\ numberOfDeleted' \in [Block -> Nat]
         /\ offset' \in [Block -> Nat]
         /\ IsFiniteSet(units')
         /\ \A b \in Po!Linked :
              Cardinality(Live(b)') = numberOfAllocated'[b] - numberOfDeleted'[b]
         /\ \A v \in units' : v.at + v.length =< offset'[v.container]
         /\ \A b \in Block : offset'[b] =< offset[b]
<1> DEFINE a == u.container
<1>1. /\ a \in Block /\ a \in Po!Linked /\ u.at \in Nat /\ u.length \in Nat \ {0}
      /\ numberOfAllocated[a] \in Nat /\ numberOfDeleted[a] \in Nat
  BY DEF Po!TypeOK, Po!UnitsDisjoint, Po!MemoryPoolAssumption
<1>2. IsFiniteSet(Live(a)) /\ Live(a)' = Live(a) \ {u} /\ u \in Live(a)
  BY FS_Subset DEF CountsSay, Live
<1>3. Cardinality(Live(a)') = Cardinality(Live(a)) - 1 /\ Cardinality(Live(a)) \in Nat
      /\ Cardinality(Live(a)') \in Nat
  <2>1. IsFiniteSet(Live(a)')
    BY <1>2, FS_RemoveElement
  <2> QED BY <1>2, <2>1, FS_RemoveElement, FS_CardinalityType
<1>4. \A b \in Po!Linked : b # a => Live(b)' = Live(b)
  BY DEF Live
<1>5. numberOfAllocated[a] - numberOfDeleted[a] >= 1
  BY <1>1, <1>3 DEF CountsSay
<1>6. IsFiniteSet(units')
  BY FS_RemoveElement DEF CountsSay
<1>7. /\ numberOfAllocated' \in [Block -> Nat] /\ numberOfDeleted' \in [Block -> Nat]
      /\ \A b \in Po!Linked : Cardinality(Live(b)') = numberOfAllocated'[b] - numberOfDeleted'[b]
  <2>1. CASE /\ numberOfAllocated' = [numberOfAllocated EXCEPT ![a] = numberOfAllocated[a] - 1]
             /\ numberOfDeleted' = numberOfDeleted
    <3>1. numberOfAllocated[a] - 1 \in Nat
      BY <1>1, <1>5
    <3>2. numberOfAllocated' \in [Block -> Nat] /\ numberOfDeleted' \in [Block -> Nat]
      BY <2>1, <3>1 DEF Po!TypeOK
    <3>3. \A b \in Po!Linked : b # a => numberOfAllocated'[b] = numberOfAllocated[b]
      BY <2>1 DEF Po!TypeOK
    <3>4. numberOfAllocated'[a] = numberOfAllocated[a] - 1
      BY <1>1, <2>1 DEF Po!TypeOK
    <3>5. Cardinality(Live(a)') = numberOfAllocated'[a] - numberOfDeleted'[a]
      BY <1>1, <1>3, <2>1, <3>4 DEF CountsSay
    <3> HIDE DEF a
    <3> QED BY <1>4, <2>1, <3>2, <3>3, <3>5 DEF CountsSay
  <2>2. CASE /\ numberOfDeleted' = [numberOfDeleted EXCEPT ![a] = numberOfDeleted[a] + 1]
             /\ numberOfAllocated' = numberOfAllocated
    <3>1. numberOfDeleted[a] + 1 \in Nat
      BY <1>1
    <3>2. numberOfAllocated' \in [Block -> Nat] /\ numberOfDeleted' \in [Block -> Nat]
      BY <2>2, <3>1 DEF Po!TypeOK
    <3>3. \A b \in Po!Linked : b # a => numberOfDeleted'[b] = numberOfDeleted[b]
      BY <2>2 DEF Po!TypeOK
    <3>4. numberOfDeleted'[a] = numberOfDeleted[a] + 1
      BY <1>1, <2>2 DEF Po!TypeOK
    <3>5. Cardinality(Live(a)') = numberOfAllocated'[a] - numberOfDeleted'[a]
      BY <1>1, <1>3, <2>2, <3>4 DEF CountsSay
    <3> HIDE DEF a
    <3> QED BY <1>4, <2>2, <3>2, <3>3, <3>5 DEF CountsSay
  <2> QED BY <2>1, <2>2 DEF Po!count_off, Po!Set
<1>8. /\ offset' \in [Block -> Nat]
      /\ \A v \in units' : v.at + v.length =< offset'[v.container]
      /\ \A b \in Block : offset'[b] =< offset[b]
  <2>1. CASE ~Po!LastUnit(u)
    BY <2>1 DEF Po!count_off, Po!UnitsDisjoint, Po!TypeOK
  <2>2. CASE Po!LastUnit(u)
    <3>1. offset' = [offset EXCEPT ![a] = u.at] /\ u.at + u.length = offset[a]
      BY <2>2 DEF Po!count_off, Po!Set, Po!LastUnit
    <3>2. ASSUME NEW v \in units' PROVE v.at + v.length =< offset'[v.container]
      <4>1. /\ v \in units /\ v # u /\ v.container \in Block /\ v.at \in Nat
            /\ v.length \in Nat \ {0} /\ v.at + v.length =< offset[v.container]
        BY DEF Po!TypeOK, Po!UnitsDisjoint, Po!MemoryPoolAssumption
      <4>2. CASE v.container = a
        <5>1. u.at + u.length =< v.at \/ v.at + v.length =< u.at
          BY <4>1, <4>2 DEF Po!UnitsDisjoint
        <5> QED BY <1>1, <3>1, <4>1, <4>2, <5>1 DEF Po!TypeOK
      <4>3. CASE v.container # a
        BY <3>1, <4>1, <4>3 DEF Po!TypeOK
      <4> QED BY <4>2, <4>3
    <3>3. offset' \in [Block -> Nat]
      BY <1>1, <3>1 DEF Po!TypeOK
    <3>4. \A b \in Block : offset'[b] =< offset[b]
      BY <1>1, <3>1 DEF Po!TypeOK
    <3> QED BY <3>2, <3>3, <3>4
  <2> QED BY <2>1, <2>2
<1> QED BY <1>6, <1>7, <1>8

(* A block goes exactly when nothing lives in it, if it is not the only one.*)
LEMMA Empties ==
  ASSUME Po!MemoryPoolAssumption, Po!TypeOK, CountsSay, Po!UnitsDisjoint, NEW u \in units,
         Po!count_off(u), units' = units \ {u}
  PROVE  LET b == u.container IN
         offset'[b] = 0 \/ numberOfAllocated'[b] = numberOfDeleted'[b] <=> Live(b)' = {}
<1> DEFINE b == u.container
<1>1. /\ b \in Po!Linked /\ b \in Block /\ IsFiniteSet(units')
      /\ numberOfAllocated'[b] \in Nat /\ numberOfDeleted'[b] \in Nat
      /\ Cardinality(Live(b)') = numberOfAllocated'[b] - numberOfDeleted'[b]
      /\ \A v \in units' : v.at + v.length =< offset'[v.container]
  BY CountOff DEF Po!UnitsDisjoint, Po!TypeOK
<1>2. IsFiniteSet(Live(b)')
  BY <1>1, FS_Subset DEF Live
<1>3. Live(b)' = {} <=> numberOfAllocated'[b] = numberOfDeleted'[b]
  BY <1>1, <1>2, FS_EmptySet
<1>4. ASSUME offset'[b] = 0, NEW v \in Live(b)' PROVE FALSE
  <2>1. v \in units' /\ v.container = b /\ v.at \in Nat /\ v.length \in Nat \ {0}
    BY DEF Live, Po!TypeOK, Po!MemoryPoolAssumption
  <2> QED BY <1>1, <1>4, <2>1
<1> QED BY <1>3, <1>4

-----------------------------------------------------------------------------
(* The numbers of every block in the list.                                  *)
LEMMA CountsStep ==
  ASSUME Po!MemoryPoolAssumption, Po!TypeOK, ReleaseSays, CountsSay, Po!UnitsDisjoint, Po!ListCoherent,
         [Po!Next]_Po!vars
  PROVE  CountsSay'
<1>1. ASSUME NEW n \in Length, Po!allocate(n) PROVE CountsSay'
  <2> PICK b \in Block : b = currentBlock
    BY DEF Po!TypeOK
  <2> DEFINE u == [container |-> b, at |-> offset[b], length |-> n]
  <2>1. /\ units' = units \cup {u} /\ Po!Linked' = Po!Linked /\ numberOfDeleted' = numberOfDeleted
        /\ numberOfAllocated' = [numberOfAllocated EXCEPT ![b] = numberOfAllocated[b] + 1]
    BY <1>1, LinkedStays DEF Po!allocate, Po!AddUnit, Po!Set
  <2>2. b \in Po!Linked /\ b \in Block /\ numberOfAllocated[b] \in Nat /\ numberOfDeleted[b] \in Nat
    BY DEF Po!ListCoherent, Po!TypeOK
  <2>3. u \notin units
    BY <2>2, Po!MemoryPoolAssumption DEF Po!UnitsDisjoint, Po!TypeOK,
        Po!MemoryPoolAssumption
  <2>4. Live(b)' = Live(b) \cup {u} /\ u \notin Live(b) /\ IsFiniteSet(Live(b))
    <3>1. u.container = b
      OBVIOUS
    <3> HIDE DEF u
    <3>2. IsFiniteSet(Live(b))
      BY FS_Subset DEF Live, CountsSay
    <3>3. Live(b)' = Live(b) \cup {u}
      BY <2>1, <3>1 DEF Live
    <3> QED BY <2>3, <3>2, <3>3 DEF Live
  <2>5. Cardinality(Live(b)') = Cardinality(Live(b)) + 1
    BY <2>4, FS_AddElement
  <2>6. \A c \in Po!Linked : c # b => Live(c)' = Live(c)
    BY <2>1 DEF Live
  <2>7. \A c \in Po!Linked : Cardinality(Live(c)') = numberOfAllocated'[c] - numberOfDeleted'[c]
    <3>1. numberOfAllocated'[b] = numberOfAllocated[b] + 1
      BY <2>1, <2>2 DEF Po!TypeOK
    <3>2. \A c \in Po!Linked : c # b => numberOfAllocated'[c] = numberOfAllocated[c]
      BY <2>1 DEF Po!TypeOK
    <3>3. Cardinality(Live(b)') = numberOfAllocated'[b] - numberOfDeleted'[b]
      BY <2>1, <2>2, <2>5, <3>1 DEF CountsSay
    <3>4. ASSUME NEW c \in Po!Linked, c # b
          PROVE  Cardinality(Live(c)') = numberOfAllocated'[c] - numberOfDeleted'[c]
      BY <2>1, <2>6, <3>2, <3>4 DEF CountsSay
    <3> QED BY <3>3, <3>4
  <2>8. IsFiniteSet(units')
    BY <2>1, FS_AddElement DEF CountsSay
  <2> QED BY <2>1, <2>7, <2>8 DEF CountsSay
<1>2. ASSUME NEW n \in Length, NEW b \in Block, Po!allocate_new_block(n, b) PROVE CountsSay'
  <2> DEFINE u == [container |-> b, at |-> 0, length |-> n]
  <2>1. b \notin Po!Linked /\ Po!Linked' = Po!Linked \cup {b} /\ units' = units \cup {u}
    BY <1>2, LinkedAdd DEF Po!allocate_new_block, Po!AddUnit
  <2>2. numberOfAllocated'[b] = 1 /\ numberOfDeleted'[b] = 0
    BY <1>2 DEF Po!allocate_new_block, Po!Set, Po!TypeOK
  <2>3. \A c \in Po!Linked : /\ numberOfAllocated'[c] = numberOfAllocated[c]
                          /\ numberOfDeleted'[c] = numberOfDeleted[c]
                          /\ Live(c)' = Live(c)
    BY <1>2, <2>1 DEF Po!allocate_new_block, Po!Set, Po!TypeOK, Live
  <2>4. Live(b)' = {u}
    BY <2>1 DEF Live, Po!UnitsDisjoint
  <2>5. Cardinality(Live(b)') = 1
    BY <2>4, FS_Singleton
  <2>6. IsFiniteSet(units')
    BY <2>1, FS_AddElement DEF CountsSay
  <2> HIDE DEF u
  <2> QED BY <2>1, <2>2, <2>3, <2>5, <2>6 DEF CountsSay
<1>3. ASSUME NEW t \in PoolThread, NEW u \in units, Po!deallocate(t, u) PROVE CountsSay'
  <2>1. Po!Linked' \subseteq Po!Linked /\ Po!count_off(u) /\ units' = units \ {u}
    BY <1>3, LinkedGive DEF Po!deallocate
  <2> QED BY <2>1, CountOff DEF CountsSay
<1>4. ASSUME NEW t \in PoolThread, Po!release(t) PROVE CountsSay'
  <2>1. Po!Linked' = Po!Linked /\ UNCHANGED <<Po!headerVars, units>>
    BY <1>4, LinkedRelease DEF Po!release
  <2> QED BY <2>1 DEF CountsSay, Live, Po!headerVars
<1>5. CASE UNCHANGED Po!vars
  BY <1>5 DEF Po!vars, Po!headerVars, CountsSay, Live, Po!Linked
<1> QED BY <1>1, <1>2, <1>3, <1>4, <1>5 DEF Po!Next

-----------------------------------------------------------------------------
(* A block behind the last one.                                             *)
LEMMA ListAdd ==
  ASSUME Po!MemoryPoolAssumption, Po!TypeOK, ReleaseSays, Po!ListCoherent, OrderSays,
         NEW n \in Length, NEW b \in Block, Po!allocate_new_block(n, b)
  PROVE  Po!ListCoherent' /\ OrderSays'
<1>1. b \notin Po!Linked /\ Po!Linked' = Po!Linked \cup {b}
  BY LinkedAdd
<1> PICK d \in Block : d = currentBlock
  BY DEF Po!TypeOK
<1>2. /\ firstBlock' = firstBlock /\ currentBlock' = b /\ d # b /\ d \in Po!Linked
      /\ next' = [next EXCEPT ![b] = null, ![d] = b] /\ prev' = [prev EXCEPT ![b] = d]
  BY <1>1 DEF Po!allocate_new_block, Po!Set, Po!ListCoherent
<1>3. /\ next'[b] = null /\ next'[d] = b /\ prev'[b] = d
      /\ \A c \in Po!Linked : prev'[c] = prev[c] /\ (c # d => next'[c] = next[c])
  BY <1>1, <1>2 DEF Po!TypeOK, Po!Linked
<1>4. Po!ListCoherent'
  <2>1. /\ firstBlock \in Po!Linked /\ prev[firstBlock] = null
        /\ \A c \in Po!Linked : c # d => next[c] \in Po!Linked /\ prev[next[c]] = c
        /\ \A c \in Po!Linked : c # firstBlock => prev[c] \in Po!Linked /\ next[prev[c]] = c
    BY DEF Po!ListCoherent
  <2>2. \A c \in Po!Linked : c # firstBlock => prev[c] # d
    BY <2>1, Po!MemoryPoolAssumption DEF Po!ListCoherent, Po!Linked, Po!TypeOK,
        Po!MemoryPoolAssumption
  <2>3. ASSUME NEW c \in Po!Linked', c # b PROVE next'[c] \in Po!Linked' /\ prev'[next'[c]] = c
    BY <1>1, <1>3, <2>1, <2>3
  <2>4. ASSUME NEW c \in Po!Linked', c # firstBlock
        PROVE  prev'[c] \in Po!Linked' /\ next'[prev'[c]] = c
    <3>1. CASE c = b
      BY <1>1, <1>2, <1>3, <3>1
    <3>2. CASE c # b
      BY <1>1, <1>3, <2>1, <2>2, <2>4, <3>2
    <3> QED BY <3>1, <3>2
  <2> QED BY <1>1, <1>2, <1>3, <2>1, <2>3, <2>4 DEF Po!ListCoherent
<1>5. OrderSays'
  <2>1. PICK pos \in [Block -> Int] : InOrder(pos)
    BY DEF OrderSays
  <2> DEFINE pos2 == [pos EXCEPT ![b] = pos[d] + 1]
  <2>2. pos2 \in [Block -> Int]
    <3>1. pos[d] + 1 \in Int
      OBVIOUS
    <3> QED BY <3>1
  <2>3. pos2[b] = pos[d] + 1 /\ \A c \in Po!Linked : pos2[c] = pos[c] /\ pos[c] \in Int
    BY <1>1 DEF Po!TypeOK, Po!Linked
  <2> HIDE DEF pos2
  <2>4. /\ \A c \in Po!Linked : pos[firstBlock] =< pos[c] /\ pos[c] =< pos[d]
        /\ firstBlock \in Po!Linked
    BY <2>1 DEF InOrder, Po!ListCoherent
  <2>5. \A c, e \in Po!Linked' : pos2[c] = pos2[e] => c = e
    BY <1>1, <2>1, <2>3, <2>4 DEF InOrder
  <2>6. \A c \in Po!Linked' : pos2[firstBlock'] =< pos2[c] /\ pos2[c] =< pos2[currentBlock']
    BY <1>1, <1>2, <2>3, <2>4
  <2>7. ASSUME NEW c \in Po!Linked' \ {currentBlock'}
        PROVE  /\ pos2[c] < pos2[next'[c]]
               /\ \A e \in Po!Linked' : pos2[c] < pos2[e] => pos2[next'[c]] =< pos2[e]
    <3>1. CASE c = d
      <4>1. next'[c] = b /\ pos2[c] = pos[d] /\ pos[d] \in Int
        BY <1>2, <1>3, <2>3, <3>1
      <4>2. ASSUME NEW e \in Po!Linked', pos2[c] < pos2[e] PROVE e = b
        BY <1>1, <2>3, <2>4, <4>1, <4>2
      <4> QED BY <2>3, <4>1, <4>2
    <3>2. CASE c # d
      <4>1. c \in Po!Linked /\ next'[c] = next[c] /\ next[c] \in Po!Linked
        BY <1>1, <1>2, <1>3, <3>2 DEF Po!ListCoherent
      <4>2. /\ pos[c] < pos[next[c]]
            /\ \A e \in Po!Linked : pos[c] < pos[e] => pos[next[c]] =< pos[e]
        BY <2>1, <3>2, <4>1 DEF InOrder
      <4> QED BY <1>1, <2>3, <2>4, <4>1, <4>2
    <3> QED BY <3>1, <3>2
  <2>8. InOrder(pos2)'
    BY <2>5, <2>6, <2>7 DEF InOrder
  <2> QED BY <2>2, <2>8 DEF OrderSays
<1> QED BY <1>4, <1>5

(* A block that leaves the list, from either end or the middle.             *)
LEMMA ListGive ==
  ASSUME Po!MemoryPoolAssumption, Po!TypeOK, Po!ListCoherent, OrderSays, NEW b \in Po!Linked,
         currentBlock # firstBlock, Po!unlink(b), Po!Linked' = Po!Linked \ {b}
  PROVE  Po!ListCoherent' /\ OrderSays'
<1>0. /\ firstBlock \in Po!Linked /\ currentBlock \in Po!Linked
      /\ prev[firstBlock] = null /\ next[currentBlock] = null
      /\ \A c \in Po!Linked : c \in Block /\ c # null
      /\ \A c \in Po!Linked \ {currentBlock} : next[c] \in Po!Linked /\ prev[next[c]] = c
      /\ \A c \in Po!Linked \ {firstBlock} : prev[c] \in Po!Linked /\ next[prev[c]] = c
  BY DEF Po!ListCoherent, Po!Linked, Po!TypeOK, Po!MemoryPoolAssumption
<1>1. PICK pos \in [Block -> Int] : InOrder(pos)
  BY DEF OrderSays
<1>2. /\ \A c \in Po!Linked : pos[c] \in Int /\ pos[firstBlock] =< pos[c] /\ pos[c] =< pos[currentBlock]
      /\ \A c, e \in Po!Linked : pos[c] = pos[e] => c = e
      /\ \A c \in Po!Linked \ {currentBlock} :
           /\ pos[c] < pos[next[c]]
           /\ \A e \in Po!Linked : pos[c] < pos[e] => pos[next[c]] =< pos[e]
  BY <1>0, <1>1 DEF InOrder
<1>3. CASE b = firstBlock
  <2>1. /\ firstBlock' = next[b] /\ next' = next /\ currentBlock' = currentBlock
        /\ prev' = [prev EXCEPT ![next[b]] = null]
    BY <1>3 DEF Po!unlink, Po!Set
  <2>2. next[b] \in Po!Linked \ {b} /\ prev'[next[b]] = null
        /\ \A c \in Po!Linked : c # next[b] => prev'[c] = prev[c]
    BY <1>0, <1>2, <1>3, <2>1 DEF Po!TypeOK
  <2>3. \A c \in Po!Linked \ {b, currentBlock} : next[c] # b /\ next[c] # next[b]
    BY <1>0, <1>3
  <2>4. \A c \in Po!Linked \ {b} : c # next[b] => prev[c] # b
    BY <1>0, <1>3
  <2>5. Po!ListCoherent'
    BY <1>0, <1>3, <2>1, <2>2, <2>3, <2>4 DEF Po!ListCoherent
  <2>6. \A c \in Po!Linked \ {b} : pos[next[b]] =< pos[c]
    BY <1>0, <1>2, <1>3
  <2>7. InOrder(pos)'
    BY <1>0, <1>2, <1>3, <2>1, <2>2, <2>3, <2>6 DEF InOrder
  <2> QED BY <2>5, <2>7 DEF OrderSays
<1>4. CASE b # firstBlock /\ b = currentBlock
  <2>1. /\ currentBlock' = prev[b] /\ prev' = prev /\ firstBlock' = firstBlock
        /\ next' = [next EXCEPT ![prev[b]] = null]
    BY <1>4 DEF Po!unlink, Po!Set
  <2>2. prev[b] \in Po!Linked \ {b} /\ next'[prev[b]] = null
        /\ \A c \in Po!Linked : c # prev[b] => next'[c] = next[c]
    BY <1>0, <1>2, <1>4, <2>1 DEF Po!TypeOK
  <2>3. \A c \in Po!Linked \ {b} : c # prev[b] => next[c] # b
    BY <1>0, <1>4
  <2>4. \A c \in Po!Linked \ {b, firstBlock} : prev[c] # b /\ prev[c] # prev[b]
    BY <1>0, <1>4
  <2>5. Po!ListCoherent'
    BY <1>0, <1>4, <2>1, <2>2, <2>3, <2>4 DEF Po!ListCoherent
  <2>6. \A c \in Po!Linked \ {b} : pos[c] =< pos[prev[b]]
    BY <1>0, <1>2, <1>4, <2>2
  <2>7. InOrder(pos)'
    BY <1>0, <1>2, <1>4, <2>1, <2>2, <2>3, <2>6 DEF InOrder
  <2> QED BY <2>5, <2>7 DEF OrderSays
<1>5. CASE b # firstBlock /\ b # currentBlock
  <2>1. /\ currentBlock' = currentBlock /\ firstBlock' = firstBlock
        /\ next' = [next EXCEPT ![prev[b]] = next[b]]
        /\ prev' = [prev EXCEPT ![next[b]] = prev[b]]
    BY <1>5 DEF Po!unlink, Po!Set
  <2>2. /\ prev[b] \in Po!Linked \ {b} /\ next'[prev[b]] = next[b]
        /\ next[b] \in Po!Linked \ {b} /\ prev'[next[b]] = prev[b]
        /\ \A c \in Po!Linked : c # prev[b] => next'[c] = next[c]
        /\ \A c \in Po!Linked : c # next[b] => prev'[c] = prev[c]
    BY <1>0, <1>2, <1>5, <2>1 DEF Po!TypeOK
  <2>3. \A c \in Po!Linked \ {b, currentBlock} : /\ c # prev[b] => next[c] # b
                                              /\ next[c] # next[b]
    BY <1>0, <1>5
  <2>4. \A c \in Po!Linked \ {b, firstBlock} : /\ c # next[b] => prev[c] # b
                                            /\ prev[c] # prev[b]
    BY <1>0, <1>5
  <2>5. prev[b] # currentBlock /\ next[b] # firstBlock
    BY <1>0, <1>2, <1>5
  <2>6. Po!ListCoherent'
    BY <1>0, <1>5, <2>1, <2>2, <2>3, <2>4, <2>5 DEF Po!ListCoherent
  <2>7. /\ pos[prev[b]] < pos[b] /\ pos[b] < pos[next[b]]
        /\ \A e \in Po!Linked \ {b} : pos[prev[b]] < pos[e] => pos[next[b]] =< pos[e]
    BY <1>0, <1>2, <1>5, <2>2, <2>5
  <2>8. ASSUME NEW c \in Po!Linked \ {b, currentBlock}
        PROVE  /\ pos[c] < pos[next'[c]]
               /\ \A e \in Po!Linked \ {b} : pos[c] < pos[e] => pos[next'[c]] =< pos[e]
    <3>1. CASE c = prev[b]
      BY <1>2, <2>2, <2>7, <3>1
    <3>2. CASE c # prev[b]
      BY <1>2, <2>2, <3>2
    <3> QED BY <3>1, <3>2
  <2>9. InOrder(pos)'
    BY <1>2, <2>1, <2>8 DEF InOrder
  <2> QED BY <2>6, <2>9 DEF OrderSays
<1> QED BY <1>3, <1>4, <1>5

(* Every step of the pool keeps the list coherent and its blocks in position order. *)
LEMMA ListStep ==
  ASSUME Po!MemoryPoolAssumption, Po!TypeOK, ReleaseSays, Po!ListCoherent, OrderSays, Po!UnitsDisjoint,
         [Po!Next]_Po!vars
  PROVE  Po!ListCoherent' /\ OrderSays'
<1>0. ASSUME UNCHANGED <<firstBlock, currentBlock, next, prev>>, Po!Linked' = Po!Linked
      PROVE  Po!ListCoherent' /\ OrderSays'
  BY <1>0 DEF Po!ListCoherent, OrderSays, InOrder
<1>1. ASSUME NEW n \in Length, Po!allocate(n) PROVE Po!ListCoherent' /\ OrderSays'
  BY <1>0, <1>1, LinkedStays DEF Po!allocate
<1>2. ASSUME NEW n \in Length, NEW b \in Block, Po!allocate_new_block(n, b)
      PROVE  Po!ListCoherent' /\ OrderSays'
  BY <1>2, ListAdd
<1>3. ASSUME NEW t \in PoolThread, NEW u \in units, Po!deallocate(t, u)
      PROVE  Po!ListCoherent' /\ OrderSays'
  <2>1. CASE Po!removable(u.container)
    BY <1>3, <2>1, LinkedGive, ListGive DEF Po!deallocate, Po!removable, Po!UnitsDisjoint
  <2>2. CASE ~Po!removable(u.container)
    BY <1>0, <1>3, <2>2, LinkedGive DEF Po!deallocate
  <2> QED BY <2>1, <2>2
<1>4. ASSUME NEW t \in PoolThread, Po!release(t) PROVE Po!ListCoherent' /\ OrderSays'
  BY <1>0, <1>4, LinkedRelease DEF Po!release, Po!headerVars
<1>5. CASE UNCHANGED Po!vars
  BY <1>0, <1>5, LinkedStays DEF Po!vars, Po!headerVars
<1> QED BY <1>1, <1>2, <1>3, <1>4, <1>5 DEF Po!Next

-----------------------------------------------------------------------------
(* The first block is the only one when it is the last one.                 *)
LEMMA OnlyBlock ==
  ASSUME Po!TypeOK, Po!ListCoherent, OrderSays, currentBlock = firstBlock
  PROVE  Po!Linked = {firstBlock}
<1>1. PICK pos \in [Block -> Int] : InOrder(pos)
  BY DEF OrderSays
<1>2. \A b \in Po!Linked : pos[b] \in Int /\ pos[firstBlock] \in Int
  BY DEF Po!Linked, Po!TypeOK
<1>3. \A b \in Po!Linked : pos[b] = pos[firstBlock]
  BY <1>1, <1>2 DEF InOrder
<1> QED BY <1>1, <1>3 DEF InOrder, Po!ListCoherent

(* A unit is cut off behind the others.                                     *)
LEMMA UnitsAdd ==
  ASSUME Po!MemoryPoolAssumption, Po!TypeOK, Po!ListCoherent, Po!UnitsDisjoint, Po!OnlyFirstIdle,
         NEW n \in Length, Po!allocate(n)
  PROVE  Po!UnitsDisjoint' /\ Po!OnlyFirstIdle'
<1> PICK b \in Block : b = currentBlock
  BY DEF Po!TypeOK
<1> DEFINE u == [container |-> b, at |-> offset[b], length |-> n]
<1>1. /\ units' = units \cup {u} /\ Po!Linked' = Po!Linked /\ b \in Po!Linked
      /\ offset' = [offset EXCEPT ![b] = offset[b] + n]
      /\ UNCHANGED <<blockSize, firstBlock>> /\ n < blockSize[b] - offset[b]
  BY LinkedStays DEF Po!allocate, Po!AddUnit, Po!Set, Po!fits, Po!ListCoherent
<1>2. n \in Nat \ {0} /\ offset[b] \in Nat /\ blockSize[b] \in Nat
  BY DEF Po!TypeOK, Po!MemoryPoolAssumption
<1>3. offset'[b] = offset[b] + n /\ \A c \in Block : c # b => offset'[c] = offset[c]
  BY <1>1 DEF Po!TypeOK
<1>4. u.container = b /\ u.at = offset[b] /\ u.length = n
  OBVIOUS
<1> HIDE DEF u
<1>5. \A v \in units : /\ v.container \in Po!Linked /\ v.container \in Block
                       /\ v.at \in Nat /\ v.length \in Nat /\ offset[v.container] \in Nat
                       /\ v.at + v.length =< offset[v.container]
  BY DEF Po!UnitsDisjoint, Po!TypeOK, Po!MemoryPoolAssumption
<1>6. \A v \in units' : v.container \in Po!Linked' /\ v.at + v.length =< offset'[v.container]
  BY <1>1, <1>2, <1>3, <1>4, <1>5
<1>7. \A c \in Po!Linked' : offset'[c] =< blockSize'[c]
  BY <1>1, <1>2, <1>3 DEF Po!UnitsDisjoint, Po!Linked, Po!TypeOK
<1>8. \A v, w \in units' : v # w /\ v.container = w.container
        => v.at + v.length =< w.at \/ w.at + w.length =< v.at
  BY <1>1, <1>4, <1>5 DEF Po!UnitsDisjoint
<1>9. Po!OnlyFirstIdle'
  BY <1>1 DEF Po!OnlyFirstIdle
<1> QED BY <1>6, <1>7, <1>8, <1>9 DEF Po!UnitsDisjoint

(* A new block comes into the list with its first live unit in it (allocate_new_block). *)
LEMMA UnitsAddBlock ==
  ASSUME Po!MemoryPoolAssumption, Po!TypeOK, ReleaseSays, Po!ListCoherent, Po!UnitsDisjoint, Po!OnlyFirstIdle,
         NEW n \in Length, NEW b \in Block, Po!allocate_new_block(n, b)
  PROVE  Po!UnitsDisjoint' /\ Po!OnlyFirstIdle'
<1> DEFINE u == [container |-> b, at |-> 0, length |-> n]
<1>1. /\ b \notin Po!Linked /\ Po!Linked' = Po!Linked \cup {b} /\ units' = units \cup {u}
      /\ offset' = [offset EXCEPT ![b] = n] /\ firstBlock' = firstBlock
      /\ blockSize' = [blockSize EXCEPT ![b] = IF n >= defaultBlockSize THEN n
                                               ELSE defaultBlockSize]
  BY LinkedAdd DEF Po!allocate_new_block, Po!AddUnit, Po!Set
<1>2. n \in Nat \ {0} /\ defaultBlockSize \in Nat
  BY DEF Po!MemoryPoolAssumption
<1>3. /\ offset'[b] = n /\ n =< blockSize'[b]
      /\ \A c \in Po!Linked : offset'[c] = offset[c] /\ blockSize'[c] = blockSize[c]
  BY <1>1, <1>2 DEF Po!TypeOK
<1>4. u.container = b /\ u.at = 0 /\ u.length = n
  OBVIOUS
<1> HIDE DEF u
<1>5. \A v \in units : v.container \in Po!Linked /\ v.at + v.length =< offset[v.container]
  BY DEF Po!UnitsDisjoint
<1>6. \A v \in units' : v.container \in Po!Linked' /\ v.at + v.length =< offset'[v.container]
  BY <1>1, <1>2, <1>3, <1>4, <1>5
<1>7. \A c \in Po!Linked' : offset'[c] =< blockSize'[c]
  BY <1>1, <1>3 DEF Po!UnitsDisjoint
<1>8. \A v, w \in units' : v # w /\ v.container = w.container
        => v.at + v.length =< w.at \/ w.at + w.length =< v.at
  BY <1>1, <1>4, <1>5 DEF Po!UnitsDisjoint
<1>9. Po!OnlyFirstIdle'
  BY <1>1, <1>4 DEF Po!OnlyFirstIdle
<1> QED BY <1>6, <1>7, <1>8, <1>9 DEF Po!UnitsDisjoint

(* A unit is given back, and with the last one of a block the block.        *)
LEMMA UnitsGive ==
  ASSUME Po!MemoryPoolAssumption, Po!TypeOK, CountsSay, Po!ListCoherent, OrderSays, Po!UnitsDisjoint,
         Po!OnlyFirstIdle, NEW t \in PoolThread, NEW u \in units, Po!deallocate(t, u)
  PROVE  Po!UnitsDisjoint' /\ Po!OnlyFirstIdle'
<1> DEFINE b == u.container
<1>1. /\ units' = units \ {u} /\ Po!count_off(u) /\ blockSize' = blockSize
      /\ b \in Po!Linked /\ b \in Block
  BY DEF Po!deallocate, Po!UnitsDisjoint, Po!TypeOK
<1>2. /\ \A v \in units' : v.at + v.length =< offset'[v.container]
      /\ \A c \in Block : offset'[c] =< offset[c]
      /\ offset' \in [Block -> Nat]
  BY <1>1, CountOff
<1>3. \A c \in Po!Linked : offset'[c] =< blockSize'[c]
  BY <1>1, <1>2 DEF Po!UnitsDisjoint, Po!Linked, Po!TypeOK
<1>4. Po!removable(b) <=> currentBlock # firstBlock /\ Live(b)' = {}
  BY <1>1, Empties DEF Po!removable
<1>5. /\ Po!removable(b) => Po!Linked' = Po!Linked \ {b}
      /\ ~Po!removable(b) => Po!Linked' = Po!Linked
  BY LinkedGive
<1>6. \A v \in units' : v.container \in Po!Linked'
  BY <1>1, <1>4, <1>5 DEF Po!UnitsDisjoint, Live
<1>7. Po!UnitsDisjoint'
  BY <1>1, <1>2, <1>3, <1>5, <1>6 DEF Po!UnitsDisjoint
<1>8. ASSUME NEW c \in Po!Linked', c # firstBlock' PROVE \E v \in units' : v.container = c
  <2>1. c \in Po!Linked
    BY <1>5
  <2>2. CASE currentBlock = firstBlock
    BY <1>4, <1>8, <2>1, <2>2, OnlyBlock DEF Po!deallocate
  <2>3. CASE currentBlock # firstBlock /\ c # b
    <3>1. c # firstBlock
      <4>1. CASE Po!removable(b)
        <5>1. b # firstBlock => firstBlock' = firstBlock
          BY <4>1 DEF Po!deallocate, Po!unlink
        <5> QED BY <1>8, <2>3, <5>1
      <4>2. CASE ~Po!removable(b)
        BY <1>8, <4>2 DEF Po!deallocate
      <4> QED BY <4>1, <4>2
    <3>2. PICK v \in units : v.container = c
      BY <2>1, <3>1 DEF Po!OnlyFirstIdle
    <3> QED BY <1>1, <2>3, <3>2
  <2>4. CASE currentBlock # firstBlock /\ c = b
    BY <1>4, <1>5, <2>4 DEF Live
  <2> QED BY <2>2, <2>3, <2>4
<1> QED BY <1>7, <1>8 DEF Po!OnlyFirstIdle

(* Every step of the pool keeps the live units apart, and only the first block without
   any. *)
LEMMA UnitsStep ==
  ASSUME Po!MemoryPoolAssumption, PoolInv, [Po!Next]_Po!vars
  PROVE  Po!UnitsDisjoint' /\ Po!OnlyFirstIdle'
<1> USE DEF PoolInv
<1>1. ASSUME NEW n \in Length, Po!allocate(n) PROVE Po!UnitsDisjoint' /\ Po!OnlyFirstIdle'
  BY <1>1, UnitsAdd
<1>2. ASSUME NEW n \in Length, NEW b \in Block, Po!allocate_new_block(n, b)
      PROVE  Po!UnitsDisjoint' /\ Po!OnlyFirstIdle'
  BY <1>2, UnitsAddBlock
<1>3. ASSUME NEW t \in PoolThread, NEW u \in units, Po!deallocate(t, u)
      PROVE  Po!UnitsDisjoint' /\ Po!OnlyFirstIdle'
  BY <1>3, UnitsGive
<1>4. ASSUME NEW t \in PoolThread, Po!release(t) PROVE Po!UnitsDisjoint' /\ Po!OnlyFirstIdle'
  BY <1>4, LinkedRelease DEF Po!release, Po!headerVars, Po!UnitsDisjoint, Po!OnlyFirstIdle
<1>5. CASE UNCHANGED Po!vars
  BY <1>5, LinkedStays DEF Po!vars, Po!headerVars, Po!UnitsDisjoint, Po!OnlyFirstIdle
<1> QED BY <1>1, <1>2, <1>3, <1>4, <1>5 DEF Po!Next

-----------------------------------------------------------------------------
(* The types.                                                               *)
LEMMA PoolTypes ==
  ASSUME Po!MemoryPoolAssumption, PoolInv, [Po!Next]_Po!vars
  PROVE  Po!TypeOK'
<1>1. ASSUME NEW n \in Length, Po!allocate(n) PROVE Po!TypeOK'
  <2>1. /\ currentBlock \in Block /\ n \in Nat /\ offset[currentBlock] \in Nat
        /\ numberOfAllocated[currentBlock] \in Nat
    BY DEF PoolInv, Po!TypeOK, Po!MemoryPoolAssumption
  <2>2. offset[currentBlock] + n \in Nat /\ numberOfAllocated[currentBlock] + 1 \in Nat
    BY <2>1
  <2> QED BY <1>1, <2>1, <2>2 DEF PoolInv, Po!TypeOK, Po!allocate, Po!AddUnit, Po!Set
<1>2. ASSUME NEW n \in Length, NEW b \in Block, Po!allocate_new_block(n, b) PROVE Po!TypeOK'
  <2>1. n \in Nat /\ defaultBlockSize \in Nat /\ currentBlock \in Block
    BY DEF PoolInv, Po!TypeOK, Po!MemoryPoolAssumption
  <2> QED BY <1>2, <2>1 DEF PoolInv, Po!TypeOK, Po!allocate_new_block, Po!AddUnit, Po!Set
<1>3. ASSUME NEW t \in PoolThread, NEW u \in units, Po!deallocate(t, u) PROVE Po!TypeOK'
  <2>1. /\ Po!count_off(u) /\ units' = units \ {u} /\ UNCHANGED <<blockSize, made_by, mapped, leaked>>
        /\ u.container \in Block /\ u.container \in Po!Linked
    BY <1>3 DEF Po!deallocate, PoolInv, Po!TypeOK, Po!UnitsDisjoint
  <2>2. /\ offset' \in [Block -> Nat] /\ numberOfAllocated' \in [Block -> Nat]
        /\ numberOfDeleted' \in [Block -> Nat]
    BY <2>1, CountOff DEF PoolInv
  <2>3. /\ firstBlock' \in Block /\ currentBlock' \in Block
        /\ next' \in [Block -> Block \cup {null}] /\ prev' \in [Block -> Block \cup {null}]
        /\ releasing' \in [PoolThread -> Block \cup {null}]
    <3>1. CASE Po!removable(u.container)
      <4>1. Po!unlink(u.container) /\ currentBlock # firstBlock
            /\ releasing' = [releasing EXCEPT ![t] = u.container]
        BY <1>3, <3>1 DEF Po!deallocate, Po!removable, Po!Set
      <4>2. /\ u.container # currentBlock => next[u.container] \in Block
            /\ u.container # firstBlock => prev[u.container] \in Block
        BY <2>1 DEF PoolInv, Po!ListCoherent, Po!Linked, Po!TypeOK
      <4> QED BY <2>1, <4>1, <4>2 DEF Po!unlink, Po!Set, PoolInv, Po!TypeOK
    <3>2. CASE ~Po!removable(u.container)
      BY <1>3, <3>2 DEF Po!deallocate, PoolInv, Po!TypeOK
    <3> QED BY <3>1, <3>2
  <2> QED BY <2>1, <2>2, <2>3 DEF PoolInv, Po!TypeOK
<1>4. ASSUME NEW t \in PoolThread, Po!release(t) PROVE Po!TypeOK'
  BY <1>4 DEF Po!release, Po!Set, Po!headerVars, PoolInv, Po!TypeOK
<1>5. CASE UNCHANGED Po!vars
  BY <1>5 DEF Po!vars, Po!headerVars, PoolInv, Po!TypeOK
<1> QED BY <1>1, <1>2, <1>3, <1>4, <1>5 DEF Po!Next

(* The pool's invariant holds of the one block the constructor maps. *)
LEMMA PoolInit == ASSUME Po!MemoryPoolAssumption, Po!Init PROVE PoolInv
<1> PICK b \in Block :
      /\ firstBlock = b /\ currentBlock = b
      /\ next = [x \in Block |-> null] /\ prev = [x \in Block |-> null]
      /\ blockSize = [x \in Block |-> IF x = b THEN defaultBlockSize ELSE 0]
      /\ offset = [x \in Block |-> 0]
      /\ numberOfAllocated = [x \in Block |-> 0]
      /\ numberOfDeleted = [x \in Block |-> 0]
      /\ made_by = [x \in Block |-> "malloc"]
      /\ mapped = {b} /\ leaked = {} /\ units = {}
      /\ releasing = [t \in PoolThread |-> null]
  BY DEF Po!Init
<1>1. Po!Linked = {b}
  BY DEF Po!Linked, Po!MemoryPoolAssumption
<1>2. Po!TypeOK
  BY DEF Po!TypeOK, Po!MemoryPoolAssumption
<1>3. ReleaseSays /\ MadeSays
  BY DEF ReleaseSays, MadeSays
<1>4. CountsSay
  <2>1. Live(b) = {}
    BY DEF Live
  <2> QED BY <1>1, <2>1, FS_EmptySet DEF CountsSay
<1>5. Po!ListCoherent
  BY <1>1 DEF Po!ListCoherent
<1>6. OrderSays
  <2> DEFINE pos == [x \in Block |-> 0]
  <2>1. pos \in [Block -> Int] /\ InOrder(pos)
    BY <1>1 DEF InOrder
  <2> QED BY <2>1 DEF OrderSays
<1>7. Po!UnitsDisjoint
  BY <1>1 DEF Po!UnitsDisjoint, Po!MemoryPoolAssumption
<1>8. Po!OnlyFirstIdle
  BY <1>1 DEF Po!OnlyFirstIdle
<1> QED BY <1>2, <1>3, <1>4, <1>5, <1>6, <1>7, <1>8 DEF PoolInv

(* Every operation of the pool keeps its invariant. *)
LEMMA PoolNext == ASSUME Po!MemoryPoolAssumption, PoolInv, [Po!Next]_Po!vars PROVE PoolInv'
<1>1. Po!TypeOK'
  BY PoolTypes
<1>2. ReleaseSays' /\ MadeSays'
  BY ReleaseStep DEF PoolInv
<1>3. CountsSay'
  BY CountsStep DEF PoolInv
<1>4. Po!ListCoherent' /\ OrderSays'
  BY ListStep DEF PoolInv
<1>5. Po!UnitsDisjoint' /\ Po!OnlyFirstIdle'
  BY UnitsStep
<1> QED BY <1>1, <1>2, <1>3, <1>4, <1>5 DEF PoolInv

(* MadeSays leaves room for one leaked block.                               *)
LEMMA LeaksOne == ASSUME MadeSays PROVE Po!OneBlockLeaked
<1>1. \A b, c \in leaked : use_mmap /\ b = c
  BY DEF MadeSays
<1>2. CASE leaked = {}
  BY <1>2, FS_EmptySet, PoCounts DEF Po!OneBlockLeaked
<1>3. CASE leaked # {}
  <2>1. PICK b : leaked = {b}
    BY <1>1, <1>3
  <2>2. Cardinality(leaked) = 1
    BY <2>1, FS_Singleton
  <2> QED BY <1>1, <1>3, <2>2, PoCounts DEF Po!OneBlockLeaked
<1> QED BY <1>2, <1>3

(* What the pool keeps of its blocks and units, for any threads, blocks and lengths
   (UnitsKept of MemoryPool): live units are apart and in blocks of the list, the list is
   coherent in both directions, only the first block may be empty, and at most the block
   of the constructor is lost, however allocate, deallocate and the release that runs
   after the unlock interleave (src/allocator/MemoryPool.cpp). *)
THEOREM PoolKeepsUnits == ServicesSpec => []UnitsKept
<1>0. Po!MemoryPoolAssumption
  BY ServicesAssumption
<1>1. ServicesInit => PoolInv
  BY <1>0, PoolInit DEF ServicesInit
<1>2. PoolInv /\ [ServicesNext]_serviceVars => PoolInv'
  BY <1>0, PoolNext, ServiceSteps
<1>3. PoolInv => UnitsKept
  BY LeaksOne DEF PoolInv, Po!UnitsKept, UnitsKept
<1> QED BY <1>1, <1>2, <1>3, PTL DEF ServicesSpec

-----------------------------------------------------------------------------
(* Where a task can be.  In no timer's hands: its user made it, cancels it  *)
(* or gives it another time; or it is cancelled.                            *)
Nowhere(t) == \A k \in Timer : t \notin m_task[k] \cup expired[k]

Detached(t) ==
  /\ task_pc[t] \in {"new", "callback", "canceling", "push"}
  /\ timer[t] = None /\ ~is_handled[t] /\ ~is_canceled[t] /\ Nowhere(t)
  /\ calls[t][TRUE] = 0 /\ calls[t][FALSE] = IF task_pc[t] = "canceling" THEN 1 ELSE 0

Canceled(t) ==
  /\ task_pc[t] = "user" /\ timer[t] = None /\ ~is_handled[t] /\ is_canceled[t] /\ Nowhere(t)
  /\ calls[t][TRUE] = 0 /\ calls[t][FALSE] = 1

(* In the set of its timer, in the hands of the timer's thread, or called.  *)
Attached(t) ==
  /\ task_pc[t] \in {"user", "cancel", "reset"}
  /\ timer[t] \in Timer /\ ~is_canceled[t] /\ calls[t][FALSE] = 0

Pending(t) ==
  /\ Attached(t) /\ ~is_handled[t] /\ calls[t][TRUE] = 0
  /\ \A k \in Timer : (t \in m_task[k] <=> k = timer[t]) /\ t \notin expired[k]

Picked(t) ==
  /\ Attached(t) /\ is_handled[t] /\ calls[t][TRUE] = 0
  /\ \A k \in Timer : t \notin m_task[k] /\ (t \in expired[k] <=> k = timer[t])

Called(t) ==
  /\ Attached(t) /\ is_handled[t] /\ calls[t][TRUE] = 1 /\ Nowhere(t)

Placed(t) == Detached(t) \/ Canceled(t) \/ Pending(t) \/ Picked(t) \/ Called(t)

TickSays ==
  \A k \in Timer :
    /\ tick[k] # "callbacks" => expired[k] = {}
    /\ end_point[k] =< now
    /\ \A t \in expired[k] : end_time[t] =< end_point[k]

TimersInv == Ti!TypeOK /\ (\A t \in Task : Placed(t)) /\ TickSays

-----------------------------------------------------------------------------
(* Before the first call every task is detached from every timer. *)
LEMMA TimersInit == ASSUME Ti!TimersAssumption, Ti!Init PROVE TimersInv
<1>1. Ti!TypeOK
  BY DEF Ti!TimersAssumption, Ti!Init, Ti!TypeOK, Ti!Time
<1>2. \A t \in Task : Detached(t)
  BY DEF Ti!Init, Detached, Nowhere
<1>3. TickSays
  BY DEF Ti!Init, TickSays
<1> QED BY <1>1, <1>2, <1>3 DEF TimersInv, Placed

(* A reset gives a task a time within the bounds.                           *)
LEMMA NewTimesIn ==
  ASSUME Ti!TimersAssumption, Ti!TypeOK, NEW t \in Task, NEW n \in Ti!NewTimes(t), n[1] \in Ti!Time
  PROVE  n[2] \in -MaxTime .. MaxTime
<1>1. now \in Ti!Time
  BY DEF Ti!TypeOK
<1>2. ASSUME NEW d \in Ti!Time, n = <<now + d, d>> PROVE n[2] \in -MaxTime .. MaxTime
  BY <1>2 DEF Ti!Time, Ti!TimersAssumption
<1>3. ASSUME NEW d \in Ti!Time, n = <<end_time[t] - m_duration[t] + d, d>>
      PROVE  n[2] \in -MaxTime .. MaxTime
  BY <1>3 DEF Ti!Time, Ti!TimersAssumption
<1>4. ASSUME NEW u \in Ti!Time, n = <<u, u - now>> PROVE n[2] \in -MaxTime .. MaxTime
  BY <1>1, <1>4 DEF Ti!Time, Ti!TimersAssumption
<1> QED BY <1>2, <1>3, <1>4 DEF Ti!NewTimes

(* One more callback of a task.                                             *)
LEMMA CallsUp ==
  ASSUME Ti!TypeOK, NEW t \in Task, NEW b \in BOOLEAN, calls' = [calls EXCEPT ![t][b] = @ + 1]
  PROVE  /\ calls' \in [Task -> [BOOLEAN -> Nat]]
         /\ calls'[t][b] = calls[t][b] + 1
         /\ \A c \in BOOLEAN : c # b => calls'[t][c] = calls[t][c]
         /\ \A u \in Task : u # t => calls'[u] = calls[u]
<1> DEFINE n == calls[t][b] + 1
<1>1. calls[t] \in [BOOLEAN -> Nat] /\ calls \in [Task -> [BOOLEAN -> Nat]]
  BY DEF Ti!TypeOK
<1>2. calls[t][b] \in Nat
  BY <1>1, Zenon
<1>3. n \in Nat
  BY <1>2
<1>4. calls' = [calls EXCEPT ![t] = [calls[t] EXCEPT ![b] = n]]
  BY Zenon
<1> HIDE DEF n
<1>5. [calls[t] EXCEPT ![b] = n] \in [BOOLEAN -> Nat]
  BY <1>1, <1>3, Zenon
<1>6. calls' \in [Task -> [BOOLEAN -> Nat]]
  BY <1>1, <1>4, <1>5, Zenon
<1>7. calls'[t] = [calls[t] EXCEPT ![b] = n] /\ \A u \in Task : u # t => calls'[u] = calls[u]
  BY <1>1, <1>4, Zenon
<1>8. calls'[t][b] = n /\ \A c \in BOOLEAN : c # b => calls'[t][c] = calls[t][c]
  BY <1>1, <1>7, Zenon
<1> QED BY <1>6, <1>7, <1>8, Zenon DEF n

(* A task leaves the set its pointer names, if it is there.                 *)
LEMMA RemoveSays ==
  ASSUME Ti!TimersAssumption, Ti!TypeOK, NEW t \in Task, NEW from, NEW to,
         Ti!remove_from_timer(t, from, to)
  PROVE  /\ m_task' \in [Timer -> SUBSET Task] /\ timer' \in [Task -> Timer \cup {None}]
         /\ \A u \in Task \ {t} : /\ timer'[u] = timer[u]
                                  /\ \A k \in Timer : u \in m_task'[k] <=> u \in m_task[k]
<1>1. CASE m_task' = m_task /\ timer' = timer
  BY <1>1 DEF Ti!TypeOK
<1>2. CASE /\ m_task' = [m_task EXCEPT ![timer[t]] = @ \ {t}]
           /\ timer' = [timer EXCEPT ![t] = None]
  <2>1. timer' \in [Task -> Timer \cup {None}] /\ \A u \in Task \ {t} : timer'[u] = timer[u]
    BY <1>2 DEF Ti!TypeOK
  <2>2. CASE timer[t] \in Timer
    BY <1>2, <2>1, <2>2 DEF Ti!TypeOK
  <2>3. CASE timer[t] \notin Timer
    <3>1. m_task' = m_task
      BY <1>2, <2>3 DEF Ti!TypeOK
    <3> QED BY <2>1, <3>1 DEF Ti!TypeOK
  <2> QED BY <2>2, <2>3
<1> QED BY <1>1, <1>2 DEF Ti!remove_from_timer

(* Every step of the timers keeps their types. *)
LEMMA TimersType == ASSUME Ti!TimersAssumption, Ti!TypeOK, [Ti!Next]_Ti!vars PROVE Ti!TypeOK'
<1> USE DEF Ti!TypeOK, Ti!taskVars, Ti!tickVars
<1>1. CASE Ti!Pass
  BY <1>1 DEF Ti!Pass, Ti!Time, Ti!TimersAssumption
<1>2. ASSUME NEW k \in Timer, Ti!read_clock(k) PROVE Ti!TypeOK'
  BY <1>2 DEF Ti!read_clock
<1>3. ASSUME NEW k \in Timer, Ti!pick_all_expired(k) PROVE Ti!TypeOK'
  <2> DEFINE ts == {t \in m_task[k] : Ti!need_to_handle(t, end_point[k])}
  <2>1. ts \subseteq Task
    OBVIOUS
  <2>2. /\ tick' = [tick EXCEPT ![k] = IF ts = {} THEN "idle" ELSE "callbacks"]
        /\ m_task' = [m_task EXCEPT ![k] = @ \ ts]
        /\ is_handled' = [t \in Task |-> is_handled[t] \/ t \in ts]
        /\ expired' = [expired EXCEPT ![k] = ts]
        /\ UNCHANGED <<now, timer, end_time, m_duration, is_canceled, task_pc, end_point,
                       calls, resets>>
    BY <1>3 DEF Ti!pick_all_expired
  <2> HIDE DEF ts
  <2>3. is_handled' \in [Task -> BOOLEAN]
    BY <2>2, Zenon
  <2> QED BY <2>1, <2>2, <2>3
<1>4. ASSUME NEW k \in Timer, Ti!process_expired(k) PROVE Ti!TypeOK'
  <2>1. PICK t \in expired[k] :
          /\ calls' = [calls EXCEPT ![t][TRUE] = @ + 1]
          /\ expired' = [expired EXCEPT ![k] = @ \ {t}]
    BY <1>4 DEF Ti!process_expired
  <2>2. calls' \in [Task -> [BOOLEAN -> Nat]]
    BY <2>1, CallsUp
  <2> QED BY <1>4, <2>1, <2>2 DEF Ti!process_expired
<1>5. ASSUME NEW t \in Task, NEW k \in Timer, NEW until \in Ti!Time, Ti!apply_task(t, k, until)
      PROVE  Ti!TypeOK'
  <2>1. until - now \in -MaxTime .. MaxTime
    BY DEF Ti!Time, Ti!TimersAssumption
  <2> QED BY <1>5, <2>1 DEF Ti!apply_task, Ti!Goto
<1>6. ASSUME NEW t \in Task, Ti!cancel(t) PROVE Ti!TypeOK'
  BY <1>6 DEF Ti!cancel, Ti!Goto
<1>7. ASSUME NEW t \in Task, Ti!reset(t) PROVE Ti!TypeOK'
  BY <1>7 DEF Ti!reset, Ti!Goto, Ti!TimersAssumption
<1>8. ASSUME NEW t \in Task, Ti!cancel_remove(t) PROVE Ti!TypeOK'
  <2>1. task_pc' \in [Task -> {"new", "user", "cancel", "canceling", "callback", "reset", "push"}]
    BY <1>8 DEF Ti!cancel_remove, Ti!remove_from_timer, Ti!Goto
  <2> QED BY <1>8, <2>1, RemoveSays DEF Ti!cancel_remove
<1>9. ASSUME NEW t \in Task, Ti!cancel_callback(t) PROVE Ti!TypeOK'
  <2>1. calls' \in [Task -> [BOOLEAN -> Nat]]
    BY <1>9, CallsUp DEF Ti!cancel_callback
  <2> QED BY <1>9, <2>1 DEF Ti!cancel_callback, Ti!Goto
<1>10. ASSUME NEW t \in Task, Ti!cancel_store(t) PROVE Ti!TypeOK'
  BY <1>10 DEF Ti!cancel_store, Ti!Goto
<1>11. ASSUME NEW t \in Task, Ti!reset_remove(t) PROVE Ti!TypeOK'
  <2>1. task_pc' \in [Task -> {"new", "user", "cancel", "canceling", "callback", "reset", "push"}]
    BY <1>11 DEF Ti!reset_remove, Ti!remove_from_timer, Ti!Goto
  <2> QED BY <1>11, <2>1, RemoveSays DEF Ti!reset_remove
<1>12. ASSUME NEW t \in Task, NEW k \in Timer, Ti!push_to_timer(t, k) PROVE Ti!TypeOK'
  <2>1. PICK n \in Ti!NewTimes(t) :
          /\ n[1] \in Ti!Time
          /\ end_time' = [end_time EXCEPT ![t] = n[1]]
          /\ m_duration' = [m_duration EXCEPT ![t] = n[2]]
    BY <1>12 DEF Ti!push_to_timer
  <2>2. n[2] \in -MaxTime .. MaxTime
    BY <2>1, NewTimesIn
  <2> QED BY <1>12, <2>1, <2>2 DEF Ti!push_to_timer, Ti!Goto
<1>13. CASE UNCHANGED Ti!vars
  BY <1>13 DEF Ti!vars
<1> QED
  BY <1>1, <1>2, <1>3, <1>4, <1>5, <1>6, <1>7, <1>8, <1>9, <1>10, <1>11, <1>12, <1>13
  DEF Ti!Next, Ti!TickStep, Ti!TaskStep

(* A step that does not touch a task leaves it where it is.                 *)
TaskUntouched(t) ==
  /\ timer'[t] = timer[t] /\ is_canceled'[t] = is_canceled[t]
  /\ is_handled'[t] = is_handled[t] /\ task_pc'[t] = task_pc[t] /\ calls'[t] = calls[t]
  /\ \A k \in Timer : /\ t \in m_task'[k] <=> t \in m_task[k]
                      /\ t \in expired'[k] <=> t \in expired[k]

(* A step that leaves what concerns a task alone leaves the task where it was. *)
LEMMA TaskStays ==
  ASSUME NEW t \in Task, Placed(t), TaskUntouched(t) PROVE Placed(t)'
BY DEF TaskUntouched, Placed, Detached, Canceled, Pending, Picked, Called, Attached, Nowhere

(* Steps of a task's user.                                                  *)
LEMMA UserStep ==
  ASSUME Ti!TimersAssumption, Ti!TypeOK, NEW t \in Task, \A u \in Task : Placed(u),
         \/ Ti!TaskStep(t) \/ Ti!cancel(t) \/ Ti!reset(t)
         \/ \E k \in Timer, until \in Ti!Time : Ti!apply_task(t, k, until)
  PROVE  \A u \in Task : Placed(u)'
<1> USE DEF Ti!taskVars, Ti!tickVars
<1>0. Placed(t)
  OBVIOUS
<1>1. \A u \in Task \ {t} : TaskUntouched(u)
  <2>1. ASSUME NEW k \in Timer, NEW until \in Ti!Time, Ti!apply_task(t, k, until)
        PROVE  \A u \in Task \ {t} : TaskUntouched(u)
    BY <2>1 DEF Ti!apply_task, Ti!Goto, TaskUntouched, Ti!TypeOK
  <2>2. CASE Ti!cancel(t) \/ Ti!reset(t) \/ Ti!cancel_store(t)
    BY <2>2 DEF Ti!cancel, Ti!reset, Ti!cancel_store, Ti!Goto, TaskUntouched, Ti!TypeOK
  <2>5. CASE Ti!cancel_callback(t)
    <3>1. \A u \in Task : u # t => calls'[u] = calls[u]
      BY <2>5, CallsUp DEF Ti!cancel_callback
    <3> QED BY <2>5, <3>1 DEF Ti!cancel_callback, Ti!Goto, TaskUntouched, Ti!TypeOK
  <2>3. CASE Ti!cancel_remove(t) \/ Ti!reset_remove(t)
    <3> SUFFICES ASSUME NEW u \in Task \ {t} PROVE TaskUntouched(u)
      OBVIOUS
    <3>1. UNCHANGED <<is_canceled, is_handled, calls, expired>>
      BY <2>3 DEF Ti!cancel_remove, Ti!reset_remove
    <3>2. timer'[u] = timer[u] /\ \A k \in Timer : u \in m_task'[k] <=> u \in m_task[k]
      BY <2>3, RemoveSays DEF Ti!cancel_remove, Ti!reset_remove
    <3>3. task_pc'[u] = task_pc[u]
      BY <2>3 DEF Ti!cancel_remove, Ti!reset_remove, Ti!remove_from_timer, Ti!Goto,
          Ti!TypeOK
    <3> QED BY <3>1, <3>2, <3>3 DEF TaskUntouched
  <2>4. ASSUME NEW k \in Timer, Ti!push_to_timer(t, k) PROVE \A u \in Task \ {t} : TaskUntouched(u)
    BY <2>4 DEF Ti!push_to_timer, Ti!Goto, TaskUntouched, Ti!TypeOK
  <2> QED BY <2>1, <2>2, <2>3, <2>4, <2>5 DEF Ti!TaskStep
<1>2. Placed(t)'
  <2> USE DEF Ti!TypeOK, Ti!Goto
  <2>1. ASSUME NEW k \in Timer, NEW until \in Ti!Time, Ti!apply_task(t, k, until)
        PROVE  Placed(t)'
    <3>1. Detached(t) /\ task_pc[t] = "new"
      BY <1>0, <2>1 DEF Ti!apply_task, Placed, Canceled, Pending, Picked, Called, Attached
    <3>2. Pending(t)'
      BY <2>1, <3>1 DEF Ti!apply_task, Detached, Nowhere, Pending, Attached
    <3> QED BY <3>2 DEF Placed
  <2>2. CASE Ti!cancel(t) \/ Ti!reset(t)
    <3>1. Attached(t) /\ ~is_handled[t]
      BY <1>0, <2>2 DEF Ti!cancel, Ti!reset, Ti!Open, Placed, Detached, Canceled,
          Pending, Picked, Called
    <3>2. Pending(t)
      BY <1>0, <3>1 DEF Placed, Detached, Canceled, Picked, Called, Attached
    <3>3. Pending(t)'
      BY <2>2, <3>2 DEF Ti!cancel, Ti!reset, Pending, Attached
    <3> QED BY <3>3 DEF Placed
  <2>3. CASE Ti!cancel_callback(t)
    <3>1. Detached(t)
      BY <1>0, <2>3 DEF Ti!cancel_callback, Placed, Canceled, Pending, Picked, Called,
          Attached
    <3>2. calls'[t][FALSE] = 1 /\ calls'[t][TRUE] = 0 /\ task_pc'[t] = "canceling"
      <4>1. calls[t][FALSE] = 0 /\ calls[t][TRUE] = 0
        BY <2>3, <3>1 DEF Ti!cancel_callback, Detached
      <4>2. calls'[t][FALSE] = calls[t][FALSE] + 1 /\ calls'[t][TRUE] = calls[t][TRUE]
        BY <2>3, CallsUp, Zenon DEF Ti!cancel_callback
      <4>3. task_pc'[t] = "canceling"
        BY <2>3 DEF Ti!cancel_callback
      <4> QED BY <4>1, <4>2, <4>3
    <3>3. Detached(t)'
      BY <2>3, <3>1, <3>2 DEF Ti!cancel_callback, Detached, Nowhere
    <3> QED BY <3>3 DEF Placed
  <2>4. CASE Ti!cancel_store(t)
    <3>1. Detached(t)
      BY <1>0, <2>4 DEF Ti!cancel_store, Placed, Canceled, Pending, Picked, Called, Attached
    <3>2. Canceled(t)'
      BY <2>4, <3>1 DEF Ti!cancel_store, Detached, Canceled, Nowhere
    <3> QED BY <3>2 DEF Placed
  <2>5. ASSUME NEW from \in {"cancel", "reset"}, NEW to \in {"callback", "push"},
               Ti!remove_from_timer(t, from, to),
               UNCHANGED <<is_canceled, is_handled, calls, expired>>
        PROVE  Placed(t)'
    <3>1. task_pc[t] = from /\ Attached(t)
      BY <1>0, <2>5 DEF Ti!remove_from_timer, Placed, Detached, Canceled, Pending,
          Picked, Called
    <3>2. CASE t \in m_task[timer[t]]
      <4>1. Pending(t)
        BY <1>0, <3>1, <3>2 DEF Placed, Detached, Canceled, Picked, Called, Attached,
            Nowhere
      <4>2. Detached(t)'
        <5>1. timer[t] \in Timer /\ m_task' = [m_task EXCEPT ![timer[t]] = @ \ {t}]
              /\ timer' = [timer EXCEPT ![t] = None]
          BY <2>5, <3>2, <4>1 DEF Ti!remove_from_timer, Pending, Attached
        <5>2. task_pc'[t] = to
          BY <2>5, <3>2 DEF Ti!remove_from_timer
        <5>3. Nowhere(t)' /\ timer'[t] = None
          BY <2>5, <4>1, <5>1 DEF Pending, Nowhere
        <5>4. to # "canceling" /\ to \in {"callback", "push"}
          BY <2>5
        <5>5. calls' = calls /\ calls[t][TRUE] = 0 /\ calls[t][FALSE] = 0
          BY <2>5, <4>1 DEF Pending, Attached
        <5>6. is_handled' = is_handled /\ is_canceled' = is_canceled
              /\ ~is_handled[t] /\ ~is_canceled[t]
          BY <2>5, <4>1 DEF Pending, Attached
        <5> QED BY <5>2, <5>3, <5>4, <5>5, <5>6 DEF Detached
      <4> QED BY <4>2 DEF Placed
    <3>3. CASE t \notin m_task[timer[t]]
      <4>1. Picked(t) \/ Called(t)
        BY <1>0, <3>1, <3>3 DEF Placed, Detached, Canceled, Pending, Attached
      <4>2. Picked(t)' \/ Called(t)'
        BY <2>5, <3>3, <4>1 DEF Ti!remove_from_timer, Picked, Called, Attached, Nowhere
      <4> QED BY <4>2 DEF Placed
    <3> QED BY <3>2, <3>3
  <2>6. CASE Ti!cancel_remove(t) \/ Ti!reset_remove(t)
    BY <2>5, <2>6 DEF Ti!cancel_remove, Ti!reset_remove
  <2>7. ASSUME NEW k \in Timer, Ti!push_to_timer(t, k) PROVE Placed(t)'
    <3>1. Detached(t) /\ task_pc[t] = "push"
      BY <1>0, <2>7 DEF Ti!push_to_timer, Placed, Canceled, Pending, Picked, Called,
          Attached
    <3>2. Pending(t)'
      BY <2>7, <3>1 DEF Ti!push_to_timer, Detached, Nowhere, Pending, Attached
    <3> QED BY <3>2 DEF Placed
  <2> QED BY <2>1, <2>2, <2>3, <2>4, <2>6, <2>7 DEF Ti!TaskStep
<1> QED BY <1>1, <1>2, TaskStays

(* Steps of a timer's thread.                                               *)
LEMMA ThreadStep ==
  ASSUME Ti!TimersAssumption, Ti!TypeOK, TickSays, NEW k \in Timer, \A u \in Task : Placed(u),
         Ti!TickStep(k)
  PROVE  \A u \in Task : Placed(u)'
<1> USE DEF Ti!taskVars, Ti!tickVars
<1>1. CASE Ti!read_clock(k)
  <2>1. \A u \in Task : TaskUntouched(u)
    BY <1>1 DEF Ti!read_clock, TaskUntouched
  <2> QED BY <2>1, TaskStays
<1>2. CASE Ti!pick_all_expired(k)
  <2> DEFINE ts == {t \in m_task[k] : Ti!need_to_handle(t, end_point[k])}
  <2>1. /\ m_task' = [m_task EXCEPT ![k] = @ \ ts]
        /\ is_handled' = [t \in Task |-> is_handled[t] \/ t \in ts]
        /\ expired' = [expired EXCEPT ![k] = ts]
        /\ UNCHANGED <<timer, is_canceled, task_pc, calls>>
        /\ expired[k] = {} /\ ts \subseteq m_task[k]
    BY <1>2 DEF Ti!pick_all_expired, TickSays
  <2> HIDE DEF ts
  <2> SUFFICES ASSUME NEW u \in Task PROVE Placed(u)'
    OBVIOUS
  <2>2. CASE u \notin ts
    <3>1. TaskUntouched(u)
      BY <2>1, <2>2 DEF TaskUntouched, Ti!TypeOK
    <3> QED BY <3>1, TaskStays
  <2>3. CASE u \in ts
    <3>1. Pending(u)
      BY <2>1, <2>3 DEF Placed, Detached, Canceled, Picked, Called, Attached, Nowhere
    <3>2. Picked(u)'
      BY <2>1, <2>3, <3>1 DEF Pending, Picked, Attached, Ti!TypeOK
    <3> QED BY <3>2 DEF Placed
  <2> QED BY <2>2, <2>3
<1>3. CASE Ti!process_expired(k)
  <2>1. PICK t \in expired[k] :
          /\ calls' = [calls EXCEPT ![t][TRUE] = @ + 1]
          /\ expired' = [expired EXCEPT ![k] = @ \ {t}]
    BY <1>3 DEF Ti!process_expired
  <2>2. t \in Task /\ UNCHANGED <<m_task, timer, is_canceled, is_handled, task_pc>>
    BY <1>3 DEF Ti!process_expired, Ti!TypeOK
  <2>3. \A u \in Task \ {t} : TaskUntouched(u)
    <3>1. \A u \in Task : u # t => calls'[u] = calls[u]
      BY <2>1, <2>2, CallsUp
    <3> QED BY <2>1, <2>2, <3>1 DEF TaskUntouched, Ti!TypeOK
  <2>4. Picked(t)
    BY <2>1, <2>2 DEF Placed, Detached, Canceled, Pending, Called, Nowhere
  <2>5. calls'[t][TRUE] = 1 /\ calls'[t][FALSE] = 0
    <3>1. calls[t][TRUE] = 0 /\ calls[t][FALSE] = 0
      BY <2>4 DEF Picked, Attached
    <3>2. calls'[t][TRUE] = calls[t][TRUE] + 1 /\ calls'[t][FALSE] = calls[t][FALSE]
      BY <2>1, <2>2, CallsUp, Zenon
    <3> QED BY <3>1, <3>2
  <2>6. Called(t)'
    BY <2>1, <2>2, <2>4, <2>5 DEF Picked, Called, Attached, Nowhere, Ti!TypeOK
  <2> QED BY <2>3, <2>6, TaskStays DEF Placed
<1> QED BY <1>1, <1>2, <1>3 DEF Ti!TickStep

(* A task that the timer's thread has in hand keeps its time.               *)
LEMMA TickStays ==
  ASSUME Ti!TimersAssumption, TimersInv, [Ti!Next]_Ti!vars PROVE TickSays'
<1> USE DEF Ti!taskVars, Ti!tickVars
<1>0. Ti!TypeOK /\ TickSays /\ \A t \in Task : Placed(t)
  BY DEF TimersInv
<1>1. CASE Ti!Pass
  BY <1>0, <1>1 DEF Ti!Pass, TickSays, Ti!TypeOK, Ti!Time, Ti!TimersAssumption
<1>2. ASSUME NEW k \in Timer, Ti!read_clock(k) PROVE TickSays'
  BY <1>0, <1>2 DEF Ti!read_clock, TickSays, Ti!TypeOK, Ti!Time, Ti!TimersAssumption
<1>3. ASSUME NEW k \in Timer, Ti!pick_all_expired(k) PROVE TickSays'
  BY <1>0, <1>3 DEF Ti!pick_all_expired, Ti!need_to_handle, TickSays, Ti!TypeOK,
      Ti!Time, Ti!TimersAssumption
<1>4. ASSUME NEW k \in Timer, Ti!process_expired(k) PROVE TickSays'
  BY <1>0, <1>4 DEF Ti!process_expired, TickSays, Ti!TypeOK
<1>5. ASSUME NEW t \in Task, Nowhere(t), UNCHANGED <<tick, expired, end_point, now>>,
             \A u \in Task \ {t} : end_time'[u] = end_time[u]
      PROVE  TickSays'
  BY <1>0, <1>5 DEF TickSays, Nowhere, Ti!TypeOK
<1>6. ASSUME NEW t \in Task, NEW k \in Timer, NEW until \in Ti!Time, Ti!apply_task(t, k, until)
      PROVE  TickSays'
  <2>1. Nowhere(t)
    BY <1>0, <1>6 DEF Ti!apply_task, Ti!Goto, Placed, Detached, Canceled, Pending,
        Picked, Called, Attached
  <2> QED BY <1>0, <1>5, <1>6, <2>1 DEF Ti!apply_task, Ti!TypeOK
<1>7. ASSUME NEW t \in Task, NEW k \in Timer, Ti!push_to_timer(t, k) PROVE TickSays'
  <2>1. Nowhere(t)
    BY <1>0, <1>7 DEF Ti!push_to_timer, Ti!Goto, Placed, Detached, Canceled, Pending,
        Picked, Called, Attached
  <2>2. \A u \in Task \ {t} : end_time'[u] = end_time[u]
    BY <1>0, <1>7 DEF Ti!push_to_timer, Ti!TypeOK
  <2> QED BY <1>5, <1>7, <2>1, <2>2 DEF Ti!push_to_timer
<1>8. ASSUME UNCHANGED <<tick, expired, end_point, now, end_time>> PROVE TickSays'
  BY <1>0, <1>8 DEF TickSays
<1>9. ASSUME NEW t \in Task, Ti!cancel(t) \/ Ti!reset(t) \/ Ti!cancel_remove(t) \/ Ti!cancel_callback(t)
                             \/ Ti!cancel_store(t) \/ Ti!reset_remove(t)
      PROVE  TickSays'
  BY <1>8, <1>9 DEF Ti!cancel, Ti!reset, Ti!cancel_remove, Ti!cancel_callback,
      Ti!cancel_store, Ti!reset_remove
<1>10. CASE UNCHANGED Ti!vars
  BY <1>8, <1>10 DEF Ti!vars
<1> QED BY <1>1, <1>2, <1>3, <1>4, <1>6, <1>7, <1>9, <1>10 DEF Ti!Next, Ti!TickStep,
    Ti!TaskStep

(* Every step of the timers, of any thread, keeps each task in one of its places. *)
LEMMA TimersNext ==
  ASSUME Ti!TimersAssumption, TimersInv, [Ti!Next]_Ti!vars PROVE TimersInv'
<1>0. Ti!TypeOK /\ TickSays /\ \A t \in Task : Placed(t)
  BY DEF TimersInv
<1>1. \A t \in Task : Placed(t)'
  <2>1. CASE Ti!Pass \/ UNCHANGED Ti!vars
    <3>1. \A u \in Task : TaskUntouched(u)
      BY <2>1 DEF Ti!Pass, Ti!vars, Ti!taskVars, Ti!tickVars, TaskUntouched
    <3> QED BY <1>0, <3>1, TaskStays
  <2>2. ASSUME NEW k \in Timer, Ti!TickStep(k) PROVE \A t \in Task : Placed(t)'
    BY <1>0, <2>2, ThreadStep
  <2>3. ASSUME NEW t \in Task, \/ Ti!TaskStep(t) \/ Ti!cancel(t) \/ Ti!reset(t)
                               \/ \E k \in Timer, until \in Ti!Time : Ti!apply_task(t, k, until)
        PROVE  \A u \in Task : Placed(u)'
    BY <1>0, <2>3, UserStep
  <2> QED BY <2>1, <2>2, <2>3 DEF Ti!Next
<1>2. Ti!TypeOK' /\ TickSays'
  BY <1>0, TimersType, TickStays
<1> QED BY <1>1, <1>2 DEF TimersInv

(* A timer's task is called back at most once and not early, and cancel and *)
(* reset find it in the set of its timer or not at all.                     *)
THEOREM TimersCallOnce == ServicesSpec => []Ti!CallbacksOnce
<1>0. Ti!TimersAssumption
  BY ServicesAssumption
<1>1. ServicesInit => TimersInv
  BY <1>0, TimersInit DEF ServicesInit
<1>2. TimersInv /\ [ServicesNext]_serviceVars => TimersInv'
  BY <1>0, TimersNext, ServiceSteps
<1>3. TimersInv => Ti!CallbacksOnce
  <2> SUFFICES ASSUME TimersInv PROVE Ti!CallbacksOnce
    OBVIOUS
  <2>0. Ti!TypeOK /\ TickSays /\ \A t \in Task : Placed(t)
    BY DEF TimersInv
  <2>1. Ti!OneCallback
    <3> SUFFICES ASSUME NEW t \in Task
                 PROVE  /\ calls[t][TRUE] + calls[t][FALSE] =< 1
                        /\ is_canceled[t] => \A k \in Timer : t \notin m_task[k] \cup expired[k]
      BY DEF Ti!OneCallback
    <3> DEFINE a == calls[t][TRUE]
               b == calls[t][FALSE]
    <3>0. Placed(t)
      BY <2>0
    <3>1. (a = 0 /\ b \in {0, 1}) \/ (a = 1 /\ b = 0)
      <4>1. CASE Detached(t) \/ Canceled(t)
        BY <4>1 DEF Detached, Canceled
      <4>2. CASE Pending(t) \/ Picked(t) \/ Called(t)
        BY <4>2 DEF Pending, Picked, Called, Attached
      <4> QED BY <3>0, <4>1, <4>2 DEF Placed
    <3>2. is_canceled[t] => \A k \in Timer : t \notin m_task[k] \cup expired[k]
      BY <3>0, Zenon DEF Placed, Detached, Canceled, Pending, Picked, Called, Attached,
          Nowhere
    <3> HIDE DEF a, b
    <3>3. a + b =< 1
      BY <3>1
    <3> QED BY <3>2, <3>3 DEF a, b
  <2>2. Ti!FoundByPointer
    BY <2>0 DEF Ti!FoundByPointer, Placed, Detached, Canceled, Pending, Picked, Called,
        Attached, Nowhere
  <2>3. Ti!NotEarly
    BY <1>0, <2>0 DEF Ti!NotEarly, TickSays, Ti!TypeOK, Ti!Time, Ti!TimersAssumption
  <2> QED BY <2>0, <2>1, <2>2, <2>3 DEF Ti!CallbacksOnce
<1> QED BY <1>1, <1>2, <1>3, PTL DEF ServicesSpec

-----------------------------------------------------------------------------
(* Where the request of a registered descriptor is: in the map until its    *)
(* callback has run, unless its add crossed a cancel.                       *)
Asked(f) == m_requests[f] = current[f] /\ called[current[f]] = 0

RequestsSay ==
  /\ \A f \in registered :
       /\ current[f] # 0
       /\ Asked(f) \/ called[current[f]] > 0 \/ current[f] \in crossed
       /\ m_requests[f] \in {0, current[f]} \/ current[f] \in crossed
  /\ \A f, g \in Fd : current[f] = current[g] => f = g \/ current[f] = 0
  /\ \A f, g \in Fd :
       m_requests[f] \in {current[g], m_requests[g]} => f = g \/ m_requests[f] = 0
  /\ \A f \in Fd : current[f] =< adds /\ m_requests[f] =< adds
  /\ \A f \in Fd : m_requests[f] # 0 => called[m_requests[f]] = 0
  /\ \A r \in Ep!Request : called[r] =< 1 /\ (r > adds => called[r] = 0)

(* A one-shot descriptor whose callback has run is reported no more, unless *)
(* it ran for the event of another request.                                 *)
OneshotSays ==
  \A f \in oneshot :
    called[current[f]] > 0 => f \in fired \/ current[f] \in strayed

(* What a cancel that has yet to erase may find.                            *)
CancelSays ==
  /\ \A u \in User : cancelling[u] # None =>
       /\ cancelled # {}
       /\ cancelling[u] \in registered => current[cancelling[u]] \in crossed
  /\ \A f \in Fd \ registered : m_requests[f] = 0 \/ \E u \in User : cancelling[u] = f
  /\ crossed # {} \/ strayed # {} => cancelled # {}

(* An event is for the request of its descriptor until that is cancelled.   *)
EventsSay ==
  /\ \A e, d \in events : e[1] = d[1] => e = d
  /\ \A e \in events :
       /\ e[2] =< adds
       /\ e[2] \in cancelled \/ (e[1] \in registered /\ e[2] = current[e[1]])
       /\ e[1] \in oneshot /\ e[2] = current[e[1]] => e[1] \in fired
  /\ waiter = "thrown" => \E e \in events : m_requests[e[1]] = 0

EpollerInv ==
  /\ Ep!TypeOK /\ RequestsSay /\ OneshotSays /\ CancelSays /\ EventsSay
  /\ Ep!EventsExplained

EpollerSays == RequestsSay /\ OneshotSays /\ CancelSays /\ EventsSay /\ Ep!EventsExplained

-----------------------------------------------------------------------------
(* epoll_wait makes one event of each descriptor it returns.                *)
LEMMA EventsCount ==
  ASSUME NEW F, IsFiniteSet(F), NEW g
  PROVE  Cardinality({<<f, g[f]>> : f \in F}) = Cardinality(F)
<1> DEFINE E == {<<f, g[f]>> : f \in F}
           h == [f \in F |-> <<f, g[f]>>]
<1>1. h \in Bijection(F, E)
  <2>1. h \in [F -> E]
    OBVIOUS
  <2>2. \A a, b \in F : a # b => h[a] # h[b]
    OBVIOUS
  <2>3. \A e \in E : \E f \in F : h[f] = e
    OBVIOUS
  <2> QED BY <2>1, <2>2, <2>3 DEF Bijection, Injection, Surjection, IsInjective
<1>2. ExistsBijection(F, E)
  BY <1>1 DEF ExistsBijection
<1> QED BY <1>2, FS_Bijection

(* The invariant holds before the first request. *)
LEMMA EpollerInit == ASSUME Ep!EpollerAssumption, Ep!Init PROVE EpollerInv
<1>1. Ep!TypeOK
  BY FS_EmptySet, EpCounts DEF Ep!EpollerAssumption, Ep!Init, Ep!TypeOK
<1>2. EpollerSays
  BY DEF Ep!Init, EpollerSays, RequestsSay, OneshotSays, CancelSays, EventsSay,
      Ep!EventsExplained, Ep!Request
<1> QED BY <1>1, <1>2 DEF EpollerInv, EpollerSays

(* The types, and that no event is for more than epoll_wait returned.       *)
LEMMA EpollerType ==
  ASSUME Ep!EpollerAssumption, EpollerInv, [Ep!Next]_Ep!vars
  PROVE  Ep!TypeOK'
<1> USE DEF Ep!EpollerAssumption, EpollerInv, Ep!kernel, Ep!history
<1>0. Ep!TypeOK
  OBVIOUS
<1>c. IsFiniteSet(Fd) /\ Cardinality(events) =< EventsSize
  BY <1>0, EpCounts DEF Ep!TypeOK
<1>1. ASSUME NEW u \in User, NEW f \in Fd, Ep!add(u, f) PROVE Ep!TypeOK'
  <2>1. adds + 1 \in Ep!Request /\ adds + 1 \in 0 .. MaxRequests
    BY <1>0, <1>1 DEF Ep!TypeOK, Ep!add, Ep!Request
  <2> QED BY <1>0, <1>1, <2>1 DEF Ep!TypeOK, Ep!add
<1>2. ASSUME NEW u \in User, NEW f \in Fd, Ep!cancel(u, f) PROVE Ep!TypeOK'
  <2>1. current[f] \in Ep!Request
    BY <1>0, <1>2 DEF Ep!TypeOK, Ep!cancel, RequestsSay
  <2> QED BY <1>0, <1>2, <2>1 DEF Ep!TypeOK, Ep!cancel
<1>3. ASSUME NEW u \in User, Ep!cancel_erase(u) PROVE Ep!TypeOK'
  BY <1>0, <1>3 DEF Ep!TypeOK, Ep!cancel_erase
<1>4. ASSUME NEW f \in Fd, Ep!Arrive(f) PROVE Ep!TypeOK'
  BY <1>0, <1>4 DEF Ep!TypeOK, Ep!Arrive
<1>5. ASSUME Ep!epoll_wait PROVE Ep!TypeOK'
  <2>1. PICK F \in SUBSET Ep!Reported :
          /\ Cardinality(F) = IF Cardinality(Ep!Reported) < EventsSize
                              THEN Cardinality(Ep!Reported) ELSE EventsSize
          /\ fired' = fired \cup (F \cap oneshot)
          /\ events' = {<<f, current[f]>> : f \in F}
    BY <1>5, EpCounts DEF Ep!epoll_wait
  <2>2. F \subseteq registered /\ Ep!Reported \subseteq Fd
    BY <1>0, <2>1 DEF Ep!TypeOK, Ep!Reported
  <2>3. IsFiniteSet(F) /\ IsFiniteSet(Ep!Reported)
    BY <1>c, <2>1, <2>2, FS_Subset
  <2>4. Cardinality(F) =< EventsSize
    BY <2>1, <2>3, FS_CardinalityType
  <2>5. Cardinality(events') =< EventsSize
    BY <2>1, <2>3, <2>4, EventsCount
  <2>6. events' \subseteq Fd \X Ep!Request
    <3> SUFFICES ASSUME NEW f \in F PROVE <<f, current[f]>> \in Fd \X Ep!Request
      BY <2>1
    <3> QED BY <1>0, <2>2 DEF Ep!TypeOK, RequestsSay
  <2> QED BY <1>0, <1>5, <2>1, <2>2, <2>5, <2>6, EpCounts DEF Ep!TypeOK, Ep!epoll_wait
<1>6. ASSUME Ep!waiter_lock PROVE Ep!TypeOK'
  BY <1>0, <1>6 DEF Ep!TypeOK, Ep!waiter_lock
<1>7. ASSUME NEW e \in events, Ep!callback(e) PROVE Ep!TypeOK'
  <2>1. e[1] \in Fd /\ m_requests[e[1]] \in {0} \cup Ep!Request
    BY <1>0 DEF Ep!TypeOK
  <2>2. IsFiniteSet(events)
    <3>1. IsFiniteSet(Ep!Request)
      BY FS_Interval DEF Ep!Request
    <3>2. IsFiniteSet(Fd \X Ep!Request)
      BY <1>c, <3>1, FS_Product
    <3> QED BY <1>0, <3>2, FS_Subset DEF Ep!TypeOK
  <2>3. events' \in {events, events \ {e}}
    BY <1>7 DEF Ep!callback
  <2>4. Cardinality(events') =< EventsSize
    BY <1>c, <2>2, <2>3, FS_RemoveElement, FS_CardinalityType, FS_Subset
  <2>5. called' \in [Ep!Request -> Nat] /\ m_requests' \in [Fd -> {0} \cup Ep!Request]
        /\ ready' \subseteq Fd /\ waiter' \in {"wait", "events", "thrown"}
        /\ strayed' \subseteq Ep!Request
    BY <1>0, <1>7, <2>1 DEF Ep!TypeOK, Ep!callback
  <2> QED BY <1>0, <1>7, <2>3, <2>4, <2>5, EpCounts DEF Ep!TypeOK, Ep!callback
<1>8. CASE UNCHANGED Ep!vars
  BY <1>0, <1>8 DEF Ep!TypeOK, Ep!vars
<1> QED BY <1>1, <1>2, <1>3, <1>4, <1>5, <1>6, <1>7, <1>8 DEF Ep!Next, Ep!WaiterStep

(* A request is numbered once and is in the map until its callback has run  *)
(* or its descriptor was cancelled; its event says which.                   *)
LEMMA EpollerNext ==
  ASSUME Ep!EpollerAssumption, EpollerInv, [Ep!Next]_Ep!vars
  PROVE  EpollerSays'
<1> USE DEF Ep!EpollerAssumption, Ep!kernel, Ep!history
<1>0. /\ Ep!TypeOK /\ RequestsSay /\ OneshotSays /\ CancelSays /\ EventsSay
      /\ Ep!EventsExplained
  BY DEF EpollerInv
<1>t. ASSUME Ep!Next PROVE waiter # "thrown"
  BY <1>t DEF Ep!Next
<1>1. ASSUME NEW u \in User, NEW f \in Fd, waiter # "thrown", Ep!add(u, f)
      PROVE  EpollerSays'
  <2> DEFINE r == adds + 1
  <2>1. /\ f \notin registered /\ registered' = registered \cup {f}
        /\ oneshot' \in {oneshot, oneshot \cup {f}}
        /\ current' = [current EXCEPT ![f] = r]
        /\ m_requests' = [m_requests EXCEPT ![f] = IF m_requests[f] = 0 THEN r ELSE m_requests[f]]
        /\ crossed' = IF \E v \in User : cancelling[v] = f THEN crossed \cup {r} ELSE crossed
        /\ adds' = r /\ adds \in Nat /\ r \in Ep!Request
        /\ UNCHANGED <<fired, cancelling, waiter, events, called, cancelled, strayed>>
    BY <1>0, <1>1 DEF Ep!add, Ep!TypeOK, Ep!Request
  <2>2. /\ current'[f] = r /\ called[r] = 0
        /\ m_requests'[f] = IF m_requests[f] = 0 THEN r ELSE m_requests[f]
        /\ \A g \in Fd : g # f => current'[g] = current[g] /\ m_requests'[g] = m_requests[g]
        /\ \A g \in Fd : current[g] \in 0 .. adds /\ m_requests[g] \in 0 .. adds
    BY <1>0, <2>1 DEF Ep!TypeOK, RequestsSay, Ep!Request
  <2>3. m_requests[f] # 0 => r \in crossed'
    BY <1>0, <2>1 DEF CancelSays
  <2> HIDE DEF r
  <2>4. r # 0 /\ r \in Nat /\ \A n \in 0 .. adds : n # r /\ n =< r
    BY <2>1 DEF r
  <2>5. RequestsSay'
    <3>1. ASSUME NEW g \in registered'
          PROVE  /\ current'[g] # 0
                 /\ Asked(g)' \/ called'[current'[g]] > 0 \/ current'[g] \in crossed'
                 /\ m_requests'[g] \in {0, current'[g]} \/ current'[g] \in crossed'
      <4>1. CASE g = f
        BY <2>1, <2>2, <2>3, <2>4, <4>1 DEF Asked
      <4>2. CASE g # f
        BY <1>0, <2>1, <2>2, <4>2 DEF RequestsSay, Asked, Ep!TypeOK
      <4> QED BY <4>1, <4>2
    <3>2. \A g, h \in Fd : current'[g] = current'[h] => g = h \/ current'[g] = 0
      BY <1>0, <2>1, <2>2, <2>4 DEF RequestsSay
    <3>3. \A g, h \in Fd : m_requests'[g] \in {current'[h], m_requests'[h]}
                              => g = h \/ m_requests'[g] = 0
      BY <1>0, <2>1, <2>2, <2>4 DEF RequestsSay
    <3>4. \A g \in Fd : current'[g] =< adds' /\ m_requests'[g] =< adds'
      BY <2>1, <2>2, <2>4
    <3>5. \A g \in Fd : m_requests'[g] # 0 => called'[m_requests'[g]] = 0
      BY <1>0, <2>1, <2>2 DEF RequestsSay
    <3>6. \A n \in Ep!Request : called'[n] =< 1 /\ (n > adds' => called'[n] = 0)
      BY <1>0, <2>1 DEF RequestsSay, Ep!Request, r
    <3> QED BY <3>1, <3>2, <3>3, <3>4, <3>5, <3>6 DEF RequestsSay
  <2>6. OneshotSays'
    BY <1>0, <2>1, <2>2 DEF OneshotSays, Ep!TypeOK
  <2>7. CancelSays'
    <3>1. ASSUME NEW v \in User, cancelling[v] # None
          PROVE  /\ cancelled # {}
                 /\ cancelling[v] \in registered' => current'[cancelling[v]] \in crossed'
      <4>1. CASE cancelling[v] = f
        BY <1>0, <2>1, <2>2, <3>1, <4>1 DEF CancelSays
      <4>2. CASE cancelling[v] # f
        BY <1>0, <2>1, <2>2, <3>1, <4>2 DEF CancelSays, Ep!TypeOK
      <4> QED BY <4>1, <4>2
    <3>2. \A g \in Fd \ registered' : m_requests'[g] = 0 \/ \E v \in User : cancelling'[v] = g
      BY <1>0, <2>1, <2>2 DEF CancelSays
    <3>3. crossed' # {} \/ strayed' # {} => cancelled' # {}
      BY <1>0, <2>1, <3>1 DEF CancelSays
    <3> QED BY <2>1, <3>1, <3>2, <3>3 DEF CancelSays
  <2>8. ASSUME NEW e \in events
        PROVE  /\ e[1] \in Fd /\ e[2] \in 0 .. adds
               /\ e[1] = f => e[2] \in cancelled
               /\ e[1] # f => /\ m_requests'[e[1]] = m_requests[e[1]]
                              /\ current'[e[1]] = current[e[1]]
    BY <1>0, <2>1, <2>2 DEF EventsSay, Ep!TypeOK, Ep!Request
  <2>9. EventsSay'
    BY <1>0, <1>1, <2>1, <2>2, <2>4, <2>8 DEF EventsSay
  <2>10. Ep!EventsExplained'
    BY <1>0, <2>1, <2>2, <2>8 DEF Ep!EventsExplained
  <2> QED BY <2>5, <2>6, <2>7, <2>9, <2>10 DEF EpollerSays
<1>2. ASSUME NEW u \in User, NEW f \in Fd, waiter # "thrown", Ep!cancel(u, f)
      PROVE  EpollerSays'
  <2>1. /\ f \in registered /\ registered' = registered \ {f}
        /\ oneshot' = oneshot \ {f} /\ fired' = fired \ {f}
        /\ cancelling' = [cancelling EXCEPT ![u] = f]
        /\ cancelled' = cancelled \cup {current[f]}
        /\ UNCHANGED <<m_requests, waiter, events, current, called, crossed, strayed, adds>>
    BY <1>2 DEF Ep!cancel
  <2>2. RequestsSay'
    BY <1>0, <2>1 DEF RequestsSay, Asked
  <2>3. OneshotSays'
    BY <1>0, <2>1 DEF OneshotSays
  <2>4. CancelSays'
    <3>1. \A v \in User : cancelling'[v] = IF v = u THEN f ELSE cancelling[v]
      BY <1>0, <2>1 DEF Ep!TypeOK
    <3>2. cancelling[u] = None
      BY <1>2 DEF Ep!cancel
    <3>3. \A g \in Fd \ registered' : m_requests'[g] = 0 \/ \E v \in User : cancelling'[v] = g
      BY <1>0, <2>1, <3>1, <3>2 DEF CancelSays
    <3> QED BY <1>0, <2>1, <3>1, <3>3 DEF CancelSays
  <2>5. EventsSay'
    <3>1. ASSUME NEW e \in events
          PROVE  /\ e[2] =< adds'
                 /\ e[2] \in cancelled' \/ (e[1] \in registered' /\ e[2] = current'[e[1]])
                 /\ e[1] \in oneshot' /\ e[2] = current'[e[1]] => e[1] \in fired'
      BY <1>0, <2>1 DEF EventsSay
    <3> QED BY <1>0, <1>2, <2>1, <3>1 DEF EventsSay
  <2>6. Ep!EventsExplained'
    <3> SUFFICES ASSUME NEW e \in events
                 PROVE  \/ m_requests[e[1]] = e[2]
                        \/ e[2] \in cancelled' \cup crossed
                        \/ /\ called[e[2]] > 0
                           /\ e[1] \in registered' \ oneshot' \/ e[2] \in strayed
      BY <2>1 DEF Ep!EventsExplained
    <3>1. e[1] = f => e[2] \in cancelled'
      BY <1>0, <2>1 DEF EventsSay
    <3> QED BY <1>0, <2>1, <3>1 DEF Ep!EventsExplained
  <2> QED BY <2>2, <2>3, <2>4, <2>5, <2>6 DEF EpollerSays
<1>3. ASSUME NEW u \in User, waiter # "thrown", Ep!cancel_erase(u)
      PROVE  EpollerSays'
  <2> DEFINE f == cancelling[u]
  <2>1. /\ f \in Fd /\ f # None
        /\ m_requests' = [m_requests EXCEPT ![f] = 0]
        /\ cancelling' = [cancelling EXCEPT ![u] = None]
        /\ UNCHANGED <<registered, oneshot, fired, waiter, events, current, called,
                       cancelled, crossed, strayed, adds>>
    BY <1>0, <1>3 DEF Ep!cancel_erase, Ep!TypeOK
  <2>2. /\ m_requests'[f] = 0
        /\ \A g \in Fd : g # f => m_requests'[g] = m_requests[g]
        /\ \A v \in User : cancelling'[v] = IF v = u THEN None ELSE cancelling[v]
        /\ f \in registered => current[f] \in crossed
        /\ adds \in Nat /\ registered \subseteq Fd
    BY <1>0, <2>1 DEF Ep!TypeOK, CancelSays
  <2>c. cancelling[u] = f
    OBVIOUS
  <2> HIDE DEF f
  <2>3. RequestsSay'
    BY <1>0, <2>1, <2>2 DEF RequestsSay, Asked
  <2>4. OneshotSays'
    BY <1>0, <2>1 DEF OneshotSays
  <2>5. CancelSays'
    <3>1. \A g \in Fd \ registered' : m_requests'[g] = 0 \/ \E v \in User : cancelling'[v] = g
      BY <1>0, <2>c, <2>1, <2>2 DEF CancelSays
    <3> QED BY <1>0, <2>1, <2>2, <3>1 DEF CancelSays
  <2>6. EventsSay'
    BY <1>0, <1>3, <2>1, <2>2 DEF EventsSay
  <2>7. Ep!EventsExplained'
    <3> SUFFICES ASSUME NEW e \in events
                 PROVE  \/ m_requests'[e[1]] = e[2]
                        \/ e[2] \in cancelled \cup crossed
                        \/ /\ called[e[2]] > 0
                           /\ e[1] \in registered \ oneshot \/ e[2] \in strayed
      BY <2>1 DEF Ep!EventsExplained
    <3>1. e[1] = f => e[2] \in cancelled \cup crossed
      BY <1>0, <2>2 DEF EventsSay
    <3>2. e[1] \in Fd
      BY <1>0 DEF Ep!TypeOK
    <3> QED BY <1>0, <2>2, <3>1, <3>2 DEF Ep!EventsExplained
  <2> QED BY <2>3, <2>4, <2>5, <2>6, <2>7 DEF EpollerSays
<1>4. ASSUME NEW f \in Fd, Ep!Arrive(f) PROVE EpollerSays'
  BY <1>0, <1>4 DEF Ep!Arrive, EpollerSays, RequestsSay, OneshotSays, CancelSays, EventsSay,
      Asked, Ep!EventsExplained
<1>5. ASSUME Ep!epoll_wait PROVE EpollerSays'
  <2>1. PICK F \in SUBSET Ep!Reported :
          /\ fired' = fired \cup (F \cap oneshot)
          /\ events' = {<<f, current[f]>> : f \in F}
    BY <1>5 DEF Ep!epoll_wait
  <2>2. /\ waiter' = "lock"
        /\ UNCHANGED <<registered, oneshot, m_requests, cancelling, current, called,
                       cancelled, crossed, strayed, adds>>
    BY <1>5 DEF Ep!epoll_wait
  <2>3. ASSUME NEW e \in events'
        PROVE  e[1] \in F /\ e[1] \in registered \ fired /\ e[1] \in Fd /\ e[2] = current[e[1]]
    BY <1>0, <2>1 DEF Ep!Reported, Ep!TypeOK
  <2>4. \A e, d \in events' : e[1] = d[1] => e = d
    BY <2>1
  <2>5. EventsSay'
    BY <1>0, <2>1, <2>2, <2>3, <2>4 DEF EventsSay, RequestsSay
  <2>6. RequestsSay' /\ OneshotSays' /\ CancelSays'
    BY <1>0, <2>1, <2>2 DEF RequestsSay, OneshotSays, CancelSays, Asked
  <2>7. Ep!EventsExplained'
    BY <1>0, <2>2, <2>3 DEF Ep!EventsExplained, RequestsSay, OneshotSays, Asked
  <2> QED BY <2>5, <2>6, <2>7 DEF EpollerSays
<1>6. ASSUME Ep!waiter_lock PROVE EpollerSays'
  BY <1>0, <1>6 DEF Ep!waiter_lock, EpollerSays, RequestsSay, OneshotSays, CancelSays,
      EventsSay, Asked, Ep!EventsExplained
<1>7. ASSUME NEW e \in events, Ep!callback(e), m_requests[e[1]] = 0 PROVE EpollerSays'
  <2>1. /\ waiter' = "thrown"
        /\ UNCHANGED <<registered, oneshot, fired, m_requests, cancelling, events, current,
                       called, cancelled, crossed, strayed, adds>>
    BY <1>7 DEF Ep!callback
  <2> QED BY <1>0, <1>7, <2>1 DEF EpollerSays, RequestsSay, OneshotSays, CancelSays,
      EventsSay, Asked, Ep!EventsExplained
<1>8. ASSUME NEW e \in events, Ep!callback(e), m_requests[e[1]] # 0 PROVE EpollerSays'
  <2> DEFINE f == e[1]
             r == m_requests[f]
  <2>1. /\ f \in Fd /\ r \in Ep!Request /\ r # 0 /\ called[r] = 0 /\ r =< adds
        /\ called' = [called EXCEPT ![r] = called[r] + 1]
        /\ m_requests' = [m_requests EXCEPT ![f] = 0]
        /\ strayed' = IF r = e[2] THEN strayed ELSE strayed \cup {r}
        /\ events' = events \ {e} /\ waiter' # "thrown"
        /\ UNCHANGED <<registered, oneshot, fired, cancelling, current, cancelled, crossed,
                       adds>>
    BY <1>0, <1>8 DEF Ep!callback, Ep!TypeOK, RequestsSay
  <2>2. /\ called'[r] = 1 /\ m_requests'[f] = 0 /\ called' \in [Ep!Request -> Nat]
        /\ \A n \in Ep!Request : n # r => called'[n] = called[n]
        /\ \A g \in Fd : g # f => m_requests'[g] = m_requests[g]
    BY <1>0, <2>1 DEF Ep!TypeOK
  <2>3. \A g \in Fd : g # f => current[g] # r /\ m_requests[g] # r
    <3>1. ASSUME NEW g \in Fd, g # f, m_requests[g] = r PROVE FALSE
      BY <1>0, <2>1, <3>1 DEF RequestsSay
    <3> QED BY <1>0, <2>1, <3>1 DEF RequestsSay
  <2>e. f = e[1] /\ r = m_requests[f]
    OBVIOUS
  <2>i. /\ \A g \in Fd : current[g] \in {0} \cup Ep!Request /\ m_requests[g] \in {0} \cup Ep!Request
        /\ registered \subseteq Fd /\ oneshot \subseteq registered
        /\ \A d \in events : d[1] \in Fd /\ d[2] \in Ep!Request
    BY <1>0 DEF Ep!TypeOK
  <2> HIDE DEF f, r
  <2>4. RequestsSay'
    <3>1. ASSUME NEW g \in registered'
          PROVE  /\ current'[g] # 0
                 /\ Asked(g)' \/ called'[current'[g]] > 0 \/ current'[g] \in crossed'
                 /\ m_requests'[g] \in {0, current'[g]} \/ current'[g] \in crossed'
      <4>1. g \in registered /\ g \in Fd /\ current[g] # 0 /\ current[g] \in Ep!Request
        BY <1>0, <2>1, <2>i DEF RequestsSay
      <4>2. CASE current[g] = r
        BY <2>1, <2>2, <2>3, <4>1, <4>2
      <4>3. CASE current[g] # r
        BY <1>0, <2>1, <2>2, <2>e, <4>1, <4>3 DEF RequestsSay, Asked
      <4> QED BY <4>2, <4>3
    <3>2. \A g \in Fd : m_requests'[g] # 0 => called'[m_requests'[g]] = 0
      BY <1>0, <2>1, <2>2, <2>3, <2>i DEF RequestsSay
    <3>3. \A n \in Ep!Request : called'[n] =< 1 /\ (n > adds' => called'[n] = 0)
      BY <1>0, <2>1, <2>2 DEF RequestsSay, Ep!Request, Ep!TypeOK
    <3>4. /\ \A g, h \in Fd : m_requests'[g] \in {current'[h], m_requests'[h]}
                                => g = h \/ m_requests'[g] = 0
          /\ \A g \in Fd : current'[g] =< adds' /\ m_requests'[g] =< adds'
          /\ \A g, h \in Fd : current'[g] = current'[h] => g = h \/ current'[g] = 0
      BY <1>0, <2>1, <2>2 DEF RequestsSay, Ep!TypeOK
    <3> QED BY <3>1, <3>2, <3>3, <3>4 DEF RequestsSay
  <2>5. OneshotSays'
    <3> SUFFICES ASSUME NEW g \in oneshot, called'[current[g]] > 0
                 PROVE  g \in fired \/ current[g] \in strayed'
      BY <2>1 DEF OneshotSays
    <3>1. g \in registered /\ g \in Fd /\ current[g] \in Ep!Request
      BY <1>0, <2>i DEF RequestsSay
    <3>2. CASE current[g] = r /\ r = e[2]
      BY <1>0, <2>3, <2>e, <3>1, <3>2 DEF EventsSay
    <3>3. CASE current[g] = r /\ r # e[2]
      BY <2>1, <3>3
    <3>4. CASE current[g] # r
      BY <1>0, <2>1, <2>2, <3>1, <3>4 DEF OneshotSays
    <3> QED BY <3>2, <3>3, <3>4
  <2>6. CancelSays'
    <3>1. r # e[2] => cancelled # {}
      <4> SUFFICES ASSUME r # e[2], cancelled = {} PROVE FALSE
        OBVIOUS
      <4>1. crossed = {} /\ strayed = {}
        BY <1>0 DEF CancelSays
      <4>2. f \in registered /\ e[2] = current[f]
        BY <1>0, <2>e DEF EventsSay
      <4>3. m_requests[f] \in {0, current[f]}
        BY <1>0, <4>1, <4>2 DEF RequestsSay
      <4> QED BY <2>1, <2>e, <4>2, <4>3
    <3>2. \A g \in Fd \ registered' : m_requests'[g] = 0 \/ \E v \in User : cancelling'[v] = g
      BY <1>0, <2>1, <2>2 DEF CancelSays
    <3> QED BY <1>0, <2>1, <3>1, <3>2 DEF CancelSays
  <2>7. EventsSay'
    BY <1>0, <2>1 DEF EventsSay
  <2>8. Ep!EventsExplained'
    <3> SUFFICES ASSUME NEW d \in events, d # e
                 PROVE  \/ m_requests'[d[1]] = d[2]
                        \/ d[2] \in cancelled \cup crossed
                        \/ /\ called'[d[2]] > 0
                           /\ d[1] \in registered \ oneshot \/ d[2] \in strayed'
      BY <2>1 DEF Ep!EventsExplained
    <3>1. d[1] # f /\ m_requests'[d[1]] = m_requests[d[1]]
      BY <1>0, <2>2, <2>e, <2>i DEF EventsSay
    <3>2. called[d[2]] > 0 => called'[d[2]] > 0
      BY <1>0, <2>1, <2>2, <2>i DEF Ep!TypeOK
    <3> QED BY <1>0, <2>1, <3>1, <3>2 DEF Ep!EventsExplained
  <2> QED BY <2>4, <2>5, <2>6, <2>7, <2>8 DEF EpollerSays
<1>9. CASE UNCHANGED Ep!vars
  BY <1>0, <1>9 DEF Ep!vars, EpollerSays, RequestsSay, OneshotSays, CancelSays, EventsSay,
      Asked, Ep!EventsExplained
<1> QED BY <1>1, <1>2, <1>3, <1>4, <1>5, <1>6, <1>7, <1>8, <1>9 DEF Ep!Next, Ep!WaiterStep

(* The invariant holds in every reachable state of the epoller. *)
LEMMA EpollerHolds == ServicesSpec => []EpollerInv
<1>0. Ep!EpollerAssumption
  BY ServicesAssumption
<1>1. ServicesInit => EpollerInv
  BY <1>0, EpollerInit DEF ServicesInit
<1>2. EpollerInv /\ [ServicesNext]_serviceVars => EpollerInv'
  BY <1>0, EpollerType, EpollerNext, ServiceSteps DEF EpollerInv, EpollerSays
<1> QED BY <1>1, <1>2, PTL DEF ServicesSpec

(* Whatever users add and cancel, whichever descriptors are level-triggered and whoever
   shares them: an epoll request is called back at most once, and an event that does not
   find its request, or makes waiter throw, is for one that a cancel has taken off, whose
   add crossed a cancel, or whose callback has run already (add, cancel, waiter). *)
THEOREM RequestsCalledOnce == ServicesSpec => []Ep!CallbacksOnce
<1>1. EpollerInv => Ep!CallbacksOnce
  <2> SUFFICES ASSUME EpollerInv PROVE Ep!CallbacksOnce
    OBVIOUS
  <2>1. Ep!StraysExplained
    BY DEF EpollerInv, CancelSays, Ep!StraysExplained
  <2>2. Ep!RegisteredHasRequest
    BY DEF EpollerInv, RequestsSay, Ep!RegisteredHasRequest, Asked
  <2>3. waiter = "thrown" => \E e \in events : m_requests[e[1]] = 0
    BY DEF EpollerInv, EventsSay
  <2>4. Ep!CalledOnce
    BY DEF EpollerInv, RequestsSay, Ep!CalledOnce
  <2> QED BY <2>1, <2>2, <2>3, <2>4 DEF EpollerInv, Ep!CallbacksOnce
<1> QED BY <1>1, EpollerHolds, PTL

(* No task of a timer and no epoll request is called back twice, and who looks for one
   finds it, or it is a request that was cancelled, crossed or called back before. *)
THEOREM ServicesCallOnce == ServicesSpec => []CallbacksOnce
<1>1. Ti!CallbacksOnce /\ Ep!CallbacksOnce => CallbacksOnce
  BY DEF CallbacksOnce
<1> QED BY <1>1, TimersCallOnce, RequestsCalledOnce, PTL

-----------------------------------------------------------------------------
(* A coroutine's nice value is its own, and a timeout may have come that    *)
(* get_ready_to_push has not seen; or it is boosted, and its own is the     *)
(* previous one.                                                            *)
Plain(c) == nice[c] = own[c] /\ (wakeup_timer[c] => where[c] = "waiting" /\ ~stk_active[c])
Boosted(c) == wakeup_timer[c] /\ nice[c] = Cf!PRIORITY_HIGHEST /\ prev_nice[c] = own[c]

Accounted(c) ==
  /\ Plain(c) \/ Boosted(c) \/ reboosted[c]
  /\ where[c] \in {"new", "sleeping"} => ~stk_active[c] /\ ~wakeup_timer[c]
  /\ where[c] = "running" => stk_active[c]
  /\ where[c] \in {"buffer", "ready"} /\ stk_active[c] /\ wakeup_timer[c] => reboosted[c]
  /\ where[c] = "ready" => key[c] = v_runtime[c] \/ reboosted[c]
  /\ where[c] = "buffer" => contended

(* Where queues are free and nobody waits on semaphores.                    *)
Calm(c) ==
  /\ where[c] # "buffer"
  /\ stk_active[c] <=> where[c] = "running"
  /\ where[c] \in {"new", "waiting", "sleeping", "ended"} => nice[c] = own[c]
  /\ where[c] \in {"ready", "running"} => Boosted(c) \/ (~wakeup_timer[c] /\ nice[c] = own[c])
  /\ where[c] = "new" => real_runtime_ns[c] = 0
  /\ Cf!real_runtime(real_runtime_ns[c]) > 0 =>
       /\ where[c] \in {"waiting", "sleeping"} => v_runtime[c] = Cf!Charge(real_runtime_ns[c], own[c])
       /\ where[c] = "ready" =>
            key[c] = Cf!Charge(real_runtime_ns[c],
                            IF wakeup_timer[c] THEN Cf!PRIORITY_HIGHEST ELSE own[c])

CfsInv ==
  /\ Cf!TypeOK /\ \A c \in Co : Accounted(c)
  /\ ~contended => \A c \in Co : Calm(c)

-----------------------------------------------------------------------------
(* What the weights do to a runtime: the charge is a number, and positive   *)
(* as soon as the runtime counts.                                           *)
LEMMA RuntimeType == ASSUME NEW ns \in Nat PROVE Cf!real_runtime(ns) \in Nat
BY DEF Cf!real_runtime, Cf!precision

(* What a slice costs is a natural number, whatever the nice value. *)
LEMMA ChargeType == ASSUME NEW ns \in Nat, NEW n \in Cf!Nices PROVE Cf!Charge(ns, n) \in Nat
<1> DEFINE r == Cf!real_runtime(ns)
<1>1. r \in Nat
  BY RuntimeType
<1>2. Cf!nice_to_weigh(n) \in {88761, 9548, 1024, 110, 15}
  BY DEF Cf!nice_to_weigh, Cf!Nices
<1> HIDE DEF r
<1>3. (r * 1024) \div Cf!nice_to_weigh(n) \in Nat
  BY <1>1, <1>2
<1> QED BY <1>3 DEF Cf!Charge, r

(* A slice of positive length costs something: no nice value rounds it to nothing. *)
LEMMA ChargePositive ==
  ASSUME NEW ns \in Nat, NEW n \in Cf!Nices, Cf!real_runtime(ns) > 0 PROVE Cf!Charge(ns, n) > 0
<1> DEFINE r == Cf!real_runtime(ns)
<1>1. r \in Nat /\ r >= 131072
  BY DEF Cf!real_runtime, Cf!precision
<1>2. Cf!nice_to_weigh(n) \in {88761, 9548, 1024, 110, 15}
  BY DEF Cf!nice_to_weigh, Cf!Nices
<1> HIDE DEF r
<1>3. (r * 1024) \div Cf!nice_to_weigh(n) > 0
  BY <1>1, <1>2
<1> QED BY <1>3 DEF Cf!Charge, r

(* A slice of no time has no length in the units of the accounts. *)
LEMMA NoRuntime == Cf!real_runtime(0) = 0
BY DEF Cf!real_runtime, Cf!precision

(* Before the first creation no coroutine is known and every account is empty. *)
LEMMA CfsInit == ASSUME Cf!CfsAssumption, Cf!Init PROVE CfsInv
<1>1. Cf!TypeOK
  <2>1. nice \in [Co -> Cf!Nices] /\ prev_nice \in [Co -> Cf!Nices]
    BY DEF Cf!CfsAssumption, Cf!Init, Cf!Nices
  <2>2. real_runtime_ns \in [Co -> 0 .. MaxRuntime]
    BY DEF Cf!CfsAssumption, Cf!Init
  <2>3. where \in [Co -> Cf!Where]
    BY DEF Cf!Init, Cf!Where
  <2> QED BY <2>1, <2>2, <2>3 DEF Cf!Init, Cf!TypeOK
<1>2. \A c \in Co : Accounted(c) /\ Calm(c)
  BY NoRuntime DEF Cf!Init, Accounted, Plain, Calm
<1> QED BY <1>1, <1>2 DEF CfsInv

-----------------------------------------------------------------------------
(* A step of one coroutine leaves the others as they are.                   *)
CoUntouched(d) ==
  /\ where'[d] = where[d] /\ own'[d] = own[d]
  /\ nice'[d] = nice[d] /\ prev_nice'[d] = prev_nice[d]
  /\ v_runtime'[d] = v_runtime[d] /\ real_runtime_ns'[d] = real_runtime_ns[d]
  /\ wakeup_timer'[d] = wakeup_timer[d] /\ stk_active'[d] = stk_active[d]
  /\ key'[d] = key[d] /\ reboosted'[d] = reboosted[d] /\ contended' = contended

(* A step that leaves a coroutine's fields alone leaves its account as it was. *)
LEMMA CoStays ==
  ASSUME NEW d \in Co, CoUntouched(d)
  PROVE  (Accounted(d) => Accounted(d)') /\ (Calm(d) => Calm(d)')
<1> USE DEF CoUntouched, Plain, Boosted
<1>1. Accounted(d) => Accounted(d)'
  BY DEF Accounted
<1>2. Calm(d) => Calm(d)'
  BY DEF Calm
<1> QED BY <1>1, <1>2

(* What get_ready_to_push leaves: v_runtime charged or where the scheduler  *)
(* is, and the boost after a timeout.                                       *)
LEMMA PushSays ==
  ASSUME Cf!CfsAssumption, Cf!TypeOK, NEW c \in Co, NEW s \in Sched, Cf!get_ready_to_push(c, s)
  PROVE  /\ v_runtime' \in [Co -> Nat] /\ nice' \in [Co -> Cf!Nices]
         /\ prev_nice' \in [Co -> Cf!Nices] /\ reboosted' \in [Co -> BOOLEAN]
         /\ \A d \in Co : d # c => /\ v_runtime'[d] = v_runtime[d] /\ nice'[d] = nice[d]
                                   /\ prev_nice'[d] = prev_nice[d]
                                   /\ reboosted'[d] = reboosted[d]
         /\ ~wakeup_timer[c] =>
              /\ v_runtime'[c] = IF v_runtime[c] = 0 THEN min_v_runtime[s] ELSE v_runtime[c]
              /\ UNCHANGED <<nice, prev_nice, reboosted>>
         /\ wakeup_timer[c] =>
              /\ v_runtime'[c] = Cf!Charge(real_runtime_ns[c], Cf!PRIORITY_HIGHEST)
              /\ prev_nice'[c] = nice[c] /\ nice'[c] = Cf!PRIORITY_HIGHEST
              /\ reboosted'[c] = (reboosted[c] \/ nice[c] = Cf!PRIORITY_HIGHEST)
<1>1. /\ Cf!PRIORITY_HIGHEST \in Cf!Nices
      /\ Cf!Charge(real_runtime_ns[c], Cf!PRIORITY_HIGHEST) \in Nat
  <2>1. Cf!PRIORITY_HIGHEST \in Cf!Nices
    BY DEF Cf!PRIORITY_HIGHEST, Cf!Nices
  <2>2. real_runtime_ns[c] \in Nat
    BY DEF Cf!TypeOK, Cf!CfsAssumption
  <2> QED BY <2>1, <2>2, ChargeType
<1> DEFINE v == IF v_runtime[c] = 0 THEN min_v_runtime[s] ELSE v_runtime[c]
<1>2. v \in Nat
  BY DEF Cf!TypeOK
<1>3. CASE ~wakeup_timer[c]
  <2>1. v_runtime' = [v_runtime EXCEPT ![c] = v] /\ UNCHANGED <<nice, prev_nice, reboosted>>
    BY <1>3 DEF Cf!get_ready_to_push, Cf!Set
  <2> HIDE DEF v
  <2>2. v_runtime' \in [Co -> Nat] /\ v_runtime'[c] = v
        /\ \A d \in Co : d # c => v_runtime'[d] = v_runtime[d]
    BY <1>2, <2>1 DEF Cf!TypeOK
  <2> QED BY <1>3, <2>1, <2>2 DEF Cf!TypeOK, v
<1>4. CASE wakeup_timer[c]
  <2> DEFINE x == Cf!Charge(real_runtime_ns[c], Cf!PRIORITY_HIGHEST)
  <2>1. /\ v_runtime' = [v_runtime EXCEPT ![c] = x]
        /\ prev_nice' = [prev_nice EXCEPT ![c] = nice[c]]
        /\ nice' = [nice EXCEPT ![c] = Cf!PRIORITY_HIGHEST]
        /\ reboosted' = [reboosted EXCEPT ![c] = (reboosted[c] \/ nice[c] = Cf!PRIORITY_HIGHEST)]
    BY <1>4 DEF Cf!get_ready_to_push, Cf!Set
  <2> HIDE DEF x
  <2>2. /\ v_runtime' \in [Co -> Nat] /\ v_runtime'[c] = x
        /\ \A d \in Co : d # c => v_runtime'[d] = v_runtime[d]
    BY <1>1, <2>1 DEF Cf!TypeOK, x
  <2>3. /\ prev_nice' \in [Co -> Cf!Nices] /\ nice' \in [Co -> Cf!Nices]
        /\ prev_nice'[c] = nice[c] /\ nice'[c] = Cf!PRIORITY_HIGHEST
        /\ \A d \in Co : d # c => nice'[d] = nice[d] /\ prev_nice'[d] = prev_nice[d]
    BY <1>1, <2>1 DEF Cf!TypeOK
  <2>4. /\ reboosted' \in [Co -> BOOLEAN]
        /\ reboosted'[c] = (reboosted[c] \/ nice[c] = Cf!PRIORITY_HIGHEST)
        /\ \A d \in Co : d # c => reboosted'[d] = reboosted[d]
    BY <2>1, Zenon DEF Cf!TypeOK
  <2> QED BY <1>4, <2>2, <2>3, <2>4 DEF x
<1> QED BY <1>3, <1>4

(* The nice value after back_nice.                                          *)
LEMMA BackSays ==
  ASSUME Cf!TypeOK, NEW c \in Co, Cf!back_nice(c)
  PROVE  /\ nice' \in [Co -> Cf!Nices] /\ prev_nice' \in [Co -> Cf!Nices]
         /\ wakeup_timer' \in [Co -> BOOLEAN] /\ ~wakeup_timer'[c]
         /\ nice'[c] = IF wakeup_timer[c] THEN prev_nice[c] ELSE nice[c]
         /\ \A d \in Co : d # c => /\ nice'[d] = nice[d] /\ prev_nice'[d] = prev_nice[d]
                                   /\ wakeup_timer'[d] = wakeup_timer[d]
BY DEF Cf!TypeOK, Cf!back_nice, Cf!Set

-----------------------------------------------------------------------------
(* A coroutine is made ready: by its create, at the end of a wait, or once  *)
(* more by apply_ready_all.                                                 *)
MadeReady(c, s) ==
  /\ Cf!get_ready_to_push(c, s)
  /\ \/ where' = Cf!Set(where, c, "ready") /\ key' = Cf!Set(key, c, Cf!Priority(c))
     \/ contended /\ where' = Cf!Set(where, c, "buffer") /\ UNCHANGED key
  /\ occupy_thread' \in [Co -> Sched]
  /\ \/ where[c] \in {"new", "waiting"}
     \/ contended /\ where[c] \in {"buffer", "ready"}
  /\ UNCHANGED <<own, real_runtime_ns, min_v_runtime, wakeup_timer, stk_active>>

(* Making a coroutine ready keeps every account. *)
LEMMA ReadyStep ==
  ASSUME Cf!CfsAssumption, CfsInv, NEW c \in Co, NEW s \in Sched, MadeReady(c, s),
         UNCHANGED contended
  PROVE  CfsInv'
<1>0. /\ Cf!TypeOK /\ \A d \in Co : Accounted(d)
      /\ ~contended => \A d \in Co : Calm(d)
  BY DEF CfsInv
<1>1. /\ v_runtime' \in [Co -> Nat] /\ nice' \in [Co -> Cf!Nices]
      /\ prev_nice' \in [Co -> Cf!Nices] /\ reboosted' \in [Co -> BOOLEAN]
      /\ \A d \in Co : d # c => /\ v_runtime'[d] = v_runtime[d] /\ nice'[d] = nice[d]
                                /\ prev_nice'[d] = prev_nice[d]
                                /\ reboosted'[d] = reboosted[d]
      /\ ~wakeup_timer[c] =>
           /\ v_runtime'[c] = IF v_runtime[c] = 0 THEN min_v_runtime[s] ELSE v_runtime[c]
           /\ UNCHANGED <<nice, prev_nice, reboosted>>
      /\ wakeup_timer[c] =>
           /\ v_runtime'[c] = Cf!Charge(real_runtime_ns[c], Cf!PRIORITY_HIGHEST)
           /\ prev_nice'[c] = nice[c] /\ nice'[c] = Cf!PRIORITY_HIGHEST
           /\ reboosted'[c] = (reboosted[c] \/ nice[c] = Cf!PRIORITY_HIGHEST)
  BY <1>0, PushSays DEF MadeReady
<1>2. /\ UNCHANGED <<own, real_runtime_ns, min_v_runtime, wakeup_timer, stk_active>>
      /\ occupy_thread' \in [Co -> Sched]
  BY DEF MadeReady
<1>3. /\ where' \in [Co -> Cf!Where] /\ key' \in [Co -> Nat]
      /\ where'[c] \in {"ready", "buffer"}
      /\ where'[c] = "ready" => key'[c] = v_runtime'[c]
      /\ where'[c] = "buffer" => contended
      /\ \A d \in Co : d # c => where'[d] = where[d] /\ key'[d] = key[d]
  BY <1>0, <1>1 DEF MadeReady, Cf!Set, Cf!Priority, Cf!TypeOK, Cf!Where
<1>4. Cf!TypeOK'
  BY <1>0, <1>1, <1>2, <1>3 DEF Cf!TypeOK
<1>5. \A d \in Co : d # c => CoUntouched(d)
  BY <1>1, <1>2, <1>3 DEF CoUntouched
<1>6. Accounted(c)'
  <2>0. Accounted(c)
    BY <1>0
  <2>1. Plain(c)' \/ Boosted(c)' \/ reboosted'[c]
    <3>1. CASE ~wakeup_timer[c]
      BY <1>1, <1>2, <2>0, <3>1 DEF Accounted, Plain, Boosted
    <3>2. CASE wakeup_timer[c]
      BY <1>1, <1>2, <2>0, <3>2 DEF Accounted, Plain, Boosted
    <3> QED BY <3>1, <3>2
  <2>2. stk_active'[c] /\ wakeup_timer'[c] => reboosted'[c]
    BY <1>1, <1>2, <2>0 DEF Accounted, Plain, Boosted
  <2> QED BY <1>3, <2>1, <2>2 DEF Accounted
<1>7. ASSUME ~contended PROVE Calm(c)'
  <2>0. Calm(c) /\ where[c] \in {"new", "waiting"} /\ where'[c] = "ready"
    BY <1>0, <1>3, <1>7 DEF MadeReady
  <2>1. ~stk_active[c] /\ nice[c] = own[c]
    BY <2>0 DEF Calm
  <2>2. Cf!real_runtime(real_runtime_ns'[c]) > 0 =>
          key'[c] = Cf!Charge(real_runtime_ns'[c],
                           IF wakeup_timer'[c] THEN Cf!PRIORITY_HIGHEST ELSE own'[c])
    <3> SUFFICES ASSUME Cf!real_runtime(real_runtime_ns[c]) > 0
                 PROVE  key'[c] = Cf!Charge(real_runtime_ns[c],
                           IF wakeup_timer[c] THEN Cf!PRIORITY_HIGHEST ELSE own[c])
      BY <1>2
    <3>1. CASE wakeup_timer[c]
      BY <1>1, <1>3, <2>0, <3>1
    <3>2. CASE ~wakeup_timer[c]
      <4>1. where[c] = "waiting" /\ v_runtime[c] = Cf!Charge(real_runtime_ns[c], own[c])
        BY <2>0, NoRuntime DEF Calm
      <4>2. v_runtime[c] > 0
        <5>1. own[c] \in Cf!Nices /\ real_runtime_ns[c] \in Nat
          BY <1>0 DEF Cf!TypeOK, Cf!CfsAssumption
        <5> QED BY <4>1, <5>1, ChargePositive
      <4> QED BY <1>1, <1>3, <2>0, <3>2, <4>1, <4>2
    <3> QED BY <3>1, <3>2
  <2>3. Boosted(c)' \/ (~wakeup_timer'[c] /\ nice'[c] = own'[c])
    BY <1>1, <1>2, <2>1 DEF Boosted
  <2> QED BY <1>2, <2>0, <2>1, <2>2, <2>3 DEF Calm
<1>8. \A d \in Co : Accounted(d)'
  BY <1>0, <1>5, <1>6, CoStays
<1>9. ~contended => \A d \in Co : Calm(d)'
  BY <1>0, <1>5, <1>7, CoStays
<1> QED BY <1>4, <1>8, <1>9 DEF CfsInv

(* Picking a coroutine up keeps every account (pickup_ready). *)
LEMMA PickupStep ==
  ASSUME Cf!CfsAssumption, CfsInv, UNCHANGED contended, NEW c \in Co, Cf!pickup_ready(c)
  PROVE  CfsInv'
<1>0. /\ Cf!TypeOK /\ \A d \in Co : Accounted(d)
      /\ ~contended => \A d \in Co : Calm(d)
  BY DEF CfsInv
<1>1. /\ where[c] = "ready" /\ where' = Cf!Set(where, c, "running")
      /\ stk_active' = Cf!Set(stk_active, c, TRUE)
      /\ UNCHANGED <<occupy_thread, own, nice, prev_nice, v_runtime, real_runtime_ns,
                     wakeup_timer, key, reboosted>>
  BY DEF Cf!pickup_ready, Cf!entityVars
<1>2. min_v_runtime' \in [Sched -> Nat]
  <2> DEFINE s == occupy_thread[c]
  <2>1. s \in Sched
    BY <1>0 DEF Cf!TypeOK
  <2>2. CASE UNCHANGED min_v_runtime
    BY <1>0, <2>2 DEF Cf!TypeOK
  <2>3. ASSUME NEW top \in Cf!Ready(s) \ {c},
               min_v_runtime' =
                 Cf!Set(min_v_runtime, s,
                     IF min_v_runtime[s] = 0 \/ key[top] < min_v_runtime[s]
                     THEN key[top] ELSE min_v_runtime[s])
        PROVE  min_v_runtime' \in [Sched -> Nat]
    BY <1>0, <2>1, <2>3 DEF Cf!TypeOK, Cf!Set, Cf!Ready
  <2> QED BY <2>2, <2>3 DEF Cf!pickup_ready
<1>3. Cf!TypeOK'
  BY <1>0, <1>1, <1>2 DEF Cf!TypeOK, Cf!Set, Cf!Where
<1>4. \A d \in Co : d # c => CoUntouched(d)
  BY <1>0, <1>1 DEF CoUntouched, Cf!Set, Cf!TypeOK
<1>5. where'[c] = "running" /\ stk_active'[c]
  BY <1>0, <1>1 DEF Cf!Set, Cf!TypeOK
<1>6. Accounted(c)'
  BY <1>0, <1>1, <1>5 DEF Accounted, Plain, Boosted
<1>7. Calm(c) => Calm(c)'
  BY <1>1, <1>5 DEF Calm, Boosted
<1>8. \A d \in Co : Accounted(d)'
  BY <1>0, <1>4, <1>6, CoStays
<1>9. ~contended => \A d \in Co : Calm(d)'
  BY <1>0, <1>4, <1>7, CoStays
<1> QED BY <1>3, <1>8, <1>9 DEF CfsInv

(* The runtime that a coroutine has when it stops.                          *)
LEMMA RunsSays ==
  ASSUME Cf!CfsAssumption, Cf!TypeOK, NEW c \in Co, NEW ns \in Slice, Cf!Runs(c, ns)
  PROVE  /\ where[c] = "running"
         /\ real_runtime_ns' \in [Co -> 0 .. MaxRuntime] /\ real_runtime_ns'[c] \in Nat
         /\ \A d \in Co : d # c => real_runtime_ns'[d] = real_runtime_ns[d]
BY DEF Cf!CfsAssumption, Cf!TypeOK, Cf!Runs, Cf!Set

(* Leaving the processor charges the slice and keeps every account. *)
LEMMA LeaveStep ==
  ASSUME Cf!CfsAssumption, CfsInv, NEW c \in Co, NEW ns \in Slice,
         NEW to \in {"waiting", "sleeping", "ended"}, Cf!leave(c, ns, to),
         UNCHANGED contended
  PROVE  CfsInv'
<1>0. /\ Cf!TypeOK /\ \A d \in Co : Accounted(d)
      /\ ~contended => \A d \in Co : Calm(d)
  BY DEF CfsInv
<1>1. /\ where' = Cf!Set(where, c, to) /\ stk_active' = Cf!Set(stk_active, c, FALSE)
      /\ v_runtime' = Cf!Set(v_runtime, c, Cf!Charge(real_runtime_ns'[c], nice'[c]))
      /\ UNCHANGED <<occupy_thread, own, key, reboosted, min_v_runtime>>
  BY DEF Cf!leave
<1>2. /\ where[c] = "running"
      /\ real_runtime_ns' \in [Co -> 0 .. MaxRuntime] /\ real_runtime_ns'[c] \in Nat
      /\ \A d \in Co : d # c => real_runtime_ns'[d] = real_runtime_ns[d]
  BY <1>0, RunsSays DEF Cf!leave
<1>3. /\ nice' \in [Co -> Cf!Nices] /\ prev_nice' \in [Co -> Cf!Nices]
      /\ wakeup_timer' \in [Co -> BOOLEAN] /\ ~wakeup_timer'[c]
      /\ nice'[c] = IF wakeup_timer[c] THEN prev_nice[c] ELSE nice[c]
      /\ \A d \in Co : d # c => /\ nice'[d] = nice[d] /\ prev_nice'[d] = prev_nice[d]
                                /\ wakeup_timer'[d] = wakeup_timer[d]
  BY <1>0, BackSays DEF Cf!leave
<1> DEFINE x == Cf!Charge(real_runtime_ns'[c], nice'[c])
<1>4. x \in Nat
  BY <1>2, <1>3, ChargeType
<1> HIDE DEF x
<1>5. /\ v_runtime' \in [Co -> Nat] /\ v_runtime'[c] = x
      /\ where' \in [Co -> Cf!Where] /\ where'[c] = to
      /\ stk_active' \in [Co -> BOOLEAN] /\ ~stk_active'[c]
      /\ \A d \in Co : d # c => /\ v_runtime'[d] = v_runtime[d] /\ where'[d] = where[d]
                                /\ stk_active'[d] = stk_active[d]
  BY <1>0, <1>1, <1>4 DEF Cf!TypeOK, Cf!Set, Cf!Where, x
<1>6. Cf!TypeOK'
  BY <1>0, <1>1, <1>2, <1>3, <1>5 DEF Cf!TypeOK
<1>7. \A d \in Co : d # c => CoUntouched(d)
  BY <1>1, <1>2, <1>3, <1>5 DEF CoUntouched
<1>8. nice'[c] = own'[c] \/ reboosted'[c]
  BY <1>0, <1>1, <1>2, <1>3 DEF Accounted, Plain, Boosted
<1>9. Accounted(c)'
  BY <1>3, <1>5, <1>8 DEF Accounted, Plain
<1>10. Calm(c) => Calm(c)'
  <2> SUFFICES ASSUME Calm(c) PROVE Calm(c)'
    OBVIOUS
  <2>1. nice'[c] = own'[c]
    BY <1>1, <1>2, <1>3 DEF Calm, Boosted
  <2>2. v_runtime'[c] = Cf!Charge(real_runtime_ns'[c], own'[c])
    BY <1>5, <2>1 DEF x
  <2> QED BY <1>5, <2>1, <2>2 DEF Calm
<1>11. \A d \in Co : Accounted(d)'
  BY <1>0, <1>7, <1>9, CoStays
<1>12. ~contended => \A d \in Co : Calm(d)'
  BY <1>0, <1>7, <1>10, CoStays
<1> QED BY <1>6, <1>11, <1>12 DEF CfsInv

(* A wait on a semaphore, queued or served at once, keeps every account. *)
LEMMA WaitStep ==
  ASSUME Cf!CfsAssumption, CfsInv, NEW c \in Co, NEW ns \in Slice, Cf!sem_wait(c, ns),
         UNCHANGED contended
  PROVE  CfsInv'
<1>0. Cf!TypeOK /\ \A d \in Co : Accounted(d)
  BY DEF CfsInv
<1>1. /\ contended /\ where' = Cf!Set(where, c, "waiting")
      /\ v_runtime' = Cf!Set(v_runtime, c, Cf!Charge(real_runtime_ns'[c], nice[c]))
      /\ UNCHANGED <<occupy_thread, own, nice, prev_nice, wakeup_timer, stk_active,
                     key, reboosted, min_v_runtime>>
  BY DEF Cf!sem_wait
<1>2. /\ where[c] = "running"
      /\ real_runtime_ns' \in [Co -> 0 .. MaxRuntime] /\ real_runtime_ns'[c] \in Nat
      /\ \A d \in Co : d # c => real_runtime_ns'[d] = real_runtime_ns[d]
  BY <1>0, RunsSays DEF Cf!sem_wait
<1> DEFINE x == Cf!Charge(real_runtime_ns'[c], nice[c])
<1>3. x \in Nat
  BY <1>0, <1>2, ChargeType DEF Cf!TypeOK
<1> HIDE DEF x
<1>4. /\ v_runtime' \in [Co -> Nat] /\ where' \in [Co -> Cf!Where] /\ where'[c] = "waiting"
      /\ \A d \in Co : d # c => v_runtime'[d] = v_runtime[d] /\ where'[d] = where[d]
  BY <1>0, <1>1, <1>3 DEF Cf!TypeOK, Cf!Set, Cf!Where, x
<1>5. Cf!TypeOK'
  BY <1>0, <1>1, <1>2, <1>4 DEF Cf!TypeOK
<1>6. \A d \in Co : d # c => CoUntouched(d)
  BY <1>1, <1>2, <1>4 DEF CoUntouched
<1>7. Accounted(c)'
  BY <1>0, <1>1, <1>2, <1>4 DEF Accounted, Plain, Boosted
<1>8. \A d \in Co : Accounted(d)'
  BY <1>0, <1>6, <1>7, CoStays
<1> QED BY <1>1, <1>5, <1>8 DEF CfsInv

(* What follows a slice's end keeps every account (process_co_exec_end). *)
LEMMA EndStep ==
  ASSUME Cf!CfsAssumption, CfsInv, UNCHANGED contended, NEW c \in Co,
         Cf!process_co_exec_end(c)
  PROVE  CfsInv'
<1>0. /\ Cf!TypeOK /\ \A d \in Co : Accounted(d)
      /\ ~contended => \A d \in Co : Calm(d)
  BY DEF CfsInv
<1>1. /\ stk_active[c] /\ where[c] # "running" /\ stk_active' = Cf!Set(stk_active, c, FALSE)
      /\ UNCHANGED <<where, occupy_thread, own, real_runtime_ns, key, reboosted,
                     min_v_runtime>>
  BY DEF Cf!process_co_exec_end
<1>2. /\ nice' \in [Co -> Cf!Nices] /\ prev_nice' \in [Co -> Cf!Nices]
      /\ wakeup_timer' \in [Co -> BOOLEAN] /\ ~wakeup_timer'[c]
      /\ nice'[c] = IF wakeup_timer[c] THEN prev_nice[c] ELSE nice[c]
      /\ \A d \in Co : d # c => /\ nice'[d] = nice[d] /\ prev_nice'[d] = prev_nice[d]
                                /\ wakeup_timer'[d] = wakeup_timer[d]
  BY <1>0, BackSays DEF Cf!process_co_exec_end
<1> DEFINE x == Cf!Charge(real_runtime_ns[c], prev_nice[c])
<1>3. x \in Nat
  <2>1. real_runtime_ns[c] \in Nat /\ prev_nice[c] \in Cf!Nices
    BY <1>0 DEF Cf!TypeOK, Cf!CfsAssumption
  <2> QED BY <2>1, ChargeType
<1>4. v_runtime' = IF wakeup_timer[c] THEN Cf!Set(v_runtime, c, x) ELSE v_runtime
  BY DEF Cf!process_co_exec_end
<1> HIDE DEF x
<1>5. /\ v_runtime' \in [Co -> Nat] /\ (~wakeup_timer[c] => v_runtime' = v_runtime)
      /\ stk_active' \in [Co -> BOOLEAN] /\ ~stk_active'[c]
      /\ \A d \in Co : d # c => v_runtime'[d] = v_runtime[d] /\ stk_active'[d] = stk_active[d]
  BY <1>0, <1>1, <1>3, <1>4 DEF Cf!TypeOK, Cf!Set
<1>6. Cf!TypeOK'
  BY <1>0, <1>1, <1>2, <1>5 DEF Cf!TypeOK
<1>7. \A d \in Co : d # c => CoUntouched(d)
  BY <1>1, <1>2, <1>5 DEF CoUntouched
<1>8. Accounted(c)'
  BY <1>0, <1>1, <1>2, <1>5 DEF Accounted, Plain, Boosted
<1>9. ~(~contended)
  BY <1>0, <1>1 DEF Calm
<1>10. \A d \in Co : Accounted(d)'
  BY <1>0, <1>7, <1>8, CoStays
<1> QED BY <1>6, <1>9, <1>10 DEF CfsInv

(* A timer that wakes a coroutine boosts it and keeps every account. *)
LEMMA TimeoutStep ==
  ASSUME Cf!CfsAssumption, CfsInv, UNCHANGED contended, NEW c \in Co, Cf!timeout(c)
  PROVE  CfsInv'
<1>0. /\ Cf!TypeOK /\ \A d \in Co : Accounted(d)
      /\ ~contended => \A d \in Co : Calm(d)
  BY DEF CfsInv
<1>1. /\ where[c] = "sleeping" /\ where' = Cf!Set(where, c, "waiting")
      /\ wakeup_timer' = Cf!Set(wakeup_timer, c, TRUE)
      /\ UNCHANGED <<occupy_thread, own, nice, prev_nice, v_runtime, real_runtime_ns,
                     stk_active, key, reboosted, min_v_runtime>>
  BY DEF Cf!timeout, Cf!entityVars
<1>2. Cf!TypeOK' /\ where'[c] = "waiting" /\ wakeup_timer'[c]
  BY <1>0, <1>1 DEF Cf!TypeOK, Cf!Set, Cf!Where
<1>3. \A d \in Co : d # c => CoUntouched(d)
  BY <1>0, <1>1 DEF CoUntouched, Cf!Set, Cf!TypeOK
<1>4. Accounted(c)'
  BY <1>0, <1>1, <1>2 DEF Accounted, Plain, Boosted
<1>5. Calm(c) => Calm(c)'
  BY <1>1, <1>2 DEF Calm, Boosted
<1>6. \A d \in Co : Accounted(d)'
  BY <1>0, <1>3, <1>4, CoStays
<1>7. ~contended => \A d \in Co : Calm(d)'
  BY <1>0, <1>3, <1>5, CoStays
<1> QED BY <1>2, <1>6, <1>7 DEF CfsInv

(* Every step of the accounting keeps every account. *)
LEMMA CfsNext == ASSUME Cf!CfsAssumption, CfsInv, [Cf!Next]_Cf!vars PROVE CfsInv'
<1>0. Cf!TypeOK
  BY DEF CfsInv
<1>1. ASSUME NEW c \in Co, Cf!create(c) \/ Cf!wakeup(c), UNCHANGED contended PROVE CfsInv'
  <2>1. occupy_thread[c] \in Sched /\ MadeReady(c, occupy_thread[c])
    BY <1>0, <1>1 DEF Cf!create, Cf!wakeup, Cf!apply, MadeReady, Cf!TypeOK
  <2> QED BY <1>1, <2>1, ReadyStep
<1>2. ASSUME NEW c \in Co, NEW s \in Sched, Cf!apply_ready_all(c, s),
             UNCHANGED contended
      PROVE  CfsInv'
  <2>1. where[c] = "buffer" => contended
    BY DEF CfsInv, Accounted
  <2>2. MadeReady(c, s)
    BY <1>0, <1>2, <2>1 DEF Cf!apply_ready_all, MadeReady, Cf!Set, Cf!TypeOK
  <2> QED BY <1>2, <2>2, ReadyStep
<1>3. ASSUME NEW c \in Co, Cf!pickup_ready(c), UNCHANGED contended PROVE CfsInv'
  BY <1>3, PickupStep
<1>4. ASSUME NEW c \in Co, Cf!process_co_exec_end(c), UNCHANGED contended PROVE CfsInv'
  BY <1>4, EndStep
<1>5. ASSUME NEW c \in Co, Cf!timeout(c), UNCHANGED contended PROVE CfsInv'
  BY <1>5, TimeoutStep
<1>6. ASSUME NEW c \in Co, NEW ns \in Slice, Cf!sem_wait(c, ns),
             UNCHANGED contended
      PROVE  CfsInv'
  BY <1>6, WaitStep
<1>7. ASSUME NEW c \in Co, NEW ns \in Slice, NEW to \in {"waiting", "sleeping", "ended"},
             Cf!leave(c, ns, to), UNCHANGED contended
      PROVE  CfsInv'
  BY <1>7, LeaveStep
<1>8. CASE UNCHANGED Cf!vars
  BY <1>8 DEF CfsInv, Cf!vars, Cf!entityVars, Cf!TypeOK, Accounted, Plain, Boosted, Calm
<1> QED BY <1>1, <1>2, <1>3, <1>4, <1>5, <1>6, <1>7, <1>8 DEF Cf!Next

(* For any coroutines, schedulers, nice values and slices (BoostsAccounted of Cfs): only a
   coroutine that get_ready_to_push boosted twice can lose the nice value of its create or
   be queued under a stale priority, and where no lock is contended and nobody waits on a
   semaphore none does (up_nice, back_nice, up_v_runtime). *)
THEOREM CfsAccounts == ServicesSpec => []BoostsAccounted
<1>0. Cf!CfsAssumption
  BY ServicesAssumption
<1>1. ServicesInit => CfsInv
  BY <1>0, CfsInit DEF ServicesInit
<1>2. CfsInv /\ [ServicesNext]_serviceVars => CfsInv'
  BY <1>0, CfsNext, ServiceSteps
<1>3. CfsInv => BoostsAccounted
  <2> SUFFICES ASSUME CfsInv PROVE BoostsAccounted
    OBVIOUS
  <2>1. Cf!NiceLostByReboost /\ Cf!KeyStaleByReboost
    BY DEF CfsInv, Accounted, Plain, Boosted, Cf!NiceLostByReboost,
        Cf!KeyStaleByReboost, Cf!Kept
  <2>2. ASSUME ~contended PROVE Cf!OwnNiceKept /\ Cf!PriorityEarned
    <3>1. Cf!OwnNiceKept
      BY <2>2 DEF CfsInv, Cf!TypeOK, Cf!Where, Calm, Boosted, Cf!OwnNiceKept, Cf!Kept
    <3>2. Cf!PriorityEarned
      BY <2>2 DEF CfsInv, Calm, Cf!PriorityEarned
    <3> QED BY <3>1, <3>2
  <2> QED BY <2>1, <2>2 DEF CfsInv, Cf!BoostsAccounted, BoostsAccounted
<1> QED BY <1>1, <1>2, <1>3, PTL DEF ServicesSpec
===============================================================================
