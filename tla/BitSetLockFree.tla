--------------------------- MODULE BitSetLockFree ---------------------------
(***************************************************************************)
(* BitSetLockFree (data_structure/include/BitSetLockFree.h): BITS_COUNT    *)
(* bits in atomic blocks.  A block is the set of the offsets of its ones,  *)
(* offset 0 being its most significant bit.  A bit is set by one atomic    *)
(* operation; compare_set, change_first_expect and flip load a block and   *)
(* exchange it for what a function makes of it, until nobody interferes.   *)
(* The bits of the last block behind BITS_COUNT exist, too.                *)
(***************************************************************************)
EXTENDS Integers, FiniteSets, FiniteSetsExt

CONSTANTS
  Thread,
  BITS_COUNT,
  block_bits,
  Phases,       \* first set, then change_first_expect(true, false), as in bitset_test
  MaxCalls      \* bound on the calls of a thread, those that pick excepted

BitSetAssumption ==
  /\ BITS_COUNT \in Nat \ {0} /\ block_bits \in Nat \ {0}
  /\ Phases \in BOOLEAN /\ MaxCalls \in Nat

total_block   == (BITS_COUNT + block_bits - 1) \div block_bits
Idx           == 0 .. BITS_COUNT - 1
Offset        == 0 .. block_bits - 1
INVALID_INDEX == -1
Nothing       == -2

VARIABLES
  m_block,
  pc, op, idx, expected, value,   \* the call of a thread and its arguments
  i, cur, bit_idx,                \* its local variables, and what it returns:
  ans, found,                     \* a bool, or the index of a bit
  did,         \* the index of the bit that it changed (history)
  was_set,     \* the bits that were set while no one picked (history)
  picked,      \* how often change_first_expect(true, false) returned a bit (history)
  calls

args  == <<op, idx, expected, value>>
local == <<i, cur, bit_idx, ans, found, did>>
vars  == <<m_block, pc, args, local, was_set, picked, calls>>

TypeOK ==
  /\ m_block \in [0 .. total_block - 1 -> SUBSET Offset]
  /\ pc \in [Thread -> {"idle", "load", "exchange", "next", "done", "over"}]
  /\ op \in [Thread -> {"set", "compare_set", "change", "flip"}]
  /\ idx \in [Thread -> Idx]
  /\ expected \in [Thread -> BOOLEAN] /\ value \in [Thread -> BOOLEAN]
  /\ i \in [Thread -> 0 .. total_block] /\ cur \in [Thread -> SUBSET Offset]
  /\ bit_idx \in [Thread -> 0 .. block_bits]
  /\ ans \in [Thread -> BOOLEAN] /\ found \in [Thread -> Idx \cup {INVALID_INDEX}]
  /\ did \in [Thread -> Int] /\ was_set \subseteq Idx
  /\ picked \in [Idx -> Nat] /\ calls \in [Thread -> 0 .. MaxCalls]

Init ==
  /\ m_block = [b \in 0 .. total_block - 1 |-> {}]
  /\ pc = [t \in Thread |-> "idle"] /\ op = [t \in Thread |-> "set"]
  /\ idx = [t \in Thread |-> 0] /\ expected = [t \in Thread |-> FALSE] /\ value = expected
  /\ i = [t \in Thread |-> 0] /\ cur = [t \in Thread |-> {}]
  /\ bit_idx = [t \in Thread |-> 0] 
  /\ ans = [t \in Thread |-> FALSE] /\ found = [t \in Thread |-> INVALID_INDEX]
  /\ did = [t \in Thread |-> Nothing]
  /\ was_set = {} /\ picked = [n \in Idx |-> 0] /\ calls = [t \in Thread |-> 0]

-----------------------------------------------------------------------------
Goto(t, from, to) == pc[t] = from /\ pc' = [pc EXCEPT ![t] = to]

get_data_pos(n) == [block_idx |-> n \div block_bits, data_offset |-> n % block_bits]

get(n) ==
  LET pos == get_data_pos(n) IN pos.data_offset \in m_block[pos.block_idx]

Written(block, o, v) == IF v THEN block \cup {o} ELSE block \ {o}

Call(t, o, n, e, v) ==
  /\ op' = [op EXCEPT ![t] = o] /\ idx' = [idx EXCEPT ![t] = n]
  /\ expected' = [expected EXCEPT ![t] = e] /\ value' = [value EXCEPT ![t] = v]
Count(t) == calls[t] < MaxCalls /\ calls' = [calls EXCEPT ![t] = @ + 1]

(* set, that is set_bit: fetch_or or fetch_and; it returns the old bit.     *)
set(t, n, v) ==
  LET pos == get_data_pos(n) IN
  /\ Goto(t, "idle", "done") /\ Count(t)
  /\ Phases => v /\ \A u \in Thread : op[u] = "set"
  /\ Call(t, "set", n, FALSE, v)
  /\ m_block' = [m_block EXCEPT ![pos.block_idx] = Written(@, pos.data_offset, v)]
  /\ ans' = [ans EXCEPT ![t] = get(n)]
  /\ did' = [did EXCEPT ![t] = IF get(n) = v THEN Nothing ELSE n]
  /\ was_set' = IF Phases THEN was_set \cup {n} ELSE was_set
  /\ UNCHANGED <<i, cur, bit_idx, found, picked>>

compare_set(t, n, e, v) ==
  /\ Goto(t, "idle", "load") /\ Count(t) /\ ~Phases
  /\ Call(t, "compare_set", n, e, v)
  /\ i' = [i EXCEPT ![t] = get_data_pos(n).block_idx]
  /\ ans' = [ans EXCEPT ![t] = TRUE] /\ did' = [did EXCEPT ![t] = Nothing]
  /\ UNCHANGED <<m_block, cur, bit_idx, found, was_set, picked>>

Start(t, o, e, v) ==
  /\ Goto(t, "idle", "load")
  /\ Call(t, o, 0, e, v)
  /\ i' = [i EXCEPT ![t] = 0] /\ bit_idx' = [bit_idx EXCEPT ![t] = block_bits]
  /\ found' = [found EXCEPT ![t] = INVALID_INDEX] /\ did' = [did EXCEPT ![t] = Nothing]
  /\ UNCHANGED <<m_block, cur, ans, was_set, picked>>

change_first_expect(t, e, v) == ~Phases /\ Count(t) /\ Start(t, "change", e, v)
flip(t) == ~Phases /\ Count(t) /\ Start(t, "flip", FALSE, FALSE)

(* bitset_test: once all bits are set, every thread picks until none is left. *)
pick(t) ==
  /\ Phases /\ \A u \in Thread : op[u] = "set" => pc[u] = "idle"
  /\ Start(t, "change", TRUE, FALSE) /\ UNCHANGED calls

-----------------------------------------------------------------------------
(* atomic_fetch_modify: the block is loaded, ...                            *)
load(t) ==
  /\ Goto(t, "load", "exchange")
  /\ cur' = [cur EXCEPT ![t] = m_block[i[t]]]
  /\ UNCHANGED <<m_block, args, i, bit_idx, ans, found, did, was_set, picked, calls>>

(* ... the function is called on it, with its effects on the local          *)
(* variables: the first bit that is as expected, counted from the left, ... *)
countl(block, e) ==
  LET hits == IF e THEN block ELSE Offset \ block IN
  IF hits = {} THEN block_bits ELSE Min(hits)

modify(t) ==
  LET c == cur[t]
      o == get_data_pos(idx[t]).data_offset
  IN
  CASE op[t] = "compare_set" ->
         IF (o \in c) # expected[t] THEN c ELSE Written(c, o, value[t])
    [] op[t] = "change" ->
         IF countl(c, expected[t]) = block_bits THEN c
         ELSE Written(c, countl(c, expected[t]), value[t])
    [] OTHER -> Offset \ c

effects(t) ==
  /\ bit_idx' = IF op[t] = "change" THEN [bit_idx EXCEPT ![t] = countl(cur[t], expected[t])]
                ELSE bit_idx
  /\ ans' = IF op[t] = "compare_set" /\ (get_data_pos(idx[t]).data_offset \in cur[t]) # expected[t]
            THEN [ans EXCEPT ![t] = FALSE] ELSE ans

(* ... and the block is exchanged if it still is what was loaded.           *)
exchange(t) ==
  /\ effects(t)
  /\ \/ /\ Goto(t, "exchange", "next")
        /\ m_block[i[t]] = cur[t]
        /\ m_block' = [m_block EXCEPT ![i[t]] = modify(t)]
        /\ did' = IF modify(t) = cur[t] THEN did
                  ELSE [did EXCEPT ![t] =
                          i[t] * block_bits + IF op[t] = "change" THEN bit_idx'[t]
                                              ELSE get_data_pos(idx[t]).data_offset]
     \/ /\ Goto(t, "exchange", "load")
        /\ m_block[i[t]] # cur[t]
        /\ UNCHANGED <<m_block, did>>
  /\ UNCHANGED <<args, i, cur, found, was_set, picked, calls>>

(* A bit was found, or the last block had none: beyond the size is none.    *)
finish(t) ==
  LET hit == bit_idx[t] < block_bits
      n == i[t] * block_bits + bit_idx[t]
  IN
  /\ pc[t] = "next" /\ op[t] = "change"
  /\ hit \/ i[t] + 1 = total_block
  /\ pc' = [pc EXCEPT ![t] = "done"]
  /\ found' = [found EXCEPT ![t] = IF hit /\ n < BITS_COUNT THEN n ELSE INVALID_INDEX]
  /\ UNCHANGED <<m_block, args, i, cur, bit_idx, ans, did, was_set, picked, calls>>

skip_block(t) ==
  /\ Goto(t, "next", "load")
  /\ op[t] = "change" => bit_idx[t] = block_bits
  /\ op[t] # "compare_set" /\ i[t] + 1 < total_block
  /\ i' = [i EXCEPT ![t] = @ + 1]
  /\ UNCHANGED <<m_block, args, cur, bit_idx, ans, found, did, was_set, picked, calls>>

one_block(t) ==
  /\ Goto(t, "next", "done")
  /\ op[t] = "compare_set" \/ (op[t] = "flip" /\ i[t] + 1 = total_block)
  /\ UNCHANGED <<m_block, args, local, was_set, picked, calls>>

(* A thread of bitset_test that found none left is over.                    *)
Picks(t) == op[t] = "change" /\ expected[t] /\ ~value[t]
done(t) ==
  /\ Goto(t, "done", IF Phases /\ Picks(t) /\ found[t] = INVALID_INDEX THEN "over" ELSE "idle")
  /\ picked' = IF Picks(t) /\ found[t] # INVALID_INDEX
               THEN [picked EXCEPT ![found[t]] = @ + 1] ELSE picked
  /\ cur' = [cur EXCEPT ![t] = {}]
  /\ UNCHANGED <<m_block, args, i, bit_idx, ans, found, did, was_set, calls>>

Next ==
  \E t \in Thread :
    \/ \E n \in Idx, e, v \in BOOLEAN :
         set(t, n, v) \/ compare_set(t, n, e, v) \/ change_first_expect(t, e, v)
    \/ flip(t) \/ pick(t)
    \/ load(t) \/ exchange(t) \/ skip_block(t) \/ finish(t) \/ one_block(t) \/ done(t)

Spec == Init /\ [][Next]_vars

-----------------------------------------------------------------------------
(* bitset_test (main.cpp:181): the bits that were set are picked, each of   *)
(* them once, and none is left.                                             *)
EachPickedOnce ==
  (\A t \in Thread : pc[t] = "over")
    => /\ picked = [n \in Idx |-> IF n \in was_set THEN 1 ELSE 0]
       /\ \A n \in Idx : ~get(n)

(* bitset_test (main.cpp:168): what was picked is off.                      *)
PickedIsOff == Phases => \A n \in Idx : picked[n] > 0 => ~get(n)

(* change_first_expect returns the bit that it changed, and no bit if it    *)
(* changed none, however often another's change made it start over.         *)
ChangeHonest ==
  \A t \in Thread :
    (pc[t] = "done" /\ op[t] = "change" /\ expected[t] # value[t])
      => found[t] = IF did[t] \in Idx THEN did[t] ELSE INVALID_INDEX

(* A compare_set that returns true has changed its bit, so that of two that *)
(* want the same change one does not.                                       *)
CompareTrue ==
  \A t \in Thread :
    (pc[t] = "done" /\ op[t] = "compare_set" /\ ans[t] /\ expected[t] # value[t])
      => did[t] = idx[t]

(* set_bit says in its comment that it returns whether the bit was changed. *)
SetBitReports ==
  \A t \in Thread : (pc[t] = "done" /\ op[t] = "set") => (ans[t] <=> did[t] # Nothing)
===============================================================================
