------------------------------ MODULE RingIndex ------------------------------
(***************************************************************************)
(* The index arithmetic of the rings of hypster-core/src/channel.rs and of *)
(* their re-implementations in the guests vm1-app and vm2-app.             *)
(*                                                                         *)
(* head and tail are usize counters that only ever grow and wrap at the    *)
(* machine word; a slot number is the counter masked by the capacity.      *)
(***************************************************************************)
EXTENDS Integers

CONSTANTS
  Capacity,   \* CHANNEL_QUEUE_CAPACITY: 16 in the code
  IndexSize   \* the number of values of a usize: 2^64 in the code

\* idx & MASK is idx modulo Capacity because the capacity is a power of two.
\* The arithmetic needs less: the capacity divides the number of index values,
\* and there are at least twice as many index values as slots, so that a full
\* ring and an empty one are told apart.
ASSUME CapacityAssumption  == Capacity \in Nat \ {0}
ASSUME IndexSizeAssumption ==
  /\ IndexSize \in Nat
  /\ IndexSize >= 2 * Capacity
  /\ IndexSize % Capacity = 0

Index == 0 .. IndexSize - 1

\* i.wrapping_add(1)
WrappingAdd1(i) == IF i = IndexSize - 1 THEN 0 ELSE i + 1

\* a.wrapping_sub(b)
WrappingSub(a, b) == IF a >= b THEN a - b ELSE (a + IndexSize) - b

\* The index k places after i, for k up to the capacity.
Offset(i, k) == IF i + k >= IndexSize THEN (i + k) - IndexSize ELSE i + k

\* i & CHANNEL_QUEUE_MASK
Slot(i) == i % Capacity

\* Mutated forms of Full; no specification uses them.
FullOffByOne(t, h) == WrappingSub(t, h) > Capacity
FullUnwrapped(t, h) == t >= h + Capacity

\* tail.wrapping_sub(head) >= CHANNEL_QUEUE_CAPACITY
Full(t, h) == WrappingSub(t, h) >= Capacity
==============================================================================
