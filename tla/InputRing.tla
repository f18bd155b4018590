------------------------------ MODULE InputRing ------------------------------
(* The raw input ring of kernel/input/input.c: a byte array with head and   *)
(* tail indices.  IRQ1 pushes and the shell pops, both with IF=0, so every  *)
(* call is one step.                                                        *)
EXTENDS Integers, Sequences

CONSTANTS
  Byte,       \* the bytes a keyboard controller can deliver
  Capacity    \* UTAMO_INPUT_RING_CAPACITY

ASSUME RingAssumption == Capacity \in Nat \ {0} /\ 0 \in Byte

VARIABLES
  bytes, head, tail, reset_pending,
  answer      \* what the last call returned

ring_vars == <<bytes, head, tail, reset_pending, answer>>

input_ring_init ==
  /\ bytes = [i \in 0..(Capacity - 1) |-> 0]
  /\ head = 0
  /\ tail = 0
  /\ reset_pending = FALSE
  /\ answer = [ok |-> FALSE]

input_ring_discard ==
  /\ tail' = head
  /\ reset_pending' = TRUE
  /\ UNCHANGED <<bytes, head>>

After(i) == (i + 1) % Capacity

(* Mutant: the slot that stays empty is used too.                          *)
input_ring_push_Fills(b) ==
  /\ bytes' = [bytes EXCEPT ![head] = b]
  /\ head' = After(head)
  /\ answer' = [ok |-> TRUE]
  /\ UNCHANGED <<tail, reset_pending>>

input_ring_push(b) ==
  IF After(head) = tail
  THEN input_ring_discard /\ answer' = [ok |-> FALSE]
  ELSE /\ bytes' = [bytes EXCEPT ![head] = b]
       /\ head' = After(head)
       /\ answer' = [ok |-> TRUE]
       /\ UNCHANGED <<tail, reset_pending>>

input_ring_pop ==
  /\ reset_pending' = FALSE
  /\ IF head = tail
     THEN tail' = tail /\ answer' = [ok |-> FALSE, reset |-> reset_pending]
     ELSE /\ tail' = After(tail)
          /\ answer' = [ok |-> TRUE, reset |-> reset_pending, byte |-> bytes[tail]]
  /\ UNCHANGED <<bytes, head>>

input_ring_has_pending == head # tail \/ reset_pending

RingNext ==
  \/ \E b \in Byte : input_ring_push(b)
  \/ input_ring_pop
  \/ input_ring_discard /\ answer' = answer

RingSpec == input_ring_init /\ [][RingNext]_ring_vars

-----------------------------------------------------------------------------
RingTypeOK ==
  /\ bytes \in [0..(Capacity - 1) -> Byte]
  /\ head \in 0..(Capacity - 1)
  /\ tail \in 0..(Capacity - 1)
  /\ reset_pending \in BOOLEAN

(* The waiting bytes, from tail up to head around the end of the array.    *)
Count == (head - tail + Capacity) % Capacity
Contents == [i \in 1..Count |-> bytes[(tail + i - 1) % Capacity]]

Queue == INSTANCE InputQueue WITH queue <- Contents, reset <- reset_pending

(* The ring of input.c is the bounded FIFO with reset that input.h          *)
(* promises: every call changes the waiting bytes and answers as the        *)
(* abstract queue does, however often the indices have wrapped.             *)
RingImplementsQueue == Queue!QueueSpec
=============================================================================
