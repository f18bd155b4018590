----------------------------- MODULE InputQueue -----------------------------
(* What the raw input ring promises (kernel/include/utamo/input.h): a FIFO   *)
(* of bytes with one slot less than Capacity, which on overflow is emptied   *)
(* and has the next pop report a reset.                                      *)
EXTENDS Naturals, Sequences

CONSTANTS Byte, Capacity

VARIABLES
  queue,    \* the bytes waiting, oldest first
  reset,    \* the next pop reports that bytes were lost
  answer    \* what the last call returned

QueueInit == queue = <<>> /\ reset = FALSE /\ answer = [ok |-> FALSE]

(* All waiting bytes are lost, and the pushed one with them.               *)
QueueDiscard ==
  /\ queue' = <<>>
  /\ reset' = TRUE

QueuePush(b) ==
  IF Len(queue) = Capacity - 1
  THEN QueueDiscard /\ answer' = [ok |-> FALSE]
  ELSE /\ queue' = Append(queue, b)
       /\ reset' = reset
       /\ answer' = [ok |-> TRUE]

QueuePop ==
  /\ reset' = FALSE
  /\ IF queue = <<>>
     THEN queue' = queue /\ answer' = [ok |-> FALSE, reset |-> reset]
     ELSE /\ queue' = Tail(queue)
          /\ answer' = [ok |-> TRUE, reset |-> reset, byte |-> Head(queue)]

QueueNext ==
  \/ \E b \in Byte : QueuePush(b)
  \/ QueuePop
  \/ QueueDiscard /\ answer' = answer

QueueSpec == QueueInit /\ [][QueueNext]_<<queue, reset, answer>>
=============================================================================
