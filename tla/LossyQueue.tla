----------------------------- MODULE LossyQueue -----------------------------
(***************************************************************************)
(* What the ring buffer promises a reader when an interrupt handler fills  *)
(* it without asking for space: a queue in order, of which one fewer than  *)
(* BUF_SIZE elements can wait.  An element that arrives then may cost all  *)
(* the others.  Only that is ever lost, and nothing is invented, repeated  *)
(* or reordered.                                                           *)
(***************************************************************************)
EXTENDS Integers, Sequences

CONSTANTS BUF_SIZE, Bytes

VARIABLES
    queue,        \* what the reader will get, oldest first
    out           \* the element got last

Init == queue = <<>> /\ out \in Bytes

Put(e) ==
    /\ Len(queue) < BUF_SIZE - 1
    /\ queue' = Append(queue, e)
    /\ out' = out

\* The last slot is filled: the buffer looks empty, unless the reader has
\* already seen that there is an element; one more then overtakes the reader.
Overrun(e) ==
    /\ Len(queue) >= BUF_SIZE - 1
    /\ \/ queue' = <<>>
       \/ Len(queue) = BUF_SIZE - 1 /\ queue' = Append(queue, e)
       \/ Len(queue) = BUF_SIZE /\ queue' = <<e>>
    /\ out' = out

Get ==
    /\ queue # <<>>
    /\ out' = Head(queue)
    /\ queue' = Tail(queue)

Next == Get \/ \E e \in Bytes : Put(e) \/ Overrun(e)

Spec == Init /\ [][Next]_<<queue, out>>
=============================================================================
