-------------------------- MODULE RingBufferQueue --------------------------
(***************************************************************************)
(* A ring buffer between an interrupt handler that puts and a main loop    *)
(* that gets, as receiver.c uses receiveBuf: the handler's put is never    *)
(* interrupted, the loop's test, read and advance can have any number of   *)
(* puts between them.  Neither side asks for space.                        *)
(***************************************************************************)
EXTENDS RingBuffer, Sequences

CONSTANT Bytes         \* the elements

ASSUME BytesAssumption == Bytes # {}

VARIABLES
    rb,                \* the buffer
    pc,                \* where the reader stands: test, read or advance
    out                \* tempChar, the element got last

vars == <<rb, pc, out>>

-----------------------------------------------------------------------------
\* EXTI4_IRQHandler completes a byte.
Put(e) ==
    /\ rb' = RingPut(rb, e)
    /\ UNCHANGED <<pc, out>>

\* while (hasElement(&receiveBuf) ...)
Test ==
    /\ pc = "test" /\ HasElement(rb)
    /\ pc' = "read"
    /\ UNCHANGED <<rb, out>>

\* get: read the element,
Read ==
    /\ pc = "read"
    /\ pc' = "advance"
    /\ out' = rb.buffer[rb.get]
    /\ UNCHANGED rb

\* then advance the index.
Advance ==
    /\ pc = "advance"
    /\ pc' = "test"
    /\ rb' = RingSkip(rb)
    /\ UNCHANGED out

Init == \E e \in Bytes : rb = EmptyRing(e) /\ pc = "test" /\ out = e

Next == Test \/ Read \/ Advance \/ \E e \in Bytes : Put(e)

Spec == Init /\ [][Next]_vars

-----------------------------------------------------------------------------
(* Properties. *)

\* Both indices stay inside the buffer, also between the steps of get.
TypeOK ==
    /\ rb \in RingBufferOf(Bytes)
    /\ pc \in {"test", "read", "advance"}
    /\ out \in Bytes

\* The i-th slot from b on, and how many slots there are from b to p.  Equal
\* indices mean an empty buffer, or to a committed reader a full one.
SlotOf(b, i) == IF b + i < BUF_SIZE THEN b + i ELSE b + i - BUF_SIZE
Distance(b, p, committed) ==
    IF b < p \/ (b = p /\ ~committed) THEN p - b ELSE p - b + BUF_SIZE
ContentsOf(r, b, n) == [i \in 1 .. n |-> r.buffer[SlotOf(b, i - 1)]]

\* What the reader will get: from the next slot to read up to put.  A reader
\* that has seen an element goes on even if the buffer now looks empty.
Base == IF pc = "advance" THEN Wrap(rb.get + 1) ELSE rb.get
Length == Distance(Base, rb.put, pc = "read")
Contents == ContentsOf(rb, Base, Length)

\* A get interrupted by puts still takes the oldest element, once; elements are
\* lost only when the last slot is filled, and then the loss is the whole buffer.
Queue == INSTANCE LossyQueue WITH queue <- Contents

ImplementsLossyQueue == Queue!Spec
=============================================================================
