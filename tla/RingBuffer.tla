----------------------------- MODULE RingBuffer -----------------------------
(***************************************************************************)
(* The ring buffer of src/ringbuffer.c as operators on a value             *)
(*                                                                         *)
(*   rb = [put |-> i, get |-> j, buffer |-> function]                      *)
(*                                                                         *)
(* It keeps two indices and no element count, and put checks nothing: the  *)
(* buffer is empty exactly when put = get, so the put that fills the last  *)
(* free slot makes a full buffer look empty.  The modules that own a       *)
(* buffer (transmitter.c:16, receiver.c:17) use these operators.           *)
(***************************************************************************)
EXTENDS Integers

CONSTANT BUF_SIZE      \* number of slots, 1028 in ringbuffer.h

ASSUME BufSizeAssumption == BUF_SIZE \in Nat /\ BUF_SIZE > 1

Slots == 0 .. BUF_SIZE - 1

\* Every ring buffer whose slots hold members of E.
RingBufferOf(E) == [put : Slots, get : Slots, buffer : [Slots -> E]]

\* The statically initialised buffer {0, 0}: all indices and slots zero.
EmptyRing(zero) == [put |-> 0, get |-> 0, buffer |-> [i \in Slots |-> zero]]

\* (Fault: wraps one slot late.)
WrapFault(i) == IF i > BUF_SIZE THEN 0 ELSE i

\* An index that reached BUF_SIZE goes back to 0.
Wrap(i) == IF i = BUF_SIZE THEN 0 ELSE i

\* (Fault: advances before it stores.)
RingPutFault(rb, element) ==
    [rb EXCEPT !.buffer[Wrap(rb.put + 1)] = element, !.put = Wrap(rb.put + 1)]

\* put: store the element, advance put, wrap.  There is no check for space.
RingPut(rb, element) ==
    [rb EXCEPT !.buffer[rb.put] = element, !.put = Wrap(rb.put + 1)]

\* get, once it has read the element: advance get, wrap.
RingSkip(rb) == [rb EXCEPT !.get = Wrap(rb.get + 1)]

HasElement(rb) == rb.put # rb.get
=============================================================================
