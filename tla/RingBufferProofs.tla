-------------------------- MODULE RingBufferProofs --------------------------
(***************************************************************************)
(* What the operators of RingBuffer.tla do to a ring buffer, for every     *)
(* BUF_SIZE: the facts the proofs about its users rest on.                 *)
(***************************************************************************)
EXTENDS RingBuffer, TLAPS

\* The next index is a slot again.
LEMMA WrapTyped ==
    ASSUME NEW i \in Slots
    PROVE  Wrap(i + 1) \in Slots /\ (i + 1 < BUF_SIZE => Wrap(i + 1) = i + 1)
  BY BufSizeAssumption DEF Wrap, Slots

\* put stores in the slot at put, advances put, and touches nothing else.
LEMMA RingPutEffect ==
    ASSUME NEW E, NEW rb \in RingBufferOf(E), NEW e \in E
    PROVE  /\ RingPut(rb, e) \in RingBufferOf(E)
           /\ RingPut(rb, e).put = Wrap(rb.put + 1)
           /\ RingPut(rb, e).get = rb.get
           /\ RingPut(rb, e).buffer = [rb.buffer EXCEPT ![rb.put] = e]
<1>1. rb.put \in Slots /\ rb.get \in Slots /\ rb.buffer \in [Slots -> E]
  BY DEF RingBufferOf
<1>2. Wrap(rb.put + 1) \in Slots
  BY <1>1, WrapTyped
<1> QED
  BY <1>1, <1>2 DEF RingPut, RingBufferOf

\* Advancing get leaves put and the elements alone.
LEMMA RingSkipEffect ==
    ASSUME NEW E, NEW rb \in RingBufferOf(E)
    PROVE  /\ RingSkip(rb) \in RingBufferOf(E)
           /\ RingSkip(rb).put = rb.put
           /\ RingSkip(rb).get = Wrap(rb.get + 1)
           /\ RingSkip(rb).buffer = rb.buffer
<1>1. rb.get \in Slots
  BY DEF RingBufferOf
<1>2. Wrap(rb.get + 1) \in Slots
  BY <1>1, WrapTyped
<1> QED
  BY <1>1, <1>2 DEF RingSkip, RingBufferOf
=============================================================================
