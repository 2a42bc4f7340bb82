----------------------- MODULE RingBufferQueueProofs -----------------------
(***************************************************************************)
(* The ring buffer between an interrupt handler and the main loop is the   *)
(* queue of LossyQueue.tla, for every number of slots.                     *)
(*                                                                         *)
(* The invariant is the type invariant: indices are slots.  The proof is   *)
(* in the refinement mapping, which counts from the slot the reader takes  *)
(* next and reads equal indices as "full" once the reader is committed.    *)
(***************************************************************************)
EXTENDS RingBufferQueue, RingBufferProofs, SequenceTheorems

-----------------------------------------------------------------------------
(* Arithmetic of slots. *)

LEMMA SlotFacts ==
    ASSUME NEW b \in Slots
    PROVE  /\ \A i \in 0 .. BUF_SIZE - 1 : SlotOf(b, i) \in Slots
           /\ SlotOf(b, 0) = b
           /\ \A i, j \in 0 .. BUF_SIZE - 1 : SlotOf(b, i) = SlotOf(b, j) => i = j
           /\ \A i \in 0 .. BUF_SIZE - 2 : SlotOf(Wrap(b + 1), i) = SlotOf(b, i + 1)
  BY BufSizeAssumption DEF SlotOf, Slots, Wrap

\* The distance counts the elements, and leads to put.
LEMMA DistanceFacts ==
    ASSUME NEW b \in Slots, NEW p \in Slots, NEW f \in BOOLEAN
    PROVE  /\ Distance(b, p, f) \in 0 .. BUF_SIZE
           /\ f => Distance(b, p, f) > 0
           /\ ~f => Distance(b, p, f) < BUF_SIZE
           /\ Distance(b, p, f) < BUF_SIZE => SlotOf(b, Distance(b, p, f)) = p
           /\ Distance(b, p, f) = BUF_SIZE => p = b
  BY BufSizeAssumption DEF Distance, SlotOf, Slots

\* A put adds one; the last slot makes the buffer full or, unless the reader is
\* committed, empty; and one put more leaves a committed reader that element.
LEMMA DistanceAfterPut ==
    ASSUME NEW b \in Slots, NEW p \in Slots, NEW f \in BOOLEAN,
           NEW n \in Int, n = Distance(b, p, f),
           NEW m \in Int, m = Distance(b, Wrap(p + 1), f)
    PROVE  /\ n < BUF_SIZE - 1 => m = n + 1
           /\ n = BUF_SIZE - 1 /\ f => m = BUF_SIZE
           /\ n = BUF_SIZE - 1 /\ ~f => m = 0
           /\ n = BUF_SIZE => m = 1
  BY BufSizeAssumption DEF Distance, Slots, Wrap

\* Past the element that was read there is one less.
LEMMA DistanceAfterRead ==
    ASSUME NEW b \in Slots, NEW p \in Slots
    PROVE  Distance(Wrap(b + 1), p, FALSE) = Distance(b, p, TRUE) - 1
  BY BufSizeAssumption DEF Distance, Slots, Wrap

LEMMA ContentsTyped ==
    ASSUME NEW r \in RingBufferOf(Bytes), NEW b \in Slots, NEW n \in 0 .. BUF_SIZE
    PROVE  /\ ContentsOf(r, b, n) \in Seq(Bytes)
           /\ Len(ContentsOf(r, b, n)) = n
           /\ \A i \in 1 .. n : ContentsOf(r, b, n)[i] = r.buffer[SlotOf(b, i - 1)]
<1>1. n \in Nat /\ r.buffer \in [Slots -> Bytes]
  BY BufSizeAssumption DEF RingBufferOf
<1>2. ASSUME NEW i \in 1 .. n
      PROVE  SlotOf(b, i - 1) \in Slots
  <2>1. i - 1 \in 0 .. BUF_SIZE - 1
    BY BufSizeAssumption
  <2> QED
    BY <2>1, SlotFacts
<1>3. \A i \in 1 .. n : r.buffer[SlotOf(b, i - 1)] \in Bytes
  BY <1>1, <1>2
<1> QED
  BY <1>1, <1>3 DEF ContentsOf

-----------------------------------------------------------------------------
(* Indices stay inside the buffer. *)

LEMMA TypedInit == Init => TypeOK
<1> SUFFICES ASSUME Init PROVE TypeOK
  OBVIOUS
<1>1. 0 \in Slots
  BY BufSizeAssumption DEF Slots
<1>2. PICK e \in Bytes : rb = EmptyRing(e) /\ pc = "test" /\ out = e
  BY DEF Init
<1> QED
  BY <1>1, <1>2 DEF TypeOK, EmptyRing, RingBufferOf

LEMMA TypedStep == TypeOK /\ [Next]_vars => TypeOK'
<1> SUFFICES ASSUME TypeOK, [Next]_vars PROVE TypeOK'
  OBVIOUS
<1>1. ASSUME NEW e \in Bytes, Put(e) PROVE TypeOK'
  BY <1>1, RingPutEffect DEF Put, TypeOK
<1>2. CASE Test
  BY <1>2 DEF Test, TypeOK
<1>3. CASE Read
  BY <1>3 DEF Read, TypeOK, RingBufferOf
<1>4. CASE Advance
  BY <1>4, RingSkipEffect DEF Advance, TypeOK
<1>5. CASE UNCHANGED vars
  BY <1>5 DEF vars, TypeOK
<1> QED
  BY <1>1, <1>2, <1>3, <1>4, <1>5 DEF Next

\* Both indices are slots at every moment.
THEOREM TypeCorrect == Spec => []TypeOK
  BY TypedInit, TypedStep, PTL DEF Spec

-----------------------------------------------------------------------------
(* Every step is one of the queue. *)

LEMMA BaseTyped ==
    ASSUME TypeOK
    PROVE  Base \in Slots /\ rb.put \in Slots /\ rb.get \in Slots
  BY WrapTyped DEF TypeOK, RingBufferOf, Base

LEMMA PutRefines ==
    ASSUME TypeOK, TypeOK', NEW e \in Bytes, Put(e)
    PROVE  Queue!Put(e) \/ Queue!Overrun(e)
<1> DEFINE f == (pc = "read")
           n == Distance(Base, rb.put, f)
           m == Distance(Base, rb'.put, f)
<1>1. Base \in Slots /\ rb.put \in Slots /\ f \in BOOLEAN
  BY BaseTyped
<1>2. /\ rb' \in RingBufferOf(Bytes) /\ rb \in RingBufferOf(Bytes)
      /\ rb'.put = Wrap(rb.put + 1) /\ rb'.get = rb.get
      /\ rb'.buffer = [rb.buffer EXCEPT ![rb.put] = e]
  BY RingPutEffect DEF Put, TypeOK
<1>3. out' = out /\ Base' = Base /\ Contents' = ContentsOf(rb', Base, m)
      /\ Contents = ContentsOf(rb, Base, n)
  BY <1>2 DEF Put, Base, Contents, Length
<1> HIDE DEF f
<1>4. /\ n \in 0 .. BUF_SIZE /\ m \in 0 .. BUF_SIZE
      /\ n < BUF_SIZE => SlotOf(Base, n) = rb.put
      /\ n = BUF_SIZE => rb.put = Base
  BY <1>1, <1>2, DistanceFacts, WrapTyped
<1>5. /\ n < BUF_SIZE - 1 => m = n + 1
      /\ n = BUF_SIZE - 1 /\ f => m = BUF_SIZE
      /\ n = BUF_SIZE - 1 /\ ~f => m = 0
      /\ n = BUF_SIZE => m = 1
  <2>1. m = Distance(Base, Wrap(rb.put + 1), f) /\ n \in Int /\ m \in Int
    BY <1>2, <1>4
  <2>2. n = Distance(Base, rb.put, f)
    OBVIOUS
  <2> HIDE DEF n, m
  <2> QED
    BY <1>1, <2>1, <2>2, DistanceAfterPut
<1>6. /\ Contents \in Seq(Bytes) /\ Len(Contents) = n
      /\ \A i \in 1 .. n : Contents[i] = rb.buffer[SlotOf(Base, i - 1)]
  BY <1>1, <1>2, <1>3, <1>4, ContentsTyped
<1> HIDE DEF n, m
<1>7. /\ Contents' \in Seq(Bytes) /\ Len(Contents') = m
      /\ \A i \in 1 .. m : Contents'[i] = rb'.buffer[SlotOf(Base, i - 1)]
  <2>1. /\ ContentsOf(rb', Base, m) \in Seq(Bytes)
        /\ Len(ContentsOf(rb', Base, m)) = m
        /\ \A i \in 1 .. m :
              ContentsOf(rb', Base, m)[i] = rb'.buffer[SlotOf(Base, i - 1)]
    BY <1>1, <1>2, <1>4, ContentsTyped
  <2> QED
    BY <1>3, <2>1
<1>8. ASSUME m = n + 1, n < BUF_SIZE
      PROVE  Contents' = Append(Contents, e)
  <2>1. /\ Append(Contents, e) \in Seq(Bytes) /\ Len(Append(Contents, e)) = m
        /\ \A i \in 1 .. n : Append(Contents, e)[i] = Contents[i]
        /\ Append(Contents, e)[n + 1] = e
    BY <1>6, <1>8, AppendProperties
  <2>2. ASSUME NEW i \in 1 .. m
        PROVE  Contents'[i] = Append(Contents, e)[i]
    <3>1. CASE i = n + 1
      <4>1. SlotOf(Base, i - 1) = rb.put
        BY <1>4, <1>8, <3>1
      <4> QED
        BY <1>1, <1>2, <1>7, <2>1, <3>1, <4>1 DEF RingBufferOf
    <3>2. CASE i \in 1 .. n
      <4>1. SlotOf(Base, i - 1) # rb.put /\ SlotOf(Base, i - 1) \in Slots
        <5>1. i - 1 \in 0 .. BUF_SIZE - 1 /\ n \in 0 .. BUF_SIZE - 1 /\ i - 1 # n
          BY <1>4, <1>8, <3>2, BufSizeAssumption
        <5> QED
          BY <1>1, <1>4, <1>8, <5>1, SlotFacts
      <4>2. rb'.buffer[SlotOf(Base, i - 1)] = rb.buffer[SlotOf(Base, i - 1)]
        BY <1>2, <4>1 DEF RingBufferOf
      <4> QED
        BY <1>6, <1>7, <2>1, <3>2, <4>2
    <3>3. i = n + 1 \/ i \in 1 .. n
      BY <1>4, <1>8, BufSizeAssumption
    <3> QED
      BY <3>1, <3>2, <3>3
  <2> QED
    BY <1>7, <2>1, <2>2, SeqEqual
<1>9. CASE n < BUF_SIZE - 1
  <2>1. Contents' = Append(Contents, e)
    BY <1>4, <1>5, <1>8, <1>9, BufSizeAssumption
  <2> QED
    BY <1>3, <1>6, <1>9, <2>1 DEF Queue!Put
<1>10. CASE n = BUF_SIZE - 1 /\ f
  <2>1. Contents' = Append(Contents, e)
    BY <1>4, <1>5, <1>8, <1>10, BufSizeAssumption
  <2> QED
    BY <1>3, <1>6, <1>10, <2>1, BufSizeAssumption DEF Queue!Overrun
<1>11. CASE n = BUF_SIZE - 1 /\ ~f
  <2>1. Contents' = <<>>
    BY <1>5, <1>7, <1>11, EmptySeq
  <2> QED
    BY <1>3, <1>6, <1>11, <2>1, BufSizeAssumption DEF Queue!Overrun
<1>12. CASE n = BUF_SIZE
  <2>1. m = 1 /\ Contents'[1] = e
    BY <1>1, <1>2, <1>4, <1>5, <1>7, <1>12, SlotFacts DEF RingBufferOf
  <2>2. Contents' = <<e>>
    BY <1>7, <2>1, SeqEqual
  <2> QED
    BY <1>3, <1>6, <1>12, <2>2, BufSizeAssumption DEF Queue!Overrun
<1> QED
  BY <1>4, <1>9, <1>10, <1>11, <1>12, BufSizeAssumption

LEMMA ReadRefines ==
    ASSUME TypeOK, TypeOK', Read
    PROVE  Queue!Get
<1> DEFINE n == Distance(rb.get, rb.put, TRUE)
<1>1. /\ rb.get \in Slots /\ rb.put \in Slots /\ Wrap(rb.get + 1) \in Slots
      /\ rb \in RingBufferOf(Bytes) /\ rb' = rb /\ out' = rb.buffer[rb.get]
  BY BaseTyped, WrapTyped DEF Read, TypeOK
<1>2. n \in 1 .. BUF_SIZE
  <2>1. n \in 0 .. BUF_SIZE
    BY <1>1, DistanceFacts
  <2>2. n > 0
    BY <1>1, BufSizeAssumption DEF Distance, Slots
  <2> HIDE DEF n
  <2> QED
    BY <2>1, <2>2, BufSizeAssumption
<1>3. /\ Contents = ContentsOf(rb, rb.get, n)
      /\ Contents' = ContentsOf(rb, Wrap(rb.get + 1), n - 1)
  BY <1>1, DistanceAfterRead DEF Read, Contents, Length, Base
<1> HIDE DEF n
<1>4. /\ Contents \in Seq(Bytes) /\ Len(Contents) = n
      /\ \A i \in 1 .. n : Contents[i] = rb.buffer[SlotOf(rb.get, i - 1)]
  BY <1>1, <1>2, <1>3, ContentsTyped
<1>5. /\ Contents' \in Seq(Bytes) /\ Len(Contents') = n - 1
      /\ \A i \in 1 .. n - 1 :
            Contents'[i] = rb.buffer[SlotOf(Wrap(rb.get + 1), i - 1)]
  <2>1. n - 1 \in 0 .. BUF_SIZE
    BY <1>2, BufSizeAssumption
  <2> QED
    BY <1>1, <1>3, <2>1, ContentsTyped
<1>6. Contents # <<>>
  BY <1>2, <1>4, EmptySeq
<1>7. Head(Contents) = rb.buffer[rb.get]
  <2>1. Head(Contents) = Contents[1] /\ SlotOf(rb.get, 0) = rb.get
    BY <1>1, <1>4, <1>6, SlotFacts
  <2> QED
    BY <1>2, <1>4, <2>1
<1>8. Contents' = Tail(Contents)
  <2>1. /\ Tail(Contents) \in Seq(Bytes) /\ Len(Tail(Contents)) = n - 1
        /\ \A i \in 1 .. n - 1 : Tail(Contents)[i] = Contents[i + 1]
    BY <1>4, <1>6, HeadTailProperties
  <2>2. ASSUME NEW i \in 1 .. n - 1
        PROVE  Contents'[i] = Tail(Contents)[i]
    <3>1. SlotOf(Wrap(rb.get + 1), i - 1) = SlotOf(rb.get, i)
      <4>1. i - 1 \in 0 .. BUF_SIZE - 2 /\ (i - 1) + 1 = i
        BY <1>2, BufSizeAssumption
      <4> QED
        BY <1>1, <4>1, SlotFacts
    <3>2. i + 1 \in 1 .. n /\ (i + 1) - 1 = i
      BY <1>2
    <3>3. Contents[i + 1] = rb.buffer[SlotOf(rb.get, i)]
      BY <1>4, <3>2
    <3> QED
      BY <1>5, <2>1, <3>1, <3>3
  <2> QED
    BY <1>5, <2>1, <2>2, SeqEqual
<1> QED
  BY <1>1, <1>6, <1>7, <1>8 DEF Queue!Get

\* Testing finds what is there, and advancing only catches up with the mapping.
LEMMA TestRefines ==
    ASSUME TypeOK, Test
    PROVE  Contents' = Contents /\ out' = out
<1>1. Base' = Base /\ Base = rb.get /\ rb' = rb /\ rb.put # rb.get
  BY DEF Test, HasElement, Base
<1>2. Length' = Length
  BY <1>1 DEF Test, Length, Distance
<1> QED
  BY <1>1, <1>2 DEF Test, Contents, ContentsOf

LEMMA AdvanceRefines ==
    ASSUME TypeOK, Advance
    PROVE  Contents' = Contents /\ out' = out
<1>1. rb'.put = rb.put /\ rb'.get = Wrap(rb.get + 1) /\ rb'.buffer = rb.buffer
  BY RingSkipEffect DEF Advance, TypeOK
<1>2. Base' = Base /\ Length' = Length
  BY <1>1 DEF Advance, Base, Length
<1> QED
  BY <1>1, <1>2 DEF Advance, Contents, ContentsOf

\* A reader that is interrupted anywhere gets every element once and in order,
\* unless a put found BUF_SIZE - 1 elements waiting.
THEOREM QueueImplementsLossyQueue == Spec => ImplementsLossyQueue
<1>1. Init => Queue!Init
  <2> SUFFICES ASSUME Init PROVE Queue!Init
    OBVIOUS
  <2>1. TypeOK
    BY TypedInit
  <2>2. PICK e \in Bytes : rb = EmptyRing(e) /\ pc = "test" /\ out = e
    BY DEF Init
  <2>3. Base = 0 /\ rb.put = 0 /\ Length = 0
    BY <2>2 DEF EmptyRing, Base, Length, Distance
  <2>4. 0 \in Slots /\ 0 \in 0 .. BUF_SIZE
    BY BufSizeAssumption DEF Slots
  <2>5. Contents \in Seq(Bytes) /\ Len(Contents) = 0
    BY <2>1, <2>3, <2>4, ContentsTyped DEF Contents, TypeOK
  <2> QED
    BY <2>2, <2>5, EmptySeq DEF Queue!Init
<1>2. ASSUME TypeOK, TypeOK', [Next]_vars
      PROVE  [Queue!Next]_<<Contents, out>>
  <2>1. ASSUME NEW e \in Bytes, Put(e) PROVE Queue!Next
    BY <1>2, <2>1, PutRefines DEF Queue!Next
  <2>2. CASE Read
    BY <1>2, <2>2, ReadRefines DEF Queue!Next
  <2>3. CASE Test
    BY <1>2, <2>3, TestRefines
  <2>4. CASE Advance
    BY <1>2, <2>4, AdvanceRefines
  <2>5. CASE UNCHANGED vars
    BY <2>5 DEF vars, Contents, ContentsOf, Base, Length
  <2> QED
    BY <1>2, <2>1, <2>2, <2>3, <2>4, <2>5 DEF Next
<1> QED
  BY <1>1, <1>2, TypeCorrect, PTL DEF Spec, ImplementsLossyQueue, Queue!Spec
=============================================================================
