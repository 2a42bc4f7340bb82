--------------------------- MODULE ReceiverProofs ---------------------------
(***************************************************************************)
(* Theorems about the receiver, for every size of a byte, of a message and *)
(* of receiveBuf, and for every set of frames: its type invariant, and     *)
(* that a frame that found the receiver ready is decoded bit by bit and    *)
(* byte by byte and is not taken out before its end.                       *)
(***************************************************************************)
EXTENDS Receiver, RingBufferProofs, SequenceTheorems

\* The level of the line is that of the half-bit of the frame sent last.
FrameOnLine ==
    phase = "frame" =>
        frame \in Frames /\ pos >= 1 /\ line = LevelAt(frame, pos - 1)

\* A frame that is received well keeps the monitor busy, and with it the main
\* routine out of the reset, of the drop and of the message.
UnderWay ==
    intact =>
        /\ phase = "frame"
        /\ monitorState = "BUSY" /\ currentlyReceiving
        /\ pc \notin Resetting \cup Dropping

\* Where the frame is, and what sample and the timers have to be there: in the
\* second half of a bit that was sampled, in the first half of the next one,
\* or at the edge in its middle, not served yet.
SecondHalf ==
    /\ pos = 2 * Len(samples) /\ ~extiPend
    /\ ~sample /\ tim4 = [cen |-> TRUE, cnt |-> 0] /\ stk.cnt = 0

FirstHalf ==
    /\ pos = 2 * Len(samples) + 1
    /\ extiPend => ~sample
    /\ ~extiPend /\ ~sample => Tim4Due
    /\ stk.cnt <= 1

MiddleEdge == pos = 2 * Len(samples) + 2 /\ extiPend /\ sample

InStep == intact => Len(samples) >= 1 /\ (SecondHalf \/ FirstHalf \/ MiddleEdge)

\* What was sampled is the beginning of the frame,
Prefix ==
    /\ ~intact => samples = <<>>
    /\ intact => \A i \in 1 .. Len(samples) : samples[i] = frame[i]

\* and its last bits are in dataByte.
LastBits ==
    intact =>
        /\ currBit = Len(samples) % BITS
        /\ \A i \in 1 .. currBit : dataByte[i] = samples[Len(samples) - currBit + i]

IInv ==
    /\ TypeOK
    /\ FrameOnLine /\ UnderWay /\ InStep /\ Prefix /\ LastBits

-----------------------------------------------------------------------------
(* Remainders, and types. *)

\* Division with remainder has one result.
LEMMA DivisionUnique ==
    ASSUME NEW B \in Nat, B > 1, NEW q \in Int, NEW p \in Int,
           NEW r \in 0 .. B - 1, NEW s \in 0 .. B - 1,
           B * q + r = B * p + s
    PROVE  q = p /\ r = s
<1>1. B * (q - p) = s - r
  OBVIOUS
<1>2. CASE q > p
  <2>1. B * (q - p) >= B
    BY <1>2
  <2> QED
    BY <1>1, <2>1
<1>3. CASE q < p
  <2>1. B * (p - q) >= B
    BY <1>3
  <2>2. B * (p - q) = r - s
    OBVIOUS
  <2> QED
    BY <2>1, <2>2
<1> QED
  BY <1>1, <1>2, <1>3

\* What one more does to a remainder.
LEMMA NextRemainder ==
    ASSUME NEW B \in Nat, B > 1, NEW n \in Nat
    PROVE  (n + 1) % B = IF (n % B) + 1 = B THEN 0 ELSE (n % B) + 1
<1> DEFINE q == n \div B
           r == n % B
           p == (n + 1) \div B
           s == (n + 1) % B
<1>1. q \in Int /\ p \in Int /\ r \in 0 .. B - 1 /\ s \in 0 .. B - 1
  OBVIOUS
<1>2. n = B * q + r /\ n + 1 = B * p + s
  OBVIOUS
<1>3. CASE r + 1 = B
  <2> DEFINE t == q + 1
             z == 0
  <2>1. B * t + z = B * p + s
    BY <1>1, <1>2, <1>3
  <2>2. z \in 0 .. B - 1 /\ t \in Int
    BY <1>1
  <2> HIDE DEF q, r, p, s, t, z
  <2>3. z = s
    BY <2>1, <2>2, <1>1, DivisionUnique
  <2>4. s = 0
    BY <2>3 DEF z
  <2> QED
    BY <2>4, <1>3 DEF r, s
<1>4. CASE r + 1 # B
  <2>1. B * q + (r + 1) = B * p + s
    BY <1>1, <1>2
  <2>2. r + 1 \in 0 .. B - 1
    BY <1>1, <1>4
  <2> HIDE DEF q, r, p, s
  <2>3. r + 1 = s
    BY <2>1, <2>2, <1>1, DivisionUnique
  <2> QED
    BY <2>3, <1>4 DEF r, s
<1> QED
  BY <1>3, <1>4

LEMMA RemainderBelow ==
    ASSUME NEW B \in Nat, B > 1, NEW n \in Nat
    PROVE  n % B <= n
<1> DEFINE q == n \div B
           r == n % B
<1>1. q \in Nat /\ r \in Nat /\ n = B * q + r
  OBVIOUS
<1>2. B * q >= 0
  BY <1>1
<1> QED
  BY <1>1, <1>2

LEMMA RingTyped ==
    ASSUME receiveBuf \in RingBufferOf({"byte"})
    PROVE  /\ RingPut(receiveBuf, "byte") \in RingBufferOf({"byte"})
           /\ RingSkip(receiveBuf) \in RingBufferOf({"byte"})
           /\ [receiveBuf EXCEPT !.get = 0] \in RingBufferOf({"byte"})
           /\ [receiveBuf EXCEPT !.put = 0] \in RingBufferOf({"byte"})
<1>1. 0 \in Slots
  BY BufSizeAssumption DEF Slots
<1> QED
  BY <1>1, RingPutEffect, RingSkipEffect DEF RingBufferOf

\* The steps of the main routine keep the types.
LEMMA MainTyped ==
    ASSUME TypeOK, TestIdle \/ MainStep
    PROVE  TypeOK'
<1> USE DEF TypeOK, GoTo, Slow, Resetting, Dropping, recVars, monVars, envVars, ghosts
<1>1. CASE TestIdle
  BY <1>1 DEF TestIdle
<1>2. CASE ResetByte
  <2>1. dataByte' \in Bytes
    BY <1>2 DEF ResetByte, Bytes
  <2> QED
    BY <1>2, <2>1 DEF ResetByte
<1>3. CASE ResetBit
  BY <1>3, BitsAssumption DEF ResetBit
<1>8. CASE ResetReceiving \/ ResetSample
  BY <1>8 DEF ResetReceiving, ResetSample
<1>9. CASE TestCollision \/ LeaveMessage
  BY <1>9 DEF TestCollision, LeaveMessage
<1>10. CASE EndOfMessage \/ PrintMessage
  BY <1>10 DEF EndOfMessage, PrintMessage
<1>4. CASE CeaseReceiving
  BY <1>4 DEF CeaseReceiving, Timer
<1>5. CASE ClearGet \/ ClearPut
  BY <1>5, RingTyped DEF ClearGet, ClearPut
<1>6. CASE TestMessage
  <2>1. /\ pc' \in {"drain", "top"} /\ msgCur' \in {0, msgCur}
        /\ late' \in {FALSE, late}
    BY <1>6, Zenon DEF TestMessage
  <2>2. 0 \in 0 .. MSG_SIZE
    BY MsgSizeAssumption
  <2> QED
    BY <1>6, <2>1, <2>2 DEF TestMessage
<1>7. CASE TakeByte
  BY <1>7, RingTyped, MsgSizeAssumption DEF TakeByte
<1> QED
  BY <1>1, <1>2, <1>3, <1>4, <1>5, <1>6, <1>7, <1>8, <1>9, <1>10 DEF MainStep

\* History keeps its type at every edge.
LEMMA EdgeOfFrameTyped ==
    ASSUME TypeOK, NEW sampled \in Seq({0, 1}), EdgeOfFrame(sampled)
    PROVE  intact' \in BOOLEAN /\ samples' \in Seq({0, 1})
<1>1. intact' \in BOOLEAN
  BY Zenon DEF TypeOK, EdgeOfFrame
<1>2. samples \o sampled \in Seq({0, 1}) /\ <<>> \in Seq({0, 1})
  BY DEF TypeOK
<1> QED
  BY <1>1, <1>2 DEF EdgeOfFrame

\* So do the handlers.
LEMMA HandlersTyped ==
    ASSUME TypeOK, Handlers
    PROVE  TypeOK'
<1>1. CASE EdgeInBit
  <2>1. currBit' \in 0 .. BITS - 1 /\ receiveBuf' \in RingBufferOf({"byte"})
    BY <1>1, RingTyped, BitsAssumption DEF TypeOK, EdgeInBit, CountBit
  <2>2. dataByte' \in Bytes
    BY <1>1, BitsAssumption DEF TypeOK, EdgeInBit, WithBit, Bytes
  <2>3. tim4' \in Timer /\ stk' \in Timer
    <3>1. tim4' = [cen |-> TRUE, cnt |-> 0]
      BY <1>1 DEF TypeOK, EdgeInBit, StartTim4, ClearCnt, Timer
    <3>2. stk' = [cen |-> TRUE, cnt |-> 0]
      BY <1>1 DEF EdgeInBit, EdgeIsMonitored
    <3> QED
      BY <3>1, <3>2 DEF Timer
  <2>4. intact' \in BOOLEAN /\ samples' \in Seq({0, 1})
    <3>1. <<line>> \in Seq({0, 1})
      BY DEF TypeOK
    <3> QED
      BY <1>1, <3>1, EdgeOfFrameTyped DEF EdgeInBit
  <2> QED
    BY <1>1, <2>1, <2>2, <2>3, <2>4
       DEF TypeOK, EdgeInBit, EdgeIsMonitored, mainVars, envVars
<1>2. CASE EdgeOfBit
  <2>1. tim4' \in Timer /\ stk' \in Timer
    <3>1. tim4' \in Timer
      BY <1>2 DEF TypeOK, EdgeOfBit, Timer
    <3>2. stk' = [cen |-> TRUE, cnt |-> 0]
      BY <1>2 DEF EdgeOfBit, EdgeIsMonitored
    <3> QED
      BY <3>1, <3>2 DEF Timer
  <2>2. intact' \in BOOLEAN /\ samples' \in Seq({0, 1})
    <3>1. <<>> \in Seq({0, 1})
      OBVIOUS
    <3> QED
      BY <1>2, <3>1, EdgeOfFrameTyped DEF EdgeOfBit
  <2> QED
    BY <1>2, <2>1, <2>2 DEF TypeOK, EdgeOfBit, EdgeIsMonitored, mainVars, envVars
<1>3. CASE TIM4_IRQHandler
  BY <1>3 DEF TypeOK, TIM4_IRQHandler, Timer, mainVars, monVars, envVars, ghosts
<1>4. CASE SysTick_Handler
  BY <1>4 DEF TypeOK, SysTick_Handler, Timer, mainVars, recVars, envVars, ghosts
<1> QED
  BY <1>1, <1>2, <1>3, <1>4 DEF Handlers, EXTI4_IRQHandler

\* Levels are levels, in range.
LEMMA LevelTyped ==
    ASSUME NEW f \in Frames, NEW i \in 0 .. 2 * Len(f) - 1
    PROVE  LevelAt(f, i) \in {0, 1}
<1>1. f \in Seq({0, 1}) /\ i \div 2 + 1 \in 1 .. Len(f)
  BY FramesAssumption
<1>2. f[i \div 2 + 1] \in {0, 1}
  BY <1>1
<1> QED
  BY <1>2 DEF LevelAt

\* So does a half-bit, whatever its level.
LEMMA HalfBitTyped ==
    ASSUME TypeOK, NEW level \in {0, 1}, HalfBit(level)
    PROVE  /\ tim4' \in Timer /\ stk' \in Timer
           /\ line' \in {0, 1} /\ extiPend' \in BOOLEAN /\ late' \in BOOLEAN
           /\ UNCHANGED <<pc, msgCur, recVars, monitorState, lineState>>
  BY DEF TypeOK, HalfBit, Timer, Counted, Tim4Due, SysTickDue

LEMMA LineTyped ==
    ASSUME TypeOK, FrameOnLine, LineStep
    PROVE  TypeOK'
<1> USE DEF TypeOK, recVars
<1>6. <<>> \in Seq({0, 1}) /\ Len(<<>>) = 0
  OBVIOUS
<1>1. ASSUME StartFrame PROVE TypeOK'
  <2>1. PICK f \in Frames : frame' = f /\ HalfBit(LevelAt(f, 0))
    BY <1>1 DEF StartFrame
  <2>2. Len(f) \in Nat /\ Len(f) > 0
    BY FramesAssumption
  <2>3. LevelAt(f, 0) \in {0, 1}
    BY <2>2, LevelTyped
  <2>4. /\ frame' \in Frames /\ pos' \in 0 .. 2 * Len(frame')
        /\ intact' = FALSE /\ samples' \in Seq({0, 1}) /\ phase' = "frame"
    BY <1>1, <1>6, <2>1, <2>2 DEF StartFrame
  <2> QED
    BY <2>1, <2>3, <2>4, HalfBitTyped
<1>2. ASSUME SendHalfBit PROVE TypeOK'
  <2>1. frame \in Frames /\ Len(frame) \in Nat
    BY <1>2, FramesAssumption DEF SendHalfBit, FrameOnLine
  <2>2. LevelAt(frame, pos) \in {0, 1}
    BY <1>2, <2>1, LevelTyped DEF SendHalfBit
  <2> QED
    BY <1>2, <2>1, <2>2, HalfBitTyped DEF SendHalfBit, ghosts
<1>3. ASSUME EndFrame PROVE TypeOK'
  <2>1. /\ frame' = <<>> /\ pos' \in 0 .. 2 * Len(frame')
        /\ intact' = FALSE /\ samples' \in Seq({0, 1}) /\ phase' = "idle"
    BY <1>3, <1>6 DEF EndFrame
  <2>2. HalfBit(1)
    BY <1>3 DEF EndFrame
  <2> QED
    BY <2>1, <2>2, HalfBitTyped
<1>4. ASSUME Interfere PROVE TypeOK'
  <2>1. /\ frame' = <<>> /\ pos' \in 0 .. 2 * Len(frame')
        /\ intact' = FALSE /\ samples' \in Seq({0, 1}) /\ phase' = "noise"
    BY <1>4, <1>6 DEF Interfere
  <2>2. PICK level \in {0, 1} : HalfBit(level)
    BY <1>4 DEF Interfere
  <2> QED
    BY <2>1, <2>2, HalfBitTyped
<1>5. ASSUME Quiet PROVE TypeOK'
  BY <1>5, HalfBitTyped DEF Quiet, ghosts
<1> QED
  BY <1>1, <1>2, <1>3, <1>4, <1>5 DEF LineStep

-----------------------------------------------------------------------------
(* The frame. *)

Rest == FrameOnLine /\ UnderWay /\ InStep /\ Prefix /\ LastBits

\* While a frame is received well, the main routine touches nothing it needs.
LEMMA MainEffect ==
    ASSUME IInv, TestIdle \/ MainStep
    PROVE  /\ UNCHANGED <<envVars, ghosts, extiPend, monVars>>
           /\ intact => /\ UNCHANGED <<currBit, dataByte, currentlyReceiving, sample, tim4>>
                        /\ pc' \notin Resetting \cup Dropping
<1>1. UNCHANGED <<envVars, ghosts, extiPend, monVars>>
  BY DEF MainStep, TestIdle, ResetByte, ResetBit, ResetReceiving, ResetSample,
     TestCollision, CeaseReceiving, LeaveMessage, ClearGet, ClearPut, TestMessage,
     TakeByte, EndOfMessage, PrintMessage, envVars, ghosts, monVars
<1>2. ASSUME intact
      PROVE  /\ UNCHANGED <<currBit, dataByte, currentlyReceiving, sample, tim4>>
             /\ pc' \notin Resetting \cup Dropping
  <2>1. monitorState = "BUSY" /\ pc \notin Resetting \cup Dropping
    BY <1>2 DEF IInv, UnderWay
  <2>2. ~(ResetByte \/ ResetBit \/ ResetReceiving \/ ResetSample)
    BY <2>1 DEF ResetByte, ResetBit, ResetReceiving, ResetSample, GoTo, Resetting
  <2>3. ~(CeaseReceiving \/ LeaveMessage \/ ClearGet \/ ClearPut)
    BY <2>1 DEF CeaseReceiving, LeaveMessage, ClearGet, ClearPut, GoTo, Dropping
  <2>4. CASE TestIdle \/ TestCollision
    BY <2>1, <2>4 DEF TestIdle, TestCollision, GoTo, recVars, Resetting, Dropping
  <2>5. CASE TestMessage \/ EndOfMessage \/ PrintMessage
    BY <2>5, Zenon DEF TestMessage, EndOfMessage, PrintMessage, GoTo, recVars, Resetting,
       Dropping
  <2>6. CASE TakeByte
    BY <2>6 DEF TakeByte, GoTo, Resetting, Dropping
  <2> QED
    BY <2>2, <2>3, <2>4, <2>5, <2>6 DEF MainStep
<1> QED
  BY <1>1, <1>2

LEMMA MainRest ==
    ASSUME IInv, TestIdle \/ MainStep
    PROVE  Rest'
<1>1. UNCHANGED <<envVars, ghosts, extiPend, monVars>>
  BY MainEffect
<1>2. intact => /\ UNCHANGED <<currBit, dataByte, currentlyReceiving, sample, tim4>>
                /\ pc' \notin Resetting \cup Dropping
  BY MainEffect
<1> QED
  BY <1>1, <1>2 DEF IInv, Rest, FrameOnLine, UnderWay, InStep, SecondHalf, FirstHalf,
     MiddleEdge, Tim4Due, Prefix, LastBits, envVars, ghosts, monVars, Resetting, Dropping

\* When history is not intact, nothing is claimed.
LEMMA NotIntactRest ==
    ASSUME FrameOnLine', intact' = FALSE, samples' = <<>>
    PROVE  Rest'
  BY DEF Rest, UnderWay, InStep, Prefix, LastBits

LEMMA EdgeOfBitRest ==
    ASSUME IInv, EdgeOfBit
    PROVE  Rest'
<1>1. FrameOnLine'
  BY DEF EdgeOfBit, IInv, FrameOnLine, envVars
<1>2. CASE intact'
  <2>1. intact /\ phase = "frame" /\ ~(pos = 2)
    BY <1>2 DEF EdgeOfBit, EdgeOfFrame
  <2>2. FirstHalf /\ extiPend /\ ~sample
    BY <2>1 DEF EdgeOfBit, EdgeIsMonitored, IInv, InStep, SecondHalf, MiddleEdge
  <2>3. samples' = samples
    <3>1. samples' = samples \o <<>>
      BY <1>2 DEF EdgeOfBit, EdgeOfFrame
    <3>2. samples \in Seq({0, 1})
      BY DEF IInv, TypeOK
    <3> QED
      BY <3>1, <3>2, ConcatEmptySeq
  <2>4. UnderWay'
    BY <2>1 DEF EdgeOfBit, EdgeIsMonitored, IInv, UnderWay, mainVars, envVars
  <2>5. InStep'
    <3>1. pos' = 2 * Len(samples') + 1 /\ Len(samples') >= 1
      BY <2>1, <2>2, <2>3 DEF EdgeOfBit, IInv, InStep, FirstHalf, envVars
    <3>2. ~extiPend' /\ sample' /\ stk'.cnt = 0
      BY DEF EdgeOfBit, EdgeIsMonitored
    <3> QED
      BY <3>1, <3>2 DEF InStep, FirstHalf
  <2>6. Prefix' /\ LastBits'
    BY <1>2, <2>1, <2>3 DEF EdgeOfBit, IInv, Prefix, LastBits, envVars
  <2> QED
    BY <1>1, <2>4, <2>5, <2>6 DEF Rest
<1>3. CASE ~intact'
  <2>1. samples' = <<>>
    BY <1>3 DEF EdgeOfBit, EdgeOfFrame
  <2>2. intact' \in BOOLEAN
    BY HandlersTyped DEF IInv, TypeOK, Handlers, EXTI4_IRQHandler
  <2> QED
    BY <1>1, <1>3, <2>1, <2>2, NotIntactRest
<1> QED
  BY <1>2, <1>3

\* The edge in the middle of a bit adds that bit to what was sampled.
LEMMA SampledBit ==
    ASSUME IInv, EdgeInBit, intact'
    PROVE  /\ phase = "frame" /\ frame \in Frames
           /\ pc \notin Resetting \cup Dropping
           /\ pos = 2 * Len(samples) + 2
           /\ samples' = Append(samples, line)
           /\ currBit = Len(samples) % BITS
           /\ \A i \in 1 .. Len(samples) : samples[i] = frame[i]
           /\ \A i \in 1 .. currBit : dataByte[i] = samples[Len(samples) - currBit + i]
           /\ line = frame[Len(samples) + 1]
<1>1. samples' = Append(samples, line)
  <2>1. samples' = samples \o <<line>>
    BY DEF EdgeInBit, EdgeOfFrame
  <2> QED
    BY <2>1 DEF IInv, TypeOK
<1>2. CASE phase = "frame" /\ pos = 2
  <2>1. currBit = 0 /\ pc \notin Resetting \cup Dropping
    BY <1>2 DEF EdgeInBit, EdgeOfFrame
  <2>2. ~intact
    BY <1>2 DEF EdgeInBit, EdgeIsMonitored, IInv, InStep, SecondHalf, FirstHalf,
       MiddleEdge, TypeOK
  <2>3. samples = <<>> /\ Len(samples) = 0
    BY <2>2 DEF IInv, Prefix
  <2>4. 0 % BITS = 0
    BY BitsAssumption
  <2>5. frame \in Frames /\ line = LevelAt(frame, 1)
    BY <1>2 DEF IInv, FrameOnLine
  <2>6. LevelAt(frame, 1) = frame[1]
    BY DEF LevelAt
  <2> QED
    BY <1>1, <1>2, <2>1, <2>3, <2>4, <2>5, <2>6
<1>3. CASE ~(phase = "frame" /\ pos = 2)
  <2>1. intact
    BY <1>3 DEF EdgeInBit, EdgeOfFrame
  <2>2. phase = "frame" /\ pc \notin Resetting \cup Dropping
    BY <2>1 DEF IInv, UnderWay
  <2>3. MiddleEdge
    BY <2>1 DEF EdgeInBit, EdgeIsMonitored, IInv, InStep, SecondHalf, FirstHalf
  <2>4. Len(samples) \in Nat /\ pos = 2 * Len(samples) + 2
    BY <2>3 DEF MiddleEdge, IInv, TypeOK
  <2>5. frame \in Frames /\ line = LevelAt(frame, pos - 1)
    BY <2>2 DEF IInv, FrameOnLine
  <2>6. line = frame[Len(samples) + 1]
    BY <2>4, <2>5 DEF LevelAt
  <2> QED
    BY <1>1, <2>1, <2>2, <2>4, <2>5, <2>6 DEF IInv, Prefix, LastBits
<1> QED
  BY <1>2, <1>3

\* In particular it adds one to the remainder, and the bit to dataByte.
LEMMA EdgeInBitRest ==
    ASSUME IInv, EdgeInBit
    PROVE  Rest'
<1>1. FrameOnLine'
  BY DEF EdgeInBit, IInv, FrameOnLine, envVars
<1>2. CASE intact'
  <2> DEFINE n == Len(samples)
  <2>1. /\ n \in Nat /\ Len(samples') = n + 1 /\ samples'[n + 1] = line
        /\ \A i \in 1 .. n : samples'[i] = samples[i]
    BY <1>2, SampledBit DEF IInv, TypeOK
  <2>2. UnderWay'
    BY <1>2, SampledBit DEF UnderWay, EdgeInBit, EdgeIsMonitored, mainVars, envVars
  <2>3. InStep'
    <3>1. pos' = 2 * Len(samples')
      <4>1. pos' = pos
        BY DEF EdgeInBit, envVars
      <4>2. pos = 2 * n + 2
        BY <1>2, SampledBit
      <4> HIDE DEF n
      <4> QED
        BY <2>1, <4>1, <4>2
    <3>2. tim4' = [cen |-> TRUE, cnt |-> 0]
      BY DEF IInv, TypeOK, EdgeInBit, StartTim4, ClearCnt, Timer
    <3>3. ~extiPend' /\ ~sample' /\ stk'.cnt = 0
      BY DEF EdgeInBit, EdgeIsMonitored
    <3> QED
      BY <2>1, <3>1, <3>2, <3>3 DEF InStep, SecondHalf
  <2>4. Prefix'
    <3>1. \A i \in 1 .. n + 1 : samples'[i] = frame[i]
      <4>1. \A i \in 1 .. n : samples[i] = frame[i]
        BY <1>2, SampledBit
      <4>2. line = frame[n + 1]
        BY <1>2, SampledBit
      <4> HIDE DEF n
      <4>3. \A i \in 1 .. n + 1 : i \in 1 .. n \/ i = n + 1
        BY <2>1
      <4> QED
        BY <2>1, <4>1, <4>2, <4>3
    <3> QED
      BY <1>2, <2>1, <3>1 DEF Prefix, EdgeInBit, envVars
  <2>5. LastBits'
    <3>1. /\ currBit = n % BITS /\ currBit \in 0 .. BITS - 1
          /\ \A i \in 1 .. currBit : dataByte[i] = samples[n - currBit + i]
      BY <1>2, SampledBit DEF IInv, TypeOK
    <3>2. currBit' = IF currBit + 1 = BITS THEN 0 ELSE currBit + 1
      BY DEF EdgeInBit, CountBit
    <3>3. currBit' = (n + 1) % BITS
      BY <2>1, <3>1, <3>2, NextRemainder, BitsAssumption
    <3>4. dataByte' = [dataByte EXCEPT ![currBit + 1] = line]
      BY DEF EdgeInBit, WithBit
    <3>5. ASSUME NEW i \in 1 .. currBit'
          PROVE  dataByte'[i] = samples'[n + 1 - currBit' + i]
      <4>1. currBit' = currBit + 1 /\ i \in 1 .. currBit + 1 /\ currBit <= n
        BY <2>1, <3>1, <3>2, <3>5, BitsAssumption, RemainderBelow
      <4>2. dataByte \in [1 .. BITS -> {0, 1}] /\ currBit + 1 \in 1 .. BITS
        BY <3>1, BitsAssumption DEF IInv, TypeOK, Bytes
      <4>3. CASE i = currBit + 1
        <5>1. n + 1 - currBit' + i = n + 1
          BY <2>1, <3>1, <4>1, <4>3
        <5> QED
          BY <2>1, <3>4, <4>2, <4>3, <5>1
      <4>4. CASE i # currBit + 1
        <5>1. i \in 1 .. currBit /\ n - currBit + i \in 1 .. n
          BY <2>1, <3>1, <4>1, <4>4
        <5>2. n + 1 - currBit' + i = n - currBit + i
          BY <2>1, <3>1, <4>1, <5>1
        <5>3. dataByte'[i] = dataByte[i]
          BY <3>4, <4>2, <4>4, <5>1
        <5> QED
          BY <2>1, <3>1, <5>1, <5>2, <5>3
      <4> QED
        BY <4>3, <4>4
    <3>6. currBit' = Len(samples') % BITS
      BY <2>1, <3>3
    <3>7. ASSUME NEW i \in 1 .. currBit'
          PROVE  dataByte'[i] = samples'[Len(samples') - currBit' + i]
      <4>1. dataByte'[i] = samples'[n + 1 - currBit' + i]
        BY <3>5, <3>7
      <4>2. currBit' \in Nat
        BY <3>1, <3>2
      <4>3. Len(samples') - currBit' + i = n + 1 - currBit' + i
        BY <2>1, <4>2
      <4> QED
        BY <4>1, <4>3
    <3> QED
      BY <3>6, <3>7 DEF LastBits
  <2> QED
    BY <1>1, <2>2, <2>3, <2>4, <2>5 DEF Rest
<1>3. CASE ~intact'
  <2>1. samples' = <<>>
    BY <1>3 DEF EdgeInBit, EdgeOfFrame
  <2>2. intact' \in BOOLEAN
    BY HandlersTyped DEF IInv, TypeOK, Handlers, EXTI4_IRQHandler
  <2> QED
    BY <1>1, <1>3, <2>1, <2>2, NotIntactRest
<1> QED
  BY <1>2, <1>3

\* A timeout that is due while a frame is received well is TIM4's, between two
\* equal bits; SysTick never is.
LEMMA TimeoutRest ==
    ASSUME IInv, TIM4_IRQHandler \/ SysTick_Handler
    PROVE  Rest'
<1>1. CASE TIM4_IRQHandler
  <2>1. FrameOnLine' /\ UnderWay' /\ Prefix' /\ LastBits'
    BY <1>1 DEF TIM4_IRQHandler, IInv, FrameOnLine, UnderWay, Prefix, LastBits,
       mainVars, monVars, envVars, ghosts
  <2>2. ASSUME intact PROVE FirstHalf
    BY <1>1, <2>2 DEF TIM4_IRQHandler, Tim4Due, IInv, InStep, SecondHalf, MiddleEdge
  <2>3. InStep'
    BY <1>1, <2>2 DEF TIM4_IRQHandler, IInv, InStep, FirstHalf, monVars, envVars, ghosts
  <2> QED
    BY <2>1, <2>3 DEF Rest
<1>2. CASE SysTick_Handler
  <2>1. ~extiPend /\ stk.cnt >= 2
    BY <1>2 DEF SysTick_Handler, SysTickDue
  <2>3. ~SecondHalf /\ ~MiddleEdge
    BY <2>1 DEF SecondHalf, MiddleEdge
  <2>4. ~FirstHalf
    BY <2>1 DEF FirstHalf, IInv, TypeOK, Timer
  <2>5. ~intact
    BY <2>3, <2>4 DEF IInv, InStep
  <2>2. FrameOnLine' /\ intact' = intact /\ samples' = samples
    BY <1>2 DEF SysTick_Handler, IInv, FrameOnLine, envVars, ghosts
  <2> QED
    BY <2>5, <2>2, NotIntactRest DEF IInv, TypeOK, Prefix
<1> QED
  BY <1>1, <1>2

\* A half-bit passes only when nothing is due: the first half of a bit then
\* follows its second half, and the edge in the middle comes always.
LEMMA SendHalfBitRest ==
    ASSUME IInv, SendHalfBit
    PROVE  Rest'
<1>1. /\ frame \in Frames /\ pos \in Nat /\ pos >= 1
      /\ line = LevelAt(frame, pos - 1)
      /\ frame' = frame /\ pos' = pos + 1 /\ phase' = "frame"
      /\ intact' = intact /\ samples' = samples
  BY DEF SendHalfBit, IInv, TypeOK, FrameOnLine, ghosts
<1>2. /\ ~extiPend /\ ~Tim4Due
      /\ line' = LevelAt(frame, pos) /\ extiPend' = (LevelAt(frame, pos) # line)
      /\ tim4' = Counted(tim4) /\ stk' = Counted(stk)
      /\ UNCHANGED <<pc, msgCur, recVars, monitorState, lineState>>
  BY DEF SendHalfBit, HalfBit
<1>3. FrameOnLine'
  <2>1. pos' - 1 = pos
    BY <1>1
  <2> QED
    BY <1>1, <1>2, <2>1 DEF FrameOnLine
<1>4. UnderWay' /\ Prefix' /\ LastBits'
  BY <1>1, <1>2 DEF SendHalfBit, IInv, UnderWay, Prefix, LastBits, recVars
<1>5. ASSUME intact PROVE InStep'
  <2>1. Len(samples) \in Nat /\ Len(samples) >= 1
    BY <1>5 DEF IInv, TypeOK, InStep
  <2>2. CASE SecondHalf
    <3>1. tim4'.cen = TRUE /\ tim4'.cnt >= 1 /\ stk'.cnt <= 1
      <4>1. tim4'.cen = TRUE /\ tim4'.cnt >= 1
        <5>1. tim4 = [cen |-> TRUE, cnt |-> 0]
          BY <2>2 DEF SecondHalf
        <5>2. tim4' = [tim4 EXCEPT !.cnt = tim4.cnt + 1]
          BY <1>2, <5>1 DEF Counted
        <5> QED
          BY <5>1, <5>2
      <4>2. stk' = IF stk.cen THEN [stk EXCEPT !.cnt = stk.cnt + 1] ELSE stk
        BY <1>2 DEF Counted
      <4>3. stk \in Timer /\ stk.cnt = 0
        BY <2>2 DEF SecondHalf, IInv, TypeOK
      <4>4. stk'.cnt \in {0, 1}
        BY <4>2, <4>3 DEF Timer
      <4> QED
        BY <4>1, <4>4
    <3> QED
      BY <1>1, <1>2, <2>1, <2>2, <3>1 DEF InStep, SecondHalf, FirstHalf, Tim4Due, recVars
  <2>3. CASE FirstHalf
    <3>1. sample /\ pos' = 2 * Len(samples) + 2
      BY <1>1, <1>2, <2>1, <2>3 DEF FirstHalf
    <3>2. pos \div 2 = (pos - 1) \div 2 /\ pos % 2 = 1 /\ (pos - 1) % 2 = 0
      BY <2>1, <2>3 DEF FirstHalf
    <3>3. frame[pos \div 2 + 1] \in {0, 1}
      <4>1. pos < 2 * Len(frame) /\ frame \in Seq({0, 1})
        BY <1>1, FramesAssumption DEF SendHalfBit
      <4>2. pos \div 2 + 1 \in 1 .. Len(frame)
        BY <1>1, <4>1
      <4> QED
        BY <4>1, <4>2
    <3>4. LevelAt(frame, pos) # line
      BY <1>1, <3>2, <3>3 DEF LevelAt
    <3> QED
      BY <1>1, <1>2, <2>1, <3>1, <3>4 DEF InStep, MiddleEdge, recVars
  <2> QED
    BY <1>2, <1>5, <2>2, <2>3 DEF IInv, InStep, MiddleEdge
<1>6. ~intact => InStep'
  BY <1>1 DEF InStep
<1> QED
  BY <1>3, <1>4, <1>5, <1>6 DEF Rest

LEMMA OtherLineRest ==
    ASSUME IInv, StartFrame \/ EndFrame \/ Interfere \/ Quiet
    PROVE  Rest'
<1>1. CASE StartFrame
  <2>1. PICK f \in Frames : frame' = f /\ HalfBit(LevelAt(f, 0))
    BY <1>1 DEF StartFrame
  <2>2. FrameOnLine'
    BY <1>1, <2>1 DEF StartFrame, HalfBit, FrameOnLine
  <2> QED
    BY <1>1, <2>2, NotIntactRest DEF StartFrame
<1>2. CASE EndFrame \/ Interfere
  BY <1>2, NotIntactRest DEF EndFrame, Interfere, FrameOnLine
<1>3. CASE Quiet
  <2>1. phase' # "frame" /\ intact' = intact /\ samples' = samples /\ ~intact
    BY <1>3 DEF Quiet, ghosts, IInv, UnderWay
  <2> QED
    BY <2>1, NotIntactRest DEF FrameOnLine, IInv, TypeOK, Prefix
<1> QED
  BY <1>1, <1>2, <1>3

-----------------------------------------------------------------------------
LEMMA Initially == Init => IInv
<1> SUFFICES ASSUME Init PROVE IInv
  OBVIOUS
<1>1. receiveBuf \in RingBufferOf({"byte"})
  BY BufSizeAssumption DEF Init, EmptyRing, RingBufferOf, Slots
<1>2. dataByte \in Bytes /\ tim4 \in Timer /\ stk \in Timer
  BY DEF Init, Bytes, Timer
<1>3. <<>> \in Seq({0, 1}) /\ Len(<<>>) = 0
  OBVIOUS
<1>4. TypeOK
  <2>1. 0 \in 0 .. BITS - 1 /\ 0 \in 0 .. MSG_SIZE /\ 0 \in 0 .. 2 * Len(<<>>)
    BY <1>3, BitsAssumption, MsgSizeAssumption
  <2>2. line \in {0, 1} /\ phase \in {"idle", "frame", "noise"}
    BY DEF Init
  <2> QED
    BY <1>1, <1>2, <1>3, <2>1, <2>2 DEF Init, TypeOK, Slow
<1>5. phase # "frame" /\ intact = FALSE /\ samples = <<>>
  BY DEF Init
<1> QED
  BY <1>4, <1>5 DEF IInv, FrameOnLine, UnderWay, InStep, Prefix, LastBits

LEMMA Inductive == IInv /\ [Next]_vars => IInv'
<1> SUFFICES ASSUME IInv, [Next]_vars PROVE IInv'
  OBVIOUS
<1> USE DEF Rest
<1>1. CASE TestIdle \/ MainStep
  BY <1>1, MainTyped, MainRest DEF IInv
<1>2. CASE EdgeInBit
  BY <1>2, HandlersTyped, EdgeInBitRest DEF IInv, Handlers, EXTI4_IRQHandler
<1>3. CASE EdgeOfBit
  BY <1>3, HandlersTyped, EdgeOfBitRest DEF IInv, Handlers, EXTI4_IRQHandler
<1>4. CASE TIM4_IRQHandler \/ SysTick_Handler
  BY <1>4, HandlersTyped, TimeoutRest DEF IInv, Handlers
<1>5. CASE SendHalfBit
  BY <1>5, LineTyped, SendHalfBitRest DEF IInv, LineStep
<1>6. CASE StartFrame \/ EndFrame \/ Interfere \/ Quiet
  BY <1>6, LineTyped, OtherLineRest DEF IInv, LineStep
<1>7. CASE UNCHANGED vars
  BY <1>7 DEF vars, mainVars, recVars, monVars, envVars, ghosts, IInv, TypeOK,
     FrameOnLine, UnderWay, InStep, SecondHalf, FirstHalf, MiddleEdge, Tim4Due, Prefix,
     LastBits
<1> QED
  BY <1>1, <1>2, <1>3, <1>4, <1>5, <1>6, <1>7 DEF Next, Handlers, EXTI4_IRQHandler, LineStep

THEOREM Invariance == Spec => []IInv
<1>1. Init => IInv
  BY Initially
<1>2. IInv /\ [Next]_vars => IInv'
  BY Inductive
<1> QED
  BY <1>1, <1>2, PTL DEF Spec

-----------------------------------------------------------------------------
\* Every variable keeps its type: no interleaving of the reset with the
\* handlers takes currBit out of the byte or an index out of receiveBuf.
THEOREM TypeCorrect == Spec => []TypeOK
<1>1. IInv => TypeOK
  BY DEF IInv
<1> QED
  BY <1>1, Invariance, PTL

\* The bits sampled of a frame that found the receiver ready are its bits.
THEOREM BitsAreRecovered == Spec => []BitsRecovered
<1>1. IInv => BitsRecovered
  <2> SUFFICES ASSUME IInv, intact, ~extiPend PROVE BitsRecovered
    BY DEF BitsRecovered
  <2>1. /\ samples \in Seq({0, 1}) /\ Len(samples) \in Nat /\ frame \in Seq({0, 1})
        /\ pos \in 0 .. 2 * Len(frame)
    BY FramesAssumption DEF IInv, TypeOK, UnderWay, FrameOnLine
  <2>2. pos = 2 * Len(samples) \/ pos = 2 * Len(samples) + 1
    BY DEF IInv, InStep, SecondHalf, FirstHalf, MiddleEdge
  <2>3. pos \div 2 = Len(samples) /\ Len(samples) <= Len(frame)
    BY <2>1, <2>2
  <2>4. samples = SubSeq(frame, 1, Len(samples))
    <3>1. \A i \in 1 .. Len(samples) : samples[i] = frame[i]
      BY DEF IInv, Prefix
    <3> DEFINE t == SubSeq(frame, 1, Len(samples))
    <3>2. /\ t \in Seq({0, 1}) /\ Len(t) = Len(samples)
          /\ \A i \in 1 .. Len(samples) : t[i] = frame[i]
      BY <2>1, <2>3, SubSeqProperties
    <3> HIDE DEF t
    <3>3. samples = t
      BY <2>1, <3>1, <3>2, SeqEqual
    <3> QED
      BY <3>3 DEF t
  <2> QED
    BY <2>3, <2>4 DEF BitsRecovered, IInv, LastBits
<1> QED
  BY <1>1, Invariance, PTL

\* The bytes put into receiveBuf are those of the frame.
THEOREM BytesAreFaithful == Spec => BytesFaithful
<1>1. ASSUME IInv, [Next]_vars, intact, intact', receiveBuf'.put # receiveBuf.put
      PROVE  LET n == Len(samples')
             IN n % BITS = 0 /\ dataByte' = SubSeq(frame, n - BITS + 1, n)
  <2>1. IInv'
    BY <1>1, Inductive
  <2>2. EdgeInBit
    <3>1. pc \notin Dropping
      BY <1>1 DEF IInv, UnderWay
    <3>2. RingSkip(receiveBuf).put = receiveBuf.put
      BY <1>1, RingSkipEffect DEF IInv, TypeOK
    <3>3. ~(TestIdle \/ MainStep)
      BY <1>1, <3>1, <3>2
         DEF MainStep, TestIdle, ResetByte, ResetBit, ResetReceiving, ResetSample,
             TestCollision, CeaseReceiving, LeaveMessage, ClearGet, ClearPut,
             TestMessage, TakeByte, EndOfMessage, PrintMessage, GoTo, Dropping, recVars
    <3>4. ~(EdgeOfBit \/ TIM4_IRQHandler \/ SysTick_Handler)
      BY <1>1 DEF EdgeOfBit, TIM4_IRQHandler, SysTick_Handler, recVars
    <3>5. ~LineStep
      BY <1>1 DEF LineStep, StartFrame, SendHalfBit, EndFrame, Interfere, Quiet, HalfBit,
         recVars
    <3> QED
      BY <1>1, <3>3, <3>4, <3>5 DEF Next, Handlers, EXTI4_IRQHandler, vars, recVars
  <2> DEFINE n == Len(samples)
             m == n + 1 - BITS
  <2>3. /\ frame \in Frames /\ pos = 2 * n + 2
        /\ samples' = Append(samples, line) /\ currBit = n % BITS
    BY <1>1, <2>2, SampledBit
  <2>4. n \in Nat /\ Len(samples') = n + 1
    BY <2>3 DEF IInv, TypeOK
  <2>5. currBit + 1 = BITS
    BY <1>1, <2>2 DEF EdgeInBit, CountBit
  <2>6. (n + 1) % BITS = 0
    <3> HIDE DEF n
    <3> QED
      BY <2>3, <2>4, <2>5, NextRemainder, BitsAssumption
  <2>7. m \in Nat
    <3> HIDE DEF n
    <3>1. n % BITS <= n
      BY <2>4, RemainderBelow, BitsAssumption
    <3> QED
      BY <2>3, <2>4, <2>5, <3>1, BitsAssumption
  <2>8. frame \in Seq({0, 1}) /\ m + BITS <= Len(frame)
    <3>1. frame \in Seq({0, 1}) /\ Len(frame) \in Nat
      BY <2>3, FramesAssumption
    <3>2. pos <= 2 * Len(frame)
      BY <1>1, <3>1 DEF IInv, TypeOK
    <3> QED
      BY <2>3, <2>4, <3>1, <3>2, BitsAssumption
  <2>9. ASSUME NEW i \in 1 .. BITS
        PROVE  dataByte'[i] = frame[m + i]
    <3>1. samples'[m + i] = frame[m + i]
      <4>1. \A k \in 1 .. Len(samples') : samples'[k] = frame[k]
        <5>1. Prefix' /\ frame' = frame
          BY <2>1, <2>2 DEF IInv, EdgeInBit, envVars
        <5> QED
          BY <1>1, <5>1 DEF Prefix
      <4>2. m + i \in 1 .. n + 1
        BY <2>4, <2>7, BitsAssumption
      <4> HIDE DEF n, m
      <4> QED
        BY <2>4, <4>1, <4>2
    <3>2. dataByte' = [dataByte EXCEPT ![currBit + 1] = line]
      BY <2>2 DEF EdgeInBit, WithBit
    <3>3. dataByte \in [1 .. BITS -> {0, 1}]
      BY <1>1 DEF IInv, TypeOK, Bytes
    <3>4. CASE i = BITS
      <4>1. dataByte'[i] = line /\ m + i = n + 1
        BY <2>4, <2>5, <3>2, <3>3, <3>4, BitsAssumption
      <4>2. samples'[n + 1] = line
        BY <2>3 DEF IInv, TypeOK
      <4> QED
        BY <3>1, <4>1, <4>2
    <3>5. CASE i # BITS
      <4>1. i \in 1 .. currBit /\ m + i = n - currBit + i
        BY <1>1, <2>4, <2>5, <3>5, BitsAssumption DEF IInv, TypeOK
      <4>2. dataByte'[i] = dataByte[i]
        BY <2>5, <3>2, <3>3, <3>5
      <4>3. dataByte[i] = samples[m + i]
        <5>1. \A k \in 1 .. currBit : dataByte[k] = samples[n - currBit + k]
          BY <1>1 DEF IInv, LastBits
        <5> HIDE DEF n, m
        <5> QED
          BY <4>1, <5>1
      <4>4. samples'[m + i] = samples[m + i]
        <5>1. m + i \in 1 .. n
          BY <2>4, <2>7, <3>5, BitsAssumption
        <5>2. \A k \in 1 .. n : samples'[k] = samples[k]
          BY <2>3 DEF IInv, TypeOK
        <5> HIDE DEF n, m
        <5> QED
          BY <5>1, <5>2
      <4> QED
        BY <3>1, <4>2, <4>3, <4>4
    <3> QED
      BY <3>4, <3>5
  <2>10. dataByte' = SubSeq(frame, m + 1, n + 1)
    <3> DEFINE t == SubSeq(frame, m + 1, n + 1)
    <3>1. t \in Seq({0, 1}) /\ Len(t) = BITS /\ \A i \in 1 .. BITS : t[i] = frame[m + i]
      BY <2>4, <2>7, <2>8, BitsAssumption, SubSeqProperties
    <3>2. dataByte' \in Seq({0, 1}) /\ Len(dataByte') = BITS
      BY <2>1, BitsAssumption DEF IInv, TypeOK, Bytes
    <3> HIDE DEF t, m, n
    <3>3. dataByte' = t
      BY <2>9, <3>1, <3>2, SeqEqual
    <3> QED
      BY <3>3 DEF t
  <2> QED
    <3>1. Len(samples') - BITS + 1 = m + 1
      BY <2>4, BitsAssumption
    <3>2. Len(samples') % BITS = 0
      BY <2>4, <2>6
    <3>3. dataByte' = SubSeq(frame, Len(samples') - BITS + 1, Len(samples'))
      BY <2>4, <2>10, <3>1
    <3> QED
      BY <3>2, <3>3
<1> QED
  BY <1>1, Invariance, PTL DEF Spec, BytesFaithful

\* A frame that is received well is not taken out before its end.
THEOREM MessagesAreComplete == Spec => MessageComplete
<1>1. ASSUME IInv, [Next]_vars, pc = "message", pc' = "drain"
      PROVE  ~intact
  <2>1. TestMessage
    BY <1>1 DEF Next, MainStep, Handlers, EXTI4_IRQHandler, LineStep, TestIdle, ResetByte,
       ResetBit, ResetReceiving, ResetSample, TestCollision, CeaseReceiving, LeaveMessage,
       ClearGet, ClearPut, TakeByte, EndOfMessage, PrintMessage, GoTo, EdgeInBit,
       EdgeOfBit, TIM4_IRQHandler, SysTick_Handler, StartFrame, SendHalfBit, EndFrame,
       Interfere, Quiet, HalfBit, mainVars, vars
  <2>2. MessageReady
    BY <1>1, <2>1 DEF TestMessage, GoTo
  <2> QED
    BY <1>1, <2>2 DEF MessageReady, IInv, UnderWay
<1> QED
  BY <1>1, Invariance, PTL DEF Spec, MessageComplete
=============================================================================
