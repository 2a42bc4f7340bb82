-------------------------- MODULE TransmitterProofs --------------------------
(***************************************************************************)
(* Theorems about the transmitter, for every size of its constants.        *)
(*                                                                         *)
(* The invariants of Transmitter.tla are not inductive: they hold because  *)
(* of where the main loop can be while TIM2 runs (only at its head), and   *)
(* of what the cursors are between two transmissions.  IInv adds both.     *)
(***************************************************************************)
EXTENDS Transmitter, RingBufferProofs, SequenceTheorems

\* Where the main loop stands says what the flags and cursors are.  The loop
\* leaves its head only while nothing is being sent, so no interrupt of TIM2
\* after the first one finds it anywhere else.
AtPc ==
    /\ pc \in {"getch", "test", "fill"} => Idle
    /\ pc = "fill" => currByte = 0 /\ ~gotMessage
    /\ pc # "fill" => filled = Len(frame)
    /\ pc = "toggle" => Waiting /\ ~retransmissionTimeoutActive
    /\ pc \in {"toggle", "backoff"} => currByte = 0 /\ currBit = 0
    /\ pc = "backoff" => Waiting /\ retransmissionTimeoutActive
    /\ pc = "start" => /\ ~inTransmission /\ currByte = 0
                       /\ ~gotMessage \/ retransmissionTimeoutActive
                       /\ retransmissionTimeoutActive \/ transmissionComplete

\* Before its first interrupt TIM2 runs and there is nothing to send.
BeforeBoot ==
    ~booted =>
        /\ tim2.cen /\ Idle /\ ~retransmissionTimeoutActive
        /\ filled = 0 /\ currByte = 0 /\ currBit = 0
        /\ pc \in {"loop", "getch", "test", "fill"}

\* The timer interrupts only while it runs, and is programmed for its mode
\* even while it stands still.
TimerState ==
    /\ tim2.uif => tim2.cen
    /\ IF retransmissionTimeoutActive /\ pc # "backoff"
       THEN tim2.psc = "ms" /\ tim2.arr \in Backoffs
       ELSE tim2.psc = "cpu" /\ tim2.arr = TICKS

\* During a backoff the cursors are back at the start.
BackoffState ==
    retransmissionTimeoutActive =>
        /\ ~transmissionComplete
        /\ currByte = 0 /\ currBit = 0
        /\ inTransmission \/ pc \in {"backoff", "start"}

\* The cursor stays inside the frame, and between two transmissions at the
\* beginning of a byte: BuildFrame resets currByte only.
Cursor ==
    /\ currByte <= transBuf.put
    /\ currByte = transBuf.put => currBit = 0
    /\ Idle => currBit = 0

\* What was driven in this attempt is what lies before the cursor.
Driven ==
    {p \in Slots \X (0 .. BITS - 1) :
        p[1] < currByte \/ (p[1] = currByte /\ p[2] < currBit)}

DrivenSoFar == inTransmission /\ ~retransmissionTimeoutActive => onWire = Driven

\* The frame is never longer than its buffer allows, and a stored line that
\* waits has something before its first NUL.
Lengths ==
    /\ Len(frame) <= MAX_MSG + 7
    /\ gotMessage => ~IsEmptyLine(dataBuf)

IInv ==
    /\ TypeOK
    /\ AtPc /\ BeforeBoot /\ TimerState /\ BackoffState /\ Cursor
    /\ DrivenSoFar /\ Lengths
    /\ TimerRunsIffSending /\ BufferHoldsFrame /\ LineReleased /\ SyncMarksAttempt

-----------------------------------------------------------------------------
(* Lemmas about the data. *)

\* Framing a stored line gives bytes, at most seven more than the line has.
LEMMA FrameTyped ==
    ASSUME NEW msg \in Seq(Chars), Len(msg) <= MAX_MSG
    PROVE  Frame(msg) \in Seq(Data) /\ Len(Frame(msg)) <= MAX_MSG + 7
<1>1. msg \in Seq(Data)
  BY DEF Data
<1>2. HeaderFields \in Seq(Data) /\ Len(HeaderFields) = 6
  BY DEF HeaderFields, Data
<1>3. CASE packetMode
  <2>1. <<"crc8_fcs">> \in Seq(Data) /\ Len(<<"crc8_fcs">>) = 1
    BY DEF Data
  <2>2. /\ HeaderFields \o msg \in Seq(Data)
        /\ Len(HeaderFields \o msg) = Len(HeaderFields) + Len(msg)
    BY <1>1, <1>2, ConcatProperties
  <2>3. /\ PacketBytes(msg) \in Seq(Data)
        /\ Len(PacketBytes(msg)) = Len(HeaderFields \o msg) + Len(<<"crc8_fcs">>)
    BY <2>1, <2>2, ConcatProperties DEF PacketBytes
  <2>4. Len(PacketBytes(msg)) <= MAX_MSG + 7
    BY <1>1, <1>2, <2>1, <2>2, <2>3, MaxMsgAssumption
  <2> QED
    BY <1>3, <2>3, <2>4 DEF Frame
<1>4. CASE ~packetMode
  BY <1>1, <1>4, CharsAssumption, MaxMsgAssumption DEF Frame, RawBytes, Data
<1> QED
  BY <1>3, <1>4

\* transmitByte appends two elements behind put and touches nothing else, if
\* it does not reach the end of the buffer.
LEMMA TransmitByteAppends ==
    ASSUME NEW rb \in RingBufferOf(Elements), NEW byte \in Data,
           rb.put + 2 < BUF_SIZE
    PROVE  /\ TransmitByte(rb, byte) \in RingBufferOf(Elements)
           /\ TransmitByte(rb, byte).put = rb.put + 2
           /\ TransmitByte(rb, byte).get = rb.get
           /\ TransmitByte(rb, byte).buffer[rb.put] = <<byte, "hi">>
           /\ TransmitByte(rb, byte).buffer[rb.put + 1] = <<byte, "lo">>
           /\ \A i \in Slots : i < rb.put =>
                 TransmitByte(rb, byte).buffer[i] = rb.buffer[i]
<1> DEFINE mid == RingPut(rb, <<byte, "hi">>)
<1>1. <<byte, "hi">> \in Elements /\ <<byte, "lo">> \in Elements
  BY DEF Elements
<1>2. /\ rb.put \in Slots /\ rb.put + 1 \in Slots
      /\ Wrap(rb.put + 1) = rb.put + 1 /\ Wrap(rb.put + 1 + 1) = rb.put + 2
  BY BufSizeAssumption DEF RingBufferOf, Slots, Wrap
<1>3. /\ mid \in RingBufferOf(Elements)
      /\ mid.put = rb.put + 1 /\ mid.get = rb.get
      /\ mid.buffer = [rb.buffer EXCEPT ![rb.put] = <<byte, "hi">>]
  BY <1>1, <1>2, RingPutEffect
<1> HIDE DEF mid
<1>4. /\ TransmitByte(rb, byte) \in RingBufferOf(Elements)
      /\ TransmitByte(rb, byte).put = rb.put + 2
      /\ TransmitByte(rb, byte).get = rb.get
      /\ TransmitByte(rb, byte).buffer =
            [mid.buffer EXCEPT ![rb.put + 1] = <<byte, "lo">>]
  <2>1. TransmitByte(rb, byte) = RingPut(mid, <<byte, "lo">>)
    BY DEF TransmitByte, mid
  <2> QED
    BY <1>1, <1>2, <1>3, <2>1, RingPutEffect
<1>5. rb.buffer \in [Slots -> Elements] /\ mid.buffer \in [Slots -> Elements]
  BY <1>3 DEF RingBufferOf
<1>6. rb.put \in Int /\ rb.put + 1 # rb.put /\ rb.get \in Int
  BY <1>2 DEF Slots, RingBufferOf
<1>7. /\ TransmitByte(rb, byte).buffer[rb.put] = <<byte, "hi">>
      /\ TransmitByte(rb, byte).buffer[rb.put + 1] = <<byte, "lo">>
  BY <1>2, <1>3, <1>4, <1>5, <1>6
<1>8. ASSUME NEW i \in Slots, i < rb.put
      PROVE  TransmitByte(rb, byte).buffer[i] = rb.buffer[i]
  <2>1. i # rb.put /\ i # rb.put + 1
    BY <1>6, <1>8 DEF Slots
  <2> QED
    BY <1>2, <1>3, <1>4, <1>5, <2>1
<1> QED
  BY <1>4, <1>7, <1>8

-----------------------------------------------------------------------------
(* Facts about the invariant. *)

\* The cursors and the indices are natural numbers, and in range.
LEMMA Indices ==
    ASSUME TypeOK
    PROVE  /\ currByte \in Nat /\ currByte < BUF_SIZE
           /\ currBit \in Nat /\ currBit < BITS
           /\ transBuf.put \in Nat /\ transBuf.put < BUF_SIZE
           /\ filled \in Nat /\ filled <= Len(frame) /\ Len(frame) \in Nat
           /\ Len(dataBuf) \in Nat /\ BUF_SIZE \in Nat /\ BITS \in Nat
  BY BufSizeAssumption, BitsAssumption, LenProperties DEF TypeOK, Slots,
     RingBufferOf

\* At the start of a frame nothing has been driven.
LEMMA NothingDriven ==
    ASSUME currByte = 0, currBit = 0
    PROVE  Driven = {}
  BY BufSizeAssumption, BitsAssumption DEF Driven, Slots

\* An interrupt of TIM2 after the first one, and the first one too if it finds
\* something to send, meets a main loop that stands at its head.
LEMMA InterruptAtLoopHead ==
    ASSUME IInv, tim2.uif, booted \/ ~AtEnd
    PROVE  booted /\ inTransmission /\ pc = "loop"
<1>1. booted
  <2> SUFFICES ASSUME ~booted
               PROVE  AtEnd
    OBVIOUS
  <2>1. filled = 0 /\ transBuf.put = 2 * filled /\ transBuf.get = 0
    BY DEF IInv, BeforeBoot, BufferHoldsFrame
  <2> QED
    BY <2>1 DEF AtEnd, HasElement
<1>2. tim2.cen /\ inTransmission
  BY <1>1 DEF IInv, TimerState, TimerRunsIffSending
<1> QED
  BY <1>1, <1>2 DEF IInv, TypeOK, PCs, AtPc, Idle, Waiting

-----------------------------------------------------------------------------
(* Every step of the main routine preserves the invariant. *)

\* Only the place changes.
LEMMA AwaitKeyStep ==
    ASSUME IInv, AwaitKey
    PROVE  IInv'
<1>1. TypeOK'
  BY DEF IInv, TypeOK, Tim2Registers, MonitorTypeOK, PCs, AwaitKey, GoTo, sendVars,
     flagVars, hwVars
<1>2. AtPc' /\ BeforeBoot'
  BY DEF IInv, TypeOK, AtPc, BeforeBoot, BackoffState, TimerRunsIffSending, Idle,
     Waiting, AwaitKey, GoTo, sendVars, flagVars, hwVars
<1>3. TimerState' /\ BackoffState' /\ TimerRunsIffSending'
  BY DEF IInv, TypeOK, Tim2Registers, AtPc, BeforeBoot, TimerState, BackoffState,
     TimerRunsIffSending, Idle, Waiting, AwaitKey, GoTo, sendVars, flagVars, hwVars
<1>4. Cursor' /\ DrivenSoFar'
  BY DEF IInv, TypeOK, AtPc, Cursor, DrivenSoFar, Driven, Idle, Waiting,
     BackoffState, AwaitKey, sendVars, flagVars
<1>5. BufferHoldsFrame' /\ Lengths'
  BY DEF IInv, BufferHoldsFrame, Lengths, IsEmptyLine, AwaitKey, sendVars
<1>6. LineReleased' /\ SyncMarksAttempt'
  BY DEF IInv, TypeOK, AtPc, LineReleased, SyncMarksAttempt, Idle, Waiting,
     AwaitKey, flagVars, hwVars
<1> QED
  BY <1>1, <1>2, <1>3, <1>4, <1>5, <1>6 DEF IInv

\* A line that counts as a message is not empty.
LEMMA EndOfLineStep ==
    ASSUME IInv, EndOfLine
    PROVE  IInv'
<1>1. TypeOK'
  <2>1. gotMessage' \in BOOLEAN
    BY DEF EndOfLine
  <2>2. dataBuf' \in Seq(Chars) /\ Len(dataBuf') <= MAX_MSG
    <3>1. CASE IsEmptyLine(dataBuf)
      BY <3>1, MaxMsgAssumption DEF EndOfLine
    <3>2. CASE ~IsEmptyLine(dataBuf)
      BY <3>2 DEF EndOfLine, IInv, TypeOK
    <3> QED
      BY <3>1, <3>2
  <2> QED
    BY <2>1, <2>2 DEF IInv, TypeOK, Tim2Registers, MonitorTypeOK, PCs, EndOfLine,
       GoTo, mainVars, sendVars, flagVars, hwVars
<1>2. AtPc' /\ BeforeBoot'
  BY DEF IInv, TypeOK, AtPc, BeforeBoot, BackoffState, TimerRunsIffSending, Idle,
     Waiting, EndOfLine, GoTo, sendVars, flagVars, hwVars
<1>3. TimerState' /\ BackoffState' /\ TimerRunsIffSending'
  BY DEF IInv, TypeOK, Tim2Registers, AtPc, BeforeBoot, TimerState, BackoffState,
     TimerRunsIffSending, Idle, Waiting, EndOfLine, GoTo, sendVars, flagVars, hwVars
<1>4. Cursor' /\ DrivenSoFar'
  BY DEF IInv, TypeOK, AtPc, Cursor, DrivenSoFar, Driven, Idle, Waiting,
     BackoffState, EndOfLine, sendVars, flagVars
<1>5. BufferHoldsFrame' /\ Lengths'
  BY DEF IInv, BufferHoldsFrame, Lengths, IsEmptyLine, EndOfLine, sendVars
<1>6. LineReleased' /\ SyncMarksAttempt'
  BY DEF IInv, TypeOK, AtPc, LineReleased, SyncMarksAttempt, Idle, Waiting,
     EndOfLine, flagVars, hwVars
<1> QED
  BY <1>1, <1>2, <1>3, <1>4, <1>5, <1>6 DEF IInv

\* Appending leaves the first character of a stored line in its place.
LEMMA KeepCharStep ==
    ASSUME IInv, NEW c \in Chars, KeepChar(c)
    PROVE  IInv'
<1>1. TypeOK'
  <2>1. dataBuf' \in Seq(Chars) /\ Len(dataBuf') <= MAX_MSG
    <3>1. CASE Len(dataBuf) < MAX_MSG
      BY <3>1, AppendProperties, LenProperties, MaxMsgAssumption DEF KeepChar, IInv,
         TypeOK
    <3>2. CASE ~(Len(dataBuf) < MAX_MSG)
      BY <3>2 DEF KeepChar, IInv, TypeOK
    <3> QED
      BY <3>1, <3>2
  <2> QED
    BY <2>1 DEF IInv, TypeOK, Tim2Registers, MonitorTypeOK, PCs, KeepChar, GoTo,
       mainVars, sendVars, flagVars, hwVars
<1>2. AtPc' /\ BeforeBoot'
  BY DEF IInv, TypeOK, AtPc, BeforeBoot, BackoffState, TimerRunsIffSending, Idle,
     Waiting, KeepChar, GoTo, sendVars, flagVars, hwVars
<1>3. TimerState' /\ BackoffState' /\ TimerRunsIffSending'
  BY DEF IInv, TypeOK, Tim2Registers, AtPc, BeforeBoot, TimerState, BackoffState,
     TimerRunsIffSending, Idle, Waiting, KeepChar, GoTo, sendVars, flagVars, hwVars
<1>4. Cursor' /\ DrivenSoFar'
  BY DEF IInv, TypeOK, AtPc, Cursor, DrivenSoFar, Driven, Idle, Waiting,
     BackoffState, KeepChar, sendVars, flagVars
<1>5. BufferHoldsFrame' /\ Lengths'
  <2>1. BufferHoldsFrame' /\ Len(frame') <= MAX_MSG + 7
    BY DEF IInv, BufferHoldsFrame, Lengths, KeepChar, sendVars
  <2>2. ASSUME gotMessage
        PROVE  ~IsEmptyLine(Append(dataBuf, c))
    <3>1. dataBuf \in Seq(Chars) /\ dataBuf # <<>> /\ dataBuf[1] # NUL
      BY <2>2 DEF IInv, TypeOK, Lengths, IsEmptyLine
    <3>2. 1 \in 1 .. Len(dataBuf)
      BY <3>1, EmptySeq, LenProperties
    <3>3. Append(dataBuf, c)[1] = dataBuf[1] /\ Append(dataBuf, c) # <<>>
      BY <3>1, <3>2, AppendProperties
    <3> QED
      BY <3>1, <3>3 DEF IsEmptyLine
  <2> QED
    BY <2>1, <2>2 DEF IInv, Lengths, KeepChar
<1>6. LineReleased' /\ SyncMarksAttempt'
  BY DEF IInv, TypeOK, AtPc, LineReleased, SyncMarksAttempt, Idle, Waiting,
     KeepChar, flagVars, hwVars
<1> QED
  BY <1>1, <1>2, <1>3, <1>4, <1>5, <1>6 DEF IInv

\* Only the place changes.
LEMMA NotNowStep ==
    ASSUME IInv, NotNow
    PROVE  IInv'
<1>1. TypeOK'
  BY DEF IInv, TypeOK, Tim2Registers, MonitorTypeOK, PCs, NotNow, GoTo, sendVars,
     flagVars, hwVars
<1>2. AtPc' /\ BeforeBoot'
  BY DEF IInv, TypeOK, AtPc, BeforeBoot, BackoffState, TimerRunsIffSending, Idle,
     Waiting, NotNow, GoTo, sendVars, flagVars, hwVars
<1>3. TimerState' /\ BackoffState' /\ TimerRunsIffSending'
  BY DEF IInv, TypeOK, Tim2Registers, AtPc, BeforeBoot, TimerState, BackoffState,
     TimerRunsIffSending, Idle, Waiting, NotNow, GoTo, sendVars, flagVars, hwVars
<1>4. Cursor' /\ DrivenSoFar'
  BY DEF IInv, TypeOK, AtPc, Cursor, DrivenSoFar, Driven, Idle, Waiting,
     BackoffState, NotNow, sendVars, flagVars
<1>5. BufferHoldsFrame' /\ Lengths'
  BY DEF IInv, BufferHoldsFrame, Lengths, IsEmptyLine, NotNow, sendVars
<1>6. LineReleased' /\ SyncMarksAttempt'
  BY DEF IInv, TypeOK, AtPc, LineReleased, SyncMarksAttempt, Idle, Waiting, NotNow,
     flagVars, hwVars
<1> QED
  BY <1>1, <1>2, <1>3, <1>4, <1>5, <1>6 DEF IInv

\* The stored line becomes the frame, and the buffer is ready for it.
LEMMA BuildFrameStep ==
    ASSUME IInv, BuildFrame
    PROVE  IInv'
<1>1. /\ transBuf' \in RingBufferOf(Elements)
      /\ transBuf'.put = 0 /\ transBuf'.get = 0
  <2>1. 0 \in Slots
    BY BufSizeAssumption DEF Slots
  <2> QED
    BY <2>1 DEF IInv, TypeOK, BuildFrame, ResetBuffer, RingBufferOf
<1>2. frame' \in Seq(Data) /\ Len(frame') <= MAX_MSG + 7 /\ filled' \in 0 .. Len(frame')
  BY FrameTyped, LenProperties DEF IInv, TypeOK, BuildFrame
<1>3. Idle /\ Idle' /\ currByte' = 0 /\ currBit' = 0 /\ ~gotMessage' /\ filled' = 0
  BY DEF IInv, AtPc, Cursor, BuildFrame, GoTo, Idle, flagVars
<1>4. TypeOK'
  <2>1. currByte' \in Slots /\ currBit' \in 0 .. BITS - 1
    BY <1>3, BufSizeAssumption, BitsAssumption DEF Slots
  <2> QED
    BY <1>1, <1>2, <1>3, <2>1 DEF IInv, TypeOK, MonitorTypeOK, PCs, BuildFrame,
       GoTo, flagVars, hwVars
<1>5. AtPc' /\ BeforeBoot' /\ Cursor' /\ DrivenSoFar'
  BY <1>1, <1>3 DEF IInv, TypeOK, AtPc, BeforeBoot, Cursor, DrivenSoFar, Idle,
     BuildFrame, GoTo, flagVars, hwVars
<1>6. TimerState' /\ BackoffState' /\ TimerRunsIffSending'
  BY <1>3 DEF IInv, TypeOK, TimerState, BackoffState, TimerRunsIffSending,
     BuildFrame, GoTo, flagVars, hwVars
<1>7. BufferHoldsFrame' /\ Lengths'
  BY <1>1, <1>2, <1>3 DEF BufferHoldsFrame, Lengths
<1>8. LineReleased' /\ SyncMarksAttempt'
  BY DEF IInv, LineReleased, SyncMarksAttempt, BuildFrame, flagVars, hwVars
<1> QED
  BY <1>4, <1>5, <1>6, <1>7, <1>8 DEF IInv

\* One more byte of the frame is in the buffer, and there was room for it.
LEMMA FillByteStep ==
    ASSUME IInv, FillByte
    PROVE  IInv'
<1>1. /\ filled \in Nat /\ filled + 1 \in 1 .. Len(frame) /\ Len(frame) \in Nat
      /\ frame[filled + 1] \in Data
  BY Indices, LenProperties, ElementOfSeq DEF IInv, TypeOK, FillByte
<1>2. transBuf.put = 2 * filled /\ transBuf.put + 2 < BUF_SIZE
  BY <1>1, FrameFitsAssumption, BufSizeAssumption, MaxMsgAssumption DEF IInv,
     BufferHoldsFrame, Lengths
<1>3. /\ transBuf' \in RingBufferOf(Elements)
      /\ transBuf'.put = transBuf.put + 2
      /\ transBuf'.get = transBuf.get
      /\ transBuf'.buffer[transBuf.put] = <<frame[filled + 1], "hi">>
      /\ transBuf'.buffer[transBuf.put + 1] = <<frame[filled + 1], "lo">>
      /\ \A i \in Slots : i < transBuf.put => transBuf'.buffer[i] = transBuf.buffer[i]
  BY <1>1, <1>2, TransmitByteAppends DEF IInv, TypeOK, FillByte
<1>4. TypeOK'
  BY <1>1, <1>3 DEF IInv, TypeOK, Tim2Registers, MonitorTypeOK, PCs, FillByte,
     flagVars, hwVars
<1>5. AtPc' /\ BeforeBoot' /\ TimerState' /\ BackoffState' /\ TimerRunsIffSending'
  BY DEF IInv, AtPc, BeforeBoot, TimerState, BackoffState, TimerRunsIffSending,
     Idle, Waiting, FillByte, flagVars, hwVars
<1>6. Cursor' /\ DrivenSoFar'
  <2>1. currByte = 0 /\ currBit = 0 /\ Idle
    BY DEF IInv, AtPc, Cursor, FillByte
  <2> QED
    BY <1>1, <1>2, <1>3, <2>1 DEF Cursor, DrivenSoFar, Idle, FillByte, flagVars
<1>7. BufferHoldsFrame'
  <2>1. /\ transBuf'.get = 0 /\ transBuf'.put = 2 * filled'
        /\ filled' = filled + 1 /\ frame' = frame
    BY <1>1, <1>2, <1>3 DEF IInv, BufferHoldsFrame, FillByte
  <2>2. ASSUME NEW i \in 1 .. filled'
        PROVE  /\ transBuf'.buffer[2 * i - 2] = <<frame[i], "hi">>
               /\ transBuf'.buffer[2 * i - 1] = <<frame[i], "lo">>
    <3>1. CASE i = filled + 1
      <4>1. 2 * i - 2 = transBuf.put /\ 2 * i - 1 = transBuf.put + 1
        BY <1>1, <1>2, <3>1
      <4> QED
        BY <1>3, <3>1, <4>1
    <3>2. CASE i \in 1 .. filled
      <4>1. /\ 2 * i - 2 \in Slots /\ 2 * i - 2 < transBuf.put
            /\ 2 * i - 1 \in Slots /\ 2 * i - 1 < transBuf.put
        BY <1>1, <1>2, <3>2, BufSizeAssumption DEF Slots
      <4> QED
        BY <1>3, <3>2, <4>1 DEF IInv, BufferHoldsFrame
    <3> QED
      BY <1>1, <2>1, <2>2, <3>1, <3>2
  <2> QED
    BY <2>1, <2>2 DEF BufferHoldsFrame
<1>8. Lengths' /\ LineReleased' /\ SyncMarksAttempt'
  BY DEF IInv, Lengths, IsEmptyLine, LineReleased, SyncMarksAttempt, FillByte,
     flagVars, hwVars
<1> QED
  BY <1>4, <1>5, <1>6, <1>7, <1>8 DEF IInv

\* The text is in the buffer; no message is stored any more.
LEMMA ClearMessageStep ==
    ASSUME IInv, ClearMessage
    PROVE  IInv'
<1>1. TypeOK'
  BY LenProperties, MaxMsgAssumption DEF IInv, TypeOK, Tim2Registers, MonitorTypeOK,
     PCs, ClearMessage, GoTo, sendVars, flagVars, hwVars
<1>2. AtPc' /\ BeforeBoot'
  BY DEF IInv, TypeOK, AtPc, BeforeBoot, BackoffState, TimerRunsIffSending, Idle,
     Waiting, ClearMessage, GoTo, sendVars, flagVars, hwVars
<1>3. TimerState' /\ BackoffState' /\ TimerRunsIffSending'
  BY DEF IInv, TypeOK, Tim2Registers, AtPc, BeforeBoot, TimerState, BackoffState,
     TimerRunsIffSending, Idle, Waiting, ClearMessage, GoTo, sendVars, flagVars,
     hwVars
<1>4. Cursor' /\ DrivenSoFar'
  BY DEF IInv, TypeOK, AtPc, Cursor, DrivenSoFar, Driven, Idle, Waiting,
     BackoffState, ClearMessage, sendVars, flagVars
<1>5. BufferHoldsFrame' /\ Lengths'
  BY DEF IInv, AtPc, BufferHoldsFrame, Lengths, ClearMessage, GoTo, sendVars
<1>6. LineReleased' /\ SyncMarksAttempt'
  BY DEF IInv, TypeOK, AtPc, LineReleased, SyncMarksAttempt, Idle, Waiting,
     ClearMessage, flagVars, hwVars
<1> QED
  BY <1>1, <1>2, <1>3, <1>4, <1>5, <1>6 DEF IInv

\* The timer starts as programmed, with nothing driven yet and the cursors at 0.
LEMMA StartStep ==
    ASSUME IInv, Start
    PROVE  IInv'
<1>1. TypeOK'
  BY DEF IInv, TypeOK, Tim2Registers, MonitorTypeOK, PCs, Start, GoTo,
     StartTransmission, StartCounter, sendVars
<1>2. AtPc' /\ BeforeBoot'
  BY DEF IInv, TypeOK, AtPc, BeforeBoot, BackoffState, TimerRunsIffSending, Idle,
     Waiting, Start, GoTo, StartTransmission, StartCounter, sendVars
<1>3. TimerState' /\ BackoffState' /\ TimerRunsIffSending'
  BY DEF IInv, TypeOK, Tim2Registers, AtPc, BeforeBoot, TimerState, BackoffState,
     TimerRunsIffSending, Idle, Waiting, Start, GoTo, StartTransmission,
     StartCounter, sendVars
<1>4. Cursor' /\ DrivenSoFar'
  <2>1. currByte = 0 /\ currBit = 0
    BY DEF IInv, TypeOK, AtPc, Cursor, BackoffState, Idle, Start, GoTo
  <2>2. Driven' = {}
    BY <2>1, NothingDriven DEF Start, sendVars, Driven
  <2> QED
    BY <2>1, <2>2 DEF IInv, Cursor, DrivenSoFar, Idle, Start, StartTransmission,
       sendVars
<1>5. BufferHoldsFrame' /\ Lengths'
  BY DEF IInv, BufferHoldsFrame, Lengths, IsEmptyLine, Start, sendVars
<1>6. LineReleased' /\ SyncMarksAttempt'
  BY DEF IInv, TypeOK, AtPc, LineReleased, SyncMarksAttempt, Idle, Waiting, Start,
     GoTo, StartTransmission, StartCounter, mainVars, sendVars, flagVars, hwVars
<1> QED
  BY <1>1, <1>2, <1>3, <1>4, <1>5, <1>6 DEF IInv

\* The cursors go back while nothing runs.
LEMMA RetryStep ==
    ASSUME IInv, Retry
    PROVE  IInv'
<1>1. TypeOK'
  BY BufSizeAssumption, BitsAssumption DEF IInv, TypeOK, Tim2Registers,
     MonitorTypeOK, PCs, Slots, Retry, GoTo, Rewind, flagVars, hwVars
<1>2. AtPc' /\ BeforeBoot'
  BY DEF IInv, TypeOK, AtPc, BeforeBoot, BackoffState, TimerRunsIffSending, Idle,
     Waiting, Retry, GoTo, Rewind, flagVars, hwVars
<1>3. TimerState' /\ BackoffState' /\ TimerRunsIffSending'
  BY DEF IInv, TypeOK, Tim2Registers, AtPc, BeforeBoot, TimerState, BackoffState,
     TimerRunsIffSending, Idle, Waiting, Retry, GoTo, Rewind, flagVars, hwVars
<1>4. Cursor' /\ DrivenSoFar'
  BY Indices DEF IInv, TypeOK, Cursor, DrivenSoFar, Idle, Waiting, Retry, Rewind,
     flagVars
<1>5. BufferHoldsFrame' /\ Lengths'
  BY DEF IInv, BufferHoldsFrame, Lengths, IsEmptyLine, Retry, Waiting
<1>6. LineReleased' /\ SyncMarksAttempt'
  BY DEF IInv, TypeOK, AtPc, LineReleased, SyncMarksAttempt, Idle, Waiting, Retry,
     flagVars, hwVars
<1> QED
  BY <1>1, <1>2, <1>3, <1>4, <1>5, <1>6 DEF IInv

\* The flag announces a backoff while the timer stands still.
LEMMA SetRetransmissionStep ==
    ASSUME IInv, SetRetransmission
    PROVE  IInv'
<1>1. TypeOK'
  BY DEF IInv, TypeOK, Tim2Registers, MonitorTypeOK, PCs, SetRetransmission, GoTo,
     sendVars, hwVars
<1>2. AtPc' /\ BeforeBoot'
  BY DEF IInv, TypeOK, AtPc, BeforeBoot, BackoffState, TimerRunsIffSending, Idle,
     Waiting, SetRetransmission, GoTo, sendVars, hwVars
<1>3. TimerState' /\ BackoffState' /\ TimerRunsIffSending'
  BY DEF IInv, TypeOK, Tim2Registers, AtPc, BeforeBoot, TimerState, BackoffState,
     TimerRunsIffSending, Idle, Waiting, SetRetransmission, GoTo, sendVars, hwVars
<1>4. Cursor' /\ DrivenSoFar'
  BY DEF IInv, TypeOK, AtPc, Cursor, DrivenSoFar, Driven, Idle, Waiting,
     BackoffState, SetRetransmission, sendVars
<1>5. BufferHoldsFrame' /\ Lengths'
  BY DEF IInv, BufferHoldsFrame, Lengths, IsEmptyLine, SetRetransmission, sendVars
<1>6. LineReleased' /\ SyncMarksAttempt'
  BY DEF IInv, TypeOK, AtPc, LineReleased, SyncMarksAttempt, Idle, Waiting,
     SetRetransmission, GoTo, mainVars, sendVars, flagVars, hwVars
<1> QED
  BY <1>1, <1>2, <1>3, <1>4, <1>5, <1>6 DEF IInv

\* The timer is programmed for the backoff.
LEMMA SetBackoffStep ==
    ASSUME IInv, NEW w \in Backoffs, SetBackoff(w)
    PROVE  IInv'
<1>1. TypeOK'
  BY DEF IInv, TypeOK, Tim2Registers, MonitorTypeOK, PCs, SetBackoff, GoTo,
     RetransmissionTimer, SetArr, SetPsc, StopCounter, sendVars, flagVars
<1>2. AtPc' /\ BeforeBoot'
  BY DEF IInv, TypeOK, AtPc, BeforeBoot, BackoffState, TimerRunsIffSending, Idle,
     Waiting, SetBackoff, GoTo, RetransmissionTimer, SetArr, SetPsc, StopCounter,
     sendVars, flagVars
<1>3. TimerState' /\ BackoffState' /\ TimerRunsIffSending'
  <2>1. /\ ~tim2.cen /\ ~tim2.uif /\ tim2'.cen = FALSE
        /\ tim2'.uif = tim2.uif /\ tim2'.psc = "ms" /\ tim2'.arr = w
    BY DEF IInv, TypeOK, Tim2Registers, AtPc, BeforeBoot, TimerState,
       TimerRunsIffSending, Waiting, SetBackoff, GoTo, RetransmissionTimer, SetArr,
       SetPsc, StopCounter
  <2> QED
    BY <2>1 DEF IInv, TypeOK, AtPc, TimerState, BackoffState, TimerRunsIffSending,
       Waiting, SetBackoff, GoTo, sendVars, flagVars
<1>4. Cursor' /\ DrivenSoFar'
  BY DEF IInv, TypeOK, AtPc, Cursor, DrivenSoFar, Driven, Idle, Waiting,
     BackoffState, SetBackoff, sendVars, flagVars
<1>5. BufferHoldsFrame' /\ Lengths'
  BY DEF IInv, BufferHoldsFrame, Lengths, IsEmptyLine, SetBackoff, sendVars
<1>6. LineReleased' /\ SyncMarksAttempt'
  BY DEF IInv, TypeOK, AtPc, LineReleased, SyncMarksAttempt, Idle, Waiting,
     SetBackoff, flagVars
<1> QED
  BY <1>1, <1>2, <1>3, <1>4, <1>5, <1>6 DEF IInv

-----------------------------------------------------------------------------
(* Every interrupt of TIM2 preserves the invariant. *)

\* The timer goes from the backoff to the first half-bit without a stop.
LEMMA BackoffOverStep ==
    ASSUME IInv, BackoffOver
    PROVE  IInv'
<1>1. TypeOK'
  BY DEF IInv, TypeOK, Tim2Registers, MonitorTypeOK, PCs, BackoffOver,
     StartTransmission, StartCounter, TransmissionTimer, SetArr, SetPsc,
     StopCounter, Acknowledged, mainVars, sendVars
<1>2. AtPc' /\ BeforeBoot'
  <2>1. booted
    BY DEF IInv, BeforeBoot, BackoffOver
  <2>2. pc = "loop" /\ inTransmission
    BY <2>1, InterruptAtLoopHead DEF BackoffOver
  <2> QED
    BY <2>1, <2>2 DEF IInv, AtPc, BeforeBoot, BackoffOver, mainVars
<1>3. TimerState' /\ BackoffState' /\ TimerRunsIffSending'
  BY DEF IInv, TypeOK, Tim2Registers, AtPc, BeforeBoot, TimerState, BackoffState,
     TimerRunsIffSending, Idle, Waiting, BackoffOver, StartTransmission,
     StartCounter, TransmissionTimer, SetArr, SetPsc, StopCounter, Acknowledged,
     mainVars, sendVars
<1>4. Cursor' /\ DrivenSoFar'
  <2>1. currByte = 0 /\ currBit = 0 /\ ~transmissionComplete
    BY DEF IInv, BackoffState, BackoffOver
  <2>2. Driven' = {}
    BY <2>1, NothingDriven DEF BackoffOver, sendVars, Driven
  <2> QED
    BY <2>1, <2>2 DEF IInv, Cursor, DrivenSoFar, Idle, BackoffOver, sendVars
<1>5. BufferHoldsFrame' /\ Lengths'
  BY DEF IInv, BufferHoldsFrame, Lengths, IsEmptyLine, BackoffOver, mainVars,
     sendVars
<1>6. LineReleased' /\ SyncMarksAttempt'
  BY DEF IInv, TypeOK, AtPc, LineReleased, SyncMarksAttempt, Idle, Waiting,
     BackoffOver, StartTransmission
<1> QED
  BY <1>1, <1>2, <1>3, <1>4, <1>5, <1>6 DEF IInv

\* The end leaves the cursor at the beginning of a byte.
LEMMA FinishStep ==
    ASSUME IInv, Finish
    PROVE  IInv'
<1>1. TypeOK'
  BY DEF IInv, TypeOK, Tim2Registers, MonitorTypeOK, PCs, Finish, StopTransmission,
     StopCounter, Acknowledged, EndSync, mainVars, sendVars
<1>2. AtPc' /\ BeforeBoot'
  <2>1. booted' /\ pc' = pc /\ filled' = filled /\ frame' = frame
    BY DEF Finish, mainVars
  <2>2. CASE booted
    <3>1. pc = "loop"
      BY <2>2, InterruptAtLoopHead DEF Finish
    <3> QED
      BY <2>1, <3>1 DEF IInv, AtPc, BeforeBoot
  <2>3. CASE ~booted
    <3>1. pc \in {"loop", "getch", "test", "fill"} /\ Idle'
      BY <2>3 DEF IInv, BeforeBoot, Idle, Finish, StopTransmission, StopCounter
    <3> QED
      BY <2>1, <3>1 DEF IInv, AtPc, BeforeBoot, Finish, mainVars, sendVars
  <2> QED
    BY <2>2, <2>3
<1>3. TimerState' /\ BackoffState' /\ TimerRunsIffSending'
  BY DEF IInv, TypeOK, Tim2Registers, AtPc, BeforeBoot, TimerState, BackoffState,
     TimerRunsIffSending, Idle, Waiting, Finish, StopTransmission, StopCounter,
     Acknowledged, mainVars, sendVars
<1>4. Cursor' /\ DrivenSoFar'
  <2>1. currBit = 0
    BY Indices DEF IInv, Cursor, BufferHoldsFrame, Finish, AtEnd, HasElement
  <2> QED
    BY <2>1 DEF IInv, Cursor, DrivenSoFar, Finish, StopTransmission, StopCounter,
       sendVars
<1>5. BufferHoldsFrame' /\ Lengths'
  BY DEF IInv, BufferHoldsFrame, Lengths, IsEmptyLine, Finish, mainVars, sendVars
<1>6. LineReleased' /\ SyncMarksAttempt'
  BY DEF IInv, TypeOK, AtPc, LineReleased, SyncMarksAttempt, Idle, Waiting, Finish,
     StopTransmission, StopCounter, EndSync
<1> QED
  BY <1>1, <1>2, <1>3, <1>4, <1>5, <1>6 DEF IInv

\* A collision leaves a message to repeat and the line high.
LEMMA CollideStep ==
    ASSUME IInv, Collide
    PROVE  IInv'
<1>1. TypeOK'
  BY DEF IInv, TypeOK, Tim2Registers, MonitorTypeOK, PCs, Collide,
     StopTransmission, StopCounter, Acknowledged, EndSync, mainVars, sendVars
<1>2. AtPc' /\ BeforeBoot'
  BY InterruptAtLoopHead DEF IInv, AtPc, BeforeBoot, Collide, StopTransmission,
     StopCounter, Acknowledged, mainVars, sendVars
<1>3. TimerState' /\ BackoffState' /\ TimerRunsIffSending'
  BY DEF IInv, TypeOK, Tim2Registers, AtPc, BeforeBoot, TimerState, BackoffState,
     TimerRunsIffSending, Idle, Waiting, Collide, StopTransmission, StopCounter,
     Acknowledged, mainVars, sendVars
<1>4. Cursor' /\ DrivenSoFar'
  BY DEF IInv, TypeOK, AtPc, Cursor, DrivenSoFar, Driven, Idle, Waiting,
     BackoffState, Collide, StopTransmission, StopCounter, sendVars
<1>5. BufferHoldsFrame' /\ Lengths'
  BY DEF IInv, BufferHoldsFrame, Lengths, IsEmptyLine, Collide, mainVars, sendVars
<1>6. LineReleased' /\ SyncMarksAttempt'
  BY DEF IInv, TypeOK, AtPc, LineReleased, SyncMarksAttempt, Idle, Waiting, Collide,
     StopTransmission, StopCounter, EndSync
<1> QED
  BY <1>1, <1>2, <1>3, <1>4, <1>5, <1>6 DEF IInv

\* The next bit is driven and the cursor moves on, not beyond the frame.
LEMMA SendBitStep ==
    ASSUME IInv, SendBit
    PROVE  IInv'
<1>1. /\ booted /\ inTransmission /\ pc = "loop" /\ tim2.cen
      /\ ~retransmissionTimeoutActive
  BY InterruptAtLoopHead DEF IInv, TimerState, SendBit
<1>2. /\ booted' = TRUE /\ inTransmission' = inTransmission /\ pc' = pc
      /\ transmissionComplete' = transmissionComplete
      /\ retransmissionTimeoutActive' = retransmissionTimeoutActive
      /\ transBuf' = transBuf
      /\ frame' = frame /\ filled' = filled /\ gotMessage' = gotMessage
      /\ dataBuf' = dataBuf
      /\ tim2' = [tim2 EXCEPT !.uif = FALSE]
  BY <1>1 DEF SendBit, Acknowledged, mainVars, flagVars
<1>3. currByte < transBuf.put
  BY Indices DEF IInv, Cursor, SendBit, AtEnd
<1>4. \/ currBit + 1 = BITS /\ currBit' = 0 /\ currByte' = currByte + 1
      \/ currBit + 1 < BITS /\ currBit' = currBit + 1 /\ currByte' = currByte
  BY Indices DEF IInv, SendBit, NextBit
<1>5. <<currByte, currBit>> \in Slots \X (0 .. BITS - 1)
  BY DEF IInv, TypeOK
<1>6. TypeOK'
  <2>1. currByte' \in Slots /\ currBit' \in 0 .. BITS - 1
    BY <1>3, <1>4, Indices DEF IInv, Slots
  <2>2. onWire' \in SUBSET (Slots \X (0 .. BITS - 1))
    BY <1>5 DEF IInv, TypeOK, SendBit
  <2>3. pc5' \in {0, 1} /\ pc9' \in {0, 1}
    BY DEF IInv, TypeOK, SendBit
  <2>4. tim2' \in Tim2Registers
    BY <1>2 DEF IInv, TypeOK, Tim2Registers
  <2>5. packetMode' = packetMode /\ monitorState' = monitorState
    BY DEF SendBit, mainVars
  <2> QED
    BY <1>1, <1>2, <2>1, <2>2, <2>3, <2>4, <2>5 DEF IInv, TypeOK, MonitorTypeOK, PCs
<1>7. AtPc' /\ BeforeBoot' /\ BackoffState'
  BY <1>1, <1>2 DEF IInv, AtPc, BeforeBoot, BackoffState
<1>8. TimerState' /\ TimerRunsIffSending'
  BY <1>1, <1>2 DEF IInv, TypeOK, Tim2Registers, TimerState, TimerRunsIffSending
<1>9. Cursor'
  BY <1>1, <1>2, <1>3, <1>4, Indices DEF IInv, Cursor, Idle
<1>10. DrivenSoFar'
  <2>1. onWire' = Driven \cup {<<currByte, currBit>>}
    BY <1>1 DEF IInv, DrivenSoFar, SendBit
  <2>2. Driven' = Driven \cup {<<currByte, currBit>>}
    <3>1. ASSUME NEW p \in Slots \X (0 .. BITS - 1)
          PROVE  (p[1] < currByte' \/ (p[1] = currByte' /\ p[2] < currBit'))
                 <=> \/ p[1] < currByte \/ (p[1] = currByte /\ p[2] < currBit)
                     \/ p[1] = currByte /\ p[2] = currBit
      <4>1. p[1] \in Nat /\ p[2] \in Nat /\ p[2] < BITS
        BY BufSizeAssumption, BitsAssumption DEF Slots
      <4> QED
        BY <1>4, <4>1, Indices DEF IInv
    <3> QED
      BY <1>5, <3>1 DEF Driven
  <2> QED
    BY <2>1, <2>2 DEF DrivenSoFar
<1>11. BufferHoldsFrame' /\ Lengths'
  BY <1>2 DEF IInv, BufferHoldsFrame, Lengths, IsEmptyLine
<1>12. LineReleased' /\ SyncMarksAttempt'
  <2>1. pc5' = 1 <=> <<0, 0>> \in onWire'
    BY <1>1 DEF IInv, TypeOK, SyncMarksAttempt, SendBit
  <2> QED
    BY <1>1, <1>2, <2>1 DEF LineReleased, SyncMarksAttempt
<1> QED
  BY <1>6, <1>7, <1>8, <1>9, <1>10, <1>11, <1>12 DEF IInv

-----------------------------------------------------------------------------
(* The hardware and the line preserve the invariant. *)

\* Only a running timer sets its flag.
LEMMA Tim2UpdateStep ==
    ASSUME IInv, Tim2Update
    PROVE  IInv'
<1>1. TypeOK'
  BY DEF IInv, TypeOK, Tim2Registers, MonitorTypeOK, PCs, Tim2Update, mainVars,
     sendVars, flagVars
<1>2. AtPc' /\ BeforeBoot'
  BY DEF IInv, TypeOK, AtPc, BeforeBoot, BackoffState, TimerRunsIffSending, Idle,
     Waiting, Tim2Update, mainVars, sendVars, flagVars
<1>3. TimerState' /\ BackoffState' /\ TimerRunsIffSending'
  BY DEF IInv, TypeOK, Tim2Registers, AtPc, BeforeBoot, TimerState, BackoffState,
     TimerRunsIffSending, Idle, Waiting, Tim2Update, mainVars, sendVars, flagVars
<1>4. Cursor' /\ DrivenSoFar'
  <2>1. Driven' = Driven
    BY DEF Driven, Tim2Update, sendVars
  <2> QED
    BY <2>1 DEF IInv, Cursor, DrivenSoFar, Idle, Tim2Update, sendVars, flagVars
<1>5. BufferHoldsFrame' /\ Lengths'
  BY DEF IInv, BufferHoldsFrame, Lengths, IsEmptyLine, Tim2Update, mainVars,
     sendVars
<1>6. LineReleased' /\ SyncMarksAttempt'
  BY DEF IInv, TypeOK, AtPc, LineReleased, SyncMarksAttempt, Idle, Waiting,
     Tim2Update, flagVars
<1> QED
  BY <1>1, <1>2, <1>3, <1>4, <1>5, <1>6 DEF IInv

\* The main routine and the interrupt only read the monitor.
LEMMA LineStep ==
    ASSUME IInv, Line
    PROVE  IInv'
<1>1. TypeOK'
  BY DEF IInv, TypeOK, Tim2Registers, MonitorTypeOK, PCs, Line, MonitorNext,
     EdgeSeen, Verdict, MonitorStates, mainVars, sendVars, flagVars, hwVars
<1>2. AtPc' /\ BeforeBoot'
  BY DEF IInv, TypeOK, AtPc, BeforeBoot, BackoffState, TimerRunsIffSending, Idle,
     Waiting, Line, mainVars, sendVars, flagVars, hwVars
<1>3. TimerState' /\ BackoffState' /\ TimerRunsIffSending'
  BY DEF IInv, TypeOK, Tim2Registers, AtPc, BeforeBoot, TimerState, BackoffState,
     TimerRunsIffSending, Idle, Waiting, Line, mainVars, sendVars, flagVars, hwVars
<1>4. Cursor' /\ DrivenSoFar'
  <2>1. Driven' = Driven
    BY DEF Driven, Line, sendVars
  <2> QED
    BY <2>1 DEF IInv, Cursor, DrivenSoFar, Idle, Line, sendVars, flagVars
<1>5. BufferHoldsFrame' /\ Lengths'
  BY DEF IInv, BufferHoldsFrame, Lengths, IsEmptyLine, Line, mainVars, sendVars
<1>6. LineReleased' /\ SyncMarksAttempt'
  BY DEF IInv, TypeOK, AtPc, LineReleased, SyncMarksAttempt, Idle, Waiting, Line,
     flagVars, hwVars
<1> QED
  BY <1>1, <1>2, <1>3, <1>4, <1>5, <1>6 DEF IInv

-----------------------------------------------------------------------------
LEMMA Initially == Init => IInv
<1> SUFFICES ASSUME Init PROVE IInv
  OBVIOUS
<1>1. TypeOK
  <2>1. 0 \in Slots /\ <<"zero", "hi">> \in Elements
    BY BufSizeAssumption DEF Slots, Elements, Data
  <2>2. transBuf \in RingBufferOf(Elements)
    BY <2>1 DEF Init, EmptyRing, RingBufferOf
  <2>3. dataBuf \in Seq(Chars) /\ Len(dataBuf) <= MAX_MSG
    BY MaxMsgAssumption DEF Init
  <2>4. frame \in Seq(Data) /\ filled \in 0 .. Len(frame)
    BY DEF Init
  <2>5. tim2 \in Tim2Registers
    BY DEF Init, Tim2Registers
  <2>6. currBit \in 0 .. BITS - 1
    BY BitsAssumption DEF Init
  <2> QED
    BY <2>1, <2>2, <2>3, <2>4, <2>5, <2>6 DEF Init, TypeOK, PCs, MonitorInit,
       MonitorTypeOK, MonitorStates
<1>2. AtPc /\ BeforeBoot /\ TimerState /\ BackoffState /\ TimerRunsIffSending
  BY DEF Init, AtPc, BeforeBoot, TimerState, BackoffState, TimerRunsIffSending,
     Idle, Waiting
<1>3. Cursor /\ DrivenSoFar /\ BufferHoldsFrame
  BY DEF Init, Cursor, DrivenSoFar, BufferHoldsFrame, EmptyRing
<1>4. Lengths /\ LineReleased /\ SyncMarksAttempt
  BY MaxMsgAssumption DEF Init, Lengths, LineReleased, SyncMarksAttempt
<1> QED
  BY <1>1, <1>2, <1>3, <1>4 DEF IInv

LEMMA Inductive == IInv /\ [Next]_vars => IInv'
<1> SUFFICES ASSUME IInv, [Next]_vars PROVE IInv'
  OBVIOUS
<1>1. CASE UserTypes
  BY <1>1, EndOfLineStep, KeepCharStep DEF UserTypes
<1>2. CASE MainStep
  BY <1>2, AwaitKeyStep, NotNowStep, BuildFrameStep, FillByteStep, ClearMessageStep,
     StartStep, RetryStep, SetRetransmissionStep, SetBackoffStep DEF MainStep
<1>3. CASE TIM2_IRQHandler
  BY <1>3, BackoffOverStep, FinishStep, CollideStep, SendBitStep DEF TIM2_IRQHandler
<1>4. CASE Tim2Update \/ Line
  BY <1>4, Tim2UpdateStep, LineStep
<1>5. CASE UNCHANGED vars
  <2>1. Driven' = Driven
    BY <1>5 DEF vars, sendVars, Driven
  <2>2. TypeOK' /\ AtPc' /\ BeforeBoot' /\ TimerState' /\ BackoffState' /\ Cursor'
    BY <1>5 DEF vars, mainVars, sendVars, flagVars, hwVars, IInv, TypeOK,
       MonitorTypeOK, AtPc, BeforeBoot, TimerState, BackoffState, Cursor, Idle,
       Waiting
  <2>3. /\ DrivenSoFar' /\ Lengths' /\ TimerRunsIffSending' /\ BufferHoldsFrame'
        /\ LineReleased' /\ SyncMarksAttempt'
    BY <1>5, <2>1 DEF vars, mainVars, sendVars, flagVars, hwVars, IInv, DrivenSoFar,
       Lengths, IsEmptyLine, TimerRunsIffSending, BufferHoldsFrame, LineReleased,
       SyncMarksAttempt
  <2> QED
    BY <2>2, <2>3 DEF IInv
<1> QED
  BY <1>1, <1>2, <1>3, <1>4, <1>5 DEF Next

\* The inductive invariant holds in every reachable state.
THEOREM Invariance == Spec => []IInv
<1>1. Init => IInv
  BY Initially
<1>2. IInv /\ [Next]_vars => IInv'
  BY Inductive
<1> QED
  BY <1>1, <1>2, PTL DEF Spec

-----------------------------------------------------------------------------
(* The invariants of Transmitter.tla, for every size of the constants. *)

\* Every variable keeps its type: the cursor never leaves transBuf.
THEOREM TypeCorrect == Spec => []TypeOK
<1>1. IInv => TypeOK
  BY DEF IInv
<1> QED
  BY <1>1, Invariance, PTL

\* inTransmission and the enable bit of TIM2 agree after the first interrupt.
THEOREM TimerFollowsFlag == Spec => []TimerRunsIffSending
<1>1. IInv => TimerRunsIffSending
  BY DEF IInv
<1> QED
  BY <1>1, Invariance, PTL

\* A running TIM2 has the scale and the period of what it is used for.
THEOREM TimerIsProgrammed == Spec => []TimerFitsMode
<1>1. IInv => TimerFitsMode
  <2> SUFFICES ASSUME IInv, tim2.cen
               PROVE  IF retransmissionTimeoutActive
                      THEN tim2.psc = "ms" /\ tim2.arr \in Backoffs
                      ELSE tim2.psc = "cpu" /\ tim2.arr = TICKS
    BY DEF TimerFitsMode
  <2>1. retransmissionTimeoutActive => inTransmission
    BY DEF IInv, BeforeBoot, TimerRunsIffSending
  <2>2. retransmissionTimeoutActive => pc # "backoff"
    BY <2>1 DEF IInv, AtPc, Waiting
  <2> QED
    BY <2>2 DEF IInv, TimerState
<1> QED
  BY <1>1, Invariance, PTL

\* transBuf holds the frame from slot 0 and put never wraps: with the longest
\* message too, a frame fits the buffer (FrameFitsAssumption).
THEOREM FrameIsInBuffer == Spec => []BufferHoldsFrame
<1>1. IInv => BufferHoldsFrame
  BY DEF IInv
<1> QED
  BY <1>1, Invariance, PTL

\* A card that drives no bits leaves the shared line high.
THEOREM LineIsReleased == Spec => []LineReleased
<1>1. IInv => LineReleased
  BY DEF IInv
<1> QED
  BY <1>1, Invariance, PTL

\* The sync signal spans an attempt exactly.
THEOREM SyncIsExact == Spec => []SyncMarksAttempt
<1>1. IInv => SyncMarksAttempt
  BY DEF IInv
<1> QED
  BY <1>1, Invariance, PTL

-----------------------------------------------------------------------------
(* The action properties of Transmitter.tla. *)

\* Nothing overwrites a frame that may still have to be sent.
THEOREM FrameIsStable == Spec => FrameStable
<1>1. ASSUME IInv, [Next]_vars, inTransmission \/ ~transmissionComplete
      PROVE  UNCHANGED <<transBuf, frame, filled>>
  <2>1. ~Idle
    BY <1>1 DEF Idle
  <2>2. ~BuildFrame /\ ~FillByte
    BY <1>1, <2>1 DEF IInv, AtPc, BuildFrame, GoTo, FillByte
  <2>3. CASE UserTypes
    BY <2>3 DEF UserTypes, EndOfLine, KeepChar, sendVars
  <2>4. CASE MainStep
    BY <2>2, <2>4 DEF MainStep, AwaitKey, NotNow, ClearMessage, Start, Retry,
       SetRetransmission, SetBackoff, sendVars
  <2>5. CASE TIM2_IRQHandler
    BY <2>5 DEF TIM2_IRQHandler, BackoffOver, Finish, Collide, SendBit, mainVars,
       sendVars
  <2>6. CASE Tim2Update \/ Line \/ UNCHANGED vars
    BY <2>6 DEF Tim2Update, Line, vars, mainVars, sendVars
  <2> QED
    BY <1>1, <2>3, <2>4, <2>5, <2>6 DEF Next
<1>2. IInv /\ [Next]_vars =>
        [inTransmission \/ ~transmissionComplete =>
           UNCHANGED <<transBuf, frame, filled>>]_vars
  BY <1>1
<1> QED
  BY <1>2, Invariance, PTL DEF Spec, FrameStable

\* At the end of a frame the cursor has passed every bit of it.
LEMMA AllDriven ==
    ASSUME IInv, Finish, inTransmission
    PROVE  filled = Len(frame) /\ onWire = FrameBits
<1>1. booted /\ pc = "loop" /\ ~retransmissionTimeoutActive
  BY InterruptAtLoopHead DEF IInv, BeforeBoot, Idle, Finish
<1>2. currByte = transBuf.put /\ currBit = 0
  BY Indices DEF IInv, Cursor, BufferHoldsFrame, Finish, AtEnd, HasElement
<1>3. Driven = FrameBits
  <2>1. ASSUME NEW p \in Slots \X (0 .. BITS - 1)
        PROVE  (p[1] < currByte \/ (p[1] = currByte /\ p[2] < currBit))
               <=> p[1] \in 0 .. transBuf.put - 1
    BY <1>2, Indices, BitsAssumption, BufSizeAssumption DEF IInv, Slots
  <2>2. \A i \in 0 .. transBuf.put - 1 : i \in Slots
    BY Indices, BufSizeAssumption DEF IInv, Slots
  <2> QED
    BY <2>1, <2>2 DEF Driven, FrameBits
<1> QED
  BY <1>1, <1>3 DEF IInv, AtPc, DrivenSoFar

\* A completed transmission has driven every bit of the frame in this attempt.
THEOREM CompleteIsWhole == Spec => CompleteMeansWholeFrame
<1>1. ASSUME IInv, [Next]_vars,
             inTransmission /\ ~inTransmission' /\ transmissionComplete'
      PROVE  filled = Len(frame) /\ onWire = FrameBits
  <2>1. CASE Finish
    BY <1>1, <2>1, AllDriven
  <2>2. CASE UserTypes
    BY <1>1, <2>2 DEF UserTypes, EndOfLine, KeepChar, flagVars
  <2>3. CASE MainStep
    BY <1>1, <2>3 DEF MainStep, AwaitKey, NotNow, BuildFrame, FillByte,
       ClearMessage, Start, StartTransmission, Retry, SetRetransmission, SetBackoff,
       flagVars
  <2>4. CASE BackoffOver \/ Collide \/ SendBit
    BY <1>1, <2>4 DEF BackoffOver, StartTransmission, Collide, SendBit, flagVars
  <2>5. CASE Tim2Update \/ Line \/ UNCHANGED vars
    BY <1>1, <2>5 DEF Tim2Update, Line, vars, flagVars
  <2> QED
    BY <1>1, <2>1, <2>2, <2>3, <2>4, <2>5 DEF Next, TIM2_IRQHandler
<1>2. IInv /\ [Next]_vars =>
        [inTransmission /\ ~inTransmission' /\ transmissionComplete' =>
           filled = Len(frame) /\ onWire = FrameBits]_vars
  BY <1>1
<1> QED
  BY <1>2, Invariance, PTL DEF Spec, CompleteMeansWholeFrame

\* A finished line is only taken back by framing it.
THEOREM StoredLineIsKept == Spec => StoredLineIsFramed
<1>1. ASSUME IInv, [Next]_vars, gotMessage /\ ~gotMessage'
      PROVE  pc' = "fill" /\ frame' = Frame(dataBuf)
  <2>1. CASE UserTypes
    BY <1>1, <2>1 DEF IInv, Lengths, UserTypes, EndOfLine, KeepChar
  <2>2. CASE MainStep
    BY <1>1, <2>2 DEF MainStep, AwaitKey, NotNow, BuildFrame, FillByte,
       ClearMessage, Start, Retry, SetRetransmission, SetBackoff, GoTo
  <2>3. CASE TIM2_IRQHandler
    BY <1>1, <2>3 DEF TIM2_IRQHandler, BackoffOver, Finish, Collide, SendBit,
       mainVars
  <2>4. CASE Tim2Update \/ Line \/ UNCHANGED vars
    BY <1>1, <2>4 DEF Tim2Update, Line, vars, mainVars
  <2> QED
    BY <1>1, <2>1, <2>2, <2>3, <2>4 DEF Next
<1>2. IInv /\ [Next]_vars =>
        [gotMessage /\ ~gotMessage' => pc' = "fill" /\ frame' = Frame(dataBuf)]_vars
  BY <1>1
<1> QED
  BY <1>2, Invariance, PTL DEF Spec, StoredLineIsFramed
=============================================================================
