---------------------------- MODULE Transmitter ----------------------------
(***************************************************************************)
(* The transmitter of src/transmitter.c: the main routine that collects a  *)
(* line of UART input, frames it into transBuf and starts timer TIM2, and  *)
(* the TIM2 interrupt that puts one half-bit on PC9 per tick, stops at the *)
(* end of the frame or on a collision, and ends the random backoff.        *)
(*                                                                         *)
(* The main loop is interrupted between any two of its steps; an interrupt *)
(* handler runs to its end (all have one priority and never nest), so it   *)
(* is one action.  The line monitor is seen only through monitorState and  *)
(* is the environment described by LineMonitor.                            *)
(***************************************************************************)
EXTENDS RingBuffer, Sequences, LineMonitor

CONSTANTS
    Chars,      \* characters the UART can deliver, carriage return excepted
    NUL,        \* the character '\0', one of Chars
    CR,         \* carriage return, which ends a line
    MAX_MSG,    \* PH_MSG_SIZE - 1, the most characters dataBuf keeps
    BITS,       \* bits of a transBuf element (8)
    TICKS,      \* TRANSMISSION_TICKS, the period of a half-bit
    Backoffs    \* the values of N * 1000 / TRANSMITTER_N_MAX

ASSUME CharsAssumption == NUL \in Chars /\ CR \notin Chars
ASSUME MaxMsgAssumption == MAX_MSG \in Nat /\ MAX_MSG > 0
ASSUME BitsAssumption == BITS \in Nat /\ BITS > 0
ASSUME TimerAssumption == TICKS \in Nat /\ TICKS > 0 /\ Backoffs \subseteq Nat
\* A frame has 6 header bytes and a checksum around the message, and every
\* byte becomes two elements: 2 * (254 + 7) = 522 of the 1028 slots.
ASSUME FrameFitsAssumption == 2 * (MAX_MSG + 7) < BUF_SIZE

VARIABLES
    pc,                           \* where the main loop stands
    packetMode,                   \* input of transmitter_init
    gotMessage, dataBuf,          \* statics of the main routine
    frame, filled,                \* bytes for transmitByte, those done
    transBuf, currByte, currBit,  \* what the interrupt sends, and where it is
    inTransmission, transmissionComplete, retransmissionTimeoutActive,
    tim2,                         \* TIM2: CEN, PSC, ARR, UIF and the prescaler
                                  \* in effect
    pc9, pc5,                     \* output pins: the line, the sync signal
    booted,                       \* history: TIM2 has interrupted once
    onWire                        \* history: bits driven in this attempt

mainVars == <<pc, packetMode, gotMessage, dataBuf, frame, filled>>
sendVars == <<transBuf, currByte, currBit>>
flagVars == <<inTransmission, transmissionComplete, retransmissionTimeoutActive>>
hwVars   == <<tim2, pc9, pc5, booted>>
vars     == <<mainVars, sendVars, flagVars, hwVars, onWire, monitorState>>

-----------------------------------------------------------------------------
(* Data. *)

HeaderFields == <<"synch", "ver", "src", "dest", "length", "crc_flag">>

Data == Chars \cup {HeaderFields[i] : i \in 1 .. 6} \cup {"crc8_fcs", "zero"}

\* An element of transBuf is one half of the Manchester symbol of a byte.
Elements == Data \X {"hi", "lo"}

\* The bytes passed to transmitByte for a message: a packet with its header
\* and checksum, or the bare text with a terminator if there is room for one.
PacketBytes(msg) == HeaderFields \o msg \o <<"crc8_fcs">>
RawBytes(msg) == IF Len(msg) < MAX_MSG THEN Append(msg, NUL) ELSE msg
Frame(msg) == IF packetMode THEN PacketBytes(msg) ELSE RawBytes(msg)

\* (Fault: looks at the end of the line instead of its beginning.)
IsEmptyLineFault(line) == line = <<>> \/ line[Len(line)] = NUL

\* strcmp with the empty string: the line has no character before a NUL.
IsEmptyLine(line) == line = <<>> \/ line[1] = NUL

\* transmitByte: both halves of the symbol, high one first.
TransmitByte(rb, byte) == RingPut(RingPut(rb, <<byte, "hi">>), <<byte, "lo">>)

\* (Fault: forgets put.)
ResetBufferFault(rb) == [rb EXCEPT !.get = 0]

\* put = get = 0 before a frame is written.
ResetBuffer(rb) == [rb EXCEPT !.put = 0, !.get = 0]

\* Every bit of the frame in transBuf.
FrameBits == (0 .. transBuf.put - 1) \X (0 .. BITS - 1)

-----------------------------------------------------------------------------
(* The helpers main routine and interrupt share. *)

\* (Fault: clears the count and forgets to enable the counter.)
StartCounterFault(t) == t

\* startTransmission, timer part: clear the count and enable the counter.
StartCounter(t) == [t EXCEPT !.cen = TRUE]

\* The other registers of the timer, one helper each.
StopCounter(t) == [t EXCEPT !.cen = FALSE]
SetPsc(t, scale) == [t EXCEPT !.psc = scale]
SetArr(t, ticks) == [t EXCEPT !.arr = ticks]

\* (Fault: leaves the period at the backoff's.)
TransmissionTimerFault(t) == SetPsc(StopCounter(t), "cpu")

\* toggleRetransmission, timer part: stopped, then in ms scale with a random
\* period w, or back in CPU scale with the period of a half-bit.
RetransmissionTimer(t, w) == SetArr(SetPsc(StopCounter(t), "ms"), w)
TransmissionTimer(t) == SetArr(SetPsc(StopCounter(t), "cpu"), TICKS)

StartTransmission(t) ==
    /\ inTransmission' = TRUE
    /\ tim2' = StartCounter(t)

\* (Faults: the timer is left running; the line is left as it is.)
StopTransmissionFault(t) ==
    /\ inTransmission' = FALSE
    /\ pc9' = 1
    /\ tim2' = t

StopTransmissionKeepsLine(t) ==
    /\ inTransmission' = FALSE
    /\ pc9' = pc9
    /\ tim2' = StopCounter(t)

StopTransmission(t) ==
    /\ inTransmission' = FALSE
    /\ pc9' = 1
    /\ tim2' = StopCounter(t)

\* (Fault: the collision may have come in the middle of a byte.)
RewindFault == currByte' = 0 /\ UNCHANGED currBit

\* The same message from the start.
Rewind == currByte' = 0 /\ currBit' = 0

\* (Fault: a message that collided is forgotten.)
IdleFault == ~inTransmission

\* Nothing is being sent and nothing is left to repeat.
Idle == ~inTransmission /\ transmissionComplete

\* A collision stopped the transmission and the message is to be repeated.
Waiting == ~inTransmission /\ ~transmissionComplete

-----------------------------------------------------------------------------
(* The main routine. *)

GoTo(from, to) == pc = from /\ pc' = to

\* Wait for a key.
AwaitKey ==
    /\ GoTo("loop", "getch")
    /\ Idle
    /\ UNCHANGED <<packetMode, gotMessage, dataBuf, frame, filled>>
    /\ UNCHANGED <<sendVars, flagVars, hwVars, onWire, monitorState>>

\* Return: an empty line is forgotten, any other is to be sent.
EndOfLine ==
    /\ GoTo("getch", "test")
    /\ gotMessage' = ~IsEmptyLine(dataBuf)
    /\ dataBuf' = IF IsEmptyLine(dataBuf) THEN <<>> ELSE dataBuf
    /\ UNCHANGED <<packetMode, frame, filled>>
    /\ UNCHANGED <<sendVars, flagVars, hwVars, onWire, monitorState>>

\* Any other character is kept while there is room.
KeepChar(c) ==
    /\ GoTo("getch", "test")
    /\ dataBuf' = IF Len(dataBuf) < MAX_MSG THEN Append(dataBuf, c) ELSE dataBuf
    /\ UNCHANGED <<packetMode, gotMessage, frame, filled>>
    /\ UNCHANGED <<sendVars, flagVars, hwVars, onWire, monitorState>>

MaySend == monitorState = "IDLE" /\ ~inTransmission /\ gotMessage

NotNow ==
    /\ GoTo("test", "loop")
    /\ ~MaySend
    /\ UNCHANGED <<packetMode, gotMessage, dataBuf, frame, filled>>
    /\ UNCHANGED <<sendVars, flagVars, hwVars, onWire, monitorState>>

\* Take the message: reset the cursors and make the bytes of its frame.
BuildFrame ==
    /\ GoTo("test", "fill")
    /\ MaySend
    /\ currByte' = 0
    /\ gotMessage' = FALSE
    /\ transBuf' = ResetBuffer(transBuf)
    /\ frame' = Frame(dataBuf)
    /\ filled' = 0
    /\ UNCHANGED <<packetMode, dataBuf, currBit>>
    /\ UNCHANGED <<flagVars, hwVars, onWire, monitorState>>

\* One transmitByte.  The printf before the first one takes milliseconds, the
\* first interrupt of TIM2 comes half a millisecond after its start: booted.
FillByte ==
    /\ pc = "fill" /\ booted
    /\ filled < Len(frame)
    /\ transBuf' = TransmitByte(transBuf, frame[filled + 1])
    /\ filled' = filled + 1
    /\ UNCHANGED <<pc, packetMode, gotMessage, dataBuf, frame>>
    /\ UNCHANGED <<currByte, currBit, flagVars, hwVars, onWire, monitorState>>

ClearMessage ==
    /\ GoTo("fill", "start")
    /\ booted
    /\ filled = Len(frame)
    /\ dataBuf' = <<>>
    /\ UNCHANGED <<packetMode, gotMessage, frame, filled>>
    /\ UNCHANGED <<sendVars, flagVars, hwVars, onWire, monitorState>>

\* Both branches end with startTransmission.
Start ==
    /\ GoTo("start", "loop")
    /\ StartTransmission(tim2)
    /\ onWire' = {}
    /\ UNCHANGED <<packetMode, gotMessage, dataBuf, frame, filled>>
    /\ UNCHANGED <<sendVars, transmissionComplete, retransmissionTimeoutActive>>
    /\ UNCHANGED <<pc9, pc5, booted, monitorState>>

\* After a collision, when the line is idle again: a random backoff first.
Retry ==
    /\ GoTo("loop", "toggle")
    /\ monitorState = "IDLE" /\ Waiting
    /\ Rewind
    /\ UNCHANGED <<packetMode, gotMessage, dataBuf, frame, filled>>
    /\ UNCHANGED <<transBuf, flagVars, hwVars, onWire, monitorState>>

\* toggleRetransmission(true), its flag first and then the timer.
SetRetransmission ==
    /\ GoTo("toggle", "backoff")
    /\ retransmissionTimeoutActive' = TRUE
    /\ UNCHANGED <<packetMode, gotMessage, dataBuf, frame, filled>>
    /\ UNCHANGED <<sendVars, inTransmission, transmissionComplete, hwVars>>
    /\ UNCHANGED <<onWire, monitorState>>

SetBackoff(w) ==
    /\ GoTo("backoff", "start")
    /\ tim2' = RetransmissionTimer(tim2, w)
    /\ UNCHANGED <<packetMode, gotMessage, dataBuf, frame, filled>>
    /\ UNCHANGED <<sendVars, flagVars, pc9, pc5, booted, onWire, monitorState>>

UserTypes == EndOfLine \/ \E c \in Chars : KeepChar(c)

MainStep ==
    \/ AwaitKey \/ NotNow \/ BuildFrame \/ FillByte \/ ClearMessage \/ Start
    \/ Retry \/ SetRetransmission \/ \E w \in Backoffs : SetBackoff(w)

-----------------------------------------------------------------------------
(* TIM2_IRQHandler.  It first clears the pending flag. *)

Acknowledged == [tim2 EXCEPT !.uif = FALSE]

\* (Fault: the sync signal is left high.)
EndSyncFault == UNCHANGED pc5

EndSync == pc5' = 0

AtEnd == ~HasElement(transBuf) \/ currByte = transBuf.put

\* The backoff is over: back to the half-bit period, and transmit.
BackoffOver ==
    /\ tim2.uif
    /\ retransmissionTimeoutActive
    /\ retransmissionTimeoutActive' = FALSE
    /\ StartTransmission(TransmissionTimer(Acknowledged))
    /\ booted' = TRUE
    /\ onWire' = {}
    /\ UNCHANGED <<mainVars, sendVars, transmissionComplete, pc9, pc5, monitorState>>

\* Nothing left to send.
Finish ==
    /\ tim2.uif
    /\ ~retransmissionTimeoutActive
    /\ AtEnd
    /\ StopTransmission(Acknowledged)
    /\ transmissionComplete' = TRUE
    /\ EndSync
    /\ booted' = TRUE
    /\ UNCHANGED <<mainVars, sendVars, retransmissionTimeoutActive, onWire, monitorState>>

\* The line collided: the message is to be sent again.
Collide ==
    /\ tim2.uif
    /\ ~retransmissionTimeoutActive
    /\ ~AtEnd
    /\ monitorState = "COLLISION"
    /\ StopTransmission(Acknowledged)
    /\ transmissionComplete' = FALSE
    /\ EndSync
    /\ booted' = TRUE
    /\ UNCHANGED <<mainVars, sendVars, retransmissionTimeoutActive, onWire, monitorState>>

\* (Fault: the end of the byte is noticed one bit late.)
NextBitFault ==
    IF currBit = BITS
    THEN currBit' = 0 /\ currByte' = currByte + 1
    ELSE currBit' = currBit + 1 /\ UNCHANGED currByte

\* Put the next bit on the line, most significant first.
NextBit ==
    IF currBit + 1 = BITS
    THEN currBit' = 0 /\ currByte' = currByte + 1
    ELSE currBit' = currBit + 1 /\ UNCHANGED currByte

SendBit ==
    /\ tim2.uif
    /\ ~retransmissionTimeoutActive
    /\ ~AtEnd
    /\ monitorState # "COLLISION"
    /\ tim2' = Acknowledged
    /\ booted' = TRUE
    /\ pc5' = IF currByte = 0 /\ currBit = 0 THEN 1 ELSE pc5
    /\ pc9' \in {0, 1}
    /\ NextBit
    /\ onWire' = onWire \cup {<<currByte, currBit>>}
    /\ UNCHANGED <<mainVars, transBuf, flagVars, monitorState>>

TIM2_IRQHandler == BackoffOver \/ Finish \/ Collide \/ SendBit

-----------------------------------------------------------------------------
(* The hardware and the line. *)

\* The counter reaches ARR.  A timer whose ARR is 0 does not count.  PSC is
\* buffered: what was written to it takes effect now.
Tim2Update ==
    /\ tim2.cen /\ tim2.arr > 0 /\ ~tim2.uif
    /\ tim2' = [tim2 EXCEPT !.uif = TRUE, !.scale = tim2.psc]
    /\ UNCHANGED <<mainVars, sendVars, flagVars, pc9, pc5, booted, onWire, monitorState>>

Line ==
    /\ MonitorNext
    /\ UNCHANGED <<mainVars, sendVars, flagVars, hwVars, onWire>>

-----------------------------------------------------------------------------
\* main has run every init function.  initTransmissionTimer left TIM2 running
\* and PC9 is an output whose latch is still low.
Init ==
    /\ pc = "loop"
    /\ packetMode \in BOOLEAN
    /\ gotMessage = FALSE /\ dataBuf = <<>>
    /\ frame = <<>> /\ filled = 0
    /\ transBuf = EmptyRing(<<"zero", "hi">>)
    /\ currByte = 0 /\ currBit = 0
    /\ inTransmission = FALSE
    /\ transmissionComplete = TRUE
    /\ retransmissionTimeoutActive = FALSE
    /\ tim2 = [cen |-> TRUE, psc |-> "cpu", scale |-> "cpu", arr |-> TICKS, uif |-> FALSE]
    /\ pc9 = 0 /\ pc5 = 0
    /\ booted = FALSE /\ onWire = {}
    /\ MonitorInit

Next == UserTypes \/ MainStep \/ TIM2_IRQHandler \/ Tim2Update \/ Line

Spec == Init /\ [][Next]_vars

\* The processor runs the main loop and pending interrupts, the timer counts.
\* Neither the user's next key nor any change of the line is promised.
Fairness ==
    /\ WF_vars(MainStep)
    /\ WF_vars(TIM2_IRQHandler)
    /\ WF_vars(Tim2Update)

FairSpec == Spec /\ Fairness

-----------------------------------------------------------------------------
(* Properties. *)

PCs == {"loop", "getch", "test", "fill", "start", "toggle", "backoff"}

Tim2Registers ==
    [cen : BOOLEAN, psc : {"cpu", "ms"}, scale : {"cpu", "ms"},
     arr : {TICKS} \cup Backoffs, uif : BOOLEAN]

\* Every variable keeps its type.  In particular currByte stays inside transBuf
\* and currBit inside an element, whatever the handler finds.
TypeOK ==
    /\ pc \in PCs
    /\ packetMode \in BOOLEAN /\ gotMessage \in BOOLEAN
    /\ dataBuf \in Seq(Chars) /\ Len(dataBuf) <= MAX_MSG
    /\ frame \in Seq(Data) /\ filled \in 0 .. Len(frame)
    /\ transBuf \in RingBufferOf(Elements)
    /\ currByte \in Slots /\ currBit \in 0 .. BITS - 1
    /\ inTransmission \in BOOLEAN
    /\ transmissionComplete \in BOOLEAN
    /\ retransmissionTimeoutActive \in BOOLEAN
    /\ tim2 \in Tim2Registers
    /\ pc9 \in {0, 1} /\ pc5 \in {0, 1}
    /\ booted \in BOOLEAN
    /\ onWire \in SUBSET (Slots \X (0 .. BITS - 1))
    /\ MonitorTypeOK

\* inTransmission, which the main routine trusts, and the counter enable bit,
\* which only the timer helpers touch, never part: a card that believes it
\* transmits (or backs off) has a running timer to end it, and one that does
\* not is never interrupted.  Only the interrupt of the boot is an exception.
TimerRunsIffSending == booted => (tim2.cen <=> inTransmission)

\* A running timer is programmed for what retransmissionTimeoutActive says:
\* the
\* half-bit period and PSC for CPU scale, or a backoff and PSC for milliseconds.
\* (Which prescaler is in effect is another matter: BackoffInMs.)
TimerFitsMode ==
    tim2.cen =>
        IF retransmissionTimeoutActive
        THEN tim2.psc = "ms" /\ tim2.arr \in Backoffs
        ELSE tim2.psc = "cpu" /\ tim2.arr = TICKS

\* transBuf holds exactly the bytes passed to transmitByte so far, both halves
\* in order from slot 0, and its put index never wrapped.
BufferHoldsFrame ==
    /\ transBuf.get = 0
    /\ transBuf.put = 2 * filled
    /\ \A i \in 1 .. filled :
          /\ transBuf.buffer[2 * i - 2] = <<frame[i], "hi">>
          /\ transBuf.buffer[2 * i - 1] = <<frame[i], "lo">>

\* While the card is not driving bits (idle, waiting, backing off) it leaves
\* the shared line high, so it never blocks another card.
LineReleased ==
    booted /\ (~inTransmission \/ retransmissionTimeoutActive) => pc9 = 1

\* The sync signal is high from the first bit of an attempt to its end.
SyncMarksAttempt ==
    pc5 = 1 <=> /\ inTransmission /\ ~retransmissionTimeoutActive
                /\ <<0, 0>> \in onWire

\* The frame is not touched while it may still have to be sent: neither during
\* a transmission nor while a retransmission waits, however much is typed.
FrameStable ==
    [][inTransmission \/ ~transmissionComplete =>
          UNCHANGED <<transBuf, frame, filled>>]_vars

\* When the card reports a transmission complete, this attempt has driven every
\* bit of every element of the frame, also after collisions and backoffs.
CompleteMeansWholeFrame ==
    [][inTransmission /\ ~inTransmission' /\ transmissionComplete' =>
          filled = Len(frame) /\ onWire = FrameBits]_vars

\* A line the user finished is not lost: gotMessage is only taken back by
\* framing the stored text, even if more keys and returns come first.
StoredLineIsFramed ==
    [][gotMessage /\ ~gotMessage' => pc' = "fill" /\ frame' = Frame(dataBuf)]_vars

\* Every transmission, and every backoff, comes to an end (0 not in Backoffs).
TransmissionEnds == inTransmission ~> ~inTransmission

\* A message that collided is tried again unless the line never settles.
RetransmissionStarts == <>[]Waiting => []<>(monitorState # "IDLE")

-----------------------------------------------------------------------------
(* What comments of the code say, and the code does not do. *)

\* transmitter.c:294, "Should only start when in the idle state": after the
\* backoff the interrupt starts the retransmission whatever the line does.
RetransmissionStartsIdle ==
    [][retransmissionTimeoutActive /\ ~retransmissionTimeoutActive' =>
          monitorState = "IDLE"]_vars

\* transmitter.c:102, "start transmission when in TS_IDLE, and there's
\* something to transmit": the main loop waits in usart2_getch for another
\* key although the line rests idle and a message is stored.
PendingIsSent ==
    gotMessage /\ monitorState = "IDLE" ~> ~gotMessage \/ monitorState # "IDLE"

\* transmitter.h:16, "uniform random points rom 0s to 1.000s to timeout on":
\* a backoff of 0 ms never times out, as a timer whose ARR is 0 does not count.
BackoffEnds == retransmissionTimeoutActive ~> ~retransmissionTimeoutActive

\* transmitter.c:174, "ms scale": the backoff would be counted in milliseconds.
\* The prescaler written there takes effect only when the backoff ends.
BackoffInMs ==
    [][retransmissionTimeoutActive /\ ~tim2.uif /\ tim2'.uif =>
          tim2.scale = "ms"]_vars
=============================================================================
