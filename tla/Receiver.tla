------------------------------ MODULE Receiver ------------------------------
(***************************************************************************)
(* The receiver of src/receiver.c: EXTI4 samples the line at the edges in  *)
(* the middle of the bits and puts bytes into receiveBuf; TIM4 tells those *)
(* edges from the ones between two bits; the main routine resets the state *)
(* when the line is idle, drops a message that collided and takes out a    *)
(* message that is complete.                                               *)
(*                                                                         *)
(* Time is counted in half-bits of the sender (500 us).  TIM4 (507 us) is  *)
(* due just after one, SysTick (1110 us) after two without an edge.  The   *)
(* handlers are atomic, the main routine is interrupted between any two    *)
(* writes; Monitor.tla has the finer steps inside the edge handler.  The   *)
(* slots of receiveBuf are indistinct here: what a put stores is dataByte, *)
(* and that a get returns it is RingBufferQueue.tla's subject.             *)
(***************************************************************************)
EXTENDS RingBuffer, Sequences

CONSTANTS
    BITS,       \* bits of a byte (8)
    MSG_SIZE,   \* sizeof(PacketHeader), the most bytes of a message
    Frames      \* what cards send: sequences of bits

ASSUME BitsAssumption == BITS \in Nat /\ BITS > 1
ASSUME MsgSizeAssumption == MSG_SIZE \in Nat /\ MSG_SIZE > 0
\* Whole bytes.  The first bit is 0, as in 0x55 or a character of ASCII.
ASSUME FramesAssumption ==
    \A f \in Frames :
        /\ f \in Seq({0, 1}) /\ Len(f) > 0
        /\ Len(f) % BITS = 0 /\ f[1] = 0

VARIABLES
    pc,                               \* where the main routine stands
    receiveBuf, msgCur,
    currBit, dataByte, currentlyReceiving, sample,
    tim4, stk,                        \* running, and half-bits since cleared
    monitorState, lineState,
    line, extiPend,                   \* the level of PC4, EXTI_PR bit 4
    phase, frame, pos,                \* the line: idle, a frame, or several cards
    late,                             \* a half-bit passed in this fast section
    intact, samples                   \* history: see EdgeOfFrame

mainVars == <<pc, msgCur, late>>
recVars  == <<receiveBuf, currBit, dataByte, currentlyReceiving, sample>>
monVars  == <<monitorState, lineState, stk>>
envVars  == <<line, phase, frame, pos>>
ghosts   == <<intact, samples>>
vars     == <<mainVars, recVars, monVars, tim4, extiPend, envVars, ghosts>>

Bytes == [1 .. BITS -> {0, 1}]

-----------------------------------------------------------------------------
(* The main routine.  It stays long only in the transmitter's routine, at   *)
(* "top" (which may wait for a key), and where it prints.                   *)

Slow == {"top", "collided", "print"}

\* A pending interrupt goes first.
GoTo(from, to) ==
    /\ pc = from /\ pc' = to
    /\ ~extiPend
    /\ late' = IF to \in Slow THEN FALSE ELSE late

\* if (monitor_getState() == MS_IDLE)
TestIdle ==
    /\ GoTo("top", IF monitorState = "IDLE" THEN "byte" ELSE "receiving")
    /\ UNCHANGED <<msgCur, recVars, monVars, tim4, extiPend, envVars, ghosts>>

\* The reset, one variable after the other.
ResetByte ==
    /\ GoTo("byte", "bit")
    /\ dataByte' = [i \in 1 .. BITS |-> 0]
    /\ UNCHANGED <<msgCur, receiveBuf, currBit, currentlyReceiving, sample>>
    /\ UNCHANGED <<monVars, tim4, extiPend, envVars, ghosts>>

\* (Fault: only the byte itself is reset.)
ResetBitFault ==
    /\ GoTo("bit", "flag")
    /\ UNCHANGED <<msgCur, receiveBuf, currBit, dataByte, currentlyReceiving, sample>>
    /\ UNCHANGED <<monVars, tim4, extiPend, envVars, ghosts>>

ResetBit ==
    /\ GoTo("bit", "flag")
    /\ currBit' = 0
    /\ UNCHANGED <<msgCur, receiveBuf, dataByte, currentlyReceiving, sample>>
    /\ UNCHANGED <<monVars, tim4, extiPend, envVars, ghosts>>

\* (Fault: stays in the message.)
ResetReceivingFault ==
    /\ GoTo("flag", "sample")
    /\ UNCHANGED <<msgCur, recVars, monVars, tim4, extiPend, envVars, ghosts>>

ResetReceiving ==
    /\ GoTo("flag", "sample")
    /\ currentlyReceiving' = FALSE
    /\ UNCHANGED <<msgCur, receiveBuf, currBit, dataByte, sample>>
    /\ UNCHANGED <<monVars, tim4, extiPend, envVars, ghosts>>

ResetSample ==
    /\ GoTo("sample", "receiving")
    /\ sample' = TRUE
    /\ UNCHANGED <<msgCur, receiveBuf, currBit, dataByte, currentlyReceiving>>
    /\ UNCHANGED <<monVars, tim4, extiPend, envVars, ghosts>>

\* A collision is printed first,
TestCollision ==
    /\ GoTo("receiving", IF currentlyReceiving /\ monitorState = "COLLISION"
                         THEN "collided" ELSE "message")
    /\ UNCHANGED <<msgCur, recVars, monVars, tim4, extiPend, envVars, ghosts>>

\* then receiving ceases,
CeaseReceiving ==
    /\ GoTo("collided", "cease")
    /\ tim4' = [tim4 EXCEPT !.cen = FALSE]
    /\ UNCHANGED <<msgCur, recVars, monVars, extiPend, envVars, ghosts>>

LeaveMessage ==
    /\ GoTo("cease", "clearget")
    /\ currentlyReceiving' = FALSE
    /\ UNCHANGED <<msgCur, receiveBuf, currBit, dataByte, sample>>
    /\ UNCHANGED <<monVars, tim4, extiPend, envVars, ghosts>>

\* and the message is dropped: get = 0, put = 0.
ClearGet ==
    /\ GoTo("clearget", "clearput")
    /\ receiveBuf' = [receiveBuf EXCEPT !.get = 0]
    /\ UNCHANGED <<msgCur, currBit, dataByte, currentlyReceiving, sample>>
    /\ UNCHANGED <<monVars, tim4, extiPend, envVars, ghosts>>

ClearPut ==
    /\ GoTo("clearput", "message")
    /\ receiveBuf' = [receiveBuf EXCEPT !.put = 0]
    /\ UNCHANGED <<msgCur, currBit, dataByte, currentlyReceiving, sample>>
    /\ UNCHANGED <<monVars, tim4, extiPend, envVars, ghosts>>

MessageReady == ~currentlyReceiving /\ HasElement(receiveBuf)

TestMessage ==
    /\ GoTo("message", IF MessageReady THEN "drain" ELSE "top")
    /\ msgCur' = IF MessageReady THEN 0 ELSE msgCur
    /\ UNCHANGED <<recVars, monVars, tim4, extiPend, envVars, ghosts>>

\* msgBuf[msgCur++] = get(&receiveBuf); RingBufferQueue.tla has its steps.
TakeByte ==
    /\ HasElement(receiveBuf) /\ msgCur < MSG_SIZE
    /\ GoTo("drain", "drain")
    /\ receiveBuf' = RingSkip(receiveBuf)
    /\ msgCur' = msgCur + 1
    /\ UNCHANGED <<currBit, dataByte, currentlyReceiving, sample>>
    /\ UNCHANGED <<monVars, tim4, extiPend, envVars, ghosts>>

EndOfMessage ==
    /\ ~(HasElement(receiveBuf) /\ msgCur < MSG_SIZE)
    /\ GoTo("drain", "print")
    /\ UNCHANGED <<msgCur, recVars, monVars, tim4, extiPend, envVars, ghosts>>

PrintMessage ==
    /\ GoTo("print", "top")
    /\ UNCHANGED <<msgCur, recVars, monVars, tim4, extiPend, envVars, ghosts>>

MainStep ==
    \/ ResetByte \/ ResetBit \/ ResetReceiving \/ ResetSample
    \/ TestCollision \/ CeaseReceiving \/ LeaveMessage \/ ClearGet \/ ClearPut
    \/ TestMessage \/ TakeByte \/ EndOfMessage \/ PrintMessage

-----------------------------------------------------------------------------
(* EXTI4_IRQHandler. *)

\* monitor_Edge_Intrr restarts the timeout, reads the line and is busy.
EdgeIsMonitored ==
    /\ extiPend /\ extiPend' = FALSE
    /\ stk' = [cen |-> TRUE, cnt |-> 0]
    /\ lineState' = line
    /\ monitorState' = "BUSY"

\* clear_cnt, which neither starts nor stops a timer.
ClearCnt(t) == [t EXCEPT !.cnt = 0]

\* (Fault: the timer is not started.)
StartTim4Fault == tim4' = ClearCnt(tim4)

StartTim4 == tim4' = [ClearCnt(tim4) EXCEPT !.cen = TRUE]

\* (Fault: the first bit is the lowest.)
WithBitFault(byte, i, bit) == [byte EXCEPT ![BITS - i] = bit]

\* The byte with its bit i, counted from the most significant one.
WithBit(byte, i, bit) == [byte EXCEPT ![i + 1] = bit]

\* (Fault: a byte is complete one bit late.)
CountBitFault ==
    IF currBit = BITS
    THEN currBit' = 0 /\ receiveBuf' = RingPut(receiveBuf, "byte")
    ELSE currBit' = currBit + 1 /\ UNCHANGED receiveBuf

CountBit ==
    IF currBit + 1 = BITS
    THEN currBit' = 0 /\ receiveBuf' = RingPut(receiveBuf, "byte")
    ELSE currBit' = currBit + 1 /\ UNCHANGED receiveBuf

Resetting == {"byte", "bit", "flag", "sample"}
Dropping == {"collided", "cease", "clearget", "clearput"}

\* History.  The first edge of a frame finds the receiver ready for it, and the
\* main routine neither in the reset nor in the drop of a message, or not; if
\* so, the bits that are sampled of the frame are kept.
EdgeOfFrame(sampled) ==
    /\ intact' = IF phase = "frame" /\ pos = 2
                 THEN sample /\ currBit = 0 /\ pc \notin Resetting \cup Dropping
                 ELSE intact /\ phase = "frame"
    /\ samples' = IF intact' THEN samples \o sampled ELSE <<>>

\* The edge in the middle of a bit.
EdgeInBit ==
    /\ EdgeIsMonitored
    /\ sample
    /\ StartTim4
    /\ sample' = FALSE
    /\ dataByte' = WithBit(dataByte, currBit, line)
    /\ CountBit
    /\ currentlyReceiving' = TRUE
    /\ EdgeOfFrame(<<line>>)
    /\ UNCHANGED <<mainVars, envVars>>

\* The edge between two bits.
EdgeOfBit ==
    /\ EdgeIsMonitored
    /\ ~sample
    /\ sample' = TRUE
    /\ tim4' = [tim4 EXCEPT !.cen = FALSE]
    /\ EdgeOfFrame(<<>>)
    /\ UNCHANGED <<mainVars, receiveBuf, currBit, dataByte, currentlyReceiving, envVars>>

EXTI4_IRQHandler == EdgeInBit \/ EdgeOfBit

-----------------------------------------------------------------------------
(* The timeouts. *)

Tim4Due == tim4.cen /\ tim4.cnt >= 1

\* (Fault: less than a bit.)
SysTickDueFault == stk.cen /\ stk.cnt >= 1

SysTickDue == stk.cen /\ stk.cnt >= 2

TIM4_IRQHandler ==
    /\ Tim4Due /\ ~extiPend
    /\ sample' = TRUE
    /\ tim4' = [cen |-> FALSE, cnt |-> 0]
    /\ UNCHANGED <<mainVars, receiveBuf, currBit, dataByte, currentlyReceiving>>
    /\ UNCHANGED <<monVars, extiPend, envVars, ghosts>>

SysTick_Handler ==
    /\ SysTickDue /\ ~extiPend
    /\ stk' = [cen |-> FALSE, cnt |-> 0]
    /\ monitorState' = IF lineState # 0 THEN "IDLE" ELSE "COLLISION"
    /\ UNCHANGED <<mainVars, recVars, lineState, tim4, extiPend, envVars, ghosts>>

Handlers == EXTI4_IRQHandler \/ TIM4_IRQHandler \/ SysTick_Handler

-----------------------------------------------------------------------------
(* The line, a half-bit at a time. *)

Counted(t) == IF t.cen THEN [t EXCEPT !.cnt = t.cnt + 1] ELSE t

\* Interrupts are served in much less than a half-bit, and a section of the
\* main routine without a wait takes no more than one.
HalfBit(level) ==
    /\ ~extiPend /\ ~Tim4Due /\ ~SysTickDue
    /\ pc \in Slow \/ ~late
    /\ late' = (pc \notin Slow)
    /\ line' = level
    /\ extiPend' = (level # line)
    /\ tim4' = Counted(tim4) /\ stk' = Counted(stk)
    /\ UNCHANGED <<pc, msgCur, recVars, monitorState, lineState>>

\* Manchester: a bit is its complement and then itself.
LevelAt(f, i) == IF i % 2 = 0 THEN 1 - f[i \div 2 + 1] ELSE f[i \div 2 + 1]

\* A card starts a frame on an idle line,
StartFrame ==
    /\ phase = "idle" /\ monitorState = "IDLE"
    /\ \E f \in Frames : frame' = f /\ HalfBit(LevelAt(f, 0))
    /\ phase' = "frame" /\ pos' = 1
    /\ intact' = FALSE /\ samples' = <<>>

SendHalfBit ==
    /\ phase = "frame" /\ pos < 2 * Len(frame)
    /\ HalfBit(LevelAt(frame, pos))
    /\ pos' = pos + 1
    /\ UNCHANGED <<phase, frame, ghosts>>

\* and lets go of it at the end.
EndFrame ==
    /\ phase = "frame" /\ pos = 2 * Len(frame)
    /\ HalfBit(1)
    /\ phase' = "idle" /\ frame' = <<>> /\ pos' = 0
    /\ intact' = FALSE /\ samples' = <<>>

\* Several cards send, or one that does not look at the line after its backoff.
Interfere ==
    /\ \E level \in {0, 1} : HalfBit(level)
    /\ phase' = "noise" /\ frame' = <<>> /\ pos' = 0
    /\ intact' = FALSE /\ samples' = <<>>

Quiet ==
    /\ phase # "frame"
    /\ HalfBit(1)
    /\ phase' = "idle"
    /\ UNCHANGED <<frame, pos, ghosts>>

LineStep == StartFrame \/ SendHalfBit \/ EndFrame \/ Interfere \/ Quiet

-----------------------------------------------------------------------------
\* initCounterTimer leaves TIM4 running.  The line is low as long as the card's
\* own output is, or another card pulls it.
Init ==
    /\ pc = "top" /\ msgCur = 0 /\ late = FALSE
    /\ currBit = 0 /\ dataByte = [i \in 1 .. BITS |-> 0]
    /\ receiveBuf = EmptyRing("byte")
    /\ currentlyReceiving = FALSE /\ sample = TRUE
    /\ tim4 = [cen |-> TRUE, cnt |-> 0] /\ stk = [cen |-> FALSE, cnt |-> 0]
    /\ monitorState = "IDLE" /\ lineState = 0
    /\ extiPend = FALSE
    /\ \/ line = 1 /\ phase = "idle"
       \/ line = 0 /\ phase = "noise"
    /\ frame = <<>> /\ pos = 0
    /\ intact = FALSE /\ samples = <<>>

Next == TestIdle \/ MainStep \/ Handlers \/ LineStep

Spec == Init /\ [][Next]_vars

\* The main routine runs when it has left the transmitter, interrupts are
\* served, and time passes.
Fairness == WF_vars(MainStep) /\ WF_vars(Handlers) /\ WF_vars(LineStep)

FairSpec == Spec /\ Fairness

-----------------------------------------------------------------------------
(* Properties. *)

Timer == [cen : BOOLEAN, cnt : 0 .. 2]

\* Every variable keeps its type.  The reset of currBit that races the handler
\* cannot take it out of the byte.
TypeOK ==
    /\ pc \in Slow \cup Resetting \cup Dropping \cup {"receiving", "message", "drain"}
    /\ receiveBuf \in RingBufferOf({"byte"}) /\ msgCur \in 0 .. MSG_SIZE
    /\ currBit \in 0 .. BITS - 1 /\ dataByte \in Bytes
    /\ currentlyReceiving \in BOOLEAN /\ sample \in BOOLEAN
    /\ tim4 \in Timer /\ stk \in Timer
    /\ monitorState \in {"IDLE", "BUSY", "COLLISION"} /\ lineState \in {0, 1}
    /\ line \in {0, 1} /\ extiPend \in BOOLEAN /\ late \in BOOLEAN
    /\ phase \in {"idle", "frame", "noise"}
    /\ frame \in Frames \cup {<<>>} /\ pos \in 0 .. 2 * Len(frame)
    /\ intact \in BOOLEAN /\ samples \in Seq({0, 1})

\* Of a frame that found the receiver ready, the bits sampled so far are the
\* bits whose middle has passed: edges between bits are never taken for data,
\* nor missed, whatever the bits are.
BitsRecovered ==
    intact /\ ~extiPend =>
        /\ samples = SubSeq(frame, 1, pos \div 2)
        /\ currBit = Len(samples) % BITS

\* The bytes (dataByte) put into receiveBuf meanwhile are the frame's bytes, one
\* by one.
BytesFaithful ==
    [][intact /\ intact' /\ receiveBuf'.put # receiveBuf.put =>
          LET n == Len(samples') IN
          n % BITS = 0 /\ dataByte' = SubSeq(frame, n - BITS + 1, n)]_vars

\* A message is never taken out while a frame that was well received is under
\* way and has put bytes there: no pause inside a frame looks like its end.
MessageComplete ==
    [][pc = "message" /\ pc' = "drain" => ~(intact /\ Len(samples) >= BITS)]_vars

\* On a line that stays quiet the bytes received are taken out, if the
\* transmitter's routine always returns.
RestIsDelivered ==
    <>[](phase = "idle") /\ []<>(pc # "top") => <>[]~HasElement(receiveBuf)

\* Whatever was on the line (a collision, noise, a frame that met the reset or
\* the drop of a message), a line that stays quiet makes the receiver ready for
\* the first bit of a frame, under the same condition.
RecoversOnQuietLine ==
    <>[](phase = "idle") /\ []<>(pc # "top") =>
        <>[](sample /\ currBit = 0 /\ ~currentlyReceiving)

-----------------------------------------------------------------------------
\* receiver.c:59, "reset the transmission state, since we're IDLE. Next
\* transmission is a new transmission": the reset is left to the main routine,
\* which may wait for a key all the time between two frames.
NextIsNewTransmission ==
    [][phase = "frame" /\ pos = 2 /\ extiPend /\ ~extiPend' =>
          currBit = 0 /\ ~currentlyReceiving]_vars
=============================================================================
