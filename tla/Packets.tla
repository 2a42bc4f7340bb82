------------------------------ MODULE Packets ------------------------------
(***************************************************************************)
(* A packet on its way from one card's ph_create to the other card's       *)
(* printf: packed, Manchester coded, sampled into bytes of receiveBuf,     *)
(* taken out into msgBuf, parsed into pkt and shown.  Receiver.tla shows   *)
(* that the bits of a frame are sampled one by one; here a frame arrives   *)
(* in one step, whole, with a byte gone wrong, or cut by a collision, and  *)
(* the edge with which a collision ends may be sampled as one bit more.    *)
(*                                                                         *)
(* The main routine of the receiving card may be held up for a key all the *)
(* time, so that it misses the idle line between two frames, or not: the   *)
(* three steps it takes (reset, drop, show) may come or fail to come       *)
(* between any two arrivals.  msgBuf and pkt are statics and keep what     *)
(* earlier messages left in them.                                          *)
(***************************************************************************)
EXTENDS PacketHeader

CONSTANTS
    Texts,          \* what users type: sequences of characters
    SRC, DEST,      \* addresses given to transmitter_init
    Masks,          \* what noise does to a byte
    Cuts,           \* how many bits arrive before a collision
    MAX_BYTES,      \* bound on receiveBuf for the model
    MAX_FAULTS      \* bound on the frames damaged or cut

ASSUME AddressAssumption == SRC \in Byte /\ DEST \in Byte
\* The transmitter keeps PH_MSG_SIZE - 1 characters of a line that is not empty.
ASSUME TextsAssumption ==
    \A t \in Texts : t \in Seq(Byte) /\ Len(t) \in 1 .. PH_MSG_SIZE - 1
ASSUME MasksAssumption == Masks \subseteq 1 .. 255
ASSUME CutsAssumption == Cuts \subseteq Nat
ASSUME BoundsAssumption == MAX_BYTES \in Nat /\ MAX_FAULTS \in Nat

VARIABLES
    outPkt,                 \* static pkt of transmitter_mainRoutineUpdate
    levels,                 \* the frame on the line, a level for each half-bit
    receiveBuf, bits,       \* bytes received, and the currBit bits of dataByte
    currentlyReceiving,
    collided,               \* the line is held low: the monitor says COLLISION
    msgBuf, pkt,            \* statics of receiver_mainRoutineUpdate
    ok,                     \* what ph_parse returned last
    ready,                  \* history: the line was seen idle since then
    first,                  \* history: the frame receiveBuf begins with
    faults                  \* frames damaged or cut so far

outVars  == <<outPkt, levels>>
lineVars == <<receiveBuf, bits, currentlyReceiving, collided>>
showVars == <<msgBuf, pkt, ok>>
vars     == <<outVars, lineVars, showVars, ready, first, faults>>

\* Nothing is known of what receiveBuf begins with.
Unknown == [how |-> "unknown", pkt |-> ZeroPacket, at |-> 0]

-----------------------------------------------------------------------------
(* The sending card. *)

\* The end of the text that is printed, here and where it arrives, if the
\* message leaves room for it.
Terminated(p) ==
    IF p.length < PH_MSG_SIZE - 1 THEN [p EXCEPT !.msg[p.length] = 0] ELSE p

\* The line rests, and not in a collision.
LineIdle == levels = <<>> /\ ~collided

Send(text) ==
    /\ LineIdle
    /\ Len(receiveBuf) + SIZEOF < MAX_BYTES
    /\ outPkt' = Terminated(ph_create(outPkt, SRC, DEST, 1, text))
    /\ levels' = Levels(transmitMessage(outPkt'))
    /\ UNCHANGED <<lineVars, showVars, ready, first, faults>>

-----------------------------------------------------------------------------
(* Its frame arrives. *)

\* EXTI4: bits fill up dataByte, full bytes are put into receiveBuf.
Sampled(new) ==
    LET all == bits \o new IN
    /\ receiveBuf' = receiveBuf \o DataBytes(all)
    /\ bits' = RestOf(all)
    /\ currentlyReceiving' = TRUE

Received(new) ==
    /\ levels # <<>> /\ levels' = <<>>
    /\ Sampled(new)
    /\ ready' = FALSE
    /\ UNCHANGED <<outPkt, showVars>>

\* History: what receiveBuf begins with, if the frame found it empty and the
\* reset done, and if it is alone there.
Arrived(how, at) ==
    first' = IF ready /\ receiveBuf = <<>>
             THEN [how |-> how, pkt |-> outPkt, at |-> at]
             ELSE Unknown

ArriveIntact ==
    /\ Received(Samples(levels))
    /\ collided' = FALSE
    /\ Arrived("intact", 0)
    /\ UNCHANGED faults

\* One byte is received wrong.
ArriveDamaged(at, mask) ==
    LET sent  == transmitMessage(outPkt)
        wrong == [sent EXCEPT ![at] = Xor(sent[at], mask)]
    IN
    /\ at \in 1 .. Len(sent)
    /\ faults < MAX_FAULTS /\ faults' = faults + 1
    /\ Received(Samples(Levels(wrong)))
    /\ collided' = FALSE
    /\ Arrived("damaged", at)

\* Only some bits came when the line collided.
ArriveCut(n) ==
    /\ 2 * n < Len(levels)
    /\ faults < MAX_FAULTS /\ faults' = faults + 1
    /\ Received(SubSeq(Samples(levels), 1, n))
    /\ collided' = TRUE
    /\ Arrived("cut", n)

\* The collision ends: the line goes high.  The edge is sampled as a bit if the
\* one before it was not, or TIM4 has run out since.
LetGo ==
    /\ collided /\ collided' = FALSE
    /\ Sampled(<<1>>) \/ UNCHANGED <<receiveBuf, bits, currentlyReceiving>>
    /\ UNCHANGED <<outVars, showVars, ready, first, faults>>

-----------------------------------------------------------------------------
(* The main routine of the receiving card. *)

\* (Fault: nothing is reset when what was received has been dropped.)
ResetFault ==
    /\ LineIdle
    /\ bits' = IF currentlyReceiving THEN <<>> ELSE bits
    /\ currentlyReceiving' = FALSE
    /\ ready' = TRUE
    /\ UNCHANGED <<outVars, receiveBuf, collided, showVars, first, faults>>

\* The line is idle: the next transmission is a new one, whether or not this one
\* was received to its end or dropped.
Reset ==
    /\ LineIdle
    /\ bits' = <<>>
    /\ currentlyReceiving' = FALSE
    /\ ready' = TRUE
    /\ UNCHANGED <<outVars, receiveBuf, collided, showVars, first, faults>>

\* The line collided: what was received is dropped.
Drop ==
    /\ currentlyReceiving /\ collided
    /\ currentlyReceiving' = FALSE
    /\ receiveBuf' = <<>>
    /\ first' = Unknown
    /\ UNCHANGED <<outVars, bits, collided, showVars, ready, faults>>

\* How many bytes fit into msgBuf.
TakenCount == IF Len(receiveBuf) < SIZEOF THEN Len(receiveBuf) ELSE SIZEOF

\* A message is complete: take it out, parse it and show pkt, valid or not.
Show ==
    /\ ~currentlyReceiving /\ receiveBuf # <<>>
    /\ receiveBuf' = SubSeq(receiveBuf, TakenCount + 1, Len(receiveBuf))
    /\ msgBuf' = memcpy(msgBuf, [i \in 0 .. TakenCount - 1 |-> receiveBuf[i + 1]], TakenCount)
    /\ LET parsed == ph_parse(pkt, msgBuf', TakenCount)
       IN ok' = parsed.ok /\ pkt' = Terminated(parsed.pkt)
    /\ first' = Unknown
    /\ UNCHANGED <<outVars, bits, currentlyReceiving, collided, ready, faults>>

-----------------------------------------------------------------------------
\* At boot the card's own line goes high, which is an edge unless another card
\* holds it low: a bit sampled before the first frame.
Init ==
    /\ outPkt = ZeroPacket /\ levels = <<>>
    /\ receiveBuf = <<>> /\ collided = FALSE
    /\ \/ bits = <<>> /\ currentlyReceiving = FALSE
       \/ bits = <<1>> /\ currentlyReceiving = TRUE
    /\ msgBuf = [i \in 0 .. SIZEOF - 1 |-> 0] /\ pkt = ZeroPacket
    /\ ok = FALSE
    /\ ready = ~currentlyReceiving /\ first = Unknown /\ faults = 0

Next ==
    \/ \E t \in Texts : Send(t)
    \/ ArriveIntact
    \/ \E at \in 1 .. SIZEOF, mask \in Masks : ArriveDamaged(at, mask)
    \/ \E n \in Cuts : ArriveCut(n)
    \/ LetGo \/ Reset \/ Drop \/ Show

Spec == Init /\ [][Next]_vars

-----------------------------------------------------------------------------
(* Properties. *)

\* Every variable keeps its type.  A packet's length never leaves pkt.msg.
TypeOK ==
    /\ outPkt \in PacketHeader /\ outPkt.length < PH_MSG_SIZE
    /\ levels \in Seq({0, 1})
    /\ receiveBuf \in Seq(Byte) /\ Len(receiveBuf) <= MAX_BYTES
    /\ bits \in Seq({0, 1}) /\ Len(bits) < 8
    /\ currentlyReceiving \in BOOLEAN /\ collided \in BOOLEAN
    /\ msgBuf \in [0 .. SIZEOF - 1 -> Byte] /\ pkt \in PacketHeader
    /\ ok \in BOOLEAN
    /\ ready \in BOOLEAN
    /\ first \in [how : {"unknown", "intact", "damaged", "cut"},
                  pkt : PacketHeader, at : Nat]
    /\ faults \in 0 .. MAX_FAULTS

\* The checksum sent is the remainder of a polynomial division: the lookup
\* table, the shifts of an 8-bit register that fill it and the walk over the
\* bytes amount to the CRC-8 the code names.
ChecksumIsRemainder ==
    levels # <<>> =>
        outPkt.crc8_fcs = Remainder([i \in 1 .. outPkt.length |-> outPkt.msg[i - 1]])

Same(p, q) ==
    /\ \A f \in {"synch", "ver", "src", "dest", "length", "crc_flag", "crc8_fcs"} : p[f] = q[f]
    /\ \A i \in 0 .. q.length - 1 : p.msg[i] = q.msg[i]

\* Whatever came before it (damage, a collision, bits of an unfinished byte,
\* statics full of other messages), a frame that comes whole to a receiver that
\* saw the idle line is accepted and shown as it was created.
IntactIsAccepted ==
    [][Show /\ first.how = "intact" => ok' /\ Same(pkt', first.pkt)]_vars

\* Damage to a byte of the message, or to the checksum, is told from the text.
DamageIsNoticed ==
    [][Show /\ first.how = "damaged" /\ first.at > 6 => ~ok']_vars

\* The header has no checksum of its own, and damage to it may pass.  Of a frame
\* that met an idle line nothing else is accepted, though, than what was sent, or
\* if its length was damaged a beginning of it that has the checksum of the whole:
\* no text is accepted that a longer length completes, and of one that a collision
\* cut nothing was missing but the last bit, the 1 with which the line was let go.
AcceptedWasSent ==
    [][Show /\ ok' /\ first.how # "unknown" =>
          /\ first.how = "cut" => first.at = 8 * (first.pkt.length + 7) - 1
          /\ pkt'.length <= first.pkt.length
          /\ pkt'.length # first.pkt.length => first.how = "damaged" /\ first.at = 5
          /\ \A i \in 0 .. pkt'.length - 1 : pkt'.msg[i] = first.pkt.msg[i]
          /\ pkt'.crc8_fcs = first.pkt.crc8_fcs]_vars

\* A packet is accepted only if every field of it was received in this message:
\* nothing in it is left over in msgBuf or pkt from an earlier one.
AcceptedIsReceived ==
    [][Show /\ ok' =>
          LET n == Len(receiveBuf) - Len(receiveBuf') IN
          /\ n >= pkt'.length + 7
          /\ WithHeader(pkt', [i \in 0 .. 5 |-> receiveBuf[i + 1]]) = pkt'
          /\ \A i \in 0 .. pkt'.length - 1 : pkt'.msg[i] = receiveBuf[i + 7]
          /\ pkt'.crc8_fcs = receiveBuf[n]]_vars
=============================================================================
