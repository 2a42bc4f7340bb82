---------------------------- MODULE PacketHeader ----------------------------
(***************************************************************************)
(* The packet format of src/packet_header.c and the Manchester code around *)
(* it, over real bytes: a byte is a number of 0 .. 255, an array is a      *)
(* function from 0, and static variables that keep what an earlier call    *)
(* left in them are parameters here and variables of Packets.tla.          *)
(***************************************************************************)
EXTENDS Integers, Sequences, FiniteSets

CONSTANT PH_MSG_SIZE    \* bytes of PacketHeader.msg, 255 in packet_header.h

ASSUME PhMsgSizeAssumption == PH_MSG_SIZE \in 1 .. 255

Byte == 0 .. 255

\* sizeof(PacketHeader): six fields, the message, the checksum.
SIZEOF == PH_MSG_SIZE + 7

PacketHeader ==
    [synch : Byte, ver : Byte, src : Byte, dest : Byte, length : Byte,
     crc_flag : Byte, msg : [0 .. PH_MSG_SIZE - 1 -> Byte], crc8_fcs : Byte]

\* A static one.
ZeroPacket ==
    [synch |-> 0, ver |-> 0, src |-> 0, dest |-> 0, length |-> 0,
     crc_flag |-> 0, msg |-> [i \in 0 .. PH_MSG_SIZE - 1 |-> 0], crc8_fcs |-> 0]

\* memcpy: the first n bytes are new, the others are what they were.
memcpy(to, from, n) == [i \in DOMAIN to |-> IF i < n THEN from[i] ELSE to[i]]

-----------------------------------------------------------------------------
(* Bits of a byte, 7 being the most significant one. *)

BitOf(byte, i) == (byte \div 2^i) % 2

ByteOf(bit(_)) ==
    128 * bit(7) + 64 * bit(6) + 32 * bit(5) + 16 * bit(4)
    + 8 * bit(3) + 4 * bit(2) + 2 * bit(1) + bit(0)

Xor(a, b) == ByteOf(LAMBDA i : (BitOf(a, i) + BitOf(b, i)) % 2)

-----------------------------------------------------------------------------
(* The checksum. *)

\* x^2 + x + 1; the x^8 is implied.
CRC8_POLYNOMIAL == 7

\* (Fault: seven shifts.)
compute_crc8_byteFault(byte, polynomial) ==
    LET crc[bit \in 0 .. 7] ==
          IF bit = 0 THEN byte
          ELSE Xor((crc[bit - 1] * 2) % 256, polynomial * BitOf(crc[bit - 1], 7))
    IN crc[7]

\* Eight shifts of an 8-bit register: what is shifted out feeds the polynomial.
compute_crc8_byte(byte, polynomial) ==
    LET crc[bit \in 0 .. 8] ==
          IF bit = 0 THEN byte
          ELSE Xor((crc[bit - 1] * 2) % 256, polynomial * BitOf(crc[bit - 1], 7))
    IN crc[8]

compute_crc8_lookup_table(polynomial) == [i \in Byte |-> compute_crc8_byte(i, polynomial)]

\* Filled by ph_init before anything else runs.
crc8_lookuptable == compute_crc8_lookup_table(CRC8_POLYNOMIAL)

\* (Fault: the last byte is left out.)
ph_compute_crc8Fault(msg, size) ==
    LET crc[n \in 0 .. size] ==
          IF n = 0 THEN 0 ELSE crc8_lookuptable[Xor(crc[n - 1], msg[n - 1])]
    IN crc[IF size = 0 THEN 0 ELSE size - 1]

ph_compute_crc8(msg, size) ==
    LET crc[n \in 0 .. size] ==
          IF n = 0 THEN 0 ELSE crc8_lookuptable[Xor(crc[n - 1], msg[n - 1])]
    IN crc[size]

-----------------------------------------------------------------------------
(* Packets. *)

NO_CRC == 170

\* The packet for a message of some bytes, written over the packet out.
ph_create(out, src, dest, crc_flag, text) ==
    LET size == Len(text)
        msg  == [i \in DOMAIN out.msg |-> IF i < size THEN text[i + 1] ELSE out.msg[i]]
    IN [synch |-> 85, ver |-> 1, src |-> src, dest |-> dest, length |-> size,
        crc_flag |-> crc_flag, msg |-> msg,
        crc8_fcs |-> IF crc_flag = 1 THEN ph_compute_crc8(msg, size) ELSE NO_CRC]

\* The first six bytes of a buffer.
WithHeader(out, buf) ==
    [out EXCEPT !.synch = buf[0], !.ver = buf[1], !.src = buf[2],
                !.dest = buf[3], !.length = buf[4], !.crc_flag = buf[5]]

WithMessage(out, buf) ==
    [out EXCEPT !.msg = memcpy(out.msg, [i \in 0 .. SIZEOF - 7 |-> buf[i + 6]], out.length)]

\* (Fault: the length is compared with the array, not with what came.)
HoldsMessageFault(size, length) == length <= PH_MSG_SIZE

\* The size accounts for the message and a checksum.
HoldsMessage(size, length) == size >= SIZEOF - PH_MSG_SIZE + length

\* What ph_parse returns and leaves in out, which every return has written to
\* some extent: nothing, the header, the message, or the checksum too.
ph_parse(out, buf, size) ==
    LET header  == WithHeader(out, buf)
        message == WithMessage(header, buf)
        fcs     == buf[size - 1]
        crc     == ph_compute_crc8(message.msg, message.length)
        Returns(ok, pkt) == [ok |-> ok, pkt |-> pkt]
    IN CASE size < SIZEOF - PH_MSG_SIZE + 1       -> Returns(FALSE, out)
         [] /\ size >= SIZEOF - PH_MSG_SIZE + 1
            /\ ~HoldsMessage(size, header.length) -> Returns(FALSE, header)
         [] /\ size >= SIZEOF - PH_MSG_SIZE + 1
            /\ HoldsMessage(size, header.length)  ->
               IF header.crc_flag = 0 /\ fcs # NO_CRC
               THEN Returns(FALSE, message)
               ELSE Returns(crc = fcs, [message EXCEPT !.crc8_fcs = fcs])

-----------------------------------------------------------------------------
(* The line code. *)

\* A bit is its complement and then, less significant, itself.
SymbolBit(data, j) ==
    IF j % 2 = 0 THEN BitOf(data, j \div 2) ELSE 1 - BitOf(data, j \div 2)

\* The two bytes of the 16-bit symbol, the high one first.
transmitByte(data) ==
    <<ByteOf(LAMBDA i : SymbolBit(data, i + 8)), ByteOf(LAMBDA i : SymbolBit(data, i))>>

Symbols == [data \in Byte |-> transmitByte(data)]

\* The bytes passed to transmitByte, in order.
transmitMessage(pkt) ==
    <<pkt.synch, pkt.ver, pkt.src, pkt.dest, pkt.length, pkt.crc_flag>>
    \o [i \in 1 .. pkt.length |-> pkt.msg[i - 1]] \o <<pkt.crc8_fcs>>

\* What TIM2 puts on the line for them, most significant half-bit first.
Levels(bytes) ==
    [k \in 1 .. 16 * Len(bytes) |->
        LET halves == Symbols[bytes[(k - 1) \div 16 + 1]]
        IN BitOf(halves[((k - 1) % 16) \div 8 + 1], 7 - ((k - 1) % 8))]

\* The levels after the edges in the middle of the bits: what EXTI4 samples.
Samples(levels) == [k \in 1 .. Len(levels) \div 2 |-> levels[2 * k]]

\* dataByte of eight samples.
DataByte(bits) == ByteOf(LAMBDA i : bits[8 - i])

\* The bytes completed by some samples,
DataBytes(bits) ==
    [k \in 1 .. Len(bits) \div 8 |-> DataByte(SubSeq(bits, 8 * k - 7, 8 * k))]

\* (Fault: currBit stays at 8.)
RestOfFault(bits) ==
    SubSeq(bits, Len(bits) - (IF Len(bits) % 8 = 0 THEN 8 ELSE Len(bits) % 8) + 1, Len(bits))

\* and the bits of one that is not.
RestOf(bits) == SubSeq(bits, Len(bits) - (Len(bits) % 8) + 1, Len(bits))

-----------------------------------------------------------------------------
(* The reference for the checksum: polynomials over GF(2) as sets of        *)
(* exponents, and the remainder of a division by x^8 + x^2 + x + 1.         *)

SymmetricDifference(S, T) == (S \ T) \cup (T \ S)

Times(S) ==
    LET shifted == {e + 1 : e \in S}
    IN IF 8 \in shifted THEN SymmetricDifference(shifted \ {8}, {2, 1, 0}) ELSE shifted

\* The remainder of x^n.
PowerMod[n \in 0 .. 8 * PH_MSG_SIZE + 8] == IF n = 0 THEN {0} ELSE Times(PowerMod[n - 1])

\* Of the message as a polynomial, its first bit the highest, times x^8.
Remainder(text) ==
    LET Exponents == {e \in (1 .. Len(text)) \X (0 .. 7) : BitOf(text[e[1]], e[2]) = 1}
        Power(e)  == PowerMod[8 * (Len(text) - e[1]) + e[2] + 8]
    IN ByteOf(LAMBDA i : Cardinality({e \in Exponents : i \in Power(e)}) % 2)
=============================================================================
