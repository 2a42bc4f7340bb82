--------------------------- MODULE PacketsProofs ---------------------------
(***************************************************************************)
(* Theorems about packets between two cards, for messages of any length,   *)
(* any texts and addresses, any bytes that noise leaves and any point at   *)
(* which a collision cuts a frame: the type invariant, that an intact      *)
(* frame is accepted, that damage to one byte is noticed, that nothing of  *)
(* an accepted packet is left over from an earlier one, that nothing but   *)
(* what was sent or a beginning of it is accepted, and that the checksum   *)
(* on the line is a CRC-8.                                                 *)
(***************************************************************************)
EXTENDS Packets, PacketHeaderProofs

\* What ph_create makes of a text that the transmitter took.
Created(p) ==
    /\ p \in PacketHeader
    /\ p.crc_flag = 1 /\ p.length \in 1 .. PH_MSG_SIZE - 1
    /\ p.crc8_fcs = ph_compute_crc8(p.msg, p.length)

\* The line carries the packet created last, and its bytes have room.
OnTheLine ==
    levels # <<>> =>
        /\ Created(outPkt) /\ levels = Levels(transmitMessage(outPkt))
        /\ Len(receiveBuf) + SIZEOF < MAX_BYTES

\* The reset leaves no bits of an unfinished byte.
AfterReset == ready => bits = <<>>

\* What receiveBuf holds while the history knows it.
BeginsWith ==
    LET sent == transmitMessage(first.pkt) IN
    /\ first.how = "intact" => Created(first.pkt) /\ receiveBuf = sent
    /\ first.how = "damaged" =>
           /\ Created(first.pkt) /\ first.at \in 1 .. Len(sent)
           /\ \E mask \in 1 .. 255 :
                  receiveBuf = [sent EXCEPT ![first.at] = Xor(sent[first.at], mask)]
    /\ first.how = "cut" =>
           /\ Created(first.pkt) /\ first.at < 8 * Len(sent)
           /\ 8 * Len(receiveBuf) <= first.at + 1
           /\ \A j \in 1 .. Len(receiveBuf) :
                  receiveBuf[j] = sent[j] \/ 8 * j = first.at + 1

\* While the line is held low there is room for the bit with which it is let go,
\* and of a frame that was cut there is what came before the collision.
Held ==
    collided =>
        /\ levels = <<>> /\ ~ready /\ Len(receiveBuf) < MAX_BYTES
        /\ first.how \in {"cut", "unknown"}
        /\ first.how = "cut" => 8 * Len(receiveBuf) + Len(bits) = first.at

\* The invariant the theorems rest on.
Inv == TypeOK /\ OnTheLine /\ AfterReset /\ BeginsWith /\ Held

-----------------------------------------------------------------------------
(* The operators of the packet format. *)

\* A mask that is not zero changes the byte.
LEMMA XorChanges ==
    ASSUME NEW byte \in Byte, NEW mask \in 1 .. 255
    PROVE  Xor(byte, mask) \in Byte /\ Xor(byte, mask) # byte
<1>1. 0 \in Byte /\ mask \in Byte /\ byte \in Int /\ mask \in Int /\ 0 \in Int /\ mask # 0
  BY DEF Byte
<1>2. \A i \in 0 .. 7 : BitOf(0, i) = 0
  <2>1. /\ BitOf(0, 0) = 0 % 2 /\ BitOf(0, 1) = (0 \div 2) % 2
        /\ BitOf(0, 2) = (0 \div 4) % 2 /\ BitOf(0, 3) = (0 \div 8) % 2
        /\ BitOf(0, 4) = (0 \div 16) % 2 /\ BitOf(0, 5) = (0 \div 32) % 2
        /\ BitOf(0, 6) = (0 \div 64) % 2 /\ BitOf(0, 7) = (0 \div 128) % 2
    BY <1>1, BitsAre
  <2>2. /\ 0 \div 2 = 0 /\ 0 \div 4 = 0 /\ 0 \div 8 = 0 /\ 0 \div 16 = 0
        /\ 0 \div 32 = 0 /\ 0 \div 64 = 0 /\ 0 \div 128 = 0 /\ 0 % 2 = 0
    OBVIOUS
  <2>3. ASSUME NEW i \in 0 .. 7
        PROVE  i = 0 \/ i = 1 \/ i = 2 \/ i = 3 \/ i = 4 \/ i = 5 \/ i = 6 \/ i = 7
    OBVIOUS
  <2> QED
    BY <2>1, <2>2, <2>3
<1>3. Xor(byte, 0) \in Byte /\ \A i \in 0 .. 7 : BitOf(Xor(byte, 0), i) = BitOf(byte, i)
  <2>1. /\ Xor(byte, 0) \in Byte
        /\ \A i \in 0 .. 7 : BitOf(Xor(byte, 0), i) = (BitOf(byte, i) + BitOf(0, i)) % 2
    BY <1>1, XorBits
  <2>2. \A i \in 0 .. 7 : BitOf(byte, i) \in {0, 1}
    BY <1>1, BitTyped
  <2> QED
    BY <1>2, <2>1, <2>2
<1>4. Xor(byte, 0) = byte
  BY <1>3, SameBits
<1>5. Xor(byte, mask) \in Byte
  BY <1>1, XorBits
<1> QED
  BY <1>1, <1>4, <1>5, XorInjective

\* The bytes of a packet, in the order they are sent.
LEMMA MessageBytes ==
    ASSUME NEW p \in PacketHeader, p.length < PH_MSG_SIZE
    PROVE  /\ transmitMessage(p) \in Seq(Byte)
           /\ Len(transmitMessage(p)) = p.length + 7
           /\ Len(transmitMessage(p)) < SIZEOF
           /\ transmitMessage(p)[1] = p.synch /\ transmitMessage(p)[2] = p.ver
           /\ transmitMessage(p)[3] = p.src /\ transmitMessage(p)[4] = p.dest
           /\ transmitMessage(p)[5] = p.length /\ transmitMessage(p)[6] = p.crc_flag
           /\ \A i \in 0 .. p.length - 1 : transmitMessage(p)[i + 7] = p.msg[i]
           /\ transmitMessage(p)[p.length + 7] = p.crc8_fcs
<1> DEFINE h == <<p.synch, p.ver, p.src, p.dest, p.length, p.crc_flag>>
           m == [i \in 1 .. p.length |-> p.msg[i - 1]]
           c == <<p.crc8_fcs>>
<1>1. /\ p.synch \in Byte /\ p.ver \in Byte /\ p.src \in Byte /\ p.dest \in Byte
      /\ p.length \in Byte /\ p.crc_flag \in Byte /\ p.crc8_fcs \in Byte
      /\ p.msg \in [0 .. PH_MSG_SIZE - 1 -> Byte]
  BY DEF PacketHeader
<1>2. p.length \in Nat /\ PH_MSG_SIZE \in Nat /\ SIZEOF = PH_MSG_SIZE + 7
  <2>1. p.length \in 0 .. 255
    BY DEF PacketHeader, Byte
  <2> QED
    BY <2>1, PhMsgSizeAssumption DEF SIZEOF
<1>3. h \in Seq(Byte) /\ Len(h) = 6
  BY <1>1
<1>4. m \in Seq(Byte) /\ Len(m) = p.length
  <2>1. \A i \in 1 .. p.length : p.msg[i - 1] \in Byte
    BY <1>1, <1>2
  <2> QED
    BY <1>2, <2>1, IsASeq
<1>5. c \in Seq(Byte) /\ Len(c) = 1
  BY <1>1
<1>6. /\ h[1] = p.synch /\ h[2] = p.ver /\ h[3] = p.src /\ h[4] = p.dest
      /\ h[5] = p.length /\ h[6] = p.crc_flag /\ c[1] = p.crc8_fcs
      /\ \A i \in 1 .. p.length : m[i] = p.msg[i - 1]
  OBVIOUS
<1> DEFINE hm == h \o m
           s == hm \o c
<1>7. transmitMessage(p) = s
  BY DEF transmitMessage
<1> HIDE DEF h, m, c
<1>8. /\ hm \in Seq(Byte) /\ Len(hm) = 6 + p.length
      /\ \A i \in 1 .. 6 + p.length : hm[i] = IF i <= 6 THEN h[i] ELSE m[i - 6]
  <2>1. /\ h \o m \in Seq(Byte) /\ Len(h \o m) = Len(h) + Len(m)
        /\ \A i \in 1 .. Len(h) + Len(m) :
               (h \o m)[i] = IF i <= Len(h) THEN h[i] ELSE m[i - Len(h)]
    BY <1>3, <1>4, ConcatProperties
  <2> QED
    BY <1>3, <1>4, <2>1
<1> HIDE DEF hm
<1>9. /\ s \in Seq(Byte) /\ Len(s) = p.length + 7
      /\ \A i \in 1 .. p.length + 7 :
             s[i] = IF i <= 6 + p.length THEN hm[i] ELSE c[i - (6 + p.length)]
  <2>1. /\ hm \o c \in Seq(Byte) /\ Len(hm \o c) = Len(hm) + Len(c)
        /\ \A i \in 1 .. Len(hm) + Len(c) :
               (hm \o c)[i] = IF i <= Len(hm) THEN hm[i] ELSE c[i - Len(hm)]
    BY <1>5, <1>8, ConcatProperties
  <2>2. Len(hm) + Len(c) = p.length + 7
    BY <1>2, <1>5, <1>8
  <2> QED
    BY <1>8, <2>1, <2>2
<1> HIDE DEF s
<1>10. ASSUME NEW i \in 1 .. 6 PROVE s[i] = h[i]
  <2>1. i \in 1 .. 6 + p.length /\ i \in 1 .. p.length + 7 /\ i <= 6 + p.length /\ i <= 6
    BY <1>2
  <2>2. s[i] = hm[i]
    BY <1>9, <2>1
  <2>3. hm[i] = h[i]
    BY <1>8, <2>1
  <2> QED
    BY <2>2, <2>3
<1>11. ASSUME NEW i \in 0 .. p.length - 1 PROVE s[i + 7] = p.msg[i]
  <2>1. /\ i + 7 \in 1 .. 6 + p.length /\ i + 7 \in 1 .. p.length + 7
        /\ ~(i + 7 <= 6) /\ i + 7 - 6 = i + 1 /\ i + 7 <= 6 + p.length
    BY <1>2
  <2>2. i + 1 \in 1 .. p.length /\ (i + 1) - 1 = i
    BY <1>2
  <2>3. s[i + 7] = hm[i + 7]
    BY <1>9, <2>1
  <2>4. hm[i + 7] = m[i + 1]
    BY <1>8, <2>1
  <2>5. m[i + 1] = p.msg[(i + 1) - 1]
    BY <1>6, <2>2
  <2> QED
    BY <2>2, <2>3, <2>4, <2>5
<1>12. s[p.length + 7] = p.crc8_fcs
  <2>1. /\ p.length + 7 \in 1 .. p.length + 7 /\ ~(p.length + 7 <= 6 + p.length)
        /\ p.length + 7 - (6 + p.length) = 1
    BY <1>2
  <2>2. ASSUME NEW k \in 1 .. p.length + 7, ~(k <= 6 + p.length), k - (6 + p.length) = 1
        PROVE  s[k] = c[1]
    BY <1>9, <2>2
  <2>3. s[p.length + 7] = c[1]
    BY <1>2, <2>1, <2>2
  <2> QED
    BY <1>6, <2>3
<1>13. /\ s[1] = p.synch /\ s[2] = p.ver /\ s[3] = p.src /\ s[4] = p.dest
       /\ s[5] = p.length /\ s[6] = p.crc_flag
  <2>1. /\ s[1] = h[1] /\ s[2] = h[2] /\ s[3] = h[3]
        /\ s[4] = h[4] /\ s[5] = h[5] /\ s[6] = h[6]
    BY <1>10
  <2> QED
    BY <1>6, <2>1
<1>14. p.length + 7 < SIZEOF
  BY <1>2
<1> QED
  BY <1>7, <1>9, <1>11, <1>12, <1>13, <1>14

\* So a packet that was created is a sequence of bytes.
LEMMA CreatedBytes ==
    ASSUME NEW p, Created(p)
    PROVE  /\ transmitMessage(p) \in Seq(Byte)
           /\ Len(transmitMessage(p)) \in Nat /\ Len(transmitMessage(p)) >= 7
<1>1. PH_MSG_SIZE \in Nat
  BY PhMsgSizeAssumption
<1>2. p \in PacketHeader /\ p.length \in Nat /\ p.length < PH_MSG_SIZE
  BY <1>1 DEF Created
<1>3. transmitMessage(p) \in Seq(Byte) /\ Len(transmitMessage(p)) = p.length + 7
  BY <1>2, MessageBytes
<1> QED
  BY <1>2, <1>3

\* The end of the text is written after the message.
LEMMA TerminatedIs ==
    ASSUME NEW p \in PacketHeader
    PROVE  /\ Terminated(p) \in PacketHeader
           /\ Terminated(p).synch = p.synch /\ Terminated(p).ver = p.ver
           /\ Terminated(p).src = p.src /\ Terminated(p).dest = p.dest
           /\ Terminated(p).length = p.length /\ Terminated(p).crc_flag = p.crc_flag
           /\ Terminated(p).crc8_fcs = p.crc8_fcs
           /\ \A i \in 0 .. PH_MSG_SIZE - 1 : i < p.length => Terminated(p).msg[i] = p.msg[i]
<1>1. p.length \in Nat /\ PH_MSG_SIZE \in Nat /\ 0 \in Byte
  <2>1. p.length \in 0 .. 255
    BY DEF PacketHeader, Byte
  <2> QED
    BY <2>1, PhMsgSizeAssumption DEF Byte
<1>2. CASE p.length < PH_MSG_SIZE - 1
  <2>1. Terminated(p) = [p EXCEPT !.msg = [p.msg EXCEPT ![p.length] = 0]]
    BY <1>2 DEF Terminated
  <2>2. p.msg \in [0 .. PH_MSG_SIZE - 1 -> Byte]
    BY DEF PacketHeader
  <2>3. /\ [p.msg EXCEPT ![p.length] = 0] \in [0 .. PH_MSG_SIZE - 1 -> Byte]
        /\ \A i \in 0 .. PH_MSG_SIZE - 1 :
               i < p.length => [p.msg EXCEPT ![p.length] = 0][i] = p.msg[i]
    <3> DEFINE m == [p.msg EXCEPT ![p.length] = 0]
    <3>1. m \in [0 .. PH_MSG_SIZE - 1 -> Byte]
      BY <1>1, <2>2
    <3>2. ASSUME NEW i \in 0 .. PH_MSG_SIZE - 1, i < p.length PROVE m[i] = p.msg[i]
      <4>1. i # p.length /\ i \in DOMAIN p.msg
        BY <1>1, <2>2, <3>2
      <4> QED
        BY <4>1
    <3> QED
      BY <3>1, <3>2
  <2> QED
    BY <2>1, <2>3 DEF PacketHeader
<1>3. CASE ~(p.length < PH_MSG_SIZE - 1)
  BY <1>3 DEF Terminated
<1> QED
  BY <1>2, <1>3

\* A packet made of a text that fits has the checksum of its message, and the
\* end of the text that is written after the message leaves it so.
LEMMA CreatedIs ==
    ASSUME NEW out \in PacketHeader, NEW text \in Seq(Byte),
           Len(text) \in 1 .. PH_MSG_SIZE - 1
    PROVE  Created(Terminated(ph_create(out, SRC, DEST, 1, text)))
<1> DEFINE size == Len(text)
           msg == [i \in DOMAIN out.msg |-> IF i < size THEN text[i + 1] ELSE out.msg[i]]
           p == ph_create(out, SRC, DEST, 1, text)
           fcs == ph_compute_crc8(msg, size)
<1>1. /\ size \in Nat /\ PH_MSG_SIZE \in 1 .. 255 /\ size \in 1 .. PH_MSG_SIZE - 1
      /\ out.msg \in [0 .. PH_MSG_SIZE - 1 -> Byte]
  BY PhMsgSizeAssumption DEF PacketHeader
<1>2. msg \in [0 .. PH_MSG_SIZE - 1 -> Byte]
  <2>1. ASSUME NEW i \in 0 .. PH_MSG_SIZE - 1, i < size PROVE text[i + 1] \in Byte
    <3>1. i + 1 \in 1 .. Len(text)
      BY <1>1, <2>1
    <3> QED
      BY <3>1, ElementOfSeq
  <2> QED
    BY <1>1, <2>1
<1>3. p = [synch |-> 85, ver |-> 1, src |-> SRC, dest |-> DEST, length |-> size,
           crc_flag |-> 1, msg |-> msg, crc8_fcs |-> fcs]
  BY DEF ph_create
<1> HIDE DEF msg, p
<1>4. \A i \in 0 .. size - 1 : msg[i] \in Byte /\ i \in 0 .. PH_MSG_SIZE - 1 /\ i < size
  BY <1>1, <1>2
<1>5. fcs \in Byte
  BY <1>1, <1>4, CrcTyped
<1> HIDE DEF fcs, size
<1>6. p \in PacketHeader
  <2>1. 85 \in Byte /\ 1 \in Byte /\ size \in Byte
    BY <1>1 DEF Byte
  <2> QED
    BY <1>2, <1>3, <1>5, <2>1, AddressAssumption DEF PacketHeader
<1>7. p.length = size /\ p.crc_flag = 1 /\ p.msg = msg /\ p.crc8_fcs = fcs
  BY <1>3
<1> DEFINE q == Terminated(p)
<1>8. /\ q \in PacketHeader /\ q.length = size /\ q.crc_flag = 1 /\ q.crc8_fcs = fcs
      /\ \A i \in 0 .. PH_MSG_SIZE - 1 : i < size => q.msg[i] = msg[i]
  BY <1>6, <1>7, TerminatedIs
<1> HIDE DEF q
<1>9. ph_compute_crc8(msg, size) = ph_compute_crc8(q.msg, size)
  <2>1. \A i \in 0 .. size - 1 : msg[i] \in Byte /\ q.msg[i] = msg[i]
    BY <1>4, <1>8
  <2> QED
    BY <1>1, <2>1, CrcOfBytes
<1>10. Created(q)
  BY <1>1, <1>8, <1>9 DEF Created, fcs
<1> QED
  BY <1>10 DEF q, p

\* What ph_parse makes of a buffer.  It accepts only a complete message; of one
\* that carries a checksum or is accepted every field comes from the buffer, and
\* the checksum decides.
LEMMA Parsed ==
    ASSUME NEW out \in PacketHeader, NEW buf \in [0 .. SIZEOF - 1 -> Byte],
           NEW size \in 1 .. SIZEOF
    PROVE  LET r == ph_parse(out, buf, size) IN
           /\ r.ok \in BOOLEAN /\ r.pkt \in PacketHeader
           /\ r.ok => size >= 8 /\ size >= buf[4] + 7
           /\ (size >= 8 /\ size >= buf[4] + 7 /\ (r.ok \/ buf[5] = 1)) =>
                  /\ r.pkt.synch = buf[0] /\ r.pkt.ver = buf[1] /\ r.pkt.src = buf[2]
                  /\ r.pkt.dest = buf[3] /\ r.pkt.length = buf[4]
                  /\ r.pkt.crc_flag = buf[5] /\ r.pkt.crc8_fcs = buf[size - 1]
                  /\ \A i \in 0 .. buf[4] - 1 :
                         r.pkt.msg[i] = buf[i + 6] /\ i \in 0 .. PH_MSG_SIZE - 1
                  /\ r.ok <=> ph_compute_crc8(r.pkt.msg, buf[4]) = buf[size - 1]
<1> DEFINE header == WithHeader(out, buf)
           message == WithMessage(header, buf)
           accepted == [message EXCEPT !.crc8_fcs = buf[size - 1]]
           crc == ph_compute_crc8(message.msg, message.length)
           r == ph_parse(out, buf, size)
<1>1. /\ PH_MSG_SIZE \in 1 .. 255 /\ SIZEOF = PH_MSG_SIZE + 7 /\ size - 1 \in 0 .. SIZEOF - 1
      /\ SIZEOF - PH_MSG_SIZE + 1 = 8
  BY PhMsgSizeAssumption DEF SIZEOF
<1>2. \A i \in 0 .. SIZEOF - 1 : buf[i] \in Byte /\ buf[i] \in Nat
  <2>1. \A b \in Byte : b \in Nat
    BY DEF Byte
  <2> QED
    BY <2>1
<1>3. header = [synch |-> buf[0], ver |-> buf[1], src |-> buf[2], dest |-> buf[3],
                length |-> buf[4], crc_flag |-> buf[5], msg |-> out.msg,
                crc8_fcs |-> out.crc8_fcs]
  <2>1. out = [synch |-> out.synch, ver |-> out.ver, src |-> out.src, dest |-> out.dest,
               length |-> out.length, crc_flag |-> out.crc_flag, msg |-> out.msg,
               crc8_fcs |-> out.crc8_fcs]
    BY DEF PacketHeader
  <2>2. header = [out EXCEPT !.synch = buf[0], !.ver = buf[1], !.src = buf[2],
                             !.dest = buf[3], !.length = buf[4], !.crc_flag = buf[5]]
    BY DEF WithHeader
  <2> HIDE DEF header
  <2> QED
    BY <2>1, <2>2
<1>4. header \in PacketHeader /\ out.msg \in [0 .. PH_MSG_SIZE - 1 -> Byte]
  BY <1>1, <1>2, <1>3 DEF PacketHeader
<1> DEFINE msg == memcpy(out.msg, [i \in 0 .. SIZEOF - 7 |-> buf[i + 6]], buf[4])
<1>5. message = [header EXCEPT !.msg = msg]
  BY <1>3 DEF WithMessage
<1>6. /\ msg \in [0 .. PH_MSG_SIZE - 1 -> Byte]
      /\ \A i \in 0 .. PH_MSG_SIZE - 1 : i < buf[4] => msg[i] = buf[i + 6]
  <2>1. ASSUME NEW i \in 0 .. PH_MSG_SIZE - 1
        PROVE  i \in 0 .. SIZEOF - 7 /\ i + 6 \in 0 .. SIZEOF - 1 /\ buf[i + 6] \in Byte
    BY <1>1, <1>2
  <2>2. DOMAIN out.msg = 0 .. PH_MSG_SIZE - 1
    BY <1>4
  <2>3. msg = [i \in 0 .. PH_MSG_SIZE - 1 |-> IF i < buf[4] THEN buf[i + 6] ELSE out.msg[i]]
    BY <2>1, <2>2 DEF memcpy
  <2> QED
    BY <1>4, <2>1, <2>3
<1> HIDE DEF header, message, msg
<1>7. /\ message = [synch |-> buf[0], ver |-> buf[1], src |-> buf[2], dest |-> buf[3],
                    length |-> buf[4], crc_flag |-> buf[5], msg |-> msg,
                    crc8_fcs |-> out.crc8_fcs]
      /\ header.length = buf[4] /\ header.crc_flag = buf[5]
  BY <1>3, <1>5
<1>8. out.crc8_fcs \in Byte /\ buf[size - 1] \in Byte
  BY <1>1, <1>2 DEF PacketHeader
<1>9. /\ accepted = [synch |-> buf[0], ver |-> buf[1], src |-> buf[2], dest |-> buf[3],
                     length |-> buf[4], crc_flag |-> buf[5], msg |-> msg,
                     crc8_fcs |-> buf[size - 1]]
  BY <1>7
<1>10. message \in PacketHeader /\ accepted \in PacketHeader
  <2>1. /\ buf[0] \in Byte /\ buf[1] \in Byte /\ buf[2] \in Byte /\ buf[3] \in Byte
        /\ buf[4] \in Byte /\ buf[5] \in Byte
    BY <1>1, <1>2
  <2>2. message \in PacketHeader
    BY <1>6, <1>7, <1>8, <2>1 DEF PacketHeader
  <2> QED
    BY <1>6, <1>8, <1>9, <2>1, <2>2 DEF PacketHeader
<1>11. HoldsMessage(size, header.length) <=> size >= buf[4] + 7
  BY <1>1, <1>2, <1>7 DEF HoldsMessage
<1>12. CASE size < 8
  <2>1. r = [ok |-> FALSE, pkt |-> out]
    BY <1>1, <1>12 DEF ph_parse, header
  <2> QED
    BY <1>12, <2>1
<1>13. CASE size >= 8 /\ ~(size >= buf[4] + 7)
  <2>1. r = [ok |-> FALSE, pkt |-> header]
    BY <1>1, <1>11, <1>13 DEF ph_parse, header
  <2> QED
    BY <1>4, <1>13, <2>1
<1>14. CASE size >= 8 /\ size >= buf[4] + 7
  <2>1. r = IF buf[5] = 0 /\ buf[size - 1] # NO_CRC
            THEN [ok |-> FALSE, pkt |-> message]
            ELSE [ok |-> crc = buf[size - 1], pkt |-> accepted]
    BY <1>1, <1>7, <1>11, <1>14 DEF ph_parse, header, message
  <2>2. r = [ok |-> FALSE, pkt |-> message] \/ r = [ok |-> crc = buf[size - 1], pkt |-> accepted]
    BY <2>1
  <2> HIDE DEF r, crc, accepted
  <2>3. r.ok \in BOOLEAN /\ r.pkt \in PacketHeader
    <3>1. CASE r = [ok |-> FALSE, pkt |-> message]
      BY <1>10, <3>1
    <3>2. CASE r = [ok |-> crc = buf[size - 1], pkt |-> accepted]
      <4>1. r.pkt = accepted /\ r.ok = (crc = buf[size - 1])
        BY <3>2
      <4> QED
        BY <1>10, <4>1
    <3> QED
      BY <2>2, <3>1, <3>2
  <2>4. ASSUME r.ok \/ buf[5] = 1
        PROVE  r.pkt = accepted /\ (r.ok <=> crc = buf[size - 1])
    <3>1. CASE buf[5] = 0 /\ buf[size - 1] # NO_CRC
      BY <2>1, <2>4, <3>1
    <3>2. CASE ~(buf[5] = 0 /\ buf[size - 1] # NO_CRC)
      BY <2>1, <3>2
    <3> QED
      BY <3>1, <3>2
  <2>5. crc = ph_compute_crc8(msg, buf[4]) /\ accepted.msg = msg
    BY <1>7, <1>9 DEF crc, accepted
  <2>6. \A i \in 0 .. buf[4] - 1 : msg[i] = buf[i + 6] /\ i \in 0 .. PH_MSG_SIZE - 1
    BY <1>1, <1>2, <1>6, <1>14
  <2>7. /\ accepted.synch = buf[0] /\ accepted.ver = buf[1] /\ accepted.src = buf[2]
        /\ accepted.dest = buf[3] /\ accepted.length = buf[4]
        /\ accepted.crc_flag = buf[5] /\ accepted.crc8_fcs = buf[size - 1]
    BY <1>9
  <2> QED
    BY <1>14, <2>3, <2>4, <2>5, <2>6, <2>7 DEF r
<1> HIDE DEF r
<1>15. \/ size < 8 \/ (size >= 8 /\ ~(size >= buf[4] + 7)) \/ (size >= 8 /\ size >= buf[4] + 7)
  OBVIOUS
<1> QED
  BY <1>12, <1>13, <1>14, <1>15 DEF r

-----------------------------------------------------------------------------
(* What the steps do. *)

\* Bits fill bytes and leave a rest; one more completes a byte if it is the eighth.
LEMMA BytesAndRest ==
    /\ \A n \in Nat : 8 * (n \div 8) + (n % 8) = n
    /\ \A k \in 0 .. 7 : /\ (k + 1) % 8 \in 0 .. 7
                       /\ (k + 1) \div 8 = IF k = 7 THEN 1 ELSE 0
<1>1. ASSUME NEW n \in Nat PROVE 8 * (n \div 8) + (n % 8) = n
  OBVIOUS
<1>2. ASSUME NEW k \in 0 .. 7
      PROVE  (k + 1) % 8 \in 0 .. 7 /\ (k + 1) \div 8 = IF k = 7 THEN 1 ELSE 0
  <2>1. CASE k = 7
    BY <2>1
  <2>2. CASE k < 7
    BY <2>2
  <2> QED
    BY <2>1, <2>2
<1> QED
  BY <1>1, <1>2

\* Samples complete as many bytes as they fill, together with the bits that
\* were there, and leave fewer than eight bits.
LEMMA Completed ==
    ASSUME NEW b \in Seq({0, 1}), Len(b) < 8, NEW new \in Seq({0, 1}),
           NEW n \in Nat, Len(new) <= 8 * n
    PROVE  /\ DataBytes(b \o new) \in Seq(Byte) /\ Len(DataBytes(b \o new)) <= n
           /\ RestOf(b \o new) \in Seq({0, 1}) /\ Len(RestOf(b \o new)) < 8
<1> DEFINE all == b \o new
<1>1. all \in Seq({0, 1}) /\ Len(all) = Len(b) + Len(new)
  BY ConcatProperties
<1>2. Len(b) \in Nat /\ Len(new) \in Nat
  BY LenProperties
<1> HIDE DEF all
<1>3. /\ DataBytes(all) \in Seq(Byte) /\ Len(DataBytes(all)) = Len(all) \div 8
      /\ RestOf(all) \in Seq({0, 1}) /\ Len(RestOf(all)) = Len(all) % 8
      /\ Len(all) \div 8 \in Nat /\ Len(all) % 8 \in 0 .. 7
  BY <1>1, DataBytesTyped
<1>4. Len(all) \div 8 <= n
  BY <1>1, <1>2
<1>5. Len(all) % 8 < 8
  BY <1>3
<1>6. /\ DataBytes(all) \in Seq(Byte) /\ Len(DataBytes(all)) <= n
      /\ RestOf(all) \in Seq({0, 1}) /\ Len(RestOf(all)) < 8
  BY <1>3, <1>4, <1>5
<1> QED
  BY <1>6 DEF all

\* A frame that arrives, whole or not, has room in receiveBuf.
LEMMA ArrivalKeeps ==
    ASSUME TypeOK, OnTheLine,
           NEW new \in Seq({0, 1}), Len(new) <= 8 * Len(transmitMessage(outPkt)),
           NEW how \in {"intact", "damaged", "cut"}, NEW at \in Nat,
           Received(new), Arrived(how, at),
           collided' \in BOOLEAN, faults' \in 0 .. MAX_FAULTS
    PROVE  /\ TypeOK' /\ OnTheLine' /\ AfterReset'
           /\ levels' = <<>> /\ ~ready' /\ Len(receiveBuf') < MAX_BYTES
<1> DEFINE all == bits \o new
           n == Len(transmitMessage(outPkt))
<1>1. /\ levels # <<>> /\ levels' = <<>> /\ outPkt' = outPkt
      /\ receiveBuf' = receiveBuf \o DataBytes(all) /\ bits' = RestOf(all)
      /\ currentlyReceiving' = TRUE /\ ready' = FALSE
      /\ msgBuf' = msgBuf /\ pkt' = pkt /\ ok' = ok
  BY DEF Received, Sampled, showVars
<1>2. /\ outPkt \in PacketHeader /\ outPkt.length < PH_MSG_SIZE
      /\ receiveBuf \in Seq(Byte) /\ bits \in Seq({0, 1}) /\ Len(bits) < 8
  BY DEF TypeOK
<1>3. n \in Nat /\ n < SIZEOF
  <2>1. transmitMessage(outPkt) \in Seq(Byte) /\ Len(transmitMessage(outPkt)) < SIZEOF
    BY <1>2, MessageBytes
  <2> QED
    BY <2>1, LenProperties
<1>4. Len(receiveBuf) + SIZEOF < MAX_BYTES /\ Len(receiveBuf) \in Nat
  BY <1>1, <1>2, LenProperties DEF OnTheLine
<1>5. /\ DataBytes(all) \in Seq(Byte) /\ Len(DataBytes(all)) <= n
      /\ RestOf(all) \in Seq({0, 1}) /\ Len(RestOf(all)) < 8
  BY <1>2, <1>3, Completed
<1> HIDE DEF all, n
<1>6. receiveBuf' \in Seq(Byte) /\ Len(receiveBuf') = Len(receiveBuf) + Len(DataBytes(all))
  BY <1>1, <1>2, <1>5, ConcatProperties
<1>7. Len(receiveBuf') < MAX_BYTES /\ Len(receiveBuf') <= MAX_BYTES
  <2>1. Len(DataBytes(all)) \in Nat /\ SIZEOF \in Nat
    BY <1>5, LenProperties, PhMsgSizeAssumption DEF SIZEOF
  <2> QED
    BY <1>3, <1>4, <1>5, <1>6, <2>1, BoundsAssumption
<1>8. first' \in [how : {"unknown", "intact", "damaged", "cut"},
                  pkt : PacketHeader, at : Nat]
  <2>1. ZeroPacket \in PacketHeader
    BY PhMsgSizeAssumption DEF ZeroPacket, PacketHeader, Byte
  <2>2. first' = [how |-> how, pkt |-> outPkt, at |-> at] \/ first' = Unknown
    BY DEF Arrived
  <2>3. CASE first' = Unknown
    BY <2>1, <2>3 DEF Unknown
  <2>4. CASE first' = [how |-> how, pkt |-> outPkt, at |-> at]
    BY <1>2, <2>4
  <2> QED
    BY <2>2, <2>3, <2>4
<1>9. levels' \in Seq({0, 1})
  BY <1>1
<1>10. TypeOK'
  <2>1. /\ outPkt' \in PacketHeader /\ outPkt'.length < PH_MSG_SIZE
        /\ bits' \in Seq({0, 1}) /\ Len(bits') < 8
    BY <1>1, <1>2, <1>5
  <2>2. /\ msgBuf' \in [0 .. SIZEOF - 1 -> Byte] /\ pkt' \in PacketHeader
        /\ ok' \in BOOLEAN /\ currentlyReceiving' \in BOOLEAN /\ ready' \in BOOLEAN
    BY <1>1 DEF TypeOK
  <2> QED
    BY <1>6, <1>7, <1>8, <1>9, <2>1, <2>2 DEF TypeOK
<1>11. OnTheLine' /\ AfterReset'
  BY <1>1 DEF OnTheLine, AfterReset
<1> QED
  BY <1>1, <1>7, <1>10, <1>11

\* What is taken out of receiveBuf, parsed and shown.
LEMMA Shown ==
    ASSUME TypeOK, Show
    PROVE  LET n == TakenCount IN
           /\ n \in 1 .. SIZEOF /\ n = Len(receiveBuf) - Len(receiveBuf')
           /\ n = IF Len(receiveBuf) < SIZEOF THEN Len(receiveBuf) ELSE SIZEOF
           /\ receiveBuf' \in Seq(Byte) /\ Len(receiveBuf') <= Len(receiveBuf)
           /\ msgBuf' \in [0 .. SIZEOF - 1 -> Byte]
           /\ ok' \in BOOLEAN /\ pkt' \in PacketHeader
           /\ ok' => n >= 8 /\ n >= receiveBuf[5] + 7
           /\ (n >= 8 /\ n >= receiveBuf[5] + 7 /\ (ok' \/ receiveBuf[6] = 1)) =>
                  /\ pkt'.synch = receiveBuf[1] /\ pkt'.ver = receiveBuf[2]
                  /\ pkt'.src = receiveBuf[3] /\ pkt'.dest = receiveBuf[4]
                  /\ pkt'.length = receiveBuf[5] /\ pkt'.crc_flag = receiveBuf[6]
                  /\ pkt'.crc8_fcs = receiveBuf[n]
                  /\ \A i \in 0 .. receiveBuf[5] - 1 :
                         pkt'.msg[i] = receiveBuf[i + 7] /\ pkt'.msg[i] \in Byte
                  /\ ok' <=> ph_compute_crc8(pkt'.msg, receiveBuf[5]) = receiveBuf[n]
<1> DEFINE n == TakenCount
           new == [i \in 0 .. n - 1 |-> receiveBuf[i + 1]]
           parsed == ph_parse(pkt, msgBuf', n)
<1>1. /\ receiveBuf \in Seq(Byte) /\ msgBuf \in [0 .. SIZEOF - 1 -> Byte]
      /\ pkt \in PacketHeader
  BY DEF TypeOK
<1>2. /\ receiveBuf # <<>> /\ receiveBuf' = SubSeq(receiveBuf, n + 1, Len(receiveBuf))
      /\ msgBuf' = memcpy(msgBuf, new, n)
      /\ ok' = parsed.ok /\ pkt' = Terminated(parsed.pkt)
  BY DEF Show
<1>3. Len(receiveBuf) \in Nat \ {0} /\ SIZEOF \in Nat /\ SIZEOF >= 8
  BY <1>1, <1>2, EmptySeq, PhMsgSizeAssumption DEF SIZEOF
<1>4. n = IF Len(receiveBuf) < SIZEOF THEN Len(receiveBuf) ELSE SIZEOF
  BY DEF TakenCount
<1> HIDE DEF n
<1>5. n \in 1 .. SIZEOF /\ n \in 1 .. Len(receiveBuf)
  BY <1>3, <1>4
<1>6. /\ receiveBuf' \in Seq(Byte) /\ n = Len(receiveBuf) - Len(receiveBuf')
      /\ Len(receiveBuf') <= Len(receiveBuf)
  <2>1. \A i \in n + 1 .. Len(receiveBuf) : receiveBuf[i] \in Byte
    <3>1. \A i \in 1 .. Len(receiveBuf) : receiveBuf[i] \in Byte
      BY <1>1, ElementOfSeq
    <3> QED
      BY <1>3, <1>5, <3>1
  <2>2. /\ SubSeq(receiveBuf, n + 1, Len(receiveBuf)) \in Seq(Byte)
        /\ Len(SubSeq(receiveBuf, n + 1, Len(receiveBuf)))
               = IF n + 1 <= Len(receiveBuf) THEN Len(receiveBuf) - (n + 1) + 1 ELSE 0
    BY <1>3, <1>5, <2>1, SubSeqProperties
  <2> QED
    BY <1>2, <1>3, <1>5, <2>2
<1>7. /\ msgBuf' \in [0 .. SIZEOF - 1 -> Byte]
      /\ \A i \in 0 .. n - 1 : msgBuf'[i] = receiveBuf[i + 1]
  <2>1. ASSUME NEW i \in 0 .. n - 1
        PROVE  new[i] = receiveBuf[i + 1] /\ new[i] \in Byte /\ i \in 0 .. SIZEOF - 1 /\ i < n
    <3>1. i + 1 \in 1 .. Len(receiveBuf) /\ i \in 0 .. SIZEOF - 1 /\ i < n
      BY <1>3, <1>5
    <3>2. receiveBuf[i + 1] \in Byte
      BY <1>1, <3>1, ElementOfSeq
    <3> QED
      BY <3>1, <3>2
  <2>2. \A i \in 0 .. SIZEOF - 1 : i < n => i \in 0 .. n - 1
    BY <1>3, <1>5
  <2>3. msgBuf' = [i \in 0 .. SIZEOF - 1 |-> IF i < n THEN new[i] ELSE msgBuf[i]]
    BY <1>1, <1>2 DEF memcpy
  <2> HIDE DEF new
  <2> QED
    BY <1>1, <2>1, <2>2, <2>3
<1> HIDE DEF new
<1>8. /\ parsed.ok \in BOOLEAN /\ parsed.pkt \in PacketHeader
      /\ parsed.ok => n >= 8 /\ n >= msgBuf'[4] + 7
      /\ (n >= 8 /\ n >= msgBuf'[4] + 7 /\ (parsed.ok \/ msgBuf'[5] = 1)) =>
             /\ parsed.pkt.synch = msgBuf'[0] /\ parsed.pkt.ver = msgBuf'[1]
             /\ parsed.pkt.src = msgBuf'[2] /\ parsed.pkt.dest = msgBuf'[3]
             /\ parsed.pkt.length = msgBuf'[4] /\ parsed.pkt.crc_flag = msgBuf'[5]
             /\ parsed.pkt.crc8_fcs = msgBuf'[n - 1]
             /\ \A i \in 0 .. msgBuf'[4] - 1 :
                    parsed.pkt.msg[i] = msgBuf'[i + 6] /\ i \in 0 .. PH_MSG_SIZE - 1
             /\ parsed.ok <=> ph_compute_crc8(parsed.pkt.msg, msgBuf'[4]) = msgBuf'[n - 1]
  BY <1>1, <1>5, <1>7, Parsed
<1> HIDE DEF parsed
<1>9. ok' \in BOOLEAN /\ pkt' \in PacketHeader
  BY <1>2, <1>8, TerminatedIs
<1>10. ASSUME n >= 8
       PROVE  /\ msgBuf'[0] = receiveBuf[1] /\ msgBuf'[1] = receiveBuf[2]
              /\ msgBuf'[2] = receiveBuf[3] /\ msgBuf'[3] = receiveBuf[4]
              /\ msgBuf'[4] = receiveBuf[5] /\ msgBuf'[5] = receiveBuf[6]
              /\ msgBuf'[n - 1] = receiveBuf[n] /\ receiveBuf[5] \in Nat
  <2>1. /\ 0 \in 0 .. n - 1 /\ 1 \in 0 .. n - 1 /\ 2 \in 0 .. n - 1 /\ 3 \in 0 .. n - 1
        /\ 4 \in 0 .. n - 1 /\ 5 \in 0 .. n - 1 /\ n - 1 \in 0 .. n - 1 /\ (n - 1) + 1 = n
        /\ 5 \in 1 .. Len(receiveBuf)
    BY <1>3, <1>5, <1>10
  <2>2. receiveBuf[5] \in Nat
    <3>1. receiveBuf[5] \in Byte
      BY <1>1, <2>1, ElementOfSeq
    <3> QED
      BY <3>1 DEF Byte
  <2> QED
    BY <1>7, <2>1, <2>2
<1>11. ok' => n >= 8 /\ n >= receiveBuf[5] + 7
  BY <1>2, <1>8, <1>10
<1>12. ASSUME n >= 8, n >= receiveBuf[5] + 7, ok' \/ receiveBuf[6] = 1
       PROVE  /\ pkt'.synch = receiveBuf[1] /\ pkt'.ver = receiveBuf[2]
              /\ pkt'.src = receiveBuf[3] /\ pkt'.dest = receiveBuf[4]
              /\ pkt'.length = receiveBuf[5] /\ pkt'.crc_flag = receiveBuf[6]
              /\ pkt'.crc8_fcs = receiveBuf[n]
              /\ \A i \in 0 .. receiveBuf[5] - 1 :
                     pkt'.msg[i] = receiveBuf[i + 7] /\ pkt'.msg[i] \in Byte
              /\ ok' <=> ph_compute_crc8(pkt'.msg, receiveBuf[5]) = receiveBuf[n]
  <2> DEFINE p == parsed.pkt
             length == receiveBuf[5]
  <2>1. /\ p.synch = receiveBuf[1] /\ p.ver = receiveBuf[2] /\ p.src = receiveBuf[3]
        /\ p.dest = receiveBuf[4] /\ p.length = length /\ p.crc_flag = receiveBuf[6]
        /\ p.crc8_fcs = receiveBuf[n] /\ length \in Nat
        /\ \A i \in 0 .. length - 1 : p.msg[i] = msgBuf'[i + 6] /\ i \in 0 .. PH_MSG_SIZE - 1
        /\ parsed.ok <=> ph_compute_crc8(p.msg, length) = receiveBuf[n]
    BY <1>2, <1>8, <1>10, <1>12
  <2>2. p \in PacketHeader /\ pkt' = Terminated(p) /\ ok' = parsed.ok
    BY <1>2, <1>8
  <2> HIDE DEF p, length
  <2>3. /\ pkt'.synch = p.synch /\ pkt'.ver = p.ver /\ pkt'.src = p.src
        /\ pkt'.dest = p.dest /\ pkt'.length = p.length /\ pkt'.crc_flag = p.crc_flag
        /\ pkt'.crc8_fcs = p.crc8_fcs
        /\ \A i \in 0 .. PH_MSG_SIZE - 1 : i < p.length => pkt'.msg[i] = p.msg[i]
    BY <2>2, TerminatedIs
  <2>4. ASSUME NEW i \in 0 .. length - 1
        PROVE  /\ pkt'.msg[i] = receiveBuf[i + 7] /\ pkt'.msg[i] = p.msg[i]
               /\ p.msg[i] \in Byte
    <3>1. i \in 0 .. PH_MSG_SIZE - 1 /\ p.msg[i] = msgBuf'[i + 6] /\ i < p.length
      BY <2>1
    <3>2. p.msg[i] \in Byte
      BY <2>2, <3>1 DEF PacketHeader
    <3>3. i + 6 \in 0 .. n - 1 /\ (i + 6) + 1 = i + 7
      <4>1. n >= length + 7
        BY <1>12 DEF length
      <4>2. length \in Nat /\ n \in Nat
        BY <1>5, <2>1
      <4> QED
        BY <4>1, <4>2
    <3>4. msgBuf'[i + 6] = receiveBuf[(i + 6) + 1]
      BY <1>7, <3>3
    <3> QED
      BY <2>3, <3>1, <3>2, <3>3, <3>4
  <2>5. ph_compute_crc8(p.msg, length) = ph_compute_crc8(pkt'.msg, length)
    BY <2>1, <2>4, CrcOfBytes
  <2>6. ok' <=> ph_compute_crc8(pkt'.msg, length) = receiveBuf[n]
    BY <2>1, <2>2, <2>5
  <2> QED
    BY <2>1, <2>3, <2>4, <2>6 DEF length
<1> QED
  BY <1>4, <1>5, <1>6, <1>7, <1>9, <1>11, <1>12 DEF n

-----------------------------------------------------------------------------
(* The invariant. *)

\* The boot establishes the invariant, with a stray bit or without.
LEMMA InvInit == Init => Inv
<1> SUFFICES ASSUME Init PROVE Inv
  OBVIOUS
<1>1. ZeroPacket \in PacketHeader /\ ZeroPacket.length = 0
  BY PhMsgSizeAssumption DEF ZeroPacket, PacketHeader, Byte
<1>2. /\ outPkt = ZeroPacket /\ levels = <<>> /\ receiveBuf = <<>> /\ collided = FALSE
      /\ pkt = ZeroPacket /\ ok = FALSE /\ ready = ~currentlyReceiving
      /\ first = Unknown /\ faults = 0
      /\ msgBuf = [i \in 0 .. SIZEOF - 1 |-> 0]
      /\ \/ bits = <<>> /\ currentlyReceiving = FALSE
         \/ bits = <<1>> /\ currentlyReceiving = TRUE
  BY DEF Init
<1>3. TypeOK
  <2>1. bits \in Seq({0, 1}) /\ Len(bits) < 8 /\ currentlyReceiving \in BOOLEAN
    <3>1. CASE bits = <<>> /\ currentlyReceiving = FALSE
      <4>1. <<>> \in Seq({0, 1}) /\ Len(<<>>) = 0
        OBVIOUS
      <4>2. bits \in Seq({0, 1}) /\ Len(bits) < 8
        BY <3>1, <4>1
      <4>3. currentlyReceiving \in BOOLEAN
        BY <3>1
      <4> QED
        BY <4>2, <4>3
    <3>2. CASE bits = <<1>> /\ currentlyReceiving = TRUE
      <4>1. <<1>> \in Seq({0, 1}) /\ Len(<<1>>) = 1
        OBVIOUS
      <4> QED
        BY <3>2, <4>1
    <3> QED
      BY <1>2, <3>1, <3>2
  <2>2. outPkt \in PacketHeader /\ outPkt.length < PH_MSG_SIZE /\ levels \in Seq({0, 1})
    BY <1>1, <1>2, PhMsgSizeAssumption
  <2>3. receiveBuf \in Seq(Byte) /\ Len(receiveBuf) <= MAX_BYTES
    BY <1>2, BoundsAssumption
  <2>4. msgBuf \in [0 .. SIZEOF - 1 -> Byte]
    BY <1>2 DEF Byte
  <2>5. first \in [how : {"unknown", "intact", "damaged", "cut"}, pkt : PacketHeader, at : Nat]
    BY <1>1, <1>2 DEF Unknown
  <2>6. pkt \in PacketHeader /\ ok \in BOOLEAN /\ collided \in BOOLEAN /\ ready \in BOOLEAN
    BY <1>1, <1>2, <2>1
  <2>7. faults \in 0 .. MAX_FAULTS
    BY <1>2, BoundsAssumption
  <2> QED
    BY <2>1, <2>2, <2>3, <2>4, <2>5, <2>6, <2>7 DEF TypeOK
<1>4. OnTheLine /\ AfterReset /\ BeginsWith /\ Held
  BY <1>2 DEF OnTheLine, AfterReset, BeginsWith, Held, Unknown
<1> QED
  BY <1>3, <1>4 DEF Inv

\* Nothing is claimed of a receiveBuf that the history does not know.
LEMMA NothingKnown == first' = Unknown => BeginsWith'
  BY DEF BeginsWith, Unknown

\* A card creates a packet and puts it on the line.
LEMMA SendKeeps ==
    ASSUME Inv, NEW t \in Texts, Send(t)
    PROVE  Inv'
<1>1. /\ levels = <<>> /\ ~collided /\ Len(receiveBuf) + SIZEOF < MAX_BYTES
      /\ outPkt' = Terminated(ph_create(outPkt, SRC, DEST, 1, t))
      /\ levels' = Levels(transmitMessage(outPkt'))
      /\ UNCHANGED <<lineVars, showVars, ready, first, faults>>
  BY DEF Send, LineIdle
<1>2. Created(outPkt')
  <2>1. outPkt \in PacketHeader /\ t \in Seq(Byte) /\ Len(t) \in 1 .. PH_MSG_SIZE - 1
    BY TextsAssumption DEF Inv, TypeOK
  <2> QED
    BY <1>1, <2>1, CreatedIs
<1>3. outPkt' \in PacketHeader /\ outPkt'.length < PH_MSG_SIZE
  <2>1. PH_MSG_SIZE \in Nat
    BY PhMsgSizeAssumption
  <2> QED
    BY <1>2, <2>1 DEF Created
<1>4. levels' \in Seq({0, 1})
  BY <1>1, <1>3, MessageBytes, LevelsTyped
<1>5. TypeOK'
  BY <1>1, <1>3, <1>4 DEF Inv, TypeOK, lineVars, showVars
<1>6. OnTheLine'
  BY <1>1, <1>2 DEF OnTheLine, lineVars
<1>7. AfterReset' /\ BeginsWith' /\ Held'
  BY <1>1 DEF Inv, AfterReset, BeginsWith, Held, lineVars
<1> QED
  BY <1>5, <1>6, <1>7 DEF Inv

\* Nothing in receiveBuf and no bits: what arrives is what is decoded.
LEMMA ArrivesAlone ==
    ASSUME Inv, NEW how, NEW at, NEW bytes \in Seq(Byte),
           Received(Samples(Levels(bytes))), Arrived(how, at), first' # Unknown
    PROVE  /\ first' = [how |-> how, pkt |-> outPkt, at |-> at]
           /\ receiveBuf' = bytes
<1> DEFINE new == Samples(Levels(bytes))
<1>1. ready /\ receiveBuf = <<>> /\ first' = [how |-> how, pkt |-> outPkt, at |-> at]
  BY DEF Arrived
<1>2. bits = <<>>
  BY <1>1 DEF Inv, AfterReset
<1>3. new \in Seq({0, 1}) /\ DataBytes(new) = bytes
  BY SamplesAre, DecodedIsEncoded
<1>4. receiveBuf' = receiveBuf \o DataBytes(bits \o new)
  BY DEF Received, Sampled
<1> HIDE DEF new
<1>5. bits \o new = new
  BY <1>2, <1>3, ConcatEmptySeq
<1>6. receiveBuf \o bytes = bytes
  BY <1>1, ConcatEmptySeq
<1> QED
  BY <1>1, <1>3, <1>4, <1>5, <1>6

\* A frame is on the line, and its packet was created.
LEMMA SentIs ==
    ASSUME Inv, levels # <<>>
    PROVE  /\ Created(outPkt) /\ levels = Levels(transmitMessage(outPkt))
           /\ transmitMessage(outPkt) \in Seq(Byte)
           /\ Len(transmitMessage(outPkt)) \in Nat
           /\ Samples(levels) \in Seq({0, 1})
           /\ Len(Samples(levels)) = 8 * Len(transmitMessage(outPkt))
           /\ Len(levels) = 16 * Len(transmitMessage(outPkt))
<1>1. Created(outPkt) /\ levels = Levels(transmitMessage(outPkt))
  BY DEF Inv, OnTheLine
<1>2. outPkt \in PacketHeader /\ outPkt.length < PH_MSG_SIZE
  BY DEF Inv, TypeOK
<1>3. transmitMessage(outPkt) \in Seq(Byte)
  BY <1>2, MessageBytes
<1> QED
  BY <1>1, <1>3, SamplesAre, LevelsTyped, LenProperties

\* A frame arrives as it was sent.
LEMMA IntactKeeps == Inv /\ ArriveIntact => Inv'
<1> SUFFICES ASSUME Inv, ArriveIntact PROVE Inv'
  OBVIOUS
<1>1. /\ Received(Samples(levels)) /\ Arrived("intact", 0) /\ levels # <<>>
      /\ collided' = FALSE /\ faults' = faults
  BY DEF ArriveIntact, Received
<1> DEFINE sent == transmitMessage(outPkt)
<1>2. /\ Created(outPkt) /\ levels = Levels(sent) /\ sent \in Seq(Byte)
      /\ Samples(levels) \in Seq({0, 1}) /\ Len(Samples(levels)) <= 8 * Len(sent)
  BY <1>1, SentIs
<1>3. faults' \in 0 .. MAX_FAULTS /\ collided' \in BOOLEAN
  BY <1>1 DEF Inv, TypeOK
<1>4. TypeOK' /\ OnTheLine' /\ AfterReset'
  BY <1>1, <1>2, <1>3, ArrivalKeeps DEF Inv
<1>5. BeginsWith'
  <2>1. CASE first' = Unknown
    BY <2>1, NothingKnown
  <2>2. CASE first' # Unknown
    <3>1. first' = [how |-> "intact", pkt |-> outPkt, at |-> 0] /\ receiveBuf' = sent
      BY <1>1, <1>2, <2>2, ArrivesAlone
    <3> HIDE DEF sent
    <3>2. first'.how = "intact" /\ first'.pkt = outPkt
      BY <3>1
    <3> QED
      BY <1>2, <3>1, <3>2 DEF BeginsWith, sent
  <2> QED
    BY <2>1, <2>2
<1> QED
  BY <1>1, <1>4, <1>5 DEF Inv, Held

\* A frame arrives with one byte wrong.
LEMMA DamagedKeeps ==
    ASSUME Inv, NEW at \in 1 .. SIZEOF, NEW mask \in Masks, ArriveDamaged(at, mask)
    PROVE  Inv'
<1> DEFINE sent == transmitMessage(outPkt)
           wrong == [sent EXCEPT ![at] = Xor(sent[at], mask)]
<1>1. /\ Received(Samples(Levels(wrong))) /\ Arrived("damaged", at) /\ levels # <<>>
      /\ at \in 1 .. Len(sent) /\ collided' = FALSE
      /\ faults < MAX_FAULTS /\ faults' = faults + 1
  BY DEF ArriveDamaged, Received
<1>2. Created(outPkt) /\ sent \in Seq(Byte) /\ Len(sent) \in Nat
  BY <1>1, SentIs
<1>3. mask \in 1 .. 255 /\ at \in Nat
  BY <1>1, MasksAssumption
<1> HIDE DEF sent
<1>4. wrong \in Seq(Byte) /\ Len(wrong) = Len(sent)
  <2>1. Xor(sent[at], mask) \in Byte
    BY <1>1, <1>2, <1>3, ElementOfSeq, XorChanges
  <2> QED
    BY <1>1, <1>2, <2>1, ExceptSeq
<1> HIDE DEF wrong
<1>5. Samples(Levels(wrong)) \in Seq({0, 1}) /\ Len(Samples(Levels(wrong))) <= 8 * Len(sent)
  BY <1>2, <1>4, SamplesAre
<1>6. faults' \in 0 .. MAX_FAULTS /\ collided' \in BOOLEAN
  <2>1. faults \in 0 .. MAX_FAULTS
    BY DEF Inv, TypeOK
  <2>2. faults + 1 \in 0 .. MAX_FAULTS
    BY <1>1, <2>1, BoundsAssumption
  <2> QED
    BY <1>1, <2>2
<1>7. TypeOK' /\ OnTheLine' /\ AfterReset'
  BY <1>1, <1>3, <1>5, <1>6, ArrivalKeeps DEF Inv, sent
<1>8. BeginsWith'
  <2>1. CASE first' = Unknown
    BY <2>1, NothingKnown
  <2>2. CASE first' # Unknown
    <3>1. first' = [how |-> "damaged", pkt |-> outPkt, at |-> at] /\ receiveBuf' = wrong
      BY <1>1, <1>4, <2>2, ArrivesAlone
    <3>2. first'.how = "damaged" /\ first'.pkt = outPkt /\ first'.at = at
      BY <3>1
    <3>3. receiveBuf' = [sent EXCEPT ![at] = Xor(sent[at], mask)]
      BY <3>1 DEF wrong
    <3> QED
      BY <1>1, <1>2, <1>3, <3>2, <3>3 DEF BeginsWith, sent
  <2> QED
    BY <2>1, <2>2
<1> QED
  BY <1>1, <1>7, <1>8 DEF Inv, Held

\* A collision ends a frame after some bits.
LEMMA CutKeeps ==
    ASSUME Inv, NEW n \in Cuts, ArriveCut(n)
    PROVE  Inv'
<1> DEFINE new == SubSeq(Samples(levels), 1, n)
           sent == transmitMessage(outPkt)
<1>1. /\ Received(new) /\ Arrived("cut", n) /\ levels # <<>> /\ 2 * n < Len(levels)
      /\ collided' = TRUE /\ faults < MAX_FAULTS /\ faults' = faults + 1
  BY DEF ArriveCut, Received
<1>2. /\ Len(sent) \in Nat /\ Samples(levels) \in Seq({0, 1})
      /\ Len(Samples(levels)) = 8 * Len(sent) /\ Len(levels) = 16 * Len(sent)
  BY <1>1, SentIs
<1>3. n \in Nat /\ n <= 8 * Len(sent)
  BY <1>1, <1>2, CutsAssumption
<1> HIDE DEF sent
<1>4. new \in Seq({0, 1}) /\ Len(new) <= 8 * Len(sent) /\ Len(new) = n
  <2>1. \A i \in 1 .. n : Samples(levels)[i] \in {0, 1}
    <3>1. \A i \in 1 .. 8 * Len(sent) : Samples(levels)[i] \in {0, 1}
      BY <1>2, ElementOfSeq
    <3> QED
      BY <1>2, <1>3, <3>1
  <2>2. new \in Seq({0, 1}) /\ Len(new) = IF 1 <= n THEN n - 1 + 1 ELSE 0
    BY <1>3, <2>1, SubSeqProperties
  <2> HIDE DEF new
  <2> QED
    BY <1>2, <1>3, <2>2
<1>5. faults' \in 0 .. MAX_FAULTS /\ collided' \in BOOLEAN
  BY <1>1, BoundsAssumption DEF Inv, TypeOK
<1> HIDE DEF new
<1>6. /\ TypeOK' /\ OnTheLine' /\ AfterReset'
      /\ levels' = <<>> /\ ~ready' /\ Len(receiveBuf') < MAX_BYTES
  BY <1>1, <1>3, <1>4, <1>5, ArrivalKeeps DEF Inv, sent
<1>7. BeginsWith' /\ Held'
  <2>1. CASE first' = Unknown
    <3>1. first'.how = "unknown"
      BY <2>1 DEF Unknown
    <3> QED
      BY <1>6, <2>1, <3>1, NothingKnown DEF Held
  <2>2. CASE first' # Unknown
    <3>1. ready /\ receiveBuf = <<>> /\ first' = [how |-> "cut", pkt |-> outPkt, at |-> n]
      BY <1>1, <2>2 DEF Arrived
    <3>2. bits = <<>>
      BY <3>1 DEF Inv, AfterReset
    <3>3. receiveBuf' = DataBytes(new) /\ bits' = RestOf(new)
      <4>1. bits \o new = new
        BY <1>4, <3>2, ConcatEmptySeq
      <4>2. DataBytes(new) \in Seq(Byte)
        BY <1>4, DataBytesTyped
      <4>3. /\ receiveBuf' = receiveBuf \o DataBytes(bits \o new)
            /\ bits' = RestOf(bits \o new)
        BY <1>1 DEF Received, Sampled
      <4> QED
        BY <3>1, <4>1, <4>2, <4>3, ConcatEmptySeq
    <3>4. /\ Len(receiveBuf') < Len(sent)
          /\ \A j \in 1 .. Len(receiveBuf') : receiveBuf'[j] = sent[j]
      <4>1. levels = Levels(sent) /\ sent \in Seq(Byte) /\ n < 8 * Len(sent)
        BY <1>1, <1>2, <1>3, SentIs DEF sent
      <4>2. /\ Len(DataBytes(new)) < Len(sent)
            /\ \A j \in 1 .. Len(DataBytes(new)) : DataBytes(new)[j] = sent[j]
        BY <1>3, <4>1, CutIsBeginning DEF new
      <4> QED
        BY <3>3, <4>2
    <3>5. /\ Created(outPkt) /\ first'.how = "cut" /\ first'.pkt = outPkt /\ first'.at = n
          /\ n < 8 * Len(sent)
      BY <1>1, <1>2, <1>3, <3>1, SentIs
    <3>6. 8 * Len(receiveBuf') + Len(bits') = n
      <4>1. /\ Len(DataBytes(new)) = Len(new) \div 8 /\ Len(RestOf(new)) = Len(new) % 8
        BY <1>4, DataBytesTyped
      <4>2. 8 * (n \div 8) + (n % 8) = n
        BY <1>3, BytesAndRest
      <4> QED
        BY <1>4, <3>3, <4>1, <4>2
    <3>7. BeginsWith'
      <4>1. Len(receiveBuf') \in Nat /\ Len(bits') \in Nat
        BY <1>6, LenProperties DEF TypeOK
      <4>2. 8 * Len(receiveBuf') <= n + 1
        BY <1>3, <3>6, <4>1
      <4> QED
        BY <3>4, <3>5, <4>2 DEF BeginsWith, sent
    <3>8. Held'
      BY <1>6, <3>5, <3>6 DEF Held
    <3> QED
      BY <3>7, <3>8
  <2> QED
    BY <2>1, <2>2
<1> QED
  BY <1>6, <1>7 DEF Inv

\* The collision ends, and its last edge may complete a byte.
LEMMA LetGoKeeps == Inv /\ LetGo => Inv'
<1> SUFFICES ASSUME Inv, LetGo PROVE Inv'
  OBVIOUS
<1>1. /\ collided /\ collided' = FALSE
      /\ UNCHANGED <<outVars, showVars, ready, first, faults>>
      /\ Sampled(<<1>>) \/ UNCHANGED <<receiveBuf, bits, currentlyReceiving>>
  BY DEF LetGo
<1>2. /\ outPkt' = outPkt /\ levels' = levels /\ msgBuf' = msgBuf /\ pkt' = pkt
      /\ ok' = ok /\ ready' = ready /\ first' = first /\ faults' = faults
  BY <1>1 DEF outVars, showVars
<1>3. /\ levels = <<>> /\ ~ready /\ Len(receiveBuf) < MAX_BYTES
      /\ first.how \in {"cut", "unknown"}
      /\ first.how = "cut" => 8 * Len(receiveBuf) + Len(bits) = first.at
  BY <1>1 DEF Inv, Held
<1>4. OnTheLine' /\ AfterReset' /\ Held'
  BY <1>1, <1>2, <1>3 DEF OnTheLine, AfterReset, Held
<1>5. CASE UNCHANGED <<receiveBuf, bits, currentlyReceiving>>
  <2>1. TypeOK'
    BY <1>1, <1>2, <1>5 DEF Inv, TypeOK
  <2>2. BeginsWith'
    BY <1>2, <1>5 DEF Inv, BeginsWith
  <2> QED
    BY <1>4, <2>1, <2>2 DEF Inv
<1>6. CASE Sampled(<<1>>)
  <2> DEFINE all == bits \o <<1>>
             new == DataBytes(all)
  <2>1. /\ receiveBuf' = receiveBuf \o new /\ bits' = RestOf(all)
        /\ currentlyReceiving' = TRUE
    BY <1>6 DEF Sampled
  <2>2. /\ receiveBuf \in Seq(Byte) /\ bits \in Seq({0, 1}) /\ Len(bits) < 8
        /\ Len(receiveBuf) \in Nat /\ Len(bits) \in Nat
    BY LenProperties DEF Inv, TypeOK
  <2>3. all \in Seq({0, 1}) /\ Len(all) = Len(bits) + 1
    <3>1. <<1>> \in Seq({0, 1}) /\ Len(<<1>>) = 1
      OBVIOUS
    <3> QED
      BY <2>2, <3>1, ConcatProperties
  <2> HIDE DEF all
  <2>4. /\ new \in Seq(Byte) /\ Len(new) = Len(all) \div 8
        /\ RestOf(all) \in Seq({0, 1}) /\ Len(RestOf(all)) = Len(all) % 8
    BY <2>3, DataBytesTyped
  <2> HIDE DEF new
  <2>5. /\ Len(RestOf(all)) < 8
        /\ Len(new) = IF Len(bits) = 7 THEN 1 ELSE 0
    <3>1. Len(bits) \in 0 .. 7
      <4>1. \A k \in Nat : k < 8 => k \in 0 .. 7
        OBVIOUS
      <4> QED
        BY <2>2, <4>1
    <3>2. (Len(bits) + 1) % 8 \in 0 .. 7
      BY <3>1, BytesAndRest
    <3>3. Len(new) = (Len(bits) + 1) \div 8 /\ Len(RestOf(all)) = (Len(bits) + 1) % 8
      BY <2>3, <2>4
    <3>4. (Len(bits) + 1) \div 8 = IF Len(bits) = 7 THEN 1 ELSE 0
      BY <3>1, BytesAndRest
    <3>5. Len(RestOf(all)) \in 0 .. 7
      BY <3>2, <3>3
    <3> QED
      BY <3>3, <3>4, <3>5
  <2>6. /\ receiveBuf' \in Seq(Byte) /\ Len(receiveBuf') = Len(receiveBuf) + Len(new)
        /\ \A j \in 1 .. Len(receiveBuf) + Len(new) :
               j <= Len(receiveBuf) => receiveBuf'[j] = receiveBuf[j]
    BY <2>1, <2>2, <2>4, ConcatProperties
  <2>7. Len(receiveBuf') <= MAX_BYTES
    BY <1>3, <2>2, <2>5, <2>6, BoundsAssumption
  <2>8. TypeOK'
    BY <1>1, <1>2, <2>1, <2>4, <2>5, <2>6, <2>7 DEF Inv, TypeOK
  <2>9. BeginsWith'
    <3>1. CASE first.how # "cut"
      BY <1>2, <1>3, <3>1 DEF BeginsWith
    <3>2. CASE first.how = "cut"
      <4> DEFINE sent == transmitMessage(first.pkt)
      <4>1. /\ Created(first.pkt) /\ first.at < 8 * Len(sent)
            /\ \A j \in 1 .. Len(receiveBuf) :
                   receiveBuf[j] = sent[j] \/ 8 * j = first.at + 1
        BY <3>2 DEF Inv, BeginsWith
      <4>2. Len(sent) \in Nat
        BY <4>1, CreatedBytes
      <4>3. 8 * Len(receiveBuf) + Len(bits) = first.at /\ first.at \in Nat
        BY <1>3, <3>2 DEF Inv, TypeOK
      <4> HIDE DEF sent
      <4> DEFINE r == Len(receiveBuf)
                 b == Len(bits)
                 at == first.at
                 m == Len(sent)
      <4>6. /\ r \in Nat /\ b \in Nat /\ b < 8 /\ at \in Nat /\ m \in Nat
            /\ 8 * r + b = at /\ at < 8 * m
            /\ Len(receiveBuf') = IF b = 7 THEN r + 1 ELSE r
        <5>1. Len(receiveBuf') = r + Len(new)
          BY <2>6
        <5>2. r + 1 = r + 1 /\ r + 0 = r
          BY <2>2
        <5>3. Len(receiveBuf') = IF b = 7 THEN r + 1 ELSE r
          BY <2>5, <5>1, <5>2
        <5> QED
          BY <2>2, <4>1, <4>2, <4>3, <5>3
      <4> HIDE DEF r, b, at, m
      <4>4. 8 * Len(receiveBuf') <= at + 1
        <5>1. CASE b = 7
          BY <4>6, <5>1
        <5>2. CASE b # 7
          BY <4>6, <5>2
        <5> QED
          BY <5>1, <5>2
      <4>5. ASSUME NEW j \in 1 .. Len(receiveBuf')
            PROVE  receiveBuf'[j] = sent[j] \/ 8 * j = at + 1
        <5>1. CASE j <= r
          <6>1. j \in 1 .. r
            BY <4>6, <5>1
          <6>2. j \in 1 .. r + Len(new)
            BY <2>6 DEF r
          <6> QED
            BY <2>6, <4>1, <5>1, <6>1, <6>2 DEF r, at
        <5>2. CASE ~(j <= r)
          <6>1. b = 7 /\ j = r + 1
            BY <4>6, <5>2
          <6> QED
            BY <4>6, <6>1
        <5> QED
          BY <5>1, <5>2
      <4> QED
        BY <1>2, <3>2, <4>1, <4>4, <4>5 DEF BeginsWith, sent, m, at
    <3> QED
      BY <3>1, <3>2
  <2> QED
    BY <1>4, <2>8, <2>9 DEF Inv
<1> QED
  BY <1>1, <1>5, <1>6

\* The receiver resets itself on the idle line.
LEMMA ResetKeeps == Inv /\ Reset => Inv'
<1> SUFFICES ASSUME Inv, Reset PROVE Inv'
  OBVIOUS
<1>1. /\ ~collided /\ bits' = <<>> /\ currentlyReceiving' = FALSE /\ ready' = TRUE
      /\ UNCHANGED <<outVars, receiveBuf, collided, showVars, first, faults>>
  BY DEF Reset, LineIdle
<1>2. TypeOK'
  <2>1. /\ outPkt' \in PacketHeader /\ outPkt'.length < PH_MSG_SIZE
        /\ levels' \in Seq({0, 1})
        /\ receiveBuf' \in Seq(Byte) /\ Len(receiveBuf') <= MAX_BYTES
        /\ msgBuf' \in [0 .. SIZEOF - 1 -> Byte] /\ pkt' \in PacketHeader
        /\ ok' \in BOOLEAN /\ faults' \in 0 .. MAX_FAULTS
    BY <1>1 DEF Inv, TypeOK, outVars, showVars
  <2>2. first' \in [how : {"unknown", "intact", "damaged", "cut"},
                    pkt : PacketHeader, at : Nat]
    BY <1>1 DEF Inv, TypeOK
  <2>3. bits' \in Seq({0, 1}) /\ Len(bits') < 8
    BY <1>1
  <2>4. currentlyReceiving' \in BOOLEAN /\ collided' \in BOOLEAN /\ ready' \in BOOLEAN
    BY <1>1 DEF Inv, TypeOK
  <2> QED
    BY <2>1, <2>2, <2>3, <2>4 DEF TypeOK
<1>3. OnTheLine' /\ AfterReset' /\ BeginsWith' /\ Held'
  BY <1>1 DEF Inv, OnTheLine, AfterReset, BeginsWith, Held, outVars
<1> QED
  BY <1>2, <1>3 DEF Inv

\* The receiver drops what it received before a collision.
LEMMA DropKeeps == Inv /\ Drop => Inv'
<1> SUFFICES ASSUME Inv, Drop PROVE Inv'
  OBVIOUS
<1>1. /\ currentlyReceiving' = FALSE /\ receiveBuf' = <<>> /\ first' = Unknown
      /\ UNCHANGED <<outVars, bits, collided, showVars, ready, faults>>
  BY DEF Drop
<1>2. Unknown \in [how : {"unknown", "intact", "damaged", "cut"}, pkt : PacketHeader, at : Nat]
  BY PhMsgSizeAssumption DEF Unknown, ZeroPacket, PacketHeader, Byte
<1>3. receiveBuf \in Seq(Byte) /\ Len(receiveBuf) \in Nat
  BY LenProperties DEF Inv, TypeOK
<1>4. receiveBuf' \in Seq(Byte) /\ Len(receiveBuf') = 0
  BY <1>1
<1>5. TypeOK'
  <2>1. /\ outPkt' \in PacketHeader /\ outPkt'.length < PH_MSG_SIZE
        /\ levels' \in Seq({0, 1}) /\ bits' \in Seq({0, 1}) /\ Len(bits') < 8
        /\ msgBuf' \in [0 .. SIZEOF - 1 -> Byte] /\ pkt' \in PacketHeader
        /\ ok' \in BOOLEAN /\ faults' \in 0 .. MAX_FAULTS
        /\ collided' \in BOOLEAN /\ ready' \in BOOLEAN
    BY <1>1 DEF Inv, TypeOK, outVars, showVars
  <2>2. Len(receiveBuf') <= MAX_BYTES
    BY <1>4, BoundsAssumption
  <2>3. currentlyReceiving' \in BOOLEAN
    BY <1>1
  <2> QED
    BY <1>1, <1>2, <1>4, <2>1, <2>2, <2>3 DEF TypeOK
<1>6. OnTheLine'
  <2>1. SIZEOF \in Nat
    BY PhMsgSizeAssumption DEF SIZEOF
  <2> QED
    BY <1>1, <1>3, <1>4, <2>1, BoundsAssumption DEF Inv, OnTheLine, outVars
<1>7. AfterReset' /\ Held'
  <2>1. first'.how = "unknown"
    BY <1>1 DEF Unknown
  <2>2. collided' => levels' = <<>> /\ ~ready'
    BY <1>1 DEF Inv, Held, outVars
  <2>3. collided => Len(receiveBuf') < MAX_BYTES
    BY <1>3, <1>4, BoundsAssumption DEF Inv, Held
  <2> QED
    BY <1>1, <2>1, <2>2, <2>3 DEF Inv, AfterReset, Held
<1> QED
  BY <1>1, <1>5, <1>6, <1>7, NothingKnown DEF Inv

\* The receiver takes out a message, parses it and shows it.
LEMMA ShowKeeps == Inv /\ Show => Inv'
<1> SUFFICES ASSUME Inv, Show PROVE Inv'
  OBVIOUS
<1>1. first' = Unknown /\ UNCHANGED <<outVars, bits, currentlyReceiving, collided, ready, faults>>
  BY DEF Show
<1>2. /\ receiveBuf' \in Seq(Byte) /\ Len(receiveBuf') <= Len(receiveBuf)
      /\ msgBuf' \in [0 .. SIZEOF - 1 -> Byte] /\ ok' \in BOOLEAN /\ pkt' \in PacketHeader
  BY Shown DEF Inv
<1>3. Unknown \in [how : {"unknown", "intact", "damaged", "cut"}, pkt : PacketHeader, at : Nat]
  BY PhMsgSizeAssumption DEF Unknown, ZeroPacket, PacketHeader, Byte
<1>4. /\ Len(receiveBuf) \in Nat /\ Len(receiveBuf') \in Nat /\ SIZEOF \in Nat
      /\ MAX_BYTES \in Nat /\ Len(receiveBuf) <= MAX_BYTES
  BY <1>2, LenProperties, PhMsgSizeAssumption, BoundsAssumption DEF Inv, TypeOK, SIZEOF
<1>5. Len(receiveBuf') <= MAX_BYTES
  BY <1>2, <1>4
<1>6. TypeOK'
  BY <1>1, <1>2, <1>3, <1>5 DEF Inv, TypeOK, outVars
<1>7. OnTheLine'
  BY <1>1, <1>2, <1>4 DEF Inv, OnTheLine, outVars
<1>8. AfterReset' /\ Held'
  <2>1. first'.how = "unknown"
    BY <1>1 DEF Unknown
  <2>2. collided' => levels' = <<>> /\ ~ready' /\ Len(receiveBuf') < MAX_BYTES
    BY <1>1, <1>2, <1>4 DEF Inv, Held, outVars
  <2> QED
    BY <1>1, <2>1, <2>2 DEF Inv, AfterReset, Held
<1> QED
  BY <1>1, <1>6, <1>7, <1>8, NothingKnown DEF Inv

\* Every step keeps the invariant.
LEMMA InvNext == Inv /\ [Next]_vars => Inv'
<1> SUFFICES ASSUME Inv, [Next]_vars PROVE Inv'
  OBVIOUS
<1>1. ASSUME NEW t \in Texts, Send(t) PROVE Inv'
  BY <1>1, SendKeeps
<1>2. CASE ArriveIntact
  BY <1>2, IntactKeeps
<1>3. ASSUME NEW at \in 1 .. SIZEOF, NEW mask \in Masks, ArriveDamaged(at, mask) PROVE Inv'
  BY <1>3, DamagedKeeps
<1>4. ASSUME NEW n \in Cuts, ArriveCut(n) PROVE Inv'
  BY <1>4, CutKeeps
<1>5. CASE Reset
  BY <1>5, ResetKeeps
<1>6. CASE Drop
  BY <1>6, DropKeeps
<1>7. CASE Show
  BY <1>7, ShowKeeps
<1>8. CASE UNCHANGED vars
  <2>1. /\ outPkt' = outPkt /\ levels' = levels /\ receiveBuf' = receiveBuf
        /\ bits' = bits /\ currentlyReceiving' = currentlyReceiving
        /\ collided' = collided /\ msgBuf' = msgBuf /\ pkt' = pkt /\ ok' = ok
        /\ ready' = ready /\ first' = first /\ faults' = faults
    BY <1>8 DEF vars, outVars, lineVars, showVars
  <2>2. TypeOK'
    BY <2>1 DEF Inv, TypeOK
  <2>3. OnTheLine' /\ AfterReset' /\ BeginsWith' /\ Held'
    BY <2>1 DEF Inv, OnTheLine, AfterReset, BeginsWith, Held
  <2> QED
    BY <2>2, <2>3 DEF Inv
<1>9. CASE LetGo
  BY <1>9, LetGoKeeps
<1> QED
  BY <1>1, <1>2, <1>3, <1>4, <1>5, <1>6, <1>7, <1>8, <1>9 DEF Next

\* The invariant holds of every reachable state.
LEMMA Invariant == Spec => []Inv
  BY InvInit, InvNext, PTL DEF Spec

-----------------------------------------------------------------------------
(* The theorems. *)

\* Every variable keeps its type, receiveBuf its bound, and the length of a
\* packet never leaves the array, however many frames are damaged or cut.
THEOREM TypeCorrect == Spec => []TypeOK
<1>1. Inv => TypeOK
  BY DEF Inv
<1> QED
  BY <1>1, Invariant, PTL

\* A packet that ph_parse accepts was received with this message in all its
\* fields: the size tests leave no byte of it to what msgBuf or pkt held before.
THEOREM NothingIsLeftOver == Spec => AcceptedIsReceived
<1> DEFINE Step ==
      Show /\ ok' =>
          LET n == Len(receiveBuf) - Len(receiveBuf') IN
          /\ n >= pkt'.length + 7
          /\ WithHeader(pkt', [i \in 0 .. 5 |-> receiveBuf[i + 1]]) = pkt'
          /\ \A i \in 0 .. pkt'.length - 1 : pkt'.msg[i] = receiveBuf[i + 7]
          /\ pkt'.crc8_fcs = receiveBuf[n]
<1>1. ASSUME Inv, Show, ok' PROVE Step
  <2> DEFINE n == TakenCount
  <2>1. /\ n = Len(receiveBuf) - Len(receiveBuf') /\ pkt' \in PacketHeader
        /\ n >= 8 /\ n >= receiveBuf[5] + 7
        /\ pkt'.synch = receiveBuf[1] /\ pkt'.ver = receiveBuf[2]
        /\ pkt'.src = receiveBuf[3] /\ pkt'.dest = receiveBuf[4]
        /\ pkt'.length = receiveBuf[5] /\ pkt'.crc_flag = receiveBuf[6]
        /\ pkt'.crc8_fcs = receiveBuf[n]
        /\ \A i \in 0 .. receiveBuf[5] - 1 : pkt'.msg[i] = receiveBuf[i + 7]
    BY <1>1, Shown DEF Inv
  <2> HIDE DEF n
  <2> DEFINE header == [i \in 0 .. 5 |-> receiveBuf[i + 1]]
  <2>2. /\ header[0] = pkt'.synch /\ header[1] = pkt'.ver /\ header[2] = pkt'.src
        /\ header[3] = pkt'.dest /\ header[4] = pkt'.length /\ header[5] = pkt'.crc_flag
    BY <2>1
  <2> HIDE DEF header
  <2>3. WithHeader(pkt', header) = pkt'
    BY <2>1, <2>2 DEF WithHeader, PacketHeader
  <2> QED
    BY <2>1, <2>3 DEF header
<1>2. Inv => [Step]_vars
  BY <1>1
<1> QED
  BY <1>2, Invariant, PTL DEF AcceptedIsReceived

\* A frame that comes whole after an idle line is accepted and shown as it was
\* created, whatever texts, damage and collisions came before it.
THEOREM WholeIsAccepted == Spec => IntactIsAccepted
<1> DEFINE Step == Show /\ first.how = "intact" => ok' /\ Same(pkt', first.pkt)
<1>1. ASSUME Inv, Show, first.how = "intact" PROVE ok' /\ Same(pkt', first.pkt)
  <2> DEFINE p == first.pkt
             sent == transmitMessage(p)
             n == TakenCount
  <2>1. Created(p) /\ receiveBuf = sent /\ PH_MSG_SIZE \in Nat
    BY <1>1, PhMsgSizeAssumption DEF Inv, BeginsWith
  <2>2. p \in PacketHeader /\ p.length \in 1 .. PH_MSG_SIZE - 1 /\ p.length < PH_MSG_SIZE
    BY <2>1 DEF Created
  <2>3. /\ Len(sent) = p.length + 7 /\ Len(sent) < SIZEOF
        /\ sent[1] = p.synch /\ sent[2] = p.ver /\ sent[3] = p.src /\ sent[4] = p.dest
        /\ sent[5] = p.length /\ sent[6] = p.crc_flag
        /\ \A i \in 0 .. p.length - 1 : sent[i + 7] = p.msg[i]
        /\ sent[p.length + 7] = p.crc8_fcs
    BY <2>2, MessageBytes
  <2>4. n = IF Len(receiveBuf) < SIZEOF THEN Len(receiveBuf) ELSE SIZEOF
    BY DEF TakenCount
  <2> HIDE DEF n, p, sent
  <2>5. n = p.length + 7 /\ n >= 8 /\ n >= receiveBuf[5] + 7 /\ receiveBuf[6] = 1
    BY <2>1, <2>2, <2>3, <2>4 DEF Created
  <2>6. /\ pkt'.synch = receiveBuf[1] /\ pkt'.ver = receiveBuf[2]
        /\ pkt'.src = receiveBuf[3] /\ pkt'.dest = receiveBuf[4]
        /\ pkt'.length = receiveBuf[5] /\ pkt'.crc_flag = receiveBuf[6]
        /\ pkt'.crc8_fcs = receiveBuf[n]
        /\ \A i \in 0 .. receiveBuf[5] - 1 :
               pkt'.msg[i] = receiveBuf[i + 7] /\ pkt'.msg[i] \in Byte
        /\ ok' <=> ph_compute_crc8(pkt'.msg, receiveBuf[5]) = receiveBuf[n]
    BY <1>1, <2>5, Shown DEF Inv, n
  <2>7. \A i \in 0 .. p.length - 1 : pkt'.msg[i] \in Byte /\ p.msg[i] = pkt'.msg[i]
    BY <2>1, <2>3, <2>6
  <2>8. ph_compute_crc8(pkt'.msg, p.length) = ph_compute_crc8(p.msg, p.length)
    BY <2>2, <2>7, CrcOfBytes
  <2>9. receiveBuf[n] = p.crc8_fcs /\ p.crc8_fcs = ph_compute_crc8(p.msg, p.length)
    BY <2>1, <2>3, <2>5 DEF Created
  <2>10. ok'
    BY <2>1, <2>3, <2>6, <2>8, <2>9
  <2>11. Same(pkt', p)
    BY <2>1, <2>3, <2>6, <2>7, <2>9 DEF Same
  <2> QED
    BY <2>10, <2>11 DEF p
<1>2. Inv => [Step]_vars
  BY <1>1
<1> QED
  BY <1>2, Invariant, PTL DEF IntactIsAccepted

\* A byte of the message or the checksum that is wrong does not pass.
LEMMA WrongByteFails ==
    ASSUME Inv, Show, first.how = "damaged", first.at > 6
    PROVE  ~ok'
<1> DEFINE p == first.pkt
           at == first.at
           sent == transmitMessage(p)
           n == TakenCount
<1>1. /\ Created(p) /\ at \in 1 .. Len(sent) /\ at > 6 /\ PH_MSG_SIZE \in Nat
      /\ \E mask \in 1 .. 255 : receiveBuf = [sent EXCEPT ![at] = Xor(sent[at], mask)]
  <2>1. PH_MSG_SIZE \in Nat
    BY PhMsgSizeAssumption
  <2>2. BeginsWith
    BY DEF Inv
  <2> QED
    BY <2>1, <2>2 DEF BeginsWith
<1>2. p \in PacketHeader /\ p.length \in 1 .. PH_MSG_SIZE - 1 /\ p.length < PH_MSG_SIZE
  BY <1>1 DEF Created
<1>3. /\ sent \in Seq(Byte) /\ Len(sent) = p.length + 7 /\ Len(sent) < SIZEOF
      /\ sent[5] = p.length /\ sent[6] = p.crc_flag
      /\ \A i \in 0 .. p.length - 1 : sent[i + 7] = p.msg[i]
      /\ sent[p.length + 7] = p.crc8_fcs
  BY <1>2, MessageBytes
<1>4. n = IF Len(receiveBuf) < SIZEOF THEN Len(receiveBuf) ELSE SIZEOF
  BY DEF TakenCount
<1> HIDE DEF n, p, at, sent
<1>5. PICK mask \in 1 .. 255 : receiveBuf = [sent EXCEPT ![at] = Xor(sent[at], mask)]
  BY <1>1
<1>6. Xor(sent[at], mask) \in Byte /\ Xor(sent[at], mask) # sent[at]
  BY <1>1, <1>3, ElementOfSeq, XorChanges
<1>7. /\ Len(receiveBuf) = Len(sent)
      /\ \A j \in 1 .. Len(sent) :
             receiveBuf[j] = IF j = at THEN Xor(sent[at], mask) ELSE sent[j]
  BY <1>1, <1>3, <1>5, <1>6, ExceptSeq
<1>8. /\ receiveBuf[at] # sent[at]
      /\ \A j \in 1 .. p.length + 7 : j # at => receiveBuf[j] = sent[j]
  BY <1>1, <1>3, <1>6, <1>7
<1>9. n = p.length + 7 /\ at \in 7 .. n
  BY <1>1, <1>2, <1>3, <1>4, <1>7
<1>10. receiveBuf[5] = p.length /\ receiveBuf[6] = 1
  <2>1. 5 \in 1 .. p.length + 7 /\ 6 \in 1 .. p.length + 7 /\ 5 # at /\ 6 # at
    BY <1>2, <1>9
  <2>2. receiveBuf[5] = sent[5] /\ receiveBuf[6] = sent[6]
    BY <1>8, <2>1
  <2> QED
    BY <1>1, <1>3, <2>2 DEF Created
<1>11. n >= 8 /\ n >= receiveBuf[5] + 7
  BY <1>2, <1>9, <1>10
<1>12. /\ \A i \in 0 .. receiveBuf[5] - 1 :
              pkt'.msg[i] = receiveBuf[i + 7] /\ pkt'.msg[i] \in Byte
       /\ ok' <=> ph_compute_crc8(pkt'.msg, receiveBuf[5]) = receiveBuf[n]
  BY <1>10, <1>11, Shown DEF Inv, n
<1>13. /\ ok' <=> ph_compute_crc8(pkt'.msg, p.length) = receiveBuf[n]
       /\ \A i \in 0 .. p.length - 1 : p.msg[i] \in Byte /\ pkt'.msg[i] \in Byte
  <2>1. \A i \in 0 .. p.length - 1 : p.msg[i] \in Byte
    <3>1. p.msg \in [0 .. PH_MSG_SIZE - 1 -> Byte]
      BY <1>2 DEF PacketHeader
    <3> QED
      BY <1>1, <1>2, <3>1
  <2> QED
    BY <1>10, <1>12, <2>1
<1>14. ASSUME NEW i \in 0 .. p.length - 1, i + 7 # at PROVE p.msg[i] = pkt'.msg[i]
  <2>1. i + 7 \in 1 .. p.length + 7
    BY <1>2
  <2>2. receiveBuf[i + 7] = sent[i + 7]
    BY <1>8, <1>14, <2>1
  <2> QED
    BY <1>3, <1>10, <1>12, <2>2
<1>15. p.crc8_fcs = ph_compute_crc8(p.msg, p.length) /\ p.length \in Nat
  BY <1>1 DEF Created
<1>16. CASE at = n
  <2>1. ASSUME NEW i \in 0 .. p.length - 1 PROVE i + 7 # at
    BY <1>9, <1>15, <1>16
  <2>2. \A i \in 0 .. p.length - 1 : p.msg[i] \in Byte /\ pkt'.msg[i] = p.msg[i]
    BY <1>13, <1>14, <2>1
  <2>3. ph_compute_crc8(p.msg, p.length) = ph_compute_crc8(pkt'.msg, p.length)
    BY <1>15, <2>2, CrcOfBytes
  <2>4. receiveBuf[n] # p.crc8_fcs
    BY <1>3, <1>8, <1>9, <1>16
  <2> QED
    BY <1>13, <1>15, <2>3, <2>4
<1>17. CASE at # n
  <2> DEFINE k == at - 7
  <2>1. k \in 0 .. p.length - 1 /\ k + 7 = at
    BY <1>9, <1>15, <1>17
  <2>2. n \in 1 .. p.length + 7 /\ receiveBuf[n] = p.crc8_fcs
    <3>1. n \in 1 .. p.length + 7
      BY <1>9, <1>15
    <3> QED
      BY <1>3, <1>8, <1>9, <1>17, <3>1
  <2> HIDE DEF k
  <2>3. p.msg[k] # pkt'.msg[k]
    <3>1. pkt'.msg[k] = receiveBuf[k + 7] /\ p.msg[k] = sent[k + 7]
      BY <1>3, <1>10, <1>12, <2>1
    <3> QED
      BY <1>8, <2>1, <3>1
  <2>4. \A i \in 0 .. p.length - 1 : i # k => p.msg[i] = pkt'.msg[i]
    <3>1. ASSUME NEW i \in 0 .. p.length - 1, i # k PROVE i + 7 # at
      BY <1>15, <2>1, <3>1
    <3> QED
      BY <1>14, <3>1
  <2>5. ph_compute_crc8(p.msg, p.length) # ph_compute_crc8(pkt'.msg, p.length)
    BY <1>13, <1>15, <2>1, <2>3, <2>4, CrcTellsByte
  <2> QED
    BY <1>13, <1>15, <2>2, <2>5
<1> QED
  BY <1>16, <1>17

\* One byte of the message or the checksum that noise changed, in whatever way,
\* makes ph_parse refuse the packet, for messages of any length.
THEOREM ByteOfDamageIsNoticed == Spec => DamageIsNoticed
<1> DEFINE Step == Show /\ first.how = "damaged" /\ first.at > 6 => ~ok'
<1>1. Inv => Step
  BY WrongByteFails
<1>2. Inv => [Step]_vars
  BY <1>1
<1> QED
  BY <1>2, Invariant, PTL DEF DamageIsNoticed

\* How a frame that the history knows is found in receiveBuf: cut, with every byte
\* but the last as it was sent, or of its own length and, from the message on, as it
\* was sent if it is accepted.
LEMMA KnownIsFound ==
    ASSUME Inv, Show, ok', first.how # "unknown"
    PROVE  LET sent == transmitMessage(first.pkt) IN
           \/ /\ first.how = "cut" /\ Len(receiveBuf) <= Len(sent)
              /\ Len(receiveBuf) = Len(sent) => first.at = 8 * Len(sent) - 1
              /\ \A j \in 1 .. Len(receiveBuf) - 1 : receiveBuf[j] = sent[j]
           \/ /\ first.how # "cut" /\ Len(receiveBuf) = Len(sent)
              /\ \A j \in 7 .. Len(sent) : receiveBuf[j] = sent[j]
              /\ receiveBuf[5] # sent[5] => first.how = "damaged" /\ first.at = 5
<1> DEFINE sent == transmitMessage(first.pkt)
           at == first.at
<1>1. first.how \in {"intact", "damaged", "cut"} /\ BeginsWith
  BY DEF Inv, TypeOK
<1>2. CASE first.how = "intact"
  BY <1>1, <1>2 DEF BeginsWith
<1>3. CASE first.how = "cut"
  <2>1. /\ Created(first.pkt) /\ at < 8 * Len(sent)
        /\ 8 * Len(receiveBuf) <= at + 1
        /\ \A j \in 1 .. Len(receiveBuf) : receiveBuf[j] = sent[j] \/ 8 * j = at + 1
    BY <1>1, <1>3 DEF BeginsWith
  <2>2. Len(sent) \in Nat /\ Len(receiveBuf) \in Nat /\ at \in Nat
    <3>1. receiveBuf \in Seq(Byte) /\ at \in Nat
      BY DEF Inv, TypeOK
    <3> QED
      BY <2>1, <3>1, CreatedBytes, LenProperties
  <2> HIDE DEF sent, at
  <2>3. Len(receiveBuf) <= Len(sent) /\ (Len(receiveBuf) = Len(sent) => at = 8 * Len(sent) - 1)
    BY <2>1, <2>2
  <2>4. ASSUME NEW j \in 1 .. Len(receiveBuf) - 1 PROVE receiveBuf[j] = sent[j]
    <3>1. j \in 1 .. Len(receiveBuf) /\ j < Len(receiveBuf)
      BY <2>2
    <3>2. 8 * j # at + 1
      BY <2>1, <2>2, <3>1
    <3> QED
      BY <2>1, <3>1, <3>2
  <2> QED
    BY <1>3, <2>3, <2>4 DEF sent, at
<1>4. CASE first.how = "damaged"
  <2>1. /\ at \in 1 .. Len(sent) /\ Created(first.pkt)
        /\ \E mask \in 1 .. 255 : receiveBuf = [sent EXCEPT ![at] = Xor(sent[at], mask)]
    BY <1>1, <1>4 DEF BeginsWith
  <2>2. sent \in Seq(Byte) /\ Len(sent) \in Nat /\ Len(sent) >= 7
    BY <2>1, CreatedBytes
  <2>3. at <= 6
    BY <1>4, <2>1, <2>2, WrongByteFails
  <2> HIDE DEF sent, at
  <2>4. PICK mask \in 1 .. 255 : receiveBuf = [sent EXCEPT ![at] = Xor(sent[at], mask)]
    BY <2>1
  <2>5. Xor(sent[at], mask) \in Byte
    BY <2>1, <2>2, ElementOfSeq, XorChanges
  <2>6. /\ Len(receiveBuf) = Len(sent)
        /\ \A j \in 1 .. Len(sent) : j # at => receiveBuf[j] = sent[j]
    BY <2>1, <2>2, <2>4, <2>5, ExceptSeq
  <2>7. \A j \in 7 .. Len(sent) : j \in 1 .. Len(sent) /\ j # at
    BY <2>1, <2>2, <2>3
  <2>8. receiveBuf[5] # sent[5] => at = 5
    BY <2>2, <2>6
  <2> QED
    BY <1>4, <2>6, <2>7, <2>8 DEF sent, at
<1> QED
  BY <1>1, <1>2, <1>3, <1>4

\* What is accepted was sent, or is a beginning of what was sent with a length that
\* was damaged: the size tests leave no other way for a frame that is cut, or whose
\* header is wrong, at any byte and for messages of any length.  A collision can take
\* no more from an accepted frame than its last bit.
THEOREM NothingElseIsAccepted == Spec => AcceptedWasSent
<1> DEFINE Step ==
      Show /\ ok' /\ first.how # "unknown" =>
          /\ first.how = "cut" => first.at = 8 * (first.pkt.length + 7) - 1
          /\ pkt'.length <= first.pkt.length
          /\ pkt'.length # first.pkt.length => first.how = "damaged" /\ first.at = 5
          /\ \A i \in 0 .. pkt'.length - 1 : pkt'.msg[i] = first.pkt.msg[i]
          /\ pkt'.crc8_fcs = first.pkt.crc8_fcs
<1>1. ASSUME Inv, Show, ok', first.how # "unknown" PROVE Step
  <2> DEFINE p == first.pkt
             sent == transmitMessage(p)
             n == TakenCount
  <2>1. Created(p)
    BY <1>1 DEF Inv, TypeOK, BeginsWith
  <2>2. p \in PacketHeader /\ p.length \in Nat /\ p.length < PH_MSG_SIZE
    BY <2>1, PhMsgSizeAssumption DEF Created
  <2>3. /\ Len(sent) = p.length + 7 /\ Len(sent) < SIZEOF /\ sent[5] = p.length
        /\ \A i \in 0 .. p.length - 1 : sent[i + 7] = p.msg[i]
        /\ sent[p.length + 7] = p.crc8_fcs
    BY <2>2, MessageBytes
  <2>4. \/ /\ first.how = "cut" /\ Len(receiveBuf) <= Len(sent)
           /\ Len(receiveBuf) = Len(sent) => first.at = 8 * Len(sent) - 1
           /\ \A j \in 1 .. Len(receiveBuf) - 1 : receiveBuf[j] = sent[j]
        \/ /\ first.how # "cut" /\ Len(receiveBuf) = Len(sent)
           /\ \A j \in 7 .. Len(sent) : receiveBuf[j] = sent[j]
           /\ receiveBuf[5] # sent[5] => first.how = "damaged" /\ first.at = 5
    BY <1>1, KnownIsFound
  <2>5. /\ n = IF Len(receiveBuf) < SIZEOF THEN Len(receiveBuf) ELSE SIZEOF
        /\ n >= 8 /\ n >= receiveBuf[5] + 7
        /\ pkt'.length = receiveBuf[5] /\ pkt'.crc8_fcs = receiveBuf[n]
        /\ \A i \in 0 .. receiveBuf[5] - 1 :
               pkt'.msg[i] = receiveBuf[i + 7] /\ pkt'.msg[i] \in Byte
        /\ ph_compute_crc8(pkt'.msg, receiveBuf[5]) = receiveBuf[n]
    BY <1>1, Shown DEF Inv
  <2>6. Len(receiveBuf) \in Nat /\ SIZEOF \in Nat /\ pkt'.length \in Nat
    <3>1. receiveBuf \in Seq(Byte) /\ pkt' \in PacketHeader
      BY <1>1, Shown DEF Inv, TypeOK
    <3>2. pkt'.length \in Byte /\ \A b \in Byte : b \in Nat
      BY <3>1 DEF PacketHeader, Byte
    <3> QED
      BY <3>1, <3>2, LenProperties, PhMsgSizeAssumption DEF SIZEOF
  <2> HIDE DEF n, p, sent
  <2>7. n = Len(receiveBuf)
    BY <2>2, <2>3, <2>4, <2>5, <2>6
  <2>8. ASSUME first.how = "cut"
        PROVE  receiveBuf[5] = p.length /\ n = Len(sent) /\ first.at = 8 * Len(sent) - 1
    <3>1. 5 \in 1 .. Len(receiveBuf) - 1
      BY <2>5, <2>6, <2>7
    <3>2. receiveBuf[5] = p.length
      BY <2>3, <2>4, <2>8, <3>1
    <3> QED
      BY <2>2, <2>3, <2>4, <2>5, <2>6, <2>7, <2>8, <3>2
  <2>9. n = p.length + 7 /\ pkt'.length <= p.length
    BY <2>2, <2>3, <2>4, <2>5, <2>6, <2>7, <2>8
  <2>10. ASSUME NEW i \in 0 .. pkt'.length - 1 PROVE pkt'.msg[i] = p.msg[i]
    <3>1. /\ i \in 0 .. p.length - 1 /\ i + 7 \in 7 .. Len(sent)
          /\ i + 7 \in 1 .. Len(receiveBuf) - 1
      BY <2>2, <2>3, <2>6, <2>7, <2>9
    <3>2. receiveBuf[i + 7] = sent[i + 7]
      BY <2>4, <3>1
    <3> QED
      BY <2>3, <2>5, <3>1, <3>2
  <2>11. pkt'.crc8_fcs = p.crc8_fcs
    <3>1. CASE first.how = "cut"
      <4>1. \A i \in 0 .. p.length - 1 : pkt'.msg[i] \in Byte /\ p.msg[i] = pkt'.msg[i]
        BY <2>5, <2>8, <2>10, <3>1
      <4>2. ph_compute_crc8(pkt'.msg, p.length) = ph_compute_crc8(p.msg, p.length)
        BY <2>2, <4>1, CrcOfBytes
      <4> QED
        BY <2>1, <2>5, <2>8, <3>1, <4>2 DEF Created
    <3>2. CASE first.how # "cut"
      <4>1. n \in 7 .. Len(sent) /\ n = Len(sent)
        BY <2>2, <2>3, <2>9
      <4> QED
        BY <2>3, <2>4, <2>5, <2>9, <3>2, <4>1
    <3> QED
      BY <3>1, <3>2
  <2>12. pkt'.length # p.length => first.how = "damaged" /\ first.at = 5
    BY <2>3, <2>4, <2>5, <2>8
  <2>13. first.how = "cut" => first.at = 8 * (p.length + 7) - 1
    BY <2>3, <2>8
  <2> QED
    BY <2>9, <2>10, <2>11, <2>12, <2>13 DEF p
<1>2. Inv => [Step]_vars
  BY <1>1
<1> QED
  BY <1>2, Invariant, PTL DEF AcceptedWasSent

\* The checksum of the packet on the line is the remainder of the division: the
\* table, the register that fills it and the walk over the bytes, for a message of
\* any length and whatever the static packet held before.
THEOREM ChecksumIsCrc == Spec => []ChecksumIsRemainder
<1>1. Inv => ChecksumIsRemainder
  <2> SUFFICES ASSUME Inv, levels # <<>>
               PROVE  outPkt.crc8_fcs
                          = Remainder([i \in 1 .. outPkt.length |-> outPkt.msg[i - 1]])
    BY DEF ChecksumIsRemainder
  <2> DEFINE text == [i \in 1 .. outPkt.length |-> outPkt.msg[i - 1]]
  <2>1. /\ outPkt.length \in 1 .. PH_MSG_SIZE - 1
        /\ outPkt.crc8_fcs = ph_compute_crc8(outPkt.msg, outPkt.length)
    BY DEF Inv, OnTheLine, Created
  <2>2. /\ outPkt.msg \in [0 .. PH_MSG_SIZE - 1 -> Byte]
        /\ outPkt.length \in Nat /\ PH_MSG_SIZE \in Nat
    BY <2>1, PhMsgSizeAssumption DEF Inv, TypeOK, PacketHeader
  <2>3. \A i \in 1 .. outPkt.length : outPkt.msg[i - 1] \in Byte
    BY <2>1, <2>2
  <2>4. text \in Seq(Byte) /\ Len(text) = outPkt.length
    BY <2>2, <2>3, IsASeq
  <2>5. ASSUME NEW i \in 0 .. outPkt.length - 1 PROVE outPkt.msg[i] = text[i + 1]
    <3>1. i + 1 \in 1 .. outPkt.length /\ (i + 1) - 1 = i
      BY <2>2
    <3> QED
      BY <3>1
  <2> HIDE DEF text
  <2>6. Len(text) <= PH_MSG_SIZE
    BY <2>1, <2>2, <2>4
  <2>7. ph_compute_crc8(outPkt.msg, Len(text)) = Remainder(text)
    BY <2>4, <2>5, <2>6, CrcIsRemainder
  <2> QED
    BY <2>1, <2>4, <2>7 DEF text
<1> QED
  BY <1>1, Invariant, PTL

=============================================================================
