--------------------------- MODULE PacketHeaderProofs ---------------------------
(***************************************************************************)
(* Theorems about the packet format for messages of any size: the checksum *)
(* is a byte, depends on the bytes of the message alone, tells any two     *)
(* messages that differ in one byte and is the remainder of a division of  *)
(* polynomials; the decoder undoes the line code.                          *)
(***************************************************************************)
EXTENDS PacketHeader, SequenceTheorems, FiniteSetTheorems, WellFoundedInduction, TLAPS

(* Induction, in the form of sets of numbers. *)

\* A set of numbers that is not empty has a least one.
LEMMA Smallest ==
    ASSUME NEW T \in SUBSET Nat, T # {}
    PROVE  \E x \in T : \A y \in T : ~(y < x)
<1> DEFINE R == OpToRel(<, Nat)
<1>1. IsWellFoundedOn(R, Nat)
  BY NatLessThanWellFounded
<1> HIDE DEF R
<1>2. \E x \in T : \A y \in T : ~(<<y, x>> \in R)
  BY <1>1, WFMin
<1>3. ASSUME NEW x \in Nat, NEW y \in Nat, y < x PROVE <<y, x>> \in R
  BY <1>3 DEF R, OpToRel
<1> QED
  BY <1>2, <1>3

\* What holds of 0 and is passed on up to size holds of all numbers up to it.
LEMMA UpTo ==
    ASSUME NEW size \in Nat, NEW P, 0 \in P, \A n \in 1 .. size : n - 1 \in P => n \in P
    PROVE  0 .. size \subseteq P
<1> DEFINE T == {n \in 0 .. size : n \notin P}
<1> SUFFICES ASSUME T # {} PROVE FALSE
  OBVIOUS
<1>1. PICK x \in T : \A y \in T : ~(y < x)
  <2>1. T \in SUBSET Nat
    OBVIOUS
  <2> HIDE DEF T
  <2> QED
    BY <2>1, Smallest
<1>2. x \in 1 .. size
  BY <1>1
<1>3. x - 1 \in 0 .. size /\ x - 1 < x
  BY <1>2
<1>4. x - 1 \in P
  BY <1>1, <1>3
<1> QED
  BY <1>1, <1>2, <1>4

\* g is the function that starts at a and makes the step F from each value to the next.
IsStep(F, V) == F \in [Nat \X V -> V]

IsWalk(g, F, V, a, size) ==
    /\ g \in [0 .. size -> V]
    /\ g[0] = a /\ \A n \in 1 .. size : g[n] = F[<<n, g[n - 1]>>]

\* There is such a function.
LEMMA StepByStep ==
    ASSUME NEW V, NEW a \in V, NEW size \in Nat, NEW F, IsStep(F, V)
    PROVE  \E g : IsWalk(g, F, V, a, size)
<1> DEFINE Def(g, m) == g[0] = a /\ \A n \in 1 .. m : g[n] = F[<<n, g[n - 1]>>]
           P == {m \in 0 .. size : \E g \in [0 .. m -> V] : Def(g, m)}
<1> USE DEF IsStep
<1>1. 0 \in P
  <2> DEFINE g == [n \in 0 .. 0 |-> a]
  <2>1. g \in [0 .. 0 -> V] /\ Def(g, 0)
    OBVIOUS
  <2> HIDE DEF g, Def
  <2> QED
    BY <2>1
<1>2. ASSUME NEW m \in 1 .. size, m - 1 \in P PROVE m \in P
  <2>1. PICK g \in [0 .. m - 1 -> V] : Def(g, m - 1)
    BY <1>2
  <2> DEFINE h == [n \in 0 .. m |-> IF n = m THEN F[<<m, g[m - 1]>>] ELSE g[n]]
  <2>2. g[m - 1] \in V /\ F[<<m, g[m - 1]>>] \in V
    OBVIOUS
  <2>3. h \in [0 .. m -> V]
    BY <2>2
  <2>4. \A n \in 0 .. m - 1 : h[n] = g[n]
    OBVIOUS
  <2>5. h[m] = F[<<m, h[m - 1]>>]
    <3>1. h[m] = F[<<m, g[m - 1]>>]
      OBVIOUS
    <3>2. h[m - 1] = g[m - 1]
      BY <2>4
    <3> HIDE DEF h
    <3> QED
      BY <3>1, <3>2
  <2>6. Def(h, m)
    <3>1. h[0] = a
      BY <2>1, <2>4
    <3>2. ASSUME NEW n \in 1 .. m PROVE h[n] = F[<<n, h[n - 1]>>]
      <4>1. CASE n = m
        BY <2>5, <4>1
      <4>2. CASE n # m
        <5>1. n \in 1 .. m - 1 /\ n - 1 \in 0 .. m - 1 /\ n \in 0 .. m - 1
          BY <4>2
        <5>2. g[n] = F[<<n, g[n - 1]>>]
          BY <2>1, <5>1
        <5> HIDE DEF h
        <5> QED
          BY <2>4, <5>1, <5>2
      <4> QED
        BY <4>1, <4>2
    <3> HIDE DEF h
    <3> QED
      BY <3>1, <3>2
  <2> HIDE DEF h
  <2> QED
    BY <2>3, <2>6
<1>3. size \in P
  <2>1. 0 .. size \subseteq P
    <3> HIDE DEF P
    <3> QED
      BY <1>1, <1>2, UpTo
  <2> QED
    BY <2>1
<1> QED
  BY <1>3 DEF IsWalk

-----------------------------------------------------------------------------
(* Bytes and bits. *)

\* The powers of two that BitOf uses.
LEMMA Powers ==
    /\ 2^0 = 1 /\ 2^1 = 2 /\ 2^2 = 4 /\ 2^3 = 8
    /\ 2^4 = 16 /\ 2^5 = 32 /\ 2^6 = 64 /\ 2^7 = 128
  OBVIOUS

\* The bits of a number as quotients.
LEMMA BitsAre ==
    ASSUME NEW byte \in Int
    PROVE  /\ BitOf(byte, 0) = byte % 2 /\ BitOf(byte, 1) = (byte \div 2) % 2
           /\ BitOf(byte, 2) = (byte \div 4) % 2 /\ BitOf(byte, 3) = (byte \div 8) % 2
           /\ BitOf(byte, 4) = (byte \div 16) % 2 /\ BitOf(byte, 5) = (byte \div 32) % 2
           /\ BitOf(byte, 6) = (byte \div 64) % 2 /\ BitOf(byte, 7) = (byte \div 128) % 2
<1>1. byte \div 1 = byte
  OBVIOUS
<1> QED
  BY <1>1, Powers DEF BitOf

\* A bit is 0 or 1.
LEMMA BitTyped ==
    ASSUME NEW byte \in Int, NEW i \in 0 .. 7
    PROVE  BitOf(byte, i) \in {0, 1}
<1>1. /\ byte \div 2 \in Int /\ byte \div 4 \in Int /\ byte \div 8 \in Int
      /\ byte \div 16 \in Int /\ byte \div 32 \in Int /\ byte \div 64 \in Int
      /\ byte \div 128 \in Int
  OBVIOUS
<1>2. /\ byte % 2 \in {0, 1} /\ (byte \div 2) % 2 \in {0, 1}
      /\ (byte \div 4) % 2 \in {0, 1} /\ (byte \div 8) % 2 \in {0, 1}
      /\ (byte \div 16) % 2 \in {0, 1} /\ (byte \div 32) % 2 \in {0, 1}
      /\ (byte \div 64) % 2 \in {0, 1} /\ (byte \div 128) % 2 \in {0, 1}
  BY <1>1
<1>3. /\ BitOf(byte, 0) = byte % 2 /\ BitOf(byte, 1) = (byte \div 2) % 2
      /\ BitOf(byte, 2) = (byte \div 4) % 2 /\ BitOf(byte, 3) = (byte \div 8) % 2
      /\ BitOf(byte, 4) = (byte \div 16) % 2 /\ BitOf(byte, 5) = (byte \div 32) % 2
      /\ BitOf(byte, 6) = (byte \div 64) % 2 /\ BitOf(byte, 7) = (byte \div 128) % 2
  BY BitsAre
<1>4. /\ BitOf(byte, 0) \in {0, 1} /\ BitOf(byte, 1) \in {0, 1}
      /\ BitOf(byte, 2) \in {0, 1} /\ BitOf(byte, 3) \in {0, 1}
      /\ BitOf(byte, 4) \in {0, 1} /\ BitOf(byte, 5) \in {0, 1}
      /\ BitOf(byte, 6) \in {0, 1} /\ BitOf(byte, 7) \in {0, 1}
  BY <1>2, <1>3
<1>5. i = 0 \/ i = 1 \/ i = 2 \/ i = 3 \/ i = 4 \/ i = 5 \/ i = 6 \/ i = 7
  OBVIOUS
<1> QED
  BY <1>4, <1>5

Weighed(b) ==
    128 * b[7] + 64 * b[6] + 32 * b[5] + 16 * b[4] + 8 * b[3] + 4 * b[2] + 2 * b[1] + b[0]

EightBits == [0 .. 7 -> {0, 1}]

\* Eight bits and their weights make a byte that has these bits.
LEMMA WeighedBits ==
    ASSUME NEW b \in EightBits
    PROVE  /\ Weighed(b) \in Byte
           /\ \A i \in 0 .. 7 : BitOf(Weighed(b), i) = b[i]
<1>1. /\ b[0] \in {0, 1} /\ b[1] \in {0, 1} /\ b[2] \in {0, 1} /\ b[3] \in {0, 1}
      /\ b[4] \in {0, 1} /\ b[5] \in {0, 1} /\ b[6] \in {0, 1} /\ b[7] \in {0, 1}
  BY DEF EightBits
<1>2. Weighed(b) \in Byte
  BY <1>1 DEF Weighed, Byte
<1>3. Weighed(b) \in Int
  BY <1>2 DEF Byte
<1>4. /\ Weighed(b) % 2 = b[0] /\ (Weighed(b) \div 2) % 2 = b[1]
      /\ (Weighed(b) \div 4) % 2 = b[2] /\ (Weighed(b) \div 8) % 2 = b[3]
      /\ (Weighed(b) \div 16) % 2 = b[4] /\ (Weighed(b) \div 32) % 2 = b[5]
      /\ (Weighed(b) \div 64) % 2 = b[6] /\ (Weighed(b) \div 128) % 2 = b[7]
  BY <1>1 DEF Weighed
<1>5. /\ BitOf(Weighed(b), 0) = b[0] /\ BitOf(Weighed(b), 1) = b[1]
      /\ BitOf(Weighed(b), 2) = b[2] /\ BitOf(Weighed(b), 3) = b[3]
      /\ BitOf(Weighed(b), 4) = b[4] /\ BitOf(Weighed(b), 5) = b[5]
      /\ BitOf(Weighed(b), 6) = b[6] /\ BitOf(Weighed(b), 7) = b[7]
  BY <1>3, <1>4, BitsAre
<1>6. ASSUME NEW i \in 0 .. 7 PROVE BitOf(Weighed(b), i) = b[i]
  <2>1. i = 0 \/ i = 1 \/ i = 2 \/ i = 3 \/ i = 4 \/ i = 5 \/ i = 6 \/ i = 7
    OBVIOUS
  <2> QED
    BY <1>5, <2>1
<1> QED
  BY <1>2, <1>6

\* A byte is the weighed sum of its bits.
LEMMA ByteIsItsBits ==
    ASSUME NEW byte \in Byte
    PROVE  byte = Weighed([i \in 0 .. 7 |-> BitOf(byte, i)])
<1>1. byte \in Int /\ byte \in 0 .. 255
  BY DEF Byte
<1> DEFINE b == [i \in 0 .. 7 |-> BitOf(byte, i)]
<1>2. /\ b[0] = byte % 2 /\ b[1] = (byte \div 2) % 2
      /\ b[2] = (byte \div 4) % 2 /\ b[3] = (byte \div 8) % 2
      /\ b[4] = (byte \div 16) % 2 /\ b[5] = (byte \div 32) % 2
      /\ b[6] = (byte \div 64) % 2 /\ b[7] = (byte \div 128) % 2
  BY <1>1, BitsAre
<1> HIDE DEF b
<1>3. byte = Weighed(b)
  BY <1>1, <1>2 DEF Weighed
<1> QED
  BY <1>3 DEF b

\* A byte is known by its bits.
LEMMA SameBits ==
    ASSUME NEW a \in Byte, NEW b \in Byte, \A i \in 0 .. 7 : BitOf(a, i) = BitOf(b, i)
    PROVE  a = b
<1>1. [i \in 0 .. 7 |-> BitOf(a, i)] = [i \in 0 .. 7 |-> BitOf(b, i)]
  OBVIOUS
<1> QED
  BY <1>1, ByteIsItsBits

\* Exclusive or, bit by bit.
LEMMA XorBits ==
    ASSUME NEW a \in Int, NEW b \in Int
    PROVE  /\ Xor(a, b) \in Byte
           /\ \A i \in 0 .. 7 : BitOf(Xor(a, b), i) = (BitOf(a, i) + BitOf(b, i)) % 2
<1> DEFINE c == [i \in 0 .. 7 |-> (BitOf(a, i) + BitOf(b, i)) % 2]
<1>1. c \in EightBits
  <2>1. ASSUME NEW i \in 0 .. 7 PROVE (BitOf(a, i) + BitOf(b, i)) % 2 \in {0, 1}
    <3>1. BitOf(a, i) \in {0, 1} /\ BitOf(b, i) \in {0, 1}
      BY BitTyped
    <3> QED
      BY <3>1
  <2> QED
    BY <2>1 DEF EightBits
<1>2. Xor(a, b) = Weighed(c)
  BY DEF Xor, ByteOf, Weighed
<1>3. \A i \in 0 .. 7 : c[i] = (BitOf(a, i) + BitOf(b, i)) % 2
  OBVIOUS
<1> HIDE DEF c
<1> QED
  BY <1>1, <1>2, <1>3, WeighedBits

\* It can be undone.
LEMMA XorInjective ==
    ASSUME NEW a \in Byte, NEW b \in Byte, NEW c \in Byte
    PROVE  /\ Xor(a, c) = Xor(b, c) => a = b
           /\ Xor(c, a) = Xor(c, b) => a = b
<1>1. a \in Int /\ b \in Int /\ c \in Int
  BY DEF Byte
<1>2. \A i \in 0 .. 7 : BitOf(a, i) \in {0, 1} /\ BitOf(b, i) \in {0, 1} /\ BitOf(c, i) \in {0, 1}
  BY <1>1, BitTyped
<1>3. \A x, y, z \in {0, 1} : (x + z) % 2 = (y + z) % 2 => x = y
  OBVIOUS
<1>4. \A x, y, z \in {0, 1} : (z + x) % 2 = (z + y) % 2 => x = y
  OBVIOUS
<1>5. ASSUME Xor(a, c) = Xor(b, c) PROVE a = b
  <2>1. ASSUME NEW i \in 0 .. 7 PROVE BitOf(a, i) = BitOf(b, i)
    <3>1. (BitOf(a, i) + BitOf(c, i)) % 2 = (BitOf(b, i) + BitOf(c, i)) % 2
      BY <1>1, <1>5, XorBits
    <3> QED
      BY <1>2, <1>3, <3>1
  <2> QED
    BY <2>1, SameBits
<1>6. ASSUME Xor(c, a) = Xor(c, b) PROVE a = b
  <2>1. ASSUME NEW i \in 0 .. 7 PROVE BitOf(a, i) = BitOf(b, i)
    <3>1. (BitOf(c, i) + BitOf(a, i)) % 2 = (BitOf(c, i) + BitOf(b, i)) % 2
      BY <1>1, <1>6, XorBits
    <3> QED
      BY <1>2, <1>4, <3>1
  <2> QED
    BY <2>1, SameBits
<1> QED
  BY <1>5, <1>6

-----------------------------------------------------------------------------
(* The checksum. *)

\* One shift of the register.
Shifted(s) == Xor((s * 2) % 256, CRC8_POLYNOMIAL * BitOf(s, 7))

\* What a shift does to each bit.
LEMMA ShiftedBits ==
    ASSUME NEW s \in Byte
    PROVE  /\ Shifted(s) \in Byte
           /\ BitOf(Shifted(s), 0) = BitOf(s, 7)
           /\ BitOf(Shifted(s), 1) = (BitOf(s, 0) + BitOf(s, 7)) % 2
           /\ BitOf(Shifted(s), 2) = (BitOf(s, 1) + BitOf(s, 7)) % 2
           /\ \A i \in 3 .. 7 : BitOf(Shifted(s), i) = BitOf(s, i - 1)
<1> DEFINE t == (s * 2) % 256
           p == CRC8_POLYNOMIAL * BitOf(s, 7)
<1>1. s \in Int /\ s \in 0 .. 255
  BY DEF Byte
<1>2. \A i \in 0 .. 7 : BitOf(s, i) \in {0, 1}
  BY <1>1, BitTyped
<1>3. t \in Byte /\ t \in Int
  BY <1>1 DEF Byte
<1>4. /\ BitOf(t, 0) = 0 /\ BitOf(t, 1) = BitOf(s, 0) /\ BitOf(t, 2) = BitOf(s, 1)
      /\ BitOf(t, 3) = BitOf(s, 2) /\ BitOf(t, 4) = BitOf(s, 3) /\ BitOf(t, 5) = BitOf(s, 4)
      /\ BitOf(t, 6) = BitOf(s, 5) /\ BitOf(t, 7) = BitOf(s, 6)
  <2>1. /\ t % 2 = 0 /\ (t \div 2) % 2 = s % 2 /\ (t \div 4) % 2 = (s \div 2) % 2
        /\ (t \div 8) % 2 = (s \div 4) % 2 /\ (t \div 16) % 2 = (s \div 8) % 2
        /\ (t \div 32) % 2 = (s \div 16) % 2 /\ (t \div 64) % 2 = (s \div 32) % 2
        /\ (t \div 128) % 2 = (s \div 64) % 2
    BY <1>1
  <2> HIDE DEF t
  <2>2. /\ BitOf(t, 0) = t % 2 /\ BitOf(t, 1) = (t \div 2) % 2
        /\ BitOf(t, 2) = (t \div 4) % 2 /\ BitOf(t, 3) = (t \div 8) % 2
        /\ BitOf(t, 4) = (t \div 16) % 2 /\ BitOf(t, 5) = (t \div 32) % 2
        /\ BitOf(t, 6) = (t \div 64) % 2 /\ BitOf(t, 7) = (t \div 128) % 2
    BY <1>3, BitsAre
  <2>3. /\ BitOf(s, 0) = s % 2 /\ BitOf(s, 1) = (s \div 2) % 2
        /\ BitOf(s, 2) = (s \div 4) % 2 /\ BitOf(s, 3) = (s \div 8) % 2
        /\ BitOf(s, 4) = (s \div 16) % 2 /\ BitOf(s, 5) = (s \div 32) % 2
        /\ BitOf(s, 6) = (s \div 64) % 2
    BY <1>1, BitsAre
  <2> QED
    BY <2>1, <2>2, <2>3
<1>5. p \in Int /\ p \in {0, 7} /\ (p = 7 <=> BitOf(s, 7) = 1)
  BY <1>2 DEF CRC8_POLYNOMIAL
<1>6. /\ BitOf(p, 0) = BitOf(s, 7) /\ BitOf(p, 1) = BitOf(s, 7) /\ BitOf(p, 2) = BitOf(s, 7)
      /\ BitOf(p, 3) = 0 /\ BitOf(p, 4) = 0 /\ BitOf(p, 5) = 0
      /\ BitOf(p, 6) = 0 /\ BitOf(p, 7) = 0
  <2> HIDE DEF p
  <2>1. /\ p % 2 = BitOf(s, 7) /\ (p \div 2) % 2 = BitOf(s, 7)
        /\ (p \div 4) % 2 = BitOf(s, 7)
        /\ (p \div 8) % 2 = 0 /\ (p \div 16) % 2 = 0 /\ (p \div 32) % 2 = 0
        /\ (p \div 64) % 2 = 0 /\ (p \div 128) % 2 = 0
    BY <1>2, <1>5
  <2> QED
    BY <1>5, <2>1, BitsAre
<1>7. Shifted(s) = Xor(t, p)
  BY DEF Shifted
<1> HIDE DEF t, p
<1>8. /\ Shifted(s) \in Byte
      /\ \A i \in 0 .. 7 : BitOf(Shifted(s), i) = (BitOf(t, i) + BitOf(p, i)) % 2
  BY <1>3, <1>5, <1>7, XorBits
<1>9. /\ BitOf(Shifted(s), 0) = BitOf(s, 7)
      /\ BitOf(Shifted(s), 1) = (BitOf(s, 0) + BitOf(s, 7)) % 2
      /\ BitOf(Shifted(s), 2) = (BitOf(s, 1) + BitOf(s, 7)) % 2
  BY <1>2, <1>4, <1>6, <1>8
<1>10. /\ BitOf(Shifted(s), 3) = BitOf(s, 2) /\ BitOf(Shifted(s), 4) = BitOf(s, 3)
       /\ BitOf(Shifted(s), 5) = BitOf(s, 4) /\ BitOf(Shifted(s), 6) = BitOf(s, 5)
       /\ BitOf(Shifted(s), 7) = BitOf(s, 6)
  BY <1>2, <1>4, <1>6, <1>8
<1>11. ASSUME NEW i \in 3 .. 7 PROVE BitOf(Shifted(s), i) = BitOf(s, i - 1)
  <2>1. i = 3 \/ i = 4 \/ i = 5 \/ i = 6 \/ i = 7
    OBVIOUS
  <2> QED
    BY <1>10, <2>1
<1> QED
  BY <1>8, <1>9, <1>11

\* A shift loses nothing: what leaves the register comes back at its other end.
LEMMA ShiftedInjective ==
    ASSUME NEW a \in Byte, NEW b \in Byte, Shifted(a) = Shifted(b)
    PROVE  a = b
<1>1. a \in Int /\ b \in Int
  BY DEF Byte
<1>2. \A i \in 0 .. 7 : BitOf(a, i) \in {0, 1} /\ BitOf(b, i) \in {0, 1}
  BY <1>1, BitTyped
<1>3. BitOf(a, 7) = BitOf(b, 7)
  BY ShiftedBits
<1>4. \A x, y, z \in {0, 1} : (x + z) % 2 = (y + z) % 2 => x = y
  OBVIOUS
<1>5. BitOf(a, 0) = BitOf(b, 0) /\ BitOf(a, 1) = BitOf(b, 1)
  <2>1. /\ (BitOf(a, 0) + BitOf(a, 7)) % 2 = (BitOf(b, 0) + BitOf(a, 7)) % 2
        /\ (BitOf(a, 1) + BitOf(a, 7)) % 2 = (BitOf(b, 1) + BitOf(a, 7)) % 2
    BY <1>3, ShiftedBits
  <2> QED
    BY <1>2, <1>4, <2>1
<1>6. ASSUME NEW i \in 2 .. 6 PROVE BitOf(a, i) = BitOf(b, i)
  <2>1. i + 1 \in 3 .. 7 /\ (i + 1) - 1 = i
    OBVIOUS
  <2>2. BitOf(Shifted(a), i + 1) = BitOf(a, i) /\ BitOf(Shifted(b), i + 1) = BitOf(b, i)
    BY <2>1, ShiftedBits
  <2> QED
    BY <2>2
<1>7. ASSUME NEW i \in 0 .. 7 PROVE BitOf(a, i) = BitOf(b, i)
  <2>1. i = 0 \/ i = 1 \/ i \in 2 .. 6 \/ i = 7
    OBVIOUS
  <2> QED
    BY <1>3, <1>5, <1>6, <2>1
<1> QED
  BY <1>7, SameBits

\* An entry of the table is eight shifts.
LEMMA EightShifts ==
    ASSUME NEW byte \in Byte
    PROVE  \E crc \in [0 .. 8 -> Byte] :
               /\ crc[0] = byte /\ \A bit \in 1 .. 8 : crc[bit] = Shifted(crc[bit - 1])
               /\ compute_crc8_byte(byte, CRC8_POLYNOMIAL) = crc[8]
<1> DEFINE crc[bit \in 0 .. 8] ==
          IF bit = 0 THEN byte
          ELSE Xor((crc[bit - 1] * 2) % 256, CRC8_POLYNOMIAL * BitOf(crc[bit - 1], 7))
           F == [p \in Nat \X Byte |-> Shifted(p[2])]
<1>1. compute_crc8_byte(byte, CRC8_POLYNOMIAL) = crc[8]
  BY DEF compute_crc8_byte
<1>2. F \in [Nat \X Byte -> Byte]
  BY ShiftedBits
<1>3. PICK g \in [0 .. 8 -> Byte] :
          g[0] = byte /\ \A n \in 1 .. 8 : g[n] = F[<<n, g[n - 1]>>]
  <2> HIDE DEF F, crc
  <2>1. 8 \in Nat /\ IsStep(F, Byte)
    BY <1>2 DEF IsStep
  <2>2. \E g : IsWalk(g, F, Byte, byte, 8)
    BY <2>1, StepByStep
  <2> QED
    BY <2>2 DEF IsWalk
<1>4. g = [n \in 0 .. 8 |-> IF n = 0 THEN byte ELSE
              Xor((g[n - 1] * 2) % 256, CRC8_POLYNOMIAL * BitOf(g[n - 1], 7))]
  <2>1. ASSUME NEW n \in 0 .. 8
        PROVE  g[n] = IF n = 0 THEN byte ELSE
                  Xor((g[n - 1] * 2) % 256, CRC8_POLYNOMIAL * BitOf(g[n - 1], 7))
    <3>1. CASE n = 0
      BY <1>3, <3>1
    <3>2. CASE n # 0
      <4>1. n \in 1 .. 8 /\ g[n - 1] \in Byte
        BY <3>2
      <4>2. F[<<n, g[n - 1]>>] = Shifted(g[n - 1])
        BY <4>1
      <4>3. g[n] = Shifted(g[n - 1])
        BY <1>3, <4>1, <4>2
      <4> QED
        BY <3>2, <4>3 DEF Shifted
    <3> QED
      BY <3>1, <3>2
  <2> HIDE DEF F
  <2> QED
    BY <2>1
<1>5. crc = [n \in 0 .. 8 |-> IF n = 0 THEN byte ELSE
              Xor((crc[n - 1] * 2) % 256, CRC8_POLYNOMIAL * BitOf(crc[n - 1], 7))]
  BY <1>4
<1> HIDE DEF crc
<1>6. crc[0] = byte /\ \A bit \in 1 .. 8 : crc[bit] = Shifted(crc[bit - 1])
  BY <1>5 DEF Shifted
<1>7. \A n \in 0 .. 8 : crc[n] \in Byte
  <2> DEFINE P == {n \in 0 .. 8 : crc[n] \in Byte}
  <2>1. 0 \in P
    BY <1>6
  <2>2. \A n \in 1 .. 8 : n - 1 \in P => n \in P
    BY <1>6, ShiftedBits
  <2>3. 0 .. 8 \subseteq P
    <3> HIDE DEF P
    <3> QED
      BY <2>1, <2>2, UpTo
  <2> QED
    BY <2>3
<1>8. crc \in [0 .. 8 -> Byte]
  BY <1>5, <1>7
<1> QED
  BY <1>1, <1>6, <1>8

\* No two entries of the table are the same.
LEMMA TableInjective ==
    ASSUME NEW a \in Byte, NEW b \in Byte
    PROVE  /\ crc8_lookuptable[a] \in Byte
           /\ crc8_lookuptable[a] = crc8_lookuptable[b] => a = b
<1>1. /\ crc8_lookuptable[a] = compute_crc8_byte(a, CRC8_POLYNOMIAL)
      /\ crc8_lookuptable[b] = compute_crc8_byte(b, CRC8_POLYNOMIAL)
  BY DEF crc8_lookuptable, compute_crc8_lookup_table
<1>2. PICK x \in [0 .. 8 -> Byte] :
          /\ x[0] = a /\ \A bit \in 1 .. 8 : x[bit] = Shifted(x[bit - 1])
          /\ crc8_lookuptable[a] = x[8]
  BY <1>1, EightShifts
<1>3. PICK y \in [0 .. 8 -> Byte] :
          /\ y[0] = b /\ \A bit \in 1 .. 8 : y[bit] = Shifted(y[bit - 1])
          /\ crc8_lookuptable[b] = y[8]
  BY <1>1, EightShifts
\* Backwards.
<1>4. ASSUME x[8] = y[8] PROVE a = b
  <2> DEFINE P == {n \in 0 .. 8 : x[8 - n] = y[8 - n]}
  <2>1. 0 \in P
    BY <1>4
  <2>2. ASSUME NEW n \in 1 .. 8, n - 1 \in P PROVE n \in P
    <3>1. 8 - (n - 1) \in 1 .. 8 /\ (8 - (n - 1)) - 1 = 8 - n /\ 8 - n \in 0 .. 8
      OBVIOUS
    <3>2. x[8 - (n - 1)] = y[8 - (n - 1)]
      BY <2>2
    <3>3. x[8 - (n - 1)] = Shifted(x[8 - n]) /\ y[8 - (n - 1)] = Shifted(y[8 - n])
      BY <1>2, <1>3, <3>1
    <3>4. x[8 - n] = y[8 - n]
      BY <3>1, <3>2, <3>3, ShiftedInjective
    <3> QED
      BY <3>4
  <2>3. 8 \in P
    <3>1. 8 \in Nat /\ 8 \in 0 .. 8
      OBVIOUS
    <3> HIDE DEF P
    <3>2. 0 .. 8 \subseteq P
      BY <2>1, <2>2, <3>1, UpTo
    <3> QED
      BY <3>1, <3>2
  <2> QED
    BY <1>2, <1>3, <2>3
<1> QED
  BY <1>2, <1>3, <1>4

\* The checksum walks over the message from 0, byte by byte.
LEMMA CrcWalk ==
    ASSUME NEW msg, NEW size \in Nat, \A i \in 0 .. size - 1 : msg[i] \in Byte
    PROVE  \E crc \in [0 .. size -> Byte] :
               /\ crc[0] = 0
               /\ \A n \in 1 .. size : crc[n] = crc8_lookuptable[Xor(crc[n - 1], msg[n - 1])]
               /\ ph_compute_crc8(msg, size) = crc[size]
<1> DEFINE crc[n \in 0 .. size] ==
          IF n = 0 THEN 0 ELSE crc8_lookuptable[Xor(crc[n - 1], msg[n - 1])]
           F == [p \in Nat \X Byte |->
                    IF p[1] \in 1 .. size
                    THEN crc8_lookuptable[Xor(p[2], msg[p[1] - 1])] ELSE 0]
<1>1. ph_compute_crc8(msg, size) = crc[size]
  BY DEF ph_compute_crc8
<1>2. 0 \in Byte
  BY DEF Byte
<1>3. ASSUME NEW n \in 1 .. size, NEW c \in Byte
      PROVE  crc8_lookuptable[Xor(c, msg[n - 1])] \in Byte
  <2>1. msg[n - 1] \in Byte
    OBVIOUS
  <2>2. Xor(c, msg[n - 1]) \in Byte
    <3>1. c \in Int /\ msg[n - 1] \in Int
      BY <2>1 DEF Byte
    <3> QED
      BY <3>1, XorBits
  <2> QED
    BY <2>2, TableInjective
<1>4. F \in [Nat \X Byte -> Byte]
  BY <1>2, <1>3
<1>5. PICK g \in [0 .. size -> Byte] :
          g[0] = 0 /\ \A n \in 1 .. size : g[n] = F[<<n, g[n - 1]>>]
  <2> HIDE DEF F, crc
  <2> QED
    <3>1. IsStep(F, Byte)
      BY <1>4 DEF IsStep
    <3>2. \E g : IsWalk(g, F, Byte, 0, size)
      BY <1>2, <3>1, StepByStep
    <3> QED
      BY <3>2 DEF IsWalk
<1>6. g = [n \in 0 .. size |->
              IF n = 0 THEN 0 ELSE crc8_lookuptable[Xor(g[n - 1], msg[n - 1])]]
  <2>1. ASSUME NEW n \in 0 .. size
        PROVE  g[n] = IF n = 0 THEN 0 ELSE crc8_lookuptable[Xor(g[n - 1], msg[n - 1])]
    <3>1. CASE n = 0
      BY <1>5, <3>1
    <3>2. CASE n # 0
      <4>1. n \in 1 .. size /\ n \in Nat /\ g[n - 1] \in Byte
        BY <3>2
      <4>2. F[<<n, g[n - 1]>>] = crc8_lookuptable[Xor(g[n - 1], msg[n - 1])]
        BY <4>1
      <4>3. g[n] = F[<<n, g[n - 1]>>]
        BY <1>5, <4>1
      <4> QED
        BY <3>2, <4>2, <4>3
    <3> QED
      BY <3>1, <3>2
  <2> HIDE DEF F
  <2> QED
    BY <2>1
<1>7. crc = [n \in 0 .. size |->
                IF n = 0 THEN 0 ELSE crc8_lookuptable[Xor(crc[n - 1], msg[n - 1])]]
  BY <1>6
<1> HIDE DEF crc, F
<1>8. /\ crc[0] = 0
      /\ \A n \in 1 .. size : crc[n] = crc8_lookuptable[Xor(crc[n - 1], msg[n - 1])]
  BY <1>7
<1>9. \A n \in 0 .. size : crc[n] \in Byte
  <2> DEFINE P == {n \in 0 .. size : crc[n] \in Byte}
  <2>1. 0 \in P
    BY <1>2, <1>8
  <2>2. \A n \in 1 .. size : n - 1 \in P => n \in P
    BY <1>3, <1>8
  <2>3. 0 .. size \subseteq P
    <3> HIDE DEF P
    <3> QED
      BY <2>1, <2>2, UpTo
  <2> QED
    BY <2>3
<1>10. crc \in [0 .. size -> Byte]
  BY <1>7, <1>9
<1> QED
  BY <1>1, <1>8, <1>10

\* The checksum is a byte.
THEOREM CrcTyped ==
    ASSUME NEW msg, NEW size \in Nat, \A i \in 0 .. size - 1 : msg[i] \in Byte
    PROVE  ph_compute_crc8(msg, size) \in Byte
<1>1. size \in 0 .. size
  OBVIOUS
<1> QED
  BY <1>1, CrcWalk

\* The checksum of a message depends on its bytes and on nothing else in the
\* array that holds it: ph_compute_crc8 reads no further than size.
THEOREM CrcOfBytes ==
    ASSUME NEW m1, NEW m2, NEW size \in Nat,
           \A i \in 0 .. size - 1 : m1[i] \in Byte /\ m2[i] = m1[i]
    PROVE  ph_compute_crc8(m1, size) = ph_compute_crc8(m2, size)
<1>1. PICK x \in [0 .. size -> Byte] :
          /\ x[0] = 0
          /\ \A n \in 1 .. size : x[n] = crc8_lookuptable[Xor(x[n - 1], m1[n - 1])]
          /\ ph_compute_crc8(m1, size) = x[size]
  BY CrcWalk
<1>2. PICK y \in [0 .. size -> Byte] :
          /\ y[0] = 0
          /\ \A n \in 1 .. size : y[n] = crc8_lookuptable[Xor(y[n - 1], m2[n - 1])]
          /\ ph_compute_crc8(m2, size) = y[size]
  BY CrcWalk
<1> DEFINE P == {n \in 0 .. size : x[n] = y[n]}
<1>3. 0 \in P
  BY <1>1, <1>2
<1>4. ASSUME NEW n \in 1 .. size, n - 1 \in P PROVE n \in P
  <2>1. n - 1 \in 0 .. size - 1 /\ n \in 0 .. size
    OBVIOUS
  <2>2. m1[n - 1] = m2[n - 1] /\ x[n - 1] = y[n - 1]
    BY <1>4, <2>1
  <2>3. x[n] = y[n]
    BY <1>1, <1>2, <2>2
  <2> QED
    BY <2>1, <2>3
<1>5. 0 .. size \subseteq P
  <2> HIDE DEF P
  <2> QED
    BY <1>3, <1>4, UpTo
<1>6. x[size] = y[size]
  BY <1>5
<1> QED
  BY <1>1, <1>2, <1>6

\* Two messages of one length that differ in one byte have different checksums:
\* from there on the two walks never meet again.
THEOREM CrcTellsByte ==
    ASSUME NEW m1, NEW m2, NEW size \in Nat, NEW k \in 0 .. size - 1,
           \A i \in 0 .. size - 1 : m1[i] \in Byte /\ m2[i] \in Byte,
           \A i \in 0 .. size - 1 : i # k => m1[i] = m2[i],
           m1[k] # m2[k]
    PROVE  ph_compute_crc8(m1, size) # ph_compute_crc8(m2, size)
<1>1. PICK x \in [0 .. size -> Byte] :
          /\ x[0] = 0
          /\ \A n \in 1 .. size : x[n] = crc8_lookuptable[Xor(x[n - 1], m1[n - 1])]
          /\ ph_compute_crc8(m1, size) = x[size]
  BY CrcWalk
<1>2. PICK y \in [0 .. size -> Byte] :
          /\ y[0] = 0
          /\ \A n \in 1 .. size : y[n] = crc8_lookuptable[Xor(y[n - 1], m2[n - 1])]
          /\ ph_compute_crc8(m2, size) = y[size]
  BY CrcWalk
<1>3. ASSUME NEW n \in 1 .. size
      PROVE  /\ n - 1 \in 0 .. size - 1 /\ m1[n - 1] \in Byte /\ m2[n - 1] \in Byte
             /\ x[n - 1] \in Byte /\ y[n - 1] \in Byte
             /\ Xor(x[n - 1], m1[n - 1]) \in Byte /\ Xor(y[n - 1], m2[n - 1]) \in Byte
  <2>1. n - 1 \in 0 .. size - 1 /\ n - 1 \in 0 .. size
    OBVIOUS
  <2>2. /\ m1[n - 1] \in Byte /\ m2[n - 1] \in Byte
        /\ x[n - 1] \in Byte /\ y[n - 1] \in Byte
    BY <2>1
  <2>3. /\ m1[n - 1] \in Int /\ m2[n - 1] \in Int /\ x[n - 1] \in Int /\ y[n - 1] \in Int
    <3>1. \A b \in Byte : b \in Int
      BY DEF Byte
    <3> QED
      BY <2>2, <3>1
  <2>4. Xor(x[n - 1], m1[n - 1]) \in Byte /\ Xor(y[n - 1], m2[n - 1]) \in Byte
    BY <2>3, XorBits
  <2> QED
    BY <2>1, <2>2, <2>4
<1> DEFINE P == {n \in 0 .. size : IF n <= k THEN x[n] = y[n] ELSE x[n] # y[n]}
<1>4. 0 \in P
  BY <1>1, <1>2
<1>5. ASSUME NEW n \in 1 .. size, n - 1 \in P PROVE n \in P
  <2>1. /\ x[n] = crc8_lookuptable[Xor(x[n - 1], m1[n - 1])]
        /\ y[n] = crc8_lookuptable[Xor(y[n - 1], m2[n - 1])]
    BY <1>1, <1>2
  <2>2. CASE n <= k
    <3>1. x[n - 1] = y[n - 1] /\ m1[n - 1] = m2[n - 1]
      BY <1>3, <1>5, <2>2
    <3>2. x[n] = y[n]
      BY <2>1, <3>1
    <3> QED
      BY <2>2, <3>2
  <2>3. CASE n = k + 1
    <3>1. x[n - 1] = y[n - 1] /\ m1[n - 1] # m2[n - 1]
      BY <1>5, <2>3
    <3>2. Xor(x[n - 1], m1[n - 1]) # Xor(y[n - 1], m2[n - 1])
      BY <1>3, <3>1, XorInjective
    <3>3. x[n] # y[n]
      BY <1>3, <2>1, <3>2, TableInjective
    <3> QED
      BY <2>3, <3>3
  <2>4. CASE n > k + 1
    <3>1. x[n - 1] # y[n - 1] /\ m1[n - 1] = m2[n - 1]
      BY <1>3, <1>5, <2>4
    <3>2. Xor(x[n - 1], m1[n - 1]) # Xor(y[n - 1], m2[n - 1])
      BY <1>3, <3>1, XorInjective
    <3>3. x[n] # y[n]
      BY <1>3, <2>1, <3>2, TableInjective
    <3> QED
      BY <2>4, <3>3
  <2> QED
    BY <2>2, <2>3, <2>4
<1>6. 0 .. size \subseteq P
  <2> HIDE DEF P
  <2> QED
    BY <1>4, <1>5, UpTo
<1>7. x[size] # y[size]
  BY <1>6
<1> QED
  BY <1>1, <1>2, <1>7

-----------------------------------------------------------------------------
(* The line code. *)

\* The symbol of a byte.
LEMMA SymbolHalves ==
    ASSUME NEW data \in Byte
    PROVE  /\ Symbols[data][1] \in Byte /\ Symbols[data][2] \in Byte
           /\ \A i \in 0 .. 7 : BitOf(Symbols[data][1], i) = SymbolBit(data, i + 8)
           /\ \A i \in 0 .. 7 : BitOf(Symbols[data][2], i) = SymbolBit(data, i)
<1>1. ASSUME NEW j \in 0 .. 15 PROVE SymbolBit(data, j) \in {0, 1}
  <2>1. data \in Int /\ j \div 2 \in 0 .. 7
    BY DEF Byte
  <2>2. BitOf(data, j \div 2) \in {0, 1}
    BY <2>1, BitTyped
  <2> QED
    BY <2>2 DEF SymbolBit
<1> DEFINE high == [i \in 0 .. 7 |-> SymbolBit(data, i + 8)]
           low  == [i \in 0 .. 7 |-> SymbolBit(data, i)]
<1>2. high \in EightBits /\ low \in EightBits
  BY <1>1 DEF EightBits
<1>3. /\ \A i \in 0 .. 7 : high[i] = SymbolBit(data, i + 8)
      /\ \A i \in 0 .. 7 : low[i] = SymbolBit(data, i)
  OBVIOUS
<1>4. Symbols[data] = <<Weighed(high), Weighed(low)>>
  BY DEF Symbols, transmitByte, ByteOf, Weighed
<1> HIDE DEF high, low
<1> QED
  BY <1>2, <1>3, <1>4, WeighedBits

\* Every level is a level.
LEMMA LevelsTyped ==
    ASSUME NEW bytes \in Seq(Byte)
    PROVE  Levels(bytes) \in Seq({0, 1}) /\ Len(Levels(bytes)) = 16 * Len(bytes)
<1>1. Len(bytes) \in Nat
  OBVIOUS
<1>2. ASSUME NEW k \in 1 .. 16 * Len(bytes)
      PROVE  BitOf(Symbols[bytes[(k - 1) \div 16 + 1]][((k - 1) % 16) \div 8 + 1],
                   7 - ((k - 1) % 8)) \in {0, 1}
  <2>1. (k - 1) \div 16 + 1 \in 1 .. Len(bytes)
    BY <1>1
  <2>2. ((k - 1) % 16) \div 8 + 1 \in {1, 2} /\ 7 - ((k - 1) % 8) \in 0 .. 7
    OBVIOUS
  <2>3. bytes[(k - 1) \div 16 + 1] \in Byte
    BY <2>1
  <2>4. Symbols[bytes[(k - 1) \div 16 + 1]][((k - 1) % 16) \div 8 + 1] \in Int
    <3>1. ASSUME NEW data \in Byte, NEW h \in {1, 2} PROVE Symbols[data][h] \in Int
      <4>1. Symbols[data][1] \in Byte /\ Symbols[data][2] \in Byte
        BY SymbolHalves
      <4>2. \A b \in Byte : b \in Int
        BY DEF Byte
      <4> QED
        BY <4>1, <4>2
    <3> QED
      BY <2>2, <2>3, <3>1
  <2> QED
    BY <2>2, <2>4, BitTyped
<1> DEFINE l == [k \in 1 .. 16 * Len(bytes) |->
                    BitOf(Symbols[bytes[(k - 1) \div 16 + 1]][((k - 1) % 16) \div 8 + 1],
                          7 - ((k - 1) % 8))]
<1>3. Levels(bytes) = l
  BY DEF Levels
<1>4. l \in [1 .. 16 * Len(bytes) -> {0, 1}]
  BY <1>2
<1>5. 16 * Len(bytes) \in Nat
  BY <1>1
<1> HIDE DEF l
<1> QED
  BY <1>3, <1>4, <1>5

\* The second half of a bit has the level of the bit, the most significant one
\* first.
LEMMA SecondHalves ==
    ASSUME NEW bytes \in Seq(Byte), NEW j \in 1 .. Len(bytes), NEW r \in 1 .. 8
    PROVE  Levels(bytes)[16 * (j - 1) + 2 * r] = BitOf(bytes[j], 8 - r)
<1> DEFINE k == 16 * (j - 1) + 2 * r
<1>1. Len(bytes) \in Nat /\ bytes[j] \in Byte
  OBVIOUS
<1>2. /\ k \in 1 .. 16 * Len(bytes) /\ (k - 1) \div 16 + 1 = j
      /\ (k - 1) % 16 = 2 * r - 1 /\ 7 - ((k - 1) % 8) = 7 - ((2 * r - 1) % 8)
  <2>1. j \in Int /\ r \in Int /\ 1 <= j /\ j <= Len(bytes) /\ 1 <= r /\ r <= 8
    OBVIOUS
  <2> QED
    BY <1>1, <2>1
<1>3. Levels(bytes)[k] =
          BitOf(Symbols[bytes[j]][(2 * r - 1) \div 8 + 1], 7 - ((2 * r - 1) % 8))
  <2> HIDE DEF k
  <2>1. Levels(bytes)[k] =
            BitOf(Symbols[bytes[(k - 1) \div 16 + 1]][((k - 1) % 16) \div 8 + 1],
                  7 - ((k - 1) % 8))
    BY <1>2 DEF Levels
  <2> QED
    BY <1>2, <2>1
<1>4. CASE r \in 1 .. 4
  <2>1. /\ (2 * r - 1) \div 8 + 1 = 1 /\ 7 - ((2 * r - 1) % 8) = 8 - 2 * r
        /\ 8 - 2 * r \in 0 .. 7
    BY <1>4
  <2>2. Levels(bytes)[k] = SymbolBit(bytes[j], (8 - 2 * r) + 8)
    BY <1>1, <1>3, <2>1, SymbolHalves
  <2>3. ((8 - 2 * r) + 8) % 2 = 0 /\ ((8 - 2 * r) + 8) \div 2 = 8 - r
    BY <1>4
  <2> QED
    BY <2>2, <2>3 DEF SymbolBit
<1>5. CASE r \in 5 .. 8
  <2>1. /\ (2 * r - 1) \div 8 + 1 = 2 /\ 7 - ((2 * r - 1) % 8) = 16 - 2 * r
        /\ 16 - 2 * r \in 0 .. 7
    BY <1>5
  <2>2. Levels(bytes)[k] = SymbolBit(bytes[j], 16 - 2 * r)
    BY <1>1, <1>3, <2>1, SymbolHalves
  <2>3. (16 - 2 * r) % 2 = 0 /\ (16 - 2 * r) \div 2 = 8 - r
    BY <1>5
  <2> QED
    BY <2>2, <2>3 DEF SymbolBit
<1>6. r \in 1 .. 4 \/ r \in 5 .. 8
  OBVIOUS
<1> QED
  BY <1>4, <1>5, <1>6

\* What EXTI4 samples of a frame are the bits of its bytes.
LEMMA SamplesAre ==
    ASSUME NEW bytes \in Seq(Byte)
    PROVE  /\ Samples(Levels(bytes)) \in Seq({0, 1})
           /\ Len(Samples(Levels(bytes))) = 8 * Len(bytes)
           /\ \A j \in 1 .. Len(bytes), r \in 1 .. 8 :
                  Samples(Levels(bytes))[8 * (j - 1) + r] = BitOf(bytes[j], 8 - r)
<1>1. Levels(bytes) \in Seq({0, 1}) /\ Len(Levels(bytes)) = 16 * Len(bytes)
  BY LevelsTyped
<1>2. Len(bytes) \in Nat /\ Len(Levels(bytes)) \div 2 = 8 * Len(bytes)
  BY <1>1
<1> DEFINE s == [k \in 1 .. 8 * Len(bytes) |-> Levels(bytes)[2 * k]]
<1>3. Samples(Levels(bytes)) = s
  BY <1>2 DEF Samples
<1>4. s \in [1 .. 8 * Len(bytes) -> {0, 1}] /\ 8 * Len(bytes) \in Nat
  BY <1>1, <1>2
<1>5. ASSUME NEW j \in 1 .. Len(bytes), NEW r \in 1 .. 8
      PROVE  s[8 * (j - 1) + r] = BitOf(bytes[j], 8 - r)
  <2>1. 8 * (j - 1) + r \in 1 .. 8 * Len(bytes)
    BY <1>2
  <2>2. 2 * (8 * (j - 1) + r) = 16 * (j - 1) + 2 * r
    OBVIOUS
  <2>3. s[8 * (j - 1) + r] = Levels(bytes)[16 * (j - 1) + 2 * r]
    BY <2>1, <2>2
  <2> QED
    BY <2>3, SecondHalves
<1> HIDE DEF s
<1>6. s \in Seq({0, 1}) /\ Len(s) = 8 * Len(bytes)
  BY <1>4
<1> QED
  BY <1>3, <1>5, <1>6

\* Eight samples make a byte.
LEMMA DataByteOf ==
    ASSUME NEW bits \in Seq({0, 1}), Len(bits) = 8
    PROVE  /\ DataByte(bits) \in Byte
           /\ \A byte \in Byte :
                  (\A r \in 1 .. 8 : bits[r] = BitOf(byte, 8 - r)) => DataByte(bits) = byte
<1> DEFINE b == [i \in 0 .. 7 |-> bits[8 - i]]
<1>1. b \in EightBits
  <2>1. ASSUME NEW i \in 0 .. 7 PROVE bits[8 - i] \in {0, 1}
    <3>1. 8 - i \in 1 .. Len(bits)
      OBVIOUS
    <3>2. \A k \in 1 .. Len(bits) : bits[k] \in {0, 1}
      BY ElementOfSeq
    <3> QED
      BY <3>1, <3>2
  <2> QED
    BY <2>1 DEF EightBits
<1>2. DataByte(bits) = Weighed(b)
  BY DEF DataByte, ByteOf, Weighed
<1>3. ASSUME NEW byte \in Byte, \A r \in 1 .. 8 : bits[r] = BitOf(byte, 8 - r)
      PROVE  DataByte(bits) = byte
  <2>1. ASSUME NEW i \in 0 .. 7 PROVE b[i] = BitOf(byte, i)
    <3>1. 8 - i \in 1 .. 8 /\ 8 - (8 - i) = i
      OBVIOUS
    <3>2. bits[8 - i] = BitOf(byte, 8 - (8 - i))
      BY <1>3, <3>1
    <3> QED
      BY <3>1, <3>2
  <2>2. b = [i \in 0 .. 7 |-> BitOf(byte, i)]
    BY <2>1
  <2> QED
    BY <1>2, <2>2, ByteIsItsBits
<1> HIDE DEF b
<1> QED
  BY <1>1, <1>2, <1>3, WeighedBits

\* The bytes of some samples, and the bits that are left.
LEMMA DataBytesTyped ==
    ASSUME NEW bits \in Seq({0, 1})
    PROVE  /\ DataBytes(bits) \in Seq(Byte)
           /\ Len(DataBytes(bits)) = Len(bits) \div 8
           /\ RestOf(bits) \in Seq({0, 1}) /\ Len(RestOf(bits)) = Len(bits) % 8
           /\ Len(bits) \div 8 \in Nat /\ Len(bits) % 8 \in 0 .. 7
<1>1. Len(bits) \in Nat /\ Len(bits) \div 8 \in Nat /\ Len(bits) % 8 \in 0 .. 7
      /\ 8 * (Len(bits) \div 8) <= Len(bits) /\ Len(bits) % 8 <= Len(bits)
  <2>1. Len(bits) \in Nat
    OBVIOUS
  <2> QED
    BY <2>1
<1> DEFINE n == Len(bits) \div 8
           d == [k \in 1 .. n |-> DataByte(SubSeq(bits, 8 * k - 7, 8 * k))]
<1>2. ASSUME NEW k \in 1 .. n PROVE DataByte(SubSeq(bits, 8 * k - 7, 8 * k)) \in Byte
  <2>1. 8 * k - 7 \in 1 .. Len(bits) /\ 8 * k \in 1 .. Len(bits)
    BY <1>1
  <2>2. /\ SubSeq(bits, 8 * k - 7, 8 * k) \in Seq({0, 1})
        /\ Len(SubSeq(bits, 8 * k - 7, 8 * k)) = 8
    BY <2>1
  <2> QED
    BY <2>2, DataByteOf
<1>3. DataBytes(bits) = d
  BY DEF DataBytes
<1>4. d \in [1 .. n -> Byte] /\ n \in Nat
  BY <1>1, <1>2
<1>5. RestOf(bits) \in Seq({0, 1}) /\ Len(RestOf(bits)) = Len(bits) % 8
  BY <1>1 DEF RestOf
<1> HIDE DEF n, d
<1>6. d \in Seq(Byte) /\ Len(d) = n
  BY <1>4
<1> QED
  BY <1>1, <1>3, <1>5, <1>6 DEF n

\* Where the bits of byte j are, among k bits.
LEMMA BytesFilled ==
    ASSUME NEW k \in Nat, NEW j \in Nat \ {0}, 8 * j <= k
    PROVE  8 * j - 7 \in 1 .. k /\ 8 * j \in 1 .. k /\ j \in 1 .. k \div 8
<1> DEFINE q == k \div 8
<1>1. q \in Nat /\ k < 8 * q + 8
  OBVIOUS
<1> HIDE DEF q
<1>2. j \in 1 .. q
  BY <1>1
<1> QED
  BY <1>2 DEF q

\* Eight samples that are the bits of a byte are decoded as that byte.
LEMMA DecodedByte ==
    ASSUME NEW s \in Seq({0, 1}), NEW byte \in Byte, NEW j \in Nat \ {0}, 8 * j <= Len(s),
           \A r \in 1 .. 8 : s[8 * (j - 1) + r] = BitOf(byte, 8 - r)
    PROVE  DataBytes(s)[j] = byte
<1> DEFINE t == SubSeq(s, 8 * j - 7, 8 * j)
<1>1. /\ Len(s) \in Nat /\ 8 * j - 7 \in 1 .. Len(s) /\ 8 * j \in 1 .. Len(s)
      /\ j \in 1 .. Len(s) \div 8
  <2>1. Len(s) \in Nat
    OBVIOUS
  <2> QED
    BY <2>1, BytesFilled
<1>2. t \in Seq({0, 1}) /\ Len(t) = 8
  BY <1>1
<1>3. ASSUME NEW r \in 1 .. 8 PROVE t[r] = BitOf(byte, 8 - r)
  <2>1. t[r] = s[(8 * j - 7) + r - 1]
    <3>1. r \in 1 .. (8 * j) - (8 * j - 7) + 1
      OBVIOUS
    <3> QED
      BY <1>1, <3>1, SubSeqProperties
  <2>2. (8 * j - 7) + r - 1 = 8 * (j - 1) + r
    OBVIOUS
  <2> QED
    BY <2>1, <2>2
<1>4. DataBytes(s)[j] = DataByte(t)
  BY <1>1 DEF DataBytes
<1> HIDE DEF t
<1> QED
  BY <1>2, <1>3, <1>4, DataByteOf

\* Decoding undoes encoding: the bytes received are those sent, and no bit is
\* left, if none was there before.
THEOREM DecodedIsEncoded ==
    ASSUME NEW bytes \in Seq(Byte)
    PROVE  /\ DataBytes(Samples(Levels(bytes))) = bytes
           /\ RestOf(Samples(Levels(bytes))) = <<>>
<1> DEFINE s == Samples(Levels(bytes))
<1>1. s \in Seq({0, 1}) /\ Len(s) = 8 * Len(bytes) /\ Len(bytes) \in Nat
  BY SamplesAre
<1>2. \A j \in 1 .. Len(bytes), r \in 1 .. 8 : s[8 * (j - 1) + r] = BitOf(bytes[j], 8 - r)
  BY SamplesAre
<1> HIDE DEF s
<1>3. /\ Len(s) \div 8 = Len(bytes) /\ Len(s) % 8 = 0
  BY <1>1
<1>4. /\ DataBytes(s) \in Seq(Byte) /\ Len(DataBytes(s)) = Len(bytes)
      /\ RestOf(s) \in Seq({0, 1}) /\ Len(RestOf(s)) = 0
  BY <1>1, <1>3, DataBytesTyped
<1>5. ASSUME NEW j \in 1 .. Len(bytes) PROVE DataBytes(s)[j] = bytes[j]
  <2>1. j \in Nat \ {0} /\ 8 * j <= Len(s) /\ bytes[j] \in Byte
    BY <1>1
  <2>2. \A r \in 1 .. 8 : s[8 * (j - 1) + r] = BitOf(bytes[j], 8 - r)
    BY <1>2
  <2> QED
    BY <1>1, <2>1, <2>2, DecodedByte
<1>6. DataBytes(s) = bytes /\ RestOf(s) = <<>>
  BY <1>4, <1>5
<1> QED
  BY <1>6 DEF s

\* Of a frame that is cut short whole bytes arrive as they were sent, and not all.
LEMMA CutIsBeginning ==
    ASSUME NEW bytes \in Seq(Byte), NEW n \in Nat, n < 8 * Len(bytes)
    PROVE  LET new == SubSeq(Samples(Levels(bytes)), 1, n) IN
           /\ new \in Seq({0, 1})
           /\ Len(DataBytes(new)) \in Nat /\ Len(DataBytes(new)) < Len(bytes)
           /\ \A j \in 1 .. Len(DataBytes(new)) : DataBytes(new)[j] = bytes[j]
<1> DEFINE s == Samples(Levels(bytes))
           new == SubSeq(s, 1, n)
<1>1. s \in Seq({0, 1}) /\ Len(s) = 8 * Len(bytes) /\ Len(bytes) \in Nat
  BY SamplesAre
<1>2. \A j \in 1 .. Len(bytes), r \in 1 .. 8 : s[8 * (j - 1) + r] = BitOf(bytes[j], 8 - r)
  BY SamplesAre
<1> HIDE DEF s
<1>3. new \in Seq({0, 1}) /\ Len(new) = n /\ \A k \in 1 .. n : new[k] = s[k]
  <2>1. \A k \in 1 .. n : k \in 1 .. Len(s)
    BY <1>1
  <2>2. \A k \in 1 .. n : s[k] \in {0, 1}
    BY <1>1, <2>1, ElementOfSeq
  <2> QED
    BY <1>1, <2>1, <2>2
<1> HIDE DEF new
<1>4. Len(DataBytes(new)) = n \div 8
  BY <1>3, DataBytesTyped
<1> DEFINE q == n \div 8
<1>5. q \in Nat /\ q < Len(bytes) /\ 8 * q <= n
  BY <1>1
<1> HIDE DEF q
<1>6. ASSUME NEW j \in 1 .. q PROVE DataBytes(new)[j] = bytes[j]
  <2>1. j \in 1 .. Len(bytes) /\ j \in Nat \ {0} /\ 8 * j <= Len(new)
    BY <1>1, <1>3, <1>5
  <2>2. ASSUME NEW r \in 1 .. 8 PROVE new[8 * (j - 1) + r] = BitOf(bytes[j], 8 - r)
    <3>1. 8 * (j - 1) + r \in 1 .. n
      BY <1>3, <2>1
    <3> QED
      BY <1>2, <1>3, <2>1, <3>1
  <2>3. bytes[j] \in Byte
    BY <2>1, ElementOfSeq
  <2> QED
    BY <1>3, <2>1, <2>2, <2>3, DecodedByte
<1>7. /\ Len(DataBytes(new)) \in Nat /\ Len(DataBytes(new)) < Len(bytes)
      /\ \A j \in 1 .. Len(DataBytes(new)) : DataBytes(new)[j] = bytes[j]
  BY <1>4, <1>5, <1>6 DEF q
<1> QED
  BY <1>3, <1>7 DEF new, s
-----------------------------------------------------------------------------
(* The checksum is the remainder of a division of polynomials. *)

\* It[n][x] is x after n shifts.
IsShifts(It, N) ==
    /\ It \in [0 .. N -> [Byte -> Byte]]
    /\ \A x \in Byte : It[0][x] = x
    /\ \A n \in 1 .. N, x \in Byte : It[n][x] = Shifted(It[n - 1][x])

\* Any number of shifts.
LEMMA ShiftsExist ==
    ASSUME NEW N \in Nat
    PROVE  \E It : IsShifts(It, N)
<1> DEFINE V == [Byte -> Byte]
           F == [p \in Nat \X V |-> [x \in Byte |-> Shifted(p[2][x])]]
           I == [x \in Byte |-> x]
<1>1. F \in [Nat \X V -> V] /\ I \in V
  BY ShiftedBits
<1>2. \A n \in Nat, v \in V : F[<<n, v>>] = [x \in Byte |-> Shifted(v[x])]
  OBVIOUS
<1> HIDE DEF F, V, I
<1>3. PICK It \in [0 .. N -> V] :
          It[0] = I /\ \A n \in 1 .. N : It[n] = F[<<n, It[n - 1]>>]
  <2>1. IsStep(F, V)
    BY <1>1 DEF IsStep
  <2>2. \E g : IsWalk(g, F, V, I, N)
    BY <1>1, <2>1, StepByStep
  <2> QED
    BY <2>2 DEF IsWalk
<1>4. \A n \in 1 .. N, x \in Byte : It[n][x] = Shifted(It[n - 1][x])
  <2>1. ASSUME NEW n \in 1 .. N PROVE It[n] = [x \in Byte |-> Shifted(It[n - 1][x])]
    <3>1. n \in Nat /\ It[n - 1] \in V
      OBVIOUS
    <3> QED
      BY <1>2, <1>3, <3>1
  <2> QED
    BY <2>1
<1>5. \A x \in Byte : It[0][x] = x
  BY <1>3 DEF I
<1> QED
  BY <1>3, <1>4, <1>5 DEF IsShifts, V

\* A shift is linear.
LEMMA ShiftedLinear ==
    ASSUME NEW a \in Byte, NEW b \in Byte
    PROVE  Shifted(Xor(a, b)) = Xor(Shifted(a), Shifted(b))
<1> DEFINE c == Xor(a, b)
           sa == Shifted(a)
           sb == Shifted(b)
           sc == Shifted(c)
<1>1. \A x \in Byte : x \in Int
  BY DEF Byte
<1>2. c \in Byte /\ \A i \in 0 .. 7 : BitOf(c, i) = (BitOf(a, i) + BitOf(b, i)) % 2
  BY <1>1, XorBits
<1> HIDE DEF c
<1>3. sa \in Byte /\ sb \in Byte /\ sc \in Byte
  BY <1>2, ShiftedBits
<1>4. \A i \in 0 .. 7 : BitOf(a, i) \in {0, 1} /\ BitOf(b, i) \in {0, 1}
  BY <1>1, BitTyped
<1>5. /\ BitOf(sa, 0) = BitOf(a, 7) /\ BitOf(sa, 1) = (BitOf(a, 0) + BitOf(a, 7)) % 2
      /\ BitOf(sa, 2) = (BitOf(a, 1) + BitOf(a, 7)) % 2
      /\ \A i \in 3 .. 7 : BitOf(sa, i) = BitOf(a, i - 1)
  BY ShiftedBits
<1>6. /\ BitOf(sb, 0) = BitOf(b, 7) /\ BitOf(sb, 1) = (BitOf(b, 0) + BitOf(b, 7)) % 2
      /\ BitOf(sb, 2) = (BitOf(b, 1) + BitOf(b, 7)) % 2
      /\ \A i \in 3 .. 7 : BitOf(sb, i) = BitOf(b, i - 1)
  BY ShiftedBits
<1>7. /\ BitOf(sc, 0) = BitOf(c, 7) /\ BitOf(sc, 1) = (BitOf(c, 0) + BitOf(c, 7)) % 2
      /\ BitOf(sc, 2) = (BitOf(c, 1) + BitOf(c, 7)) % 2
      /\ \A i \in 3 .. 7 : BitOf(sc, i) = BitOf(c, i - 1)
  BY <1>2, ShiftedBits
<1> HIDE DEF sa, sb, sc
<1>8. /\ Xor(sa, sb) \in Byte
      /\ \A i \in 0 .. 7 : BitOf(Xor(sa, sb), i) = (BitOf(sa, i) + BitOf(sb, i)) % 2
  BY <1>1, <1>3, XorBits
<1>9. ASSUME NEW i \in 0 .. 7 PROVE BitOf(sc, i) = (BitOf(sa, i) + BitOf(sb, i)) % 2
  <2>1. CASE i = 0
    BY <1>2, <1>5, <1>6, <1>7, <2>1
  <2>2. CASE i = 1
    <3>1. /\ BitOf(a, 0) \in {0, 1} /\ BitOf(a, 7) \in {0, 1}
          /\ BitOf(b, 0) \in {0, 1} /\ BitOf(b, 7) \in {0, 1}
      BY <1>4
    <3>2. /\ BitOf(c, 0) = (BitOf(a, 0) + BitOf(b, 0)) % 2
          /\ BitOf(c, 7) = (BitOf(a, 7) + BitOf(b, 7)) % 2
      BY <1>2
    <3>3. BitOf(sc, 1) = (BitOf(sa, 1) + BitOf(sb, 1)) % 2
      BY <1>5, <1>6, <1>7, <3>1, <3>2
    <3> QED
      BY <2>2, <3>3
  <2>3. CASE i = 2
    <3>1. /\ BitOf(a, 1) \in {0, 1} /\ BitOf(a, 7) \in {0, 1}
          /\ BitOf(b, 1) \in {0, 1} /\ BitOf(b, 7) \in {0, 1}
      BY <1>4
    <3>2. /\ BitOf(c, 1) = (BitOf(a, 1) + BitOf(b, 1)) % 2
          /\ BitOf(c, 7) = (BitOf(a, 7) + BitOf(b, 7)) % 2
      BY <1>2
    <3>3. BitOf(sc, 2) = (BitOf(sa, 2) + BitOf(sb, 2)) % 2
      BY <1>5, <1>6, <1>7, <3>1, <3>2
    <3> QED
      BY <2>3, <3>3
  <2>4. CASE i \in 3 .. 7
    <3>1. i - 1 \in 0 .. 7
      BY <2>4
    <3> QED
      BY <1>2, <1>5, <1>6, <1>7, <2>4, <3>1
  <2> QED
    BY <2>1, <2>2, <2>3, <2>4
<1>10. sc = Xor(sa, sb)
  <2>1. \A i \in 0 .. 7 : BitOf(sc, i) = BitOf(Xor(sa, sb), i)
    BY <1>8, <1>9
  <2> QED
    BY <1>3, <1>8, <2>1, SameBits
<1> QED
  BY <1>10 DEF sa, sb, sc, c

\* So are any number of them.
LEMMA ShiftsLinear ==
    ASSUME NEW N \in Nat, NEW It, IsShifts(It, N), NEW j \in 0 .. N,
           NEW a \in Byte, NEW b \in Byte
    PROVE  It[j][Xor(a, b)] = Xor(It[j][a], It[j][b])
<1> DEFINE P == {n \in 0 .. N : It[n][Xor(a, b)] = Xor(It[n][a], It[n][b])}
<1>1. Xor(a, b) \in Byte
  <2>1. \A x \in Byte : x \in Int
    BY DEF Byte
  <2> QED
    BY <2>1, XorBits
<1>2. 0 \in P
  BY <1>1 DEF IsShifts
<1>3. ASSUME NEW n \in 1 .. N, n - 1 \in P PROVE n \in P
  <2>1. /\ It[n][Xor(a, b)] = Shifted(It[n - 1][Xor(a, b)])
        /\ It[n][a] = Shifted(It[n - 1][a]) /\ It[n][b] = Shifted(It[n - 1][b])
    BY <1>1 DEF IsShifts
  <2>2. It[n - 1][a] \in Byte /\ It[n - 1][b] \in Byte
    <3>1. It[n - 1] \in [Byte -> Byte]
      BY DEF IsShifts
    <3> QED
      BY <3>1
  <2>3. Shifted(Xor(It[n - 1][a], It[n - 1][b])) = Xor(It[n][a], It[n][b])
    BY <2>1, <2>2, ShiftedLinear
  <2> QED
    BY <1>3, <2>1, <2>3
<1>4. 0 .. N \subseteq P
  <2> HIDE DEF P
  <2> QED
    BY <1>2, <1>3, UpTo
<1> QED
  BY <1>4

\* The first shift of several is a shift too.
LEMMA ShiftFirst ==
    ASSUME NEW N \in Nat, NEW It, IsShifts(It, N), NEW j \in 1 .. N, NEW x \in Byte
    PROVE  It[j][x] = It[j - 1][Shifted(x)]
<1> DEFINE P == {n \in 0 .. N : n > 0 => It[n][x] = It[n - 1][Shifted(x)]}
<1>1. 0 \in P /\ Shifted(x) \in Byte
  BY ShiftedBits
<1>2. ASSUME NEW n \in 1 .. N, n - 1 \in P PROVE n \in P
  <2>1. It[n][x] = Shifted(It[n - 1][x])
    BY DEF IsShifts
  <2>2. CASE n = 1
    BY <1>1, <2>1, <2>2 DEF IsShifts
  <2>3. CASE n # 1
    <3>1. n - 1 \in 1 .. N /\ It[n - 1][x] = It[n - 1 - 1][Shifted(x)]
      BY <1>2, <2>3
    <3>2. It[n - 1][Shifted(x)] = Shifted(It[n - 1 - 1][Shifted(x)])
      BY <1>1, <3>1 DEF IsShifts
    <3> QED
      BY <2>1, <3>1, <3>2
  <2> QED
    BY <2>2, <2>3
<1>3. 0 .. N \subseteq P
  <2> HIDE DEF P
  <2> QED
    BY <1>1, <1>2, UpTo
<1> QED
  BY <1>3

\* A step of the walk is eight shifts.
LEMMA ShiftsTable ==
    ASSUME NEW N \in Nat, NEW It, IsShifts(It, N), NEW j \in Nat, j + 8 <= N,
           NEW x \in Byte
    PROVE  It[j + 8][x] = It[j][crc8_lookuptable[x]]
<1>1. PICK c \in [0 .. 8 -> Byte] :
          /\ c[0] = x /\ \A bit \in 1 .. 8 : c[bit] = Shifted(c[bit - 1])
          /\ compute_crc8_byte(x, CRC8_POLYNOMIAL) = c[8]
  BY EightShifts
<1>2. ASSUME NEW k \in 1 .. 8 PROVE It[j + k][c[8 - k]] = It[j + k - 1][c[8 - k + 1]]
  <2>1. /\ j + k \in 1 .. N /\ 8 - k \in 0 .. 8 /\ 8 - k + 1 \in 1 .. 8
        /\ 8 - k + 1 - 1 = 8 - k
    OBVIOUS
  <2>2. c[8 - k] \in Byte
    BY <2>1
  <2>3. c[8 - k + 1] = Shifted(c[8 - k])
    BY <1>1, <2>1
  <2> QED
    BY <2>1, <2>2, <2>3, ShiftFirst
<1> DEFINE P == {k \in 0 .. 8 : It[j + k][c[8 - k]] = It[j][c[8]]}
<1>3. 0 \in P
  OBVIOUS
<1>4. ASSUME NEW k \in 1 .. 8, k - 1 \in P PROVE k \in P
  <2>1. j + (k - 1) = j + k - 1 /\ 8 - (k - 1) = 8 - k + 1
    OBVIOUS
  <2>2. It[j + k - 1][c[8 - k + 1]] = It[j][c[8]]
    BY <1>4, <2>1
  <2> QED
    BY <1>2, <2>2
<1>5. 8 \in P
  <2>1. 0 .. 8 \subseteq P
    <3> HIDE DEF P
    <3>1. 8 \in Nat
      OBVIOUS
    <3> QED
      BY <1>3, <1>4, <3>1, UpTo
  <2> QED
    BY <2>1
<1>6. It[j + 8][c[0]] = It[j][c[8]]
  BY <1>5
<1>7. crc8_lookuptable[x] = c[8]
  BY <1>1 DEF crc8_lookuptable, compute_crc8_lookup_table
<1> QED
  BY <1>1, <1>6, <1>7

\* The powers are remainders, each from the one before.
LEMMA PowersAre ==
    /\ PowerMod[0] = {0}
    /\ \A n \in 1 .. 8 * PH_MSG_SIZE + 8 : PowerMod[n] = Times(PowerMod[n - 1])
    /\ \A n \in 0 .. 8 * PH_MSG_SIZE + 8 : PowerMod[n] \subseteq 0 .. 7
<1> DEFINE N == 8 * PH_MSG_SIZE + 8
           V == SUBSET (0 .. 7)
           F == [p \in Nat \X V |-> Times(p[2])]
           Z == {0}
<1>1. N \in Nat
  BY PhMsgSizeAssumption
<1>2. ASSUME NEW S \in V PROVE Times(S) \in V
  <2>1. ASSUME NEW e \in Times(S) PROVE e \in 0 .. 7
    <3>1. {x + 1 : x \in S} \subseteq 1 .. 8
      OBVIOUS
    <3>2. CASE 8 \in {x + 1 : x \in S}
      BY <2>1, <3>1, <3>2 DEF Times, SymmetricDifference
    <3>3. CASE 8 \notin {x + 1 : x \in S}
      BY <2>1, <3>1, <3>3 DEF Times
    <3> QED
      BY <3>2, <3>3
  <2> QED
    BY <2>1
<1>3. /\ IsStep(F, V) /\ Z \in V
      /\ \A n \in Nat, S \in V : F[<<n, S>>] = Times(S)
  <2>1. \A p \in Nat \X V : p[2] \in V /\ Times(p[2]) \in V
    <3>1. \A S \in V : Times(S) \in V
      BY <1>2
    <3> HIDE DEF V
    <3> QED
      BY <3>1
  <2>2. Z \in V
    OBVIOUS
  <2> HIDE DEF V
  <2>3. F \in [Nat \X V -> V]
    BY <2>1
  <2>4. \A n \in Nat, S \in V : F[<<n, S>>] = Times(S)
    OBVIOUS
  <2> QED
    BY <2>2, <2>3, <2>4 DEF IsStep
<1> DEFINE f[n \in 0 .. N] == IF n = 0 THEN Z ELSE Times(f[n - 1])
<1>4. PowerMod = f
  BY DEF PowerMod
<1> HIDE DEF N, V, F, f, Z
<1>5. PICK g : IsWalk(g, F, V, Z, N)
  BY <1>1, <1>3, StepByStep
<1>6. /\ g \in [0 .. N -> V] /\ g[0] = Z
      /\ \A n \in 1 .. N : g[n] = F[<<n, g[n - 1]>>]
  BY <1>5 DEF IsWalk
<1>7. g = [n \in 0 .. N |-> IF n = 0 THEN Z ELSE Times(g[n - 1])]
  <2>1. ASSUME NEW n \in 0 .. N PROVE g[n] = IF n = 0 THEN Z ELSE Times(g[n - 1])
    <3>1. CASE n = 0
      BY <1>6, <3>1
    <3>2. CASE n # 0
      <4>1. n \in 1 .. N /\ n \in Nat /\ g[n - 1] \in V
        BY <1>1, <1>6, <3>2
      <4>2. g[n] = F[<<n, g[n - 1]>>]
        BY <1>6, <4>1
      <4>3. F[<<n, g[n - 1]>>] = Times(g[n - 1])
        BY <1>3, <4>1
      <4> QED
        BY <3>2, <4>2, <4>3
    <3> QED
      BY <3>1, <3>2
  <2> QED
    BY <1>6, <2>1
<1>8. f = [n \in 0 .. N |-> IF n = 0 THEN Z ELSE Times(f[n - 1])]
  BY <1>7 DEF f
<1>9. f[0] = Z /\ \A n \in 1 .. N : f[n] = Times(f[n - 1])
  BY <1>1, <1>8
<1> DEFINE P == {n \in 0 .. N : f[n] \in V}
<1>10. 0 \in P /\ \A n \in 1 .. N : n - 1 \in P => n \in P
  BY <1>1, <1>2, <1>3, <1>9
<1>11. 0 .. N \subseteq P
  <2> HIDE DEF P
  <2> QED
    BY <1>1, <1>10, UpTo
<1>12. \A n \in 0 .. N : f[n] \subseteq 0 .. 7
  BY <1>11 DEF V
<1> QED
  BY <1>4, <1>9, <1>12 DEF N, Z

\* A byte with one bit.
Unit(b) == Weighed([i \in 0 .. 7 |-> IF i = b THEN 1 ELSE 0])

\* Unit(b) has bit b and no other.
LEMMA UnitBits ==
    ASSUME NEW b \in 0 .. 7
    PROVE  Unit(b) \in Byte /\ \A i \in 0 .. 7 : BitOf(Unit(b), i) = IF i = b THEN 1 ELSE 0
<1> DEFINE f == [i \in 0 .. 7 |-> IF i = b THEN 1 ELSE 0]
<1>1. f \in EightBits /\ \A i \in 0 .. 7 : f[i] = IF i = b THEN 1 ELSE 0
  BY DEF EightBits
<1> HIDE DEF f
<1>2. Weighed(f) \in Byte /\ \A i \in 0 .. 7 : BitOf(Weighed(f), i) = f[i]
  BY <1>1, WeighedBits
<1> QED
  BY <1>1, <1>2 DEF Unit, f

\* Multiplying by x is a shift.
LEMMA TimesIsShifted ==
    ASSUME NEW S \in SUBSET (0 .. 7), NEW s \in Byte,
           \A i \in 0 .. 7 : i \in S <=> BitOf(s, i) = 1
    PROVE  \A i \in 0 .. 7 : i \in Times(S) <=> BitOf(Shifted(s), i) = 1
<1>1. \A i \in 0 .. 7 : BitOf(s, i) \in {0, 1}
  <2>1. s \in Int
    BY DEF Byte
  <2> QED
    BY <2>1, BitTyped
<1> DEFINE t == Shifted(s)
           T == {e + 1 : e \in S}
<1>2. /\ BitOf(t, 0) = BitOf(s, 7) /\ BitOf(t, 1) = (BitOf(s, 0) + BitOf(s, 7)) % 2
      /\ BitOf(t, 2) = (BitOf(s, 1) + BitOf(s, 7)) % 2
      /\ \A i \in 3 .. 7 : BitOf(t, i) = BitOf(s, i - 1)
  BY ShiftedBits
<1> HIDE DEF t
<1>3. ASSUME NEW i \in 0 .. 8 PROVE i \in T <=> i - 1 \in S
  OBVIOUS
<1>4. /\ Times(S) = IF 8 \in T THEN SymmetricDifference(T \ {8}, {2, 1, 0}) ELSE T
  BY DEF Times
<1> HIDE DEF T
<1>5. /\ 8 \in T <=> 7 \in S
      /\ ~(0 \in T)
      /\ 1 \in T <=> 0 \in S
      /\ 2 \in T <=> 1 \in S
      /\ \A i \in 3 .. 7 : i \in T <=> i - 1 \in S
  BY <1>3
<1>6. CASE 7 \in S
  <2>1. BitOf(s, 7) = 1
    BY <1>6
  <2>2. \A i \in 0 .. 7 : i \in Times(S) <=> IF i \in {0, 1, 2} THEN i \notin T ELSE i \in T
    BY <1>4, <1>5, <1>6 DEF SymmetricDifference
  <2>3. (0 \in Times(S) <=> BitOf(t, 0) = 1)
    BY <1>2, <1>5, <2>1, <2>2
  <2>4. (1 \in Times(S) <=> BitOf(t, 1) = 1)
    <3>1. BitOf(s, 0) \in {0, 1} /\ (0 \in S <=> BitOf(s, 0) = 1)
      BY <1>1
    <3> QED
      BY <1>2, <1>5, <2>1, <2>2, <3>1
  <2>5. (2 \in Times(S) <=> BitOf(t, 2) = 1)
    <3>1. BitOf(s, 1) \in {0, 1} /\ (1 \in S <=> BitOf(s, 1) = 1)
      BY <1>1
    <3> QED
      BY <1>2, <1>5, <2>1, <2>2, <3>1
  <2>6. ASSUME NEW i \in 3 .. 7 PROVE i \in Times(S) <=> BitOf(t, i) = 1
    <3>1. i - 1 \in 0 .. 7 /\ i \in 0 .. 7 /\ i \notin {0, 1, 2}
      OBVIOUS
    <3>2. i \in Times(S) <=> i - 1 \in S
      BY <1>5, <2>2, <3>1
    <3>3. i - 1 \in S <=> BitOf(s, i - 1) = 1
      BY <3>1
    <3> QED
      BY <1>2, <3>2, <3>3
  <2>7. ASSUME NEW i \in 0 .. 7 PROVE i = 0 \/ i = 1 \/ i = 2 \/ i \in 3 .. 7
    OBVIOUS
  <2> QED
    BY <2>3, <2>4, <2>5, <2>6, <2>7 DEF t
<1>7. CASE 7 \notin S
  <2>1. BitOf(s, 7) = 0 /\ Times(S) = T
    BY <1>1, <1>4, <1>5, <1>7
  <2>2. (0 \in Times(S) <=> BitOf(t, 0) = 1)
    BY <1>2, <1>5, <2>1
  <2>3. (1 \in Times(S) <=> BitOf(t, 1) = 1)
    <3>1. BitOf(s, 0) \in {0, 1} /\ (0 \in S <=> BitOf(s, 0) = 1)
      BY <1>1
    <3> QED
      BY <1>2, <1>5, <2>1, <3>1
  <2>4. (2 \in Times(S) <=> BitOf(t, 2) = 1)
    <3>1. BitOf(s, 1) \in {0, 1} /\ (1 \in S <=> BitOf(s, 1) = 1)
      BY <1>1
    <3> QED
      BY <1>2, <1>5, <2>1, <3>1
  <2>5. ASSUME NEW i \in 3 .. 7 PROVE i \in Times(S) <=> BitOf(t, i) = 1
    <3>1. i - 1 \in 0 .. 7
      OBVIOUS
    <3>2. i - 1 \in S <=> BitOf(s, i - 1) = 1
      BY <3>1
    <3> QED
      BY <1>2, <1>5, <2>1, <3>2
  <2>6. ASSUME NEW i \in 0 .. 7 PROVE i = 0 \/ i = 1 \/ i = 2 \/ i \in 3 .. 7
    OBVIOUS
  <2> QED
    BY <2>2, <2>3, <2>4, <2>5, <2>6 DEF t
<1> QED
  BY <1>6, <1>7

\* The powers below 8 are what they are.
LEMMA SmallPowers ==
    ASSUME NEW b \in 0 .. 7
    PROVE  PowerMod[b] = {b}
<1> DEFINE P == {n \in 0 .. 7 : PowerMod[n] = {n}}
<1>1. 7 <= 8 * PH_MSG_SIZE + 8 /\ 8 * PH_MSG_SIZE + 8 \in Nat
  BY PhMsgSizeAssumption
<1>2. 0 \in P
  BY PowersAre
<1>3. ASSUME NEW n \in 1 .. 7, n - 1 \in P PROVE n \in P
  <2>1. n \in 1 .. 8 * PH_MSG_SIZE + 8
    BY <1>1
  <2>2. PowerMod[n] = Times({n - 1})
    BY <1>3, <2>1, PowersAre
  <2>3. {e + 1 : e \in {n - 1}} = {n} /\ 8 \notin {n}
    OBVIOUS
  <2>4. Times({n - 1}) = {n}
    BY <2>3 DEF Times
  <2> QED
    BY <2>2, <2>4
<1>4. 0 .. 7 \subseteq P
  <2> HIDE DEF P
  <2>1. 7 \in Nat
    OBVIOUS
  <2> QED
    BY <1>2, <1>3, <2>1, UpTo
<1> QED
  BY <1>4

\* Shifts of a byte with one bit are powers.
LEMMA ShiftsArePowers ==
    ASSUME NEW N \in Nat, N + 7 <= 8 * PH_MSG_SIZE + 8, NEW It, IsShifts(It, N),
           NEW j \in 0 .. N, NEW b \in 0 .. 7
    PROVE  \A i \in 0 .. 7 : i \in PowerMod[j + b] <=> BitOf(It[j][Unit(b)], i) = 1
<1> DEFINE P == {n \in 0 .. N : \A i \in 0 .. 7 :
                     i \in PowerMod[n + b] <=> BitOf(It[n][Unit(b)], i) = 1}
<1>1. 8 * PH_MSG_SIZE + 8 \in Nat
  BY PhMsgSizeAssumption
<1>2. 0 \in P
  <2>1. 0 + b = b /\ PowerMod[b] = {b}
    BY SmallPowers
  <2>2. It[0][Unit(b)] = Unit(b)
    BY UnitBits DEF IsShifts
  <2>3. \A i \in 0 .. 7 : BitOf(Unit(b), i) = IF i = b THEN 1 ELSE 0
    BY UnitBits
  <2> QED
    BY <2>1, <2>2, <2>3
<1>3. ASSUME NEW n \in 1 .. N, n - 1 \in P PROVE n \in P
  <2> DEFINE S == PowerMod[n - 1 + b]
             s == It[n - 1][Unit(b)]
  <2>1. /\ n + b \in 1 .. 8 * PH_MSG_SIZE + 8 /\ n + b - 1 = n - 1 + b
        /\ n - 1 + b \in 0 .. 8 * PH_MSG_SIZE + 8
    BY <1>1
  <2>2. PowerMod[n + b] = Times(S) /\ S \in SUBSET (0 .. 7)
    BY <2>1, PowersAre
  <2>3. It[n][Unit(b)] = Shifted(s) /\ s \in Byte
    BY UnitBits DEF IsShifts
  <2>4. \A i \in 0 .. 7 : i \in S <=> BitOf(s, i) = 1
    BY <1>3
  <2> HIDE DEF s, S
  <2>5. \A i \in 0 .. 7 : i \in Times(S) <=> BitOf(Shifted(s), i) = 1
    BY <2>2, <2>3, <2>4, TimesIsShifted
  <2> QED
    BY <2>2, <2>3, <2>5
<1>4. 0 .. N \subseteq P
  <2> HIDE DEF P
  <2> QED
    BY <1>2, <1>3, UpTo
<1> QED
  BY <1>4

\* The bits of a text that precede bit b of byte n, where a byte is read from its
\* least significant bit on, and those of them whose power has an x^i.
Preceding(text, n, b) ==
    {e \in (1 .. Len(text)) \X (0 .. 7) :
        BitOf(text[e[1]], e[2]) = 1 /\ (e[1] < n \/ (e[1] = n /\ e[2] < b))}

Hits(text, n, b, i) ==
    {e \in Preceding(text, n, b) : i \in PowerMod[8 * (Len(text) - e[1]) + e[2] + 8]}

\* There are finitely many of them.
LEMMA HitsFinite ==
    ASSUME NEW text \in Seq(Byte), NEW n, NEW b, NEW i
    PROVE  IsFiniteSet(Hits(text, n, b, i)) /\ Cardinality(Hits(text, n, b, i)) \in Nat
<1> DEFINE L == 1 .. Len(text)
           B == 0 .. 7
<1>1. IsFiniteSet(L) /\ IsFiniteSet(B)
  <2>1. Len(text) \in Int /\ 1 \in Int /\ 0 \in Int /\ 7 \in Int
    OBVIOUS
  <2> QED
    BY <2>1, FS_Interval
<1>2. Hits(text, n, b, i) \in SUBSET (L \X B)
  BY DEF Hits, Preceding
<1> HIDE DEF L, B
<1>3. IsFiniteSet(L \X B)
  BY <1>1, FS_Product
<1>4. IsFiniteSet(Hits(text, n, b, i))
  BY <1>2, <1>3, FS_Subset
<1> QED
  BY <1>4, FS_CardinalityType

\* One more bit.
LEMMA OneMore ==
    ASSUME NEW text \in Seq(Byte), NEW n \in 1 .. Len(text), NEW b \in 0 .. 7, NEW i
    PROVE  Cardinality(Hits(text, n, b + 1, i)) =
               IF BitOf(text[n], b) = 1 /\ i \in PowerMod[8 * (Len(text) - n) + b + 8]
               THEN Cardinality(Hits(text, n, b, i)) + 1
               ELSE Cardinality(Hits(text, n, b, i))
<1> DEFINE H == Hits(text, n, b, i)
           e0 == <<n, b>>
           D == (1 .. Len(text)) \X (0 .. 7)
           Is(e) == BitOf(text[e[1]], e[2]) = 1
           In(e) == i \in PowerMod[8 * (Len(text) - e[1]) + e[2] + 8]
<1>1. H = {e \in D : Is(e) /\ In(e) /\ (e[1] < n \/ (e[1] = n /\ e[2] < b))}
  BY DEF Hits, Preceding
<1>2. Hits(text, n, b + 1, i)
          = {e \in D : Is(e) /\ In(e) /\ (e[1] < n \/ (e[1] = n /\ e[2] < b + 1))}
  BY DEF Hits, Preceding
<1>3. e0 \in D /\ e0[1] = n /\ e0[2] = b
  OBVIOUS
<1>4. Is(e0) /\ In(e0) <=>
          BitOf(text[n], b) = 1 /\ i \in PowerMod[8 * (Len(text) - n) + b + 8]
  BY <1>3
<1>5. \A e \in D : e[1] \in Int /\ e[2] \in Int /\ (e[1] = n /\ e[2] = b => e = e0)
  OBVIOUS
<1> HIDE DEF D, Is, In, e0, H
<1>6. \A e \in D : (e[1] < n \/ (e[1] = n /\ e[2] < b + 1))
                       <=> (e[1] < n \/ (e[1] = n /\ e[2] < b)) \/ e = e0
  BY <1>3, <1>5
<1>7. ~(e0[1] < n \/ (e0[1] = n /\ e0[2] < b))
  BY <1>3
<1>8. IsFiniteSet(H)
  BY HitsFinite DEF H
<1>9. CASE Is(e0) /\ In(e0)
  <2>1. Hits(text, n, b + 1, i) = H \cup {e0} /\ e0 \notin H
    BY <1>1, <1>2, <1>3, <1>6, <1>7, <1>9
  <2>2. Cardinality(H \cup {e0}) = Cardinality(H) + 1
    BY <1>8, <2>1, FS_AddElement
  <2> QED
    BY <1>4, <1>9, <2>1, <2>2 DEF H
<1>10. CASE ~(Is(e0) /\ In(e0))
  <2>1. Hits(text, n, b + 1, i) = H
    BY <1>1, <1>2, <1>6, <1>10
  <2> QED
    BY <1>4, <1>10, <2>1 DEF H
<1> QED
  BY <1>9, <1>10

\* The bits of a byte below b.
Low(byte, b) == Weighed([i \in 0 .. 7 |-> IF i < b THEN BitOf(byte, i) ELSE 0])

\* Low keeps the bits below b and clears the others.
LEMMA LowBits ==
    ASSUME NEW byte \in Byte, NEW b \in 0 .. 8
    PROVE  /\ Low(byte, b) \in Byte
           /\ \A i \in 0 .. 7 : BitOf(Low(byte, b), i) = IF i < b THEN BitOf(byte, i) ELSE 0
           /\ \A i \in 0 .. 7 : BitOf(byte, i) \in {0, 1}
<1> DEFINE f == [i \in 0 .. 7 |-> IF i < b THEN BitOf(byte, i) ELSE 0]
<1>1. \A i \in 0 .. 7 : BitOf(byte, i) \in {0, 1}
  <2>1. byte \in Int
    BY DEF Byte
  <2> QED
    BY <2>1, BitTyped
<1>2. f \in EightBits /\ \A i \in 0 .. 7 : f[i] = IF i < b THEN BitOf(byte, i) ELSE 0
  BY <1>1 DEF EightBits
<1> HIDE DEF f
<1>3. Weighed(f) \in Byte /\ \A i \in 0 .. 7 : BitOf(Weighed(f), i) = f[i]
  BY <1>2, WeighedBits
<1> QED
  BY <1>1, <1>2, <1>3 DEF Low, f

\* A byte is built up from nothing, bit by bit.
LEMMA LowSteps ==
    ASSUME NEW byte \in Byte, NEW c \in Byte
    PROVE  /\ Xor(c, Low(byte, 0)) = c
           /\ Xor(c, Low(byte, 8)) = Xor(c, byte)
           /\ \A b \in 0 .. 7 :
                  Xor(c, Low(byte, b + 1)) = IF BitOf(byte, b) = 1
                                             THEN Xor(Xor(c, Low(byte, b)), Unit(b))
                                             ELSE Xor(c, Low(byte, b))
<1>1. \A x \in Byte : x \in Int
  BY DEF Byte
<1>2. \A x \in Byte, y \in Byte :
          /\ Xor(x, y) \in Byte
          /\ \A i \in 0 .. 7 : BitOf(Xor(x, y), i) = (BitOf(x, i) + BitOf(y, i)) % 2
  BY <1>1, XorBits
<1>3. \A x \in Byte, i \in 0 .. 7 : BitOf(x, i) \in {0, 1}
  BY <1>1, BitTyped
<1>4. Xor(c, Low(byte, 0)) = c
  <2> DEFINE z == Low(byte, 0)
  <2>1. z \in Byte /\ \A i \in 0 .. 7 : BitOf(z, i) = 0
    BY LowBits
  <2> HIDE DEF z
  <2>2. \A i \in 0 .. 7 : BitOf(Xor(c, z), i) = BitOf(c, i)
    BY <1>2, <1>3, <2>1
  <2>3. Xor(c, z) = c
    BY <1>2, <2>1, <2>2, SameBits
  <2> QED
    BY <2>3 DEF z
<1>5. Low(byte, 8) = byte
  <2> DEFINE z == Low(byte, 8)
  <2>1. z \in Byte /\ \A i \in 0 .. 7 : BitOf(z, i) = BitOf(byte, i)
    BY LowBits
  <2> HIDE DEF z
  <2>2. z = byte
    BY <2>1, SameBits
  <2> QED
    BY <2>2 DEF z
<1>6. ASSUME NEW b \in 0 .. 7
      PROVE  Xor(c, Low(byte, b + 1)) = IF BitOf(byte, b) = 1
                                        THEN Xor(Xor(c, Low(byte, b)), Unit(b))
                                        ELSE Xor(c, Low(byte, b))
  <2> DEFINE x == Low(byte, b)
             y == Low(byte, b + 1)
             u == Unit(b)
  <2>1. b \in 0 .. 8 /\ b + 1 \in 0 .. 8
    OBVIOUS
  <2>2. x \in Byte /\ \A i \in 0 .. 7 : BitOf(x, i) = IF i < b THEN BitOf(byte, i) ELSE 0
    BY <2>1, LowBits
  <2>3. y \in Byte /\ \A i \in 0 .. 7 : BitOf(y, i) = IF i < b + 1 THEN BitOf(byte, i) ELSE 0
    BY <2>1, LowBits
  <2>4. u \in Byte /\ \A i \in 0 .. 7 : BitOf(u, i) = IF i = b THEN 1 ELSE 0
    BY UnitBits
  <2> HIDE DEF x, y, u
  <2>5. CASE BitOf(byte, b) = 1
    <3> DEFINE cy == Xor(c, y)
               cx == Xor(c, x)
               cxu == Xor(cx, u)
    <3>1. cy \in Byte /\ cx \in Byte
      BY <1>2, <2>2, <2>3
    <3>2. /\ \A i \in 0 .. 7 : BitOf(cy, i) = (BitOf(c, i) + BitOf(y, i)) % 2
          /\ \A i \in 0 .. 7 : BitOf(cx, i) = (BitOf(c, i) + BitOf(x, i)) % 2
      BY <1>2, <2>2, <2>3
    <3> HIDE DEF cy, cx
    <3>3. cxu \in Byte /\ \A i \in 0 .. 7 : BitOf(cxu, i) = (BitOf(cx, i) + BitOf(u, i)) % 2
      BY <1>2, <2>4, <3>1
    <3> HIDE DEF cxu
    <3>4. ASSUME NEW i \in 0 .. 7 PROVE BitOf(cy, i) = BitOf(cxu, i)
      <4>1. BitOf(c, i) \in {0, 1} /\ BitOf(byte, i) \in {0, 1}
        BY <1>3
      <4>2. CASE i = b
        <5>1. BitOf(y, i) = 1 /\ BitOf(x, i) = 0 /\ BitOf(u, i) = 1
          BY <2>2, <2>3, <2>4, <2>5, <4>2
        <5> QED
          BY <3>2, <3>3, <4>1, <5>1
      <4>3. CASE i # b
        <5>1. BitOf(y, i) = BitOf(x, i) /\ BitOf(u, i) = 0 /\ BitOf(x, i) \in {0, 1}
          BY <2>2, <2>3, <2>4, <4>1, <4>3
        <5>2. BitOf(cy, i) = BitOf(cx, i) /\ BitOf(cx, i) \in {0, 1}
          BY <1>3, <3>1, <3>2, <5>1
        <5> QED
          BY <3>3, <5>1, <5>2
      <4> QED
        BY <4>2, <4>3
    <3>5. cy = cxu
      BY <3>1, <3>3, <3>4, SameBits
    <3> QED
      BY <2>5, <3>5 DEF cy, cxu, cx, x, y, u
  <2>6. CASE BitOf(byte, b) # 1
    <3>1. ASSUME NEW i \in 0 .. 7 PROVE BitOf(y, i) = BitOf(x, i)
      <4>1. BitOf(byte, b) = 0
        BY <1>3, <2>6
      <4> QED
        BY <2>2, <2>3, <4>1
    <3>2. y = x
      BY <2>2, <2>3, <3>1, SameBits
    <3> QED
      BY <2>6, <3>2 DEF x, y
  <2> QED
    BY <2>5, <2>6
<1> QED
  BY <1>4, <1>5, <1>6

\* The eight bits of a byte, taken into the register together, are the powers
\* that they stand for.
LEMMA OneByte ==
    ASSUME NEW text \in Seq(Byte), Len(text) <= PH_MSG_SIZE,
           NEW It, IsShifts(It, 8 * Len(text)), NEW n \in 1 .. Len(text), NEW c \in Byte,
           NEW k \in Nat, k = 8 * (Len(text) - n) + 8,
           \A i \in 0 .. 7 : Cardinality(Hits(text, n, 0, i)) % 2 = BitOf(It[k][c], i)
    PROVE  \A i \in 0 .. 7 :
               Cardinality(Hits(text, n, 8, i)) % 2 = BitOf(It[k][Xor(c, text[n])], i)
<1> DEFINE N == 8 * Len(text)
           X(b) == Xor(c, Low(text[n], b))
           Count(b, i) == Cardinality(Hits(text, n, b, i))
           Bits(b) == \A i \in 0 .. 7 : Count(b, i) % 2 = BitOf(It[k][X(b)], i)
           P == {b \in 0 .. 8 : Bits(b)}
<1>1. /\ N \in Nat /\ k \in 0 .. N /\ N + 7 <= 8 * PH_MSG_SIZE + 8 /\ text[n] \in Byte
      /\ IsShifts(It, N)
  <2>1. Len(text) \in Nat /\ PH_MSG_SIZE \in Nat
    BY PhMsgSizeAssumption
  <2>2. text[n] \in Byte
    BY ElementOfSeq
  <2> QED
    BY <2>1, <2>2
<1>2. \A x \in Byte : x \in Int
  BY DEF Byte
<1>3. ASSUME NEW b \in 0 .. 8 PROVE X(b) \in Byte
  <2>1. Low(text[n], b) \in Byte
    BY <1>1, LowBits
  <2> QED
    BY <1>2, <2>1, XorBits
<1>4. ASSUME NEW x \in Byte PROVE It[k][x] \in Byte
  BY <1>1 DEF IsShifts
<1>5. X(0) = c /\ X(8) = Xor(c, text[n])
  BY <1>1, LowSteps
<1>6. ASSUME NEW b \in 0 .. 7
      PROVE  X(b + 1) = IF BitOf(text[n], b) = 1 THEN Xor(X(b), Unit(b)) ELSE X(b)
  BY <1>1, LowSteps
<1>7. ASSUME NEW b \in 0 .. 7, NEW i \in 0 .. 7
      PROVE  /\ Count(b, i) \in Nat
             /\ Count(b + 1, i) = IF BitOf(text[n], b) = 1 /\ i \in PowerMod[k + b]
                                  THEN Count(b, i) + 1 ELSE Count(b, i)
  <2>1. 8 * (Len(text) - n) + b + 8 = k + b
    OBVIOUS
  <2> QED
    BY <2>1, HitsFinite, OneMore
<1> HIDE DEF N, X, Count
<1>8. ASSUME NEW b \in 0 .. 7, Bits(b) PROVE Bits(b + 1)
  <2>1. b \in 0 .. 8 /\ X(b) \in Byte /\ It[k][X(b)] \in Byte
    BY <1>3, <1>4
  <2>2. CASE BitOf(text[n], b) # 1
    <3>1. X(b + 1) = X(b)
      BY <1>6, <2>2
    <3>2. \A i \in 0 .. 7 : Count(b + 1, i) = Count(b, i)
      BY <1>7, <2>2
    <3> QED
      BY <1>8, <3>1, <3>2
  <2>3. CASE BitOf(text[n], b) = 1
    <3> DEFINE v == It[k][X(b)]
               u == It[k][Unit(b)]
    <3>1. Unit(b) \in Byte
      BY UnitBits
    <3>2. v \in Byte /\ u \in Byte
      BY <1>4, <2>1, <3>1
    <3>3. It[k][X(b + 1)] = Xor(v, u)
      <4>1. X(b + 1) = Xor(X(b), Unit(b))
        BY <1>6, <2>3
      <4>2. It[k][Xor(X(b), Unit(b))] = Xor(v, u)
        BY <1>1, <2>1, <3>1, ShiftsLinear
      <4> QED
        BY <4>1, <4>2
    <3>4. \A i \in 0 .. 7 : i \in PowerMod[k + b] <=> BitOf(u, i) = 1
      BY <1>1, ShiftsArePowers
    <3>5. \A i \in 0 .. 7 : Count(b, i) % 2 = BitOf(v, i)
      BY <1>8
    <3> HIDE DEF v, u
    <3>6. /\ \A i \in 0 .. 7 : BitOf(Xor(v, u), i) = (BitOf(v, i) + BitOf(u, i)) % 2
          /\ \A i \in 0 .. 7 : BitOf(v, i) \in {0, 1} /\ BitOf(u, i) \in {0, 1}
      BY <1>2, <3>2, XorBits, BitTyped
    <3>7. ASSUME NEW i \in 0 .. 7
          PROVE  Count(b + 1, i) % 2 = (BitOf(v, i) + BitOf(u, i)) % 2
      <4>1. Count(b, i) \in Nat /\ Count(b, i) % 2 = BitOf(v, i)
        BY <1>7, <3>5
      <4>2. CASE BitOf(u, i) = 1
        <5>1. Count(b + 1, i) = Count(b, i) + 1
          BY <1>7, <2>3, <3>4, <4>2
        <5>2. (Count(b, i) + 1) % 2 = ((Count(b, i) % 2) + 1) % 2
          BY <4>1
        <5> QED
          BY <4>1, <4>2, <5>1, <5>2
      <4>3. CASE BitOf(u, i) = 0
        <5>1. Count(b + 1, i) = Count(b, i)
          <6>1. i \notin PowerMod[k + b]
            BY <3>4, <4>3
          <6> QED
            BY <1>7, <6>1
        <5>2. BitOf(v, i) = (BitOf(v, i) + 0) % 2
          BY <3>6
        <5> QED
          BY <4>1, <4>3, <5>1, <5>2
      <4> QED
        BY <3>6, <4>2, <4>3
    <3> QED
      BY <3>3, <3>6, <3>7
  <2> QED
    BY <2>2, <2>3
<1>9. Bits(0)
  BY <1>5 DEF Count
<1> HIDE DEF Bits
<1>10. 8 \in P
  <2>1. 0 \in P
    BY <1>9
  <2>2. ASSUME NEW b \in 1 .. 8, b - 1 \in P PROVE b \in P
    <3>1. b - 1 \in 0 .. 7 /\ b - 1 + 1 = b /\ Bits(b - 1)
      BY <2>2
    <3>2. Bits(b - 1 + 1)
      BY <1>8, <3>1
    <3> QED
      BY <3>1, <3>2
  <2>3. 8 \in Nat
    OBVIOUS
  <2>4. 0 .. 8 \subseteq P
    <3> HIDE DEF P
    <3> QED
      BY <2>1, <2>2, <2>3, UpTo
  <2> QED
    BY <2>4
<1>11. Bits(8)
  BY <1>10
<1> QED
  BY <1>5, <1>11 DEF Bits, Count

\* The checksum of any message is the remainder of its polynomial divided by
\* x^8 + x^2 + x + 1: ph_compute_crc8, with the table that ph_init fills by shifts
\* of a register of eight bits, is the CRC-8 that the code names.
THEOREM CrcIsRemainder ==
    ASSUME NEW text \in Seq(Byte), Len(text) <= PH_MSG_SIZE, NEW msg,
           \A i \in 0 .. Len(text) - 1 : msg[i] = text[i + 1]
    PROVE  ph_compute_crc8(msg, Len(text)) = Remainder(text)
<1> DEFINE L == Len(text)
<1>1. L \in Nat /\ 8 * L \in Nat /\ 0 \in Byte
  BY DEF Byte
<1>2. \A i \in 0 .. L - 1 : msg[i] \in Byte
  <2>1. ASSUME NEW i \in 0 .. L - 1 PROVE msg[i] \in Byte
    <3>1. i + 1 \in 1 .. Len(text)
      BY <1>1
    <3> QED
      BY <3>1, ElementOfSeq
  <2> QED
    BY <2>1
<1>3. PICK It : IsShifts(It, 8 * L)
  BY <1>1, ShiftsExist
<1>4. PICK crc \in [0 .. L -> Byte] :
          /\ crc[0] = 0
          /\ \A n \in 1 .. L : crc[n] = crc8_lookuptable[Xor(crc[n - 1], msg[n - 1])]
          /\ ph_compute_crc8(msg, L) = crc[L]
  BY <1>1, <1>2, CrcWalk
<1>5. \A x \in Byte : x \in Int
  BY DEF Byte
<1> DEFINE Count(n, i) == Cardinality(Hits(text, n + 1, 0, i))
           Bits(n) == \A i \in 0 .. 7 : Count(n, i) % 2 = BitOf(It[8 * (L - n)][crc[n]], i)
           P == {n \in 0 .. L : Bits(n)}
<1>6. Bits(0)
  <2> DEFINE z == It[8 * L][0]
  <2>1. z \in Byte
    BY <1>1, <1>3 DEF IsShifts
  <2>2. Xor(0, 0) = 0
    <3>1. \A i \in 0 .. 7 : BitOf(0, i) \in {0, 1}
      BY BitTyped
    <3>2. /\ Xor(0, 0) \in Byte
          /\ \A i \in 0 .. 7 : BitOf(Xor(0, 0), i) = (BitOf(0, i) + BitOf(0, i)) % 2
      BY XorBits
    <3>3. \A i \in 0 .. 7 : BitOf(0, i) = 0
      <4> DEFINE none == [i \in 0 .. 7 |-> 0]
      <4>1. Weighed(none) = 0 /\ none \in EightBits
        BY DEF Weighed, EightBits
      <4>2. \A i \in 0 .. 7 : BitOf(Weighed(none), i) = none[i]
        BY <4>1, WeighedBits
      <4> QED
        BY <4>1, <4>2
    <3>4. \A i \in 0 .. 7 : BitOf(Xor(0, 0), i) = BitOf(0, i)
      BY <3>2, <3>3
    <3> QED
      BY <1>1, <3>2, <3>4, SameBits
  <2>3. Xor(z, z) = z
    <3>1. 8 * L \in 0 .. 8 * L
      BY <1>1
    <3> QED
      BY <1>1, <1>3, <2>2, <3>1, ShiftsLinear
  <2> HIDE DEF z
  <2>4. \A i \in 0 .. 7 : BitOf(z, i) = 0
    <3>1. \A i \in 0 .. 7 : BitOf(z, i) \in {0, 1}
      BY <1>5, <2>1, BitTyped
    <3>2. \A i \in 0 .. 7 : BitOf(Xor(z, z), i) = (BitOf(z, i) + BitOf(z, i)) % 2
      BY <1>5, <2>1, XorBits
    <3> QED
      BY <2>3, <3>1, <3>2
  <2>5. ASSUME NEW i \in 0 .. 7 PROVE Count(0, i) = 0
    <3>1. Hits(text, 0 + 1, 0, i) = {}
      BY DEF Hits, Preceding
    <3> QED
      BY <3>1, FS_EmptySet
  <2>6. It[8 * (L - 0)][crc[0]] = z
    BY <1>1, <1>4 DEF z
  <2> HIDE DEF Count, L
  <2> QED
    BY <2>4, <2>5, <2>6
<1>7. ASSUME NEW n \in 1 .. L, Bits(n - 1) PROVE Bits(n)
  <2> DEFINE c == crc[n - 1]
             k == 8 * (L - n) + 8
  <2>1. /\ c \in Byte /\ k \in Nat /\ k = 8 * (L - (n - 1)) /\ n - 1 + 1 = n
        /\ n \in 1 .. Len(text) /\ n - 1 \in 0 .. L - 1 /\ (n - 1) + 1 = n
    BY <1>1, <1>4
  <2>2. text[n] = msg[n - 1] /\ text[n] \in Byte
    BY <1>2, <2>1
  <2>3. \A i \in 0 .. 7 : Cardinality(Hits(text, n, 0, i)) % 2 = BitOf(It[k][c], i)
    BY <1>7, <2>1
  <2> HIDE DEF c, k
  <2>4. \A i \in 0 .. 7 :
            Cardinality(Hits(text, n, 8, i)) % 2 = BitOf(It[k][Xor(c, text[n])], i)
    <3>1. k = 8 * (Len(text) - n) + 8
      BY DEF k
    <3> QED
      BY <1>3, <2>1, <2>3, <3>1, OneByte
  <2>5. It[k][Xor(c, text[n])] = It[8 * (L - n)][crc[n]]
    <3> DEFINE j == 8 * (L - n)
               x == Xor(c, text[n])
    <3>1. j \in Nat /\ j + 8 <= 8 * L /\ k = j + 8
      BY <1>1 DEF k
    <3>2. x \in Byte
      BY <1>5, <2>1, <2>2, XorBits
    <3>3. crc[n] = crc8_lookuptable[x]
      BY <1>4, <2>2 DEF c
    <3> HIDE DEF j, x
    <3>4. It[j + 8][x] = It[j][crc8_lookuptable[x]]
      BY <1>1, <1>3, <3>1, <3>2, ShiftsTable
    <3> QED
      BY <3>1, <3>3, <3>4 DEF j, x
  <2>6. ASSUME NEW i \in 0 .. 7 PROVE Hits(text, n, 8, i) = Hits(text, n + 1, 0, i)
    <3>1. Preceding(text, n, 8) = Preceding(text, n + 1, 0)
      BY <2>1 DEF Preceding
    <3> QED
      BY <3>1 DEF Hits
  <2> QED
    BY <2>4, <2>5, <2>6
<1> HIDE DEF Bits
<1>8. Bits(L)
  <2>1. 0 \in P
    BY <1>1, <1>6
  <2>2. \A n \in 1 .. L : n - 1 \in P => n \in P
    BY <1>1, <1>7
  <2>3. 0 .. L \subseteq P
    <3> HIDE DEF P, L
    <3> QED
      BY <1>1, <2>1, <2>2, UpTo
  <2> QED
    BY <1>1, <2>3
<1>9. crc[L] \in Byte /\ It[8 * (L - L)][crc[L]] = crc[L]
  <2>1. crc[L] \in Byte /\ 8 * (L - L) = 0
    BY <1>1, <1>4
  <2> QED
    BY <1>3, <2>1 DEF IsShifts
<1>10. ASSUME NEW i \in 0 .. 7 PROVE Count(L, i) % 2 = BitOf(crc[L], i)
  BY <1>8, <1>9 DEF Bits
<1> DEFINE Exponents == {e \in (1 .. L) \X (0 .. 7) : BitOf(text[e[1]], e[2]) = 1}
           Power(e) == PowerMod[8 * (L - e[1]) + e[2] + 8]
           f == [i \in 0 .. 7 |-> Cardinality({e \in Exponents : i \in Power(e)}) % 2]
<1>11. Remainder(text) = Weighed(f)
  BY DEF Remainder, ByteOf, Weighed
<1>12. ASSUME NEW i \in 0 .. 7 PROVE f[i] = BitOf(crc[L], i)
  <2>1. Preceding(text, L + 1, 0) = Exponents
    BY <1>1 DEF Preceding
  <2>2. Hits(text, L + 1, 0, i) = {e \in Exponents : i \in Power(e)}
    BY <2>1 DEF Hits
  <2> QED
    BY <1>10, <2>2
<1>13. f = [i \in 0 .. 7 |-> BitOf(crc[L], i)]
  BY <1>12
<1> HIDE DEF f
<1>14. Weighed(f) = crc[L]
  BY <1>9, <1>13, ByteIsItsBits
<1> QED
  BY <1>4, <1>11, <1>14

=============================================================================
