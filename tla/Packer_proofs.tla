------------------------------ MODULE Packer_proofs ------------------------------
(******************************************************************************)
(* TLAPS proofs about Packer and the program of PackClient, for all data,      *)
(* every initial size and every surplus of an allocation: the buffer, the      *)
(* recursion, and which data is refused as too deep.  About the format: what   *)
(* the XS packer writes for a number or in front of a string, an array or a    *)
(* map is what the pure Perl decoder reads, for every number of 64 bits and    *)
(* every size of 32, and what the pure Perl packer writes for a number is the  *)
(* same; TLC cannot count beyond 2^31.  And about whole data: what xs_pack     *)
(* returns is a function of the data, which does not depend on the order of    *)
(* the hashes when canonical is on, which decodes to the data, and on which    *)
(* the pure Perl packer agrees.                                                *)
(******************************************************************************)
EXTENDS PackClient, PPUnpack_proofs, SequenceTheorems, FiniteSetTheorems

-------------------------------------------------------------------------------
(* What the headers and numbers of pack_template.h are made of.                *)
LEMMA TakenIsByte ==
  ASSUME NEW d \in Int
  PROVE  TAKE8(d) \in Byte
  BY DEF TAKE8, Byte

LEMMA ShiftedIsInt ==
  ASSUME NEW d \in Int
  PROVE  Shr8(d) \in Int /\ Shr16(d) \in Int /\ Shr24(d) \in Int /\ Shr32(d) \in Int
  BY SMT DEF Shr8, Shr16, Shr24, Shr32

LEMMA DigitsAreBytes ==
  ASSUME NEW d \in Int, NEW h \in Byte
  PROVE  /\ Buf2(h, d) \in Seq(Byte) /\ Buf3(h, d) \in Seq(Byte)
         /\ Buf5(h, d) \in Seq(Byte) /\ Buf9(h, d) \in Seq(Byte)
  <1> DEFINE u == Shr32(d)
  <1>1. /\ TAKE8(d) \in Byte /\ TAKE8(Shr8(d)) \in Byte
        /\ TAKE8(Shr16(d)) \in Byte /\ TAKE8(Shr24(d)) \in Byte
    BY ShiftedIsInt, TakenIsByte
  <1>2. /\ TAKE8(u) \in Byte /\ TAKE8(Shr8(u)) \in Byte
        /\ TAKE8(Shr16(u)) \in Byte /\ TAKE8(Shr24(u)) \in Byte
    BY ShiftedIsInt, TakenIsByte
  <1> QED BY <1>1, <1>2 DEF Buf2, Buf3, Buf5, Buf9

(* Whatever is packed is a string of bytes.                                    *)
LEMMA IntegerBytes ==
  ASSUME NEW d \in Int
  PROVE  Integer(d) \in Seq(Byte)
  <1>1. {204, 205, 206, 207, 208, 209, 210, 211} \subseteq Byte
    BY DEF Byte
  <1>2. <<TAKE8(d)>> \in Seq(Byte)
    BY TakenIsByte
  <1> QED BY <1>1, <1>2, DigitsAreBytes DEF Integer, Unsigned, Negative

LEMMA HeaderBytes ==
  ASSUME NEW n \in Nat
  PROVE  /\ ArrayHeader(n) \in Seq(Byte) /\ MapHeader(n) \in Seq(Byte)
         /\ StrHeader(n) \in Seq(Byte) /\ BinHeader(n) \in Seq(Byte)
  <1>1. {220, 221, 222, 223, 217, 218, 219, 196, 197, 198} \subseteq Byte
    BY DEF Byte
  <1>2. n \in Int
    OBVIOUS
  <1>3. /\ n < 16 => 144 + n \in Byte /\ 128 + n \in Byte
        /\ n < 32 => 160 + n \in Byte
    BY DEF Byte
  <1>4. /\ n < 16 => <<144 + n>> \in Seq(Byte) /\ <<128 + n>> \in Seq(Byte)
        /\ n < 32 => <<160 + n>> \in Seq(Byte)
    BY <1>3
  <1>5. ArrayHeader(n) \in Seq(Byte)
    BY <1>1, <1>2, <1>4, DigitsAreBytes DEF ArrayHeader
  <1>6. MapHeader(n) \in Seq(Byte)
    BY <1>1, <1>2, <1>4, DigitsAreBytes DEF MapHeader
  <1>7. StrHeader(n) \in Seq(Byte)
    BY <1>1, <1>2, <1>4, DigitsAreBytes DEF StrHeader
  <1>8. BinHeader(n) \in Seq(Byte)
    BY <1>1, <1>2, DigitsAreBytes DEF BinHeader
  <1> QED BY <1>5, <1>6, <1>7, <1>8

-------------------------------------------------------------------------------
(* Two, four and eight bytes: the first is worth what is left of d in front of *)
(* the others.                                                                 *)
LEMMA Horner2 ==
  ASSUME NEW d \in Int, NEW n, Len(n) = 2, n[2] = TAKE8(d)
  PROVE  BigEndian(Shr8(d), n) = d
  BY SMT DEF BigEndian, TAKE8, Shr8

(* One digit more.                                                             *)
LEMMA Carry ==
  ASSUME NEW d \in Int
  PROVE  /\ Shr8(d) * 256 + TAKE8(d) = d
         /\ Shr16(d) * 256 + TAKE8(Shr8(d)) = Shr8(d)
         /\ Shr24(d) * 256 + TAKE8(Shr16(d)) = Shr16(d)
         /\ Shr32(d) * 256 + TAKE8(Shr24(d)) = Shr24(d)
  BY SMT DEF Shr8, Shr16, Shr24, Shr32, TAKE8

LEMMA Horner4 ==
  ASSUME NEW d \in Int, NEW n, Len(n) = 4,
         n[2] = TAKE8(Shr16(d)), n[3] = TAKE8(Shr8(d)), n[4] = TAKE8(d)
  PROVE  BigEndian(Shr24(d), n) = d
  <1>1. BigEndian(Shr24(d), n) = ((Shr24(d) * 256 + n[2]) * 256 + n[3]) * 256 + n[4]
    BY SMT DEF BigEndian
  <1>2. Shr24(d) * 256 + n[2] = Shr16(d)
    BY Carry, ZenonT(30)
  <1>3. Shr16(d) * 256 + n[3] = Shr8(d)
    BY Carry, ZenonT(30)
  <1>4. Shr8(d) * 256 + n[4] = d
    BY Carry, ZenonT(30)
  <1> QED BY <1>1, <1>2, <1>3, <1>4, Zenon

LEMMA Horner8 ==
  ASSUME NEW d \in Int, NEW u, u = Shr32(d), NEW n, Len(n) = 8,
         n[2] = TAKE8(Shr16(u)), n[3] = TAKE8(Shr8(u)), n[4] = TAKE8(u),
         n[5] = TAKE8(Shr24(d)), n[6] = TAKE8(Shr16(d)), n[7] = TAKE8(Shr8(d)),
         n[8] = TAKE8(d)
  PROVE  BigEndian(Shr24(u), n) = d
  <1> DEFINE m == ((Shr24(u) * 256 + n[2]) * 256 + n[3]) * 256 + n[4]
  <1>1. BigEndian(Shr24(u), n) = (((m * 256 + n[5]) * 256 + n[6]) * 256 + n[7]) * 256 + n[8]
    BY SMT DEF BigEndian
  <1>2. m = u
    <2>1. u \in Int
      BY ShiftedIsInt
    <2>2. Shr24(u) * 256 + n[2] = Shr16(u)
      BY <2>1, Carry, ZenonT(30)
    <2>3. Shr16(u) * 256 + n[3] = Shr8(u)
      BY <2>1, Carry, ZenonT(30)
    <2>4. Shr8(u) * 256 + n[4] = u
      BY <2>1, Carry, ZenonT(30)
    <2> QED BY <2>2, <2>3, <2>4, Zenon
  <1> HIDE DEF m
  <1>3. u * 256 + n[5] = Shr24(d) /\ Shr24(d) * 256 + n[6] = Shr16(d)
    BY Carry, ZenonT(30)
  <1>4. Shr16(d) * 256 + n[7] = Shr8(d) /\ Shr8(d) * 256 + n[8] = d
    BY Carry, ZenonT(30)
  <1>5. (u * 256 + n[5]) * 256 + n[6] = Shr16(d)
    BY <1>3, Zenon
  <1>6. (((u * 256 + n[5]) * 256 + n[6]) * 256 + n[7]) * 256 + n[8] = d
    BY <1>4, <1>5, Zenon
  <1> QED BY <1>1, <1>2, <1>6, Zenon

(* The first byte, of an unsigned and of a signed number.                      *)
LEMMA FirstByte ==
  ASSUME NEW x \in Int
  PROVE  /\ x \in 0 .. 255 => TAKE8(x) = x
         /\ x \in -128 .. 127 =>
              (IF TAKE8(x) >= 128 THEN TAKE8(x) - 256 ELSE TAKE8(x)) = x
  BY SMT DEF TAKE8

-------------------------------------------------------------------------------
(* Behind the first p bytes stand h and the w digits of d, the first x.        *)
NumberStands(s, p, w, h, x, d) ==
  LET n == SubSeq(s, p + 2, p + 1 + w) IN
  /\ p + 1 + w <= Len(s) /\ s[p + 1] = h
  /\ n[1] = TAKE8(x) /\ BigEndian(x, n) = d

LEMMA Digits1 ==
  ASSUME NEW s \in Seq(Byte), NEW p \in Nat, NEW h, NEW d \in Int,
         Stands(Buf2(h, d), s, p)
  PROVE  NumberStands(s, p, 1, h, d, d)
  <1> DEFINE b == Buf2(h, d)
             n == SubSeq(s, p + 2, p + 1 + 1)
  <1>1. /\ Len(b) = 2 /\ b[1] = h /\ b[2] = TAKE8(d)
    BY DEF Buf2
  <1>2. p + 1 + 1 <= Len(s) /\ \A i \in 1 .. 2 : s[p + i] = b[i]
    BY <1>1 DEF Stands
  <1> HIDE DEF b
  <1>3. Len(n) = 1 /\ \A i \in 1 .. 1 : n[i] = s[p + 1 + i]
    <2>1. 1 \in Nat
      OBVIOUS
    <2> QED BY <1>2, <2>1, Cut, Zenon
  <1> HIDE DEF n
  <1>4. \A i \in 1 .. 1 : n[i] = b[i + 1]
    <2>1. ASSUME NEW i \in 1 .. 1
          PROVE  s[p + 1 + i] = b[i + 1]
      <3>1. i + 1 \in 1 .. 2 /\ p + (i + 1) = p + 1 + i
        OBVIOUS
      <3>2. s[p + (i + 1)] = b[i + 1]
        BY <1>2, <3>1
      <3> QED BY <3>1, <3>2
    <2> QED BY <1>3, <2>1
  <1>5. s[p + 1] = h
    BY <1>1, <1>2
  <1>6. /\ n[1] = TAKE8(d)
    BY <1>1, <1>4
  <1>7. BigEndian(d, n) = d
    BY <1>3 DEF BigEndian
  <1> QED BY <1>2, <1>5, <1>6, <1>7, Zenon DEF NumberStands, n

LEMMA Digits2 ==
  ASSUME NEW s \in Seq(Byte), NEW p \in Nat, NEW h, NEW d \in Int,
         Stands(Buf3(h, d), s, p)
  PROVE  NumberStands(s, p, 2, h, Shr8(d), d)
  <1> DEFINE b == Buf3(h, d)
             n == SubSeq(s, p + 2, p + 1 + 2)
  <1>1. /\ Len(b) = 3 /\ b[1] = h /\ b[2] = TAKE8(Shr8(d))
        /\ b[3] = TAKE8(d)
    BY DEF Buf3
  <1>2. p + 1 + 2 <= Len(s) /\ \A i \in 1 .. 3 : s[p + i] = b[i]
    BY <1>1 DEF Stands
  <1> HIDE DEF b
  <1>3. Len(n) = 2 /\ \A i \in 1 .. 2 : n[i] = s[p + 1 + i]
    <2>1. 2 \in Nat
      OBVIOUS
    <2> QED BY <1>2, <2>1, Cut, Zenon
  <1> HIDE DEF n
  <1>4. \A i \in 1 .. 2 : n[i] = b[i + 1]
    <2>1. ASSUME NEW i \in 1 .. 2
          PROVE  s[p + 1 + i] = b[i + 1]
      <3>1. i + 1 \in 1 .. 3 /\ p + (i + 1) = p + 1 + i
        OBVIOUS
      <3>2. s[p + (i + 1)] = b[i + 1]
        BY <1>2, <3>1
      <3> QED BY <3>1, <3>2
    <2> QED BY <1>3, <2>1
  <1>5. s[p + 1] = h
    BY <1>1, <1>2
  <1>6. /\ n[1] = TAKE8(Shr8(d)) /\ n[2] = TAKE8(d)
    BY <1>1, <1>4
  <1>7. BigEndian(Shr8(d), n) = d
    BY <1>3, <1>6, Horner2, Zenon
  <1> QED BY <1>2, <1>5, <1>6, <1>7, Zenon DEF NumberStands, n

LEMMA Digits4 ==
  ASSUME NEW s \in Seq(Byte), NEW p \in Nat, NEW h, NEW d \in Int,
         Stands(Buf5(h, d), s, p)
  PROVE  NumberStands(s, p, 4, h, Shr24(d), d)
  <1> DEFINE b == Buf5(h, d)
             n == SubSeq(s, p + 2, p + 1 + 4)
  <1>1. /\ Len(b) = 5 /\ b[1] = h /\ b[2] = TAKE8(Shr24(d))
        /\ b[3] = TAKE8(Shr16(d)) /\ b[4] = TAKE8(Shr8(d)) /\ b[5] = TAKE8(d)
    BY DEF Buf5
  <1>2. p + 1 + 4 <= Len(s) /\ \A i \in 1 .. 5 : s[p + i] = b[i]
    BY <1>1 DEF Stands
  <1> HIDE DEF b
  <1>3. Len(n) = 4 /\ \A i \in 1 .. 4 : n[i] = s[p + 1 + i]
    <2>1. 4 \in Nat
      OBVIOUS
    <2> QED BY <1>2, <2>1, Cut, Zenon
  <1> HIDE DEF n
  <1>4. \A i \in 1 .. 4 : n[i] = b[i + 1]
    <2>1. ASSUME NEW i \in 1 .. 4
          PROVE  s[p + 1 + i] = b[i + 1]
      <3>1. i + 1 \in 1 .. 5 /\ p + (i + 1) = p + 1 + i
        OBVIOUS
      <3>2. s[p + (i + 1)] = b[i + 1]
        BY <1>2, <3>1
      <3> QED BY <3>1, <3>2
    <2> QED BY <1>3, <2>1
  <1>5. s[p + 1] = h
    BY <1>1, <1>2
  <1>6. /\ n[1] = TAKE8(Shr24(d)) /\ n[2] = TAKE8(Shr16(d)) /\ n[3] = TAKE8(Shr8(d))
        /\ n[4] = TAKE8(d)
    BY <1>1, <1>4
  <1>7. BigEndian(Shr24(d), n) = d
    BY <1>3, <1>6, Horner4, Zenon
  <1> QED BY <1>2, <1>5, <1>6, <1>7, Zenon DEF NumberStands, n

LEMMA Digits8 ==
  ASSUME NEW s \in Seq(Byte), NEW p \in Nat, NEW h, NEW d \in Int,
         Stands(Buf9(h, d), s, p)
  PROVE  NumberStands(s, p, 8, h, Shr24(Shr32(d)), d)
  <1> DEFINE b == Buf9(h, d)
             n == SubSeq(s, p + 2, p + 1 + 8)
  <1>1. /\ Len(b) = 9 /\ b[1] = h /\ b[2] = TAKE8(Shr24(Shr32(d)))
        /\ b[3] = TAKE8(Shr16(Shr32(d))) /\ b[4] = TAKE8(Shr8(Shr32(d))) /\ b[5] = TAKE8(Shr32(d))
        /\ b[6] = TAKE8(Shr24(d)) /\ b[7] = TAKE8(Shr16(d)) /\ b[8] = TAKE8(Shr8(d))
        /\ b[9] = TAKE8(d)
    BY DEF Buf9
  <1>2. p + 1 + 8 <= Len(s) /\ \A i \in 1 .. 9 : s[p + i] = b[i]
    BY <1>1 DEF Stands
  <1> HIDE DEF b
  <1>3. Len(n) = 8 /\ \A i \in 1 .. 8 : n[i] = s[p + 1 + i]
    <2>1. 8 \in Nat
      OBVIOUS
    <2> QED BY <1>2, <2>1, Cut, Zenon
  <1> HIDE DEF n
  <1>4. \A i \in 1 .. 8 : n[i] = b[i + 1]
    <2>1. ASSUME NEW i \in 1 .. 8
          PROVE  s[p + 1 + i] = b[i + 1]
      <3>1. i + 1 \in 1 .. 9 /\ p + (i + 1) = p + 1 + i
        OBVIOUS
      <3>2. s[p + (i + 1)] = b[i + 1]
        BY <1>2, <3>1
      <3> QED BY <3>1, <3>2
    <2> QED BY <1>3, <2>1
  <1>5. s[p + 1] = h
    BY <1>1, <1>2
  <1>6. /\ n[1] = TAKE8(Shr24(Shr32(d))) /\ n[2] = TAKE8(Shr16(Shr32(d))) /\ n[3] = TAKE8(Shr8(Shr32(d)))
        /\ n[4] = TAKE8(Shr32(d)) /\ n[5] = TAKE8(Shr24(d)) /\ n[6] = TAKE8(Shr16(d))
        /\ n[7] = TAKE8(Shr8(d)) /\ n[8] = TAKE8(d)
    BY <1>1, <1>4
  <1>7. BigEndian(Shr24(Shr32(d)), n) = d
    BY <1>3, <1>6, Horner8, Zenon
  <1> QED BY <1>2, <1>5, <1>6, <1>7, Zenon DEF NumberStands, n

(* Whether x is in the range of the first byte of a number with header h.      *)
Fits(h, x) == IF h <= 207 THEN x \in 0 .. 255 ELSE x \in -128 .. 127

LEMMA FirstByteFits ==
  ASSUME NEW n, NEW x \in Int, NEW h, Fits(h, x), n[1] = TAKE8(x)
  PROVE  (IF h <= 207 THEN BE(n) ELSE SignedBE(n)) = BigEndian(x, n)
  <1>1. CASE h <= 207
    <2>1. n[1] = x
      BY <1>1, FirstByte DEF Fits
    <2> QED BY <1>1, <2>1 DEF BE
  <1>2. CASE ~(h <= 207)
    <2>1. (IF n[1] >= 128 THEN n[1] - 256 ELSE n[1]) = x
      BY <1>2, FirstByte DEF Fits
    <2> QED BY <1>2, <2>1, Zenon DEF SignedBE
  <1> QED BY <1>1, <1>2

(* An unsigned or signed number of w bytes.                                    *)
LEMMA NumberRead ==
  ASSUME NEW s \in Seq(Byte), NEW p \in Nat, NEW depth, NEW text, NEW d \in Int,
         NEW x \in Int, NEW h \in 204 .. 211, NEW w \in Nat,
         NumberWidth(h) = w, Fits(h, x), NumberStands(s, p, w, h, x, d)
  PROVE  Scalar(s, p, depth, text) = Returned(<<IntValue(d)>>, p + 1 + w, depth)
  <1> DEFINE n == SubSeq(s, p + 2, p + 1 + w)
  <1>1. /\ p + 1 + w <= Len(s) /\ s[p + 1] = h
        /\ n[1] = TAKE8(x) /\ BigEndian(x, n) = d
    BY Zenon DEF NumberStands
  <1>2. p + 1 <= Len(s) /\ s[p + 1] \in 204 .. 211 /\ NumberWidth(s[p + 1]) = w
    BY <1>1
  <1> HIDE DEF n
  <1>3. (IF h <= 207 THEN BE(n) ELSE SignedBE(n)) = d
    BY <1>1, FirstByteFits
  <1>4. h \notin {202, 203}
    OBVIOUS
  <1>5. UnpackNumber(h, n) = IntValue(d)
    BY <1>3, <1>4, Zenon DEF UnpackNumber
  <1>6. Scalar(s, p, depth, text) =
          Returned(<<UnpackNumber(s[p + 1], n)>>, p + 1 + w, depth)
    BY <1>1, <1>2, NumberAt DEF n
  <1> QED BY <1>1, <1>5, <1>6, SMTT(30)

-------------------------------------------------------------------------------
(* The integers of a Perl of 64 bits: those of an IV and those of a UV.        *)
Is64Bit(d) == -9223372036854775808 <= d /\ d <= 18446744073709551615

(* A number that its header byte holds.                                        *)
LEMMA FixNumber ==
  ASSUME NEW s \in Seq(Byte), NEW p \in Nat, NEW depth, NEW text,
         NEW d \in -32 .. 127, Stands(<<TAKE8(d)>>, s, p)
  PROVE  Scalar(s, p, depth, text) = Returned(<<IntValue(d)>>, p + 1, depth)
  <1> DEFINE b == TAKE8(d)
  <1>1. ~(p >= Len(s)) /\ s[p + 1] = b
    BY DEF Stands
  <1>2. /\ b \in (0 .. 127) \cup (224 .. 255) /\ b \notin {192, 194, 195}
        /\ (IF b < 128 THEN b ELSE b - 256) = d
    BY SMT DEF TAKE8
  <1> HIDE DEF b
  <1>3. T_DIRECT(b) /\ byte2value(b) = IntValue(d)
    BY <1>2, Zenon DEF T_DIRECT, byte2value
  <1> QED BY <1>1, <1>3, Zenon DEF Scalar

(* Which form a number takes, and that it is wide enough for it.               *)
LEMMA UnsignedForms ==
  ASSUME NEW d \in Int, Is64Bit(d), d >= 0
  PROVE  \/ d \in -32 .. 127 /\ Integer(d) = <<TAKE8(d)>>
         \/ Fits(204, d) /\ Integer(d) = Buf2(204, d)
         \/ Fits(205, Shr8(d)) /\ Integer(d) = Buf3(205, d)
         \/ Fits(206, Shr24(d)) /\ Integer(d) = Buf5(206, d)
         \/ Fits(207, Shr24(Shr32(d))) /\ Integer(d) = Buf9(207, d)
  <1>1. CASE d < 128
    BY <1>1 DEF Integer, Unsigned
  <1>2. CASE 128 <= d /\ d < 256
    BY <1>2 DEF Integer, Unsigned, Fits
  <1>3. CASE 256 <= d /\ d < 65536
    <2>1. Fits(205, Shr8(d))
      BY <1>3, SMT DEF Fits, Shr8
    <2> QED BY <1>3, <2>1 DEF Integer, Unsigned
  <1>4. CASE 65536 <= d /\ Shr32(d) < 1
    <2>1. Fits(206, Shr24(d))
      BY <1>4, SMT DEF Fits, Shr24, Shr32, Shr16
    <2> QED BY <1>4, <2>1 DEF Integer, Unsigned
  <1>5. CASE 65536 <= d /\ ~(Shr32(d) < 1)
    <2>1. Fits(207, Shr24(Shr32(d)))
      BY <1>5, SMT DEF Fits, Shr24, Shr32, Shr16, Is64Bit
    <2> QED BY <1>5, <2>1 DEF Integer, Unsigned
  <1> QED BY <1>1, <1>2, <1>3, <1>4, <1>5

LEMMA NegativeForms ==
  ASSUME NEW d \in Int, Is64Bit(d), d < 0
  PROVE  \/ d \in -32 .. 127 /\ Integer(d) = <<TAKE8(d)>>
         \/ Fits(208, d) /\ Integer(d) = Buf2(208, d)
         \/ Fits(209, Shr8(d)) /\ Integer(d) = Buf3(209, d)
         \/ Fits(210, Shr24(d)) /\ Integer(d) = Buf5(210, d)
         \/ Fits(211, Shr24(Shr32(d))) /\ Integer(d) = Buf9(211, d)
  <1>1. CASE d >= -32
    BY <1>1 DEF Integer, Negative
  <1>2. CASE -32 > d /\ d >= -128
    BY <1>2 DEF Integer, Negative, Fits
  <1>3. CASE -128 > d /\ d >= -32768
    <2>1. Fits(209, Shr8(d))
      BY <1>3, SMT DEF Fits, Shr8
    <2> QED BY <1>3, <2>1 DEF Integer, Negative
  <1>4. CASE -32768 > d /\ d >= -2147483647 - 1
    <2>1. Fits(210, Shr24(d))
      BY <1>4, SMT DEF Fits, Shr24
    <2> QED BY <1>4, <2>1, SMT DEF Integer, Negative
  <1>5. CASE -32768 > d /\ ~(d >= -2147483647 - 1)
    <2>1. Fits(211, Shr24(Shr32(d)))
      BY <1>5, SMT DEF Fits, Shr24, Shr32, Shr16, Is64Bit
    <2> QED BY <1>5, <2>1, SMT DEF Integer, Negative
  <1> QED BY <1>1, <1>2, <1>3, <1>4, <1>5, SMT

LEMMA Forms ==
  ASSUME NEW d \in Int, Is64Bit(d)
  PROVE  \/ d \in -32 .. 127 /\ Integer(d) = <<TAKE8(d)>>
         \/ \E h \in {204, 208} : Fits(h, d) /\ Integer(d) = Buf2(h, d)
         \/ \E h \in {205, 209} : Fits(h, Shr8(d)) /\ Integer(d) = Buf3(h, d)
         \/ \E h \in {206, 210} : Fits(h, Shr24(d)) /\ Integer(d) = Buf5(h, d)
         \/ \E h \in {207, 211} : Fits(h, Shr24(Shr32(d))) /\ Integer(d) = Buf9(h, d)
  <1>1. d >= 0 \/ d < 0
    OBVIOUS
  <1> QED BY <1>1, UnsignedForms, NegativeForms

(* A number packed by msgpack_pack_int64 or _uint64 is read as the same number *)
(* by _unpack of PP.pm, whatever stands behind it, and is used up.             *)
THEOREM IntegerRoundTrip ==
  ASSUME NEW d \in Int, Is64Bit(d), NEW s \in Seq(Byte), NEW p \in Nat,
         NEW depth, NEW text, Stands(Integer(d), s, p)
  PROVE  Scalar(s, p, depth, text) =
           Returned(<<IntValue(d)>>, p + Len(Integer(d)), depth)
  <1> DEFINE Read(l) == Scalar(s, p, depth, text) = Returned(<<IntValue(d)>>, p + l, depth)
  <1>1. CASE d \in -32 .. 127 /\ Integer(d) = <<TAKE8(d)>>
    <2>1. Stands(<<TAKE8(d)>>, s, p) /\ Len(Integer(d)) = 1
      BY <1>1
    <2>2. Read(1)
      BY <1>1, <2>1, FixNumber
    <2> QED BY <2>1, <2>2
  <1>2. CASE \E h \in {204, 208} : Fits(h, d) /\ Integer(d) = Buf2(h, d)
    <2>1. PICK h \in {204, 208} : Fits(h, d) /\ Integer(d) = Buf2(h, d)
      BY <1>2
    <2>2. NumberStands(s, p, 1, h, d, d)
      <3>1. Stands(Buf2(h, d), s, p)
        BY <2>1
      <3> QED BY <3>1, Digits1, Zenon
    <2>3. d \in Int /\ h \in 204 .. 211 /\ 1 \in Nat /\ NumberWidth(h) = 1
      <3>1. h \in 204 .. 211 /\ NumberWidth(h) = 1
        BY DEF NumberWidth
      <3> QED BY <3>1, ShiftedIsInt
    <2>4. Scalar(s, p, depth, text) = Returned(<<IntValue(d)>>, p + 1 + 1, depth)
      BY <2>1, <2>2, <2>3, NumberRead
    <2>5. Len(Integer(d)) = 2 /\ p + 1 + 1 = p + 2
      BY <2>1 DEF Buf2
    <2> QED BY <2>4, <2>5
  <1>3. CASE \E h \in {205, 209} : Fits(h, Shr8(d)) /\ Integer(d) = Buf3(h, d)
    <2>1. PICK h \in {205, 209} : Fits(h, Shr8(d)) /\ Integer(d) = Buf3(h, d)
      BY <1>3
    <2>2. NumberStands(s, p, 2, h, Shr8(d), d)
      <3>1. Stands(Buf3(h, d), s, p)
        BY <2>1
      <3> QED BY <3>1, Digits2, Zenon
    <2>3. Shr8(d) \in Int /\ h \in 204 .. 211 /\ 2 \in Nat /\ NumberWidth(h) = 2
      <3>1. h \in 204 .. 211 /\ NumberWidth(h) = 2
        BY DEF NumberWidth
      <3> QED BY <3>1, ShiftedIsInt
    <2>4. Scalar(s, p, depth, text) = Returned(<<IntValue(d)>>, p + 1 + 2, depth)
      BY <2>1, <2>2, <2>3, NumberRead
    <2>5. Len(Integer(d)) = 3 /\ p + 1 + 2 = p + 3
      BY <2>1 DEF Buf3
    <2> QED BY <2>4, <2>5
  <1>4. CASE \E h \in {206, 210} : Fits(h, Shr24(d)) /\ Integer(d) = Buf5(h, d)
    <2>1. PICK h \in {206, 210} : Fits(h, Shr24(d)) /\ Integer(d) = Buf5(h, d)
      BY <1>4
    <2>2. NumberStands(s, p, 4, h, Shr24(d), d)
      <3>1. Stands(Buf5(h, d), s, p)
        BY <2>1
      <3> QED BY <3>1, Digits4, Zenon
    <2>3. Shr24(d) \in Int /\ h \in 204 .. 211 /\ 4 \in Nat /\ NumberWidth(h) = 4
      <3>1. h \in 204 .. 211 /\ NumberWidth(h) = 4
        BY DEF NumberWidth
      <3> QED BY <3>1, ShiftedIsInt
    <2>4. Scalar(s, p, depth, text) = Returned(<<IntValue(d)>>, p + 1 + 4, depth)
      BY <2>1, <2>2, <2>3, NumberRead
    <2>5. Len(Integer(d)) = 5 /\ p + 1 + 4 = p + 5
      BY <2>1 DEF Buf5
    <2> QED BY <2>4, <2>5
  <1>5. CASE \E h \in {207, 211} : Fits(h, Shr24(Shr32(d))) /\ Integer(d) = Buf9(h, d)
    <2>1. PICK h \in {207, 211} : Fits(h, Shr24(Shr32(d))) /\ Integer(d) = Buf9(h, d)
      BY <1>5
    <2>2. NumberStands(s, p, 8, h, Shr24(Shr32(d)), d)
      <3>1. Stands(Buf9(h, d), s, p)
        BY <2>1
      <3> QED BY <3>1, Digits8, Zenon
    <2>3. Shr24(Shr32(d)) \in Int /\ h \in 204 .. 211 /\ 8 \in Nat /\ NumberWidth(h) = 8
      <3>1. h \in 204 .. 211 /\ NumberWidth(h) = 8
        BY DEF NumberWidth
      <3> QED BY <3>1, ShiftedIsInt
    <2>4. Scalar(s, p, depth, text) = Returned(<<IntValue(d)>>, p + 1 + 8, depth)
      BY <2>1, <2>2, <2>3, NumberRead
    <2>5. Len(Integer(d)) = 9 /\ p + 1 + 8 = p + 9
      BY <2>1 DEF Buf9
    <2> QED BY <2>4, <2>5
  <1> QED BY <1>1, <1>2, <1>3, <1>4, <1>5, Forms, Zenon

-------------------------------------------------------------------------------
(* The sizes that a header holds: U32 in Perl.                                 *)
Is32Bit(n) == n <= 4294967295

(* _fetch_size makes n of the header b and leaves $p behind it.                *)
SizeRead(b, n, s, p) ==
  s[p + 1] = b[1] /\ AfterFetch(s, p) = p + Len(b) /\ FetchSize(s, p) = n

(* A header of one byte, and with w bytes behind it.                           *)
LEMMA Size0 ==
  ASSUME NEW s \in Seq(Byte), NEW p \in Nat, NEW h \in 128 .. 191, Stands(<<h>>, s, p)
  PROVE  SizeRead(<<h>>, FixSize(h), s, p)
  <1>1. s[p + 1] = h
    BY DEF Stands
  <1>2. SizeBytes(h) = 0
    BY DEF SizeBytes
  <1> QED BY <1>1, <1>2 DEF SizeRead, AfterFetch, FetchSize

Fetched(s, p, w, h, n) ==
  s[p + 1] = h /\ AfterFetch(s, p) = p + 1 + w /\ FetchSize(s, p) = n

LEMMA SizeBehind ==
  ASSUME NEW s \in Seq(Byte), NEW p \in Nat, NEW n, NEW x,
         x \in 0 .. 255, NEW h, NEW w, w \in Nat, w # 0, SizeBytes(h) = w, NumberStands(s, p, w, h, x, n)
  PROVE  Fetched(s, p, w, h, n)
  <1> DEFINE m == SubSeq(s, p + 2, p + 1 + w)
  <1>1. s[p + 1] = h /\ m[1] = TAKE8(x) /\ BigEndian(x, m) = n
    BY Zenon DEF NumberStands
  <1>2. AfterFetch(s, p) = p + 1 + w
    BY <1>1 DEF AfterFetch
  <1>3. FetchSize(s, p) = BE(m)
    BY <1>1, <1>2, Zenon DEF FetchSize
  <1> HIDE DEF m
  <1>4. m[1] = x
    BY <1>1, FirstByte
  <1> QED BY <1>1, <1>2, <1>3, <1>4, Zenon DEF BE, Fetched

LEMMA Size1 ==
  ASSUME NEW s \in Seq(Byte), NEW p \in Nat, NEW n \in Int,
         NEW h \in {196, 217}, n \in 0 .. 255, Stands(Buf2(h, n), s, p)
  PROVE  SizeRead(Buf2(h, n), n, s, p)
  <1> DEFINE w == 1
             x == n
  <1>1. NumberStands(s, p, w, h, x, n)
    BY Digits1, Zenon
  <1>2. SizeBytes(h) = w /\ w \in Nat /\ w # 0
    BY DEF SizeBytes
  <1>3. x \in 0 .. 255
    OBVIOUS
  <1> HIDE DEF w, x
  <1>4. Fetched(s, p, w, h, n)
    BY <1>1, <1>2, <1>3, SizeBehind, Zenon
  <1>5. Len(Buf2(h, n)) = 2 /\ Buf2(h, n)[1] = h
    BY DEF Buf2
  <1> QED BY <1>4, <1>5 DEF SizeRead, Fetched, w

LEMMA Size2 ==
  ASSUME NEW s \in Seq(Byte), NEW p \in Nat, NEW n \in Int,
         NEW h \in {197, 218, 220, 222}, Shr8(n) \in 0 .. 255, Stands(Buf3(h, n), s, p)
  PROVE  SizeRead(Buf3(h, n), n, s, p)
  <1> DEFINE w == 2
             x == Shr8(n)
  <1>1. NumberStands(s, p, w, h, x, n)
    BY Digits2, Zenon
  <1>2. SizeBytes(h) = w /\ w \in Nat /\ w # 0
    BY DEF SizeBytes
  <1>3. x \in 0 .. 255
    OBVIOUS
  <1> HIDE DEF w, x
  <1>4. Fetched(s, p, w, h, n)
    BY <1>1, <1>2, <1>3, SizeBehind, Zenon
  <1>5. Len(Buf3(h, n)) = 3 /\ Buf3(h, n)[1] = h
    BY DEF Buf3
  <1> QED BY <1>4, <1>5 DEF SizeRead, Fetched, w

LEMMA Size4 ==
  ASSUME NEW s \in Seq(Byte), NEW p \in Nat, NEW n \in Int,
         NEW h \in {198, 219, 221, 223}, Shr24(n) \in 0 .. 255, Stands(Buf5(h, n), s, p)
  PROVE  SizeRead(Buf5(h, n), n, s, p)
  <1> DEFINE w == 4
             x == Shr24(n)
  <1>1. NumberStands(s, p, w, h, x, n)
    BY Digits4, Zenon
  <1>2. SizeBytes(h) = w /\ w \in Nat /\ w # 0
    BY DEF SizeBytes
  <1>3. x \in 0 .. 255
    OBVIOUS
  <1> HIDE DEF w, x
  <1>4. Fetched(s, p, w, h, n)
    BY <1>1, <1>2, <1>3, SizeBehind, Zenon
  <1>5. Len(Buf5(h, n)) = 5 /\ Buf5(h, n)[1] = h
    BY DEF Buf5
  <1> QED BY <1>4, <1>5 DEF SizeRead, Fetched, w

(* How much the first byte of a size of each width holds.                      *)
LEMMA SizeFits ==
  ASSUME NEW n \in Nat, Is32Bit(n)
  PROVE  /\ n < 256 => n \in 0 .. 255
         /\ n < 65536 => Shr8(n) \in 0 .. 255
         /\ Shr24(n) \in 0 .. 255
  BY SMT DEF Is32Bit, Shr8, Shr24

(* The header that msgpack_pack_array, _map, _str or _bin packs for a size of  *)
(* 32 bits is one that PP.pm takes for the same kind, and its _fetch_size       *)
(* makes the same size of it and goes to the byte behind it.                   *)
THEOREM SizeRoundTrip ==
  ASSUME NEW s \in Seq(Byte), NEW p \in Nat, NEW n \in Nat, Is32Bit(n)
  PROVE  /\ Stands(ArrayHeader(n), s, p) =>
              SizeRead(ArrayHeader(n), n, s, p) /\ T_ARRAY(s[p + 1])
         /\ Stands(MapHeader(n), s, p) =>
              SizeRead(MapHeader(n), n, s, p) /\ T_MAP(s[p + 1])
         /\ Stands(StrHeader(n), s, p) =>
              SizeRead(StrHeader(n), n, s, p) /\ T_STR(s[p + 1])
         /\ Stands(BinHeader(n), s, p) =>
              SizeRead(BinHeader(n), n, s, p) /\ T_BIN(s[p + 1])
  <1>1. ASSUME Stands(ArrayHeader(n), s, p)
        PROVE  SizeRead(ArrayHeader(n), n, s, p) /\ T_ARRAY(s[p + 1])
    <2>1. CASE n < 16
      <3> DEFINE h == 144 + n
      <3>1. ArrayHeader(n) = <<h>>
        BY <2>1 DEF ArrayHeader
      <3>2. h \in 128 .. 191 /\ FixSize(h) = n /\ T_ARRAY(h)
        BY <2>1 DEF FixSize, T_ARRAY
      <3> HIDE DEF h
      <3>3. SizeRead(<<h>>, n, s, p) /\ <<h>>[1] = h
        BY <1>1, <3>1, <3>2, Size0
      <3> QED BY <3>1, <3>2, <3>3 DEF SizeRead
    <2>2. CASE ~(n < 16) /\ n < 65536
      <3>1. ArrayHeader(n) = Buf3(220, n)
        BY <2>2 DEF ArrayHeader
      <3>2. SizeRead(Buf3(220, n), n, s, p)
        BY <1>1, <2>2, <3>1, SizeFits, Size2
      <3>3. T_ARRAY(220) /\ Buf3(220, n)[1] = 220
        BY DEF T_ARRAY, Buf3
      <3> QED BY <3>1, <3>2, <3>3 DEF SizeRead
    <2>3. CASE ~(n < 65536)
      <3>1. ArrayHeader(n) = Buf5(221, n)
        BY <2>3 DEF ArrayHeader
      <3>2. SizeRead(Buf5(221, n), n, s, p)
        BY <1>1, <2>3, <3>1, SizeFits, Size4
      <3>3. T_ARRAY(221) /\ Buf5(221, n)[1] = 221
        BY DEF T_ARRAY, Buf5
      <3> QED BY <3>1, <3>2, <3>3 DEF SizeRead
    <2> QED BY <2>1, <2>2, <2>3
  <1>2. ASSUME Stands(MapHeader(n), s, p)
        PROVE  SizeRead(MapHeader(n), n, s, p) /\ T_MAP(s[p + 1])
    <2>1. CASE n < 16
      <3> DEFINE h == 128 + n
      <3>1. MapHeader(n) = <<h>>
        BY <2>1 DEF MapHeader
      <3>2. h \in 128 .. 191 /\ FixSize(h) = n /\ T_MAP(h)
        BY <2>1 DEF FixSize, T_MAP
      <3> HIDE DEF h
      <3>3. SizeRead(<<h>>, n, s, p) /\ <<h>>[1] = h
        BY <1>2, <3>1, <3>2, Size0
      <3> QED BY <3>1, <3>2, <3>3 DEF SizeRead
    <2>2. CASE ~(n < 16) /\ n < 65536
      <3>1. MapHeader(n) = Buf3(222, n)
        BY <2>2 DEF MapHeader
      <3>2. SizeRead(Buf3(222, n), n, s, p)
        BY <1>2, <2>2, <3>1, SizeFits, Size2
      <3>3. T_MAP(222) /\ Buf3(222, n)[1] = 222
        BY DEF T_MAP, Buf3
      <3> QED BY <3>1, <3>2, <3>3 DEF SizeRead
    <2>3. CASE ~(n < 65536)
      <3>1. MapHeader(n) = Buf5(223, n)
        BY <2>3 DEF MapHeader
      <3>2. SizeRead(Buf5(223, n), n, s, p)
        BY <1>2, <2>3, <3>1, SizeFits, Size4
      <3>3. T_MAP(223) /\ Buf5(223, n)[1] = 223
        BY DEF T_MAP, Buf5
      <3> QED BY <3>1, <3>2, <3>3 DEF SizeRead
    <2> QED BY <2>1, <2>2, <2>3
  <1>3. ASSUME Stands(StrHeader(n), s, p)
        PROVE  SizeRead(StrHeader(n), n, s, p) /\ T_STR(s[p + 1])
    <2>1. CASE n < 32
      <3> DEFINE h == 160 + n
      <3>1. StrHeader(n) = <<h>>
        BY <2>1 DEF StrHeader
      <3>2. h \in 128 .. 191 /\ FixSize(h) = n /\ T_STR(h)
        BY <2>1 DEF FixSize, T_STR
      <3> HIDE DEF h
      <3>3. SizeRead(<<h>>, n, s, p) /\ <<h>>[1] = h
        BY <1>3, <3>1, <3>2, Size0
      <3> QED BY <3>1, <3>2, <3>3 DEF SizeRead
    <2>2. CASE ~(n < 32) /\ n < 256
      <3>1. StrHeader(n) = Buf2(217, n)
        BY <2>2 DEF StrHeader
      <3>2. SizeRead(Buf2(217, n), n, s, p)
        BY <1>3, <2>2, <3>1, SizeFits, Size1
      <3>3. T_STR(217) /\ Buf2(217, n)[1] = 217
        BY DEF T_STR, Buf2
      <3> QED BY <3>1, <3>2, <3>3 DEF SizeRead
    <2>3. CASE ~(n < 256) /\ n < 65536
      <3>1. StrHeader(n) = Buf3(218, n)
        BY <2>3 DEF StrHeader
      <3>2. SizeRead(Buf3(218, n), n, s, p)
        BY <1>3, <2>3, <3>1, SizeFits, Size2
      <3>3. T_STR(218) /\ Buf3(218, n)[1] = 218
        BY DEF T_STR, Buf3
      <3> QED BY <3>1, <3>2, <3>3 DEF SizeRead
    <2>4. CASE ~(n < 65536)
      <3>1. StrHeader(n) = Buf5(219, n)
        BY <2>4 DEF StrHeader
      <3>2. SizeRead(Buf5(219, n), n, s, p)
        BY <1>3, <2>4, <3>1, SizeFits, Size4
      <3>3. T_STR(219) /\ Buf5(219, n)[1] = 219
        BY DEF T_STR, Buf5
      <3> QED BY <3>1, <3>2, <3>3 DEF SizeRead
    <2> QED BY <2>1, <2>2, <2>3, <2>4
  <1>4. ASSUME Stands(BinHeader(n), s, p)
        PROVE  SizeRead(BinHeader(n), n, s, p) /\ T_BIN(s[p + 1])
    <2>1. CASE n < 256
      <3>1. BinHeader(n) = Buf2(196, n)
        BY <2>1 DEF BinHeader
      <3>2. SizeRead(Buf2(196, n), n, s, p)
        BY <1>4, <2>1, <3>1, SizeFits, Size1
      <3>3. T_BIN(196) /\ Buf2(196, n)[1] = 196
        BY DEF T_BIN, Buf2
      <3> QED BY <3>1, <3>2, <3>3 DEF SizeRead
    <2>2. CASE ~(n < 256) /\ n < 65536
      <3>1. BinHeader(n) = Buf3(197, n)
        BY <2>2 DEF BinHeader
      <3>2. SizeRead(Buf3(197, n), n, s, p)
        BY <1>4, <2>2, <3>1, SizeFits, Size2
      <3>3. T_BIN(197) /\ Buf3(197, n)[1] = 197
        BY DEF T_BIN, Buf3
      <3> QED BY <3>1, <3>2, <3>3 DEF SizeRead
    <2>3. CASE ~(n < 65536)
      <3>1. BinHeader(n) = Buf5(198, n)
        BY <2>3 DEF BinHeader
      <3>2. SizeRead(Buf5(198, n), n, s, p)
        BY <1>4, <2>3, <3>1, SizeFits, Size4
      <3>3. T_BIN(198) /\ Buf5(198, n)[1] = 198
        BY DEF T_BIN, Buf5
      <3> QED BY <3>1, <3>2, <3>3 DEF SizeRead
    <2> QED BY <2>1, <2>2, <2>3
  <1> QED BY <1>1, <1>2, <1>3, <1>4
-------------------------------------------------------------------------------
(* CORE::pack of C, n, N and Q puts together what the buffers of the templates *)
(* hold: the same digits, in pieces.                                           *)
LEMMA Concat ==
  ASSUME NEW s \in Seq(Byte), NEW t \in Seq(Byte), NEW r \in Seq(Byte),
         Len(r) = Len(s) + Len(t),
         \A i \in 1 .. Len(r) : r[i] = IF i <= Len(s) THEN s[i] ELSE t[i - Len(s)]
  PROVE  s \o t = r
  <1> DEFINE e == s \o t
  <1>1. /\ e \in Seq(Byte) /\ Len(e) = Len(s) + Len(t)
        /\ \A i \in 1 .. Len(s) + Len(t) : e[i] = IF i <= Len(s) THEN s[i] ELSE t[i - Len(s)]
    BY ConcatProperties
  <1> HIDE DEF e
  <1>2. Len(e) = Len(r) /\ \A i \in 1 .. Len(e) : e[i] = r[i]
    BY <1>1
  <1>3. e = r
    BY <1>1, <1>2, SeqEqual
  <1> QED BY <1>3 DEF e

LEMMA Concat1 ==
  ASSUME NEW a \in Byte, NEW b \in Byte
  PROVE  <<a>> \o <<b>> = <<a, b>>
  <1> DEFINE s == <<a>>
             t == <<b>>
             r == <<a, b>>
  <1>1. /\ s \in Seq(Byte) /\ t \in Seq(Byte) /\ r \in Seq(Byte)
        /\ Len(r) = Len(s) + Len(t)
        /\ \A i \in 1 .. Len(r) : r[i] = IF i <= Len(s) THEN s[i] ELSE t[i - Len(s)]
    OBVIOUS
  <1> HIDE DEF s, t, r
  <1>2. s \o t = r
    BY <1>1, Concat
  <1> QED BY <1>2 DEF s, t, r

LEMMA Concat2 ==
  ASSUME NEW a \in Byte, NEW b \in Byte, NEW c \in Byte, NEW d \in Byte
  PROVE  <<a, b>> \o <<c, d>> = <<a, b, c, d>>
  <1> DEFINE s == <<a, b>>
             t == <<c, d>>
             r == <<a, b, c, d>>
  <1>1. /\ s \in Seq(Byte) /\ t \in Seq(Byte) /\ r \in Seq(Byte)
        /\ Len(r) = Len(s) + Len(t)
        /\ \A i \in 1 .. Len(r) : r[i] = IF i <= Len(s) THEN s[i] ELSE t[i - Len(s)]
    OBVIOUS
  <1> HIDE DEF s, t, r
  <1>2. s \o t = r
    BY <1>1, Concat
  <1> QED BY <1>2 DEF s, t, r

LEMMA Concat3 ==
  ASSUME NEW h \in Byte, NEW a \in Byte, NEW b \in Byte
  PROVE  <<h>> \o <<a, b>> = <<h, a, b>>
  <1> DEFINE s == <<h>>
             t == <<a, b>>
             r == <<h, a, b>>
  <1>1. /\ s \in Seq(Byte) /\ t \in Seq(Byte) /\ r \in Seq(Byte)
        /\ Len(r) = Len(s) + Len(t)
        /\ \A i \in 1 .. Len(r) : r[i] = IF i <= Len(s) THEN s[i] ELSE t[i - Len(s)]
    OBVIOUS
  <1> HIDE DEF s, t, r
  <1>2. s \o t = r
    BY <1>1, Concat
  <1> QED BY <1>2 DEF s, t, r

LEMMA Elements4 ==
  ASSUME NEW s \in Seq(Byte), Len(s) = 4
  PROVE  s[1] \in Byte /\ s[2] \in Byte /\ s[3] \in Byte /\ s[4] \in Byte
  <1>1. ASSUME NEW n \in 1 .. Len(s)
        PROVE  s[n] \in Byte
    BY ElementOfSeq
  <1>2. 1 \in 1 .. Len(s) /\ 2 \in 1 .. Len(s) /\ 3 \in 1 .. Len(s) /\ 4 \in 1 .. Len(s)
    OBVIOUS
  <1> QED BY <1>1, <1>2, Zenon

LEMMA Concat4 ==
  ASSUME NEW h \in Byte, NEW s \in Seq(Byte), Len(s) = 4
  PROVE  <<h>> \o s = <<h, s[1], s[2], s[3], s[4]>>
  <1> DEFINE u == <<h>>
             r == <<h, s[1], s[2], s[3], s[4]>>
  <1>1. s[1] \in Byte /\ s[2] \in Byte /\ s[3] \in Byte /\ s[4] \in Byte
    BY Elements4
  <1>2. /\ u \in Seq(Byte) /\ r \in Seq(Byte) /\ Len(r) = Len(u) + Len(s)
        /\ \A i \in 1 .. Len(r) : r[i] = IF i <= Len(u) THEN u[i] ELSE s[i - Len(u)]
    BY <1>1
  <1> HIDE DEF u, r
  <1>3. u \o s = r
    BY <1>2, Concat
  <1> QED BY <1>3 DEF u, r

LEMMA Concat8 ==
  ASSUME NEW h \in Byte, NEW s \in Seq(Byte), Len(s) = 4, NEW t \in Seq(Byte), Len(t) = 4
  PROVE  <<h>> \o (s \o t) = <<h, s[1], s[2], s[3], s[4], t[1], t[2], t[3], t[4]>>
  <1> DEFINE u == <<h>>
             r == <<s[1], s[2], s[3], s[4], t[1], t[2], t[3], t[4]>>
             w == <<h, s[1], s[2], s[3], s[4], t[1], t[2], t[3], t[4]>>
  <1>1. /\ s[1] \in Byte /\ s[2] \in Byte /\ s[3] \in Byte /\ s[4] \in Byte
        /\ t[1] \in Byte /\ t[2] \in Byte /\ t[3] \in Byte /\ t[4] \in Byte
    BY Elements4
  <1>2. /\ r \in Seq(Byte) /\ Len(r) = Len(s) + Len(t)
        /\ \A i \in 1 .. Len(r) : r[i] = IF i <= Len(s) THEN s[i] ELSE t[i - Len(s)]
    BY <1>1
  <1>3. /\ u \in Seq(Byte) /\ w \in Seq(Byte) /\ Len(w) = Len(u) + Len(r)
        /\ \A i \in 1 .. Len(w) : w[i] = IF i <= Len(u) THEN u[i] ELSE r[i - Len(u)]
    BY <1>1
  <1> HIDE DEF u, r, w
  <1>4. s \o t = r
    BY <1>2, Concat
  <1>5. u \o r = w
    BY <1>2, <1>3, Concat
  <1>6. u \o (s \o t) = w
    BY <1>4, <1>5
  <1> QED BY <1>6 DEF u, w

LEMMA Pieces ==
  ASSUME NEW d \in Int
  PROVE  /\ PP_C(d) = <<TAKE8(d)>>
         /\ PP_n(d) = <<TAKE8(Shr8(d)), TAKE8(d)>>
         /\ PP_N(d) = <<TAKE8(Shr24(d)), TAKE8(Shr16(d)), TAKE8(Shr8(d)), TAKE8(d)>>
         /\ PP_Q(d) = PP_N(Shr32(d)) \o PP_N(d)
  <1>1. ASSUME NEW x \in Int
        PROVE  PP_C(x) = <<TAKE8(x)>>
    BY DEF PP_C, TAKE8
  <1>2. ASSUME NEW x \in Int
        PROVE  PP_n(x) = <<TAKE8(Shr8(x)), TAKE8(x)>>
    <2>1. Shr8(x) \in Int /\ TAKE8(Shr8(x)) \in Byte /\ TAKE8(x) \in Byte
      BY ShiftedIsInt, TakenIsByte
    <2>2. PP_n(x) = PP_C(Shr8(x)) \o PP_C(x)
      BY DEF PP_n, Shr8
    <2> QED BY <1>1, <2>1, <2>2, Concat1
  <1>3. PP_N(d) = <<TAKE8(Shr24(d)), TAKE8(Shr16(d)), TAKE8(Shr8(d)), TAKE8(d)>>
    <2>1. /\ Shr16(d) \in Int /\ Shr8(d) \in Int /\ Shr24(d) \in Int
          /\ TAKE8(Shr24(d)) \in Byte /\ TAKE8(Shr16(d)) \in Byte
          /\ TAKE8(Shr8(d)) \in Byte /\ TAKE8(d) \in Byte
      BY ShiftedIsInt, TakenIsByte
    <2>2. Shr8(Shr16(d)) = Shr24(d)
      BY SMT DEF Shr8, Shr16, Shr24
    <2>3. PP_N(d) = PP_n(Shr16(d)) \o PP_n(d)
      BY DEF PP_N, Shr16
    <2>4. /\ PP_n(Shr16(d)) = <<TAKE8(Shr24(d)), TAKE8(Shr16(d))>>
          /\ PP_n(d) = <<TAKE8(Shr8(d)), TAKE8(d)>>
      BY <1>2, <2>1, <2>2
    <2>5. <<TAKE8(Shr24(d)), TAKE8(Shr16(d))>> \o <<TAKE8(Shr8(d)), TAKE8(d)>>
            = <<TAKE8(Shr24(d)), TAKE8(Shr16(d)), TAKE8(Shr8(d)), TAKE8(d)>>
      BY <2>1, Concat2, Zenon
    <2> QED BY <2>3, <2>4, <2>5
  <1>4. PP_Q(d) = PP_N(Shr32(d)) \o PP_N(d)
    BY DEF PP_Q, Shr32, Shr16
  <1> QED BY <1>1, <1>2, <1>3, <1>4

LEMMA SameForms ==
  ASSUME NEW d \in Int, NEW h \in Byte
  PROVE  /\ <<h>> \o PP_C(d) = Buf2(h, d)
         /\ <<h>> \o PP_n(d) = Buf3(h, d)
         /\ <<h>> \o PP_N(d) = Buf5(h, d)
         /\ <<h>> \o PP_Q(d) = Buf9(h, d)
  <1> DEFINE u == Shr32(d)
  <1>1. u \in Int
    BY ShiftedIsInt
  <1>2. ASSUME NEW x \in Int
        PROVE  /\ TAKE8(Shr24(x)) \in Byte /\ TAKE8(Shr16(x)) \in Byte
               /\ TAKE8(Shr8(x)) \in Byte /\ TAKE8(x) \in Byte
    BY ShiftedIsInt, TakenIsByte
  <1> HIDE DEF u
  <1>3. <<h>> \o PP_C(d) = Buf2(h, d)
    <2>1. <<h>> \o <<TAKE8(d)>> = <<h, TAKE8(d)>>
      BY <1>2, Concat1, Zenon
    <2> QED BY <2>1, Pieces DEF Buf2
  <1>4. <<h>> \o PP_n(d) = Buf3(h, d)
    <2>1. <<h>> \o <<TAKE8(Shr8(d)), TAKE8(d)>> = <<h, TAKE8(Shr8(d)), TAKE8(d)>>
      BY <1>2, Concat3, Zenon
    <2> QED BY <2>1, Pieces DEF Buf3
  <1>5. <<h>> \o PP_N(d) = Buf5(h, d)
    <2> DEFINE s == <<TAKE8(Shr24(d)), TAKE8(Shr16(d)), TAKE8(Shr8(d)), TAKE8(d)>>
    <2>1. s \in Seq(Byte) /\ Len(s) = 4
      BY <1>2
    <2> HIDE DEF s
    <2>2. <<h>> \o s = <<h, s[1], s[2], s[3], s[4]>>
      BY <2>1, Concat4
    <2>3. PP_N(d) = s
      BY Pieces DEF s
    <2> QED BY <2>2, <2>3 DEF Buf5, s
  <1>6. <<h>> \o PP_Q(d) = Buf9(h, d)
    <2>1. PP_Q(d) = PP_N(u) \o PP_N(d)
      BY Pieces DEF u
    <2> DEFINE s == <<TAKE8(Shr24(u)), TAKE8(Shr16(u)), TAKE8(Shr8(u)), TAKE8(u)>>
               t == <<TAKE8(Shr24(d)), TAKE8(Shr16(d)), TAKE8(Shr8(d)), TAKE8(d)>>
    <2>2. s \in Seq(Byte) /\ Len(s) = 4 /\ t \in Seq(Byte) /\ Len(t) = 4
      BY <1>1, <1>2
    <2>3. PP_N(u) = s /\ PP_N(d) = t
      BY <1>1, Pieces
    <2>4. Buf9(h, d) = <<h, s[1], s[2], s[3], s[4], t[1], t[2], t[3], t[4]>>
      BY DEF Buf9, u
    <2> HIDE DEF s, t
    <2>5. <<h>> \o (s \o t) = <<h, s[1], s[2], s[3], s[4], t[1], t[2], t[3], t[4]>>
      BY <2>2, Concat8
    <2> QED BY <2>1, <2>3, <2>4, <2>5
  <1> QED BY <1>3, <1>4, <1>5, <1>6

(* The XS packer and the pure Perl packer write the same bytes for an integer, *)
(* although each chooses the form with comparisons of its own.                 *)
THEOREM SameIntegers ==
  ASSUME NEW v \in Int
  PROVE  PP_Integer(v) = Integer(v)
  <1>1. 204 \in Byte /\ 205 \in Byte /\ 206 \in Byte /\ 207 \in Byte
    BY DEF Byte
  <1>2. 208 \in Byte /\ 209 \in Byte /\ 210 \in Byte /\ 211 \in Byte
    BY DEF Byte
  <1>3. PP_C(v) = <<TAKE8(v)>>
    BY Pieces
  <1>4. ASSUME NEW h \in Byte
        PROVE  /\ <<h>> \o PP_C(v) = Buf2(h, v) /\ <<h>> \o PP_n(v) = Buf3(h, v)
               /\ <<h>> \o PP_N(v) = Buf5(h, v) /\ <<h>> \o PP_Q(v) = Buf9(h, v)
    BY SameForms
  <1>5. ASSUME v >= 0
        PROVE  PP_Integer(v) = Integer(v)
    <2> DEFINE a == <<204>> \o PP_C(v)
               b == <<205>> \o PP_n(v)
               c == <<206>> \o PP_N(v)
               d == <<207>> \o PP_Q(v)
    <2>1. (v <= 127) = (v < 128)
      OBVIOUS
    <2>2. (v \div 65536 < 65536) = (Shr32(v) < 1)
      BY <1>5, SMT DEF Shr32, Shr16
    <2>3. a = Buf2(204, v) /\ b = Buf3(205, v) /\ c = Buf5(206, v) /\ d = Buf9(207, v)
      BY <1>1, <1>2, <1>4, Zenon
    <2>4. PP_Integer(v) = IF v < 128 THEN PP_C(v)
                          ELSE IF v < 256 THEN a
                          ELSE IF v < 65536 THEN b
                          ELSE IF Shr32(v) < 1 THEN c ELSE d
      BY <1>5, <2>1, <2>2 DEF PP_Integer
    <2>5. Integer(v) = Unsigned(v)
      BY <1>5 DEF Integer
    <2> HIDE DEF a, b, c, d
    <2> QED BY <1>3, <2>3, <2>4, <2>5 DEF Unsigned
  <1>6. ASSUME ~(v >= 0)
        PROVE  PP_Integer(v) = Integer(v)
    <2> DEFINE a == <<208>> \o PP_C(v)
               b == <<209>> \o PP_n(v)
               c == <<210>> \o PP_N(v)
               d == <<211>> \o PP_Q(v)
    <2>1. a = Buf2(208, v) /\ b = Buf3(209, v) /\ c = Buf5(210, v) /\ d = Buf9(211, v)
      BY <1>1, <1>2, <1>4, Zenon
    <2>2. PP_Integer(v) = IF v >= -32 THEN PP_C(v)
                          ELSE IF v >= -128 THEN a
                          ELSE IF v >= -32768 THEN b
                          ELSE IF v >= -2147483647 - 1 THEN c ELSE d
      BY <1>6 DEF PP_Integer
    <2>3. Integer(v) = Negative(v)
      BY <1>6 DEF Integer
    <2> HIDE DEF a, b, c, d
    <2> QED BY <1>3, <2>1, <2>2, <2>3 DEF Negative
  <1> QED BY <1>5, <1>6

-------------------------------------------------------------------------------
(* The packer.                                                                 *)
-------------------------------------------------------------------------------
(* The data.                                                                   *)
LEMMA SVFields ==
  ASSUME NEW n \in Nat, NEW v \in SVs(n)
  PROVE  /\ "iv" \in DOMAIN v => v.iv \in Int
         /\ "nv" \in DOMAIN v => v.nv \in Seq(Byte)
         /\ "pv" \in DOMAIN v => v.pv \in Seq(Byte)
         /\ "rv" \in DOMAIN v => v.rv \in 1 .. n
  BY DEF SVs, Undef

LEMMA ObjectFields ==
  ASSUME NEW n \in Nat, NEW o \in Objects(n)
  PROVE  /\ IsArray(o) => o.items \in Seq(SVs(n) \cup {NoSV})
         /\ ~IsArray(o) => o.pairs \in Seq(Seq(Byte) \X SVs(n)) /\ o.counted \in Nat
  BY DEF Objects, IsArray

LEMMA LoopOverList ==
  ASSUME NEW n \in Nat, NEW o \in Objects(n)
  PROVE  DOMAIN Loop(o) \subseteq Nat
  <1>1. CASE IsArray(o)
    <2>1. o.items \in Seq(SVs(n) \cup {NoSV})
      BY <1>1, ObjectFields
    <2>2. DOMAIN o.items \subseteq Nat
      BY <2>1
    <2> QED BY <1>1, <2>2 DEF Loop
  <1>2. CASE ~IsArray(o)
    <2>1. o.pairs \in Seq(Seq(Byte) \X SVs(n))
      BY <1>2, ObjectFields
    <2>2. DOMAIN o.pairs \subseteq Nat
      BY <2>1
    <2> QED BY <1>2, <2>2 DEF Loop
  <1> QED BY <1>1, <1>2

LEMMA KeysAreSVs ==
  ASSUME NEW n \in Nat, NEW t \in Seq(Byte)
  PROVE  Str(t, FALSE) \in SVs(n)
  BY DEF SVs, Str

LEMMA SelvesType ==
  ASSUME NEW self \in Selves
  PROVE  self.prefer_integer \in {"on", "off", "absent"}
  <1>1. CASE self = TheClass
    BY <1>1 DEF TheClass
  <1>2. CASE self # TheClass
    BY <1>2, SelvesAssumption
  <1> QED BY <1>1, <1>2

LEMMA ArgumentsType ==
  ASSUME NEW c \in Arguments
  PROVE  /\ c.heap \in Seq(Objects(Len(c.heap)))
         /\ c.val \in SVs(Len(c.heap))
         /\ c.depth \in Int
         /\ c.self.prefer_integer \in {"on", "off", "absent"}
  <1>1. CASE c \in [heap : Heaps, val : {Ref(1)}, depth : Depths, self : Selves]
    <2>1. c.heap \in Seq(Objects(Len(c.heap))) /\ c.heap # << >>
      BY <1>1, HeapsAssumption
    <2>2. 1 \in 1 .. Len(c.heap)
      BY <2>1
    <2>3. c.val \in SVs(Len(c.heap))
      BY <1>1, <2>2 DEF SVs, Ref
    <2>4. c.depth \in Int /\ c.self \in Selves
      BY <1>1, DepthsAssumption
    <2> QED BY <2>1, <2>3, <2>4, SelvesType
  <1>2. CASE c \in [heap : {<< >>}, val : Scalars, depth : Depths, self : Selves]
    <2>1. c.heap = << >> /\ c.val \in SVs(0) /\ Len(<< >>) = 0
      BY <1>2, ScalarsAssumption
    <2>2. c.depth \in Int /\ c.self \in Selves
      BY <1>2, DepthsAssumption
    <2> QED BY <2>1, <2>2, SelvesType
  <1> QED BY <1>1, <1>2 DEF Arguments

LEMMA HeapType ==
  ASSUME TypeOK
  PROVE  /\ call.heap \in Seq(Objects(Len(call.heap)))
         /\ Len(call.heap) \in Nat
         /\ DOMAIN call.heap = 1 .. Len(call.heap)
         /\ call.depth \in Int
  <1>1. CASE call = NoCall
    BY <1>1 DEF NoCall
  <1>2. CASE call \in Arguments
    BY <1>2, ArgumentsType
  <1> QED BY <1>1, <1>2 DEF TypeOK

LEMMA DenotedIsInt ==
  ASSUME NEW t \in Seq(Byte), NEW sign \in {1, -1}
  PROVE  Denoted(t, sign) \in Int
  <1>1. \A k \in Nat : Digit(t, k) \in Int
    <2> SUFFICES ASSUME NEW k \in Nat
                 PROVE  Digit(t, k) \in Int
      OBVIOUS
    <2>1. CASE k < Len(t)
      <3>1. Len(t) - k \in 1 .. Len(t)
        BY <2>1
      <3>2. t[Len(t) - k] \in Byte
        BY <3>1
      <3>3. t[Len(t) - k] \in Int
        <4> DEFINE b == t[Len(t) - k]
        <4>1. b \in Byte
          BY <3>2
        <4> HIDE DEF b
        <4>2. b \in Int
          BY <4>1 DEF Byte
        <4> QED BY <4>2 DEF b
      <3>4. Digit(t, k) = t[Len(t) - k] - 48
        BY <2>1 DEF Digit
      <3> QED BY <3>3, <3>4
    <2>2. CASE ~(k < Len(t))
      BY <2>2 DEF Digit
    <2> QED BY <2>1, <2>2
  <1> HIDE DEF Digit
  <1>2. \A k \in Nat : FiveDigits(t, k) \in Int
    <2> SUFFICES ASSUME NEW k \in Nat
                 PROVE  FiveDigits(t, k) \in Int
      OBVIOUS
    <2> DEFINE a == Digit(t, k + 4)
               b == Digit(t, k + 3)
               c == Digit(t, k + 2)
               d == Digit(t, k + 1)
               e == Digit(t, k)
    <2>1. a \in Int /\ b \in Int /\ c \in Int /\ d \in Int /\ e \in Int
      BY <1>1
    <2> HIDE DEF a, b, c, d, e
    <2>2. 10000 * a + 1000 * b + 100 * c + 10 * d + e \in Int
      BY <2>1
    <2> QED BY <2>2 DEF FiveDigits, a, b, c, d, e
  <1> HIDE DEF FiveDigits
  <1>3. 100000 * sign \in Int /\ sign \in Int
    OBVIOUS
  <1>4. 100000 * sign * FiveDigits(t, 5) \in Int /\ sign * FiveDigits(t, 0) \in Int
    BY <1>2, <1>3
  <1> QED BY <1>4 DEF Denoted

LEMMA StringPieces ==
  ASSUME NEW s \in Seq(Byte)
  PROVE  String(s) \in Seq(Seq(Byte))
  <1>1. DigitsOf(s) \in Seq(Byte)
    BY DEF DigitsOf, Minus
  <1>2. StringInt(s) \in Int
    BY <1>1, DenotedIsInt DEF StringInt
  <1>3. Integer(StringInt(s)) \in Seq(Byte)
    BY <1>2, IntegerBytes
  <1>4. StrHeader(Len(s)) \in Seq(Byte) /\ BinHeader(Len(s)) \in Seq(Byte)
    BY HeaderBytes
  <1> QED BY <1>3, <1>4 DEF String

LEMMA HeaderPiece ==
  ASSUME NEW n \in Nat, NEW o \in Objects(n)
  PROVE  Header(o) \in Seq(Byte)
  <1>1. CASE IsArray(o)
    <2>1. o.items \in Seq(SVs(n) \cup {NoSV})
      BY <1>1, ObjectFields
    <2>2. Len(o.items) \in Nat
      BY <2>1
    <2> QED BY <1>1, <2>2, HeaderBytes DEF Header
  <1>2. CASE ~IsArray(o)
    BY <1>2, ObjectFields, HeaderBytes DEF Header
  <1> QED BY <1>1, <1>2

-------------------------------------------------------------------------------
(* Types.                                                                      *)
(* What may happen to a packer: a step of its own, or a call that a program    *)
(* makes with the result of the one before still in its hands.                 *)
Anew == \E c \in Arguments : Call(c)
Moves == [Next \/ Anew]_vars

LEMMA SpecMoves == [Next]_vars => Moves
  BY DEF Moves

LEMMA InitType == Init => TypeOK
  <1> SUFFICES ASSUME Init PROVE TypeOK
    OBVIOUS
  <1>1. \A S : << >> \in Seq(S)
    OBVIOUS
  <1>2. call = NoCall
    BY DEF Init
  <1>3. enc \in [prefer_int : BOOLEAN, canonical : BOOLEAN, utf8 : BOOLEAN]
    BY DEF Init, NoSettings
  <1>4. /\ out \in Seq(Byte) /\ pending \in Seq(Seq(Byte))
        /\ work \in Seq(SVs(Len(call.heap)))
        /\ loops \in Seq(LoopsOver(call.heap))
    BY <1>1 DEF Init
  <1>5. room \in Nat \ {0} /\ end \in Nat
    BY DEF Init
  <1>6. PreferInteger \in BOOLEAN
    BY DEF Init
  <1> QED BY <1>2, <1>3, <1>4, <1>5, <1>6 DEF Init, TypeOK

LEMMA SettingsType ==
  ASSUME NEW c \in Arguments, PreferInteger \in BOOLEAN
  PROVE  Settings(c.self) \subseteq
           [prefer_int : BOOLEAN, canonical : BOOLEAN, utf8 : BOOLEAN]
  BY ArgumentsType DEF Settings

LEMMA CallType ==
  ASSUME TypeOK, NEW c \in Arguments, Call(c)
  PROVE  TypeOK'
  <1>1. enc' \in [prefer_int : BOOLEAN, canonical : BOOLEAN, utf8 : BOOLEAN]
    BY SettingsType DEF Call, TypeOK
  <1>2. room' \in Nat \ {0}
    BY InitSizeAssumption, RoundingsAssumption DEF Call
  <1>3. work' \in Seq(SVs(Len(call'.heap)))
    BY ArgumentsType DEF Call
  <1> QED BY <1>1, <1>2, <1>3 DEF Call, TypeOK

LEMMA Predecessor ==
  ASSUME NEW r \in Nat \ {0}
  PROVE  r - 1 \in Nat /\ r - 1 < r
  OBVIOUS

LEMMA AppendBufType ==
  ASSUME TypeOK, NEW bytes \in Seq(Byte), AppendBuf(bytes)
  PROVE  out' \in Seq(Byte) /\ room' \in Nat \ {0} /\ end' \in Nat
  <1>1. out' \in Seq(Byte)
    BY DEF AppendBuf, TypeOK
  <1>2. CASE Len(out) + Len(bytes) >= end
    <2>1. Wanted(Len(bytes)) \in Nat \ {0}
      BY DEF Wanted, Larger, TypeOK
    <2>2. sv_grow(Wanted(Len(bytes)))
      BY <1>2 DEF AppendBuf
    <2>3. room' \in Nat \ {0}
      BY <2>1, <2>2, RoundingsAssumption DEF sv_grow, TypeOK
    <2>4. end' = room' - 1
      BY <1>2 DEF AppendBuf
    <2>5. end' \in Nat
      BY <2>3, <2>4, Predecessor
    <2> QED BY <1>1, <2>3, <2>5
  <1>3. CASE ~(Len(out) + Len(bytes) >= end)
    BY <1>1, <1>3 DEF AppendBuf, TypeOK
  <1> QED BY <1>2, <1>3

(* Of the sequences of the loops and of the SVs due.                           *)
LEMMA FirstAndRest ==
  ASSUME NEW S, NEW s \in Seq(S), s # << >>
  PROVE  Head(s) \in S /\ Tail(s) \in Seq(S)
  OBVIOUS

LEMMA LastAndFront ==
  ASSUME NEW S, NEW s \in Seq(S), s # << >>
  PROVE  /\ Len(s) \in Nat \ {0} /\ Len(s) \in DOMAIN s
         /\ Last(s) = s[Len(s)] /\ Last(s) \in S
         /\ Front(s) \in Seq(S) /\ Len(Front(s)) = Len(s) - 1
         /\ \A i \in DOMAIN Front(s) : i \in DOMAIN s /\ Front(s)[i] = s[i]
  <1>1. Len(s) \in Nat \ {0} /\ Len(s) \in DOMAIN s
    OBVIOUS
  <1>2. Front(s) = SubSeq(s, 1, Len(s) - 1)
    BY DEF Front
  <1>3. Last(s) = s[Len(s)]
    BY DEF Last
  <1>4. Last(s) \in S
    BY <1>1, <1>3
  <1>5. Front(s) \in Seq(S) /\ Len(Front(s)) = Len(s) - 1
    <2> DEFINE n == Len(s) - 1
    <2>1. n \in Nat /\ \A i \in 1 .. n : s[i] \in S
      BY <1>1
    <2>2. Front(s) = SubSeq(s, 1, n)
      BY <1>2
    <2> HIDE DEF n
    <2>3. SubSeq(s, 1, n) \in Seq(S) /\ Len(SubSeq(s, 1, n)) = n
      BY <2>1
    <2> QED BY <2>2, <2>3 DEF n
  <1>6. \A i \in DOMAIN Front(s) : i \in DOMAIN s /\ Front(s)[i] = s[i]
    BY <1>1, <1>2
  <1> QED BY <1>1, <1>3, <1>4, <1>5, <1>6

LEMMA DepthType ==
  ASSUME TypeOK
  PROVE  Depth \in Int
  <1>1. CASE loops = << >>
    BY <1>1, HeapType DEF Depth
  <1>2. CASE loops # << >>
    <2>1. Last(loops) \in LoopsOver(call.heap)
      BY <1>2, LastAndFront DEF TypeOK
    <2> QED BY <1>2, <2>1 DEF Depth, LoopsOver
  <1> QED BY <1>1, <1>2

LEMMA ScalarType ==
  ASSUME TypeOK, PackScalar
  PROVE  TypeOK'
  <1>1. SV \in SVs(Len(call.heap)) /\ work' = Tail(work)
    BY FirstAndRest DEF PackScalar, Due, SV, TypeOK, Bytes
  <1>2. work' \in Seq(SVs(Len(call.heap)))
    BY <1>1, FirstAndRest DEF PackScalar, Due, TypeOK
  <1>3. pending' \in Seq(Seq(Byte))
    <2>1. /\ Nil \in Seq(Byte) /\ True \in Seq(Byte) /\ False \in Seq(Byte)
          /\ <<203>> \in Seq(Byte)
      BY DEF Nil, True, False, Byte
    <2>2. "iv" \in DOMAIN SV => Integer(SV.iv) \in Seq(Byte)
      BY <1>1, HeapType, SVFields, IntegerBytes
    <2>3. "nv" \in DOMAIN SV => Double(SV.nv) \in Seq(Byte)
      BY <1>1, <2>1, HeapType, SVFields DEF Double
    <2>4. IsString(SV) => String(SV.pv) \in Seq(Seq(Byte))
      BY <1>1, HeapType, SVFields, StringPieces DEF IsString
    <2>5. \A s \in Seq(Byte) : <<s>> \in Seq(Seq(Byte))
      OBVIOUS
    <2> QED BY <2>1, <2>2, <2>3, <2>4, <2>5 DEF PackScalar, Bytes
  <1> QED BY <1>2, <1>3 DEF PackScalar, Bytes, TypeOK

LEMMA ContainerType ==
  ASSUME TypeOK, PackContainer
  PROVE  TypeOK'
  <1> DEFINE o == call.heap[SV.rv]
             new == [of |-> SV.rv, left |-> DOMAIN Loop(o), depth |-> Depth - 1]
  <1>1. SV \in SVs(Len(call.heap)) /\ work' \in Seq(SVs(Len(call.heap)))
    BY FirstAndRest DEF PackContainer, Due, SV, TypeOK
  <1>2. SV.rv \in DOMAIN call.heap
    BY <1>1, HeapType, SVFields DEF PackContainer, IsRef
  <1>3. o \in Objects(Len(call.heap))
    BY <1>2, HeapType
  <1>4. <<Header(o)>> \in Seq(Seq(Byte))
    BY <1>3, HeapType, HeaderPiece
  <1>5. new \in LoopsOver(call.heap)
    <2>1. DOMAIN Loop(o) \subseteq Nat
      <3> HIDE DEF o
      <3> QED BY <1>3, HeapType, LoopOverList
    <2>2. Depth - 1 \in Int
      BY DepthType
    <2> QED BY <1>2, <2>1, <2>2 DEF LoopsOver
  <1> HIDE DEF new, o
  <1>6. pending' = <<Header(o)>> /\ loops' = Append(loops, new)
    BY DEF PackContainer, new, o
  <1>7. loops' \in Seq(LoopsOver(call.heap))
    BY <1>5, <1>6 DEF TypeOK
  <1> QED BY <1>1, <1>4, <1>6, <1>7 DEF PackContainer, TypeOK

(* One loop fewer to do, or one element fewer.                                 *)
LEMMA TakenType ==
  ASSUME TypeOK, loops # << >>, NEW i, Taken(i)
  PROVE  loops' \in Seq(LoopsOver(call.heap))
  <1> DEFINE l == loops[Len(loops)]
             m == [l EXCEPT !.left = @ \ {i}]
  <1>1. Len(loops) \in DOMAIN loops /\ l \in LoopsOver(call.heap)
    BY LastAndFront DEF TypeOK
  <1>2. m \in LoopsOver(call.heap)
    BY <1>1 DEF LoopsOver
  <1>3. loops' = [loops EXCEPT ![Len(loops)] = m]
    BY <1>1 DEF Taken
  <1> HIDE DEF l, m
  <1> QED BY <1>1, <1>2, <1>3 DEF TypeOK

(* The array or hash of the innermost loop, and an element of it.              *)
LEMMA LoopingObject ==
  ASSUME TypeOK, loops # << >>
  PROVE  Object \in Objects(Len(call.heap)) /\ Left \subseteq DOMAIN Loop(Object)
  <1>1. Last(loops) \in LoopsOver(call.heap)
    BY LastAndFront DEF TypeOK
  <1> QED BY <1>1, HeapType DEF LoopsOver, Object, Left

LEMMA ItemType ==
  ASSUME TypeOK, NextItem
  PROVE  TypeOK'
  <1>1. PICK i \in Left :
          /\ Taken(i)
          /\ IF Object.items[i] = NoSV
             THEN pending' = <<Nil>> /\ UNCHANGED work
             ELSE work' = <<Object.items[i]>> /\ UNCHANGED pending
    BY DEF NextItem
  <1>2. loops # << >> /\ IsArray(Object)
    BY DEF NextItem, Looping
  <1>3. Object.items \in Seq(SVs(Len(call.heap)) \cup {NoSV}) /\ i \in DOMAIN Object.items
    BY <1>1, <1>2, LoopingObject, HeapType, ObjectFields DEF Loop
  <1>4. Object.items[i] \in SVs(Len(call.heap)) \cup {NoSV}
    BY <1>3
  <1>5. loops' \in Seq(LoopsOver(call.heap))
    BY <1>1, <1>2, TakenType
  <1>6. <<Nil>> \in Seq(Seq(Byte))
    BY DEF Nil, Byte
  <1>7. pending' \in Seq(Seq(Byte)) /\ work' \in Seq(SVs(Len(call.heap)))
    <2>1. CASE Object.items[i] = NoSV
      BY <1>1, <1>6, <2>1 DEF TypeOK
    <2>2. CASE Object.items[i] # NoSV
      <3>1. work' = <<Object.items[i]>> /\ pending' = pending
        BY <1>1, <2>2
      <3>2. Object.items[i] \in SVs(Len(call.heap))
        BY <1>4, <2>2
      <3> QED BY <3>1, <3>2 DEF TypeOK
    <2> QED BY <2>1, <2>2
  <1> QED BY <1>5, <1>7 DEF NextItem, TypeOK

LEMMA PairType ==
  ASSUME TypeOK, NextPair
  PROVE  TypeOK'
  <1>1. PICK i \in Left :
          Taken(i) /\ work' = <<Str(KeyOf(i), FALSE), Object.pairs[i][2]>>
    BY DEF NextPair
  <1>2. loops # << >> /\ ~IsArray(Object)
    BY DEF NextPair, Looping
  <1>3. /\ Object.pairs \in Seq(Seq(Byte) \X SVs(Len(call.heap)))
        /\ i \in DOMAIN Object.pairs
    BY <1>1, <1>2, LoopingObject, HeapType, ObjectFields DEF Loop
  <1>4. Object.pairs[i] \in Seq(Byte) \X SVs(Len(call.heap))
    BY <1>3
  <1>5. KeyOf(i) \in Seq(Byte) /\ Object.pairs[i][2] \in SVs(Len(call.heap))
    BY <1>4 DEF KeyOf
  <1>6. Str(KeyOf(i), FALSE) \in SVs(Len(call.heap))
    BY <1>5, HeapType, KeysAreSVs
  <1>7. work' \in Seq(SVs(Len(call.heap)))
    <2>1. \A S : \A v, w \in S : <<v, w>> \in Seq(S)
      OBVIOUS
    <2> QED BY <1>1, <1>5, <1>6, <2>1, Zenon
  <1>8. loops' \in Seq(LoopsOver(call.heap))
    BY <1>1, <1>2, TakenType
  <1> QED BY <1>7, <1>8 DEF NextPair, TypeOK

LEMMA NextType ==
  ASSUME TypeOK, Moves
  PROVE  TypeOK'
  <1>1. CASE Begin \/ Anew
    BY <1>1, CallType DEF Begin, Anew
  <1>2. CASE AppendPending
    <2>1. Head(pending) \in Seq(Byte) /\ Tail(pending) \in Seq(Seq(Byte))
      BY <1>2, FirstAndRest DEF AppendPending, TypeOK
    <2>2. out' \in Seq(Byte) /\ room' \in Nat \ {0} /\ end' \in Nat
      BY <1>2, <2>1, AppendBufType DEF AppendPending
    <2> QED BY <1>2, <2>1, <2>2 DEF AppendPending, TypeOK
  <1>3. CASE TooDeep
    BY <1>3 DEF TooDeep, Croak, TypeOK
  <1>4. CASE PackScalar
    BY <1>4, ScalarType
  <1>5. CASE PackUnsupported
    BY <1>5 DEF PackUnsupported, Croak, TypeOK
  <1>6. CASE PackContainer
    BY <1>6, ContainerType
  <1>7. CASE NextItem
    BY <1>7, ItemType
  <1>8. CASE NextPair
    BY <1>8, PairType
  <1>9. CASE EndLoop
    <2>1. Front(loops) \in Seq(LoopsOver(call.heap))
      BY <1>9, LastAndFront DEF EndLoop, Looping, TypeOK
    <2> QED BY <1>9, <2>1 DEF EndLoop, TypeOK
  <1>10. CASE Packed
    BY <1>10 DEF Packed, TypeOK
  <1>11. CASE Return
    <2>1. /\ \A S : << >> \in Seq(S)
          /\ call' = NoCall /\ enc' = NoSettings
          /\ room' = 1 /\ end' = 0 /\ result' = "none" /\ UNCHANGED PreferInteger
          /\ out' = << >> /\ pending' = << >> /\ work' = << >> /\ loops' = << >>
      BY <1>11 DEF Return
    <2>2. /\ NoSettings \in [prefer_int : BOOLEAN, canonical : BOOLEAN, utf8 : BOOLEAN]
          /\ 1 \in Nat \ {0} /\ 0 \in Nat
      BY DEF NoSettings
    <2> QED BY <2>1, <2>2 DEF TypeOK
  <1>12. CASE SetPreferInteger
    BY <1>12 DEF SetPreferInteger, TypeOK
  <1>13. CASE UNCHANGED vars
    BY <1>13 DEF vars, TypeOK
  <1> QED
    BY <1>1, <1>2, <1>3, <1>4, <1>5, <1>6, <1>7, <1>8, <1>9, <1>10, <1>11, <1>12, <1>13
    DEF Moves, Next, Step

(* Every variable keeps its type whatever data, settings and depths pack is    *)
(* called with: what is written is bytes, what is left of a loop is in its     *)
(* array or hash.                                                              *)
THEOREM TypeCorrect == Spec => []TypeOK
  <1> QED BY InitType, SpecMoves, NextType, PTL DEF Spec

-------------------------------------------------------------------------------
(* The output buffer.                                                          *)
LEMMA AppendBufHolds ==
  ASSUME TypeOK, BufferHolds, NEW bytes \in Seq(Byte), AppendBuf(bytes)
  PROVE  BufferHolds'
  <1> DEFINE n == Len(out)
             m == Len(bytes)
  <1>1. n \in Nat /\ m \in Nat /\ room \in Nat /\ end \in Nat /\ n < room /\ end < room
    BY DEF TypeOK, BufferHolds
  <1>2. Len(out') = n + m
    BY DEF AppendBuf, TypeOK
  <1>3. room' \in Nat
    BY AppendBufType
  <1>4. CASE n + m >= end
    <2>1. sv_grow(Wanted(m)) /\ end' = room' - 1
      BY <1>4 DEF AppendBuf
    <2>2. Wanted(m) \in Nat /\ n + m < Wanted(m)
      <3>1. n \div 4 \in Nat
        BY <1>1
      <3> HIDE DEF n, m
      <3>2. Larger(m, n \div 4) \in Nat /\ m <= Larger(m, n \div 4)
        BY <1>1, <3>1 DEF Larger
      <3>3. Wanted(m) = n + Larger(m, n \div 4) + 1
        BY DEF Wanted, n
      <3> HIDE DEF Larger
      <3> QED BY <1>1, <3>2, <3>3
    <2>3. room' >= Wanted(m)
      <3>1. CASE Wanted(m) <= room
        BY <1>1, <2>1, <2>2, <3>1 DEF sv_grow
      <3>2. CASE ~(Wanted(m) <= room)
        <4>1. PICK extra \in Roundings : room' = Wanted(m) + extra
          BY <2>1, <3>2 DEF sv_grow
        <4>2. extra \in Nat
          BY RoundingsAssumption
        <4> HIDE DEF m
        <4> QED BY <2>2, <4>1, <4>2
      <3> QED BY <3>1, <3>2
    <2>4. room' - 1 < room'
      BY AppendBufType, Predecessor
    <2>5. \A r, w, k \in Nat : k < w /\ r >= w => k < r
      OBVIOUS
    <2>6. n + m \in Nat
      BY <1>1
    <2> HIDE DEF n, m
    <2>7. n + m < room'
      BY <1>3, <2>2, <2>3, <2>5, <2>6
    <2>8. end' < room'
      BY <2>1, <2>4
    <2> QED BY <1>2, <2>7, <2>8 DEF BufferHolds
  <1>5. CASE ~(n + m >= end)
    <2>1. room' = room /\ end' = end
      BY <1>5 DEF AppendBuf
    <2> HIDE DEF n, m
    <2> QED BY <1>1, <1>2, <1>5, <2>1 DEF BufferHolds
  <1> QED BY <1>4, <1>5

LEMMA BufferKept ==
  ASSUME TypeOK, BufferHolds, Moves
  PROVE  BufferHolds'
  <1>1. ASSUME NEW c \in Arguments, Call(c)
        PROVE  BufferHolds'
    <2>1. PICK extra \in Roundings : room' = InitSize + 1 + extra
      BY <1>1 DEF Call
    <2>2. extra \in Nat /\ InitSize \in Nat
      BY RoundingsAssumption, InitSizeAssumption
    <2>3. out' = << >> /\ end' = 0
      BY <1>1 DEF Call
    <2>4. Len(<< >>) = 0 /\ 0 < InitSize + 1 + extra
      BY <2>2
    <2> QED BY <2>1, <2>3, <2>4 DEF BufferHolds
  <1>2. CASE Begin \/ Anew
    BY <1>1, <1>2 DEF Begin, Anew
  <1>3. CASE AppendPending
    <2>1. Head(pending) \in Seq(Byte)
      BY <1>3, FirstAndRest DEF AppendPending, TypeOK
    <2> QED BY <1>3, <2>1, AppendBufHolds DEF AppendPending
  <1>4. CASE Return
    BY <1>4 DEF Return, BufferHolds
  <1>5. ASSUME UNCHANGED <<out, room, end>>
        PROVE  BufferHolds'
    BY <1>5 DEF BufferHolds
  <1>6. CASE TooDeep \/ PackUnsupported
    BY <1>5, <1>6 DEF TooDeep, PackUnsupported, Croak
  <1>7. CASE PackScalar
    BY <1>5, <1>7 DEF PackScalar, Bytes
  <1>8. CASE PackContainer \/ NextItem \/ NextPair
    BY <1>5, <1>8 DEF PackContainer, NextItem, NextPair
  <1>9. CASE EndLoop \/ Packed \/ SetPreferInteger \/ UNCHANGED vars
    BY <1>5, <1>9 DEF EndLoop, Packed, SetPreferInteger, vars
  <1> QED
    BY <1>2, <1>3, <1>4, <1>6, <1>7, <1>8, <1>9 DEF Moves, Next, Step

LEMMA InitBuffer == Init => BufferHolds
  BY DEF Init, BufferHolds

(* For every sequence of appends, whatever surplus sv_grow gives: the bytes    *)
(* dmp_append_buf copies stay inside the allocation, and the NUL of xs_pack    *)
(* behind the last of them does too.                                           *)
THEOREM BufferBound == Spec => []BufferHolds
  <1> QED BY InitBuffer, BufferKept, SpecMoves, TypeCorrect, PTL DEF Spec

-------------------------------------------------------------------------------
(* The recursion.                                                              *)
LEMMA DepthIsLeft ==
  ASSUME TypeOK, RecursionBounded
  PROVE  Len(loops) \in Nat /\ Depth = call.depth - Len(loops)
  <1>1. Len(loops) \in Nat
    BY DEF TypeOK
  <1>2. CASE loops = << >>
    <2>1. Len(loops) = 0
      BY <1>2
    <2> QED BY <1>2, <2>1, HeapType DEF Depth
  <1>3. CASE loops # << >>
    <2>1. Last(loops) = loops[Len(loops)] /\ Len(loops) \in DOMAIN loops
      BY <1>3, LastAndFront DEF TypeOK
    <2> QED BY <1>1, <1>3, <2>1 DEF Depth, RecursionBounded
  <1> QED BY <1>1, <1>2, <1>3

LEMMA TakenDepth ==
  ASSUME TypeOK, RecursionBounded, loops # << >>, NEW i, Taken(i), UNCHANGED call
  PROVE  RecursionBounded'
  <1>1. loops \in Seq(LoopsOver(call.heap))
    BY DEF TypeOK
  <1>2. DOMAIN loops' = DOMAIN loops
    BY DEF Taken
  <1>3. \A k \in DOMAIN loops : loops'[k].depth = loops[k].depth
    BY <1>1 DEF Taken, LoopsOver
  <1> QED BY <1>2, <1>3 DEF RecursionBounded

LEMMA RecursionKept ==
  ASSUME TypeOK, RecursionBounded, Moves
  PROVE  RecursionBounded'
  <1>1. ASSUME loops' = << >>
        PROVE  RecursionBounded'
    BY <1>1 DEF RecursionBounded
  <1>2. CASE Begin \/ Anew \/ Return
    BY <1>1, <1>2 DEF Begin, Anew, Call, Return
  <1>3. ASSUME UNCHANGED <<loops, call>>
        PROVE  RecursionBounded'
    BY <1>3 DEF RecursionBounded
  <1>4. CASE AppendPending \/ TooDeep \/ PackUnsupported
    BY <1>3, <1>4 DEF AppendPending, TooDeep, PackUnsupported, Croak
  <1>5. CASE PackScalar
    BY <1>3, <1>5 DEF PackScalar, Bytes
  <1>6. CASE PackContainer
    <2> DEFINE new == [of |-> SV.rv, left |-> DOMAIN Loop(call.heap[SV.rv]),
                       depth |-> Depth - 1]
    <2>1. loops' = Append(loops, new) /\ call' = call /\ ~(Depth <= 0)
      BY <1>6 DEF PackContainer, DepthExceeded
    <2>2. /\ Len(loops) \in Nat /\ Depth = call.depth - Len(loops)
          /\ Depth \in Int /\ call.depth \in Int
      BY DepthIsLeft, DepthType, HeapType
    <2>3. new.depth = call.depth - (Len(loops) + 1) /\ new.depth >= 0
      BY <2>1, <2>2
    <2> HIDE DEF new
    <2>4. \A i \in DOMAIN loops' :
            IF i = Len(loops) + 1 THEN loops'[i] = new
                                  ELSE i \in DOMAIN loops /\ loops'[i] = loops[i]
      BY <2>1, <2>2 DEF TypeOK
    <2> QED BY <2>1, <2>3, <2>4 DEF RecursionBounded
  <1>7. CASE NextItem
    BY <1>7, TakenDepth DEF NextItem, Looping
  <1>8. CASE NextPair
    BY <1>8, TakenDepth DEF NextPair, Looping
  <1>9. CASE EndLoop
    <2>1. \A i \in DOMAIN Front(loops) : i \in DOMAIN loops /\ Front(loops)[i] = loops[i]
      BY <1>9, LastAndFront DEF EndLoop, Looping, TypeOK
    <2> QED BY <1>9, <2>1 DEF EndLoop, RecursionBounded
  <1>10. CASE Packed \/ SetPreferInteger \/ UNCHANGED vars
    BY <1>3, <1>10 DEF Packed, SetPreferInteger, vars
  <1> QED
    BY <1>2, <1>4, <1>5, <1>6, <1>7, <1>8, <1>9, <1>10 DEF Moves, Next, Step

LEMMA InitRecursion == Init => RecursionBounded
  BY DEF Init, RecursionBounded

(* Whatever the data refers to, the loops of _msgpack_pack_rv that run inside  *)
(* each other are never more than max_depth: each has one level less than the  *)
(* one around it, and none is entered at level 0.                              *)
THEOREM BoundedRecursion == Spec => []RecursionBounded
  <1> QED BY InitRecursion, RecursionKept, SpecMoves, TypeCorrect, PTL DEF Spec

-------------------------------------------------------------------------------
(* How deep the data goes.  Levels is a recursive function, of which nothing   *)
(* is known until it is shown to exist: by its first n values, for every n.    *)
-------------------------------------------------------------------------------
(* The first n levels of the data, computed one from the other.                *)
LevelThen(J, c, i) == J[i] = IF i = 0 THEN {c.val} ELSE Below(c.heap, J[i - 1])

LevelsUpTo(J, c, n) == \A i \in 0 .. n : LevelThen(J, c, i)

(* There are such levels, and there is only one choice of them.                *)
LEMMA LevelsExist ==
  ASSUME NEW c, NEW n \in Nat
  PROVE  \E J : LevelsUpTo(J, c, n)
  <1> DEFINE T == {k \in Nat : \E J : LevelsUpTo(J, c, k)}
  <1>1. 0 \in T
    <2> DEFINE J == [i \in {0} |-> {c.val}]
    <2>1. LevelThen(J, c, 0)
      BY DEF LevelThen
    <2> HIDE DEF J
    <2>2. LevelsUpTo(J, c, 0)
      BY <2>1 DEF LevelsUpTo
    <2> QED BY <2>2
  <1>2. ASSUME NEW k \in Nat, k \in T
        PROVE  k + 1 \in T
    <2>1. PICK J : LevelsUpTo(J, c, k)
      BY <1>2
    <2> DEFINE more == Below(c.heap, J[k])
               K == [i \in 0 .. k + 1 |-> IF i = k + 1 THEN more ELSE J[i]]
    <2>2. /\ \A i \in 0 .. k : K[i] = J[i]
          /\ K[k + 1] = more
      <3> HIDE DEF more
      <3> QED OBVIOUS
    <2> HIDE DEF K
    <2>3. ASSUME NEW i \in 0 .. k + 1
          PROVE  LevelThen(K, c, i)
      <3>1. CASE i = k + 1
        <4>1. i # 0 /\ i - 1 = k /\ k \in 0 .. k
          BY <3>1
        <4>2. K[i] = Below(c.heap, K[i - 1])
          BY <2>2, <3>1, <4>1, Zenon
        <4> QED BY <4>1, <4>2, Zenon DEF LevelThen
      <3>2. CASE i # k + 1
        <4>1. i \in 0 .. k /\ (i # 0 => i - 1 \in 0 .. k)
          BY <3>2
        <4>2. LevelThen(J, c, i)
          BY <2>1, <4>1 DEF LevelsUpTo
        <4> QED BY <2>2, <4>1, <4>2, Zenon DEF LevelThen
      <3> QED BY <3>1, <3>2
    <2>4. LevelsUpTo(K, c, k + 1)
      BY <2>3 DEF LevelsUpTo
    <2> QED BY <2>4
  <1> HIDE DEF T
  <1>3. n \in T
    BY <1>1, <1>2, Induction
  <1> QED BY <1>3 DEF T

LEMMA LevelsUnique ==
  ASSUME NEW c, NEW n \in Nat, NEW J, NEW K, LevelsUpTo(J, c, n), LevelsUpTo(K, c, n)
  PROVE  J[n] = K[n]
  <1> DEFINE T == {k \in Nat : k <= n => J[k] = K[k]}
  <1>1. 0 \in T
    <2>1. 0 \in 0 .. n
      OBVIOUS
    <2> QED BY <2>1 DEF LevelsUpTo, LevelThen
  <1>2. ASSUME NEW k \in Nat, k \in T
        PROVE  k + 1 \in T
    <2>1. CASE k + 1 <= n
      <3>1. J[k] = K[k]
        BY <1>2, <2>1
      <3>2. k + 1 \in 0 .. n /\ k + 1 # 0 /\ (k + 1) - 1 = k
        BY <2>1
      <3>3. LevelThen(J, c, k + 1) /\ LevelThen(K, c, k + 1)
        BY <3>2 DEF LevelsUpTo
      <3>4. J[k + 1] = K[k + 1]
        BY <3>1, <3>2, <3>3, Zenon DEF LevelThen
      <3> QED BY <3>4
    <2>2. CASE ~(k + 1 <= n)
      BY <2>2
    <2> QED BY <2>1, <2>2
  <1> HIDE DEF T
  <1>3. n \in T
    BY <1>1, <1>2, Induction
  <1> QED BY <1>3 DEF T

(* What is reached by n + 1 references is in what n of them lead to.           *)
LEMMA LevelsAre ==
  ASSUME NEW c
  PROVE  /\ Levels(c)[0] = {c.val}
         /\ \A k \in Nat : Levels(c)[k + 1] = Below(c.heap, Levels(c)[k])
  <1> DEFINE J(k) == CHOOSE J : LevelsUpTo(J, c, k)
             F(f) == [k \in Nat |-> IF k = 0 THEN {c.val} ELSE Below(c.heap, f[k - 1])]
             g == [k \in Nat |-> J(k)[k]]
  <1>1. \A k \in Nat : LevelsUpTo(J(k), c, k)
    BY LevelsExist, Zenon
  <1> HIDE DEF J
  <1>2. ASSUME NEW k \in Nat
        PROVE  g[k] = IF k = 0 THEN {c.val} ELSE Below(c.heap, g[k - 1])
    <2>1. LevelThen(J(k), c, k)
      <3>1. k \in 0 .. k
        OBVIOUS
      <3> QED BY <1>1, <3>1, Zenon DEF LevelsUpTo
    <2>2. CASE k = 0
      BY <2>1, <2>2 DEF LevelThen
    <2>3. CASE k # 0
      <3>1. k - 1 \in Nat /\ 0 .. k - 1 \subseteq 0 .. k
        BY <2>3
      <3>2. LevelsUpTo(J(k), c, k - 1) /\ LevelsUpTo(J(k - 1), c, k - 1)
        <4>1. LevelsUpTo(J(k), c, k) /\ LevelsUpTo(J(k - 1), c, k - 1)
          BY <1>1, <3>1, Zenon
        <4> QED BY <3>1, <4>1, Zenon DEF LevelsUpTo
      <3>3. J(k)[k - 1] = J(k - 1)[k - 1]
        <4> DEFINE a == J(k)
                   b == J(k - 1)
                   m == k - 1
        <4>1. m \in Nat /\ LevelsUpTo(a, c, m) /\ LevelsUpTo(b, c, m)
          BY <3>1, <3>2
        <4> HIDE DEF a, b, m
        <4>2. a[m] = b[m]
          BY <4>1, LevelsUnique
        <4> QED BY <4>2 DEF a, b, m
      <3>4. g[k - 1] = J(k - 1)[k - 1] /\ g[k] = J(k)[k]
        BY <3>1, Zenon
      <3> HIDE DEF g
      <3> QED BY <2>1, <2>3, <3>3, <3>4, Zenon DEF LevelThen
    <2> QED BY <2>2, <2>3
  <1>3. g = F(g)
    <2>1. F(g) = [k \in Nat |-> g[k]]
      <3>1. \A k \in Nat : (IF k = 0 THEN {c.val} ELSE Below(c.heap, g[k - 1])) = g[k]
        BY <1>2, Zenon
      <3> HIDE DEF g
      <3> QED BY <3>1, Zenon
    <2>2. g = [k \in Nat |-> g[k]]
      OBVIOUS
    <2> QED BY <2>1, <2>2, Zenon
  <1> HIDE DEF g
  <1> DEFINE L == CHOOSE f : f = F(f)
  <1>4. L = F(L)
    BY <1>3, Zenon
  <1>5. Levels(c) = L
    BY DEF Levels
  <1> HIDE DEF L
  <1>6. L[0] = {c.val}
    BY <1>4
  <1>7. ASSUME NEW k \in Nat
        PROVE  L[k + 1] = Below(c.heap, L[k])
    <2>1. k + 1 \in Nat /\ k + 1 # 0 /\ (k + 1) - 1 = k
      OBVIOUS
    <2>2. L[k + 1] = IF k + 1 = 0 THEN {c.val} ELSE Below(c.heap, L[(k + 1) - 1])
      BY <1>4, <2>1, Zenon
    <2> QED BY <2>1, <2>2, Zenon
  <1> QED BY <1>5, <1>6, <1>7

-------------------------------------------------------------------------------
(* The SVs of element i of an array or hash.                                   *)
Elements(o, i) ==
  IF IsArray(o) THEN {o.items[i]} \ {NoSV}
                ELSE {Str(o.pairs[i][1], FALSE), o.pairs[i][2]}

LEMMA SVsInElements ==
  ASSUME NEW n \in Nat, NEW o \in Objects(n)
  PROVE  SVsIn(o) = UNION {Elements(o, i) : i \in DOMAIN Loop(o)}
  <1>1. CASE IsArray(o)
    <2>1. Range(o.items) = {o.items[i] : i \in DOMAIN o.items}
      BY Zenon DEF Range
    <2> QED BY <1>1, <2>1 DEF SVsIn, Elements, Loop
  <1>2. CASE ~IsArray(o)
    <2> DEFINE key(i) == Str(o.pairs[i][1], FALSE)
               val(i) == o.pairs[i][2]
    <2>1. Range(o.pairs) = {o.pairs[i] : i \in DOMAIN o.pairs}
      BY Zenon DEF Range
    <2>2. SVsIn(o) = {val(i) : i \in DOMAIN o.pairs} \cup {key(i) : i \in DOMAIN o.pairs}
      BY <1>2, <2>1, Zenon DEF SVsIn
    <2>3. \A i : Elements(o, i) = {key(i), val(i)}
      BY <1>2, Zenon DEF Elements
    <2>4. Loop(o) = o.pairs
      BY <1>2, Zenon DEF Loop
    <2> HIDE DEF key, val
    <2>5. ASSUME NEW v
          PROVE  v \in SVsIn(o) <=> \E i \in DOMAIN Loop(o) : v \in Elements(o, i)
      BY <2>2, <2>3, <2>4
    <2> QED BY <2>5
  <1> QED BY <1>1, <1>2

-------------------------------------------------------------------------------
(* From v, which k references lead to, a chain of references goes on until     *)
(* level Limit(c).                                                             *)
Chain(c, P, k) ==
  \A n \in Nat : k <= n /\ n < Limit(c) =>
    IsRef(P[n]) /\ P[n + 1] \in SVsIn(c.heap[P[n].rv])

GoesDeep(c, v, k) == \E P : P[k] = v /\ Chain(c, P, k)

LEMMA LimitType ==
  ASSUME NEW c, c.depth \in Int
  PROVE  Limit(c) \in Nat
  BY DEF Limit

(* A chain may be empty, begin with a reference, or go on below one.           *)
LEMMA DeepAtLimit ==
  ASSUME NEW c, c.depth \in Int, NEW v
  PROVE  GoesDeep(c, v, Limit(c))
  <1> DEFINE P == [n \in Nat |-> v]
  <1>1. Limit(c) \in Nat
    BY LimitType
  <1>2. P[Limit(c)] = v
    BY <1>1
  <1>3. Chain(c, P, Limit(c))
    <2> HIDE DEF P
    <2>1. \A n \in Nat : ~(Limit(c) <= n /\ n < Limit(c))
      BY <1>1
    <2> QED BY <2>1, Zenon DEF Chain
  <1> HIDE DEF P
  <1> QED BY <1>2, <1>3 DEF GoesDeep

LEMMA DeepAbove ==
  ASSUME NEW c, c.depth \in Int, NEW v, IsRef(v), NEW k \in Nat, k < Limit(c),
         NEW w \in SVsIn(c.heap[v.rv]), GoesDeep(c, w, k + 1)
  PROVE  GoesDeep(c, v, k)
  <1>1. PICK P : P[k + 1] = w /\ Chain(c, P, k + 1)
    BY DEF GoesDeep
  <1> DEFINE Q == [n \in Nat |-> IF n = k THEN v ELSE P[n]]
  <1>2. Q[k] = v /\ \A n \in Nat : n # k => Q[n] = P[n]
    OBVIOUS
  <1> HIDE DEF Q
  <1>3. Limit(c) \in Nat
    BY LimitType
  <1>4. ASSUME NEW n \in Nat, k <= n, n < Limit(c)
        PROVE  IsRef(Q[n]) /\ Q[n + 1] \in SVsIn(c.heap[Q[n].rv])
    <2>1. n + 1 \in Nat /\ n + 1 # k
      BY <1>4
    <2>2. Q[n + 1] = P[n + 1]
      BY <1>2, <2>1
    <2>3. CASE n = k
      BY <1>1, <1>2, <2>2, <2>3
    <2>4. CASE n # k
      <3>1. k + 1 <= n
        BY <1>4, <2>4
      <3>2. IsRef(P[n]) /\ P[n + 1] \in SVsIn(c.heap[P[n].rv])
        BY <1>1, <1>4, <3>1 DEF Chain
      <3>3. Q[n] = P[n]
        BY <1>2, <2>4
      <3> QED BY <2>2, <3>2, <3>3
    <2> QED BY <2>3, <2>4
  <1>5. Chain(c, Q, k)
    BY <1>4, Zenon DEF Chain
  <1> QED BY <1>2, <1>5, Zenon DEF GoesDeep

LEMMA DeepBelow ==
  ASSUME NEW c, c.depth \in Int, NEW v, NEW k \in Nat, k < Limit(c), GoesDeep(c, v, k)
  PROVE  IsRef(v) /\ \E w \in SVsIn(c.heap[v.rv]) : GoesDeep(c, w, k + 1)
  <1>1. PICK P : P[k] = v /\ Chain(c, P, k)
    BY DEF GoesDeep
  <1>2. k <= k /\ Limit(c) \in Nat
    BY LimitType
  <1>3. IsRef(v) /\ P[k + 1] \in SVsIn(c.heap[v.rv])
    BY <1>1, <1>2, Zenon DEF Chain
  <1>4. Chain(c, P, k + 1)
    <2>1. \A n \in Nat : k + 1 <= n => k <= n
      OBVIOUS
    <2> QED BY <1>1, <2>1, Zenon DEF Chain
  <1>5. GoesDeep(c, P[k + 1], k + 1)
    BY <1>4, Zenon DEF GoesDeep
  <1> QED BY <1>3, <1>5

(* When something is Limit(c) references down, a chain from the argument goes  *)
(* there.                                                                      *)
LEMMA AtLimitIsDeep ==
  ASSUME NEW c, c.depth \in Int, Levels(c)[Limit(c)] # {}
  PROVE  GoesDeep(c, c.val, 0)
  <1> DEFINE l == Limit(c)
             Deep(k) == \E v \in Levels(c)[k] : GoesDeep(c, v, k)
             T == {n \in Nat : n <= l => Deep(l - n)}
  <1>1. l \in Nat
    BY LimitType
  <1>2. Deep(l)
    BY DeepAtLimit
  <1>3. ASSUME NEW k \in Nat, k < l, Deep(k + 1)
        PROVE  Deep(k)
    <2>1. PICK w \in Levels(c)[k + 1] : GoesDeep(c, w, k + 1)
      BY <1>3
    <2>2. w \in Below(c.heap, Levels(c)[k])
      BY <2>1, LevelsAre
    <2>3. PICK v \in Levels(c)[k] : IsRef(v) /\ w \in SVsIn(c.heap[v.rv])
      BY <2>2 DEF Below
    <2>4. GoesDeep(c, v, k)
      BY <1>3, <2>1, <2>3, DeepAbove
    <2> QED BY <2>3, <2>4
  <1> HIDE DEF Deep, l
  <1>4. 0 \in T
    <2>1. l - 0 = l
      BY <1>1
    <2> QED BY <1>2, <2>1
  <1>5. ASSUME NEW n \in Nat, n \in T
        PROVE  n + 1 \in T
    <2> SUFFICES ASSUME n + 1 <= l PROVE Deep(l - (n + 1))
      OBVIOUS
    <2> DEFINE k == l - (n + 1)
    <2>1. k \in Nat /\ k < l /\ k + 1 = l - n /\ n <= l
      BY <1>1
    <2>2. Deep(k + 1)
      BY <1>5, <2>1
    <2> HIDE DEF k
    <2>3. Deep(k)
      BY <1>3, <2>1, <2>2
    <2> QED BY <2>3 DEF k
  <1> HIDE DEF T
  <1>6. l \in T
    BY <1>1, <1>4, <1>5, Induction
  <1>7. Deep(0)
    <2>1. l <= l /\ l - l = 0
      BY <1>1
    <2> QED BY <1>6, <2>1 DEF T
  <1> QED BY <1>7, LevelsAre DEF Deep

-------------------------------------------------------------------------------
(* While pack runs, the SVs due and the arrays and hashes it loops over are    *)
(* where the references to them lead.                                          *)
OnTheirLevels ==
  result = "running" =>
    /\ \A i \in DOMAIN work : work[i] \in Levels(call)[Len(loops)]
    /\ \A i \in DOMAIN loops :
         \E v \in Levels(call)[i - 1] : IsRef(v) /\ loops[i].of = v.rv

(* Of the SVs due only the last can be a reference: a key comes before a value. *)
KeysComeFirst == \A i \in DOMAIN work : i < Len(work) => ~IsRef(work[i])

(* A chain that goes deep enough is never passed by: what it goes through is   *)
(* among the SVs due or what is left of the loops.                             *)
DeepIsAhead ==
  result = "running" /\ GoesDeep(call, call.val, 0) =>
    \/ \E i \in DOMAIN work : GoesDeep(call, work[i], Len(loops))
    \/ \E i \in DOMAIN loops, n \in Nat :
         /\ n \in loops[i].left
         /\ \E w \in Elements(call.heap[loops[i].of], n) : GoesDeep(call, w, i)

-------------------------------------------------------------------------------
(* What the actions do to the two stacks.                                      *)
LEMMA TakenLoops ==
  ASSUME TypeOK, loops # << >>, NEW i, Taken(i)
  PROVE  /\ Len(loops') = Len(loops) /\ DOMAIN loops' = DOMAIN loops
         /\ Len(loops) \in DOMAIN loops
         /\ \A k \in DOMAIN loops :
              /\ loops'[k].of = loops[k].of
              /\ k # Len(loops) => loops'[k].left = loops[k].left
         /\ loops'[Len(loops)].left = Left \ {i}
  <1>1. loops \in Seq(LoopsOver(call.heap)) /\ Len(loops) \in DOMAIN loops
    BY LastAndFront DEF TypeOK
  <1>2. \A k \in DOMAIN loops : loops[k] \in LoopsOver(call.heap)
    BY <1>1
  <1>3. Left = loops[Len(loops)].left
    BY <1>1, LastAndFront DEF Left
  <1> DEFINE l == loops[Len(loops)]
             m == [l EXCEPT !.left = @ \ {i}]
  <1>4. loops' = [loops EXCEPT ![Len(loops)] = m]
    BY <1>1 DEF Taken
  <1>5. m.of = l.of /\ m.left = l.left \ {i}
    BY <1>1, <1>2 DEF LoopsOver
  <1> HIDE DEF m
  <1>6. /\ DOMAIN loops' = DOMAIN loops
        /\ \A k \in DOMAIN loops : loops'[k] = IF k = Len(loops) THEN m ELSE loops[k]
    BY <1>1, <1>4
  <1>7. Len(loops') = Len(loops)
    BY <1>1, <1>4
  <1> QED BY <1>1, <1>3, <1>5, <1>6, <1>7

LEMMA OnlyOne ==
  ASSUME NEW S, NEW s \in Seq(S), s # << >>, ~(1 < Len(s))
  PROVE  DOMAIN s = {1} /\ Tail(s) = << >>
  <1>1. Len(s) \in Nat \ {0}
    BY EmptySeq, Zenon
  <1>2. Len(s) = 1
    <2>1. \A n \in Nat \ {0} : ~(1 < n) => n = 1
      OBVIOUS
    <2> QED BY <1>1, <2>1, Zenon
  <1>3. Tail(s) \in Seq(S) /\ Len(Tail(s)) = 0
    BY <1>2
  <1>4. Tail(s) = << >>
    <2>1. ASSUME Tail(s) # << >>
          PROVE  FALSE
      <3>1. Len(Tail(s)) \in Nat \ {0}
        BY <1>3, <2>1, EmptySeq, Zenon
      <3> QED BY <1>3, <3>1
    <2> QED BY <2>1
  <1> QED BY <1>2, <1>4

(* A reference is entered when it is the only SV due.                          *)
LEMMA EnteredLoops ==
  ASSUME TypeOK, KeysComeFirst, PackContainer
  PROVE  LET o == call.heap[SV.rv] IN
         /\ Len(loops) \in Nat /\ Len(loops') = Len(loops) + 1
         /\ DOMAIN loops' = DOMAIN loops \cup {Len(loops) + 1}
         /\ Len(loops) + 1 \notin DOMAIN loops
         /\ \A k \in DOMAIN loops : loops'[k] = loops[k]
         /\ loops'[Len(loops) + 1].of = SV.rv
         /\ loops'[Len(loops) + 1].left = DOMAIN Loop(o)
         /\ DOMAIN work = {1} /\ SV = work[1]
         /\ work' = << >> /\ IsRef(SV)
         /\ o \in Objects(Len(call.heap)) /\ Len(call.heap) \in Nat
         /\ UNCHANGED <<call, result>>
  <1> DEFINE o == call.heap[SV.rv]
             new == [of |-> SV.rv, left |-> DOMAIN Loop(o), depth |-> Depth - 1]
  <1>1. /\ loops' = Append(loops, new) /\ work' = Tail(work) /\ work # << >>
        /\ IsRef(SV) /\ UNCHANGED <<call, result>>
    BY DEF PackContainer, Due
  <1>2. loops \in Seq(LoopsOver(call.heap)) /\ work \in Seq(SVs(Len(call.heap)))
    BY DEF TypeOK
  <1>3. SV = work[1] /\ 1 \in DOMAIN work /\ SV \in SVs(Len(call.heap))
    BY <1>1, <1>2 DEF SV
  <1>4. ~(1 < Len(work))
    BY <1>1, <1>3 DEF KeysComeFirst
  <1>5. DOMAIN work = {1} /\ Tail(work) = << >>
    BY <1>1, <1>2, <1>4, OnlyOne, Zenon
  <1>6. o \in Objects(Len(call.heap)) /\ Len(call.heap) \in Nat
    <2>1. Len(call.heap) \in Nat /\ DOMAIN call.heap = 1 .. Len(call.heap)
          /\ call.heap \in Seq(Objects(Len(call.heap)))
      BY HeapType
    <2>2. SV.rv \in DOMAIN call.heap
      BY <1>1, <1>3, <2>1, SVFields DEF IsRef
    <2> QED BY <2>1, <2>2
  <1>7. new.of = SV.rv /\ new.left = DOMAIN Loop(o)
    OBVIOUS
  <1> HIDE DEF o, new
  <1>8. /\ Len(loops) \in Nat /\ Len(loops') = Len(loops) + 1
        /\ DOMAIN loops' = DOMAIN loops \cup {Len(loops) + 1}
        /\ Len(loops) + 1 \notin DOMAIN loops
        /\ \A k \in DOMAIN loops : loops'[k] = loops[k]
        /\ loops'[Len(loops) + 1] = new
    BY <1>1, <1>2
  <1> QED BY <1>1, <1>3, <1>5, <1>6, <1>7, <1>8 DEF o

(* NextItem and NextPair: an element is taken from what is left of the         *)
(* innermost loop, and its SVs are due.                                        *)
Expanded(i) ==
  /\ loops # << >> /\ work = << >> /\ i \in Left /\ Taken(i)
  /\ {work'[k] : k \in DOMAIN work'} = Elements(Object, i)
  /\ UNCHANGED <<call, result>>

LEMMA ItemExpanded ==
  ASSUME TypeOK, NextItem
  PROVE  /\ \E i : Expanded(i)
         /\ \A i \in DOMAIN work' : ~(i < Len(work'))
  <1>1. PICK i \in Left :
          /\ Taken(i)
          /\ IF Object.items[i] = NoSV
             THEN pending' = <<Nil>> /\ UNCHANGED work
             ELSE work' = <<Object.items[i]>> /\ UNCHANGED pending
    BY DEF NextItem
  <1>2. loops # << >> /\ work = << >> /\ IsArray(Object) /\ UNCHANGED <<call, result>>
    BY DEF NextItem, Looping
  <1> DEFINE v == Object.items[i]
  <1>3. Elements(Object, i) = {v} \ {NoSV}
    BY <1>2 DEF Elements
  <1>4. work' = IF v = NoSV THEN << >> ELSE <<v>>
    BY <1>1, <1>2
  <1> HIDE DEF v
  <1>5. /\ {work'[k] : k \in DOMAIN work'} = {v} \ {NoSV}
        /\ \A k \in DOMAIN work' : ~(k < Len(work'))
    <2>1. CASE v = NoSV
      <3>1. work' = << >>
        BY <1>4, <2>1
      <3> QED BY <2>1, <3>1
    <2>2. CASE v # NoSV
      <3>1. work' = <<v>> /\ {v} \ {NoSV} = {v}
        BY <1>4, <2>2
      <3> QED BY <3>1
    <2> QED BY <2>1, <2>2
  <1> QED BY <1>1, <1>2, <1>3, <1>5 DEF Expanded

LEMMA PairExpanded ==
  ASSUME TypeOK, NextPair
  PROVE  /\ \E i : Expanded(i)
         /\ \A i \in DOMAIN work' : i < Len(work') => ~IsRef(work'[i])
  <1>1. PICK i \in Left :
          Taken(i) /\ work' = <<Str(KeyOf(i), FALSE), Object.pairs[i][2]>>
    BY DEF NextPair
  <1>2. loops # << >> /\ work = << >> /\ ~IsArray(Object) /\ UNCHANGED <<call, result>>
    BY DEF NextPair, Looping
  <1> DEFINE k == Str(KeyOf(i), FALSE)
             v == Object.pairs[i][2]
  <1>3. Elements(Object, i) = {k, v}
    BY <1>2, Zenon DEF Elements, KeyOf
  <1>4. work' = <<k, v>>
    BY <1>1
  <1>5. ~IsRef(k)
    BY DEF IsRef, Str
  <1> HIDE DEF k, v
  <1>6. DOMAIN work' = {1, 2} /\ Len(work') = 2 /\ work'[1] = k /\ work'[2] = v
    BY <1>4
  <1>7. {work'[j] : j \in DOMAIN work'} = {k, v}
    BY <1>6
  <1>8. Expanded(i)
    BY <1>1, <1>2, <1>3, <1>7, Zenon DEF Expanded
  <1> QED BY <1>5, <1>6, <1>8

-------------------------------------------------------------------------------
(* No step puts a reference in front of another SV.                            *)
LEMMA KeysKept ==
  ASSUME TypeOK, KeysComeFirst, Moves
  PROVE  KeysComeFirst'
  <1>1. CASE \E c \in Arguments : Call(c)
    <2>1. PICK v : work' = <<v>>
      BY <1>1 DEF Call
    <2> QED BY <2>1 DEF KeysComeFirst
  <1>2. CASE Return
    BY <1>2 DEF Return, KeysComeFirst
  <1>3. CASE PackScalar \/ PackContainer
    <2>1. work' = Tail(work) /\ work # << >> /\ work \in Seq(SVs(Len(call.heap)))
      BY <1>3 DEF PackScalar, PackContainer, Bytes, Due, TypeOK
    <2>2. /\ Len(work') = Len(work) - 1 /\ Len(work) \in Nat
          /\ \A i \in DOMAIN work' : i \in Nat /\ i + 1 \in DOMAIN work /\ work'[i] = work[i + 1]
      BY <2>1
    <2> QED BY <2>2 DEF KeysComeFirst
  <1>4. CASE NextItem
    BY <1>4, ItemExpanded DEF KeysComeFirst
  <1>5. CASE NextPair
    BY <1>5, PairExpanded DEF KeysComeFirst
  <1>6. ASSUME UNCHANGED work
        PROVE  KeysComeFirst'
    BY <1>6 DEF KeysComeFirst
  <1>7. CASE AppendPending \/ TooDeep \/ PackUnsupported
    BY <1>6, <1>7 DEF AppendPending, TooDeep, PackUnsupported, Croak
  <1>8. CASE EndLoop \/ Packed \/ SetPreferInteger \/ UNCHANGED vars
    BY <1>6, <1>8 DEF EndLoop, Packed, SetPreferInteger, vars
  <1> QED
    BY <1>1, <1>2, <1>3, <1>4, <1>5, <1>7, <1>8 DEF Moves, Next, Anew, Begin, Step

-------------------------------------------------------------------------------
(* What a step adds is one reference further down than its array or hash.      *)
LEMMA LevelsKept ==
  ASSUME TypeOK, KeysComeFirst, OnTheirLevels, Moves
  PROVE  OnTheirLevels'
  <1> SUFFICES ASSUME result' = "running"
               PROVE  /\ \A i \in DOMAIN work' : work'[i] \in Levels(call')[Len(loops')]
                      /\ \A i \in DOMAIN loops' :
                           \E v \in Levels(call')[i - 1] : IsRef(v) /\ loops'[i].of = v.rv
    BY Zenon DEF OnTheirLevels
  <1>1. CASE \E c \in Arguments : Call(c)
    <2>1. work' = <<call'.val>> /\ loops' = << >>
      BY <1>1 DEF Call
    <2>2. Levels(call')[0] = {call'.val}
      BY LevelsAre
    <2>3. DOMAIN work' = {1} /\ work'[1] = call'.val /\ DOMAIN loops' = {} /\ Len(loops') = 0
      BY <2>1
    <2> QED BY <2>2, <2>3
  <1>2. CASE PackScalar
    <2>1. work' = Tail(work) /\ work # << >> /\ work \in Seq(SVs(Len(call.heap)))
          /\ UNCHANGED <<call, loops, result>>
      BY <1>2 DEF PackScalar, Bytes, Due, TypeOK
    <2>2. \A i \in DOMAIN work' : i + 1 \in DOMAIN work /\ work'[i] = work[i + 1]
      BY <2>1
    <2> QED BY <2>1, <2>2 DEF OnTheirLevels
  <1>3. CASE PackContainer
    <2>1. /\ Len(loops) \in Nat
          /\ DOMAIN loops' = DOMAIN loops \cup {Len(loops) + 1}
          /\ \A k \in DOMAIN loops : loops'[k] = loops[k]
          /\ loops'[Len(loops) + 1].of = SV.rv
          /\ DOMAIN work = {1} /\ SV = work[1]
          /\ work' = << >> /\ IsRef(SV)
          /\ UNCHANGED <<call, result>>
      BY <1>3, EnteredLoops
    <2>2. SV \in Levels(call)[Len(loops)] /\ (Len(loops) + 1) - 1 = Len(loops)
      BY <2>1 DEF OnTheirLevels
    <2>3. DOMAIN work' = {}
      BY <2>1
    <2>4. ASSUME NEW i \in DOMAIN loops'
          PROVE  \E v \in Levels(call)[i - 1] : IsRef(v) /\ loops'[i].of = v.rv
      <3>1. CASE i \in DOMAIN loops
        BY <2>1, <3>1 DEF OnTheirLevels
      <3>2. CASE i = Len(loops) + 1
        BY <2>1, <2>2, <3>2
      <3> QED BY <2>1, <2>4, <3>1, <3>2
    <2> QED BY <2>1, <2>3, <2>4
  <1>4. ASSUME NEW i, Expanded(i)
        PROVE  /\ \A j \in DOMAIN work' : work'[j] \in Levels(call')[Len(loops')]
               /\ \A j \in DOMAIN loops' :
                    \E v \in Levels(call')[j - 1] : IsRef(v) /\ loops'[j].of = v.rv
    <2> DEFINE l == Len(loops)
    <2>1. /\ Len(loops') = l /\ DOMAIN loops' = DOMAIN loops /\ l \in DOMAIN loops
          /\ \A k \in DOMAIN loops : loops'[k].of = loops[k].of
          /\ UNCHANGED <<call, result>> /\ i \in Left
          /\ {work'[k] : k \in DOMAIN work'} = Elements(Object, i)
      BY <1>4, TakenLoops DEF Expanded
    <2>2. l \in Nat \ {0} /\ Object = call.heap[loops[l].of]
      BY <1>4, LastAndFront DEF Expanded, TypeOK, Object
    <2>3. PICK v \in Levels(call)[l - 1] : IsRef(v) /\ loops[l].of = v.rv
      BY <2>1 DEF OnTheirLevels
    <2>4. Elements(Object, i) \subseteq SVsIn(Object)
      <3>1. /\ Object \in Objects(Len(call.heap)) /\ Left \subseteq DOMAIN Loop(Object)
            /\ Len(call.heap) \in Nat
        BY <1>4, LoopingObject, HeapType DEF Expanded
      <3>2. SVsIn(Object) = UNION {Elements(Object, k) : k \in DOMAIN Loop(Object)}
        BY <3>1, SVsInElements
      <3> QED BY <2>1, <3>1, <3>2
    <2>5. Levels(call)[l] = Below(call.heap, Levels(call)[l - 1])
      <3>1. l - 1 \in Nat /\ (l - 1) + 1 = l
        BY <2>2
      <3> QED BY <3>1, LevelsAre
    <2> HIDE DEF l
    <2>6. SVsIn(Object) \subseteq Levels(call)[l]
      BY <2>2, <2>3, <2>5 DEF Below
    <2>7. \A j \in DOMAIN work' : work'[j] \in Levels(call)[l]
      BY <2>1, <2>4, <2>6
    <2>8. \A j \in DOMAIN loops :
            \E w \in Levels(call)[j - 1] : IsRef(w) /\ loops'[j].of = w.rv
      BY <2>1 DEF OnTheirLevels
    <2> QED BY <2>1, <2>7, <2>8
  <1>5. CASE NextItem \/ NextPair
    BY <1>4, <1>5, ItemExpanded, PairExpanded
  <1>6. CASE EndLoop
    <2>1. /\ work' = << >> /\ UNCHANGED <<call, result>>
          /\ \A i \in DOMAIN loops' : i \in DOMAIN loops /\ loops'[i] = loops[i]
      BY <1>6, LastAndFront DEF EndLoop, Looping, TypeOK
    <2> QED BY <2>1 DEF OnTheirLevels
  <1>7. ASSUME UNCHANGED <<call, work, loops, result>>
        PROVE  /\ \A i \in DOMAIN work' : work'[i] \in Levels(call')[Len(loops')]
               /\ \A i \in DOMAIN loops' :
                    \E v \in Levels(call')[i - 1] : IsRef(v) /\ loops'[i].of = v.rv
    BY <1>7 DEF OnTheirLevels
  <1>8. CASE AppendPending \/ SetPreferInteger \/ UNCHANGED vars
    BY <1>7, <1>8 DEF AppendPending, SetPreferInteger, vars
  <1>9. CASE TooDeep \/ PackUnsupported \/ Packed \/ Return
    BY <1>9 DEF TooDeep, PackUnsupported, Croak, Packed, Return
  <1> QED
    BY <1>1, <1>2, <1>3, <1>5, <1>6, <1>8, <1>9 DEF Moves, Next, Anew, Begin, Step

-------------------------------------------------------------------------------
(* As many loops run as references were followed: never more than the limit.   *)
LEMMA NotPastLimit ==
  ASSUME TypeOK, RecursionBounded
  PROVE  /\ Len(loops) \in Nat /\ Limit(call) \in Nat
         /\ DepthExceeded => Len(loops) = Limit(call)
         /\ ~DepthExceeded => Len(loops) < Limit(call)
         /\ \A i \in DOMAIN loops : i \in Nat \ {0} /\ i <= Limit(call)
  <1>1. call.depth \in Int /\ Limit(call) \in Nat
    BY HeapType, LimitType
  <1>2. Len(loops) \in Nat /\ Depth = call.depth - Len(loops)
    BY DepthIsLeft
  <1>3. \A i \in DOMAIN loops : i \in Nat \ {0} /\ i <= call.depth
    <2>1. \A i \in DOMAIN loops : i \in Nat \ {0}
      BY DEF TypeOK
    <2>2. \A i \in DOMAIN loops : call.depth - i >= 0
      BY DEF RecursionBounded
    <2> QED BY <1>1, <2>1, <2>2
  <1>4. Len(loops) = 0 \/ Len(loops) \in DOMAIN loops
    BY <1>2 DEF TypeOK
  <1>5. Len(loops) <= Limit(call)
    BY <1>1, <1>2, <1>3, <1>4 DEF Limit
  <1> QED BY <1>1, <1>2, <1>3, <1>5 DEF DepthExceeded, Limit

(* The SV that is not a reference, or the reference that is entered, goes deep *)
(* only by what it refers to.                                                  *)
LEMMA DeepKept ==
  ASSUME TypeOK, RecursionBounded, KeysComeFirst, DeepIsAhead, Moves
  PROVE  DeepIsAhead'
  <1> DEFINE Due2 == \E i \in DOMAIN work' : GoesDeep(call', work'[i], Len(loops'))
             Left2 == \E i \in DOMAIN loops', n \in Nat :
                        /\ n \in loops'[i].left
                        /\ \E w \in Elements(call'.heap[loops'[i].of], n) :
                             GoesDeep(call', w, i)
  <1> SUFFICES ASSUME result' = "running", GoesDeep(call', call'.val, 0)
               PROVE  Due2 \/ Left2
    BY Zenon DEF DeepIsAhead
  <1>0. call.depth \in Int
    BY HeapType
  <1>1. CASE \E c \in Arguments : Call(c)
    <2>1. work' = <<call'.val>> /\ loops' = << >>
      BY <1>1 DEF Call
    <2>2. 1 \in DOMAIN work' /\ work'[1] = call'.val /\ Len(loops') = 0
      BY <2>1
    <2>3. Due2
      BY <2>2
    <2> QED BY <2>3, Zenon
  <1> SUFFICES ASSUME ~\E c \in Arguments : Call(c)
               PROVE  Due2 \/ Left2
    BY <1>1
  <1>a. result = "running" /\ call' = call
    <2> HIDE DEF Due2, Left2
    <2>1. CASE Step
      <3>1. CASE AppendPending \/ TooDeep \/ PackUnsupported
        BY <3>1 DEF AppendPending, TooDeep, PackUnsupported, Croak, Due
      <3>2. CASE PackScalar
        BY <3>2 DEF PackScalar, Bytes, Due
      <3>3. CASE PackContainer
        BY <3>3 DEF PackContainer, Due
      <3>4. CASE NextItem \/ NextPair
        BY <3>4 DEF NextItem, NextPair, Looping
      <3>5. CASE EndLoop \/ Packed
        BY <3>5 DEF EndLoop, Packed, Looping
      <3> QED BY <2>1, <3>1, <3>2, <3>3, <3>4, <3>5, Zenon DEF Step
    <2>2. CASE Begin
      BY <2>2 DEF Begin
    <2>3. CASE Return
      BY <2>3 DEF Return
    <2>4. CASE SetPreferInteger
      BY <2>4 DEF SetPreferInteger
    <2>5. CASE UNCHANGED vars
      BY <2>5 DEF vars
    <2> QED BY <2>1, <2>2, <2>3, <2>4, <2>5, Zenon DEF Moves, Next, Anew
  <1>2. \/ \E i \in DOMAIN work : GoesDeep(call, work[i], Len(loops))
        \/ \E i \in DOMAIN loops, n \in Nat :
             /\ n \in loops[i].left
             /\ \E w \in Elements(call.heap[loops[i].of], n) : GoesDeep(call, w, i)
    BY <1>a, Zenon DEF DeepIsAhead
  <1>3. CASE PackScalar
    <2>1. /\ work' = Tail(work) /\ work # << >> /\ work \in Seq(SVs(Len(call.heap)))
          /\ UNCHANGED <<call, loops>> /\ ~DepthExceeded
      BY <1>3 DEF PackScalar, Bytes, Due, TypeOK
    <2>2. ~IsRef(SV)
      <3>1. SV \in SVs(Len(call.heap))
        BY <2>1, FirstAndRest DEF SV
      <3> QED BY <1>3, <3>1 DEF PackScalar, SVs, Undef, IsRef, IsString, ScalarRef
    <2>3. ~GoesDeep(call, work[1], Len(loops))
      <3>1. SV = work[1]
        BY <2>1 DEF SV
      <3> QED BY <1>0, <2>1, <2>2, <3>1, NotPastLimit, DeepBelow
    <2>4. \A i \in DOMAIN work : i = 1 \/ (i - 1 \in DOMAIN work' /\ work'[i - 1] = work[i])
      BY <2>1
    <2>5. (\E i \in DOMAIN work : GoesDeep(call, work[i], Len(loops))) => Due2
      BY <1>a, <2>1, <2>3, <2>4
    <2> QED BY <1>a, <1>2, <2>1, <2>5
  <1>4. CASE PackContainer
    <2> DEFINE o == call.heap[SV.rv]
               l == Len(loops)
    <2>1. /\ l \in Nat /\ Len(loops') = l + 1
          /\ DOMAIN loops' = DOMAIN loops \cup {l + 1}
          /\ l + 1 \notin DOMAIN loops
          /\ \A k \in DOMAIN loops : loops'[k] = loops[k]
          /\ loops'[l + 1].of = SV.rv
          /\ loops'[l + 1].left = DOMAIN Loop(o)
          /\ DOMAIN work = {1} /\ SV = work[1]
          /\ work' = << >> /\ IsRef(SV)
          /\ o \in Objects(Len(call.heap)) /\ Len(call.heap) \in Nat
      BY <1>4, EnteredLoops
    <2>2. l < Limit(call)
      BY <1>4, NotPastLimit DEF PackContainer
    <2>3. ASSUME GoesDeep(call, SV, l)
          PROVE  Left2
      <3>1. PICK w \in SVsIn(o) : GoesDeep(call, w, l + 1)
        BY <1>0, <2>1, <2>2, <2>3, DeepBelow
      <3>2. PICK n \in DOMAIN Loop(o) : w \in Elements(o, n)
        <4> HIDE DEF o
        <4> QED BY <2>1, <3>1, SVsInElements
      <3>3. DOMAIN Loop(o) \subseteq Nat
        <4> HIDE DEF o
        <4> QED BY <2>1, LoopOverList
      <3>4. /\ l + 1 \in DOMAIN loops' /\ n \in Nat /\ n \in loops'[l + 1].left
            /\ w \in Elements(call'.heap[loops'[l + 1].of], n) /\ GoesDeep(call', w, l + 1)
        BY <1>a, <2>1, <3>1, <3>2, <3>3
      <3> HIDE DEF l, o
      <3> QED BY <3>4
    <2>4. ASSUME NEW i \in DOMAIN loops, NEW n \in Nat, n \in loops[i].left,
                 NEW w \in Elements(call.heap[loops[i].of], n), GoesDeep(call, w, i)
          PROVE  Left2
      <3>1. i \in DOMAIN loops' /\ loops'[i] = loops[i]
        BY <2>1
      <3> QED BY <1>a, <2>4, <3>1
    <2> HIDE DEF Due2, Left2, o
    <2> QED BY <1>2, <2>1, <2>3, <2>4
  <1>5. ASSUME NEW i, Expanded(i)
        PROVE  Due2 \/ Left2
    <2> DEFINE l == Len(loops)
    <2>1. /\ Len(loops') = l /\ DOMAIN loops' = DOMAIN loops /\ l \in DOMAIN loops
          /\ \A k \in DOMAIN loops :
               /\ loops'[k].of = loops[k].of
               /\ k # l => loops'[k].left = loops[k].left
          /\ loops'[l].left = Left \ {i}
          /\ {work'[k] : k \in DOMAIN work'} = Elements(Object, i)
          /\ work = << >>
      BY <1>5, TakenLoops DEF Expanded
    <2>2. Object = call.heap[loops[l].of] /\ Left = loops[l].left
      BY <1>5, LastAndFront DEF Expanded, TypeOK, Object, Left
    <2>3. DOMAIN work = {}
      BY <2>1
    <2>4. PICK k \in DOMAIN loops, n \in Nat :
            /\ n \in loops[k].left
            /\ \E w \in Elements(call.heap[loops[k].of], n) : GoesDeep(call, w, k)
      BY <1>2, <2>3
    <2>5. PICK w \in Elements(call.heap[loops[k].of], n) : GoesDeep(call, w, k)
      BY <2>4
    <2> HIDE DEF l
    <2>6. CASE k = l /\ n = i
      <3>1. w \in {work'[j] : j \in DOMAIN work'} /\ GoesDeep(call', w, Len(loops'))
        BY <1>a, <2>1, <2>2, <2>5, <2>6
      <3>2. Due2
        BY <3>1
      <3> QED BY <3>2
    <2>7. CASE ~(k = l /\ n = i)
      <3>1. /\ k \in DOMAIN loops' /\ n \in loops'[k].left
            /\ w \in Elements(call'.heap[loops'[k].of], n) /\ GoesDeep(call', w, k)
        BY <1>a, <2>1, <2>2, <2>4, <2>5, <2>7
      <3>2. Left2
        BY <3>1
      <3> QED BY <3>2
    <2> QED BY <2>6, <2>7
  <1>6. CASE NextItem \/ NextPair
    BY <1>5, <1>6, ItemExpanded, PairExpanded
  <1>7. CASE EndLoop
    <2>1. /\ work = << >> /\ loops # << >> /\ loops' = Front(loops) /\ Left = {}
          /\ loops \in Seq(LoopsOver(call.heap))
      BY <1>7 DEF EndLoop, Looping, TypeOK
    <2>2. /\ Left = loops[Len(loops)].left /\ Len(loops') = Len(loops) - 1
          /\ \A i \in DOMAIN loops' : loops'[i] = loops[i]
      BY <2>1, LastAndFront DEF Left
    <2>3. DOMAIN work = {} /\ \A i \in DOMAIN loops : i = Len(loops) \/ i \in DOMAIN loops'
      <3>1. loops' \in Seq(LoopsOver(call.heap)) /\ Len(loops) \in Nat
        BY <2>1, LastAndFront
      <3>2. DOMAIN loops' = 1 .. Len(loops) - 1 /\ DOMAIN loops = 1 .. Len(loops)
        BY <2>1, <2>2, <3>1
      <3> QED BY <2>1, <3>1, <3>2
    <2> HIDE DEF Due2
    <2> QED BY <1>a, <1>2, <2>1, <2>2, <2>3
  <1>8. ASSUME UNCHANGED <<work, loops>>
        PROVE  Due2 \/ Left2
    BY <1>a, <1>2, <1>8
  <1>9. CASE AppendPending \/ SetPreferInteger \/ UNCHANGED vars
    BY <1>8, <1>9 DEF AppendPending, SetPreferInteger, vars
  <1>10. CASE TooDeep \/ PackUnsupported \/ Packed \/ Return
    BY <1>10 DEF TooDeep, PackUnsupported, Croak, Packed, Return
  <1> QED
    BY <1>3, <1>4, <1>6, <1>7, <1>9, <1>10 DEF Moves, Next, Anew, Begin, Step

-------------------------------------------------------------------------------
NestingInv == OnTheirLevels /\ KeysComeFirst /\ DeepIsAhead /\ NestingLimit

LEMMA LimitKept ==
  ASSUME TypeOK, RecursionBounded, OnTheirLevels, DeepIsAhead, NestingLimit, Moves
  PROVE  NestingLimit'
  <1>1. CASE TooDeep
    <2>1. /\ result = "running" /\ work # << >> /\ DepthExceeded /\ result' = "nesting"
          /\ UNCHANGED call /\ work \in Seq(SVs(Len(call.heap)))
      BY <1>1 DEF TooDeep, Due, Croak, TypeOK
    <2>2. 1 \in DOMAIN work
      BY <2>1
    <2>3. work[1] \in Levels(call)[Limit(call)]
      BY <2>1, <2>2, NotPastLimit DEF OnTheirLevels
    <2>4. AtLimit' # {}
      BY <2>1, <2>3 DEF AtLimit
    <2> QED BY <2>1, <2>4 DEF NestingLimit
  <1>2. CASE Packed
    <2>1. /\ result = "running" /\ work = << >> /\ loops = << >>
          /\ result' = "packed" /\ UNCHANGED call
      BY <1>2 DEF Packed
    <2>2. DOMAIN work = {} /\ DOMAIN loops = {}
      BY <2>1
    <2>3. ~GoesDeep(call, call.val, 0)
      BY <2>1, <2>2 DEF DeepIsAhead
    <2>4. Levels(call)[Limit(call)] = {}
      BY <2>3, HeapType, AtLimitIsDeep
    <2>5. AtLimit' = {}
      BY <2>1, <2>4 DEF AtLimit
    <2> QED BY <2>1, <2>5 DEF NestingLimit
  <1>3. ASSUME UNCHANGED <<call, result>>
        PROVE  NestingLimit'
    BY <1>3 DEF NestingLimit, AtLimit
  <1>4. CASE SetPreferInteger \/ UNCHANGED vars
    BY <1>3, <1>4 DEF SetPreferInteger, vars
  <1>5. ASSUME result' \notin {"nesting", "packed"}
        PROVE  NestingLimit'
    BY <1>5 DEF NestingLimit
  <1>6. CASE PackUnsupported \/ Return
    BY <1>5, <1>6 DEF PackUnsupported, Croak, Return
  <1>7. CASE Begin \/ Anew
    BY <1>5, <1>7 DEF Begin, Anew, Call
  <1>8. CASE AppendPending \/ PackContainer \/ EndLoop
    BY <1>3, <1>8 DEF AppendPending, PackContainer, EndLoop
  <1>9. CASE PackScalar
    BY <1>3, <1>9 DEF PackScalar, Bytes
  <1>10. CASE NextItem \/ NextPair
    BY <1>3, <1>10 DEF NextItem, NextPair
  <1> QED
    BY <1>1, <1>2, <1>4, <1>6, <1>7, <1>8, <1>9, <1>10 DEF Moves, Next, Step

LEMMA InitNesting == Init => NestingInv
  BY DEF Init, NestingInv, OnTheirLevels, KeysComeFirst, DeepIsAhead, NestingLimit

LEMMA NestingKept ==
  ASSUME TypeOK, RecursionBounded, NestingInv, Moves
  PROVE  NestingInv'
  BY LevelsKept, KeysKept, DeepKept, LimitKept DEF NestingInv

(* Whatever the data, shared parts and cycles included, and whatever the       *)
(* max_depth: pack croaks of nesting when an SV is that many references down,  *)
(* and for no other data.                                                      *)
THEOREM NestingDecided == Spec => []NestingLimit
  <1>1. NestingInv => NestingLimit
    BY DEF NestingInv
  <1> QED
    BY <1>1, InitNesting, NestingKept, SpecMoves, TypeCorrect, BoundedRecursion, PTL DEF Spec

-------------------------------------------------------------------------------
(* What is defined from its predecessor exists: first as far as any n, then    *)
(* for all natural numbers.                                                    *)
IteratedTo(J, x, F, n) ==
  J[0] = x /\ \A i \in 0 .. n - 1 : J[i + 1] = F[i][J[i]]

LEMMA IteratedAlike ==
  ASSUME NEW J, NEW K, NEW x, NEW F, NEW m \in Nat, NEW n \in Nat,
         IteratedTo(J, x, F, m), IteratedTo(K, x, F, n)
  PROVE  \A i \in Nat : i <= m /\ i <= n => J[i] = K[i]
  <1> DEFINE T == {i \in Nat : i <= m /\ i <= n => J[i] = K[i]}
  <1>1. 0 \in T
    BY DEF IteratedTo
  <1>2. ASSUME NEW i \in Nat, i \in T
        PROVE  i + 1 \in T
    <2> SUFFICES ASSUME i + 1 <= m, i + 1 <= n
                 PROVE  J[i + 1] = K[i + 1]
      OBVIOUS
    <2>1. i \in 0 .. m - 1 /\ i \in 0 .. n - 1 /\ J[i] = K[i]
      BY <1>2
    <2> QED BY <2>1 DEF IteratedTo
  <1>3. Nat \subseteq T
    <2> HIDE DEF T
    <2> QED BY <1>1, <1>2, Induction
  <1> QED BY <1>3

Iterates(J, X, x, F) ==
  J \in [Nat -> X] /\ J[0] = x /\ \A i \in Nat : J[i + 1] = F[i][J[i]]

LEMMA Iteration ==
  ASSUME NEW X, NEW x \in X, NEW F \in [Nat -> [X -> X]]
  PROVE  \E J : Iterates(J, X, x, F)
  <1> DEFINE T == {n \in Nat : \E J \in [0 .. n -> X] : IteratedTo(J, x, F, n)}
  <1>1. 0 \in T
    <2>1. [i \in 0 .. 0 |-> x] \in [0 .. 0 -> X] /\ IteratedTo([i \in 0 .. 0 |-> x], x, F, 0)
      BY DEF IteratedTo
    <2> QED BY <2>1
  <1>2. ASSUME NEW n \in Nat, n \in T
        PROVE  n + 1 \in T
    <2>1. PICK J \in [0 .. n -> X] : IteratedTo(J, x, F, n)
      BY <1>2 DEF T
    <2> DEFINE K == [i \in 0 .. n + 1 |-> IF i <= n THEN J[i] ELSE F[n][J[n]]]
    <2>2. K \in [0 .. n + 1 -> X]
      <3>1. J[n] \in X /\ F[n][J[n]] \in X
        OBVIOUS
      <3> QED BY <3>1
    <2>3. IteratedTo(K, x, F, n + 1)
      <3>1. K[0] = x
        BY <2>1 DEF IteratedTo
      <3>2. ASSUME NEW i \in 0 .. (n + 1) - 1
            PROVE  K[i + 1] = F[i][K[i]]
        <4>1. CASE i = n
          <5>1. K[n + 1] = F[n][J[n]] /\ K[n] = J[n]
            OBVIOUS
          <5> QED BY <4>1, <5>1
        <4>2. CASE i # n
          <5>1. i \in 0 .. n - 1 /\ i + 1 <= n /\ i + 1 \in 0 .. n + 1 /\ i \in 0 .. n + 1
            BY <4>2
          <5>2. K[i + 1] = J[i + 1] /\ K[i] = J[i]
            BY <5>1
          <5> QED BY <5>1, <5>2, <2>1 DEF IteratedTo
        <4> QED BY <4>1, <4>2
      <3> HIDE DEF K
      <3> QED BY <3>1, <3>2 DEF IteratedTo
    <2> HIDE DEF K
    <2> QED BY <2>2, <2>3
  <1>3. \A n \in Nat : \E J \in [0 .. n -> X] : IteratedTo(J, x, F, n)
    <2>1. Nat \subseteq T
      <3> HIDE DEF T
      <3> QED BY <1>1, <1>2, Induction
    <2> QED BY <2>1
  <1> DEFINE P(n) == CHOOSE J \in [0 .. n -> X] : IteratedTo(J, x, F, n)
             R == [n \in Nat |-> P(n)[n]]
  <1>4. ASSUME NEW n \in Nat
        PROVE  P(n) \in [0 .. n -> X] /\ IteratedTo(P(n), x, F, n)
    <2>1. \E J \in [0 .. n -> X] : IteratedTo(J, x, F, n)
      BY <1>3
    <2> QED BY <2>1, Zenon
  <1> HIDE DEF P
  <1>5. R \in [Nat -> X]
    BY <1>4
  <1>6. R[0] = x
    BY <1>4 DEF IteratedTo
  <1>7. ASSUME NEW n \in Nat
        PROVE  R[n + 1] = F[n][R[n]]
    <2>1. P(n + 1)[n + 1] = F[n][P(n + 1)[n]]
      <3>1. n + 1 \in Nat /\ n \in 0 .. (n + 1) - 1
        OBVIOUS
      <3> QED BY <3>1, <1>4 DEF IteratedTo
    <2>2. P(n + 1)[n] = P(n)[n]
      <3>1. n + 1 \in Nat /\ n <= n + 1 /\ n <= n
        OBVIOUS
      <3> QED BY <3>1, <1>4, IteratedAlike
    <2> QED BY <2>1, <2>2
  <1> QED BY <1>5, <1>6, <1>7 DEF Iterates

-------------------------------------------------------------------------------
(* What packing may result in, and nothing packed.                             *)
Results ==
  {PP_bytes(b) : b \in Seq(Byte)} \cup {PP_died(why) : why \in {"nesting", "unsupported"}}
Nothing == PP_bytes(<< >>)

LEMMA ResultFields ==
  ASSUME NEW r \in Results
  PROVE  /\ r.status \in {"packed", "nesting", "unsupported"} /\ r.bytes \in Seq(Byte)
         /\ IF r.status = "packed" THEN r = PP_bytes(r.bytes) ELSE r = PP_died(r.status)
  <1>1. CASE \E b \in Seq(Byte) : r = PP_bytes(b)
    BY <1>1 DEF PP_bytes
  <1>2. CASE \E why \in {"nesting", "unsupported"} : r = PP_died(why)
    <2>1. << >> \in Seq(Byte)
      OBVIOUS
    <2> QED BY <1>2, <2>1 DEF PP_died
  <1> QED BY <1>1, <1>2 DEF Results

LEMMA BytesFields ==
  ASSUME NEW b
  PROVE  PP_bytes(b).status = "packed" /\ PP_bytes(b).bytes = b
  BY DEF PP_bytes

LEMMA DiedFields ==
  ASSUME NEW why
  PROVE  PP_died(why).status = why
  BY DEF PP_died

LEMMA BytesType ==
  ASSUME NEW b \in Seq(Byte)
  PROVE  PP_bytes(b) \in Results
  BY DEF Results

LEMMA NothingType == Nothing \in Results
  BY BytesType, EmptySeq DEF Nothing

LEMMA ThenPacked ==
  ASSUME NEW a, NEW b
  PROVE  Then(PP_bytes(a), PP_bytes(b)) = PP_bytes(a \o b)
  BY BytesFields DEF Then

LEMMA ThenDead ==
  ASSUME NEW r, r.status # "packed", NEW q
  PROVE  Then(r, q) = r /\ Then(PP_bytes(q), r) = r
  BY BytesFields DEF Then

LEMMA ThenType ==
  ASSUME NEW r \in Results, NEW q \in Results
  PROVE  Then(r, q) \in Results
  <1>1. CASE r.status = "packed" /\ q.status = "packed"
    <2>1. r.bytes \o q.bytes \in Seq(Byte)
      BY ResultFields
    <2> QED BY <1>1, <2>1, BytesType DEF Then
  <1> QED BY <1>1 DEF Then

LEMMA ThenNothing ==
  ASSUME NEW r \in Results
  PROVE  Then(Nothing, r) = r /\ Then(r, Nothing) = r
  <1>1. CASE r.status = "packed"
    <2>1. r = PP_bytes(r.bytes) /\ r.bytes \in Seq(Byte)
      BY <1>1, ResultFields
    <2>2. << >> \o r.bytes = r.bytes /\ r.bytes \o << >> = r.bytes
      BY <2>1
    <2> QED BY <2>1, <2>2, ThenPacked, Zenon DEF Nothing
  <1>2. CASE r.status # "packed"
    BY <1>2, ThenDead DEF Nothing
  <1> QED BY <1>1, <1>2

LEMMA ThenThen ==
  ASSUME NEW r \in Results, NEW q \in Results, NEW u \in Results
  PROVE  Then(Then(r, q), u) = Then(r, Then(q, u))
  <1>1. CASE r.status = "packed" /\ q.status = "packed" /\ u.status = "packed"
    <2>1. /\ r = PP_bytes(r.bytes) /\ q = PP_bytes(q.bytes) /\ u = PP_bytes(u.bytes)
          /\ r.bytes \in Seq(Byte) /\ q.bytes \in Seq(Byte) /\ u.bytes \in Seq(Byte)
      BY <1>1, ResultFields
    <2> DEFINE a == r.bytes
               b == q.bytes
               c == u.bytes
    <2>2. (a \o b) \o c = a \o (b \o c)
      <3>1. a \in Seq(Byte) /\ b \in Seq(Byte) /\ c \in Seq(Byte)
        BY <2>1
      <3> HIDE DEF a, b, c
      <3> QED BY <3>1, ConcatAssociative
    <2> HIDE DEF a, b, c
    <2>3. Then(Then(PP_bytes(a), PP_bytes(b)), PP_bytes(c)) =
            Then(PP_bytes(a), Then(PP_bytes(b), PP_bytes(c)))
      <3>1. /\ Then(PP_bytes(a), PP_bytes(b)) = PP_bytes(a \o b)
            /\ Then(PP_bytes(a \o b), PP_bytes(c)) = PP_bytes((a \o b) \o c)
            /\ Then(PP_bytes(b), PP_bytes(c)) = PP_bytes(b \o c)
            /\ Then(PP_bytes(a), PP_bytes(b \o c)) = PP_bytes(a \o (b \o c))
        BY ThenPacked
      <3> QED BY <2>2, <3>1, Zenon
    <2>4. r = PP_bytes(a) /\ q = PP_bytes(b) /\ u = PP_bytes(c)
      BY <2>1 DEF a, b, c
    <2> QED BY <2>3, <2>4, Zenon
  <1>2. CASE r.status # "packed"
    BY <1>2 DEF Then
  <1>3. CASE r.status = "packed" /\ q.status # "packed"
    BY <1>3 DEF Then
  <1>4. CASE r.status = "packed" /\ q.status = "packed" /\ u.status # "packed"
    BY <1>4, BytesFields DEF Then
  <1> QED BY <1>1, <1>2, <1>3, <1>4

-------------------------------------------------------------------------------
(* What comes from the i-th result on, for each i up to behind the last.       *)
Rests(R, rs) ==
  /\ R \in [1 .. Len(rs) + 1 -> Results]
  /\ R[Len(rs) + 1] = Nothing
  /\ \A i \in 1 .. Len(rs) : R[i] = Then(rs[i], R[i + 1])

LEMMA RestsExist ==
  ASSUME NEW rs \in Seq(Results)
  PROVE  \E R : Rests(R, rs)
  <1> DEFINE n == Len(rs)
             F == [k \in Nat |-> [r \in Results |->
                    IF k < n THEN Then(rs[n - k], r) ELSE r]]
  <1>1. n \in Nat /\ \A i \in 1 .. n : rs[i] \in Results
    OBVIOUS
  <1> HIDE DEF n
  <1>2. F \in [Nat -> [Results -> Results]]
    <2>1. ASSUME NEW k \in Nat, NEW r \in Results
          PROVE  (IF k < n THEN Then(rs[n - k], r) ELSE r) \in Results
      <3>1. CASE k < n
        <4>1. n - k \in 1 .. n
          BY <3>1, <1>1
        <4> QED BY <3>1, <4>1, <1>1, ThenType
      <3> QED BY <3>1
    <2> QED BY <2>1
  <1>3. PICK J : Iterates(J, Results, Nothing, F)
    <2> HIDE DEF F
    <2> QED BY <1>2, Iteration, NothingType
  <1> DEFINE R == [i \in 1 .. n + 1 |-> J[n + 1 - i]]
  <1>4. R \in [1 .. n + 1 -> Results] /\ R[n + 1] = Nothing
    BY <1>1, <1>3 DEF Iterates
  <1>5. ASSUME NEW i \in 1 .. n
        PROVE  R[i] = Then(rs[i], R[i + 1])
    <2>1. /\ n - i \in Nat /\ (n - i) + 1 = n + 1 - i /\ n - i < n /\ n - (n - i) = i
          /\ n + 1 - (i + 1) = n - i /\ i + 1 \in 1 .. n + 1 /\ i \in 1 .. n + 1
      BY <1>1
    <2>2. J[(n - i) + 1] = F[n - i][J[n - i]]
      BY <1>3, <2>1 DEF Iterates
    <2>3. F[n - i][J[n - i]] = Then(rs[n - (n - i)], J[n - i])
      <3>1. J[n - i] \in Results
        BY <1>3, <2>1 DEF Iterates
      <3> QED BY <2>1, <3>1
    <2>4. R[i] = J[(n - i) + 1] /\ R[i + 1] = J[n - i]
      BY <2>1
    <2> QED BY <2>1, <2>2, <2>3, <2>4
  <1>6. Rests(R, rs)
    BY <1>4, <1>5 DEF Rests, n
  <1> QED BY <1>6

LEMMA RestsAlike ==
  ASSUME NEW rs \in Seq(Results), NEW R, NEW Q,
         /\ R[Len(rs) + 1] = Q[Len(rs) + 1]
         /\ \A i \in 1 .. Len(rs) :
              R[i] = Then(rs[i], R[i + 1]) /\ Q[i] = Then(rs[i], Q[i + 1])
  PROVE  \A i \in 1 .. Len(rs) + 1 : R[i] = Q[i]
  <1> DEFINE n == Len(rs)
             T == {j \in Nat : j <= n => R[n + 1 - j] = Q[n + 1 - j]}
  <1>1. n \in Nat
    OBVIOUS
  <1>2. 0 \in T
    BY <1>1
  <1>3. ASSUME NEW j \in Nat, j \in T
        PROVE  j + 1 \in T
    <2>1. ASSUME j + 1 <= n
          PROVE  R[n + 1 - (j + 1)] = Q[n + 1 - (j + 1)]
      <3>1. n - j \in 1 .. n /\ n + 1 - (j + 1) = n - j /\ (n - j) + 1 = n + 1 - j
        BY <1>1, <2>1
      <3>2. R[n + 1 - j] = Q[n + 1 - j]
        BY <1>3, <1>1, <2>1
      <3> QED BY <3>1, <3>2
    <2> HIDE DEF n
    <2> QED BY <2>1
  <1>4. Nat \subseteq T
    <2> HIDE DEF T
    <2> QED BY <1>2, <1>3, Induction
  <1>5. ASSUME NEW i \in 1 .. n + 1
        PROVE  R[i] = Q[i]
    <2>1. n + 1 - i \in T /\ n + 1 - i <= n /\ n + 1 - (n + 1 - i) = i
      BY <1>1, <1>4
    <2> QED BY <2>1
  <1> QED BY <1>5

(* join is the header and then the rest from the first result on.              *)
LEMMA JoinRests ==
  ASSUME NEW header, NEW rs \in Seq(Results), NEW R, Rests(R, rs)
  PROVE  Join(header, rs) = Then(PP_bytes(header), R[1])
  <1> DEFINE n == Len(rs)
             G(f) == [i \in 1 .. n + 1 |->
                       IF i > n THEN PP_bytes(<< >>) ELSE Then(rs[i], f[i + 1])]
             Q == CHOOSE f : f = G(f)
  <1>1. n \in Nat
    OBVIOUS
  <1>2. R = G(R)
    <2>1. \A i \in 1 .. n + 1 : R[i] = G(R)[i]
      BY <1>1 DEF Rests, Nothing
    <2>2. R \in [1 .. n + 1 -> Results]
      BY DEF Rests
    <2> QED BY <2>1, <2>2
  <1>3. Q = G(Q)
    <2> HIDE DEF G
    <2> QED BY <1>2, Zenon
  <1>4. Join(header, rs) = Then(PP_bytes(header), Q[1])
    BY DEF Join
  <1> HIDE DEF Q
  <1>5. Q[1] = R[1]
    <2>1. Q[n + 1] = R[n + 1]
      BY <1>1, <1>3 DEF Rests, Nothing
    <2>2. \A i \in 1 .. n : R[i] = Then(rs[i], R[i + 1]) /\ Q[i] = Then(rs[i], Q[i + 1])
      BY <1>1, <1>3 DEF Rests
    <2>3. \A i \in 1 .. Len(rs) + 1 : Q[i] = R[i]
      <3> HIDE DEF Q, G
      <3> QED BY <2>1, <2>2, RestsAlike
    <2> QED BY <2>3, <1>1
  <1> QED BY <1>4, <1>5

LEMMA JoinType ==
  ASSUME NEW header \in Seq(Byte), NEW rs \in Seq(Results)
  PROVE  Join(header, rs) \in Results
  <1>1. PICK R : Rests(R, rs)
    BY RestsExist
  <1>2. R[1] \in Results
    <2>1. Len(rs) \in Nat /\ 1 \in 1 .. Len(rs) + 1
      OBVIOUS
    <2> QED BY <2>1, <1>1 DEF Rests
  <1> QED BY <1>1, <1>2, JoinRests, ThenType, BytesType

-------------------------------------------------------------------------------
(* The order of keys: s is before t when it is a part of its start, or has a   *)
(* smaller byte where they first differ.                                       *)
SameUpTo(s, t, n) == \A i \in 1 .. n : s[i] = t[i]

BeforeAt(s, t, n) ==
  /\ n < Len(t) /\ n <= Len(s) /\ SameUpTo(s, t, n)
  /\ n = Len(s) \/ s[n + 1] < t[n + 1]

LEMMA BeforeSomewhere ==
  ASSUME NEW s \in Seq(Byte), NEW t \in Seq(Byte)
  PROVE  Before(s, t) <=> \E n \in Nat : BeforeAt(s, t, n)
  <1>1. Len(s) \in Nat /\ Len(t) \in Nat
    OBVIOUS
  <1>2. ASSUME NEW n \in Nat, n <= Len(s), n < Len(t)
        PROVE  SubSeq(s, 1, n) = SubSeq(t, 1, n) <=> SameUpTo(s, t, n)
    <2>1. /\ SubSeq(s, 1, n) = [i \in 1 .. n |-> s[i]]
          /\ SubSeq(t, 1, n) = [i \in 1 .. n |-> t[i]]
      BY <1>1, <1>2
    <2> QED BY <2>1 DEF SameUpTo
  <1>3. ASSUME Before(s, t)
        PROVE  \E n \in Nat : BeforeAt(s, t, n)
    <2>1. PICK n \in 0 .. Len(t) - 1 :
            /\ n <= Len(s) /\ SubSeq(s, 1, n) = SubSeq(t, 1, n)
            /\ n = Len(s) \/ s[n + 1] < t[n + 1]
      BY <1>3 DEF Before
    <2>2. n \in Nat /\ n < Len(t)
      BY <1>1
    <2> QED BY <2>1, <2>2, <1>2 DEF BeforeAt
  <1>4. ASSUME NEW n \in Nat, BeforeAt(s, t, n)
        PROVE  Before(s, t)
    <2>1. n \in 0 .. Len(t) - 1 /\ n <= Len(s) /\ SubSeq(s, 1, n) = SubSeq(t, 1, n)
      BY <1>1, <1>2, <1>4 DEF BeforeAt
    <2> QED BY <2>1, <1>4 DEF Before, BeforeAt
  <1> QED BY <1>3, <1>4

LEMMA NeverBeforeItself ==
  ASSUME NEW s \in Seq(Byte)
  PROVE  ~Before(s, s)
  <1> SUFFICES ASSUME NEW n \in Nat, BeforeAt(s, s, n)
               PROVE  FALSE
    BY BeforeSomewhere
  <1>1. s[n + 1] \in Int /\ Len(s) \in Nat
    <2>1. n + 1 \in 1 .. Len(s)
      BY DEF BeforeAt
    <2> QED BY <2>1, BytesOf
  <1> QED BY <1>1 DEF BeforeAt

LEMMA BeforeBefore ==
  ASSUME NEW s \in Seq(Byte), NEW t \in Seq(Byte), NEW u \in Seq(Byte),
         Before(s, t), Before(t, u)
  PROVE  Before(s, u)
  <1>1. PICK m \in Nat : BeforeAt(s, t, m)
    BY BeforeSomewhere
  <1>2. PICK n \in Nat : BeforeAt(t, u, n)
    BY BeforeSomewhere
  <1>3. /\ Len(s) \in Nat /\ Len(t) \in Nat /\ Len(u) \in Nat
        /\ \A i \in 1 .. Len(s) : s[i] \in Int
        /\ \A i \in 1 .. Len(t) : t[i] \in Int
        /\ \A i \in 1 .. Len(u) : u[i] \in Int
    BY BytesOf
  <1>4. CASE m < n
    <2>1. BeforeAt(s, u, m)
      <3>1. m < Len(u) /\ m <= Len(s) /\ m + 1 \in 1 .. n
        BY <1>1, <1>2, <1>3, <1>4 DEF BeforeAt
      <3>2. SameUpTo(s, u, m)
        BY <1>1, <1>2, <1>3, <1>4 DEF BeforeAt, SameUpTo
      <3>3. t[m + 1] = u[m + 1]
        BY <1>2, <3>1 DEF BeforeAt, SameUpTo
      <3> QED BY <1>1, <3>1, <3>2, <3>3 DEF BeforeAt
    <2> QED BY <2>1, BeforeSomewhere
  <1>5. CASE n < m
    <2>1. BeforeAt(s, u, n)
      <3>1. n < Len(u) /\ n <= Len(s) /\ n # Len(t) /\ n + 1 \in 1 .. m
        BY <1>1, <1>2, <1>3, <1>5 DEF BeforeAt
      <3>2. SameUpTo(s, u, n)
        BY <1>1, <1>2, <1>3, <1>5 DEF BeforeAt, SameUpTo
      <3>3. s[n + 1] = t[n + 1]
        BY <1>1, <3>1 DEF BeforeAt, SameUpTo
      <3> QED BY <1>2, <3>1, <3>2, <3>3 DEF BeforeAt
    <2> QED BY <2>1, BeforeSomewhere
  <1>6. CASE m = n
    <2>1. BeforeAt(s, u, n)
      <3>1. n < Len(u) /\ n <= Len(s) /\ n # Len(t)
        BY <1>1, <1>2, <1>3, <1>6 DEF BeforeAt
      <3>2. SameUpTo(s, u, n)
        BY <1>1, <1>2, <1>6 DEF BeforeAt, SameUpTo
      <3>3. n = Len(s) \/ s[n + 1] < u[n + 1]
        <4>1. CASE n # Len(s)
          <5>1. n + 1 \in 1 .. Len(s) /\ n + 1 \in 1 .. Len(t) /\ n + 1 \in 1 .. Len(u)
            BY <4>1, <3>1, <1>1, <1>6, <1>3 DEF BeforeAt
          <5>2. s[n + 1] < t[n + 1] /\ t[n + 1] < u[n + 1]
            BY <4>1, <3>1, <1>1, <1>2, <1>6 DEF BeforeAt
          <5>3. s[n + 1] \in Int /\ t[n + 1] \in Int /\ u[n + 1] \in Int
            BY <5>1, <1>3
          <5> QED BY <5>2, <5>3
        <4> QED BY <4>1
      <3> QED BY <3>1, <3>2, <3>3 DEF BeforeAt
    <2> QED BY <2>1, BeforeSomewhere
  <1> QED BY <1>4, <1>5, <1>6

LEMMA OneBefore ==
  ASSUME NEW s \in Seq(Byte), NEW t \in Seq(Byte), s # t
  PROVE  Before(s, t) \/ Before(t, s)
  <1>1. /\ Len(s) \in Nat /\ Len(t) \in Nat
        /\ \A i \in 1 .. Len(s) : s[i] \in Int
        /\ \A i \in 1 .. Len(t) : t[i] \in Int
    BY BytesOf
  <1> DEFINE D == {i \in Nat : i < Len(s) /\ i < Len(t) /\ s[i + 1] # t[i + 1]}
  <1>2. CASE D # {}
    <2>1. PICK n \in D : \A j \in D : n <= j
      <3>1. D \subseteq Nat
        OBVIOUS
      <3> HIDE DEF D
      <3> QED BY <3>1, <1>2, LeastNat
    <2>2. \A i \in 1 .. n : s[i] = t[i]
      <3> SUFFICES ASSUME NEW i \in 1 .. n, s[i] # t[i]
                   PROVE  FALSE
        OBVIOUS
      <3>1. i - 1 \in Nat /\ (i - 1) + 1 = i /\ i - 1 < n
        BY <2>1
      <3>2. i - 1 \in D
        BY <3>1, <2>1, <1>1
      <3> QED BY <2>1, <3>1, <3>2
    <2>3. n \in Nat /\ n < Len(s) /\ n < Len(t) /\ s[n + 1] # t[n + 1]
      BY <2>1
    <2>4. n + 1 \in 1 .. Len(s) /\ n + 1 \in 1 .. Len(t)
      BY <2>3, <1>1
    <2>5. s[n + 1] < t[n + 1] \/ t[n + 1] < s[n + 1]
      BY <2>3, <2>4, <1>1
    <2>6. BeforeAt(s, t, n) \/ BeforeAt(t, s, n)
      BY <2>2, <2>3, <2>5, <1>1 DEF BeforeAt, SameUpTo
    <2> QED BY <2>3, <2>6, BeforeSomewhere
  <1>3. CASE D = {}
    <2>1. ASSUME NEW i \in 1 .. Len(s), i <= Len(t)
          PROVE  s[i] = t[i]
      <3>1. i - 1 \in Nat /\ (i - 1) + 1 = i /\ i - 1 < Len(s) /\ i - 1 < Len(t)
        BY <2>1, <1>1
      <3>2. i - 1 \notin D
        BY <1>3
      <3> QED BY <3>1, <3>2
    <2>2. CASE Len(s) < Len(t)
      <3>1. BeforeAt(s, t, Len(s))
        BY <2>1, <2>2, <1>1 DEF BeforeAt, SameUpTo
      <3> QED BY <3>1, <1>1, BeforeSomewhere
    <2>3. CASE Len(t) < Len(s)
      <3>1. SameUpTo(t, s, Len(t))
        <4>1. ASSUME NEW i \in 1 .. Len(t)
              PROVE  t[i] = s[i]
          BY <2>1, <2>3, <1>1
        <4> QED BY <4>1 DEF SameUpTo
      <3>2. BeforeAt(t, s, Len(t))
        BY <3>1, <2>3, <1>1 DEF BeforeAt
      <3> QED BY <3>2, <1>1, BeforeSomewhere
    <2>4. CASE Len(s) = Len(t)
      <3>1. \A i \in 1 .. Len(s) : s[i] = t[i]
        BY <2>1, <2>4
      <3> QED BY <3>1, <2>4
    <2> QED BY <2>2, <2>3, <2>4, <1>1
  <1> QED BY <1>2, <1>3

-------------------------------------------------------------------------------
(* In which order the items or pairs of o are packed: p[k] is the k-th one.    *)
PackedBy(p, o, canonical) ==
  LET n == Len(Loop(o)) IN
  /\ Rearranges(p, n)
  /\ IF canonical /\ ~IsArray(o)
     THEN KeysDiffer(o) => \A j, k \in 1 .. n : j < k =>
            Before(o.pairs[p[j]][1], o.pairs[p[k]][1])
     ELSE \A k \in 1 .. n : p[k] = k

Ordered(o, canonical) == IF IsArray(o) THEN o.items ELSE PairsInOrder(o, canonical)

LEMMA PairsOrdered ==
  ASSUME NEW N \in Nat, NEW o \in Objects(N), ~IsArray(o)
  PROVE  \E p : PackedBy(p, o, TRUE)
                  /\ PairsInOrder(o, TRUE) = [k \in 1 .. Len(o.pairs) |-> o.pairs[p[k]]]
  <1> DEFINE n == Len(o.pairs)
             key(i) == o.pairs[i][1]
             P == [i \in 1 .. n |->
                    {j \in 1 .. n : Before(key(j), key(i)) \/ (key(j) = key(i) /\ j < i)}]
             Place(k) == CHOOSE i \in DOMAIN o.pairs : Cardinality(Preceding(o, i)) = k - 1
             p == [k \in 1 .. n |-> Place(k)]
  <1>0. o.pairs \in Seq(Seq(Byte) \X SVs(N))
    BY ObjectFields
  <1>1. n \in Nat /\ DOMAIN o.pairs = 1 .. n
    BY <1>0
  <1>2. \A i \in 1 .. n : key(i) \in Seq(Byte)
    BY <1>0
  <1> HIDE DEF n, key
  <1>3. P \in [1 .. n -> SUBSET (1 .. n)]
    OBVIOUS
  <1>4. \A i \in 1 .. n : i \notin P[i]
    BY <1>1, <1>2, NeverBeforeItself
  <1>5. ASSUME NEW i \in 1 .. n, NEW j \in 1 .. n, j \in P[i]
        PROVE  P[j] \subseteq P[i]
    <2> SUFFICES ASSUME NEW k \in 1 .. n, k \in P[j]
                 PROVE  k \in P[i]
      BY <1>3
    <2>1. Before(key(j), key(i)) \/ (key(j) = key(i) /\ j < i)
      BY <1>5
    <2>2. Before(key(k), key(j)) \/ (key(k) = key(j) /\ k < j)
      OBVIOUS
    <2>3. Before(key(k), key(i)) \/ (key(k) = key(i) /\ k < i)
      BY <1>1, <1>2, <2>1, <2>2, BeforeBefore
    <2> QED BY <2>3
  <1>6. ASSUME NEW i \in 1 .. n, NEW j \in 1 .. n, i # j
        PROVE  i \in P[j] \/ j \in P[i]
    <2>1. CASE key(i) = key(j)
      BY <1>1, <1>6, <2>1
    <2>2. CASE key(i) # key(j)
      <3>1. Before(key(i), key(j)) \/ Before(key(j), key(i))
        BY <1>2, <2>2, OneBefore
      <3> QED BY <3>1
    <2> QED BY <2>1, <2>2
  <1>7. Rearranges(p, n) /\ \A j, k \in 1 .. n : j < k => p[j] \in P[p[k]]
    <2>1. \A i \in 1 .. n : P[i] = Preceding(o, i)
      BY <1>1 DEF Preceding, key
    <2> HIDE DEF P
    <2>2. StrictOrder(P, n)
      BY <1>3, <1>4, <1>5, <1>6 DEF StrictOrder
    <2>3. ASSUME NEW k \in 1 .. n, \E i \in 1 .. n : Cardinality(P[i]) = k - 1
          PROVE  Place(k) \in 1 .. n /\ Cardinality(P[Place(k)]) = k - 1
      <3>1. \E i \in DOMAIN o.pairs : Cardinality(Preceding(o, i)) = k - 1
        BY <2>1, <2>3, <1>1
      <3>2. Place(k) \in DOMAIN o.pairs /\ Cardinality(Preceding(o, Place(k))) = k - 1
        BY <3>1, Zenon
      <3> HIDE DEF Place
      <3> QED BY <3>2, <2>1, <1>1
    <2> HIDE DEF Place
    <2>4. Ranks(p, P, n)
      BY <2>3 DEF Ranks
    <2> HIDE DEF p
    <2> QED BY <1>1, <2>2, <2>4, PlacesByRank
  <1>8. PairsInOrder(o, TRUE) = [k \in 1 .. n |-> o.pairs[p[k]]]
    <2>1. PairsInOrder(o, TRUE) = [k \in 1 .. n |-> o.pairs[Place(k)]]
      BY <1>1 DEF PairsInOrder
    <2> HIDE DEF Place
    <2> QED BY <2>1
  <1>9. PackedBy(p, o, TRUE)
    <2>1. Len(Loop(o)) = n
      BY DEF Loop, n
    <2>2. ASSUME KeysDiffer(o), NEW j \in 1 .. n, NEW k \in 1 .. n, j < k
          PROVE  Before(o.pairs[p[j]][1], o.pairs[p[k]][1])
      <3> HIDE DEF p
      <3>1. p[j] \in 1 .. n /\ p[k] \in 1 .. n /\ p[j] \in P[p[k]]
        BY <1>7, <2>2 DEF Rearranges
      <3>2. p[j] # p[k]
        BY <1>1, <1>7, <2>2 DEF Rearranges
      <3>3. key(p[j]) # key(p[k])
        BY <1>1, <2>2, <3>1, <3>2 DEF KeysDiffer, key
      <3>4. Before(key(p[j]), key(p[k]))
        BY <3>1, <3>3
      <3> QED BY <3>4 DEF key
    <2> HIDE DEF p
    <2> QED BY <1>7, <2>1, <2>2 DEF PackedBy
  <1> QED BY <1>8, <1>9 DEF n

LEMMA OrderExists ==
  ASSUME NEW N \in Nat, NEW o \in Objects(N), NEW canonical \in BOOLEAN
  PROVE  \E p : /\ PackedBy(p, o, canonical)
                /\ Ordered(o, canonical) = [k \in 1 .. Len(Loop(o)) |-> Loop(o)[p[k]]]
  <1> DEFINE n == Len(Loop(o))
             p == [k \in 1 .. n |-> k]
  <1>1. n \in Nat /\ Loop(o) = [k \in 1 .. n |-> Loop(o)[k]]
    <2>1. CASE IsArray(o)
      <3>1. o.items \in Seq(SVs(N) \cup {NoSV})
        BY <2>1, ObjectFields
      <3>2. Len(o.items) \in Nat /\ o.items = [k \in 1 .. Len(o.items) |-> o.items[k]]
        BY <3>1
      <3> QED BY <2>1, <3>2 DEF Loop
    <2>2. CASE ~IsArray(o)
      <3>1. o.pairs \in Seq(Seq(Byte) \X SVs(N))
        BY <2>2, ObjectFields
      <3>2. Len(o.pairs) \in Nat /\ o.pairs = [k \in 1 .. Len(o.pairs) |-> o.pairs[k]]
        BY <3>1
      <3> QED BY <2>2, <3>2 DEF Loop
    <2> QED BY <2>1, <2>2
  <1> HIDE DEF n
  <1>2. CASE ~canonical \/ IsArray(o)
    <2>1. Ordered(o, canonical) = Loop(o)
      BY <1>2 DEF Ordered, Loop, PairsInOrder
    <2>2. PackedBy(p, o, canonical)
      BY <1>1, <1>2 DEF PackedBy, Rearranges, n
    <2>3. Loop(o) = [k \in 1 .. n |-> Loop(o)[p[k]]]
      BY <1>1
    <2> HIDE DEF p
    <2> QED BY <2>1, <2>2, <2>3 DEF n
  <1>3. CASE canonical /\ ~IsArray(o)
    <2>2. Loop(o) = o.pairs /\ Ordered(o, canonical) = PairsInOrder(o, TRUE)
      BY <1>3 DEF Loop, Ordered
    <2>3. canonical = TRUE
      BY <1>3
    <2>4. PICK q : PackedBy(q, o, TRUE)
                     /\ PairsInOrder(o, TRUE) = [k \in 1 .. Len(o.pairs) |-> o.pairs[q[k]]]
      <3>1. ~IsArray(o)
        BY <1>3
      <3> QED BY <3>1, PairsOrdered
    <2> QED BY <2>2, <2>3, <2>4, Zenon
  <1> QED BY <1>2, <1>3

-------------------------------------------------------------------------------
(* What the XS packer computes, as a function of the data: in the form of      *)
(* PP_Pack.                                                                    *)
XSString(s, e) ==
  IF e.prefer_int /\ IsInt(s) THEN Integer(StringInt(s))
  ELSE (IF e.utf8 THEN StrHeader(Len(s)) ELSE BinHeader(Len(s))) \o s

XSScalar(v, e) ==
  IF "undef" \in DOMAIN v THEN PP_bytes(Nil)
  ELSE IF "bool" \in DOMAIN v THEN PP_bytes(IF v.bool THEN True ELSE False)
  ELSE IF IsString(v) THEN PP_bytes(XSString(v.pv, e))
  ELSE IF "nv" \in DOMAIN v THEN PP_bytes(Double(v.nv))
  ELSE IF "iv" \in DOMAIN v THEN PP_bytes(Integer(v.iv))
  ELSE IF v = ScalarRef(<<49>>) THEN PP_bytes(True)
  ELSE IF v = ScalarRef(<<48>>) THEN PP_bytes(False)
  ELSE PP_died("unsupported")

XSPackSV(v, depth, sub, e) ==
  IF v = NoSV THEN PP_bytes(Nil)
  ELSE IF depth <= 0 THEN PP_died("nesting")
  ELSE IF IsRef(v) THEN sub[v.rv]
  ELSE XSScalar(v, e)

(* Item or pair x of o.                                                        *)
XSItem(o, x, depth, sub, e) ==
  IF IsArray(o) THEN XSPackSV(x, depth, sub, e)
  ELSE Then(XSPackSV(Str(x[1], FALSE), depth, sub, e), XSPackSV(x[2], depth, sub, e))

XSItems(o, depth, sub, e) ==
  [i \in DOMAIN Ordered(o, e.canonical) |->
    XSItem(o, Ordered(o, e.canonical)[i], depth, sub, e)]

XSObject(o, depth, sub, e) == Join(Header(o), XSItems(o, depth, sub, e))

(* C[d][n] is packed at a depth of d, for each array and hash n of the heap.   *)
XSTable(C, heap, e) ==
  /\ C \in [Nat -> [DOMAIN heap -> Results]]
  /\ \A d \in Nat : \A n \in DOMAIN heap : C[d + 1][n] = XSObject(heap[n], d, C[d], e)

SettingsSet == [prefer_int : BOOLEAN, canonical : BOOLEAN, utf8 : BOOLEAN]

(* The kinds of SVs.                                                           *)
LEMMA SVKind ==
  ASSUME NEW n \in Nat, NEW v \in SVs(n)
  PROVE  /\ v # NoSV
         /\ \/ v = Undef
            \/ DOMAIN v = {"bool", "svs"} /\ v.bool \in BOOLEAN /\ v = Bool(v.bool)
            \/ DOMAIN v = {"iv", "svs"} /\ v.iv \in Int /\ v = IntValue(v.iv)
            \/ DOMAIN v = {"nv", "svs"} /\ v.nv \in Seq(Byte) /\ v = Float(v.nv)
            \/ DOMAIN v = {"pv", "text", "svs"} /\ v.pv \in Seq(Byte)
            \/ DOMAIN v = {"rv"} /\ v.rv \in 1 .. n
            \/ DOMAIN v = {"scalar"} /\ v.scalar \in Seq(Byte)
            \/ DOMAIN v = {"other"}
  <1>1. DOMAIN NoSV = {"slot"}
    BY DEF NoSV
  <1>2. CASE v = Undef
    BY <1>2 DEF Undef, NoSV
  <1>3. CASE v \in [bool : BOOLEAN, svs : {1}]
    BY <1>1, <1>3 DEF Bool
  <1>4. CASE v \in [iv : Int, svs : {1}]
    BY <1>1, <1>4 DEF IntValue
  <1>5. CASE v \in [nv : Seq(Byte), svs : {1}]
    BY <1>1, <1>5 DEF Float
  <1>6. CASE v \in [pv : Seq(Byte), text : BOOLEAN, svs : {1}]
    BY <1>1, <1>6
  <1>7. CASE v \in [rv : 1 .. n]
    BY <1>1, <1>7
  <1>8. CASE v \in [scalar : Seq(Byte)]
    BY <1>1, <1>8
  <1>9. CASE v \in [other : {"object", "code"}]
    BY <1>1, <1>9
  <1> QED BY <1>2, <1>3, <1>4, <1>5, <1>6, <1>7, <1>8, <1>9 DEF SVs

LEMMA StringIntType ==
  ASSUME NEW s \in Seq(Byte)
  PROVE  StringInt(s) \in Int
  <1>1. DigitsOf(s) \in Seq(Byte)
    BY DEF DigitsOf, Minus
  <1> QED BY <1>1, DenotedIsInt DEF StringInt

LEMMA XSStringBytes ==
  ASSUME NEW s \in Seq(Byte), NEW e
  PROVE  XSString(s, e) \in Seq(Byte)
  <1>1. Integer(StringInt(s)) \in Seq(Byte)
    BY StringIntType, IntegerBytes
  <1>2. StrHeader(Len(s)) \in Seq(Byte) /\ BinHeader(Len(s)) \in Seq(Byte)
    BY HeaderBytes
  <1> HIDE DEF IsInt, StringInt
  <1>3. StrHeader(Len(s)) \o s \in Seq(Byte) /\ BinHeader(Len(s)) \o s \in Seq(Byte)
    BY <1>2
  <1> QED BY <1>1, <1>3 DEF XSString

LEMMA FixedBytes ==
  /\ Nil \in Seq(Byte) /\ True \in Seq(Byte) /\ False \in Seq(Byte)
  /\ \A n \in Seq(Byte) : Double(n) \in Seq(Byte)
  <1>1. 192 \in Byte /\ 194 \in Byte /\ 195 \in Byte /\ 203 \in Byte
    BY DEF Byte
  <1>2. <<203>> \in Seq(Byte)
    BY <1>1
  <1> QED BY <1>1, <1>2 DEF Nil, True, False, Double

LEMMA XSScalarType ==
  ASSUME NEW n \in Nat, NEW v \in SVs(n), NEW e
  PROVE  XSScalar(v, e) \in Results
  <1>1. /\ PP_bytes(Nil) \in Results /\ PP_bytes(True) \in Results
        /\ PP_bytes(False) \in Results /\ PP_died("unsupported") \in Results
    BY FixedBytes, BytesType DEF Results
  <1>2. /\ "pv" \in DOMAIN v => PP_bytes(XSString(v.pv, e)) \in Results
        /\ "nv" \in DOMAIN v => PP_bytes(Double(v.nv)) \in Results
        /\ "iv" \in DOMAIN v => PP_bytes(Integer(v.iv)) \in Results
    BY SVFields, XSStringBytes, FixedBytes, IntegerBytes, BytesType
  <1> HIDE DEF Results
  <1> QED BY <1>1, <1>2 DEF XSScalar, IsString

LEMMA XSPackSVType ==
  ASSUME NEW n \in Nat, NEW v \in SVs(n) \cup {NoSV}, NEW depth \in Int,
         NEW sub \in [1 .. n -> Results], NEW e
  PROVE  XSPackSV(v, depth, sub, e) \in Results
  <1>1. PP_bytes(Nil) \in Results /\ PP_died("nesting") \in Results
    BY FixedBytes, BytesType DEF Results
  <1>2. CASE v # NoSV
    <2>1. v \in SVs(n)
      BY <1>2
    <2>2. IsRef(v) => sub[v.rv] \in Results
      BY <2>1, SVFields DEF IsRef
    <2>3. XSScalar(v, e) \in Results
      BY <2>1, XSScalarType
    <2> QED BY <1>1, <2>2, <2>3 DEF XSPackSV
  <1> QED BY <1>1, <1>2 DEF XSPackSV

LEMMA OrderedFields ==
  ASSUME NEW n \in Nat, NEW o \in Objects(n), NEW canonical \in BOOLEAN
  PROVE  /\ DOMAIN Ordered(o, canonical) = 1 .. Len(Loop(o)) /\ Len(Loop(o)) \in Nat
         /\ \A i \in 1 .. Len(Loop(o)) :
              IF IsArray(o) THEN Ordered(o, canonical)[i] \in SVs(n) \cup {NoSV}
              ELSE Ordered(o, canonical)[i] \in Seq(Byte) \X SVs(n)
  <1>1. PICK p : /\ PackedBy(p, o, canonical)
                 /\ Ordered(o, canonical) = [k \in 1 .. Len(Loop(o)) |-> Loop(o)[p[k]]]
    BY OrderExists
  <1>2. \A k \in 1 .. Len(Loop(o)) : p[k] \in 1 .. Len(Loop(o))
    BY <1>1 DEF PackedBy, Rearranges
  <1>3. CASE IsArray(o)
    <2>1. Loop(o) = o.items /\ o.items \in Seq(SVs(n) \cup {NoSV})
      BY <1>3, ObjectFields DEF Loop
    <2> QED BY <1>1, <1>2, <1>3, <2>1
  <1>4. CASE ~IsArray(o)
    <2>1. Loop(o) = o.pairs /\ o.pairs \in Seq(Seq(Byte) \X SVs(n))
      BY <1>4, ObjectFields DEF Loop
    <2> QED BY <1>1, <1>2, <1>4, <2>1
  <1> QED BY <1>3, <1>4

LEMMA XSItemType ==
  ASSUME NEW n \in Nat, NEW o \in Objects(n), NEW e \in SettingsSet, NEW depth \in Int,
         NEW sub \in [1 .. n -> Results], NEW x,
         IF IsArray(o) THEN x \in SVs(n) \cup {NoSV} ELSE x \in Seq(Byte) \X SVs(n)
  PROVE  XSItem(o, x, depth, sub, e) \in Results
  <1>1. CASE IsArray(o)
    BY <1>1, XSPackSVType DEF XSItem
  <1>2. CASE ~IsArray(o)
    <2>1. Str(x[1], FALSE) \in SVs(n) /\ x[2] \in SVs(n)
      BY <1>2, KeysAreSVs
    <2>2. /\ XSPackSV(Str(x[1], FALSE), depth, sub, e) \in Results
          /\ XSPackSV(x[2], depth, sub, e) \in Results
      BY <2>1, XSPackSVType
    <2> QED BY <1>2, <2>2, ThenType DEF XSItem
  <1> QED BY <1>1, <1>2

LEMMA XSItemsType ==
  ASSUME NEW n \in Nat, NEW o \in Objects(n), NEW e \in SettingsSet, NEW depth \in Int,
         NEW sub \in [1 .. n -> Results]
  PROVE  /\ XSItems(o, depth, sub, e) \in Seq(Results)
         /\ Len(XSItems(o, depth, sub, e)) = Len(Loop(o))
         /\ Len(Loop(o)) \in Nat
         /\ \A i \in 1 .. Len(Loop(o)) : XSItems(o, depth, sub, e)[i] =
              XSItem(o, Ordered(o, e.canonical)[i], depth, sub, e)
  <1> DEFINE m == Len(Loop(o))
             q == Ordered(o, e.canonical)
             f == XSItems(o, depth, sub, e)
  <1>1. /\ DOMAIN q = 1 .. m /\ m \in Nat
        /\ \A i \in 1 .. m : IF IsArray(o) THEN q[i] \in SVs(n) \cup {NoSV}
                                           ELSE q[i] \in Seq(Byte) \X SVs(n)
    BY OrderedFields DEF SettingsSet
  <1>2. f = [i \in 1 .. m |-> XSItem(o, q[i], depth, sub, e)]
    BY <1>1 DEF XSItems
  <1> HIDE DEF q, m, f
  <1>3. \A i \in 1 .. m : XSItem(o, q[i], depth, sub, e) \in Results
    BY <1>1, XSItemType
  <1>4. f \in Seq(Results) /\ Len(f) = m
    BY <1>1, <1>2, <1>3
  <1> QED BY <1>1, <1>2, <1>4 DEF q, m, f

LEMMA XSObjectType ==
  ASSUME NEW n \in Nat, NEW o \in Objects(n), NEW e \in SettingsSet, NEW depth \in Int,
         NEW sub \in [1 .. n -> Results]
  PROVE  XSObject(o, depth, sub, e) \in Results
  BY XSItemsType, HeaderPiece, JoinType DEF XSObject

LEMMA XSTableExists ==
  ASSUME NEW heap, heap \in Seq(Objects(Len(heap))), NEW e \in SettingsSet
  PROVE  \E C : XSTable(C, heap, e)
  <1> DEFINE n == Len(heap)
             X == [1 .. n -> Results]
             start == [m \in 1 .. n |-> PP_died("nesting")]
             F == [d \in Nat |-> [c \in X |->
                    [m \in 1 .. n |-> XSObject(heap[m], d, c, e)]]]
  <1>1. n \in Nat /\ DOMAIN heap = 1 .. n /\ \A m \in 1 .. n : heap[m] \in Objects(n)
    OBVIOUS
  <1> HIDE DEF n
  <1>2. start \in X
    <2>1. PP_died("nesting") \in Results
      BY DEF Results
    <2> QED BY <2>1
  <1>3. \A d \in Nat : \A c \in X : \A m \in 1 .. n : XSObject(heap[m], d, c, e) \in Results
    BY <1>1, XSObjectType
  <1>4. F \in [Nat -> [X -> X]]
    BY <1>3
  <1>5. PICK C : Iterates(C, X, start, F)
    <2> HIDE DEF F, X, start
    <2> QED BY <1>2, <1>4, Iteration
  <1>6. ASSUME NEW d \in Nat, NEW m \in 1 .. n
        PROVE  C[d + 1][m] = XSObject(heap[m], d, C[d], e)
    <2>1. C[d] \in X /\ C[d + 1] = F[d][C[d]]
      BY <1>5 DEF Iterates
    <2> QED BY <2>1
  <1>7. C \in [Nat -> X]
    BY <1>5 DEF Iterates
  <1> QED BY <1>1, <1>6, <1>7 DEF XSTable

-------------------------------------------------------------------------------
(* What a call has still to append is known from its state: the pieces that    *)
(* are pending, what the SVs due are packed as, and then, from the innermost   *)
(* loop outwards, what is left of each.  Put behind what was appended it is    *)
(* what XSPackSV makes of the argument.                                        *)
Flat(pieces) ==
  IF pieces = << >> THEN << >>
  ELSE IF Len(pieces) = 1 THEN pieces[1] ELSE pieces[1] \o pieces[2]

At(C, d) == C[IF d <= 0 THEN 0 ELSE d]
XSAt(v, d, C, e) == XSPackSV(v, d, At(C, d), e)

DueResult(C, e, w, d) ==
  IF w = << >> THEN Nothing
  ELSE IF Len(w) = 1 THEN XSAt(w[1], d, C, e)
  ELSE Then(XSAt(w[1], d, C, e), XSAt(w[2], d, C, e))

(* What is left from the j-th on.                                              *)
LeftFrom(left, p, j, n) == left = {p[k] : k \in j .. n}

(* p is the order of loop l, R the rests of its items' results and j the next. *)
LoopAt(C, heap, e, l, p, R, j) ==
  LET o == heap[l.of]
      n == Len(Loop(o))
  IN /\ PackedBy(p, o, e.canonical)
     /\ Ordered(o, e.canonical) = [k \in 1 .. n |-> Loop(o)[p[k]]]
     /\ Rests(R, XSItems(o, l.depth, C[l.depth], e))
     /\ j \in 1 .. n + 1
     /\ LeftFrom(l.left, p, j, n)

LoopAhead(C, heap, e, l, r, outer) ==
  \E p, R, j : LoopAt(C, heap, e, l, p, R, j) /\ r = Then(R[j], outer)

LoopsAhead(C, heap, e, ls, T) ==
  /\ T \in [0 .. Len(ls) -> Results] /\ T[0] = Nothing
  /\ \A i \in 1 .. Len(ls) : LoopAhead(C, heap, e, ls[i], T[i], T[i - 1])

DepthIn(c, ls) == IF ls = << >> THEN c.depth ELSE Last(ls).depth

Ahead(C, c, e, done, ps, w, ls) ==
  \E T : /\ LoopsAhead(C, c.heap, e, ls, T)
         /\ Then(PP_bytes(done \o Flat(ps)),
                 Then(DueResult(C, e, w, DepthIn(c, ls)), T[Len(ls)]))
              = XSAt(c.val, c.depth, C, e)

(* No more than two pieces are pending and no more than two SVs due.           *)
FewDue == Len(pending) <= 2 /\ Len(work) <= 2

Packs ==
  \A C : XSTable(C, call.heap, enc) =>
    /\ result = "running" => Ahead(C, call, enc, out, pending, work, loops)
    /\ result = "packed" => XSAt(call.val, call.depth, C, enc) = PP_bytes(out)
    /\ result \in {"nesting", "unsupported"} =>
         XSAt(call.val, call.depth, C, enc) = PP_died(result)

-------------------------------------------------------------------------------
LEMMA OneOrTwo ==
  ASSUME NEW S, NEW s \in Seq(S), Len(s) <= 2, s # << >>
  PROVE  \/ Len(s) = 1 /\ s = <<s[1]>> /\ s[1] \in S /\ Head(s) = s[1] /\ Tail(s) = << >>
         \/ /\ Len(s) = 2 /\ s = <<s[1], s[2]>> /\ s[1] \in S /\ s[2] \in S
            /\ Head(s) = s[1] /\ Tail(s) = <<s[2]>>
  <1>1. Len(s) \in Nat /\ Len(s) # 0 /\ Head(s) = s[1]
    BY EmptySeq
  <1>2. CASE Len(s) = 1
    <2>1. s[1] \in S /\ s = <<s[1]>>
      BY <1>2
    <2>2. Tail(s) = << >>
      <3>1. ~(1 < Len(s))
        BY <1>2
      <3> QED BY <3>1, OnlyOne
    <2> QED BY <1>1, <1>2, <2>1, <2>2
  <1>3. CASE Len(s) = 2
    <2>1. s[1] \in S /\ s[2] \in S
      BY <1>3
    <2>2. s = <<s[1], s[2]>>
      BY <1>3
    <2>3. Tail(s) = <<s[2]>>
      <3>1. Tail(s) \in Seq(S) /\ Len(Tail(s)) = 1 /\ Tail(s)[1] = s[2]
        BY <1>3
      <3> DEFINE t == Tail(s)
      <3>2. t \in Seq(S) /\ Len(t) = 1 /\ t[1] = s[2]
        BY <3>1
      <3> HIDE DEF t
      <3>3. t = <<s[2]>>
        BY <3>2
      <3> QED BY <3>3 DEF t
    <2> QED BY <1>1, <1>3, <2>1, <2>2, <2>3
  <1>4. Len(s) = 1 \/ Len(s) = 2
    <2> DEFINE n == Len(s)
    <2>1. n \in Nat /\ n # 0 /\ n <= 2
      BY <1>1
    <2> HIDE DEF n
    <2>2. n = 1 \/ n = 2
      BY <2>1
    <2> QED BY <2>2 DEF n
  <1> QED BY <1>2, <1>3, <1>4

LEMMA FlatType ==
  ASSUME NEW ps \in Seq(Seq(Byte)), Len(ps) <= 2
  PROVE  Flat(ps) \in Seq(Byte)
  <1>1. CASE ps = << >>
    BY <1>1, EmptySeq DEF Flat
  <1>2. CASE ps # << >>
    <2>1. CASE Len(ps) = 1 /\ ps[1] \in Seq(Byte)
      BY <1>2, <2>1 DEF Flat
    <2>2. CASE Len(ps) = 2 /\ ps[1] \in Seq(Byte) /\ ps[2] \in Seq(Byte)
      BY <1>2, <2>2 DEF Flat
    <2> QED BY <1>2, <2>1, <2>2, OneOrTwo
  <1> QED BY <1>1, <1>2

LEMMA ThreeParts ==
  \A a, b, c \in Seq(Byte) : (a \o b) \o c = a \o (b \o c)
  <1> SUFFICES ASSUME NEW a \in Seq(Byte), NEW b \in Seq(Byte), NEW c \in Seq(Byte)
               PROVE  (a \o b) \o c = a \o (b \o c)
    OBVIOUS
  <1> QED BY ConcatAssociative

LEMMA FlatAppended ==
  ASSUME NEW ps \in Seq(Seq(Byte)), Len(ps) <= 2, ps # << >>, NEW b \in Seq(Byte)
  PROVE  (b \o Head(ps)) \o Flat(Tail(ps)) = b \o Flat(ps)
  <1>1. CASE Len(ps) = 1 /\ ps[1] \in Seq(Byte) /\ Head(ps) = ps[1] /\ Tail(ps) = << >>
    <2>1. Flat(Tail(ps)) = << >> /\ Flat(ps) = ps[1]
      BY <1>1 DEF Flat
    <2>2. b \o ps[1] \in Seq(Byte)
      BY <1>1
    <2>3. (b \o ps[1]) \o << >> = b \o ps[1]
      BY <2>2, ConcatEmptySeq
    <2> QED BY <1>1, <2>1, <2>3
  <1>2. CASE /\ Len(ps) = 2 /\ ps[1] \in Seq(Byte) /\ ps[2] \in Seq(Byte)
             /\ Head(ps) = ps[1] /\ Tail(ps) = <<ps[2]>>
    <2>1. Flat(ps) = ps[1] \o ps[2]
      BY <1>2 DEF Flat
    <2>2. Flat(<<ps[2]>>) = ps[2]
      <3>1. Len(<<ps[2]>>) = 1 /\ <<ps[2]>>[1] = ps[2] /\ <<ps[2]>> # << >>
        OBVIOUS
      <3> QED BY <3>1 DEF Flat
    <2>3. (b \o ps[1]) \o ps[2] = b \o (ps[1] \o ps[2])
      BY <1>2, ThreeParts
    <2> QED BY <1>2, <2>1, <2>2, <2>3
  <1> QED BY <1>1, <1>2, OneOrTwo

(* Bytes that come first are appended.                                         *)
LEMMA Moved ==
  ASSUME NEW a \in Seq(Byte), NEW b \in Seq(Byte), NEW r \in Results, NEW q \in Results
  PROVE  Then(PP_bytes(a \o << >>), Then(Then(PP_bytes(b), r), q)) =
           Then(PP_bytes(a \o b), Then(r, q))
  <1>1. a \o << >> = a
    BY ConcatEmptySeq
  <1>2. PP_bytes(a) \in Results /\ PP_bytes(b) \in Results /\ Then(r, q) \in Results
    BY BytesType, ThenType
  <1>3. Then(Then(PP_bytes(b), r), q) = Then(PP_bytes(b), Then(r, q))
    BY <1>2, ThenThen
  <1>4. Then(Then(PP_bytes(a), PP_bytes(b)), Then(r, q)) =
          Then(PP_bytes(a), Then(PP_bytes(b), Then(r, q)))
    BY <1>2, ThenThen
  <1> QED BY <1>1, <1>3, <1>4, ThenPacked

LEMMA XSAtType ==
  ASSUME NEW n \in Nat, NEW v \in SVs(n), NEW d \in Int, NEW e,
         NEW C \in [Nat -> [1 .. n -> Results]]
  PROVE  XSAt(v, d, C, e) \in Results
  <1>1. At(C, d) \in [1 .. n -> Results]
    <2>1. (IF d <= 0 THEN 0 ELSE d) \in Nat
      OBVIOUS
    <2> QED BY <2>1 DEF At
  <1> QED BY <1>1, XSPackSVType DEF XSAt

LEMMA DueType ==
  ASSUME NEW n \in Nat, NEW w \in Seq(SVs(n)), Len(w) <= 2, NEW d \in Int, NEW e,
         NEW C \in [Nat -> [1 .. n -> Results]]
  PROVE  /\ DueResult(C, e, w, d) \in Results
         /\ w # << >> => DueResult(C, e, w, d) =
              Then(XSAt(Head(w), d, C, e), DueResult(C, e, Tail(w), d))
  <1>1. CASE w = << >>
    BY <1>1, NothingType DEF DueResult
  <1>2. CASE Len(w) = 1 /\ w # << >> /\ w[1] \in SVs(n) /\ Head(w) = w[1] /\ Tail(w) = << >>
    <2>1. XSAt(w[1], d, C, e) \in Results
      BY <1>2, XSAtType
    <2> QED BY <1>2, <2>1, ThenNothing DEF DueResult
  <1>3. CASE /\ Len(w) = 2 /\ w # << >> /\ w[1] \in SVs(n) /\ w[2] \in SVs(n)
             /\ Head(w) = w[1] /\ Tail(w) = <<w[2]>>
    <2>1. XSAt(w[1], d, C, e) \in Results /\ XSAt(w[2], d, C, e) \in Results
      BY <1>3, XSAtType
    <2>2. DueResult(C, e, <<w[2]>>, d) = XSAt(w[2], d, C, e)
      <3>1. Len(<<w[2]>>) = 1 /\ <<w[2]>>[1] = w[2] /\ <<w[2]>> # << >>
        OBVIOUS
      <3> QED BY <3>1 DEF DueResult
    <2> QED BY <1>3, <2>1, <2>2, ThenType DEF DueResult
  <1> QED BY <1>1, <1>2, <1>3, OneOrTwo

(* What is ahead of a call that is running.                                    *)
AheadNow(C) == XSTable(C, call.heap, enc) /\ Ahead(C, call, enc, out, pending, work, loops)

LEMMA TableRow ==
  ASSUME TypeOK, NEW C, XSTable(C, call.heap, enc)
  PROVE  /\ C \in [Nat -> [1 .. Len(call.heap) -> Results]]
         /\ enc \in SettingsSet
         /\ \A d \in Nat : C[d] \in [1 .. Len(call.heap) -> Results]
  BY HeapType DEF XSTable, TypeOK, SettingsSet

LEMMA AtDepth ==
  ASSUME NEW C, NEW d \in Nat
  PROVE  At(C, d) = C[d]
  <1>1. CASE d = 0
    BY <1>1 DEF At
  <1>2. CASE d # 0
    BY <1>2 DEF At
  <1> QED BY <1>1, <1>2

(* The parts of what is ahead.                                                 *)
LEMMA AheadType ==
  ASSUME TypeOK, FewDue, NEW C, AheadNow(C)
  PROVE  \E T :
         /\ LoopsAhead(C, call.heap, enc, loops, T)
         /\ Then(PP_bytes(out \o Flat(pending)),
                 Then(DueResult(C, enc, work, Depth), T[Len(loops)]))
              = XSAt(call.val, call.depth, C, enc)
         /\ T[Len(loops)] \in Results
         /\ DueResult(C, enc, work, Depth) \in Results
         /\ out \in Seq(Byte) /\ Flat(pending) \in Seq(Byte)
         /\ work # << >> => DueResult(C, enc, work, Depth) =
              Then(XSAt(Head(work), Depth, C, enc), DueResult(C, enc, Tail(work), Depth))
         /\ work # << >> => XSAt(Head(work), Depth, C, enc) \in Results
         /\ work # << >> => DueResult(C, enc, Tail(work), Depth) \in Results
  <1> DEFINE n == Len(call.heap)
  <1>1. PICK T : /\ LoopsAhead(C, call.heap, enc, loops, T)
                 /\ Then(PP_bytes(out \o Flat(pending)),
                         Then(DueResult(C, enc, work, DepthIn(call, loops)), T[Len(loops)]))
                      = XSAt(call.val, call.depth, C, enc)
    BY DEF AheadNow, Ahead
  <1>2. DepthIn(call, loops) = Depth
    BY DEF DepthIn, Depth
  <1>3. Len(loops) \in Nat
    BY DEF TypeOK
  <1>4. T[Len(loops)] \in Results
    BY <1>1, <1>3 DEF LoopsAhead
  <1>5. out \in Seq(Byte) /\ Flat(pending) \in Seq(Byte)
    BY FlatType DEF TypeOK, FewDue
  <1>6. /\ n \in Nat /\ work \in Seq(SVs(n)) /\ Len(work) <= 2 /\ Depth \in Int
        /\ C \in [Nat -> [1 .. n -> Results]]
    BY HeapType, DepthType, TableRow DEF TypeOK, FewDue, AheadNow
  <1> HIDE DEF n
  <1>7. /\ DueResult(C, enc, work, Depth) \in Results
        /\ work # << >> => DueResult(C, enc, work, Depth) =
             Then(XSAt(Head(work), Depth, C, enc), DueResult(C, enc, Tail(work), Depth))
    BY <1>6, DueType
  <1>8. ASSUME work # << >>
        PROVE  /\ XSAt(Head(work), Depth, C, enc) \in Results
               /\ DueResult(C, enc, Tail(work), Depth) \in Results
    <2>1. Head(work) \in SVs(n) /\ Tail(work) \in Seq(SVs(n)) /\ Len(Tail(work)) <= 2
      <3>1. Head(work) \in SVs(n) /\ Tail(work) \in Seq(SVs(n))
        BY <1>6, <1>8, FirstAndRest
      <3>2. Len(Tail(work)) = Len(work) - 1 /\ Len(work) \in Nat
        BY <1>6, <1>8
      <3> QED BY <1>6, <3>1, <3>2
    <2> QED BY <1>6, <2>1, XSAtType, DueType
  <1> QED BY <1>1, <1>2, <1>4, <1>5, <1>7, <1>8

-------------------------------------------------------------------------------
(* What each step makes of it.                                                 *)
LEMMA AppendAhead ==
  ASSUME TypeOK, FewDue, NEW C, AheadNow(C), pending # << >>
  PROVE  Ahead(C, call, enc, out \o Head(pending), Tail(pending), work, loops)
  <1>1. (out \o Head(pending)) \o Flat(Tail(pending)) = out \o Flat(pending)
    BY FlatAppended DEF TypeOK, FewDue
  <1> QED BY <1>1 DEF AheadNow, Ahead

LEMMA DiedAhead ==
  ASSUME TypeOK, FewDue, NEW C, AheadNow(C), pending = << >>, work # << >>,
         NEW why \in {"nesting", "unsupported"},
         XSAt(Head(work), Depth, C, enc) = PP_died(why)
  PROVE  XSAt(call.val, call.depth, C, enc) = PP_died(why)
  <1> DEFINE q == DueResult(C, enc, Tail(work), Depth)
             r == PP_died(why)
  <1>1. PICK T : /\ Then(PP_bytes(out \o Flat(pending)),
                         Then(DueResult(C, enc, work, Depth), T[Len(loops)]))
                      = XSAt(call.val, call.depth, C, enc)
                 /\ DueResult(C, enc, work, Depth) = Then(r, q)
    BY AheadType
  <1>2. r.status # "packed"
    BY DiedFields
  <1> HIDE DEF r, q
  <1>3. Then(r, q) = r /\ Then(r, T[Len(loops)]) = r
        /\ Then(PP_bytes(out \o Flat(pending)), r) = r
    BY <1>2, ThenDead
  <1> QED BY <1>1, <1>3 DEF r

LEMMA BytesAhead ==
  ASSUME TypeOK, FewDue, NEW C, AheadNow(C), pending = << >>, work # << >>,
         NEW ps \in Seq(Seq(Byte)), Len(ps) <= 2,
         XSAt(Head(work), Depth, C, enc) = PP_bytes(Flat(ps))
  PROVE  Ahead(C, call, enc, out, ps, Tail(work), loops)
  <1> DEFINE q == DueResult(C, enc, Tail(work), Depth)
             b == Flat(ps)
  <1>1. PICK T : /\ LoopsAhead(C, call.heap, enc, loops, T)
                 /\ Then(PP_bytes(out \o Flat(pending)),
                         Then(DueResult(C, enc, work, Depth), T[Len(loops)]))
                      = XSAt(call.val, call.depth, C, enc)
                 /\ DueResult(C, enc, work, Depth) = Then(PP_bytes(b), q)
                 /\ q \in Results /\ out \in Seq(Byte) /\ T[Len(loops)] \in Results
    BY AheadType
  <1>2. b \in Seq(Byte)
    BY FlatType
  <1>3. Flat(pending) = << >>
    BY DEF Flat
  <1>4. Depth = DepthIn(call, loops)
    BY DEF Depth, DepthIn
  <1>5. Then(PP_bytes(out \o b), Then(q, T[Len(loops)])) = XSAt(call.val, call.depth, C, enc)
    <2> DEFINE u == T[Len(loops)]
    <2>1. u \in Results
      BY <1>1
    <2> HIDE DEF q, b, u
    <2>2. Then(PP_bytes(out \o << >>), Then(Then(PP_bytes(b), q), u)) =
            Then(PP_bytes(out \o b), Then(q, u))
      BY <1>1, <1>2, <2>1, Moved
    <2> QED BY <1>1, <1>3, <2>2 DEF u
  <1> QED BY <1>1, <1>4, <1>5 DEF Ahead

LEMMA PackedAhead ==
  ASSUME TypeOK, NEW C, AheadNow(C), pending = << >>, work = << >>, loops = << >>
  PROVE  XSAt(call.val, call.depth, C, enc) = PP_bytes(out)
  <1>1. PICK T : /\ LoopsAhead(C, call.heap, enc, loops, T)
                 /\ Then(PP_bytes(out \o Flat(pending)),
                         Then(DueResult(C, enc, work, DepthIn(call, loops)), T[Len(loops)]))
                      = XSAt(call.val, call.depth, C, enc)
    BY DEF AheadNow, Ahead
  <1>2. T[Len(loops)] = Nothing
    <2>1. Len(loops) = 0
      OBVIOUS
    <2> QED BY <1>1, <2>1 DEF LoopsAhead
  <1>3. out \o Flat(pending) = out
    <2>1. Flat(pending) = << >>
      BY DEF Flat
    <2> QED BY <2>1, ConcatEmptySeq DEF TypeOK
  <1>4. DueResult(C, enc, work, DepthIn(call, loops)) = Nothing
    BY DEF DueResult
  <1>5. PP_bytes(out) \in Results
    BY BytesType DEF TypeOK
  <1>6. Then(Nothing, Nothing) = Nothing /\ Then(PP_bytes(out), Nothing) = PP_bytes(out)
    BY <1>5, ThenNothing, NothingType
  <1> QED BY <1>1, <1>2, <1>3, <1>4, <1>6, Zenon

LEMMA CallAhead ==
  ASSUME NEW c \in Arguments, NEW e \in SettingsSet, NEW C, XSTable(C, c.heap, e)
  PROVE  Ahead(C, c, e, << >>, << >>, <<c.val>>, << >>)
  <1> DEFINE T == [i \in 0 .. 0 |-> Nothing]
             n == Len(c.heap)
             r == XSAt(c.val, c.depth, C, e)
  <1>1. n \in Nat /\ c.val \in SVs(n) /\ c.depth \in Int /\ DOMAIN c.heap = 1 .. n
    BY ArgumentsType
  <1>2. C \in [Nat -> [1 .. n -> Results]]
    BY <1>1 DEF XSTable
  <1>3. r \in Results
    <2> HIDE DEF n
    <2> QED BY <1>1, <1>2, XSAtType
  <1>4. T \in [0 .. 0 -> Results] /\ T[0] = Nothing
    BY NothingType
  <1>5. Len(<< >>) = 0
    OBVIOUS
  <1>6. LoopsAhead(C, c.heap, e, << >>, T)
    <2> HIDE DEF T
    <2> QED BY <1>4, <1>5 DEF LoopsAhead
  <1>7. DepthIn(c, << >>) = c.depth
    BY DEF DepthIn
  <1>8. DueResult(C, e, <<c.val>>, c.depth) = r
    <2>1. Len(<<c.val>>) = 1 /\ <<c.val>>[1] = c.val /\ <<c.val>> # << >>
      OBVIOUS
    <2> QED BY <2>1 DEF DueResult
  <1>9. Flat(<< >>) = << >> /\ << >> \o << >> = << >> /\ PP_bytes(<< >>) = Nothing
    <2>1. << >> \o << >> = << >>
      BY ConcatEmptySeq, EmptySeq
    <2> QED BY <2>1 DEF Flat, Nothing
  <1> HIDE DEF r, T
  <1>10. Then(Nothing, Then(r, Nothing)) = r
    BY <1>3, ThenNothing
  <1>11. Then(PP_bytes(<< >> \o Flat(<< >>)),
              Then(DueResult(C, e, <<c.val>>, DepthIn(c, << >>)), T[Len(<< >>)])) = r
    BY <1>4, <1>5, <1>7, <1>8, <1>9, <1>10
  <1> QED BY <1>6, <1>11 DEF Ahead, r

LEMMA FlatOf ==
  /\ \A b \in Seq(Byte) : Flat(<<b>>) = b /\ <<b>> \in Seq(Seq(Byte)) /\ Len(<<b>>) <= 2
  /\ \A a, b \in Seq(Byte) : /\ Flat(<<a, b>>) = a \o b
                             /\ <<a, b>> \in Seq(Seq(Byte)) /\ Len(<<a, b>>) <= 2
  <1>1. ASSUME NEW b \in Seq(Byte)
        PROVE  Flat(<<b>>) = b /\ <<b>> \in Seq(Seq(Byte)) /\ Len(<<b>>) <= 2
    <2>1. Len(<<b>>) = 1 /\ <<b>>[1] = b /\ <<b>> # << >>
      OBVIOUS
    <2> QED BY <2>1 DEF Flat
  <1>2. ASSUME NEW a \in Seq(Byte), NEW b \in Seq(Byte)
        PROVE  /\ Flat(<<a, b>>) = a \o b
               /\ <<a, b>> \in Seq(Seq(Byte)) /\ Len(<<a, b>>) <= 2
    <2>1. Len(<<a, b>>) = 2 /\ <<a, b>>[1] = a /\ <<a, b>>[2] = b /\ <<a, b>> # << >>
      OBVIOUS
    <2> QED BY <2>1 DEF Flat
  <1> QED BY <1>1, <1>2

(* The if chain and the function agree on what is no reference.                *)
LEMMA ScalarAhead ==
  ASSUME TypeOK, PackScalar, NEW C
  PROVE  \E ps \in Seq(Seq(Byte)) :
           Len(ps) <= 2 /\ Bytes(ps) /\ XSAt(SV, Depth, C, enc) = PP_bytes(Flat(ps))
  <1> DEFINE n == Len(call.heap)
             v == SV
             r == XSAt(SV, Depth, C, enc)
             Done(ps) == /\ ps \in Seq(Seq(Byte)) /\ Len(ps) <= 2
                         /\ Bytes(ps) /\ r = PP_bytes(Flat(ps))
  <1>1. n \in Nat /\ v \in SVs(n) /\ ~(Depth <= 0)
    BY HeapType, FirstAndRest DEF TypeOK, PackScalar, Due, SV, DepthExceeded
  <1>2. \/ "undef" \in DOMAIN v /\ Bytes(<<Nil>>)
        \/ "iv" \in DOMAIN v /\ Bytes(<<Integer(v.iv)>>)
        \/ "nv" \in DOMAIN v /\ Bytes(<<Double(v.nv)>>)
        \/ IsString(v) /\ Bytes(String(v.pv))
        \/ "bool" \in DOMAIN v /\ Bytes(<<IF v.bool THEN True ELSE False>>)
        \/ v = ScalarRef(<<49>>) /\ Bytes(<<True>>)
        \/ v = ScalarRef(<<48>>) /\ Bytes(<<False>>)
    BY DEF PackScalar
  <1>3. r = XSPackSV(v, Depth, At(C, Depth), enc)
    BY DEF XSAt
  <1> HIDE DEF v, r, n
  <1>4. v # NoSV /\ \A b \in Seq(Byte) : XSScalar(v, enc) = PP_bytes(b) /\ ~IsRef(v)
                      /\ Bytes(<<b>>) => Done(<<b>>)
    <2>1. v # NoSV
      BY <1>1, SVKind
    <2>2. ~IsRef(v) => r = XSScalar(v, enc)
      BY <1>1, <1>3, <2>1 DEF XSPackSV
    <2> QED BY <2>1, <2>2, FlatOf
  <1>5. DOMAIN ScalarRef(<<49>>) = {"scalar"} /\ DOMAIN ScalarRef(<<48>>) = {"scalar"}
    BY DEF ScalarRef
  <1>6. ScalarRef(<<49>>) # ScalarRef(<<48>>)
    <2>1. ScalarRef(<<49>>).scalar[1] = 49 /\ ScalarRef(<<48>>).scalar[1] = 48
      BY DEF ScalarRef
    <2> QED BY <2>1
  <1>7. DOMAIN Undef = {"undef", "svs"}
    BY DEF Undef
  <1>8. CASE v = Undef
    <2>1. Bytes(<<Nil>>)
      BY <1>2, <1>5, <1>7, <1>8 DEF IsString
    <2>2. XSScalar(v, enc) = PP_bytes(Nil) /\ ~IsRef(v)
      BY <1>7, <1>8 DEF XSScalar, IsRef
    <2>3. Done(<<Nil>>)
      BY <1>4, <2>1, <2>2, FixedBytes
    <2> QED BY <2>3 DEF r, v
  <1>9. CASE DOMAIN v = {"bool", "svs"} /\ v.bool \in BOOLEAN /\ v = Bool(v.bool)
    <2> DEFINE b == IF v.bool THEN True ELSE False
    <2>1. Bytes(<<b>>)
      BY <1>2, <1>5, <1>9 DEF IsString
    <2>2. XSScalar(v, enc) = PP_bytes(b) /\ ~IsRef(v)
      BY <1>9 DEF XSScalar, IsRef
    <2>3. b \in Seq(Byte)
      BY FixedBytes
    <2>4. Done(<<b>>)
      <3> HIDE DEF b, Done
      <3> QED BY <1>4, <2>1, <2>2, <2>3
    <2> QED BY <2>4 DEF r, v
  <1>10. CASE DOMAIN v = {"iv", "svs"} /\ v.iv \in Int /\ v = IntValue(v.iv)
    <2> DEFINE b == Integer(v.iv)
    <2>1. Bytes(<<b>>)
      BY <1>2, <1>5, <1>10 DEF IsString
    <2>2. XSScalar(v, enc) = PP_bytes(b) /\ ~IsRef(v)
      BY <1>10 DEF XSScalar, IsRef, IsString
    <2>3. b \in Seq(Byte)
      BY <1>10, IntegerBytes
    <2>4. Done(<<b>>)
      <3> HIDE DEF b, Done
      <3> QED BY <1>4, <2>1, <2>2, <2>3
    <2> QED BY <2>4 DEF r, v
  <1>11. CASE DOMAIN v = {"nv", "svs"} /\ v.nv \in Seq(Byte) /\ v = Float(v.nv)
    <2> DEFINE b == Double(v.nv)
    <2>1. Bytes(<<b>>)
      BY <1>2, <1>5, <1>11 DEF IsString
    <2>2. XSScalar(v, enc) = PP_bytes(b) /\ ~IsRef(v)
      BY <1>11 DEF XSScalar, IsRef, IsString
    <2>3. b \in Seq(Byte)
      BY <1>11, FixedBytes
    <2>4. Done(<<b>>)
      <3> HIDE DEF b, Done
      <3> QED BY <1>4, <2>1, <2>2, <2>3
    <2> QED BY <2>4 DEF r, v
  <1>12. CASE DOMAIN v = {"pv", "text", "svs"} /\ v.pv \in Seq(Byte)
    <2> DEFINE s == v.pv
    <2>1. Bytes(String(s))
      BY <1>2, <1>5, <1>12 DEF IsString
    <2>2. XSScalar(v, enc) = PP_bytes(XSString(s, enc)) /\ ~IsRef(v) /\ s \in Seq(Byte)
      BY <1>12 DEF XSScalar, IsRef, IsString
    <2>3. r = PP_bytes(XSString(s, enc))
      BY <1>1, <1>3, <1>4, <2>2 DEF XSPackSV
    <2> HIDE DEF s
    <2>4. CASE enc.prefer_int /\ IsInt(s)
      <3> DEFINE b == Integer(StringInt(s))
      <3>1. String(s) = <<b>> /\ XSString(s, enc) = b
        BY <2>4 DEF String, XSString
      <3>2. b \in Seq(Byte)
        BY <2>2, StringIntType, IntegerBytes
      <3> HIDE DEF b
      <3>3. Done(<<b>>)
        BY <2>1, <2>3, <3>1, <3>2, FlatOf
      <3> QED BY <3>3 DEF r, v
    <2>5. CASE ~(enc.prefer_int /\ IsInt(s))
      <3> DEFINE h == IF enc.utf8 THEN StrHeader(Len(s)) ELSE BinHeader(Len(s))
      <3>1. String(s) = <<h, s>> /\ XSString(s, enc) = h \o s
        BY <2>5 DEF String, XSString
      <3>2. h \in Seq(Byte)
        BY <2>2, HeaderBytes
      <3> HIDE DEF h
      <3>3. Done(<<h, s>>)
        BY <2>1, <2>2, <2>3, <3>1, <3>2, FlatOf
      <3> QED BY <3>3 DEF r, v
    <2> QED BY <2>4, <2>5
  <1>13. CASE DOMAIN v = {"rv"} \/ DOMAIN v = {"other"}
    BY <1>2, <1>5, <1>13 DEF IsString
  <1>14. CASE DOMAIN v = {"scalar"}
    <2>1. CASE v = ScalarRef(<<49>>)
      <3>1. Bytes(<<True>>)
        BY <1>2, <1>6, <1>14, <2>1 DEF IsString
      <3>2. XSScalar(v, enc) = PP_bytes(True) /\ ~IsRef(v)
        BY <1>14, <2>1 DEF XSScalar, IsRef, IsString
      <3>3. Done(<<True>>)
        <4> HIDE DEF Done
        <4> QED BY <1>4, <3>1, <3>2, FixedBytes
      <3> QED BY <3>3 DEF r, v
    <2>2. CASE v # ScalarRef(<<49>>)
      <3>1. Bytes(<<False>>) /\ v = ScalarRef(<<48>>)
        BY <1>2, <1>14, <2>2 DEF IsString
      <3>2. XSScalar(v, enc) = PP_bytes(False) /\ ~IsRef(v)
        BY <1>14, <2>2, <3>1 DEF XSScalar, IsRef, IsString
      <3>3. Done(<<False>>)
        <4> HIDE DEF Done
        <4> QED BY <1>4, <3>1, <3>2, FixedBytes
      <3> QED BY <3>3 DEF r, v
    <2> QED BY <2>1, <2>2
  <1> QED BY <1>1, <1>8, <1>9, <1>10, <1>11, <1>12, <1>13, <1>14, SVKind

LEMMA UnsupportedAhead ==
  ASSUME TypeOK, PackUnsupported, NEW C
  PROVE  XSAt(SV, Depth, C, enc) = PP_died("unsupported")
  <1> DEFINE n == Len(call.heap)
             v == SV
  <1>1. n \in Nat /\ v \in SVs(n) /\ ~(Depth <= 0)
    BY HeapType, FirstAndRest DEF TypeOK, PackUnsupported, Due, SV, DepthExceeded
  <1>2. "other" \in DOMAIN v \/ ("scalar" \in DOMAIN v /\ v.scalar \notin {<<48>>, <<49>>})
    BY DEF PackUnsupported
  <1>3. v # NoSV
    BY <1>1, SVKind
  <1>4. DOMAIN Undef = {"undef", "svs"}
    BY DEF Undef
  <1>5. (DOMAIN v = {"scalar"} \/ DOMAIN v = {"other"})
    <2> HIDE DEF v, n
    <2> QED BY <1>1, <1>2, <1>4, SVKind
  <1>6. v # ScalarRef(<<49>>) /\ v # ScalarRef(<<48>>)
    <2>1. /\ DOMAIN ScalarRef(<<49>>) = {"scalar"} /\ ScalarRef(<<49>>).scalar = <<49>>
          /\ DOMAIN ScalarRef(<<48>>) = {"scalar"} /\ ScalarRef(<<48>>).scalar = <<48>>
      BY DEF ScalarRef
    <2> HIDE DEF v
    <2> QED BY <1>2, <2>1
  <1> HIDE DEF v
  <1>7. XSScalar(v, enc) = PP_died("unsupported") /\ ~IsRef(v)
    BY <1>5, <1>6 DEF XSScalar, IsString, IsRef
  <1> QED BY <1>1, <1>3, <1>7 DEF XSAt, XSPackSV, v

LEMMA TooDeepAhead ==
  ASSUME TypeOK, TooDeep, NEW C
  PROVE  XSAt(SV, Depth, C, enc) = PP_died("nesting")
  <1>1. SV \in SVs(Len(call.heap)) /\ Len(call.heap) \in Nat
    BY HeapType, FirstAndRest DEF TypeOK, TooDeep, Due, SV
  <1>2. SV # NoSV
    BY <1>1, SVKind
  <1> QED BY <1>2 DEF TooDeep, DepthExceeded, XSAt, XSPackSV

-------------------------------------------------------------------------------
(* The loops.                                                                  *)
(* What a loop takes next of what is left.                                     *)
ComesFirst(i, left, o, canonical) ==
  i \in left /\ IF canonical /\ ~IsArray(o)
                 THEN \A x \in left : ~Before(o.pairs[x][1], o.pairs[i][1])
                 ELSE \A x \in left : i <= x

(* That is the next one in the order.                                          *)
LEMMA NextInOrder ==
  ASSUME NEW o, NEW e \in SettingsSet, NEW p, PackedBy(p, o, e.canonical),
         Len(Loop(o)) \in Nat, ~IsArray(o) => KeysDiffer(o),
         NEW j \in 1 .. Len(Loop(o)) + 1, NEW left, LeftFrom(left, p, j, Len(Loop(o))),
         NEW i, ComesFirst(i, left, o, e.canonical)
  PROVE  /\ j <= Len(Loop(o)) /\ i = p[j]
         /\ LeftFrom(left \ {i}, p, j + 1, Len(Loop(o)))
  <1> DEFINE n == Len(Loop(o))
  <1>1. Rearranges(p, n)
    BY DEF PackedBy
  <1>2. n \in Nat /\ j \in Nat /\ j >= 1
    OBVIOUS
  <1>0. left = {p[k] : k \in j .. n} /\ i \in left
    BY DEF LeftFrom, ComesFirst
  <1>3. ASSUME e.canonical /\ ~IsArray(o)
        PROVE  i = p[j] /\ j \in 1 .. n
    <2>1. \A k, m \in 1 .. n : k < m => Before(o.pairs[p[k]][1], o.pairs[p[m]][1])
      BY <1>3 DEF PackedBy
    <2>2. PICK m \in j .. n : i = p[m]
      BY <1>0
    <2>3. \A x \in left : ~Before(o.pairs[x][1], o.pairs[i][1])
      BY <1>3 DEF ComesFirst
    <2> HIDE DEF n
    <2>4. j \in j .. n /\ j \in 1 .. n /\ m \in 1 .. n
      BY <1>2, <2>2
    <2>5. p[j] \in left
      BY <1>0, <2>4
    <2>6. ~(j < m)
      BY <2>1, <2>2, <2>3, <2>4, <2>5
    <2>7. i = p[j]
      BY <1>2, <2>2, <2>6
    <2> QED BY <2>4, <2>7
  <1>4. ASSUME ~(e.canonical /\ ~IsArray(o))
        PROVE  i = p[j] /\ j \in 1 .. n
    <2>1. \A k \in 1 .. n : p[k] = k
      BY <1>4 DEF PackedBy
    <2>2. \A x \in left : i <= x
      BY <1>4 DEF ComesFirst
    <2>3. PICK m \in j .. n : i = p[m]
      BY <1>0
    <2>4. left = {p[k] : k \in j .. n}
      BY <1>0
    <2> HIDE DEF n
    <2>5. j \in j .. n /\ j \in 1 .. n /\ m \in 1 .. n
      BY <1>2, <2>3
    <2>6. p[j] \in left /\ p[j] = j /\ p[m] = m
      BY <2>1, <2>4, <2>5
    <2>7. i = p[j]
      <3>1. m <= j /\ j <= m
        BY <1>2, <2>2, <2>3, <2>6
      <3> QED BY <1>2, <2>3, <3>1
    <2> QED BY <2>5, <2>7
  <1>5. i = p[j] /\ j \in 1 .. n
    BY <1>3, <1>4
  <1>6. left \ {i} = {p[k] : k \in j + 1 .. n}
    <2>1. left = {p[k] : k \in j .. n}
      BY <1>0
    <2> HIDE DEF n
    <2>2. ASSUME NEW k \in j .. n
          PROVE  p[k] # i <=> k \in j + 1 .. n
      <3>1. k \in 1 .. n
        BY <1>2
      <3>2. p[k] = p[j] => k = j
        BY <1>1, <1>5, <3>1 DEF Rearranges
      <3> QED BY <1>2, <1>5, <3>1, <3>2
    <2>3. ASSUME NEW k \in j + 1 .. n
          PROVE  k \in j .. n
      BY <1>2
    <2> QED BY <2>1, <2>2, <2>3
  <1> QED BY <1>5, <1>6 DEF LeftFrom

(* Hashes have different keys.                                                 *)
LEMMA HeldHeap ==
  ASSUME TypeOK
  PROVE  \A n \in DOMAIN call.heap : HeldObject(call.heap[n])
  <1>1. CASE call = NoCall
    BY <1>1 DEF NoCall
  <1>2. CASE call \in [heap : Heaps, val : {Ref(1)}, depth : Depths, self : Selves]
    BY <1>2, HeldAssumption
  <1>3. CASE call \in [heap : {<< >>}, val : Scalars, depth : Depths, self : Selves]
    <2>1. call.heap = << >>
      BY <1>3
    <2> QED BY <2>1
  <1> QED BY <1>1, <1>2, <1>3 DEF TypeOK, Arguments

(* The innermost loop takes i, which comes first: what i is packed as is due,  *)
(* and the rest is ahead.                                                      *)
LEMMA TakenAhead ==
  ASSUME TypeOK, RecursionBounded, FewDue, NEW C, AheadNow(C), Looping,
         NEW i \in Left, Taken(i),
         IF IsArray(Object) THEN \A x \in Left : i <= x ELSE First(i)
  PROVE  \E T :
         /\ LoopsAhead(C, call.heap, enc, loops', T) /\ T[Len(loops')] \in Results
         /\ XSItem(Object, Loop(Object)[i], Depth, C[Depth], enc) \in Results
         /\ Then(PP_bytes(out),
                 Then(XSItem(Object, Loop(Object)[i], Depth, C[Depth], enc), T[Len(loops')]))
              = XSAt(call.val, call.depth, C, enc)
         /\ DepthIn(call, loops') = Depth /\ Depth \in Nat
  <1> DEFINE L == Len(loops)
             l == loops[L]
             o == Object
             m == Len(Loop(o))
             n == Len(call.heap)
  <1>1. /\ L \in Nat \ {0} /\ L \in DOMAIN loops /\ DOMAIN loops = 1 .. L
        /\ Last(loops) = l /\ l \in LoopsOver(call.heap)
    <2>1. loops \in Seq(LoopsOver(call.heap)) /\ loops # << >>
      BY DEF Looping, TypeOK
    <2>2. DOMAIN loops = 1 .. L
      BY <2>1
    <2>3. /\ Len(loops) \in Nat \ {0} /\ Len(loops) \in DOMAIN loops
          /\ Last(loops) = loops[Len(loops)] /\ Last(loops) \in LoopsOver(call.heap)
      BY <2>1, LastAndFront
    <2> QED BY <2>2, <2>3
  <1>2. /\ call.heap \in Seq(Objects(n)) /\ n \in Nat /\ DOMAIN call.heap = 1 .. n
    BY HeapType
  <1>3. l.of \in DOMAIN call.heap /\ o = call.heap[l.of] /\ Left = l.left /\ Depth = l.depth
    BY <1>1 DEF LoopsOver, Object, Left, Depth, Looping
  <1>4. Depth \in Nat
    BY <1>1, <1>3, DepthType DEF RecursionBounded
  <1>5. o \in Objects(n) /\ HeldObject(o)
    BY <1>2, <1>3, HeldHeap
  <1>6. PICK T : /\ LoopsAhead(C, call.heap, enc, loops, T)
                 /\ Then(PP_bytes(out \o Flat(pending)),
                         Then(DueResult(C, enc, work, Depth), T[L]))
                      = XSAt(call.val, call.depth, C, enc)
                 /\ out \in Seq(Byte)
    BY AheadType
  <1>7. Then(PP_bytes(out), T[L]) = XSAt(call.val, call.depth, C, enc)
    <2>1. Flat(pending) = << >> /\ out \o << >> = out
      BY <1>6, ConcatEmptySeq DEF Looping, Flat
    <2>2. DueResult(C, enc, work, Depth) = Nothing
      BY DEF Looping, DueResult
    <2>3. T[L] \in Results
      BY <1>1, <1>6 DEF LoopsAhead
    <2> QED BY <1>6, <2>1, <2>2, <2>3, ThenNothing
  <1>8. PICK p, R, j : /\ LoopAt(C, call.heap, enc, l, p, R, j)
                       /\ T[L] = Then(R[j], T[L - 1])
    BY <1>1, <1>6 DEF LoopsAhead, LoopAhead
  <1> DEFINE items == XSItems(o, Depth, C[Depth], enc)
             x == XSItem(o, Loop(o)[i], Depth, C[Depth], enc)
  <1>9. /\ PackedBy(p, o, enc.canonical)
        /\ Ordered(o, enc.canonical) = [k \in 1 .. m |-> Loop(o)[p[k]]]
        /\ Rests(R, items) /\ j \in 1 .. m + 1 /\ LeftFrom(Left, p, j, m)
    BY <1>3, <1>8 DEF LoopAt
  <1>10. enc \in SettingsSet /\ enc.canonical \in BOOLEAN
         /\ C[Depth] \in [1 .. n -> Results]
    BY <1>4, TableRow DEF AheadNow, SettingsSet
  <1>11. /\ items \in Seq(Results) /\ Len(items) = m /\ m \in Nat
         /\ \A k \in 1 .. m : items[k] = XSItem(o, Ordered(o, enc.canonical)[k], Depth, C[Depth], enc)
    <2> HIDE DEF n, o, m
    <2> QED BY <1>2, <1>4, <1>5, <1>10, XSItemsType DEF m
  <1>12. ComesFirst(i, Left, o, enc.canonical)
    BY DEF First, KeyOf, ComesFirst
  <1>13. j <= m /\ i = p[j] /\ LeftFrom(Left \ {i}, p, j + 1, m)
    <2>1. ~IsArray(o) => KeysDiffer(o)
      BY <1>5 DEF HeldObject
    <2> HIDE DEF o
    <2> QED BY <1>9, <1>10, <1>11, <1>12, <2>1, NextInOrder
  <1> HIDE DEF items, x, o, l, n
  <1>14. j \in 1 .. m /\ j + 1 \in 1 .. m + 1
    BY <1>9, <1>11, <1>13
  <1>15. items[j] = x
    BY <1>9, <1>11, <1>13, <1>14 DEF x
  <1>16. x \in Results /\ R[j + 1] \in Results /\ R[j] = Then(x, R[j + 1])
    <2> HIDE DEF m
    <2> QED BY <1>9, <1>11, <1>14, <1>15 DEF Rests
  <1> DEFINE T2 == [k \in 0 .. L |-> IF k = L THEN Then(R[j + 1], T[L - 1]) ELSE T[k]]
  <1>17. /\ Len(loops') = L /\ DOMAIN loops' = DOMAIN loops
         /\ \A k \in DOMAIN loops : k # L => loops'[k] = loops[k]
         /\ loops'[L].of = l.of /\ loops'[L].depth = l.depth
         /\ loops'[L].left = Left \ {i}
    <2>1. loops' = [loops EXCEPT ![L].left = @ \ {i}] /\ loops \in Seq(LoopsOver(call.heap))
      BY DEF Taken, TypeOK
    <2>2. \A k \in DOMAIN loops : k # L => loops'[k] = loops[k]
      BY <1>1, <2>1
    <2>3. loops'[L].of = l.of /\ loops'[L].depth = l.depth
      BY <1>1, <2>1 DEF l, LoopsOver
    <2>4. Len(loops') = L /\ DOMAIN loops' = DOMAIN loops /\ loops'[L].left = Left \ {i}
      BY TakenLoops DEF Looping
    <2> QED BY <2>2, <2>3, <2>4
  <1>18. T[L - 1] \in Results
    <2>1. L - 1 \in 0 .. L
      BY <1>1
    <2> QED BY <1>6, <2>1 DEF LoopsAhead
  <1>19. T2 \in [0 .. L -> Results] /\ T2[0] = Nothing
    <2>1. \A k \in 0 .. L : T[k] \in Results
      BY <1>6 DEF LoopsAhead
    <2>2. Then(R[j + 1], T[L - 1]) \in Results
      BY <1>16, <1>18, ThenType
    <2>3. 0 \in 0 .. L /\ 0 # L
      BY <1>1
    <2>4. T[0] = Nothing
      BY <1>6 DEF LoopsAhead
    <2> HIDE DEF L
    <2> QED BY <2>1, <2>2, <2>3, <2>4
  <1>20. ASSUME NEW k \in 1 .. L
         PROVE  LoopAhead(C, call.heap, enc, loops'[k], T2[k], T2[k - 1])
    <2> HIDE DEF L
    <2>1. k \in 0 .. L /\ k - 1 \in 0 .. L /\ k - 1 # L
      BY <1>1
    <2>2. T2[k - 1] = T[k - 1]
      BY <2>1
    <2>3. CASE k # L
      <3>1. loops'[k] = loops[k] /\ T2[k] = T[k]
        BY <1>1, <1>17, <2>1, <2>3
      <3>2. LoopAhead(C, call.heap, enc, loops[k], T[k], T[k - 1])
        BY <1>6 DEF LoopsAhead, L
      <3> QED BY <2>2, <3>1, <3>2
    <2>4. CASE k = L
      <3>1. T2[k] = Then(R[j + 1], T2[k - 1])
        BY <2>1, <2>2, <2>4
      <3>2. LoopAt(C, call.heap, enc, loops'[k], p, R, j + 1)
        BY <1>3, <1>9, <1>13, <1>14, <1>17, <2>4 DEF LoopAt, items
      <3> HIDE DEF T2
      <3> QED BY <3>1, <3>2 DEF LoopAhead
    <2> QED BY <2>3, <2>4
  <1>21. LoopsAhead(C, call.heap, enc, loops', T2)
    <2> HIDE DEF T2, L
    <2> QED BY <1>17, <1>19, <1>20 DEF LoopsAhead
  <1>22. Then(PP_bytes(out), Then(x, T2[L])) = XSAt(call.val, call.depth, C, enc)
    <2>1. L \in 0 .. L
      BY <1>1
    <2>2. T2[L] = Then(R[j + 1], T[L - 1])
      BY <2>1
    <2> HIDE DEF T2, L
    <2>3. Then(x, Then(R[j + 1], T[L - 1])) = Then(R[j], T[L - 1])
      BY <1>16, <1>18, ThenThen
    <2> QED BY <1>7, <1>8, <2>2, <2>3
  <1>23. DepthIn(call, loops') = Depth
    <2>1. loops' \in Seq(LoopsOver(call.heap))
      BY TakenType DEF Looping
    <2>2. loops' # << >>
      <3>1. Len(loops') # 0
        BY <1>1, <1>17
      <3> QED BY <2>1, <3>1
    <2>3. Last(loops') = loops'[L]
      BY <1>17 DEF Last
    <2> QED BY <1>3, <1>17, <2>2, <2>3 DEF DepthIn
  <1>24. T2[Len(loops')] \in Results
    <2>1. L \in 0 .. L
      BY <1>1
    <2> HIDE DEF T2, L
    <2> QED BY <1>17, <1>19, <2>1
  <1> HIDE DEF T2, L
  <1>25. Then(PP_bytes(out), Then(x, T2[Len(loops')])) = XSAt(call.val, call.depth, C, enc)
    BY <1>17, <1>22
  <1> QED BY <1>4, <1>16, <1>21, <1>23, <1>24, <1>25 DEF x, o

LEMMA ContainerAhead ==
  ASSUME TypeOK, RecursionBounded, KeysComeFirst, FewDue, PackContainer,
         NEW C, AheadNow(C)
  PROVE  Ahead(C, call, enc, out, <<Header(call.heap[SV.rv])>>, << >>, loops')
  <1> DEFINE L == Len(loops)
             n == Len(call.heap)
             o == call.heap[SV.rv]
             m == Len(Loop(o))
             d == Depth - 1
             h == Header(o)
             items == XSItems(o, d, C[d], enc)
             new == [of |-> SV.rv, left |-> DOMAIN Loop(o), depth |-> Depth - 1]
  <1>1. /\ L \in Nat /\ Len(loops') = L + 1
        /\ DOMAIN loops' = DOMAIN loops \cup {L + 1} /\ L + 1 \notin DOMAIN loops
        /\ \A k \in DOMAIN loops : loops'[k] = loops[k]
        /\ work' = << >> /\ IsRef(SV) /\ o \in Objects(n) /\ n \in Nat
    BY EnteredLoops
  <1>2. DOMAIN loops = 1 .. L /\ loops'[L + 1] = new /\ pending = << >> /\ work # << >>
        /\ Tail(work) = << >>
    <2>1. loops \in Seq(LoopsOver(call.heap)) /\ loops' = Append(loops, new)
      BY DEF TypeOK, PackContainer
    <2>2. DOMAIN loops = 1 .. L /\ loops'[L + 1] = new
      <3> HIDE DEF new
      <3> QED BY <2>1
    <2>3. pending = << >> /\ work # << >> /\ work' = Tail(work)
      BY DEF PackContainer, Due
    <2> QED BY <1>1, <2>2, <2>3
  <1>3. d \in Nat /\ Depth = d + 1 /\ ~(Depth <= 0) /\ Depth \in Nat
    BY DepthType DEF PackContainer, DepthExceeded
  <1>4. /\ enc \in SettingsSet /\ C[d] \in [1 .. n -> Results]
        /\ C \in [Nat -> [1 .. n -> Results]]
    BY <1>3, TableRow DEF AheadNow
  <1>5. SV \in SVs(n) /\ SV # NoSV /\ SV.rv \in DOMAIN call.heap
    <2>1. SV \in SVs(n)
      BY <1>2, FirstAndRest DEF SV, TypeOK
    <2>2. SV.rv \in 1 .. n
      BY <1>1, <2>1, SVFields DEF IsRef
    <2> HIDE DEF n
    <2>3. SV # NoSV
      BY <1>1, <2>1, SVKind
    <2>4. DOMAIN call.heap = 1 .. n
      BY HeapType DEF n
    <2> QED BY <2>1, <2>2, <2>3, <2>4
  <1>6. XSAt(SV, Depth, C, enc) = Join(h, items)
    <2>1. XSAt(SV, Depth, C, enc) = C[Depth][SV.rv]
      BY <1>1, <1>3, <1>5, AtDepth DEF XSAt, XSPackSV
    <2>2. C[d + 1][SV.rv] = XSObject(o, d, C[d], enc)
      BY <1>3, <1>5 DEF AheadNow, XSTable
    <2> HIDE DEF d, o
    <2> QED BY <1>3, <2>1, <2>2 DEF XSObject
  <1>7. items \in Seq(Results) /\ Len(items) = m /\ m \in Nat
    <2> HIDE DEF o, d, n, m
    <2> QED BY <1>1, <1>3, <1>4, XSItemsType DEF m
  <1>8. PICK R : Rests(R, items)
    BY <1>7, RestsExist
  <1>9. h \in Seq(Byte)
    <2> HIDE DEF o, n
    <2> QED BY <1>1, HeaderPiece
  <1>10. PICK p : /\ PackedBy(p, o, enc.canonical)
                  /\ Ordered(o, enc.canonical) = [k \in 1 .. m |-> Loop(o)[p[k]]]
    <2>1. enc.canonical \in BOOLEAN
      BY <1>4 DEF SettingsSet
    <2> HIDE DEF o, n
    <2> QED BY <1>1, <2>1, OrderExists, ZenonT(30)
  <1>11. LeftFrom(DOMAIN Loop(o), p, 1, m)
    <2>1. DOMAIN Loop(o) = 1 .. m
      <3>1. CASE IsArray(o)
        <4>1. o.items \in Seq(SVs(n) \cup {NoSV}) /\ Loop(o) = o.items
          BY <1>1, <3>1, ObjectFields DEF Loop
        <4> QED BY <4>1
      <3>2. CASE ~IsArray(o)
        <4>1. o.pairs \in Seq(Seq(Byte) \X SVs(n)) /\ Loop(o) = o.pairs
          BY <1>1, <3>2, ObjectFields DEF Loop
        <4> QED BY <4>1
      <3> QED BY <3>1, <3>2
    <2>2. Rearranges(p, m)
      BY <1>10 DEF PackedBy
    <2> HIDE DEF m, o
    <2> QED BY <2>1, <2>2 DEF LeftFrom, Rearranges
  <1>12. LoopAt(C, call.heap, enc, new, p, R, 1)
    <2>1. new.of = SV.rv /\ new.left = DOMAIN Loop(o) /\ new.depth = d
      OBVIOUS
    <2>2. 1 \in 1 .. m + 1
      BY <1>7
    <2> HIDE DEF new
    <2> QED BY <1>8, <1>10, <1>11, <2>1, <2>2 DEF LoopAt
  <1> HIDE DEF new, items, h, d, o
  <1>13. R[1] \in Results /\ XSAt(SV, Depth, C, enc) = Then(PP_bytes(h), R[1])
    <2>1. 1 \in 1 .. Len(items) + 1
      BY <1>7
    <2>2. R[1] \in Results
      BY <1>8, <2>1 DEF Rests
    <2> QED BY <1>6, <1>7, <1>8, <2>2, JoinRests
  <1>14. PICK T :
           /\ LoopsAhead(C, call.heap, enc, loops, T)
           /\ Then(PP_bytes(out \o Flat(pending)),
                   Then(DueResult(C, enc, work, Depth), T[L]))
                = XSAt(call.val, call.depth, C, enc)
           /\ T[L] \in Results /\ out \in Seq(Byte)
           /\ DueResult(C, enc, work, Depth) =
                Then(XSAt(Head(work), Depth, C, enc), DueResult(C, enc, Tail(work), Depth))
           /\ XSAt(Head(work), Depth, C, enc) \in Results
    BY <1>2, AheadType
  <1>15. Flat(pending) = << >> /\ DueResult(C, enc, work, Depth) = Then(PP_bytes(h), R[1])
    <2>1. Flat(pending) = << >> /\ DueResult(C, enc, Tail(work), Depth) = Nothing
      BY <1>2 DEF Flat, DueResult
    <2> QED BY <1>13, <1>14, <2>1, ThenNothing DEF SV
  <1>16. Then(PP_bytes(out \o h), Then(R[1], T[L])) = XSAt(call.val, call.depth, C, enc)
    <2>1. Then(PP_bytes(out \o << >>), Then(Then(PP_bytes(h), R[1]), T[L])) =
            Then(PP_bytes(out \o h), Then(R[1], T[L]))
      BY <1>9, <1>13, <1>14, Moved
    <2> QED BY <1>14, <1>15, <2>1
  <1> DEFINE T2 == [k \in 0 .. L + 1 |-> IF k = L + 1 THEN Then(R[1], T[L]) ELSE T[k]]
  <1>17. /\ T2 \in [0 .. L + 1 -> Results] /\ T2[0] = Nothing
         /\ T2[L + 1] = Then(R[1], T[L]) /\ \A k \in 0 .. L : T2[k] = T[k]
    <2>1. \A k \in 0 .. L : T[k] \in Results
      BY <1>14 DEF LoopsAhead
    <2>2. Then(R[1], T[L]) \in Results
      BY <1>13, <1>14, ThenType
    <2>3. T[0] = Nothing
      BY <1>14 DEF LoopsAhead
    <2>4. /\ 0 \in 0 .. L /\ L + 1 \in 0 .. L + 1
          /\ \A k \in 0 .. L + 1 : k # L + 1 => k \in 0 .. L
          /\ \A k \in 0 .. L : k \in 0 .. L + 1 /\ k # L + 1
      BY <1>1
    <2> HIDE DEF L
    <2>5. T2 \in [0 .. L + 1 -> Results]
      BY <2>1, <2>2, <2>4
    <2>6. T2[L + 1] = Then(R[1], T[L])
      BY <2>4
    <2>7. ASSUME NEW k \in 0 .. L
          PROVE  T2[k] = T[k]
      <3>1. k \in 0 .. L + 1 /\ k # L + 1
        BY <1>1
      <3> QED BY <3>1
    <2>8. T2[0] = Nothing
      BY <2>3, <2>4, <2>7
    <2> QED BY <2>5, <2>6, <2>7, <2>8
  <1> HIDE DEF T2
  <1>18. ASSUME NEW k \in 1 .. L + 1
         PROVE  LoopAhead(C, call.heap, enc, loops'[k], T2[k], T2[k - 1])
    <2>1. CASE k = L + 1
      <3>1. T2[k] = Then(R[1], T2[k - 1])
        <4>1. k - 1 = L /\ L \in 0 .. L
          BY <1>1, <2>1
        <4> QED BY <1>17, <2>1, <4>1
      <3>2. LoopAt(C, call.heap, enc, loops'[k], p, R, 1)
        BY <1>2, <1>12, <2>1
      <3> QED BY <3>1, <3>2 DEF LoopAhead
    <2>2. CASE k # L + 1
      <3>1. k \in 1 .. L /\ k \in 0 .. L /\ k - 1 \in 0 .. L
        BY <1>1, <2>2
      <3>2. loops'[k] = loops[k] /\ T2[k] = T[k] /\ T2[k - 1] = T[k - 1]
        BY <1>1, <1>2, <1>17, <3>1
      <3>3. LoopAhead(C, call.heap, enc, loops[k], T[k], T[k - 1])
        BY <1>14, <3>1 DEF LoopsAhead
      <3> QED BY <3>2, <3>3
    <2> QED BY <2>1, <2>2
  <1>19. LoopsAhead(C, call.heap, enc, loops', T2)
    <2> HIDE DEF L
    <2> QED BY <1>1, <1>17, <1>18 DEF LoopsAhead
  <1>20. Flat(<<h>>) = h /\ DueResult(C, enc, << >>, DepthIn(call, loops')) = Nothing
    BY <1>9, FlatOf DEF DueResult
  <1>21. Then(PP_bytes(out \o Flat(<<h>>)),
              Then(DueResult(C, enc, << >>, DepthIn(call, loops')), T2[Len(loops')]))
           = XSAt(call.val, call.depth, C, enc)
    <2>1. Then(R[1], T[L]) \in Results
      BY <1>13, <1>14, ThenType
    <2> QED BY <1>1, <1>16, <1>17, <1>20, <2>1, ThenNothing
  <1> QED BY <1>19, <1>21 DEF Ahead, h, o

LEMMA EndAhead ==
  ASSUME TypeOK, RecursionBounded, FewDue, EndLoop, NEW C, AheadNow(C)
  PROVE  Ahead(C, call, enc, out, pending, work, loops')
  <1> DEFINE L == Len(loops)
             l == loops[L]
             o == Object
             n == Len(call.heap)
  <1>0. /\ loops # << >> /\ work = << >> /\ pending = << >> /\ Left = {}
        /\ loops' = Front(loops) /\ loops \in Seq(LoopsOver(call.heap))
    BY DEF EndLoop, Looping, TypeOK
  <1>1. /\ Len(loops) \in Nat \ {0} /\ Len(loops) \in DOMAIN loops
        /\ Last(loops) = loops[Len(loops)] /\ Last(loops) \in LoopsOver(call.heap)
        /\ loops' \in Seq(LoopsOver(call.heap)) /\ Len(loops') = Len(loops) - 1
        /\ \A i \in DOMAIN loops' : loops'[i] = loops[i]
    BY <1>0, LastAndFront
  <1>2. /\ call.heap \in Seq(Objects(n)) /\ n \in Nat /\ DOMAIN call.heap = 1 .. n
    BY HeapType
  <1>3. l.of \in DOMAIN call.heap /\ o = call.heap[l.of] /\ Left = l.left /\ Depth = l.depth
    BY <1>0, <1>1 DEF LoopsOver, Object, Left, Depth
  <1>4. Depth \in Nat
    BY <1>1, <1>3, DepthType DEF RecursionBounded
  <1>5. PICK T : /\ LoopsAhead(C, call.heap, enc, loops, T)
                 /\ Then(PP_bytes(out \o Flat(pending)),
                         Then(DueResult(C, enc, work, Depth), T[L]))
                      = XSAt(call.val, call.depth, C, enc)
    BY AheadType
  <1>6. PICK p, R, j : /\ LoopAt(C, call.heap, enc, l, p, R, j)
                       /\ T[L] = Then(R[j], T[L - 1])
    <2>1. L \in 1 .. L
      BY <1>1
    <2> QED BY <1>5, <2>1 DEF LoopsAhead, LoopAhead
  <1> DEFINE items == XSItems(o, Depth, C[Depth], enc)
             m == Len(Loop(o))
  <1>7. Rests(R, items) /\ j \in 1 .. m + 1 /\ LeftFrom({}, p, j, m)
    BY <1>0, <1>3, <1>6 DEF LoopAt
  <1>8. Len(items) = m /\ m \in Nat
    <2>1. o \in Objects(n)
      BY <1>2, <1>3
    <2>2. enc \in SettingsSet /\ C[Depth] \in [1 .. n -> Results]
      BY <1>4, TableRow DEF AheadNow
    <2> HIDE DEF n, o, m
    <2> QED BY <1>2, <1>4, <2>1, <2>2, XSItemsType DEF m
  <1> HIDE DEF items, o, n, m
  <1>9. j = m + 1
    <2>1. ~(j <= m)
      <3>1. j <= m => j \in j .. m
        BY <1>7, <1>8
      <3> QED BY <1>7, <3>1 DEF LeftFrom
    <2> QED BY <1>7, <1>8, <2>1
  <1>10. R[j] = Nothing
    BY <1>7, <1>8, <1>9 DEF Rests
  <1>11. T[L - 1] \in Results
    <2>1. L - 1 \in 0 .. L
      BY <1>1
    <2> HIDE DEF L
    <2> QED BY <1>5, <2>1 DEF LoopsAhead, L
  <1>12. T[L] = T[L - 1]
    BY <1>6, <1>10, <1>11, ThenNothing
  <1> DEFINE T2 == [k \in 0 .. L - 1 |-> T[k]]
  <1>13. LoopsAhead(C, call.heap, enc, loops', T2)
    <2>1. /\ L - 1 \in Nat /\ 0 \in 0 .. L - 1 /\ \A k \in 0 .. L - 1 : k \in 0 .. L
          /\ \A k \in 1 .. L - 1 : k \in 1 .. L /\ k \in 0 .. L - 1 /\ k - 1 \in 0 .. L - 1
      BY <1>1
    <2>2. DOMAIN loops' = 1 .. L - 1
      BY <1>1
    <2>3. /\ T \in [0 .. L -> Results] /\ T[0] = Nothing
          /\ \A k \in 1 .. L : LoopAhead(C, call.heap, enc, loops[k], T[k], T[k - 1])
      BY <1>5 DEF LoopsAhead
    <2>4. Len(loops') = L - 1
      BY <1>1
    <2> HIDE DEF L
    <2>5. T2 \in [0 .. L - 1 -> Results] /\ T2[0] = Nothing
      BY <2>1, <2>3
    <2>6. \A k \in 1 .. L - 1 : LoopAhead(C, call.heap, enc, loops'[k], T2[k], T2[k - 1])
      BY <1>1, <2>1, <2>2, <2>3
    <2> HIDE DEF T2
    <2> QED BY <2>4, <2>5, <2>6 DEF LoopsAhead
  <1>14. T2[Len(loops')] = T[L]
    <2>1. L - 1 \in 0 .. L - 1
      BY <1>1
    <2> QED BY <1>1, <1>12, <2>1
  <1>15. \A d : DueResult(C, enc, work, d) = Nothing
    BY <1>0 DEF DueResult
  <1> HIDE DEF T2
  <1>16. Then(PP_bytes(out \o Flat(pending)),
              Then(DueResult(C, enc, work, DepthIn(call, loops')), T2[Len(loops')]))
           = XSAt(call.val, call.depth, C, enc)
    BY <1>5, <1>14, <1>15
  <1> QED BY <1>13, <1>16 DEF Ahead

(* Two pieces at most are pending, and two SVs due.                            *)
LEMMA FewKept ==
  ASSUME TypeOK, FewDue, Moves
  PROVE  FewDue'
  <1>0. Len(<< >>) = 0 /\ \A x, y : Len(<<x>>) = 1 /\ Len(<<x, y>>) = 2
    OBVIOUS
  <1>1. CASE Begin \/ Anew
    <2>1. PICK v : work' = <<v>> /\ pending' = << >>
      BY <1>1 DEF Begin, Anew, Call
    <2>2. Len(work') = 1 /\ Len(pending') = 0
      BY <2>1
    <2> QED BY <2>2 DEF FewDue
  <1>2. CASE AppendPending
    <2>1. Tail(pending) \in Seq(Seq(Byte)) /\ Len(Tail(pending)) <= Len(pending)
      BY <1>2 DEF AppendPending, TypeOK
    <2>2. Len(pending) \in Nat /\ Len(Tail(pending)) \in Nat
      BY <2>1 DEF TypeOK
    <2> QED BY <1>2, <2>1, <2>2 DEF AppendPending, FewDue
  <1>3. ASSUME work # << >>, work' = Tail(work)
        PROVE  Len(work') <= 2
    <2>1. Len(work') = Len(work) - 1 /\ Len(work) \in Nat
      BY <1>3 DEF TypeOK
    <2> QED BY <2>1 DEF FewDue
  <1>4. CASE PackScalar
    <2>1. PICK ps \in Seq(Seq(Byte)) : Len(ps) <= 2 /\ Bytes(ps)
      BY <1>4, ScalarAhead
    <2>2. pending' = ps /\ work' = Tail(work) /\ work # << >>
      BY <1>4, <2>1 DEF PackScalar, Due, Bytes
    <2> QED BY <1>3, <2>1, <2>2 DEF FewDue
  <1>5. CASE PackContainer
    <2>1. pending' = <<Header(call.heap[SV.rv])>> /\ work' = Tail(work) /\ work # << >>
      BY <1>5 DEF PackContainer, Due
    <2> QED BY <1>0, <1>3, <2>1 DEF FewDue
  <1>6. CASE NextItem
    <2>1. PICK i \in Left :
            IF Object.items[i] = NoSV
            THEN pending' = <<Nil>> /\ UNCHANGED work
            ELSE work' = <<Object.items[i]>> /\ UNCHANGED pending
      BY <1>6 DEF NextItem
    <2>2. CASE Object.items[i] = NoSV
      <3>1. Len(pending') = 1 /\ work' = work
        BY <2>1, <2>2
      <3> QED BY <3>1 DEF FewDue
    <2>3. CASE Object.items[i] # NoSV
      <3>1. Len(work') = 1 /\ pending' = pending
        BY <2>1, <2>3
      <3> QED BY <3>1 DEF FewDue
    <2> QED BY <2>2, <2>3
  <1>7. CASE NextPair
    <2>1. PICK i \in Left : work' = <<Str(KeyOf(i), FALSE), Object.pairs[i][2]>>
      BY <1>7 DEF NextPair
    <2> QED BY <1>0, <1>7, <2>1 DEF NextPair, FewDue
  <1>8. ASSUME UNCHANGED <<pending, work>>
        PROVE  FewDue'
    BY <1>8 DEF FewDue
  <1>9. CASE TooDeep \/ PackUnsupported \/ EndLoop \/ Packed
    BY <1>8, <1>9 DEF TooDeep, PackUnsupported, Croak, EndLoop, Packed
  <1>10. CASE SetPreferInteger \/ UNCHANGED vars
    BY <1>8, <1>10 DEF SetPreferInteger, vars
  <1>11. CASE Return
    BY <1>0, <1>11 DEF Return, FewDue
  <1> QED
    BY <1>1, <1>2, <1>4, <1>5, <1>6, <1>7, <1>9, <1>10, <1>11 DEF Moves, Next, Step

(* The result of an item or of a pair is what its SVs result in.               *)
LEMMA ItemAhead ==
  ASSUME TypeOK, RecursionBounded, FewDue, NextItem, NEW C, AheadNow(C)
  PROVE  Ahead(C, call, enc, out, pending', work', loops')
  <1>1. PICK i \in Left :
          /\ \A x \in Left : i <= x
          /\ Taken(i)
          /\ IF Object.items[i] = NoSV
             THEN pending' = <<Nil>> /\ UNCHANGED work
             ELSE work' = <<Object.items[i]>> /\ UNCHANGED pending
    BY DEF NextItem
  <1>2. Looping /\ IsArray(Object) /\ pending = << >> /\ work = << >>
    BY DEF NextItem, Looping
  <1> DEFINE v == Object.items[i]
             x == XSItem(Object, Loop(Object)[i], Depth, C[Depth], enc)
             goal == XSAt(call.val, call.depth, C, enc)
  <1>3. PICK T : /\ LoopsAhead(C, call.heap, enc, loops', T) /\ T[Len(loops')] \in Results
                 /\ x \in Results /\ Then(PP_bytes(out), Then(x, T[Len(loops')])) = goal
                 /\ DepthIn(call, loops') = Depth /\ Depth \in Nat
    BY <1>1, <1>2, TakenAhead
  <1>4. x = XSPackSV(v, Depth, C[Depth], enc)
    BY <1>2 DEF XSItem, Loop
  <1>5. out \in Seq(Byte) /\ Flat(<< >>) = << >> /\ out \o << >> = out
    <2>1. out \in Seq(Byte)
      BY DEF TypeOK
    <2> QED BY <2>1, ConcatEmptySeq DEF Flat
  <1> HIDE DEF v, x, goal
  <1>6. CASE v = NoSV
    <2>1. pending' = <<Nil>> /\ work' = << >>
      BY <1>1, <1>2, <1>6 DEF v
    <2>2. x = PP_bytes(Nil)
      BY <1>4, <1>6 DEF XSPackSV
    <2>3. Flat(<<Nil>>) = Nil /\ Nil \in Seq(Byte)
      BY FixedBytes, FlatOf
    <2>4. DueResult(C, enc, << >>, Depth) = Nothing
      BY DEF DueResult
    <2>5. Then(PP_bytes(out \o Nil), Then(Nothing, T[Len(loops')])) = goal
      <3>1. Then(PP_bytes(out \o << >>), Then(Then(PP_bytes(Nil), Nothing), T[Len(loops')])) =
              Then(PP_bytes(out \o Nil), Then(Nothing, T[Len(loops')]))
        BY <1>3, <1>5, <2>3, NothingType, Moved
      <3>2. Then(PP_bytes(Nil), Nothing) = PP_bytes(Nil)
        BY <1>3, <2>2, ThenNothing
      <3> QED BY <1>3, <1>5, <2>2, <3>1, <3>2
    <2> QED BY <1>3, <2>1, <2>3, <2>4, <2>5 DEF Ahead, goal
  <1>7. CASE v # NoSV
    <2>1. pending' = << >> /\ work' = <<v>>
      BY <1>1, <1>2, <1>7 DEF v
    <2>2. x = XSAt(v, Depth, C, enc)
      BY <1>3, <1>4, AtDepth DEF XSAt
    <2>3. DueResult(C, enc, <<v>>, Depth) = x
      <3>1. Len(<<v>>) = 1 /\ <<v>>[1] = v /\ <<v>> # << >>
        OBVIOUS
      <3> QED BY <2>2, <3>1 DEF DueResult
    <2>4. Then(PP_bytes(out \o Flat(<< >>)),
               Then(DueResult(C, enc, <<v>>, DepthIn(call, loops')), T[Len(loops')])) = goal
      BY <1>3, <1>5, <2>3
    <2> QED BY <1>3, <2>1, <2>4 DEF Ahead, goal
  <1> QED BY <1>6, <1>7

LEMMA PairAhead ==
  ASSUME TypeOK, RecursionBounded, FewDue, NextPair, NEW C, AheadNow(C)
  PROVE  Ahead(C, call, enc, out, pending, work', loops')
  <1>1. PICK i \in Left : /\ First(i) /\ Taken(i)
                          /\ work' = <<Str(KeyOf(i), FALSE), Object.pairs[i][2]>>
    BY DEF NextPair
  <1>2. Looping /\ ~IsArray(Object) /\ pending = << >> /\ work = << >>
    BY DEF NextPair, Looping
  <1> DEFINE k == Str(KeyOf(i), FALSE)
             v == Object.pairs[i][2]
             x == XSItem(Object, Loop(Object)[i], Depth, C[Depth], enc)
             goal == XSAt(call.val, call.depth, C, enc)
  <1>3. PICK T : /\ LoopsAhead(C, call.heap, enc, loops', T) /\ T[Len(loops')] \in Results
                 /\ x \in Results /\ Then(PP_bytes(out), Then(x, T[Len(loops')])) = goal
                 /\ DepthIn(call, loops') = Depth /\ Depth \in Nat
    BY <1>1, <1>2, TakenAhead
  <1>4. x = Then(XSPackSV(k, Depth, C[Depth], enc), XSPackSV(v, Depth, C[Depth], enc))
    BY <1>2 DEF XSItem, Loop, KeyOf
  <1>5. out \in Seq(Byte) /\ Flat(<< >>) = << >> /\ out \o << >> = out
    <2>1. out \in Seq(Byte)
      BY DEF TypeOK
    <2> QED BY <2>1, ConcatEmptySeq DEF Flat
  <1>6. work' = <<k, v>>
    BY <1>1
  <1> HIDE DEF k, v, x, goal
  <1>7. x = Then(XSAt(k, Depth, C, enc), XSAt(v, Depth, C, enc))
    BY <1>3, <1>4, AtDepth DEF XSAt
  <1>8. DueResult(C, enc, <<k, v>>, Depth) = x
    <2>1. Len(<<k, v>>) = 2 /\ <<k, v>>[1] = k /\ <<k, v>>[2] = v /\ <<k, v>> # << >>
      OBVIOUS
    <2> QED BY <1>7, <2>1 DEF DueResult
  <1>9. Then(PP_bytes(out \o Flat(pending)),
             Then(DueResult(C, enc, <<k, v>>, DepthIn(call, loops')), T[Len(loops')])) = goal
    BY <1>2, <1>3, <1>5, <1>8
  <1> QED BY <1>3, <1>6, <1>9 DEF Ahead, goal

LEMMA PacksKept ==
  ASSUME TypeOK, RecursionBounded, KeysComeFirst, FewDue, Packs, Moves
  PROVE  Packs'
  <1> SUFFICES ASSUME NEW C, XSTable(C, call'.heap, enc')
               PROVE  /\ result' = "running" =>
                           Ahead(C, call', enc', out', pending', work', loops')
                      /\ result' = "packed" =>
                           XSAt(call'.val, call'.depth, C, enc') = PP_bytes(out')
                      /\ result' \in {"nesting", "unsupported"} =>
                           XSAt(call'.val, call'.depth, C, enc') = PP_died(result')
    BY DEF Packs
  <1>1. CASE \E c \in Arguments : Call(c)
    <2>1. PICK c \in Arguments : Call(c)
      BY <1>1
    <2>2. /\ call' = c /\ enc' \in Settings(c.self) /\ out' = << >> /\ pending' = << >>
          /\ work' = <<c.val>> /\ loops' = << >> /\ result' = "running"
      BY <2>1 DEF Call
    <2>3. enc' \in SettingsSet
      BY <2>2, SettingsType DEF TypeOK, SettingsSet
    <2>4. Ahead(C, c, enc', << >>, << >>, <<c.val>>, << >>)
      BY <2>2, <2>3, CallAhead
    <2> QED BY <2>2, <2>4
  <1>2. CASE Return
    BY <1>2 DEF Return
  <1>3. ASSUME UNCHANGED <<call, enc, out, pending, work, loops, result>>
        PROVE  /\ result' = "running" =>
                    Ahead(C, call', enc', out', pending', work', loops')
               /\ result' = "packed" =>
                    XSAt(call'.val, call'.depth, C, enc') = PP_bytes(out')
               /\ result' \in {"nesting", "unsupported"} =>
                    XSAt(call'.val, call'.depth, C, enc') = PP_died(result')
    BY <1>3 DEF Packs
  <1>4. CASE SetPreferInteger \/ UNCHANGED vars
    BY <1>3, <1>4 DEF SetPreferInteger, vars
  <1>5. ASSUME result = "running", UNCHANGED <<call, enc>>
        PROVE  AheadNow(C)
    BY <1>5 DEF Packs, AheadNow
  <1>6. CASE AppendPending
    <2>1. /\ result = "running" /\ UNCHANGED <<call, enc, work, loops, result>>
          /\ pending # << >> /\ pending' = Tail(pending) /\ out' = out \o Head(pending)
      BY <1>6 DEF AppendPending, AppendBuf
    <2>2. Ahead(C, call, enc, out \o Head(pending), Tail(pending), work, loops)
      BY <1>5, <2>1, AppendAhead
    <2> QED BY <2>1, <2>2
  <1>7. CASE TooDeep
    <2>1. /\ result = "running" /\ UNCHANGED <<call, enc>> /\ result' = "nesting"
          /\ pending = << >> /\ work # << >>
      BY <1>7 DEF TooDeep, Due, Croak
    <2>2. XSAt(Head(work), Depth, C, enc) = PP_died("nesting")
      BY <1>7, TooDeepAhead DEF SV
    <2>3. XSAt(call.val, call.depth, C, enc) = PP_died("nesting")
      BY <1>5, <2>1, <2>2, DiedAhead
    <2> QED BY <2>1, <2>3
  <1>8. CASE PackUnsupported
    <2>1. /\ result = "running" /\ UNCHANGED <<call, enc>> /\ result' = "unsupported"
          /\ pending = << >> /\ work # << >>
      BY <1>8 DEF PackUnsupported, Due, Croak
    <2>2. XSAt(Head(work), Depth, C, enc) = PP_died("unsupported")
      BY <1>8, UnsupportedAhead DEF SV
    <2>3. XSAt(call.val, call.depth, C, enc) = PP_died("unsupported")
      BY <1>5, <2>1, <2>2, DiedAhead
    <2> QED BY <2>1, <2>3
  <1>9. CASE PackScalar
    <2>1. PICK ps \in Seq(Seq(Byte)) :
            Len(ps) <= 2 /\ Bytes(ps) /\ XSAt(SV, Depth, C, enc) = PP_bytes(Flat(ps))
      BY <1>9, ScalarAhead
    <2>2. /\ result = "running" /\ UNCHANGED <<call, enc, out, loops, result>>
          /\ pending = << >> /\ work # << >> /\ pending' = ps /\ work' = Tail(work)
      BY <1>9, <2>1 DEF PackScalar, Due, Bytes
    <2>3. Ahead(C, call, enc, out, ps, Tail(work), loops)
      BY <1>5, <2>1, <2>2, BytesAhead DEF SV
    <2> QED BY <2>2, <2>3
  <1>10. CASE PackContainer
    <2>1. /\ result = "running" /\ UNCHANGED <<call, enc, out, result>>
          /\ pending' = <<Header(call.heap[SV.rv])>>
      BY <1>10 DEF PackContainer, Due
    <2>2. work' = << >>
      BY <1>10, EnteredLoops
    <2>3. Ahead(C, call, enc, out, <<Header(call.heap[SV.rv])>>, << >>, loops')
      BY <1>5, <1>10, <2>1, ContainerAhead
    <2> QED BY <2>1, <2>2, <2>3
  <1>11. CASE NextItem \/ NextPair
    <2>1. result = "running" /\ UNCHANGED <<call, enc, out, result>>
      BY <1>11 DEF NextItem, NextPair, Looping
    <2>2. Ahead(C, call, enc, out, pending', work', loops')
      <3>1. AheadNow(C)
        BY <1>5, <2>1
      <3>2. CASE NextItem
        BY <3>1, <3>2, ItemAhead
      <3>3. CASE NextPair
        BY <3>1, <3>3, PairAhead DEF NextPair
      <3> QED BY <1>11, <3>2, <3>3
    <2> QED BY <2>1, <2>2
  <1>12. CASE EndLoop
    <2>1. result = "running" /\ UNCHANGED <<call, enc, out, pending, work, result>>
      BY <1>12 DEF EndLoop, Looping
    <2>2. Ahead(C, call, enc, out, pending, work, loops')
      BY <1>5, <1>12, <2>1, EndAhead
    <2> QED BY <2>1, <2>2
  <1>13. CASE Packed
    <2>1. /\ result = "running" /\ UNCHANGED <<call, enc, out>> /\ result' = "packed"
          /\ pending = << >> /\ work = << >> /\ loops = << >>
      BY <1>13 DEF Packed
    <2>2. XSAt(call.val, call.depth, C, enc) = PP_bytes(out)
      BY <1>5, <2>1, PackedAhead
    <2> QED BY <2>1, <2>2
  <1> QED
    BY <1>1, <1>2, <1>4, <1>6, <1>7, <1>8, <1>9, <1>10, <1>11, <1>12, <1>13
    DEF Moves, Anew, Next, Begin, Step

-------------------------------------------------------------------------------
(* The program of PackClient moves the packer in these ways too: the contents  *)
(* it packs again are one more call.                                           *)
LEMMA AgainIsACall ==
  ASSUME TypeOK, Again
  PROVE  Anew /\ earlier' = out
  <1>1. PICK h \in SameContents(call.heap) : Call([call EXCEPT !.heap = h])
    BY DEF Again
  <1> DEFINE c == [call EXCEPT !.heap = h]
  <1>2. h \in Heaps /\ DOMAIN h = DOMAIN call.heap /\ h # << >> /\ h \in Seq(Objects(Len(h)))
    BY HeapsAssumption DEF SameContents
  <1>3. call.heap # << >>
    <2>1. 1 \in DOMAIN h
      BY <1>2
    <2>2. DOMAIN << >> = {}
      OBVIOUS
    <2> QED BY <1>2, <2>1, <2>2
  <1>4. call \in [heap : Heaps, val : {Ref(1)}, depth : Depths, self : Selves]
    BY <1>3 DEF TypeOK, NoCall, Arguments
  <1>5. c \in [heap : Heaps, val : {Ref(1)}, depth : Depths, self : Selves]
    BY <1>2, <1>4
  <1>6. c \in Arguments
    BY <1>5 DEF Arguments
  <1> HIDE DEF c
  <1>7. Call(c)
    BY <1>1 DEF c
  <1> QED BY <1>6, <1>7 DEF Anew, Again

LEMMA ClientMoves ==
  ASSUME TypeOK, [ClientNext]_<<vars, earlier>>
  PROVE  Moves
  BY AgainIsACall DEF ClientNext, Moves, Next

LEMMA ClientType == ClientSpec => []TypeOK
  <1>1. ClientInit => TypeOK
    BY InitType DEF ClientInit
  <1>2. TypeOK /\ [ClientNext]_<<vars, earlier>> => TypeOK'
    BY ClientMoves, NextType
  <1> QED BY <1>1, <1>2, PTL DEF ClientSpec

(* What holds of the packer holds also in the hands of a program that packs    *)
(* the same contents again before it has done with the first result.           *)
ClientInv ==
  RecursionBounded /\ BufferHolds /\ NestingInv /\ FewDue /\ Packs

LEMMA ClientInvariant == ClientSpec => []ClientInv
  <1>1. ClientInit => ClientInv
    <2> SUFFICES ASSUME Init
                 PROVE  ClientInv
      BY DEF ClientInit
    <2>1. FewDue /\ Packs
      <3>1. Len(<< >>) = 0
        OBVIOUS
      <3> QED BY <3>1 DEF Init, FewDue, Packs
    <2> QED BY <2>1, InitRecursion, InitBuffer, InitNesting DEF ClientInv
  <1>2. TypeOK /\ ClientInv /\ [ClientNext]_<<vars, earlier>> => ClientInv'
    <2> SUFFICES ASSUME TypeOK, ClientInv, Moves
                 PROVE  ClientInv'
      BY ClientMoves
    <2>1. RecursionBounded' /\ BufferHolds' /\ NestingInv'
      BY RecursionKept, BufferKept, NestingKept DEF ClientInv
    <2>2. FewDue' /\ Packs'
      BY FewKept, PacksKept DEF ClientInv, NestingInv
    <2> QED BY <2>1, <2>2 DEF ClientInv
  <1> QED BY <1>1, <1>2, ClientType, PTL DEF ClientSpec

(* The program sees the packer keep what it promises: the types, the bounds of *)
(* the buffer and of the recursion, and the nesting limit.                     *)
THEOREM KeptForClients ==
  ClientSpec => [](TypeOK /\ BufferHolds /\ RecursionBounded /\ NestingLimit)
  <1>1. ClientInv => BufferHolds /\ RecursionBounded /\ NestingLimit
    BY DEF ClientInv, NestingInv
  <1> QED BY <1>1, ClientType, ClientInvariant, PTL

(* xs_pack computes a function of its arguments: whatever the data, the result *)
(* is what XSPackSV makes of it, bytes or the reason to croak, and on the way  *)
(* the bytes so far, the SVs due and the loops make up the rest of it.         *)
THEOREM PackIsAFunction == ClientSpec => []Packs
  <1>1. ClientInv => Packs
    BY DEF ClientInv
  <1> QED BY <1>1, ClientInvariant, PTL

-------------------------------------------------------------------------------
(* Canonical packing.                                                          *)
(* Pairs in the order of their keys, and the pairs among them.                 *)
InKeyOrder(q, m) ==
  /\ \A k \in 1 .. m : q[k][1] \in Seq(Byte)
  /\ \A j, k \in 1 .. m : j < k => Before(q[j][1], q[k][1])

SamePairs(q, m, r, n) ==
  /\ \A k \in 1 .. m : \E j \in 1 .. n : q[k] = r[j]
  /\ \A j \in 1 .. n : \E k \in 1 .. m : r[j] = q[k]

(* There is only one such order: up to the k-th pair ...                       *)
LEMMA NextAlike ==
  ASSUME NEW m \in Nat, NEW n \in Nat, NEW q, NEW r,
         InKeyOrder(q, m), InKeyOrder(r, n), SamePairs(q, m, r, n),
         NEW k \in 1 .. m, k \in 1 .. n, \A i \in 1 .. k - 1 : q[i] = r[i]
  PROVE  q[k] = r[k]
  <1>1. PICK j \in 1 .. n : q[k] = r[j]
    BY DEF SamePairs
  <1>2. PICK i \in 1 .. m : r[k] = q[i]
    BY DEF SamePairs
  <1>3. q[k][1] \in Seq(Byte) /\ r[k][1] \in Seq(Byte)
    BY DEF InKeyOrder
  <1>4. ~Before(q[k][1], q[k][1]) /\ ~Before(r[k][1], r[k][1])
    BY <1>3, NeverBeforeItself
  <1>5. ~(j < k)
    <2>1. ASSUME j < k
          PROVE  FALSE
      <3>1. j \in 1 .. k - 1 /\ j \in 1 .. m
        BY <2>1
      <3>2. Before(q[j][1], q[k][1]) /\ q[j] = r[j]
        BY <2>1, <3>1 DEF InKeyOrder
      <3> QED BY <1>1, <1>4, <3>2
    <2> QED BY <2>1
  <1>6. ~(i < k)
    <2>1. ASSUME i < k
          PROVE  FALSE
      <3>1. i \in 1 .. k - 1 /\ i \in 1 .. n
        BY <2>1
      <3>2. Before(r[i][1], r[k][1]) /\ q[i] = r[i]
        BY <2>1, <3>1 DEF InKeyOrder
      <3> QED BY <1>2, <1>4, <3>2
    <2> QED BY <2>1
  <1>7. ~(k < j /\ k < i)
    <2>1. ASSUME k < j, k < i
          PROVE  FALSE
      <3>1. Before(r[k][1], r[j][1]) /\ Before(q[k][1], q[i][1])
        BY <2>1 DEF InKeyOrder
      <3>2. Before(r[k][1], q[k][1]) /\ Before(q[k][1], r[k][1])
        BY <1>1, <1>2, <3>1
      <3>3. Before(q[k][1], q[k][1])
        BY <1>3, <3>2, BeforeBefore
      <3> QED BY <1>4, <3>3
    <2> QED BY <2>1
  <1>8. j = k \/ i = k
    BY <1>5, <1>6, <1>7
  <1> QED BY <1>1, <1>2, <1>8

(* ... and to the end.                                                         *)
LEMMA OrderAlike ==
  ASSUME NEW m \in Nat, NEW n \in Nat, NEW q, NEW r,
         InKeyOrder(q, m), InKeyOrder(r, n), SamePairs(q, m, r, n)
  PROVE  m = n /\ \A k \in 1 .. m : q[k] = r[k]
  <1> DEFINE T == {k \in Nat : \A i \in 1 .. k : i <= m /\ i <= n => q[i] = r[i]}
  <1>1. 0 \in T
    OBVIOUS
  <1>2. ASSUME NEW k \in Nat, k \in T
        PROVE  k + 1 \in T
    <2>1. ASSUME k + 1 <= m, k + 1 <= n
          PROVE  q[k + 1] = r[k + 1]
      <3>1. \A i \in 1 .. (k + 1) - 1 : q[i] = r[i]
        BY <1>2, <2>1
      <3>2. k + 1 \in 1 .. m /\ k + 1 \in 1 .. n
        BY <2>1
      <3> QED BY <3>1, <3>2, NextAlike
    <2>2. ASSUME NEW i \in 1 .. k + 1, i <= m, i <= n
          PROVE  q[i] = r[i]
      BY <1>2, <2>1, <2>2
    <2> QED BY <2>2
  <1>3. Nat \subseteq T
    <2> HIDE DEF T
    <2> QED BY <1>1, <1>2, Induction
  <1>4. \A i \in Nat : 1 <= i /\ i <= m /\ i <= n => q[i] = r[i]
    <2> SUFFICES ASSUME NEW i \in Nat, 1 <= i, i <= m, i <= n
                 PROVE  q[i] = r[i]
      OBVIOUS
    <2>1. i \in T /\ i \in 1 .. i
      BY <1>3
    <2> QED BY <2>1
  <1>5. ~(m < n)
    <2>1. ASSUME m < n
          PROVE  FALSE
      <3>1. m + 1 \in 1 .. n
        BY <2>1
      <3>2. PICK k \in 1 .. m : r[m + 1] = q[k]
        BY <3>1 DEF SamePairs
      <3>3. q[k] = r[k]
        BY <1>4, <2>1
      <3>4. Before(r[k][1], r[m + 1][1]) /\ r[k][1] \in Seq(Byte)
        BY <2>1, <3>1 DEF InKeyOrder
      <3> QED BY <3>2, <3>3, <3>4, NeverBeforeItself
    <2> QED BY <2>1
  <1>6. ~(n < m)
    <2>1. ASSUME n < m
          PROVE  FALSE
      <3>1. n + 1 \in 1 .. m
        BY <2>1
      <3>2. PICK k \in 1 .. n : q[n + 1] = r[k]
        BY <3>1 DEF SamePairs
      <3>3. q[k] = r[k]
        BY <1>4, <2>1
      <3>4. Before(q[k][1], q[n + 1][1]) /\ q[k][1] \in Seq(Byte)
        <4>1. k \in 1 .. m /\ k < n + 1
          BY <2>1
        <4> QED BY <3>1, <4>1 DEF InKeyOrder
      <3> QED BY <3>2, <3>3, <3>4, NeverBeforeItself
    <2> QED BY <2>1
  <1>7. m = n
    BY <1>5, <1>6
  <1> QED BY <1>4, <1>7

(* The pairs of a hash in key order are in key order, and are its pairs.       *)
LEMMA CanonicalOrder ==
  ASSUME NEW N \in Nat, NEW o \in Objects(N), ~IsArray(o), KeysDiffer(o)
  PROVE  /\ Len(o.pairs) \in Nat /\ DOMAIN Ordered(o, TRUE) = 1 .. Len(o.pairs)
         /\ Ordered(o, TRUE) = [k \in 1 .. Len(o.pairs) |-> Ordered(o, TRUE)[k]]
         /\ InKeyOrder(Ordered(o, TRUE), Len(o.pairs))
         /\ \A k \in 1 .. Len(o.pairs) : Ordered(o, TRUE)[k] \in Range(o.pairs)
         /\ \A x \in Range(o.pairs) : \E k \in 1 .. Len(o.pairs) : Ordered(o, TRUE)[k] = x
  <1> DEFINE n == Len(o.pairs)
             q == Ordered(o, TRUE)
  <1>1. Loop(o) = o.pairs /\ TRUE \in BOOLEAN
    BY DEF Loop
  <1>2. PICK p : PackedBy(p, o, TRUE) /\ q = [k \in 1 .. n |-> o.pairs[p[k]]]
    <2>1. \E p : /\ PackedBy(p, o, TRUE)
                 /\ Ordered(o, TRUE) = [k \in 1 .. Len(Loop(o)) |-> Loop(o)[p[k]]]
      BY <1>1, OrderExists
    <2> QED BY <1>1, <2>1
  <1>3. o.pairs \in Seq(Seq(Byte) \X SVs(N)) /\ n \in Nat /\ DOMAIN o.pairs = 1 .. n
    <2>1. o.pairs \in Seq(Seq(Byte) \X SVs(N))
      BY ObjectFields
    <2> QED BY <2>1
  <1>4. \A i \in 1 .. n : o.pairs[i][1] \in Seq(Byte)
    <2> SUFFICES ASSUME NEW i \in 1 .. n
                 PROVE  o.pairs[i][1] \in Seq(Byte)
      OBVIOUS
    <2>1. o.pairs[i] \in Seq(Byte) \X SVs(N)
      BY <1>3
    <2> QED BY <2>1
  <1>5. /\ Rearranges(p, n)
        /\ \A j, k \in 1 .. n : j < k => Before(o.pairs[p[j]][1], o.pairs[p[k]][1])
    BY <1>1, <1>2 DEF PackedBy
  <1> HIDE DEF n, q
  <1>6. InKeyOrder(q, n)
    <2>1. \A k \in 1 .. n : p[k] \in 1 .. n /\ q[k] = o.pairs[p[k]]
      BY <1>2, <1>5 DEF Rearranges
    <2> QED BY <1>4, <1>5, <2>1 DEF InKeyOrder
  <1>7. \A k \in 1 .. n : q[k] \in Range(o.pairs)
    BY <1>2, <1>3, <1>5 DEF Rearranges, Range
  <1>8. ASSUME NEW x \in Range(o.pairs)
        PROVE  \E k \in 1 .. n : q[k] = x
    <2>1. PICK i \in 1 .. n : o.pairs[i] = x
      BY <1>3 DEF Range
    <2>2. PICK k \in 1 .. n : p[k] = i
      BY <1>5 DEF Rearranges
    <2> QED BY <1>2, <2>1, <2>2
  <1>9. DOMAIN q = 1 .. n /\ q = [k \in 1 .. n |-> q[k]]
    BY <1>2
  <1> QED BY <1>3, <1>6, <1>7, <1>8, <1>9 DEF n, q

LEMMA SameKeyOrder ==
  ASSUME NEW N \in Nat, NEW o \in Objects(N), NEW u \in Objects(N),
         HeldObject(o), HeldObject(u), Same(u, o)
  PROVE  /\ (IsArray(o) <=> IsArray(u)) /\ Header(o) = Header(u)
         /\ Ordered(o, TRUE) = Ordered(u, TRUE)
  <1>1. CASE IsArray(o) \/ IsArray(u)
    BY <1>1 DEF Same
  <1>2. CASE ~IsArray(o) /\ ~IsArray(u)
    <2>1. Range(u.pairs) = Range(o.pairs) /\ u.counted = o.counted
      BY <1>2 DEF Same
    <2> DEFINE m == Len(o.pairs)
               n == Len(u.pairs)
               q == Ordered(o, TRUE)
               r == Ordered(u, TRUE)
    <2>2. KeysDiffer(o) /\ KeysDiffer(u)
      BY <1>2 DEF HeldObject
    <2>3. /\ m \in Nat /\ InKeyOrder(q, m) /\ q = [k \in 1 .. m |-> q[k]]
          /\ \A k \in 1 .. m : q[k] \in Range(o.pairs)
          /\ \A x \in Range(o.pairs) : \E k \in 1 .. m : q[k] = x
      BY <1>2, <2>2, CanonicalOrder
    <2>4. /\ n \in Nat /\ InKeyOrder(r, n) /\ r = [k \in 1 .. n |-> r[k]]
          /\ \A k \in 1 .. n : r[k] \in Range(u.pairs)
          /\ \A x \in Range(u.pairs) : \E k \in 1 .. n : r[k] = x
      BY <1>2, <2>2, CanonicalOrder
    <2> HIDE DEF m, n, q, r
    <2>5. SamePairs(q, m, r, n)
      <3>1. \A k \in 1 .. m : \E j \in 1 .. n : q[k] = r[j]
        BY <2>1, <2>3, <2>4
      <3>2. \A j \in 1 .. n : \E k \in 1 .. m : r[j] = q[k]
        BY <2>1, <2>3, <2>4
      <3> QED BY <3>1, <3>2 DEF SamePairs
    <2>6. m = n /\ \A k \in 1 .. m : q[k] = r[k]
      BY <2>3, <2>4, <2>5, OrderAlike
    <2>7. q = r
      BY <2>3, <2>4, <2>6
    <2> QED BY <1>2, <2>1, <2>7 DEF Header, q, r
  <1> QED BY <1>1, <1>2

(* What is packed does not depend on the order of the pairs then.              *)
LEMMA SameSV ==
  ASSUME NEW v, NEW d \in Int, NEW sub, NEW sub2, d > 0 => sub = sub2, NEW e
  PROVE  XSPackSV(v, d, sub, e) = XSPackSV(v, d, sub2, e)
  <1>1. CASE d > 0
    BY <1>1
  <1>2. CASE d <= 0
    BY <1>2 DEF XSPackSV
  <1> QED BY <1>1, <1>2

CanonicalOn(e) == e \in SettingsSet /\ e.canonical = TRUE

LEMMA SameObject ==
  ASSUME NEW N \in Nat, NEW o \in Objects(N), NEW u \in Objects(N),
         HeldObject(o), HeldObject(u), Same(u, o),
         NEW e, CanonicalOn(e), NEW d \in Int, NEW sub, NEW sub2, d > 0 => sub = sub2
  PROVE  XSObject(o, d, sub, e) = XSObject(u, d, sub2, e)
  <1>1. /\ IsArray(o) <=> IsArray(u)
        /\ Header(o) = Header(u) /\ Ordered(o, TRUE) = Ordered(u, TRUE)
    BY SameKeyOrder DEF CanonicalOn
  <1> DEFINE q == Ordered(o, TRUE)
  <1>2. \A x : XSItem(o, x, d, sub, e) = XSItem(u, x, d, sub2, e)
    <2> SUFFICES ASSUME NEW x
                 PROVE  XSItem(o, x, d, sub, e) = XSItem(u, x, d, sub2, e)
      OBVIOUS
    <2>1. \A v : XSPackSV(v, d, sub, e) = XSPackSV(v, d, sub2, e)
      BY SameSV
    <2>2. CASE IsArray(o)
      BY <1>1, <2>1, <2>2 DEF XSItem, CanonicalOn
    <2>3. CASE ~IsArray(o)
      BY <1>1, <2>1, <2>3 DEF XSItem, CanonicalOn
    <2> QED BY <2>2, <2>3
  <1>3. XSItems(o, d, sub, e) = [i \in DOMAIN q |-> XSItem(o, q[i], d, sub, e)]
    BY DEF XSItems, CanonicalOn
  <1>4. XSItems(u, d, sub2, e) = [i \in DOMAIN q |-> XSItem(u, q[i], d, sub2, e)]
    BY <1>1 DEF XSItems, CanonicalOn
  <1> HIDE DEF q
  <1>5. XSItems(o, d, sub, e) = XSItems(u, d, sub2, e)
    BY <1>2, <1>3, <1>4
  <1> QED BY <1>1, <1>5 DEF XSObject

(* Heaps that are the same but for the order of the hashes.                    *)
AlikeHeaps(g, h) ==
  /\ g \in Seq(Objects(Len(g))) /\ h \in Seq(Objects(Len(h))) /\ Len(g) = Len(h)
  /\ \A n \in DOMAIN h : Same(g[n], h[n]) /\ HeldObject(g[n]) /\ HeldObject(h[n])

AlikeFromOne(C, D) == \A d \in Nat : d > 0 => C[d] = D[d]

LEMMA SameTables ==
  ASSUME NEW g, NEW h, AlikeHeaps(g, h), NEW e, CanonicalOn(e),
         NEW C, NEW D, XSTable(C, h, e), XSTable(D, g, e)
  PROVE  AlikeFromOne(C, D)
  <1> DEFINE N == Len(h)
             T == {d \in Nat : C[d + 1] = D[d + 1]}
  <1>1. /\ N \in Nat /\ DOMAIN h = 1 .. N /\ DOMAIN g = 1 .. N
        /\ \A n \in 1 .. N : h[n] \in Objects(N) /\ g[n] \in Objects(N)
    BY DEF AlikeHeaps
  <1> HIDE DEF N
  <1>2. C \in [Nat -> [1 .. N -> Results]] /\ D \in [Nat -> [1 .. N -> Results]]
    BY <1>1 DEF XSTable, CanonicalOn
  <1>3. ASSUME NEW d \in Nat, d > 0 => C[d] = D[d]
        PROVE  C[d + 1] = D[d + 1]
    <2>1. ASSUME NEW n \in 1 .. N
          PROVE  C[d + 1][n] = D[d + 1][n]
      <3>1. C[d + 1][n] = XSObject(h[n], d, C[d], e)
        BY <1>1 DEF XSTable, CanonicalOn
      <3>2. D[d + 1][n] = XSObject(g[n], d, D[d], e)
        BY <1>1 DEF XSTable, CanonicalOn
      <3>3. Same(g[n], h[n]) /\ HeldObject(g[n]) /\ HeldObject(h[n])
        BY <1>1 DEF AlikeHeaps
      <3> DEFINE o == h[n]
                 u == g[n]
                 sub == C[d]
                 sub2 == D[d]
      <3>4. o \in Objects(N) /\ u \in Objects(N)
        BY <1>1
      <3>5. d > 0 => sub = sub2
        BY <1>3
      <3>6. Same(u, o) /\ HeldObject(o) /\ HeldObject(u)
        BY <3>3
      <3> HIDE DEF o, u, sub, sub2
      <3>7. d \in Int
        OBVIOUS
      <3>8. XSObject(o, d, sub, e) = XSObject(u, d, sub2, e)
        <4> HIDE DEF T
        <4> QED BY <1>1, <3>4, <3>5, <3>6, <3>7, SameObject
      <3> QED BY <3>1, <3>2, <3>8 DEF o, u, sub, sub2
    <2>2. C[d + 1] \in [1 .. N -> Results] /\ D[d + 1] \in [1 .. N -> Results]
      BY <1>2
    <2> DEFINE a == C[d + 1]
               b == D[d + 1]
               S == 1 .. N
    <2>3. a \in [S -> Results] /\ b \in [S -> Results] /\ \A n \in S : a[n] = b[n]
      BY <2>1, <2>2
    <2> HIDE DEF a, b, S
    <2>4. a = b
      BY <2>3, SameFunction
    <2> QED BY <2>4 DEF a, b
  <1>4. 0 \in T
    BY <1>3
  <1>5. ASSUME NEW d \in Nat, d \in T
        PROVE  d + 1 \in T
    <2>1. C[d + 1] = D[d + 1] /\ d + 1 \in Nat
      BY <1>5
    <2>2. C[(d + 1) + 1] = D[(d + 1) + 1]
      BY <1>3, <2>1
    <2> QED BY <2>1, <2>2
  <1>6. Nat \subseteq T
    <2> HIDE DEF T
    <2> QED BY <1>4, <1>5, Induction
  <1>7. ASSUME NEW d \in Nat, d > 0
        PROVE  C[d] = D[d]
    <2>1. d - 1 \in T /\ (d - 1) + 1 = d
      BY <1>6, <1>7
    <2> QED BY <2>1
  <1> QED BY <1>7 DEF AlikeFromOne

(* While a call runs its settings follow from its object, and a second call is *)
(* to result in what the first resulted in.                                    *)
SettingsHold == result # "none" => enc \in Settings(call.self)

EarlierMatches ==
  earlier # NULL =>
    /\ result # "none" /\ call.self.canonical = "on"
    /\ \A C : XSTable(C, call.heap, enc) =>
                XSAt(call.val, call.depth, C, enc) = PP_bytes(earlier)

LEMMA StepKeeps ==
  ASSUME Step
  PROVE  UNCHANGED <<call, enc, PreferInteger>> /\ result = "running" /\ result' # "none"
  <1>1. CASE AppendPending \/ TooDeep \/ PackUnsupported
    BY <1>1 DEF AppendPending, TooDeep, PackUnsupported, Croak, Due
  <1>2. CASE PackScalar
    BY <1>2 DEF PackScalar, Bytes, Due
  <1>3. CASE PackContainer
    BY <1>3 DEF PackContainer, Due
  <1>4. CASE NextItem \/ NextPair
    BY <1>4 DEF NextItem, NextPair, Looping
  <1>5. CASE EndLoop \/ Packed
    BY <1>5 DEF EndLoop, Packed, Looping
  <1> QED BY <1>1, <1>2, <1>3, <1>4, <1>5 DEF Step

LEMMA SettingsKept ==
  ASSUME SettingsHold, [ClientNext]_<<vars, earlier>>
  PROVE  SettingsHold'
  <1>1. ASSUME NEW c, Call(c)
        PROVE  SettingsHold'
    BY <1>1 DEF Call, SettingsHold, Settings
  <1>2. CASE Begin \/ Again
    BY <1>1, <1>2 DEF Begin, Again
  <1>3. CASE Step
    BY <1>3, StepKeeps DEF SettingsHold, Settings
  <1>4. CASE SetPreferInteger
    BY <1>4 DEF SetPreferInteger, SettingsHold
  <1>5. CASE Return
    BY <1>5 DEF Return, SettingsHold
  <1>6. CASE UNCHANGED <<vars, earlier>>
    BY <1>6 DEF vars, SettingsHold, Settings
  <1> QED BY <1>2, <1>3, <1>4, <1>5, <1>6 DEF ClientNext

(* A set with one value of each setting has one member.                        *)
LEMMA OneSetting ==
  ASSUME NEW P, NEW Q,
         NEW x \in [prefer_int : {P}, canonical : {TRUE}, utf8 : {Q}],
         NEW y \in [prefer_int : {P}, canonical : {TRUE}, utf8 : {Q}]
  PROVE  y = x
  <1>1. x = [prefer_int |-> P, canonical |-> TRUE, utf8 |-> Q]
    OBVIOUS
  <1>2. y = [prefer_int |-> P, canonical |-> TRUE, utf8 |-> Q]
    OBVIOUS
  <1> QED BY <1>1, <1>2

LEMMA EarlierKept ==
  ASSUME TypeOK, Packs, SettingsHold, EarlierMatches, [ClientNext]_<<vars, earlier>>
  PROVE  EarlierMatches'
  <1>1. CASE Again
    <2>1. PICK h \in SameContents(call.heap) : Call([call EXCEPT !.heap = h])
      BY <1>1 DEF Again
    <2> DEFINE c == [call EXCEPT !.heap = h]
    <2>2. result = "packed" /\ enc.canonical /\ call.self.canonical = "on" /\ earlier' = out
      BY <1>1 DEF Again
    <2>3. /\ h \in Heaps /\ DOMAIN h = DOMAIN call.heap
          /\ \A n \in DOMAIN call.heap : Same(h[n], call.heap[n])
      BY DEF SameContents
    <2>4. /\ h \in Seq(Objects(Len(h))) /\ h # << >>
          /\ \A n \in DOMAIN h : HeldObject(h[n])
      BY <2>3, HeapsAssumption, HeldAssumption
    <2>5. call.heap \in Seq(Objects(Len(call.heap))) /\ Len(h) = Len(call.heap)
      <3>1. call.heap \in Seq(Objects(Len(call.heap)))
        BY HeapType
      <3>2. Len(h) \in Nat /\ Len(call.heap) \in Nat
            /\ DOMAIN h = 1 .. Len(h) /\ DOMAIN call.heap = 1 .. Len(call.heap)
        BY <2>4, <3>1
      <3> DEFINE m == Len(h)
                 n == Len(call.heap)
      <3> HIDE DEF m, n
      <3>3. m \in Nat /\ n \in Nat /\ 1 .. m = 1 .. n
        BY <2>3, <3>2 DEF m, n
      <3>4. m = n
        BY <3>3
      <3> QED BY <3>1, <3>4 DEF m, n
    <2>6. AlikeHeaps(h, call.heap)
      BY <2>3, <2>4, <2>5, HeldHeap DEF AlikeHeaps
    <2>7. call.heap # << >>
      <3>1. 1 \in DOMAIN h
        BY <2>4
      <3>2. DOMAIN << >> = {}
        OBVIOUS
      <3> QED BY <2>3, <3>1, <3>2
    <2>8. call \in [heap : Heaps, val : {Ref(1)}, depth : Depths, self : Selves]
      BY <2>7 DEF TypeOK, NoCall, Arguments
    <2>9. c.heap = h /\ c.val = call.val /\ c.depth = call.depth /\ c.self = call.self
      BY <2>8
    <2> HIDE DEF c
    <2>10. call' = c /\ enc' \in Settings(call.self) /\ result' = "running"
      BY <2>1, <2>9 DEF Call, c
    <2>11. enc \in Settings(call.self)
      BY <2>2 DEF SettingsHold
    <2>12. enc' = enc
      <3>1. Settings(call.self) = [
              prefer_int : {IF call.self.prefer_integer = "absent" THEN PreferInteger
                            ELSE call.self.prefer_integer = "on"},
              canonical : {TRUE},
              utf8 : {call.self.utf8 = "on"}]
        BY <2>2 DEF Settings
      <3> DEFINE P == IF call.self.prefer_integer = "absent" THEN PreferInteger
                      ELSE call.self.prefer_integer = "on"
                 Q == call.self.utf8 = "on"
                 x == enc
                 y == enc'
      <3>2. /\ x \in [prefer_int : {P}, canonical : {TRUE}, utf8 : {Q}]
            /\ y \in [prefer_int : {P}, canonical : {TRUE}, utf8 : {Q}]
        BY <2>10, <2>11, <3>1, Zenon
      <3> HIDE DEF x, y, P, Q
      <3>3. y = x
        BY <3>2, OneSetting
      <3> QED BY <3>3 DEF x, y
    <2>13. enc \in SettingsSet
      BY DEF TypeOK, SettingsSet
    <2>14. enc.canonical = TRUE
      BY <2>2, <2>13 DEF SettingsSet
    <2>15. PICK C : XSTable(C, call.heap, enc)
      BY <2>5, <2>13, XSTableExists
    <2>16. XSAt(call.val, call.depth, C, enc) = PP_bytes(out)
      BY <2>2, <2>15 DEF Packs
    <2>17. ASSUME NEW D, XSTable(D, h, enc)
           PROVE  XSAt(call.val, call.depth, D, enc) = PP_bytes(out)
      <3>1. \A d \in Nat : d > 0 => C[d] = D[d]
        <4> DEFINE g == call.heap
                   e == enc
        <4>1. AlikeHeaps(h, g) /\ CanonicalOn(e)
              /\ XSTable(C, g, e) /\ XSTable(D, h, e)
          BY <2>6, <2>13, <2>14, <2>15, <2>17 DEF CanonicalOn
        <4> HIDE DEF g, e
        <4>2. AlikeFromOne(C, D)
          BY <4>1, SameTables
        <4> QED BY <4>2 DEF AlikeFromOne
      <3>2. call.depth \in Int
        BY HeapType
      <3>3. call.depth > 0 => At(C, call.depth) = At(D, call.depth)
        BY <3>1, <3>2 DEF At
      <3>4. XSAt(call.val, call.depth, C, enc) = XSAt(call.val, call.depth, D, enc)
        BY <3>2, <3>3, SameSV DEF XSAt
      <3> QED BY <2>16, <3>4
    <2>18. \A D : XSTable(D, call'.heap, enc') =>
                    XSAt(call'.val, call'.depth, D, enc') = PP_bytes(earlier')
      BY <2>2, <2>9, <2>10, <2>12, <2>17
    <2>19. result' # "none" /\ call'.self.canonical = "on"
      BY <2>2, <2>9, <2>10
    <2> QED BY <2>18, <2>19 DEF EarlierMatches
  <1>2. CASE Begin /\ UNCHANGED earlier
    BY <1>2 DEF Begin, EarlierMatches
  <1>3. CASE Step /\ UNCHANGED earlier
    BY <1>3, StepKeeps DEF EarlierMatches
  <1>4. CASE SetPreferInteger /\ UNCHANGED earlier
    BY <1>4 DEF SetPreferInteger, EarlierMatches
  <1>5. CASE Return /\ earlier' = NULL
    BY <1>5 DEF EarlierMatches
  <1>6. CASE UNCHANGED <<vars, earlier>>
    BY <1>6 DEF vars, EarlierMatches
  <1> QED BY <1>1, <1>2, <1>3, <1>4, <1>5, <1>6 DEF ClientNext

(* With canonical on, packing the same contents again, whatever order the      *)
(* hashes have come to be in, gives the same bytes: for hashes of any size and *)
(* keys of any bytes, nested and shared in any way.                            *)
THEOREM CanonicalIsTheSame == ClientSpec => []CanonicalIsUnique
  <1>1. ClientInit => SettingsHold /\ EarlierMatches
    BY DEF ClientInit, Init, SettingsHold, EarlierMatches
  <1>2. TypeOK /\ ClientInv /\ SettingsHold /\ EarlierMatches
          /\ [ClientNext]_<<vars, earlier>> => SettingsHold' /\ EarlierMatches'
    BY SettingsKept, EarlierKept DEF ClientInv
  <1>3. TypeOK /\ ClientInv /\ EarlierMatches => CanonicalIsUnique
    <2> SUFFICES ASSUME TypeOK, Packs, EarlierMatches, result = "packed", earlier # NULL
                 PROVE  out = earlier
      BY DEF ClientInv, CanonicalIsUnique
    <2>1. call.heap \in Seq(Objects(Len(call.heap))) /\ enc \in SettingsSet
      BY HeapType DEF TypeOK, SettingsSet
    <2>2. PICK C : XSTable(C, call.heap, enc)
      BY <2>1, XSTableExists
    <2>3. PP_bytes(out) = PP_bytes(earlier)
      BY <2>2 DEF Packs, EarlierMatches
    <2>4. PP_bytes(out).bytes = PP_bytes(earlier).bytes
      BY <2>3
    <2> QED BY <2>4, BytesFields
  <1> QED BY <1>1, <1>2, <1>3, ClientType, ClientInvariant, PTL DEF ClientSpec

-------------------------------------------------------------------------------
(* h, wherever it stands, is the header of n items, pairs or bytes.            *)
Counts(h, n) ==
  h \in Seq(Byte) /\ \A s \in Seq(Byte), p \in Nat : Stands(h, s, p) => SizeRead(h, n, s, p)

LEMMA HeadersCount ==
  ASSUME NEW n \in Nat, Is32Bit(n)
  PROVE  /\ Counts(ArrayHeader(n), n) /\ T_ARRAY(ArrayHeader(n)[1])
         /\ Counts(MapHeader(n), n) /\ T_MAP(MapHeader(n)[1])
         /\ Counts(StrHeader(n), n) /\ T_STR(StrHeader(n)[1])
         /\ Counts(BinHeader(n), n) /\ T_BIN(BinHeader(n)[1])
  <1> DEFINE a == ArrayHeader(n)
             m == MapHeader(n)
             t == StrHeader(n)
             b == BinHeader(n)
  <1>1. a \in Seq(Byte) /\ m \in Seq(Byte) /\ t \in Seq(Byte) /\ b \in Seq(Byte)
    BY HeaderBytes
  <1>2. \A s \in Seq(Byte), p \in Nat :
          /\ Stands(a, s, p) => SizeRead(a, n, s, p) /\ T_ARRAY(s[p + 1])
          /\ Stands(m, s, p) => SizeRead(m, n, s, p) /\ T_MAP(s[p + 1])
          /\ Stands(t, s, p) => SizeRead(t, n, s, p) /\ T_STR(s[p + 1])
          /\ Stands(b, s, p) => SizeRead(b, n, s, p) /\ T_BIN(s[p + 1])
    BY SizeRoundTrip
  <1> HIDE DEF a, m, t, b
  <1>3. Counts(a, n) /\ Counts(m, n) /\ Counts(t, n) /\ Counts(b, n)
    BY <1>1, <1>2 DEF Counts
  <1>4. 0 \in Nat
    OBVIOUS
  <1>5. T_ARRAY(a[1])
    BY <1>1, <1>2, <1>4, StandsItself, Zenon
  <1>6. T_MAP(m[1])
    BY <1>1, <1>2, <1>4, StandsItself, Zenon
  <1>7. T_STR(t[1])
    BY <1>1, <1>2, <1>4, StandsItself, Zenon
  <1>8. T_BIN(b[1])
    BY <1>1, <1>2, <1>4, StandsItself, Zenon
  <1> QED BY <1>3, <1>5, <1>6, <1>7, <1>8 DEF a, m, t, b

(* The header of an array or a map, and its items.                             *)
LEMMA ReadsArray ==
  ASSUME NEW n \in Nat, NEW h, Counts(h, n), T_ARRAY(h[1]),
         NEW c \in Seq(Byte), NEW vals, ReadsRow(c, vals, n)
  PROVE  Yields(h \o c, ArrayOf(vals))
  <1> SUFFICES ASSUME NEW s \in Seq(Byte), NEW p \in Nat, NEW d \in Nat, Stands(h \o c, s, p)
               PROVE  \E e \in Nat : Item(Unpack(s, FALSE), s, FALSE, p, d) =
                                       Returned(<<ArrayOf(vals)>>, p + Len(h \o c), e)
    BY DEF Yields
  <1> DEFINE V == Unpack(s, FALSE)
             q == p + Len(h)
  <1>0. h \in Seq(Byte)
    BY DEF Counts
  <1>1. /\ Stands(h, s, p) /\ Stands(c, s, q) /\ q \in Nat
        /\ Len(h \o c) = Len(h) + Len(c) /\ q + Len(c) = p + (Len(h) + Len(c))
    BY <1>0, StandsParts, BytesOf
  <1>2. SizeRead(h, n, s, p) /\ T_ARRAY(s[p + 1])
    BY <1>1 DEF Counts, SizeRead
  <1>3. ~T_MAP(s[p + 1])
    BY <1>2, MapOrArray
  <1>4. AfterFetch(s, p) = q /\ FetchSize(s, p) = n
    BY <1>2 DEF SizeRead
  <1>5. ContainerAt(s, p)
    <2>1. q <= Len(s) /\ p < q
      <3>1. SizeBytes(s[p + 1]) \in Nat
        BY DEF SizeBytes
      <3>2. p + 1 <= q
        BY <1>4, <3>1 DEF AfterFetch
      <3>3. p + Len(h) <= Len(s)
        BY <1>1 DEF Stands
      <3> QED BY <1>1, <3>2, <3>3
    <2> QED BY <1>1, <1>2, <1>4, <2>1 DEF ContainerAt
  <1>6. PICK e \in Nat : V[<<q, d + 1, n>>] = Returned(vals, q + Len(c), e)
    <2>1. d + 1 \in Nat
      OBVIOUS
    <2> QED BY <1>1, <2>1 DEF ReadsRow
  <1>7. Item(V, s, FALSE, p, d) = Contained(s[p + 1], V[<<q, d + 1, n>>])
    <2>1. FetchSize(s, p) * (IF T_MAP(s[p + 1]) THEN 2 ELSE 1) = n
      BY <1>3, <1>4
    <2> HIDE DEF V, q
    <2> QED BY <1>4, <1>5, <2>1 DEF Item
  <1> HIDE DEF V, q
  <1>8. Contained(s[p + 1], Returned(vals, q + Len(c), e)) =
          Returned(<<ArrayOf(vals)>>, q + Len(c), e)
    BY <1>2 DEF Contained, Returned
  <1> QED BY <1>1, <1>6, <1>7, <1>8 DEF V

LEMMA ReadsMap ==
  ASSUME NEW n \in Nat, NEW h, Counts(h, n), T_MAP(h[1]),
         NEW c \in Seq(Byte), NEW vals, ReadsRow(c, vals, 2 * n)
  PROVE  Yields(h \o c, HashOf(vals))
  <1> SUFFICES ASSUME NEW s \in Seq(Byte), NEW p \in Nat, NEW d \in Nat, Stands(h \o c, s, p)
               PROVE  \E e \in Nat : Item(Unpack(s, FALSE), s, FALSE, p, d) =
                                       Returned(<<HashOf(vals)>>, p + Len(h \o c), e)
    BY DEF Yields
  <1> DEFINE V == Unpack(s, FALSE)
             q == p + Len(h)
  <1>0. h \in Seq(Byte)
    BY DEF Counts
  <1>1. /\ Stands(h, s, p) /\ Stands(c, s, q) /\ q \in Nat
        /\ Len(h \o c) = Len(h) + Len(c) /\ q + Len(c) = p + (Len(h) + Len(c))
    BY <1>0, StandsParts, BytesOf
  <1>2. SizeRead(h, n, s, p) /\ T_MAP(s[p + 1])
    BY <1>1 DEF Counts, SizeRead
  <1>3. ~T_ARRAY(s[p + 1])
    BY <1>2, MapOrArray
  <1>4. AfterFetch(s, p) = q /\ FetchSize(s, p) = n
    BY <1>2 DEF SizeRead
  <1>5. ContainerAt(s, p)
    <2>1. q <= Len(s) /\ p < q
      <3>1. SizeBytes(s[p + 1]) \in Nat
        BY DEF SizeBytes
      <3>2. p + 1 <= q
        BY <1>4, <3>1 DEF AfterFetch
      <3>3. p + Len(h) <= Len(s)
        BY <1>1 DEF Stands
      <3> QED BY <1>1, <3>2, <3>3
    <2> QED BY <1>1, <1>2, <1>4, <2>1 DEF ContainerAt
  <1>6. PICK e \in Nat : V[<<q, d + 1, 2 * n>>] = Returned(vals, q + Len(c), e)
    <2>1. d + 1 \in Nat
      OBVIOUS
    <2> QED BY <1>1, <2>1 DEF ReadsRow
  <1>7. Item(V, s, FALSE, p, d) = Contained(s[p + 1], V[<<q, d + 1, 2 * n>>])
    <2>1. FetchSize(s, p) * (IF T_MAP(s[p + 1]) THEN 2 ELSE 1) = 2 * n
      BY <1>2, <1>4
    <2> HIDE DEF V, q
    <2> QED BY <1>4, <1>5, <2>1 DEF Item
  <1> HIDE DEF V, q
  <1>8. Contained(s[p + 1], Returned(vals, q + Len(c), e)) =
          Returned(<<HashOf(vals)>>, q + Len(c), e)
    BY <1>3 DEF Contained, Returned
  <1> QED BY <1>1, <1>6, <1>7, <1>8 DEF V

(* Scalars.  The numbers and sizes of what Perl holds are of 64 and 32 bits.   *)
LEMMA HeldNumber ==
  ASSUME NEW i \in Int, NumberHeld(i)
  PROVE  Is64Bit(i)
  <1> DEFINE a == i \div 65536
             b == a \div 65536
             c == b \div 65536
             d == c \div 65536
  <1>1. a \in Int /\ b \in Int /\ c \in Int /\ d \in Int
    BY SMT
  <1>2. 65536 * a <= i /\ i < 65536 * a + 65536
    BY SMT
  <1>3. 65536 * b <= a /\ a < 65536 * b + 65536
    BY <1>1, SMT
  <1>4. 65536 * c <= b /\ b < 65536 * c + 65536
    BY <1>1, SMT
  <1>5. 65536 * d <= c /\ c < 65536 * d + 65536
    BY <1>1, SMT
  <1>6. b >= -2147483647 - 1 /\ d <= 0
    BY DEF NumberHeld, Shr32, Shr16
  <1> HIDE DEF a, b, c, d
  <1>7. c <= 65535 /\ b <= 4294967295 /\ a <= 281474976710655 /\ i <= 18446744073709551615
    BY <1>1, <1>2, <1>3, <1>4, <1>5, <1>6, SMT
  <1>8. a >= -140737488355328 /\ i >= -9223372036854775808
    BY <1>1, <1>2, <1>3, <1>6, SMT
  <1> QED BY <1>7, <1>8, SMT DEF Is64Bit

LEMMA HeldSize ==
  ASSUME NEW n \in Nat, SizeHeld(n)
  PROVE  Is32Bit(n)
  <1> DEFINE a == (n + 1) \div 65536
             b == a \div 65536
  <1>1. a \in Int /\ b \in Int
    BY SMT
  <1>2. n + 1 < 65536 * a + 65536
    BY SMT
  <1>3. a < 65536 * b + 65536
    BY <1>1, SMT
  <1>4. b = 0
    BY DEF SizeHeld, Shr32, Shr16
  <1> HIDE DEF a, b
  <1> QED BY <1>1, <1>2, <1>3, <1>4, SMT DEF Is32Bit

LEMMA StringIntHeld ==
  ASSUME NEW s \in Seq(Byte), IsInt(s)
  PROVE  Is64Bit(StringInt(s))
  <1> DEFINE t == DigitsOf(s)
             u == FiveDigits(t, 5)
             v == FiveDigits(t, 0)
  <1>1. t \in Seq(Byte) /\ \A i \in DOMAIN t : t[i] \in 48 .. 57
    BY DEF DigitsOf, Minus, IsInt, AllDigits
  <1> HIDE DEF t
  <1>2. ASSUME NEW k \in Nat
        PROVE  Digit(t, k) \in 0 .. 9
    <2>1. CASE k < Len(t)
      <3>1. Len(t) - k \in DOMAIN t
        BY <1>1, <2>1
      <3>2. t[Len(t) - k] \in 48 .. 57
        BY <1>1, <3>1
      <3> DEFINE b == t[Len(t) - k]
      <3>3. Digit(t, k) = b - 48
        BY <2>1 DEF Digit
      <3> HIDE DEF b
      <3> QED BY <3>2, <3>3 DEF b
    <2>2. CASE ~(k < Len(t))
      BY <2>2 DEF Digit
    <2> QED BY <2>1, <2>2
  <1>3. ASSUME NEW k \in Nat
        PROVE  FiveDigits(t, k) \in Int /\ 0 <= FiveDigits(t, k) /\ FiveDigits(t, k) <= 99999
    <2> DEFINE a == Digit(t, k + 4)
               b == Digit(t, k + 3)
               c == Digit(t, k + 2)
               d == Digit(t, k + 1)
               e == Digit(t, k)
    <2>1. a \in 0 .. 9 /\ b \in 0 .. 9 /\ c \in 0 .. 9 /\ d \in 0 .. 9 /\ e \in 0 .. 9
      BY <1>2
    <2> HIDE DEF a, b, c, d, e
    <2>2. /\ 10000 * a + 1000 * b + 100 * c + 10 * d + e \in Int
          /\ 0 <= 10000 * a + 1000 * b + 100 * c + 10 * d + e
          /\ 10000 * a + 1000 * b + 100 * c + 10 * d + e <= 99999
      BY <2>1, SMT
    <2> QED BY <2>2, SMT DEF FiveDigits, a, b, c, d, e
  <1>4. u \in Int /\ v \in Int /\ 0 <= u /\ u <= 99999 /\ 0 <= v /\ v <= 99999
    BY <1>3
  <1>5. StringInt(s) \in {100000 * 1 * u + 1 * v, 100000 * (-1) * u + (-1) * v}
    BY DEF StringInt, Denoted, t
  <1> HIDE DEF u, v
  <1>6. StringInt(s) = 100000 * u + v \/ StringInt(s) = -100000 * u - v
    BY <1>4, <1>5, SMT
  <1> QED BY <1>4, <1>6, SMT DEF Is64Bit

(* What no container begins with is read by itself.                            *)
LEMMA ReadsScalar ==
  ASSUME NEW b, NEW m,
         \A s \in Seq(Byte), p \in Nat, d \in Nat : Stands(b, s, p) =>
           ~ContainerAt(s, p) /\ Scalar(s, p, d, FALSE) = Returned(<<m>>, p + Len(b), d)
  PROVE  Yields(b, m)
  BY DEF Yields, Item

LEMMA ReadsDirect ==
  ASSUME NEW b \in {192, 194, 195}
  PROVE  Yields(<<b>>, byte2value(b))
  <1> DEFINE c == <<b>>
             m == byte2value(b)
  <1>1. ASSUME NEW s \in Seq(Byte), NEW p \in Nat, NEW d \in Nat, Stands(c, s, p)
        PROVE  /\ ~ContainerAt(s, p)
               /\ Scalar(s, p, d, FALSE) = Returned(<<m>>, p + Len(c), d)
    <2>1. p + 1 <= Len(s) /\ s[p + 1] = b /\ Len(c) = 1 /\ Len(s) \in Nat
      BY <1>1 DEF Stands
    <2>2. T_DIRECT(b) /\ ~T_ARRAY(b) /\ ~T_MAP(b)
      BY DEF T_DIRECT, T_ARRAY, T_MAP
    <2>3. ~(p >= Len(s))
      BY <2>1
    <2> QED BY <2>1, <2>2, <2>3 DEF Scalar, ContainerAt
  <1> HIDE DEF c, m
  <1>2. Yields(c, m)
    BY <1>1, ReadsScalar
  <1> QED BY <1>2 DEF c, m

LEMMA ReadsInteger ==
  ASSUME NEW i \in Int, Is64Bit(i)
  PROVE  Yields(Integer(i), IntValue(i))
  <1> SUFFICES ASSUME NEW s \in Seq(Byte), NEW p \in Nat, NEW d \in Nat,
                      Stands(Integer(i), s, p)
               PROVE  ~ContainerAt(s, p) /\ Scalar(s, p, d, FALSE) =
                        Returned(<<IntValue(i)>>, p + Len(Integer(i)), d)
    BY ReadsScalar
  <1> DEFINE text == FALSE
             b == s[p + 1]
             q == AfterFetch(s, p)
  <1> HIDE DEF text
  <1>1. Scalar(s, p, d, text) = Returned(<<IntValue(i)>>, p + Len(Integer(i)), d)
    BY IntegerRoundTrip
  <1>2. ASSUME ContainerAt(s, p)
        PROVE  FALSE
    <2>1. p < Len(s) /\ (T_ARRAY(b) \/ T_MAP(b)) /\ q <= Len(s)
      BY <1>2 DEF ContainerAt
    <2>2. /\ ~T_DIRECT(b) /\ b \notin 202 .. 211
          /\ b \notin {193} \cup (199 .. 201) \cup (212 .. 216)
      BY <2>1, ContainerByte, SMTT(30)
    <2>3. ~(p >= Len(s)) /\ ~(q > Len(s))
      <3>1. q \in Nat /\ Len(s) \in Nat
        BY <2>1, FetchFacts
      <3> QED BY <2>1, <3>1
    <2>4. Scalar(s, p, d, text) = Sized(b, s, q, FetchSize(s, p), d, text)
      <3> HIDE DEF q
      <3> QED BY <2>2, <2>3 DEF Scalar, q
    <2> HIDE DEF q, b
    <2>5. Sized(b, s, q, FetchSize(s, p), d, text).status = "ok"
      BY <1>1, <2>4 DEF Returned
    <2>6. Sized(b, s, q, FetchSize(s, p), d, text).vals =
            <<Str(SubSeq(s, q + 1, q + FetchSize(s, p)), T_STR(b) \/ text)>>
      BY <2>2, <2>5 DEF Sized, Returned, Died
    <2>7. Sized(b, s, q, FetchSize(s, p), d, text).vals = <<IntValue(i)>>
      BY <1>1, <2>4 DEF Returned
    <2>8. Str(SubSeq(s, q + 1, q + FetchSize(s, p)), T_STR(b) \/ text) = IntValue(i)
      BY <2>6, <2>7
    <2>9. "iv" \notin DOMAIN Str(SubSeq(s, q + 1, q + FetchSize(s, p)), T_STR(b) \/ text)
      BY DEF Str
    <2> QED BY <2>8, <2>9 DEF IntValue
  <1> QED BY <1>1, <1>2 DEF text

LEMMA ReadsFloat ==
  ASSUME NEW n \in Seq(Byte), Len(n) = 8
  PROVE  Yields(Double(n), Float(n))
  <1> DEFINE c == Double(n)
             m == Float(n)
  <1>1. ASSUME NEW s \in Seq(Byte), NEW p \in Nat, NEW d \in Nat, Stands(c, s, p)
        PROVE  /\ ~ContainerAt(s, p)
               /\ Scalar(s, p, d, FALSE) = Returned(<<m>>, p + Len(c), d)
    <2> DEFINE h == <<203>>
    <2>1. h \in Seq(Byte) /\ Len(h) = 1 /\ h[1] = 203
      BY DEF Byte
    <2>2. c = h \o n
      BY DEF Double
    <2> HIDE DEF h, c
    <2>3. /\ Stands(h, s, p) /\ Stands(n, s, p + 1) /\ p + 1 \in Nat
          /\ Len(c) = 1 + 8
      <3>1. Stands(h \o n, s, p)
        BY <1>1, <2>2
      <3>2. Parted(h, n, s, p)
        BY <2>1, <3>1, StandsParted
      <3> QED BY <2>1, <2>2, <3>2 DEF Parted
    <2>4. s[p + 1] = 203 /\ p + 1 <= Len(s) /\ Len(s) \in Nat
      BY <2>1, <2>3 DEF Stands
    <2>5. SubSeq(s, (p + 1) + 1, (p + 1) + 8) = n /\ (p + 1) + 8 <= Len(s)
      BY <2>3, StandsIsPart
    <2> DEFINE b == s[p + 1]
               q == p + 1
    <2>6. b = 203 /\ ~T_DIRECT(203) /\ ~T_ARRAY(203) /\ ~T_MAP(203) /\ NumberWidth(203) = 8
      BY <2>4 DEF T_DIRECT, T_ARRAY, T_MAP, NumberWidth
    <2>7. ~ContainerAt(s, p)
      BY <2>6 DEF ContainerAt
    <2>8. Scalar(s, p, d, FALSE) = Sized(203, s, q, 8, d, FALSE)
      <3>1. ~(p >= Len(s)) /\ 203 \in 202 .. 211
        BY <2>4
      <3> QED BY <2>6, <3>1 DEF Scalar
    <2> HIDE DEF q, b
    <2>9. Sized(203, s, q, 8, d, FALSE) = Returned(<<Float(SubSeq(s, q + 1, q + 8))>>, q + 8, d)
      <3>1. ~(q + 8 > Len(s)) /\ 203 \in 202 .. 211
        BY <2>4, <2>5 DEF q
      <3>2. UnpackNumber(203, SubSeq(s, q + 1, q + 8)) = Float(SubSeq(s, q + 1, q + 8))
        BY DEF UnpackNumber
      <3> QED BY <3>1, <3>2 DEF Sized
    <2>10. q + 8 = p + Len(c) /\ SubSeq(s, q + 1, q + 8) = n
      BY <2>3, <2>5 DEF q
    <2> QED BY <2>7, <2>8, <2>9, <2>10
  <1> HIDE DEF c, m
  <1>2. Yields(c, m)
    BY <1>1, ReadsScalar
  <1> QED BY <1>2 DEF c, m

StringAt(t, h, s, p) ==
  /\ Stands(h \o t, s, p) /\ SizeRead(h, Len(t), s, p)
  /\ T_STR(s[p + 1]) \/ T_BIN(s[p + 1])

Text(b) == T_STR(b) \/ FALSE

StringReads(t, h, s, p, d) ==
  /\ ~ContainerAt(s, p)
  /\ Scalar(s, p, d, FALSE) = Returned(<<Str(t, Text(s[p + 1]))>>, p + Len(h \o t), d)

LEMMA ReadsString ==
  ASSUME NEW t \in Seq(Byte), NEW h \in Seq(Byte),
         NEW s \in Seq(Byte), NEW p \in Nat, NEW d \in Nat, StringAt(t, h, s, p)
  PROVE  StringReads(t, h, s, p, d)
  <1> DEFINE q == AfterFetch(s, p)
             n == FetchSize(s, p)
             b == s[p + 1]
  <1>1. Stands(h \o t, s, p) /\ SizeRead(h, Len(t), s, p)
    BY DEF StringAt
  <1>2. /\ ~T_DIRECT(b) /\ ~T_ARRAY(b) /\ ~T_MAP(b) /\ b \notin 202 .. 211
        /\ b \notin {193} \cup (199 .. 201) \cup (212 .. 216)
    BY StringByte, SMTT(30) DEF StringAt
  <1>3. q = p + Len(h) /\ n = Len(t) /\ Len(t) \in Nat /\ Len(s) \in Nat /\ q \in Nat
    BY <1>1, BytesOf DEF SizeRead
  <1>4. Stands(h, s, p) /\ Stands(t, s, q) /\ Len(h \o t) = Len(h) + Len(t)
    BY <1>1, <1>3, StandsParts
  <1>5. SubSeq(s, q + 1, q + n) = t /\ q + n <= Len(s)
    BY <1>3, <1>4, StandsIsPart
  <1>6. p < q
    <2>1. SizeBytes(s[p + 1]) \in Nat
      BY DEF SizeBytes
    <2> QED BY <2>1 DEF AfterFetch
  <1> HIDE DEF q, n
  <1>7. ~(p >= Len(s)) /\ ~(q > Len(s)) /\ ~(q + n > Len(s)) /\ q + n = p + Len(h \o t)
    BY <1>3, <1>4, <1>5, <1>6, BytesOf
  <1>8. ~ContainerAt(s, p)
    BY <1>2 DEF ContainerAt
  <1>9. Scalar(s, p, d, FALSE) = Sized(b, s, q, n, d, FALSE)
    BY <1>2, <1>7 DEF Scalar, q, n
  <1>10. Sized(b, s, q, n, d, FALSE) = Returned(<<Str(t, T_STR(b) \/ FALSE)>>, q + n, d)
    BY <1>2, <1>5, <1>7 DEF Sized
  <1> QED BY <1>7, <1>8, <1>9, <1>10 DEF Text, StringReads

LEMMA TextIs ==
  ASSUME NEW b, NEW t
  PROVE  /\ T_STR(b) => Str(t, Text(b)) = Str(t, TRUE)
         /\ T_BIN(b) => Str(t, Text(b)) = Str(t, FALSE)
  <1>1. ASSUME T_STR(b)
        PROVE  Text(b) = TRUE
    BY <1>1, Zenon DEF Text
  <1>2. ASSUME ~T_STR(b)
        PROVE  Text(b) = FALSE
    BY <1>2, Zenon DEF Text
  <1>3. T_BIN(b) => ~T_STR(b)
    BY BinByte
  <1> QED BY <1>1, <1>2, <1>3, Zenon

(* The header of a string or of bytes, and its bytes.                          *)
LEMMA ReadsCounted ==
  ASSUME NEW t \in Seq(Byte), NEW h, Counts(h, Len(t)), T_STR(h[1]) \/ T_BIN(h[1])
  PROVE  /\ T_STR(h[1]) => Yields(h \o t, Str(t, TRUE))
         /\ T_BIN(h[1]) => Yields(h \o t, Str(t, FALSE))
  <1> DEFINE m == Str(t, Text(h[1]))
             a == h \o t
             n == Len(t)
  <1>1. h \in Seq(Byte) /\ n \in Nat
    BY DEF Counts
  <1>2. ASSUME NEW s \in Seq(Byte), NEW p \in Nat, NEW d \in Nat, Stands(a, s, p)
        PROVE  /\ ~ContainerAt(s, p)
               /\ Scalar(s, p, d, FALSE) = Returned(<<m>>, p + Len(a), d)
    <2>1. Stands(h, s, p)
      BY <1>1, <1>2, StandsParts
    <2>2. SizeRead(h, n, s, p) /\ s[p + 1] = h[1]
      BY <1>1, <2>1 DEF Counts, SizeRead
    <2>3. StringAt(t, h, s, p)
      BY <1>2, <2>2 DEF StringAt
    <2>4. StringReads(t, h, s, p, d)
      BY <1>1, <2>3, ReadsString
    <2> QED BY <2>2, <2>4 DEF StringReads
  <1> HIDE DEF m, a
  <1>3. Yields(a, m)
    BY <1>2, ReadsScalar
  <1>4. /\ T_STR(h[1]) => m = Str(t, TRUE)
        /\ T_BIN(h[1]) => m = Str(t, FALSE)
    BY TextIs DEF m
  <1> QED BY <1>3, <1>4 DEF a

LEMMA ReadsStr ==
  ASSUME NEW t \in Seq(Byte), Is32Bit(Len(t))
  PROVE  /\ Yields(StrHeader(Len(t)) \o t, Str(t, TRUE))
         /\ Yields(BinHeader(Len(t)) \o t, Str(t, FALSE))
  <1>1. Len(t) \in Nat
    BY BytesOf
  <1> DEFINE h == StrHeader(Len(t))
             g == BinHeader(Len(t))
  <1>2. Counts(h, Len(t)) /\ T_STR(h[1]) /\ Counts(g, Len(t)) /\ T_BIN(g[1])
    BY <1>1, HeadersCount
  <1> HIDE DEF h, g
  <1>3. Yields(h \o t, Str(t, TRUE)) /\ Yields(g \o t, Str(t, FALSE))
    BY <1>2, ReadsCounted
  <1> QED BY <1>3 DEF h, g

(* What packing resulted in is read as m, if it is bytes.                      *)
ReadsAs(r, m) == r.status = "packed" => Yields(r.bytes, m) /\ m.svs \in Nat

LEMMA BytesReadAs ==
  ASSUME NEW b, NEW m, Yields(b, m), m.svs \in Nat
  PROVE  ReadsAs(PP_bytes(b), m)
  BY BytesFields DEF ReadsAs

LEMMA ByteReadAs ==
  ASSUME NEW b \in {192, 194, 195}, NEW m, byte2value(b) = m, m.svs \in Nat
  PROVE  ReadsAs(PP_bytes(<<b>>), m)
  <1>1. Yields(<<b>>, byte2value(b))
    BY ReadsDirect
  <1>2. Yields(<<b>>, m)
    BY <1>1
  <1> QED BY <1>2, BytesReadAs

LEMMA FixedReadAs ==
  /\ ReadsAs(PP_bytes(Nil), Undef)
  /\ ReadsAs(PP_bytes(True), Bool(TRUE))
  /\ ReadsAs(PP_bytes(False), Bool(FALSE))
  <1> DEFINE t == Bool(TRUE)
             f == Bool(FALSE)
  <1>1. byte2value(192) = Undef /\ byte2value(195) = t /\ byte2value(194) = f
    BY DEF byte2value
  <1>2. Undef.svs \in Nat /\ t.svs \in Nat /\ f.svs \in Nat
    BY DEF Undef, Bool
  <1> HIDE DEF t, f
  <1>3. ReadsAs(PP_bytes(Nil), Undef)
    BY <1>1, <1>2, ByteReadAs DEF Nil
  <1>4. ReadsAs(PP_bytes(True), t)
    BY <1>1, <1>2, ByteReadAs DEF True
  <1>5. ReadsAs(PP_bytes(False), f)
    BY <1>1, <1>2, ByteReadAs DEF False
  <1> QED BY <1>3, <1>4, <1>5 DEF t, f

StringMeaning(s, e) ==
  IF e.prefer_int /\ IsInt(s) THEN IntValue(StringInt(s)) ELSE Str(s, e.utf8)

LEMMA StringReadAs ==
  ASSUME NEW s \in Seq(Byte), SizeHeld(Len(s)), NEW e \in SettingsSet
  PROVE  ReadsAs(PP_bytes(XSString(s, e)), StringMeaning(s, e))
  <1>1. CASE e.prefer_int /\ IsInt(s)
    <2> DEFINE i == StringInt(s)
    <2>1. i \in Int /\ Is64Bit(i)
      BY <1>1, StringIntType, StringIntHeld
    <2> HIDE DEF i
    <2>2. Yields(Integer(i), IntValue(i))
      BY <2>1, ReadsInteger
    <2>3. IntValue(i).svs \in Nat
      BY DEF IntValue
    <2>4. ReadsAs(PP_bytes(Integer(i)), IntValue(i))
      BY <2>2, <2>3, BytesReadAs
    <2> QED BY <1>1, <2>4 DEF XSString, StringMeaning, i
  <1>2. CASE ~(e.prefer_int /\ IsInt(s))
    <2>1. Is32Bit(Len(s))
      BY BytesOf, HeldSize
    <2>2. /\ Yields(StrHeader(Len(s)) \o s, Str(s, TRUE))
          /\ Yields(BinHeader(Len(s)) \o s, Str(s, FALSE))
      BY <2>1, ReadsStr
    <2>3. Str(s, TRUE).svs \in Nat /\ Str(s, FALSE).svs \in Nat
      BY DEF Str
    <2>4. /\ ReadsAs(PP_bytes(StrHeader(Len(s)) \o s), Str(s, TRUE))
          /\ ReadsAs(PP_bytes(BinHeader(Len(s)) \o s), Str(s, FALSE))
      BY <2>2, <2>3, BytesReadAs
    <2>5. e.utf8 = TRUE \/ e.utf8 = FALSE
      BY DEF SettingsSet
    <2>6. CASE e.utf8 = TRUE
      <3>1. XSString(s, e) = StrHeader(Len(s)) \o s /\ StringMeaning(s, e) = Str(s, TRUE)
        BY <1>2, <2>6 DEF XSString, StringMeaning
      <3> QED BY <2>4, <3>1
    <2>7. CASE e.utf8 = FALSE
      <3>1. XSString(s, e) = BinHeader(Len(s)) \o s /\ StringMeaning(s, e) = Str(s, FALSE)
        BY <1>2, <2>7 DEF XSString, StringMeaning
      <3> QED BY <2>4, <3>1
    <2> QED BY <2>5, <2>6, <2>7
  <1> QED BY <1>1, <1>2

LEMMA ScalarReadAs ==
  ASSUME NEW N \in Nat, NEW v \in SVs(N), Held(v), ~IsRef(v), NEW e \in SettingsSet
  PROVE  ReadsAs(XSScalar(v, e), ScalarMeaning(v, e))
  <1>0. v # NoSV
    BY SVKind
  <1>1. CASE v = Undef
    <2>1. XSScalar(v, e) = PP_bytes(Nil) /\ ScalarMeaning(v, e) = Undef
      BY <1>0, <1>1 DEF XSScalar, ScalarMeaning, Undef, IsString
    <2> QED BY <2>1, FixedReadAs
  <1>2. CASE DOMAIN v = {"bool", "svs"} /\ v.bool \in BOOLEAN /\ v = Bool(v.bool)
    <2>1. ScalarMeaning(v, e) = v
      BY <1>0, <1>2 DEF ScalarMeaning, IsString
    <2>2. CASE v.bool = TRUE
      <3>1. XSScalar(v, e) = PP_bytes(True) /\ v = Bool(TRUE)
        BY <1>2, <2>2 DEF XSScalar
      <3> QED BY <2>1, <3>1, FixedReadAs
    <2>3. CASE v.bool = FALSE
      <3>1. XSScalar(v, e) = PP_bytes(False) /\ v = Bool(FALSE)
        BY <1>2, <2>3 DEF XSScalar
      <3> QED BY <2>1, <3>1, FixedReadAs
    <2> QED BY <1>2, <2>2, <2>3
  <1>3. CASE DOMAIN v = {"iv", "svs"} /\ v.iv \in Int /\ v = IntValue(v.iv)
    <2> DEFINE i == v.iv
    <2>1. ScalarMeaning(v, e) = v /\ XSScalar(v, e) = PP_bytes(Integer(i))
      BY <1>0, <1>3 DEF ScalarMeaning, XSScalar, IsString
    <2>2. i \in Int /\ Is64Bit(i)
      BY <1>3, HeldNumber DEF Held
    <2>3. v = IntValue(i)
      BY <1>3
    <2> HIDE DEF i
    <2>4. Yields(Integer(i), IntValue(i)) /\ IntValue(i).svs \in Nat
      BY <2>2, ReadsInteger DEF IntValue
    <2> QED BY <2>1, <2>3, <2>4, BytesReadAs
  <1>4. CASE DOMAIN v = {"nv", "svs"} /\ v.nv \in Seq(Byte) /\ v = Float(v.nv)
    <2> DEFINE n == v.nv
    <2>1. ScalarMeaning(v, e) = v /\ XSScalar(v, e) = PP_bytes(Double(n))
      BY <1>0, <1>4 DEF ScalarMeaning, XSScalar, IsString
    <2>2. n \in Seq(Byte) /\ Len(n) = 8
      BY <1>4 DEF Held
    <2>3. v = Float(n)
      BY <1>4
    <2> HIDE DEF n
    <2>4. Yields(Double(n), Float(n)) /\ Float(n).svs \in Nat
      BY <2>2, ReadsFloat DEF Float
    <2> QED BY <2>1, <2>3, <2>4, BytesReadAs
  <1>5. CASE DOMAIN v = {"pv", "text", "svs"} /\ v.pv \in Seq(Byte)
    <2>1. ScalarMeaning(v, e) = StringMeaning(v.pv, e)
      BY <1>0, <1>5 DEF ScalarMeaning, StringMeaning, IsString
    <2>2. XSScalar(v, e) = PP_bytes(XSString(v.pv, e))
      BY <1>5 DEF XSScalar, IsString
    <2>3. SizeHeld(Len(v.pv))
      BY <1>5 DEF Held, IsString
    <2> QED BY <1>5, <2>1, <2>2, <2>3, StringReadAs
  <1>6. CASE DOMAIN v = {"scalar"} /\ v.scalar \in Seq(Byte)
    <2>1. CASE v = ScalarRef(<<49>>)
      <3>1. XSScalar(v, e) = PP_bytes(True)
        BY <1>6, <2>1 DEF XSScalar, IsString
      <3>2. v.scalar = <<49>>
        BY <2>1 DEF ScalarRef
      <3>3. ScalarMeaning(v, e) = Bool(TRUE)
        BY <1>0, <1>6, <3>2 DEF ScalarMeaning
      <3> QED BY <3>1, <3>3, FixedReadAs
    <2>2. CASE v = ScalarRef(<<48>>)
      <3>1. v # ScalarRef(<<49>>) /\ v.scalar # <<49>>
        BY <2>2 DEF ScalarRef
      <3>2. XSScalar(v, e) = PP_bytes(False)
        BY <1>6, <2>2, <3>1 DEF XSScalar, IsString
      <3>3. ScalarMeaning(v, e) = Bool(FALSE)
        BY <1>0, <1>6, <3>1 DEF ScalarMeaning
      <3> QED BY <3>2, <3>3, FixedReadAs
    <2>3. CASE v # ScalarRef(<<49>>) /\ v # ScalarRef(<<48>>)
      <3>1. XSScalar(v, e) = PP_died("unsupported")
        BY <1>6, <2>3 DEF XSScalar, IsString
      <3> QED BY <3>1, DiedFields DEF ReadsAs
    <2> QED BY <2>1, <2>2, <2>3
  <1>7. CASE DOMAIN v = {"other"}
    <2>1. v # ScalarRef(<<49>>) /\ v # ScalarRef(<<48>>)
      BY <1>7 DEF ScalarRef
    <2>2. XSScalar(v, e) = PP_died("unsupported")
      BY <1>7, <2>1 DEF XSScalar, IsString
    <2> QED BY <2>2, DiedFields DEF ReadsAs
  <1>8. ~(DOMAIN v = {"rv"})
    BY DEF IsRef
  <1> QED BY <1>1, <1>2, <1>3, <1>4, <1>5, <1>6, <1>7, <1>8, SVKind

LEMMA RefersTo ==
  ASSUME NEW N \in Nat, NEW v \in SVs(N), IsRef(v)
  PROVE  v.rv \in 1 .. N
  BY SVFields DEF IsRef

(* What is read of the arrays and hashes that v may refer to is M.             *)
ReferredRead(sub, M, N, d) == d > 0 => \A n \in 1 .. N : ReadsAs(sub[n], M[n])

LEMMA SVReadAs ==
  ASSUME NEW N \in Nat, NEW v \in SVs(N) \cup {NoSV}, v # NoSV => Held(v),
         NEW d \in Int, NEW sub, NEW M, ReferredRead(sub, M, N, d), NEW e \in SettingsSet
  PROVE  ReadsAs(XSPackSV(v, d, sub, e), SVMeaning(v, M, e))
  <1>1. CASE v = NoSV
    <2>1. ~IsRef(v)
      BY <1>1 DEF NoSV, IsRef
    <2>2. XSPackSV(v, d, sub, e) = PP_bytes(Nil) /\ SVMeaning(v, M, e) = Undef
      BY <1>1, <2>1 DEF XSPackSV, SVMeaning, ScalarMeaning
    <2> QED BY <2>2, FixedReadAs
  <1>2. CASE v # NoSV /\ d <= 0
    <2>1. XSPackSV(v, d, sub, e) = PP_died("nesting")
      BY <1>2 DEF XSPackSV
    <2> QED BY <2>1, DiedFields DEF ReadsAs
  <1>3. CASE v # NoSV /\ d > 0 /\ IsRef(v)
    <2>1. v \in SVs(N)
      BY <1>3
    <2>2. v.rv \in 1 .. N
      BY <1>3, <2>1, RefersTo
    <2>3. XSPackSV(v, d, sub, e) = sub[v.rv] /\ SVMeaning(v, M, e) = M[v.rv]
      BY <1>3 DEF XSPackSV, SVMeaning
    <2> QED BY <1>3, <2>2, <2>3 DEF ReferredRead
  <1>4. CASE v # NoSV /\ d > 0 /\ ~IsRef(v)
    <2>1. v \in SVs(N) /\ Held(v)
      BY <1>4
    <2>2. XSPackSV(v, d, sub, e) = XSScalar(v, e) /\ SVMeaning(v, M, e) = ScalarMeaning(v, e)
      BY <1>4 DEF XSPackSV, SVMeaning
    <2> QED BY <1>4, <2>1, <2>2, ScalarReadAs
  <1> QED BY <1>1, <1>2, <1>3, <1>4

-------------------------------------------------------------------------------
(* Rows.  What r holds in front of n values rest makes them the m values vals. *)
Continues(r, vals, m, rest, n) ==
  r.status = "packed" =>
    \A c \in Seq(Byte) : ReadsRow(c, rest, n) => ReadsRow(r.bytes \o c, vals, m)

RowAs(r, vals, n) == r.status = "packed" => ReadsRow(r.bytes, vals, n)

LEMMA OneContinues ==
  ASSUME NEW r \in Results, NEW m, ReadsAs(r, m), NEW rest, NEW n \in Nat
  PROVE  Continues(r, <<m>> \o rest, n + 1, rest, n)
  <1> SUFFICES ASSUME r.status = "packed", NEW c \in Seq(Byte), ReadsRow(c, rest, n)
               PROVE  ReadsRow(r.bytes \o c, <<m>> \o rest, n + 1)
    BY DEF Continues
  <1> DEFINE b == r.bytes
  <1>1. b \in Seq(Byte) /\ Yields(b, m)
    BY ResultFields DEF ReadsAs
  <1> HIDE DEF b
  <1>2. ReadsRow(b \o c, <<m>> \o rest, n + 1)
    BY <1>1, ReadsNext
  <1> QED BY <1>2 DEF b

LEMMA BothPacked ==
  ASSUME NEW r \in Results, NEW q \in Results, Then(r, q).status = "packed"
  PROVE  /\ r.status = "packed" /\ q.status = "packed"
         /\ Then(r, q).bytes = r.bytes \o q.bytes
  BY BytesFields DEF Then

LEMMA TwoContinue ==
  ASSUME NEW r \in Results, NEW q \in Results, NEW k, NEW v,
         ReadsAs(r, k), ReadsAs(q, v), NEW rest, NEW n \in Nat
  PROVE  Continues(Then(r, q), <<k>> \o (<<v>> \o rest), (n + 1) + 1, rest, n)
  <1> SUFFICES ASSUME Then(r, q).status = "packed", NEW c \in Seq(Byte), ReadsRow(c, rest, n)
               PROVE  ReadsRow(Then(r, q).bytes \o c, <<k>> \o (<<v>> \o rest), (n + 1) + 1)
    BY DEF Continues
  <1> DEFINE a == r.bytes
             b == q.bytes
             row == <<v>> \o rest
  <1>1. r.status = "packed" /\ q.status = "packed" /\ Then(r, q).bytes = a \o b
    BY BothPacked
  <1>2. a \in Seq(Byte) /\ b \in Seq(Byte) /\ Yields(a, k) /\ Yields(b, v)
    BY <1>1, ResultFields DEF ReadsAs
  <1> HIDE DEF a, b
  <1>3. b \o c \in Seq(Byte) /\ n + 1 \in Nat
    BY <1>2
  <1>4. ReadsRow(b \o c, row, n + 1)
    BY <1>2, ReadsNext
  <1> HIDE DEF row
  <1>5. ReadsRow(a \o (b \o c), <<k>> \o row, (n + 1) + 1)
    BY <1>2, <1>3, <1>4, ReadsNext
  <1>6. (a \o b) \o c = a \o (b \o c)
    BY <1>2, ThreeParts
  <1> QED BY <1>1, <1>5, <1>6 DEF row

(* T[i] are the values that the results from the i-th on are read as, K[i]     *)
(* their number.                                                               *)
Rows(rs, T, K) ==
  /\ T[Len(rs) + 1] = << >> /\ K[Len(rs) + 1] = 0
  /\ \A i \in 1 .. Len(rs) : Continues(rs[i], T[i], K[i], T[i + 1], K[i + 1])

LEMMA RowStep ==
  ASSUME NEW r \in Results, NEW q \in Results, NEW vals, NEW m, NEW rest, NEW n,
         Continues(r, vals, m, rest, n), RowAs(q, rest, n)
  PROVE  RowAs(Then(r, q), vals, m)
  <1> SUFFICES ASSUME Then(r, q).status = "packed"
               PROVE  ReadsRow(Then(r, q).bytes, vals, m)
    BY DEF RowAs
  <1>1. r.status = "packed" /\ q.status = "packed" /\ Then(r, q).bytes = r.bytes \o q.bytes
    BY BothPacked
  <1>2. q.bytes \in Seq(Byte)
    BY ResultFields
  <1>3. ReadsRow(q.bytes, rest, n)
    BY <1>1 DEF RowAs
  <1>4. ReadsRow(r.bytes \o q.bytes, vals, m)
    BY <1>1, <1>2, <1>3 DEF Continues
  <1> QED BY <1>1, <1>4

LEMMA RowsRead ==
  ASSUME NEW rs \in Seq(Results), NEW R, Rests(R, rs), NEW T, NEW K, Rows(rs, T, K)
  PROVE  RowAs(R[1], T[1], K[1])
  <1> DEFINE n == Len(rs)
             S == {j \in Nat : j <= n => RowAs(R[n + 1 - j], T[n + 1 - j], K[n + 1 - j])}
  <1>1. n \in Nat
    OBVIOUS
  <1>2. 0 \in S
    <2>1. RowAs(R[n + 1], T[n + 1], K[n + 1])
      <3>1. R[n + 1] = PP_bytes(<< >>) /\ T[n + 1] = << >> /\ K[n + 1] = 0
        BY DEF Rests, Rows, Nothing
      <3>2. RowAs(PP_bytes(<< >>), << >>, 0)
        BY ReadsNothing, BytesFields DEF RowAs
      <3> QED BY <3>1, <3>2
    <2>2. n + 1 - 0 = n + 1
      BY <1>1
    <2> QED BY <2>1, <2>2
  <1>3. ASSUME NEW j \in Nat, j \in S
        PROVE  j + 1 \in S
    <2>1. ASSUME j + 1 <= n
          PROVE  RowAs(R[n + 1 - (j + 1)], T[n + 1 - (j + 1)], K[n + 1 - (j + 1)])
      <3> DEFINE i == n - j
      <3>1. i \in 1 .. n /\ n + 1 - (j + 1) = i /\ i + 1 = n + 1 - j /\ i + 1 \in 1 .. n + 1
        BY <1>1, <2>1
      <3>2. RowAs(R[i + 1], T[i + 1], K[i + 1])
        BY <1>3, <1>1, <2>1, <3>1
      <3> HIDE DEF i
      <3>3. /\ R[i] = Then(rs[i], R[i + 1]) /\ R[i + 1] \in Results /\ rs[i] \in Results
            /\ Continues(rs[i], T[i], K[i], T[i + 1], K[i + 1])
        BY <3>1 DEF Rests, Rows
      <3>4. RowAs(R[i], T[i], K[i])
        BY <3>2, <3>3, RowStep
      <3> QED BY <3>1, <3>4
    <2> HIDE DEF n
    <2> QED BY <2>1
  <1>4. Nat \subseteq S
    <2> HIDE DEF S
    <2> QED BY <1>2, <1>3, Induction
  <1>5. n \in S /\ n + 1 - n = 1
    BY <1>1, <1>4
  <1> QED BY <1>1, <1>5

Behind(h, t) ==
  /\ Len(h \o t) = Len(h) + Len(t) /\ \A i \in 1 .. Len(h) : (h \o t)[i] = h[i]
  /\ \A i \in 1 .. Len(t) : (h \o t)[Len(h) + i] = t[i]

LEMMA BehindFirst ==
  ASSUME NEW S, NEW h \in Seq(S), NEW t \in Seq(S)
  PROVE  Behind(h, t)
  BY ConcatProperties DEF Behind

(* The values from the i-th on.                                                *)
LEMMA FirstOfRest ==
  ASSUME NEW S, NEW s \in Seq(S), NEW i \in 1 .. Len(s)
  PROVE  SubSeq(s, i, Len(s)) = <<s[i]>> \o SubSeq(s, i + 1, Len(s))
  <1> DEFINE n == Len(s)
             u == SubSeq(s, i, n)
             t == SubSeq(s, i + 1, n)
             h == <<s[i]>>
             w == h \o t
  <1>1. n \in Nat /\ i \in 1 .. n /\ i \in Nat /\ i <= n
    OBVIOUS
  <1>2. u \in Seq(S) /\ Len(u) = n - i + 1 /\ \A k \in 1 .. n - i + 1 : u[k] = s[i + k - 1]
    BY <1>1
  <1>3. t \in Seq(S) /\ Len(t) = n - i /\ \A k \in 1 .. n - i : t[k] = s[i + 1 + k - 1]
    BY <1>1
  <1>0. h \in Seq(S) /\ Len(h) = 1 /\ h[1] = s[i]
    BY <1>1
  <1> HIDE DEF t, u, h, n
  <1>4. /\ w \in Seq(S) /\ Len(w) = 1 + (n - i) /\ w[1] = s[i]
        /\ \A k \in 1 .. n - i : w[1 + k] = t[k]
    <2>1. Behind(h, t)
      BY <1>0, <1>3, BehindFirst
    <2>2. w \in Seq(S)
      BY <1>0, <1>3
    <2> QED BY <1>0, <1>1, <1>3, <2>1, <2>2 DEF Behind
  <1>5. ASSUME NEW k \in 1 .. n - i + 1
        PROVE  u[k] = w[k]
    <2>1. CASE k = 1
      <3>1. i + 1 - 1 = i
        BY <1>1
      <3> QED BY <1>1, <1>2, <1>4, <2>1, <3>1
    <2>2. CASE k > 1
      <3>1. k - 1 \in 1 .. n - i /\ i + 1 + (k - 1) - 1 = i + k - 1 /\ k = 1 + (k - 1)
        BY <1>1, <2>2
      <3>2. w[1 + (k - 1)] = t[k - 1]
        BY <1>4, <3>1
      <3> QED BY <1>2, <1>3, <3>1, <3>2
    <2>3. k = 1 \/ k > 1
      BY <1>1
    <2> QED BY <2>1, <2>2, <2>3
  <1> DEFINE m == n - i + 1
             D == 1 .. m
  <1>6. m \in Nat /\ Len(u) = m /\ Len(w) = m
    BY <1>1, <1>2, <1>4
  <1> HIDE DEF w, m
  <1>7. u \in [D -> S] /\ w \in [D -> S] /\ \A k \in D : u[k] = w[k]
    BY <1>2, <1>4, <1>5, <1>6 DEF m
  <1> HIDE DEF D
  <1>8. u = w
    BY <1>7, SameFunction
  <1> QED BY <1>8 DEF u, w, t, h, n

(* Every result of a row that is packed is packed.                             *)
LEMMA AllPacked ==
  ASSUME NEW rs \in Seq(Results), NEW R, Rests(R, rs), R[1].status = "packed"
  PROVE  \A i \in 1 .. Len(rs) : rs[i].status = "packed"
  <1> DEFINE n == Len(rs)
             S == {j \in Nat : j <= n => R[j + 1].status = "packed"}
  <1>1. n \in Nat
    OBVIOUS
  <1>2. ASSUME NEW i \in 1 .. n, R[i].status = "packed"
        PROVE  rs[i].status = "packed" /\ R[i + 1].status = "packed"
    <2>1. i + 1 \in 1 .. n + 1
      BY <1>1
    <2>2. R[i] = Then(rs[i], R[i + 1]) /\ R[i + 1] \in Results /\ rs[i] \in Results
      BY <2>1 DEF Rests
    <2> QED BY <1>2, <2>2, BothPacked
  <1>3. 0 \in S
    OBVIOUS
  <1>4. ASSUME NEW j \in Nat, j \in S
        PROVE  j + 1 \in S
    <2>1. ASSUME j + 1 <= n
          PROVE  R[(j + 1) + 1].status = "packed"
      <3>1. j + 1 \in 1 .. n /\ R[j + 1].status = "packed"
        BY <1>1, <1>4, <2>1
      <3> HIDE DEF n
      <3> QED BY <1>2, <3>1
    <2> HIDE DEF n
    <2> QED BY <2>1
  <1>5. Nat \subseteq S
    <2> HIDE DEF S
    <2> QED BY <1>3, <1>4, Induction
  <1>6. ASSUME NEW i \in 1 .. n
        PROVE  rs[i].status = "packed"
    <2>1. i - 1 \in Nat /\ i - 1 <= n /\ (i - 1) + 1 = i
      BY <1>1
    <2>2. i - 1 \in S
      <3> HIDE DEF S
      <3> QED BY <1>5, <2>1
    <2>3. R[(i - 1) + 1].status = "packed"
      BY <2>1, <2>2
    <2>4. R[i].status = "packed"
      BY <2>1, <2>3
    <2> HIDE DEF n, S
    <2> QED BY <1>2, <2>4
  <1> QED BY <1>6

(* The values of the items of an array, and of keys and values of pairs.       *)
ItemMeanings(items, M, e) == [i \in DOMAIN items |-> SVMeaning(items[i], M, e)]

PairMeanings(pairs, M, e) ==
  [i \in 1 .. 2 * Len(pairs) |->
    LET pair == pairs[(i + 1) \div 2] IN
    IF i % 2 = 1 THEN ScalarMeaning(Str(pair[1], FALSE), e)
                 ELSE SVMeaning(pair[2], M, e)]

LEMMA ObjectMeaningIs ==
  ASSUME NEW o, NEW M, NEW e
  PROVE  ObjectMeaning(o, M, e) =
           IF IsArray(o) THEN ArrayOf(ItemMeanings(o.items, M, e))
                         ELSE HashOf(PairMeanings(o.pairs, M, e))
  BY DEF ObjectMeaning, ItemMeanings, PairMeanings

LEMMA MeaningsOfItems ==
  ASSUME NEW S, NEW items \in Seq(S), NEW M, NEW e
  PROVE  LET vals == ItemMeanings(items, M, e) IN
         /\ IsSeq(vals) /\ Len(vals) = Len(items)
         /\ \A i \in 1 .. Len(items) : vals[i] = SVMeaning(items[i], M, e)
  <1> DEFINE vals == ItemMeanings(items, M, e)
             n == Len(items)
             D == 1 .. n
             V == {SVMeaning(items[i], M, e) : i \in D}
  <1>1. n \in Nat /\ DOMAIN items = D
    OBVIOUS
  <1>2. vals \in [D -> V] /\ \A i \in D : vals[i] = SVMeaning(items[i], M, e)
    BY <1>1 DEF ItemMeanings
  <1> HIDE DEF V, vals
  <1>3. vals \in Seq(V) /\ Len(vals) = n
    BY <1>1, <1>2
  <1> QED BY <1>2, <1>3 DEF IsSeq, vals

PairValues(vals, pairs, M, e) ==
  /\ IsSeq(vals) /\ Len(vals) = 2 * Len(pairs)
  /\ \A i \in 1 .. Len(pairs) :
       /\ vals[2 * i - 1] = ScalarMeaning(Str(pairs[i][1], FALSE), e)
       /\ vals[2 * i] = SVMeaning(pairs[i][2], M, e)

LEMMA MeaningsOfPairs ==
  ASSUME NEW S, NEW pairs \in Seq(S), NEW M, NEW e
  PROVE  PairValues(PairMeanings(pairs, M, e), pairs, M, e)
  <1> DEFINE vals == PairMeanings(pairs, M, e)
             n == Len(pairs)
             D == 1 .. 2 * n
             F(i) == LET pair == pairs[(i + 1) \div 2] IN
                     IF i % 2 = 1 THEN ScalarMeaning(Str(pair[1], FALSE), e)
                                  ELSE SVMeaning(pair[2], M, e)
             V == {F(i) : i \in D}
  <1>1. n \in Nat /\ 2 * n \in Nat
    OBVIOUS
  <1>2. vals = [i \in D |-> F(i)]
    BY DEF PairMeanings
  <1>3. ASSUME NEW i \in 1 .. n
        PROVE  /\ vals[2 * i - 1] = ScalarMeaning(Str(pairs[i][1], FALSE), e)
               /\ vals[2 * i] = SVMeaning(pairs[i][2], M, e)
    <2>1. 2 * i - 1 \in D /\ 2 * i \in D /\ i \in Nat
      BY <1>1
    <2>2. vals[2 * i - 1] = F(2 * i - 1) /\ vals[2 * i] = F(2 * i)
      <3> HIDE DEF F, D, vals
      <3> QED BY <1>2, <2>1
    <2>3. F(2 * i - 1) = ScalarMeaning(Str(pairs[i][1], FALSE), e)
      BY <2>1, Halves
    <2>4. F(2 * i) = SVMeaning(pairs[i][2], M, e)
      <3> DEFINE k == 2 * i
      <3>1. (k + 1) \div 2 = i /\ k % 2 # 1
        BY <2>1, Halves
      <3> HIDE DEF k
      <3>2. F(k) = SVMeaning(pairs[i][2], M, e)
        BY <3>1
      <3> QED BY <3>2 DEF k
    <2> HIDE DEF F, vals
    <2> QED BY <2>2, <2>3, <2>4
  <1>4. vals \in Seq(V) /\ Len(vals) = 2 * n
    <2>1. vals \in [D -> V]
      <3> HIDE DEF F
      <3> QED BY <1>2
    <2> HIDE DEF V, vals
    <2> QED BY <1>1, <2>1
  <1> HIDE DEF vals, V
  <1> QED BY <1>3, <1>4 DEF IsSeq, PairValues, vals

(* What the items of an array are read as.                                     *)
RowsOfItems(rs, vals, n) ==
  /\ \E T, K : Rows(rs, T, K) /\ T[1] = vals /\ K[1] = n
  /\ \A i \in 1 .. n : rs[i].status = "packed" => vals[i].svs \in Nat

LEMMA ArrayRows ==
  ASSUME NEW N \in Nat, NEW o \in Objects(N), IsArray(o), HeldObject(o),
         NEW d \in Int, NEW sub \in [1 .. N -> Results], NEW M,
         ReferredRead(sub, M, N, d), NEW e \in SettingsSet
  PROVE  RowsOfItems(XSItems(o, d, sub, e), ItemMeanings(o.items, M, e), Len(o.items))
  <1> DEFINE n == Len(o.items)
             rs == XSItems(o, d, sub, e)
             vals == ItemMeanings(o.items, M, e)
             D == 1 .. n + 1
             T == [i \in D |-> SubSeq(vals, i, n)]
             K == [i \in D |-> n + 1 - i]
  <1>0. o.items \in Seq(SVs(N) \cup {NoSV})
    BY ObjectFields
  <1>1. o.items \in Seq(SVs(N) \cup {NoSV}) /\ n \in Nat
    BY <1>0
  <1>2. /\ rs \in Seq(Results) /\ Len(rs) = n
        /\ \A i \in 1 .. n : rs[i] = XSPackSV(o.items[i], d, sub, e)
    <2>1. Ordered(o, e.canonical) = o.items /\ Loop(o) = o.items
      BY DEF Ordered, Loop
    <2>2. /\ rs \in Seq(Results) /\ Len(rs) = n
          /\ \A i \in 1 .. n : rs[i] = XSItem(o, o.items[i], d, sub, e)
      <3> HIDE DEF rs
      <3> QED BY <2>1, XSItemsType DEF rs
    <2> HIDE DEF rs
    <2> QED BY <2>2 DEF XSItem
  <1>3. IsSeq(vals) /\ Len(vals) = n /\ \A i \in 1 .. n : vals[i] = SVMeaning(o.items[i], M, e)
    BY <1>1, MeaningsOfItems
  <1> HIDE DEF vals, rs
  <1>4. PICK S : vals \in Seq(S)
    BY <1>3 DEF IsSeq
  <1>5. ASSUME NEW i \in 1 .. n
        PROVE  /\ Continues(rs[i], T[i], K[i], T[i + 1], K[i + 1])
               /\ rs[i].status = "packed" => vals[i].svs \in Nat
    <2> DEFINE v == o.items[i]
               r == rs[i]
               m == vals[i]
               rest == SubSeq(vals, i + 1, n)
    <2>1. v \in SVs(N) \cup {NoSV}
      BY <1>1
    <2>2. v # NoSV => Held(v)
      <3>1. i \in DOMAIN o.items
        BY <1>1
      <3>2. v \in Range(o.items)
        BY <3>1 DEF Range
      <3>3. v # NoSV => v \in SVsIn(o)
        BY <3>2 DEF SVsIn
      <3> QED BY <3>3 DEF HeldObject
    <2>3. r = XSPackSV(v, d, sub, e) /\ m = SVMeaning(v, M, e) /\ r \in Results
      BY <1>2, <1>3
    <2> HIDE DEF v
    <2>4. ReadsAs(r, m)
      BY <2>1, <2>2, <2>3, SVReadAs
    <2>5. T[i] = <<m>> \o rest /\ T[i + 1] = rest
      <3>1. i \in D /\ i + 1 \in D /\ i \in 1 .. Len(vals)
        BY <1>1, <1>3
      <3>2. SubSeq(vals, i, Len(vals)) = <<vals[i]>> \o SubSeq(vals, i + 1, Len(vals))
        BY <1>4, <3>1, FirstOfRest
      <3> HIDE DEF D
      <3> QED BY <1>3, <3>1, <3>2
    <2>6. K[i] = (n - i) + 1 /\ K[i + 1] = n - i /\ n - i \in Nat
      BY <1>1
    <2> HIDE DEF r, m, rest, T, K
    <2>7. Continues(r, <<m>> \o rest, (n - i) + 1, rest, n - i)
      BY <2>3, <2>4, <2>6, OneContinues
    <2>8. r.status = "packed" => m.svs \in Nat
      BY <2>4 DEF ReadsAs
    <2> QED BY <2>5, <2>6, <2>7, <2>8 DEF r, m
  <1>6. T[n + 1] = << >> /\ K[n + 1] = 0 /\ T[1] = vals /\ K[1] = n
    <2>1. 1 \in D /\ n + 1 \in D /\ n + 1 - (n + 1) = 0 /\ n + 1 - 1 = n
      BY <1>1
    <2>2. SubSeq(vals, n + 1, n) = << >> /\ SubSeq(vals, 1, n) = vals
      BY <1>3, <1>4, NoneLeft
    <2> HIDE DEF D
    <2> QED BY <2>1, <2>2
  <1>7. Rows(rs, T, K)
    <2> HIDE DEF T, K
    <2> QED BY <1>2, <1>5, <1>6 DEF Rows
  <1>8. \A i \in 1 .. n : rs[i].status = "packed" => T[1][i].svs \in Nat
    BY <1>5, <1>6
  <1> HIDE DEF T, K, n
  <1>9. RowsOfItems(rs, vals, n)
    BY <1>6, <1>7, <1>8 DEF RowsOfItems
  <1> QED BY <1>9 DEF rs, vals, n

(* The pairs of a hash in the order in which they are packed.                  *)
Permutes(q, o, p, N) ==
  /\ Rearranges(p, Len(o.pairs)) /\ Len(o.pairs) \in Nat
  /\ q \in Seq(Seq(Byte) \X SVs(N)) /\ Len(q) = Len(o.pairs)
  /\ \A k \in 1 .. Len(o.pairs) : q[k] = o.pairs[p[k]]

LEMMA OrderedPermutes ==
  ASSUME NEW N \in Nat, NEW o \in Objects(N), ~IsArray(o), NEW canonical \in BOOLEAN
  PROVE  \E p : Permutes(Ordered(o, canonical), o, p, N)
  <1> DEFINE q == Ordered(o, canonical)
             n == Len(o.pairs)
             P == Seq(Byte) \X SVs(N)
             D == 1 .. n
  <1>1. Loop(o) = o.pairs
    BY DEF Loop
  <1>2. PICK p : /\ PackedBy(p, o, canonical)
                 /\ q = [k \in 1 .. Len(Loop(o)) |-> Loop(o)[p[k]]]
    BY OrderExists
  <1>3. Rearranges(p, n)
    BY <1>1, <1>2 DEF PackedBy
  <1>4. o.pairs \in Seq(P)
    BY ObjectFields
  <1>5. n \in Nat /\ \A k \in D : o.pairs[k] \in P
    <2> HIDE DEF P
    <2> QED BY <1>4
  <1>6. q = [k \in D |-> o.pairs[p[k]]]
    BY <1>1, <1>2
  <1>7. \A k \in D : p[k] \in D
    BY <1>3 DEF Rearranges
  <1> HIDE DEF q, P, D
  <1>8. q \in [D -> P] /\ \A k \in D : q[k] = o.pairs[p[k]]
    BY <1>5, <1>6, <1>7
  <1>9. q \in Seq(P) /\ Len(q) = n
    BY <1>5, <1>8 DEF D
  <1>10. Permutes(q, o, p, N)
    BY <1>3, <1>5, <1>8, <1>9 DEF Permutes, P, D
  <1> QED BY <1>10 DEF q

(* What Perl holds of a pair.                                                  *)
LEMMA PairHeld ==
  ASSUME NEW N \in Nat, NEW o \in Objects(N), ~IsArray(o), HeldObject(o),
         NEW q, NEW p, Permutes(q, o, p, N), NEW k \in 1 .. Len(o.pairs)
  PROVE  /\ Str(q[k][1], FALSE) \in SVs(N) /\ Held(Str(q[k][1], FALSE))
         /\ q[k][2] \in SVs(N) /\ Held(q[k][2])
  <1> DEFINE x == q[k]
             P == Seq(Byte) \X SVs(N)
  <1>1. x \in P
    <2> HIDE DEF P
    <2> QED BY DEF Permutes, P
  <1>2. x[1] \in Seq(Byte) /\ x[2] \in SVs(N)
    BY <1>1
  <1>3. x \in Range(o.pairs)
    <2>1. x = o.pairs[p[k]] /\ p[k] \in 1 .. Len(o.pairs)
      BY DEF Permutes, Rearranges
    <2>2. o.pairs \in Seq(P)
      BY ObjectFields
    <2> HIDE DEF P
    <2>3. p[k] \in DOMAIN o.pairs
      BY <2>1, <2>2
    <2> QED BY <2>1, <2>3 DEF Range
  <1> HIDE DEF x, P
  <1>4. x[2] \in SVsIn(o) /\ Str(x[1], FALSE) \in SVsIn(o)
    BY <1>3 DEF SVsIn
  <1>5. Str(x[1], FALSE) \in SVs(N)
    BY <1>2 DEF Str, SVs
  <1>6. \A v \in SVsIn(o) : Held(v)
    BY DEF HeldObject
  <1> QED BY <1>2, <1>4, <1>5, <1>6 DEF x

LEMMA PairPlaces ==
  ASSUME NEW n \in Nat, NEW i \in 1 .. n
  PROVE  /\ 2 * i - 1 \in 1 .. 2 * n /\ 2 * i \in 1 .. 2 * n /\ (2 * i - 1) + 1 = 2 * i
         /\ 2 * (i + 1) - 1 = 2 * i + 1 /\ 2 * (n - i) \in Nat
         /\ 2 * (n + 1 - i) = (2 * (n - i) + 1) + 1 /\ n + 1 - (i + 1) = n - i
  BY SMT

RowsOfPairs(rs, vals, n) ==
  /\ \E T, K : Rows(rs, T, K) /\ T[1] = vals /\ K[1] = 2 * n
  /\ \A i \in 1 .. n : rs[i].status = "packed" => vals[2 * i].svs \in Nat

LEMMA PairRows ==
  ASSUME NEW N \in Nat, NEW o \in Objects(N), ~IsArray(o), HeldObject(o),
         NEW d \in Int, NEW sub \in [1 .. N -> Results], NEW M,
         ReferredRead(sub, M, N, d), NEW e \in SettingsSet,
         NEW q, q = Ordered(o, e.canonical), NEW p, Permutes(q, o, p, N)
  PROVE  RowsOfPairs(XSItems(o, d, sub, e), PairMeanings(q, M, e), Len(o.pairs))
  <1> DEFINE n == Len(o.pairs)
             rs == XSItems(o, d, sub, e)
             vals == PairMeanings(q, M, e)
             D == 1 .. n + 1
             T == [i \in D |-> SubSeq(vals, 2 * i - 1, 2 * n)]
             K == [i \in D |-> 2 * (n + 1 - i)]
             A(i) == XSPackSV(Str(q[i][1], FALSE), d, sub, e)
             B(i) == XSPackSV(q[i][2], d, sub, e)
  <1>1. q \in Seq(Seq(Byte) \X SVs(N)) /\ Len(q) = n /\ n \in Nat
    BY DEF Permutes
  <1>2. /\ rs \in Seq(Results) /\ Len(rs) = n
        /\ \A i \in 1 .. n : rs[i] = Then(A(i), B(i))
    <2>1. Loop(o) = o.pairs
      BY DEF Loop
    <2> HIDE DEF rs
    <2>2. /\ rs \in Seq(Results) /\ Len(rs) = n
          /\ \A i \in 1 .. n : rs[i] = XSItem(o, q[i], d, sub, e)
      BY <2>1, XSItemsType DEF rs
    <2> QED BY <2>2 DEF XSItem
  <1>3. /\ IsSeq(vals) /\ Len(vals) = 2 * n
        /\ \A i \in 1 .. n : /\ vals[2 * i - 1] = ScalarMeaning(Str(q[i][1], FALSE), e)
                             /\ vals[2 * i] = SVMeaning(q[i][2], M, e)
    <2>1. PairValues(vals, q, M, e)
      BY <1>1, MeaningsOfPairs
    <2> HIDE DEF vals
    <2> QED BY <1>1, <2>1 DEF PairValues
  <1> HIDE DEF vals, rs
  <1>4. PICK S : vals \in Seq(S)
    BY <1>3 DEF IsSeq
  <1>5. ASSUME NEW i \in 1 .. n
        PROVE  /\ Continues(rs[i], T[i], K[i], T[i + 1], K[i + 1])
               /\ rs[i].status = "packed" => vals[2 * i].svs \in Nat
    <2> DEFINE key == Str(q[i][1], FALSE)
               v == q[i][2]
               a == A(i)
               b == B(i)
               x == vals[2 * i - 1]
               y == vals[2 * i]
               rest == SubSeq(vals, 2 * i + 1, 2 * n)
    <2>1. key \in SVs(N) /\ Held(key) /\ v \in SVs(N) /\ Held(v)
      BY PairHeld
    <2>2. x = SVMeaning(key, M, e) /\ y = SVMeaning(v, M, e)
      <3>1. ~IsRef(key)
        BY DEF Str, IsRef
      <3> QED BY <1>3, <3>1 DEF SVMeaning
    <2>3. a = XSPackSV(key, d, sub, e) /\ b = XSPackSV(v, d, sub, e) /\ rs[i] = Then(a, b)
      BY <1>2
    <2> HIDE DEF key, v, a, b, x, y
    <2>4. ReadsAs(a, x) /\ ReadsAs(b, y)
      BY <2>1, <2>2, <2>3, SVReadAs
    <2>5. a \in Results /\ b \in Results
      BY <2>1, <2>3, XSPackSVType
    <2>6. T[i] = <<x>> \o (<<y>> \o rest) /\ T[i + 1] = rest
      <3>1. i \in D /\ i + 1 \in D /\ i \in Nat
        BY <1>1
      <3>2. /\ 2 * i - 1 \in 1 .. Len(vals) /\ 2 * i \in 1 .. Len(vals)
            /\ (2 * i - 1) + 1 = 2 * i /\ 2 * (i + 1) - 1 = 2 * i + 1
        <4> HIDE DEF n
        <4> QED BY <1>1, <1>3, PairPlaces
      <3>3. SubSeq(vals, 2 * i - 1, Len(vals)) = <<x>> \o SubSeq(vals, 2 * i, Len(vals))
        BY <1>4, <3>2, FirstOfRest DEF x
      <3>4. SubSeq(vals, 2 * i, Len(vals)) = <<y>> \o SubSeq(vals, 2 * i + 1, Len(vals))
        BY <1>4, <3>2, FirstOfRest DEF y
      <3> HIDE DEF D
      <3> QED BY <1>3, <3>1, <3>2, <3>3, <3>4
    <2> DEFINE k == 2 * (n - i)
    <2>7. K[i] = (k + 1) + 1 /\ K[i + 1] = k /\ k \in Nat
      <3>1. i \in D /\ i + 1 \in D /\ 2 * (n + 1 - i) = (k + 1) + 1 /\ n + 1 - (i + 1) = n - i
        <4> HIDE DEF n
        <4> QED BY <1>1, PairPlaces
      <3>2. k \in Nat
        BY <1>1, PairPlaces
      <3> HIDE DEF D
      <3> QED BY <3>1, <3>2
    <2> HIDE DEF rest, T, K, k
    <2>8. Continues(Then(a, b), <<x>> \o (<<y>> \o rest), (k + 1) + 1, rest, k)
      BY <2>4, <2>5, <2>7, TwoContinue
    <2>9. rs[i].status = "packed" => y.svs \in Nat
      BY <2>3, <2>4, <2>5, BothPacked DEF ReadsAs
    <2> QED BY <2>3, <2>6, <2>7, <2>8, <2>9 DEF y
  <1>6. T[n + 1] = << >> /\ K[n + 1] = 0 /\ T[1] = vals /\ K[1] = 2 * n
    <2>1. /\ 1 \in D /\ n + 1 \in D /\ 2 * (n + 1 - (n + 1)) = 0 /\ 2 * (n + 1 - 1) = 2 * n
          /\ 2 * (n + 1) - 1 = 2 * n + 1 /\ 2 * 1 - 1 = 1
      BY <1>1
    <2>2. SubSeq(vals, 2 * n + 1, 2 * n) = << >> /\ SubSeq(vals, 1, 2 * n) = vals
      BY <1>3, <1>4, NoneLeft
    <2> HIDE DEF D
    <2>3. T[n + 1] = SubSeq(vals, 2 * (n + 1) - 1, 2 * n) /\ T[1] = SubSeq(vals, 2 * 1 - 1, 2 * n)
      BY <2>1
    <2> QED BY <2>1, <2>2, <2>3
  <1>7. Rows(rs, T, K)
    <2> HIDE DEF T, K
    <2> QED BY <1>2, <1>5, <1>6 DEF Rows
  <1>8. \A i \in 1 .. n : rs[i].status = "packed" => T[1][2 * i].svs \in Nat
    BY <1>5, <1>6
  <1> HIDE DEF T, K, n
  <1>9. RowsOfPairs(rs, vals, n)
    BY <1>6, <1>7, <1>8 DEF RowsOfPairs
  <1> QED BY <1>9 DEF rs, vals, n

(* What a hash means is the same in the order in which it is packed.           *)
KeyOfPair(pair, e) == HashKey(ScalarMeaning(Str(pair[1], FALSE), e))

Different(pairs, e) ==
  \A i, j \in 1 .. Len(pairs) : KeyOfPair(pairs[i], e) = KeyOfPair(pairs[j], e) => i = j

LEMMA PairsFilled ==
  ASSUME NEW S, NEW pairs \in Seq(S), NEW M, NEW e, Different(pairs, e),
         \A i \in 1 .. Len(pairs) : SVMeaning(pairs[i][2], M, e).svs \in Nat,
         NEW ks, ks = [i \in 1 .. Len(pairs) |-> KeyOfPair(pairs[i], e)],
         NEW vs, vs = [i \in 1 .. Len(pairs) |-> SVMeaning(pairs[i][2], M, e)]
  PROVE  HoldsPairs(HashOf(PairMeanings(pairs, M, e)), ks, vs, Len(pairs))
  <1> DEFINE n == Len(pairs)
             vals == PairMeanings(pairs, M, e)
             D == 1 .. n
  <1>1. PairValues(vals, pairs, M, e) /\ n \in Nat
    BY MeaningsOfPairs
  <1> HIDE DEF vals
  <1>2. Len(vals) = 2 * n
    BY <1>1 DEF PairValues
  <1>3. \A i \in D : ks[i] = KeyOfPair(pairs[i], e) /\ vs[i] = SVMeaning(pairs[i][2], M, e)
    OBVIOUS
  <1>4. KeysAndValues(vals, ks, vs, n)
    <2> SUFFICES ASSUME NEW i \in D
                 PROVE  /\ HashKey(vals[2 * i - 1]) = ks[i] /\ vals[2 * i] = vs[i]
                        /\ vs[i].svs \in Nat
      BY DEF KeysAndValues
    <2>1. /\ vals[2 * i - 1] = ScalarMeaning(Str(pairs[i][1], FALSE), e)
          /\ vals[2 * i] = SVMeaning(pairs[i][2], M, e)
      BY <1>1 DEF PairValues
    <2> QED BY <1>3, <2>1 DEF KeyOfPair
  <1>5. \A i, j \in D : ks[i] = ks[j] => i = j
    BY <1>3 DEF Different
  <1> HIDE DEF n
  <1>6. HoldsPairs(HashOf(vals), ks, vs, n)
    BY <1>1, <1>2, <1>4, <1>5, HashFilled
  <1> QED BY <1>6 DEF vals, n

LEMMA HashOfPermuted ==
  ASSUME NEW N \in Nat, NEW o \in Objects(N), ~IsArray(o), NEW e, Different(o.pairs, e),
         NEW q, NEW p, Permutes(q, o, p, N), NEW M,
         \A i \in 1 .. Len(o.pairs) : SVMeaning(q[i][2], M, e).svs \in Nat
  PROVE  /\ HashOf(PairMeanings(q, M, e)) = HashOf(PairMeanings(o.pairs, M, e))
         /\ HashOf(PairMeanings(q, M, e)).svs \in Nat
  <1> DEFINE P == Seq(Byte) \X SVs(N)
             r == o.pairs
             n == Len(r)
             D == 1 .. n
             Key(pair) == KeyOfPair(pair, e)
             Val(pair) == SVMeaning(pair[2], M, e)
             ks == [i \in D |-> Key(r[i])]
             vs == [i \in D |-> Val(r[i])]
             js == [i \in D |-> Key(q[i])]
             us == [i \in D |-> Val(q[i])]
  <1>1. r \in Seq(P)
    BY ObjectFields
  <1>2. /\ Rearranges(p, n) /\ n \in Nat /\ q \in Seq(P) /\ Len(q) = n
        /\ \A k \in D : q[k] = r[p[k]]
    BY DEF Permutes
  <1>3. /\ \A k \in D : p[k] \in D
        /\ \A j, k \in D : p[j] = p[k] => j = k
        /\ \A i \in D : \E k \in D : p[k] = i
    BY <1>2 DEF Rearranges
  <1>4. \A i, j \in D : Key(r[i]) = Key(r[j]) => i = j
    BY DEF Different
  <1>5. \A i \in D : Val(q[i]).svs \in Nat
    OBVIOUS
  <1> HIDE DEF P, r, n, D, Key, Val
  <1>6. \A i \in D : Val(r[i]).svs \in Nat
    BY <1>2, <1>3, <1>5
  <1>7. \A i, j \in D : Key(q[i]) = Key(q[j]) => i = j
    BY <1>2, <1>3, <1>4
  <1>8. Different(r, e) /\ Different(q, e)
    BY <1>2, <1>4, <1>7 DEF Different, Key, D, n
  <1>9. /\ ks = [i \in 1 .. Len(r) |-> KeyOfPair(r[i], e)]
        /\ vs = [i \in 1 .. Len(r) |-> SVMeaning(r[i][2], M, e)]
    BY DEF D, n, Key, Val
  <1>10. /\ js = [i \in 1 .. Len(q) |-> KeyOfPair(q[i], e)]
         /\ us = [i \in 1 .. Len(q) |-> SVMeaning(q[i][2], M, e)]
    BY <1>2 DEF D, Key, Val
  <1>11. \A k \in D : js[k] = ks[p[k]] /\ us[k] = vs[p[k]]
    BY <1>2, <1>3
  <1>12. \A i \in 1 .. Len(r) : SVMeaning(r[i][2], M, e).svs \in Nat
    BY <1>6 DEF D, n, Val
  <1>13. \A i \in 1 .. Len(q) : SVMeaning(q[i][2], M, e).svs \in Nat
    BY <1>2, <1>5 DEF D, Val
  <1> HIDE DEF ks, vs, js, us
  <1>14. HoldsPairs(HashOf(PairMeanings(r, M, e)), ks, vs, n)
    BY <1>1, <1>8, <1>9, <1>12, PairsFilled DEF n
  <1>15. HoldsPairs(HashOf(PairMeanings(q, M, e)), js, us, n)
    BY <1>2, <1>8, <1>10, <1>13, PairsFilled
  <1> DEFINE b == HashOf(PairMeanings(q, M, e))
             c == HashOf(PairMeanings(r, M, e))
  <1>16. HoldsPairs(c, ks, vs, n) /\ HoldsPairs(b, js, us, n)
    BY <1>14, <1>15
  <1> HIDE DEF b, c
  <1>17. b = c
    BY <1>2, <1>11, <1>16, SameFilled DEF D
  <1>18. b.svs \in Nat
    BY <1>16 DEF HoldsPairs, CountedHash
  <1> QED BY <1>17, <1>18 DEF b, c, r

(* A hash of which as many pairs are packed as were counted, and whose keys    *)
(* stay different.                                                             *)
Stable(o, e) == ~IsArray(o) => o.counted = Len(o.pairs) /\ Different(o.pairs, e)

LEMMA ObjectReadAs ==
  ASSUME NEW N \in Nat, NEW o \in Objects(N), HeldObject(o), NEW e \in SettingsSet,
         Stable(o, e), NEW d \in Int, NEW sub \in [1 .. N -> Results], NEW M,
         ReferredRead(sub, M, N, d)
  PROVE  ReadsAs(XSObject(o, d, sub, e), ObjectMeaning(o, M, e))
  <1> DEFINE h == Header(o)
             rs == XSItems(o, d, sub, e)
             x == XSObject(o, d, sub, e)
             n == Len(Loop(o))
  <1> SUFFICES ASSUME x.status = "packed"
               PROVE  /\ Yields(x.bytes, ObjectMeaning(o, M, e))
                      /\ ObjectMeaning(o, M, e).svs \in Nat
    BY DEF ReadsAs
  <1>1. rs \in Seq(Results) /\ Len(rs) = n /\ n \in Nat /\ Is32Bit(n)
    <2>1. rs \in Seq(Results) /\ Len(rs) = n /\ n \in Nat
      <3> HIDE DEF rs
      <3> QED BY XSItemsType DEF rs
    <2> QED BY <2>1, HeldSize DEF HeldObject
  <1>2. PICK R : Rests(R, rs)
    BY <1>1, RestsExist
  <1>3. x = Then(PP_bytes(h), R[1])
    BY <1>1, <1>2, JoinRests DEF XSObject
  <1> HIDE DEF rs, x
  <1> DEFINE c == R[1].bytes
  <1>4. R[1] \in Results
    BY <1>1, <1>2 DEF Rests
  <1>5. R[1].status = "packed" /\ x.bytes = h \o c
    BY <1>3, BytesFields DEF Then
  <1>6. c \in Seq(Byte)
    BY <1>4, ResultFields
  <1>7. \A i \in 1 .. n : rs[i].status = "packed"
    BY <1>1, <1>2, <1>5, AllPacked
  <1> HIDE DEF c
  <1>8. CASE IsArray(o)
    <2> DEFINE vals == ItemMeanings(o.items, M, e)
    <2>1. n = Len(o.items) /\ h = ArrayHeader(n) /\ ObjectMeaning(o, M, e) = ArrayOf(vals)
      BY <1>8, ObjectMeaningIs DEF Loop, Header
    <2>0. RowsOfItems(rs, vals, Len(o.items))
      <3> HIDE DEF vals
      <3> QED BY <1>8, ArrayRows DEF rs, vals
    <2> HIDE DEF n
    <2>2. PICK T, K : Rows(rs, T, K) /\ T[1] = vals /\ K[1] = n
      BY <2>0, <2>1 DEF RowsOfItems
    <2>3. RowAs(R[1], vals, n)
      <3>1. RowAs(R[1], T[1], K[1])
        BY <1>1, <1>2, <2>2, RowsRead
      <3> QED BY <2>1, <2>2, <3>1
    <2>4. ReadsRow(c, vals, n)
      BY <1>5, <2>3 DEF RowAs, c
    <2>5. Len(vals) = n
      <3>1. o.items \in Seq(SVs(N) \cup {NoSV})
        BY <1>8, ObjectFields
      <3> QED BY <2>1, <3>1, MeaningsOfItems
    <2>6. \A i \in 1 .. n : vals[i].svs \in Nat
      BY <1>7, <2>0, <2>1 DEF RowsOfItems
    <2> HIDE DEF vals
    <2>7. CountedArray(ArrayOf(vals))
      BY <1>1, <2>5, <2>6, ArrayCounted
    <2>8. ArrayOf(vals).svs \in Nat
      BY <2>7 DEF CountedArray
    <2>9. Yields(ArrayHeader(n) \o c, ArrayOf(vals))
      BY <1>1, <1>6, <2>4, ReadsArray, HeadersCount
    <2> QED BY <1>5, <2>1, <2>8, <2>9
  <1>9. CASE ~IsArray(o)
    <2>1. PICK p : Permutes(Ordered(o, e.canonical), o, p, N)
      <3>1. e.canonical \in BOOLEAN
        BY DEF SettingsSet
      <3> QED BY <1>9, <3>1, OrderedPermutes
    <2> DEFINE q == Ordered(o, e.canonical)
               vals == PairMeanings(q, M, e)
    <2>2. /\ n = Len(o.pairs) /\ h = MapHeader(n) /\ Different(o.pairs, e)
          /\ ObjectMeaning(o, M, e) = HashOf(PairMeanings(o.pairs, M, e))
      BY <1>9, ObjectMeaningIs DEF Loop, Header, Stable
    <2> HIDE DEF q, n, h, vals
    <2>3. q = Ordered(o, e.canonical) /\ Permutes(q, o, p, N)
      BY <2>1 DEF q
    <2>0. RowsOfPairs(rs, vals, n)
      BY <1>9, <2>2, <2>3, PairRows DEF rs, vals
    <2>4. PICK T, K : Rows(rs, T, K) /\ T[1] = vals /\ K[1] = 2 * n
      BY <2>0 DEF RowsOfPairs
    <2>5. RowAs(R[1], vals, 2 * n)
      <3>1. RowAs(R[1], T[1], K[1])
        BY <1>1, <1>2, <2>4, RowsRead
      <3> QED BY <2>2, <2>4, <3>1
    <2>6. ReadsRow(c, vals, 2 * n)
      BY <1>5, <2>5 DEF RowAs, c
    <2>7. \A i \in 1 .. Len(o.pairs) : SVMeaning(q[i][2], M, e).svs \in Nat
      <3>1. PairValues(vals, q, M, e)
        BY <2>3, MeaningsOfPairs DEF Permutes, vals
      <3>2. Len(q) = Len(o.pairs)
        BY <2>3 DEF Permutes
      <3>3. \A i \in 1 .. Len(o.pairs) : vals[2 * i] = SVMeaning(q[i][2], M, e)
        BY <3>1, <3>2 DEF PairValues
      <3>4. \A i \in 1 .. Len(o.pairs) : vals[2 * i].svs \in Nat
        BY <1>7, <2>0, <2>2 DEF RowsOfPairs
      <3> QED BY <3>3, <3>4
    <2>8. HashOf(vals) = ObjectMeaning(o, M, e) /\ HashOf(vals).svs \in Nat
      BY <1>9, <2>2, <2>3, <2>7, HashOfPermuted DEF vals
    <2>9. Yields(MapHeader(n) \o c, HashOf(vals))
      BY <1>1, <1>6, <2>6, ReadsMap, HeadersCount
    <2>10. Yields(MapHeader(n) \o c, ObjectMeaning(o, M, e)) /\ ObjectMeaning(o, M, e).svs \in Nat
      BY <2>8, <2>9
    <2> QED BY <1>5, <2>2, <2>10
  <1> QED BY <1>8, <1>9

-------------------------------------------------------------------------------
(* What the arrays and hashes mean, down to n levels, computed one from the    *)
(* other.                                                                      *)
NoMeanings(heap) == [n \in DOMAIN heap |-> NULL]
MeaningRow(heap, M, e) == [n \in DOMAIN heap |-> ObjectMeaning(heap[n], M, e)]

MeaningThen(J, heap, e, i) ==
  J[i] = IF i = 0 THEN NoMeanings(heap) ELSE MeaningRow(heap, J[i - 1], e)

MeaningsUpTo(J, heap, e, n) == \A i \in 0 .. n : MeaningThen(J, heap, e, i)

(* There are such meanings, and there is only one choice of them.              *)
LEMMA MeaningsExist ==
  ASSUME NEW heap, NEW e, NEW n \in Nat
  PROVE  \E J : MeaningsUpTo(J, heap, e, n)
  <1> DEFINE T == {k \in Nat : \E J : MeaningsUpTo(J, heap, e, k)}
  <1>1. 0 \in T
    <2> DEFINE J == [i \in {0} |-> NoMeanings(heap)]
    <2>1. MeaningThen(J, heap, e, 0)
      BY DEF MeaningThen
    <2> HIDE DEF J
    <2>2. MeaningsUpTo(J, heap, e, 0)
      BY <2>1 DEF MeaningsUpTo
    <2> QED BY <2>2
  <1>2. ASSUME NEW k \in Nat, k \in T
        PROVE  k + 1 \in T
    <2>1. PICK J : MeaningsUpTo(J, heap, e, k)
      BY <1>2
    <2> DEFINE more == MeaningRow(heap, J[k], e)
               K == [i \in 0 .. k + 1 |-> IF i = k + 1 THEN more ELSE J[i]]
    <2>2. /\ \A i \in 0 .. k : K[i] = J[i]
          /\ K[k + 1] = more
      <3> HIDE DEF more
      <3> QED OBVIOUS
    <2> HIDE DEF K
    <2>3. ASSUME NEW i \in 0 .. k + 1
          PROVE  MeaningThen(K, heap, e, i)
      <3>1. CASE i = k + 1
        <4>1. i # 0 /\ i - 1 = k /\ k \in 0 .. k
          BY <3>1
        <4>2. K[i] = MeaningRow(heap, K[i - 1], e)
          BY <2>2, <3>1, <4>1, Zenon
        <4> QED BY <4>1, <4>2, Zenon DEF MeaningThen
      <3>2. CASE i # k + 1
        <4>1. i \in 0 .. k /\ (i # 0 => i - 1 \in 0 .. k)
          BY <3>2
        <4>2. MeaningThen(J, heap, e, i)
          BY <2>1, <4>1 DEF MeaningsUpTo
        <4> QED BY <2>2, <4>1, <4>2, Zenon DEF MeaningThen
      <3> QED BY <3>1, <3>2
    <2>4. MeaningsUpTo(K, heap, e, k + 1)
      BY <2>3 DEF MeaningsUpTo
    <2> QED BY <2>4
  <1> HIDE DEF T
  <1>3. n \in T
    BY <1>1, <1>2, Induction
  <1> QED BY <1>3 DEF T

LEMMA MeaningsUnique ==
  ASSUME NEW heap, NEW e, NEW n \in Nat, NEW J, NEW K, MeaningsUpTo(J, heap, e, n), MeaningsUpTo(K, heap, e, n)
  PROVE  J[n] = K[n]
  <1> DEFINE T == {k \in Nat : k <= n => J[k] = K[k]}
  <1>1. 0 \in T
    <2>1. 0 \in 0 .. n
      OBVIOUS
    <2> QED BY <2>1 DEF MeaningsUpTo, MeaningThen
  <1>2. ASSUME NEW k \in Nat, k \in T
        PROVE  k + 1 \in T
    <2>1. CASE k + 1 <= n
      <3>1. J[k] = K[k]
        BY <1>2, <2>1
      <3>2. k + 1 \in 0 .. n /\ k + 1 # 0 /\ (k + 1) - 1 = k
        BY <2>1
      <3>3. MeaningThen(J, heap, e, k + 1) /\ MeaningThen(K, heap, e, k + 1)
        BY <3>2 DEF MeaningsUpTo
      <3>4. J[k + 1] = K[k + 1]
        BY <3>1, <3>2, <3>3, Zenon DEF MeaningThen
      <3> QED BY <3>4
    <2>2. CASE ~(k + 1 <= n)
      BY <2>2
    <2> QED BY <2>1, <2>2
  <1> HIDE DEF T
  <1>3. n \in T
    BY <1>1, <1>2, Induction
  <1> QED BY <1>3 DEF T

LEMMA MeaningsAre ==
  ASSUME NEW heap, NEW e
  PROVE  /\ Meanings(heap, e)[0] = NoMeanings(heap)
         /\ \A k \in Nat : Meanings(heap, e)[k + 1] = MeaningRow(heap, Meanings(heap, e)[k], e)
  <1> DEFINE J(k) == CHOOSE J : MeaningsUpTo(J, heap, e, k)
             F(f) == [k \in Nat |-> IF k = 0 THEN NoMeanings(heap)
                                    ELSE MeaningRow(heap, f[k - 1], e)]
             g == [k \in Nat |-> J(k)[k]]
  <1>1. \A k \in Nat : MeaningsUpTo(J(k), heap, e, k)
    BY MeaningsExist, Zenon
  <1> HIDE DEF J
  <1>2. ASSUME NEW k \in Nat
        PROVE  g[k] = IF k = 0 THEN NoMeanings(heap) ELSE MeaningRow(heap, g[k - 1], e)
    <2>1. MeaningThen(J(k), heap, e, k)
      <3>1. k \in 0 .. k
        OBVIOUS
      <3> QED BY <1>1, <3>1, Zenon DEF MeaningsUpTo
    <2>2. CASE k = 0
      BY <2>1, <2>2 DEF MeaningThen
    <2>3. CASE k # 0
      <3>1. k - 1 \in Nat /\ 0 .. k - 1 \subseteq 0 .. k
        BY <2>3
      <3>2. MeaningsUpTo(J(k), heap, e, k - 1) /\ MeaningsUpTo(J(k - 1), heap, e, k - 1)
        <4>1. MeaningsUpTo(J(k), heap, e, k) /\ MeaningsUpTo(J(k - 1), heap, e, k - 1)
          BY <1>1, <3>1, Zenon
        <4> QED BY <3>1, <4>1, Zenon DEF MeaningsUpTo
      <3>3. J(k)[k - 1] = J(k - 1)[k - 1]
        <4> DEFINE a == J(k)
                   b == J(k - 1)
                   m == k - 1
        <4>1. m \in Nat /\ MeaningsUpTo(a, heap, e, m) /\ MeaningsUpTo(b, heap, e, m)
          BY <3>1, <3>2
        <4> HIDE DEF a, b, m
        <4>2. a[m] = b[m]
          BY <4>1, MeaningsUnique
        <4> QED BY <4>2 DEF a, b, m
      <3>4. g[k - 1] = J(k - 1)[k - 1] /\ g[k] = J(k)[k]
        BY <3>1, Zenon
      <3> HIDE DEF g
      <3> QED BY <2>1, <2>3, <3>3, <3>4, Zenon DEF MeaningThen
    <2> QED BY <2>2, <2>3
  <1>3. g = F(g)
    <2>1. F(g) = [k \in Nat |-> g[k]]
      <3>1. \A k \in Nat : (IF k = 0 THEN NoMeanings(heap)
                            ELSE MeaningRow(heap, g[k - 1], e)) = g[k]
        BY <1>2, Zenon
      <3> HIDE DEF g
      <3> QED BY <3>1, Zenon
    <2>2. g = [k \in Nat |-> g[k]]
      OBVIOUS
    <2> QED BY <2>1, <2>2, Zenon
  <1> HIDE DEF g
  <1> DEFINE L == CHOOSE f : f = F(f)
  <1>4. L = F(L)
    BY <1>3, Zenon
  <1>5. Meanings(heap, e) = L
    BY DEF Meanings, NoMeanings, MeaningRow
  <1> HIDE DEF L
  <1>6. L[0] = NoMeanings(heap)
    BY <1>4
  <1>7. ASSUME NEW k \in Nat
        PROVE  L[k + 1] = MeaningRow(heap, L[k], e)
    <2>1. k + 1 \in Nat /\ k + 1 # 0 /\ (k + 1) - 1 = k
      OBVIOUS
    <2>2. L[k + 1] = IF k + 1 = 0 THEN NoMeanings(heap) ELSE MeaningRow(heap, L[(k + 1) - 1], e)
      BY <1>4, <2>1, Zenon
    <2> QED BY <2>1, <2>2, Zenon
  <1> QED BY <1>5, <1>6, <1>7

-------------------------------------------------------------------------------
(* At every depth what an array or a hash is packed as is read as what it      *)
(* means.                                                                      *)
AllStable(heap, e) == \A n \in DOMAIN heap : HeldObject(heap[n]) /\ Stable(heap[n], e)

LEMMA TablesRead ==
  ASSUME NEW heap, heap \in Seq(Objects(Len(heap))), NEW e \in SettingsSet,
         AllStable(heap, e), NEW C, XSTable(C, heap, e), NEW d \in Nat
  PROVE  ReferredRead(C[d], Meanings(heap, e)[d], Len(heap), d)
  <1> DEFINE N == Len(heap)
             D == 1 .. N
             M == Meanings(heap, e)
             S == {k \in Nat : ReferredRead(C[k], M[k], N, k)}
  <1>1. N \in Nat /\ DOMAIN heap = D /\ \A n \in D : heap[n] \in Objects(N)
    OBVIOUS
  <1>2. \A k \in Nat : M[k + 1] = MeaningRow(heap, M[k], e)
    BY MeaningsAre
  <1>3. /\ C \in [Nat -> [D -> Results]]
        /\ \A k \in Nat : \A n \in D : C[k + 1][n] = XSObject(heap[n], k, C[k], e)
    BY <1>1 DEF XSTable
  <1> HIDE DEF M, N, D
  <1>4. 0 \in S
    BY DEF ReferredRead
  <1>5. ASSUME NEW k \in Nat, k \in S
        PROVE  k + 1 \in S
    <2>1. ASSUME NEW n \in D
          PROVE  ReadsAs(C[k + 1][n], M[k + 1][n])
      <3> DEFINE o == heap[n]
                 sub == C[k]
                 mean == M[k]
      <3>1. o \in Objects(N) /\ HeldObject(o) /\ Stable(o, e)
        BY <1>1 DEF AllStable
      <3>2. sub \in [1 .. N -> Results] /\ ReferredRead(sub, mean, N, k) /\ k \in Int
        BY <1>3, <1>5 DEF D
      <3>3. C[k + 1][n] = XSObject(o, k, sub, e)
        BY <1>3
      <3>4. M[k + 1][n] = ObjectMeaning(o, mean, e)
        BY <1>1, <1>2 DEF MeaningRow
      <3> HIDE DEF o, sub, mean
      <3>5. ReadsAs(XSObject(o, k, sub, e), ObjectMeaning(o, mean, e))
        BY <1>1, <3>1, <3>2, ObjectReadAs
      <3> QED BY <3>3, <3>4, <3>5
    <2>2. ReferredRead(C[k + 1], M[k + 1], N, k + 1)
      BY <2>1 DEF ReferredRead, D
    <2> HIDE DEF ReferredRead
    <2> QED BY <2>2
  <1>6. Nat \subseteq S
    <2> HIDE DEF S
    <2> QED BY <1>4, <1>5, Induction
  <1>7. d \in S
    <2> HIDE DEF S
    <2> QED BY <1>6
  <1> QED BY <1>7 DEF M, N

(* What is read as m wherever it stands decodes to m, to the last byte.        *)
LEMMA DecodedAs ==
  ASSUME NEW b \in Seq(Byte), NEW m, Yields(b, m)
  PROVE  /\ Decode(b, FALSE).status = "ok" /\ Decode(b, FALSE).p = Len(b)
         /\ Decode(b, FALSE).val = m
  <1> DEFINE none == << >>
             r == Unpack(b, FALSE)[<<0, 0, 1>>]
  <1>1. none \in Seq(Byte) /\ b \o none = b
    OBVIOUS
  <1>2. ReadsRow(b \o none, <<m>> \o << >>, 0 + 1)
    BY <1>1, ReadsNothing, ReadsNext
  <1>3. ReadsRow(b, <<m>> \o << >>, 1)
    BY <1>1, <1>2
  <1>4. Stands(b, b, 0)
    BY BytesOf DEF Stands
  <1>5. PICK e \in Nat : r = Returned(<<m>> \o << >>, 0 + Len(b), e)
    BY <1>3, <1>4 DEF ReadsRow
  <1>6. (<<m>> \o << >>)[1] = m /\ 0 + Len(b) = Len(b)
    BY BytesOf
  <1> HIDE DEF r
  <1>7. r.status = "ok" /\ r.p = Len(b) /\ r.vals[1] = m
    BY <1>5, <1>6 DEF Returned
  <1> QED BY <1>7 DEF Decode, r

LEMMA HeldArgument ==
  ASSUME NEW c \in Arguments
  PROVE  c.val \in SVs(Len(c.heap)) /\ Held(c.val)
  <1>1. c.val \in SVs(Len(c.heap))
    BY ArgumentsType
  <1>2. c.val = Ref(1) \/ c.val \in Scalars
    BY DEF Arguments
  <1>3. Held(Ref(1))
    BY DEF Ref, Held, IsString
  <1> QED BY <1>1, <1>2, <1>3, HeldAssumption

(* The hashes of the argument are stable when the invariant's conditions hold. *)
LEMMA StableHeap ==
  ASSUME TypeOK, Steady, KeysApart
  PROVE  AllStable(call.heap, enc)
  <1> SUFFICES ASSUME NEW n \in DOMAIN call.heap
               PROVE  HeldObject(call.heap[n]) /\ Stable(call.heap[n], enc)
    BY DEF AllStable
  <1> DEFINE o == call.heap[n]
  <1>1. HeldObject(o)
    BY HeldHeap
  <1>2. ASSUME ~IsArray(o)
        PROVE  o.counted = Len(o.pairs) /\ Different(o.pairs, enc)
    <2>1. o \in Hashes
      BY <1>2 DEF Hashes
    <2>2. o \in Objects(Len(call.heap)) /\ Len(call.heap) \in Nat
      BY HeapType
    <2> HIDE DEF o
    <2>3. DOMAIN o.pairs = 1 .. Len(o.pairs)
      <3> DEFINE N == Len(call.heap)
                 T == Seq(Byte) \X SVs(N)
      <3> HIDE DEF N
      <3>1. o.pairs \in Seq(T)
        BY <1>2, <2>2, ObjectFields, Zenon DEF N
      <3> HIDE DEF T
      <3> QED BY <3>1
    <2>4. Different(o.pairs, enc)
      BY <2>1, <2>3 DEF KeysApart, Different, KeyMeant, KeyOfPair
    <2> QED BY <2>1, <2>4 DEF Steady
  <1> QED BY <1>1, <1>2 DEF Stable

(* What pack returns decodes, to the last byte, to the data it was given: for  *)
(* all data Perl can hold, of any size and depth, nested and shared in any     *)
(* way, with every setting.  Excepted are a tied hash that changed while it    *)
(* was packed, and two keys that prefer_integer makes the same number.         *)
THEOREM WholeRoundTrip == ClientSpec => []RoundTrip
  <1>1. TypeOK /\ ClientInv => RoundTrip
    <2> SUFFICES ASSUME TypeOK, Packs, result = "packed", Steady, KeysApart
                 PROVE  LET r == Decode(out, FALSE) IN
                        r.status = "ok" /\ r.p = Len(out) /\ r.val = Meaning
      BY DEF ClientInv, RoundTrip
    <2> DEFINE N == Len(call.heap)
               d == call.depth
               v == call.val
    <2>1. /\ call.heap \in Seq(Objects(N)) /\ N \in Nat /\ enc \in SettingsSet
          /\ d \in Int /\ out \in Seq(Byte)
      BY HeapType DEF TypeOK, SettingsSet
    <2>2. PICK C : XSTable(C, call.heap, enc)
      BY <2>1, XSTableExists
    <2>3. XSPackSV(v, d, At(C, d), enc) = PP_bytes(out)
      BY <2>2 DEF Packs, XSAt
    <2>4. v \in SVs(N) /\ Held(v)
      <3>1. CASE call \in Arguments
        BY <3>1, HeldArgument
      <3>2. CASE call = NoCall
        <4>1. v = Undef
          BY <3>2 DEF NoCall
        <4> QED BY <4>1 DEF Undef, SVs, Held, IsString
      <3> QED BY <3>1, <3>2 DEF TypeOK
    <2>5. d > 0
      <3>1. v # NoSV
        BY <2>1, <2>4, SVKind
      <3>2. ASSUME d <= 0
            PROVE  FALSE
        <4>1. PP_bytes(out) = PP_died("nesting")
          BY <2>3, <3>1, <3>2 DEF XSPackSV
        <4> QED BY <4>1 DEF PP_bytes, PP_died
      <3> QED BY <2>1, <3>2
    <2>6. d \in Nat /\ At(C, d) = C[d]
      BY <2>1, <2>5 DEF At
    <2> DEFINE M == Meanings(call.heap, enc)[d]
    <2>7. ReferredRead(C[d], M, N, d)
      BY <2>1, <2>2, <2>6, StableHeap, TablesRead
    <2>8. SVMeaning(v, M, enc) = Meaning
      BY DEF SVMeaning, Meaning
    <2> HIDE DEF N, d, v, M
    <2>9. ReadsAs(PP_bytes(out), Meaning)
      <3>1. ReadsAs(XSPackSV(v, d, C[d], enc), SVMeaning(v, M, enc))
        BY <2>1, <2>4, <2>7, SVReadAs
      <3> QED BY <2>3, <2>6, <2>8, <3>1
    <2>10. Yields(out, Meaning)
      BY <2>9, BytesFields DEF ReadsAs
    <2> QED BY <2>1, <2>10, DecodedAs
  <1> QED BY <1>1, ClientType, ClientInvariant, PTL

-------------------------------------------------------------------------------
(* The pure Perl packer.  Its headers are those of the templates, but for the  *)
(* sizes for which it takes the next longer one.                               *)
Formed(h, n) ==
  /\ <<h>> \o PP_C(n) = Buf2(h, n) /\ <<h>> \o PP_n(n) = Buf3(h, n)
  /\ <<h>> \o PP_N(n) = Buf5(h, n)

LEMMA PPForms ==
  ASSUME NEW n \in Nat, NEW h \in 196 .. 223
  PROVE  Formed(h, n)
  <1>1. h \in Byte /\ n \in Int
    BY DEF Byte
  <1> QED BY <1>1, SameForms DEF Formed

LEMMA PPHeaderIs ==
  ASSUME NEW n \in Nat
  PROVE  /\ PP_ArrayHeader(n) = IF n < 16 THEN <<144 + n>>
                                ELSE IF n < 65535 THEN Buf3(220, n) ELSE Buf5(221, n)
         /\ PP_MapHeader(n) = IF n < 16 THEN <<128 + n>>
                              ELSE IF n < 65535 THEN Buf3(222, n) ELSE Buf5(223, n)
         /\ PP_StrHeader(n) = IF n < 32 THEN <<160 + n>>
                              ELSE IF n < 255 THEN Buf2(217, n)
                              ELSE IF n < 65535 THEN Buf3(218, n) ELSE Buf5(219, n)
         /\ PP_BinHeader(n) = IF n < 255 THEN Buf2(196, n)
                              ELSE IF n < 65535 THEN Buf3(197, n) ELSE Buf5(198, n)
  <1>1. PP_ArrayHeader(n) = IF n < 16 THEN <<144 + n>>
                            ELSE IF n < 65535 THEN Buf3(220, n) ELSE Buf5(221, n)
    <2>1. Formed(220, n) /\ Formed(221, n)
      BY PPForms
    <2> DEFINE b == <<220>> \o PP_n(n)
               c == <<221>> \o PP_N(n)
               x == PP_C(144 + n)
    <2>2. b = Buf3(220, n) /\ c = Buf5(221, n)
      BY <2>1 DEF Formed
    <2>3. PP_ArrayHeader(n) = IF n < 16 THEN x
                              ELSE IF n < 65535 THEN b ELSE c
      BY DEF PP_ArrayHeader
    <2>4. n < 16 => x = <<144 + n>>
      <3>1. n < 16 => (144 + n) % 256 = 144 + n
        OBVIOUS
      <3> QED BY <3>1 DEF PP_C
    <2> HIDE DEF b, c, x
    <2> QED BY <2>2, <2>3, <2>4
  <1>2. PP_MapHeader(n) = IF n < 16 THEN <<128 + n>>
                          ELSE IF n < 65535 THEN Buf3(222, n) ELSE Buf5(223, n)
    <2>1. Formed(222, n) /\ Formed(223, n)
      BY PPForms
    <2> DEFINE b == <<222>> \o PP_n(n)
               c == <<223>> \o PP_N(n)
               x == PP_C(128 + n)
    <2>2. b = Buf3(222, n) /\ c = Buf5(223, n)
      BY <2>1 DEF Formed
    <2>3. PP_MapHeader(n) = IF n < 16 THEN x
                            ELSE IF n < 65535 THEN b ELSE c
      BY DEF PP_MapHeader
    <2>4. n < 16 => x = <<128 + n>>
      <3>1. n < 16 => (128 + n) % 256 = 128 + n
        OBVIOUS
      <3> QED BY <3>1 DEF PP_C
    <2> HIDE DEF b, c, x
    <2> QED BY <2>2, <2>3, <2>4
  <1>3. PP_StrHeader(n) = IF n < 32 THEN <<160 + n>>
                          ELSE IF n < 255 THEN Buf2(217, n)
                          ELSE IF n < 65535 THEN Buf3(218, n) ELSE Buf5(219, n)
    <2>1. Formed(217, n) /\ Formed(218, n) /\ Formed(219, n)
      BY PPForms
    <2> DEFINE a == <<217>> \o PP_C(n)
               b == <<218>> \o PP_n(n)
               c == <<219>> \o PP_N(n)
               x == PP_C(160 + n)
    <2>2. a = Buf2(217, n) /\ b = Buf3(218, n) /\ c = Buf5(219, n)
      BY <2>1 DEF Formed
    <2>3. PP_StrHeader(n) = IF n < 32 THEN x
                            ELSE IF n < 255 THEN a
                            ELSE IF n < 65535 THEN b ELSE c
      BY DEF PP_StrHeader
    <2>4. n < 32 => x = <<160 + n>>
      <3>1. n < 32 => (160 + n) % 256 = 160 + n
        OBVIOUS
      <3> QED BY <3>1 DEF PP_C
    <2> HIDE DEF a, b, c, x
    <2> QED BY <2>2, <2>3, <2>4
  <1>4. PP_BinHeader(n) = IF n < 255 THEN Buf2(196, n)
                          ELSE IF n < 65535 THEN Buf3(197, n) ELSE Buf5(198, n)
    <2>1. Formed(196, n) /\ Formed(197, n) /\ Formed(198, n)
      BY PPForms
    <2> DEFINE a == <<196>> \o PP_C(n)
               b == <<197>> \o PP_n(n)
               c == <<198>> \o PP_N(n)
    <2>2. a = Buf2(196, n) /\ b = Buf3(197, n) /\ c = Buf5(198, n)
      BY <2>1 DEF Formed
    <2>3. PP_BinHeader(n) = IF n < 255 THEN a
                            ELSE IF n < 65535 THEN b ELSE c
      BY DEF PP_BinHeader
    <2> HIDE DEF a, b, c
    <2> QED BY <2>2, <2>3
  <1> QED BY <1>1, <1>2, <1>3, <1>4

LEMMA PPHeaders ==
  ASSUME NEW n \in Nat
  PROVE  /\ n # 65535 => PP_ArrayHeader(n) = ArrayHeader(n) /\ PP_MapHeader(n) = MapHeader(n)
         /\ n \notin {255, 65535} =>
              PP_StrHeader(n) = StrHeader(n) /\ PP_BinHeader(n) = BinHeader(n)
  <1> DEFINE a == Buf3(220, n)
             b == Buf3(222, n)
             c == Buf3(218, n)
             d == Buf3(197, n)
             t == Buf2(217, n)
             u == Buf2(196, n)
  <1>1. /\ PP_ArrayHeader(n) = IF n < 16 THEN <<144 + n>>
                               ELSE IF n < 65535 THEN a ELSE Buf5(221, n)
        /\ PP_MapHeader(n) = IF n < 16 THEN <<128 + n>>
                             ELSE IF n < 65535 THEN b ELSE Buf5(223, n)
        /\ PP_StrHeader(n) = IF n < 32 THEN <<160 + n>> ELSE IF n < 255 THEN t
                             ELSE IF n < 65535 THEN c ELSE Buf5(219, n)
        /\ PP_BinHeader(n) = IF n < 255 THEN u ELSE IF n < 65535 THEN d ELSE Buf5(198, n)
    BY PPHeaderIs
  <1>2. /\ ArrayHeader(n) = IF n < 16 THEN <<144 + n>>
                            ELSE IF n < 65536 THEN a ELSE Buf5(221, n)
        /\ MapHeader(n) = IF n < 16 THEN <<128 + n>> ELSE IF n < 65536 THEN b ELSE Buf5(223, n)
        /\ StrHeader(n) = IF n < 32 THEN <<160 + n>> ELSE IF n < 256 THEN t
                          ELSE IF n < 65536 THEN c ELSE Buf5(219, n)
        /\ BinHeader(n) = IF n < 256 THEN u ELSE IF n < 65536 THEN d ELSE Buf5(198, n)
    BY DEF ArrayHeader, MapHeader, StrHeader, BinHeader
  <1> HIDE DEF a, b, c, d, t, u
  <1>3. (n # 65535 => (n < 65535 <=> n < 65536)) /\ (n # 255 => (n < 255 <=> n < 256))
    OBVIOUS
  <1> QED BY <1>1, <1>2, <1>3

(* The longer ones.                                                            *)
LEMMA PPLongHeaders ==
  ASSUME NEW n \in Nat
  PROVE  /\ n = 65535 => /\ PP_ArrayHeader(n) = Buf5(221, n) /\ PP_MapHeader(n) = Buf5(223, n)
                         /\ PP_StrHeader(n) = Buf5(219, n) /\ PP_BinHeader(n) = Buf5(198, n)
         /\ n = 255 => PP_StrHeader(n) = Buf3(218, n) /\ PP_BinHeader(n) = Buf3(197, n)
  <1>1. n = 65535 => ~(n < 16) /\ ~(n < 32) /\ ~(n < 255) /\ ~(n < 65535)
    OBVIOUS
  <1>2. n = 255 => ~(n < 32) /\ ~(n < 255) /\ n < 65535
    OBVIOUS
  <1> QED BY <1>1, <1>2, PPHeaderIs

LEMMA LongCounts ==
  ASSUME NEW n \in Nat, Is32Bit(n)
  PROVE  /\ \A h \in {218, 197} : n < 65536 => Counts(Buf3(h, n), n) /\ Buf3(h, n)[1] = h
         /\ \A h \in {198, 219, 221, 223} : Counts(Buf5(h, n), n) /\ Buf5(h, n)[1] = h
  <1>1. Shr24(n) \in 0 .. 255 /\ (n < 65536 => Shr8(n) \in 0 .. 255)
    BY SizeFits
  <1>2. ASSUME NEW h \in {218, 197}, n < 65536
        PROVE  Counts(Buf3(h, n), n) /\ Buf3(h, n)[1] = h
    <2>1. h \in {197, 218, 220, 222} /\ h \in Byte
      BY DEF Byte
    <2>2. \A s \in Seq(Byte), p \in Nat : Stands(Buf3(h, n), s, p) => SizeRead(Buf3(h, n), n, s, p)
      BY <1>1, <1>2, <2>1, Size2
    <2>3. Buf3(h, n) \in Seq(Byte)
      BY <2>1, DigitsAreBytes
    <2> QED BY <2>2, <2>3 DEF Counts, Buf3
  <1>3. ASSUME NEW h \in {198, 219, 221, 223}
        PROVE  Counts(Buf5(h, n), n) /\ Buf5(h, n)[1] = h
    <2>1. h \in Byte
      BY DEF Byte
    <2>2. \A s \in Seq(Byte), p \in Nat : Stands(Buf5(h, n), s, p) => SizeRead(Buf5(h, n), n, s, p)
      BY <1>1, <1>3, Size4
    <2>3. Buf5(h, n) \in Seq(Byte)
      BY <2>1, DigitsAreBytes
    <2> QED BY <2>2, <2>3 DEF Counts, Buf5
  <1> QED BY <1>2, <1>3

(* Whichever it takes, the decoder reads the size from it.                     *)
LEMMA PPHeadersCount ==
  ASSUME NEW n \in Nat, Is32Bit(n)
  PROVE  /\ Counts(PP_ArrayHeader(n), n) /\ T_ARRAY(PP_ArrayHeader(n)[1])
         /\ Counts(PP_MapHeader(n), n) /\ T_MAP(PP_MapHeader(n)[1])
         /\ Counts(PP_StrHeader(n), n) /\ T_STR(PP_StrHeader(n)[1])
         /\ Counts(PP_BinHeader(n), n) /\ T_BIN(PP_BinHeader(n)[1])
  <1>1. T_ARRAY(221) /\ T_MAP(223) /\ T_STR(218) /\ T_STR(219) /\ T_BIN(197) /\ T_BIN(198)
    BY DEF T_ARRAY, T_MAP, T_STR, T_BIN
  <1>2. CASE n = 65535
    <2>1. \A h \in {198, 219, 221, 223} : Counts(Buf5(h, n), n) /\ Buf5(h, n)[1] = h
      BY LongCounts
    <2>2. /\ PP_ArrayHeader(n) = Buf5(221, n) /\ PP_MapHeader(n) = Buf5(223, n)
          /\ PP_StrHeader(n) = Buf5(219, n) /\ PP_BinHeader(n) = Buf5(198, n)
      BY <1>2, PPLongHeaders
    <2> QED BY <1>1, <2>1, <2>2
  <1>3. CASE n = 255
    <2>1. \A h \in {218, 197} : Counts(Buf3(h, n), n) /\ Buf3(h, n)[1] = h
      <3>1. n < 65536
        BY <1>3
      <3> QED BY <3>1, LongCounts
    <2>2. PP_StrHeader(n) = Buf3(218, n) /\ PP_BinHeader(n) = Buf3(197, n)
      BY <1>3, PPLongHeaders
    <2>3. PP_ArrayHeader(n) = ArrayHeader(n) /\ PP_MapHeader(n) = MapHeader(n)
      BY <1>3, PPHeaders
    <2> QED BY <1>1, <2>1, <2>2, <2>3, HeadersCount
  <1>4. CASE n \notin {255, 65535}
    <2>1. /\ PP_ArrayHeader(n) = ArrayHeader(n) /\ PP_MapHeader(n) = MapHeader(n)
          /\ PP_StrHeader(n) = StrHeader(n) /\ PP_BinHeader(n) = BinHeader(n)
      BY <1>4, PPHeaders
    <2> QED BY <2>1, HeadersCount
  <1> QED BY <1>2, <1>3, <1>4

LEMMA PPHeaderBytes ==
  ASSUME NEW n \in Nat
  PROVE  /\ PP_ArrayHeader(n) \in Seq(Byte) /\ PP_MapHeader(n) \in Seq(Byte)
         /\ PP_StrHeader(n) \in Seq(Byte) /\ PP_BinHeader(n) \in Seq(Byte)
  <1>1. /\ Buf5(221, n) \in Seq(Byte) /\ Buf5(223, n) \in Seq(Byte) /\ Buf5(219, n) \in Seq(Byte)
        /\ Buf5(198, n) \in Seq(Byte) /\ Buf3(218, n) \in Seq(Byte) /\ Buf3(197, n) \in Seq(Byte)
    <2>1. 196 .. 223 \subseteq Byte
      BY DEF Byte
    <2>2. \A h \in Byte : Buf5(h, n) \in Seq(Byte) /\ Buf3(h, n) \in Seq(Byte)
      BY DigitsAreBytes
    <2> QED BY <2>1, <2>2
  <1>2. /\ ArrayHeader(n) \in Seq(Byte) /\ MapHeader(n) \in Seq(Byte)
        /\ StrHeader(n) \in Seq(Byte) /\ BinHeader(n) \in Seq(Byte)
    BY HeaderBytes
  <1> QED BY <1>1, <1>2, PPHeaders, PPLongHeaders

(* A string that both take for an integer is the same integer to both.         *)
LEMMA SameStringInt ==
  ASSUME NEW s \in Seq(Byte), IsInt(s)
  PROVE  Denoted(PP_Unsigned(Chomped(s)), IF Negated(s) THEN -1 ELSE 1) = StringInt(s)
  <1>1. AllDigits(DigitsOf(s))
    BY DEF IsInt
  <1>2. s # << >> /\ Last(s) # 10
    <2>1. CASE Minus(s)
      <3>1. Tail(s) # << >> /\ \A i \in DOMAIN Tail(s) : Tail(s)[i] \in 48 .. 57
        BY <1>1, <2>1 DEF DigitsOf, AllDigits
      <3>2. Len(s) \in Nat /\ s # << >> /\ Len(s) >= 2
        BY <3>1
      <3>3. Len(s) - 1 \in DOMAIN Tail(s) /\ Tail(s)[Len(s) - 1] = s[Len(s)]
        BY <3>2
      <3>4. s[Len(s)] \in 48 .. 57
        BY <3>1, <3>3
      <3>5. s[Len(s)] # 10
        BY <3>4
      <3> QED BY <3>2, <3>5 DEF Last
    <2>2. CASE ~Minus(s)
      <3>1. s # << >> /\ \A i \in DOMAIN s : s[i] \in 48 .. 57
        BY <1>1, <2>2 DEF DigitsOf, AllDigits
      <3>2. Len(s) \in DOMAIN s
        BY <3>1
      <3>3. s[Len(s)] # 10
        BY <3>1, <3>2
      <3> QED BY <3>1, <3>3 DEF Last
    <2> QED BY <2>1, <2>2
  <1>3. Chomped(s) = s
    BY <1>2 DEF Chomped
  <1> QED BY <1>3 DEF PP_Unsigned, Negated, Minus, DigitsOf, StringInt

-------------------------------------------------------------------------------
(* How far the results of the two packers agree.  The rules u say of the bytes *)
(* whether they are the same, are read as the same values, or may differ; and  *)
(* whether the pure Perl packer may find more levels than XS.                  *)
Rules == [alike : {"bytes", "values", "nothing"}, nesting : {"more", "same"}]

AlikeOne(u, b, c) ==
  /\ u.alike = "bytes" => b = c
  /\ u.alike = "values" => \E m : Yields(b, m) /\ Yields(c, m)

AlikeRow(u, b, c, n) ==
  /\ u.alike = "bytes" => b = c
  /\ u.alike = "values" => \E vals : ReadsRow(b, vals, n) /\ ReadsRow(c, vals, n)

MoreLevels(u, q) == u.nesting = "more" /\ q.status = "nesting"

Agree(u, r, q) ==
  \/ MoreLevels(u, q)
  \/ r.status = q.status /\ (r.status = "packed" => AlikeOne(u, r.bytes, q.bytes))

AgreeRow(u, r, q, n) ==
  \/ MoreLevels(u, q)
  \/ r.status = q.status /\ (r.status = "packed" => AlikeRow(u, r.bytes, q.bytes, n))

LEMMA AlikeNext ==
  ASSUME NEW u, NEW b \in Seq(Byte), NEW c \in Seq(Byte), AlikeOne(u, b, c),
         NEW x \in Seq(Byte), NEW y \in Seq(Byte), NEW n \in Nat, AlikeRow(u, x, y, n)
  PROVE  AlikeRow(u, b \o x, c \o y, n + 1)
  <1>1. ASSUME u.alike = "values"
        PROVE  \E vals : ReadsRow(b \o x, vals, n + 1) /\ ReadsRow(c \o y, vals, n + 1)
    <2>1. PICK m : Yields(b, m) /\ Yields(c, m)
      BY <1>1 DEF AlikeOne
    <2>2. PICK vals : ReadsRow(x, vals, n) /\ ReadsRow(y, vals, n)
      BY <1>1 DEF AlikeRow
    <2> DEFINE all == <<m>> \o vals
    <2>3. ReadsRow(b \o x, all, n + 1)
      BY <2>1, <2>2, ReadsNext
    <2>4. ReadsRow(c \o y, all, n + 1)
      BY <2>1, <2>2, ReadsNext
    <2> HIDE DEF all
    <2> QED BY <2>3, <2>4
  <1>2. u.alike = "bytes" => b = c /\ x = y
    BY DEF AlikeOne, AlikeRow
  <1> QED BY <1>1, <1>2 DEF AlikeRow

LEMMA AgreeNothing ==
  ASSUME NEW u
  PROVE  AgreeRow(u, Nothing, Nothing, 0)
  BY ReadsNothing, BytesFields DEF AgreeRow, AlikeRow, Nothing

(* The first of the rest.                                                      *)
LEMMA AgreeThen ==
  ASSUME NEW u, NEW r \in Results, NEW q \in Results, Agree(u, r, q),
         NEW x \in Results, NEW y \in Results, NEW n \in Nat, AgreeRow(u, x, y, n)
  PROVE  AgreeRow(u, Then(r, x), Then(q, y), n + 1)
  <1>1. CASE q.status # "packed"
    <2>1. Then(q, y) = q
      BY <1>1, ThenDead
    <2>2. CASE MoreLevels(u, q)
      BY <2>1, <2>2 DEF AgreeRow
    <2>3. CASE ~MoreLevels(u, q)
      <3>1. r.status = q.status
        BY <2>3 DEF Agree
      <3>2. Then(r, x) = r
        BY <1>1, <3>1, ThenDead
      <3> QED BY <1>1, <2>1, <3>1, <3>2 DEF AgreeRow
    <2> QED BY <2>2, <2>3
  <1>2. CASE q.status = "packed"
    <2>1. r.status = "packed" /\ AlikeOne(u, r.bytes, q.bytes)
      BY <1>2 DEF Agree, MoreLevels
    <2>2. r = PP_bytes(r.bytes) /\ q = PP_bytes(q.bytes)
      BY <1>2, <2>1, ResultFields
    <2>3. CASE y.status # "packed"
      <3>1. Then(q, y) = y
        BY <2>2, <2>3, ThenDead
      <3>2. CASE MoreLevels(u, y)
        BY <3>1, <3>2 DEF AgreeRow
      <3>3. CASE ~MoreLevels(u, y)
        <4>1. x.status = y.status
          BY <3>3 DEF AgreeRow
        <4>2. Then(r, x) = x
          BY <2>2, <2>3, <4>1, ThenDead
        <4> QED BY <2>3, <3>1, <4>1, <4>2 DEF AgreeRow
      <3> QED BY <3>2, <3>3
    <2>4. CASE y.status = "packed"
      <3>1. x.status = "packed" /\ AlikeRow(u, x.bytes, y.bytes, n)
        BY <2>4 DEF AgreeRow, MoreLevels
      <3> DEFINE b == r.bytes
                 c == q.bytes
                 s == x.bytes
                 t == y.bytes
      <3>2. x = PP_bytes(s) /\ y = PP_bytes(t) /\ r = PP_bytes(b) /\ q = PP_bytes(c)
        BY <2>2, <2>4, <3>1, ResultFields
      <3>3. b \in Seq(Byte) /\ c \in Seq(Byte) /\ s \in Seq(Byte) /\ t \in Seq(Byte)
        BY ResultFields
      <3>4. AlikeOne(u, b, c) /\ AlikeRow(u, s, t, n)
        BY <2>1, <3>1
      <3> HIDE DEF b, c, s, t
      <3>5. Then(r, x) = PP_bytes(b \o s) /\ Then(q, y) = PP_bytes(c \o t)
        BY <3>2, ThenPacked
      <3>6. AlikeRow(u, b \o s, c \o t, n + 1)
        BY <3>3, <3>4, AlikeNext
      <3> QED BY <3>5, <3>6, BytesFields DEF AgreeRow
    <2> QED BY <2>3, <2>4
  <1> QED BY <1>1, <1>2

(* What two packed items, or pairs, put before rows that agree.                *)
AgreeBefore(u, r, q, m, n) ==
  \A x, y \in Results : AgreeRow(u, x, y, n) => AgreeRow(u, Then(r, x), Then(q, y), m)

LEMMA OneAgrees ==
  ASSUME NEW u, NEW r \in Results, NEW q \in Results, Agree(u, r, q), NEW n \in Nat
  PROVE  AgreeBefore(u, r, q, n + 1, n)
  BY AgreeThen DEF AgreeBefore

LEMMA TwoAgree ==
  ASSUME NEW u, NEW r \in Results, NEW q \in Results, Agree(u, r, q),
         NEW v \in Results, NEW w \in Results, Agree(u, v, w), NEW n \in Nat
  PROVE  AgreeBefore(u, Then(r, v), Then(q, w), (n + 1) + 1, n)
  <1> SUFFICES ASSUME NEW x \in Results, NEW y \in Results, AgreeRow(u, x, y, n)
               PROVE  AgreeRow(u, Then(Then(r, v), x), Then(Then(q, w), y), (n + 1) + 1)
    BY DEF AgreeBefore
  <1>1. AgreeRow(u, Then(v, x), Then(w, y), n + 1)
    BY AgreeThen
  <1>2. Then(v, x) \in Results /\ Then(w, y) \in Results
    BY ThenType
  <1>3. n + 1 \in Nat
    OBVIOUS
  <1>4. AgreeRow(u, Then(r, Then(v, x)), Then(q, Then(w, y)), (n + 1) + 1)
    BY <1>1, <1>2, <1>3, AgreeThen
  <1> QED BY <1>4, ThenThen

AgreeAll(u, rs, qs, K) ==
  /\ K[Len(rs) + 1] = 0
  /\ \A i \in 1 .. Len(rs) : AgreeBefore(u, rs[i], qs[i], K[i], K[i + 1])

LEMMA RestsAgree ==
  ASSUME NEW u, NEW rs \in Seq(Results), NEW qs \in Seq(Results), Len(rs) = Len(qs),
         NEW R, Rests(R, rs), NEW Q, Rests(Q, qs), NEW K, AgreeAll(u, rs, qs, K)
  PROVE  AgreeRow(u, R[1], Q[1], K[1])
  <1> DEFINE n == Len(rs)
             S == {j \in Nat : j <= n => AgreeRow(u, R[n + 1 - j], Q[n + 1 - j], K[n + 1 - j])}
  <1>1. n \in Nat
    OBVIOUS
  <1>2. 0 \in S
    <2>1. R[n + 1] = Nothing /\ Q[n + 1] = Nothing /\ K[n + 1] = 0
      BY DEF Rests, AgreeAll
    <2>2. AgreeRow(u, R[n + 1], Q[n + 1], K[n + 1])
      BY <2>1, AgreeNothing
    <2>3. n + 1 - 0 = n + 1
      BY <1>1
    <2> QED BY <2>2, <2>3
  <1>3. ASSUME NEW j \in Nat, j \in S
        PROVE  j + 1 \in S
    <2>1. ASSUME j + 1 <= n
          PROVE  AgreeRow(u, R[n + 1 - (j + 1)], Q[n + 1 - (j + 1)], K[n + 1 - (j + 1)])
      <3> DEFINE i == n - j
      <3>1. i \in 1 .. n /\ n + 1 - (j + 1) = i /\ i + 1 = n + 1 - j /\ i + 1 \in 1 .. n + 1
        BY <1>1, <2>1
      <3>2. AgreeRow(u, R[i + 1], Q[i + 1], K[i + 1])
        BY <1>3, <1>1, <2>1, <3>1
      <3> HIDE DEF i
      <3>3. /\ R[i] = Then(rs[i], R[i + 1]) /\ R[i + 1] \in Results
            /\ Q[i] = Then(qs[i], Q[i + 1]) /\ Q[i + 1] \in Results
            /\ AgreeBefore(u, rs[i], qs[i], K[i], K[i + 1])
        BY <3>1 DEF Rests, AgreeAll
      <3>4. AgreeRow(u, R[i], Q[i], K[i])
        BY <3>2, <3>3 DEF AgreeBefore
      <3> QED BY <3>1, <3>4
    <2> HIDE DEF n
    <2> QED BY <2>1
  <1>4. Nat \subseteq S
    <2> HIDE DEF S
    <2> QED BY <1>2, <1>3, Induction
  <1>5. n \in S /\ n + 1 - n = 1
    BY <1>1, <1>4
  <1> QED BY <1>1, <1>5

(* An array or hash: a header before a row.                                    *)
HeadersAlike(u, h, g, n) ==
  /\ h \in Seq(Byte) /\ g \in Seq(Byte)
  /\ u.alike = "bytes" => h = g
  /\ u.alike = "values" =>
       \A b, c \in Seq(Byte) : \A vals :
         ReadsRow(b, vals, n) /\ ReadsRow(c, vals, n) =>
           \E m : Yields(h \o b, m) /\ Yields(g \o c, m)

LEMMA AgreeHeaded ==
  ASSUME NEW u, NEW h, NEW g, NEW n, HeadersAlike(u, h, g, n),
         NEW r \in Results, NEW q \in Results, AgreeRow(u, r, q, n)
  PROVE  Agree(u, Then(PP_bytes(h), r), Then(PP_bytes(g), q))
  <1>1. CASE q.status # "packed"
    <2>1. Then(PP_bytes(g), q) = q
      BY <1>1, ThenDead
    <2>2. CASE MoreLevels(u, q)
      BY <2>1, <2>2 DEF Agree
    <2>3. CASE ~MoreLevels(u, q)
      <3>1. r.status = q.status
        BY <2>3 DEF AgreeRow
      <3>2. Then(PP_bytes(h), r) = r
        BY <1>1, <3>1, ThenDead
      <3> QED BY <1>1, <2>1, <3>1, <3>2 DEF Agree
    <2> QED BY <2>2, <2>3
  <1>2. CASE q.status = "packed"
    <2> DEFINE b == r.bytes
               c == q.bytes
    <2>1. r.status = "packed" /\ AlikeRow(u, b, c, n)
      BY <1>2 DEF AgreeRow, MoreLevels
    <2>2. r = PP_bytes(b) /\ q = PP_bytes(c) /\ b \in Seq(Byte) /\ c \in Seq(Byte)
      BY <1>2, <2>1, ResultFields
    <2> HIDE DEF b, c
    <2>3. Then(PP_bytes(h), r) = PP_bytes(h \o b) /\ Then(PP_bytes(g), q) = PP_bytes(g \o c)
      BY <2>2, ThenPacked
    <2>4. AlikeOne(u, h \o b, g \o c)
      <3>1. u.alike = "bytes" => h = g /\ b = c
        BY <2>1 DEF HeadersAlike, AlikeRow
      <3>2. ASSUME u.alike = "values"
            PROVE  \E m : Yields(h \o b, m) /\ Yields(g \o c, m)
        <4>1. PICK vals : ReadsRow(b, vals, n) /\ ReadsRow(c, vals, n)
          BY <2>1, <3>2 DEF AlikeRow
        <4> QED BY <2>2, <3>2, <4>1 DEF HeadersAlike
      <3> QED BY <3>1, <3>2 DEF AlikeOne
    <2> QED BY <2>3, <2>4, BytesFields DEF Agree
  <1> QED BY <1>1, <1>2

-------------------------------------------------------------------------------
(* The properties of the object, to the pure Perl packer.                      *)
PPSelf(e) == [prefer_integer |-> e.prefer_int, canonical |-> e.canonical, utf8 |-> e.utf8]

(* What a string or another SV must be for the packers to agree on it by the   *)
(* rules u.                                                                    *)
LongSizes == {255, 65535}
SameSize(u, n) == u.alike = "bytes" => n \notin LongSizes

StringFits(u, s, e) ==
  /\ e.prefer_int => (IsInt(s) <=> PP_IsInt(s))
  /\ e.prefer_int /\ IsInt(s) => u.nesting = "more"
  /\ SizeHeld(Len(s)) /\ SameSize(u, Len(s))

SVFits(u, v, e) ==
  /\ v = NoSV => u.nesting = "more"
  /\ v # NoSV =>
       /\ Held(v) /\ "scalar" \notin DOMAIN v
       /\ IsString(v) => StringFits(u, v.pv, e)

LEMMA SameBytes ==
  ASSUME NEW u, NEW b, NEW m, ReadsAs(PP_bytes(b), m)
  PROVE  Agree(u, PP_bytes(b), PP_bytes(b))
  <1>1. Yields(b, m)
    BY BytesFields DEF ReadsAs
  <1> QED BY <1>1, BytesFields DEF Agree, AlikeOne

LEMMA AlikeBytes ==
  ASSUME NEW u, NEW b, NEW c, NEW m, u.alike = "bytes" => b = c, Yields(b, m), Yields(c, m)
  PROVE  Agree(u, PP_bytes(b), PP_bytes(c))
  BY BytesFields DEF Agree, AlikeOne

(* Text and bytes, behind their headers.                                       *)
LEMMA StrHeadersAlike ==
  ASSUME NEW u, NEW n \in Nat, SameSize(u, n)
  PROVE  u.alike = "bytes" =>
           PP_StrHeader(n) = StrHeader(n) /\ PP_BinHeader(n) = BinHeader(n)
  BY PPHeaders DEF SameSize, LongSizes

TextAlike(u, h, g, s) == Agree(u, PP_bytes(h \o s), PP_bytes(g \o s))

LEMMA AgreeHeadedText ==
  ASSUME NEW u, NEW s, NEW h, NEW g, u.alike = "bytes" => g = h,
         NEW m, Yields(h \o s, m), Yields(g \o s, m)
  PROVE  TextAlike(u, h, g, s)
  <1> DEFINE b == h \o s
             c == g \o s
  <1>1. u.alike = "bytes" => b = c
    OBVIOUS
  <1>2. Yields(b, m) /\ Yields(c, m)
    OBVIOUS
  <1> HIDE DEF b, c
  <1>3. Agree(u, PP_bytes(b), PP_bytes(c))
    BY <1>1, <1>2, AlikeBytes
  <1> QED BY <1>3 DEF TextAlike, b, c

LEMMA AgreeText ==
  ASSUME NEW u, NEW s \in Seq(Byte), NEW n, n = Len(s), SizeHeld(n), SameSize(u, n)
  PROVE  /\ TextAlike(u, StrHeader(n), PP_StrHeader(n), s)
         /\ TextAlike(u, BinHeader(n), PP_BinHeader(n), s)
  <1> DEFINE a == StrHeader(n)
             b == PP_StrHeader(n)
             c == BinHeader(n)
             d == PP_BinHeader(n)
             p == Str(s, TRUE)
             q == Str(s, FALSE)
  <1>1. n \in Nat /\ Is32Bit(n)
    BY HeldSize
  <1>2. /\ Counts(a, n) /\ T_STR(a[1]) /\ Counts(c, n) /\ T_BIN(c[1])
        /\ Counts(b, n) /\ T_STR(b[1]) /\ Counts(d, n) /\ T_BIN(d[1])
    BY <1>1, PPHeadersCount, HeadersCount
  <1>3. u.alike = "bytes" => b = a /\ d = c
    BY <1>1, StrHeadersAlike
  <1> HIDE DEF a, b, c, d
  <1>4. Yields(a \o s, p) /\ Yields(b \o s, p)
    BY <1>2, ReadsCounted
  <1>5. Yields(c \o s, q) /\ Yields(d \o s, q)
    BY <1>2, ReadsCounted
  <1> HIDE DEF p, q
  <1>6. TextAlike(u, a, b, s) /\ TextAlike(u, c, d, s)
    BY <1>3, <1>4, <1>5, AgreeHeadedText
  <1> QED BY <1>6 DEF a, b, c, d

LEMMA PPStringIs ==
  ASSUME NEW s, NEW d, NEW e \in SettingsSet
  PROVE  /\ ~(e.prefer_int /\ PP_IsInt(s)) /\ e.utf8 =>
              PP_String(s, d, e.prefer_int, e.utf8) = PP_bytes(PP_StrHeader(Len(s)) \o s)
         /\ ~(e.prefer_int /\ PP_IsInt(s)) /\ ~e.utf8 =>
              PP_String(s, d, e.prefer_int, e.utf8) = PP_bytes(PP_BinHeader(Len(s)) \o s)
         /\ e.prefer_int /\ PP_IsInt(s) =>
              PP_String(s, d, e.prefer_int, e.utf8) =
                IF d < 2 THEN PP_died("nesting")
                ELSE PP_bytes(PP_Integer(Denoted(PP_Unsigned(Chomped(s)),
                                                 IF Negated(s) THEN -1 ELSE 1)))
  BY Zenon DEF PP_String

LEMMA AgreeString ==
  ASSUME NEW u, NEW s \in Seq(Byte), NEW d \in Int, NEW e \in SettingsSet,
         StringFits(u, s, e)
  PROVE  Agree(u, PP_bytes(XSString(s, e)), PP_String(s, d, e.prefer_int, e.utf8))
  <1>1. CASE e.prefer_int /\ IsInt(s)
    <2>1. PP_IsInt(s) /\ u.nesting = "more"
      BY <1>1 DEF StringFits
    <2> DEFINE i == StringInt(s)
               q == PP_String(s, d, e.prefer_int, e.utf8)
    <2>2. i \in Int /\ Is64Bit(i)
      BY <1>1, StringIntType, StringIntHeld
    <2>3. XSString(s, e) = Integer(i)
      BY <1>1 DEF XSString
    <2>4. Denoted(PP_Unsigned(Chomped(s)), IF Negated(s) THEN -1 ELSE 1) = i
      BY <1>1, SameStringInt
    <2>5. q = IF d < 2 THEN PP_died("nesting") ELSE PP_bytes(PP_Integer(i))
      BY <1>1, <2>1, <2>4, PPStringIs
    <2> HIDE DEF i, q
    <2>6. CASE d < 2
      <3>1. q.status = "nesting"
        BY <2>5, <2>6, DiedFields
      <3> QED BY <2>1, <3>1 DEF Agree, MoreLevels, q
    <2>7. CASE ~(d < 2)
      <3>1. q = PP_bytes(Integer(i))
        BY <2>2, <2>5, <2>7, SameIntegers
      <3>2. Yields(Integer(i), IntValue(i))
        BY <2>2, ReadsInteger
      <3>3. Agree(u, PP_bytes(Integer(i)), PP_bytes(Integer(i)))
        BY <3>2, AlikeBytes
      <3> QED BY <2>3, <3>1, <3>3 DEF q
    <2> QED BY <2>6, <2>7
  <1>2. CASE ~(e.prefer_int /\ IsInt(s))
    <2>1. ~(e.prefer_int /\ PP_IsInt(s))
      BY <1>2 DEF StringFits
    <2>2. /\ TextAlike(u, StrHeader(Len(s)), PP_StrHeader(Len(s)), s)
          /\ TextAlike(u, BinHeader(Len(s)), PP_BinHeader(Len(s)), s)
      BY AgreeText DEF StringFits
    <2>3. CASE e.utf8
      <3>1. XSString(s, e) = StrHeader(Len(s)) \o s
        BY <1>2, <2>3 DEF XSString
      <3>2. PP_String(s, d, e.prefer_int, e.utf8) = PP_bytes(PP_StrHeader(Len(s)) \o s)
        BY <2>1, <2>3, PPStringIs
      <3> QED BY <2>2, <3>1, <3>2, Zenon DEF TextAlike
    <2>4. CASE ~e.utf8
      <3>1. XSString(s, e) = BinHeader(Len(s)) \o s
        BY <1>2, <2>4 DEF XSString
      <3>2. PP_String(s, d, e.prefer_int, e.utf8) = PP_bytes(PP_BinHeader(Len(s)) \o s)
        BY <2>1, <2>4, PPStringIs
      <3> QED BY <2>2, <3>1, <3>2, Zenon DEF TextAlike
    <2> QED BY <2>3, <2>4
  <1> QED BY <1>1, <1>2

-------------------------------------------------------------------------------
LEMMA FixedAgree ==
  ASSUME NEW u
  PROVE  /\ Agree(u, PP_bytes(Nil), PP_bytes(<<192>>))
         /\ Agree(u, PP_bytes(True), PP_bytes(<<195>>))
         /\ Agree(u, PP_bytes(False), PP_bytes(<<194>>))
  <1>1. Nil = <<192>> /\ True = <<195>> /\ False = <<194>>
    BY DEF Nil, True, False
  <1>2. ReadsAs(PP_bytes(Nil), Undef)
    BY FixedReadAs
  <1> DEFINE yes == Bool(TRUE)
             no == Bool(FALSE)
  <1>3. ReadsAs(PP_bytes(True), yes) /\ ReadsAs(PP_bytes(False), no)
    BY FixedReadAs
  <1> HIDE DEF yes, no
  <1>4. /\ Agree(u, PP_bytes(Nil), PP_bytes(Nil)) /\ Agree(u, PP_bytes(True), PP_bytes(True))
        /\ Agree(u, PP_bytes(False), PP_bytes(False))
    BY <1>2, <1>3, SameBytes
  <1> QED BY <1>1, <1>4

LEMMA SameDeath ==
  ASSUME NEW u, NEW why, why # "packed"
  PROVE  Agree(u, PP_died(why), PP_died(why))
  BY DiedFields DEF Agree

LEMMA PPSelfFields ==
  ASSUME NEW e
  PROVE  /\ PPSelf(e).prefer_integer = e.prefer_int /\ PPSelf(e).canonical = e.canonical
         /\ PPSelf(e).utf8 = e.utf8
  BY DEF PPSelf

LEMMA AgreeScalar ==
  ASSUME NEW u, NEW N \in Nat, NEW v \in SVs(N), ~IsRef(v), NEW e \in SettingsSet,
         SVFits(u, v, e), NEW d \in Int
  PROVE  Agree(u, XSScalar(v, e), PP_Scalar(v, d, PPSelf(e)))
  <1>0. v # NoSV /\ Held(v) /\ "scalar" \notin DOMAIN v
    BY SVKind DEF SVFits
  <1>1. CASE v = Undef
    <2>1. DOMAIN v = {"undef", "svs"}
      BY <1>1 DEF Undef
    <2>2. XSScalar(v, e) = PP_bytes(Nil) /\ PP_Scalar(v, d, PPSelf(e)) = PP_bytes(<<192>>)
      BY <1>0, <2>1 DEF XSScalar, PP_Scalar, IsString
    <2> QED BY <2>2, FixedAgree
  <1>2. CASE DOMAIN v = {"bool", "svs"} /\ v.bool \in BOOLEAN /\ v = Bool(v.bool)
    <2>2. CASE v.bool = TRUE
      <3>1. XSScalar(v, e) = PP_bytes(True) /\ PP_Scalar(v, d, PPSelf(e)) = PP_bytes(<<195>>)
        BY <1>0, <1>2, <2>2 DEF XSScalar, PP_Scalar, IsString
      <3> QED BY <3>1, FixedAgree
    <2>3. CASE v.bool = FALSE
      <3>1. XSScalar(v, e) = PP_bytes(False) /\ PP_Scalar(v, d, PPSelf(e)) = PP_bytes(<<194>>)
        BY <1>0, <1>2, <2>3 DEF XSScalar, PP_Scalar, IsString
      <3> QED BY <3>1, FixedAgree
    <2> QED BY <1>2, <2>2, <2>3
  <1>3. CASE DOMAIN v = {"iv", "svs"} /\ v.iv \in Int /\ v = IntValue(v.iv)
    <2> DEFINE i == v.iv
    <2>1. i \in Int /\ Is64Bit(i)
      BY <1>0, <1>3, HeldNumber DEF Held
    <2>2. XSScalar(v, e) = PP_bytes(Integer(i))
      BY <1>0, <1>3 DEF XSScalar, IsString
    <2>3. PP_Scalar(v, d, PPSelf(e)) = PP_bytes(PP_Integer(i))
      BY <1>0, <1>3 DEF PP_Scalar, IsString
    <2> HIDE DEF i
    <2>4. PP_Integer(i) = Integer(i)
      BY <2>1, SameIntegers
    <2>5. Yields(Integer(i), IntValue(i))
      BY <2>1, ReadsInteger
    <2>6. Agree(u, PP_bytes(Integer(i)), PP_bytes(Integer(i)))
      BY <2>5, AlikeBytes
    <2> QED BY <2>2, <2>3, <2>4, <2>6
  <1>4. CASE DOMAIN v = {"nv", "svs"} /\ v.nv \in Seq(Byte) /\ v = Float(v.nv)
    <2> DEFINE n == v.nv
    <2>1. XSScalar(v, e) = PP_bytes(Double(n))
      BY <1>0, <1>4 DEF XSScalar, IsString
    <2>2. PP_Scalar(v, d, PPSelf(e)) = PP_bytes(<<203>> \o n)
      BY <1>0, <1>4 DEF PP_Scalar, IsString
    <2>3. n \in Seq(Byte) /\ Len(n) = 8
      BY <1>0, <1>4 DEF Held
    <2> HIDE DEF n
    <2>4. Double(n) = <<203>> \o n
      BY DEF Double
    <2>5. Yields(Double(n), Float(n))
      BY <2>3, ReadsFloat
    <2>6. Agree(u, PP_bytes(Double(n)), PP_bytes(Double(n)))
      BY <2>5, AlikeBytes
    <2> QED BY <2>1, <2>2, <2>4, <2>6
  <1>5. CASE DOMAIN v = {"pv", "text", "svs"} /\ v.pv \in Seq(Byte)
    <2> DEFINE s == v.pv
    <2>1. XSScalar(v, e) = PP_bytes(XSString(s, e))
      BY <1>0, <1>5 DEF XSScalar, IsString
    <2>2. PP_Scalar(v, d, PPSelf(e)) = PP_String(s, d, PPSelf(e).prefer_integer, PPSelf(e).utf8)
      BY <1>0, <1>5, Zenon DEF PP_Scalar, IsString
    <2>3. PP_Scalar(v, d, PPSelf(e)) = PP_String(s, d, e.prefer_int, e.utf8)
      BY <2>2, PPSelfFields, Zenon
    <2>4. s \in Seq(Byte) /\ StringFits(u, s, e)
      BY <1>0, <1>5 DEF SVFits, IsString
    <2> HIDE DEF s
    <2> QED BY <2>1, <2>3, <2>4, AgreeString
  <1>6. ~(DOMAIN v = {"scalar"}) /\ ~(DOMAIN v = {"rv"})
    BY <1>0 DEF IsRef
  <1>7. CASE DOMAIN v = {"other"}
    <2>1. v # ScalarRef(<<49>>) /\ v # ScalarRef(<<48>>)
      BY <1>7 DEF ScalarRef
    <2>2. XSScalar(v, e) = PP_died("unsupported")
      BY <1>7, <2>1 DEF XSScalar, IsString
    <2>3. PP_Scalar(v, d, PPSelf(e)) = PP_died("unsupported")
      BY <1>0, <1>7 DEF PP_Scalar, IsString
    <2> QED BY <2>2, <2>3, SameDeath
  <1> QED BY <1>1, <1>2, <1>3, <1>4, <1>5, <1>6, <1>7, SVKind

(* Where the arrays and hashes that are referred to agree.                     *)
ReferredAgree(u, sub, low, N, d) == d > 0 => \A n \in 1 .. N : Agree(u, sub[n], low[n])

LEMMA AgreeSV ==
  ASSUME NEW u, NEW N \in Nat, NEW v \in SVs(N) \cup {NoSV}, NEW e \in SettingsSet,
         SVFits(u, v, e), NEW d \in Int, NEW sub, NEW low, ReferredAgree(u, sub, low, N, d)
  PROVE  Agree(u, XSPackSV(v, d, sub, e), PP_PackSV(v, d, low, PPSelf(e)))
  <1>1. CASE v = NoSV
    <2>1. XSPackSV(v, d, sub, e) = PP_bytes(Nil) /\ u.nesting = "more"
      BY <1>1 DEF XSPackSV, SVFits
    <2>2. CASE d <= 0
      <3>1. PP_PackSV(v, d, low, PPSelf(e)) = PP_died("nesting")
        BY <2>2 DEF PP_PackSV
      <3> QED BY <2>1, <3>1, DiedFields DEF Agree, MoreLevels
    <2>3. CASE ~(d <= 0)
      <3>1. ~IsRef(v)
        BY <1>1 DEF NoSV, IsRef
      <3>2. PP_Scalar(v, d, PPSelf(e)) = PP_bytes(<<192>>)
        <4>1. DOMAIN v = {"slot"}
          BY <1>1 DEF NoSV
        <4> QED BY <1>1, <4>1 DEF PP_Scalar, IsString
      <3>3. PP_PackSV(v, d, low, PPSelf(e)) = PP_bytes(<<192>>)
        BY <2>3, <3>1, <3>2 DEF PP_PackSV
      <3> QED BY <2>1, <3>3, FixedAgree
    <2> QED BY <2>2, <2>3
  <1>2. CASE v # NoSV /\ d <= 0
    <2>1. /\ XSPackSV(v, d, sub, e) = PP_died("nesting")
          /\ PP_PackSV(v, d, low, PPSelf(e)) = PP_died("nesting")
      BY <1>2 DEF XSPackSV, PP_PackSV
    <2> QED BY <2>1, SameDeath
  <1>3. CASE v # NoSV /\ ~(d <= 0) /\ IsRef(v)
    <2>1. v \in SVs(N)
      BY <1>3
    <2>2. v.rv \in 1 .. N
      BY <1>3, <2>1, RefersTo
    <2>3. XSPackSV(v, d, sub, e) = sub[v.rv] /\ PP_PackSV(v, d, low, PPSelf(e)) = low[v.rv]
      BY <1>3 DEF XSPackSV, PP_PackSV
    <2>4. d > 0
      BY <1>3
    <2> QED BY <2>2, <2>3, <2>4 DEF ReferredAgree
  <1>4. CASE v # NoSV /\ ~(d <= 0) /\ ~IsRef(v)
    <2>1. v \in SVs(N)
      BY <1>4
    <2>2. /\ XSPackSV(v, d, sub, e) = XSScalar(v, e)
          /\ PP_PackSV(v, d, low, PPSelf(e)) = PP_Scalar(v, d, PPSelf(e))
      BY <1>4 DEF XSPackSV, PP_PackSV
    <2> QED BY <1>4, <2>1, <2>2, AgreeScalar
  <1> QED BY <1>1, <1>2, <1>3, <1>4

-------------------------------------------------------------------------------
(* What the pure Perl packer makes of an item or a pair, and of an object.     *)
PPItem(o, x, d, low, e) ==
  IF IsArray(o) THEN PP_PackSV(x, d, low, PPSelf(e))
  ELSE Then(PP_PackSV(Str(x[1], FALSE), d, low, PPSelf(e)),
            PP_PackSV(x[2], d, low, PPSelf(e)))

PPItems(o, d, low, e) ==
  [i \in DOMAIN Ordered(o, e.canonical) |->
    PPItem(o, Ordered(o, e.canonical)[i], d, low, e)]

PPHeader(o) ==
  IF IsArray(o) THEN PP_ArrayHeader(Len(o.items)) ELSE PP_MapHeader(o.counted)

LEMMA PPObjectIs ==
  ASSUME NEW o, NEW d, NEW low, NEW e
  PROVE  PP_PackObject(o, d, low, PPSelf(e)) = Join(PPHeader(o), PPItems(o, d, low, e))
  <1>1. CASE IsArray(o)
    <2>1. PPItems(o, d, low, e) =
            [i \in DOMAIN o.items |-> PP_PackSV(o.items[i], d, low, PPSelf(e))]
      BY <1>1 DEF PPItems, PPItem, Ordered
    <2>2. PPHeader(o) = PP_ArrayHeader(Len(o.items))
      BY <1>1 DEF PPHeader
    <2>3. PP_PackObject(o, d, low, PPSelf(e)) =
            Join(PP_ArrayHeader(Len(o.items)),
                 [i \in DOMAIN o.items |-> PP_PackSV(o.items[i], d, low, PPSelf(e))])
      BY <1>1, Zenon DEF PP_PackObject
    <2> QED BY <2>1, <2>2, <2>3, Zenon
  <1>2. CASE ~IsArray(o)
    <2> DEFINE q == PairsInOrder(o, e.canonical)
    <2>1. Ordered(o, e.canonical) = q
      BY <1>2 DEF Ordered
    <2>2. PPSelf(e).canonical = e.canonical
      BY PPSelfFields
    <2>3. PP_PackObject(o, d, low, PPSelf(e)) =
            Join(PP_MapHeader(o.counted),
                 [i \in DOMAIN q |-> Then(PP_PackSV(Str(q[i][1], FALSE), d, low, PPSelf(e)),
                                          PP_PackSV(q[i][2], d, low, PPSelf(e)))])
      BY <1>2, <2>2, Zenon DEF PP_PackObject
    <2> HIDE DEF q
    <2>4. PPItems(o, d, low, e) =
            [i \in DOMAIN q |-> Then(PP_PackSV(Str(q[i][1], FALSE), d, low, PPSelf(e)),
                                     PP_PackSV(q[i][2], d, low, PPSelf(e)))]
      BY <1>2, <2>1 DEF PPItems, PPItem
    <2>5. PPHeader(o) = PP_MapHeader(o.counted)
      BY <1>2 DEF PPHeader
    <2> QED BY <2>3, <2>4, <2>5, Zenon
  <1> QED BY <1>1, <1>2

LEMMA PPScalarType ==
  ASSUME NEW N \in Nat, NEW v \in SVs(N) \cup {NoSV}, ~IsRef(v), NEW d \in Int,
         NEW e \in SettingsSet
  PROVE  PP_Scalar(v, d, PPSelf(e)) \in Results
  <1>1. /\ PP_bytes(<<192>>) \in Results /\ PP_bytes(<<194>>) \in Results
        /\ PP_bytes(<<195>>) \in Results
        /\ PP_died("unsupported") \in Results /\ PP_died("nesting") \in Results
    <2>1. <<192>> \in Seq(Byte) /\ <<194>> \in Seq(Byte) /\ <<195>> \in Seq(Byte)
      BY DEF Byte
    <2> QED BY <2>1, BytesType DEF Results
  <1>2. ASSUME NEW s \in Seq(Byte)
        PROVE  PP_String(s, d, e.prefer_int, e.utf8) \in Results
    <2> DEFINE a == PP_StrHeader(Len(s)) \o s
               b == PP_BinHeader(Len(s)) \o s
               i == Denoted(PP_Unsigned(Chomped(s)), IF Negated(s) THEN -1 ELSE 1)
               x == PP_String(s, d, e.prefer_int, e.utf8)
    <2>1. PP_bytes(a) \in Results /\ PP_bytes(b) \in Results
      <3>1. Len(s) \in Nat
        OBVIOUS
      <3>2. a \in Seq(Byte) /\ b \in Seq(Byte)
        BY <3>1, PPHeaderBytes
      <3> HIDE DEF a, b
      <3> QED BY <3>2, BytesType
    <2>2. i \in Int => PP_bytes(PP_Integer(i)) \in Results
      <3> HIDE DEF i
      <3> QED BY SameIntegers, IntegerBytes, BytesType
    <2>3. i \in Int
      <3> DEFINE t == PP_Unsigned(Chomped(s))
      <3>1. t \in Seq(Byte)
        BY DEF PP_Unsigned, Chomped, Front, Last, Negated
      <3> HIDE DEF t
      <3>4. Denoted(t, -1) \in Int /\ Denoted(t, 1) \in Int
        BY <3>1, DenotedIsInt
      <3> QED BY <3>4, Zenon DEF t
    <2>4. \/ x = PP_bytes(a) \/ x = PP_bytes(b) \/ x = PP_died("nesting")
          \/ x = PP_bytes(PP_Integer(i))
      <3> HIDE DEF x
      <3> QED BY PPStringIs, Zenon DEF x
    <2> HIDE DEF a, b, x, i
    <2> QED BY <1>1, <2>1, <2>2, <2>3, <2>4 DEF x
  <1>3. CASE v = NoSV \/ v = Undef
    <2>1. DOMAIN v = {"slot"} \/ DOMAIN v = {"undef", "svs"}
      BY <1>3 DEF NoSV, Undef
    <2>2. v = NoSV \/ "undef" \in DOMAIN v
      BY <1>3 DEF Undef
    <2>3. PP_Scalar(v, d, PPSelf(e)) = PP_bytes(<<192>>)
      BY <2>1, <2>2 DEF PP_Scalar, IsString
    <2> QED BY <1>1, <2>3
  <1>4. CASE v # NoSV /\ v # Undef
    <2>0. v \in SVs(N) /\ v # NoSV
      BY <1>4
    <2>1. CASE DOMAIN v = {"bool", "svs"} /\ v.bool \in BOOLEAN
      BY <1>1, <2>0, <2>1 DEF PP_Scalar, IsString
    <2>2. CASE DOMAIN v = {"iv", "svs"} /\ v.iv \in Int
      <3>1. PP_Scalar(v, d, PPSelf(e)) = PP_bytes(PP_Integer(v.iv))
        BY <2>0, <2>2 DEF PP_Scalar, IsString
      <3> QED BY <2>2, <3>1, SameIntegers, IntegerBytes, BytesType
    <2>3. CASE DOMAIN v = {"nv", "svs"} /\ v.nv \in Seq(Byte)
      <3>1. PP_Scalar(v, d, PPSelf(e)) = PP_bytes(<<203>> \o v.nv)
        BY <2>0, <2>3 DEF PP_Scalar, IsString
      <3>2. Double(v.nv) \in Seq(Byte) /\ Double(v.nv) = <<203>> \o v.nv
        BY <2>3, FixedBytes DEF Double
      <3> QED BY <3>1, <3>2, BytesType
    <2>4. CASE DOMAIN v = {"pv", "text", "svs"} /\ v.pv \in Seq(Byte)
      <3>1. PP_Scalar(v, d, PPSelf(e)) = PP_String(v.pv, d, PPSelf(e).prefer_integer, PPSelf(e).utf8)
        BY <2>0, <2>4, Zenon DEF PP_Scalar, IsString
      <3>2. PP_Scalar(v, d, PPSelf(e)) = PP_String(v.pv, d, e.prefer_int, e.utf8)
        BY <3>1, PPSelfFields, Zenon
      <3> QED BY <1>2, <2>4, <3>2
    <2>5. CASE DOMAIN v = {"scalar"} \/ DOMAIN v = {"other"}
      <3>1. PP_Scalar(v, d, PPSelf(e)) = PP_died("unsupported")
        BY <2>0, <2>5 DEF PP_Scalar, IsString
      <3> QED BY <1>1, <3>1
    <2>6. ~(DOMAIN v = {"rv"})
      BY DEF IsRef
    <2> QED BY <1>4, <2>0, <2>1, <2>2, <2>3, <2>4, <2>5, <2>6, SVKind
  <1> QED BY <1>3, <1>4

LEMMA PPPackSVType ==
  ASSUME NEW N \in Nat, NEW v \in SVs(N) \cup {NoSV}, NEW d \in Int,
         NEW low \in [1 .. N -> Results], NEW e \in SettingsSet
  PROVE  PP_PackSV(v, d, low, PPSelf(e)) \in Results
  <1>1. PP_died("nesting") \in Results
    BY DEF Results
  <1>2. CASE IsRef(v)
    <2>1. v # NoSV
      <3>1. ~IsRef(NoSV)
        BY DEF NoSV, IsRef
      <3> QED BY <1>2, <3>1
    <2>2. v \in SVs(N)
      BY <2>1
    <2>3. v.rv \in 1 .. N
      BY <1>2, <2>2, RefersTo
    <2> QED BY <1>1, <1>2, <2>3 DEF PP_PackSV
  <1>3. CASE ~IsRef(v)
    <2>1. PP_Scalar(v, d, PPSelf(e)) \in Results
      BY <1>3, PPScalarType
    <2> QED BY <1>1, <1>3, <2>1 DEF PP_PackSV
  <1> QED BY <1>2, <1>3

LEMMA PPItemType ==
  ASSUME NEW n \in Nat, NEW o \in Objects(n), NEW e \in SettingsSet, NEW d \in Int,
         NEW low \in [1 .. n -> Results], NEW x,
         IF IsArray(o) THEN x \in SVs(n) \cup {NoSV} ELSE x \in Seq(Byte) \X SVs(n)
  PROVE  PPItem(o, x, d, low, e) \in Results
  <1>1. CASE IsArray(o)
    BY <1>1, PPPackSVType DEF PPItem
  <1>2. CASE ~IsArray(o)
    <2>1. Str(x[1], FALSE) \in SVs(n) /\ x[2] \in SVs(n)
      BY <1>2, KeysAreSVs
    <2>2. /\ PP_PackSV(Str(x[1], FALSE), d, low, PPSelf(e)) \in Results
          /\ PP_PackSV(x[2], d, low, PPSelf(e)) \in Results
      BY <2>1, PPPackSVType
    <2> QED BY <1>2, <2>2, ThenType DEF PPItem
  <1> QED BY <1>1, <1>2

LEMMA PPItemsType ==
  ASSUME NEW n \in Nat, NEW o \in Objects(n), NEW e \in SettingsSet, NEW d \in Int,
         NEW low \in [1 .. n -> Results]
  PROVE  /\ PPItems(o, d, low, e) \in Seq(Results)
         /\ Len(PPItems(o, d, low, e)) = Len(Loop(o))
         /\ \A i \in 1 .. Len(Loop(o)) : PPItems(o, d, low, e)[i] =
              PPItem(o, Ordered(o, e.canonical)[i], d, low, e)
  <1> DEFINE m == Len(Loop(o))
             q == Ordered(o, e.canonical)
             f == PPItems(o, d, low, e)
  <1>1. /\ DOMAIN q = 1 .. m /\ m \in Nat
        /\ \A i \in 1 .. m : IF IsArray(o) THEN q[i] \in SVs(n) \cup {NoSV}
                                           ELSE q[i] \in Seq(Byte) \X SVs(n)
    BY OrderedFields DEF SettingsSet
  <1>2. f = [i \in 1 .. m |-> PPItem(o, q[i], d, low, e)]
    BY <1>1 DEF PPItems
  <1> HIDE DEF q, m, f
  <1>3. \A i \in 1 .. m : PPItem(o, q[i], d, low, e) \in Results
    BY <1>1, PPItemType
  <1>4. f \in Seq(Results) /\ Len(f) = m
    BY <1>1, <1>2, <1>3
  <1> QED BY <1>1, <1>2, <1>4 DEF q, m, f

LEMMA PPHeaderType ==
  ASSUME NEW n \in Nat, NEW o \in Objects(n)
  PROVE  PPHeader(o) \in Seq(Byte)
  <1>1. CASE IsArray(o)
    <2>1. o.items \in Seq(SVs(n) \cup {NoSV})
      BY <1>1, ObjectFields
    <2>2. Len(o.items) \in Nat
      BY <2>1
    <2> QED BY <1>1, <2>2, PPHeaderBytes DEF PPHeader
  <1>2. CASE ~IsArray(o)
    BY <1>2, ObjectFields, PPHeaderBytes DEF PPHeader
  <1> QED BY <1>1, <1>2

LEMMA PPObjectType ==
  ASSUME NEW n \in Nat, NEW o \in Objects(n), NEW e \in SettingsSet, NEW d \in Int,
         NEW low \in [1 .. n -> Results]
  PROVE  PP_PackObject(o, d, low, PPSelf(e)) \in Results
  BY PPItemsType, PPHeaderType, JoinType, PPObjectIs

-------------------------------------------------------------------------------
(* What an array or a hash must be for the packers to agree on it.             *)
ItemFits(u, o, x, e) ==
  IF IsArray(o) THEN SVFits(u, x, e)
  ELSE SVFits(u, Str(x[1], FALSE), e) /\ SVFits(u, x[2], e)

CountFits(u, o) ==
  /\ SizeHeld(Counted(o))
  /\ u.alike = "bytes" => Counted(o) # 65535
  /\ u.alike = "values" => Counted(o) = Len(Loop(o))

ObjectFits(u, o, e) ==
  CountFits(u, o) /\ \A i \in 1 .. Len(Loop(o)) : ItemFits(u, o, Loop(o)[i], e)

(* In either order.                                                            *)
LEMMA OrderedFits ==
  ASSUME NEW u, NEW N \in Nat, NEW o \in Objects(N), NEW e \in SettingsSet,
         ObjectFits(u, o, e), NEW i \in 1 .. Len(Loop(o))
  PROVE  ItemFits(u, o, Ordered(o, e.canonical)[i], e)
  <1>1. PICK p : /\ PackedBy(p, o, e.canonical)
                 /\ Ordered(o, e.canonical) = [k \in 1 .. Len(Loop(o)) |-> Loop(o)[p[k]]]
    BY OrderExists DEF SettingsSet
  <1>2. p[i] \in 1 .. Len(Loop(o))
    BY <1>1 DEF PackedBy, Rearranges
  <1>3. Ordered(o, e.canonical)[i] = Loop(o)[p[i]]
    BY <1>1
  <1> QED BY <1>2, <1>3 DEF ObjectFits

ItemsAlike(u, o, r, q) ==
  \A n \in Nat : AgreeBefore(u, r, q, IF IsArray(o) THEN n + 1 ELSE (n + 1) + 1, n)

LEMMA ItemsAgree ==
  ASSUME NEW u, NEW N \in Nat, NEW o \in Objects(N), NEW e \in SettingsSet, NEW x,
         IF IsArray(o) THEN x \in SVs(N) \cup {NoSV} ELSE x \in Seq(Byte) \X SVs(N),
         ItemFits(u, o, x, e), NEW d \in Int,
         NEW sub \in [1 .. N -> Results], NEW low \in [1 .. N -> Results],
         ReferredAgree(u, sub, low, N, d)
  PROVE  ItemsAlike(u, o, XSItem(o, x, d, sub, e), PPItem(o, x, d, low, e))
  <1>1. CASE IsArray(o)
    <2> DEFINE r == XSPackSV(x, d, sub, e)
               q == PP_PackSV(x, d, low, PPSelf(e))
    <2>1. x \in SVs(N) \cup {NoSV} /\ SVFits(u, x, e)
      BY <1>1 DEF ItemFits
    <2>2. Agree(u, r, q)
      BY <2>1, AgreeSV
    <2>3. r \in Results /\ q \in Results
      BY <2>1, XSPackSVType, PPPackSVType
    <2>4. XSItem(o, x, d, sub, e) = r /\ PPItem(o, x, d, low, e) = q
      BY <1>1 DEF XSItem, PPItem
    <2> HIDE DEF r, q
    <2>5. \A n \in Nat : AgreeBefore(u, r, q, n + 1, n)
      BY <2>2, <2>3, OneAgrees
    <2> QED BY <1>1, <2>4, <2>5, Zenon DEF ItemsAlike
  <1>2. CASE ~IsArray(o)
    <2> DEFINE k == Str(x[1], FALSE)
               v == x[2]
               r == XSPackSV(k, d, sub, e)
               q == PP_PackSV(k, d, low, PPSelf(e))
               s == XSPackSV(v, d, sub, e)
               t == PP_PackSV(v, d, low, PPSelf(e))
    <2>1. k \in SVs(N) /\ v \in SVs(N)
      BY <1>2, KeysAreSVs
    <2>2. SVFits(u, k, e) /\ SVFits(u, v, e)
      BY <1>2 DEF ItemFits
    <2>3. XSItem(o, x, d, sub, e) = Then(r, s) /\ PPItem(o, x, d, low, e) = Then(q, t)
      BY <1>2 DEF XSItem, PPItem
    <2> HIDE DEF k, v
    <2>4. Agree(u, r, q) /\ Agree(u, s, t)
      BY <2>1, <2>2, AgreeSV
    <2>5. r \in Results /\ q \in Results /\ s \in Results /\ t \in Results
      BY <2>1, XSPackSVType, PPPackSVType
    <2> HIDE DEF r, q, s, t
    <2>6. \A n \in Nat : AgreeBefore(u, Then(r, s), Then(q, t), (n + 1) + 1, n)
      BY <2>4, <2>5, TwoAgree
    <2> QED BY <1>2, <2>3, <2>6, Zenon DEF ItemsAlike
  <1> QED BY <1>1, <1>2

(* How many values each item or pair makes, and all.                           *)
Width(o) == IF IsArray(o) THEN 1 ELSE 2

LEMMA WidthsLeft ==
  ASSUME NEW n \in Nat, NEW i \in 1 .. n, NEW w \in {1, 2}
  PROVE  /\ w * (n + 1 - (i + 1)) = w * (n - i) /\ w * (n - i) \in Nat
         /\ w = 1 => w * (n + 1 - i) = w * (n - i) + 1
         /\ w = 2 => w * (n + 1 - i) = (w * (n - i) + 1) + 1
  <1>1. n - i \in Nat /\ n + 1 - (i + 1) = n - i /\ n + 1 - i = (n - i) + 1
    OBVIOUS
  <1>2. ASSUME NEW k \in Nat
        PROVE  1 * k = k /\ 2 * k = k + k /\ 1 * (k + 1) = k + 1 /\ 2 * (k + 1) = k + k + 2
    OBVIOUS
  <1> QED BY <1>1, <1>2

LEMMA HeadersAgree ==
  ASSUME NEW u \in Rules, NEW N \in Nat, NEW o \in Objects(N), CountFits(u, o)
  PROVE  HeadersAlike(u, Header(o), PPHeader(o), Width(o) * Len(Loop(o)))
  <1> DEFINE n == Counted(o)
             h == Header(o)
             g == PPHeader(o)
  <1>1. h \in Seq(Byte) /\ g \in Seq(Byte)
    BY HeaderPiece, PPHeaderType
  <1>2. n \in Nat
    <2>1. CASE IsArray(o)
      <3>1. o.items \in Seq(SVs(N) \cup {NoSV})
        BY <2>1, ObjectFields
      <3>2. n = Len(o.items)
        BY <2>1 DEF Counted
      <3> QED BY <3>1, <3>2
    <2>2. CASE ~IsArray(o)
      BY <2>2, ObjectFields DEF Counted
    <2> QED BY <2>1, <2>2
  <1>3. Is32Bit(n)
    BY <1>2, HeldSize DEF CountFits
  <1>4. IF IsArray(o) THEN h = ArrayHeader(n) /\ g = PP_ArrayHeader(n)
                      ELSE h = MapHeader(n) /\ g = PP_MapHeader(n)
    BY DEF Header, PPHeader, Counted
  <1>5. /\ u.alike = "bytes" => n # 65535
        /\ u.alike = "values" => n = Len(Loop(o))
    BY DEF CountFits
  <1> HIDE DEF n, h, g
  <1>6. u.alike = "bytes" => h = g
    BY <1>2, <1>4, <1>5, PPHeaders
  <1>7. ASSUME u.alike = "values", NEW b \in Seq(Byte), NEW c \in Seq(Byte), NEW vals,
               ReadsRow(b, vals, Width(o) * Len(Loop(o))), ReadsRow(c, vals, Width(o) * Len(Loop(o)))
        PROVE  \E m : Yields(h \o b, m) /\ Yields(g \o c, m)
    <2>1. n = Len(Loop(o))
      BY <1>5, <1>7
    <2>2. CASE IsArray(o)
      <3>1. Width(o) * Len(Loop(o)) = n
        BY <1>2, <2>1, <2>2 DEF Width
      <3>2. ReadsRow(b, vals, n) /\ ReadsRow(c, vals, n)
        BY <1>7, <3>1
      <3>3. Counts(h, n) /\ T_ARRAY(h[1]) /\ Counts(g, n) /\ T_ARRAY(g[1])
        BY <1>2, <1>3, <1>4, <2>2, HeadersCount, PPHeadersCount
      <3>4. Yields(h \o b, ArrayOf(vals))
        BY <1>2, <1>7, <3>2, <3>3, ReadsArray
      <3>5. Yields(g \o c, ArrayOf(vals))
        BY <1>2, <1>7, <3>2, <3>3, ReadsArray
      <3> QED BY <3>4, <3>5
    <2>3. CASE ~IsArray(o)
      <3>1. Width(o) * Len(Loop(o)) = 2 * n
        BY <1>2, <2>1, <2>3 DEF Width
      <3>2. ReadsRow(b, vals, 2 * n) /\ ReadsRow(c, vals, 2 * n)
        BY <1>7, <3>1
      <3>3. Counts(h, n) /\ T_MAP(h[1]) /\ Counts(g, n) /\ T_MAP(g[1])
        BY <1>2, <1>3, <1>4, <2>3, HeadersCount, PPHeadersCount
      <3>4. Yields(h \o b, HashOf(vals))
        BY <1>2, <1>7, <3>2, <3>3, ReadsMap
      <3>5. Yields(g \o c, HashOf(vals))
        BY <1>2, <1>7, <3>2, <3>3, ReadsMap
      <3> QED BY <3>4, <3>5
    <2> QED BY <2>2, <2>3
  <1>8. HeadersAlike(u, h, g, Width(o) * Len(Loop(o)))
    BY <1>1, <1>6, <1>7 DEF HeadersAlike
  <1> QED BY <1>8 DEF h, g

LEMMA AgreeObject ==
  ASSUME NEW u \in Rules, NEW N \in Nat, NEW o \in Objects(N), NEW e \in SettingsSet,
         ObjectFits(u, o, e), NEW d \in Int,
         NEW sub \in [1 .. N -> Results], NEW low \in [1 .. N -> Results],
         ReferredAgree(u, sub, low, N, d)
  PROVE  Agree(u, XSObject(o, d, sub, e), PP_PackObject(o, d, low, PPSelf(e)))
  <1> DEFINE n == Len(Loop(o))
             w == Width(o)
             rs == XSItems(o, d, sub, e)
             qs == PPItems(o, d, low, e)
             D == 1 .. n + 1
             K == [i \in D |-> w * (n + 1 - i)]
             h == Header(o)
             g == PPHeader(o)
  <1>1. /\ rs \in Seq(Results) /\ Len(rs) = n /\ n \in Nat
        /\ \A i \in 1 .. n : rs[i] = XSItem(o, Ordered(o, e.canonical)[i], d, sub, e)
    <2> HIDE DEF rs
    <2> QED BY XSItemsType DEF rs
  <1>2. /\ qs \in Seq(Results) /\ Len(qs) = n
        /\ \A i \in 1 .. n : qs[i] = PPItem(o, Ordered(o, e.canonical)[i], d, low, e)
    <2> HIDE DEF qs
    <2> QED BY PPItemsType DEF qs
  <1>3. w \in {1, 2} /\ (IsArray(o) => w = 1) /\ (~IsArray(o) => w = 2)
    BY DEF Width
  <1>4. XSObject(o, d, sub, e) = Join(h, rs)
    BY DEF XSObject
  <1>5. PP_PackObject(o, d, low, PPSelf(e)) = Join(g, qs)
    BY PPObjectIs
  <1>6. HeadersAlike(u, h, g, w * n)
    BY HeadersAgree DEF ObjectFits
  <1> HIDE DEF rs, qs, w, h, g
  <1>7. ASSUME NEW i \in 1 .. n
        PROVE  AgreeBefore(u, rs[i], qs[i], K[i], K[i + 1])
    <2> DEFINE x == Ordered(o, e.canonical)[i]
    <2>1. IF IsArray(o) THEN x \in SVs(N) \cup {NoSV} ELSE x \in Seq(Byte) \X SVs(N)
      BY OrderedFields DEF SettingsSet
    <2>2. ItemFits(u, o, x, e)
      BY OrderedFits
    <2>3. rs[i] = XSItem(o, x, d, sub, e) /\ qs[i] = PPItem(o, x, d, low, e)
      BY <1>1, <1>2
    <2> HIDE DEF x
    <2>4. ItemsAlike(u, o, rs[i], qs[i])
      BY <2>1, <2>2, <2>3, ItemsAgree
    <2> DEFINE k == w * (n - i)
    <2>5. K[i] = w * (n + 1 - i) /\ K[i + 1] = w * (n + 1 - (i + 1))
      <3>1. i \in D /\ i + 1 \in D
        BY <1>1
      <3> HIDE DEF D
      <3> QED BY <3>1
    <2> HIDE DEF n, K
    <2>6. /\ K[i + 1] = k /\ k \in Nat
          /\ IsArray(o) => K[i] = k + 1
          /\ ~IsArray(o) => K[i] = (k + 1) + 1
      BY <1>1, <1>3, <2>5, WidthsLeft
    <2> HIDE DEF k
    <2>7. AgreeBefore(u, rs[i], qs[i], IF IsArray(o) THEN k + 1 ELSE (k + 1) + 1, k)
      BY <2>4, <2>6 DEF ItemsAlike
    <2>8. CASE IsArray(o)
      BY <2>6, <2>7, <2>8
    <2>9. CASE ~IsArray(o)
      BY <2>6, <2>7, <2>9
    <2> QED BY <2>8, <2>9
  <1>8. K[n + 1] = 0 /\ K[1] = w * n
    <2>1. 1 \in D /\ n + 1 \in D /\ n + 1 - (n + 1) = 0 /\ n + 1 - 1 = n /\ w * 0 = 0
      BY <1>1, <1>3
    <2> HIDE DEF D, n
    <2> QED BY <2>1
  <1>9. AgreeAll(u, rs, qs, K)
    <2> HIDE DEF K
    <2> QED BY <1>1, <1>7, <1>8 DEF AgreeAll
  <1>10. PICK R : Rests(R, rs)
    BY <1>1, RestsExist
  <1>11. PICK Q : Rests(Q, qs)
    BY <1>2, RestsExist
  <1>12. AgreeRow(u, R[1], Q[1], w * n)
    <2>1. AgreeRow(u, R[1], Q[1], K[1])
      <3> HIDE DEF K, n
      <3> QED BY <1>1, <1>2, <1>9, <1>10, <1>11, RestsAgree
    <2> QED BY <1>8, <2>1
  <1>13. R[1] \in Results /\ Q[1] \in Results
    <2>1. R[1] \in Results
      BY <1>1, <1>10 DEF Rests
    <2>2. Q[1] \in Results
      BY <1>2, <1>11 DEF Rests
    <2> QED BY <2>1, <2>2
  <1>14. Agree(u, Then(PP_bytes(h), R[1]), Then(PP_bytes(g), Q[1]))
    <2> DEFINE all == w * n
    <2>1. HeadersAlike(u, h, g, all) /\ AgreeRow(u, R[1], Q[1], all)
      BY <1>6, <1>12
    <2> HIDE DEF all
    <2> QED BY <1>13, <2>1, AgreeHeaded
  <1>15. Join(h, rs) = Then(PP_bytes(h), R[1]) /\ Join(g, qs) = Then(PP_bytes(g), Q[1])
    BY <1>1, <1>2, <1>10, <1>11, JoinRests
  <1> QED BY <1>4, <1>5, <1>14, <1>15

-------------------------------------------------------------------------------
(* What the pure Perl packer makes of the arrays and hashes, down to n levels, *)
(* computed one from the other.                                                *)
NoRow(heap) == [n \in DOMAIN heap |-> PP_died("nesting")]
RowAbove(heap, d, low, self) ==
  [n \in DOMAIN heap |-> PP_PackObject(heap[n], d, low, self)]

RowThen(J, heap, self, i) ==
  J[i] = IF i = 0 THEN NoRow(heap) ELSE RowAbove(heap, i - 1, J[i - 1], self)

RowsUpTo(J, heap, self, n) == \A i \in 0 .. n : RowThen(J, heap, self, i)

LEMMA RowsExist ==
  ASSUME NEW heap, NEW self, NEW n \in Nat
  PROVE  \E J : RowsUpTo(J, heap, self, n)
  <1> DEFINE T == {k \in Nat : \E J : RowsUpTo(J, heap, self, k)}
  <1>1. 0 \in T
    <2> DEFINE J == [i \in {0} |-> NoRow(heap)]
    <2>1. RowThen(J, heap, self, 0)
      BY DEF RowThen
    <2> HIDE DEF J
    <2>2. RowsUpTo(J, heap, self, 0)
      BY <2>1 DEF RowsUpTo
    <2> QED BY <2>2
  <1>2. ASSUME NEW k \in Nat, k \in T
        PROVE  k + 1 \in T
    <2>1. PICK J : RowsUpTo(J, heap, self, k)
      BY <1>2
    <2> DEFINE more == RowAbove(heap, k, J[k], self)
               K == [i \in 0 .. k + 1 |-> IF i = k + 1 THEN more ELSE J[i]]
    <2>2. /\ \A i \in 0 .. k : K[i] = J[i]
          /\ K[k + 1] = more
      <3> HIDE DEF more
      <3> QED OBVIOUS
    <2> HIDE DEF K
    <2>3. ASSUME NEW i \in 0 .. k + 1
          PROVE  RowThen(K, heap, self, i)
      <3>1. CASE i = k + 1
        <4>1. i # 0 /\ i - 1 = k /\ k \in 0 .. k
          BY <3>1
        <4>2. K[i] = RowAbove(heap, i - 1, K[i - 1], self)
          BY <2>2, <3>1, <4>1, Zenon
        <4> QED BY <4>1, <4>2, Zenon DEF RowThen
      <3>2. CASE i # k + 1
        <4>1. i \in 0 .. k /\ (i # 0 => i - 1 \in 0 .. k)
          BY <3>2
        <4>2. RowThen(J, heap, self, i)
          BY <2>1, <4>1 DEF RowsUpTo
        <4> QED BY <2>2, <4>1, <4>2, Zenon DEF RowThen
      <3> QED BY <3>1, <3>2
    <2>4. RowsUpTo(K, heap, self, k + 1)
      BY <2>3 DEF RowsUpTo
    <2> QED BY <2>4
  <1> HIDE DEF T
  <1>3. n \in T
    BY <1>1, <1>2, Induction
  <1> QED BY <1>3 DEF T

LEMMA RowsUnique ==
  ASSUME NEW heap, NEW self, NEW n \in Nat, NEW J, NEW K,
         RowsUpTo(J, heap, self, n), RowsUpTo(K, heap, self, n)
  PROVE  J[n] = K[n]
  <1> DEFINE T == {k \in Nat : k <= n => J[k] = K[k]}
  <1>1. 0 \in T
    <2>1. 0 \in 0 .. n
      OBVIOUS
    <2> QED BY <2>1 DEF RowsUpTo, RowThen
  <1>2. ASSUME NEW k \in Nat, k \in T
        PROVE  k + 1 \in T
    <2>1. CASE k + 1 <= n
      <3>1. J[k] = K[k]
        BY <1>2, <2>1
      <3>2. k + 1 \in 0 .. n /\ k + 1 # 0 /\ (k + 1) - 1 = k
        BY <2>1
      <3>3. RowThen(J, heap, self, k + 1) /\ RowThen(K, heap, self, k + 1)
        BY <3>2 DEF RowsUpTo
      <3>4. J[k + 1] = K[k + 1]
        BY <3>1, <3>2, <3>3, Zenon DEF RowThen
      <3> QED BY <3>4
    <2>2. CASE ~(k + 1 <= n)
      BY <2>2
    <2> QED BY <2>1, <2>2
  <1> HIDE DEF T
  <1>3. n \in T
    BY <1>1, <1>2, Induction
  <1> QED BY <1>3 DEF T

LEMMA RowsAre ==
  ASSUME NEW heap, NEW self
  PROVE  /\ PP_Containers(heap, self)[0] = NoRow(heap)
         /\ \A k \in Nat : PP_Containers(heap, self)[k + 1] =
                             RowAbove(heap, k, PP_Containers(heap, self)[k], self)
  <1> DEFINE J(k) == CHOOSE J : RowsUpTo(J, heap, self, k)
             F(f) == [k \in Nat |-> [n \in DOMAIN heap |->
                       IF k = 0 THEN PP_died("nesting")
                       ELSE PP_PackObject(heap[n], k - 1, f[k - 1], self)]]
             g == [k \in Nat |-> J(k)[k]]
  <1>0. ASSUME NEW f, NEW k
        PROVE  [n \in DOMAIN heap |->
                  IF k = 0 THEN PP_died("nesting")
                  ELSE PP_PackObject(heap[n], k - 1, f[k - 1], self)]
                 = IF k = 0 THEN NoRow(heap) ELSE RowAbove(heap, k - 1, f[k - 1], self)
    <2>1. CASE k = 0
      BY <2>1 DEF NoRow
    <2>2. CASE k # 0
      BY <2>2 DEF RowAbove
    <2> QED BY <2>1, <2>2
  <1>1. \A k \in Nat : RowsUpTo(J(k), heap, self, k)
    BY RowsExist, Zenon
  <1> HIDE DEF J
  <1>2. ASSUME NEW k \in Nat
        PROVE  g[k] = IF k = 0 THEN NoRow(heap) ELSE RowAbove(heap, k - 1, g[k - 1], self)
    <2>1. RowThen(J(k), heap, self, k)
      <3>1. k \in 0 .. k
        OBVIOUS
      <3> QED BY <1>1, <3>1, Zenon DEF RowsUpTo
    <2>2. CASE k = 0
      BY <2>1, <2>2 DEF RowThen
    <2>3. CASE k # 0
      <3>1. k - 1 \in Nat /\ 0 .. k - 1 \subseteq 0 .. k
        BY <2>3
      <3>2. RowsUpTo(J(k), heap, self, k - 1) /\ RowsUpTo(J(k - 1), heap, self, k - 1)
        <4>1. RowsUpTo(J(k), heap, self, k) /\ RowsUpTo(J(k - 1), heap, self, k - 1)
          BY <1>1, <3>1, Zenon
        <4> QED BY <3>1, <4>1, Zenon DEF RowsUpTo
      <3>3. J(k)[k - 1] = J(k - 1)[k - 1]
        <4> DEFINE a == J(k)
                   b == J(k - 1)
                   m == k - 1
        <4>1. m \in Nat /\ RowsUpTo(a, heap, self, m) /\ RowsUpTo(b, heap, self, m)
          BY <3>1, <3>2
        <4> HIDE DEF a, b, m
        <4>2. a[m] = b[m]
          BY <4>1, RowsUnique
        <4> QED BY <4>2 DEF a, b, m
      <3>4. g[k - 1] = J(k - 1)[k - 1] /\ g[k] = J(k)[k]
        BY <3>1, Zenon
      <3> HIDE DEF g
      <3> QED BY <2>1, <2>3, <3>3, <3>4, Zenon DEF RowThen
    <2> QED BY <2>2, <2>3
  <1>3. g = F(g)
    <2>1. F(g) = [k \in Nat |-> g[k]]
      <3>1. \A k \in Nat : [n \in DOMAIN heap |->
                              IF k = 0 THEN PP_died("nesting")
                              ELSE PP_PackObject(heap[n], k - 1, g[k - 1], self)] = g[k]
        <4> HIDE DEF g
        <4> QED BY <1>0, <1>2, Zenon
      <3> HIDE DEF g
      <3> QED BY <3>1, Zenon
    <2>2. g = [k \in Nat |-> g[k]]
      OBVIOUS
    <2> QED BY <2>1, <2>2, Zenon
  <1> HIDE DEF g
  <1> DEFINE L == CHOOSE f : f = F(f)
  <1>4. L = F(L)
    BY <1>3, Zenon
  <1>5. PP_Containers(heap, self) = L
    BY DEF PP_Containers
  <1> HIDE DEF L
  <1>6. ASSUME NEW k \in Nat
        PROVE  L[k] = IF k = 0 THEN NoRow(heap) ELSE RowAbove(heap, k - 1, L[k - 1], self)
    <2>1. L[k] = [n \in DOMAIN heap |->
                    IF k = 0 THEN PP_died("nesting")
                    ELSE PP_PackObject(heap[n], k - 1, L[k - 1], self)]
      BY <1>4, Zenon
    <2> QED BY <1>0, <2>1, Zenon
  <1>7. ASSUME NEW k \in Nat
        PROVE  L[k + 1] = RowAbove(heap, k, L[k], self)
    <2>1. k + 1 \in Nat /\ k + 1 # 0 /\ (k + 1) - 1 = k
      OBVIOUS
    <2>2. L[k + 1] = IF k + 1 = 0 THEN NoRow(heap)
                     ELSE RowAbove(heap, (k + 1) - 1, L[(k + 1) - 1], self)
      BY <1>6, <2>1, Zenon
    <2> QED BY <2>1, <2>2, Zenon
  <1>8. L[0] = NoRow(heap)
    <2>1. 0 \in Nat
      OBVIOUS
    <2> QED BY <1>6, <2>1, Zenon
  <1> QED BY <1>5, <1>7, <1>8

-------------------------------------------------------------------------------
(* At every depth the packers agree on the arrays and hashes.                  *)
HeapFits(u, heap, e) == \A n \in DOMAIN heap : ObjectFits(u, heap[n], e)

PPRow(heap, e, d) == PP_Containers(heap, PPSelf(e))[d]

LEMMA PPRowType ==
  ASSUME NEW heap, heap \in Seq(Objects(Len(heap))), NEW e \in SettingsSet, NEW d \in Nat
  PROVE  /\ PPRow(heap, e, d) \in [1 .. Len(heap) -> Results]
         /\ \A n \in 1 .. Len(heap) : PPRow(heap, e, d + 1)[n] =
              PP_PackObject(heap[n], d, PPRow(heap, e, d), PPSelf(e))
  <1> DEFINE N == Len(heap)
             D == 1 .. N
             X == [D -> Results]
             S == {k \in Nat : PPRow(heap, e, k) \in X}
  <1>1. N \in Nat /\ DOMAIN heap = D /\ \A n \in D : heap[n] \in Objects(N)
    OBVIOUS
  <1>2. /\ PPRow(heap, e, 0) = NoRow(heap)
        /\ \A k \in Nat : PPRow(heap, e, k + 1) = RowAbove(heap, k, PPRow(heap, e, k), PPSelf(e))
    BY RowsAre DEF PPRow
  <1>3. 0 \in S
    <2>1. PP_died("nesting") \in Results
      BY DEF Results
    <2>2. NoRow(heap) = [n \in D |-> PP_died("nesting")]
      BY <1>1 DEF NoRow
    <2>3. NoRow(heap) \in X
      BY <2>1, <2>2
    <2> QED BY <1>2, <2>3
  <1>4. ASSUME NEW k \in Nat, k \in S
        PROVE  k + 1 \in S
    <2> DEFINE low == PPRow(heap, e, k)
    <2>1. low \in X
      BY <1>4
    <2> HIDE DEF low
    <2>2. \A n \in D : PP_PackObject(heap[n], k, low, PPSelf(e)) \in Results
      <3> HIDE DEF N
      <3> QED BY <1>1, <2>1, PPObjectType
    <2>3. PPRow(heap, e, k + 1) = [n \in D |-> PP_PackObject(heap[n], k, low, PPSelf(e))]
      <3> HIDE DEF D
      <3> QED BY <1>1, <1>2 DEF RowAbove, low
    <2>4. PPRow(heap, e, k + 1) \in X
      <3> HIDE DEF D
      <3> QED BY <2>2, <2>3
    <2> HIDE DEF X
    <2> QED BY <2>4
  <1>5. d \in S
    <2> HIDE DEF S
    <2> QED BY <1>3, <1>4, Induction
  <1>6. PPRow(heap, e, d + 1) = RowAbove(heap, d, PPRow(heap, e, d), PPSelf(e))
    BY <1>2
  <1>7. \A n \in D : PPRow(heap, e, d + 1)[n] =
          PP_PackObject(heap[n], d, PPRow(heap, e, d), PPSelf(e))
    <2> HIDE DEF D
    <2> QED BY <1>1, <1>6 DEF RowAbove
  <1> QED BY <1>5, <1>7

LEMMA TablesAgree ==
  ASSUME NEW u \in Rules, NEW heap, heap \in Seq(Objects(Len(heap))), NEW e \in SettingsSet,
         HeapFits(u, heap, e), NEW C, XSTable(C, heap, e), NEW d \in Nat
  PROVE  ReferredAgree(u, C[d], PPRow(heap, e, d), Len(heap), d)
  <1> DEFINE N == Len(heap)
             D == 1 .. N
             S == {k \in Nat : ReferredAgree(u, C[k], PPRow(heap, e, k), N, k)}
  <1>1. N \in Nat /\ DOMAIN heap = D /\ \A n \in D : heap[n] \in Objects(N)
    OBVIOUS
  <1>2. /\ C \in [Nat -> [D -> Results]]
        /\ \A k \in Nat : \A n \in D : C[k + 1][n] = XSObject(heap[n], k, C[k], e)
    BY <1>1 DEF XSTable
  <1>3. \A k \in Nat : /\ PPRow(heap, e, k) \in [D -> Results]
                       /\ \A n \in D : PPRow(heap, e, k + 1)[n] =
                            PP_PackObject(heap[n], k, PPRow(heap, e, k), PPSelf(e))
    BY PPRowType
  <1> HIDE DEF N, D
  <1>4. 0 \in S
    BY DEF ReferredAgree
  <1>5. ASSUME NEW k \in Nat, k \in S
        PROVE  k + 1 \in S
    <2>1. ASSUME NEW n \in D
          PROVE  Agree(u, C[k + 1][n], PPRow(heap, e, k + 1)[n])
      <3> DEFINE o == heap[n]
                 sub == C[k]
                 low == PPRow(heap, e, k)
      <3>1. o \in Objects(N) /\ ObjectFits(u, o, e)
        BY <1>1 DEF HeapFits
      <3>2. sub \in [1 .. N -> Results] /\ low \in [1 .. N -> Results] /\ k \in Int
        BY <1>2, <1>3 DEF D
      <3>3. ReferredAgree(u, sub, low, N, k)
        BY <1>5
      <3>4. C[k + 1][n] = XSObject(o, k, sub, e)
        BY <1>2
      <3>5. PPRow(heap, e, k + 1)[n] = PP_PackObject(o, k, low, PPSelf(e))
        BY <1>3
      <3> HIDE DEF o, sub, low
      <3>6. Agree(u, XSObject(o, k, sub, e), PP_PackObject(o, k, low, PPSelf(e)))
        BY <1>1, <3>1, <3>2, <3>3, AgreeObject
      <3> QED BY <3>4, <3>5, <3>6
    <2>2. ReferredAgree(u, C[k + 1], PPRow(heap, e, k + 1), N, k + 1)
      BY <2>1 DEF ReferredAgree, D
    <2> HIDE DEF ReferredAgree
    <2> QED BY <2>2
  <1>6. d \in S
    <2> HIDE DEF S
    <2> QED BY <1>4, <1>5, Induction
  <1> QED BY <1>6 DEF N

-------------------------------------------------------------------------------
(* An item or a pair.                                                          *)
ItemOf(x, o, N) ==
  IF IsArray(o) THEN x \in SVs(N) \cup {NoSV} ELSE x \in Seq(Byte) \X SVs(N)

LEMMA LoopItem ==
  ASSUME NEW N \in Nat, NEW o \in Objects(N), NEW i \in 1 .. Len(Loop(o))
  PROVE  ItemOf(Loop(o)[i], o, N)
  <1>1. CASE IsArray(o)
    <2> DEFINE T == SVs(N) \cup {NoSV}
    <2>1. o.items \in Seq(T) /\ Loop(o) = o.items
      BY <1>1, ObjectFields DEF Loop
    <2> HIDE DEF T
    <2>2. Loop(o)[i] \in T
      BY <2>1
    <2> QED BY <1>1, <2>2 DEF T, ItemOf
  <1>2. CASE ~IsArray(o)
    <2> DEFINE T == Seq(Byte) \X SVs(N)
    <2>1. o.pairs \in Seq(T) /\ Loop(o) = o.pairs
      BY <1>2, ObjectFields DEF Loop
    <2> HIDE DEF T
    <2>2. Loop(o)[i] \in T
      BY <2>1
    <2> QED BY <1>2, <2>2 DEF T, ItemOf
  <1> QED BY <1>1, <1>2

-------------------------------------------------------------------------------
(* What the XS packer makes of data with two settings e and f that take the    *)
(* same strings of it for integers, and differ perhaps in the order of pairs.  *)
TakenAlike(v, e, f) ==
  IsString(v) => ((e.prefer_int /\ IsInt(v.pv)) <=> (f.prefer_int /\ IsInt(v.pv)))

ItemTaken(o, x, e, f) ==
  IF IsArray(o) THEN TakenAlike(x, e, f)
  ELSE TakenAlike(Str(x[1], FALSE), e, f) /\ TakenAlike(x[2], e, f)

ObjectTaken(o, e, f) ==
  e.utf8 = f.utf8 /\ \A i \in 1 .. Len(Loop(o)) : ItemTaken(o, Loop(o)[i], e, f)

HeapTaken(heap, e, f) == \A n \in DOMAIN heap : ObjectTaken(heap[n], e, f)

LEMMA StringTaken ==
  ASSUME NEW s, NEW e, NEW f, e.utf8 = f.utf8,
         (e.prefer_int /\ IsInt(s)) <=> (f.prefer_int /\ IsInt(s))
  PROVE  XSString(s, e) = XSString(s, f) /\ StringMeaning(s, e) = StringMeaning(s, f)
  <1>1. CASE e.prefer_int /\ IsInt(s)
    <2>1. f.prefer_int /\ IsInt(s)
      BY <1>1
    <2>2. XSString(s, e) = Integer(StringInt(s)) /\ XSString(s, f) = Integer(StringInt(s))
      BY <1>1, <2>1, Zenon DEF XSString
    <2>3. /\ StringMeaning(s, e) = IntValue(StringInt(s))
          /\ StringMeaning(s, f) = IntValue(StringInt(s))
      BY <1>1, <2>1, Zenon DEF StringMeaning
    <2> QED BY <2>2, <2>3
  <1>2. CASE ~(e.prefer_int /\ IsInt(s))
    <2>1. ~(f.prefer_int /\ IsInt(s))
      BY <1>2
    <2> DEFINE b(u) == (IF u THEN StrHeader(Len(s)) ELSE BinHeader(Len(s))) \o s
    <2>2. XSString(s, e) = b(e.utf8) /\ XSString(s, f) = b(f.utf8)
      BY <1>2, <2>1, Zenon DEF XSString
    <2>3. /\ StringMeaning(s, e) = Str(s, e.utf8)
          /\ StringMeaning(s, f) = Str(s, f.utf8)
      BY <1>2, <2>1, Zenon DEF StringMeaning
    <2> HIDE DEF b
    <2> QED BY <2>2, <2>3
  <1> QED BY <1>1, <1>2

LEMMA ScalarTaken ==
  ASSUME NEW v, NEW e, NEW f, e.utf8 = f.utf8, TakenAlike(v, e, f)
  PROVE  XSScalar(v, e) = XSScalar(v, f) /\ ScalarMeaning(v, e) = ScalarMeaning(v, f)
  <1>1. CASE IsString(v)
    <2>1. /\ XSString(v.pv, e) = XSString(v.pv, f)
          /\ StringMeaning(v.pv, e) = StringMeaning(v.pv, f)
      BY <1>1, StringTaken DEF TakenAlike
    <2>2. XSScalar(v, e) = XSScalar(v, f)
      BY <2>1, Zenon DEF XSScalar
    <2>3. ScalarMeaning(v, e) = ScalarMeaning(v, f)
      <3>1. \A g : ScalarMeaning(v, g) =
              IF v = NoSV THEN Undef
              ELSE IF "scalar" \in DOMAIN v THEN Bool(v.scalar = <<49>>)
              ELSE StringMeaning(v.pv, g)
        BY <1>1, Zenon DEF ScalarMeaning, StringMeaning
      <3> QED BY <2>1, <3>1, Zenon
    <2> QED BY <2>2, <2>3
  <1>2. CASE ~IsString(v)
    BY <1>2, Zenon DEF XSScalar, ScalarMeaning
  <1> QED BY <1>1, <1>2

(* One is packed when the other is.                                            *)
PackedAlike(r, q) == r.status = "packed" <=> q.status = "packed"

SubsAlike(sub, sub2, N, d) == d > 0 => \A n \in 1 .. N : PackedAlike(sub[n], sub2[n])

LEMMA SVTaken ==
  ASSUME NEW N \in Nat, NEW v \in SVs(N) \cup {NoSV}, NEW e, NEW f, e.utf8 = f.utf8,
         TakenAlike(v, e, f), NEW d \in Int, NEW sub, NEW sub2
  PROVE  /\ (d > 0 => sub = sub2) => XSPackSV(v, d, sub, e) = XSPackSV(v, d, sub2, f)
         /\ SubsAlike(sub, sub2, N, d) =>
              PackedAlike(XSPackSV(v, d, sub, e), XSPackSV(v, d, sub2, f))
  <1>1. CASE v = NoSV
    <2>1. XSPackSV(v, d, sub, e) = PP_bytes(Nil) /\ XSPackSV(v, d, sub2, f) = PP_bytes(Nil)
      BY <1>1, Zenon DEF XSPackSV
    <2> QED BY <2>1 DEF PackedAlike
  <1>2. CASE v # NoSV /\ d <= 0
    <2>1. /\ XSPackSV(v, d, sub, e) = PP_died("nesting")
          /\ XSPackSV(v, d, sub2, f) = PP_died("nesting")
      BY <1>2, Zenon DEF XSPackSV
    <2> QED BY <2>1 DEF PackedAlike
  <1>3. CASE v # NoSV /\ ~(d <= 0) /\ IsRef(v)
    <2>1. XSPackSV(v, d, sub, e) = sub[v.rv] /\ XSPackSV(v, d, sub2, f) = sub2[v.rv]
      BY <1>3, Zenon DEF XSPackSV
    <2>2. v.rv \in 1 .. N
      BY <1>3, RefersTo
    <2>3. d > 0
      BY <1>3
    <2> QED BY <2>1, <2>2, <2>3 DEF SubsAlike
  <1>4. CASE v # NoSV /\ ~(d <= 0) /\ ~IsRef(v)
    <2>1. /\ XSPackSV(v, d, sub, e) = XSScalar(v, e)
          /\ XSPackSV(v, d, sub2, f) = XSScalar(v, f)
      BY <1>4, Zenon DEF XSPackSV
    <2>2. XSScalar(v, e) = XSScalar(v, f)
      BY ScalarTaken
    <2> QED BY <2>1, <2>2 DEF PackedAlike
  <1> QED BY <1>1, <1>2, <1>3, <1>4

LEMMA ThenBoth ==
  ASSUME NEW r \in Results, NEW q \in Results
  PROVE  Then(r, q).status = "packed" <=> (r.status = "packed" /\ q.status = "packed")
  BY BytesFields DEF Then

LEMMA ItemTakenAlike ==
  ASSUME NEW N \in Nat, NEW o \in Objects(N), NEW x,
         ItemOf(x, o, N), NEW e \in SettingsSet, NEW f \in SettingsSet, e.utf8 = f.utf8, ItemTaken(o, x, e, f),
         NEW d \in Int,
         NEW sub \in [1 .. N -> Results], NEW sub2 \in [1 .. N -> Results]
  PROVE  /\ (d > 0 => sub = sub2) => XSItem(o, x, d, sub, e) = XSItem(o, x, d, sub2, f)
         /\ SubsAlike(sub, sub2, N, d) =>
              PackedAlike(XSItem(o, x, d, sub, e), XSItem(o, x, d, sub2, f))
  <1>1. CASE IsArray(o)
    <2>1. \A g, s : XSItem(o, x, d, s, g) = XSPackSV(x, d, s, g)
      BY <1>1, Zenon DEF XSItem
    <2>2. TakenAlike(x, e, f) /\ x \in SVs(N) \cup {NoSV}
      BY <1>1 DEF ItemTaken, ItemOf
    <2> DEFINE Subs == d > 0 => sub = sub2
               r == XSPackSV(x, d, sub, e)
               q == XSPackSV(x, d, sub2, f)
    <2>3. (Subs => r = q) /\ (SubsAlike(sub, sub2, N, d) => PackedAlike(r, q))
      BY <2>2, SVTaken
    <2> HIDE DEF Subs
    <2>4. XSItem(o, x, d, sub, e) = r /\ XSItem(o, x, d, sub2, f) = q
      BY <2>1
    <2> HIDE DEF r, q
    <2>5. /\ Subs => XSItem(o, x, d, sub, e) = XSItem(o, x, d, sub2, f)
          /\ SubsAlike(sub, sub2, N, d) =>
               PackedAlike(XSItem(o, x, d, sub, e), XSItem(o, x, d, sub2, f))
      BY <2>3, <2>4
    <2> QED BY <2>5 DEF Subs
  <1>2. CASE ~IsArray(o)
    <2> DEFINE k == Str(x[1], FALSE)
               v == x[2]
               r == XSPackSV(k, d, sub, e)
               q == XSPackSV(k, d, sub2, f)
               s == XSPackSV(v, d, sub, e)
               t == XSPackSV(v, d, sub2, f)
    <2>1. k \in SVs(N) /\ v \in SVs(N)
      BY <1>2, KeysAreSVs DEF ItemOf
    <2>2. TakenAlike(k, e, f) /\ TakenAlike(v, e, f)
      BY <1>2 DEF ItemTaken
    <2>3. XSItem(o, x, d, sub, e) = Then(r, s) /\ XSItem(o, x, d, sub2, f) = Then(q, t)
      BY <1>2, Zenon DEF XSItem
    <2> HIDE DEF k, v
    <2>4. r \in Results /\ q \in Results /\ s \in Results /\ t \in Results
      BY <2>1, XSPackSVType
    <2>5. (d > 0 => sub = sub2) => r = q /\ s = t
      BY <2>1, <2>2, SVTaken
    <2>6. SubsAlike(sub, sub2, N, d) => PackedAlike(r, q) /\ PackedAlike(s, t)
      BY <2>1, <2>2, SVTaken
    <2> HIDE DEF r, q, s, t
    <2>7. PackedAlike(r, q) /\ PackedAlike(s, t) => PackedAlike(Then(r, s), Then(q, t))
      BY <2>4, ThenBoth DEF PackedAlike
    <2> QED BY <2>3, <2>5, <2>6, <2>7
  <1> QED BY <1>1, <1>2

(* A row is packed when every result of it is.                                 *)
LEMMA RowPacked ==
  ASSUME NEW rs \in Seq(Results), NEW R, Rests(R, rs),
         \A i \in 1 .. Len(rs) : rs[i].status = "packed"
  PROVE  R[1].status = "packed"
  <1> DEFINE n == Len(rs)
             S == {j \in Nat : j <= n => R[n + 1 - j].status = "packed"}
  <1>1. n \in Nat
    OBVIOUS
  <1>2. 0 \in S
    <2>1. n + 1 - 0 = n + 1 /\ R[n + 1].status = "packed"
      BY <1>1, BytesFields DEF Rests, Nothing
    <2> QED BY <2>1
  <1>3. ASSUME NEW j \in Nat, j \in S
        PROVE  j + 1 \in S
    <2>1. ASSUME j + 1 <= n
          PROVE  R[n + 1 - (j + 1)].status = "packed"
      <3> DEFINE i == n - j
      <3>1. i \in 1 .. n /\ n + 1 - (j + 1) = i /\ i + 1 = n + 1 - j /\ i + 1 \in 1 .. n + 1
        BY <1>1, <2>1
      <3>2. R[i + 1].status = "packed"
        BY <1>3, <1>1, <2>1, <3>1
      <3> HIDE DEF i
      <3>3. /\ R[i] = Then(rs[i], R[i + 1]) /\ R[i + 1] \in Results
            /\ rs[i] \in Results /\ rs[i].status = "packed"
        BY <3>1 DEF Rests
      <3>4. R[i].status = "packed"
        BY <3>2, <3>3, ThenBoth
      <3> QED BY <3>1, <3>4
    <2> HIDE DEF n
    <2> QED BY <2>1
  <1>4. Nat \subseteq S
    <2> HIDE DEF S
    <2> QED BY <1>2, <1>3, Induction
  <1>5. n \in S /\ n + 1 - n = 1
    BY <1>1, <1>4
  <1> QED BY <1>1, <1>5

LEMMA JoinPacked ==
  ASSUME NEW h \in Seq(Byte), NEW rs \in Seq(Results)
  PROVE  Join(h, rs).status = "packed" <=> \A i \in 1 .. Len(rs) : rs[i].status = "packed"
  <1>1. PICK R : Rests(R, rs)
    BY RestsExist
  <1>2. Join(h, rs) = Then(PP_bytes(h), R[1])
    BY <1>1, JoinRests
  <1>3. R[1] \in Results /\ PP_bytes(h) \in Results /\ PP_bytes(h).status = "packed"
    <2>1. 1 \in 1 .. Len(rs) + 1
      OBVIOUS
    <2> QED BY <1>1, <2>1, BytesType, BytesFields DEF Rests
  <1>4. Join(h, rs).status = "packed" <=> R[1].status = "packed"
    BY <1>2, <1>3, ThenBoth
  <1> QED BY <1>1, <1>4, RowPacked, AllPacked

(* So the order of the items or pairs does not matter.                         *)
LEMMA ObjectPacked ==
  ASSUME NEW N \in Nat, NEW o \in Objects(N), NEW e \in SettingsSet, NEW d \in Int,
         NEW sub \in [1 .. N -> Results]
  PROVE  XSObject(o, d, sub, e).status = "packed" <=>
           \A i \in 1 .. Len(Loop(o)) : XSItem(o, Loop(o)[i], d, sub, e).status = "packed"
  <1> DEFINE n == Len(Loop(o))
             rs == XSItems(o, d, sub, e)
             PackedItem(x) == XSItem(o, x, d, sub, e).status = "packed"
  <1>1. /\ rs \in Seq(Results) /\ Len(rs) = n
        /\ \A i \in 1 .. n : rs[i] = XSItem(o, Ordered(o, e.canonical)[i], d, sub, e)
    <2> HIDE DEF rs
    <2> QED BY XSItemsType DEF rs
  <1>2. XSObject(o, d, sub, e) = Join(Header(o), rs)
    BY DEF XSObject
  <1> HIDE DEF rs
  <1>3. XSObject(o, d, sub, e).status = "packed" <=> \A i \in 1 .. n : PackedItem(Ordered(o, e.canonical)[i])
    <2>1. Header(o) \in Seq(Byte)
      BY HeaderPiece
    <2> QED BY <1>1, <1>2, <2>1, JoinPacked
  <1>4. PICK p : /\ PackedBy(p, o, e.canonical)
                 /\ Ordered(o, e.canonical) = [k \in 1 .. n |-> Loop(o)[p[k]]]
    BY OrderExists DEF SettingsSet
  <1>5. Rearranges(p, n)
    BY <1>4 DEF PackedBy
  <1> HIDE DEF n, Good
  <1>6. \A k \in 1 .. n : Ordered(o, e.canonical)[k] = Loop(o)[p[k]]
    BY <1>4
  <1>7. ASSUME \A k \in 1 .. n : PackedItem(Ordered(o, e.canonical)[k]), NEW i \in 1 .. n
        PROVE  PackedItem(Loop(o)[i])
    <2>1. PICK k \in 1 .. n : p[k] = i
      BY <1>5 DEF Rearranges
    <2> QED BY <1>6, <1>7, <2>1
  <1>8. ASSUME \A i \in 1 .. n : PackedItem(Loop(o)[i]), NEW k \in 1 .. n
        PROVE  PackedItem(Ordered(o, e.canonical)[k])
    <2>1. p[k] \in 1 .. n
      BY <1>5 DEF Rearranges
    <2> QED BY <1>6, <1>8, <2>1
  <1> QED BY <1>3, <1>7, <1>8 DEF n, Good

LEMMA ObjectTakenAlike ==
  ASSUME NEW N \in Nat, NEW o \in Objects(N), NEW e \in SettingsSet, NEW f \in SettingsSet,
         ObjectTaken(o, e, f), NEW d \in Int,
         NEW sub \in [1 .. N -> Results], NEW sub2 \in [1 .. N -> Results],
         SubsAlike(sub, sub2, N, d)
  PROVE  PackedAlike(XSObject(o, d, sub, e), XSObject(o, d, sub2, f))
  <1> DEFINE n == Len(Loop(o))
  <1>1. ASSUME NEW i \in 1 .. n
        PROVE  PackedAlike(XSItem(o, Loop(o)[i], d, sub, e), XSItem(o, Loop(o)[i], d, sub2, f))
    <2> DEFINE x == Loop(o)[i]
    <2>1. ItemOf(x, o, N)
      BY LoopItem
    <2>2. ItemTaken(o, x, e, f) /\ e.utf8 = f.utf8
      BY DEF ObjectTaken
    <2> HIDE DEF x
    <2>3. PackedAlike(XSItem(o, x, d, sub, e), XSItem(o, x, d, sub2, f))
      BY <2>1, <2>2, ItemTakenAlike
    <2> QED BY <2>3 DEF x
  <1>2. /\ XSObject(o, d, sub, e).status = "packed" <=>
             \A i \in 1 .. n : XSItem(o, Loop(o)[i], d, sub, e).status = "packed"
        /\ XSObject(o, d, sub2, f).status = "packed" <=>
             \A i \in 1 .. n : XSItem(o, Loop(o)[i], d, sub2, f).status = "packed"
    BY ObjectPacked
  <1> QED BY <1>1, <1>2 DEF PackedAlike

LEMMA TablesTakenAlike ==
  ASSUME NEW heap, heap \in Seq(Objects(Len(heap))), NEW e \in SettingsSet,
         NEW f \in SettingsSet, HeapTaken(heap, e, f),
         NEW C, XSTable(C, heap, e), NEW E, XSTable(E, heap, f), NEW d \in Nat
  PROVE  SubsAlike(C[d], E[d], Len(heap), d)
  <1> DEFINE N == Len(heap)
             D == 1 .. N
             S == {k \in Nat : SubsAlike(C[k], E[k], N, k)}
  <1>1. N \in Nat /\ DOMAIN heap = D /\ \A n \in D : heap[n] \in Objects(N)
    OBVIOUS
  <1>2. /\ C \in [Nat -> [D -> Results]] /\ E \in [Nat -> [D -> Results]]
        /\ \A k \in Nat : \A n \in D : /\ C[k + 1][n] = XSObject(heap[n], k, C[k], e)
                                       /\ E[k + 1][n] = XSObject(heap[n], k, E[k], f)
    BY <1>1 DEF XSTable
  <1> HIDE DEF N, D
  <1>4. 0 \in S
    BY DEF SubsAlike
  <1>5. ASSUME NEW k \in Nat, k \in S
        PROVE  k + 1 \in S
    <2>1. ASSUME NEW n \in D
          PROVE  PackedAlike(C[k + 1][n], E[k + 1][n])
      <3> DEFINE o == heap[n]
                 sub == C[k]
                 sub2 == E[k]
      <3>1. o \in Objects(N) /\ ObjectTaken(o, e, f)
        BY <1>1 DEF HeapTaken
      <3>2. sub \in [1 .. N -> Results] /\ sub2 \in [1 .. N -> Results] /\ k \in Int
        BY <1>2 DEF D
      <3>3. SubsAlike(sub, sub2, N, k)
        BY <1>5
      <3>4. C[k + 1][n] = XSObject(o, k, sub, e) /\ E[k + 1][n] = XSObject(o, k, sub2, f)
        BY <1>2
      <3> HIDE DEF o, sub, sub2
      <3>5. PackedAlike(XSObject(o, k, sub, e), XSObject(o, k, sub2, f))
        BY <1>1, <3>1, <3>2, <3>3, ObjectTakenAlike
      <3> QED BY <3>4, <3>5
    <2>2. SubsAlike(C[k + 1], E[k + 1], N, k + 1)
      BY <2>1 DEF SubsAlike, D
    <2> HIDE DEF SubsAlike
    <2> QED BY <2>2
  <1>6. d \in S
    <2> HIDE DEF S
    <2> QED BY <1>4, <1>5, Induction
  <1> QED BY <1>6 DEF N

(* When the pairs come in one order the bytes are the same.                    *)
InOneOrder(heap, e, f) ==
  \/ e.canonical = f.canonical
  \/ \A n \in DOMAIN heap : ~IsArray(heap[n]) => Len(heap[n].pairs) <= 1

LEMMA AloneInOrder ==
  ASSUME NEW N \in Nat, NEW o \in Objects(N), Len(Loop(o)) <= 1,
         NEW b \in BOOLEAN, NEW c \in BOOLEAN
  PROVE  Ordered(o, b) = Ordered(o, c)
  <1> DEFINE n == Len(Loop(o))
  <1>1. PICK p : /\ PackedBy(p, o, b)
                 /\ Ordered(o, b) = [k \in 1 .. n |-> Loop(o)[p[k]]]
    BY OrderExists
  <1>2. PICK q : /\ PackedBy(q, o, c)
                 /\ Ordered(o, c) = [k \in 1 .. n |-> Loop(o)[q[k]]]
    BY OrderExists
  <1>3. Rearranges(p, n) /\ Rearranges(q, n)
    BY <1>1, <1>2 DEF PackedBy
  <1>4. n \in Nat /\ n <= 1
    BY OrderedFields
  <1> HIDE DEF n
  <1>5. ASSUME NEW k \in 1 .. n
        PROVE  p[k] = q[k]
    <2>1. p[k] \in 1 .. n /\ q[k] \in 1 .. n
      BY <1>3 DEF Rearranges
    <2> QED BY <1>4, <2>1
  <1> QED BY <1>1, <1>2, <1>5

LEMMA ObjectTakenSame ==
  ASSUME NEW N \in Nat, NEW o \in Objects(N), NEW e \in SettingsSet, NEW f \in SettingsSet,
         ObjectTaken(o, e, f), e.canonical = f.canonical \/ (~IsArray(o) => Len(o.pairs) <= 1),
         NEW d \in Int, NEW sub \in [1 .. N -> Results], NEW sub2 \in [1 .. N -> Results],
         d > 0 => sub = sub2
  PROVE  XSObject(o, d, sub, e) = XSObject(o, d, sub2, f)
  <1> DEFINE n == Len(Loop(o))
             q == Ordered(o, e.canonical)
  <1>1. Ordered(o, f.canonical) = q
    <2>1. CASE IsArray(o)
      BY <2>1 DEF Ordered
    <2>2. CASE e.canonical = f.canonical
      BY <2>2
    <2>3. CASE ~IsArray(o) /\ Len(o.pairs) <= 1
      <3>1. Len(Loop(o)) <= 1
        BY <2>3 DEF Loop
      <3> QED BY <3>1, AloneInOrder DEF SettingsSet
    <2> QED BY <2>1, <2>2, <2>3
  <1>2. PICK p : /\ PackedBy(p, o, e.canonical)
                 /\ q = [k \in 1 .. n |-> Loop(o)[p[k]]]
    BY OrderExists DEF SettingsSet
  <1>3. \A k \in 1 .. n : p[k] \in 1 .. n
    BY <1>2 DEF PackedBy, Rearranges
  <1> HIDE DEF q
  <1>4. ASSUME NEW k \in 1 .. n
        PROVE  XSItem(o, q[k], d, sub, e) = XSItem(o, q[k], d, sub2, f)
    <2> DEFINE x == Loop(o)[p[k]]
    <2>1. q[k] = x
      BY <1>2
    <2>2. ItemOf(x, o, N)
      <3>1. p[k] \in 1 .. Len(Loop(o))
        BY <1>3
      <3> QED BY <3>1, LoopItem
    <2>3. ItemTaken(o, x, e, f) /\ e.utf8 = f.utf8
      BY <1>3 DEF ObjectTaken
    <2> HIDE DEF x
    <2>4. XSItem(o, x, d, sub, e) = XSItem(o, x, d, sub2, f)
      BY <2>2, <2>3, ItemTakenAlike
    <2> QED BY <2>1, <2>4
  <1>5. DOMAIN q = 1 .. n
    BY <1>2
  <1> HIDE DEF n
  <1>6. XSItems(o, d, sub, e) = [k \in 1 .. n |-> XSItem(o, q[k], d, sub, e)]
    BY <1>5 DEF XSItems, q
  <1>7. XSItems(o, d, sub2, f) = [k \in 1 .. n |-> XSItem(o, q[k], d, sub2, f)]
    BY <1>1, <1>5 DEF XSItems
  <1>8. XSItems(o, d, sub, e) = XSItems(o, d, sub2, f)
    BY <1>4, <1>6, <1>7
  <1> QED BY <1>8, Zenon DEF XSObject

LEMMA TablesTakenSame ==
  ASSUME NEW heap, heap \in Seq(Objects(Len(heap))), NEW e \in SettingsSet,
         NEW f \in SettingsSet, HeapTaken(heap, e, f), InOneOrder(heap, e, f),
         NEW C, XSTable(C, heap, e), NEW E, XSTable(E, heap, f), NEW d \in Nat
  PROVE  d > 0 => C[d] = E[d]
  <1> DEFINE N == Len(heap)
             D == 1 .. N
             S == {k \in Nat : k > 0 => C[k] = E[k]}
  <1>1. N \in Nat /\ DOMAIN heap = D /\ \A n \in D : heap[n] \in Objects(N)
    OBVIOUS
  <1>2. /\ C \in [Nat -> [D -> Results]] /\ E \in [Nat -> [D -> Results]]
        /\ \A k \in Nat : \A n \in D : /\ C[k + 1][n] = XSObject(heap[n], k, C[k], e)
                                       /\ E[k + 1][n] = XSObject(heap[n], k, E[k], f)
    BY <1>1 DEF XSTable
  <1> HIDE DEF N, D
  <1>4. 0 \in S
    OBVIOUS
  <1>5. ASSUME NEW k \in Nat, k \in S
        PROVE  k + 1 \in S
    <2>1. ASSUME NEW n \in D
          PROVE  C[k + 1][n] = E[k + 1][n]
      <3> DEFINE o == heap[n]
                 sub == C[k]
                 sub2 == E[k]
      <3>1. o \in Objects(N) /\ ObjectTaken(o, e, f)
        BY <1>1 DEF HeapTaken
      <3>2. sub \in [1 .. N -> Results] /\ sub2 \in [1 .. N -> Results] /\ k \in Int
        BY <1>2 DEF D
      <3>3. k > 0 => sub = sub2
        BY <1>5
      <3>4. C[k + 1][n] = XSObject(o, k, sub, e) /\ E[k + 1][n] = XSObject(o, k, sub2, f)
        BY <1>2
      <3>5. e.canonical = f.canonical \/ (~IsArray(o) => Len(o.pairs) <= 1)
        BY <1>1 DEF InOneOrder
      <3> HIDE DEF o, sub, sub2
      <3>6. XSObject(o, k, sub, e) = XSObject(o, k, sub2, f)
        BY <1>1, <3>1, <3>2, <3>3, <3>5, ObjectTakenSame
      <3> QED BY <3>4, <3>6
    <2> DEFINE a == C[k + 1]
               b == E[k + 1]
    <2>2. a \in [D -> Results] /\ b \in [D -> Results] /\ \A n \in D : a[n] = b[n]
      BY <1>2, <2>1
    <2> HIDE DEF a, b
    <2>3. a = b
      BY <2>2, SameFunction
    <2> QED BY <2>3 DEF a, b
  <1>6. d \in S
    <2> HIDE DEF S
    <2> QED BY <1>4, <1>5, Induction
  <1> QED BY <1>6

(* And the data means the same in either order.                                *)
LEMMA ObjectMeansSame ==
  ASSUME NEW N \in Nat, NEW o \in Objects(N), NEW e, NEW f, ObjectTaken(o, e, f), NEW M
  PROVE  ObjectMeaning(o, M, e) = ObjectMeaning(o, M, f)
  <1>1. ASSUME NEW v, TakenAlike(v, e, f)
        PROVE  /\ ScalarMeaning(v, e) = ScalarMeaning(v, f)
               /\ SVMeaning(v, M, e) = SVMeaning(v, M, f)
    <2>1. ScalarMeaning(v, e) = ScalarMeaning(v, f)
      BY <1>1, ScalarTaken DEF ObjectTaken
    <2> QED BY <2>1, Zenon DEF SVMeaning
  <1>2. CASE IsArray(o)
    <2> DEFINE T == SVs(N) \cup {NoSV}
    <2>1. o.items \in Seq(T) /\ Loop(o) = o.items
      BY <1>2, ObjectFields DEF Loop
    <2> HIDE DEF T
    <2>2. DOMAIN o.items = 1 .. Len(Loop(o))
      BY <2>1
    <2>3. \A i \in DOMAIN o.items : TakenAlike(o.items[i], e, f)
      BY <1>2, <2>1, <2>2 DEF ObjectTaken, ItemTaken
    <2>4. ItemMeanings(o.items, M, e) = ItemMeanings(o.items, M, f)
      BY <1>1, <2>3 DEF ItemMeanings
    <2> QED BY <1>2, <2>4, ObjectMeaningIs, Zenon
  <1>3. CASE ~IsArray(o)
    <2> DEFINE T == Seq(Byte) \X SVs(N)
               n == Len(o.pairs)
    <2>1. o.pairs \in Seq(T) /\ Loop(o) = o.pairs
      BY <1>3, ObjectFields DEF Loop
    <2> HIDE DEF T
    <2>2. n \in Nat /\ DOMAIN o.pairs = 1 .. n
      BY <2>1
    <2>3. \A i \in 1 .. n : /\ TakenAlike(Str(o.pairs[i][1], FALSE), e, f)
                            /\ TakenAlike(o.pairs[i][2], e, f)
      BY <1>3, <2>1 DEF ObjectTaken, ItemTaken
    <2> HIDE DEF n
    <2> DEFINE value(i, g) == LET pair == o.pairs[(i + 1) \div 2] IN
                              IF i % 2 = 1 THEN ScalarMeaning(Str(pair[1], FALSE), g)
                                           ELSE SVMeaning(pair[2], M, g)
    <2>4. ASSUME NEW i \in 1 .. 2 * n
          PROVE  value(i, e) = value(i, f)
      <3> DEFINE j == (i + 1) \div 2
      <3>1. j \in 1 .. n
        BY <2>2
      <3> HIDE DEF j
      <3>2. /\ ScalarMeaning(Str(o.pairs[j][1], FALSE), e) = ScalarMeaning(Str(o.pairs[j][1], FALSE), f)
            /\ SVMeaning(o.pairs[j][2], M, e) = SVMeaning(o.pairs[j][2], M, f)
        BY <1>1, <2>3, <3>1
      <3> QED BY <3>2, Zenon DEF j
    <2>5. \A g : PairMeanings(o.pairs, M, g) = [i \in 1 .. 2 * n |-> value(i, g)]
      BY DEF PairMeanings, n
    <2> HIDE DEF value
    <2>6. PairMeanings(o.pairs, M, e) = PairMeanings(o.pairs, M, f)
      BY <2>4, <2>5
    <2> QED BY <1>3, <2>6, ObjectMeaningIs, Zenon
  <1> QED BY <1>2, <1>3

LEMMA MeanSame ==
  ASSUME NEW heap, heap \in Seq(Objects(Len(heap))), NEW e, NEW f, HeapTaken(heap, e, f),
         NEW d \in Nat
  PROVE  Meanings(heap, e)[d] = Meanings(heap, f)[d]
  <1> DEFINE N == Len(heap)
             D == 1 .. N
             M == Meanings(heap, e)
             L == Meanings(heap, f)
             S == {k \in Nat : M[k] = L[k]}
  <1>1. N \in Nat /\ DOMAIN heap = D /\ \A n \in D : heap[n] \in Objects(N)
    OBVIOUS
  <1>2. /\ M[0] = NoMeanings(heap) /\ L[0] = NoMeanings(heap)
        /\ \A k \in Nat : M[k + 1] = MeaningRow(heap, M[k], e)
        /\ \A k \in Nat : L[k + 1] = MeaningRow(heap, L[k], f)
    BY MeaningsAre
  <1> HIDE DEF M, L, N, D
  <1>3. 0 \in S
    BY <1>2
  <1>4. ASSUME NEW k \in Nat, k \in S
        PROVE  k + 1 \in S
    <2> DEFINE m == M[k]
    <2>1. \A n \in D : ObjectMeaning(heap[n], m, e) = ObjectMeaning(heap[n], m, f)
      <3> HIDE DEF m
      <3> QED BY <1>1, ObjectMeansSame DEF HeapTaken
    <2> HIDE DEF m
    <2>2. MeaningRow(heap, m, e) = MeaningRow(heap, m, f)
      BY <1>1, <2>1 DEF MeaningRow
    <2>3. M[k] = m /\ L[k] = m
      BY <1>4 DEF m
    <2>4. M[k + 1] = L[k + 1]
      BY <1>2, <2>2, <2>3
    <2> QED BY <2>4
  <1>5. d \in S
    <2> HIDE DEF S
    <2> QED BY <1>3, <1>4, Induction
  <1> QED BY <1>5 DEF M, L

LEMMA StableSame ==
  ASSUME NEW heap, heap \in Seq(Objects(Len(heap))), NEW e, NEW f, HeapTaken(heap, e, f),
         AllStable(heap, e)
  PROVE  AllStable(heap, f)
  <1> SUFFICES ASSUME NEW n \in DOMAIN heap, ~IsArray(heap[n])
               PROVE  Different(heap[n].pairs, f)
    BY DEF AllStable, Stable
  <1> DEFINE N == Len(heap)
             T == Seq(Byte) \X SVs(N)
             o == heap[n]
  <1>1. o \in Objects(N) /\ N \in Nat
    OBVIOUS
  <1>2. Different(o.pairs, e) /\ ObjectTaken(o, e, f)
    BY DEF AllStable, Stable, HeapTaken
  <1> HIDE DEF N, o
  <1>3. o.pairs \in Seq(T) /\ Loop(o) = o.pairs
    BY <1>1, ObjectFields DEF Loop, o
  <1> HIDE DEF T
  <1>4. \A i \in 1 .. Len(o.pairs) : KeyOfPair(o.pairs[i], e) = KeyOfPair(o.pairs[i], f)
    <2> SUFFICES ASSUME NEW i \in 1 .. Len(o.pairs)
                 PROVE  KeyOfPair(o.pairs[i], e) = KeyOfPair(o.pairs[i], f)
      OBVIOUS
    <2>1. TakenAlike(Str(o.pairs[i][1], FALSE), e, f) /\ e.utf8 = f.utf8
      BY <1>2, <1>3 DEF ObjectTaken, ItemTaken, o
    <2> QED BY <2>1, ScalarTaken, Zenon DEF KeyOfPair
  <1>5. Different(o.pairs, f)
    BY <1>2, <1>4 DEF Different
  <1> QED BY <1>5 DEF o

-------------------------------------------------------------------------------
(* The settings of the pure Perl packer, as those of XS.                       *)
PPEnc(c) ==
  [prefer_int |-> PPSettings(c).prefer_integer, canonical |-> PPSettings(c).canonical,
   utf8 |-> PPSettings(c).utf8]

(* While a call runs it is one on the class or an object of the program.       *)
SelfHolds == result # "none" => call.self \in Selves

LEMMA SelfKept ==
  ASSUME TypeOK, SelfHolds, [ClientNext]_<<vars, earlier>>
  PROVE  SelfHolds'
  <1>1. ASSUME NEW c \in Arguments, Call(c)
        PROVE  SelfHolds'
    <2>1. c.self \in Selves
      BY DEF Arguments
    <2> QED BY <1>1, <2>1 DEF Call, SelfHolds
  <1>2. CASE Begin
    BY <1>1, <1>2 DEF Begin
  <1>3. CASE Again
    BY <1>1, <1>3, AgainIsACall DEF Anew
  <1>4. CASE Step
    BY <1>4, StepKeeps DEF SelfHolds
  <1>5. CASE SetPreferInteger
    BY <1>5 DEF SetPreferInteger, SelfHolds
  <1>6. CASE Return
    BY <1>6 DEF Return, SelfHolds
  <1>7. CASE UNCHANGED <<vars, earlier>>
    BY <1>7 DEF vars, SelfHolds
  <1> QED BY <1>2, <1>3, <1>4, <1>5, <1>6, <1>7 DEF ClientNext

SettingsInv == SettingsHold /\ SelfHolds

LEMMA SettingsInvariant == ClientSpec => []SettingsInv
  <1>1. ClientInit => SettingsInv
    BY DEF ClientInit, Init, SettingsInv, SettingsHold, SelfHolds
  <1>2. TypeOK /\ SettingsInv /\ [ClientNext]_<<vars, earlier>> => SettingsInv'
    BY SettingsKept, SelfKept DEF SettingsInv
  <1> QED BY <1>1, <1>2, ClientType, PTL DEF ClientSpec

(* How the settings of the two packers are related.                            *)
Mirrors(f) ==
  /\ f \in SettingsSet /\ f.utf8 = enc.utf8
  /\ f.prefer_int <=> (enc.prefer_int /\ ~OnlyXSPrefers)

LEMMA SettingsMirror ==
  ASSUME TypeOK, SettingsInv, result # "none", NEW c \in BOOLEAN
  PROVE  /\ Mirrors(PPEnc(c)) /\ PPSelf(PPEnc(c)) = PPSettings(c)
         /\ call.self.canonical # "absent" => enc.canonical = PPEnc(c).canonical
  <1> DEFINE self == call.self
             P == PreferInteger
             pp == PP_Self(self, P, c)
  <1>0. P \in BOOLEAN
    BY DEF TypeOK
  <1>1. PPSettings(c) = pp
    BY DEF PPSettings
  <1>2. self \in Selves
    BY DEF SettingsInv, SelfHolds
  <1>3. /\ enc.prefer_int = (IF self.prefer_integer = "absent" THEN P ELSE self.prefer_integer = "on")
        /\ self.canonical # "absent" => enc.canonical = (self.canonical = "on")
        /\ enc.utf8 = (self.utf8 = "on")
    BY DEF SettingsInv, SettingsHold, Settings
  <1>4. OnlyXSPrefers <=> (P /\ self.on = "object" /\ self.prefer_integer = "absent")
    BY DEF OnlyXSPrefers
  <1> HIDE DEF self, P
  <1>5. CASE self = TheClass
    <2>1. /\ self.on = "class" /\ self.prefer_integer = "absent"
          /\ self.canonical = "absent" /\ self.utf8 = "absent"
      BY <1>5 DEF TheClass
    <2>2. pp = [prefer_integer |-> P, canonical |-> c, utf8 |-> FALSE]
      BY <2>1, Zenon DEF PP_Self
    <2>3. PPEnc(c) = [prefer_int |-> P, canonical |-> c, utf8 |-> FALSE]
      BY <1>1, <2>2 DEF PPEnc
    <2>4. Mirrors(PPEnc(c))
      <3>1. ~OnlyXSPrefers
        BY <1>4, <2>1
      <3>2. enc.prefer_int = P /\ enc.utf8 = FALSE
        BY <1>3, <2>1
      <3>3. /\ PPEnc(c).prefer_int = P /\ PPEnc(c).utf8 = FALSE
            /\ PPEnc(c) \in SettingsSet
        BY <1>0, <2>3 DEF SettingsSet
      <3> QED BY <3>1, <3>2, <3>3, Zenon DEF Mirrors
    <2>5. PPSelf(PPEnc(c)) = pp
      BY <2>2, <2>3 DEF PPSelf
    <2> QED BY <1>1, <2>1, <2>4, <2>5 DEF self
  <1>6. CASE self # TheClass
    <2> DEFINE a == self.prefer_integer = "on"
               b == self.canonical = "on"
               u == self.utf8 = "on"
    <2>1. /\ self.on = "object" /\ self.prefer_integer \in {"on", "off", "absent"}
          /\ self.canonical \in {"on", "off", "absent"}
      BY <1>2, <1>6, SelvesAssumption
    <2>2. pp = [prefer_integer |-> a, canonical |-> b, utf8 |-> u]
      BY <2>1, Zenon DEF PP_Self
    <2>3. /\ a \in BOOLEAN /\ b \in BOOLEAN /\ u \in BOOLEAN
          /\ enc.utf8 = u /\ (self.canonical # "absent" => enc.canonical = b)
          /\ a <=> (enc.prefer_int /\ ~OnlyXSPrefers)
      BY <1>0, <1>3, <1>4, <2>1
    <2> HIDE DEF a, b, u
    <2>4. PPEnc(c) = [prefer_int |-> a, canonical |-> b, utf8 |-> u]
      BY <1>1, <2>2 DEF PPEnc
    <2>5. Mirrors(PPEnc(c))
      BY <2>3, <2>4 DEF Mirrors, SettingsSet
    <2>6. PPSelf(PPEnc(c)) = pp
      BY <2>2, <2>4 DEF PPSelf
    <2> QED BY <1>1, <2>3, <2>4, <2>5, <2>6 DEF self
  <1> QED BY <1>5, <1>6

-------------------------------------------------------------------------------
(* The rules for the data of the call.                                         *)
RulesNow ==
  [alike |-> IF ~LongerHeader THEN "bytes" ELSE IF Steady THEN "values" ELSE "nothing",
   nesting |-> IF CountsMore THEN "more" ELSE "same"]

LEMMA LongerIs ==
  /\ ~LongerHeader => \A v \in AllStrings : Len(v.pv) \notin LongSizes
  /\ ~LongerHeader => \A n \in DOMAIN call.heap : Counted(call.heap[n]) # 65535
  <1> DEFINE S == {255, 65535}
             L == 65535
  <1>1. LongerHeader <=> \/ \E v \in AllStrings : Len(v.pv) \in S
                         \/ \E n \in DOMAIN call.heap : Counted(call.heap[n]) = L
    BY DEF LongerHeader
  <1>2. LongSizes = S
    BY DEF LongSizes
  <1> HIDE DEF S, L
  <1>3. ~LongerHeader => \A n \in DOMAIN call.heap : Counted(call.heap[n]) # L
    BY <1>1, Zenon
  <1>4. ~LongerHeader => \A v \in AllStrings : Len(v.pv) \notin LongSizes
    BY <1>1, <1>2, Zenon
  <1> QED BY <1>3, <1>4 DEF L

LEMMA RulesAre ==
  /\ RulesNow \in Rules
  /\ RulesNow.alike = "bytes" <=> ~LongerHeader
  /\ RulesNow.alike = "values" <=> LongerHeader /\ Steady
  /\ RulesNow.nesting = "more" <=> CountsMore
  <1> DEFINE a == IF ~LongerHeader THEN "bytes" ELSE IF Steady THEN "values" ELSE "nothing"
             b == IF CountsMore THEN "more" ELSE "same"
  <1>1. /\ a \in {"bytes", "values", "nothing"} /\ b \in {"more", "same"}
        /\ a = "bytes" <=> ~LongerHeader
        /\ a = "values" <=> LongerHeader /\ Steady
        /\ b = "more" <=> CountsMore
    OBVIOUS
  <1>2. RulesNow = [alike |-> a, nesting |-> b]
    BY DEF RulesNow
  <1> HIDE DEF a, b
  <1> QED BY <1>1, <1>2 DEF Rules

(* The data of the call is such that the packers agree by them.                *)
LEMMA FitsNow ==
  ASSUME Comparable, NEW f, Mirrors(f), NEW v \in AllSVs, v # NoSV, Held(v)
  PROVE  SVFits(RulesNow, v, f) /\ TakenAlike(v, enc, f)
  <1> DEFINE u == RulesNow
  <1>1. ASSUME IsString(v)
        PROVE  /\ StringFits(u, v.pv, f)
               /\ (enc.prefer_int /\ IsInt(v.pv)) <=> (f.prefer_int /\ IsInt(v.pv))
    <2>1. v \in AllStrings
      BY <1>1 DEF AllStrings
    <2>2. /\ f.prefer_int => (IsInt(v.pv) <=> PP_IsInt(v.pv))
          /\ (enc.prefer_int /\ IsInt(v.pv)) <=> (f.prefer_int /\ IsInt(v.pv))
      <3> DEFINE i == IsInt(v.pv)
                 j == PP_IsInt(v.pv)
      <3>1. enc.prefer_int => IF OnlyXSPrefers THEN ~i ELSE i = j
        BY <2>1, Zenon DEF Comparable
      <3>2. f.prefer_int <=> (enc.prefer_int /\ ~OnlyXSPrefers)
        BY DEF Mirrors
      <3> HIDE DEF i, j
      <3>3. (f.prefer_int => (i <=> j)) /\ ((enc.prefer_int /\ i) <=> (f.prefer_int /\ i))
        BY <3>1, <3>2, Zenon
      <3> QED BY <3>3 DEF i, j
    <2>3. f.prefer_int /\ IsInt(v.pv) => u.nesting = "more"
      <3>1. enc.prefer_int /\ IsInt(v.pv) => CountsMore
        BY <2>1, Zenon DEF CountsMore
      <3> QED BY <2>2, <3>1, RulesAre
    <2>4. SizeHeld(Len(v.pv))
      BY <1>1 DEF Held
    <2>5. SameSize(u, Len(v.pv))
      <3>1. ~LongerHeader => Len(v.pv) \notin LongSizes
        BY <2>1, LongerIs
      <3> QED BY <3>1, RulesAre DEF SameSize
    <2> QED BY <2>2, <2>3, <2>4, <2>5 DEF StringFits
  <1>2. "scalar" \notin DOMAIN v
    BY DEF Comparable
  <1>3. SVFits(u, v, f)
    BY <1>1, <1>2 DEF SVFits
  <1>4. TakenAlike(v, enc, f)
    BY <1>1 DEF TakenAlike
  <1> QED BY <1>3, <1>4

LEMMA ItemFitsNow ==
  ASSUME TypeOK, Comparable, NEW f, Mirrors(f), NEW n \in DOMAIN call.heap, NEW o, o = call.heap[n],
         NEW i \in 1 .. Len(Loop(o))
  PROVE  ItemFits(RulesNow, o, Loop(o)[i], f) /\ ItemTaken(o, Loop(o)[i], enc, f)
  <1> DEFINE N == Len(call.heap)
             u == RulesNow
             x == Loop(o)[i]
  <1>1. o \in Objects(N) /\ N \in Nat
    BY HeapType
  <1>2. \A v \in SVsIn(o) : Held(v) /\ v \in AllSVs
    <2>1. HeldObject(o)
      BY HeldHeap
    <2> QED BY <2>1 DEF HeldObject, AllSVs
  <1>3. ASSUME NEW v \in SVsIn(o), v # NoSV
        PROVE  SVFits(u, v, f) /\ TakenAlike(v, enc, f)
    BY <1>2, <1>3, FitsNow
  <1> HIDE DEF N, u
  <1>4. CASE IsArray(o)
    <2> DEFINE T == SVs(N) \cup {NoSV}
    <2>1. o.items \in Seq(T) /\ Loop(o) = o.items
      BY <1>1, <1>4, ObjectFields DEF Loop
    <2> HIDE DEF T
    <2>2. i \in DOMAIN o.items
      BY <2>1
    <2>3. x \in Range(o.items)
      BY <2>1, <2>2 DEF Range
    <2>4. x # NoSV => SVFits(u, x, f) /\ TakenAlike(x, enc, f)
      <3>1. x # NoSV => x \in SVsIn(o)
        BY <1>4, <2>3 DEF SVsIn
      <3> HIDE DEF x
      <3> QED BY <1>3, <3>1
    <2>5. x = NoSV => SVFits(u, x, f) /\ TakenAlike(x, enc, f)
      <3>1. x = NoSV => CountsMore
        BY <1>4, <2>3 DEF CountsMore
      <3>2. x = NoSV => u.nesting = "more"
        BY <3>1, RulesAre DEF u
      <3>3. x = NoSV => SVFits(u, x, f)
        BY <3>2 DEF SVFits
      <3>4. x = NoSV => TakenAlike(x, enc, f)
        BY DEF TakenAlike, IsString, NoSV
      <3> QED BY <3>3, <3>4
    <2> HIDE DEF x
    <2>6. ItemFits(u, o, x, f) /\ ItemTaken(o, x, enc, f)
      BY <1>4, <2>4, <2>5 DEF ItemFits, ItemTaken
    <2> QED BY <2>6 DEF u, x
  <1>5. CASE ~IsArray(o)
    <2> DEFINE T == Seq(Byte) \X SVs(N)
    <2>1. o.pairs \in Seq(T) /\ Loop(o) = o.pairs
      BY <1>1, <1>5, ObjectFields DEF Loop
    <2>2. x \in T
      <3> HIDE DEF T
      <3> QED BY <2>1
    <2>3. x[2] \in SVs(N) /\ Str(x[1], FALSE) \in SVs(N)
      <3> HIDE DEF x, N
      <3> QED BY <1>1, <2>2, KeysAreSVs
    <2> HIDE DEF T
    <2>4. i \in DOMAIN o.pairs
      BY <2>1
    <2>5. x \in Range(o.pairs)
      BY <2>1, <2>4 DEF Range
    <2> HIDE DEF x
    <2> DEFINE k == Str(x[1], FALSE)
               v == x[2]
    <2>6. k \in SVsIn(o) /\ v \in SVsIn(o)
      BY <1>5, <2>5 DEF SVsIn
    <2>7. k # NoSV /\ v # NoSV
      <3> HIDE DEF k, v
      <3> QED BY <1>1, <2>3, SVKind DEF k, v
    <2>8. /\ SVFits(u, k, f) /\ SVFits(u, v, f)
          /\ TakenAlike(k, enc, f) /\ TakenAlike(v, enc, f)
      <3> HIDE DEF k, v
      <3> QED BY <1>3, <2>6, <2>7
    <2>9. ItemFits(u, o, x, f) /\ ItemTaken(o, x, enc, f)
      BY <1>5, <2>8 DEF ItemFits, ItemTaken
    <2> QED BY <2>9 DEF u, x
  <1> QED BY <1>4, <1>5

LEMMA CountFitsNow ==
  ASSUME TypeOK, NEW n \in DOMAIN call.heap, NEW o, o = call.heap[n]
  PROVE  CountFits(RulesNow, o)
  <1>1. HeldObject(o)
    BY HeldHeap
  <1>2. SizeHeld(Counted(o))
    BY <1>1 DEF HeldObject, Counted, Loop
  <1>3. RulesNow.alike = "bytes" => Counted(o) # 65535
    <2>1. ~LongerHeader => Counted(o) # 65535
      <3> DEFINE L == 65535
      <3>1. ~LongerHeader => \A k \in DOMAIN call.heap : Counted(call.heap[k]) # L
        BY LongerIs
      <3> HIDE DEF L
      <3>2. ~LongerHeader => Counted(o) # L
        BY <3>1
      <3> QED BY <3>2 DEF L
    <2> QED BY <2>1, RulesAre
  <1>4. RulesNow.alike = "values" => Counted(o) = Len(Loop(o))
    <2>1. IsArray(o) => Counted(o) = Len(Loop(o))
      BY DEF Counted, Loop
    <2>2. ~IsArray(o) /\ Steady => Counted(o) = Len(Loop(o))
      <3>1. ~IsArray(o) => o \in Hashes
        BY DEF Hashes
      <3> QED BY <3>1 DEF Steady, Counted, Loop
    <2> QED BY <2>1, <2>2, RulesAre
  <1> QED BY <1>2, <1>3, <1>4 DEF CountFits

LEMMA HeapFitsNow ==
  ASSUME TypeOK, Comparable, NEW f, Mirrors(f)
  PROVE  HeapFits(RulesNow, call.heap, f) /\ HeapTaken(call.heap, enc, f)
  <1>1. ASSUME NEW n \in DOMAIN call.heap
        PROVE  ObjectFits(RulesNow, call.heap[n], f) /\ ObjectTaken(call.heap[n], enc, f)
    <2> DEFINE o == call.heap[n]
    <2>1. CountFits(RulesNow, o)
      BY CountFitsNow
    <2>2. \A i \in 1 .. Len(Loop(o)) :
            ItemFits(RulesNow, o, Loop(o)[i], f) /\ ItemTaken(o, Loop(o)[i], enc, f)
      BY ItemFitsNow
    <2> HIDE DEF o
    <2>3. ObjectFits(RulesNow, o, f) /\ ObjectTaken(o, enc, f)
      BY <2>1, <2>2 DEF ObjectFits, ObjectTaken, Mirrors
    <2> QED BY <2>3 DEF o
  <1> QED BY <1>1 DEF HeapFits, HeapTaken

LEMMA OrderNow ==
  ASSUME TypeOK, SettingsInv, result # "none", NEW c \in BOOLEAN,
         SameOrder(PPSettings(c).canonical)
  PROVE  InOneOrder(call.heap, enc, PPEnc(c))
  <1>1. PPEnc(c).canonical = PPSettings(c).canonical
    BY DEF PPEnc
  <1>2. call.self.canonical # "absent" => enc.canonical = PPEnc(c).canonical
    BY SettingsMirror
  <1>3. (\A o \in Hashes : Len(o.pairs) <= 1) =>
          \A n \in DOMAIN call.heap : ~IsArray(call.heap[n]) => Len(call.heap[n].pairs) <= 1
    BY DEF Hashes
  <1> QED BY <1>1, <1>2, <1>3 DEF SameOrder, InOneOrder

-------------------------------------------------------------------------------
(* How the two packers agree, where x is what XS makes of the data and q what  *)
(* the pure Perl packer does.                                                  *)
SameValue(x, q) == Decode(q.bytes, FALSE).val = Decode(x.bytes, FALSE).val

AgreeNow(x, q, sameOrder) ==
  \/ x.status = q.status
       /\ (x.status = "packed" =>
             IF sameOrder
             THEN IF LongerHeader THEN Steady => SameValue(x, q) ELSE q.bytes = x.bytes
             ELSE Steady /\ KeysApart => SameValue(x, q))
  \/ q.status = "nesting" /\ CountsMore
  \/ ~sameOrder /\ q.status # "packed" /\ x.status # "packed"

LEMMA ReadAlike ==
  ASSUME NEW x \in Results, NEW q \in Results, NEW m, Yields(x.bytes, m), Yields(q.bytes, m)
  PROVE  SameValue(x, q)
  <1> DEFINE b == x.bytes
             c == q.bytes
  <1>1. b \in Seq(Byte) /\ c \in Seq(Byte) /\ Yields(b, m) /\ Yields(c, m)
    BY ResultFields
  <1> HIDE DEF b, c
  <1>2. Decode(b, FALSE).val = m /\ Decode(c, FALSE).val = m
    BY <1>1, DecodedAs
  <1> QED BY <1>2 DEF SameValue, b, c

(* r is what XS makes of it with the settings of the pure Perl packer.         *)
LEMMA AgreeInOrder ==
  ASSUME NEW r \in Results, NEW q \in Results, Agree(RulesNow, r, q)
  PROVE  AgreeNow(r, q, TRUE)
  <1>1. CASE MoreLevels(RulesNow, q)
    BY <1>1, RulesAre DEF MoreLevels, AgreeNow
  <1>2. CASE ~MoreLevels(RulesNow, q)
    <2>1. r.status = q.status /\ (r.status = "packed" => AlikeOne(RulesNow, r.bytes, q.bytes))
      BY <1>2 DEF Agree
    <2>2. ASSUME r.status = "packed", ~LongerHeader
          PROVE  q.bytes = r.bytes
      BY <2>1, <2>2, RulesAre DEF AlikeOne
    <2>3. ASSUME r.status = "packed", LongerHeader, Steady
          PROVE  SameValue(r, q)
      <3>1. PICK m : Yields(r.bytes, m) /\ Yields(q.bytes, m)
        BY <2>1, <2>3, RulesAre DEF AlikeOne
      <3> QED BY <3>1, ReadAlike
    <2> QED BY <2>1, <2>2, <2>3 DEF AgreeNow
  <1> QED BY <1>1, <1>2

LEMMA AgreeOutOfOrder ==
  ASSUME NEW x \in Results, NEW r \in Results, NEW q \in Results, Agree(RulesNow, r, q),
         PackedAlike(x, r), NEW m,
         Steady /\ KeysApart => ReadsAs(x, m) /\ ReadsAs(r, m)
  PROVE  AgreeNow(x, q, FALSE)
  <1>1. CASE MoreLevels(RulesNow, q)
    BY <1>1, RulesAre DEF MoreLevels, AgreeNow
  <1>2. CASE ~MoreLevels(RulesNow, q)
    <2>1. r.status = q.status /\ (r.status = "packed" => AlikeOne(RulesNow, r.bytes, q.bytes))
      BY <1>2 DEF Agree
    <2>2. CASE x.status # "packed"
      <3>1. q.status # "packed"
        BY <2>1, <2>2 DEF PackedAlike
      <3> QED BY <2>2, <3>1 DEF AgreeNow
    <2>3. CASE x.status = "packed"
      <3>1. r.status = "packed" /\ q.status = "packed"
        BY <2>1, <2>3 DEF PackedAlike
      <3>2. ASSUME Steady, KeysApart
            PROVE  SameValue(x, q)
        <4>1. Yields(x.bytes, m) /\ Yields(r.bytes, m)
          BY <2>3, <3>1, <3>2 DEF ReadsAs
        <4>2. CASE ~LongerHeader
          <5>1. q.bytes = r.bytes
            BY <2>1, <3>1, <4>2, RulesAre DEF AlikeOne
          <5> QED BY <4>1, <5>1, ReadAlike
        <4>3. CASE LongerHeader
          <5>1. PICK l : Yields(r.bytes, l) /\ Yields(q.bytes, l)
            BY <2>1, <3>1, <3>2, <4>3, RulesAre DEF AlikeOne
          <5>2. SameValue(x, r) /\ SameValue(r, q)
            BY <4>1, <5>1, ReadAlike
          <5> QED BY <5>2 DEF SameValue
        <4> QED BY <4>2, <4>3
      <3> QED BY <2>3, <3>1, <3>2 DEF AgreeNow
    <2> QED BY <2>2, <2>3
  <1> QED BY <1>1, <1>2

(* The argument of a call that runs or has run.                                *)
LEMMA ArgumentNow ==
  ASSUME TypeOK
  PROVE  /\ call.val \in SVs(Len(call.heap)) /\ Held(call.val) /\ call.val # NoSV
         /\ call.heap \in Seq(Objects(Len(call.heap))) /\ Len(call.heap) \in Nat
         /\ call.depth \in Int /\ enc \in SettingsSet /\ out \in Seq(Byte)
  <1>1. /\ call.heap \in Seq(Objects(Len(call.heap))) /\ Len(call.heap) \in Nat
        /\ call.depth \in Int /\ enc \in SettingsSet /\ out \in Seq(Byte)
    BY HeapType DEF TypeOK, SettingsSet
  <1>2. CASE call \in Arguments
    <2>1. call.val \in SVs(Len(call.heap)) /\ Held(call.val)
      BY <1>2, HeldArgument
    <2> QED BY <1>1, <2>1, SVKind
  <1>3. CASE call = NoCall
    <2>1. call.val = Undef
      BY <1>3 DEF NoCall
    <2>2. call.val \in SVs(Len(call.heap)) /\ Held(call.val)
      BY <2>1 DEF Undef, SVs, Held, IsString
    <2> QED BY <1>1, <2>2, SVKind
  <1> QED BY <1>1, <1>2, <1>3 DEF TypeOK

(* What both make of the argument, where the tables C and E are those of XS    *)
(* with its own settings and with those of the pure Perl packer.               *)
LEMMA TypesNow ==
  ASSUME TypeOK, NEW f \in SettingsSet, NEW E, XSTable(E, call.heap, f)
  PROVE  /\ XSAt(call.val, call.depth, E, f) \in Results
         /\ PP_PackSV(call.val, call.depth, PPRow(call.heap, f, call.depth), PPSelf(f))
              \in Results
  <1> DEFINE N == Len(call.heap)
             d == call.depth
             v == call.val
             low == PPRow(call.heap, f, d)
  <1>1. /\ v \in SVs(N) /\ N \in Nat /\ d \in Int
        /\ call.heap \in Seq(Objects(N)) /\ DOMAIN call.heap = 1 .. N
    BY ArgumentNow, HeapType
  <1>2. At(E, d) \in [1 .. N -> Results]
    <2>1. E \in [Nat -> [1 .. N -> Results]]
      BY <1>1 DEF XSTable
    <2>2. (IF d <= 0 THEN 0 ELSE d) \in Nat
      BY <1>1
    <2> QED BY <2>1, <2>2 DEF At
  <1>3. XSAt(v, d, E, f) \in Results
    BY <1>1, <1>2, XSPackSVType DEF XSAt
  <1>4. CASE d > 0
    <2>1. d \in Nat
      BY <1>1, <1>4
    <2>2. low \in [1 .. N -> Results]
      BY <2>1, ArgumentNow, PPRowType
    <2> HIDE DEF low, N, d, v
    <2>3. PP_PackSV(v, d, low, PPSelf(f)) \in Results
      BY <1>1, <2>2, PPPackSVType
    <2> QED BY <1>3, <2>3 DEF low, N, d, v
  <1>5. CASE ~(d > 0)
    <2>1. d <= 0
      BY <1>1, <1>5
    <2>2. PP_PackSV(v, d, low, PPSelf(f)) = PP_died("nesting")
      BY <2>1 DEF PP_PackSV
    <2> QED BY <1>3, <2>2 DEF Results
  <1> QED BY <1>4, <1>5

LEMMA PPAgreesNow ==
  ASSUME TypeOK, Comparable, NEW f, Mirrors(f), NEW E, XSTable(E, call.heap, f)
  PROVE  Agree(RulesNow, XSAt(call.val, call.depth, E, f),
               PP_PackSV(call.val, call.depth, PPRow(call.heap, f, call.depth), PPSelf(f)))
  <1> DEFINE N == Len(call.heap)
             heap == call.heap
             d == call.depth
             v == call.val
             u == RulesNow
             low == PPRow(heap, f, d)
             sub == At(E, d)
  <1>1. /\ v \in SVs(N) /\ Held(v) /\ v # NoSV /\ N \in Nat /\ d \in Int
        /\ heap \in Seq(Objects(Len(heap))) /\ f \in SettingsSet /\ u \in Rules
    BY ArgumentNow, RulesAre DEF Mirrors
  <1>2. SVFits(u, v, f)
    BY <1>1, FitsNow DEF AllSVs
  <1>3. HeapFits(u, heap, f)
    BY HeapFitsNow
  <1>4. ReferredAgree(u, sub, low, N, d)
    <2>1. CASE d > 0
      <3>1. d \in Nat
        BY <1>1, <2>1
      <3>2. sub = E[d]
        BY <3>1, AtDepth
      <3> HIDE DEF sub, low, u, d, heap
      <3>3. ReferredAgree(u, E[d], PPRow(heap, f, d), Len(heap), d)
        BY <1>1, <1>3, <3>1, TablesAgree DEF heap
      <3> QED BY <3>2, <3>3 DEF low, heap
    <2>2. CASE ~(d > 0)
      BY <2>2 DEF ReferredAgree
    <2> QED BY <2>1, <2>2
  <1> HIDE DEF N, heap, d, v, u, low, sub
  <1>5. Agree(u, XSPackSV(v, d, sub, f), PP_PackSV(v, d, low, PPSelf(f)))
    BY <1>1, <1>2, <1>4, AgreeSV
  <1> QED BY <1>5 DEF N, heap, d, v, u, low, sub, XSAt

LEMMA XSAgreesNow ==
  ASSUME TypeOK, Comparable, NEW f, Mirrors(f),
         NEW C, XSTable(C, call.heap, enc), NEW E, XSTable(E, call.heap, f)
  PROVE  LET x == XSAt(call.val, call.depth, C, enc)
             r == XSAt(call.val, call.depth, E, f)
         IN /\ PackedAlike(x, r)
            /\ InOneOrder(call.heap, enc, f) => x = r
            /\ Steady /\ KeysApart =>
                 \E m : ReadsAs(x, m) /\ ReadsAs(r, m)
  <1> DEFINE N == Len(call.heap)
             heap == call.heap
             d == call.depth
             v == call.val
             sub == At(C, d)
             sub2 == At(E, d)
             M == Meanings(heap, enc)[d]
             L == Meanings(heap, f)[d]
  <1>1. /\ v \in SVs(N) /\ Held(v) /\ v # NoSV /\ N \in Nat /\ d \in Int
        /\ heap \in Seq(Objects(Len(heap))) /\ f \in SettingsSet /\ enc \in SettingsSet
        /\ enc.utf8 = f.utf8
    BY ArgumentNow DEF Mirrors
  <1>2. TakenAlike(v, enc, f)
    BY <1>1, FitsNow DEF AllSVs
  <1>3. HeapTaken(heap, enc, f)
    BY HeapFitsNow
  <1>4. ASSUME d > 0
        PROVE  /\ d \in Nat /\ sub = C[d] /\ sub2 = E[d]
    <2>1. d \in Nat
      BY <1>1, <1>4
    <2> QED BY <2>1, AtDepth
  <1>5. SubsAlike(sub, sub2, N, d)
    <2>1. CASE d > 0
      <3> HIDE DEF sub, sub2, d, heap
      <3>1. SubsAlike(C[d], E[d], Len(heap), d)
        BY <1>1, <1>3, <1>4, <2>1, TablesTakenAlike DEF heap
      <3> QED BY <1>4, <2>1, <3>1 DEF heap
    <2>2. CASE ~(d > 0)
      BY <2>2 DEF SubsAlike
    <2> QED BY <2>1, <2>2
  <1>6. InOneOrder(heap, enc, f) => (d > 0 => sub = sub2)
    <2> HIDE DEF sub, sub2, d, heap
    <2> QED BY <1>1, <1>3, <1>4, TablesTakenSame DEF heap
  <1>7. ASSUME Steady, KeysApart
        PROVE  /\ ReferredRead(sub, M, N, d) /\ ReferredRead(sub2, L, N, d)
               /\ d > 0 => M = L
    <2>1. AllStable(heap, enc)
      BY <1>7, StableHeap
    <2>2. AllStable(heap, f)
      <3> HIDE DEF heap
      <3> QED BY <1>1, <1>3, <2>1, StableSame
    <2>3. CASE d > 0
      <3> HIDE DEF sub, sub2, d, heap
      <3>1. /\ ReferredRead(C[d], Meanings(heap, enc)[d], Len(heap), d)
            /\ ReferredRead(E[d], Meanings(heap, f)[d], Len(heap), d)
        BY <1>1, <1>4, <2>1, <2>2, <2>3, TablesRead DEF heap
      <3>2. Meanings(heap, enc)[d] = Meanings(heap, f)[d]
        BY <1>1, <1>3, <1>4, <2>3, MeanSame
      <3> QED BY <1>4, <2>3, <3>1, <3>2 DEF heap
    <2>4. CASE ~(d > 0)
      BY <2>4 DEF ReferredRead
    <2> QED BY <2>3, <2>4
  <1> HIDE DEF N, heap, d, v, sub, sub2, M, L
  <1> DEFINE x == XSPackSV(v, d, sub, enc)
             r == XSPackSV(v, d, sub2, f)
  <1>8. PackedAlike(x, r) /\ ((d > 0 => sub = sub2) => x = r)
    BY <1>1, <1>2, <1>5, SVTaken
  <1>9. ASSUME Steady, KeysApart
        PROVE  \E m : ReadsAs(x, m) /\ ReadsAs(r, m)
    <2>1. ReadsAs(x, SVMeaning(v, M, enc)) /\ ReadsAs(r, SVMeaning(v, L, f))
      BY <1>1, <1>7, <1>9, SVReadAs
    <2>2. CASE d > 0
      <3>1. ScalarMeaning(v, enc) = ScalarMeaning(v, f)
        BY <1>1, <1>2, ScalarTaken
      <3>2. SVMeaning(v, M, enc) = SVMeaning(v, L, f)
        BY <1>7, <1>9, <2>2, <3>1, Zenon DEF SVMeaning
      <3> QED BY <2>1, <3>2
    <2>3. CASE ~(d > 0)
      <3>1. x = PP_died("nesting") /\ r = PP_died("nesting")
        <4>1. d <= 0
          BY <1>1, <2>3
        <4> QED BY <1>1, <4>1, Zenon DEF XSPackSV
      <3> HIDE DEF x, r
      <3>2. ReadsAs(x, 0) /\ ReadsAs(r, 0)
        BY <3>1, DiedFields DEF ReadsAs
      <3> QED BY <3>2
    <2> QED BY <2>2, <2>3
  <1> QED BY <1>6, <1>8, <1>9 DEF N, heap, d, v, sub, sub2, x, r, XSAt

LEMMA AgreesNow ==
  ASSUME TypeOK, Packs, SettingsInv, result \notin {"none", "running"}, Comparable,
         NEW c \in BOOLEAN
  PROVE  LET x == IF result = "packed" THEN PP_bytes(out) ELSE PP_died(result) IN
         AgreeNow(x, PP(c), SameOrder(PPSettings(c).canonical))
  <1> DEFINE heap == call.heap
             d == call.depth
             v == call.val
             f == PPEnc(c)
             q == PP_PackSV(v, d, PPRow(heap, f, d), PPSelf(f))
             one == SameOrder(PPSettings(c).canonical)
  <1>1. result # "none" /\ heap \in Seq(Objects(Len(heap))) /\ enc \in SettingsSet
    BY ArgumentNow
  <1>2. Mirrors(f) /\ PPSelf(f) = PPSettings(c) /\ f \in SettingsSet
    BY <1>1, SettingsMirror DEF Mirrors
  <1>3. PP(c) = q
    BY <1>2 DEF PP, PP_Pack, PPRow
  <1>4. PICK C : XSTable(C, heap, enc)
    BY <1>1, XSTableExists
  <1>5. PICK E : XSTable(E, heap, f)
    <2> HIDE DEF f, heap
    <2> QED BY <1>1, <1>2, XSTableExists
  <1> DEFINE x == XSAt(v, d, C, enc)
             r == XSAt(v, d, E, f)
  <1>6. x = IF result = "packed" THEN PP_bytes(out) ELSE PP_died(result)
    BY <1>4, <1>1 DEF Packs, TypeOK
  <1>7. x \in Results /\ r \in Results /\ q \in Results
    <2> HIDE DEF f
    <2> QED BY <1>1, <1>2, <1>4, <1>5, TypesNow
  <1>8. Agree(RulesNow, r, q)
    <2> HIDE DEF f
    <2> QED BY <1>2, <1>5, PPAgreesNow
  <1>9. /\ PackedAlike(x, r) /\ (InOneOrder(heap, enc, f) => x = r)
        /\ Steady /\ KeysApart => \E m : ReadsAs(x, m) /\ ReadsAs(r, m)
    <2> HIDE DEF f
    <2> QED BY <1>2, <1>4, <1>5, XSAgreesNow
  <1>10. one => InOneOrder(heap, enc, f)
    BY <1>1, OrderNow
  <1> HIDE DEF heap, d, v, f, q, one, x, r
  <1>11. CASE one = TRUE
    <2>1. AgreeNow(r, q, TRUE) /\ x = r
      BY <1>7, <1>8, <1>9, <1>10, <1>11, AgreeInOrder
    <2> QED BY <1>3, <1>6, <1>11, <2>1 DEF one
  <1>12. CASE one = FALSE
    <2>1. PICK m : Steady /\ KeysApart => ReadsAs(x, m) /\ ReadsAs(r, m)
      BY <1>9
    <2>2. AgreeNow(x, q, FALSE)
      BY <1>7, <1>8, <1>9, <2>1, AgreeOutOfOrder
    <2> QED BY <1>3, <1>6, <1>12, <2>2 DEF one
  <1>13. one \in BOOLEAN
    BY DEF one, SameOrder
  <1> QED BY <1>11, <1>12, <1>13

(* For all data that Perl can hold, for a call on the class or on an object    *)
(* with any properties, and whatever the package variables are, the pure Perl  *)
(* packer makes the same of it as XS: the same bytes, or bytes that decode to  *)
(* the same value where it takes a longer header or another order, or the same *)
(* error; but for its nesting limit, which it may reach first where it counts  *)
(* more levels, and for which SV is refused first in another order.            *)
THEOREM BothPackAlike == ClientSpec => []AgreesWithPP
  <1>1. TypeOK /\ ClientInv /\ SettingsInv => AgreesWithPP
    <2> SUFFICES ASSUME TypeOK, Packs, SettingsInv, result \notin {"none", "running"},
                        Comparable, NEW c \in BOOLEAN
                 PROVE  LET r == PP(c)
                            sameOrder == SameOrder(PPSettings(c).canonical)
                            sameValue == Decode(r.bytes, FALSE).val = Decode(out, FALSE).val
                            same == IF sameOrder
                                    THEN IF LongerHeader THEN Steady => sameValue
                                                         ELSE r.bytes = out
                                    ELSE Steady /\ KeysApart => sameValue
                        IN \/ r.status = result /\ (result = "packed" => same)
                           \/ r.status = "nesting" /\ CountsMore
                           \/ ~sameOrder /\ r.status # "packed" /\ result # "packed"
      BY Zenon DEF ClientInv, AgreesWithPP
    <2> DEFINE x == IF result = "packed" THEN PP_bytes(out) ELSE PP_died(result)
               q == PP(c)
               one == SameOrder(PPSettings(c).canonical)
    <2>1. AgreeNow(x, q, one)
      BY AgreesNow
    <2>2. x.status = result /\ (result = "packed" => x.bytes = out)
      BY BytesFields, DiedFields
    <2> HIDE DEF x, q, one
    <2>3. \/ q.status = result
               /\ (result = "packed" =>
                     IF one
                     THEN IF LongerHeader
                          THEN Steady => Decode(q.bytes, FALSE).val = Decode(out, FALSE).val
                          ELSE q.bytes = out
                     ELSE Steady /\ KeysApart =>
                            Decode(q.bytes, FALSE).val = Decode(out, FALSE).val)
          \/ q.status = "nesting" /\ CountsMore
          \/ ~one /\ q.status # "packed" /\ result # "packed"
      BY <2>1, <2>2 DEF AgreeNow, SameValue
    <2> QED BY <2>3 DEF q, one
  <1> QED BY <1>1, ClientType, ClientInvariant, SettingsInvariant, PTL
===============================================================================
