------------------------------- MODULE PackTypes -------------------------------
(******************************************************************************)
(* The functions that include/msgpack/pack_template.h makes for a C program:   *)
(* the bytes each appends for a C integer d of any type, given as its digits,  *)
(* for floating point numbers, and in front of strings and containers.         *)
(******************************************************************************)
EXTENDS ByteOrder, PackTemplate

(* TAKE8_8, 16, 32 and 64, w bytes: the byte of d in memory that the detected  *)
(* order calls the low one.                                                    *)
Take8(b, w, d) == Mem(b, d)[IF b.little THEN 1 ELSE w]

(* d < 2^(8 n) for an unsigned d; d < 2^7; d is below zero; and d >= -2^(8n-1) *)
(* or d >= -2^5 for a d below zero.                                            *)
(* FitsBelow0Digits is a mutant that forgets the sign of the last n digits.    *)
Fits(d, n) == \A i \in 1 .. Len(d) - n : d[i] = 0
IsFixnum(d) == Fits(d, 1) /\ Last(d) < 128
Below0(d) == d[1] >= 128
FitsBelow0Digits(d, n) == \A i \in 1 .. Len(d) - n : d[i] = 255
FitsBelow0(d, n) == d[Len(d) - n + 1] >= 128 /\ \A i \in 1 .. Len(d) - n : d[i] = 255
IsNegativeFixnum(d) == FitsBelow0(d, 1) /\ Last(d) >= 224

(* The macros for 8 bytes compare with 1ULL<<16, those for 4 with 1<<16.  Where *)
(* an int has 2 bytes that shift is undefined: it leaves 0, or 1 when its      *)
(* count is taken modulo 16, and no d that gets as far is less than either.    *)
Below2To16(b, w, d) == Fits(d, 2) /\ (w = 4 => b.sizeof["int"] > 2)

(* Mutant: no 8 bit form.                                                      *)
RealUnsignedLong(b, w, d) ==
  IF IsFixnum(d) THEN <<Take8(b, w, d)>>
  ELSE IF w <= 2 \/ Below2To16(b, w, d) THEN <<205>> \o Store16(b, d)
  ELSE IF w = 4 \/ Fits(d, 4) THEN <<206>> \o Store32(b, d)
  ELSE <<207>> \o Store64(b, d)

(* msgpack_pack_real_uint8 to uint64, for w = 1, 2, 4 and 8: each size adds a  *)
(* comparison and a form, the last of which takes what is left.                *)
RealUnsigned(b, w, d) ==
  IF IsFixnum(d) THEN <<Take8(b, w, d)>>
  ELSE IF w = 1 \/ Fits(d, 1) THEN <<204, Take8(b, w, d)>>
  ELSE IF w = 2 \/ Below2To16(b, w, d) THEN <<205>> \o Store16(b, d)
  ELSE IF w = 4 \/ Fits(d, 4) THEN <<206>> \o Store32(b, d)
  ELSE <<207>> \o Store64(b, d)

(* msgpack_pack_real_int8 to int64: an unsigned form from 0 up.  Below zero    *)
(* -(1<<15) also fits an int of 2 bytes.                                       *)
RealSigned(b, w, d) ==
  IF ~Below0(d) THEN RealUnsigned(b, w, d)
  ELSE IF IsNegativeFixnum(d) THEN <<Take8(b, w, d)>>
  ELSE IF w = 1 \/ FitsBelow0(d, 1) THEN <<208, Take8(b, w, d)>>
  ELSE IF w = 2 \/ FitsBelow0(d, 2) THEN <<209>> \o Store16(b, d)
  ELSE IF w = 4 \/ FitsBelow0(d, 4) THEN <<210>> \o Store32(b, d)
  ELSE <<211>> \o Store64(b, d)

(* msgpack_pack_fix_uint8 to fix_int64: the form of the type, whatever d is.   *)
Fixed(b, h, w, d) ==
  IF w = 1 THEN <<h, Take8(b, w, d)>>
  ELSE IF w = 2 THEN <<h>> \o Store16(b, d)
  ELSE IF w = 4 THEN <<h>> \o Store32(b, d)
  ELSE <<h>> \o Store64(b, d)

Power == [w \in {1, 2, 4, 8} |-> IF w = 1 THEN 0 ELSE IF w = 2 THEN 1 ELSE IF w = 4 THEN 2 ELSE 3]
FixUnsigned(b, w, d) == Fixed(b, 204 + Power[w], w, d)
FixSigned(b, w, d) == Fixed(b, 208 + Power[w], w, d)

-------------------------------------------------------------------------------
(* msgpack_pack_short to unsigned_long_long take the function of 2, 4 or 8     *)
(* bytes by SIZEOF_x, else by x_MAX, else by sizeof(x).  x_MAX is given as the *)
(* bytes of the type whose largest value it is.                                *)
Bits(b, SIZEOF, MAX, type) ==
  LET bytes == IF Defined(b.m, SIZEOF) THEN b.m[SIZEOF]
               ELSE IF Defined(b.m, MAX) THEN b.m[MAX]
               ELSE b.sizeof[type]
  IN IF bytes = 2 THEN 2 ELSE IF bytes = 4 THEN 4 ELSE 8

pack_char(b, d) == IF b.char_signed THEN RealSigned(b, 1, d) ELSE RealUnsigned(b, 1, d)
pack_signed_char(b, d) == RealSigned(b, 1, d)
pack_unsigned_char(b, d) == RealUnsigned(b, 1, d)

pack_short(b, d) == RealSigned(b, Bits(b, "SIZEOF_SHORT", "SHRT_MAX", "short"), d)
pack_int(b, d) == RealSigned(b, Bits(b, "SIZEOF_INT", "INT_MAX", "int"), d)
pack_long(b, d) == RealSigned(b, Bits(b, "SIZEOF_LONG", "LONG_MAX", "long"), d)
pack_long_long(b, d) ==
  RealSigned(b, Bits(b, "SIZEOF_LONG_LONG", "LLONG_MAX", "long_long"), d)

pack_unsigned_short(b, d) ==
  RealUnsigned(b, Bits(b, "SIZEOF_SHORT", "USHRT_MAX", "short"), d)
pack_unsigned_int(b, d) == RealUnsigned(b, Bits(b, "SIZEOF_INT", "UINT_MAX", "int"), d)
pack_unsigned_long(b, d) ==
  RealUnsigned(b, Bits(b, "SIZEOF_LONG", "ULONG_MAX", "long"), d)
pack_unsigned_long_long(b, d) ==
  RealUnsigned(b, Bits(b, "SIZEOF_LONG_LONG", "ULLONG_MAX", "long_long"), d)

(* The integer functions by the type of their argument.                        *)
PackInteger(b, type, d) ==
  CASE type = "char" -> pack_char(b, d)
    [] type = "signed_char" -> pack_signed_char(b, d)
    [] type = "unsigned_char" -> pack_unsigned_char(b, d)
    [] type = "short" -> pack_short(b, d)
    [] type = "int" -> pack_int(b, d)
    [] type = "long" -> pack_long(b, d)
    [] type = "long_long" -> pack_long_long(b, d)
    [] type = "unsigned_short" -> pack_unsigned_short(b, d)
    [] type = "unsigned_int" -> pack_unsigned_int(b, d)
    [] type = "unsigned_long" -> pack_unsigned_long(b, d)
    [] type = "unsigned_long_long" -> pack_unsigned_long_long(b, d)
    [] type = "uintN" -> RealUnsigned(b, Len(d), d)
    [] type = "intN" -> RealSigned(b, Len(d), d)
    [] type = "fix_uintN" -> FixUnsigned(b, Len(d), d)
    [] type = "fix_intN" -> FixSigned(b, Len(d), d)

-------------------------------------------------------------------------------
(* The IEEE number of 4 or 8 digits as the compiler keeps it in a uint32_t or  *)
(* uint64_t; on ARM before the EABI the words of a double are swapped.         *)
OldARM(b) == Defined(b.m, "__arm__") /\ Value(b.m, "__ARM_EABI__") = 0
SwapWords(d) == SubSeq(d, 5, 8) \o SubSeq(d, 1, 4)
DoubleInMemory(b, d) == IF b.fpa THEN SwapWords(d) ELSE d

pack_float(b, d) == <<202>> \o Store32(b, d)

(* Mutant: the words are left as the compiler keeps them.                      *)
pack_doubleUnswapped(b, d) == <<203>> \o Store64(b, DoubleInMemory(b, d))

pack_double(b, d) ==
  LET i == DoubleInMemory(b, d) IN
  <<203>> \o Store64(b, IF ~Defined(b.m, "TARGET_OS_IPHONE") /\ OldARM(b)
                        THEN SwapWords(i) ELSE i)

-------------------------------------------------------------------------------
(* The header of a raw string of the old format: no 8 bit length.              *)
V4RawHeader(l) ==
  IF l < 32 THEN <<160 + l>> ELSE IF l < 65536 THEN Buf3(218, l) ELSE Buf5(219, l)

FixExt ==
  [l \in {1, 2, 4, 8, 16} |->
     IF l = 1 THEN 212 ELSE IF l = 2 THEN 213 ELSE IF l = 4 THEN 214 ELSE IF l = 8 THEN 215 ELSE 216]

(* The header of l bytes of extension type type, a byte.                       *)
ExtHeader(l, type) ==
  IF l \in DOMAIN FixExt THEN <<FixExt[l], type>>
  ELSE IF l < 256 THEN Buf2(199, l) \o <<type>>
  ELSE IF l < 65536 THEN Buf3(200, l) \o <<type>>
  ELSE Buf5(201, l) \o <<type>>

-------------------------------------------------------------------------------
(* What a reader makes of the bytes of a packed integer: its 8 digits.         *)
Extend(d, signed) ==
  LET lacking == 8 - Len(d) IN
  [i \in 1 .. 8 |-> IF i > lacking THEN d[i - lacking]
                    ELSE IF signed /\ d[1] >= 128 THEN 255 ELSE 0]

WireInteger(wire) ==
  LET h == Head(wire) IN
  IF Len(wire) = 1 THEN Extend(wire, h >= 224)
  ELSE Extend(Tail(wire), h >= 208)

(* One byte of value, or one of the 8 headers and the digits it announces.     *)
WellFormed(wire) ==
  LET h == Head(wire) IN
  \/ Len(wire) = 1 /\ (h < 128 \/ h >= 224)
  \/ \E w \in {1, 2, 4, 8} :
       Len(wire) = 1 + w /\ h \in {204 + Power[w], 208 + Power[w]}

(* The bytes are a form of the format, of the integer d of its type.           *)
Means(wire, d, signed) == WellFormed(wire) /\ WireInteger(wire) = Extend(d, signed)
===============================================================================
