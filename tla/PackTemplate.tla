------------------------------ MODULE PackTemplate ------------------------------
(******************************************************************************)
(* The bytes that include/msgpack/pack_template.h appends for a number and in  *)
(* front of a string, an array or a map.  A cast to a narrower C integer is    *)
(* the remainder, so that one which drops digits shows; buf holds a header     *)
(* byte and the digits behind it.                                              *)
(******************************************************************************)
EXTENDS PerlValue

Uncast(d) == d          \* mutant
TAKE8(d) == d % 256

(* d >> 8, 16, 24 and 32: the divisor 2^32 needs more digits than the checker   *)
(* has.                                                                        *)
Shr8(d)  == d \div 256
Shr16(d) == d \div 65536
Shr24(d) == d \div 16777216
Shr32(d) == Shr16(Shr16(d))

Buf2(h, d) == <<h, TAKE8(d)>>
Buf3(h, d) == <<h, TAKE8(Shr8(d)), TAKE8(d)>>
Buf5(h, d) == <<h, TAKE8(Shr24(d)), TAKE8(Shr16(d)), TAKE8(Shr8(d)), TAKE8(d)>>
Buf9(h, d) ==
  LET u == Shr32(d) IN
  <<h, TAKE8(Shr24(u)), TAKE8(Shr16(u)), TAKE8(Shr8(u)), TAKE8(u),
       TAKE8(Shr24(d)), TAKE8(Shr16(d)), TAKE8(Shr8(d)), TAKE8(d)>>

Nil == <<192>>
False == <<194>>
True == <<195>>
Double(n) == <<203>> \o n       \* n: the 8 bytes of the IEEE number

(* Mutant: 256 is taken for an 8 bit number.                                   *)
UnsignedOff(d) ==
  IF d < 128 THEN <<TAKE8(d)>>
  ELSE IF d <= 256 THEN Buf2(204, d)
  ELSE IF d < 65536 THEN Buf3(205, d)
  ELSE Buf5(206, d)

(* real_uint32 and real_uint64: the shortest form.  d < 2^32 is Shr32(d) < 1.   *)
Unsigned(d) ==
  IF d < 128 THEN <<TAKE8(d)>>
  ELSE IF d < 256 THEN Buf2(204, d)
  ELSE IF d < 65536 THEN Buf3(205, d)
  ELSE IF Shr32(d) < 1 THEN Buf5(206, d)
  ELSE Buf9(207, d)

(* real_int32 and real_int64 below zero.                                       *)
Negative(d) ==
  IF d >= -32 THEN <<TAKE8(d)>>
  ELSE IF d >= -128 THEN Buf2(208, d)
  ELSE IF d >= -32768 THEN Buf3(209, d)
  ELSE IF d >= -2147483647 - 1 THEN Buf5(210, d)
  ELSE Buf9(211, d)

Integer(d) == IF d >= 0 THEN Unsigned(d) ELSE Negative(d)

(* Headers for n items or pairs, and for n bytes.                              *)
ArrayHeader(n) ==
  IF n < 16 THEN <<144 + n>> ELSE IF n < 65536 THEN Buf3(220, n) ELSE Buf5(221, n)

MapHeader(n) ==
  IF n < 16 THEN <<128 + n>> ELSE IF n < 65536 THEN Buf3(222, n) ELSE Buf5(223, n)

StrHeader(n) ==
  IF n < 32 THEN <<160 + n>>
  ELSE IF n < 256 THEN Buf2(217, n)
  ELSE IF n < 65536 THEN Buf3(218, n)
  ELSE Buf5(219, n)

BinHeader(n) ==
  IF n < 256 THEN Buf2(196, n)
  ELSE IF n < 65536 THEN Buf3(197, n)
  ELSE Buf5(198, n)
===============================================================================
