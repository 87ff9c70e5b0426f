------------------------------- MODULE ByteOrder -------------------------------
(******************************************************************************)
(* How the C code of include/msgpack/sysdep.h moves integers to and from       *)
(* memory.  A C integer of w bytes is the sequence of its w digits base 256,   *)
(* most significant first, in two's complement; so the thresholds of 64 bits   *)
(* are exact.                                                                  *)
(*                                                                             *)
(* A build b is what the compiler and predef know when these headers are read: *)
(*   machine        "big" or "little": the order the machine really has        *)
(*   little, big    MSGPACK_ENDIAN_LITTLE_BYTE and MSGPACK_ENDIAN_BIG_BYTE     *)
(*   m              the macros that are defined, with their values             *)
(*   sizeof         the bytes of short, int, long and long long                *)
(*   char_signed    CHAR_MIN < 0                                               *)
(******************************************************************************)
EXTENDS Macros, SequencesExt

(* A cast of a C integer to w bytes or fewer.                                  *)
Cast(d, w) == SubSeq(d, Len(d) - w + 1, Len(d))

(* The bytes of an integer in memory, and the integer of bytes in memory.      *)
Mem(b, d) == IF b.machine = "big" THEN d ELSE Reverse(d)

(* #error "msgpack-c supports only big endian and little endian"               *)
Supported(b) == b.little \/ b.big

(* Of what was detected, the machine's order and that alone is true.           *)
RightOrder(b) == b.little = (b.machine = "little") /\ b.big # b.little

-------------------------------------------------------------------------------
(* The C library's ntohs and ntohl, and the byte swaps of compilers and        *)
(* libraries: the first follow the machine, the others never look at it.       *)
NetworkToHost(b, d) == IF b.machine = "big" THEN d ELSE Reverse(d)
ByteSwap(d) == Reverse(d)

(* The macros that shift and mask: digit i of the result is the digit that the *)
(* term with byte i as its mask moves there, by (x) << 8 * n or, below zero,   *)
(* (x) >> 8 * -n.                                                              *)
Shifted(d, n) == [i \in 1 .. Len(d) |-> d[i + n[i]]]

MSVC2005(b) == Value(b.m, "_MSC_VER") >= 1400

be16(b, x) ==
  LET d == Cast(x, 2) IN
  IF ~b.little THEN d
  ELSE IF ~Defined(b.m, "_WIN32") \/ Defined(b.m, "ntohs") THEN NetworkToHost(b, d)
  ELSE IF Defined(b.m, "_byteswap_ushort") \/ MSVC2005(b) THEN ByteSwap(d)
  ELSE Shifted(d, <<1, -1>>)

be32(b, x) ==
  LET d == Cast(x, 4) IN
  IF ~b.little THEN d
  ELSE IF ~Defined(b.m, "_WIN32") \/ Defined(b.m, "ntohl") THEN NetworkToHost(b, d)
  ELSE IF Defined(b.m, "_byteswap_ulong") \/ MSVC2005(b) THEN ByteSwap(d)
  ELSE Shifted(d, <<3, 1, -1, -3>>)

(* bswap_64 comes from <byteswap.h>, which is included where linux is defined. *)
be64(b, x) ==
  LET d == Cast(x, 8) IN
  IF ~b.little THEN d
  ELSE IF \/ Defined(b.m, "_byteswap_uint64") \/ MSVC2005(b)
          \/ Defined(b.m, "linux") \/ Defined(b.m, "__DARWIN_OSSwapInt64")
  THEN ByteSwap(d)
  ELSE Shifted(d, <<7, 5, 3, 1, -1, -3, -5, -7>>)

(* _msgpack_store16, 32 and 64: the bytes that appear in the buffer.           *)
Store16(b, num) == Mem(b, be16(b, num))
Store32(b, num) == Mem(b, be32(b, num))
Store64(b, num) == Mem(b, be64(b, num))

(* _msgpack_load16, 32 and 64: the digits of the integer read from bytes.      *)
Load16(b, from) == be16(b, Mem(b, from))
Load32(b, from) == be32(b, Mem(b, from))
Load64(b, from) == be64(b, Mem(b, from))
===============================================================================
