------------------------------- MODULE PerlValue -------------------------------
(******************************************************************************)
(* The Perl values (SVs) that unpacking builds, and the byte conversions it    *)
(* builds them from.  A value is a record whose payload field names its type   *)
(* (undef, bool, iv, nv, pv, av, hv); the field svs counts the SVs the value   *)
(* owns, itself included, so that a leak is a number.  A reference and the     *)
(* array or hash it points to count as one SV.                                 *)
(******************************************************************************)
EXTENDS Integers, Sequences, TLC

Byte == 0 .. 255

(* The big-endian integer held by the 1, 2, 4 or 8 bytes n, when the first of   *)
(* them is worth top.                                                          *)
BigEndian(top, n) ==
  IF Len(n) = 1 THEN top
  ELSE IF Len(n) = 2 THEN top * 256 + n[2]
  ELSE IF Len(n) = 4 THEN ((top * 256 + n[2]) * 256 + n[3]) * 256 + n[4]
  ELSE ((((((top * 256 + n[2]) * 256 + n[3]) * 256 + n[4]) * 256
           + n[5]) * 256 + n[6]) * 256 + n[7]) * 256 + n[8]

BE(n) == BigEndian(n[1], n)

(* The same bytes read as a two's complement integer.                          *)
SignedBE(n) == BigEndian(IF n[1] >= 128 THEN n[1] - 256 ELSE n[1], n)

NULL         == [null |-> "C NULL pointer", svs |-> 0]
Undef        == [undef |-> "newSV(0)", svs |-> 1]
Bool(b)      == [bool |-> b, svs |-> 1]
IntValue(i)  == [iv |-> i, svs |-> 1]
Float(n)     == [nv |-> n, svs |-> 1]              \* kept as its IEEE bytes
Str(s, text) == [pv |-> s, text |-> text, svs |-> 1]    \* text: utf8-decoded
EmptyArray   == [av |-> << >>, svs |-> 1]
EmptyHash    == [hv |-> << >>, svs |-> 1]

(* The text Perl gives a value used as a hash key, as ASCII codes.  The text of *)
(* a float, an array or a hash is not spelled out: 256 stands for it.          *)
Decimal[i \in Nat] ==
  IF i < 10 THEN <<48 + i>> ELSE Append(Decimal[i \div 10], 48 + (i % 10))

HashKey(k) ==
  CASE "pv" \in DOMAIN k    -> k.pv
    [] "undef" \in DOMAIN k -> << >>
    [] "iv" \in DOMAIN k    -> IF k.iv < 0 THEN <<45>> \o Decimal[-k.iv]
                                           ELSE Decimal[k.iv]
    [] "bool" \in DOMAIN k  -> IF k.bool THEN <<116, 114, 117, 101>>
                                         ELSE <<102, 97, 108, 115, 101>>
    [] OTHER                -> <<256>>

(* av_store at the end of array c.                                             *)
ArrayItem(c, v) == [av |-> Append(c.av, v), svs |-> c.svs + v.svs]

(* hv_store_ent: the key's text is copied, a value already there is released.  *)
Replaced(c, k) ==
  IF HashKey(k) \in DOMAIN c.hv THEN c.hv[HashKey(k)].svs ELSE 0

HvStore(h, x, v) == [y \in {x} \cup DOMAIN h |-> IF y = x THEN v ELSE h[y]]

MapItem(c, k, v) ==
  [hv |-> HvStore(c.hv, HashKey(k), v), svs |-> c.svs + v.svs - Replaced(c, k)]
===============================================================================
