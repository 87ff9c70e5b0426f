-------------------------------- MODULE PerlData --------------------------------
(******************************************************************************)
(* The Perl data a program hands to pack.  Scalars and booleans are values of  *)
(* PerlValue.  Arrays and hashes are reached by reference and live in a heap,  *)
(* so that data may contain itself; a hash is the list of its pairs in the     *)
(* order in which Perl iterates over it.                                       *)
(******************************************************************************)
EXTENDS PerlValue, SequencesExt

NoSV == [slot |-> "array slot without an SV"]
Ref(n) == [rv |-> n]                    \* to the array or hash n of the heap
ScalarRef(text) == [scalar |-> text]    \* to a scalar with this string value
Unpackable(what) == [other |-> what]    \* "object" or "code"

Array(items) == [items |-> items]
Hash(pairs) == [pairs |-> pairs, counted |-> Len(pairs)]

(* A tied hash that yielded n pairs when they were counted.                    *)
TiedHash(pairs, n) == [pairs |-> pairs, counted |-> n]

IsRef(v)    == "rv" \in DOMAIN v
IsString(v) == "pv" \in DOMAIN v
IsArray(o)  == "items" \in DOMAIN o
Loop(o)     == IF IsArray(o) THEN o.items ELSE o.pairs

(* s before t in the order of sv_cmp.                                          *)
Before(s, t) ==
  \E n \in 0 .. Len(t) - 1 :
    /\ n <= Len(s) /\ SubSeq(s, 1, n) = SubSeq(t, 1, n)
    /\ n = Len(s) \/ s[n + 1] < t[n + 1]

(* What refers to n arrays and hashes at most.                                 *)
SVs(n) ==
  {Undef} \cup [bool : BOOLEAN, svs : {1}] \cup [iv : Int, svs : {1}]
    \cup [nv : Seq(Byte), svs : {1}] \cup [pv : Seq(Byte), text : BOOLEAN, svs : {1}]
    \cup [rv : 1 .. n] \cup [scalar : Seq(Byte)] \cup [other : {"object", "code"}]

Objects(n) ==
  [items : Seq(SVs(n) \cup {NoSV})]
    \cup [pairs : Seq(Seq(Byte) \X SVs(n)), counted : Nat]

(* Strings of decimal digits.                                                  *)
AllDigits(t) == t # << >> /\ \A i \in DOMAIN t : t[i] \in 48 .. 57

(* The number the digits t denote, which has no more than ten digits apart     *)
(* from zeros in front; sign is 1 or -1.                                       *)
Digit(t, k) == IF k < Len(t) THEN t[Len(t) - k] - 48 ELSE 0
FiveDigits(t, k) ==
  10000 * Digit(t, k + 4) + 1000 * Digit(t, k + 3) + 100 * Digit(t, k + 2)
    + 10 * Digit(t, k + 1) + Digit(t, k)
Denoted(t, sign) == 100000 * sign * FiveDigits(t, 5) + sign * FiveDigits(t, 0)

MaxUint32Text == <<52, 50, 57, 52, 57, 54, 55, 50, 57, 53>>     \* 4294967295
MinInt32Text  == <<50, 49, 52, 55, 52, 56, 51, 54, 52, 56>>     \* 2147483648

(* Whether the digits t denote more than the ten digits max, compared as text: *)
(* such numbers need not fit the integers of the checker.                      *)
Exceeds(t, max) ==
  LET nonzero == SelectSeq([i \in DOMAIN t |-> i], LAMBDA i : t[i] # 48)
      digits == IF nonzero = << >> THEN << >> ELSE SubSeq(t, nonzero[1], Len(t))
  IN  Len(digits) > 10 \/ (Len(digits) = 10 /\ Before(max, digits))
===============================================================================
