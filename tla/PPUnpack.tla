-------------------------------- MODULE PPUnpack --------------------------------
(******************************************************************************)
(* The pure Perl decoder, _unpack of lib/Data/MessagePack/PP.pm, as a function *)
(* of the bytes and a position.  It is written in this repository as a         *)
(* recursive descent and shares no code with template_execute, so it also      *)
(* serves as the reference for what a byte string means.                       *)
(*                                                                             *)
(* A result is [status, vals, p, depth]: status is "ok", "insufficient" or     *)
(* "unexpected" (the two ways to die); p is $p on return; depth is how deeply  *)
(* the containers met were nested, which the Perl code does not limit.         *)
(******************************************************************************)
EXTENDS PPTypemap

Max2(a, b) == IF a >= b THEN a ELSE b
Returned(v, p, d) == [status |-> "ok", vals |-> v, p |-> p, depth |-> d]
Died(why, p, d)   == [status |-> why, vals |-> << >>, p |-> p, depth |-> d]

AfterFetch(s, p) == p + 1 + SizeBytes(s[p + 1])         \* $p after _fetch_size
FetchSize(s, p) ==
  IF SizeBytes(s[p + 1]) = 0 THEN FixSize(s[p + 1])
  ELSE BE(SubSeq(s, p + 2, AfterFetch(s, p)))

UnpackNumber(b, n) ==
  IF b \in {202, 203} THEN Float(n)
  ELSE IntValue(IF b <= 207 THEN BE(n) ELSE SignedBE(n))

(* _unpack of a string or a number whose bytes start at q; text is $_utf8.     *)
Sized(b, s, q, size, d, text) ==
  IF q + size > Len(s) THEN Died("insufficient", q, d)
  ELSE Returned(<<IF b \in 202 .. 211 THEN UnpackNumber(b, SubSeq(s, q + 1, q + size))
                  ELSE Str(SubSeq(s, q + 1, q + size), T_STR(b) \/ text)>>,
                q + size, d)

(* _unpack where no container begins at p, inside d containers.                *)
Scalar(s, p, d, text) ==
  IF p >= Len(s) THEN Died("insufficient", p, d)
  ELSE IF T_DIRECT(s[p + 1]) THEN Returned(<<byte2value(s[p + 1])>>, p + 1, d)
  ELSE IF s[p + 1] \in 202 .. 211
  THEN Sized(s[p + 1], s, p + 1, NumberWidth(s[p + 1]), d, text)
  ELSE IF s[p + 1] \in {193} \cup (199 .. 201) \cup (212 .. 216)
  THEN Died("unexpected", p + 1, d)
  ELSE IF AfterFetch(s, p) > Len(s) THEN Died("insufficient", p + 1, d)
  ELSE Sized(s[p + 1], s, AfterFetch(s, p), FetchSize(s, p), d, text)

ContainerAt(s, p) ==
  p < Len(s) /\ (T_ARRAY(s[p + 1]) \/ T_MAP(s[p + 1])) /\ AfterFetch(s, p) <= Len(s)

(* The loops over the items of an array and the pairs of a hash: turn i, and   *)
(* what c is after n of them.  vals are the values that _unpack returned, keys *)
(* and values of a hash in turn.                                               *)
Turn(c, vals, i) ==
  IF "av" \in DOMAIN c THEN ArrayItem(c, vals[i])
  ELSE MapItem(c, vals[2 * i - 1], vals[2 * i])

Turns(c, vals, n) ==
  LET C[i \in 0 .. n] == IF i = 0 THEN c ELSE Turn(C[i - 1], vals, i) IN C[n]

ArrayOf(vals) == Turns(EmptyArray, vals, Len(vals))
HashOf(vals) == Turns(EmptyHash, vals, Len(vals) \div 2)

(* The array or hash with header b that holds what r returned.                 *)
Contained(b, r) ==
  IF r.status # "ok" THEN r
  ELSE [r EXCEPT !.vals = <<IF T_ARRAY(b) THEN ArrayOf(@) ELSE HashOf(@)>>]

Joined(v, rest) ==
  [status |-> rest.status, vals |-> v.vals \o rest.vals, p |-> rest.p,
   depth |-> Max2(v.depth, rest.depth)]

(* Calls of _unpack at p, inside d containers, where V[<<q, e, n>>] is what n   *)
(* of them in a row return at q inside e: one call, the n calls behind one that *)
(* returned v, and n calls.                                                    *)
Item(V, s, text, p, d) ==
  IF ContainerAt(s, p)
  THEN LET items == FetchSize(s, p) * (IF T_MAP(s[p + 1]) THEN 2 ELSE 1) IN
       Contained(s[p + 1], V[<<AfterFetch(s, p), d + 1, items>>])
  ELSE Scalar(s, p, d, text)

Following(V, v, d, n) ==
  IF v.status # "ok" THEN v ELSE Joined(v, V[<<v.p, d, n>>])

Items(V, s, text, p, d, n) ==
  IF n = 0 THEN Returned(<< >>, p, d)
  ELSE Following(V, Item(V, s, text, p, d), d, n - 1)

Row == Nat \X Nat \X Nat

Unpack(s, text) ==
  LET V[q \in Row] == Items(V, s, text, q[1], q[2], q[3]) IN V

Decode(s, text) ==
  LET r == Unpack(s, text)[<<0, 0, 1>>] IN
  [status |-> r.status, p |-> r.p, depth |-> r.depth,
   val |-> IF r.status = "ok" THEN r.vals[1] ELSE NULL]
===============================================================================
