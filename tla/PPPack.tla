--------------------------------- MODULE PPPack ---------------------------------
(******************************************************************************)
(* The pure Perl encoder, pack and _pack of lib/Data/MessagePack/PP.pm, as a   *)
(* function of the data.  $_max_depth is localised by every _pack: depth is    *)
(* its value where _pack is called, so it is the number of levels left.  A     *)
(* result is [status, bytes]; status is "packed", or why _pack croaked.        *)
(******************************************************************************)
EXTENDS PerlData, FiniteSets

PP_bytes(b) == [status |-> "packed", bytes |-> b]
PP_died(why) == [status |-> why, bytes |-> << >>]

(* CORE::pack of C, n, N and Q> or q>.                                         *)
PP_C(d) == <<d % 256>>
PP_n(d) == PP_C(d \div 256) \o PP_C(d)
PP_N(d) == PP_n(d \div 65536) \o PP_n(d)
PP_Q(d) == PP_N((d \div 65536) \div 65536) \o PP_N(d)

PP_Integer(v) ==
  IF v >= 0
  THEN IF v <= 127 THEN PP_C(v)
       ELSE IF v < 256 THEN <<204>> \o PP_C(v)
       ELSE IF v < 65536 THEN <<205>> \o PP_n(v)
       ELSE IF v \div 65536 < 65536 THEN <<206>> \o PP_N(v)
       ELSE <<207>> \o PP_Q(v)
  ELSE IF v >= -32 THEN PP_C(v)
       ELSE IF v >= -128 THEN <<208>> \o PP_C(v)
       ELSE IF v >= -32768 THEN <<209>> \o PP_n(v)
       ELSE IF v >= -2147483647 - 1 THEN <<210>> \o PP_N(v)
       ELSE <<211>> \o PP_Q(v)

(* The sizes 2**8 - 1 and 2**16 - 1 take the next longer header.               *)
PP_ArrayHeader(num) ==
  IF num < 16 THEN PP_C(144 + num)
  ELSE IF num < 65535 THEN <<220>> \o PP_n(num) ELSE <<221>> \o PP_N(num)

PP_MapHeader(num) ==
  IF num < 16 THEN PP_C(128 + num)
  ELSE IF num < 65535 THEN <<222>> \o PP_n(num) ELSE <<223>> \o PP_N(num)

PP_StrHeader(num) ==
  IF num < 32 THEN PP_C(160 + num)
  ELSE IF num < 255 THEN <<217>> \o PP_C(num)
  ELSE IF num < 65535 THEN <<218>> \o PP_n(num) ELSE <<219>> \o PP_N(num)

PP_BinHeader(num) ==
  IF num < 255 THEN <<196>> \o PP_C(num)
  ELSE IF num < 65535 THEN <<197>> \o PP_n(num) ELSE <<198>> \o PP_N(num)

-------------------------------------------------------------------------------
(* /^-?[0-9]+$/ also matches before a newline at the end.                      *)
Chomped(t) == IF t # << >> /\ Last(t) = 10 THEN Front(t) ELSE t
Negated(t) == t # << >> /\ t[1] = 45
PP_Unsigned(t) == IF Negated(t) THEN Tail(t) ELSE t

PP_IsInt(t) ==
  LET digits == PP_Unsigned(Chomped(t)) IN
  /\ AllDigits(digits)
  /\ ~Exceeds(digits, IF Negated(t) THEN MinInt32Text ELSE MaxUint32Text)

(* An integer is packed by a _pack of its own, one level further down.         *)
PP_String(s, depth, prefer_integer, utf8) ==
  IF prefer_integer /\ PP_IsInt(s)
  THEN IF depth < 2 THEN PP_died("nesting")
       ELSE PP_bytes(PP_Integer(Denoted(PP_Unsigned(Chomped(s)),
                                        IF Negated(s) THEN -1 ELSE 1)))
  ELSE PP_bytes((IF utf8 THEN PP_StrHeader(Len(s)) ELSE PP_BinHeader(Len(s))) \o s)

PP_Scalar(v, depth, self) ==
  CASE v = NoSV \/ "undef" \in DOMAIN v -> PP_bytes(<<192>>)
    [] "bool" \in DOMAIN v -> PP_bytes(IF v.bool THEN <<195>> ELSE <<194>>)
    [] IsString(v) -> PP_String(v.pv, depth, self.prefer_integer, self.utf8)
    [] "nv" \in DOMAIN v -> PP_bytes(<<203>> \o v.nv)
    [] "iv" \in DOMAIN v -> PP_bytes(PP_Integer(v.iv))
    [] OTHER -> PP_died("unsupported")

(* One _pack after another: the first that dies ends the others.               *)
Then(r, rest) ==
  IF r.status # "packed" THEN r
  ELSE IF rest.status # "packed" THEN rest
  ELSE PP_bytes(r.bytes \o rest.bytes)

(* join of the header and what the _packs of the items return, in turn.        *)
Join(header, results) ==
  LET From[i \in 1 .. Len(results) + 1] ==
        IF i > Len(results) THEN PP_bytes(<< >>) ELSE Then(results[i], From[i + 1])
  IN Then(PP_bytes(header), From[1])

(* sort { $a cmp $b } keys, when canonical: the number of pairs that precede   *)
(* one is its place; keys that compare equal stay in the order they have.      *)
Preceding(o, i) ==
  {j \in DOMAIN o.pairs : \/ Before(o.pairs[j][1], o.pairs[i][1])
                          \/ o.pairs[j][1] = o.pairs[i][1] /\ j < i}

PairsInOrder(o, canonical) ==
  LET Place(k) == CHOOSE i \in DOMAIN o.pairs : Cardinality(Preceding(o, i)) = k - 1 IN
  IF canonical THEN [k \in DOMAIN o.pairs |-> o.pairs[Place(k)]] ELSE o.pairs

(* _pack of v, where sub packs what it refers to; self holds the properties.   *)
PP_PackSV(v, depth, sub, self) ==
  IF depth <= 0 THEN PP_died("nesting")
  ELSE IF IsRef(v) THEN sub[v.rv]
  ELSE PP_Scalar(v, depth, self)

(* _pack of array or hash o, whose items are packed with the given depth.      *)
PP_PackObject(o, depth, sub, self) ==
  IF IsArray(o)
  THEN Join(PP_ArrayHeader(Len(o.items)),
            [i \in DOMAIN o.items |-> PP_PackSV(o.items[i], depth, sub, self)])
  ELSE LET pairs == PairsInOrder(o, self.canonical) IN
       Join(PP_MapHeader(o.counted),
            [i \in DOMAIN pairs |->
              Then(PP_PackSV(Str(pairs[i][1], FALSE), depth, sub, self),
                   PP_PackSV(pairs[i][2], depth, sub, self))])

(* What _pack returns for each array and hash of the heap, by depth.           *)
PP_Containers(heap, self) ==
  LET C[depth \in Nat] ==
        [n \in DOMAIN heap |->
          IF depth = 0 THEN PP_died("nesting")
          ELSE PP_PackObject(heap[n], depth - 1, C[depth - 1], self)]
  IN C

(* What pack reads its settings from: an object has the properties it has, an  *)
(* absent one being false; for a call on the class it makes an object of the   *)
(* package variables $PreferInteger and $Canonical.                            *)
PP_Self(self, PreferInteger, Canonical) ==
  IF self.on = "class"
  THEN [prefer_integer |-> PreferInteger, canonical |-> Canonical, utf8 |-> FALSE]
  ELSE [prefer_integer |-> self.prefer_integer = "on", canonical |-> self.canonical = "on",
        utf8 |-> self.utf8 = "on"]

(* pack, with the settings it made of self.                                    *)
PP_Pack(heap, val, max_depth, self) ==
  PP_PackSV(val, max_depth, PP_Containers(heap, self)[max_depth], self)
===============================================================================
