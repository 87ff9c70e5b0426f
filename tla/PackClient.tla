------------------------------- MODULE PackClient -------------------------------
(******************************************************************************)
(* A program that packs and looks at what it gets: it may pack the same        *)
(* contents again with its hashes in another order, hand the bytes to the      *)
(* decoder of PP.pm, and pack the same with the encoder of PP.pm.              *)
(******************************************************************************)
EXTENDS Packer, PPPack, PPUnpack

VARIABLE earlier        \* the first of two results for the same contents, or NULL

(* What Perl can hold and the format has room for: integers of 64 bits (IV and *)
(* UV), doubles, strings, arrays and hashes of fewer than 2^32 - 1 bytes, items *)
(* or pairs; and the keys of a hash are different.                             *)
NumberHeld(i) == Shr32(i) >= -2147483647 - 1 /\ Shr32(Shr32(i)) <= 0
SizeHeld(n) == Shr32(n + 1) = 0

Held(v) ==
  /\ "iv" \in DOMAIN v => NumberHeld(v.iv)
  /\ "nv" \in DOMAIN v => Len(v.nv) = 8
  /\ IsString(v) => SizeHeld(Len(v.pv))

KeysDiffer(o) ==
  \A i, j \in DOMAIN o.pairs : o.pairs[i][1] = o.pairs[j][1] => i = j

HeldObject(o) ==
  /\ SizeHeld(Len(Loop(o))) /\ \A v \in SVsIn(o) : Held(v)
  /\ ~IsArray(o) => SizeHeld(o.counted) /\ KeysDiffer(o)

ASSUME HeldAssumption ==
  /\ \A h \in Heaps : \A n \in DOMAIN h : HeldObject(h[n])
  /\ \A v \in Scalars : Held(v)

-------------------------------------------------------------------------------
(* The second of two calls, on the same but for the order of the hashes.       *)
Same(o, p) ==
  IF IsArray(o) \/ IsArray(p) THEN o = p
  ELSE Range(o.pairs) = Range(p.pairs) /\ o.counted = p.counted

SameContents(h) ==
  {g \in Heaps : DOMAIN g = DOMAIN h /\ \A n \in DOMAIN h : Same(g[n], h[n])}

Again ==
  /\ result = "packed" /\ earlier = NULL /\ enc.canonical
  /\ call.self.canonical = "on"
  /\ \E h \in SameContents(call.heap) : h # call.heap /\ Call([call EXCEPT !.heap = h])
  /\ earlier' = out

ClientInit == Init /\ earlier = NULL

ClientNext ==
  \/ (Begin \/ Step \/ SetPreferInteger) /\ UNCHANGED earlier
  \/ Again
  \/ Return /\ earlier' = NULL

ClientSpec == ClientInit /\ [][ClientNext]_<<vars, earlier>> /\ WF_vars(Step)

-------------------------------------------------------------------------------
(* What data means once packed with the settings e: a string is text or bytes  *)
(* by utf8 and an integer by prefer_integer, a slot without SV is undef.       *)
ScalarMeaning(v, e) ==
  IF v = NoSV THEN Undef
  ELSE IF "scalar" \in DOMAIN v THEN Bool(v.scalar = <<49>>)
  ELSE IF ~IsString(v) THEN v
  ELSE IF e.prefer_int /\ IsInt(v.pv) THEN IntValue(StringInt(v.pv))
  ELSE Str(v.pv, e.utf8)

(* The meaning of v, where referred is that of the arrays and hashes.          *)
SVMeaning(v, referred, e) ==
  IF IsRef(v) THEN referred[v.rv] ELSE ScalarMeaning(v, e)

(* Of an array or a hash.                                                      *)
ObjectMeaning(o, referred, e) ==
  IF IsArray(o)
  THEN ArrayOf([i \in DOMAIN o.items |-> SVMeaning(o.items[i], referred, e)])
  ELSE HashOf([i \in 1 .. 2 * Len(o.pairs) |->
         LET pair == o.pairs[(i + 1) \div 2] IN
         IF i % 2 = 1 THEN ScalarMeaning(Str(pair[1], FALSE), e)
                      ELSE SVMeaning(pair[2], referred, e)])

(* Of each array and hash of the heap, down to so many levels.                 *)
Meanings(heap, e) ==
  LET M[d \in Nat] ==
        IF d = 0 THEN [n \in DOMAIN heap |-> NULL]
        ELSE [n \in DOMAIN heap |-> ObjectMeaning(heap[n], M[d - 1], e)]
  IN M

Meaning ==
  IF IsRef(call.val) THEN Meanings(call.heap, enc)[call.depth][call.val.rv]
                     ELSE ScalarMeaning(call.val, enc)

Hashes == {call.heap[n] : n \in {m \in DOMAIN call.heap : ~IsArray(call.heap[m])}}
Steady == \A o \in Hashes : o.counted = Len(o.pairs)

KeyMeant(pair) == HashKey(ScalarMeaning(Str(pair[1], FALSE), enc))
KeysApart ==
  \A o \in Hashes : \A i, j \in DOMAIN o.pairs :
    KeyMeant(o.pairs[i]) = KeyMeant(o.pairs[j]) => i = j

(* What pack returns decodes, to the last byte, to the data it was given.      *)
(* Excepted are a tied hash that changed while it was packed, and two keys     *)
(* that prefer_integer makes the same number.                                  *)
RoundTrip ==
  result = "packed" /\ Steady /\ KeysApart =>
    LET r == Decode(out, FALSE) IN
    r.status = "ok" /\ r.p = Len(out) /\ r.val = Meaning

-------------------------------------------------------------------------------
(* Packing what is the same but for the order of the hashes gives the same     *)
(* bytes when canonical is on.                                                 *)
CanonicalIsUnique == result = "packed" /\ earlier # NULL => out = earlier

-------------------------------------------------------------------------------
(* What pack of PP.pm makes of the same call, with $Canonical set or not.      *)
PPSettings(Canonical) == PP_Self(call.self, PreferInteger, Canonical)
PP(Canonical) == PP_Pack(call.heap, call.val, call.depth, PPSettings(Canonical))

AllSVs == {call.val} \cup UNION {SVsIn(call.heap[n]) : n \in DOMAIN call.heap}
AllStrings == {v \in AllSVs : IsString(v)}

(* Only XS packs references to scalars.  Some strings only one of them takes   *)
(* for integers; and for an object without prefer_integer only XS asks         *)
(* $PreferInteger.                                                             *)
OnlyXSPrefers ==
  PreferInteger /\ call.self.on = "object" /\ call.self.prefer_integer = "absent"

Comparable ==
  /\ \A v \in AllSVs : "scalar" \notin DOMAIN v
  /\ enc.prefer_int =>
       \A v \in AllStrings : IF OnlyXSPrefers THEN ~IsInt(v.pv)
                                             ELSE IsInt(v.pv) = PP_IsInt(v.pv)

(* PP counts an integer from a string as a level, and a slot without an SV.    *)
CountsMore ==
  \/ enc.prefer_int /\ \E v \in AllStrings : IsInt(v.pv)
  \/ \E n \in DOMAIN call.heap :
       IsArray(call.heap[n]) /\ NoSV \in Range(call.heap[n].items)

(* The sizes for which PP takes a longer header.                               *)
Counted(o) == IF IsArray(o) THEN Len(o.items) ELSE o.counted
LongerHeader ==
  \/ \E v \in AllStrings : Len(v.pv) \in {255, 65535}
  \/ \E n \in DOMAIN call.heap : Counted(call.heap[n]) = 65535

(* Both go through every hash in one order.  Without the property canonical    *)
(* they need not: enc.canonical is left uninitialised, and for a call on the   *)
(* class only PP asks $Canonical.                                              *)
SameOrder(canonical) ==
  \/ call.self.canonical # "absent" \/ enc.canonical = canonical
  \/ \A o \in Hashes : Len(o.pairs) <= 1

(* The two packers give the same bytes, or croak alike.  They differ in what   *)
(* is not Comparable; in where the nesting limit bites when PP counts more     *)
(* levels; in the headers that PP makes longer; and in the order of the pairs, *)
(* where the first SV to be refused may be another.  What they pack with other *)
(* headers or in another order is decoded to the same value, unless a tied     *)
(* hash changed meanwhile or the order decides which of two keys stays.        *)
AgreesWithPP ==
  result \notin {"none", "running"} /\ Comparable =>
    \A Canonical \in BOOLEAN :
      LET r == PP(Canonical)
          sameOrder == SameOrder(PPSettings(Canonical).canonical)
          sameValue == Decode(r.bytes, FALSE).val = Decode(out, FALSE).val
          same == IF sameOrder
                  THEN IF LongerHeader THEN Steady => sameValue ELSE r.bytes = out
                  ELSE Steady /\ KeysApart => sameValue
      IN \/ r.status = result /\ (result = "packed" => same)
         \/ r.status = "nesting" /\ CountsMore
         \/ ~sameOrder /\ r.status # "packed" /\ result # "packed"

(* Every call of pack comes back, whatever refers to whatever.                 *)
Finishes == [](result = "running" => <>(result # "running"))
===============================================================================
