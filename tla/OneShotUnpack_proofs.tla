-------------------------- MODULE OneShotUnpack_proofs --------------------------
(******************************************************************************)
(* Data::MessagePack->unpack in XS gives every byte string the meaning that    *)
(* the pure Perl decoder gives it, for every string and every stack size.      *)
(******************************************************************************)
EXTENDS OneShotUnpack, UnpackTemplate_proofs

-------------------------------------------------------------------------------
(* The parser is on its way to the meaning of the argument, and the result is  *)
(* made of how it stopped.                                                     *)
Ended == {"finish", "failed", "out", "croaked"}

Outcome ==
  CASE pc = "croaked" -> "ext_type"
    [] pc = "failed"  -> "parse_error"
    [] pc = "out"     -> "insufficient"
    [] pc = "finish"  -> IF p < Len(data) THEN "extra" ELSE "value"

AgreesInv ==
  /\ data \in Seq(Byte) /\ DOMAIN stack = Slot
  /\ pc \in {"idle", "header", "trail", "push", "undefined"} \cup Ended
  /\ pc = "idle" => cs = CS_HEADER /\ top = 0
  /\ pc # "idle" => \E V : \E w : w = V[<<0, 0, 1>>] /\ Agrees(V, w)
  /\ result # "none" => pc \in Ended /\ result = Outcome

LEMMA PCs ==
  ASSUME ParseStep
  PROVE  /\ pc \in {"header", "trail", "push"} /\ pc' # "idle"
         /\ pc' \in {"header", "trail", "push", "undefined"} \cup Ended
  BY DEF ParseStep, HeaderScalar, HeaderEmptyStr, HeaderWithTrail, HeaderContainer,
         HeaderUnassigned, TrailShort, TrailStale, Number, Length, EmptyBody, Body,
         ExtCroak, Container, PushRoot, PushArrayItem, PushMapKey, PushMapValue,
         StartContainer, ItemStored, HeaderAgain, Push, Stop, TrailReady, Ended

LEMMA AgreesInit == OInit => AgreesInv
  BY InputsAssumption
     DEF OInit, TInit, InitCtx, AgreesInv, Ended

LEMMA AgreesStep == AgreesInv /\ [ONext]_ovars => AgreesInv'
  <1> SUFFICES ASSUME AgreesInv, [ONext]_ovars
               PROVE  AgreesInv'
    OBVIOUS
  <1>1. CASE CallUnpack
    <2>1. /\ cs = CS_HEADER /\ top = 0 /\ DOMAIN stack = Slot /\ Enter(data, 0)
          /\ data \in Seq(Byte) /\ Len(data) \in Nat /\ result = "none" /\ result' = result
      BY <1>1 DEF CallUnpack, AgreesInv
    <2>2. PICK V : V = Unpack(data, utf8)
      OBVIOUS
    <2>3. PICK w : w = V[<<0, 0, 1>>]
      OBVIOUS
    <2>4. Agrees(V, w)'
      BY <2>1, <2>2, <2>3, EnterAgrees
    <2>5. pc' \in {"out", "header", "trail"} /\ data' \in Seq(Byte) /\ DOMAIN stack' = Slot
      BY <2>1 DEF Enter
    <2> QED BY <2>1, <2>3, <2>4, <2>5 DEF AgreesInv, Ended
  <1>2. CASE ParseStep /\ UNCHANGED result
    <2>1. pc \in {"header", "trail", "push"}
      BY <1>2, PCs
    <2>2. pc' # "idle" /\ pc' \in {"header", "trail", "push", "undefined"} \cup Ended
      BY <1>2, PCs
    <2>3. result = "none" /\ result' = "none"
      BY <1>2, <2>1 DEF AgreesInv, Ended
    <2>4. PICK V, w : w = V[<<0, 0, 1>>] /\ Agrees(V, w)
      BY <2>1 DEF AgreesInv
    <2>5. Agrees(V, w)'
      BY <1>2, <2>4, ParseStepAgrees
    <2>6. data' \in Seq(Byte) /\ DOMAIN stack' = Slot
      BY <2>5 DEF Agrees
    <2> QED BY <2>2, <2>3, <2>4, <2>5, <2>6 DEF AgreesInv
  <1>3. CASE Return
    <2>1. pc \in Ended /\ result' = Outcome /\ UNCHANGED tvars
      BY <1>3 DEF Return, Outcome, Ended
    <2>2. PICK V, w : w = V[<<0, 0, 1>>] /\ Agrees(V, w)
      BY <2>1 DEF AgreesInv, Ended
    <2>3. UNCHANGED <<data, p, top, pc, stack, utf8, cs, trail, obj>>
      BY <2>1 DEF tvars
    <2>4. Agrees(V, w)'
      BY <2>2, <2>3, SameAgrees
    <2>5. result' = Outcome'
      BY <2>1, <2>3 DEF Outcome
    <2> QED BY <2>1, <2>2, <2>3, <2>4, <2>5 DEF AgreesInv, Ended
  <1>4. CASE Done \/ UNCHANGED ovars
    <2>1. UNCHANGED <<data, p, top, pc, stack, utf8, cs, trail, obj, result>>
      BY <1>4 DEF Done, ovars, tvars
    <2>2. pc' # "idle" => \E V : \E w : w = V[<<0, 0, 1>>] /\ Agrees(V, w)'
      BY <2>1, SameAgrees DEF AgreesInv
    <2>3. Outcome' = Outcome
      BY <2>1 DEF Outcome
    <2> QED BY <2>1, <2>2, <2>3 DEF AgreesInv
  <1> QED BY <1>1, <1>2, <1>3, <1>4 DEF ONext

(* How the parser stopped says what the message means.                         *)
LEMMA AgreesMeaning == AgreesInv => AgreesWithPP
  <1> SUFFICES ASSUME AgreesInv, result # "none"
               PROVE  AgreesWithPP
    BY DEF AgreesWithPP
  <1>1. PICK V, w : w = V[<<0, 0, 1>>] /\ Agrees(V, w)
    BY DEF AgreesInv, Ended
  <1>2. w = Unpack(data, utf8)[<<0, 0, 1>>]
    BY <1>1 DEF Agrees
  <1> DEFINE r == Decode(data, utf8)
  <1>3. /\ r.status = w.status /\ r.p = w.p /\ r.depth = w.depth
        /\ r.status = "ok" => r.val = w.vals[1]
    BY <1>2 DEF Decode
  <1> HIDE DEF r
  <1>4. pc \in Ended /\ result = Outcome /\ Len(data) \in Nat
    BY DEF AgreesInv
  <1>5. Stops(w) /\ (Fits(w) <=> r.depth <= StackSize)
    BY <1>1, <1>3 DEF Agrees, Fits
  <1>6. CASE pc = "finish"
    <2>1. p \in Nat /\ p <= Len(data) /\ Same(w, Returned(<<TemplateData>>, p, 0))
      BY <1>5, <1>6 DEF Stops
    <2> DEFINE d == Returned(<<TemplateData>>, p, 0)
    <2>2. d.status = "ok" /\ d.vals[1] = TemplateData /\ d.p = p /\ Fits(d)
      BY StackSizeAssumption DEF Returned, Fits
    <2> HIDE DEF d
    <2>3. w.status = "ok" /\ w.vals[1] = TemplateData /\ w.p = p /\ Fits(w)
      BY <2>1, <2>2 DEF d, Same
    <2>4. result = IF p < Len(data) THEN "extra" ELSE "value"
      BY <1>4, <1>6 DEF Outcome
    <2> QED BY <1>3, <1>4, <1>5, <2>1, <2>3, <2>4 DEF AgreesWithPP, r
  <1>7. CASE pc = "failed"
    <2>1. result = "parse_error" /\ (w.status = "unexpected" \/ ~Fits(w))
      BY <1>4, <1>5, <1>7 DEF Outcome, Stops
    <2> QED BY <1>3, <1>5, <2>1 DEF AgreesWithPP, r
  <1>8. CASE pc = "croaked"
    <2>1. result = "ext_type" /\ w.status = "unexpected" /\ Fits(w)
      BY <1>4, <1>5, <1>8 DEF Outcome, Stops
    <2> QED BY <1>3, <1>5, <2>1 DEF AgreesWithPP, r
  <1>9. CASE pc = "out"
    <2>1. result = "insufficient" /\ w.status # "ok" /\ Fits(w)
      BY <1>4, <1>5, <1>9 DEF Outcome, Stops
    <2> QED BY <1>3, <1>5, <2>1 DEF AgreesWithPP, r
  <1> QED BY <1>4, <1>6, <1>7, <1>8, <1>9 DEF Ended

(* Whatever bytes unpack is given, it returns the value that _unpack of PP.pm  *)
(* returns, or refuses them where _unpack does, unless containers nest deeper  *)
(* than the parser's stack.                                                    *)
THEOREM UnpackAgreesWithPP == OSpec => []AgreesWithPP
  <1>1. OInit => AgreesInv
    BY AgreesInit
  <1>2. AgreesInv /\ [ONext]_ovars => AgreesInv'
    BY AgreesStep
  <1>3. AgreesInv => AgreesWithPP
    BY AgreesMeaning
  <1> QED BY <1>1, <1>2, <1>3, PTL DEF OSpec
-------------------------------------------------------------------------------
(* Every SV is in use until the EXT croak, which nothing here catches.         *)
OwnedInv ==
  /\ pc # "croaked" => SvInv /\ RootEmpty /\ live = Held
  /\ pc = "idle" => stack[0].obj.svs = 0
  /\ pc = "finish" => top = 0
  /\ result \in {"value", "extra"} => pc = "finish"

LEMMA OwnedInit == OInit => OwnedInv
  <1> SUFFICES ASSUME OInit PROVE OwnedInv
    OBVIOUS
  <1>1. /\ obj = NULL /\ pc = "idle" /\ top = 0 /\ live = 0 /\ result = "none"
        /\ stack = [i \in Slot |-> Frame(NULL, 0, CT_ARRAY_ITEM, NULL)]
    BY DEF OInit, TInit, InitCtx
  <1>2. Frame(NULL, 0, CT_ARRAY_ITEM, NULL).obj = NULL
    BY FrameFields
  <1>3. DOMAIN stack = Slot /\ (\A i \in Slot : stack[i].obj = NULL) /\ stack[0].obj.svs = 0
    BY <1>1, <1>2, Slots, NullSvs
  <1>4. SvInv
    <2>1. \A i \in Slot : ~(i < top) /\ stack[i].obj.svs \in Nat
      BY <1>1, <1>3, Slots, NullSvs
    <2> QED BY <1>1, <1>3, <2>1, Slots DEF SvInv
  <1>5. SvsIn(stack, top) = 0 /\ Root = 0
    BY <1>1, <1>3, NoSvs DEF Root
  <1>6. Held = 0 + 0 + 0
    BY <1>1, <1>5, HeldParts, NullSvs
  <1> QED BY <1>1, <1>3, <1>4, <1>6 DEF OwnedInv, RootEmpty

LEMMA QuietOwned ==
  ASSUME OwnedInv, pc \notin {"push", "croaked"}, pc' \notin {"push", "croaked"},
         UNCHANGED <<top, obj, stack, live>>
  PROVE  SvInv' /\ live' = Held'
  <1>1. SvInv /\ live = Held
    BY DEF OwnedInv
  <1>2. SvInv'
    BY <1>1, QuietKept DEF SvsKept
  <1>3. Root' = Root /\ SvsIn(stack', top') = SvsIn(stack, top)
    BY DEF Root
  <1> QED BY <1>1, <1>2, <1>3, HeldParts

LEMMA HeldTypeNext == SvInv' => (Held \in Nat)'
  <1>1. SvInv => Held \in Nat
    BY SvInvSums
  <1> QED BY <1>1, PTL

LEMMA OwnedStep == OwnedInv /\ [ONext]_ovars => OwnedInv'
  <1> SUFFICES ASSUME OwnedInv, [ONext]_ovars
               PROVE  OwnedInv'
    OBVIOUS
  <1>1. CASE CallUnpack
    <2>1. /\ pc = "idle" /\ pc' \in {"out", "header", "trail"} /\ result' = "none"
          /\ UNCHANGED <<top, obj, stack, live>>
      BY <1>1 DEF CallUnpack, Enter
    <2>2. SvInv' /\ live' = Held'
      BY <2>1, QuietOwned
    <2> QED BY <2>1, <2>2 DEF OwnedInv, RootEmpty
  <1>2. CASE ParseStep /\ UNCHANGED result
    <2>1. /\ pc \in {"header", "trail", "push"} /\ pc' # "idle"
      BY <1>2, PCs
    <2>2. result' \notin {"value", "extra"}
      BY <1>2, <2>1 DEF OwnedInv
    <2>3. SvInv /\ RootEmpty /\ live = Held /\ Held \in Nat /\ Root \in Nat
      BY <2>1, SvInvSums DEF OwnedInv
    <2>4. Root = 0
      BY <2>1, <2>3 DEF RootEmpty, Root
    <2>5. pc' = "finish" => top' = 0
      BY <1>2 DEF ParseStep, HeaderScalar, HeaderEmptyStr, HeaderWithTrail, HeaderContainer,
           HeaderUnassigned, TrailShort, TrailStale, Number, Length, EmptyBody, Body,
           ExtCroak, Container, PushRoot, PushArrayItem, PushMapKey, PushMapValue,
           StartContainer, ItemStored, HeaderAgain, Push, Stop, TrailReady
    <2>6. CASE ExtCroak
      <3>1. pc' = "croaked"
        BY <2>6 DEF ExtCroak
      <3> QED BY <2>2, <3>1 DEF OwnedInv
    <2>7. CASE ~ExtCroak
      <3>1. SvInv' /\ live' - Held' \in {live - Held, live - Held + Root}
        BY <1>2, <2>3, <2>7, ParseStepKept DEF SvsKept
      <3>2. live' \in Int /\ Held' \in Int
        <4>1. (Held \in Nat)'
          BY <3>1, HeldTypeNext
        <4>2. (live \in Int)'
          BY <3>1 DEF SvInv
        <4> QED BY <4>1, <4>2
      <3>3. live' = Held'
        <4>1. live - Held = 0 /\ live - Held + Root = 0
          BY <2>3, <2>4
        <4>2. live' - Held' = 0
          BY <3>1, <4>1
        <4>3. \A x, y \in Int : x - y = 0 => x = y
          OBVIOUS
        <4> QED BY ONLY <3>2, <4>2, <4>3
      <3>4. RootEmpty'
        BY <1>2, <2>3, RootStaysEmpty
      <3> QED BY <2>1, <2>2, <2>5, <3>1, <3>3, <3>4 DEF OwnedInv
    <2> QED BY <2>6, <2>7
  <1>3. CASE Return
    <2>1. /\ pc \in Ended /\ result' = Outcome /\ UNCHANGED tvars
      BY <1>3 DEF Return, Outcome, Ended
    <2>2. UNCHANGED <<top, obj, stack, live, pc>>
      BY <2>1 DEF tvars
    <2>3. pc # "croaked" => SvInv' /\ live' = Held'
      BY <2>1, <2>2, QuietOwned DEF Ended
    <2>4. result' \in {"value", "extra"} => pc = "finish"
      BY <2>1 DEF Outcome, Ended
    <2> QED BY <2>1, <2>2, <2>3, <2>4 DEF OwnedInv, RootEmpty, Ended
  <1>4. CASE Done \/ UNCHANGED ovars
    <2>1. UNCHANGED <<top, obj, stack, live, pc, result>>
      BY <1>4 DEF Done, ovars, tvars
    <2>2. SvInv' = SvInv /\ Held' = Held /\ RootEmpty' = RootEmpty
      BY <2>1 DEF SvInv, Held, RootEmpty
    <2> QED BY <2>1, <2>2 DEF OwnedInv
  <1> QED BY <1>1, <1>2, <1>3, <1>4 DEF ONext

(* What unpack hands out owns every SV it created, whatever the bytes: no key, *)
(* replaced hash value or half-built container is left behind.                 *)
THEOREM UnpackOwnsEverySV == OSpec => []ValueOwnsEverySV
  <1>1. OInit => OwnedInv
    BY OwnedInit
  <1>2. OwnedInv /\ [ONext]_ovars => OwnedInv'
    BY OwnedStep
  <1>3. OwnedInv => ValueOwnsEverySV
    <2> SUFFICES ASSUME OwnedInv, result \in {"value", "extra"}
                 PROVE  live = stack[0].obj.svs
      BY DEF ValueOwnsEverySV, TemplateData
    <2>1. SvInv /\ live = Held /\ pc = "finish" /\ top = 0
      BY DEF OwnedInv
    <2>2. Root = stack[0].obj.svs /\ stack[0].obj.svs \in Nat
      BY <2>1, Slots DEF Root, SvInv
    <2>3. obj.svs = 0 /\ SvsIn(stack, top) = 0
      BY <2>1, NullSvs, NoSvs DEF SvInv
    <2>4. Held = 0 + 0 + stack[0].obj.svs
      BY <2>2, <2>3, HeldParts
    <2> QED BY <2>1, <2>2, <2>4
  <1> QED BY <1>1, <1>2, <1>3, PTL DEF OSpec
===============================================================================
