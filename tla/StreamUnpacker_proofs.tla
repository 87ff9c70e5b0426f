-------------------------- MODULE StreamUnpacker_proofs --------------------------
(******************************************************************************)
(* TLAPS proofs about StreamUnpacker, for every StackSize and every set of     *)
(* calls, and about StreamClient, for all messages and all cuts of their       *)
(* bytes.                                                                      *)
(******************************************************************************)
EXTENDS StreamClient, UnpackTemplate_proofs

(* The trail a length or container state waits for is one that BE reads.       *)
LengthTrail(c, t) ==
  c \in CS_BIN \cup CS_EXT \cup CS_STR \cup CS_ARRAY \cup CS_MAP =>
    t \in {0, 1, 2, 4}

(* The inductive invariant.                                                    *)
IInv ==
  /\ TypeOK
  /\ FramesOpen
  /\ ReadsInBounds
  /\ LengthTrail(cs, trail) /\ LengthTrail(ctx.cs, ctx.trail)

-------------------------------------------------------------------------------
(* Header bytes with a trail lead to a state whose trail BE reads, of at least *)
(* one byte.                                                                   *)
LEMMA HeaderTrailFact ==
  ASSUME NEW b \in Byte, HasTrail(b) \/ FixExt(b)
  PROVE  /\ HeaderTrail(b) \in Nat \ {0}
         /\ NEXT_CS(b) \in 0 .. 31
         /\ HasTrail(b) => LengthTrail(NEXT_CS(b), HeaderTrail(b))
  BY DEF Byte, HasTrail, FixExt, HeaderTrail, ShiftLeft, NEXT_CS, LengthTrail,
         CS_BIN, CS_EXT, CS_STR, CS_ARRAY, CS_MAP

-------------------------------------------------------------------------------
USE StackSizeAssumption DEF InitCtx, CS_HEADER

LEMMA InitIInv == SInit => IInv
  <1> SUFFICES ASSUME SInit PROVE IInv
    OBVIOUS
  <1>0. << >> \in Seq(Byte)
    OBVIOUS
  <1>1. ParserTypeOK
    BY <1>0 DEF SInit, TInit, ParserTypeOK
  <1>2. StackTypeOK
    BY DEF SInit, TInit, StackTypeOK, FrameTypeOK, Frame
  <1>3. CallTypeOK
    BY <1>0, MaxCallsAssumption DEF SInit, CallTypeOK
  <1>6. FlagTypeOK
    BY DEF SInit, FlagTypeOK
  <1>4. FramesOpen
    BY DEF SInit, TInit, FramesOpen, Parsing, Slot
  <1>5. LengthTrail(cs, trail) /\ LengthTrail(ctx.cs, ctx.trail)
    BY DEF SInit, TInit, LengthTrail
  <1>7. ReadsInBounds
    BY DEF SInit, TInit, ReadsInBounds
  <1> QED BY <1>7, <1>1, <1>2, <1>3, <1>4, <1>5, <1>6 DEF IInv, TypeOK

(* The bytes of a trail that is all there.                                     *)
LEMMA OperandFact ==
  ASSUME IInv, TrailReady
  PROVE  /\ Operand \in Seq(Byte) /\ Len(Operand) = trail
         /\ LastTrailByte \in Nat /\ LastTrailByte < Len(data)
  BY DEF IInv, TypeOK, ParserTypeOK, TrailReady, Operand, LastTrailByte

(* Writing one well-typed, open frame keeps the frames well typed and open.    *)
LEMMA WriteFrame ==
  ASSUME StackTypeOK, \A i \in Slot : i < top => stack[i].count > 0,
         top \in Nat, top' \in Nat,
         NEW j \in Slot, NEW f, FrameTypeOK(f),
         stack' = [stack EXCEPT ![j] = f],
         top' <= top \/ (top' = top + 1 /\ j = top),
         j < top' => f.count > 0
  PROVE  StackTypeOK' /\ (\A i \in Slot : i < top' => stack'[i].count > 0)
  BY DEF StackTypeOK, FrameTypeOK, Slot

(* _header_again keeps the parser well typed.                                  *)
LEMMA HeaderAgainType ==
  ASSUME ParserTypeOK, Parsing, NEW q \in Nat, q < Len(data), NEW t \in 0 .. StackSize,
         HeaderAgain(q, t), UNCHANGED <<data, trail>>
  PROVE  /\ ParserTypeOK'
         /\ cs' = CS_HEADER
         /\ top' = t
         /\ pc' \in {"out", "header"}
         /\ pc' = "header" => ctx' = ctx
         /\ ctx' = ctx \/ ctx'.cs = CS_HEADER
         /\ ReadsInBounds'
  <1>1. Len(data) \in Nat
    BY DEF ParserTypeOK
  <1> QED BY <1>1 DEF HeaderAgain, ParserTypeOK, Parsing, ReadsInBounds

(* Stop keeps the parser well typed.                                           *)
LEMMA StopType ==
  ASSUME ParserTypeOK, NEW q \in Nat, UNCHANGED data,
         NEW how \in {"finish", "failed", "out"}, Stop(how, q)
  PROVE  /\ ParserTypeOK'
         /\ pc' = how /\ UNCHANGED <<cs, trail, top>>
         /\ ctx' = [cs |-> cs, trail |-> trail, top |-> top]
  BY DEF Stop, ParserTypeOK

(* HEADER is no state with a length, so _header_again keeps LengthTrail.       *)
LEMMA LengthTrailHeader == \A t : LengthTrail(CS_HEADER, t)
  BY DEF LengthTrail, CS_BIN, CS_EXT, CS_STR, CS_ARRAY, CS_MAP

(* start_container keeps the invariant.                                        *)
LEMMA StartContainerIInv ==
  ASSUME IInv, Parsing, UNCHANGED avars,
         NEW c, NEW n \in Nat, NEW ct \in {CT_ARRAY_ITEM, CT_MAP_KEY},
         NEW q \in Nat, q < Len(data),
         StartContainer(c, n, ct, q)
  PROVE  IInv'
  <1> USE DEF IInv, TypeOK, StackFull
  <1>c. CallTypeOK' /\ FlagTypeOK'
    BY DEF CallTypeOK, FlagTypeOK, avars, StartContainer
  <1>t. top \in 0 .. StackSize
    BY DEF ParserTypeOK
  <1>1. CASE top >= StackSize
    <2>1. Stop("failed", q) /\ UNCHANGED <<data, trail, utf8, obj, stack, live>>
      BY <1>1, <1>t DEF StartContainer
    <2>2. ParserTypeOK' /\ pc' = "failed" /\ UNCHANGED <<cs, trail, top>>
          /\ ctx' = [cs |-> cs, trail |-> trail, top |-> top]
      BY <2>1, StopType
    <2>3. StackTypeOK'
      BY <2>1 DEF StackTypeOK, FrameTypeOK
    <2>4. FramesOpen'
      BY <2>1, <2>2 DEF FramesOpen, Parsing
    <2>5. LengthTrail(cs, trail)' /\ LengthTrail(ctx.cs, ctx.trail)'
      BY <2>2 DEF LengthTrail
    <2>6. ReadsInBounds'
      BY <2>2 DEF ReadsInBounds
    <2> QED BY <1>c, <2>2, <2>3, <2>4, <2>5, <2>6
  <1>2. CASE top < StackSize /\ n = 0
    <2> DEFINE f == Frame(c, stack[top].count, stack[top].ct, stack[top].map_key)
    <2>1. /\ stack' = [stack EXCEPT ![top] = f]
          /\ Push(c, q)
          /\ UNCHANGED <<data, cs, trail, top, ctx, utf8>>
      BY <1>2, <1>t DEF StartContainer
    <2>2. top \in Slot /\ FrameTypeOK(stack[top])
      BY <1>2, <1>t DEF Slot, StackTypeOK
    <2>3. FrameTypeOK(f)
      BY <2>2 DEF FrameTypeOK, Frame
    <2>4. StackTypeOK' /\ \A i \in Slot : i < top' => stack'[i].count > 0
      <3>1. top \in Nat /\ top' \in Nat /\ top' <= top /\ ~(top < top')
        BY <2>1, <1>t
      <3>2. \A i \in Slot : i < top => stack[i].count > 0
        BY DEF FramesOpen
      <3> HIDE DEF f
      <3> QED BY <2>1, <2>2, <2>3, <3>1, <3>2, WriteFrame
    <2>5. ParserTypeOK'
      BY <2>1 DEF Push, ParserTypeOK
    <2>6. FramesOpen'
      BY <2>1, <2>4 DEF Push, FramesOpen, Parsing
    <2>7. ReadsInBounds'
      BY <2>1 DEF Push, ReadsInBounds
    <2> QED BY <1>c, <2>1, <2>4, <2>5, <2>6, <2>7
  <1>3. CASE top < StackSize /\ n > 0
    <2> DEFINE f == Frame(c, n, ct, stack[top].map_key)
    <2>1. /\ stack' = [stack EXCEPT ![top] = f]
          /\ HeaderAgain(q, top + 1)
          /\ UNCHANGED <<data, trail, utf8>>
      BY <1>3, <1>t DEF StartContainer
    <2>2. top \in Slot /\ top + 1 \in 0 .. StackSize
      BY <1>3, <1>t DEF Slot
    <2>3. FrameTypeOK(f) /\ f.count > 0
      BY <1>3 DEF FrameTypeOK, Frame
    <2>5. /\ ParserTypeOK'
          /\ cs' = CS_HEADER
          /\ top' = top + 1
          /\ pc' \in {"out", "header"}
          /\ pc' = "header" => ctx' = ctx
          /\ ctx' = ctx \/ ctx'.cs = CS_HEADER
          /\ ReadsInBounds'
      BY <2>1, <2>2, HeaderAgainType
    <2>4. StackTypeOK' /\ \A i \in Slot : i < top' => stack'[i].count > 0
      <3>1. top \in Nat /\ top' \in Nat /\ top' = top + 1
        BY <2>5, <1>t
      <3>2. \A i \in Slot : i < top => stack[i].count > 0
        BY DEF FramesOpen
      <3> HIDE DEF f
      <3> QED BY <2>1, <2>2, <2>3, <3>1, <3>2, WriteFrame
    <2>6. FramesOpen'
      BY <2>4, <2>5 DEF FramesOpen, Parsing
    <2>7. LengthTrail(cs, trail)' /\ LengthTrail(ctx.cs, ctx.trail)'
      BY <2>5, LengthTrailHeader DEF LengthTrail
    <2> QED BY <1>c, <2>4, <2>5, <2>6, <2>7
  <1> QED BY <1>1, <1>2, <1>3, <1>t

-------------------------------------------------------------------------------
(* A step that writes no frame and leaves top alone keeps the frames.          *)
LEMMA FramesUnchanged ==
  ASSUME StackTypeOK, FramesOpen, Parsing, UNCHANGED <<stack, top, ctx>>,
         pc' \in {"header", "trail", "push", "undefined"}
  PROVE  StackTypeOK' /\ FramesOpen'
  BY DEF StackTypeOK, FrameTypeOK, FramesOpen, Parsing

LEMMA BufferAndFlags ==
  ASSUME CallTypeOK, FlagTypeOK, UNCHANGED <<avars, utf8>>
  PROVE  CallTypeOK' /\ FlagTypeOK'
  BY DEF CallTypeOK, FlagTypeOK, avars

(* The byte under p is a byte.                                                 *)
LEMMA CurrentFact ==
  ASSUME ParserTypeOK, p < Len(data)
  PROVE  Current \in Byte /\ Current \in 0 .. 255
  <1>1. p + 1 \in 1 .. Len(data)
    BY DEF ParserTypeOK
  <1>2. data[p + 1] \in Byte
    BY <1>1 DEF ParserTypeOK
  <1> QED BY <1>2 DEF Current, Byte

(* A length or a count read from the trail bytes is a natural number.          *)
LEMMA LengthFact ==
  ASSUME IInv, TrailReady,
         cs \in CS_STR \cup CS_BIN \cup CS_EXT \cup CS_ARRAY \cup CS_MAP
  PROVE  BE(Operand) \in Nat /\ BodyLength(Operand) \in Nat
  <1>1. trail \in {1, 2, 4}
    BY DEF IInv, TypeOK, ParserTypeOK, LengthTrail, TrailReady
  <1>2. BE(Operand) \in Nat
    BY <1>1, OperandFact, BEIsNat
  <1> QED BY <1>2 DEF BodyLength

-------------------------------------------------------------------------------
(* The branches on a header byte keep the invariant.                           *)
LEMMA HeaderIInv ==
  ASSUME IInv, UNCHANGED avars,
         \/ HeaderScalar \/ HeaderEmptyStr \/ HeaderWithTrail
         \/ HeaderContainer \/ HeaderUnassigned
  PROVE  IInv'
  <1> USE DEF IInv, TypeOK
  <1>h. pc = "header" /\ Parsing
    BY DEF HeaderScalar, HeaderEmptyStr, HeaderWithTrail, HeaderContainer,
           HeaderUnassigned, Parsing
  <1>b. p < Len(data) /\ p \in Nat /\ Len(data) \in Nat
        /\ Current \in Byte /\ Current \in 0 .. 255
    BY <1>h, CurrentFact DEF ReadsInBounds, ParserTypeOK
  <1>1. CASE HeaderScalar
    <2>1. ParserTypeOK' /\ ReadsInBounds'
      BY <1>1, <1>b DEF HeaderScalar, Push, ParserTypeOK, ReadsInBounds
    <2>2. StackTypeOK' /\ FramesOpen'
      BY <1>1, <1>h, FramesUnchanged DEF HeaderScalar, Push
    <2>3. CallTypeOK' /\ FlagTypeOK'
      BY <1>1, BufferAndFlags DEF HeaderScalar
    <2> QED BY <1>1, <2>1, <2>2, <2>3 DEF HeaderScalar
  <1>2. CASE HeaderEmptyStr
    <2>1. ParserTypeOK' /\ ReadsInBounds'
      BY <1>2, <1>b DEF HeaderEmptyStr, Push, ParserTypeOK, ReadsInBounds
    <2>2. StackTypeOK' /\ FramesOpen'
      BY <1>2, <1>h, FramesUnchanged DEF HeaderEmptyStr, Push
    <2>3. CallTypeOK' /\ FlagTypeOK'
      BY <1>2, BufferAndFlags DEF HeaderEmptyStr
    <2>4. LengthTrail(cs, trail)' /\ LengthTrail(ctx.cs, ctx.trail)'
      BY <1>2 DEF HeaderEmptyStr, LengthTrail
    <2> QED BY <2>1, <2>2, <2>3, <2>4
  <1>3. CASE HeaderWithTrail
    <2>1. /\ cs' \in 0 .. 34 /\ trail' \in Nat
          /\ LengthTrail(cs', trail')
      <3>1. CASE HasTrail(Current) /\ cs' = NEXT_CS(Current)
                 /\ trail' = HeaderTrail(Current)
        BY <3>1, <1>b, HeaderTrailFact
      <3>2. CASE FixExt(Current) /\ cs' = ACS_EXT_VALUE
                 /\ trail' = HeaderTrail(Current)
        BY <3>2, <1>b, HeaderTrailFact
        DEF LengthTrail, ACS_EXT_VALUE, CS_BIN, CS_EXT, CS_STR, CS_ARRAY, CS_MAP
      <3>3. CASE FixStr(Current) /\ cs' = ACS_STR_VALUE /\ trail' = Current % 32
        BY <3>3, <1>b
        DEF LengthTrail, ACS_STR_VALUE, CS_BIN, CS_EXT, CS_STR, CS_ARRAY, CS_MAP
      <3> QED BY <1>3, <3>1, <3>2, <3>3 DEF HeaderWithTrail
    <2>2. ParserTypeOK' /\ ReadsInBounds'
      BY <1>3, <1>b, <2>1 DEF HeaderWithTrail, ParserTypeOK, ReadsInBounds
    <2>3. StackTypeOK' /\ FramesOpen'
      BY <1>3, <1>h, FramesUnchanged DEF HeaderWithTrail
    <2>4. CallTypeOK' /\ FlagTypeOK'
      BY <1>3, BufferAndFlags DEF HeaderWithTrail
    <2>5. LengthTrail(ctx.cs, ctx.trail)'
      BY <1>3 DEF HeaderWithTrail, LengthTrail
    <2> QED BY <2>1, <2>2, <2>3, <2>4, <2>5 DEF LengthTrail
  <1>4. CASE HeaderContainer
    <2>1. Current % 16 \in Nat
      BY <1>b
    <2> QED BY <1>4, <1>h, <1>b, <2>1, StartContainerIInv DEF HeaderContainer
  <1>5. CASE HeaderUnassigned
    <2>1. /\ ParserTypeOK' /\ pc' = "failed" /\ UNCHANGED <<cs, trail, top>>
          /\ ctx' = [cs |-> cs, trail |-> trail, top |-> top]
      BY <1>5, <1>b, StopType DEF HeaderUnassigned
    <2>2. StackTypeOK' /\ FramesOpen' /\ ReadsInBounds'
      BY <1>5, <2>1
      DEF HeaderUnassigned, StackTypeOK, FrameTypeOK, FramesOpen, Parsing,
          ReadsInBounds
    <2>3. CallTypeOK' /\ FlagTypeOK'
      BY <1>5, BufferAndFlags DEF HeaderUnassigned
    <2> QED BY <2>1, <2>2, <2>3 DEF LengthTrail
  <1> QED BY <1>1, <1>2, <1>3, <1>4, <1>5

-------------------------------------------------------------------------------
(* A value made from the trail bytes: Number, EmptyBody and Body.              *)
LEMMA ValueIInv ==
  ASSUME IInv, UNCHANGED avars, TrailReady, NEW v,
         Push(v, LastTrailByte),
         UNCHANGED <<data, cs, top, ctx, stack, utf8>>,
         trail' \in {trail, 0}
  PROVE  IInv'
  <1> USE DEF IInv, TypeOK
  <1>p. pc = "trail" /\ Parsing
    BY DEF TrailReady, Parsing
  <1>1. ParserTypeOK' /\ ReadsInBounds'
    BY OperandFact DEF Push, ParserTypeOK, ReadsInBounds
  <1>2. StackTypeOK' /\ FramesOpen'
    BY <1>p, FramesUnchanged DEF Push
  <1>3. CallTypeOK' /\ FlagTypeOK'
    BY BufferAndFlags
  <1>4. LengthTrail(cs, trail)' /\ LengthTrail(ctx.cs, ctx.trail)'
    BY DEF LengthTrail
  <1> QED BY <1>1, <1>2, <1>3, <1>4

(* The branches of the default label keep the invariant.                       *)
LEMMA TrailIInv ==
  ASSUME IInv, UNCHANGED avars,
         \/ TrailShort \/ TrailStale \/ Number \/ Length \/ EmptyBody \/ Body
         \/ ExtCroak \/ Container
  PROVE  IInv'
  <1> USE DEF IInv, TypeOK
  <1>p. pc = "trail" /\ Parsing
    BY DEF TrailShort, TrailStale, Number, Length, EmptyBody, Body, ExtCroak,
           Container, TrailReady, Parsing
  <1>b. p <= Len(data) /\ p \in Nat /\ Len(data) \in Nat
    BY <1>p DEF ReadsInBounds, ParserTypeOK
  <1>1. CASE TrailShort
    <2>1. /\ ParserTypeOK' /\ pc' = "out" /\ UNCHANGED <<cs, trail, top>>
          /\ ctx' = [cs |-> cs, trail |-> trail, top |-> top]
      BY <1>1, <1>b, StopType DEF TrailShort
    <2>2. StackTypeOK' /\ FramesOpen' /\ ReadsInBounds'
      BY <1>1, <2>1
      DEF TrailShort, StackTypeOK, FrameTypeOK, FramesOpen, Parsing,
          ReadsInBounds
    <2>3. CallTypeOK' /\ FlagTypeOK'
      BY <1>1, BufferAndFlags DEF TrailShort
    <2> QED BY <2>1, <2>2, <2>3 DEF LengthTrail
  <1>2. CASE TrailStale
    <2>1. ParserTypeOK' /\ ReadsInBounds'
      BY <1>2 DEF TrailStale, ParserTypeOK, ReadsInBounds
    <2>2. StackTypeOK' /\ FramesOpen'
      BY <1>2, <1>p, FramesUnchanged DEF TrailStale
    <2>3. CallTypeOK' /\ FlagTypeOK'
      BY <1>2, BufferAndFlags DEF TrailStale
    <2> QED BY <1>2, <2>1, <2>2, <2>3 DEF TrailStale, LengthTrail
  <1>3. CASE Number
    BY <1>3, ValueIInv DEF Number
  <1>4. CASE Length
    <2>1. trail' \in Nat /\ cs' \in {ACS_STR_VALUE, ACS_BIN_VALUE, ACS_EXT_VALUE}
      BY <1>4, LengthFact DEF Length, BodyState
    <2>2. ParserTypeOK' /\ ReadsInBounds'
      BY <1>4, <1>p, <2>1, OperandFact, <1>b
      DEF Length, ParserTypeOK, ReadsInBounds, ACS_STR_VALUE, ACS_BIN_VALUE,
          ACS_EXT_VALUE
    <2>3. StackTypeOK' /\ FramesOpen'
      BY <1>4, <1>p, FramesUnchanged DEF Length
    <2>4. CallTypeOK' /\ FlagTypeOK'
      BY <1>4, BufferAndFlags DEF Length
    <2>5. LengthTrail(cs, trail)' /\ LengthTrail(ctx.cs, ctx.trail)'
      BY <1>4, <2>1
      DEF Length, LengthTrail, ACS_STR_VALUE, ACS_BIN_VALUE, ACS_EXT_VALUE,
          CS_BIN, CS_EXT, CS_STR, CS_ARRAY, CS_MAP
    <2> QED BY <2>2, <2>3, <2>4, <2>5
  <1>5. CASE EmptyBody
    BY <1>5, ValueIInv DEF EmptyBody
  <1>6. CASE Body
    BY <1>6, ValueIInv DEF Body
  <1>7. CASE ExtCroak
    <2>1. ParserTypeOK' /\ ReadsInBounds'
      BY <1>7 DEF ExtCroak, ParserTypeOK, ReadsInBounds
    <2>2. top' = 0
      BY <1>7, <1>p DEF ExtCroak, FramesOpen
    <2>3. StackTypeOK' /\ FramesOpen'
      BY <1>7, <2>2
      DEF ExtCroak, StackTypeOK, FrameTypeOK, FramesOpen, Parsing, Slot
    <2>4. CallTypeOK' /\ FlagTypeOK'
      BY <1>7, BufferAndFlags DEF ExtCroak
    <2> QED BY <1>7, <2>1, <2>3, <2>4 DEF ExtCroak, LengthTrail
  <1>8. CASE Container
    <2>1. TrailReady /\ BE(Operand) \in Nat
      BY <1>8, LengthFact DEF Container
    <2> QED BY <1>8, <1>p, <2>1, OperandFact, StartContainerIInv DEF Container
  <1> QED BY <1>1, <1>2, <1>3, <1>4, <1>5, <1>6, <1>7, <1>8

-------------------------------------------------------------------------------
(* An item stored in the innermost container keeps the invariant.              *)
LEMMA ItemStoredIInv ==
  ASSUME IInv, UNCHANGED avars, pc = "push", top > 0, NEW c,
         NEW ct \in {CT_ARRAY_ITEM, CT_MAP_KEY, CT_MAP_VALUE},
         ItemStored(c, ct)
  PROVE  IInv'
  <1> USE DEF IInv, TypeOK, LastItem
  <1> DEFINE f == Frame(c, Parent.count - 1, ct, Parent.map_key)
  <1>p. /\ Parsing /\ top \in 1 .. StackSize /\ top - 1 \in Slot
        /\ p \in Nat /\ p < Len(data)
    BY DEF ParserTypeOK, Parsing, Slot, ReadsInBounds
  <1>1. Parent.count \in Nat /\ Parent.count > 0
    BY <1>p DEF Parent, StackTypeOK, FrameTypeOK, FramesOpen
  <1>2. stack' = [stack EXCEPT ![top - 1] = f] /\ FrameTypeOK(f)
    BY <1>1 DEF ItemStored, Parent, Frame, FrameTypeOK
  <1>3. f.count = Parent.count - 1
    BY DEF Frame
  <1>4. \A i \in Slot : i < top => stack[i].count > 0
    BY DEF FramesOpen
  <1>5. CallTypeOK' /\ FlagTypeOK'
    BY BufferAndFlags DEF ItemStored
  <1>6. CASE Parent.count = 1
    <2>1. top' = top - 1 /\ UNCHANGED <<p, cs, pc, ctx, data, trail, utf8>>
      BY <1>6 DEF ItemStored
    <2>2. StackTypeOK' /\ \A i \in Slot : i < top' => stack'[i].count > 0
      <3>1. top \in Nat /\ top' \in Nat /\ top' <= top /\ ~(top - 1 < top')
        BY <1>p, <2>1
      <3> HIDE DEF f
      <3> QED BY <1>p, <1>2, <1>4, <3>1, WriteFrame
    <2>3. ParserTypeOK' /\ ReadsInBounds'
      BY <1>p, <2>1 DEF ParserTypeOK, ReadsInBounds
    <2>4. FramesOpen'
      BY <2>1, <2>2 DEF FramesOpen, Parsing
    <2> QED BY <1>5, <2>1, <2>2, <2>3, <2>4
  <1>7. CASE Parent.count # 1
    <2>1. HeaderAgain(p, top) /\ UNCHANGED <<data, trail, utf8>>
      BY <1>7 DEF ItemStored
    <2>2. /\ ParserTypeOK'
          /\ cs' = CS_HEADER /\ top' = top
          /\ pc' \in {"out", "header"}
          /\ pc' = "header" => ctx' = ctx
          /\ ctx' = ctx \/ ctx'.cs = CS_HEADER
          /\ ReadsInBounds'
      BY <1>p, <2>1, HeaderAgainType
    <2>3. StackTypeOK' /\ \A i \in Slot : i < top' => stack'[i].count > 0
      <3>1. top \in Nat /\ top' \in Nat /\ top' <= top /\ f.count > 0
        BY <1>p, <1>1, <1>3, <1>7, <2>2
      <3> HIDE DEF f
      <3> QED BY <1>p, <1>2, <1>4, <3>1, WriteFrame
    <2>4. FramesOpen'
      BY <1>p, <2>2, <2>3 DEF FramesOpen, Parsing
    <2>5. LengthTrail(cs, trail)' /\ LengthTrail(ctx.cs, ctx.trail)'
      BY <2>2, LengthTrailHeader DEF LengthTrail
    <2> QED BY <1>5, <2>2, <2>3, <2>4, <2>5
  <1> QED BY <1>6, <1>7

(* The branches of _push keep the invariant.                                   *)
LEMMA PushIInv ==
  ASSUME IInv, UNCHANGED avars,
         PushRoot \/ PushArrayItem \/ PushMapKey \/ PushMapValue
  PROVE  IInv'
  <1> USE DEF IInv, TypeOK
  <1>p. /\ pc = "push" /\ Parsing /\ p \in Nat /\ p < Len(data)
        /\ Len(data) \in Nat /\ top \in 0 .. StackSize
    BY DEF PushRoot, PushArrayItem, PushMapKey, PushMapValue, Parsing,
           ReadsInBounds, ParserTypeOK
  <1>4. \A i \in Slot : i < top => stack[i].count > 0
    BY DEF FramesOpen
  <1>1. CASE PushRoot
    <2> DEFINE f == Frame(obj, stack[0].count, stack[0].ct, stack[0].map_key)
    <2>1. /\ stack' = [stack EXCEPT ![0] = f]
          /\ Stop("finish", p + 1) /\ UNCHANGED <<data, trail, utf8>>
          /\ top = 0
      BY <1>1 DEF PushRoot
    <2>2. /\ ParserTypeOK' /\ pc' = "finish" /\ UNCHANGED <<cs, trail, top>>
          /\ ctx' = [cs |-> cs, trail |-> trail, top |-> top]
      BY <1>p, <2>1, StopType
    <2>3. 0 \in Slot /\ FrameTypeOK(f)
      BY DEF Slot, StackTypeOK, FrameTypeOK, Frame
    <2>4. StackTypeOK' /\ \A i \in Slot : i < top' => stack'[i].count > 0
      <3>1. top \in Nat /\ top' \in Nat /\ top' <= top /\ ~(0 < top')
        BY <2>1, <2>2
      <3> HIDE DEF f
      <3> QED BY <1>4, <2>1, <2>3, <3>1, WriteFrame
    <2>5. FramesOpen'
      BY <2>1, <2>2, <2>4 DEF FramesOpen, Parsing
    <2>6. ReadsInBounds'
      BY <1>p, <2>1, <2>2 DEF Stop, ReadsInBounds
    <2>7. CallTypeOK' /\ FlagTypeOK'
      BY <2>1, BufferAndFlags
    <2> QED BY <2>2, <2>4, <2>5, <2>6, <2>7 DEF LengthTrail
  <1>2. CASE PushArrayItem
    BY <1>2, ItemStoredIInv DEF PushArrayItem
  <1>3. CASE PushMapKey
    <2> DEFINE f == Frame(Parent.obj, Parent.count, CT_MAP_VALUE, obj)
    <2>1. /\ stack' = [stack EXCEPT ![top - 1] = f]
          /\ HeaderAgain(p, top) /\ UNCHANGED <<data, trail, utf8>>
          /\ top > 0
      BY <1>3 DEF PushMapKey, Parent
    <2>2. /\ ParserTypeOK'
          /\ cs' = CS_HEADER /\ top' = top
          /\ pc' \in {"out", "header"}
          /\ pc' = "header" => ctx' = ctx
          /\ ctx' = ctx \/ ctx'.cs = CS_HEADER
          /\ ReadsInBounds'
      BY <1>p, <2>1, HeaderAgainType
    <2>3. top - 1 \in Slot
      BY <1>p, <2>1 DEF Slot
    <2>4. FrameTypeOK(f) /\ f.count > 0
      BY <1>p, <2>1, <2>3, <1>4
      DEF Parent, StackTypeOK, FrameTypeOK, Frame
    <2>5. StackTypeOK' /\ \A i \in Slot : i < top' => stack'[i].count > 0
      <3>1. top \in Nat /\ top' \in Nat /\ top' <= top
        BY <1>p, <2>2
      <3> HIDE DEF f
      <3> QED BY <1>4, <2>1, <2>3, <2>4, <3>1, WriteFrame
    <2>6. FramesOpen'
      BY <2>2, <2>5, <1>p DEF FramesOpen, Parsing
    <2>7. CallTypeOK' /\ FlagTypeOK'
      BY <2>1, BufferAndFlags
    <2>8. LengthTrail(cs, trail)' /\ LengthTrail(ctx.cs, ctx.trail)'
      BY <2>2, LengthTrailHeader DEF LengthTrail
    <2> QED BY <2>2, <2>5, <2>6, <2>7, <2>8
  <1>5. CASE PushMapValue
    BY <1>5, ItemStoredIInv DEF PushMapValue
  <1> QED BY <1>1, <1>2, <1>3, <1>5

-------------------------------------------------------------------------------
(* template_init keeps the frames and closes them.                             *)
LEMMA TemplateInitFact ==
  ASSUME StackTypeOK, TemplateInit
  PROVE  /\ StackTypeOK'
         /\ cs' = 0 /\ trail' = 0 /\ top' = 0 /\ ctx' = InitCtx
         /\ TemplateData' = NULL
  BY DEF TemplateInit, StackTypeOK, FrameTypeOK, Frame, Slot, TemplateData

(* The calls of a program keep the invariant.                                  *)
LEMMA CallIInv ==
  ASSUME IInv, Execute \/ Return \/ Utf8 \/ Reset \/ DESTROY \/ New
  PROVE  IInv'
  <1> USE DEF IInv, TypeOK
  <1>0. << >> \in Seq(Byte)
    OBVIOUS
  <1>1. ASSUME NEW a \in Arguments, ExecuteCall(a) PROVE IInv'
    <2> DEFINE dptr == SubSeq(a.bytes, 1, a.limit)
    <2>1. /\ a.bytes \in Seq(Byte) /\ a.offset \in Nat /\ a.limit \in Nat
          /\ a.offset < a.limit /\ a.limit <= Len(a.bytes)
      BY <1>1, ArgumentsAssumption DEF ExecuteCall
    <2>2. dptr \in Seq(Byte) /\ Len(dptr) = a.limit
      BY <2>1
    <2>3. buffer \o dptr \in Seq(Byte) /\ Len(buffer \o dptr) >= a.limit
      <3> HIDE DEF dptr
      <3> QED BY <2>1, <2>2 DEF CallTypeOK
    <2>4. \E bytes \in Seq(Byte), from \in Nat :
             from < Len(bytes) /\ Enter(bytes, from)
      <3>1. \/ Enter(buffer \o dptr, 0)
            \/ Enter(dptr, a.offset)
        BY <1>1 DEF ExecuteCall
      <3> HIDE DEF dptr
      <3>2. CASE Enter(buffer \o dptr, 0)
        <4>1. 0 < Len(buffer \o dptr)
          BY <2>1, <2>3
        <4> QED BY <3>2, <2>3, <4>1
      <3>3. CASE Enter(dptr, a.offset)
        <4>1. a.offset < Len(dptr)
          BY <2>1, <2>2
        <4> QED BY <3>3, <2>1, <2>2, <4>1
      <3> QED BY <3>1, <3>2, <3>3
    <2>5. buffer' \in Seq(Byte)
      <3>1. buffer' = buffer \o dptr \/ buffer' = buffer
        BY <1>1 DEF ExecuteCall
      <3> HIDE DEF dptr
      <3> QED BY <2>3, <3>1 DEF CallTypeOK
    <2>6. CallTypeOK' /\ FlagTypeOK'
      <3>1. calls < MaxCalls /\ calls' = calls + 1
            /\ UNCHANGED <<finished, ret, alive, last, utf8>>
        BY <1>1, <2>4 DEF ExecuteCall, Enter
      <3>2. CallTypeOK'
        BY <2>5, <3>1, MaxCallsAssumption DEF CallTypeOK
      <3> QED BY <3>1, <3>2 DEF FlagTypeOK
    <2>7. pc = "idle" /\ last # "croaked"
      BY <1>1 DEF ExecuteCall, Idle
    <2>8. PICK bytes \in Seq(Byte), from \in Nat :
             from < Len(bytes) /\ Enter(bytes, from)
      BY <2>4
    <2>9. /\ data' = bytes /\ p' = from /\ pc' \in {"header", "trail"}
          /\ UNCHANGED <<cs, trail, top, ctx, stack>>
      BY <2>8 DEF Enter
    <2>10. ParserTypeOK' /\ ReadsInBounds'
      BY <2>8, <2>9 DEF ParserTypeOK, ReadsInBounds
    <2>11. StackTypeOK'
      BY <2>9 DEF StackTypeOK, FrameTypeOK
    <2>12. FramesOpen'
      BY <2>7, <2>9 DEF FramesOpen, Parsing
    <2> QED BY <2>6, <2>9, <2>10, <2>11, <2>12 DEF LengthTrail
  <1>2. CASE ReturnFinished
    <2>1. ParserTypeOK' /\ ReadsInBounds'
      BY <1>0, <1>2 DEF ReturnFinished, LeaveTemplate, ParserTypeOK, ReadsInBounds
    <2>2. StackTypeOK' /\ FramesOpen'
      BY <1>2
      DEF ReturnFinished, LeaveTemplate, StackTypeOK, FrameTypeOK, FramesOpen,
          Parsing
    <2>3. CallTypeOK'
      BY <1>0, <1>2 DEF ReturnFinished, CallTypeOK, ParserTypeOK
    <2>4. FlagTypeOK'
      BY <1>2 DEF ReturnFinished, FlagTypeOK
    <2> QED BY <1>2, <2>1, <2>2, <2>3, <2>4 DEF ReturnFinished, LengthTrail
  <1>3. CASE ReturnUnfinished
    <2>1. StackTypeOK' /\ cs' = 0 /\ trail' = 0 /\ top' = 0 /\ ctx' = InitCtx
      BY <1>3, TemplateInitFact DEF ReturnUnfinished
    <2>2. ParserTypeOK' /\ ReadsInBounds'
      BY <1>0, <1>3, <2>1
      DEF ReturnUnfinished, Kept, LeaveTemplate, ParserTypeOK, ReadsInBounds
    <2>3. FramesOpen'
      BY <1>3, <2>1 DEF ReturnUnfinished, Kept, LeaveTemplate, FramesOpen, Parsing, Slot
    <2>4. CallTypeOK'
      BY <1>3 DEF ReturnUnfinished, Kept, CallTypeOK, ParserTypeOK
    <2>5. FlagTypeOK'
      BY <1>3 DEF ReturnUnfinished, Kept, FlagTypeOK
    <2>6. LengthTrail(cs, trail)' /\ LengthTrail(ctx.cs, ctx.trail)'
      BY <2>1 DEF LengthTrail
    <2> QED BY <2>1, <2>2, <2>3, <2>4, <2>5, <2>6
  <1>4. CASE ReturnCroak
    <2>1. ParserTypeOK' /\ ReadsInBounds'
      BY <1>0, <1>4 DEF ReturnCroak, LeaveTemplate, ParserTypeOK, ReadsInBounds
    <2>2. StackTypeOK' /\ FramesOpen'
      BY <1>4
      DEF ReturnCroak, LeaveTemplate, StackTypeOK, FrameTypeOK, FramesOpen,
          Parsing
    <2>3. CallTypeOK'
      BY <1>4 DEF ReturnCroak, CallTypeOK
    <2>4. FlagTypeOK'
      BY <1>4 DEF ReturnCroak, FlagTypeOK
    <2> QED BY <1>4, <2>1, <2>2, <2>3, <2>4 DEF ReturnCroak, LengthTrail
  <1>5. CASE Utf8
    <2>1. ParserTypeOK' /\ ReadsInBounds' /\ StackTypeOK' /\ FramesOpen'
          /\ CallTypeOK'
      BY <1>5
      DEF Utf8, avars, ParserTypeOK, ReadsInBounds, StackTypeOK, FrameTypeOK,
          FramesOpen, Parsing, CallTypeOK
    <2>2. FlagTypeOK'
      BY <1>5, Utf8ArgsAssumption DEF Utf8, avars, FlagTypeOK
    <2> QED BY <1>5, <2>1, <2>2 DEF Utf8, LengthTrail
  <1>6. CASE Reset
    <2>1. StackTypeOK' /\ cs' = 0 /\ trail' = 0 /\ top' = 0 /\ ctx' = InitCtx
      BY <1>6, TemplateInitFact DEF Reset
    <2>2. ParserTypeOK' /\ ReadsInBounds'
      BY <1>6, <2>1 DEF Reset, Idle, ParserTypeOK, ReadsInBounds
    <2>3. FramesOpen'
      BY <1>6, <2>1 DEF Reset, Idle, FramesOpen, Parsing, Slot
    <2>4. CallTypeOK'
      BY <1>0, <1>6 DEF Reset, CallTypeOK
    <2>5. FlagTypeOK'
      BY <1>6 DEF Reset, FlagTypeOK
    <2>6. LengthTrail(cs, trail)' /\ LengthTrail(ctx.cs, ctx.trail)'
      BY <2>1 DEF LengthTrail
    <2> QED BY <2>1, <2>2, <2>3, <2>4, <2>5, <2>6
  <1>7. CASE DESTROY
    <2>1. ParserTypeOK' /\ ReadsInBounds' /\ StackTypeOK' /\ FramesOpen'
      BY <1>7
      DEF DESTROY, ParserTypeOK, ReadsInBounds, StackTypeOK, FrameTypeOK,
          FramesOpen, Parsing
    <2>2. CallTypeOK'
      BY <1>7 DEF DESTROY, CallTypeOK
    <2>3. FlagTypeOK'
      BY <1>7 DEF DESTROY, FlagTypeOK
    <2> QED BY <1>7, <2>1, <2>2, <2>3 DEF DESTROY, LengthTrail
  <1>8. CASE New
    <2>1. StackTypeOK'
      BY <1>8 DEF New, StackTypeOK, FrameTypeOK, Frame
    <2>2. ParserTypeOK' /\ ReadsInBounds'
      BY <1>8 DEF New, ParserTypeOK, ReadsInBounds
    <2>3. FramesOpen'
      BY <1>8 DEF New, FramesOpen, Parsing, Slot
    <2>4. CallTypeOK'
      BY <1>0, <1>8 DEF New, CallTypeOK
    <2>5. FlagTypeOK'
      BY <1>8 DEF New, FlagTypeOK
    <2>6. LengthTrail(cs, trail)' /\ LengthTrail(ctx.cs, ctx.trail)'
      BY <1>8 DEF New, LengthTrail
    <2> QED BY <2>1, <2>2, <2>3, <2>4, <2>5, <2>6
  <1> QED
    BY <1>1, <1>2, <1>3, <1>4, <1>5, <1>6, <1>7, <1>8 DEF Execute, Return

(* Steps that change nothing keep the invariant.                               *)
LEMMA StutterIInv == IInv /\ UNCHANGED vars => IInv'
  <1> SUFFICES ASSUME IInv, UNCHANGED vars PROVE IInv'
    OBVIOUS
  <1>1. UNCHANGED <<data, p, cs, trail, top, pc, ctx, stack>>
        /\ UNCHANGED <<avars, utf8>>
    BY DEF vars, tvars
  <1>2. ParserTypeOK' /\ ReadsInBounds' /\ StackTypeOK'
    BY <1>1
    DEF IInv, TypeOK, ParserTypeOK, ReadsInBounds, StackTypeOK, FrameTypeOK
  <1>3. FramesOpen'
    BY <1>1 DEF IInv, FramesOpen, Parsing, avars
  <1>4. CallTypeOK' /\ FlagTypeOK'
    BY <1>1, BufferAndFlags DEF IInv, TypeOK
  <1> QED BY <1>1, <1>2, <1>3, <1>4 DEF IInv, TypeOK, LengthTrail

(* The invariant holds in every reachable state of every instance.             *)
THEOREM Invariance == Spec => []IInv
  <1>1. IInv /\ [Next]_vars => IInv'
    <2> SUFFICES ASSUME IInv, [Next]_vars PROVE IInv'
      OBVIOUS
    <2>1. CASE Run
      BY <2>1, HeaderIInv, TrailIInv, PushIInv DEF Run, ParseStep
    <2>2. CASE Execute \/ Return \/ Utf8 \/ Reset \/ DESTROY \/ New
      BY <2>2, CallIInv
    <2>3. CASE UNCHANGED vars
      BY <2>3, StutterIInv
    <2> QED BY <2>1, <2>2, <2>3 DEF Next
  <1> QED BY <1>1, InitIInv, PTL DEF Spec

(* Type correctness, of the parser and of the calls around it.                 *)
THEOREM TypeCorrect == Spec => []TypeOK
  BY Invariance, PTL DEF IInv

(* The item counters of the open containers never pass zero, and every execute *)
(* begins with no container open.                                              *)
THEOREM CountersPositive == Spec => []FramesOpen
  BY Invariance, PTL DEF IInv

(* The parser never reads outside the bytes it was given, whatever they are.   *)
THEOREM BoundsRespected == Spec => []ReadsInBounds
  BY Invariance, PTL DEF IInv

-------------------------------------------------------------------------------
(* ContextIsFresh made inductive: the locals mirror the context, and nothing   *)
(* parses for a program that has no Unpacker.                                  *)
FreshInv ==
  /\ pc = "idle" /\ last \in {"fresh", "unfinished"} =>
       cs = 0 /\ ctx = InitCtx /\ TemplateData = NULL
  /\ alive \/ pc = "idle"

(* An action of the parser does not end in "idle".                             *)
LEMMA RunStaysInside ==
  ASSUME ParseStep
  PROVE  /\ pc \in {"header", "trail", "push"}
         /\ pc' \in {"header", "trail", "push", "finish", "out", "failed",
                     "croaked", "undefined"}
  <1> USE DEF ParseStep, Push, Stop, HeaderAgain, StartContainer, ItemStored,
              TrailReady
  <1>1. CASE HeaderScalar \/ HeaderEmptyStr \/ HeaderWithTrail
             \/ HeaderUnassigned
    BY <1>1 DEF HeaderScalar, HeaderEmptyStr, HeaderWithTrail, HeaderUnassigned
  <1>2. CASE HeaderContainer
    BY <1>2 DEF HeaderContainer
  <1>3. CASE TrailShort \/ TrailStale \/ Number \/ Length
    BY <1>3 DEF TrailShort, TrailStale, Number, Length
  <1>4. CASE EmptyBody \/ Body \/ ExtCroak
    BY <1>4 DEF EmptyBody, Body, ExtCroak
  <1>5. CASE Container
    BY <1>5 DEF Container
  <1>6. CASE PushRoot \/ PushArrayItem \/ PushMapKey \/ PushMapValue
    BY <1>6 DEF PushRoot, PushArrayItem, PushMapKey, PushMapValue
  <1> QED BY <1>1, <1>2, <1>3, <1>4, <1>5, <1>6

LEMMA DataUnchanged ==
  ASSUME ParseStep
  PROVE  UNCHANGED <<data, utf8>>
  BY DEF ParseStep, HeaderScalar, HeaderEmptyStr, HeaderWithTrail, HeaderContainer,
         HeaderUnassigned, TrailShort, TrailStale, Number, Length, EmptyBody, Body,
         ExtCroak, Container, PushRoot, PushArrayItem, PushMapKey, PushMapValue,
         StartContainer, ItemStored

LEMMA FreshStep == IInv /\ FreshInv /\ [Next]_vars => FreshInv'
  <1> SUFFICES ASSUME IInv, FreshInv, [Next]_vars PROVE FreshInv'
    OBVIOUS
  <1> USE DEF FreshInv
  <1>1. CASE Run
    BY <1>1, RunStaysInside DEF Run, avars
  <1>2. CASE Execute
    BY <1>2 DEF Execute, ExecuteCall, Enter, Idle
  <1>3. CASE ReturnUnfinished
    BY <1>3, TemplateInitFact DEF ReturnUnfinished, Kept, LeaveTemplate, IInv, TypeOK
  <1>4. CASE ReturnFinished \/ ReturnCroak
    BY <1>4 DEF ReturnFinished, ReturnCroak, LeaveTemplate
  <1>5. CASE Reset
    BY <1>5, TemplateInitFact DEF Reset, Idle, IInv, TypeOK
  <1>6. CASE Utf8
    BY <1>6 DEF Utf8, Idle, avars, TemplateData
  <1>7. CASE DESTROY
    BY <1>7 DEF DESTROY, Idle, TemplateData
  <1>8. CASE New
    BY <1>8 DEF New, TemplateData, Frame, Slot
  <1>9. CASE UNCHANGED vars
    BY <1>9 DEF vars, tvars, avars, TemplateData
  <1> QED
    BY <1>1, <1>2, <1>3, <1>4, <1>5, <1>6, <1>7, <1>8, <1>9 DEF Next, Return

(* Every execute that follows new, reset or an unfinished execute parses from  *)
(* a fresh context that owns no SV, so that an unfinished message is parsed    *)
(* again from its first byte.                                                  *)
THEOREM FreshContext == Spec => []ContextIsFresh
  <1>1. SInit => FreshInv
    BY DEF SInit, TInit, FreshInv, TemplateData, Frame, Slot
  <1>2. FreshInv => ContextIsFresh
    BY DEF FreshInv, ContextIsFresh
  <1> QED BY <1>1, <1>2, FreshStep, Invariance, PTL DEF Spec

(* A parser step arms a trail of at least one byte.                            *)
LEMMA TrailPositive ==
  ASSUME IInv, NeverUndefined, ParseStep
  PROVE  NeverUndefined'
  <1> USE DEF NeverUndefined, Push, Stop, HeaderAgain, TrailReady
  <1>1. CASE HeaderWithTrail
    <2>1. pc = "header" /\ p < Len(data)
      BY <1>1 DEF HeaderWithTrail, IInv, ReadsInBounds
    <2>2. Current \in Byte /\ Current \in 0 .. 255
      BY <2>1, CurrentFact DEF IInv, TypeOK
    <2>3. trail' > 0
      BY <1>1, <2>2, HeaderTrailFact DEF HeaderWithTrail
    <2> QED BY <1>1, <2>3 DEF HeaderWithTrail
  <1>2. CASE Length
    BY <1>2 DEF Length
  <1>3. CASE TrailStale
    BY <1>3 DEF TrailStale
  <1>4. CASE HeaderScalar \/ HeaderEmptyStr \/ HeaderUnassigned \/ TrailShort
             \/ Number \/ EmptyBody \/ Body \/ ExtCroak
    BY <1>4
    DEF HeaderScalar, HeaderEmptyStr, HeaderUnassigned, TrailShort, Number,
        EmptyBody, Body, ExtCroak
  <1>5. CASE HeaderContainer
    BY <1>5 DEF HeaderContainer, StartContainer
  <1>6. CASE Container
    BY <1>6 DEF Container, StartContainer
  <1>7. CASE PushRoot \/ PushArrayItem \/ PushMapKey \/ PushMapValue
    BY <1>7
    DEF PushRoot, PushArrayItem, PushMapKey, PushMapValue, ItemStored
  <1> QED BY <1>1, <1>2, <1>3, <1>4, <1>5, <1>6, <1>7 DEF ParseStep

(* In a program that resets after each message, the parser never meets the     *)
(* stale trail that would send it outside its input.                           *)
THEOREM CarefulIsDefined ==
  ASSUME Careful
  PROVE  Spec => []NeverUndefined
  <1>1. SInit => FreshInv /\ NeverUndefined
    BY DEF SInit, TInit, FreshInv, NeverUndefined, TemplateData, Frame, Slot
  <1>2. IInv /\ FreshInv /\ NeverUndefined /\ [Next]_vars => NeverUndefined'
    <2> SUFFICES ASSUME IInv, FreshInv, NeverUndefined, [Next]_vars
                 PROVE  NeverUndefined'
      OBVIOUS
    <2>1. CASE Run
      BY <2>1, TrailPositive DEF Run
    <2>2. CASE Execute
      <3>1. cs = 0
        BY <2>2
        DEF Execute, ExecuteCall, Idle, FreshInv, IInv, TypeOK, CallTypeOK
      <3>2. pc' \in {"out", "header"}
        BY <2>2, <3>1 DEF Execute, ExecuteCall, Enter
      <3> QED BY <3>2 DEF NeverUndefined
    <2>3. CASE Return
      BY <2>3
      DEF Return, ReturnFinished, ReturnUnfinished, ReturnCroak, LeaveTemplate,
          NeverUndefined
    <2>4. CASE Utf8 \/ Reset \/ DESTROY
      BY <2>4 DEF Utf8, Reset, DESTROY, Idle, NeverUndefined
    <2>5. CASE New
      BY <2>5 DEF New, FreshInv, NeverUndefined
    <2>6. CASE UNCHANGED vars
      BY <2>6 DEF vars, tvars, NeverUndefined
    <2> QED BY <2>1, <2>2, <2>3, <2>4, <2>5, <2>6 DEF Next
  <1> QED BY <1>1, <1>2, FreshStep, Invariance, PTL DEF Spec

-------------------------------------------------------------------------------
(* FinishedHasData made inductive: what is pushed, what an open container has  *)
(* collected and what a finished parse leaves in stack[0] is an SV.            *)
Real(v) == "null" \notin DOMAIN v

ValueInv ==
  /\ pc = "push" => Real(obj)
  /\ \A i \in Slot : i < top => Real(stack[i].obj)
  /\ pc = "finish" => Real(TemplateData)
  /\ pc = "idle" /\ last = "finished" => finished = TRUE /\ Real(TemplateData)
  /\ pc = "idle" /\ last = "unfinished" => finished = FALSE

LEMMA RealValues ==
  /\ ~Real(NULL) /\ Real(Undef) /\ Real(EmptyArray) /\ Real(EmptyHash)
  /\ \A x : Real(Bool(x)) /\ Real(IntValue(x)) /\ Real(Float(x))
  /\ \A x, y : Real(Str(x, y))
  BY DEF Real, NULL, Undef, EmptyArray, EmptyHash, Bool, IntValue, Float, Str

LEMMA StoredReal ==
  ASSUME NEW c, NEW k, NEW v, Real(c)
  PROVE  Real(ArrayItem(c, v)) /\ Real(MapItem(c, k, v))
  BY DEF Real, ArrayItem, MapItem

(* start_container makes a container, and pushes it at once when it is empty.  *)
LEMMA StartContainerReal ==
  ASSUME IInv, ValueInv, Parsing, NEW c, Real(c), NEW n, NEW ct, NEW q,
         StartContainer(c, n, ct, q)
  PROVE  ValueInv'
  <1> USE DEF ValueInv
  <1>t. top \in 0 .. StackSize /\ DOMAIN stack = Slot
    BY DEF IInv, TypeOK, ParserTypeOK, StackTypeOK
  <1>1. CASE UNCHANGED <<top, stack>> /\ pc' = "failed"
    BY <1>1
  <1>2. CASE /\ ~StackFull /\ Push(c, q) /\ UNCHANGED top
             /\ stack' = [stack EXCEPT ![top] =
                            Frame(c, @.count, @.ct, @.map_key)]
    BY <1>2, <1>t DEF Push, Slot, StackFull
  <1>3. CASE /\ ~StackFull /\ HeaderAgain(q, top + 1)
             /\ stack' = [stack EXCEPT ![top] = Frame(c, n, ct, @.map_key)]
    <2>1. pc' \in {"out", "header"} /\ top' = top + 1
      BY <1>3 DEF HeaderAgain
    <2>2. top \in Slot
      BY <1>3, <1>t DEF Slot, StackFull
    <2>3. stack'[top].obj = c
      BY <1>3, <1>t, <2>2 DEF Frame
    <2>4. \A i \in Slot : i < top => stack'[i] = stack[i]
      BY <1>3, <1>t, <2>2 DEF Slot
    <2>5. \A i \in Slot : i < top' => Real(stack'[i].obj)
      BY <1>t, <2>1, <2>3, <2>4 DEF Slot
    <2> QED BY <2>1, <2>5
  <1> QED BY <1>1, <1>2, <1>3 DEF StartContainer, Stop

LEMMA ParseReal ==
  ASSUME IInv, ValueInv, ParseStep
  PROVE  ValueInv'
  <1> USE DEF ValueInv, Push, Stop, HeaderAgain, TrailReady
  <1>t. /\ top \in 0 .. StackSize /\ DOMAIN stack = Slot
        /\ pc \in {"header", "trail", "push"}
    BY RunStaysInside DEF IInv, TypeOK, ParserTypeOK, StackTypeOK
  <1>1. CASE HeaderScalar
    <2>1. Real(HeaderValue(Current))
      <3>1. pc = "header" /\ Current \in 0 .. 255
        BY <1>1, CurrentFact DEF HeaderScalar, IInv, TypeOK, ReadsInBounds
      <3>2. \/ Current < 128 \/ Current > 223
            \/ Current \in {192, 194, 195}
        BY <1>1, <3>1 DEF HeaderScalar, FixInt, Direct
      <3> QED BY <3>1, <3>2, RealValues DEF HeaderValue
    <2> QED BY <1>1, <2>1 DEF HeaderScalar
  <1>2. CASE HeaderEmptyStr
    BY <1>2, RealValues DEF HeaderEmptyStr
  <1>3. CASE Number
    <2>1. Real(NumberValue(Operand))
      BY <1>3, RealValues DEF Number, NumberValue
    <2> QED BY <1>3, <2>1 DEF Number
  <1>4. CASE EmptyBody \/ Body
    BY <1>4, RealValues DEF EmptyBody, Body, BodyValue
  <1>5. CASE HeaderWithTrail \/ HeaderUnassigned \/ TrailShort \/ TrailStale
             \/ Length
    BY <1>5
    DEF HeaderWithTrail, HeaderUnassigned, TrailShort, TrailStale, Length
  <1>6. CASE ExtCroak
    <2>1. top' = 0 /\ pc' = "croaked"
      BY <1>6 DEF ExtCroak, IInv, FramesOpen, Parsing
    <2> QED BY <2>1 DEF Slot
  <1>7. CASE HeaderContainer \/ Container
    BY <1>7, <1>t, StartContainerReal, RealValues
    DEF HeaderContainer, Container, Parsing
  <1>8. CASE PushRoot
    BY <1>8, <1>t, StackSizeAssumption
    DEF PushRoot, TemplateData, Frame, Slot
  <1>9. CASE PushArrayItem \/ PushMapValue
    <2>1. PICK c, ct : ItemStored(c, ct) /\ Real(c)
      BY <1>9, <1>t, StoredReal DEF PushArrayItem, PushMapValue, Parent, Slot
    <2>2. top > 0 /\ pc = "push"
      BY <1>9 DEF PushArrayItem, PushMapValue
    <2>3. \A i \in Slot : i < top => Real(stack'[i].obj)
      BY <2>1, <2>2, <1>t DEF ItemStored, Frame, Slot
    <2>4. \/ top' = top /\ pc' \in {"out", "header"}
          \/ top' = top - 1 /\ pc' = "push" /\ obj' = c
      BY <2>1, <2>2 DEF ItemStored
    <2> QED BY <2>1, <2>3, <2>4, <1>t DEF Slot
  <1>10. CASE PushMapKey
    <2>1. top > 0 /\ top' = top /\ pc' \in {"out", "header"}
      BY <1>10 DEF PushMapKey
    <2>2. \A i \in Slot : i < top => Real(stack'[i].obj)
      BY <1>10, <2>1, <1>t DEF PushMapKey, Frame, Slot
    <2> QED BY <2>1, <2>2
  <1> QED BY <1>1, <1>2, <1>3, <1>4, <1>5, <1>6, <1>7, <1>8, <1>9, <1>10
          DEF ParseStep

(* Right after an execute, is_finished tells whether data has a value.         *)
THEOREM FinishedValue == Spec => []FinishedHasData
  <1>1. SInit => ValueInv
    BY DEF SInit, TInit, ValueInv, InitCtx, Slot
  <1>2. IInv /\ FreshInv /\ ValueInv /\ [Next]_vars => ValueInv'
    <2> SUFFICES ASSUME IInv, FreshInv, ValueInv, [Next]_vars PROVE ValueInv'
      OBVIOUS
    <2> USE DEF ValueInv
    <2>t. top \in 0 .. StackSize /\ 0 \in Slot
      BY StackSizeAssumption DEF IInv, TypeOK, ParserTypeOK, Slot
    <2>1. CASE Run
      BY <2>1, ParseReal DEF Run
    <2>2. CASE Execute
      BY <2>2 DEF Execute, ExecuteCall, Enter, TemplateData
    <2>3. CASE ReturnFinished
      BY <2>3 DEF ReturnFinished, LeaveTemplate, TemplateData
    <2>4. CASE ReturnUnfinished
      BY <2>4, <2>t DEF ReturnUnfinished, LeaveTemplate, TemplateInit, InitCtx, Slot
    <2>5. CASE ReturnCroak
      BY <2>5 DEF ReturnCroak, LeaveTemplate
    <2>6. CASE Reset
      BY <2>6, <2>t DEF Reset, Idle, TemplateInit, InitCtx, Slot
    <2>7. CASE Utf8
      BY <2>7 DEF Utf8, avars, TemplateData
    <2>8. CASE DESTROY
      BY <2>8 DEF DESTROY, TemplateData
    <2>9. CASE New
      BY <2>9 DEF New, FreshInv, InitCtx, Slot
    <2>10. CASE UNCHANGED vars
      BY <2>10 DEF vars, tvars, avars, TemplateData
    <2> QED BY <2>1, <2>2, <2>3, <2>4, <2>5, <2>6, <2>7, <2>8, <2>9, <2>10
            DEF Next, Return
  <1>3. FreshInv /\ ValueInv => FinishedHasData
    BY RealValues DEF FreshInv, ValueInv, FinishedHasData, is_finished, Data
  <1>4. SInit => FreshInv
    BY DEF SInit, TInit, FreshInv, TemplateData, Frame, Slot
  <1> QED BY <1>1, <1>2, <1>3, <1>4, FreshStep, Invariance, PTL DEF Spec

-------------------------------------------------------------------------------
(* An execute is on its way to the meaning of the bytes it was given, or has    *)
(* stopped at it.                                                              *)
Deciding ==
  pc # "idle" =>
    /\ alive /\ last \in {"fresh", "unfinished"}
    /\ \E V, w : w = V[<<0, 0, 1>>] /\ Agrees(V, w)

LEMMA DecidingStep ==
  ASSUME Careful, \A a \in Arguments : a.offset = 0, IInv, FreshInv, Deciding, [Next]_vars
  PROVE  Deciding'
  <1>1. CASE Run
    <2>1. pc # "idle" /\ ParseStep /\ UNCHANGED <<alive, last>>
      BY <1>1, RunStaysInside DEF Run, avars
    <2>2. PICK V, w : w = V[<<0, 0, 1>>] /\ Agrees(V, w)
      BY <2>1 DEF Deciding
    <2>3. Agrees(V, w)'
      BY <2>1, <2>2, ParseStepAgrees
    <2> QED BY <2>1, <2>2, <2>3 DEF Deciding
  <1>2. CASE Execute
    <2>1. PICK a \in Arguments : ExecuteCall(a)
      BY <1>2 DEF Execute
    <2>2. /\ pc = "idle" /\ alive /\ alive' = alive /\ last' = last
          /\ last # "croaked" /\ last # "finished" /\ a.limit <= Len(a.bytes)
      BY <2>1 DEF ExecuteCall, Idle
    <2>3. last \in {"fresh", "unfinished"}
      BY <2>2 DEF IInv, TypeOK, CallTypeOK
    <2>4. cs = 0 /\ top = 0 /\ DOMAIN stack = Slot /\ buffer \in Seq(Byte)
      BY <2>2, <2>3 DEF FreshInv, IInv, FramesOpen, TypeOK, StackTypeOK, CallTypeOK
    <2> DEFINE dptr == SubSeq(a.bytes, 1, a.limit)
    <2>5. dptr \in Seq(Byte) /\ a.offset = 0
      <3>1. a.bytes \in Seq(Byte) /\ a.limit \in Nat
        BY ArgumentsAssumption
      <3> QED BY <2>2, <3>1
    <2> HIDE DEF dptr
    <2>6. PICK bytes \in Seq(Byte) : Enter(bytes, 0)
      <3>1. Enter(buffer \o dptr, 0) \/ Enter(dptr, a.offset)
        BY <2>1 DEF ExecuteCall, dptr
      <3>2. buffer \o dptr \in Seq(Byte)
        BY <2>4, <2>5
      <3> QED BY <2>5, <3>1, <3>2
    <2>7. PICK V : V = Unpack(bytes, utf8)
      OBVIOUS
    <2>8. PICK w : w = V[<<0, 0, 1>>]
      OBVIOUS
    <2>9. 0 <= Len(bytes)
      OBVIOUS
    <2>10. Agrees(V, w)'
      BY <2>4, <2>6, <2>7, <2>8, <2>9, EnterAgrees
    <2> QED BY <2>2, <2>3, <2>8, <2>10 DEF Deciding
  <1>3. CASE Return
    BY <1>3 DEF Return, ReturnFinished, ReturnUnfinished, ReturnCroak, LeaveTemplate, Deciding
  <1>4. CASE Utf8 \/ Reset \/ DESTROY \/ New
    <2>1. pc = "idle" /\ pc' = "idle"
      BY <1>4 DEF Utf8, Reset, DESTROY, New, Idle, FreshInv
    <2> QED BY <2>1 DEF Deciding
  <1>5. CASE UNCHANGED vars
    <2>1. UNCHANGED <<data, p, top, pc, stack, utf8, cs, trail, obj, alive, last>>
      BY <1>5 DEF vars, tvars, avars
    <2> QED BY <2>1, SameAgrees DEF Deciding
  <1> QED BY <1>1, <1>2, <1>3, <1>4, <1>5 DEF Next

(* How the parser stopped says what the bytes mean.                            *)
LEMMA MeaningOf ==
  ASSUME Deciding, pc # "idle"
  PROVE  LET r == Decode(data, utf8) IN
         /\ pc = "finish" => /\ r.status = "ok" /\ r.depth <= StackSize
                             /\ r.val = TemplateData /\ r.p = p
         /\ pc = "out" => r.status # "ok" /\ r.depth <= StackSize
         /\ pc \in {"failed", "croaked"} => r.status = "unexpected" \/ ~(r.depth <= StackSize)
  <1>1. PICK V, w : w = V[<<0, 0, 1>>] /\ Agrees(V, w)
    BY DEF Deciding
  <1>2. w = Unpack(data, utf8)[<<0, 0, 1>>] /\ Stops(w)
    BY <1>1 DEF Agrees
  <1> DEFINE r == Decode(data, utf8)
  <1>3. /\ r.status = w.status /\ r.p = w.p /\ r.depth = w.depth
        /\ r.status = "ok" => r.val = w.vals[1]
    BY <1>2 DEF Decode
  <1> HIDE DEF r
  <1> SUFFICES /\ pc = "finish" => /\ r.status = "ok" /\ r.depth <= StackSize
                                   /\ r.val = TemplateData /\ r.p = p
               /\ pc = "out" => r.status # "ok" /\ r.depth <= StackSize
               /\ pc \in {"failed", "croaked"} => r.status = "unexpected" \/ ~(r.depth <= StackSize)
    BY DEF r
  <1>4. ASSUME pc = "finish"
        PROVE  r.status = "ok" /\ r.depth <= StackSize /\ r.val = TemplateData /\ r.p = p
    <2> DEFINE d == Returned(<<TemplateData>>, p, 0)
    <2>1. Same(w, d)
      BY <1>2, <1>4 DEF Stops
    <2>2. d.status = "ok" /\ d.vals[1] = TemplateData /\ d.p = p /\ Fits(d)
      BY DEF Returned, Fits
    <2> HIDE DEF d
    <2> QED BY <1>3, <2>1, <2>2 DEF Same, Fits
  <1>5. pc = "out" => w.status # "ok" /\ Fits(w)
    BY <1>2 DEF Stops
  <1>6. pc \in {"failed", "croaked"} => w.status = "unexpected" \/ ~Fits(w)
    BY <1>2 DEF Stops
  <1> QED BY <1>3, <1>4, <1>5, <1>6 DEF Fits

(* Every step is a step of the abstract stream, or none.                       *)
LEMMA StreamStep ==
  ASSUME Careful, \A a \in Arguments : a.offset = 0, IInv, FreshInv, Deciding, [Next]_vars
  PROVE  [Stream!Next]_Stream!svars
  <1>1. CASE Run
    <2>1. /\ pc # "idle" /\ pc' # "idle" /\ alive
          /\ last \in {"fresh", "unfinished"}
      BY <1>1, RunStaysInside DEF Run, Deciding
    <2>2. UNCHANGED <<data, utf8, alive, last>>
      BY <1>1, DataUnchanged DEF Run, avars
    <2> QED BY <2>1, <2>2 DEF Stream!svars
  <1>2. CASE Execute
    <2>1. PICK a \in Arguments : ExecuteCall(a)
      BY <1>2 DEF Execute
    <2>2. /\ pc = "idle" /\ alive /\ alive' = alive /\ last' = last /\ utf8' = utf8
          /\ last # "croaked" /\ last # "finished" /\ a.offset = 0
      BY <2>1 DEF ExecuteCall, Idle, Enter
    <2> DEFINE chunk == SubSeq(a.bytes, 1, a.limit)
    <2>3. chunk \in Seq(Byte)
      <3>1. a.bytes \in Seq(Byte) /\ a.limit \in Nat /\ a.limit <= Len(a.bytes)
        BY <2>1, ArgumentsAssumption DEF ExecuteCall
      <3> QED BY <3>1
    <2>4. chunk \in {SubSeq(x.bytes, 1, x.limit) : x \in Arguments}
      OBVIOUS
    <2> HIDE DEF chunk
    <2>5. data' = buffer \o chunk /\ pc' \in {"header", "trail", "out"}
      <3>1. << >> \o chunk = chunk
        BY <2>3
      <3>2. CASE buffer = << >> /\ Enter(chunk, 0)
        BY <3>1, <3>2 DEF Enter
      <3>3. CASE Enter(buffer \o chunk, 0)
        BY <3>3 DEF Enter
      <3> QED BY <2>1, <2>2, <3>2, <3>3 DEF ExecuteCall, chunk
    <2>6. Stream!Feed
      BY <2>2, <2>4, <2>5 DEF Stream!Feed
    <2> QED BY <2>6 DEF Stream!Next
  <1>3. CASE Return
    <2>1. alive /\ last \in {"fresh", "unfinished"} /\ pc # "idle"
      BY <1>3 DEF Return, ReturnFinished, ReturnUnfinished, ReturnCroak, Deciding
    <2> DEFINE r == Decode(data, utf8)
    <2>2. /\ pc = "finish" => /\ r.status = "ok" /\ r.depth <= StackSize
                              /\ r.val = TemplateData /\ r.p = p
          /\ pc = "out" => r.status # "ok" /\ r.depth <= StackSize
          /\ pc \in {"failed", "croaked"} => r.status = "unexpected" \/ ~(r.depth <= StackSize)
      BY <2>1, MeaningOf
    <2> HIDE DEF r
    <2>3. Stream!Meaning = r /\ (Stream!Fits <=> r.depth <= StackSize)
      BY <2>1 DEF Stream!Meaning, Stream!Fits, r
    <2>4. CASE ReturnFinished
      <3>1. /\ pc = "finish" /\ pc' = "idle" /\ last' = "finished" /\ ret' = p
            /\ UNCHANGED <<alive, utf8>> /\ TemplateData' = TemplateData
        BY <2>4 DEF ReturnFinished, LeaveTemplate, TemplateData
      <3>2. Stream!Complete
        BY <2>1, <2>2, <2>3, <3>1 DEF Stream!Complete
      <3> QED BY <3>2 DEF Stream!Next
    <2>5. CASE ReturnUnfinished
      <3>1. /\ pc = "out" /\ pc' = "idle" /\ last' = "unfinished" /\ buffer' = data
            /\ UNCHANGED <<alive, utf8>>
        BY <2>5 DEF ReturnUnfinished, LeaveTemplate, Kept
      <3>2. Stream!WantMore
        BY <2>1, <2>2, <2>3, <3>1 DEF Stream!WantMore
      <3> QED BY <3>2 DEF Stream!Next
    <2>6. CASE ReturnCroak
      <3>1. /\ pc \in {"failed", "croaked"} /\ pc' = "idle" /\ last' = "croaked"
            /\ UNCHANGED <<alive, utf8>>
        BY <2>6 DEF ReturnCroak, LeaveTemplate
      <3>2. Stream!Refuse
        BY <2>1, <2>2, <2>3, <3>1 DEF Stream!Refuse
      <3> QED BY <3>2 DEF Stream!Next
    <2> QED BY <1>3, <2>4, <2>5, <2>6 DEF Return
  <1>4. CASE Utf8
    <2>1. /\ pc = "idle" /\ alive /\ utf8' \in BOOLEAN /\ UNCHANGED <<pc, alive, last, buffer, ret>>
          /\ TemplateData' = TemplateData
      BY <1>4, Utf8ArgsAssumption DEF Utf8, Idle, avars, TemplateData
    <2>2. Stream!SetText
      BY <2>1 DEF Stream!SetText
    <2> QED BY <2>2 DEF Stream!Next
  <1>5. CASE Reset \/ DESTROY \/ New
    <2>1. pc = "idle" /\ pc' = "idle" /\ utf8' \in {utf8, FALSE}
      BY <1>5 DEF Reset, DESTROY, New, Idle, FreshInv
    <2>2. ~alive' \/ (last' = "fresh" /\ buffer' = << >>)
      <3>1. Reset \/ New => last' = "fresh" /\ buffer' = << >>
        BY DEF Reset, New
      <3>2. DESTROY => ~alive'
        BY DEF DESTROY
      <3> QED BY <1>5, <3>1, <3>2
    <2>3. Stream!Restart
      BY <2>1, <2>2 DEF Stream!Restart, Stream!NULL, NULL
    <2> QED BY <2>3 DEF Stream!Next
  <1>6. CASE UNCHANGED vars
    BY <1>6 DEF vars, tvars, avars, Stream!svars, TemplateData
  <1> QED BY <1>1, <1>2, <1>3, <1>4, <1>5, <1>6 DEF Next

(* However a message is cut into calls, a careful program gets from execute    *)
(* what the abstract stream promises, whatever the bytes are.                  *)
THEOREM Refinement ==
  ASSUME Careful, \A a \in Arguments : a.offset = 0
  PROVE  Spec => ImplementsStream
  <1>1. SInit => FreshInv /\ Deciding /\ Stream!Init
    <2> SUFFICES ASSUME SInit PROVE FreshInv /\ Deciding /\ Stream!Init
      OBVIOUS
    <2>1. /\ pc = "idle" /\ alive /\ last = "fresh" /\ buffer = << >> /\ utf8 = FALSE
      BY DEF SInit, TInit
    <2>2. FreshInv
      BY DEF SInit, TInit, FreshInv, TemplateData, Frame, Slot
    <2> QED BY <2>1, <2>2 DEF Deciding, Stream!Init, Stream!NULL, NULL
  <1>2. IInv /\ FreshInv /\ Deciding /\ [Next]_vars => Deciding' /\ [Stream!Next]_Stream!svars
    BY DecidingStep, StreamStep
  <1> QED BY <1>1, <1>2, FreshStep, Invariance, PTL DEF Spec, ImplementsStream, Stream!Spec

-------------------------------------------------------------------------------
(* Accounting for SVs.  What a step may do to the SVs that nothing points to:  *)
(* add to them, and in a careful program only by a step that abandons.         *)
Accounted ==
  /\ SvInv'
  /\ Leaked' \in Int /\ Leaked' >= Leaked
  /\ Careful /\ RootEmpty => RootEmpty' /\ (Leaked' = Leaked \/ Abandons)

LEMMA LeakedParts ==
  ASSUME SvInv
  PROVE  /\ Held \in Nat /\ live \in Int /\ Leaked \in Int
         /\ alive => Leaked = live - Held
         /\ ~alive /\ pc # "push" => Leaked = live
         /\ stack[0].obj.svs \in Nat
         /\ pc # "push" => obj = NULL /\ Held >= stack[0].obj.svs
         /\ pc # "push" /\ top = 0 => Held = stack[0].obj.svs
  <1>1. /\ top \in Nat /\ SvsIn(stack, top) \in Nat /\ Root \in Nat /\ Held \in Nat /\ obj.svs \in Nat
        /\ top > 0 => SvsIn(stack, top) >= stack[0].obj.svs
    BY SvInvSums
  <1>2. live \in Int /\ stack[0].obj.svs \in Nat /\ (pc # "push" => obj = NULL)
    BY Slots DEF SvInv
  <1>3. pc # "push" => obj.svs = 0
    BY <1>2, NullSvs
  <1>4. Held = obj.svs + SvsIn(stack, top) + Root
    BY HeldParts
  <1>5. top = 0 => SvsIn(stack, top) = 0
    BY NoSvs
  <1>6. pc # "push" /\ top = 0 => Root = stack[0].obj.svs
    BY DEF Root
  <1>7. pc # "push" /\ top = 0 => Held = stack[0].obj.svs
    BY <1>2, <1>3, <1>4, <1>5, <1>6
  <1>8. pc # "push" => Held >= stack[0].obj.svs
    BY <1>1, <1>2, <1>3, <1>4, <1>7
  <1>9. /\ alive => Leaked = live - Held
        /\ ~alive => Leaked = live - obj.svs
    BY DEF Leaked
  <1> QED BY <1>1, <1>2, <1>3, <1>7, <1>8, <1>9

(* Steps that leave every value where it is.                                   *)
LEMMA QuietAccounted ==
  ASSUME SvInv, pc # "push", pc' # "push", UNCHANGED <<top, obj, stack, live, alive>>,
         Careful /\ RootEmpty => RootEmpty'
  PROVE  Accounted
  <1>1. SvInv'
    BY QuietKept DEF SvsKept
  <1>2. SvsIn(stack', top') = SvsIn(stack, top) /\ Root' = Root
    BY DEF Root
  <1>3. Held' = Held
    BY <1>2, HeldParts
  <1>4. Leaked' = Leaked
    BY <1>3 DEF Leaked
  <1>5. Leaked \in Int
    BY LeakedParts
  <1> QED BY <1>1, <1>4, <1>5 DEF Accounted

(* Steps that leave a fresh context.                                           *)
LEMMA FreshSvInv ==
  ASSUME SvInv, pc' # "push", top' = 0, UNCHANGED obj, pc # "push", live' \in Int,
         DOMAIN stack' = Slot, stack'[0].obj = NULL,
         \A i \in Slot : stack'[i].obj = NULL \/ stack'[i] = stack[i]
  PROVE  /\ SvInv' /\ RootEmpty' /\ Held' = 0
         /\ Leaked' = live'
  <1>1. \A i \in Slot : ~(i < top')
    BY Slots
  <1>2. \A i \in Slot : stack'[i].obj.svs \in Nat
    BY NullSvs DEF SvInv
  <1>3. obj' = NULL /\ top' \in 0 .. StackSize
    BY Slots DEF SvInv
  <1>4. SvInv'
    BY <1>1, <1>2, <1>3 DEF SvInv
  <1>5. Root' = 0 /\ RootEmpty'
    BY NullSvs DEF Root, RootEmpty
  <1>6. SvsIn(stack', top') = 0
    BY NoSvs
  <1>7. Held' = 0 + 0 + 0
    BY <1>3, <1>5, <1>6, NullSvs, HeldParts
  <1>8. Leaked' = live' - (IF alive' THEN Held' ELSE obj'.svs)
    BY DEF Leaked
  <1>9. Held' = 0 /\ obj'.svs = 0
    BY <1>3, <1>7, NullSvs
  <1>a. (IF alive' THEN Held' ELSE obj'.svs) = 0
    BY <1>9
  <1>10. Leaked' = live'
    BY <1>8, <1>a
  <1> QED BY <1>4, <1>5, <1>9, <1>10

LEMMA InitFrame ==
  ASSUME DOMAIN stack = Slot, TemplateInit
  PROVE  /\ DOMAIN stack' = Slot /\ stack'[0].obj = NULL
         /\ \A i \in Slot : stack'[i].obj = NULL \/ stack'[i] = stack[i]
         /\ top' = 0
  <1> DEFINE f == Frame(NULL, stack[0].count, stack[0].ct, stack[0].map_key)
  <1>1. stack' = [stack EXCEPT ![0] = f] /\ top' = 0
    BY DEF TemplateInit, InitCtx
  <1>2. f.obj = NULL
    BY FrameFields
  <1> HIDE DEF f
  <1> QED BY <1>1, <1>2, Slots

LEMMA RunAccounted ==
  ASSUME IInv, FreshInv, SvInv, Run
  PROVE  Accounted
  <1>1. ParseStep /\ alive' = alive
    BY DEF Run, avars
  <1>2. pc \in {"header", "trail", "push"} /\ alive
    BY <1>1, RunStaysInside DEF FreshInv
  <1>3. Leaked = live - Held /\ Leaked' = live' - Held'
    BY <1>1, <1>2 DEF Leaked
  <1>4. Leaked \in Int /\ Root \in Nat
    BY LeakedParts, SvInvSums
  <1>5. RootEmpty => RootEmpty'
    BY <1>1, RootStaysEmpty
  <1>6. CASE ExtCroak
    <2>1. ctx.top = 0
      BY <1>2 DEF IInv, FramesOpen, Parsing
    <2>2. SvInv' /\ live' - Held' \in Int /\ live' - Held' >= live - Held
      BY <1>6, <2>1, ExtCroakKept
    <2> QED BY <1>3, <1>5, <1>6, <2>2 DEF Accounted, Abandons
  <1>7. CASE ~ExtCroak
    <2>1. SvInv' /\ live' - Held' \in {live - Held, live - Held + Root}
      BY <1>1, <1>7, ParseStepKept DEF SvsKept
    <2>2. Leaked' \in Int /\ Leaked' >= Leaked
      BY <1>3, <1>4, <2>1
    <2>3. Root = 0 => Leaked' = Leaked
      BY <1>3, <1>4, <2>1
    <2>4. RootEmpty => Root = 0
      BY <1>2 DEF RootEmpty, Root
    <2> QED BY <1>5, <2>1, <2>2, <2>3, <2>4 DEF Accounted
  <1> QED BY <1>6, <1>7

LEMMA CallAccounted ==
  ASSUME IInv, FreshInv, SvInv, Execute \/ Return \/ Utf8 \/ Reset \/ DESTROY \/ New
  PROVE  Accounted
  <1>t. DOMAIN stack = Slot
    BY DEF SvInv
  <1>l. /\ Held \in Nat /\ live \in Int /\ Leaked \in Int
        /\ alive => Leaked = live - Held
        /\ ~alive /\ pc # "push" => Leaked = live
        /\ stack[0].obj.svs \in Nat
        /\ pc # "push" => obj = NULL /\ Held >= stack[0].obj.svs
        /\ pc # "push" /\ top = 0 => Held = stack[0].obj.svs
    BY LeakedParts
  <1>i. pc = "idle" /\ last # "croaked" => top = 0
    BY DEF IInv, FramesOpen
  <1>a. alive \/ pc = "idle"
    BY DEF FreshInv
  <1>1. CASE Execute
    <2>1. /\ pc = "idle" /\ pc' \in {"out", "header", "trail"}
          /\ UNCHANGED <<top, obj, stack, live, alive>> /\ last # "croaked"
          /\ Careful => last # "finished"
      BY <1>1 DEF Execute, ExecuteCall, Enter, Idle
    <2>2. last \in {"fresh", "unfinished", "finished", "croaked"}
      BY DEF IInv, TypeOK, CallTypeOK
    <2>3. Careful => stack'[0].obj.svs = 0
      BY <2>1, <2>2, NullSvs DEF FreshInv, TemplateData
    <2>4. Careful => RootEmpty'
      BY <2>3 DEF RootEmpty
    <2> QED BY <2>1, <2>4, QuietAccounted
  <1>2. CASE ReturnFinished \/ ReturnCroak \/ Utf8
    <2>1. /\ pc # "push" /\ pc' = "idle" /\ UNCHANGED <<top, obj, stack, live, alive>>
      BY <1>2 DEF ReturnFinished, ReturnCroak, Utf8, Idle, avars, LeaveTemplate
    <2>2. RootEmpty'
      BY <2>1 DEF RootEmpty
    <2> QED BY <2>1, <2>2, QuietAccounted
  <1>3. CASE ReturnUnfinished
    <2>1. pc = "out" /\ pc' = "idle" /\ TemplateInit /\ UNCHANGED <<obj, live, alive>>
      BY <1>3 DEF ReturnUnfinished, LeaveTemplate
    <2>2. SvInv' /\ RootEmpty' /\ Leaked' = live
      BY <1>t, <1>l, <2>1, InitFrame, FreshSvInv
    <2>3. Leaked = live - Held
      BY <1>a, <1>l, <2>1
    <2> QED BY <1>3, <1>l, <2>2, <2>3 DEF Accounted, Abandons
  <1>4. CASE Reset
    <2>1. /\ pc = "idle" /\ pc' = "idle" /\ TemplateInit /\ UNCHANGED <<obj, alive>> /\ alive
          /\ live' = live - stack[0].obj.svs
      BY <1>4 DEF Reset, Idle, TemplateData
    <2>2. live' \in Int
      BY <1>l, <2>1
    <2>3. SvInv' /\ RootEmpty' /\ Leaked' = live - stack[0].obj.svs
      BY <1>t, <2>1, <2>2, InitFrame, FreshSvInv
    <2>4. Leaked = live - Held /\ Held >= stack[0].obj.svs
      BY <1>l, <2>1
    <2>5. last # "croaked" => Leaked' = Leaked
      BY <1>i, <1>l, <2>1, <2>3, <2>4
    <2> QED BY <1>4, <1>l, <2>3, <2>4, <2>5 DEF Accounted, Abandons
  <1>5. CASE DESTROY
    <2>1. /\ pc = "idle" /\ pc' = "idle" /\ UNCHANGED <<top, obj, stack>> /\ alive /\ ~alive'
          /\ live' = live - stack[0].obj.svs
      BY <1>5 DEF DESTROY, Idle, TemplateData
    <2>2. live' \in Int
      BY <1>l, <2>1
    <2>3. obj' = NULL
      BY <1>l, <2>1
    <2>4. SvInv' /\ RootEmpty'
      BY <2>1, <2>2 DEF SvInv, RootEmpty
    <2>5. Leaked' = live' - 0
      BY <2>1, <2>3, NullSvs DEF Leaked
    <2>6. Leaked = live - Held /\ Held >= stack[0].obj.svs
      BY <1>l, <2>1
    <2>7. last # "croaked" => Leaked' = Leaked
      BY <1>i, <1>l, <2>1, <2>5, <2>6
    <2> QED BY <1>5, <1>l, <2>1, <2>4, <2>5, <2>6, <2>7 DEF Accounted, Abandons
  <1>6. CASE New
    <2>1. /\ pc = "idle" /\ pc' = "idle" /\ UNCHANGED <<obj, live>> /\ ~alive /\ top' = 0
          /\ stack' = [i \in Slot |-> Frame(NULL, 0, CT_ARRAY_ITEM, NULL)]
      BY <1>6, <1>a DEF New, InitCtx
    <2>2. Frame(NULL, 0, CT_ARRAY_ITEM, NULL).obj = NULL
      BY FrameFields
    <2>3. DOMAIN stack' = Slot /\ \A i \in Slot : stack'[i].obj = NULL
      BY <2>1, <2>2
    <2>4. SvInv' /\ RootEmpty' /\ Leaked' = live
      BY <1>l, <2>1, <2>3, Slots, FreshSvInv
    <2>5. Leaked = live
      BY <1>l, <2>1
    <2> QED BY <1>l, <2>4, <2>5 DEF Accounted
  <1> QED BY <1>1, <1>2, <1>3, <1>4, <1>5, <1>6 DEF Return

LEMMA SvStep ==
  ASSUME IInv, FreshInv, SvInv, [Next]_vars
  PROVE  Accounted
  <1>1. CASE Run
    BY <1>1, RunAccounted
  <1>2. CASE Execute \/ Return \/ Utf8 \/ Reset \/ DESTROY \/ New
    BY <1>2, CallAccounted
  <1>3. CASE UNCHANGED vars
    <2>1. UNCHANGED <<live, alive, obj, top, pc, stack>>
      BY <1>3 DEF vars, tvars, avars
    <2>2. SvInv'
      BY <2>1 DEF SvInv
    <2>3. Held' = Held
      BY <2>1 DEF Held
    <2>4. Leaked' = Leaked /\ (RootEmpty => RootEmpty')
      BY <2>1, <2>3 DEF Leaked, RootEmpty
    <2>5. Leaked \in Int
      BY LeakedParts
    <2> QED BY <2>2, <2>4, <2>5 DEF Accounted
  <1> QED BY <1>1, <1>2, <1>3 DEF Next

LEMMA SvInit ==
  ASSUME SInit
  PROVE  SvInv /\ RootEmpty /\ FreshInv /\ Leaked = 0
  <1>1. /\ obj = NULL /\ pc = "idle" /\ top = 0 /\ live = 0 /\ alive /\ cs = 0 /\ ctx = InitCtx
        /\ stack = [i \in Slot |-> Frame(NULL, 0, CT_ARRAY_ITEM, NULL)]
    BY DEF SInit, TInit, InitCtx, CS_HEADER
  <1>2. Frame(NULL, 0, CT_ARRAY_ITEM, NULL).obj = NULL
    BY FrameFields
  <1>3. DOMAIN stack = Slot /\ \A i \in Slot : stack[i].obj = NULL
    BY <1>1, <1>2
  <1>4. SvInv
    <2>1. \A i \in Slot : ~(i < top) /\ stack[i].obj.svs \in Nat
      BY <1>1, <1>3, Slots, NullSvs
    <2> QED BY <1>1, <1>3, <2>1, Slots DEF SvInv
  <1>5. stack[0].obj = NULL
    BY <1>3, Slots
  <1>6. RootEmpty /\ FreshInv
    BY <1>1, <1>5 DEF RootEmpty, FreshInv, TemplateData
  <1>7. Leaked = live - Held /\ Held = stack[0].obj.svs
    BY <1>1, <1>4, LeakedParts
  <1> QED BY <1>1, <1>4, <1>5, <1>6, <1>7, NullSvs

(* No SV is released twice, whatever the messages and the calls: neither by a  *)
(* reset or DESTROY after a parse error nor by a duplicate key of a map.       *)
THEOREM NothingFreedTwice == Spec => []NoDoubleFree
  <1>1. SInit => SvInv /\ FreshInv /\ NoDoubleFree
    BY SvInit DEF NoDoubleFree
  <1>2. IInv /\ FreshInv /\ SvInv /\ NoDoubleFree /\ [Next]_vars => SvInv' /\ NoDoubleFree'
    BY SvStep, LeakedParts DEF Accounted, NoDoubleFree
  <1> QED BY <1>1, <1>2, FreshStep, Invariance, PTL DEF Spec

(* A program that resets after each message loses SVs only where template_init *)
(* forgets the half-built containers of an unfinished or refused message.      *)
THEOREM OnlyAbandonedLeaks ==
  ASSUME Careful
  PROVE  Spec => LeaksOnlyWhenAbandoning
  <1>1. SInit => SvInv /\ FreshInv /\ RootEmpty
    BY SvInit
  <1>2. IInv /\ FreshInv /\ SvInv /\ RootEmpty /\ [Next]_vars
          => SvInv' /\ RootEmpty' /\ (Leaked' = Leaked \/ Abandons)
    BY SvStep DEF Accounted
  <1>3. [Next]_vars /\ (Leaked' = Leaked \/ Abandons) => [Leaked' = Leaked \/ Abandons]_vars
    OBVIOUS
  <1> QED BY <1>1, <1>2, <1>3, FreshStep, Invariance, PTL DEF Spec, LeaksOnlyWhenAbandoning

-------------------------------------------------------------------------------
(* The program around the unpacker, StreamClient.  The bytes of the messages   *)
(* from one on, a recursive function, are what its equation says.              *)
BytesRight(B, messages, i) ==
  \A j \in Nat : j >= i =>
    B[j] = IF j > Len(messages) THEN << >> ELSE messages[j] \o B[j + 1]

LEMMA BytesAre ==
  ASSUME NEW messages \in Seq(Seq(Byte)), NEW i \in Nat \ {0}
  PROVE  /\ BytesFrom(messages, i) \in Seq(Byte)
         /\ i > Len(messages) => BytesFrom(messages, i) = << >>
         /\ i <= Len(messages) =>
              BytesFrom(messages, i) = messages[i] \o BytesFrom(messages, i + 1)
  <1> DEFINE l == Len(messages)
             T == {n \in Nat : n <= l + 1 =>
                     \E B : BytesRight(B, messages, l + 1 - n)}
  <1>0. l \in Nat
    OBVIOUS
  <1>1. 0 \in T
    <2> DEFINE B == [j \in Nat |-> << >>]
    <2>1. << >> \in Seq(Byte) /\ \A j \in Nat : B[j] = << >>
      OBVIOUS
    <2> HIDE DEF B
    <2>2. \A j \in Nat : j >= l + 1 - 0 => j > l
      BY <1>0
    <2>3. BytesRight(B, messages, l + 1 - 0)
      BY <2>1, <2>2 DEF BytesRight
    <2> QED BY <2>3
  <1>2. ASSUME NEW n \in Nat, n \in T
        PROVE  n + 1 \in T
    <2> SUFFICES ASSUME n + 1 <= l + 1
                 PROVE  \E B : BytesRight(B, messages, l + 1 - (n + 1))
      OBVIOUS
    <2>1. PICK B : BytesRight(B, messages, l + 1 - n)
      <3>1. n <= l + 1
        BY <1>0
      <3> HIDE DEF l
      <3> QED BY <1>2, <3>1
    <2> DEFINE q == l - n
               C == [j \in Nat |-> IF j = q THEN messages[q] \o B[q + 1] ELSE B[j]]
    <2>2. q \in Nat /\ q <= l /\ q = l + 1 - (n + 1) /\ q + 1 = l + 1 - n
      BY <1>0
    <2>3. \A j \in Nat : j >= q + 1 =>
            B[j] = IF j > l THEN << >> ELSE messages[j] \o B[j + 1]
      BY <2>1, <2>2 DEF BytesRight
    <2>4. \A j \in Nat : C[j] = IF j = q THEN messages[q] \o B[q + 1] ELSE B[j]
      OBVIOUS
    <2> HIDE DEF q, C
    <2>5. ASSUME NEW j \in Nat, j >= q
          PROVE  C[j] = IF j > l THEN << >> ELSE messages[j] \o C[j + 1]
      <3>1. j + 1 \in Nat /\ j + 1 # q /\ C[j + 1] = B[j + 1]
        BY <2>2, <2>4, <2>5
      <3>2. CASE j = q
        <4>1. ~(j > l)
          BY <1>0, <2>2, <3>2
        <4> QED BY <2>4, <3>1, <3>2, <4>1
      <3>3. CASE j # q
        <4>1. j >= q + 1 /\ C[j] = B[j]
          BY <2>2, <2>4, <2>5, <3>3
        <4> QED BY <2>3, <3>1, <4>1
      <3> QED BY <3>2, <3>3
    <2>6. BytesRight(C, messages, q)
      BY <2>5 DEF BytesRight
    <2> QED BY <2>2, <2>6
  <1>3. l + 1 \in T
    <2>1. l + 1 \in Nat
      BY <1>0
    <2> HIDE DEF T, l
    <2> QED BY <1>1, <1>2, <2>1, Induction
  <1>4. PICK B : BytesRight(B, messages, 0)
    <2>1. l + 1 <= l + 1 /\ l + 1 - (l + 1) = 0
      BY <1>0
    <2> HIDE DEF l
    <2> QED BY <1>3, <2>1
  <1> DEFINE P(C) == C = [j \in Nat |-> IF j > Len(messages) THEN << >>
                                        ELSE messages[j] \o C[j + 1]]
             D == [j \in Nat |-> B[j]]
             C == CHOOSE C : P(C)
  <1>5. P(D)
    <2>1. ASSUME NEW j \in Nat
          PROVE  D[j] = IF j > Len(messages) THEN << >> ELSE messages[j] \o D[j + 1]
      BY <1>4 DEF BytesRight
    <2> QED BY <2>1
  <1>6. P(C)
    <2> HIDE DEF P, D
    <2> QED BY <1>5
  <1>7. \A j \in Nat \ {0} : BytesFrom(messages, j) = C[j]
    BY DEF BytesFrom
  <1> HIDE DEF C
  <1>8. \A j \in Nat : C[j] = IF j > l THEN << >> ELSE messages[j] \o C[j + 1]
    BY <1>6
  <1> DEFINE U == {n \in Nat : n <= l => C[l + 1 - n] \in Seq(Byte)}
  <1>9. 0 \in U
    <2>1. l + 1 - 0 \in Nat /\ l + 1 - 0 > l
      BY <1>0
    <2>2. << >> \in Seq(Byte)
      OBVIOUS
    <2> HIDE DEF l
    <2>3. C[l + 1 - 0] = << >>
      BY <1>8, <2>1
    <2> QED BY <2>2, <2>3
  <1>10. ASSUME NEW n \in Nat, n \in U
         PROVE  n + 1 \in U
    <2> SUFFICES ASSUME n + 1 <= l
                 PROVE  C[l + 1 - (n + 1)] \in Seq(Byte)
      OBVIOUS
    <2> DEFINE q == l + 1 - (n + 1)
    <2>1. q \in 1 .. Len(messages) /\ q \in Nat /\ ~(q > l) /\ q + 1 = l + 1 - n /\ n <= l
      BY <1>0
    <2>2. messages[q] \in Seq(Byte)
      BY <2>1
    <2> HIDE DEF q, l
    <2>3. C[q + 1] \in Seq(Byte)
      BY <1>10, <2>1
    <2>4. C[q] = messages[q] \o C[q + 1]
      BY <1>8, <2>1
    <2>5. C[q] \in Seq(Byte)
      BY <2>2, <2>3, <2>4
    <2> QED BY <2>5 DEF q
  <1>11. Nat \subseteq U
    <2> HIDE DEF U
    <2> QED BY <1>9, <1>10, Induction
  <1>12. BytesFrom(messages, i) = C[i] /\ BytesFrom(messages, i + 1) = C[i + 1]
    BY <1>7
  <1>13. C[i] \in Seq(Byte)
    <2>1. CASE i > l
      <3>1. << >> \in Seq(Byte)
        OBVIOUS
      <3> QED BY <1>8, <2>1, <3>1
    <2>2. CASE i <= l
      <3> DEFINE n == l + 1 - i
      <3>1. n \in Nat /\ n <= l /\ l + 1 - n = i
        BY <1>0, <2>2
      <3> HIDE DEF n, l
      <3>2. n \in U
        BY <1>11, <3>1
      <3> QED BY <3>1, <3>2
    <2> QED BY <1>0, <2>1, <2>2
  <1>14. C[i] = IF i > Len(messages) THEN << >> ELSE messages[i] \o C[i + 1]
    BY <1>8
  <1>15. ~(i > Len(messages) /\ i <= Len(messages))
    BY <1>0
  <1> QED BY ONLY <1>12, <1>13, <1>14, <1>15, <1>0, i \in Nat

LEMMA Joint ==
  ASSUME NEW u \in Seq(Byte), NEW v \in Seq(Byte)
  PROVE  /\ u \o v \in Seq(Byte) /\ Len(u \o v) = Len(u) + Len(v)
         /\ Len(u) \in Nat /\ Len(v) \in Nat
         /\ \A i \in 1 .. Len(u) : (u \o v)[i] = u[i]
         /\ \A i \in 1 .. Len(v) : (u \o v)[Len(u) + i] = v[i]
  <1>1. u \o v \in Seq(Byte) /\ Len(u \o v) = Len(u) + Len(v) /\ Len(u) \in Nat /\ Len(v) \in Nat
    OBVIOUS
  <1>2. \A i \in 1 .. Len(u) : (u \o v)[i] = u[i]
    OBVIOUS
  <1>3. ASSUME NEW i \in 1 .. Len(v)
        PROVE  (u \o v)[Len(u) + i] = v[i]
    <2>1. Len(u) + i \in 1 .. Len(u) + Len(v) /\ ~(Len(u) + i <= Len(u)) /\ (Len(u) + i) - Len(u) = i
      OBVIOUS
    <2> QED BY <2>1
  <1> QED BY <1>1, <1>2, <1>3

(* What s has behind q.                                                        *)
Rest(s, q) == SubSeq(s, q + 1, Len(s))

LEMMA RestFacts ==
  ASSUME NEW s \in Seq(Byte), NEW q \in Nat, q <= Len(s)
  PROVE  /\ Rest(s, q) \in Seq(Byte) /\ Len(Rest(s, q)) = Len(s) - q
         /\ Len(s) \in Nat
         /\ \A i \in 1 .. Len(s) - q : Rest(s, q)[i] = s[q + i]
  <1> DEFINE u == SubSeq(s, q + 1, Len(s))
  <1>1. u \in Seq(Byte) /\ Len(u) = Len(s) - q /\ Len(s) \in Nat
    OBVIOUS
  <1>2. \A i \in 1 .. Len(u) : u[i] = s[(q + 1) + i - 1] /\ (q + 1) + i - 1 = q + i
    OBVIOUS
  <1>3. u = Rest(s, q)
    BY DEF Rest
  <1> HIDE DEF u
  <1> QED BY <1>1, <1>2, <1>3

LEMMA EqualSeqs ==
  ASSUME NEW u \in Seq(Byte), NEW v \in Seq(Byte), Len(u) = Len(v),
         \A i \in 1 .. Len(u) : u[i] = v[i]
  PROVE  u = v
  OBVIOUS

(* The tail behind q can be cut again.                                         *)
LEMMA Later ==
  ASSUME NEW u \in Seq(Byte), NEW v \in Seq(Byte), NEW q \in Nat, q <= Len(v)
  PROVE  Rest(u \o v, Len(u) + q) = Rest(v, q)
  <1>1. /\ u \o v \in Seq(Byte) /\ Len(u \o v) = Len(u) + Len(v)
        /\ Len(u) \in Nat /\ Len(v) \in Nat
        /\ \A i \in 1 .. Len(v) : (u \o v)[Len(u) + i] = v[i]
    BY Joint
  <1> DEFINE s == u \o v
  <1> HIDE DEF s
  <1>2. s \in Seq(Byte) /\ Len(s) = Len(u) + Len(v) /\ \A i \in 1 .. Len(v) : s[Len(u) + i] = v[i]
    BY <1>1 DEF s
  <1>3. Len(u) + q \in Nat /\ Len(u) + q <= Len(s)
    BY <1>1, <1>2
  <1> DEFINE n == Len(u) + q
  <1>4. n \in Nat /\ n <= Len(s) /\ Len(s) - n = Len(v) - q
    BY <1>1, <1>2, <1>3
  <1>5. \A i \in 1 .. Len(v) - q : s[n + i] = v[q + i]
    <2> SUFFICES ASSUME NEW i \in 1 .. Len(v) - q PROVE s[n + i] = v[q + i]
      OBVIOUS
    <2>1. q + i \in 1 .. Len(v) /\ n + i = Len(u) + (q + i)
      BY <1>1
    <2> HIDE DEF n
    <2> QED BY <1>2, <2>1
  <1> HIDE DEF n
  <1>6. /\ Rest(s, n) \in Seq(Byte) /\ Len(Rest(s, n)) = Len(v) - q
        /\ \A i \in 1 .. Len(v) - q : Rest(s, n)[i] = s[n + i]
    <2>1. /\ Rest(s, n) \in Seq(Byte) /\ Len(Rest(s, n)) = Len(s) - n
          /\ \A i \in 1 .. Len(s) - n : Rest(s, n)[i] = s[n + i]
      BY ONLY <1>2, <1>4, RestFacts
    <2> QED BY ONLY <1>4, <2>1
  <1>7. /\ Rest(v, q) \in Seq(Byte) /\ Len(Rest(v, q)) = Len(v) - q
        /\ \A i \in 1 .. Len(v) - q : Rest(v, q)[i] = v[q + i]
    BY RestFacts
  <1>8. \A i \in 1 .. Len(v) - q : Rest(s, n)[i] = Rest(v, q)[i]
    BY <1>5, <1>6, <1>7
  <1>9. Rest(s, n) = Rest(v, q)
    BY <1>6, <1>7, <1>8, EqualSeqs
  <1> QED BY <1>9 DEF s, n

(* s from q on and more are m and after.                                       *)
Goes(s, q, more, m, after) == Rest(s, q) \o more = m \o after

LEMMA Overlap ==
  ASSUME NEW m \in Seq(Byte), NEW s \in Seq(Byte), NEW q \in Nat, q <= Len(s),
         NEW more \in Seq(Byte), NEW after \in Seq(Byte), Goes(s, q, more, m, after)
  PROVE  /\ \A i \in 1 .. Len(m) : q + i <= Len(s) => s[q + i] = m[i]
         /\ q + Len(m) <= Len(s) => after = Rest(s, q + Len(m)) \o more
  <1> DEFINE rest == Rest(s, q)
             all == rest \o more
  <1>0. Len(m) \in Nat /\ Len(s) \in Nat /\ Len(more) \in Nat /\ Len(after) \in Nat
    OBVIOUS
  <1>1. /\ rest \in Seq(Byte) /\ Len(rest) = Len(s) - q
        /\ \A i \in 1 .. Len(s) - q : rest[i] = s[q + i]
    BY RestFacts
  <1>2. all = m \o after
    BY DEF Goes
  <1> HIDE DEF rest
  <1>3. /\ Len(all) = Len(rest) + Len(more)
        /\ \A i \in 1 .. Len(rest) : all[i] = rest[i]
        /\ \A i \in 1 .. Len(more) : all[Len(rest) + i] = more[i]
    BY <1>1, Joint
  <1>4. /\ Len(all) = Len(m) + Len(after)
        /\ \A i \in 1 .. Len(m) : all[i] = m[i]
        /\ \A i \in 1 .. Len(after) : all[Len(m) + i] = after[i]
    BY <1>2, Joint
  <1> HIDE DEF all
  <1>5. ASSUME NEW i \in 1 .. Len(m), q + i <= Len(s)
        PROVE  s[q + i] = m[i]
    <2>1. i \in 1 .. Len(s) - q /\ i \in 1 .. Len(rest)
      BY <1>0, <1>1, <1>5
    <2> QED BY <1>1, <1>3, <1>4, <2>1
  <1>6. ASSUME q + Len(m) <= Len(s)
        PROVE  after = Rest(s, q + Len(m)) \o more
    <2> DEFINE n == q + Len(m)
               tail == Rest(s, n)
    <2>1. n \in Nat /\ n <= Len(s)
      BY <1>0, <1>6
    <2>2. /\ tail \in Seq(Byte) /\ Len(tail) = Len(s) - n
          /\ \A i \in 1 .. Len(s) - n : tail[i] = s[n + i]
      <3> HIDE DEF n
      <3> QED BY <2>1, RestFacts
    <2> HIDE DEF tail
    <2>3. /\ tail \o more \in Seq(Byte) /\ Len(tail \o more) = Len(tail) + Len(more)
          /\ \A i \in 1 .. Len(tail) : (tail \o more)[i] = tail[i]
          /\ \A i \in 1 .. Len(more) : (tail \o more)[Len(tail) + i] = more[i]
      BY <2>2, Joint
    <2>4. Len(after) = Len(tail \o more) /\ Len(tail) \in Nat /\ Len(rest) = Len(m) + Len(tail)
      <3>1. Len(s) - n = Len(s) - q - Len(m) /\ Len(s) - n \in Nat
        BY <1>0, <2>1
      <3> HIDE DEF n
      <3>2. Len(tail) = Len(s) - q - Len(m) /\ Len(tail) \in Nat
        BY ONLY <2>2, <3>1
      <3>3. Len(all) = Len(rest) + Len(more) /\ Len(all) = Len(m) + Len(after)
        BY ONLY <1>3, <1>4
      <3>4. Len(rest) = Len(m) + Len(tail)
        BY ONLY <1>0, <1>1, <3>2, q \in Nat
      <3>5. Len(after) = Len(tail) + Len(more)
        <4>1. Len(m) + Len(after) = (Len(m) + Len(tail)) + Len(more)
          BY ONLY <3>3, <3>4
        <4>2. \A x, y, z, a \in Nat : x + a = (x + y) + z => a = y + z
          OBVIOUS
        <4> QED BY ONLY <1>0, <3>2, <4>1, <4>2
      <3> QED BY ONLY <2>3, <3>2, <3>4, <3>5
    <2> DEFINE both == tail \o more
    <2> HIDE DEF both
    <2>5. ASSUME NEW i \in 1 .. Len(after)
          PROVE  after[i] = both[i]
      <3>1. after[i] = all[Len(m) + i]
        BY <1>4
      <3>2. CASE i <= Len(tail)
        <4>1. i \in 1 .. Len(tail) /\ i \in 1 .. Len(s) - n /\ Len(m) + i \in 1 .. Len(rest)
              /\ Len(m) + i \in 1 .. Len(s) - q /\ q + (Len(m) + i) = n + i
          BY <1>0, <1>1, <2>2, <2>4, <3>2
        <4> HIDE DEF n
        <4>2. all[Len(m) + i] = rest[Len(m) + i] /\ rest[Len(m) + i] = s[q + (Len(m) + i)]
          BY <1>1, <1>3, <4>1
        <4>3. both[i] = tail[i] /\ tail[i] = s[n + i]
          BY <2>2, <2>3, <4>1 DEF both
        <4> QED BY <3>1, <4>1, <4>2, <4>3
      <3>3. CASE ~(i <= Len(tail))
        <4> DEFINE j == i - Len(tail)
        <4>1. j \in 1 .. Len(more) /\ Len(m) + i = Len(rest) + j /\ i = Len(tail) + j
          BY <1>0, <2>3, <2>4, <3>3
        <4> HIDE DEF j
        <4>2. all[Len(rest) + j] = more[j] /\ both[Len(tail) + j] = more[j]
          BY <1>3, <2>3, <4>1 DEF both
        <4> QED BY <3>1, <4>1, <4>2
      <3> QED BY <3>2, <3>3
    <2>6. after = both
      BY <2>3, <2>4, <2>5, EqualSeqs DEF both
    <2> QED BY <2>6 DEF both, tail
  <1> QED BY <1>5, <1>6

LEMMA FirstCallDies ==
  ASSUME NEW s \in Seq(Byte), NEW text, 0 >= Len(s)
  PROVE  Unpack(s, text)[<<0, 0, 1>>] = Died("insufficient", 0, 0)
  <1>1. 0 \in Nat /\ 1 \in Nat
    OBVIOUS
  <1> DEFINE V == Unpack(s, text)
  <1>2. V[<<0, 0, 1>>] = Items(V, s, text, 0, 0, 1)
    BY <1>1, UnpackStep
  <1> HIDE DEF V
  <1>3. Items(V, s, text, 0, 0, 1) = Died("insufficient", 0, 0)
    BY <1>1, ItemsAtEnd
  <1> QED BY <1>2, <1>3 DEF V

(* What a message means.                                                       *)
Sense(m) == Decode(m, FALSE).val

Tells(w, m, s, q) ==
  /\ Len(m) > 0
  /\ w.depth <= StackSize
  /\ q + Len(m) <= Len(s) => w.status = "ok" /\ w.p = q + Len(m) /\ w.vals[1] = Sense(m)
  /\ q + Len(m) > Len(s) => w.status = "insufficient"

(* A message at q in s, or so much of it as there is when s ends, is to        *)
(* _unpack what it is alone.                                                   *)
LEMMA MessageAt ==
  ASSUME NEW m \in Seq(Byte), Sendable(m), NEW s \in Seq(Byte), NEW q \in Nat, q <= Len(s),
         NEW more \in Seq(Byte), NEW after \in Seq(Byte), Goes(s, q, more, m, after),
         NEW w, w = Unpack(s, FALSE)[<<q, 0, 1>>]
  PROVE  Tells(w, m, s, q)
  <1> DEFINE r == Unpack(m, FALSE)[<<0, 0, 1>>]
  <1>0. Len(m) \in Nat /\ Len(s) \in Nat
    OBVIOUS
  <1>1. /\ r.status = "ok" /\ r.p = Len(m) /\ r.depth <= StackSize
        /\ Sense(m) = r.vals[1]
    BY DEF Sendable, Decode, Sense
  <1>2. Len(m) > 0
    <2>1. 0 >= Len(m) => r = Died("insufficient", 0, 0)
      BY FirstCallDies
    <2> HIDE DEF r
    <2>2. Died("insufficient", 0, 0).status = "insufficient"
      BY DEF Died
    <2> QED BY <1>0, <1>1, <2>1, <2>2
  <1>3. \A i \in 1 .. Len(m) : q + i <= Len(s) => s[q + i] = m[i]
    BY Overlap
  <1>4. CASE q + Len(m) <= Len(s)
    <2>1. Holds(s, q, m, 0)
      <3>1. \A i \in 0 + 1 .. Len(m) : i \in 1 .. Len(m) /\ q + i <= Len(s)
        BY <1>0, <1>4
      <3>2. \A i \in 0 + 1 .. Len(m) : s[q + i] = m[i]
        BY <1>3, <3>1
      <3> QED BY <1>4, <3>2 DEF Holds
    <2> DEFINE e == Unpack(s, FALSE)[<<q + 0, 0, 1>>]
    <2>2. q + 0 = q /\ 0 <= Len(m) /\ q \in Int /\ 0 >= 0 /\ 0 \in Nat /\ 1 \in Nat
      BY <1>0
    <2>3. Embeds(r, e, q, Len(m))
      BY ONLY <2>1, <2>2, UnpackEmbeds, m \in Seq(Byte), s \in Seq(Byte)
    <2>4. w = e
      BY <2>2
    <2> HIDE DEF r, e
    <2>5. w.status = "ok" /\ w.p = q + Len(m) /\ w.vals[1] = Sense(m) /\ w.depth <= StackSize
      BY ONLY <1>1, <2>3, <2>4 DEF Embeds
    <2> QED BY ONLY <1>0, <1>2, <1>4, <2>5, q \in Nat DEF Tells
  <1>5. CASE q + Len(m) > Len(s)
    <2> DEFINE k == 0 - q
    <2>1. k \in Int /\ k + q = 0 /\ k + Len(s) < Len(m) /\ k + Len(s) <= Len(m)
      BY <1>0, <1>5
    <2>2. ASSUME NEW i \in q + 1 .. Len(s)
          PROVE  m[k + i] = s[i]
      <3>1. k + i \in 1 .. Len(m) /\ q + (k + i) = i
        BY <1>0, <2>1
      <3> HIDE DEF k
      <3> QED BY <1>3, <3>1
    <2> HIDE DEF k
    <2>3. Holds(m, k, s, q)
      BY <2>1, <2>2 DEF Holds
    <2> DEFINE e == Unpack(m, FALSE)[<<k + q, 0, 1>>]
               x == Unpack(s, FALSE)[<<q, 0, 1>>]
    <2>4. Embeds(x, e, k, Len(s))
      <3>1. q >= q /\ 0 \in Nat /\ 1 \in Nat
        OBVIOUS
      <3> QED BY ONLY <2>1, <2>3, <3>1, UnpackEmbeds, m \in Seq(Byte), s \in Seq(Byte), q \in Nat, q <= Len(s)
    <2>5. e = r /\ x = w
      BY <2>1
    <2>6. x.status = "ok" => x.p \in Nat
      <3>1. Good(x, q, 0)
        BY UnpackGood
      <3> QED BY <3>1 DEF Good
    <2>d. x.depth \in Nat /\ r.depth \in Nat
      <3>1. Good(x, q, 0) /\ Good(r, 0, 0)
        BY UnpackGood
      <3> HIDE DEF x, r
      <3> QED BY <3>1 DEF Good
    <2> HIDE DEF r, e, x
    <2>7. w.depth <= StackSize
      BY ONLY <1>1, <2>4, <2>5, <2>d, StackSizeAssumption DEF Embeds
    <2>8. w.status = "insufficient"
      <3> SUFFICES ASSUME w.status # "insufficient"
                   PROVE  FALSE
        OBVIOUS
      <3>1. w.status = "ok" /\ w.p <= Len(s) /\ Len(m) = k + w.p /\ w.p \in Nat
        BY ONLY <1>1, <2>4, <2>5, <2>6, w.status # "insufficient" DEF Embeds
      <3> QED BY ONLY <1>0, <2>1, <3>1
    <2> QED BY ONLY <1>0, <1>2, <1>5, <2>7, <2>8, q \in Nat DEF Tells
  <1>6. q + Len(m) <= Len(s) \/ q + Len(m) > Len(s)
    BY ONLY <1>0, q \in Nat
  <1> QED BY ONLY <1>4, <1>5, <1>6

-------------------------------------------------------------------------------
(* The client's invariant.  What has been delivered is right, and              *)
(*   Between  when the program reads or is about to call, the unpacker is      *)
(*            fresh but for the bytes it keeps, less than a message;           *)
(*   Holding  t/10 reads on, and there is nothing to read, when the message is *)
(*            finished;                                                        *)
(*   Calling  while a call runs, it is on its way to the meaning of what it    *)
(*            was given, in which the next message begins at the offset;       *)
(*   Done     when it has returned, it has found the next message, or kept     *)
(*            what there is of it;                                             *)
(*   Ended    at the end the unpacker has what has come of the next message.   *)
Shown == {Sense(sent[i]) : i \in DOMAIN sent}

ClientTypes ==
  /\ sent \in Streams /\ sent # << >> /\ utf8 = FALSE /\ alive
  /\ loop \in {"t/09", "t/10", "t/11"} /\ step \in {"read", "execute", "look", "end"}
  /\ piece \in Seq(Byte) /\ incoming \in Seq(Byte) /\ buffer \in Seq(Byte)
  /\ nread \in Nat /\ DOMAIN stack = Slot

(* What the loops themselves see to.                                           *)
Loops ==
  /\ loop = "t/09" => IF step = "read" THEN nread = 0 ELSE incoming = << >>
  /\ loop = "t/10" => Len(sent) = 1
  /\ loop = "t/11" => nread = 0
  /\ step = "read" => delivered = << >>

RightSoFar ==
  /\ delivered \in Seq(Shown)
  /\ Len(delivered) <= Len(sent)
  /\ \A i \in DOMAIN delivered : delivered[i] = Sense(sent[i])

Left == BytesFrom(sent, Len(delivered) + 1)

(* So many bytes are less than the next message.                               *)
Short(n) == Len(delivered) < Len(sent) /\ n < Len(sent[Len(delivered) + 1])

Between ==
  step = "execute" \/ (step = "read" /\ ~finished) =>
    /\ pc = "idle" /\ cs = CS_HEADER /\ top = 0
    /\ Left = (buffer \o NextBytes) \o incoming
    /\ buffer # << >> => loop = "t/10" /\ Short(Len(buffer))
    /\ step = "execute" => Offset < Len(piece)

Holding ==
  step = "read" /\ finished =>
    /\ pc = "idle" /\ loop = "t/10" /\ buffer = << >> /\ incoming = << >>
    /\ TemplateData = Sense(sent[1]) /\ nread = Len(sent[1])

Calling ==
  step = "look" /\ pc # "idle" =>
    /\ \E V, w : w = V[<<Offset, 0, 1>>] /\ Agrees(V, w)
    /\ loop # "t/10" => data = piece
    /\ Offset < Len(data)
    /\ Left = Rest(data, Offset) \o incoming

Found ==
  /\ ret \in Nat /\ buffer = << >>
  /\ TemplateData = Sense(sent[Len(delivered) + 1])
  /\ IF loop = "t/10" THEN ret = Len(sent[1]) /\ incoming = << >>
     ELSE ret <= Len(piece)
          /\ BytesFrom(sent, Len(delivered) + 2) = Rest(piece, ret) \o incoming

Waiting ==
  /\ cs = CS_HEADER /\ top = 0 /\ loop # "t/09" /\ ret = 0
  /\ Left = buffer \o incoming
  /\ Short(Len(buffer))

Done ==
  step = "look" /\ pc = "idle" =>
    /\ Len(delivered) < Len(sent)
    /\ finished => Found
    /\ ~finished => Waiting

Ended ==
  step = "end" =>
    /\ pc = "idle"
    /\ Left = buffer \o incoming
    /\ loop = "t/10" => nread = Len(sent[1])

ClientInv ==
  ClientTypes /\ Loops /\ RightSoFar /\ Between /\ Holding /\ Calling /\ Done /\ Ended

LEMMA NextMessage ==
  ASSUME ClientTypes, RightSoFar
  PROVE  /\ Len(delivered) \in Nat /\ Left \in Seq(Byte) /\ Len(sent) \in Nat
         /\ Left # << >> => Len(delivered) < Len(sent)
         /\ Len(delivered) < Len(sent) =>
              /\ sent[Len(delivered) + 1] \in Seq(Byte) /\ Sendable(sent[Len(delivered) + 1])
              /\ BytesFrom(sent, Len(delivered) + 2) \in Seq(Byte)
              /\ Left = sent[Len(delivered) + 1] \o BytesFrom(sent, Len(delivered) + 2)
  <1> DEFINE n == Len(delivered)
             i == n + 1
  <1>1. sent \in Seq(Seq(Byte)) /\ \A j \in DOMAIN sent : Sendable(sent[j])
    BY StreamsAssumption DEF ClientTypes
  <1>2. n \in Nat /\ n <= Len(sent) /\ Len(sent) \in Nat
    BY <1>1 DEF RightSoFar
  <1> HIDE DEF n
  <1>3. i \in Nat \ {0} /\ i + 1 \in Nat \ {0} /\ i + 1 = n + 2
    BY <1>2
  <1> HIDE DEF i
  <1>4. /\ BytesFrom(sent, i) \in Seq(Byte) /\ BytesFrom(sent, i + 1) \in Seq(Byte)
        /\ i > Len(sent) => BytesFrom(sent, i) = << >>
        /\ i <= Len(sent) => BytesFrom(sent, i) = sent[i] \o BytesFrom(sent, i + 1)
    BY <1>1, <1>3, BytesAre
  <1>5. i <= Len(sent) <=> n < Len(sent)
    BY <1>2 DEF i
  <1>6. i > Len(sent) \/ i <= Len(sent)
    BY <1>2, <1>3
  <1>7. i <= Len(sent) => sent[i] \in Seq(Byte) /\ Sendable(sent[i])
    <2> SUFFICES ASSUME i <= Len(sent) PROVE sent[i] \in Seq(Byte) /\ Sendable(sent[i])
      OBVIOUS
    <2>1. i \in DOMAIN sent
      BY <1>1, <1>2, <1>3
    <2> QED BY <1>1, <2>1
  <1>8. Left = BytesFrom(sent, i)
    BY DEF Left, i, n
  <1>9. n \in Nat /\ Left \in Seq(Byte) /\ Len(sent) \in Nat
    BY <1>2, <1>4, <1>8
  <1>10. Left # << >> => n < Len(sent)
    BY <1>4, <1>5, <1>6, <1>8
  <1>11. n < Len(sent) =>
              /\ sent[i] \in Seq(Byte) /\ Sendable(sent[i])
              /\ BytesFrom(sent, n + 2) \in Seq(Byte)
              /\ Left = sent[i] \o BytesFrom(sent, n + 2)
    BY <1>3, <1>4, <1>5, <1>7, <1>8
  <1> QED BY <1>9, <1>10, <1>11 DEF n, i

(* Where the next call begins.                                                 *)
LEMMA OffsetIs ==
  ASSUME ClientTypes, Loops
  PROVE  /\ Offset \in Nat
         /\ loop # "t/09" => Offset = 0
         /\ step = "read" => Offset = 0
  BY DEF ClientTypes, Loops, Offset

(* Where a call may stop.                                                      *)
LEMMA CallOutcome ==
  ASSUME ClientTypes, Loops, RightSoFar, Calling, step = "look", pc # "idle"
  PROVE  LET m == sent[Len(delivered) + 1] IN
         /\ Len(delivered) < Len(sent) /\ Len(m) \in Nat /\ data \in Seq(Byte)
         /\ pc = "finish" =>
              /\ p = Offset + Len(m) /\ p <= Len(data) /\ TemplateData = Sense(m)
              /\ BytesFrom(sent, Len(delivered) + 2) = Rest(data, p) \o incoming
         /\ pc = "out" => Len(data) < Offset + Len(m)
         /\ pc \notin {"failed", "croaked"}
  <1> DEFINE m == sent[Len(delivered) + 1]
             after == BytesFrom(sent, Len(delivered) + 2)
  <1>1. PICK V, w : w = V[<<Offset, 0, 1>>] /\ Agrees(V, w)
    BY DEF Calling
  <1>2. /\ data \in Seq(Byte) /\ Offset < Len(data) /\ Left = Rest(data, Offset) \o incoming
        /\ Offset \in Nat /\ incoming \in Seq(Byte) /\ Len(data) \in Nat
    <2>1. Offset \in Nat
      BY OffsetIs
    <2> QED BY <1>1, <2>1 DEF Calling, Agrees, ClientTypes
  <1>3. w = Unpack(data, FALSE)[<<Offset, 0, 1>>] /\ Stops(w)
    BY <1>1 DEF Agrees, ClientTypes
  <1>4. Left # << >>
    <2> DEFINE u == Rest(data, Offset)
    <2>1. u \in Seq(Byte) /\ Len(u) = Len(data) - Offset
      BY <1>2, RestFacts
    <2> HIDE DEF u
    <2>2. Len(u \o incoming) = Len(u) + Len(incoming) /\ Len(incoming) \in Nat
      BY <1>2, <2>1, Joint
    <2>3. Len(u \o incoming) # 0
      BY <1>2, <2>1, <2>2
    <2>4. Left = u \o incoming
      BY <1>2 DEF u
    <2> QED BY <2>3, <2>4
  <1>5. /\ Len(delivered) < Len(sent) /\ m \in Seq(Byte) /\ Sendable(m) /\ after \in Seq(Byte)
        /\ Left = m \o after
    BY <1>4, NextMessage
  <1> HIDE DEF m, after
  <1>6. Goes(data, Offset, incoming, m, after) /\ Offset <= Len(data) /\ Len(m) \in Nat
    BY <1>2, <1>5 DEF Goes
  <1>7. /\ Len(m) > 0
        /\ w.depth <= StackSize
        /\ Offset + Len(m) <= Len(data) =>
              w.status = "ok" /\ w.p = Offset + Len(m) /\ w.vals[1] = Sense(m)
        /\ Offset + Len(m) > Len(data) => w.status = "insufficient"
    <2> DEFINE q == Offset
               s == data
               more == incoming
    <2>1. /\ s \in Seq(Byte) /\ q \in Nat /\ q <= Len(s) /\ more \in Seq(Byte)
          /\ Goes(s, q, more, m, after) /\ w = Unpack(s, FALSE)[<<q, 0, 1>>]
      BY <1>2, <1>3, <1>6
    <2> HIDE DEF q, s, more
    <2>2. Tells(w, m, s, q)
      BY ONLY <1>5, <2>1, MessageAt
    <2> QED BY <2>2 DEF q, s, Tells
  <1>8. Offset + Len(m) <= Len(data) => after = Rest(data, Offset + Len(m)) \o incoming
    BY <1>2, <1>5, <1>6, Overlap
  <1>9. Offset + Len(m) <= Len(data) \/ Offset + Len(m) > Len(data)
    BY <1>2, <1>6
  <1>10. w.status # "unexpected" /\ Fits(w)
    BY <1>7, <1>9 DEF Fits
  <1>11. pc \notin {"failed", "croaked"}
    BY <1>3, <1>10 DEF Stops
  <1>12. ASSUME pc = "finish"
         PROVE  /\ p = Offset + Len(m) /\ p <= Len(data) /\ TemplateData = Sense(m)
                /\ after = Rest(data, p) \o incoming
    <2> DEFINE d == Returned(<<TemplateData>>, p, 0)
    <2>1. Same(w, d)
      BY <1>3, <1>12 DEF Stops
    <2>2. d.status = "ok" /\ d.vals[1] = TemplateData /\ d.p = p
      BY DEF Returned
    <2> HIDE DEF d
    <2>3. w.status = "ok" /\ w.vals = d.vals /\ w.p = d.p
      BY <2>1, <2>2 DEF Same
    <2>4. Offset + Len(m) <= Len(data)
      BY <1>7, <1>9, <2>3
    <2> QED BY <1>7, <1>8, <2>2, <2>3, <2>4
  <1>13. pc = "out" => Len(data) < Offset + Len(m)
    <2>1. pc = "out" => w.status # "ok"
      BY <1>3 DEF Stops
    <2>2. pc = "out" => Offset + Len(m) > Len(data)
      BY <1>7, <1>9, <2>1
    <2> QED BY <1>2, <1>6, <2>2
  <1> QED BY <1>2, <1>5, <1>6, <1>11, <1>12, <1>13 DEF m, after

LEMMA Associative ==
  ASSUME NEW u \in Seq(Byte), NEW v \in Seq(Byte), NEW x \in Seq(Byte)
  PROVE  (u \o v) \o x = u \o (v \o x)
  <1> DEFINE uv == u \o v
             vx == v \o x
             l == uv \o x
             r == u \o vx
  <1>1. /\ uv \in Seq(Byte) /\ Len(uv) = Len(u) + Len(v)
        /\ Len(u) \in Nat /\ Len(v) \in Nat /\ Len(x) \in Nat
        /\ \A i \in 1 .. Len(u) : uv[i] = u[i]
        /\ \A i \in 1 .. Len(v) : uv[Len(u) + i] = v[i]
    BY Joint
  <1>2. /\ vx \in Seq(Byte) /\ Len(vx) = Len(v) + Len(x)
        /\ \A i \in 1 .. Len(v) : vx[i] = v[i]
        /\ \A i \in 1 .. Len(x) : vx[Len(v) + i] = x[i]
    BY Joint
  <1> HIDE DEF uv, vx
  <1>3. /\ l \in Seq(Byte) /\ Len(l) = Len(uv) + Len(x)
        /\ \A i \in 1 .. Len(uv) : l[i] = uv[i]
        /\ \A i \in 1 .. Len(x) : l[Len(uv) + i] = x[i]
    BY <1>1, Joint
  <1>4. /\ r \in Seq(Byte) /\ Len(r) = Len(u) + Len(vx)
        /\ \A i \in 1 .. Len(u) : r[i] = u[i]
        /\ \A i \in 1 .. Len(vx) : r[Len(u) + i] = vx[i]
    BY <1>2, Joint
  <1> HIDE DEF l, r
  <1>5. Len(l) = Len(u) + Len(v) + Len(x) /\ Len(r) = Len(l)
    BY <1>1, <1>2, <1>3, <1>4
  <1>6. ASSUME NEW i \in 1 .. Len(l)
        PROVE  l[i] = r[i]
    <2>1. CASE i <= Len(u)
      <3>1. i \in 1 .. Len(u) /\ i \in 1 .. Len(uv)
        BY <1>1, <2>1
      <3> QED BY <1>1, <1>3, <1>4, <3>1
    <2>2. CASE i > Len(u) /\ i <= Len(u) + Len(v)
      <3> DEFINE j == i - Len(u)
      <3>1. j \in 1 .. Len(v) /\ j \in 1 .. Len(vx) /\ i \in 1 .. Len(uv) /\ i = Len(u) + j
        BY <1>1, <1>2, <2>2
      <3> HIDE DEF j
      <3>2. l[i] = uv[i] /\ uv[i] = v[j] /\ r[i] = vx[j] /\ vx[j] = v[j]
        BY <1>1, <1>2, <1>3, <1>4, <3>1
      <3> QED BY <3>2
    <2>3. CASE i > Len(u) + Len(v)
      <3> DEFINE j == i - (Len(u) + Len(v))
      <3>1. /\ j \in 1 .. Len(x) /\ Len(v) + j \in 1 .. Len(vx)
            /\ i = Len(uv) + j /\ i = Len(u) + (Len(v) + j)
        BY <1>1, <1>2, <1>5, <2>3
      <3> HIDE DEF j
      <3>2. l[i] = x[j] /\ r[i] = vx[Len(v) + j] /\ vx[Len(v) + j] = x[j]
        BY <1>2, <1>3, <1>4, <3>1
      <3> QED BY <3>2
    <2> QED BY <1>1, <1>5, <2>1, <2>2, <2>3
  <1>7. l = r
    BY <1>3, <1>4, <1>5, <1>6, EqualSeqs
  <1> QED BY <1>7 DEF l, r, uv, vx

LEMMA RestOfAll ==
  ASSUME NEW s \in Seq(Byte)
  PROVE  Rest(s, 0) = s /\ << >> \o s = s /\ s \o << >> = s /\ Len(s) \in Nat
         /\ Rest(s, Len(s)) = << >>
  <1>1. /\ 0 \in Nat /\ 0 <= Len(s) /\ Len(s) - 0 = Len(s) /\ Len(s) \in Nat /\ Len(s) <= Len(s)
        /\ \A i \in 1 .. Len(s) : 0 + i = i
    OBVIOUS
  <1>2. /\ Rest(s, 0) \in Seq(Byte) /\ Len(Rest(s, 0)) = Len(s) - 0
        /\ \A i \in 1 .. Len(s) - 0 : Rest(s, 0)[i] = s[0 + i]
    BY <1>1, RestFacts
  <1>3. Rest(s, 0) = s
    BY <1>1, <1>2, EqualSeqs
  <1>4. Rest(s, Len(s)) \in Seq(Byte) /\ Len(Rest(s, Len(s))) = 0
    BY <1>1, RestFacts
  <1>5. << >> \o s = s /\ s \o << >> = s
    OBVIOUS
  <1> QED BY <1>1, <1>3, <1>4, <1>5

(* The bytes before a cut and those behind it are all.                         *)
LEMMA CutHere ==
  ASSUME NEW s \in Seq(Byte), NEW n \in 1 .. Len(s)
  PROVE  /\ SubSeq(s, 1, n) \in Seq(Byte) /\ Len(SubSeq(s, 1, n)) = n
         /\ Rest(s, n) \in Seq(Byte)
         /\ SubSeq(s, 1, n) \o Rest(s, n) = s
  <1> DEFINE new == SubSeq(s, 1, n)
             more == Rest(s, n)
             all == new \o more
  <1>1. n \in Nat /\ n >= 1 /\ n <= Len(s) /\ Len(s) \in Nat
    OBVIOUS
  <1>2. /\ new \in Seq(Byte) /\ Len(new) = n /\ \A i \in 1 .. n : new[i] = s[i]
    BY <1>1
  <1>3. /\ more \in Seq(Byte) /\ Len(more) = Len(s) - n
        /\ \A i \in 1 .. Len(s) - n : more[i] = s[n + i]
    BY <1>1, RestFacts
  <1> HIDE DEF new, more
  <1>4. /\ all \in Seq(Byte) /\ Len(all) = Len(new) + Len(more)
        /\ \A i \in 1 .. Len(new) : all[i] = new[i]
        /\ \A i \in 1 .. Len(more) : all[Len(new) + i] = more[i]
    BY <1>2, <1>3, Joint
  <1> HIDE DEF all
  <1>5. Len(all) = Len(s)
    BY <1>1, <1>2, <1>3, <1>4
  <1>6. ASSUME NEW i \in 1 .. Len(all)
        PROVE  all[i] = s[i]
    <2>1. CASE i <= n
      <3>1. i \in 1 .. n
        BY <1>1, <2>1
      <3> QED BY <1>2, <1>4, <3>1
    <2>2. CASE i > n
      <3> DEFINE j == i - n
      <3>1. j \in 1 .. Len(s) - n /\ i = n + j
        BY <1>1, <1>5, <2>2
      <3> HIDE DEF j
      <3>2. all[n + j] = more[j] /\ more[j] = s[n + j]
        BY <1>2, <1>3, <1>4, <3>1
      <3> QED BY <3>1, <3>2
    <2> QED BY <1>1, <2>1, <2>2
  <1>7. all = s
    BY <1>4, <1>5, <1>6, EqualSeqs
  <1> QED BY <1>2, <1>3, <1>7 DEF all, new, more

(* The program reads.                                                          *)
LEMMA ReadKeeps ==
  ASSUME ClientInv, Read
  PROVE  ClientInv'
  <1>1. PICK n \in 1 .. Len(incoming) :
           /\ Arrives(n)
           /\ piece' = SubSeq(incoming, 1, n)
           /\ incoming' = Rest(incoming, n)
    BY DEF Read, Rest
  <1>2. /\ step = "read" /\ step' = "execute" /\ incoming # << >>
        /\ UNCHANGED <<sent, utf8, alive, buffer, nread, stack, delivered, loop, pc, cs, top>>
    BY DEF Read, vars, tvars, avars
  <1>3. ~finished /\ pc = "idle" /\ Offset = 0 /\ Offset' = 0
    BY <1>2, OffsetIs DEF ClientInv, Holding, Between, Offset
  <1>4. piece \in Seq(Byte) /\ incoming \in Seq(Byte) /\ buffer \in Seq(Byte)
    BY DEF ClientInv, ClientTypes
  <1>5. /\ piece' \in Seq(Byte) /\ Len(piece') = n /\ incoming' \in Seq(Byte)
        /\ piece' \o incoming' = incoming
    BY <1>1, <1>4, CutHere
  <1>6. n \in Nat /\ 0 < n
    BY <1>4
  <1>7. Left = buffer \o incoming
    <2>1. NextBytes = << >> /\ buffer \o << >> = buffer
      BY <1>2, <1>4, RestOfAll DEF NextBytes
    <2> QED BY <1>2, <1>3, <2>1 DEF ClientInv, Between
  <1>8. Left' = (buffer' \o NextBytes') \o incoming'
    <2>1. Left' = Left
      BY <1>2 DEF Left
    <2>2. NextBytes' = Rest(piece', 0)
      BY <1>2, <1>3 DEF NextBytes, Rest
    <2>3. Rest(piece', 0) = piece'
      BY <1>5, RestOfAll
    <2>4. (buffer \o piece') \o incoming' = buffer \o (piece' \o incoming')
      BY <1>4, <1>5, Associative
    <2> QED BY <1>2, <1>5, <1>7, <2>1, <2>2, <2>3, <2>4
  <1>9. ClientTypes' /\ RightSoFar'
    BY <1>2, <1>5 DEF ClientInv, ClientTypes, RightSoFar, Shown
  <1>10. Loops'
    <2>1. loop = "t/09" => incoming' = << >>
      <3>1. loop = "t/09" => n = Len(incoming)
        BY <1>1 DEF Arrives
      <3> QED BY <1>1, <1>4, <3>1, RestOfAll
    <2> QED BY <1>2, <2>1 DEF ClientInv, Loops
  <1>11. Between'
    <2>1. buffer' # << >> => loop' = "t/10" /\ Short(Len(buffer))'
      BY <1>2, <1>3 DEF ClientInv, Between, Short
    <2>2. Offset' < Len(piece')
      BY <1>3, <1>5, <1>6
    <2>3. pc' = "idle" /\ cs' = CS_HEADER /\ top' = 0
      BY <1>2, <1>3 DEF ClientInv, Between
    <2> QED BY <1>8, <2>1, <2>2, <2>3 DEF Between
  <1> QED BY <1>2, <1>9, <1>10, <1>11 DEF ClientInv, Holding, Calling, Done, Ended

(* The program calls execute.                                                  *)
LEMMA CallKeeps ==
  ASSUME ClientInv, Call
  PROVE  ClientInv'
  <1>1. /\ step = "execute" /\ step' = "look"
        /\ UNCHANGED <<sent, incoming, loop, piece, nread, delivered>>
        /\ UNCHANGED <<utf8, alive, stack, cs, top>>
    BY DEF Call, ExecuteCall, Enter
  <1>2. /\ pc = "idle" /\ cs = CS_HEADER /\ top = 0
        /\ Left = (buffer \o Rest(piece, Offset)) \o incoming
        /\ Offset < Len(piece)
        /\ buffer # << >> => loop = "t/10"
    BY <1>1 DEF ClientInv, Between, NextBytes, Rest
  <1>3. /\ piece \in Seq(Byte) /\ incoming \in Seq(Byte) /\ buffer \in Seq(Byte)
        /\ Len(piece) \in Nat /\ Len(buffer) \in Nat
        /\ DOMAIN stack = Slot /\ utf8 = FALSE
    BY DEF ClientInv, ClientTypes
  <1>o. /\ Offset \in Nat /\ Offset' = Offset
        /\ loop = "t/10" => Offset = 0
    BY <1>1, OffsetIs DEF ClientInv, Offset
  <1>4. SubSeq(piece, 1, Len(piece)) = piece
    BY <1>3
  <1>5. \E bytes \in Seq(Byte) :
          /\ Enter(bytes, Offset) /\ Offset < Len(bytes)
          /\ loop # "t/10" => bytes = piece
          /\ buffer' = buffer \/ buffer' = bytes
          /\ Left = Rest(bytes, Offset) \o incoming
    <2>1. CASE buffer # << >> /\ buffer' = buffer \o piece /\ Enter(buffer \o piece, 0)
      <3> DEFINE bytes == buffer \o piece
      <3>1. /\ bytes \in Seq(Byte) /\ Len(bytes) = Len(buffer) + Len(piece)
        BY <1>3, Joint
      <3>2. loop = "t/10" /\ Offset = 0 /\ Offset < Len(bytes)
        BY <1>2, <1>3, <1>o, <2>1, <3>1
      <3>3. Rest(bytes, Offset) = bytes /\ Rest(piece, Offset) = piece
        BY <1>3, <3>1, <3>2, RestOfAll
      <3> QED BY <1>2, <2>1, <3>1, <3>2, <3>3
    <2>2. CASE buffer = << >> /\ Enter(piece, Offset) /\ buffer' = buffer
      <3>1. Rest(piece, Offset) \in Seq(Byte)
        BY <1>2, <1>3, <1>o, RestFacts
      <3>2. buffer \o Rest(piece, Offset) = Rest(piece, Offset)
        BY <2>2, <3>1, RestOfAll
      <3> QED BY <1>2, <1>3, <2>2, <3>2
    <2> QED BY <1>4, <2>1, <2>2 DEF Call, ExecuteCall
  <1>6. PICK bytes \in Seq(Byte) :
          /\ Enter(bytes, Offset) /\ Offset < Len(bytes)
          /\ loop # "t/10" => bytes = piece
          /\ buffer' = buffer \/ buffer' = bytes
          /\ Left = Rest(bytes, Offset) \o incoming
    BY <1>5
  <1>7. data' = bytes /\ pc' # "idle" /\ buffer' \in Seq(Byte) /\ Len(bytes) \in Nat
    <2>1. bytes \in Seq(Byte) /\ Len(bytes) \in Nat
      OBVIOUS
    <2>2. buffer' \in Seq(Byte)
      BY <1>3, <1>6, <2>1
    <2>3. data' = bytes /\ pc' \in {"out", "header", "trail"}
      BY <1>6 DEF Enter
    <2> QED BY <2>1, <2>2, <2>3
  <1>8. PICK V : V = Unpack(bytes, utf8)
    OBVIOUS
  <1>9. PICK w : w = V[<<Offset, 0, 1>>]
    OBVIOUS
  <1>10. Agrees(V, w)'
    <2>1. Offset <= Len(bytes) /\ Offset \in Nat /\ bytes \in Seq(Byte)
      BY <1>o, <1>6, <1>7
    <2> QED BY <1>2, <1>3, <1>6, <1>8, <1>9, <2>1, EnterAgrees
  <1>11. ClientTypes' /\ RightSoFar' /\ Loops'
    BY <1>1, <1>3, <1>7 DEF ClientInv, ClientTypes, RightSoFar, Shown, Loops
  <1>12. Left' = Left
    BY <1>1 DEF Left
  <1>13. Calling'
    <2>1. \E W, v : v = W[<<Offset', 0, 1>>] /\ Agrees(W, v)'
      BY <1>o, <1>9, <1>10
    <2> QED BY <1>1, <1>o, <1>6, <1>7, <1>12, <2>1 DEF Calling
  <1> QED BY <1>1, <1>7, <1>11, <1>13 DEF ClientInv, Between, Holding, Done, Ended

(* The parser takes a step.                                                    *)
LEMMA RunKeeps ==
  ASSUME ClientInv, Run, UNCHANGED clientvars
  PROVE  ClientInv'
  <1>1. ParseStep /\ UNCHANGED avars
    BY DEF Run
  <1>2. pc # "idle" /\ pc' # "idle"
    BY <1>1, RunStaysInside
  <1>3. step = "look"
    BY <1>2 DEF ClientInv, ClientTypes, Between, Holding, Ended
  <1>4. UNCHANGED <<data, utf8>>
    BY <1>1, DataUnchanged
  <1>5. UNCHANGED <<buffer, alive, sent, incoming, loop, step, piece, nread, delivered>>
    BY <1>1 DEF avars, clientvars
  <1>6. PICK V, w : w = V[<<Offset, 0, 1>>] /\ Agrees(V, w)
    BY <1>2, <1>3 DEF ClientInv, Calling
  <1>7. Agrees(V, w)'
    BY <1>1, <1>6, ParseStepAgrees
  <1>8. DOMAIN stack' = Slot
    BY <1>7 DEF Agrees
  <1>9. ClientTypes' /\ RightSoFar' /\ Loops'
    BY <1>4, <1>5, <1>8 DEF ClientInv, ClientTypes, RightSoFar, Shown, Loops
  <1>10. Offset' = Offset
    BY <1>5 DEF Offset
  <1>11. Calling'
    <2>1. \E W, v : v = W[<<Offset', 0, 1>>] /\ Agrees(W, v)'
      BY <1>6, <1>7, <1>10
    <2> QED BY <1>2, <1>3, <1>4, <1>5, <1>10, <2>1 DEF ClientInv, Calling, Left
  <1> QED BY <1>2, <1>3, <1>5, <1>9, <1>11 DEF ClientInv, Between, Holding, Done, Ended

(* execute comes back with a message.                                          *)
LEMMA ReturnFinishedKeeps ==
  ASSUME ClientInv, ReturnFinished, UNCHANGED clientvars
  PROVE  ClientInv'
  <1>1. /\ pc = "finish" /\ pc' = "idle" /\ finished' = TRUE /\ buffer' = << >> /\ ret' = p
        /\ UNCHANGED <<stack, utf8, alive>>
    BY DEF ReturnFinished, LeaveTemplate
  <1>2. UNCHANGED <<sent, incoming, loop, step, piece, nread, delivered>>
    BY DEF clientvars
  <1>3. step = "look" /\ pc # "idle"
    BY <1>1 DEF ClientInv, ClientTypes, Between, Holding, Ended
  <1>4. piece \in Seq(Byte) /\ incoming \in Seq(Byte) /\ Offset \in Nat
        /\ (loop = "t/10" => Offset = 0)
    BY OffsetIs DEF ClientInv, ClientTypes
  <1> DEFINE m == sent[Len(delivered) + 1]
             after == BytesFrom(sent, Len(delivered) + 2)
  <1>5. /\ Len(delivered) < Len(sent) /\ Len(m) \in Nat /\ data \in Seq(Byte)
        /\ p = Offset + Len(m) /\ p <= Len(data) /\ TemplateData = Sense(m)
        /\ after = Rest(data, p) \o incoming
    BY <1>1, <1>3, CallOutcome DEF ClientInv
  <1>6. loop # "t/10" => data = piece
    BY <1>3 DEF ClientInv, Calling
  <1>7. ret' \in Nat /\ TemplateData' = Sense(m)'
    BY <1>1, <1>2, <1>4, <1>5 DEF TemplateData, Sense
  <1>8. loop = "t/10" => ret' = Len(sent[1]) /\ incoming = << >>
    <2> SUFFICES ASSUME loop = "t/10" PROVE ret' = Len(sent[1]) /\ incoming = << >>
      OBVIOUS
    <2>1. Len(sent) = 1 /\ sent \in Seq(Seq(Byte)) /\ Len(delivered) \in Nat
      BY StreamsAssumption DEF ClientInv, ClientTypes, Loops, RightSoFar
    <2>2. Len(delivered) = 0
      BY <1>5, <2>1
    <2>3. ret' = Len(sent[1])
      BY <1>1, <1>4, <1>5, <2>2
    <2>4. after = << >>
      <3>1. 2 \in Nat \ {0} /\ 2 > Len(sent) /\ Len(delivered) + 2 = 2
        BY <2>1, <2>2
      <3>2. BytesFrom(sent, 2) = << >>
        BY <2>1, <3>1, BytesAre
      <3> QED BY <3>1, <3>2
    <2> HIDE DEF m, after
    <2>5. Rest(data, p) \in Seq(Byte)
      BY <1>4, <1>5, RestFacts
    <2>6. Len(Rest(data, p)) \in Nat /\ Len(incoming) \in Nat
          /\ Len(Rest(data, p) \o incoming) = Len(Rest(data, p)) + Len(incoming)
      BY <1>4, <2>5, Joint
    <2>7. Len(incoming) = 0
      BY <1>5, <2>4, <2>6
    <2> QED BY <1>4, <2>3, <2>7
  <1>9. Found'
    <2>1. loop # "t/10" => ret' <= Len(piece') /\ after = Rest(piece', ret') \o incoming'
      BY <1>1, <1>2, <1>5, <1>6
    <2>2. BytesFrom(sent', Len(delivered') + 2) = after /\ Sense(m)' = Sense(sent'[Len(delivered') + 1])
      BY <1>2
    <2> HIDE DEF m, after
    <2> QED BY <1>1, <1>2, <1>7, <1>8, <2>1, <2>2 DEF Found
  <1>10. ClientTypes' /\ RightSoFar' /\ Loops'
    BY <1>1, <1>2 DEF ClientInv, ClientTypes, RightSoFar, Shown, Loops
  <1> QED BY <1>1, <1>2, <1>3, <1>5, <1>9, <1>10
          DEF ClientInv, Between, Holding, Calling, Done, Ended

(* execute comes back without, and has kept the bytes.  It does not in t/09,   *)
(* which has them all.                                                         *)
LEMMA ReturnUnfinishedKeeps ==
  ASSUME ClientInv, ReturnUnfinished, UNCHANGED clientvars
  PROVE  ClientInv'
  <1>1. /\ pc = "out" /\ pc' = "idle" /\ finished' = FALSE /\ buffer' = data /\ ret' = 0
        /\ TemplateInit /\ UNCHANGED <<utf8, alive>>
    BY DEF ReturnUnfinished, LeaveTemplate, Kept
  <1>2. UNCHANGED <<sent, incoming, loop, step, piece, nread, delivered>>
    BY DEF clientvars
  <1>3. step = "look" /\ pc # "idle"
    BY <1>1 DEF ClientInv, ClientTypes, Between, Holding, Ended
  <1>4. /\ incoming \in Seq(Byte) /\ Offset \in Nat /\ (loop # "t/09" => Offset = 0)
        /\ DOMAIN stack = Slot
    BY OffsetIs DEF ClientInv, ClientTypes
  <1> DEFINE m == sent[Len(delivered) + 1]
             after == BytesFrom(sent, Len(delivered) + 2)
  <1>5. /\ Len(delivered) < Len(sent) /\ Len(m) \in Nat /\ data \in Seq(Byte)
        /\ Len(data) < Offset + Len(m)
    BY <1>1, <1>3, CallOutcome DEF ClientInv
  <1>6. Offset < Len(data) /\ Left = Rest(data, Offset) \o incoming
    BY <1>3 DEF ClientInv, Calling
  <1>7. m \in Seq(Byte) /\ after \in Seq(Byte) /\ Left = m \o after
    BY <1>5, NextMessage DEF ClientInv
  <1>8. Len(m) = Len(sent[Len(delivered) + 1])
    OBVIOUS
  <1> HIDE DEF m, after
  <1>9. loop # "t/09"
    <2> SUFFICES ASSUME loop = "t/09" PROVE FALSE
      OBVIOUS
    <2>1. incoming = << >>
      BY <1>3 DEF ClientInv, Loops
    <2>2. Rest(data, Offset) \in Seq(Byte) /\ Len(Rest(data, Offset)) = Len(data) - Offset
      BY <1>4, <1>5, <1>6, RestFacts
    <2>3. Left = Rest(data, Offset)
      BY <1>6, <2>1, <2>2, RestOfAll
    <2>4. Len(Left) = Len(m) + Len(after) /\ Len(after) \in Nat
      BY <1>7, Joint
    <2> QED BY <1>4, <1>5, <2>2, <2>3, <2>4
  <1>10. Offset = 0 /\ Len(data) < Len(m) /\ Left = data \o incoming
    <2>1. Offset = 0
      BY <1>4, <1>9
    <2>2. Rest(data, 0) = data
      BY <1>5, RestOfAll
    <2>3. Len(data) < Len(m)
      BY <1>5, <2>1
    <2> QED BY <1>6, <2>1, <2>2, <2>3
  <1>11. cs' = CS_HEADER /\ top' = 0 /\ DOMAIN stack' = Slot
    BY <1>1, <1>4 DEF TemplateInit, InitCtx
  <1>12. Left' = Left
    BY <1>2 DEF Left
  <1>13. Short(Len(buffer))'
    BY <1>1, <1>2, <1>5, <1>8, <1>10 DEF Short
  <1>14. Waiting'
    BY <1>1, <1>2, <1>9, <1>10, <1>11, <1>12, <1>13 DEF Waiting
  <1>15. ClientTypes' /\ RightSoFar' /\ Loops'
    BY <1>1, <1>2, <1>5, <1>11 DEF ClientInv, ClientTypes, RightSoFar, Shown, Loops
  <1> QED BY <1>1, <1>2, <1>3, <1>5, <1>14, <1>15
          DEF ClientInv, Between, Holding, Calling, Done, Ended

(* A whole message neither fails nor croaks.                                   *)
LEMMA ReturnsQuietly ==
  ASSUME ClientInv
  PROVE  ~ReturnCroak
  <1> SUFFICES ASSUME ReturnCroak PROVE FALSE
    OBVIOUS
  <1>1. pc \in {"failed", "croaked"}
    BY DEF ReturnCroak
  <1>2. step = "look" /\ pc # "idle"
    BY <1>1 DEF ClientInv, ClientTypes, Between, Holding, Ended
  <1> QED BY <1>1, <1>2, CallOutcome DEF ClientInv

(* The program takes the data that execute has found.                          *)
LEMMA OneMore ==
  ASSUME ClientTypes, RightSoFar, Len(delivered) < Len(sent),
         TemplateData = Sense(sent[Len(delivered) + 1]),
         delivered' = Append(delivered, TemplateData), UNCHANGED sent
  PROVE  /\ RightSoFar'
         /\ Left' = BytesFrom(sent, Len(delivered) + 2)
  <1> DEFINE n == Len(delivered)
  <1>1. /\ n \in Nat /\ Len(sent) \in Nat /\ delivered \in Seq(Shown)
        /\ DOMAIN sent = 1 .. Len(sent)
        /\ \A i \in DOMAIN delivered : delivered[i] = Sense(sent[i])
    <2>1. sent \in Seq(Seq(Byte))
      BY StreamsAssumption DEF ClientTypes
    <2> QED BY <2>1 DEF RightSoFar
  <1>2. TemplateData \in Shown
    BY <1>1 DEF Shown
  <1>3. /\ delivered' \in Seq(Shown) /\ Len(delivered') = n + 1
        /\ DOMAIN delivered' = 1 .. n + 1 /\ delivered'[n + 1] = TemplateData
        /\ \A i \in 1 .. n : delivered'[i] = delivered[i]
    BY <1>1, <1>2
  <1>4. n + 1 <= Len(sent)
    BY <1>1
  <1>5. \A i \in DOMAIN delivered' : delivered'[i] = Sense(sent[i])
    <2> TAKE i \in DOMAIN delivered'
    <2>1. CASE i = n + 1
      BY <1>3, <2>1
    <2>2. CASE i # n + 1
      <3>1. i \in 1 .. n /\ i \in DOMAIN delivered
        BY <1>1, <1>3, <2>2
      <3> QED BY <1>1, <1>3, <3>1
    <2> QED BY <2>1, <2>2
  <1>6. Shown' = Shown
    BY DEF Shown
  <1>7. RightSoFar'
    BY <1>3, <1>4, <1>5, <1>6 DEF RightSoFar
  <1>8. (n + 1) + 1 = n + 2
    BY <1>1
  <1>9. Left' = BytesFrom(sent, Len(delivered) + 2)
    BY <1>3, <1>8 DEF Left
  <1> QED BY <1>7, <1>9

(* After reset the unpacker is as new but for what it says of the last call.   *)
LEMMA ResetClears ==
  ASSUME Reset, DOMAIN stack = Slot
  PROVE  /\ pc = "idle" /\ buffer' = << >> /\ UNCHANGED <<pc, utf8, alive>>
         /\ cs' = CS_HEADER /\ top' = 0 /\ DOMAIN stack' = Slot
  BY DEF Reset, Idle, TemplateInit, InitCtx

(* t/09 goes on at the offset.                                                 *)
LEMMA TakeAtOffsetKeeps ==
  ASSUME ClientInv, TakeAtOffset
  PROVE  ClientInv'
  <1>1. /\ step = "look" /\ pc = "idle" /\ loop = "t/09"
        /\ delivered' = Append(delivered, TemplateData)
        /\ Reset /\ nread' = ret
        /\ step' = IF ret < Len(piece) THEN "execute" ELSE "end"
        /\ UNCHANGED <<sent, incoming, loop, piece>>
    BY DEF TakeAtOffset, CameBack, Idle, Data
  <1>2. /\ piece \in Seq(Byte) /\ incoming \in Seq(Byte) /\ DOMAIN stack = Slot
        /\ Len(piece) \in Nat
    BY DEF ClientInv, ClientTypes
  <1>3. /\ buffer' = << >> /\ UNCHANGED <<pc, utf8, alive>>
        /\ cs' = CS_HEADER /\ top' = 0 /\ DOMAIN stack' = Slot
    BY <1>1, <1>2, ResetClears
  <1>4. Len(delivered) < Len(sent) /\ Found
    BY <1>1 DEF ClientInv, Done, Waiting
  <1> DEFINE tail == Rest(piece, ret)
  <1>5. /\ ret \in Nat /\ ret <= Len(piece)
        /\ BytesFrom(sent, Len(delivered) + 2) = tail \o incoming
    BY <1>1, <1>4 DEF Found
  <1>6. RightSoFar' /\ Left' = tail \o incoming
    BY <1>1, <1>4, <1>5, OneMore DEF ClientInv, Found
  <1>7. tail \in Seq(Byte)
    BY <1>2, <1>5, RestFacts
  <1>8. tail = << >> \/ ret < Len(piece)
    <2>1. CASE ret = Len(piece)
      BY <1>2, <2>1, RestOfAll
    <2> QED BY <1>2, <1>5, <2>1
  <1>9. << >> \o tail = tail /\ << >> \o << >> = << >>
    BY <1>7, RestOfAll
  <1>10. ClientTypes' /\ Loops'
    BY <1>1, <1>2, <1>3, <1>5 DEF ClientInv, ClientTypes, Loops
  <1>11. Between'
    <2> SUFFICES ASSUME step' = "execute" PROVE Between'
      BY <1>1 DEF Between
    <2>1. NextBytes' = tail /\ Offset' = ret
      BY <1>1 DEF NextBytes, Offset, Rest
    <2> HIDE DEF tail
    <2>2. Left' = (buffer' \o NextBytes') \o incoming'
      BY <1>1, <1>3, <1>6, <1>9, <2>1
    <2>3. Offset' < Len(piece')
      BY <1>1, <2>1
    <2> QED BY <1>1, <1>3, <2>2, <2>3 DEF Between
  <1>12. Ended'
    <2> SUFFICES ASSUME step' = "end" PROVE Ended'
      BY DEF Ended
    <2>1. tail = << >>
      BY <1>1, <1>8
    <2> HIDE DEF tail
    <2> QED BY <1>1, <1>3, <1>6, <2>1 DEF Ended
  <1>13. step' # "look" /\ step' # "read"
    BY <1>1
  <1> QED BY <1>6, <1>10, <1>11, <1>12, <1>13 DEF ClientInv, Holding, Calling, Done

(* t/10 reads on.                                                              *)
LEMMA ReadOnKeeps ==
  ASSUME ClientInv, ReadOn
  PROVE  ClientInv'
  <1>1. /\ step = "look" /\ pc = "idle" /\ loop = "t/10" /\ nread' = ret /\ step' = "read"
        /\ UNCHANGED <<sent, incoming, loop, piece, delivered>>
        /\ UNCHANGED <<pc, cs, top, stack, obj, utf8, alive, finished, buffer>>
    BY DEF ReadOn, CameBack, Idle, vars, tvars, avars
  <1>2. buffer \in Seq(Byte)
    BY DEF ClientInv, ClientTypes
  <1>3. delivered = << >> /\ Len(delivered) + 1 = 1
    <2>1. Len(sent) = 1 /\ Len(delivered) < Len(sent) /\ delivered \in Seq(Shown)
      BY <1>1 DEF ClientInv, Loops, Done, RightSoFar
    <2> QED BY <2>1
  <1>4. ret \in Nat
    BY <1>1 DEF ClientInv, Done, Found, Waiting
  <1>5. ClientTypes' /\ RightSoFar' /\ Loops'
    BY <1>1, <1>3, <1>4 DEF ClientInv, ClientTypes, RightSoFar, Shown, Loops
  <1>6. Left' = Left /\ TemplateData' = TemplateData
    BY <1>1 DEF Left, TemplateData
  <1>7. Between'
    <2> SUFFICES ASSUME ~finished PROVE Between'
      BY <1>1 DEF Between
    <2>1. Waiting
      BY <1>1 DEF ClientInv, Done
    <2>2. NextBytes' = << >> /\ buffer \o << >> = buffer
      BY <1>1, <1>2, RestOfAll DEF NextBytes
    <2>3. Short(Len(buffer))'
      BY <1>1, <2>1 DEF Waiting, Short
    <2> QED BY <1>1, <1>6, <2>1, <2>2, <2>3 DEF Between, Waiting
  <1>8. Holding'
    <2> SUFFICES ASSUME finished PROVE Holding'
      BY <1>1 DEF Holding
    <2>1. Found
      BY <1>1 DEF ClientInv, Done
    <2>2. Sense(sent[1])' = Sense(sent[1])
      BY <1>1
    <2> QED BY <1>1, <1>3, <1>6, <2>1, <2>2 DEF Found, Holding
  <1> QED BY <1>1, <1>5, <1>7, <1>8 DEF ClientInv, Calling, Done, Ended

(* The file ends, and t/10 takes its data: whoever has come to the end of all  *)
(* bytes has the message.                                                      *)
LEMMA EndOfFileKeeps ==
  ASSUME ClientInv, EndOfFile
  PROVE  ClientInv'
  <1>1. /\ step = "read" /\ incoming = << >> /\ step' = "end"
        /\ delivered' = Append(delivered, TemplateData)
        /\ UNCHANGED <<sent, incoming, loop, piece, nread>>
        /\ UNCHANGED <<pc, cs, top, stack, utf8, alive, finished, buffer>>
    BY DEF EndOfFile, Data, vars, tvars, avars
  <1>2. /\ Len(delivered) = 0 /\ Len(sent) \in Nat /\ Len(sent) > 0
        /\ sent \in Seq(Seq(Byte)) /\ buffer \in Seq(Byte)
    BY <1>1, StreamsAssumption DEF ClientInv, ClientTypes, Loops
  <1>3. finished
    <2> SUFFICES ASSUME ~finished PROVE FALSE
      OBVIOUS
    <2> DEFINE m == sent[Len(delivered) + 1]
               after == BytesFrom(sent, Len(delivered) + 2)
    <2>1. m \in Seq(Byte) /\ Sendable(m) /\ after \in Seq(Byte) /\ Left = m \o after
      BY <1>2, NextMessage DEF ClientInv
    <2>2. Left = buffer /\ (buffer # << >> => Len(buffer) < Len(m))
      <3>1. NextBytes = << >> /\ buffer \o << >> = buffer
        BY <1>1, <1>2, RestOfAll DEF NextBytes
      <3> QED BY <1>1, <3>1 DEF ClientInv, Between, Short
    <2> HIDE DEF m, after
    <2>3. Len(Left) = Len(m) + Len(after) /\ Len(m) \in Nat /\ Len(after) \in Nat
      BY <2>1, Joint
    <2>4. Len(m) # 0
      <3> SUFFICES ASSUME Len(m) = 0 PROVE FALSE
        OBVIOUS
      <3> DEFINE r == Unpack(m, FALSE)[<<0, 0, 1>>]
      <3>1. r.status = "ok"
        BY <2>1 DEF Sendable, Decode
      <3>2. 0 >= Len(m)
        OBVIOUS
      <3>3. r = Died("insufficient", 0, 0)
        BY ONLY <2>1, <3>2, FirstCallDies
      <3> HIDE DEF r
      <3> QED BY <3>1, <3>3 DEF Died
    <2>5. CASE buffer = << >>
      <3>1. Len(Left) = 0
        BY <2>2, <2>5
      <3> QED BY <2>3, <2>4, <3>1
    <2>6. CASE buffer # << >>
      BY <1>2, <2>2, <2>3, <2>6
    <2> QED BY <2>5, <2>6
  <1>4. /\ pc = "idle" /\ loop = "t/10" /\ buffer = << >>
        /\ TemplateData = Sense(sent[1]) /\ nread = Len(sent[1])
    BY <1>1, <1>3 DEF ClientInv, Holding
  <1>5. /\ RightSoFar' /\ Left' = BytesFrom(sent, Len(delivered) + 2)
    <2>1. Len(delivered) < Len(sent) /\ TemplateData = Sense(sent[Len(delivered) + 1])
      BY <1>2, <1>4
    <2> QED BY <1>1, <2>1, OneMore DEF ClientInv
  <1>6. BytesFrom(sent, Len(delivered) + 2) = << >>
    <2>1. Len(sent) = 1
      BY <1>4 DEF ClientInv, Loops
    <2>2. 2 \in Nat \ {0} /\ 2 > Len(sent) /\ Len(delivered) + 2 = 2
      BY <1>2, <2>1
    <2>3. BytesFrom(sent, 2) = << >>
      BY <1>2, <2>2, BytesAre
    <2> QED BY <2>2, <2>3
  <1>7. << >> \o << >> = << >>
    OBVIOUS
  <1>8. Ended'
    BY <1>1, <1>4, <1>5, <1>6, <1>7 DEF Ended
  <1>9. ClientTypes' /\ Loops'
    BY <1>1, <1>4 DEF ClientInv, ClientTypes, Loops
  <1> QED BY <1>1, <1>5, <1>8, <1>9 DEF ClientInv, Between, Holding, Calling, Done

(* t/11 cuts off what is used.                                                 *)
LEMMA CutOffKeeps ==
  ASSUME ClientInv, CutOff
  PROVE  ClientInv'
  <1>1. /\ step = "look" /\ pc = "idle" /\ loop = "t/11" /\ finished
        /\ delivered' = Append(delivered, TemplateData)
        /\ Reset /\ nread' = 0 /\ piece' = Rest(piece, ret)
        /\ step' = IF piece' = << >> THEN "end" ELSE "execute"
        /\ UNCHANGED <<sent, incoming, loop>>
    BY DEF CutOff, CameBack, Idle, is_finished, Data, Rest
  <1>2. piece \in Seq(Byte) /\ incoming \in Seq(Byte) /\ DOMAIN stack = Slot
    BY DEF ClientInv, ClientTypes
  <1>3. /\ buffer' = << >> /\ UNCHANGED <<pc, utf8, alive>>
        /\ cs' = CS_HEADER /\ top' = 0 /\ DOMAIN stack' = Slot
    BY <1>1, <1>2, ResetClears
  <1>4. Len(delivered) < Len(sent) /\ Found
    BY <1>1 DEF ClientInv, Done
  <1>5. /\ ret \in Nat /\ ret <= Len(piece)
        /\ BytesFrom(sent, Len(delivered) + 2) = piece' \o incoming
    BY <1>1, <1>4 DEF Found
  <1>6. RightSoFar' /\ Left' = piece' \o incoming
    BY <1>1, <1>4, <1>5, OneMore DEF ClientInv, Found
  <1>7. piece' \in Seq(Byte)
    BY <1>1, <1>2, <1>5, RestFacts
  <1>8. << >> \o piece' = piece' /\ Rest(piece', 0) = piece' /\ << >> \o << >> = << >>
    BY <1>7, RestOfAll
  <1>9. ClientTypes' /\ Loops'
    BY <1>1, <1>2, <1>3, <1>7 DEF ClientInv, ClientTypes, Loops
  <1>10. Between'
    <2> SUFFICES ASSUME step' = "execute" PROVE Between'
      BY <1>1 DEF Between
    <2>1. Offset' = 0
      BY <1>1 DEF Offset
    <2>2. NextBytes' = Rest(piece', 0)
      BY <2>1 DEF NextBytes, Rest
    <2>3. Left' = (buffer' \o NextBytes') \o incoming'
      BY <1>1, <1>3, <1>6, <1>8, <2>2
    <2>4. Offset' < Len(piece')
      BY <1>1, <1>7, <2>1
    <2> QED BY <1>1, <1>3, <2>3, <2>4 DEF Between
  <1>11. Ended'
    BY <1>1, <1>3, <1>6 DEF Ended
  <1>12. step' # "look" /\ step' # "read"
    BY <1>1
  <1> QED BY <1>6, <1>9, <1>10, <1>11, <1>12 DEF ClientInv, Holding, Calling, Done

(* t/11 leaves its loop.                                                       *)
LEMMA LeaveKeeps ==
  ASSUME ClientInv, Leave
  PROVE  ClientInv'
  <1>1. /\ step = "look" /\ pc = "idle" /\ loop = "t/11" /\ ~finished
        /\ nread' = ret /\ step' = "end"
        /\ UNCHANGED <<sent, incoming, loop, piece, delivered>>
        /\ UNCHANGED <<pc, stack, utf8, alive, buffer>>
    BY DEF Leave, CameBack, Idle, is_finished, vars, tvars, avars
  <1>2. ret = 0 /\ Left = buffer \o incoming
    BY <1>1 DEF ClientInv, Done, Waiting
  <1>3. ClientTypes' /\ RightSoFar' /\ Loops'
    BY <1>1, <1>2 DEF ClientInv, ClientTypes, RightSoFar, Shown, Loops
  <1>4. Ended'
    BY <1>1, <1>2 DEF Ended, Left
  <1> QED BY <1>1, <1>3, <1>4 DEF ClientInv, Between, Holding, Calling, Done

LEMMA ClientStep == ClientInv /\ [ClientNext]_allvars => ClientInv'
  <1> SUFFICES ASSUME ClientInv, [ClientNext]_allvars PROVE ClientInv'
    OBVIOUS
  <1>1. CASE Read
    BY <1>1, ReadKeeps
  <1>2. CASE Call
    BY <1>2, CallKeeps
  <1>3. CASE TakeAtOffset
    BY <1>3, TakeAtOffsetKeeps
  <1>4. CASE ReadOn
    BY <1>4, ReadOnKeeps
  <1>5. CASE EndOfFile
    BY <1>5, EndOfFileKeeps
  <1>6. CASE CutOff
    BY <1>6, CutOffKeeps
  <1>7. CASE Leave
    BY <1>7, LeaveKeeps
  <1>8. CASE Run /\ UNCHANGED clientvars
    BY <1>8, RunKeeps
  <1>9. CASE Return /\ UNCHANGED clientvars
    BY <1>9, ReturnFinishedKeeps, ReturnUnfinishedKeeps, ReturnsQuietly DEF Return
  <1>10. CASE UNCHANGED allvars
    <2>1. UNCHANGED <<data, p, top, pc, stack, utf8, cs, trail, obj>>
      BY <1>10 DEF allvars, vars, tvars
    <2>2. UNCHANGED <<sent, incoming, loop, step, piece, nread, delivered,
                      buffer, alive, finished, ret>>
      BY <1>10 DEF allvars, vars, avars, clientvars
    <2>3. ClientTypes' /\ RightSoFar' /\ Loops'
      BY <2>1, <2>2 DEF ClientInv, ClientTypes, RightSoFar, Shown, Loops
    <2>4. Left' = Left /\ Offset' = Offset /\ NextBytes' = NextBytes /\ TemplateData' = TemplateData
      BY <2>1, <2>2 DEF Left, Offset, NextBytes, TemplateData
    <2>5. Between' /\ Holding' /\ Ended'
      BY <2>1, <2>2, <2>4 DEF ClientInv, Between, Holding, Ended, Short
    <2>6. Done'
      BY <2>1, <2>2, <2>4 DEF ClientInv, Done, Found, Waiting, Short
    <2>7. Calling'
      <3> SUFFICES ASSUME step = "look", pc # "idle" PROVE Calling'
        BY <2>1, <2>2 DEF Calling
      <3>1. PICK V, w : w = V[<<Offset, 0, 1>>] /\ Agrees(V, w)
        BY DEF ClientInv, Calling
      <3>2. Agrees(V, w)'
        BY <2>1, <3>1, SameAgrees
      <3>3. \E W, v : v = W[<<Offset', 0, 1>>] /\ Agrees(W, v)'
        BY <2>4, <3>1, <3>2
      <3> QED BY <2>1, <2>2, <2>4, <3>3 DEF ClientInv, Calling
    <2> QED BY <2>3, <2>5, <2>6, <2>7 DEF ClientInv
  <1> QED BY <1>1, <1>2, <1>3, <1>4, <1>5, <1>6, <1>7, <1>8, <1>9, <1>10 DEF ClientNext

LEMMA ClientBegins == ClientInit => ClientInv
  <1> SUFFICES ASSUME ClientInit PROVE ClientInv
    OBVIOUS
  <1>1. /\ sent \in Streams /\ sent # << >> /\ incoming = BytesFrom(sent, 1) /\ step = "read"
        /\ loop \in {"t/09", "t/10", "t/11"} /\ (loop = "t/10" => Len(sent) = 1)
        /\ piece = << >> /\ nread = 0 /\ delivered = << >>
        /\ utf8 = FALSE /\ alive = TRUE /\ buffer = << >> /\ pc = "idle" /\ finished = FALSE
        /\ cs = CS_HEADER /\ top = 0 /\ DOMAIN stack = Slot
    BY DEF ClientInit, SInit, TInit, InitCtx
  <1>2. sent \in Seq(Seq(Byte)) /\ Len(sent) \in Nat
    BY <1>1, StreamsAssumption
  <1>3. incoming \in Seq(Byte)
    <2>1. 1 \in Nat \ {0}
      OBVIOUS
    <2>2. BytesFrom(sent, 1) \in Seq(Byte)
      BY <1>2, <2>1, BytesAre
    <2> QED BY <1>1, <2>2
  <1>4. << >> \in Seq(Byte) /\ Len(<< >>) = 0 /\ << >> \in Seq(Shown) /\ DOMAIN << >> = {}
    OBVIOUS
  <1>5. Left = incoming
    BY <1>1, <1>4 DEF Left
  <1>6. << >> \o << >> = << >> /\ << >> \o incoming = incoming
    BY <1>3, <1>4, RestOfAll
  <1>7. ClientTypes /\ Loops
    BY <1>1, <1>3, <1>4 DEF ClientTypes, Loops
  <1>8. RightSoFar
    BY <1>1, <1>2, <1>4 DEF RightSoFar
  <1>9. Between
    <2>1. NextBytes = << >>
      BY <1>1 DEF NextBytes
    <2> QED BY <1>1, <1>5, <1>6, <2>1 DEF Between
  <1> QED BY <1>1, <1>7, <1>8, <1>9 DEF ClientInv, Holding, Calling, Done, Ended

LEMMA ClientAlways == ClientSpec => []ClientInv
  BY ClientBegins, ClientStep, PTL DEF ClientSpec

(* Whatever the messages are and wherever the pieces are cut, the loops of     *)
(* t/09_stddata.t, t/10_splitted_bytes.t and t/11_stream_unpack3.t get their   *)
(* values, each once and in order.                                             *)
THEOREM ClientGetsEachOnce == ClientSpec => []EachOnceInOrder
  <1>1. ClientInv => EachOnceInOrder
    BY DEF ClientInv, ClientTypes, RightSoFar, EachOnceInOrder, Sense
  <1> QED BY <1>1, ClientAlways, PTL

(* Between two calls no byte of theirs is lost or there twice, and t/10 ends   *)
(* with the length of its message.                                             *)
THEOREM ClientLosesNothing == ClientSpec => []NoByteLost
  <1>1. ClientInv => NoByteLost
    <2> SUFFICES ASSUME ClientInv PROVE NoByteLost
      OBVIOUS
    <2>1. /\ buffer \in Seq(Byte) /\ incoming \in Seq(Byte) /\ piece \in Seq(Byte)
          /\ step \in {"read", "execute", "look", "end"}
      BY DEF ClientInv, ClientTypes
    <2>2. Len(delivered) \in Nat /\ Len(delivered) + 0 = Len(delivered)
      BY DEF ClientInv, RightSoFar
    <2>3. CASE step = "execute"
      <3>1. Left = (buffer \o NextBytes) \o incoming /\ Offset < Len(piece) /\ Offset \in Nat
        BY <2>3, OffsetIs DEF ClientInv, Between
      <3>2. NextBytes = Rest(piece, Offset)
        BY <2>3 DEF NextBytes, Rest
      <3>3. Rest(piece, Offset) \in Seq(Byte)
        BY <2>1, <3>1, RestFacts
      <3>4. Left = buffer \o (NextBytes \o incoming)
        BY <2>1, <3>1, <3>2, <3>3, Associative
      <3>5. buffer \o (NextBytes \o incoming) = (buffer \o NextBytes) \o incoming
        BY <3>1, <3>4
      <3>6. Received = Len(delivered)
        BY <2>2, <2>3 DEF Received
      <3> QED BY <2>3, <3>1, <3>5, <3>6 DEF NoByteLost, Left
    <2>4. CASE step = "read" /\ ~finished
      <3>1. Left = (buffer \o NextBytes) \o incoming
        BY <2>4 DEF ClientInv, Between
      <3>2. Received = Len(delivered)
        BY <2>2, <2>4 DEF Received, is_finished
      <3>3. NextBytes = << >> /\ buffer \o << >> = buffer /\ << >> \o incoming = incoming
        BY <2>1, <2>4, RestOfAll DEF NextBytes
      <3> QED BY <2>4, <3>1, <3>2, <3>3 DEF NoByteLost, Left
    <2>5. CASE step = "read" /\ finished
      <3>1. loop = "t/10" /\ buffer = << >> /\ incoming = << >> /\ Len(sent) = 1 /\ Len(delivered) = 0
        BY <2>5 DEF ClientInv, Holding, Loops
      <3>2. Received = 1
        BY <2>5, <3>1 DEF Received, is_finished
      <3>3. BytesFrom(sent, 2) = << >>
        <4>1. sent \in Seq(Seq(Byte)) /\ 2 \in Nat \ {0} /\ 2 > Len(sent)
          BY <3>1, StreamsAssumption DEF ClientInv, ClientTypes
        <4> QED BY <4>1, BytesAre
      <3>4. NextBytes = << >> /\ << >> \o << >> = << >>
        BY <2>5 DEF NextBytes
      <3>5. Received + 1 = 2
        BY <3>2
      <3> QED BY <2>5, <3>1, <3>3, <3>4, <3>5 DEF NoByteLost
    <2>6. CASE step = "look"
      BY <2>6 DEF NoByteLost
    <2>7. CASE step = "end"
      <3>1. Left = buffer \o incoming /\ (loop = "t/10" => nread = Len(sent[1]))
        BY <2>7 DEF ClientInv, Ended
      <3>2. Received = Len(delivered)
        BY <2>2, <2>7 DEF Received
      <3>3. NextBytes = << >> /\ buffer \o << >> = buffer /\ << >> \o incoming = incoming
        BY <2>1, <2>7, RestOfAll DEF NextBytes
      <3> QED BY <2>7, <3>1, <3>2, <3>3 DEF NoByteLost, Left
    <2> QED BY <2>1, <2>3, <2>4, <2>5, <2>6, <2>7
  <1> QED BY <1>1, ClientAlways, PTL
===============================================================================
