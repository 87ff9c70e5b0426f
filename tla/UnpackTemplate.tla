----------------------------- MODULE UnpackTemplate -----------------------------
(******************************************************************************)
(* template_execute of include/msgpack/unpack_template.h, the parser that      *)
(* every XS unpacking call runs, one action per branch of its switch, with the *)
(* callbacks of xs-src/unpack.c it makes.  A user of this module starts it     *)
(* with Enter and goes on from pc when it has stopped; pc is                   *)
(*   "idle"       not running                                                  *)
(*   "header"     at switch(cs) with cs = MSGPACK_CS_HEADER                    *)
(*   "trail"      at the default label: waiting for trail bytes                *)
(*   "push"       at _push, with a complete value in obj                       *)
(*   "finish", "out", "failed"   returned 1, 0, -1                             *)
(*   "croaked"    left by the croak of the EXT callback, a longjmp             *)
(*   "undefined"  a read outside data, where C gives no meaning                *)
(******************************************************************************)
EXTENDS PerlValue

CONSTANT StackSize      \* MSGPACK_EMBED_STACK_SIZE, 32 in the code
ASSUME StackSizeAssumption == StackSize \in Nat \ {0}

VARIABLES
  data,           \* the bytes passed to template_execute; pe is their end
  p,              \* offset of the byte at the C pointer p
  cs, trail, top, \* the locals, loaded from ctx on entry
  obj,            \* the value about to be pushed, NULL when there is none
  pc,
  ctx,            \* cs, trail and top as they are stored in *ctx
  stack,          \* ctx->stack
  utf8,           \* ctx->user.utf8
  live            \* SVs created by the callbacks and not released

tvars == <<data, p, cs, trail, top, obj, pc, ctx, stack, utf8, live>>

-------------------------------------------------------------------------------
(* States of the parser and of a container.                                    *)
CS_HEADER == 0
CS_BIN == 4 .. 6
CS_EXT == 7 .. 9
CS_FLOAT == 10 .. 11
CS_UINT == 12 .. 15
CS_INT == 16 .. 19
CS_STR == 25 .. 27
CS_ARRAY == 28 .. 29
CS_MAP == 30 .. 31
ACS_STR_VALUE == 32
ACS_BIN_VALUE == 33
ACS_EXT_VALUE == 34

CT_ARRAY_ITEM == "array item"
CT_MAP_KEY == "map key"
CT_MAP_VALUE == "map value"

Frame(o, n, ct, k) == [obj |-> o, count |-> n, ct |-> ct, map_key |-> k]
Slot == 0 .. StackSize - 1
InitCtx == [cs |-> CS_HEADER, trail |-> 0, top |-> 0]

-------------------------------------------------------------------------------
(* Header bytes: 0xc0 to 0xdf are 192 to 223.                                  *)
FixInt(b)    == b \in 0 .. 127 \cup 224 .. 255
FixMap(b)    == b \in 128 .. 143
FixArray(b)  == b \in 144 .. 159
FixStr(b)    == b \in 160 .. 191
Direct(b)    == b \in {192, 194, 195}
FixExt(b)    == b \in 212 .. 216
HasTrail(b)  == b \in (196 .. 211) \cup (217 .. 223)
Unassigned(b) == b = 193

ShiftLeft(x, k) ==
  CASE k = 0 -> x [] k = 1 -> 2 * x [] k = 2 -> 4 * x [] k = 3 -> 8 * x

HeaderTrail(b) ==       \* the trail argument of again_fixed_trail
  CASE b \in 196 .. 198 -> ShiftLeft(1, b % 4)
    [] b \in 199 .. 201 -> ShiftLeft(1, (b + 1) % 4)
    [] b \in 202 .. 211 -> ShiftLeft(1, b % 4)
    [] b \in 212 .. 215 -> ShiftLeft(1, b % 4) + 1
    [] b = 216          -> 16 + 1
    [] b \in 217 .. 219 -> ShiftLeft(1, (b % 4) - 1)
    [] b \in 220 .. 223 -> ShiftLeft(2, b % 2)

NEXT_CS(b) == b % 32

HeaderValue(b) ==
  CASE b < 128 -> IntValue(b)
    [] b > 223 -> IntValue(b - 256)
    [] b = 192 -> Undef
    [] b = 194 -> Bool(FALSE)
    [] b = 195 -> Bool(TRUE)

NumberValueUnsigned(n) ==       \* mutant: load an int8 unsigned
  CASE cs \in CS_FLOAT -> Float(n)
    [] cs \in CS_UINT \cup {16} -> IntValue(BE(n))
    [] cs \in CS_INT \ {16}  -> IntValue(SignedBE(n))

NumberValue(n) ==       \* n: the trail bytes
  CASE cs \in CS_FLOAT -> Float(n)
    [] cs \in CS_UINT  -> IntValue(BE(n))
    [] cs \in CS_INT   -> IntValue(SignedBE(n))

(* The length that follows a str, bin or ext header; that of an ext counts its *)
(* type byte, in 32 bits.                                                      *)
BodyLength(n) ==
  IF cs \notin CS_EXT THEN BE(n)
  ELSE IF n = <<255, 255, 255, 255>> THEN 0 ELSE BE(n) + 1

BodyState ==
  CASE cs \in CS_STR -> ACS_STR_VALUE
    [] cs \in CS_BIN -> ACS_BIN_VALUE
    [] cs \in CS_EXT -> ACS_EXT_VALUE

BodyValue(acs, n) ==    \* the _str and _bin callbacks
  Str(n, acs = ACS_STR_VALUE \/ utf8)

-------------------------------------------------------------------------------
Current == data[p + 1]                                  \* *p
Operand == SubSeq(data, p + 1, p + trail)               \* the trail bytes at n
LastTrailByte == p + trail - 1                          \* p += trail - 1

(* Entry with *off = from (93-107, 177).                                       *)
Enter(bytes, from) ==
  /\ data' = bytes
  /\ p' = from
  /\ pc' = IF from = Len(bytes) THEN "out"
           ELSE IF cs = CS_HEADER THEN "header" ELSE "trail"
  /\ UNCHANGED <<cs, trail, top, obj, ctx, stack, utf8, live>>

(* Mutant: _header_again does not compare p with pe.                           *)
HeaderAgainUnchecked(q, t) ==
  cs' = CS_HEADER /\ p' = q + 1 /\ top' = t /\ pc' = "header" /\ UNCHANGED ctx

(* _header_again, at q, with depth t: next byte or _out.                       *)
HeaderAgain(q, t) ==
  /\ cs' = CS_HEADER
  /\ p' = q + 1
  /\ top' = t
  /\ IF q + 1 = Len(data)
     THEN pc' = "out" /\ ctx' = [cs |-> CS_HEADER, trail |-> trail, top |-> t]
     ELSE pc' = "header" /\ UNCHANGED ctx

(* _finish, _failed and _out, through _end.                                    *)
Stop(how, q) ==
  /\ pc' = how
  /\ p' = q
  /\ ctx' = [cs |-> cs, trail |-> trail, top |-> top]
  /\ UNCHANGED <<cs, trail, top>>

(* A callback made the value v; goto _push.                                    *)
Push(v, q) ==
  /\ obj' = v
  /\ live' = live + 1
  /\ p' = q
  /\ pc' = "push"

(* The stack check of start_container; mutant: it comes one frame late.        *)
StackFullLate == top > StackSize
StackFull == top >= StackSize

(* start_container for n items, called with p = q.                             *)
StartContainer(container, n, ct, q) ==
  /\ UNCHANGED <<data, trail, utf8>>
  /\ \/ /\ StackFull
        /\ Stop("failed", q)
        /\ UNCHANGED <<obj, stack, live>>
     \/ /\ ~StackFull
        /\ n = 0
        /\ stack' = [stack EXCEPT ![top] =
                       Frame(container, @.count, @.ct, @.map_key)]
        /\ Push(container, q)
        /\ UNCHANGED <<cs, top, ctx>>
     \/ /\ ~StackFull
        /\ n > 0
        /\ stack' = [stack EXCEPT ![top] = Frame(container, n, ct, @.map_key)]
        /\ live' = live + 1
        /\ HeaderAgain(q, top + 1)
        /\ UNCHANGED obj

-------------------------------------------------------------------------------
(* case MSGPACK_CS_HEADER                                                      *)
HeaderScalar ==
  /\ pc = "header"
  /\ FixInt(Current) \/ Direct(Current)
  /\ Push(HeaderValue(Current), p)
  /\ UNCHANGED <<data, cs, trail, top, ctx, stack, utf8>>

HeaderEmptyStr ==
  /\ pc = "header"
  /\ FixStr(Current) /\ Current % 32 = 0
  /\ trail' = 0
  /\ Push(Str(<< >>, TRUE), p)
  /\ UNCHANGED <<data, cs, top, ctx, stack, utf8>>

HeaderWithTrail ==
  /\ pc = "header"
  /\ \/ /\ HasTrail(Current)
        /\ cs' = NEXT_CS(Current)
        /\ trail' = HeaderTrail(Current)
     \/ /\ FixExt(Current)
        /\ cs' = ACS_EXT_VALUE
        /\ trail' = HeaderTrail(Current)
     \/ /\ FixStr(Current) /\ Current % 32 > 0
        /\ cs' = ACS_STR_VALUE
        /\ trail' = Current % 32
  /\ p' = p + 1
  /\ pc' = "trail"
  /\ UNCHANGED <<data, top, obj, ctx, stack, utf8, live>>

HeaderContainer ==
  /\ pc = "header"
  /\ \/ FixArray(Current)
        /\ StartContainer(EmptyArray, Current % 16, CT_ARRAY_ITEM, p)
     \/ FixMap(Current)
        /\ StartContainer(EmptyHash, Current % 16, CT_MAP_KEY, p)

HeaderUnassigned ==
  /\ pc = "header"
  /\ Unassigned(Current)
  /\ Stop("failed", p)
  /\ UNCHANGED <<data, obj, stack, utf8, live>>

-------------------------------------------------------------------------------
(* The default label.  With trail = 0 the code adds the unsigned 0 - 1 to p.   *)
TrailReady == pc = "trail" /\ trail > 0 /\ Len(data) - p >= trail

TrailShortWaits ==      \* mutant: wait for the bytes inside the call
  pc = "trail" /\ Len(data) - p < trail /\ UNCHANGED tvars

TrailShort ==
  /\ pc = "trail"
  /\ Len(data) - p < trail
  /\ Stop("out", p)
  /\ UNCHANGED <<data, obj, stack, utf8, live>>

TrailStale ==
  /\ pc = "trail"
  /\ trail = 0
  /\ pc' = "undefined"
  /\ UNCHANGED <<data, p, cs, trail, top, obj, ctx, stack, utf8, live>>

Number ==
  /\ TrailReady
  /\ cs \in CS_FLOAT \cup CS_UINT \cup CS_INT
  /\ Push(NumberValue(Operand), LastTrailByte)
  /\ UNCHANGED <<data, cs, trail, top, ctx, stack, utf8>>

Length ==
  /\ TrailReady
  /\ cs \in CS_STR \cup CS_BIN \cup CS_EXT
  /\ BodyLength(Operand) > 0
  /\ trail' = BodyLength(Operand)
  /\ cs' = BodyState
  /\ p' = LastTrailByte + 1
  /\ UNCHANGED <<data, top, obj, pc, ctx, stack, utf8, live>>

EmptyBody ==
  /\ TrailReady
  /\ cs \in CS_STR \cup CS_BIN
  /\ BodyLength(Operand) = 0
  /\ trail' = 0
  /\ Push(BodyValue(BodyState, << >>), LastTrailByte)
  /\ UNCHANGED <<data, cs, top, ctx, stack, utf8>>

Body ==
  /\ TrailReady
  /\ cs \in {ACS_STR_VALUE, ACS_BIN_VALUE}
  /\ Push(BodyValue(cs, Operand), LastTrailByte)
  /\ UNCHANGED <<data, cs, trail, top, ctx, stack, utf8>>

(* The croak in template_callback_ext does not pass _end: *ctx keeps what it   *)
(* held on entry, the stack frames what this call wrote in them.               *)
ExtCroak ==
  /\ TrailReady
  /\ \/ cs = ACS_EXT_VALUE
     \/ cs \in CS_EXT /\ BodyLength(Operand) = 0
  /\ pc' = "croaked"
  /\ cs' = ctx.cs /\ trail' = ctx.trail /\ top' = ctx.top
  /\ UNCHANGED <<data, p, obj, ctx, stack, utf8, live>>

Container ==
  /\ TrailReady
  /\ \/ cs \in CS_ARRAY
        /\ StartContainer(EmptyArray, BE(Operand), CT_ARRAY_ITEM, LastTrailByte)
     \/ cs \in CS_MAP
        /\ StartContainer(EmptyHash, BE(Operand), CT_MAP_KEY, LastTrailByte)

-------------------------------------------------------------------------------
(* _push                                                                       *)
Parent == stack[top - 1]

(* --c->count == 0; mutant: c->count-- == 0.                                   *)
LastItemLate == Parent.count = 0
LastItem == Parent.count = 1

(* SVs that map_item releases: an older value of the key, in hv_store_ent, and *)
(* k, in SvREFCNT_dec; mutant: not k.                                          *)
ReleasedKeepingKey(c, k) == Replaced(c, k)
Released(c, k) == Replaced(c, k) + k.svs

PushRootUnstored ==     \* mutant: _finish without stack[0].obj = obj
  /\ pc = "push" /\ top = 0
  /\ obj' = NULL
  /\ Stop("finish", p + 1)
  /\ UNCHANGED <<data, trail, stack, utf8, live>>

PushRoot ==
  /\ pc = "push" /\ top = 0
  /\ stack' = [stack EXCEPT ![0] = Frame(obj, @.count, @.ct, @.map_key)]
  /\ obj' = NULL
  /\ Stop("finish", p + 1)
  /\ UNCHANGED <<data, trail, utf8, live>>

(* An item or a pair went into the container, giving c: pop it when full.      *)
ItemStored(c, next_ct) ==
  /\ stack' = [stack EXCEPT ![top - 1] =
                 Frame(c, @.count - 1, next_ct, @.map_key)]
  /\ IF LastItem
     THEN /\ obj' = c
          /\ top' = top - 1
          /\ UNCHANGED <<p, cs, pc, ctx>>
     ELSE /\ obj' = NULL
          /\ HeaderAgain(p, top)
  /\ UNCHANGED <<data, trail, utf8>>

PushArrayItem ==
  /\ pc = "push" /\ top > 0
  /\ Parent.ct = CT_ARRAY_ITEM
  /\ ItemStored(ArrayItem(Parent.obj, obj), CT_ARRAY_ITEM)
  /\ UNCHANGED live

PushMapKey ==
  /\ pc = "push" /\ top > 0
  /\ Parent.ct = CT_MAP_KEY
  /\ stack' = [stack EXCEPT ![top - 1] = Frame(@.obj, @.count, CT_MAP_VALUE, obj)]
  /\ obj' = NULL
  /\ HeaderAgain(p, top)
  /\ UNCHANGED <<data, trail, utf8, live>>

PushMapValue ==
  /\ pc = "push" /\ top > 0
  /\ Parent.ct = CT_MAP_VALUE
  /\ LET k == Parent.map_key IN
       /\ ItemStored(MapItem(Parent.obj, k, obj),
                     IF LastItem THEN CT_MAP_VALUE ELSE CT_MAP_KEY)
       /\ live' = live - Released(Parent.obj, k)

ParseStep ==
  \/ HeaderScalar \/ HeaderEmptyStr \/ HeaderWithTrail \/ HeaderContainer
  \/ HeaderUnassigned
  \/ TrailShort \/ TrailStale \/ Number \/ Length \/ EmptyBody \/ Body
  \/ ExtCroak \/ Container
  \/ PushRoot \/ PushArrayItem \/ PushMapKey \/ PushMapValue

Parsing == pc \in {"header", "trail", "push"}

(* SVs that something still points to: the open containers and their pending   *)
(* keys, the value being pushed, the finished message.                         *)
FrameSvs(f) == f.obj.svs + (IF f.ct = CT_MAP_VALUE THEN f.map_key.svs ELSE 0)

SvsIn(frames, n) ==     \* in the lowest n of them
  LET T[i \in 0 .. n] == IF i = 0 THEN 0 ELSE T[i - 1] + FrameSvs(frames[i - 1])
  IN  T[n]

Held ==
  obj.svs + SvsIn(stack, top) +
    (IF top = 0 /\ pc # "push" THEN stack[0].obj.svs ELSE 0)

-------------------------------------------------------------------------------
(* Mutants: template_init leaves the root value, or the state, as it was.      *)
TemplateInitRootKept ==
  /\ cs' = InitCtx.cs /\ trail' = InitCtx.trail /\ top' = InitCtx.top
  /\ ctx' = InitCtx
  /\ UNCHANGED stack

TemplateInitStateKept ==
  /\ UNCHANGED cs /\ trail' = InitCtx.trail /\ top' = InitCtx.top
  /\ ctx' = [InitCtx EXCEPT !.cs = cs]
  /\ stack' = [stack EXCEPT ![0] = Frame(NULL, @.count, @.ct, @.map_key)]

(* template_init and template_data.  _init forgets stack[0].obj, releases      *)
(* nothing and leaves the other frames alone.                                  *)
TemplateInit ==
  /\ cs' = InitCtx.cs /\ trail' = InitCtx.trail /\ top' = InitCtx.top
  /\ ctx' = InitCtx
  /\ stack' = [stack EXCEPT ![0] = Frame(NULL, @.count, @.ct, @.map_key)]

TemplateData == stack[0].obj

(* A zeroed template_context after template_init (Newxz in xs_unpacker_new).   *)
TInit(arguments) ==
  /\ data \in arguments /\ p = 0 /\ obj = NULL /\ pc = "idle"
  /\ cs = InitCtx.cs /\ trail = InitCtx.trail /\ top = InitCtx.top
  /\ ctx = InitCtx
  /\ stack = [i \in Slot |-> Frame(NULL, 0, CT_ARRAY_ITEM, NULL)]
  /\ live = 0
===============================================================================
