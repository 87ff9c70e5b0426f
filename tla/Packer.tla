--------------------------------- MODULE Packer ---------------------------------
(******************************************************************************)
(* Data::MessagePack->pack in XS: xs_pack of xs-src/pack.c, with the recursion *)
(* of _msgpack_pack_sv and _msgpack_pack_rv over the data and the growth of    *)
(* the string that dmp_append_buf writes to.                                   *)
(******************************************************************************)
EXTENDS PackTemplate, PerlData

CONSTANTS
  Heaps,        \* the data the program may pack: each a sequence of arrays and
                \* hashes, of which the first is referred to by the argument
  Scalars,      \* what it may pack that is no reference to one of those
  Selves,       \* what it calls pack on: the class, or objects with properties
  Depths,       \* the $max_depth arguments
  InitSize,     \* INIT_SIZE, 32 in the code
  Roundings     \* by how much an allocation may exceed what was asked for

ASSUME HeapsAssumption ==
  \A h \in Heaps : h # << >> /\ h \in Seq(Objects(Len(h)))
ASSUME ScalarsAssumption == Scalars \subseteq SVs(0)
(* The class itself has no properties.                                         *)
TheClass == [on |-> "class", prefer_integer |-> "absent", canonical |-> "absent",
             utf8 |-> "absent"]

ASSUME SelvesAssumption ==
  LET Property == {"on", "off", "absent"} IN
  Selves \subseteq {TheClass} \cup [on : {"object"}, prefer_integer : Property,
                                   canonical : Property, utf8 : Property]
ASSUME DepthsAssumption == Depths \subseteq Int
ASSUME InitSizeAssumption == InitSize \in Nat
ASSUME RoundingsAssumption == Roundings \subseteq Nat /\ Roundings # {}

VARIABLES
  PreferInteger,        \* MY_CXT.prefer_int, which follows $PreferInteger
  call,         \* the arguments: heap, val, depth, self
  enc,          \* the settings of enc_t and the utf8 local
  out,          \* the bytes from SvPVX to cur
  room,         \* SvLEN: the bytes allocated
  end,          \* enc->end, as an offset
  pending,      \* bytes about to be appended, piece by piece
  work,         \* SVs to be packed by calls that are due, in order
  loops,        \* the loops over arrays and hashes that are running, outermost first
  result        \* "none", "running", "packed", or why pack croaked

vars == <<PreferInteger, call, enc, out, room, end, pending, work, loops, result>>

-------------------------------------------------------------------------------
(* A property of the object: "on", "off", or "absent" from its hash.           *)
(* enc.canonical is not initialised when the property is absent.               *)
Settings(self) ==
  [prefer_int : {IF self.prefer_integer = "absent" THEN PreferInteger
                                                   ELSE self.prefer_integer = "on"},
   canonical : IF self.canonical = "absent" THEN BOOLEAN ELSE {self.canonical = "on"},
   utf8 : {self.utf8 = "on"}]

(* xs_pack, up to _msgpack_pack_sv: newSV(INIT_SIZE) allocates one byte more,  *)
(* and SvEND of the empty string is its start.                                 *)
Call(c) ==
  /\ call' = c
  /\ enc' \in Settings(c.self)
  /\ \E extra \in Roundings : room' = InitSize + 1 + extra
  /\ out' = << >> /\ end' = 0
  /\ pending' = << >> /\ work' = <<c.val>> /\ loops' = << >>
  /\ result' = "running"
  /\ UNCHANGED PreferInteger

-------------------------------------------------------------------------------
(* dmp_append_buf                                                              *)
Larger(a, b) == IF a < b THEN b ELSE a

WantedNoSpare(len) == Len(out) + Larger(len, Len(out) \div 4)   \* mutant
Wanted(len) == Len(out) + Larger(len, Len(out) \div 4) + 1

(* sv_grow does nothing when the string is as large already.                   *)
sv_grow(wanted) ==
  IF wanted <= room THEN room' = room
  ELSE \E extra \in Roundings : room' = wanted + extra

AppendBuf(bytes) ==
  /\ IF Len(out) + Len(bytes) >= end
     THEN sv_grow(Wanted(Len(bytes))) /\ end' = room' - 1
     ELSE UNCHANGED <<room, end>>
  /\ out' = out \o bytes

AppendPending ==
  /\ result = "running" /\ pending # << >>
  /\ AppendBuf(Head(pending))
  /\ pending' = Tail(pending)
  /\ UNCHANGED <<PreferInteger, call, enc, work, loops, result>>

-------------------------------------------------------------------------------
(* try_int: whether the string is packed as a 32 bit integer, and which.       *)
Minus(t) == t # << >> /\ t[1] = 45
DigitsOf(t) == IF Minus(t) THEN Tail(t) ELSE t

IsInt(t) ==
  /\ AllDigits(DigitsOf(t)) /\ Len(DigitsOf(t)) <= 10
  /\ ~Exceeds(DigitsOf(t), IF Minus(t) THEN MinInt32Text ELSE MaxUint32Text)

StringInt(t) == Denoted(DigitsOf(t), IF Minus(t) THEN -1 ELSE 1)

String(s) ==
  IF enc.prefer_int /\ IsInt(s) THEN <<Integer(StringInt(s))>>
  ELSE <<IF enc.utf8 THEN StrHeader(Len(s)) ELSE BinHeader(Len(s)), s>>

-------------------------------------------------------------------------------
(* _msgpack_pack_sv of the next SV due: the cases of its if chain, and of that *)
(* of _msgpack_pack_rv.                                                        *)
Due == result = "running" /\ pending = << >> /\ work # << >>
SV == Head(work)
Depth == IF loops = << >> THEN call.depth ELSE Last(loops).depth

DepthExceededLate == Depth < 0                                  \* mutant
DepthExceeded == Depth <= 0

Croak(why) ==
  /\ result' = why
  /\ UNCHANGED <<PreferInteger, call, enc, out, room, end, pending, work, loops>>

TooDeep == Due /\ DepthExceeded /\ Croak("nesting")

Bytes(pieces) ==        \* the call for SV appends these and returns
  /\ pending' = pieces
  /\ work' = Tail(work)
  /\ UNCHANGED <<PreferInteger, call, enc, out, room, end, loops, result>>

PackScalar ==
  /\ Due /\ ~DepthExceeded
  /\ \/ "undef" \in DOMAIN SV /\ Bytes(<<Nil>>)
     \/ "iv" \in DOMAIN SV /\ Bytes(<<Integer(SV.iv)>>)
     \/ "nv" \in DOMAIN SV /\ Bytes(<<Double(SV.nv)>>)
     \/ IsString(SV) /\ Bytes(String(SV.pv))
     \/ "bool" \in DOMAIN SV /\ Bytes(<<IF SV.bool THEN True ELSE False>>)
     \/ SV = ScalarRef(<<49>>) /\ Bytes(<<True>>)
     \/ SV = ScalarRef(<<48>>) /\ Bytes(<<False>>)

PackUnsupported ==
  /\ Due /\ ~DepthExceeded
  /\ \/ "other" \in DOMAIN SV
     \/ "scalar" \in DOMAIN SV /\ SV.scalar \notin {<<48>>, <<49>>}
  /\ Croak("unsupported")

(* Mutant: the header of a hash counts keys and values.                        *)
HeaderCountingAll(o) ==
  IF IsArray(o) THEN ArrayHeader(Len(o.items)) ELSE MapHeader(2 * o.counted)

Header(o) == IF IsArray(o) THEN ArrayHeader(Len(o.items)) ELSE MapHeader(o.counted)

(* A reference: its depth is one less, and its items are packed with that.     *)
PackContainer ==
  /\ Due /\ ~DepthExceeded
  /\ IsRef(SV)
  /\ LET o == call.heap[SV.rv] IN
       /\ pending' = <<Header(o)>>
       /\ loops' = Append(loops, [of |-> SV.rv, left |-> DOMAIN Loop(o),
                                  depth |-> Depth - 1])
  /\ work' = Tail(work)
  /\ UNCHANGED <<PreferInteger, call, enc, out, room, end, result>>

-------------------------------------------------------------------------------
(* The innermost loop goes on with element i of its array or hash.             *)
Looping == result = "running" /\ pending = << >> /\ work = << >> /\ loops # << >>
Object == call.heap[Last(loops).of]
Left == Last(loops).left

Taken(i) == loops' = [loops EXCEPT ![Len(loops)].left = @ \ {i}]

NextItem ==
  /\ Looping /\ IsArray(Object)
  /\ \E i \in Left :
       /\ \A j \in Left : i <= j
       /\ Taken(i)
       /\ IF Object.items[i] = NoSV
          THEN pending' = <<Nil>> /\ UNCHANGED work
          ELSE work' = <<Object.items[i]>> /\ UNCHANGED pending
  /\ UNCHANGED <<PreferInteger, call, enc, out, room, end, result>>

KeyOf(i) == Object.pairs[i][1]

(* Mutant: the keys are never sorted.                                          *)
FirstUnsorted(i) == \A j \in Left : i <= j

(* Whether i comes first among the pairs left: in key order when canonical.    *)
First(i) ==
  \A j \in Left : IF enc.canonical
                  THEN ~Before(KeyOf(j), KeyOf(i))
                  ELSE i <= j

(* _msgpack_pack_he                                                            *)
NextPair ==
  /\ Looping /\ ~IsArray(Object)
  /\ \E i \in Left :
       /\ First(i)
       /\ Taken(i)
       /\ work' = <<Str(KeyOf(i), FALSE), Object.pairs[i][2]>>
  /\ UNCHANGED <<PreferInteger, call, enc, out, room, end, pending, result>>

(* Mutant: the end of the iteration is not noticed.                            *)
EndLoopStays == Looping /\ Left = {} /\ UNCHANGED vars

EndLoop ==
  /\ Looping /\ Left = {}
  /\ loops' = Front(loops)
  /\ UNCHANGED <<PreferInteger, call, enc, out, room, end, pending, work, result>>

(* The end of xs_pack, which also writes a NUL at cur.                         *)
Packed ==
  /\ result = "running" /\ pending = << >> /\ work = << >> /\ loops = << >>
  /\ result' = "packed"
  /\ UNCHANGED <<PreferInteger, call, enc, out, room, end, pending, work, loops>>

Step ==
  \/ AppendPending \/ TooDeep \/ PackScalar \/ PackUnsupported \/ PackContainer
  \/ NextItem \/ NextPair \/ EndLoop \/ Packed

-------------------------------------------------------------------------------
Arguments ==
  [heap : Heaps, val : {Ref(1)}, depth : Depths, self : Selves]
    \cup [heap : {<< >>}, val : Scalars, depth : Depths, self : Selves]

NoCall == [heap |-> << >>, val |-> Undef, depth |-> 0, self |-> << >>]
NoSettings == [prefer_int |-> FALSE, canonical |-> FALSE, utf8 |-> FALSE]

Init ==
  /\ PreferInteger = FALSE
  /\ call = NoCall /\ enc = NoSettings
  /\ out = << >> /\ room = 1 /\ end = 0
  /\ pending = << >> /\ work = << >> /\ loops = << >> /\ result = "none"

Begin == result = "none" /\ \E c \in Arguments : Call(c)

(* The program has the bytes or the message; enc_t and the mortal SV are gone. *)
Return ==
  /\ result \notin {"none", "running"}
  /\ call' = NoCall /\ enc' = NoSettings
  /\ out' = << >> /\ room' = 1 /\ end' = 0
  /\ pending' = << >> /\ work' = << >> /\ loops' = << >> /\ result' = "none"
  /\ UNCHANGED PreferInteger

(* The program assigns to $Data::MessagePack::PreferInteger: dmp_config_set.    *)
SetPreferInteger ==
  /\ result = "none"
  /\ PreferInteger' = ~PreferInteger
  /\ UNCHANGED <<call, enc, out, room, end, pending, work, loops, result>>

Next == Begin \/ Step \/ Return \/ SetPreferInteger

Spec == Init /\ [][Next]_vars /\ WF_vars(Step)

-------------------------------------------------------------------------------
(* Where each variable may be; the loops are over arrays and hashes of the     *)
(* argument, and what is left of one is some of its elements.                  *)
LoopsOver(heap) ==
  {l \in [of : DOMAIN heap, left : SUBSET Nat, depth : Int] :
     l.left \subseteq DOMAIN Loop(heap[l.of])}

TypeOK ==
  /\ PreferInteger \in BOOLEAN
  /\ call = NoCall \/ call \in Arguments
  /\ enc \in [prefer_int : BOOLEAN, canonical : BOOLEAN, utf8 : BOOLEAN]
  /\ out \in Seq(Byte) /\ room \in Nat \ {0} /\ end \in Nat
  /\ pending \in Seq(Seq(Byte))
  /\ work \in Seq(SVs(Len(call.heap)))
  /\ loops \in Seq(LoopsOver(call.heap))
  /\ result \in {"none", "running", "packed", "nesting", "unsupported"}

(* The bytes written lie inside the allocation of dmp_append_buf, and one more *)
(* fits: the NUL that xs_pack writes behind them.                              *)
BufferHolds == Len(out) < room /\ end < room

(* _msgpack_pack_rv is never deeper in itself than max_depth, whatever the     *)
(* data refers to: the C stack is bounded also for data that contains itself.  *)
RecursionBounded ==
  \A i \in DOMAIN loops : loops[i].depth = call.depth - i /\ loops[i].depth >= 0

-------------------------------------------------------------------------------
(* The SVs in an array or hash, and what the references of a set lead to.      *)
SVsIn(o) ==
  IF IsArray(o) THEN Range(o.items) \ {NoSV}
  ELSE {pair[2] : pair \in Range(o.pairs)}
         \cup {Str(pair[1], FALSE) : pair \in Range(o.pairs)}

Below(heap, svs) == UNION {SVsIn(heap[v.rv]) : v \in {w \in svs : IsRef(w)}}

(* The SVs that k references lead to from the argument of c.                   *)
Levels(c) ==
  LET Level[k \in Nat] == IF k = 0 THEN {c.val} ELSE Below(c.heap, Level[k - 1]) IN Level

Limit(c) == IF c.depth < 0 THEN 0 ELSE c.depth
AtLimit == Levels(call)[Limit(call)]

(* pack croaks of nesting for data with an SV max_depth references down, and   *)
(* for no other: data that contains itself included.                           *)
NestingLimit ==
  /\ result = "nesting" => AtLimit # {}
  /\ result = "packed" => AtLimit = {}
===============================================================================
