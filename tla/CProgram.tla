-------------------------------- MODULE CProgram --------------------------------
(******************************************************************************)
(* A C program with the headers under include/msgpack: the preprocessor finds  *)
(* out about the platform (Predef), the packing functions are compiled for it  *)
(* (PackTypes), and the program packs into a destination of one kind (Sinks,   *)
(* ZBuffer) or takes memory from two zones (Zone).                             *)
(******************************************************************************)
EXTENDS Predef, PackTypes, Sinks, ZBuffer, Zone

CONSTANTS Values,               \* integers of 8 digits that the program packs
          Reals,                \* IEEE numbers of 4 or 8 digits
          Lengths,              \* of arrays, maps, strings, binaries, extensions
          Bodies,               \* what it keeps in memory of its own
          RefSizes,             \* it gives to vrefbuffer_init
          Sizes,                \* it asks of a zone
          MaxCalls              \* bound: calls a program makes

ASSUME CallsAssumption ==
  /\ Values \subseteq {d \in Seq(Byte) : Len(d) = 8}
  /\ Reals \subseteq {d \in Seq(Byte) : Len(d) \in {4, 8}}
  /\ Lengths \subseteq {l \in Nat : Shr32(l) = 0}
  /\ Bodies \subseteq Seq(Byte)
  /\ RefSizes \subseteq Nat
  /\ Sizes \subseteq Nat \ {0}
  /\ MaxCalls \in Nat

(* Compilers and headers tell the truth about the sizes, and the numbers whose *)
(* words are swapped are those of ARM before the EABI.                         *)
SizeMacros(type) ==
  CASE type = "short" -> {"SIZEOF_SHORT", "SHRT_MAX", "USHRT_MAX"}
    [] type = "int" -> {"SIZEOF_INT", "INT_MAX", "UINT_MAX"}
    [] type = "long" -> {"SIZEOF_LONG", "LONG_MAX", "ULONG_MAX"}
    [] type = "long_long" -> {"SIZEOF_LONG_LONG", "LLONG_MAX", "ULLONG_MAX"}

TellsTrue(p, m) ==
  /\ \A type \in DOMAIN p.sizeof :
       \A name \in SizeMacros(type) \cap DOMAIN m : m[name] = p.sizeof[type]
  /\ p.fpa => {"__ARM_EABI__", "TARGET_OS_IPHONE"} \cap DOMAIN m = {}

Sources(p) == {p.macros} \cup {p.headers[h] : h \in DOMAIN p.headers}

ASSUME PlatformsAssumption ==
  \A p \in Platforms :
    /\ p.machine \in {"big", "little"} /\ p.char_signed \in BOOLEAN /\ p.fpa \in BOOLEAN
    /\ p.sizeof \in [{"short", "int", "long", "long_long"} -> {2, 4, 8}]
    /\ {"sys/param.h", "endian.h", "machine/endian.h", "sys/endian.h"} \subseteq DOMAIN p.headers
    /\ p.fpa => "__arm__" \in DOMAIN p.macros
    /\ \A m \in Sources(p) : TellsTrue(p, m)

VARIABLES compiler,             \* "reading", "done" or stopped by #error
          build,                \* what it knows then, see ByteOrder
          kind,                 \* of the destination
          sink,                 \* the destination
          calls,                \* how many calls were made
          call,                 \* what the last of them packed
          accepted,             \* what those packed that returned 0
          broken                \* one of them did not

progvars == <<kind, sink, calls, call, accepted, broken>>
cvars == <<pvars, compiler, build, progvars>>

None == "none"
NoCall == [type |-> None, value |-> << >>, wire |-> << >>]

(* The macros that sysdep.h and pack_template.h look at.                       *)
Consulted == {"_WIN32", "ntohs", "ntohl", "_byteswap_ushort", "_byteswap_ulong",
  "_byteswap_uint64", "_MSC_VER", "linux", "__DARWIN_OSSwapInt64", "__arm__",
  "__ARM_EABI__", "TARGET_OS_IPHONE", "SIZEOF_SHORT", "SIZEOF_INT", "SIZEOF_LONG",
  "SIZEOF_LONG_LONG", "SHRT_MAX", "INT_MAX", "LONG_MAX", "LLONG_MAX", "USHRT_MAX",
  "UINT_MAX", "ULONG_MAX", "ULLONG_MAX"}

BuildOf(p, m) ==
  [machine |-> p.machine, sizeof |-> p.sizeof, char_signed |-> p.char_signed, fpa |-> p.fpa,
   little |-> Value(m, "ENDIAN_LITTLE_BYTE") # 0, big |-> Value(m, "ENDIAN_BIG_BYTE") # 0,
   m |-> Restrict(m, Consulted \cap DOMAIN m)]

CInit ==
  /\ PInit
  /\ compiler = "reading" /\ build = << >> /\ kind = None /\ sink = << >>
  /\ calls = 0 /\ call = NoCall /\ accepted = << >> /\ broken = FALSE

(* The preprocessor is through: the compiler goes on, or stops at #error.      *)
Compile ==
  /\ agenda = << >> /\ compiler = "reading"
  /\ build' = BuildOf(platform, macros)
  /\ compiler' = IF Supported(build') THEN "done" ELSE "#error"
  /\ UNCHANGED <<pvars, progvars>>

Compiled == compiler = "done"

(* Two zones, and what the program got from them: see ZoneMalloc.              *)
NewZones ==
  [a |-> zone_new(0), b |-> zone_new(Up(ChunkHeader + ChunkSize)),
   brk |-> 2 * Up(ChunkHeader + ChunkSize), given |-> {}, pushed |-> {}]

NewSinks(k) ==
  CASE k = "sbuffer" -> {sbuffer_init}
    [] k = "vrefbuffer" -> {vrefbuffer_init(ref_size) : ref_size \in RefSizes}
    [] k = "FILE" -> {<< >>}
    [] k = "zbuffer" -> {zbuffer_init}
    [] k = "zones" -> {NewZones}

(* Bound: the builds whose programs use other destinations than an sbuffer.    *)
Tried == build.machine = "big" /\ build.sizeof["long"] = 8

(* The program no longer needs to know how it was compiled.                    *)
Start ==
  /\ Compiled /\ kind = None
  /\ \E k \in {"sbuffer", "vrefbuffer", "FILE", "zbuffer", "zones"} :
       (k # "sbuffer" => Tried) /\ kind' = k /\ sink' \in NewSinks(k)
  /\ macros' = << >> /\ entered' = {} /\ platform' = << >> /\ first' = None
  /\ UNCHANGED <<agenda, compiler, build, calls, call, accepted, broken>>

-------------------------------------------------------------------------------
(* msgpack_pack_append_buffer calls the packer's callback, whose result is the *)
(* result of the packing function.                                             *)
Callback(piece, from) ==
  CASE kind = "sbuffer" -> sbuffer_write(sink, piece)
    [] kind = "vrefbuffer" -> vrefbuffer_write(sink, piece, from)
    [] kind = "FILE" -> fbuffer_write(sink, piece)
    [] kind = "zbuffer" -> zbuffer_write(sink, piece)

(* The block of an sbuffer and the piece to append are both in memory.         *)
InMemory(piece) == kind = "sbuffer" => sink.alloc + Len(piece) < SizeMax

Pack(type, value, piece, from, after) ==
  /\ Compiled /\ kind \notin {None, "zones"} /\ calls < MaxCalls /\ InMemory(piece)
  /\ \E o \in Callback(piece, from) :
       /\ sink' = o.to
       /\ accepted' = IF o.ret = 0 THEN accepted \o piece ELSE accepted
       /\ broken' = (broken \/ o.ret # 0)
  /\ call' = [type |-> type, value |-> value, wire |-> piece]
  /\ calls' = after
  /\ UNCHANGED <<pvars, compiler, build, kind>>

SignedTypes == {"signed_char", "short", "int", "long", "long_long"}
UnsignedTypes ==
  {"unsigned_char", "unsigned_short", "unsigned_int", "unsigned_long", "unsigned_long_long"}
SizedTypes == {"uintN", "intN", "fix_uintN", "fix_intN"}
IntegerTypes == {"char"} \cup SignedTypes \cup UnsignedTypes \cup SizedTypes

IsSigned(type) ==
  \/ type \in SignedTypes \cup {"intN", "fix_intN"}
  \/ type = "char" /\ build.char_signed

CType(type) ==
  CASE type \in {"short", "unsigned_short"} -> "short"
    [] type \in {"int", "unsigned_int"} -> "int"
    [] type \in {"long", "unsigned_long"} -> "long"
    [] OTHER -> "long_long"

Sizeof(type) ==
  IF type \in SizedTypes THEN {1, 2, 4, 8}
  ELSE IF type \in {"char", "signed_char", "unsigned_char"} THEN {1}
  ELSE {build.sizeof[CType(type)]}

(* The bytes of a call are the same in any destination: the program packs one  *)
(* integer, header or number into an sbuffer and no more, or a few reals and   *)
(* strings into any.                                                           *)
Once == calls = 0 /\ kind = "sbuffer"

PackAnInteger ==
  /\ Compiled /\ Once
  /\ \E type \in IntegerTypes : \E w \in Sizeof(type), v \in Values :
       LET d == Cast(v, w) IN Pack(type, d, PackInteger(build, type, d), "stack", MaxCalls)

Header(type, n) ==
  CASE type = "array" -> ArrayHeader(n)
    [] type = "map" -> MapHeader(n)
    [] type = "str" -> StrHeader(n)
    [] type = "bin" -> BinHeader(n)
    [] type = "v4raw" -> V4RawHeader(n)
    [] type = "ext" -> ExtHeader(n, 5)

HeaderTypes == {"array", "map", "str", "bin", "v4raw", "ext"}

PackAHeader ==
  Once /\ \E type \in HeaderTypes, n \in Lengths :
            Pack(type, n, Header(type, n), "stack", MaxCalls)

PackAReal ==
  \E d \in Reals :
    IF Len(d) = 4 THEN Pack("float", d, pack_float(build, d), "stack", calls + 1)
    ELSE Pack("double", d, pack_double(build, d), "stack", calls + 1)

PackABody == \E b \in Bodies : Pack("body", << >>, b, "program", calls + 1)

-------------------------------------------------------------------------------
(* What else a program does with a buffer.                                     *)
SBufferDo(after) ==
  /\ kind = "sbuffer" /\ calls < MaxCalls
  /\ sink' = after /\ accepted' = << >> /\ call' = NoCall /\ calls' = calls + 1
  /\ UNCHANGED <<pvars, compiler, build, kind, broken>>

Release == SBufferDo(sbuffer_release(sink))
Clear == SBufferDo(sbuffer_clear(sink))

(* A finished call of flush shows its result in call.wire.                     *)
Flush ==
  /\ kind = "zbuffer" /\ calls < MaxCalls
  /\ \E o \in zbuffer_flush(sink) :
       /\ sink' = o.to
       /\ call' = [type |-> "flush", value |-> sink, wire |-> o.ret]
  /\ calls' = calls + 1
  /\ UNCHANGED <<pvars, compiler, build, kind, accepted, broken>>

Reset ==
  /\ kind = "zbuffer" /\ calls < MaxCalls
  /\ sink' = zbuffer_reset(sink)
  /\ accepted' = << >> /\ broken' = FALSE /\ call' = NoCall /\ calls' = calls + 1
  /\ UNCHANGED <<pvars, compiler, build, kind>>

(* The program takes the block; what it holds is call.wire.                    *)
ReleaseBuffer ==
  /\ kind = "zbuffer" /\ calls < MaxCalls
  /\ sink' = zbuffer_release_buffer(sink)
  /\ call' = [type |-> "release", value |-> << >>, wire |-> sink.data]
  /\ calls' = calls + 1
  /\ UNCHANGED <<pvars, compiler, build, kind, accepted, broken>>

-------------------------------------------------------------------------------
(* Memory from a zone, at an address that is aligned or not.  given holds what *)
(* the program got, as [block, aligned].                                       *)
ZoneMalloc ==
  /\ kind = "zones" /\ calls < MaxCalls
  /\ \E z \in {"a", "b"}, size \in Sizes, aligned \in BOOLEAN :
       \E o \in IF aligned THEN zone_malloc(sink[z], size, sink.brk)
               ELSE zone_malloc_no_align(sink[z], size, sink.brk) :
         sink' = [sink EXCEPT ![z] = o.zone, !.brk = o.brk,
                    !.given = IF o.ret = 0 THEN @
                              ELSE @ \cup {[block |-> Block(o.ret, size), aligned |-> aligned]}]
  /\ calls' = calls + 1
  /\ UNCHANGED <<pvars, compiler, build, kind, call, accepted, broken>>

(* A finalizer is the number of the call that pushes it; pushed are those that *)
(* the zone took.                                                              *)
PushFinalizer ==
  /\ kind = "zones" /\ calls < MaxCalls
  /\ \E z \in {"a", "b"} : \E o \in push_finalizer(sink[z], calls) :
       sink' = [sink EXCEPT ![z] = o.zone,
                  !.pushed = IF o.ret THEN @ \cup {calls} ELSE @]
  /\ calls' = calls + 1
  /\ UNCHANGED <<pvars, compiler, build, kind, call, accepted, broken>>

Swap ==
  /\ kind = "zones" /\ calls < MaxCalls
  /\ sink' = [sink EXCEPT !.a = sink.b, !.b = sink.a]
  /\ calls' = calls + 1
  /\ UNCHANGED <<pvars, compiler, build, kind, call, accepted, broken>>

CNext ==
  \/ PNext /\ UNCHANGED <<compiler, build, progvars>>
  \/ Compile \/ Start
  \/ PackAnInteger \/ PackAReal \/ PackAHeader \/ PackABody
  \/ Release \/ Clear \/ Flush \/ Reset \/ ReleaseBuffer
  \/ ZoneMalloc \/ PushFinalizer \/ Swap

CSpec == CInit /\ [][CNext]_cvars

-------------------------------------------------------------------------------
Preprocessed == agenda = << >> /\ kind = None

(* The operating systems of which a program is on one, and the BSDs.           *)
ExclusiveSystems == {"OS_AIX", "OS_AMIGAOS", "OS_ANDROID", "OS_BEOS", "OS_BSD", "OS_CYGWIN",
  "OS_HAIKU", "OS_HPUX", "OS_IRIX", "OS_IOS", "OS_LINUX", "OS_MACOS", "OS_OS400", "OS_QNX",
  "OS_SOLARIS", "OS_VMS", "OS_WINDOWS"}
Flavours == {"OS_BSD_BSDI", "OS_BSD_DRAGONFLY", "OS_BSD_FREE", "OS_BSD_NET", "OS_BSD_OPEN"}

Found(names) == {X \in names : Value(macros, X) # 0}

(* Deviations of the code: cygwin.h misspells its macro, so that nothing is    *)
(* excluded; dragonfly.h sets a macro of another name, so that only OS_BSD is  *)
(* found; the version of FreeBSD 10.0 becomes 0.0.0, which is not available;   *)
(* and a program that includes the header of one system first is believed to   *)
(* be on that one when it has its macros too: on Linux under Android, and on   *)
(* no BSD but OS_BSD when free.h comes first and sys/param.h came before.      *)
Unseen ==
  {"OS_CYGWIN", "OS_BSD_DRAGONFLY"}
    \cup IF Value(macros, "__FreeBSD_version") \div 1000 = 1000 THEN {"OS_BSD_FREE"} ELSE {}

(* However the headers include one another, and whichever of them a program    *)
(* has included before, at most one system and one BSD is found, and it is the *)
(* platform's.                                                                 *)
OneSystem ==
  kind = None =>
    /\ Cardinality(Found(ExclusiveSystems)) <= 1
    /\ Cardinality(Found(Flavours)) <= 1
    /\ Preprocessed =>
         \/ Found(ExclusiveSystems \cup Flavours) = platform.os \ Unseen
         \/ first \in platform.also
              /\ Cardinality(Found(ExclusiveSystems)) = 1

(* The byte order the headers settle on, from whatever source, is the          *)
(* machine's and the only one; where they find none the compiler stops.        *)
OrderIsTheMachines ==
  Compiled => RightOrder(build)

(* What a reader makes of a header: its kind and its length.                   *)
KindOf(h) ==
  CASE h \in 128 .. 143 \/ h \in 222 .. 223 -> "map"
    [] h \in 144 .. 159 \/ h \in 220 .. 221 -> "array"
    [] h \in 160 .. 191 \/ h \in 217 .. 219 -> "str"
    [] h \in 196 .. 198 -> "bin"
    [] h \in 199 .. 201 \/ h \in 212 .. 216 -> "ext"

LengthOf(h, digits) ==
  IF h < 160 THEN h % 16 ELSE IF h < 192 THEN h % 32
  ELSE IF h \in 212 .. 216 THEN <<1, 2, 4, 8, 16>>[h - 211] ELSE BE(digits)

WireHeader(wire) ==
  LET type == KindOf(Head(wire))
      digits == IF type = "ext" THEN Front(Tail(wire)) ELSE Tail(wire)
  IN <<type, LengthOf(Head(wire), digits)>>

(* On every platform and for every type, the bytes of an integer are a form of *)
(* the format that a reader takes for the same integer, and those of a header  *)
(* one that it takes for the same kind and length; raw is what str was called. *)
WireValue ==
  /\ call.type \in IntegerTypes =>
       Means(call.wire, call.value, IsSigned(call.type))
  /\ call.type \in HeaderTypes =>
       WireHeader(call.wire) =
         <<IF call.type = "v4raw" THEN "str" ELSE call.type, call.value>>

(* It is the shortest of those forms, except for the functions of fixed size.  *)
(* Deviation of the code: the macros for 4 bytes compare with an int 1<<16,    *)
(* and where that has 2 bytes they take the 32 bit form for the 16 bit one.    *)
ShortestLen(v, negative) ==
  LET holds == {n \in {1, 2, 4, 8} : Extend(Cast(v, n), negative) = v}
      tiny == 1 \in holds /\ IF negative THEN v[8] >= 224 ELSE v[8] < 128
  IN IF tiny THEN 1 ELSE 1 + CHOOSE n \in holds : \A k \in holds : n <= k

ShortestForm ==
  call.type \in IntegerTypes \ {"fix_uintN", "fix_intN"} =>
    LET signed == IsSigned(call.type)
        v == Extend(call.value, signed)
        negative == signed /\ v[1] >= 128
        shortest == ShortestLen(v, negative)
    IN \/ Len(call.wire) = shortest
       \/ /\ build.sizeof["int"] = 2 /\ Len(call.value) = 4 /\ ~negative
          /\ shortest = 3 /\ Len(call.wire) = 5

(* A double goes out as its IEEE digits, first word first, although compilers  *)
(* for old ARM keep its words swapped.  Deviation of the code: one that does   *)
(* not (RISC iX and WinCE compilers with VFP) has them swapped instead.        *)
RealOnWire ==
  call.type \in {"float", "double"} =>
    \/ call.wire = <<IF call.type = "float" THEN 202 ELSE 203>> \o call.value
    \/ OldARM(build) /\ ~build.fpa /\ call.type = "double"

(* The bytes of the entries of an array, one after the other.                  *)
Joined(array) ==
  LET J[i \in 0 .. Len(array)] == IF i = 0 THEN << >> ELSE J[i - 1] \o array[i].bytes
  IN J[Len(array)]

(* What a reader finds in the destination is what the accepted calls packed,   *)
(* in their order, in a block that is big enough.  After a failed call this    *)
(* holds for memory only: a FILE and a zlib stream may have a part of its piece.*)
(* A vector with dangling entries holds nothing a reader could rely on.        *)
Contents ==
  CASE kind = "sbuffer" -> sink.data = accepted /\ Len(sink.data) <= sink.alloc
    [] kind = "vrefbuffer" -> Dangling(sink) # {} \/ Joined(sink.array) = accepted
    [] kind = "FILE" -> broken \/ sink = accepted
    [] kind = "zbuffer" -> broken \/ sink.taken = accepted
    [] OTHER -> TRUE

(* The vector refers to no variable of a packing function that has returned,   *)
(* if the program asks for references to pieces longer than any of those only: *)
(* they have HeaderMax bytes at most.  Deviation of the code: it               *)
(* takes any ref_size, and a smaller one lets headers dangle that are as long. *)
NoDanglingRef ==
  kind = "vrefbuffer" =>
    \A i \in Dangling(sink) :
      sink.ref_size <= Len(sink.array[i].bytes) /\ Len(sink.array[i].bytes) <= HeaderMax

(* The compressed output stays whole and in order when its block grows, is     *)
(* given away or taken back; and flush either returns all of a finished stream *)
(* or had no room.  Deviation of the code: it does not make room for the first *)
(* output, so that NULL is also the answer when nothing was written, or when   *)
(* what was written has just filled the block.                                 *)
ZStream ==
  kind = "zbuffer" =>
    /\ sink.data = [i \in 1 .. Len(sink.data) |-> sink.made - Len(sink.data) + i]
    /\ Len(sink.data) + sink.avail_out = sink.block
    /\ call.type = "flush" =>
         IF call.wire = NULLBlock THEN sink.avail_out = 0
         ELSE sink.state = "finished" /\ call.wire = sink.data

Rising(s) == \A i, j \in DOMAIN s : i < j => s[i] < s[j]

(* No two pieces of memory that zones hand out share a byte, whichever of the  *)
(* zones and functions they come from; each lies in a chunk, behind its header,*)
(* and is aligned when the function promises it.  The zones keep exactly the   *)
(* finalizers they took, each in one of them and once, in the order in which   *)
(* they were pushed: none is lost when the array grows or the zones are        *)
(* swapped.                                                                    *)
ZoneBlocks ==
  kind = "zones" =>
    /\ \A g, h \in sink.given : g.block[2] < h.block[1] \/ h.block[2] < g.block[1] \/ g = h
    /\ \A g \in sink.given :
         /\ \E c \in sink.a.chunks \cup sink.b.chunks :
              c[1] <= g.block[1] /\ g.block[2] <= c[2]
         /\ g.aligned => g.block[1] % Align = 0
    /\ Range(sink.a.finalizers) \cup Range(sink.b.finalizers) = sink.pushed
    /\ Range(sink.a.finalizers) \cap Range(sink.b.finalizers) = {}
    /\ Rising(sink.a.finalizers) /\ Rising(sink.b.finalizers)
    /\ Len(sink.a.finalizers) <= sink.a.room /\ Len(sink.b.finalizers) <= sink.b.room
===============================================================================
