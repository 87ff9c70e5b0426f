# Data::MessagePack: models, checks and proofs

Data::MessagePack turns Perl values into MessagePack bytes and back. It has two
implementations: C code loaded as an XS extension (`xs-src/`, with the parser
and packer templates of msgpack-c in `include/msgpack/`) and pure Perl
(`lib/Data/MessagePack/PP.pm`). This directory holds TLA+ models of the program,
the TLC runs that check them, and proofs for TLAPS.

## 1. The system

| Part | State it keeps | Operations | What makes it hard |
| --- | --- | --- | --- |
| XS parser, `include/msgpack/unpack_template.h` | locals `p`, `cs`, `trail`, `top`; the context `ctx->cs`, `trail`, `top`; a stack of 32 frames `obj`, `count`, `ct`, `map_key` | `template_init`, `template_execute`, `template_data` | stops and resumes between any two bytes; gotos between states; unsigned arithmetic; full stack |
| XS callbacks, `xs-src/unpack.c` | the SVs they make, by reference count | one per kind of item | who owns a half-built value when the parse stops, fails or croaks |
| `Data::MessagePack->unpack`, `xs_unpack` | a context on the C stack | `unpack` | four ways to end, one of them a longjmp |
| `Data::MessagePack::Unpacker`, `xs-src/unpack.c` | the context, `buffer`, `finished`, `utf8` | `new`, `utf8`, `get_utf8`, `execute`, `execute_limit`, `is_finished`, `data`, `reset`, `DESTROY` | the order of the calls is the caller's; a message may be cut anywhere; what a failed or unfinished call leaves behind |
| Pure Perl decoder, `PP.pm` `_unpack` | package variables `$p`, `$_utf8` | `unpack` | recursive descent, shares no code with the C parser |
| Pure Perl `Unpacker`, `PP.pm` | `buff`, `pos`, `stack`, `is_finished`, `utf8` | the same methods as in XS | counts items without decoding them, decodes in `data` |
| XS packer, `xs-src/pack.c`, `pack_template.h` | `enc_t`: output position, end, flags; the C stack of the recursion | `pack` | buffer growth, nesting limit, integer thresholds, prefer_integer, canonical order, tied hashes |
| Pure Perl packer, `PP.pm` `_pack` | `$_max_depth` | `pack` | thresholds of its own, a recursion of its own for integers in strings |
| Properties, `MessagePack.pm` | three flags of the object | setters and getters, choice of a back end at load time | |
| Interpreter state, `pack.c`, `unpack.c`, `MessagePack.xs`, `Boolean.pm` | cached booleans, `prefer_int`, the addresses of both structures | `BOOT`, `CLONE`, magic on `$PreferInteger`, `get_bool` | lazily filled, per thread, copied by `perl_clone` before `CLONE` mends it |
| Client loops, `t/09`, `t/10`, `t/11` | a string of bytes, an offset | read, `execute`, take `data`, `reset` | pieces end anywhere; offsets count from what the unpacker has kept |
| Platform detection, `include/msgpack/predef/` | the macros | `#include` of its headers | which header asks first; headers of systems that define each other's macros; the byte order from five sources |
| C packing functions, `sysdep.h`, `pack_template.h` | none | one per C type and form | thresholds in the type of the argument; byte order and sizes of the build |
| Destinations, `sbuffer.h`, `vrefbuffer.h`, `fbuffer.h`, `zbuffer.h` | a block, a vector, a FILE, a zlib stream | write, release, clear, flush, reset | sizes that wrap, failing `realloc`, a block that moves under zlib |
| Memory zones, `zone.h` | the newest chunk, finalizers | `malloc`, `malloc_no_align`, `push_finalizer`, `swap` | alignment against what is left of a chunk |
| C unpacker and objects, `unpack.h`, `object.h` | declarations only | their functions are in C files that are not in the repository | |

The parser calls the callbacks, the two XS unpacking entry points call the
parser, and the program calls the entry points. Everything is sequential: one C
function runs to its end before the next call of the same interpreter. What
interleaves is the program's calls with the arrival of bytes, and the parser's
state with the calls that stop and resume it. The pure Perl side calls nothing
of the C side; the two promise the same results. The exception is threads: an
interpreter that clones another one does so in steps, while the others run.

The headers under `include/msgpack/` are a library of their own. The XS packer uses
`pack_template.h` and `sysdep.h` with macros of its own; the other headers serve a C
program, whose compiler reads `predef`, compiles the packing functions for what
was found, and links them to one destination.

What makes each part correct: the parser and the pure Perl decoder give the same
meaning to every byte string; the parser reads only the bytes it was given; a
message cut into calls decodes as it does in one piece, and no byte of it is lost
or counted twice; every SV made is owned by the result or released, once; every
call comes back; and, for the packers, what is packed unpacks to the same value,
inside the buffer allocated for it. A thread's settings and booleans are its own.
For the C library: one system and the right byte order are found, every integer
goes out in the shortest form that reads as that integer, and a destination holds
what was accepted.

## 2. The modules

| Module | Models |
| --- | --- |
| `PerlValue` | the SVs unpacking makes (the callbacks of `unpack.c:105-284`), with the number of SVs each value owns, and the big-endian loads of `sysdep.h` |
| `UnpackTemplate` | `template_execute`: its variables and one action per branch of its switch; `template_init` and `template_data` |
| `PPTypemap` | how `PP.pm` sorts header bytes, shared by its two readers of the format |
| `PPUnpack` | `_unpack` of `PP.pm` as a function of the bytes; the reference for what bytes mean |
| `PPUnpacker` | the pure Perl `Unpacker` with its `_count` scanner, and the package variable `$_utf8` |
| `OneShotUnpack` | `xs_unpack` around the parser |
| `StreamUnpacker` | the methods of the XS `Unpacker` around the parser |
| `MessageStream` | what a streaming unpacker promises, without a parser; what bytes mean is its parameter |
| `PerlData` | the data handed to `pack`: scalars, and arrays and hashes in a heap, reached by reference; the strings of digits that `try_int` reads |
| `PackTemplate` | the bytes that `pack_template.h` appends for a number, and in front of a string, an array or a map |
| `Packer` | `xs_pack`: the recursion over the data, the properties, and the buffer of `dmp_append_buf` |
| `PPPack` | `_pack` of `PP.pm` as a function of the data |
| `PackClient` | a program that packs, packs the same contents again with the hashes in another order, decodes what it gets and packs the same with `PPPack`; what data means, and the properties of the packers that need a reference decoder or encoder |
| `StreamClient` | the three loops of `t/09_stddata.t`, `t/10_splitted_bytes.t` and `t/11_stream_unpack3.t` around `StreamUnpacker` |
| `Interpreter` | loading with either back end, `BOOT`, `$PreferInteger` and its magic, the boolean cache, threads |
| `Macros` | the macros of a preprocessor as a function |
| `Predef` | `predef.h` and its headers for architectures, systems, the C library and the byte order, read one group of tests at a time |
| `ByteOrder` | the loads, stores and swaps of `sysdep.h` |
| `PackTypes` | what `pack_template.h` makes for each C type |
| `Sinks`, `ZBuffer`, `Zone` | the destinations, and zones, as functions from a state to its possible outcomes |
| `CProgram` | composes the six: preprocess, compile, then pack into one destination or take memory |
| `OneShotUnpack_proofs`, `StreamUnpacker_proofs`, `PPUnpacker_proofs`, `Packer_proofs`, `Interpreter_proofs`, `CProgram_proofs` | the theorems |
| `PPUnpack_proofs`, `UnpackTemplate_proofs` | lemmas they share: the recursive decoder and what the values it makes own, and the parser against it |
| `MCOneShotUnpack`, `MCStreamUnpacker`, `MCPPUnpacker`, `MCPackers`, `MCStreamClient`, `MCInterpreter`, `MCCProgram` | instances for TLC |

**State.** `p`, `cs`, `trail`, `top`, `obj` are the C locals of those names, `p`
as an offset into `data`; `ctx` and `stack` are the context, `utf8`, `buffer` and
`finished` the fields of `unpack_user`. The locals keep their values between two
calls, where they equal `ctx`, except after a croak out of the EXT callback,
which `ExtCroak` models by dropping them. `pc` says where in `template_execute`
control is, or how it returned. `obj` is `NULL` where the C variable is dead.
`live` counts SVs created and not released. `last`, `calls` and `result` are
history: how the last `execute` ended, how many there were, what `unpack` said.

**Actions.** `HeaderScalar`, `HeaderEmptyStr`, `HeaderWithTrail`,
`HeaderContainer` and `HeaderUnassigned` are the cases of `switch(*p)`;
`TrailShort`, `TrailStale`, `Number`, `Length`, `EmptyBody`, `Body`, `ExtCroak`
and `Container` those of the default label; the `Push` actions those of `_push`.
An `execute` is `ExecuteCall` (the checks and the joining of buffers up to the
call of `template_execute`), the parser's steps, and `ReturnFinished`,
`ReturnUnfinished` or `ReturnCroak` (everything after it). The other methods are
one step each. The parser's fixext states 0x14 to 0x18 (`unpack_template.h:306-315`)
are not modelled: the fixext headers go to the EXT value state directly.

**The pure Perl unpacker.** The object's fields are `buff`, `pos`, `is_finished`
and `utf8`; `stack`, `p` and `offset` are the locals of `execute`. `_count` looks at
one header per turn of `execute`'s loop, so a turn is one action: one `Count...`
action per branch of `_count`, each with the inner `while` that pops the full
containers (`Counted`). `_count` does not check that the bytes of a size, a number
or a string are there, and a size that is cut off is `undef`, a zero: `Size` says
so. `data` changes nothing that lasts; it is the operator `Data`. `OneShot` is
`Data::MessagePack->unpack` as far as it concerns `$_utf8`, which `data` saves and
restores and `unpack` does not.

**The packer.** `out` is what lies between `SvPVX` and `cur`, `room` is `SvLEN`,
`end` is `enc->end` as an offset. The C recursion is made explicit: `loops` has an
entry for each `_msgpack_pack_rv` that is inside a loop over an array or a hash,
with the elements the loop has not come to and the `depth` it passes on; `work`
holds the SVs whose `_msgpack_pack_sv` is due, and `pending` the pieces the current
call still appends. `AppendPending` is one `dmp_append_buf`; an allocation may be
larger than what was asked for (`Roundings`), as `sv_grow`'s is. `PackScalar`,
`PackContainer`, `PackUnsupported` and `TooDeep` are the branches of
`_msgpack_pack_sv` and `_msgpack_pack_rv`; `NextItem` and `NextPair` go on with a
loop, `EndLoop` leaves it. `enc->canonical` has no initial value in the code, so
`Settings` lets it be either when the object does not set it. The two packers share
no module but `PerlData`, and each reads its own settings: `Settings` those of
`pack.c:325-343`, from the properties of an object or from `MY_CXT.prefer_int`; `PP_Self`
those of `PP.pm:178-183`, from the properties of an object or, for the class
(`TheClass`), from `$PreferInteger` and `$Canonical`.

**The client.** `loop` says which test is running, `step` which statement is next. `piece`
is `$mpac`, `$buff` or `$buffer`, `nread` is `$offset`, `$done` or `$nread`, and `incoming` the bytes
the program has not read. Between `Call` and what follows the parser runs. `TakeAtOffset` is
the body of the loop of `t/09`, which executes one string again and again at the offset that
the last call returned. `ReadOn` is that of `t/10`, which hands over piece after piece of one message, and
`EndOfFile` what it does behind the loop. `CutOff` and `Leave` are the two ways through
the loop of `t/11`: a finished message is cut off the string with what `execute` returned, and at
an unfinished one the program leaves with `last`. The cut is right only because nothing was kept before:
the offset counts the kept bytes too (`unpack.c:408-433`), so that a loop that read on after an
unfinished message, as no test does, could not cut as `t/11:30` does. In `t/10`, where bytes are kept, the offset
is the length of the whole message.

**Interpreters.** `packAt` and `unpackAt` are where `MY_CXT` of `pack.c` and of
`unpack.c` lie for an interpreter, named by the interpreter that allocated them.
`perl_clone` copies them; `ClonePack` and `CloneUnpack` are the two calls of `CLONE`,
with `MY_CXT_CLONE` and the second `sv_magicext` in the first one. A boolean is its
owner and its truth. The interpreter that creates a thread waits for `CLONE`; others
may load, assign, decode, create threads and end in between.

**The C library.** A compilation is a walk: `agenda` is the list of `#include`s and groups
of tests still to be read, `entered` the include guards, and an action reads the
first of them, which may put a header's in front. After `Compile` only what the code asks for is kept, as the
record `build`. Numbers are sequences of digits base 256, so that the thresholds of
64 bits are exact within TLC's integers. A write is the set of its outcomes, one
of them failure wherever `realloc` or a C library call may fail. zlib itself is outside:
of `deflate` only how much it takes and gives is modelled. `size_t` has `SizeBits`
bits, so that doubling wraps.

**Data to pack.** A heap may refer to itself and to one array twice. Arrays have
slots without an SV. A tied hash may yield another number of pairs when it is
counted. An SV has one type: in the code `SvPOKp` is asked first, then `SvNOKp`,
then `SvIOKp`, and a scalar with several of them counts as the first. Get magic,
and the text of error messages, are left out. The numbers that `try_int` compares
with 2^31 and 2^32 do not fit the integers of TLC; `Exceeds` compares their digits
instead, and `Shr32` divides twice.

**Data.** A float is kept as its bytes: a decoder that loads the wrong bytes is
caught, one that misinterprets IEEE numbers is not. Strings are byte sequences
with a flag that says whether they went through `sv_utf8_decode`. The hash key
text of an integer, boolean, undef or string is spelled out, so that an integer
and a string can collide; that of a float or a container, which depends on an
address or on formatting, is one fixed text. Integers are 64 bits wide (the
`IVSIZE == 8` build); only lengths of ext bodies can overflow, and `BodyLength`
wraps them at 32 bits.

**Operators called mutant** next to a definition are plausible mistakes in it.
Nothing uses them; they are there to show, by putting one in the place of the
definition it precedes, that a property can tell the difference.

## 3. The runs

`StackSize` is 2 in all runs (32 in the code): the stack is only indexed and
compared with its size, so two frames show nesting, and inputs three and four deep
show the overflow.

* **oneshot_agrees** (`MCOneShotUnpack`). All strings of up to 4 bytes over an
  alphabet with a header of every kind, and some forty longer ones for the wider numbers and lengths,
  duplicate keys, and nesting past the stack; `utf8` on and off. `AgreesWithPP`
  compares the C parser with `PPUnpack`: same values, same errors, with two
  deviations that it spells out: the pure Perl decoder has no nesting limit, and
  it refuses an EXT header before its bytes have arrived. `ValueOwnsEverySV`: the
  result owns every SV the call made. `Terminates`: each call ends.
* **stream_calls** (`MCStreamUnpacker`). Three executes with any of eight
  one-byte pieces, or any prefix of six messages, from offset 0 or 1, in any order
  with `utf8`, `reset`, `DESTROY` and `new`; a program that resets after a
  finished message (`Careful`). Three calls are enough to buffer, extend a buffer
  and start afresh. Checks the type invariant, the counters of open containers,
  the bounds, that the unsigned wrap of `p` is never reached, that a call after
  `new`, `reset` or an unfinished call starts from an initial context
  (`ContextIsFresh`), that no SV is released twice (`NoDoubleFree`), that only
  the steps named in `Abandons` may lose an SV (`LeaksOnlyWhenAbandoning`), and
  that every execute returns (`Returns`).
* **stream_refines**. Messages of arrays, maps, strings and numbers cut into up
  to four calls, byte by byte or at any place, implement `MessageStream`: the
  message is reported in exactly the call that brings its last byte, `data` is
  its value, and the offset is its end, whatever is behind it. Offsets are 0: with
  buffered bytes the code ignores the offset (`unpack.c:414`).
* **stream_stale** must fail. `t/23-empty-key.t` executes two messages without a
  reset between them and expects both (marked TODO there). The code starts the
  second parse in the state in which the first one ended: after a fixstr, the
  second message's first bytes are taken for a string body.
* **pp_scanner** (`MCPPUnpacker`). Four executes with any of nine pieces of one to
  three bytes, from offset 0 or 1, whole or limited to one byte, in any order with
  `utf8`, `reset`, `new` and one-shot unpacks; the program need not reset. After
  each call `ScannerFindsMessageEnd` compares what `_count` found with what
  `_unpack` makes of the same bytes. It says what a finished call is worth: the
  message is there exactly if the end lies inside the buffer. `NothingLeftUnread`:
  more bytes are asked for only when all were read. Four pieces reach sizes,
  numbers and bodies cut at every place, and containers three deep.
* **pp_refines**. Pieces that end between items, up to four calls: then the pure Perl
  unpacker implements `MessageStream` as well. Values are left out of this
  refinement, because the pure Perl unpacker decides how to decode them only in
  `data`; `ScannerFindsMessageEnd` compares them. So is the depth of nesting, which
  nothing limits here.
* **pp_early** must fail. `t/11_stream_unpack3.t` takes `data` as soon as
  `is_finished` is true. A call that ends inside the last number or string of a
  message makes it true, and `data` dies.
* **pp_utf8** must fail. The pod makes `utf8` a property of an object. In pure Perl
  the first object with the property turns it on for every later `unpack`.
* **packers** (`MCPackers`, the program of `PackClient`). Two calls of `pack`, the second on
  the same contents with the hashes in another order, and assignments to `$PreferInteger` between
  calls. Scalars lie at both sides of every threshold of the formats that fits 31
  bits, and at the edges of `try_int`; strings have 31, 32, 254, 255 and 256 bytes;
  containers 15 and 16 items; data is nested up to four levels, with `max_depth`
  -1, 1, 2 and 4, or contains itself. The buffer starts with 4 bytes in place of 32,
  so that small data makes it grow several times, and allocations are exact or 3
  bytes larger. `RoundTrip` decodes what was packed with `PPUnpack` and compares it
  with the data; it leaves out, by name, tied hashes that changed and keys that
  `prefer_integer` makes equal, where the code loses data. `NestingLimit`: refused
  exactly if an SV lies `max_depth` references down. `CanonicalIsUnique`: the same
  contents give the same bytes. `AgreesWithPP` compares with `PPPack`, for both values of `$Canonical`, and spells out
  where the two differ (the list is under Deviations). `pack` is called on the class and on
  objects with and without each property. `BufferHolds`, `RecursionBounded`, and `Finishes`:
  every call comes back.
* **client** (`MCStreamClient`). Streams of three messages out of six, among them an
  empty body, an empty container at the end of another, and a body whose bytes look
  like headers. `t/09` and `t/11` get them in one string, that of `t/11` cut off anywhere; `t/10` gets
  one message in pieces of 1 to 3 bytes or in one. `EachOnceInOrder`, `NoByteLost`, and
  `AllDelivered`: each loop ends with every message of which it has all bytes. Three
  messages let an offset stand in the middle and a cut fall into each.
* **interp** (`MCInterpreter`). A program and two threads, each cloned from any
  interpreter that runs, one of them from the other; the threads are symmetric. Each
  loads the module with the XS or the pure Perl back end, before or after it makes
  threads. `PreferIntegerIsThreadLocal` and `OwnBooleans`. Three interpreters give a
  clone of a clone, and a third one that assigns or ends between the two
  steps of a `CLONE`.
* **c_library** (`MCCProgram`). 29 platforms: glibc, musl, Android, four BSDs, macOS,
  iOS, three Windows compilers, Cygwin, Solaris, AIX, HP-UX, IRIX, AmigaOS, VMS; big and
  little, with `int` of 2 and 4 and `long` of 4 and 8 bytes, with and without `SIZEOF_x` and
  `limits.h`. Each program includes `predef.h`, or one of six headers of it first.
  `OneSystem` and `OrderIsTheMachines` are about what the preprocessor found.
  `WireValue`, `ShortestForm` and `RealOnWire` are about the bytes of every function
  on every build, for integers at both sides of each threshold and sign, and
  lengths at both sides of each header. `Contents`, `NoDanglingRef`, `ZStream` and
  `ZoneBlocks` are about three calls (`MaxCalls`) on one destination: sizes are 5
  bits wide and an sbuffer starts with 2 bytes, so that three pieces of 0, 3, 5, 9
  or 12 bytes reach doubling, wrapping, copies and references; `ref_size` is 0, 9 or
  10, below, at and above the length of the longest header; an array of finalizers starts with 2
  places, so that it is extended and used; a zlib block starts with one
  byte and `deflate` gives at most 2 a call, so that one call grows it several times.
  The destinations other than an sbuffer are tried on one build: they handle bytes
  and do not ask how these were made.

**Fairness.** `StreamUnpacker` assumes weak fairness of `Run \/ Return`: a call
that has begun is one C function and runs until it returns. Nothing forces the
program to call. `OneShotUnpack` assumes it of the call as well.
`PPUnpacker` assumes it of the loop of `execute`, `Packer` of the steps of `pack`.
`StreamClient` assumes it of the whole program: it is one loop that runs on over bytes
that are there. `Interpreter` and `CProgram`
assume none.

**Deadlock** is checked in the passing runs whose program can always go on: it may
destroy its unpacker and make a new one. It is not checked in `client` (the
program ends), `interp` (no interpreter is left to make) and `c_library` (a
compilation stops at `#error`, and calls are bounded).

**Deviations** that the properties except by name, or that no run shows:

* `_execute_impl` calls `template_init` on insufficient bytes and forgets the containers
  built so far (`unpack.c:429`): every unfinished `execute` leaks them, which
  `LeaksOnlyWhenAbandoning` allows by name; `xt/leaks/stream.t:42` bounds that loop's memory.
* With an offset and too few bytes `execute` keeps the bytes before the offset too
  (`unpack.c:430`).
* For an object without `prefer_integer` XS asks `$PreferInteger` (`pack.c:325-333`), PP takes
  false (`PP.pm:236`): then strings that look like integers are packed differently
  (`OnlyXSPrefers`). For a call on the class only PP asks `$Canonical` (`PP.pm:181`), and where the
  property is absent XS does not initialise the field (`pack.c:336`): the pairs of a
  hash may come in another order (`SameOrder`). Then the two packers' bytes decode to the same value,
  or both refuse; `AgreesWithPP` says so unless two keys become one or a tied hash changes.
* `vrefbuffer` keeps a piece of `ref_size` bytes by reference and does not ask where it lies
  (`vrefbuffer.h:118`): with a `ref_size` of up to 9 the headers and numbers that long are kept as
  references to variables of packing functions that have returned. `NoDanglingRef` excepts
  exactly these; a program is safe with a `ref_size` of 10 or more, such as the 32 of
  `MSGPACK_VREFBUFFER_REF_SIZE`, which nothing enforces.
* Where `int` has 2 bytes `1<<16` is undefined (`pack_template.h:83,196`): an integer of a type of 4 bytes
  from 256 to 65535 takes the 32 bit form. `ShortestForm` names it; the value is right.
* Both packers append the bytes Perl keeps for a string (`pack.c:187`); the pod has
  `utf8::encode` applied to it (`MessagePack.pm:156`).
* Only XS packs references to scalars; strings with a newline at the end, and with more than ten
  digits, are integers for one of the packers only (`Comparable`); the pure Perl headers are longer at 255 and
  65535 (`LongerHeader`).
* The pure Perl packer spends a level of `max_depth` on the integer it makes of a
  string (`PP.pm:245`) and on a slot without an SV (`CountsMore`), and dies for data that is not nested (`MessagePack.pm:120`).
* All copies of a boolean refer to one scalar of the interpreter, which a program can
  change; each clone adds one more magic to `$PreferInteger`; an Unpacker object in
  a cloned interpreter has the address of the same C context (`unpack.c:528`, no
  `CLONE_SKIP`).
* `cygwin.h` and `dragonfly.h` set macros of other names than they announce; the
  version of FreeBSD 10.0 becomes 0.0.0, "not available"; with `linux.h` included
  first Android is Linux, and with `free.h` first after `sys/param.h` FreeBSD is no
  BSD in particular; nothing ever defines the `MSGPACK_ARCH_PARISK` and `_AMD64` that
  `endian.h` asks for.
* A double has its words swapped on old ARM compilers that keep them in natural order
  (`pack_template.h:668`).
* `msgpack_zbuffer_flush` answers NULL, as after a failure, when the block is full at
  entry; a FILE write of no bytes returns -1; a FILE and a zlib stream may hold a
  part of a piece whose write failed.

## 4. The proofs

TLC checks the properties of section 3 on small instances; the theorems state most of
them for every value of the constants. `PROJECT.json` lists which theorem states which
property. Each rests on the assumptions on constants that the modules state and TLC
evaluates, and on the hypotheses named here.

**The parser means what the decoder means** (`UnpackTemplate_proofs`, over
`PPUnpack_proofs`). The C parser has no recursion, `_unpack` of `PP.pm` is nothing
else. The calls of `_unpack` that have not returned are the parser's stack: `Linked`
names, for each level, the result that the row of calls at that level will have, and
says how the frame below and that result make the one below. `Agrees` adds
what the parser has in hand: before a header nothing, in a trail the
number or length it waits for, at a push the value. So the meaning of the whole string
is that of the bytes ahead, put into the frames. One lemma per step of the parser says
that the meaning stays the same (`HeaderScalarAgrees` to `PushMapKeyAgrees`,
`ParseStepAgrees`). Recursive operators are out of the prover's reach and so is
induction with an operator as parameter; both are avoided: `Unpack` is a recursive
function of the rest of the string and the number of items wanted, and
`UnpackDefined` shows that a function with its equation exists, by choosing a least
counterexample in a well-founded set (`WFMin`, `LeastNat`). From then on only its
equation is used.

`OneShotUnpack_proofs`:

* `UnpackAgreesWithPP`: `AgreesWithPP`, for every byte string and every stack size. The
  invariant `AgreesInv` is `Agrees` while the parser runs, and the outcome that belongs to
  how it stopped afterwards. The deviations are those of the property: ext types,
  and nesting beyond the stack, for which a result carries its depth.
* `UnpackOwnsEverySV`: `ValueOwnsEverySV`. `SvInv` says what each frame owns: its
  container with what was put into it, and a map its key. Every step changes `live` by what it
  changes the sum over the stack by, or forgets the root frame (`SvsKept`). A hash may
  get a key twice and must then release the value it had, with all the SVs that one
  owns: its count is that of the set `Owns`, of one element per SV (`Cardinality` in place
  of a sum over the keys).

`StreamUnpacker_proofs`, for every stack size, every set of arguments and every bound on
the number of calls:

* `TypeCorrect`, `CountersPositive` and `BoundsRespected`: `TypeOK`, `FramesOpen`
  and `ReadsInBounds` are invariants. None is inductive alone. That `p` stays
  inside needs the trail to be what the state asks for (a number's width, read by
  `BE`), that counters stay positive needs the types of the frames, and so on; the
  inductive invariant `IInv` is their conjunction with `LengthTrail`, which says
  that a state with a fixed-width trail has a trail that `BE` reads, for the
  locals and for the stored context. The proof has one step per action of the
  parser and of the calls.
* `FreshContext`: `ContextIsFresh`, strengthened to `FreshInv` (the locals mirror
  the context, and nothing parses without an Unpacker).
* `CarefulIsDefined`: under the assumption `Careful`, `NeverUndefined`. Without it
  the statement is false, as run stream_stale's behaviours show.
* `FinishedValue`: `FinishedHasData`, from `FreshInv` and `ValueInv` (every open
  frame and every value about to be pushed holds an SV).
* `Refinement`: `ImplementsStream`, under `Careful` and with all offsets 0. `Deciding`
  says that a running call is on its way to the meaning of the buffered and the new
  bytes together; it returns having consumed exactly one message, or keeps every
  byte. `StreamStep` maps each step to a step of `MessageStream` or a stutter. The
  second hypothesis is needed: with buffered bytes the code parses from offset 0 and
  ignores the one it was given (`unpack.c:414`), and without them it keeps the bytes
  before it (`unpack.c:430`).
* `NothingFreedTwice` and `OnlyAbandonedLeaks`: `NoDoubleFree`, for every program, and
  `LeaksOnlyWhenAbandoning`, under `Careful`, from `SvInv` (a step never lowers the
  number of SVs nothing points to, and raises it only where `Abandons` says so).
* `ClientGetsEachOnce` and `ClientLosesNothing`: `EachOnceInOrder` and `NoByteLost`, for the
  three loops, all streams of messages that `StreamsAssumption` allows (whole ones that fit the stack, as
  the tests send), all cuts, and pieces of any size. `ClientInv` says where the next message is: between
  two calls it begins in what the unpacker keeps, goes on in the string and ends in what
  is still to come (`Between`), or, in `t/10`, waits in the unpacker (`Holding`); while a call
  runs, it begins at the offset (`Calling`); then it was found, and the offset is its end
  (`Found`), or what there is of it was kept (`Waiting`). That a message means the
  same when other bytes follow or precede it is `UnpackEmbeds`, that a shorter piece of it
  is never a message of its own is in `MessageAt`.

`PPUnpacker_proofs`, for every set of calls, with or without resets:

* `TypeCorrect` and `AllRead`: `TypeOK`, which includes that every open container
  waits for at least one item, and `NothingLeftUnread`; their conjunction is
  inductive. The step that is not routine is `CountedType`: popping leaves the
  deepest container that is not full, which exists because a bounded set of
  numbers has a greatest element (`GreatestNat`).
* `EndsFound`: `ScannerFindsMessageEnd`. A call counts with a stack, the decoder recurses;
  `Chain` relates the two. For each level of the stack it names a result that ends as the
  decoder's does for what is still due there: at the top the items from `p` on, at each
  level below the result of the one above followed by the items that remain. `Popped` takes
  the full levels off by induction over the stack (`Unwound`), `Pushed` adds one. When the
  scanner has gone beyond the bytes, the decoder has died for want of them (`Scanned`). That
  `data` decodes the same value from the bytes up to the end is `DecodeCut`, which
  follows from `UnpackEmbeds`: cutting off what is behind a value takes nothing from it.
* `Refinement`: `ImplementsStream`, under `Careful`, with all offsets 0, for behaviours in
  which a reported message is all there (`WholeItems`). Without the last hypothesis it is
  false, as run pp_early shows; the pieces of pp_refines satisfy it. The end that
  `MessageStream` wants is the decoder's by `ScanInv`. `StreamStep` has one step per action.

`Packer_proofs`, for all data (any heap of arrays and hashes, whatever they
refer to), any properties, any `INIT_SIZE` and any rounding of allocations:

* `TypeCorrect`: `TypeOK`. That the output is bytes rests on `IntegerBytes` and
  `HeaderBytes`; that the packer only follows references
  into the heap it was given rests on the types of `work` and `loops`.
* `BufferBound`: `BufferHolds`, which is inductive together with `TypeOK`. A piece
  that fits before `end` leaves room for the NUL, and one that does not makes the
  buffer grow by at least its length plus one (`AppendBufHolds`).
* `BoundedRecursion`: `RecursionBounded`. The depth passed on is `max_depth` less
  the number of loops entered, and a loop is entered only with a depth above zero.
* `NestingDecided`: `NestingLimit`, for data that is shared or contains itself too. Three
  invariants: the SVs due and the arrays and hashes of the loops lie as many references
  down as loops run around them (`OnTheirLevels`); of the SVs due only the last can be
  a reference, so none is packed at the wrong depth (`KeysComeFirst`); and a chain of
  references from the argument to the limit is never passed by: it goes through an SV due
  or through what is left of a loop (`DeepIsAhead`). When nothing is due and no loop runs,
  there is no such chain (`AtLimitIsDeep`). `Levels` is a recursive function, shown to
  exist first (`LevelsAre`).
* `KeptForClients`: the same for the program of `PackClient`, whose calls are steps of
  `Packer` each (`Moves`).
* `PackIsAFunction`. The rest rests on it: what the loops, the SVs due, the pieces pending and
  the buffer come to is what a function of the data, `XSPackSV`, makes of the argument,
  bytes or the reason of a croak, for data of any size, shared or looping. The function
  recurses on the depth only; that its table `XSTable` exists is proved by induction over the
  depth (`XSTableExists`), and that the concatenation of what the items make exists over their number
  (`RestsExist`). `Ahead` says how what is left, loop by loop, completes the bytes written so
  far. It is the inductive invariant (`Packs`), with `FewDue`: at most two pieces and two SVs wait.
* `CanonicalIsTheSame`: `CanonicalIsUnique`. The keys of a hash differ, as Perl has it
  (`HeldAssumption`), so each pair has its rank, the number of keys before its own, and the
  canonical loop takes them by rank (`NextInOrder`). Two hashes with the same pairs have the same ranks,
  hence are packed alike (`SameKeyOrder`), and so at every depth.
* `WholeRoundTrip`: `RoundTrip`, for all data Perl can hold (`HeldAssumption`: integers of 64
  bits, doubles of 8 bytes, fewer than 2^32 - 1 bytes, items or pairs, different keys). `Reads(b, m)`
  says that the decoder, wherever it finds the bytes b, makes the value m and goes on
  behind them. Scalars and headers are read by the two theorems below; bytes behind each other are read as
  the row of their values (`RowsRead`); a header and as many rows as it counts are read as the
  container (`ArrayCounted`, `HashFilled`); and by induction over the depth everything is read as
  what it means (`TablesRead`). The canonical order permutes the pairs, and a hash whose keys
  differ does not depend on the order (`SameFilled`).
* `BothPackAlike`: `AgreesWithPP`, of the XS packer's program and `PPPack`, for the same data, each
  with its own settings and with `$Canonical` set or not. `SettingsInv` says that `enc` is what the self of the call and
  `$PreferInteger` make it, and `SettingsMirror` compares that with `PP_Self`; where only XS prefers
  integers, no string of the data is one, so that PP's settings mean the same (`TakenAlike`,
  `TablesTakenAlike`). Where the pairs come in another order, both packers' bytes are
  read as what the data means, which is one value (`StableSame`, `AgreeOutOfOrder`). `RulesNow` says for the data of a call, as the property does, when the bytes have to be
  equal, when only their values, and whether PP may find more levels; `Agree` is what two results
  owe each other under such rules. Rows that agree item by item agree (`AgreeThen`, `RestsAgree`);
  a longer header of PP's counts the same (`PPHeadersCount`), so containers agree when their rows do;
  and by induction over the depth everything does (`TablesAgree`). PP's own recursion,
  over depth and items, is shown to exist first (`RowsAre`). Together with `PackIsAFunction` this carries
  over to what the loops of XS return.
* `IntegerRoundTrip`, which TLC cannot reach with its 32 bit integers: for every
  integer of an IV or a UV, at any place of any string,
  the bytes `pack_template.h` writes are read by `_unpack` as that integer, and
  `$p` is behind them. The argument is Horner's: each digit of base 256 that
  `Buf3`, `Buf5` and `Buf9` cut off is put back by `BigEndian`, once the first one,
  read with or without sign, is worth what is left of the number (`FirstByteFits`).
* `SizeRoundTrip`: the same for the headers of arrays, maps, strs and bins of any
  size of 32 bits, against `_fetch_size` and the kinds of `@typemap`.
* `SameIntegers`: `pack_template.h` and `PP.pm` write the same bytes for every
  integer. Each chooses the form by comparisons of its own, and `CORE::pack` joins a
  long one from two shorter; the pieces are put together in `Pieces` and are the
  buffers of the templates in `SameForms`.

`Interpreter_proofs`, for any number of interpreters and in any order of steps:

* `ThreadLocal`: `PreferIntegerIsThreadLocal`. It is not inductive: an assignment
  in one interpreter could reach another's copy. The invariant adds that `MY_CXT` of a
  running XS interpreter lies with that interpreter, and what a clone that is
  between its steps still shares with its parent, who waits for it.
* `BooleansAreOwn`: `OwnBooleans`, from the same facts about `unpackAt`.

`CProgram_proofs`. First the functions, on every build whose byte order was detected
right:

* `NetworkOrder`: each means `sysdep.h` has of swapping, or of not swapping, makes stores
  write and loads read network order. The swaps are reversals of digits, and two
  of them are none (`ReversedTwice`).
* `SizedIntegersOnWire`: each integer of 1, 2, 4 or 8 digits, where TLC tries the
  thresholds only, is packed as a form of the format that reads as that integer.
  Everything rests on `Wider`: digits in front that repeat the sign of the rest
  change nothing.
* `TypedIntegersOnWire`: the same for the C types, given `TrueSizes`: `SIZEOF_x` and
  `x_MAX` say what `sizeof` says.

Then the program, for all platforms, values, lengths, bodies, sizes of memory, orders of
calls, and whichever allocation, write or `deflate` fails. `CInv` has four parts.
`Preprocessing`: none of the headers of `predef` defines a macro that says how large a type is or
what numbers an ARM keeps (`SameFacts`), so these stay what compiler and platform say
(`Told`). `Building`: the program is then compiled on a build that knows the truth (`Fit`).
`Packing`: the destination has its own invariant (`Holds`). `Meaning`: the bytes of the last
call mean what it packed.

* `WireIsTheValue` and `WireIsTheReal`: `WireValue` and `RealOnWire` in every state in which
  `OrderIsTheMachines` holds. That hypothesis is the one the functions need, and TLC
  checks it on every platform of c_library; it cannot be proved for all platforms, whose
  macros may say anything. `PlatformsAssumption` asks only for what compilers do: macros
  about sizes that are defined are true, sizes are 2, 4 or 8, and words of doubles are swapped only on ARM
  without the EABI. A build that settled on the wrong order would break both.
* `WireIsShort`: `ShortestForm`, in every reachable state, since the number of bytes does
  not depend on the byte order. It has the exception of the property for an `int` of 2 bytes. `ShortestLen` asks for the least width whose last digits
  say all of the integer (`Kept`); the lemmas `HeldFrom0` and `HeldBelow0` say that these are the widths
  that pass the comparisons of the function (`Fits`, `FitsBelow0`), and `RealBrief` that the
  chains of comparisons find the least. The invariant is `BriefCall`, over `CInv`.
* `DestinationsHoldTheCalls`: `Contents`. An sbuffer's block holds its data whatever
  wraps while it doubles (`SBuffer`); what a vector joins, a recursive function, is defined
  (`JoinedIs`) and grows by what was written (`JoinedAppend`).
* `NothingDangles`: `NoDanglingRef`, whatever `ref_size` is. The packing functions hand over at most
  9 bytes of their own, and a vector keeps by reference only what is as long as its
  `ref_size` (`VRefBuffer`).
* `CompressedOutputIsWhole`: `ZStream`. `ZGood` says that output in the block is numbered up
  to what was made, and what is used and what is free add up to the block; each turn of the
  loops of `zbuffer.h` keeps it, and what all turns keep the call keeps.
* `BlocksAreApart`: `ZoneBlocks`. `Blocks` adds to the property what is left of each
  zone: it lies in a chunk, apart from all that was handed out, from the other zone's rest,
  and below the end of memory. `pushed` has the finalizers of all calls that succeeded; `Numbered` says that the
  arrays have these and no others, in the order of the calls, so that neither growth nor
  `swap` loses one. A new chunk is large enough for what was asked
  (`ChunkForIsEnough`).

**Only model-checked.** Liveness (`Terminates`, `Returns`, `Finishes`, `AllDelivered`)
is out of the prover's reach. `OneSystem`
and `OrderIsTheMachines` are about the listed platforms, and say nothing of arbitrary macros.

## 5. Not modelled

* Of the XS and Perl code: allocation failure; a `limit` larger than the string, which
  the code does not check; scalars that are several things at once, magic and
  overloading while packing; executing on after a croak without a reset, when the
  frames may hold released values; aliases to the SV that `data` returns; builds
  with 32 bit IVs; that `reset` leaves `finished` as it was is in the model, but
  nothing is claimed about it. The setters of `MessagePack.pm` are assignments.
* Of the C headers: `unpack.h`, `object.h`, `gcc_atomic.h` and `util.h` declare functions whose
  C files are not here; the predef headers for compilers, languages, standard
  libraries, platforms and other C libraries set macros nothing asks for;
  destruction of destinations and zones.
* Build scripts and benchmarks: I/O and timing.

## 6. Order of the work

1. The core: parser, callbacks, one-shot and streaming XS unpackers, pure Perl
   decoder.
2. `PPUnpacker`, its scanner against the decoder, and `MessageStream` as what it
   should implement; the sticky `$_utf8`.
3. `Packer` over data in a heap, with the output buffer; the pure Perl packer as a
   second encoder; proofs of the bounds and of the round trip of numbers.
4. `StreamClient`: messages in order, each once, all in the end.
5. `Interpreter`: the boolean cache, `PreferInteger`, `CLONE`.
6. The C library: `Predef` to `Zone`, composed in `CProgram`.
7. Proofs of most of what the runs check (section 4). Left to model:
   a thread that is cloned while it owns an Unpacker object.
