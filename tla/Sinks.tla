--------------------------------- MODULE Sinks ---------------------------------
(******************************************************************************)
(* The three plain destinations a packer can write to: sbuffer.h, a block of   *)
(* memory that grows; vrefbuffer.h, a vector of copies and references; and     *)
(* fbuffer.h, a C stream.  A write of a piece buf, a sequence of bytes, is the *)
(* set of its possible outcomes: [ret, to], the result of the function and the *)
(* destination afterwards.                                                     *)
(******************************************************************************)
EXTENDS Integers, Sequences

CONSTANTS SizeBits,             \* the bits of size_t
          SBufferInit           \* MSGPACK_SBUFFER_INIT_SIZE

SizeMax == 2 ^ SizeBits         \* size_t: 0 .. SizeMax - 1

ASSUME SizeAssumption == SizeBits \in Nat \ {0} /\ SBufferInit \in 1 .. SizeMax - 1

Outcome(ret, to) == [ret |-> ret, to |-> to]

-------------------------------------------------------------------------------
(* sbuffer.h: size bytes of data in a block of alloc bytes.                    *)
sbuffer_init == [data |-> << >>, alloc |-> 0]

(* The end of the loop that doubles nsize while it is less than need: the      *)
(* least of the doubles that is enough, or need when the next one would wrap.  *)
Doubles(nsize) == {nsize * 2 ^ k : k \in 0 .. SizeBits} \cap 0 .. SizeMax - 1

(* Mutant: one doubling, no loop.                                              *)
GrownOnce(nsize, need) == nsize

Grown(nsize, need) ==
  LET enough == {n \in Doubles(nsize) : n >= need} IN
  IF enough = {} THEN need ELSE CHOOSE n \in enough : \A k \in enough : n <= k

(* The block in which len more bytes are to be put.                            *)
Room(sbuf, len) ==
  IF sbuf.alloc - Len(sbuf.data) >= len THEN sbuf.alloc
  ELSE Grown(IF sbuf.alloc = 0 THEN SBufferInit ELSE (sbuf.alloc * 2) % SizeMax,
             Len(sbuf.data) + len)

(* realloc is asked only for a bigger block and may fail.                      *)
sbuffer_write(sbuf, buf) ==
  LET alloc == Room(sbuf, Len(buf)) IN
  {Outcome(0, [data |-> sbuf.data \o buf, alloc |-> alloc])}
    \cup IF alloc = sbuf.alloc THEN {} ELSE {Outcome(-1, sbuf)}

(* What release returns is now the program's.                                  *)
sbuffer_release(sbuf) == sbuffer_init
sbuffer_clear(sbuf) == [sbuf EXCEPT !.data = << >>]

-------------------------------------------------------------------------------
(* vrefbuffer.h: what the entries of its array stand for: bytes, whether they  *)
(* are copies in the inner buffer or references to the caller's, and where the *)
(* caller keeps them: "stack" for the variables of the packing functions.  The *)
(* program chooses ref_size.                                                   *)
Piece(ref, bytes, from) == [ref |-> ref, bytes |-> bytes, from |-> from]

vrefbuffer_init(ref_size) == [ref_size |-> ref_size, array |-> << >>]

(* append_copy and append_ref are functions of a C file that is not here: they *)
(* return nonzero when memory is short, with nothing appended.                 *)
append(vbuf, piece) ==
  {Outcome(0, [vbuf EXCEPT !.array = Append(@, piece)]), Outcome(-1, vbuf)}
append_copy(vbuf, buf, from) == append(vbuf, Piece(FALSE, buf, from))
append_ref(vbuf, buf, from) == append(vbuf, Piece(TRUE, buf, from))

(* Mutant: a piece that is one byte shorter is kept by reference too.          *)
vrefbuffer_writeShorter(vbuf, buf, from) ==
  IF Len(buf) + 1 < vbuf.ref_size THEN append_copy(vbuf, buf, from)
                                  ELSE append_ref(vbuf, buf, from)

vrefbuffer_write(vbuf, buf, from) ==
  IF Len(buf) < vbuf.ref_size THEN append_copy(vbuf, buf, from)
                              ELSE append_ref(vbuf, buf, from)

(* The longest bytes that pack_template.h takes from its own variables: those  *)
(* of a 64 bit number.                                                         *)
HeaderMax == 9

(* The entries that refer to a variable of a packing function, which has       *)
(* returned when a reader gets to them.                                        *)
Dangling(vbuf) == {i \in DOMAIN vbuf.array : vbuf.array[i].ref /\ vbuf.array[i].from = "stack"}

-------------------------------------------------------------------------------
(* fbuffer.h: fwrite of one object of Len(buf) bytes returns 0 objects when    *)
(* that is no byte, and also after writing a part of them.                     *)
fbuffer_write(file, buf) ==
  IF buf = << >> THEN {Outcome(-1, file)}
  ELSE {Outcome(0, file \o buf)}
         \cup {Outcome(-1, file \o SubSeq(buf, 1, n)) : n \in 0 .. Len(buf) - 1}
===============================================================================
