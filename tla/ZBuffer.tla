-------------------------------- MODULE ZBuffer --------------------------------
(******************************************************************************)
(* zbuffer.h: a buffer that compresses what is written to it with zlib.        *)
(* zlib is outside: of its stream only the bookkeeping is kept.                *)
(*   data        the output that is in the block zbuf->data, the NULL block    *)
(*               being empty and without room; output is numbered 1, 2, ...    *)
(*   avail_out   room behind it; next_out is the end of data                   *)
(*   block       the bytes that realloc gave for it                            *)
(*   null        next_out and data are NULL                                    *)
(*   taken       the input that deflate has consumed since init or reset       *)
(*   made        how much output deflate has given since then                  *)
(*   state       "busy"; "finishing" once asked to finish; "finished"         *)
(******************************************************************************)
EXTENDS Integers, Sequences

CONSTANTS ZInit,                \* init_size
          ZReserve,             \* MSGPACK_ZBUFFER_RESERVE_SIZE
          ZPending              \* bound: output of one call of deflate

ASSUME ZAssumption == ZInit \in Nat \ {0} /\ ZReserve \in Nat \ {0} /\ ZPending \in Nat

Done(ret, to) == [ret |-> ret, to |-> to]

NULLBlock == <<0>>             \* what flush returns for NULL

zbuffer_init ==
  [data |-> << >>, avail_out |-> 0, block |-> 0, null |-> TRUE, taken |-> << >>, made |-> 0,
   state |-> "busy"]

-------------------------------------------------------------------------------
(* zlib: deflate puts out some n bytes of output.                              *)
Give(z, n) == [z EXCEPT !.data = @ \o [i \in 1 .. n |-> z.made + i],
                        !.avail_out = @ - n, !.made = @ + n]

Produced(z) == 0 .. (IF z.avail_out < ZPending THEN z.avail_out ELSE ZPending)

(* deflate(Z_NO_FLUSH): consumes as much of the input in as the room for       *)
(* output allows, all of it unless the room is filled.  After it was asked to  *)
(* finish it may refuse, and then it must.                                     *)
Deflate(z, in) ==
  {[status |-> "Z_STREAM_ERROR", z |-> z, in |-> in] :
     s \in {z.state} \cap (IF z.null THEN {z.state} ELSE {"finishing", "finished"})}
  \cup
  {[status |-> "Z_BUF_ERROR", z |-> z, in |-> in] :
     s \in {z.state} \cap (IF z.null \/ z.avail_out > 0 THEN {} ELSE {"busy", "finishing"})}
  \cup
  {[status |-> "Z_OK",
    z |-> [Give(z, p[1]) EXCEPT !.taken = @ \o SubSeq(in, 1, p[2])],
    in |-> SubSeq(in, p[2] + 1, Len(in))] :
     p \in {q \in Produced(z) \X (0 .. Len(in)) :
              /\ ~z.null /\ z.avail_out > 0 /\ z.state # "finished"
              /\ q[2] < Len(in) => q[1] = z.avail_out}}

(* deflate(Z_FINISH) without input: ends the stream unless it fills the room.  *)
(* Asked again, it has no more to put out.                                     *)
DeflateFinish(z) ==
  IF z.null THEN {[status |-> "Z_STREAM_ERROR", z |-> z]}
  ELSE IF z.avail_out = 0 THEN {[status |-> "Z_BUF_ERROR", z |-> z]}
  ELSE IF z.state = "finished" THEN {[status |-> "Z_STREAM_END", z |-> z]}
  ELSE {[status |-> "Z_STREAM_END", z |-> [Give(z, n) EXCEPT !.state = "finished"]] :
          n \in Produced(z) \ {0}}
       \cup {[status |-> "Z_OK", z |-> [Give(z, n) EXCEPT !.state = "finishing"]] :
               n \in Produced(z) \cap {z.avail_out}}

-------------------------------------------------------------------------------
(* Mutant: what is used of the block is not subtracted.                        *)
expandWhole(z) ==
  LET csize == Len(z.data) + z.avail_out
      nsize == IF csize = 0 THEN ZInit ELSE csize * 2
  IN [z EXCEPT !.null = FALSE, !.block = nsize, !.avail_out = nsize]

(* zbuffer_expand, when realloc gives the block.                               *)
expand(z) ==
  LET csize == Len(z.data) + z.avail_out
      nsize == IF csize = 0 THEN ZInit ELSE csize * 2
  IN [z EXCEPT !.null = FALSE, !.block = nsize, !.avail_out = nsize - Len(z.data)]

(* Bound: turns of the loops below, as many as any takes: each that is not the *)
(* last one has filled the room, which doubles and soon is more than ZPending. *)
ZTurns == ZPending + 2

(* One turn of the loop of zbuffer_write with the input in left.               *)
WriteTurn(z, in) ==
  LET roomy == IF z.avail_out < ZReserve THEN expand(z) ELSE z IN Deflate(roomy, in)

(* The loop goes on while there is input left; what it is after its turns.     *)
Going(d) == d.status = "Z_OK" /\ d.in # << >>

WriteTurns(z, buf) ==
  LET T[n \in 0 .. ZTurns] ==
        IF n = 0 THEN {[status |-> "Z_OK", z |-> z, in |-> buf]}
        ELSE UNION {WriteTurn(d.z, d.in) : d \in {e \in T[n - 1] : Going(e)}}
  IN UNION {T[n] : n \in 0 .. ZTurns}

(* It ends when all is consumed, when deflate refuses, or when memory is short.*)
zbuffer_write(z, buf) ==
  LET turns == WriteTurns(z, buf) IN
  {Done(IF d.status = "Z_OK" THEN 0 ELSE -1, d.z) : d \in {e \in turns : ~Going(e)}}
    \cup {Done(-1, d.z) : d \in {e \in turns : Going(e) /\ e.z.avail_out < ZReserve}}

(* zbuffer_flush: what the block holds, once the loop has finished the stream. *)
FlushTurns(z) ==
  LET T[n \in 0 .. ZTurns] ==
        IF n = 0 THEN DeflateFinish(z)
        ELSE UNION {DeflateFinish(expand(d.z)) : d \in {e \in T[n - 1] : e.status = "Z_OK"}}
  IN UNION {T[n] : n \in 0 .. ZTurns}

zbuffer_flush(z) ==
  {Done(IF d.status = "Z_STREAM_END" THEN d.z.data ELSE NULLBlock, d.z) : d \in FlushTurns(z)}

zbuffer_reset_buffer(z) == [z EXCEPT !.avail_out = @ + Len(z.data), !.data = << >>]

zbuffer_reset(z) ==
  [zbuffer_reset_buffer(z) EXCEPT !.taken = << >>, !.made = 0, !.state = "busy"]

(* What release_buffer returns is now the program's.                           *)
zbuffer_release_buffer(z) ==
  [z EXCEPT !.data = << >>, !.null = TRUE, !.block = 0, !.avail_out = 0]
===============================================================================
