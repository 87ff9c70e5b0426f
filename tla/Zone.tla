---------------------------------- MODULE Zone ----------------------------------
(******************************************************************************)
(* zone.h: a pool of memory that hands out parts of its newest chunk and frees *)
(* all of them at once, calling the finalizers pushed onto it.  Addresses are  *)
(* numbers; the heap hands out rising ones, so that no two chunks ever share   *)
(* an address.                                                                 *)
(*   ptr, free      what is left of the newest chunk                           *)
(*   chunks         their memory behind the header, <<first, last>>            *)
(*   finalizers     the array up to tail; room: up to end                      *)
(******************************************************************************)
EXTENDS Integers, Sequences

CONSTANTS Align,                \* MSGPACK_ZONE_ALIGN
          ChunkHeader,          \* sizeof(msgpack_zone_chunk)
          ChunkSize,            \* chunk_size of zone_init
          FirstFinalizers       \* room of the first array of finalizers

(* malloc aligns to Align at least, and so does the header: msgpack_zone_malloc *)
(* rounds what the expansion returns down, which must not reach the header.    *)
ASSUME ZoneAssumption ==
  /\ Align \in Nat \ {0} /\ ChunkHeader \in Nat \ {0} /\ ChunkSize \in Nat \ {0}
  /\ ChunkHeader % Align = 0
  /\ FirstFinalizers \in Nat \ {0}

Block(first, size) == <<first, first + size - 1>>

(* The functions of zone.c, which is not here.  zone_new allocates one chunk;  *)
(* malloc_expand allocates one that is big enough, of chunk_size doubled as    *)
(* often as needed, and takes size bytes from its start; NULL is 0.            *)
zone_new(brk) ==
  [ptr |-> brk + ChunkHeader, free |-> ChunkSize, room |-> 0, finalizers |-> << >>,
   chunks |-> {Block(brk + ChunkHeader, ChunkSize)}]

ChunkFor(size) ==
  LET Doubled[k \in 0 .. size] == IF k = 0 THEN ChunkSize ELSE 2 * Doubled[k - 1]
      enough == {k \in 0 .. size : Doubled[k] >= size}
  IN Doubled[CHOOSE k \in enough : \A j \in enough : k <= j]

malloc_expand(zone, size, brk) ==
  LET first == brk + ChunkHeader
      sz == ChunkFor(size)
  IN {[ret |-> 0, zone |-> zone, brk |-> brk],
      [ret |-> first,
       zone |-> [zone EXCEPT !.ptr = first + size, !.free = sz - size,
                             !.chunks = @ \cup {Block(first, sz)}],
       brk |-> ((first + sz + Align - 1) \div Align) * Align]}

-------------------------------------------------------------------------------
Up(p) == ((p + Align - 1) \div Align) * Align
Down(p) == (p \div Align) * Align

zone_malloc_no_align(zone, size, brk) ==
  IF zone.free < size THEN malloc_expand(zone, size, brk)
  ELSE {[ret |-> zone.ptr, brk |-> brk,
         zone |-> [zone EXCEPT !.free = @ - size, !.ptr = @ + size]]}

zone_malloc(zone, size, brk) ==
  LET aligned == Up(zone.ptr)
      adjusted == size + (aligned - zone.ptr)
  IN IF zone.free >= adjusted
     THEN {[ret |-> aligned, brk |-> brk,
            zone |-> [zone EXCEPT !.free = @ - adjusted, !.ptr = @ + adjusted]]}
     ELSE {[o EXCEPT !.ret = Down(@)] : o \in malloc_expand(zone, size + Align - 1, brk)}

(* The array is full: the expansion, outside, makes or doubles it, or fails.   *)
push_finalizer_expand(zone, f) ==
  {[ret |-> FALSE, zone |-> zone],
   [ret |-> TRUE,
    zone |-> [zone EXCEPT !.finalizers = Append(@, f),
                          !.room = IF @ = 0 THEN FirstFinalizers ELSE @ * 2]]}

(* Mutant: the tail stays where it is, and the next one takes its place.       *)
push_finalizerStays(zone, f) ==
  IF Len(zone.finalizers) = zone.room THEN push_finalizer_expand(zone, f)
  ELSE {[ret |-> TRUE, zone |-> zone]}

push_finalizer(zone, f) ==
  IF Len(zone.finalizers) = zone.room THEN push_finalizer_expand(zone, f)
  ELSE {[ret |-> TRUE, zone |-> [zone EXCEPT !.finalizers = Append(@, f)]]}
===============================================================================
