------------------------------ MODULE PPUnpacker ------------------------------
(******************************************************************************)
(* Data::MessagePack::PP::Unpacker of lib/Data/MessagePack/PP.pm.  execute     *)
(* only counts: it runs _count over all bytes since the last reset, to find    *)
(* where the first message ends, and data decodes the bytes up to there.       *)
(*                                                                             *)
(* The one-shot unpack is here for the package variable $_utf8, which all      *)
(* decoders of an interpreter share.                                           *)
(******************************************************************************)
EXTENDS PPUnpack

CONSTANTS
  Arguments,    \* the calls: records [bytes, offset, limit]; limit 0 is undef
  Utf8Args,     \* the Booleans utf8() and the utf8 property are set to
  Careful,      \* TRUE: the program resets after a message and after a croak
  MaxCalls      \* bound: how often a behaviour calls execute

ASSUME ArgumentsAssumption ==
  Arguments \subseteq [bytes : Seq(Byte), offset : Nat, limit : Nat]
ASSUME Utf8ArgsAssumption == Utf8Args \subseteq BOOLEAN
ASSUME CarefulAssumption == Careful \in BOOLEAN
ASSUME MaxCallsAssumption == MaxCalls \in Nat

VARIABLES
  buff, pos, is_finished, utf8,     \* the fields of the object
  stack,        \* $self->{stack}, local to execute: items still to come, per
                \* open container, and one for the container itself
  p,            \* $p, where _count is
  offset,       \* execute's argument
  pc,           \* "idle" or "counting"
  ret,          \* what the last execute returned
  last,         \* history: how the last execute ended, or "fresh"
  calls,        \* number of execute calls so far
  pkg_utf8,     \* $_utf8
  asked, got    \* history: the flag of the last one-shot unpack, and the one
                \* it decoded with

object == <<buff, pos, is_finished, utf8>>
locals == <<stack, p, offset, pc>>
history == <<ret, last, calls, asked, got>>
vars == <<object, locals, history, pkg_utf8>>

Init ==
  /\ buff = << >> /\ pos = 0 /\ is_finished = FALSE /\ utf8 = FALSE
  /\ stack = << >> /\ p = 0 /\ offset = 0 /\ pc = "idle"
  /\ ret = 0 /\ last = "fresh" /\ calls = 0
  /\ pkg_utf8 = FALSE /\ asked = FALSE /\ got = FALSE

-------------------------------------------------------------------------------
(* substr($data, $offset, $limit): here, unlike in XS, limit is a length.      *)
Value(a) ==
  LET rest == SubSeq(a.bytes, a.offset + 1, Len(a.bytes)) IN
  IF a.limit = 0 \/ a.limit > Len(rest) THEN rest ELSE SubSeq(rest, 1, a.limit)

(* execute, up to its loop.                                                    *)
ExecuteCall(a) ==
  /\ pc = "idle"
  /\ calls < MaxCalls
  /\ Careful => last \notin {"finished", "croaked"}
  /\ a.offset <= Len(a.bytes)
  /\ buff' = buff \o Value(a)
  /\ stack' = << >>
  /\ p' = 0
  /\ offset' = a.offset
  /\ pc' = "counting"
  /\ calls' = calls + 1
  /\ UNCHANGED <<pos, is_finished, utf8, ret, last, pkg_utf8, asked, got>>

(* The end of execute.                                                         *)
Leave(q, how) ==
  /\ pc' = "idle"
  /\ stack' = << >>
  /\ pos' = q
  /\ ret' = q + offset
  /\ last' = how

(* Mutant: a container is closed one item late.                                *)
FullLate(n) == n = 0
Full(n) == n = 1

CountedOnce(st) ==      \* mutant: if for while, one container at most is popped
  IF st = << >> THEN st
  ELSE IF Full(st[Len(st)]) THEN SubSeq(st, 1, Len(st) - 1)
  ELSE [st EXCEPT ![Len(st)] = @ - 1]

(* The while loop over the stack: one item less to come, and every container   *)
(* that this completes is popped.                                              *)
Counted(st) ==
  LET open == {i \in DOMAIN st : ~Full(st[i])} IN
  IF open = {} THEN << >>
  ELSE LET j == CHOOSE i \in open : \A k \in open : k <= i IN
       [SubSeq(st, 1, j) EXCEPT ![j] = @ - 1]

(* _count returned 1, with $p = q and the stack st.                            *)
AfterCount(q, st) ==
  LET rest == Counted(st) IN
  /\ p' = q
  /\ \/ /\ rest = << >>
        /\ is_finished' = TRUE
        /\ Leave(q, "finished")
     \/ /\ rest # << >>
        /\ stack' = rest
        /\ UNCHANGED <<is_finished, pc, pos, ret, last>>
  /\ UNCHANGED <<buff, utf8, offset, calls, pkg_utf8, asked, got>>

-------------------------------------------------------------------------------
(* _count of the byte at p, in the loop of execute; mutant: the loop stops     *)
(* before the last byte.                                                       *)
BytesLeftShort == p + 1 < Len(buff)
BytesLeft == p < Len(buff)
Counting == pc = "counting" /\ BytesLeft
Header == buff[p + 1]
AfterSize == p + 1 + SizeBytes(Header)

(* The size after the header.  unpack gives undef, a zero, when bytes lack.    *)
Size ==
  IF SizeBytes(Header) = 0 THEN FixSize(Header)
  ELSE IF AfterSize > Len(buff) THEN 0
  ELSE BE(SubSeq(buff, p + 2, AfterSize))

CountDirect ==
  /\ Counting
  /\ T_DIRECT(Header)
  /\ AfterCount(p + 1, stack)

CountBodyWaits ==       \* mutant: wait inside the call for the body
  /\ Counting
  /\ T_STR(Header) \/ T_BIN(Header)
  /\ IF AfterSize + Size > Len(buff) THEN UNCHANGED vars
     ELSE AfterCount(AfterSize + Size, stack)

CountBody ==
  /\ Counting
  /\ T_STR(Header) \/ T_BIN(Header)
  /\ AfterCount(AfterSize + Size, stack)

CountKeysOnly ==        \* mutant: a map of n pairs counted as n items
  /\ Counting
  /\ T_ARRAY(Header) \/ T_MAP(Header)
  /\ AfterCount(AfterSize, IF Size = 0 THEN stack ELSE Append(stack, Size + 1))

CountContainer ==
  /\ Counting
  /\ T_ARRAY(Header) \/ T_MAP(Header)
  /\ LET items == IF T_ARRAY(Header) THEN Size ELSE 2 * Size IN
       AfterCount(AfterSize,
                  IF Size = 0 THEN stack ELSE Append(stack, items + 1))

CountNumber ==
  /\ Counting
  /\ Header \in 202 .. 211
  /\ AfterCount(p + 1 + NumberWidth(Header), stack)

(* _unexpected: pos, is_finished and the value returned stay as they were.     *)
CountUnexpected ==
  /\ Counting
  /\ Header \in {193} \cup (199 .. 201) \cup (212 .. 216)
  /\ p' = p + 1
  /\ stack' = << >>
  /\ pc' = "idle"
  /\ last' = "croaked"
  /\ UNCHANGED <<object, offset, ret, calls, pkg_utf8, asked, got>>

(* No byte left for the next header.                                           *)
ReturnUnfinished ==
  /\ pc = "counting" /\ ~BytesLeft
  /\ Leave(p, "unfinished")
  /\ UNCHANGED <<buff, is_finished, utf8, p, offset, calls, pkg_utf8, asked, got>>

-------------------------------------------------------------------------------
(* utf8([$bool])                                                               *)
Utf8 ==
  /\ pc = "idle"
  /\ utf8' \in Utf8Args
  /\ UNCHANGED <<buff, pos, is_finished, locals, history, pkg_utf8>>

Reset ==
  /\ pc = "idle"
  /\ buff' = << >> /\ pos' = 0 /\ is_finished' = FALSE
  /\ last' = "fresh"
  /\ UNCHANGED <<utf8, locals, ret, calls, asked, got, pkg_utf8>>

(* new(), for the next Unpacker of the program.                                *)
New ==
  /\ pc = "idle"
  /\ buff' = << >> /\ pos' = 0 /\ is_finished' = FALSE /\ utf8' = FALSE
  /\ last' = "fresh"
  /\ UNCHANGED <<locals, ret, calls, asked, got, pkg_utf8>>

(* Data::MessagePack->unpack by an object whose utf8 property is u; u is FALSE *)
(* for a call on the class.  Where it leaves $p is of no consequence: execute  *)
(* and unpack both begin at 0.                                                 *)
OneShot(u) ==
  /\ pc = "idle"
  /\ p' = 0
  /\ pkg_utf8' = (u \/ pkg_utf8)
  /\ asked' = u
  /\ got' = pkg_utf8'
  /\ UNCHANGED <<object, stack, offset, pc, ret, last, calls>>

-------------------------------------------------------------------------------
Execute == \E a \in Arguments : ExecuteCall(a)
Count ==
  CountDirect \/ CountBody \/ CountContainer \/ CountNumber \/ CountUnexpected
UnpackOnce == \E u \in Utf8Args : OneShot(u)
Next ==
  Execute \/ Count \/ ReturnUnfinished \/ Utf8 \/ Reset \/ New \/ UnpackOnce

(* A call that has begun runs to its end: it is one Perl subroutine.           *)
Fairness == WF_vars(Count \/ ReturnUnfinished)

Spec == Init /\ [][Next]_vars /\ Fairness

-------------------------------------------------------------------------------
(* Types.  A container on the stack always has an item to come.                *)
TypeOK ==
  /\ buff \in Seq(Byte) /\ pos \in Nat
  /\ is_finished \in BOOLEAN /\ utf8 \in BOOLEAN
  /\ stack \in Seq(Nat \ {0}) /\ p \in Nat /\ offset \in Nat
  /\ pc \in {"idle", "counting"}
  /\ ret \in Nat /\ calls \in Nat
  /\ last \in {"fresh", "finished", "unfinished", "croaked"}
  /\ pkg_utf8 \in BOOLEAN /\ asked \in BOOLEAN /\ got \in BOOLEAN

(* execute asks for more bytes only when it has looked at all it has; when it  *)
(* has found a message, is_finished says so and the message is not empty; and  *)
(* after new or reset nothing is left of an earlier message.                   *)
NothingLeftUnread ==
  pc = "idle" =>
    /\ last = "unfinished" => pos >= Len(buff)
    /\ last = "finished" => is_finished /\ pos > 0
    /\ last = "fresh" => buff = << >> /\ pos = 0 /\ ~is_finished

-------------------------------------------------------------------------------
(* What data decodes: substr of a position beyond the end gives all there is.  *)
Data == Decode(SubSeq(buff, 1, IF pos < Len(buff) THEN pos ELSE Len(buff)), utf8)

(* _count and _unpack read the format independently of each other.  Between    *)
(* calls they agree on every byte string however it came in: execute has found *)
(* an end inside the bytes exactly when _unpack decodes a message there, with  *)
(* the same end, and refuses exactly the bytes that _unpack refuses.           *)
ScannerFindsMessageEnd ==
  pc = "idle" /\ last # "fresh" =>
    LET message == Decode(buff, utf8) IN
    /\ last = "finished" /\ pos <= Len(buff) <=> message.status = "ok"
    /\ message.status = "ok" => pos = message.p /\ Data.val = message.val
    /\ last = "croaked" <=> message.status = "unexpected"

-------------------------------------------------------------------------------
(* The abstract stream.  execute finds ends only: a value is made when data is *)
(* called, with the utf8 flag of that moment, so values are left out here, and *)
(* compared in ScannerFindsMessageEnd; nor does it limit how deeply they nest.  *)
EndOnly(s, text) == [Decode(s, text) EXCEPT !.val = NULL, !.depth = 0]

Stream == INSTANCE MessageStream WITH
  Decode  <- EndOnly,
  Chunks  <- {Value(a) : a \in Arguments},
  Depth   <- 0,
  pending <- IF last \in {"finished", "croaked"} THEN << >> ELSE buff,
  phase   <- IF pc # "idle" THEN "deciding"
             ELSE CASE last = "finished" -> "whole"
                    [] last = "croaked" -> "broken"
                    [] OTHER -> "reading",
  value   <- NULL,
  used    <- IF last = "finished" THEN ret ELSE 0,
  text    <- utf8

(* As long as no call ends inside a length, a number or a string, the pure     *)
(* Perl unpacker implements the stream that the XS one implements for all cuts.*)
ImplementsStream == Stream!Spec
===============================================================================
