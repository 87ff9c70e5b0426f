------------------------------ MODULE MessageStream ------------------------------
(******************************************************************************)
(* What a streaming unpacker promises, without a parser: bytes pile up in      *)
(* pending until they hold one message; then the message and the offset behind *)
(* it are handed out.  Containers nest at most Depth deep.                     *)
(******************************************************************************)
EXTENDS PerlValue

CONSTANTS
  Decode(_, _), \* what a byte string means, with text: [status, val, p, depth]
  Chunks,       \* byte strings a call may bring
  Depth         \* deepest nesting the unpacker accepts

VARIABLES
  pending,      \* bytes of the message not complete yet
  phase,        \* "reading", "deciding" (inside a call), "whole" or "broken"
  value,        \* the message, when whole
  used,         \* the offset behind it in the bytes it was decoded from
  text          \* decode bin as text, the utf8 property

svars == <<pending, phase, value, used, text>>

Init ==
  /\ pending = << >> /\ phase = "reading" /\ value = NULL /\ used = 0
  /\ text = FALSE

Feed ==
  /\ phase = "reading"
  /\ \E chunk \in Chunks : pending' = pending \o chunk
  /\ phase' = "deciding"
  /\ UNCHANGED <<value, used, text>>

Meaning == Decode(pending, text)
Fits == Meaning.depth <= Depth

Complete ==
  /\ phase = "deciding"
  /\ Meaning.status = "ok" /\ Fits
  /\ phase' = "whole"
  /\ value' = Meaning.val
  /\ used' = Meaning.p
  /\ pending' = << >>
  /\ UNCHANGED text

(* An EXT value may be refused only when all of it is there.                   *)
WantMore ==
  /\ phase = "deciding"
  /\ Meaning.status # "ok" /\ Fits
  /\ phase' = "reading"
  /\ UNCHANGED <<pending, value, used, text>>

Refuse ==
  /\ phase = "deciding"
  /\ Meaning.status = "unexpected" \/ ~Fits
  /\ phase' = "broken"
  /\ pending' = << >>
  /\ UNCHANGED <<value, used, text>>

SetText ==
  /\ phase # "deciding"
  /\ text' \in BOOLEAN
  /\ UNCHANGED <<pending, phase, value, used>>

Restart ==
  /\ phase # "deciding"
  /\ pending' = << >> /\ phase' = "reading" /\ value' = NULL /\ used' = 0
  /\ text' \in {text, FALSE}

Next == Feed \/ Complete \/ WantMore \/ Refuse \/ SetText \/ Restart

Spec == Init /\ [][Next]_svars
===============================================================================
