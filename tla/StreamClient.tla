------------------------------ MODULE StreamClient ------------------------------
(******************************************************************************)
(* A program that gets messages with the XS streaming unpacker, as three of    *)
(* the tests do; loop says which one of them it is:                            *)
(*   "t/09"   t/09_stddata.t has all bytes and executes them again and again   *)
(*            at the offset that the last execute returned                     *)
(*   "t/10"   t/10_splitted_bytes.t reads one message in pieces, executes each *)
(*            of them and takes the data at the end of the file                *)
(*   "t/11"   t/11_stream_unpack3.t cuts off what execute has used, and leaves *)
(*            the loop at a message that is not finished                       *)
(******************************************************************************)
EXTENDS StreamUnpacker

CONSTANTS Streams,              \* sequences of messages that may be sent
          MaxRead               \* bound: bytes of a piece in t/10

(* The tests send whole messages that the parser's stack can hold.            *)
Sendable(m) ==
  LET r == Decode(m, FALSE) IN
  r.status = "ok" /\ r.p = Len(m) /\ r.depth <= StackSize
ASSUME StreamsAssumption ==
  /\ Streams \subseteq Seq(Seq(Byte))
  /\ \A messages \in Streams : \A i \in DOMAIN messages : Sendable(messages[i])

VARIABLES sent,                 \* the messages
          incoming,             \* the bytes not read
          loop,                 \* the program
          step,                 \* what it does next: "read", "execute", "look", "end"
          piece,                \* $mpac, $buff or $buffer
          nread,                \* $offset, $done or $nread
          delivered             \* the values the program got

clientvars == <<sent, incoming, loop, step, piece, nread, delivered>>
allvars == <<vars, clientvars>>

(* The bytes of the messages from the i-th on.                                 *)
BytesFrom(messages, i) ==
  LET B[j \in Nat] ==
        IF j > Len(messages) THEN << >> ELSE messages[j] \o B[j + 1] IN
  B[i]

ClientInit ==
  /\ SInit
  /\ sent \in Streams \ {<< >>}
  /\ incoming = BytesFrom(sent, 1)
  /\ loop \in {"t/09", "t/10", "t/11"} /\ (loop = "t/10" => Len(sent) = 1)
  /\ step = "read"
  /\ piece = << >> /\ nread = 0 /\ delivered = << >>

-------------------------------------------------------------------------------
(* The bytes that the program gets: t/09 has slurped all of them, read in t/10 *)
(* brings the next few, and $buffer in t/11 may end anywhere.                  *)
Arrives(n) ==
  CASE loop = "t/09" -> n = Len(incoming)
    [] loop = "t/10" -> n <= MaxRead \/ n = Len(incoming)
    [] loop = "t/11" -> TRUE

Read ==
  /\ step = "read" /\ incoming # << >>
  /\ \E n \in 1 .. Len(incoming) :
       /\ Arrives(n)
       /\ piece' = SubSeq(incoming, 1, n)
       /\ incoming' = SubSeq(incoming, n + 1, Len(incoming))
  /\ step' = "execute"
  /\ UNCHANGED <<vars, sent, loop, nread, delivered>>

(* t/10 leaves the offset out.                                                 *)
Offset == IF loop = "t/10" THEN 0 ELSE nread

(* $nread = $unpacker->execute($buffer, $nread)                                *)
Call ==
  /\ step = "execute"
  /\ ExecuteCall([bytes |-> piece, offset |-> Offset, limit |-> Len(piece)])
  /\ step' = "look"
  /\ UNCHANGED <<sent, incoming, loop, piece, nread, delivered>>

CameBack(l) == step = "look" /\ Idle /\ loop = l

(* while($offset < length) { $offset = execute; data; reset }                  *)
TakeAtOffset ==
  /\ CameBack("t/09")
  /\ delivered' = Append(delivered, Data)
  /\ Reset
  /\ nread' = ret
  /\ step' = IF ret < Len(piece) THEN "execute" ELSE "end"
  /\ UNCHANGED <<sent, incoming, loop, piece>>

(* while(read) { $done = execute }                                             *)
ReadOn ==
  /\ CameBack("t/10")
  /\ nread' = ret /\ step' = "read"
  /\ UNCHANGED <<vars, sent, incoming, loop, piece, delivered>>

EndOfFile ==
  /\ step = "read" /\ incoming = << >>
  /\ delivered' = Append(delivered, Data)
  /\ step' = "end"
  /\ UNCHANGED <<vars, sent, incoming, loop, piece, nread>>

(* if($unpacker->is_finished) {                                                *)
(*     data; reset; $buffer = substr($buffer, $nread); $nread = 0; ...         *)
CutOff ==
  /\ CameBack("t/11") /\ is_finished
  /\ delivered' = Append(delivered, Data)
  /\ Reset
  /\ piece' = SubSeq(piece, ret + 1, Len(piece)) /\ nread' = 0
  /\ step' = IF piece' = << >> THEN "end" ELSE "execute"
  /\ UNCHANGED <<sent, incoming, loop>>

(* last                                                                        *)
Leave ==
  /\ CameBack("t/11") /\ ~is_finished
  /\ nread' = ret /\ step' = "end"
  /\ UNCHANGED <<vars, sent, incoming, loop, piece, delivered>>

ClientNext ==
  \/ Read \/ Call
  \/ TakeAtOffset \/ ReadOn \/ EndOfFile \/ CutOff \/ Leave
  \/ (Run \/ Return) /\ UNCHANGED clientvars

(* The program runs on.                                                        *)
ClientSpec == ClientInit /\ [][ClientNext]_allvars /\ WF_allvars(ClientNext)

-------------------------------------------------------------------------------
(* The values the program gets are those of the messages sent, each once and   *)
(* in their order, wherever the pieces are cut: t/09 takes data after every    *)
(* execute, and t/10 only at the end.                                          *)
EachOnceInOrder ==
  /\ Len(delivered) <= Len(sent)
  /\ \A i \in DOMAIN delivered : delivered[i] = Decode(sent[i], utf8).val

(* In t/10 a message waits in the unpacker until the file ends.                *)
Received == Len(delivered) + IF step = "read" /\ is_finished THEN 1 ELSE 0

NextBytes == IF step = "execute" THEN SubSeq(piece, Offset + 1, Len(piece)) ELSE << >>

(* Between calls no byte is lost or there twice: what the unpacker keeps, what *)
(* the next call gets and what is still to come are the messages not received. *)
(* In t/10 the last execute returns the length of the message: the offset      *)
(* counts the bytes kept before, and fits the cut of t/11 where none were.     *)
NoByteLost ==
  /\ step # "look" =>
       BytesFrom(sent, Received + 1) = buffer \o NextBytes \o incoming
  /\ loop = "t/10" /\ step = "end" => nread = Len(sent[1])

(* Each program comes to its end with every message that it has all bytes of;  *)
(* only t/11 may have part of another, and the unpacker has kept that.         *)
AllDelivered ==
  <>[](/\ step = "end"
       /\ IF incoming = << >> THEN Len(delivered) = Len(sent)
          ELSE Len(buffer) < Len(sent[Len(delivered) + 1]))
===============================================================================
