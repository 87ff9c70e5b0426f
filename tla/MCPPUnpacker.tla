------------------------------ MODULE MCPPUnpacker ------------------------------
(* Model checking PPUnpacker: the calls it is given, and what can only be      *)
(* checked on small instances or does not hold.                                *)
EXTENDS PPUnpacker

CONSTANTS Pieces, Offsets, Limits

MCArguments ==
  {a \in [bytes : Pieces, offset : Offsets, limit : Limits] :
     a.offset <= Len(a.bytes)}

(* Single header and body bytes of every branch of _count, to be put together  *)
(* in any order, and a string for the offset and the limit to cut.             *)
MCBytes == {<<1>>, <<129>>, <<146>>, <<161>>, <<193>>, <<196>>, <<204>>,
            <<220>>, <<145, 1, 129>>}

(* Pieces that never end inside a length, a number or a string.                *)
MCItems == {<<1>>, <<146>>, <<129, 161, 97>>, <<204, 5>>, <<217, 0>>,
            <<145, 220, 0, 1>>, <<192, 128>>, <<193>>}

(* Strings of the t/11_stream_unpack3.t kind: a message, cut.                  *)
MCCut == {<<146>>, <<1>>, <<204>>, <<5>>}

-------------------------------------------------------------------------------
(* Every execute comes back to its caller.                                     *)
Returns == pc = "counting" ~> pc = "idle"

(* t/11_stream_unpack3.t:25-26 takes data as soon as is_finished is true: the  *)
(* message must be there.                                                      *)
FinishedHasMessage == pc = "idle" /\ is_finished => Data.status = "ok"

(* lib/Data/MessagePack.pm:158 calls utf8 a property that tells $mp to deal    *)
(* with text strings: unpack decodes with the property of its own object.      *)
UnpackUsesOwnProperty == got = asked
===============================================================================
