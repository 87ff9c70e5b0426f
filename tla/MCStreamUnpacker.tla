---------------------------- MODULE MCStreamUnpacker ----------------------------
(* Model checking StreamUnpacker: the calls it is given.                       *)
EXTENDS StreamUnpacker

CONSTANTS Whole, Parts, Offsets

(* Calls with every string of Whole and of Parts, and with every limit that    *)
(* cuts a string short.                                                        *)
MCArguments ==
  {a \in [bytes : Whole \cup Parts, offset : Offsets, limit : 1 .. 4] :
     a.offset < a.limit /\ a.limit <= Len(a.bytes)}

(* Pieces of messages, small enough to fall between any two of their bytes.    *)
MCParts == {<<1>>, <<145>>, <<146>>, <<129>>, <<161>>, <<204>>, <<212>>, <<193>>}

(* The pieces a message of array, map, string and number is made of, and two   *)
(* messages to cut anywhere, one with bytes of the next behind it.             *)
MCBytewise == {<<1>>, <<146>>, <<129>>, <<161>>, <<204>>, <<212>>}

MCMessages == {<<145, 1, 204, 5>>, <<196, 1, 7>>}

(* Messages like those of t/23-empty-key.t:10-11, shorter.                     *)
MCEmptyKey == {<<145, 161, 97>>, <<145, 129, 160, 128>>}

(* Messages with bytes of the next one behind them, and messages cut inside a  *)
(* length or a body.                                                           *)
MCWhole == {<<145, 1, 204, 5>>, <<129, 161, 97, 192>>, <<196, 0>>, <<196, 1, 7>>,
            <<220, 0, 0>>, <<145, 145, 145>>}

-------------------------------------------------------------------------------
(* t/23-empty-key.t:46 expects the messages of a buffer one after the other    *)
(* when execute is called again without a reset: each finished call then has   *)
(* the value of the bytes it was given.                                        *)
FinishedValueIsDecoded ==
  pc = "finish" => Decode(data, utf8).val = TemplateData
===============================================================================
