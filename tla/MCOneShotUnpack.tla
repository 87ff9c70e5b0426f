----------------------------- MODULE MCOneShotUnpack -----------------------------
(* Model checking OneShotUnpack on all short strings over an alphabet with at  *)
(* least one header byte of every branch of the parser, and on longer strings  *)
(* for the 16 and 32 bit lengths and for nesting beyond the stack.             *)
EXTENDS OneShotUnpack

CONSTANTS Alphabet, MaxLen

AllStrings == UNION {[1 .. n -> Alphabet] : n \in 0 .. MaxLen}

(* Strings a short enumeration does not reach.                                 *)
LongStrings == {
  <<206, 0, 1, 2, 3>>, <<210, 0, 0, 1, 0>>, <<202, 63, 128, 0, 0>>,
  <<203, 63, 240, 0, 0, 0, 0, 0, 0>>, <<207, 0, 0, 0, 0, 0, 0, 1, 0>>,
  <<211, 0, 0, 0, 0, 0, 0, 0, 7>>, <<210, 255, 255, 1, 2>>,
  <<211, 255, 255, 255, 255, 255, 255, 255, 7>>, <<208, 127>>, <<208, 128>>,
  <<209, 255, 254>>, <<205, 1, 2>>,
  <<217, 2, 97, 98>>, <<218, 0, 1, 97>>, <<219, 0, 0, 0, 1, 97>>, <<217, 0>>,
  <<196, 1, 195>>, <<197, 0, 1, 97>>, <<198, 0, 0, 0, 0>>, <<198, 0, 0, 0, 1>>,
  <<199, 0>>, <<199, 0, 9>>, <<200, 0, 1, 9, 9>>, <<201, 255, 255, 255, 255>>,
  <<212, 1, 2>>, <<213, 1, 2>>, <<214, 1, 1, 1, 1, 1>>, <<215>>, <<216, 1>>,
  <<145, 212, 1, 2>>, <<129, 161, 97, 212, 1, 2>>,
  <<220, 0, 1, 192>>, <<221, 0, 0, 0, 2, 194, 195>>, <<220, 0, 0>>,
  <<222, 0, 1, 161, 97, 1>>, <<223, 0, 0, 0, 1, 192, 192>>, <<222, 0, 0>>,
  <<130, 161, 97, 1, 161, 97, 146, 1, 2>>,      \* a key given twice
  <<130, 1, 161, 97, 161, 49, 192>>,            \* 1 and "1" are one key
  <<130, 192, 1, 160, 2>>,                      \* so are undef and ""
  <<130, 145, 1, 2, 255, 3>>,                   \* an array and -1 as keys
  <<145, 145, 145, 145, 1>>, <<145, 145, 145, 144>>, <<145, 145, 145>>,
  <<146, 145, 1, 145, 145, 220, 0, 0>>, <<129, 129, 1, 2, 3>>
}

MCInputs == AllStrings \cup LongStrings
===============================================================================
