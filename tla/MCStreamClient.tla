----------------------------- MODULE MCStreamClient -----------------------------
(* The client with messages that containers, numbers, strings and empty bodies *)
(* make long enough to be cut anywhere: three of them, or one for t/10.        *)
EXTENDS StreamClient

MCMessages == {<<1>>, <<146, 1, 161, 97>>, <<129, 161, 97, 204, 200>>, <<196, 0>>,
               <<145, 144>>, <<196, 2, 145, 1>>}
MCStreams ==
  {<<m>> : m \in MCMessages}
    \cup {<<m, n, o>> : m \in MCMessages, n \in MCMessages, o \in {<<1>>, <<146, 1, 161, 97>>}}

(* ExecuteCall alone is used; it gets its argument from the client.            *)
MCArguments == {}
===============================================================================
