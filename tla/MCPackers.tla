-------------------------------- MODULE MCPackers --------------------------------
(* Model checking the XS packer on data of every kind, around the thresholds   *)
(* of the headers, with nesting up to and beyond the limit, data that contains *)
(* itself and every order of a hash; with the pure Perl packer and the pure    *)
(* Perl decoder to compare with.                                               *)
EXTENDS PackClient

S(text) == Str(text, FALSE)
Repeated(n) == S([i \in 1 .. n |-> 97])
Numbers == {0, 127, 128, 255, 256, 65535, 65536, 2147483647, -1, -32, -33, -128, -129,
            -32768, -32769, -2147483647 - 1}

Texts == { << >>, <<97>>, <<45>>, <<48>>, <<45, 49>>, <<48, 48, 55>>, <<32, 49>>,
  <<49, 10>>,                                           \* "1\n"
  <<48, 48, 48, 48, 48, 48, 48, 48, 48, 48, 49>>,       \* "00000000001"
  <<50, 49, 52, 55, 52, 56, 51, 54, 52, 55>>,           \* 2^31 - 1
  <<45>> \o MinInt32Text,
  <<45, 50, 49, 52, 55, 52, 56, 51, 54, 52, 57>>,       \* -2^31 - 1
  <<52, 50, 57, 52, 57, 54, 55, 50, 57, 54>> }          \* 2^32

MCScalars ==
  {Undef, Bool(TRUE), Bool(FALSE), Float(<<63, 240, 0, 0, 0, 0, 0, 0>>),
   Unpackable("object"), Unpackable("code"),
   ScalarRef(<<48>>), ScalarRef(<<49>>), ScalarRef(<<49, 49>>)}
    \cup {IntValue(i) : i \in Numbers} \cup {S(t) : t \in Texts}
    \cup {Repeated(n) : n \in {31, 32, 254, 255, 256}}

a == <<97>>
Pairs == {<< <<97, 98>>, IntValue(1)>>, <<a, Ref(2)>>, << <<49>>, S(<<50>>)>>}
Orders(pairs) == {o \in [1 .. Cardinality(pairs) -> pairs] : Range(o) = pairs}

MCHeaps ==
  {<<Array(<< >>)>>, <<Hash(<< >>)>>,
   <<Array([i \in 1 .. 15 |-> Undef])>>, <<Array([i \in 1 .. 16 |-> Undef])>>,
   <<Hash([i \in 1 .. 15 |-> << <<i>>, Undef>>])>>,
   <<Hash([i \in 1 .. 16 |-> << <<i>>, Undef>>])>>,
   <<Array(<<Ref(2), IntValue(1)>>), Array(<<NoSV, S(a)>>)>>,
   <<Array(<<Ref(2), Ref(2)>>), Hash(<< <<a, IntValue(-1)>> >>)>>,
   <<Array(<<Ref(1)>>)>>,                               \* data that contains itself
   <<Hash(<< <<a, Ref(2)>> >>), Array(<<Undef, Ref(1)>>)>>,
   <<Array(<<Ref(2)>>), Array(<<Ref(3)>>), Array(<<Ref(4)>>), Array(<<NoSV>>)>>,
   <<Array(<<S(<<49>>), Unpackable("object"), Ref(1)>>)>>,
   <<Array(<<ScalarRef(<<49>>), Ref(1)>>)>>,
   <<TiedHash(<< <<a, Undef>>, << <<98>>, Undef>> >>, 2)>>,
   <<TiedHash(<< <<a, Undef>> >>, 2)>>,                 \* changed while packed
   <<Hash(<< << <<49>>, Undef>>, << <<48, 49>>, S(a)>> >>)>>}
    \cup {<<Array(<<Repeated(m), Repeated(n), Undef, Undef>>)>> :
            m \in 0 .. 6, n \in {0, 1, 2, 5}}
    \cup {<<Hash(o), Hash(p)>> : o \in Orders(Pairs),
                             p \in Orders({<< <<98>>, Undef>>, <<a, Undef>>})}

Having(p, c, u) ==
  [on |-> "object", prefer_integer |-> p, canonical |-> c, utf8 |-> u]
MCSelves == {TheClass, Having("absent", "absent", "absent"), Having("on", "on", "on"),
             Having("off", "off", "off"), Having("on", "off", "absent"),
             Having("absent", "on", "absent"), Having("absent", "absent", "on")}

MinusOne == -1
MCDepths == {MinusOne, 1, 2, 4}

================================================================================
