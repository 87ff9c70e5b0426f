---------------------------- MODULE PPUnpacker_proofs ----------------------------
(******************************************************************************)
(* TLAPS proofs about PPUnpacker, for every set of calls and every length of   *)
(* input.                                                                      *)
(******************************************************************************)
EXTENDS PPUnpacker, PPUnpack_proofs

USE ArgumentsAssumption, Utf8ArgsAssumption, MaxCallsAssumption

-------------------------------------------------------------------------------
(* execute adds bytes to the buffer and nothing else.                          *)
LEMMA ValueType ==
  ASSUME NEW a \in Arguments, a.offset <= Len(a.bytes)
  PROVE  Value(a) \in Seq(Byte)
  <1> DEFINE rest == SubSeq(a.bytes, a.offset + 1, Len(a.bytes))
  <1>1. a.bytes \in Seq(Byte) /\ a.offset \in Nat /\ a.limit \in Nat
    OBVIOUS
  <1>2. rest \in Seq(Byte)
    BY <1>1
  <1>3. a.limit <= Len(rest) => SubSeq(rest, 1, a.limit) \in Seq(Byte)
    BY <1>1, <1>2
  <1> QED BY <1>1, <1>2, <1>3 DEF Value

(* A bounded set of natural numbers has a greatest element.                    *)
LEMMA GreatestNat ==
  ASSUME NEW n \in Nat, NEW T, T \subseteq 1 .. n, T # {}
  PROVE  \E x \in T : \A y \in T : y <= x
  <1> DEFINE M == {n - y : y \in T}
  <1>1. PICK m \in M : \A k \in M : m <= k
    <2>1. \A y \in T : n - y \in Nat
      OBVIOUS
    <2>2. M \subseteq Nat
      BY <2>1
    <2>3. M # {}
      OBVIOUS
    <2> HIDE DEF M
    <2> QED BY <2>2, <2>3, LeastNat
  <1>2. PICK x \in T : m = n - x
    BY <1>1
  <1>3. \A y \in T : n - x <= n - y
    BY <1>1, <1>2
  <1> QED BY <1>3

(* A prefix of the stack with its last counter, above one, counted down.       *)
LEMMA CountedDown ==
  ASSUME NEW st \in Seq(Nat \ {0}), NEW j \in 1 .. Len(st), st[j] # 1
  PROVE  [SubSeq(st, 1, j) EXCEPT ![j] = @ - 1] \in Seq(Nat \ {0})
  <1> DEFINE prefix == SubSeq(st, 1, j)
  <1>1. \A i \in 1 .. j : st[i] \in Nat \ {0}
    OBVIOUS
  <1>2. prefix \in Seq(Nat \ {0}) /\ Len(prefix) = j
    BY <1>1
  <1>3. prefix[j] = st[j]
    OBVIOUS
  <1>4. prefix[j] - 1 \in Nat \ {0}
    BY <1>1, <1>3
  <1> HIDE DEF prefix
  <1>5. [prefix EXCEPT ![j] = prefix[j] - 1] \in Seq(Nat \ {0})
    BY <1>2, <1>4
  <1> QED BY <1>5 DEF prefix

(* Popping the full containers and counting down the next one leaves counters  *)
(* of at least one.                                                            *)
LEMMA CountedType ==
  ASSUME NEW st \in Seq(Nat \ {0})
  PROVE  Counted(st) \in Seq(Nat \ {0})
  <1> DEFINE open == {i \in DOMAIN st : ~Full(st[i])}
             j == CHOOSE i \in open : \A k \in open : k <= i
  <1>1. CASE open = {}
    BY <1>1 DEF Counted
  <1>2. CASE open # {}
    <2>1. j \in open
      <3>1. open \subseteq 1 .. Len(st) /\ Len(st) \in Nat
        OBVIOUS
      <3> HIDE DEF open
      <3>2. \E i \in open : \A k \in open : k <= i
        BY <1>2, <3>1, GreatestNat
      <3> QED BY <3>2
    <2>2. j \in 1 .. Len(st) /\ st[j] # 1
      BY <2>1 DEF Full
    <2>5. [SubSeq(st, 1, j) EXCEPT ![j] = @ - 1] \in Seq(Nat \ {0})
      <3> HIDE DEF j
      <3> QED BY <2>2, CountedDown
    <2>6. Counted(st) = [SubSeq(st, 1, j) EXCEPT ![j] = @ - 1]
      BY <1>2 DEF Counted
    <2> QED BY <2>5, <2>6
  <1> QED BY <1>1, <1>2

-------------------------------------------------------------------------------
(* The sizes a header byte announces.                                          *)
LEMMA HeaderSizes ==
  ASSUME NEW b \in Byte
  PROVE  /\ SizeBytes(b) \in Nat /\ SizeBytes(b) \in {0, 1, 2, 4}
         /\ T_STR(b) \/ T_BIN(b) \/ T_ARRAY(b) \/ T_MAP(b) =>
              (SizeBytes(b) = 0 => FixSize(b) \in Nat)
         /\ b \in 202 .. 211 => NumberWidth(b) \in Nat
  <1>1. SizeBytes(b) \in Nat /\ SizeBytes(b) \in {0, 1, 2, 4}
    BY DEF SizeBytes
  <1>2. ASSUME T_STR(b) \/ T_BIN(b) \/ T_ARRAY(b) \/ T_MAP(b), SizeBytes(b) = 0
        PROVE  FixSize(b) \in Nat
    <2>1. b \in 128 .. 191
      BY <1>2 DEF T_STR, T_BIN, T_ARRAY, T_MAP, SizeBytes, Byte
    <2>2. CASE b \in 160 .. 191
      <3>1. b - 160 \in Nat /\ b \notin 144 .. 159 /\ b \notin 128 .. 143
        BY <2>2
      <3> QED BY <2>2, <3>1 DEF FixSize
    <2>3. CASE b \in 144 .. 159
      <3>1. b - 144 \in Nat /\ b \notin 160 .. 191 /\ b \notin 128 .. 143
        BY <2>3
      <3> QED BY <2>3, <3>1 DEF FixSize
    <2>4. CASE b \in 128 .. 143
      BY <2>4 DEF FixSize
    <2> QED BY <2>1, <2>2, <2>3, <2>4
  <1>3. b \in 202 .. 211 => NumberWidth(b) \in Nat
    BY DEF NumberWidth
  <1> QED BY <1>1, <1>2, <1>3

(* _count moves $p forward: the size it reads is a natural number.             *)
LEMMA SizeIsNat ==
  ASSUME TypeOK, Counting,
         T_STR(Header) \/ T_BIN(Header) \/ T_ARRAY(Header) \/ T_MAP(Header)
  PROVE  AfterSize \in Nat \ {0} /\ Size \in Nat
  <1>1. Header \in Byte /\ p \in Nat /\ buff \in Seq(Byte) /\ p < Len(buff)
    BY DEF TypeOK, Counting, BytesLeft, Header
  <1> DEFINE k == SizeBytes(Header)
  <1>2. k \in Nat /\ k \in {0, 1, 2, 4}
    BY <1>1, HeaderSizes
  <1>3. AfterSize = p + 1 + k
    BY DEF AfterSize
  <1>4. CASE k = 0
    <2>1. FixSize(Header) \in Nat
      BY <1>1, <1>4, HeaderSizes
    <2> QED BY <1>1, <1>2, <1>3, <1>4, <2>1 DEF Size
  <1> HIDE DEF k
  <1>7. AfterSize \in Nat \ {0}
    BY <1>1, <1>2, <1>3
  <1>5. CASE k # 0 /\ AfterSize > Len(buff)
    BY <1>5, <1>7 DEF Size, k
  <1>6. CASE k # 0 /\ AfterSize <= Len(buff)
    <2> DEFINE bytes == SubSeq(buff, p + 2, p + 1 + k)
    <2>1. p + 2 \in 1 .. Len(buff) + 1 /\ p + 1 + k \in 0 .. Len(buff)
      BY <1>1, <1>2, <1>3, <1>6
    <2>2. bytes \in Seq(Byte) /\ Len(bytes) = (p + 1 + k) - (p + 2) + 1
      BY <1>1, <1>2, <1>6, <2>1
    <2>3. Len(bytes) \in {1, 2, 4}
      BY <1>1, <1>2, <1>6, <2>2
    <2>4. BE(bytes) \in Nat
      BY <2>2, <2>3, BEIsNat
    <2>5. Size = BE(bytes)
      BY <1>3, <1>6, <1>7, <1>1 DEF Size, k
    <2> HIDE DEF bytes
    <2> QED BY <1>7, <2>4, <2>5
  <1> QED BY <1>1, <1>4, <1>5, <1>6, <1>7

(* What a header that _count accepts does to $p and the stack.                 *)
LEMMA AfterCountInv ==
  ASSUME TypeOK, Counting,
         NEW q \in Nat \ {0}, NEW st \in Seq(Nat \ {0}), AfterCount(q, st)
  PROVE  TypeOK' /\ NothingLeftUnread'
  <1>1. Counted(st) \in Seq(Nat \ {0})
    BY CountedType
  <1>2. << >> \in Seq(Nat \ {0})
    OBVIOUS
  <1>3. CASE Counted(st) = << >>
    BY <1>1, <1>2, <1>3 DEF TypeOK, NothingLeftUnread, AfterCount, Leave
  <1>4. CASE Counted(st) # << >>
    <2>1. pc' = "counting" /\ stack' = Counted(st) /\ p' = q
      BY <1>4 DEF AfterCount, Counting
    <2> QED BY <1>1, <1>4, <2>1 DEF TypeOK, NothingLeftUnread, AfterCount
  <1> QED BY <1>3, <1>4

LEMMA CountInv ==
  ASSUME TypeOK, Count
  PROVE  TypeOK' /\ NothingLeftUnread'
  <1>1. CASE CountDirect
    <2>1. p + 1 \in Nat \ {0} /\ stack \in Seq(Nat \ {0})
      BY DEF TypeOK
    <2> QED BY <1>1, <2>1, AfterCountInv DEF CountDirect
  <1>2. CASE CountBody
    <2>2. AfterSize \in Nat \ {0} /\ Size \in Nat
      BY <1>2, SizeIsNat DEF CountBody
    <2>3. AfterSize + Size \in Nat \ {0} /\ stack \in Seq(Nat \ {0})
      BY <2>2 DEF TypeOK
    <2> QED BY <1>2, <2>3, AfterCountInv DEF CountBody
  <1>3. CASE CountContainer
    <2> DEFINE items == IF T_ARRAY(Header) THEN Size ELSE 2 * Size
               st == IF Size = 0 THEN stack ELSE Append(stack, items + 1)
    <2>2. AfterSize \in Nat \ {0} /\ Size \in Nat
      BY <1>3, SizeIsNat DEF CountContainer
    <2>3. AfterSize \in Nat \ {0} /\ stack \in Seq(Nat \ {0})
      BY <2>2 DEF TypeOK
    <2>4. st \in Seq(Nat \ {0})
      BY <2>2, <2>3
    <2>5. Counting /\ AfterCount(AfterSize, st)
      BY <1>3 DEF CountContainer
    <2> QED BY <2>3, <2>4, <2>5, AfterCountInv
  <1>4. CASE CountNumber
    <2>1. NumberWidth(Header) \in Nat
      BY <1>4, HeaderSizes DEF CountNumber, Counting, BytesLeft, Header, TypeOK
    <2>2. p + 1 + NumberWidth(Header) \in Nat \ {0} /\ stack \in Seq(Nat \ {0})
      BY <2>1 DEF TypeOK
    <2> QED BY <1>4, <2>2, AfterCountInv DEF CountNumber
  <1>5. CASE CountUnexpected
    BY <1>5 DEF CountUnexpected, TypeOK, NothingLeftUnread, object
  <1> QED BY <1>1, <1>2, <1>3, <1>4, <1>5 DEF Count

-------------------------------------------------------------------------------
(* Both invariants together are inductive.                                     *)
IInv == TypeOK /\ NothingLeftUnread

THEOREM Invariance == Spec => []IInv
  <1>0. << >> \in Seq(Byte) /\ << >> \in Seq(Nat \ {0})
    OBVIOUS
  <1>1. Init => IInv
    <2> SUFFICES ASSUME Init PROVE IInv
      OBVIOUS
    <2>1. buff \in Seq(Byte) /\ stack \in Seq(Nat \ {0})
      BY <1>0 DEF Init
    <2>2. is_finished \in BOOLEAN /\ utf8 \in BOOLEAN
          /\ pkg_utf8 \in BOOLEAN /\ asked \in BOOLEAN /\ got \in BOOLEAN
      BY DEF Init
    <2>3. TypeOK
      BY <2>1, <2>2 DEF Init, TypeOK
    <2> QED BY <2>3 DEF Init, IInv, NothingLeftUnread
  <1>2. IInv /\ [Next]_vars => IInv'
    <2> SUFFICES ASSUME TypeOK, NothingLeftUnread, [Next]_vars
                 PROVE  TypeOK' /\ NothingLeftUnread'
      BY DEF IInv
    <2> USE DEF TypeOK, NothingLeftUnread
    <2>1. ASSUME NEW a \in Arguments, ExecuteCall(a)
          PROVE  TypeOK' /\ NothingLeftUnread'
      <3>1. Value(a) \in Seq(Byte)
        BY <2>1, ValueType DEF ExecuteCall
      <3>2. buff' \in Seq(Byte) /\ offset' \in Nat
        BY <2>1, <3>1 DEF ExecuteCall
      <3> QED BY <2>1, <3>2 DEF ExecuteCall
    <2>2. CASE Count
      BY <2>2, CountInv
    <2>3. CASE ReturnUnfinished
      BY <2>3 DEF ReturnUnfinished, Leave, BytesLeft
    <2>4. CASE Utf8
      BY <2>4 DEF Utf8, locals, history
    <2>5. CASE Reset
      BY <1>0, <2>5 DEF Reset, locals
    <2>6. CASE New
      BY <1>0, <2>6 DEF New, locals
    <2>7. ASSUME NEW u \in Utf8Args, OneShot(u)
          PROVE  TypeOK' /\ NothingLeftUnread'
      BY <2>7 DEF OneShot, object
    <2>8. CASE UNCHANGED vars
      BY <2>8 DEF vars, object, locals, history
    <2> QED BY <2>1, <2>2, <2>3, <2>4, <2>5, <2>6, <2>7, <2>8
            DEF Next, Execute, UnpackOnce
  <1> QED BY <1>1, <1>2, PTL DEF Spec

(* Every container on the scanner's stack waits for at least one item, however *)
(* deeply the input nests, and positions and buffer keep their types.          *)
THEOREM TypeCorrect == Spec => []TypeOK
  BY Invariance, PTL DEF IInv

(* execute asks for more bytes only when it has read all it has, and reports a *)
(* finished message as finished, for every sequence of calls.                  *)
THEOREM AllRead == Spec => []NothingLeftUnread
  BY Invariance, PTL DEF IInv

-------------------------------------------------------------------------------
(* The scanner against the decoder.  Two results end alike:                    *)
Ends(r, e) == r.status = e.status /\ (r.status = "ok" => r.p = e.p)

(* The items due at nesting level i of a scanner with stack st, with the one   *)
(* being counted.                                                              *)
Due(st, i) == IF i = 0 THEN 1 ELSE st[i]

(* R[i] ends like the calls of _unpack for what is due at level i, when the    *)
(* decoder's results are V and the whole call is w: it is what level i + 1 is  *)
(* followed by.  Whatever fails, fails the whole call.                         *)
Behind(V, w, st, R) ==
  /\ \A i \in 1 .. Len(st) : Ends(R[i - 1], Following(V, R[i], i - 1, Due(st, i - 1) - 1))
  /\ \A i \in 0 .. Len(st) : R[i].status # "ok" => R[i].status = w.status
  /\ Ends(R[0], w)

Chain(V, w, st, q, R) ==
  /\ Ends(R[Len(st)], V[<<q, Len(st), Due(st, Len(st))>>])
  /\ Behind(V, w, st, R)

(* The result of the decoder for the bytes b.                                  *)
Whole(b, text) == Unpack(b, text)[<<0, 0, 1>>]

(* The scanner at q with stack st is where the decoder is; or it has gone      *)
(* beyond the bytes, and the decoder has died for want of them.                *)
Scanned(b, st, q, text) ==
  \/ q > Len(b) /\ Whole(b, text).status = "insufficient"
  \/ q <= Len(b) /\ \E R : Chain(Unpack(b, text), Whole(b, text), st, q, R)

(* The scanner left at q as how says, and the decoder likewise.                *)
Agrees(b, q, how, text) ==
  /\ how = "finished" /\ q <= Len(b) <=> Whole(b, text).status = "ok"
  /\ Whole(b, text).status = "ok" => q = Whole(b, text).p
  /\ how = "croaked" <=> Whole(b, text).status = "unexpected"

-------------------------------------------------------------------------------
(* What Counted leaves of a stack: up to the last container j that is not      *)
(* full, with one item less due there.                                         *)
LEMMA CountedShape ==
  ASSUME NEW st \in Seq(Nat \ {0})
  PROVE  \E j \in 0 .. Len(st) :
           /\ \A i \in j + 1 .. Len(st) : st[i] = 1
           /\ Len(Counted(st)) = j
           /\ j = 0 => Counted(st) = << >>
           /\ j # 0 => st[j] # 1 /\ Counted(st)[j] = st[j] - 1
           /\ \A i \in 1 .. j - 1 : Counted(st)[i] = st[i]
  <1> DEFINE open == {i \in DOMAIN st : ~Full(st[i])}
             j == CHOOSE i \in open : \A k \in open : k <= i
             prefix == SubSeq(st, 1, j)
  <1>0. Len(st) \in Nat /\ open \subseteq 1 .. Len(st)
    OBVIOUS
  <1>1. CASE open = {}
    <2>1. \A i \in 1 .. Len(st) : st[i] = 1
      BY <1>1 DEF Full
    <2>2. Counted(st) = << >>
      BY <1>1 DEF Counted
    <2> HIDE DEF open
    <2> QED BY <1>0, <2>1, <2>2
  <1>2. CASE open # {}
    <2>1. j \in open /\ \A k \in open : k <= j
      <3> HIDE DEF open
      <3>2. \E i \in open : \A k \in open : k <= i
        BY <1>0, <1>2, GreatestNat
      <3> QED BY <3>2
    <2>2. j \in 1 .. Len(st) /\ st[j] # 1
      BY <2>1 DEF Full
    <2>3. \A i \in j + 1 .. Len(st) : st[i] = 1
      <3> HIDE DEF j
      <3>1. ASSUME NEW i \in j + 1 .. Len(st), st[i] # 1
            PROVE  FALSE
        <4>1. i \in 1 .. Len(st) /\ j \in Int
          BY <2>2
        <4>2. i \in open
          BY <3>1, <4>1 DEF Full
        <4>3. i <= j
          BY <2>1, <4>2
        <4> HIDE DEF open
        <4> QED BY <2>2, <3>1, <4>1, <4>3
      <3> QED BY <3>1
    <2>4. Counted(st) = [prefix EXCEPT ![j] = prefix[j] - 1]
      BY <1>2 DEF Counted
    <2> HIDE DEF j, open
    <2>5. prefix \in Seq(Nat \ {0}) /\ Len(prefix) = j /\ \A i \in 1 .. j : prefix[i] = st[i]
      BY <2>2
    <2> HIDE DEF prefix
    <2>6. Len(Counted(st)) = j /\ Counted(st)[j] = st[j] - 1
          /\ \A i \in 1 .. j - 1 : Counted(st)[i] = st[i]
      <3>1. DOMAIN prefix = 1 .. j
        BY <2>2, <2>5
      <3>2. [prefix EXCEPT ![j] = prefix[j] - 1] \in Seq(Int)
        BY <2>2, <2>5
      <3>3. Len([prefix EXCEPT ![j] = prefix[j] - 1]) = j
        BY <2>2, <2>5
      <3> QED BY <2>2, <2>4, <2>5, <3>1, <3>3
    <2> QED BY <2>2, <2>3, <2>6
  <1> QED BY <1>1, <1>2

(* When what is due at level i is one item less at q, and the levels from i    *)
(* down to j are full, one item less is due at q at level j too.               *)
LEMMA Unwound ==
  ASSUME NEW st \in Seq(Nat \ {0}), NEW V, NEW w, NEW R, Behind(V, w, st, R), NEW q,
         \A d \in Nat : V[<<q, d, 0>>].status = "ok" /\ V[<<q, d, 0>>].p = q,
         Ends(R[Len(st)], V[<<q, Len(st), Due(st, Len(st)) - 1>>]),
         NEW j \in 0 .. Len(st), \A i \in j + 1 .. Len(st) : st[i] = 1
  PROVE  Ends(R[j], V[<<q, j, Due(st, j) - 1>>])
  <1> DEFINE m == Len(st)
             AtLevel(i) == Ends(R[i], V[<<q, i, Due(st, i) - 1>>])
             T == {k \in Nat : k <= m - j => AtLevel(m - k)}
  <1>0. m \in Nat /\ j \in Nat /\ j <= m
    OBVIOUS
  <1>1. 0 \in T
    <2>1. m - 0 = m /\ AtLevel(m)
      OBVIOUS
    <2> HIDE DEF AtLevel, m
    <2> QED BY <2>1
  <1>2. ASSUME NEW k \in Nat, k \in T
        PROVE  k + 1 \in T
    <2> SUFFICES ASSUME k + 1 <= m - j
                 PROVE  AtLevel(m - (k + 1))
      OBVIOUS
    <2> DEFINE i == m - k
    <2>1. i \in j + 1 .. m /\ i \in 1 .. m /\ i \in Nat /\ m - (k + 1) = i - 1 /\ k <= m - j /\ i # 0
          /\ i - 1 \in Nat
      BY <1>0
    <2>2. AtLevel(i)
      BY <1>2, <2>1
    <2> HIDE DEF i, T
    <2> DEFINE n == Due(st, i - 1) - 1
    <2>3. Due(st, i) - 1 = 0
      BY <2>1 DEF Due
    <2>4. R[i].status = "ok" /\ R[i].p = q
      <3>1. Ends(R[i], V[<<q, i, 0>>])
        BY <2>2, <2>3
      <3> QED BY <2>1, <3>1 DEF Ends
    <2>5. Ends(R[i - 1], Following(V, R[i], i - 1, n))
      BY <2>1 DEF Behind
    <2> HIDE DEF n
    <2>6. Following(V, R[i], i - 1, n) = Joined(R[i], V[<<q, i - 1, n>>])
      BY <2>4 DEF Following
    <2>7. Ends(R[i - 1], V[<<q, i - 1, n>>])
      BY <2>5, <2>6 DEF Ends, Joined
    <2> QED BY <2>1, <2>7 DEF n
  <1>3. m - j \in T
    <2>1. m - j \in Nat
      BY <1>0
    <2> HIDE DEF T
    <2> QED BY <1>1, <1>2, <2>1, Induction
  <1>4. m - (m - j) = j /\ m - j <= m - j
    BY <1>0
  <1> HIDE DEF AtLevel, m
  <1>5. AtLevel(j)
    BY <1>3, <1>4
  <1> QED BY <1>5 DEF AtLevel
-------------------------------------------------------------------------------
(* Popping keeps the chain, and pops all only when the whole call is done.     *)
LEMMA Popped ==
  ASSUME NEW st \in Seq(Nat \ {0}), NEW V, NEW w, NEW R, Behind(V, w, st, R), NEW q,
         \A d \in Nat : V[<<q, d, 0>>].status = "ok" /\ V[<<q, d, 0>>].p = q,
         Ends(R[Len(st)], V[<<q, Len(st), Due(st, Len(st)) - 1>>])
  PROVE  /\ Counted(st) = << >> => w.status = "ok" /\ w.p = q
         /\ Counted(st) # << >> => Chain(V, w, Counted(st), q, R)
  <1> DEFINE C == Counted(st)
  <1>1. PICK j \in 0 .. Len(st) :
           /\ \A i \in j + 1 .. Len(st) : st[i] = 1
           /\ Len(C) = j
           /\ j = 0 => C = << >>
           /\ j # 0 => st[j] # 1 /\ C[j] = st[j] - 1
           /\ \A i \in 1 .. j - 1 : C[i] = st[i]
    BY CountedShape
  <1> HIDE DEF C
  <1>2. Ends(R[j], V[<<q, j, Due(st, j) - 1>>])
    BY <1>1, Unwound
  <1>3. CASE j = 0
    <2>1. Ends(R[0], V[<<q, 0, 0>>])
      BY <1>2, <1>3 DEF Due
    <2>2. V[<<q, 0, 0>>].status = "ok" /\ V[<<q, 0, 0>>].p = q
      OBVIOUS
    <2>3. Ends(R[0], w)
      BY DEF Behind
    <2>4. C = << >>
      BY <1>1, <1>3
    <2> QED BY <2>1, <2>2, <2>3, <2>4 DEF Ends, C
  <1>4. CASE j # 0
    <2>1. Due(C, j) = Due(st, j) - 1 /\ \A i \in 0 .. j - 1 : Due(C, i) = Due(st, i)
      BY <1>1, <1>4 DEF Due
    <2>2. Ends(R[Len(C)], V[<<q, Len(C), Due(C, Len(C))>>])
      BY <1>1, <1>2, <2>1
    <2>3. ASSUME NEW i \in 1 .. Len(C)
          PROVE  Ends(R[i - 1], Following(V, R[i], i - 1, Due(C, i - 1) - 1))
      <3>1. i \in 1 .. Len(st) /\ i - 1 \in 0 .. j - 1
        BY <1>1
      <3>2. Due(C, i - 1) = Due(st, i - 1)
        BY <2>1, <3>1
      <3> QED BY <3>1, <3>2 DEF Behind
    <2>4. \A i \in 0 .. Len(C) : R[i].status # "ok" => R[i].status = w.status
      BY <1>1 DEF Behind
    <2>5. Ends(R[0], w)
      BY DEF Behind
    <2>6. Chain(V, w, C, q, R)
      BY <2>2, <2>3, <2>4, <2>5 DEF Chain, Behind
    <2>7. C # << >>
      BY <1>1, <1>4
    <2> QED BY <2>6, <2>7 DEF C
  <1> QED BY <1>3, <1>4

(* A container of n items is pushed as n + 1, and counts itself at once.       *)
LEMMA PushedShape ==
  ASSUME NEW st \in Seq(Nat \ {0}), NEW n \in Nat \ {0}
  PROVE  LET C == Counted(Append(st, n + 1)) IN
         Len(C) = Len(st) + 1 /\ C[Len(st) + 1] = n /\ \A i \in 1 .. Len(st) : C[i] = st[i]
  <1> DEFINE e == Append(st, n + 1)
             C == Counted(e)
             m == Len(st)
  <1>1. e \in Seq(Nat \ {0}) /\ Len(e) = m + 1 /\ e[m + 1] = n + 1 /\ \A i \in 1 .. m : e[i] = st[i]
    OBVIOUS
  <1>2. m \in Nat
    OBVIOUS
  <1> HIDE DEF e, m
  <1>3. PICK j \in 0 .. Len(e) :
           /\ \A i \in j + 1 .. Len(e) : e[i] = 1
           /\ Len(C) = j
           /\ j = 0 => C = << >>
           /\ j # 0 => e[j] # 1 /\ C[j] = e[j] - 1
           /\ \A i \in 1 .. j - 1 : C[i] = e[i]
    BY <1>1, CountedShape
  <1> HIDE DEF C
  <1>4. j = m + 1
    <2>1. ASSUME j < m + 1
          PROVE  FALSE
      <3>1. m + 1 \in j + 1 .. Len(e)
        BY <1>1, <1>2, <2>1
      <3>2. e[m + 1] = 1
        BY <1>3, <3>1
      <3> QED BY <1>1, <3>2
    <2> QED BY <1>1, <1>2, <2>1
  <1>5. Len(C) = m + 1 /\ C[m + 1] = n
    BY <1>1, <1>2, <1>3, <1>4
  <1>6. ASSUME NEW i \in 1 .. m
        PROVE  C[i] = st[i]
    BY <1>1, <1>2, <1>3, <1>4, <1>6
  <1> QED BY <1>5, <1>6 DEF C, e, m

LEMMA Pushed ==
  ASSUME NEW st \in Seq(Nat \ {0}), NEW V, NEW w, NEW R, Behind(V, w, st, R), NEW q,
         NEW n \in Nat \ {0},
         Ends(R[Len(st)], Following(V, V[<<q, Len(st) + 1, n>>], Len(st), Due(st, Len(st)) - 1))
  PROVE  \E S : Chain(V, w, Counted(Append(st, n + 1)), q, S)
  <1> DEFINE C == Counted(Append(st, n + 1))
             m == Len(st)
             x == V[<<q, m + 1, n>>]
             S == [i \in 0 .. m + 1 |-> IF i <= m THEN R[i] ELSE x]
  <1>1. Len(C) = m + 1 /\ C[m + 1] = n /\ \A i \in 1 .. m : C[i] = st[i]
    BY PushedShape
  <1>2. m \in Nat
    OBVIOUS
  <1> HIDE DEF C
  <1>3. Due(C, m + 1) = n /\ \A i \in 0 .. m : Due(C, i) = Due(st, i)
    <2> HIDE DEF m
    <2> QED BY <1>1, <1>2 DEF Due
  <1>4. S[m + 1] = x /\ \A i \in 0 .. m : S[i] = R[i]
    <2> HIDE DEF m, x
    <2> QED BY <1>2
  <1>b. Ends(R[m], Following(V, x, m, Due(st, m) - 1))
    OBVIOUS
  <1> HIDE DEF S
  <1>5. Ends(S[Len(C)], V[<<q, Len(C), Due(C, Len(C))>>])
    <2>1. Ends(x, V[<<q, m + 1, n>>])
      BY DEF Ends
    <2> HIDE DEF x, m
    <2> QED BY <1>1, <1>3, <1>4, <2>1
  <1> HIDE DEF x
  <1>6. ASSUME NEW i \in 1 .. Len(C)
        PROVE  Ends(S[i - 1], Following(V, S[i], i - 1, Due(C, i - 1) - 1))
    <2>1. CASE i = m + 1
      <3>1. S[i] = x /\ S[i - 1] = R[m] /\ i - 1 = m /\ Due(C, i - 1) = Due(st, m)
        <4>1. i - 1 = m /\ m \in 0 .. m
          BY <1>2, <2>1
        <4> HIDE DEF m
        <4> QED BY <1>3, <1>4, <2>1, <4>1
      <3> HIDE DEF m
      <3> QED BY <1>b, <3>1
    <2>2. CASE i # m + 1
      <3>1. i \in 1 .. m /\ i \in 0 .. m /\ i - 1 \in 0 .. m
        BY <1>1, <1>2, <2>2
      <3>2. S[i] = R[i] /\ S[i - 1] = R[i - 1] /\ Due(C, i - 1) = Due(st, i - 1)
        BY <1>3, <1>4, <3>1
      <3> QED BY <3>1, <3>2 DEF Behind
    <2> QED BY <2>1, <2>2
  <1>7. ASSUME NEW i \in 0 .. Len(C), S[i].status # "ok"
        PROVE  S[i].status = w.status
    <2>1. CASE i = m + 1
      <3>1. x.status # "ok" /\ S[i] = x
        BY <1>4, <1>7, <2>1
      <3>2. Ends(R[m], x)
        BY <1>b, <3>1 DEF Following
      <3>3. m \in 0 .. Len(st) /\ R[m].status # "ok" /\ R[m].status = x.status
        BY <1>2, <3>1, <3>2 DEF Ends
      <3>4. R[m].status = w.status
        BY <3>3 DEF Behind
      <3> QED BY <3>1, <3>3, <3>4
    <2>2. CASE i # m + 1
      <3>1. i \in 0 .. m
        BY <1>1, <1>2, <2>2
      <3> QED BY <1>4, <1>7, <3>1 DEF Behind
    <2> QED BY <2>1, <2>2
  <1>8. Ends(S[0], w)
    <2>1. S[0] = R[0]
      BY <1>2, <1>4
    <2> QED BY <2>1 DEF Behind
  <1>9. Chain(V, w, C, q, S)
    BY <1>5, <1>6, <1>7, <1>8 DEF Chain, Behind
  <1> QED BY <1>9 DEF C

-------------------------------------------------------------------------------
(* What _unpack returns for what is due where the scanner is: the item there,  *)
(* followed by the others of its container.                                    *)
LEMMA AtTop ==
  ASSUME NEW b \in Seq(Byte), NEW st \in Seq(Nat \ {0}), NEW a \in Nat, NEW text, NEW w, NEW R,
         Chain(Unpack(b, text), w, st, a, R)
  PROVE  LET v == Item(Unpack(b, text), b, text, a, Len(st)) IN
         /\ Good(v, a + 1, Len(st))
         /\ Ends(R[Len(st)], Following(Unpack(b, text), v, Len(st), Due(st, Len(st)) - 1))
         /\ v.status # "ok" => w.status = v.status
  <1> DEFINE V == Unpack(b, text)
             m == Len(st)
             v == Item(V, b, text, a, m)
             n == Due(st, m)
  <1>0. m \in Nat
    OBVIOUS
  <1>1. n \in Nat \ {0}
    BY DEF Due
  <1>2. GoodFrom(V, a + 1)
    <2>1. ASSUME NEW x \in From(a + 1)
          PROVE  Good(V[x], x[1], x[2])
      <3>1. x[1] \in Nat /\ x[2] \in Nat /\ x[3] \in Nat /\ x = <<x[1], x[2], x[3]>>
        BY DEF From, Row
      <3>2. Good(V[<<x[1], x[2], x[3]>>], x[1], x[2])
        BY <3>1, UnpackGood
      <3> QED BY <3>1, <3>2
    <2> QED BY <2>1 DEF GoodFrom
  <1>3. Good(v, a + 1, m)
    <2> HIDE DEF V, m
    <2> QED BY <1>0, <1>2, ItemGood
  <1>4. V[<<a, m, n>>] = Following(V, v, m, n - 1)
    <2>1. V[<<a, m, n>>] = Items(V, b, text, a, m, n)
      <3> HIDE DEF m, n
      <3> QED BY <1>0, <1>1, UnpackStep
    <2> HIDE DEF V, m, n
    <2> QED BY <1>1, <2>1 DEF Items
  <1>5. Ends(R[m], Following(V, v, m, n - 1))
    <2>1. Ends(R[m], V[<<a, m, n>>])
      BY DEF Chain
    <2> HIDE DEF V, m, n, v
    <2> QED BY <1>4, <2>1
  <1>6. ASSUME v.status # "ok"
        PROVE  w.status = v.status
    <2>1. m \in 0 .. Len(st)
      BY <1>0
    <2>2. Behind(V, w, st, R)
      BY DEF Chain
    <2> HIDE DEF V, v, n
    <2>3. Ends(R[m], v)
      BY <1>5, <1>6 DEF Following
    <2>4. R[m].status = v.status
      BY <2>3 DEF Ends
    <2> QED BY <1>6, <2>1, <2>2, <2>4 DEF Behind
  <1> QED BY <1>3, <1>5, <1>6
-------------------------------------------------------------------------------
(* An item that ends at q, or lacks bytes when q is beyond them, is counted as *)
(* the decoder decodes it.                                                     *)
LEMMA ItemCounted ==
  ASSUME NEW b \in Seq(Byte), NEW st \in Seq(Nat \ {0}), NEW a \in Nat, a < Len(b), NEW text,
         Scanned(b, st, a, text), NEW q \in Nat,
         NEW v, v = Item(Unpack(b, text), b, text, a, Len(st)),
         \/ v.status = "ok" /\ v.p = q /\ q <= Len(b)
         \/ v.status = "insufficient" /\ q > Len(b)
  PROVE  /\ Counted(st) = << >> => Agrees(b, q, "finished", text)
         /\ Counted(st) # << >> => Scanned(b, Counted(st), q, text)
  <1> DEFINE V == Unpack(b, text)
             w == Whole(b, text)
             m == Len(st)
  <1>0. m \in Nat /\ Len(b) \in Nat
    OBVIOUS
  <1>1. PICK R : Chain(V, w, st, a, R)
    BY DEF Scanned
  <1>2. /\ Ends(R[m], Following(V, v, m, Due(st, m) - 1))
        /\ v.status # "ok" => w.status = v.status
    BY <1>1, AtTop
  <1>3. Behind(V, w, st, R)
    BY <1>1 DEF Chain
  <1>4. CASE v.status = "ok" /\ v.p = q /\ q <= Len(b)
    <2>1. Ends(R[m], V[<<q, m, Due(st, m) - 1>>])
      <3> HIDE DEF V, w, m
      <3> QED BY <1>2, <1>4 DEF Following, Joined, Ends
    <2>2. ASSUME NEW d \in Nat
          PROVE  V[<<q, d, 0>>].status = "ok" /\ V[<<q, d, 0>>].p = q
      <3>1. V[<<q, d, 0>>] = Items(V, b, text, q, d, 0)
        BY UnpackStep
      <3> HIDE DEF V
      <3> QED BY <3>1 DEF Items, Returned
    <2> HIDE DEF V, w
    <2>3. /\ Counted(st) = << >> => w.status = "ok" /\ w.p = q
          /\ Counted(st) # << >> => Chain(V, w, Counted(st), q, R)
      BY <1>3, <2>1, <2>2, Popped
    <2>4. ASSUME Counted(st) = << >>
          PROVE  Agrees(b, q, "finished", text)
      BY <1>4, <2>3, <2>4 DEF Agrees, w
    <2>5. ASSUME Counted(st) # << >>
          PROVE  Scanned(b, Counted(st), q, text)
      BY <1>4, <2>3, <2>5 DEF Scanned, V, w
    <2> QED BY <2>4, <2>5
  <1>5. CASE v.status = "insufficient" /\ q > Len(b)
    <2>1. w.status = "insufficient"
      BY <1>2, <1>5
    <2>2. ~(q <= Len(b))
      BY <1>0, <1>5
    <2>3. Agrees(b, q, "finished", text)
      BY <2>1, <2>2 DEF Agrees
    <2>4. Scanned(b, Counted(st), q, text)
      BY <1>5, <2>1 DEF Scanned
    <2> QED BY <2>3, <2>4
  <1> QED BY <1>4, <1>5

(* A container of items is entered as the decoder enters it.                   *)
LEMMA ContainerCounted ==
  ASSUME NEW b \in Seq(Byte), NEW st \in Seq(Nat \ {0}), NEW a \in Nat, a < Len(b), NEW text,
         Scanned(b, st, a, text), NEW q \in Nat, q <= Len(b), NEW n \in Nat \ {0}, NEW h,
         Item(Unpack(b, text), b, text, a, Len(st)) =
           Contained(h, Unpack(b, text)[<<q, Len(st) + 1, n>>])
  PROVE  Scanned(b, Counted(Append(st, n + 1)), q, text)
  <1> DEFINE V == Unpack(b, text)
             w == Whole(b, text)
             m == Len(st)
             x == V[<<q, m + 1, n>>]
             v == Contained(h, x)
  <1>0. m \in Nat /\ Len(b) \in Nat
    OBVIOUS
  <1>1. PICK R : Chain(V, w, st, a, R)
    BY DEF Scanned
  <1>2. Ends(R[m], Following(V, v, m, Due(st, m) - 1))
    BY <1>1, AtTop
  <1>3. Behind(V, w, st, R)
    BY <1>1 DEF Chain
  <1>4. Good(x, q, m + 1)
    <2> HIDE DEF m
    <2> QED BY <1>0, UnpackGood
  <1>5. v.status = x.status /\ v.p = x.p
    <2> HIDE DEF x
    <2> QED BY <1>4, ContainedAlike DEF Good
  <1>6. Ends(R[m], Following(V, x, m, Due(st, m) - 1))
    <2> HIDE DEF V, x, v, m
    <2>1. CASE x.status = "ok"
      BY <1>2, <1>5, <2>1 DEF Following, Joined, Ends
    <2>2. CASE x.status # "ok"
      BY <1>2, <1>5, <2>2 DEF Following, Ends
    <2> QED BY <2>1, <2>2
  <1>7. \E S : Chain(V, w, Counted(Append(st, n + 1)), q, S)
    <2> HIDE DEF V, w
    <2> QED BY <1>3, <1>6, Pushed
  <1> QED BY <1>7 DEF Scanned

-------------------------------------------------------------------------------
(* The kinds of headers exclude each other.                                    *)
LEMMA Kinds ==
  ASSUME NEW h \in Byte
  PROVE  /\ T_DIRECT(h) => ~T_ARRAY(h) /\ ~T_MAP(h)
         /\ h \in 202 .. 211 => ~T_DIRECT(h) /\ ~T_ARRAY(h) /\ ~T_MAP(h)
         /\ T_STR(h) \/ T_BIN(h) =>
              /\ ~T_DIRECT(h) /\ ~T_ARRAY(h) /\ ~T_MAP(h) /\ h \notin 202 .. 211
              /\ h \notin {193} \cup (199 .. 201) \cup (212 .. 216)
         /\ T_ARRAY(h) \/ T_MAP(h) =>
              /\ ~T_DIRECT(h) /\ h \notin 202 .. 211
              /\ h \notin {193} \cup (199 .. 201) \cup (212 .. 216)
         /\ h \in {193} \cup (199 .. 201) \cup (212 .. 216) =>
              ~T_DIRECT(h) /\ ~T_ARRAY(h) /\ ~T_MAP(h) /\ h \notin 202 .. 211
  BY DEF T_DIRECT, T_ARRAY, T_MAP, T_STR, T_BIN, Byte

(* What _unpack returns for each kind of header that _count sorts out.         *)
LEMMA DirectItem ==
  ASSUME NEW b \in Seq(Byte), NEW a \in Nat, a < Len(b), NEW d \in Nat, NEW text, NEW V,
         T_DIRECT(b[a + 1])
  PROVE  LET v == Item(V, b, text, a, d) IN v.status = "ok" /\ v.p = a + 1
  <1>1. ~ContainerAt(b, a) /\ ~(a >= Len(b))
    BY Kinds DEF ContainerAt
  <1>2. Item(V, b, text, a, d) = Returned(<<byte2value(b[a + 1])>>, a + 1, d)
    BY <1>1 DEF Item, Scalar
  <1> QED BY <1>2 DEF Returned

LEMMA SizedEnds ==
  ASSUME NEW b, NEW h, NEW q \in Nat, NEW n \in Nat, NEW d, NEW text, Len(b) \in Nat
  PROVE  LET v == Sized(h, b, q, n, d, text) IN
         \/ v.status = "ok" /\ v.p = q + n /\ q + n <= Len(b)
         \/ v.status = "insufficient" /\ q + n > Len(b)
  <1>1. CASE q + n > Len(b)
    BY <1>1 DEF Sized, Died
  <1>2. CASE ~(q + n > Len(b))
    <2>1. \E x : Sized(h, b, q, n, d, text) = Returned(x, q + n, d)
      BY <1>2 DEF Sized
    <2> QED BY <1>2, <2>1 DEF Returned
  <1> QED BY <1>1, <1>2

LEMMA NumberItem ==
  ASSUME NEW b \in Seq(Byte), NEW a \in Nat, a < Len(b), NEW d \in Nat, NEW text, NEW V,
         b[a + 1] \in 202 .. 211
  PROVE  LET v == Item(V, b, text, a, d)
             q == a + 1 + NumberWidth(b[a + 1]) IN
         \/ v.status = "ok" /\ v.p = q /\ q <= Len(b)
         \/ v.status = "insufficient" /\ q > Len(b)
  <1> DEFINE h == b[a + 1]
             n == NumberWidth(h)
  <1>1. ~ContainerAt(b, a) /\ ~(a >= Len(b)) /\ ~T_DIRECT(h)
    BY Kinds DEF ContainerAt
  <1>2. n \in Nat /\ Len(b) \in Nat /\ a + 1 \in Nat
    BY DEF NumberWidth
  <1>3. Item(V, b, text, a, d) = Sized(h, b, a + 1, n, d, text)
    BY <1>1 DEF Item, Scalar
  <1> HIDE DEF n, h
  <1>4. LET v == Sized(h, b, a + 1, n, d, text) IN
         \/ v.status = "ok" /\ v.p = a + 1 + n /\ a + 1 + n <= Len(b)
         \/ v.status = "insufficient" /\ a + 1 + n > Len(b)
    BY <1>2, SizedEnds
  <1> QED BY <1>3, <1>4 DEF n, h

LEMMA BodyItem ==
  ASSUME NEW b \in Seq(Byte), NEW a \in Nat, a < Len(b), NEW d \in Nat, NEW text, NEW V,
         T_STR(b[a + 1]) \/ T_BIN(b[a + 1])
  PROVE  LET v == Item(V, b, text, a, d)
             q == AfterFetch(b, a) + FetchSize(b, a) IN
         /\ AfterFetch(b, a) > Len(b) => v.status = "insufficient"
         /\ AfterFetch(b, a) <= Len(b) =>
              \/ v.status = "ok" /\ v.p = q /\ q <= Len(b)
              \/ v.status = "insufficient" /\ q > Len(b)
  <1> DEFINE h == b[a + 1]
             q == AfterFetch(b, a)
             n == FetchSize(b, a)
  <1>1. ~ContainerAt(b, a) /\ ~(a >= Len(b)) /\ ~T_DIRECT(h) /\ h \notin 202 .. 211
        /\ h \notin {193} \cup (199 .. 201) \cup (212 .. 216)
    <2>1. h \in Byte /\ (T_STR(h) \/ T_BIN(h)) /\ ~(a >= Len(b))
      OBVIOUS
    <2> HIDE DEF h
    <2>2. /\ ~T_DIRECT(h) /\ ~T_ARRAY(h) /\ ~T_MAP(h) /\ h \notin 202 .. 211
          /\ h \notin {193} \cup (199 .. 201) \cup (212 .. 216)
      BY <2>1, Kinds
    <2>3. ~ContainerAt(b, a)
      BY <2>2, Zenon DEF ContainerAt, h
    <2> QED BY <2>1, <2>2, <2>3
  <1>2. q \in Nat /\ Len(b) \in Nat /\ (q <= Len(b) => n \in Nat)
    BY FetchFacts DEF Sizeable
  <1>3. Item(V, b, text, a, d) = IF q > Len(b) THEN Died("insufficient", a + 1, d)
                                 ELSE Sized(h, b, q, n, d, text)
    BY <1>1 DEF Item, Scalar
  <1> HIDE DEF n, h, q
  <1>4. CASE q > Len(b)
    <2>1. ~(q <= Len(b))
      BY <1>2, <1>4
    <2> QED BY <1>3, <1>4, <2>1 DEF Died, n, q
  <1>5. CASE ~(q > Len(b))
    <2>1. q <= Len(b)
      BY <1>2, <1>5
    <2>2. LET v == Sized(h, b, q, n, d, text) IN
          \/ v.status = "ok" /\ v.p = q + n /\ q + n <= Len(b)
          \/ v.status = "insufficient" /\ q + n > Len(b)
      BY <1>2, <2>1, SizedEnds
    <2> QED BY <1>3, <1>5, <2>2 DEF n, q
  <1> QED BY <1>4, <1>5

(* Without its whole size a container lacks bytes, and an empty one is over.   *)
LEMMA ContainerItem ==
  ASSUME NEW b \in Seq(Byte), NEW a \in Nat, a < Len(b), NEW d \in Nat, NEW text,
         T_ARRAY(b[a + 1]) \/ T_MAP(b[a + 1])
  PROVE  LET V == Unpack(b, text)
             v == Item(V, b, text, a, d)
             q == AfterFetch(b, a)
             n == FetchSize(b, a) * (IF T_MAP(b[a + 1]) THEN 2 ELSE 1) IN
         /\ q > Len(b) => v.status = "insufficient"
         /\ q <= Len(b) => v = Contained(b[a + 1], V[<<q, d + 1, n>>])
         /\ q <= Len(b) /\ FetchSize(b, a) = 0 => v.status = "ok" /\ v.p = q
  <1> DEFINE h == b[a + 1]
             V == Unpack(b, text)
             v == Item(V, b, text, a, d)
             q == AfterFetch(b, a)
             n == FetchSize(b, a) * (IF T_MAP(h) THEN 2 ELSE 1)
  <1>1. ~(a >= Len(b)) /\ ~T_DIRECT(h) /\ h \notin 202 .. 211
        /\ h \notin {193} \cup (199 .. 201) \cup (212 .. 216)
    <2>1. h \in Byte /\ (T_ARRAY(h) \/ T_MAP(h)) /\ ~(a >= Len(b))
      OBVIOUS
    <2> HIDE DEF h
    <2>2. /\ ~T_DIRECT(h) /\ h \notin 202 .. 211
          /\ h \notin {193} \cup (199 .. 201) \cup (212 .. 216)
      BY <2>1, Kinds, Zenon
    <2> QED BY <2>1, <2>2
  <1>2. q \in Nat /\ Len(b) \in Nat
    BY FetchFacts
  <1>3. ASSUME q > Len(b)
        PROVE  v.status = "insufficient"
    <2>1. ~ContainerAt(b, a)
      BY <1>2, <1>3 DEF ContainerAt
    <2>2. v = Died("insufficient", a + 1, d)
      BY <1>1, <1>3, <2>1 DEF Item, Scalar
    <2> QED BY <2>2 DEF Died
  <1>4. ASSUME q <= Len(b)
        PROVE  v = Contained(h, V[<<q, d + 1, n>>])
    <2>1. ContainerAt(b, a)
      BY <1>4 DEF ContainerAt
    <2> QED BY <2>1 DEF Item
  <1>5. ASSUME q <= Len(b), FetchSize(b, a) = 0
        PROVE  v.status = "ok" /\ v.p = q
    <2> DEFINE x == V[<<q, d + 1, 0>>]
    <2>1. n = 0
      BY <1>5
    <2>2. v = Contained(h, x)
      BY <1>4, <1>5, <2>1
    <2>3. x = Items(V, b, text, q, d + 1, 0)
      <3> HIDE DEF q
      <3> QED BY <1>2, UnpackStep
    <2>4. Good(x, q, d + 1)
      <3> HIDE DEF q
      <3> QED BY <1>2, UnpackGood
    <2>5. x.status = "ok" /\ x.p = q
      <3> HIDE DEF V, q, x
      <3> QED BY <2>3 DEF Items, Returned
    <2> HIDE DEF x, v
    <2> QED BY <2>2, <2>4, <2>5, ContainedAlike DEF Good
  <1> QED BY <1>3, <1>4, <1>5

LEMMA UnexpectedItem ==
  ASSUME NEW b \in Seq(Byte), NEW a \in Nat, a < Len(b), NEW d \in Nat, NEW text, NEW V,
         b[a + 1] \in {193} \cup (199 .. 201) \cup (212 .. 216)
  PROVE  Item(V, b, text, a, d).status = "unexpected"
  <1>1. ~ContainerAt(b, a) /\ ~(a >= Len(b)) /\ ~T_DIRECT(b[a + 1]) /\ b[a + 1] \notin 202 .. 211
    BY Kinds DEF ContainerAt
  <1>2. Item(V, b, text, a, d) = Died("unexpected", a + 1, d)
    BY <1>1 DEF Item, Scalar
  <1> QED BY <1>2 DEF Died
-------------------------------------------------------------------------------
(* In execute the scanner is where the decoder is; between calls they agree.   *)
ScanInv ==
  /\ pc = "counting" => \A text \in BOOLEAN : Scanned(buff, stack, p, text)
  /\ pc = "idle" /\ last # "fresh" => \A text \in BOOLEAN : Agrees(buff, pos, last, text)

(* A header byte that _count is done with, by the stack it is counted on.      *)
LEMMA AfterCountScans ==
  ASSUME Counting, NEW q, NEW st, AfterCount(q, st),
         \A text \in BOOLEAN :
           /\ Counted(st) = << >> => Agrees(buff, q, "finished", text)
           /\ Counted(st) # << >> => Scanned(buff, Counted(st), q, text)
  PROVE  ScanInv'
  <1>1. CASE Counted(st) = << >>
    <2>1. pc' = "idle" /\ pos' = q /\ last' = "finished" /\ buff' = buff
      BY <1>1 DEF AfterCount, Leave
    <2>2. \A text \in BOOLEAN : Agrees(buff', pos', last', text)
      BY <1>1, <2>1
    <2> QED BY <2>1, <2>2 DEF ScanInv
  <1>2. CASE Counted(st) # << >>
    <2>1. pc' = "counting" /\ p' = q /\ stack' = Counted(st) /\ buff' = buff
      BY <1>2 DEF AfterCount, Counting
    <2>2. \A text \in BOOLEAN : Scanned(buff', stack', p', text)
      BY <1>2, <2>1
    <2> QED BY <2>1, <2>2 DEF ScanInv
  <1> QED BY <1>1, <1>2

(* An item that is over where _count goes on, or lacks bytes there.            *)
LEMMA ItemScans ==
  ASSUME TypeOK, ScanInv, Counting, NEW q \in Nat, AfterCount(q, stack),
         \A text \in BOOLEAN :
           LET v == Item(Unpack(buff, text), buff, text, p, Len(stack)) IN
           \/ v.status = "ok" /\ v.p = q /\ q <= Len(buff)
           \/ v.status = "insufficient" /\ q > Len(buff)
  PROVE  ScanInv'
  <1>1. buff \in Seq(Byte) /\ stack \in Seq(Nat \ {0}) /\ p \in Nat /\ p < Len(buff)
    BY DEF TypeOK, Counting, BytesLeft
  <1>2. ASSUME NEW text \in BOOLEAN
        PROVE  /\ Counted(stack) = << >> => Agrees(buff, q, "finished", text)
               /\ Counted(stack) # << >> => Scanned(buff, Counted(stack), q, text)
    <2> DEFINE v == Item(Unpack(buff, text), buff, text, p, Len(stack))
    <2>1. Scanned(buff, stack, p, text)
      BY DEF ScanInv, Counting
    <2>2. \/ v.status = "ok" /\ v.p = q /\ q <= Len(buff)
          \/ v.status = "insufficient" /\ q > Len(buff)
      OBVIOUS
    <2> QED BY <1>1, <2>1, <2>2, ItemCounted
  <1> QED BY <1>2, AfterCountScans

(* The size that _count reads is _fetch_size's, or 0 for want of bytes.        *)
LEMMA SizeFetched ==
  ASSUME TypeOK, Counting
  PROVE  /\ AfterSize = AfterFetch(buff, p)
         /\ AfterSize <= Len(buff) => Size = FetchSize(buff, p)
         /\ AfterSize > Len(buff) => Size = 0
  <1>1. Header \in Byte /\ p \in Nat /\ p < Len(buff) /\ Len(buff) \in Nat
    BY DEF TypeOK, Counting, BytesLeft, Header
  <1>2. AfterSize = AfterFetch(buff, p)
    BY DEF AfterSize, AfterFetch, Header
  <1>3. AfterSize \in Nat /\ (SizeBytes(Header) = 0 => AfterSize <= Len(buff))
    <2>1. SizeBytes(Header) \in Nat
      BY <1>1, HeaderSizes
    <2> QED BY <1>1, <2>1 DEF AfterSize
  <1>4. ASSUME AfterSize <= Len(buff)
        PROVE  Size = FetchSize(buff, p)
    <2>1. ~(AfterSize > Len(buff))
      BY <1>1, <1>3, <1>4
    <2> QED BY <1>2, <2>1 DEF Size, FetchSize, Header
  <1>5. ASSUME AfterSize > Len(buff)
        PROVE  Size = 0
    <2>1. SizeBytes(Header) # 0
      BY <1>1, <1>3, <1>5
    <2> QED BY <1>5, <2>1 DEF Size
  <1> QED BY <1>2, <1>4, <1>5

LEMMA DirectScans ==
  ASSUME TypeOK, ScanInv, CountDirect
  PROVE  ScanInv'
  <1>1. Counting /\ T_DIRECT(buff[p + 1]) /\ AfterCount(p + 1, stack)
    BY DEF CountDirect, Header
  <1>2. buff \in Seq(Byte) /\ Len(stack) \in Nat /\ p \in Nat /\ p < Len(buff) /\ Len(buff) \in Nat
    BY <1>1 DEF TypeOK, Counting, BytesLeft
  <1>3. p + 1 \in Nat /\ p + 1 <= Len(buff)
    BY <1>2
  <1>4. ASSUME NEW text \in BOOLEAN
        PROVE  LET v == Item(Unpack(buff, text), buff, text, p, Len(stack)) IN
               v.status = "ok" /\ v.p = p + 1
    BY <1>1, <1>2, DirectItem
  <1> QED BY <1>1, <1>3, <1>4, ItemScans

LEMMA NumberScans ==
  ASSUME TypeOK, ScanInv, CountNumber
  PROVE  ScanInv'
  <1> DEFINE q == p + 1 + NumberWidth(buff[p + 1])
  <1>1. Counting /\ buff[p + 1] \in 202 .. 211 /\ AfterCount(q, stack)
    BY DEF CountNumber, Header
  <1>2. buff \in Seq(Byte) /\ Len(stack) \in Nat /\ p \in Nat /\ p < Len(buff)
    BY <1>1 DEF TypeOK, Counting, BytesLeft
  <1>3. q \in Nat
    BY <1>2 DEF NumberWidth
  <1>4. ASSUME NEW text \in BOOLEAN
        PROVE  LET v == Item(Unpack(buff, text), buff, text, p, Len(stack)) IN
               \/ v.status = "ok" /\ v.p = q /\ q <= Len(buff)
               \/ v.status = "insufficient" /\ q > Len(buff)
    BY <1>1, <1>2, NumberItem
  <1> HIDE DEF q
  <1> QED BY <1>1, <1>3, <1>4, ItemScans

LEMMA BodyScans ==
  ASSUME TypeOK, ScanInv, CountBody
  PROVE  ScanInv'
  <1> DEFINE q == AfterSize + Size
  <1>2. Counting /\ AfterCount(q, stack) /\ (T_STR(Header) \/ T_BIN(Header))
    BY DEF CountBody
  <1>3. buff \in Seq(Byte) /\ Len(stack) \in Nat /\ p \in Nat /\ p < Len(buff) /\ Len(buff) \in Nat
    BY <1>2 DEF TypeOK, Counting, BytesLeft
  <1>4. AfterSize \in Nat /\ Size \in Nat
    BY <1>2, SizeIsNat
  <1>5. q \in Nat
    BY <1>4
  <1>6. ASSUME NEW text \in BOOLEAN
        PROVE  LET v == Item(Unpack(buff, text), buff, text, p, Len(stack)) IN
               \/ v.status = "ok" /\ v.p = q /\ q <= Len(buff)
               \/ v.status = "insufficient" /\ q > Len(buff)
    <2> DEFINE v == Item(Unpack(buff, text), buff, text, p, Len(stack))
               e == AfterFetch(buff, p) + FetchSize(buff, p)
    <2>1. /\ AfterFetch(buff, p) > Len(buff) => v.status = "insufficient"
          /\ AfterFetch(buff, p) <= Len(buff) =>
               \/ v.status = "ok" /\ v.p = e /\ e <= Len(buff)
               \/ v.status = "insufficient" /\ e > Len(buff)
      <3>1. T_STR(buff[p + 1]) \/ T_BIN(buff[p + 1])
        BY <1>2 DEF Header
      <3> QED BY <1>3, <3>1, BodyItem
    <2>2. /\ AfterSize = AfterFetch(buff, p)
          /\ AfterSize <= Len(buff) => Size = FetchSize(buff, p)
          /\ AfterSize > Len(buff) => Size = 0
      BY <1>2, SizeFetched
    <2> HIDE DEF v
    <2>3. CASE AfterSize > Len(buff)
      <3>1. q > Len(buff)
        BY <1>3, <1>4, <2>3
      <3> QED BY <2>1, <2>2, <2>3, <3>1 DEF v
    <2>4. CASE AfterSize <= Len(buff)
      <3>1. e = q
        BY <2>2, <2>4
      <3> HIDE DEF e, q
      <3> QED BY <2>1, <2>2, <2>4, <3>1 DEF v
    <2> QED BY <1>3, <1>4, <2>3, <2>4
  <1> HIDE DEF q
  <1> QED BY <1>2, <1>5, <1>6, ItemScans

LEMMA ContainerScans ==
  ASSUME TypeOK, ScanInv, CountContainer
  PROVE  ScanInv'
  <1> DEFINE n == FetchSize(buff, p) * (IF T_MAP(buff[p + 1]) THEN 2 ELSE 1)
             items == IF T_ARRAY(Header) THEN Size ELSE 2 * Size
             q == AfterSize
  <1>1. Counting /\ (T_ARRAY(Header) \/ T_MAP(Header))
        /\ AfterCount(q, IF Size = 0 THEN stack ELSE Append(stack, items + 1))
    BY DEF CountContainer
  <1>2. buff \in Seq(Byte) /\ stack \in Seq(Nat \ {0}) /\ Len(stack) \in Nat
        /\ p \in Nat /\ p < Len(buff) /\ Len(buff) \in Nat /\ Header \in Byte
    BY <1>1 DEF TypeOK, Counting, BytesLeft, Header
  <1>3. q \in Nat /\ Size \in Nat
    BY <1>1, SizeIsNat
  <1>4. /\ q = AfterFetch(buff, p)
        /\ q <= Len(buff) => Size = FetchSize(buff, p)
        /\ q > Len(buff) => Size = 0
    BY <1>1, SizeFetched
  <1>5. ASSUME NEW text \in BOOLEAN
        PROVE  LET V == Unpack(buff, text)
                   v == Item(V, buff, text, p, Len(stack)) IN
               /\ q > Len(buff) => v.status = "insufficient"
               /\ q <= Len(buff) => v = Contained(buff[p + 1], V[<<q, Len(stack) + 1, n>>])
               /\ q <= Len(buff) /\ Size = 0 => v.status = "ok" /\ v.p = q
    <2> DEFINE V == Unpack(buff, text)
               v == Item(V, buff, text, p, Len(stack))
               f == AfterFetch(buff, p)
    <2>1. T_ARRAY(buff[p + 1]) \/ T_MAP(buff[p + 1])
      BY <1>1 DEF Header
    <2>2. /\ f > Len(buff) => v.status = "insufficient"
          /\ f <= Len(buff) => v = Contained(buff[p + 1], V[<<f, Len(stack) + 1, n>>])
          /\ f <= Len(buff) /\ FetchSize(buff, p) = 0 => v.status = "ok" /\ v.p = f
      BY <1>2, <2>1, ContainerItem
    <2> HIDE DEF V, v, n, q, f
    <2>3. q = f
      BY <1>4 DEF f
    <2> QED BY <1>4, <2>2, <2>3 DEF V, v
  <1>6. CASE Size = 0
    <2>1. AfterCount(q, stack)
      BY <1>1, <1>6
    <2>2. ASSUME NEW text \in BOOLEAN
          PROVE  LET v == Item(Unpack(buff, text), buff, text, p, Len(stack)) IN
                 \/ v.status = "ok" /\ v.p = q /\ q <= Len(buff)
                 \/ v.status = "insufficient" /\ q > Len(buff)
      <3>1. q > Len(buff) \/ q <= Len(buff)
        BY <1>2, <1>3
      <3> HIDE DEF q, n
      <3> QED BY <1>5, <1>6, <3>1
    <2> HIDE DEF q
    <2> QED BY <1>1, <1>3, <2>1, <2>2, ItemScans
  <1>7. CASE Size # 0
    <2>1. q <= Len(buff) /\ Size = FetchSize(buff, p)
      BY <1>2, <1>3, <1>4, <1>7
    <2>2. items = n
      <3>1. CASE T_MAP(Header)
        <4>1. ~T_ARRAY(Header)
          BY <3>1 DEF T_ARRAY, T_MAP
        <4> QED BY <1>3, <2>1, <3>1, <4>1 DEF Header
      <3>2. CASE ~T_MAP(Header)
        BY <1>1, <1>3, <2>1, <3>2 DEF Header
      <3> QED BY <3>1, <3>2
    <2>3. items \in Nat \ {0} /\ items + 1 # 0
      BY <1>3, <1>7
    <2>4. AfterCount(q, Append(stack, items + 1))
      BY <1>1, <1>7
    <2> HIDE DEF items, n, q
    <2>5. ASSUME NEW text \in BOOLEAN
          PROVE  Scanned(buff, Counted(Append(stack, items + 1)), q, text)
      <3>1. Scanned(buff, stack, p, text)
        BY <1>1 DEF ScanInv, Counting
      <3>2. Item(Unpack(buff, text), buff, text, p, Len(stack)) =
              Contained(buff[p + 1], Unpack(buff, text)[<<q, Len(stack) + 1, items>>])
        BY <1>5, <2>1, <2>2
      <3> QED BY <1>2, <1>3, <2>1, <2>3, <3>1, <3>2, ContainerCounted
    <2>6. Counted(Append(stack, items + 1)) # << >>
      <3> DEFINE C == Counted(Append(stack, items + 1))
      <3>1. Len(C) = Len(stack) + 1
        BY <1>2, <2>3, PushedShape
      <3> HIDE DEF C
      <3>2. C # << >>
        BY <1>2, <3>1
      <3> QED BY <3>2 DEF C
    <2> QED BY <1>1, <2>4, <2>5, <2>6, AfterCountScans
  <1> QED BY <1>6, <1>7

LEMMA UnexpectedScans ==
  ASSUME TypeOK, ScanInv, CountUnexpected
  PROVE  ScanInv'
  <1>1. Counting /\ buff[p + 1] \in {193} \cup (199 .. 201) \cup (212 .. 216)
    BY DEF CountUnexpected, Header
  <1>2. buff \in Seq(Byte) /\ stack \in Seq(Nat \ {0}) /\ Len(stack) \in Nat
        /\ p \in Nat /\ p < Len(buff) /\ Len(buff) \in Nat
    BY <1>1 DEF TypeOK, Counting, BytesLeft
  <1>3. pc' = "idle" /\ last' = "croaked" /\ buff' = buff
    BY DEF CountUnexpected, object
  <1>4. ASSUME NEW text \in BOOLEAN
        PROVE  Whole(buff, text).status = "unexpected"
    <2> DEFINE v == Item(Unpack(buff, text), buff, text, p, Len(stack))
    <2>1. v.status = "unexpected"
      BY <1>1, <1>2, UnexpectedItem
    <2>2. Scanned(buff, stack, p, text)
      BY <1>1 DEF ScanInv, Counting
    <2>3. PICK R : Chain(Unpack(buff, text), Whole(buff, text), stack, p, R)
      BY <1>2, <2>2 DEF Scanned
    <2>4. v.status # "ok" => Whole(buff, text).status = v.status
      BY <1>2, <2>3, AtTop
    <2> QED BY <2>1, <2>4
  <1>5. ASSUME NEW text \in BOOLEAN
        PROVE  Agrees(buff, pos', "croaked", text)
    BY <1>4 DEF Agrees
  <1> QED BY <1>3, <1>5 DEF ScanInv

LEMMA EndScans ==
  ASSUME TypeOK, ScanInv, ReturnUnfinished
  PROVE  ScanInv'
  <1>1. pc = "counting" /\ p >= Len(buff) /\ pc' = "idle" /\ last' = "unfinished" /\ buff' = buff
        /\ pos' = p /\ p \in Nat /\ Len(buff) \in Nat /\ Len(stack) \in Nat
        /\ buff \in Seq(Byte) /\ stack \in Seq(Nat \ {0})
    BY DEF ReturnUnfinished, Leave, BytesLeft, TypeOK
  <1>2. ASSUME NEW text \in BOOLEAN
        PROVE  Whole(buff, text).status = "insufficient"
    <2>1. Scanned(buff, stack, p, text)
      BY <1>1 DEF ScanInv
    <2>2. CASE p <= Len(buff)
      <3>1. PICK R : Chain(Unpack(buff, text), Whole(buff, text), stack, p, R)
        BY <1>1, <2>1, <2>2 DEF Scanned
      <3> DEFINE v == Item(Unpack(buff, text), buff, text, p, Len(stack))
      <3>2. v.status # "ok" => Whole(buff, text).status = v.status
        BY <1>1, <3>1, AtTop
      <3>3. v = Died("insufficient", p, Len(stack))
        <4>1. ~ContainerAt(buff, p)
          BY <1>1 DEF ContainerAt
        <4> QED BY <1>1, <4>1 DEF Item, Scalar
      <3>4. v.status = "insufficient"
        BY <3>3 DEF Died
      <3> QED BY <3>2, <3>4
    <2>3. CASE ~(p <= Len(buff))
      BY <2>1, <2>3 DEF Scanned
    <2> QED BY <2>2, <2>3
  <1>3. ASSUME NEW text \in BOOLEAN
        PROVE  Agrees(buff, pos', "unfinished", text)
    BY <1>2 DEF Agrees
  <1> QED BY <1>1, <1>3 DEF ScanInv

(* execute begins at the first byte, for the one item that is due.             *)
LEMMA ExecuteScans ==
  ASSUME TypeOK, NEW a \in Arguments, ExecuteCall(a)
  PROVE  ScanInv'
  <1>1. pc' = "counting" /\ stack' = << >> /\ p' = 0 /\ buff' = buff \o Value(a)
    BY DEF ExecuteCall
  <1>2. Len(buff') \in Nat
    <2>1. buff \in Seq(Byte) /\ Value(a) \in Seq(Byte)
      BY ValueType DEF TypeOK, ExecuteCall
    <2> QED BY <1>1, <2>1
  <1>3. ASSUME NEW text \in BOOLEAN
        PROVE  Scanned(buff', << >>, 0, text)
    <2> DEFINE w == Whole(buff', text)
               R == [i \in {0} |-> w]
    <2>1. R[0] = w
      OBVIOUS
    <2>2. w = Unpack(buff', text)[<<0, 0, 1>>]
      BY DEF Whole
    <2> HIDE DEF R, w
    <2>3. Len(<< >>) = 0 /\ Due(<< >>, 0) = 1
      BY DEF Due
    <2>4. Ends(R[0], w)
      BY <2>1 DEF Ends
    <2>5. Behind(Unpack(buff', text), w, << >>, R)
      BY <2>1, <2>3, <2>4 DEF Behind
    <2>6. Chain(Unpack(buff', text), w, << >>, 0, R)
      BY <2>2, <2>3, <2>4, <2>5 DEF Chain
    <2>7. 0 <= Len(buff')
      BY <1>2
    <2> QED BY <2>6, <2>7 DEF Scanned, w
  <1> QED BY <1>1, <1>3 DEF ScanInv

LEMMA ScanStep ==
  ASSUME TypeOK, ScanInv, [Next]_vars
  PROVE  ScanInv'
  <1>1. ASSUME NEW a \in Arguments, ExecuteCall(a)
        PROVE  ScanInv'
    BY <1>1, ExecuteScans
  <1>2. CASE Count
    BY <1>2, DirectScans, BodyScans, ContainerScans, NumberScans, UnexpectedScans DEF Count
  <1>3. CASE ReturnUnfinished
    BY <1>3, EndScans
  <1>4. CASE Utf8
    BY <1>4 DEF Utf8, locals, history, ScanInv
  <1>5. CASE Reset
    BY <1>5 DEF Reset, locals, ScanInv
  <1>6. CASE New
    BY <1>6 DEF New, locals, ScanInv
  <1>7. ASSUME NEW u \in Utf8Args, OneShot(u)
        PROVE  ScanInv'
    BY <1>7 DEF OneShot, object, ScanInv
  <1>8. CASE UNCHANGED vars
    BY <1>8 DEF vars, object, locals, history, ScanInv
  <1> QED BY <1>1, <1>2, <1>3, <1>4, <1>5, <1>6, <1>7, <1>8 DEF Next, Execute, UnpackOnce

THEOREM Scans == Spec => [](IInv /\ ScanInv)
  <1>1. Init => ScanInv
    BY DEF Init, ScanInv
  <1>2. IInv /\ ScanInv /\ [Next]_vars => ScanInv'
    BY ScanStep DEF IInv
  <1> QED BY <1>1, <1>2, Invariance, PTL DEF Spec

(* _count finds the end of a message exactly where _unpack's reading of the    *)
(* format has it, and refuses exactly what _unpack refuses, for all byte       *)
(* strings, however they are cut into calls and however deeply they nest.      *)
THEOREM EndsFound == Spec => []ScannerFindsMessageEnd
  <1>1. ASSUME TypeOK, ScanInv
        PROVE  ScannerFindsMessageEnd
    <2> SUFFICES ASSUME pc = "idle", last # "fresh"
                 PROVE  ScannerFindsMessageEnd
      BY DEF ScannerFindsMessageEnd
    <2> DEFINE message == Decode(buff, utf8)
    <2>1. Agrees(buff, pos, last, utf8)
      BY <1>1 DEF TypeOK, ScanInv
    <2>2. message.status = Whole(buff, utf8).status /\ message.p = Whole(buff, utf8).p
      BY DEF Decode, Whole
    <2>3. buff \in Seq(Byte) /\ pos \in Nat /\ Len(buff) \in Nat
      BY <1>1 DEF TypeOK
    <2>4. /\ last = "finished" /\ pos <= Len(buff) <=> message.status = "ok"
          /\ message.status = "ok" => pos = message.p
          /\ last = "croaked" <=> message.status = "unexpected"
      BY <2>1, <2>2 DEF Agrees
    <2>5. ASSUME message.status = "ok"
          PROVE  Data.val = message.val
      <3>1. pos = message.p /\ pos <= Len(buff)
        BY <2>4, <2>5
      <3>2. Decode(SubSeq(buff, 1, pos), utf8).val = message.val
        BY <2>3, <2>5, <3>1, DecodeCut
      <3>3. Data = Decode(SubSeq(buff, 1, pos), utf8)
        <4>1. (IF pos < Len(buff) THEN pos ELSE Len(buff)) = pos
          BY <2>3, <3>1
        <4> QED BY <4>1 DEF Data
      <3> QED BY <3>2, <3>3
    <2> QED BY <2>4, <2>5 DEF ScannerFindsMessageEnd
  <1> QED BY <1>1, Scans, PTL DEF IInv
-------------------------------------------------------------------------------
(* The refinement.  A careful program calls execute only for a new message or  *)
(* for more of one, and an execute without offset returns the end it found.    *)
Steady ==
  /\ pc = "counting" => last \in {"fresh", "unfinished"}
  /\ offset = 0

LEMMA SteadyStep ==
  ASSUME Careful, \A a \in Arguments : a.offset = 0, TypeOK, Steady, [Next]_vars
  PROVE  Steady'
  <1>1. ASSUME NEW a \in Arguments, ExecuteCall(a)
        PROVE  Steady'
    BY <1>1 DEF ExecuteCall, Steady, TypeOK
  <1>2. CASE Count
    <2>1. offset' = offset
      BY <1>2 DEF Count, CountDirect, CountBody, CountContainer, CountNumber, CountUnexpected,
                  AfterCount
    <2>2. pc = "counting" /\ (pc' # "idle" => pc' = pc /\ last' = last)
      BY <1>2 DEF Count, CountDirect, CountBody, CountContainer, CountNumber, CountUnexpected,
                  AfterCount, Leave, Counting
    <2> QED BY <2>1, <2>2 DEF Steady
  <1>3. CASE ReturnUnfinished
    BY <1>3 DEF ReturnUnfinished, Leave, Steady
  <1>4. CASE Utf8
    BY <1>4 DEF Utf8, locals, history, Steady
  <1>5. CASE Reset
    BY <1>5 DEF Reset, locals, Steady
  <1>6. CASE New
    BY <1>6 DEF New, locals, Steady
  <1>7. ASSUME NEW u \in Utf8Args, OneShot(u)
        PROVE  Steady'
    BY <1>7 DEF OneShot, Steady
  <1>8. CASE UNCHANGED vars
    BY <1>8 DEF vars, locals, history, Steady
  <1> QED BY <1>1, <1>2, <1>3, <1>4, <1>5, <1>6, <1>7, <1>8 DEF Next, Execute, UnpackOnce

(* What the abstract stream sees of the bytes.                                 *)
LEMMA EndOnlyFields ==
  ASSUME NEW b, NEW text
  PROVE  LET e == EndOnly(b, text) IN
         /\ e.status = Whole(b, text).status /\ e.p = Whole(b, text).p
         /\ e.val = NULL /\ e.depth = 0
  <1> DEFINE w == Whole(b, text)
             y == IF w.status = "ok" THEN w.vals[1] ELSE NULL
  <1>1. Decode(b, text) = [status |-> w.status, p |-> w.p, depth |-> w.depth, val |-> y]
    BY DEF Decode, Whole
  <1> HIDE DEF w, y
  <1> DEFINE d == Decode(b, text)
             f == [d EXCEPT !.val = NULL]
  <1>2. EndOnly(b, text) = [f EXCEPT !.depth = 0]
    BY Zenon DEF EndOnly
  <1> HIDE DEF d
  <1>a. d = [status |-> w.status, p |-> w.p, depth |-> w.depth, val |-> y]
    BY <1>1 DEF d
  <1>b. f = [status |-> w.status, p |-> w.p, depth |-> w.depth, val |-> NULL]
    BY <1>a
  <1> HIDE DEF f
  <1>3. EndOnly(b, text) = [status |-> w.status, p |-> w.p, depth |-> 0, val |-> NULL]
    BY <1>2, <1>b
  <1> QED BY <1>3 DEF w

(* The bytes of a message that execute reports are there: no call ends inside  *)
(* a length, a number or a string.                                             *)
WholeItems == pc = "idle" /\ last = "finished" => pos <= Len(buff)

LEMMA StreamStep ==
  ASSUME Careful, IInv, ScanInv, Steady, ScanInv', WholeItems', [Next]_vars
  PROVE  [Stream!Next]_Stream!svars
  <1>0. utf8 \in BOOLEAN /\ TypeOK
    BY DEF IInv, TypeOK
  <1>m. ASSUME pc = "counting"
        PROVE  /\ Stream!Meaning.status = Whole(buff, utf8).status
               /\ Stream!Meaning.p = Whole(buff, utf8).p
               /\ Stream!Meaning.val = NULL /\ Stream!Fits
    <2> DEFINE e == EndOnly(buff, utf8)
    <2>1. /\ e.status = Whole(buff, utf8).status /\ e.p = Whole(buff, utf8).p
          /\ e.val = NULL /\ e.depth = 0
      BY EndOnlyFields
    <2> HIDE DEF e
    <2>2. last \notin {"finished", "croaked"}
      BY <1>m DEF Steady
    <2>3. Stream!Meaning = e
      BY <2>2 DEF Stream!Meaning, e
    <2> QED BY <2>1, <2>3 DEF Stream!Fits
  <1>1. CASE Execute
    <2>1. PICK a \in Arguments : ExecuteCall(a)
      BY <1>1 DEF Execute
    <2>2. /\ pc = "idle" /\ pc' = "counting" /\ last' = last /\ utf8' = utf8
          /\ buff' = buff \o Value(a)
      BY <2>1 DEF ExecuteCall
    <2>3. last \in {"fresh", "unfinished"}
      <3>1. last \notin {"finished", "croaked"}
        BY <2>1 DEF ExecuteCall
      <3> QED BY <1>0, <3>1 DEF TypeOK
    <2>4. Value(a) \in {Value(x) : x \in Arguments}
      OBVIOUS
    <2>5. Stream!Feed
      BY <2>2, <2>3, <2>4 DEF Stream!Feed
    <2> QED BY <2>5 DEF Stream!Next
  <1>2. ASSUME NEW q, NEW st, Counting, AfterCount(q, st)
        PROVE  [Stream!Next]_Stream!svars
    <2>1. /\ pc = "counting" /\ last \in {"fresh", "unfinished"} /\ offset = 0
          /\ buff' = buff /\ utf8' = utf8
      BY <1>2 DEF Counting, AfterCount, Steady
    <2>2. CASE Counted(st) # << >>
      <3>1. pc' = pc /\ last' = last
        BY <1>2, <2>2 DEF AfterCount
      <3> QED BY <2>1, <3>1 DEF Stream!svars
    <2>3. CASE Counted(st) = << >>
      <3>1. pc' = "idle" /\ last' = "finished" /\ pos' = q /\ ret' = q + 0
        BY <1>2, <2>1, <2>3 DEF AfterCount, Leave
      <3>2. Agrees(buff, q, "finished", utf8)
        BY <1>0, <2>1, <3>1 DEF ScanInv
      <3>3. q <= Len(buff)
        BY <2>1, <3>1 DEF WholeItems
      <3>4. Whole(buff, utf8).status = "ok" /\ Whole(buff, utf8).p = q
        BY <3>2, <3>3 DEF Agrees
      <3>5. q \in Nat /\ ret' = q
        <4>1. Good(Unpack(buff, utf8)[<<0, 0, 1>>], 0, 0)
          BY <1>0, UnpackGood DEF TypeOK
        <4>2. q \in Nat
          BY <3>4, <4>1 DEF Good, Whole
        <4> QED BY <3>1, <4>2
      <3>6. Stream!Complete
        BY <1>m, <2>1, <3>1, <3>4, <3>5 DEF Stream!Complete
      <3> QED BY <3>6 DEF Stream!Next
    <2> QED BY <2>2, <2>3
  <1>3. CASE CountDirect \/ CountBody \/ CountContainer \/ CountNumber
    <2>1. Counting /\ \E q, st : AfterCount(q, st)
      BY <1>3 DEF CountDirect, CountBody, CountContainer, CountNumber
    <2> QED BY <1>2, <2>1
  <1>4. CASE CountUnexpected
    <2>1. /\ pc = "counting" /\ last \in {"fresh", "unfinished"}
          /\ pc' = "idle" /\ last' = "croaked" /\ buff' = buff /\ utf8' = utf8 /\ pos' = pos
      BY <1>4 DEF CountUnexpected, Counting, object, Steady
    <2>2. Agrees(buff, pos', "croaked", utf8)
      BY <1>0, <2>1 DEF ScanInv
    <2>3. Whole(buff, utf8).status = "unexpected"
      BY <2>2 DEF Agrees
    <2>4. Stream!Refuse
      BY <1>m, <2>1, <2>3 DEF Stream!Refuse
    <2> QED BY <2>4 DEF Stream!Next
  <1>5. CASE ReturnUnfinished
    <2>1. /\ pc = "counting" /\ last \in {"fresh", "unfinished"}
          /\ pc' = "idle" /\ last' = "unfinished" /\ buff' = buff /\ utf8' = utf8
      BY <1>5 DEF ReturnUnfinished, Leave, Steady
    <2>2. Agrees(buff, pos', "unfinished", utf8)
      BY <1>0, <2>1 DEF ScanInv
    <2>3. Whole(buff, utf8).status # "ok"
      BY <2>2 DEF Agrees
    <2>4. Stream!WantMore
      BY <1>m, <2>1, <2>3 DEF Stream!WantMore
    <2> QED BY <2>4 DEF Stream!Next
  <1>6. CASE Utf8
    <2>1. pc = "idle" /\ UNCHANGED <<pc, buff, last, ret>>
      BY <1>6 DEF Utf8, locals, history
    <2>2. utf8' \in BOOLEAN
      <3>1. utf8' \in Utf8Args
        BY <1>6 DEF Utf8
      <3> QED BY <3>1, Utf8ArgsAssumption, Zenon
    <2>3. Stream!SetText
      BY <2>1, <2>2 DEF Stream!SetText
    <2> QED BY <2>3 DEF Stream!Next
  <1>7. CASE Reset \/ New
    <2>1. /\ pc = "idle" /\ pc' = "idle" /\ last' = "fresh" /\ buff' = << >>
          /\ utf8' \in {utf8, FALSE}
      BY <1>7 DEF Reset, New, locals
    <2>2. Stream!Restart
      BY <2>1 DEF Stream!Restart, Stream!NULL, NULL
    <2> QED BY <2>2 DEF Stream!Next
  <1>8. CASE UnpackOnce
    <2>1. UNCHANGED <<pc, buff, last, ret, utf8>>
      BY <1>8 DEF UnpackOnce, OneShot, object
    <2> QED BY <2>1 DEF Stream!svars
  <1>9. CASE UNCHANGED vars
    BY <1>9 DEF vars, object, locals, history, Stream!svars
  <1> QED BY <1>1, <1>3, <1>4, <1>5, <1>6, <1>7, <1>8, <1>9 DEF Next, Count

(* For a careful program whose calls never end inside a length, a number or a  *)
(* string, execute of the pure Perl unpacker finds the ends that the abstract  *)
(* stream promises, whatever the bytes are and however deeply they nest.       *)
THEOREM Refinement ==
  ASSUME Careful, \A a \in Arguments : a.offset = 0
  PROVE  Spec /\ []WholeItems => ImplementsStream
  <1>1. Init => Steady /\ Stream!Init
    BY DEF Init, Steady, Stream!Init, Stream!NULL, NULL
  <1>2. IInv /\ Steady /\ [Next]_vars => Steady'
    BY SteadyStep DEF IInv
  <1>3. /\ IInv /\ ScanInv /\ Steady /\ [Next]_vars
        /\ (IInv /\ ScanInv)' /\ WholeItems'
        => [Stream!Next]_Stream!svars
    BY StreamStep
  <1> QED BY <1>1, <1>2, <1>3, Scans, PTL DEF Spec, ImplementsStream, Stream!Spec
===============================================================================
