---------------------------- MODULE CProgram_proofs ----------------------------
(******************************************************************************)
(* TLAPS proofs about the C library, for all platforms, values and orders of  *)
(* calls.  First the functions: on a build whose byte order was detected right*)
(* sysdep.h writes and reads network order by whatever means it finds, and    *)
(* each packing function writes a form of the format that means what it was   *)
(* given.  Then each destination and the zones, with an invariant of its own. *)
(* Then the program: Preprocessing keeps the macros truthful, so that the build*)
(* is Fit, and the rest of CInv says of each call what was proved before.     *)
(******************************************************************************)
EXTENDS CProgram, SequenceTheorems, NaturalsInduction, WellFoundedInduction, TLAPS

Digits(w) == {d \in Seq(Byte) : Len(d) = w}

-------------------------------------------------------------------------------
(* Two integers of w digits are equal when their digits are.                   *)
LEMMA SameDigits ==
  ASSUME NEW w \in Nat, NEW d \in Digits(w), NEW e \in Digits(w),
         \A i \in 1 .. w : d[i] = e[i]
  PROVE  d = e
  BY DEF Digits

LEMMA CastDigits ==
  ASSUME NEW w \in Nat, NEW d \in Digits(w), NEW n \in 0 .. w
  PROVE  /\ Cast(d, n) \in Digits(n)
         /\ \A i \in 1 .. n : Cast(d, n)[i] = d[w - n + i]
  BY DEF Cast, Digits

LEMMA CastWhole ==
  ASSUME NEW w \in Nat, NEW d \in Digits(w)
  PROVE  Cast(d, w) = d
  <1>1. w \in 0 .. w
    OBVIOUS
  <1>2. Cast(d, w) \in Digits(w) /\ \A i \in 1 .. w : Cast(d, w)[i] = d[w - w + i]
    BY <1>1, CastDigits
  <1>3. \A i \in 1 .. w : Cast(d, w)[i] = d[i]
    <2>1. ASSUME NEW i \in 1 .. w
          PROVE  w - w + i = i
      OBVIOUS
    <2> QED BY <1>2, <2>1
  <1> QED BY <1>2, <1>3, SameDigits

LEMMA Reversed ==
  ASSUME NEW w \in Nat, NEW d \in Digits(w)
  PROVE  /\ Reverse(d) \in Digits(w)
         /\ \A i \in 1 .. w : Reverse(d)[i] = d[w + 1 - i]
  BY DEF Digits, Reverse

LEMMA ReversedTwice ==
  ASSUME NEW w \in Nat, NEW d \in Digits(w)
  PROVE  Reverse(Reverse(d)) = d
  <1>1. Reverse(d) \in Digits(w) /\ Reverse(Reverse(d)) \in Digits(w)
    BY Reversed
  <1>2. \A i \in 1 .. w : Reverse(Reverse(d))[i] = Reverse(d)[w + 1 - i]
    BY <1>1, Reversed
  <1>3. ASSUME NEW i \in 1 .. w
        PROVE  Reverse(Reverse(d))[i] = d[i]
    <2>1. w + 1 - i \in 1 .. w /\ w + 1 - (w + 1 - i) = i
      OBVIOUS
    <2>2. Reverse(d)[w + 1 - i] = d[w + 1 - (w + 1 - i)]
      BY <2>1, Reversed
    <2> QED BY <1>2, <2>1, <2>2
  <1> QED BY <1>1, <1>3, SameDigits

(* The macros that shift and mask swap, too.                                   *)
LEMMA Shifted2 ==
  ASSUME NEW d \in Digits(2)
  PROVE  Shifted(d, <<1, -1>>) = Reverse(d)
  <1> DEFINE n == <<1, -1>>
  <1>1. Len(d) = 2
    BY DEF Digits
  <1>2. \A i \in 1 .. 2 : i + n[i] = 2 - i + 1
    OBVIOUS
  <1> HIDE DEF n
  <1>3. [i \in 1 .. 2 |-> d[i + n[i]]] = [i \in 1 .. 2 |-> d[2 - i + 1]]
    BY <1>2
  <1>4. Shifted(d, n) = Reverse(d)
    BY <1>1, <1>3 DEF Shifted, Reverse
  <1> QED BY <1>4 DEF n

LEMMA Shifted4 ==
  ASSUME NEW d \in Digits(4)
  PROVE  Shifted(d, <<3, 1, -1, -3>>) = Reverse(d)
  <1> DEFINE n == <<3, 1, -1, -3>>
  <1>1. Len(d) = 4
    BY DEF Digits
  <1>2. \A i \in 1 .. 4 : i + n[i] = 4 - i + 1
    OBVIOUS
  <1> HIDE DEF n
  <1>3. [i \in 1 .. 4 |-> d[i + n[i]]] = [i \in 1 .. 4 |-> d[4 - i + 1]]
    BY <1>2
  <1>4. Shifted(d, n) = Reverse(d)
    BY <1>1, <1>3 DEF Shifted, Reverse
  <1> QED BY <1>4 DEF n

LEMMA Shifted8 ==
  ASSUME NEW d \in Digits(8)
  PROVE  Shifted(d, <<7, 5, 3, 1, -1, -3, -5, -7>>) = Reverse(d)
  <1> DEFINE n == <<7, 5, 3, 1, -1, -3, -5, -7>>
  <1>1. Len(d) = 8
    BY DEF Digits
  <1>2. \A i \in 1 .. 8 : i + n[i] = 8 - i + 1
    OBVIOUS
  <1> HIDE DEF n
  <1>3. [i \in 1 .. 8 |-> d[i + n[i]]] = [i \in 1 .. 8 |-> d[8 - i + 1]]
    BY <1>2
  <1>4. Shifted(d, n) = Reverse(d)
    BY <1>1, <1>3 DEF Shifted, Reverse
  <1> QED BY <1>4 DEF n

-------------------------------------------------------------------------------
(* A machine of one of the two orders, which was detected.                     *)
Known2(b) == /\ b.machine \in {"big", "little"}
             /\ b.machine = "big" => ~b.little
             /\ b.machine = "little" => b.little

LEMMA RightIsKnown ==
  ASSUME NEW b, b.machine \in {"big", "little"}, RightOrder(b)
  PROVE  Known2(b)
  BY DEF RightOrder, Known2

LEMMA Swaps16 ==
  ASSUME NEW b, Known2(b), NEW v \in Nat, v >= 2, NEW d \in Digits(v)
  PROVE  be16(b, d) = IF b.little THEN Reverse(Cast(d, 2)) ELSE Cast(d, 2)
  <1>1. 2 \in 0 .. v
    OBVIOUS
  <1>2. Cast(d, 2) \in Digits(2)
    BY <1>1, CastDigits
  <1>3. Shifted(Cast(d, 2), <<1, -1>>) = Reverse(Cast(d, 2))
    BY <1>2, Shifted2
  <1>4. b.little => NetworkToHost(b, Cast(d, 2)) = Reverse(Cast(d, 2))
    BY DEF NetworkToHost, Known2
  <1> QED BY <1>3, <1>4, Zenon DEF be16, ByteSwap

LEMMA Swaps32 ==
  ASSUME NEW b, Known2(b), NEW v \in Nat, v >= 4, NEW d \in Digits(v)
  PROVE  be32(b, d) = IF b.little THEN Reverse(Cast(d, 4)) ELSE Cast(d, 4)
  <1>1. 4 \in 0 .. v
    OBVIOUS
  <1>2. Cast(d, 4) \in Digits(4)
    BY <1>1, CastDigits
  <1>3. Shifted(Cast(d, 4), <<3, 1, -1, -3>>) = Reverse(Cast(d, 4))
    BY <1>2, Shifted4
  <1>4. b.little => NetworkToHost(b, Cast(d, 4)) = Reverse(Cast(d, 4))
    BY DEF NetworkToHost, Known2
  <1> QED BY <1>3, <1>4, Zenon DEF be32, ByteSwap

LEMMA Swaps64 ==
  ASSUME NEW b, Known2(b), NEW v \in Nat, v >= 8, NEW d \in Digits(v)
  PROVE  be64(b, d) = IF b.little THEN Reverse(Cast(d, 8)) ELSE Cast(d, 8)
  <1>1. 8 \in 0 .. v
    OBVIOUS
  <1>2. Cast(d, 8) \in Digits(8)
    BY <1>1, CastDigits
  <1>3. Shifted(Cast(d, 8), <<7, 5, 3, 1, -1, -3, -5, -7>>) = Reverse(Cast(d, 8))
    BY <1>2, Shifted8
  <1>4. b.little => NetworkToHost(b, Cast(d, 8)) = Reverse(Cast(d, 8))
    BY DEF NetworkToHost, Known2
  <1> QED BY <1>3, <1>4, Zenon DEF be64, ByteSwap

LEMMA Store16IsNetworkOrder ==
  ASSUME NEW b, Known2(b), NEW v \in Nat, v >= 2, NEW d \in Digits(v)
  PROVE  Store16(b, d) = Cast(d, 2)
  <1>1. 2 \in 0 .. v /\ 2 \in Nat
    OBVIOUS
  <1>2. Cast(d, 2) \in Digits(2)
    BY <1>1, CastDigits
  <1>3. Reverse(Reverse(Cast(d, 2))) = Cast(d, 2)
    BY <1>1, <1>2, ReversedTwice
  <1>4. Store16(b, d) = Mem(b, IF b.little THEN Reverse(Cast(d, 2)) ELSE Cast(d, 2))
    BY Swaps16 DEF Store16
  <1> QED BY <1>3, <1>4 DEF Mem, Known2

LEMMA Store32IsNetworkOrder ==
  ASSUME NEW b, Known2(b), NEW v \in Nat, v >= 4, NEW d \in Digits(v)
  PROVE  Store32(b, d) = Cast(d, 4)
  <1>1. 4 \in 0 .. v /\ 4 \in Nat
    OBVIOUS
  <1>2. Cast(d, 4) \in Digits(4)
    BY <1>1, CastDigits
  <1>3. Reverse(Reverse(Cast(d, 4))) = Cast(d, 4)
    BY <1>1, <1>2, ReversedTwice
  <1>4. Store32(b, d) = Mem(b, IF b.little THEN Reverse(Cast(d, 4)) ELSE Cast(d, 4))
    BY Swaps32 DEF Store32
  <1> QED BY <1>3, <1>4 DEF Mem, Known2

LEMMA Store64IsNetworkOrder ==
  ASSUME NEW b, Known2(b), NEW v \in Nat, v >= 8, NEW d \in Digits(v)
  PROVE  Store64(b, d) = Cast(d, 8)
  <1>1. 8 \in 0 .. v /\ 8 \in Nat
    OBVIOUS
  <1>2. Cast(d, 8) \in Digits(8)
    BY <1>1, CastDigits
  <1>3. Reverse(Reverse(Cast(d, 8))) = Cast(d, 8)
    BY <1>1, <1>2, ReversedTwice
  <1>4. Store64(b, d) = Mem(b, IF b.little THEN Reverse(Cast(d, 8)) ELSE Cast(d, 8))
    BY Swaps64 DEF Store64
  <1> QED BY <1>3, <1>4 DEF Mem, Known2

LEMMA Load16IsNetworkOrder ==
  ASSUME NEW b, Known2(b), NEW d \in Digits(2)
  PROVE  Load16(b, d) = d
  <1>1. 2 \in Nat /\ 2 >= 2
    OBVIOUS
  <1>2. Reverse(d) \in Digits(2) /\ Reverse(Reverse(d)) = d
    BY <1>1, Reversed, ReversedTwice
  <1>3. Mem(b, d) \in Digits(2) /\ Mem(b, d) = IF b.little THEN Reverse(d) ELSE d
    BY <1>2 DEF Mem, Known2
  <1>4. Cast(Mem(b, d), 2) = Mem(b, d)
    BY <1>1, <1>3, CastWhole
  <1>5. be16(b, Mem(b, d)) = IF b.little THEN Reverse(Mem(b, d)) ELSE Mem(b, d)
    BY <1>1, <1>3, <1>4, Swaps16
  <1> QED BY <1>2, <1>3, <1>5 DEF Load16

LEMMA Load32IsNetworkOrder ==
  ASSUME NEW b, Known2(b), NEW d \in Digits(4)
  PROVE  Load32(b, d) = d
  <1>1. 4 \in Nat /\ 4 >= 4
    OBVIOUS
  <1>2. Reverse(d) \in Digits(4) /\ Reverse(Reverse(d)) = d
    BY <1>1, Reversed, ReversedTwice
  <1>3. Mem(b, d) \in Digits(4) /\ Mem(b, d) = IF b.little THEN Reverse(d) ELSE d
    BY <1>2 DEF Mem, Known2
  <1>4. Cast(Mem(b, d), 4) = Mem(b, d)
    BY <1>1, <1>3, CastWhole
  <1>5. be32(b, Mem(b, d)) = IF b.little THEN Reverse(Mem(b, d)) ELSE Mem(b, d)
    BY <1>1, <1>3, <1>4, Swaps32
  <1> QED BY <1>2, <1>3, <1>5 DEF Load32

LEMMA Load64IsNetworkOrder ==
  ASSUME NEW b, Known2(b), NEW d \in Digits(8)
  PROVE  Load64(b, d) = d
  <1>1. 8 \in Nat /\ 8 >= 8
    OBVIOUS
  <1>2. Reverse(d) \in Digits(8) /\ Reverse(Reverse(d)) = d
    BY <1>1, Reversed, ReversedTwice
  <1>3. Mem(b, d) \in Digits(8) /\ Mem(b, d) = IF b.little THEN Reverse(d) ELSE d
    BY <1>2 DEF Mem, Known2
  <1>4. Cast(Mem(b, d), 8) = Mem(b, d)
    BY <1>1, <1>3, CastWhole
  <1>5. be64(b, Mem(b, d)) = IF b.little THEN Reverse(Mem(b, d)) ELSE Mem(b, d)
    BY <1>1, <1>3, <1>4, Swaps64
  <1> QED BY <1>2, <1>3, <1>5 DEF Load64

-------------------------------------------------------------------------------
Widths == {1, 2, 4, 8}

LEMMA Take8IsLow ==
  ASSUME NEW b, Known2(b), NEW w \in Widths, NEW d \in Digits(w)
  PROVE  Take8(b, w, d) = d[w]
  <1>1. w \in Nat /\ w \in 1 .. w /\ 1 \in 1 .. w /\ w + 1 - 1 = w
    BY DEF Widths
  <1>2. Reverse(d)[1] = d[w]
    BY <1>1, Reversed
  <1> QED BY <1>2 DEF Take8, Mem, Known2

(* Digits in front that are all zero, or all 255 in front of a digit whose     *)
(* sign is the number's, change nothing.                                       *)
Fill(d, signed) == IF signed /\ d[1] >= 128 THEN 255 ELSE 0

LEMMA Wider ==
  ASSUME NEW w \in Widths, NEW d \in Digits(w), NEW n \in Widths, n <= w, NEW e \in Digits(n),
         NEW s \in BOOLEAN, NEW t \in BOOLEAN,
         \A i \in 1 .. n : e[i] = d[w - n + i],
         \A i \in 1 .. w - n : d[i] = Fill(d, s),
         Fill(e, t) = Fill(d, s)
  PROVE  Extend(e, t) = Extend(d, s)
  <1> DEFINE f == Fill(d, s)
             g == Fill(e, t)
  <1>1. Extend(d, s) = [i \in 1 .. 8 |-> IF i > 8 - w THEN d[i - (8 - w)] ELSE f]
    BY DEF Extend, Digits, Fill
  <1>2. Extend(e, t) = [i \in 1 .. 8 |-> IF i > 8 - n THEN e[i - (8 - n)] ELSE g]
    BY DEF Extend, Digits, Fill
  <1> HIDE DEF f, g
  <1>3. g = f
    BY DEF f, g
  <1>4. ASSUME NEW i \in 1 .. 8
        PROVE  (IF i > 8 - n THEN e[i - (8 - n)] ELSE f) = (IF i > 8 - w THEN d[i - (8 - w)] ELSE f)
    <2>1. n \in Nat /\ w \in Nat /\ n <= 8 /\ w <= 8
      BY DEF Widths
    <2>2. ASSUME i > 8 - n
          PROVE  e[i - (8 - n)] = d[i - (8 - w)] /\ i > 8 - w
      <3>1. i - (8 - n) \in 1 .. n /\ w - n + (i - (8 - n)) = i - (8 - w)
        BY <2>1, <2>2
      <3> QED BY <2>1, <2>2, <3>1
    <2>3. ASSUME ~(i > 8 - n), i > 8 - w
          PROVE  d[i - (8 - w)] = f
      <3>1. i - (8 - w) \in 1 .. w - n
        BY <2>1, <2>3
      <3> QED BY <3>1 DEF f
    <2> QED BY <2>2, <2>3
  <1> QED BY <1>1, <1>2, <1>3, <1>4

(* The forms, read.                                                            *)
LEMMA Behind ==
  ASSUME NEW n \in Nat, NEW e \in Seq(Byte), Len(e) = n, NEW h \in Byte
  PROVE  /\ <<h>> \o e \in Seq(Byte) /\ Len(<<h>> \o e) = 1 + n
         /\ (<<h>> \o e)[1] = h
         /\ \A i \in 1 .. n : (<<h>> \o e)[i + 1] = e[i]
  <1>1. <<h>> \in Seq(Byte) /\ Len(<<h>>) = 1
    OBVIOUS
  <1> QED BY <1>1

LEMMA Behind1 ==
  ASSUME NEW n \in Widths, NEW e \in Digits(n), NEW h \in Byte
  PROVE  /\ Len(<<h>> \o e) = 1 + n
         /\ Head(<<h>> \o e) = h
         /\ Tail(<<h>> \o e) = e
  <1>1. e \in Seq(Byte) /\ Len(e) = n /\ n \in Nat
    BY DEF Digits, Widths
  <1>2. /\ <<h>> \o e \in Seq(Byte) /\ Len(<<h>> \o e) = 1 + n
        /\ (<<h>> \o e)[1] = h
        /\ \A i \in 1 .. n : (<<h>> \o e)[i + 1] = e[i]
    BY <1>1, Behind
  <1> DEFINE wire == <<h>> \o e
  <1> HIDE DEF wire
  <1>5. wire \in Seq(Byte) /\ Len(wire) = 1 + n /\ wire[1] = h
    BY <1>2 DEF wire
  <1>6. \A i \in 1 .. n : wire[i + 1] = e[i]
    BY <1>2 DEF wire
  <1>7. wire # << >>
    BY <1>1, <1>5 DEF Widths
  <1>8. Tail(wire) \in Seq(Byte) /\ Len(Tail(wire)) = n /\ \A i \in 1 .. n : Tail(wire)[i] = wire[i + 1]
    BY <1>1, <1>5, <1>7
  <1>9. Tail(wire) = e
    BY <1>1, <1>6, <1>8
  <1> QED BY <1>5, <1>7, <1>9 DEF wire

LEMMA Powers ==
  ASSUME NEW n \in Widths
  PROVE  Power[n] \in 0 .. 3
  BY DEF Power, Widths

LEMMA WideForm ==
  ASSUME NEW n \in Widths, NEW e \in Digits(n), NEW t \in BOOLEAN
  PROVE  LET h == (IF t THEN 208 ELSE 204) + Power[n] IN Means(<<h>> \o e, e, t)
  <1> DEFINE h == (IF t THEN 208 ELSE 204) + Power[n]
             wire == <<h>> \o e
  <1>1. h \in Byte /\ h \in {204 + Power[n], 208 + Power[n]} /\ (h >= 208) = t
    BY Powers DEF Byte
  <1>2. Len(wire) = 1 + n /\ Head(wire) = h /\ Tail(wire) = e
    BY <1>1, Behind1
  <1> HIDE DEF wire, h
  <1>3. WellFormed(wire)
    BY <1>1, <1>2 DEF WellFormed, Widths
  <1>4. Len(wire) # 1
    BY <1>2 DEF Widths
  <1>5. WireInteger(wire) = Extend(e, t)
    BY <1>1, <1>2, <1>4 DEF WireInteger
  <1>6. Means(wire, e, t)
    BY <1>3, <1>5 DEF Means
  <1> QED BY <1>6 DEF wire, h

LEMMA TinyForm ==
  ASSUME NEW x \in Byte, x < 128 \/ x >= 224
  PROVE  Means(<<x>>, <<x>>, x >= 224)
  <1>1. Len(<<x>>) = 1 /\ Head(<<x>>) = x
    OBVIOUS
  <1>2. WellFormed(<<x>>)
    BY <1>1 DEF WellFormed
  <1>3. WireInteger(<<x>>) = Extend(<<x>>, x >= 224)
    BY <1>1, Zenon DEF WireInteger
  <1> QED BY <1>2, <1>3 DEF Means

(* The last n digits behind their header, when those in front are only fill.   *)
LEMMA Form ==
  ASSUME NEW w \in Widths, NEW d \in Digits(w), NEW n \in Widths, n <= w,
         NEW s \in BOOLEAN, NEW t \in BOOLEAN,
         \A i \in 1 .. w - n : d[i] = Fill(d, s),
         Fill(Cast(d, n), t) = Fill(d, s)
  PROVE  Means(<<(IF t THEN 208 ELSE 204) + Power[n]>> \o Cast(d, n), d, s)
  <1>1. w \in Nat /\ n \in 0 .. w
    BY DEF Widths
  <1>2. Cast(d, n) \in Digits(n) /\ \A i \in 1 .. n : Cast(d, n)[i] = d[w - n + i]
    BY <1>1, CastDigits
  <1>3. Extend(Cast(d, n), t) = Extend(d, s)
    BY <1>2, Wider
  <1>4. Means(<<(IF t THEN 208 ELSE 204) + Power[n]>> \o Cast(d, n), Cast(d, n), t)
    BY <1>2, WideForm
  <1> QED BY <1>3, <1>4 DEF Means

LEMMA OneByte ==
  ASSUME NEW b, Known2(b), NEW w \in Widths, NEW d \in Digits(w), NEW s \in BOOLEAN,
         d[w] < 128 \/ d[w] >= 224,
         \A i \in 1 .. w - 1 : d[i] = Fill(d, s),
         (IF d[w] >= 224 THEN 255 ELSE 0) = Fill(d, s)
  PROVE  Means(<<Take8(b, w, d)>>, d, s)
  <1> DEFINE x == d[w]
  <1>1. Take8(b, w, d) = x
    BY Take8IsLow
  <1>2. x \in Byte
    BY DEF Digits, Widths
  <1>3. <<x>> \in Digits(1) /\ 1 \in Widths /\ 1 <= w /\ <<x>>[1] = x
    BY <1>2 DEF Digits, Widths
  <1>4. Fill(<<x>>, x >= 224) = Fill(d, s)
    BY <1>2, <1>3 DEF Fill, Byte
  <1>5. \A i \in 1 .. 1 : <<x>>[i] = d[w - 1 + i]
    BY DEF Widths
  <1>6. Extend(<<x>>, x >= 224) = Extend(d, s)
    <2> DEFINE e == <<x>>
               t == x >= 224
    <2>1. /\ t \in BOOLEAN /\ e \in Digits(1) /\ 1 \in Widths /\ 1 <= w
          /\ Fill(e, t) = Fill(d, s) /\ \A i \in 1 .. 1 : e[i] = d[w - 1 + i]
      BY <1>3, <1>4, <1>5
    <2> HIDE DEF x, e, t
    <2>2. Extend(e, t) = Extend(d, s)
      BY <2>1, Wider
    <2> QED BY <2>2 DEF e, t
  <1>7. Means(<<x>>, <<x>>, x >= 224)
    BY <1>2, TinyForm
  <1> QED BY <1>1, <1>6, <1>7 DEF Means

LEMMA Pair ==
  ASSUME NEW h \in Byte, NEW x \in Byte
  PROVE  <<h>> \o <<x>> = <<h, x>>
  <1> DEFINE c == <<x>>
             e == <<h>> \o c
             f == <<h, x>>
  <1>1. c \in Seq(Byte) /\ Len(c) = 1 /\ 1 \in Nat /\ c[1] = x
    OBVIOUS
  <1>2. f \in Digits(2) /\ f[1] = h /\ f[2] = x
    BY DEF Digits
  <1> HIDE DEF c, f
  <1>3. e \in Seq(Byte) /\ Len(e) = 1 + 1 /\ e[1] = h /\ \A i \in 1 .. 1 : e[i + 1] = c[i]
    BY <1>1, Behind
  <1> HIDE DEF e
  <1>4. e \in Digits(2)
    BY <1>3 DEF Digits
  <1>5. e[2] = x
    <2>1. 1 \in 1 .. 1 /\ 1 + 1 = 2
      OBVIOUS
    <2>2. e[1 + 1] = c[1]
      BY <1>3, <2>1
    <2> QED BY <1>1, <2>1, <2>2
  <1>6. \A i \in 1 .. 2 : e[i] = f[i]
    BY <1>2, <1>3, <1>5
  <1>7. e = f
    <2>1. 2 \in Nat
      OBVIOUS
    <2> QED BY <1>2, <1>4, <1>6, <2>1, SameDigits
  <1> QED BY <1>7 DEF c, e, f

LEMMA OneDigit ==
  ASSUME NEW b, Known2(b), NEW w \in Widths, NEW d \in Digits(w), NEW h \in Byte
  PROVE  <<h, Take8(b, w, d)>> = <<h>> \o Cast(d, 1)
  <1>1. w \in Nat /\ 1 \in 0 .. w /\ w - 1 + 1 = w
    BY DEF Widths
  <1>2. Cast(d, 1) \in Digits(1) /\ Cast(d, 1)[1] = d[w]
    BY <1>1, CastDigits
  <1>3. Take8(b, w, d) = d[w] /\ d[w] \in Byte
    <2>1. d[w] \in Byte
      BY DEF Digits, Widths
    <2> QED BY <2>1, Take8IsLow
  <1>4. <<d[w]>> \in Digits(1) /\ <<d[w]>>[1] = d[w] /\ 1 \in Nat
    BY <1>3 DEF Digits
  <1>5. Cast(d, 1) = <<d[w]>>
    <2>1. \A i \in 1 .. 1 : Cast(d, 1)[i] = <<d[w]>>[i]
      BY <1>2, <1>4
    <2> QED BY <1>2, <1>4, <2>1, SameDigits
  <1> QED BY <1>3, <1>5, Pair

LEMMA PowersAre == Power[1] = 0 /\ Power[2] = 1 /\ Power[4] = 2 /\ Power[8] = 3
  BY DEF Power

LEMMA Stored ==
  ASSUME NEW b, Known2(b), NEW w \in Widths, NEW d \in Digits(w)
  PROVE  /\ w >= 2 => Store16(b, d) = Cast(d, 2)
         /\ w >= 4 => Store32(b, d) = Cast(d, 4)
         /\ w >= 8 => Store64(b, d) = Cast(d, 8)
  BY Store16IsNetworkOrder, Store32IsNetworkOrder, Store64IsNetworkOrder DEF Widths

(* msgpack_pack_real_uint8 to uint64.                                          *)
LEMMA UnsignedMeans ==
  ASSUME NEW b, Known2(b), NEW w \in Widths, NEW d \in Digits(w)
  PROVE  Means(RealUnsigned(b, w, d), d, FALSE)
  <1> DEFINE wire == RealUnsigned(b, w, d)
             below == Below2To16(b, w, d)
  <1>0. below => Fits(d, 2)
    BY DEF Below2To16
  <1>1. Fill(d, FALSE) = 0 /\ \A e : Fill(e, FALSE) = 0
    BY DEF Fill
  <1>2. Len(d) = w /\ w \in Nat /\ \A n \in Widths : Power[n] + 204 = 204 + Power[n]
    BY DEF Digits, Widths, Power
  <1>3. ASSUME IsFixnum(d)
        PROVE  Means(wire, d, FALSE)
    <2>1. d[w] < 128 /\ \A i \in 1 .. w - 1 : d[i] = 0
      BY <1>2, <1>3 DEF IsFixnum, Fits, Last
    <2>2. ~(d[w] >= 224)
      <3>1. d[w] \in 0 .. 255
        BY DEF Digits, Byte, Widths
      <3> QED BY <2>1, <3>1
    <2>3. Means(<<Take8(b, w, d)>>, d, FALSE)
      BY <1>1, <2>1, <2>2, OneByte
    <2> QED BY <1>3, <2>3, Zenon DEF RealUnsigned
  <1>4. ASSUME NEW n \in Widths, n = w \/ Fits(d, n), n <= w
        PROVE  Means(<<204 + Power[n]>> \o Cast(d, n), d, FALSE)
    <2>1. \A i \in 1 .. w - n : d[i] = 0
      BY <1>2, <1>4 DEF Fits, Widths
    <2>2. \A i \in 1 .. w - n : d[i] = Fill(d, FALSE)
      BY <1>1, <2>1
    <2>3. Fill(Cast(d, n), FALSE) = Fill(d, FALSE) /\ FALSE \in BOOLEAN
      BY <1>1
    <2>4. Means(<<(IF FALSE THEN 208 ELSE 204) + Power[n]>> \o Cast(d, n), d, FALSE)
      BY <1>4, <2>2, <2>3, Form
    <2> QED BY <2>4
  <1>5. w \in {1, 2, 4, 8}
    BY DEF Widths
  <1>6. ASSUME ~IsFixnum(d), w = 1 \/ Fits(d, 1)
        PROVE  Means(wire, d, FALSE)
    <2>1. Means(<<204 + Power[1]>> \o Cast(d, 1), d, FALSE)
      <3>1. 1 \in Widths /\ 1 <= w /\ (1 = w \/ Fits(d, 1))
        BY <1>5, <1>6 DEF Widths
      <3> QED BY <1>4, <3>1, Zenon
    <2>2. <<204, Take8(b, w, d)>> = <<204>> \o Cast(d, 1)
      <3>1. 204 \in Byte
        BY DEF Byte
      <3> QED BY <3>1, OneDigit, Zenon
    <2>3. 204 + Power[1] = 204
      BY PowersAre
    <2> QED BY <1>6, <2>1, <2>2, <2>3, Zenon DEF RealUnsigned
  <1>7. ASSUME ~IsFixnum(d), ~(w = 1 \/ Fits(d, 1)), w = 2 \/ below
        PROVE  Means(wire, d, FALSE)
    <2>1. w >= 2
      BY <1>5, <1>7
    <2>2. Means(<<204 + Power[2]>> \o Cast(d, 2), d, FALSE)
      <3>1. 2 \in Widths /\ 2 <= w /\ (2 = w \/ Fits(d, 2))
        BY <1>0, <1>5, <1>7, <2>1 DEF Widths
      <3> QED BY <1>4, <3>1, Zenon
    <2>3. 204 + Power[2] = 205 /\ Store16(b, d) = Cast(d, 2)
      BY PowersAre, <2>1, Stored
    <2> QED BY <1>7, <2>2, <2>3, Zenon DEF RealUnsigned
  <1>8. ASSUME ~IsFixnum(d), ~(w = 1 \/ Fits(d, 1)), ~(w = 2 \/ below), w = 4 \/ Fits(d, 4)
        PROVE  Means(wire, d, FALSE)
    <2>1. w >= 4
      BY <1>5, <1>8
    <2>2. Means(<<204 + Power[4]>> \o Cast(d, 4), d, FALSE)
      BY <1>4, <1>5, <1>8, <2>1 DEF Widths
    <2>3. 204 + Power[4] = 206 /\ Store32(b, d) = Cast(d, 4)
      BY PowersAre, <2>1, Stored
    <2> QED BY <1>8, <2>2, <2>3, Zenon DEF RealUnsigned
  <1>9. ASSUME ~IsFixnum(d), ~(w = 1 \/ Fits(d, 1)), ~(w = 2 \/ below), ~(w = 4 \/ Fits(d, 4))
        PROVE  Means(wire, d, FALSE)
    <2>1. w = 8 /\ w >= 8 /\ 8 \in Widths
      BY <1>5, <1>9 DEF Widths
    <2>2. Means(<<204 + Power[8]>> \o Cast(d, 8), d, FALSE)
      BY <1>4, <2>1
    <2>3. 204 + Power[8] = 207 /\ Store64(b, d) = Cast(d, 8)
      BY PowersAre, <2>1, Stored
    <2> QED BY <1>9, <2>2, <2>3, Zenon DEF RealUnsigned
  <1> QED BY <1>3, <1>6, <1>7, <1>8, <1>9, Zenon

(* msgpack_pack_real_int8 to int64.                                            *)
LEMMA SignedMeans ==
  ASSUME NEW b, Known2(b), NEW w \in Widths, NEW d \in Digits(w)
  PROVE  Means(RealSigned(b, w, d), d, TRUE)
  <1> DEFINE wire == RealSigned(b, w, d)
  <1>0. w \in {1, 2, 4, 8} /\ Len(d) = w /\ w \in Nat /\ d[1] \in 0 .. 255
    <2>1. w \in {1, 2, 4, 8} /\ Len(d) = w /\ w \in Nat
      BY DEF Widths, Digits
    <2>2. d[1] \in Byte
      BY DEF Widths, Digits
    <2> QED BY <2>1, <2>2 DEF Byte
  <1>1. ASSUME ~Below0(d)
        PROVE  Means(wire, d, TRUE)
    <2>1. Extend(d, TRUE) = Extend(d, FALSE)
      <3>1. ~(d[1] >= 128)
        BY <1>1 DEF Below0
      <3> QED BY <3>1 DEF Extend
    <2>2. wire = RealUnsigned(b, w, d)
      BY <1>1, Zenon DEF RealSigned
    <2>3. Means(RealUnsigned(b, w, d), d, FALSE)
      BY UnsignedMeans
    <2> HIDE DEF wire
    <2> QED BY <2>1, <2>2, <2>3 DEF Means
  <1>2. Below0(d) => Fill(d, TRUE) = 255
    BY DEF Below0, Fill
  <1>3. ASSUME Below0(d), IsNegativeFixnum(d)
        PROVE  Means(wire, d, TRUE)
    <2>1. d[w] >= 224 /\ \A i \in 1 .. w - 1 : d[i] = 255
      BY <1>0, <1>3 DEF IsNegativeFixnum, FitsBelow0, Last
    <2>2. Means(<<Take8(b, w, d)>>, d, TRUE)
      BY <1>2, <1>3, <2>1, OneByte
    <2> QED BY <1>3, <2>2, Zenon DEF RealSigned
  <1>4. ASSUME Below0(d), NEW n \in Widths, n = w \/ FitsBelow0(d, n), n <= w
        PROVE  Means(<<208 + Power[n]>> \o Cast(d, n), d, TRUE)
    <2>1. d[w - n + 1] >= 128 /\ \A i \in 1 .. w - n : d[i] = 255
      <3>1. ASSUME n = w
            PROVE  w - n + 1 = 1 /\ 1 .. w - n = {}
        BY <1>0, <3>1
      <3>2. ASSUME n = w
            PROVE  d[w - n + 1] >= 128 /\ \A i \in 1 .. w - n : d[i] = 255
        BY <1>4, <3>1, <3>2 DEF Below0
      <3>3. ASSUME FitsBelow0(d, n)
            PROVE  d[w - n + 1] >= 128 /\ \A i \in 1 .. w - n : d[i] = 255
        BY <1>0, <3>3 DEF FitsBelow0
      <3> QED BY <1>4, <3>2, <3>3
    <2>2. \A i \in 1 .. w - n : d[i] = Fill(d, TRUE)
      BY <1>2, <1>4, <2>1
    <2>3. Cast(d, n)[1] = d[w - n + 1]
      <3>1. n \in 0 .. w /\ 1 \in 1 .. n
        BY <1>0, <1>4 DEF Widths
      <3> QED BY <1>0, <3>1, CastDigits
    <2>4. Fill(Cast(d, n), TRUE) = Fill(d, TRUE) /\ TRUE \in BOOLEAN
      BY <1>2, <1>4, <2>1, <2>3 DEF Fill
    <2> DEFINE t == TRUE
    <2>5. /\ t \in BOOLEAN /\ Fill(Cast(d, n), t) = Fill(d, t)
          /\ \A i \in 1 .. w - n : d[i] = Fill(d, t)
      BY <2>2, <2>4
    <2> HIDE DEF t
    <2>6. Means(<<(IF t THEN 208 ELSE 204) + Power[n]>> \o Cast(d, n), d, t)
      BY <1>4, <2>5, Form
    <2> QED BY <2>6 DEF t
  <1>6. ASSUME Below0(d), ~IsNegativeFixnum(d), w = 1 \/ FitsBelow0(d, 1)
        PROVE  Means(wire, d, TRUE)
    <2>1. Means(<<208 + Power[1]>> \o Cast(d, 1), d, TRUE)
      <3>1. 1 \in Widths /\ 1 <= w /\ (1 = w \/ FitsBelow0(d, 1))
        BY <1>0, <1>6 DEF Widths
      <3> QED BY <1>4, <1>6, <3>1, Zenon
    <2>2. <<208, Take8(b, w, d)>> = <<208>> \o Cast(d, 1)
      <3> DEFINE h == 208
      <3>1. h \in Byte
        BY DEF Byte
      <3> HIDE DEF h
      <3>2. <<h, Take8(b, w, d)>> = <<h>> \o Cast(d, 1)
        BY <3>1, OneDigit
      <3> QED BY <3>2 DEF h
    <2>3. 208 + Power[1] = 208
      BY PowersAre
    <2> QED BY <1>6, <2>1, <2>2, <2>3, Zenon DEF RealSigned
  <1>7. ASSUME Below0(d), ~IsNegativeFixnum(d), ~(w = 1 \/ FitsBelow0(d, 1)),
               w = 2 \/ FitsBelow0(d, 2)
        PROVE  Means(wire, d, TRUE)
    <2>1. w >= 2 /\ 2 \in Widths /\ 2 <= w
      BY <1>0, <1>7 DEF Widths
    <2>2. Means(<<208 + Power[2]>> \o Cast(d, 2), d, TRUE)
      BY <1>4, <1>7, <2>1
    <2>3. 208 + Power[2] = 209 /\ Store16(b, d) = Cast(d, 2)
      BY PowersAre, <2>1, Stored
    <2> QED BY <1>7, <2>2, <2>3, Zenon DEF RealSigned
  <1>8. ASSUME Below0(d), ~IsNegativeFixnum(d), ~(w = 1 \/ FitsBelow0(d, 1)),
               ~(w = 2 \/ FitsBelow0(d, 2)), w = 4 \/ FitsBelow0(d, 4)
        PROVE  Means(wire, d, TRUE)
    <2>1. w >= 4 /\ 4 \in Widths /\ 4 <= w
      BY <1>0, <1>8 DEF Widths
    <2>2. Means(<<208 + Power[4]>> \o Cast(d, 4), d, TRUE)
      BY <1>4, <1>8, <2>1
    <2>3. 208 + Power[4] = 210 /\ Store32(b, d) = Cast(d, 4)
      BY PowersAre, <2>1, Stored
    <2> QED BY <1>8, <2>2, <2>3, Zenon DEF RealSigned
  <1>9. ASSUME Below0(d), ~IsNegativeFixnum(d), ~(w = 1 \/ FitsBelow0(d, 1)),
               ~(w = 2 \/ FitsBelow0(d, 2)), ~(w = 4 \/ FitsBelow0(d, 4))
        PROVE  Means(wire, d, TRUE)
    <2>1. w = 8 /\ w >= 8 /\ 8 <= w /\ 8 \in Widths
      BY <1>0, <1>9 DEF Widths
    <2>2. Means(<<208 + Power[8]>> \o Cast(d, 8), d, TRUE)
      BY <1>4, <1>9, <2>1
    <2>3. 208 + Power[8] = 211 /\ Store64(b, d) = Cast(d, 8)
      BY PowersAre, <2>1, Stored
    <2> QED BY <1>9, <2>2, <2>3, Zenon DEF RealSigned
  <1> QED BY <1>1, <1>3, <1>6, <1>7, <1>8, <1>9, Zenon

(* msgpack_pack_fix_uint8 to fix_int64: the form of the whole type.            *)
LEMMA FixedMeans ==
  ASSUME NEW b, Known2(b), NEW w \in Widths, NEW d \in Digits(w), NEW t \in BOOLEAN
  PROVE  Means(Fixed(b, (IF t THEN 208 ELSE 204) + Power[w], w, d), d, t)
  <1> DEFINE h == (IF t THEN 208 ELSE 204) + Power[w]
  <1>1. h \in Byte
    BY Powers DEF Byte
  <1>2. Means(<<h>> \o d, d, t)
    BY WideForm
  <1>3. Cast(d, w) = d /\ w \in {1, 2, 4, 8}
    BY CastWhole DEF Widths
  <1> HIDE DEF h
  <1>4. ASSUME w = 1
        PROVE  Fixed(b, h, w, d) = <<h>> \o d
    <2>1. <<h, Take8(b, w, d)>> = <<h>> \o Cast(d, 1)
      BY <1>1, OneDigit
    <2> QED BY <1>3, <1>4, <2>1 DEF Fixed
  <1>5. ASSUME w # 1
        PROVE  Fixed(b, h, w, d) = <<h>> \o d
    <2>1. /\ w = 2 => Store16(b, d) = d
          /\ w = 4 => Store32(b, d) = d
          /\ w = 8 => Store64(b, d) = d
      BY <1>3, Stored
    <2>2. /\ w = 2 => Fixed(b, h, w, d) = <<h>> \o Store16(b, d)
          /\ w = 4 => Fixed(b, h, w, d) = <<h>> \o Store32(b, d)
          /\ w = 8 => Fixed(b, h, w, d) = <<h>> \o Store64(b, d)
      BY DEF Fixed
    <2> QED BY <1>3, <1>5, <2>1, <2>2
  <1> QED BY <1>2, <1>4, <1>5 DEF h

-------------------------------------------------------------------------------
(* What the program was compiled with: the order of the machine, as detected,  *)
(* and for each type of pack_template.h its size, which SIZEOF_x and x_MAX     *)
(* tell truly where they are defined.                                          *)
Truthful(b, SIZEOF, MAX, type) ==
  /\ b.sizeof[type] \in {2, 4, 8}
  /\ Defined(b.m, SIZEOF) => b.m[SIZEOF] = b.sizeof[type]
  /\ Defined(b.m, MAX) => b.m[MAX] = b.sizeof[type]

TrueSizes(b) ==
  /\ Truthful(b, "SIZEOF_SHORT", "SHRT_MAX", "short")
  /\ Truthful(b, "SIZEOF_SHORT", "USHRT_MAX", "short")
  /\ Truthful(b, "SIZEOF_INT", "INT_MAX", "int")
  /\ Truthful(b, "SIZEOF_INT", "UINT_MAX", "int")
  /\ Truthful(b, "SIZEOF_LONG", "LONG_MAX", "long")
  /\ Truthful(b, "SIZEOF_LONG", "ULONG_MAX", "long")
  /\ Truthful(b, "SIZEOF_LONG_LONG", "LLONG_MAX", "long_long")
  /\ Truthful(b, "SIZEOF_LONG_LONG", "ULLONG_MAX", "long_long")

LEMMA BitsAreTrue ==
  ASSUME NEW b, NEW SIZEOF, NEW MAX, NEW type, Truthful(b, SIZEOF, MAX, type)
  PROVE  Bits(b, SIZEOF, MAX, type) = b.sizeof[type] /\ b.sizeof[type] \in Widths
  <1> DEFINE size == b.sizeof[type]
  <1>1. /\ size \in {2, 4, 8}
        /\ Defined(b.m, SIZEOF) => b.m[SIZEOF] = size
        /\ Defined(b.m, MAX) => b.m[MAX] = size
    BY DEF Truthful
  <1> HIDE DEF size
  <1>2. (IF size = 2 THEN 2 ELSE IF size = 4 THEN 4 ELSE 8) = size /\ size \in Widths
    BY <1>1 DEF Widths
  <1>3. Bits(b, SIZEOF, MAX, type) = IF size = 2 THEN 2 ELSE IF size = 4 THEN 4 ELSE 8
    BY <1>1 DEF Bits, size
  <1> QED BY <1>2, <1>3 DEF size

LEMMA TypeMeans ==
  ASSUME NEW b, Known2(b), NEW SIZEOF, NEW MAX, NEW type, Truthful(b, SIZEOF, MAX, type),
         NEW d \in Digits(b.sizeof[type])
  PROVE  /\ Means(RealSigned(b, Bits(b, SIZEOF, MAX, type), d), d, TRUE)
         /\ Means(RealUnsigned(b, Bits(b, SIZEOF, MAX, type), d), d, FALSE)
  <1> DEFINE w == b.sizeof[type]
  <1>1. Bits(b, SIZEOF, MAX, type) = w /\ w \in Widths
    BY BitsAreTrue
  <1>2. d \in Digits(w)
    OBVIOUS
  <1> HIDE DEF w
  <1>3. Means(RealSigned(b, w, d), d, TRUE) /\ Means(RealUnsigned(b, w, d), d, FALSE)
    BY <1>1, <1>2, SignedMeans, UnsignedMeans
  <1> QED BY <1>1, <1>3

(* Where the order was detected right, _msgpack_store16, 32 and 64 put the low *)
(* bytes of any integer into memory in network order, and _msgpack_load16, 32  *)
(* and 64 read them back, whichever of ntohl, the compiler's byte swaps and    *)
(* the shifts the headers found.                                               *)
THEOREM NetworkOrder ==
  ASSUME NEW b, b.machine \in {"big", "little"}, RightOrder(b)
  PROVE  /\ \A v \in Nat : \A d \in Digits(v) :
              /\ v >= 2 => Store16(b, d) = Cast(d, 2)
              /\ v >= 4 => Store32(b, d) = Cast(d, 4)
              /\ v >= 8 => Store64(b, d) = Cast(d, 8)
         /\ \A d \in Digits(2) : Load16(b, d) = d
         /\ \A d \in Digits(4) : Load32(b, d) = d
         /\ \A d \in Digits(8) : Load64(b, d) = d
  <1>1. Known2(b)
    BY RightIsKnown
  <1> QED BY <1>1, Store16IsNetworkOrder, Store32IsNetworkOrder, Store64IsNetworkOrder,
             Load16IsNetworkOrder, Load32IsNetworkOrder, Load64IsNetworkOrder

LEMMA SizedMeans ==
  ASSUME NEW b, Known2(b), NEW w \in Widths, NEW d \in Digits(w)
  PROVE  /\ Means(RealUnsigned(b, w, d), d, FALSE)
         /\ Means(RealSigned(b, w, d), d, TRUE)
         /\ Means(FixUnsigned(b, w, d), d, FALSE)
         /\ Means(FixSigned(b, w, d), d, TRUE)
  <1>1. Known2(b)
    OBVIOUS
  <1>2. ASSUME NEW t \in BOOLEAN
        PROVE  Means(Fixed(b, (IF t THEN 208 ELSE 204) + Power[w], w, d), d, t)
    BY <1>1, FixedMeans
  <1>3. Means(FixUnsigned(b, w, d), d, FALSE)
    <2> DEFINE t == FALSE
    <2>1. Means(Fixed(b, (IF t THEN 208 ELSE 204) + Power[w], w, d), d, t)
      BY <1>2
    <2> QED BY <2>1 DEF FixUnsigned
  <1>4. Means(FixSigned(b, w, d), d, TRUE)
    <2> DEFINE t == TRUE
    <2>1. Means(Fixed(b, (IF t THEN 208 ELSE 204) + Power[w], w, d), d, t)
      BY <1>2
    <2> QED BY <2>1 DEF FixSigned
  <1> QED BY <1>1, <1>3, <1>4, SignedMeans, UnsignedMeans

(* msgpack_pack_uint8 to int64 and msgpack_pack_fix_uint8 to fix_int64 write a *)
(* form of the format that reads as the integer they were given, the smallest  *)
(* and the largest of the type included.                                       *)
THEOREM SizedIntegersOnWire ==
  ASSUME NEW b, b.machine \in {"big", "little"}, RightOrder(b),
         NEW w \in Widths, NEW d \in Digits(w)
  PROVE  /\ Means(RealUnsigned(b, w, d), d, FALSE)
         /\ Means(RealSigned(b, w, d), d, TRUE)
         /\ Means(FixUnsigned(b, w, d), d, FALSE)
         /\ Means(FixSigned(b, w, d), d, TRUE)
  <1>1. Known2(b)
    BY RightIsKnown
  <1> QED BY <1>1, SizedMeans

(* It is known whether plain char is signed.                                   *)
Charted(b) == b.char_signed \in BOOLEAN

LEMMA TypedMeans ==
  ASSUME NEW b, Known2(b), TrueSizes(b), Charted(b)
  PROVE  /\ \A d \in Digits(1) : /\ Means(pack_char(b, d), d, b.char_signed)
                                 /\ Means(pack_signed_char(b, d), d, TRUE)
                                 /\ Means(pack_unsigned_char(b, d), d, FALSE)
         /\ \A d \in Digits(b.sizeof["short"]) : /\ Means(pack_short(b, d), d, TRUE)
                                                 /\ Means(pack_unsigned_short(b, d), d, FALSE)
         /\ \A d \in Digits(b.sizeof["int"]) : /\ Means(pack_int(b, d), d, TRUE)
                                               /\ Means(pack_unsigned_int(b, d), d, FALSE)
         /\ \A d \in Digits(b.sizeof["long"]) : /\ Means(pack_long(b, d), d, TRUE)
                                                /\ Means(pack_unsigned_long(b, d), d, FALSE)
         /\ \A d \in Digits(b.sizeof["long_long"]) :
              /\ Means(pack_long_long(b, d), d, TRUE)
              /\ Means(pack_unsigned_long_long(b, d), d, FALSE)
  <1>1. Known2(b)
    OBVIOUS
  <1>2. ASSUME NEW d \in Digits(1)
        PROVE  /\ Means(pack_char(b, d), d, b.char_signed)
               /\ Means(pack_signed_char(b, d), d, TRUE)
               /\ Means(pack_unsigned_char(b, d), d, FALSE)
    <2>1. 1 \in Widths
      BY DEF Widths
    <2>2. Means(RealSigned(b, 1, d), d, TRUE) /\ Means(RealUnsigned(b, 1, d), d, FALSE)
      BY <1>1, <2>1, SignedMeans, UnsignedMeans
    <2>3. ASSUME b.char_signed = TRUE
          PROVE  Means(pack_char(b, d), d, b.char_signed)
      BY <2>2, <2>3 DEF pack_char
    <2>4. ASSUME b.char_signed = FALSE
          PROVE  Means(pack_char(b, d), d, b.char_signed)
      BY <2>2, <2>4 DEF pack_char
    <2> QED BY <2>2, <2>3, <2>4 DEF Charted, pack_signed_char, pack_unsigned_char
  <1>3. ASSUME NEW d \in Digits(b.sizeof["short"])
        PROVE  Means(pack_short(b, d), d, TRUE) /\ Means(pack_unsigned_short(b, d), d, FALSE)
    BY <1>1, TypeMeans DEF TrueSizes, pack_short, pack_unsigned_short
  <1>4. ASSUME NEW d \in Digits(b.sizeof["int"])
        PROVE  Means(pack_int(b, d), d, TRUE) /\ Means(pack_unsigned_int(b, d), d, FALSE)
    BY <1>1, TypeMeans DEF TrueSizes, pack_int, pack_unsigned_int
  <1>5. ASSUME NEW d \in Digits(b.sizeof["long"])
        PROVE  Means(pack_long(b, d), d, TRUE) /\ Means(pack_unsigned_long(b, d), d, FALSE)
    BY <1>1, TypeMeans DEF TrueSizes, pack_long, pack_unsigned_long
  <1>6. ASSUME NEW d \in Digits(b.sizeof["long_long"])
        PROVE  Means(pack_long_long(b, d), d, TRUE) /\ Means(pack_unsigned_long_long(b, d), d, FALSE)
    BY <1>1, TypeMeans DEF TrueSizes, pack_long_long, pack_unsigned_long_long
  <1> QED BY <1>2, <1>3, <1>4, <1>5, <1>6

(* msgpack_pack_char to msgpack_pack_unsigned_long_long take the right one of  *)
(* those functions: no integer of these types is cut or changes its sign, on   *)
(* any machine whose limits.h and SIZEOF_x are true.                           *)
THEOREM TypedIntegersOnWire ==
  ASSUME NEW b, b.machine \in {"big", "little"}, RightOrder(b), TrueSizes(b),
         b.char_signed \in BOOLEAN
  PROVE  /\ \A d \in Digits(1) : /\ Means(pack_char(b, d), d, b.char_signed)
                                 /\ Means(pack_signed_char(b, d), d, TRUE)
                                 /\ Means(pack_unsigned_char(b, d), d, FALSE)
         /\ \A d \in Digits(b.sizeof["short"]) : /\ Means(pack_short(b, d), d, TRUE)
                                                 /\ Means(pack_unsigned_short(b, d), d, FALSE)
         /\ \A d \in Digits(b.sizeof["int"]) : /\ Means(pack_int(b, d), d, TRUE)
                                               /\ Means(pack_unsigned_int(b, d), d, FALSE)
         /\ \A d \in Digits(b.sizeof["long"]) : /\ Means(pack_long(b, d), d, TRUE)
                                                /\ Means(pack_unsigned_long(b, d), d, FALSE)
         /\ \A d \in Digits(b.sizeof["long_long"]) :
              /\ Means(pack_long_long(b, d), d, TRUE)
              /\ Means(pack_unsigned_long_long(b, d), d, FALSE)
  <1>1. Known2(b) /\ Charted(b)
    BY RightIsKnown DEF Charted
  <1> QED BY <1>1, TypedMeans

-------------------------------------------------------------------------------
(* Induction, as in PPUnpack_proofs.                                           *)
LEMMA Smallest ==
  ASSUME NEW T, T \subseteq Nat, T # {}
  PROVE  \E x \in T : \A y \in T : x <= y
  <1> DEFINE R == {ss \in Nat \X Nat : ss[1] < ss[2]}
  <1>1. IsWellFoundedOn(R, Nat)
    BY NatLessThanWellFounded DEF OpToRel
  <1> HIDE DEF R
  <1>2. PICK x \in T : \A y \in T : <<y, x>> \notin R
    BY <1>1, WFMin, Zenon
  <1>3. \A y \in T : ~(y < x)
    BY <1>2 DEF R
  <1> QED BY <1>3

LEMMA Inductive ==
  ASSUME NEW T, 0 \in T, \A n \in Nat : n \in T => n + 1 \in T
  PROVE  Nat \subseteq T
  <1> SUFFICES ASSUME NEW m \in Nat, m \notin T
               PROVE  FALSE
    OBVIOUS
  <1> DEFINE Out == {n \in Nat : n \notin T}
  <1>1. PICK x \in Out : \A y \in Out : x <= y
    <2>1. Out \subseteq Nat /\ Out # {}
      OBVIOUS
    <2> HIDE DEF Out
    <2> QED BY <2>1, Smallest
  <1>2. x # 0 /\ x - 1 \in Nat
    BY <1>1
  <1>3. x - 1 \in T
    BY <1>1, <1>2
  <1> QED BY <1>1, <1>2, <1>3

-------------------------------------------------------------------------------
(* sbuffer.h: the block is big enough for what is in it.                       *)
SBuffer(s) ==
  /\ s.data \in Seq(Int) /\ s.alloc \in Nat
  /\ s = [data |-> s.data, alloc |-> s.alloc]
  /\ Len(s.data) <= s.alloc

LEMMA GrownIsEnough ==
  ASSUME NEW nsize, NEW need \in Nat
  PROVE  Grown(nsize, need) \in Nat /\ Grown(nsize, need) >= need
  <1> DEFINE enough == {n \in Doubles(nsize) : n >= need}
  <1>1. Doubles(nsize) \subseteq Nat
    BY DEF Doubles
  <1>2. CASE enough = {}
    BY <1>2 DEF Grown
  <1>3. CASE enough # {}
    <2>1. enough \subseteq Nat
      BY <1>1
    <2> HIDE DEF enough
    <2>2. \E n \in enough : \A k \in enough : n <= k
      BY <1>3, <2>1, Smallest
    <2> DEFINE least == CHOOSE n \in enough : \A k \in enough : n <= k
    <2>3. least \in enough
      BY <2>2
    <2>4. Grown(nsize, need) = least
      BY <1>3 DEF Grown, enough
    <2> HIDE DEF least
    <2> QED BY <2>1, <2>3, <2>4 DEF enough
  <1> QED BY <1>2, <1>3

LEMMA SBufferWrites ==
  ASSUME NEW s, SBuffer(s), NEW buf \in Seq(Int), NEW o \in sbuffer_write(s, buf)
  PROVE  /\ SBuffer(o.to)
         /\ o.ret = 0 => o.to.data = s.data \o buf
         /\ o.ret # 0 => o.to = s
  <1> DEFINE alloc == Room(s, Len(buf))
             whole == s.data \o buf
  <1>1. Len(buf) \in Nat /\ Len(s.data) \in Nat /\ whole \in Seq(Int)
        /\ Len(whole) = Len(s.data) + Len(buf)
    BY ConcatProperties DEF SBuffer
  <1>2. alloc \in Nat /\ alloc >= Len(s.data) + Len(buf)
    <2> DEFINE nsize == IF s.alloc = 0 THEN SBufferInit ELSE (s.alloc * 2) % SizeMax
               need == Len(s.data) + Len(buf)
    <2>1. Grown(nsize, need) \in Nat /\ Grown(nsize, need) >= need
      <3>1. need \in Nat
        BY <1>1
      <3> HIDE DEF nsize, need
      <3> QED BY <3>1, GrownIsEnough
    <2>2. alloc = IF s.alloc - Len(s.data) >= Len(buf) THEN s.alloc ELSE Grown(nsize, need)
      BY DEF Room
    <2> HIDE DEF nsize, alloc
    <2> QED BY <1>1, <2>1, <2>2 DEF SBuffer
  <1> HIDE DEF alloc, whole
  <1>3. \/ o = Outcome(0, [data |-> whole, alloc |-> alloc])
        \/ o = Outcome(-1, s)
    BY DEF sbuffer_write, alloc, whole
  <1>4. CASE o = Outcome(0, [data |-> whole, alloc |-> alloc])
    BY <1>1, <1>2, <1>4 DEF Outcome, SBuffer, whole
  <1>5. CASE o = Outcome(-1, s)
    BY <1>5 DEF Outcome
  <1> QED BY <1>3, <1>4, <1>5

-------------------------------------------------------------------------------
(* vrefbuffer.h: an entry more is its bytes more.                              *)
Entry == [ref : BOOLEAN, bytes : Seq(Int), from : {"stack", "program"}]

JoinedThen(J, v, i) == J[i] = J[i - 1] \o v[i].bytes

JoinedUpTo(J, v) == J[0] = << >> /\ \A i \in 1 .. Len(v) : JoinedThen(J, v, i)

LEMMA JoinedIs ==
  ASSUME NEW v, Len(v) \in Nat
  PROVE  \E J : JoinedUpTo(J, v) /\ Joined(v) = J[Len(v)]
  <1> DEFINE l == Len(v)
             Right(J, n) == \A i \in 0 .. n :
                              J[i] = IF i = 0 THEN << >> ELSE J[i - 1] \o v[i].bytes
             T == {n \in Nat : \E J : DOMAIN J = 0 .. n /\ J = [i \in 0 .. n |-> J[i]] /\ Right(J, n)}
  <1>1. 0 \in T
    <2> DEFINE J == [i \in 0 .. 0 |-> << >>]
    <2>1. DOMAIN J = 0 .. 0 /\ J = [i \in 0 .. 0 |-> J[i]] /\ Right(J, 0)
      OBVIOUS
    <2> HIDE DEF J
    <2> QED BY <2>1
  <1>2. ASSUME NEW n \in Nat, n \in T
        PROVE  n + 1 \in T
    <2>1. PICK J : DOMAIN J = 0 .. n /\ Right(J, n)
      BY <1>2
    <2> DEFINE K == [i \in 0 .. n + 1 |-> IF i = n + 1 THEN J[n] \o v[n + 1].bytes ELSE J[i]]
    <2>2. \A i \in 0 .. n + 1 : K[i] = IF i = n + 1 THEN J[n] \o v[n + 1].bytes ELSE J[i]
      OBVIOUS
    <2>3. DOMAIN K = 0 .. n + 1 /\ K = [i \in 0 .. n + 1 |-> K[i]]
      OBVIOUS
    <2> HIDE DEF K
    <2>4. ASSUME NEW i \in 0 .. n + 1
          PROVE  K[i] = IF i = 0 THEN << >> ELSE K[i - 1] \o v[i].bytes
      <3>1. CASE i = n + 1
        <4>1. i - 1 = n /\ n \in 0 .. n + 1 /\ n # n + 1 /\ i # 0
          BY <3>1
        <4>2. K[n] = J[n]
          BY <2>2, <4>1
        <4> QED BY <2>2, <3>1, <4>1, <4>2
      <3>2. CASE i # n + 1
        <4>1. i \in 0 .. n
          BY <3>2
        <4>2. CASE i = 0
          BY <2>1, <2>2, <3>2, <4>1, <4>2
        <4>3. CASE i # 0
          <5>1. i - 1 \in 0 .. n + 1 /\ i - 1 # n + 1
            BY <4>1, <4>3
          <5>2. K[i - 1] = J[i - 1] /\ K[i] = J[i]
            BY <2>2, <3>2, <5>1
          <5> QED BY <2>1, <4>1, <4>3, <5>2
        <4> QED BY <4>2, <4>3
      <3> QED BY <3>1, <3>2
    <2>5. Right(K, n + 1)
      BY <2>4
    <2> HIDE DEF Right
    <2> QED BY <2>3, <2>5
  <1>3. l \in T
    <2>1. l \in Nat
      OBVIOUS
    <2> HIDE DEF T, l
    <2>2. Nat \subseteq T
      BY <1>1, <1>2, Inductive
    <2> QED BY <2>1, <2>2
  <1> DEFINE F(J) == [i \in 0 .. l |-> IF i = 0 THEN << >> ELSE J[i - 1] \o v[i].bytes]
  <1>4. \E J : J = F(J)
    <2>1. PICK J : J = [i \in 0 .. l |-> J[i]] /\ Right(J, l)
      BY <1>3
    <2> QED BY <2>1
  <1> DEFINE J == CHOOSE J : J = F(J)
  <1>5. J = F(J)
    BY <1>4, Zenon
  <1>6. Joined(v) = J[l]
    BY DEF Joined
  <1> HIDE DEF J
  <1>7. l \in Nat
    OBVIOUS
  <1> HIDE DEF l
  <1>8. \A i \in 0 .. l : J[i] = IF i = 0 THEN << >> ELSE J[i - 1] \o v[i].bytes
    BY <1>5
  <1>9. J[0] = << >>
    BY <1>7, <1>8
  <1>10. ASSUME NEW i \in 1 .. l
         PROVE  JoinedThen(J, v, i)
    <2>1. i \in 0 .. l /\ i # 0
      BY <1>7
    <2> QED BY <1>8, <2>1, Zenon DEF JoinedThen
  <1>11. JoinedUpTo(J, v)
    BY <1>9, <1>10 DEF JoinedUpTo, l
  <1> QED BY <1>6, <1>11 DEF l

LEMMA JoinedLonger ==
  ASSUME NEW v, NEW w, NEW e, Len(v) \in Nat, Len(w) = Len(v) + 1, w[Len(v) + 1] = e,
         \A i \in 1 .. Len(v) : w[i] = v[i]
  PROVE  Joined(w) = Joined(v) \o e.bytes
  <1> DEFINE l == Len(v)
  <1>1. Len(w) = l + 1 /\ l \in Nat /\ w[l + 1] = e /\ \A i \in 1 .. l : w[i] = v[i]
    OBVIOUS
  <1>2. PICK J : JoinedUpTo(J, v) /\ Joined(v) = J[Len(v)]
    BY JoinedIs
  <1>3. PICK K : JoinedUpTo(K, w) /\ Joined(w) = K[Len(w)]
    BY <1>1, JoinedIs
  <1> DEFINE T == {n \in Nat : n <= l => K[n] = J[n]}
  <1>4. 0 \in T
    <2>1. 0 \in 0 .. l /\ 0 \in 0 .. l + 1
      BY <1>1
    <2> QED BY <1>1, <1>2, <1>3, <2>1 DEF JoinedUpTo
  <1>5. ASSUME NEW n \in Nat, n \in T
        PROVE  n + 1 \in T
    <2> SUFFICES ASSUME n + 1 <= l PROVE K[n + 1] = J[n + 1]
      OBVIOUS
    <2>1. n + 1 \in 1 .. l /\ n + 1 \in 1 .. l + 1 /\ n + 1 - 1 = n /\ n <= l
      BY <1>1
    <2>2. K[n] = J[n]
      BY <1>5, <2>1
    <2>3. w[n + 1] = v[n + 1]
      BY <1>1, <2>1
    <2>4. JoinedThen(K, w, n + 1) /\ JoinedThen(J, v, n + 1)
      BY <1>1, <1>2, <1>3, <2>1 DEF JoinedUpTo
    <2> DEFINE j == n + 1
    <2>5. n = j - 1 /\ JoinedThen(K, w, j) /\ JoinedThen(J, v, j) /\ w[j] = v[j]
      BY <2>1, <2>3, <2>4
    <2> HIDE DEF j
    <2>6. K[j] = K[n] \o w[j].bytes /\ J[j] = J[n] \o v[j].bytes
      BY <2>5 DEF JoinedThen
    <2>7. K[j] = J[j]
      BY <2>2, <2>5, <2>6, Zenon
    <2> QED BY <2>7 DEF j
  <1>6. l \in T
    <2> HIDE DEF T, l
    <2>1. Nat \subseteq T
      BY <1>4, <1>5, Inductive
    <2> QED BY <1>1, <2>1
  <1>7. K[l] = J[l]
    BY <1>6
  <1>8. K[l + 1] = K[l] \o w[l + 1].bytes
    <2>1. l + 1 \in 1 .. l + 1 /\ l + 1 - 1 = l
      BY <1>1
    <2>2. JoinedThen(K, w, l + 1)
      BY <1>1, <1>3, <2>1 DEF JoinedUpTo
    <2> DEFINE j == l + 1
    <2>3. l = j - 1 /\ JoinedThen(K, w, j)
      BY <1>1, <2>2
    <2> HIDE DEF j
    <2>4. K[j] = K[l] \o w[j].bytes
      BY <2>3 DEF JoinedThen
    <2> QED BY <2>4 DEF j
  <1> QED BY <1>1, <1>2, <1>3, <1>7, <1>8

LEMMA JoinedAppend ==
  ASSUME NEW v \in Seq(Entry), NEW e \in Entry
  PROVE  Joined(Append(v, e)) = Joined(v) \o e.bytes
  <1> DEFINE w == Append(v, e)
  <1>1. Len(v) \in Nat /\ Len(w) = Len(v) + 1 /\ w[Len(v) + 1] = e
        /\ \A i \in 1 .. Len(v) : w[i] = v[i]
    OBVIOUS
  <1> HIDE DEF w
  <1>2. Joined(w) = Joined(v) \o e.bytes
    BY <1>1, JoinedLonger
  <1> QED BY <1>2 DEF w

LEMMA JoinedEmpty == Joined(<< >>) = << >>
  <1>1. Len(<< >>) \in Nat /\ Len(<< >>) = 0
    OBVIOUS
  <1>2. PICK J : JoinedUpTo(J, << >>) /\ Joined(<< >>) = J[0]
    BY <1>1, JoinedIs
  <1>3. J[0] = << >>
    BY <1>1, <1>2 DEF JoinedUpTo
  <1> QED BY <1>2, <1>3

(* Only what is as long as ref_size and no longer than a header dangles.       *)
VRefBuffer(v) ==
  /\ v = [ref_size |-> v.ref_size, array |-> v.array]
  /\ v.ref_size \in Nat /\ v.array \in Seq(Entry)
  /\ \A i \in Dangling(v) : v.ref_size <= Len(v.array[i].bytes) /\ Len(v.array[i].bytes) <= HeaderMax

LEMMA EntryAppended ==
  ASSUME NEW v, VRefBuffer(v), NEW e \in Entry,
         e.ref /\ e.from = "stack" => v.ref_size <= Len(e.bytes) /\ Len(e.bytes) <= HeaderMax,
         NEW o \in append(v, e)
  PROVE  /\ VRefBuffer(o.to)
         /\ o.ret = 0 => Joined(o.to.array) = Joined(v.array) \o e.bytes
         /\ o.ret # 0 => o.to = v
  <1> DEFINE array == Append(v.array, e)
             w == [v EXCEPT !.array = Append(@, e)]
  <1>1. o = Outcome(0, w) \/ o = Outcome(-1, v)
    BY DEF append
  <1>2. CASE o = Outcome(-1, v)
    BY <1>2 DEF Outcome
  <1>3. CASE o = Outcome(0, w)
    <2>1. o.to = w /\ o.ret = 0
      BY <1>3 DEF Outcome
    <2>2. w.ref_size = v.ref_size /\ w.array = array /\ w = [ref_size |-> w.ref_size, array |-> w.array]
      <3>1. v = [ref_size |-> v.ref_size, array |-> v.array]
        BY DEF VRefBuffer
      <3>2. w = [ref_size |-> v.ref_size, array |-> array]
        BY <3>1
      <3> HIDE DEF w, array
      <3> QED BY <3>2
    <2>3. v.array \in Seq(Entry)
      BY DEF VRefBuffer
    <2>4. array \in Seq(Entry) /\ \A i \in DOMAIN array :
             (i \in DOMAIN v.array /\ array[i] = v.array[i]) \/ array[i] = e
      BY <2>3
    <2>5. Joined(array) = Joined(v.array) \o e.bytes
      BY <2>3, JoinedAppend
    <2> HIDE DEF w, array
    <2>6. ASSUME NEW i \in Dangling(w)
          PROVE  w.ref_size <= Len(w.array[i].bytes) /\ Len(w.array[i].bytes) <= HeaderMax
      <3>1. i \in DOMAIN array /\ array[i].ref /\ array[i].from = "stack"
        BY <2>2 DEF Dangling
      <3>2. CASE i \in DOMAIN v.array /\ array[i] = v.array[i]
        <4>1. i \in Dangling(v)
          BY <3>1, <3>2, Zenon DEF Dangling
        <4> QED BY <2>2, <3>2, <4>1, Zenon DEF VRefBuffer
      <3>3. CASE array[i] = e
        BY <2>2, <3>1, <3>3, Zenon
      <3> QED BY <2>4, <3>1, <3>2, <3>3
    <2>7. VRefBuffer(w)
      BY <2>2, <2>4, <2>6 DEF VRefBuffer
    <2> QED BY <2>1, <2>2, <2>5, <2>7
  <1> QED BY <1>1, <1>2, <1>3

LEMMA VRefBufferWrites ==
  ASSUME NEW v, VRefBuffer(v), NEW buf \in Seq(Int), NEW from \in {"stack", "program"},
         from = "stack" => Len(buf) <= HeaderMax, NEW o \in vrefbuffer_write(v, buf, from)
  PROVE  /\ VRefBuffer(o.to)
         /\ o.ret = 0 => Joined(o.to.array) = Joined(v.array) \o buf
         /\ o.ret # 0 => o.to = v
  <1>1. \E ref \in BOOLEAN : o \in append(v, Piece(ref, buf, from)) /\ (ref => v.ref_size <= Len(buf))
    <2>1. Len(buf) \in Nat /\ v.ref_size \in Nat
      BY DEF VRefBuffer
    <2>2. CASE Len(buf) < v.ref_size
      <3>1. o \in append(v, Piece(FALSE, buf, from))
        BY <2>2 DEF vrefbuffer_write, append_copy
      <3> QED BY <3>1, Zenon
    <2>3. CASE ~(Len(buf) < v.ref_size)
      <3>1. o \in append(v, Piece(TRUE, buf, from))
        BY <2>3 DEF vrefbuffer_write, append_ref
      <3>2. v.ref_size <= Len(buf)
        BY <2>1, <2>3
      <3> QED BY <3>1, <3>2, Zenon
    <2> QED BY <2>2, <2>3
  <1>2. PICK ref \in BOOLEAN : o \in append(v, Piece(ref, buf, from)) /\ (ref => v.ref_size <= Len(buf))
    BY <1>1
  <1> DEFINE e == Piece(ref, buf, from)
  <1>3. e \in Entry /\ e.bytes = buf /\ e.ref = ref /\ e.from = from
    BY DEF Entry, Piece
  <1>4. o \in append(v, e)
    BY <1>2
  <1> HIDE DEF e
  <1>5. e.ref /\ e.from = "stack" => v.ref_size <= Len(e.bytes) /\ Len(e.bytes) <= HeaderMax
    BY <1>2, <1>3
  <1>6. /\ VRefBuffer(o.to)
        /\ o.ret = 0 => Joined(o.to.array) = Joined(v.array) \o e.bytes
        /\ o.ret # 0 => o.to = v
    BY <1>3, <1>4, <1>5, EntryAppended, Zenon
  <1> QED BY <1>3, <1>6, Zenon

-------------------------------------------------------------------------------
(* fbuffer.h.                                                                  *)
LEMMA FileWrites ==
  ASSUME NEW f \in Seq(Int), NEW buf \in Seq(Int), NEW o \in fbuffer_write(f, buf)
  PROVE  /\ o.to \in Seq(Int)
         /\ o.ret = 0 => o.to = f \o buf
  <1>1. CASE buf = << >>
    BY <1>1 DEF fbuffer_write, Outcome
  <1>2. CASE o = Outcome(0, f \o buf)
    BY <1>2, ConcatProperties DEF Outcome
  <1>3. ASSUME NEW n \in 0 .. Len(buf) - 1, o = Outcome(-1, f \o SubSeq(buf, 1, n))
        PROVE  o.to \in Seq(Int) /\ o.ret # 0
    <2>1. SubSeq(buf, 1, n) \in Seq(Int)
      BY DEF Outcome
    <2> HIDE DEF Outcome
    <2>2. f \o SubSeq(buf, 1, n) \in Seq(Int)
      BY <2>1, ConcatProperties
    <2> QED BY <1>3, <2>2 DEF Outcome
  <1>4. buf = << >> \/ o = Outcome(0, f \o buf)
        \/ \E n \in 0 .. Len(buf) - 1 : o = Outcome(-1, f \o SubSeq(buf, 1, n))
    BY DEF fbuffer_write
  <1> QED BY <1>1, <1>2, <1>3, <1>4

-------------------------------------------------------------------------------
(* zbuffer.h: the block holds the last of the output, in order.                *)
ZType ==
  [data : Seq(Int), avail_out : Nat, block : Nat, null : BOOLEAN, taken : Seq(Int),
   made : Nat, state : {"busy", "finishing", "finished"}]

InOrder(data, made) ==
  Len(data) <= made /\ \A i \in 1 .. Len(data) : data[i] = made - Len(data) + i

ZGood(z) ==
  /\ z \in ZType
  /\ InOrder(z.data, z.made)
  /\ Len(z.data) + z.avail_out = z.block
  /\ z.null => z.block = 0

LEMMA Regroup ==
  ASSUME NEW a \in Seq(Int), NEW b \in Seq(Int), NEW c \in Seq(Int)
  PROVE  (a \o b) \o c = a \o (b \o c)
  BY ConcatAssociative

LEMMA MoreInOrder ==
  ASSUME NEW data \in Seq(Int), NEW made \in Nat, InOrder(data, made), NEW n \in Nat
  PROVE  LET more == data \o [i \in 1 .. n |-> made + i] IN
         more \in Seq(Int) /\ Len(more) = Len(data) + n /\ InOrder(more, made + n)
  <1> DEFINE new == [i \in 1 .. n |-> made + i]
             more == data \o new
  <1>1. new \in Seq(Int) /\ Len(new) = n /\ \A i \in 1 .. n : new[i] = made + i
    OBVIOUS
  <1> HIDE DEF new
  <1>2. /\ more \in Seq(Int)
        /\ Len(more) = Len(data) + n
        /\ \A i \in 1 .. Len(data) + n :
             more[i] = IF i <= Len(data) THEN data[i] ELSE new[i - Len(data)]
    BY <1>1, ConcatProperties
  <1> DEFINE l == Len(data)
  <1>3. l \in Nat /\ l <= made /\ \A i \in 1 .. l : data[i] = made - l + i
    BY DEF InOrder
  <1> HIDE DEF more, l
  <1>4. ASSUME NEW i \in 1 .. l + n
        PROVE  more[i] = (made + n) - (l + n) + i
    <2>1. CASE i <= l
      <3>1. i \in 1 .. l /\ more[i] = data[i]
        BY <1>2, <1>3, <2>1 DEF l
      <3> QED BY <1>3, <3>1
    <2>2. CASE ~(i <= l)
      <3>1. i - l \in 1 .. n /\ more[i] = new[i - l]
        BY <1>2, <1>3, <2>2 DEF l
      <3>2. new[i - l] = made + (i - l)
        BY <1>1, <3>1
      <3> QED BY <1>3, <3>1, <3>2
    <2> QED BY <2>1, <2>2
  <1>5. InOrder(more, made + n)
    <2>1. Len(more) = l + n /\ l + n <= made + n
      BY <1>2, <1>3 DEF l
    <2> QED BY <1>4, <2>1 DEF InOrder
  <1>6. more \in Seq(Int) /\ Len(more) = Len(data) + n /\ InOrder(more, made + n)
    BY <1>2, <1>5
  <1> QED BY <1>6 DEF more, new

LEMMA GiveKeeps ==
  ASSUME NEW z, ZGood(z), NEW n \in 0 .. z.avail_out
  PROVE  /\ ZGood(Give(z, n))
         /\ Give(z, n).taken = z.taken /\ Give(z, n).null = z.null
         /\ Give(z, n).avail_out = z.avail_out - n
  <1> DEFINE more == z.data \o [i \in 1 .. n |-> z.made + i]
             g == Give(z, n)
  <1>1. z \in ZType /\ z.data \in Seq(Int) /\ z.made \in Nat /\ n \in Nat
        /\ InOrder(z.data, z.made) /\ z.avail_out \in Nat
    BY DEF ZGood, ZType
  <1>2. more \in Seq(Int) /\ Len(more) = Len(z.data) + n /\ InOrder(more, z.made + n)
    BY <1>1, MoreInOrder
  <1>3. g = [z EXCEPT !.data = more, !.avail_out = z.avail_out - n, !.made = z.made + n]
    BY <1>1 DEF Give, ZType
  <1> HIDE DEF more, g
  <1>4. /\ g.data = more /\ g.avail_out = z.avail_out - n /\ g.made = z.made + n
        /\ g.block = z.block /\ g.null = z.null /\ g.taken = z.taken /\ g.state = z.state
    BY <1>1, <1>3 DEF ZType
  <1>5. g \in ZType
    <2>1. z.avail_out - n \in Nat /\ z.made + n \in Nat
      BY <1>1
    <2> QED BY <1>1, <1>2, <1>3, <2>1 DEF ZType
  <1>6. Len(g.data) + g.avail_out = g.block /\ (g.null => g.block = 0)
    <2>1. Len(z.data) \in Nat /\ Len(g.data) = Len(z.data) + n
      BY <1>1, <1>2, <1>4
    <2>2. Len(z.data) + z.avail_out = z.block /\ (z.null => z.block = 0)
      BY DEF ZGood
    <2> QED BY <1>1, <1>4, <2>1, <2>2
  <1>7. ZGood(g)
    BY <1>2, <1>4, <1>5, <1>6 DEF ZGood
  <1> QED BY <1>4, <1>7 DEF g

LEMMA DeflateKeeps ==
  ASSUME NEW z, ZGood(z), NEW in \in Seq(Int), NEW d \in Deflate(z, in)
  PROVE  ZGood(d.z) /\ d.in \in Seq(Int) /\ d.z.taken \o d.in = z.taken \o in
  <1>1. \/ \E s \in {"Z_STREAM_ERROR", "Z_BUF_ERROR"} : d = [status |-> s, z |-> z, in |-> in]
        \/ \E p \in Produced(z) \X (0 .. Len(in)) :
             d = [status |-> "Z_OK",
                  z |-> [Give(z, p[1]) EXCEPT !.taken = @ \o SubSeq(in, 1, p[2])],
                  in |-> SubSeq(in, p[2] + 1, Len(in))]
    BY DEF Deflate
  <1>2. CASE \E s \in {"Z_STREAM_ERROR", "Z_BUF_ERROR"} : d = [status |-> s, z |-> z, in |-> in]
    BY <1>2
  <1>3. ASSUME NEW n \in Produced(z), NEW m \in 0 .. Len(in),
               d = [status |-> "Z_OK",
                    z |-> [Give(z, n) EXCEPT !.taken = @ \o SubSeq(in, 1, m)],
                    in |-> SubSeq(in, m + 1, Len(in))]
        PROVE  ZGood(d.z) /\ d.in \in Seq(Int) /\ d.z.taken \o d.in = z.taken \o in
    <2> DEFINE g == Give(z, n)
               head == SubSeq(in, 1, m)
               tail == SubSeq(in, m + 1, Len(in))
    <2>1. n \in 0 .. z.avail_out
      BY ZAssumption DEF Produced, ZGood, ZType
    <2>2. ZGood(g) /\ g.taken = z.taken
      BY <2>1, GiveKeeps
    <2> HIDE DEF g
    <2>3. head \in Seq(Int) /\ tail \in Seq(Int) /\ z.taken \in Seq(Int)
      <3>1. Len(in) \in Nat
        OBVIOUS
      <3> QED BY <3>1 DEF ZGood, ZType
    <2>4. in = head \o tail
      <3>1. in = SubSeq(in, 1, Len(in)) /\ Len(in) \in Nat
        BY SubSeqFull
      <3> DEFINE l == Len(in)
      <3> HIDE DEF l
      <3>2. l = Len(in) /\ l \in Nat /\ 1 \in 1 .. l + 1 /\ m \in 1 - 1 .. l /\ l \in m .. l
        BY <3>1 DEF l
      <3>3. SubSeq(in, 1, m) \o SubSeq(in, m + 1, l) = SubSeq(in, 1, l)
        BY <3>2, ConcatAdjacentSubSeq
      <3> QED BY <3>1, <3>3 DEF l
    <2> HIDE DEF head, tail
    <2> DEFINE t == g.taken \o head
    <2>5. d.z = [g EXCEPT !.taken = t] /\ d.in = tail
      BY <1>3, <2>2 DEF g, head, tail, ZGood, ZType
    <2>6. t \in Seq(Int) /\ t = z.taken \o head /\ g \in ZType
      BY <2>2, <2>3, ConcatProperties DEF ZGood
    <2>7. t \o tail = z.taken \o (head \o tail)
      <3> DEFINE a == z.taken
      <3>1. a \in Seq(Int) /\ t = a \o head
        BY <2>3, <2>6
      <3> HIDE DEF a, t
      <3>2. (a \o head) \o tail = a \o (head \o tail)
        BY <2>3, <3>1, Regroup
      <3> QED BY <3>1, <3>2 DEF a
    <2> HIDE DEF t
    <2>8. d.z \in ZType /\ d.z.taken = t /\ d.z.data = g.data /\ d.z.made = g.made
          /\ d.z.avail_out = g.avail_out /\ d.z.block = g.block /\ d.z.null = g.null
      BY ONLY <2>5, <2>6 DEF ZType
    <2>9. ZGood(d.z)
      BY <2>2, <2>8 DEF ZGood
    <2> QED BY <2>3, <2>4, <2>5, <2>7, <2>8, <2>9
  <1> QED BY <1>1, <1>2, <1>3

LEMMA ExpandKeeps ==
  ASSUME NEW z, ZGood(z)
  PROVE  ZGood(expand(z)) /\ expand(z).taken = z.taken
  <1> DEFINE l == Len(z.data)
             csize == l + z.avail_out
             nsize == IF csize = 0 THEN ZInit ELSE csize * 2
             e == expand(z)
  <1>1. z \in ZType /\ z.avail_out \in Nat /\ l \in Nat /\ csize = z.block
    BY DEF ZGood, ZType
  <1>2. nsize \in Nat /\ nsize >= csize /\ nsize - l \in Nat
    <2>1. csize \in Nat /\ ZInit \in Nat /\ l <= csize
      BY <1>1, ZAssumption
    <2> QED BY <1>1, <2>1
  <1>3. e = [z EXCEPT !.null = FALSE, !.block = nsize, !.avail_out = nsize - l]
    BY DEF expand
  <1> HIDE DEF e, nsize, csize
  <1>4. /\ e \in ZType /\ e.data = z.data /\ e.made = z.made /\ e.taken = z.taken
        /\ e.null = FALSE /\ e.block = nsize /\ e.avail_out = nsize - l
    BY <1>1, <1>2, <1>3 DEF ZType
  <1>5. Len(e.data) + e.avail_out = e.block
    BY <1>1, <1>2, <1>4
  <1> QED BY <1>4, <1>5 DEF ZGood, e

(* What the first turn keeps and every other one keeps, all turns keep.        *)
LEMMA WriteTurnsKeep ==
  ASSUME NEW z, NEW buf, NEW I, [status |-> "Z_OK", z |-> z, in |-> buf] \in I,
         \A e \in I : Going(e) => WriteTurn(e.z, e.in) \subseteq I
  PROVE  WriteTurns(z, buf) \subseteq I
  <1> DEFINE first0 == {[status |-> "Z_OK", z |-> z, in |-> buf]}
             Then(S) == UNION {WriteTurn(d.z, d.in) : d \in {e \in S : Going(e)}}
             F(T) == [n \in 0 .. ZTurns |-> IF n = 0 THEN first0 ELSE Then(T[n - 1])]
             Right(T, k) == \A n \in 0 .. k : T[n] = IF n = 0 THEN first0 ELSE Then(T[n - 1])
             B == {k \in Nat : \E T : T = [n \in 0 .. k |-> T[n]] /\ Right(T, k)}
  <1>1. ZTurns \in Nat
    BY ZAssumption DEF ZTurns
  <1>2. WriteTurns(z, buf) = LET T == CHOOSE T : T = F(T) IN UNION {T[n] : n \in 0 .. ZTurns}
    BY DEF WriteTurns
  <1>a. first0 \subseteq I
    OBVIOUS
  <1>b. ASSUME NEW S, S \subseteq I PROVE Then(S) \subseteq I
    BY <1>b
  <1> HIDE DEF first0, Then
  <1>3. 0 \in B
    <2> DEFINE T == [n \in 0 .. 0 |-> first0]
    <2>1. T = [n \in 0 .. 0 |-> T[n]] /\ Right(T, 0)
      OBVIOUS
    <2> HIDE DEF T, Right
    <2> QED BY <2>1
  <1>4. ASSUME NEW k \in Nat, k \in B
        PROVE  k + 1 \in B
    <2>1. PICK T : Right(T, k)
      BY <1>4
    <2> DEFINE U == [n \in 0 .. k + 1 |-> IF n = k + 1 THEN Then(T[k]) ELSE T[n]]
    <2>2. \A n \in 0 .. k + 1 : U[n] = IF n = k + 1 THEN Then(T[k]) ELSE T[n]
      OBVIOUS
    <2>3. U = [n \in 0 .. k + 1 |-> U[n]]
      OBVIOUS
    <2> HIDE DEF U
    <2>4. ASSUME NEW n \in 0 .. k + 1
          PROVE  U[n] = IF n = 0 THEN first0 ELSE Then(U[n - 1])
      <3>1. CASE n = k + 1
        <4>1. n - 1 = k /\ k \in 0 .. k + 1 /\ k # k + 1 /\ n # 0
          BY <3>1
        <4>2. U[k] = T[k]
          BY <2>2, <4>1
        <4> QED BY <2>2, <3>1, <4>1, <4>2
      <3>2. CASE n # k + 1
        <4>1. n \in 0 .. k /\ U[n] = T[n]
          BY <2>2, <3>2
        <4>2. CASE n = 0
          BY <2>1, <4>1, <4>2
        <4>3. CASE n # 0
          <5>1. n - 1 \in 0 .. k + 1 /\ n - 1 # k + 1
            BY <4>1, <4>3
          <5>2. U[n - 1] = T[n - 1]
            BY <2>2, <5>1
          <5> QED BY <2>1, <4>1, <4>3, <5>2
        <4> QED BY <4>2, <4>3
      <3> QED BY <3>1, <3>2
    <2>5. Right(U, k + 1)
      BY <2>4
    <2> HIDE DEF Right
    <2> QED BY <2>3, <2>5
  <1>5. ZTurns \in B
    <2> HIDE DEF B
    <2> QED BY <1>1, <1>3, <1>4, Inductive
  <1> DEFINE T == CHOOSE T : T = F(T)
  <1>6. T = F(T)
    <2>1. PICK U : U = [n \in 0 .. ZTurns |-> U[n]] /\ Right(U, ZTurns)
      BY <1>5
    <2>2. U = F(U)
      BY <2>1
    <2> QED BY <2>2, Zenon
  <1>7. WriteTurns(z, buf) = UNION {T[n] : n \in 0 .. ZTurns}
    BY <1>2
  <1> HIDE DEF T
  <1>8. \A n \in 0 .. ZTurns : T[n] = IF n = 0 THEN first0 ELSE Then(T[n - 1])
    BY <1>6
  <1> DEFINE C == {n \in Nat : n <= ZTurns => T[n] \subseteq I}
  <1>9. 0 \in C
    BY <1>1, <1>8, <1>a
  <1>10. ASSUME NEW n \in Nat, n \in C
         PROVE  n + 1 \in C
    <2> SUFFICES ASSUME n + 1 <= ZTurns PROVE T[n + 1] \subseteq I
      OBVIOUS
    <2>1. n + 1 \in 0 .. ZTurns /\ n + 1 # 0 /\ n + 1 - 1 = n /\ n <= ZTurns
      BY <1>1
    <2>2. T[n + 1] = Then(T[n])
      BY <1>8, <2>1
    <2>3. T[n] \subseteq I
      BY <1>10, <2>1
    <2> QED BY <1>b, <2>2, <2>3
  <1>11. Nat \subseteq C
    <2> HIDE DEF C
    <2> QED BY <1>9, <1>10, Inductive
  <1>12. \A n \in 0 .. ZTurns : T[n] \subseteq I
    BY <1>1, <1>11
  <1> QED BY <1>7, <1>12

(* The same of the loop of zbuffer_flush.                                      *)
LEMMA FlushTurnsKeep ==
  ASSUME NEW z, NEW I, DeflateFinish(z) \subseteq I,
         \A e \in I : e.status = "Z_OK" => DeflateFinish(expand(e.z)) \subseteq I
  PROVE  FlushTurns(z) \subseteq I
  <1> DEFINE first0 == DeflateFinish(z)
             Then(S) == UNION {DeflateFinish(expand(d.z)) : d \in {e \in S : e.status = "Z_OK"}}
             F(T) == [n \in 0 .. ZTurns |-> IF n = 0 THEN first0 ELSE Then(T[n - 1])]
             Right(T, k) == \A n \in 0 .. k : T[n] = IF n = 0 THEN first0 ELSE Then(T[n - 1])
             B == {k \in Nat : \E T : T = [n \in 0 .. k |-> T[n]] /\ Right(T, k)}
  <1>1. ZTurns \in Nat
    BY ZAssumption DEF ZTurns
  <1>2. FlushTurns(z) = LET T == CHOOSE T : T = F(T) IN UNION {T[n] : n \in 0 .. ZTurns}
    BY DEF FlushTurns
  <1>a. first0 \subseteq I
    OBVIOUS
  <1>b. ASSUME NEW S, S \subseteq I PROVE Then(S) \subseteq I
    BY <1>b
  <1> HIDE DEF first0, Then
  <1>3. 0 \in B
    <2> DEFINE T == [n \in 0 .. 0 |-> first0]
    <2>1. T = [n \in 0 .. 0 |-> T[n]] /\ Right(T, 0)
      OBVIOUS
    <2> HIDE DEF T, Right
    <2> QED BY <2>1
  <1>4. ASSUME NEW k \in Nat, k \in B
        PROVE  k + 1 \in B
    <2>1. PICK T : Right(T, k)
      BY <1>4
    <2> DEFINE U == [n \in 0 .. k + 1 |-> IF n = k + 1 THEN Then(T[k]) ELSE T[n]]
    <2>2. \A n \in 0 .. k + 1 : U[n] = IF n = k + 1 THEN Then(T[k]) ELSE T[n]
      OBVIOUS
    <2>3. U = [n \in 0 .. k + 1 |-> U[n]]
      OBVIOUS
    <2> HIDE DEF U
    <2>4. ASSUME NEW n \in 0 .. k + 1
          PROVE  U[n] = IF n = 0 THEN first0 ELSE Then(U[n - 1])
      <3>1. CASE n = k + 1
        <4>1. n - 1 = k /\ k \in 0 .. k + 1 /\ k # k + 1 /\ n # 0
          BY <3>1
        <4>2. U[k] = T[k]
          BY <2>2, <4>1
        <4> QED BY <2>2, <3>1, <4>1, <4>2
      <3>2. CASE n # k + 1
        <4>1. n \in 0 .. k /\ U[n] = T[n]
          BY <2>2, <3>2
        <4>2. CASE n = 0
          BY <2>1, <4>1, <4>2
        <4>3. CASE n # 0
          <5>1. n - 1 \in 0 .. k + 1 /\ n - 1 # k + 1
            BY <4>1, <4>3
          <5>2. U[n - 1] = T[n - 1]
            BY <2>2, <5>1
          <5> QED BY <2>1, <4>1, <4>3, <5>2
        <4> QED BY <4>2, <4>3
      <3> QED BY <3>1, <3>2
    <2>5. Right(U, k + 1)
      BY <2>4
    <2> HIDE DEF Right
    <2> QED BY <2>3, <2>5
  <1>5. ZTurns \in B
    <2> HIDE DEF B
    <2> QED BY <1>1, <1>3, <1>4, Inductive
  <1> DEFINE T == CHOOSE T : T = F(T)
  <1>6. T = F(T)
    <2>1. PICK U : U = [n \in 0 .. ZTurns |-> U[n]] /\ Right(U, ZTurns)
      BY <1>5
    <2>2. U = F(U)
      BY <2>1
    <2> QED BY <2>2, Zenon
  <1>7. FlushTurns(z) = UNION {T[n] : n \in 0 .. ZTurns}
    BY <1>2
  <1> HIDE DEF T
  <1>8. \A n \in 0 .. ZTurns : T[n] = IF n = 0 THEN first0 ELSE Then(T[n - 1])
    BY <1>6
  <1> DEFINE C == {n \in Nat : n <= ZTurns => T[n] \subseteq I}
  <1>9. 0 \in C
    BY <1>1, <1>8, <1>a
  <1>10. ASSUME NEW n \in Nat, n \in C
         PROVE  n + 1 \in C
    <2> SUFFICES ASSUME n + 1 <= ZTurns PROVE T[n + 1] \subseteq I
      OBVIOUS
    <2>1. n + 1 \in 0 .. ZTurns /\ n + 1 # 0 /\ n + 1 - 1 = n /\ n <= ZTurns
      BY <1>1
    <2>2. T[n + 1] = Then(T[n])
      BY <1>8, <2>1
    <2>3. T[n] \subseteq I
      BY <1>10, <2>1
    <2> QED BY <1>b, <2>2, <2>3
  <1>11. Nat \subseteq C
    <2> HIDE DEF C
    <2> QED BY <1>9, <1>10, Inductive
  <1>12. \A n \in 0 .. ZTurns : T[n] \subseteq I
    BY <1>1, <1>11
  <1> QED BY <1>7, <1>12

(* No input is lost or taken twice: all is what was taken and what is left.    *)
AllThere(d, all) == ZGood(d.z) /\ d.in \in Seq(Int) /\ d.z.taken \o d.in = all

LEMMA ZBufferWrites ==
  ASSUME NEW z, ZGood(z), NEW buf \in Seq(Int), NEW o \in zbuffer_write(z, buf)
  PROVE  ZGood(o.to) /\ (o.ret = 0 => o.to.taken = z.taken \o buf)
  <1> DEFINE all == z.taken \o buf
             start == [status |-> "Z_OK", z |-> z, in |-> buf]
             Outs == {start} \cup (UNION {Deflate(y, i) : y \in ZType, i \in Seq(Int)})
             I == {d \in Outs : AllThere(d, all)}
  <1>1. start \in I
    <2>1. start.z = z /\ start.in = buf
      OBVIOUS
    <2>2. AllThere(start, all)
      BY <2>1 DEF AllThere
    <2> QED BY <2>2
  <1>2. ASSUME NEW e \in I, NEW d \in WriteTurn(e.z, e.in)
        PROVE  d \in I
    <2> DEFINE roomy == IF e.z.avail_out < ZReserve THEN expand(e.z) ELSE e.z
    <2>1. AllThere(e, all)
      <3> HIDE DEF Outs
      <3> QED OBVIOUS
    <2> HIDE DEF I, all
    <2>2. ZGood(e.z) /\ e.in \in Seq(Int) /\ e.z.taken \o e.in = all
      BY <2>1 DEF AllThere
    <2>3. ZGood(roomy) /\ roomy.taken = e.z.taken
      BY <2>2, ExpandKeeps
    <2>4. d \in Deflate(roomy, e.in)
      BY DEF WriteTurn
    <2> HIDE DEF roomy
    <2>5. ZGood(d.z) /\ d.in \in Seq(Int) /\ d.z.taken \o d.in = roomy.taken \o e.in
      BY <2>2, <2>3, <2>4, DeflateKeeps
    <2>6. AllThere(d, all)
      BY <2>2, <2>3, <2>5 DEF AllThere
    <2>7. d \in Outs
      <3>1. roomy \in ZType
        BY <2>3 DEF ZGood
      <3> QED BY <2>2, <2>4, <3>1
    <2> HIDE DEF Outs
    <2> QED BY <2>6, <2>7 DEF I
  <1> HIDE DEF Outs, start, all
  <1>3. WriteTurns(z, buf) \subseteq I
    <2> HIDE DEF I
    <2>1. \A e \in I : Going(e) => WriteTurn(e.z, e.in) \subseteq I
      BY <1>2
    <2> QED BY <1>1, <2>1, WriteTurnsKeep DEF start
  <1>4. PICK d \in WriteTurns(z, buf) :
          \/ ~Going(d) /\ o = Done(IF d.status = "Z_OK" THEN 0 ELSE -1, d.z)
          \/ o = Done(-1, d.z)
    BY DEF zbuffer_write
  <1>5. AllThere(d, all)
    BY <1>3
  <1>6. ZGood(d.z) /\ d.in \in Seq(Int) /\ d.z.taken \o d.in = all /\ o.to = d.z
    BY <1>4, <1>5 DEF AllThere, Done
  <1>7. ASSUME o.ret = 0
        PROVE  d.in = << >>
    BY <1>4, <1>7 DEF Done, Going
  <1>8. d.z.taken \in Seq(Int)
    BY <1>6 DEF ZGood, ZType
  <1>9. d.z.taken \o << >> = d.z.taken
    BY <1>8, ConcatEmptySeq
  <1>10. o.ret = 0 => d.z.taken = all
    BY <1>6, <1>7, <1>9
  <1> QED BY <1>6, <1>10 DEF all

(* What flush returns, see ZStream.                                            *)
Flushed(z, ret) ==
  IF ret = NULLBlock THEN z.avail_out = 0 ELSE z.state = "finished" /\ ret = z.data

Turned(d) ==
  /\ ZGood(d.z)
  /\ d.status \in {"Z_STREAM_END", "Z_OK", "Z_BUF_ERROR", "Z_STREAM_ERROR"}
  /\ IF d.status = "Z_STREAM_END" THEN d.z.state = "finished" ELSE d.z.avail_out = 0

LEMMA DeflateFinishKeeps ==
  ASSUME NEW z, ZGood(z), NEW d \in DeflateFinish(z)
  PROVE  Turned(d) /\ d.z.taken = z.taken
  <1>1. z \in ZType /\ z.avail_out \in Nat
    BY DEF ZGood, ZType
  <1>2. CASE z.null
    <2>1. d = [status |-> "Z_STREAM_ERROR", z |-> z]
      BY <1>2 DEF DeflateFinish
    <2>2. Len(z.data) \in Nat /\ Len(z.data) + z.avail_out = 0
      BY <1>1, <1>2 DEF ZGood, ZType
    <2>3. z.avail_out = 0
      BY <1>1, <2>2
    <2> QED BY <2>1, <2>3 DEF Turned
  <1>3. CASE ~z.null /\ z.avail_out = 0
    <2>1. d = [status |-> "Z_BUF_ERROR", z |-> z]
      BY <1>3 DEF DeflateFinish
    <2> QED BY <1>3, <2>1 DEF Turned
  <1>4. CASE ~z.null /\ z.avail_out # 0 /\ z.state = "finished"
    <2>1. d = [status |-> "Z_STREAM_END", z |-> z]
      BY <1>4 DEF DeflateFinish
    <2> QED BY <1>4, <2>1 DEF Turned
  <1>5. ASSUME NEW n \in Produced(z), NEW s \in {"finished", "finishing"},
               NEW y, y = [Give(z, n) EXCEPT !.state = s]
        PROVE  ZGood(y) /\ y.state = s /\ y.taken = z.taken /\ y.avail_out = z.avail_out - n
    <2> DEFINE g == Give(z, n)
    <2>1. n \in 0 .. z.avail_out
      BY <1>1, ZAssumption DEF Produced
    <2>2. ZGood(g) /\ g.taken = z.taken /\ g.avail_out = z.avail_out - n
      BY <2>1, GiveKeeps
    <2>3. y = [g EXCEPT !.state = s] /\ g \in ZType
      BY <1>5, <2>2 DEF ZGood
    <2> HIDE DEF g
    <2>4. y \in ZType /\ y.state = s /\ y.data = g.data /\ y.made = g.made /\ y.taken = g.taken
          /\ y.avail_out = g.avail_out /\ y.block = g.block /\ y.null = g.null
      BY ONLY <2>3, s \in {"finished", "finishing"} DEF ZType
    <2> QED BY <2>2, <2>4 DEF ZGood
  <1>6. CASE ~z.null /\ z.avail_out # 0 /\ z.state # "finished"
    <2>1. \/ \E n \in Produced(z) :
               d = [status |-> "Z_STREAM_END", z |-> [Give(z, n) EXCEPT !.state = "finished"]]
          \/ \E n \in Produced(z) \cap {z.avail_out} :
               d = [status |-> "Z_OK", z |-> [Give(z, n) EXCEPT !.state = "finishing"]]
      BY <1>6 DEF DeflateFinish
    <2>2. CASE \E n \in Produced(z) :
               d = [status |-> "Z_STREAM_END", z |-> [Give(z, n) EXCEPT !.state = "finished"]]
      <3>1. PICK n \in Produced(z) :
               d = [status |-> "Z_STREAM_END", z |-> [Give(z, n) EXCEPT !.state = "finished"]]
        BY <2>2
      <3>2. d.status = "Z_STREAM_END" /\ d.z = [Give(z, n) EXCEPT !.state = "finished"]
        BY <3>1
      <3>3. ZGood(d.z) /\ d.z.state = "finished" /\ d.z.taken = z.taken
        BY <1>5, <3>2
      <3> QED BY <3>2, <3>3 DEF Turned
    <2>3. CASE \E n \in Produced(z) \cap {z.avail_out} :
               d = [status |-> "Z_OK", z |-> [Give(z, n) EXCEPT !.state = "finishing"]]
      <3>1. PICK n \in Produced(z) \cap {z.avail_out} :
               d = [status |-> "Z_OK", z |-> [Give(z, n) EXCEPT !.state = "finishing"]]
        BY <2>3
      <3>2. d.status = "Z_OK" /\ d.z = [Give(z, n) EXCEPT !.state = "finishing"]
        BY <3>1
      <3>3. ZGood(d.z) /\ d.z.avail_out = z.avail_out - n /\ d.z.taken = z.taken
        BY <1>5, <3>2
      <3>4. d.z.avail_out = 0
        BY <1>1, <3>1, <3>3
      <3> QED BY <3>2, <3>3, <3>4 DEF Turned
    <2> QED BY <2>1, <2>2, <2>3
  <1> QED BY <1>2, <1>3, <1>4, <1>6

LEMMA ZBufferFlushes ==
  ASSUME NEW z, ZGood(z), NEW o \in zbuffer_flush(z)
  PROVE  ZGood(o.to) /\ o.to.taken = z.taken /\ Flushed(o.to, o.ret)
  <1> DEFINE Fine(d) == Turned(d) /\ d.z.taken = z.taken
             I == {d \in UNION {DeflateFinish(y) : y \in ZType} : Fine(d)}
  <1>1. DeflateFinish(z) \subseteq I
    <2>1. z \in ZType
      BY DEF ZGood
    <2> QED BY <2>1, DeflateFinishKeeps
  <1>2. ASSUME NEW e \in I, NEW d \in DeflateFinish(expand(e.z))
        PROVE  d \in I
    <2>1. Fine(e)
      OBVIOUS
    <2>2. ZGood(expand(e.z)) /\ expand(e.z).taken = z.taken
      BY <2>1, ExpandKeeps DEF Turned
    <2>3. Fine(d)
      BY <2>2, DeflateFinishKeeps
    <2>4. expand(e.z) \in ZType
      BY <2>2 DEF ZGood
    <2> QED BY <2>3, <2>4
  <1>3. FlushTurns(z) \subseteq I
    <2> HIDE DEF I
    <2>1. \A e \in I : e.status = "Z_OK" => DeflateFinish(expand(e.z)) \subseteq I
      BY <1>2
    <2> QED BY <1>1, <2>1, FlushTurnsKeep
  <1>4. PICK d \in FlushTurns(z) :
          o = Done(IF d.status = "Z_STREAM_END" THEN d.z.data ELSE NULLBlock, d.z)
    BY DEF zbuffer_flush
  <1>5. Fine(d)
    BY <1>3
  <1>6. o.to = d.z /\ o.ret = IF d.status = "Z_STREAM_END" THEN d.z.data ELSE NULLBlock
    BY <1>4 DEF Done
  <1>7. d.z.data # NULLBlock
    <2>1. ZGood(d.z)
      BY <1>5 DEF Turned
    <2>2. d.z.made \in Nat /\ InOrder(d.z.data, d.z.made)
      BY <2>1 DEF ZGood, ZType
    <2>3. Len(NULLBlock) = 1 /\ NULLBlock[1] = 0
      BY DEF NULLBlock
    <2>4. Len(d.z.data) = 1 => d.z.data[1] = d.z.made - 1 + 1 /\ 1 <= d.z.made
      BY <2>2 DEF InOrder
    <2> QED BY <2>2, <2>3, <2>4
  <1> QED BY <1>5, <1>6, <1>7 DEF Flushed, Turned

-------------------------------------------------------------------------------
(* Whatever the headers found, right or wrong, the packing functions append    *)
(* bytes, and no more than 9 of a number.                                      *)
LEMMA InMem ==
  ASSUME NEW b, NEW w \in Nat, NEW d \in Digits(w)
  PROVE  Mem(b, d) \in Digits(w) /\ NetworkToHost(b, d) \in Digits(w) /\ ByteSwap(d) \in Digits(w)
  BY Reversed DEF Mem, NetworkToHost, ByteSwap

LEMMA Stores16 ==
  ASSUME NEW b, NEW v \in Nat, v >= 2, NEW d \in Digits(v)
  PROVE  Store16(b, d) \in Digits(2)
  <1> DEFINE c == Cast(d, 2)
  <1>1. c \in Digits(2)
    BY CastDigits
  <1> HIDE DEF c
  <1>2. /\ NetworkToHost(b, c) \in Digits(2) /\ ByteSwap(c) \in Digits(2)
        /\ Shifted(c, <<1, -1>>) \in Digits(2)
    BY <1>1, InMem, Shifted2, Reversed
  <1>3. be16(b, d) \in Digits(2)
    BY <1>1, <1>2, Zenon DEF be16, c
  <1> QED BY <1>3, InMem DEF Store16

LEMMA Stores32 ==
  ASSUME NEW b, NEW v \in Nat, v >= 4, NEW d \in Digits(v)
  PROVE  Store32(b, d) \in Digits(4)
  <1> DEFINE c == Cast(d, 4)
  <1>1. c \in Digits(4)
    BY CastDigits
  <1> HIDE DEF c
  <1>2. /\ NetworkToHost(b, c) \in Digits(4) /\ ByteSwap(c) \in Digits(4)
        /\ Shifted(c, <<3, 1, -1, -3>>) \in Digits(4)
    BY <1>1, InMem, Shifted4, Reversed
  <1>3. be32(b, d) \in Digits(4)
    BY <1>1, <1>2, Zenon DEF be32, c
  <1> QED BY <1>3, InMem DEF Store32

LEMMA Stores64 ==
  ASSUME NEW b, NEW v \in Nat, v >= 8, NEW d \in Digits(v)
  PROVE  Store64(b, d) \in Digits(8)
  <1> DEFINE c == Cast(d, 8)
  <1>1. c \in Digits(8)
    BY CastDigits
  <1> HIDE DEF c
  <1>2. /\ NetworkToHost(b, c) \in Digits(8) /\ ByteSwap(c) \in Digits(8)
        /\ Shifted(c, <<7, 5, 3, 1, -1, -3, -5, -7>>) \in Digits(8)
    BY <1>1, InMem, Shifted8, Reversed
  <1>3. be64(b, d) \in Digits(8)
    BY <1>1, <1>2, Zenon DEF be64, c
  <1> QED BY <1>3, InMem DEF Store64

LEMMA Headed ==
  ASSUME NEW h \in Int, NEW w \in Nat, NEW d \in Digits(w)
  PROVE  <<h>> \o d \in Seq(Int) /\ Len(<<h>> \o d) = w + 1
  <1>1. <<h>> \in Seq(Int) /\ Len(<<h>>) = 1
    OBVIOUS
  <1>2. d \in Seq(Int) /\ Len(d) = w
    <2>1. Byte \subseteq Int
      BY DEF Byte
    <2>2. d \in Seq(Byte) /\ Len(d) = w
      BY DEF Digits
    <2>3. d \in Seq(Int)
      BY <2>1, <2>2, SeqMonotonic
    <2> QED BY <2>2, <2>3
  <1> DEFINE s == <<h>>
  <1> HIDE DEF s
  <1>3. s \in Seq(Int) /\ Len(s) = 1
    BY <1>1 DEF s
  <1>4. s \o d \in Seq(Int) /\ Len(s \o d) = 1 + w
    BY <1>2, <1>3, ConcatProperties
  <1> QED BY <1>4 DEF s

(* The header of a number and what is stored behind it.                        *)
LEMMA HeadedStores ==
  ASSUME NEW b, NEW h \in Int, NEW w \in Nat, NEW d \in Digits(w)
  PROVE  /\ w >= 2 => <<h>> \o Store16(b, d) \in Seq(Int)
         /\ w >= 4 => <<h>> \o Store32(b, d) \in Seq(Int) /\ Len(<<h>> \o Store32(b, d)) = 5
         /\ w >= 8 => <<h>> \o Store64(b, d) \in Seq(Int) /\ Len(<<h>> \o Store64(b, d)) = 9
  <1>1. ASSUME w >= 2 PROVE <<h>> \o Store16(b, d) \in Seq(Int)
    BY <1>1, Stores16, Headed
  <1>2. ASSUME w >= 4
        PROVE  <<h>> \o Store32(b, d) \in Seq(Int) /\ Len(<<h>> \o Store32(b, d)) = 5
    BY <1>2, Stores32, Headed
  <1>3. ASSUME w >= 8
        PROVE  <<h>> \o Store64(b, d) \in Seq(Int) /\ Len(<<h>> \o Store64(b, d)) = 9
    BY <1>3, Stores64, Headed
  <1> QED BY <1>1, <1>2, <1>3

LEMMA SwapWordsDigits ==
  ASSUME NEW d \in Digits(8)
  PROVE  /\ SwapWords(d) \in Digits(8)
         /\ SwapWords(SwapWords(d)) = d
  <1> DEFINE e == SwapWords(d)
  <1>1. d \in Seq(Byte) /\ Len(d) = 8
    BY DEF Digits
  <1>2. ASSUME NEW x \in Digits(8)
        PROVE  /\ SwapWords(x) \in Digits(8)
               /\ \A i \in 1 .. 8 : SwapWords(x)[i] = IF i <= 4 THEN x[4 + i] ELSE x[i - 4]
    <2> DEFINE s == SubSeq(x, 5, 8)
               t == SubSeq(x, 1, 4)
    <2>1. /\ s \in Seq(Byte) /\ Len(s) = 4 /\ \A i \in 1 .. 4 : s[i] = x[5 + i - 1]
          /\ t \in Seq(Byte) /\ Len(t) = 4 /\ \A i \in 1 .. 4 : t[i] = x[1 + i - 1]
      <3>1. x \in Seq(Byte) /\ Len(x) = 8
        BY DEF Digits
      <3>2. \A i \in 1 .. 8 : x[i] \in Byte
        BY <3>1, ElementOfSeq
      <3>3. (\A i \in 5 .. 8 : x[i] \in Byte) /\ (\A i \in 1 .. 4 : x[i] \in Byte)
        BY <3>2
      <3>4. s \in Seq(Byte) /\ Len(s) = 8 - 5 + 1 /\ \A i \in 1 .. 8 - 5 + 1 : s[i] = x[5 + i - 1]
        BY ONLY <3>3, SubSeqProperties
      <3>5. t \in Seq(Byte) /\ Len(t) = 4 - 1 + 1 /\ \A i \in 1 .. 4 - 1 + 1 : t[i] = x[1 + i - 1]
        BY ONLY <3>3, SubSeqProperties
      <3> HIDE DEF s, t
      <3> QED BY <3>4, <3>5
    <2> HIDE DEF s, t
    <2>2. /\ s \o t \in Seq(Byte) /\ Len(s \o t) = 8
          /\ \A i \in 1 .. 8 : (s \o t)[i] = IF i <= 4 THEN s[i] ELSE t[i - 4]
      <3>1. /\ s \o t \in Seq(Byte) /\ Len(s \o t) = Len(s) + Len(t)
            /\ \A i \in 1 .. Len(s) + Len(t) :
                 (s \o t)[i] = IF i <= Len(s) THEN s[i] ELSE t[i - Len(s)]
        BY ONLY <2>1, ConcatProperties
      <3>2. Len(s) = 4 /\ Len(t) = 4
        BY <2>1
      <3> QED BY <3>1, <3>2
    <2>3. SwapWords(x) = s \o t
      BY DEF SwapWords, s, t
    <2> HIDE DEF SwapWords
    <2>4. ASSUME NEW i \in 1 .. 8
          PROVE  SwapWords(x)[i] = IF i <= 4 THEN x[4 + i] ELSE x[i - 4]
      <3>1. CASE i <= 4
        <4>1. i \in 1 .. 4 /\ 5 + i - 1 = 4 + i
          BY <3>1
        <4>2. s[i] = x[5 + i - 1]
          BY <2>1, <4>1
        <4> QED BY <2>2, <2>3, <3>1, <4>1, <4>2
      <3>2. CASE ~(i <= 4)
        <4>1. i - 4 \in 1 .. 4 /\ 1 + (i - 4) - 1 = i - 4
          BY <3>2
        <4>2. t[i - 4] = x[1 + (i - 4) - 1]
          BY <2>1, <4>1
        <4> QED BY <2>2, <2>3, <3>2, <4>1, <4>2
      <3> QED BY <3>1, <3>2
    <2>5. SwapWords(x) \in Digits(8)
      BY <2>2, <2>3 DEF Digits
    <2> QED BY <2>4, <2>5
  <1>3. /\ e \in Digits(8)
        /\ \A i \in 1 .. 8 : e[i] = IF i <= 4 THEN d[4 + i] ELSE d[i - 4]
    BY <1>2
  <1> HIDE DEF e
  <1>4. /\ SwapWords(e) \in Digits(8)
        /\ \A i \in 1 .. 8 : SwapWords(e)[i] = IF i <= 4 THEN e[4 + i] ELSE e[i - 4]
    BY <1>2, <1>3
  <1>5. ASSUME NEW i \in 1 .. 8
        PROVE  SwapWords(e)[i] = d[i]
    <2>1. CASE i <= 4
      <3>1. 4 + i \in 1 .. 8 /\ ~(4 + i <= 4) /\ 4 + i - 4 = i
        BY <2>1
      <3>2. SwapWords(e)[i] = e[4 + i] /\ e[4 + i] = d[4 + i - 4]
        BY <1>3, <1>4, <2>1, <3>1
      <3> QED BY <3>1, <3>2
    <2>2. CASE ~(i <= 4)
      <3>1. i - 4 \in 1 .. 8 /\ i - 4 <= 4 /\ 4 + (i - 4) = i
        BY <2>2
      <3>2. SwapWords(e)[i] = e[i - 4] /\ e[i - 4] = d[4 + (i - 4)]
        BY <1>3, <1>4, <2>2, <3>1
      <3> QED BY <3>1, <3>2
    <2> QED BY <2>1, <2>2
  <1>6. SwapWords(e) = d
    BY <1>4, <1>5, SameDigits
  <1> QED BY <1>3, <1>6 DEF e

LEMMA RealBytes ==
  ASSUME NEW b
  PROVE  /\ \A d \in Digits(4) : pack_float(b, d) \in Seq(Int) /\ Len(pack_float(b, d)) <= HeaderMax
         /\ \A d \in Digits(8) : pack_double(b, d) \in Seq(Int) /\ Len(pack_double(b, d)) <= HeaderMax
  <1>1. ASSUME NEW d \in Digits(4)
        PROVE  pack_float(b, d) \in Seq(Int) /\ Len(pack_float(b, d)) <= HeaderMax
    <2>1. <<202>> \o Store32(b, d) \in Seq(Int) /\ Len(<<202>> \o Store32(b, d)) = 5
      BY HeadedStores
    <2> QED BY <2>1 DEF pack_float, HeaderMax
  <1>2. ASSUME NEW d \in Digits(8)
        PROVE  pack_double(b, d) \in Seq(Int) /\ Len(pack_double(b, d)) <= HeaderMax
    <2> DEFINE i == DoubleInMemory(b, d)
               e == IF ~Defined(b.m, "TARGET_OS_IPHONE") /\ OldARM(b) THEN SwapWords(i) ELSE i
    <2>1. i \in Digits(8)
      BY SwapWordsDigits DEF DoubleInMemory
    <2>2. e \in Digits(8)
      <3> HIDE DEF i
      <3> QED BY <2>1, SwapWordsDigits
    <2>3. pack_double(b, d) = <<203>> \o Store64(b, e)
      BY DEF pack_double
    <2> HIDE DEF e
    <2>4. <<203>> \o Store64(b, e) \in Seq(Int) /\ Len(<<203>> \o Store64(b, e)) = 9
      BY <2>2, HeadedStores
    <2> QED BY <2>3, <2>4 DEF HeaderMax
  <1> QED BY <1>1, <1>2

LEMMA Taken8 ==
  ASSUME NEW b, NEW w \in Widths, NEW d \in Digits(w)
  PROVE  Take8(b, w, d) \in Int
  <1>1. w \in Nat /\ w >= 1
    BY DEF Widths
  <1>2. Mem(b, d) \in Digits(w)
    BY <1>1, InMem
  <1>3. Mem(b, d) \in Seq(Byte) /\ Len(Mem(b, d)) = w
    BY <1>2 DEF Digits
  <1> DEFINE i == IF b.little THEN 1 ELSE w
  <1>4. i \in 1 .. Len(Mem(b, d))
    BY <1>1, <1>3
  <1> HIDE DEF i
  <1>5. Mem(b, d)[i] \in Byte
    BY <1>3, <1>4, ElementOfSeq
  <1> QED BY <1>5 DEF Take8, i, Byte

LEMMA UnsignedBytes ==
  ASSUME NEW b, NEW w \in Widths, NEW d \in Digits(w)
  PROVE  RealUnsigned(b, w, d) \in Seq(Int)
  <1>1. w \in Nat /\ (w # 1 => w >= 2) /\ (w \notin {1, 2} => w >= 4)
        /\ (w \notin {1, 2, 4} => w >= 8)
    BY DEF Widths
  <1>2. <<Take8(b, w, d)>> \in Seq(Int) /\ <<204, Take8(b, w, d)>> \in Seq(Int)
    BY Taken8
  <1>3. /\ w # 1 => <<205>> \o Store16(b, d) \in Seq(Int)
        /\ w \notin {1, 2} => <<206>> \o Store32(b, d) \in Seq(Int)
        /\ w \notin {1, 2, 4} => <<207>> \o Store64(b, d) \in Seq(Int)
    BY <1>1, HeadedStores
  <1> QED BY <1>2, <1>3, Zenon DEF RealUnsigned

LEMMA SignedBytes ==
  ASSUME NEW b, NEW w \in Widths, NEW d \in Digits(w)
  PROVE  RealSigned(b, w, d) \in Seq(Int)
  <1>1. w \in Nat /\ (w # 1 => w >= 2) /\ (w \notin {1, 2} => w >= 4)
        /\ (w \notin {1, 2, 4} => w >= 8)
    BY DEF Widths
  <1>2. <<Take8(b, w, d)>> \in Seq(Int) /\ <<208, Take8(b, w, d)>> \in Seq(Int)
    BY Taken8
  <1>3. /\ w # 1 => <<209>> \o Store16(b, d) \in Seq(Int)
        /\ w \notin {1, 2} => <<210>> \o Store32(b, d) \in Seq(Int)
        /\ w \notin {1, 2, 4} => <<211>> \o Store64(b, d) \in Seq(Int)
    BY <1>1, HeadedStores
  <1>4. RealUnsigned(b, w, d) \in Seq(Int)
    BY UnsignedBytes
  <1> QED BY <1>2, <1>3, <1>4, Zenon DEF RealSigned

LEMMA FixedBytes ==
  ASSUME NEW b, NEW h \in Int, NEW w \in Widths, NEW d \in Digits(w)
  PROVE  Fixed(b, h, w, d) \in Seq(Int)
  <1>1. w \in Nat /\ (w # 1 => w >= 2) /\ (w \notin {1, 2} => w >= 4)
        /\ (w \notin {1, 2, 4} => w >= 8)
    BY DEF Widths
  <1>2. <<h, Take8(b, w, d)>> \in Seq(Int)
    BY Taken8
  <1>3. /\ w # 1 => <<h>> \o Store16(b, d) \in Seq(Int)
        /\ w \notin {1, 2} => <<h>> \o Store32(b, d) \in Seq(Int)
        /\ w \notin {1, 2, 4} => <<h>> \o Store64(b, d) \in Seq(Int)
    BY <1>1, HeadedStores
  <1> QED BY <1>2, <1>3, Zenon DEF Fixed

(* The digits that the type has on this machine.                               *)
WidthOf(b, type) ==
  IF type \in SizedTypes THEN Widths
  ELSE IF type \in {"char", "signed_char", "unsigned_char"} THEN {1}
  ELSE {b.sizeof[CType(type)]}

LEMMA IntegerBytes ==
  ASSUME NEW b, TrueSizes(b), NEW type \in IntegerTypes, NEW w \in WidthOf(b, type),
         NEW d \in Digits(w)
  PROVE  PackInteger(b, type, d) \in Seq(Int)
  <1>1. Len(d) = w
    BY DEF Digits
  <1>2. CASE type \in SizedTypes
    <2>1. w \in Widths
      BY <1>2 DEF WidthOf
    <2>2. 204 + Power[w] \in Int /\ 208 + Power[w] \in Int
      BY <2>1, PowersAre DEF Widths
    <2>3. RealUnsigned(b, w, d) \in Seq(Int) /\ RealSigned(b, w, d) \in Seq(Int)
          /\ FixUnsigned(b, w, d) \in Seq(Int) /\ FixSigned(b, w, d) \in Seq(Int)
      BY <2>1, <2>2, UnsignedBytes, SignedBytes, FixedBytes DEF FixUnsigned, FixSigned
    <2> QED BY <1>1, <1>2, <2>3 DEF PackInteger, SizedTypes
  <1>3. CASE type \in {"char", "signed_char", "unsigned_char"}
    <2>1. w = 1 /\ 1 \in Widths
      BY <1>3 DEF WidthOf, SizedTypes, Widths
    <2>2. RealUnsigned(b, 1, d) \in Seq(Int) /\ RealSigned(b, 1, d) \in Seq(Int)
      BY <2>1, UnsignedBytes, SignedBytes
    <2> QED BY <1>3, <2>2 DEF PackInteger, pack_char, pack_signed_char, pack_unsigned_char
  <1>4. ASSUME NEW SIZEOF, NEW MAX, NEW t, Truthful(b, SIZEOF, MAX, t), w = b.sizeof[t]
        PROVE  /\ RealSigned(b, Bits(b, SIZEOF, MAX, t), d) \in Seq(Int)
               /\ RealUnsigned(b, Bits(b, SIZEOF, MAX, t), d) \in Seq(Int)
    <2>1. Bits(b, SIZEOF, MAX, t) = w /\ w \in Widths
      BY <1>4, BitsAreTrue
    <2> QED BY <2>1, UnsignedBytes, SignedBytes
  <1>5. CASE type \in {"short", "unsigned_short"}
    <2>1. w = b.sizeof["short"]
      BY <1>5 DEF WidthOf, SizedTypes, CType
    <2>2. pack_short(b, d) \in Seq(Int) /\ pack_unsigned_short(b, d) \in Seq(Int)
      BY <1>4, <2>1 DEF TrueSizes, pack_short, pack_unsigned_short
    <2> QED BY <1>5, <2>2 DEF PackInteger
  <1>6. CASE type \in {"int", "unsigned_int"}
    <2>1. w = b.sizeof["int"]
      BY <1>6 DEF WidthOf, SizedTypes, CType
    <2>2. pack_int(b, d) \in Seq(Int) /\ pack_unsigned_int(b, d) \in Seq(Int)
      BY <1>4, <2>1 DEF TrueSizes, pack_int, pack_unsigned_int
    <2> QED BY <1>6, <2>2 DEF PackInteger
  <1>7. CASE type \in {"long", "unsigned_long"}
    <2>1. w = b.sizeof["long"]
      BY <1>7 DEF WidthOf, SizedTypes, CType
    <2>2. pack_long(b, d) \in Seq(Int) /\ pack_unsigned_long(b, d) \in Seq(Int)
      BY <1>4, <2>1 DEF TrueSizes, pack_long, pack_unsigned_long
    <2> QED BY <1>7, <2>2 DEF PackInteger
  <1>8. CASE type \in {"long_long", "unsigned_long_long"}
    <2>1. w = b.sizeof["long_long"]
      BY <1>8 DEF WidthOf, SizedTypes, CType
    <2>2. pack_long_long(b, d) \in Seq(Int) /\ pack_unsigned_long_long(b, d) \in Seq(Int)
      BY <1>4, <2>1 DEF TrueSizes, pack_long_long, pack_unsigned_long_long
    <2> QED BY <1>8, <2>2 DEF PackInteger
  <1>9. type \in SizedTypes \cup {"char", "signed_char", "unsigned_char", "short",
          "unsigned_short", "int", "unsigned_int", "long", "unsigned_long", "long_long",
          "unsigned_long_long"}
    BY DEF IntegerTypes, SignedTypes, UnsignedTypes
  <1> QED BY <1>2, <1>3, <1>5, <1>6, <1>7, <1>8, <1>9

(* Every integer of the type is packed as a form of the format that reads as   *)
(* that integer.                                                               *)
SignedFor(b, type) ==
  \/ type \in SignedTypes \cup {"intN", "fix_intN"}
  \/ type = "char" /\ b.char_signed

LEMMA SignedForIs ==
  ASSUME NEW b, b.char_signed \in BOOLEAN
  PROVE  /\ \A type \in {"signed_char", "short", "int", "long", "long_long", "intN", "fix_intN"} :
              SignedFor(b, type) = TRUE
         /\ \A type \in UnsignedTypes \cup {"uintN", "fix_uintN"} : SignedFor(b, type) = FALSE
         /\ SignedFor(b, "char") = b.char_signed
  BY DEF SignedFor, SignedTypes, UnsignedTypes

(* The function of a type, how it reads the digits and how many they are.      *)
Ways(b, type, w) ==
  CASE type = "char" -> <<b.char_signed, 1>>
    [] type = "signed_char" -> <<TRUE, 1>>
    [] type = "unsigned_char" -> <<FALSE, 1>>
    [] type = "short" -> <<TRUE, b.sizeof["short"]>>
    [] type = "int" -> <<TRUE, b.sizeof["int"]>>
    [] type = "long" -> <<TRUE, b.sizeof["long"]>>
    [] type = "long_long" -> <<TRUE, b.sizeof["long_long"]>>
    [] type = "unsigned_short" -> <<FALSE, b.sizeof["short"]>>
    [] type = "unsigned_int" -> <<FALSE, b.sizeof["int"]>>
    [] type = "unsigned_long" -> <<FALSE, b.sizeof["long"]>>
    [] type = "unsigned_long_long" -> <<FALSE, b.sizeof["long_long"]>>
    [] type \in {"uintN", "fix_uintN"} -> <<FALSE, w>>
    [] type \in {"intN", "fix_intN"} -> <<TRUE, w>>

LEMMA WaysAre ==
  ASSUME NEW b, b.char_signed \in BOOLEAN, NEW type \in IntegerTypes, NEW w \in WidthOf(b, type)
  PROVE  /\ SignedFor(b, type) = Ways(b, type, w)[1]
         /\ w = Ways(b, type, w)[2]
         /\ type \in SizedTypes => w \in Widths
  <1>1. type \in {"char"} \cup {"signed_char", "short", "int", "long", "long_long"} \cup
          {"unsigned_char", "unsigned_short", "unsigned_int", "unsigned_long",
           "unsigned_long_long"} \cup {"uintN", "intN", "fix_uintN", "fix_intN"}
    BY DEF IntegerTypes, SignedTypes, UnsignedTypes, SizedTypes
  <1>2. SignedFor(b, type) = Ways(b, type, w)[1]
    <2>1. CASE type = "char"
      BY <2>1 DEF SignedFor, SignedTypes, Ways
    <2>2. CASE type \in {"signed_char", "short", "int", "long", "long_long", "intN", "fix_intN"}
      <3>1. SignedFor(b, type) = TRUE
        BY <2>2 DEF SignedFor, SignedTypes
      <3>2. Ways(b, type, w)[1] = TRUE
        BY <2>2 DEF Ways
      <3> QED BY <3>1, <3>2
    <2>3. CASE type \in {"unsigned_char", "unsigned_short", "unsigned_int", "unsigned_long",
                         "unsigned_long_long", "uintN", "fix_uintN"}
      <3>1. SignedFor(b, type) = FALSE
        BY <2>3 DEF SignedFor, SignedTypes
      <3>2. Ways(b, type, w)[1] = FALSE
        BY <2>3 DEF Ways
      <3> QED BY <3>1, <3>2
    <2> QED BY <1>1, <2>1, <2>2, <2>3
  <1>3. w = Ways(b, type, w)[2]
    BY <1>1 DEF Ways, WidthOf, SizedTypes, CType
  <1>4. type \in SizedTypes => w \in Widths
    BY DEF WidthOf
  <1> QED BY <1>2, <1>3, <1>4

LEMMA IntegerMeans ==
  ASSUME NEW b, Known2(b), TrueSizes(b), Charted(b), NEW type \in IntegerTypes,
         NEW w \in WidthOf(b, type), NEW d \in Digits(w)
  PROVE  Means(PackInteger(b, type, d), d, SignedFor(b, type))
  <1>1. /\ SignedFor(b, type) = Ways(b, type, w)[1]
        /\ w = Ways(b, type, w)[2]
        /\ type \in SizedTypes => w \in Widths
    <2>1. b.char_signed \in BOOLEAN
      BY DEF Charted
    <2> QED BY <2>1, WaysAre
  <1>2. ASSUME NEW s, NEW p, Ways(b, type, w)[1] = s, PackInteger(b, type, d) = p, Means(p, d, s)
        PROVE  Means(PackInteger(b, type, d), d, SignedFor(b, type))
    BY <1>1, <1>2, Zenon
  <1>3. Len(d) = w
    BY DEF Digits
  <1>4. CASE type = "uintN"
    <2>1. Ways(b, type, w)[1] = FALSE /\ PackInteger(b, type, d) = RealUnsigned(b, w, d) /\ w \in Widths
      BY <1>1, <1>3, <1>4 DEF Ways, PackInteger, SizedTypes
    <2>2. Means(RealUnsigned(b, w, d), d, FALSE)
      BY <2>1, SizedMeans
    <2> QED BY <1>2, <2>1, <2>2
  <1>5. CASE type = "fix_uintN"
    <2>1. Ways(b, type, w)[1] = FALSE /\ PackInteger(b, type, d) = FixUnsigned(b, w, d) /\ w \in Widths
      BY <1>1, <1>3, <1>5 DEF Ways, PackInteger, SizedTypes
    <2>2. Means(FixUnsigned(b, w, d), d, FALSE)
      BY <2>1, SizedMeans
    <2> QED BY <1>2, <2>1, <2>2
  <1>6. CASE type = "intN"
    <2>1. Ways(b, type, w)[1] = TRUE /\ PackInteger(b, type, d) = RealSigned(b, w, d) /\ w \in Widths
      BY <1>1, <1>3, <1>6 DEF Ways, PackInteger, SizedTypes
    <2>2. Means(RealSigned(b, w, d), d, TRUE)
      BY <2>1, SizedMeans
    <2> QED BY <1>2, <2>1, <2>2
  <1>7. CASE type = "fix_intN"
    <2>1. Ways(b, type, w)[1] = TRUE /\ PackInteger(b, type, d) = FixSigned(b, w, d) /\ w \in Widths
      BY <1>1, <1>3, <1>7 DEF Ways, PackInteger, SizedTypes
    <2>2. Means(FixSigned(b, w, d), d, TRUE)
      BY <2>1, SizedMeans
    <2> QED BY <1>2, <2>1, <2>2
  <1>8. CASE type = "char"
    <2>1. Ways(b, type, w)[1] = b.char_signed /\ PackInteger(b, type, d) = pack_char(b, d) /\ w = 1
      BY <1>1, <1>8 DEF Ways, PackInteger
    <2>2. Means(pack_char(b, d), d, b.char_signed)
      BY <2>1, TypedMeans
    <2> QED BY <1>2, <2>1, <2>2
  <1>9. CASE type = "signed_char"
    <2>1. Ways(b, type, w)[1] = TRUE /\ PackInteger(b, type, d) = pack_signed_char(b, d) /\ w = 1
      BY <1>1, <1>9 DEF Ways, PackInteger
    <2>2. Means(pack_signed_char(b, d), d, TRUE)
      BY <2>1, TypedMeans
    <2> QED BY <1>2, <2>1, <2>2
  <1>10. CASE type = "unsigned_char"
    <2>1. Ways(b, type, w)[1] = FALSE /\ PackInteger(b, type, d) = pack_unsigned_char(b, d) /\ w = 1
      BY <1>1, <1>10 DEF Ways, PackInteger
    <2>2. Means(pack_unsigned_char(b, d), d, FALSE)
      BY <2>1, TypedMeans
    <2> QED BY <1>2, <2>1, <2>2
  <1>11. CASE type = "short"
    <2>1. Ways(b, type, w)[1] = TRUE /\ PackInteger(b, type, d) = pack_short(b, d) /\ w = b.sizeof["short"]
      BY <1>1, <1>11 DEF Ways, PackInteger
    <2>2. Means(pack_short(b, d), d, TRUE)
      BY <2>1, TypedMeans
    <2> QED BY <1>2, <2>1, <2>2
  <1>12. CASE type = "unsigned_short"
    <2>1. Ways(b, type, w)[1] = FALSE /\ PackInteger(b, type, d) = pack_unsigned_short(b, d) /\ w = b.sizeof["short"]
      BY <1>1, <1>12 DEF Ways, PackInteger
    <2>2. Means(pack_unsigned_short(b, d), d, FALSE)
      BY <2>1, TypedMeans
    <2> QED BY <1>2, <2>1, <2>2
  <1>13. CASE type = "int"
    <2>1. Ways(b, type, w)[1] = TRUE /\ PackInteger(b, type, d) = pack_int(b, d) /\ w = b.sizeof["int"]
      BY <1>1, <1>13 DEF Ways, PackInteger
    <2>2. Means(pack_int(b, d), d, TRUE)
      BY <2>1, TypedMeans
    <2> QED BY <1>2, <2>1, <2>2
  <1>14. CASE type = "unsigned_int"
    <2>1. Ways(b, type, w)[1] = FALSE /\ PackInteger(b, type, d) = pack_unsigned_int(b, d) /\ w = b.sizeof["int"]
      BY <1>1, <1>14 DEF Ways, PackInteger
    <2>2. Means(pack_unsigned_int(b, d), d, FALSE)
      BY <2>1, TypedMeans
    <2> QED BY <1>2, <2>1, <2>2
  <1>15. CASE type = "long"
    <2>1. Ways(b, type, w)[1] = TRUE /\ PackInteger(b, type, d) = pack_long(b, d) /\ w = b.sizeof["long"]
      BY <1>1, <1>15 DEF Ways, PackInteger
    <2>2. Means(pack_long(b, d), d, TRUE)
      BY <2>1, TypedMeans
    <2> QED BY <1>2, <2>1, <2>2
  <1>16. CASE type = "unsigned_long"
    <2>1. Ways(b, type, w)[1] = FALSE /\ PackInteger(b, type, d) = pack_unsigned_long(b, d) /\ w = b.sizeof["long"]
      BY <1>1, <1>16 DEF Ways, PackInteger
    <2>2. Means(pack_unsigned_long(b, d), d, FALSE)
      BY <2>1, TypedMeans
    <2> QED BY <1>2, <2>1, <2>2
  <1>17. CASE type = "long_long"
    <2>1. Ways(b, type, w)[1] = TRUE /\ PackInteger(b, type, d) = pack_long_long(b, d) /\ w = b.sizeof["long_long"]
      BY <1>1, <1>17 DEF Ways, PackInteger
    <2>2. Means(pack_long_long(b, d), d, TRUE)
      BY <2>1, TypedMeans
    <2> QED BY <1>2, <2>1, <2>2
  <1>18. CASE type = "unsigned_long_long"
    <2>1. Ways(b, type, w)[1] = FALSE /\ PackInteger(b, type, d) = pack_unsigned_long_long(b, d) /\ w = b.sizeof["long_long"]
      BY <1>1, <1>18 DEF Ways, PackInteger
    <2>2. Means(pack_unsigned_long_long(b, d), d, FALSE)
      BY <2>1, TypedMeans
    <2> QED BY <1>2, <2>1, <2>2
  <1> QED BY <1>4, <1>5, <1>6, <1>7, <1>8, <1>9, <1>10, <1>11, <1>12, <1>13, <1>14, <1>15, <1>16, <1>17, <1>18
          DEF IntegerTypes, SignedTypes, UnsignedTypes, SizedTypes

-------------------------------------------------------------------------------
(* Headers are bytes, too.                                                     *)
LEMMA Bufs ==
  ASSUME NEW h \in Int, NEW n \in Nat
  PROVE  Buf2(h, n) \in Seq(Int) /\ Buf3(h, n) \in Seq(Int) /\ Buf5(h, n) \in Seq(Int)
  <1>1. TAKE8(n) \in Int /\ TAKE8(Shr8(n)) \in Int /\ TAKE8(Shr16(n)) \in Int
        /\ TAKE8(Shr24(n)) \in Int
    BY DEF TAKE8, Shr8, Shr16, Shr24
  <1> QED BY <1>1 DEF Buf2, Buf3, Buf5

LEMMA FixExtBytes ==
  DOMAIN FixExt = {1, 2, 4, 8, 16}
    /\ FixExt[1] = 212 /\ FixExt[2] = 213 /\ FixExt[4] = 214 /\ FixExt[8] = 215 /\ FixExt[16] = 216
  BY DEF FixExt

LEMMA HeaderBytes ==
  ASSUME NEW type \in HeaderTypes, NEW n \in Nat
  PROVE  Header(type, n) \in Seq(Int)
  <1>1. \A h \in Int : Buf2(h, n) \in Seq(Int) /\ Buf3(h, n) \in Seq(Int) /\ Buf5(h, n) \in Seq(Int)
    BY Bufs
  <1>2. /\ <<144 + n>> \in Seq(Int) /\ <<128 + n>> \in Seq(Int) /\ <<160 + n>> \in Seq(Int)
        /\ <<5>> \in Seq(Int)
    OBVIOUS
  <1>3. \A s \in Seq(Int) : s \o <<5>> \in Seq(Int)
    BY <1>2, ConcatProperties
  <1>4. n \in DOMAIN FixExt => <<FixExt[n], 5>> \in Seq(Int)
    BY FixExtBytes
  <1> HIDE DEF Buf2, Buf3, Buf5
  <1>5. ArrayHeader(n) \in Seq(Int) /\ MapHeader(n) \in Seq(Int) /\ StrHeader(n) \in Seq(Int)
    BY <1>1, <1>2 DEF ArrayHeader, MapHeader, StrHeader
  <1>6. BinHeader(n) \in Seq(Int) /\ V4RawHeader(n) \in Seq(Int)
    BY <1>1, <1>2 DEF BinHeader, V4RawHeader
  <1>7. ExtHeader(n, 5) \in Seq(Int)
    <2> DEFINE x == Buf2(199, n) \o <<5>>
               y == Buf3(200, n) \o <<5>>
               z == Buf5(201, n) \o <<5>>
               f == <<FixExt[n], 5>>
    <2>1. ExtHeader(n, 5) = IF n \in DOMAIN FixExt THEN f
                            ELSE IF n < 256 THEN x ELSE IF n < 65536 THEN y ELSE z
      BY DEF ExtHeader
    <2>2. x \in Seq(Int) /\ y \in Seq(Int) /\ z \in Seq(Int)
      BY <1>1, <1>3
    <2>3. n \in DOMAIN FixExt => f \in Seq(Int)
      BY <1>4
    <2> HIDE DEF x, y, z, f
    <2> QED BY <2>1, <2>2, <2>3
  <1> QED BY <1>5, <1>6, <1>7 DEF Header, HeaderTypes

-------------------------------------------------------------------------------
(* zone.h: alignment.                                                          *)
LEMMA MultiplesAre ==
  ASSUME NEW k \in Nat
  PROVE  (k * Align) % Align = 0 /\ k * Align \in Nat
  BY ZoneAssumption

LEMMA DivisionIs ==
  ASSUME NEW p \in Nat
  PROVE  p = Align * (p \div Align) + (p % Align) /\ p % Align \in 0 .. Align - 1
         /\ p \div Align \in Nat
  BY ZoneAssumption

LEMMA UpIs ==
  ASSUME NEW p \in Nat
  PROVE  Up(p) \in Nat /\ Up(p) % Align = 0 /\ p <= Up(p) /\ Up(p) < p + Align
  <1> DEFINE q == p + Align - 1
             k == q \div Align
  <1>1. Align \in Nat \ {0} /\ q \in Nat
    BY ZoneAssumption
  <1>2. q = Align * k + (q % Align) /\ q % Align \in 0 .. Align - 1 /\ k \in Nat
    BY <1>1, DivisionIs
  <1>3. Up(p) = k * Align
    BY DEF Up
  <1> HIDE DEF k
  <1>4. (k * Align) % Align = 0 /\ k * Align \in Nat /\ k * Align = Align * k
    BY <1>1, <1>2, MultiplesAre
  <1> DEFINE m == k * Align
             r == q % Align
  <1>5. q = m + r /\ r \in 0 .. Align - 1 /\ m \in Nat
    BY <1>2, <1>4
  <1> HIDE DEF m, r
  <1>6. p <= m /\ m < p + Align
    BY <1>1, <1>5
  <1> QED BY <1>3, <1>4, <1>6 DEF m

LEMMA DownIs ==
  ASSUME NEW p \in Nat, p % Align = 0
  PROVE  Down(p) = p
  <1>1. p = Align * (p \div Align) + (p % Align) /\ p \div Align \in Nat /\ Align \in Nat
    BY DivisionIs, ZoneAssumption
  <1> DEFINE k == p \div Align
  <1> HIDE DEF k
  <1>2. p = Align * k /\ k \in Nat
    BY <1>1 DEF k
  <1>3. Down(p) = k * Align
    BY DEF Down, k
  <1> QED BY <1>1, <1>2, <1>3

LEMMA AlignedSum ==
  ASSUME NEW p \in Nat, NEW q \in Nat, p % Align = 0, q % Align = 0
  PROVE  (p + q) % Align = 0
  <1> DEFINE j == p \div Align
             k == q \div Align
  <1>1. p = Align * j /\ q = Align * k /\ j \in Nat /\ k \in Nat /\ Align \in Nat
    BY DivisionIs, ZoneAssumption
  <1> HIDE DEF j, k
  <1>2. p + q = (j + k) * Align /\ j + k \in Nat
    BY <1>1
  <1> QED BY <1>2, MultiplesAre

-------------------------------------------------------------------------------
(* The doubled size is enough.                                                 *)
LEMMA ChunkForIsEnough ==
  ASSUME NEW size \in Nat
  PROVE  ChunkFor(size) \in Nat /\ ChunkFor(size) >= size /\ ChunkFor(size) >= 1
  <1> DEFINE Right(D, n) == \A k \in 0 .. n : D[k] = IF k = 0 THEN ChunkSize ELSE 2 * D[k - 1]
             T == {n \in Nat : \E D \in [0 .. n -> Nat] : Right(D, n)}
             F(D) == [k \in 0 .. size |-> IF k = 0 THEN ChunkSize ELSE 2 * D[k - 1]]
             D == CHOOSE D : D = F(D)
             enough == {k \in 0 .. size : D[k] >= size}
             least == CHOOSE k \in enough : \A j \in enough : k <= j
  <1>0. ChunkSize \in Nat /\ ChunkSize >= 1
    BY ZoneAssumption
  <1>1. 0 \in T
    <2> DEFINE E == [k \in 0 .. 0 |-> ChunkSize]
    <2>1. E \in [0 .. 0 -> Nat] /\ Right(E, 0)
      BY <1>0
    <2> HIDE DEF E, Right
    <2> QED BY <2>1
  <1>2. ASSUME NEW n \in Nat, n \in T
        PROVE  n + 1 \in T
    <2>1. PICK E \in [0 .. n -> Nat] : Right(E, n)
      BY <1>2
    <2> DEFINE K == [k \in 0 .. n + 1 |-> IF k = n + 1 THEN 2 * E[n] ELSE E[k]]
    <2>2. K \in [0 .. n + 1 -> Nat] /\ \A k \in 0 .. n : K[k] = E[k]
      OBVIOUS
    <2>3. K[n + 1] = 2 * E[n]
      OBVIOUS
    <2> HIDE DEF K
    <2>4. ASSUME NEW k \in 0 .. n + 1
          PROVE  K[k] = IF k = 0 THEN ChunkSize ELSE 2 * K[k - 1]
      <3>1. CASE k = n + 1
        BY <2>2, <2>3, <3>1
      <3>2. CASE k # n + 1
        <4>1. k \in 0 .. n /\ (k # 0 => k - 1 \in 0 .. n)
          BY <3>2
        <4> QED BY <2>1, <2>2, <4>1
      <3> QED BY <3>1, <3>2
    <2>5. Right(K, n + 1)
      BY <2>4
    <2> HIDE DEF Right
    <2> QED BY <2>2, <2>5
  <1>3. size \in T
    <2> HIDE DEF T
    <2>1. Nat \subseteq T
      BY <1>1, <1>2, Inductive
    <2> QED BY <2>1
  <1>4. PICK E \in [0 .. size -> Nat] : Right(E, size)
    BY <1>3
  <1>5. E = F(E)
    BY <1>4
  <1>6. D = F(D)
    BY <1>5, Zenon
  <1>7. ChunkFor(size) = D[least]
    BY DEF ChunkFor
  <1> HIDE DEF D
  <1>8. \A k \in 0 .. size : D[k] = IF k = 0 THEN ChunkSize ELSE 2 * D[k - 1]
    BY <1>6
  <1>9. \A k \in 0 .. size : D[k] \in Nat /\ D[k] >= k /\ D[k] >= 1
    <2> DEFINE G == {k \in Nat : k <= size => D[k] \in Nat /\ D[k] >= k /\ D[k] >= 1}
    <2>1. 0 \in G
      BY <1>0, <1>8
    <2>2. ASSUME NEW k \in Nat, k \in G
          PROVE  k + 1 \in G
      <3> SUFFICES ASSUME k + 1 <= size
                   PROVE  D[k + 1] \in Nat /\ D[k + 1] >= k + 1 /\ D[k + 1] >= 1
        OBVIOUS
      <3>1. k + 1 \in 0 .. size /\ k + 1 # 0 /\ (k + 1) - 1 = k
        OBVIOUS
      <3>2. D[k + 1] = 2 * D[k]
        BY <1>8, <3>1
      <3>3. D[k] \in Nat /\ D[k] >= k /\ D[k] >= 1
        BY <2>2
      <3> QED BY <3>2, <3>3
    <2> HIDE DEF G
    <2>3. Nat \subseteq G
      BY <2>1, <2>2, Inductive
    <2> QED BY <2>3 DEF G
  <1>10. enough \subseteq Nat /\ enough # {}
    <2>1. size \in enough
      BY <1>9
    <2> QED BY <2>1
  <1>11. least \in enough
    <2> HIDE DEF enough
    <2>1. \E k \in enough : \A j \in enough : k <= j
      BY <1>10, Smallest
    <2> QED BY <2>1
  <1> QED BY <1>7, <1>9, <1>11

-------------------------------------------------------------------------------
(* What is left of a zone lies in a chunk below brk, the memory handed out is  *)
(* apart from it, and the finalizers fit their array.                          *)
ZoneShape(z) ==
  /\ z.ptr \in Nat /\ z.free \in Nat /\ z.room \in Nat
  /\ \A c \in z.chunks : c[1] \in Nat \ {0} /\ c[2] \in Nat
  /\ z.finalizers \in Seq(Int) /\ Len(z.finalizers) <= z.room
  /\ DOMAIN z = {"ptr", "free", "room", "finalizers", "chunks"}

LeftOver(z, brk) ==
  /\ z.ptr + z.free <= brk
  /\ \E c \in z.chunks : c[1] <= z.ptr /\ z.ptr + z.free <= c[2] + 1

Given(g, x, y, brk) ==
  LET lo == g.block[1]
      hi == g.block[2]
  IN /\ lo \in Nat /\ hi \in Nat /\ lo <= hi /\ hi < brk
     /\ hi < x.ptr \/ x.ptr + x.free <= lo
     /\ hi < y.ptr \/ y.ptr + y.free <= lo
     /\ \E c \in x.chunks \cup y.chunks : c[1] <= lo /\ hi <= c[2]
     /\ g.aligned => lo % Align = 0

Separate(g, h) == g.block[2] < h.block[1] \/ h.block[2] < g.block[1] \/ g = h

Blocks(x, y, brk, given) ==
  /\ ZoneShape(x) /\ ZoneShape(y) /\ brk \in Nat /\ brk % Align = 0
  /\ LeftOver(x, brk) /\ LeftOver(y, brk)
  /\ x.ptr + x.free <= y.ptr \/ y.ptr + y.free <= x.ptr
  /\ \A g \in given : Given(g, x, y, brk)
  /\ \A g, h \in given : Separate(g, h)

LEMMA BlocksEitherWay ==
  ASSUME NEW x, NEW y, NEW brk, NEW given, Blocks(x, y, brk, given)
  PROVE  Blocks(y, x, brk, given)
  <1>1. \A g \in given : Given(g, y, x, brk)
    BY DEF Blocks, Given
  <1> QED BY <1>1 DEF Blocks

(* A part of what is left is handed out.                                       *)
LEMMA TakenFromLeftOver ==
  ASSUME NEW x, NEW y, NEW brk, NEW given, Blocks(x, y, brk, given), NEW aligned \in BOOLEAN,
         NEW lo \in Nat, NEW size \in Nat, size >= 1, x.ptr <= lo, lo + size <= x.ptr + x.free,
         aligned => lo % Align = 0, NEW z, ZoneShape(z), z.chunks = x.chunks,
         z.ptr = lo + size, z.free = x.ptr + x.free - (lo + size)
  PROVE  Blocks(z, y, brk, given \cup {[block |-> Block(lo, size), aligned |-> aligned]})
  <1> DEFINE new == [block |-> Block(lo, size), aligned |-> aligned]
  <1>1. new.block[1] = lo /\ new.block[2] = lo + size - 1 /\ new.aligned = aligned
    BY DEF Block
  <1> HIDE DEF new
  <1>2. /\ x.ptr \in Nat /\ x.free \in Nat /\ y.ptr \in Nat /\ y.free \in Nat /\ brk \in Nat
        /\ x.ptr + x.free <= y.ptr \/ y.ptr + y.free <= x.ptr
        /\ x.ptr + x.free <= brk
    BY DEF Blocks, ZoneShape, LeftOver
  <1>3. z.ptr + z.free = x.ptr + x.free /\ x.ptr <= z.ptr
    BY <1>2
  <1>4. LeftOver(z, brk)
    <2>1. PICK c \in x.chunks : c[1] <= x.ptr /\ x.ptr + x.free <= c[2] + 1
      BY DEF Blocks, LeftOver
    <2>0. c[1] \in Nat /\ c[2] \in Nat
      BY <2>1 DEF Blocks, ZoneShape
    <2>2. c[1] <= z.ptr
      BY <1>2, <1>3, <2>0, <2>1
    <2> QED BY <1>2, <1>3, <2>1, <2>2 DEF LeftOver
  <1>5. ASSUME NEW g \in given
        PROVE  Given(g, z, y, brk) /\ Separate(g, new) /\ Separate(new, g)
    <2>1. Given(g, x, y, brk)
      BY DEF Blocks
    <2> QED BY <1>1, <1>2, <1>3, <2>1 DEF Given, Separate
  <1>6. Given(new, z, y, brk)
    <2>1. PICK c \in x.chunks : c[1] <= x.ptr /\ x.ptr + x.free <= c[2] + 1
      BY DEF Blocks, LeftOver
    <2>0. c[1] \in Nat /\ c[2] \in Nat
      BY <2>1 DEF Blocks, ZoneShape
    <2>2. c[1] <= lo /\ lo + size - 1 <= c[2]
      BY <1>2, <1>3, <2>0, <2>1
    <2> QED BY <1>1, <1>2, <1>3, <2>1, <2>2 DEF Given
  <1>7. Separate(new, new)
    BY DEF Separate
  <1> QED BY <1>2, <1>3, <1>4, <1>5, <1>6, <1>7 DEF Blocks, new

(* Or memory of a new chunk, above everything so far.                          *)
LEMMA TakenFromNewChunk ==
  ASSUME NEW x, NEW y, NEW brk, NEW given, Blocks(x, y, brk, given), NEW aligned \in BOOLEAN,
         NEW size \in Nat, size >= 1, NEW asked \in Nat, asked >= size, NEW sz \in Nat,
         sz >= asked, NEW z, ZoneShape(z),
         z.chunks = x.chunks \cup {Block(brk + ChunkHeader, sz)},
         z.ptr = brk + ChunkHeader + asked, z.free = sz - asked,
         NEW top, top = Up(brk + ChunkHeader + sz)
  PROVE  Blocks(z, y, top,
                given \cup {[block |-> Block(brk + ChunkHeader, size), aligned |-> aligned]})
  <1> DEFINE front == brk + ChunkHeader
             new == [block |-> Block(front, size), aligned |-> aligned]
             chunk == Block(front, sz)
  <1>1. /\ brk \in Nat /\ brk % Align = 0 /\ ChunkHeader \in Nat /\ ChunkHeader >= 1
        /\ ChunkHeader % Align = 0
    BY ZoneAssumption DEF Blocks
  <1>2. front \in Nat /\ front > brk /\ front % Align = 0
    BY <1>1, AlignedSum
  <1>3. top \in Nat /\ top % Align = 0 /\ front + sz <= top
    BY <1>2, UpIs
  <1>4. new.block[1] = front /\ new.block[2] = front + size - 1 /\ new.aligned = aligned
    BY DEF Block
  <1>5. chunk[1] = front /\ chunk[2] = front + sz - 1 /\ chunk \in z.chunks
    BY DEF Block
  <1>6. z.ptr = front + asked /\ z.free = sz - asked /\ x.chunks \subseteq z.chunks
    OBVIOUS
  <1>7. Blocks(z, y, top, given \cup {new})
    <2> HIDE DEF new, front, chunk
    <2>1. /\ x.ptr \in Nat /\ x.free \in Nat /\ y.ptr \in Nat /\ y.free \in Nat
          /\ y.ptr + y.free <= brk /\ x.ptr + x.free <= brk
      BY DEF Blocks, ZoneShape, LeftOver
    <2>2. z.ptr + z.free = front + sz /\ front <= z.ptr
      BY <1>2, <1>6
    <2>3. LeftOver(z, top)
      BY <1>2, <1>3, <1>5, <2>2 DEF LeftOver
    <2>4. LeftOver(y, top)
      BY <1>1, <1>2, <1>3, <2>1 DEF LeftOver, Blocks
    <2>5. ASSUME NEW g \in given
          PROVE  Given(g, z, y, top) /\ Separate(g, new) /\ Separate(new, g)
      <3>1. Given(g, x, y, brk)
        BY DEF Blocks
      <3> QED BY <1>1, <1>2, <1>3, <1>4, <1>6, <2>1, <2>2, <3>1 DEF Given, Separate
    <2>6. Given(new, z, y, top)
      <3>1. chunk[1] <= new.block[1] /\ new.block[2] <= chunk[2]
        BY <1>2, <1>4, <1>5
      <3>2. new.block[2] < z.ptr \/ z.ptr + z.free <= new.block[1]
        BY <1>2, <1>4, <1>6
      <3>3. y.ptr + y.free <= new.block[1]
        BY <1>1, <1>2, <1>4, <2>1
      <3>4. new.block[1] \in Nat /\ new.block[2] \in Nat /\ new.block[1] <= new.block[2]
            /\ new.block[2] < top
        BY <1>2, <1>3, <1>4
      <3> QED BY <1>2, <1>4, <1>5, <3>1, <3>2, <3>3, <3>4 DEF Given
    <2>7. Separate(new, new)
      BY DEF Separate
    <2>8. ZoneShape(y) /\ y.ptr + y.free <= z.ptr
      BY <1>1, <1>2, <2>1, <2>2 DEF Blocks
    <2> QED BY <1>3, <2>3, <2>4, <2>5, <2>6, <2>7, <2>8 DEF Blocks
  <1> QED BY <1>7

(* What a call may do to a pair of zones.                                      *)
Handed(o, x, y, brk, given, size, aligned) ==
  /\ o.zone.finalizers = x.finalizers /\ o.zone.room = x.room
  /\ Blocks(o.zone, y, o.brk,
            IF o.ret = 0 THEN given
            ELSE given \cup {[block |-> Block(o.ret, size), aligned |-> aligned]})

Reply(o) == /\ o = [ret |-> o.ret, zone |-> o.zone, brk |-> o.brk]
            /\ o.ret \in Nat /\ o.ret % Align = 0

LEMMA ExpandHands ==
  ASSUME NEW x, NEW y, NEW brk, NEW given, Blocks(x, y, brk, given), NEW aligned \in BOOLEAN,
         NEW size \in Nat, size >= 1, NEW asked \in Nat, asked >= size,
         NEW o \in malloc_expand(x, asked, brk)
  PROVE  Handed(o, x, y, brk, given, size, aligned) /\ Reply(o)
  <1> DEFINE sz == ChunkFor(asked)
             front == brk + ChunkHeader
             z == [x EXCEPT !.ptr = front + asked, !.free = sz - asked,
                            !.chunks = @ \cup {Block(front, sz)}]
             top == Up(front + sz)
             none == [ret |-> 0, zone |-> x, brk |-> brk]
             some == [ret |-> front, zone |-> z, brk |-> top]
  <1>1. o = none \/ o = some
    BY DEF malloc_expand, Up
  <1>2. sz \in Nat /\ sz >= asked /\ sz >= 1
    BY ChunkForIsEnough
  <1>3. /\ brk \in Nat /\ brk % Align = 0 /\ ChunkHeader \in Nat /\ ChunkHeader >= 1
        /\ ChunkHeader % Align = 0
    BY ZoneAssumption DEF Blocks
  <1>4. front \in Nat /\ front > 0 /\ front % Align = 0
    BY <1>3, AlignedSum
  <1>5. CASE o = none
    <2>1. 0 % Align = 0
      BY ZoneAssumption
    <2> QED BY <1>5, <2>1 DEF Handed, Reply
  <1>6. CASE o = some
    <2>1. ZoneShape(x)
      BY DEF Blocks
    <2> HIDE DEF sz
    <2>2. /\ z.ptr = front + asked /\ z.free = sz - asked
          /\ z.chunks = x.chunks \cup {Block(front, sz)}
          /\ z.finalizers = x.finalizers /\ z.room = x.room
      BY <2>1 DEF ZoneShape
    <2>3. ZoneShape(z)
      <3>1. \A c \in z.chunks : c[1] \in Nat \ {0} /\ c[2] \in Nat
        <4>1. Block(front, sz)[1] = front /\ Block(front, sz)[2] = front + sz - 1
          BY DEF Block
        <4>2. front + sz - 1 \in Nat
          BY <1>2, <1>4
        <4> HIDE DEF z, front
        <4> QED BY <1>4, <2>1, <2>2, <4>1, <4>2 DEF ZoneShape
      <3>2. z.ptr \in Nat /\ z.free \in Nat
        BY <1>2, <1>4, <2>2
      <3>3. DOMAIN z = {"ptr", "free", "room", "finalizers", "chunks"}
        BY <2>1 DEF ZoneShape
      <3> HIDE DEF z
      <3> QED BY <2>1, <2>2, <3>1, <3>2, <3>3 DEF ZoneShape
    <2>4. Blocks(z, y, top, given \cup {[block |-> Block(front, size), aligned |-> aligned]})
      BY <1>2, <2>2, <2>3, TakenFromNewChunk
    <2>5. some.zone = z /\ some.brk = top /\ some.ret = front
      OBVIOUS
    <2> HIDE DEF z, top, front
    <2> QED BY <1>4, <1>6, <2>2, <2>4, <2>5 DEF Handed, Reply
  <1> QED BY <1>1, <1>5, <1>6

LEMMA PtrIsSome ==
  ASSUME NEW x, NEW y, NEW brk, NEW given, Blocks(x, y, brk, given)
  PROVE  x.ptr \in Nat /\ x.free \in Nat /\ x.ptr >= 1
  <1>1. ZoneShape(x) /\ LeftOver(x, brk)
    BY DEF Blocks
  <1>2. x.ptr \in Nat /\ x.free \in Nat
    BY <1>1 DEF ZoneShape
  <1>3. PICK c \in x.chunks : c[1] <= x.ptr
    BY <1>1 DEF LeftOver
  <1>4. c[1] \in Nat \ {0}
    BY <1>1 DEF ZoneShape
  <1> QED BY <1>2, <1>3, <1>4

LEMMA MallocNoAlignHands ==
  ASSUME NEW x, NEW y, NEW brk, NEW given, Blocks(x, y, brk, given),
         NEW size \in Nat, size >= 1, NEW o \in zone_malloc_no_align(x, size, brk)
  PROVE  Handed(o, x, y, brk, given, size, FALSE)
  <1> DEFINE f == FALSE
  <1>0. f \in BOOLEAN /\ ~f
    OBVIOUS
  <1> HIDE DEF f
  <1>1. ZoneShape(x)
    BY DEF Blocks
  <1>2. CASE x.free < size
    <2>1. o \in malloc_expand(x, size, brk)
      BY <1>2 DEF zone_malloc_no_align
    <2>2. Handed(o, x, y, brk, given, size, f)
      BY <1>0, <2>1, ExpandHands
    <2> QED BY <2>2 DEF f
  <1>3. CASE ~(x.free < size)
    <2> DEFINE z == [x EXCEPT !.free = @ - size, !.ptr = @ + size]
    <2>1. o = [ret |-> x.ptr, brk |-> brk, zone |-> z]
      BY <1>3 DEF zone_malloc_no_align
    <2>2. o.ret = x.ptr /\ o.brk = brk /\ o.zone = z
      BY <2>1
    <2>3. /\ z.ptr = x.ptr + size /\ z.free = x.free - size /\ z.chunks = x.chunks
          /\ z.finalizers = x.finalizers /\ z.room = x.room
          /\ DOMAIN z = {"ptr", "free", "room", "finalizers", "chunks"}
      BY <1>1 DEF ZoneShape
    <2> HIDE DEF z
    <2>4. x.ptr \in Nat /\ x.free \in Nat /\ x.ptr >= 1
      BY PtrIsSome
    <2>5. ZoneShape(z)
      BY <1>1, <1>3, <2>3, <2>4 DEF ZoneShape
    <2>6. z.free = x.ptr + x.free - (x.ptr + size) /\ x.ptr + size <= x.ptr + x.free
      BY <1>3, <2>3, <2>4
    <2>7. Blocks(z, y, brk, given \cup {[block |-> Block(x.ptr, size), aligned |-> f]})
      BY <1>0, <2>3, <2>4, <2>5, <2>6, TakenFromLeftOver
    <2>8. Handed(o, x, y, brk, given, size, f)
      BY <2>2, <2>3, <2>4, <2>7 DEF Handed
    <2> QED BY <2>8 DEF f
  <1> QED BY <1>2, <1>3

LEMMA MallocHands ==
  ASSUME NEW x, NEW y, NEW brk, NEW given, Blocks(x, y, brk, given),
         NEW size \in Nat, size >= 1, NEW o \in zone_malloc(x, size, brk)
  PROVE  Handed(o, x, y, brk, given, size, TRUE)
  <1> DEFINE t == TRUE
             lo == Up(x.ptr)
             adjusted == size + (lo - x.ptr)
  <1>0. t \in BOOLEAN /\ t
    OBVIOUS
  <1> HIDE DEF t
  <1>1. ZoneShape(x) /\ x.ptr \in Nat /\ x.free \in Nat /\ x.ptr >= 1
    BY PtrIsSome DEF Blocks
  <1>2. lo \in Nat /\ lo % Align = 0 /\ x.ptr <= lo
    BY <1>1, UpIs
  <1>3. CASE x.free >= adjusted
    <2> DEFINE z == [x EXCEPT !.free = @ - adjusted, !.ptr = @ + adjusted]
    <2>1. o = [ret |-> lo, brk |-> brk, zone |-> z]
      BY <1>3 DEF zone_malloc
    <2>2. o.ret = lo /\ o.brk = brk /\ o.zone = z
      BY <2>1
    <2>3. /\ z.ptr = x.ptr + adjusted /\ z.free = x.free - adjusted /\ z.chunks = x.chunks
          /\ z.finalizers = x.finalizers /\ z.room = x.room
          /\ DOMAIN z = {"ptr", "free", "room", "finalizers", "chunks"}
      BY <1>1 DEF ZoneShape
    <2> HIDE DEF z, lo
    <2>4. /\ z.ptr = lo + size /\ z.free = x.ptr + x.free - (lo + size)
          /\ lo + size <= x.ptr + x.free /\ z.free \in Nat /\ z.ptr \in Nat
      BY <1>1, <1>2, <1>3, <2>3
    <2>5. ZoneShape(z)
      BY <1>1, <2>3, <2>4 DEF ZoneShape
    <2>7. Blocks(z, y, brk, given \cup {[block |-> Block(lo, size), aligned |-> t]})
      BY <1>0, <1>2, <2>3, <2>4, <2>5, TakenFromLeftOver
    <2>8. lo # 0
      BY <1>1, <1>2
    <2>9. Handed(o, x, y, brk, given, size, t)
      BY <2>2, <2>3, <2>7, <2>8 DEF Handed
    <2> QED BY <2>9 DEF t
  <1>4. CASE ~(x.free >= adjusted)
    <2>1. PICK e \in malloc_expand(x, size + Align - 1, brk) : o = [e EXCEPT !.ret = Down(@)]
      BY <1>4 DEF zone_malloc
    <2>2. size + Align - 1 \in Nat /\ size + Align - 1 >= size
      BY ZoneAssumption
    <2> DEFINE asked == size + Align - 1
    <2>3. asked \in Nat /\ asked >= size /\ e \in malloc_expand(x, asked, brk)
      BY <2>1, <2>2
    <2> HIDE DEF asked, lo, adjusted
    <2>4. Handed(e, x, y, brk, given, size, t) /\ Reply(e)
      BY <1>0, <2>3, ExpandHands
    <2>5. Down(e.ret) = e.ret
      BY <2>4, DownIs DEF Reply
    <2>6. DOMAIN e = {"ret", "zone", "brk"}
      BY <2>4 DEF Reply
    <2>7. o.ret = e.ret /\ o.zone = e.zone /\ o.brk = e.brk
      BY <2>1, <2>5, <2>6
    <2>8. Handed(o, x, y, brk, given, size, t)
      BY <2>4, <2>7 DEF Handed
    <2> QED BY <2>8 DEF t
  <1> QED BY <1>3, <1>4

-------------------------------------------------------------------------------
(* Calls in the order they were made.                                          *)
InTurn(f) == \A i, j \in 1 .. Len(f) : i < j => f[i] < f[j]

In(f, e) == \E i \in 1 .. Len(f) : f[i] = e

(* The finalizers of both zones are those of the calls before n in pushed, in  *)
(* the order of the calls, each in one zone.                                   *)
Numbered(x, y, n, pushed) ==
  /\ \A i \in 1 .. Len(x.finalizers) : x.finalizers[i] < n /\ x.finalizers[i] \in pushed
  /\ \A i \in 1 .. Len(y.finalizers) : y.finalizers[i] < n /\ y.finalizers[i] \in pushed
  /\ InTurn(x.finalizers) /\ InTurn(y.finalizers)
  /\ \A i \in 1 .. Len(x.finalizers), j \in 1 .. Len(y.finalizers) :
       x.finalizers[i] # y.finalizers[j]
  /\ \A e \in pushed : In(x.finalizers, e) \/ In(y.finalizers, e)

LEMMA NumberedEitherWay ==
  ASSUME NEW x, NEW y, NEW n, NEW pushed, Numbered(x, y, n, pushed)
  PROVE  Numbered(y, x, n, pushed)
  BY DEF Numbered

LEMMA NumberedLater ==
  ASSUME NEW x, NEW y, NEW n \in Int, NEW pushed, Numbered(x, y, n, pushed), ZoneShape(x),
         ZoneShape(y)
  PROVE  Numbered(x, y, n + 1, pushed)
  <1>1. \A i \in 1 .. Len(x.finalizers) : x.finalizers[i] \in Int
    BY DEF ZoneShape
  <1>2. \A i \in 1 .. Len(y.finalizers) : y.finalizers[i] \in Int
    BY DEF ZoneShape
  <1> QED BY <1>1, <1>2 DEF Numbered

LEMMA PushKeeps ==
  ASSUME NEW x, NEW y, NEW brk, NEW given, NEW n \in Int, NEW pushed, Blocks(x, y, brk, given),
         Numbered(x, y, n, pushed), NEW o \in push_finalizer(x, n)
  PROVE  /\ Blocks(o.zone, y, brk, given)
         /\ Numbered(o.zone, y, n + 1, IF o.ret THEN pushed \cup {n} ELSE pushed)
  <1> DEFINE z == o.zone
             now == IF o.ret THEN pushed \cup {n} ELSE pushed
  <1>1. ZoneShape(x) /\ ZoneShape(y)
    BY DEF Blocks
  <1>2. CASE o.zone = x /\ o.ret = FALSE
    BY <1>1, <1>2, NumberedLater
  <1>3. CASE /\ z.finalizers = Append(x.finalizers, n) /\ z.room \in Nat
             /\ Len(x.finalizers) + 1 <= z.room
             /\ z.ptr = x.ptr /\ z.free = x.free /\ z.chunks = x.chunks
             /\ DOMAIN z = {"ptr", "free", "room", "finalizers", "chunks"}
             /\ o.ret = TRUE
    <2> DEFINE f == x.finalizers
               g == z.finalizers
               h == y.finalizers
               l == Len(f)
    <2>0. f \in Seq(Int) /\ h \in Seq(Int)
      BY <1>1 DEF ZoneShape
    <2>1. g \in Seq(Int) /\ Len(g) = l + 1 /\ g[l + 1] = n /\ \A i \in 1 .. l : g[i] = f[i]
      BY <1>3, <2>0
    <2>2. ZoneShape(z)
      BY <1>1, <1>3, <2>1 DEF ZoneShape
    <2>3. Blocks(z, y, brk, given)
      <3>1. \A e \in given : Given(e, z, y, brk)
        BY <1>3 DEF Blocks, Given
      <3>2. LeftOver(z, brk)
        BY <1>3 DEF Blocks, LeftOver
      <3> QED BY <1>3, <2>2, <3>1, <3>2 DEF Blocks
    <2>4. /\ \A i \in 1 .. l : f[i] \in Int /\ f[i] < n /\ f[i] \in pushed
          /\ \A i \in 1 .. Len(h) : h[i] \in Int /\ h[i] < n /\ h[i] \in pushed
          /\ \A i, j \in 1 .. l : i < j => f[i] < f[j]
          /\ InTurn(h)
          /\ \A i \in 1 .. l, j \in 1 .. Len(h) : f[i] # h[j]
          /\ \A e \in pushed : In(f, e) \/ In(h, e)
      BY <2>0 DEF Numbered, InTurn
    <2>5. l \in Nat /\ Len(h) \in Nat /\ now = pushed \cup {n}
      BY <1>3, <2>0
    <2>6. Numbered(z, y, n + 1, now)
      <3> HIDE DEF f, g, h, l, z, now
      <3>1. \A i \in 1 .. l + 1 : (i = l + 1 /\ g[i] = n) \/ (i \in 1 .. l /\ g[i] = f[i])
        <4>1. \A i \in 1 .. l + 1 : i = l + 1 \/ i \in 1 .. l
          BY <2>5
        <4>2. g[l + 1] = n /\ \A i \in 1 .. l : g[i] = f[i]
          BY <2>1
        <4> QED BY <4>1, <4>2
      <3>2. \A i \in 1 .. Len(g) : g[i] < n + 1 /\ g[i] \in now
        BY <2>1, <2>4, <2>5, <3>1
      <3>3. InTurn(g)
        <4> SUFFICES ASSUME NEW i \in 1 .. l + 1, NEW j \in 1 .. l + 1, i < j
                     PROVE  g[i] < g[j]
          BY <2>1 DEF InTurn
        <4>1. i \in 1 .. l /\ g[i] = f[i]
          BY <2>5, <3>1
        <4> QED BY <2>4, <3>1, <4>1
      <3>4. \A i \in 1 .. Len(g), j \in 1 .. Len(h) : g[i] # h[j]
        <4> SUFFICES ASSUME NEW i \in 1 .. l + 1, NEW j \in 1 .. Len(h)
                     PROVE  g[i] # h[j]
          BY <2>1
        <4>1. h[j] \in Int /\ h[j] < n
          BY <2>4
        <4> QED BY <2>4, <3>1, <4>1
      <3>5. \A i \in 1 .. Len(h) : h[i] < n + 1 /\ h[i] \in now
        BY <2>4, <2>5
      <3>6. \A e \in now : In(g, e) \/ In(h, e)
        <4> SUFFICES ASSUME NEW e \in now, ~In(h, e)
                     PROVE  In(g, e)
          OBVIOUS
        <4>1. CASE e = n
          <5>1. l + 1 \in 1 .. Len(g)
            BY <2>1, <2>5
          <5> QED BY <2>1, <4>1, <5>1 DEF In
        <4>2. CASE e \in pushed
          <5>1. PICK i \in 1 .. l : f[i] = e
            BY <2>4, <4>2 DEF In, l
          <5>2. i \in 1 .. Len(g) /\ g[i] = e
            BY <2>1, <2>5, <5>1
          <5> QED BY <5>2 DEF In
        <4> QED BY <2>5, <4>1, <4>2
      <3> QED BY <2>4, <3>2, <3>3, <3>4, <3>5, <3>6 DEF Numbered, f, g, h, z
    <2> QED BY <2>3, <2>6
  <1>4. \/ o.zone = x /\ o.ret = FALSE
        \/ /\ z.finalizers = Append(x.finalizers, n) /\ z.room \in Nat
           /\ Len(x.finalizers) + 1 <= z.room
           /\ z.ptr = x.ptr /\ z.free = x.free /\ z.chunks = x.chunks
           /\ DOMAIN z = {"ptr", "free", "room", "finalizers", "chunks"}
           /\ o.ret = TRUE
    <2>1. CASE Len(x.finalizers) = x.room
      <3> DEFINE e == [x EXCEPT !.finalizers = Append(@, n), !.room = IF @ = 0 THEN FirstFinalizers ELSE @ * 2]
      <3>1. o \in {[ret |-> FALSE, zone |-> x], [ret |-> TRUE, zone |-> e]}
        BY <2>1 DEF push_finalizer, push_finalizer_expand
      <3>2. (o.zone = x /\ o.ret = FALSE) \/ (o.zone = e /\ o.ret = TRUE)
        BY <3>1
      <3>3. /\ e.finalizers = Append(x.finalizers, n)
            /\ e.room = IF x.room = 0 THEN FirstFinalizers ELSE x.room * 2
            /\ e.ptr = x.ptr /\ e.free = x.free /\ e.chunks = x.chunks
            /\ DOMAIN e = {"ptr", "free", "room", "finalizers", "chunks"}
        BY <1>1 DEF ZoneShape
      <3> HIDE DEF e
      <3>4. x.room \in Nat /\ Len(x.finalizers) \in Nat /\ FirstFinalizers \in Nat \ {0}
        BY <1>1, ZoneAssumption DEF ZoneShape
      <3> QED BY <2>1, <3>2, <3>3, <3>4
    <2>2. CASE Len(x.finalizers) # x.room
      <3> DEFINE e == [x EXCEPT !.finalizers = Append(@, n)]
      <3>1. o = [ret |-> TRUE, zone |-> e]
        BY <2>2 DEF push_finalizer
      <3>2. o.zone = e /\ o.ret = TRUE
        BY <3>1
      <3>3. /\ e.finalizers = Append(x.finalizers, n) /\ e.room = x.room
            /\ e.ptr = x.ptr /\ e.free = x.free /\ e.chunks = x.chunks
            /\ DOMAIN e = {"ptr", "free", "room", "finalizers", "chunks"}
        BY <1>1 DEF ZoneShape
      <3> HIDE DEF e
      <3>4. x.room \in Nat /\ Len(x.finalizers) \in Nat /\ Len(x.finalizers) <= x.room
        BY <1>1 DEF ZoneShape
      <3> QED BY <2>2, <3>2, <3>3, <3>4
    <2> QED BY <2>1, <2>2
  <1> QED BY <1>2, <1>3, <1>4

-------------------------------------------------------------------------------
(* The two zones of a program, and what calls do to them.                      *)
Zones(s, n) ==
  /\ DOMAIN s = {"a", "b", "brk", "given", "pushed"}
  /\ Blocks(s.a, s.b, s.brk, s.given)
  /\ Numbered(s.a, s.b, n, s.pushed)

LEMMA ZonesStart == Zones(NewZones, 0)
  <1> DEFINE u == Up(ChunkHeader + ChunkSize)
             s == NewZones
             a == zone_new(0)
             b == zone_new(u)
  <1>1. s = [a |-> a, b |-> b, brk |-> 2 * u, given |-> {}, pushed |-> {}]
    BY DEF NewZones
  <1>2. ChunkHeader \in Nat \ {0} /\ ChunkSize \in Nat \ {0}
    BY ZoneAssumption
  <1>3. u \in Nat /\ u % Align = 0 /\ ChunkHeader + ChunkSize <= u
    BY <1>2, UpIs
  <1> HIDE DEF u
  <1>4. ASSUME NEW brk \in Nat
        PROVE  /\ ZoneShape(zone_new(brk))
               /\ LeftOver(zone_new(brk), brk + ChunkHeader + ChunkSize)
               /\ zone_new(brk).ptr = brk + ChunkHeader /\ zone_new(brk).free = ChunkSize
               /\ zone_new(brk).finalizers = << >>
    <2> DEFINE z == zone_new(brk)
               c == Block(brk + ChunkHeader, ChunkSize)
    <2>1. z = [ptr |-> brk + ChunkHeader, free |-> ChunkSize, room |-> 0, finalizers |-> << >>,
               chunks |-> {c}]
      BY DEF zone_new
    <2>2. c[1] = brk + ChunkHeader /\ c[2] = brk + ChunkHeader + ChunkSize - 1
      BY DEF Block
    <2> HIDE DEF c
    <2>3. /\ z.ptr = brk + ChunkHeader /\ z.free = ChunkSize /\ z.room = 0
          /\ z.finalizers = << >> /\ z.chunks = {c}
          /\ DOMAIN z = {"ptr", "free", "room", "finalizers", "chunks"}
      BY <2>1
    <2> HIDE DEF z
    <2>4. ZoneShape(z)
      BY <1>2, <2>2, <2>3 DEF ZoneShape
    <2>5. LeftOver(z, brk + ChunkHeader + ChunkSize)
      BY <1>2, <2>2, <2>3 DEF LeftOver
    <2> QED BY <2>3, <2>4, <2>5 DEF z
  <1>5. /\ ZoneShape(a) /\ LeftOver(a, 0 + ChunkHeader + ChunkSize)
        /\ a.ptr = 0 + ChunkHeader /\ a.free = ChunkSize /\ a.finalizers = << >>
    BY <1>4
  <1>6. /\ ZoneShape(b) /\ LeftOver(b, u + ChunkHeader + ChunkSize)
        /\ b.ptr = u + ChunkHeader /\ b.free = ChunkSize /\ b.finalizers = << >>
    BY <1>3, <1>4
  <1>7. 2 * u \in Nat /\ (2 * u) % Align = 0
    <2>1. (u + u) % Align = 0
      BY <1>3, AlignedSum
    <2>2. 2 * u = u + u
      BY <1>3
    <2> QED BY <1>3, <2>1, <2>2
  <1> HIDE DEF a, b
  <1>8. Blocks(a, b, 2 * u, {})
    <2>1. LeftOver(a, 2 * u) /\ LeftOver(b, 2 * u)
      BY <1>2, <1>3, <1>5, <1>6 DEF LeftOver
    <2>2. a.ptr + a.free <= b.ptr
      BY <1>2, <1>3, <1>5, <1>6
    <2> QED BY <1>5, <1>6, <1>7, <2>1, <2>2 DEF Blocks
  <1>9. Numbered(a, b, 0, {})
    BY <1>5, <1>6 DEF Numbered, InTurn
  <1>10. Zones([a |-> a, b |-> b, brk |-> 2 * u, given |-> {}, pushed |-> {}], 0)
    BY <1>8, <1>9 DEF Zones
  <1> QED BY <1>1, <1>10

LEMMA ZonesMalloc ==
  ASSUME NEW s, NEW n \in Int, Zones(s, n), NEW z \in {"a", "b"}, NEW size \in Nat \ {0},
         NEW aligned \in BOOLEAN,
         NEW o \in IF aligned THEN zone_malloc(s[z], size, s.brk)
                   ELSE zone_malloc_no_align(s[z], size, s.brk)
  PROVE  Zones([s EXCEPT ![z] = o.zone, !.brk = o.brk,
                         !.given = IF o.ret = 0 THEN @
                                   ELSE @ \cup {[block |-> Block(o.ret, size), aligned |-> aligned]}],
               n + 1)
  <1> DEFINE y == s[IF z = "a" THEN "b" ELSE "a"]
             given == IF o.ret = 0 THEN s.given
                      ELSE s.given \cup {[block |-> Block(o.ret, size), aligned |-> aligned]}
             t == [s EXCEPT ![z] = o.zone, !.brk = o.brk,
                            !.given = IF o.ret = 0 THEN @
                                      ELSE @ \cup {[block |-> Block(o.ret, size),
                                                    aligned |-> aligned]}]
  <1>0. size \in Nat /\ size >= 1
    OBVIOUS
  <1>1. Blocks(s[z], y, s.brk, s.given) /\ Numbered(s[z], y, n, s.pushed)
    BY BlocksEitherWay, NumberedEitherWay DEF Zones
  <1>2. Handed(o, s[z], y, s.brk, s.given, size, aligned)
    <2> HIDE DEF y
    <2> DEFINE x == s[z]
    <2>1. CASE aligned
      <3>1. o \in zone_malloc(x, size, s.brk)
        BY <2>1
      <3> HIDE DEF x
      <3>2. Handed(o, x, y, s.brk, s.given, size, TRUE)
        BY <1>0, <1>1, <3>1, MallocHands DEF x
      <3>3. aligned = TRUE
        BY <2>1
      <3> QED BY <3>2, <3>3, Zenon DEF x
    <2>2. CASE ~aligned
      <3>1. o \in zone_malloc_no_align(x, size, s.brk)
        BY <2>2
      <3> HIDE DEF x
      <3>2. Handed(o, x, y, s.brk, s.given, size, FALSE)
        BY <1>0, <1>1, <3>1, MallocNoAlignHands DEF x
      <3>3. aligned = FALSE
        BY <2>2
      <3> QED BY <3>2, <3>3, Zenon DEF x
    <2> QED BY <2>1, <2>2
  <1>3. /\ t[z] = o.zone /\ t[IF z = "a" THEN "b" ELSE "a"] = y /\ t.brk = o.brk
        /\ t.given = given /\ t.pushed = s.pushed
        /\ DOMAIN t = {"a", "b", "brk", "given", "pushed"}
    BY DEF Zones
  <1>4. Blocks(o.zone, y, o.brk, given) /\ o.zone.finalizers = s[z].finalizers
    BY <1>2 DEF Handed
  <1>5. Numbered(o.zone, y, n + 1, s.pushed)
    <2>1. Numbered(o.zone, y, n, s.pushed)
      BY <1>1, <1>4 DEF Numbered
    <2>2. ZoneShape(o.zone) /\ ZoneShape(y)
      BY <1>4 DEF Blocks
    <2> QED BY <2>1, <2>2, NumberedLater
  <1> HIDE DEF t, given
  <1>6. Blocks(t.a, t.b, t.brk, t.given) /\ Numbered(t.a, t.b, n + 1, t.pushed)
    BY <1>3, <1>4, <1>5, BlocksEitherWay, NumberedEitherWay
  <1>7. Zones(t, n + 1)
    BY <1>3, <1>6 DEF Zones
  <1> QED BY <1>7 DEF t

LEMMA ZonesPush ==
  ASSUME NEW s, NEW n \in Int, Zones(s, n), NEW z \in {"a", "b"},
         NEW o \in push_finalizer(s[z], n)
  PROVE  Zones([s EXCEPT ![z] = o.zone, !.pushed = IF o.ret THEN @ \cup {n} ELSE @], n + 1)
  <1> DEFINE y == s[IF z = "a" THEN "b" ELSE "a"]
             now == IF o.ret THEN s.pushed \cup {n} ELSE s.pushed
             t == [s EXCEPT ![z] = o.zone, !.pushed = IF o.ret THEN @ \cup {n} ELSE @]
  <1>1. Blocks(s[z], y, s.brk, s.given) /\ Numbered(s[z], y, n, s.pushed)
    BY BlocksEitherWay, NumberedEitherWay DEF Zones
  <1>2. Blocks(o.zone, y, s.brk, s.given) /\ Numbered(o.zone, y, n + 1, now)
    BY <1>1, PushKeeps
  <1>3. /\ t[z] = o.zone /\ t[IF z = "a" THEN "b" ELSE "a"] = y /\ t.brk = s.brk
        /\ t.given = s.given /\ t.pushed = now
        /\ DOMAIN t = {"a", "b", "brk", "given", "pushed"}
    BY DEF Zones
  <1> HIDE DEF t, now
  <1>4. Blocks(t.a, t.b, t.brk, t.given) /\ Numbered(t.a, t.b, n + 1, t.pushed)
    BY <1>2, <1>3, BlocksEitherWay, NumberedEitherWay
  <1>5. Zones(t, n + 1)
    BY <1>3, <1>4 DEF Zones
  <1> QED BY <1>5 DEF t

LEMMA ZonesSwap ==
  ASSUME NEW s, NEW n \in Int, Zones(s, n)
  PROVE  Zones([s EXCEPT !.a = s.b, !.b = s.a], n + 1)
  <1> DEFINE t == [s EXCEPT !.a = s.b, !.b = s.a]
  <1>1. /\ t.a = s.b /\ t.b = s.a /\ t.brk = s.brk /\ t.given = s.given
        /\ t.pushed = s.pushed /\ DOMAIN t = {"a", "b", "brk", "given", "pushed"}
    BY DEF Zones
  <1>2. ZoneShape(s.a) /\ ZoneShape(s.b)
    BY DEF Zones, Blocks
  <1>3. Blocks(s.b, s.a, s.brk, s.given) /\ Numbered(s.b, s.a, n + 1, s.pushed)
    BY <1>2, BlocksEitherWay, NumberedEitherWay, NumberedLater DEF Zones
  <1> HIDE DEF t
  <1>4. Zones(t, n + 1)
    BY <1>1, <1>3 DEF Zones
  <1> QED BY <1>4 DEF t

LEMMA ZonesAreApart ==
  ASSUME NEW s, NEW n \in Int, Zones(s, n)
  PROVE  /\ \A g, h \in s.given : g.block[2] < h.block[1] \/ h.block[2] < g.block[1] \/ g = h
         /\ \A g \in s.given :
              /\ \E c \in s.a.chunks \cup s.b.chunks :
                   c[1] <= g.block[1] /\ g.block[2] <= c[2]
              /\ g.aligned => g.block[1] % Align = 0
         /\ Range(s.a.finalizers) \cup Range(s.b.finalizers) = s.pushed
         /\ Range(s.a.finalizers) \cap Range(s.b.finalizers) = {}
         /\ Rising(s.a.finalizers) /\ Rising(s.b.finalizers)
         /\ Len(s.a.finalizers) <= s.a.room /\ Len(s.b.finalizers) <= s.b.room
  <1> DEFINE f == s.a.finalizers
             h == s.b.finalizers
  <1>1. Blocks(s.a, s.b, s.brk, s.given) /\ Numbered(s.a, s.b, n, s.pushed)
    BY DEF Zones
  <1>2. ZoneShape(s.a) /\ ZoneShape(s.b)
    BY <1>1 DEF Blocks
  <1>3. f \in Seq(Int) /\ h \in Seq(Int)
    BY <1>2 DEF ZoneShape
  <1>4. ASSUME NEW q \in Seq(Int)
        PROVE  /\ \A e : e \in Range(q) <=> In(q, e)
               /\ InTurn(q) => Rising(q)
    <2>1. DOMAIN q = 1 .. Len(q)
      OBVIOUS
    <2> QED BY <2>1, Zenon DEF Range, In, InTurn, Rising
  <1>5. Range(f) \cup Range(h) = s.pushed
    <2>1. ASSUME NEW e, In(f, e) \/ In(h, e)
          PROVE  e \in s.pushed
      BY <1>1, <2>1 DEF Numbered, In
    <2>2. ASSUME NEW e \in s.pushed
          PROVE  In(f, e) \/ In(h, e)
      BY <1>1 DEF Numbered
    <2> HIDE DEF f, h
    <2> QED BY <1>3, <1>4, <2>1, <2>2
  <1>6. /\ Range(f) \cap Range(h) = {}
        /\ Rising(f) /\ Rising(h)
    <2>1. ASSUME NEW e, In(f, e), In(h, e)
          PROVE  FALSE
      BY <1>1, <2>1 DEF Numbered, In
    <2>2. InTurn(f) /\ InTurn(h)
      BY <1>1 DEF Numbered
    <2> HIDE DEF f, h
    <2> QED BY <1>3, <1>4, <2>1, <2>2
  <1>7. ASSUME NEW g \in s.given
        PROVE  /\ \E c \in s.a.chunks \cup s.b.chunks :
                    c[1] <= g.block[1] /\ g.block[2] <= c[2]
               /\ g.aligned => g.block[1] % Align = 0
    <2>1. Given(g, s.a, s.b, s.brk)
      BY <1>1 DEF Blocks
    <2> QED BY <2>1 DEF Given
  <1>8. ASSUME NEW g \in s.given, NEW e \in s.given
        PROVE  g.block[2] < e.block[1] \/ e.block[2] < g.block[1] \/ g = e
    <2>1. Separate(g, e)
      BY <1>1 DEF Blocks
    <2> QED BY <2>1 DEF Separate
  <1> QED BY <1>2, <1>5, <1>6, <1>7, <1>8 DEF ZoneShape

-------------------------------------------------------------------------------
(* The macros that say how large the types of C are and what number format ARM *)
(* has stay as the compiler and the platform's headers have them: predef       *)
(* defines other names.                                                        *)
Told(p, m) == TellsTrue(p, m) /\ (p.fpa => "__arm__" \in DOMAIN m)

Facts == {"__arm__", "__ARM_EABI__", "TARGET_OS_IPHONE", "SIZEOF_SHORT", "SIZEOF_INT",
  "SIZEOF_LONG", "SIZEOF_LONG_LONG", "SHRT_MAX", "INT_MAX", "LONG_MAX", "LLONG_MAX",
  "USHRT_MAX", "UINT_MAX", "ULONG_MAX", "ULLONG_MAX"}

SameFacts(m, k) == \A name \in Facts : /\ name \in DOMAIN k <=> name \in DOMAIN m
                                       /\ name \in DOMAIN m => k[name] = m[name]

LEMMA SizeMacrosAreFacts ==
  ASSUME NEW type \in {"short", "int", "long", "long_long"}
  PROVE  SizeMacros(type) \subseteq Facts
  BY DEF SizeMacros, Facts

LEMMA SameFactsTold ==
  ASSUME NEW p, DOMAIN p.sizeof = {"short", "int", "long", "long_long"}, NEW m, NEW k,
         SameFacts(m, k), Told(p, m)
  PROVE  Told(p, k)
  <1>1. ASSUME NEW type \in DOMAIN p.sizeof, NEW name \in SizeMacros(type) \cap DOMAIN k
        PROVE  k[name] = p.sizeof[type]
    <2>1. name \in Facts
      BY SizeMacrosAreFacts
    <2> QED BY <2>1 DEF SameFacts, Told, TellsTrue
  <1>2. "__arm__" \in Facts /\ "__ARM_EABI__" \in Facts /\ "TARGET_OS_IPHONE" \in Facts
    BY DEF Facts
  <1>3. p.fpa => "__arm__" \in DOMAIN k /\ {"__ARM_EABI__", "TARGET_OS_IPHONE"} \cap DOMAIN k = {}
    BY <1>2 DEF SameFacts, Told, TellsTrue
  <1> QED BY <1>1, <1>3 DEF Told, TellsTrue

LEMMA DefineSame ==
  ASSUME NEW m, NEW X, X \notin Facts, NEW v
  PROVE  SameFacts(m, Define(m, X, v)) /\ SameFacts(m, Undefine(m, X))
  BY DEF SameFacts, Define, Undefine

LEMMA SameThrough ==
  ASSUME NEW m, NEW k, NEW l, SameFacts(m, k), SameFacts(k, l)
  PROVE  SameFacts(m, l)
  BY DEF SameFacts

LEMMA HeaderTold ==
  ASSUME NEW p, NEW h, NEW m, TellsTrue(p, h), Told(p, m)
  PROVE  Told(p, DefineAll(m, h))
  BY DEF TellsTrue, Told, DefineAll

LEMMA OtherNames ==
  /\ "ARCH_ALPHA" \notin Facts /\ "ARCH_ARM" \notin Facts
  /\ "ARCH_BLACKFIN" \notin Facts /\ "ARCH_CONVEX" \notin Facts
  /\ "ARCH_IA64" \notin Facts /\ "ARCH_M68K" \notin Facts /\ "ARCH_MIPS" \notin Facts
  /\ "ARCH_PARISC" \notin Facts /\ "ARCH_PPC" \notin Facts
  /\ "ARCH_PYRAMID" \notin Facts /\ "ARCH_RS6000" \notin Facts
  /\ "ARCH_SH" \notin Facts /\ "ARCH_SPARC" \notin Facts /\ "ARCH_SYS370" \notin Facts
  /\ "ARCH_SYS390" \notin Facts /\ "ARCH_X86" \notin Facts
  /\ "ARCH_X86_32" \notin Facts /\ "ARCH_X86_64" \notin Facts /\ "ARCH_Z" \notin Facts
  /\ "ENDIAN_BIG_BYTE" \notin Facts /\ "ENDIAN_LITTLE_BYTE" \notin Facts
  /\ "ENDIAN_LITTLE_WORD" \notin Facts /\ "LIB_C_GNU" \notin Facts
  /\ "OS_AIX" \notin Facts /\ "OS_AMIGAOS" \notin Facts /\ "OS_ANDROID" \notin Facts
  /\ "OS_BEOS" \notin Facts /\ "OS_BSD" \notin Facts /\ "OS_BSD_AVAILABLE" \notin Facts
  /\ "OS_BSD_BSDI" \notin Facts /\ "OS_BSD_DRAGONFLY" \notin Facts
  /\ "OS_BSD_FREE" \notin Facts /\ "OS_BSD_NET" \notin Facts
  /\ "OS_BSD_OPEN" \notin Facts /\ "OS_CGYWIN" \notin Facts /\ "OS_CYGWIN" \notin Facts
  /\ "OS_DETECTED" \notin Facts /\ "OS_DRAGONFLY_BSD" \notin Facts
  /\ "OS_HAIKU" \notin Facts /\ "OS_HPUX" \notin Facts /\ "OS_IOS" \notin Facts
  /\ "OS_IRIX" \notin Facts /\ "OS_LINUX" \notin Facts /\ "OS_MACOS" \notin Facts
  /\ "OS_OS400" \notin Facts /\ "OS_QNX" \notin Facts /\ "OS_SOLARIS" \notin Facts
  /\ "OS_SVR4" \notin Facts /\ "OS_UNIX" \notin Facts /\ "OS_VMS" \notin Facts
  /\ "OS_WINDOWS" \notin Facts
  BY DEF Facts

LEMMA FindsSame ==
  ASSUME NEW m, NEW X, X \notin Facts, NEW names, NEW chain
  PROVE  SameFacts(m, Finds(m, X, names, chain))
  BY DefineSame DEF Finds

LEMMA ExcludeSame ==
  ASSUME NEW m, NEW X
  PROVE  SameFacts(m, Exclude(m, X))
  <1>1. SameFacts(m, m)
    BY DEF SameFacts
  <1> QED BY <1>1, DefineSame, OtherNames DEF Exclude

LEMMA FindsOsSame ==
  ASSUME NEW m, NEW X, X \notin Facts, NEW names, NEW chain
  PROVE  SameFacts(m, FindsOs(m, X, names, chain))
  BY FindsSame, ExcludeSame, DefineSame, SameThrough, Zenon DEF FindsOs

LEMMA BsdAvailableSame ==
  ASSUME NEW m
  PROVE  SameFacts(m, BsdAvailable(m))
  <1>1. SameFacts(m, m)
    BY DEF SameFacts
  <1> QED BY <1>1, DefineSame, SameThrough, OtherNames, Zenon DEF BsdAvailable

LEMMA FindsBsdSame ==
  ASSUME NEW m, NEW X, X \notin Facts, NEW names, NEW chain
  PROVE  SameFacts(m, FindsBsd(m, X, names, chain))
  BY BsdAvailableSame, ExcludeSame, DefineSame, SameThrough, Zenon DEF FindsBsd

LEMMA DefineIfSame ==
  ASSUME NEW m, NEW condition, NEW X, X \notin Facts
  PROVE  SameFacts(m, DefineIf(m, condition, X))
  <1>1. SameFacts(m, m)
    BY DEF SameFacts
  <1> QED BY <1>1, DefineSame DEF DefineIf

LEMMA ArchitecturesSame ==
  ASSUME NEW m
  PROVE  /\ SameFacts(m, arch_alpha(m))
         /\ SameFacts(m, arch_arm(m))
         /\ SameFacts(m, arch_blackfin(m))
         /\ SameFacts(m, arch_convex(m))
         /\ SameFacts(m, arch_ia64(m))
         /\ SameFacts(m, arch_m68k(m))
         /\ SameFacts(m, arch_mips(m))
         /\ SameFacts(m, arch_parisc(m))
         /\ SameFacts(m, arch_ppc(m))
         /\ SameFacts(m, arch_pyramid(m))
         /\ SameFacts(m, arch_rs6k(m))
         /\ SameFacts(m, arch_sparc(m))
         /\ SameFacts(m, arch_superh(m))
         /\ SameFacts(m, arch_sys370(m))
         /\ SameFacts(m, arch_sys390(m))
         /\ SameFacts(m, arch_x86_32(m))
         /\ SameFacts(m, arch_x86_64(m))
         /\ SameFacts(m, arch_z(m))
         /\ SameFacts(m, library_gnu(m))
  BY FindsSame, OtherNames
     DEF arch_alpha, arch_arm, arch_blackfin, arch_convex, arch_ia64, arch_m68k,
         arch_mips, arch_parisc, arch_ppc, arch_pyramid, arch_rs6k, arch_sparc,
         arch_superh, arch_sys370, arch_sys390, arch_x86_32, arch_x86_64, arch_z,
         library_gnu

LEMMA SystemsSame ==
  ASSUME NEW m
  PROVE  /\ SameFacts(m, os_aix(m))
         /\ SameFacts(m, os_amigaos(m))
         /\ SameFacts(m, os_android(m))
         /\ SameFacts(m, os_beos(m))
         /\ SameFacts(m, os_haiku(m))
         /\ SameFacts(m, os_hpux(m))
         /\ SameFacts(m, os_irix(m))
         /\ SameFacts(m, os_linux(m))
         /\ SameFacts(m, os_os400(m))
         /\ SameFacts(m, os_qnxnto(m))
         /\ SameFacts(m, os_solaris(m))
         /\ SameFacts(m, os_vms(m))
         /\ SameFacts(m, os_windows(m))
  BY FindsOsSame, OtherNames
     DEF os_aix, os_amigaos, os_android, os_beos, os_haiku, os_hpux, os_irix, os_linux,
         os_os400, os_qnxnto, os_solaris, os_vms, os_windows

LEMMA BsdsSame ==
  ASSUME NEW m
  PROVE  /\ SameFacts(m, bsd_bsdi(m))
         /\ SameFacts(m, bsd_free(m))
         /\ SameFacts(m, bsd_net(m))
         /\ SameFacts(m, bsd_open(m))
  BY FindsBsdSame, OtherNames
     DEF bsd_bsdi, bsd_free, bsd_net, bsd_open

LEMMA OthersSame ==
  ASSUME NEW m
  PROVE  /\ SameFacts(m, arch_x86(m))
         /\ SameFacts(m, os_cygwin(m))
         /\ SameFacts(m, os_ios(m))
         /\ SameFacts(m, os_macos(m))
         /\ SameFacts(m, os_unix(m))
         /\ SameFacts(m, bsd_dragonfly(m))
  <1>1. SameFacts(m, arch_x86(m))
    BY DefineSame, OtherNames DEF arch_x86
  <1>2. SameFacts(m, os_cygwin(m))
    BY DefineSame, SameThrough, OtherNames, Zenon DEF os_cygwin
  <1>3. SameFacts(m, os_ios(m))
    <2>1. \A v : SameFacts(m, Define(m, "OS_IOS", v))
      BY DefineSame, OtherNames
    <2>2. \A v : SameFacts(m, Exclude(Define(m, "OS_IOS", v), "OS_IOS"))
      BY <2>1, ExcludeSame, SameThrough, Zenon
    <2> QED BY <2>1, <2>2 DEF os_ios
  <1>4. SameFacts(m, os_macos(m))
    BY DefineSame, ExcludeSame, SameThrough, OtherNames, Zenon DEF os_macos
  <1>5. SameFacts(m, os_unix(m))
    BY FindsSame, SameThrough, OtherNames, Zenon DEF os_unix
  <1>6. SameFacts(m, bsd_dragonfly(m))
    BY BsdAvailableSame, DefineSame, SameThrough, OtherNames, Zenon DEF bsd_dragonfly
  <1> QED BY <1>1, <1>2, <1>3, <1>4, <1>5, <1>6

LEMMA EndianSame ==
  ASSUME NEW m
  PROVE  /\ SameFacts(m, endian_big(m)) /\ SameFacts(m, endian_little(endian_big(m)))
         /\ SameFacts(m, endian_architecture(m))
         /\ SameFacts(m, endian_windows(m))
         /\ \A prefix : SameFacts(m, ByNumbers(m, prefix))
  <1>1. ASSUME NEW k
        PROVE  SameFacts(k, endian_big(k)) /\ SameFacts(k, endian_little(k))
    BY DefineIfSame, OtherNames, Zenon DEF endian_big, endian_little
  <1>2. SameFacts(m, endian_little(endian_big(m)))
    BY <1>1, SameThrough, Zenon
  <1>3. SameFacts(m, endian_architecture(m))
    BY DefineIfSame, SameThrough, OtherNames, Zenon DEF endian_architecture
  <1>4. SameFacts(m, endian_windows(m))
    BY DefineIfSame, OtherNames, Zenon DEF endian_windows
  <1>5. ASSUME NEW prefix
        PROVE  SameFacts(m, ByNumbers(m, prefix))
    BY DefineIfSame, SameThrough, OtherNames, Zenon DEF ByNumbers
  <1> QED BY <1>1, <1>2, <1>3, <1>4, <1>5

(* The platform is one of those that the program may be on.                    *)
Honest(p) == /\ DOMAIN p.sizeof = {"short", "int", "long", "long_long"}
             /\ \A type \in DOMAIN p.sizeof : p.sizeof[type] \in {2, 4, 8}
             /\ \A h \in {"sys/param.h", "endian.h", "machine/endian.h", "sys/endian.h"} :
                  TellsTrue(p, p.headers[h])

LEMMA PlatformsAreHonest ==
  ASSUME NEW p \in Platforms
  PROVE  Honest(p) /\ Told(p, p.macros)
  <1>1. p.sizeof \in [{"short", "int", "long", "long_long"} -> {2, 4, 8}]
    BY PlatformsAssumption
  <1>2. {"sys/param.h", "endian.h", "machine/endian.h", "sys/endian.h"} \subseteq DOMAIN p.headers
    BY PlatformsAssumption
  <1>3. \A m \in Sources(p) : TellsTrue(p, m)
    BY PlatformsAssumption
  <1>4. p.fpa => "__arm__" \in DOMAIN p.macros
    BY PlatformsAssumption
  <1>5. TellsTrue(p, p.macros)
    BY <1>3 DEF Sources
  <1>6. \A h \in DOMAIN p.headers : TellsTrue(p, p.headers[h])
    BY <1>3 DEF Sources
  <1> QED BY <1>1, <1>2, <1>4, <1>5, <1>6 DEF Honest, Told

LEMMA SameTold ==
  ASSUME NEW p, Honest(p), NEW m, NEW k, SameFacts(m, k), Told(p, m)
  PROVE  Told(p, k)
  BY SameFactsTold DEF Honest

LEMMA BsdTold ==
  ASSUME Honest(platform), NEW m, Told(platform, m)
  PROVE  Told(platform, os_bsd(m))
  <1> DEFINE before == IF Defined(m, "OS_BSD") THEN m ELSE Define(m, "OS_BSD", NOT_AVAILABLE)
             param == DefineAll(before, platform.headers["sys/param.h"])
  <1>1. Told(platform, before)
    <2>1. SameFacts(m, Define(m, "OS_BSD", NOT_AVAILABLE))
      BY DefineSame, OtherNames
    <2> QED BY <2>1, SameTold
  <1>2. Told(platform, param)
    <2>1. TellsTrue(platform, platform.headers["sys/param.h"])
      BY DEF Honest
    <2> HIDE DEF before
    <2> QED BY <1>1, <2>1, HeaderTold
  <1>3. \A v : Told(platform, Define(param, "OS_BSD", v))
    <2> HIDE DEF param
    <2>1. \A v : SameFacts(param, Define(param, "OS_BSD", v))
      BY DefineSame, OtherNames
    <2> QED BY <1>2, <2>1, SameTold
  <1>4. ASSUME NEW k, Told(platform, k)
        PROVE  Told(platform, Define(Define(k, "OS_BSD_AVAILABLE", 1), "OS_DETECTED", 1))
    <2>1. SameFacts(k, Define(Define(k, "OS_BSD_AVAILABLE", 1), "OS_DETECTED", 1))
      BY DefineSame, SameThrough, OtherNames, Zenon
    <2> QED BY <1>4, <2>1, SameTold
  <1> DEFINE v == Version(param, <<<<{"BSD4_4"}, V(4, 4)>>, <<{"BSD4_3"}, V(4, 3)>>,
                                   <<{"BSD4_2"}, V(4, 2)>>,
                                   <<{"BSD"}, MAKE_10_VVRR(Value(param, "BSD"))>>>>)
             found == Define(param, "OS_BSD", v)
             after == IF OsDetected(m) \/ ~AnyDefined(m, {"BSD", "_SYSTYPE_BSD"})
                      THEN before ELSE found
  <1>5. os_bsd(m) = IF Value(after, "OS_BSD") = 0 THEN after
                    ELSE Define(Define(after, "OS_BSD_AVAILABLE", 1), "OS_DETECTED", 1)
    BY Zenon DEF os_bsd
  <1> HIDE DEF v, param, before
  <1>6. Told(platform, after)
    BY <1>1, <1>3, Zenon
  <1> HIDE DEF after
  <1> QED BY <1>4, <1>5, <1>6, Zenon

LEMMA EndianTold ==
  ASSUME Honest(platform), NEW m, Told(platform, m)
  PROVE  Told(platform, endian_headers(m))
  <1> DEFINE header == EndianHeader(m)
             read == IF header = {} THEN m
                     ELSE DefineAll(m, platform.headers[CHOOSE h \in header : TRUE])
  <1>1. header \subseteq {"endian.h", "machine/endian.h", "sys/endian.h"}
    BY DEF EndianHeader
  <1>2. Told(platform, read)
    <2> HIDE DEF header
    <2>1. CASE header = {}
      BY <2>1
    <2>2. CASE header # {}
      <3>1. (CHOOSE h \in header : TRUE) \in {"endian.h", "machine/endian.h", "sys/endian.h"}
        BY <1>1, <2>2
      <3>2. TellsTrue(platform, platform.headers[CHOOSE h \in header : TRUE])
        BY <3>1 DEF Honest
      <3> QED BY <2>2, <3>2, HeaderTold
    <2> QED BY <2>1, <2>2
  <1>3. \A prefix : Told(platform, ByNumbers(read, prefix))
    <2> HIDE DEF read
    <2> QED BY <1>2, EndianSame, SameTold
  <1>4. endian_headers(m) = IF Defined(read, "__BYTE_ORDER") THEN ByNumbers(read, "__")
                            ELSE IF Defined(read, "_BYTE_ORDER") THEN ByNumbers(read, "_")
                            ELSE read
    BY Zenon DEF endian_headers
  <1> HIDE DEF read
  <1> QED BY <1>2, <1>3, <1>4, Zenon

LEMMA TestTold ==
  ASSUME Honest(platform), NEW m, Told(platform, m), NEW h
  PROVE  Told(platform, Test(h, m))
  <1>1. /\ SameFacts(m, arch_alpha(m))
        /\ SameFacts(m, arch_arm(m))
        /\ SameFacts(m, arch_blackfin(m))
        /\ SameFacts(m, arch_convex(m))
        /\ SameFacts(m, arch_ia64(m))
        /\ SameFacts(m, arch_m68k(m))
        /\ SameFacts(m, arch_mips(m))
        /\ SameFacts(m, arch_parisc(m))
        /\ SameFacts(m, arch_ppc(m))
        /\ SameFacts(m, arch_pyramid(m))
        /\ SameFacts(m, arch_rs6k(m))
        /\ SameFacts(m, arch_sparc(m))
        /\ SameFacts(m, arch_superh(m))
        /\ SameFacts(m, arch_sys370(m))
        /\ SameFacts(m, arch_sys390(m))
        /\ SameFacts(m, arch_x86_32(m))
        /\ SameFacts(m, arch_x86_64(m))
        /\ SameFacts(m, arch_x86(m))
        /\ SameFacts(m, arch_z(m))
        /\ SameFacts(m, library_gnu(m))
        /\ SameFacts(m, os_aix(m))
        /\ SameFacts(m, os_amigaos(m))
        /\ SameFacts(m, os_android(m))
        /\ SameFacts(m, os_beos(m))
        /\ SameFacts(m, bsd_bsdi(m))
        /\ SameFacts(m, bsd_dragonfly(m))
        /\ SameFacts(m, bsd_free(m))
        /\ SameFacts(m, bsd_net(m))
        /\ SameFacts(m, bsd_open(m))
        /\ SameFacts(m, os_cygwin(m))
        /\ SameFacts(m, os_haiku(m))
        /\ SameFacts(m, os_hpux(m))
        /\ SameFacts(m, os_ios(m))
        /\ SameFacts(m, os_irix(m))
        /\ SameFacts(m, os_linux(m))
        /\ SameFacts(m, os_macos(m))
        /\ SameFacts(m, os_os400(m))
        /\ SameFacts(m, os_qnxnto(m))
        /\ SameFacts(m, os_solaris(m))
        /\ SameFacts(m, os_unix(m))
        /\ SameFacts(m, os_vms(m))
        /\ SameFacts(m, os_windows(m))
        /\ SameFacts(m, endian_architecture(m))
        /\ SameFacts(m, endian_windows(m))
        /\ SameFacts(m, endian_little(endian_big(m))) /\ SameFacts(m, m)
    <2>1. SameFacts(m, m)
      BY DEF SameFacts
    <2> QED BY <2>1, ArchitecturesSame, SystemsSame, BsdsSame, OthersSame, EndianSame
  <1>2. Told(platform, os_bsd(m)) /\ Told(platform, endian_headers(m))
    BY BsdTold, EndianTold
  <1>3. h = "bsd" => Test(h, m) = os_bsd(m)
    BY DEF Test
  <1>4. h = "endian_headers" => Test(h, m) = endian_headers(m)
    BY DEF Test
  <1>5. h \notin {"bsd", "endian_headers"} => SameFacts(m, Test(h, m))
    BY <1>1 DEF Test
  <1> QED BY <1>2, <1>3, <1>4, <1>5, SameTold

(* What a program knows that was compiled on one of the platforms.             *)
Fit(b) ==
  /\ b.machine \in {"big", "little"} /\ Charted(b) /\ TrueSizes(b)
  /\ b.fpa => OldARM(b) /\ ~Defined(b.m, "TARGET_OS_IPHONE")

LEMMA BuildIsFit ==
  ASSUME NEW p \in Platforms, NEW m, Told(p, m)
  PROVE  Fit(BuildOf(p, m))
  <1> DEFINE b == BuildOf(p, m)
             k == Restrict(m, Consulted \cap DOMAIN m)
  <1>1. /\ b.machine = p.machine /\ b.sizeof = p.sizeof /\ b.char_signed = p.char_signed
        /\ b.fpa = p.fpa /\ b.m = k
    BY DEF BuildOf
  <1>2. \A name \in Consulted : /\ Defined(k, name) <=> name \in DOMAIN m
                                /\ Defined(k, name) => k[name] = m[name]
    BY DEF Restrict, Defined
  <1> HIDE DEF b, k
  <1>3. p.machine \in {"big", "little"} /\ p.char_signed \in BOOLEAN
    BY PlatformsAssumption
  <1>4. Honest(p)
    BY PlatformsAreHonest
  <1>5. ASSUME NEW type \in {"short", "int", "long", "long_long"}, NEW SIZEOF, NEW MAX,
               SIZEOF \in SizeMacros(type), MAX \in SizeMacros(type)
        PROVE  Truthful(b, SIZEOF, MAX, type)
    <2>1. SizeMacros(type) \subseteq Consulted
      BY DEF SizeMacros, Consulted
    <2>2. p.sizeof[type] \in {2, 4, 8}
      BY <1>4 DEF Honest
    <2>3. \A name \in SizeMacros(type) \cap DOMAIN m : m[name] = p.sizeof[type]
      BY <1>4 DEF Told, TellsTrue, Honest
    <2>4. \A name \in SizeMacros(type) : Defined(k, name) => k[name] = p.sizeof[type]
      BY <1>2, <2>1, <2>3
    <2> QED BY <1>1, <1>5, <2>2, <2>4 DEF Truthful
  <1>6. TrueSizes(b)
    BY <1>5 DEF TrueSizes, SizeMacros
  <1>7. b.fpa => OldARM(b) /\ ~Defined(b.m, "TARGET_OS_IPHONE")
    <2> SUFFICES ASSUME p.fpa
                 PROVE  OldARM(b) /\ ~Defined(b.m, "TARGET_OS_IPHONE")
      BY <1>1
    <2>1. "__arm__" \in DOMAIN m /\ {"__ARM_EABI__", "TARGET_OS_IPHONE"} \cap DOMAIN m = {}
      BY DEF Told, TellsTrue
    <2>2. {"__arm__", "__ARM_EABI__", "TARGET_OS_IPHONE"} \subseteq Consulted
      BY DEF Consulted
    <2>3. Defined(k, "__arm__") /\ ~Defined(k, "__ARM_EABI__") /\ ~Defined(k, "TARGET_OS_IPHONE")
      BY <1>2, <2>1, <2>2
    <2> QED BY <1>1, <2>3 DEF OldARM, Value
  <1>8. Charted(b)
    BY <1>1, <1>3 DEF Charted
  <1>9. b.machine \in {"big", "little"}
    BY <1>1, <1>3
  <1>10. Fit(b)
    BY <1>6, <1>7, <1>8, <1>9 DEF Fit
  <1> QED BY <1>10 DEF b

LEMMA FitAndRight ==
  ASSUME NEW b, Fit(b), RightOrder(b)
  PROVE  Known2(b)
  BY RightIsKnown DEF Fit

-------------------------------------------------------------------------------
(* The bytes of the calls that pack.                                           *)
LEMMA Casts ==
  ASSUME NEW v \in Values, NEW w \in Widths
  PROVE  Cast(v, w) \in Digits(w)
  <1>1. v \in Seq(Byte) /\ Len(v) = 8 /\ w \in Nat /\ w >= 1 /\ w <= 8
    BY CallsAssumption DEF Widths
  <1>2. v \in Digits(8)
    BY <1>1 DEF Digits
  <1> QED BY <1>1, <1>2, CastDigits

LEMMA RealMeans ==
  ASSUME NEW b, Fit(b), RightOrder(b)
  PROVE  /\ \A d \in Digits(4) : pack_float(b, d) = <<202>> \o d
         /\ \A d \in Digits(8) : pack_double(b, d) = <<203>> \o d \/ (OldARM(b) /\ ~b.fpa)
  <1>1. Known2(b)
    BY FitAndRight
  <1>2. ASSUME NEW d \in Digits(4)
        PROVE  pack_float(b, d) = <<202>> \o d
    <2>1. Store32(b, d) = Cast(d, 4)
      BY <1>1, Store32IsNetworkOrder
    <2>2. Cast(d, 4) = d
      BY CastWhole
    <2> QED BY <2>1, <2>2 DEF pack_float
  <1>3. ASSUME NEW d \in Digits(8), ~(OldARM(b) /\ ~b.fpa)
        PROVE  pack_double(b, d) = <<203>> \o d
    <2>1. Store64(b, d) = Cast(d, 8)
      BY <1>1, Store64IsNetworkOrder
    <2>2. Cast(d, 8) = d
      BY CastWhole
    <2> DEFINE i == DoubleInMemory(b, d)
               j == IF ~Defined(b.m, "TARGET_OS_IPHONE") /\ OldARM(b) THEN SwapWords(i) ELSE i
    <2>3. j = d
      <3>1. CASE b.fpa
        <4>1. OldARM(b) /\ ~Defined(b.m, "TARGET_OS_IPHONE")
          BY <3>1 DEF Fit
        <4>2. j = SwapWords(SwapWords(d))
          BY <3>1, <4>1 DEF DoubleInMemory
        <4> QED BY <4>2, SwapWordsDigits
      <3>2. CASE ~b.fpa
        <4>1. ~OldARM(b)
          BY <1>3, <3>2
        <4> QED BY <3>2, <4>1 DEF DoubleInMemory
      <3> QED BY <3>1, <3>2
    <2>4. pack_double(b, d) = <<203>> \o Store64(b, j)
      BY DEF pack_double
    <2> QED BY <2>1, <2>2, <2>3, <2>4
  <1> QED BY <1>2, <1>3

-------------------------------------------------------------------------------
(* What a header says.                                                         *)
LEMMA LengthDigits ==
  ASSUME NEW n \in Nat, Shr32(n) = 0
  PROVE  /\ n < 256 => BE(<<TAKE8(n)>>) = n
         /\ n < 65536 => BE(<<TAKE8(Shr8(n)), TAKE8(n)>>) = n
         /\ BE(<<TAKE8(Shr24(n)), TAKE8(Shr16(n)), TAKE8(Shr8(n)), TAKE8(n)>>) = n
  <1>1. n < 256 => BE(<<TAKE8(n)>>) = n
    BY DEF BE, BigEndian, TAKE8
  <1>2. n < 65536 => BE(<<TAKE8(Shr8(n)), TAKE8(n)>>) = n
    BY DEF BE, BigEndian, TAKE8, Shr8
  <1>3. BE(<<TAKE8(Shr24(n)), TAKE8(Shr16(n)), TAKE8(Shr8(n)), TAKE8(n)>>) = n
    <2> DEFINE d1 == TAKE8(Shr24(n))
               d2 == TAKE8(Shr16(n))
               d3 == TAKE8(Shr8(n))
               d4 == TAKE8(n)
    <2>1. d1 = Shr24(n)
      BY DEF Shr32, Shr16, Shr24, TAKE8
    <2>2. /\ Shr24(n) * 256 + d2 = Shr16(n) /\ Shr16(n) * 256 + d3 = Shr8(n)
          /\ Shr8(n) * 256 + d4 = n
      BY DEF Shr8, Shr16, Shr24, TAKE8
    <2> HIDE DEF d1, d2, d3, d4
    <2>3. BE(<<d1, d2, d3, d4>>) = ((d1 * 256 + d2) * 256 + d3) * 256 + d4
      BY DEF BE, BigEndian
    <2>4. BE(<<d1, d2, d3, d4>>) = n
      <3>1. d1 * 256 + d2 = Shr16(n)
        BY <2>1, <2>2, Zenon
      <3>2. (d1 * 256 + d2) * 256 + d3 = Shr8(n)
        BY <2>2, <3>1, Zenon
      <3> QED BY <2>2, <2>3, <3>2, Zenon
    <2> QED BY <2>4 DEF d1, d2, d3, d4
  <1> QED BY <1>1, <1>2, <1>3

LEMMA TinyHeader ==
  /\ \A n \in 0 .. 15 : /\ WireHeader(<<128 + n>>) = <<"map", n>>
                        /\ WireHeader(<<144 + n>>) = <<"array", n>>
  /\ \A n \in 0 .. 31 : WireHeader(<<160 + n>>) = <<"str", n>>
  BY DEF WireHeader, KindOf, LengthOf

Wide(h) == h \in 196 .. 223 /\ h \notin 199 .. 216

LEMMA WideHeader ==
  ASSUME NEW h, Wide(h), NEW digits \in Seq(Int)
  PROVE  WireHeader(<<h>> \o digits) = <<KindOf(h), BE(digits)>>
  <1> DEFINE wire == <<h>> \o digits
  <1>1. Head(wire) = h /\ Tail(wire) = digits
    <2>1. h \in Int
      BY DEF Wide
    <2> QED BY <2>1
  <1>2. KindOf(h) # "ext"
    BY DEF KindOf, Wide
  <1> HIDE DEF wire
  <1>3. WireHeader(wire) = <<KindOf(h), LengthOf(h, digits)>>
    <2> DEFINE t == KindOf(Head(wire))
               d == IF t = "ext" THEN Front(Tail(wire)) ELSE Tail(wire)
    <2>1. WireHeader(wire) = <<t, LengthOf(Head(wire), d)>>
      BY DEF WireHeader
    <2>2. t = KindOf(h)
      BY <1>1, Zenon
    <2> HIDE DEF t
    <2>3. d = digits
      BY <1>1, <1>2, <2>2
    <2> HIDE DEF d
    <2> QED BY <1>1, <2>1, <2>2, <2>3, Zenon
  <1>4. LengthOf(h, digits) = BE(digits)
    BY DEF LengthOf, Wide
  <1> QED BY <1>3, <1>4 DEF wire

LEMMA FrontOfMore ==
  ASSUME NEW s \in Seq(Int), NEW x \in Int
  PROVE  Front(s \o <<x>>) = s
  <1> DEFINE t == s \o <<x>>
             l == Len(s)
  <1>1. l \in Nat /\ t \in Seq(Int) /\ Len(t) = l + 1 /\ \A i \in 1 .. l : t[i] = s[i]
    OBVIOUS
  <1> HIDE DEF t
  <1>2. Front(t) = SubSeq(t, 1, l)
    BY <1>1 DEF Front
  <1>3. SubSeq(t, 1, l) = s
    BY <1>1
  <1> QED BY <1>2, <1>3 DEF t

LEMMA ExtensionHeader ==
  ASSUME NEW h \in 199 .. 201, NEW digits \in Seq(Int)
  PROVE  WireHeader((<<h>> \o digits) \o <<5>>) = <<"ext", BE(digits)>>
  <1> DEFINE wire == (<<h>> \o digits) \o <<5>>
             rest == digits \o <<5>>
  <1>1. wire = <<h>> \o rest /\ rest \in Seq(Int)
    BY Regroup
  <1>2. Head(wire) = h /\ Tail(wire) = rest
    <2> HIDE DEF rest, wire
    <2> QED BY <1>1, HeadTailProperties
  <1>3. Front(rest) = digits
    BY FrontOfMore
  <1>4. KindOf(h) = "ext"
    BY DEF KindOf
  <1>5. LengthOf(h, digits) = BE(digits)
    BY DEF LengthOf
  <1> DEFINE t == KindOf(Head(wire))
             d == IF t = "ext" THEN Front(Tail(wire)) ELSE Tail(wire)
  <1>6. WireHeader(wire) = <<t, LengthOf(Head(wire), d)>>
    BY DEF WireHeader
  <1> HIDE DEF wire, rest
  <1>7. t = "ext"
    BY <1>2, <1>4, Zenon
  <1> HIDE DEF t
  <1>8. d = digits
    BY <1>2, <1>3, <1>7
  <1> HIDE DEF d
  <1>9. WireHeader(wire) = <<"ext", BE(digits)>>
    BY <1>2, <1>5, <1>6, <1>7, <1>8, Zenon
  <1> QED BY <1>9 DEF wire

LEMMA FixedExtension ==
  ASSUME NEW n \in {1, 2, 4, 8, 16}
  PROVE  WireHeader(<<FixExt[n], 5>>) = <<"ext", n>>
  <1>1. /\ FixExt[n] \in 212 .. 216 /\ <<1, 2, 4, 8, 16>>[FixExt[n] - 211] = n
    BY FixExtBytes
  <1> DEFINE h == FixExt[n]
             wire == <<h, 5>>
  <1> HIDE DEF h
  <1>2. h \in 212 .. 216 /\ <<1, 2, 4, 8, 16>>[h - 211] = n
    BY <1>1 DEF h
  <1>3. Head(wire) = h
    OBVIOUS
  <1>4. KindOf(h) = "ext" /\ \A d : LengthOf(h, d) = n
    <2>1. KindOf(h) = "ext"
      BY <1>2 DEF KindOf
    <2>2. \A d : LengthOf(h, d) = <<1, 2, 4, 8, 16>>[h - 211]
      BY <1>2 DEF LengthOf
    <2> QED BY <1>2, <2>1, <2>2
  <1> DEFINE t == KindOf(Head(wire))
             d == IF t = "ext" THEN Front(Tail(wire)) ELSE Tail(wire)
  <1>5. WireHeader(wire) = <<t, LengthOf(Head(wire), d)>>
    BY DEF WireHeader
  <1> HIDE DEF wire, d
  <1>6. WireHeader(wire) = <<"ext", n>>
    BY <1>3, <1>4, <1>5, Zenon
  <1> QED BY <1>6 DEF wire, h

Below16(n) == n < 16
Below32(n) == n < 32
Below256(n) == n < 256
Below65536(n) == n < 65536

Extended(h) == h \in 199 .. 201

Says(wire, n, h, x) == wire = <<h>> \o x /\ BE(x) = n

LEMMA WideHeaders ==
  ASSUME NEW h, Wide(h), NEW x \in Seq(Int), NEW y, NEW n, Says(y, n, h, x)
  PROVE  WireHeader(y) = <<KindOf(h), n>>
  <1>1. WireHeader(<<h>> \o x) = <<KindOf(h), BE(x)>>
    BY WideHeader, Zenon
  <1> QED BY <1>1, Zenon DEF Says

LEMMA ExtensionHeaders ==
  ASSUME NEW h, Extended(h), NEW x \in Seq(Int), NEW y, NEW n, Says(y, n, h, x)
  PROVE  WireHeader(y \o <<5>>) = <<"ext", n>>
  <1>1. WireHeader((<<h>> \o x) \o <<5>>) = <<"ext", BE(x)>>
    BY ExtensionHeader DEF Extended
  <1> QED BY <1>1, Zenon DEF Says

SaysIn(wire, n, h) == \E x \in Seq(Int) : Says(wire, n, h, x)

LEMMA LengthBytes ==
  ASSUME NEW n \in Nat, Shr32(n) = 0, NEW h \in Int
  PROVE  /\ Below256(n) => SaysIn(Buf2(h, n), n, h)
         /\ Below65536(n) => SaysIn(Buf3(h, n), n, h)
         /\ SaysIn(Buf5(h, n), n, h)
  <1> DEFINE x == <<TAKE8(n)>>
             y == <<TAKE8(Shr8(n)), TAKE8(n)>>
             z == <<TAKE8(Shr24(n)), TAKE8(Shr16(n)), TAKE8(Shr8(n)), TAKE8(n)>>
  <1>1. x \in Seq(Int) /\ y \in Seq(Int) /\ z \in Seq(Int)
    BY DEF TAKE8, Shr8, Shr16, Shr24
  <1>2. /\ Below256(n) => BE(x) = n
        /\ Below65536(n) => BE(y) = n
        /\ BE(z) = n
    BY LengthDigits DEF Below256, Below65536
  <1>3. /\ Buf2(h, n) = <<h>> \o x
        /\ Buf3(h, n) = <<h>> \o y
        /\ Buf5(h, n) = <<h>> \o z
    BY DEF Buf2, Buf3, Buf5, TAKE8, Shr8, Shr16, Shr24
  <1> HIDE DEF x, y, z
  <1>4. /\ Below256(n) => Says(Buf2(h, n), n, h, x)
        /\ Below65536(n) => Says(Buf3(h, n), n, h, y)
        /\ Says(Buf5(h, n), n, h, z)
    BY <1>2, <1>3 DEF Says
  <1> QED BY ONLY <1>1, <1>4 DEF SaysIn

LEMMA WideOf ==
  ASSUME NEW n \in Nat, Shr32(n) = 0, NEW h, Wide(h)
  PROVE  /\ Below256(n) => WireHeader(Buf2(h, n)) = <<KindOf(h), n>>
         /\ Below65536(n) => WireHeader(Buf3(h, n)) = <<KindOf(h), n>>
         /\ WireHeader(Buf5(h, n)) = <<KindOf(h), n>>
  <1>1. h \in Int
    BY DEF Wide
  <1>2. /\ Below256(n) => SaysIn(Buf2(h, n), n, h)
        /\ Below65536(n) => SaysIn(Buf3(h, n), n, h)
        /\ SaysIn(Buf5(h, n), n, h)
    BY <1>1, LengthBytes, Zenon
  <1>3. \A y : SaysIn(y, n, h) => WireHeader(y) = <<KindOf(h), n>>
    BY WideHeaders, Zenon DEF SaysIn
  <1> QED BY <1>2, <1>3, Zenon

LEMMA ExtensionOf ==
  ASSUME NEW n \in Nat, Shr32(n) = 0, NEW h, Extended(h)
  PROVE  /\ Below256(n) => WireHeader(Buf2(h, n) \o <<5>>) = <<"ext", n>>
         /\ Below65536(n) => WireHeader(Buf3(h, n) \o <<5>>) = <<"ext", n>>
         /\ WireHeader(Buf5(h, n) \o <<5>>) = <<"ext", n>>
  <1>1. h \in Int
    BY DEF Extended
  <1>2. /\ Below256(n) => SaysIn(Buf2(h, n), n, h)
        /\ Below65536(n) => SaysIn(Buf3(h, n), n, h)
        /\ SaysIn(Buf5(h, n), n, h)
    BY <1>1, LengthBytes, Zenon
  <1>3. \A y : SaysIn(y, n, h) => WireHeader(y \o <<5>>) = <<"ext", n>>
    BY ExtensionHeaders, Zenon DEF SaysIn
  <1> QED BY <1>2, <1>3, Zenon

(* A header is read as what it is the header of, and how long it is.           *)
LEMMA HeaderMeans ==
  ASSUME NEW type \in HeaderTypes, NEW n \in Nat, Shr32(n) = 0
  PROVE  WireHeader(Header(type, n)) = <<IF type = "v4raw" THEN "str" ELSE type, n>>
  <1>1. /\ KindOf(222) = "map" /\ KindOf(223) = "map" /\ KindOf(220) = "array"
        /\ KindOf(221) = "array" /\ KindOf(217) = "str" /\ KindOf(218) = "str"
        /\ KindOf(219) = "str" /\ KindOf(196) = "bin" /\ KindOf(197) = "bin"
        /\ KindOf(198) = "bin"
    BY DEF KindOf
  <1>2. \A h \in {196, 197, 198, 217, 218, 219, 220, 221, 222, 223} :
          /\ Below256(n) => WireHeader(Buf2(h, n)) = <<KindOf(h), n>>
          /\ Below65536(n) => WireHeader(Buf3(h, n)) = <<KindOf(h), n>>
          /\ WireHeader(Buf5(h, n)) = <<KindOf(h), n>>
    <2> TAKE h \in {196, 197, 198, 217, 218, 219, 220, 221, 222, 223}
    <2>1. Wide(h)
      BY DEF Wide
    <2> QED BY <2>1, WideOf, Zenon
  <1>3. /\ Below16(n) => /\ WireHeader(<<128 + n>>) = <<"map", n>>
                     /\ WireHeader(<<144 + n>>) = <<"array", n>>
        /\ Below32(n) => WireHeader(<<160 + n>>) = <<"str", n>>
    <2>1. /\ Below16(n) => n \in 0 .. 15
          /\ Below32(n) => n \in 0 .. 31
      BY DEF Below16, Below32
    <2> QED BY <2>1, TinyHeader, Zenon
  <1>4. WireHeader(ArrayHeader(n)) = <<"array", n>>
    <2>1. /\ Below65536(n) => WireHeader(Buf3(220, n)) = <<"array", n>>
          /\ WireHeader(Buf5(221, n)) = <<"array", n>>
      BY <1>1, <1>2
    <2>2. \/ Below16(n) /\ ArrayHeader(n) = <<144 + n>>
          \/ Below65536(n) /\ ArrayHeader(n) = Buf3(220, n)
          \/ ArrayHeader(n) = Buf5(221, n)
      BY DEF ArrayHeader, Below16, Below65536
    <2> QED BY <1>3, <2>1, <2>2, Zenon
  <1>5. WireHeader(MapHeader(n)) = <<"map", n>>
    <2>1. /\ Below65536(n) => WireHeader(Buf3(222, n)) = <<"map", n>>
          /\ WireHeader(Buf5(223, n)) = <<"map", n>>
      BY <1>1, <1>2
    <2>2. \/ Below16(n) /\ MapHeader(n) = <<128 + n>>
          \/ Below65536(n) /\ MapHeader(n) = Buf3(222, n)
          \/ MapHeader(n) = Buf5(223, n)
      BY DEF MapHeader, Below16, Below65536
    <2> QED BY <1>3, <2>1, <2>2, Zenon
  <1>6. WireHeader(StrHeader(n)) = <<"str", n>> /\ WireHeader(V4RawHeader(n)) = <<"str", n>>
    <2>1. /\ Below256(n) => WireHeader(Buf2(217, n)) = <<"str", n>>
          /\ Below65536(n) => WireHeader(Buf3(218, n)) = <<"str", n>>
          /\ WireHeader(Buf5(219, n)) = <<"str", n>>
      BY <1>1, <1>2
    <2>2. \/ Below32(n) /\ StrHeader(n) = <<160 + n>>
          \/ Below256(n) /\ StrHeader(n) = Buf2(217, n)
          \/ Below65536(n) /\ StrHeader(n) = Buf3(218, n)
          \/ StrHeader(n) = Buf5(219, n)
      BY DEF StrHeader, Below32, Below256, Below65536
    <2>3. \/ Below32(n) /\ V4RawHeader(n) = <<160 + n>>
          \/ Below65536(n) /\ V4RawHeader(n) = Buf3(218, n)
          \/ V4RawHeader(n) = Buf5(219, n)
      BY DEF V4RawHeader, Below32, Below65536
    <2>4. WireHeader(StrHeader(n)) = <<"str", n>>
      BY <1>3, <2>1, <2>2, ZenonT(30)
    <2>5. WireHeader(V4RawHeader(n)) = <<"str", n>>
      BY <1>3, <2>1, <2>3, ZenonT(30)
    <2> QED BY <2>4, <2>5, Zenon
  <1>7. WireHeader(BinHeader(n)) = <<"bin", n>>
    <2>1. /\ Below256(n) => WireHeader(Buf2(196, n)) = <<"bin", n>>
          /\ Below65536(n) => WireHeader(Buf3(197, n)) = <<"bin", n>>
          /\ WireHeader(Buf5(198, n)) = <<"bin", n>>
      BY <1>1, <1>2
    <2>2. \/ Below256(n) /\ BinHeader(n) = Buf2(196, n)
          \/ Below65536(n) /\ BinHeader(n) = Buf3(197, n)
          \/ BinHeader(n) = Buf5(198, n)
      BY DEF BinHeader, Below256, Below65536
    <2> QED BY <2>1, <2>2, Zenon
  <1>8. WireHeader(ExtHeader(n, 5)) = <<"ext", n>>
    <2>1. n \in DOMAIN FixExt => WireHeader(<<FixExt[n], 5>>) = <<"ext", n>>
      <3>1. DOMAIN FixExt = {1, 2, 4, 8, 16}
        BY DEF FixExt
      <3> QED BY <3>1, FixedExtension, Zenon
    <2>2. /\ Below256(n) => WireHeader(Buf2(199, n) \o <<5>>) = <<"ext", n>>
          /\ Below65536(n) => WireHeader(Buf3(200, n) \o <<5>>) = <<"ext", n>>
          /\ WireHeader(Buf5(201, n) \o <<5>>) = <<"ext", n>>
      <3>1. Extended(199) /\ Extended(200) /\ Extended(201)
        BY DEF Extended
      <3> QED BY <3>1, ExtensionOf, Zenon
    <2>3. \/ n \in DOMAIN FixExt /\ ExtHeader(n, 5) = <<FixExt[n], 5>>
          \/ Below256(n) /\ ExtHeader(n, 5) = Buf2(199, n) \o <<5>>
          \/ Below65536(n) /\ ExtHeader(n, 5) = Buf3(200, n) \o <<5>>
          \/ ExtHeader(n, 5) = Buf5(201, n) \o <<5>>
      BY DEF ExtHeader, Below256, Below65536
    <2> QED BY <2>1, <2>2, <2>3, Zenon
  <1>9. /\ Header("array", n) = ArrayHeader(n) /\ Header("map", n) = MapHeader(n)
        /\ Header("str", n) = StrHeader(n) /\ Header("bin", n) = BinHeader(n)
        /\ Header("v4raw", n) = V4RawHeader(n) /\ Header("ext", n) = ExtHeader(n, 5)
    BY DEF Header
  <1>10. type \in {"array", "map", "str", "bin", "ext"} \/ type = "v4raw"
    BY DEF HeaderTypes
  <1>11. CASE type = "v4raw"
    BY <1>6, <1>9, <1>11, Zenon
  <1>12. CASE type \in {"array", "map", "str", "bin", "ext"}
    <2>1. type # "v4raw"
      BY <1>12
    <2>2. WireHeader(Header(type, n)) = <<type, n>>
      BY <1>4, <1>5, <1>6, <1>7, <1>8, <1>9, <1>12, Zenon
    <2> QED BY <2>1, <2>2, Zenon
  <1> QED BY <1>10, <1>11, <1>12

Destinations == {"sbuffer", "vrefbuffer", "FILE", "zbuffer", "zones"}

(* What a destination s of kind k is good for after n calls: it holds what was *)
(* accepted, a, and c was the last call.                                       *)
Holds(k, s, n, c, a, b) ==
  /\ k = "sbuffer" => SBuffer(s) /\ s.data = a
  /\ k = "vrefbuffer" => VRefBuffer(s) /\ Joined(s.array) = a
  /\ k = "FILE" => s \in Seq(Int) /\ (b \/ s = a)
  /\ k = "zbuffer" => /\ ZGood(s)
                      /\ b \/ s.taken = a
                      /\ c.type = "flush" => Flushed(s, c.wire)
  /\ k = "zones" => Zones(s, n)

(* The wire of a call c says what was packed.                                  *)
Meant(b, c) ==
  /\ c.type \in IntegerTypes => Means(c.wire, c.value, SignedFor(b, c.type))
  /\ c.type \in HeaderTypes =>
       WireHeader(c.wire) = <<IF c.type = "v4raw" THEN "str" ELSE c.type, c.value>>
  /\ c.type \in {"float", "double"} =>
       \/ c.wire = <<IF c.type = "float" THEN 202 ELSE 203>> \o c.value
       \/ OldARM(b) /\ ~b.fpa /\ c.type = "double"

Preprocessing ==
  compiler = "reading" => platform \in Platforms /\ Told(platform, macros) /\ kind = None

Building == compiler # "reading" => Fit(build) /\ agenda = << >>

Packing ==
  /\ kind \in Destinations \cup {None}
  /\ kind # None => compiler = "done"
  /\ kind = None => calls = 0 /\ accepted = << >> /\ broken = FALSE /\ call = NoCall
  /\ calls \in Nat /\ accepted \in Seq(Int) /\ broken \in BOOLEAN
  /\ Holds(kind, sink, calls, call, accepted, broken)

Meaning == Compiled /\ RightOrder(build) => Meant(build, call)

CInv == Preprocessing /\ Building /\ Packing /\ Meaning

LEMMA SinksAreNew ==
  ASSUME NEW k \in Destinations, NEW s \in NewSinks(k)
  PROVE  Holds(k, s, 0, NoCall, << >>, FALSE)
  <1>1. CASE k = "sbuffer"
    <2>1. SBuffer([data |-> << >>, alloc |-> 0])
      BY DEF SBuffer
    <2> QED BY <1>1, <2>1 DEF Holds, NewSinks, sbuffer_init
  <1>2. CASE k = "vrefbuffer"
    <2>1. PICK ref_size \in RefSizes : s = vrefbuffer_init(ref_size)
      BY <1>2 DEF NewSinks
    <2>2. s.ref_size \in Nat /\ s.array = << >> /\ s = [ref_size |-> s.ref_size, array |-> s.array]
      BY <2>1, CallsAssumption DEF vrefbuffer_init
    <2>3. VRefBuffer(s)
      BY <2>2 DEF VRefBuffer, Dangling
    <2> QED BY <1>2, <2>2, <2>3, JoinedEmpty DEF Holds
  <1>3. CASE k = "FILE"
    BY <1>3 DEF Holds, NewSinks
  <1>4. CASE k = "zbuffer"
    <2>1. s = zbuffer_init
      BY <1>4 DEF NewSinks
    <2>2. /\ s.data = << >> /\ s.avail_out = 0 /\ s.block = 0 /\ s.null = TRUE
          /\ s.taken = << >> /\ s.made = 0 /\ s.state = "busy"
      BY <2>1 DEF zbuffer_init
    <2>3. ZGood(s)
      BY <2>1 DEF ZGood, ZType, InOrder, zbuffer_init
    <2> QED BY <1>4, <2>2, <2>3 DEF Holds, NoCall, None
  <1>5. CASE k = "zones"
    BY <1>5, ZonesStart DEF Holds, NewSinks
  <1> QED BY <1>1, <1>2, <1>3, <1>4, <1>5 DEF Destinations

LEMMA NothingMeant ==
  ASSUME NEW b, NEW c, c.type \in {"none", "body", "flush", "release"}
  PROVE  Meant(b, c)
  BY DEF Meant, IntegerTypes, SignedTypes, UnsignedTypes, SizedTypes, HeaderTypes

LEMMA ZBufferIsKept ==
  ASSUME NEW z, ZGood(z)
  PROVE  /\ ZGood(zbuffer_reset(z)) /\ zbuffer_reset(z).taken = << >>
         /\ ZGood(zbuffer_release_buffer(z)) /\ zbuffer_release_buffer(z).taken = z.taken
  <1>1. z \in ZType /\ Len(z.data) + z.avail_out = z.block /\ (z.null => z.block = 0)
    BY DEF ZGood
  <1> DEFINE nil == << >>
             yes == TRUE
             y == [z EXCEPT !.avail_out = z.block, !.data = nil]
             r == [y EXCEPT !.taken = nil, !.made = 0, !.state = "busy"]
             e == [z EXCEPT !.data = nil, !.null = yes, !.block = 0, !.avail_out = 0]
  <1>2. nil \in Seq(Int) /\ yes \in BOOLEAN /\ InOrder(nil, 0) /\ InOrder(nil, z.made) /\ Len(nil) = 0
    BY <1>1 DEF InOrder, ZType
  <1>3. zbuffer_reset(z) = r
    <2>1. z.avail_out + Len(z.data) = z.block
      BY <1>1 DEF ZType
    <2> QED BY <1>1, <2>1 DEF zbuffer_reset, zbuffer_reset_buffer, ZType
  <1>4. zbuffer_release_buffer(z) = e
    BY DEF zbuffer_release_buffer
  <1>5. nil = << >>
    OBVIOUS
  <1> HIDE DEF nil, yes
  <1>6. /\ y \in ZType /\ y.data = nil /\ y.avail_out = z.block /\ y.block = z.block
        /\ y.null = z.null
    BY <1>1, <1>2 DEF ZType
  <1> HIDE DEF y
  <1>7. /\ r \in ZType /\ r.data = nil /\ r.made = 0 /\ r.taken = nil
        /\ r.avail_out = z.block /\ r.block = z.block /\ r.null = z.null
    BY <1>2, <1>6 DEF ZType
  <1>8. /\ e \in ZType /\ e.data = nil /\ e.made = z.made /\ e.taken = z.taken
        /\ e.avail_out = 0 /\ e.block = 0
    BY <1>1, <1>2 DEF ZType
  <1> HIDE DEF r, e
  <1>9. ZGood(r)
    BY <1>1, <1>2, <1>7 DEF ZGood, ZType
  <1>10. ZGood(e)
    BY <1>2, <1>8 DEF ZGood
  <1> QED BY <1>3, <1>4, <1>5, <1>7, <1>8, <1>9, <1>10

(* Whatever comes of the callback, the destination is as good as before.       *)
LEMMA CallbackKeeps ==
  ASSUME CInv, kind \notin {None, "zones"}, NEW piece \in Seq(Int),
         NEW from \in {"stack", "program"}, from = "stack" /\ kind = "vrefbuffer" => Len(piece) <= HeaderMax,
         NEW o \in Callback(piece, from), NEW n, NEW c, c.type # "flush"
  PROVE  Holds(kind, o.to, n, c, IF o.ret = 0 THEN accepted \o piece ELSE accepted,
               broken \/ o.ret # 0)
  <1> DEFINE all == IF o.ret = 0 THEN accepted \o piece ELSE accepted
             bad == broken \/ o.ret # 0
  <1> SUFFICES Holds(kind, o.to, n, c, all, bad)
    OBVIOUS
  <1>1. Holds(kind, sink, calls, call, accepted, broken)
    BY DEF CInv, Packing
  <1>2. CASE kind = "sbuffer"
    <2>1. SBuffer(sink) /\ sink.data = accepted /\ o \in sbuffer_write(sink, piece)
      BY <1>1, <1>2 DEF Holds, Callback
    <2>2. SBuffer(o.to) /\ o.to.data = all
      BY <2>1, SBufferWrites
    <2> HIDE DEF all, bad
    <2> QED BY <1>2, <2>2, Zenon DEF Holds
  <1>3. CASE kind = "vrefbuffer"
    <2>1. /\ VRefBuffer(sink) /\ Joined(sink.array) = accepted
          /\ o \in vrefbuffer_write(sink, piece, from)
      BY <1>1, <1>3 DEF Holds, Callback
    <2>2. VRefBuffer(o.to) /\ Joined(o.to.array) = all
      <3>1. /\ VRefBuffer(o.to)
            /\ o.ret = 0 => Joined(o.to.array) = Joined(sink.array) \o piece
            /\ o.ret # 0 => o.to = sink
        BY <1>3, <2>1, VRefBufferWrites, Zenon
      <3> QED BY <2>1, <3>1
    <2> HIDE DEF all, bad
    <2> QED BY <1>3, <2>2, Zenon DEF Holds
  <1>4. CASE kind = "FILE"
    <2>1. sink \in Seq(Int) /\ (broken \/ sink = accepted) /\ o \in fbuffer_write(sink, piece)
      BY <1>1, <1>4 DEF Holds, Callback
    <2>2. o.to \in Seq(Int) /\ (o.ret = 0 => o.to = sink \o piece)
      BY <2>1, FileWrites
    <2>3. bad \/ o.to = all
      BY <2>1, <2>2
    <2> HIDE DEF all, bad
    <2> QED BY <1>4, <2>2, <2>3, Zenon DEF Holds
  <1>5. CASE kind = "zbuffer"
    <2>1. ZGood(sink) /\ (broken \/ sink.taken = accepted) /\ o \in zbuffer_write(sink, piece)
      BY <1>1, <1>5 DEF Holds, Callback
    <2>2. ZGood(o.to) /\ (o.ret = 0 => o.to.taken = sink.taken \o piece)
      BY <2>1, ZBufferWrites
    <2>3. bad \/ o.to.taken = all
      BY <2>1, <2>2
    <2> HIDE DEF all, bad
    <2> QED BY <1>5, <2>2, <2>3, Zenon DEF Holds
  <1> QED BY <1>2, <1>3, <1>4, <1>5 DEF CInv, Packing, Destinations

LEMMA CInvInitially == CInit => CInv
  <1> SUFFICES ASSUME CInit PROVE CInv
    OBVIOUS
  <1> USE DEF CInit, PInit
  <1>1. Preprocessing
    BY PlatformsAreHonest DEF Preprocessing
  <1>2. Building
    BY DEF Building
  <1>3. Packing
    <2>1. Holds(None, sink, calls, call, accepted, broken)
      BY DEF Holds, None
    <2>2. calls = 0 /\ accepted = << >> /\ broken = FALSE /\ call = NoCall /\ kind = None
      BY Zenon
    <2>3. calls \in Nat /\ accepted \in Seq(Int) /\ broken \in BOOLEAN
      <3>1. 0 \in Nat /\ << >> \in Seq(Int) /\ FALSE \in BOOLEAN
        OBVIOUS
      <3> QED BY <2>2, <3>1, Zenon
    <2> HIDE DEF CInit
    <2> QED BY <2>1, <2>2, <2>3, Zenon DEF Packing
  <1>4. Meaning
    BY DEF Meaning, Compiled
  <1> QED BY <1>1, <1>2, <1>3, <1>4 DEF CInv

LEMMA PreprocessingStep ==
  ASSUME CInv, PNext, UNCHANGED <<compiler, build, progvars>>
  PROVE  CInv'
  <1>1. agenda # << >> /\ platform' = platform
    BY DEF PNext, DoInclude, DoIncludeIfNeeded, DoTest
  <1>2. compiler = "reading" /\ platform \in Platforms /\ Told(platform, macros) /\ kind = None
    BY <1>1 DEF CInv, Building, Preprocessing
  <1>3. Told(platform, macros')
    <2>1. Honest(platform)
      BY <1>2, PlatformsAreHonest
    <2>2. macros' = macros \/ \E h : macros' = Test(h, macros)
      BY DEF PNext, DoInclude, DoIncludeIfNeeded, DoTest
    <2>3. \A h : Told(platform, Test(h, macros))
      BY <1>2, <2>1, TestTold
    <2> QED BY <1>2, <2>2, <2>3
  <1>4. Preprocessing'
    BY <1>1, <1>2, <1>3 DEF Preprocessing, progvars
  <1>5. Building'
    BY <1>2 DEF Building
  <1>6. Packing'
    BY DEF CInv, Packing, progvars
  <1>7. Meaning'
    BY <1>2 DEF Meaning, Compiled
  <1> QED BY <1>4, <1>5, <1>6, <1>7 DEF CInv

LEMMA CompileStep ==
  ASSUME CInv, Compile
  PROVE  CInv'
  <1> USE DEF Compile, pvars, progvars
  <1>1. platform \in Platforms /\ Told(platform, macros) /\ kind = None
    BY DEF CInv, Preprocessing
  <1>2. compiler' # "reading"
    OBVIOUS
  <1>3. Preprocessing'
    BY <1>2 DEF Preprocessing
  <1>4. Building'
    <2>1. Fit(BuildOf(platform, macros))
      BY <1>1, BuildIsFit
    <2> QED BY <2>1 DEF Building
  <1>5. Packing'
    BY <1>1 DEF CInv, Packing
  <1>6. Meaning'
    <2>1. call' = NoCall
      BY <1>1 DEF CInv, Packing
    <2>2. Meant(build', NoCall)
      BY NothingMeant DEF NoCall, None
    <2> QED BY <2>1, <2>2 DEF Meaning
  <1> QED BY <1>3, <1>4, <1>5, <1>6 DEF CInv

LEMMA StartStep ==
  ASSUME CInv, Start
  PROVE  CInv'
  <1> USE DEF Start, Compiled
  <1>1. compiler = "done" /\ compiler' = "done" /\ agenda' = agenda /\ build' = build
    OBVIOUS
  <1>2. calls' = 0 /\ accepted' = << >> /\ broken' = FALSE /\ call' = NoCall
    BY DEF CInv, Packing
  <1>3. PICK k \in Destinations : kind' = k /\ sink' \in NewSinks(k)
    BY DEF Destinations
  <1>4. Preprocessing'
    BY <1>1 DEF Preprocessing
  <1>5. Building'
    BY <1>1 DEF CInv, Building
  <1>6. Packing'
    <2>1. Holds(k, sink', 0, NoCall, << >>, FALSE)
      BY <1>3, SinksAreNew
    <2>2. Holds(kind', sink', calls', call', accepted', broken')
      BY <1>2, <1>3, <2>1, Zenon
    <2>3. kind' # None
      BY <1>3 DEF Destinations, None
    <2>4. calls' \in Nat /\ accepted' \in Seq(Int) /\ broken' \in BOOLEAN
      <3>1. 0 \in Nat /\ << >> \in Seq(Int) /\ FALSE \in BOOLEAN
        OBVIOUS
      <3> QED BY <1>2, <3>1, Zenon
    <2> HIDE DEF Start
    <2> QED BY <1>1, <1>3, <2>2, <2>3, <2>4, Zenon DEF Packing
  <1>7. Meaning'
    BY <1>1, <1>2 DEF CInv, Meaning, Packing
  <1> QED BY <1>4, <1>5, <1>6, <1>7 DEF CInv

(* A call of a program that leaves the compiler's results alone.               *)
LEMMA CallStep ==
  ASSUME CInv, UNCHANGED <<pvars, compiler, build, kind>>, kind # None,
         calls' \in Nat, accepted' \in Seq(Int), broken' \in BOOLEAN,
         Holds(kind, sink', calls', call', accepted', broken'),
         RightOrder(build) => Meant(build, call')
  PROVE  CInv'
  <1>1. Preprocessing' /\ Building'
    BY DEF CInv, Preprocessing, Building, pvars
  <1>2. Packing'
    BY DEF CInv, Packing, pvars
  <1>3. Meaning'
    BY DEF Meaning
  <1> QED BY <1>1, <1>2, <1>3 DEF CInv

LEMMA PackStep ==
  ASSUME CInv, NEW type, type # "flush", NEW value, NEW piece \in Seq(Int),
         NEW from \in {"stack", "program"},
         from = "stack" /\ kind = "vrefbuffer" => Len(piece) <= HeaderMax, NEW after \in Nat,
         Pack(type, value, piece, from, after),
         RightOrder(build) => Meant(build, [type |-> type, value |-> value, wire |-> piece])
  PROVE  CInv'
  <1> USE DEF Pack
  <1> DEFINE c == [type |-> type, value |-> value, wire |-> piece]
  <1>1. PICK o \in Callback(piece, from) :
          /\ sink' = o.to
          /\ accepted' = IF o.ret = 0 THEN accepted \o piece ELSE accepted
          /\ broken' = (broken \/ o.ret # 0)
    OBVIOUS
  <1>2. c.type # "flush" /\ kind \notin {None, "zones"} /\ call' = c
    OBVIOUS
  <1> HIDE DEF c
  <1>3. Holds(kind, o.to, calls', c, IF o.ret = 0 THEN accepted \o piece ELSE accepted,
              broken \/ o.ret # 0)
    BY <1>2, CallbackKeeps
  <1>4. Holds(kind, sink', calls', call', accepted', broken')
    BY <1>1, <1>2, <1>3, Zenon
  <1>5. accepted' \in Seq(Int) /\ broken' \in BOOLEAN /\ calls' \in Nat
    <2>1. accepted \in Seq(Int)
      BY DEF CInv, Packing
    <2> QED BY <1>1, <2>1
  <1>6. RightOrder(build) => Meant(build, call')
    BY <1>2 DEF c
  <1>7. UNCHANGED <<pvars, compiler, build, kind>> /\ kind # None
    BY <1>2
  <1> HIDE DEF Pack
  <1> QED BY <1>4, <1>5, <1>6, <1>7, CallStep

LEMMA IntegerIsMeant ==
  ASSUME NEW b, NEW type \in IntegerTypes, NEW d, NEW wire, Means(wire, d, SignedFor(b, type))
  PROVE  Meant(b, [type |-> type, value |-> d, wire |-> wire])
  <1>1. type \notin HeaderTypes \cup {"float", "double"}
    BY DEF IntegerTypes, SignedTypes, UnsignedTypes, SizedTypes, HeaderTypes
  <1> DEFINE c == [type |-> type, value |-> d, wire |-> wire]
  <1>2. c.type = type /\ c.value = d /\ c.wire = wire
    OBVIOUS
  <1> HIDE DEF c
  <1>3. Meant(b, c)
    BY <1>1, <1>2, Zenon DEF Meant
  <1> QED BY <1>3 DEF c

LEMMA HeaderIsMeant ==
  ASSUME NEW b, NEW type \in HeaderTypes, NEW n, NEW wire,
         WireHeader(wire) = <<IF type = "v4raw" THEN "str" ELSE type, n>>
  PROVE  Meant(b, [type |-> type, value |-> n, wire |-> wire])
  <1>1. type \notin IntegerTypes \cup {"float", "double"}
    BY DEF IntegerTypes, SignedTypes, UnsignedTypes, SizedTypes, HeaderTypes
  <1> DEFINE c == [type |-> type, value |-> n, wire |-> wire]
  <1>2. c.type = type /\ c.value = n /\ c.wire = wire
    OBVIOUS
  <1> HIDE DEF c
  <1>3. Meant(b, c)
    BY <1>1, <1>2, Zenon DEF Meant
  <1> QED BY <1>3 DEF c

LEMMA RealIsMeant ==
  ASSUME NEW b, NEW type \in {"float", "double"}, NEW d, NEW wire,
         \/ wire = <<IF type = "float" THEN 202 ELSE 203>> \o d
         \/ OldARM(b) /\ ~b.fpa /\ type = "double"
  PROVE  Meant(b, [type |-> type, value |-> d, wire |-> wire])
  <1>1. type \notin IntegerTypes \cup HeaderTypes
    BY DEF IntegerTypes, SignedTypes, UnsignedTypes, SizedTypes, HeaderTypes
  <1> DEFINE c == [type |-> type, value |-> d, wire |-> wire]
  <1>2. c.type = type /\ c.value = d /\ c.wire = wire
    OBVIOUS
  <1> HIDE DEF c
  <1>3. Meant(b, c)
    BY <1>1, <1>2 DEF Meant
  <1> QED BY <1>3 DEF c

LEMMA CompiledIsFit ==
  ASSUME CInv, Compiled
  PROVE  Fit(build)
  BY DEF CInv, Building, Compiled

LEMMA PackAnIntegerStep ==
  ASSUME CInv, PackAnInteger
  PROVE  CInv'
  <1>0. PICK type \in IntegerTypes : \E w \in Sizeof(type), v \in Values :
          Pack(type, Cast(v, w), PackInteger(build, type, Cast(v, w)), "stack", MaxCalls)
    BY DEF PackAnInteger
  <1>1. PICK w \in Sizeof(type), v \in Values :
          Pack(type, Cast(v, w), PackInteger(build, type, Cast(v, w)), "stack", MaxCalls)
    BY <1>0
  <1>2. Fit(build) /\ kind = "sbuffer" /\ MaxCalls \in Nat
    BY CompiledIsFit, CallsAssumption DEF PackAnInteger, Once
  <1>3. w \in WidthOf(build, type)
    BY DEF Sizeof, WidthOf, Widths
  <1>4. w \in Widths
    <2>1. build.char_signed \in BOOLEAN /\ TrueSizes(build)
      BY <1>2 DEF Fit, Charted
    <2>2. \A t \in {"short", "int", "long", "long_long"} : build.sizeof[t] \in Widths
      BY <2>1 DEF TrueSizes, Truthful, Widths
    <2>3. CType(type) \in {"short", "int", "long", "long_long"}
      BY DEF CType
    <2> QED BY <1>3, <2>2, <2>3 DEF WidthOf, Widths
  <1> DEFINE d == Cast(v, w)
             piece == PackInteger(build, type, d)
  <1>5. d \in Digits(w)
    BY <1>4, Casts
  <1>6. Pack(type, d, piece, "stack", MaxCalls)
    BY <1>1
  <1> HIDE DEF d
  <1>7. piece \in Seq(Int)
    BY <1>2, <1>3, <1>5, IntegerBytes DEF Fit
  <1>8. RightOrder(build) => Meant(build, [type |-> type, value |-> d, wire |-> piece])
    <2> SUFFICES ASSUME RightOrder(build)
                 PROVE  Meant(build, [type |-> type, value |-> d, wire |-> piece])
      OBVIOUS
    <2>1. Known2(build) /\ TrueSizes(build) /\ Charted(build)
      BY <1>2, FitAndRight DEF Fit
    <2>2. Means(piece, d, SignedFor(build, type))
      BY <1>3, <1>5, <2>1, IntegerMeans
    <2> HIDE DEF piece
    <2> QED BY <2>2, IntegerIsMeant
  <1>9. type # "flush" /\ kind # "vrefbuffer"
    BY <1>2 DEF IntegerTypes, SignedTypes, UnsignedTypes, SizedTypes
  <1> HIDE DEF piece
  <1> QED BY <1>2, <1>6, <1>7, <1>8, <1>9, PackStep

LEMMA PackAHeaderStep ==
  ASSUME CInv, PackAHeader
  PROVE  CInv'
  <1>1. PICK type \in HeaderTypes, n \in Lengths :
          Pack(type, n, Header(type, n), "stack", MaxCalls)
    BY DEF PackAHeader
  <1> DEFINE piece == Header(type, n)
  <1>2. kind = "sbuffer" /\ MaxCalls \in Nat /\ n \in Nat /\ Shr32(n) = 0
    BY CallsAssumption DEF PackAHeader, Once
  <1>3. piece \in Seq(Int)
    BY <1>2, HeaderBytes
  <1>4. WireHeader(piece) = <<IF type = "v4raw" THEN "str" ELSE type, n>>
    BY <1>2, HeaderMeans
  <1> HIDE DEF piece
  <1>5. Meant(build, [type |-> type, value |-> n, wire |-> piece])
    BY <1>4, HeaderIsMeant
  <1>6. Pack(type, n, piece, "stack", MaxCalls)
    BY <1>1 DEF piece
  <1>7. type # "flush" /\ kind # "vrefbuffer"
    BY <1>2 DEF HeaderTypes
  <1> QED BY <1>2, <1>3, <1>5, <1>6, <1>7, PackStep

LEMMA PackARealStep ==
  ASSUME CInv, PackAReal
  PROVE  CInv'
  <1>1. PICK d \in Reals : IF Len(d) = 4 THEN Pack("float", d, pack_float(build, d), "stack", calls + 1)
                           ELSE Pack("double", d, pack_double(build, d), "stack", calls + 1)
    BY DEF PackAReal
  <1>2. calls + 1 \in Nat
    BY DEF CInv, Packing
  <1>3. d \in Seq(Byte) /\ Len(d) \in {4, 8}
    BY CallsAssumption
  <1>4. Fit(build)
    BY <1>1, CompiledIsFit DEF Pack
  <1>5. CASE Len(d) = 4
    <2> DEFINE piece == pack_float(build, d)
    <2>1. d \in Digits(4)
      BY <1>3, <1>5 DEF Digits
    <2>2. piece \in Seq(Int) /\ Len(piece) <= HeaderMax
      BY <2>1, RealBytes
    <2>3. RightOrder(build) => piece = <<202>> \o d
      BY <1>4, <2>1, RealMeans
    <2>4. Pack("float", d, piece, "stack", calls + 1)
      BY <1>1, <1>5
    <2> HIDE DEF piece
    <2>5. RightOrder(build) => Meant(build, [type |-> "float", value |-> d, wire |-> piece])
      BY <2>3, RealIsMeant
    <2> QED BY <1>2, <2>2, <2>4, <2>5, PackStep
  <1>6. CASE Len(d) = 8
    <2> DEFINE piece == pack_double(build, d)
    <2>1. d \in Digits(8)
      BY <1>3, <1>6 DEF Digits
    <2>2. piece \in Seq(Int) /\ Len(piece) <= HeaderMax
      BY <2>1, RealBytes
    <2>3. RightOrder(build) => piece = <<203>> \o d \/ (OldARM(build) /\ ~build.fpa)
      BY <1>4, <2>1, RealMeans
    <2>4. Pack("double", d, piece, "stack", calls + 1)
      BY <1>1, <1>6
    <2> HIDE DEF piece
    <2> DEFINE type == "double"
    <2>5. /\ type \in {"float", "double"} /\ type # "flush" /\ type = "double"
          /\ Pack(type, d, piece, "stack", calls + 1)
          /\ (IF type = "float" THEN 202 ELSE 203) = 203
      BY <2>4
    <2> HIDE DEF type
    <2>6. ASSUME RightOrder(build)
          PROVE  Meant(build, [type |-> type, value |-> d, wire |-> piece])
      <3>1. \/ piece = <<IF type = "float" THEN 202 ELSE 203>> \o d
            \/ OldARM(build) /\ ~build.fpa /\ type = "double"
        BY <2>3, <2>5, <2>6, Zenon
      <3> QED BY <2>5, <3>1, RealIsMeant, Zenon
    <2> QED BY <1>2, <2>2, <2>5, <2>6, PackStep
  <1> QED BY <1>3, <1>5, <1>6

LEMMA PackABodyStep ==
  ASSUME CInv, PackABody
  PROVE  CInv'
  <1>1. PICK b \in Bodies : Pack("body", << >>, b, "program", calls + 1)
    BY DEF PackABody
  <1>2. calls + 1 \in Nat
    BY DEF CInv, Packing
  <1>3. b \in Seq(Int)
    <2>1. b \in Seq(Byte)
      BY CallsAssumption
    <2>2. Byte \subseteq Int
      BY DEF Byte
    <2> QED BY <2>1, <2>2, SeqMonotonic
  <1>4. Meant(build, [type |-> "body", value |-> << >>, wire |-> b])
    BY NothingMeant
  <1> QED BY <1>1, <1>2, <1>3, <1>4, PackStep

(* What a program does with a buffer but packing into it.                      *)
LEMMA SBufferDoStep ==
  ASSUME CInv, NEW s, SBuffer(s), s.data = << >>, SBufferDo(s)
  PROVE  CInv'
  <1>1. /\ kind = "sbuffer" /\ UNCHANGED <<pvars, compiler, build, kind>>
        /\ sink' = s /\ accepted' = << >> /\ call' = NoCall /\ calls' = calls + 1
        /\ broken' = broken
    BY DEF SBufferDo
  <1>2. calls' \in Nat /\ accepted' \in Seq(Int) /\ broken' \in BOOLEAN
    BY <1>1 DEF CInv, Packing
  <1>3. Holds(kind, sink', calls', call', accepted', broken')
    BY <1>1, Zenon DEF Holds
  <1>4. RightOrder(build) => Meant(build, call')
    BY <1>1, NothingMeant DEF NoCall, None
  <1>5. kind # None
    BY <1>1 DEF None
  <1> QED BY <1>1, <1>2, <1>3, <1>4, <1>5, CallStep

LEMMA SBufferSteps ==
  ASSUME CInv, Release \/ Clear
  PROVE  CInv'
  <1>1. SBuffer(sbuffer_release(sink)) /\ sbuffer_release(sink).data = << >>
    BY DEF sbuffer_release, sbuffer_init, SBuffer
  <1>2. CASE Release
    <2> DEFINE s == sbuffer_release(sink)
    <2>1. SBuffer(s) /\ s.data = << >> /\ SBufferDo(s)
      BY <1>1, <1>2 DEF Release
    <2> HIDE DEF s
    <2> QED BY <2>1, SBufferDoStep
  <1>3. CASE Clear
    <2> DEFINE s == sbuffer_clear(sink)
    <2>1. SBuffer(sink)
      BY <1>3 DEF CInv, Packing, Holds, Clear, SBufferDo
    <2>2. s = [data |-> << >>, alloc |-> sink.alloc] /\ sink.alloc \in Nat
      BY <2>1 DEF SBuffer, sbuffer_clear
    <2>3. SBuffer(s) /\ s.data = << >> /\ SBufferDo(s)
      <3>1. SBufferDo(s)
        BY <1>3 DEF Clear
      <3> HIDE DEF s
      <3> QED BY <2>2, <3>1 DEF SBuffer
    <2> HIDE DEF s
    <2> QED BY <2>3, SBufferDoStep
  <1> QED BY <1>2, <1>3

LEMMA ZBufferSteps ==
  ASSUME CInv, Flush \/ Reset \/ ReleaseBuffer
  PROVE  CInv'
  <1>1. kind = "zbuffer" /\ kind # None /\ UNCHANGED <<pvars, compiler, build, kind>>
        /\ calls' = calls + 1
    BY DEF Flush, Reset, ReleaseBuffer, None
  <1>2. ZGood(sink) /\ (broken \/ sink.taken = accepted)
    BY <1>1 DEF CInv, Packing, Holds
  <1>3. calls' \in Nat /\ accepted \in Seq(Int) /\ broken \in BOOLEAN
    BY <1>1 DEF CInv, Packing
  <1>4. CASE Flush
    <2>1. PICK o \in zbuffer_flush(sink) :
            /\ sink' = o.to /\ call' = [type |-> "flush", value |-> sink, wire |-> o.ret]
      BY <1>4 DEF Flush
    <2>2. ZGood(o.to) /\ o.to.taken = sink.taken /\ Flushed(o.to, o.ret)
      BY <1>2, <2>1, ZBufferFlushes
    <2>3. accepted' = accepted /\ broken' = broken
      BY <1>4 DEF Flush
    <2>4. call'.type = "flush" /\ call'.wire = o.ret
      BY <2>1
    <2>5. Holds(kind, sink', calls', call', accepted', broken')
      <3>1. ZGood(sink') /\ (broken' \/ sink'.taken = accepted') /\ Flushed(sink', call'.wire)
        BY <1>2, <2>1, <2>2, <2>3, <2>4
      <3> QED BY <1>1, <3>1, Zenon DEF Holds
    <2>6. RightOrder(build) => Meant(build, call')
      BY <2>4, NothingMeant
    <2> QED BY <1>1, <1>3, <2>3, <2>5, <2>6, CallStep
  <1>5. CASE Reset
    <2>1. /\ sink' = zbuffer_reset(sink) /\ accepted' = << >> /\ broken' = FALSE
          /\ call' = NoCall
      BY <1>5 DEF Reset
    <2>2. ZGood(sink') /\ sink'.taken = accepted'
      BY <1>2, <2>1, ZBufferIsKept
    <2>3. call'.type = "none"
      BY <2>1 DEF NoCall, None
    <2>4. Holds(kind, sink', calls', call', accepted', broken')
      <3>1. call'.type # "flush"
        BY <2>3
      <3> QED BY <1>1, <2>2, <3>1, Zenon DEF Holds
    <2>5. RightOrder(build) => Meant(build, call')
      BY <2>3, NothingMeant
    <2>6. accepted' \in Seq(Int) /\ broken' \in BOOLEAN
      <3>1. << >> \in Seq(Int) /\ FALSE \in BOOLEAN
        OBVIOUS
      <3> QED BY <2>1, <3>1, Zenon
    <2> QED BY <1>1, <1>3, <2>4, <2>5, <2>6, CallStep
  <1>6. CASE ReleaseBuffer
    <2>1. /\ sink' = zbuffer_release_buffer(sink)
          /\ call'.type = "release" /\ accepted' = accepted /\ broken' = broken
      BY <1>6 DEF ReleaseBuffer
    <2>2. ZGood(sink') /\ (broken' \/ sink'.taken = accepted')
      BY <1>2, <2>1, ZBufferIsKept
    <2>3. Holds(kind, sink', calls', call', accepted', broken')
      <3>1. call'.type # "flush"
        BY <2>1
      <3> QED BY <1>1, <2>2, <3>1, Zenon DEF Holds
    <2>4. RightOrder(build) => Meant(build, call')
      BY <2>1, NothingMeant
    <2> QED BY <1>1, <1>3, <2>1, <2>3, <2>4, CallStep
  <1> QED BY <1>4, <1>5, <1>6

LEMMA ZoneSteps ==
  ASSUME CInv, ZoneMalloc \/ PushFinalizer \/ Swap
  PROVE  CInv'
  <1>1. /\ kind = "zones" /\ kind # None /\ UNCHANGED <<pvars, compiler, build, kind>>
        /\ calls' = calls + 1 /\ call' = call /\ accepted' = accepted /\ broken' = broken
    BY DEF ZoneMalloc, PushFinalizer, Swap, None
  <1>2. Zones(sink, calls) /\ calls \in Int
    BY <1>1 DEF CInv, Packing, Holds
  <1>3. Zones(sink', calls + 1)
    <2>1. CASE ZoneMalloc
      <3>1. PICK z \in {"a", "b"}, size \in Sizes, aligned \in BOOLEAN :
              \E o \in IF aligned THEN zone_malloc(sink[z], size, sink.brk)
                       ELSE zone_malloc_no_align(sink[z], size, sink.brk) :
                sink' = [sink EXCEPT ![z] = o.zone, !.brk = o.brk,
                           !.given = IF o.ret = 0 THEN @
                                     ELSE @ \cup {[block |-> Block(o.ret, size), aligned |-> aligned]}]
        BY <2>1, Zenon DEF ZoneMalloc
      <3>2. PICK o \in IF aligned THEN zone_malloc(sink[z], size, sink.brk)
                       ELSE zone_malloc_no_align(sink[z], size, sink.brk) :
                sink' = [sink EXCEPT ![z] = o.zone, !.brk = o.brk,
                           !.given = IF o.ret = 0 THEN @
                                     ELSE @ \cup {[block |-> Block(o.ret, size), aligned |-> aligned]}]
        BY <3>1, Zenon
      <3>3. size \in Nat \ {0}
        BY CallsAssumption
      <3> DEFINE s == [sink EXCEPT ![z] = o.zone, !.brk = o.brk,
                         !.given = IF o.ret = 0 THEN @
                                   ELSE @ \cup {[block |-> Block(o.ret, size), aligned |-> aligned]}]
      <3>4. Zones(s, calls + 1)
        BY ONLY <1>2, <3>3, ZonesMalloc, z \in {"a", "b"}, aligned \in BOOLEAN,
             o \in IF aligned THEN zone_malloc(sink[z], size, sink.brk)
                       ELSE zone_malloc_no_align(sink[z], size, sink.brk)
      <3>5. sink' = s
        BY <3>2
      <3> HIDE DEF s
      <3> QED BY <3>4, <3>5, Zenon
    <2>2. CASE PushFinalizer
      <3>1. PICK z \in {"a", "b"} : \E o \in push_finalizer(sink[z], calls) :
              sink' = [sink EXCEPT ![z] = o.zone,
                         !.pushed = IF o.ret THEN @ \cup {calls} ELSE @]
        BY <2>2, Zenon DEF PushFinalizer
      <3>0. PICK o \in push_finalizer(sink[z], calls) :
              sink' = [sink EXCEPT ![z] = o.zone,
                         !.pushed = IF o.ret THEN @ \cup {calls} ELSE @]
        BY <3>1, Zenon
      <3> DEFINE s == [sink EXCEPT ![z] = o.zone,
                         !.pushed = IF o.ret THEN @ \cup {calls} ELSE @]
      <3>2. Zones(s, calls + 1)
        BY ONLY <1>2, z \in {"a", "b"}, o \in push_finalizer(sink[z], calls), ZonesPush
      <3>3. sink' = s
        BY <3>0
      <3> HIDE DEF s
      <3> QED BY <3>2, <3>3, Zenon
    <2>3. CASE Swap
      BY <1>2, <2>3, ZonesSwap DEF Swap
    <2> QED BY <2>1, <2>2, <2>3
  <1>4. Holds(kind, sink', calls', call', accepted', broken')
    BY <1>1, <1>3, Zenon DEF Holds
  <1>5. calls' \in Nat /\ accepted' \in Seq(Int) /\ broken' \in BOOLEAN
    BY <1>1 DEF CInv, Packing
  <1>6. RightOrder(build) => Meant(build, call')
    <2>1. Compiled
      BY <1>1 DEF CInv, Packing, Compiled
    <2> QED BY <1>1, <2>1 DEF CInv, Meaning
  <1> QED BY <1>1, <1>4, <1>5, <1>6, CallStep

LEMMA CInvStep == CInv /\ [CNext]_cvars => CInv'
  <1> SUFFICES ASSUME CInv, [CNext]_cvars
               PROVE  CInv'
    OBVIOUS
  <1>1. CASE PNext /\ UNCHANGED <<compiler, build, progvars>>
    BY <1>1, PreprocessingStep
  <1>2. CASE Compile
    BY <1>2, CompileStep
  <1>3. CASE Start
    BY <1>3, StartStep
  <1>4. CASE PackAnInteger
    BY <1>4, PackAnIntegerStep
  <1>5. CASE PackAReal
    BY <1>5, PackARealStep
  <1>6. CASE PackAHeader
    BY <1>6, PackAHeaderStep
  <1>7. CASE PackABody
    BY <1>7, PackABodyStep
  <1>8. CASE Release \/ Clear
    BY <1>8, SBufferSteps
  <1>9. CASE Flush \/ Reset \/ ReleaseBuffer
    BY <1>9, ZBufferSteps
  <1>10. CASE ZoneMalloc \/ PushFinalizer \/ Swap
    BY <1>10, ZoneSteps
  <1>11. CASE UNCHANGED cvars
    BY <1>11 DEF cvars, pvars, progvars, CInv, Preprocessing, Building, Packing, Meaning, Compiled
  <1> QED BY <1>1, <1>2, <1>3, <1>4, <1>5, <1>6, <1>7, <1>8, <1>9, <1>10, <1>11 DEF CNext

LEMMA CInvAlways == CSpec => []CInv
  <1>1. CInit => CInv
    BY CInvInitially
  <1>2. CInv /\ [CNext]_cvars => CInv'
    BY CInvStep
  <1> QED BY <1>1, <1>2, PTL DEF CSpec

(* What a reader finds in a destination is what the calls that returned 0      *)
(* packed, whatever is packed, however sbuffer_write grows its block, and      *)
(* whenever realloc, the vector, the FILE or deflate refuses.                  *)
THEOREM DestinationsHoldTheCalls == CSpec => []Contents
  <1>1. CInv => Contents
    BY DEF CInv, Packing, Holds, Contents, SBuffer
  <1> QED BY <1>1, CInvAlways, PTL

(* For every ref_size: vrefbuffer_write keeps a reference to a variable of a   *)
(* packing function only when that has ref_size bytes at least; there are      *)
(* none of more than HeaderMax, so that with a larger ref_size none dangles.   *)
THEOREM NothingDangles == CSpec => []NoDanglingRef
  <1>1. CInv => NoDanglingRef
    BY DEF CInv, Packing, Holds, NoDanglingRef, VRefBuffer
  <1> QED BY <1>1, CInvAlways, PTL

(* The output of deflate stays whole and in order in a block that grows, is    *)
(* released or reset, and flush returns it all or had no room.                 *)
THEOREM CompressedOutputIsWhole == CSpec => []ZStream
  <1>1. CInv => ZStream
    <2> SUFFICES ASSUME CInv, kind = "zbuffer"
                 PROVE  /\ sink.data = [i \in 1 .. Len(sink.data) |-> sink.made - Len(sink.data) + i]
                        /\ Len(sink.data) + sink.avail_out = sink.block
                        /\ call.type = "flush" =>
                             IF call.wire = NULLBlock THEN sink.avail_out = 0
                             ELSE sink.state = "finished" /\ call.wire = sink.data
      BY DEF ZStream
    <2>1. ZGood(sink) /\ (call.type = "flush" => Flushed(sink, call.wire))
      BY DEF CInv, Packing, Holds
    <2>2. sink.data = [i \in 1 .. Len(sink.data) |-> sink.made - Len(sink.data) + i]
      <3> DEFINE data == sink.data
                 l == Len(data)
      <3>1. data \in Seq(Int) /\ \A i \in 1 .. l : data[i] = sink.made - l + i
        BY <2>1 DEF ZGood, ZType, InOrder
      <3>2. data = [i \in 1 .. l |-> data[i]]
        BY <3>1
      <3> QED BY <3>1, <3>2
    <2>3. Len(sink.data) + sink.avail_out = sink.block
      BY <2>1 DEF ZGood
    <2> QED BY <2>1, <2>2, <2>3 DEF Flushed
  <1> QED BY <1>1, CInvAlways, PTL

(* No two pieces of memory from the zones share a byte, each lies in a chunk   *)
(* and is aligned as promised; and the zones keep exactly the finalizers whose *)
(* push succeeded, each in one of them and in the order of the pushes: for     *)
(* every order of the calls, all sizes, and whichever malloc fails.            *)
THEOREM BlocksAreApart == CSpec => []ZoneBlocks
  <1>1. CInv => ZoneBlocks
    <2> SUFFICES ASSUME CInv, kind = "zones"
                 PROVE  ZoneBlocks
      BY DEF ZoneBlocks
    <2>1. Zones(sink, calls) /\ calls \in Int
      BY DEF CInv, Packing, Holds
    <2> QED BY <2>1, ZonesAreApart, Zenon DEF ZoneBlocks
  <1> QED BY <1>1, CInvAlways, PTL

(* Where the headers have settled on the machine's byte order, the bytes of    *)
(* every integer of every type and width mean that integer, and those of every *)
(* header its kind and length, for all platforms that tell the truth about     *)
(* their sizes, all values and all lengths.                                    *)
THEOREM WireIsTheValue == CSpec => [](OrderIsTheMachines => WireValue)
  <1>1. CInv => (OrderIsTheMachines => WireValue)
    <2> SUFFICES ASSUME CInv, OrderIsTheMachines
                 PROVE  WireValue
      OBVIOUS
    <2>1. Meant(build, call)
      <3>1. CASE Compiled
        BY <3>1 DEF CInv, Meaning, OrderIsTheMachines
      <3>2. CASE ~Compiled
        <4>1. call = NoCall
          BY <3>2 DEF CInv, Packing, Compiled
        <4> QED BY <4>1, NothingMeant DEF NoCall, None
      <3> QED BY <3>1, <3>2
    <2> QED BY <2>1, Zenon DEF Meant, WireValue, IsSigned, SignedFor
  <1> QED BY <1>1, CInvAlways, PTL

(* There a float and a double go out as their IEEE digits, also where the      *)
(* compiler keeps the words of a double swapped.                               *)
THEOREM WireIsTheReal == CSpec => [](OrderIsTheMachines => RealOnWire)
  <1>1. CInv => (OrderIsTheMachines => RealOnWire)
    <2> SUFFICES ASSUME CInv, OrderIsTheMachines
                 PROVE  RealOnWire
      OBVIOUS
    <2>1. Meant(build, call)
      <3>1. CASE Compiled
        BY <3>1 DEF CInv, Meaning, OrderIsTheMachines
      <3>2. CASE ~Compiled
        <4>1. call = NoCall
          BY <3>2 DEF CInv, Packing, Compiled
        <4> QED BY <4>1, NothingMeant DEF NoCall, None
      <3> QED BY <3>1, <3>2
    <2> QED BY <2>1 DEF Meant, RealOnWire
  <1> QED BY <1>1, CInvAlways, PTL

-------------------------------------------------------------------------------
(* The shortest form.  The 8 digits v of an integer are its w digits d behind  *)
(* their fill.                                                                 *)
Behind8(v, w, d, f) ==
  /\ v \in Digits(8)
  /\ \A i \in 1 .. w : v[8 - w + i] = d[i]
  /\ \A i \in 1 .. 8 - w : v[i] = f

LEMMA ExtendIs ==
  ASSUME NEW w \in Widths, NEW d \in Digits(w), NEW s \in BOOLEAN
  PROVE  Behind8(Extend(d, s), w, d, Fill(d, s))
  <1> DEFINE f == Fill(d, s)
             v == [i \in 1 .. 8 |-> IF i > 8 - w THEN d[i - (8 - w)] ELSE f]
  <1>1. Extend(d, s) = v
    BY DEF Extend, Digits, Fill
  <1>2. f \in Byte /\ w \in Nat /\ w <= 8 /\ \A i \in 1 .. w : d[i] \in Byte
    <2>1. f \in Byte
      <3>1. f \in {0, 255}
        BY DEF Fill
      <3> HIDE DEF f
      <3> QED BY <3>1 DEF Byte
    <2>2. w \in Nat /\ w <= 8
      BY DEF Widths
    <2> QED BY <2>1, <2>2 DEF Digits
  <1> HIDE DEF f
  <1>3. \A i \in 1 .. 8 : v[i] = (IF i > 8 - w THEN d[i - (8 - w)] ELSE f) /\ v[i] \in Byte
    <2> SUFFICES ASSUME NEW i \in 1 .. 8
                 PROVE  (IF i > 8 - w THEN d[i - (8 - w)] ELSE f) \in Byte
      OBVIOUS
    <2>1. i > 8 - w => i - (8 - w) \in 1 .. w
      BY <1>2
    <2> QED BY <1>2, <2>1
  <1>4. v \in Digits(8)
    BY <1>3 DEF Digits
  <1>5. \A i \in 1 .. w : v[8 - w + i] = d[i]
    <2> SUFFICES ASSUME NEW i \in 1 .. w
                 PROVE  v[8 - w + i] = d[i]
      OBVIOUS
    <2>1. 8 - w + i \in 1 .. 8 /\ 8 - w + i > 8 - w /\ (8 - w + i) - (8 - w) = i
      BY <1>2
    <2> HIDE DEF v
    <2> QED BY <1>3, <2>1
  <1>6. \A i \in 1 .. 8 - w : v[i] = f
    BY <1>2, <1>3
  <1> HIDE DEF v
  <1> QED BY <1>1, <1>4, <1>5, <1>6 DEF Behind8, f

(* Widening the last n of 8 digits gives the 8 back when the others are fill.  *)
LEMMA CutBack ==
  ASSUME NEW v \in Digits(8), NEW n \in Widths, NEW t \in BOOLEAN
  PROVE  Extend(Cast(v, n), t) = v
           <=> \A i \in 1 .. 8 - n : v[i] = Fill(Cast(v, n), t)
  <1> DEFINE c == Cast(v, n)
             u == Extend(c, t)
             f == Fill(c, t)
  <1>1. n \in Nat /\ n \in 0 .. 8 /\ n >= 1 /\ 8 \in Nat
    BY DEF Widths
  <1>2. c \in Digits(n) /\ \A i \in 1 .. n : c[i] = v[8 - n + i]
    BY <1>1, CastDigits
  <1>3. Behind8(u, n, c, f)
    BY <1>2, ExtendIs
  <1> HIDE DEF c, u, f
  <1>6. \A i \in 1 .. n : u[8 - n + i] = v[8 - n + i]
    BY <1>2, <1>3 DEF Behind8
  <1>7. \A i \in 1 .. 8 : i > 8 - n => u[i] = v[i]
    <2> SUFFICES ASSUME NEW i \in 1 .. 8, i > 8 - n
                 PROVE  u[i] = v[i]
      OBVIOUS
    <2>1. i - (8 - n) \in 1 .. n /\ 8 - n + (i - (8 - n)) = i
      BY <1>1
    <2> QED BY <1>6, <2>1
  <1>8. ASSUME \A i \in 1 .. 8 - n : v[i] = f
        PROVE  u = v
    <2>1. \A i \in 1 .. 8 : u[i] = v[i]
      BY <1>1, <1>3, <1>7, <1>8 DEF Behind8
    <2> QED BY <1>1, <1>3, <2>1, SameDigits DEF Behind8
  <1>9. ASSUME u = v
        PROVE  \A i \in 1 .. 8 - n : v[i] = f
    BY <1>3, <1>9 DEF Behind8
  <1>10. u = v <=> \A i \in 1 .. 8 - n : v[i] = f
    BY <1>8, <1>9
  <1> QED BY <1>10 DEF u, c, f

(* So n digits hold an integer that is not below 0 when Fits says so, ...      *)
LEMMA HeldFrom0 ==
  ASSUME NEW w \in Widths, NEW d \in Digits(w), NEW v, Behind8(v, w, d, 0), NEW n \in Widths
  PROVE  Extend(Cast(v, n), FALSE) = v <=> n >= w \/ Fits(d, n)
  <1>1. n \in Nat /\ n <= 8 /\ n >= 1 /\ w \in Nat /\ w <= 8 /\ Len(d) = w
    BY DEF Widths, Digits
  <1>2. v \in Digits(8)
    BY DEF Behind8
  <1> DEFINE t == FALSE
  <1>3. t \in BOOLEAN /\ t = FALSE
    OBVIOUS
  <1> HIDE DEF t
  <1>4. Extend(Cast(v, n), t) = v <=> \A i \in 1 .. 8 - n : v[i] = Fill(Cast(v, n), t)
    BY <1>2, <1>3, CutBack
  <1>5. Extend(Cast(v, n), t) = v <=> \A i \in 1 .. 8 - n : v[i] = 0
    <2>1. Fill(Cast(v, n), t) = 0
      BY DEF Fill, t
    <2> QED BY <1>4, <2>1
  <1>6. ASSUME \A i \in 1 .. 8 - n : v[i] = 0, ~(n >= w)
        PROVE  Fits(d, n)
    <2>1. ASSUME NEW i \in 1 .. w - n
          PROVE  d[i] = 0
      <3>1. i \in 1 .. w /\ 8 - w + i \in 1 .. 8 - n
        BY <1>1, <2>1
      <3> QED BY <1>6, <3>1 DEF Behind8
    <2> QED BY <1>1, <2>1 DEF Fits
  <1>7. ASSUME n >= w \/ Fits(d, n), NEW i \in 1 .. 8 - n
        PROVE  v[i] = 0
    <2>1. CASE i <= 8 - w
      BY <1>1, <2>1 DEF Behind8
    <2>2. CASE ~(i <= 8 - w)
      <3>1. i - (8 - w) \in 1 .. w - n /\ i - (8 - w) \in 1 .. w /\ 8 - w + (i - (8 - w)) = i
            /\ ~(n >= w)
        BY <1>1, <2>2
      <3>2. d[i - (8 - w)] = 0
        BY <1>1, <1>7, <3>1 DEF Fits
      <3> QED BY <3>1, <3>2 DEF Behind8
    <2> QED BY <2>1, <2>2
  <1> QED BY <1>3, <1>5, <1>6, <1>7

(* ... and one below 0 when FitsBelow0 does.                                   *)
LEMMA HeldBelow0 ==
  ASSUME NEW w \in Widths, NEW d \in Digits(w), NEW v, Behind8(v, w, d, 255), Below0(d),
         NEW n \in Widths
  PROVE  Extend(Cast(v, n), TRUE) = v <=> n >= w \/ FitsBelow0(d, n)
  <1>1. n \in Nat /\ n <= 8 /\ n >= 1 /\ w \in Nat /\ w <= 8 /\ w >= 1 /\ Len(d) = w
    BY DEF Widths, Digits
  <1>2. v \in Digits(8)
    BY DEF Behind8
  <1> DEFINE t == TRUE
  <1>3. t \in BOOLEAN /\ t = TRUE
    OBVIOUS
  <1> HIDE DEF t
  <1>4. Extend(Cast(v, n), t) = v <=> \A i \in 1 .. 8 - n : v[i] = Fill(Cast(v, n), t)
    BY <1>2, <1>3, CutBack
  <1>5. Extend(Cast(v, n), t) = v
          <=> \A i \in 1 .. 8 - n : v[i] = IF v[9 - n] >= 128 THEN 255 ELSE 0
    <2>1. Cast(v, n)[1] = v[9 - n]
      <3>1. 1 \in 1 .. n /\ 8 - n + 1 = 9 - n /\ n \in 0 .. 8 /\ 8 \in Nat
        BY <1>1
      <3> QED BY <1>2, <3>1, CastDigits
    <2>2. Fill(Cast(v, n), t) = IF Cast(v, n)[1] >= 128 THEN 255 ELSE 0
      BY DEF Fill, t
    <2> QED BY <1>4, <2>1, <2>2
  <1>6. v[1] >= 128
    <2>1. CASE w = 8
      <3>1. 1 \in 1 .. w /\ 8 - w + 1 = 1
        BY <2>1
      <3> QED BY <3>1 DEF Behind8, Below0
    <2>2. CASE w < 8
      <3>1. 1 \in 1 .. 8 - w
        BY <1>1, <2>2
      <3> QED BY <3>1 DEF Behind8
    <2> QED BY <1>1, <2>1, <2>2
  <1>7. ASSUME \A i \in 1 .. 8 - n : v[i] = IF v[9 - n] >= 128 THEN 255 ELSE 0, ~(n >= w)
        PROVE  FitsBelow0(d, n)
    <2>1. 1 \in 1 .. 8 - n
      BY <1>1, <1>7
    <2>2. v[9 - n] >= 128
      BY <1>6, <1>7, <2>1
    <2>3. d[w - n + 1] = v[9 - n]
      <3>1. w - n + 1 \in 1 .. w /\ 8 - w + (w - n + 1) = 9 - n
        BY <1>1, <1>7
      <3> QED BY <3>1 DEF Behind8
    <2>4. ASSUME NEW i \in 1 .. w - n
          PROVE  d[i] = 255
      <3>1. i \in 1 .. w /\ 8 - w + i \in 1 .. 8 - n
        BY <1>1, <2>4
      <3> QED BY <1>7, <2>2, <3>1 DEF Behind8
    <2> QED BY <1>1, <2>2, <2>3, <2>4 DEF FitsBelow0
  <1>8. ASSUME n >= w \/ FitsBelow0(d, n), NEW i \in 1 .. 8 - n
        PROVE  v[i] = 255 /\ v[9 - n] >= 128
    <2>1. CASE n >= w
      <3>1. i \in 1 .. 8 - w
        BY <1>1, <2>1
      <3>2. v[i] = 255
        BY <3>1 DEF Behind8
      <3>3. CASE n = w
        <4>1. 1 \in 1 .. w /\ 8 - w + 1 = 9 - n
          BY <1>1, <3>3
        <4> QED BY <3>2, <4>1 DEF Behind8, Below0
      <3>4. CASE n > w
        <4>1. 9 - n \in 1 .. 8 - w
          BY <1>1, <3>4
        <4> QED BY <3>2, <4>1 DEF Behind8
      <3> QED BY <1>1, <2>1, <3>3, <3>4
    <2>2. CASE ~(n >= w)
      <3>1. d[w - n + 1] >= 128 /\ \A j \in 1 .. w - n : d[j] = 255
        BY <1>1, <1>8, <2>2 DEF FitsBelow0
      <3>2. w - n + 1 \in 1 .. w /\ 8 - w + (w - n + 1) = 9 - n
        BY <1>1, <2>2
      <3>3. v[9 - n] >= 128
        BY <3>1, <3>2 DEF Behind8
      <3>4. CASE i <= 8 - w
        BY <1>1, <3>3, <3>4 DEF Behind8
      <3>5. CASE ~(i <= 8 - w)
        <4>1. i - (8 - w) \in 1 .. w - n /\ i - (8 - w) \in 1 .. w /\ 8 - w + (i - (8 - w)) = i
          BY <1>1, <2>2, <3>5
        <4> QED BY <3>1, <3>3, <4>1 DEF Behind8
      <3> QED BY <3>4, <3>5
    <2> QED BY <2>1, <2>2
  <1>9. ASSUME n >= w \/ FitsBelow0(d, n), NEW i \in 1 .. 8 - n
        PROVE  v[i] = IF v[9 - n] >= 128 THEN 255 ELSE 0
    BY <1>8, <1>9
  <1> QED BY <1>3, <1>5, <1>7, <1>9

(* The least of some widths.                                                   *)
LEMMA LeastWidth ==
  ASSUME NEW H \in SUBSET Widths, NEW n \in H, \A k \in H : n <= k
  PROVE  (CHOOSE m \in H : \A k \in H : m <= k) = n
  <1> DEFINE m == CHOOSE i \in H : \A k \in H : i <= k
  <1>1. m \in H /\ \A k \in H : m <= k
    OBVIOUS
  <1> HIDE DEF m
  <1>2. m \in Nat /\ n \in Nat /\ m <= n /\ n <= m
    BY <1>1 DEF Widths
  <1> QED BY <1>2 DEF m

(* How many bytes the functions take, by what holds the integer.               *)
Steps(tiny, in1, in2, in4) ==
  IF tiny THEN 1 ELSE IF in1 THEN 2 ELSE IF in2 THEN 3 ELSE IF in4 THEN 5 ELSE 9

(* The last n digits say all of v.                                             *)
Kept(v, n, neg) == Extend(Cast(v, n), neg) = v

(* ShortestLen looks for the least width that keeps the integer.               *)
LEMMA ShortestIs ==
  ASSUME NEW v, NEW neg, Kept(v, 8, neg)
  PROVE  ShortestLen(v, neg) =
           Steps(Kept(v, 1, neg) /\ IF neg THEN v[8] >= 224 ELSE v[8] < 128,
                 Kept(v, 1, neg), Kept(v, 2, neg), Kept(v, 4, neg))
  <1> DEFINE H == {n \in {1, 2, 4, 8} : Extend(Cast(v, n), neg) = v}
             tiny == Kept(v, 1, neg) /\ IF neg THEN v[8] >= 224 ELSE v[8] < 128
             in1 == Kept(v, 1, neg)
             in2 == Kept(v, 2, neg)
             in4 == Kept(v, 4, neg)
             least == CHOOSE n \in H : \A k \in H : n <= k
  <1>1. /\ 1 \in H <=> in1
        /\ 2 \in H <=> in2
        /\ 4 \in H <=> in4
        /\ 8 \in H
    BY DEF Kept
  <1>2. ShortestLen(v, neg) = IF tiny THEN 1 ELSE 1 + least
    BY DEF ShortestLen, Kept
  <1>3. H \subseteq {1, 2, 4, 8} /\ H \in SUBSET Widths
    BY DEF Widths
  <1> HIDE DEF H
  <1>4. 1 \in H => least = 1
    <2> SUFFICES ASSUME 1 \in H PROVE least = 1
      OBVIOUS
    <2>1. \A k \in H : 1 <= k
      BY <1>3
    <2> QED BY <1>1, <1>3, <2>1, LeastWidth DEF least
  <1>5. 1 \notin H /\ 2 \in H => least = 2
    <2> SUFFICES ASSUME 1 \notin H, 2 \in H PROVE least = 2
      OBVIOUS
    <2>1. \A k \in H : 2 <= k
      BY <1>3
    <2> QED BY <1>1, <1>3, <2>1, LeastWidth DEF least
  <1>6. 1 \notin H /\ 2 \notin H /\ 4 \in H => least = 4
    <2> SUFFICES ASSUME 1 \notin H, 2 \notin H, 4 \in H PROVE least = 4
      OBVIOUS
    <2>1. \A k \in H : 4 <= k
      BY <1>3
    <2> QED BY <1>1, <1>3, <2>1, LeastWidth DEF least
  <1>7. 1 \notin H /\ 2 \notin H /\ 4 \notin H => least = 8
    <2> SUFFICES ASSUME 1 \notin H, 2 \notin H, 4 \notin H PROVE least = 8
      OBVIOUS
    <2>1. \A k \in H : 8 <= k
      BY <1>3
    <2> QED BY <1>1, <1>3, <2>1, LeastWidth DEF least
  <1> HIDE DEF least, tiny, in1, in2, in4
  <1>8. (IF tiny THEN 1 ELSE 1 + least) = Steps(tiny, in1, in2, in4)
    <2>1. CASE tiny
      BY <2>1, Zenon DEF Steps
    <2>2. CASE ~tiny /\ in1
      <3>1. Steps(tiny, in1, in2, in4) = 2
        BY <2>2, Zenon DEF Steps
      <3>2. (IF tiny THEN 1 ELSE 1 + least) = 2
        BY <1>1, <1>4, <2>2
      <3> QED BY <3>1, <3>2, Zenon
    <2>3. CASE ~tiny /\ ~in1 /\ in2
      <3>1. Steps(tiny, in1, in2, in4) = 3
        BY <2>3, Zenon DEF Steps
      <3>2. (IF tiny THEN 1 ELSE 1 + least) = 3
        BY <1>1, <1>5, <2>3
      <3> QED BY <3>1, <3>2, Zenon
    <2>4. CASE ~tiny /\ ~in1 /\ ~in2 /\ in4
      <3>1. Steps(tiny, in1, in2, in4) = 5
        BY <2>4, Zenon DEF Steps
      <3>2. (IF tiny THEN 1 ELSE 1 + least) = 5
        BY <1>1, <1>6, <2>4
      <3> QED BY <3>1, <3>2, Zenon
    <2>5. CASE ~tiny /\ ~in1 /\ ~in2 /\ ~in4
      <3>1. Steps(tiny, in1, in2, in4) = 9
        BY <2>5, Zenon DEF Steps
      <3>2. (IF tiny THEN 1 ELSE 1 + least) = 9
        BY <1>1, <1>7, <2>5
      <3> QED BY <3>1, <3>2, Zenon
    <2> QED BY <2>1, <2>2, <2>3, <2>4, <2>5
  <1> QED BY <1>2, <1>8 DEF tiny, in1, in2, in4

(* The bytes of a form.                                                        *)
LEMMA FormLengths ==
  ASSUME NEW b, NEW w \in Widths, NEW d \in Digits(w), NEW h \in Int
  PROVE  /\ Len(<<Take8(b, w, d)>>) = 1 /\ Len(<<h, Take8(b, w, d)>>) = 2
         /\ w # 1 => Len(<<h>> \o Store16(b, d)) = 3
         /\ w \notin {1, 2} => Len(<<h>> \o Store32(b, d)) = 5
         /\ w \notin {1, 2, 4} => Len(<<h>> \o Store64(b, d)) = 9
  <1>1. w \in Nat /\ (w # 1 => w >= 2) /\ (w \notin {1, 2} => w >= 4)
        /\ (w \notin {1, 2, 4} => w >= 8)
    BY DEF Widths
  <1>2. Take8(b, w, d) \in Int
    BY Taken8
  <1>3. ASSUME NEW k \in Nat, NEW e \in Digits(k)
        PROVE  Len(<<h>> \o e) = 1 + k
    <2>1. e \in Seq(Int) /\ Len(e) = k
      <3>1. e \in Seq(Byte) /\ Len(e) = k /\ Byte \subseteq Int
        BY DEF Digits, Byte
      <3> QED BY <3>1, SeqMonotonic
    <2>2. <<h>> \in Seq(Int) /\ Len(<<h>>) = 1
      OBVIOUS
    <2> QED BY <2>1, <2>2
  <1>4. w # 1 => Len(<<h>> \o Store16(b, d)) = 3
    BY <1>1, <1>3, Stores16
  <1>5. w \notin {1, 2} => Len(<<h>> \o Store32(b, d)) = 5
    BY <1>1, <1>3, Stores32
  <1>6. w \notin {1, 2, 4} => Len(<<h>> \o Store64(b, d)) = 9
    BY <1>1, <1>3, Stores64
  <1> QED BY <1>2, <1>4, <1>5, <1>6

(* How many bytes an unsigned integer takes, ...                               *)
LEMMA UnsignedLength ==
  ASSUME NEW b, NEW w \in Widths, NEW d \in Digits(w)
  PROVE  Len(RealUnsigned(b, w, d)) =
           Steps(IsFixnum(d), w = 1 \/ Fits(d, 1), w = 2 \/ Below2To16(b, w, d), w = 4 \/ Fits(d, 4))
  <1> DEFINE tiny == IsFixnum(d)
             in1 == w = 1 \/ Fits(d, 1)
             in2 == w = 2 \/ Below2To16(b, w, d)
             in4 == w = 4 \/ Fits(d, 4)
             s1 == <<Take8(b, w, d)>>
             s2 == <<204, Take8(b, w, d)>>
             s3 == <<205>> \o Store16(b, d)
             s5 == <<206>> \o Store32(b, d)
             s9 == <<207>> \o Store64(b, d)
  <1>1. RealUnsigned(b, w, d) =
          IF tiny THEN s1 ELSE IF in1 THEN s2 ELSE IF in2 THEN s3 ELSE IF in4 THEN s5 ELSE s9
    BY Zenon DEF RealUnsigned
  <1>2. /\ Len(s1) = 1 /\ Len(s2) = 2 /\ (~in1 => Len(s3) = 3) /\ (~in1 /\ ~in2 => Len(s5) = 5)
        /\ (~in1 /\ ~in2 /\ ~in4 => Len(s9) = 9)
    BY FormLengths
  <1> HIDE DEF tiny, in1, in2, in4, s1, s2, s3, s5, s9
  <1>3. Len(RealUnsigned(b, w, d)) = Steps(tiny, in1, in2, in4)
    BY <1>1, <1>2, Zenon DEF Steps
  <1> QED BY <1>3 DEF tiny, in1, in2, in4

(* ... and a signed one below 0.                                               *)
LEMMA SignedLength ==
  ASSUME NEW b, NEW w \in Widths, NEW d \in Digits(w), Below0(d)
  PROVE  Len(RealSigned(b, w, d)) =
           Steps(IsNegativeFixnum(d), w = 1 \/ FitsBelow0(d, 1), w = 2 \/ FitsBelow0(d, 2),
                 w = 4 \/ FitsBelow0(d, 4))
  <1> DEFINE tiny == IsNegativeFixnum(d)
             in1 == w = 1 \/ FitsBelow0(d, 1)
             in2 == w = 2 \/ FitsBelow0(d, 2)
             in4 == w = 4 \/ FitsBelow0(d, 4)
             s1 == <<Take8(b, w, d)>>
             s2 == <<208, Take8(b, w, d)>>
             s3 == <<209>> \o Store16(b, d)
             s5 == <<210>> \o Store32(b, d)
             s9 == <<211>> \o Store64(b, d)
  <1>1. RealSigned(b, w, d) =
          IF tiny THEN s1 ELSE IF in1 THEN s2 ELSE IF in2 THEN s3 ELSE IF in4 THEN s5 ELSE s9
    BY Zenon DEF RealSigned
  <1>2. /\ Len(s1) = 1 /\ Len(s2) = 2 /\ (~in1 => Len(s3) = 3) /\ (~in1 /\ ~in2 => Len(s5) = 5)
        /\ (~in1 /\ ~in2 /\ ~in4 => Len(s9) = 9)
    BY FormLengths
  <1> HIDE DEF tiny, in1, in2, in4, s1, s2, s3, s5, s9
  <1>3. Len(RealSigned(b, w, d)) = Steps(tiny, in1, in2, in4)
    BY <1>1, <1>2, Zenon DEF Steps
  <1> QED BY <1>3 DEF tiny, in1, in2, in4

IntSized(b) == b.sizeof["int"] \in {2, 4, 8}

(* Where an int of 2 bytes hides the 16 bit form.                              *)
Hidden(b, w, long, shortest) == b.sizeof["int"] = 2 /\ w = 4 /\ shortest = 3 /\ long = 5

(* No other form is shorter for an integer from 0 up, ...                      *)
LEMMA UnsignedShortest ==
  ASSUME NEW b, IntSized(b), NEW w \in Widths, NEW d \in Digits(w), NEW v,
         Behind8(v, w, d, 0)
  PROVE  LET long == Len(RealUnsigned(b, w, d))
             shortest == ShortestLen(v, FALSE)
         IN long = shortest \/ Hidden(b, w, long, shortest)
  <1> DEFINE neg == FALSE
  <1>0. w \in Nat /\ w >= 1 /\ w <= 8 /\ w \in {1, 2, 4, 8} /\ Len(d) = w
    BY DEF Widths, Digits
  <1>1. \A n \in Widths : Kept(v, n, neg) <=> n >= w \/ Fits(d, n)
    BY HeldFrom0 DEF Kept
  <1>2. v[8] = d[w] /\ Last(d) = d[w]
    <2>1. w \in 1 .. w /\ 8 - w + w = 8
      BY <1>0
    <2> QED BY <1>0, <2>1 DEF Behind8, Last
  <1>3. Kept(v, 8, neg) /\ 1 \in Widths /\ 2 \in Widths /\ 4 \in Widths
    BY <1>0, <1>1 DEF Widths
  <1>4. w = 1 => Fits(d, 1)
    BY <1>0 DEF Fits
  <1>5. /\ Kept(v, 1, neg) <=> w = 1 \/ Fits(d, 1)
        /\ w # 1 => (Kept(v, 2, neg) <=> w = 2 \/ Fits(d, 2))
        /\ w # 1 /\ w # 2 => (Kept(v, 4, neg) <=> w = 4 \/ Fits(d, 4))
    <2> HIDE DEF neg
    <2>1. /\ 1 >= w <=> w = 1
          /\ w # 1 => (2 >= w <=> w = 2)
          /\ w # 1 /\ w # 2 => (4 >= w <=> w = 4)
      BY <1>0
    <2>2. /\ Kept(v, 1, neg) <=> 1 >= w \/ Fits(d, 1)
          /\ Kept(v, 2, neg) <=> 2 >= w \/ Fits(d, 2)
          /\ Kept(v, 4, neg) <=> 4 >= w \/ Fits(d, 4)
      BY <1>1, <1>3, Zenon
    <2> QED BY <2>1, <2>2, Zenon
  <1>6. IsFixnum(d) <=> Kept(v, 1, neg) /\ IF neg THEN v[8] >= 224 ELSE v[8] < 128
    <2>1. (v[8] < 128) = (Last(d) < 128)
      BY <1>2
    <2>2. Kept(v, 1, neg) <=> Fits(d, 1)
      BY <1>4, <1>5, Zenon
    <2> QED BY <2>1, <2>2, Zenon DEF IsFixnum
  <1> HIDE DEF neg
  <1>7. ShortestLen(v, neg) =
           Steps(Kept(v, 1, neg) /\ IF neg THEN v[8] >= 224 ELSE v[8] < 128,
                 Kept(v, 1, neg), Kept(v, 2, neg), Kept(v, 4, neg))
    BY <1>3, ShortestIs
  <1>8. ShortestLen(v, neg) =
           Steps(IsFixnum(d), w = 1 \/ Fits(d, 1), w = 2 \/ Fits(d, 2), w = 4 \/ Fits(d, 4))
    <2> DEFINE a1 == Kept(v, 1, neg) /\ IF neg THEN v[8] >= 224 ELSE v[8] < 128
               b1 == IsFixnum(d)
               b2 == w = 1 \/ Fits(d, 1)
               b3 == w = 2 \/ Fits(d, 2)
               b4 == w = 4 \/ Fits(d, 4)
    <2>1. /\ a1 <=> b1
          /\ Kept(v, 1, neg) <=> b2
          /\ ~b2 => (Kept(v, 2, neg) <=> b3)
          /\ ~b2 /\ ~b3 => (Kept(v, 4, neg) <=> b4)
      BY <1>5, <1>6, Zenon
    <2> HIDE DEF a1, b1, b2, b3, b4
    <2>2. Steps(a1, Kept(v, 1, neg), Kept(v, 2, neg), Kept(v, 4, neg)) = Steps(b1, b2, b3, b4)
      BY <2>1, Zenon DEF Steps
    <2> QED BY <1>7, <2>2 DEF a1, b1, b2, b3, b4
  <1> DEFINE b1 == IsFixnum(d)
             b2 == w = 1 \/ Fits(d, 1)
             b3 == w = 2 \/ Fits(d, 2)
             c3 == w = 2 \/ Below2To16(b, w, d)
             b4 == w = 4 \/ Fits(d, 4)
  <1>9. \/ c3 <=> b3
        \/ b.sizeof["int"] = 2 /\ w = 4 /\ b3 /\ ~c3 /\ b4
    BY <1>0 DEF Below2To16, IntSized
  <1>10. Len(RealUnsigned(b, w, d)) = Steps(b1, b2, c3, b4)
    BY UnsignedLength
  <1> HIDE DEF b1, b2, b3, c3, b4
  <1>11. \/ Steps(b1, b2, c3, b4) = Steps(b1, b2, b3, b4)
         \/ Hidden(b, w, Steps(b1, b2, c3, b4), Steps(b1, b2, b3, b4))
    BY <1>9 DEF Steps, Hidden
  <1>12. ShortestLen(v, FALSE) = Steps(b1, b2, b3, b4)
    BY <1>8 DEF neg, b1, b2, b3, b4
  <1> QED BY <1>10, <1>11, <1>12

(* ... nor for one below 0, ...                                                *)
LEMMA SignedShortest ==
  ASSUME NEW b, NEW w \in Widths, NEW d \in Digits(w), NEW v, Behind8(v, w, d, 255), Below0(d)
  PROVE  Len(RealSigned(b, w, d)) = ShortestLen(v, TRUE)
  <1> DEFINE neg == TRUE
  <1>0. w \in Nat /\ w >= 1 /\ w <= 8 /\ w \in {1, 2, 4, 8} /\ Len(d) = w
    BY DEF Widths, Digits
  <1>1. \A n \in Widths : Kept(v, n, neg) <=> n >= w \/ FitsBelow0(d, n)
    BY HeldBelow0 DEF Kept
  <1>2. v[8] = d[w] /\ Last(d) = d[w]
    <2>1. w \in 1 .. w /\ 8 - w + w = 8
      BY <1>0
    <2> QED BY <1>0, <2>1 DEF Behind8, Last
  <1>3. Kept(v, 8, neg) /\ 1 \in Widths /\ 2 \in Widths /\ 4 \in Widths
    BY <1>0, <1>1 DEF Widths
  <1>4. w = 1 => FitsBelow0(d, 1)
    BY <1>0 DEF FitsBelow0, Below0
  <1>5. /\ Kept(v, 1, neg) <=> w = 1 \/ FitsBelow0(d, 1)
        /\ w # 1 => (Kept(v, 2, neg) <=> w = 2 \/ FitsBelow0(d, 2))
        /\ w # 1 /\ w # 2 => (Kept(v, 4, neg) <=> w = 4 \/ FitsBelow0(d, 4))
    <2> HIDE DEF neg
    <2>1. /\ 1 >= w <=> w = 1
          /\ w # 1 => (2 >= w <=> w = 2)
          /\ w # 1 /\ w # 2 => (4 >= w <=> w = 4)
      BY <1>0
    <2>2. /\ Kept(v, 1, neg) <=> 1 >= w \/ FitsBelow0(d, 1)
          /\ Kept(v, 2, neg) <=> 2 >= w \/ FitsBelow0(d, 2)
          /\ Kept(v, 4, neg) <=> 4 >= w \/ FitsBelow0(d, 4)
      BY <1>1, <1>3, Zenon
    <2> QED BY <2>1, <2>2, Zenon
  <1>6. IsNegativeFixnum(d) <=> Kept(v, 1, neg) /\ IF neg THEN v[8] >= 224 ELSE v[8] < 128
    <2>1. (v[8] >= 224) = (Last(d) >= 224)
      BY <1>2
    <2>2. Kept(v, 1, neg) <=> FitsBelow0(d, 1)
      BY <1>4, <1>5, Zenon
    <2> QED BY <2>1, <2>2, Zenon DEF IsNegativeFixnum
  <1> HIDE DEF neg
  <1>7. ShortestLen(v, neg) =
           Steps(Kept(v, 1, neg) /\ IF neg THEN v[8] >= 224 ELSE v[8] < 128,
                 Kept(v, 1, neg), Kept(v, 2, neg), Kept(v, 4, neg))
    BY <1>3, ShortestIs
  <1>8. ShortestLen(v, neg) =
           Steps(IsNegativeFixnum(d), w = 1 \/ FitsBelow0(d, 1), w = 2 \/ FitsBelow0(d, 2),
                 w = 4 \/ FitsBelow0(d, 4))
    <2> DEFINE a1 == Kept(v, 1, neg) /\ IF neg THEN v[8] >= 224 ELSE v[8] < 128
               b1 == IsNegativeFixnum(d)
               b2 == w = 1 \/ FitsBelow0(d, 1)
               b3 == w = 2 \/ FitsBelow0(d, 2)
               b4 == w = 4 \/ FitsBelow0(d, 4)
    <2>1. /\ a1 <=> b1
          /\ Kept(v, 1, neg) <=> b2
          /\ ~b2 => (Kept(v, 2, neg) <=> b3)
          /\ ~b2 /\ ~b3 => (Kept(v, 4, neg) <=> b4)
      BY <1>5, <1>6, Zenon
    <2> HIDE DEF a1, b1, b2, b3, b4
    <2>2. Steps(a1, Kept(v, 1, neg), Kept(v, 2, neg), Kept(v, 4, neg)) = Steps(b1, b2, b3, b4)
      BY <2>1, Zenon DEF Steps
    <2> QED BY <1>7, <2>2 DEF a1, b1, b2, b3, b4
  <1> QED BY <1>8, SignedLength DEF neg

(* The bytes p are the shortest form of the integer d, signed or not, but where *)
(* that is hidden.                                                             *)
Brief(b, p, d, s) ==
  LET v == Extend(d, s)
      negative == s /\ v[1] >= 128
      shortest == ShortestLen(v, negative)
  IN \/ Len(p) = shortest
     \/ ~negative /\ Hidden(b, Len(d), Len(p), shortest)

LEMMA RealBrief ==
  ASSUME NEW b, IntSized(b), NEW w \in Widths, NEW d \in Digits(w)
  PROVE  Brief(b, RealUnsigned(b, w, d), d, FALSE) /\ Brief(b, RealSigned(b, w, d), d, TRUE)
  <1>0. w \in Nat /\ w >= 1 /\ w <= 8 /\ d[1] \in Byte /\ Len(d) = w
    BY DEF Widths, Digits
  <1>1. Brief(b, RealUnsigned(b, w, d), d, FALSE)
    <2> DEFINE s == FALSE
               v == Extend(d, s)
               long == Len(RealUnsigned(b, w, d))
    <2>1. s \in BOOLEAN /\ Fill(d, s) = 0
      BY DEF Fill
    <2> HIDE DEF s
    <2>2. Behind8(v, w, d, 0)
      BY <2>1, ExtendIs
    <2> HIDE DEF v
    <2>3. long = ShortestLen(v, FALSE) \/ Hidden(b, w, long, ShortestLen(v, FALSE))
      BY <2>2, UnsignedShortest
    <2>4. (s /\ v[1] >= 128) = FALSE
      BY DEF s
    <2> HIDE DEF long
    <2>5. \/ long = ShortestLen(v, s /\ v[1] >= 128)
          \/ ~(s /\ v[1] >= 128) /\ Hidden(b, Len(d), long, ShortestLen(v, s /\ v[1] >= 128))
      BY <1>0, <2>3, <2>4, Zenon
    <2> QED BY <2>5, Zenon DEF Brief, v, s, long
  <1>2. Brief(b, RealSigned(b, w, d), d, TRUE)
    <2> DEFINE s == TRUE
               v == Extend(d, s)
               f == Fill(d, s)
    <2>1. s \in BOOLEAN /\ s = TRUE
      OBVIOUS
    <2>2. f = IF Below0(d) THEN 255 ELSE 0
      BY DEF Fill, Below0
    <2> HIDE DEF s
    <2>3. Behind8(v, w, d, f)
      BY <2>1, ExtendIs
    <2> HIDE DEF v, f
    <2>4. v[1] >= 128 <=> Below0(d)
      <3>1. CASE w = 8
        <4>1. 1 \in 1 .. w /\ 8 - w + 1 = 1
          BY <3>1
        <4>2. v[1] = d[1]
          BY <2>3, <4>1 DEF Behind8
        <4> QED BY <4>2 DEF Below0
      <3>2. CASE w < 8
        <4>1. 1 \in 1 .. 8 - w
          BY <1>0, <3>2
        <4>2. v[1] = f
          BY <2>3, <4>1 DEF Behind8
        <4> QED BY <2>2, <4>2
      <3> QED BY <1>0, <3>1, <3>2
    <2>5. CASE Below0(d)
      <3>1. Len(RealSigned(b, w, d)) = ShortestLen(v, TRUE)
        BY <2>2, <2>3, <2>5, SignedShortest
      <3>2. (s /\ v[1] >= 128) = TRUE
        BY <2>1, <2>4, <2>5
      <3>3. Len(RealSigned(b, w, d)) = ShortestLen(v, s /\ v[1] >= 128)
        BY <3>1, <3>2
      <3> QED BY <3>3, Zenon DEF Brief, v, s
    <2>6. CASE ~Below0(d)
      <3>1. RealSigned(b, w, d) = RealUnsigned(b, w, d)
        BY <2>6, Zenon DEF RealSigned
      <3> DEFINE long == Len(RealSigned(b, w, d))
      <3>2. long = ShortestLen(v, FALSE) \/ Hidden(b, w, long, ShortestLen(v, FALSE))
        <4>1. Behind8(v, w, d, 0)
          BY <2>2, <2>3, <2>6
        <4>2. \/ Len(RealUnsigned(b, w, d)) = ShortestLen(v, FALSE)
              \/ Hidden(b, w, Len(RealUnsigned(b, w, d)), ShortestLen(v, FALSE))
          BY <4>1, UnsignedShortest
        <4> QED BY <3>1, <4>2, Zenon
      <3>3. (s /\ v[1] >= 128) = FALSE
        BY <2>1, <2>4, <2>6
      <3> HIDE DEF long
      <3>4. \/ long = ShortestLen(v, s /\ v[1] >= 128)
            \/ ~(s /\ v[1] >= 128) /\ Hidden(b, Len(d), long, ShortestLen(v, s /\ v[1] >= 128))
        BY <1>0, <3>2, <3>3, Zenon
      <3> QED BY <3>4, Zenon DEF Brief, v, s, long
    <2> QED BY <2>5, <2>6
  <1> QED BY <1>1, <1>2

(* The types whose functions choose the form.                                  *)
BriefTypes == IntegerTypes \ {"fix_uintN", "fix_intN"}

(* Each of them takes a function for the digits that the type has.             *)
LEMMA IntegerIsBrief ==
  ASSUME NEW b, TrueSizes(b), b.char_signed \in BOOLEAN, NEW type \in BriefTypes,
         NEW w \in WidthOf(b, type), NEW d \in Digits(w)
  PROVE  Brief(b, PackInteger(b, type, d), d, SignedFor(b, type))
  <1>0. type \in IntegerTypes
    BY DEF BriefTypes
  <1>1. /\ SignedFor(b, type) = Ways(b, type, w)[1]
        /\ w = Ways(b, type, w)[2]
        /\ type \in SizedTypes => w \in Widths
    BY <1>0, WaysAre
  <1>2. ASSUME NEW s, NEW p, Ways(b, type, w)[1] = s, PackInteger(b, type, d) = p, Brief(b, p, d, s)
        PROVE  Brief(b, PackInteger(b, type, d), d, SignedFor(b, type))
    BY <1>1, <1>2, Zenon
  <1>3. Len(d) = w
    BY DEF Digits
  <1>14. IntSized(b)
    BY DEF TrueSizes, Truthful, IntSized
  <1>4. ASSUME Ways(b, type, w)[1] = FALSE, w \in Widths,
               PackInteger(b, type, d) = RealUnsigned(b, w, d)
        PROVE  Brief(b, PackInteger(b, type, d), d, SignedFor(b, type))
    <2>1. Brief(b, RealUnsigned(b, w, d), d, FALSE)
      BY <1>4, <1>14, RealBrief, Zenon
    <2> QED BY <1>2, <1>4, <2>1
  <1>5. ASSUME Ways(b, type, w)[1] = TRUE, w \in Widths,
               PackInteger(b, type, d) = RealSigned(b, w, d)
        PROVE  Brief(b, PackInteger(b, type, d), d, SignedFor(b, type))
    <2>1. Brief(b, RealSigned(b, w, d), d, TRUE)
      BY <1>5, <1>14, RealBrief, Zenon
    <2> QED BY <1>2, <1>5, <2>1
  <1>6. ASSUME NEW SIZEOF, NEW MAX, NEW t, Truthful(b, SIZEOF, MAX, t), w = b.sizeof[t]
        PROVE  Bits(b, SIZEOF, MAX, t) = w /\ w \in Widths
    BY <1>6, BitsAreTrue
  <1>7. CASE type = "uintN"
    <2>1. Ways(b, type, w)[1] = FALSE /\ PackInteger(b, type, d) = RealUnsigned(b, w, d) /\ w \in Widths
      BY <1>1, <1>3, <1>7 DEF Ways, PackInteger, SizedTypes
    <2> QED BY <1>4, <2>1
  <1>8. CASE type = "intN"
    <2>1. Ways(b, type, w)[1] = TRUE /\ PackInteger(b, type, d) = RealSigned(b, w, d) /\ w \in Widths
      BY <1>1, <1>3, <1>8 DEF Ways, PackInteger, SizedTypes
    <2> QED BY <1>5, <2>1
  <1>9. CASE type = "char"
    <2>1. w = 1 /\ w \in Widths
      BY <1>1, <1>9 DEF Ways, Widths
    <2>2. CASE b.char_signed
      <3>1. Ways(b, type, w)[1] = TRUE
        BY <1>9, <2>2 DEF Ways
      <3>2. PackInteger(b, type, d) = RealSigned(b, w, d)
        BY <1>9, <2>1, <2>2 DEF PackInteger, pack_char
      <3> QED BY <1>5, <2>1, <3>1, <3>2
    <2>3. CASE ~b.char_signed
      <3>1. Ways(b, type, w)[1] = FALSE
        BY <1>9, <2>3 DEF Ways
      <3>2. PackInteger(b, type, d) = RealUnsigned(b, w, d)
        BY <1>9, <2>1, <2>3 DEF PackInteger, pack_char
      <3> QED BY <1>4, <2>1, <3>1, <3>2
    <2> QED BY <2>2, <2>3
  <1>10. CASE type = "signed_char"
    <2>1. Ways(b, type, w)[1] = TRUE /\ PackInteger(b, type, d) = RealSigned(b, w, d) /\ w \in Widths
      BY <1>1, <1>10 DEF Ways, PackInteger, pack_signed_char, Widths
    <2> QED BY <1>5, <2>1
  <1>11. CASE type = "unsigned_char"
    <2>1. Ways(b, type, w)[1] = FALSE /\ PackInteger(b, type, d) = RealUnsigned(b, w, d) /\ w \in Widths
      BY <1>1, <1>11 DEF Ways, PackInteger, pack_unsigned_char, Widths
    <2> QED BY <1>4, <2>1
  <1>12. CASE type \in {"short", "int", "long", "long_long"}
    <2>1. Ways(b, type, w)[1] = TRUE
      BY <1>12 DEF Ways
    <2>2. PackInteger(b, type, d) = RealSigned(b, w, d) /\ w \in Widths
      <3>1. CASE type = "short"
        <4>1. PackInteger(b, type, d) = pack_short(b, d) /\ w = b.sizeof["short"]
          BY <1>1, <3>1 DEF Ways, PackInteger
        <4> QED BY <1>6, <4>1 DEF TrueSizes, pack_short
      <3>2. CASE type = "int"
        <4>1. PackInteger(b, type, d) = pack_int(b, d) /\ w = b.sizeof["int"]
          BY <1>1, <3>2 DEF Ways, PackInteger
        <4> QED BY <1>6, <4>1 DEF TrueSizes, pack_int
      <3>3. CASE type = "long"
        <4>1. PackInteger(b, type, d) = pack_long(b, d) /\ w = b.sizeof["long"]
          BY <1>1, <3>3 DEF Ways, PackInteger
        <4> QED BY <1>6, <4>1 DEF TrueSizes, pack_long
      <3>4. CASE type = "long_long"
        <4>1. PackInteger(b, type, d) = pack_long_long(b, d) /\ w = b.sizeof["long_long"]
          BY <1>1, <3>4 DEF Ways, PackInteger
        <4> QED BY <1>6, <4>1 DEF TrueSizes, pack_long_long
      <3> QED BY <1>12, <3>1, <3>2, <3>3, <3>4
    <2> QED BY <1>5, <2>1, <2>2
  <1>13. CASE type \in UnsignedTypes \ {"unsigned_char"}
    <2>1. Ways(b, type, w)[1] = FALSE
      BY <1>13 DEF Ways, UnsignedTypes
    <2>2. PackInteger(b, type, d) = RealUnsigned(b, w, d) /\ w \in Widths
      <3>1. CASE type = "unsigned_short"
        <4>1. PackInteger(b, type, d) = pack_unsigned_short(b, d) /\ w = b.sizeof["short"]
          BY <1>1, <3>1 DEF Ways, PackInteger
        <4> QED BY <1>6, <4>1 DEF TrueSizes, pack_unsigned_short
      <3>2. CASE type = "unsigned_int"
        <4>1. PackInteger(b, type, d) = pack_unsigned_int(b, d) /\ w = b.sizeof["int"]
          BY <1>1, <3>2 DEF Ways, PackInteger
        <4> QED BY <1>6, <4>1 DEF TrueSizes, pack_unsigned_int
      <3>3. CASE type = "unsigned_long"
        <4>1. PackInteger(b, type, d) = pack_unsigned_long(b, d) /\ w = b.sizeof["long"]
          BY <1>1, <3>3 DEF Ways, PackInteger
        <4> QED BY <1>6, <4>1 DEF TrueSizes, pack_unsigned_long
      <3>4. CASE type = "unsigned_long_long"
        <4>1. PackInteger(b, type, d) = pack_unsigned_long_long(b, d) /\ w = b.sizeof["long_long"]
          BY <1>1, <3>4 DEF Ways, PackInteger
        <4> QED BY <1>6, <4>1 DEF TrueSizes, pack_unsigned_long_long
      <3> QED BY <1>13, <3>1, <3>2, <3>3, <3>4 DEF UnsignedTypes
    <2> QED BY <1>4, <2>1, <2>2
  <1> QED BY <1>7, <1>8, <1>9, <1>10, <1>11, <1>12, <1>13
          DEF BriefTypes, IntegerTypes, SignedTypes, UnsignedTypes, SizedTypes

(* The last call, if it packed an integer in a form of its choice, packed it   *)
(* in the shortest.                                                            *)
BriefCall(b, c) == c.type \in BriefTypes => Brief(b, c.wire, c.value, SignedFor(b, c.type))

(* The other calls pack no integer.                                            *)
LEMMA NothingBrief ==
  ASSUME NEW b, NEW c,
         c.type \in HeaderTypes \cup {"none", "body", "flush", "release", "float", "double"}
  PROVE  BriefCall(b, c)
  BY DEF BriefCall, BriefTypes, IntegerTypes, SignedTypes, UnsignedTypes, SizedTypes, HeaderTypes

(* Only PackAnInteger does.                                                    *)
LEMMA PackAnIntegerBrief ==
  ASSUME CInv, PackAnInteger
  PROVE  BriefCall(build, call)'
  <1>0. PICK type \in IntegerTypes : \E w \in Sizeof(type), v \in Values :
          Pack(type, Cast(v, w), PackInteger(build, type, Cast(v, w)), "stack", MaxCalls)
    BY DEF PackAnInteger
  <1>1. PICK w \in Sizeof(type), v \in Values :
          Pack(type, Cast(v, w), PackInteger(build, type, Cast(v, w)), "stack", MaxCalls)
    BY <1>0
  <1>2. Fit(build)
    BY CompiledIsFit DEF PackAnInteger
  <1>3. w \in WidthOf(build, type)
    BY DEF Sizeof, WidthOf, Widths
  <1>4. TrueSizes(build) /\ build.char_signed \in BOOLEAN
    BY <1>2 DEF Fit, Charted
  <1>5. w \in Widths
    <2>1. \A t \in {"short", "int", "long", "long_long"} : build.sizeof[t] \in Widths
      BY <1>4 DEF TrueSizes, Truthful, Widths
    <2>2. CType(type) \in {"short", "int", "long", "long_long"}
      BY DEF CType
    <2> QED BY <1>3, <2>1, <2>2 DEF WidthOf, Widths
  <1> DEFINE d == Cast(v, w)
             piece == PackInteger(build, type, d)
             c == [type |-> type, value |-> d, wire |-> piece]
  <1>6. d \in Digits(w)
    BY <1>5, Casts
  <1>7. call' = c /\ build' = build
    BY <1>1 DEF Pack
  <1> HIDE DEF d
  <1>8. type \in BriefTypes => Brief(build, piece, d, SignedFor(build, type))
    BY <1>3, <1>4, <1>6, IntegerIsBrief
  <1> HIDE DEF piece
  <1>9. c.type = type /\ c.value = d /\ c.wire = piece
    OBVIOUS
  <1> HIDE DEF c
  <1>10. BriefCall(build, c)
    BY <1>8, <1>9, Zenon DEF BriefCall
  <1> QED BY <1>7, <1>10, Zenon

LEMMA BriefStep == CInv /\ BriefCall(build, call) /\ [CNext]_cvars => BriefCall(build, call)'
  <1> SUFFICES ASSUME CInv, BriefCall(build, call), [CNext]_cvars
               PROVE  BriefCall(build, call)'
    OBVIOUS
  <1>1. ASSUME call' = call, build' = build
        PROVE  BriefCall(build, call)'
    BY <1>1, Zenon
  <1>2. ASSUME call'.type \in HeaderTypes \cup {"none", "body", "flush", "release", "float", "double"}
        PROVE  BriefCall(build, call)'
    <2> DEFINE b == build'
               c == call'
    <2>1. BriefCall(b, c)
      <3> HIDE DEF b
      <3>1. c.type \in HeaderTypes \cup {"none", "body", "flush", "release", "float", "double"}
        BY <1>2
      <3> HIDE DEF c
      <3> QED BY <3>1, NothingBrief
    <2> QED BY <2>1
  <1>3. CASE PNext /\ UNCHANGED <<compiler, build, progvars>>
    BY <1>1, <1>3 DEF progvars
  <1>4. CASE Compile
    <2>1. compiler = "reading" /\ call' = call
      BY <1>4 DEF Compile, progvars
    <2>2. call = NoCall
      BY <2>1 DEF CInv, Packing
    <2> QED BY <1>2, <2>1, <2>2 DEF NoCall, None
  <1>5. CASE Start
    BY <1>1, <1>5 DEF Start
  <1>6. CASE PackAnInteger
    BY <1>6, PackAnIntegerBrief
  <1>7. CASE PackAReal
    <2>1. call'.type \in {"float", "double"}
      BY <1>7 DEF PackAReal, Pack
    <2> QED BY <1>2, <2>1
  <1>8. CASE PackAHeader
    <2>1. call'.type \in HeaderTypes
      BY <1>8 DEF PackAHeader, Pack
    <2> QED BY <1>2, <2>1
  <1>9. CASE PackABody
    <2>1. call'.type = "body"
      BY <1>9 DEF PackABody, Pack
    <2> QED BY <1>2, <2>1
  <1>10. CASE Release \/ Clear \/ Reset
    <2>1. call'.type = "none"
      BY <1>10 DEF Release, Clear, SBufferDo, Reset, NoCall, None
    <2> QED BY <1>2, <2>1
  <1>11. CASE Flush \/ ReleaseBuffer
    <2>1. call'.type \in {"flush", "release"}
      BY <1>11 DEF Flush, ReleaseBuffer
    <2> QED BY <1>2, <2>1
  <1>12. CASE ZoneMalloc \/ PushFinalizer \/ Swap
    BY <1>1, <1>12 DEF ZoneMalloc, PushFinalizer, Swap
  <1>13. CASE UNCHANGED cvars
    BY <1>1, <1>13 DEF cvars, progvars
  <1> QED BY <1>3, <1>4, <1>5, <1>6, <1>7, <1>8, <1>9, <1>10, <1>11, <1>12, <1>13 DEF CNext

(* An integer never goes out in more bytes than the format needs for it, but   *)
(* from the functions that take a form by the type, and, where an int has 2    *)
(* bytes, from those of 4 bytes for the 16 bit form: all types, values and     *)
(* platforms that tell the truth about their sizes, and any byte order that    *)
(* the headers settle on.                                                      *)
THEOREM WireIsShort == CSpec => []ShortestForm
  <1>1. CInit => BriefCall(build, call)
    <2> SUFFICES ASSUME CInit
                 PROVE  BriefCall(build, call)
      OBVIOUS
    <2>1. call.type = "none"
      BY DEF CInit, NoCall, None
    <2> QED BY <2>1, NothingBrief
  <1>2. BriefCall(build, call) => ShortestForm
    BY Zenon DEF BriefCall, BriefTypes, Brief, Hidden, ShortestForm, IsSigned, SignedFor
  <1> QED BY <1>1, <1>2, CInvAlways, BriefStep, PTL DEF CSpec
===============================================================================
