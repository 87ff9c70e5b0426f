----------------------------- MODULE PPUnpack_proofs -----------------------------
(******************************************************************************)
(* Facts about the pure Perl decoder that the proofs about the parsers and the *)
(* packers use: that its recursion is defined, what one step of it is, that    *)
(* the loops over the items of a container may be run one item at a time, and  *)
(* what it makes of a row of values wherever their bytes stand.                *)
(*                                                                             *)
(* A recursive function is a CHOOSE: nothing is known of it until a function   *)
(* that satisfies its equation is shown to exist.  The recursion of _unpack    *)
(* ends because every call begins behind the byte that its caller read.        *)
(******************************************************************************)
EXTENDS PPUnpack, TLAPS, WellFoundedInduction, FiniteSetTheorems

-------------------------------------------------------------------------------
(* A set of natural numbers has a least element, so one that has 0 and with n  *)
(* always n + 1 has all of them.                                               *)
LEMMA LeastNat ==
  ASSUME NEW T, T \subseteq Nat, T # {}
  PROVE  \E x \in T : \A y \in T : x <= y
  <1> DEFINE R == {ss \in Nat \X Nat : ss[1] < ss[2]}
  <1>1. IsWellFoundedOn(R, Nat)
    BY NatLessThanWellFounded DEF OpToRel
  <1> HIDE DEF R
  <1>2. PICK x \in T : \A y \in T : <<y, x>> \notin R
    BY <1>1, WFMin, Zenon
  <1>3. \A y \in T : ~(y < x)
    BY <1>2 DEF R
  <1> QED BY <1>3

LEMMA Induction ==
  ASSUME NEW T, 0 \in T, \A n \in Nat : n \in T => n + 1 \in T
  PROVE  Nat \subseteq T
  <1> SUFFICES ASSUME NEW m \in Nat, m \notin T
               PROVE  FALSE
    OBVIOUS
  <1> DEFINE Out == {n \in Nat : n \notin T}
  <1>1. PICK x \in Out : \A y \in Out : x <= y
    <2>1. Out \subseteq Nat /\ Out # {}
      OBVIOUS
    <2> HIDE DEF Out
    <2> QED BY <2>1, LeastNat
  <1>2. x # 0 /\ x - 1 \in Nat
    BY <1>1
  <1>3. x - 1 \in T
    BY <1>1, <1>2
  <1> QED BY <1>1, <1>2, <1>3

(* One, two or four bytes make a natural number.                               *)
LEMMA BEIsNat ==
  ASSUME NEW n \in Seq(Byte), Len(n) \in {1, 2, 4}
  PROVE  BE(n) \in Nat
  <1>a. Byte \subseteq Nat
    BY DEF Byte
  <1>b. \A i \in 1 .. Len(n) : n[i] \in Byte
    OBVIOUS
  <1>1. \A i \in 1 .. Len(n) : n[i] \in Nat
    BY <1>a, <1>b
  <1>2. CASE Len(n) = 1
    BY <1>1, <1>2 DEF BE, BigEndian
  <1>3. CASE Len(n) = 2
    BY <1>1, <1>3 DEF BE, BigEndian
  <1>4. CASE Len(n) = 4
    BY <1>1, <1>4 DEF BE, BigEndian
  <1> QED BY <1>2, <1>3, <1>4

-------------------------------------------------------------------------------
(* The loops over the items of a container.                                    *)
TurnsBy(c, vals, n) ==
  CHOOSE C : C = [i \in 0 .. n |-> IF i = 0 THEN c ELSE Turn(C[i - 1], vals, i)]

LEMMA TurnsDefined ==
  ASSUME NEW c, NEW vals, NEW n \in Nat
  PROVE  /\ Turns(c, vals, n) = TurnsBy(c, vals, n)[n]
         /\ TurnsBy(c, vals, n) = [i \in 0 .. n |-> IF i = 0 THEN c
                                    ELSE Turn(TurnsBy(c, vals, n)[i - 1], vals, i)]
  <1> DEFINE Right(h, k) ==
               \A i \in 0 .. k : h[i] = IF i = 0 THEN c ELSE Turn(h[i - 1], vals, i)
             T == {k \in Nat : \E h : Right(h, k)}
  <1>1. 0 \in T
    <2>1. Right([i \in {0} |-> c], 0)
      OBVIOUS
    <2> QED BY <2>1
  <1>2. ASSUME NEW k \in Nat, k \in T
        PROVE  k + 1 \in T
    <2>1. PICK h : Right(h, k)
      BY <1>2
    <2> DEFINE g == [i \in 0 .. k + 1 |-> IF i <= k THEN h[i]
                                           ELSE Turn(h[k], vals, k + 1)]
    <2>2. ASSUME NEW i \in 0 .. k + 1
          PROVE  g[i] = IF i = 0 THEN c ELSE Turn(g[i - 1], vals, i)
      <3>1. CASE i = k + 1
        BY <3>1
      <3>2. CASE i <= k /\ i # 0
        <4>1. g[i] = h[i] /\ g[i - 1] = h[i - 1]
          BY <3>2
        <4>2. h[i] = Turn(h[i - 1], vals, i)
          BY <2>1, <3>2
        <4> QED BY <3>2, <4>1, <4>2
      <3>3. CASE i = 0
        BY <2>1, <3>3
      <3> QED BY <3>1, <3>2, <3>3
    <2>3. Right(g, k + 1)
      BY <2>2
    <2>4. \E f : Right(f, k + 1)
      <3> HIDE DEF g, Right
      <3> QED BY <2>3
    <2> QED
      <3> HIDE DEF Right
      <3> QED BY <2>4
  <1>3. n \in T
    <2> HIDE DEF T
    <2> QED BY <1>1, <1>2, Induction
  <1>4. PICK h : Right(h, n)
    BY <1>3
  <1> DEFINE g == [i \in 0 .. n |-> h[i]]
             P(C) == C = [i \in 0 .. n |-> IF i = 0 THEN c ELSE Turn(C[i - 1], vals, i)]
  <1>5. P(g)
    <2>1. ASSUME NEW i \in 0 .. n
          PROVE  g[i] = IF i = 0 THEN c ELSE Turn(g[i - 1], vals, i)
      BY <1>4
    <2> QED BY <2>1
  <1>6. P(CHOOSE C : P(C))
    <2> HIDE DEF P, g
    <2> QED BY <1>5
  <1> QED BY <1>6 DEF TurnsBy, Turns

LEMMA NoTurns ==
  ASSUME NEW c, NEW vals
  PROVE  Turns(c, vals, 0) = c
  <1> DEFINE C == TurnsBy(c, vals, 0)
  <1>1. C = [i \in 0 .. 0 |-> IF i = 0 THEN c ELSE Turn(C[i - 1], vals, i)]
    BY TurnsDefined
  <1>2. Turns(c, vals, 0) = C[0]
    BY TurnsDefined
  <1> HIDE DEF C
  <1> QED BY <1>1, <1>2

(* Whether c is an array does not change.                                      *)
IsAV(c) == "av" \in DOMAIN c

LEMMA TurnKeepsKind ==
  ASSUME NEW c, NEW vals, NEW i
  PROVE  IsAV(Turn(c, vals, i)) = IsAV(c)
  BY DEF IsAV, Turn, ArrayItem, MapItem

(* The first turn may be done before the others, which have the rest of the    *)
(* values.                                                                     *)
LEMMA FirstTurn ==
  ASSUME NEW c, NEW vals, NEW rest, NEW n \in Nat,
         \A i \in 1 .. n : \A x : IsAV(x) = IsAV(c) =>
           Turn(x, vals, i + 1) = Turn(x, rest, i)
  PROVE  Turns(c, vals, n + 1) = Turns(Turn(c, vals, 1), rest, n)
  <1> DEFINE d == Turn(c, vals, 1)
             C == TurnsBy(c, vals, n + 1)
             D == TurnsBy(d, rest, n)
             T == {k \in Nat : k <= n => C[k + 1] = D[k] /\ IsAV(D[k]) = IsAV(c)}
  <1>1. C = [i \in 0 .. n + 1 |-> IF i = 0 THEN c ELSE Turn(C[i - 1], vals, i)]
    BY TurnsDefined
  <1>2. D = [i \in 0 .. n |-> IF i = 0 THEN d ELSE Turn(D[i - 1], rest, i)]
    BY TurnsDefined
  <1>3. Turns(c, vals, n + 1) = C[n + 1] /\ Turns(d, rest, n) = D[n]
    BY TurnsDefined
  <1>4. IsAV(d) = IsAV(c)
    BY TurnKeepsKind
  <1> HIDE DEF C, D
  <1>5. 0 \in T
    <2>1. C[0] = c /\ C[1] = Turn(C[0], vals, 1) /\ D[0] = d
      BY <1>1, <1>2
    <2> QED BY <2>1, <1>4
  <1>6. ASSUME NEW k \in Nat, k \in T
        PROVE  k + 1 \in T
    <2> SUFFICES ASSUME k + 1 <= n
                 PROVE  C[k + 2] = D[k + 1] /\ IsAV(D[k + 1]) = IsAV(c)
      OBVIOUS
    <2>1. C[k + 1] = D[k] /\ IsAV(D[k]) = IsAV(c)
      BY <1>6
    <2>2. C[k + 2] = Turn(C[k + 1], vals, k + 2)
      BY <1>1
    <2>3. D[k + 1] = Turn(D[k], rest, k + 1)
      BY <1>2
    <2>4. Turn(D[k], vals, (k + 1) + 1) = Turn(D[k], rest, k + 1)
      <3>1. k + 1 \in 1 .. n
        OBVIOUS
      <3> QED BY <3>1, <2>1
    <2>5. IsAV(D[k + 1]) = IsAV(D[k])
      BY <2>3, TurnKeepsKind
    <2>6. (k + 1) + 1 = k + 2
      OBVIOUS
    <2>7. C[k + 2] = D[k + 1]
      BY <2>1, <2>2, <2>3, <2>4, <2>6
    <2> QED BY <2>1, <2>5, <2>7
  <1>7. n \in T
    <2> HIDE DEF T
    <2> QED BY <1>5, <1>6, Induction
  <1> QED BY <1>3, <1>7

(* The values of a row of calls: a sequence, of whatever set.                  *)
IsSeq(vals) == \E S : vals \in Seq(S)

LEMMA SeqUnion ==
  ASSUME NEW u, NEW v, IsSeq(u), IsSeq(v)
  PROVE  \E S : u \in Seq(S) /\ v \in Seq(S)
  <1>1. PICK A : u \in Seq(A)
    BY DEF IsSeq
  <1>2. PICK B : v \in Seq(B)
    BY DEF IsSeq
  <1>3. u \in Seq(A \cup B) /\ v \in Seq(A \cup B)
    BY <1>1, <1>2
  <1> QED BY <1>3

LEMMA One ==
  ASSUME NEW v
  PROVE  IsSeq(<<v>>)
  <1>1. <<v>> \in Seq({v})
    OBVIOUS
  <1> QED BY <1>1 DEF IsSeq

LEMMA FirstItem ==
  ASSUME NEW c, IsAV(c), NEW v, NEW rest, IsSeq(rest)
  PROVE  LET vals == <<v>> \o rest IN
         Turns(c, vals, Len(vals)) = Turns(ArrayItem(c, v), rest, Len(rest))
  <1> DEFINE vals == <<v>> \o rest
  <1>1. PICK S : rest \in Seq(S)
    BY DEF IsSeq
  <1>2. rest \in Seq(S \cup {v}) /\ <<v>> \in Seq(S \cup {v})
    BY <1>1
  <1>3. /\ Len(rest) \in Nat /\ Len(vals) = Len(rest) + 1 /\ vals[1] = v
        /\ \A i \in 1 .. Len(rest) : vals[i + 1] = rest[i]
    BY <1>2
  <1>4. Turn(c, vals, 1) = ArrayItem(c, v)
    BY <1>3 DEF Turn, IsAV
  <1>5. \A i \in 1 .. Len(rest) : \A x : IsAV(x) = IsAV(c) =>
          Turn(x, vals, i + 1) = Turn(x, rest, i)
    BY <1>3 DEF Turn, IsAV
  <1>6. Turns(c, vals, Len(rest) + 1) = Turns(Turn(c, vals, 1), rest, Len(rest))
    <2> HIDE DEF vals
    <2> QED BY <1>3, <1>5, FirstTurn
  <1> QED BY <1>3, <1>4, <1>6

LEMMA FirstPair ==
  ASSUME NEW c, ~IsAV(c), NEW k, NEW v, NEW rest, IsSeq(rest)
  PROVE  LET vals == <<k, v>> \o rest IN
         Turns(c, vals, Len(vals) \div 2) = Turns(MapItem(c, k, v), rest, Len(rest) \div 2)
  <1> DEFINE vals == <<k, v>> \o rest
             n == Len(rest) \div 2
  <1>1. PICK S : rest \in Seq(S)
    BY DEF IsSeq
  <1>2. rest \in Seq(S \cup {k, v}) /\ <<k, v>> \in Seq(S \cup {k, v})
    BY <1>1
  <1>3. /\ Len(rest) \in Nat /\ Len(vals) = Len(rest) + 2 /\ vals[1] = k /\ vals[2] = v
        /\ \A i \in 1 .. Len(rest) : vals[i + 2] = rest[i]
    BY <1>2
  <1> HIDE DEF vals
  <1>4. n \in Nat /\ 2 * n <= Len(rest) /\ Len(vals) \div 2 = n + 1
    BY <1>3
  <1>5. Turn(c, vals, 1) = MapItem(c, k, v)
    BY <1>3 DEF Turn, IsAV
  <1>6. ASSUME NEW i \in 1 .. n
        PROVE  vals[2 * (i + 1) - 1] = rest[2 * i - 1] /\ vals[2 * (i + 1)] = rest[2 * i]
    <2> HIDE DEF n
    <2>1. 2 * i - 1 \in 1 .. Len(rest) /\ 2 * i \in 1 .. Len(rest)
      BY <1>3, <1>4
    <2>2. 2 * (i + 1) - 1 = (2 * i - 1) + 2 /\ 2 * (i + 1) = 2 * i + 2
      BY <1>4
    <2> QED BY <2>1, <2>2, <1>3
  <1>7. \A i \in 1 .. n : \A x : IsAV(x) = IsAV(c) =>
          Turn(x, vals, i + 1) = Turn(x, rest, i)
    BY <1>6 DEF Turn, IsAV
  <1>8. Turns(c, vals, n + 1) = Turns(Turn(c, vals, 1), rest, n)
    <2> HIDE DEF n
    <2> QED BY <1>4, <1>7, FirstTurn
  <1> QED BY <1>4, <1>5, <1>8 DEF vals

-------------------------------------------------------------------------------
(* What a hash owns: each of its values owns svs SVs of its own, named here by *)
(* their key and a number.                                                     *)
Owns(hv) == UNION {{k} \X (1 .. hv[k].svs) : k \in DOMAIN hv}

CountedArray(c) == c = [av |-> c.av, svs |-> c.svs] /\ c.svs \in Nat \ {0}

CountedHash(c) ==
  /\ c = [hv |-> c.hv, svs |-> c.svs] /\ c.svs \in Nat \ {0}
  /\ \A k \in DOMAIN c.hv : c.hv[k].svs \in Nat
  /\ IsFiniteSet(Owns(c.hv)) /\ c.svs = 1 + Cardinality(Owns(c.hv))

LEMMA EmptyCounted == CountedArray(EmptyArray) /\ CountedHash(EmptyHash)
  <1>1. CountedArray(EmptyArray)
    BY DEF CountedArray, EmptyArray
  <1>2. Owns(<< >>) = {}
    BY DEF Owns
  <1>3. CountedHash(EmptyHash)
    BY <1>2, FS_EmptySet DEF CountedHash, EmptyHash
  <1> QED BY <1>1, <1>3

LEMMA ArrayItemCounted ==
  ASSUME NEW c, CountedArray(c), NEW v, v.svs \in Nat
  PROVE  CountedArray(ArrayItem(c, v)) /\ ArrayItem(c, v).svs = c.svs + v.svs
  BY DEF ArrayItem, CountedArray

LEMMA UpTo ==
  ASSUME NEW n \in Nat
  PROVE  IsFiniteSet(1 .. n) /\ Cardinality(1 .. n) = n
  <1>1. Cardinality(1 .. n) = IF 1 > n THEN 0 ELSE n - 1 + 1
    BY FS_Interval
  <1>2. IsFiniteSet(1 .. n)
    BY FS_Interval
  <1> QED BY <1>1, <1>2

LEMMA MapItemCounted ==
  ASSUME NEW c, CountedHash(c), NEW k, NEW v, v.svs \in Nat
  PROVE  /\ CountedHash(MapItem(c, k, v)) /\ Replaced(c, k) \in Nat
         /\ MapItem(c, k, v).svs = c.svs + v.svs - Replaced(c, k)
  <1> DEFINE x == HashKey(k)
             hv == HvStore(c.hv, x, v)
             n == c.svs + v.svs - Replaced(c, k)
             own == IF x \in DOMAIN c.hv THEN {x} \X (1 .. c.hv[x].svs) ELSE {}
             new == {x} \X (1 .. v.svs)
             all == Owns(c.hv)
  <1>2. DOMAIN hv = {x} \cup DOMAIN c.hv /\ hv[x] = v
    BY DEF HvStore
  <1>3. \A y \in DOMAIN c.hv : y # x => hv[y] = c.hv[y]
    BY DEF HvStore
  <1>1. MapItem(c, k, v) = [hv |-> hv, svs |-> n]
    BY DEF MapItem
  <1> HIDE DEF hv, x
  <1>4. Owns(hv) = (all \ own) \cup new
    <2>1. ASSUME NEW e
          PROVE  e \in Owns(hv) <=> e \in (all \ own) \cup new
      <3>1. e \in Owns(hv) <=> \E y \in {x} \cup DOMAIN c.hv : e \in {y} \X (1 .. hv[y].svs)
        BY <1>2 DEF Owns
      <3>2. e \in all <=> \E y \in DOMAIN c.hv : e \in {y} \X (1 .. c.hv[y].svs)
        BY DEF Owns
      <3>3. \A y, m : e \in {y} \X (1 .. m) => e[1] = y
        OBVIOUS
      <3>4. e \in {x} \X (1 .. hv[x].svs) <=> e \in new
        BY <1>2
      <3>5. \A y \in DOMAIN c.hv : y # x =>
              (e \in {y} \X (1 .. hv[y].svs) <=> e \in {y} \X (1 .. c.hv[y].svs))
        BY <1>3
      <3> HIDE DEF all
      <3>6. CASE e[1] = x
        <4>1. \A y \in DOMAIN c.hv : y # x => e \notin {y} \X (1 .. hv[y].svs)
                                              /\ e \notin {y} \X (1 .. c.hv[y].svs)
          BY <3>3, <3>6
        <4>2. e \in Owns(hv) <=> e \in new
          BY <3>1, <3>4, <4>1
        <4>3. e \in all <=> e \in own
          BY <3>2, <4>1
        <4> QED BY <4>2, <4>3
      <3>7. CASE e[1] # x
        <4>1. e \notin new /\ e \notin own
          BY <3>3, <3>7
        <4>2. e \notin {x} \X (1 .. hv[x].svs) /\ e \notin {x} \X (1 .. c.hv[x].svs)
          BY <3>3, <3>7
        <4>3. e \in Owns(hv) <=> e \in all
          BY <3>1, <3>2, <3>5, <4>2
        <4> QED BY <4>1, <4>3
      <3> QED BY <3>6, <3>7
    <2> QED BY <2>1
  <1>5. Replaced(c, k) \in Nat /\ IsFiniteSet(own) /\ Cardinality(own) = Replaced(c, k)
    <2>1. CASE x \in DOMAIN c.hv
      <3>1. Replaced(c, k) = c.hv[x].svs /\ c.hv[x].svs \in Nat
        BY <2>1 DEF Replaced, CountedHash, x
      <3>2. IsFiniteSet(1 .. c.hv[x].svs) /\ Cardinality(1 .. c.hv[x].svs) = c.hv[x].svs
        BY <3>1, UpTo
      <3>3. IsFiniteSet({x}) /\ Cardinality({x}) = 1
        BY FS_Singleton
      <3>4. IsFiniteSet({x} \X (1 .. c.hv[x].svs))
            /\ Cardinality({x} \X (1 .. c.hv[x].svs)) = 1 * c.hv[x].svs
        <4> DEFINE A == {x}
                   m == c.hv[x].svs
                   B == 1 .. m
        <4>1. IsFiniteSet(A) /\ Cardinality(A) = 1 /\ IsFiniteSet(B) /\ Cardinality(B) = m
          BY <3>2, <3>3
        <4> HIDE DEF A, B, m
        <4>2. IsFiniteSet(A \X B) /\ Cardinality(A \X B) = 1 * m
          BY <4>1, FS_Product
        <4> QED BY <4>2 DEF A, B, m
      <3> QED BY <2>1, <3>1, <3>4
    <2>2. CASE x \notin DOMAIN c.hv
      BY <2>2, FS_EmptySet DEF Replaced, x
    <2> QED BY <2>1, <2>2
  <1>6. IsFiniteSet(new) /\ Cardinality(new) = v.svs
    <2>1. IsFiniteSet(1 .. v.svs) /\ Cardinality(1 .. v.svs) = v.svs
      BY UpTo
    <2>2. IsFiniteSet({x}) /\ Cardinality({x}) = 1
      BY FS_Singleton
    <2>3. IsFiniteSet({x} \X (1 .. v.svs)) /\ Cardinality({x} \X (1 .. v.svs)) = 1 * v.svs
      BY <2>1, <2>2, FS_Product
    <2> QED BY <2>3
  <1>7. own \subseteq all
    BY DEF Owns
  <1>8. (all \ own) \cap new = {}
    <2>1. ASSUME NEW e \in all, e \in new
          PROVE  e \in own
      <3>1. PICK y \in DOMAIN c.hv : e \in {y} \X (1 .. c.hv[y].svs)
        BY <2>1 DEF Owns
      <3>2. e[1] = y /\ e[1] = x
        BY <2>1, <3>1
      <3> QED BY <3>1, <3>2
    <2> QED BY <2>1
  <1>9. IsFiniteSet(all) /\ c.svs = 1 + Cardinality(all) /\ c.svs \in Nat
    BY DEF CountedHash
  <1> HIDE DEF all, own, new
  <1>10. Cardinality(all) \in Nat /\ Cardinality(own) \in Nat /\ Cardinality(all \cap own) = Cardinality(own)
    <2>1. all \cap own = own
      BY <1>7
    <2> QED BY <1>5, <1>9, <2>1, FS_CardinalityType
  <1>11. /\ IsFiniteSet(all \ own)
         /\ Cardinality(all \ own) = Cardinality(all) - Cardinality(own)
         /\ Cardinality(all \ own) \in Nat
    <2>1. /\ IsFiniteSet(all \ own)
          /\ Cardinality(all \ own) = Cardinality(all) - Cardinality(all \cap own)
      BY <1>9, FS_Difference, Zenon
    <2> QED BY <1>10, <2>1, FS_CardinalityType
  <1>12. /\ IsFiniteSet(Owns(hv))
         /\ Cardinality(Owns(hv)) = Cardinality(all \ own) + v.svs
    <2>1. /\ IsFiniteSet((all \ own) \cup new)
          /\ Cardinality((all \ own) \cup new) =
               Cardinality(all \ own) + Cardinality(new) - Cardinality((all \ own) \cap new)
      BY <1>6, <1>11, FS_Union
    <2> DEFINE rest == all \ own
    <2>2. Cardinality(rest \cap new) = 0
      BY <1>8, FS_EmptySet
    <2> HIDE DEF rest
    <2>3. Cardinality(rest \cup new) = Cardinality(rest) + v.svs - 0
      BY <1>6, <2>1, <2>2 DEF rest
    <2>4. Cardinality(rest) \in Nat /\ v.svs \in Nat
      BY <1>11 DEF rest
    <2>5. Owns(hv) = rest \cup new
      BY <1>4 DEF rest
    <2> QED BY <2>1, <2>3, <2>4, <2>5 DEF rest
  <1> DEFINE d == MapItem(c, k, v)
  <1>13. d.hv = hv /\ d.svs = c.svs + v.svs - Replaced(c, k) /\ d = [hv |-> d.hv, svs |-> d.svs]
    BY <1>1
  <1> HIDE DEF d
  <1>14. d.svs = 1 + Cardinality(Owns(d.hv)) /\ d.svs \in Nat \ {0}
    BY <1>5, <1>9, <1>10, <1>11, <1>12, <1>13
  <1>15. \A y \in DOMAIN d.hv : d.hv[y].svs \in Nat
    <2>1. \A y \in DOMAIN c.hv : c.hv[y].svs \in Nat
      BY DEF CountedHash
    <2> QED BY <1>2, <1>3, <1>13, <2>1
  <1>16. CountedHash(d)
    BY <1>12, <1>13, <1>14, <1>15 DEF CountedHash
  <1> QED BY <1>5, <1>13, <1>16 DEF d
-------------------------------------------------------------------------------
(* What _fetch_size reads is a natural number, and $p goes on.                 *)
Sizeable(b) == T_STR(b) \/ T_BIN(b) \/ T_ARRAY(b) \/ T_MAP(b)

LEMMA FetchFacts ==
  ASSUME NEW s \in Seq(Byte), NEW p \in Nat, p < Len(s)
  PROVE  /\ s[p + 1] \in Byte /\ AfterFetch(s, p) \in Nat /\ AfterFetch(s, p) > p
         /\ Sizeable(s[p + 1]) /\ AfterFetch(s, p) <= Len(s) => FetchSize(s, p) \in Nat
  <1> DEFINE b == s[p + 1]
             n == SizeBytes(b)
  <1>1. b \in Byte
    OBVIOUS
  <1>2. n \in {0, 1, 2, 4}
    BY DEF SizeBytes
  <1>3. AfterFetch(s, p) = p + 1 + n
    BY DEF AfterFetch
  <1>4. ASSUME Sizeable(b), AfterFetch(s, p) <= Len(s), n = 0
        PROVE  FetchSize(s, p) \in Nat
    <2>1. b \in 128 .. 191
      BY <1>1, <1>4
         DEF Byte, Sizeable, T_STR, T_BIN, T_ARRAY, T_MAP, SizeBytes
    <2>2. FetchSize(s, p) = FixSize(b)
      BY <1>4 DEF FetchSize
    <2> HIDE DEF b
    <2>3. FixSize(b) \in Nat
      BY <2>1 DEF FixSize
    <2> QED BY <2>2, <2>3
  <1>5. ASSUME AfterFetch(s, p) <= Len(s), n # 0
        PROVE  FetchSize(s, p) \in Nat
    <2> DEFINE digits == SubSeq(s, p + 2, AfterFetch(s, p))
    <2>1. digits \in Seq(Byte) /\ Len(digits) = n
      <3> HIDE DEF n
      <3> QED BY <1>2, <1>3, <1>5
    <2>2. FetchSize(s, p) = BE(digits)
      BY <1>5 DEF FetchSize
    <2> HIDE DEF digits, n
    <2> QED BY <1>2, <1>5, <2>1, <2>2, BEIsNat
  <1> HIDE DEF n
  <1>6. AfterFetch(s, p) \in Nat /\ AfterFetch(s, p) > p
    BY <1>2, <1>3
  <1> QED BY <1>1, <1>4, <1>5, <1>6

LEMMA NumberWidthType ==
  ASSUME NEW b
  PROVE  NumberWidth(b) \in {1, 2, 4, 8}
  BY DEF NumberWidth

(* A string or a number leaves $p behind it, and is one value.                 *)
LEMMA SizedResult ==
  ASSUME NEW b, NEW s \in Seq(Byte), NEW q \in Nat, NEW size \in Nat, NEW d, NEW text
  PROVE  LET r == Sized(b, s, q, size, d, text) IN
         /\ r.depth = d
         /\ r.status = "ok" => /\ r.p \in Nat /\ r.p >= q /\ IsSeq(r.vals)
                              /\ q + size <= Len(s) /\ r.p = q + size
  <1>1. CASE q + size > Len(s)
    BY <1>1 DEF Sized, Died
  <1>2. CASE ~(q + size > Len(s))
    <2> DEFINE v == IF b \in 202 .. 211 THEN UnpackNumber(b, SubSeq(s, q + 1, q + size))
                    ELSE Str(SubSeq(s, q + 1, q + size), T_STR(b) \/ text)
    <2>1. Sized(b, s, q, size, d, text) = Returned(<<v>>, q + size, d)
      BY <1>2 DEF Sized
    <2> HIDE DEF v
    <2>2. IsSeq(<<v>>)
      BY One
    <2>3. Len(s) \in Nat /\ q + size \in Nat /\ q + size >= q /\ q + size <= Len(s)
      BY <1>2
    <2> QED BY <2>1, <2>2, <2>3 DEF Returned
  <1> QED BY <1>1, <1>2

LEMMA ScalarResult ==
  ASSUME NEW s \in Seq(Byte), NEW p \in Nat, NEW d, NEW text, ~ContainerAt(s, p)
  PROVE  LET r == Scalar(s, p, d, text) IN
         /\ r.depth = d
         /\ r.status = "ok" => r.p \in Nat /\ r.p > p /\ IsSeq(r.vals)
  <1> DEFINE r == Scalar(s, p, d, text)
             b == s[p + 1]
  <1>1. CASE p >= Len(s)
    BY <1>1 DEF Scalar, Died
  <1>2. CASE p < Len(s) /\ T_DIRECT(b)
    <2>1. r = Returned(<<byte2value(b)>>, p + 1, d)
      BY <1>2 DEF Scalar
    <2>2. IsSeq(<<byte2value(b)>>)
      BY One
    <2> HIDE DEF b, r
    <2>3. p + 1 \in Nat /\ p + 1 > p
      OBVIOUS
    <2>4. r.depth = d /\ r.p = p + 1 /\ r.vals = <<byte2value(b)>>
      BY <2>1 DEF Returned
    <2> QED BY <2>2, <2>3, <2>4 DEF r
  <1>3. CASE p < Len(s) /\ ~T_DIRECT(b) /\ b \in 202 .. 211
    <2>1. r = Sized(b, s, p + 1, NumberWidth(b), d, text)
      BY <1>3 DEF Scalar
    <2>2. NumberWidth(b) \in Nat
      BY NumberWidthType
    <2>3. p + 1 \in Nat
      OBVIOUS
    <2> HIDE DEF r, b
    <2>4. r.depth = d /\ (r.status = "ok" => r.p \in Nat /\ r.p >= p + 1 /\ IsSeq(r.vals))
      BY <2>1, <2>2, <2>3, SizedResult
    <2> QED BY <2>4 DEF r
  <1>4. CASE p < Len(s) /\ ~T_DIRECT(b) /\ b \notin 202 .. 211
             /\ b \in {193} \cup (199 .. 201) \cup (212 .. 216)
    BY <1>4 DEF Scalar, Died
  <1>5. CASE p < Len(s) /\ ~T_DIRECT(b) /\ b \notin 202 .. 211
             /\ b \notin {193} \cup (199 .. 201) \cup (212 .. 216) /\ AfterFetch(s, p) > Len(s)
    BY <1>5 DEF Scalar, Died
  <1>6. CASE p < Len(s) /\ ~T_DIRECT(b) /\ b \notin 202 .. 211
             /\ b \notin {193} \cup (199 .. 201) \cup (212 .. 216) /\ ~(AfterFetch(s, p) > Len(s))
    <2>1. r = Sized(b, s, AfterFetch(s, p), FetchSize(s, p), d, text)
      BY <1>6 DEF Scalar
    <2>2. b \in Byte /\ AfterFetch(s, p) \in Nat /\ AfterFetch(s, p) > p
      BY <1>6, FetchFacts
    <2>3. Sizeable(b)
      BY <1>6, <2>2 DEF Byte, Sizeable, T_DIRECT, T_STR, T_BIN, T_ARRAY, T_MAP
    <2>6. AfterFetch(s, p) <= Len(s) /\ p < Len(s)
      BY <1>6, <2>2
    <2>4. FetchSize(s, p) \in Nat
      BY <2>3, <2>6, FetchFacts
    <2> HIDE DEF r, b
    <2>5. r.depth = d /\ (r.status = "ok" => r.p \in Nat /\ r.p >= AfterFetch(s, p) /\ IsSeq(r.vals))
      BY <2>1, <2>2, <2>4, SizedResult
    <2> QED BY <2>2, <2>5 DEF r
  <1> QED BY <1>1, <1>2, <1>3, <1>4, <1>5, <1>6

-------------------------------------------------------------------------------
(* The recursion of _unpack.                                                   *)
(*                                                                             *)
(* What a call at p inside d containers may return: it never goes back.        *)
IsResult(r) == r = [status |-> r.status, vals |-> r.vals, p |-> r.p, depth |-> r.depth]

Good(r, p, d) ==
  /\ IsResult(r) /\ r.depth \in Nat /\ r.depth >= d
  /\ r.status = "ok" => r.p \in Nat /\ r.p >= p /\ IsSeq(r.vals)

(* The rows that begin at q or behind.                                         *)
From(q) == {x \in Row : x[1] >= q}
GoodFrom(V, q) == \A x \in From(q) : Good(V[x], x[1], x[2])

LEMMA ScalarGood ==
  ASSUME NEW s \in Seq(Byte), NEW p \in Nat, NEW d \in Nat, NEW text, ~ContainerAt(s, p)
  PROVE  Good(Scalar(s, p, d, text), p + 1, d)
  <1> DEFINE r == Scalar(s, p, d, text)
  <1>1. r.depth = d /\ (r.status = "ok" => r.p \in Nat /\ r.p > p /\ IsSeq(r.vals))
    BY ScalarResult
  <1>2. IsResult(r)
    BY DEF Scalar, Sized, Returned, Died, IsResult
  <1> HIDE DEF r
  <1>3. Good(r, p + 1, d)
    BY <1>1, <1>2 DEF Good
  <1> QED BY <1>3 DEF r

(* The row of the items of a container.                                        *)
ItemsRow(s, p, d) ==
  <<AfterFetch(s, p), d + 1, FetchSize(s, p) * (IF T_MAP(s[p + 1]) THEN 2 ELSE 1)>>

LEMMA ItemsRowType ==
  ASSUME NEW s \in Seq(Byte), NEW p \in Nat, NEW d \in Nat, ContainerAt(s, p)
  PROVE  /\ ItemsRow(s, p, d) \in From(p + 1)
         /\ ItemsRow(s, p, d)[1] = AfterFetch(s, p) /\ ItemsRow(s, p, d)[2] = d + 1
         /\ ItemsRow(s, p, d)[3] = FetchSize(s, p) * (IF T_MAP(s[p + 1]) THEN 2 ELSE 1)
  <1>1. p < Len(s) /\ AfterFetch(s, p) <= Len(s) /\ Sizeable(s[p + 1])
    BY DEF ContainerAt, Sizeable
  <1>2. AfterFetch(s, p) \in Nat /\ AfterFetch(s, p) > p /\ FetchSize(s, p) \in Nat
    BY <1>1, FetchFacts
  <1>3. FetchSize(s, p) * (IF T_MAP(s[p + 1]) THEN 2 ELSE 1) \in Nat
    BY <1>2
  <1> QED BY <1>2, <1>3 DEF ItemsRow, From, Row

LEMMA ItemGood ==
  ASSUME NEW s \in Seq(Byte), NEW p \in Nat, NEW d \in Nat, NEW text, NEW V,
         GoodFrom(V, p + 1)
  PROVE  Good(Item(V, s, text, p, d), p + 1, d)
  <1>1. CASE ~ContainerAt(s, p)
    BY <1>1, ScalarGood DEF Item
  <1>2. CASE ContainerAt(s, p)
    <2> DEFINE x == ItemsRow(s, p, d)
               r == V[x]
    <2>1. x \in From(p + 1) /\ x[1] = AfterFetch(s, p) /\ x[2] = d + 1
      BY <1>2, ItemsRowType
    <2>2. Item(V, s, text, p, d) = Contained(s[p + 1], r)
      BY <1>2 DEF Item, ItemsRow
    <2> HIDE DEF x
    <2>3. Good(r, x[1], x[2]) /\ x[1] \in Nat /\ x[1] >= p + 1
      BY <2>1 DEF GoodFrom, From, Row
    <2> HIDE DEF r
    <2>4. CASE r.status # "ok"
      BY <2>1, <2>2, <2>3, <2>4 DEF Contained, Good
    <2>5. CASE r.status = "ok"
      <3> DEFINE c == IF T_ARRAY(s[p + 1]) THEN ArrayOf(r.vals) ELSE HashOf(r.vals)
      <3>1. Contained(s[p + 1], r) = [r EXCEPT !.vals = <<c>>]
        BY <2>5 DEF Contained
      <3> HIDE DEF c
      <3>2. Contained(s[p + 1], r) = [status |-> "ok", vals |-> <<c>>, p |-> r.p, depth |-> r.depth]
        BY <2>3, <2>5, <3>1 DEF Good, IsResult
      <3>3. IsSeq(<<c>>)
        BY One
      <3> QED BY <2>1, <2>2, <2>3, <2>5, <3>2, <3>3 DEF Good, IsResult
    <2> QED BY <2>4, <2>5
  <1> QED BY <1>1, <1>2

LEMMA FollowingGood ==
  ASSUME NEW V, NEW v, NEW p \in Nat, NEW d \in Nat, NEW n \in Nat,
         Good(v, p, d), GoodFrom(V, p)
  PROVE  Good(Following(V, v, d, n), p, d)
  <1>1. CASE v.status # "ok"
    BY <1>1 DEF Following
  <1>2. CASE v.status = "ok"
    <2> DEFINE x == <<v.p, d, n>>
               r == V[x]
    <2>1. v.p \in Nat /\ v.p >= p /\ IsSeq(v.vals) /\ v.depth \in Nat
      BY <1>2 DEF Good
    <2>2. x \in From(p)
      BY <2>1 DEF From, Row
    <2>3. Good(r, v.p, d)
      BY <2>2 DEF GoodFrom
    <2>4. Following(V, v, d, n) = Joined(v, r)
      BY <1>2 DEF Following
    <2> HIDE DEF r
    <2>5. Joined(v, r) = [status |-> r.status, vals |-> v.vals \o r.vals, p |-> r.p,
                          depth |-> Max2(v.depth, r.depth)]
      BY DEF Joined
    <2>6. Max2(v.depth, r.depth) \in Nat /\ Max2(v.depth, r.depth) >= d
      BY <2>1, <2>3 DEF Max2, Good
    <2>7. r.status = "ok" => r.p \in Nat /\ r.p >= p /\ IsSeq(v.vals \o r.vals)
      <3> SUFFICES ASSUME r.status = "ok"
                   PROVE  r.p \in Nat /\ r.p >= p /\ IsSeq(v.vals \o r.vals)
        OBVIOUS
      <3>1. r.p \in Nat /\ r.p >= v.p /\ IsSeq(r.vals)
        BY <2>3 DEF Good
      <3>2. PICK S : v.vals \in Seq(S) /\ r.vals \in Seq(S)
        BY <2>1, <3>1, SeqUnion
      <3>3. v.vals \o r.vals \in Seq(S)
        BY <3>2
      <3> QED BY <2>1, <3>1, <3>3 DEF IsSeq
    <2> QED BY <2>4, <2>5, <2>6, <2>7 DEF Good, IsResult
  <1> QED BY <1>1, <1>2

LEMMA ItemsGood ==
  ASSUME NEW s \in Seq(Byte), NEW p \in Nat, NEW d \in Nat, NEW n \in Nat, NEW text, NEW V,
         GoodFrom(V, p + 1)
  PROVE  Good(Items(V, s, text, p, d, n), p, d)
  <1>1. CASE n = 0
    <2>1. << >> \in Seq({})
      OBVIOUS
    <2>2. IsSeq(<< >>)
      BY <2>1 DEF IsSeq
    <2> QED BY <1>1, <2>2 DEF Items, Returned, Good, IsResult
  <1>2. CASE n # 0
    <2> DEFINE v == Item(V, s, text, p, d)
    <2>1. Good(v, p + 1, d)
      BY ItemGood
    <2>2. Items(V, s, text, p, d, n) = Following(V, v, d, n - 1)
      BY <1>2 DEF Items
    <2> HIDE DEF v
    <2>3. n - 1 \in Nat /\ p + 1 \in Nat
      BY <1>2
    <2>4. Good(Following(V, v, d, n - 1), p + 1, d)
      BY <2>1, <2>3, FollowingGood
    <2> QED BY <2>2, <2>4 DEF Good
  <1> QED BY <1>1, <1>2

(* At the end of the bytes a row of calls dies, unless it is empty.            *)
LEMMA ItemsAtEnd ==
  ASSUME NEW s \in Seq(Byte), NEW p \in Nat, NEW d \in Nat, NEW n \in Nat, NEW text, NEW V,
         p >= Len(s)
  PROVE  Items(V, s, text, p, d, n) =
           IF n = 0 THEN Returned(<< >>, p, d) ELSE Died("insufficient", p, d)
  <1>1. ~ContainerAt(s, p)
    BY DEF ContainerAt
  <1>2. Item(V, s, text, p, d) = Died("insufficient", p, d)
    BY <1>1 DEF Item, Scalar
  <1> QED BY <1>2 DEF Items, Following, Died

(* What a row of calls does depends on the rows behind its first byte only.    *)
LEMMA SameItems ==
  ASSUME NEW s \in Seq(Byte), NEW p \in Nat, NEW d \in Nat, NEW n \in Nat, NEW text,
         NEW V, NEW W, GoodFrom(V, p + 1), \A x \in From(p + 1) : V[x] = W[x]
  PROVE  Items(V, s, text, p, d, n) = Items(W, s, text, p, d, n)
  <1>1. Item(V, s, text, p, d) = Item(W, s, text, p, d)
    <2>1. CASE ContainerAt(s, p)
      <3>1. ItemsRow(s, p, d) \in From(p + 1)
        BY <2>1, ItemsRowType
      <3>2. V[ItemsRow(s, p, d)] = W[ItemsRow(s, p, d)]
        BY <3>1
      <3> QED BY <2>1, <3>2 DEF Item, ItemsRow
    <2>2. CASE ~ContainerAt(s, p)
      BY <2>2 DEF Item
    <2> QED BY <2>1, <2>2
  <1> DEFINE v == Item(V, s, text, p, d)
  <1>2. Good(v, p + 1, d)
    BY ItemGood
  <1> HIDE DEF v
  <1>3. ASSUME n # 0
        PROVE  Following(V, v, d, n - 1) = Following(W, v, d, n - 1)
    <2>1. CASE v.status # "ok"
      BY <2>1 DEF Following
    <2>2. CASE v.status = "ok"
      <3>1. v.p \in Nat /\ v.p >= p + 1 /\ n - 1 \in Nat
        BY <1>2, <1>3, <2>2 DEF Good
      <3>2. <<v.p, d, n - 1>> \in From(p + 1)
        BY <3>1 DEF From, Row
      <3> QED BY <3>2 DEF Following
    <2> QED BY <2>1, <2>2
  <1> QED BY <1>1, <1>3 DEF Items, v

(* h satisfies the equation of _unpack from q on.                              *)
RightFrom(h, s, text, q) ==
  /\ GoodFrom(h, q)
  /\ \A x \in From(q) : h[x] = Items(h, s, text, x[1], x[2], x[3])

LEMMA RightAtEnd ==
  ASSUME NEW s \in Seq(Byte), NEW text
  PROVE  \E h : RightFrom(h, s, text, Len(s))
  <1> DEFINE h == [x \in Row |-> IF x[3] = 0 THEN Returned(<< >>, x[1], x[2])
                                 ELSE Died("insufficient", x[1], x[2])]
  <1>1. ASSUME NEW x \in From(Len(s))
        PROVE  h[x] = Items(h, s, text, x[1], x[2], x[3]) /\ Good(h[x], x[1], x[2])
    <2>1. x \in Row /\ x[1] \in Nat /\ x[2] \in Nat /\ x[3] \in Nat /\ x[1] >= Len(s)
      BY DEF From, Row
    <2>2. h[x] = IF x[3] = 0 THEN Returned(<< >>, x[1], x[2])
                 ELSE Died("insufficient", x[1], x[2])
      BY <2>1
    <2> HIDE DEF h
    <2>3. h[x] = Items(h, s, text, x[1], x[2], x[3])
      BY <2>1, <2>2, ItemsAtEnd
    <2>4. << >> \in Seq({})
      OBVIOUS
    <2>5. IsSeq(<< >>)
      BY <2>4 DEF IsSeq
    <2>6. Good(h[x], x[1], x[2])
      BY <2>1, <2>2, <2>5 DEF Good, IsResult, Returned, Died
    <2> QED BY <2>3, <2>6
  <1> HIDE DEF h
  <1> QED BY <1>1 DEF RightFrom, GoodFrom

LEMMA RightBefore ==
  ASSUME NEW s \in Seq(Byte), NEW text, NEW q \in Nat, NEW h, RightFrom(h, s, text, q + 1)
  PROVE  \E g : RightFrom(g, s, text, q)
  <1> DEFINE g == [x \in Row |-> IF x[1] = q THEN Items(h, s, text, x[1], x[2], x[3]) ELSE h[x]]
  <1>1. \A x \in From(q + 1) : h[x] = g[x]
    BY DEF From, Row
  <1>2. GoodFrom(h, q + 1)
    BY DEF RightFrom
  <1>3. ASSUME NEW x \in From(q)
        PROVE  g[x] = Items(g, s, text, x[1], x[2], x[3]) /\ Good(g[x], x[1], x[2])
    <2>1. x \in Row /\ x[1] \in Nat /\ x[2] \in Nat /\ x[3] \in Nat /\ x[1] >= q
      BY DEF From, Row
    <2>2. GoodFrom(h, x[1] + 1) /\ \A y \in From(x[1] + 1) : h[y] = g[y]
      <3>1. From(x[1] + 1) \subseteq From(q + 1)
        BY <2>1 DEF From, Row
      <3> QED BY <3>1, <1>1, <1>2 DEF GoodFrom
    <2>3. g[x] = Items(h, s, text, x[1], x[2], x[3])
      <3>1. CASE x[1] = q
        BY <2>1, <3>1
      <3>2. CASE x[1] # q
        <4>1. x \in From(q + 1)
          BY <2>1, <3>2 DEF From
        <4> QED BY <1>1, <4>1 DEF RightFrom
      <3> QED BY <3>1, <3>2
    <2> HIDE DEF g
    <2>4. Items(h, s, text, x[1], x[2], x[3]) = Items(g, s, text, x[1], x[2], x[3])
      BY <2>1, <2>2, SameItems
    <2>5. Good(g[x], x[1], x[2])
      BY <2>1, <2>2, <2>3, ItemsGood
    <2> QED BY <2>3, <2>4, <2>5
  <1> HIDE DEF g
  <1> QED BY <1>3 DEF RightFrom, GoodFrom

(* So there is a function that satisfies it everywhere, and Unpack is one.     *)
LEMMA UnpackDefined ==
  ASSUME NEW s \in Seq(Byte), NEW text
  PROVE  LET V == Unpack(s, text) IN
         V = [x \in Row |-> Items(V, s, text, x[1], x[2], x[3])]
  <1> DEFINE T == {k \in Nat : k <= Len(s) => \E h : RightFrom(h, s, text, Len(s) - k)}
             P(V) == V = [x \in Row |-> Items(V, s, text, x[1], x[2], x[3])]
  <1>0. Len(s) \in Nat
    OBVIOUS
  <1>1. 0 \in T
    BY <1>0, RightAtEnd
  <1>2. ASSUME NEW k \in Nat, k \in T
        PROVE  k + 1 \in T
    <2> SUFFICES ASSUME k + 1 <= Len(s)
                 PROVE  \E h : RightFrom(h, s, text, Len(s) - (k + 1))
      OBVIOUS
    <2> DEFINE q == Len(s) - (k + 1)
    <2>1. q \in Nat /\ q + 1 = Len(s) - k /\ k <= Len(s)
      BY <1>0
    <2>2. PICK h : RightFrom(h, s, text, Len(s) - k)
      BY <1>2, <2>1
    <2> HIDE DEF q
    <2>3. \E g : RightFrom(g, s, text, q)
      BY <2>1, <2>2, RightBefore
    <2> QED BY <2>3 DEF q
  <1>3. Len(s) \in T
    <2> HIDE DEF T
    <2> QED BY <1>0, <1>1, <1>2, Induction
  <1>4. PICK h : RightFrom(h, s, text, 0)
    BY <1>0, <1>3
  <1> DEFINE g == [x \in Row |-> h[x]]
  <1>5. P(g)
    <2>1. ASSUME NEW x \in Row
          PROVE  g[x] = Items(g, s, text, x[1], x[2], x[3])
      <3>1. x \in From(0) /\ x[1] \in Nat /\ x[2] \in Nat /\ x[3] \in Nat
        BY DEF From, Row
      <3>2. GoodFrom(h, x[1] + 1) /\ \A y \in From(x[1] + 1) : h[y] = g[y]
        <4>1. From(x[1] + 1) \subseteq From(0)
          BY <3>1 DEF From, Row
        <4> QED BY <4>1, <1>4 DEF RightFrom, GoodFrom, From
      <3>3. g[x] = h[x]
        OBVIOUS
      <3> HIDE DEF g
      <3>4. h[x] = Items(h, s, text, x[1], x[2], x[3])
        BY <1>4, <3>1 DEF RightFrom
      <3> QED BY <3>1, <3>2, <3>3, <3>4, SameItems
    <2> QED BY <2>1
  <1>6. P(CHOOSE V : P(V))
    <2> HIDE DEF P, g
    <2> QED BY <1>5
  <1> QED BY <1>6 DEF Unpack

(* One step of _unpack.                                                        *)
LEMMA UnpackStep ==
  ASSUME NEW s \in Seq(Byte), NEW text, NEW p \in Nat, NEW d \in Nat, NEW n \in Nat
  PROVE  Unpack(s, text)[<<p, d, n>>] = Items(Unpack(s, text), s, text, p, d, n)
  <1> DEFINE V == Unpack(s, text)
             x == <<p, d, n>>
  <1>1. V = [y \in Row |-> Items(V, s, text, y[1], y[2], y[3])]
    BY UnpackDefined
  <1>2. x \in Row /\ x[1] = p /\ x[2] = d /\ x[3] = n
    BY DEF Row
  <1> HIDE DEF V, x
  <1>3. V[x] = Items(V, s, text, x[1], x[2], x[3])
    BY <1>1, <1>2
  <1> QED BY <1>2, <1>3 DEF V, x

(* All its results are good.                                                   *)
LEMMA UnpackGood ==
  ASSUME NEW s \in Seq(Byte), NEW text, NEW p \in Nat, NEW d \in Nat, NEW n \in Nat
  PROVE  Good(Unpack(s, text)[<<p, d, n>>], p, d)
  <1> DEFINE V == Unpack(s, text)
             T == {k \in Nat : k <= Len(s) => GoodFrom(V, Len(s) - k)}
  <1>0. Len(s) \in Nat
    OBVIOUS
  <1>1. ASSUME NEW x \in Row, GoodFrom(V, x[1] + 1)
        PROVE  Good(V[x], x[1], x[2])
    <2>1. x[1] \in Nat /\ x[2] \in Nat /\ x[3] \in Nat /\ x = <<x[1], x[2], x[3]>>
      BY DEF Row
    <2>2. V[x] = Items(V, s, text, x[1], x[2], x[3])
      BY <2>1, UnpackStep
    <2> HIDE DEF V
    <2> QED BY <1>1, <2>1, <2>2, ItemsGood
  <1>2. 0 \in T
    <2>1. ASSUME NEW x \in From(Len(s))
          PROVE  Good(V[x], x[1], x[2])
      <3>1. x \in Row /\ x[1] \in Nat /\ x[2] \in Nat /\ x[3] \in Nat /\ x[1] >= Len(s)
               /\ x = <<x[1], x[2], x[3]>>
        BY DEF From, Row
      <3>2. V[x] = Items(V, s, text, x[1], x[2], x[3])
        BY <3>1, UnpackStep
      <3> HIDE DEF V
      <3>3. V[x] = IF x[3] = 0 THEN Returned(<< >>, x[1], x[2])
                   ELSE Died("insufficient", x[1], x[2])
        BY <3>1, <3>2, ItemsAtEnd
      <3>4. << >> \in Seq({})
        OBVIOUS
      <3>5. IsSeq(<< >>)
        BY <3>4 DEF IsSeq
      <3> QED BY <3>1, <3>3, <3>5 DEF Good, IsResult, Returned, Died
    <2> QED BY <1>0, <2>1 DEF GoodFrom
  <1>3. ASSUME NEW k \in Nat, k \in T
        PROVE  k + 1 \in T
    <2> SUFFICES ASSUME k + 1 <= Len(s)
                 PROVE  GoodFrom(V, Len(s) - (k + 1))
      OBVIOUS
    <2> DEFINE q == Len(s) - (k + 1)
    <2>1. q \in Nat /\ q + 1 = Len(s) - k /\ k <= Len(s)
      BY <1>0
    <2>2. GoodFrom(V, q + 1)
      BY <1>3, <2>1
    <2> HIDE DEF q, V, T
    <2>3. ASSUME NEW x \in From(q)
          PROVE  Good(V[x], x[1], x[2])
      <3>1. x \in Row /\ x[1] \in Nat /\ x[1] >= q
        BY DEF From, Row
      <3>2. From(x[1] + 1) \subseteq From(q + 1)
        BY <2>1, <3>1 DEF From, Row
      <3>3. GoodFrom(V, x[1] + 1)
        BY <2>2, <3>2 DEF GoodFrom
      <3> QED BY <1>1, <3>1, <3>3
    <2> QED BY <2>3 DEF GoodFrom, q
  <1>4. Len(s) \in T
    <2> HIDE DEF T
    <2> QED BY <1>0, <1>2, <1>3, Induction
  <1>5. GoodFrom(V, 0)
    BY <1>0, <1>4
  <1> DEFINE x == <<p, d, n>>
  <1>6. x \in From(0) /\ x[1] = p /\ x[2] = d
    BY DEF From, Row
  <1> HIDE DEF V, x
  <1>7. Good(V[x], x[1], x[2])
    BY <1>5, <1>6 DEF GoodFrom
  <1> QED BY <1>6, <1>7 DEF V, x
-------------------------------------------------------------------------------
(* The same bytes elsewhere: t has those that s has behind j, k bytes further  *)
(* on.  _unpack makes of them in t what it makes of them in s, unless it dies  *)
(* in s for want of bytes, and there it has come no deeper than in t.          *)
Holds(t, k, s, j) ==
  /\ k + j >= 0 /\ k + Len(s) <= Len(t)
  /\ \A i \in j + 1 .. Len(s) : t[k + i] = s[i]

Embeds(r, e, k, l) ==
  /\ r.depth <= e.depth
  /\ r.status # "insufficient" =>
       e.status = r.status /\ e.vals = r.vals /\ e.depth = r.depth
  /\ r.status = "ok" => r.p <= l /\ e.p = k + r.p

LEMMA HeldPart ==
  ASSUME NEW s \in Seq(Byte), NEW t \in Seq(Byte), NEW k \in Int, NEW j \in Nat,
         Holds(t, k, s, j), NEW a \in Nat, a > j, NEW b \in Nat, b <= Len(s)
  PROVE  SubSeq(t, k + a, k + b) = SubSeq(s, a, b)
  <1> DEFINE u == SubSeq(t, k + a, k + b)
             v == SubSeq(s, a, b)
  <1>1. /\ k + j >= 0 /\ k + Len(s) <= Len(t) /\ Len(s) \in Nat /\ Len(t) \in Nat
        /\ \A i \in j + 1 .. Len(s) : t[k + i] = s[i]
    BY DEF Holds
  <1>2. /\ k + a \in Nat /\ k + a > 0 /\ k + b \in Int /\ k + b <= Len(t)
    BY <1>1
  <1>3. /\ v \in Seq(Byte) /\ Len(v) = IF a <= b THEN b - a + 1 ELSE 0
        /\ \A i \in 1 .. Len(v) : v[i] = s[a + i - 1]
    BY <1>1
  <1>4. /\ u \in Seq(Byte) /\ Len(u) = IF a <= b THEN b - a + 1 ELSE 0
        /\ \A i \in 1 .. Len(u) : u[i] = t[(k + a) + i - 1]
    <2> DEFINE m == k + a
               n == k + b
    <2>1. m \in Nat /\ m > 0 /\ n \in Int /\ n <= Len(t) /\ (m <= n <=> a <= b) /\ n - m = b - a
      BY <1>2
    <2> HIDE DEF m, n
    <2>2. /\ SubSeq(t, m, n) \in Seq(Byte) /\ Len(SubSeq(t, m, n)) = IF m <= n THEN n - m + 1 ELSE 0
          /\ \A i \in 1 .. Len(SubSeq(t, m, n)) : SubSeq(t, m, n)[i] = t[m + i - 1]
      BY <2>1
    <2> QED BY <2>1, <2>2 DEF m, n
  <1> HIDE DEF u, v
  <1>5. ASSUME NEW i \in 1 .. Len(v)
        PROVE  u[i] = v[i]
    <2>1. i \in Nat /\ i >= 1 /\ i <= b - a + 1
      BY <1>3
    <2>2. a + i - 1 \in j + 1 .. Len(s) /\ k + (a + i - 1) = (k + a) + i - 1
      BY <1>1, <2>1
    <2>3. t[k + (a + i - 1)] = s[a + i - 1]
      BY <1>1, <2>2
    <2>4. i \in 1 .. Len(u)
      BY <1>3, <1>4
    <2> QED BY <1>3, <1>4, <2>2, <2>3, <2>4
  <1>6. u = v
    BY <1>3, <1>4, <1>5
  <1> QED BY <1>6 DEF u, v

LEMMA HeldFetch ==
  ASSUME NEW s \in Seq(Byte), NEW t \in Seq(Byte), NEW k \in Int, NEW j \in Nat,
         Holds(t, k, s, j), NEW p \in Nat, p >= j, p < Len(s)
  PROVE  /\ k + p \in Nat /\ k + p < Len(t) /\ t[(k + p) + 1] = s[p + 1]
         /\ AfterFetch(t, k + p) = k + AfterFetch(s, p)
         /\ AfterFetch(s, p) <= Len(s) => FetchSize(t, k + p) = FetchSize(s, p)
  <1>1. /\ k + j >= 0 /\ k + Len(s) <= Len(t) /\ Len(s) \in Nat /\ Len(t) \in Nat
        /\ \A i \in j + 1 .. Len(s) : t[k + i] = s[i]
    BY DEF Holds
  <1>2. k + p \in Nat /\ k + p < Len(t) /\ k + (p + 1) = (k + p) + 1 /\ p + 1 \in j + 1 .. Len(s)
    BY <1>1
  <1>3. t[(k + p) + 1] = s[p + 1]
    BY <1>1, <1>2
  <1> DEFINE n == SizeBytes(s[p + 1])
  <1>4. n \in Nat
    BY DEF SizeBytes
  <1>5. AfterFetch(s, p) = p + 1 + n /\ AfterFetch(t, k + p) = (k + p) + 1 + n
    BY <1>3 DEF AfterFetch
  <1> HIDE DEF n
  <1>6. AfterFetch(t, k + p) = k + AfterFetch(s, p)
    BY <1>4, <1>5
  <1>7. ASSUME AfterFetch(s, p) <= Len(s)
        PROVE  FetchSize(t, k + p) = FetchSize(s, p)
    <2>1. AfterFetch(s, p) \in Nat /\ p + 2 \in Nat /\ p + 2 > j /\ (k + p) + 2 = k + (p + 2)
      BY <1>4, <1>5
    <2>2. SubSeq(t, k + (p + 2), k + AfterFetch(s, p)) = SubSeq(s, p + 2, AfterFetch(s, p))
      <3> DEFINE c == p + 2
                 m == AfterFetch(s, p)
      <3>1. c \in Nat /\ c > j /\ m \in Nat /\ m <= Len(s)
        BY <1>7, <2>1
      <3> HIDE DEF c, m
      <3>2. SubSeq(t, k + c, k + m) = SubSeq(s, c, m)
        BY <3>1, HeldPart
      <3> QED BY <3>2 DEF c, m
    <2>3. SubSeq(t, (k + p) + 2, AfterFetch(t, k + p)) = SubSeq(s, p + 2, AfterFetch(s, p))
      BY <1>6, <2>1, <2>2
    <2> HIDE DEF n
    <2> QED BY <1>3, <2>3 DEF FetchSize
  <1> QED BY <1>2, <1>3, <1>6, <1>7

LEMMA HeldSized ==
  ASSUME NEW s \in Seq(Byte), NEW t \in Seq(Byte), NEW k \in Int, NEW j \in Nat,
         Holds(t, k, s, j), NEW b, NEW q \in Nat, q >= j, NEW size \in Nat, NEW d \in Nat,
         NEW text
  PROVE  Embeds(Sized(b, s, q, size, d, text), Sized(b, t, k + q, size, d, text), k, Len(s))
  <1> DEFINE r == Sized(b, s, q, size, d, text)
             e == Sized(b, t, k + q, size, d, text)
  <1>1. /\ k + j >= 0 /\ k + Len(s) <= Len(t) /\ Len(s) \in Nat /\ Len(t) \in Nat
        /\ k + q \in Nat
    BY DEF Holds
  <1>2. r.depth = d /\ e.depth = d
    BY <1>1, SizedResult
  <1>3. CASE q + size > Len(s)
    <2>1. r.status = "insufficient"
      BY <1>3 DEF Sized, Died
    <2> HIDE DEF r, e
    <2>2. d <= d
      OBVIOUS
    <2> QED BY <1>2, <2>1, <2>2 DEF Embeds, r, e
  <1>4. CASE ~(q + size > Len(s))
    <2>1. q + size <= Len(s) /\ ~((k + q) + size > Len(t)) /\ (k + q) + size = k + (q + size)
          /\ (k + q) + 1 = k + (q + 1) /\ q + 1 \in Nat /\ q + 1 > j /\ q + size \in Nat
      BY <1>1, <1>4
    <2>2. SubSeq(t, k + (q + 1), k + (q + size)) = SubSeq(s, q + 1, q + size)
      BY <2>1, HeldPart
    <2> DEFINE v == IF b \in 202 .. 211 THEN UnpackNumber(b, SubSeq(s, q + 1, q + size))
                    ELSE Str(SubSeq(s, q + 1, q + size), T_STR(b) \/ text)
    <2>3. r = Returned(<<v>>, q + size, d)
      BY <1>4 DEF Sized
    <2>4. e = Returned(<<v>>, k + (q + size), d)
      BY <2>1, <2>2 DEF Sized
    <2> HIDE DEF v, r, e
    <2>5. Embeds(r, e, k, Len(s))
      BY <2>1, <2>3, <2>4 DEF Embeds, Returned
    <2> QED BY <2>5 DEF r, e
  <1> QED BY <1>3, <1>4

(* The bytes that do not begin a container for want of its size.               *)
LEMMA HeldScalar ==
  ASSUME NEW s \in Seq(Byte), NEW t \in Seq(Byte), NEW k \in Int, NEW j \in Nat,
         Holds(t, k, s, j), NEW p \in Nat, p >= j, p < Len(s), NEW d \in Nat, NEW text,
         ~ContainerAt(s, p), NEW e, e.depth \in Nat, e.depth >= d,
         ~ContainerAt(t, k + p) => e = Scalar(t, k + p, d, text)
  PROVE  Embeds(Scalar(s, p, d, text), e, k, Len(s))
  <1> DEFINE r == Scalar(s, p, d, text)
             b == s[p + 1]
  <1>1. /\ k + p \in Nat /\ k + p < Len(t) /\ t[(k + p) + 1] = b
        /\ AfterFetch(t, k + p) = k + AfterFetch(s, p)
        /\ AfterFetch(s, p) <= Len(s) => FetchSize(t, k + p) = FetchSize(s, p)
    BY HeldFetch
  <1>2. b \in Byte /\ AfterFetch(s, p) \in Nat /\ AfterFetch(s, p) > p
    BY FetchFacts
  <1>3. r.depth = d
    BY ScalarResult
  <1>4. ~(p >= Len(s)) /\ ~(k + p >= Len(t))
    BY <1>1
  <1>5. k + Len(s) <= Len(t)
    BY DEF Holds
  <1>6. CASE T_DIRECT(b)
    <2>1. ~ContainerAt(t, k + p)
      <3> HIDE DEF b
      <3>1. ~T_ARRAY(b) /\ ~T_MAP(b)
        <4>1. b \in 0 .. 255
          BY <1>2 DEF Byte
        <4>2. b \in 0 .. 127 \/ b \in 224 .. 255 \/ b \in {192, 194, 195}
          BY <1>6 DEF T_DIRECT
        <4> QED BY ONLY <4>1, <4>2 DEF T_ARRAY, T_MAP
      <3> QED BY <1>1, <3>1 DEF ContainerAt, b
    <2>2. r = Returned(<<byte2value(b)>>, p + 1, d) /\ e = Returned(<<byte2value(b)>>, (k + p) + 1, d)
      BY <1>1, <1>4, <1>6, <2>1 DEF Scalar
    <2>3. p + 1 <= Len(s) /\ (k + p) + 1 = k + (p + 1)
      OBVIOUS
    <2> HIDE DEF r, b
    <2>4. Embeds(r, e, k, Len(s))
      BY <2>2, <2>3 DEF Embeds, Returned
    <2> QED BY <2>4 DEF r
  <1>7. CASE ~T_DIRECT(b) /\ b \in 202 .. 211
    <2>1. ~ContainerAt(t, k + p)
      <3> HIDE DEF b
      <3>1. ~T_ARRAY(b) /\ ~T_MAP(b)
        BY <1>2, <1>7 DEF Byte, T_ARRAY, T_MAP
      <3> QED BY <1>1, <3>1 DEF ContainerAt, b
    <2>2. /\ r = Sized(b, s, p + 1, NumberWidth(b), d, text)
          /\ e = Sized(b, t, (k + p) + 1, NumberWidth(b), d, text)
      BY <1>1, <1>4, <1>7, <2>1 DEF Scalar
    <2>3. (k + p) + 1 = k + (p + 1) /\ p + 1 \in Nat /\ p + 1 >= j
      OBVIOUS
    <2>4. NumberWidth(b) \in Nat
      <3> HIDE DEF r, b
      <3>1. NumberWidth(b) \in {1, 2, 4, 8}
        BY NumberWidthType, Zenon
      <3> QED BY <3>1
    <2> HIDE DEF r, b
    <2>5. Embeds(r, e, k, Len(s))
      BY <2>2, <2>3, <2>4, HeldSized
    <2> QED BY <2>5 DEF r
  <1>8. CASE ~T_DIRECT(b) /\ b \notin 202 .. 211
             /\ b \in {193} \cup (199 .. 201) \cup (212 .. 216)
    <2>1. ~ContainerAt(t, k + p)
      <3> HIDE DEF b
      <3>1. ~T_ARRAY(b) /\ ~T_MAP(b)
        BY <1>2, <1>8 DEF Byte, T_ARRAY, T_MAP
      <3> QED BY <1>1, <3>1 DEF ContainerAt, b
    <2>2. r = Died("unexpected", p + 1, d) /\ e = Died("unexpected", (k + p) + 1, d)
      BY <1>1, <1>4, <1>8, <2>1 DEF Scalar
    <2> HIDE DEF r, b
    <2>3. Embeds(r, e, k, Len(s))
      BY <2>2 DEF Embeds, Died
    <2> QED BY <2>3 DEF r
  <1>9. CASE ~T_DIRECT(b) /\ b \notin 202 .. 211
             /\ b \notin {193} \cup (199 .. 201) \cup (212 .. 216)
    <2>1. CASE AfterFetch(s, p) > Len(s)
      <3>1. r = Died("insufficient", p + 1, d)
        BY <1>4, <1>9, <2>1 DEF Scalar
      <3> HIDE DEF r, b
      <3>2. Embeds(r, e, k, Len(s))
        BY <1>3, <3>1 DEF Embeds, Died
      <3> QED BY <3>2 DEF r
    <2>2. CASE AfterFetch(s, p) <= Len(s)
      <3>1. ~T_ARRAY(b) /\ ~T_MAP(b)
        BY <2>2 DEF ContainerAt
      <3>2. ~ContainerAt(t, k + p)
        BY <1>1, <3>1 DEF ContainerAt
      <3>3. /\ ~(AfterFetch(s, p) > Len(s)) /\ ~(AfterFetch(t, k + p) > Len(t))
        BY <1>1, <1>2, <1>5, <2>2
      <3>4. /\ r = Sized(b, s, AfterFetch(s, p), FetchSize(s, p), d, text)
            /\ e = Sized(b, t, k + AfterFetch(s, p), FetchSize(s, p), d, text)
        <4>1. r = Sized(b, s, AfterFetch(s, p), FetchSize(s, p), d, text)
          BY <1>4, <1>9, <3>3 DEF Scalar
        <4>2. e = Sized(b, t, k + AfterFetch(s, p), FetchSize(s, p), d, text)
          <5>1. t[(k + p) + 1] = b /\ FetchSize(t, k + p) = FetchSize(s, p)
                /\ AfterFetch(t, k + p) = k + AfterFetch(s, p)
            BY <1>1, <2>2
          <5>2. e = Scalar(t, k + p, d, text)
            BY <3>2
          <5> HIDE DEF b, r
          <5>3. Scalar(t, k + p, d, text) = Sized(b, t, AfterFetch(t, k + p), FetchSize(t, k + p), d, text)
            BY <1>4, <1>9, <3>3, <5>1, Zenon DEF Scalar
          <5> QED BY <5>1, <5>2, <5>3
        <4> QED BY <4>1, <4>2
      <3>5. FetchSize(s, p) \in Nat
        <4>1. Sizeable(b)
          BY <1>2, <1>9 DEF Byte, Sizeable, T_DIRECT, T_STR, T_BIN, T_ARRAY, T_MAP
        <4> QED BY <2>2, <4>1, FetchFacts
      <3>6. AfterFetch(s, p) \in Nat /\ AfterFetch(s, p) >= j
        BY <1>2
      <3> HIDE DEF r, b
      <3>7. Embeds(r, e, k, Len(s))
        BY <3>4, <3>5, <3>6, HeldSized
      <3> QED BY <3>7 DEF r
    <2> QED BY <1>2, <2>1, <2>2
  <1> QED BY <1>6, <1>7, <1>8, <1>9

(* The rows of s that begin at q or behind, and their like in t.               *)
EmbedsFrom(V, W, k, l, q) ==
  \A p, d, n \in Nat : p >= q /\ p <= l =>
    Embeds(V[<<p, d, n>>], W[<<k + p, d, n>>], k, l)

LEMMA HeldItem ==
  ASSUME NEW s \in Seq(Byte), NEW t \in Seq(Byte), NEW k \in Int, NEW j \in Nat,
         Holds(t, k, s, j), NEW p \in Nat, p >= j, p < Len(s), NEW d \in Nat, NEW text,
         NEW V, NEW W, GoodFrom(V, p + 1), GoodFrom(W, (k + p) + 1),
         EmbedsFrom(V, W, k, Len(s), p + 1)
  PROVE  Embeds(Item(V, s, text, p, d), Item(W, t, text, k + p, d), k, Len(s))
  <1>1. /\ k + p \in Nat /\ k + p < Len(t) /\ t[(k + p) + 1] = s[p + 1]
        /\ AfterFetch(t, k + p) = k + AfterFetch(s, p)
        /\ AfterFetch(s, p) <= Len(s) => FetchSize(t, k + p) = FetchSize(s, p)
    BY HeldFetch
  <1> DEFINE e == Item(W, t, text, k + p, d)
  <1>2. Good(e, (k + p) + 1, d)
    BY <1>1, ItemGood
  <1>3. CASE ~ContainerAt(s, p)
    <2>1. ~ContainerAt(t, k + p) => e = Scalar(t, k + p, d, text)
      BY DEF Item
    <2>2. Item(V, s, text, p, d) = Scalar(s, p, d, text)
      BY <1>3 DEF Item
    <2> HIDE DEF e
    <2>3. e.depth \in Nat /\ e.depth >= d
      BY <1>2 DEF Good
    <2>4. Embeds(Scalar(s, p, d, text), e, k, Len(s))
      BY <1>3, <2>1, <2>3, HeldScalar
    <2> QED BY <2>2, <2>4 DEF e
  <1>4. CASE ContainerAt(s, p)
    <2> DEFINE x == ItemsRow(s, p, d)
               r == V[x]
               f == W[<<k + x[1], d + 1, x[3]>>]
               b == s[p + 1]
    <2>1. /\ x \in From(p + 1) /\ x[1] = AfterFetch(s, p) /\ x[2] = d + 1
          /\ x[3] = FetchSize(s, p) * (IF T_MAP(b) THEN 2 ELSE 1)
      BY <1>4, ItemsRowType
    <2>2. AfterFetch(s, p) <= Len(s)
      BY <1>4 DEF ContainerAt
    <2>3. ContainerAt(t, k + p)
      <3>1. k + Len(s) <= Len(t) /\ AfterFetch(s, p) \in Nat
        BY FetchFacts DEF Holds
      <3>2. AfterFetch(t, k + p) <= Len(t)
        BY <1>1, <2>2, <3>1
      <3> QED BY <1>1, <1>4, <3>2 DEF ContainerAt
    <2>4. Item(V, s, text, p, d) = Contained(b, r)
      BY <1>4 DEF Item, ItemsRow
    <2>5. e = Contained(b, f)
      BY <1>1, <2>1, <2>2, <2>3 DEF Item
    <2>6. x = <<x[1], x[2], x[3]>> /\ x[1] \in Nat /\ x[3] \in Nat /\ x[1] >= p + 1
      BY <2>1 DEF From, Row
    <2> HIDE DEF x, b
    <2>7. r = V[<<x[1], d + 1, x[3]>>]
      BY <2>1, <2>6
    <2>8. Embeds(r, f, k, Len(s))
      <3>1. x[1] <= Len(s) /\ d + 1 \in Nat
        BY <2>1, <2>2
      <3>2. Embeds(V[<<x[1], d + 1, x[3]>>], f, k, Len(s))
        BY <2>6, <3>1 DEF EmbedsFrom
      <3> HIDE DEF r, f
      <3> QED BY <2>7, <3>2
    <2>9. Good(r, x[1], d + 1)
      BY <2>1 DEF GoodFrom
    <2>10. Good(f, k + x[1], d + 1)
      <3>1. k + x[1] \in Nat /\ k + x[1] >= (k + p) + 1
        BY <1>1, <2>6
      <3> DEFINE y == <<k + x[1], d + 1, x[3]>>
      <3>2. y \in From((k + p) + 1) /\ y[1] = k + x[1] /\ y[2] = d + 1
        BY <2>6, <3>1 DEF From, Row
      <3> HIDE DEF y
      <3>3. Good(W[y], y[1], y[2])
        BY <3>2 DEF GoodFrom
      <3> QED BY <3>2, <3>3 DEF y
    <2> HIDE DEF r, f, e
    <2>11. ASSUME NEW g, IsResult(g)
           PROVE  /\ Contained(b, g).status = g.status /\ Contained(b, g).p = g.p
                  /\ Contained(b, g).depth = g.depth
                  /\ Contained(b, g).vals =
                       IF g.status # "ok" THEN g.vals
                       ELSE <<IF T_ARRAY(b) THEN ArrayOf(g.vals) ELSE HashOf(g.vals)>>
      <3> DEFINE c == IF T_ARRAY(b) THEN ArrayOf(g.vals) ELSE HashOf(g.vals)
      <3>1. Contained(b, g) = IF g.status # "ok" THEN g ELSE [g EXCEPT !.vals = <<c>>]
        BY DEF Contained
      <3> HIDE DEF c
      <3>2. [g EXCEPT !.vals = <<c>>] =
              [status |-> g.status, vals |-> <<c>>, p |-> g.p, depth |-> g.depth]
        BY <2>11 DEF IsResult
      <3> QED BY <3>1, <3>2 DEF c
    <2>12. IsResult(r) /\ IsResult(f)
      BY <2>9, <2>10 DEF Good
    <2>13. Embeds(Contained(b, r), Contained(b, f), k, Len(s))
      BY <2>8, <2>11, <2>12 DEF Embeds
    <2> QED BY <2>4, <2>5, <2>13 DEF e
  <1> QED BY <1>3, <1>4

LEMMA HeldFollowing ==
  ASSUME NEW k \in Int, NEW l \in Nat, NEW q \in Nat, k + q \in Nat, NEW d \in Nat, NEW n \in Nat,
         NEW V, NEW W, GoodFrom(V, q), GoodFrom(W, k + q), EmbedsFrom(V, W, k, l, q),
         NEW v, NEW u, Good(v, q, d), Good(u, k + q, d), Embeds(v, u, k, l)
  PROVE  Embeds(Following(V, v, d, n), Following(W, u, d, n), k, l)
  <1>1. u.depth \in Nat /\ v.depth \in Nat /\ v.depth <= u.depth
    BY DEF Good, Embeds
  <1>2. CASE v.status = "insufficient"
    <2>1. Following(V, v, d, n) = v
      BY <1>2 DEF Following
    <2>2. Following(W, u, d, n).depth >= u.depth /\ Following(W, u, d, n).depth \in Nat
      <3>1. CASE u.status # "ok"
        BY <1>1, <3>1 DEF Following
      <3>2. CASE u.status = "ok"
        <4> DEFINE y == <<u.p, d, n>>
        <4>1. y \in From(k + q) /\ y[2] = d
          BY <3>2 DEF Good, From, Row
        <4> HIDE DEF y
        <4>2. W[y].depth \in Nat
          BY <4>1 DEF GoodFrom, Good
        <4>3. Following(W, u, d, n).depth = Max2(u.depth, W[y].depth)
          BY <3>2 DEF Following, Joined, y
        <4> QED BY <1>1, <4>2, <4>3 DEF Max2
      <3> QED BY <3>1, <3>2
    <2> QED BY <1>1, <1>2, <2>1, <2>2 DEF Embeds
  <1>3. CASE v.status # "insufficient" /\ v.status # "ok"
    <2>1. u.status = v.status /\ Following(V, v, d, n) = v /\ Following(W, u, d, n) = u
      BY <1>3 DEF Embeds, Following
    <2> QED BY <2>1
  <1>4. CASE v.status = "ok"
    <2>1. /\ u.status = "ok" /\ u.p = k + v.p /\ v.p <= l /\ u.vals = v.vals /\ u.depth = v.depth
          /\ v.p \in Nat /\ v.p >= q
      BY <1>4 DEF Embeds, Good
    <2> DEFINE r == V[<<v.p, d, n>>]
               f == W[<<k + v.p, d, n>>]
    <2>2. Embeds(r, f, k, l)
      BY <2>1 DEF EmbedsFrom
    <2>3. r.depth \in Nat /\ f.depth \in Nat
      <3> DEFINE x == <<v.p, d, n>>
                 y == <<k + v.p, d, n>>
      <3>1. x \in From(q) /\ y \in From(k + q)
        BY <2>1 DEF From, Row
      <3> HIDE DEF x, y
      <3>2. V[x].depth \in Nat /\ W[y].depth \in Nat
        BY <3>1 DEF GoodFrom, Good
      <3> QED BY <3>2 DEF x, y
    <2>4. Following(V, v, d, n) = Joined(v, r) /\ Following(W, u, d, n) = Joined(u, f)
      BY <1>4, <2>1 DEF Following
    <2> HIDE DEF r, f
    <2>5. /\ Joined(v, r).status = r.status /\ Joined(v, r).p = r.p
          /\ Joined(v, r).vals = v.vals \o r.vals /\ Joined(v, r).depth = Max2(v.depth, r.depth)
          /\ Joined(u, f).status = f.status /\ Joined(u, f).p = f.p
          /\ Joined(u, f).vals = u.vals \o f.vals /\ Joined(u, f).depth = Max2(u.depth, f.depth)
      BY DEF Joined
    <2>6. Max2(v.depth, r.depth) <= Max2(v.depth, f.depth)
      BY <1>1, <2>2, <2>3 DEF Max2, Embeds
    <2> QED BY <2>1, <2>2, <2>4, <2>5, <2>6 DEF Embeds
  <1> QED BY <1>2, <1>3, <1>4

LEMMA UnpackEmbeds ==
  ASSUME NEW s \in Seq(Byte), NEW t \in Seq(Byte), NEW k \in Int, NEW j \in Nat,
         Holds(t, k, s, j), NEW text, NEW p \in Nat, p >= j, p <= Len(s),
         NEW d \in Nat, NEW n \in Nat
  PROVE  Embeds(Unpack(s, text)[<<p, d, n>>], Unpack(t, text)[<<k + p, d, n>>], k, Len(s))
  <1> DEFINE V == Unpack(s, text)
             W == Unpack(t, text)
             l == Len(s)
             T == {i \in Nat : i + j <= l => EmbedsFrom(V, W, k, l, l - i)}
  <1>0. l \in Nat /\ k + j >= 0 /\ k + l <= Len(t) /\ Len(t) \in Nat
    BY DEF Holds
  <1>1. GoodFrom(V, 0) /\ GoodFrom(W, 0)
    <2>1. ASSUME NEW x \in From(0)
          PROVE  Good(V[x], x[1], x[2]) /\ Good(W[x], x[1], x[2])
      <3>1. x[1] \in Nat /\ x[2] \in Nat /\ x[3] \in Nat /\ x = <<x[1], x[2], x[3]>>
        BY DEF From, Row
      <3>2. /\ Good(V[<<x[1], x[2], x[3]>>], x[1], x[2])
            /\ Good(W[<<x[1], x[2], x[3]>>], x[1], x[2])
        BY <3>1, UnpackGood
      <3> QED BY <3>1, <3>2
    <2> QED BY <2>1 DEF GoodFrom
  <1>2. ASSUME NEW a, a \in Nat
        PROVE  GoodFrom(V, a) /\ GoodFrom(W, a)
    <2>1. From(a) \subseteq From(0)
      BY <1>2 DEF From, Row
    <2> HIDE DEF V, W
    <2> QED BY <1>1, <2>1 DEF GoodFrom
  <1>3. ASSUME NEW a \in Nat, a >= j, a < l, EmbedsFrom(V, W, k, l, a + 1),
               NEW c \in Nat, NEW m \in Nat
        PROVE  Embeds(V[<<a, c, m>>], W[<<k + a, c, m>>], k, l)
    <2>0. k + a \in Nat /\ a + 1 \in Nat /\ (k + a) + 1 \in Nat /\ (k + a) + 1 = k + (a + 1)
      BY <1>0, <1>3
    <2>1. V[<<a, c, m>>] = Items(V, s, text, a, c, m)
      BY UnpackStep
    <2>2. W[<<k + a, c, m>>] = Items(W, t, text, k + a, c, m)
      BY <2>0, UnpackStep
    <2>3. GoodFrom(V, a + 1) /\ GoodFrom(W, (k + a) + 1)
      BY <1>2, <2>0
    <2> DEFINE v == Item(V, s, text, a, c)
               u == Item(W, t, text, k + a, c)
    <2> HIDE DEF V, W
    <2>4. CASE m = 0
      <3>1. V[<<a, c, m>>] = Returned(<< >>, a, c) /\ W[<<k + a, c, m>>] = Returned(<< >>, k + a, c)
        BY <2>1, <2>2, <2>4 DEF Items
      <3> QED BY <3>1, <1>3 DEF Embeds, Returned
    <2>5. CASE m # 0
      <3>1. V[<<a, c, m>>] = Following(V, v, c, m - 1) /\ W[<<k + a, c, m>>] = Following(W, u, c, m - 1)
        BY <2>1, <2>2, <2>5 DEF Items
      <3>2. Embeds(v, u, k, l)
        BY <1>3, <2>3, HeldItem
      <3>3. Good(v, a + 1, c) /\ Good(u, k + (a + 1), c)
        BY <2>0, <2>3, ItemGood
      <3>4. m - 1 \in Nat
        BY <2>5
      <3>5. GoodFrom(W, k + (a + 1)) /\ k + (a + 1) \in Nat
        BY <2>0, <2>3
      <3> HIDE DEF v, u, l
      <3>6. Embeds(Following(V, v, c, m - 1), Following(W, u, c, m - 1), k, l)
        BY <1>0, <1>3, <2>0, <2>3, <3>2, <3>3, <3>4, <3>5, HeldFollowing
      <3> QED BY <3>1, <3>6
    <2> QED BY <2>4, <2>5
  <1>4. ASSUME NEW c \in Nat, NEW m \in Nat, j <= l
        PROVE  Embeds(V[<<l, c, m>>], W[<<k + l, c, m>>], k, l)
    <2>1. V[<<l, c, m>>] = Items(V, s, text, l, c, m)
      BY <1>0, UnpackStep
    <2>2. k + l \in Nat
      BY <1>0, <1>4
    <2>3. W[<<k + l, c, m>>] = Items(W, t, text, k + l, c, m) /\ Good(W[<<k + l, c, m>>], k + l, c)
      BY <2>2, UnpackStep, UnpackGood
    <2> HIDE DEF V, W
    <2>4. V[<<l, c, m>>] = IF m = 0 THEN Returned(<< >>, l, c) ELSE Died("insufficient", l, c)
      BY <1>0, <2>1, ItemsAtEnd
    <2>5. m = 0 => W[<<k + l, c, m>>] = Returned(<< >>, k + l, c)
      BY <2>3 DEF Items
    <2> HIDE DEF l
    <2> QED BY <1>0, <2>3, <2>4, <2>5 DEF Embeds, Returned, Died, Good
  <1>5. 0 \in T
    <2> HIDE DEF V, W
    <2>1. ASSUME j <= l
          PROVE  EmbedsFrom(V, W, k, l, l)
      <3>1. ASSUME NEW a \in Nat, NEW c \in Nat, NEW m \in Nat, a >= l, a <= l
            PROVE  Embeds(V[<<a, c, m>>], W[<<k + a, c, m>>], k, l)
        <4>1. a = l
          BY <1>0, <3>1
        <4> HIDE DEF l
        <4> QED BY <1>4, <2>1, <4>1
      <3> QED BY <3>1 DEF EmbedsFrom
    <2>2. l - 0 = l /\ 0 + j = j
      BY <1>0
    <2> QED BY <2>1, <2>2
  <1>6. ASSUME NEW i \in Nat, i \in T
        PROVE  i + 1 \in T
    <2> SUFFICES ASSUME (i + 1) + j <= l
                 PROVE  EmbedsFrom(V, W, k, l, l - (i + 1))
      OBVIOUS
    <2> DEFINE a == l - (i + 1)
    <2>1. a \in Nat /\ a >= j /\ a < l /\ a + 1 = l - i /\ i + j <= l
      BY <1>0
    <2>2. EmbedsFrom(V, W, k, l, a + 1)
      BY <1>6, <2>1
    <2> HIDE DEF a, V, W, T
    <2>3. ASSUME NEW b \in Nat, NEW c \in Nat, NEW m \in Nat, b >= a, b <= l
          PROVE  Embeds(V[<<b, c, m>>], W[<<k + b, c, m>>], k, l)
      <3>1. CASE b = a
        BY <1>3, <2>1, <2>2, <3>1
      <3>2. CASE b # a
        <4>1. b >= a + 1
          BY <2>1, <2>3, <3>2
        <4> HIDE DEF l
        <4> QED BY <2>2, <2>3, <4>1 DEF EmbedsFrom
      <3> QED BY <3>1, <3>2
    <2> QED BY <2>3 DEF EmbedsFrom, a
  <1>7. l - j \in T
    <2>1. l - j \in Nat
      BY <1>0
    <2> HIDE DEF T
    <2> QED BY <1>5, <1>6, <2>1, Induction
  <1>8. EmbedsFrom(V, W, k, l, j)
    <2>1. (l - j) + j <= l /\ l - (l - j) = j
      BY <1>0
    <2> HIDE DEF V, W
    <2> QED BY <1>7, <2>1
  <1> HIDE DEF V, W, l
  <1>9. p <= l
    BY DEF l
  <1>10. Embeds(V[<<p, d, n>>], W[<<k + p, d, n>>], k, l)
    BY <1>8, <1>9 DEF EmbedsFrom
  <1> QED BY <1>10 DEF V, W, l
-------------------------------------------------------------------------------
(* Bytes cut off behind a value are not missed: what _unpack made of t without *)
(* going beyond l, it does not die of for want of bytes when t ends at l.      *)
NotShort(V, W, l, q) ==
  \A p, d, n \in Nat :
    p >= q /\ p <= l /\ W[<<p, d, n>>].status = "ok" /\ W[<<p, d, n>>].p <= l
      => V[<<p, d, n>>].status # "insufficient"

LEMMA ContainedAlike ==
  ASSUME NEW b, NEW r, IsResult(r)
  PROVE  Contained(b, r).status = r.status /\ Contained(b, r).p = r.p
  <1> DEFINE c == <<IF T_ARRAY(b) THEN ArrayOf(r.vals) ELSE HashOf(r.vals)>>
  <1>1. Contained(b, r) = IF r.status # "ok" THEN r ELSE [r EXCEPT !.vals = c]
    BY DEF Contained
  <1> HIDE DEF c
  <1>2. [r EXCEPT !.vals = c] = [status |-> r.status, vals |-> c, p |-> r.p, depth |-> r.depth]
    BY DEF IsResult
  <1> QED BY <1>1, <1>2

LEMMA ScalarNotShort ==
  ASSUME NEW s \in Seq(Byte), NEW t \in Seq(Byte), Holds(t, 0, s, 0), NEW p \in Nat, p < Len(s),
         NEW d \in Nat, NEW text, ~ContainerAt(t, p),
         Scalar(t, p, d, text).status = "ok", Scalar(t, p, d, text).p <= Len(s)
  PROVE  ~ContainerAt(s, p) /\ Scalar(s, p, d, text).status # "insufficient"
  <1> DEFINE u == Scalar(t, p, d, text)
             r == Scalar(s, p, d, text)
             b == s[p + 1]
             l == Len(s)
  <1>0. l \in Nat /\ Len(t) \in Nat /\ l <= Len(t) /\ p < Len(t) /\ 0 + p = p
    BY DEF Holds
  <1>1. /\ t[p + 1] = b /\ AfterFetch(t, p) = AfterFetch(s, p)
        /\ AfterFetch(s, p) <= l => FetchSize(t, p) = FetchSize(s, p)
    <2>1. /\ t[(0 + p) + 1] = s[p + 1] /\ AfterFetch(t, 0 + p) = 0 + AfterFetch(s, p)
          /\ AfterFetch(s, p) <= Len(s) => FetchSize(t, 0 + p) = FetchSize(s, p)
      BY HeldFetch
    <2>2. 0 + AfterFetch(s, p) = AfterFetch(s, p)
      BY FetchFacts
    <2> QED BY <1>0, <2>1, <2>2
  <1>2. b \in Byte /\ AfterFetch(s, p) \in Nat /\ AfterFetch(s, p) > p
    BY FetchFacts
  <1>3. ~ContainerAt(s, p)
    BY <1>0, <1>1, <1>2 DEF ContainerAt
  <1>4. ~(p >= l) /\ ~(p >= Len(t))
    BY <1>0
  <1>5. CASE T_DIRECT(b)
    BY <1>3, <1>4, <1>5 DEF Scalar, Returned
  <1>6. CASE ~T_DIRECT(b) /\ b \in 202 .. 211
    <2>1. u = Sized(b, t, p + 1, NumberWidth(b), d, text) /\ r = Sized(b, s, p + 1, NumberWidth(b), d, text)
      BY <1>1, <1>4, <1>6 DEF Scalar
    <2>2. NumberWidth(b) \in Nat /\ p + 1 \in Nat
      BY NumberWidthType
    <2> HIDE DEF r, u, b
    <2>3. u.p = (p + 1) + NumberWidth(b)
      BY <2>1, <2>2, SizedResult DEF u
    <2>4. ~((p + 1) + NumberWidth(b) > l)
      BY <1>0, <2>2, <2>3 DEF u
    <2>5. r.status = "ok"
      BY <2>1, <2>4 DEF Sized, Returned
    <2> QED BY <1>3, <2>5 DEF r
  <1>7. CASE ~T_DIRECT(b) /\ b \notin 202 .. 211
             /\ b \in {193} \cup (199 .. 201) \cup (212 .. 216)
    <2>1. u = Died("unexpected", p + 1, d)
      BY <1>1, <1>4, <1>7 DEF Scalar
    <2> QED BY <2>1 DEF Died
  <1>8. CASE ~T_DIRECT(b) /\ b \notin 202 .. 211
             /\ b \notin {193} \cup (199 .. 201) \cup (212 .. 216)
    <2> DEFINE a == AfterFetch(t, p)
               size == FetchSize(t, p)
    <2>1. u = IF a > Len(t) THEN Died("insufficient", p + 1, d) ELSE Sized(b, t, a, size, d, text)
      BY <1>1, <1>4, <1>8 DEF Scalar
    <2>2. Sizeable(t[p + 1]) /\ a \in Nat
      <3>1. Sizeable(b)
        BY <1>2, <1>8 DEF Byte, Sizeable, T_DIRECT, T_STR, T_BIN, T_ARRAY, T_MAP
      <3> QED BY <1>1, <1>2, <3>1
    <2>3. ~(a > Len(t))
      BY <2>1 DEF Died
    <2>4. size \in Nat
      BY <1>0, <2>2, <2>3, FetchFacts
    <2>5. u.p = a + size
      <3>1. u = Sized(b, t, a, size, d, text)
        BY <2>1, <2>3
      <3> HIDE DEF a, size, b
      <3> QED BY <2>2, <2>4, <3>1, SizedResult
    <2>6. ~(a > l) /\ ~(a + size > l)
      BY <1>0, <2>2, <2>4, <2>5
    <2>7. a = AfterFetch(s, p) /\ size = FetchSize(s, p)
      BY <1>0, <1>1, <2>2, <2>6
    <2>8. r = Sized(b, s, a, size, d, text)
      BY <1>4, <1>8, <2>6, <2>7 DEF Scalar
    <2> HIDE DEF r, a, size
    <2>9. r.status = "ok"
      BY <2>6, <2>8 DEF Sized, Returned
    <2> QED BY <1>3, <2>9 DEF r
  <1> QED BY <1>5, <1>6, <1>7, <1>8

LEMMA ItemNotShort ==
  ASSUME NEW s \in Seq(Byte), NEW t \in Seq(Byte), Holds(t, 0, s, 0), NEW p \in Nat,
         NEW d \in Nat, NEW text, NEW V, NEW W, GoodFrom(V, p + 1), GoodFrom(W, p + 1),
         NotShort(V, W, Len(s), p + 1),
         Item(W, t, text, p, d).status = "ok", Item(W, t, text, p, d).p <= Len(s)
  PROVE  p < Len(s) /\ Item(V, s, text, p, d).status # "insufficient"
  <1> DEFINE u == Item(W, t, text, p, d)
             l == Len(s)
  <1>1. u.p \in Nat /\ u.p >= p + 1
    <2>1. Good(u, p + 1, d)
      BY ItemGood
    <2> QED BY <2>1 DEF Good
  <1>2. p < l /\ l \in Nat /\ Len(t) \in Nat /\ l <= Len(t) /\ p < Len(t)
    BY <1>1 DEF Holds
  <1>3. CASE ~ContainerAt(t, p)
    <2>1. u = Scalar(t, p, d, text)
      BY <1>3 DEF Item
    <2>2. ~ContainerAt(s, p) /\ Scalar(s, p, d, text).status # "insufficient"
      BY <1>2, <1>3, <2>1, ScalarNotShort
    <2> QED BY <1>2, <2>2 DEF Item
  <1>4. CASE ContainerAt(t, p)
    <2> DEFINE x == ItemsRow(t, p, d)
               b == t[p + 1]
               f == W[x]
               r == V[x]
    <2>1. /\ x \in From(p + 1) /\ x[1] = AfterFetch(t, p) /\ x[2] = d + 1
          /\ x[3] = FetchSize(t, p) * (IF T_MAP(t[p + 1]) THEN 2 ELSE 1)
      BY <1>4, ItemsRowType
    <2>2. u = Contained(b, f)
      BY <1>4 DEF Item, ItemsRow
    <2> HIDE DEF b
    <2>3. x \in Row /\ x = <<x[1], x[2], x[3]>> /\ x[1] \in Nat /\ x[2] \in Nat /\ x[3] \in Nat
          /\ x[1] >= p + 1
      BY <2>1 DEF From, Row
    <2> HIDE DEF x
    <2>4. Good(f, x[1], x[2]) /\ Good(r, x[1], x[2])
      BY <2>1 DEF GoodFrom
    <2> HIDE DEF f, r
    <2>5. f.status = "ok" /\ f.p <= l /\ f.p \in Nat /\ f.p >= x[1]
      BY <2>2, <2>4, ContainedAlike DEF Good
    <2>6. x[1] <= l
      BY <1>2, <2>3, <2>5
    <2>7. r.status # "insufficient"
      BY <2>3, <2>5, <2>6 DEF NotShort, f, r
    <2>8. /\ s[p + 1] = b /\ AfterFetch(s, p) = AfterFetch(t, p)
          /\ AfterFetch(s, p) <= l => FetchSize(s, p) = FetchSize(t, p)
      <3>1. /\ t[(0 + p) + 1] = s[p + 1] /\ AfterFetch(t, 0 + p) = 0 + AfterFetch(s, p)
            /\ AfterFetch(s, p) <= Len(s) => FetchSize(t, 0 + p) = FetchSize(s, p)
        BY <1>2, HeldFetch
      <3>2. 0 + AfterFetch(s, p) = AfterFetch(s, p) /\ 0 + p = p
        BY <1>2, FetchFacts
      <3> QED BY <3>1, <3>2 DEF b
    <2>9. ContainerAt(s, p) /\ x = ItemsRow(s, p, d)
      <3>1. ContainerAt(s, p)
        BY <1>2, <1>4, <2>1, <2>6, <2>8 DEF ContainerAt, b
      <3>2. ItemsRow(s, p, d) = ItemsRow(t, p, d)
        BY <2>1, <2>6, <2>8 DEF ItemsRow, b
      <3> QED BY <3>1, <3>2 DEF x
    <2>10. Item(V, s, text, p, d) = Contained(b, r)
      BY <2>8, <2>9 DEF Item, ItemsRow, r
    <2>11. Contained(b, r).status # "insufficient"
      BY <2>4, <2>7, ContainedAlike DEF Good
    <2> QED BY <1>2, <2>10, <2>11
  <1> QED BY <1>3, <1>4

LEMMA UnpackNotShort ==
  ASSUME NEW s \in Seq(Byte), NEW t \in Seq(Byte), Holds(t, 0, s, 0), NEW text
  PROVE  NotShort(Unpack(s, text), Unpack(t, text), Len(s), 0)
  <1> DEFINE V == Unpack(s, text)
             W == Unpack(t, text)
             l == Len(s)
             T == {i \in Nat : i <= l + 1 => NotShort(V, W, l, l + 1 - i)}
  <1>0. l \in Nat
    OBVIOUS
  <1>1. ASSUME NEW a \in Nat
        PROVE  GoodFrom(V, a) /\ GoodFrom(W, a)
    <2>1. ASSUME NEW x \in From(a)
          PROVE  Good(V[x], x[1], x[2]) /\ Good(W[x], x[1], x[2])
      <3>1. x[1] \in Nat /\ x[2] \in Nat /\ x[3] \in Nat /\ x = <<x[1], x[2], x[3]>>
        BY DEF From, Row
      <3>2. /\ Good(V[<<x[1], x[2], x[3]>>], x[1], x[2])
            /\ Good(W[<<x[1], x[2], x[3]>>], x[1], x[2])
        BY <3>1, UnpackGood
      <3> QED BY <3>1, <3>2
    <2> QED BY <2>1 DEF GoodFrom
  <1>2. ASSUME NEW a \in Nat, NotShort(V, W, l, a + 1), NEW c \in Nat, NEW m \in Nat,
               W[<<a, c, m>>].status = "ok", W[<<a, c, m>>].p <= l
        PROVE  V[<<a, c, m>>].status # "insufficient"
    <2> DEFINE v == Item(V, s, text, a, c)
               u == Item(W, t, text, a, c)
    <2>1. V[<<a, c, m>>] = Items(V, s, text, a, c, m) /\ W[<<a, c, m>>] = Items(W, t, text, a, c, m)
      BY UnpackStep
    <2>2. GoodFrom(V, a + 1) /\ GoodFrom(W, a + 1) /\ a + 1 \in Nat
      BY <1>1
    <2>3. ASSUME a <= l
          PROVE  Embeds(v, u, 0, l)
      <3>1. CASE a < l
        <4>1. EmbedsFrom(V, W, 0, l, a + 1)
          <5>1. ASSUME NEW i \in Nat, NEW d \in Nat, NEW n \in Nat, i >= a + 1, i <= l
                PROVE  Embeds(V[<<i, d, n>>], W[<<0 + i, d, n>>], 0, l)
            <6>1. i >= 0 /\ 0 \in Int /\ 0 \in Nat
              OBVIOUS
            <6> QED BY <5>1, <6>1, UnpackEmbeds
          <5> QED BY <5>1 DEF EmbedsFrom
        <4> HIDE DEF V, W
        <4>2. 0 + a = a /\ (0 + a) + 1 = a + 1 /\ a >= 0
          OBVIOUS
        <4>5. 0 \in Int /\ 0 \in Nat /\ a < Len(s)
          BY <3>1
        <4>6. GoodFrom(V, a + 1) /\ GoodFrom(W, (0 + a) + 1) /\ EmbedsFrom(V, W, 0, Len(s), a + 1)
          <5> HIDE DEF l
          <5>1. GoodFrom(V, a + 1) /\ GoodFrom(W, (0 + a) + 1)
            BY <2>2, <4>2
          <5>2. EmbedsFrom(V, W, 0, l, a + 1)
            BY <4>1
          <5> QED BY <5>1, <5>2 DEF l
        <4>3. Embeds(Item(V, s, text, a, c), Item(W, t, text, 0 + a, c), 0, Len(s))
          <5> HIDE DEF u, v, l
          <5> QED BY <4>2, <4>5, <4>6, HeldItem
        <4> QED BY <4>2, <4>3
      <3>2. CASE a = l
        <4>1. v = Died("insufficient", a, c)
          <5>1. ~ContainerAt(s, a)
            BY <3>2 DEF ContainerAt
          <5> QED BY <3>2, <5>1 DEF Item, Scalar
        <4>2. Good(u, a + 1, c)
          BY <2>2, ItemGood
        <4> HIDE DEF v, u
        <4> QED BY <4>1, <4>2 DEF Embeds, Died, Good
      <3> QED BY <1>0, <2>3, <3>1, <3>2
    <2> HIDE DEF V, W
    <2>4. CASE m = 0
      BY <2>1, <2>4 DEF Items, Returned
    <2>5. CASE m # 0
      <3>1. V[<<a, c, m>>] = Following(V, v, c, m - 1) /\ W[<<a, c, m>>] = Following(W, u, c, m - 1)
        BY <2>1, <2>5 DEF Items
      <3>2. Good(u, a + 1, c) /\ Good(v, a + 1, c) /\ m - 1 \in Nat
        BY <2>2, <2>5, ItemGood
      <3> HIDE DEF u, v
      <3>3. u.status = "ok"
        BY <1>2, <3>1 DEF Following
      <3> DEFINE y == <<u.p, c, m - 1>>
                 f == W[y]
                 r == V[y]
      <3>4. W[<<a, c, m>>].status = f.status /\ W[<<a, c, m>>].p = f.p
        BY <3>1, <3>3 DEF Following, Joined
      <3>5. u.p \in Nat /\ u.p >= a + 1 /\ y \in From(a + 1) /\ y[1] = u.p /\ y[2] = c
        BY <3>2, <3>3 DEF Good, From, Row
      <3>6. Good(f, u.p, c)
        <4> HIDE DEF y
        <4>1. Good(W[y], y[1], y[2])
          BY <2>2, <3>5 DEF GoodFrom
        <4> QED BY <3>5, <4>1
      <3>7. f.status = "ok" /\ f.p <= l /\ f.p \in Nat /\ f.p >= u.p
        <4> HIDE DEF f
        <4> QED BY <1>2, <3>4, <3>6 DEF Good
      <3>8. u.p <= l /\ a < l
        <4> HIDE DEF f, y
        <4> QED BY <1>0, <3>5, <3>7
      <3>9. v.status # "insufficient"
        BY <1>2, <2>2, <3>3, <3>8, ItemNotShort DEF u, v
      <3>10. v.status = "ok" /\ v.p = u.p
        <4>1. Embeds(v, u, 0, l)
          BY <2>3, <3>8
        <4>2. v.status = "ok" /\ u.p = 0 + v.p
          BY <3>3, <3>9, <4>1 DEF Embeds
        <4>3. v.p \in Nat
          BY <3>2, <4>2 DEF Good
        <4> QED BY <4>2, <4>3
      <3>11. r.status # "insufficient"
        <4>1. W[<<u.p, c, m - 1>>].status = "ok" /\ W[<<u.p, c, m - 1>>].p <= l
          BY <3>7
        <4> HIDE DEF f, r
        <4> QED BY <1>2, <3>2, <3>5, <3>8, <4>1 DEF NotShort, r
      <3>12. V[<<a, c, m>>].status = r.status
        BY <3>1, <3>10 DEF Following, Joined
      <3> QED BY <3>11, <3>12
    <2> QED BY <2>4, <2>5
  <1>3. 0 \in T
    <2> HIDE DEF V, W, l
    <2>1. ASSUME NEW i \in Nat, i >= l + 1, i <= l
          PROVE  FALSE
      BY <1>0, <2>1
    <2>2. NotShort(V, W, l, l + 1)
      BY <2>1 DEF NotShort
    <2>3. l + 1 - 0 = l + 1
      BY <1>0
    <2> QED BY <2>2, <2>3
  <1>4. ASSUME NEW i \in Nat, i \in T
        PROVE  i + 1 \in T
    <2> SUFFICES ASSUME i + 1 <= l + 1
                 PROVE  NotShort(V, W, l, l + 1 - (i + 1))
      OBVIOUS
    <2> DEFINE a == l + 1 - (i + 1)
    <2>1. a \in Nat /\ a + 1 = l + 1 - i /\ i <= l + 1
      BY <1>0
    <2>2. NotShort(V, W, l, a + 1)
      BY <1>4, <2>1
    <2> HIDE DEF a, V, W, T, l
    <2>3. ASSUME NEW q \in Nat, NEW c \in Nat, NEW m \in Nat, q >= a, q <= l,
                 W[<<q, c, m>>].status = "ok", W[<<q, c, m>>].p <= l
          PROVE  V[<<q, c, m>>].status # "insufficient"
      <3>1. CASE q = a
        BY <1>2, <2>1, <2>2, <2>3, <3>1
      <3>2. CASE q # a
        <4>1. q >= a + 1
          BY <2>1, <2>3, <3>2
        <4> QED BY <2>2, <2>3, <4>1 DEF NotShort
      <3> QED BY <3>1, <3>2
    <2>4. NotShort(V, W, l, a)
      BY <2>3 DEF NotShort
    <2> QED BY <2>4 DEF a
  <1>5. l + 1 \in T
    <2>1. l + 1 \in Nat
      BY <1>0
    <2> HIDE DEF T
    <2> QED BY <1>3, <1>4, <2>1, Induction
  <1>6. NotShort(V, W, l, l + 1 - (l + 1))
    BY <1>5
  <1>7. l + 1 - (l + 1) = 0
    BY <1>0
  <1> QED BY <1>6, <1>7

(* So a message is decoded from the bytes up to its end.                       *)
LEMMA DecodeCut ==
  ASSUME NEW t \in Seq(Byte), NEW text, NEW e, e = Decode(t, text).p, Decode(t, text).status = "ok",
         e <= Len(t)
  PROVE  e \in Nat /\ Decode(SubSeq(t, 1, e), text).val = Decode(t, text).val
  <1> DEFINE s == SubSeq(t, 1, e)
             row == <<0, 0, 1>>
             r == Unpack(s, text)[row]
             f == Unpack(t, text)[row]
  <1>1. Decode(t, text).status = f.status /\ Decode(t, text).p = f.p
        /\ Decode(t, text).val = IF f.status = "ok" THEN f.vals[1] ELSE NULL
    BY DEF Decode
  <1>2. e \in Nat
    <2>1. Good(f, 0, 0)
      BY UnpackGood
    <2> HIDE DEF f
    <2> QED BY <1>1, <2>1 DEF Good
  <1>3. s \in Seq(Byte) /\ Len(s) = e /\ \A i \in 1 .. e : s[i] = t[i]
    BY <1>2
  <1>4. Holds(t, 0, s, 0)
    <2> HIDE DEF s
    <2>1. 0 + 0 >= 0 /\ 0 + Len(s) <= Len(t)
      BY <1>2, <1>3
    <2>2. ASSUME NEW i \in 0 + 1 .. Len(s)
          PROVE  t[0 + i] = s[i]
      <3>1. i \in 1 .. e /\ 0 + i = i
        BY <1>2, <1>3
      <3> QED BY <1>3, <3>1
    <2> QED BY <2>1, <2>2 DEF Holds
  <1> HIDE DEF s
  <1>5. NotShort(Unpack(s, text), Unpack(t, text), Len(s), 0)
    BY <1>3, <1>4, UnpackNotShort
  <1>6. r.status # "insufficient"
    <2>1. 0 >= 0 /\ 0 <= Len(s) /\ f.status = "ok" /\ f.p <= Len(s)
      BY <1>1, <1>2, <1>3
    <2> QED BY <1>5, <2>1 DEF NotShort
  <1>7. Embeds(r, f, 0, Len(s))
    <2>1. Embeds(Unpack(s, text)[<<0, 0, 1>>], Unpack(t, text)[<<0 + 0, 0, 1>>], 0, Len(s))
      <3>1. 0 \in Nat /\ 0 \in Int /\ 0 >= 0 /\ 0 <= Len(s) /\ 1 \in Nat
        BY <1>2, <1>3
      <3> QED BY <1>3, <1>4, <3>1, UnpackEmbeds
    <2>2. 0 + 0 = 0
      OBVIOUS
    <2> QED BY <2>1, <2>2
  <1> HIDE DEF r, f
  <1>8. r.status = "ok" /\ r.vals = f.vals
    BY <1>1, <1>6, <1>7 DEF Embeds
  <1>9. Decode(s, text).val = r.vals[1]
    BY <1>8 DEF Decode, r
  <1> QED BY <1>1, <1>2, <1>8, <1>9 DEF s

-------------------------------------------------------------------------------
(* Functions and sequences.                                                    *)
LEMMA SameFunction ==
  ASSUME NEW S, NEW R, NEW a \in [S -> R], NEW b \in [S -> R], \A x \in S : a[x] = b[x]
  PROVE  a = b
  OBVIOUS

LEMMA NoneLeft ==
  ASSUME NEW S, NEW s \in Seq(S)
  PROVE  SubSeq(s, Len(s) + 1, Len(s)) = << >> /\ SubSeq(s, 1, Len(s)) = s
  OBVIOUS

LEMMA Halves ==
  ASSUME NEW k \in Nat
  PROVE  /\ (2 * k - 1 + 1) \div 2 = k /\ (2 * k - 1) % 2 = 1
         /\ (2 * k + 1) \div 2 = k /\ (2 * k) % 2 = 0
  BY SMT

(* The bytes behind a header byte, as the decoder cuts them out.               *)
LEMMA Cut ==
  ASSUME NEW s \in Seq(Byte), NEW p \in Nat, NEW w \in Nat, p + 1 + w <= Len(s)
  PROVE  LET n == SubSeq(s, p + 2, p + 1 + w) IN
         Len(n) = w /\ \A i \in 1 .. w : n[i] = s[p + 1 + i]
  <1> DEFINE a == p + 2
             b == p + 1 + w
             n == SubSeq(s, a, b)
  <1>1. /\ a \in Nat /\ a >= 1 /\ b \in Nat /\ b <= Len(s) /\ b - a + 1 = w
        /\ \A i \in 1 .. w : a + i - 1 = p + 1 + i
    OBVIOUS
  <1> HIDE DEF a, b
  <1>2. Len(n) = w /\ \A i \in 1 .. w : n[i] = s[a + i - 1]
    BY <1>1
  <1> QED BY <1>1, <1>2 DEF a, b

LEMMA BytesOf ==
  ASSUME NEW s \in Seq(Byte)
  PROVE  Len(s) \in Nat /\ \A i \in 1 .. Len(s) : s[i] \in Int
  <1>1. Byte \subseteq Int
    BY DEF Byte
  <1>2. Len(s) \in Nat /\ \A i \in 1 .. Len(s) : s[i] \in Byte
    OBVIOUS
  <1> QED BY <1>1, <1>2

-------------------------------------------------------------------------------
(* The bytes b stand in s behind the first p.                                  *)
Stands(b, s, p) ==
  p + Len(b) <= Len(s) /\ \A i \in 1 .. Len(b) : s[p + i] = b[i]

LEMMA StandsItself ==
  ASSUME NEW h \in Seq(Byte)
  PROVE  Stands(h, h, 0) /\ h[0 + 1] = h[1]
  BY DEF Stands

LEMMA StandsParts ==
  ASSUME NEW a \in Seq(Byte), NEW b \in Seq(Byte), NEW s \in Seq(Byte), NEW p \in Nat,
         Stands(a \o b, s, p)
  PROVE  /\ Stands(a, s, p) /\ Stands(b, s, p + Len(a)) /\ p + Len(a) \in Nat
         /\ Len(a \o b) = Len(a) + Len(b)
  <1> DEFINE m == Len(a)
             n == Len(b)
             c == a \o b
  <1>1. /\ m \in Nat /\ n \in Nat /\ Len(c) = m + n /\ Len(s) \in Nat
        /\ \A i \in 1 .. m : c[i] = a[i]
        /\ \A i \in 1 .. n : c[m + i] = b[i]
    BY BytesOf
  <1>2. p + (m + n) <= Len(s) /\ \A i \in 1 .. m + n : s[p + i] = c[i]
    BY <1>1 DEF Stands
  <1> HIDE DEF m, n, c
  <1>3. p + m <= Len(s) /\ \A i \in 1 .. m : s[p + i] = a[i]
    BY <1>1, <1>2
  <1>4. (p + m) + n <= Len(s) /\ p + m \in Nat
    BY <1>1, <1>2
  <1>5. ASSUME NEW i \in 1 .. n
        PROVE  s[(p + m) + i] = b[i]
    <2>1. m + i \in 1 .. m + n /\ p + (m + i) = (p + m) + i
      BY <1>1
    <2> QED BY <1>1, <1>2, <2>1
  <1> QED BY <1>1, <1>3, <1>4, <1>5 DEF Stands, m, n, c

Parted(a, b, s, p) ==
  /\ Stands(a, s, p) /\ Stands(b, s, p + Len(a)) /\ p + Len(a) \in Nat
  /\ Len(a \o b) = Len(a) + Len(b)

LEMMA StandsParted ==
  ASSUME NEW a \in Seq(Byte), NEW b \in Seq(Byte), NEW s \in Seq(Byte), NEW p \in Nat,
         Stands(a \o b, s, p)
  PROVE  Parted(a, b, s, p)
  BY StandsParts DEF Parted

LEMMA StandsIsPart ==
  ASSUME NEW b \in Seq(Byte), NEW s \in Seq(Byte), NEW p \in Nat, Stands(b, s, p)
  PROVE  SubSeq(s, p + 1, p + Len(b)) = b /\ p + Len(b) <= Len(s)
  <1> DEFINE n == Len(b)
             t == SubSeq(s, p + 1, p + n)
  <1>1. n \in Nat /\ Len(s) \in Nat /\ b \in [1 .. n -> Byte]
    OBVIOUS
  <1>2. p + n <= Len(s) /\ \A i \in 1 .. n : s[p + i] = b[i]
    BY DEF Stands
  <1> HIDE DEF n
  <1>3. t \in Seq(Byte) /\ Len(t) = n /\ \A i \in 1 .. n : t[i] = s[p + i]
    <2>1. p + 1 \in 1 .. Len(s) + 1 /\ p + n \in p .. Len(s)
      BY <1>1, <1>2
    <2>2. p + 1 >= 1 /\ p + n <= Len(s) /\ p + n - (p + 1) + 1 = n
      BY <1>1, <1>2
    <2>3. \A i \in 1 .. n : (p + 1) + i - 1 = p + i
      BY <1>1
    <2> QED BY <1>1, <2>1, <2>2, <2>3
  <1> HIDE DEF t
  <1>4. t \in [1 .. n -> Byte]
    BY <1>3
  <1>5. t = b
    <2> DEFINE S == 1 .. n
    <2>1. t \in [S -> Byte] /\ b \in [S -> Byte] /\ \A i \in S : t[i] = b[i]
      BY <1>1, <1>2, <1>3, <1>4
    <2> HIDE DEF S
    <2> QED BY <2>1, SameFunction
  <1> QED BY <1>2, <1>5 DEF t, n

-------------------------------------------------------------------------------
(* What _unpack makes of a number.                                             *)
LEMMA NumberAt ==
  ASSUME NEW s \in Seq(Byte), NEW p \in Nat, NEW depth, NEW text,
         p + 1 <= Len(s), s[p + 1] \in 204 .. 211,
         NEW w \in Nat, NumberWidth(s[p + 1]) = w, p + 1 + w <= Len(s)
  PROVE  Scalar(s, p, depth, text) =
           Returned(<<UnpackNumber(s[p + 1], SubSeq(s, p + 2, p + 1 + w))>>,
                    p + 1 + w, depth)
  <1>1. ~T_DIRECT(s[p + 1]) /\ s[p + 1] \in 202 .. 211 /\ ~(p >= Len(s))
    <2>1. \A c \in 204 .. 211 : ~T_DIRECT(c) /\ c \in 202 .. 211
      BY DEF T_DIRECT
    <2>2. ~(p >= Len(s))
      OBVIOUS
    <2> QED BY <2>1, <2>2
  <1>2. Scalar(s, p, depth, text) = Sized(s[p + 1], s, p + 1, w, depth, text)
    BY <1>1, Zenon DEF Scalar
  <1>3. p + 1 + 1 = p + 2 /\ ~(p + 1 + w > Len(s))
    OBVIOUS
  <1> QED BY <1>1, <1>2, <1>3, Zenon DEF Sized

LEMMA ContainerByte ==
  ASSUME NEW b, T_ARRAY(b) \/ T_MAP(b)
  PROVE  /\ ~T_DIRECT(b) /\ b \notin 202 .. 211
         /\ b \notin {193} \cup (199 .. 201) \cup (212 .. 216)
  <1>1. b \in 128 .. 159 \/ b \in 220 .. 223
    BY DEF T_ARRAY, T_MAP
  <1> QED BY <1>1, SMT DEF T_DIRECT

(* A string: h is its header, b the first byte of it.                          *)
LEMMA StringByte ==
  ASSUME NEW b, T_STR(b) \/ T_BIN(b)
  PROVE  /\ ~T_DIRECT(b) /\ ~T_ARRAY(b) /\ ~T_MAP(b) /\ b \notin 202 .. 211
         /\ b \notin {193} \cup (199 .. 201) \cup (212 .. 216)
  <1>1. ASSUME NEW c, T_STR(c)
        PROVE  c \in 160 .. 191 \/ c \in 217 .. 219
    BY <1>1 DEF T_STR
  <1>2. ASSUME NEW c, T_BIN(c)
        PROVE  c \in 196 .. 198
    BY <1>2 DEF T_BIN
  <1>3. ASSUME NEW c, c \in 160 .. 191 \/ c \in 217 .. 219 \/ c \in 196 .. 198
        PROVE  /\ ~T_DIRECT(c) /\ ~T_ARRAY(c) /\ ~T_MAP(c) /\ c \notin 202 .. 211
               /\ c \notin {193} \cup (199 .. 201) \cup (212 .. 216)
    BY <1>3, SMT DEF T_DIRECT, T_ARRAY, T_MAP
  <1> QED BY <1>1, <1>2, <1>3

LEMMA BinByte ==
  ASSUME NEW b, T_BIN(b)
  PROVE  ~T_STR(b)
  BY SMT DEF T_BIN, T_STR

LEMMA MapOrArray ==
  ASSUME NEW b
  PROVE  ~(T_ARRAY(b) /\ T_MAP(b))
  BY DEF T_ARRAY, T_MAP

-------------------------------------------------------------------------------
(* Reading what was packed.                                                    *)
(* In whatever string the bytes b stand: a call of _unpack at b returns m, and *)
(* n calls in a row return vals, with $p behind b.                             *)
Yields(b, m) ==
  \A s \in Seq(Byte), p \in Nat, d \in Nat : Stands(b, s, p) =>
    \E e \in Nat :
      Item(Unpack(s, FALSE), s, FALSE, p, d) = Returned(<<m>>, p + Len(b), e)

ReadsRow(b, vals, n) ==
  \A s \in Seq(Byte), p \in Nat, d \in Nat : Stands(b, s, p) =>
    \E e \in Nat : Unpack(s, FALSE)[<<p, d, n>>] = Returned(vals, p + Len(b), e)

LEMMA BytesStep ==
  ASSUME NEW s \in Seq(Byte), NEW p \in Nat, NEW d \in Nat, NEW n \in Nat
  PROVE  Unpack(s, FALSE)[<<p, d, n>>] = Items(Unpack(s, FALSE), s, FALSE, p, d, n)
  <1> DEFINE text == FALSE
  <1> HIDE DEF text
  <1>1. Unpack(s, text)[<<p, d, n>>] = Items(Unpack(s, text), s, text, p, d, n)
    BY UnpackStep
  <1> QED BY <1>1 DEF text

LEMMA ReadsNothing == ReadsRow(<< >>, << >>, 0)
  <1> SUFFICES ASSUME NEW s \in Seq(Byte), NEW p \in Nat, NEW d \in Nat
               PROVE  \E e \in Nat :
                        Unpack(s, FALSE)[<<p, d, 0>>] = Returned(<< >>, p + Len(<< >>), e)
    BY DEF ReadsRow
  <1>1. Unpack(s, FALSE)[<<p, d, 0>>] = Items(Unpack(s, FALSE), s, FALSE, p, d, 0)
    BY BytesStep
  <1>2. Items(Unpack(s, FALSE), s, FALSE, p, d, 0) = Returned(<< >>, p, d)
    BY DEF Items
  <1>3. p + Len(<< >>) = p
    OBVIOUS
  <1> QED BY <1>1, <1>2, <1>3

(* One call, and the n calls behind it.                                        *)
LEMMA ReadsNext ==
  ASSUME NEW b \in Seq(Byte), NEW c \in Seq(Byte), NEW m, NEW vals, NEW n \in Nat,
         Yields(b, m), ReadsRow(c, vals, n)
  PROVE  ReadsRow(b \o c, <<m>> \o vals, n + 1)
  <1> SUFFICES ASSUME NEW s \in Seq(Byte), NEW p \in Nat, NEW d \in Nat,
                      Stands(b \o c, s, p)
               PROVE  \E e \in Nat : Unpack(s, FALSE)[<<p, d, n + 1>>] =
                                       Returned(<<m>> \o vals, p + Len(b \o c), e)
    BY DEF ReadsRow
  <1> DEFINE V == Unpack(s, FALSE)
             q == p + Len(b)
  <1>1. /\ Stands(b, s, p) /\ Stands(c, s, q) /\ q \in Nat
        /\ Len(b \o c) = Len(b) + Len(c) /\ q + Len(c) = p + (Len(b) + Len(c))
    BY StandsParts, BytesOf
  <1>2. PICK e \in Nat : Item(V, s, FALSE, p, d) = Returned(<<m>>, q, e)
    BY <1>1 DEF Yields
  <1>3. PICK f \in Nat : V[<<q, d, n>>] = Returned(vals, q + Len(c), f)
    BY <1>1 DEF ReadsRow
  <1>4. V[<<p, d, n + 1>>] = Items(V, s, FALSE, p, d, n + 1)
    <2>1. n + 1 \in Nat
      OBVIOUS
    <2> QED BY <2>1, BytesStep
  <1>5. Items(V, s, FALSE, p, d, n + 1) = Following(V, Returned(<<m>>, q, e), d, n)
    <2>1. n + 1 # 0 /\ (n + 1) - 1 = n
      OBVIOUS
    <2> QED BY <1>2, <2>1 DEF Items
  <1> HIDE DEF V, q
  <1>6. Following(V, Returned(<<m>>, q, e), d, n) =
          Joined(Returned(<<m>>, q, e), Returned(vals, q + Len(c), f))
    BY <1>3 DEF Following, Returned
  <1>7. Joined(Returned(<<m>>, q, e), Returned(vals, q + Len(c), f)) =
          Returned(<<m>> \o vals, q + Len(c), Max2(e, f))
    BY DEF Joined, Returned
  <1>8. Max2(e, f) \in Nat
    BY DEF Max2
  <1> QED BY <1>1, <1>4, <1>5, <1>6, <1>7, <1>8 DEF V

-------------------------------------------------------------------------------
(* P[i] are the predecessors of i in a strict total order of 1 .. n: their     *)
(* number is the place of i, and p[k] is what is at place k.                   *)
StrictOrder(P, n) ==
  /\ P \in [1 .. n -> SUBSET (1 .. n)]
  /\ \A i \in 1 .. n : i \notin P[i]
  /\ \A i, j \in 1 .. n : j \in P[i] => P[j] \subseteq P[i]
  /\ \A i, j \in 1 .. n : i # j => i \in P[j] \/ j \in P[i]

Ranks(p, P, n) ==
  /\ p = [k \in 1 .. n |-> p[k]]
  /\ \A k \in 1 .. n : (\E i \in 1 .. n : Cardinality(P[i]) = k - 1) =>
       p[k] \in 1 .. n /\ Cardinality(P[p[k]]) = k - 1

Rearranges(p, n) ==
  /\ p \in [1 .. n -> 1 .. n]
  /\ \A j, k \in 1 .. n : p[j] = p[k] => j = k
  /\ \A i \in 1 .. n : \E k \in 1 .. n : p[k] = i

LEMMA PlacesByRank ==
  ASSUME NEW n \in Nat, NEW P, StrictOrder(P, n), NEW p, Ranks(p, P, n)
  PROVE  Rearranges(p, n) /\ \A j, k \in 1 .. n : j < k => p[j] \in P[p[k]]
  <1> USE DEF StrictOrder
  <1> DEFINE Rank == [i \in 1 .. n |-> Cardinality(P[i])]
  <1>1. IsFiniteSet(1 .. n) /\ Cardinality(1 .. n) = n
    BY FS_Interval
  <1>2. ASSUME NEW i \in 1 .. n
        PROVE  IsFiniteSet(P[i]) /\ Cardinality(P[i]) \in 0 .. n - 1
    <2>1. P[i] \in SUBSET ((1 .. n) \ {i})
      OBVIOUS
    <2>2. IsFiniteSet((1 .. n) \ {i}) /\ Cardinality((1 .. n) \ {i}) = n - 1
      BY <1>1, FS_RemoveElement
    <2>3. IsFiniteSet(P[i]) /\ Cardinality(P[i]) <= n - 1
      BY <2>1, <2>2, FS_Subset
    <2>4. Cardinality(P[i]) \in Nat
      BY <2>3, FS_CardinalityType
    <2> QED BY <2>3, <2>4
  <1>3. ASSUME NEW i \in 1 .. n, NEW j \in 1 .. n, j \in P[i]
        PROVE  Cardinality(P[j]) < Cardinality(P[i])
    <2>1. P[j] \in SUBSET P[i] /\ P[j] # P[i]
      BY <1>3
    <2>2. Cardinality(P[j]) <= Cardinality(P[i]) /\ Cardinality(P[i]) # Cardinality(P[j])
      BY <2>1, <1>2, FS_Subset
    <2> QED BY <2>2, <1>2
  <1>4. ASSUME NEW i \in 1 .. n, NEW j \in 1 .. n, Cardinality(P[i]) = Cardinality(P[j])
        PROVE  i = j
    <2> SUFFICES ASSUME i # j
                 PROVE  FALSE
      OBVIOUS
    <2>1. i \in P[j] \/ j \in P[i]
      OBVIOUS
    <2>2. Cardinality(P[i]) \in Int
      BY <1>2
    <2> QED BY <2>1, <2>2, <1>3, <1>4
  <1>5. ASSUME NEW k \in 1 .. n
        PROVE  \E i \in 1 .. n : Cardinality(P[i]) = k - 1
    <2> SUFFICES ASSUME \A i \in 1 .. n : Cardinality(P[i]) # k - 1
                 PROVE  FALSE
      OBVIOUS
    <2> DEFINE T == (0 .. n - 1) \ {k - 1}
    <2>1. IsFiniteSet(T) /\ Cardinality(T) = n - 1
      <3>1. IsFiniteSet(0 .. n - 1) /\ Cardinality(0 .. n - 1) = n /\ k - 1 \in 0 .. n - 1
        BY FS_Interval
      <3> DEFINE A == 0 .. n - 1
                 m == k - 1
      <3> HIDE DEF A, m
      <3>2. IsFiniteSet(A \ {m}) /\ Cardinality(A \ {m}) = n - 1
        <4>1. IsFiniteSet(A) /\ Cardinality(A) = n /\ m \in A
          BY <3>1 DEF A, m
        <4> QED BY <4>1, FS_RemoveElement
      <3> QED BY <3>2 DEF A, m
    <2>2. Rank \in [1 .. n -> T]
      BY <1>2
    <2>3. \E i, j \in 1 .. n : i # j /\ Rank[i] = Rank[j]
      <3>1. n - 1 < n
        OBVIOUS
      <3> HIDE DEF T, Rank
      <3> QED BY <2>1, <2>2, <3>1, <1>1, FS_PigeonHole
    <2> QED BY <2>3, <1>4
  <1>6. ASSUME NEW k \in 1 .. n
        PROVE  p[k] \in 1 .. n /\ Cardinality(P[p[k]]) = k - 1
    BY <1>5 DEF Ranks
  <1>7. p \in [1 .. n -> 1 .. n]
    BY <1>6 DEF Ranks
  <1>8. \A j, k \in 1 .. n : p[j] = p[k] => j = k
    <2> SUFFICES ASSUME NEW j \in 1 .. n, NEW k \in 1 .. n, p[j] = p[k]
                 PROVE  j = k
      OBVIOUS
    <2>1. j - 1 = k - 1
      BY <1>6
    <2> QED BY <2>1
  <1>9. ASSUME NEW i \in 1 .. n
        PROVE  \E k \in 1 .. n : p[k] = i
    <2> DEFINE k == Cardinality(P[i]) + 1
    <2>1. k \in 1 .. n /\ k - 1 = Cardinality(P[i])
      BY <1>2
    <2>2. p[k] \in 1 .. n /\ Cardinality(P[p[k]]) = k - 1
      BY <2>1, <1>6
    <2> HIDE DEF k
    <2>3. p[k] = i
      BY <2>1, <2>2, <1>4
    <2> QED BY <2>1, <2>3
  <1>10. ASSUME NEW j \in 1 .. n, NEW k \in 1 .. n, j < k
         PROVE  p[j] \in P[p[k]]
    <2> SUFFICES ASSUME p[j] \notin P[p[k]]
                 PROVE  FALSE
      OBVIOUS
    <2>1. p[j] # p[k] /\ p[j] \in 1 .. n /\ p[k] \in 1 .. n
      <3>1. j # k
        BY <1>10
      <3> QED BY <1>7, <1>8, <3>1, Zenon
    <2>2. p[k] \in P[p[j]]
      BY <2>1
    <2>3. Cardinality(P[p[k]]) < Cardinality(P[p[j]])
      BY <2>1, <2>2, <1>3
    <2>4. k - 1 < j - 1
      BY <2>3, <1>6
    <2> QED BY <2>4, <1>10
  <1> QED BY <1>7, <1>8, <1>9, <1>10 DEF Rearranges

-------------------------------------------------------------------------------
(* A hash that n different keys ks with their values vs have been put into.    *)
HoldsPairs(c, ks, vs, n) ==
  /\ CountedHash(c) /\ c.hv = [x \in DOMAIN c.hv |-> c.hv[x]]
  /\ DOMAIN c.hv = {ks[i] : i \in 1 .. n}
  /\ \A i \in 1 .. n : c.hv[ks[i]] = vs[i]

LEMMA NothingFilled ==
  ASSUME NEW ks, NEW vs
  PROVE  HoldsPairs(EmptyHash, ks, vs, 0)
  <1>1. EmptyHash.hv = << >> /\ DOMAIN EmptyHash.hv = {}
    BY DEF EmptyHash
  <1>2. << >> = [x \in {} |-> << >>[x]]
    OBVIOUS
  <1>3. {ks[i] : i \in 1 .. 0} = {} /\ 1 .. 0 = {}
    OBVIOUS
  <1> QED BY <1>1, <1>2, <1>3, EmptyCounted DEF HoldsPairs

LEMMA PairFills ==
  ASSUME NEW c, NEW ks, NEW vs, NEW n \in Nat, HoldsPairs(c, ks, vs, n),
         \A i \in 1 .. n : ks[i] # ks[n + 1],
         NEW k, HashKey(k) = ks[n + 1], NEW v, v = vs[n + 1], v.svs \in Nat
  PROVE  HoldsPairs(MapItem(c, k, v), ks, vs, n + 1)
  <1> DEFINE m == MapItem(c, k, v)
             x == ks[n + 1]
             D == DOMAIN c.hv
  <1>1. CountedHash(m)
    BY MapItemCounted DEF HoldsPairs
  <1>2. m.hv = [y \in {x} \cup D |-> IF y = x THEN v ELSE c.hv[y]]
    BY DEF MapItem, HvStore
  <1>3. D = {ks[i] : i \in 1 .. n} /\ \A i \in 1 .. n : c.hv[ks[i]] = vs[i]
    BY DEF HoldsPairs
  <1>4. \A i \in 1 .. n + 1 : i \in 1 .. n \/ i = n + 1
    OBVIOUS
  <1>5. \A i \in 1 .. n : i \in 1 .. n + 1
    OBVIOUS
  <1>6. n + 1 \in 1 .. n + 1
    OBVIOUS
  <1> HIDE DEF m, x, D
  <1>7. DOMAIN m.hv = {x} \cup D /\ m.hv = [y \in DOMAIN m.hv |-> m.hv[y]]
    BY <1>2
  <1>8. {x} \cup D = {ks[i] : i \in 1 .. n + 1}
    BY <1>3, <1>4, <1>5, <1>6 DEF x
  <1>9. ASSUME NEW i \in 1 .. n + 1
        PROVE  m.hv[ks[i]] = vs[i]
    <2>1. CASE i = n + 1
      BY <1>2, <2>1 DEF x
    <2>2. CASE i \in 1 .. n
      <3>1. ks[i] # x /\ ks[i] \in D
        BY <1>3, <2>2 DEF x
      <3> QED BY <1>2, <1>3, <2>2, <3>1
    <2> QED BY <1>4, <2>1, <2>2
  <1>10. HoldsPairs(m, ks, vs, n + 1)
    BY <1>1, <1>7, <1>8, <1>9 DEF HoldsPairs
  <1> QED BY <1>10 DEF m

(* The values of a row as n keys and their values.                             *)
KeysAndValues(vals, ks, vs, n) ==
  \A i \in 1 .. n : /\ HashKey(vals[2 * i - 1]) = ks[i] /\ vals[2 * i] = vs[i]
                    /\ vs[i].svs \in Nat

LEMMA HashFilled ==
  ASSUME NEW n \in Nat, NEW vals, Len(vals) = 2 * n, NEW ks, NEW vs,
         KeysAndValues(vals, ks, vs, n), \A i, j \in 1 .. n : ks[i] = ks[j] => i = j
  PROVE  HoldsPairs(HashOf(vals), ks, vs, n)
  <1> DEFINE C == TurnsBy(EmptyHash, vals, n)
             S == {j \in Nat : j <= n => HoldsPairs(C[j], ks, vs, j)}
  <1>1. /\ HashOf(vals) = C[n]
        /\ C = [i \in 0 .. n |-> IF i = 0 THEN EmptyHash ELSE Turn(C[i - 1], vals, i)]
    <2>1. Len(vals) \div 2 = n
      BY SMT
    <2>2. /\ Turns(EmptyHash, vals, n) = C[n]
          /\ C = [i \in 0 .. n |-> IF i = 0 THEN EmptyHash ELSE Turn(C[i - 1], vals, i)]
      <3> HIDE DEF C
      <3> QED BY TurnsDefined DEF C
    <2> QED BY <2>1, <2>2 DEF HashOf
  <1> HIDE DEF C
  <1>2. 0 \in S
    <2>1. 0 \in 0 .. n
      OBVIOUS
    <2>2. C[0] = EmptyHash
      BY <1>1, <2>1
    <2> QED BY <2>2, NothingFilled
  <1>3. ASSUME NEW j \in Nat, j \in S
        PROVE  j + 1 \in S
    <2>1. ASSUME j + 1 <= n
          PROVE  HoldsPairs(C[j + 1], ks, vs, j + 1)
      <3> DEFINE k == vals[2 * (j + 1) - 1]
                 v == vals[2 * (j + 1)]
                 c == C[j]
      <3>1. j <= n /\ j + 1 \in 0 .. n /\ j + 1 # 0 /\ (j + 1) - 1 = j /\ j + 1 \in 1 .. n
        BY <2>1
      <3>2. HoldsPairs(c, ks, vs, j)
        BY <1>3, <3>1
      <3>3. C[j + 1] = Turn(c, vals, j + 1)
        BY <1>1, <3>1
      <3>4. Turn(c, vals, j + 1) = MapItem(c, k, v)
        <4>1. "av" \notin DOMAIN c
          <5>1. c = [hv |-> c.hv, svs |-> c.svs]
            BY <3>2 DEF HoldsPairs, CountedHash
          <5> HIDE DEF c
          <5> QED BY <5>1
        <4> HIDE DEF c
        <4> QED BY <4>1 DEF Turn
      <3>5. HashKey(k) = ks[j + 1] /\ v = vs[j + 1] /\ v.svs \in Nat
        <4> HIDE DEF k, v
        <4> QED BY <3>1 DEF KeysAndValues, k, v
      <3>6. \A i \in 1 .. j : ks[i] # ks[j + 1]
        <4>1. \A i \in 1 .. j : i \in 1 .. n /\ i # j + 1
          BY <3>1
        <4> QED BY <3>1, <4>1
      <3> HIDE DEF k, v, c
      <3>7. HoldsPairs(MapItem(c, k, v), ks, vs, j + 1)
        BY <3>2, <3>5, <3>6, PairFills
      <3> QED BY <3>3, <3>4, <3>7
    <2> QED BY <2>1
  <1>4. Nat \subseteq S
    <2> HIDE DEF S
    <2> QED BY <1>2, <1>3, Induction
  <1> QED BY <1>1, <1>4

(* The order does not matter.                                                  *)
LEMMA SameFilled ==
  ASSUME NEW n \in Nat, NEW c, NEW ks, NEW vs, HoldsPairs(c, ks, vs, n),
         NEW b, NEW js, NEW us, HoldsPairs(b, js, us, n), NEW p, Rearranges(p, n),
         \A k \in 1 .. n : js[k] = ks[p[k]] /\ us[k] = vs[p[k]]
  PROVE  b = c
  <1> DEFINE N == 1 .. n
             D == DOMAIN c.hv
             E == DOMAIN b.hv
  <1>1. (\A k \in N : p[k] \in N) /\ \A i \in N : \E k \in N : p[k] = i
    BY DEF Rearranges
  <1>2. D = {ks[i] : i \in N} /\ E = {js[i] : i \in N}
    BY DEF HoldsPairs
  <1>3. (\A i \in N : c.hv[ks[i]] = vs[i]) /\ \A i \in N : b.hv[js[i]] = us[i]
    BY DEF HoldsPairs
  <1>4. \A k \in N : js[k] = ks[p[k]] /\ us[k] = vs[p[k]]
    OBVIOUS
  <1>5. c.hv = [x \in D |-> c.hv[x]] /\ b.hv = [x \in E |-> b.hv[x]]
    BY DEF HoldsPairs
  <1> HIDE DEF N, D, E
  <1>6. D = E
    BY <1>1, <1>2, <1>4
  <1>7. \A x \in E : b.hv[x] = c.hv[x]
    <2> SUFFICES ASSUME NEW k \in N
                 PROVE  b.hv[js[k]] = c.hv[js[k]]
      BY <1>2
    <2> QED BY <1>1, <1>3, <1>4
  <1>8. b.hv = c.hv
    <2> DEFINE f == b.hv
               g == c.hv
    <2> HIDE DEF f, g
    <2>1. f = [x \in E |-> f[x]] /\ g = [x \in E |-> g[x]] /\ \A x \in E : f[x] = g[x]
      BY <1>5, <1>6, <1>7 DEF f, g
    <2> QED BY <2>1, Zenon DEF f, g
  <1>9. /\ b = [hv |-> b.hv, svs |-> b.svs] /\ c = [hv |-> c.hv, svs |-> c.svs]
        /\ b.svs = 1 + Cardinality(Owns(b.hv)) /\ c.svs = 1 + Cardinality(Owns(c.hv))
    BY DEF HoldsPairs, CountedHash
  <1>10. b.svs = c.svs
    BY <1>8, <1>9
  <1> QED BY <1>8, <1>9, <1>10, Zenon

LEMMA ArrayCounted ==
  ASSUME NEW vals, Len(vals) \in Nat, \A i \in 1 .. Len(vals) : vals[i].svs \in Nat
  PROVE  CountedArray(ArrayOf(vals))
  <1> DEFINE n == Len(vals)
             C == TurnsBy(EmptyArray, vals, n)
             S == {j \in Nat : j <= n => CountedArray(C[j])}
  <1>1. /\ ArrayOf(vals) = C[n]
        /\ C = [i \in 0 .. n |-> IF i = 0 THEN EmptyArray ELSE Turn(C[i - 1], vals, i)]
    <2> HIDE DEF C
    <2> QED BY TurnsDefined DEF C, ArrayOf
  <1> HIDE DEF C
  <1>2. 0 \in S
    <2>1. 0 \in 0 .. n
      OBVIOUS
    <2>2. C[0] = EmptyArray
      BY <1>1, <2>1
    <2> QED BY <2>2, EmptyCounted
  <1>3. ASSUME NEW j \in Nat, j \in S
        PROVE  j + 1 \in S
    <2>1. ASSUME j + 1 <= n
          PROVE  CountedArray(C[j + 1])
      <3> DEFINE v == vals[j + 1]
                 c == C[j]
      <3>1. j <= n /\ j + 1 \in 0 .. n /\ j + 1 # 0 /\ (j + 1) - 1 = j /\ j + 1 \in 1 .. n
        BY <2>1
      <3>2. CountedArray(c)
        BY <1>3, <3>1
      <3>3. C[j + 1] = Turn(c, vals, j + 1)
        BY <1>1, <3>1
      <3>4. Turn(c, vals, j + 1) = ArrayItem(c, v)
        <4>1. "av" \in DOMAIN c
          <5>1. c = [av |-> c.av, svs |-> c.svs]
            BY <3>2 DEF CountedArray
          <5> HIDE DEF c
          <5> QED BY <5>1
        <4> HIDE DEF c
        <4> QED BY <4>1 DEF Turn
      <3>5. v.svs \in Nat
        BY <3>1
      <3> HIDE DEF v, c
      <3>6. CountedArray(ArrayItem(c, v))
        BY <3>2, <3>5, ArrayItemCounted
      <3> QED BY <3>3, <3>4, <3>6
    <2> QED BY <2>1
  <1>4. Nat \subseteq S
    <2> HIDE DEF S
    <2> QED BY <1>2, <1>3, Induction
  <1>5. n \in S
    <2> HIDE DEF S
    <2> QED BY <1>4
  <1>6. CountedArray(C[n])
    BY <1>5
  <1> HIDE DEF n
  <1> QED BY <1>1, <1>6
===============================================================================
