-------------------------- MODULE UnpackTemplate_proofs --------------------------
(******************************************************************************)
(* The parser template_execute and the recursive decoder _unpack give the same *)
(* meaning to every byte string, as long as the containers fit on the parser's *)
(* stack.                                                                      *)
(*                                                                             *)
(* The parser has no recursion: the calls of _unpack that have not returned    *)
(* are its stack.  The invariant names, for each level of it, the result that  *)
(* the row of calls at that level will have, and says how the frame and the    *)
(* result of the level above make it.  So the meaning of the whole string is   *)
(* the meaning of what is ahead, put into the frames; at the end nothing is    *)
(* ahead, and it is the value in the last frame.                               *)
(******************************************************************************)
EXTENDS UnpackTemplate, PPUnpack_proofs

USE StackSizeAssumption

-------------------------------------------------------------------------------
(* Results that differ in how deep the containers are nested, but not in       *)
(* whether they fit on the stack.                                              *)
Fits(r) == r.depth <= StackSize

Same(a, b) ==
  /\ a.status = b.status
  /\ a.status = "ok" => a.vals = b.vals /\ a.p = b.p
  /\ Fits(a) <=> Fits(b)

(* How many calls of _unpack are due at a level: that of the whole string, or  *)
(* those for what the container below it still needs.                          *)
DueIn(f) ==
  IF f.ct = CT_ARRAY_ITEM THEN f.count
  ELSE IF f.ct = CT_MAP_KEY THEN 2 * f.count
  ELSE 2 * f.count - 1

Due(S, i) == IF i = 0 THEN 1 ELSE DueIn(S[i - 1])

(* The container of a frame with the values that are still to come.            *)
Filled(f, vals) ==
  IF f.ct = CT_ARRAY_ITEM THEN Turns(f.obj, vals, Len(vals))
  ELSE LET all == IF f.ct = CT_MAP_VALUE THEN <<f.map_key>> \o vals ELSE vals IN
       Turns(f.obj, all, Len(all) \div 2)

Closed(f, r) ==
  IF r.status # "ok" THEN r
  ELSE [status |-> r.status, vals |-> <<Filled(f, r.vals)>>, p |-> r.p, depth |-> r.depth]

(* A frame that waits for an item.                                             *)
Open(f) ==
  /\ f.count \in Nat \ {0} /\ f.ct \in {CT_ARRAY_ITEM, CT_MAP_KEY, CT_MAP_VALUE}
  /\ IsAV(f.obj) <=> f.ct = CT_ARRAY_ITEM

(* R[i] is what the row of calls at level i will return, and w what the call    *)
(* for the whole message will; V is Unpack.                                    *)
Linked(V, w, S, R, t) ==
  /\ \A i \in 0 .. t - 1 : Open(S[i])
  /\ \A i \in 0 .. t : Good(R[i], 0, i)
  /\ \A i \in 0 .. t - 1 :
       Same(R[i], Following(V, Closed(S[i], R[i + 1]), i, Due(S, i) - 1))
  /\ Same(R[0], w)
  /\ \A i \in 0 .. t : R[i].status # "ok" => Same(R[i], w)
  /\ \A i \in 0 .. t : ~Fits(R[i]) => ~Fits(w)

LEMMA DueType ==
  ASSUME NEW S, NEW i \in Nat, i > 0 => Open(S[i - 1])
  PROVE  Due(S, i) \in Nat \ {0}
  BY DEF Due, DueIn, Open

LEMMA SameFollowing ==
  ASSUME NEW V, GoodFrom(V, 0), NEW a, NEW b, NEW i \in Nat, NEW n \in Nat,
         Good(a, 0, 0), Good(b, 0, 0), Same(a, b)
  PROVE  Same(Following(V, a, i, n), Following(V, b, i, n))
  <1>1. CASE a.status # "ok"
    BY <1>1 DEF Following, Same
  <1>2. CASE a.status = "ok"
    <2> DEFINE r == V[<<a.p, i, n>>]
    <2>1. b.status = "ok" /\ a.p \in Nat /\ b.p = a.p /\ a.vals = b.vals
      BY <1>2 DEF Same, Good
    <2>2. <<a.p, i, n>> \in From(0)
      BY <2>1 DEF From, Row
    <2>3. r.depth \in Nat
      BY <2>2 DEF GoodFrom, Good
    <2>4. Following(V, a, i, n) = Joined(a, r) /\ Following(V, b, i, n) = Joined(b, r)
      BY <1>2, <2>1 DEF Following
    <2> HIDE DEF r
    <2>5. a.depth \in Nat /\ b.depth \in Nat
      BY DEF Good
    <2>6. Max2(a.depth, r.depth) <= StackSize <=> Max2(b.depth, r.depth) <= StackSize
      BY <2>3, <2>5 DEF Same, Fits, Max2
    <2>7. Same(Joined(a, r), Joined(b, r))
      BY <2>1, <2>6 DEF Joined, Same, Fits
    <2> QED BY <2>4, <2>7
  <1> QED BY <1>1, <1>2

LEMMA ClosedGood ==
  ASSUME NEW f, NEW r, NEW q, NEW d, Good(r, q, d)
  PROVE  Good(Closed(f, r), q, d)
  <1> DEFINE v == Filled(f, r.vals)
  <1>1. IsSeq(<<v>>)
    BY One
  <1> HIDE DEF v
  <1>2. Closed(f, r) = IF r.status # "ok" THEN r
          ELSE [status |-> r.status, vals |-> <<v>>, p |-> r.p, depth |-> r.depth]
    BY DEF Closed, v
  <1> QED BY <1>1, <1>2 DEF Good, IsResult

LEMMA SameTrans ==
  ASSUME NEW a, NEW b, NEW c, Same(a, b), Same(b, c)
  PROVE  Same(a, c) /\ Same(b, a)
  BY DEF Same

LEMMA SameSym ==
  ASSUME NEW a, NEW b, Same(a, b)
  PROVE  Same(b, a)
  BY DEF Same

(* A row of calls returns less deep than the stack only when the first of them *)
(* does.                                                                       *)
LEMMA FollowingDepth ==
  ASSUME NEW V, GoodFrom(V, 0), NEW a, NEW i \in Nat, NEW n \in Nat, Good(a, 0, 0),
         Fits(Following(V, a, i, n))
  PROVE  Fits(a)
  <1>1. CASE a.status # "ok"
    BY <1>1 DEF Following
  <1>2. CASE a.status = "ok"
    <2> DEFINE r == V[<<a.p, i, n>>]
    <2>1. <<a.p, i, n>> \in From(0)
      BY <1>2 DEF From, Row, Good
    <2>2. r.depth \in Nat /\ a.depth \in Nat
      BY <2>1 DEF GoodFrom, Good
    <2>3. Following(V, a, i, n) = Joined(a, r)
      BY <1>2 DEF Following
    <2> HIDE DEF r
    <2>4. Joined(a, r).depth = Max2(a.depth, r.depth)
      BY DEF Joined
    <2> QED BY <2>2, <2>3, <2>4 DEF Fits, Max2
  <1> QED BY <1>1, <1>2

(* A container is opened: its items are a row of calls of their own.           *)
LEMMA Opened ==
  ASSUME NEW V, GoodFrom(V, 0), NEW w, NEW S, NEW R, NEW t \in Nat, Linked(V, w, S, R, t),
         NEW f, Open(f), NEW r, Good(r, 0, t + 1), NEW S2,
         S2[t] = f, \A i \in 0 .. t - 1 : S2[i] = S[i],
         Same(R[t], Following(V, Closed(f, r), t, Due(S, t) - 1))
  PROVE  \E R2 : Linked(V, w, S2, R2, t + 1) /\ R2[t + 1] = r
  <1> DEFINE R2 == [i \in 0 .. t + 1 |-> IF i = t + 1 THEN r ELSE R[i]]
             n == Due(S, t) - 1
  <1>1. R2[t + 1] = r /\ \A i \in 0 .. t : R2[i] = R[i]
    OBVIOUS
  <1>2. \A i \in 0 .. t : Due(S2, i) = Due(S, i)
    BY DEF Due
  <1>3. n \in Nat
    BY DueType DEF Linked
  <1>4. Good(Closed(f, r), 0, 0)
    <2>1. Good(Closed(f, r), 0, t + 1)
      BY ClosedGood
    <2> QED BY <2>1 DEF Good
  <1>5. r.status # "ok" => Same(r, w)
    <2>1. ASSUME r.status # "ok"
          PROVE  R[t].status # "ok" /\ Same(r, R[t])
      BY <2>1 DEF Closed, Following, Same
    <2> QED BY <2>1, SameTrans DEF Linked
  <1>6. ~Fits(r) => ~Fits(w)
    <2>1. ASSUME ~Fits(r)
          PROVE  ~Fits(R[t])
      <3>1. ~Fits(Closed(f, r))
        BY <2>1 DEF Closed, Fits
      <3>2. ~Fits(Following(V, Closed(f, r), t, n))
        <4> HIDE DEF n
        <4> QED BY <1>3, <1>4, <3>1, FollowingDepth
      <3> QED BY <3>2 DEF Same
    <2> QED BY <2>1 DEF Linked
  <1> HIDE DEF R2
  <1>7. \A i \in 0 .. t : Open(S2[i]) /\ \A j \in 0 .. t + 1 : Good(R2[j], 0, j)
    BY <1>1 DEF Linked
  <1>8. ASSUME NEW i \in 0 .. t
        PROVE  Same(R2[i], Following(V, Closed(S2[i], R2[i + 1]), i, Due(S2, i) - 1))
    <2>1. CASE i = t
      BY <1>1, <1>2, <2>1
    <2>2. CASE i # t
      <3>1. i \in 0 .. t - 1 /\ i + 1 \in 0 .. t
        BY <2>2
      <3> QED BY <1>1, <1>2, <3>1 DEF Linked
    <2> QED BY <2>1, <2>2
  <1>9. Same(R2[0], w)
    BY <1>1 DEF Linked
  <1>a. ASSUME NEW i \in 0 .. t + 1
        PROVE  /\ R2[i].status # "ok" => Same(R2[i], w)
               /\ ~Fits(R2[i]) => ~Fits(w)
    <2>1. CASE i = t + 1
      BY <1>1, <1>5, <1>6, <2>1
    <2>2. CASE i # t + 1
      <3>1. i \in 0 .. t
        BY <2>2
      <3> QED BY <1>1, <3>1 DEF Linked
    <2> QED BY <2>1, <2>2
  <1>10. Linked(V, w, S2, R2, t + 1)
    <2>1. \A i \in 0 .. (t + 1) - 1 : Open(S2[i])
      BY <1>7
    <2>2. \A i \in 0 .. t + 1 : Good(R2[i], 0, i)
      BY <1>7
    <2>3. \A i \in 0 .. (t + 1) - 1 :
            Same(R2[i], Following(V, Closed(S2[i], R2[i + 1]), i, Due(S2, i) - 1))
      BY <1>8
    <2>4. Same(R2[0], w)
      BY <1>9
    <2>5. \A i \in 0 .. t + 1 : R2[i].status # "ok" => Same(R2[i], w)
      BY <1>a
    <2>6. \A i \in 0 .. t + 1 : ~Fits(R2[i]) => ~Fits(w)
      BY <1>a
    <2> QED BY ONLY <2>1, <2>2, <2>3, <2>4, <2>5, <2>6, Zenon DEF Linked
  <1> QED BY <1>1, <1>10

(* The frame of the last container changes, and the row of calls for it with   *)
(* it: nothing below notices when they still make the same container.          *)
LEMMA Relinked ==
  ASSUME NEW V, GoodFrom(V, 0), NEW w, NEW S, NEW R, NEW t \in Nat \ {0}, Linked(V, w, S, R, t),
         NEW S2, Open(S2[t - 1]), \A i \in 0 .. t - 2 : S2[i] = S[i],
         NEW r, Good(r, 0, t), Same(Closed(S2[t - 1], r), Closed(S[t - 1], R[t])),
         r.status # "ok" => Same(r, R[t]) /\ R[t].status # "ok", Fits(r) <=> Fits(R[t])
  PROVE  \E R2 : Linked(V, w, S2, R2, t) /\ R2[t] = r
  <1> DEFINE R2 == [i \in 0 .. t |-> IF i = t THEN r ELSE R[i]]
  <1>1. R2[t] = r /\ \A i \in 0 .. t - 1 : R2[i] = R[i]
    OBVIOUS
  <1> HIDE DEF R2
  <1>2. \A i \in 0 .. t - 1 : Due(S2, i) = Due(S, i) /\ Due(S, i) - 1 \in Nat
    <2>1. ASSUME NEW i \in 0 .. t - 1
          PROVE  Due(S2, i) = Due(S, i)
      <3>1. i # 0 => i - 1 \in 0 .. t - 2
        OBVIOUS
      <3> QED BY <3>1 DEF Due
    <2>2. ASSUME NEW i \in 0 .. t - 1
          PROVE  Due(S, i) - 1 \in Nat
      <3>1. i \in Nat /\ (i > 0 => i - 1 \in 0 .. t - 1)
        OBVIOUS
      <3>2. i > 0 => Open(S[i - 1])
        BY <3>1 DEF Linked
      <3>3. Due(S, i) \in Nat \ {0}
        BY <3>1, <3>2, DueType
      <3> QED BY <3>3
    <2> QED BY <2>1, <2>2
  <1>3. ASSUME NEW i \in 0 .. t - 1
        PROVE  Same(R2[i], Following(V, Closed(S2[i], R2[i + 1]), i, Due(S2, i) - 1))
    <2>1. Same(R[i], Following(V, Closed(S[i], R[i + 1]), i, Due(S, i) - 1))
      BY DEF Linked
    <2>2. CASE i # t - 1
      <3>1. i \in 0 .. t - 2 /\ i + 1 \in 0 .. t - 1
        BY <2>2
      <3> QED BY <1>1, <1>2, <2>1, <3>1
    <2>3. CASE i = t - 1
      <3> DEFINE a == Closed(S2[i], r)
                 b == Closed(S[i], R[t])
                 n == Due(S, i) - 1
      <3>1. i \in Nat /\ n \in Nat /\ i + 1 = t
        BY <1>2, <2>3
      <3>2. Good(R[t], 0, t)
        BY DEF Linked
      <3>3. Good(a, 0, t) /\ Good(b, 0, t)
        BY <3>2, ClosedGood
      <3>4. Same(b, a)
        <4>1. a = Closed(S2[t - 1], r) /\ b = Closed(S[t - 1], R[t])
          BY <2>3
        <4> HIDE DEF a, b
        <4> QED BY <4>1, SameSym
      <3>5. Same(R[i], Following(V, b, i, n))
        BY <2>1, <3>1
      <3> HIDE DEF a, b, n
      <3>6. Good(a, 0, 0) /\ Good(b, 0, 0)
        BY <3>3 DEF Good
      <3>7. Same(Following(V, b, i, n), Following(V, a, i, n))
        BY <3>1, <3>4, <3>6, SameFollowing
      <3>8. Same(R[i], Following(V, a, i, n))
        BY <3>5, <3>7, SameTrans
      <3>9. R2[i] = R[i] /\ R2[i + 1] = r /\ Due(S2, i) = Due(S, i)
        BY <1>1, <1>2, <3>1
      <3> QED BY <3>8, <3>9 DEF a, n
    <2> QED BY <2>2, <2>3
  <1>4. ASSUME NEW i \in 0 .. t
        PROVE  /\ Good(R2[i], 0, i)
               /\ R2[i].status # "ok" => Same(R2[i], w)
               /\ ~Fits(R2[i]) => ~Fits(w)
    <2>1. CASE i = t
      <3>1. R2[i] = r
        BY <1>1, <2>1
      <3>2. r.status # "ok" => Same(r, w)
        <4>1. R[t].status # "ok" => Same(R[t], w)
          BY DEF Linked
        <4> QED BY <4>1, SameTrans
      <3>3. ~Fits(r) => ~Fits(w)
        BY DEF Linked
      <3> QED BY <2>1, <3>1, <3>2, <3>3
    <2>2. CASE i # t
      <3>1. i \in 0 .. t - 1
        BY <2>2
      <3>2. R2[i] = R[i]
        BY <1>1, <3>1
      <3> QED BY <3>2 DEF Linked
    <2> QED BY <2>1, <2>2
  <1>5. ASSUME NEW i \in 0 .. t - 1
        PROVE  Open(S2[i])
    <2>1. CASE i = t - 1
      BY <2>1
    <2>2. CASE i # t - 1
      <3>1. i \in 0 .. t - 2
        BY <2>2
      <3>2. S2[i] = S[i]
        BY <3>1
      <3> QED BY <3>2 DEF Linked
    <2> QED BY <2>1, <2>2
  <1>6. Same(R2[0], w)
    <2>1. 0 \in 0 .. t - 1
      OBVIOUS
    <2> QED BY <1>1, <2>1 DEF Linked
  <1>7. Linked(V, w, S2, R2, t)
    <2>1. \A i \in 0 .. t - 1 : Open(S2[i])
      BY <1>5
    <2>2. \A i \in 0 .. t : Good(R2[i], 0, i)
      BY <1>4
    <2>3. \A i \in 0 .. t - 1 :
            Same(R2[i], Following(V, Closed(S2[i], R2[i + 1]), i, Due(S2, i) - 1))
      BY <1>3
    <2>4. \A i \in 0 .. t : R2[i].status # "ok" => Same(R2[i], w)
      BY <1>4
    <2>5. \A i \in 0 .. t : ~Fits(R2[i]) => ~Fits(w)
      BY <1>4
    <2> QED BY ONLY <1>6, <2>1, <2>2, <2>3, <2>4, <2>5, Zenon DEF Linked
  <1> QED BY <1>1, <1>7

(* No call is due: nothing is returned, and behind a value just that value.    *)
NoneDue(V) ==
  \A q \in Nat, d \in Nat : V[<<q, d, 0>>] = Returned(<< >>, q, d)

LEMMA FollowingNone ==
  ASSUME NEW V, NoneDue(V), NEW v, NEW q \in Nat, NEW d \in Nat
  PROVE  Following(V, Returned(<<v>>, q, d), d, 0) = Returned(<<v>>, q, d)
  <1> DEFINE a == Returned(<<v>>, q, d)
  <1>1. V[<<q, d, 0>>] = Returned(<< >>, q, d)
    BY DEF NoneDue
  <1>2. /\ a.status = "ok" /\ a.vals = <<v>> /\ a.p = q /\ a.depth = d
        /\ a = [status |-> "ok", vals |-> <<v>>, p |-> q, depth |-> d]
    BY DEF Returned
  <1> HIDE DEF a
  <1>3. Following(V, a, d, 0) = Joined(a, Returned(<< >>, q, d))
    BY <1>1, <1>2 DEF Following
  <1>4. Joined(a, Returned(<< >>, q, d)) =
          [status |-> "ok", vals |-> <<v>> \o << >>, p |-> q, depth |-> Max2(d, d)]
    BY <1>2 DEF Joined, Returned
  <1>5. <<v>> \o << >> = <<v>>
    OBVIOUS
  <1>6. Max2(d, d) = d
    BY DEF Max2
  <1> QED BY <1>2, <1>3, <1>4, <1>5, <1>6 DEF a

(* An item goes into the last container, and more are due.                     *)
LEMMA Stored ==
  ASSUME NEW V, GoodFrom(V, 0), NEW w, NEW S, NEW R, NEW t \in Nat \ {0}, Linked(V, w, S, R, t),
         NEW v, NEW q \in Nat, NEW n \in Nat,
         Same(R[t], Following(V, Returned(<<v>>, q, t), t, n)),
         NEW S2, Open(S2[t - 1]), \A i \in 0 .. t - 2 : S2[i] = S[i],
         \A rest : IsSeq(rest) => Filled(S[t - 1], <<v>> \o rest) = Filled(S2[t - 1], rest)
  PROVE  \E R2 : Linked(V, w, S2, R2, t) /\ R2[t] = V[<<q, t, n>>]
  <1> DEFINE r == V[<<q, t, n>>]
             a == Returned(<<v>>, q, t)
             f == S[t - 1]
             g == S2[t - 1]
  <1>1. Good(r, q, t)
    <2>1. <<q, t, n>> \in From(0)
      BY DEF From, Row
    <2> QED BY <2>1 DEF GoodFrom
  <1>2. a.status = "ok" /\ a.vals = <<v>> /\ a.p = q /\ a.depth = t
    BY DEF Returned
  <1>3. Following(V, a, t, n) = Joined(a, r)
    BY <1>2 DEF Following
  <1> HIDE DEF a, r, f, g
  <1>4. Good(r, 0, t) /\ r.depth \in Nat /\ r.depth >= t
    BY <1>1 DEF Good
  <1>5. Max2(t, r.depth) = r.depth
    BY <1>4 DEF Max2
  <1>6. /\ Joined(a, r).status = r.status /\ Joined(a, r).vals = <<v>> \o r.vals
        /\ Joined(a, r).p = r.p /\ Joined(a, r).depth = r.depth
    BY <1>2, <1>5 DEF Joined
  <1>7. Same(R[t], Joined(a, r))
    BY <1>3 DEF a
  <1>8. /\ R[t].status = r.status
        /\ r.status = "ok" => R[t].vals = <<v>> \o r.vals /\ R[t].p = r.p
        /\ Fits(R[t]) <=> Fits(r)
    BY <1>6, <1>7 DEF Same, Fits
  <1>9. r.status # "ok" => Same(r, R[t]) /\ R[t].status # "ok"
    BY <1>8 DEF Same
  <1>10. Same(Closed(g, r), Closed(f, R[t]))
    <2>1. CASE r.status # "ok"
      BY <1>8, <2>1 DEF Closed, Same
    <2>2. CASE r.status = "ok"
      <3>1. IsSeq(r.vals)
        BY <1>1, <2>2 DEF Good
      <3>2. Filled(f, R[t].vals) = Filled(g, r.vals)
        BY <1>8, <2>2, <3>1 DEF f, g
      <3>3. Closed(g, r) = [status |-> r.status, vals |-> <<Filled(g, r.vals)>>,
                            p |-> r.p, depth |-> r.depth]
        BY <2>2 DEF Closed
      <3>4. Closed(f, R[t]) = [status |-> R[t].status, vals |-> <<Filled(f, R[t].vals)>>,
                               p |-> R[t].p, depth |-> R[t].depth]
        BY <1>8, <2>2 DEF Closed
      <3> DEFINE y == Filled(g, r.vals)
                 x == Filled(f, R[t].vals)
      <3> HIDE DEF x, y
      <3>5. Closed(g, r) = [status |-> r.status, vals |-> <<y>>, p |-> r.p, depth |-> r.depth]
        BY <3>3 DEF y
      <3>6. Closed(f, R[t]) = [status |-> R[t].status, vals |-> <<x>>,
                               p |-> R[t].p, depth |-> R[t].depth]
        BY <3>4 DEF x
      <3>7. x = y
        BY <3>2 DEF x, y
      <3> QED BY <1>8, <2>2, <3>5, <3>6, <3>7 DEF Same, Fits
    <2> QED BY <2>1, <2>2
  <1>11. \E R2 : Linked(V, w, S2, R2, t) /\ R2[t] = r
    BY <1>4, <1>8, <1>9, <1>10, Relinked DEF f, g
  <1> QED BY <1>11 DEF r

(* The last item goes into the last container, which is an item of the one     *)
(* below it.                                                                   *)
LEMMA Popped ==
  ASSUME NEW V, GoodFrom(V, 0), NoneDue(V), NEW w, NEW S, NEW R, NEW t \in Nat \ {0},
         Linked(V, w, S, R, t), t <= StackSize, NEW v, NEW q \in Nat,
         Same(R[t], Following(V, Returned(<<v>>, q, t), t, 0)),
         NEW S2, \A i \in 0 .. t - 2 : S2[i] = S[i]
  PROVE  /\ Linked(V, w, S2, R, t - 1)
         /\ Same(R[t - 1], Following(V, Returned(<<Filled(S[t - 1], <<v>>)>>, q, t - 1),
                                     t - 1, Due(S2, t - 1) - 1))
  <1> DEFINE u == t - 1
             c == Filled(S[u], <<v>>)
             a == Returned(<<c>>, q, u)
             b == Closed(S[u], R[t])
             n == Due(S, u) - 1
  <1>1. u \in Nat /\ u + 1 = t /\ u <= StackSize
    BY StackSizeAssumption
  <1>2. Same(R[u], Following(V, b, u, n))
    BY <1>1 DEF Linked
  <1>3. Same(R[t], Returned(<<v>>, q, t))
    BY FollowingNone
  <1>4. R[t].status = "ok" /\ R[t].vals = <<v>> /\ R[t].p = q /\ Fits(R[t])
    BY <1>3, StackSizeAssumption DEF Same, Returned, Fits
  <1>5. Good(R[t], 0, t)
    BY DEF Linked
  <1>6. b = [status |-> "ok", vals |-> <<c>>, p |-> q, depth |-> R[t].depth]
    BY <1>4 DEF Closed
  <1>7. Due(S2, u) = Due(S, u) /\ n \in Nat
    <2>1. Due(S2, u) = Due(S, u)
      BY <1>1 DEF Due
    <2>2. u > 0 => Open(S[u - 1])
      BY <1>1 DEF Linked
    <2>3. Due(S, u) \in Nat \ {0}
      BY <1>1, <2>2, DueType
    <2> QED BY <2>1, <2>3
  <1> HIDE DEF c, b, n
  <1>8. Same(b, a)
    BY <1>1, <1>4, <1>6, StackSizeAssumption DEF Same, Fits, Returned
  <1>9. Good(b, 0, 0)
    <2>1. Good(b, 0, t)
      BY <1>5, ClosedGood DEF b
    <2> QED BY <2>1 DEF Good
  <1>10. Good(a, 0, 0)
    <2>1. IsSeq(<<c>>)
      BY One
    <2> QED BY <1>1, <2>1 DEF Good, IsResult, Returned
  <1>11. Same(R[u], Following(V, a, u, n))
    <2> HIDE DEF a, u
    <2>1. Same(Following(V, b, u, n), Following(V, a, u, n))
      BY <1>1, <1>7, <1>8, <1>9, <1>10, SameFollowing
    <2> QED BY <1>2, <2>1, SameTrans
  <1>12. Linked(V, w, S2, R, u)
    <2>1. \A i \in 0 .. u - 1 : Open(S2[i])
      BY DEF Linked
    <2>2. \A i \in 0 .. u : Good(R[i], 0, i)
      BY DEF Linked
    <2>3. ASSUME NEW i \in 0 .. u - 1
          PROVE  Same(R[i], Following(V, Closed(S2[i], R[i + 1]), i, Due(S2, i) - 1))
      <3>1. S2[i] = S[i] /\ Due(S2, i) = Due(S, i)
        BY DEF Due
      <3>2. i \in 0 .. t - 1
        OBVIOUS
      <3> QED BY <3>1, <3>2 DEF Linked
    <2>4. Same(R[0], w)
      BY DEF Linked
    <2>5. \A i \in 0 .. u : R[i].status # "ok" => Same(R[i], w)
      BY DEF Linked
    <2>6. \A i \in 0 .. u : ~Fits(R[i]) => ~Fits(w)
      BY DEF Linked
    <2> QED BY ONLY <2>1, <2>2, <2>3, <2>4, <2>5, <2>6, Zenon DEF Linked
  <1>13. Same(R[u], Following(V, a, u, Due(S2, u) - 1))
    BY <1>7, <1>11 DEF n
  <1> QED BY <1>12, <1>13 DEF c

-------------------------------------------------------------------------------
(* The parser's reading of each header byte is _unpack's.                      *)
LEMMA UnpackFacts ==
  ASSUME NEW s \in Seq(Byte), NEW text
  PROVE  GoodFrom(Unpack(s, text), 0) /\ NoneDue(Unpack(s, text))
  <1> DEFINE V == Unpack(s, text)
  <1>1. ASSUME NEW x \in From(0)
        PROVE  Good(V[x], x[1], x[2])
    <2>1. x[1] \in Nat /\ x[2] \in Nat /\ x[3] \in Nat /\ x = <<x[1], x[2], x[3]>>
      BY DEF From, Row
    <2> QED BY <2>1, UnpackGood
  <1>2. ASSUME NEW q \in Nat, NEW d \in Nat
        PROVE  V[<<q, d, 0>>] = Returned(<< >>, q, d)
    BY UnpackStep DEF Items
  <1> QED BY <1>1, <1>2 DEF GoodFrom, NoneDue

LEMMA FirstCall ==
  ASSUME NEW s \in Seq(Byte), NEW text, NEW h \in Nat, NEW d \in Nat, NEW n \in Nat \ {0}
  PROVE  LET V == Unpack(s, text) IN
         /\ V[<<h, d, n>>] = Following(V, Item(V, s, text, h, d), d, n - 1)
         /\ h >= Len(s) => V[<<h, d, n>>] = Died("insufficient", h, d)
  BY UnpackStep, ItemsAtEnd DEF Items

LEMMA ItemOfDirect ==
  ASSUME NEW V, NEW s \in Seq(Byte), NEW text, NEW h \in Nat, NEW d, h < Len(s),
         FixInt(s[h + 1]) \/ Direct(s[h + 1])
  PROVE  Item(V, s, text, h, d) = Returned(<<HeaderValue(s[h + 1])>>, h + 1, d)
  <1> DEFINE b == s[h + 1]
  <1>1. b \in (0 .. 127) \cup (224 .. 255) \cup {192, 194, 195}
    BY DEF FixInt, Direct
  <1> HIDE DEF b
  <1>2. T_DIRECT(b) /\ ~T_ARRAY(b) /\ ~T_MAP(b)
    BY <1>1 DEF T_DIRECT, T_ARRAY, T_MAP
  <1>3. HeaderValue(b) = byte2value(b)
    <2>1. CASE b \in 0 .. 127
      <3>1. b < 128 /\ ~(b > 223) /\ b # 195 /\ b # 194 /\ b # 192
        BY <2>1
      <3>2. HeaderValue(b) = IntValue(b)
        BY <3>1, Zenon DEF HeaderValue
      <3>3. byte2value(b) = IntValue(b)
        BY <3>1 DEF byte2value
      <3> QED BY <3>2, <3>3
    <2>2. CASE b \in 224 .. 255
      <3>1. ~(b < 128) /\ b > 223 /\ b # 195 /\ b # 194 /\ b # 192
        BY <2>2
      <3>2. HeaderValue(b) = IntValue(b - 256)
        BY <3>1, Zenon DEF HeaderValue
      <3>3. byte2value(b) = IntValue(b - 256)
        BY <3>1 DEF byte2value
      <3> QED BY <3>2, <3>3
    <2>3. CASE b \in {192, 194, 195}
      <3>1. ~(b < 128) /\ ~(b > 223)
        BY <2>3
      <3>2. CASE b = 192
        BY <3>1, <3>2 DEF HeaderValue, byte2value
      <3>3. CASE b = 194
        BY <3>1, <3>3 DEF HeaderValue, byte2value
      <3>4. CASE b = 195
        BY <3>1, <3>4 DEF HeaderValue, byte2value
      <3> QED BY <2>3, <3>2, <3>3, <3>4
    <2> QED BY <1>1, <2>1, <2>2, <2>3
  <1>4. ~(h >= Len(s))
    OBVIOUS
  <1>5. ~ContainerAt(s, h)
    BY <1>2 DEF ContainerAt, b
  <1>6. Scalar(s, h, d, text) = Returned(<<byte2value(b)>>, h + 1, d)
    BY <1>2, <1>4 DEF Scalar, b
  <1> QED BY <1>3, <1>5, <1>6 DEF Item, b

(* All strings are read alike, and so are all byte arrays.                     *)
LEMMA SizedAlike ==
  ASSUME NEW b, NEW s, NEW q, NEW size, NEW d, NEW text
  PROVE  /\ T_STR(b) => Sized(b, s, q, size, d, text) = Sized(160, s, q, size, d, text)
         /\ T_BIN(b) => Sized(b, s, q, size, d, text) = Sized(196, s, q, size, d, text)
  <1>1. T_STR(160) /\ ~T_STR(196) /\ 160 \notin 202 .. 211 /\ 196 \notin 202 .. 211
    BY DEF T_STR
  <1>2. T_STR(b) => b \notin 202 .. 211
    BY DEF T_STR
  <1>3. T_BIN(b) => b \notin 202 .. 211 /\ ~T_STR(b)
    BY DEF T_BIN, T_STR
  <1> QED BY <1>1, <1>2, <1>3 DEF Sized

LEMMA ItemOfFixStr ==
  ASSUME NEW V, NEW s \in Seq(Byte), NEW text, NEW h \in Nat, NEW d, h < Len(s),
         FixStr(s[h + 1])
  PROVE  Item(V, s, text, h, d) = Sized(160, s, h + 1, s[h + 1] % 32, d, text)
  <1> DEFINE b == s[h + 1]
  <1>1. b \in 160 .. 191
    BY DEF FixStr
  <1> HIDE DEF b
  <1>2. /\ ~T_DIRECT(b) /\ ~T_ARRAY(b) /\ ~T_MAP(b) /\ T_STR(b) /\ SizeBytes(b) = 0
        /\ b \notin 202 .. 211 /\ b \notin {193} \cup (199 .. 201) \cup (212 .. 216)
        /\ FixSize(b) = b % 32
    BY <1>1 DEF T_DIRECT, T_ARRAY, T_MAP, T_STR, SizeBytes, FixSize
  <1>3. ~(h >= Len(s)) /\ ~(AfterFetch(s, h) > Len(s)) /\ AfterFetch(s, h) = h + 1
    <2>1. AfterFetch(s, h) = h + 1
      BY <1>2 DEF AfterFetch, b
    <2>2. Len(s) \in Nat
      OBVIOUS
    <2> QED BY <2>1, <2>2
  <1>4. FetchSize(s, h) = b % 32
    BY <1>2 DEF FetchSize, b
  <1>5. ~ContainerAt(s, h)
    BY <1>2 DEF ContainerAt, b
  <1>6. Scalar(s, h, d, text) = Sized(b, s, h + 1, b % 32, d, text)
    BY <1>2, <1>3, <1>4 DEF Scalar, b
  <1> QED BY <1>2, <1>5, <1>6, SizedAlike DEF Item, b

LEMMA ItemOfExt ==
  ASSUME NEW V, NEW s \in Seq(Byte), NEW text, NEW h \in Nat, NEW d, h < Len(s),
         s[h + 1] \in {193} \cup (199 .. 201) \cup (212 .. 216)
  PROVE  Item(V, s, text, h, d) = Died("unexpected", h + 1, d)
  <1> DEFINE b == s[h + 1]
  <1>0. b \in {193} \cup (199 .. 201) \cup (212 .. 216)
    OBVIOUS
  <1> HIDE DEF b
  <1>1. ~T_DIRECT(b) /\ ~T_ARRAY(b) /\ ~T_MAP(b) /\ b \notin 202 .. 211
    BY <1>0 DEF T_DIRECT, T_ARRAY, T_MAP
  <1>2. ~ContainerAt(s, h) /\ ~(h >= Len(s))
    BY <1>1 DEF ContainerAt, b
  <1> QED BY <1>1, <1>2 DEF Item, Scalar, b

(* How many bytes follow a header byte.                                        *)
LEMMA Shifts ==
  /\ ShiftLeft(1, 0) = 1 /\ ShiftLeft(1, 1) = 2 /\ ShiftLeft(1, 2) = 4 /\ ShiftLeft(1, 3) = 8
  /\ ShiftLeft(2, 0) = 2 /\ ShiftLeft(2, 1) = 4
  BY DEF ShiftLeft

LEMMA TrailOfNumber ==
  ASSUME NEW b \in 202 .. 211
  PROVE  HeaderTrail(b) = NumberWidth(b)
  <1>1. HeaderTrail(b) = ShiftLeft(1, b % 4)
    BY DEF HeaderTrail
  <1>2. CASE b = 202
    BY <1>1, <1>2, Shifts DEF NumberWidth
  <1>3. CASE b = 203
    BY <1>1, <1>3, Shifts DEF NumberWidth
  <1>4. CASE b = 204
    BY <1>1, <1>4, Shifts DEF NumberWidth
  <1>5. CASE b = 205
    BY <1>1, <1>5, Shifts DEF NumberWidth
  <1>6. CASE b = 206
    BY <1>1, <1>6, Shifts DEF NumberWidth
  <1>7. CASE b = 207
    BY <1>1, <1>7, Shifts DEF NumberWidth
  <1>8. CASE b = 208
    BY <1>1, <1>8, Shifts DEF NumberWidth
  <1>9. CASE b = 209
    BY <1>1, <1>9, Shifts DEF NumberWidth
  <1>10. CASE b = 210
    BY <1>1, <1>10, Shifts DEF NumberWidth
  <1>11. CASE b = 211
    BY <1>1, <1>11, Shifts DEF NumberWidth
  <1> QED BY <1>2, <1>3, <1>4, <1>5, <1>6, <1>7, <1>8, <1>9, <1>10, <1>11

LEMMA TrailOfSize ==
  ASSUME NEW b \in {196, 197, 198, 217, 218, 219, 220, 221, 222, 223}
  PROVE  HeaderTrail(b) = SizeBytes(b) /\ SizeBytes(b) \in {1, 2, 4}
  <1>1. CASE b \in 196 .. 198
    <2>1. HeaderTrail(b) = ShiftLeft(1, b % 4)
      BY <1>1 DEF HeaderTrail
    <2> QED BY <1>1, <2>1, Shifts DEF SizeBytes
  <1>2. CASE b \in 217 .. 219
    <2>1. HeaderTrail(b) = ShiftLeft(1, (b % 4) - 1)
      BY <1>2 DEF HeaderTrail
    <2> QED BY <1>2, <2>1, Shifts DEF SizeBytes
  <1>3. CASE b \in 220 .. 223
    <2>1. HeaderTrail(b) = ShiftLeft(2, b % 2)
      BY <1>3 DEF HeaderTrail
    <2> QED BY <1>3, <2>1, Shifts DEF SizeBytes
  <1> QED BY <1>1, <1>2, <1>3

LEMMA ItemOfNumber ==
  ASSUME NEW V, NEW s \in Seq(Byte), NEW text, NEW h \in Nat, NEW d, h < Len(s),
         s[h + 1] \in 202 .. 211
  PROVE  Item(V, s, text, h, d) =
           Sized(s[h + 1], s, h + 1, HeaderTrail(s[h + 1]), d, text)
  <1> DEFINE b == s[h + 1]
  <1>0. b \in 202 .. 211
    OBVIOUS
  <1>1. HeaderTrail(b) = NumberWidth(b)
    BY <1>0, TrailOfNumber
  <1> HIDE DEF b
  <1>2. ~T_DIRECT(b) /\ ~T_ARRAY(b) /\ ~T_MAP(b)
    BY <1>0 DEF T_DIRECT, T_ARRAY, T_MAP
  <1>3. ~ContainerAt(s, h) /\ ~(h >= Len(s))
    BY <1>2 DEF ContainerAt, b
  <1>4. Scalar(s, h, d, text) = Sized(b, s, h + 1, NumberWidth(b), d, text)
    BY <1>0, <1>2, <1>3 DEF Scalar, b
  <1> QED BY <1>1, <1>3, <1>4 DEF Item, b

LEMMA ItemOfSized ==
  ASSUME NEW V, NEW s \in Seq(Byte), NEW text, NEW h \in Nat, NEW d, h < Len(s),
         s[h + 1] \in {196, 197, 198, 217, 218, 219}
  PROVE  LET q == h + 1 + HeaderTrail(s[h + 1]) IN
         Item(V, s, text, h, d) =
           IF q > Len(s) THEN Died("insufficient", h + 1, d)
           ELSE Sized(IF s[h + 1] >= 217 THEN 160 ELSE 196, s, q,
                      BE(SubSeq(s, h + 2, q)), d, text)
  <1> DEFINE b == s[h + 1]
             q == h + 1 + HeaderTrail(b)
             n == BE(SubSeq(s, h + 2, q))
  <1>0. b \in {196, 197, 198, 217, 218, 219}
    OBVIOUS
  <1>1. HeaderTrail(b) = SizeBytes(b) /\ SizeBytes(b) \in {1, 2, 4}
    BY <1>0, TrailOfSize
  <1> HIDE DEF b, n
  <1>2. /\ ~T_DIRECT(b) /\ ~T_ARRAY(b) /\ ~T_MAP(b)
        /\ b \notin 202 .. 211 /\ b \notin {193} \cup (199 .. 201) \cup (212 .. 216)
    BY <1>0 DEF T_DIRECT, T_ARRAY, T_MAP
  <1>3. ~ContainerAt(s, h) /\ ~(h >= Len(s))
    BY <1>2 DEF ContainerAt, b
  <1>4. AfterFetch(s, h) = q
    BY <1>1 DEF AfterFetch, b
  <1>5. FetchSize(s, h) = n
    BY <1>1, <1>4 DEF FetchSize, b, n
  <1> HIDE DEF q
  <1>6. Scalar(s, h, d, text) = IF q > Len(s) THEN Died("insufficient", h + 1, d)
                                ELSE Sized(b, s, q, n, d, text)
    BY <1>2, <1>3, <1>4, <1>5 DEF Scalar, b
  <1>7. b >= 217 => T_STR(b)
    BY <1>0 DEF T_STR
  <1>8. ~(b >= 217) => T_BIN(b)
    BY <1>0 DEF T_BIN
  <1>9. Sized(b, s, q, n, d, text) = Sized(IF b >= 217 THEN 160 ELSE 196, s, q, n, d, text)
    BY <1>7, <1>8, SizedAlike
  <1> QED BY <1>3, <1>6, <1>9 DEF Item, b, q, n

LEMMA ItemOfContainer ==
  ASSUME NEW V, NEW s \in Seq(Byte), NEW text, NEW h \in Nat, NEW d, h < Len(s),
         s[h + 1] \in 220 .. 223
  PROVE  /\ AfterFetch(s, h) = h + 1 + HeaderTrail(s[h + 1])
         /\ FetchSize(s, h) = BE(SubSeq(s, h + 2, AfterFetch(s, h)))
         /\ AfterFetch(s, h) > Len(s) =>
              Item(V, s, text, h, d) = Died("insufficient", h + 1, d)
         /\ ~(AfterFetch(s, h) > Len(s)) =>
              ContainerAt(s, h)
  <1> DEFINE b == s[h + 1]
  <1>0. b \in 220 .. 223
    OBVIOUS
  <1>1. HeaderTrail(b) = SizeBytes(b) /\ SizeBytes(b) \in {1, 2, 4}
    BY ONLY <1>0, TrailOfSize
  <1> HIDE DEF b
  <1>2. /\ ~T_DIRECT(b) /\ (T_ARRAY(b) \/ T_MAP(b))
        /\ b \notin 202 .. 211 /\ b \notin {193} \cup (199 .. 201) \cup (212 .. 216)
    BY ONLY <1>0 DEF T_DIRECT, T_ARRAY, T_MAP
  <1>4. AfterFetch(s, h) = h + 1 + HeaderTrail(b)
    BY <1>1 DEF AfterFetch, b
  <1>5. FetchSize(s, h) = BE(SubSeq(s, h + 2, AfterFetch(s, h)))
    BY <1>1 DEF FetchSize, b
  <1>6. AfterFetch(s, h) \in Nat /\ Len(s) \in Nat
    BY <1>1, <1>4
  <1>7. ASSUME AfterFetch(s, h) > Len(s)
        PROVE  Item(V, s, text, h, d) = Died("insufficient", h + 1, d)
    <2>1. ~ContainerAt(s, h)
      BY <1>6, <1>7 DEF ContainerAt
    <2>2. Scalar(s, h, d, text) = Died("insufficient", h + 1, d)
      BY <1>2, <1>7 DEF Scalar, b
    <2> QED BY <2>1, <2>2 DEF Item
  <1>8. ASSUME ~(AfterFetch(s, h) > Len(s))
        PROVE  ContainerAt(s, h)
    BY <1>2, <1>6, <1>8 DEF ContainerAt, b
  <1> QED BY <1>4, <1>5, <1>7, <1>8 DEF b

LEMMA ItemOfFixContainer ==
  ASSUME NEW V, NEW s \in Seq(Byte), NEW text, NEW h \in Nat, NEW d, h < Len(s),
         FixArray(s[h + 1]) \/ FixMap(s[h + 1])
  PROVE  Item(V, s, text, h, d) =
           Contained(s[h + 1], V[<<h + 1, d + 1, (s[h + 1] % 16)
                                                 * (IF T_MAP(s[h + 1]) THEN 2 ELSE 1)>>])
  <1> DEFINE b == s[h + 1]
             n == b % 16
  <1>0. b \in 128 .. 159
    BY DEF FixArray, FixMap
  <1> HIDE DEF b
  <1>1. SizeBytes(b) = 0 /\ FixSize(b) = n /\ (T_ARRAY(b) \/ T_MAP(b))
    BY <1>0 DEF T_ARRAY, T_MAP, SizeBytes, FixSize
  <1> HIDE DEF n
  <1>2. AfterFetch(s, h) = h + 1
    BY <1>1 DEF AfterFetch, b
  <1>3. FetchSize(s, h) = n
    BY <1>1 DEF FetchSize, b
  <1>4. ContainerAt(s, h)
    <2>1. Len(s) \in Nat
      OBVIOUS
    <2> QED BY <1>1, <1>2, <2>1 DEF ContainerAt, b
  <1>5. Item(V, s, text, h, d) = Contained(b, V[<<h + 1, d + 1, n * (IF T_MAP(b) THEN 2 ELSE 1)>>])
    BY <1>2, <1>3, <1>4 DEF Item, b
  <1> QED BY <1>5 DEF b, n

-------------------------------------------------------------------------------
(* What stays true of the levels below.                                        *)
LEMMA LinkedBelow ==
  ASSUME NEW V, NEW w, NEW S, NEW R, NEW t \in Nat, Linked(V, w, S, R, t),
         NEW S2, \A i \in 0 .. t - 1 : S2[i] = S[i]
  PROVE  Linked(V, w, S2, R, t) /\ Due(S2, t) = Due(S, t)
  <1>1. \A i \in 0 .. t : Due(S2, i) = Due(S, i)
    <2>1. ASSUME NEW i \in 0 .. t
          PROVE  Due(S2, i) = Due(S, i)
      <3>1. i # 0 => i - 1 \in 0 .. t - 1
        OBVIOUS
      <3> QED BY <3>1 DEF Due
    <2> QED BY <2>1
  <1>2. \A i \in 0 .. t - 1 : Open(S2[i])
    BY DEF Linked
  <1>3. \A i \in 0 .. t - 1 : Same(R[i], Following(V, Closed(S2[i], R[i + 1]), i, Due(S2, i) - 1))
    BY <1>1 DEF Linked
  <1>4. /\ \A i \in 0 .. t : Good(R[i], 0, i)
        /\ Same(R[0], w)
        /\ \A i \in 0 .. t : R[i].status # "ok" => Same(R[i], w)
        /\ \A i \in 0 .. t : ~Fits(R[i]) => ~Fits(w)
    BY DEF Linked
  <1>5. Linked(V, w, S2, R, t)
    BY ONLY <1>2, <1>3, <1>4, Zenon DEF Linked
  <1> QED BY <1>1, <1>5

(* A call that dies ends the whole message.                                    *)
LEMMA Dead ==
  ASSUME NEW V, NEW w, NEW S, NEW R, NEW t \in Nat, t <= StackSize, Linked(V, w, S, R, t),
         NEW v, NEW n, v.status # "ok", v.depth = t, Same(R[t], Following(V, v, t, n))
  PROVE  w.status = v.status /\ Fits(w)
  <1>1. Following(V, v, t, n) = v
    BY DEF Following
  <1>2. R[t].status # "ok" /\ R[t].status = v.status /\ (Fits(R[t]) <=> Fits(v))
    BY <1>1 DEF Same
  <1>3. Same(R[t], w)
    BY <1>2 DEF Linked
  <1> QED BY <1>2, <1>3, StackSizeAssumption DEF Same, Fits

(* So does a container that does not fit.                                      *)
LEMMA TooDeep ==
  ASSUME NEW V, GoodFrom(V, 0), NEW w, NEW S, NEW R, NEW t \in Nat, Linked(V, w, S, R, t),
         NEW v, NEW n \in Nat, Good(v, 0, 0), ~Fits(v), Same(R[t], Following(V, v, t, n))
  PROVE  ~Fits(w)
  <1>1. ~Fits(Following(V, v, t, n))
    BY FollowingDepth
  <1>2. ~Fits(R[t])
    BY <1>1 DEF Same
  <1> QED BY <1>2 DEF Linked

-------------------------------------------------------------------------------
(* The invariant: what is at p, and behind it, is what level top returns.      *)
Ahead(V, v) == Following(V, v, top, Due(stack, top) - 1)

AtTrail(V, r) ==
  \/ /\ cs \in (4 .. 19) \cup (25 .. 31)
     /\ p > 0 /\ data[p] = cs + 192 /\ trail = HeaderTrail(data[p])
     /\ Same(r, Ahead(V, Item(V, data, utf8, p - 1, top)))
  \/ /\ cs \in {ACS_STR_VALUE, ACS_BIN_VALUE}
     /\ Same(r, Ahead(V, Sized(IF cs = ACS_STR_VALUE THEN 160 ELSE 196,
                               data, p, trail, top, utf8)))
  \/ /\ cs = ACS_EXT_VALUE
     /\ Same(r, Ahead(V, Died("unexpected", p, top)))

Reads(V, w, R) ==
  /\ Linked(V, w, stack, R, top)
  /\ pc = "header" =>
       p < Len(data) /\ Same(R[top], V[<<p, top, Due(stack, top)>>])
  /\ pc = "trail" => trail \in Nat /\ trail > 0 /\ AtTrail(V, R[top])
  /\ pc = "push" =>
       p < Len(data) /\ Same(R[top], Ahead(V, Returned(<<obj>>, p + 1, top)))

(* The parser stops in the way that the meaning w of the message calls for.    *)
Stops(w) ==
  /\ pc = "finish" => /\ p \in Nat /\ p <= Len(data)
                      /\ Same(w, Returned(<<TemplateData>>, p, 0))
  /\ pc = "failed" => w.status = "unexpected" \/ ~Fits(w)
  /\ pc = "croaked" => w.status = "unexpected" /\ Fits(w)
  /\ pc = "out" => w.status # "ok" /\ Fits(w)
  /\ pc # "undefined"

Agrees(V, w) ==
  /\ data \in Seq(Byte) /\ V = Unpack(data, utf8) /\ DOMAIN stack = Slot
  /\ Parsing => /\ p \in Nat /\ p <= Len(data) /\ top \in 0 .. StackSize
                /\ \E R : Reads(V, w, R)
  /\ Stops(w)

(* _header_again: the next call begins, or dies for want of bytes.             *)
LEMMA HeaderAgainAgrees ==
  ASSUME NEW V, NEW w, data \in Seq(Byte), V = Unpack(data, utf8),
         NEW q \in Nat, q + 1 <= Len(data), NEW t \in 0 .. StackSize,
         HeaderAgain(q, t), UNCHANGED <<data, utf8>>, DOMAIN stack' = Slot,
         NEW R, Linked(V, w, stack', R, t), Same(R[t], V[<<q + 1, t, Due(stack', t)>>])
  PROVE  Agrees(V, w)'
  <1>1. t \in Nat /\ t <= StackSize
    BY StackSizeAssumption
  <1>2. Due(stack', t) \in Nat \ {0}
    BY <1>1, DueType DEF Linked
  <1>3. data' \in Seq(Byte) /\ V = Unpack(data', utf8')
    OBVIOUS
  <1>4. CASE q + 1 = Len(data)
    <2>1. pc' = "out"
      BY <1>4 DEF HeaderAgain
    <2> DEFINE v == Died("insufficient", q + 1, t)
    <2>2. V[<<q + 1, t, Due(stack', t)>>] = v
      BY <1>1, <1>2, <1>4, FirstCall
    <2>3. v.status = "insufficient" /\ v.depth = t
      BY DEF Died
    <2> HIDE DEF v
    <2>4. Following(V, v, t, 0) = v
      BY <2>3 DEF Following
    <2>5. Same(R[t], Following(V, v, t, 0))
      BY <2>2, <2>4
    <2>6. w.status = "insufficient" /\ Fits(w)
      BY <1>1, <2>3, <2>5, Dead
    <2> QED BY <1>3, <2>1, <2>6 DEF Agrees, Parsing, Stops
  <1>5. CASE q + 1 # Len(data)
    <2>1. pc' = "header" /\ p' = q + 1 /\ top' = t
      BY <1>5 DEF HeaderAgain
    <2>2. Len(data) \in Nat /\ q + 1 < Len(data)
      BY <1>5
    <2>3. Reads(V, w, R)'
      BY <2>1, <2>2 DEF Reads
    <2> QED BY <1>1, <1>3, <2>1, <2>2, <2>3 DEF Agrees, Parsing, Stops
  <1> QED BY <1>4, <1>5

(* The frame of a new container is closed as _unpack makes the container.      *)
LEMMA ClosedIsContained ==
  ASSUME NEW b, NEW f, NEW r, IsResult(r),
         \/ T_ARRAY(b) /\ f.obj = EmptyArray /\ f.ct = CT_ARRAY_ITEM
         \/ ~T_ARRAY(b) /\ f.obj = EmptyHash /\ f.ct = CT_MAP_KEY
  PROVE  Closed(f, r) = Contained(b, r)
  <1>1. CASE r.status # "ok"
    BY <1>1 DEF Closed, Contained
  <1>2. CASE r.status = "ok"
    <2> DEFINE c == IF T_ARRAY(b) THEN ArrayOf(r.vals) ELSE HashOf(r.vals)
    <2>1. Filled(f, r.vals) = c
      BY DEF Filled, ArrayOf, HashOf, CT_ARRAY_ITEM, CT_MAP_KEY, CT_MAP_VALUE
    <2>2. Contained(b, r) = [r EXCEPT !.vals = <<c>>]
      BY <1>2 DEF Contained
    <2>3. Closed(f, r) = [status |-> r.status, vals |-> <<c>>, p |-> r.p, depth |-> r.depth]
      BY <1>2, <2>1 DEF Closed
    <2> HIDE DEF c
    <2>4. [r EXCEPT !.vals = <<c>>] =
            [status |-> r.status, vals |-> <<c>>, p |-> r.p, depth |-> r.depth]
      BY DEF IsResult
    <2> QED BY <2>2, <2>3, <2>4
  <1> QED BY <1>1, <1>2

LEMMA StartContainerAgrees ==
  ASSUME NEW V, NEW w, GoodFrom(V, 0), NoneDue(V), Agrees(V, w), Parsing,
         NEW R, Linked(V, w, stack, R, top),
         NEW b, NEW n \in Nat, NEW q \in Nat, q + 1 <= Len(data), NEW c, NEW ct,
         \/ T_ARRAY(b) /\ ~T_MAP(b) /\ c = EmptyArray /\ ct = CT_ARRAY_ITEM
         \/ ~T_ARRAY(b) /\ T_MAP(b) /\ c = EmptyHash /\ ct = CT_MAP_KEY,
         Same(R[top], Ahead(V, Contained(b, V[<<q + 1, top + 1,
                                               n * (IF T_MAP(b) THEN 2 ELSE 1)>>]))),
         StartContainer(c, n, ct, q)
  PROVE  Agrees(V, w)'
  <1> DEFINE m == n * (IF T_MAP(b) THEN 2 ELSE 1)
             r == V[<<q + 1, top + 1, m>>]
             k == Due(stack, top) - 1
             f == Frame(c, n, ct, stack[top].map_key)
             g == Frame(c, stack[top].count, stack[top].ct, stack[top].map_key)
  <1>1. /\ data \in Seq(Byte) /\ V = Unpack(data, utf8) /\ DOMAIN stack = Slot
        /\ top \in Nat /\ top <= StackSize /\ UNCHANGED <<data, utf8>>
    BY StackSizeAssumption DEF Agrees, StartContainer
  <1>2. m \in Nat
    OBVIOUS
  <1>3. k \in Nat
    <2>1. Due(stack, top) \in Nat \ {0}
      BY <1>1, DueType DEF Linked
    <2> QED BY <2>1
  <1>4. Good(r, q + 1, top + 1)
    <2>1. <<q + 1, top + 1, m>> \in From(0)
      BY <1>1, <1>2 DEF From, Row
    <2> HIDE DEF m
    <2> QED BY <2>1 DEF GoodFrom
  <1>5. Same(R[top], Following(V, Contained(b, r), top, k))
    BY DEF Ahead
  <1> HIDE DEF r
  <1>6. \A x : x.obj = c /\ x.ct = ct => Closed(x, r) = Contained(b, r)
    BY <1>4, ClosedIsContained DEF Good
  <1>7. Good(Contained(b, r), q + 1, top + 1)
    <2> DEFINE x == Frame(c, 0, ct, NULL)
    <2>1. Closed(x, r) = Contained(b, r)
      BY <1>6 DEF Frame
    <2> QED BY <1>4, <2>1, ClosedGood
  <1>8. Good(Contained(b, r), 0, 0) /\ Contained(b, r).depth >= top + 1
    BY <1>1, <1>7 DEF Good
  <1> HIDE DEF k
  <1>9. CASE StackFull /\ Stop("failed", q)
    <2>1. ~Fits(Contained(b, r))
      BY <1>1, <1>8, <1>9, StackSizeAssumption DEF StackFull, Fits, Good
    <2>2. ~Fits(w)
      BY <1>1, <1>3, <1>5, <1>8, <2>1, TooDeep
    <2>3. pc' = "failed" /\ stack' = stack
      BY <1>9 DEF Stop, StartContainer, StackFull
    <2> QED BY <1>1, <2>2, <2>3 DEF Agrees, Parsing, Stops
  <1>10. CASE ~StackFull /\ n = 0
    <2>1. /\ stack' = [stack EXCEPT ![top] = g]
          /\ pc' = "push" /\ p' = q /\ obj' = c /\ top' = top
      BY <1>10 DEF StartContainer, Push, g
    <2>2. top + 1 <= StackSize /\ top \in Slot
      BY <1>1, <1>10, StackSizeAssumption DEF StackFull, Slot
    <2>3. r = Returned(<< >>, q + 1, top + 1)
      BY <1>1, <1>10 DEF NoneDue, r
    <2>4. Contained(b, r).status = "ok" /\ Contained(b, r).vals = <<c>>
             /\ Contained(b, r).p = q + 1 /\ Contained(b, r).depth = top + 1
      <3>1. Contained(b, r) = [r EXCEPT !.vals = <<IF T_ARRAY(b) THEN ArrayOf(r.vals)
                                                   ELSE HashOf(r.vals)>>]
        BY <2>3 DEF Contained, Returned
      <3>2. ArrayOf(<< >>) = EmptyArray /\ HashOf(<< >>) = EmptyHash
        BY NoTurns DEF ArrayOf, HashOf
      <3>3. (IF T_ARRAY(b) THEN ArrayOf(r.vals) ELSE HashOf(r.vals)) = c
        BY <2>3, <3>2 DEF Returned
      <3>4. Contained(b, r) = [r EXCEPT !.vals = <<c>>]
        BY <3>1, <3>3
      <3> HIDE DEF m, g, f
      <3> QED BY <2>3, <3>4 DEF Returned
    <2> DEFINE a == Returned(<<c>>, q + 1, top)
    <2>5. Same(Contained(b, r), a)
      BY <1>1, <2>2, <2>4, StackSizeAssumption DEF Same, Fits, Returned
    <2>6. Good(a, 0, 0)
      <3>1. IsSeq(<<c>>)
        BY One
      <3> QED BY <1>1, <3>1 DEF Good, IsResult, Returned
    <2>7. Same(R[top], Following(V, a, top, k))
      <3> HIDE DEF a
      <3>1. Same(Following(V, Contained(b, r), top, k), Following(V, a, top, k))
        BY <1>1, <1>3, <1>8, <2>5, <2>6, SameFollowing
      <3> QED BY <1>5, <3>1, SameTrans
    <2>8. Linked(V, w, stack', R, top) /\ Due(stack', top) = Due(stack, top)
      <3>1. \A i \in 0 .. top - 1 : stack'[i] = stack[i]
        BY <1>1, <2>1, <2>2 DEF Slot
      <3> QED BY <1>1, <3>1, LinkedBelow
    <2>9. Reads(V, w, R)'
      <3>1. Same(R[top'], Following(V, Returned(<<obj'>>, p' + 1, top'), top', Due(stack', top') - 1))
        BY <2>1, <2>7, <2>8 DEF k
      <3>2. p' < Len(data')
        BY <1>1, <2>1
      <3> QED BY <2>1, <2>8, <3>1, <3>2 DEF Reads, Ahead
    <2>10. DOMAIN stack' = Slot
      BY <1>1, <2>1
    <2>11. p' <= Len(data') /\ p' \in Nat /\ top' \in 0 .. StackSize
      BY <1>1, <2>1, StackSizeAssumption
    <2> QED BY <1>1, <2>1, <2>9, <2>10, <2>11 DEF Agrees, Parsing, Stops
  <1>11. CASE ~StackFull /\ n > 0
    <2>1. stack' = [stack EXCEPT ![top] = f] /\ HeaderAgain(q, top + 1)
      BY <1>11 DEF StartContainer, f
    <2>2. top + 1 <= StackSize /\ top \in Slot
      BY <1>1, <1>11, StackSizeAssumption DEF StackFull, Slot
    <2>3. /\ DOMAIN stack' = Slot /\ stack'[top] = f
          /\ \A i \in 0 .. top - 1 : stack'[i] = stack[i]
      BY <1>1, <2>1, <2>2 DEF Slot
    <2>4. f.obj = c /\ f.ct = ct /\ f.count = n
      BY DEF Frame
    <2> HIDE DEF f
    <2>5. Open(f)
      <3>1. IsAV(EmptyArray) /\ ~IsAV(EmptyHash)
        BY DEF IsAV, EmptyArray, EmptyHash
      <3>2. CT_ARRAY_ITEM # CT_MAP_KEY
        BY DEF CT_ARRAY_ITEM, CT_MAP_KEY
      <3>3. n \in Nat \ {0}
        BY <1>11
      <3> QED BY <2>4, <3>1, <3>2, <3>3 DEF Open
    <2>6. Closed(f, r) = Contained(b, r)
      BY <1>6, <2>4
    <2>7. Good(r, 0, top + 1)
      BY <1>1, <1>4 DEF Good
    <2>8. PICK R2 : Linked(V, w, stack', R2, top + 1) /\ R2[top + 1] = r
      BY <1>1, <1>5, <2>3, <2>5, <2>6, <2>7, Opened DEF k
    <2>9. Due(stack', top + 1) = m
      <3>1. Due(stack', top + 1) = DueIn(f)
        <4>1. top + 1 # 0 /\ (top + 1) - 1 = top
          BY <1>1
        <4> QED BY <2>3, <4>1 DEF Due
      <3>2. CASE T_MAP(b)
        <4>1. m = 2 * n /\ ct = CT_MAP_KEY
          BY <3>2
        <4> QED BY <2>4, <3>1, <4>1 DEF DueIn, CT_ARRAY_ITEM, CT_MAP_KEY
      <3>3. CASE ~T_MAP(b)
        <4>1. m = n /\ ct = CT_ARRAY_ITEM
          BY <3>3
        <4> QED BY <2>4, <3>1, <4>1 DEF DueIn
      <3> QED BY <3>2, <3>3
    <2>10. Same(R2[top + 1], V[<<q + 1, top + 1, Due(stack', top + 1)>>])
      BY <2>8, <2>9 DEF r, Same
    <2>11. top + 1 \in 0 .. StackSize
      BY <1>1, <2>2
    <2> QED BY <1>1, <2>1, <2>3, <2>8, <2>10, <2>11, HeaderAgainAgrees
  <1> QED BY <1>9, <1>10, <1>11 DEF StartContainer

-------------------------------------------------------------------------------
(* The actions of the parser, one by one.                                      *)
LEMMA PushAgrees ==
  ASSUME NEW V, NEW w, Agrees(V, w), Parsing, NEW R, Linked(V, w, stack, R, top),
         NEW v, NEW q \in Nat, q < Len(data),
         Same(R[top], Ahead(V, Returned(<<v>>, q + 1, top))),
         Push(v, q), UNCHANGED <<data, top, stack, utf8>>
  PROVE  Agrees(V, w)'
  <1>1. pc' = "push" /\ p' = q /\ obj' = v
    BY DEF Push
  <1>2. Reads(V, w, R)'
    BY <1>1 DEF Reads, Ahead
  <1>3. p' <= Len(data')
    BY <1>1 DEF Agrees
  <1> QED BY <1>1, <1>2, <1>3 DEF Agrees, Parsing, Stops

LEMMA NextCall ==
  ASSUME NEW V, NEW w, Agrees(V, w), pc = "header"
  PROVE  /\ p \in Nat /\ p < Len(data) /\ Current \in Byte /\ top \in Nat /\ top <= StackSize
         /\ \E R : /\ Linked(V, w, stack, R, top)
                   /\ Same(R[top], Ahead(V, Item(V, data, utf8, p, top)))
  <1>1. /\ data \in Seq(Byte) /\ V = Unpack(data, utf8) /\ p \in Nat
        /\ top \in Nat /\ top <= StackSize
    BY StackSizeAssumption DEF Agrees, Parsing
  <1>2. PICK R : Reads(V, w, R)
    BY DEF Agrees, Parsing
  <1>3. /\ Linked(V, w, stack, R, top) /\ p < Len(data)
        /\ Same(R[top], V[<<p, top, Due(stack, top)>>])
    BY <1>2 DEF Reads
  <1>4. Due(stack, top) \in Nat \ {0}
    BY <1>1, <1>3, DueType DEF Linked
  <1>5. V[<<p, top, Due(stack, top)>>] = Ahead(V, Item(V, data, utf8, p, top))
    BY <1>1, <1>4, FirstCall DEF Ahead
  <1>6. Current \in Byte
    BY <1>1, <1>3 DEF Current
  <1> QED BY <1>1, <1>3, <1>5, <1>6

LEMMA HeaderScalarAgrees ==
  ASSUME NEW V, NEW w, Agrees(V, w), HeaderScalar
  PROVE  Agrees(V, w)'
  <1>1. pc = "header" /\ data \in Seq(Byte) /\ (FixInt(data[p + 1]) \/ Direct(data[p + 1]))
    BY DEF HeaderScalar, Agrees, Current
  <1>2. p \in Nat /\ p < Len(data)
    BY <1>1, NextCall
  <1>3. PICK R : /\ Linked(V, w, stack, R, top)
                 /\ Same(R[top], Ahead(V, Item(V, data, utf8, p, top)))
    BY <1>1, NextCall
  <1>4. Item(V, data, utf8, p, top) = Returned(<<HeaderValue(Current)>>, p + 1, top)
    BY <1>1, <1>2, ItemOfDirect DEF Current
  <1>5. Push(HeaderValue(Current), p) /\ UNCHANGED <<data, top, stack, utf8>>
    BY DEF HeaderScalar
  <1>6. Parsing
    BY <1>1 DEF Parsing
  <1> QED BY <1>2, <1>3, <1>4, <1>5, <1>6, PushAgrees

(* A string that is all there.                                                 *)
LEMMA SizedThere ==
  ASSUME NEW acs \in {ACS_STR_VALUE, ACS_BIN_VALUE}, data \in Seq(Byte),
         NEW q \in Nat, NEW n \in Nat, q + n <= Len(data), NEW d
  PROVE  Sized(IF acs = ACS_STR_VALUE THEN 160 ELSE 196, data, q, n, d, utf8)
           = Returned(<<BodyValue(acs, SubSeq(data, q + 1, q + n))>>, q + n, d)
  <1> DEFINE b == IF acs = ACS_STR_VALUE THEN 160 ELSE 196
             x == SubSeq(data, q + 1, q + n)
  <1>1. b \notin 202 .. 211 /\ (T_STR(b) <=> acs = ACS_STR_VALUE)
    BY DEF T_STR, ACS_STR_VALUE, ACS_BIN_VALUE
  <1>2. ~(q + n > Len(data))
    OBVIOUS
  <1>3. Sized(b, data, q, n, d, utf8) = Returned(<<Str(x, T_STR(b) \/ utf8)>>, q + n, d)
    BY <1>1, <1>2 DEF Sized
  <1>4. Str(x, T_STR(b) \/ utf8) = BodyValue(acs, x)
    BY <1>1 DEF BodyValue
  <1> QED BY <1>3, <1>4

LEMMA HeaderEmptyStrAgrees ==
  ASSUME NEW V, NEW w, Agrees(V, w), HeaderEmptyStr
  PROVE  Agrees(V, w)'
  <1>1. /\ pc = "header" /\ data \in Seq(Byte)
        /\ FixStr(data[p + 1]) /\ data[p + 1] % 32 = 0
    BY DEF HeaderEmptyStr, Agrees, Current
  <1>2. p \in Nat /\ p < Len(data)
    BY <1>1, NextCall
  <1>3. PICK R : /\ Linked(V, w, stack, R, top)
                 /\ Same(R[top], Ahead(V, Item(V, data, utf8, p, top)))
    BY <1>1, NextCall
  <1>4. Item(V, data, utf8, p, top) = Sized(160, data, p + 1, 0, top, utf8)
    BY <1>1, <1>2, ItemOfFixStr
  <1>5. Sized(160, data, p + 1, 0, top, utf8) = Returned(<<Str(<< >>, TRUE)>>, p + 1, top)
    <2>1. SubSeq(data, (p + 1) + 1, (p + 1) + 0) = << >>
      BY <1>1, <1>2
    <2>2. ~((p + 1) + 0 > Len(data)) /\ (p + 1) + 0 = p + 1
      BY <1>1, <1>2
    <2>3. T_STR(160) /\ 160 \notin 202 .. 211
      BY DEF T_STR
    <2> QED BY <2>1, <2>2, <2>3 DEF Sized
  <1>6. Push(Str(<< >>, TRUE), p) /\ UNCHANGED <<data, top, stack, utf8>> /\ Parsing
    BY <1>1 DEF HeaderEmptyStr, Parsing
  <1> QED BY <1>2, <1>3, <1>4, <1>5, <1>6, PushAgrees

LEMMA HeaderUnassignedAgrees ==
  ASSUME NEW V, NEW w, Agrees(V, w), HeaderUnassigned
  PROVE  Agrees(V, w)'
  <1>1. pc = "header" /\ data \in Seq(Byte) /\ data[p + 1] = 193
    BY DEF HeaderUnassigned, Agrees, Current, Unassigned
  <1>2. p \in Nat /\ p < Len(data) /\ top \in Nat /\ top <= StackSize
    BY <1>1, NextCall
  <1>3. PICK R : /\ Linked(V, w, stack, R, top)
                 /\ Same(R[top], Ahead(V, Item(V, data, utf8, p, top)))
    BY <1>1, NextCall
  <1> DEFINE v == Died("unexpected", p + 1, top)
  <1>4. Item(V, data, utf8, p, top) = v
    BY <1>1, <1>2, ItemOfExt
  <1>5. v.status = "unexpected" /\ v.depth = top
    BY DEF Died
  <1> HIDE DEF v
  <1>6. w.status = "unexpected"
    BY <1>2, <1>3, <1>4, <1>5, Dead DEF Ahead
  <1>7. pc' = "failed" /\ UNCHANGED <<data, stack, utf8>>
    BY DEF HeaderUnassigned, Stop
  <1> QED BY <1>6, <1>7 DEF Agrees, Parsing, Stops

LEMMA HeaderContainerAgrees ==
  ASSUME NEW V, NEW w, GoodFrom(V, 0), NoneDue(V), Agrees(V, w), HeaderContainer
  PROVE  Agrees(V, w)'
  <1>1. pc = "header" /\ data \in Seq(Byte) /\ Parsing
    BY DEF HeaderContainer, Agrees, Parsing
  <1>2. p \in Nat /\ p < Len(data) /\ Current \in Byte
    BY <1>1, NextCall
  <1>3. PICK R : /\ Linked(V, w, stack, R, top)
                 /\ Same(R[top], Ahead(V, Item(V, data, utf8, p, top)))
    BY <1>1, NextCall
  <1> DEFINE b == Current
             n == b % 16
  <1>4. n \in Nat /\ p + 1 <= Len(data)
    BY <1>1, <1>2 DEF Byte
  <1>5. FixArray(b) => T_ARRAY(b) /\ ~T_MAP(b)
    BY DEF FixArray, T_ARRAY, T_MAP
  <1>6. FixMap(b) => ~T_ARRAY(b) /\ T_MAP(b)
    BY DEF FixMap, T_ARRAY, T_MAP
  <1>7. FixArray(b) \/ FixMap(b)
    BY DEF HeaderContainer
  <1>8. Item(V, data, utf8, p, top) =
          Contained(b, V[<<p + 1, top + 1, n * (IF T_MAP(b) THEN 2 ELSE 1)>>])
    BY <1>1, <1>2, <1>7, ItemOfFixContainer DEF Current
  <1>9. \/ FixArray(b) /\ StartContainer(EmptyArray, n, CT_ARRAY_ITEM, p)
        \/ FixMap(b) /\ StartContainer(EmptyHash, n, CT_MAP_KEY, p)
    BY DEF HeaderContainer
  <1> HIDE DEF b, n
  <1>10. Same(R[top], Ahead(V, Contained(b, V[<<p + 1, top + 1,
                                               n * (IF T_MAP(b) THEN 2 ELSE 1)>>])))
    BY <1>3, <1>8
  <1>11. CASE FixArray(b) /\ StartContainer(EmptyArray, n, CT_ARRAY_ITEM, p)
    BY <1>1, <1>2, <1>3, <1>4, <1>5, <1>10, <1>11, StartContainerAgrees
  <1>12. CASE FixMap(b) /\ StartContainer(EmptyHash, n, CT_MAP_KEY, p)
    BY <1>1, <1>2, <1>3, <1>4, <1>6, <1>10, <1>12, StartContainerAgrees
  <1> QED BY <1>9, <1>11, <1>12

LEMMA TrailOfLength ==
  ASSUME NEW b \in (196 .. 201) \cup (217 .. 223)
  PROVE  HeaderTrail(b) \in {1, 2, 4}
  <1>1. CASE b \in {196, 197, 198, 217, 218, 219, 220, 221, 222, 223}
    BY <1>1, TrailOfSize
  <1>2. CASE b \in 199 .. 201
    <2>1. HeaderTrail(b) = ShiftLeft(1, (b + 1) % 4)
      BY <1>2 DEF HeaderTrail
    <2>2. (b + 1) % 4 \in {0, 1, 2}
      BY <1>2
    <2> QED BY <2>1, <2>2, Shifts
  <1> QED BY <1>1, <1>2

LEMMA TrailIsThere ==
  ASSUME NEW b \in (196 .. 211) \cup (217 .. 223)
  PROVE  HeaderTrail(b) \in {1, 2, 4, 8}
  <1>1. CASE b \in 202 .. 211
    BY <1>1, TrailOfNumber, NumberWidthType
  <1>2. CASE b \in (196 .. 201) \cup (217 .. 223)
    BY <1>2, TrailOfLength
  <1> QED BY <1>1, <1>2

LEMMA TrailAgrees ==
  ASSUME NEW V, NEW w, data \in Seq(Byte), V = Unpack(data, utf8), DOMAIN stack = Slot,
         top \in 0 .. StackSize, NEW R, Linked(V, w, stack, R, top),
         UNCHANGED <<data, top, stack, utf8>>, pc' = "trail",
         p' \in Nat, p' <= Len(data), trail' \in Nat, trail' > 0, AtTrail(V, R[top])'
  PROVE  Agrees(V, w)'
  <1>1. (R[top])' = R[top]
    OBVIOUS
  <1>2. Reads(V, w, R)'
    BY <1>1 DEF Reads
  <1> QED BY <1>2 DEF Agrees, Parsing, Stops

LEMMA HeaderWithTrailAgrees ==
  ASSUME NEW V, NEW w, Agrees(V, w), HeaderWithTrail
  PROVE  Agrees(V, w)'
  <1>1. /\ pc = "header" /\ data \in Seq(Byte) /\ V = Unpack(data, utf8)
        /\ DOMAIN stack = Slot /\ Parsing /\ top \in 0 .. StackSize
    BY DEF HeaderWithTrail, Agrees, Parsing
  <1>2. p \in Nat /\ p < Len(data) /\ Current \in Byte
    BY <1>1, NextCall
  <1>3. PICK R : /\ Linked(V, w, stack, R, top)
                 /\ Same(R[top], Ahead(V, Item(V, data, utf8, p, top)))
    BY <1>1, NextCall
  <1>4. p' = p + 1 /\ pc' = "trail" /\ UNCHANGED <<data, top, stack, utf8>>
    BY DEF HeaderWithTrail
  <1>5. p' \in Nat /\ p' > 0 /\ p' - 1 = p /\ p' <= Len(data)
    BY <1>1, <1>2, <1>4
  <1> DEFINE b == Current
  <1>6. data[p + 1] = b /\ data'[p'] = b
    BY <1>4 DEF Current
  <1> HIDE DEF b
  <1>7. CASE HasTrail(b) /\ cs' = NEXT_CS(b) /\ trail' = HeaderTrail(b)
    <2>1. b \in (196 .. 211) \cup (217 .. 223)
      BY <1>7 DEF HasTrail
    <2>2. NEXT_CS(b) = b - 192
      BY <2>1 DEF NEXT_CS
    <2>3. cs' \in (4 .. 19) \cup (25 .. 31) /\ b = cs' + 192
      BY <1>7, <2>1, <2>2
    <2>4. HeaderTrail(b) \in Nat /\ HeaderTrail(b) > 0
      BY <2>1, TrailIsThere
    <2>5. Same(R[top'], Following(V, Item(V, data', utf8', p' - 1, top'), top',
                                  Due(stack', top') - 1))
      BY <1>3, <1>4, <1>5 DEF Ahead
    <2>6. AtTrail(V, R[top])'
      BY <1>5, <1>6, <1>7, <2>3, <2>5 DEF AtTrail, Ahead
    <2>7. trail' \in Nat /\ trail' > 0
      BY <1>7, <2>4
    <2> QED BY <1>1, <1>3, <1>4, <1>5, <2>6, <2>7, TrailAgrees
  <1>8. CASE FixExt(b) /\ cs' = ACS_EXT_VALUE /\ trail' = HeaderTrail(b)
    <2>1. b \in 212 .. 216
      BY <1>8 DEF FixExt
    <2>2. HeaderTrail(b) \in Nat /\ HeaderTrail(b) > 0
      <3>1. CASE b = 216
        BY <3>1 DEF HeaderTrail
      <3>2. CASE b \in 212 .. 215
        <4>1. HeaderTrail(b) = ShiftLeft(1, b % 4) + 1
          BY <3>2 DEF HeaderTrail
        <4>2. b % 4 \in {0, 1, 2, 3}
          BY <3>2
        <4> QED BY <4>1, <4>2, Shifts
      <3> QED BY <2>1, <3>1, <3>2
    <2>3. Item(V, data, utf8, p, top) = Died("unexpected", p + 1, top)
      BY <1>1, <1>2, <1>6, <2>1, ItemOfExt
    <2>4. Same(R[top'], Following(V, Died("unexpected", p', top'), top',
                                  Due(stack', top') - 1))
      BY <1>3, <1>4, <2>3 DEF Ahead
    <2>5. AtTrail(V, R[top])'
      BY <1>8, <2>4 DEF AtTrail, Ahead
    <2>6. trail' \in Nat /\ trail' > 0
      BY <1>8, <2>2
    <2> QED BY <1>1, <1>3, <1>4, <1>5, <2>5, <2>6, TrailAgrees
  <1>9. CASE FixStr(b) /\ b % 32 > 0 /\ cs' = ACS_STR_VALUE /\ trail' = b % 32
    <2>1. Item(V, data, utf8, p, top) = Sized(160, data, p + 1, b % 32, top, utf8)
      BY <1>1, <1>2, <1>6, <1>9, ItemOfFixStr
    <2>2. b % 32 \in Nat
      BY <1>2 DEF b, Byte
    <2>3. Same(R[top'], Following(V, Sized(160, data', p', trail', top', utf8'), top',
                                  Due(stack', top') - 1))
      BY <1>3, <1>4, <1>9, <2>1 DEF Ahead
    <2>4. AtTrail(V, R[top])'
      BY <1>9, <2>3 DEF AtTrail, Ahead
    <2> QED BY <1>1, <1>3, <1>4, <1>5, <1>9, <2>2, <2>4, TrailAgrees
  <1> QED BY <1>7, <1>8, <1>9 DEF HeaderWithTrail, b

(* What the header before the trail began.                                     *)
LEMMA TrailItem ==
  ASSUME NEW V, data \in Seq(Byte), p \in Nat, p > 0, p <= Len(data),
         cs \in (4 .. 19) \cup (25 .. 31), data[p] = cs + 192, trail = HeaderTrail(data[p])
  PROVE  LET v == Item(V, data, utf8, p - 1, top)
             n == BE(Operand) IN
         /\ cs \in 10 .. 19 => v = Sized(cs + 192, data, p, trail, top, utf8)
         /\ cs \in (4 .. 6) \cup (25 .. 27) =>
              v = IF p + trail > Len(data) THEN Died("insufficient", p, top)
                  ELSE Sized(IF cs \in 25 .. 27 THEN 160 ELSE 196, data, p + trail, n, top, utf8)
         /\ cs \in 7 .. 9 => v = Died("unexpected", p, top)
         /\ cs \in 28 .. 31 =>
              v = IF p + trail > Len(data) THEN Died("insufficient", p, top)
                  ELSE Contained(cs + 192, V[<<p + trail, top + 1,
                                              n * (IF T_MAP(cs + 192) THEN 2 ELSE 1)>>])
  <1> DEFINE h == p - 1
             b == cs + 192
             n == BE(Operand)
  <1>1. h \in Nat /\ h < Len(data) /\ h + 1 = p /\ h + 2 = p + 1
    OBVIOUS
  <1>2. data[h + 1] = b /\ HeaderTrail(data[h + 1]) = trail /\ h + 1 + trail = p + trail
    BY <1>1
  <1>3. BE(SubSeq(data, h + 2, h + 1 + trail)) = n
    BY <1>1, <1>2 DEF Operand
  <1>4. trail = HeaderTrail(b)
    OBVIOUS
  <1> HIDE DEF n, h, b
  <1>5. ASSUME cs \in 10 .. 19
        PROVE  Item(V, data, utf8, h, top) = Sized(b, data, p, trail, top, utf8)
    <2>1. b \in 202 .. 211
      BY <1>5 DEF b
    <2> QED BY <1>1, <1>2, <2>1, ItemOfNumber
  <1>6. ASSUME cs \in (4 .. 6) \cup (25 .. 27)
        PROVE  Item(V, data, utf8, h, top) =
                 IF p + trail > Len(data) THEN Died("insufficient", p, top)
                 ELSE Sized(IF cs \in 25 .. 27 THEN 160 ELSE 196, data, p + trail, n, top, utf8)
    <2>1. b \in {196, 197, 198, 217, 218, 219} /\ (b >= 217 <=> cs \in 25 .. 27)
      BY <1>6 DEF b
    <2> DEFINE q == h + 1 + HeaderTrail(data[h + 1])
    <2>2. Item(V, data, utf8, h, top) =
            IF q > Len(data) THEN Died("insufficient", h + 1, top)
            ELSE Sized(IF data[h + 1] >= 217 THEN 160 ELSE 196, data, q,
                       BE(SubSeq(data, h + 2, q)), top, utf8)
      BY <1>1, <1>2, <2>1, ItemOfSized
    <2>3. q = p + trail /\ BE(SubSeq(data, h + 2, q)) = n
      BY <1>2, <1>3
    <2> HIDE DEF q
    <2> QED BY <1>1, <1>2, <2>1, <2>2, <2>3
  <1>7. ASSUME cs \in 7 .. 9
        PROVE  Item(V, data, utf8, h, top) = Died("unexpected", p, top)
    <2>1. b \in 199 .. 201
      BY <1>7 DEF b
    <2> QED BY <1>1, <1>2, <2>1, ItemOfExt
  <1>8. ASSUME cs \in 28 .. 31
        PROVE  Item(V, data, utf8, h, top) =
                 IF p + trail > Len(data) THEN Died("insufficient", p, top)
                 ELSE Contained(b, V[<<p + trail, top + 1, n * (IF T_MAP(b) THEN 2 ELSE 1)>>])
    <2>1. b \in 220 .. 223
      BY <1>8 DEF b
    <2>2. AfterFetch(data, h) = p + trail /\ FetchSize(data, h) = n
      BY <1>1, <1>2, <1>3, <2>1, ItemOfContainer
    <2>3. p + trail > Len(data) => Item(V, data, utf8, h, top) = Died("insufficient", p, top)
      BY <1>1, <1>2, <2>1, <2>2, ItemOfContainer
    <2>4. ~(p + trail > Len(data)) => ContainerAt(data, h)
      BY <1>1, <1>2, <2>1, <2>2, ItemOfContainer
    <2>5. ContainerAt(data, h) => Item(V, data, utf8, h, top) =
            Contained(b, V[<<p + trail, top + 1, n * (IF T_MAP(b) THEN 2 ELSE 1)>>])
      BY <1>2, <2>2 DEF Item
    <2> QED BY <2>3, <2>4, <2>5
  <1> QED BY <1>5, <1>6, <1>7, <1>8 DEF h, b, n

LEMMA InTrail ==
  ASSUME NEW V, NEW w, Agrees(V, w), pc = "trail"
  PROVE  /\ data \in Seq(Byte) /\ V = Unpack(data, utf8) /\ DOMAIN stack = Slot /\ Parsing
         /\ p \in Nat /\ p <= Len(data) /\ Len(data) \in Nat
         /\ top \in 0 .. StackSize /\ top \in Nat /\ top <= StackSize
         /\ trail \in Nat /\ trail > 0
         /\ \E R : Linked(V, w, stack, R, top) /\ AtTrail(V, R[top])
  <1>1. PICK R : Reads(V, w, R)
    BY DEF Agrees, Parsing
  <1>2. trail \in Nat /\ trail > 0 /\ Linked(V, w, stack, R, top) /\ AtTrail(V, R[top])
    BY <1>1 DEF Reads
  <1>3. data \in Seq(Byte) /\ Len(data) \in Nat
    BY DEF Agrees
  <1> QED BY <1>2, <1>3, StackSizeAssumption DEF Agrees, Parsing

LEMMA TrailShortAgrees ==
  ASSUME NEW V, NEW w, Agrees(V, w), TrailShort
  PROVE  Agrees(V, w)'
  <1>1. pc = "trail" /\ Len(data) - p < trail
    BY DEF TrailShort
  <1>2. /\ data \in Seq(Byte) /\ p \in Nat /\ p <= Len(data) /\ Len(data) \in Nat
        /\ top \in Nat /\ top <= StackSize /\ trail \in Nat
    BY <1>1, InTrail
  <1>3. PICK R : Linked(V, w, stack, R, top) /\ AtTrail(V, R[top])
    BY <1>1, InTrail
  <1>4. p + trail > Len(data)
    BY <1>1, <1>2
  <1>5. \A b : Sized(b, data, p, trail, top, utf8) = Died("insufficient", p, top)
    BY <1>4 DEF Sized
  <1>6. PICK v : v.status # "ok" /\ v.depth = top /\ Same(R[top], Ahead(V, v))
    <2>1. CASE /\ cs \in (4 .. 19) \cup (25 .. 31)
               /\ p > 0 /\ data[p] = cs + 192 /\ trail = HeaderTrail(data[p])
               /\ Same(R[top], Ahead(V, Item(V, data, utf8, p - 1, top)))
      <3> DEFINE v == Item(V, data, utf8, p - 1, top)
      <3>1. v = Died("insufficient", p, top) \/ v = Died("unexpected", p, top)
        <4>1. CASE cs \in 10 .. 19
          BY <1>2, <1>5, <2>1, <4>1, TrailItem
        <4>2. CASE cs \in (4 .. 6) \cup (25 .. 27)
          BY <1>2, <1>4, <2>1, <4>2, TrailItem
        <4>3. CASE cs \in 7 .. 9
          BY <1>2, <2>1, <4>3, TrailItem
        <4>4. CASE cs \in 28 .. 31
          BY <1>2, <1>4, <2>1, <4>4, TrailItem
        <4>5. cs \in 10 .. 19 \/ cs \in (4 .. 6) \cup (25 .. 27) \/ cs \in 7 .. 9 \/ cs \in 28 .. 31
          BY <2>1
        <4> HIDE DEF v
        <4> QED BY <4>1, <4>2, <4>3, <4>4, <4>5
      <3>2. Same(R[top], Ahead(V, v))
        BY <2>1
      <3> HIDE DEF v
      <3>3. v.status # "ok" /\ v.depth = top
        BY <3>1 DEF Died
      <3> QED BY <3>2, <3>3
    <2>2. CASE Same(R[top], Ahead(V, Sized(IF cs = ACS_STR_VALUE THEN 160 ELSE 196,
                                           data, p, trail, top, utf8)))
      BY <1>5, <2>2 DEF Died
    <2>3. CASE Same(R[top], Ahead(V, Died("unexpected", p, top)))
      BY <2>3 DEF Died
    <2> QED BY <1>3, <2>1, <2>2, <2>3 DEF AtTrail
  <1>7. w.status # "ok" /\ Fits(w)
    BY <1>2, <1>3, <1>6, Dead DEF Ahead
  <1>8. pc' = "out" /\ UNCHANGED <<data, stack, utf8>>
    BY DEF TrailShort, Stop
  <1> QED BY <1>7, <1>8 DEF Agrees, Parsing, Stops

LEMMA NumberIs ==
  ASSUME NEW n, cs \in 10 .. 19
  PROVE  NumberValue(n) = UnpackNumber(cs + 192, n)
  <1>1. CASE cs \in 10 .. 11
    <2>1. cs \in CS_FLOAT /\ cs + 192 \in {202, 203}
      BY <1>1 DEF CS_FLOAT
    <2>2. NumberValue(n) = Float(n)
      BY <1>1 DEF NumberValue, CS_FLOAT, CS_UINT, CS_INT
    <2> QED BY <2>1, <2>2 DEF UnpackNumber
  <1>2. CASE cs \in 12 .. 15
    <2>1. cs + 192 \notin {202, 203} /\ cs + 192 <= 207
      BY <1>2
    <2>2. NumberValue(n) = IntValue(BE(n))
      BY <1>2 DEF NumberValue, CS_FLOAT, CS_UINT, CS_INT
    <2> QED BY <2>1, <2>2 DEF UnpackNumber
  <1>3. CASE cs \in 16 .. 19
    <2>1. cs + 192 \notin {202, 203} /\ ~(cs + 192 <= 207)
      BY <1>3
    <2>2. NumberValue(n) = IntValue(SignedBE(n))
      BY <1>3 DEF NumberValue, CS_FLOAT, CS_UINT, CS_INT
    <2> QED BY <2>1, <2>2 DEF UnpackNumber
  <1> QED BY <1>1, <1>2, <1>3

LEMMA Ready ==
  ASSUME NEW V, NEW w, Agrees(V, w), TrailReady
  PROVE  /\ pc = "trail" /\ p + trail <= Len(data) /\ LastTrailByte = (p + trail) - 1
         /\ LastTrailByte \in Nat /\ LastTrailByte < Len(data) /\ LastTrailByte + 1 = p + trail
         /\ cs \in (4 .. 9) \cup (25 .. 31) =>
              Len(Operand) = trail /\ BE(Operand) \in Nat
  <1>1. pc = "trail" /\ Len(data) - p >= trail
    BY DEF TrailReady
  <1>2. data \in Seq(Byte) /\ p \in Nat /\ trail \in Nat /\ trail > 0 /\ Len(data) \in Nat
    BY <1>1, InTrail
  <1>3. PICK R : AtTrail(V, R[top])
    BY <1>1, InTrail
  <1>4. ASSUME cs \in (4 .. 9) \cup (25 .. 31)
        PROVE  Len(Operand) = trail /\ BE(Operand) \in Nat
    <2>1. trail = HeaderTrail(cs + 192)
      BY <1>3, <1>4 DEF AtTrail, ACS_STR_VALUE, ACS_BIN_VALUE, ACS_EXT_VALUE
    <2>2. cs + 192 \in (196 .. 201) \cup (217 .. 223)
      BY <1>4
    <2>3. trail \in {1, 2, 4}
      BY <2>1, <2>2, TrailOfLength
    <2>4. Operand \in Seq(Byte) /\ Len(Operand) = trail
      BY <1>1, <1>2 DEF Operand
    <2> QED BY <2>3, <2>4, BEIsNat
  <1> QED BY <1>1, <1>2, <1>4 DEF LastTrailByte

LEMMA NumberAgrees ==
  ASSUME NEW V, NEW w, Agrees(V, w), Number
  PROVE  Agrees(V, w)'
  <1>1. TrailReady /\ cs \in 10 .. 19
    BY DEF Number, CS_FLOAT, CS_UINT, CS_INT
  <1>2. /\ pc = "trail" /\ p + trail <= Len(data) /\ LastTrailByte + 1 = p + trail
        /\ LastTrailByte \in Nat /\ LastTrailByte < Len(data)
    BY <1>1, Ready
  <1>3. data \in Seq(Byte) /\ p \in Nat /\ p <= Len(data) /\ Parsing
    BY <1>2, InTrail
  <1>4. PICK R : Linked(V, w, stack, R, top) /\ AtTrail(V, R[top])
    BY <1>2, InTrail
  <1>5. /\ cs \in (4 .. 19) \cup (25 .. 31) /\ p > 0 /\ data[p] = cs + 192
        /\ trail = HeaderTrail(data[p])
        /\ Same(R[top], Ahead(V, Item(V, data, utf8, p - 1, top)))
    BY <1>1, <1>4 DEF AtTrail, ACS_STR_VALUE, ACS_BIN_VALUE, ACS_EXT_VALUE
  <1> DEFINE v == NumberValue(Operand)
  <1>6. Item(V, data, utf8, p - 1, top) = Sized(cs + 192, data, p, trail, top, utf8)
    BY <1>1, <1>3, <1>5, TrailItem
  <1>7. Sized(cs + 192, data, p, trail, top, utf8) = Returned(<<v>>, p + trail, top)
    <2>1. ~(p + trail > Len(data)) /\ cs + 192 \in 202 .. 211
      BY <1>1, <1>2, <1>3
    <2>2. v = UnpackNumber(cs + 192, SubSeq(data, p + 1, p + trail))
      BY <1>1, NumberIs DEF Operand
    <2> QED BY <2>1, <2>2 DEF Sized
  <1>8. Same(R[top], Ahead(V, Returned(<<v>>, LastTrailByte + 1, top)))
    BY <1>2, <1>5, <1>6, <1>7
  <1>9. Push(v, LastTrailByte) /\ UNCHANGED <<data, top, stack, utf8>>
    BY DEF Number
  <1> HIDE DEF v
  <1> QED BY <1>2, <1>3, <1>4, <1>8, <1>9, PushAgrees

LEMMA ExtCroakAgrees ==
  ASSUME NEW V, NEW w, Agrees(V, w), ExtCroak
  PROVE  Agrees(V, w)'
  <1>1. TrailReady /\ (cs = ACS_EXT_VALUE \/ cs \in 7 .. 9)
    BY DEF ExtCroak, CS_EXT
  <1>2. pc = "trail"
    BY <1>1, Ready
  <1>3. data \in Seq(Byte) /\ p \in Nat /\ p <= Len(data) /\ top \in Nat /\ top <= StackSize
    BY <1>2, InTrail
  <1>4. PICK R : Linked(V, w, stack, R, top) /\ AtTrail(V, R[top])
    BY <1>2, InTrail
  <1> DEFINE v == Died("unexpected", p, top)
  <1>5. Same(R[top], Ahead(V, v))
    <2>1. CASE cs = ACS_EXT_VALUE
      BY <1>4, <2>1 DEF AtTrail, ACS_STR_VALUE, ACS_BIN_VALUE, ACS_EXT_VALUE
    <2>2. CASE cs \in 7 .. 9
      <3>1. /\ cs \in (4 .. 19) \cup (25 .. 31) /\ p > 0 /\ data[p] = cs + 192
            /\ trail = HeaderTrail(data[p])
            /\ Same(R[top], Ahead(V, Item(V, data, utf8, p - 1, top)))
        BY <1>4, <2>2 DEF AtTrail, ACS_STR_VALUE, ACS_BIN_VALUE, ACS_EXT_VALUE
      <3>2. Item(V, data, utf8, p - 1, top) = v
        BY <1>3, <2>2, <3>1, TrailItem
      <3> QED BY <3>1, <3>2
    <2> QED BY <1>1, <2>1, <2>2
  <1>6. v.status = "unexpected" /\ v.depth = top
    BY DEF Died
  <1> HIDE DEF v
  <1>7. w.status = "unexpected" /\ Fits(w)
    BY <1>3, <1>4, <1>5, <1>6, Dead DEF Ahead
  <1>8. pc' = "croaked" /\ UNCHANGED <<data, stack, utf8>>
    BY DEF ExtCroak
  <1> QED BY <1>7, <1>8 DEF Agrees, Parsing, Stops

(* A str or bin header with its length.                                        *)
LEMMA SizedHeader ==
  ASSUME NEW V, NEW w, Agrees(V, w), TrailReady, cs \in CS_STR \cup CS_BIN
  PROVE  /\ BodyLength(Operand) = BE(Operand) /\ BE(Operand) \in Nat
         /\ BodyState \in {ACS_STR_VALUE, ACS_BIN_VALUE}
         /\ \E R : /\ Linked(V, w, stack, R, top)
                   /\ Same(R[top], Ahead(V, Sized(IF BodyState = ACS_STR_VALUE THEN 160 ELSE 196,
                                                  data, p + trail, BE(Operand), top, utf8)))
  <1>1. pc = "trail" /\ p + trail <= Len(data)
    BY Ready
  <1>2. data \in Seq(Byte) /\ p \in Nat /\ p <= Len(data) /\ trail \in Nat /\ Len(data) \in Nat
    BY <1>1, InTrail
  <1>3. PICK R : Linked(V, w, stack, R, top) /\ AtTrail(V, R[top])
    BY <1>1, InTrail
  <1>4. cs \in (4 .. 6) \cup (25 .. 27)
    BY DEF CS_STR, CS_BIN
  <1>5. /\ cs \in (4 .. 19) \cup (25 .. 31) /\ p > 0 /\ data[p] = cs + 192
        /\ trail = HeaderTrail(data[p])
        /\ Same(R[top], Ahead(V, Item(V, data, utf8, p - 1, top)))
    BY <1>3, <1>4 DEF AtTrail, ACS_STR_VALUE, ACS_BIN_VALUE, ACS_EXT_VALUE
  <1>6. ~(p + trail > Len(data))
    BY <1>1, <1>2
  <1>7. Item(V, data, utf8, p - 1, top) =
          Sized(IF cs \in 25 .. 27 THEN 160 ELSE 196, data, p + trail, BE(Operand), top, utf8)
    BY <1>2, <1>4, <1>5, <1>6, TrailItem
  <1>8. BE(Operand) \in Nat
    BY <1>4, Ready
  <1>9. BodyLength(Operand) = BE(Operand)
    BY <1>4 DEF BodyLength, CS_EXT
  <1>10. /\ BodyState \in {ACS_STR_VALUE, ACS_BIN_VALUE}
         /\ BodyState = ACS_STR_VALUE <=> cs \in 25 .. 27
    BY <1>4 DEF BodyState, CS_STR, CS_BIN, CS_EXT, ACS_STR_VALUE, ACS_BIN_VALUE, ACS_EXT_VALUE
  <1>11. (IF cs \in 25 .. 27 THEN 160 ELSE 196) = (IF BodyState = ACS_STR_VALUE THEN 160 ELSE 196)
    BY <1>10
  <1>12. Same(R[top], Ahead(V, Sized(IF BodyState = ACS_STR_VALUE THEN 160 ELSE 196,
                                     data, p + trail, BE(Operand), top, utf8)))
    BY <1>5, <1>7, <1>11
  <1> QED BY <1>3, <1>8, <1>9, <1>10, <1>12

LEMMA LengthAgrees ==
  ASSUME NEW V, NEW w, Agrees(V, w), Length
  PROVE  Agrees(V, w)'
  <1>1. /\ TrailReady /\ cs \in CS_STR \cup CS_BIN \cup CS_EXT /\ BodyLength(Operand) > 0
        /\ trail' = BodyLength(Operand) /\ cs' = BodyState /\ p' = LastTrailByte + 1
        /\ UNCHANGED <<data, top, stack, utf8, pc>>
    BY DEF Length
  <1>2. /\ pc = "trail" /\ p + trail <= Len(data) /\ LastTrailByte + 1 = p + trail
    BY <1>1, Ready
  <1>3. /\ data \in Seq(Byte) /\ V = Unpack(data, utf8) /\ DOMAIN stack = Slot
        /\ p \in Nat /\ p <= Len(data) /\ trail \in Nat /\ top \in 0 .. StackSize
    BY <1>2, InTrail
  <1>4. pc' = "trail" /\ p' = p + trail /\ p' \in Nat /\ p' <= Len(data)
    BY <1>1, <1>2, <1>3
  <1>5. CASE cs \in CS_STR \cup CS_BIN
    <2>1. BodyLength(Operand) = BE(Operand) /\ BE(Operand) \in Nat
      BY <1>1, <1>5, SizedHeader
    <2>2. PICK R : /\ Linked(V, w, stack, R, top)
                   /\ Same(R[top], Ahead(V, Sized(IF BodyState = ACS_STR_VALUE THEN 160 ELSE 196,
                                                  data, p + trail, BE(Operand), top, utf8)))
      BY <1>1, <1>5, SizedHeader
    <2>3. cs' \in {ACS_STR_VALUE, ACS_BIN_VALUE}
      BY <1>1, <1>5, SizedHeader
    <2>4. Same(R[top'], Following(V, Sized(IF cs' = ACS_STR_VALUE THEN 160 ELSE 196,
                                           data', p', trail', top', utf8'), top',
                                  Due(stack', top') - 1))
      BY <1>1, <1>4, <2>1, <2>2 DEF Ahead
    <2>5. AtTrail(V, R[top])'
      BY <2>3, <2>4 DEF AtTrail, Ahead
    <2>6. trail' \in Nat /\ trail' > 0
      BY <1>1, <2>1
    <2> QED BY <1>1, <1>3, <1>4, <2>2, <2>5, <2>6, TrailAgrees
  <1>6. CASE cs \in CS_EXT
    <2>1. cs \in 7 .. 9
      BY <1>6 DEF CS_EXT
    <2>2. PICK R : Linked(V, w, stack, R, top) /\ AtTrail(V, R[top])
      BY <1>2, InTrail
    <2>3. /\ cs \in (4 .. 19) \cup (25 .. 31) /\ p > 0 /\ data[p] = cs + 192
          /\ trail = HeaderTrail(data[p])
          /\ Same(R[top], Ahead(V, Item(V, data, utf8, p - 1, top)))
      BY <2>1, <2>2 DEF AtTrail, ACS_STR_VALUE, ACS_BIN_VALUE, ACS_EXT_VALUE
    <2> DEFINE v == Died("unexpected", p, top)
               u == Died("unexpected", p', top)
    <2>4. Item(V, data, utf8, p - 1, top) = v
      BY <1>3, <2>1, <2>3, TrailItem
    <2>5. /\ v.status # "ok" /\ u.status = v.status /\ u.depth = v.depth
      BY DEF Died
    <2>6. Same(R[top], Ahead(V, u))
      <3> HIDE DEF u, v
      <3>1. Same(R[top], v)
        BY <2>3, <2>4, <2>5 DEF Ahead, Following
      <3>2. Ahead(V, u) = u
        BY <2>5 DEF Ahead, Following
      <3>3. Same(R[top], u)
        BY <2>5, <3>1 DEF Same, Fits
      <3> QED BY <3>2, <3>3
    <2>7. Same(R[top'], Following(V, Died("unexpected", p', top'), top',
                                  Due(stack', top') - 1))
      BY <1>1, <2>6 DEF Ahead
    <2>8. cs' = ACS_EXT_VALUE
      BY <1>1, <2>1 DEF BodyState, CS_STR, CS_BIN, CS_EXT
    <2>9. AtTrail(V, R[top])'
      BY <2>7, <2>8 DEF AtTrail, Ahead
    <2>10. trail' \in Nat
      <3>1. BE(Operand) \in Nat
        BY <1>1, <2>1, Ready
      <3> QED BY <1>1, <3>1 DEF BodyLength
    <2> QED BY <1>1, <1>3, <1>4, <2>2, <2>9, <2>10, TrailAgrees
  <1> QED BY <1>1, <1>5, <1>6

LEMMA EmptyBodyAgrees ==
  ASSUME NEW V, NEW w, Agrees(V, w), EmptyBody
  PROVE  Agrees(V, w)'
  <1>1. /\ TrailReady /\ cs \in CS_STR \cup CS_BIN /\ BodyLength(Operand) = 0
        /\ Push(BodyValue(BodyState, << >>), LastTrailByte)
        /\ UNCHANGED <<data, top, stack, utf8>>
    BY DEF EmptyBody
  <1>2. /\ pc = "trail" /\ p + trail <= Len(data) /\ LastTrailByte + 1 = p + trail
        /\ LastTrailByte \in Nat /\ LastTrailByte < Len(data)
    BY <1>1, Ready
  <1>3. data \in Seq(Byte) /\ p \in Nat /\ trail \in Nat /\ Len(data) \in Nat /\ Parsing
    BY <1>2, InTrail
  <1>4. BE(Operand) = 0 /\ BodyState \in {ACS_STR_VALUE, ACS_BIN_VALUE}
    BY <1>1, SizedHeader
  <1>5. PICK R : /\ Linked(V, w, stack, R, top)
                 /\ Same(R[top], Ahead(V, Sized(IF BodyState = ACS_STR_VALUE THEN 160 ELSE 196,
                                                data, p + trail, 0, top, utf8)))
    BY <1>1, <1>4, SizedHeader
  <1> DEFINE q == p + trail
             acs == BodyState
  <1>6. q \in Nat /\ q + 0 <= Len(data) /\ q + 0 = q
    BY <1>2, <1>3
  <1>7. SubSeq(data, q + 1, q + 0) = << >>
    BY <1>3, <1>6
  <1> HIDE DEF q, acs
  <1>8. Sized(IF acs = ACS_STR_VALUE THEN 160 ELSE 196, data, q, 0, top, utf8)
          = Returned(<<BodyValue(acs, << >>)>>, q, top)
    <2>1. acs \in {ACS_STR_VALUE, ACS_BIN_VALUE} /\ 0 \in Nat
      BY <1>4 DEF acs
    <2>2. Sized(IF acs = ACS_STR_VALUE THEN 160 ELSE 196, data, q, 0, top, utf8)
            = Returned(<<BodyValue(acs, SubSeq(data, q + 1, q + 0))>>, q + 0, top)
      BY <1>3, <1>6, <2>1, SizedThere
    <2> QED BY <1>6, <1>7, <2>2
  <1>9. Same(R[top], Ahead(V, Returned(<<BodyValue(BodyState, << >>)>>, LastTrailByte + 1, top)))
    BY <1>2, <1>5, <1>8 DEF q, acs
  <1> QED BY <1>1, <1>2, <1>3, <1>5, <1>9, PushAgrees

LEMMA BodyAgrees ==
  ASSUME NEW V, NEW w, Agrees(V, w), Body
  PROVE  Agrees(V, w)'
  <1>1. /\ TrailReady /\ cs \in {ACS_STR_VALUE, ACS_BIN_VALUE}
        /\ Push(BodyValue(cs, Operand), LastTrailByte)
        /\ UNCHANGED <<data, top, stack, utf8>>
    BY DEF Body
  <1>2. /\ pc = "trail" /\ p + trail <= Len(data) /\ LastTrailByte + 1 = p + trail
        /\ LastTrailByte \in Nat /\ LastTrailByte < Len(data)
    BY <1>1, Ready
  <1>3. data \in Seq(Byte) /\ p \in Nat /\ trail \in Nat /\ Parsing
    BY <1>2, InTrail
  <1>4. PICK R : Linked(V, w, stack, R, top) /\ AtTrail(V, R[top])
    BY <1>2, InTrail
  <1>5. Same(R[top], Ahead(V, Sized(IF cs = ACS_STR_VALUE THEN 160 ELSE 196,
                                    data, p, trail, top, utf8)))
    BY <1>1, <1>4 DEF AtTrail, ACS_STR_VALUE, ACS_BIN_VALUE, ACS_EXT_VALUE
  <1>6. Sized(IF cs = ACS_STR_VALUE THEN 160 ELSE 196, data, p, trail, top, utf8)
          = Returned(<<BodyValue(cs, Operand)>>, p + trail, top)
    BY <1>1, <1>2, <1>3, SizedThere DEF Operand
  <1>7. Same(R[top], Ahead(V, Returned(<<BodyValue(cs, Operand)>>, LastTrailByte + 1, top)))
    BY <1>2, <1>5, <1>6
  <1> QED BY <1>1, <1>2, <1>3, <1>4, <1>7, PushAgrees

LEMMA ContainerAgrees ==
  ASSUME NEW V, NEW w, GoodFrom(V, 0), NoneDue(V), Agrees(V, w), Container
  PROVE  Agrees(V, w)'
  <1>1. TrailReady /\ cs \in 28 .. 31
    BY DEF Container, CS_ARRAY, CS_MAP
  <1>2. /\ pc = "trail" /\ p + trail <= Len(data) /\ LastTrailByte + 1 = p + trail
        /\ LastTrailByte \in Nat /\ LastTrailByte < Len(data) /\ BE(Operand) \in Nat
    BY <1>1, Ready
  <1>3. data \in Seq(Byte) /\ p \in Nat /\ p <= Len(data) /\ trail \in Nat /\ Len(data) \in Nat
          /\ Parsing
    BY <1>2, InTrail
  <1>4. PICK R : Linked(V, w, stack, R, top) /\ AtTrail(V, R[top])
    BY <1>2, InTrail
  <1>5. /\ cs \in (4 .. 19) \cup (25 .. 31) /\ p > 0 /\ data[p] = cs + 192
        /\ trail = HeaderTrail(data[p])
        /\ Same(R[top], Ahead(V, Item(V, data, utf8, p - 1, top)))
    BY <1>1, <1>4 DEF AtTrail, ACS_STR_VALUE, ACS_BIN_VALUE, ACS_EXT_VALUE
  <1> DEFINE b == cs + 192
             n == BE(Operand)
             q == LastTrailByte
  <1>6. ~(p + trail > Len(data)) /\ q + 1 <= Len(data)
    BY <1>2, <1>3
  <1>7. Item(V, data, utf8, p - 1, top) =
          Contained(b, V[<<p + trail, top + 1, n * (IF T_MAP(b) THEN 2 ELSE 1)>>])
    BY <1>1, <1>3, <1>5, <1>6, TrailItem
  <1>8. \/ cs \in 28 .. 29 /\ T_ARRAY(b) /\ ~T_MAP(b)
           /\ StartContainer(EmptyArray, n, CT_ARRAY_ITEM, q)
        \/ cs \in 30 .. 31 /\ ~T_ARRAY(b) /\ T_MAP(b)
           /\ StartContainer(EmptyHash, n, CT_MAP_KEY, q)
    <2>1. cs \in 28 .. 29 => T_ARRAY(b) /\ ~T_MAP(b)
      BY DEF T_ARRAY, T_MAP
    <2>2. cs \in 30 .. 31 => ~T_ARRAY(b) /\ T_MAP(b)
      BY DEF T_ARRAY, T_MAP
    <2> HIDE DEF b, n, q
    <2> QED BY <2>1, <2>2 DEF Container, CS_ARRAY, CS_MAP, n, q
  <1> HIDE DEF b, n, q
  <1>9. Same(R[top], Ahead(V, Contained(b, V[<<q + 1, top + 1,
                                              n * (IF T_MAP(b) THEN 2 ELSE 1)>>])))
    BY <1>2, <1>5, <1>7 DEF q
  <1>10. n \in Nat /\ q \in Nat
    BY <1>2 DEF n, q
  <1>11. CASE T_ARRAY(b) /\ ~T_MAP(b) /\ StartContainer(EmptyArray, n, CT_ARRAY_ITEM, q)
    BY <1>3, <1>4, <1>6, <1>9, <1>10, <1>11, StartContainerAgrees
  <1>12. CASE ~T_ARRAY(b) /\ T_MAP(b) /\ StartContainer(EmptyHash, n, CT_MAP_KEY, q)
    BY <1>3, <1>4, <1>6, <1>9, <1>10, <1>12, StartContainerAgrees
  <1> QED BY <1>8, <1>11, <1>12

(* A value is complete.                                                        *)
LEMMA AtPush ==
  ASSUME NEW V, NEW w, Agrees(V, w), pc = "push"
  PROVE  /\ data \in Seq(Byte) /\ V = Unpack(data, utf8) /\ DOMAIN stack = Slot /\ Parsing
         /\ p \in Nat /\ p < Len(data) /\ Len(data) \in Nat
         /\ top \in 0 .. StackSize /\ top \in Nat /\ top <= StackSize
         /\ \E R : /\ Linked(V, w, stack, R, top)
                   /\ Same(R[top], Following(V, Returned(<<obj>>, p + 1, top), top,
                                             Due(stack, top) - 1))
  <1>1. PICK R : Reads(V, w, R)
    BY DEF Agrees, Parsing
  <1>2. /\ p < Len(data) /\ Linked(V, w, stack, R, top)
        /\ Same(R[top], Following(V, Returned(<<obj>>, p + 1, top), top, Due(stack, top) - 1))
    BY <1>1 DEF Reads, Ahead
  <1>3. data \in Seq(Byte) /\ Len(data) \in Nat
    BY DEF Agrees
  <1> QED BY <1>2, <1>3, StackSizeAssumption DEF Agrees, Parsing

LEMMA PushRootAgrees ==
  ASSUME NEW V, NEW w, NoneDue(V), Agrees(V, w), PushRoot
  PROVE  Agrees(V, w)'
  <1>1. /\ pc = "push" /\ top = 0 /\ pc' = "finish" /\ p' = p + 1
        /\ stack' = [stack EXCEPT ![0] = Frame(obj, stack[0].count, stack[0].ct, stack[0].map_key)]
        /\ UNCHANGED <<data, utf8>>
    BY DEF PushRoot, Stop
  <1>2. data \in Seq(Byte) /\ DOMAIN stack = Slot /\ p \in Nat /\ p < Len(data) /\ Len(data) \in Nat
    BY <1>1, AtPush
  <1>3. PICK R : /\ Linked(V, w, stack, R, top)
                 /\ Same(R[top], Following(V, Returned(<<obj>>, p + 1, top), top,
                                           Due(stack, top) - 1))
    BY <1>1, AtPush
  <1>4. Due(stack, top) - 1 = 0
    BY <1>1 DEF Due
  <1>5. Following(V, Returned(<<obj>>, p + 1, 0), 0, 0) = Returned(<<obj>>, p + 1, 0)
    BY <1>2, FollowingNone
  <1>6. Same(R[0], Returned(<<obj>>, p + 1, 0))
    BY <1>1, <1>3, <1>4, <1>5
  <1>7. Same(R[0], w)
    BY <1>3 DEF Linked
  <1>8. Same(w, Returned(<<obj>>, p + 1, 0))
    BY <1>6, <1>7, SameSym, SameTrans
  <1>9. 0 \in Slot
    BY StackSizeAssumption DEF Slot
  <1>10. TemplateData' = obj /\ DOMAIN stack' = Slot
    BY <1>1, <1>2, <1>9 DEF TemplateData, Frame
  <1>11. p' \in Nat /\ p' <= Len(data')
    BY <1>1, <1>2
  <1>12. Same(w, Returned(<<TemplateData'>>, p', 0))
    BY <1>1, <1>8, <1>10
  <1>13. (Same(w, Returned(<<TemplateData>>, p, 0)))'
    BY <1>12
  <1> QED BY <1>1, <1>10, <1>11, <1>13 DEF Agrees, Parsing, Stops

LEMMA ItemStoredAgrees ==
  ASSUME NEW V, NEW w, GoodFrom(V, 0), NoneDue(V), Agrees(V, w), pc = "push", top > 0,
         NEW c, NEW ct, ItemStored(c, ct),
         LastItem => Due(stack, top) = 1 /\ Filled(Parent, <<obj>>) = c,
         ~LastItem =>
           LET g == Frame(c, Parent.count - 1, ct, Parent.map_key) IN
           /\ Open(g) /\ DueIn(g) = Due(stack, top) - 1
           /\ \A rest : IsSeq(rest) => Filled(Parent, <<obj>> \o rest) = Filled(g, rest)
  PROVE  Agrees(V, w)'
  <1> DEFINE g == Frame(c, Parent.count - 1, ct, Parent.map_key)
  <1>1. /\ data \in Seq(Byte) /\ V = Unpack(data, utf8) /\ DOMAIN stack = Slot
        /\ p \in Nat /\ p < Len(data) /\ Len(data) \in Nat
        /\ top \in Nat \ {0} /\ top <= StackSize
    BY AtPush
  <1>2. PICK R : /\ Linked(V, w, stack, R, top)
                 /\ Same(R[top], Following(V, Returned(<<obj>>, p + 1, top), top,
                                           Due(stack, top) - 1))
    BY AtPush
  <1>3. /\ stack' = [stack EXCEPT ![top - 1] = g] /\ UNCHANGED <<data, utf8>>
    BY DEF ItemStored, Parent
  <1>4. top - 1 \in Slot /\ top - 1 \in Nat
    BY <1>1, StackSizeAssumption DEF Slot
  <1>5. /\ DOMAIN stack' = Slot /\ stack'[top - 1] = g
        /\ \A i \in 0 .. top - 2 : stack'[i] = stack[i]
    <2> HIDE DEF g
    <2> QED BY <1>1, <1>3, <1>4 DEF Slot
  <1>6. stack[top - 1] = Parent
    BY DEF Parent
  <1> HIDE DEF g
  <1>7. CASE LastItem
    <2>1. obj' = c /\ top' = top - 1 /\ p' = p /\ pc' = "push"
      BY <1>7 DEF ItemStored
    <2>2. Due(stack, top) - 1 = 0 /\ Filled(stack[top - 1], <<obj>>) = c
      BY <1>6, <1>7
    <2>3. Same(R[top], Following(V, Returned(<<obj>>, p + 1, top), top, 0))
      BY <1>2, <2>2
    <2>4. p + 1 \in Nat
      BY <1>1
    <2>5. /\ Linked(V, w, stack', R, top - 1)
          /\ Same(R[top - 1], Following(V, Returned(<<Filled(stack[top - 1], <<obj>>)>>, p + 1, top - 1),
                                        top - 1, Due(stack', top - 1) - 1))
      BY <1>1, <1>2, <1>5, <2>3, <2>4, Popped
    <2>6. Same(R[top'], Following(V, Returned(<<obj'>>, p' + 1, top'), top', Due(stack', top') - 1))
      BY <2>1, <2>2, <2>5
    <2>7. Reads(V, w, R)'
      BY <1>1, <1>3, <2>1, <2>5, <2>6 DEF Reads, Ahead
    <2>8. p' <= Len(data') /\ p' \in Nat /\ top' \in 0 .. StackSize
      BY <1>1, <1>3, <1>4, <2>1
    <2> QED BY <1>1, <1>3, <1>5, <2>1, <2>7, <2>8 DEF Agrees, Parsing, Stops
  <1>8. CASE ~LastItem
    <2>1. HeaderAgain(p, top)
      BY <1>8 DEF ItemStored
    <2>2. /\ Open(g) /\ DueIn(g) = Due(stack, top) - 1
          /\ \A rest : IsSeq(rest) => Filled(Parent, <<obj>> \o rest) = Filled(g, rest)
      BY <1>8 DEF g
    <2> DEFINE n == Due(stack, top) - 1
    <2>3. n \in Nat
      <3>1. top > 0 => Open(stack[top - 1])
        BY <1>2, <1>4 DEF Linked
      <3>2. Due(stack, top) \in Nat \ {0}
        BY <1>1, <3>1, DueType
      <3> QED BY <3>2
    <2>4. Same(R[top], Following(V, Returned(<<obj>>, p + 1, top), top, n)) /\ p + 1 \in Nat
      BY <1>1, <1>2
    <2> HIDE DEF n
    <2>5. Open(stack'[top - 1])
      BY <1>5, <2>2
    <2>6. \A rest : IsSeq(rest) =>
            Filled(stack[top - 1], <<obj>> \o rest) = Filled(stack'[top - 1], rest)
      BY <1>5, <1>6, <2>2
    <2>7. PICK R2 : Linked(V, w, stack', R2, top) /\ R2[top] = V[<<p + 1, top, n>>]
      BY <1>1, <1>2, <1>5, <2>3, <2>4, <2>5, <2>6, Stored
    <2>8. Due(stack', top) = n
      BY <1>1, <1>5, <2>2 DEF Due, n
    <2>9. Same(R2[top], V[<<p + 1, top, Due(stack', top)>>])
      BY <2>7, <2>8 DEF Same
    <2>10. top \in 0 .. StackSize /\ p + 1 <= Len(data)
      BY <1>1
    <2> QED BY <1>1, <1>3, <1>5, <2>1, <2>7, <2>9, <2>10, HeaderAgainAgrees
  <1> QED BY <1>7, <1>8

LEMMA CTs ==
  CT_ARRAY_ITEM # CT_MAP_KEY /\ CT_ARRAY_ITEM # CT_MAP_VALUE /\ CT_MAP_KEY # CT_MAP_VALUE
  BY DEF CT_ARRAY_ITEM, CT_MAP_KEY, CT_MAP_VALUE

LEMMA NoValues ==
  IsSeq(<< >>)
  <1>1. << >> \in Seq({})
    OBVIOUS
  <1> QED BY <1>1 DEF IsSeq

(* The frame that a complete value goes into.                                  *)
LEMMA ParentFacts ==
  ASSUME NEW V, NEW w, Agrees(V, w), pc = "push", top > 0
  PROVE  Open(Parent) /\ Due(stack, top) = DueIn(Parent)
  <1>1. top \in Nat
    BY AtPush
  <1>2. PICK R : Linked(V, w, stack, R, top)
    BY AtPush
  <1>3. top - 1 \in 0 .. top - 1
    BY <1>1
  <1> QED BY <1>1, <1>2, <1>3 DEF Linked, Parent, Due

LEMMA PushArrayItemAgrees ==
  ASSUME NEW V, NEW w, GoodFrom(V, 0), NoneDue(V), Agrees(V, w), PushArrayItem
  PROVE  Agrees(V, w)'
  <1> DEFINE c == ArrayItem(Parent.obj, obj)
             g == Frame(c, Parent.count - 1, CT_ARRAY_ITEM, Parent.map_key)
  <1>1. pc = "push" /\ top > 0 /\ Parent.ct = CT_ARRAY_ITEM /\ ItemStored(c, CT_ARRAY_ITEM)
    BY DEF PushArrayItem
  <1>2. Open(Parent) /\ Due(stack, top) = DueIn(Parent) /\ DueIn(Parent) = Parent.count
    <2>1. Open(Parent) /\ Due(stack, top) = DueIn(Parent)
      BY <1>1, ParentFacts
    <2> QED BY <1>1, <2>1 DEF DueIn
  <1>3. IsAV(Parent.obj)
    BY <1>1, <1>2 DEF Open
  <1>4. ASSUME NEW rest, IsSeq(rest)
        PROVE  Filled(Parent, <<obj>> \o rest) = Turns(c, rest, Len(rest))
    BY <1>1, <1>3, <1>4, FirstItem DEF Filled
  <1>5. Filled(Parent, <<obj>>) = c
    <2>1. Filled(Parent, <<obj>> \o << >>) = Turns(c, << >>, Len(<< >>))
      BY <1>4, NoValues
    <2>2. <<obj>> \o << >> = <<obj>> /\ Len(<< >>) = 0
      OBVIOUS
    <2> QED BY <2>1, <2>2, NoTurns
  <1>6. IsAV(c)
    BY <1>3 DEF IsAV, ArrayItem
  <1>7. g.obj = c /\ g.ct = CT_ARRAY_ITEM /\ g.count = Parent.count - 1
    BY DEF Frame
  <1> HIDE DEF c, g
  <1>8. \A rest : IsSeq(rest) => Filled(Parent, <<obj>> \o rest) = Filled(g, rest)
    BY <1>4, <1>7 DEF Filled
  <1>9. ~LastItem => Open(g) /\ DueIn(g) = Due(stack, top) - 1
    BY <1>2, <1>6, <1>7 DEF LastItem, Open, DueIn
  <1>10. LastItem => Due(stack, top) = 1
    BY <1>2 DEF LastItem
  <1> QED BY <1>1, <1>5, <1>8, <1>9, <1>10, ItemStoredAgrees DEF g

LEMMA PushMapValueAgrees ==
  ASSUME NEW V, NEW w, GoodFrom(V, 0), NoneDue(V), Agrees(V, w), PushMapValue
  PROVE  Agrees(V, w)'
  <1> DEFINE c == MapItem(Parent.obj, Parent.map_key, obj)
             ct == IF LastItem THEN CT_MAP_VALUE ELSE CT_MAP_KEY
             g == Frame(c, Parent.count - 1, ct, Parent.map_key)
  <1>1. pc = "push" /\ top > 0 /\ Parent.ct = CT_MAP_VALUE /\ ItemStored(c, ct)
    BY DEF PushMapValue
  <1>2. Open(Parent) /\ Due(stack, top) = DueIn(Parent)
    BY <1>1, ParentFacts
  <1>3. DueIn(Parent) = 2 * Parent.count - 1 /\ ~IsAV(Parent.obj) /\ Parent.count \in Nat \ {0}
    BY <1>1, <1>2, CTs DEF DueIn, Open
  <1>4. ASSUME NEW rest, IsSeq(rest)
        PROVE  Filled(Parent, <<obj>> \o rest) = Turns(c, rest, Len(rest) \div 2)
    <2>1. <<Parent.map_key>> \o (<<obj>> \o rest) = <<Parent.map_key, obj>> \o rest
      <3>1. PICK S : rest \in Seq(S)
        BY <1>4 DEF IsSeq
      <3> QED BY <3>1
    <2>2. Filled(Parent, <<obj>> \o rest) =
            Turns(Parent.obj, <<Parent.map_key, obj>> \o rest,
                  Len(<<Parent.map_key, obj>> \o rest) \div 2)
      BY <1>1, <2>1, CTs DEF Filled
    <2> QED BY <1>3, <1>4, <2>2, FirstPair
  <1>5. Filled(Parent, <<obj>>) = c
    <2>1. Filled(Parent, <<obj>> \o << >>) = Turns(c, << >>, Len(<< >>) \div 2)
      BY <1>4, NoValues
    <2>2. <<obj>> \o << >> = <<obj>> /\ Len(<< >>) \div 2 = 0
      OBVIOUS
    <2> QED BY <2>1, <2>2, NoTurns
  <1>6. ~IsAV(c)
    BY <1>3 DEF IsAV, MapItem
  <1>7. g.obj = c /\ g.ct = ct /\ g.count = Parent.count - 1
    BY DEF Frame
  <1> HIDE DEF c, g
  <1>8. ASSUME ~LastItem
        PROVE  /\ Open(g) /\ DueIn(g) = Due(stack, top) - 1
               /\ \A rest : IsSeq(rest) => Filled(Parent, <<obj>> \o rest) = Filled(g, rest)
    <2>1. g.ct = CT_MAP_KEY /\ g.ct # CT_ARRAY_ITEM /\ g.ct # CT_MAP_VALUE
      BY <1>7, <1>8, CTs
    <2>2. Parent.count - 1 \in Nat \ {0}
      BY <1>3, <1>8 DEF LastItem
    <2>3. Open(g)
      BY <1>6, <1>7, <2>1, <2>2 DEF Open
    <2>4. DueIn(g) = 2 * (Parent.count - 1)
      BY <1>7, <2>1 DEF DueIn
    <2>5. \A rest : Filled(g, rest) = Turns(c, rest, Len(rest) \div 2)
      BY <1>7, <2>1 DEF Filled
    <2> QED BY <1>2, <1>3, <1>4, <2>2, <2>3, <2>4, <2>5
  <1>9. LastItem => Due(stack, top) = 1
    BY <1>2, <1>3 DEF LastItem
  <1> HIDE DEF ct
  <1> QED BY <1>1, <1>5, <1>8, <1>9, ItemStoredAgrees DEF g

(* A key waits in the frame for its value.                                     *)
LEMMA PushMapKeyAgrees ==
  ASSUME NEW V, NEW w, GoodFrom(V, 0), NoneDue(V), Agrees(V, w), PushMapKey
  PROVE  Agrees(V, w)'
  <1> DEFINE g == Frame(Parent.obj, Parent.count, CT_MAP_VALUE, obj)
             n == Due(stack, top) - 1
  <1>1. /\ pc = "push" /\ top > 0 /\ Parent.ct = CT_MAP_KEY /\ HeaderAgain(p, top)
        /\ stack' = [stack EXCEPT ![top - 1] = g] /\ UNCHANGED <<data, utf8>>
    BY DEF PushMapKey, Parent
  <1>2. /\ data \in Seq(Byte) /\ V = Unpack(data, utf8) /\ DOMAIN stack = Slot
        /\ p \in Nat /\ p < Len(data) /\ Len(data) \in Nat
        /\ top \in Nat \ {0} /\ top <= StackSize
    BY <1>1, AtPush
  <1>3. PICK R : /\ Linked(V, w, stack, R, top)
                 /\ Same(R[top], Following(V, Returned(<<obj>>, p + 1, top), top, n))
    BY <1>1, AtPush
  <1>4. Open(Parent) /\ Due(stack, top) = DueIn(Parent)
    BY <1>1, ParentFacts
  <1>5. DueIn(Parent) = 2 * Parent.count /\ ~IsAV(Parent.obj) /\ Parent.count \in Nat \ {0}
    BY <1>1, <1>4, CTs DEF DueIn, Open
  <1>6. top - 1 \in Slot /\ top - 1 \in Nat
    BY <1>2, StackSizeAssumption DEF Slot
  <1>7. g.obj = Parent.obj /\ g.ct = CT_MAP_VALUE /\ g.count = Parent.count /\ g.map_key = obj
    BY DEF Frame
  <1> HIDE DEF g
  <1>8. /\ DOMAIN stack' = Slot /\ stack'[top - 1] = g /\ stack[top - 1] = Parent
        /\ \A i \in 0 .. top - 2 : stack'[i] = stack[i]
    BY <1>1, <1>2, <1>6 DEF Slot, Parent
  <1>9. Open(g) /\ DueIn(g) = n /\ n \in Nat
    BY <1>4, <1>5, <1>7, CTs DEF Open, DueIn, n
  <1>10. ASSUME NEW rest, IsSeq(rest)
         PROVE  Filled(Parent, <<obj>> \o rest) = Filled(g, rest)
    <2> DEFINE all == <<obj>> \o rest
    <2>2. Filled(g, rest) = Turns(Parent.obj, all, Len(all) \div 2)
      BY <1>7, CTs DEF Filled
    <2> HIDE DEF all
    <2>3. Filled(Parent, all) = Turns(Parent.obj, all, Len(all) \div 2)
      BY <1>1, CTs DEF Filled
    <2> QED BY <2>2, <2>3 DEF all
  <1> HIDE DEF n
  <1>11. p + 1 \in Nat /\ p + 1 <= Len(data) /\ top \in 0 .. StackSize
    BY <1>2
  <1>12. \A rest : IsSeq(rest) =>
           Filled(stack[top - 1], <<obj>> \o rest) = Filled(stack'[top - 1], rest)
    BY <1>8, <1>10
  <1>13. Open(stack'[top - 1])
    BY <1>8, <1>9
  <1>14. PICK R2 : Linked(V, w, stack', R2, top) /\ R2[top] = V[<<p + 1, top, n>>]
    BY <1>2, <1>3, <1>8, <1>9, <1>11, <1>12, <1>13, Stored
  <1>15. Due(stack', top) = n
    BY <1>2, <1>8, <1>9 DEF Due
  <1>16. Same(R2[top], V[<<p + 1, top, Due(stack', top)>>])
    BY <1>14, <1>15 DEF Same
  <1> QED BY <1>1, <1>2, <1>8, <1>11, <1>14, <1>16, HeaderAgainAgrees

-------------------------------------------------------------------------------
(* Every step of the parser keeps the invariant, and Enter establishes it.     *)
LEMMA ParseStepAgrees ==
  ASSUME NEW V, NEW w, Agrees(V, w), ParseStep
  PROVE  Agrees(V, w)'
  <1>0. GoodFrom(V, 0) /\ NoneDue(V)
    BY UnpackFacts DEF Agrees
  <1>1. ~TrailStale
    <2> SUFFICES ASSUME TrailStale
                 PROVE  FALSE
      OBVIOUS
    <2>1. pc = "trail" /\ trail = 0
      BY DEF TrailStale
    <2> QED BY <2>1, InTrail
  <1> QED
    BY <1>0, <1>1, HeaderScalarAgrees, HeaderEmptyStrAgrees, HeaderWithTrailAgrees,
       HeaderContainerAgrees, HeaderUnassignedAgrees, TrailShortAgrees, NumberAgrees,
       LengthAgrees, EmptyBodyAgrees, BodyAgrees, ExtCroakAgrees, ContainerAgrees,
       PushRootAgrees, PushArrayItemAgrees, PushMapKeyAgrees, PushMapValueAgrees
       DEF ParseStep

LEMMA EnterAgrees ==
  ASSUME NEW bytes \in Seq(Byte), NEW from \in Nat, from <= Len(bytes),
         cs = CS_HEADER, top = 0, DOMAIN stack = Slot, Enter(bytes, from),
         NEW V, V = Unpack(bytes, utf8), NEW w, w = V[<<from, 0, 1>>]
  PROVE  Agrees(V, w)'
  <1>1. /\ data' = bytes /\ p' = from /\ UNCHANGED <<top, stack, utf8>>
        /\ pc' = IF from = Len(bytes) THEN "out" ELSE "header"
    BY DEF Enter
  <1>2. GoodFrom(V, 0)
    BY UnpackFacts
  <1>3. Good(w, 0, 0)
    <2>1. <<from, 0, 1>> \in From(0)
      BY DEF From, Row
    <2>2. Good(w, from, 0)
      BY <1>2, <2>1 DEF GoodFrom
    <2> QED BY <2>2 DEF Good
  <1>4. CASE from = Len(bytes)
    <2>1. w = Died("insufficient", from, 0)
      BY <1>4, FirstCall
    <2>2. w.status = "insufficient" /\ Fits(w)
      BY <2>1, StackSizeAssumption DEF Died, Fits
    <2>3. pc' = "out"
      BY <1>1, <1>4
    <2>4. V = Unpack(data', utf8')
      BY <1>1
    <2> QED BY <1>1, <2>2, <2>3, <2>4 DEF Agrees, Parsing, Stops
  <1>5. CASE from # Len(bytes)
    <2> DEFINE R == [i \in {0} |-> w]
    <2>1. pc' = "header" /\ from < Len(bytes)
      BY <1>1, <1>5
    <2>2. R[0] = w /\ \A i \in 0 .. 0 : i = 0
      OBVIOUS
    <2>3. V = Unpack(data', utf8')
      BY <1>1
    <2> HIDE DEF R
    <2>5. Linked(V, w, stack, R, 0)
      BY <1>3, <2>2 DEF Linked, Same
    <2>6. Due(stack, 0) = 1
      BY DEF Due
    <2>7. Same(R[0], V[<<from, 0, Due(stack, 0)>>])
      BY <2>2, <2>6 DEF Same
    <2>8. top' = 0 /\ stack' = stack /\ data' = bytes /\ p' = from
      BY <1>1
    <2>9. Linked(V, w, stack', R, top') /\ Same(R[top'], V[<<p', top', Due(stack', top')>>])
      BY <2>5, <2>7, <2>8
    <2>10. Reads(V, w, R)'
      BY <2>1, <2>8, <2>9 DEF Reads
    <2> QED BY <2>1, <2>3, <2>8, <2>10, StackSizeAssumption DEF Agrees, Parsing, Stops
  <1> QED BY <1>4, <1>5

(* The invariant is about no other variable.                                   *)
LEMMA SameAgrees ==
  ASSUME NEW V, NEW w, Agrees(V, w), UNCHANGED <<data, p, top, pc, stack, utf8, cs, trail, obj>>
  PROVE  Agrees(V, w)'
  <1>1. \A v : Ahead(V, v) = Ahead(V, v)'
    BY DEF Ahead
  <1>2. \A r : AtTrail(V, r) => AtTrail(V, r)'
    BY <1>1 DEF AtTrail
  <1>3. \A R : Reads(V, w, R) => Reads(V, w, R)'
    BY <1>1, <1>2 DEF Reads
  <1>4. Stops(w)'
    BY DEF Agrees, Stops, TemplateData
  <1>5. Parsing' = Parsing
    BY DEF Parsing
  <1> QED BY <1>3, <1>4, <1>5 DEF Agrees
-------------------------------------------------------------------------------
(* Accounting for SVs.  A sum over the frames is a recursive function too.     *)
Sums(h, S, n) == \A i \in 0 .. n : h[i] = IF i = 0 THEN 0 ELSE h[i - 1] + FrameSvs(S[i - 1])

LEMMA SvsDefined ==
  ASSUME NEW S, NEW n \in Nat
  PROVE  \E h : Sums(h, S, n) /\ SvsIn(S, n) = h[n]
  <1> DEFINE T == {k \in Nat : \E h : Sums(h, S, k)}
  <1>1. 0 \in T
    <2>1. Sums([i \in {0} |-> 0], S, 0)
      BY DEF Sums
    <2> QED BY <2>1
  <1>2. ASSUME NEW k \in Nat, k \in T
        PROVE  k + 1 \in T
    <2>1. PICK h : Sums(h, S, k)
      BY <1>2
    <2> DEFINE g == [i \in 0 .. k + 1 |-> IF i <= k THEN h[i] ELSE h[k] + FrameSvs(S[k])]
    <2>2. ASSUME NEW i \in 0 .. k + 1
          PROVE  g[i] = IF i = 0 THEN 0 ELSE g[i - 1] + FrameSvs(S[i - 1])
      <3>1. CASE i = k + 1
        BY <3>1
      <3>2. CASE i <= k /\ i # 0
        <4>1. g[i] = h[i] /\ g[i - 1] = h[i - 1]
          BY <3>2
        <4>2. h[i] = h[i - 1] + FrameSvs(S[i - 1])
          BY <2>1, <3>2 DEF Sums
        <4> QED BY <3>2, <4>1, <4>2
      <3>3. CASE i = 0
        BY <2>1, <3>3 DEF Sums
      <3> QED BY <3>1, <3>2, <3>3
    <2>3. Sums(g, S, k + 1)
      BY <2>2 DEF Sums
    <2> HIDE DEF g
    <2> QED BY <2>3
  <1>3. n \in T
    <2> HIDE DEF T
    <2> QED BY <1>1, <1>2, Induction
  <1>4. PICK h : Sums(h, S, n)
    BY <1>3
  <1> DEFINE g == [i \in 0 .. n |-> h[i]]
             P(C) == C = [i \in 0 .. n |-> IF i = 0 THEN 0 ELSE C[i - 1] + FrameSvs(S[i - 1])]
             C == CHOOSE C : P(C)
  <1>5. P(g)
    <2>1. ASSUME NEW i \in 0 .. n
          PROVE  g[i] = IF i = 0 THEN 0 ELSE g[i - 1] + FrameSvs(S[i - 1])
      BY <1>4 DEF Sums
    <2> QED BY <2>1
  <1>6. P(C)
    <2> HIDE DEF P, g
    <2> QED BY <1>5
  <1>7. SvsIn(S, n) = C[n]
    BY DEF SvsIn
  <1> HIDE DEF C
  <1>8. Sums(C, S, n)
    BY <1>6 DEF Sums
  <1> QED BY <1>7, <1>8

LEMMA SumsAlike ==
  ASSUME NEW S, NEW S2, NEW m \in Nat, NEW n \in Nat, NEW h, NEW g, Sums(h, S, m), Sums(g, S2, n),
         NEW k \in Nat, k <= m, k <= n, \A i \in 0 .. k - 1 : FrameSvs(S[i]) = FrameSvs(S2[i])
  PROVE  h[k] = g[k]
  <1> DEFINE T == {i \in Nat : i <= k => h[i] = g[i]}
  <1>1. 0 \in T
    BY DEF Sums
  <1>2. ASSUME NEW i \in Nat, i \in T
        PROVE  i + 1 \in T
    <2> SUFFICES ASSUME i + 1 <= k
                 PROVE  h[i + 1] = g[i + 1]
      OBVIOUS
    <2>1. h[i] = g[i] /\ i \in 0 .. k - 1
      BY <1>2
    <2>2. h[i + 1] = h[i] + FrameSvs(S[i])
      <3>1. i + 1 \in 0 .. m /\ (i + 1) - 1 = i /\ i + 1 # 0
        OBVIOUS
      <3> QED BY <3>1 DEF Sums
    <2>3. g[i + 1] = g[i] + FrameSvs(S2[i])
      <3>1. i + 1 \in 0 .. n /\ (i + 1) - 1 = i /\ i + 1 # 0
        OBVIOUS
      <3> QED BY <3>1 DEF Sums
    <2> QED BY <2>1, <2>2, <2>3
  <1>3. k \in T
    <2> HIDE DEF T
    <2> QED BY <1>1, <1>2, Induction
  <1> QED BY <1>3

LEMMA NoSvs ==
  ASSUME NEW S
  PROVE  SvsIn(S, 0) = 0
  BY SvsDefined DEF Sums

LEMMA SameSvs ==
  ASSUME NEW S, NEW S2, NEW n \in Nat, \A i \in 0 .. n - 1 : FrameSvs(S[i]) = FrameSvs(S2[i])
  PROVE  SvsIn(S, n) = SvsIn(S2, n)
  <1>1. PICK h : Sums(h, S, n) /\ SvsIn(S, n) = h[n]
    BY SvsDefined
  <1>2. PICK g : Sums(g, S2, n) /\ SvsIn(S2, n) = g[n]
    BY SvsDefined
  <1>3. n <= n
    OBVIOUS
  <1>4. h[n] = g[n]
    BY <1>1, <1>2, <1>3, SumsAlike
  <1> QED BY <1>1, <1>2, <1>4

LEMMA NextSvs ==
  ASSUME NEW S, NEW n \in Nat
  PROVE  SvsIn(S, n + 1) = SvsIn(S, n) + FrameSvs(S[n])
  <1>1. PICK h : Sums(h, S, n + 1) /\ SvsIn(S, n + 1) = h[n + 1]
    BY SvsDefined
  <1>2. PICK g : Sums(g, S, n) /\ SvsIn(S, n) = g[n]
    BY SvsDefined
  <1>3. n <= n + 1 /\ n <= n /\ n + 1 \in Nat
    OBVIOUS
  <1>4. h[n] = g[n]
    BY <1>1, <1>2, <1>3, SumsAlike
  <1>5. h[n + 1] = h[n] + FrameSvs(S[n])
    <2>1. n + 1 \in 0 .. n + 1 /\ (n + 1) - 1 = n /\ n + 1 # 0
      OBVIOUS
    <2> QED BY <1>1, <2>1 DEF Sums
  <1> QED BY <1>1, <1>2, <1>4, <1>5

(* The frames own at least what the lowest of them does.                       *)
LEMMA SvsType ==
  ASSUME NEW S, NEW n \in Nat, \A i \in 0 .. n - 1 : FrameSvs(S[i]) \in Nat
  PROVE  SvsIn(S, n) \in Nat /\ (n > 0 => SvsIn(S, n) >= FrameSvs(S[0]))
  <1> DEFINE T == {k \in Nat : k <= n => SvsIn(S, k) \in Nat
                                       /\ (k > 0 => SvsIn(S, k) >= FrameSvs(S[0]))}
  <1>1. 0 \in T
    BY NoSvs
  <1>2. ASSUME NEW k \in Nat, k \in T
        PROVE  k + 1 \in T
    <2>1. SvsIn(S, k + 1) = SvsIn(S, k) + FrameSvs(S[k])
      BY NextSvs
    <2>2. k = 0 => SvsIn(S, k) = 0
      BY NoSvs
    <2>3. k + 1 <= n => k \in 0 .. n - 1
      OBVIOUS
    <2> QED BY <1>2, <2>1, <2>2, <2>3
  <1>3. n \in T
    <2> HIDE DEF T
    <2> QED BY <1>1, <1>2, Induction
  <1> QED BY <1>3

-------------------------------------------------------------------------------
(* Each open frame counts what its container and its pending key own.          *)
SvFrame(f) ==
  /\ f.ct \in {CT_ARRAY_ITEM, CT_MAP_KEY, CT_MAP_VALUE}
  /\ f.ct = CT_ARRAY_ITEM => CountedArray(f.obj)
  /\ f.ct # CT_ARRAY_ITEM => CountedHash(f.obj)
  /\ f.ct = CT_MAP_VALUE => f.map_key.svs \in Nat

SvInv ==
  /\ DOMAIN stack = Slot /\ top \in 0 .. StackSize /\ live \in Int
  /\ \A i \in Slot : stack[i].obj.svs \in Nat
  /\ \A i \in Slot : i < top => SvFrame(stack[i])
  /\ pc = "push" => obj.svs \in Nat
  /\ pc # "push" => obj = NULL

(* What the root frame holds while no container is open and no value pushed.   *)
Root == IF top = 0 /\ pc # "push" THEN stack[0].obj.svs ELSE 0

RootEmpty == pc \in {"header", "trail"} /\ top = 0 => stack[0].obj.svs = 0

(* A step changes live by what it changes Held by, or it forgets the root.     *)
SvsKept == SvInv' /\ live' - Held' \in {live - Held, live - Held + Root}

LEMMA HeldParts ==
  /\ Held = obj.svs + SvsIn(stack, top) + Root
  /\ Held' = obj'.svs + SvsIn(stack', top') + Root'
  BY DEF Held, Root

LEMMA NullSvs == NULL.svs = 0
  BY Zenon DEF NULL

LEMMA Slots == StackSize \in Nat \ {0} /\ 0 \in Slot /\ \A i : i \in Slot <=> i \in Nat /\ i < StackSize
  BY StackSizeAssumption DEF Slot

LEMMA FrameFields ==
  ASSUME NEW o, NEW n, NEW ct, NEW k
  PROVE  /\ Frame(o, n, ct, k).obj = o /\ Frame(o, n, ct, k).ct = ct
         /\ Frame(o, n, ct, k).map_key = k /\ Frame(o, n, ct, k).count = n
  BY DEF Frame

LEMMA SvFrameSvs ==
  ASSUME NEW f, SvFrame(f)
  PROVE  /\ f.obj.svs \in Nat /\ FrameSvs(f) \in Nat /\ FrameSvs(f) >= f.obj.svs
         /\ f.ct # CT_MAP_VALUE => FrameSvs(f) = f.obj.svs
  <1>1. f.obj.svs \in Nat
    BY DEF SvFrame, CountedArray, CountedHash
  <1>2. CASE f.ct = CT_MAP_VALUE
    <2>1. FrameSvs(f) = f.obj.svs + f.map_key.svs
      BY <1>2 DEF FrameSvs
    <2>2. f.map_key.svs \in Nat
      BY <1>2 DEF SvFrame
    <2> QED BY <1>1, <1>2, <2>1, <2>2
  <1>3. CASE f.ct # CT_MAP_VALUE
    <2>1. FrameSvs(f) = f.obj.svs + 0
      BY <1>3 DEF FrameSvs
    <2> QED BY <1>1, <2>1
  <1> QED BY <1>2, <1>3

LEMMA SvInvSums ==
  ASSUME SvInv
  PROVE  /\ top \in Nat /\ SvsIn(stack, top) \in Nat
         /\ top > 0 => SvsIn(stack, top) >= stack[0].obj.svs
         /\ obj.svs \in Nat /\ Root \in Nat /\ Held \in Nat
  <1>1. top \in Nat /\ \A i \in 0 .. top - 1 : i \in Slot /\ i < top
    BY Slots DEF SvInv
  <1>2. \A i \in 0 .. top - 1 : SvFrame(stack[i])
    BY <1>1 DEF SvInv
  <1>3. \A i \in 0 .. top - 1 : FrameSvs(stack[i]) \in Nat /\ FrameSvs(stack[i]) >= stack[i].obj.svs
    BY <1>2, SvFrameSvs
  <1>4. SvsIn(stack, top) \in Nat /\ (top > 0 => SvsIn(stack, top) >= FrameSvs(stack[0]))
    BY <1>1, <1>3, SvsType
  <1>5. top > 0 => FrameSvs(stack[0]) \in Nat /\ FrameSvs(stack[0]) >= stack[0].obj.svs
    <2>1. top > 0 => 0 \in 0 .. top - 1
      BY <1>1
    <2> QED BY <1>3, <2>1
  <1>6. stack[0].obj.svs \in Nat
    BY Slots DEF SvInv
  <1>7. obj.svs \in Nat
    BY NullSvs DEF SvInv
  <1>8. Root \in Nat
    BY <1>6 DEF Root
  <1>9. Held \in Nat
    BY <1>4, <1>7, <1>8, HeldParts
  <1> QED BY <1>1, <1>4, <1>5, <1>6, <1>7, <1>8, <1>9

(* Steps that leave every value where it is.                                   *)
LEMMA QuietKept ==
  ASSUME SvInv, pc # "push", pc' # "push", UNCHANGED <<top, obj, stack, live>>
  PROVE  SvsKept
  <1>1. SvInv'
    BY DEF SvInv, SvFrame
  <1>2. Root' = Root
    BY DEF Root
  <1>3. SvsIn(stack', top') = SvsIn(stack, top)
    OBVIOUS
  <1>4. Held' = Held
    BY <1>2, <1>3, HeldParts
  <1> QED BY <1>1, <1>4 DEF SvsKept

(* Steps that push a new value.                                                *)
LEMMA NewValueKept ==
  ASSUME SvInv, pc # "push", pc' = "push", UNCHANGED top, DOMAIN stack' = Slot,
         obj'.svs = 1, live' = live + 1, \A i \in Slot : i < top => stack'[i] = stack[i],
         \A i \in Slot : stack'[i].obj.svs \in Nat
  PROVE  SvsKept
  <1>1. SvInv'
    BY DEF SvInv, SvFrame
  <1>2. Root' = 0 /\ obj.svs = 0 /\ live \in Int
    BY NullSvs DEF Root, SvInv
  <1>3. top \in Nat /\ SvsIn(stack, top) \in Nat /\ Root \in Nat
    BY SvInvSums
  <1>4. \A i \in 0 .. top - 1 : i \in Slot /\ i < top
    BY Slots DEF SvInv
  <1>5. SvsIn(stack', top) = SvsIn(stack, top)
    <2>1. \A i \in 0 .. top - 1 : FrameSvs(stack'[i]) = FrameSvs(stack[i])
      BY <1>4
    <2> QED BY <1>3, <2>1, SameSvs
  <1>6. Held' = 1 + SvsIn(stack, top)
    <2>1. Held' = obj'.svs + SvsIn(stack', top) + 0
      BY <1>2, HeldParts
    <2> QED BY <1>3, <1>5, <2>1
  <1>7. Held = SvsIn(stack, top) + Root
    BY <1>2, <1>3, HeldParts
  <1>8. live' - Held' = live - Held + Root
    BY <1>2, <1>3, <1>6, <1>7
  <1> QED BY <1>1, <1>8 DEF SvsKept

LEMMA ScalarKept ==
  ASSUME SvInv, pc # "push", NEW v, NEW q, Push(v, q), v.svs = 1, UNCHANGED <<top, stack>>
  PROVE  SvsKept
  <1>1. pc' = "push" /\ obj' = v /\ live' = live + 1
    BY DEF Push
  <1>2. DOMAIN stack' = Slot /\ \A i \in Slot : stack'[i].obj.svs \in Nat
    BY DEF SvInv
  <1> QED BY <1>1, <1>2, NewValueKept

LEMMA StartContainerKept ==
  ASSUME SvInv, pc # "push", NEW c, NEW n, NEW ct, NEW q, StartContainer(c, n, ct, q),
         c.svs = 1, ct \in {CT_ARRAY_ITEM, CT_MAP_KEY},
         ct = CT_ARRAY_ITEM => CountedArray(c), ct = CT_MAP_KEY => CountedHash(c)
  PROVE  SvsKept
  <1>1. CASE StackFull
    <2>1. Stop("failed", q) /\ UNCHANGED <<obj, stack, live>>
      BY <1>1 DEF StartContainer
    <2> QED BY <2>1, QuietKept DEF Stop
  <1>2. ~StackFull => top \in Slot /\ top \in Nat
    BY Slots DEF StackFull, SvInv
  <1>3. CASE ~StackFull /\ n = 0
    <2> DEFINE f == Frame(c, stack[top].count, stack[top].ct, stack[top].map_key)
    <2>1. stack' = [stack EXCEPT ![top] = f] /\ Push(c, q) /\ UNCHANGED top
      BY <1>3 DEF StartContainer
    <2>2. f.obj = c
      BY FrameFields
    <2> HIDE DEF f
    <2>3. DOMAIN stack' = Slot /\ \A i \in Slot : stack'[i] = IF i = top THEN f ELSE stack[i]
      BY <2>1 DEF SvInv
    <2>4. \A i \in Slot : stack'[i].obj.svs \in Nat
      BY <2>2, <2>3 DEF SvInv
    <2>5. \A i \in Slot : i < top => stack'[i] = stack[i]
      BY <1>2, <1>3, <2>3
    <2> QED BY <2>1, <2>3, <2>4, <2>5, NewValueKept DEF Push
  <1>4. CASE ~StackFull /\ ~(n = 0)
    <2> DEFINE f == Frame(c, n, ct, stack[top].map_key)
    <2>1. /\ stack' = [stack EXCEPT ![top] = f] /\ live' = live + 1
          /\ HeaderAgain(q, top + 1) /\ UNCHANGED obj
      BY <1>1, <1>4 DEF StartContainer
    <2>2. f.obj = c /\ f.ct = ct
      BY FrameFields
    <2> HIDE DEF f
    <2>3. DOMAIN stack' = Slot /\ \A i \in Slot : stack'[i] = IF i = top THEN f ELSE stack[i]
      BY <2>1 DEF SvInv
    <2>4. top' = top + 1 /\ pc' # "push"
      BY <2>1 DEF HeaderAgain
    <2>5. SvFrame(f)
      BY <2>2, CTs DEF SvFrame
    <2>6. FrameSvs(f) = 1
      BY <2>2, <2>5, CTs, SvFrameSvs
    <2>7. top + 1 \in 0 .. StackSize /\ top \in Nat /\ live \in Int
      BY <1>2, <1>4, Slots DEF SvInv
    <2>8. \A i \in Slot : i < top + 1 => i = top \/ i < top
      BY <2>7, Slots
    <2>9. SvInv'
      <3>1. \A i \in Slot : stack'[i].obj.svs \in Nat
        BY <2>2, <2>3 DEF SvInv
      <3>2. \A i \in Slot : i < top + 1 => SvFrame(stack'[i])
        BY <2>3, <2>5, <2>8 DEF SvInv
      <3>3. live' \in Int
        BY <2>1, <2>7
      <3>4. obj' = NULL
        BY <2>1 DEF SvInv
      <3> QED BY <2>3, <2>4, <2>7, <3>1, <3>2, <3>3, <3>4 DEF SvInv, SvFrame
    <2>10. SvsIn(stack', top) = SvsIn(stack, top)
      <3>1. \A i \in 0 .. top - 1 : i \in Slot /\ i # top
        BY <2>7, Slots
      <3>2. \A i \in 0 .. top - 1 : FrameSvs(stack'[i]) = FrameSvs(stack[i])
        BY <2>3, <3>1
      <3> QED BY <2>7, <3>2, SameSvs
    <2>11. SvsIn(stack', top + 1) = SvsIn(stack, top) + 1
      <3>1. stack'[top] = f
        BY <1>2, <1>4, <2>3
      <3> QED BY <2>6, <2>7, <2>10, <3>1, NextSvs
    <2>12. obj.svs = 0 /\ obj'.svs = 0
      BY <2>1, NullSvs DEF SvInv
    <2>13. Root' = 0
      BY <2>4, <2>7 DEF Root
    <2>14. SvsIn(stack, top) \in Nat /\ Root \in Nat
      BY SvInvSums
    <2>15. Held' = SvsIn(stack, top) + 1
      <3>1. Held' = obj'.svs + SvsIn(stack', top + 1) + 0
        BY <2>4, <2>13, HeldParts
      <3> QED BY <2>11, <2>12, <2>14, <3>1
    <2>16. Held = SvsIn(stack, top) + Root
      BY <2>12, <2>14, HeldParts
    <2>17. live' - Held' = live - Held + Root
      BY <2>1, <2>7, <2>14, <2>15, <2>16
    <2> QED BY <2>9, <2>17 DEF SvsKept
  <1> QED BY <1>1, <1>3, <1>4

LEMMA PushRootKept ==
  ASSUME SvInv, PushRoot
  PROVE  SvsKept
  <1> DEFINE f == Frame(obj, stack[0].count, stack[0].ct, stack[0].map_key)
  <1>1. /\ pc = "push" /\ top = 0 /\ pc' = "finish" /\ obj' = NULL
        /\ stack' = [stack EXCEPT ![0] = f] /\ UNCHANGED <<top, live>>
    BY DEF PushRoot, Stop
  <1>2. f.obj = obj
    BY FrameFields
  <1> HIDE DEF f
  <1>3. DOMAIN stack' = Slot /\ \A i \in Slot : stack'[i] = IF i = 0 THEN f ELSE stack[i]
    BY <1>1 DEF SvInv
  <1>4. obj.svs \in Nat /\ live \in Int
    BY <1>1 DEF SvInv
  <1>5. SvInv'
    <2>1. \A i \in Slot : stack'[i].obj.svs \in Nat
      BY <1>2, <1>3, <1>4 DEF SvInv
    <2>2. \A i \in Slot : ~(i < top')
      BY <1>1, Slots
    <2> QED BY <1>1, <1>3, <2>1, <2>2 DEF SvInv
  <1>6. Root' = obj.svs /\ Root = 0
    BY <1>1, <1>2, <1>3, Slots DEF Root
  <1>7. SvsIn(stack, 0) = 0 /\ SvsIn(stack', 0) = 0
    BY NoSvs
  <1>8. Held = obj.svs + 0 + 0
    BY <1>1, <1>6, <1>7, HeldParts
  <1>9. Held' = 0 + 0 + obj.svs
    BY <1>1, <1>6, <1>7, HeldParts, NullSvs
  <1> QED BY <1>1, <1>4, <1>5, <1>8, <1>9 DEF SvsKept

(* The SVs in use when a value is pushed into a frame.                         *)
LEMMA HeldAtPush ==
  ASSUME SvInv, pc = "push", top > 0
  PROVE  /\ top - 1 \in Slot /\ top - 1 \in Nat /\ SvFrame(Parent) /\ live \in Int
         /\ SvsIn(stack, top - 1) \in Nat /\ obj.svs \in Nat
         /\ Held = obj.svs + SvsIn(stack, top - 1) + FrameSvs(Parent) /\ Root = 0
  <1>1. top - 1 \in Slot /\ top - 1 \in Nat /\ top - 1 < top /\ (top - 1) + 1 = top
    BY Slots DEF SvInv
  <1>2. SvFrame(Parent)
    BY <1>1 DEF SvInv, Parent
  <1>3. FrameSvs(Parent) \in Nat
    BY <1>2, SvFrameSvs
  <1>4. SvsIn(stack, top) = SvsIn(stack, top - 1) + FrameSvs(Parent)
    BY <1>1, NextSvs DEF Parent
  <1>5. SvsIn(stack, top - 1) \in Nat
    <2>1. \A i \in 0 .. (top - 1) - 1 : i \in Slot /\ i < top
      BY <1>1, Slots
    <2>2. \A i \in 0 .. (top - 1) - 1 : SvFrame(stack[i])
      BY <2>1 DEF SvInv
    <2>3. \A i \in 0 .. (top - 1) - 1 : FrameSvs(stack[i]) \in Nat
      BY <2>2, SvFrameSvs
    <2> QED BY <1>1, <2>3, SvsType
  <1>6. obj.svs \in Nat /\ live \in Int
    BY DEF SvInv
  <1>7. Root = 0
    BY DEF Root
  <1>8. Held = obj.svs + SvsIn(stack, top) + Root
    BY HeldParts
  <1>9. Held = obj.svs + SvsIn(stack, top - 1) + FrameSvs(Parent)
    BY <1>3, <1>4, <1>5, <1>6, <1>7, <1>8
  <1> QED BY <1>1, <1>2, <1>5, <1>6, <1>7, <1>9

(* What is in use after the parent frame became f, and stays open or is popped.*)
LEMMA HeldAfterPush ==
  ASSUME SvInv, pc = "push", top > 0, NEW f, stack' = [stack EXCEPT ![top - 1] = f],
         f.obj.svs \in Nat, live' \in Int,
         \/ top' = top /\ pc' # "push" /\ obj' = NULL /\ SvFrame(f)
         \/ top' = top - 1 /\ pc' = "push" /\ obj' = f.obj
  PROVE  /\ SvInv'
         /\ top' = top => Held' = SvsIn(stack, top - 1) + FrameSvs(f)
         /\ top' # top => Held' = SvsIn(stack, top - 1) + f.obj.svs
  <1>1. top - 1 \in Slot /\ top - 1 \in Nat /\ top - 1 < top /\ (top - 1) + 1 = top
        /\ top \in 0 .. StackSize /\ top \in Nat /\ top - 1 \in 0 .. StackSize
    BY Slots DEF SvInv
  <1>2. DOMAIN stack' = Slot /\ \A i \in Slot : stack'[i] = IF i = top - 1 THEN f ELSE stack[i]
    BY DEF SvInv
  <1>3. SvsIn(stack', top - 1) = SvsIn(stack, top - 1) /\ SvsIn(stack, top - 1) \in Nat
    <2> DEFINE m == top - 1
    <2>1. m \in Nat /\ \A i \in 0 .. m - 1 : i \in Slot /\ i # m
      BY <1>1, Slots
    <2>2. \A i \in 0 .. m - 1 : FrameSvs(stack'[i]) = FrameSvs(stack[i])
      BY <1>2, <2>1
    <2>3. SvsIn(stack, m) \in Nat
      BY HeldAtPush
    <2> HIDE DEF m
    <2>4. SvsIn(stack', m) = SvsIn(stack, m)
      BY <2>1, <2>2, SameSvs
    <2> QED BY <2>3, <2>4 DEF m
  <1>4. \A i \in Slot : stack'[i].obj.svs \in Nat
    BY <1>2 DEF SvInv
  <1>5. \A i \in Slot : i < top => i = top - 1 \/ i < top - 1
    BY <1>1, Slots
  <1>6. CASE top' = top /\ pc' # "push" /\ obj' = NULL /\ SvFrame(f)
    <2>1. \A i \in Slot : i < top => SvFrame(stack'[i])
      BY <1>2, <1>6 DEF SvInv
    <2>2. SvInv'
      BY <1>1, <1>2, <1>4, <1>6, <2>1 DEF SvInv
    <2>3. stack'[top - 1] = f
      BY <1>1, <1>2
    <2>4. SvsIn(stack', top) = SvsIn(stack, top - 1) + FrameSvs(f)
      BY <1>1, <1>3, <2>3, NextSvs
    <2>5. Root' = 0
      BY <1>1, <1>6 DEF Root
    <2>6. Held' = 0 + SvsIn(stack', top) + 0
      BY <1>6, <2>5, HeldParts, NullSvs
    <2>7. FrameSvs(f) \in Nat
      BY <1>6, SvFrameSvs
    <2>8. Held' = SvsIn(stack, top - 1) + FrameSvs(f)
      BY <1>3, <2>4, <2>6, <2>7
    <2> QED BY <1>6, <2>2, <2>8
  <1>7. CASE top' = top - 1 /\ pc' = "push" /\ obj' = f.obj
    <2>1. \A i \in Slot : i < top - 1 => i < top /\ i # top - 1
      BY <1>1, Slots
    <2>2. \A i \in Slot : i < top - 1 => SvFrame(stack'[i])
      BY <1>2, <2>1 DEF SvInv
    <2>3. SvInv'
      BY <1>1, <1>2, <1>4, <1>7, <2>2 DEF SvInv
    <2>4. Root' = 0
      BY <1>7 DEF Root
    <2>5. Held' = f.obj.svs + SvsIn(stack', top - 1) + 0
      BY <1>7, <2>4, HeldParts
    <2>6. Held' = SvsIn(stack, top - 1) + f.obj.svs
      BY <1>3, <2>5
    <2> QED BY <1>1, <1>7, <2>3, <2>6
  <1> QED BY <1>6, <1>7

LEMMA ItemStoredHeld ==
  ASSUME SvInv, pc = "push", top > 0, NEW c, NEW ct, ItemStored(c, ct), c.svs \in Nat, live' \in Int,
         ct = CT_ARRAY_ITEM => CountedArray(c), ct = CT_MAP_KEY => CountedHash(c),
         ct \in {CT_ARRAY_ITEM, CT_MAP_KEY} \/ LastItem
  PROVE  SvInv' /\ Held' = SvsIn(stack, top - 1) + c.svs
  <1> DEFINE f == Frame(c, Parent.count - 1, ct, Parent.map_key)
  <1>1. stack' = [stack EXCEPT ![top - 1] = f]
    BY DEF ItemStored, Parent
  <1>2. f.obj = c /\ f.ct = ct
    BY FrameFields
  <1> HIDE DEF f
  <1>3. top \in Nat
    BY Slots DEF SvInv
  <1>4. CASE LastItem
    <2>1. obj' = c /\ top' = top - 1 /\ pc' = pc
      BY <1>4 DEF ItemStored
    <2>2. top' # top
      BY <1>3, <2>1
    <2> QED BY <1>1, <1>2, <2>1, <2>2, HeldAfterPush
  <1>5. CASE ~LastItem
    <2>1. obj' = NULL /\ top' = top /\ pc' # "push"
      BY <1>5 DEF ItemStored, HeaderAgain
    <2>2. SvFrame(f)
      BY <1>2, <1>5, CTs DEF SvFrame
    <2>3. FrameSvs(f) = c.svs
      BY <1>2, <1>5, <2>2, CTs, SvFrameSvs
    <2> QED BY <1>1, <1>2, <2>1, <2>2, <2>3, HeldAfterPush
  <1> QED BY <1>4, <1>5

LEMMA PushArrayItemKept ==
  ASSUME SvInv, PushArrayItem
  PROVE  SvsKept
  <1> DEFINE c == ArrayItem(Parent.obj, obj)
  <1>1. /\ pc = "push" /\ top > 0 /\ Parent.ct = CT_ARRAY_ITEM /\ UNCHANGED live
        /\ ItemStored(c, CT_ARRAY_ITEM)
    BY DEF PushArrayItem
  <1>2. /\ SvFrame(Parent) /\ live \in Int /\ SvsIn(stack, top - 1) \in Nat /\ obj.svs \in Nat
        /\ Held = obj.svs + SvsIn(stack, top - 1) + FrameSvs(Parent)
    BY <1>1, HeldAtPush
  <1>3. CountedArray(Parent.obj) /\ FrameSvs(Parent) = Parent.obj.svs /\ Parent.obj.svs \in Nat
    BY <1>1, <1>2, CTs, SvFrameSvs DEF SvFrame
  <1>4. CountedArray(c) /\ c.svs = Parent.obj.svs + obj.svs
    BY <1>2, <1>3, ArrayItemCounted
  <1> HIDE DEF c
  <1>5. SvInv' /\ Held' = SvsIn(stack, top - 1) + c.svs
    BY <1>1, <1>2, <1>3, <1>4, CTs, ItemStoredHeld
  <1>6. live' - Held' = live - Held
    BY <1>1, <1>2, <1>3, <1>4, <1>5
  <1> QED BY <1>5, <1>6 DEF SvsKept

LEMMA PushMapKeyKept ==
  ASSUME SvInv, PushMapKey
  PROVE  SvsKept
  <1> DEFINE f == Frame(Parent.obj, Parent.count, CT_MAP_VALUE, obj)
  <1>1. /\ pc = "push" /\ top > 0 /\ Parent.ct = CT_MAP_KEY /\ UNCHANGED <<live, top>>
        /\ stack' = [stack EXCEPT ![top - 1] = f] /\ obj' = NULL /\ pc' # "push"
    BY DEF PushMapKey, HeaderAgain, Parent
  <1>2. f.obj = Parent.obj /\ f.ct = CT_MAP_VALUE /\ f.map_key = obj
    BY FrameFields
  <1> HIDE DEF f
  <1>3. /\ SvFrame(Parent) /\ live \in Int /\ SvsIn(stack, top - 1) \in Nat /\ obj.svs \in Nat
        /\ Held = obj.svs + SvsIn(stack, top - 1) + FrameSvs(Parent)
    BY <1>1, HeldAtPush
  <1>4. CountedHash(Parent.obj) /\ FrameSvs(Parent) = Parent.obj.svs /\ Parent.obj.svs \in Nat
    BY <1>1, <1>3, CTs, SvFrameSvs DEF SvFrame
  <1>5. SvFrame(f)
    BY <1>2, <1>3, <1>4, CTs DEF SvFrame
  <1>6. FrameSvs(f) = Parent.obj.svs + obj.svs
    BY <1>2 DEF FrameSvs
  <1>7. SvInv' /\ Held' = SvsIn(stack, top - 1) + FrameSvs(f)
    BY <1>1, <1>2, <1>3, <1>4, <1>5, HeldAfterPush
  <1>8. live' - Held' = live - Held
    BY <1>1, <1>3, <1>4, <1>6, <1>7
  <1> QED BY <1>7, <1>8 DEF SvsKept

LEMMA PushMapValueKept ==
  ASSUME SvInv, PushMapValue
  PROVE  SvsKept
  <1> DEFINE k == Parent.map_key
             c == MapItem(Parent.obj, k, obj)
             ct == IF LastItem THEN CT_MAP_VALUE ELSE CT_MAP_KEY
  <1>1. /\ pc = "push" /\ top > 0 /\ Parent.ct = CT_MAP_VALUE
        /\ live' = live - Released(Parent.obj, k) /\ ItemStored(c, ct)
    BY DEF PushMapValue
  <1>2. /\ SvFrame(Parent) /\ live \in Int /\ SvsIn(stack, top - 1) \in Nat /\ obj.svs \in Nat
        /\ Held = obj.svs + SvsIn(stack, top - 1) + FrameSvs(Parent)
    BY <1>1, HeldAtPush
  <1>3. CountedHash(Parent.obj) /\ k.svs \in Nat /\ Parent.obj.svs \in Nat
    BY <1>1, <1>2, CTs, SvFrameSvs DEF SvFrame
  <1>4. FrameSvs(Parent) = Parent.obj.svs + k.svs
    BY <1>1 DEF FrameSvs
  <1>5. /\ CountedHash(c) /\ Replaced(Parent.obj, k) \in Nat
        /\ c.svs = Parent.obj.svs + obj.svs - Replaced(Parent.obj, k)
    BY <1>2, <1>3, MapItemCounted
  <1>6. Released(Parent.obj, k) = Replaced(Parent.obj, k) + k.svs
    BY DEF Released
  <1>7. c.svs \in Nat
    BY <1>5 DEF CountedHash
  <1>8. /\ ct = CT_ARRAY_ITEM => CountedArray(c)
        /\ ct = CT_MAP_KEY => CountedHash(c)
        /\ ct \in {CT_ARRAY_ITEM, CT_MAP_KEY} \/ LastItem
    BY <1>5, CTs
  <1> HIDE DEF c, k, ct
  <1>9. live' \in Int
    BY <1>1, <1>2, <1>3, <1>5, <1>6
  <1>10. SvInv' /\ Held' = SvsIn(stack, top - 1) + c.svs
    BY <1>1, <1>7, <1>8, <1>9, ItemStoredHeld
  <1>11. live' - Held' = live - Held
    BY <1>1, <1>2, <1>3, <1>4, <1>5, <1>6, <1>10
  <1> QED BY <1>10, <1>11 DEF SvsKept

(* The values the callbacks make own themselves only.                          *)
LEMMA NewValues ==
  ASSUME NEW n
  PROVE  /\ \A b : FixInt(b) \/ Direct(b) => HeaderValue(b).svs = 1
         /\ cs \in CS_FLOAT \cup CS_UINT \cup CS_INT => NumberValue(n).svs = 1
         /\ \A acs : BodyValue(acs, n).svs = 1
         /\ Str(n, TRUE).svs = 1 /\ EmptyArray.svs = 1 /\ EmptyHash.svs = 1
  <1>1. \A i : IntValue(i).svs = 1 /\ Bool(i).svs = 1 /\ Float(i).svs = 1
    BY DEF IntValue, Bool, Float
  <1>2. \A t : Str(n, t).svs = 1
    BY DEF Str
  <1>3. Undef.svs = 1
    BY Zenon DEF Undef
  <1>4. \A b : FixInt(b) \/ Direct(b) => b < 128 \/ b > 223 \/ b = 192 \/ b = 194 \/ b = 195
    BY DEF FixInt, Direct
  <1>5. \A b : FixInt(b) \/ Direct(b) => HeaderValue(b).svs = 1
    BY <1>1, <1>3, <1>4 DEF HeaderValue
  <1>6. cs \in CS_FLOAT \cup CS_UINT \cup CS_INT => NumberValue(n).svs = 1
    BY <1>1 DEF NumberValue
  <1>7. EmptyArray.svs = 1 /\ EmptyHash.svs = 1
    BY DEF EmptyArray, EmptyHash
  <1> QED BY <1>2, <1>5, <1>6, <1>7 DEF BodyValue

(* Every step of the parser but the EXT croak accounts for its SVs.            *)
LEMMA ParseStepKept ==
  ASSUME SvInv, ParseStep, ~ExtCroak
  PROVE  SvsKept
  <1>1. CASE HeaderScalar
    BY <1>1, NewValues, ScalarKept DEF HeaderScalar
  <1>2. CASE HeaderEmptyStr
    BY <1>2, NewValues, ScalarKept DEF HeaderEmptyStr
  <1>3. CASE HeaderWithTrail \/ HeaderUnassigned
    <2>1. pc # "push" /\ pc' # "push" /\ UNCHANGED <<top, obj, stack, live>>
      BY <1>3 DEF HeaderWithTrail, HeaderUnassigned, Stop
    <2> QED BY <2>1, QuietKept
  <1>4. CASE HeaderContainer
    <2>1. pc # "push"
      BY <1>4 DEF HeaderContainer
    <2>2. CASE StartContainer(EmptyArray, Current % 16, CT_ARRAY_ITEM, p)
      BY <2>1, <2>2, NewValues, EmptyCounted, CTs, StartContainerKept
    <2>3. CASE StartContainer(EmptyHash, Current % 16, CT_MAP_KEY, p)
      BY <2>1, <2>3, NewValues, EmptyCounted, CTs, StartContainerKept
    <2> QED BY <1>4, <2>2, <2>3 DEF HeaderContainer
  <1>5. CASE TrailShort \/ TrailStale \/ Length
    <2>1. pc # "push" /\ pc' # "push" /\ UNCHANGED <<top, obj, stack, live>>
      BY <1>5 DEF TrailShort, TrailStale, Length, TrailReady, Stop
    <2> QED BY <2>1, QuietKept
  <1>6. CASE Number
    BY <1>6, NewValues, ScalarKept DEF Number, TrailReady
  <1>7. CASE EmptyBody
    BY <1>7, NewValues, ScalarKept DEF EmptyBody, TrailReady
  <1>8. CASE Body
    BY <1>8, NewValues, ScalarKept DEF Body, TrailReady
  <1>9. CASE Container
    <2>1. pc # "push"
      BY <1>9 DEF Container, TrailReady
    <2>2. CASE StartContainer(EmptyArray, BE(Operand), CT_ARRAY_ITEM, LastTrailByte)
      BY <2>1, <2>2, NewValues, EmptyCounted, CTs, StartContainerKept
    <2>3. CASE StartContainer(EmptyHash, BE(Operand), CT_MAP_KEY, LastTrailByte)
      BY <2>1, <2>3, NewValues, EmptyCounted, CTs, StartContainerKept
    <2> QED BY <1>9, <2>2, <2>3 DEF Container
  <1>10. CASE PushRoot
    BY <1>10, PushRootKept
  <1>11. CASE PushArrayItem
    BY <1>11, PushArrayItemKept
  <1>12. CASE PushMapKey
    BY <1>12, PushMapKeyKept
  <1>13. CASE PushMapValue
    BY <1>13, PushMapValueKept
  <1> QED BY <1>1, <1>2, <1>3, <1>4, <1>5, <1>6, <1>7, <1>8, <1>9, <1>10, <1>11, <1>12, <1>13 DEF ParseStep

(* The EXT croak forgets the open containers but takes nothing twice.          *)
LEMMA ExtCroakKept ==
  ASSUME SvInv, ExtCroak, ctx.top = 0
  PROVE  SvInv' /\ live' - Held' \in Int /\ live' - Held' >= live - Held
  <1>1. /\ pc = "trail" /\ pc' = "croaked" /\ top' = 0 /\ UNCHANGED <<obj, stack, live>>
    BY DEF ExtCroak, TrailReady
  <1>2. obj = NULL /\ obj.svs = 0 /\ live \in Int /\ stack[0].obj.svs \in Nat
    BY <1>1, NullSvs, Slots DEF SvInv
  <1>3. SvInv'
    <2>1. \A i \in Slot : ~(i < top')
      BY <1>1, Slots
    <2>2. top' \in 0 .. StackSize
      BY <1>1, Slots
    <2> QED BY <1>1, <1>2, <2>1, <2>2 DEF SvInv
  <1>4. Root' = stack[0].obj.svs
    BY <1>1 DEF Root
  <1>5. SvsIn(stack', top') = 0
    BY <1>1, NoSvs
  <1>6. Held' = stack[0].obj.svs
    BY <1>1, <1>2, <1>4, <1>5, HeldParts
  <1>7. /\ top \in Nat /\ SvsIn(stack, top) \in Nat /\ Root \in Nat
        /\ top > 0 => SvsIn(stack, top) >= stack[0].obj.svs
    BY SvInvSums
  <1>8. top = 0 => Root = stack[0].obj.svs
    BY <1>1 DEF Root
  <1>9. Held = SvsIn(stack, top) + Root
    BY <1>2, <1>7, HeldParts
  <1>10. Held \in Nat /\ Held >= stack[0].obj.svs
    BY <1>2, <1>7, <1>8, <1>9
  <1> QED BY <1>1, <1>2, <1>3, <1>6, <1>10

(* A parse never leaves a value in the root frame and goes on.                 *)
LEMMA RootStaysEmpty ==
  ASSUME SvInv, RootEmpty, ParseStep
  PROVE  RootEmpty'
  <1> SUFFICES ASSUME pc' \in {"header", "trail"}, top' = 0
               PROVE  stack'[0].obj.svs = 0
    BY DEF RootEmpty
  <1>1. top \in Nat
    BY SvInvSums
  <1>2. pc \in {"header", "trail"} /\ UNCHANGED <<top, stack>>
    <2>1. \A q, t : HeaderAgain(q, t) => t = 0
      BY DEF HeaderAgain
    <2>2. ASSUME NEW c, NEW n, NEW ct, NEW q, StartContainer(c, n, ct, q)
          PROVE  FALSE
      BY <1>1, <2>1, <2>2 DEF StartContainer, Stop, Push
    <2>3. ASSUME NEW c, NEW ct, pc = "push", top > 0, ItemStored(c, ct)
          PROVE  FALSE
      BY <1>1, <2>1, <2>3 DEF ItemStored
    <2>4. ~HeaderContainer /\ ~Container
      BY <2>2 DEF HeaderContainer, Container
    <2>5. ~PushArrayItem /\ ~PushMapValue
      BY <2>3 DEF PushArrayItem, PushMapValue
    <2>6. ~PushMapKey
      BY <1>1, <2>1 DEF PushMapKey
    <2>7. ~HeaderScalar /\ ~HeaderEmptyStr /\ ~HeaderUnassigned /\ ~PushRoot /\ ~ExtCroak
      BY DEF HeaderScalar, HeaderEmptyStr, HeaderUnassigned, PushRoot, ExtCroak, Push, Stop
    <2>8. ~TrailShort /\ ~TrailStale /\ ~Number /\ ~EmptyBody /\ ~Body
      BY DEF TrailShort, TrailStale, Number, EmptyBody, Body, Push, Stop
    <2>9. HeaderWithTrail \/ Length
      BY <2>4, <2>5, <2>6, <2>7, <2>8 DEF ParseStep
    <2> QED BY <2>9 DEF HeaderWithTrail, Length, TrailReady
  <1> QED BY <1>2 DEF RootEmpty
===============================================================================
