------------------------- MODULE Interpreter_proofs -------------------------
(***************************************************************************)
(* For any number of interpreters, cloned from one another in any order:   *)
(* the copy of $PreferInteger is thread-local, and every interpreter hands *)
(* out booleans of its own.                                                *)
(*                                                                         *)
(* Neither is inductive.  An interpreter that is done with its CLONE, or   *)
(* never had to run one, uses structures at its own address; one that is   *)
(* not done still knows the interpreter it was cloned from, which is done. *)
(***************************************************************************)
EXTENDS Interpreter, TLAPS

Lives == {"unborn", "running", "creating", "cloned", "half cloned", "ended"}

IType ==
    /\ life \in [Interps -> Lives]
    /\ backend \in [Interps -> {"none", "xs", "pp"}]
    /\ var \in [Interps -> Values]
    /\ magic \in [Interps -> Nat]
    /\ packAt \in [Interps -> Interps]
    /\ unpackAt \in [Interps -> Interps]
    /\ preferInt \in [Interps -> BOOLEAN]
    /\ DOMAIN msgpack = Interps
    /\ \A i \in Interps : DOMAIN msgpack[i] = BOOLEAN

\* i has an address of its own for both structures
Settled(i) == life[i] \in {"running", "creating", "ended"}

\* i has one for that of pack.c
PackSettled(i) == Settled(i) \/ life[i] = "half cloned"

PackOwn == \A i \in Interps : backend[i] = "xs" /\ PackSettled(i) =>
    /\ packAt[i] = i
    /\ magic[i] > 0
    /\ preferInt[i] = SvTRUE(var[i])

UnpackOwn == \A i \in Interps : backend[i] = "xs" /\ Settled(i) =>
    /\ unpackAt[i] = i
    /\ \A b \in BOOLEAN : msgpack[i][b] \in {NULL, newSVsv(i, b)}

Parent == \A i \in Interps : life[i] \in {"cloned", "half cloned"} =>
    /\ backend[i] = "xs"
    /\ backend[unpackAt[i]] = "xs"
    /\ Settled(unpackAt[i])

MagicIsXS == \A i \in Interps : magic[i] > 0 => backend[i] = "xs"

Handed == \A g \in got : g.sv = newSVsv(g.by, g.asked)

IInv == IType /\ PackOwn /\ UnpackOwn /\ Parent /\ MagicIsXS /\ Handed

\* The magic writes the truth of the variable at one address.
LEMMA SetMagicWrites ==
    ASSUME IType, NEW value \in Values, NEW at \in Interps, SetMagic(value, at)
    PROVE  /\ preferInt' \in [Interps -> BOOLEAN]
           /\ preferInt'[at] = SvTRUE(value)
           /\ \A k \in Interps : k # at => preferInt'[k] = preferInt[k]
<1>1. SvTRUE(value) \in BOOLEAN
  BY DEF SvTRUE
<1> QED
  BY <1>1 DEF IType, SetMagic

\* Loading a back end keeps the invariant: BOOT gives the interpreter both
\* structures and reads the variable.
LEMMA LoadKeeps ==
    ASSUME IInv, NEW i \in Interps, Load(i)
    PROVE  IInv'
<1> USE DEF IInv
<1>1. PICK names \in Names, built \in BOOLEAN :
        /\ backend[i] = "none" /\ life[i] = "running"
        /\ backend' = [backend EXCEPT ![i] = Chosen(names, built)]
        /\ IF Chosen(names, built) = "xs"
           THEN Boot(i)
           ELSE UNCHANGED <<packAt, unpackAt, magic, preferInt, msgpack>>
        /\ UNCHANGED <<life, var, got>>
  BY DEF Load, Running
<1>2. Chosen(names, built) \in {"none", "xs", "pp"}
  BY DEF Chosen
<1> DEFINE picked == Chosen(names, built)
<1> HIDE DEF picked
<1>3. /\ picked \in {"none", "xs", "pp"}
      /\ backend' = [backend EXCEPT ![i] = picked]
      /\ picked = "xs" => Boot(i)
      /\ picked # "xs" => UNCHANGED <<packAt, unpackAt, magic, preferInt, msgpack>>
  BY <1>1, <1>2 DEF picked
<1>4. \A k \in Interps : k # i => backend'[k] = backend[k]
  BY <1>3 DEF IType
<1>5. backend'[i] = picked
  BY <1>3 DEF IType
<1>6. magic[i] = 0
  BY <1>1 DEF MagicIsXS, IType
<1>7. Handed'
  BY <1>1 DEF Handed
<1>8. Parent'
  <2> SUFFICES ASSUME NEW k \in Interps, life'[k] \in {"cloned", "half cloned"}
      PROVE  backend'[k] = "xs" /\ backend'[unpackAt'[k]] = "xs" /\ Settled(unpackAt[k])'
      BY DEF Parent
  <2>1. /\ life[k] \in {"cloned", "half cloned"} /\ k # i
        /\ backend[k] = "xs" /\ backend[unpackAt[k]] = "xs" /\ Settled(unpackAt[k])
    BY <1>1 DEF Parent
  <2>2. unpackAt[k] \in Interps /\ unpackAt[k] # i
    BY <2>1, <1>1 DEF IType
  <2>3. unpackAt'[k] = unpackAt[k]
    BY <2>1, <1>3 DEF Boot, IType
  <2> QED
    BY <2>1, <2>2, <2>3, <1>1, <1>4 DEF Settled
<1>9. CASE picked = "xs"
  <2>1. SetMagic(var[i], i) /\ var[i] \in Values
    BY <1>3, <1>9 DEF Boot, IType
  <2>2. /\ preferInt' \in [Interps -> BOOLEAN]
        /\ preferInt'[i] = SvTRUE(var[i])
        /\ \A k \in Interps : k # i => preferInt'[k] = preferInt[k]
    BY <2>1, SetMagicWrites
  <2>3. /\ packAt' = [packAt EXCEPT ![i] = i] /\ magic' = [magic EXCEPT ![i] = @ + 1]
        /\ unpackAt' = [unpackAt EXCEPT ![i] = i]
        /\ msgpack' = [msgpack EXCEPT ![i] = NoBools]
    BY <1>3, <1>9 DEF Boot
  <2>4. IType'
    BY <1>1, <1>3, <2>2, <2>3 DEF IType, NoBools
  <2>5. PackOwn'
    <3> SUFFICES ASSUME NEW k \in Interps, backend'[k] = "xs", PackSettled(k)'
        PROVE  packAt'[k] = k /\ magic'[k] > 0 /\ preferInt'[k] = SvTRUE(var'[k])
        BY DEF PackOwn
    <3>1. CASE k = i
      BY <3>1, <1>1, <1>6, <2>2, <2>3 DEF IType
    <3>2. CASE k # i
      BY <3>2, <1>1, <1>4, <2>2, <2>3 DEF PackOwn, PackSettled, Settled, IType
    <3> QED
      BY <3>1, <3>2
  <2>6. UnpackOwn'
    <3> SUFFICES ASSUME NEW k \in Interps, backend'[k] = "xs", Settled(k)'
        PROVE  unpackAt'[k] = k /\ \A c \in BOOLEAN : msgpack'[k][c] \in {NULL, newSVsv(k, c)}
        BY DEF UnpackOwn
    <3>1. CASE k = i
      BY <3>1, <2>3 DEF NoBools, IType
    <3>2. CASE k # i
      BY <3>2, <1>1, <1>4, <2>3 DEF UnpackOwn, Settled, IType
    <3> QED
      BY <3>1, <3>2
  <2>7. MagicIsXS'
    BY <1>4, <1>5, <1>9, <2>3 DEF MagicIsXS, IType
  <2> QED
    BY <1>7, <1>8, <2>4, <2>5, <2>6, <2>7
<1>10. CASE picked # "xs"
  <2>1. IType'
    BY <1>1, <1>3, <1>10 DEF IType
  <2>2. PackOwn'
    BY <1>1, <1>3, <1>4, <1>5, <1>10 DEF PackOwn, PackSettled, Settled
  <2>3. UnpackOwn'
    BY <1>1, <1>3, <1>4, <1>5, <1>10 DEF UnpackOwn, Settled
  <2>4. MagicIsXS'
    BY <1>3, <1>4, <1>6, <1>10 DEF MagicIsXS
  <2> QED
    BY <1>7, <1>8, <2>1, <2>2, <2>3, <2>4
<1> QED
  BY <1>9, <1>10

\* An assignment to $PreferInteger reaches the copy of the same interpreter.
LEMMA AssignKeeps ==
    ASSUME IInv, NEW i \in Interps, NEW value \in Values, Assign(i, value)
    PROVE  IInv'
<1> USE DEF IInv
<1>1. IType'
  BY SetMagicWrites DEF IType, Lives, Values, Assign, Running, NoBools
<1>2. PackOwn'
  <2> SUFFICES ASSUME NEW k \in Interps, backend'[k] = "xs", PackSettled(k)'
      PROVE  packAt'[k] = k /\ magic'[k] > 0 /\ preferInt'[k] = SvTRUE(var'[k])
      BY DEF PackOwn
  <2>1. backend[k] = "xs" /\ PackSettled(k)
    BY DEF Assign, PackSettled, Settled
  <2>2. packAt[k] = k /\ magic[k] > 0 /\ preferInt[k] = SvTRUE(var[k])
    BY <2>1 DEF PackOwn
  <2>3. packAt'[k] = k /\ magic'[k] > 0
    BY <2>2 DEF Assign
  <2>4. CASE k = i
    <3>1. SetMagic(value, i)
      BY <2>2, <2>4 DEF Assign
    <3>2. preferInt'[i] = SvTRUE(value)
      BY <3>1, SetMagicWrites
    <3> QED
      BY <2>3, <2>4, <3>2 DEF Assign, IType
  <2>5. CASE k # i
    <3>1. var'[k] = var[k]
      BY <2>5 DEF Assign, IType
    <3>2. CASE magic[i] > 0
      <4>1. packAt[i] = i
        BY <3>2 DEF Assign, Running, MagicIsXS, PackOwn, PackSettled, Settled
      <4>2. SetMagic(value, i)
        BY <3>2, <4>1 DEF Assign
      <4>3. preferInt'[k] = preferInt[k]
        BY <4>2, <2>5, SetMagicWrites
      <4> QED
        BY <2>2, <2>3, <3>1, <4>3
    <3>3. CASE ~(magic[i] > 0)
      BY <2>2, <2>3, <3>1, <3>3 DEF Assign
    <3> QED
      BY <3>2, <3>3
  <2> QED
    BY <2>4, <2>5
<1>3. UnpackOwn'
  <2> SUFFICES ASSUME NEW k \in Interps, backend'[k] = "xs", Settled(k)'
      PROVE  unpackAt'[k] = k /\ \A c \in BOOLEAN : msgpack'[k][c] \in {NULL, newSVsv(k, c)}
      BY DEF UnpackOwn
  <2>1. CASE k = i
    BY <2>1, <1>1, SetMagicWrites DEF IType, Lives, Values, Assign, Running, UnpackOwn, Settled, Parent, NoBools
  <2>2. CASE k # i
    BY <2>2, <1>1, SetMagicWrites DEF IType, Lives, Values, Assign, Running, UnpackOwn, Settled, Parent, NoBools
  <2> QED
    BY <2>1, <2>2
<1>4. Parent'
  <2> SUFFICES ASSUME NEW k \in Interps, life'[k] \in {"cloned", "half cloned"}
      PROVE  backend'[k] = "xs" /\ backend'[unpackAt'[k]] = "xs" /\ Settled(unpackAt[k])'
      BY DEF Parent
  <2>1. CASE k = i
    BY <2>1, <1>1, SetMagicWrites DEF IType, Lives, Values, Assign, Running, Parent, Settled
  <2>2. CASE k # i
    BY <2>2, <1>1, SetMagicWrites DEF IType, Lives, Values, Assign, Running, Parent, Settled
  <2> QED
    BY <2>1, <2>2
<1>5. MagicIsXS'
  BY SetMagicWrites DEF IType, Lives, Values, Assign, Running, MagicIsXS, Parent
<1>6. Handed'
  BY SetMagicWrites DEF IType, Lives, Values, Assign, Running, Handed, UnpackOwn, Settled
<1> QED
  BY <1>1, <1>2, <1>3, <1>4, <1>5, <1>6

\* A clone that is not settled claims nothing yet; its parent is settled.
LEMMA PerlCloneKeeps ==
    ASSUME IInv, NEW i \in Interps, NEW j \in Interps, perl_clone(i, j)
    PROVE  IInv'
<1> USE DEF IInv
<1>1. IType'
  BY DEF IType, Lives, Values, perl_clone, Running, NoBools
<1>a. i # j
  BY DEF perl_clone, Running
<1>b. \A k \in Interps : k # j =>
        /\ backend'[k] = backend[k] /\ packAt'[k] = packAt[k] /\ unpackAt'[k] = unpackAt[k]
        /\ magic'[k] = magic[k] /\ var'[k] = var[k]
        /\ preferInt'[k] = preferInt[k] /\ msgpack'[k] = msgpack[k]
  BY DEF perl_clone, IType
<1>c. /\ backend'[j] = backend[i] /\ unpackAt'[j] = unpackAt[i] /\ magic'[j] = magic[i]
  BY DEF perl_clone, IType
<1>d. life'[j] = IF backend[i] = "xs" THEN "cloned" ELSE "running"
  BY <1>a DEF perl_clone, IType
<1>e. \A k \in Interps : k # j =>
        life'[k] = IF k = i /\ backend[i] = "xs" THEN "creating" ELSE life[k]
  BY <1>a DEF perl_clone, IType
<1>f. life[i] = "running"
  BY DEF perl_clone, Running
<1>g. \A k \in Interps : k # j => (Settled(k)' <=> Settled(k)) /\ (PackSettled(k)' <=> PackSettled(k))
  BY <1>e, <1>f DEF PackSettled, Settled
<1>2. PackOwn'
  <2> SUFFICES ASSUME NEW k \in Interps, backend'[k] = "xs", PackSettled(k)'
      PROVE  packAt'[k] = k /\ magic'[k] > 0 /\ preferInt'[k] = SvTRUE(var'[k])
      BY DEF PackOwn
  <2>1. k # j
    BY <1>c, <1>d DEF PackSettled, Settled
  <2> QED
    BY <2>1, <1>b, <1>g DEF PackOwn
<1>3. UnpackOwn'
  <2> SUFFICES ASSUME NEW k \in Interps, backend'[k] = "xs", Settled(k)'
      PROVE  unpackAt'[k] = k /\ \A c \in BOOLEAN : msgpack'[k][c] \in {NULL, newSVsv(k, c)}
      BY DEF UnpackOwn
  <2>1. k # j
    BY <1>c, <1>d DEF Settled
  <2> QED
    BY <2>1, <1>b, <1>g DEF UnpackOwn
<1>4. Parent'
  <2> SUFFICES ASSUME NEW k \in Interps, life'[k] \in {"cloned", "half cloned"}
      PROVE  backend'[k] = "xs" /\ backend'[unpackAt'[k]] = "xs" /\ Settled(unpackAt[k])'
      BY DEF Parent
  <2>1. CASE k = j
    <3>1. backend[i] = "xs"
      BY <2>1, <1>d
    <3>2. unpackAt'[k] = i
      BY <2>1, <3>1, <1>c, <1>f DEF UnpackOwn, Settled
    <3> QED
      BY <2>1, <3>1, <3>2, <1>a, <1>b, <1>c, <1>e, <1>f DEF Settled
  <2>2. CASE k # j
    <3>1. life[k] \in {"cloned", "half cloned"}
      BY <2>2, <1>e, <1>f
    <3>2. backend[k] = "xs" /\ backend[unpackAt[k]] = "xs" /\ Settled(unpackAt[k])
      BY <3>1 DEF Parent
    <3>3. unpackAt[k] \in Interps /\ unpackAt[k] # j
      BY <3>2 DEF perl_clone, Settled, IType
    <3> QED
      BY <2>2, <3>2, <3>3, <1>b, <1>g
  <2> QED
    BY <2>1, <2>2
<1>5. MagicIsXS'
  BY DEF IType, Lives, Values, perl_clone, Running, MagicIsXS, Parent
<1>6. Handed'
  BY DEF IType, Lives, Values, perl_clone, Running, Handed, UnpackOwn, Settled
<1> QED
  BY <1>1, <1>2, <1>3, <1>4, <1>5, <1>6

\* The first half of CLONE settles the structure of pack.c.
LEMMA ClonePackKeeps ==
    ASSUME IInv, NEW i \in Interps, ClonePack(i)
    PROVE  IInv'
<1> USE DEF IInv
<1>a. backend[i] = "xs"
  BY DEF ClonePack, Parent
<1>b. SetMagic(var[i], i) /\ var[i] \in Values
  BY DEF ClonePack, IType
<1>c. /\ preferInt' \in [Interps -> BOOLEAN]
      /\ preferInt'[i] = SvTRUE(var[i])
      /\ \A k \in Interps : k # i => preferInt'[k] = preferInt[k]
  BY <1>b, SetMagicWrites
<1>1. IType'
  <2>1. life' \in [Interps -> Lives]
    BY DEF IType, Lives, ClonePack
  <2>2. packAt' \in [Interps -> Interps]
    BY DEF IType, ClonePack
  <2>3. magic[i] + 1 \in Nat
    BY DEF IType
  <2>4. magic' \in [Interps -> Nat]
    BY <2>3 DEF IType, ClonePack
  <2> QED
    BY <2>1, <2>2, <2>4, <1>c DEF IType, ClonePack
<1>2. PackOwn'
  <2> SUFFICES ASSUME NEW k \in Interps, backend'[k] = "xs", PackSettled(k)'
      PROVE  packAt'[k] = k /\ magic'[k] > 0 /\ preferInt'[k] = SvTRUE(var'[k])
      BY DEF PackOwn
  <2>1. CASE k = i
    <3>1. packAt'[k] = k /\ magic'[k] = magic[k] + 1 /\ var'[k] = var[i] /\ magic[k] \in Nat
      BY <2>1 DEF ClonePack, IType
    <3> QED
      BY <2>1, <3>1, <1>c
  <2>2. CASE k # i
    <3>1. /\ packAt'[k] = packAt[k] /\ magic'[k] = magic[k] /\ var'[k] = var[k]
          /\ backend'[k] = backend[k] /\ life'[k] = life[k]
      BY <2>2 DEF ClonePack, IType
    <3> QED
      BY <2>2, <3>1, <1>c DEF PackOwn, PackSettled, Settled
  <2> QED
    BY <2>1, <2>2
<1>3. UnpackOwn'
  <2> SUFFICES ASSUME NEW k \in Interps, backend'[k] = "xs", Settled(k)'
      PROVE  unpackAt'[k] = k /\ \A c \in BOOLEAN : msgpack'[k][c] \in {NULL, newSVsv(k, c)}
      BY DEF UnpackOwn
  <2>1. CASE k = i
    BY <2>1, <1>1, SetMagicWrites DEF IType, Lives, Values, ClonePack, UnpackOwn, Settled, Parent, NoBools
  <2>2. CASE k # i
    BY <2>2, <1>1, SetMagicWrites DEF IType, Lives, Values, ClonePack, UnpackOwn, Settled, Parent, NoBools
  <2> QED
    BY <2>1, <2>2
<1>4. Parent'
  <2> SUFFICES ASSUME NEW k \in Interps, life'[k] \in {"cloned", "half cloned"}
      PROVE  backend'[k] = "xs" /\ backend'[unpackAt'[k]] = "xs" /\ Settled(unpackAt[k])'
      BY DEF Parent
  <2>1. CASE k = i
    BY <2>1, <1>1, SetMagicWrites DEF IType, Lives, Values, ClonePack, Parent, Settled
  <2>2. CASE k # i
    BY <2>2, <1>1, SetMagicWrites DEF IType, Lives, Values, ClonePack, Parent, Settled
  <2> QED
    BY <2>1, <2>2
<1>5. MagicIsXS'
  BY SetMagicWrites DEF IType, Lives, Values, ClonePack, MagicIsXS, Parent
<1>6. Handed'
  BY SetMagicWrites DEF IType, Lives, Values, ClonePack, Handed, UnpackOwn, Settled
<1> QED
  BY <1>1, <1>2, <1>3, <1>4, <1>5, <1>6

\* The second half settles the structure of unpack.c, with no boolean in it.
LEMMA CloneUnpackKeeps ==
    ASSUME IInv, NEW i \in Interps, CloneUnpack(i)
    PROVE  IInv'
<1> USE DEF IInv
<1>1. IType'
  BY DEF IType, Lives, Values, CloneUnpack, Created, NoBools
<1>2. PackOwn'
  <2> SUFFICES ASSUME NEW k \in Interps, backend'[k] = "xs", PackSettled(k)'
      PROVE  packAt'[k] = k /\ magic'[k] > 0 /\ preferInt'[k] = SvTRUE(var'[k])
      BY DEF PackOwn
  <2>1. CASE k = i
    BY <2>1, <1>1 DEF IType, Lives, Values, CloneUnpack, Created, PackOwn, PackSettled, Settled, MagicIsXS, Parent
  <2>2. CASE k # i
    BY <2>2, <1>1 DEF IType, Lives, Values, CloneUnpack, Created, PackOwn, PackSettled, Settled, MagicIsXS, Parent
  <2> QED
    BY <2>1, <2>2
<1>3. UnpackOwn'
  <2> SUFFICES ASSUME NEW k \in Interps, backend'[k] = "xs", Settled(k)'
      PROVE  unpackAt'[k] = k /\ \A c \in BOOLEAN : msgpack'[k][c] \in {NULL, newSVsv(k, c)}
      BY DEF UnpackOwn
  <2>1. CASE k = i
    BY <2>1, <1>1 DEF IType, Lives, Values, CloneUnpack, Created, UnpackOwn, Settled, Parent, NoBools
  <2>2. CASE k # i
    BY <2>2, <1>1 DEF IType, Lives, Values, CloneUnpack, Created, UnpackOwn, Settled, Parent, NoBools
  <2> QED
    BY <2>1, <2>2
<1>4. Parent'
  <2> SUFFICES ASSUME NEW k \in Interps, life'[k] \in {"cloned", "half cloned"}
      PROVE  backend'[k] = "xs" /\ backend'[unpackAt'[k]] = "xs" /\ Settled(unpackAt[k])'
      BY DEF Parent
  <2>1. CASE k = i
    BY <2>1, <1>1 DEF IType, Lives, Values, CloneUnpack, Created, Parent, Settled
  <2>2. CASE k # i
    BY <2>2, <1>1 DEF IType, Lives, Values, CloneUnpack, Created, Parent, Settled
  <2> QED
    BY <2>1, <2>2
<1>5. MagicIsXS'
  BY DEF IType, Lives, Values, CloneUnpack, Created, MagicIsXS, Parent
<1>6. Handed'
  BY DEF IType, Lives, Values, CloneUnpack, Created, Handed, UnpackOwn, Settled
<1> QED
  BY <1>1, <1>2, <1>3, <1>4, <1>5, <1>6

\* A boolean that is loaded, or found in the cache, is the interpreter's own.
LEMMA GetBoolKeeps ==
    ASSUME IInv, NEW i \in Interps, NEW b \in BOOLEAN, get_bool(i, b)
    PROVE  IInv'
<1> USE DEF IInv
<1>1. IType'
  BY DEF IType, Lives, Values, get_bool, load_bool, XS, Running, NoBools
<1>2. PackOwn'
  <2> SUFFICES ASSUME NEW k \in Interps, backend'[k] = "xs", PackSettled(k)'
      PROVE  packAt'[k] = k /\ magic'[k] > 0 /\ preferInt'[k] = SvTRUE(var'[k])
      BY DEF PackOwn
  <2>1. CASE k = i
    BY <2>1, <1>1 DEF IType, Lives, Values, get_bool, load_bool, XS, Running, PackOwn, PackSettled, Settled, MagicIsXS, Parent
  <2>2. CASE k # i
    BY <2>2, <1>1 DEF IType, Lives, Values, get_bool, load_bool, XS, Running, PackOwn, PackSettled, Settled, MagicIsXS, Parent
  <2> QED
    BY <2>1, <2>2
<1>a. unpackAt[i] = i /\ \A c \in BOOLEAN : msgpack[i][c] \in {NULL, newSVsv(i, c)}
  BY DEF get_bool, XS, Running, UnpackOwn, Settled
<1> DEFINE kept == IF msgpack[i][b] = NULL THEN newSVsv(i, b) ELSE msgpack[i][b]
<1>b. kept = newSVsv(i, b)
  BY <1>a
<1>c. /\ msgpack' = [msgpack EXCEPT ![i][b] = kept]
      /\ got' = got \union {[by |-> i, asked |-> b, sv |-> kept]}
  BY <1>a DEF get_bool, load_bool
<1>d. /\ msgpack' = [msgpack EXCEPT ![i][b] = newSVsv(i, b)]
      /\ got' = got \union {[by |-> i, asked |-> b, sv |-> newSVsv(i, b)]}
  BY <1>b, <1>c
<1> HIDE DEF kept
<1>3. UnpackOwn'
  <2> SUFFICES ASSUME NEW k \in Interps, backend'[k] = "xs", Settled(k)'
      PROVE  unpackAt'[k] = k /\ \A c \in BOOLEAN : msgpack'[k][c] \in {NULL, newSVsv(k, c)}
      BY DEF UnpackOwn
  <2>1. backend[k] = "xs" /\ Settled(k)
    BY DEF get_bool, Settled
  <2>2. unpackAt'[k] = k /\ \A c \in BOOLEAN : msgpack[k][c] \in {NULL, newSVsv(k, c)}
    BY <2>1 DEF UnpackOwn, get_bool
  <2>3. \A c \in BOOLEAN : msgpack'[k][c] = msgpack[k][c] \/ msgpack'[k][c] = newSVsv(k, c)
    BY <1>d DEF IType
  <2> QED
    BY <2>2, <2>3
<1>4. Parent'
  <2> SUFFICES ASSUME NEW k \in Interps, life'[k] \in {"cloned", "half cloned"}
      PROVE  backend'[k] = "xs" /\ backend'[unpackAt'[k]] = "xs" /\ Settled(unpackAt[k])'
      BY DEF Parent
  <2>1. CASE k = i
    BY <2>1, <1>1 DEF IType, Lives, Values, get_bool, load_bool, XS, Running, Parent, Settled
  <2>2. CASE k # i
    BY <2>2, <1>1 DEF IType, Lives, Values, get_bool, load_bool, XS, Running, Parent, Settled
  <2> QED
    BY <2>1, <2>2
<1>5. MagicIsXS'
  BY DEF IType, Lives, Values, get_bool, load_bool, XS, Running, MagicIsXS, Parent
<1>6. Handed'
  <2>1. [by |-> i, asked |-> b, sv |-> newSVsv(i, b)].sv
          = newSVsv([by |-> i, asked |-> b, sv |-> newSVsv(i, b)].by,
                    [by |-> i, asked |-> b, sv |-> newSVsv(i, b)].asked)
    OBVIOUS
  <2> QED
    BY <2>1, <1>d DEF Handed
<1> QED
  BY <1>1, <1>2, <1>3, <1>4, <1>5, <1>6

\* The end of a thread changes no structure.
LEMMA ExitKeeps ==
    ASSUME IInv, NEW i \in Interps, Exit(i)
    PROVE  IInv'
<1> USE DEF IInv
<1>1. IType'
  BY DEF IType, Lives, Values, Exit, Running, NoBools
<1>2. PackOwn'
  <2> SUFFICES ASSUME NEW k \in Interps, backend'[k] = "xs", PackSettled(k)'
      PROVE  packAt'[k] = k /\ magic'[k] > 0 /\ preferInt'[k] = SvTRUE(var'[k])
      BY DEF PackOwn
  <2>1. CASE k = i
    BY <2>1, <1>1 DEF IType, Lives, Values, Exit, Running, PackOwn, PackSettled, Settled, MagicIsXS, Parent
  <2>2. CASE k # i
    BY <2>2, <1>1 DEF IType, Lives, Values, Exit, Running, PackOwn, PackSettled, Settled, MagicIsXS, Parent
  <2> QED
    BY <2>1, <2>2
<1>3. UnpackOwn'
  <2> SUFFICES ASSUME NEW k \in Interps, backend'[k] = "xs", Settled(k)'
      PROVE  unpackAt'[k] = k /\ \A c \in BOOLEAN : msgpack'[k][c] \in {NULL, newSVsv(k, c)}
      BY DEF UnpackOwn
  <2>1. CASE k = i
    BY <2>1, <1>1 DEF IType, Lives, Values, Exit, Running, UnpackOwn, Settled, Parent, NoBools
  <2>2. CASE k # i
    BY <2>2, <1>1 DEF IType, Lives, Values, Exit, Running, UnpackOwn, Settled, Parent, NoBools
  <2> QED
    BY <2>1, <2>2
<1>4. Parent'
  <2> SUFFICES ASSUME NEW k \in Interps, life'[k] \in {"cloned", "half cloned"}
      PROVE  backend'[k] = "xs" /\ backend'[unpackAt'[k]] = "xs" /\ Settled(unpackAt[k])'
      BY DEF Parent
  <2>1. CASE k = i
    BY <2>1, <1>1 DEF IType, Lives, Values, Exit, Running, Parent, Settled
  <2>2. CASE k # i
    BY <2>2, <1>1 DEF IType, Lives, Values, Exit, Running, Parent, Settled
  <2> QED
    BY <2>1, <2>2
<1>5. MagicIsXS'
  BY DEF IType, Lives, Values, Exit, Running, MagicIsXS, Parent
<1>6. Handed'
  BY DEF IType, Lives, Values, Exit, Running, Handed, UnpackOwn, Settled
<1> QED
  BY <1>1, <1>2, <1>3, <1>4, <1>5, <1>6

\* Every step keeps it.
LEMMA NextKeeps ==
    IInv /\ [InterpNext]_ivars => IInv'
<1> SUFFICES ASSUME IInv, [InterpNext]_ivars
    PROVE  IInv'
    OBVIOUS
<1>1. CASE InterpNext
  BY <1>1, LoadKeeps, AssignKeeps, PerlCloneKeeps, ClonePackKeeps, CloneUnpackKeeps,
     GetBoolKeeps, ExitKeeps DEF InterpNext
<1>2. CASE UNCHANGED ivars
  BY <1>2 DEF ivars, IInv, IType, PackOwn, UnpackOwn, Parent, MagicIsXS, Handed,
              PackSettled, Settled
<1> QED
  BY <1>1, <1>2

\* No back end is loaded in the beginning, and there is only one interpreter.
LEMMA InitHolds == InterpInit => IInv
<1> SUFFICES ASSUME InterpInit
    PROVE  IInv
    OBVIOUS
<1>1. IType
  BY InterpsAssumption DEF InterpInit, IType, Lives, Values, Nowhere, NoBools
<1>2. PackOwn /\ UnpackOwn /\ Parent /\ MagicIsXS /\ Handed
  BY DEF InterpInit, PackOwn, UnpackOwn, Parent, MagicIsXS, Handed
<1> QED
  BY <1>1, <1>2 DEF IInv

LEMMA Inductive == InterpSpec => []IInv
<1>1. InterpInit => IInv
  BY InitHolds
<1>2. IInv /\ [InterpNext]_ivars => IInv'
  BY NextKeeps
<1> QED
  BY <1>1, <1>2, PTL DEF InterpSpec

\* The copy of $PreferInteger that xs_pack reads is the variable's, in every
\* interpreter, however many there are.
THEOREM ThreadLocal == InterpSpec => []PreferIntegerIsThreadLocal
<1>1. IInv => PreferIntegerIsThreadLocal
  BY DEF IInv, PreferIntegerIsThreadLocal, PackOwn, PackSettled, Settled,
         XS, Running, XSPrefers, PPPrefers
<1> QED
  BY <1>1, Inductive, PTL

\* No interpreter returns, or has cached, a boolean of another.
THEOREM BooleansAreOwn == InterpSpec => []OwnBooleans
<1>1. IInv => OwnBooleans
  BY DEF IInv, OwnBooleans, Handed, UnpackOwn, Settled, XS, Running
<1> QED
  BY <1>1, Inductive, PTL
=============================================================================
