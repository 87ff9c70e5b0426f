---------------------------- MODULE Interpreter ----------------------------
(***************************************************************************)
(* What Data::MessagePack keeps per interpreter of a program with threads: *)
(* the back end chosen when the module is loaded (MessagePack.pm), the     *)
(* copy of $Data::MessagePack::PreferInteger that magic maintains          *)
(* (pack.c), and the two boolean values that the first true and the first  *)
(* false of an interpreter load (unpack.c).  threads->create clones an     *)
(* interpreter: Perl copies every variable, with its magic, but leaves the *)
(* clone pointing at the C structures of its parent until                  *)
(* Data::MessagePack's CLONE gives it its own.                             *)
(*                                                                         *)
(* An address in C is named by the interpreter that allocated it.  An SV   *)
(* that holds a boolean is named by its owner and its truth.               *)
(***************************************************************************)
EXTENDS Integers, FiniteSets

CONSTANTS Interps,   \* the interpreters there can be
          Main,      \* the one the program starts in
          NULL       \* no SV

ASSUME InterpsAssumption == Main \in Interps

VARIABLES life,        \* "unborn", "running", "creating" a thread, "cloned"
                       \* and "half cloned" before its CLONE is over, "ended"
          backend,     \* the back end that is loaded, "none" if none is
          var,         \* $Data::MessagePack::PreferInteger
          magic,       \* how many dmp_config_vtbl magics are on it
          packAt,      \* where MY_CXT of pack.c is
          unpackAt,    \* where MY_CXT of unpack.c is
          preferInt,   \* MY_CXT.prefer_int, by address
          msgpack,     \* MY_CXT.msgpack_true and msgpack_false, by address
          got          \* the boolean SVs that unpack returned

ivars == <<life, backend, var, magic, packAt, unpackAt, preferInt, msgpack, got>>

Values == {"undef", "0", "1"}
SvTRUE(value) == value = "1"

NoBools == [b \in BOOLEAN |-> NULL]
newSVsv(i, b) == [owner |-> i, is |-> b]
Nowhere == Main   \* packAt and unpackAt before the back end is loaded: never read

InterpInit ==
    /\ life = [i \in Interps |-> IF i = Main THEN "running" ELSE "unborn"]
    /\ backend = [i \in Interps |-> "none"]
    /\ var = [i \in Interps |-> "undef"]
    /\ magic = [i \in Interps |-> 0]
    /\ packAt = [i \in Interps |-> Nowhere]
    /\ unpackAt = [i \in Interps |-> Nowhere]
    /\ preferInt = [i \in Interps |-> FALSE]
    /\ msgpack = [i \in Interps |-> NoBools]
    /\ got = {}

Running(i) == life[i] = "running"
XS(i) == Running(i) /\ backend[i] = "xs"

(***************************************************************************)
(* Loading.  PERL_DATA_MESSAGEPACK, or PERL_ONLY, names the back end;      *)
(* whatever does not name pp tries XS, and falls back on PP unless the     *)
(* name is xs: then loading dies, and may be tried again.                  *)
(***************************************************************************)
Names == {{}, {"pp"}, {"xs"}, {"pp", "xs"}}

Chosen(names, built) ==
    IF "pp" \notin names /\ built THEN "xs"
    ELSE IF names = {"xs"} THEN "none" ELSE "pp"

\* $var gets one more magic, and SvSETMAGIC runs all of it
SetMagic(value, at) ==
    preferInt' = [preferInt EXCEPT ![at] = SvTRUE(value)]

\* BOOT: MY_CXT_INIT twice, each at an address of the interpreter's own
Boot(i) ==
    /\ packAt' = [packAt EXCEPT ![i] = i]
    /\ magic' = [magic EXCEPT ![i] = @ + 1]
    /\ SetMagic(var[i], i)
    /\ unpackAt' = [unpackAt EXCEPT ![i] = i]
    /\ msgpack' = [msgpack EXCEPT ![i] = NoBools]

Load(i) == \E names \in Names, built \in BOOLEAN :
    /\ Running(i) /\ backend[i] = "none"
    /\ backend' = [backend EXCEPT ![i] = Chosen(names, built)]
    /\ IF Chosen(names, built) = "xs"
       THEN Boot(i)
       ELSE UNCHANGED <<packAt, unpackAt, magic, preferInt, msgpack>>
    /\ UNCHANGED <<life, var, got>>

(***************************************************************************)
(* $Data::MessagePack::PreferInteger = value: the magic's dmp_config_set   *)
(* writes where MY_CXT is for this interpreter.                            *)
(***************************************************************************)
Assign(i, value) ==
    /\ Running(i)
    /\ var' = [var EXCEPT ![i] = value]
    /\ IF magic[i] > 0 THEN SetMagic(value, packAt[i]) ELSE UNCHANGED preferInt
    /\ UNCHANGED <<life, backend, magic, packAt, unpackAt, msgpack, got>>

(***************************************************************************)
(* threads->create.  perl_clone copies the variables and the magic, and    *)
(* the list of the addresses (external).  CLONE then runs in the clone, in *)
(* two steps; the interpreter that creates the thread waits for it, other  *)
(* threads do not.                                                         *)
(***************************************************************************)
perl_clone(i, j) ==
    /\ Running(i) /\ life[j] = "unborn"
    /\ life' = IF backend[i] = "xs"
               THEN [life EXCEPT ![i] = "creating", ![j] = "cloned"]
               ELSE [life EXCEPT ![j] = "running"]
    /\ backend' = [backend EXCEPT ![j] = backend[i]]
    /\ var' = [var EXCEPT ![j] = var[i]]
    /\ magic' = [magic EXCEPT ![j] = magic[i]]
    /\ packAt' = [packAt EXCEPT ![j] = packAt[i]]
    /\ unpackAt' = [unpackAt EXCEPT ![j] = unpackAt[i]]
    /\ UNCHANGED <<preferInt, msgpack, got>>

\* init_Data__MessagePack_pack without its MY_CXT_CLONE
ClonePackShared(i) ==
    /\ life[i] = "cloned"
    /\ life' = [life EXCEPT ![i] = "half cloned"]
    /\ magic' = [magic EXCEPT ![i] = @ + 1]
    /\ SetMagic(var[i], packAt[i])
    /\ UNCHANGED <<backend, var, packAt, unpackAt, msgpack, got>>

\* init_Data__MessagePack_pack(cloning): MY_CXT_CLONE copies the structure
\* to an address of the clone's own, where SvSETMAGIC then writes
ClonePack(i) ==
    /\ life[i] = "cloned"
    /\ life' = [life EXCEPT ![i] = "half cloned"]
    /\ packAt' = [packAt EXCEPT ![i] = i]
    /\ magic' = [magic EXCEPT ![i] = @ + 1]
    /\ SetMagic(var[i], i)
    /\ UNCHANGED <<backend, var, unpackAt, msgpack, got>>

\* the two threads of a threads->create go on
Created(i) == life' = [life EXCEPT ![i] = "running", ![unpackAt[i]] = "running"]

\* init_Data__MessagePack_unpack that keeps what MY_CXT_CLONE copied
CloneUnpackKept(i) ==
    /\ life[i] = "half cloned"
    /\ unpackAt' = [unpackAt EXCEPT ![i] = i]
    /\ msgpack' = [msgpack EXCEPT ![i] = msgpack[unpackAt[i]]]
    /\ Created(i)
    /\ UNCHANGED <<backend, var, magic, packAt, preferInt, got>>

\* init_Data__MessagePack_unpack(cloning): MY_CXT_CLONE, and both booleans
\* are to be loaded anew
CloneUnpack(i) ==
    /\ life[i] = "half cloned"
    /\ unpackAt' = [unpackAt EXCEPT ![i] = i]
    /\ msgpack' = [msgpack EXCEPT ![i] = NoBools]
    /\ Created(i)
    /\ UNCHANGED <<backend, var, magic, packAt, preferInt, got>>

(***************************************************************************)
(* get_bool: the first true, or the first false, of an interpreter calls   *)
(* Data::MessagePack::true, or false, in Perl and keeps a copy of what it  *)
(* returns; what unpack returns is a copy of the copy.  A copy of a        *)
(* reference refers to what the original does, so an SV keeps the owner.   *)
(***************************************************************************)
load_bool(i, b) == newSVsv(i, b)

get_bool(i, b) ==
    LET held == msgpack[unpackAt[i]][b]
        kept == IF held = NULL THEN load_bool(i, b) ELSE held
    IN  /\ XS(i)
        /\ msgpack' = [msgpack EXCEPT ![unpackAt[i]][b] = kept]
        /\ got' = got \union {[by |-> i, asked |-> b, sv |-> kept]}
        /\ UNCHANGED <<life, backend, var, magic, packAt, unpackAt, preferInt>>

\* The thread ends (external): what it owned is gone.
Exit(i) ==
    /\ Running(i) /\ i # Main
    /\ life' = [life EXCEPT ![i] = "ended"]
    /\ got' = {g \in got : g.by # i}
    /\ UNCHANGED <<backend, var, magic, packAt, unpackAt, preferInt, msgpack>>

InterpNext == \E i \in Interps :
    \/ Load(i)
    \/ \E value \in Values : Assign(i, value)
    \/ \E j \in Interps : perl_clone(i, j)
    \/ ClonePack(i)
    \/ CloneUnpack(i)
    \/ \E b \in BOOLEAN : get_bool(i, b)
    \/ Exit(i)

InterpSpec == InterpInit /\ [][InterpNext]_ivars

(***************************************************************************)
(* What pack called as a class method takes as prefer_integer: XS the      *)
(* copy (xs_pack), PP the variable itself.                                 *)
(***************************************************************************)
XSPrefers(i) == preferInt[packAt[i]]
PPPrefers(i) == SvTRUE(var[i])

-----------------------------------------------------------------------------
\* In every interpreter that runs, the copy of $PreferInteger that xs_pack
\* reads says what the variable of that interpreter says, as the PP back end
\* would read it: whenever the module was loaded, whoever was cloned from
\* whom, and whatever other threads assign.
PreferIntegerIsThreadLocal ==
    \A i \in Interps : XS(i) => XSPrefers(i) = PPPrefers(i)

\* unpack never hands out a boolean that refers into another interpreter
\* (which may have ended since), nor one of the other truth; and what an
\* interpreter that is yet to clone itself would find cached is alive.
OwnBooleans ==
    /\ \A g \in got : g.sv = newSVsv(g.by, g.asked)
    /\ \A i \in Interps, b \in BOOLEAN : XS(i) =>
          msgpack[unpackAt[i]][b] \in {NULL, newSVsv(i, b)}
=============================================================================
