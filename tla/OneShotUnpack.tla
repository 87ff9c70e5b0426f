------------------------------ MODULE OneShotUnpack ------------------------------
(******************************************************************************)
(* Data::MessagePack->unpack in XS: xs_unpack of xs-src/unpack.c parses one    *)
(* byte string with a context of its own and checks how the parser returned.   *)
(* The context is an uninitialised local there: the zeroes of TInit stand for  *)
(* its frames, none of which is read before it is written.                     *)
(******************************************************************************)
EXTENDS UnpackTemplate, PPUnpack

CONSTANT Inputs         \* the byte strings handed to unpack
ASSUME InputsAssumption == Inputs \subseteq Seq(Byte)

VARIABLE result         \* "none", "value", or the message of the croak

ovars == <<tvars, result>>

(* The argument waits in data until the call.                                  *)
OInit ==
  /\ TInit(Inputs)
  /\ utf8 \in BOOLEAN           \* the utf8 property of the object
  /\ result = "none"

(* The call, up to template_execute.                                           *)
CallUnpack ==
  /\ pc = "idle" /\ result = "none"
  /\ Enter(data, 0)
  /\ UNCHANGED result

(* xs_unpack after template_execute.                                           *)
Return ==
  /\ pc \in {"finish", "failed", "out", "croaked"}
  /\ result = "none"
  /\ result' = CASE pc = "croaked" -> "ext_type"
                 [] pc = "failed"  -> "parse_error"
                 [] pc = "out"     -> "insufficient"
                 [] pc = "finish"  -> IF p < Len(data) THEN "extra"
                                                       ELSE "value"
  /\ UNCHANGED tvars

Done == result # "none" /\ UNCHANGED ovars

ONext == CallUnpack \/ (ParseStep /\ UNCHANGED result) \/ Return \/ Done

OSpec == OInit /\ [][ONext]_ovars /\ WF_ovars(ONext)

-------------------------------------------------------------------------------
(* xs_unpack accepts exactly the strings that the pure Perl decoder accepts,   *)
(* with the same value, provided the containers nest no deeper than the parser *)
(* stack; and it complains in the same cases, except that an EXT value whose   *)
(* bytes are not all there counts as insufficient.                             *)
AgreesWithPP ==
  result # "none" =>
    LET r == Decode(data, utf8)
        fits == r.depth <= StackSize
    IN
    /\ result = "value" <=> fits /\ r.status = "ok" /\ r.p = Len(data)
    /\ result = "value" => TemplateData = r.val
    /\ result = "extra" <=> fits /\ r.status = "ok" /\ r.p < Len(data)
    /\ result = "parse_error" => ~fits \/ r.status = "unexpected"
    /\ ~fits => result = "parse_error"
    /\ r.status = "insufficient" /\ fits => result = "insufficient"

(* What unpack hands out owns every SV the call created: nothing made on the   *)
(* way, hash keys and overwritten hash values included, is left behind.        *)
ValueOwnsEverySV == result \in {"value", "extra"} => live = TemplateData.svs

(* Every call comes back.                                                      *)
Terminates == <>(result # "none")
===============================================================================
