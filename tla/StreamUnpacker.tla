----------------------------- MODULE StreamUnpacker -----------------------------
(******************************************************************************)
(* Data::MessagePack::Unpacker in XS: the streaming calls of xs-src/unpack.c   *)
(* around one template_context.  A call to execute is split at template_execute*)
(* into ExecuteCall, the parser's steps and a Return action; every other call  *)
(* is one step, taken while no execute runs.                                   *)
(*                                                                             *)
(* After an execute that croaked, the context may hold half-built containers   *)
(* (see ExtCroak); a program that goes on executing without a reset is not     *)
(* modelled.  Going on after a finished message without a reset is: the code   *)
(* accepts it and t/23-empty-key.t does it.  Careful leaves it out.            *)
(******************************************************************************)
EXTENDS UnpackTemplate, PPUnpack

CONSTANTS
  Arguments,    \* the calls: records [bytes, offset, limit]
  Utf8Args,     \* the Booleans utf8() is called with
  Careful,      \* TRUE: after a finished message the program resets first
  MaxCalls      \* bound: how often a behaviour calls execute

ASSUME ArgumentsAssumption ==
  Arguments \subseteq [bytes : Seq(Byte), offset : Nat, limit : Nat]
ASSUME Utf8ArgsAssumption == Utf8Args \subseteq BOOLEAN
ASSUME CarefulAssumption == Careful \in BOOLEAN
ASSUME MaxCallsAssumption == MaxCalls \in Nat

VARIABLES
  buffer,       \* user.buffer
  finished,     \* user.finished
  ret,          \* what the last execute returned
  alive,        \* between new and DESTROY
  last,         \* history: how the last execute ended, or "fresh"
  calls         \* number of execute calls so far

avars == <<buffer, finished, ret, alive, last, calls>>
vars == <<tvars, avars>>

Idle == pc = "idle" /\ alive

SInit ==
  /\ TInit({<< >>})
  /\ utf8 = FALSE
  /\ buffer = << >>
  /\ finished = FALSE
  /\ ret = 0
  /\ alive = TRUE
  /\ last = "fresh"
  /\ calls = 0

-------------------------------------------------------------------------------
(* execute and execute_limit through _execute_impl.  offset >= limit croaks    *)
(* before anything is touched; a limit beyond the string would be read past    *)
(* its end, and no call here passes one.                                       *)
ExecuteCall(a) ==
  /\ Idle
  /\ calls < MaxCalls
  /\ last # "croaked"
  /\ Careful => last # "finished"
  /\ a.offset < a.limit /\ a.limit <= Len(a.bytes)
  /\ LET dptr == SubSeq(a.bytes, 1, a.limit) IN
       \/ /\ buffer # << >>
          /\ buffer' = buffer \o dptr
          /\ Enter(buffer \o dptr, 0)
       \/ /\ buffer = << >>
          /\ Enter(dptr, a.offset)
          /\ UNCHANGED buffer
  /\ calls' = calls + 1
  /\ UNCHANGED <<finished, ret, alive, last>>

LeaveTemplate == pc' = "idle" /\ data' = << >> /\ p' = 0

(* Mutant: the bytes kept of a message stay when it is finished.               *)
ReturnFinishedUncleared ==
  /\ pc = "finish"
  /\ LeaveTemplate
  /\ finished' = TRUE
  /\ ret' = p
  /\ last' = "finished"
  /\ UNCHANGED <<cs, trail, top, obj, ctx, stack, utf8, live, alive, calls, buffer>>

ReturnFinished ==
  /\ pc = "finish"
  /\ LeaveTemplate
  /\ finished' = TRUE
  /\ buffer' = << >>
  /\ ret' = p
  /\ last' = "finished"
  /\ UNCHANGED <<cs, trail, top, obj, ctx, stack, utf8, live, alive, calls>>

(* The bytes kept for the next call; mutant: only the unparsed ones, although  *)
(* the parse is forgotten.                                                     *)
KeptUnparsed == SubSeq(data, p + 1, Len(data))
Kept == data

(* Insufficient: forget the parse and keep every byte for the next call.       *)
ReturnUnfinished ==
  /\ pc = "out"
  /\ LeaveTemplate
  /\ finished' = FALSE
  /\ TemplateInit
  /\ buffer' = Kept
  /\ ret' = 0
  /\ last' = "unfinished"
  /\ UNCHANGED <<obj, utf8, live, alive, calls>>

ReturnCroak ==
  /\ pc \in {"failed", "croaked"}
  /\ LeaveTemplate
  /\ last' = "croaked"
  /\ UNCHANGED <<cs, trail, top, obj, ctx, stack, utf8, live,
                 buffer, finished, ret, alive, calls>>

-------------------------------------------------------------------------------
(* utf8([$bool])                                                               *)
Utf8 ==
  /\ Idle
  /\ utf8' \in Utf8Args
  /\ UNCHANGED <<data, p, cs, trail, top, obj, pc, ctx, stack, live, avars>>

(* is_finished() and data(), which change nothing.                             *)
is_finished == finished
Data == TemplateData

(* reset(): finished keeps its value.                                          *)
Reset ==
  /\ Idle
  /\ live' = live - TemplateData.svs
  /\ TemplateInit
  /\ buffer' = << >>
  /\ last' = "fresh"
  /\ UNCHANGED <<data, p, obj, pc, utf8, finished, ret, alive, calls>>

DESTROY ==
  /\ Idle
  /\ live' = live - TemplateData.svs
  /\ alive' = FALSE
  /\ UNCHANGED <<data, p, cs, trail, top, obj, pc, ctx, stack, utf8,
                 buffer, finished, ret, last, calls>>

(* new(), for the next Unpacker of the program.                                *)
New ==
  /\ ~alive
  /\ alive' = TRUE
  /\ cs' = InitCtx.cs /\ trail' = InitCtx.trail /\ top' = InitCtx.top
  /\ ctx' = InitCtx
  /\ stack' = [i \in Slot |-> Frame(NULL, 0, CT_ARRAY_ITEM, NULL)]
  /\ utf8' = FALSE /\ finished' = FALSE /\ buffer' = << >> /\ ret' = 0
  /\ last' = "fresh"
  /\ UNCHANGED <<data, p, obj, pc, live, calls>>

-------------------------------------------------------------------------------
Run == ParseStep /\ UNCHANGED avars
Return == ReturnFinished \/ ReturnUnfinished \/ ReturnCroak
Execute == \E a \in Arguments : ExecuteCall(a)
Next == Execute \/ Run \/ Return \/ Utf8 \/ Reset \/ DESTROY \/ New

(* A call that has begun runs to its end: it is one C function.                *)
Fairness == WF_vars(Run \/ Return)

Spec == SInit /\ [][Next]_vars /\ Fairness

-------------------------------------------------------------------------------
(* The type invariant.                                                         *)
FrameTypeOK(f) ==
  f.count \in Nat /\ f.ct \in {CT_ARRAY_ITEM, CT_MAP_KEY, CT_MAP_VALUE}

StackTypeOK == DOMAIN stack = Slot /\ \A i \in Slot : FrameTypeOK(stack[i])

ParserTypeOK ==
  /\ pc \in {"idle", "header", "trail", "push", "finish", "out", "failed",
             "croaked", "undefined"}
  /\ data \in Seq(Byte) /\ p \in Nat
  /\ cs \in 0 .. 34 /\ trail \in Nat /\ top \in 0 .. StackSize
  /\ ctx \in [cs : 0 .. 34, trail : Nat, top : 0 .. StackSize]

CallTypeOK ==
  /\ buffer \in Seq(Byte)
  /\ ret \in Nat /\ calls \in 0 .. MaxCalls
  /\ last \in {"fresh", "unfinished", "finished", "croaked"}

FlagTypeOK == utf8 \in BOOLEAN /\ finished \in BOOLEAN /\ alive \in BOOLEAN

TypeOK == ParserTypeOK /\ StackTypeOK /\ CallTypeOK /\ FlagTypeOK

(* Every open container still waits for an item, so that --c->count cannot     *)
(* pass zero, and no frame is open when an execute begins (_push).             *)
FramesOpen ==
  /\ \A i \in Slot : i < top => stack[i].count > 0
  /\ Parsing => ctx.top = 0
  /\ pc = "finish" \/ (pc = "idle" /\ last # "croaked") => top = 0 /\ ctx.top = 0

(* A call parses inside the bytes it was given and returns an offset inside    *)
(* them.                                                                       *)
ReadsInBounds ==
  /\ pc \in {"header", "push"} => p < Len(data)
  /\ pc \in {"trail", "finish"} => p <= Len(data)

(* Right after an execute that came back, is_finished says whether data has a  *)
(* value: xs_unpacker_data would otherwise hand a C NULL pointer to Perl.      *)
FinishedHasData ==
  pc = "idle" /\ last \in {"finished", "unfinished"} =>
    (is_finished <=> Data # NULL)

(* A program that resets after each message never meets a stale trail, which   *)
(* would send p four gigabytes on (the unsigned trail - 1 of the default case).*)
NeverUndefined ==
  /\ pc # "undefined"
  /\ pc = "trail" => trail > 0

(* Between calls the context is as template_init left it, unless the program   *)
(* owes a reset: an unfinished parse is always begun again from its bytes.     *)
ContextIsFresh ==
  pc = "idle" /\ last \in {"fresh", "unfinished"} =>
    ctx = InitCtx /\ TemplateData = NULL

-------------------------------------------------------------------------------
(* The abstract stream this unpacker implements, with the pure Perl decoder    *)
(* for what a message means.                                                   *)
Stream == INSTANCE MessageStream WITH
  Decode  <- Decode,
  Chunks  <- {SubSeq(a.bytes, 1, a.limit) : a \in Arguments},
  Depth   <- StackSize,
  pending <- IF ~alive \/ last \in {"finished", "croaked"} THEN << >>
             ELSE IF pc = "idle" THEN buffer ELSE data,
  phase   <- IF ~alive THEN "reading"
             ELSE IF pc # "idle" THEN "deciding"
             ELSE CASE last = "finished" -> "whole"
                    [] last = "croaked" -> "broken"
                    [] OTHER -> "reading",
  value   <- IF alive /\ last = "finished" THEN TemplateData ELSE NULL,
  used    <- IF alive /\ last = "finished" THEN ret ELSE 0,
  text    <- utf8

(* However a message is cut into calls, execute reports it whole exactly when  *)
(* its last byte is there, data is its value and the returned offset is its    *)
(* end; until then nothing is lost (_execute_impl, _execute).                  *)
ImplementsStream == Stream!Spec

-------------------------------------------------------------------------------
(* SVs that nothing points to any more.                                        *)
Leaked == live - (IF alive THEN Held ELSE obj.svs)

(* The steps that may drop what they point to: template_init on insufficient   *)
(* bytes, the EXT croak, and reset or DESTROY after a parse error.             *)
Abandons ==
  \/ ReturnUnfinished \/ ExtCroak
  \/ last = "croaked" /\ (Reset \/ DESTROY)

(* Every other step keeps each SV owned or releases it: a program that gets    *)
(* its messages whole leaks nothing, key SVs and overwritten hash values       *)
(* included.                                                                   *)
LeaksOnlyWhenAbandoning == [][Leaked' = Leaked \/ Abandons]_vars

(* No SV is released twice.                                                    *)
NoDoubleFree == Leaked >= 0

(* Every execute comes back to its caller.                                     *)
Returns == pc # "idle" ~> pc = "idle"
===============================================================================
