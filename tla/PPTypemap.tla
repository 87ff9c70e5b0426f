------------------------------- MODULE PPTypemap -------------------------------
(******************************************************************************)
(* How lib/Data/MessagePack/PP.pm sorts header bytes: its @typemap and the     *)
(* sizes that _fetch_size, _unpack and _count attach to them.                  *)
(******************************************************************************)
EXTENDS PerlValue

T_DIRECT(b) == b \in (0 .. 127) \cup (224 .. 255) \cup {192, 194, 195}
T_ARRAY(b)  == b \in (144 .. 159) \cup {220, 221}
T_MAP(b)    == b \in (128 .. 143) \cup {222, 223}
T_STR(b)    == b \in (160 .. 191) \cup {217, 218, 219}
T_BIN(b)    == b \in {196, 197, 198}

byte2value(b) ==
  IF b = 195 THEN Bool(TRUE)
  ELSE IF b = 194 THEN Bool(FALSE)
  ELSE IF b = 192 THEN Undef
  ELSE IntValue(IF b < 128 THEN b ELSE b - 256)

(* _fetch_size: how many bytes hold the size; 0 when the header byte does.     *)
SizeBytes(b) ==
  IF b \in {217, 196} THEN 1
  ELSE IF b \in {218, 197, 220, 222} THEN 2
  ELSE IF b \in {219, 198, 221, 223} THEN 4
  ELSE 0

FixSize(b) ==   \* of a string, an array or a map
  IF b >= 160 THEN b - 160 ELSE IF b >= 144 THEN b - 144 ELSE b - 128

(* The fixed width numbers: 0xca to 0xd3.                                      *)
NumberWidth(b) ==
  IF b \in {204, 208} THEN 1
  ELSE IF b \in {205, 209} THEN 2
  ELSE IF b \in {202, 206, 210} THEN 4
  ELSE 8
===============================================================================
