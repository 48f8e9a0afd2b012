----------------------------- MODULE MCTextSweep -----------------------------
(***************************************************************************)
(* Small instances of TextSweep.  The byte values are one per encoded      *)
(* length, told by their low bits: 1 starts a 2-byte unit, 19 a 4-byte     *)
(* unit, 31 a 6-byte and 63 an 8-byte unit, 127 a longer one; 147 is a     *)
(* second 4-byte opening with the top bit set, so that it also makes the   *)
(* 32-bit word negative when it is the last byte.                          *)
(***************************************************************************)
EXTENDS TextSweep

AnyLength   == {1, 147, 31}
ShortUnits  == {1, 147}
SixByte     == {1, 31}
=============================================================================
