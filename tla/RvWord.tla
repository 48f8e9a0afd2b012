------------------------------- MODULE RvWord -------------------------------
(***************************************************************************)
(* Instruction words of the disassembler.  The program assembles a word    *)
(* from bytes with byte_get_little_endian, keeps it in the int32_t `inst`  *)
(* of disassemble_text_section and passes it on as the uint64_t rv_inst,   *)
(* so a 32-bit word reaches the decoder sign-extended.  A word is here the *)
(* integer that int32_t holds: floor division by a power of two is then    *)
(* exactly the shift of the sign-extended rv_inst, and % the mask.         *)
(***************************************************************************)
EXTENDS Integers

Byte == 0 .. 255

(***************************************************************************)
(* byte_get_little_endian(field, 2), and byte_get_little_endian(field, 4)  *)
(* after its assignment to int32_t: the top byte carries the sign.         *)
(***************************************************************************)
get2(b) == b[0] + 256 * b[1]

int8(b) == IF b < 128 THEN b ELSE b - 256

get4(b) == get2(b) + 65536 * (b[2] + 256 * int8(b[3]))

(***************************************************************************)
(* Length in bytes that the low bits of a word encode; 0 is "longer than   *)
(* 64 bits", which the program has no encoding for.                        *)
(***************************************************************************)
inst_length(inst) ==
  CASE inst % 4 # 3                                -> 2
    [] inst % 4 = 3 /\ inst % 32 < 28              -> 4
    [] inst % 64 = 31                              -> 6
    [] inst % 128 = 63                             -> 8
    [] OTHER                                       -> 0
=============================================================================
