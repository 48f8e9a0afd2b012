----------------------------- MODULE RvOperands -----------------------------
(***************************************************************************)
(* Operand extraction.  Each operand_* of the program cuts bit fields out  *)
(* of the word by a left and a right shift and puts them together with |;  *)
(* the fields never overlap, so | is + here.  (int64_t)inst << k makes the *)
(* right shift arithmetic: the topmost field is then signed.               *)
(***************************************************************************)
EXTENDS RvWord

(* `width` bits from bit lo on, as in (inst << 64-lo-width) >> 64-width;   *)
(* and the same with everything from bit lo up to bit 31 kept, signed.     *)
Bits(inst, lo, width) == (inst \div 2^lo) % 2^width

SignedFrom(inst, lo) == inst \div 2^lo

(* ((int64_t)inst << 32) >> 63, and a lower bit shifted down as a sign.    *)
Sign(inst) == IF inst < 0 THEN -1 ELSE 0

MinusBit(inst, lo) == - Bits(inst, lo, 1)

(* Slips: bit 11 of the branch offset lost; a bit too many.                *)
operand_sbimm12_NoBit11(inst) ==
  Sign(inst) * 2^12 + Bits(inst, 25, 6) * 2^5 + Bits(inst, 8, 4) * 2

operand_pred_FiveBits(inst) == Bits(inst, 23, 5)

operand_rd(inst)       == Bits(inst, 7, 5)
operand_rs1(inst)      == Bits(inst, 15, 5)
operand_rs2(inst)      == Bits(inst, 20, 5)
operand_rs3(inst)      == Bits(inst, 27, 5)
operand_aq(inst)       == Bits(inst, 26, 1)
operand_rl(inst)       == Bits(inst, 25, 1)
operand_pred(inst)     == Bits(inst, 24, 4)
operand_succ(inst)     == Bits(inst, 20, 4)
operand_rm(inst)       == Bits(inst, 12, 3)
operand_shamt5(inst)   == Bits(inst, 20, 5)
operand_shamt6(inst)   == Bits(inst, 20, 6)
operand_shamt7(inst)   == Bits(inst, 20, 7)
operand_csr12(inst)    == Bits(inst, 20, 12)
operand_crdq(inst)     == Bits(inst, 2, 3)
operand_crs1q(inst)    == Bits(inst, 7, 3)
operand_crs1rdq(inst)  == Bits(inst, 7, 3)
operand_crs2q(inst)    == Bits(inst, 2, 3)
operand_crd(inst)      == Bits(inst, 7, 5)
operand_crs1(inst)     == Bits(inst, 7, 5)
operand_crs1rd(inst)   == Bits(inst, 7, 5)
operand_crs2(inst)     == Bits(inst, 2, 5)

operand_imm12(inst)    == SignedFrom(inst, 20)
operand_imm20(inst)    == SignedFrom(inst, 12) * 2^12
operand_simm12(inst)   == SignedFrom(inst, 25) * 2^5 + Bits(inst, 7, 5)
operand_sbimm12(inst)  ==
  Sign(inst) * 2^12 + Bits(inst, 25, 6) * 2^5
    + Bits(inst, 8, 4) * 2 + Bits(inst, 7, 1) * 2^11
operand_jimm20(inst)   ==
  Sign(inst) * 2^20 + Bits(inst, 21, 10) * 2
    + Bits(inst, 20, 1) * 2^11 + Bits(inst, 12, 8) * 2^12

operand_cimmsh5(inst)  == Bits(inst, 2, 5)
operand_cimmsh6(inst)  == Bits(inst, 12, 1) * 2^5 + Bits(inst, 2, 5)
operand_cimmi(inst)    == MinusBit(inst, 12) * 2^5 + Bits(inst, 2, 5)
operand_cimmui(inst)   == MinusBit(inst, 12) * 2^17 + Bits(inst, 2, 5) * 2^12
operand_cimmlwsp(inst) ==
  Bits(inst, 12, 1) * 2^5 + Bits(inst, 4, 3) * 2^2 + Bits(inst, 2, 2) * 2^6
operand_cimmldsp(inst) ==
  Bits(inst, 12, 1) * 2^5 + Bits(inst, 5, 2) * 2^3 + Bits(inst, 2, 3) * 2^6
operand_cimmlqsp(inst) ==
  Bits(inst, 12, 1) * 2^5 + Bits(inst, 6, 1) * 2^4 + Bits(inst, 2, 4) * 2^6
operand_cimm16sp(inst) ==
  MinusBit(inst, 12) * 2^9 + Bits(inst, 6, 1) * 2^4 + Bits(inst, 5, 1) * 2^6
    + Bits(inst, 3, 2) * 2^7 + Bits(inst, 2, 1) * 2^5
operand_cimmj(inst)    ==
  MinusBit(inst, 12) * 2^11 + Bits(inst, 11, 1) * 2^4 + Bits(inst, 9, 2) * 2^8
    + Bits(inst, 8, 1) * 2^10 + Bits(inst, 7, 1) * 2^6 + Bits(inst, 6, 1) * 2^7
    + Bits(inst, 3, 3) * 2 + Bits(inst, 2, 1) * 2^5
operand_cimmb(inst)    ==
  MinusBit(inst, 12) * 2^8 + Bits(inst, 10, 2) * 2^3 + Bits(inst, 5, 2) * 2^6
    + Bits(inst, 3, 2) * 2 + Bits(inst, 2, 1) * 2^5
operand_cimmswsp(inst) == Bits(inst, 9, 4) * 2^2 + Bits(inst, 7, 2) * 2^6
operand_cimmsdsp(inst) == Bits(inst, 10, 3) * 2^3 + Bits(inst, 7, 3) * 2^6
operand_cimmsqsp(inst) == Bits(inst, 11, 2) * 2^4 + Bits(inst, 7, 4) * 2^6
operand_cimm4spn(inst) ==
  Bits(inst, 11, 2) * 2^4 + Bits(inst, 7, 4) * 2^6
    + Bits(inst, 6, 1) * 2^2 + Bits(inst, 5, 1) * 2^3
operand_cimmw(inst)    ==
  Bits(inst, 10, 3) * 2^3 + Bits(inst, 6, 1) * 2^2 + Bits(inst, 5, 1) * 2^6
operand_cimmd(inst)    == Bits(inst, 10, 3) * 2^3 + Bits(inst, 5, 2) * 2^6
operand_cimmq(inst)    ==
  Bits(inst, 11, 2) * 2^4 + Bits(inst, 10, 1) * 2^8 + Bits(inst, 5, 2) * 2^6

-----------------------------------------------------------------------------
(***************************************************************************)
(* rv_inst_oprands, for an instruction d of the given type: the fields its *)
(* case assigns.  A field no case assigns keeps the zero that              *)
(* disassemble_inst initialised it with; so do all, for type_illegal.      *)
(***************************************************************************)
Set(d, rd, rs1, rs2, imm) ==
  [d EXCEPT !.rd = rd, !.rs1 = rs1, !.rs2 = rs2, !.imm = imm]

UncompressedTypes ==
  {"none", "u", "uj", "i", "i_sh5", "i_sh6", "i_sh7", "i_csr", "s", "sb",
   "r", "r_m", "r4_m", "r_a", "r_l", "r_f"}

UncompressedOperands(d, type) ==
  LET i   == d.inst
      rd  == operand_rd(i)
      rs1 == operand_rs1(i)
      rs2 == operand_rs2(i)
      r   == Set(d, rd, rs1, rs2, 0)
  IN  CASE type = "none"  -> Set(d, 0, 0, 0, 0)
        [] type = "u"     -> Set(d, rd, 0, 0, operand_imm20(i))
        [] type = "uj"    -> Set(d, rd, 0, 0, operand_jimm20(i))
        [] type = "i"     -> Set(d, rd, rs1, 0, operand_imm12(i))
        [] type = "i_sh5" -> Set(d, rd, rs1, 0, operand_shamt5(i))
        [] type = "i_sh6" -> Set(d, rd, rs1, 0, operand_shamt6(i))
        [] type = "i_sh7" -> Set(d, rd, rs1, 0, operand_shamt7(i))
        [] type = "i_csr" -> Set(d, rd, rs1, 0, operand_csr12(i))
        [] type = "s"     -> Set(d, 0, rs1, rs2, operand_simm12(i))
        [] type = "sb"    -> Set(d, 0, rs1, rs2, operand_sbimm12(i))
        [] type = "r"     -> r
        [] type = "r_m"   -> [r EXCEPT !.rm = operand_rm(i)]
        [] type = "r4_m"  -> [r EXCEPT !.rs3 = operand_rs3(i), !.rm = operand_rm(i)]
        [] type = "r_a"   -> [r EXCEPT !.aq = operand_aq(i), !.rl = operand_rl(i)]
        [] type = "r_l"   -> [Set(d, rd, rs1, 0, 0) EXCEPT !.aq = operand_aq(i), !.rl = operand_rl(i)]
        [] type = "r_f"   -> [Set(d, 0, 0, 0, 0) EXCEPT !.pred = operand_pred(i), !.succ = operand_succ(i)]

CompressedTypes ==
  {"cb", "cb_imm", "cb_sh5", "cb_sh6", "ci", "ci_sh5", "ci_sh6", "ci_16sp",
   "ci_lwsp", "ci_ldsp", "ci_lqsp", "ci_li", "ci_lui", "ci_none", "ciw_4spn",
   "cj", "cj_jal", "cl_lw", "cl_ld", "cl_lq", "cr", "cr_mv", "cr_jalr", "cr_jr",
   "cs", "cs_sw", "cs_sd", "cs_sq", "css_swsp", "css_sdsp", "css_sqsp"}

rv_type == {"illegal"} \cup UncompressedTypes \cup CompressedTypes

CompressedOperands(d, type) ==
  LET i    == d.inst
      rd   == operand_crd(i)
      rdq  == operand_crdq(i) + 8
      rs1q == operand_crs1q(i) + 8
      rs2q == operand_crs2q(i) + 8
      both == operand_crs1rd(i)         \* a register that is rd and rs1
      bothq == operand_crs1rdq(i) + 8
      rs2  == operand_crs2(i)
  IN  CASE type = "cb"       -> Set(d, 0, rs1q, 0, operand_cimmb(i))
        [] type = "cb_imm"   -> Set(d, bothq, bothq, 0, operand_cimmi(i))
        [] type = "cb_sh5"   -> Set(d, bothq, bothq, 0, operand_cimmsh5(i))
        [] type = "cb_sh6"   -> Set(d, bothq, bothq, 0, operand_cimmsh6(i))
        [] type = "ci"       -> Set(d, both, both, 0, operand_cimmi(i))
        [] type = "ci_sh5"   -> Set(d, both, both, 0, operand_cimmsh5(i))
        [] type = "ci_sh6"   -> Set(d, both, both, 0, operand_cimmsh6(i))
        [] type = "ci_16sp"  -> Set(d, 2, 2, 0, operand_cimm16sp(i))
        [] type = "ci_lwsp"  -> Set(d, rd, 2, 0, operand_cimmlwsp(i))
        [] type = "ci_ldsp"  -> Set(d, rd, 2, 0, operand_cimmldsp(i))
        [] type = "ci_lqsp"  -> Set(d, rd, 2, 0, operand_cimmlqsp(i))
        [] type = "ci_li"    -> Set(d, rd, 0, 0, operand_cimmi(i))
        [] type = "ci_lui"   -> Set(d, rd, 0, 0, operand_cimmui(i))
        [] type = "ci_none"  -> Set(d, 0, 0, 0, 0)
        [] type = "ciw_4spn" -> Set(d, rdq, 2, 0, operand_cimm4spn(i))
        [] type = "cj"       -> Set(d, 0, 0, 0, operand_cimmj(i))
        [] type = "cj_jal"   -> Set(d, 1, 0, 0, operand_cimmj(i))
        [] type = "cl_lw"    -> Set(d, rdq, rs1q, 0, operand_cimmw(i))
        [] type = "cl_ld"    -> Set(d, rdq, rs1q, 0, operand_cimmd(i))
        [] type = "cl_lq"    -> Set(d, rdq, rs1q, 0, operand_cimmq(i))
        [] type = "cr"       -> Set(d, both, both, rs2, 0)
        [] type = "cr_mv"    -> Set(d, rd, rs2, 0, 0)
        [] type = "cr_jalr"  -> Set(d, 1, operand_crs1(i), 0, 0)
        [] type = "cr_jr"    -> Set(d, 0, operand_crs1(i), 0, 0)
        [] type = "cs"       -> Set(d, bothq, bothq, rs2q, 0)
        [] type = "cs_sw"    -> Set(d, 0, rs1q, rs2q, operand_cimmw(i))
        [] type = "cs_sd"    -> Set(d, 0, rs1q, rs2q, operand_cimmd(i))
        [] type = "cs_sq"    -> Set(d, 0, rs1q, rs2q, operand_cimmq(i))
        [] type = "css_swsp" -> Set(d, 0, 2, rs2, operand_cimmswsp(i))
        [] type = "css_sdsp" -> Set(d, 0, 2, rs2, operand_cimmsdsp(i))
        [] type = "css_sqsp" -> Set(d, 0, 2, rs2, operand_cimmsqsp(i))

rv_inst_oprands(d, type) ==
  CASE type \in UncompressedTypes -> UncompressedOperands([d EXCEPT !.type = type], type)
    [] type \in CompressedTypes   -> CompressedOperands([d EXCEPT !.type = type], type)
    [] OTHER                      -> [d EXCEPT !.type = type]
=============================================================================
