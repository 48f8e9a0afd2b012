-------------------------------- MODULE RvOps --------------------------------
(***************************************************************************)
(* The instruction tables: rv_op, opcode_data and its formats, and the     *)
(* pseudo-instruction metadata.  rv_op and opcode_data list the same 319   *)
(* instructions in the same order, so an op is identified by its name, the *)
(* tuple of the name's dotted parts: fmadd.s is <<"fmadd", "s">>.          *)
(***************************************************************************)
EXTENDS Integers, Sequences

Plain(S)  == {<<s>> : s \in S}
Dot(S, T) == {<<s, t>> : s \in S, t \in T}
Dots(S, T, U) == {<<s, t, u>> : s \in S, t \in T, u \in U}

op_illegal == <<"illegal">>

-----------------------------------------------------------------------------
(***************************************************************************)
(* Formats: one character for each part of the line after the word.        *)
(*   "O" the name, "A" "R" its .aq and .rl, "\t" blanks up to column Tab   *)
(*   "0" "1" "2"      integer registers rd, rs1, rs2                       *)
(*   "3" "4" "5" "6"  float registers rd, rs1, rs2, rs3                    *)
(*   "7"              rs1 as a number         "i" "o" "c"  the immediate   *)
(*   "r" rounding mode, "p" "s" fence sets, and "," "(" ")" themselves     *)
(***************************************************************************)
fmt_none                  == <<"O", "\t">>
fmt_rs1                   == <<"O", "\t", "1">>
fmt_offset                == <<"O", "\t", "o">>
fmt_pred_succ             == <<"O", "\t", "p", ",", "s">>
fmt_rs1_rs2               == <<"O", "\t", "1", ",", "2">>
fmt_rd_imm                == <<"O", "\t", "0", ",", "i">>
fmt_rd_offset             == <<"O", "\t", "0", ",", "o">>
fmt_rd_rs1_rs2            == <<"O", "\t", "0", ",", "1", ",", "2">>
fmt_frd_rs1               == <<"O", "\t", "3", ",", "1">>
fmt_rd_frs1               == <<"O", "\t", "0", ",", "4">>
fmt_rd_frs1_frs2          == <<"O", "\t", "0", ",", "4", ",", "5">>
fmt_frd_frs1_frs2         == <<"O", "\t", "3", ",", "4", ",", "5">>
fmt_rm_frd_frs1           == <<"O", "\t", "r", ",", "3", ",", "4">>
fmt_rm_frd_rs1            == <<"O", "\t", "r", ",", "3", ",", "1">>
fmt_rm_rd_frs1            == <<"O", "\t", "r", ",", "0", ",", "4">>
fmt_rm_frd_frs1_frs2      == <<"O", "\t", "r", ",", "3", ",", "4", ",", "5">>
fmt_rm_frd_frs1_frs2_frs3 == <<"O", "\t", "r", ",", "3", ",", "4", ",", "5", ",", "6">>
fmt_rd_rs1_imm            == <<"O", "\t", "0", ",", "1", ",", "i">>
fmt_rd_rs1_offset         == <<"O", "\t", "0", ",", "1", ",", "i">>
fmt_rd_offset_rs1         == <<"O", "\t", "0", ",", "i", "(", "1", ")">>
fmt_frd_offset_rs1        == <<"O", "\t", "3", ",", "i", "(", "1", ")">>
fmt_rd_csr_rs1            == <<"O", "\t", "0", ",", "c", ",", "1">>
fmt_rd_csr_zimm           == <<"O", "\t", "0", ",", "c", ",", "7">>
fmt_rs2_offset_rs1        == <<"O", "\t", "2", ",", "i", "(", "1", ")">>
fmt_frs2_offset_rs1       == <<"O", "\t", "5", ",", "i", "(", "1", ")">>
fmt_rs1_rs2_offset        == <<"O", "\t", "1", ",", "2", ",", "o">>
fmt_rs2_rs1_offset        == <<"O", "\t", "2", ",", "1", ",", "o">>
fmt_aqrl_rd_rs2_rs1       == <<"O", "A", "R", "\t", "0", ",", "2", ",", "(", "1", ")">>
fmt_aqrl_rd_rs1           == <<"O", "A", "R", "\t", "0", ",", "(", "1", ")">>
fmt_rd                    == <<"O", "\t", "0">>
fmt_rd_zimm               == <<"O", "\t", "0", ",", "7">>
fmt_rd_rs1                == <<"O", "\t", "0", ",", "1">>
fmt_rd_rs2                == <<"O", "\t", "0", ",", "2">>
fmt_rs1_offset            == <<"O", "\t", "1", ",", "o">>
fmt_rs2_offset            == <<"O", "\t", "2", ",", "o">>

-----------------------------------------------------------------------------
(* Rows of opcode_data that agree in type and format.                      *)
Row(type, format, ops) == [type |-> type, format |-> format, ops |-> ops]

BaseRows == {
  Row("illegal", fmt_none, {op_illegal}),
  Row("u", fmt_rd_imm, Plain({"lui"})),
  Row("u", fmt_rd_offset, Plain({"auipc"})),
  Row("uj", fmt_rd_offset, Plain({"jal"})),
  Row("i", fmt_rd_rs1_offset, Plain({"jalr"})),
  Row("sb", fmt_rs1_rs2_offset, Plain({"beq", "bne", "blt", "bge", "bltu", "bgeu"})),
  Row("i", fmt_rd_offset_rs1, Plain({"lb", "lh", "lw", "lbu", "lhu", "lwu", "ld", "ldu", "lq"})),
  Row("s", fmt_rs2_offset_rs1, Plain({"sb", "sh", "sw", "sd", "sq"})),
  Row("i", fmt_rd_rs1_imm,
      Plain({"addi", "slti", "sltiu", "xori", "ori", "andi", "addiw", "addid"})),
  Row("i_sh7", fmt_rd_rs1_imm, Plain({"slli", "srli", "srai"})),
  Row("i_sh5", fmt_rd_rs1_imm, Plain({"slliw", "srliw", "sraiw"})),
  Row("i_sh6", fmt_rd_rs1_imm, Plain({"sllid", "srlid", "sraid"})),
  Row("r", fmt_rd_rs1_rs2,
      Plain({"add", "sub", "sll", "slt", "sltu", "xor", "srl", "sra", "or", "and",
             "addw", "subw", "sllw", "srlw", "sraw", "addd", "subd", "slld", "srld", "srad",
             "mul", "mulh", "mulhsu", "mulhu", "div", "divu", "rem", "remu",
             "mulw", "divw", "divuw", "remw", "remuw", "muld", "divd", "divud", "remd", "remud"})),
  Row("r_f", fmt_pred_succ, Plain({"fence"})),
  Row("none", fmt_none, {<<"fence", "i">>}) }

AtomicRows == {
  Row("r_l", fmt_aqrl_rd_rs1, Dot({"lr"}, {"w", "d", "q"})),
  Row("r_a", fmt_aqrl_rd_rs2_rs1,
      Dot({"sc", "amoswap", "amoadd", "amoxor", "amoor", "amoand", "amomin", "amomax",
           "amominu", "amomaxu"}, {"w", "d", "q"})) }

SystemRows == {
  Row("none", fmt_none, Plain({"ecall", "ebreak", "uret", "sret", "hret", "mret", "dret", "wfi"})),
  Row("r", fmt_rs1, {<<"sfence", "vm">>}),
  Row("r", fmt_rs1_rs2, {<<"sfence", "vma">>}),
  Row("i_csr", fmt_rd_csr_rs1, Plain({"csrrw", "csrrs", "csrrc"})),
  Row("i_csr", fmt_rd_csr_zimm, Plain({"csrrwi", "csrrsi", "csrrci"})) }

Precisions == {"s", "d", "q"}
IntFormats == {"w", "wu", "l", "lu"}

FloatRows == {
  Row("i", fmt_frd_offset_rs1, Plain({"flw", "fld", "flq"})),
  Row("s", fmt_frs2_offset_rs1, Plain({"fsw", "fsd", "fsq"})),
  Row("r4_m", fmt_rm_frd_frs1_frs2_frs3, Dot({"fmadd", "fmsub", "fnmsub", "fnmadd"}, Precisions)),
  Row("r_m", fmt_rm_frd_frs1_frs2, Dot({"fadd", "fsub", "fmul", "fdiv"}, Precisions)),
  Row("r", fmt_frd_frs1_frs2, Dot({"fsgnj", "fsgnjn", "fsgnjx", "fmin", "fmax"}, Precisions)),
  Row("r_m", fmt_rm_frd_frs1,
      Dot({"fsqrt"}, Precisions)
        \cup {op \in Dots({"fcvt"}, Precisions, Precisions) : op[2] # op[3]}),
  Row("r", fmt_rd_frs1_frs2, Dot({"fle", "flt", "feq"}, Precisions)),
  Row("r_m", fmt_rm_rd_frs1, Dots({"fcvt"}, IntFormats, Precisions)),
  Row("r_m", fmt_rm_frd_rs1, Dots({"fcvt"}, Precisions, IntFormats)),
  Row("r", fmt_rd_frs1, Dot({"fclass"}, Precisions) \cup Dots({"fmv"}, {"x"}, Precisions)),
  Row("r", fmt_frd_rs1, Dots({"fmv"}, Precisions, {"x"})) }

C(S) == Dot({"c"}, S)

CompressedRows == {
  Row("ciw_4spn", fmt_rd_rs1_imm, C({"addi4spn"})),
  Row("cl_lw", fmt_rd_offset_rs1, C({"lw"})),      Row("cl_lw", fmt_frd_offset_rs1, C({"flw"})),
  Row("cl_ld", fmt_rd_offset_rs1, C({"ld"})),      Row("cl_ld", fmt_frd_offset_rs1, C({"fld"})),
  Row("cl_lq", fmt_rd_offset_rs1, C({"lq"})),
  Row("cs_sw", fmt_rs2_offset_rs1, C({"sw"})),     Row("cs_sw", fmt_frs2_offset_rs1, C({"fsw"})),
  Row("cs_sd", fmt_rs2_offset_rs1, C({"sd"})),     Row("cs_sd", fmt_frs2_offset_rs1, C({"fsd"})),
  Row("cs_sq", fmt_rs2_offset_rs1, C({"sq"})),
  Row("ci_none", fmt_none, C({"nop", "ebreak"})),
  Row("ci", fmt_rd_rs1_imm, C({"addi", "addiw"})),
  Row("ci_li", fmt_rd_rs1_imm, C({"li"})),
  Row("ci_16sp", fmt_rd_rs1_imm, C({"addi16sp"})), Row("ci_lui", fmt_rd_imm, C({"lui"})),
  Row("cb_sh6", fmt_rd_rs1_imm, C({"srli", "srai"})), Row("cb_imm", fmt_rd_rs1_imm, C({"andi"})),
  Row("cs", fmt_rd_rs1_rs2, C({"sub", "xor", "or", "and", "subw", "addw"})),
  Row("cj", fmt_rd_offset, C({"j"})),              Row("cj_jal", fmt_rd_offset, C({"jal"})),
  Row("cb", fmt_rs1_rs2_offset, C({"beqz", "bnez"})),
  Row("ci_sh6", fmt_rd_rs1_imm, C({"slli"})),
  Row("ci_lwsp", fmt_rd_offset_rs1, C({"lwsp"})),  Row("ci_lwsp", fmt_frd_offset_rs1, C({"flwsp"})),
  Row("ci_ldsp", fmt_rd_offset_rs1, C({"ldsp"})),  Row("ci_ldsp", fmt_frd_offset_rs1, C({"fldsp"})),
  Row("ci_lqsp", fmt_rd_offset_rs1, C({"lqsp"})),
  Row("css_swsp", fmt_rs2_offset_rs1, C({"swsp"})), Row("css_swsp", fmt_frs2_offset_rs1, C({"fswsp"})),
  Row("css_sdsp", fmt_rs2_offset_rs1, C({"sdsp"})), Row("css_sdsp", fmt_frs2_offset_rs1, C({"fsdsp"})),
  Row("css_sqsp", fmt_rs2_offset_rs1, C({"sqsp"})),
  Row("cr_jr", fmt_rd_rs1_offset, C({"jr"})),      Row("cr_jalr", fmt_rd_rs1_offset, C({"jalr"})),
  Row("cr_mv", fmt_rd_rs1_rs2, C({"mv"})),         Row("cr", fmt_rd_rs1_rs2, C({"add"})) }

PseudoRows == {
  Row("i", fmt_none, Plain({"nop", "ret"})),
  Row("i", fmt_rd_rs1, Plain({"mv", "not", "seqz"}) \cup {<<"sext", "w">>}),
  Row("i", fmt_rs1, Plain({"jr"})),
  Row("r", fmt_rd_rs2, Plain({"neg", "negw", "snez", "sgtz"})),
  Row("r", fmt_rd_rs1, Plain({"sltz"}) \cup Dot({"fmv", "fabs", "fneg"}, Precisions)),
  Row("sb", fmt_rs1_offset, Plain({"beqz", "bnez", "bgez", "bltz"})),
  Row("sb", fmt_rs2_offset, Plain({"blez", "bgtz"})),
  Row("sb", fmt_rs2_rs1_offset, Plain({"ble", "bleu", "bgt", "bgtu"})),
  Row("uj", fmt_offset, Plain({"j"})),
  Row("i_csr", fmt_rd, Plain({"rdcycle", "rdtime", "rdinstret", "rdcycleh", "rdtimeh",
                              "rdinstreth", "frcsr", "frrm", "frflags"})),
  Row("i_csr", fmt_rd_rs1, Plain({"fscsr", "fsrm", "fsflags"})),
  Row("i_csr", fmt_rd_zimm, Plain({"fsrmi", "fsflagsi"})) }

Rows == BaseRows \cup AtomicRows \cup SystemRows \cup FloatRows
          \cup CompressedRows \cup PseudoRows

rv_op == UNION {row.ops : row \in Rows}

opcode_data == [op \in rv_op |-> CHOOSE row \in Rows : op \in row.ops]
=============================================================================
