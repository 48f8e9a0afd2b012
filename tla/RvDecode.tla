------------------------------- MODULE RvDecode -------------------------------
(***************************************************************************)
(* rv_inst_opcode: nested switches on bit fields of the word.  Each switch *)
(* is a table here, its cases in the order of the selector; a selector     *)
(* without a case leaves the op illegal.  Where the program switches on a  *)
(* concatenation of two fields, the table is picked by one of them and     *)
(* indexed by the other.  The S, D and Q forms of the float instructions   *)
(* differ in two bits of the word that the tables leave to Precision.      *)
(***************************************************************************)
EXTENDS RvOps, RvOperands, SequencesExt

Isas == {"rv32", "rv64", "rv128"}

(* The k-th entry, from 0; "-" marks a selector without a case.             *)
Case(table, k) ==
  IF k < Len(table) /\ table[k + 1] # "-" THEN <<table[k + 1]>> ELSE op_illegal

CaseC(table, k) == LET c == Case(table, k) IN IF c = op_illegal THEN c ELSE <<"c">> \o c

(* c if the fields that select no operand are zero.                        *)
When(condition, c) == IF condition THEN c ELSE op_illegal

funct3(inst) == Bits(inst, 12, 3)
funct5(inst) == Bits(inst, 27, 5)
funct7(inst) == Bits(inst, 25, 7)

-----------------------------------------------------------------------------
(* 16-bit words, quadrant 0.                                               *)
Quadrant0(inst, isa) ==
  CaseC(<<"addi4spn",
          IF isa = "rv128" THEN "lq" ELSE "fld",
          "lw",
          IF isa = "rv32" THEN "flw" ELSE "ld",
          "-",
          IF isa = "rv128" THEN "sq" ELSE "fsd",
          "sw",
          IF isa = "rv32" THEN "fsw" ELSE "sd">>, Bits(inst, 13, 3))

CompressedAlu(inst) ==
  LET f == Bits(inst, 10, 2)
  IN  IF f < 3 THEN CaseC(<<"srli", "srai", "andi">>, f)
      ELSE CaseC(<<"sub", "xor", "or", "and", "subw", "addw">>,
                 4 * Bits(inst, 12, 1) + Bits(inst, 5, 2))

Quadrant1(inst, isa) ==
  IF Bits(inst, 13, 3) = 4 THEN CompressedAlu(inst)
  ELSE CaseC(<<IF Bits(inst, 2, 11) = 0 THEN "nop" ELSE "addi",
               IF isa = "rv32" THEN "jal" ELSE "addiw",
               "li",
               IF Bits(inst, 7, 5) = 2 THEN "addi16sp" ELSE "lui",
               "-", "j", "beqz", "bnez">>, Bits(inst, 13, 3))

CompressedJump(inst) ==
  LET rs2 == Bits(inst, 2, 5)
  IN  IF Bits(inst, 12, 1) = 0
      THEN IF rs2 = 0 THEN <<"c", "jr">> ELSE <<"c", "mv">>
      ELSE CASE rs2 # 0                         -> <<"c", "add">>
             [] rs2 = 0 /\ Bits(inst, 7, 5) = 0 -> <<"c", "ebreak">>
             [] rs2 = 0 /\ Bits(inst, 7, 5) # 0 -> <<"c", "jalr">>

Quadrant2(inst, isa) ==
  IF Bits(inst, 13, 3) = 4 THEN CompressedJump(inst)
  ELSE CaseC(<<"slli",
               IF isa = "rv128" THEN "lqsp" ELSE "fldsp",
               "lwsp",
               IF isa = "rv32" THEN "flwsp" ELSE "ldsp",
               "-",
               IF isa = "rv128" THEN "sqsp" ELSE "fsdsp",
               "swsp",
               IF isa = "rv32" THEN "fswsp" ELSE "sdsp">>, Bits(inst, 13, 3))

-----------------------------------------------------------------------------
(* 32-bit words, by bits 6..2.                                             *)
MiscMem(inst) ==
  IF funct3(inst) = 1 THEN <<"fence", "i">>
  ELSE Case(<<"fence", "-", "lq">>, funct3(inst))

OpImm(inst) ==
  CASE funct3(inst) = 1 -> When(funct5(inst) = 0, <<"slli">>)
    [] funct3(inst) = 5 -> Case(<<"srli", "-", "-", "-", "-", "-", "-", "-", "srai">>, funct5(inst))
    [] OTHER            -> Case(<<"addi", "-", "slti", "sltiu", "xori", "-", "ori", "andi">>, funct3(inst))

OpImm32(inst) ==
  CASE funct3(inst) = 0 -> <<"addiw">>
    [] funct3(inst) = 1 -> When(funct7(inst) = 0, <<"slliw">>)
    [] funct3(inst) = 5 /\ funct7(inst) = 0  -> <<"srliw">>
    [] funct3(inst) = 5 /\ funct7(inst) = 32 -> <<"sraiw">>
    [] OTHER -> op_illegal

OpImm64(inst) ==
  LET funct6 == Bits(inst, 26, 6)
  IN  CASE funct3(inst) = 0 -> <<"addid">>
        [] funct3(inst) = 1 -> When(funct6 = 0, <<"sllid">>)
        [] funct3(inst) = 5 /\ funct6 = 0  -> <<"srlid">>
        [] funct3(inst) = 5 /\ funct6 = 16 -> <<"sraid">>
        [] OTHER -> op_illegal

Amo(inst) ==
  LET width == Case(<<"-", "-", "w", "d", "q">>, funct3(inst))
      name  == Case(<<"amoadd", "amoswap", "lr", "sc", "amoxor", "-", "-", "-",
                      "amoor", "-", "-", "-", "amoand", "-", "-", "-",
                      "amomin", "-", "-", "-", "amomax", "-", "-", "-",
                      "amominu", "-", "-", "-", "amomaxu">>, funct5(inst))
  IN  When(/\ op_illegal \notin {width, name}
           /\ name = <<"lr">> => Bits(inst, 20, 5) = 0,
           name \o width)

(* The R-type arithmetic, by funct7 and then funct3.                       *)
Arithmetic(inst, zero, one, thirtytwo) ==
  CASE funct7(inst) = 0  -> Case(zero, funct3(inst))
    [] funct7(inst) = 1  -> Case(one, funct3(inst))
    [] funct7(inst) = 32 -> Case(thirtytwo, funct3(inst))
    [] OTHER             -> op_illegal

Op(inst) ==
  Arithmetic(inst,
    <<"add", "sll", "slt", "sltu", "xor", "srl", "or", "and">>,
    <<"mul", "mulh", "mulhsu", "mulhu", "div", "divu", "rem", "remu">>,
    <<"sub", "-", "-", "-", "-", "sra">>)

Op32(inst) ==
  Arithmetic(inst,
    <<"addw", "sllw", "-", "-", "-", "srlw">>,
    <<"mulw", "-", "-", "-", "divw", "divuw", "remw", "remuw">>,
    <<"subw", "-", "-", "-", "-", "sraw">>)

Op64(inst) ==
  Arithmetic(inst,
    <<"addd", "slld", "-", "-", "-", "srld">>,
    <<"muld", "-", "-", "-", "divd", "divud", "remd", "remud">>,
    <<"subd", "-", "-", "-", "-", "srad">>)

Precision(k) == Case(<<"s", "d", "-", "q">>, k)

Fused(name, inst) ==
  LET p == Precision(Bits(inst, 25, 2))
  IN  When(p # op_illegal, <<name>> \o p)

(* OP-FP, by its upper five bits: what they name exists in each precision. *)
FpCompute(inst) ==
  LET f5   == funct5(inst)
      rs2  == Bits(inst, 20, 5)
      p    == Precision(Bits(inst, 25, 2))
      from == Precision(rs2)
  IN  CASE f5 < 4  -> Case(<<"fadd", "fsub", "fmul", "fdiv">>, f5)
        [] f5 = 4  -> Case(<<"fsgnj", "fsgnjn", "fsgnjx">>, funct3(inst))
        [] f5 = 5  -> Case(<<"fmin", "fmax">>, funct3(inst))
        [] f5 = 8  -> When(from # p, <<"fcvt">>)
        [] f5 = 11 -> When(rs2 = 0, <<"fsqrt">>)
        [] f5 = 20 -> Case(<<"fle", "flt", "feq">>, funct3(inst))

IntFormat(inst) == Case(<<"w", "wu", "l", "lu">>, Bits(inst, 20, 5))

FpMove(inst) ==
  When(Bits(inst, 20, 5) = 0,
       IF funct5(inst) = 28 THEN Case(<<"fmv", "fclass">>, funct3(inst))
                            ELSE Case(<<"fmv">>, funct3(inst)))

OpFp(inst) ==
  LET f5   == funct5(inst)
      p    == Precision(Bits(inst, 25, 2))
      int  == IntFormat(inst)
      from == Precision(Bits(inst, 20, 5))
      comp == FpCompute(inst)
      move == FpMove(inst)
      Named(parts, name) == When(op_illegal \notin parts, name)
  IN  CASE f5 \in {0, 1, 2, 3, 4, 5, 11, 20} -> Named({comp, p}, comp \o p)
        [] f5 = 8  -> Named({comp, p, from}, comp \o p \o from)
        [] f5 = 24 -> Named({int, p}, <<"fcvt">> \o int \o p)
        [] f5 = 26 -> Named({int, p}, <<"fcvt">> \o p \o int)
        [] f5 = 28 -> Named({move, p}, IF funct3(inst) = 0 THEN move \o <<"x">> \o p ELSE move \o p)
        [] f5 = 30 -> Named({move, p}, move \o p \o <<"x">>)
        [] OTHER   -> op_illegal

(* ecall and its like: funct7 and rd, then rs2, then rs1.                  *)
Privileged(inst) ==
  LET f7  == funct7(inst)
      rs1 == operand_rs1(inst)
      rs2 == operand_rs2(inst)
  IN  CASE operand_rd(inst) # 0 -> op_illegal
        [] operand_rd(inst) = 0 /\ f7 = 0 ->
             When(rs1 = 0, Case(<<"ecall", "ebreak", "uret">>, rs2))
        [] operand_rd(inst) = 0 /\ f7 = 8 ->
             CASE rs2 = 2 /\ rs1 = 0 -> <<"sret">>
               [] rs2 = 4            -> <<"sfence", "vm">>
               [] rs2 = 5 /\ rs1 = 0 -> <<"wfi">>
               [] OTHER              -> op_illegal
        [] operand_rd(inst) = 0 /\ f7 = 9  -> <<"sfence", "vma">>
        [] operand_rd(inst) = 0 /\ f7 = 16 -> When(rs2 = 2 /\ rs1 = 0, <<"hret">>)
        [] operand_rd(inst) = 0 /\ f7 = 24 -> When(rs2 = 2 /\ rs1 = 0, <<"mret">>)
        [] operand_rd(inst) = 0 /\ f7 = 61 -> When(rs2 = 18 /\ rs1 = 0, <<"dret">>)
        [] OTHER -> op_illegal

System(inst) ==
  IF funct3(inst) = 0 THEN Privileged(inst)
  ELSE Case(<<"-", "csrrw", "csrrs", "csrrc", "-", "csrrwi", "csrrsi", "csrrci">>, funct3(inst))

Quadrant3(inst) ==
  LET opcode == Bits(inst, 2, 5)
      f3     == funct3(inst)
  IN  CASE opcode = 0  -> Case(<<"lb", "lh", "lw", "ld", "lbu", "lhu", "lwu", "ldu">>, f3)
        [] opcode = 1  -> Case(<<"-", "-", "flw", "fld", "flq">>, f3)
        [] opcode = 3  -> MiscMem(inst)
        [] opcode = 4  -> OpImm(inst)
        [] opcode = 5  -> <<"auipc">>
        [] opcode = 6  -> OpImm32(inst)
        [] opcode = 8  -> Case(<<"sb", "sh", "sw", "sd", "sq">>, f3)
        [] opcode = 9  -> Case(<<"-", "-", "fsw", "fsd", "fsq">>, f3)
        [] opcode = 11 -> Amo(inst)
        [] opcode = 12 -> Op(inst)
        [] opcode = 13 -> <<"lui">>
        [] opcode = 14 -> Op32(inst)
        [] opcode = 16 -> Fused("fmadd", inst)
        [] opcode = 17 -> Fused("fmsub", inst)
        [] opcode = 18 -> Fused("fnmsub", inst)
        [] opcode = 19 -> Fused("fnmadd", inst)
        [] opcode = 20 -> OpFp(inst)
        [] opcode = 22 -> OpImm64(inst)
        [] opcode = 24 -> Case(<<"beq", "bne", "-", "-", "blt", "bge", "bltu", "bgeu">>, f3)
        [] opcode = 25 -> When(f3 = 0, <<"jalr">>)
        [] opcode = 27 -> <<"jal">>
        [] opcode = 28 -> System(inst)
        [] opcode = 30 -> Op64(inst)
        [] OTHER       -> op_illegal

rv_inst_opcode(inst, isa) ==
  CASE inst % 4 = 0 -> Quadrant0(inst, isa)
    [] inst % 4 = 1 -> Quadrant1(inst, isa)
    [] inst % 4 = 2 -> Quadrant2(inst, isa)
    [] inst % 4 = 3 -> Quadrant3(inst)
=============================================================================
