------------------------ MODULE DisassembleInstProofs ------------------------
(***************************************************************************)
(* Theorems about disassemble_inst, for every word.                        *)
(***************************************************************************)
EXTENDS DisassembleInst, DecodeProofs, FiniteSetTheorems, WellFoundedInduction

-----------------------------------------------------------------------------
(***************************************************************************)
(* Each op that rv_inst_opcode may choose is in the table: first, what the *)
(* rows list.                                                              *)
(***************************************************************************)
LEMMA RowOps ==
  ASSUME NEW type, NEW format, NEW ops, Row(type, format, ops) \in Rows
  PROVE  ops \subseteq rv_op
BY DEF rv_op, Row

LEMMA Illegal == op_illegal \in rv_op
BY RowOps DEF Rows, BaseRows

LEMMA BaseNames ==
  /\ \A n \in {"lui", "auipc", "jal", "jalr"} : <<n>> \in rv_op
  /\ \A n \in {"beq", "bne", "blt", "bge", "bltu", "bgeu"} : <<n>> \in rv_op
  /\ \A n \in {"lb", "lh", "lw", "lbu", "lhu", "lwu", "ld", "ldu", "lq"} : <<n>> \in rv_op
  /\ \A n \in {"sb", "sh", "sw", "sd", "sq"} : <<n>> \in rv_op
  /\ \A n \in {"addi", "slti", "sltiu", "xori", "ori", "andi", "addiw", "addid"} : <<n>> \in rv_op
  /\ \A n \in {"slli", "srli", "srai"} : <<n>> \in rv_op
  /\ \A n \in {"slliw", "srliw", "sraiw"} : <<n>> \in rv_op
  /\ \A n \in {"sllid", "srlid", "sraid"} : <<n>> \in rv_op
  /\ <<"fence">> \in rv_op /\ <<"fence", "i">> \in rv_op
<1>1. /\ Plain({"lui"}) \subseteq rv_op /\ Plain({"auipc"}) \subseteq rv_op
      /\ Plain({"jal"}) \subseteq rv_op /\ Plain({"jalr"}) \subseteq rv_op
      /\ Plain({"fence"}) \subseteq rv_op /\ {<<"fence", "i">>} \subseteq rv_op
  BY RowOps DEF Rows, BaseRows
<1>2. /\ Plain({"beq", "bne", "blt", "bge", "bltu", "bgeu"}) \subseteq rv_op
      /\ Plain({"lb", "lh", "lw", "lbu", "lhu", "lwu", "ld", "ldu", "lq"}) \subseteq rv_op
      /\ Plain({"sb", "sh", "sw", "sd", "sq"}) \subseteq rv_op
  BY RowOps DEF Rows, BaseRows
<1>3. /\ Plain({"addi", "slti", "sltiu", "xori", "ori", "andi", "addiw", "addid"}) \subseteq rv_op
      /\ Plain({"slli", "srli", "srai"}) \subseteq rv_op
      /\ Plain({"slliw", "srliw", "sraiw"}) \subseteq rv_op
      /\ Plain({"sllid", "srlid", "sraid"}) \subseteq rv_op
  BY RowOps DEF Rows, BaseRows
<1> QED
  BY <1>1, <1>2, <1>3 DEF Plain

LEMMA ArithmeticNames ==
  \A n \in {"add", "sub", "sll", "slt", "sltu", "xor", "srl", "sra", "or", "and",
            "addw", "subw", "sllw", "srlw", "sraw", "addd", "subd", "slld", "srld", "srad",
            "mul", "mulh", "mulhsu", "mulhu", "div", "divu", "rem", "remu",
            "mulw", "divw", "divuw", "remw", "remuw", "muld", "divd", "divud", "remd", "remud"} :
    <<n>> \in rv_op
<1>1. Plain({"add", "sub", "sll", "slt", "sltu", "xor", "srl", "sra", "or", "and",
             "addw", "subw", "sllw", "srlw", "sraw", "addd", "subd", "slld", "srld", "srad",
             "mul", "mulh", "mulhsu", "mulhu", "div", "divu", "rem", "remu",
             "mulw", "divw", "divuw", "remw", "remuw", "muld", "divd", "divud", "remd", "remud"})
        \subseteq rv_op
  BY RowOps DEF Rows, BaseRows
<1> QED
  BY <1>1 DEF Plain

LEMMA SystemNames ==
  /\ \A n \in {"ecall", "ebreak", "uret", "sret", "hret", "mret", "dret", "wfi"} : <<n>> \in rv_op
  /\ \A n \in {"csrrw", "csrrs", "csrrc", "csrrwi", "csrrsi", "csrrci"} : <<n>> \in rv_op
  /\ <<"sfence", "vm">> \in rv_op /\ <<"sfence", "vma">> \in rv_op
<1>1. /\ Plain({"ecall", "ebreak", "uret", "sret", "hret", "mret", "dret", "wfi"}) \subseteq rv_op
      /\ Plain({"csrrw", "csrrs", "csrrc"}) \subseteq rv_op
      /\ Plain({"csrrwi", "csrrsi", "csrrci"}) \subseteq rv_op
      /\ {<<"sfence", "vm">>} \subseteq rv_op /\ {<<"sfence", "vma">>} \subseteq rv_op
  BY RowOps DEF Rows, SystemRows
<1> QED
  BY <1>1 DEF Plain

LEMMA Dotted ==
  /\ \A S, T : Dot(S, T) \subseteq rv_op => \A s \in S, t \in T : <<s, t>> \in rv_op
  /\ \A S, T, U : Dots(S, T, U) \subseteq rv_op =>
       \A s \in S, t \in T, u \in U : <<s, t, u>> \in rv_op
<1>1. ASSUME NEW S, NEW T, NEW s \in S, NEW t \in T
      PROVE  <<s, t>> \in Dot(S, T)
  BY DEF Dot
<1>2. ASSUME NEW S, NEW T, NEW U, NEW s \in S, NEW t \in T, NEW u \in U
      PROVE  <<s, t, u>> \in Dots(S, T, U)
  BY DEF Dots
<1> QED
  BY <1>1, <1>2

LEMMA AmoNames ==
  \A n \in {"lr", "sc", "amoswap", "amoadd", "amoxor", "amoor", "amoand", "amomin", "amomax",
            "amominu", "amomaxu"}, w \in {"w", "d", "q"} : <<n, w>> \in rv_op
<1>1. /\ Dot({"lr"}, {"w", "d", "q"}) \subseteq rv_op
      /\ Dot({"sc", "amoswap", "amoadd", "amoxor", "amoor", "amoand", "amomin", "amomax",
              "amominu", "amomaxu"}, {"w", "d", "q"}) \subseteq rv_op
  BY RowOps DEF Rows, AtomicRows
<1>2. \A w \in {"w", "d", "q"} : <<"lr", w>> \in rv_op
  BY <1>1, Dotted
<1>3. \A n \in {"sc", "amoswap", "amoadd", "amoxor", "amoor", "amoand", "amomin", "amomax",
              "amominu", "amomaxu"}, w \in {"w", "d", "q"} : <<n, w>> \in rv_op
  BY <1>1, Dotted
<1> QED
  BY <1>2, <1>3

LEMMA FloatNames ==
  /\ \A n \in {"flw", "fld", "flq", "fsw", "fsd", "fsq"} : <<n>> \in rv_op
  /\ \A n \in {"fmadd", "fmsub", "fnmsub", "fnmadd"} : \A p \in Precisions : <<n, p>> \in rv_op
  /\ \A n \in {"fadd", "fsub", "fmul", "fdiv", "fsqrt", "fsgnj", "fsgnjn", "fsgnjx",
               "fmin", "fmax", "fle", "flt", "feq", "fclass"} : \A p \in Precisions : <<n, p>> \in rv_op
  /\ \A p, q \in Precisions : p # q => <<"fcvt", p, q>> \in rv_op
  /\ \A f \in IntFormats, p \in Precisions :
       <<"fcvt", f, p>> \in rv_op /\ <<"fcvt", p, f>> \in rv_op
  /\ \A p \in Precisions : <<"fmv", "x", p>> \in rv_op /\ <<"fmv", p, "x">> \in rv_op
<1>1. /\ Plain({"flw", "fld", "flq"}) \subseteq rv_op /\ Plain({"fsw", "fsd", "fsq"}) \subseteq rv_op
      /\ Dot({"fmadd", "fmsub", "fnmsub", "fnmadd"}, Precisions) \subseteq rv_op
  <2>1. Plain({"flw", "fld", "flq"}) \subseteq rv_op
    BY RowOps DEF Rows, FloatRows
  <2>2. Plain({"fsw", "fsd", "fsq"}) \subseteq rv_op
    BY RowOps DEF Rows, FloatRows
  <2>3. Dot({"fmadd", "fmsub", "fnmsub", "fnmadd"}, Precisions) \subseteq rv_op
    BY RowOps DEF Rows, FloatRows
  <2> QED
    BY <2>1, <2>2, <2>3
<1>2. /\ Dot({"fadd", "fsub", "fmul", "fdiv"}, Precisions) \subseteq rv_op
      /\ Dot({"fsgnj", "fsgnjn", "fsgnjx", "fmin", "fmax"}, Precisions) \subseteq rv_op
      /\ Dot({"fle", "flt", "feq"}, Precisions) \subseteq rv_op
  <2>1. Dot({"fadd", "fsub", "fmul", "fdiv"}, Precisions) \subseteq rv_op
    BY RowOps DEF Rows, FloatRows
  <2>2. Dot({"fsgnj", "fsgnjn", "fsgnjx", "fmin", "fmax"}, Precisions) \subseteq rv_op
    BY RowOps DEF Rows, FloatRows
  <2>3. Dot({"fle", "flt", "feq"}, Precisions) \subseteq rv_op
    BY RowOps DEF Rows, FloatRows
  <2> QED
    BY <2>1, <2>2, <2>3
<1>3. /\ Dot({"fsqrt"}, Precisions)
           \cup {op \in Dots({"fcvt"}, Precisions, Precisions) : op[2] # op[3]} \subseteq rv_op
      /\ Dot({"fclass"}, Precisions) \cup Dots({"fmv"}, {"x"}, Precisions) \subseteq rv_op
      /\ Dots({"fmv"}, Precisions, {"x"}) \subseteq rv_op
  <2>1. Dot({"fsqrt"}, Precisions)
          \cup {op \in Dots({"fcvt"}, Precisions, Precisions) : op[2] # op[3]} \subseteq rv_op
    BY RowOps DEF Rows, FloatRows
  <2>2. Dot({"fclass"}, Precisions) \cup Dots({"fmv"}, {"x"}, Precisions) \subseteq rv_op
    BY RowOps DEF Rows, FloatRows
  <2>3. Dots({"fmv"}, Precisions, {"x"}) \subseteq rv_op
    BY RowOps DEF Rows, FloatRows
  <2> QED
    BY <2>1, <2>2, <2>3
<1>4. /\ Dots({"fcvt"}, IntFormats, Precisions) \subseteq rv_op
      /\ Dots({"fcvt"}, Precisions, IntFormats) \subseteq rv_op
  BY RowOps DEF Rows, FloatRows
<1>5. ASSUME NEW p \in Precisions, NEW q \in Precisions, p # q
      PROVE  <<"fcvt", p, q>> \in rv_op
  BY <1>3, <1>5 DEF Dots
<1> QED
  BY <1>1, <1>2, <1>3, <1>4, <1>5, Dotted DEF Plain

LEMMA CompressedNames ==
  /\ \A n \in {"addi4spn", "lw", "flw", "ld", "fld", "lq", "sw", "fsw", "sd", "fsd", "sq"} :
       <<"c", n>> \in rv_op
  /\ \A n \in {"nop", "ebreak", "addi", "addiw", "li", "addi16sp", "lui", "srli", "srai", "andi",
               "sub", "xor", "or", "and", "subw", "addw", "j", "jal", "beqz", "bnez"} :
       <<"c", n>> \in rv_op
  /\ \A n \in {"slli", "lwsp", "flwsp", "ldsp", "fldsp", "lqsp", "swsp", "fswsp", "sdsp", "fsdsp",
               "sqsp", "jr", "jalr", "mv", "add"} : <<"c", n>> \in rv_op
<1>1. /\ C({"addi4spn"}) \subseteq rv_op
      /\ C({"lw"}) \subseteq rv_op /\ C({"flw"}) \subseteq rv_op
      /\ C({"ld"}) \subseteq rv_op /\ C({"fld"}) \subseteq rv_op /\ C({"lq"}) \subseteq rv_op
      /\ C({"sw"}) \subseteq rv_op /\ C({"fsw"}) \subseteq rv_op
      /\ C({"sd"}) \subseteq rv_op /\ C({"fsd"}) \subseteq rv_op /\ C({"sq"}) \subseteq rv_op
  BY RowOps DEF Rows, CompressedRows
<1>2. /\ C({"nop", "ebreak"}) \subseteq rv_op /\ C({"addi", "addiw"}) \subseteq rv_op
      /\ C({"li"}) \subseteq rv_op /\ C({"addi16sp"}) \subseteq rv_op /\ C({"lui"}) \subseteq rv_op
      /\ C({"srli", "srai"}) \subseteq rv_op /\ C({"andi"}) \subseteq rv_op
      /\ C({"sub", "xor", "or", "and", "subw", "addw"}) \subseteq rv_op
      /\ C({"j"}) \subseteq rv_op /\ C({"jal"}) \subseteq rv_op /\ C({"beqz", "bnez"}) \subseteq rv_op
  BY RowOps DEF Rows, CompressedRows
<1>3. /\ C({"slli"}) \subseteq rv_op
      /\ C({"lwsp"}) \subseteq rv_op /\ C({"flwsp"}) \subseteq rv_op
      /\ C({"ldsp"}) \subseteq rv_op /\ C({"fldsp"}) \subseteq rv_op /\ C({"lqsp"}) \subseteq rv_op
      /\ C({"swsp"}) \subseteq rv_op /\ C({"fswsp"}) \subseteq rv_op
      /\ C({"sdsp"}) \subseteq rv_op /\ C({"fsdsp"}) \subseteq rv_op /\ C({"sqsp"}) \subseteq rv_op
      /\ C({"jr"}) \subseteq rv_op /\ C({"jalr"}) \subseteq rv_op
      /\ C({"mv"}) \subseteq rv_op /\ C({"add"}) \subseteq rv_op
  BY RowOps DEF Rows, CompressedRows
<1>4. \A S : C(S) \subseteq rv_op => \A n \in S : <<"c", n>> \in rv_op
  BY Dotted DEF C
<1>5. \A n \in {"addi4spn", "lw", "flw", "ld", "fld", "lq", "sw", "fsw", "sd", "fsd", "sq"} :
        <<"c", n>> \in rv_op
  BY <1>1, <1>4
<1>6. \A n \in {"nop", "ebreak", "addi", "addiw", "li", "addi16sp", "lui", "srli", "srai", "andi",
                "sub", "xor", "or", "and", "subw", "addw", "j", "jal", "beqz", "bnez"} :
        <<"c", n>> \in rv_op
  BY <1>2 DEF C, Dot
<1>7. \A n \in {"slli", "lwsp", "flwsp", "ldsp", "fldsp", "lqsp", "swsp", "fswsp", "sdsp", "fsdsp",
                "sqsp", "jr", "jalr", "mv", "add"} : <<"c", n>> \in rv_op
  BY <1>3 DEF C, Dot
<1> QED
  BY <1>5, <1>6, <1>7

-----------------------------------------------------------------------------
(***************************************************************************)
(* Then the switches: whatever the selectors, an entry of each table is a  *)
(* known op.                                                               *)
(***************************************************************************)
LEMMA Selectors ==
  ASSUME NEW inst \in Int
  PROVE  /\ funct3(inst) \in Nat /\ funct5(inst) \in Nat /\ operand_rs2(inst) \in Nat
         /\ Bits(inst, 13, 3) \in Nat /\ Bits(inst, 10, 2) \in Nat /\ Bits(inst, 12, 1) \in Nat
         /\ Bits(inst, 5, 2) \in Nat /\ Bits(inst, 25, 2) \in Nat /\ Bits(inst, 20, 5) \in Nat
BY DEF Bits, funct3, funct5, operand_rs2

LEMMA CompressedCase ==
  ASSUME NEW table, NEW k, NEW n,
         Case(table, k) = op_illegal \/ (Case(table, k) = <<n>> /\ <<"c", n>> \in rv_op)
  PROVE  CaseC(table, k) \in rv_op
BY Illegal, Joined DEF CaseC

LEMMA CompressedSelects ==
  ASSUME NEW k \in Nat,
         NEW a, NEW b, NEW c, NEW d, NEW e, NEW f, NEW g, NEW h,
         \A n \in {a, b, c, d, e, f, g, h} : n = "-" \/ <<"c", n>> \in rv_op
  PROVE  CaseC(<<a, b, c, d, e, f, g, h>>, k) \in rv_op
<1> DEFINE table == <<a, b, c, d, e, f, g, h>>
<1>1. Case(table, k) = op_illegal \/ \E n \in {a, b, c, d, e, f, g, h} : n # "-" /\ Case(table, k) = <<n>>
  BY DEF Case
<1> HIDE DEF table
<1>2. CaseC(table, k) \in rv_op
  BY <1>1, CompressedCase
<1> QED
  BY <1>2 DEF table

LEMMA Selects3 ==
  ASSUME NEW k \in Nat, NEW a, NEW b, NEW c,
         \A n \in {a, b, c} : n = "-" \/ <<n>> \in rv_op
  PROVE  Case(<<a, b, c>>, k) \in rv_op
BY Illegal DEF Case

LEMMA Selects5 ==
  ASSUME NEW k \in Nat, NEW a, NEW b, NEW c, NEW d, NEW e,
         \A n \in {a, b, c, d, e} : n = "-" \/ <<n>> \in rv_op
  PROVE  Case(<<a, b, c, d, e>>, k) \in rv_op
BY Illegal DEF Case

LEMMA Selects6 ==
  ASSUME NEW k \in Nat, NEW a, NEW b, NEW c, NEW d, NEW e, NEW f,
         \A n \in {a, b, c, d, e, f} : n = "-" \/ <<n>> \in rv_op
  PROVE  Case(<<a, b, c, d, e, f>>, k) \in rv_op
BY Illegal DEF Case

LEMMA Selects8 ==
  ASSUME NEW k \in Nat, NEW a, NEW b, NEW c, NEW d, NEW e, NEW f, NEW g, NEW h,
         \A n \in {a, b, c, d, e, f, g, h} : n = "-" \/ <<n>> \in rv_op
  PROVE  Case(<<a, b, c, d, e, f, g, h>>, k) \in rv_op
BY Illegal DEF Case

LEMMA Selects9 ==
  ASSUME NEW k \in Nat, NEW a, NEW b, NEW c, NEW d, NEW e, NEW f, NEW g, NEW h, NEW i,
         \A n \in {a, b, c, d, e, f, g, h, i} : n = "-" \/ <<n>> \in rv_op
  PROVE  Case(<<a, b, c, d, e, f, g, h, i>>, k) \in rv_op
BY Illegal DEF Case

LEMMA QuadrantsInTable ==
  ASSUME NEW inst \in Int, NEW on \in Isas
  PROVE  /\ Quadrant0(inst, on) \in rv_op
         /\ Quadrant1(inst, on) \in rv_op
         /\ Quadrant2(inst, on) \in rv_op
<1> DEFINE k == Bits(inst, 13, 3)
<1>1. k \in Nat
  BY Selectors
<1> HIDE DEF k
<1>2. Quadrant0(inst, on) \in rv_op
  BY <1>1, CompressedSelects, CompressedNames DEF Quadrant0, k
<1>3. CompressedAlu(inst) \in rv_op
  <2> DEFINE f == Bits(inst, 10, 2)  g == 4 * Bits(inst, 12, 1) + Bits(inst, 5, 2)
  <2>1. Bits(inst, 10, 2) \in Nat /\ Bits(inst, 12, 1) \in Nat /\ Bits(inst, 5, 2) \in Nat
    BY Selectors
  <2>2. f \in Nat /\ g \in Nat
    BY <2>1
  <2> HIDE DEF f, g
  <2>3. CaseC(<<"srli", "srai", "andi">>, f) \in rv_op
    <3>1. Case(<<"srli", "srai", "andi">>, f) \in {op_illegal, <<"srli">>, <<"srai">>, <<"andi">>}
      BY <2>2 DEF Case
    <3> QED
      BY <3>1, CompressedCase, CompressedNames
  <2>4. CaseC(<<"sub", "xor", "or", "and", "subw", "addw">>, g) \in rv_op
    <3>1. Case(<<"sub", "xor", "or", "and", "subw", "addw">>, g)
            \in {op_illegal, <<"sub">>, <<"xor">>, <<"or">>, <<"and">>, <<"subw">>, <<"addw">>}
      BY <2>2 DEF Case
    <3> QED
      BY <3>1, CompressedCase, CompressedNames
  <2> QED
    BY <2>3, <2>4 DEF CompressedAlu, f, g
<1>4. Quadrant1(inst, on) \in rv_op
  BY <1>1, <1>3, CompressedSelects, CompressedNames DEF Quadrant1, k
<1>5. CompressedJump(inst) \in rv_op
  BY CompressedNames DEF CompressedJump
<1>6. Quadrant2(inst, on) \in rv_op
  BY <1>1, <1>5, CompressedSelects, CompressedNames DEF Quadrant2, k
<1> QED
  BY <1>2, <1>4, <1>6

LEMMA IntegerOpsInTable ==
  ASSUME NEW inst \in Int
  PROVE  /\ MiscMem(inst) \in rv_op /\ OpImm(inst) \in rv_op
         /\ OpImm32(inst) \in rv_op /\ OpImm64(inst) \in rv_op
         /\ Op(inst) \in rv_op /\ Op32(inst) \in rv_op /\ Op64(inst) \in rv_op
<1> DEFINE f3 == funct3(inst)
<1>1. f3 \in Nat /\ funct5(inst) \in Nat
  BY Selectors
<1> HIDE DEF f3
<1>2. MiscMem(inst) \in rv_op
  <2>1. Case(<<"fence", "-", "lq">>, f3) \in rv_op
    BY <1>1, BaseNames, Selects3
  <2> QED
    BY <2>1, BaseNames DEF MiscMem, f3
<1>3. OpImm(inst) \in rv_op
  <2>1. Case(<<"srli", "-", "-", "-", "-", "-", "-", "-", "srai">>, funct5(inst)) \in rv_op
    BY <1>1, BaseNames, Selects9
  <2>2. Case(<<"addi", "-", "slti", "sltiu", "xori", "-", "ori", "andi">>, f3) \in rv_op
    BY <1>1, BaseNames, Selects8
  <2> QED
    BY <2>1, <2>2, BaseNames, Illegal DEF OpImm, When, f3
<1>4. OpImm32(inst) \in rv_op
  BY BaseNames, Illegal DEF OpImm32, When
<1>5. OpImm64(inst) \in rv_op
  BY BaseNames, Illegal DEF OpImm64, When
<1>6. Op(inst) \in rv_op
  <2>1. Case(<<"add", "sll", "slt", "sltu", "xor", "srl", "or", "and">>, f3) \in rv_op
    BY <1>1, ArithmeticNames, Selects8
  <2>2. Case(<<"mul", "mulh", "mulhsu", "mulhu", "div", "divu", "rem", "remu">>, f3) \in rv_op
    BY <1>1, ArithmeticNames, Selects8
  <2>3. Case(<<"sub", "-", "-", "-", "-", "sra">>, f3) \in rv_op
    BY <1>1, ArithmeticNames, Selects6
  <2> QED
    BY <2>1, <2>2, <2>3, Illegal DEF Op, Arithmetic, f3
<1>7. Op32(inst) \in rv_op
  <2>1. Case(<<"addw", "sllw", "-", "-", "-", "srlw">>, f3) \in rv_op
    BY <1>1, ArithmeticNames, Selects6
  <2>2. Case(<<"mulw", "-", "-", "-", "divw", "divuw", "remw", "remuw">>, f3) \in rv_op
    BY <1>1, ArithmeticNames, Selects8
  <2>3. Case(<<"subw", "-", "-", "-", "-", "sraw">>, f3) \in rv_op
    BY <1>1, ArithmeticNames, Selects6
  <2> QED
    BY <2>1, <2>2, <2>3, Illegal DEF Op32, Arithmetic, f3
<1>8. Op64(inst) \in rv_op
  <2>1. Case(<<"addd", "slld", "-", "-", "-", "srld">>, f3) \in rv_op
    BY <1>1, ArithmeticNames, Selects6
  <2>2. Case(<<"muld", "-", "-", "-", "divd", "divud", "remd", "remud">>, f3) \in rv_op
    BY <1>1, ArithmeticNames, Selects8
  <2>3. Case(<<"subd", "-", "-", "-", "-", "srad">>, f3) \in rv_op
    BY <1>1, ArithmeticNames, Selects6
  <2> QED
    BY <2>1, <2>2, <2>3, Illegal DEF Op64, Arithmetic, f3
<1> QED
  BY <1>2, <1>3, <1>4, <1>5, <1>6, <1>7, <1>8

LEMMA AmoInTable ==
  ASSUME NEW inst \in Int
  PROVE  Amo(inst) \in rv_op
<1> DEFINE width == Case(<<"-", "-", "w", "d", "q">>, funct3(inst))
           name  == Case(<<"amoadd", "amoswap", "lr", "sc", "amoxor", "-", "-", "-",
                           "amoor", "-", "-", "-", "amoand", "-", "-", "-",
                           "amomin", "-", "-", "-", "amomax", "-", "-", "-",
                           "amominu", "-", "-", "-", "amomaxu">>, funct5(inst))
<1>1. funct3(inst) \in Nat /\ funct5(inst) \in Nat
  BY Selectors
<1>2. width \in {op_illegal, <<"w">>, <<"d">>, <<"q">>}
  BY <1>1 DEF Case
<1>3. name = op_illegal
      \/ \E n \in {"lr", "sc", "amoswap", "amoadd", "amoxor", "amoor", "amoand", "amomin", "amomax",
                   "amominu", "amomaxu"} : name = <<n>>
  BY <1>1 DEF Case
<1> HIDE DEF width, name
<1>4. ASSUME width # op_illegal, name # op_illegal
      PROVE  name \o width \in rv_op
  <2>1. PICK w \in {"w", "d", "q"} : width = <<w>>
    BY <1>2, <1>4
  <2>2. PICK n \in {"lr", "sc", "amoswap", "amoadd", "amoxor", "amoor", "amoand", "amomin", "amomax",
                   "amominu", "amomaxu"} : name = <<n>>
    BY <1>3, <1>4
  <2>3. name \o width = <<n, w>>
    BY <2>1, <2>2, Joined
  <2> QED
    BY <2>3, AmoNames
<1> QED
  BY <1>4, Illegal DEF Amo, When, width, name

LEMMA SystemInTable ==
  ASSUME NEW inst \in Int
  PROVE  System(inst) \in rv_op
<1> DEFINE f3 == funct3(inst)  rs2 == operand_rs2(inst)
<1>1. f3 \in Nat /\ rs2 \in Nat
  BY Selectors
<1> HIDE DEF f3, rs2
<1>2. Case(<<"ecall", "ebreak", "uret">>, rs2) \in rv_op
  BY <1>1, SystemNames, Illegal DEF Case
<1>3. Privileged(inst) \in rv_op
  BY <1>2, SystemNames, Illegal DEF Privileged, When, rs2
<1>4. Case(<<"-", "csrrw", "csrrs", "csrrc", "-", "csrrwi", "csrrsi", "csrrci">>, f3) \in rv_op
  BY <1>1, SystemNames, Illegal DEF Case
<1> QED
  BY <1>3, <1>4 DEF System, f3

LEMMA FloatOpsInTable ==
  ASSUME NEW inst \in Int
  PROVE  /\ OpFp(inst) \in rv_op
         /\ \A n \in {"fmadd", "fmsub", "fnmsub", "fnmadd"} : Fused(n, inst) \in rv_op
<1> DEFINE p    == Precision(Bits(inst, 25, 2))
           from == Precision(Bits(inst, 20, 5))
           int  == IntFormat(inst)
           comp == FpCompute(inst)
           move == FpMove(inst)
           f3   == funct3(inst)
           f5   == funct5(inst)
<1>1. f3 \in Nat /\ f5 \in Nat /\ Bits(inst, 25, 2) \in Nat /\ Bits(inst, 20, 5) \in Nat
  BY Selectors
<1>2. p = op_illegal \/ \E x \in Precisions : p = <<x>>
  BY <1>1 DEF Precision, Case, Precisions
<1>3. from = op_illegal \/ \E x \in Precisions : from = <<x>>
  BY <1>1 DEF Precision, Case, Precisions
<1>4. int = op_illegal \/ \E x \in IntFormats : int = <<x>>
  BY <1>1 DEF IntFormat, Case, IntFormats
<1> HIDE DEF p, from, int, f3
<1>5. f5 \in {0, 1, 2, 3, 4, 5, 11, 20} =>
        comp = op_illegal
        \/ \E n \in {"fadd", "fsub", "fmul", "fdiv", "fsqrt", "fsgnj", "fsgnjn", "fsgnjx",
                     "fmin", "fmax", "fle", "flt", "feq"} : comp = <<n>>
  BY <1>1 DEF FpCompute, Case, When, f3
<1>6. f5 = 8 => comp = IF from # p THEN <<"fcvt">> ELSE op_illegal
  BY DEF FpCompute, When, p, from
<1>7. f5 = 28 => move \in {op_illegal, IF f3 = 0 THEN <<"fmv">> ELSE <<"fclass">>}
  BY <1>1 DEF FpMove, Case, When, f3
<1>8. f5 = 30 => move \in {op_illegal, <<"fmv">>}
  BY <1>1 DEF FpMove, Case, When, f3
<1> HIDE DEF comp, move, f5
<1> DEFINE Named(parts, name) == When(op_illegal \notin parts, name)
<1>9. OpFp(inst) =
        CASE f5 \in {0, 1, 2, 3, 4, 5, 11, 20} -> Named({comp, p}, comp \o p)
          [] f5 = 8  -> Named({comp, p, from}, comp \o p \o from)
          [] f5 = 24 -> Named({int, p}, <<"fcvt">> \o int \o p)
          [] f5 = 26 -> Named({int, p}, <<"fcvt">> \o p \o int)
          [] f5 = 28 -> Named({move, p}, IF f3 = 0 THEN move \o <<"x">> \o p ELSE move \o p)
          [] f5 = 30 -> Named({move, p}, move \o p \o <<"x">>)
          [] OTHER   -> op_illegal
  BY Zenon DEF OpFp, p, from, int, comp, move, f3, f5
<1>10. ASSUME f5 \in {0, 1, 2, 3, 4, 5, 11, 20}, comp # op_illegal, p # op_illegal
       PROVE  comp \o p \in rv_op
  <2>1. PICK n \in {"fadd", "fsub", "fmul", "fdiv", "fsqrt", "fsgnj", "fsgnjn", "fsgnjx",
                    "fmin", "fmax", "fle", "flt", "feq"} : comp = <<n>>
    BY <1>5, <1>10
  <2>2. PICK x \in Precisions : p = <<x>>
    BY <1>2, <1>10
  <2>3. comp \o p = <<n, x>>
    BY <2>1, <2>2, Joined
  <2> QED
    BY <2>3, FloatNames
<1>11. ASSUME f5 = 8, comp # op_illegal, p # op_illegal, from # op_illegal
       PROVE  comp \o p \o from \in rv_op
  <2>1. PICK x \in Precisions : p = <<x>>
    BY <1>2, <1>11
  <2>2. PICK y \in Precisions : from = <<y>>
    BY <1>3, <1>11
  <2>3. x # y /\ comp = <<"fcvt">>
    BY <1>6, <1>11, <2>1, <2>2
  <2>4. comp \o p \o from = <<"fcvt", x, y>>
    BY <2>1, <2>2, <2>3, Joined
  <2> QED
    BY <2>3, <2>4, FloatNames
<1>12. ASSUME int # op_illegal, p # op_illegal
       PROVE  <<"fcvt">> \o int \o p \in rv_op /\ <<"fcvt">> \o p \o int \in rv_op
  <2>1. PICK x \in Precisions : p = <<x>>
    BY <1>2, <1>12
  <2>2. PICK y \in IntFormats : int = <<y>>
    BY <1>4, <1>12
  <2>3. <<"fcvt">> \o int \o p = <<"fcvt", y, x>> /\ <<"fcvt">> \o p \o int = <<"fcvt", x, y>>
    BY <2>1, <2>2, Joined
  <2> QED
    BY <2>3, FloatNames
<1>13. ASSUME f5 = 28, move # op_illegal, p # op_illegal
       PROVE  (IF f3 = 0 THEN move \o <<"x">> \o p ELSE move \o p) \in rv_op
  <2>1. PICK x \in Precisions : p = <<x>>
    BY <1>2, <1>13
  <2>2. move = IF f3 = 0 THEN <<"fmv">> ELSE <<"fclass">>
    BY <1>7, <1>13
  <2>3. CASE f3 = 0
    <3>1. move \o <<"x">> \o p = <<"fmv", "x", x>>
      BY <2>1, <2>2, <2>3, Joined
    <3> QED
      BY <2>3, <3>1, FloatNames
  <2>4. CASE f3 # 0
    <3>1. move \o p = <<"fclass", x>>
      BY <2>1, <2>2, <2>4, Joined
    <3> QED
      BY <2>4, <3>1, FloatNames
  <2> QED
    BY <2>3, <2>4
<1>14. ASSUME f5 = 30, move # op_illegal, p # op_illegal
       PROVE  move \o p \o <<"x">> \in rv_op
  <2>1. PICK x \in Precisions : p = <<x>>
    BY <1>2, <1>14
  <2>2. move \o p \o <<"x">> = <<"fmv", x, "x">>
    BY <1>8, <1>14, <2>1, Joined
  <2> QED
    BY <2>2, FloatNames
<1>15. OpFp(inst) \in rv_op
  BY <1>9, <1>10, <1>11, <1>12, <1>13, <1>14, Illegal DEF When
<1>16. \A n \in {"fmadd", "fmsub", "fnmsub", "fnmadd"} : Fused(n, inst) \in rv_op
  <2> TAKE n \in {"fmadd", "fmsub", "fnmsub", "fnmadd"}
  <2>1. ASSUME p # op_illegal
        PROVE  <<n>> \o p \in rv_op
    <3>1. PICK x \in Precisions : p = <<x>>
      BY <1>2, <2>1
    <3>2. <<n>> \o p = <<n, x>>
      BY <3>1, Joined
    <3> QED
      BY <3>2, FloatNames
  <2> QED
    BY <2>1, Illegal DEF Fused, When, p
<1> QED
  BY <1>15, <1>16

LEMMA OpInTable ==
  ASSUME NEW inst \in Int, NEW on \in Isas
  PROVE  rv_inst_opcode(inst, on) \in rv_op
<1> DEFINE f3 == funct3(inst)
<1>1. f3 \in Nat
  BY Selectors
<1> HIDE DEF f3
<1>2. Case(<<"lb", "lh", "lw", "ld", "lbu", "lhu", "lwu", "ldu">>, f3) \in rv_op
  BY <1>1, BaseNames, Selects5, Selects8
<1>2a. Case(<<"sb", "sh", "sw", "sd", "sq">>, f3) \in rv_op
  BY <1>1, BaseNames, Selects5, Selects8
<1>2b. Case(<<"beq", "bne", "-", "-", "blt", "bge", "bltu", "bgeu">>, f3) \in rv_op
  BY <1>1, BaseNames, Selects5, Selects8
<1>3. /\ Case(<<"-", "-", "flw", "fld", "flq">>, f3) \in rv_op
      /\ Case(<<"-", "-", "fsw", "fsd", "fsq">>, f3) \in rv_op
  BY <1>1, FloatNames, Selects5
<1>4. When(f3 = 0, <<"jalr">>) \in rv_op /\ <<"auipc">> \in rv_op /\ <<"lui">> \in rv_op /\ <<"jal">> \in rv_op
  BY BaseNames, Illegal DEF When
<1>5. Quadrant3(inst) \in rv_op
  BY <1>2, <1>2a, <1>2b, <1>3, <1>4, IntegerOpsInTable, AmoInTable, SystemInTable, FloatOpsInTable, Illegal
  DEF Quadrant3, f3
<1>6. inst % 4 \in 0 .. 3
  OBVIOUS
<1> QED
  BY <1>5, <1>6, QuadrantsInTable DEF rv_inst_opcode

-----------------------------------------------------------------------------
(***************************************************************************)
(* The record that each step makes of dec: rows of the table, fields       *)
(* assigned one by one, operands within their ranges.                      *)
(***************************************************************************)
LEMMA OpData ==
  ASSUME NEW op \in rv_op
  PROVE  opcode_data[op] \in Rows /\ op \in opcode_data[op].ops
BY DEF opcode_data, rv_op

LEMMA RowTypes == \A row \in Rows : row.type \in rv_type
<1>1. \A type \in rv_type : \A format, ops : Row(type, format, ops).type \in rv_type
  BY DEF Row
<1>2. /\ "illegal" \in rv_type /\ "none" \in rv_type /\ "u" \in rv_type /\ "uj" \in rv_type /\ "i" \in rv_type
      /\ "i_sh5" \in rv_type /\ "i_sh6" \in rv_type /\ "i_sh7" \in rv_type /\ "i_csr" \in rv_type
      /\ "s" \in rv_type /\ "sb" \in rv_type /\ "r" \in rv_type /\ "r_m" \in rv_type
      /\ "r4_m" \in rv_type /\ "r_a" \in rv_type /\ "r_l" \in rv_type /\ "r_f" \in rv_type
  BY DEF rv_type, UncompressedTypes
<1>3. CompressedTypes \subseteq rv_type
  BY DEF rv_type
<1>4. \A row \in BaseRows : row.type \in rv_type
  BY <1>1, <1>2 DEF BaseRows
<1>5. \A row \in AtomicRows : row.type \in rv_type
  BY <1>1, <1>2 DEF AtomicRows
<1>6. \A row \in SystemRows : row.type \in rv_type
  BY <1>1, <1>2 DEF SystemRows
<1>7. \A row \in FloatRows : row.type \in rv_type
  BY <1>1, <1>2 DEF FloatRows
<1>8. \A row \in CompressedRows : row.type \in CompressedTypes
  BY DEF CompressedRows, CompressedTypes, Row
<1>9. \A row \in PseudoRows : row.type \in rv_type
  BY <1>1, <1>2 DEF PseudoRows
<1> QED
  BY <1>3, <1>4, <1>5, <1>6, <1>7, <1>8, <1>9 DEF Rows

LEMMA Assigned ==
  ASSUME NEW d \in rv_instInfo
  PROVE  /\ \A r \in 0 .. 31 : [d EXCEPT !.rd = r] \in rv_instInfo /\ [d EXCEPT !.rs1 = r] \in rv_instInfo
         /\ \A r \in 0 .. 31 : [d EXCEPT !.rs2 = r] \in rv_instInfo /\ [d EXCEPT !.rs3 = r] \in rv_instInfo
         /\ \A b \in 0 .. 1 : [d EXCEPT !.aq = b] \in rv_instInfo /\ [d EXCEPT !.rl = b] \in rv_instInfo
         /\ \A s \in 0 .. 15 : [d EXCEPT !.pred = s] \in rv_instInfo /\ [d EXCEPT !.succ = s] \in rv_instInfo
         /\ \A m \in 0 .. 7 : [d EXCEPT !.rm = m] \in rv_instInfo
         /\ \A n \in Int : [d EXCEPT !.imm = n] \in rv_instInfo
         /\ \A op \in rv_op : [d EXCEPT !.op = op] \in rv_instInfo
         /\ \A type \in rv_type : [d EXCEPT !.type = type] \in rv_instInfo
<1>1. \A r \in 0 .. 31 : [d EXCEPT !.rd = r] \in rv_instInfo /\ [d EXCEPT !.rs1 = r] \in rv_instInfo
  BY DEF rv_instInfo
<1>2. \A r \in 0 .. 31 : [d EXCEPT !.rs2 = r] \in rv_instInfo /\ [d EXCEPT !.rs3 = r] \in rv_instInfo
  BY DEF rv_instInfo
<1>3. \A b \in 0 .. 1 : [d EXCEPT !.aq = b] \in rv_instInfo /\ [d EXCEPT !.rl = b] \in rv_instInfo
  BY DEF rv_instInfo
<1>4. \A s \in 0 .. 15 : [d EXCEPT !.pred = s] \in rv_instInfo /\ [d EXCEPT !.succ = s] \in rv_instInfo
  BY DEF rv_instInfo
<1>5. \A m \in 0 .. 7 : [d EXCEPT !.rm = m] \in rv_instInfo
  BY DEF rv_instInfo
<1>6. \A n \in Int : [d EXCEPT !.imm = n] \in rv_instInfo
  BY DEF rv_instInfo
<1>7. \A op \in rv_op : [d EXCEPT !.op = op] \in rv_instInfo
  BY DEF rv_instInfo
<1>8. \A type \in rv_type : [d EXCEPT !.type = type] \in rv_instInfo
  BY DEF rv_instInfo
<1> QED
  BY <1>1, <1>2, <1>3, <1>4, <1>5, <1>6, <1>7, <1>8

LEMMA SetTyped ==
  ASSUME NEW d \in rv_instInfo, NEW rd \in 0 .. 31, NEW rs1 \in 0 .. 31, NEW rs2 \in 0 .. 31,
         NEW imm \in Int
  PROVE  Set(d, rd, rs1, rs2, imm) \in rv_instInfo
<1> DEFINE a == [d EXCEPT !.rd = rd]   b == [a EXCEPT !.rs1 = rs1]
           c == [b EXCEPT !.rs2 = rs2]   e == [c EXCEPT !.imm = imm]
<1>1. Set(d, rd, rs1, rs2, imm) = e
  BY DEF Set
<1>2. a \in rv_instInfo
  BY Assigned
<1> HIDE DEF a
<1>3. b \in rv_instInfo
  BY <1>2, Assigned
<1> HIDE DEF b
<1>4. c \in rv_instInfo
  BY <1>3, Assigned
<1> HIDE DEF c
<1>5. e \in rv_instInfo
  BY <1>4, Assigned
<1> HIDE DEF e
<1> QED
  BY <1>1, <1>5

(* x is d with other operands.                                             *)
Operanded(x, d) == x \in rv_instInfo /\ x.op = d.op /\ x.type = d.type /\ x.inst = d.inst

LEMMA SetOperanded ==
  ASSUME NEW d \in rv_instInfo, NEW rd \in 0 .. 31, NEW rs1 \in 0 .. 31, NEW rs2 \in 0 .. 31,
         NEW imm \in Int
  PROVE  Operanded(Set(d, rd, rs1, rs2, imm), d)
<1>1. Set(d, rd, rs1, rs2, imm).op = d.op /\ Set(d, rd, rs1, rs2, imm).type = d.type
  BY DEF Set, rv_instInfo
<1>2. Set(d, rd, rs1, rs2, imm).inst = d.inst
  BY DEF Set, rv_instInfo
<1> QED
  BY <1>1, <1>2, SetTyped DEF Operanded

LEMMA FieldOperanded ==
  ASSUME NEW d, NEW x, Operanded(x, d)
  PROVE  /\ \A r \in 0 .. 31 : Operanded([x EXCEPT !.rs3 = r], d)
         /\ \A m \in 0 .. 7 : Operanded([x EXCEPT !.rm = m], d)
         /\ \A b \in 0 .. 1 : Operanded([x EXCEPT !.aq = b], d) /\ Operanded([x EXCEPT !.rl = b], d)
         /\ \A s \in 0 .. 15 : Operanded([x EXCEPT !.pred = s], d) /\ Operanded([x EXCEPT !.succ = s], d)
<1>1. \A v : /\ [x EXCEPT !.rs3 = v].op = x.op /\ [x EXCEPT !.rs3 = v].type = x.type
             /\ [x EXCEPT !.rm = v].op = x.op /\ [x EXCEPT !.rm = v].type = x.type
             /\ [x EXCEPT !.aq = v].op = x.op /\ [x EXCEPT !.aq = v].type = x.type
             /\ [x EXCEPT !.rl = v].op = x.op /\ [x EXCEPT !.rl = v].type = x.type
             /\ [x EXCEPT !.pred = v].op = x.op /\ [x EXCEPT !.pred = v].type = x.type
             /\ [x EXCEPT !.succ = v].op = x.op /\ [x EXCEPT !.succ = v].type = x.type
  BY DEF Operanded, rv_instInfo
<1>2. \A v : /\ [x EXCEPT !.rs3 = v].inst = x.inst /\ [x EXCEPT !.rm = v].inst = x.inst
             /\ [x EXCEPT !.aq = v].inst = x.inst /\ [x EXCEPT !.rl = v].inst = x.inst
             /\ [x EXCEPT !.pred = v].inst = x.inst /\ [x EXCEPT !.succ = v].inst = x.inst
  BY DEF Operanded, rv_instInfo
<1> QED
  BY <1>1, <1>2, Assigned DEF Operanded

LEMMA ImmediateIntegers ==
  ASSUME NEW inst \in Int
  PROVE  /\ operand_imm20(inst) \in Int /\ operand_imm12(inst) \in Int /\ operand_jimm20(inst) \in Int
         /\ operand_simm12(inst) \in Int /\ operand_sbimm12(inst) \in Int
         /\ operand_shamt5(inst) \in Int /\ operand_shamt6(inst) \in Int
         /\ operand_shamt7(inst) \in Int /\ operand_csr12(inst) \in Int
<1>1. operand_imm20(inst) \in Int /\ operand_imm12(inst) \in Int
  BY DEF operand_imm20, operand_imm12, SignedFrom
<1>2. operand_simm12(inst) \in Int
  BY DEF operand_simm12, SignedFrom, Bits
<1>3. operand_jimm20(inst) \in Int
  BY DEF operand_jimm20, Sign, Bits
<1>4. operand_sbimm12(inst) \in Int
  BY DEF operand_sbimm12, Sign, Bits
<1>5. /\ operand_shamt5(inst) \in Int /\ operand_shamt6(inst) \in Int
      /\ operand_shamt7(inst) \in Int /\ operand_csr12(inst) \in Int
  BY DEF operand_shamt5, operand_shamt6, operand_shamt7, operand_csr12, Bits
<1> QED
  BY <1>1, <1>2, <1>3, <1>4, <1>5

LEMMA CompressedIntegers ==
  ASSUME NEW inst \in Int
  PROVE  /\ operand_cimmsh5(inst) \in Int /\ operand_cimmsh6(inst) \in Int /\ operand_cimmi(inst) \in Int
         /\ operand_cimmui(inst) \in Int /\ operand_cimmlwsp(inst) \in Int
         /\ operand_cimmldsp(inst) \in Int /\ operand_cimmlqsp(inst) \in Int
         /\ operand_cimm16sp(inst) \in Int /\ operand_cimmj(inst) \in Int /\ operand_cimmb(inst) \in Int
         /\ operand_cimmswsp(inst) \in Int /\ operand_cimmsdsp(inst) \in Int
         /\ operand_cimmsqsp(inst) \in Int /\ operand_cimm4spn(inst) \in Int
         /\ operand_cimmw(inst) \in Int /\ operand_cimmd(inst) \in Int /\ operand_cimmq(inst) \in Int
<1>1. /\ operand_cimmsh5(inst) \in Int /\ operand_cimmsh6(inst) \in Int /\ operand_cimmi(inst) \in Int
      /\ operand_cimmui(inst) \in Int
  BY DEF operand_cimmsh5, operand_cimmsh6, operand_cimmi, operand_cimmui, MinusBit, Bits
<1>2. /\ operand_cimmlwsp(inst) \in Int /\ operand_cimmldsp(inst) \in Int
      /\ operand_cimmlqsp(inst) \in Int
  BY DEF operand_cimmlwsp, operand_cimmldsp, operand_cimmlqsp, Bits
<1>3. operand_cimm16sp(inst) \in Int
  BY DEF operand_cimm16sp, MinusBit, Bits
<1>4. operand_cimmj(inst) \in Int
  BY DEF operand_cimmj, MinusBit, Bits
<1>5. operand_cimmb(inst) \in Int
  BY DEF operand_cimmb, MinusBit, Bits
<1>6. /\ operand_cimmswsp(inst) \in Int /\ operand_cimmsdsp(inst) \in Int
      /\ operand_cimmsqsp(inst) \in Int /\ operand_cimm4spn(inst) \in Int
  BY DEF operand_cimmswsp, operand_cimmsdsp, operand_cimmsqsp, operand_cimm4spn, Bits
<1>7. /\ operand_cimmw(inst) \in Int /\ operand_cimmd(inst) \in Int /\ operand_cimmq(inst) \in Int
  BY DEF operand_cimmw, operand_cimmd, operand_cimmq, Bits
<1> QED
  BY <1>1, <1>2, <1>3, <1>4, <1>5, <1>6, <1>7

LEMMA SmallRegisters == 0 \in Int /\ 0 \in 0 .. 31 /\ 1 \in 0 .. 31 /\ 2 \in 0 .. 31
OBVIOUS

LEMMA UncompressedOperanded ==
  ASSUME NEW d \in rv_instInfo, NEW type \in UncompressedTypes
  PROVE  Operanded(UncompressedOperands(d, type), d)
<1> DEFINE i   == d.inst
           rd  == operand_rd(i)
           rs1 == operand_rs1(i)
           rs2 == operand_rs2(i)
           r   == Set(d, rd, rs1, rs2, 0)
           l   == Set(d, rd, rs1, 0, 0)
           f   == Set(d, 0, 0, 0, 0)
<1>1. i \in Int
  BY DEF rv_instInfo
<1> HIDE DEF i
<1>2. /\ rd \in 0 .. 31 /\ rs1 \in 0 .. 31 /\ rs2 \in 0 .. 31 /\ operand_rs3(i) \in 0 .. 31
      /\ operand_rm(i) \in 0 .. 7 /\ operand_pred(i) \in 0 .. 15 /\ operand_succ(i) \in 0 .. 15
      /\ operand_aq(i) \in 0 .. 1 /\ operand_rl(i) \in 0 .. 1
  BY <1>1
  DEF operand_rd, operand_rs1, operand_rs2, operand_rs3, operand_rm, operand_pred, operand_succ,
      operand_aq, operand_rl, Bits
<1>3. /\ operand_imm20(i) \in Int /\ operand_imm12(i) \in Int /\ operand_jimm20(i) \in Int
      /\ operand_simm12(i) \in Int /\ operand_sbimm12(i) \in Int
      /\ operand_shamt5(i) \in Int /\ operand_shamt6(i) \in Int
      /\ operand_shamt7(i) \in Int /\ operand_csr12(i) \in Int
  BY <1>1, ImmediateIntegers
<1> HIDE DEF rd, rs1, rs2
<1>5. /\ Operanded(f, d) /\ Operanded(r, d) /\ Operanded(l, d)
      /\ \A n \in Int : Operanded(Set(d, rd, 0, 0, n), d) /\ Operanded(Set(d, rd, rs1, 0, n), d)
                        /\ Operanded(Set(d, 0, rs1, rs2, n), d)
  BY <1>2, SmallRegisters, SetOperanded
<1> HIDE DEF r, l, f
<1>6. Operanded([r EXCEPT !.rm = operand_rm(i)], d)
  BY <1>2, <1>5, FieldOperanded
<1>7. Operanded([r EXCEPT !.rs3 = operand_rs3(i), !.rm = operand_rm(i)], d)
  <2> DEFINE a == [r EXCEPT !.rs3 = operand_rs3(i)]
  <2>1. Operanded(a, d)
    BY <1>2, <1>5, FieldOperanded
  <2> HIDE DEF a
  <2>2. Operanded([a EXCEPT !.rm = operand_rm(i)], d)
    BY <1>2, <2>1, FieldOperanded
  <2> QED
    BY <2>2 DEF a
<1>8. /\ Operanded([r EXCEPT !.aq = operand_aq(i), !.rl = operand_rl(i)], d)
      /\ Operanded([l EXCEPT !.aq = operand_aq(i), !.rl = operand_rl(i)], d)
  <2> DEFINE a == [r EXCEPT !.aq = operand_aq(i)]  b == [l EXCEPT !.aq = operand_aq(i)]
  <2>1. Operanded(a, d) /\ Operanded(b, d)
    BY <1>2, <1>5, FieldOperanded
  <2> HIDE DEF a, b
  <2>2. Operanded([a EXCEPT !.rl = operand_rl(i)], d) /\ Operanded([b EXCEPT !.rl = operand_rl(i)], d)
    BY <1>2, <2>1, FieldOperanded
  <2> QED
    BY <2>2 DEF a, b
<1>9. Operanded([f EXCEPT !.pred = operand_pred(i), !.succ = operand_succ(i)], d)
  <2> DEFINE a == [f EXCEPT !.pred = operand_pred(i)]
  <2>1. Operanded(a, d)
    BY <1>2, <1>5, FieldOperanded
  <2> HIDE DEF a
  <2>2. Operanded([a EXCEPT !.succ = operand_succ(i)], d)
    BY <1>2, <2>1, FieldOperanded
  <2> QED
    BY <2>2 DEF a
<1>10. CASE type \in {"none", "u", "uj", "s", "sb", "r", "r_m", "r4_m"}
  BY <1>3, <1>5, <1>6, <1>7, <1>10 DEF UncompressedOperands, i, rd, rs1, rs2, r, f
<1>11. CASE type \in {"i", "i_sh5", "i_sh6", "i_sh7", "i_csr"}
  BY <1>3, <1>5, <1>11 DEF UncompressedOperands, i, rd, rs1
<1>12. CASE type \in {"r_a", "r_l", "r_f"}
  BY <1>8, <1>9, <1>12 DEF UncompressedOperands, i, rd, rs1, rs2, r, l, f
<1> QED
  BY <1>10, <1>11, <1>12 DEF UncompressedTypes

LEMMA CompressedOperanded ==
  ASSUME NEW d \in rv_instInfo, NEW type \in CompressedTypes
  PROVE  Operanded(CompressedOperands(d, type), d)
<1> DEFINE i     == d.inst
           rd    == operand_crd(i)
           rdq   == operand_crdq(i) + 8
           rs1q  == operand_crs1q(i) + 8
           rs2q  == operand_crs2q(i) + 8
           both  == operand_crs1rd(i)
           bothq == operand_crs1rdq(i) + 8
           rs1   == operand_crs1(i)
           rs2   == operand_crs2(i)
<1>1. i \in Int
  BY DEF rv_instInfo
<1> HIDE DEF i
<1>2. /\ rd \in 0 .. 31 /\ both \in 0 .. 31 /\ rs1 \in 0 .. 31 /\ rs2 \in 0 .. 31
      /\ rdq \in 0 .. 31 /\ rs1q \in 0 .. 31 /\ rs2q \in 0 .. 31 /\ bothq \in 0 .. 31
  <2>1. /\ Bits(i, 7, 5) \in 0 .. 31 /\ Bits(i, 2, 5) \in 0 .. 31
        /\ Bits(i, 7, 3) \in 0 .. 7 /\ Bits(i, 2, 3) \in 0 .. 7
    BY <1>1 DEF Bits
  <2> QED
    BY <2>1 DEF operand_crd, operand_crdq, operand_crs1q, operand_crs2q, operand_crs1rd,
                operand_crs1rdq, operand_crs1, operand_crs2
<1> HIDE DEF rd, rdq, rs1q, rs2q, both, bothq, rs1, rs2
<1> DEFINE R == 0 .. 31
<1>3. /\ rd \in R /\ both \in R /\ rs1 \in R /\ rs2 \in R /\ rdq \in R /\ rs1q \in R
      /\ rs2q \in R /\ bothq \in R /\ 0 \in R /\ 1 \in R /\ 2 \in R /\ 0 \in Int
  BY <1>2, SmallRegisters
<1>3a. \A a, b, c \in R : \A n \in Int : Operanded(Set(d, a, b, c, n), d)
  BY SetOperanded
<1> HIDE DEF R
<1>4. \A n \in Int :
        /\ Operanded(Set(d, 0, rs1q, 0, n), d) /\ Operanded(Set(d, bothq, bothq, 0, n), d)
        /\ Operanded(Set(d, both, both, 0, n), d) /\ Operanded(Set(d, 2, 2, 0, n), d)
        /\ Operanded(Set(d, rd, 2, 0, n), d) /\ Operanded(Set(d, rd, 0, 0, n), d)
  BY <1>3, <1>3a
<1>4a. \A n \in Int :
         /\ Operanded(Set(d, rdq, 2, 0, n), d) /\ Operanded(Set(d, 0, 0, 0, n), d)
         /\ Operanded(Set(d, 1, 0, 0, n), d) /\ Operanded(Set(d, rdq, rs1q, 0, n), d)
         /\ Operanded(Set(d, 0, rs1q, rs2q, n), d) /\ Operanded(Set(d, 0, 2, rs2, n), d)
  BY <1>3, <1>3a
<1>5. /\ Operanded(Set(d, both, both, rs2, 0), d) /\ Operanded(Set(d, rd, rs2, 0, 0), d)
      /\ Operanded(Set(d, 1, rs1, 0, 0), d) /\ Operanded(Set(d, 0, rs1, 0, 0), d)
      /\ Operanded(Set(d, bothq, bothq, rs2q, 0), d)
  BY <1>3, <1>3a
<1>6. CASE type \in {"cb", "cb_imm", "cb_sh5", "cb_sh6", "ci", "ci_sh5", "ci_sh6", "ci_16sp"}
  BY <1>1, <1>4, <1>4a, <1>6, CompressedIntegers DEF CompressedOperands, i, rs1q, both, bothq
<1>7. CASE type \in {"ci_lwsp", "ci_ldsp", "ci_lqsp", "ci_li", "ci_lui", "ci_none", "ciw_4spn"}
  BY <1>1, SmallRegisters, <1>4, <1>4a, <1>7, CompressedIntegers DEF CompressedOperands, i, rd, rdq
<1>8. CASE type \in {"cj", "cj_jal", "cl_lw", "cl_ld", "cl_lq"}
  BY <1>1, <1>4, <1>4a, <1>8, CompressedIntegers DEF CompressedOperands, i, rdq, rs1q
<1>9. CASE type \in {"cr", "cr_mv", "cr_jalr", "cr_jr", "cs"}
  BY <1>5, <1>9 DEF CompressedOperands, i, rd, both, bothq, rs1, rs2, rs2q
<1>10. CASE type \in {"cs_sw", "cs_sd", "cs_sq", "css_swsp", "css_sdsp", "css_sqsp"}
  BY <1>1, <1>4, <1>4a, <1>10, CompressedIntegers DEF CompressedOperands, i, rs1q, rs2q, rs2
<1> QED
  BY <1>6, <1>7, <1>8, <1>9, <1>10 DEF CompressedTypes

LEMMA OperandsTyped ==
  ASSUME NEW d \in rv_instInfo, NEW type \in rv_type
  PROVE  LET x == rv_inst_oprands(d, type)
         IN  x \in rv_instInfo /\ x.op = d.op /\ x.type = type /\ x.inst = d.inst
<1> DEFINE e == [d EXCEPT !.type = type]
<1>1. e \in rv_instInfo
  BY Assigned
<1>2. e.op = d.op /\ e.type = type /\ e.inst = d.inst
  BY DEF rv_instInfo
<1> HIDE DEF e
<1>3. CASE type \in UncompressedTypes
  <2> type \notin CompressedTypes
    BY <1>3 DEF UncompressedTypes, CompressedTypes
  <2>1. rv_inst_oprands(d, type) = UncompressedOperands(e, type)
    BY <1>3 DEF rv_inst_oprands, e
  <2>2. Operanded(UncompressedOperands(e, type), e)
    BY <1>1, <1>3, UncompressedOperanded
  <2> QED
    BY <1>2, <2>1, <2>2 DEF Operanded
<1>4. CASE type \in CompressedTypes /\ type \notin UncompressedTypes
  <2>1. rv_inst_oprands(d, type) = CompressedOperands(e, type)
    BY <1>4 DEF rv_inst_oprands, e
  <2>2. Operanded(CompressedOperands(e, type), e)
    BY <1>1, <1>4, CompressedOperanded
  <2> QED
    BY <1>2, <2>1, <2>2 DEF Operanded
<1>5. CASE type \notin UncompressedTypes /\ type \notin CompressedTypes
  BY <1>1, <1>2, <1>5 DEF rv_inst_oprands, e
<1> QED
  BY <1>3, <1>4, <1>5

LEMMA Least ==
  ASSUME NEW S \in SUBSET Nat, S # {}
  PROVE  Min(S) \in S /\ \A y \in S : Min(S) <= y
<1> DEFINE R == OpToRel(<, Nat)
<1>1. IsWellFoundedOn(R, Nat)
  BY NatLessThanWellFounded
<1>2. \A x, y \in Nat : y < x => <<y, x>> \in R
  BY DEF OpToRel
<1> HIDE DEF R
<1>3. PICK x \in S : \A y \in S : ~ (<<y, x>> \in R)
  BY <1>1, WFMin
<1>4. ASSUME NEW y \in S
      PROVE  x <= y
  <2>1. x \in Nat /\ y \in Nat
    OBVIOUS
  <2>2. ~ (y < x)
    BY <1>2, <1>3, <2>1
  <2> QED
    BY <2>1, <2>2
<1> QED
  BY <1>3, <1>4 DEF Min

LEMMA LesserOfTwo ==
  ASSUME NEW a \in Nat, NEW b \in Nat
  PROVE  Min({a, b}) = IF a <= b THEN a ELSE b
<1>1. Min({a, b}) \in {a, b} /\ \A y \in {a, b} : Min({a, b}) <= y
  BY Least
<1> QED
  BY <1>1

LEMMA PseudoNames ==
  /\ \A n \in {"nop", "ret", "mv", "not", "seqz", "jr", "neg", "negw", "snez", "sgtz", "sltz", "j"} :
       <<n>> \in rv_op
  /\ \A n \in {"beqz", "bnez", "bgez", "bltz", "blez", "bgtz", "ble", "bleu", "bgt", "bgtu"} :
       <<n>> \in rv_op
  /\ \A n \in {"rdcycle", "rdtime", "rdinstret", "rdcycleh", "rdtimeh", "rdinstreth", "frcsr",
               "frrm", "frflags", "fscsr", "fsrm", "fsflags", "fsrmi", "fsflagsi"} : <<n>> \in rv_op
  /\ <<"sext", "w">> \in rv_op
  /\ \A n \in {"fmv", "fabs", "fneg"} : \A p \in Precisions : <<n, p>> \in rv_op
<1>1. /\ Plain({"nop", "ret"}) \subseteq rv_op /\ Plain({"jr"}) \subseteq rv_op
      /\ Plain({"mv", "not", "seqz"}) \cup {<<"sext", "w">>} \subseteq rv_op
      /\ Plain({"neg", "negw", "snez", "sgtz"}) \subseteq rv_op
  BY RowOps DEF Rows, PseudoRows
<1>2. /\ Plain({"sltz"}) \cup Dot({"fmv", "fabs", "fneg"}, Precisions) \subseteq rv_op
      /\ Plain({"beqz", "bnez", "bgez", "bltz"}) \subseteq rv_op
      /\ Plain({"blez", "bgtz"}) \subseteq rv_op
      /\ Plain({"ble", "bleu", "bgt", "bgtu"}) \subseteq rv_op /\ Plain({"j"}) \subseteq rv_op
  BY RowOps DEF Rows, PseudoRows
<1>3. /\ Plain({"rdcycle", "rdtime", "rdinstret", "rdcycleh", "rdtimeh", "rdinstreth", "frcsr",
                "frrm", "frflags"}) \subseteq rv_op
      /\ Plain({"fscsr", "fsrm", "fsflags"}) \subseteq rv_op
      /\ Plain({"fsrmi", "fsflagsi"}) \subseteq rv_op
  BY RowOps DEF Rows, PseudoRows
<1>4. \A n \in {"fmv", "fabs", "fneg"} : \A p \in Precisions : <<n, p>> \in rv_op
  BY <1>2, Dotted
<1> QED
  BY <1>1, <1>2, <1>3, <1>4 DEF Plain

LEMMA Lifted ==
  \A of, to, if : <<of>> \in rv_op /\ <<to>> \in rv_op /\ if \in SUBSET rvc_constraint
                    => Lift(of, to, if) \in rv_compData
BY DEF Lift, rv_compData

LEMMA ListsInTable ==
  rvcp \in Seq(rv_compData) /\ \A k \in DOMAIN rvcp : rvcp[k].to \in rv_op
<1>1. BranchLifts \in Seq(rv_compData)
  BY BaseNames, PseudoNames, Lifted DEF BranchLifts, rvc_constraint
<1>2. ArithmeticLifts \in Seq(rv_compData)
  <2>1. [of |-> <<"addiw">>, to |-> <<"sext", "w">>, if |-> {"imm_eq_zero"}] \in rv_compData
    BY BaseNames, PseudoNames DEF rvc_constraint, rv_compData
  <2> QED
    BY <2>1, BaseNames, ArithmeticNames, PseudoNames, Lifted DEF ArithmeticLifts, rvc_constraint
<1>3. CsrLifts \in Seq(rv_compData)
  BY BaseNames, SystemNames, PseudoNames, Lifted DEF CsrLifts, rvc_constraint
<1>4. FloatLifts \in Seq(rv_compData)
  <2>1. \A p \in Precisions : /\ FloatLift("fsgnj", "fmv", p) \in rv_compData
                             /\ FloatLift("fsgnjn", "fneg", p) \in rv_compData
                             /\ FloatLift("fsgnjx", "fabs", p) \in rv_compData
    BY FloatNames, PseudoNames DEF FloatLift, rvc_constraint, rv_compData
  <2> QED
    BY <2>1 DEF FloatLifts, Precisions
<1>5. rvcp \in Seq(rv_compData)
  BY <1>1, <1>2, <1>3, <1>4, ConcatProperties DEF rvcp
<1>6. \A k \in DOMAIN rvcp : rvcp[k] \in rv_compData
  BY <1>5
<1> QED
  BY <1>5, <1>6 DEF rv_compData

LEMMA PseudoTyped ==
  ASSUME NEW d \in rv_instInfo, d.type = opcode_data[d.op].type
  PROVE  LET x == rv_inst_pseudo(d)
         IN  x \in rv_instInfo /\ x.type = opcode_data[x.op].type
<1> DEFINE hits == {k \in DOMAIN rvcp : rvcp[k].of = d.op /\ check_constraints(d, rvcp[k].if)}
           to   == rvcp[Min(hits)].to
           type == opcode_data[to].type
           e    == [d EXCEPT !.op = to]
<1>1. CASE hits # {}
  <2>1. hits \subseteq Nat
    BY ListsInTable
  <2>2. Min(hits) \in hits
    BY <1>1, <2>1, Least
  <2>3. to \in rv_op
    BY <2>2, ListsInTable
  <2>4. type \in rv_type
    BY <2>3, OpData, RowTypes
  <2> HIDE DEF hits, to, type
  <2>5. e \in rv_instInfo /\ e.op = to
    <3>1. e \in rv_instInfo
      BY <2>3, Assigned
    <3> QED
      BY <3>1 DEF rv_instInfo
  <2> HIDE DEF e
  <2>6. [e EXCEPT !.type = type] \in rv_instInfo
    BY <2>4, <2>5, Assigned
  <2>7. [e EXCEPT !.type = type].type = type /\ [e EXCEPT !.type = type].op = to
    BY <2>5 DEF rv_instInfo
  <2>8. rv_inst_pseudo(d) = [e EXCEPT !.type = type]
    BY <1>1 DEF rv_inst_pseudo, hits, to, type, e
  <2> HIDE DEF type
  <2> QED
    BY <2>6, <2>7, <2>8 DEF type
<1>2. CASE hits = {}
  BY <1>2 DEF rv_inst_pseudo
<1> QED
  BY <1>1, <1>2

-----------------------------------------------------------------------------
(***************************************************************************)
(* The formats.  Of a format's operands at most one is long, and only in a *)
(* short format; a target is the last.                                     *)
(***************************************************************************)
Short == {"(", ",", ")", "0", "1", "2", "3", "4", "5", "6", "7", "r", "p", "s"}
Long  == {"i", "c"}

(* The index of the tab: formats with marks have two characters for them.  *)
TabAt(ft) == IF ft[2] = "A" THEN 4 ELSE 2

Shaped(ft) ==
  /\ Len(ft) \in TabAt(ft) .. 11
  /\ ft[1] = "O" /\ ft[TabAt(ft)] = "\t"
  /\ ft[2] = "A" => ft[3] = "R"
  /\ \A k \in TabAt(ft) + 1 .. Len(ft) :
       /\ ft[k] \in Short \cup Long \cup {"o"}
       /\ ft[k] \in Long => Len(ft) <= 8 /\ \A j \in TabAt(ft) + 1 .. Len(ft) : ft[j] \in Long => j = k
       /\ ft[k] = "o" => k = Len(ft) /\ k <= 7 /\ \A j \in TabAt(ft) + 1 .. Len(ft) : ft[j] \notin Long

(* Formats by the places of their operands.                                *)
Spells(ft, n) == Len(ft) = n /\ ft[1] = "O" /\ ft[2] = "\t"

Chars3(ft, A) == Spells(ft, 3) /\ ft[3] \in A
Chars5(ft, A) == Spells(ft, 5) /\ ft[3] \in Short /\ ft[4] \in Short /\ ft[5] \in A
Chars7(ft, A, B) ==
  Spells(ft, 7) /\ ft[3] \in Short /\ ft[4] \in Short /\ ft[5] \in A /\ ft[6] \in Short /\ ft[7] \in B
Chars8(ft) ==
  /\ Spells(ft, 8) /\ ft[3] \in Short /\ ft[4] \in Short /\ ft[5] \in Long
  /\ ft[6] \in Short /\ ft[7] \in Short /\ ft[8] \in Short

LEMMA Kinds == Short \cap Long = {} /\ "o" \notin Short \cup Long
BY DEF Short, Long

LEMMA AllShort ==
  ASSUME NEW ft, NEW n \in 2 .. 11, Spells(ft, n), \A k \in 3 .. n : ft[k] \in Short
  PROVE  Shaped(ft)
BY Kinds DEF Spells, Shaped, TabAt

LEMMA Chars3Shaped ==
  ASSUME NEW ft, Chars3(ft, Short) \/ Chars3(ft, {"o"})
  PROVE  Shaped(ft)
<1>1. CASE Chars3(ft, Short)
  BY <1>1, Kinds DEF Chars3, Spells, Shaped, TabAt
<1>2. CASE Chars3(ft, {"o"})
  BY <1>2, Kinds DEF Chars3, Spells, Shaped, TabAt
<1> QED
  BY <1>1, <1>2

LEMMA Chars5Shaped ==
  ASSUME NEW ft, Chars5(ft, Short) \/ Chars5(ft, Long) \/ Chars5(ft, {"o"})
  PROVE  Shaped(ft)
<1>1. CASE Chars5(ft, Short)
  BY <1>1, Kinds DEF Chars5, Spells, Shaped, TabAt
<1>2. CASE Chars5(ft, Long)
  BY <1>2, Kinds DEF Chars5, Spells, Shaped, TabAt
<1>3. CASE Chars5(ft, {"o"})
  BY <1>3, Kinds DEF Chars5, Spells, Shaped, TabAt
<1> QED
  BY <1>1, <1>2, <1>3

LEMMA Chars7Shaped ==
  ASSUME NEW ft, \/ Chars7(ft, Short, Short) \/ Chars7(ft, Short, Long)
                 \/ Chars7(ft, Long, Short) \/ Chars7(ft, Short, {"o"})
  PROVE  Shaped(ft)
<1>1. CASE Chars7(ft, Short, Short)
  BY <1>1, Kinds DEF Chars7, Spells, Shaped, TabAt
<1>2. CASE Chars7(ft, Short, Long)
  BY <1>2, Kinds DEF Chars7, Spells, Shaped, TabAt
<1>3. CASE Chars7(ft, Long, Short)
  BY <1>3, Kinds DEF Chars7, Spells, Shaped, TabAt
<1>4. CASE Chars7(ft, Short, {"o"})
  BY <1>4, Kinds DEF Chars7, Spells, Shaped, TabAt
<1> QED
  BY <1>1, <1>2, <1>3, <1>4

LEMMA Chars8Shaped ==
  ASSUME NEW ft, Chars8(ft)
  PROVE  Shaped(ft)
BY Kinds DEF Chars8, Spells, Shaped, TabAt

LEMMA ThreeOrFive ==
  /\ Shaped(fmt_rs1) /\ Shaped(fmt_rd) /\ Shaped(fmt_offset)
  /\ Shaped(fmt_pred_succ) /\ Shaped(fmt_rs1_rs2) /\ Shaped(fmt_frd_rs1) /\ Shaped(fmt_rd_frs1)
  /\ Shaped(fmt_rd_zimm) /\ Shaped(fmt_rd_rs1) /\ Shaped(fmt_rd_rs2)
  /\ Shaped(fmt_rd_imm)
  /\ Shaped(fmt_rd_offset) /\ Shaped(fmt_rs1_offset) /\ Shaped(fmt_rs2_offset)
<1>1. Chars3(fmt_rs1, Short) /\ Chars3(fmt_rd, Short) /\ Chars3(fmt_offset, {"o"})
  BY DEF Chars3, Spells, Short, fmt_rs1, fmt_rd, fmt_offset
<1>2. /\ Chars5(fmt_pred_succ, Short) /\ Chars5(fmt_rs1_rs2, Short) /\ Chars5(fmt_frd_rs1, Short)
      /\ Chars5(fmt_rd_frs1, Short) /\ Chars5(fmt_rd_zimm, Short) /\ Chars5(fmt_rd_rs1, Short)
      /\ Chars5(fmt_rd_rs2, Short)
  BY DEF Chars5, Spells, Short, fmt_pred_succ, fmt_rs1_rs2, fmt_frd_rs1, fmt_rd_frs1, fmt_rd_zimm,
         fmt_rd_rs1, fmt_rd_rs2
<1>3. Chars5(fmt_rd_imm, Long)
  BY DEF Chars5, Spells, Short, Long, fmt_rd_imm
<1>4. Chars5(fmt_rd_offset, {"o"}) /\ Chars5(fmt_rs1_offset, {"o"}) /\ Chars5(fmt_rs2_offset, {"o"})
  BY DEF Chars5, Spells, Short, fmt_rd_offset, fmt_rs1_offset, fmt_rs2_offset
<1> QED
  BY <1>1, <1>2, <1>3, <1>4, Chars3Shaped, Chars5Shaped

LEMMA SevenOrEight ==
  /\ Shaped(fmt_rd_rs1_rs2) /\ Shaped(fmt_rd_frs1_frs2) /\ Shaped(fmt_frd_frs1_frs2)
  /\ Shaped(fmt_rm_frd_frs1) /\ Shaped(fmt_rm_frd_rs1) /\ Shaped(fmt_rm_rd_frs1)
  /\ Shaped(fmt_rd_rs1_imm) /\ Shaped(fmt_rd_rs1_offset)
  /\ Shaped(fmt_rd_csr_rs1) /\ Shaped(fmt_rd_csr_zimm)
  /\ Shaped(fmt_rs1_rs2_offset) /\ Shaped(fmt_rs2_rs1_offset)
  /\ Shaped(fmt_rd_offset_rs1) /\ Shaped(fmt_frd_offset_rs1)
  /\ Shaped(fmt_rs2_offset_rs1) /\ Shaped(fmt_frs2_offset_rs1)
<1>1. /\ Chars7(fmt_rd_rs1_rs2, Short, Short) /\ Chars7(fmt_rd_frs1_frs2, Short, Short)
      /\ Chars7(fmt_frd_frs1_frs2, Short, Short)
  BY DEF Chars7, Spells, Short, fmt_rd_rs1_rs2, fmt_rd_frs1_frs2, fmt_frd_frs1_frs2
<1>2. /\ Chars7(fmt_rm_frd_frs1, Short, Short) /\ Chars7(fmt_rm_frd_rs1, Short, Short)
      /\ Chars7(fmt_rm_rd_frs1, Short, Short)
  BY DEF Chars7, Spells, Short, fmt_rm_frd_frs1, fmt_rm_frd_rs1, fmt_rm_rd_frs1
<1>3. Chars7(fmt_rd_rs1_imm, Short, Long) /\ Chars7(fmt_rd_rs1_offset, Short, Long)
  BY DEF Chars7, Spells, Short, Long, fmt_rd_rs1_imm, fmt_rd_rs1_offset
<1>4. Chars7(fmt_rd_csr_rs1, Long, Short) /\ Chars7(fmt_rd_csr_zimm, Long, Short)
  BY DEF Chars7, Spells, Short, Long, fmt_rd_csr_rs1, fmt_rd_csr_zimm
<1>5. Chars7(fmt_rs1_rs2_offset, Short, {"o"}) /\ Chars7(fmt_rs2_rs1_offset, Short, {"o"})
  BY DEF Chars7, Spells, Short, fmt_rs1_rs2_offset, fmt_rs2_rs1_offset
<1>6. Chars8(fmt_rd_offset_rs1) /\ Chars8(fmt_frd_offset_rs1)
  BY DEF Chars8, Spells, Short, Long, fmt_rd_offset_rs1, fmt_frd_offset_rs1
<1>7. Chars8(fmt_rs2_offset_rs1) /\ Chars8(fmt_frs2_offset_rs1)
  BY DEF Chars8, Spells, Short, Long, fmt_rs2_offset_rs1, fmt_frs2_offset_rs1
<1> QED
  BY <1>1, <1>2, <1>3, <1>4, <1>5, <1>6, <1>7, Chars7Shaped, Chars8Shaped

LEMMA OtherLengths ==
  /\ Shaped(fmt_none) /\ Shaped(fmt_rm_frd_frs1_frs2) /\ Shaped(fmt_rm_frd_frs1_frs2_frs3)
  /\ Shaped(fmt_aqrl_rd_rs1) /\ Shaped(fmt_aqrl_rd_rs2_rs1)
<1>1. Shaped(fmt_none)
  <2>1. Spells(fmt_none, 2)
    BY DEF Spells, fmt_none
  <2> QED
    BY <2>1, AllShort
<1>2. Shaped(fmt_rm_frd_frs1_frs2)
  <2> DEFINE ft == fmt_rm_frd_frs1_frs2
  <2>1. Spells(ft, 9)
    BY DEF Spells, fmt_rm_frd_frs1_frs2
  <2>2. /\ ft[3] \in Short /\ ft[4] \in Short /\ ft[5] \in Short /\ ft[6] \in Short
        /\ ft[7] \in Short /\ ft[8] \in Short /\ ft[9] \in Short
    BY DEF Short, fmt_rm_frd_frs1_frs2
  <2> HIDE DEF ft
  <2>3. \A k \in 3 .. 9 : ft[k] \in Short
    BY <2>2
  <2> QED
    BY <2>1, <2>3, AllShort DEF ft
<1>3. Shaped(fmt_rm_frd_frs1_frs2_frs3)
  <2> DEFINE ft == fmt_rm_frd_frs1_frs2_frs3
  <2>1. Spells(ft, 11)
    BY DEF Spells, fmt_rm_frd_frs1_frs2_frs3
  <2>2. /\ ft[3] \in Short /\ ft[4] \in Short /\ ft[5] \in Short /\ ft[6] \in Short
        /\ ft[7] \in Short /\ ft[8] \in Short /\ ft[9] \in Short /\ ft[10] \in Short
        /\ ft[11] \in Short
    BY DEF Short, fmt_rm_frd_frs1_frs2_frs3
  <2> HIDE DEF ft
  <2>3. \A k \in 3 .. 11 : ft[k] \in Short
    BY <2>2
  <2> QED
    BY <2>1, <2>3, AllShort DEF ft
<1>4. Shaped(fmt_aqrl_rd_rs1)
  <2> DEFINE ft == fmt_aqrl_rd_rs1
  <2>1. Len(ft) = 9 /\ ft[1] = "O" /\ ft[2] = "A" /\ ft[3] = "R" /\ ft[4] = "\t"
    BY DEF fmt_aqrl_rd_rs1
  <2>2. ft[5] \in Short /\ ft[6] \in Short /\ ft[7] \in Short /\ ft[8] \in Short /\ ft[9] \in Short
    BY DEF Short, fmt_aqrl_rd_rs1
  <2> HIDE DEF ft
  <2>3. \A k \in 5 .. 9 : ft[k] \in Short
    BY <2>2
  <2>4. Shaped(ft)
    BY <2>1, <2>3, Kinds DEF Shaped, TabAt
  <2> QED
    BY <2>4 DEF ft
<1>5. Shaped(fmt_aqrl_rd_rs2_rs1)
  <2> DEFINE ft == fmt_aqrl_rd_rs2_rs1
  <2>1. Len(ft) = 11 /\ ft[1] = "O" /\ ft[2] = "A" /\ ft[3] = "R" /\ ft[4] = "\t"
    BY DEF fmt_aqrl_rd_rs2_rs1
  <2>2. /\ ft[5] \in Short /\ ft[6] \in Short /\ ft[7] \in Short /\ ft[8] \in Short
        /\ ft[9] \in Short /\ ft[10] \in Short /\ ft[11] \in Short
    BY DEF Short, fmt_aqrl_rd_rs2_rs1
  <2> HIDE DEF ft
  <2>3. \A k \in 5 .. 11 : ft[k] \in Short
    BY <2>2
  <2>4. Shaped(ft)
    BY <2>1, <2>3, Kinds DEF Shaped, TabAt
  <2> QED
    BY <2>4 DEF ft
<1> QED
  BY <1>1, <1>2, <1>3, <1>4, <1>5

LEMMA RowFormats == \A row \in Rows : Shaped(row.format)
<1>1. \A row \in BaseRows \cup AtomicRows : Shaped(row.format)
  BY ThreeOrFive, SevenOrEight, OtherLengths DEF BaseRows, AtomicRows, Row
<1>2. \A row \in SystemRows \cup FloatRows : Shaped(row.format)
  BY ThreeOrFive, SevenOrEight, OtherLengths DEF SystemRows, FloatRows, Row
<1>3. \A row \in CompressedRows : Shaped(row.format)
  BY ThreeOrFive, SevenOrEight, OtherLengths DEF CompressedRows, Row
<1>4. \A row \in PseudoRows : Shaped(row.format)
  BY ThreeOrFive, SevenOrEight, OtherLengths DEF PseudoRows, Row
<1> QED
  BY <1>1, <1>2, <1>3, <1>4 DEF Rows

-----------------------------------------------------------------------------
(***************************************************************************)
(* append, and the widths of what it is called with.                       *)
(***************************************************************************)
Buffer(l) == l.len \in 0 .. BufLen /\ \E S : l.pieces \in Seq(S)

(* r is l and one more piece, cut only if the buffer is full.              *)
Grown(l, r, kind, value, width) ==
  /\ Buffer(r)
  /\ \E e : /\ e.kind = kind /\ e.value = value /\ e.width = width /\ e.chars \in 0 .. width
            /\ l.len + width <= BufLen => e.chars = width
            /\ r.len = l.len + e.chars
            /\ ToSet(r.pieces) = ToSet(l.pieces) \cup {e}

LEMMA Appended ==
  ASSUME NEW l, Buffer(l), NEW kind, NEW value, NEW width \in Nat
  PROVE  Grown(l, append(l, kind, value, width), kind, value, width)
<1> DEFINE r     == append(l, kind, value, width)
           chars == Min({width, BufLen - l.len})
           e     == [kind |-> kind, value |-> value, width |-> width, chars |-> chars]
<1>1. l.len \in Nat /\ l.len <= BufLen /\ BufLen \in Nat /\ BufLen - l.len \in Nat
  BY TabAssumption DEF Buffer
<1>2. chars = IF width <= BufLen - l.len THEN width ELSE BufLen - l.len
  BY <1>1, LesserOfTwo
<1>3. PICK S : l.pieces \in Seq(S)
  BY DEF Buffer
<1> HIDE DEF chars
<1>4. r = [len |-> l.len + chars, pieces |-> Append(l.pieces, e)]
  BY DEF append, chars
<1>9. e.kind = kind /\ e.value = value /\ e.width = width /\ e.chars = chars
  OBVIOUS
<1> HIDE DEF r, e
<1>5. r.len = l.len + chars /\ r.pieces = Append(l.pieces, e)
  BY <1>4
<1>6. chars \in 0 .. width /\ (l.len + width <= BufLen => chars = width) /\ l.len + chars \in 0 .. BufLen
  BY <1>1, <1>2
<1>7. r.pieces \in Seq(S \cup {e})
  BY <1>3, <1>5
<1>8. ToSet(r.pieces) = ToSet(l.pieces) \cup {e}
  <2> DEFINE s == l.pieces
  <2>1. s \in Seq(S) /\ Len(s) \in Nat
    BY <1>3
  <2> HIDE DEF s
  <2>2. /\ Len(Append(s, e)) = Len(s) + 1
        /\ \A i \in 1 .. Len(s) : Append(s, e)[i] = s[i]
        /\ Append(s, e)[Len(s) + 1] = e
    BY <2>1, AppendProperties
  <2>3. DOMAIN s = 1 .. Len(s) /\ DOMAIN Append(s, e) = 1 .. Len(s) + 1
    BY <2>1, <2>2
  <2>4. ToSet(Append(s, e)) \subseteq ToSet(s) \cup {e}
    BY <2>1, <2>2, <2>3 DEF ToSet
  <2>5. ToSet(s) \cup {e} \subseteq ToSet(Append(s, e))
    BY <2>1, <2>2, <2>3 DEF ToSet
  <2> QED
    BY <1>5, <2>4, <2>5 DEF s
<1>10. Buffer(r)
  BY <1>5, <1>6, <1>7 DEF Buffer
<1> QED
  BY <1>5, <1>6, <1>8, <1>9, <1>10 DEF Grown, r

LEMMA PowersOfTen == 10^1 = 10 /\ 10^2 = 100
OBVIOUS

LEMMA DecimalWidth ==
  /\ \A n \in Int : Decimal(n) \in 1 .. 11
  /\ \A n \in 0 .. 31 : Decimal(n) <= 2
<1> DEFINE S(n) == {k \in 1 .. 10 : k = 10 \/ (-(10^k) < n /\ n < 10^k)}
<1>1. ASSUME NEW n \in Int
      PROVE  Min(S(n)) \in S(n) /\ Min(S(n)) \in 1 .. 10 /\ \A k \in S(n) : Min(S(n)) <= k
  <2>1. 10 \in S(n) /\ S(n) \in SUBSET Nat /\ S(n) \subseteq 1 .. 10
    OBVIOUS
  <2> HIDE DEF S
  <2> QED
    BY <2>1, Least
<1>2. ASSUME NEW n \in 0 .. 31
      PROVE  2 \in S(n)
  BY PowersOfTen
<1>3. \A n : Decimal(n) = Min(S(n)) + IF n < 0 THEN 1 ELSE 0
  BY DEF Decimal
<1> HIDE DEF S
<1>4. ASSUME NEW n \in Int
      PROVE  Decimal(n) \in 1 .. 11
  BY <1>1, <1>3
<1>5. ASSUME NEW n \in 0 .. 31
      PROVE  Decimal(n) <= 2
  BY <1>1, <1>2, <1>3
<1> QED
  BY <1>4, <1>5

LEMMA Quotients == \A x \in Int : x % 65536 \in Half /\ x \div 65536 \in Int
BY DEF Half

(* The sum is modulo 2^64.                                                 *)
LEMMA TargetTyped ==
  ASSUME NEW pc \in Address, NEW imm \in Int
  PROVE  Target(pc, imm) \in Address
<1>1. pc[1] \in Int /\ pc[2] \in Int /\ pc[3] \in Int /\ pc[4] \in Int
  BY DEF Address, Half
<1>2. PICK low \in Int : low = pc[1] + (imm % 65536)
  BY <1>1, Quotients
<1>3. PICK next \in Int : next = pc[2] + imm \div 65536 + low \div 65536
  BY <1>1, Quotients
<1>4. PICK high \in Int : high = pc[3] + next \div 65536
  BY <1>1, Quotients
<1>5. PICK top \in Int : top = pc[4] + high \div 65536
  BY <1>1, Quotients
<1>6. Target(pc, imm) = <<low % 65536, next % 65536, high % 65536, top % 65536>>
  BY <1>2, <1>3, <1>4, <1>5 DEF Target
<1>7. <<low % 65536, next % 65536, high % 65536, top % 65536>> \in Address
  <2>1. low % 65536 \in Half /\ next % 65536 \in Half /\ high % 65536 \in Half /\ top % 65536 \in Half
    BY Quotients
  <2>2. \A a, b, c, e \in Half : <<a, b, c, e>> \in Address
    BY DEF Address
  <2> QED
    BY <2>1, <2>2
<1> QED
  BY <1>6, <1>7

(* From here on a number has twelve digits or more.                        *)
FarOff(a) == a[4] > 0 \/ a[3] >= 4096

LEMMA HexadecimalWidth ==
  \A a \in Address : Hexadecimal(a) \in 1 .. 16 /\ (~ FarOff(a) => Hexadecimal(a) <= 11)
<1> SUFFICES ASSUME NEW a \in Address
             PROVE  Hexadecimal(a) \in 1 .. 16 /\ (~ FarOff(a) => Hexadecimal(a) <= 11)
  OBVIOUS
<1> DEFINE T == {k \in 1 .. 4 : k = 1 \/ a[k] > 0}
           top == Max(T)
           S == {k \in 1 .. 4 : k = 4 \/ a[top] < 16^k}
<1>1. a[3] \in Nat /\ a[4] \in Nat
  BY DEF Address, Half
<1>2. top \in T
  <2>1. 1 \in T /\ T \subseteq 1 .. 4
    OBVIOUS
  <2> HIDE DEF T
  <2>2. \E x \in T : \A y \in T : x >= y
    <3>1. CASE 4 \in T
      BY <2>1, <3>1
    <3>2. CASE 4 \notin T /\ 3 \in T
      BY <2>1, <3>2
    <3>3. CASE 4 \notin T /\ 3 \notin T /\ 2 \in T
      BY <2>1, <3>3
    <3>4. CASE 4 \notin T /\ 3 \notin T /\ 2 \notin T
      BY <2>1, <3>4
    <3> QED
      BY <3>1, <3>2, <3>3, <3>4
  <2> QED
    BY <2>2 DEF Max
<1>3. Hexadecimal(a) = 4 * (top - 1) + Min(S)
  BY DEF Hexadecimal
<1>4. top \in 1 .. 4 /\ (top = 4 => a[4] > 0)
  BY <1>2
<1> HIDE DEF top
<1>5. Min(S) \in 1 .. 4 /\ \A k \in S : Min(S) <= k
  <2>1. 4 \in S /\ S \in SUBSET Nat /\ S \subseteq 1 .. 4
    OBVIOUS
  <2> HIDE DEF S
  <2> QED
    BY <2>1, Least
<1>6. ASSUME ~ FarOff(a), top = 3
      PROVE  Min(S) <= 3
  <2>1. a[top] < 4096
    BY <1>1, <1>6 DEF FarOff
  <2>2. 16^3 = 4096
    OBVIOUS
  <2>3. 3 \in S
    BY <2>1, <2>2
  <2> QED
    BY <1>5, <2>3
<1>7. ~ FarOff(a) => top # 4
  BY <1>1, <1>4 DEF FarOff
<1> DEFINE digits == Min(S)
<1>8. digits \in 1 .. 4 /\ Hexadecimal(a) = 4 * (top - 1) + digits
  BY <1>3, <1>5
<1>9. ~ FarOff(a) => top \in 1 .. 3 /\ (top = 3 => digits <= 3)
  BY <1>4, <1>6, <1>7
<1> HIDE DEF digits
<1> QED
  BY <1>4, <1>8, <1>9

LEMMA LettersWidth == \A set \in 0 .. 15 : Letters(set) \in 0 .. 4
<1> SUFFICES ASSUME NEW set \in 0 .. 15
             PROVE  Letters(set) \in 0 .. 4
  OBVIOUS
<1>1. /\ Bits(set, 0, 1) \in 0 .. 1 /\ Bits(set, 1, 1) \in 0 .. 1
      /\ Bits(set, 2, 1) \in 0 .. 1 /\ Bits(set, 3, 1) \in 0 .. 1
  BY DEF Bits
<1> QED
  BY <1>1 DEF Letters

LEMMA RegisterWidths ==
  \A r \in 0 .. 31 : rv_i_reg_abi_name(r) \in 2 .. 4 /\ rv_f_reg_abi_name(r) \in 3 .. 4
BY DEF rv_i_reg_abi_name, rv_f_reg_abi_name

LEMMA OtherChars ==
  ASSUME NEW l, NEW d
  PROVE  /\ format_char(l, "O", d) = append(l, "name", d.op, NameWidth(d.op))
         /\ format_char(l, "A", d) = IF d.aq = 1 THEN append(l, "mark", "aq", 3) ELSE l
         /\ format_char(l, "R", d) = IF d.rl = 1 THEN append(l, "mark", "rl", 3) ELSE l
         /\ format_char(l, "\t", d) = pad(l, Tab)
         /\ format_char(l, "o", d) =
              append(pad(append(l, "imm", d.imm, Decimal(d.imm)), 2 * Tab),
                     "target", Target(d.pc, d.imm), 4 + Hexadecimal(Target(d.pc, d.imm)))
BY DEF format_char

(* An operand, not what the invariant below tells from one.                *)
Appends(l, r, widths) ==
  \E kind, value : \E width \in widths :
    kind \notin {"mark", "pad", "target"} /\ r = append(l, kind, value, width)

LEMMA ShortAppends ==
  ASSUME NEW l, NEW d \in rv_instInfo
  PROVE  \A c \in Short : Appends(l, format_char(l, c, d), 0 .. 4)
<1> DEFINE x(r) == append(l, "x", r, rv_i_reg_abi_name(r))
           f(r) == append(l, "f", r, rv_f_reg_abi_name(r))
           fence(set) == append(l, "fence", set, Letters(set))
<1>1. \A r \in 0 .. 31 : Appends(l, x(r), 0 .. 4)
  BY RegisterWidths DEF Appends
<1>2. \A r \in 0 .. 31 : Appends(l, f(r), 0 .. 4)
  BY RegisterWidths DEF Appends
<1>3. \A set \in 0 .. 15 : Appends(l, fence(set), 0 .. 4)
  BY LettersWidth DEF Appends
<1>4. \A r \in 0 .. 31 : Appends(l, append(l, "num", r, Decimal(r)), 0 .. 4)
  <2>1. \A r \in 0 .. 31 : Decimal(r) \in 0 .. 4
    BY DecimalWidth
  <2> QED
    BY <2>1 DEF Appends
<1>5. Appends(l, append(l, "rm", RoundingMode(d), 3), 0 .. 4)
  BY DEF Appends
<1>6. \A c : Appends(l, append(l, "punctuation", c, 1), 0 .. 4)
  BY DEF Appends
<1>7. /\ d.rd \in 0 .. 31 /\ d.rs1 \in 0 .. 31 /\ d.rs2 \in 0 .. 31 /\ d.rs3 \in 0 .. 31
      /\ d.pred \in 0 .. 15 /\ d.succ \in 0 .. 15
  BY DEF rv_instInfo
<1>8. /\ format_char(l, "(", d) = append(l, "punctuation", "(", 1)
      /\ format_char(l, ",", d) = append(l, "punctuation", ",", 1)
      /\ format_char(l, ")", d) = append(l, "punctuation", ")", 1)
  BY DEF format_char
<1>9. /\ format_char(l, "0", d) = x(d.rd) /\ format_char(l, "1", d) = x(d.rs1)
      /\ format_char(l, "2", d) = x(d.rs2)
  BY DEF format_char
<1>10. /\ format_char(l, "3", d) = f(d.rd) /\ format_char(l, "4", d) = f(d.rs1)
       /\ format_char(l, "5", d) = f(d.rs2) /\ format_char(l, "6", d) = f(d.rs3)
  BY DEF format_char
<1>11. /\ format_char(l, "7", d) = append(l, "num", d.rs1, Decimal(d.rs1))
       /\ format_char(l, "r", d) = append(l, "rm", RoundingMode(d), 3)
       /\ format_char(l, "p", d) = fence(d.pred) /\ format_char(l, "s", d) = fence(d.succ)
  BY DEF format_char
<1> HIDE DEF x, f, fence
<1>12. \A c \in {"(", ",", ")"} : Appends(l, format_char(l, c, d), 0 .. 4)
  BY <1>6, <1>8
<1>13. \A c \in {"0", "1", "2"} : Appends(l, format_char(l, c, d), 0 .. 4)
  BY <1>1, <1>7, <1>9
<1>14. \A c \in {"3", "4", "5", "6"} : Appends(l, format_char(l, c, d), 0 .. 4)
  BY <1>2, <1>7, <1>10
<1>15. \A c \in {"7", "r", "p", "s"} : Appends(l, format_char(l, c, d), 0 .. 4)
  BY <1>3, <1>4, <1>5, <1>7, <1>11
<1> QED
  BY <1>12, <1>13, <1>14, <1>15 DEF Short

LEMMA LongAppends ==
  ASSUME NEW l, NEW d \in rv_instInfo
  PROVE  \A c \in Long : Appends(l, format_char(l, c, d), 0 .. 14)
<1>1. Appends(l, append(l, "imm", d.imm, Decimal(d.imm)), 0 .. 14)
  <2>1. d.imm \in Int
    BY DEF rv_instInfo
  <2>2. Decimal(d.imm) \in 0 .. 14
    BY <2>1, DecimalWidth
  <2> QED
    BY <2>2 DEF Appends
<1>2. Appends(l, append(l, "csr", d.imm % 4096, CsrWidth(d.imm % 4096)), 0 .. 14)
  <2>1. \A csr : CsrWidth(csr) \in 0 .. 14
    BY DEF CsrWidth
  <2> QED
    BY <2>1 DEF Appends
<1>3. /\ format_char(l, "i", d) = append(l, "imm", d.imm, Decimal(d.imm))
      /\ format_char(l, "c", d) = append(l, "csr", d.imm % 4096, CsrWidth(d.imm % 4096))
  BY DEF format_char
<1> QED
  BY <1>1, <1>2, <1>3 DEF Long

LEMMA PadAppends ==
  ASSUME NEW l, Buffer(l), NEW column \in Nat
  PROVE  \E width \in Nat : /\ pad(l, column) = append(l, "pad", column, width)
                            /\ width = IF l.len < column THEN column - l.len ELSE 0
<1>1. l.len \in Nat
  BY TabAssumption DEF Buffer
<1> QED
  BY <1>1 DEF pad

-----------------------------------------------------------------------------
(***************************************************************************)
(* How far the line has come, at each character of the format: an          *)
(* invariant of the loop.  Up to the target of a 'o' no piece is cut, and  *)
(* each kind of character leaves room for those behind it.                 *)
(***************************************************************************)
MarksOf(P)  == {p.value : p \in {q \in P : q.kind = "mark"}}
Far(P)      == \E p \in P : p.kind = "target" /\ FarOff(p.value)
Uncut(P)    == \A p \in P : p.chars = p.width

(* A blank behind the mnemonic.                                            *)
Parted(P) == \/ \A p \in P : p.kind = "pad" /\ p.value = Tab => p.chars > 0
             \/ MarksOf(P) = {"aq", "rl"}

AtName(l) ==
  LET P == ToSet(l.pieces)
  IN  Uncut(P) /\ l.len <= 18 /\ \A p \in P : p.kind \notin {"mark", "pad", "target"}

AtMarks(l, n) ==
  LET P == ToSet(l.pieces)
  IN  /\ Uncut(P) /\ \A p \in P : p.kind \notin {"pad", "target"}
      /\ \/ MarksOf(P) = {} /\ l.len <= 28
         \/ n >= 3 /\ MarksOf(P) = {"aq"} /\ l.len <= 31
         \/ n >= 4 /\ MarksOf(P) = {"rl"} /\ l.len <= 31
         \/ n >= 4 /\ MarksOf(P) = {"aq", "rl"} /\ l.len <= 34

(* The long operand, if it is behind character n already.                  *)
LongRoom(ft, n) == IF \E j \in TabAt(ft) + 1 .. n - 1 : ft[j] \in Long THEN 10 ELSE 0

AtOperands(l, ft, n) ==
  LET P == ToSet(l.pieces)
  IN  /\ Uncut(P) /\ Parted(P) /\ \A p \in P : p.kind # "target"
      /\ l.len <= Tab + 2 + 4 * (n - TabAt(ft) - 1) + LongRoom(ft, n)

BehindTarget(l) ==
  LET P == ToSet(l.pieces)
  IN  Parted(P) /\ (~ Far(P) => Uncut(P) /\ l.len <= 2 * Tab + 15)

LineOk(l, ft, n) ==
  \/ n = 1 /\ AtName(l)
  \/ n \in 2 .. TabAt(ft) /\ AtMarks(l, n)
  \/ n \in TabAt(ft) + 1 .. Len(ft) + 1 /\ AtOperands(l, ft, n)
  \/ n = Len(ft) + 1 /\ BehindTarget(l)

LEMMA Added ==
  ASSUME NEW P, NEW e
  PROVE  LET Q == P \cup {e}
         IN  /\ e.kind # "mark" => MarksOf(Q) = MarksOf(P)
             /\ e.kind = "mark" => MarksOf(Q) = MarksOf(P) \cup {e.value}
             /\ Uncut(P) /\ e.chars = e.width => Uncut(Q)
             /\ Parted(P) /\ e.kind \notin {"mark", "pad"} => Parted(Q)
<1> DEFINE Q == P \cup {e}
<1>1. e.kind # "mark" => MarksOf(Q) = MarksOf(P)
  BY DEF MarksOf
<1>2. e.kind = "mark" => MarksOf(Q) = MarksOf(P) \cup {e.value}
  BY DEF MarksOf
<1>3. Uncut(P) /\ e.chars = e.width => Uncut(Q)
  BY DEF Uncut
<1>4. Parted(P) /\ e.kind \notin {"mark", "pad"} => Parted(Q)
  BY <1>1 DEF Parted
<1> QED
  BY <1>1, <1>2, <1>3, <1>4

LEMMA OperandAdded ==
  ASSUME NEW l, Buffer(l), NEW w \in Nat, NEW r, Appends(l, r, 0 .. w)
  PROVE  LET P == ToSet(l.pieces)
             Q == ToSet(r.pieces)
         IN  /\ Buffer(r) /\ r.len <= l.len + w
             /\ Parted(P) => Parted(Q)
             /\ (\A p \in P : p.kind # "target") => \A p \in Q : p.kind # "target"
             /\ Uncut(P) /\ l.len + w <= BufLen => Uncut(Q)
<1> DEFINE P == ToSet(l.pieces)
           Q == ToSet(r.pieces)
<1>1. PICK kind, value : \E width \in 0 .. w :
        kind \notin {"mark", "pad", "target"} /\ r = append(l, kind, value, width)
  BY DEF Appends
<1>2. PICK width \in 0 .. w :
        kind \notin {"mark", "pad", "target"} /\ r = append(l, kind, value, width)
  BY <1>1
<1>3. Grown(l, r, kind, value, width)
  BY <1>2, Appended
<1>4. PICK e : /\ Buffer(r) /\ e.kind = kind /\ e.width = width /\ e.chars \in 0 .. width
               /\ l.len + width <= BufLen => e.chars = width
               /\ r.len = l.len + e.chars
               /\ Q = P \cup {e}
  BY <1>3 DEF Grown
<1>5. l.len \in Nat /\ BufLen \in Nat
  BY TabAssumption DEF Buffer
<1> HIDE DEF P, Q
<1>6. r.len <= l.len + w
  BY <1>4, <1>5
<1>7. Parted(P) => Parted(Q)
  BY <1>2, <1>4, Added
<1>8. (\A p \in P : p.kind # "target") => \A p \in Q : p.kind # "target"
  BY <1>2, <1>4
<1>9. ASSUME Uncut(P), l.len + w <= BufLen
      PROVE  Uncut(Q)
  <2>1. e.chars = e.width
    BY <1>4, <1>5, <1>9
  <2> QED
    BY <1>4, <1>9, <2>1, Added
<1> QED
  BY <1>4, <1>6, <1>7, <1>8, <1>9 DEF P, Q

LEMMA NameStep ==
  ASSUME NEW l, Buffer(l), AtName(l), NEW d \in rv_instInfo
  PROVE  Buffer(format_char(l, "O", d)) /\ AtMarks(format_char(l, "O", d), 2)
<1> DEFINE r == format_char(l, "O", d)
           w == NameWidth(d.op)
           P == ToSet(l.pieces)
           Q == ToSet(r.pieces)
<1>1. w \in 1 .. 10
  BY NameAssumption DEF rv_instInfo
<1>2. r = append(l, "name", d.op, w)
  BY OtherChars
<1>3. Uncut(P) /\ l.len <= 18 /\ \A p \in P : p.kind \notin {"mark", "pad", "target"}
  BY DEF AtName
<1>4. l.len \in Nat /\ BufLen \in Nat /\ 76 < BufLen
  BY TabAssumption DEF Buffer
<1> HIDE DEF w
<1>5. Grown(l, r, "name", d.op, w)
  BY <1>1, <1>2, Appended
<1>6. PICK e : /\ Buffer(r) /\ e.kind = "name" /\ e.width = w
               /\ l.len + w <= BufLen => e.chars = w
               /\ r.len = l.len + e.chars
               /\ Q = P \cup {e}
  BY <1>5 DEF Grown
<1> HIDE DEF P, Q, r
<1>7. e.chars = w /\ r.len <= 28
  BY <1>1, <1>3, <1>4, <1>6
<1>8. Uncut(Q)
  BY <1>3, <1>6, <1>7, Added
<1>9. \A p \in Q : p.kind \notin {"pad", "target"}
  BY <1>3, <1>6
<1>10. MarksOf(Q) = {}
  <2>1. \A p \in Q : p.kind # "mark"
    BY <1>3, <1>6
  <2> QED
    BY <2>1 DEF MarksOf
<1>11. AtMarks(r, 2)
  BY <1>7, <1>8, <1>9, <1>10 DEF AtMarks, Q
<1> QED
  BY <1>6, <1>11 DEF r

LEMMA MarkStep ==
  ASSUME NEW l, Buffer(l), NEW n \in {2, 3}, AtMarks(l, n), NEW mark, mark = IF n = 2 THEN "aq" ELSE "rl",
         NEW r, r = l \/ r = append(l, "mark", mark, 3)
  PROVE  Buffer(r) /\ AtMarks(r, n + 1)
<1> DEFINE P == ToSet(l.pieces)
           Q == ToSet(r.pieces)
<1>1. CASE r = l
  BY <1>1 DEF AtMarks
<1>2. CASE r = append(l, "mark", mark, 3)
  <2>1. Grown(l, r, "mark", mark, 3)
    BY <1>2, Appended
  <2>2. PICK e : /\ Buffer(r) /\ e.kind = "mark" /\ e.value = mark /\ e.width = 3
                 /\ l.len + 3 <= BufLen => e.chars = 3
                 /\ r.len = l.len + e.chars
                 /\ Q = P \cup {e}
    BY <2>1 DEF Grown
  <2>3. l.len \in Nat /\ BufLen \in Nat /\ 76 < BufLen
    BY TabAssumption DEF Buffer
  <2>4. Uncut(P) /\ \A p \in P : p.kind \notin {"pad", "target"}
    BY DEF AtMarks
  <2>5. \/ MarksOf(P) = {} /\ l.len <= 28
        \/ n = 3 /\ MarksOf(P) = {"aq"} /\ l.len <= 31
    BY DEF AtMarks
  <2> HIDE DEF P, Q
  <2>6. e.chars = 3 /\ r.len = l.len + 3
    BY <2>2, <2>3, <2>5
  <2>7. Uncut(Q)
    BY <2>2, <2>4, <2>6, Added
  <2>8. \A p \in Q : p.kind \notin {"pad", "target"}
    BY <2>2, <2>4
  <2>9. MarksOf(Q) = MarksOf(P) \cup {mark}
    BY <2>2, Added
  <2>10. \/ MarksOf(Q) = {"aq"} /\ r.len <= 31 /\ n + 1 >= 3
         \/ MarksOf(Q) = {"rl"} /\ r.len <= 31 /\ n + 1 >= 4
         \/ MarksOf(Q) = {"aq", "rl"} /\ r.len <= 34 /\ n + 1 >= 4
    BY <2>3, <2>5, <2>6, <2>9
  <2>11. AtMarks(r, n + 1)
    BY <2>7, <2>8, <2>10 DEF AtMarks, Q
  <2> QED
    BY <2>2, <2>11
<1> QED
  BY <1>1, <1>2

LEMMA TabStep ==
  ASSUME NEW l, Buffer(l), NEW ft, AtMarks(l, TabAt(ft)), NEW n, n = TabAt(ft) + 1
  PROVE  Buffer(pad(l, Tab)) /\ AtOperands(pad(l, Tab), ft, n)
<1> DEFINE r == pad(l, Tab)
           P == ToSet(l.pieces)
           Q == ToSet(r.pieces)
<1>1. PICK width \in Nat : /\ r = append(l, "pad", Tab, width)
                           /\ width = IF l.len < Tab THEN Tab - l.len ELSE 0
  BY TabAssumption, PadAppends
<1> HIDE DEF r
<1>2. Grown(l, r, "pad", Tab, width)
  BY <1>1, Appended
<1>3. PICK e : /\ Buffer(r) /\ e.kind = "pad" /\ e.value = Tab /\ e.width = width
               /\ l.len + width <= BufLen => e.chars = width
               /\ r.len = l.len + e.chars
               /\ Q = P \cup {e}
  BY <1>2 DEF Grown
<1>4. l.len \in Nat /\ BufLen \in Nat /\ Tab \in Nat /\ Tab >= 32 /\ Tab + 12 < BufLen
  BY TabAssumption DEF Buffer
<1>5. Uncut(P) /\ \A p \in P : p.kind \notin {"pad", "target"}
  BY DEF AtMarks
<1>6. l.len <= 31 \/ (MarksOf(P) = {"aq", "rl"} /\ l.len <= 34)
  BY <1>4 DEF AtMarks
<1>7. n - TabAt(ft) - 1 = 0 /\ TabAt(ft) \in {2, 4}
  BY DEF TabAt
<1>8. LongRoom(ft, n) = 0
  BY <1>7 DEF LongRoom
<1> HIDE DEF P, Q
<1>9. e.chars = width /\ r.len <= Tab + 2
  <2>1. l.len <= 34
    BY <1>4, <1>6
  <2>2. width \in Nat /\ l.len + width <= Tab + 2
    BY <1>1, <1>4, <2>1
  <2>3. e.chars = width
    BY <1>3, <1>4, <2>2
  <2> QED
    BY <1>3, <2>2, <2>3
<1>10. Uncut(Q)
  <2>1. e.chars = e.width
    BY <1>3, <1>9
  <2> QED
    BY <1>3, <1>5, <2>1, Added
<1>11. \A p \in Q : p.kind # "target"
  BY <1>3, <1>5
<1>12. Parted(Q)
  <2>1. CASE l.len <= 31
    <3>1. e.chars > 0
      BY <1>1, <1>4, <1>9, <2>1
    <3> QED
      BY <1>3, <1>5, <3>1 DEF Parted
  <2>2. CASE MarksOf(P) = {"aq", "rl"}
    <3>1. MarksOf(Q) = MarksOf(P)
      BY <1>3, Added
    <3> QED
      BY <2>2, <3>1 DEF Parted
  <2> QED
    BY <1>6, <2>1, <2>2
<1>13. r.len <= Tab + 2 + 4 * (n - TabAt(ft) - 1) + LongRoom(ft, n)
  BY <1>4, <1>7, <1>8, <1>9
<1>14. AtOperands(r, ft, n)
  BY <1>10, <1>11, <1>12, <1>13 DEF AtOperands, Q
<1> QED
  BY <1>3, <1>14 DEF r

LEMMA LongRooms ==
  ASSUME NEW ft, Shaped(ft), NEW n \in TabAt(ft) + 1 .. Len(ft) + 1
  PROVE  /\ TabAt(ft) \in {2, 4} /\ Len(ft) \in TabAt(ft) .. 11
         /\ LongRoom(ft, n) \in {0, 10} /\ LongRoom(ft, n + 1) \in {0, 10}
         /\ LongRoom(ft, n) <= LongRoom(ft, n + 1)
         /\ 4 * (n - TabAt(ft) - 1) + LongRoom(ft, n) \in 0 .. 36
         /\ n <= Len(ft) /\ ft[n] \in Long =>
              n <= 8 /\ LongRoom(ft, n) = 0 /\ LongRoom(ft, n + 1) = 10
         /\ n <= Len(ft) /\ ft[n] = "o" => n = Len(ft) /\ n <= 7 /\ LongRoom(ft, n) = 0
<1> DEFINE T == TabAt(ft)
<1>1. T \in {2, 4} /\ Len(ft) \in T .. 11
  BY DEF TabAt, Shaped
<1>2. \A k \in T + 1 .. Len(ft) :
        ft[k] \in Long => Len(ft) <= 8 /\ \A j \in T + 1 .. Len(ft) : ft[j] \in Long => j = k
  BY DEF Shaped
<1>3. \A k \in T + 1 .. Len(ft) :
        ft[k] = "o" => k = Len(ft) /\ k <= 7 /\ \A j \in T + 1 .. Len(ft) : ft[j] \notin Long
  BY DEF Shaped
<1>4. \A m : LongRoom(ft, m) = IF \E j \in T + 1 .. m - 1 : ft[j] \in Long THEN 10 ELSE 0
  BY DEF LongRoom
<1> HIDE DEF T
<1>5. n \in T + 1 .. Len(ft) + 1
  BY DEF T
<1>6. T + 1 .. n - 1 \subseteq T + 1 .. (n + 1) - 1 /\ T + 1 .. n - 1 \subseteq T + 1 .. Len(ft)
  BY <1>1, <1>5
<1>7. /\ LongRoom(ft, n) \in {0, 10} /\ LongRoom(ft, n + 1) \in {0, 10}
      /\ LongRoom(ft, n) <= LongRoom(ft, n + 1)
  BY <1>4, <1>6
<1>8. LongRoom(ft, n) = 10 => Len(ft) <= 8
  BY <1>2, <1>4, <1>6
<1>9. 4 * (n - T - 1) + LongRoom(ft, n) \in 0 .. 36
  <2>1. n - T - 1 \in 0 .. 9 /\ (LongRoom(ft, n) = 10 => n - T - 1 <= 6)
    BY <1>1, <1>5, <1>8
  <2> DEFINE k == n - T - 1
  <2> HIDE DEF k
  <2>2. k \in 0 .. 9 /\ (LongRoom(ft, n) = 10 => k <= 6)
    BY <2>1 DEF k
  <2>3. 4 * k + LongRoom(ft, n) \in 0 .. 36
    <3>1. CASE LongRoom(ft, n) = 0
      BY <2>2, <3>1
    <3>2. CASE LongRoom(ft, n) = 10
      BY <2>2, <3>2
    <3> QED
      BY <1>7, <3>1, <3>2
  <2> QED
    BY <2>3 DEF k
<1>10. ASSUME n <= Len(ft), ft[n] \in Long
       PROVE  n <= 8 /\ LongRoom(ft, n) = 0 /\ LongRoom(ft, n + 1) = 10
  <2>1. n \in T + 1 .. Len(ft) /\ n \notin T + 1 .. n - 1 /\ n \in T + 1 .. (n + 1) - 1
    BY <1>1, <1>5, <1>10
  <2>2. ~ \E j \in T + 1 .. n - 1 : ft[j] \in Long
    BY <1>2, <1>6, <1>10, <2>1
  <2>3. \E j \in T + 1 .. (n + 1) - 1 : ft[j] \in Long
    BY <1>10, <2>1
  <2>4. n <= 8
    BY <1>1, <1>2, <1>10, <2>1
  <2> QED
    BY <1>4, <2>2, <2>3, <2>4
<1>11. ASSUME n <= Len(ft), ft[n] = "o"
       PROVE  n = Len(ft) /\ n <= 7 /\ LongRoom(ft, n) = 0
  <2>1. n \in T + 1 .. Len(ft)
    BY <1>1, <1>5, <1>11
  <2>2. n = Len(ft) /\ n <= 7
    BY <1>3, <1>11, <2>1
  <2>3. ~ \E j \in T + 1 .. n - 1 : ft[j] \in Long
    BY <1>3, <1>6, <1>11, <2>1
  <2> QED
    BY <1>4, <2>2, <2>3
<1> QED
  BY <1>1, <1>7, <1>9, <1>10, <1>11 DEF T

LEMMA OperandStep ==
  ASSUME NEW l, Buffer(l), NEW ft, Shaped(ft), NEW n \in TabAt(ft) + 1 .. Len(ft), AtOperands(l, ft, n),
         NEW r, \/ ft[n] \in Short /\ Appends(l, r, 0 .. 4)
                \/ ft[n] \in Long /\ Appends(l, r, 0 .. 14),
         NEW m, m = n + 1
  PROVE  Buffer(r) /\ AtOperands(r, ft, m)
<1> DEFINE P == ToSet(l.pieces)
           Q == ToSet(r.pieces)
           T == TabAt(ft)
           w == IF ft[n] \in Long THEN 14 ELSE 4
           room == LongRoom(ft, n)
           next == LongRoom(ft, m)
<1>1. T \in {2, 4} /\ Len(ft) \in T .. 11
  BY DEF TabAt, Shaped
<1>2. n \in T + 1 .. Len(ft) + 1 /\ n \in T + 1 .. Len(ft)
  BY <1>1
<1>3. /\ room \in {0, 10} /\ next \in {0, 10} /\ room <= next /\ 4 * (n - T - 1) + room \in 0 .. 36
      /\ ft[n] \in Long => n <= 8 /\ room = 0 /\ next = 10
  BY <1>1, <1>2, LongRooms
<1>4. /\ l.len \in Nat /\ Tab \in Nat /\ BufLen \in Nat /\ Tab + 44 < BufLen
  BY TabAssumption DEF Buffer
<1>5. Uncut(P) /\ Parted(P) /\ (\A p \in P : p.kind # "target") /\ l.len <= Tab + 2 + 4 * (n - T - 1) + room
  BY DEF AtOperands
<1>6. Appends(l, r, 0 .. w) /\ w \in {4, 14} /\ (w = 4 \/ ft[n] \in Long)
  BY Kinds
<1>7. /\ Buffer(r) /\ r.len <= l.len + w
      /\ Parted(P) => Parted(Q)
      /\ (\A p \in P : p.kind # "target") => \A p \in Q : p.kind # "target"
      /\ Uncut(P) /\ l.len + w <= BufLen => Uncut(Q)
  <2> HIDE DEF w
  <2> QED
    BY <1>6, OperandAdded
<1>8. r.len \in Nat
  BY <1>4, <1>7 DEF Buffer
<1> HIDE DEF P, Q, T, w, room, next
<1>9. l.len + w <= BufLen
  <2> DEFINE k == 4 * (n - T - 1)
  <2>1. k \in Int /\ k + room <= 36 /\ l.len <= Tab + 2 + k + room
    BY <1>1, <1>2, <1>3, <1>5
  <2>2. w = 4 \/ (w = 14 /\ room = 0 /\ k <= 20)
    <3>1. w = 4 \/ (w = 14 /\ room = 0 /\ n <= 8)
      <4>1. ft[n] \in Long => room = 0 /\ n <= 8
        BY <1>3
      <4>2. w = 4 \/ (w = 14 /\ ft[n] \in Long)
        BY <1>6
      <4> QED
        BY <4>1, <4>2
    <3>2. n <= 8 => k <= 20
      BY <1>1, <1>2
    <3> HIDE DEF k
    <3> QED
      BY <3>1, <3>2
  <2> HIDE DEF k
  <2>3. room \in Int
    BY <1>3
  <2> QED
    BY <1>4, <2>1, <2>2, <2>3
<1>10. m - T - 1 = (n - T - 1) + 1
  BY <1>1, <1>2
<1>11. r.len <= Tab + 2 + 4 * (m - T - 1) + next
  <2> DEFINE k == n - T - 1
  <2>1. k \in Nat /\ m - T - 1 = k + 1 /\ l.len <= Tab + 2 + 4 * k + room
    BY <1>1, <1>2, <1>5, <1>10
  <2> HIDE DEF k
  <2>2. w \in Nat /\ room \in Nat /\ next \in Nat /\ room + w <= 4 + next
    BY <1>3, <1>6
  <2>3. r.len <= Tab + 2 + 4 * (k + 1) + next
    BY <1>4, <1>7, <1>8, <2>1, <2>2
  <2> QED
    BY <2>1, <2>3
<1>12. Uncut(Q) /\ Parted(Q) /\ \A p \in Q : p.kind # "target"
  BY <1>5, <1>7, <1>9
<1>13. AtOperands(r, ft, m)
  BY <1>11, <1>12 DEF AtOperands, Q, T, next
<1> QED
  BY <1>7, <1>13

LEMMA TargetStep ==
  ASSUME NEW l, Buffer(l), NEW d \in rv_instInfo, NEW ft, Shaped(ft),
         NEW n \in TabAt(ft) + 1 .. Len(ft), AtOperands(l, ft, n), ft[n] = "o",
         NEW r, r = format_char(l, "o", d)
  PROVE  Buffer(r) /\ n = Len(ft) /\ BehindTarget(r)
<1> DEFINE a == append(l, "imm", d.imm, Decimal(d.imm))
           b == pad(a, 2 * Tab)
           target == Target(d.pc, d.imm)
           w == 4 + Hexadecimal(target)
           P == ToSet(l.pieces)   A == ToSet(a.pieces)
           B == ToSet(b.pieces)   Q == ToSet(r.pieces)
<1>1. d.imm \in Int /\ target \in Address
  <2>1. d.imm \in Int /\ d.pc \in Address
    BY DEF rv_instInfo
  <2> QED
    BY <2>1, TargetTyped
<1>2. /\ Decimal(d.imm) \in 1 .. 11 /\ w \in Nat
      /\ ~ FarOff(target) => w <= 15
  <2>1. Decimal(d.imm) \in 1 .. 11
    BY <1>1, DecimalWidth
  <2>2. Hexadecimal(target) \in 1 .. 16 /\ (~ FarOff(target) => Hexadecimal(target) <= 11)
    BY <1>1, HexadecimalWidth
  <2> DEFINE digits == Hexadecimal(target)
  <2> HIDE DEF target, digits
  <2>3. digits \in 1 .. 16 /\ (~ FarOff(target) => digits <= 11) /\ w = 4 + digits
    BY <2>2 DEF digits
  <2> HIDE DEF w
  <2> QED
    BY <2>1, <2>3
<1>3. r = append(b, "target", target, w)
  BY OtherChars
<1> HIDE DEF target, w
<1>4. n = Len(ft) /\ l.len <= Tab + 18
  <2>1. TabAt(ft) \in {2, 4} /\ Len(ft) \in TabAt(ft) .. 11
    BY DEF TabAt, Shaped
  <2>2. n = Len(ft) /\ n <= 7 /\ LongRoom(ft, n) = 0
    BY <2>1, LongRooms
  <2>3. l.len \in Nat /\ Tab \in Nat /\ l.len <= Tab + 2 + 4 * (n - TabAt(ft) - 1) + LongRoom(ft, n)
    BY TabAssumption DEF Buffer, AtOperands
  <2> DEFINE k == n - TabAt(ft) - 1
  <2>4. k \in Int /\ k <= 4 /\ l.len <= Tab + 2 + 4 * k
    BY <2>1, <2>2, <2>3
  <2> HIDE DEF k
  <2>5. l.len <= Tab + 18
    BY <2>3, <2>4
  <2> QED
    BY <2>2, <2>5
<1>5. Uncut(P) /\ Parted(P) /\ \A p \in P : p.kind # "target"
  BY DEF AtOperands
<1>6. l.len \in Nat /\ Tab \in Nat /\ Tab >= 32 /\ BufLen \in Nat /\ 2 * Tab + 15 < BufLen
  BY TabAssumption DEF Buffer
<1>7. /\ Buffer(a) /\ a.len <= l.len + 11
      /\ Parted(P) => Parted(A)
      /\ (\A p \in P : p.kind # "target") => \A p \in A : p.kind # "target"
      /\ Uncut(P) /\ l.len + 11 <= BufLen => Uncut(A)
  <2>1. Appends(l, a, 0 .. 11)
    <3> DEFINE width == Decimal(d.imm)
    <3>1. width \in 0 .. 11 /\ a = append(l, "imm", d.imm, width)
      BY <1>2
    <3> HIDE DEF a, width
    <3> QED
      BY <3>1 DEF Appends
  <2> HIDE DEF a
  <2> QED
    BY <2>1, OperandAdded
<1> HIDE DEF a
<1>8. a.len \in Nat /\ a.len < 2 * Tab
  BY <1>4, <1>6, <1>7 DEF Buffer
<1>9. Uncut(A) /\ Parted(A) /\ \A p \in A : p.kind # "target"
  BY <1>4, <1>5, <1>6, <1>7
<1>10. Buffer(b) /\ b.len = 2 * Tab /\ Uncut(B) /\ Parted(B) /\ \A p \in B : p.kind # "target"
  <2> DEFINE column == 2 * Tab
  <2>1. PICK width \in Nat : /\ b = append(a, "pad", column, width)
                             /\ width = IF a.len < column THEN column - a.len ELSE 0
    <3>1. column \in Nat
      BY <1>6
    <3> HIDE DEF column
    <3> QED
      BY <1>7, <3>1, PadAppends DEF column
  <2> HIDE DEF b, column
  <2>2. Grown(a, b, "pad", column, width)
    BY <1>7, <2>1, Appended
  <2>3. PICK e : /\ Buffer(b) /\ e.kind = "pad" /\ e.value = column /\ e.width = width
                 /\ a.len + width <= BufLen => e.chars = width
                 /\ b.len = a.len + e.chars
                 /\ B = A \cup {e}
    BY <2>2 DEF Grown
  <2> HIDE DEF A, B
  <2>4. e.chars = width /\ b.len = 2 * Tab /\ e.value # Tab
    BY <1>6, <1>8, <2>1, <2>3 DEF column
  <2>5. Uncut(B)
    BY <1>9, <2>3, <2>4, Added
  <2>6. MarksOf(B) = MarksOf(A)
    BY <2>3, Added
  <2>7. Parted(B)
    BY <1>9, <2>3, <2>4, <2>6 DEF Parted
  <2> QED
    BY <1>9, <2>3, <2>4, <2>5, <2>7
<1> HIDE DEF b
<1>11. Grown(b, r, "target", target, w)
  <2>1. Buffer(b) /\ w \in Nat
    BY <1>2, <1>10
  <2> QED
    BY <1>3, <2>1, Appended
<1>12. PICK e : /\ Buffer(r) /\ e.kind = "target" /\ e.value = target /\ e.width = w
                /\ b.len + w <= BufLen => e.chars = w
                /\ r.len = b.len + e.chars
                /\ Q = B \cup {e}
  BY <1>11 DEF Grown
<1> HIDE DEF P, A, B, Q
<1>13. Parted(Q)
  BY <1>10, <1>12, Added
<1>14. ASSUME ~ Far(Q)
       PROVE  Uncut(Q) /\ r.len <= 2 * Tab + 15
  <2>1. ~ FarOff(target)
    BY <1>12, <1>14 DEF Far
  <2>2. e.chars = e.width /\ r.len <= 2 * Tab + 15
    BY <1>2, <1>6, <1>10, <1>12, <2>1
  <2> QED
    BY <1>10, <1>12, <2>2, Added
<1>15. BehindTarget(r)
  BY <1>13, <1>14 DEF BehindTarget, Q
<1> QED
  BY <1>4, <1>12, <1>15

LEMMA CharStep ==
  ASSUME NEW l, Buffer(l), NEW d \in rv_instInfo, NEW ft, Shaped(ft), NEW n \in 1 .. Len(ft),
         LineOk(l, ft, n), NEW r, r = format_char(l, ft[n], d)
  PROVE  Buffer(r) /\ LineOk(r, ft, n + 1)
<1> DEFINE T == TabAt(ft)
<1>1. /\ T \in {2, 4} /\ Len(ft) \in T .. 11 /\ ft[1] = "O" /\ ft[T] = "\t"
      /\ T = 4 => ft[2] = "A" /\ ft[3] = "R"
  BY DEF TabAt, Shaped
<1>2. \A k \in T + 1 .. Len(ft) : ft[k] \in Short \cup Long \cup {"o"}
  BY DEF Shaped
<1>3. /\ n = 1 => AtName(l)
      /\ n \in 2 .. T => AtMarks(l, n)
      /\ n \in T + 1 .. Len(ft) => AtOperands(l, ft, n)
  BY <1>1 DEF LineOk
<1> HIDE DEF T
<1>4. n = 1 \/ n \in 2 .. T - 1 \/ n = T \/ n \in T + 1 .. Len(ft)
  BY <1>1
<1>5. CASE n = 1
  <2>1. Buffer(r) /\ AtMarks(r, 2)
    BY <1>1, <1>3, <1>5, NameStep
  <2>2. n + 1 = 2 /\ 2 \in 2 .. T
    BY <1>1, <1>5
  <2> QED
    BY <2>1, <2>2 DEF LineOk, T
<1>6. CASE n \in 2 .. T - 1
  <2>1. n \in {2, 3} /\ T = 4 /\ AtMarks(l, n)
    BY <1>1, <1>3, <1>6
  <2> DEFINE mark == IF n = 2 THEN "aq" ELSE "rl"
  <2>2. r = l \/ r = append(l, "mark", mark, 3)
    <3>1. CASE n = 2
      <4>1. r = IF d.aq = 1 THEN append(l, "mark", "aq", 3) ELSE l
        BY <1>1, <2>1, <3>1, OtherChars
      <4> QED
        BY <3>1, <4>1
    <3>2. CASE n = 3
      <4>1. r = IF d.rl = 1 THEN append(l, "mark", "rl", 3) ELSE l
        BY <1>1, <2>1, <3>2, OtherChars
      <4> QED
        BY <3>2, <4>1
    <3> QED
      BY <2>1, <3>1, <3>2
  <2> HIDE DEF mark
  <2>3. Buffer(r) /\ AtMarks(r, n + 1)
    BY <2>1, <2>2, MarkStep DEF mark
  <2>4. n + 1 \in 2 .. T
    BY <2>1
  <2> QED
    BY <2>3, <2>4 DEF LineOk, T
<1>7. CASE n = T
  <2>1. r = pad(l, Tab)
    BY <1>1, <1>7, OtherChars
  <2>2. AtMarks(l, TabAt(ft)) /\ n + 1 = TabAt(ft) + 1
    BY <1>1, <1>3, <1>7 DEF T
  <2>3. Buffer(r) /\ AtOperands(r, ft, n + 1)
    BY <2>1, <2>2, TabStep
  <2>4. n + 1 \in T + 1 .. Len(ft) + 1
    BY <1>1, <1>7
  <2> QED
    BY <2>3, <2>4 DEF LineOk, T
<1>8. CASE n \in T + 1 .. Len(ft)
  <2>1. n \in TabAt(ft) + 1 .. Len(ft) /\ AtOperands(l, ft, n)
    BY <1>3, <1>8 DEF T
  <2>2. n + 1 \in T + 1 .. Len(ft) + 1
    BY <1>1, <1>8
  <2>3. CASE ft[n] \in Short \cup Long
    <3>1. \/ ft[n] \in Short /\ Appends(l, r, 0 .. 4)
          \/ ft[n] \in Long /\ Appends(l, r, 0 .. 14)
      BY <2>3, ShortAppends, LongAppends
    <3>2. Buffer(r) /\ AtOperands(r, ft, n + 1)
      BY <2>1, <3>1, OperandStep
    <3> QED
      BY <2>2, <3>2 DEF LineOk, T
  <2>4. CASE ft[n] = "o"
    <3>1. r = format_char(l, "o", d)
      BY <2>4
    <3>2. Buffer(r) /\ n = Len(ft) /\ BehindTarget(r)
      BY <2>1, <2>4, <3>1, TargetStep
    <3> QED
      BY <3>2 DEF LineOk
  <2> QED
    BY <1>2, <1>8, <2>3, <2>4
<1> QED
  BY <1>4, <1>5, <1>6, <1>7, <1>8

-----------------------------------------------------------------------------
(***************************************************************************)
(* The inductive invariant: in the loop the line is as long as its place   *)
(* in the format allows, and before the loop the format is at its start.   *)
(***************************************************************************)
LineInv == stage = "chars" => LineOk(line, Format, fmt)

Inv ==
  /\ TypeOK /\ Buffer(line) /\ LineInv
  /\ stage \notin {"chars", "returned"} => fmt = 1

LEMMA FormatsShaped ==
  \A op \in rv_op : Shaped(opcode_data[op].format) /\ Len(opcode_data[op].format) \in 2 .. 11
<1> SUFFICES ASSUME NEW op \in rv_op
             PROVE  Shaped(opcode_data[op].format) /\ Len(opcode_data[op].format) \in 2 .. 11
  OBVIOUS
<1> DEFINE ft == opcode_data[op].format
<1>1. opcode_data[op] \in Rows
  BY OpData
<1>2. Shaped(ft)
  BY <1>1, RowFormats
<1> HIDE DEF ft
<1> DEFINE n == Len(ft)
<1>3. n \in 2 .. 11 \/ n \in 4 .. 11
  BY <1>2 DEF Shaped, TabAt
<1> HIDE DEF n
<1>4. n \in 2 .. 11
  BY <1>3
<1> QED
  BY <1>2, <1>4 DEF ft, n

LEMMA DecFormat ==
  ASSUME dec \in rv_instInfo
  PROVE  dec.op \in rv_op /\ Shaped(Format) /\ Len(Format) \in 2 .. 11
<1>1. dec.op \in rv_op
  BY DEF rv_instInfo
<1> QED
  BY <1>1, FormatsShaped DEF Format

LEMMA ZeroedTyped ==
  ASSUME NEW inst \in Int, NEW pc \in Address
  PROVE  Zeroed(inst, pc) \in rv_instInfo
<1>1. op_illegal \in rv_op /\ "illegal" \in rv_type
  BY Illegal DEF rv_type
<1> QED
  BY <1>1 DEF Zeroed, rv_instInfo

LEMMA InitInv == Init => Inv
<1> SUFFICES ASSUME Init
             PROVE  Inv
  OBVIOUS
<1>1. PICK S \in Inputs : \E in \in S : isa = in.isa /\ dec = Zeroed(in.inst, in.pc)
  BY DEF Init
<1>2. PICK in \in S : isa = in.isa /\ dec = Zeroed(in.inst, in.pc)
  BY <1>1
<1>3. in.inst \in Int /\ in.isa \in Isas /\ in.pc \in Address
  BY <1>1, <1>2, InputAssumption
<1>4. dec \in rv_instInfo /\ isa \in Isas
  BY <1>2, <1>3, ZeroedTyped
<1>5. stage = "opcode" /\ fmt = 1
  BY DEF Init
<1>6. line.len = 0 /\ line.pieces = << >>
  BY DEF Init
<1>7. fmt \in 1 .. Len(Format) + 1
  BY <1>4, <1>5, DecFormat
<1>8. line.len \in 0 .. BufLen
  BY <1>6, TabAssumption
<1>9. Buffer(line)
  BY <1>6, <1>8 DEF Buffer
<1>10. TypeOK
  BY <1>4, <1>5, <1>7, <1>8 DEF TypeOK
<1>11. LineInv
  BY <1>5 DEF LineInv
<1> QED
  BY <1>5, <1>9, <1>10, <1>11 DEF Inv

-----------------------------------------------------------------------------
(***************************************************************************)
(* Each step keeps the invariant.                                          *)
(***************************************************************************)
LEMMA RecordFormat ==
  ASSUME NEW d \in rv_instInfo
  PROVE  /\ d.op \in rv_op /\ d.inst \in Int
         /\ Shaped(opcode_data[d.op].format) /\ Len(opcode_data[d.op].format) \in 2 .. 11
<1>1. d.op \in rv_op /\ d.inst \in Int
  BY DEF rv_instInfo
<1> QED
  BY <1>1, FormatsShaped

(* The calls before the loop change dec, and leave the line alone.         *)
LEMMA DecStep ==
  ASSUME Inv, stage \notin {"chars", "returned"},
         stage' \in {"operands", "pseudo", "format"},
         dec' \in rv_instInfo,
         stage' # "operands" => dec'.type = opcode_data[dec'.op].type,
         UNCHANGED <<isa, fmt, line>>
  PROVE  Inv'
<1>1. fmt' = 1 /\ line' = line /\ isa' = isa
  BY DEF Inv
<1>2. Buffer(line') /\ line'.len \in 0 .. BufLen /\ isa' \in Isas
  BY <1>1 DEF Inv, TypeOK
<1>3. Len(opcode_data[dec'.op].format) \in 2 .. 11
  BY RecordFormat
<1>4. fmt' \in 1 .. Len(opcode_data[dec'.op].format) + 1
  BY <1>1, <1>3
<1>5. TypeOK'
  BY <1>2, <1>4 DEF TypeOK, Format
<1>6. LineInv'
  BY DEF LineInv
<1> QED
  BY <1>1, <1>2, <1>5, <1>6 DEF Inv

LEMMA DecodeOpcodeInv == Inv /\ DecodeOpcode => Inv'
<1> SUFFICES ASSUME Inv, DecodeOpcode
             PROVE  Inv'
  OBVIOUS
<1>1. /\ stage = "opcode" /\ stage' = "operands" /\ UNCHANGED <<isa, fmt, line>>
      /\ dec' = [dec EXCEPT !.op = rv_inst_opcode(dec.inst, isa)]
  BY DEF DecodeOpcode
<1>2. dec \in rv_instInfo /\ isa \in Isas
  BY DEF Inv, TypeOK
<1>3. rv_inst_opcode(dec.inst, isa) \in rv_op
  BY <1>2, RecordFormat, OpInTable
<1>4. dec' \in rv_instInfo
  BY <1>1, <1>2, <1>3, Assigned
<1> QED
  BY <1>1, <1>4, DecStep

LEMMA DecodeOperandsInv == Inv /\ DecodeOperands => Inv'
<1> SUFFICES ASSUME Inv, DecodeOperands
             PROVE  Inv'
  OBVIOUS
<1> DEFINE type == opcode_data[dec.op].type
           x    == rv_inst_oprands(dec, type)
<1>1. stage = "operands" /\ stage' = "pseudo" /\ dec' = x /\ UNCHANGED <<isa, fmt, line>>
  BY DEF DecodeOperands
<1>2. dec \in rv_instInfo
  BY DEF Inv, TypeOK
<1>3. type \in rv_type
  BY <1>2, RecordFormat, OpData, RowTypes
<1> HIDE DEF type
<1>4. x \in rv_instInfo /\ x.op = dec.op /\ x.type = type
  BY <1>2, <1>3, OperandsTyped
<1> HIDE DEF x
<1>5. dec'.type = opcode_data[dec'.op].type
  BY <1>1, <1>4 DEF type
<1>6. dec' \in rv_instInfo
  BY <1>1, <1>4
<1> QED
  BY <1>1, <1>5, <1>6, DecStep

LEMMA LiftToPseudoInv == Inv /\ LiftToPseudo => Inv'
<1> SUFFICES ASSUME Inv, LiftToPseudo
             PROVE  Inv'
  OBVIOUS
<1>1. stage = "pseudo" /\ stage' = "format" /\ dec' = rv_inst_pseudo(dec) /\ UNCHANGED <<isa, fmt, line>>
  BY DEF LiftToPseudo
<1>2. dec \in rv_instInfo /\ dec.type = opcode_data[dec.op].type
  BY <1>1 DEF Inv, TypeOK
<1>3. dec' \in rv_instInfo /\ dec'.type = opcode_data[dec'.op].type
  BY <1>1, <1>2, PseudoTyped
<1> QED
  BY <1>1, <1>3, DecStep

LEMMA HeaderLine ==
  ASSUME NEW d
  PROVE  Buffer(Header(d)) /\ AtName(Header(d))
<1> DEFINE e == [kind |-> "word", value |-> d.inst, width |-> 18, chars |-> 18]
           h == Header(d)
<1>1. h.len = 18 /\ h.pieces = <<e>>
  BY DEF Header
<1>2. e.kind = "word" /\ e.chars = e.width
  OBVIOUS
<1> HIDE DEF e, h
<1>3. ToSet(h.pieces) = {e} /\ h.pieces \in Seq({e})
  BY <1>1 DEF ToSet
<1>4. 18 \in 0 .. BufLen
  BY TabAssumption
<1>5. Buffer(h)
  BY <1>1, <1>3, <1>4 DEF Buffer
<1>6. AtName(h)
  BY <1>1, <1>2, <1>3 DEF AtName, Uncut
<1> QED
  BY <1>5, <1>6 DEF h

LEMMA FormatWordInv == Inv /\ FormatWord => Inv'
<1> SUFFICES ASSUME Inv, FormatWord
             PROVE  Inv'
  OBVIOUS
<1>1. stage = "format" /\ stage' = "chars" /\ line' = Header(dec) /\ UNCHANGED <<isa, dec, fmt>>
  BY DEF FormatWord
<1>2. fmt' = 1 /\ Format' = Format
  BY <1>1 DEF Inv, Format
<1>3. Buffer(line') /\ AtName(line')
  BY <1>1, HeaderLine
<1>4. LineInv'
  BY <1>2, <1>3 DEF LineInv, LineOk
<1>5. line'.len \in 0 .. BufLen
  BY <1>3 DEF Buffer
<1>6. TypeOK'
  BY <1>1, <1>2, <1>5 DEF Inv, TypeOK
<1> QED
  BY <1>1, <1>3, <1>4, <1>6 DEF Inv

LEMMA FormatCharInv == Inv /\ FormatChar => Inv'
<1> SUFFICES ASSUME Inv, FormatChar
             PROVE  Inv'
  OBVIOUS
<1>1. /\ stage = "chars" /\ fmt <= Len(Format) /\ fmt' = fmt + 1
      /\ line' = format_char(line, Format[fmt], dec)
      /\ UNCHANGED <<stage, isa, dec>>
  BY DEF FormatChar
<1>2. dec \in rv_instInfo /\ fmt \in 1 .. Len(Format) + 1 /\ Buffer(line) /\ LineOk(line, Format, fmt)
  BY <1>1 DEF Inv, TypeOK, LineInv
<1>3. Shaped(Format) /\ Len(Format) \in 2 .. 11
  BY <1>2, DecFormat
<1>4. Format' = Format
  BY <1>1 DEF Format
<1>5. fmt \in 1 .. Len(Format) /\ fmt' \in 1 .. Len(Format) + 1
  BY <1>1, <1>2, <1>3
<1>6. Buffer(line') /\ LineOk(line', Format, fmt')
  BY <1>1, <1>2, <1>3, <1>5, CharStep
<1>7. LineInv'
  BY <1>4, <1>6 DEF LineInv
<1>8. line'.len \in 0 .. BufLen
  BY <1>6 DEF Buffer
<1>9. TypeOK'
  BY <1>1, <1>4, <1>5, <1>8 DEF Inv, TypeOK
<1> QED
  BY <1>1, <1>6, <1>7, <1>9 DEF Inv

LEMMA NextInv == Inv /\ [Next]_vars => Inv'
<1> SUFFICES ASSUME Inv, [Next]_vars
             PROVE  Inv'
  OBVIOUS
<1>1. CASE DecodeOpcode
  BY <1>1, DecodeOpcodeInv
<1>2. CASE DecodeOperands
  BY <1>2, DecodeOperandsInv
<1>3. CASE LiftToPseudo
  BY <1>3, LiftToPseudoInv
<1>4. CASE FormatWord
  BY <1>4, FormatWordInv
<1>5. CASE FormatChar
  BY <1>5, FormatCharInv
<1>6. CASE Return
  <2>1. stage = "chars" /\ stage' = "returned" /\ UNCHANGED <<isa, dec, fmt, line>>
    BY <1>6 DEF Return, Formatted
  <2>2. Format' = Format
    BY <2>1 DEF Format
  <2>3. TypeOK'
    BY <2>1, <2>2 DEF Inv, TypeOK
  <2>4. LineInv'
    BY <2>1 DEF LineInv
  <2> QED
    BY <2>1, <2>3, <2>4 DEF Inv
<1>7. CASE UNCHANGED vars
  <2>1. UNCHANGED <<stage, isa, dec, fmt, line>>
    BY <1>7 DEF vars
  <2>2. Format' = Format
    BY <2>1 DEF Format
  <2>3. TypeOK'
    BY <2>1, <2>2 DEF Inv, TypeOK
  <2>4. LineInv'
    BY <2>1, <2>2 DEF Inv, LineInv
  <2> QED
    BY <2>1, <2>3, <2>4 DEF Inv
<1> QED
  BY <1>1, <1>2, <1>3, <1>4, <1>5, <1>6, <1>7 DEF Next

-----------------------------------------------------------------------------
LEMMA AlwaysInv == Spec => []Inv
BY InitInv, NextInv, PTL DEF Spec

(* Behind the format's last character the line is whole or has a target.   *)
LEMMA Ended ==
  ASSUME Inv, Formatted
  PROVE  LET P == Pieces
         IN  /\ Parted(P)
             /\ ~ Far(P) => Uncut(P) /\ line.len < BufLen
<1> DEFINE P == ToSet(line.pieces)
           n == Len(Format) + 1
<1>1. stage = "chars" /\ fmt > Len(Format)
  BY DEF Formatted
<1>2. dec \in rv_instInfo /\ fmt \in 1 .. n /\ LineOk(line, Format, fmt) /\ Buffer(line)
  BY <1>1 DEF Inv, TypeOK, LineInv
<1>3. Shaped(Format) /\ Len(Format) \in 2 .. 11
  BY <1>2, DecFormat
<1>4. fmt = n
  BY <1>1, <1>2, <1>3
<1>5. TabAt(Format) \in {2, 4} /\ Len(Format) \in TabAt(Format) .. 11
  BY <1>3 DEF TabAt, Shaped
<1>6. LineOk(line, Format, n)
  BY <1>2, <1>4
<1>7. n # 1 /\ n \notin 2 .. TabAt(Format) /\ n \in TabAt(Format) + 1 .. Len(Format) + 1
  BY <1>5
<1>8. AtOperands(line, Format, n) \/ BehindTarget(line)
  BY <1>6, <1>7 DEF LineOk
<1> DEFINE m == 4 * (n - TabAt(Format) - 1) + LongRoom(Format, n)
<1>9. m \in 0 .. 36
  BY <1>3, <1>7, LongRooms
<1>10. CASE AtOperands(line, Format, n)
  <2>1. Uncut(P) /\ Parted(P)
    BY <1>10 DEF AtOperands
  <2>2. line.len <= Tab + 2 + 4 * (n - TabAt(Format) - 1) + LongRoom(Format, n)
    BY <1>10 DEF AtOperands
  <2>3. line.len <= Tab + 2 + m
    <3>1. LongRoom(Format, n) \in {0, 10}
      BY <1>3, <1>7, LongRooms
    <3> QED
      BY <1>5, <2>2, <3>1, TabAssumption
  <2> HIDE DEF m, P
  <2>4. line.len < BufLen
    BY <1>2, <1>9, <2>3, TabAssumption DEF Buffer
  <2> QED
    BY <2>1, <2>4 DEF P, Pieces
<1>11. CASE BehindTarget(line)
  <2>1. Parted(P) /\ (~ Far(P) => Uncut(P) /\ line.len <= 2 * Tab + 15)
    BY <1>11 DEF BehindTarget
  <2> HIDE DEF P
  <2>2. line.len <= 2 * Tab + 15 => line.len < BufLen
    BY <1>2, TabAssumption DEF Buffer
  <2> QED
    BY <2>1, <2>2 DEF P, Pieces
<1> QED
  BY <1>8, <1>10, <1>11

(* Whatever the word, rows and operands have their types: no mnemonic is   *)
(* without a row of opcode_data, and no register, rounding mode or fence   *)
(* set lies beyond the table of its names.                                 *)
THEOREM TypeCorrect == Spec => []TypeOK
<1>1. Inv => TypeOK
  BY DEF Inv
<1> QED
  BY <1>1, AlwaysInv, PTL

(* At every 64-bit offset, no line is cut and strncat's NUL is inside the  *)
(* buffer, but for lines with a target of twelve digits or more.           *)
THEOREM LineFits == Spec => []FitsUnlessFarTarget
<1>1. Inv => FitsUnlessFarTarget
  <2> SUFFICES ASSUME Inv, Formatted, ~ FarTarget
               PROVE  line.len < BufLen /\ \A p \in Pieces : p.chars = p.width
    BY DEF FitsUnlessFarTarget
  <2>1. ~ Far(Pieces)
    BY DEF Far, FarOff, FarTarget
  <2>2. Uncut(Pieces) /\ line.len < BufLen
    BY <2>1, Ended
  <2> QED
    BY <2>2 DEF Uncut
<1> QED
  BY <1>1, AlwaysInv, PTL

(* A blank parts every mnemonic from its operands, but for those with both *)
(* marks.                                                                  *)
THEOREM MnemonicParted == Spec => []MnemonicSeparated
<1>1. Inv => MnemonicSeparated
  <2> SUFFICES ASSUME Inv, Formatted
               PROVE  \/ \A p \in Pieces : p.kind = "pad" /\ p.value = Tab => p.chars > 0
                      \/ Marks = {"aq", "rl"}
    BY DEF MnemonicSeparated
  <2>1. Parted(Pieces)
    BY Ended
  <2>2. Marks = MarksOf(Pieces)
    BY DEF Marks, MarksOf
  <2> QED
    BY <2>1, <2>2 DEF Parted
<1> QED
  BY <1>1, AlwaysInv, PTL

-----------------------------------------------------------------------------
(***************************************************************************)
(* What the line says.  Of the characters of a format those in Letter are  *)
(* shown as operands: the line's operand pieces stand in the order of the  *)
(* letters passed so far, each with the kind and the value of its letter.  *)
(***************************************************************************)
OperandKinds == {"x", "f", "num", "imm", "csr", "rm", "fence"}

Before(ft, n) == {m \in 1 .. n - 1 : ft[m] \in Letter}

Follows(s, ft, n, d, at) ==
  /\ DOMAIN at = Before(ft, n)
  /\ \A m \in Before(ft, n) :
       at[m] \in DOMAIN s /\ s[at[m]].kind = KindOf(ft[m]) /\ s[at[m]].value = ValueOf(ft[m], d)
  /\ \A m, j \in Before(ft, n) : m < j => at[m] < at[j]
  /\ \A i \in DOMAIN s : s[i].kind \in OperandKinds => \E m \in Before(ft, n) : at[m] = i

MarkedBy(s, v) == \E i \in DOMAIN s : s[i].kind = "mark" /\ s[i].value = v

MarkBefore(ft, n, d, v) ==
  ft[2] = "A" /\ (\/ v = "aq" /\ n > 2 /\ d.aq = 1
                  \/ v = "rl" /\ n > 3 /\ d.rl = 1)

Says(s, ft, n, d) ==
  /\ \E S : s \in Seq(S)
  /\ \E at : Follows(s, ft, n, d, at)
  /\ \A i \in DOMAIN s : s[i].kind = "name" => s[i].value = d.op
  /\ n > 1 => \E i \in DOMAIN s : s[i].kind = "name"
  /\ \A v : MarkedBy(s, v) <=> MarkBefore(ft, n, d, v)

(* t is s and one more piece.                                              *)
More(s, t, kind, value) ==
  /\ \E S : t \in Seq(S)
  /\ Len(s) \in Nat /\ DOMAIN s = 1 .. Len(s) /\ DOMAIN t = 1 .. Len(s) + 1
  /\ \A i \in 1 .. Len(s) : t[i] = s[i]
  /\ t[Len(s) + 1].kind = kind /\ t[Len(s) + 1].value = value

LEMMA PieceMore ==
  ASSUME NEW l, NEW S, l.pieces \in Seq(S), NEW kind, NEW value, NEW width
  PROVE  More(l.pieces, append(l, kind, value, width).pieces, kind, value)
<1> DEFINE e == [kind |-> kind, value |-> value, width |-> width, chars |-> Min({width, BufLen - l.len})]
           s == l.pieces
           t == append(l, kind, value, width).pieces
<1>1. t = Append(s, e)
  BY DEF append
<1>2. e.kind = kind /\ e.value = value
  OBVIOUS
<1>3. s \in Seq(S) /\ Len(s) \in Nat
  OBVIOUS
<1> HIDE DEF e, s, t
<1>4. t \in Seq(S \cup {e})
  BY <1>1, <1>3
<1>5. /\ Len(t) = Len(s) + 1 /\ t[Len(s) + 1] = e
      /\ \A i \in 1 .. Len(s) : t[i] = s[i]
  BY <1>1, <1>3, AppendProperties
<1>6. DOMAIN s = 1 .. Len(s) /\ DOMAIN t = 1 .. Len(s) + 1
  BY <1>3, <1>4, <1>5
<1>7. More(s, t, kind, value)
  BY <1>2, <1>3, <1>4, <1>5, <1>6 DEF More
<1> QED
  BY <1>7 DEF s, t

LEMMA LetterKindsOperands ==
  /\ \A c \in Letter : KindOf(c) \in OperandKinds
  /\ "name" \notin OperandKinds /\ "mark" \notin OperandKinds /\ "word" \notin OperandKinds
  /\ "pad" \notin OperandKinds /\ "target" \notin OperandKinds /\ "punctuation" \notin OperandKinds
  /\ "O" \notin Letter /\ "A" \notin Letter /\ "R" \notin Letter /\ "\t" \notin Letter
  /\ "(" \notin Letter /\ "," \notin Letter /\ ")" \notin Letter
BY LetterKinds DEF Letter, OperandKinds

(* A piece that is no operand leaves the operands as they are.             *)
LEMMA FollowsOther ==
  ASSUME NEW s, NEW t, NEW kind, NEW value, More(s, t, kind, value), kind \notin OperandKinds,
         NEW ft, NEW n, NEW d, NEW at, Follows(s, ft, n, d, at)
  PROVE  Follows(t, ft, n, d, at)
<1>1. /\ Len(s) \in Nat /\ DOMAIN s = 1 .. Len(s) /\ DOMAIN t = 1 .. Len(s) + 1
      /\ \A i \in 1 .. Len(s) : t[i] = s[i]
      /\ t[Len(s) + 1].kind = kind
  BY DEF More
<1>2. DOMAIN s \subseteq DOMAIN t
  BY <1>1
<1>3. ASSUME NEW i \in DOMAIN t, t[i].kind \in OperandKinds
      PROVE  \E m \in Before(ft, n) : at[m] = i
  <2>1. i \in DOMAIN s /\ s[i].kind \in OperandKinds
    BY <1>1, <1>3
  <2> QED
    BY <2>1 DEF Follows
<1> QED
  BY <1>1, <1>2, <1>3 DEF Follows

LEMMA BeforeNext ==
  ASSUME NEW ft, NEW n \in Nat, n > 0
  PROVE  Before(ft, n + 1) = Before(ft, n) \cup (IF ft[n] \in Letter THEN {n} ELSE {})
BY DEF Before

(* The next letter's piece is the next operand.                            *)
LEMMA FollowsLetter ==
  ASSUME NEW ft, NEW n \in Nat, n > 0, ft[n] \in Letter, NEW d,
         NEW s, NEW t, More(s, t, KindOf(ft[n]), ValueOf(ft[n], d)),
         NEW at, Follows(s, ft, n, d, at)
  PROVE  \E a : Follows(t, ft, n + 1, d, a)
<1> DEFINE L == Before(ft, n)
           M == Before(ft, n + 1)
           z == Len(s) + 1
           a == [m \in M |-> IF m = n THEN z ELSE at[m]]
<1>1. /\ Len(s) \in Nat /\ DOMAIN s = 1 .. Len(s) /\ DOMAIN t = 1 .. z
      /\ \A i \in 1 .. Len(s) : t[i] = s[i]
      /\ t[z].kind = KindOf(ft[n]) /\ t[z].value = ValueOf(ft[n], d)
  BY DEF More
<1>2. M = L \cup {n} /\ \A m \in L : m \in Nat /\ m < n
  <2>1. M = L \cup {n}
    BY BeforeNext
  <2>2. \A m \in L : m \in Nat /\ m < n
    BY DEF Before
  <2> QED
    BY <2>1, <2>2
<1>3. /\ \A m \in L : at[m] \in DOMAIN s /\ s[at[m]].kind = KindOf(ft[m])
                      /\ s[at[m]].value = ValueOf(ft[m], d)
      /\ \A m, j \in L : m < j => at[m] < at[j]
      /\ \A i \in DOMAIN s : s[i].kind \in OperandKinds => \E m \in L : at[m] = i
  BY DEF Follows
<1>4. DOMAIN a = M /\ (\A m \in L : a[m] = at[m]) /\ a[n] = z
  BY <1>2
<1> HIDE DEF a
<1>5. ASSUME NEW m \in M
      PROVE  a[m] \in DOMAIN t /\ t[a[m]].kind = KindOf(ft[m]) /\ t[a[m]].value = ValueOf(ft[m], d)
  <2>1. CASE m \in L
    BY <1>1, <1>3, <1>4, <2>1
  <2>2. CASE m = n
    BY <1>1, <1>4, <2>2
  <2> QED
    BY <1>2, <2>1, <2>2
<1>6. ASSUME NEW m \in M, NEW j \in M, m < j
      PROVE  a[m] < a[j]
  <2>1. m \in L
    BY <1>2, <1>6
  <2>2. CASE j \in L
    BY <1>3, <1>4, <1>6, <2>1, <2>2
  <2>3. CASE j = n
    <3>1. at[m] \in 1 .. Len(s) /\ a[m] = at[m] /\ a[j] = z
      BY <1>1, <1>3, <1>4, <2>1, <2>3
    <3> QED
      BY <1>1, <3>1
  <2> QED
    BY <1>2, <2>2, <2>3
<1>7. ASSUME NEW i \in DOMAIN t, t[i].kind \in OperandKinds
      PROVE  \E m \in M : a[m] = i
  <2>1. CASE i = z
    BY <1>2, <1>4, <2>1
  <2>2. CASE i # z
    <3>1. i \in DOMAIN s /\ s[i].kind \in OperandKinds
      BY <1>1, <1>7, <2>2
    <3>2. PICK m \in L : at[m] = i
      BY <1>3, <3>1
    <3> QED
      BY <1>2, <1>4, <3>2
  <2> QED
    BY <2>1, <2>2
<1>8. Follows(t, ft, n + 1, d, a)
  BY <1>4, <1>5, <1>6, <1>7 DEF Follows
<1> QED
  BY <1>8

-----------------------------------------------------------------------------
(* One character of the format.                                            *)
LEMMA MarkedMore ==
  ASSUME NEW s, NEW t, NEW kind, NEW value, More(s, t, kind, value)
  PROVE  \A v : MarkedBy(t, v) <=> MarkedBy(s, v) \/ (kind = "mark" /\ value = v)
<1>1. /\ Len(s) \in Nat /\ DOMAIN s = 1 .. Len(s) /\ DOMAIN t = 1 .. Len(s) + 1
      /\ \A i \in 1 .. Len(s) : t[i] = s[i]
      /\ t[Len(s) + 1].kind = kind /\ t[Len(s) + 1].value = value
  BY DEF More
<1> QED
  BY <1>1 DEF MarkedBy

(* What is neither operand, name nor mark says nothing.                    *)
LEMMA SaysOther ==
  ASSUME NEW s, NEW t, NEW kind, NEW value, More(s, t, kind, value),
         kind \notin OperandKinds \cup {"name", "mark"},
         NEW ft, NEW n, NEW d, Says(s, ft, n, d)
  PROVE  Says(t, ft, n, d)
<1>1. /\ Len(s) \in Nat /\ DOMAIN s = 1 .. Len(s) /\ DOMAIN t = 1 .. Len(s) + 1
      /\ \A i \in 1 .. Len(s) : t[i] = s[i]
      /\ t[Len(s) + 1].kind = kind /\ \E S : t \in Seq(S)
  BY DEF More
<1>2. \E at : Follows(t, ft, n, d, at)
  <2>1. PICK at : Follows(s, ft, n, d, at)
    BY DEF Says
  <2> QED
    BY <2>1, FollowsOther
<1>3. \A i \in DOMAIN t : t[i].kind = "name" => t[i].value = d.op
  BY <1>1 DEF Says
<1>4. n > 1 => \E i \in DOMAIN t : t[i].kind = "name"
  BY <1>1 DEF Says
<1>5. \A v : MarkedBy(t, v) <=> MarkBefore(ft, n, d, v)
  BY MarkedMore DEF Says
<1> QED
  BY <1>1, <1>2, <1>3, <1>4, <1>5 DEF Says

(* A character that shows no operand and no mark is passed.                *)
LEMMA SaysPassed ==
  ASSUME NEW s, NEW ft, NEW n \in Nat, n > 1, NEW d, Says(s, ft, n, d), ft[n] \notin Letter,
         \A v : MarkBefore(ft, n + 1, d, v) <=> MarkBefore(ft, n, d, v)
  PROVE  Says(s, ft, n + 1, d)
<1>0. n > 0
  OBVIOUS
<1>1. Before(ft, n + 1) = Before(ft, n)
  BY <1>0, BeforeNext
<1>2. PICK at : Follows(s, ft, n, d, at)
  BY DEF Says
<1>3. Follows(s, ft, n + 1, d, at)
  BY <1>1, <1>2 DEF Follows
<1>4. \A v : MarkedBy(s, v) <=> MarkBefore(ft, n + 1, d, v)
  BY DEF Says
<1> QED
  BY <1>3, <1>4 DEF Says

LEMMA SaysName ==
  ASSUME NEW s, NEW t, NEW ft, NEW d, ft[1] = "O", More(s, t, "name", d.op), Says(s, ft, 1, d)
  PROVE  Says(t, ft, 2, d)
<1>1. /\ Len(s) \in Nat /\ DOMAIN s = 1 .. Len(s) /\ DOMAIN t = 1 .. Len(s) + 1
      /\ \A i \in 1 .. Len(s) : t[i] = s[i]
      /\ t[Len(s) + 1].kind = "name" /\ t[Len(s) + 1].value = d.op /\ \E S : t \in Seq(S)
  BY DEF More
<1>2. PICK at : Follows(s, ft, 1, d, at)
  BY DEF Says
<1>3. Follows(t, ft, 1, d, at)
  BY <1>2, FollowsOther, LetterKindsOperands
<1>4. Before(ft, 2) = Before(ft, 1)
  <2>1. Before(ft, 1 + 1) = Before(ft, 1) \cup (IF ft[1] \in Letter THEN {1} ELSE {})
    BY BeforeNext
  <2>2. ft[1] \notin Letter
    BY LetterKindsOperands
  <2> QED
    BY <2>1, <2>2
<1>5. Follows(t, ft, 2, d, at)
  BY <1>3, <1>4 DEF Follows
<1>6. \A i \in DOMAIN t : t[i].kind = "name" => t[i].value = d.op
  BY <1>1 DEF Says
<1>7. \E i \in DOMAIN t : t[i].kind = "name"
  BY <1>1
<1>8. \A v : MarkedBy(t, v) <=> MarkBefore(ft, 2, d, v)
  <2>1. \A v : MarkedBy(t, v) <=> MarkedBy(s, v)
    BY MarkedMore
  <2>2. \A v : MarkBefore(ft, 1, d, v) <=> MarkBefore(ft, 2, d, v)
    BY DEF MarkBefore
  <2> QED
    BY <2>1, <2>2 DEF Says
<1> QED
  BY <1>1, <1>5, <1>6, <1>7, <1>8 DEF Says

LEMMA SaysMark ==
  ASSUME NEW s, NEW t, NEW ft, NEW n \in {2, 3}, NEW d, ft[n] \notin Letter,
         NEW mark, More(s, t, "mark", mark), Says(s, ft, n, d),
         \A v : MarkBefore(ft, n + 1, d, v) <=> MarkBefore(ft, n, d, v) \/ v = mark
  PROVE  Says(t, ft, n + 1, d)
<1>1. /\ Len(s) \in Nat /\ DOMAIN s = 1 .. Len(s) /\ DOMAIN t = 1 .. Len(s) + 1
      /\ \A i \in 1 .. Len(s) : t[i] = s[i]
      /\ t[Len(s) + 1].kind = "mark" /\ t[Len(s) + 1].value = mark /\ \E S : t \in Seq(S)
  BY DEF More
<1>2. PICK at : Follows(s, ft, n, d, at)
  BY DEF Says
<1>3. Follows(t, ft, n, d, at)
  BY <1>2, FollowsOther, LetterKindsOperands
<1>4. Before(ft, n + 1) = Before(ft, n)
  <2>1. n \in Nat /\ n > 0
    OBVIOUS
  <2> QED
    BY <2>1, BeforeNext
<1>5. Follows(t, ft, n + 1, d, at)
  BY <1>3, <1>4 DEF Follows
<1>6. \A i \in DOMAIN t : t[i].kind = "name" => t[i].value = d.op
  BY <1>1 DEF Says
<1>7. \E i \in DOMAIN t : t[i].kind = "name"
  BY <1>1 DEF Says
<1>8. \A v : MarkedBy(t, v) <=> MarkBefore(ft, n + 1, d, v)
  BY MarkedMore DEF Says
<1> QED
  BY <1>1, <1>5, <1>6, <1>7, <1>8 DEF Says

LEMMA SaysLetter ==
  ASSUME NEW s, NEW t, NEW ft, NEW n \in Nat, n > 2, ft[2] = "A" => n > 3, NEW d, ft[n] \in Letter,
         More(s, t, KindOf(ft[n]), ValueOf(ft[n], d)), Says(s, ft, n, d)
  PROVE  Says(t, ft, n + 1, d)
<1>1. /\ Len(s) \in Nat /\ DOMAIN s = 1 .. Len(s) /\ DOMAIN t = 1 .. Len(s) + 1
      /\ \A i \in 1 .. Len(s) : t[i] = s[i]
      /\ t[Len(s) + 1].kind = KindOf(ft[n]) /\ \E S : t \in Seq(S)
  BY DEF More
<1>2. KindOf(ft[n]) # "name" /\ KindOf(ft[n]) # "mark"
  BY LetterKindsOperands
<1>3. PICK at : Follows(s, ft, n, d, at)
  BY DEF Says
<1>8. n > 0
  OBVIOUS
<1>4. \E a : Follows(t, ft, n + 1, d, a)
  BY <1>3, <1>8, FollowsLetter
<1>5. \A i \in DOMAIN t : t[i].kind = "name" => t[i].value = d.op
  BY <1>1, <1>2 DEF Says
<1>6. \E i \in DOMAIN t : t[i].kind = "name"
  BY <1>1 DEF Says
<1>7. \A v : MarkedBy(t, v) <=> MarkBefore(ft, n + 1, d, v)
  <2>1. \A v : MarkedBy(t, v) <=> MarkedBy(s, v)
    BY <1>2, MarkedMore
  <2>2. \A v : MarkBefore(ft, n + 1, d, v) <=> MarkBefore(ft, n, d, v)
    BY DEF MarkBefore
  <2> QED
    BY <2>1, <2>2 DEF Says
<1> QED
  BY <1>1, <1>4, <1>5, <1>6, <1>7 DEF Says

-----------------------------------------------------------------------------
(* What format_char appends for each character.                            *)
LEMMA LetterAppended ==
  ASSUME NEW l, NEW d, NEW c \in Letter, c # "o"
  PROVE  \E width : format_char(l, c, d) = append(l, KindOf(c), ValueOf(c, d), width)
<1>1. /\ format_char(l, "0", d) = append(l, "x", d.rd, rv_i_reg_abi_name(d.rd))
      /\ format_char(l, "1", d) = append(l, "x", d.rs1, rv_i_reg_abi_name(d.rs1))
      /\ format_char(l, "2", d) = append(l, "x", d.rs2, rv_i_reg_abi_name(d.rs2))
  BY DEF format_char
<1>2. /\ format_char(l, "3", d) = append(l, "f", d.rd, rv_f_reg_abi_name(d.rd))
      /\ format_char(l, "4", d) = append(l, "f", d.rs1, rv_f_reg_abi_name(d.rs1))
      /\ format_char(l, "5", d) = append(l, "f", d.rs2, rv_f_reg_abi_name(d.rs2))
      /\ format_char(l, "6", d) = append(l, "f", d.rs3, rv_f_reg_abi_name(d.rs3))
  BY DEF format_char
<1>3. /\ format_char(l, "7", d) = append(l, "num", d.rs1, Decimal(d.rs1))
      /\ format_char(l, "i", d) = append(l, "imm", d.imm, Decimal(d.imm))
      /\ format_char(l, "c", d) = append(l, "csr", d.imm % 4096, CsrWidth(d.imm % 4096))
  BY DEF format_char
<1>4. /\ format_char(l, "r", d) = append(l, "rm", ShownRm(d), 3)
      /\ format_char(l, "p", d) = append(l, "fence", d.pred, Letters(d.pred))
      /\ format_char(l, "s", d) = append(l, "fence", d.succ, Letters(d.succ))
  BY DEF format_char, RoundingMode, ShownRm
<1>5. CASE c \in {"0", "1", "2"}
  BY <1>1, <1>5, LetterKinds, LetterValues
<1>6. CASE c \in {"3", "4", "5", "6"}
  BY <1>2, <1>6, LetterKinds, LetterValues
<1>7. CASE c \in {"7", "i", "c"}
  BY <1>3, <1>7, LetterKinds, LetterValues
<1>8. CASE c \in {"r", "p", "s"}
  BY <1>4, <1>8, LetterKinds, LetterValues
<1> QED
  BY <1>5, <1>6, <1>7, <1>8 DEF Letter

(* A character of a format at its place: the name, a mark, a letter, or    *)
(* what shows nothing of the instruction.                                  *)
Stands(ft, n) ==
  \/ n = 1 /\ ft[1] = "O"
  \/ n = 2 /\ ft[2] = "A"
  \/ n = 3 /\ ft[2] = "A" /\ ft[3] = "R"
  \/ n > 1 /\ (ft[2] = "A" => n > 3) /\ ft[n] \in {"\t", "(", ",", ")"}
  \/ n > 2 /\ (ft[2] = "A" => n > 3) /\ ft[n] \in Letter

LEMMA PunctuationChars ==
  ASSUME NEW l, NEW d
  PROVE  /\ format_char(l, "(", d) = append(l, "punctuation", "(", 1)
         /\ format_char(l, ",", d) = append(l, "punctuation", ",", 1)
         /\ format_char(l, ")", d) = append(l, "punctuation", ")", 1)
BY DEF format_char

LEMMA SaysStep ==
  ASSUME NEW l, NEW ft, NEW n \in Nat, n > 0, NEW d, Stands(ft, n), Says(l.pieces, ft, n, d),
         NEW r, r = format_char(l, ft[n], d)
  PROVE  Says(r.pieces, ft, n + 1, d)
<1>1. PICK S : l.pieces \in Seq(S)
  BY DEF Says
<1>2. CASE n = 1 /\ ft[1] = "O"
  <2>1. r = append(l, "name", d.op, NameWidth(d.op))
    BY <1>2, OtherChars
  <2>2. More(l.pieces, r.pieces, "name", d.op)
    BY <1>1, <2>1, PieceMore
  <2>3. Says(l.pieces, ft, 1, d)
    BY <1>2
  <2>4. Says(r.pieces, ft, 2, d)
    BY <1>2, <2>2, <2>3, SaysName
  <2> QED
    BY <1>2, <2>4
<1>3. CASE n = 2 /\ ft[2] = "A"
  <2>1. r = IF d.aq = 1 THEN append(l, "mark", "aq", 3) ELSE l
    <3>1. r = format_char(l, "A", d)
      BY <1>3
    <3> QED
      BY <3>1, OtherChars
  <2>2. ft[n] \notin Letter /\ n \in {2, 3} /\ n > 1
    <3>1. ft[n] = "A" /\ n \in {2, 3} /\ n > 1
      BY <1>3
    <3> QED
      BY <3>1, LetterKindsOperands
  <2>3. CASE d.aq = 1
    <3>1. More(l.pieces, r.pieces, "mark", "aq")
      BY <1>1, <2>1, <2>3, PieceMore
    <3>2. \A v : MarkBefore(ft, n + 1, d, v) <=> MarkBefore(ft, n, d, v) \/ v = "aq"
      BY <1>3, <2>3 DEF MarkBefore
    <3> QED
      BY <2>2, <3>1, <3>2, SaysMark
  <2>4. CASE d.aq # 1
    <3>1. \A v : MarkBefore(ft, n + 1, d, v) <=> MarkBefore(ft, n, d, v)
      BY <1>3, <2>4 DEF MarkBefore
    <3> QED
      BY <2>1, <2>2, <2>4, <3>1, SaysPassed
  <2> QED
    BY <2>3, <2>4
<1>4. CASE n = 3 /\ ft[2] = "A" /\ ft[3] = "R"
  <2>1. r = IF d.rl = 1 THEN append(l, "mark", "rl", 3) ELSE l
    <3>1. r = format_char(l, "R", d)
      BY <1>4
    <3> QED
      BY <3>1, OtherChars
  <2>2. ft[n] \notin Letter /\ n \in {2, 3} /\ n > 1
    <3>1. ft[n] = "R" /\ n \in {2, 3} /\ n > 1
      BY <1>4
    <3> QED
      BY <3>1, LetterKindsOperands
  <2>3. CASE d.rl = 1
    <3>1. More(l.pieces, r.pieces, "mark", "rl")
      BY <1>1, <2>1, <2>3, PieceMore
    <3>2. \A v : MarkBefore(ft, n + 1, d, v) <=> MarkBefore(ft, n, d, v) \/ v = "rl"
      BY <1>4, <2>3 DEF MarkBefore
    <3> QED
      BY <2>2, <3>1, <3>2, SaysMark
  <2>4. CASE d.rl # 1
    <3>1. \A v : MarkBefore(ft, n + 1, d, v) <=> MarkBefore(ft, n, d, v)
      BY <1>4, <2>4 DEF MarkBefore
    <3> QED
      BY <2>1, <2>2, <2>4, <3>1, SaysPassed
  <2> QED
    BY <2>3, <2>4
<1>5. CASE n > 1 /\ (ft[2] = "A" => n > 3) /\ ft[n] \in {"\t", "(", ",", ")"}
  <2>1. \E kind \in {"pad", "punctuation"} : \E value, width : r = append(l, kind, value, width)
    <3>1. CASE ft[n] = "\t"
      <4>1. r = pad(l, Tab)
        BY <3>1, OtherChars
      <4> QED
        BY <4>1 DEF pad
    <3>2. CASE ft[n] \in {"(", ",", ")"}
      BY <3>2, PunctuationChars
    <3> QED
      BY <1>5, <3>1, <3>2
  <2>2. PICK kind \in {"pad", "punctuation"} : \E value, width : r = append(l, kind, value, width)
    BY <2>1
  <2>3. PICK value, width : r = append(l, kind, value, width)
    BY <2>2
  <2>4. More(l.pieces, r.pieces, kind, value)
    BY <1>1, <2>3, PieceMore
  <2>5. kind \notin OperandKinds \cup {"name", "mark"}
    BY LetterKindsOperands
  <2>6. Says(r.pieces, ft, n, d)
    BY <2>4, <2>5, SaysOther
  <2>7. ft[n] \notin Letter
    BY <1>5, LetterKindsOperands
  <2>8. n > 1 /\ (ft[2] = "A" => n > 3 /\ n > 2 /\ n + 1 > 2 /\ n + 1 > 3)
    <3>1. n > 1 /\ (ft[2] = "A" => n > 3)
      BY <1>5
    <3>2. n > 3 => n > 2 /\ n + 1 > 2 /\ n + 1 > 3
      OBVIOUS
    <3> QED
      BY <3>1, <3>2
  <2>9. \A v : MarkBefore(ft, n + 1, d, v) <=> MarkBefore(ft, n, d, v)
    BY <2>8 DEF MarkBefore
  <2> QED
    BY <2>6, <2>7, <2>8, <2>9, SaysPassed
<1>6. CASE n > 2 /\ (ft[2] = "A" => n > 3) /\ ft[n] \in Letter
  <2>1. CASE ft[n] # "o"
    <3>1. PICK width : r = append(l, KindOf(ft[n]), ValueOf(ft[n], d), width)
      BY <1>6, <2>1, LetterAppended
    <3>2. More(l.pieces, r.pieces, KindOf(ft[n]), ValueOf(ft[n], d))
      BY <1>1, <3>1, PieceMore
    <3> QED
      BY <1>6, <3>2, SaysLetter
  <2>2. CASE ft[n] = "o"
    <3> DEFINE p == append(l, "imm", d.imm, Decimal(d.imm))
               q == pad(p, 2 * Tab)
    <3>1. r = append(q, "target", Target(d.pc, d.imm), 4 + Hexadecimal(Target(d.pc, d.imm)))
      BY <2>2, OtherChars
    <3>2. More(l.pieces, p.pieces, KindOf(ft[n]), ValueOf(ft[n], d))
      BY <1>1, <2>2, SMTT(20), PieceMore, LetterKinds, LetterValues
    <3>3. \E width : q = append(p, "pad", 2 * Tab, width)
      BY DEF pad
    <3> HIDE DEF p, q
    <3>4. Says(p.pieces, ft, n + 1, d)
      BY <1>6, <3>2, SaysLetter
    <3> DEFINE m == n + 1
    <3>10. "pad" \notin OperandKinds \cup {"name", "mark"} /\ "target" \notin OperandKinds \cup {"name", "mark"}
      BY LetterKindsOperands
    <3>5. PICK Q : p.pieces \in Seq(Q)
      BY <3>4 DEF Says
    <3>6. More(p.pieces, q.pieces, "pad", 2 * Tab)
      BY <3>3, <3>5, PieceMore
    <3>11. Says(p.pieces, ft, m, d)
      BY <3>4
    <3> HIDE DEF m
    <3>7. Says(q.pieces, ft, m, d)
      BY <3>6, <3>10, <3>11, SaysOther
    <3>8. PICK R : q.pieces \in Seq(R)
      BY <3>7 DEF Says
    <3>9. More(q.pieces, r.pieces, "target", Target(d.pc, d.imm))
      BY <3>1, <3>8, PieceMore
    <3>12. Says(r.pieces, ft, m, d)
      BY <3>7, <3>9, <3>10, SaysOther
    <3> QED
      BY <3>12 DEF m
  <2> QED
    BY <2>1, <2>2
<1> QED
  BY <1>2, <1>3, <1>4, <1>5, <1>6 DEF Stands

(* The word in front says nothing of the instruction.                      *)
LEMMA SaysHeader ==
  ASSUME NEW ft, NEW d
  PROVE  Says(Header(d).pieces, ft, 1, d)
<1> DEFINE e == [kind |-> "word", value |-> d.inst, width |-> 18, chars |-> 18]
           s == Header(d).pieces
           at == [m \in {} |-> 1]
<1>1. s = <<e>>
  BY DEF Header
<1>2. e.kind = "word"
  OBVIOUS
<1> HIDE DEF e, s
<1>3. s \in Seq({e}) /\ DOMAIN s = {1} /\ s[1] = e
  BY <1>1
<1>4. Before(ft, 1) = {}
  BY DEF Before
<1>5. "word" \notin OperandKinds /\ "word" # "name" /\ "word" # "mark"
  BY LetterKindsOperands
<1>6. Follows(s, ft, 1, d, at)
  BY <1>2, <1>3, <1>4, <1>5 DEF Follows
<1>7. \A v : MarkedBy(s, v) <=> MarkBefore(ft, 1, d, v)
  BY <1>2, <1>3, <1>5 DEF MarkedBy, MarkBefore
<1>8. \A i \in DOMAIN s : s[i].kind # "name"
  BY <1>2, <1>3, <1>5
<1>9. Says(s, ft, 1, d)
  BY <1>3, <1>6, <1>7, <1>8 DEF Says
<1> QED
  BY <1>9 DEF s

-----------------------------------------------------------------------------
(* The slots.  They are the places of the letters, in their order.         *)
Slotted(ft) ==
  /\ Count(ft) \in Nat /\ Len(ft) \in Nat
  /\ \A k \in 1 .. Count(ft) : Slot(ft, k) \in Before(ft, Len(ft) + 1)
  /\ \A k, j \in 1 .. Count(ft) : k < j => Slot(ft, k) < Slot(ft, j)
  /\ \A m \in Before(ft, Len(ft) + 1) : \E k \in 1 .. Count(ft) : Slot(ft, k) = m

(* Letters at every second place, from the third on.                       *)
Alternating(ft) ==
  /\ Len(ft) \in 2 .. 11 /\ ft[1] = "O" /\ ft[2] = "\t"
  /\ Len(ft) >= 3 => ft[3] \in Letter
  /\ Len(ft) >= 4 => ft[4] \notin Letter
  /\ Len(ft) >= 5 => ft[5] \in Letter
  /\ Len(ft) >= 6 => ft[6] \notin Letter
  /\ Len(ft) >= 7 => ft[7] \in Letter
  /\ Len(ft) >= 8 => ft[8] \notin Letter
  /\ Len(ft) >= 9 => ft[9] \in Letter
  /\ Len(ft) >= 10 => ft[10] \notin Letter
  /\ Len(ft) >= 11 => ft[11] \in Letter

LEMMA AlternatingSlotted ==
  ASSUME NEW ft, Alternating(ft)
  PROVE  Slotted(ft)
<1> DEFINE n == Len(ft)
           c == Count(ft)
<1>1. n \in 2 .. 11 /\ c = (n - 1) \div 2 /\ \A k : Slot(ft, k) = 2 * k + 1
  BY DEF Alternating, Count, Slot
<1>2. \A m \in 1 .. n : ft[m] \in Letter <=> m \in {3, 5, 7, 9, 11}
  <2>1. ft[1] \notin Letter /\ ft[2] \notin Letter
    BY LetterKindsOperands DEF Alternating
  <2>2. ASSUME NEW m \in 1 .. n
        PROVE  ft[m] \in Letter <=> m \in {3, 5, 7, 9, 11}
    <3>1. /\ n >= 3 => ft[3] \in Letter
          /\ n >= 4 => ft[4] \notin Letter
          /\ n >= 5 => ft[5] \in Letter
          /\ n >= 6 => ft[6] \notin Letter
          /\ n >= 7 => ft[7] \in Letter
          /\ n >= 8 => ft[8] \notin Letter
          /\ n >= 9 => ft[9] \in Letter
          /\ n >= 10 => ft[10] \notin Letter
          /\ n >= 11 => ft[11] \in Letter
      BY DEF Alternating
    <3>6. n \in 2 .. 11
      BY <1>1
    <3> HIDE DEF n
    <3>7. m \in 1 .. 11
      BY <3>6
    <3>2. m \in {1, 2, 3, 4, 5, 6, 7, 8, 9, 10, 11}
      BY <3>7
    <3>3. m <= n
      BY <3>6
    <3>4. CASE m \in {1, 2, 3, 4, 5}
      BY <1>1, <2>1, <3>1, <3>3, <3>4
    <3>5. CASE m \in {6, 7, 8, 9, 10, 11}
      BY <1>1, <3>1, <3>3, <3>5
    <3> QED
      BY <3>2, <3>4, <3>5
  <2> QED
    BY <2>2
<1>3. Before(ft, n + 1) = {m \in 1 .. n : m \in {3, 5, 7, 9, 11}}
  <2>1. (n + 1) - 1 = n
    BY <1>1
  <2> QED
    BY <1>2, <2>1 DEF Before
<1> HIDE DEF n, c
<1>4. c \in Nat /\ 2 * c + 1 <= n /\ n <= 2 * c + 2
  BY <1>1
<1>5. c <= 5
  BY <1>1, <1>4
<1>6. ASSUME NEW k \in 1 .. c
      PROVE  Slot(ft, k) \in Before(ft, n + 1)
  <2>1. k \in {1, 2, 3, 4, 5} /\ 2 * k + 1 \in 1 .. n
    BY <1>1, <1>4, <1>5
  <2>2. 2 * k + 1 \in {3, 5, 7, 9, 11}
    BY <2>1
  <2> QED
    BY <1>1, <1>3, <2>1, <2>2
<1>7. \A k, j \in 1 .. c : k < j => Slot(ft, k) < Slot(ft, j)
  BY <1>1, <1>4
<1>8. ASSUME NEW m \in Before(ft, n + 1)
      PROVE  \E k \in 1 .. c : Slot(ft, k) = m
  <2>1. m \in {3, 5, 7, 9, 11} /\ m <= n
    BY <1>1, <1>3
  <2>2. PICK k \in {1, 2, 3, 4, 5} : m = 2 * k + 1
    <3>1. 2 * 1 + 1 = 3 /\ 2 * 2 + 1 = 5 /\ 2 * 3 + 1 = 7 /\ 2 * 4 + 1 = 9 /\ 2 * 5 + 1 = 11
      OBVIOUS
    <3> QED
      BY <2>1, <3>1
  <2>3. k \in 1 .. c
    BY <1>1, <1>4, <2>1, <2>2
  <2> QED
    BY <1>1, <2>2, <2>3
<1> QED
  BY <1>1, <1>4, <1>6, <1>7, <1>8 DEF Slotted, n, c

LEMMA TabbedFormats ==
  /\ Alternating(fmt_none) /\ Alternating(fmt_rs1) /\ Alternating(fmt_offset)
  /\ Alternating(fmt_rd) /\ Alternating(fmt_pred_succ) /\ Alternating(fmt_rs1_rs2)
  /\ Alternating(fmt_rd_imm) /\ Alternating(fmt_rd_offset) /\ Alternating(fmt_frd_rs1)
  /\ Alternating(fmt_rd_frs1) /\ Alternating(fmt_rd_zimm) /\ Alternating(fmt_rd_rs1)
  /\ Alternating(fmt_rd_rs2) /\ Alternating(fmt_rs1_offset) /\ Alternating(fmt_rs2_offset)
  /\ Alternating(fmt_rd_rs1_rs2) /\ Alternating(fmt_rd_frs1_frs2) /\ Alternating(fmt_frd_frs1_frs2)
  /\ Alternating(fmt_rm_frd_frs1) /\ Alternating(fmt_rm_frd_rs1) /\ Alternating(fmt_rm_rd_frs1)
  /\ Alternating(fmt_rd_rs1_imm) /\ Alternating(fmt_rd_rs1_offset) /\ Alternating(fmt_rd_csr_rs1)
  /\ Alternating(fmt_rd_csr_zimm) /\ Alternating(fmt_rs1_rs2_offset) /\ Alternating(fmt_rs2_rs1_offset)
  /\ Alternating(fmt_rd_offset_rs1) /\ Alternating(fmt_frd_offset_rs1) /\ Alternating(fmt_rs2_offset_rs1)
  /\ Alternating(fmt_frs2_offset_rs1) /\ Alternating(fmt_rm_frd_frs1_frs2) /\ Alternating(fmt_rm_frd_frs1_frs2_frs3)
<1>1. Alternating(fmt_none)
  BY DEF Alternating, Letter, fmt_none
<1>2. Alternating(fmt_rs1) /\ Alternating(fmt_offset) /\ Alternating(fmt_rd)
  BY DEF Alternating, Letter, fmt_rs1, fmt_offset, fmt_rd
<1>3. Alternating(fmt_pred_succ) /\ Alternating(fmt_rs1_rs2) /\ Alternating(fmt_rd_imm)
  BY DEF Alternating, Letter, fmt_pred_succ, fmt_rs1_rs2, fmt_rd_imm
<1>4. Alternating(fmt_rd_offset) /\ Alternating(fmt_frd_rs1) /\ Alternating(fmt_rd_frs1)
  BY DEF Alternating, Letter, fmt_rd_offset, fmt_frd_rs1, fmt_rd_frs1
<1>5. Alternating(fmt_rd_zimm) /\ Alternating(fmt_rd_rs1) /\ Alternating(fmt_rd_rs2)
  BY DEF Alternating, Letter, fmt_rd_zimm, fmt_rd_rs1, fmt_rd_rs2
<1>6. Alternating(fmt_rs1_offset) /\ Alternating(fmt_rs2_offset)
  BY DEF Alternating, Letter, fmt_rs1_offset, fmt_rs2_offset
<1>7. Alternating(fmt_rd_rs1_rs2) /\ Alternating(fmt_rd_frs1_frs2) /\ Alternating(fmt_frd_frs1_frs2)
  BY DEF Alternating, Letter, fmt_rd_rs1_rs2, fmt_rd_frs1_frs2, fmt_frd_frs1_frs2
<1>8. Alternating(fmt_rm_frd_frs1) /\ Alternating(fmt_rm_frd_rs1) /\ Alternating(fmt_rm_rd_frs1)
  BY DEF Alternating, Letter, fmt_rm_frd_frs1, fmt_rm_frd_rs1, fmt_rm_rd_frs1
<1>9. Alternating(fmt_rd_rs1_imm) /\ Alternating(fmt_rd_rs1_offset) /\ Alternating(fmt_rd_csr_rs1)
  BY DEF Alternating, Letter, fmt_rd_rs1_imm, fmt_rd_rs1_offset, fmt_rd_csr_rs1
<1>10. Alternating(fmt_rd_csr_zimm) /\ Alternating(fmt_rs1_rs2_offset) /\ Alternating(fmt_rs2_rs1_offset)
  BY DEF Alternating, Letter, fmt_rd_csr_zimm, fmt_rs1_rs2_offset, fmt_rs2_rs1_offset
<1>11. Alternating(fmt_rd_offset_rs1) /\ Alternating(fmt_frd_offset_rs1) /\ Alternating(fmt_rs2_offset_rs1)
  BY DEF Alternating, Letter, fmt_rd_offset_rs1, fmt_frd_offset_rs1, fmt_rs2_offset_rs1
<1>12. Alternating(fmt_frs2_offset_rs1)
  BY DEF Alternating, Letter, fmt_frs2_offset_rs1
<1>13. Alternating(fmt_rm_frd_frs1_frs2)
  BY DEF Alternating, Letter, fmt_rm_frd_frs1_frs2
<1>14. Alternating(fmt_rm_frd_frs1_frs2_frs3)
  BY DEF Alternating, Letter, fmt_rm_frd_frs1_frs2_frs3
<1> QED
  BY <1>1, <1>2, <1>3, <1>4, <1>5, <1>6, <1>7, <1>8, <1>9, <1>10, <1>11, <1>12, <1>13, <1>14

(* The two formats with marks.                                             *)
LEMMA MarkedFormats == Slotted(fmt_aqrl_rd_rs1) /\ Slotted(fmt_aqrl_rd_rs2_rs1)
<1>1. Slotted(fmt_aqrl_rd_rs1)
  <2> DEFINE ft == fmt_aqrl_rd_rs1
  <2>1. /\ Len(ft) = 9 /\ ft[1] = "O" /\ ft[2] = "A" /\ ft[3] = "R" /\ ft[4] = "\t" /\ ft[5] = "0"
        /\ ft[6] = "," /\ ft[7] = "(" /\ ft[8] = "1" /\ ft[9] = ")"
    BY DEF fmt_aqrl_rd_rs1
  <2>10. Len(ft) \in Nat /\ Len(ft) # 11
    BY DEF fmt_aqrl_rd_rs1
  <2> HIDE DEF ft
  <2>2. Count(ft) = 2 /\ Slot(ft, 1) = 5 /\ Slot(ft, 2) = 8
    <3>1. \A k : Slot(ft, k) = IF k = 3 THEN 10 ELSE IF k = 2 THEN 8 ELSE 2 * k + 3
      BY <2>1 DEF Slot
    <3>2. Count(ft) = 2
      <4>1. Len(ft) # 11 /\ ft[2] = "A"
        BY <2>1, <2>10
      <4> QED
        BY <4>1 DEF Count
    <3> QED
      BY <3>1, <3>2
  <2>3. Before(ft, Len(ft) + 1) = {5, 8}
    <3>1. "0" \in Letter /\ "1" \in Letter
      BY DEF Letter
    <3>2. (9 + 1) - 1 = 9
      OBVIOUS
    <3>3. \A m \in 1 .. 9 : ft[m] \in Letter <=> m \in {5, 8}
      <4>1. /\ ft[1] \notin Letter /\ ft[2] \notin Letter /\ ft[3] \notin Letter
          /\ ft[4] \notin Letter /\ ft[5] \in Letter /\ ft[6] \notin Letter
          /\ ft[7] \notin Letter /\ ft[8] \in Letter /\ ft[9] \notin Letter
        BY <2>1, <3>1, LetterKindsOperands
      <4> QED
        BY <4>1
    <3>4. Before(ft, 9 + 1) = {m \in 1 .. 9 : m \in {5, 8}}
      BY <3>2, <3>3 DEF Before
    <3>5. {m \in 1 .. 9 : m \in {5, 8}} = {5, 8}
      OBVIOUS
    <3> QED
      BY <2>1, <3>4, <3>5
  <2>4. 1 .. 2 = {1, 2}
    OBVIOUS
  <2>6. \A k \in {1, 2} : Slot(ft, k) \in {5, 8}
    BY <2>2
  <2>7. \A k, j \in {1, 2} : k < j => Slot(ft, k) < Slot(ft, j)
    BY <2>2
  <2>8. \A m \in {5, 8} : \E k \in {1, 2} : Slot(ft, k) = m
    BY <2>2
  <2>9. Count(ft) \in Nat /\ Len(ft) \in Nat /\ 1 .. Count(ft) = {1, 2}
    <3>1. Count(ft) = 2
      BY <2>2
    <3>2. Len(ft) \in Nat
      BY <2>10
    <3> QED
      BY <3>1, <3>2, <2>4
  <2>5. Slotted(ft)
    BY <2>3, <2>6, <2>7, <2>8, <2>9 DEF Slotted
  <2> QED
    BY <2>5 DEF ft
<1>2. Slotted(fmt_aqrl_rd_rs2_rs1)
  <2> DEFINE ft == fmt_aqrl_rd_rs2_rs1
  <2>1. /\ Len(ft) = 11 /\ ft[1] = "O" /\ ft[2] = "A" /\ ft[3] = "R" /\ ft[4] = "\t" /\ ft[5] = "0"
        /\ ft[6] = "," /\ ft[7] = "2" /\ ft[8] = "," /\ ft[9] = "(" /\ ft[10] = "1" /\ ft[11] = ")"
    BY DEF fmt_aqrl_rd_rs2_rs1
  <2>10. Len(ft) \in Nat /\ Len(ft) = 11
    BY DEF fmt_aqrl_rd_rs2_rs1
  <2> HIDE DEF ft
  <2>2. Count(ft) = 3 /\ Slot(ft, 1) = 5 /\ Slot(ft, 2) = 7 /\ Slot(ft, 3) = 10
    <3>1. \A k : Slot(ft, k) = IF k = 3 THEN 10 ELSE 2 * k + 3
      BY <2>1 DEF Slot
    <3>2. Count(ft) = 3
      <4>1. Len(ft) = 11 /\ ft[2] = "A"
        BY <2>1, <2>10
      <4> QED
        BY <4>1 DEF Count
    <3> QED
      BY <3>1, <3>2
  <2>3. Before(ft, Len(ft) + 1) = {5, 7, 10}
    <3>1. "0" \in Letter /\ "1" \in Letter /\ "2" \in Letter
      BY DEF Letter
    <3>2. (11 + 1) - 1 = 11
      OBVIOUS
    <3>3. \A m \in 1 .. 11 : ft[m] \in Letter <=> m \in {5, 7, 10}
      <4>1. /\ ft[1] \notin Letter /\ ft[2] \notin Letter /\ ft[3] \notin Letter
          /\ ft[4] \notin Letter /\ ft[5] \in Letter /\ ft[6] \notin Letter
          /\ ft[7] \in Letter /\ ft[8] \notin Letter /\ ft[9] \notin Letter
          /\ ft[10] \in Letter /\ ft[11] \notin Letter
        BY <2>1, <3>1, LetterKindsOperands
      <4> QED
        BY <4>1
    <3>4. Before(ft, 11 + 1) = {m \in 1 .. 11 : m \in {5, 7, 10}}
      BY <3>2, <3>3 DEF Before
    <3>5. {m \in 1 .. 11 : m \in {5, 7, 10}} = {5, 7, 10}
      OBVIOUS
    <3> QED
      BY <2>1, <3>4, <3>5
  <2>4. 1 .. 3 = {1, 2, 3}
    OBVIOUS
  <2>6. \A k \in {1, 2, 3} : Slot(ft, k) \in {5, 7, 10}
    BY <2>2
  <2>7. \A k, j \in {1, 2, 3} : k < j => Slot(ft, k) < Slot(ft, j)
    BY <2>2
  <2>8. \A m \in {5, 7, 10} : \E k \in {1, 2, 3} : Slot(ft, k) = m
    BY <2>2
  <2>9. Count(ft) \in Nat /\ Len(ft) \in Nat /\ 1 .. Count(ft) = {1, 2, 3}
    <3>1. Count(ft) = 3
      BY <2>2
    <3>2. Len(ft) \in Nat
      BY <2>10
    <3> QED
      BY <3>1, <3>2, <2>4
  <2>5. Slotted(ft)
    BY <2>3, <2>6, <2>7, <2>8, <2>9 DEF Slotted
  <2> QED
    BY <2>5 DEF ft
<1> QED
  BY <1>1, <1>2

LEMMA RowsSlotted == \A row \in Rows : Slotted(row.format)
<1>1. \A row \in BaseRows \cup AtomicRows : Slotted(row.format)
  BY TabbedFormats, AlternatingSlotted, MarkedFormats DEF BaseRows, AtomicRows, Row
<1>2. \A row \in SystemRows \cup FloatRows : Slotted(row.format)
  BY TabbedFormats, AlternatingSlotted DEF SystemRows, FloatRows, Row
<1>3. \A row \in CompressedRows : Slotted(row.format)
  BY TabbedFormats, AlternatingSlotted DEF CompressedRows, Row
<1>4. \A row \in PseudoRows : Slotted(row.format)
  BY TabbedFormats, AlternatingSlotted DEF PseudoRows, Row
<1> QED
  BY <1>1, <1>2, <1>3, <1>4 DEF Rows

-----------------------------------------------------------------------------
(* Reading the line.  In an increasing enumeration the k-th member has k   *)
(* members up to itself.                                                   *)
Increasing(a, c) ==
  /\ c \in Nat /\ \A k \in 1 .. c : a[k] \in Nat
  /\ \A k, j \in 1 .. c : k < j => a[k] < a[j]

LEMMA Counted ==
  ASSUME NEW a, NEW c, Increasing(a, c), NEW A, A = {a[k] : k \in 1 .. c}
  PROVE  Cardinality(A) = c
<1> DEFINE f == [k \in 1 .. c |-> a[k]]
<1>1. c \in Nat /\ (\A k \in 1 .. c : a[k] \in Nat) /\ \A k, j \in 1 .. c : k < j => a[k] < a[j]
  BY DEF Increasing
<1>2. f \in [1 .. c -> A]
  OBVIOUS
<1>3. ASSUME NEW k \in 1 .. c, NEW j \in 1 .. c, f[k] = f[j]
      PROVE  k = j
  BY <1>1, <1>3
<1>4. \A i \in A : \E k \in 1 .. c : f[k] = i
  OBVIOUS
<1> HIDE DEF f
<1>5. f \in Bijection(1 .. c, A)
  BY <1>2, <1>3, <1>4 DEF Bijection, Injection, IsInjective, Surjection
<1>6. ExistsBijection(1 .. c, A)
  BY <1>5 DEF ExistsBijection
<1> QED
  BY <1>1, <1>6, FS_CountingElements

LEMMA Ranked ==
  ASSUME NEW a, NEW c, Increasing(a, c), NEW A, A = {a[k] : k \in 1 .. c}, NEW k \in 1 .. c
  PROVE  Cardinality({i \in A : i <= a[k]}) = k
<1>1. c \in Nat /\ (\A j \in 1 .. c : a[j] \in Nat) /\ \A i, j \in 1 .. c : i < j => a[i] < a[j]
  BY DEF Increasing
<1>2. Increasing(a, k)
  BY <1>1 DEF Increasing
<1>3. {i \in A : i <= a[k]} = {a[j] : j \in 1 .. k}
  <2>1. ASSUME NEW j \in 1 .. c
        PROVE  a[j] <= a[k] <=> j \in 1 .. k
    <3>1. j < k \/ j = k \/ k < j
      BY <1>1
    <3> QED
      BY <1>1, <3>1
  <2>2. 1 .. k \subseteq 1 .. c
    BY <1>1
  <2> QED
    BY <2>1, <2>2
<1> QED
  BY <1>2, <1>3, Counted

LEMMA ShownArgs ==
  ASSUME NEW ft, Slotted(ft), NEW d, Says(line.pieces, ft, Len(ft) + 1, d)
  PROVE  Args = ArgsOf(d, ft)
<1> DEFINE s == line.pieces
           c == Count(ft)
           L == Before(ft, Len(ft) + 1)
<1>1. PICK at : Follows(s, ft, Len(ft) + 1, d, at)
  BY DEF Says
<1>2. PICK S : s \in Seq(S)
  BY DEF Says
<1> DEFINE a == [k \in 1 .. c |-> at[Slot(ft, k)]]
<1>3. c \in Nat /\ DOMAIN s \subseteq Nat
  BY <1>2 DEF Slotted
<1>4. /\ \A k \in 1 .. c : Slot(ft, k) \in L
      /\ \A k, j \in 1 .. c : k < j => Slot(ft, k) < Slot(ft, j)
      /\ \A m \in L : \E k \in 1 .. c : Slot(ft, k) = m
  BY DEF Slotted
<1>5. /\ \A m \in L : at[m] \in DOMAIN s /\ s[at[m]].kind = KindOf(ft[m])
                      /\ s[at[m]].value = ValueOf(ft[m], d)
      /\ \A m, j \in L : m < j => at[m] < at[j]
      /\ \A i \in DOMAIN s : s[i].kind \in OperandKinds => \E m \in L : at[m] = i
  BY <1>1 DEF Follows
<1>6. \A k \in 1 .. c : a[k] = at[Slot(ft, k)]
  OBVIOUS
<1>7. \A m \in L : ft[m] \in Letter
  BY DEF Before
<1>8. Shown = {i \in DOMAIN s : s[i].kind \in OperandKinds}
  BY DEF Shown, OperandKinds
<1> HIDE DEF s, c, L, a
<1>9. Increasing(a, c)
  BY <1>3, <1>4, <1>5, <1>6 DEF Increasing
<1>10. Shown = {a[k] : k \in 1 .. c}
  <2>1. ASSUME NEW i \in Shown
        PROVE  \E k \in 1 .. c : i = a[k]
    <3>1. PICK m \in L : at[m] = i
      BY <1>5, <1>8
    <3>2. PICK k \in 1 .. c : Slot(ft, k) = m
      BY <1>4
    <3> QED
      BY <1>6, <3>1, <3>2
  <2>2. ASSUME NEW k \in 1 .. c
        PROVE  a[k] \in Shown
    <3>1. Slot(ft, k) \in L
      BY <1>4
    <3>2. KindOf(ft[Slot(ft, k)]) \in OperandKinds
      BY <1>7, <3>1, LetterKindsOperands
    <3> QED
      BY <1>5, <1>6, <1>8, <3>1, <3>2
  <2> QED
    BY <2>1, <2>2
<1> DEFINE Rank(i) == Cardinality({j \in Shown : j <= i})
           At(k)   == s[CHOOSE i \in Shown : Rank(i) = k]
<1>11. \A k \in 1 .. c : Rank(a[k]) = k
  BY <1>9, <1>10, Ranked
<1>12. Cardinality(Shown) = c
  BY <1>9, <1>10, Counted
<1>13. ASSUME NEW k \in 1 .. c
       PROVE  At(k).kind = KindOf(ft[Slot(ft, k)]) /\ At(k).value = ValueOf(ft[Slot(ft, k)], d)
  <2> HIDE DEF Rank
  <2>1. a[k] \in Shown /\ Rank(a[k]) = k
    BY <1>10, <1>11
  <2>2. ASSUME NEW i \in Shown, Rank(i) = k
        PROVE  i = a[k]
    <3>1. PICK j \in 1 .. c : i = a[j]
      BY <1>10
    <3>2. Rank(a[j]) = j
      BY <1>11
    <3> QED
      BY <2>2, <3>1, <3>2
  <2>3. (CHOOSE i \in Shown : Rank(i) = k) = a[k]
    BY <2>1, <2>2
  <2>4. At(k) = s[at[Slot(ft, k)]]
    BY <1>6, <2>3
  <2>5. Slot(ft, k) \in L
    BY <1>4
  <2> QED
    BY <1>5, <2>4, <2>5
<1>14. Args = [k \in 1 .. Cardinality(Shown) |-> <<At(k).kind, At(k).value>>]
  BY DEF Args, s
<1> HIDE DEF At
<1> QED
  BY <1>12, <1>13, <1>14 DEF ArgsOf, c

LEMMA ShownName ==
  ASSUME NEW ft, NEW n \in Nat, n > 1, NEW d, Says(line.pieces, ft, n, d)
  PROVE  Name = d.op
<1> DEFINE s == line.pieces
<1>1. PICK S : s \in Seq(S)
  BY DEF Says
<1>2. /\ \A i \in DOMAIN s : s[i].kind = "name" => s[i].value = d.op
      /\ \E i \in DOMAIN s : s[i].kind = "name"
  BY DEF Says
<1>3. Pieces = {s[i] : i \in DOMAIN s}
  BY DEF Pieces, ToSet
<1> HIDE DEF s
<1>4. \E p \in Pieces : p.kind = "name"
  BY <1>2, <1>3
<1>5. \A p \in Pieces : p.kind = "name" => p.value = d.op
  BY <1>2, <1>3
<1> QED
  BY <1>4, <1>5 DEF Name

LEMMA ShownMarks ==
  ASSUME NEW ft, NEW n \in Nat, ft[2] = "A" => n > 3, NEW d, Says(line.pieces, ft, n, d)
  PROVE  Marks = LineMarks(d, ft)
<1> DEFINE s == line.pieces
<1>1. Pieces = {s[i] : i \in DOMAIN s}
  BY DEF Pieces, ToSet
<1>2. \A v : v \in Marks <=> MarkedBy(s, v)
  BY <1>1 DEF Marks, MarkedBy
<1>3. \A v : v \in Marks <=> MarkBefore(ft, n, d, v)
  BY <1>2 DEF Says
<1>4. \A v : MarkBefore(ft, n, d, v) <=> v \in LineMarks(d, ft)
  BY DEF MarkBefore, LineMarks
<1> QED
  BY <1>3, <1>4

-----------------------------------------------------------------------------
(***************************************************************************)
(* What each call leaves in rv_instInfo, for a legal word: first the op    *)
(* that the switches return, then the operands that its row cuts out, and  *)
(* then the same operands under the name of a lift.                        *)
(***************************************************************************)
(* Every word that the sweep hands over is an instruction of its file.     *)
LegalInputs ==
  \A S \in Inputs : \A in \in S : in.inst \in Word /\ Legal(in.isa, BitsOf(in.inst))

(* The op, and the operands cut out by its row.                            *)
OpOf(w, i) == rv_inst_opcode(w, i)

CutOf(w, i, pc) == Cut(w, pc, OpOf(w, i), opcode_data[OpOf(w, i)].type)

(* How far rv_instInfo is at each stage: LineReassembles speaks of the end  *)
(* alone, where the word itself is no longer looked at.                    *)
DecInv ==
  /\ dec.inst \in Word /\ Legal(isa, BitsOf(dec.inst))
  /\ stage = "opcode" => \E pc : dec = Fresh(dec.inst, pc, op_illegal)
  /\ stage = "operands" => \E pc : dec = Fresh(dec.inst, pc, OpOf(dec.inst, isa))
  /\ stage = "pseudo" =>
       \E pc : LET d == CutOf(dec.inst, isa, pc) IN dec = d /\ d.op = OpOf(dec.inst, isa)
  /\ stage \in {"format", "chars", "returned"} =>
       \E pc : LET d == CutOf(dec.inst, isa, pc)
               IN  (dec = d \/ LiftOf(dec, d)) /\ d.op = OpOf(dec.inst, isa)

(* What the line says so far is what the format read so far asks for.      *)
SaysInv == stage = "chars" => Says(line.pieces, Format, fmt, dec)

(* rv_inst_pseudo changes the op and the type at most.                     *)
LEMMA PseudoLifts ==
  ASSUME NEW d \in rv_instInfo
  PROVE  LET x == rv_inst_pseudo(d) IN x.inst = d.inst /\ (x = d \/ LiftOf(x, d))
<1> DEFINE hits == {k \in DOMAIN rvcp : rvcp[k].of = d.op /\ check_constraints(d, rvcp[k].if)}
           to   == rvcp[Min(hits)].to
           type == opcode_data[to].type
           x    == rv_inst_pseudo(d)
<1>1. CASE hits # {}
  <2>1. hits \subseteq Nat
    BY ListsInTable
  <2>2. Min(hits) \in hits
    BY <1>1, <2>1, Least
  <2>3. x = [d EXCEPT !.op = to, !.type = type]
    BY <1>1 DEF rv_inst_pseudo
  <2>4. PICK k \in DOMAIN rvcp : rvcp[k].of = d.op /\ check_constraints(d, rvcp[k].if) /\ to = rvcp[k].to
    BY <2>2
  <2> HIDE DEF hits, to, type, x
  <2>5. x.op = to /\ x.inst = d.inst
    BY <2>3 DEF rv_instInfo
  <2>6. Same(x, d)
    BY <2>3 DEF Same, rv_instInfo
  <2> QED
    BY <2>4, <2>5, <2>6 DEF LiftOf, x
<1>2. CASE hits = {}
  BY <1>2 DEF rv_inst_pseudo
<1> QED
  BY <1>1, <1>2

LEMMA InitDec ==
  ASSUME LegalInputs, Init
  PROVE  DecInv /\ SaysInv
<1>1. PICK S \in Inputs : \E in \in S : isa = in.isa /\ dec = Zeroed(in.inst, in.pc)
  BY DEF Init
<1>2. PICK in \in S : isa = in.isa /\ dec = Zeroed(in.inst, in.pc)
  BY <1>1
<1>3. in.inst \in Word /\ Legal(in.isa, BitsOf(in.inst))
  BY DEF LegalInputs
<1>4. dec = Fresh(in.inst, in.pc, op_illegal)
  BY <1>2 DEF Zeroed, Fresh
<1>5. dec.inst = in.inst
  BY <1>4 DEF Fresh
<1>6. stage = "opcode"
  BY DEF Init
<1> QED
  BY <1>2, <1>3, <1>4, <1>5, <1>6 DEF DecInv, SaysInv

LEMMA OpcodeDec ==
  ASSUME Inv, DecInv, DecodeOpcode
  PROVE  DecInv' /\ SaysInv'
<1> DEFINE w == dec.inst
<1>1. stage = "opcode" /\ stage' = "operands" /\ isa' = isa /\ dec' = [dec EXCEPT !.op = OpOf(w, isa)]
  BY DEF DecodeOpcode, OpOf
<1>2. PICK pc : dec = Fresh(w, pc, op_illegal)
  BY <1>1 DEF DecInv
<1>3. dec' = Fresh(w, pc, OpOf(w, isa))
  BY <1>1, <1>2 DEF Fresh
<1>4. dec'.inst = w
  BY <1>3 DEF Fresh
<1>5. w \in Word /\ Legal(isa, BitsOf(w))
  BY DEF DecInv
<1> HIDE DEF w
<1> QED
  BY <1>1, <1>3, <1>4, <1>5 DEF DecInv, SaysInv

LEMMA OperandsDec ==
  ASSUME Inv, DecInv, DecodeOperands
  PROVE  DecInv' /\ SaysInv'
<1> DEFINE w == dec.inst
           type == opcode_data[dec.op].type
<1>1. stage = "operands" /\ stage' = "pseudo" /\ isa' = isa /\ dec' = rv_inst_oprands(dec, type)
  BY DEF DecodeOperands
<1>2. PICK pc : dec = Fresh(w, pc, OpOf(w, isa))
  BY <1>1 DEF DecInv
<1>3. dec.op = OpOf(w, isa)
  BY <1>2 DEF Fresh
<1>4. dec' = CutOf(w, isa, pc)
  BY <1>1, <1>2, <1>3 DEF CutOf, Cut
<1>5. dec \in rv_instInfo
  BY DEF Inv, TypeOK
<1>6. type \in rv_type
  BY <1>5, RecordFormat, OpData, RowTypes
<1> HIDE DEF type
<1>7. dec'.op = dec.op /\ dec'.inst = w
  BY <1>1, <1>5, <1>6, OperandsTyped
<1>8. w \in Word /\ Legal(isa, BitsOf(w))
  BY DEF DecInv
<1> HIDE DEF w
<1> QED
  BY <1>1, <1>3, <1>4, <1>7, <1>8 DEF DecInv, SaysInv

LEMMA PseudoDec ==
  ASSUME Inv, DecInv, LiftToPseudo
  PROVE  DecInv' /\ SaysInv'
<1> DEFINE w == dec.inst
<1>1. stage = "pseudo" /\ stage' = "format" /\ isa' = isa /\ dec' = rv_inst_pseudo(dec)
  BY DEF LiftToPseudo
<1>2. PICK pc : dec = CutOf(w, isa, pc) /\ CutOf(w, isa, pc).op = OpOf(w, isa)
  BY <1>1 DEF DecInv
<1>3. dec \in rv_instInfo
  BY DEF Inv, TypeOK
<1>4. dec'.inst = w /\ (dec' = dec \/ LiftOf(dec', dec))
  BY <1>1, <1>3, PseudoLifts
<1>5. w \in Word /\ Legal(isa, BitsOf(w))
  BY DEF DecInv
<1> HIDE DEF w
<1> QED
  BY <1>1, <1>2, <1>4, <1>5 DEF DecInv, SaysInv

LEMMA WordDec ==
  ASSUME Inv, DecInv, FormatWord
  PROVE  DecInv' /\ SaysInv'
<1>1. stage = "format" /\ stage' = "chars" /\ line' = Header(dec) /\ isa' = isa /\ dec' = dec /\ fmt' = 1
  BY DEF FormatWord, Inv
<1>2. DecInv'
  BY <1>1 DEF DecInv
<1>3. \A ft : Says(Header(dec).pieces, ft, 1, dec)
  BY SaysHeader
<1>4. SaysInv'
  BY <1>1, <1>3 DEF SaysInv
<1> QED
  BY <1>2, <1>4

(* What a character at its place in a format is.                           *)
LEMMA CharStands ==
  ASSUME NEW ft, Shaped(ft), NEW n \in 1 .. Len(ft)
  PROVE  Stands(ft, n)
<1> DEFINE T == TabAt(ft)
<1>1. /\ T \in {2, 4} /\ Len(ft) \in T .. 11 /\ ft[1] = "O" /\ ft[T] = "\t"
      /\ T = 4 <=> ft[2] = "A"
      /\ T = 4 => ft[3] = "R"
  <2>1. ft[2] = "A" => T = 4
    BY DEF TabAt
  <2>2. ft[2] # "A" => T = 2
    BY DEF TabAt
  <2> QED
    BY <2>1, <2>2 DEF Shaped
<1>2. \A k \in T + 1 .. Len(ft) : ft[k] \in {"(", ",", ")"} \cup Letter
  BY DEF Shaped, Short, Long, Letter
<1> HIDE DEF T
<1>3. n = 1 \/ n \in 2 .. T - 1 \/ n = T \/ n \in T + 1 .. Len(ft)
  BY <1>1
<1>4. CASE n = 1
  BY <1>1, <1>4 DEF Stands
<1>5. CASE n \in 2 .. T - 1
  <2>1. T = 4 /\ n \in {2, 3}
    BY <1>1, <1>5
  <2> QED
    BY <1>1, <2>1 DEF Stands
<1>6. CASE n = T
  <2>1. n > 1 /\ (ft[2] = "A" => n > 3)
    BY <1>1, <1>6
  <2> QED
    BY <1>1, <1>6, <2>1 DEF Stands
<1>7. CASE n \in T + 1 .. Len(ft)
  <2>1. n > 1 /\ n > 2 /\ (ft[2] = "A" => n > 3)
    BY <1>1, <1>7
  <2>2. ft[n] \in {"\t", "(", ",", ")"} \/ ft[n] \in Letter
    BY <1>2, <1>7
  <2> QED
    BY <2>1, <2>2 DEF Stands
<1> QED
  BY <1>3, <1>4, <1>5, <1>6, <1>7

LEMMA CharDec ==
  ASSUME Inv, DecInv, SaysInv, FormatChar
  PROVE  DecInv' /\ SaysInv'
<1>1. /\ stage = "chars" /\ fmt <= Len(Format) /\ fmt' = fmt + 1
      /\ line' = format_char(line, Format[fmt], dec)
      /\ stage' = stage /\ isa' = isa /\ dec' = dec
  BY DEF FormatChar
<1>2. DecInv'
  BY <1>1 DEF DecInv
<1>3. Format' = Format
  BY <1>1 DEF Format
<1>4. dec \in rv_instInfo /\ fmt \in 1 .. Len(Format) + 1
  BY DEF Inv, TypeOK
<1>5. Shaped(Format) /\ Len(Format) \in 2 .. 11
  BY <1>4, DecFormat
<1>6. fmt \in 1 .. Len(Format) /\ fmt \in Nat /\ fmt > 0
  BY <1>1, <1>4, <1>5
<1>7. Stands(Format, fmt)
  BY <1>5, <1>6, CharStands
<1>8. Says(line.pieces, Format, fmt, dec)
  BY <1>1 DEF SaysInv
<1>9. Says(line'.pieces, Format, fmt + 1, dec)
  BY <1>1, <1>6, <1>7, <1>8, SaysStep
<1>10. SaysInv'
  BY <1>1, <1>3, <1>9 DEF SaysInv
<1> QED
  BY <1>2, <1>10

LEMMA NextDec ==
  ASSUME Inv, DecInv, SaysInv, [Next]_vars
  PROVE  DecInv' /\ SaysInv'
<1>1. CASE DecodeOpcode
  BY <1>1, OpcodeDec
<1>2. CASE DecodeOperands
  BY <1>2, OperandsDec
<1>3. CASE LiftToPseudo
  BY <1>3, PseudoDec
<1>4. CASE FormatWord
  BY <1>4, WordDec
<1>5. CASE FormatChar
  BY <1>5, CharDec
<1>6. CASE Return
  <2>1. stage = "chars" /\ stage' = "returned" /\ isa' = isa /\ dec' = dec
    BY <1>6 DEF Return, Formatted
  <2> QED
    BY <2>1 DEF DecInv, SaysInv
<1>7. CASE UNCHANGED vars
  <2>1. stage' = stage /\ isa' = isa /\ dec' = dec /\ fmt' = fmt /\ line' = line
    BY <1>7 DEF vars
  <2>2. Format' = Format
    BY <2>1 DEF Format
  <2> QED
    BY <2>1, <2>2 DEF DecInv, SaysInv
<1> QED
  BY <1>1, <1>2, <1>3, <1>4, <1>5, <1>6, <1>7 DEF Next

LEMMA RowSlotted ==
  ASSUME NEW op \in rv_op
  PROVE  Slotted(opcode_data[op].format)
<1>1. opcode_data[op] \in Rows
  BY OpData
<1> QED
  BY <1>1, RowsSlotted

(* A whole line means the word.                                            *)
LEMMA LineMeans ==
  ASSUME Inv, DecInv, SaysInv, Formatted, ~LossyLift
  PROVE  Reassembles
<1> DEFINE w == dec.inst
           ft == Format
<1>1. stage = "chars" /\ fmt > Len(ft)
  BY DEF Formatted
<1>2. dec \in rv_instInfo /\ fmt \in 1 .. Len(ft) + 1
  BY DEF Inv, TypeOK
<1>3. dec.op \in rv_op /\ Shaped(ft) /\ Len(ft) \in 2 .. 11
  BY <1>2, DecFormat
<1>4. Slotted(ft)
  BY <1>3, RowSlotted DEF Format
<1>5. PICK pc : LET d == CutOf(w, isa, pc)
                IN  (dec = d \/ LiftOf(dec, d)) /\ d.op = OpOf(w, isa)
  BY <1>1 DEF DecInv
<1>6. w \in Word /\ Legal(isa, BitsOf(w))
  BY DEF DecInv
<1>7. ~Lossy(dec)
  BY DEF LossyLift, Lossy
<1>8. Meant(dec, opcode_data[dec.op].format, w)
  <2> DEFINE d == CutOf(w, isa, pc)
             op == OpOf(w, isa)
  <2>1. d = Cut(w, pc, op, opcode_data[op].type) /\ d.op = op /\ (dec = d \/ LiftOf(dec, d))
    BY <1>5 DEF CutOf
  <2>2. op = rv_inst_opcode(w, isa)
    BY DEF OpOf
  <2> HIDE DEF d, op, w
  <2> QED
    BY <1>6, <1>7, <2>1, <2>2, LegalMeans
<1>9. Says(line.pieces, ft, fmt, dec)
  BY <1>1 DEF SaysInv
<1> HIDE DEF ft
<1>10. fmt = Len(ft) + 1
  BY <1>1, <1>2, <1>3
<1>11. Says(line.pieces, ft, Len(ft) + 1, dec)
  BY <1>9, <1>10
<1>12. Args = ArgsOf(dec, ft)
  BY <1>4, <1>11, ShownArgs
<1>13. Len(ft) + 1 \in Nat /\ Len(ft) + 1 > 1 /\ (ft[2] = "A" => Len(ft) + 1 > 3)
  BY <1>3 DEF Shaped, TabAt
<1>14. Name = dec.op
  BY <1>11, <1>13, ShownName
<1>15. Marks = LineMarks(dec, ft)
  BY <1>11, <1>13, ShownMarks
<1>16. Means(dec.op, LineMarks(dec, ft), ArgsOf(dec, ft), InstBits)
  BY <1>8 DEF Meant, InstBits, Format, ft
<1> QED
  BY <1>12, <1>14, <1>15, <1>16 DEF Reassembles

(* The line of every legal word, of 16 and of 32 bits and in files of both *)
(* widths, says which instruction it was: read by the instruction formats, *)
(* its mnemonic, its marks and its operands give back the word, bit for    *)
(* bit, unless the lift was one of the two that lose a part.               *)
THEOREM LinesReassemble == ASSUME LegalInputs PROVE Spec => []LineReassembles
<1>1. Init => Inv /\ DecInv /\ SaysInv
  BY InitInv, InitDec
<1>2. Inv /\ DecInv /\ SaysInv /\ [Next]_vars => (Inv /\ DecInv /\ SaysInv)'
  BY NextInv, NextDec
<1>3. Inv /\ DecInv /\ SaysInv => LineReassembles
  BY LineMeans DEF LineReassembles
<1> QED
  BY <1>1, <1>2, <1>3, PTL DEF Spec
=============================================================================
