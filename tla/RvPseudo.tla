------------------------------ MODULE RvPseudo ------------------------------
(***************************************************************************)
(* Lifting to pseudo-instructions: rv_inst_pseudo walks the list that      *)
(* opcode_data holds for the op and takes the first entry all of whose     *)
(* constraints the decoded operands meet.                                  *)
(***************************************************************************)
EXTENDS RvOps, FiniteSetsExt

rvc_constraint ==
  {"rd_eq_ra", "rd_eq_x0", "rs1_eq_x0", "rs2_eq_x0", "rs2_eq_rs1", "rs1_eq_ra",
   "imm_eq_zero", "imm_eq_n1", "imm_eq_p1", "csr_eq_0x001", "csr_eq_0x002", "csr_eq_0x003",
   "csr_eq_0xc00", "csr_eq_0xc01", "csr_eq_0xc02", "csr_eq_0xc80", "csr_eq_0xc81", "csr_eq_0xc82"}

rv_compData == [of : rv_op, to : rv_op, if : SUBSET rvc_constraint]

(***************************************************************************)
(* The lists, in their order: an instruction of `of` is lifted to `to`     *)
(* under the constraints `if`.  rvcc_last is the empty set.                *)
(***************************************************************************)
Lift(of, to, if) == [of |-> <<of>>, to |-> <<to>>, if |-> if]

BranchLifts == <<
  Lift("jal",   "j",     {"rd_eq_x0"}),
  Lift("jal",   "jal",   {"rd_eq_ra"}),
  Lift("jalr",  "ret",   {"rd_eq_x0", "rs1_eq_ra"}),
  Lift("jalr",  "jr",    {"rd_eq_x0", "imm_eq_zero"}),
  Lift("jalr",  "jalr",  {"rd_eq_ra", "imm_eq_zero"}),
  Lift("beq",   "beqz",  {"rs2_eq_x0"}),
  Lift("bne",   "bnez",  {"rs2_eq_x0"}),
  Lift("blt",   "bltz",  {"rs2_eq_x0"}),
  Lift("blt",   "bgtz",  {"rs1_eq_x0"}),
  Lift("blt",   "bgt",   {}),
  Lift("bge",   "blez",  {"rs1_eq_x0"}),
  Lift("bge",   "bgez",  {"rs2_eq_x0"}),
  Lift("bge",   "ble",   {}),
  Lift("bltu",  "bgtu",  {}),
  Lift("bgeu",  "bleu",  {}) >>

ArithmeticLifts == <<
  Lift("addi",  "nop",   {"rd_eq_x0", "rs1_eq_x0", "imm_eq_zero"}),
  Lift("addi",  "mv",    {"imm_eq_zero"}),
  Lift("sltiu", "seqz",  {"imm_eq_p1"}),
  Lift("xori",  "not",   {"imm_eq_n1"}),
  Lift("sub",   "neg",   {"rs1_eq_x0"}),
  Lift("slt",   "sltz",  {"rs2_eq_x0"}),
  Lift("slt",   "sgtz",  {"rs1_eq_x0"}),
  Lift("sltu",  "snez",  {"rs1_eq_x0"}),
  [of |-> <<"addiw">>, to |-> <<"sext", "w">>, if |-> {"imm_eq_zero"}],
  Lift("subw",  "negw",  {"rs1_eq_x0"}) >>

CsrLifts == <<
  Lift("csrrw", "fscsr",      {"csr_eq_0x003"}),
  Lift("csrrw", "fsrm",       {"csr_eq_0x002"}),
  Lift("csrrw", "fsflags",    {"csr_eq_0x001"}),
  Lift("csrrs", "rdcycle",    {"rs1_eq_x0", "csr_eq_0xc00"}),
  Lift("csrrs", "rdtime",     {"rs1_eq_x0", "csr_eq_0xc01"}),
  Lift("csrrs", "rdinstret",  {"rs1_eq_x0", "csr_eq_0xc02"}),
  Lift("csrrs", "rdcycleh",   {"rs1_eq_x0", "csr_eq_0xc80"}),
  Lift("csrrs", "rdtimeh",    {"rs1_eq_x0", "csr_eq_0xc81"}),
  Lift("csrrs", "rdinstreth", {"rs1_eq_x0", "csr_eq_0xc82"}),
  Lift("csrrs", "frcsr",      {"rs1_eq_x0", "csr_eq_0x003"}),
  Lift("csrrs", "frrm",       {"rs1_eq_x0", "csr_eq_0x002"}),
  Lift("csrrs", "frflags",    {"rs1_eq_x0", "csr_eq_0x001"}),
  Lift("csrrwi", "fsrmi",     {"csr_eq_0x002"}),
  Lift("csrrwi", "fsflagsi",  {"csr_eq_0x001"}) >>

FloatLift(of, to, p) == [of |-> <<of, p>>, to |-> <<to, p>>, if |-> {"rs2_eq_rs1"}]

FloatLifts == <<
  FloatLift("fsgnj", "fmv", "s"), FloatLift("fsgnjn", "fneg", "s"), FloatLift("fsgnjx", "fabs", "s"),
  FloatLift("fsgnj", "fmv", "d"), FloatLift("fsgnjn", "fneg", "d"), FloatLift("fsgnjx", "fabs", "d"),
  FloatLift("fsgnj", "fmv", "q"), FloatLift("fsgnjn", "fneg", "q"), FloatLift("fsgnjx", "fabs", "q") >>

rvcp == BranchLifts \o ArithmeticLifts \o CsrLifts \o FloatLifts

(* One constraint on the decoded instruction d.                            *)
Meets(d, c) ==
  CASE c = "rd_eq_ra"     -> d.rd = 1
    [] c = "rd_eq_x0"     -> d.rd = 0
    [] c = "rs1_eq_x0"    -> d.rs1 = 0
    [] c = "rs2_eq_x0"    -> d.rs2 = 0
    [] c = "rs2_eq_rs1"   -> d.rs2 = d.rs1
    [] c = "rs1_eq_ra"    -> d.rs1 = 1
    [] c = "imm_eq_zero"  -> d.imm = 0
    [] c = "imm_eq_n1"    -> d.imm = -1
    [] c = "imm_eq_p1"    -> d.imm = 1
    [] c = "csr_eq_0x001" -> d.imm = 1
    [] c = "csr_eq_0x002" -> d.imm = 2
    [] c = "csr_eq_0x003" -> d.imm = 3
    [] c = "csr_eq_0xc00" -> d.imm = 3072
    [] c = "csr_eq_0xc01" -> d.imm = 3073
    [] c = "csr_eq_0xc02" -> d.imm = 3074
    [] c = "csr_eq_0xc80" -> d.imm = 3200
    [] c = "csr_eq_0xc81" -> d.imm = 3201
    [] c = "csr_eq_0xc82" -> d.imm = 3202

check_constraints(d, constraints) == \A c \in constraints : Meets(d, c)

rv_inst_pseudo(d) ==
  LET hits == {k \in DOMAIN rvcp : rvcp[k].of = d.op /\ check_constraints(d, rvcp[k].if)}
      to   == rvcp[Min(hits)].to
  IN  IF hits = {} THEN d
      ELSE [d EXCEPT !.op = to, !.type = opcode_data[to].type]
=============================================================================
