---------------------------- MODULE DecodeProofs ----------------------------
(***************************************************************************)
(* Every legal word of the instruction set is decoded as what it is: the   *)
(* switches of rv_inst_opcode return the name of its entry, the row of     *)
(* opcode_data cuts out the operands of that entry, and a lift renames the *)
(* instruction without changing what the word means.                       *)
(***************************************************************************)
EXTENDS OperandProofs

-----------------------------------------------------------------------------
(* Instructions that have an opcode, or an opcode and a funct3, to         *)
(* themselves.                                                             *)
LEMMA JalDecoded ==
  ASSUME NEW w, NEW isa, NEW marks, NEW v, NEW e, Carries(w, e, marks, v),
         e = Insn(<<"jal">>, Code(27, 0, 0), <<Rd, ImmJ>>)
  PROVE  /\ e.args = <<Rd, ImmJ>> /\ NoMarks(e)
         /\ Decodes(w, isa, e, "uj", fmt_rd_offset)
<1> DEFINE args == <<Rd, ImmJ>>
           names == Plain({"jal"})
<1>1. Row("uj", fmt_rd_offset, names) \in Rows /\ <<"jal">> \in names
  BY DEF Rows, BaseRows, Plain
<1>2. Clear(args, 0, 6)
  BY OpcodeFree DEF Clear
<1>3. e = Insn(<<"jal">>, Code(27, 0, 0), args)
  OBVIOUS
<1> HIDE DEF args, names
<1>4. IsInsn(e, <<"jal">>, 27, 0, 0, args)
  BY <1>3 DEF IsInsn, Insn, NoMarks
<1>5. e.args = args /\ NoMarks(e) /\ e.name = <<"jal">>
  BY <1>4 DEF IsInsn
<1>6. w % 4 = 3 /\ Bits(w, 2, 5) = 27
  BY <1>2, <1>4, InsnFields
<1>7. rv_inst_opcode(w, isa) = <<"jal">>
  BY <1>6 DEF rv_inst_opcode, Quadrant3
<1>8. InRow(e.name, "uj", fmt_rd_offset)
  BY <1>1, <1>5, RowOfName
<1> QED
  BY <1>5, <1>7, <1>8 DEF Decodes, args

LEMMA JalrDecoded ==
  ASSUME NEW w, NEW isa, NEW marks, NEW v, NEW e, Carries(w, e, marks, v),
         e = Insn(<<"jalr">>, Code(25, 0, 0), <<Rd, Rs1, ImmI>>)
  PROVE  /\ e.args = <<Rd, Rs1, ImmI>> /\ NoMarks(e)
         /\ Decodes(w, isa, e, "i", fmt_rd_rs1_offset)
<1> DEFINE args == <<Rd, Rs1, ImmI>>
           names == Plain({"jalr"})
<1>1. Row("i", fmt_rd_rs1_offset, names) \in Rows /\ <<"jalr">> \in names
  BY DEF Rows, BaseRows, Plain
<1>2. Clear(args, 0, 6) /\ Clear(args, 12, 14)
  BY OpcodeFree, Funct3Free DEF Clear
<1>3. e = Insn(<<"jalr">>, Code(25, 0, 0), args)
  OBVIOUS
<1> HIDE DEF args, names
<1>4. IsInsn(e, <<"jalr">>, 25, 0, 0, args)
  BY <1>3 DEF IsInsn, Insn, NoMarks
<1>5. e.args = args /\ NoMarks(e) /\ e.name = <<"jalr">>
  BY <1>4 DEF IsInsn
<1>6. w % 4 = 3 /\ Bits(w, 2, 5) = 25 /\ funct3(w) = 0
  BY <1>2, <1>4, InsnFields
<1>7. rv_inst_opcode(w, isa) = <<"jalr">>
  BY <1>6 DEF rv_inst_opcode, Quadrant3, When
<1>8. InRow(e.name, "i", fmt_rd_rs1_offset)
  BY <1>1, <1>5, RowOfName
<1> QED
  BY <1>5, <1>7, <1>8 DEF Decodes, args

LEMMA LuiDecoded ==
  ASSUME NEW w, NEW isa, NEW marks, NEW v, NEW e, Carries(w, e, marks, v),
         e = Insn(<<"lui">>, Code(13, 0, 0), <<Rd, ImmU>>)
  PROVE  /\ e.args = <<Rd, ImmU>> /\ NoMarks(e)
         /\ Decodes(w, isa, e, "u", fmt_rd_imm)
<1> DEFINE args == <<Rd, ImmU>>
           names == Plain({"lui"})
<1>1. Row("u", fmt_rd_imm, names) \in Rows /\ <<"lui">> \in names
  BY DEF Rows, BaseRows, Plain
<1>2. Clear(args, 0, 6)
  BY OpcodeFree DEF Clear
<1>3. e = Insn(<<"lui">>, Code(13, 0, 0), args)
  OBVIOUS
<1> HIDE DEF args, names
<1>4. IsInsn(e, <<"lui">>, 13, 0, 0, args)
  BY <1>3 DEF IsInsn, Insn, NoMarks
<1>5. e.args = args /\ NoMarks(e) /\ e.name = <<"lui">>
  BY <1>4 DEF IsInsn
<1>6. w % 4 = 3 /\ Bits(w, 2, 5) = 13
  BY <1>2, <1>4, InsnFields
<1>7. rv_inst_opcode(w, isa) = <<"lui">>
  BY <1>6 DEF rv_inst_opcode, Quadrant3
<1>8. InRow(e.name, "u", fmt_rd_imm)
  BY <1>1, <1>5, RowOfName
<1> QED
  BY <1>5, <1>7, <1>8 DEF Decodes, args

LEMMA AuipcDecoded ==
  ASSUME NEW w, NEW isa, NEW marks, NEW v, NEW e, Carries(w, e, marks, v),
         e = Insn(<<"auipc">>, Code(5, 0, 0), <<Rd, ImmU>>)
  PROVE  /\ e.args = <<Rd, ImmU>> /\ NoMarks(e)
         /\ Decodes(w, isa, e, "u", fmt_rd_offset)
<1> DEFINE args == <<Rd, ImmU>>
           names == Plain({"auipc"})
<1>1. Row("u", fmt_rd_offset, names) \in Rows /\ <<"auipc">> \in names
  BY DEF Rows, BaseRows, Plain
<1>2. Clear(args, 0, 6)
  BY OpcodeFree DEF Clear
<1>3. e = Insn(<<"auipc">>, Code(5, 0, 0), args)
  OBVIOUS
<1> HIDE DEF args, names
<1>4. IsInsn(e, <<"auipc">>, 5, 0, 0, args)
  BY <1>3 DEF IsInsn, Insn, NoMarks
<1>5. e.args = args /\ NoMarks(e) /\ e.name = <<"auipc">>
  BY <1>4 DEF IsInsn
<1>6. w % 4 = 3 /\ Bits(w, 2, 5) = 5
  BY <1>2, <1>4, InsnFields
<1>7. rv_inst_opcode(w, isa) = <<"auipc">>
  BY <1>6 DEF rv_inst_opcode, Quadrant3
<1>8. InRow(e.name, "u", fmt_rd_offset)
  BY <1>1, <1>5, RowOfName
<1> QED
  BY <1>5, <1>7, <1>8 DEF Decodes, args

LEMMA FenceDecoded ==
  ASSUME NEW w, NEW isa, NEW marks, NEW v, NEW e, Carries(w, e, marks, v),
         e = Insn(<<"fence">>, Code(3, 0, 0), <<Pred, Succ>>)
  PROVE  /\ e.args = <<Pred, Succ>> /\ NoMarks(e)
         /\ Decodes(w, isa, e, "r_f", fmt_pred_succ)
<1> DEFINE args == <<Pred, Succ>>
           names == Plain({"fence"})
<1>1. Row("r_f", fmt_pred_succ, names) \in Rows /\ <<"fence">> \in names
  BY DEF Rows, BaseRows, Plain
<1>2. Clear(args, 0, 6) /\ Clear(args, 12, 14)
  BY OpcodeFree, Funct3Free DEF Clear
<1>3. e = Insn(<<"fence">>, Code(3, 0, 0), args)
  OBVIOUS
<1> HIDE DEF args, names
<1>4. IsInsn(e, <<"fence">>, 3, 0, 0, args)
  BY <1>3 DEF IsInsn, Insn, NoMarks
<1>5. e.args = args /\ NoMarks(e) /\ e.name = <<"fence">>
  BY <1>4 DEF IsInsn
<1>6. w % 4 = 3 /\ Bits(w, 2, 5) = 3 /\ funct3(w) = 0
  BY <1>2, <1>4, InsnFields
<1>7. rv_inst_opcode(w, isa) = <<"fence">>
  BY <1>6 DEF rv_inst_opcode, Quadrant3, MiscMem, Case
<1>8. InRow(e.name, "r_f", fmt_pred_succ)
  BY <1>1, <1>5, RowOfName
<1> QED
  BY <1>5, <1>7, <1>8 DEF Decodes, args

LEMMA FenceIDecoded ==
  ASSUME NEW w, NEW isa, NEW marks, NEW v, NEW e, Carries(w, e, marks, v),
         e = Insn(<<"fence", "i">>, Code(3, 1, 0), << >>)
  PROVE  /\ e.args = << >> /\ NoMarks(e)
         /\ Decodes(w, isa, e, "none", fmt_none)
<1> DEFINE args == << >>
           names == {<<"fence", "i">>}
<1>1. Row("none", fmt_none, names) \in Rows /\ <<"fence", "i">> \in names
  BY DEF Rows, BaseRows, Plain
<1>2. Clear(args, 0, 6) /\ Clear(args, 12, 14)
  BY ClearNothing
<1>3. e = Insn(<<"fence", "i">>, Code(3, 1, 0), args)
  OBVIOUS
<1> HIDE DEF args, names
<1>4. IsInsn(e, <<"fence", "i">>, 3, 1, 0, args)
  BY <1>3 DEF IsInsn, Insn, NoMarks
<1>5. e.args = args /\ NoMarks(e) /\ e.name = <<"fence", "i">>
  BY <1>4 DEF IsInsn
<1>6. w % 4 = 3 /\ Bits(w, 2, 5) = 3 /\ funct3(w) = 1
  BY <1>2, <1>4, InsnFields
<1>7. rv_inst_opcode(w, isa) = <<"fence", "i">>
  <2>1. MiscMem(w) = <<"fence", "i">>
    BY <1>6 DEF MiscMem
  <2> QED
    BY <1>6, <2>1, SMTT(20) DEF rv_inst_opcode, Quadrant3
<1>8. InRow(e.name, "none", fmt_none)
  BY <1>1, <1>5, RowOfName
<1> QED
  BY <1>5, <1>7, <1>8 DEF Decodes, args

(* rd's field is free of these operands.                                   *)
LEMMA RdFree ==
  /\ Off(Span(Rs1.layout), 7, 7 + 4) /\ Off(Span(Rs2.layout), 7, 7 + 4)
  /\ Off(Span(Rs1.layout), 20, 20 + 4) /\ Off(Span(Fs1.layout), 20, 20 + 4)
  /\ Off(Span(Rd.layout), 20, 20 + 4) /\ Off(Span(Fd.layout), 20, 20 + 4) /\ Off(Span(Rm.layout), 20, 20 + 4)
BY WideSpans DEF Off

LEMMA SfenceVmaDecoded ==
  ASSUME NEW w, NEW isa, NEW marks, NEW v, NEW e, Carries(w, e, marks, v),
         e = Insn(<<"sfence", "vma">>, Code(28, 0, 9), <<Rs1, Rs2>>)
  PROVE  /\ e.args = <<Rs1, Rs2>> /\ NoMarks(e)
         /\ Decodes(w, isa, e, "r", fmt_rs1_rs2)
<1> DEFINE args == <<Rs1, Rs2>>
           names == {<<"sfence", "vma">>}
<1>1. Row("r", fmt_rs1_rs2, names) \in Rows /\ <<"sfence", "vma">> \in names
  BY DEF Rows, SystemRows, Plain
<1>2. Clear(args, 0, 6) /\ Clear(args, 12, 14) /\ Clear(args, 25, 31) /\ Clear(args, 7, 7 + 4)
  BY OpcodeFree, Funct3Free, Funct7Free, RdFree DEF Clear
<1>3. e = Insn(<<"sfence", "vma">>, Code(28, 0, 9), args)
  OBVIOUS
<1> HIDE DEF args, names
<1>4. IsInsn(e, <<"sfence", "vma">>, 28, 0, 9, args)
  BY <1>3 DEF IsInsn, Insn, NoMarks
<1>5. e.args = args /\ NoMarks(e) /\ e.name = <<"sfence", "vma">>
  BY <1>4 DEF IsInsn
<1>6. w % 4 = 3 /\ Bits(w, 2, 5) = 28 /\ funct3(w) = 0 /\ funct7(w) = 9 /\ operand_rd(w) = 0
  BY <1>2, <1>4, InsnFields, InsnZeros
<1>7. rv_inst_opcode(w, isa) = <<"sfence", "vma">>
  BY <1>6 DEF rv_inst_opcode, Quadrant3, System, Privileged
<1>8. InRow(e.name, "r", fmt_rs1_rs2)
  BY <1>1, <1>5, RowOfName
<1> QED
  BY <1>5, <1>7, <1>8 DEF Decodes, args

-----------------------------------------------------------------------------
(* Instructions with a number in the CSR field.                            *)
LEMMA NumberOff ==
  ASSUME NEW n, NEW at \in {20}, NEW width \in {5, 12}
  PROVE  /\ Off(Field(at, width, n), 0, 6) /\ Off(Field(at, width, n), 12, 14)
         /\ Off(Field(at, width, n), 7, 7 + 4) /\ Off(Field(at, width, n), 15, 15 + 4)
         /\ width = 5 => Off(Field(at, width, n), 25, 31) /\ Off(Field(at, width, n), 27, 31)
                         /\ Off(Field(at, width, n), 25, 26)
<1>1. ASSUME NEW k \in Nat, k < 20 \/ k >= 20 + width
      PROVE  k \notin Field(at, width, n)
  BY <1>1, InField
<1> QED
  BY <1>1 DEF Off

LEMMA OffBoth ==
  ASSUME NEW S, NEW T, NEW lo, NEW hi, Off(S, lo, hi), Off(T, lo, hi)
  PROVE  Off(S \cup T, lo, hi)
BY DEF Off

Twelve(n) == n \in Nat /\ n < 4096

AtMostRs1(args) == args = << >> \/ args = <<Rs1>>

LEMMA ZeroBits == \A j \in 0 .. 6 : BitOf(0, j) = 0
<1>1. /\ BitOf(0, 0) = 0 /\ BitOf(0, 1) = 0 /\ BitOf(0, 2) = 0 /\ BitOf(0, 3) = 0
      /\ BitOf(0, 4) = 0 /\ BitOf(0, 5) = 0 /\ BitOf(0, 6) = 0
  BY DEF BitOf
<1> QED
  BY <1>1

LEMMA Imm12Bits ==
  ASSUME NEW n, Twelve(n)
  PROVE  Number(Code(28, 0, 0) \cup Field(20, 12, n), 20, 12, n)
<1> DEFINE ones == Code(28, 0, 0) \cup Field(20, 12, n)
<1>1. ASSUME NEW k \in 20 .. 20 + 12 - 1
      PROVE  k \in ones <=> BitOf(n, k - 20) = 1
  <2>1. k \in Nat /\ 20 <= k /\ k < 20 + 12
    BY <1>1
  <2>2. k \in Field(20, 12, n) <=> BitOf(n, k - 20) = 1
    BY <2>1, InField
  <2>3. k \notin Code(28, 0, 0)
    <3>1. ASSUME 25 <= k
          PROVE  BitOf(0, k - 25) # 1
      <4>1. k - 25 \in 0 .. 6
        BY <2>1, <3>1
      <4>2. BitOf(0, k - 25) = 0
        BY <4>1, ZeroBits
      <4> QED
        BY <4>2
    <3> QED
      BY <2>1, <3>1, InCode
  <2> QED
    BY <2>2, <2>3
<1> HIDE DEF ones
<1>2. Number(ones, 20, 12, n)
  BY <1>1 DEF Number
<1> QED
  BY <1>2 DEF ones

LEMMA Imm12Fields ==
  ASSUME NEW w, NEW e, NEW marks, NEW v, Carries(w, e, marks, v), NoMarks(e),
         NEW n, Twelve(n), e.fixed = Imm12(n), AtMostRs1(e.args)
  PROVE  /\ w % 4 = 3 /\ Bits(w, 2, 5) = 28 /\ funct3(w) = 0
         /\ funct7(w) = n \div 32 /\ operand_rs2(w) = n % 32 /\ operand_rd(w) = 0
         /\ e.args = << >> => operand_rs1(w) = 0
<1> DEFINE P == Places(e.args)
           R == Field(20, 12, n)
           S == P \cup R
           ones == Code(28, 0, 0) \cup R
<1>1. MarkBits(marks) = {}
  BY Unmarked
<1>2. e.fixed = Code(28, 0, 0) \cup R /\ S = P \cup R \cup MarkBits(marks)
  BY <1>1 DEF Imm12
<1>3. w \in Word /\ Unplaced(w, P, ones)
  BY <1>1, <1>2 DEF Carries, Exactly, Places, Unplaced
<1>4. /\ Off(P, 0, 6) /\ Off(P, 12, 14) /\ Off(P, 20, 31) /\ Off(P, 7, 7 + 4)
      /\ e.args = << >> => Off(P, 15, 15 + 4)
  <2>1. CASE e.args = << >>
    BY <2>1, ClearNothing, ClearPlaces
  <2>2. CASE e.args = <<Rs1>>
    <3>1. P = 15 .. 19
      BY <2>2, PlacesOf, WideSpans
    <3>2. <<Rs1>> # << >>
      OBVIOUS
    <3> QED
      BY <2>2, <3>1, <3>2 DEF Off
  <2> QED
    BY <2>1, <2>2 DEF AtMostRs1
<1>5. Off(R, 0, 6) /\ Off(R, 12, 14) /\ Off(R, 7, 7 + 4) /\ Off(R, 15, 15 + 4)
  BY NumberOff
<1>6. Off(S, 0, 6) /\ Off(S, 12, 14)
  BY <1>4, <1>5, OffBoth
<1>7. Number(ones, 20, 12, n)
  BY Imm12Bits
<1> HIDE DEF P, R, S, ones
<1>8. FieldsFixed(w, S, 28, 0, 0)
  <2>1. S = Places(e.args) \cup R \cup MarkBits(marks) /\ 28 \in 0 .. 31 /\ 0 \in 0 .. 7 /\ 0 \in Nat /\ 0 < 128
    BY <1>2 DEF P
  <2> QED
    BY <1>2, <2>1, CodeFields
<1>9. w % 4 = 3 /\ Bits(w, 2, 5) = 28 /\ funct3(w) = 0
  BY <1>6, <1>8 DEF FieldsFixed
<1>10. Bits(w, 20, 12) = n
  <2>1. Bits(w, 20, 12) = Bits(n, 0, 12)
    <3>1. 31 \in 20 .. 31 /\ 31 = 20 + 12 - 1 /\ n \in Nat /\ n < 4096 /\ 12 \in 1 .. 20
      BY DEF Twelve
    <3>2. Off(P, 20, 31)
      BY <1>4
    <3>3. \A hi \in 20 .. 31, x \in Nat :
            hi = 20 + 12 - 1 /\ x < 4096 /\ Off(P, 20, hi) /\ Number(ones, 20, 12, x)
              => Bits(w, 20, 12) = Bits(x, 0, 12)
      BY <1>3, NumberField
    <3> QED
      BY <1>7, <3>1, <3>2, <3>3
  <2>2. Bits(n, 0, 12) = n
    BY DEF Bits, Twelve
  <2> QED
    BY <2>1, <2>2
<1>11. funct7(w) = n \div 32 /\ operand_rs2(w) = n % 32
  BY <1>3, <1>10, SMT DEF Bits, funct7, operand_rs2, Word
<1>12. Off(ones, 7, 7 + 4) /\ Off(ones, 15, 15 + 4)
  BY <1>5, CodeOff, OffBoth DEF ones
<1>13. operand_rd(w) = 0
  BY <1>3, <1>4, <1>12, ZeroField DEF operand_rd
<1>14. e.args = << >> => operand_rs1(w) = 0
  BY <1>3, <1>4, <1>12, ZeroField DEF operand_rs1
<1> QED
  BY <1>9, <1>11, <1>13, <1>14

LEMMA EnvironmentDecoded ==
  ASSUME NEW w, NEW isa, NEW marks, NEW v, NEW e \in Environment, Carries(w, e, marks, v)
  PROVE  /\ e.args = << >> /\ NoMarks(e)
         /\ Decodes(w, isa, e, "none", fmt_none)
<1> DEFINE names == Plain({"ecall", "ebreak", "uret", "sret", "hret", "mret", "dret", "wfi"})
<1>1. PICK b \in BareNumbers : e = Insn(<<b[1]>>, Imm12(b[2]), << >>)
  BY DEF Environment
<1>2. Twelve(b[2]) /\ <<b[1]>> \in names
  BY <1>1 DEF Plain, Twelve, BareNumbers
<1>3. e.args = << >> /\ NoMarks(e) /\ e.fixed = Imm12(b[2]) /\ e.name = <<b[1]>>
  BY <1>1 DEF Insn, NoMarks
<1>4. /\ w % 4 = 3 /\ Bits(w, 2, 5) = 28 /\ funct3(w) = 0
      /\ funct7(w) = b[2] \div 32 /\ operand_rs2(w) = b[2] % 32 /\ operand_rd(w) = 0
      /\ operand_rs1(w) = 0
  <2>1. AtMostRs1(e.args)
    BY <1>3 DEF AtMostRs1
  <2>2. /\ w % 4 = 3 /\ Bits(w, 2, 5) = 28 /\ funct3(w) = 0
        /\ funct7(w) = b[2] \div 32 /\ operand_rs2(w) = b[2] % 32 /\ operand_rd(w) = 0
        /\ e.args = << >> => operand_rs1(w) = 0
    BY <1>2, <1>3, <2>1, Imm12Fields
  <2> QED
    BY <1>3, <2>2
<1>5. \/ b[1] = "ecall" /\ b[2] \div 32 = 0 /\ b[2] % 32 = 0
      \/ b[1] = "ebreak" /\ b[2] \div 32 = 0 /\ b[2] % 32 = 1
      \/ b[1] = "uret" /\ b[2] \div 32 = 0 /\ b[2] % 32 = 2
      \/ b[1] = "sret" /\ b[2] \div 32 = 8 /\ b[2] % 32 = 2
      \/ b[1] = "wfi" /\ b[2] \div 32 = 8 /\ b[2] % 32 = 5
      \/ b[1] = "hret" /\ b[2] \div 32 = 16 /\ b[2] % 32 = 2
      \/ b[1] = "mret" /\ b[2] \div 32 = 24 /\ b[2] % 32 = 2
      \/ b[1] = "dret" /\ b[2] \div 32 = 61 /\ b[2] % 32 = 18
  BY <1>1 DEF BareNumbers
<1>6. Privileged(w) = <<b[1]>>
  BY <1>4, <1>5 DEF Privileged, When, Case
<1>7. rv_inst_opcode(w, isa) = <<b[1]>>
  BY <1>4, <1>6 DEF rv_inst_opcode, Quadrant3, System
<1>8. Row("none", fmt_none, names) \in Rows
  BY DEF Rows, SystemRows
<1>9. InRow(<<b[1]>>, "none", fmt_none)
  BY <1>2, <1>8, RowOfName
<1> QED
  BY <1>3, <1>7, <1>9 DEF Decodes

LEMMA SfenceVmDecoded ==
  ASSUME NEW w, NEW isa, NEW marks, NEW v, NEW e, Carries(w, e, marks, v),
         e = Insn(<<"sfence", "vm">>, Imm12(260), <<Rs1>>)
  PROVE  /\ e.args = <<Rs1>> /\ NoMarks(e)
         /\ Decodes(w, isa, e, "r", fmt_rs1)
<1> DEFINE names == {<<"sfence", "vm">>}
           n == 260
<1>1. e.args = <<Rs1>> /\ NoMarks(e) /\ e.fixed = Imm12(n) /\ e.name = <<"sfence", "vm">>
  BY DEF Insn, NoMarks
<1>2. /\ w % 4 = 3 /\ Bits(w, 2, 5) = 28 /\ funct3(w) = 0
      /\ funct7(w) = 8 /\ operand_rs2(w) = 4 /\ operand_rd(w) = 0
  <2>1. Twelve(n) /\ n \div 32 = 8 /\ n % 32 = 4
    BY DEF Twelve
  <2> HIDE DEF n
  <2>2. AtMostRs1(e.args) /\ NoMarks(e) /\ e.fixed = Imm12(n) /\ Twelve(n)
    BY <1>1, <2>1 DEF AtMostRs1
  <2>3. /\ w % 4 = 3 /\ Bits(w, 2, 5) = 28 /\ funct3(w) = 0
        /\ funct7(w) = n \div 32 /\ operand_rs2(w) = n % 32 /\ operand_rd(w) = 0
        /\ e.args = << >> => operand_rs1(w) = 0
    BY <2>2, Imm12Fields
  <2> QED
    BY <2>1, <2>3
<1>3. Privileged(w) = <<"sfence", "vm">>
  BY <1>2 DEF Privileged
<1>4. rv_inst_opcode(w, isa) = <<"sfence", "vm">>
  BY <1>2, <1>3 DEF rv_inst_opcode, Quadrant3, System
<1>5. Row("r", fmt_rs1, names) \in Rows
  BY DEF Rows, SystemRows
<1>6. InRow(<<"sfence", "vm">>, "r", fmt_rs1)
  BY <1>5, RowOfName
<1> QED
  BY <1>1, <1>4, <1>6 DEF Decodes

-----------------------------------------------------------------------------
(* Float instructions: the precision is in the lowest bits of funct7.      *)
LEMMA FloatFormatsOf ==
  ASSUME NEW p \in FloatFormats
  PROVE  p[2] \in {0, 1, 3} /\ Precision(p[2]) = <<p[1]>> /\ p[1] \in Precisions /\ <<p[1]>> # op_illegal
BY DEF FloatFormats, Precision, Case, Precisions, op_illegal

FloatOf(w, e, f5, f3, p, args) ==
  /\ e.args = args /\ NoMarks(e) /\ w % 4 = 3 /\ Bits(w, 2, 5) = 20
  /\ funct5(w) = f5 /\ Precision(Bits(w, 25, 2)) = <<p>> /\ p \in Precisions /\ <<p>> # op_illegal
  /\ Clear(args, 12, 14) => funct3(w) = f3
  /\ Clear(args, 20, 20 + 4) => operand_rs2(w) = 0

IsFloat(e, name, f5, f3, p, args) ==
  /\ f5 \in 0 .. 31 /\ f3 \in 0 .. 7 /\ p \in FloatFormats
  /\ e = Insn(name, FCode(f5, p, f3), args)

LEMMA FCodeFields ==
  ASSUME NEW w, NEW e, NEW marks, NEW v, Carries(w, e, marks, v), NEW name, NEW args,
         NEW f5, NEW f3, NEW p, IsFloat(e, name, f5, f3, p, args), Clear(args, 0, 6), Clear(args, 25, 31)
  PROVE  e.name = name /\ FloatOf(w, e, f5, f3, p[1], args)
<1> DEFINE f7 == f5 * 4 + p[2]
<1>0. f5 \in 0 .. 31 /\ f3 \in 0 .. 7 /\ p \in FloatFormats
  BY DEF IsFloat
<1>1. f7 \in Nat /\ f7 < 128 /\ f7 \div 4 = f5 /\ f7 % 4 = p[2]
  BY <1>0, FloatFormatsOf
<1>2. FCode(f5, p, f3) = Code(20, f3, f7)
  BY DEF FCode
<1> HIDE DEF f7
<1>3. IsInsn(e, name, 20, f3, f7, args)
  BY <1>0, <1>1, <1>2 DEF IsFloat, IsInsn, Insn, NoMarks
<1>4. e.args = args /\ NoMarks(e) /\ e.name = name
  BY <1>3 DEF IsInsn, NoMarks
<1>5. w % 4 = 3 /\ Bits(w, 2, 5) = 20 /\ funct7(w) = f7
  BY <1>3, InsnFields
<1>6. Clear(args, 12, 14) => funct3(w) = f3
  BY <1>3, InsnFields
<1>7. Clear(args, 20, 20 + 4) => operand_rs2(w) = 0
  BY <1>3, InsnZeros
<1>8. Clear(args, 27, 31) /\ Clear(args, 25, 26)
  BY DEF Clear, Off
<1>9. funct5(w) = f7 \div 4 /\ Bits(w, 25, 2) = f7 % 4
  BY <1>3, <1>8, InsnFields
<1>10. funct5(w) = f5 /\ Precision(Bits(w, 25, 2)) = <<p[1]>> /\ p[1] \in Precisions /\ <<p[1]>> # op_illegal
  BY <1>0, <1>1, <1>9, FloatFormatsOf
<1> QED
  BY <1>4, <1>5, <1>6, <1>7, <1>10 DEF FloatOf

LEMMA ByPrecisionDecoded ==
  ASSUME NEW w, NEW e, NEW marks, NEW v, Carries(w, e, marks, v),
         NEW args, NEW T, e \in ByPrecision(args, T),
         \A t \in T : t[2] \in 0 .. 31 /\ t[3] \in 0 .. 7, Clear(args, 0, 6), Clear(args, 25, 31)
  PROVE  \E t \in T, p \in Precisions :
           e.name = <<t[1], p>> /\ FloatOf(w, e, t[2], t[3], p, args)
<1>1. PICK t \in T, p \in FloatFormats : e = Insn(<<t[1], p[1]>>, FCode(t[2], p, t[3]), args)
  BY DEF ByPrecision
<1>2. t[2] \in 0 .. 31 /\ t[3] \in 0 .. 7 /\ p[1] \in Precisions
  BY <1>1, FloatFormatsOf
<1>3. IsFloat(e, <<t[1], p[1]>>, t[2], t[3], p, args)
  BY <1>1, <1>2 DEF IsFloat
<1>4. e.name = <<t[1], p[1]>> /\ FloatOf(w, e, t[2], t[3], p[1], args)
  BY <1>3, FCodeFields
<1> QED
  BY <1>2, <1>4

LEMMA FloatOpcode ==
  ASSUME NEW w, NEW isa, w % 4 = 3, Bits(w, 2, 5) = 20
  PROVE  rv_inst_opcode(w, isa) = OpFp(w)
BY DEF rv_inst_opcode, Quadrant3

(* What FpCompute names exists in each precision.                          *)
LEMMA Computed ==
  ASSUME NEW w, NEW isa, NEW e, NEW f3, NEW f5, NEW n, NEW p, NEW args,
         FloatOf(w, e, f5, f3, p, args),
         f5 \in {0, 1, 2, 3, 4, 5, 11, 20}, FpCompute(w) = <<n>>, <<n>> # op_illegal
  PROVE  rv_inst_opcode(w, isa) = <<n, p>>
<1>1. rv_inst_opcode(w, isa) = OpFp(w) /\ funct5(w) = f5 /\ Precision(Bits(w, 25, 2)) = <<p>> /\ <<p>> # op_illegal
  BY FloatOpcode DEF FloatOf
<1>2. OpFp(w) = When(op_illegal \notin {FpCompute(w), Precision(Bits(w, 25, 2))},
                     FpCompute(w) \o Precision(Bits(w, 25, 2)))
  BY <1>1 DEF OpFp
<1>3. OpFp(w) = <<n>> \o <<p>>
  BY <1>1, <1>2 DEF When
<1> QED
  BY <1>1, <1>3, Joined

LEMMA FloatAluDecoded ==
  ASSUME NEW w, NEW isa, NEW marks, NEW v, NEW e \in FloatAlu, Carries(w, e, marks, v)
  PROVE  /\ e.args = <<Rm, Fd, Fs1, Fs2>> /\ NoMarks(e)
         /\ Decodes(w, isa, e, "r_m", fmt_rm_frd_frs1_frs2)
<1> DEFINE args == <<Rm, Fd, Fs1, Fs2>>
           T == {<<"fadd", 0, 0>>, <<"fsub", 1, 0>>, <<"fmul", 2, 0>>, <<"fdiv", 3, 0>>}
           names == Dot({"fadd", "fsub", "fmul", "fdiv"}, Precisions)
<1>1. \A t \in T : t[2] \in 0 .. 31 /\ t[3] \in 0 .. 7 /\ t[2] \in {0, 1, 2, 3, 4, 5, 11, 20}
  OBVIOUS
<1>2. \A t \in T : <<t[1]>> # op_illegal /\ t[2] < 4 /\ Case(<<"fadd", "fsub", "fmul", "fdiv">>, t[2]) = <<t[1]>>
  BY DEF Case, op_illegal
<1>3. \A t \in T, p \in Precisions : <<t[1], p>> \in names
  BY DEF Dot
<1>4. Row("r_m", fmt_rm_frd_frs1_frs2, names) \in Rows
  BY DEF Rows, FloatRows
<1>5. Clear(args, 0, 6) /\ Clear(args, 25, 31)
  BY OpcodeFree, Funct3Free, Funct7Free, RdFree DEF Clear
<1>6. e \in ByPrecision(args, T)
  BY DEF FloatAlu
<1> HIDE DEF args, T, names
<1>7. PICK t \in T, p \in Precisions : e.name = <<t[1], p>> /\ FloatOf(w, e, t[2], t[3], p, args)
  BY <1>1, <1>5, <1>6, ByPrecisionDecoded
<1>8. e.args = args /\ NoMarks(e) /\ funct5(w) = t[2]
  BY <1>5, <1>7 DEF FloatOf
<1>9. FpCompute(w) = <<t[1]>>
  BY <1>2, <1>8 DEF FpCompute
<1>10. rv_inst_opcode(w, isa) = <<t[1], p>>
  BY <1>1, <1>2, <1>7, <1>9, Computed
<1>11. InRow(e.name, "r_m", fmt_rm_frd_frs1_frs2)
  BY <1>3, <1>4, <1>7, RowOfName
<1> QED
  BY <1>7, <1>8, <1>10, <1>11 DEF Decodes, args

LEMMA FloatSignsDecoded ==
  ASSUME NEW w, NEW isa, NEW marks, NEW v, NEW e \in FloatSigns, Carries(w, e, marks, v)
  PROVE  /\ e.args = <<Fd, Fs1, Fs2>> /\ NoMarks(e)
         /\ Decodes(w, isa, e, "r", fmt_frd_frs1_frs2)
<1> DEFINE args == <<Fd, Fs1, Fs2>>
           T == {<<"fsgnj", 4, 0>>, <<"fsgnjn", 4, 1>>, <<"fsgnjx", 4, 2>>, <<"fmin", 5, 0>>,
                  <<"fmax", 5, 1>>}
           names == Dot({"fsgnj", "fsgnjn", "fsgnjx", "fmin", "fmax"}, Precisions)
<1>1. \A t \in T : t[2] \in 0 .. 31 /\ t[3] \in 0 .. 7 /\ t[2] \in {0, 1, 2, 3, 4, 5, 11, 20}
  OBVIOUS
<1>2. \A t \in T : <<t[1]>> # op_illegal /\ ((t[2] = 4 /\ Case(<<"fsgnj", "fsgnjn", "fsgnjx">>, t[3]) = <<t[1]>>) \/ (t[2] = 5 /\ Case(<<"fmin", "fmax">>, t[3]) = <<t[1]>>))
  BY DEF Case, op_illegal
<1>3. \A t \in T, p \in Precisions : <<t[1], p>> \in names
  BY DEF Dot
<1>4. Row("r", fmt_frd_frs1_frs2, names) \in Rows
  BY DEF Rows, FloatRows
<1>5. Clear(args, 0, 6) /\ Clear(args, 25, 31) /\ Clear(args, 12, 14)
  BY OpcodeFree, Funct3Free, Funct7Free, RdFree DEF Clear
<1>6. e \in ByPrecision(args, T)
  BY DEF FloatSigns
<1> HIDE DEF args, T, names
<1>7. PICK t \in T, p \in Precisions : e.name = <<t[1], p>> /\ FloatOf(w, e, t[2], t[3], p, args)
  BY <1>1, <1>5, <1>6, ByPrecisionDecoded
<1>8. e.args = args /\ NoMarks(e) /\ funct5(w) = t[2] /\ funct3(w) = t[3]
  BY <1>5, <1>7 DEF FloatOf
<1>9. FpCompute(w) = <<t[1]>>
  BY <1>2, <1>8 DEF FpCompute
<1>10. rv_inst_opcode(w, isa) = <<t[1], p>>
  BY <1>1, <1>2, <1>7, <1>9, Computed
<1>11. InRow(e.name, "r", fmt_frd_frs1_frs2)
  BY <1>3, <1>4, <1>7, RowOfName
<1> QED
  BY <1>7, <1>8, <1>10, <1>11 DEF Decodes, args

LEMMA FloatComparesDecoded ==
  ASSUME NEW w, NEW isa, NEW marks, NEW v, NEW e \in FloatCompares, Carries(w, e, marks, v)
  PROVE  /\ e.args = <<Rd, Fs1, Fs2>> /\ NoMarks(e)
         /\ Decodes(w, isa, e, "r", fmt_rd_frs1_frs2)
<1> DEFINE args == <<Rd, Fs1, Fs2>>
           T == {<<"fle", 20, 0>>, <<"flt", 20, 1>>, <<"feq", 20, 2>>}
           names == Dot({"fle", "flt", "feq"}, Precisions)
<1>1. \A t \in T : t[2] \in 0 .. 31 /\ t[3] \in 0 .. 7 /\ t[2] \in {0, 1, 2, 3, 4, 5, 11, 20}
  OBVIOUS
<1>2. \A t \in T : <<t[1]>> # op_illegal /\ t[2] = 20 /\ Case(<<"fle", "flt", "feq">>, t[3]) = <<t[1]>>
  BY DEF Case, op_illegal
<1>3. \A t \in T, p \in Precisions : <<t[1], p>> \in names
  BY DEF Dot
<1>4. Row("r", fmt_rd_frs1_frs2, names) \in Rows
  BY DEF Rows, FloatRows
<1>5. Clear(args, 0, 6) /\ Clear(args, 25, 31) /\ Clear(args, 12, 14)
  BY OpcodeFree, Funct3Free, Funct7Free, RdFree DEF Clear
<1>6. e \in ByPrecision(args, T)
  BY DEF FloatCompares
<1> HIDE DEF args, T, names
<1>7. PICK t \in T, p \in Precisions : e.name = <<t[1], p>> /\ FloatOf(w, e, t[2], t[3], p, args)
  BY <1>1, <1>5, <1>6, ByPrecisionDecoded
<1>8. e.args = args /\ NoMarks(e) /\ funct5(w) = t[2] /\ funct3(w) = t[3]
  BY <1>5, <1>7 DEF FloatOf
<1>9. FpCompute(w) = <<t[1]>>
  BY <1>2, <1>8 DEF FpCompute
<1>10. rv_inst_opcode(w, isa) = <<t[1], p>>
  BY <1>1, <1>2, <1>7, <1>9, Computed
<1>11. InRow(e.name, "r", fmt_rd_frs1_frs2)
  BY <1>3, <1>4, <1>7, RowOfName
<1> QED
  BY <1>7, <1>8, <1>10, <1>11 DEF Decodes, args

LEMMA FloatRootsDecoded ==
  ASSUME NEW w, NEW isa, NEW marks, NEW v, NEW e \in FloatRoots, Carries(w, e, marks, v)
  PROVE  /\ e.args = <<Rm, Fd, Fs1>> /\ NoMarks(e)
         /\ Decodes(w, isa, e, "r_m", fmt_rm_frd_frs1)
<1> DEFINE args == <<Rm, Fd, Fs1>>
           T == {<<"fsqrt", 11, 0>>}
           names == Dot({"fsqrt"}, Precisions) \cup {op \in Dots({"fcvt"}, Precisions,
                    Precisions) : op[2] # op[3]}
<1>1. \A t \in T : t[2] \in 0 .. 31 /\ t[3] \in 0 .. 7 /\ t[2] \in {0, 1, 2, 3, 4, 5, 11, 20}
  OBVIOUS
<1>2. \A t \in T : <<t[1]>> # op_illegal /\ t[2] = 11 /\ t[1] = "fsqrt"
  BY DEF Case, op_illegal
<1>3. \A t \in T, p \in Precisions : <<t[1], p>> \in names
  BY DEF Dot
<1>4. Row("r_m", fmt_rm_frd_frs1, names) \in Rows
  BY DEF Rows, FloatRows
<1>5. Clear(args, 0, 6) /\ Clear(args, 25, 31) /\ Clear(args, 20, 20 + 4)
  BY OpcodeFree, Funct3Free, Funct7Free, RdFree DEF Clear
<1>6. e \in ByPrecision(args, T)
  BY DEF FloatRoots
<1> HIDE DEF args, T, names
<1>7. PICK t \in T, p \in Precisions : e.name = <<t[1], p>> /\ FloatOf(w, e, t[2], t[3], p, args)
  BY <1>1, <1>5, <1>6, ByPrecisionDecoded
<1>8. e.args = args /\ NoMarks(e) /\ funct5(w) = t[2] /\ Bits(w, 20, 5) = 0
  BY <1>5, <1>7 DEF FloatOf, operand_rs2
<1>9. FpCompute(w) = <<t[1]>>
  BY <1>2, <1>8 DEF FpCompute, When
<1>10. rv_inst_opcode(w, isa) = <<t[1], p>>
  BY <1>1, <1>2, <1>7, <1>9, Computed
<1>11. InRow(e.name, "r_m", fmt_rm_frd_frs1)
  BY <1>3, <1>4, <1>7, RowOfName
<1> QED
  BY <1>7, <1>8, <1>10, <1>11 DEF Decodes, args

LEMMA FloatClassesDecoded ==
  ASSUME NEW w, NEW isa, NEW marks, NEW v, NEW e \in FloatClasses, Carries(w, e, marks, v)
  PROVE  /\ e.args = <<Rd, Fs1>> /\ NoMarks(e)
         /\ Decodes(w, isa, e, "r", fmt_rd_frs1)
<1> DEFINE args == <<Rd, Fs1>>
           T == {<<"fclass", 28, 1>>}
           names == Dot({"fclass"}, Precisions) \cup Dots({"fmv"}, {"x"}, Precisions)
<1>1. \A t \in T : t[2] \in 0 .. 31 /\ t[3] \in 0 .. 7 /\ t = <<"fclass", 28, 1>>
  OBVIOUS
<1>2. \A p \in Precisions : <<"fclass", p>> \in names
  BY DEF Dot
<1>3. Row("r", fmt_rd_frs1, names) \in Rows
  BY DEF Rows, FloatRows
<1>4. Clear(args, 0, 6) /\ Clear(args, 25, 31) /\ Clear(args, 12, 14) /\ Clear(args, 20, 20 + 4)
  BY OpcodeFree, Funct3Free, Funct7Free, RdFree DEF Clear
<1>5. e \in ByPrecision(args, T)
  BY DEF FloatClasses
<1> HIDE DEF args, T, names
<1>6. PICK t \in T, p \in Precisions : e.name = <<t[1], p>> /\ FloatOf(w, e, t[2], t[3], p, args)
  BY <1>1, <1>4, <1>5, ByPrecisionDecoded
<1>7. e.name = <<"fclass", p>> /\ FloatOf(w, e, 28, 1, p, args)
  BY <1>1, <1>6
<1>8. /\ e.args = args /\ NoMarks(e) /\ w % 4 = 3 /\ Bits(w, 2, 5) = 20
      /\ funct5(w) = 28 /\ funct3(w) = 1 /\ Bits(w, 20, 5) = 0
      /\ Precision(Bits(w, 25, 2)) = <<p>> /\ <<p>> # op_illegal
  BY <1>4, <1>7 DEF FloatOf, operand_rs2
<1>9. FpMove(w) = <<"fclass">> /\ <<"fclass">> # op_illegal
  BY <1>8 DEF FpMove, When, Case, op_illegal
<1>10. OpFp(w) = When(op_illegal \notin {FpMove(w), Precision(Bits(w, 25, 2))},
                      FpMove(w) \o Precision(Bits(w, 25, 2)))
  BY <1>8 DEF OpFp
<1>11. OpFp(w) = <<"fclass">> \o <<p>>
  BY <1>8, <1>9, <1>10 DEF When
<1>12. rv_inst_opcode(w, isa) = <<"fclass", p>>
  BY <1>8, <1>11, FloatOpcode, Joined
<1>13. InRow(e.name, "r", fmt_rd_frs1)
  BY <1>2, <1>3, <1>7, RowOfName
<1> QED
  BY <1>7, <1>8, <1>12, <1>13 DEF Decodes, args

LEMMA FloatToIntMoveDecoded ==
  ASSUME NEW w, NEW isa, NEW marks, NEW v, NEW e, Carries(w, e, marks, v), NEW q \in FloatFormats,
         e = Insn(<<"fmv", "x", q[1]>>, FCode(28, q, 0), <<Rd, Fs1>>)
  PROVE  /\ e.args = <<Rd, Fs1>> /\ NoMarks(e)
         /\ Decodes(w, isa, e, "r", fmt_rd_frs1)
<1> DEFINE args == <<Rd, Fs1>>
           names == Dot({"fclass"}, Precisions) \cup Dots({"fmv"}, {"x"}, Precisions)
           p == q[1]
           name == <<"fmv", "x", q[1]>>
<1>1. p \in Precisions
  BY FloatFormatsOf
<1>2. name \in names
  BY <1>1 DEF Dots
<1>3. Row("r", fmt_rd_frs1, names) \in Rows
  BY DEF Rows, FloatRows
<1>4. Clear(args, 0, 6) /\ Clear(args, 25, 31) /\ Clear(args, 12, 14) /\ Clear(args, 20, 20 + 4)
  BY OpcodeFree, Funct3Free, Funct7Free, RdFree DEF Clear
<1>5. IsFloat(e, name, 28, 0, q, args)
  BY DEF IsFloat
<1> HIDE DEF args, names, name
<1>6. e.name = name /\ FloatOf(w, e, 28, 0, p, args)
  BY <1>4, <1>5, FCodeFields
<1> HIDE DEF p
<1>7. /\ e.args = args /\ NoMarks(e) /\ w % 4 = 3 /\ Bits(w, 2, 5) = 20
      /\ funct5(w) = 28 /\ funct3(w) = 0 /\ Bits(w, 20, 5) = 0
      /\ Precision(Bits(w, 25, 2)) = <<p>> /\ <<p>> # op_illegal
  BY <1>4, <1>6 DEF FloatOf, operand_rs2
<1>8. FpMove(w) = <<"fmv">> /\ <<"fmv">> # op_illegal
  BY <1>7 DEF FpMove, When, Case, op_illegal
<1>9. OpFp(w) = When(op_illegal \notin {FpMove(w), Precision(Bits(w, 25, 2))},
                     FpMove(w) \o <<"x">> \o Precision(Bits(w, 25, 2)))
  BY <1>7 DEF OpFp
<1>10. OpFp(w) = <<"fmv">> \o <<"x">> \o <<p>>
  BY <1>7, <1>8, <1>9 DEF When
<1>11. rv_inst_opcode(w, isa) = name
  BY <1>7, <1>10, FloatOpcode, Joined DEF name, p
<1>12. InRow(e.name, "r", fmt_rd_frs1)
  BY <1>2, <1>3, <1>6, RowOfName DEF name
<1> QED
  BY <1>6, <1>7, <1>11, <1>12 DEF Decodes, args

LEMMA IntToFloatMoveDecoded ==
  ASSUME NEW w, NEW isa, NEW marks, NEW v, NEW e, Carries(w, e, marks, v), NEW q \in FloatFormats,
         e = Insn(<<"fmv", q[1], "x">>, FCode(30, q, 0), <<Fd, Rs1>>)
  PROVE  /\ e.args = <<Fd, Rs1>> /\ NoMarks(e)
         /\ Decodes(w, isa, e, "r", fmt_frd_rs1)
<1> DEFINE args == <<Fd, Rs1>>
           names == Dots({"fmv"}, Precisions, {"x"})
           p == q[1]
           name == <<"fmv", q[1], "x">>
<1>1. p \in Precisions
  BY FloatFormatsOf
<1>2. name \in names
  BY <1>1 DEF Dots
<1>3. Row("r", fmt_frd_rs1, names) \in Rows
  BY DEF Rows, FloatRows
<1>4. Clear(args, 0, 6) /\ Clear(args, 25, 31) /\ Clear(args, 12, 14) /\ Clear(args, 20, 20 + 4)
  BY OpcodeFree, Funct3Free, Funct7Free, RdFree DEF Clear
<1>5. IsFloat(e, name, 30, 0, q, args)
  BY DEF IsFloat
<1> HIDE DEF args, names, name
<1>6. e.name = name /\ FloatOf(w, e, 30, 0, p, args)
  BY <1>4, <1>5, FCodeFields
<1> HIDE DEF p
<1>7. /\ e.args = args /\ NoMarks(e) /\ w % 4 = 3 /\ Bits(w, 2, 5) = 20
      /\ funct5(w) = 30 /\ funct3(w) = 0 /\ Bits(w, 20, 5) = 0
      /\ Precision(Bits(w, 25, 2)) = <<p>> /\ <<p>> # op_illegal
  BY <1>4, <1>6 DEF FloatOf, operand_rs2
<1>8. FpMove(w) = <<"fmv">> /\ <<"fmv">> # op_illegal
  BY <1>7 DEF FpMove, When, Case, op_illegal
<1>9. OpFp(w) = When(op_illegal \notin {FpMove(w), Precision(Bits(w, 25, 2))},
                     FpMove(w) \o Precision(Bits(w, 25, 2)) \o <<"x">>)
  BY <1>7 DEF OpFp
<1>10. OpFp(w) = <<"fmv">> \o <<p>> \o <<"x">>
  BY <1>7, <1>8, <1>9 DEF When
<1>11. rv_inst_opcode(w, isa) = name
  BY <1>7, <1>10, FloatOpcode, Joined DEF name, p
<1>12. InRow(e.name, "r", fmt_frd_rs1)
  BY <1>2, <1>3, <1>6, RowOfName DEF name
<1> QED
  BY <1>6, <1>7, <1>11, <1>12 DEF Decodes, args

LEMMA FusedFloatsDecoded ==
  ASSUME NEW w, NEW isa, NEW marks, NEW v, NEW e \in FusedFloats, Carries(w, e, marks, v)
  PROVE  /\ e.args = <<Rm, Fd, Fs1, Fs2, Fs3>> /\ NoMarks(e)
         /\ Decodes(w, isa, e, "r4_m", fmt_rm_frd_frs1_frs2_frs3)
<1>1. PICK t \in FusedNames, q \in FloatFormats :
        e = Insn(<<t[1], q[1]>>, Code(t[2], 0, q[2]), <<Rm, Fd, Fs1, Fs2, Fs3>>)
  BY DEF FusedFloats
<1> DEFINE args == <<Rm, Fd, Fs1, Fs2, Fs3>>
           names == Dot({"fmadd", "fmsub", "fnmsub", "fnmadd"}, Precisions)
<1>5. t[2] \in 0 .. 31 /\ <<t[1], t[2]>> \in FusedNames
  BY DEF FusedNames
<1>p. e = Insn(<<t[1], q[1]>>, Code(t[2], 0, q[2]), args)
  BY <1>1
<1>2. \A p \in Precisions : <<t[1], p>> \in names
  BY DEF Dot, FusedNames
<1>3. Row("r4_m", fmt_rm_frd_frs1_frs2_frs3, names) \in Rows
  BY DEF Rows, FloatRows
<1>4. Clear(args, 0, 6) /\ Clear(args, 25, 26)
  <2>1. Off(Span(Fs3.layout), 25, 26)
    BY WideSpans DEF Off
  <2>2. \A o : Off(o, 25, 31) => Off(o, 25, 26)
    BY DEF Off
  <2> QED
    BY <2>1, <2>2, OpcodeFree, Funct7Free DEF Clear
<1> HIDE DEF args, names
<1>6. q[2] \in {0, 1, 3} /\ Precision(q[2]) = <<q[1]>> /\ q[1] \in Precisions /\ <<q[1]>> # op_illegal
  BY FloatFormatsOf
<1>7. IsInsn(e, <<t[1], q[1]>>, t[2], 0, q[2], args)
  <2>1. t[2] \in 0 .. 31 /\ q[2] \in Nat /\ q[2] < 128 /\ 0 \in 0 .. 7
    BY <1>5, <1>6
  <2> QED
    BY <1>p, <2>1 DEF IsInsn, Insn, NoMarks
<1>8. e.args = args /\ NoMarks(e) /\ e.name = <<t[1], q[1]>>
  BY <1>7 DEF IsInsn, NoMarks
<1>9. w % 4 = 3 /\ Bits(w, 2, 5) = t[2] /\ Bits(w, 25, 2) = q[2] % 4
  BY <1>4, <1>7, InsnFields
<1>10. Precision(Bits(w, 25, 2)) = <<q[1]>>
  BY <1>6, <1>9
<1>11. \A n : Fused(n, w) = <<n>> \o <<q[1]>>
  BY <1>6, <1>10 DEF Fused, When
<1>12. rv_inst_opcode(w, isa) = Fused(t[1], w)
  BY <1>5, <1>9 DEF rv_inst_opcode, Quadrant3, FusedNames
<1>13. rv_inst_opcode(w, isa) = <<t[1], q[1]>>
  BY <1>11, <1>12, Joined
<1>14. InRow(e.name, "r4_m", fmt_rm_frd_frs1_frs2_frs3)
  BY <1>2, <1>3, <1>6, <1>8, RowOfName
<1> QED
  BY <1>8, <1>13, <1>14 DEF Decodes, args

-----------------------------------------------------------------------------
(* Conversions: the operand's format is in the place of rs2.               *)
Converts(e, name, f5, p, k, args) ==
  /\ f5 \in {8, 24, 26} /\ p \in FloatFormats /\ k \in 0 .. 3
  /\ e = Insn(name, FCode(f5, p, 0) \cup Field(20, 5, k), args)
  /\ Clear(args, 0, 6) /\ Clear(args, 20, 24) /\ Clear(args, 25, 31)

FormatOf(w, f5, p, k) ==
  /\ w % 4 = 3 /\ Bits(w, 2, 5) = 20 /\ funct5(w) = f5 /\ Bits(w, 20, 5) = k
  /\ Precision(Bits(w, 25, 2)) = <<p>> /\ p \in Precisions /\ <<p>> # op_illegal

(* Here the bits of funct7 end before the field and those of the field     *)
(* before funct7.                                                          *)
LEMMA FormatBits ==
  ASSUME NEW opcode, NEW f7, NEW k
  PROVE  Number(Code(opcode, 0, f7) \cup Field(20, 5, k), 20, 5, k)
<1> DEFINE ones == Code(opcode, 0, f7) \cup Field(20, 5, k)
<1>1. ASSUME NEW i \in 20 .. 20 + 5 - 1
      PROVE  i \in ones <=> BitOf(k, i - 20) = 1
  <2>1. i \in Nat /\ 20 <= i /\ i < 20 + 5
    BY <1>1
  <2>2. i \in Field(20, 5, k) <=> BitOf(k, i - 20) = 1
    BY <2>1, InField
  <2>3. i \notin Code(opcode, 0, f7)
    BY <2>1, InCode
  <2> QED
    BY <2>2, <2>3
<1> HIDE DEF ones
<1>2. Number(ones, 20, 5, k)
  BY <1>1 DEF Number
<1> QED
  BY <1>2 DEF ones

LEMMA ConversionFields ==
  ASSUME NEW w, NEW e, NEW marks, NEW v, Carries(w, e, marks, v), NEW name, NEW args,
         NEW f5, NEW p, NEW k, Converts(e, name, f5, p, k, args)
  PROVE  e.name = name /\ e.args = args /\ NoMarks(e) /\ FormatOf(w, f5, p[1], k)
<1> DEFINE f7 == f5 * 4 + p[2]
           P == Places(e.args)
           R == Field(20, 5, k)
           S == P \cup R
           ones == Code(20, 0, f7) \cup R
<1>0. f5 \in {8, 24, 26} /\ p \in FloatFormats /\ k \in 0 .. 3
  BY DEF Converts
<1>1. f7 \in Nat /\ f7 < 128 /\ f7 \div 4 = f5 /\ f7 % 4 = p[2]
  BY <1>0, FloatFormatsOf
<1>2. FCode(f5, p, 0) = Code(20, 0, f7)
  BY DEF FCode
<1> HIDE DEF f7
<1>3. e.name = name /\ e.args = args /\ NoMarks(e) /\ e.fixed = Code(20, 0, f7) \cup R
  BY <1>2 DEF Converts, Insn, NoMarks
<1>4. MarkBits(marks) = {}
  BY <1>3, Unmarked
<1>5. w \in Word /\ Unplaced(w, P, ones)
  BY <1>3, <1>4 DEF Carries, Exactly, Places, Unplaced
<1>6. Off(P, 0, 6) /\ Off(P, 20, 24) /\ Off(P, 25, 31)
  BY <1>3, ClearPlaces DEF Converts
<1>7. Off(R, 0, 6) /\ Off(R, 25, 31)
  BY NumberOff
<1>8. Off(S, 0, 6) /\ Off(S, 25, 31)
  BY <1>6, <1>7, OffBoth
<1>9. Number(ones, 20, 5, k)
  BY FormatBits
<1>10. S = Places(e.args) \cup R \cup MarkBits(marks)
  BY <1>4
<1> HIDE DEF P, R, S, ones
<1>11. FieldsFixed(w, S, 20, 0, f7)
  <2>1. 20 \in 0 .. 31 /\ 0 \in 0 .. 7
    OBVIOUS
  <2> QED
    BY <1>1, <1>3, <1>10, <2>1, CodeFields
<1>12. Off(S, 27, 31) /\ Off(S, 25, 26)
  BY <1>8 DEF Off
<1>13. w % 4 = 3 /\ Bits(w, 2, 5) = 20 /\ funct5(w) = f5 /\ Bits(w, 25, 2) = p[2]
  BY <1>1, <1>8, <1>11, <1>12 DEF FieldsFixed
<1>14. Bits(w, 20, 5) = k
  <2>1. 24 \in 20 .. 31 /\ 24 = 20 + 5 - 1 /\ k \in Nat /\ k < 4096 /\ 5 \in 1 .. 20
    BY <1>0
  <2>2. Off(P, 20, 24)
    BY <1>6
  <2>3. \A hi \in 20 .. 31, x \in Nat :
          hi = 20 + 5 - 1 /\ x < 4096 /\ Off(P, 20, hi) /\ Number(ones, 20, 5, x)
            => Bits(w, 20, 5) = Bits(x, 0, 5)
    BY <1>5, NumberField
  <2>4. Bits(w, 20, 5) = Bits(k, 0, 5)
    BY <1>9, <2>1, <2>2, <2>3
  <2>5. Bits(k, 0, 5) = k
    BY <1>0 DEF Bits
  <2> QED
    BY <2>4, <2>5
<1> QED
  BY <1>0, <1>3, <1>13, <1>14, FloatFormatsOf DEF FormatOf

LEMMA Rs2Free ==
  /\ Off(Span(Rd.layout), 20, 24) /\ Off(Span(Rs1.layout), 20, 24)
  /\ Off(Span(Fd.layout), 20, 24) /\ Off(Span(Fs1.layout), 20, 24) /\ Off(Span(Rm.layout), 20, 24)
BY WideSpans DEF Off

LEMMA IntWidthsOf ==
  ASSUME NEW i \in IntWidths
  PROVE  /\ i[2] \in 0 .. 3 /\ i[1] \in IntFormats /\ <<i[1]>> # op_illegal
         /\ Case(<<"w", "wu", "l", "lu">>, i[2]) = <<i[1]>>
BY DEF IntWidths, IntFormats, Case, op_illegal

LEMMA FloatToFloatDecoded ==
  ASSUME NEW w, NEW isa, NEW marks, NEW v, NEW e \in FloatToFloat, Carries(w, e, marks, v)
  PROVE  /\ e.args = <<Rm, Fd, Fs1>> /\ NoMarks(e)
         /\ Decodes(w, isa, e, "r_m", fmt_rm_frd_frs1)
<1>1. PICK pq \in {x \in FloatFormats \X FloatFormats : x[1] # x[2]} :
        e = Conversion(pq[1][1], pq[2][1], 8, pq[1], pq[2][2], <<Rm, Fd, Fs1>>)
  BY Zenon DEF FloatToFloat
<1> DEFINE args == <<Rm, Fd, Fs1>>
           names == Dot({"fsqrt"}, Precisions) \cup {op \in Dots({"fcvt"}, Precisions, Precisions) : op[2] # op[3]}
           p == pq[1]
           q == pq[2]
           name == <<"fcvt", p[1], q[1]>>
<1>2. p \in FloatFormats /\ q \in FloatFormats /\ p[1] # q[1]
  BY <1>1 DEF FloatFormats
<1>3. Row("r_m", fmt_rm_frd_frs1, names) \in Rows
  BY DEF Rows, FloatRows
<1>4. Clear(args, 0, 6) /\ Clear(args, 20, 24) /\ Clear(args, 25, 31)
  BY OpcodeFree, Funct7Free, Rs2Free DEF Clear
<1>5. e = Insn(name, FCode(8, p, 0) \cup Field(20, 5, q[2]), args)
  BY <1>1 DEF Conversion
<1> HIDE DEF p, q
<1>6. /\ q[2] \in 0 .. 3 /\ Precision(q[2]) = <<q[1]>> /\ <<q[1]>> # op_illegal /\ q[1] \in Precisions
      /\ p[1] \in Precisions
  <2>1. q[2] \in {0, 1, 3} /\ Precision(q[2]) = <<q[1]>> /\ q[1] \in Precisions /\ <<q[1]>> # op_illegal
    BY <1>2, FloatFormatsOf
  <2>2. p[1] \in Precisions
    BY <1>2, FloatFormatsOf
  <2> QED
    BY <2>1, <2>2
<1>7. name \in names
  BY <1>2, <1>6 DEF Dots
<1> HIDE DEF args, names, name
<1>8. Converts(e, name, 8, p, q[2], args)
  BY <1>2, <1>4, <1>5, <1>6 DEF Converts
<1>9. e.name = name /\ e.args = args /\ NoMarks(e) /\ FormatOf(w, 8, p[1], q[2])
  BY <1>8, ConversionFields
<1>10. /\ w % 4 = 3 /\ Bits(w, 2, 5) = 20 /\ funct5(w) = 8 /\ Bits(w, 20, 5) = q[2]
       /\ Precision(Bits(w, 25, 2)) = <<p[1]>> /\ <<p[1]>> # op_illegal
  BY <1>9 DEF FormatOf
<1>11. Precision(Bits(w, 20, 5)) = <<q[1]>>
  BY <1>6, <1>10
<1>12. FpCompute(w) = <<"fcvt">> /\ <<"fcvt">> # op_illegal
  <2>1. <<q[1]>> # <<p[1]>>
    BY <1>2
  <2> QED
    BY <1>10, <1>11, <2>1 DEF FpCompute, When, op_illegal
<1>13. OpFp(w) = When(op_illegal \notin {FpCompute(w), Precision(Bits(w, 25, 2)), Precision(Bits(w, 20, 5))},
                      FpCompute(w) \o Precision(Bits(w, 25, 2)) \o Precision(Bits(w, 20, 5)))
  BY <1>10 DEF OpFp
<1>14. OpFp(w) = <<"fcvt">> \o <<p[1]>> \o <<q[1]>>
  BY <1>6, <1>10, <1>11, <1>12, <1>13 DEF When
<1>15. rv_inst_opcode(w, isa) = name
  BY <1>10, <1>14, FloatOpcode, Joined DEF name
<1>16. InRow(name, "r_m", fmt_rm_frd_frs1)
  BY <1>3, <1>7, RowOfName DEF name
<1> QED
  BY <1>9, <1>15, <1>16 DEF Decodes, args

LEMMA FloatToIntDecoded ==
  ASSUME NEW w, NEW isa, NEW marks, NEW v, NEW e \in FloatToInt, Carries(w, e, marks, v)
  PROVE  /\ e.args = <<Rm, Rd, Fs1>> /\ NoMarks(e)
         /\ Decodes(w, isa, e, "r_m", fmt_rm_rd_frs1)
<1>1. PICK i \in IntWidths, p \in FloatFormats :
        e = Conversion(i[1], p[1], 24, p, i[2], <<Rm, Rd, Fs1>>)
  BY DEF FloatToInt
<1> DEFINE args == <<Rm, Rd, Fs1>>
           names == Dots({"fcvt"}, IntFormats, Precisions)
           name == <<"fcvt", i[1], p[1]>>
<1>3. Row("r_m", fmt_rm_rd_frs1, names) \in Rows
  BY DEF Rows, FloatRows
<1>4. Clear(args, 0, 6) /\ Clear(args, 20, 24) /\ Clear(args, 25, 31)
  BY OpcodeFree, Funct7Free, Rs2Free DEF Clear
<1>5. e = Insn(name, FCode(24, p, 0) \cup Field(20, 5, i[2]), args)
  BY <1>1 DEF Conversion
<1>6. /\ i[2] \in 0 .. 3 /\ Case(<<"w", "wu", "l", "lu">>, i[2]) = <<i[1]>> /\ <<i[1]>> # op_illegal
      /\ i[1] \in IntFormats /\ p[1] \in Precisions
  <2>1. p[1] \in Precisions
    BY FloatFormatsOf
  <2> QED
    BY <2>1, IntWidthsOf
<1>7. name \in names
  BY <1>6 DEF Dots
<1> HIDE DEF args, names, name
<1>8. Converts(e, name, 24, p, i[2], args)
  BY <1>4, <1>5, <1>6 DEF Converts
<1>9. e.name = name /\ e.args = args /\ NoMarks(e) /\ FormatOf(w, 24, p[1], i[2])
  BY <1>8, ConversionFields
<1>10. /\ w % 4 = 3 /\ Bits(w, 2, 5) = 20 /\ funct5(w) = 24 /\ Bits(w, 20, 5) = i[2]
       /\ Precision(Bits(w, 25, 2)) = <<p[1]>> /\ <<p[1]>> # op_illegal
  BY <1>9 DEF FormatOf
<1>11. IntFormat(w) = <<i[1]>>
  BY <1>6, <1>10 DEF IntFormat
<1>13. OpFp(w) = When(op_illegal \notin {IntFormat(w), Precision(Bits(w, 25, 2))},
                      <<"fcvt">> \o IntFormat(w) \o Precision(Bits(w, 25, 2)))
  BY <1>10 DEF OpFp
<1>14. OpFp(w) = <<"fcvt">> \o <<i[1]>> \o <<p[1]>>
  BY <1>6, <1>10, <1>11, <1>13 DEF When
<1>15. rv_inst_opcode(w, isa) = name
  BY <1>10, <1>14, FloatOpcode, Joined DEF name
<1>16. InRow(name, "r_m", fmt_rm_rd_frs1)
  BY <1>3, <1>7, RowOfName DEF name
<1> QED
  BY <1>9, <1>15, <1>16 DEF Decodes, args

LEMMA IntToFloatDecoded ==
  ASSUME NEW w, NEW isa, NEW marks, NEW v, NEW e \in IntToFloat, Carries(w, e, marks, v)
  PROVE  /\ e.args = <<Rm, Fd, Rs1>> /\ NoMarks(e)
         /\ Decodes(w, isa, e, "r_m", fmt_rm_frd_rs1)
<1>1. PICK i \in IntWidths, p \in FloatFormats :
        e = Conversion(p[1], i[1], 26, p, i[2], <<Rm, Fd, Rs1>>)
  BY DEF IntToFloat
<1> DEFINE args == <<Rm, Fd, Rs1>>
           names == Dots({"fcvt"}, Precisions, IntFormats)
           name == <<"fcvt", p[1], i[1]>>
<1>3. Row("r_m", fmt_rm_frd_rs1, names) \in Rows
  BY DEF Rows, FloatRows
<1>4. Clear(args, 0, 6) /\ Clear(args, 20, 24) /\ Clear(args, 25, 31)
  BY OpcodeFree, Funct7Free, Rs2Free DEF Clear
<1>5. e = Insn(name, FCode(26, p, 0) \cup Field(20, 5, i[2]), args)
  BY <1>1 DEF Conversion
<1>6. /\ i[2] \in 0 .. 3 /\ Case(<<"w", "wu", "l", "lu">>, i[2]) = <<i[1]>> /\ <<i[1]>> # op_illegal
      /\ i[1] \in IntFormats /\ p[1] \in Precisions
  <2>1. p[1] \in Precisions
    BY FloatFormatsOf
  <2> QED
    BY <2>1, IntWidthsOf
<1>7. name \in names
  BY <1>6 DEF Dots
<1> HIDE DEF args, names, name
<1>8. Converts(e, name, 26, p, i[2], args)
  BY <1>4, <1>5, <1>6 DEF Converts
<1>9. e.name = name /\ e.args = args /\ NoMarks(e) /\ FormatOf(w, 26, p[1], i[2])
  BY <1>8, ConversionFields
<1>10. /\ w % 4 = 3 /\ Bits(w, 2, 5) = 20 /\ funct5(w) = 26 /\ Bits(w, 20, 5) = i[2]
       /\ Precision(Bits(w, 25, 2)) = <<p[1]>> /\ <<p[1]>> # op_illegal
  BY <1>9 DEF FormatOf
<1>11. IntFormat(w) = <<i[1]>>
  BY <1>6, <1>10 DEF IntFormat
<1>13. OpFp(w) = When(op_illegal \notin {IntFormat(w), Precision(Bits(w, 25, 2))},
                      <<"fcvt">> \o Precision(Bits(w, 25, 2)) \o IntFormat(w))
  BY <1>10 DEF OpFp
<1>14. OpFp(w) = <<"fcvt">> \o <<p[1]>> \o <<i[1]>>
  BY <1>6, <1>10, <1>11, <1>13 DEF When
<1>15. rv_inst_opcode(w, isa) = name
  BY <1>10, <1>14, FloatOpcode, Joined DEF name
<1>16. InRow(name, "r_m", fmt_rm_frd_rs1)
  BY <1>3, <1>7, RowOfName DEF name
<1> QED
  BY <1>9, <1>15, <1>16 DEF Decodes, args

-----------------------------------------------------------------------------
(* Atomic instructions: .aq and .rl are the lowest bits of funct7.         *)
IsAtomic(e, name, width, f5, args) ==
  /\ f5 \in 0 .. 31 /\ width \in AtomicWidths /\ e = Marked(name, width, f5, args)
  /\ Clear(args, 0, 6) /\ Clear(args, 12, 14) /\ Clear(args, 25, 31)

Marking(w, marks) ==
  /\ operand_aq(w) = IF "aq" \in marks THEN 1 ELSE 0
  /\ operand_rl(w) = IF "rl" \in marks THEN 1 ELSE 0

AtomicOf(w, f5, f3, args) ==
  /\ w % 4 = 3 /\ Bits(w, 2, 5) = 11 /\ funct5(w) = f5 /\ funct3(w) = f3
  /\ Clear(args, 20, 20 + 4) => Bits(w, 20, 5) = 0

LEMMA AtomicWidthsOf ==
  ASSUME NEW width \in AtomicWidths
  PROVE  /\ width[2] \in 0 .. 7 /\ width[1] \in {"w", "d", "q"}
         /\ Case(<<"-", "-", "w", "d", "q">>, width[2]) = <<width[1]>>
         /\ <<width[1]>> # op_illegal
BY DEF AtomicWidths, Case, op_illegal

LEMMA NoLowBits ==
  ASSUME NEW f5 \in 0 .. 31
  PROVE  BitOf(f5 * 4, 0) = 0 /\ BitOf(f5 * 4, 1) = 0
<1>1. 2^0 = 1 /\ 2^1 = 2
  OBVIOUS
<1> QED
  BY <1>1 DEF BitOf

LEMMA AtomicFields ==
  ASSUME NEW w, NEW e, NEW marks, NEW v, Carries(w, e, marks, v), NEW name, NEW args,
         NEW f5, NEW width, IsAtomic(e, name, width, f5, args)
  PROVE  /\ e.name = <<name, width[1]>> /\ e.args = args
         /\ AtomicOf(w, f5, width[2], args) /\ Marking(w, marks)
<1> DEFINE f7 == f5 * 4
           P == Places(e.args)
           M == MarkBits(marks)
           S == P \cup {} \cup M
           code == Code(11, width[2], f7)
           ones == code \cup M
<1>0. f5 \in 0 .. 31 /\ width[2] \in 0 .. 7
  BY AtomicWidthsOf DEF IsAtomic
<1>1. f7 \in Nat /\ f7 < 128 /\ f7 \div 4 = f5 /\ BitOf(f7, 0) = 0 /\ BitOf(f7, 1) = 0
  BY <1>0, NoLowBits
<1>2. e.name = <<name, width[1]>> /\ e.args = args /\ e.fixed = code
  BY DEF IsAtomic, Marked, Insn
<1>3. e.fixed = code \cup {}
  BY <1>2
<1>4. w \in Word /\ Unplaced(w, P, ones)
  BY <1>2 DEF Carries, Exactly, Places, Unplaced
<1>5. M \subseteq {25, 26} /\ (26 \in M <=> "aq" \in marks) /\ (25 \in M <=> "rl" \in marks)
  BY DEF MarkBits
<1>6. 25 \notin code /\ 26 \notin code
  <2> HIDE DEF f7
  <2>1. 25 - 25 = 0 /\ 26 - 25 = 1
    OBVIOUS
  <2> QED
    BY <1>1, <2>1, InCode
<1>7. Off(P, 0, 6) /\ Off(P, 12, 14) /\ Off(P, 25, 31) /\ (Clear(args, 20, 20 + 4) => Off(P, 20, 20 + 4))
  BY <1>2, ClearPlaces DEF IsAtomic
<1>8. Off(M, 0, 6) /\ Off(M, 12, 14) /\ Off(M, 27, 31) /\ Off(M, 20, 20 + 4)
  BY <1>5 DEF Off
<1>9. Off(code, 20, 20 + 4)
  BY CodeOff
<1> HIDE DEF f7, P, M, code
<1>10. FieldsFixed(w, S, 11, width[2], f7)
  <2>1. 11 \in 0 .. 31 /\ S = Places(e.args) \cup {} \cup MarkBits(marks) /\ e.fixed = Code(11, width[2], f7) \cup {}
    BY <1>3 DEF P, M, code
  <2> QED
    BY <1>0, <1>1, <2>1, CodeFields
<1>11. Off(S, 0, 6) /\ Off(S, 12, 14) /\ Off(S, 27, 31)
  BY <1>7, <1>8 DEF Off
<1>12. w % 4 = 3 /\ Bits(w, 2, 5) = 11 /\ funct5(w) = f5 /\ funct3(w) = width[2]
  BY <1>1, <1>10, <1>11 DEF FieldsFixed
<1>13. ASSUME Clear(args, 20, 20 + 4)
       PROVE  Bits(w, 20, 5) = 0
  <2>1. Off(P, 20, 20 + 4) /\ Off(ones, 20, 20 + 4)
    BY <1>7, <1>8, <1>9, <1>13, OffBoth
  <2> QED
    BY <1>4, <2>1, ZeroField
<1>14. \A k \in {25, 26} : BitOf(w, k) = 1 <=> k \in M
  <2>1. \A k \in {25, 26} : k \notin P /\ k \notin code
    BY <1>6, <1>7 DEF Off
  <2> QED
    BY <1>4, <2>1 DEF Unplaced, BitsOf
<1>15. /\ BitOf(w, 25) = Bits(w, 25, 1) /\ Bits(w, 25, 1) \in 0 .. 1
       /\ BitOf(w, 26) = Bits(w, 26, 1) /\ Bits(w, 26, 1) \in 0 .. 1
  BY <1>4, WordBit
<1>16. Marking(w, marks)
  BY <1>5, <1>14, <1>15 DEF Marking, operand_aq, operand_rl
<1> QED
  BY <1>2, <1>12, <1>13, <1>16 DEF AtomicOf

LEMMA AtomicOpcode ==
  ASSUME NEW w, NEW isa, NEW f5, NEW width \in AtomicWidths, NEW args, NEW name,
         AtomicOf(w, f5, width[2], args),
         Case(<<"amoadd", "amoswap", "lr", "sc", "amoxor", "-", "-", "-",
                "amoor", "-", "-", "-", "amoand", "-", "-", "-",
                "amomin", "-", "-", "-", "amomax", "-", "-", "-",
                "amominu", "-", "-", "-", "amomaxu">>, f5) = <<name>>,
         <<name>> # op_illegal, <<name>> = <<"lr">> => Clear(args, 20, 20 + 4)
  PROVE  rv_inst_opcode(w, isa) = <<name, width[1]>>
<1>1. w % 4 = 3 /\ Bits(w, 2, 5) = 11 /\ funct5(w) = f5 /\ funct3(w) = width[2]
      /\ (<<name>> = <<"lr">> => Bits(w, 20, 5) = 0)
  BY DEF AtomicOf
<1>2. rv_inst_opcode(w, isa) = Amo(w)
  BY <1>1 DEF rv_inst_opcode, Quadrant3
<1>3. Case(<<"-", "-", "w", "d", "q">>, funct3(w)) = <<width[1]>> /\ <<width[1]>> # op_illegal
  BY <1>1, AtomicWidthsOf
<1>4. Amo(w) = <<name>> \o <<width[1]>>
  BY <1>1, <1>3 DEF Amo, When
<1> QED
  BY <1>2, <1>4, Joined

LEMMA AtomicNamesOf ==
  ASSUME NEW a \in AtomicNames
  PROVE  /\ a[2] \in 0 .. 31 /\ <<a[1]>> # op_illegal /\ <<a[1]>> # <<"lr">>
         /\ a[1] \in {"sc", "amoswap", "amoadd", "amoxor", "amoor", "amoand", "amomin", "amomax", "amominu", "amomaxu"}
         /\ Case(<<"amoadd", "amoswap", "lr", "sc", "amoxor", "-", "-", "-",
                   "amoor", "-", "-", "-", "amoand", "-", "-", "-",
                   "amomin", "-", "-", "-", "amomax", "-", "-", "-",
                   "amominu", "-", "-", "-", "amomaxu">>, a[2]) = <<a[1]>>
BY DEF AtomicNames, Case, op_illegal

LEMMA AmoDecoded ==
  ASSUME NEW w, NEW isa, NEW marks, NEW v, NEW e, Carries(w, e, marks, v),
         NEW a \in AtomicNames, NEW width \in AtomicWidths, e = Marked(a[1], width, a[2], <<Rd, Rs2, Rs1>>)
  PROVE  /\ e.args = <<Rd, Rs2, Rs1>> /\ Marking(w, marks)
         /\ Decodes(w, isa, e, "r_a", fmt_aqrl_rd_rs2_rs1)
<1> DEFINE args == <<Rd, Rs2, Rs1>>
           names == Dot({"sc", "amoswap", "amoadd", "amoxor", "amoor", "amoand", "amomin", "amomax",
           "amominu", "amomaxu"}, {"w", "d", "q"})
<1>1. Row("r_a", fmt_aqrl_rd_rs2_rs1, names) \in Rows
  BY DEF Rows, AtomicRows
<1>2. Clear(args, 0, 6) /\ Clear(args, 12, 14) /\ Clear(args, 25, 31)
  BY OpcodeFree, Funct3Free, Funct7Free DEF Clear
<1>3. /\ a[2] \in 0 .. 31 /\ <<a[1]>> # op_illegal /\ <<a[1], width[1]>> \in names
      /\ <<a[1]>> = <<"lr">> => Clear(args, 20, 20 + 4)
      /\ Case(<<"amoadd", "amoswap", "lr", "sc", "amoxor", "-", "-", "-",
                "amoor", "-", "-", "-", "amoand", "-", "-", "-",
                "amomin", "-", "-", "-", "amomax", "-", "-", "-",
                "amominu", "-", "-", "-", "amomaxu">>, a[2]) = <<a[1]>>
  BY AtomicNamesOf, AtomicWidthsOf DEF Dot
<1>4. e = Marked(a[1], width, a[2], args)
  OBVIOUS
<1> HIDE DEF args, names
<1>5. IsAtomic(e, a[1], width, a[2], args)
  BY <1>2, <1>3, <1>4 DEF IsAtomic
<1>6. /\ e.name = <<a[1], width[1]>> /\ e.args = args
      /\ AtomicOf(w, a[2], width[2], args) /\ Marking(w, marks)
  BY <1>5, AtomicFields
<1>7. rv_inst_opcode(w, isa) = <<a[1], width[1]>>
  BY <1>3, <1>6, AtomicOpcode
<1>8. InRow(<<a[1], width[1]>>, "r_a", fmt_aqrl_rd_rs2_rs1)
  BY <1>1, <1>3, RowOfName
<1> QED
  BY <1>6, <1>7, <1>8 DEF Decodes, args

LEMMA LrDecoded ==
  ASSUME NEW w, NEW isa, NEW marks, NEW v, NEW e, Carries(w, e, marks, v),
         NEW width \in AtomicWidths, e = Marked("lr", width, 2, <<Rd, Rs1>>)
  PROVE  /\ e.args = <<Rd, Rs1>> /\ Marking(w, marks)
         /\ Decodes(w, isa, e, "r_l", fmt_aqrl_rd_rs1)
<1> DEFINE args == <<Rd, Rs1>>
           names == Dot({"lr"}, {"w", "d", "q"})
<1>1. Row("r_l", fmt_aqrl_rd_rs1, names) \in Rows
  BY DEF Rows, AtomicRows
<1>2. Clear(args, 0, 6) /\ Clear(args, 12, 14) /\ Clear(args, 25, 31) /\ Clear(args, 20, 20 + 4)
  BY OpcodeFree, Funct3Free, Funct7Free, RdFree DEF Clear
<1>3. /\ 2 \in 0 .. 31 /\ <<"lr">> # op_illegal /\ <<"lr", width[1]>> \in names
      /\ <<"lr">> = <<"lr">> => Clear(args, 20, 20 + 4)
      /\ Case(<<"amoadd", "amoswap", "lr", "sc", "amoxor", "-", "-", "-",
                "amoor", "-", "-", "-", "amoand", "-", "-", "-",
                "amomin", "-", "-", "-", "amomax", "-", "-", "-",
                "amominu", "-", "-", "-", "amomaxu">>, 2) = <<"lr">>
  <2>1. <<"lr">> # op_illegal
    BY DEF op_illegal
  <2>2. <<"lr", width[1]>> \in names
    BY AtomicWidthsOf DEF Dot
  <2>3. Case(<<"amoadd", "amoswap", "lr", "sc", "amoxor", "-", "-", "-",
                "amoor", "-", "-", "-", "amoand", "-", "-", "-",
                "amomin", "-", "-", "-", "amomax", "-", "-", "-",
                "amominu", "-", "-", "-", "amomaxu">>, 2) = <<"lr">>
    BY DEF Case
  <2> HIDE DEF args, names
  <2> QED
    BY <1>2, <2>1, <2>2, <2>3
<1>4. e = Marked("lr", width, 2, args)
  OBVIOUS
<1> HIDE DEF args, names
<1>5. IsAtomic(e, "lr", width, 2, args)
  BY <1>2, <1>3, <1>4 DEF IsAtomic
<1>6. /\ e.name = <<"lr", width[1]>> /\ e.args = args
      /\ AtomicOf(w, 2, width[2], args) /\ Marking(w, marks)
  BY <1>5, AtomicFields
<1>7. rv_inst_opcode(w, isa) = <<"lr", width[1]>>
  BY <1>3, <1>6, AtomicOpcode
<1>8. InRow(<<"lr", width[1]>>, "r_l", fmt_aqrl_rd_rs1)
  BY <1>1, <1>3, RowOfName
<1> QED
  BY <1>6, <1>7, <1>8 DEF Decodes, args

-----------------------------------------------------------------------------
(* The places of the operands of 16-bit instructions.                      *)
LEMMA ShortSpans ==
  /\ Span(XC(2).layout) = 2 .. 4
  /\ Span(XC(7).layout) = 7 .. 9
  /\ Span(FC(2).layout) = 2 .. 4
  /\ Span(X(2).layout) = 2 .. 6
  /\ Span(F(2).layout) = 2 .. 6
  /\ Span(F(7).layout) = 7 .. 11
  /\ Span(RdC.layout) = 7 .. 11
  /\ Span(RdLui.layout) = 7 .. 11
  /\ Span(Rs2C.layout) = 2 .. 6
  /\ Span(CImm.layout) = {12} \cup 2 .. 6
  /\ Span(CImmAddi.layout) = {12} \cup 2 .. 6
  /\ Span(CShamt.layout) = {12} \cup 2 .. 6
  /\ Span(CImmLui.layout) = {12} \cup 2 .. 6
  /\ Span(CImm16.layout) = {12} \cup 2 .. 6
  /\ Span(CImm4.layout) = 5 .. 12
  /\ Span(CImmJ.layout) = 2 .. 12
  /\ Span(CImmB.layout) = 2 .. 6 \cup 10 .. 12
  /\ Span(CImmW.layout) = 5 .. 6 \cup 10 .. 12
  /\ Span(CImmD.layout) = 5 .. 6 \cup 10 .. 12
  /\ Span(CImmLwsp.layout) = {12} \cup 2 .. 6
  /\ Span(CImmLdsp.layout) = {12} \cup 2 .. 6
  /\ Span(CImmSwsp.layout) = 7 .. 12
  /\ Span(CImmSdsp.layout) = 7 .. 12
  /\ Span(zero.layout) = {}
  /\ Span(ra.layout) = {}
  /\ Span(sp.layout) = {}
  /\ Span(none.layout) = {}
<1>1. Span(XC(2).layout) = 2 .. 4
  <2> DEFINE o == XC(2)
  <2>1. o.layout = {<<2, 3, 0>>}
    BY SMT DEF XC, Operand
  <2> HIDE DEF o
  <2>2. Span(o.layout) = 2 .. 4
    BY <2>1, SMT DEF Span
  <2> QED
    BY <2>2 DEF o
<1>2. Span(XC(7).layout) = 7 .. 9
  <2> DEFINE o == XC(7)
  <2>1. o.layout = {<<7, 3, 0>>}
    BY SMT DEF XC, Operand
  <2> HIDE DEF o
  <2>2. Span(o.layout) = 7 .. 9
    BY <2>1, SMT DEF Span
  <2> QED
    BY <2>2 DEF o
<1>3. Span(FC(2).layout) = 2 .. 4
  <2> DEFINE o == FC(2)
  <2>1. o.layout = {<<2, 3, 0>>}
    BY SMT DEF FC, Operand
  <2> HIDE DEF o
  <2>2. Span(o.layout) = 2 .. 4
    BY <2>1, SMT DEF Span
  <2> QED
    BY <2>2 DEF o
<1>4. Span(X(2).layout) = 2 .. 6
  <2> DEFINE o == X(2)
  <2>1. o.layout = {<<2, 5, 0>>}
    BY SMT DEF X, Operand
  <2> HIDE DEF o
  <2>2. Span(o.layout) = 2 .. 6
    BY <2>1, SMT DEF Span
  <2> QED
    BY <2>2 DEF o
<1>5. Span(F(2).layout) = 2 .. 6
  <2> DEFINE o == F(2)
  <2>1. o.layout = {<<2, 5, 0>>}
    BY SMT DEF F, Operand
  <2> HIDE DEF o
  <2>2. Span(o.layout) = 2 .. 6
    BY <2>1, SMT DEF Span
  <2> QED
    BY <2>2 DEF o
<1>6. Span(F(7).layout) = 7 .. 11
  <2> DEFINE o == F(7)
  <2>1. o.layout = {<<7, 5, 0>>}
    BY SMT DEF F, Operand
  <2> HIDE DEF o
  <2>2. Span(o.layout) = 7 .. 11
    BY <2>1, SMT DEF Span
  <2> QED
    BY <2>2 DEF o
<1>7. Span(RdC.layout) = 7 .. 11
  <2> DEFINE o == RdC
  <2>1. o.layout = {<<7, 5, 0>>}
    BY SMT DEF RdC, NonZero, X, Operand
  <2> HIDE DEF o
  <2>2. Span(o.layout) = 7 .. 11
    BY <2>1, SMT DEF Span
  <2> QED
    BY <2>2 DEF o
<1>8. Span(RdLui.layout) = 7 .. 11
  <2> DEFINE o == RdLui
  <2>1. o.layout = {<<7, 5, 0>>}
    BY SMT DEF RdLui, RdC, NonZero, X, Operand
  <2> HIDE DEF o
  <2>2. Span(o.layout) = 7 .. 11
    BY <2>1, SMT DEF Span
  <2> QED
    BY <2>2 DEF o
<1>9. Span(Rs2C.layout) = 2 .. 6
  <2> DEFINE o == Rs2C
  <2>1. o.layout = {<<2, 5, 0>>}
    BY SMT DEF Rs2C, NonZero, X, Operand
  <2> HIDE DEF o
  <2>2. Span(o.layout) = 2 .. 6
    BY <2>1, SMT DEF Span
  <2> QED
    BY <2>2 DEF o
<1>10. Span(CImm.layout) = {12} \cup 2 .. 6
  <2> DEFINE o == CImm
  <2>1. o.layout = {<<12, 1, 5>>, <<2, 5, 0>>}
    BY SMT DEF CImm, SignedImm, Operand
  <2> HIDE DEF o
  <2>2. Span(o.layout) = {12} \cup 2 .. 6
    BY <2>1, SMT DEF Span
  <2> QED
    BY <2>2 DEF o
<1>11. Span(CImmAddi.layout) = {12} \cup 2 .. 6
  <2> DEFINE o == CImmAddi
  <2>1. o.layout = {<<12, 1, 5>>, <<2, 5, 0>>}
    BY SMT DEF CImmAddi, NonZero, CImm, SignedImm, Operand
  <2> HIDE DEF o
  <2>2. Span(o.layout) = {12} \cup 2 .. 6
    BY <2>1, SMT DEF Span
  <2> QED
    BY <2>2 DEF o
<1>12. Span(CShamt.layout) = {12} \cup 2 .. 6
  <2> DEFINE o == CShamt
  <2>1. o.layout = {<<12, 1, 5>>, <<2, 5, 0>>}
    BY SMT DEF CShamt, NonZero, UnsignedImm, Operand
  <2> HIDE DEF o
  <2>2. Span(o.layout) = {12} \cup 2 .. 6
    BY <2>1, SMT DEF Span
  <2> QED
    BY <2>2 DEF o
<1>13. Span(CImmLui.layout) = {12} \cup 2 .. 6
  <2> DEFINE o == CImmLui
  <2>1. o.layout = {<<12, 1, 17>>, <<2, 5, 12>>}
    BY SMT DEF CImmLui, NonZero, SignedImm, Operand
  <2> HIDE DEF o
  <2>2. Span(o.layout) = {12} \cup 2 .. 6
    BY <2>1, SMT DEF Span
  <2> QED
    BY <2>2 DEF o
<1>14. Span(CImm16.layout) = {12} \cup 2 .. 6
  <2> DEFINE o == CImm16
  <2>1. o.layout = {<<12, 1, 9>>, <<6, 1, 4>>, <<5, 1, 6>>, <<3, 2, 7>>, <<2, 1, 5>>}
    BY SMT DEF CImm16, NonZero, SignedImm, Operand
  <2> HIDE DEF o
  <2>2. Span(o.layout) = {12} \cup 2 .. 6
    BY <2>1, SMT DEF Span
  <2> QED
    BY <2>2 DEF o
<1>15. Span(CImm4.layout) = 5 .. 12
  <2> DEFINE o == CImm4
  <2>1. o.layout = {<<11, 2, 4>>, <<7, 4, 6>>, <<6, 1, 2>>, <<5, 1, 3>>}
    BY SMT DEF CImm4, NonZero, UnsignedImm, Operand
  <2> HIDE DEF o
  <2>2. Span(o.layout) = 5 .. 12
    BY <2>1, SMT DEF Span
  <2> QED
    BY <2>2 DEF o
<1>16. Span(CImmJ.layout) = 2 .. 12
  <2> DEFINE o == CImmJ
  <2>1. o.layout = {<<12, 1, 11>>, <<11, 1, 4>>, <<9, 2, 8>>, <<8, 1, 10>>, <<7, 1, 6>>, <<6, 1, 7>>, <<3, 3, 1>>, <<2, 1, 5>>}
    BY SMT DEF CImmJ, SignedImm, Operand
  <2> HIDE DEF o
  <2>2. Span(o.layout) = 2 .. 12
    BY <2>1, SMT DEF Span
  <2> QED
    BY <2>2 DEF o
<1>17. Span(CImmB.layout) = 2 .. 6 \cup 10 .. 12
  <2> DEFINE o == CImmB
  <2>1. o.layout = {<<12, 1, 8>>, <<10, 2, 3>>, <<5, 2, 6>>, <<3, 2, 1>>, <<2, 1, 5>>}
    BY SMT DEF CImmB, SignedImm, Operand
  <2> HIDE DEF o
  <2>2. Span(o.layout) = 2 .. 6 \cup 10 .. 12
    BY <2>1, SMT DEF Span
  <2> QED
    BY <2>2 DEF o
<1>18. Span(CImmW.layout) = 5 .. 6 \cup 10 .. 12
  <2> DEFINE o == CImmW
  <2>1. o.layout = {<<10, 3, 3>>, <<6, 1, 2>>, <<5, 1, 6>>}
    BY SMT DEF CImmW, UnsignedImm, Operand
  <2> HIDE DEF o
  <2>2. Span(o.layout) = 5 .. 6 \cup 10 .. 12
    BY <2>1, SMT DEF Span
  <2> QED
    BY <2>2 DEF o
<1>19. Span(CImmD.layout) = 5 .. 6 \cup 10 .. 12
  <2> DEFINE o == CImmD
  <2>1. o.layout = {<<10, 3, 3>>, <<5, 2, 6>>}
    BY SMT DEF CImmD, UnsignedImm, Operand
  <2> HIDE DEF o
  <2>2. Span(o.layout) = 5 .. 6 \cup 10 .. 12
    BY <2>1, SMT DEF Span
  <2> QED
    BY <2>2 DEF o
<1>20. Span(CImmLwsp.layout) = {12} \cup 2 .. 6
  <2> DEFINE o == CImmLwsp
  <2>1. o.layout = {<<12, 1, 5>>, <<4, 3, 2>>, <<2, 2, 6>>}
    BY SMT DEF CImmLwsp, UnsignedImm, Operand
  <2> HIDE DEF o
  <2>2. Span(o.layout) = {12} \cup 2 .. 6
    BY <2>1, SMT DEF Span
  <2> QED
    BY <2>2 DEF o
<1>21. Span(CImmLdsp.layout) = {12} \cup 2 .. 6
  <2> DEFINE o == CImmLdsp
  <2>1. o.layout = {<<12, 1, 5>>, <<5, 2, 3>>, <<2, 3, 6>>}
    BY SMT DEF CImmLdsp, UnsignedImm, Operand
  <2> HIDE DEF o
  <2>2. Span(o.layout) = {12} \cup 2 .. 6
    BY <2>1, SMT DEF Span
  <2> QED
    BY <2>2 DEF o
<1>22. Span(CImmSwsp.layout) = 7 .. 12
  <2> DEFINE o == CImmSwsp
  <2>1. o.layout = {<<9, 4, 2>>, <<7, 2, 6>>}
    BY SMT DEF CImmSwsp, UnsignedImm, Operand
  <2> HIDE DEF o
  <2>2. Span(o.layout) = 7 .. 12
    BY <2>1, SMT DEF Span
  <2> QED
    BY <2>2 DEF o
<1>23. Span(CImmSdsp.layout) = 7 .. 12
  <2> DEFINE o == CImmSdsp
  <2>1. o.layout = {<<10, 3, 3>>, <<7, 3, 6>>}
    BY SMT DEF CImmSdsp, UnsignedImm, Operand
  <2> HIDE DEF o
  <2>2. Span(o.layout) = 7 .. 12
    BY <2>1, SMT DEF Span
  <2> QED
    BY <2>2 DEF o
<1>24. Span(zero.layout) = {}
  <2> DEFINE o == zero
  <2>1. o.layout = {}
    BY SMT DEF zero, Only, Operand
  <2> HIDE DEF o
  <2>2. Span(o.layout) = {}
    BY <2>1, SMT DEF Span
  <2> QED
    BY <2>2 DEF o
<1>25. Span(ra.layout) = {}
  <2> DEFINE o == ra
  <2>1. o.layout = {}
    BY SMT DEF ra, Only, Operand
  <2> HIDE DEF o
  <2>2. Span(o.layout) = {}
    BY <2>1, SMT DEF Span
  <2> QED
    BY <2>2 DEF o
<1>26. Span(sp.layout) = {}
  <2> DEFINE o == sp
  <2>1. o.layout = {}
    BY SMT DEF sp, Only, Operand
  <2> HIDE DEF o
  <2>2. Span(o.layout) = {}
    BY <2>1, SMT DEF Span
  <2> QED
    BY <2>2 DEF o
<1>27. Span(none.layout) = {}
  <2> DEFINE o == none
  <2>1. o.layout = {}
    BY SMT DEF none, Only, Operand
  <2> HIDE DEF o
  <2>2. Span(o.layout) = {}
    BY <2>1, SMT DEF Span
  <2> QED
    BY <2>2 DEF o
<1> QED
  BY <1>1, <1>2, <1>3, <1>4, <1>5, <1>6, <1>7, <1>8, <1>9, <1>10, <1>11, <1>12, <1>13, <1>14, <1>15, <1>16, <1>17, <1>18, <1>19, <1>20, <1>21, <1>22, <1>23, <1>24, <1>25, <1>26, <1>27

(* The operands of 16-bit instructions lie between quadrant and funct3.    *)
Inside(args) == \A k \in DOMAIN args : Span(args[k].layout) \subseteq 2 .. 12

IsShort(e, name, q, f3, more, args) ==
  /\ e.name = <<"c", name>> /\ e.args = args /\ NoMarks(e)
  /\ e.fixed = Field(0, 2, q) \cup Field(13, 3, f3) \cup more
  /\ q \in 0 .. 2 /\ f3 \in 0 .. 7 /\ more \subseteq 2 .. 12 /\ Inside(args)

(* The n bits from lo to hi have no operand, and are those of x.           *)
Inner(args, more, lo, n, hi, x) ==
  /\ lo \in 2 .. 12 /\ hi \in lo .. 12 /\ n = hi - lo + 1 /\ x \in Nat /\ x < 4096 /\ Bits(x, 0, n) = x
  /\ Clear(args, lo, hi)
  /\ \A k \in lo .. hi : k \in more <=> BitOf(x, k - lo) = 1

ShortOnes(q, f3, more) == Field(0, 2, q) \cup Field(13, 3, f3) \cup more

LEMMA InShortOnes ==
  ASSUME NEW q, NEW f3, NEW more, more \subseteq 2 .. 12, NEW k \in Nat
  PROVE  k \in ShortOnes(q, f3, more) <=>
           \/ k < 2 /\ BitOf(q, k) = 1
           \/ 13 <= k /\ k < 16 /\ BitOf(f3, k - 13) = 1
           \/ k \in more
<1>1. k \in Field(0, 2, q) <=> 0 <= k /\ k < 0 + 2 /\ BitOf(q, k - 0) = 1
  BY InField
<1>2. k \in Field(13, 3, f3) <=> 13 <= k /\ k < 13 + 3 /\ BitOf(f3, k - 13) = 1
  BY InField
<1>3. k - 0 = k
  OBVIOUS
<1> QED
  BY <1>1, <1>2, <1>3 DEF ShortOnes

LEMMA ShortUnplaced ==
  ASSUME NEW w, NEW e, NEW marks, NEW v, Carries(w, e, marks, v),
         NEW name, NEW q, NEW f3, NEW more, NEW args, IsShort(e, name, q, f3, more, args)
  PROVE  /\ w \in Word /\ Unplaced(w, Places(args), ShortOnes(q, f3, more))
         /\ Off(Places(args), 0, 1) /\ Off(Places(args), 13, 15) /\ Off(Places(args), 16, 31)
         /\ q \in 0 .. 2 /\ f3 \in 0 .. 7 /\ more \subseteq 2 .. 12
<1>1. NoMarks(e) /\ e.args = args /\ e.fixed = ShortOnes(q, f3, more)
  BY DEF IsShort, ShortOnes
<1>2. MarkBits(marks) = {}
  BY <1>1, Unmarked
<1>3. w \in Word /\ Unplaced(w, Places(args), ShortOnes(q, f3, more))
  BY <1>1, <1>2 DEF Carries, Exactly, Places, Unplaced
<1>4. Places(args) \subseteq 2 .. 12
  BY DEF IsShort, Inside, Places
<1> QED
  BY <1>3, <1>4 DEF Off, IsShort

LEMMA ShortHalfword ==
  ASSUME NEW w, NEW e, NEW marks, NEW v, Carries(w, e, marks, v),
         NEW name, NEW q, NEW f3, NEW more, NEW args, IsShort(e, name, q, f3, more, args)
  PROVE  w \in Halfword
<1> DEFINE ones == ShortOnes(q, f3, more)  P == Places(args)
<1>1. w \in Word /\ Unplaced(w, P, ones) /\ Off(P, 16, 31) /\ more \subseteq 2 .. 12
  BY ShortUnplaced
<1>1a. \A k \in Nat : k \in ones <=>
           \/ k < 2 /\ BitOf(q, k) = 1
           \/ 13 <= k /\ k < 16 /\ BitOf(f3, k - 13) = 1
           \/ k \in more
  BY <1>1, InShortOnes
<1>1b. \A k \in more : 2 <= k /\ k <= 12
  BY <1>1
<1> HIDE DEF ones, P
<1>2. ASSUME NEW k \in Nat, 16 <= k
      PROVE  k \notin ones
  BY <1>1a, <1>1b, <1>2
<1> HIDE DEF ones, P
<1>3. \A i \in Nat : i < 16 => BitOf(0, i) # 1
  <2>1. \A i \in Nat : i < 16 => i \in 0 .. 31 /\ 2^i \in Nat /\ 2^i > 0
    <3>1. ASSUME NEW i \in Nat, i < 16
          PROVE  i \in 0 .. 31
      BY <3>1
    <3> QED
      BY <3>1, Power
  <2>2. \A d \in Nat : d > 0 => (0 \div d) % 2 = 0
    OBVIOUS
  <2>3. ASSUME NEW i \in Nat, i < 16
        PROVE  BitOf(0, i) = 0
    <3>1. (0 \div 2^i) % 2 = 0 /\ i # 31
      BY <2>1, <2>2, <2>3
    <3> QED
      BY <3>1 DEF BitOf
  <2> QED
    BY <2>3
<1>4. Bits(w, 16, 16) = Bits(0, 0, 16)
  <2>1. ASSUME NEW k \in 16 .. 16 + 16 - 1
        PROVE  k \in ones <=> BitOf(0, k - 16) = 1
    <3>1. k \in Nat /\ 16 <= k /\ k - 16 \in Nat /\ k - 16 < 16
      BY <2>1
    <3> QED
      BY <3>1, <1>2, <1>3
  <2>2. Number(ones, 16, 16, 0)
    BY <2>1 DEF Number
  <2>3. 31 \in 16 .. 31 /\ 31 = 16 + 16 - 1 /\ 0 \in Nat /\ 0 < 4096 /\ 16 \in 1 .. 20
    OBVIOUS
  <2>4. \A hi \in 16 .. 31 : hi = 16 + 16 - 1 /\ Off(P, 16, hi) => Bits(w, 16, 16) = Bits(0, 0, 16)
    BY <1>1, <2>2, <2>3, NumberField
  <2> QED
    BY <1>1, <2>3, <2>4
<1>5. Bits(w, 16, 16) = 0
  BY <1>4, SMT DEF Bits
<1>6. 2^16 = 65536
  BY SMT
<1>7. (w \div 65536) % 65536 = 0
  BY <1>5, <1>6 DEF Bits
<1>8. w \in Int /\ -2147483648 <= w /\ w <= 2147483647
  BY <1>1, SMT DEF Word
<1>9. w >= 0 /\ w < 65536
  <2> DEFINE h == w \div 65536
  <2>1. h \in Int /\ 65536 * h <= w /\ w < 65536 * h + 65536
    BY <1>8, SMT
  <2>2. h >= -32768 /\ h <= 32767 /\ h % 65536 = 0
    BY <1>7, <1>8, <2>1, SMT
  <2> HIDE DEF h
  <2>3. h = 0
    BY <2>1, <2>2, SMT
  <2> QED
    BY <1>8, <2>1, <2>3
<1> QED
  BY <1>8, <1>9 DEF Halfword

LEMMA ShortFields ==
  ASSUME NEW w, NEW e, NEW marks, NEW v, Carries(w, e, marks, v),
         NEW name, NEW q, NEW f3, NEW more, NEW args, IsShort(e, name, q, f3, more, args)
  PROVE  w % 4 = q /\ Bits(w, 13, 3) = f3
<1> DEFINE ones == ShortOnes(q, f3, more)  P == Places(args)
<1>1. /\ w \in Word /\ Unplaced(w, P, ones) /\ Off(P, 0, 1) /\ Off(P, 13, 15)
      /\ q \in 0 .. 2 /\ f3 \in 0 .. 7 /\ more \subseteq 2 .. 12
  BY ShortUnplaced
<1>1a. \A k \in Nat : k \in ones <=>
           \/ k < 2 /\ BitOf(q, k) = 1
           \/ 13 <= k /\ k < 16 /\ BitOf(f3, k - 13) = 1
           \/ k \in more
  BY <1>1, InShortOnes
<1>1b. \A k \in more : 2 <= k /\ k <= 12
  BY <1>1
<1> HIDE DEF ones, P
<1>2. ASSUME NEW k \in Nat
      PROVE  /\ k < 2 => (k \in ones <=> BitOf(q, k) = 1)
             /\ 13 <= k /\ k < 16 => (k \in ones <=> BitOf(f3, k - 13) = 1)
  BY <1>1a, <1>1b
<1>3. Bits(w, 0, 2) = Bits(q, 0, 2)
  <2>1. ASSUME NEW k \in 0 .. 0 + 2 - 1
        PROVE  k \in ones <=> BitOf(q, k - 0) = 1
    <3>1. k \in Nat /\ k < 2 /\ k - 0 = k
      BY <2>1
    <3> QED
      BY <3>1, <1>2
  <2>2. Number(ones, 0, 2, q)
    BY <2>1 DEF Number
  <2>3. 1 \in 0 .. 31 /\ 1 = 0 + 2 - 1 /\ q \in Nat /\ q < 4096 /\ 2 \in 1 .. 20 /\ 0 \in Nat
    BY <1>1
  <2>4. \A hi \in 0 .. 31 : hi = 0 + 2 - 1 /\ Off(P, 0, hi) => Bits(w, 0, 2) = Bits(q, 0, 2)
    BY <1>1, <2>2, <2>3, NumberField
  <2> QED
    BY <1>1, <2>3, <2>4
<1>4. Bits(w, 13, 3) = Bits(f3, 0, 3)
  <2>1. ASSUME NEW k \in 13 .. 13 + 3 - 1
        PROVE  k \in ones <=> BitOf(f3, k - 13) = 1
    <3>1. k \in Nat /\ 13 <= k /\ k < 16
      BY <2>1
    <3> QED
      BY <3>1, <1>2
  <2>2. Number(ones, 13, 3, f3)
    BY <2>1 DEF Number
  <2>3. 15 \in 13 .. 31 /\ 15 = 13 + 3 - 1 /\ f3 \in Nat /\ f3 < 4096 /\ 3 \in 1 .. 20 /\ 13 \in Nat
    BY <1>1
  <2>4. \A hi \in 13 .. 31 : hi = 13 + 3 - 1 /\ Off(P, 13, hi) => Bits(w, 13, 3) = Bits(f3, 0, 3)
    BY <1>1, <2>2, <2>3, NumberField
  <2> QED
    BY <1>1, <2>3, <2>4
<1>5. Bits(q, 0, 2) = q /\ Bits(f3, 0, 3) = f3
  BY <1>1 DEF Bits
<1>6. Bits(w, 0, 2) = w % 4
  BY <1>1, SMT DEF Bits, Word
<1> QED
  BY <1>3, <1>4, <1>5, <1>6

LEMMA ShortField ==
  ASSUME NEW w, NEW e, NEW marks, NEW v, Carries(w, e, marks, v),
         NEW name, NEW q, NEW f3, NEW more, NEW args, IsShort(e, name, q, f3, more, args),
         NEW lo, NEW n, NEW hi, NEW x, Inner(args, more, lo, n, hi, x)
  PROVE  Bits(w, lo, n) = x
<1> DEFINE ones == ShortOnes(q, f3, more)  P == Places(args)
<1>1. w \in Word /\ Unplaced(w, P, ones) /\ more \subseteq 2 .. 12
  BY ShortUnplaced
<1>2. /\ lo \in Nat /\ lo >= 2 /\ lo <= 12 /\ hi \in lo .. 31 /\ hi <= 12 /\ hi = lo + n - 1 /\ n \in 1 .. 20
      /\ x \in Nat /\ x < 4096 /\ Bits(x, 0, n) = x
      /\ \A k \in lo .. hi : k \in more <=> BitOf(x, k - lo) = 1
  BY DEF Inner
<1>3. Off(P, lo, hi)
  BY ClearPlaces DEF Inner
<1>1a. \A k \in Nat : k \in ones <=>
           \/ k < 2 /\ BitOf(q, k) = 1
           \/ 13 <= k /\ k < 16 /\ BitOf(f3, k - 13) = 1
           \/ k \in more
  BY <1>1, InShortOnes
<1> HIDE DEF ones, P
<1>4. ASSUME NEW k \in lo .. lo + n - 1
      PROVE  k \in ones <=> BitOf(x, k - lo) = 1
  <2>1. k \in Nat /\ k >= 2 /\ k <= 12 /\ k \in lo .. hi
    BY <1>2, <1>4
  <2>2. k \in ones <=> k \in more
    BY <1>1a, <2>1
  <2> QED
    BY <1>2, <2>1, <2>2
<1>5. Number(ones, lo, n, x)
  BY <1>4 DEF Number
<1>6. Bits(w, lo, n) = Bits(x, 0, n)
  BY <1>1, <1>2, <1>3, <1>5, NumberField
<1> QED
  BY <1>2, <1>6

-----------------------------------------------------------------------------
(* 16-bit instructions that quadrant and funct3 tell apart.                *)
PlainNames ==
  {<<"addi4spn", 0, 0>>, <<"fld", 0, 1>>, <<"lw", 0, 2>>, <<"fsd", 0, 5>>, <<"sw", 0, 6>>,
   <<"li", 1, 2>>, <<"j", 1, 5>>, <<"beqz", 1, 6>>, <<"bnez", 1, 7>>,
   <<"slli", 2, 0>>, <<"fldsp", 2, 1>>, <<"lwsp", 2, 2>>, <<"fsdsp", 2, 5>>, <<"swsp", 2, 6>>}

PlainNames32 ==
  {<<"flw", 0, 3>>, <<"fsw", 0, 7>>, <<"jal", 1, 1>>, <<"flwsp", 2, 3>>, <<"fswsp", 2, 7>>}

PlainNames64 ==
  {<<"ld", 0, 3>>, <<"sd", 0, 7>>, <<"addiw", 1, 1>>, <<"ldsp", 2, 3>>, <<"sdsp", 2, 7>>}

PlainOf(isa, name, q, f3) ==
  \/ isa \in {"rv32", "rv64"} /\ <<name, q, f3>> \in PlainNames
  \/ isa = "rv32" /\ <<name, q, f3>> \in PlainNames32
  \/ isa = "rv64" /\ <<name, q, f3>> \in PlainNames64

LEMMA CaseCOf ==
  ASSUME NEW table, NEW k, NEW n, Case(table, k) = <<n>>, <<n>> # op_illegal
  PROVE  CaseC(table, k) = <<"c", n>>
BY Joined DEF CaseC

LEMMA PlainQuadrants ==
  ASSUME NEW isa, NEW w, NEW name, NEW q, NEW f3, PlainOf(isa, name, q, f3), Bits(w, 13, 3) = f3
  PROVE  /\ q = 0 => Quadrant0(w, isa) = <<"c", name>>
         /\ q = 1 => Quadrant1(w, isa) = <<"c", name>>
         /\ q = 2 => Quadrant2(w, isa) = <<"c", name>>
         /\ q \in 0 .. 2
<1> DEFINE T0 == <<"addi4spn", "fld", "lw", IF isa = "rv32" THEN "flw" ELSE "ld", "-", "fsd", "sw",
                   IF isa = "rv32" THEN "fsw" ELSE "sd">>
           T1 == <<IF Bits(w, 2, 11) = 0 THEN "nop" ELSE "addi", IF isa = "rv32" THEN "jal" ELSE "addiw",
                   "li", IF Bits(w, 7, 5) = 2 THEN "addi16sp" ELSE "lui", "-", "j", "beqz", "bnez">>
           T2 == <<"slli", "fldsp", "lwsp", IF isa = "rv32" THEN "flwsp" ELSE "ldsp", "-", "fsdsp", "swsp",
                   IF isa = "rv32" THEN "fswsp" ELSE "sdsp">>
<1>1. isa # "rv128" /\ f3 # 4 /\ q \in 0 .. 2 /\ <<name>> # op_illegal
  BY DEF PlainOf, PlainNames, PlainNames32, PlainNames64, op_illegal
<1>2. /\ q = 0 => Quadrant0(w, isa) = CaseC(T0, f3)
      /\ q = 1 => Quadrant1(w, isa) = CaseC(T1, f3)
      /\ q = 2 => Quadrant2(w, isa) = CaseC(T2, f3)
  BY <1>1 DEF Quadrant0, Quadrant1, Quadrant2
<1>3. q = 0 => Case(T0, f3) = <<name>>
  <2>1. \A t \in PlainNames \cup PlainNames32 : t[2] = 0 /\ isa = "rv32" => Case(T0, t[3]) = <<t[1]>>
    BY DEF PlainNames, PlainNames32, Case
  <2>2. \A t \in PlainNames \cup PlainNames64 : t[2] = 0 /\ isa = "rv64" => Case(T0, t[3]) = <<t[1]>>
    BY DEF PlainNames, PlainNames64, Case
  <2> HIDE DEF T0
  <2> QED
    BY <2>1, <2>2 DEF PlainOf
<1>4. q = 1 => Case(T1, f3) = <<name>>
  <2>1. \A t \in PlainNames \cup PlainNames32 : t[2] = 1 /\ isa = "rv32" => Case(T1, t[3]) = <<t[1]>>
    BY DEF PlainNames, PlainNames32, Case
  <2>2. \A t \in PlainNames \cup PlainNames64 : t[2] = 1 /\ isa = "rv64" => Case(T1, t[3]) = <<t[1]>>
    BY DEF PlainNames, PlainNames64, Case
  <2> HIDE DEF T1
  <2> QED
    BY <2>1, <2>2 DEF PlainOf
<1>5. q = 2 => Case(T2, f3) = <<name>>
  <2>1. \A t \in PlainNames \cup PlainNames32 : t[2] = 2 /\ isa = "rv32" => Case(T2, t[3]) = <<t[1]>>
    BY DEF PlainNames, PlainNames32, Case
  <2>2. \A t \in PlainNames \cup PlainNames64 : t[2] = 2 /\ isa = "rv64" => Case(T2, t[3]) = <<t[1]>>
    BY DEF PlainNames, PlainNames64, Case
  <2> HIDE DEF T2
  <2> QED
    BY <2>1, <2>2 DEF PlainOf
<1> HIDE DEF T0, T1, T2
<1> QED
  BY <1>1, <1>2, <1>3, <1>4, <1>5, CaseCOf

LEMMA QuadrantOf ==
  ASSUME NEW w, NEW isa
  PROVE  /\ w % 4 = 0 => rv_inst_opcode(w, isa) = Quadrant0(w, isa)
         /\ w % 4 = 1 => rv_inst_opcode(w, isa) = Quadrant1(w, isa)
         /\ w % 4 = 2 => rv_inst_opcode(w, isa) = Quadrant2(w, isa)
BY DEF rv_inst_opcode

LEMMA PlainOpcode ==
  ASSUME NEW w, NEW isa, NEW e, NEW marks, NEW v, Carries(w, e, marks, v),
         NEW name, NEW q, NEW f3, NEW more, NEW args, IsShort(e, name, q, f3, more, args),
         PlainOf(isa, name, q, f3)
  PROVE  rv_inst_opcode(w, isa) = e.name
<1>1. w % 4 = q /\ Bits(w, 13, 3) = f3
  BY ShortFields
<1>2. e.name = <<"c", name>>
  BY DEF IsShort
<1> QED
  BY <1>1, <1>2, PlainQuadrants, QuadrantOf

(* What the entries' lemmas say: the line's row and the operands.          *)
ShortDecodes(w, isa, e, args, type, format) ==
  /\ e.args = args /\ NoMarks(e) /\ w \in Halfword /\ Decodes(w, isa, e, type, format)

LEMMA ShortDecoded ==
  ASSUME NEW w, NEW isa, NEW e, NEW marks, NEW v, Carries(w, e, marks, v),
         NEW name, NEW q, NEW f3, NEW more, NEW args, IsShort(e, name, q, f3, more, args),
         rv_inst_opcode(w, isa) = e.name,
         NEW type, NEW format, NEW S, Row(type, format, C(S)) \in Rows, name \in S
  PROVE  ShortDecodes(w, isa, e, args, type, format)
<1>1. e.name = <<"c", name>> /\ e.args = args /\ NoMarks(e)
  BY DEF IsShort
<1>2. w \in Halfword
  BY ShortHalfword
<1>3. <<"c", name>> \in C(S)
  BY Two
<1>4. InRow(<<"c", name>>, type, format)
  BY <1>3, RowOfName
<1> QED
  BY <1>1, <1>2, <1>4 DEF ShortDecodes, Decodes

LEMMA C_addi4spnDecoded ==
  ASSUME NEW w, NEW isa, NEW e, NEW marks, NEW v, Carries(w, e, marks, v), isa \in e.isas,
         e = CInsn("addi4spn", 0, 0, {}, <<XC(2), sp, CImm4>>)
  PROVE  ShortDecodes(w, isa, e, <<XC(2), sp, CImm4>>, "ciw_4spn", fmt_rd_rs1_imm)
<1> DEFINE args == <<XC(2), sp, CImm4>>
           row == Row("ciw_4spn", fmt_rd_rs1_imm, C({"addi4spn"}))
<1>1. Inside(args)
  BY ShortSpans DEF Inside
<1>2. row \in Rows
  BY DEF Rows, CompressedRows
<1> HIDE DEF args, row
<1>3. IsShort(e, "addi4spn", 0, 0, {}, args)
  BY <1>1 DEF IsShort, CInsn, Insn, For, NoMarks, args
<1>4. PlainOf(isa, "addi4spn", 0, 0)
  BY DEF PlainOf, PlainNames, PlainNames32, PlainNames64, CInsn, Insn, For
<1>5. rv_inst_opcode(w, isa) = e.name
  BY <1>3, <1>4, PlainOpcode
<1>6. "addi4spn" \in {"addi4spn"}
  OBVIOUS
<1>7. ShortDecodes(w, isa, e, args, "ciw_4spn", fmt_rd_rs1_imm)
  BY <1>2, <1>3, <1>5, <1>6, ShortDecoded DEF row
<1> QED
  BY <1>7 DEF args

LEMMA C_fldDecoded ==
  ASSUME NEW w, NEW isa, NEW e, NEW marks, NEW v, Carries(w, e, marks, v), isa \in e.isas,
         e = CInsn("fld", 0, 1, {}, <<FC(2), CImmD, XC(7)>>)
  PROVE  ShortDecodes(w, isa, e, <<FC(2), CImmD, XC(7)>>, "cl_ld", fmt_frd_offset_rs1)
<1> DEFINE args == <<FC(2), CImmD, XC(7)>>
           row == Row("cl_ld", fmt_frd_offset_rs1, C({"fld"}))
<1>1. Inside(args)
  BY ShortSpans DEF Inside
<1>2. row \in Rows
  BY DEF Rows, CompressedRows
<1> HIDE DEF args, row
<1>3. IsShort(e, "fld", 0, 1, {}, args)
  BY <1>1 DEF IsShort, CInsn, Insn, For, NoMarks, args
<1>4. PlainOf(isa, "fld", 0, 1)
  BY DEF PlainOf, PlainNames, PlainNames32, PlainNames64, CInsn, Insn, For
<1>5. rv_inst_opcode(w, isa) = e.name
  BY <1>3, <1>4, PlainOpcode
<1>6. "fld" \in {"fld"}
  OBVIOUS
<1>7. ShortDecodes(w, isa, e, args, "cl_ld", fmt_frd_offset_rs1)
  BY <1>2, <1>3, <1>5, <1>6, ShortDecoded DEF row
<1> QED
  BY <1>7 DEF args

LEMMA C_lwDecoded ==
  ASSUME NEW w, NEW isa, NEW e, NEW marks, NEW v, Carries(w, e, marks, v), isa \in e.isas,
         e = CInsn("lw", 0, 2, {}, <<XC(2), CImmW, XC(7)>>)
  PROVE  ShortDecodes(w, isa, e, <<XC(2), CImmW, XC(7)>>, "cl_lw", fmt_rd_offset_rs1)
<1> DEFINE args == <<XC(2), CImmW, XC(7)>>
           row == Row("cl_lw", fmt_rd_offset_rs1, C({"lw"}))
<1>1. Inside(args)
  BY ShortSpans DEF Inside
<1>2. row \in Rows
  BY DEF Rows, CompressedRows
<1> HIDE DEF args, row
<1>3. IsShort(e, "lw", 0, 2, {}, args)
  BY <1>1 DEF IsShort, CInsn, Insn, For, NoMarks, args
<1>4. PlainOf(isa, "lw", 0, 2)
  BY DEF PlainOf, PlainNames, PlainNames32, PlainNames64, CInsn, Insn, For
<1>5. rv_inst_opcode(w, isa) = e.name
  BY <1>3, <1>4, PlainOpcode
<1>6. "lw" \in {"lw"}
  OBVIOUS
<1>7. ShortDecodes(w, isa, e, args, "cl_lw", fmt_rd_offset_rs1)
  BY <1>2, <1>3, <1>5, <1>6, ShortDecoded DEF row
<1> QED
  BY <1>7 DEF args

LEMMA C_flwDecoded ==
  ASSUME NEW w, NEW isa, NEW e, NEW marks, NEW v, Carries(w, e, marks, v), isa \in e.isas,
         e = For("rv32", CInsn("flw", 0, 3, {}, <<FC(2), CImmW, XC(7)>>))
  PROVE  ShortDecodes(w, isa, e, <<FC(2), CImmW, XC(7)>>, "cl_lw", fmt_frd_offset_rs1)
<1> DEFINE args == <<FC(2), CImmW, XC(7)>>
           row == Row("cl_lw", fmt_frd_offset_rs1, C({"flw"}))
<1>1. Inside(args)
  BY ShortSpans DEF Inside
<1>2. row \in Rows
  BY DEF Rows, CompressedRows
<1> HIDE DEF args, row
<1>3. IsShort(e, "flw", 0, 3, {}, args)
  BY <1>1 DEF IsShort, CInsn, Insn, For, NoMarks, args
<1>4. PlainOf(isa, "flw", 0, 3)
  BY DEF PlainOf, PlainNames, PlainNames32, PlainNames64, CInsn, Insn, For
<1>5. rv_inst_opcode(w, isa) = e.name
  BY <1>3, <1>4, PlainOpcode
<1>6. "flw" \in {"flw"}
  OBVIOUS
<1>7. ShortDecodes(w, isa, e, args, "cl_lw", fmt_frd_offset_rs1)
  BY <1>2, <1>3, <1>5, <1>6, ShortDecoded DEF row
<1> QED
  BY <1>7 DEF args

LEMMA C_ldDecoded ==
  ASSUME NEW w, NEW isa, NEW e, NEW marks, NEW v, Carries(w, e, marks, v), isa \in e.isas,
         e = For("rv64", CInsn("ld", 0, 3, {}, <<XC(2), CImmD, XC(7)>>))
  PROVE  ShortDecodes(w, isa, e, <<XC(2), CImmD, XC(7)>>, "cl_ld", fmt_rd_offset_rs1)
<1> DEFINE args == <<XC(2), CImmD, XC(7)>>
           row == Row("cl_ld", fmt_rd_offset_rs1, C({"ld"}))
<1>1. Inside(args)
  BY ShortSpans DEF Inside
<1>2. row \in Rows
  BY DEF Rows, CompressedRows
<1> HIDE DEF args, row
<1>3. IsShort(e, "ld", 0, 3, {}, args)
  BY <1>1 DEF IsShort, CInsn, Insn, For, NoMarks, args
<1>4. PlainOf(isa, "ld", 0, 3)
  BY DEF PlainOf, PlainNames, PlainNames32, PlainNames64, CInsn, Insn, For
<1>5. rv_inst_opcode(w, isa) = e.name
  BY <1>3, <1>4, PlainOpcode
<1>6. "ld" \in {"ld"}
  OBVIOUS
<1>7. ShortDecodes(w, isa, e, args, "cl_ld", fmt_rd_offset_rs1)
  BY <1>2, <1>3, <1>5, <1>6, ShortDecoded DEF row
<1> QED
  BY <1>7 DEF args

LEMMA C_fsdDecoded ==
  ASSUME NEW w, NEW isa, NEW e, NEW marks, NEW v, Carries(w, e, marks, v), isa \in e.isas,
         e = CInsn("fsd", 0, 5, {}, <<FC(2), CImmD, XC(7)>>)
  PROVE  ShortDecodes(w, isa, e, <<FC(2), CImmD, XC(7)>>, "cs_sd", fmt_frs2_offset_rs1)
<1> DEFINE args == <<FC(2), CImmD, XC(7)>>
           row == Row("cs_sd", fmt_frs2_offset_rs1, C({"fsd"}))
<1>1. Inside(args)
  BY ShortSpans DEF Inside
<1>2. row \in Rows
  BY DEF Rows, CompressedRows
<1> HIDE DEF args, row
<1>3. IsShort(e, "fsd", 0, 5, {}, args)
  BY <1>1 DEF IsShort, CInsn, Insn, For, NoMarks, args
<1>4. PlainOf(isa, "fsd", 0, 5)
  BY DEF PlainOf, PlainNames, PlainNames32, PlainNames64, CInsn, Insn, For
<1>5. rv_inst_opcode(w, isa) = e.name
  BY <1>3, <1>4, PlainOpcode
<1>6. "fsd" \in {"fsd"}
  OBVIOUS
<1>7. ShortDecodes(w, isa, e, args, "cs_sd", fmt_frs2_offset_rs1)
  BY <1>2, <1>3, <1>5, <1>6, ShortDecoded DEF row
<1> QED
  BY <1>7 DEF args

LEMMA C_swDecoded ==
  ASSUME NEW w, NEW isa, NEW e, NEW marks, NEW v, Carries(w, e, marks, v), isa \in e.isas,
         e = CInsn("sw", 0, 6, {}, <<XC(2), CImmW, XC(7)>>)
  PROVE  ShortDecodes(w, isa, e, <<XC(2), CImmW, XC(7)>>, "cs_sw", fmt_rs2_offset_rs1)
<1> DEFINE args == <<XC(2), CImmW, XC(7)>>
           row == Row("cs_sw", fmt_rs2_offset_rs1, C({"sw"}))
<1>1. Inside(args)
  BY ShortSpans DEF Inside
<1>2. row \in Rows
  BY DEF Rows, CompressedRows
<1> HIDE DEF args, row
<1>3. IsShort(e, "sw", 0, 6, {}, args)
  BY <1>1 DEF IsShort, CInsn, Insn, For, NoMarks, args
<1>4. PlainOf(isa, "sw", 0, 6)
  BY DEF PlainOf, PlainNames, PlainNames32, PlainNames64, CInsn, Insn, For
<1>5. rv_inst_opcode(w, isa) = e.name
  BY <1>3, <1>4, PlainOpcode
<1>6. "sw" \in {"sw"}
  OBVIOUS
<1>7. ShortDecodes(w, isa, e, args, "cs_sw", fmt_rs2_offset_rs1)
  BY <1>2, <1>3, <1>5, <1>6, ShortDecoded DEF row
<1> QED
  BY <1>7 DEF args

LEMMA C_fswDecoded ==
  ASSUME NEW w, NEW isa, NEW e, NEW marks, NEW v, Carries(w, e, marks, v), isa \in e.isas,
         e = For("rv32", CInsn("fsw", 0, 7, {}, <<FC(2), CImmW, XC(7)>>))
  PROVE  ShortDecodes(w, isa, e, <<FC(2), CImmW, XC(7)>>, "cs_sw", fmt_frs2_offset_rs1)
<1> DEFINE args == <<FC(2), CImmW, XC(7)>>
           row == Row("cs_sw", fmt_frs2_offset_rs1, C({"fsw"}))
<1>1. Inside(args)
  BY ShortSpans DEF Inside
<1>2. row \in Rows
  BY DEF Rows, CompressedRows
<1> HIDE DEF args, row
<1>3. IsShort(e, "fsw", 0, 7, {}, args)
  BY <1>1 DEF IsShort, CInsn, Insn, For, NoMarks, args
<1>4. PlainOf(isa, "fsw", 0, 7)
  BY DEF PlainOf, PlainNames, PlainNames32, PlainNames64, CInsn, Insn, For
<1>5. rv_inst_opcode(w, isa) = e.name
  BY <1>3, <1>4, PlainOpcode
<1>6. "fsw" \in {"fsw"}
  OBVIOUS
<1>7. ShortDecodes(w, isa, e, args, "cs_sw", fmt_frs2_offset_rs1)
  BY <1>2, <1>3, <1>5, <1>6, ShortDecoded DEF row
<1> QED
  BY <1>7 DEF args

LEMMA C_sdDecoded ==
  ASSUME NEW w, NEW isa, NEW e, NEW marks, NEW v, Carries(w, e, marks, v), isa \in e.isas,
         e = For("rv64", CInsn("sd", 0, 7, {}, <<XC(2), CImmD, XC(7)>>))
  PROVE  ShortDecodes(w, isa, e, <<XC(2), CImmD, XC(7)>>, "cs_sd", fmt_rs2_offset_rs1)
<1> DEFINE args == <<XC(2), CImmD, XC(7)>>
           row == Row("cs_sd", fmt_rs2_offset_rs1, C({"sd"}))
<1>1. Inside(args)
  BY ShortSpans DEF Inside
<1>2. row \in Rows
  BY DEF Rows, CompressedRows
<1> HIDE DEF args, row
<1>3. IsShort(e, "sd", 0, 7, {}, args)
  BY <1>1 DEF IsShort, CInsn, Insn, For, NoMarks, args
<1>4. PlainOf(isa, "sd", 0, 7)
  BY DEF PlainOf, PlainNames, PlainNames32, PlainNames64, CInsn, Insn, For
<1>5. rv_inst_opcode(w, isa) = e.name
  BY <1>3, <1>4, PlainOpcode
<1>6. "sd" \in {"sd"}
  OBVIOUS
<1>7. ShortDecodes(w, isa, e, args, "cs_sd", fmt_rs2_offset_rs1)
  BY <1>2, <1>3, <1>5, <1>6, ShortDecoded DEF row
<1> QED
  BY <1>7 DEF args

LEMMA C_fldspDecoded ==
  ASSUME NEW w, NEW isa, NEW e, NEW marks, NEW v, Carries(w, e, marks, v), isa \in e.isas,
         e = CInsn("fldsp", 2, 1, {}, <<F(7), CImmLdsp, sp>>)
  PROVE  ShortDecodes(w, isa, e, <<F(7), CImmLdsp, sp>>, "ci_ldsp", fmt_frd_offset_rs1)
<1> DEFINE args == <<F(7), CImmLdsp, sp>>
           row == Row("ci_ldsp", fmt_frd_offset_rs1, C({"fldsp"}))
<1>1. Inside(args)
  BY ShortSpans DEF Inside
<1>2. row \in Rows
  BY DEF Rows, CompressedRows
<1> HIDE DEF args, row
<1>3. IsShort(e, "fldsp", 2, 1, {}, args)
  BY <1>1 DEF IsShort, CInsn, Insn, For, NoMarks, args
<1>4. PlainOf(isa, "fldsp", 2, 1)
  BY DEF PlainOf, PlainNames, PlainNames32, PlainNames64, CInsn, Insn, For
<1>5. rv_inst_opcode(w, isa) = e.name
  BY <1>3, <1>4, PlainOpcode
<1>6. "fldsp" \in {"fldsp"}
  OBVIOUS
<1>7. ShortDecodes(w, isa, e, args, "ci_ldsp", fmt_frd_offset_rs1)
  BY <1>2, <1>3, <1>5, <1>6, ShortDecoded DEF row
<1> QED
  BY <1>7 DEF args

LEMMA C_lwspDecoded ==
  ASSUME NEW w, NEW isa, NEW e, NEW marks, NEW v, Carries(w, e, marks, v), isa \in e.isas,
         e = CInsn("lwsp", 2, 2, {}, <<RdC, CImmLwsp, sp>>)
  PROVE  ShortDecodes(w, isa, e, <<RdC, CImmLwsp, sp>>, "ci_lwsp", fmt_rd_offset_rs1)
<1> DEFINE args == <<RdC, CImmLwsp, sp>>
           row == Row("ci_lwsp", fmt_rd_offset_rs1, C({"lwsp"}))
<1>1. Inside(args)
  BY ShortSpans DEF Inside
<1>2. row \in Rows
  BY DEF Rows, CompressedRows
<1> HIDE DEF args, row
<1>3. IsShort(e, "lwsp", 2, 2, {}, args)
  BY <1>1 DEF IsShort, CInsn, Insn, For, NoMarks, args
<1>4. PlainOf(isa, "lwsp", 2, 2)
  BY DEF PlainOf, PlainNames, PlainNames32, PlainNames64, CInsn, Insn, For
<1>5. rv_inst_opcode(w, isa) = e.name
  BY <1>3, <1>4, PlainOpcode
<1>6. "lwsp" \in {"lwsp"}
  OBVIOUS
<1>7. ShortDecodes(w, isa, e, args, "ci_lwsp", fmt_rd_offset_rs1)
  BY <1>2, <1>3, <1>5, <1>6, ShortDecoded DEF row
<1> QED
  BY <1>7 DEF args

LEMMA C_flwspDecoded ==
  ASSUME NEW w, NEW isa, NEW e, NEW marks, NEW v, Carries(w, e, marks, v), isa \in e.isas,
         e = For("rv32", CInsn("flwsp", 2, 3, {}, <<F(7), CImmLwsp, sp>>))
  PROVE  ShortDecodes(w, isa, e, <<F(7), CImmLwsp, sp>>, "ci_lwsp", fmt_frd_offset_rs1)
<1> DEFINE args == <<F(7), CImmLwsp, sp>>
           row == Row("ci_lwsp", fmt_frd_offset_rs1, C({"flwsp"}))
<1>1. Inside(args)
  BY ShortSpans DEF Inside
<1>2. row \in Rows
  BY DEF Rows, CompressedRows
<1> HIDE DEF args, row
<1>3. IsShort(e, "flwsp", 2, 3, {}, args)
  BY <1>1 DEF IsShort, CInsn, Insn, For, NoMarks, args
<1>4. PlainOf(isa, "flwsp", 2, 3)
  BY DEF PlainOf, PlainNames, PlainNames32, PlainNames64, CInsn, Insn, For
<1>5. rv_inst_opcode(w, isa) = e.name
  BY <1>3, <1>4, PlainOpcode
<1>6. "flwsp" \in {"flwsp"}
  OBVIOUS
<1>7. ShortDecodes(w, isa, e, args, "ci_lwsp", fmt_frd_offset_rs1)
  BY <1>2, <1>3, <1>5, <1>6, ShortDecoded DEF row
<1> QED
  BY <1>7 DEF args

LEMMA C_ldspDecoded ==
  ASSUME NEW w, NEW isa, NEW e, NEW marks, NEW v, Carries(w, e, marks, v), isa \in e.isas,
         e = For("rv64", CInsn("ldsp", 2, 3, {}, <<RdC, CImmLdsp, sp>>))
  PROVE  ShortDecodes(w, isa, e, <<RdC, CImmLdsp, sp>>, "ci_ldsp", fmt_rd_offset_rs1)
<1> DEFINE args == <<RdC, CImmLdsp, sp>>
           row == Row("ci_ldsp", fmt_rd_offset_rs1, C({"ldsp"}))
<1>1. Inside(args)
  BY ShortSpans DEF Inside
<1>2. row \in Rows
  BY DEF Rows, CompressedRows
<1> HIDE DEF args, row
<1>3. IsShort(e, "ldsp", 2, 3, {}, args)
  BY <1>1 DEF IsShort, CInsn, Insn, For, NoMarks, args
<1>4. PlainOf(isa, "ldsp", 2, 3)
  BY DEF PlainOf, PlainNames, PlainNames32, PlainNames64, CInsn, Insn, For
<1>5. rv_inst_opcode(w, isa) = e.name
  BY <1>3, <1>4, PlainOpcode
<1>6. "ldsp" \in {"ldsp"}
  OBVIOUS
<1>7. ShortDecodes(w, isa, e, args, "ci_ldsp", fmt_rd_offset_rs1)
  BY <1>2, <1>3, <1>5, <1>6, ShortDecoded DEF row
<1> QED
  BY <1>7 DEF args

LEMMA C_fsdspDecoded ==
  ASSUME NEW w, NEW isa, NEW e, NEW marks, NEW v, Carries(w, e, marks, v), isa \in e.isas,
         e = CInsn("fsdsp", 2, 5, {}, <<F(2), CImmSdsp, sp>>)
  PROVE  ShortDecodes(w, isa, e, <<F(2), CImmSdsp, sp>>, "css_sdsp", fmt_frs2_offset_rs1)
<1> DEFINE args == <<F(2), CImmSdsp, sp>>
           row == Row("css_sdsp", fmt_frs2_offset_rs1, C({"fsdsp"}))
<1>1. Inside(args)
  BY ShortSpans DEF Inside
<1>2. row \in Rows
  BY DEF Rows, CompressedRows
<1> HIDE DEF args, row
<1>3. IsShort(e, "fsdsp", 2, 5, {}, args)
  BY <1>1 DEF IsShort, CInsn, Insn, For, NoMarks, args
<1>4. PlainOf(isa, "fsdsp", 2, 5)
  BY DEF PlainOf, PlainNames, PlainNames32, PlainNames64, CInsn, Insn, For
<1>5. rv_inst_opcode(w, isa) = e.name
  BY <1>3, <1>4, PlainOpcode
<1>6. "fsdsp" \in {"fsdsp"}
  OBVIOUS
<1>7. ShortDecodes(w, isa, e, args, "css_sdsp", fmt_frs2_offset_rs1)
  BY <1>2, <1>3, <1>5, <1>6, ShortDecoded DEF row
<1> QED
  BY <1>7 DEF args

LEMMA C_swspDecoded ==
  ASSUME NEW w, NEW isa, NEW e, NEW marks, NEW v, Carries(w, e, marks, v), isa \in e.isas,
         e = CInsn("swsp", 2, 6, {}, <<X(2), CImmSwsp, sp>>)
  PROVE  ShortDecodes(w, isa, e, <<X(2), CImmSwsp, sp>>, "css_swsp", fmt_rs2_offset_rs1)
<1> DEFINE args == <<X(2), CImmSwsp, sp>>
           row == Row("css_swsp", fmt_rs2_offset_rs1, C({"swsp"}))
<1>1. Inside(args)
  BY ShortSpans DEF Inside
<1>2. row \in Rows
  BY DEF Rows, CompressedRows
<1> HIDE DEF args, row
<1>3. IsShort(e, "swsp", 2, 6, {}, args)
  BY <1>1 DEF IsShort, CInsn, Insn, For, NoMarks, args
<1>4. PlainOf(isa, "swsp", 2, 6)
  BY DEF PlainOf, PlainNames, PlainNames32, PlainNames64, CInsn, Insn, For
<1>5. rv_inst_opcode(w, isa) = e.name
  BY <1>3, <1>4, PlainOpcode
<1>6. "swsp" \in {"swsp"}
  OBVIOUS
<1>7. ShortDecodes(w, isa, e, args, "css_swsp", fmt_rs2_offset_rs1)
  BY <1>2, <1>3, <1>5, <1>6, ShortDecoded DEF row
<1> QED
  BY <1>7 DEF args

LEMMA C_fswspDecoded ==
  ASSUME NEW w, NEW isa, NEW e, NEW marks, NEW v, Carries(w, e, marks, v), isa \in e.isas,
         e = For("rv32", CInsn("fswsp", 2, 7, {}, <<F(2), CImmSwsp, sp>>))
  PROVE  ShortDecodes(w, isa, e, <<F(2), CImmSwsp, sp>>, "css_swsp", fmt_frs2_offset_rs1)
<1> DEFINE args == <<F(2), CImmSwsp, sp>>
           row == Row("css_swsp", fmt_frs2_offset_rs1, C({"fswsp"}))
<1>1. Inside(args)
  BY ShortSpans DEF Inside
<1>2. row \in Rows
  BY DEF Rows, CompressedRows
<1> HIDE DEF args, row
<1>3. IsShort(e, "fswsp", 2, 7, {}, args)
  BY <1>1 DEF IsShort, CInsn, Insn, For, NoMarks, args
<1>4. PlainOf(isa, "fswsp", 2, 7)
  BY DEF PlainOf, PlainNames, PlainNames32, PlainNames64, CInsn, Insn, For
<1>5. rv_inst_opcode(w, isa) = e.name
  BY <1>3, <1>4, PlainOpcode
<1>6. "fswsp" \in {"fswsp"}
  OBVIOUS
<1>7. ShortDecodes(w, isa, e, args, "css_swsp", fmt_frs2_offset_rs1)
  BY <1>2, <1>3, <1>5, <1>6, ShortDecoded DEF row
<1> QED
  BY <1>7 DEF args

LEMMA C_sdspDecoded ==
  ASSUME NEW w, NEW isa, NEW e, NEW marks, NEW v, Carries(w, e, marks, v), isa \in e.isas,
         e = For("rv64", CInsn("sdsp", 2, 7, {}, <<X(2), CImmSdsp, sp>>))
  PROVE  ShortDecodes(w, isa, e, <<X(2), CImmSdsp, sp>>, "css_sdsp", fmt_rs2_offset_rs1)
<1> DEFINE args == <<X(2), CImmSdsp, sp>>
           row == Row("css_sdsp", fmt_rs2_offset_rs1, C({"sdsp"}))
<1>1. Inside(args)
  BY ShortSpans DEF Inside
<1>2. row \in Rows
  BY DEF Rows, CompressedRows
<1> HIDE DEF args, row
<1>3. IsShort(e, "sdsp", 2, 7, {}, args)
  BY <1>1 DEF IsShort, CInsn, Insn, For, NoMarks, args
<1>4. PlainOf(isa, "sdsp", 2, 7)
  BY DEF PlainOf, PlainNames, PlainNames32, PlainNames64, CInsn, Insn, For
<1>5. rv_inst_opcode(w, isa) = e.name
  BY <1>3, <1>4, PlainOpcode
<1>6. "sdsp" \in {"sdsp"}
  OBVIOUS
<1>7. ShortDecodes(w, isa, e, args, "css_sdsp", fmt_rs2_offset_rs1)
  BY <1>2, <1>3, <1>5, <1>6, ShortDecoded DEF row
<1> QED
  BY <1>7 DEF args

LEMMA C_addiwDecoded ==
  ASSUME NEW w, NEW isa, NEW e, NEW marks, NEW v, Carries(w, e, marks, v), isa \in e.isas,
         e = For("rv64", CInsn("addiw", 1, 1, {}, <<RdC, RdC, CImm>>))
  PROVE  ShortDecodes(w, isa, e, <<RdC, RdC, CImm>>, "ci", fmt_rd_rs1_imm)
<1> DEFINE args == <<RdC, RdC, CImm>>
           row == Row("ci", fmt_rd_rs1_imm, C({"addi", "addiw"}))
<1>1. Inside(args)
  BY ShortSpans DEF Inside
<1>2. row \in Rows
  BY DEF Rows, CompressedRows
<1> HIDE DEF args, row
<1>3. IsShort(e, "addiw", 1, 1, {}, args)
  BY <1>1 DEF IsShort, CInsn, Insn, For, NoMarks, args
<1>4. PlainOf(isa, "addiw", 1, 1)
  BY DEF PlainOf, PlainNames, PlainNames32, PlainNames64, CInsn, Insn, For
<1>5. rv_inst_opcode(w, isa) = e.name
  BY <1>3, <1>4, PlainOpcode
<1>6. "addiw" \in {"addi", "addiw"}
  OBVIOUS
<1>7. ShortDecodes(w, isa, e, args, "ci", fmt_rd_rs1_imm)
  BY <1>2, <1>3, <1>5, <1>6, ShortDecoded DEF row
<1> QED
  BY <1>7 DEF args

LEMMA C_liDecoded ==
  ASSUME NEW w, NEW isa, NEW e, NEW marks, NEW v, Carries(w, e, marks, v), isa \in e.isas,
         e = CInsn("li", 1, 2, {}, <<RdC, zero, CImm>>)
  PROVE  ShortDecodes(w, isa, e, <<RdC, zero, CImm>>, "ci_li", fmt_rd_rs1_imm)
<1> DEFINE args == <<RdC, zero, CImm>>
           row == Row("ci_li", fmt_rd_rs1_imm, C({"li"}))
<1>1. Inside(args)
  BY ShortSpans DEF Inside
<1>2. row \in Rows
  BY DEF Rows, CompressedRows
<1> HIDE DEF args, row
<1>3. IsShort(e, "li", 1, 2, {}, args)
  BY <1>1 DEF IsShort, CInsn, Insn, For, NoMarks, args
<1>4. PlainOf(isa, "li", 1, 2)
  BY DEF PlainOf, PlainNames, PlainNames32, PlainNames64, CInsn, Insn, For
<1>5. rv_inst_opcode(w, isa) = e.name
  BY <1>3, <1>4, PlainOpcode
<1>6. "li" \in {"li"}
  OBVIOUS
<1>7. ShortDecodes(w, isa, e, args, "ci_li", fmt_rd_rs1_imm)
  BY <1>2, <1>3, <1>5, <1>6, ShortDecoded DEF row
<1> QED
  BY <1>7 DEF args

LEMMA C_slliDecoded ==
  ASSUME NEW w, NEW isa, NEW e, NEW marks, NEW v, Carries(w, e, marks, v), isa \in e.isas,
         e = CInsn("slli", 2, 0, {}, <<RdC, RdC, CShamt>>)
  PROVE  ShortDecodes(w, isa, e, <<RdC, RdC, CShamt>>, "ci_sh6", fmt_rd_rs1_imm)
<1> DEFINE args == <<RdC, RdC, CShamt>>
           row == Row("ci_sh6", fmt_rd_rs1_imm, C({"slli"}))
<1>1. Inside(args)
  BY ShortSpans DEF Inside
<1>2. row \in Rows
  BY DEF Rows, CompressedRows
<1> HIDE DEF args, row
<1>3. IsShort(e, "slli", 2, 0, {}, args)
  BY <1>1 DEF IsShort, CInsn, Insn, For, NoMarks, args
<1>4. PlainOf(isa, "slli", 2, 0)
  BY DEF PlainOf, PlainNames, PlainNames32, PlainNames64, CInsn, Insn, For
<1>5. rv_inst_opcode(w, isa) = e.name
  BY <1>3, <1>4, PlainOpcode
<1>6. "slli" \in {"slli"}
  OBVIOUS
<1>7. ShortDecodes(w, isa, e, args, "ci_sh6", fmt_rd_rs1_imm)
  BY <1>2, <1>3, <1>5, <1>6, ShortDecoded DEF row
<1> QED
  BY <1>7 DEF args

LEMMA C_jDecoded ==
  ASSUME NEW w, NEW isa, NEW e, NEW marks, NEW v, Carries(w, e, marks, v), isa \in e.isas,
         e = CInsn("j", 1, 5, {}, <<zero, CImmJ>>)
  PROVE  ShortDecodes(w, isa, e, <<zero, CImmJ>>, "cj", fmt_rd_offset)
<1> DEFINE args == <<zero, CImmJ>>
           row == Row("cj", fmt_rd_offset, C({"j"}))
<1>1. Inside(args)
  BY ShortSpans DEF Inside
<1>2. row \in Rows
  BY DEF Rows, CompressedRows
<1> HIDE DEF args, row
<1>3. IsShort(e, "j", 1, 5, {}, args)
  BY <1>1 DEF IsShort, CInsn, Insn, For, NoMarks, args
<1>4. PlainOf(isa, "j", 1, 5)
  BY DEF PlainOf, PlainNames, PlainNames32, PlainNames64, CInsn, Insn, For
<1>5. rv_inst_opcode(w, isa) = e.name
  BY <1>3, <1>4, PlainOpcode
<1>6. "j" \in {"j"}
  OBVIOUS
<1>7. ShortDecodes(w, isa, e, args, "cj", fmt_rd_offset)
  BY <1>2, <1>3, <1>5, <1>6, ShortDecoded DEF row
<1> QED
  BY <1>7 DEF args

LEMMA C_jalDecoded ==
  ASSUME NEW w, NEW isa, NEW e, NEW marks, NEW v, Carries(w, e, marks, v), isa \in e.isas,
         e = For("rv32", CInsn("jal", 1, 1, {}, <<ra, CImmJ>>))
  PROVE  ShortDecodes(w, isa, e, <<ra, CImmJ>>, "cj_jal", fmt_rd_offset)
<1> DEFINE args == <<ra, CImmJ>>
           row == Row("cj_jal", fmt_rd_offset, C({"jal"}))
<1>1. Inside(args)
  BY ShortSpans DEF Inside
<1>2. row \in Rows
  BY DEF Rows, CompressedRows
<1> HIDE DEF args, row
<1>3. IsShort(e, "jal", 1, 1, {}, args)
  BY <1>1 DEF IsShort, CInsn, Insn, For, NoMarks, args
<1>4. PlainOf(isa, "jal", 1, 1)
  BY DEF PlainOf, PlainNames, PlainNames32, PlainNames64, CInsn, Insn, For
<1>5. rv_inst_opcode(w, isa) = e.name
  BY <1>3, <1>4, PlainOpcode
<1>6. "jal" \in {"jal"}
  OBVIOUS
<1>7. ShortDecodes(w, isa, e, args, "cj_jal", fmt_rd_offset)
  BY <1>2, <1>3, <1>5, <1>6, ShortDecoded DEF row
<1> QED
  BY <1>7 DEF args

LEMMA C_beqzDecoded ==
  ASSUME NEW w, NEW isa, NEW e, NEW marks, NEW v, Carries(w, e, marks, v), isa \in e.isas,
         e = CInsn("beqz", 1, 6, {}, <<XC(7), zero, CImmB>>)
  PROVE  ShortDecodes(w, isa, e, <<XC(7), zero, CImmB>>, "cb", fmt_rs1_rs2_offset)
<1> DEFINE args == <<XC(7), zero, CImmB>>
           row == Row("cb", fmt_rs1_rs2_offset, C({"beqz", "bnez"}))
<1>1. Inside(args)
  BY ShortSpans DEF Inside
<1>2. row \in Rows
  BY DEF Rows, CompressedRows
<1> HIDE DEF args, row
<1>3. IsShort(e, "beqz", 1, 6, {}, args)
  BY <1>1 DEF IsShort, CInsn, Insn, For, NoMarks, args
<1>4. PlainOf(isa, "beqz", 1, 6)
  BY DEF PlainOf, PlainNames, PlainNames32, PlainNames64, CInsn, Insn, For
<1>5. rv_inst_opcode(w, isa) = e.name
  BY <1>3, <1>4, PlainOpcode
<1>6. "beqz" \in {"beqz", "bnez"}
  OBVIOUS
<1>7. ShortDecodes(w, isa, e, args, "cb", fmt_rs1_rs2_offset)
  BY <1>2, <1>3, <1>5, <1>6, ShortDecoded DEF row
<1> QED
  BY <1>7 DEF args

LEMMA C_bnezDecoded ==
  ASSUME NEW w, NEW isa, NEW e, NEW marks, NEW v, Carries(w, e, marks, v), isa \in e.isas,
         e = CInsn("bnez", 1, 7, {}, <<XC(7), zero, CImmB>>)
  PROVE  ShortDecodes(w, isa, e, <<XC(7), zero, CImmB>>, "cb", fmt_rs1_rs2_offset)
<1> DEFINE args == <<XC(7), zero, CImmB>>
           row == Row("cb", fmt_rs1_rs2_offset, C({"beqz", "bnez"}))
<1>1. Inside(args)
  BY ShortSpans DEF Inside
<1>2. row \in Rows
  BY DEF Rows, CompressedRows
<1> HIDE DEF args, row
<1>3. IsShort(e, "bnez", 1, 7, {}, args)
  BY <1>1 DEF IsShort, CInsn, Insn, For, NoMarks, args
<1>4. PlainOf(isa, "bnez", 1, 7)
  BY DEF PlainOf, PlainNames, PlainNames32, PlainNames64, CInsn, Insn, For
<1>5. rv_inst_opcode(w, isa) = e.name
  BY <1>3, <1>4, PlainOpcode
<1>6. "bnez" \in {"beqz", "bnez"}
  OBVIOUS
<1>7. ShortDecodes(w, isa, e, args, "cb", fmt_rs1_rs2_offset)
  BY <1>2, <1>3, <1>5, <1>6, ShortDecoded DEF row
<1> QED
  BY <1>7 DEF args

-----------------------------------------------------------------------------
(* Bits of small numbers.                                                  *)
LEMMA SmallBits ==
  /\ \A j \in 0 .. 10 : BitOf(0, j) = 0
  /\ BitOf(1, 0) = 1 /\ BitOf(1, 1) = 0
  /\ BitOf(2, 0) = 0 /\ BitOf(2, 1) = 1 /\ BitOf(2, 2) = 0 /\ BitOf(2, 3) = 0 /\ BitOf(2, 4) = 0
  /\ BitOf(3, 0) = 1 /\ BitOf(3, 1) = 1
<1>1. /\ BitOf(0, 0) = 0 /\ BitOf(0, 1) = 0 /\ BitOf(0, 2) = 0 /\ BitOf(0, 3) = 0
      /\ BitOf(0, 4) = 0 /\ BitOf(0, 5) = 0 /\ BitOf(0, 6) = 0 /\ BitOf(0, 7) = 0
      /\ BitOf(0, 8) = 0 /\ BitOf(0, 9) = 0 /\ BitOf(0, 10) = 0
  BY DEF BitOf
<1>2. \A j \in 0 .. 10 : BitOf(0, j) = 0
  BY <1>1
<1>3. /\ BitOf(1, 0) = 1 /\ BitOf(1, 1) = 0
      /\ BitOf(2, 0) = 0 /\ BitOf(2, 1) = 1 /\ BitOf(2, 2) = 0 /\ BitOf(2, 3) = 0 /\ BitOf(2, 4) = 0
      /\ BitOf(3, 0) = 1 /\ BitOf(3, 1) = 1
  BY DEF BitOf
<1> QED
  BY <1>2, <1>3

LEMMA SmallNumbers ==
  /\ Bits(0, 0, 1) = 0 /\ Bits(0, 0, 2) = 0 /\ Bits(0, 0, 5) = 0 /\ Bits(0, 0, 11) = 0
  /\ Bits(1, 0, 1) = 1 /\ Bits(1, 0, 2) = 1 /\ Bits(2, 0, 2) = 2 /\ Bits(3, 0, 2) = 3 /\ Bits(2, 0, 5) = 2
BY DEF Bits

LEMMA TwoInField ==
  /\ Field(7, 5, 2) \subseteq 2 .. 12
  /\ \A k \in 7 .. 11 : k \in Field(7, 5, 2) <=> BitOf(2, k - 7) = 1
<1>1. \A k \in Nat : k \in Field(7, 5, 2) <=> 7 <= k /\ k < 7 + 5 /\ BitOf(2, k - 7) = 1
  BY InField
<1>2. \A k \in Field(7, 5, 2) : k \in Nat
  BY DEF Field, Place
<1> QED
  BY <1>1, <1>2

LEMMA C_nopDecoded ==
  ASSUME NEW w, NEW isa, NEW e, NEW marks, NEW v, Carries(w, e, marks, v),
         e = CInsn("nop", 1, 0, {}, << >>)
  PROVE  ShortDecodes(w, isa, e, << >>, "ci_none", fmt_none)
<1> DEFINE args == << >>
           row == Row("ci_none", fmt_none, C({"nop", "ebreak"}))
           more == {}
<1>1. Inside(args)
  BY ShortSpans DEF Inside
<1>2. row \in Rows
  BY DEF Rows, CompressedRows
<1>3. more \subseteq 2 .. 12
  OBVIOUS
<1> HIDE DEF args, row, more
<1>4. IsShort(e, "nop", 1, 0, more, args)
  BY <1>1, <1>3 DEF IsShort, CInsn, Insn, NoMarks, args, more
<1>5. w % 4 = 1 /\ Bits(w, 13, 3) = 0 /\ e.name = <<"c", "nop">> /\ w \in Halfword
  BY <1>4, ShortFields, ShortHalfword DEF IsShort
<1>6. Bits(w, 2, 11) = 0
  <2>1. Inner(args, more, 2, 11, 12, 0)
    <3>1. Clear(args, 2, 12)
      BY ShortSpans DEF Clear, Off, args
    <3>2. \A k \in 2 .. 12 : k \in more <=> BitOf(0, k - 2) = 1
      BY SmallBits DEF more
    <3> QED
      BY <3>1, <3>2, SmallNumbers DEF Inner
  <2> QED
    BY <1>4, <2>1, ShortField
<1>7. rv_inst_opcode(w, isa) = <<"c", "nop">>
  <2> DEFINE table == <<"nop", IF isa = "rv32" THEN "jal" ELSE "addiw",
                       "li", IF Bits(w, 7, 5) = 2 THEN "addi16sp" ELSE "lui", "-", "j", "beqz", "bnez">>
  <2>1. Quadrant1(w, isa) = CaseC(table, 0)
    BY <1>5, <1>6 DEF Quadrant1
  <2>2. Case(table, 0) = <<"nop">>
    BY DEF Case
  <2>3. <<"nop">> # op_illegal
    BY DEF op_illegal
  <2> HIDE DEF table
  <2>4. Quadrant1(w, isa) = <<"c", "nop">>
    BY <2>1, <2>2, <2>3, CaseCOf
  <2> QED
    BY <1>5, <2>4, QuadrantOf
<1>8. "nop" \in {"nop", "ebreak"}
  OBVIOUS
<1>9. ShortDecodes(w, isa, e, args, "ci_none", fmt_none)
  BY <1>2, <1>4, <1>5, <1>7, <1>8, ShortDecoded DEF row
<1> QED
  BY <1>9 DEF args

LEMMA C_addiDecoded ==
  ASSUME NEW w, NEW isa, NEW e, NEW marks, NEW v, Carries(w, e, marks, v),
         e = CInsn("addi", 1, 0, {}, <<RdC, RdC, CImmAddi>>)
  PROVE  ShortDecodes(w, isa, e, <<RdC, RdC, CImmAddi>>, "ci", fmt_rd_rs1_imm)
<1> DEFINE args == <<RdC, RdC, CImmAddi>>
           row == Row("ci", fmt_rd_rs1_imm, C({"addi", "addiw"}))
           more == {}
<1>1. Inside(args)
  BY ShortSpans DEF Inside
<1>2. row \in Rows
  BY DEF Rows, CompressedRows
<1>3. more \subseteq 2 .. 12
  OBVIOUS
<1> HIDE DEF args, row, more
<1>4. IsShort(e, "addi", 1, 0, more, args)
  BY <1>1, <1>3 DEF IsShort, CInsn, Insn, NoMarks, args, more
<1>5. w % 4 = 1 /\ Bits(w, 13, 3) = 0 /\ e.name = <<"c", "addi">> /\ w \in Halfword
  BY <1>4, ShortFields, ShortHalfword DEF IsShort
<1>6. Bits(w, 7, 5) # 0
  <2>1. Held(RdC, v[1], w)
    <3>1. e.args = args /\ 1 \in DOMAIN args /\ args[1] = RdC
      BY <1>4 DEF IsShort, args
    <3> QED
      BY <3>1 DEF Carries
  <2> QED
    BY <1>5, <2>1, NonZeroRegisterHeld, HalfwordIsWord DEF RdC
<1>7. Bits(w, 2, 11) # 0
  <2>1. w \in Nat
    BY <1>5 DEF Halfword
  <2>2. 2^2 = 4 /\ 2^11 = 2048 /\ 2^7 = 128 /\ 2^5 = 32
    BY SMT
  <2> SUFFICES ASSUME Bits(w, 2, 11) = 0 PROVE FALSE
    OBVIOUS
  <2>3. (w \div 4) % 2048 = 0 /\ (w \div 128) % 32 # 0
    BY <1>6, <2>2 DEF Bits
  <2> DEFINE q == w \div 4
             k == q \div 2048
  <2>4. q \in Nat /\ k \in Nat /\ 4 * q <= w /\ w < 4 * q + 4
    BY <2>1
  <2>5. q = 2048 * k
    BY <2>3, <2>4
  <2> HIDE DEF q, k
  <2>6. w \div 128 = 64 * k
    BY <2>1, <2>4, <2>5
  <2>7. (64 * k) % 32 = 0
    BY <2>4
  <2> QED
    BY <2>3, <2>6, <2>7
<1>8. rv_inst_opcode(w, isa) = <<"c", "addi">>
  <2> DEFINE table == <<"addi", IF isa = "rv32" THEN "jal" ELSE "addiw",
                       "li", IF Bits(w, 7, 5) = 2 THEN "addi16sp" ELSE "lui", "-", "j", "beqz", "bnez">>
  <2>1. Quadrant1(w, isa) = CaseC(table, 0)
    BY <1>5, <1>6, <1>7 DEF Quadrant1
  <2>2. Case(table, 0) = <<"addi">>
    BY DEF Case
  <2>3. <<"addi">> # op_illegal
    BY DEF op_illegal
  <2> HIDE DEF table
  <2>4. Quadrant1(w, isa) = <<"c", "addi">>
    BY <2>1, <2>2, <2>3, CaseCOf
  <2> QED
    BY <1>5, <2>4, QuadrantOf
<1>9. "addi" \in {"addi", "addiw"}
  OBVIOUS
<1>10. ShortDecodes(w, isa, e, args, "ci", fmt_rd_rs1_imm)
  BY <1>2, <1>4, <1>5, <1>8, <1>9, ShortDecoded DEF row
<1> QED
  BY <1>10 DEF args

LEMMA C_addi16spDecoded ==
  ASSUME NEW w, NEW isa, NEW e, NEW marks, NEW v, Carries(w, e, marks, v),
         e = CInsn("addi16sp", 1, 3, Field(7, 5, 2), <<sp, sp, CImm16>>)
  PROVE  ShortDecodes(w, isa, e, <<sp, sp, CImm16>>, "ci_16sp", fmt_rd_rs1_imm)
<1> DEFINE args == <<sp, sp, CImm16>>
           row == Row("ci_16sp", fmt_rd_rs1_imm, C({"addi16sp"}))
           more == Field(7, 5, 2)
<1>1. Inside(args)
  BY ShortSpans DEF Inside
<1>2. row \in Rows
  BY DEF Rows, CompressedRows
<1>3. more \subseteq 2 .. 12
  BY TwoInField
<1> HIDE DEF args, row, more
<1>4. IsShort(e, "addi16sp", 1, 3, more, args)
  BY <1>1, <1>3 DEF IsShort, CInsn, Insn, NoMarks, args, more
<1>5. w % 4 = 1 /\ Bits(w, 13, 3) = 3 /\ e.name = <<"c", "addi16sp">> /\ w \in Halfword
  BY <1>4, ShortFields, ShortHalfword DEF IsShort
<1>6. Bits(w, 7, 5) = 2
  <2>1. Inner(args, more, 7, 5, 11, 2)
    <3>1. Clear(args, 7, 11)
      BY ShortSpans DEF Clear, Off, args
    <3>2. \A k \in 7 .. 11 : k \in more <=> BitOf(2, k - 7) = 1
      BY SmallBits, TwoInField DEF more
    <3> QED
      BY <3>1, <3>2, SmallNumbers DEF Inner
  <2> QED
    BY <1>4, <2>1, ShortField
<1>7. rv_inst_opcode(w, isa) = <<"c", "addi16sp">>
  <2> DEFINE table == <<IF Bits(w, 2, 11) = 0 THEN "nop" ELSE "addi", IF isa = "rv32" THEN "jal" ELSE "addiw",
                       "li", "addi16sp", "-", "j", "beqz", "bnez">>
  <2>1. Quadrant1(w, isa) = CaseC(table, 3)
    BY <1>5, <1>6 DEF Quadrant1
  <2>2. Case(table, 3) = <<"addi16sp">>
    BY DEF Case
  <2>3. <<"addi16sp">> # op_illegal
    BY DEF op_illegal
  <2> HIDE DEF table
  <2>4. Quadrant1(w, isa) = <<"c", "addi16sp">>
    BY <2>1, <2>2, <2>3, CaseCOf
  <2> QED
    BY <1>5, <2>4, QuadrantOf
<1>8. "addi16sp" \in {"addi16sp"}
  OBVIOUS
<1>9. ShortDecodes(w, isa, e, args, "ci_16sp", fmt_rd_rs1_imm)
  BY <1>2, <1>4, <1>5, <1>7, <1>8, ShortDecoded DEF row
<1> QED
  BY <1>9 DEF args

LEMMA C_luiDecoded ==
  ASSUME NEW w, NEW isa, NEW e, NEW marks, NEW v, Carries(w, e, marks, v),
         e = CInsn("lui", 1, 3, {}, <<RdLui, CImmLui>>)
  PROVE  ShortDecodes(w, isa, e, <<RdLui, CImmLui>>, "ci_lui", fmt_rd_imm)
<1> DEFINE args == <<RdLui, CImmLui>>
           row == Row("ci_lui", fmt_rd_imm, C({"lui"}))
           more == {}
<1>1. Inside(args)
  BY ShortSpans DEF Inside
<1>2. row \in Rows
  BY DEF Rows, CompressedRows
<1>3. more \subseteq 2 .. 12
  OBVIOUS
<1> HIDE DEF args, row, more
<1>4. IsShort(e, "lui", 1, 3, more, args)
  BY <1>1, <1>3 DEF IsShort, CInsn, Insn, NoMarks, args, more
<1>5. w % 4 = 1 /\ Bits(w, 13, 3) = 3 /\ e.name = <<"c", "lui">> /\ w \in Halfword
  BY <1>4, ShortFields, ShortHalfword DEF IsShort
<1>6. Bits(w, 7, 5) # 2
  <2>1. Held(RdLui, v[1], w)
    <3>1. e.args = args /\ 1 \in DOMAIN args /\ args[1] = RdLui
      BY <1>4 DEF IsShort, args
    <3> QED
      BY <3>1 DEF Carries
  <2> QED
    BY <1>5, <2>1, NeitherZeroNorSpHeld, HalfwordIsWord DEF RdLui, RdC
<1>7. rv_inst_opcode(w, isa) = <<"c", "lui">>
  <2> DEFINE table == <<IF Bits(w, 2, 11) = 0 THEN "nop" ELSE "addi", IF isa = "rv32" THEN "jal" ELSE "addiw",
                       "li", "lui", "-", "j", "beqz", "bnez">>
  <2>1. Quadrant1(w, isa) = CaseC(table, 3)
    BY <1>5, <1>6 DEF Quadrant1
  <2>2. Case(table, 3) = <<"lui">>
    BY DEF Case
  <2>3. <<"lui">> # op_illegal
    BY DEF op_illegal
  <2> HIDE DEF table
  <2>4. Quadrant1(w, isa) = <<"c", "lui">>
    BY <2>1, <2>2, <2>3, CaseCOf
  <2> QED
    BY <1>5, <2>4, QuadrantOf
<1>8. "lui" \in {"lui"}
  OBVIOUS
<1>9. ShortDecodes(w, isa, e, args, "ci_lui", fmt_rd_imm)
  BY <1>2, <1>4, <1>5, <1>7, <1>8, ShortDecoded DEF row
<1> QED
  BY <1>9 DEF args

LEMMA C_srliDecoded ==
  ASSUME NEW w, NEW isa, NEW e, NEW marks, NEW v, Carries(w, e, marks, v),
         e = CInsn("srli", 1, 4, {}, <<XC(7), XC(7), CShamt>>)
  PROVE  ShortDecodes(w, isa, e, <<XC(7), XC(7), CShamt>>, "cb_sh6", fmt_rd_rs1_imm)
<1> DEFINE args == <<XC(7), XC(7), CShamt>>
           row == Row("cb_sh6", fmt_rd_rs1_imm, C({"srli", "srai"}))
           more == {}
<1>1. Inside(args)
  BY ShortSpans DEF Inside
<1>2. row \in Rows
  BY DEF Rows, CompressedRows
<1>3. more \subseteq 2 .. 12
  OBVIOUS
<1> HIDE DEF args, row, more
<1>4. IsShort(e, "srli", 1, 4, more, args)
  BY <1>1, <1>3 DEF IsShort, CInsn, Insn, NoMarks, args, more
<1>5. w % 4 = 1 /\ Bits(w, 13, 3) = 4 /\ e.name = <<"c", "srli">> /\ w \in Halfword
  BY <1>4, ShortFields, ShortHalfword DEF IsShort
<1>6. Bits(w, 10, 2) = 0
  <2>1. Inner(args, more, 10, 2, 11, 0)
    <3>1. Clear(args, 10, 11)
      BY ShortSpans DEF Clear, Off, args
    <3>2. \A k \in 10 .. 11 : k \in more <=> BitOf(0, k - 10) = 1
      BY SmallBits DEF more
    <3> QED
      BY <3>1, <3>2, SmallNumbers DEF Inner
  <2> QED
    BY <1>4, <2>1, ShortField
<1>7. rv_inst_opcode(w, isa) = <<"c", "srli">>
  <2> DEFINE table == <<"srli", "srai", "andi">>
  <2>1. Quadrant1(w, isa) = CompressedAlu(w)
    BY <1>5 DEF Quadrant1
  <2>2. CompressedAlu(w) = CaseC(table, 0)
    BY <1>5, <1>6 DEF CompressedAlu
  <2>3. Case(table, 0) = <<"srli">>
    BY DEF Case
  <2>4. <<"srli">> # op_illegal
    BY DEF op_illegal
  <2> HIDE DEF table
  <2>5. Quadrant1(w, isa) = <<"c", "srli">>
    BY <2>1, <2>2, <2>3, <2>4, CaseCOf
  <2> QED
    BY <1>5, <2>5, QuadrantOf
<1>8. "srli" \in {"srli", "srai"}
  OBVIOUS
<1>9. ShortDecodes(w, isa, e, args, "cb_sh6", fmt_rd_rs1_imm)
  BY <1>2, <1>4, <1>5, <1>7, <1>8, ShortDecoded DEF row
<1> QED
  BY <1>9 DEF args

LEMMA C_sraiDecoded ==
  ASSUME NEW w, NEW isa, NEW e, NEW marks, NEW v, Carries(w, e, marks, v),
         e = CInsn("srai", 1, 4, {10}, <<XC(7), XC(7), CShamt>>)
  PROVE  ShortDecodes(w, isa, e, <<XC(7), XC(7), CShamt>>, "cb_sh6", fmt_rd_rs1_imm)
<1> DEFINE args == <<XC(7), XC(7), CShamt>>
           row == Row("cb_sh6", fmt_rd_rs1_imm, C({"srli", "srai"}))
           more == {10}
<1>1. Inside(args)
  BY ShortSpans DEF Inside
<1>2. row \in Rows
  BY DEF Rows, CompressedRows
<1>3. more \subseteq 2 .. 12
  OBVIOUS
<1> HIDE DEF args, row, more
<1>4. IsShort(e, "srai", 1, 4, more, args)
  BY <1>1, <1>3 DEF IsShort, CInsn, Insn, NoMarks, args, more
<1>5. w % 4 = 1 /\ Bits(w, 13, 3) = 4 /\ e.name = <<"c", "srai">> /\ w \in Halfword
  BY <1>4, ShortFields, ShortHalfword DEF IsShort
<1>6. Bits(w, 10, 2) = 1
  <2>1. Inner(args, more, 10, 2, 11, 1)
    <3>1. Clear(args, 10, 11)
      BY ShortSpans DEF Clear, Off, args
    <3>2. \A k \in 10 .. 11 : k \in more <=> BitOf(1, k - 10) = 1
      BY SmallBits DEF more
    <3> QED
      BY <3>1, <3>2, SmallNumbers DEF Inner
  <2> QED
    BY <1>4, <2>1, ShortField
<1>7. rv_inst_opcode(w, isa) = <<"c", "srai">>
  <2> DEFINE table == <<"srli", "srai", "andi">>
  <2>1. Quadrant1(w, isa) = CompressedAlu(w)
    BY <1>5 DEF Quadrant1
  <2>2. CompressedAlu(w) = CaseC(table, 1)
    BY <1>5, <1>6 DEF CompressedAlu
  <2>3. Case(table, 1) = <<"srai">>
    BY DEF Case
  <2>4. <<"srai">> # op_illegal
    BY DEF op_illegal
  <2> HIDE DEF table
  <2>5. Quadrant1(w, isa) = <<"c", "srai">>
    BY <2>1, <2>2, <2>3, <2>4, CaseCOf
  <2> QED
    BY <1>5, <2>5, QuadrantOf
<1>8. "srai" \in {"srli", "srai"}
  OBVIOUS
<1>9. ShortDecodes(w, isa, e, args, "cb_sh6", fmt_rd_rs1_imm)
  BY <1>2, <1>4, <1>5, <1>7, <1>8, ShortDecoded DEF row
<1> QED
  BY <1>9 DEF args

LEMMA C_andiDecoded ==
  ASSUME NEW w, NEW isa, NEW e, NEW marks, NEW v, Carries(w, e, marks, v),
         e = CInsn("andi", 1, 4, {11}, <<XC(7), XC(7), CImm>>)
  PROVE  ShortDecodes(w, isa, e, <<XC(7), XC(7), CImm>>, "cb_imm", fmt_rd_rs1_imm)
<1> DEFINE args == <<XC(7), XC(7), CImm>>
           row == Row("cb_imm", fmt_rd_rs1_imm, C({"andi"}))
           more == {11}
<1>1. Inside(args)
  BY ShortSpans DEF Inside
<1>2. row \in Rows
  BY DEF Rows, CompressedRows
<1>3. more \subseteq 2 .. 12
  OBVIOUS
<1> HIDE DEF args, row, more
<1>4. IsShort(e, "andi", 1, 4, more, args)
  BY <1>1, <1>3 DEF IsShort, CInsn, Insn, NoMarks, args, more
<1>5. w % 4 = 1 /\ Bits(w, 13, 3) = 4 /\ e.name = <<"c", "andi">> /\ w \in Halfword
  BY <1>4, ShortFields, ShortHalfword DEF IsShort
<1>6. Bits(w, 10, 2) = 2
  <2>1. Inner(args, more, 10, 2, 11, 2)
    <3>1. Clear(args, 10, 11)
      BY ShortSpans DEF Clear, Off, args
    <3>2. \A k \in 10 .. 11 : k \in more <=> BitOf(2, k - 10) = 1
      BY SmallBits DEF more
    <3> QED
      BY <3>1, <3>2, SmallNumbers DEF Inner
  <2> QED
    BY <1>4, <2>1, ShortField
<1>7. rv_inst_opcode(w, isa) = <<"c", "andi">>
  <2> DEFINE table == <<"srli", "srai", "andi">>
  <2>1. Quadrant1(w, isa) = CompressedAlu(w)
    BY <1>5 DEF Quadrant1
  <2>2. CompressedAlu(w) = CaseC(table, 2)
    BY <1>5, <1>6 DEF CompressedAlu
  <2>3. Case(table, 2) = <<"andi">>
    BY DEF Case
  <2>4. <<"andi">> # op_illegal
    BY DEF op_illegal
  <2> HIDE DEF table
  <2>5. Quadrant1(w, isa) = <<"c", "andi">>
    BY <2>1, <2>2, <2>3, <2>4, CaseCOf
  <2> QED
    BY <1>5, <2>5, QuadrantOf
<1>8. "andi" \in {"andi"}
  OBVIOUS
<1>9. ShortDecodes(w, isa, e, args, "cb_imm", fmt_rd_rs1_imm)
  BY <1>2, <1>4, <1>5, <1>7, <1>8, ShortDecoded DEF row
<1> QED
  BY <1>9 DEF args

LEMMA C_subDecoded ==
  ASSUME NEW w, NEW isa, NEW e, NEW marks, NEW v, Carries(w, e, marks, v),
         e = CInsn("sub", 1, 4, {10, 11} \cup {}, <<XC(7), XC(7), XC(2)>>)
  PROVE  ShortDecodes(w, isa, e, <<XC(7), XC(7), XC(2)>>, "cs", fmt_rd_rs1_rs2)
<1> DEFINE args == <<XC(7), XC(7), XC(2)>>
           row == Row("cs", fmt_rd_rs1_rs2, C({"sub", "xor", "or", "and", "subw", "addw"}))
           more == {10, 11} \cup {}
<1>1. Inside(args)
  BY ShortSpans DEF Inside
<1>2. row \in Rows
  BY DEF Rows, CompressedRows
<1>3. more \subseteq 2 .. 12
  OBVIOUS
<1> HIDE DEF args, row, more
<1>4. IsShort(e, "sub", 1, 4, more, args)
  BY <1>1, <1>3 DEF IsShort, CInsn, Insn, NoMarks, args, more
<1>5. w % 4 = 1 /\ Bits(w, 13, 3) = 4 /\ e.name = <<"c", "sub">> /\ w \in Halfword
  BY <1>4, ShortFields, ShortHalfword DEF IsShort
<1>6. Bits(w, 10, 2) = 3
  <2>1. Inner(args, more, 10, 2, 11, 3)
    <3>1. Clear(args, 10, 11)
      BY ShortSpans DEF Clear, Off, args
    <3>2. \A k \in 10 .. 11 : k \in more <=> BitOf(3, k - 10) = 1
      BY SmallBits DEF more
    <3> QED
      BY <3>1, <3>2, SmallNumbers DEF Inner
  <2> QED
    BY <1>4, <2>1, ShortField
<1>7. Bits(w, 12, 1) = 0
  <2>1. Inner(args, more, 12, 1, 12, 0)
    <3>1. Clear(args, 12, 12)
      BY ShortSpans DEF Clear, Off, args
    <3>2. \A k \in 12 .. 12 : k \in more <=> BitOf(0, k - 12) = 1
      BY SmallBits DEF more
    <3> QED
      BY <3>1, <3>2, SmallNumbers DEF Inner
  <2> QED
    BY <1>4, <2>1, ShortField
<1>8. Bits(w, 5, 2) = 0
  <2>1. Inner(args, more, 5, 2, 6, 0)
    <3>1. Clear(args, 5, 6)
      BY ShortSpans DEF Clear, Off, args
    <3>2. \A k \in 5 .. 6 : k \in more <=> BitOf(0, k - 5) = 1
      BY SmallBits DEF more
    <3> QED
      BY <3>1, <3>2, SmallNumbers DEF Inner
  <2> QED
    BY <1>4, <2>1, ShortField
<1>9. rv_inst_opcode(w, isa) = <<"c", "sub">>
  <2> DEFINE table == <<"sub", "xor", "or", "and", "subw", "addw">>
  <2>1. Quadrant1(w, isa) = CompressedAlu(w)
    BY <1>5 DEF Quadrant1
  <2>2. CompressedAlu(w) = CaseC(table, 0)
    BY <1>5, <1>6, <1>7, <1>8 DEF CompressedAlu
  <2>3. Case(table, 0) = <<"sub">>
    BY DEF Case
  <2>4. <<"sub">> # op_illegal
    BY DEF op_illegal
  <2> HIDE DEF table
  <2>5. Quadrant1(w, isa) = <<"c", "sub">>
    BY <2>1, <2>2, <2>3, <2>4, CaseCOf
  <2> QED
    BY <1>5, <2>5, QuadrantOf
<1>10. "sub" \in {"sub", "xor", "or", "and", "subw", "addw"}
  OBVIOUS
<1>11. ShortDecodes(w, isa, e, args, "cs", fmt_rd_rs1_rs2)
  BY <1>2, <1>4, <1>5, <1>9, <1>10, ShortDecoded DEF row
<1> QED
  BY <1>11 DEF args

LEMMA C_xorDecoded ==
  ASSUME NEW w, NEW isa, NEW e, NEW marks, NEW v, Carries(w, e, marks, v),
         e = CInsn("xor", 1, 4, {10, 11} \cup {5}, <<XC(7), XC(7), XC(2)>>)
  PROVE  ShortDecodes(w, isa, e, <<XC(7), XC(7), XC(2)>>, "cs", fmt_rd_rs1_rs2)
<1> DEFINE args == <<XC(7), XC(7), XC(2)>>
           row == Row("cs", fmt_rd_rs1_rs2, C({"sub", "xor", "or", "and", "subw", "addw"}))
           more == {10, 11} \cup {5}
<1>1. Inside(args)
  BY ShortSpans DEF Inside
<1>2. row \in Rows
  BY DEF Rows, CompressedRows
<1>3. more \subseteq 2 .. 12
  OBVIOUS
<1> HIDE DEF args, row, more
<1>4. IsShort(e, "xor", 1, 4, more, args)
  BY <1>1, <1>3 DEF IsShort, CInsn, Insn, NoMarks, args, more
<1>5. w % 4 = 1 /\ Bits(w, 13, 3) = 4 /\ e.name = <<"c", "xor">> /\ w \in Halfword
  BY <1>4, ShortFields, ShortHalfword DEF IsShort
<1>6. Bits(w, 10, 2) = 3
  <2>1. Inner(args, more, 10, 2, 11, 3)
    <3>1. Clear(args, 10, 11)
      BY ShortSpans DEF Clear, Off, args
    <3>2. \A k \in 10 .. 11 : k \in more <=> BitOf(3, k - 10) = 1
      BY SmallBits DEF more
    <3> QED
      BY <3>1, <3>2, SmallNumbers DEF Inner
  <2> QED
    BY <1>4, <2>1, ShortField
<1>7. Bits(w, 12, 1) = 0
  <2>1. Inner(args, more, 12, 1, 12, 0)
    <3>1. Clear(args, 12, 12)
      BY ShortSpans DEF Clear, Off, args
    <3>2. \A k \in 12 .. 12 : k \in more <=> BitOf(0, k - 12) = 1
      BY SmallBits DEF more
    <3> QED
      BY <3>1, <3>2, SmallNumbers DEF Inner
  <2> QED
    BY <1>4, <2>1, ShortField
<1>8. Bits(w, 5, 2) = 1
  <2>1. Inner(args, more, 5, 2, 6, 1)
    <3>1. Clear(args, 5, 6)
      BY ShortSpans DEF Clear, Off, args
    <3>2. \A k \in 5 .. 6 : k \in more <=> BitOf(1, k - 5) = 1
      BY SmallBits DEF more
    <3> QED
      BY <3>1, <3>2, SmallNumbers DEF Inner
  <2> QED
    BY <1>4, <2>1, ShortField
<1>9. rv_inst_opcode(w, isa) = <<"c", "xor">>
  <2> DEFINE table == <<"sub", "xor", "or", "and", "subw", "addw">>
  <2>1. Quadrant1(w, isa) = CompressedAlu(w)
    BY <1>5 DEF Quadrant1
  <2>2. CompressedAlu(w) = CaseC(table, 1)
    BY <1>5, <1>6, <1>7, <1>8 DEF CompressedAlu
  <2>3. Case(table, 1) = <<"xor">>
    BY DEF Case
  <2>4. <<"xor">> # op_illegal
    BY DEF op_illegal
  <2> HIDE DEF table
  <2>5. Quadrant1(w, isa) = <<"c", "xor">>
    BY <2>1, <2>2, <2>3, <2>4, CaseCOf
  <2> QED
    BY <1>5, <2>5, QuadrantOf
<1>10. "xor" \in {"sub", "xor", "or", "and", "subw", "addw"}
  OBVIOUS
<1>11. ShortDecodes(w, isa, e, args, "cs", fmt_rd_rs1_rs2)
  BY <1>2, <1>4, <1>5, <1>9, <1>10, ShortDecoded DEF row
<1> QED
  BY <1>11 DEF args

LEMMA C_orDecoded ==
  ASSUME NEW w, NEW isa, NEW e, NEW marks, NEW v, Carries(w, e, marks, v),
         e = CInsn("or", 1, 4, {10, 11} \cup {6}, <<XC(7), XC(7), XC(2)>>)
  PROVE  ShortDecodes(w, isa, e, <<XC(7), XC(7), XC(2)>>, "cs", fmt_rd_rs1_rs2)
<1> DEFINE args == <<XC(7), XC(7), XC(2)>>
           row == Row("cs", fmt_rd_rs1_rs2, C({"sub", "xor", "or", "and", "subw", "addw"}))
           more == {10, 11} \cup {6}
<1>1. Inside(args)
  BY ShortSpans DEF Inside
<1>2. row \in Rows
  BY DEF Rows, CompressedRows
<1>3. more \subseteq 2 .. 12
  OBVIOUS
<1> HIDE DEF args, row, more
<1>4. IsShort(e, "or", 1, 4, more, args)
  BY <1>1, <1>3 DEF IsShort, CInsn, Insn, NoMarks, args, more
<1>5. w % 4 = 1 /\ Bits(w, 13, 3) = 4 /\ e.name = <<"c", "or">> /\ w \in Halfword
  BY <1>4, ShortFields, ShortHalfword DEF IsShort
<1>6. Bits(w, 10, 2) = 3
  <2>1. Inner(args, more, 10, 2, 11, 3)
    <3>1. Clear(args, 10, 11)
      BY ShortSpans DEF Clear, Off, args
    <3>2. \A k \in 10 .. 11 : k \in more <=> BitOf(3, k - 10) = 1
      BY SmallBits DEF more
    <3> QED
      BY <3>1, <3>2, SmallNumbers DEF Inner
  <2> QED
    BY <1>4, <2>1, ShortField
<1>7. Bits(w, 12, 1) = 0
  <2>1. Inner(args, more, 12, 1, 12, 0)
    <3>1. Clear(args, 12, 12)
      BY ShortSpans DEF Clear, Off, args
    <3>2. \A k \in 12 .. 12 : k \in more <=> BitOf(0, k - 12) = 1
      BY SmallBits DEF more
    <3> QED
      BY <3>1, <3>2, SmallNumbers DEF Inner
  <2> QED
    BY <1>4, <2>1, ShortField
<1>8. Bits(w, 5, 2) = 2
  <2>1. Inner(args, more, 5, 2, 6, 2)
    <3>1. Clear(args, 5, 6)
      BY ShortSpans DEF Clear, Off, args
    <3>2. \A k \in 5 .. 6 : k \in more <=> BitOf(2, k - 5) = 1
      BY SmallBits DEF more
    <3> QED
      BY <3>1, <3>2, SmallNumbers DEF Inner
  <2> QED
    BY <1>4, <2>1, ShortField
<1>9. rv_inst_opcode(w, isa) = <<"c", "or">>
  <2> DEFINE table == <<"sub", "xor", "or", "and", "subw", "addw">>
  <2>1. Quadrant1(w, isa) = CompressedAlu(w)
    BY <1>5 DEF Quadrant1
  <2>2. CompressedAlu(w) = CaseC(table, 2)
    BY <1>5, <1>6, <1>7, <1>8 DEF CompressedAlu
  <2>3. Case(table, 2) = <<"or">>
    BY DEF Case
  <2>4. <<"or">> # op_illegal
    BY DEF op_illegal
  <2> HIDE DEF table
  <2>5. Quadrant1(w, isa) = <<"c", "or">>
    BY <2>1, <2>2, <2>3, <2>4, CaseCOf
  <2> QED
    BY <1>5, <2>5, QuadrantOf
<1>10. "or" \in {"sub", "xor", "or", "and", "subw", "addw"}
  OBVIOUS
<1>11. ShortDecodes(w, isa, e, args, "cs", fmt_rd_rs1_rs2)
  BY <1>2, <1>4, <1>5, <1>9, <1>10, ShortDecoded DEF row
<1> QED
  BY <1>11 DEF args

LEMMA C_andDecoded ==
  ASSUME NEW w, NEW isa, NEW e, NEW marks, NEW v, Carries(w, e, marks, v),
         e = CInsn("and", 1, 4, {10, 11} \cup {5, 6}, <<XC(7), XC(7), XC(2)>>)
  PROVE  ShortDecodes(w, isa, e, <<XC(7), XC(7), XC(2)>>, "cs", fmt_rd_rs1_rs2)
<1> DEFINE args == <<XC(7), XC(7), XC(2)>>
           row == Row("cs", fmt_rd_rs1_rs2, C({"sub", "xor", "or", "and", "subw", "addw"}))
           more == {10, 11} \cup {5, 6}
<1>1. Inside(args)
  BY ShortSpans DEF Inside
<1>2. row \in Rows
  BY DEF Rows, CompressedRows
<1>3. more \subseteq 2 .. 12
  OBVIOUS
<1> HIDE DEF args, row, more
<1>4. IsShort(e, "and", 1, 4, more, args)
  BY <1>1, <1>3 DEF IsShort, CInsn, Insn, NoMarks, args, more
<1>5. w % 4 = 1 /\ Bits(w, 13, 3) = 4 /\ e.name = <<"c", "and">> /\ w \in Halfword
  BY <1>4, ShortFields, ShortHalfword DEF IsShort
<1>6. Bits(w, 10, 2) = 3
  <2>1. Inner(args, more, 10, 2, 11, 3)
    <3>1. Clear(args, 10, 11)
      BY ShortSpans DEF Clear, Off, args
    <3>2. \A k \in 10 .. 11 : k \in more <=> BitOf(3, k - 10) = 1
      BY SmallBits DEF more
    <3> QED
      BY <3>1, <3>2, SmallNumbers DEF Inner
  <2> QED
    BY <1>4, <2>1, ShortField
<1>7. Bits(w, 12, 1) = 0
  <2>1. Inner(args, more, 12, 1, 12, 0)
    <3>1. Clear(args, 12, 12)
      BY ShortSpans DEF Clear, Off, args
    <3>2. \A k \in 12 .. 12 : k \in more <=> BitOf(0, k - 12) = 1
      BY SmallBits DEF more
    <3> QED
      BY <3>1, <3>2, SmallNumbers DEF Inner
  <2> QED
    BY <1>4, <2>1, ShortField
<1>8. Bits(w, 5, 2) = 3
  <2>1. Inner(args, more, 5, 2, 6, 3)
    <3>1. Clear(args, 5, 6)
      BY ShortSpans DEF Clear, Off, args
    <3>2. \A k \in 5 .. 6 : k \in more <=> BitOf(3, k - 5) = 1
      BY SmallBits DEF more
    <3> QED
      BY <3>1, <3>2, SmallNumbers DEF Inner
  <2> QED
    BY <1>4, <2>1, ShortField
<1>9. rv_inst_opcode(w, isa) = <<"c", "and">>
  <2> DEFINE table == <<"sub", "xor", "or", "and", "subw", "addw">>
  <2>1. Quadrant1(w, isa) = CompressedAlu(w)
    BY <1>5 DEF Quadrant1
  <2>2. CompressedAlu(w) = CaseC(table, 3)
    BY <1>5, <1>6, <1>7, <1>8 DEF CompressedAlu
  <2>3. Case(table, 3) = <<"and">>
    BY DEF Case
  <2>4. <<"and">> # op_illegal
    BY DEF op_illegal
  <2> HIDE DEF table
  <2>5. Quadrant1(w, isa) = <<"c", "and">>
    BY <2>1, <2>2, <2>3, <2>4, CaseCOf
  <2> QED
    BY <1>5, <2>5, QuadrantOf
<1>10. "and" \in {"sub", "xor", "or", "and", "subw", "addw"}
  OBVIOUS
<1>11. ShortDecodes(w, isa, e, args, "cs", fmt_rd_rs1_rs2)
  BY <1>2, <1>4, <1>5, <1>9, <1>10, ShortDecoded DEF row
<1> QED
  BY <1>11 DEF args

LEMMA C_subwDecoded ==
  ASSUME NEW w, NEW isa, NEW e, NEW marks, NEW v, Carries(w, e, marks, v),
         e = CInsn("subw", 1, 4, {10, 11} \cup {12}, <<XC(7), XC(7), XC(2)>>)
  PROVE  ShortDecodes(w, isa, e, <<XC(7), XC(7), XC(2)>>, "cs", fmt_rd_rs1_rs2)
<1> DEFINE args == <<XC(7), XC(7), XC(2)>>
           row == Row("cs", fmt_rd_rs1_rs2, C({"sub", "xor", "or", "and", "subw", "addw"}))
           more == {10, 11} \cup {12}
<1>1. Inside(args)
  BY ShortSpans DEF Inside
<1>2. row \in Rows
  BY DEF Rows, CompressedRows
<1>3. more \subseteq 2 .. 12
  OBVIOUS
<1> HIDE DEF args, row, more
<1>4. IsShort(e, "subw", 1, 4, more, args)
  BY <1>1, <1>3 DEF IsShort, CInsn, Insn, NoMarks, args, more
<1>5. w % 4 = 1 /\ Bits(w, 13, 3) = 4 /\ e.name = <<"c", "subw">> /\ w \in Halfword
  BY <1>4, ShortFields, ShortHalfword DEF IsShort
<1>6. Bits(w, 10, 2) = 3
  <2>1. Inner(args, more, 10, 2, 11, 3)
    <3>1. Clear(args, 10, 11)
      BY ShortSpans DEF Clear, Off, args
    <3>2. \A k \in 10 .. 11 : k \in more <=> BitOf(3, k - 10) = 1
      BY SmallBits DEF more
    <3> QED
      BY <3>1, <3>2, SmallNumbers DEF Inner
  <2> QED
    BY <1>4, <2>1, ShortField
<1>7. Bits(w, 12, 1) = 1
  <2>1. Inner(args, more, 12, 1, 12, 1)
    <3>1. Clear(args, 12, 12)
      BY ShortSpans DEF Clear, Off, args
    <3>2. \A k \in 12 .. 12 : k \in more <=> BitOf(1, k - 12) = 1
      BY SmallBits DEF more
    <3> QED
      BY <3>1, <3>2, SmallNumbers DEF Inner
  <2> QED
    BY <1>4, <2>1, ShortField
<1>8. Bits(w, 5, 2) = 0
  <2>1. Inner(args, more, 5, 2, 6, 0)
    <3>1. Clear(args, 5, 6)
      BY ShortSpans DEF Clear, Off, args
    <3>2. \A k \in 5 .. 6 : k \in more <=> BitOf(0, k - 5) = 1
      BY SmallBits DEF more
    <3> QED
      BY <3>1, <3>2, SmallNumbers DEF Inner
  <2> QED
    BY <1>4, <2>1, ShortField
<1>9. rv_inst_opcode(w, isa) = <<"c", "subw">>
  <2> DEFINE table == <<"sub", "xor", "or", "and", "subw", "addw">>
  <2>1. Quadrant1(w, isa) = CompressedAlu(w)
    BY <1>5 DEF Quadrant1
  <2>2. CompressedAlu(w) = CaseC(table, 4)
    BY <1>5, <1>6, <1>7, <1>8 DEF CompressedAlu
  <2>3. Case(table, 4) = <<"subw">>
    BY DEF Case
  <2>4. <<"subw">> # op_illegal
    BY DEF op_illegal
  <2> HIDE DEF table
  <2>5. Quadrant1(w, isa) = <<"c", "subw">>
    BY <2>1, <2>2, <2>3, <2>4, CaseCOf
  <2> QED
    BY <1>5, <2>5, QuadrantOf
<1>10. "subw" \in {"sub", "xor", "or", "and", "subw", "addw"}
  OBVIOUS
<1>11. ShortDecodes(w, isa, e, args, "cs", fmt_rd_rs1_rs2)
  BY <1>2, <1>4, <1>5, <1>9, <1>10, ShortDecoded DEF row
<1> QED
  BY <1>11 DEF args

LEMMA C_addwDecoded ==
  ASSUME NEW w, NEW isa, NEW e, NEW marks, NEW v, Carries(w, e, marks, v),
         e = CInsn("addw", 1, 4, {10, 11} \cup {5, 12}, <<XC(7), XC(7), XC(2)>>)
  PROVE  ShortDecodes(w, isa, e, <<XC(7), XC(7), XC(2)>>, "cs", fmt_rd_rs1_rs2)
<1> DEFINE args == <<XC(7), XC(7), XC(2)>>
           row == Row("cs", fmt_rd_rs1_rs2, C({"sub", "xor", "or", "and", "subw", "addw"}))
           more == {10, 11} \cup {5, 12}
<1>1. Inside(args)
  BY ShortSpans DEF Inside
<1>2. row \in Rows
  BY DEF Rows, CompressedRows
<1>3. more \subseteq 2 .. 12
  OBVIOUS
<1> HIDE DEF args, row, more
<1>4. IsShort(e, "addw", 1, 4, more, args)
  BY <1>1, <1>3 DEF IsShort, CInsn, Insn, NoMarks, args, more
<1>5. w % 4 = 1 /\ Bits(w, 13, 3) = 4 /\ e.name = <<"c", "addw">> /\ w \in Halfword
  BY <1>4, ShortFields, ShortHalfword DEF IsShort
<1>6. Bits(w, 10, 2) = 3
  <2>1. Inner(args, more, 10, 2, 11, 3)
    <3>1. Clear(args, 10, 11)
      BY ShortSpans DEF Clear, Off, args
    <3>2. \A k \in 10 .. 11 : k \in more <=> BitOf(3, k - 10) = 1
      BY SmallBits DEF more
    <3> QED
      BY <3>1, <3>2, SmallNumbers DEF Inner
  <2> QED
    BY <1>4, <2>1, ShortField
<1>7. Bits(w, 12, 1) = 1
  <2>1. Inner(args, more, 12, 1, 12, 1)
    <3>1. Clear(args, 12, 12)
      BY ShortSpans DEF Clear, Off, args
    <3>2. \A k \in 12 .. 12 : k \in more <=> BitOf(1, k - 12) = 1
      BY SmallBits DEF more
    <3> QED
      BY <3>1, <3>2, SmallNumbers DEF Inner
  <2> QED
    BY <1>4, <2>1, ShortField
<1>8. Bits(w, 5, 2) = 1
  <2>1. Inner(args, more, 5, 2, 6, 1)
    <3>1. Clear(args, 5, 6)
      BY ShortSpans DEF Clear, Off, args
    <3>2. \A k \in 5 .. 6 : k \in more <=> BitOf(1, k - 5) = 1
      BY SmallBits DEF more
    <3> QED
      BY <3>1, <3>2, SmallNumbers DEF Inner
  <2> QED
    BY <1>4, <2>1, ShortField
<1>9. rv_inst_opcode(w, isa) = <<"c", "addw">>
  <2> DEFINE table == <<"sub", "xor", "or", "and", "subw", "addw">>
  <2>1. Quadrant1(w, isa) = CompressedAlu(w)
    BY <1>5 DEF Quadrant1
  <2>2. CompressedAlu(w) = CaseC(table, 5)
    BY <1>5, <1>6, <1>7, <1>8 DEF CompressedAlu
  <2>3. Case(table, 5) = <<"addw">>
    BY DEF Case
  <2>4. <<"addw">> # op_illegal
    BY DEF op_illegal
  <2> HIDE DEF table
  <2>5. Quadrant1(w, isa) = <<"c", "addw">>
    BY <2>1, <2>2, <2>3, <2>4, CaseCOf
  <2> QED
    BY <1>5, <2>5, QuadrantOf
<1>10. "addw" \in {"sub", "xor", "or", "and", "subw", "addw"}
  OBVIOUS
<1>11. ShortDecodes(w, isa, e, args, "cs", fmt_rd_rs1_rs2)
  BY <1>2, <1>4, <1>5, <1>9, <1>10, ShortDecoded DEF row
<1> QED
  BY <1>11 DEF args

LEMMA C_jrDecoded ==
  ASSUME NEW w, NEW isa, NEW e, NEW marks, NEW v, Carries(w, e, marks, v),
         e = CInsn("jr", 2, 4, {}, <<zero, RdC, none>>)
  PROVE  ShortDecodes(w, isa, e, <<zero, RdC, none>>, "cr_jr", fmt_rd_rs1_offset)
<1> DEFINE args == <<zero, RdC, none>>
           row == Row("cr_jr", fmt_rd_rs1_offset, C({"jr"}))
           more == {}
<1>1. Inside(args)
  BY ShortSpans DEF Inside
<1>2. row \in Rows
  BY DEF Rows, CompressedRows
<1>3. more \subseteq 2 .. 12
  OBVIOUS
<1> HIDE DEF args, row, more
<1>4. IsShort(e, "jr", 2, 4, more, args)
  BY <1>1, <1>3 DEF IsShort, CInsn, Insn, NoMarks, args, more
<1>5. w % 4 = 2 /\ Bits(w, 13, 3) = 4 /\ e.name = <<"c", "jr">> /\ w \in Halfword
  BY <1>4, ShortFields, ShortHalfword DEF IsShort
<1>6. Bits(w, 12, 1) = 0
  <2>1. Inner(args, more, 12, 1, 12, 0)
    <3>1. Clear(args, 12, 12)
      BY ShortSpans DEF Clear, Off, args
    <3>2. \A k \in 12 .. 12 : k \in more <=> BitOf(0, k - 12) = 1
      BY SmallBits DEF more
    <3> QED
      BY <3>1, <3>2, SmallNumbers DEF Inner
  <2> QED
    BY <1>4, <2>1, ShortField
<1>7. Bits(w, 2, 5) = 0
  <2>1. Inner(args, more, 2, 5, 6, 0)
    <3>1. Clear(args, 2, 6)
      BY ShortSpans DEF Clear, Off, args
    <3>2. \A k \in 2 .. 6 : k \in more <=> BitOf(0, k - 2) = 1
      BY SmallBits DEF more
    <3> QED
      BY <3>1, <3>2, SmallNumbers DEF Inner
  <2> QED
    BY <1>4, <2>1, ShortField
<1>8. rv_inst_opcode(w, isa) = <<"c", "jr">>
  <2>1. Quadrant2(w, isa) = CompressedJump(w)
    BY <1>5 DEF Quadrant2
  <2> QED
    BY <1>5, <1>6, <1>7, <2>1, QuadrantOf DEF CompressedJump
<1>9. "jr" \in {"jr"}
  OBVIOUS
<1>10. ShortDecodes(w, isa, e, args, "cr_jr", fmt_rd_rs1_offset)
  BY <1>2, <1>4, <1>5, <1>8, <1>9, ShortDecoded DEF row
<1> QED
  BY <1>10 DEF args

LEMMA C_mvDecoded ==
  ASSUME NEW w, NEW isa, NEW e, NEW marks, NEW v, Carries(w, e, marks, v),
         e = CInsn("mv", 2, 4, {}, <<RdC, Rs2C, zero>>)
  PROVE  ShortDecodes(w, isa, e, <<RdC, Rs2C, zero>>, "cr_mv", fmt_rd_rs1_rs2)
<1> DEFINE args == <<RdC, Rs2C, zero>>
           row == Row("cr_mv", fmt_rd_rs1_rs2, C({"mv"}))
           more == {}
<1>1. Inside(args)
  BY ShortSpans DEF Inside
<1>2. row \in Rows
  BY DEF Rows, CompressedRows
<1>3. more \subseteq 2 .. 12
  OBVIOUS
<1> HIDE DEF args, row, more
<1>4. IsShort(e, "mv", 2, 4, more, args)
  BY <1>1, <1>3 DEF IsShort, CInsn, Insn, NoMarks, args, more
<1>5. w % 4 = 2 /\ Bits(w, 13, 3) = 4 /\ e.name = <<"c", "mv">> /\ w \in Halfword
  BY <1>4, ShortFields, ShortHalfword DEF IsShort
<1>6. Bits(w, 12, 1) = 0
  <2>1. Inner(args, more, 12, 1, 12, 0)
    <3>1. Clear(args, 12, 12)
      BY ShortSpans DEF Clear, Off, args
    <3>2. \A k \in 12 .. 12 : k \in more <=> BitOf(0, k - 12) = 1
      BY SmallBits DEF more
    <3> QED
      BY <3>1, <3>2, SmallNumbers DEF Inner
  <2> QED
    BY <1>4, <2>1, ShortField
<1>7. Bits(w, 2, 5) # 0
  <2>1. Held(Rs2C, v[2], w)
    <3>1. e.args = args /\ 2 \in DOMAIN args /\ args[2] = Rs2C
      BY <1>4 DEF IsShort, args
    <3> QED
      BY <3>1 DEF Carries
  <2> QED
    BY <1>5, <2>1, NonZeroRegisterHeld, HalfwordIsWord DEF Rs2C
<1>8. rv_inst_opcode(w, isa) = <<"c", "mv">>
  <2>1. Quadrant2(w, isa) = CompressedJump(w)
    BY <1>5 DEF Quadrant2
  <2> QED
    BY <1>5, <1>6, <1>7, <2>1, QuadrantOf DEF CompressedJump
<1>9. "mv" \in {"mv"}
  OBVIOUS
<1>10. ShortDecodes(w, isa, e, args, "cr_mv", fmt_rd_rs1_rs2)
  BY <1>2, <1>4, <1>5, <1>8, <1>9, ShortDecoded DEF row
<1> QED
  BY <1>10 DEF args

LEMMA C_addDecoded ==
  ASSUME NEW w, NEW isa, NEW e, NEW marks, NEW v, Carries(w, e, marks, v),
         e = CInsn("add", 2, 4, {12}, <<RdC, RdC, Rs2C>>)
  PROVE  ShortDecodes(w, isa, e, <<RdC, RdC, Rs2C>>, "cr", fmt_rd_rs1_rs2)
<1> DEFINE args == <<RdC, RdC, Rs2C>>
           row == Row("cr", fmt_rd_rs1_rs2, C({"add"}))
           more == {12}
<1>1. Inside(args)
  BY ShortSpans DEF Inside
<1>2. row \in Rows
  BY DEF Rows, CompressedRows
<1>3. more \subseteq 2 .. 12
  OBVIOUS
<1> HIDE DEF args, row, more
<1>4. IsShort(e, "add", 2, 4, more, args)
  BY <1>1, <1>3 DEF IsShort, CInsn, Insn, NoMarks, args, more
<1>5. w % 4 = 2 /\ Bits(w, 13, 3) = 4 /\ e.name = <<"c", "add">> /\ w \in Halfword
  BY <1>4, ShortFields, ShortHalfword DEF IsShort
<1>6. Bits(w, 12, 1) = 1
  <2>1. Inner(args, more, 12, 1, 12, 1)
    <3>1. Clear(args, 12, 12)
      BY ShortSpans DEF Clear, Off, args
    <3>2. \A k \in 12 .. 12 : k \in more <=> BitOf(1, k - 12) = 1
      BY SmallBits DEF more
    <3> QED
      BY <3>1, <3>2, SmallNumbers DEF Inner
  <2> QED
    BY <1>4, <2>1, ShortField
<1>7. Bits(w, 2, 5) # 0
  <2>1. Held(Rs2C, v[3], w)
    <3>1. e.args = args /\ 3 \in DOMAIN args /\ args[3] = Rs2C
      BY <1>4 DEF IsShort, args
    <3> QED
      BY <3>1 DEF Carries
  <2> QED
    BY <1>5, <2>1, NonZeroRegisterHeld, HalfwordIsWord DEF Rs2C
<1>8. rv_inst_opcode(w, isa) = <<"c", "add">>
  <2>1. Quadrant2(w, isa) = CompressedJump(w)
    BY <1>5 DEF Quadrant2
  <2> QED
    BY <1>5, <1>6, <1>7, <2>1, QuadrantOf DEF CompressedJump
<1>9. "add" \in {"add"}
  OBVIOUS
<1>10. ShortDecodes(w, isa, e, args, "cr", fmt_rd_rs1_rs2)
  BY <1>2, <1>4, <1>5, <1>8, <1>9, ShortDecoded DEF row
<1> QED
  BY <1>10 DEF args

LEMMA C_jalrDecoded ==
  ASSUME NEW w, NEW isa, NEW e, NEW marks, NEW v, Carries(w, e, marks, v),
         e = CInsn("jalr", 2, 4, {12}, <<ra, RdC, none>>)
  PROVE  ShortDecodes(w, isa, e, <<ra, RdC, none>>, "cr_jalr", fmt_rd_rs1_offset)
<1> DEFINE args == <<ra, RdC, none>>
           row == Row("cr_jalr", fmt_rd_rs1_offset, C({"jalr"}))
           more == {12}
<1>1. Inside(args)
  BY ShortSpans DEF Inside
<1>2. row \in Rows
  BY DEF Rows, CompressedRows
<1>3. more \subseteq 2 .. 12
  OBVIOUS
<1> HIDE DEF args, row, more
<1>4. IsShort(e, "jalr", 2, 4, more, args)
  BY <1>1, <1>3 DEF IsShort, CInsn, Insn, NoMarks, args, more
<1>5. w % 4 = 2 /\ Bits(w, 13, 3) = 4 /\ e.name = <<"c", "jalr">> /\ w \in Halfword
  BY <1>4, ShortFields, ShortHalfword DEF IsShort
<1>6. Bits(w, 12, 1) = 1
  <2>1. Inner(args, more, 12, 1, 12, 1)
    <3>1. Clear(args, 12, 12)
      BY ShortSpans DEF Clear, Off, args
    <3>2. \A k \in 12 .. 12 : k \in more <=> BitOf(1, k - 12) = 1
      BY SmallBits DEF more
    <3> QED
      BY <3>1, <3>2, SmallNumbers DEF Inner
  <2> QED
    BY <1>4, <2>1, ShortField
<1>7. Bits(w, 2, 5) = 0
  <2>1. Inner(args, more, 2, 5, 6, 0)
    <3>1. Clear(args, 2, 6)
      BY ShortSpans DEF Clear, Off, args
    <3>2. \A k \in 2 .. 6 : k \in more <=> BitOf(0, k - 2) = 1
      BY SmallBits DEF more
    <3> QED
      BY <3>1, <3>2, SmallNumbers DEF Inner
  <2> QED
    BY <1>4, <2>1, ShortField
<1>8. Bits(w, 7, 5) # 0
  <2>1. Held(RdC, v[2], w)
    <3>1. e.args = args /\ 2 \in DOMAIN args /\ args[2] = RdC
      BY <1>4 DEF IsShort, args
    <3> QED
      BY <3>1 DEF Carries
  <2> QED
    BY <1>5, <2>1, NonZeroRegisterHeld, HalfwordIsWord DEF RdC
<1>9. rv_inst_opcode(w, isa) = <<"c", "jalr">>
  <2>1. Quadrant2(w, isa) = CompressedJump(w)
    BY <1>5 DEF Quadrant2
  <2> QED
    BY <1>5, <1>6, <1>7, <1>8, <2>1, QuadrantOf DEF CompressedJump
<1>10. "jalr" \in {"jalr"}
  OBVIOUS
<1>11. ShortDecodes(w, isa, e, args, "cr_jalr", fmt_rd_rs1_offset)
  BY <1>2, <1>4, <1>5, <1>9, <1>10, ShortDecoded DEF row
<1> QED
  BY <1>11 DEF args

LEMMA C_ebreakDecoded ==
  ASSUME NEW w, NEW isa, NEW e, NEW marks, NEW v, Carries(w, e, marks, v),
         e = CInsn("ebreak", 2, 4, {12}, << >>)
  PROVE  ShortDecodes(w, isa, e, << >>, "ci_none", fmt_none)
<1> DEFINE args == << >>
           row == Row("ci_none", fmt_none, C({"nop", "ebreak"}))
           more == {12}
<1>1. Inside(args)
  BY ShortSpans DEF Inside
<1>2. row \in Rows
  BY DEF Rows, CompressedRows
<1>3. more \subseteq 2 .. 12
  OBVIOUS
<1> HIDE DEF args, row, more
<1>4. IsShort(e, "ebreak", 2, 4, more, args)
  BY <1>1, <1>3 DEF IsShort, CInsn, Insn, NoMarks, args, more
<1>5. w % 4 = 2 /\ Bits(w, 13, 3) = 4 /\ e.name = <<"c", "ebreak">> /\ w \in Halfword
  BY <1>4, ShortFields, ShortHalfword DEF IsShort
<1>6. Bits(w, 12, 1) = 1
  <2>1. Inner(args, more, 12, 1, 12, 1)
    <3>1. Clear(args, 12, 12)
      BY ShortSpans DEF Clear, Off, args
    <3>2. \A k \in 12 .. 12 : k \in more <=> BitOf(1, k - 12) = 1
      BY SmallBits DEF more
    <3> QED
      BY <3>1, <3>2, SmallNumbers DEF Inner
  <2> QED
    BY <1>4, <2>1, ShortField
<1>7. Bits(w, 2, 5) = 0
  <2>1. Inner(args, more, 2, 5, 6, 0)
    <3>1. Clear(args, 2, 6)
      BY ShortSpans DEF Clear, Off, args
    <3>2. \A k \in 2 .. 6 : k \in more <=> BitOf(0, k - 2) = 1
      BY SmallBits DEF more
    <3> QED
      BY <3>1, <3>2, SmallNumbers DEF Inner
  <2> QED
    BY <1>4, <2>1, ShortField
<1>8. Bits(w, 7, 5) = 0
  <2>1. Inner(args, more, 7, 5, 11, 0)
    <3>1. Clear(args, 7, 11)
      BY ShortSpans DEF Clear, Off, args
    <3>2. \A k \in 7 .. 11 : k \in more <=> BitOf(0, k - 7) = 1
      BY SmallBits DEF more
    <3> QED
      BY <3>1, <3>2, SmallNumbers DEF Inner
  <2> QED
    BY <1>4, <2>1, ShortField
<1>9. rv_inst_opcode(w, isa) = <<"c", "ebreak">>
  <2>1. Quadrant2(w, isa) = CompressedJump(w)
    BY <1>5 DEF Quadrant2
  <2> QED
    BY <1>5, <1>6, <1>7, <1>8, <2>1, QuadrantOf DEF CompressedJump
<1>10. "ebreak" \in {"nop", "ebreak"}
  OBVIOUS
<1>11. ShortDecodes(w, isa, e, args, "ci_none", fmt_none)
  BY <1>2, <1>4, <1>5, <1>9, <1>10, ShortDecoded DEF row
<1> QED
  BY <1>11 DEF args

-----------------------------------------------------------------------------
(* The program takes the word w for the entry e: the switches return its   *)
(* name, and the row of that name cuts its operands out of the word and    *)
(* shows just these, in their order, and its marks.                        *)
Listed(w, isa, e, marks, v) ==
  LET row == opcode_data[e.name]
  IN  /\ rv_inst_opcode(w, isa) = e.name /\ e.name \in rv_op
      /\ \A pc : LET d == Cut(w, pc, e.name, row.type)
                IN  Told(e.args, v, row.format, d) /\ LineMarks(d, row.format) = marks

ToldBy(w, args, v, ft, type) == \A pc, op : Told(args, v, ft, Cut(w, pc, op, type))

LEMMA ListedPlain ==
  ASSUME NEW w, NEW isa, NEW e, NEW marks, NEW v, Carries(w, e, marks, v), NoMarks(e),
         NEW type, NEW ft, Decodes(w, isa, e, type, ft), Tabbed(ft), ToldBy(w, e.args, v, ft, type)
  PROVE  Listed(w, isa, e, marks, v)
<1>1. marks = {}
  BY Unmarked
<1>2. \A d : LineMarks(d, ft) = {}
  BY DEF LineMarks, Tabbed
<1>3. opcode_data[e.name].type = type /\ opcode_data[e.name].format = ft /\ e.name \in rv_op
      /\ rv_inst_opcode(w, isa) = e.name
  BY DEF Decodes, InRow
<1> QED
  BY <1>1, <1>2, <1>3 DEF Listed, ToldBy

LEMMA Lists_sb_rs1_rs2_offset ==
  ASSUME NEW w, NEW isa, NEW e, NEW marks, NEW v, Carries(w, e, marks, v), NoMarks(e),
         e.args = <<Rs1, Rs2, ImmB>>,
         Decodes(w, isa, e, "sb", fmt_rs1_rs2_offset)
  PROVE  Listed(w, isa, e, marks, v)
<1>1. w \in Word /\ HeldAll(<<Rs1, Rs2, ImmB>>, v, w)
  BY AllHeld
<1>2. ToldBy(w, e.args, v, fmt_rs1_rs2_offset, "sb")
  BY <1>1, Told_sb_rs1_rs2_offset DEF ToldBy
<1>3. Tabbed(fmt_rs1_rs2_offset)
  BY DEF Tabbed, fmt_rs1_rs2_offset
<1> QED
  BY <1>2, <1>3, ListedPlain

LEMMA Lists_i_rd_offset_rs1 ==
  ASSUME NEW w, NEW isa, NEW e, NEW marks, NEW v, Carries(w, e, marks, v), NoMarks(e),
         e.args = <<Rd, ImmI, Rs1>>,
         Decodes(w, isa, e, "i", fmt_rd_offset_rs1)
  PROVE  Listed(w, isa, e, marks, v)
<1>1. w \in Word /\ HeldAll(<<Rd, ImmI, Rs1>>, v, w)
  BY AllHeld
<1>2. ToldBy(w, e.args, v, fmt_rd_offset_rs1, "i")
  BY <1>1, Told_i_rd_offset_rs1 DEF ToldBy
<1>3. Tabbed(fmt_rd_offset_rs1)
  BY DEF Tabbed, fmt_rd_offset_rs1
<1> QED
  BY <1>2, <1>3, ListedPlain

LEMMA Lists_s_rs2_offset_rs1 ==
  ASSUME NEW w, NEW isa, NEW e, NEW marks, NEW v, Carries(w, e, marks, v), NoMarks(e),
         e.args = <<Rs2, ImmS, Rs1>>,
         Decodes(w, isa, e, "s", fmt_rs2_offset_rs1)
  PROVE  Listed(w, isa, e, marks, v)
<1>1. w \in Word /\ HeldAll(<<Rs2, ImmS, Rs1>>, v, w)
  BY AllHeld
<1>2. ToldBy(w, e.args, v, fmt_rs2_offset_rs1, "s")
  BY <1>1, Told_s_rs2_offset_rs1 DEF ToldBy
<1>3. Tabbed(fmt_rs2_offset_rs1)
  BY DEF Tabbed, fmt_rs2_offset_rs1
<1> QED
  BY <1>2, <1>3, ListedPlain

LEMMA Lists_i_frd_offset_rs1 ==
  ASSUME NEW w, NEW isa, NEW e, NEW marks, NEW v, Carries(w, e, marks, v), NoMarks(e),
         e.args = <<Fd, ImmI, Rs1>>,
         Decodes(w, isa, e, "i", fmt_frd_offset_rs1)
  PROVE  Listed(w, isa, e, marks, v)
<1>1. w \in Word /\ HeldAll(<<Fd, ImmI, Rs1>>, v, w)
  BY AllHeld
<1>2. ToldBy(w, e.args, v, fmt_frd_offset_rs1, "i")
  BY <1>1, Told_i_frd_offset_rs1 DEF ToldBy
<1>3. Tabbed(fmt_frd_offset_rs1)
  BY DEF Tabbed, fmt_frd_offset_rs1
<1> QED
  BY <1>2, <1>3, ListedPlain

LEMMA Lists_s_frs2_offset_rs1 ==
  ASSUME NEW w, NEW isa, NEW e, NEW marks, NEW v, Carries(w, e, marks, v), NoMarks(e),
         e.args = <<Fs2, ImmS, Rs1>>,
         Decodes(w, isa, e, "s", fmt_frs2_offset_rs1)
  PROVE  Listed(w, isa, e, marks, v)
<1>1. w \in Word /\ HeldAll(<<Fs2, ImmS, Rs1>>, v, w)
  BY AllHeld
<1>2. ToldBy(w, e.args, v, fmt_frs2_offset_rs1, "s")
  BY <1>1, Told_s_frs2_offset_rs1 DEF ToldBy
<1>3. Tabbed(fmt_frs2_offset_rs1)
  BY DEF Tabbed, fmt_frs2_offset_rs1
<1> QED
  BY <1>2, <1>3, ListedPlain

LEMMA Lists_i_rd_rs1_imm ==
  ASSUME NEW w, NEW isa, NEW e, NEW marks, NEW v, Carries(w, e, marks, v), NoMarks(e),
         e.args = <<Rd, Rs1, ImmI>>,
         Decodes(w, isa, e, "i", fmt_rd_rs1_imm)
  PROVE  Listed(w, isa, e, marks, v)
<1>1. w \in Word /\ HeldAll(<<Rd, Rs1, ImmI>>, v, w)
  BY AllHeld
<1>2. ToldBy(w, e.args, v, fmt_rd_rs1_imm, "i")
  BY <1>1, Told_i_rd_rs1_imm DEF ToldBy
<1>3. Tabbed(fmt_rd_rs1_imm)
  BY DEF Tabbed, fmt_rd_rs1_imm
<1> QED
  BY <1>2, <1>3, ListedPlain

LEMMA Lists_i_sh7_rd_rs1_imm ==
  ASSUME NEW w, NEW isa, NEW e, NEW marks, NEW v, Carries(w, e, marks, v), NoMarks(e),
         e.args = <<Rd, Rs1, Sh(6)>>, Bits(w, 26, 6) \in {0, 16},
         Decodes(w, isa, e, "i_sh7", fmt_rd_rs1_imm)
  PROVE  Listed(w, isa, e, marks, v)
<1>1. w \in Word /\ HeldAll(<<Rd, Rs1, Sh(6)>>, v, w)
  BY AllHeld
<1>2. ToldBy(w, e.args, v, fmt_rd_rs1_imm, "i_sh7")
  BY <1>1, Told_i_sh7_rd_rs1_imm DEF ToldBy
<1>3. Tabbed(fmt_rd_rs1_imm)
  BY DEF Tabbed, fmt_rd_rs1_imm
<1> QED
  BY <1>2, <1>3, ListedPlain

LEMMA Lists_i_sh5_rd_rs1_imm ==
  ASSUME NEW w, NEW isa, NEW e, NEW marks, NEW v, Carries(w, e, marks, v), NoMarks(e),
         e.args = <<Rd, Rs1, Sh(5)>>,
         Decodes(w, isa, e, "i_sh5", fmt_rd_rs1_imm)
  PROVE  Listed(w, isa, e, marks, v)
<1>1. w \in Word /\ HeldAll(<<Rd, Rs1, Sh(5)>>, v, w)
  BY AllHeld
<1>2. ToldBy(w, e.args, v, fmt_rd_rs1_imm, "i_sh5")
  BY <1>1, Told_i_sh5_rd_rs1_imm DEF ToldBy
<1>3. Tabbed(fmt_rd_rs1_imm)
  BY DEF Tabbed, fmt_rd_rs1_imm
<1> QED
  BY <1>2, <1>3, ListedPlain

LEMMA Lists_i_sh6_rd_rs1_imm ==
  ASSUME NEW w, NEW isa, NEW e, NEW marks, NEW v, Carries(w, e, marks, v), NoMarks(e),
         e.args = <<Rd, Rs1, Sh(6)>>,
         Decodes(w, isa, e, "i_sh6", fmt_rd_rs1_imm)
  PROVE  Listed(w, isa, e, marks, v)
<1>1. w \in Word /\ HeldAll(<<Rd, Rs1, Sh(6)>>, v, w)
  BY AllHeld
<1>2. ToldBy(w, e.args, v, fmt_rd_rs1_imm, "i_sh6")
  BY <1>1, Told_i_sh6_rd_rs1_imm DEF ToldBy
<1>3. Tabbed(fmt_rd_rs1_imm)
  BY DEF Tabbed, fmt_rd_rs1_imm
<1> QED
  BY <1>2, <1>3, ListedPlain

LEMMA Lists_r_rd_rs1_rs2 ==
  ASSUME NEW w, NEW isa, NEW e, NEW marks, NEW v, Carries(w, e, marks, v), NoMarks(e),
         e.args = <<Rd, Rs1, Rs2>>,
         Decodes(w, isa, e, "r", fmt_rd_rs1_rs2)
  PROVE  Listed(w, isa, e, marks, v)
<1>1. w \in Word /\ HeldAll(<<Rd, Rs1, Rs2>>, v, w)
  BY AllHeld
<1>2. ToldBy(w, e.args, v, fmt_rd_rs1_rs2, "r")
  BY <1>1, Told_r_rd_rs1_rs2 DEF ToldBy
<1>3. Tabbed(fmt_rd_rs1_rs2)
  BY DEF Tabbed, fmt_rd_rs1_rs2
<1> QED
  BY <1>2, <1>3, ListedPlain

LEMMA Lists_i_csr_rd_csr_rs1 ==
  ASSUME NEW w, NEW isa, NEW e, NEW marks, NEW v, Carries(w, e, marks, v), NoMarks(e),
         e.args = <<Rd, Csr, Rs1>>,
         Decodes(w, isa, e, "i_csr", fmt_rd_csr_rs1)
  PROVE  Listed(w, isa, e, marks, v)
<1>1. w \in Word /\ HeldAll(<<Rd, Csr, Rs1>>, v, w)
  BY AllHeld
<1>2. ToldBy(w, e.args, v, fmt_rd_csr_rs1, "i_csr")
  BY <1>1, Told_i_csr_rd_csr_rs1 DEF ToldBy
<1>3. Tabbed(fmt_rd_csr_rs1)
  BY DEF Tabbed, fmt_rd_csr_rs1
<1> QED
  BY <1>2, <1>3, ListedPlain

LEMMA Lists_i_csr_rd_csr_zimm ==
  ASSUME NEW w, NEW isa, NEW e, NEW marks, NEW v, Carries(w, e, marks, v), NoMarks(e),
         e.args = <<Rd, Csr, Zimm>>,
         Decodes(w, isa, e, "i_csr", fmt_rd_csr_zimm)
  PROVE  Listed(w, isa, e, marks, v)
<1>1. w \in Word /\ HeldAll(<<Rd, Csr, Zimm>>, v, w)
  BY AllHeld
<1>2. ToldBy(w, e.args, v, fmt_rd_csr_zimm, "i_csr")
  BY <1>1, Told_i_csr_rd_csr_zimm DEF ToldBy
<1>3. Tabbed(fmt_rd_csr_zimm)
  BY DEF Tabbed, fmt_rd_csr_zimm
<1> QED
  BY <1>2, <1>3, ListedPlain

LEMMA Lists_uj_rd_offset ==
  ASSUME NEW w, NEW isa, NEW e, NEW marks, NEW v, Carries(w, e, marks, v), NoMarks(e),
         e.args = <<Rd, ImmJ>>,
         Decodes(w, isa, e, "uj", fmt_rd_offset)
  PROVE  Listed(w, isa, e, marks, v)
<1>1. w \in Word /\ HeldAll(<<Rd, ImmJ>>, v, w)
  BY AllHeld
<1>2. ToldBy(w, e.args, v, fmt_rd_offset, "uj")
  BY <1>1, Told_uj_rd_offset DEF ToldBy
<1>3. Tabbed(fmt_rd_offset)
  BY DEF Tabbed, fmt_rd_offset
<1> QED
  BY <1>2, <1>3, ListedPlain

LEMMA Lists_i_rd_rs1_offset ==
  ASSUME NEW w, NEW isa, NEW e, NEW marks, NEW v, Carries(w, e, marks, v), NoMarks(e),
         e.args = <<Rd, Rs1, ImmI>>,
         Decodes(w, isa, e, "i", fmt_rd_rs1_offset)
  PROVE  Listed(w, isa, e, marks, v)
<1>1. w \in Word /\ HeldAll(<<Rd, Rs1, ImmI>>, v, w)
  BY AllHeld
<1>2. ToldBy(w, e.args, v, fmt_rd_rs1_offset, "i")
  BY <1>1, Told_i_rd_rs1_offset DEF ToldBy
<1>3. Tabbed(fmt_rd_rs1_offset)
  BY DEF Tabbed, fmt_rd_rs1_offset
<1> QED
  BY <1>2, <1>3, ListedPlain

LEMMA Lists_u_rd_imm ==
  ASSUME NEW w, NEW isa, NEW e, NEW marks, NEW v, Carries(w, e, marks, v), NoMarks(e),
         e.args = <<Rd, ImmU>>,
         Decodes(w, isa, e, "u", fmt_rd_imm)
  PROVE  Listed(w, isa, e, marks, v)
<1>1. w \in Word /\ HeldAll(<<Rd, ImmU>>, v, w)
  BY AllHeld
<1>2. ToldBy(w, e.args, v, fmt_rd_imm, "u")
  BY <1>1, Told_u_rd_imm DEF ToldBy
<1>3. Tabbed(fmt_rd_imm)
  BY DEF Tabbed, fmt_rd_imm
<1> QED
  BY <1>2, <1>3, ListedPlain

LEMMA Lists_u_rd_offset ==
  ASSUME NEW w, NEW isa, NEW e, NEW marks, NEW v, Carries(w, e, marks, v), NoMarks(e),
         e.args = <<Rd, ImmU>>,
         Decodes(w, isa, e, "u", fmt_rd_offset)
  PROVE  Listed(w, isa, e, marks, v)
<1>1. w \in Word /\ HeldAll(<<Rd, ImmU>>, v, w)
  BY AllHeld
<1>2. ToldBy(w, e.args, v, fmt_rd_offset, "u")
  BY <1>1, Told_u_rd_offset DEF ToldBy
<1>3. Tabbed(fmt_rd_offset)
  BY DEF Tabbed, fmt_rd_offset
<1> QED
  BY <1>2, <1>3, ListedPlain

LEMMA Lists_r_f_pred_succ ==
  ASSUME NEW w, NEW isa, NEW e, NEW marks, NEW v, Carries(w, e, marks, v), NoMarks(e),
         e.args = <<Pred, Succ>>,
         Decodes(w, isa, e, "r_f", fmt_pred_succ)
  PROVE  Listed(w, isa, e, marks, v)
<1>1. w \in Word /\ HeldAll(<<Pred, Succ>>, v, w)
  BY AllHeld
<1>2. ToldBy(w, e.args, v, fmt_pred_succ, "r_f")
  BY <1>1, Told_r_f_pred_succ DEF ToldBy
<1>3. Tabbed(fmt_pred_succ)
  BY DEF Tabbed, fmt_pred_succ
<1> QED
  BY <1>2, <1>3, ListedPlain

LEMMA Lists_none_none ==
  ASSUME NEW w, NEW isa, NEW e, NEW marks, NEW v, Carries(w, e, marks, v), NoMarks(e),
         e.args = << >>,
         Decodes(w, isa, e, "none", fmt_none)
  PROVE  Listed(w, isa, e, marks, v)
<1>1. w \in Word /\ HeldAll(<< >>, v, w)
  BY AllHeld
<1>2. ToldBy(w, e.args, v, fmt_none, "none")
  BY <1>1, Told_none_none DEF ToldBy
<1>3. Tabbed(fmt_none)
  BY DEF Tabbed, fmt_none
<1> QED
  BY <1>2, <1>3, ListedPlain

LEMMA Lists_r_rs1_rs2 ==
  ASSUME NEW w, NEW isa, NEW e, NEW marks, NEW v, Carries(w, e, marks, v), NoMarks(e),
         e.args = <<Rs1, Rs2>>,
         Decodes(w, isa, e, "r", fmt_rs1_rs2)
  PROVE  Listed(w, isa, e, marks, v)
<1>1. w \in Word /\ HeldAll(<<Rs1, Rs2>>, v, w)
  BY AllHeld
<1>2. ToldBy(w, e.args, v, fmt_rs1_rs2, "r")
  BY <1>1, Told_r_rs1_rs2 DEF ToldBy
<1>3. Tabbed(fmt_rs1_rs2)
  BY DEF Tabbed, fmt_rs1_rs2
<1> QED
  BY <1>2, <1>3, ListedPlain

LEMMA Lists_r_rs1 ==
  ASSUME NEW w, NEW isa, NEW e, NEW marks, NEW v, Carries(w, e, marks, v), NoMarks(e),
         e.args = <<Rs1>>,
         Decodes(w, isa, e, "r", fmt_rs1)
  PROVE  Listed(w, isa, e, marks, v)
<1>1. w \in Word /\ HeldAll(<<Rs1>>, v, w)
  BY AllHeld
<1>2. ToldBy(w, e.args, v, fmt_rs1, "r")
  BY <1>1, Told_r_rs1 DEF ToldBy
<1>3. Tabbed(fmt_rs1)
  BY DEF Tabbed, fmt_rs1
<1> QED
  BY <1>2, <1>3, ListedPlain

LEMMA Lists_r_m_rm_frd_frs1_frs2 ==
  ASSUME NEW w, NEW isa, NEW e, NEW marks, NEW v, Carries(w, e, marks, v), NoMarks(e),
         e.args = <<Rm, Fd, Fs1, Fs2>>,
         Decodes(w, isa, e, "r_m", fmt_rm_frd_frs1_frs2)
  PROVE  Listed(w, isa, e, marks, v)
<1>1. w \in Word /\ HeldAll(<<Rm, Fd, Fs1, Fs2>>, v, w)
  BY AllHeld
<1>2. ToldBy(w, e.args, v, fmt_rm_frd_frs1_frs2, "r_m")
  BY <1>1, Told_r_m_rm_frd_frs1_frs2 DEF ToldBy
<1>3. Tabbed(fmt_rm_frd_frs1_frs2)
  BY DEF Tabbed, fmt_rm_frd_frs1_frs2
<1> QED
  BY <1>2, <1>3, ListedPlain

LEMMA Lists_r_frd_frs1_frs2 ==
  ASSUME NEW w, NEW isa, NEW e, NEW marks, NEW v, Carries(w, e, marks, v), NoMarks(e),
         e.args = <<Fd, Fs1, Fs2>>,
         Decodes(w, isa, e, "r", fmt_frd_frs1_frs2)
  PROVE  Listed(w, isa, e, marks, v)
<1>1. w \in Word /\ HeldAll(<<Fd, Fs1, Fs2>>, v, w)
  BY AllHeld
<1>2. ToldBy(w, e.args, v, fmt_frd_frs1_frs2, "r")
  BY <1>1, Told_r_frd_frs1_frs2 DEF ToldBy
<1>3. Tabbed(fmt_frd_frs1_frs2)
  BY DEF Tabbed, fmt_frd_frs1_frs2
<1> QED
  BY <1>2, <1>3, ListedPlain

LEMMA Lists_r_rd_frs1_frs2 ==
  ASSUME NEW w, NEW isa, NEW e, NEW marks, NEW v, Carries(w, e, marks, v), NoMarks(e),
         e.args = <<Rd, Fs1, Fs2>>,
         Decodes(w, isa, e, "r", fmt_rd_frs1_frs2)
  PROVE  Listed(w, isa, e, marks, v)
<1>1. w \in Word /\ HeldAll(<<Rd, Fs1, Fs2>>, v, w)
  BY AllHeld
<1>2. ToldBy(w, e.args, v, fmt_rd_frs1_frs2, "r")
  BY <1>1, Told_r_rd_frs1_frs2 DEF ToldBy
<1>3. Tabbed(fmt_rd_frs1_frs2)
  BY DEF Tabbed, fmt_rd_frs1_frs2
<1> QED
  BY <1>2, <1>3, ListedPlain

LEMMA Lists_r_m_rm_frd_frs1 ==
  ASSUME NEW w, NEW isa, NEW e, NEW marks, NEW v, Carries(w, e, marks, v), NoMarks(e),
         e.args = <<Rm, Fd, Fs1>>,
         Decodes(w, isa, e, "r_m", fmt_rm_frd_frs1)
  PROVE  Listed(w, isa, e, marks, v)
<1>1. w \in Word /\ HeldAll(<<Rm, Fd, Fs1>>, v, w)
  BY AllHeld
<1>2. ToldBy(w, e.args, v, fmt_rm_frd_frs1, "r_m")
  BY <1>1, Told_r_m_rm_frd_frs1 DEF ToldBy
<1>3. Tabbed(fmt_rm_frd_frs1)
  BY DEF Tabbed, fmt_rm_frd_frs1
<1> QED
  BY <1>2, <1>3, ListedPlain

LEMMA Lists_r_rd_frs1 ==
  ASSUME NEW w, NEW isa, NEW e, NEW marks, NEW v, Carries(w, e, marks, v), NoMarks(e),
         e.args = <<Rd, Fs1>>,
         Decodes(w, isa, e, "r", fmt_rd_frs1)
  PROVE  Listed(w, isa, e, marks, v)
<1>1. w \in Word /\ HeldAll(<<Rd, Fs1>>, v, w)
  BY AllHeld
<1>2. ToldBy(w, e.args, v, fmt_rd_frs1, "r")
  BY <1>1, Told_r_rd_frs1 DEF ToldBy
<1>3. Tabbed(fmt_rd_frs1)
  BY DEF Tabbed, fmt_rd_frs1
<1> QED
  BY <1>2, <1>3, ListedPlain

LEMMA Lists_r_frd_rs1 ==
  ASSUME NEW w, NEW isa, NEW e, NEW marks, NEW v, Carries(w, e, marks, v), NoMarks(e),
         e.args = <<Fd, Rs1>>,
         Decodes(w, isa, e, "r", fmt_frd_rs1)
  PROVE  Listed(w, isa, e, marks, v)
<1>1. w \in Word /\ HeldAll(<<Fd, Rs1>>, v, w)
  BY AllHeld
<1>2. ToldBy(w, e.args, v, fmt_frd_rs1, "r")
  BY <1>1, Told_r_frd_rs1 DEF ToldBy
<1>3. Tabbed(fmt_frd_rs1)
  BY DEF Tabbed, fmt_frd_rs1
<1> QED
  BY <1>2, <1>3, ListedPlain

LEMMA Lists_r4_m_rm_frd_frs1_frs2_frs3 ==
  ASSUME NEW w, NEW isa, NEW e, NEW marks, NEW v, Carries(w, e, marks, v), NoMarks(e),
         e.args = <<Rm, Fd, Fs1, Fs2, Fs3>>,
         Decodes(w, isa, e, "r4_m", fmt_rm_frd_frs1_frs2_frs3)
  PROVE  Listed(w, isa, e, marks, v)
<1>1. w \in Word /\ HeldAll(<<Rm, Fd, Fs1, Fs2, Fs3>>, v, w)
  BY AllHeld
<1>2. ToldBy(w, e.args, v, fmt_rm_frd_frs1_frs2_frs3, "r4_m")
  BY <1>1, Told_r4_m_rm_frd_frs1_frs2_frs3 DEF ToldBy
<1>3. Tabbed(fmt_rm_frd_frs1_frs2_frs3)
  BY DEF Tabbed, fmt_rm_frd_frs1_frs2_frs3
<1> QED
  BY <1>2, <1>3, ListedPlain

LEMMA Lists_r_m_rm_rd_frs1 ==
  ASSUME NEW w, NEW isa, NEW e, NEW marks, NEW v, Carries(w, e, marks, v), NoMarks(e),
         e.args = <<Rm, Rd, Fs1>>,
         Decodes(w, isa, e, "r_m", fmt_rm_rd_frs1)
  PROVE  Listed(w, isa, e, marks, v)
<1>1. w \in Word /\ HeldAll(<<Rm, Rd, Fs1>>, v, w)
  BY AllHeld
<1>2. ToldBy(w, e.args, v, fmt_rm_rd_frs1, "r_m")
  BY <1>1, Told_r_m_rm_rd_frs1 DEF ToldBy
<1>3. Tabbed(fmt_rm_rd_frs1)
  BY DEF Tabbed, fmt_rm_rd_frs1
<1> QED
  BY <1>2, <1>3, ListedPlain

LEMMA Lists_r_m_rm_frd_rs1 ==
  ASSUME NEW w, NEW isa, NEW e, NEW marks, NEW v, Carries(w, e, marks, v), NoMarks(e),
         e.args = <<Rm, Fd, Rs1>>,
         Decodes(w, isa, e, "r_m", fmt_rm_frd_rs1)
  PROVE  Listed(w, isa, e, marks, v)
<1>1. w \in Word /\ HeldAll(<<Rm, Fd, Rs1>>, v, w)
  BY AllHeld
<1>2. ToldBy(w, e.args, v, fmt_rm_frd_rs1, "r_m")
  BY <1>1, Told_r_m_rm_frd_rs1 DEF ToldBy
<1>3. Tabbed(fmt_rm_frd_rs1)
  BY DEF Tabbed, fmt_rm_frd_rs1
<1> QED
  BY <1>2, <1>3, ListedPlain

LEMMA Lists_ciw_4spn_rd_rs1_imm ==
  ASSUME NEW w, NEW isa, NEW e, NEW marks, NEW v, Carries(w, e, marks, v), NoMarks(e),
         e.args = <<XC(2), sp, CImm4>>, w \in Halfword,
         Decodes(w, isa, e, "ciw_4spn", fmt_rd_rs1_imm)
  PROVE  Listed(w, isa, e, marks, v)
<1>1. w \in Word /\ HeldAll(<<XC(2), sp, CImm4>>, v, w)
  BY AllHeld
<1>2. ToldBy(w, e.args, v, fmt_rd_rs1_imm, "ciw_4spn")
  BY <1>1, Told_ciw_4spn_rd_rs1_imm DEF ToldBy
<1>3. Tabbed(fmt_rd_rs1_imm)
  BY DEF Tabbed, fmt_rd_rs1_imm
<1> QED
  BY <1>2, <1>3, ListedPlain

LEMMA Lists_cl_ld_frd_offset_rs1 ==
  ASSUME NEW w, NEW isa, NEW e, NEW marks, NEW v, Carries(w, e, marks, v), NoMarks(e),
         e.args = <<FC(2), CImmD, XC(7)>>, w \in Halfword,
         Decodes(w, isa, e, "cl_ld", fmt_frd_offset_rs1)
  PROVE  Listed(w, isa, e, marks, v)
<1>1. w \in Word /\ HeldAll(<<FC(2), CImmD, XC(7)>>, v, w)
  BY AllHeld
<1>2. ToldBy(w, e.args, v, fmt_frd_offset_rs1, "cl_ld")
  BY <1>1, Told_cl_ld_frd_offset_rs1 DEF ToldBy
<1>3. Tabbed(fmt_frd_offset_rs1)
  BY DEF Tabbed, fmt_frd_offset_rs1
<1> QED
  BY <1>2, <1>3, ListedPlain

LEMMA Lists_cl_lw_rd_offset_rs1 ==
  ASSUME NEW w, NEW isa, NEW e, NEW marks, NEW v, Carries(w, e, marks, v), NoMarks(e),
         e.args = <<XC(2), CImmW, XC(7)>>, w \in Halfword,
         Decodes(w, isa, e, "cl_lw", fmt_rd_offset_rs1)
  PROVE  Listed(w, isa, e, marks, v)
<1>1. w \in Word /\ HeldAll(<<XC(2), CImmW, XC(7)>>, v, w)
  BY AllHeld
<1>2. ToldBy(w, e.args, v, fmt_rd_offset_rs1, "cl_lw")
  BY <1>1, Told_cl_lw_rd_offset_rs1 DEF ToldBy
<1>3. Tabbed(fmt_rd_offset_rs1)
  BY DEF Tabbed, fmt_rd_offset_rs1
<1> QED
  BY <1>2, <1>3, ListedPlain

LEMMA Lists_cl_lw_frd_offset_rs1 ==
  ASSUME NEW w, NEW isa, NEW e, NEW marks, NEW v, Carries(w, e, marks, v), NoMarks(e),
         e.args = <<FC(2), CImmW, XC(7)>>, w \in Halfword,
         Decodes(w, isa, e, "cl_lw", fmt_frd_offset_rs1)
  PROVE  Listed(w, isa, e, marks, v)
<1>1. w \in Word /\ HeldAll(<<FC(2), CImmW, XC(7)>>, v, w)
  BY AllHeld
<1>2. ToldBy(w, e.args, v, fmt_frd_offset_rs1, "cl_lw")
  BY <1>1, Told_cl_lw_frd_offset_rs1 DEF ToldBy
<1>3. Tabbed(fmt_frd_offset_rs1)
  BY DEF Tabbed, fmt_frd_offset_rs1
<1> QED
  BY <1>2, <1>3, ListedPlain

LEMMA Lists_cl_ld_rd_offset_rs1 ==
  ASSUME NEW w, NEW isa, NEW e, NEW marks, NEW v, Carries(w, e, marks, v), NoMarks(e),
         e.args = <<XC(2), CImmD, XC(7)>>, w \in Halfword,
         Decodes(w, isa, e, "cl_ld", fmt_rd_offset_rs1)
  PROVE  Listed(w, isa, e, marks, v)
<1>1. w \in Word /\ HeldAll(<<XC(2), CImmD, XC(7)>>, v, w)
  BY AllHeld
<1>2. ToldBy(w, e.args, v, fmt_rd_offset_rs1, "cl_ld")
  BY <1>1, Told_cl_ld_rd_offset_rs1 DEF ToldBy
<1>3. Tabbed(fmt_rd_offset_rs1)
  BY DEF Tabbed, fmt_rd_offset_rs1
<1> QED
  BY <1>2, <1>3, ListedPlain

LEMMA Lists_cs_sd_frs2_offset_rs1 ==
  ASSUME NEW w, NEW isa, NEW e, NEW marks, NEW v, Carries(w, e, marks, v), NoMarks(e),
         e.args = <<FC(2), CImmD, XC(7)>>, w \in Halfword,
         Decodes(w, isa, e, "cs_sd", fmt_frs2_offset_rs1)
  PROVE  Listed(w, isa, e, marks, v)
<1>1. w \in Word /\ HeldAll(<<FC(2), CImmD, XC(7)>>, v, w)
  BY AllHeld
<1>2. ToldBy(w, e.args, v, fmt_frs2_offset_rs1, "cs_sd")
  BY <1>1, Told_cs_sd_frs2_offset_rs1 DEF ToldBy
<1>3. Tabbed(fmt_frs2_offset_rs1)
  BY DEF Tabbed, fmt_frs2_offset_rs1
<1> QED
  BY <1>2, <1>3, ListedPlain

LEMMA Lists_cs_sw_rs2_offset_rs1 ==
  ASSUME NEW w, NEW isa, NEW e, NEW marks, NEW v, Carries(w, e, marks, v), NoMarks(e),
         e.args = <<XC(2), CImmW, XC(7)>>, w \in Halfword,
         Decodes(w, isa, e, "cs_sw", fmt_rs2_offset_rs1)
  PROVE  Listed(w, isa, e, marks, v)
<1>1. w \in Word /\ HeldAll(<<XC(2), CImmW, XC(7)>>, v, w)
  BY AllHeld
<1>2. ToldBy(w, e.args, v, fmt_rs2_offset_rs1, "cs_sw")
  BY <1>1, Told_cs_sw_rs2_offset_rs1 DEF ToldBy
<1>3. Tabbed(fmt_rs2_offset_rs1)
  BY DEF Tabbed, fmt_rs2_offset_rs1
<1> QED
  BY <1>2, <1>3, ListedPlain

LEMMA Lists_cs_sw_frs2_offset_rs1 ==
  ASSUME NEW w, NEW isa, NEW e, NEW marks, NEW v, Carries(w, e, marks, v), NoMarks(e),
         e.args = <<FC(2), CImmW, XC(7)>>, w \in Halfword,
         Decodes(w, isa, e, "cs_sw", fmt_frs2_offset_rs1)
  PROVE  Listed(w, isa, e, marks, v)
<1>1. w \in Word /\ HeldAll(<<FC(2), CImmW, XC(7)>>, v, w)
  BY AllHeld
<1>2. ToldBy(w, e.args, v, fmt_frs2_offset_rs1, "cs_sw")
  BY <1>1, Told_cs_sw_frs2_offset_rs1 DEF ToldBy
<1>3. Tabbed(fmt_frs2_offset_rs1)
  BY DEF Tabbed, fmt_frs2_offset_rs1
<1> QED
  BY <1>2, <1>3, ListedPlain

LEMMA Lists_cs_sd_rs2_offset_rs1 ==
  ASSUME NEW w, NEW isa, NEW e, NEW marks, NEW v, Carries(w, e, marks, v), NoMarks(e),
         e.args = <<XC(2), CImmD, XC(7)>>, w \in Halfword,
         Decodes(w, isa, e, "cs_sd", fmt_rs2_offset_rs1)
  PROVE  Listed(w, isa, e, marks, v)
<1>1. w \in Word /\ HeldAll(<<XC(2), CImmD, XC(7)>>, v, w)
  BY AllHeld
<1>2. ToldBy(w, e.args, v, fmt_rs2_offset_rs1, "cs_sd")
  BY <1>1, Told_cs_sd_rs2_offset_rs1 DEF ToldBy
<1>3. Tabbed(fmt_rs2_offset_rs1)
  BY DEF Tabbed, fmt_rs2_offset_rs1
<1> QED
  BY <1>2, <1>3, ListedPlain

LEMMA Lists_ci_ldsp_frd_offset_rs1 ==
  ASSUME NEW w, NEW isa, NEW e, NEW marks, NEW v, Carries(w, e, marks, v), NoMarks(e),
         e.args = <<F(7), CImmLdsp, sp>>, w \in Halfword,
         Decodes(w, isa, e, "ci_ldsp", fmt_frd_offset_rs1)
  PROVE  Listed(w, isa, e, marks, v)
<1>1. w \in Word /\ HeldAll(<<F(7), CImmLdsp, sp>>, v, w)
  BY AllHeld
<1>2. ToldBy(w, e.args, v, fmt_frd_offset_rs1, "ci_ldsp")
  BY <1>1, Told_ci_ldsp_frd_offset_rs1 DEF ToldBy
<1>3. Tabbed(fmt_frd_offset_rs1)
  BY DEF Tabbed, fmt_frd_offset_rs1
<1> QED
  BY <1>2, <1>3, ListedPlain

LEMMA Lists_ci_lwsp_rd_offset_rs1 ==
  ASSUME NEW w, NEW isa, NEW e, NEW marks, NEW v, Carries(w, e, marks, v), NoMarks(e),
         e.args = <<RdC, CImmLwsp, sp>>, w \in Halfword,
         Decodes(w, isa, e, "ci_lwsp", fmt_rd_offset_rs1)
  PROVE  Listed(w, isa, e, marks, v)
<1>1. w \in Word /\ HeldAll(<<RdC, CImmLwsp, sp>>, v, w)
  BY AllHeld
<1>2. ToldBy(w, e.args, v, fmt_rd_offset_rs1, "ci_lwsp")
  BY <1>1, Told_ci_lwsp_rd_offset_rs1 DEF ToldBy
<1>3. Tabbed(fmt_rd_offset_rs1)
  BY DEF Tabbed, fmt_rd_offset_rs1
<1> QED
  BY <1>2, <1>3, ListedPlain

LEMMA Lists_ci_lwsp_frd_offset_rs1 ==
  ASSUME NEW w, NEW isa, NEW e, NEW marks, NEW v, Carries(w, e, marks, v), NoMarks(e),
         e.args = <<F(7), CImmLwsp, sp>>, w \in Halfword,
         Decodes(w, isa, e, "ci_lwsp", fmt_frd_offset_rs1)
  PROVE  Listed(w, isa, e, marks, v)
<1>1. w \in Word /\ HeldAll(<<F(7), CImmLwsp, sp>>, v, w)
  BY AllHeld
<1>2. ToldBy(w, e.args, v, fmt_frd_offset_rs1, "ci_lwsp")
  BY <1>1, Told_ci_lwsp_frd_offset_rs1 DEF ToldBy
<1>3. Tabbed(fmt_frd_offset_rs1)
  BY DEF Tabbed, fmt_frd_offset_rs1
<1> QED
  BY <1>2, <1>3, ListedPlain

LEMMA Lists_ci_ldsp_rd_offset_rs1 ==
  ASSUME NEW w, NEW isa, NEW e, NEW marks, NEW v, Carries(w, e, marks, v), NoMarks(e),
         e.args = <<RdC, CImmLdsp, sp>>, w \in Halfword,
         Decodes(w, isa, e, "ci_ldsp", fmt_rd_offset_rs1)
  PROVE  Listed(w, isa, e, marks, v)
<1>1. w \in Word /\ HeldAll(<<RdC, CImmLdsp, sp>>, v, w)
  BY AllHeld
<1>2. ToldBy(w, e.args, v, fmt_rd_offset_rs1, "ci_ldsp")
  BY <1>1, Told_ci_ldsp_rd_offset_rs1 DEF ToldBy
<1>3. Tabbed(fmt_rd_offset_rs1)
  BY DEF Tabbed, fmt_rd_offset_rs1
<1> QED
  BY <1>2, <1>3, ListedPlain

LEMMA Lists_css_sdsp_frs2_offset_rs1 ==
  ASSUME NEW w, NEW isa, NEW e, NEW marks, NEW v, Carries(w, e, marks, v), NoMarks(e),
         e.args = <<F(2), CImmSdsp, sp>>, w \in Halfword,
         Decodes(w, isa, e, "css_sdsp", fmt_frs2_offset_rs1)
  PROVE  Listed(w, isa, e, marks, v)
<1>1. w \in Word /\ HeldAll(<<F(2), CImmSdsp, sp>>, v, w)
  BY AllHeld
<1>2. ToldBy(w, e.args, v, fmt_frs2_offset_rs1, "css_sdsp")
  BY <1>1, Told_css_sdsp_frs2_offset_rs1 DEF ToldBy
<1>3. Tabbed(fmt_frs2_offset_rs1)
  BY DEF Tabbed, fmt_frs2_offset_rs1
<1> QED
  BY <1>2, <1>3, ListedPlain

LEMMA Lists_css_swsp_rs2_offset_rs1 ==
  ASSUME NEW w, NEW isa, NEW e, NEW marks, NEW v, Carries(w, e, marks, v), NoMarks(e),
         e.args = <<X(2), CImmSwsp, sp>>, w \in Halfword,
         Decodes(w, isa, e, "css_swsp", fmt_rs2_offset_rs1)
  PROVE  Listed(w, isa, e, marks, v)
<1>1. w \in Word /\ HeldAll(<<X(2), CImmSwsp, sp>>, v, w)
  BY AllHeld
<1>2. ToldBy(w, e.args, v, fmt_rs2_offset_rs1, "css_swsp")
  BY <1>1, Told_css_swsp_rs2_offset_rs1 DEF ToldBy
<1>3. Tabbed(fmt_rs2_offset_rs1)
  BY DEF Tabbed, fmt_rs2_offset_rs1
<1> QED
  BY <1>2, <1>3, ListedPlain

LEMMA Lists_css_swsp_frs2_offset_rs1 ==
  ASSUME NEW w, NEW isa, NEW e, NEW marks, NEW v, Carries(w, e, marks, v), NoMarks(e),
         e.args = <<F(2), CImmSwsp, sp>>, w \in Halfword,
         Decodes(w, isa, e, "css_swsp", fmt_frs2_offset_rs1)
  PROVE  Listed(w, isa, e, marks, v)
<1>1. w \in Word /\ HeldAll(<<F(2), CImmSwsp, sp>>, v, w)
  BY AllHeld
<1>2. ToldBy(w, e.args, v, fmt_frs2_offset_rs1, "css_swsp")
  BY <1>1, Told_css_swsp_frs2_offset_rs1 DEF ToldBy
<1>3. Tabbed(fmt_frs2_offset_rs1)
  BY DEF Tabbed, fmt_frs2_offset_rs1
<1> QED
  BY <1>2, <1>3, ListedPlain

LEMMA Lists_css_sdsp_rs2_offset_rs1 ==
  ASSUME NEW w, NEW isa, NEW e, NEW marks, NEW v, Carries(w, e, marks, v), NoMarks(e),
         e.args = <<X(2), CImmSdsp, sp>>, w \in Halfword,
         Decodes(w, isa, e, "css_sdsp", fmt_rs2_offset_rs1)
  PROVE  Listed(w, isa, e, marks, v)
<1>1. w \in Word /\ HeldAll(<<X(2), CImmSdsp, sp>>, v, w)
  BY AllHeld
<1>2. ToldBy(w, e.args, v, fmt_rs2_offset_rs1, "css_sdsp")
  BY <1>1, Told_css_sdsp_rs2_offset_rs1 DEF ToldBy
<1>3. Tabbed(fmt_rs2_offset_rs1)
  BY DEF Tabbed, fmt_rs2_offset_rs1
<1> QED
  BY <1>2, <1>3, ListedPlain

LEMMA Lists_ci_rd_rs1_imm ==
  ASSUME NEW w, NEW isa, NEW e, NEW marks, NEW v, Carries(w, e, marks, v), NoMarks(e),
         e.args = <<RdC, RdC, CImm>>, w \in Halfword,
         Decodes(w, isa, e, "ci", fmt_rd_rs1_imm)
  PROVE  Listed(w, isa, e, marks, v)
<1>1. w \in Word /\ HeldAll(<<RdC, RdC, CImm>>, v, w)
  BY AllHeld
<1>2. ToldBy(w, e.args, v, fmt_rd_rs1_imm, "ci")
  BY <1>1, Told_ci_rd_rs1_imm DEF ToldBy
<1>3. Tabbed(fmt_rd_rs1_imm)
  BY DEF Tabbed, fmt_rd_rs1_imm
<1> QED
  BY <1>2, <1>3, ListedPlain

LEMMA Lists_ci_li_rd_rs1_imm ==
  ASSUME NEW w, NEW isa, NEW e, NEW marks, NEW v, Carries(w, e, marks, v), NoMarks(e),
         e.args = <<RdC, zero, CImm>>, w \in Halfword,
         Decodes(w, isa, e, "ci_li", fmt_rd_rs1_imm)
  PROVE  Listed(w, isa, e, marks, v)
<1>1. w \in Word /\ HeldAll(<<RdC, zero, CImm>>, v, w)
  BY AllHeld
<1>2. ToldBy(w, e.args, v, fmt_rd_rs1_imm, "ci_li")
  BY <1>1, Told_ci_li_rd_rs1_imm DEF ToldBy
<1>3. Tabbed(fmt_rd_rs1_imm)
  BY DEF Tabbed, fmt_rd_rs1_imm
<1> QED
  BY <1>2, <1>3, ListedPlain

LEMMA Lists_ci_sh6_rd_rs1_imm ==
  ASSUME NEW w, NEW isa, NEW e, NEW marks, NEW v, Carries(w, e, marks, v), NoMarks(e),
         e.args = <<RdC, RdC, CShamt>>, w \in Halfword,
         Decodes(w, isa, e, "ci_sh6", fmt_rd_rs1_imm)
  PROVE  Listed(w, isa, e, marks, v)
<1>1. w \in Word /\ HeldAll(<<RdC, RdC, CShamt>>, v, w)
  BY AllHeld
<1>2. ToldBy(w, e.args, v, fmt_rd_rs1_imm, "ci_sh6")
  BY <1>1, Told_ci_sh6_rd_rs1_imm DEF ToldBy
<1>3. Tabbed(fmt_rd_rs1_imm)
  BY DEF Tabbed, fmt_rd_rs1_imm
<1> QED
  BY <1>2, <1>3, ListedPlain

LEMMA Lists_cj_rd_offset ==
  ASSUME NEW w, NEW isa, NEW e, NEW marks, NEW v, Carries(w, e, marks, v), NoMarks(e),
         e.args = <<zero, CImmJ>>, w \in Halfword,
         Decodes(w, isa, e, "cj", fmt_rd_offset)
  PROVE  Listed(w, isa, e, marks, v)
<1>1. w \in Word /\ HeldAll(<<zero, CImmJ>>, v, w)
  BY AllHeld
<1>2. ToldBy(w, e.args, v, fmt_rd_offset, "cj")
  BY <1>1, Told_cj_rd_offset DEF ToldBy
<1>3. Tabbed(fmt_rd_offset)
  BY DEF Tabbed, fmt_rd_offset
<1> QED
  BY <1>2, <1>3, ListedPlain

LEMMA Lists_cj_jal_rd_offset ==
  ASSUME NEW w, NEW isa, NEW e, NEW marks, NEW v, Carries(w, e, marks, v), NoMarks(e),
         e.args = <<ra, CImmJ>>, w \in Halfword,
         Decodes(w, isa, e, "cj_jal", fmt_rd_offset)
  PROVE  Listed(w, isa, e, marks, v)
<1>1. w \in Word /\ HeldAll(<<ra, CImmJ>>, v, w)
  BY AllHeld
<1>2. ToldBy(w, e.args, v, fmt_rd_offset, "cj_jal")
  BY <1>1, Told_cj_jal_rd_offset DEF ToldBy
<1>3. Tabbed(fmt_rd_offset)
  BY DEF Tabbed, fmt_rd_offset
<1> QED
  BY <1>2, <1>3, ListedPlain

LEMMA Lists_cb_rs1_rs2_offset ==
  ASSUME NEW w, NEW isa, NEW e, NEW marks, NEW v, Carries(w, e, marks, v), NoMarks(e),
         e.args = <<XC(7), zero, CImmB>>, w \in Halfword,
         Decodes(w, isa, e, "cb", fmt_rs1_rs2_offset)
  PROVE  Listed(w, isa, e, marks, v)
<1>1. w \in Word /\ HeldAll(<<XC(7), zero, CImmB>>, v, w)
  BY AllHeld
<1>2. ToldBy(w, e.args, v, fmt_rs1_rs2_offset, "cb")
  BY <1>1, Told_cb_rs1_rs2_offset DEF ToldBy
<1>3. Tabbed(fmt_rs1_rs2_offset)
  BY DEF Tabbed, fmt_rs1_rs2_offset
<1> QED
  BY <1>2, <1>3, ListedPlain

LEMMA Lists_ci_none_none ==
  ASSUME NEW w, NEW isa, NEW e, NEW marks, NEW v, Carries(w, e, marks, v), NoMarks(e),
         e.args = << >>, w \in Halfword,
         Decodes(w, isa, e, "ci_none", fmt_none)
  PROVE  Listed(w, isa, e, marks, v)
<1>1. w \in Word /\ HeldAll(<< >>, v, w)
  BY AllHeld
<1>2. ToldBy(w, e.args, v, fmt_none, "ci_none")
  BY <1>1, Told_ci_none_none DEF ToldBy
<1>3. Tabbed(fmt_none)
  BY DEF Tabbed, fmt_none
<1> QED
  BY <1>2, <1>3, ListedPlain

LEMMA Lists_ci_rd_rs1_imm_2 ==
  ASSUME NEW w, NEW isa, NEW e, NEW marks, NEW v, Carries(w, e, marks, v), NoMarks(e),
         e.args = <<RdC, RdC, CImmAddi>>, w \in Halfword,
         Decodes(w, isa, e, "ci", fmt_rd_rs1_imm)
  PROVE  Listed(w, isa, e, marks, v)
<1>1. w \in Word /\ HeldAll(<<RdC, RdC, CImmAddi>>, v, w)
  BY AllHeld
<1>2. ToldBy(w, e.args, v, fmt_rd_rs1_imm, "ci")
  BY <1>1, Told_ci_rd_rs1_imm_2 DEF ToldBy
<1>3. Tabbed(fmt_rd_rs1_imm)
  BY DEF Tabbed, fmt_rd_rs1_imm
<1> QED
  BY <1>2, <1>3, ListedPlain

LEMMA Lists_ci_16sp_rd_rs1_imm ==
  ASSUME NEW w, NEW isa, NEW e, NEW marks, NEW v, Carries(w, e, marks, v), NoMarks(e),
         e.args = <<sp, sp, CImm16>>, w \in Halfword,
         Decodes(w, isa, e, "ci_16sp", fmt_rd_rs1_imm)
  PROVE  Listed(w, isa, e, marks, v)
<1>1. w \in Word /\ HeldAll(<<sp, sp, CImm16>>, v, w)
  BY AllHeld
<1>2. ToldBy(w, e.args, v, fmt_rd_rs1_imm, "ci_16sp")
  BY <1>1, Told_ci_16sp_rd_rs1_imm DEF ToldBy
<1>3. Tabbed(fmt_rd_rs1_imm)
  BY DEF Tabbed, fmt_rd_rs1_imm
<1> QED
  BY <1>2, <1>3, ListedPlain

LEMMA Lists_ci_lui_rd_imm ==
  ASSUME NEW w, NEW isa, NEW e, NEW marks, NEW v, Carries(w, e, marks, v), NoMarks(e),
         e.args = <<RdLui, CImmLui>>, w \in Halfword,
         Decodes(w, isa, e, "ci_lui", fmt_rd_imm)
  PROVE  Listed(w, isa, e, marks, v)
<1>1. w \in Word /\ HeldAll(<<RdLui, CImmLui>>, v, w)
  BY AllHeld
<1>2. ToldBy(w, e.args, v, fmt_rd_imm, "ci_lui")
  BY <1>1, Told_ci_lui_rd_imm DEF ToldBy
<1>3. Tabbed(fmt_rd_imm)
  BY DEF Tabbed, fmt_rd_imm
<1> QED
  BY <1>2, <1>3, ListedPlain

LEMMA Lists_cb_sh6_rd_rs1_imm ==
  ASSUME NEW w, NEW isa, NEW e, NEW marks, NEW v, Carries(w, e, marks, v), NoMarks(e),
         e.args = <<XC(7), XC(7), CShamt>>, w \in Halfword,
         Decodes(w, isa, e, "cb_sh6", fmt_rd_rs1_imm)
  PROVE  Listed(w, isa, e, marks, v)
<1>1. w \in Word /\ HeldAll(<<XC(7), XC(7), CShamt>>, v, w)
  BY AllHeld
<1>2. ToldBy(w, e.args, v, fmt_rd_rs1_imm, "cb_sh6")
  BY <1>1, Told_cb_sh6_rd_rs1_imm DEF ToldBy
<1>3. Tabbed(fmt_rd_rs1_imm)
  BY DEF Tabbed, fmt_rd_rs1_imm
<1> QED
  BY <1>2, <1>3, ListedPlain

LEMMA Lists_cb_imm_rd_rs1_imm ==
  ASSUME NEW w, NEW isa, NEW e, NEW marks, NEW v, Carries(w, e, marks, v), NoMarks(e),
         e.args = <<XC(7), XC(7), CImm>>, w \in Halfword,
         Decodes(w, isa, e, "cb_imm", fmt_rd_rs1_imm)
  PROVE  Listed(w, isa, e, marks, v)
<1>1. w \in Word /\ HeldAll(<<XC(7), XC(7), CImm>>, v, w)
  BY AllHeld
<1>2. ToldBy(w, e.args, v, fmt_rd_rs1_imm, "cb_imm")
  BY <1>1, Told_cb_imm_rd_rs1_imm DEF ToldBy
<1>3. Tabbed(fmt_rd_rs1_imm)
  BY DEF Tabbed, fmt_rd_rs1_imm
<1> QED
  BY <1>2, <1>3, ListedPlain

LEMMA Lists_cs_rd_rs1_rs2 ==
  ASSUME NEW w, NEW isa, NEW e, NEW marks, NEW v, Carries(w, e, marks, v), NoMarks(e),
         e.args = <<XC(7), XC(7), XC(2)>>, w \in Halfword,
         Decodes(w, isa, e, "cs", fmt_rd_rs1_rs2)
  PROVE  Listed(w, isa, e, marks, v)
<1>1. w \in Word /\ HeldAll(<<XC(7), XC(7), XC(2)>>, v, w)
  BY AllHeld
<1>2. ToldBy(w, e.args, v, fmt_rd_rs1_rs2, "cs")
  BY <1>1, Told_cs_rd_rs1_rs2 DEF ToldBy
<1>3. Tabbed(fmt_rd_rs1_rs2)
  BY DEF Tabbed, fmt_rd_rs1_rs2
<1> QED
  BY <1>2, <1>3, ListedPlain

LEMMA Lists_cr_jr_rd_rs1_offset ==
  ASSUME NEW w, NEW isa, NEW e, NEW marks, NEW v, Carries(w, e, marks, v), NoMarks(e),
         e.args = <<zero, RdC, none>>, w \in Halfword,
         Decodes(w, isa, e, "cr_jr", fmt_rd_rs1_offset)
  PROVE  Listed(w, isa, e, marks, v)
<1>1. w \in Word /\ HeldAll(<<zero, RdC, none>>, v, w)
  BY AllHeld
<1>2. ToldBy(w, e.args, v, fmt_rd_rs1_offset, "cr_jr")
  BY <1>1, Told_cr_jr_rd_rs1_offset DEF ToldBy
<1>3. Tabbed(fmt_rd_rs1_offset)
  BY DEF Tabbed, fmt_rd_rs1_offset
<1> QED
  BY <1>2, <1>3, ListedPlain

LEMMA Lists_cr_mv_rd_rs1_rs2 ==
  ASSUME NEW w, NEW isa, NEW e, NEW marks, NEW v, Carries(w, e, marks, v), NoMarks(e),
         e.args = <<RdC, Rs2C, zero>>, w \in Halfword,
         Decodes(w, isa, e, "cr_mv", fmt_rd_rs1_rs2)
  PROVE  Listed(w, isa, e, marks, v)
<1>1. w \in Word /\ HeldAll(<<RdC, Rs2C, zero>>, v, w)
  BY AllHeld
<1>2. ToldBy(w, e.args, v, fmt_rd_rs1_rs2, "cr_mv")
  BY <1>1, Told_cr_mv_rd_rs1_rs2 DEF ToldBy
<1>3. Tabbed(fmt_rd_rs1_rs2)
  BY DEF Tabbed, fmt_rd_rs1_rs2
<1> QED
  BY <1>2, <1>3, ListedPlain

LEMMA Lists_cr_rd_rs1_rs2 ==
  ASSUME NEW w, NEW isa, NEW e, NEW marks, NEW v, Carries(w, e, marks, v), NoMarks(e),
         e.args = <<RdC, RdC, Rs2C>>, w \in Halfword,
         Decodes(w, isa, e, "cr", fmt_rd_rs1_rs2)
  PROVE  Listed(w, isa, e, marks, v)
<1>1. w \in Word /\ HeldAll(<<RdC, RdC, Rs2C>>, v, w)
  BY AllHeld
<1>2. ToldBy(w, e.args, v, fmt_rd_rs1_rs2, "cr")
  BY <1>1, Told_cr_rd_rs1_rs2 DEF ToldBy
<1>3. Tabbed(fmt_rd_rs1_rs2)
  BY DEF Tabbed, fmt_rd_rs1_rs2
<1> QED
  BY <1>2, <1>3, ListedPlain

LEMMA Lists_cr_jalr_rd_rs1_offset ==
  ASSUME NEW w, NEW isa, NEW e, NEW marks, NEW v, Carries(w, e, marks, v), NoMarks(e),
         e.args = <<ra, RdC, none>>, w \in Halfword,
         Decodes(w, isa, e, "cr_jalr", fmt_rd_rs1_offset)
  PROVE  Listed(w, isa, e, marks, v)
<1>1. w \in Word /\ HeldAll(<<ra, RdC, none>>, v, w)
  BY AllHeld
<1>2. ToldBy(w, e.args, v, fmt_rd_rs1_offset, "cr_jalr")
  BY <1>1, Told_cr_jalr_rd_rs1_offset DEF ToldBy
<1>3. Tabbed(fmt_rd_rs1_offset)
  BY DEF Tabbed, fmt_rd_rs1_offset
<1> QED
  BY <1>2, <1>3, ListedPlain

(* The atomic instructions, with their marks.                             *)
LEMMA Lists_r_a_aqrl_rd_rs2_rs1 ==
  ASSUME NEW w, NEW isa, NEW e, NEW marks, NEW v, Carries(w, e, marks, v), Marking(w, marks),
         e.args = <<Rd, Rs2, Rs1>>, Decodes(w, isa, e, "r_a", fmt_aqrl_rd_rs2_rs1)
  PROVE  Listed(w, isa, e, marks, v)
<1>1. w \in Word /\ HeldAll(<<Rd, Rs2, Rs1>>, v, w) /\ marks \subseteq {"aq", "rl"}
  BY AllHeld DEF Carries
<1>2. ToldBy(w, e.args, v, fmt_aqrl_rd_rs2_rs1, "r_a")
  BY <1>1, Told_r_a_aqrl_rd_rs2_rs1 DEF ToldBy
<1>3. ASSUME NEW pc, NEW d, d = Cut(w, pc, e.name, "r_a")
      PROVE  LineMarks(d, fmt_aqrl_rd_rs2_rs1) = marks
  <2>1. d.aq = operand_aq(w) /\ d.rl = operand_rl(w)
    BY <1>3, Cut_r_a
  <2>2. fmt_aqrl_rd_rs2_rs1[2] = "A"
    BY DEF fmt_aqrl_rd_rs2_rs1
  <2>3. (IF d.aq = 1 THEN {"aq"} ELSE {}) = marks \cap {"aq"}
    <3>1. CASE "aq" \in marks
      <4>1. d.aq = 1
        BY <2>1, <3>1 DEF Marking
      <4> QED
        BY <3>1, <4>1
    <3>2. CASE "aq" \notin marks
      <4>1. d.aq = 0
        BY <2>1, <3>2 DEF Marking
      <4> QED
        BY <3>2, <4>1
    <3> QED
      BY <3>1, <3>2
  <2>4. (IF d.rl = 1 THEN {"rl"} ELSE {}) = marks \cap {"rl"}
    <3>1. CASE "rl" \in marks
      <4>1. d.rl = 1
        BY <2>1, <3>1 DEF Marking
      <4> QED
        BY <3>1, <4>1
    <3>2. CASE "rl" \notin marks
      <4>1. d.rl = 0
        BY <2>1, <3>2 DEF Marking
      <4> QED
        BY <3>2, <4>1
    <3> QED
      BY <3>1, <3>2
  <2>5. marks = (marks \cap {"aq"}) \cup (marks \cap {"rl"})
    BY <1>1
  <2> QED
    BY <2>2, <2>3, <2>4, <2>5 DEF LineMarks
<1>4. opcode_data[e.name].type = "r_a" /\ opcode_data[e.name].format = fmt_aqrl_rd_rs2_rs1
      /\ e.name \in rv_op /\ rv_inst_opcode(w, isa) = e.name
  BY DEF Decodes, InRow
<1> QED
  BY <1>2, <1>3, <1>4 DEF Listed, ToldBy

LEMMA Lists_r_l_aqrl_rd_rs1 ==
  ASSUME NEW w, NEW isa, NEW e, NEW marks, NEW v, Carries(w, e, marks, v), Marking(w, marks),
         e.args = <<Rd, Rs1>>, Decodes(w, isa, e, "r_l", fmt_aqrl_rd_rs1)
  PROVE  Listed(w, isa, e, marks, v)
<1>1. w \in Word /\ HeldAll(<<Rd, Rs1>>, v, w) /\ marks \subseteq {"aq", "rl"}
  BY AllHeld DEF Carries
<1>2. ToldBy(w, e.args, v, fmt_aqrl_rd_rs1, "r_l")
  BY <1>1, Told_r_l_aqrl_rd_rs1 DEF ToldBy
<1>3. ASSUME NEW pc, NEW d, d = Cut(w, pc, e.name, "r_l")
      PROVE  LineMarks(d, fmt_aqrl_rd_rs1) = marks
  <2>1. d.aq = operand_aq(w) /\ d.rl = operand_rl(w)
    BY <1>3, Cut_r_l
  <2>2. fmt_aqrl_rd_rs1[2] = "A"
    BY DEF fmt_aqrl_rd_rs1
  <2>3. (IF d.aq = 1 THEN {"aq"} ELSE {}) = marks \cap {"aq"}
    <3>1. CASE "aq" \in marks
      <4>1. d.aq = 1
        BY <2>1, <3>1 DEF Marking
      <4> QED
        BY <3>1, <4>1
    <3>2. CASE "aq" \notin marks
      <4>1. d.aq = 0
        BY <2>1, <3>2 DEF Marking
      <4> QED
        BY <3>2, <4>1
    <3> QED
      BY <3>1, <3>2
  <2>4. (IF d.rl = 1 THEN {"rl"} ELSE {}) = marks \cap {"rl"}
    <3>1. CASE "rl" \in marks
      <4>1. d.rl = 1
        BY <2>1, <3>1 DEF Marking
      <4> QED
        BY <3>1, <4>1
    <3>2. CASE "rl" \notin marks
      <4>1. d.rl = 0
        BY <2>1, <3>2 DEF Marking
      <4> QED
        BY <3>2, <4>1
    <3> QED
      BY <3>1, <3>2
  <2>5. marks = (marks \cap {"aq"}) \cup (marks \cap {"rl"})
    BY <1>1
  <2> QED
    BY <2>2, <2>3, <2>4, <2>5 DEF LineMarks
<1>4. opcode_data[e.name].type = "r_l" /\ opcode_data[e.name].format = fmt_aqrl_rd_rs1
      /\ e.name \in rv_op /\ rv_inst_opcode(w, isa) = e.name
  BY DEF Decodes, InRow
<1> QED
  BY <1>2, <1>3, <1>4 DEF Listed, ToldBy

LEMMA BranchesListed ==
  ASSUME NEW w, NEW isa, NEW marks, NEW v, NEW e \in Branches, Carries(w, e, marks, v)
  PROVE  Listed(w, isa, e, marks, v)
BY BranchesDecoded, Lists_sb_rs1_rs2_offset

LEMMA LoadsListed ==
  ASSUME NEW w, NEW isa, NEW marks, NEW v, NEW e \in Loads, Carries(w, e, marks, v)
  PROVE  Listed(w, isa, e, marks, v)
BY LoadsDecoded, Lists_i_rd_offset_rs1

LEMMA LoadQuadListed ==
  ASSUME NEW w, NEW isa, NEW marks, NEW v, NEW e \in LoadQuad, Carries(w, e, marks, v)
  PROVE  Listed(w, isa, e, marks, v)
BY LoadQuadDecoded, Lists_i_rd_offset_rs1

LEMMA StoresListed ==
  ASSUME NEW w, NEW isa, NEW marks, NEW v, NEW e \in Stores, Carries(w, e, marks, v)
  PROVE  Listed(w, isa, e, marks, v)
BY StoresDecoded, Lists_s_rs2_offset_rs1

LEMMA ImmediatesListed ==
  ASSUME NEW w, NEW isa, NEW marks, NEW v, NEW e \in Immediates, Carries(w, e, marks, v)
  PROVE  Listed(w, isa, e, marks, v)
BY ImmediatesDecoded, Lists_i_rd_rs1_imm

LEMMA Immediates32Listed ==
  ASSUME NEW w, NEW isa, NEW marks, NEW v, NEW e \in Immediates32, Carries(w, e, marks, v)
  PROVE  Listed(w, isa, e, marks, v)
BY Immediates32Decoded, Lists_i_rd_rs1_imm

LEMMA Immediates64Listed ==
  ASSUME NEW w, NEW isa, NEW marks, NEW v, NEW e \in Immediates64, Carries(w, e, marks, v)
  PROVE  Listed(w, isa, e, marks, v)
BY Immediates64Decoded, Lists_i_rd_rs1_imm

LEMMA ShiftsListed ==
  ASSUME NEW w, NEW isa, NEW marks, NEW v, NEW e \in Shifts, Carries(w, e, marks, v)
  PROVE  Listed(w, isa, e, marks, v)
BY ShiftsDecoded, Lists_i_sh7_rd_rs1_imm

LEMMA Shifts32Listed ==
  ASSUME NEW w, NEW isa, NEW marks, NEW v, NEW e \in Shifts32, Carries(w, e, marks, v)
  PROVE  Listed(w, isa, e, marks, v)
BY Shifts32Decoded, Lists_i_sh5_rd_rs1_imm

LEMMA Shifts64Listed ==
  ASSUME NEW w, NEW isa, NEW marks, NEW v, NEW e \in Shifts64, Carries(w, e, marks, v)
  PROVE  Listed(w, isa, e, marks, v)
BY Shifts64Decoded, Lists_i_sh6_rd_rs1_imm

LEMMA AluListed ==
  ASSUME NEW w, NEW isa, NEW marks, NEW v, NEW e \in Alu, Carries(w, e, marks, v)
  PROVE  Listed(w, isa, e, marks, v)
BY AluDecoded, Lists_r_rd_rs1_rs2

LEMMA Alu32Listed ==
  ASSUME NEW w, NEW isa, NEW marks, NEW v, NEW e \in Alu32, Carries(w, e, marks, v)
  PROVE  Listed(w, isa, e, marks, v)
BY Alu32Decoded, Lists_r_rd_rs1_rs2

LEMMA Alu64Listed ==
  ASSUME NEW w, NEW isa, NEW marks, NEW v, NEW e \in Alu64, Carries(w, e, marks, v)
  PROVE  Listed(w, isa, e, marks, v)
BY Alu64Decoded, Lists_r_rd_rs1_rs2

LEMMA EnvironmentListed ==
  ASSUME NEW w, NEW isa, NEW marks, NEW v, NEW e \in Environment, Carries(w, e, marks, v)
  PROVE  Listed(w, isa, e, marks, v)
BY EnvironmentDecoded, Lists_none_none

LEMMA CsrsListed ==
  ASSUME NEW w, NEW isa, NEW marks, NEW v, NEW e \in Csrs, Carries(w, e, marks, v)
  PROVE  Listed(w, isa, e, marks, v)
BY CsrsDecoded, Lists_i_csr_rd_csr_rs1

LEMMA CsrImmediatesListed ==
  ASSUME NEW w, NEW isa, NEW marks, NEW v, NEW e \in CsrImmediates, Carries(w, e, marks, v)
  PROVE  Listed(w, isa, e, marks, v)
BY CsrImmediatesDecoded, Lists_i_csr_rd_csr_zimm

LEMMA FloatLoadsListed ==
  ASSUME NEW w, NEW isa, NEW marks, NEW v, NEW e \in FloatLoads, Carries(w, e, marks, v)
  PROVE  Listed(w, isa, e, marks, v)
BY FloatLoadsDecoded, Lists_i_frd_offset_rs1

LEMMA FloatStoresListed ==
  ASSUME NEW w, NEW isa, NEW marks, NEW v, NEW e \in FloatStores, Carries(w, e, marks, v)
  PROVE  Listed(w, isa, e, marks, v)
BY FloatStoresDecoded, Lists_s_frs2_offset_rs1

LEMMA FusedFloatsListed ==
  ASSUME NEW w, NEW isa, NEW marks, NEW v, NEW e \in FusedFloats, Carries(w, e, marks, v)
  PROVE  Listed(w, isa, e, marks, v)
BY FusedFloatsDecoded, Lists_r4_m_rm_frd_frs1_frs2_frs3

LEMMA FloatAluListed ==
  ASSUME NEW w, NEW isa, NEW marks, NEW v, NEW e \in FloatAlu, Carries(w, e, marks, v)
  PROVE  Listed(w, isa, e, marks, v)
BY FloatAluDecoded, Lists_r_m_rm_frd_frs1_frs2

LEMMA FloatSignsListed ==
  ASSUME NEW w, NEW isa, NEW marks, NEW v, NEW e \in FloatSigns, Carries(w, e, marks, v)
  PROVE  Listed(w, isa, e, marks, v)
BY FloatSignsDecoded, Lists_r_frd_frs1_frs2

LEMMA FloatComparesListed ==
  ASSUME NEW w, NEW isa, NEW marks, NEW v, NEW e \in FloatCompares, Carries(w, e, marks, v)
  PROVE  Listed(w, isa, e, marks, v)
BY FloatComparesDecoded, Lists_r_rd_frs1_frs2

LEMMA FloatRootsListed ==
  ASSUME NEW w, NEW isa, NEW marks, NEW v, NEW e \in FloatRoots, Carries(w, e, marks, v)
  PROVE  Listed(w, isa, e, marks, v)
BY FloatRootsDecoded, Lists_r_m_rm_frd_frs1

LEMMA FloatClassesListed ==
  ASSUME NEW w, NEW isa, NEW marks, NEW v, NEW e \in FloatClasses, Carries(w, e, marks, v)
  PROVE  Listed(w, isa, e, marks, v)
BY FloatClassesDecoded, Lists_r_rd_frs1

LEMMA FloatToFloatListed ==
  ASSUME NEW w, NEW isa, NEW marks, NEW v, NEW e \in FloatToFloat, Carries(w, e, marks, v)
  PROVE  Listed(w, isa, e, marks, v)
BY FloatToFloatDecoded, Lists_r_m_rm_frd_frs1

LEMMA FloatToIntListed ==
  ASSUME NEW w, NEW isa, NEW marks, NEW v, NEW e \in FloatToInt, Carries(w, e, marks, v)
  PROVE  Listed(w, isa, e, marks, v)
BY FloatToIntDecoded, Lists_r_m_rm_rd_frs1

LEMMA IntToFloatListed ==
  ASSUME NEW w, NEW isa, NEW marks, NEW v, NEW e \in IntToFloat, Carries(w, e, marks, v)
  PROVE  Listed(w, isa, e, marks, v)
BY IntToFloatDecoded, Lists_r_m_rm_frd_rs1

LEMMA JumpsListed ==
  ASSUME NEW w, NEW isa, NEW marks, NEW v, NEW e \in Jumps, Carries(w, e, marks, v)
  PROVE  Listed(w, isa, e, marks, v)
<1>1. CASE e = Insn(<<"jal">>, Code(27, 0, 0), <<Rd, ImmJ>>)
  BY <1>1, JalDecoded, Lists_uj_rd_offset
<1>2. CASE e = Insn(<<"jalr">>, Code(25, 0, 0), <<Rd, Rs1, ImmI>>)
  BY <1>2, JalrDecoded, Lists_i_rd_rs1_offset
<1> QED
  BY <1>1, <1>2 DEF Jumps

LEMMA UppersListed ==
  ASSUME NEW w, NEW isa, NEW marks, NEW v, NEW e \in Uppers, Carries(w, e, marks, v)
  PROVE  Listed(w, isa, e, marks, v)
<1>1. CASE e = Insn(<<"lui">>, Code(13, 0, 0), <<Rd, ImmU>>)
  BY <1>1, LuiDecoded, Lists_u_rd_imm
<1>2. CASE e = Insn(<<"auipc">>, Code(5, 0, 0), <<Rd, ImmU>>)
  BY <1>2, AuipcDecoded, Lists_u_rd_offset
<1> QED
  BY <1>1, <1>2 DEF Uppers

LEMMA FencesListed ==
  ASSUME NEW w, NEW isa, NEW marks, NEW v, NEW e \in Fences, Carries(w, e, marks, v)
  PROVE  Listed(w, isa, e, marks, v)
<1>1. CASE e = Insn(<<"sfence", "vm">>, Imm12(260), <<Rs1>>)
  BY <1>1, SfenceVmDecoded, Lists_r_rs1
<1>2. CASE e = Insn(<<"sfence", "vma">>, Code(28, 0, 9), <<Rs1, Rs2>>)
  <2>1. /\ e.args = <<Rs1, Rs2>> /\ NoMarks(e)
        /\ Decodes(w, isa, e, "r", fmt_rs1_rs2)
    BY <1>2, SfenceVmaDecoded
  <2> QED
    BY <2>1, Lists_r_rs1_rs2
<1>3. CASE e = Insn(<<"fence">>, Code(3, 0, 0), <<Pred, Succ>>)
  BY <1>3, FenceDecoded, Lists_r_f_pred_succ
<1>4. CASE e = Insn(<<"fence", "i">>, Code(3, 1, 0), << >>)
  BY <1>4, FenceIDecoded, Lists_none_none
<1> QED
  BY <1>1, <1>2, <1>3, <1>4 DEF Fences

LEMMA FloatMovesListed ==
  ASSUME NEW w, NEW isa, NEW marks, NEW v, NEW e \in FloatMoves, Carries(w, e, marks, v)
  PROVE  Listed(w, isa, e, marks, v)
<1>1. ASSUME NEW q \in FloatFormats, e = Insn(<<"fmv", "x", q[1]>>, FCode(28, q, 0), <<Rd, Fs1>>)
      PROVE  Listed(w, isa, e, marks, v)
  BY <1>1, FloatToIntMoveDecoded, Lists_r_rd_frs1
<1>2. ASSUME NEW q \in FloatFormats, e = Insn(<<"fmv", q[1], "x">>, FCode(30, q, 0), <<Fd, Rs1>>)
      PROVE  Listed(w, isa, e, marks, v)
  BY <1>2, IntToFloatMoveDecoded, Lists_r_frd_rs1
<1> QED
  BY <1>1, <1>2 DEF FloatMoves

LEMMA AtomicsListed ==
  ASSUME NEW w, NEW isa, NEW marks, NEW v, NEW e \in Atomics, Carries(w, e, marks, v)
  PROVE  Listed(w, isa, e, marks, v)
<1>1. ASSUME NEW a \in AtomicNames, NEW width \in AtomicWidths, e = Marked(a[1], width, a[2], <<Rd, Rs2, Rs1>>)
      PROVE  Listed(w, isa, e, marks, v)
  BY <1>1, AmoDecoded, Lists_r_a_aqrl_rd_rs2_rs1
<1>2. ASSUME NEW width \in AtomicWidths, e = Marked("lr", width, 2, <<Rd, Rs1>>)
      PROVE  Listed(w, isa, e, marks, v)
  BY <1>2, LrDecoded, Lists_r_l_aqrl_rd_rs1
<1> QED
  BY <1>1, <1>2 DEF Atomics

LEMMA BasicIntegersListed ==
  ASSUME NEW w, NEW isa, NEW marks, NEW v, NEW e \in BasicIntegers, Carries(w, e, marks, v)
  PROVE  Listed(w, isa, e, marks, v)
<1>1. CASE e \in Jumps
  BY <1>1, JumpsListed
<1>2. CASE e \in Branches
  BY <1>2, BranchesListed
<1>3. CASE e \in Loads
  BY <1>3, LoadsListed
<1>4. CASE e \in LoadQuad
  BY <1>4, LoadQuadListed
<1>5. CASE e \in Stores
  BY <1>5, StoresListed
<1>6. CASE e \in Uppers
  BY <1>6, UppersListed
<1>7. CASE e \in Immediates
  BY <1>7, ImmediatesListed
<1>8. CASE e \in Immediates32
  BY <1>8, Immediates32Listed
<1>9. CASE e \in Immediates64
  BY <1>9, Immediates64Listed
<1>10. CASE e \in Shifts
  BY <1>10, ShiftsListed
<1>11. CASE e \in Shifts32
  BY <1>11, Shifts32Listed
<1>12. CASE e \in Shifts64
  BY <1>12, Shifts64Listed
<1>13. CASE e \in Alu
  BY <1>13, AluListed
<1>14. CASE e \in Alu32
  BY <1>14, Alu32Listed
<1>15. CASE e \in Alu64
  BY <1>15, Alu64Listed
<1>16. CASE e \in Atomics
  BY <1>16, AtomicsListed
<1>17. CASE e \in Environment
  BY <1>17, EnvironmentListed
<1>18. CASE e \in Fences
  BY <1>18, FencesListed
<1>19. CASE e \in Csrs
  BY <1>19, CsrsListed
<1>20. CASE e \in CsrImmediates
  BY <1>20, CsrImmediatesListed
<1> QED
  BY <1>1, <1>2, <1>3, <1>4, <1>5, <1>6, <1>7, <1>8, <1>9, <1>10, <1>11, <1>12, <1>13, <1>14, <1>15, <1>16, <1>17, <1>18, <1>19, <1>20 DEF BasicIntegers

LEMMA BasicFloatsListed ==
  ASSUME NEW w, NEW isa, NEW marks, NEW v, NEW e \in BasicFloats, Carries(w, e, marks, v)
  PROVE  Listed(w, isa, e, marks, v)
<1>1. CASE e \in FloatLoads
  BY <1>1, FloatLoadsListed
<1>2. CASE e \in FloatStores
  BY <1>2, FloatStoresListed
<1>3. CASE e \in FusedFloats
  BY <1>3, FusedFloatsListed
<1>4. CASE e \in FloatAlu
  BY <1>4, FloatAluListed
<1>5. CASE e \in FloatSigns
  BY <1>5, FloatSignsListed
<1>6. CASE e \in FloatCompares
  BY <1>6, FloatComparesListed
<1>7. CASE e \in FloatRoots
  BY <1>7, FloatRootsListed
<1>8. CASE e \in FloatClasses
  BY <1>8, FloatClassesListed
<1>9. CASE e \in FloatMoves
  BY <1>9, FloatMovesListed
<1>10. CASE e \in FloatToFloat
  BY <1>10, FloatToFloatListed
<1>11. CASE e \in FloatToInt
  BY <1>11, FloatToIntListed
<1>12. CASE e \in IntToFloat
  BY <1>12, IntToFloatListed
<1> QED
  BY <1>1, <1>2, <1>3, <1>4, <1>5, <1>6, <1>7, <1>8, <1>9, <1>10, <1>11, <1>12 DEF BasicFloats

LEMMA CLoadsAndStoresListed ==
  ASSUME NEW w, NEW isa, NEW marks, NEW v, NEW e \in CLoadsAndStores, Carries(w, e, marks, v), isa \in e.isas
  PROVE  Listed(w, isa, e, marks, v)
<1>1. CASE e = CInsn("addi4spn", 0, 0, {}, <<XC(2), sp, CImm4>>)
  BY <1>1, C_addi4spnDecoded, Lists_ciw_4spn_rd_rs1_imm DEF ShortDecodes
<1>2. CASE e = CInsn("fld", 0, 1, {}, <<FC(2), CImmD, XC(7)>>)
  BY <1>2, C_fldDecoded, Lists_cl_ld_frd_offset_rs1 DEF ShortDecodes
<1>3. CASE e = CInsn("lw", 0, 2, {}, <<XC(2), CImmW, XC(7)>>)
  BY <1>3, C_lwDecoded, Lists_cl_lw_rd_offset_rs1 DEF ShortDecodes
<1>4. CASE e = For("rv32", CInsn("flw", 0, 3, {}, <<FC(2), CImmW, XC(7)>>))
  BY <1>4, C_flwDecoded, Lists_cl_lw_frd_offset_rs1 DEF ShortDecodes
<1>5. CASE e = For("rv64", CInsn("ld", 0, 3, {}, <<XC(2), CImmD, XC(7)>>))
  BY <1>5, C_ldDecoded, Lists_cl_ld_rd_offset_rs1 DEF ShortDecodes
<1>6. CASE e = CInsn("fsd", 0, 5, {}, <<FC(2), CImmD, XC(7)>>)
  BY <1>6, C_fsdDecoded, Lists_cs_sd_frs2_offset_rs1 DEF ShortDecodes
<1>7. CASE e = CInsn("sw", 0, 6, {}, <<XC(2), CImmW, XC(7)>>)
  BY <1>7, C_swDecoded, Lists_cs_sw_rs2_offset_rs1 DEF ShortDecodes
<1>8. CASE e = For("rv32", CInsn("fsw", 0, 7, {}, <<FC(2), CImmW, XC(7)>>))
  BY <1>8, C_fswDecoded, Lists_cs_sw_frs2_offset_rs1 DEF ShortDecodes
<1>9. CASE e = For("rv64", CInsn("sd", 0, 7, {}, <<XC(2), CImmD, XC(7)>>))
  BY <1>9, C_sdDecoded, Lists_cs_sd_rs2_offset_rs1 DEF ShortDecodes
<1>10. CASE e = CInsn("fldsp", 2, 1, {}, <<F(7), CImmLdsp, sp>>)
  BY <1>10, C_fldspDecoded, Lists_ci_ldsp_frd_offset_rs1 DEF ShortDecodes
<1>11. CASE e = CInsn("lwsp", 2, 2, {}, <<RdC, CImmLwsp, sp>>)
  BY <1>11, C_lwspDecoded, Lists_ci_lwsp_rd_offset_rs1 DEF ShortDecodes
<1>12. CASE e = For("rv32", CInsn("flwsp", 2, 3, {}, <<F(7), CImmLwsp, sp>>))
  BY <1>12, C_flwspDecoded, Lists_ci_lwsp_frd_offset_rs1 DEF ShortDecodes
<1>13. CASE e = For("rv64", CInsn("ldsp", 2, 3, {}, <<RdC, CImmLdsp, sp>>))
  BY <1>13, C_ldspDecoded, Lists_ci_ldsp_rd_offset_rs1 DEF ShortDecodes
<1>14. CASE e = CInsn("fsdsp", 2, 5, {}, <<F(2), CImmSdsp, sp>>)
  BY <1>14, C_fsdspDecoded, Lists_css_sdsp_frs2_offset_rs1 DEF ShortDecodes
<1>15. CASE e = CInsn("swsp", 2, 6, {}, <<X(2), CImmSwsp, sp>>)
  BY <1>15, C_swspDecoded, Lists_css_swsp_rs2_offset_rs1 DEF ShortDecodes
<1>16. CASE e = For("rv32", CInsn("fswsp", 2, 7, {}, <<F(2), CImmSwsp, sp>>))
  BY <1>16, C_fswspDecoded, Lists_css_swsp_frs2_offset_rs1 DEF ShortDecodes
<1>17. CASE e = For("rv64", CInsn("sdsp", 2, 7, {}, <<X(2), CImmSdsp, sp>>))
  BY <1>17, C_sdspDecoded, Lists_css_sdsp_rs2_offset_rs1 DEF ShortDecodes
<1> QED
  BY <1>1, <1>2, <1>3, <1>4, <1>5, <1>6, <1>7, <1>8, <1>9, <1>10, <1>11, <1>12, <1>13, <1>14, <1>15, <1>16, <1>17 DEF CLoadsAndStores

LEMMA CArithmeticListed ==
  ASSUME NEW w, NEW isa, NEW marks, NEW v, NEW e \in CArithmetic, Carries(w, e, marks, v), isa \in e.isas
  PROVE  Listed(w, isa, e, marks, v)
<1>1. CASE e = CInsn("nop", 1, 0, {}, << >>)
  BY <1>1, C_nopDecoded, Lists_ci_none_none DEF ShortDecodes
<1>2. CASE e = CInsn("addi", 1, 0, {}, <<RdC, RdC, CImmAddi>>)
  BY <1>2, C_addiDecoded, Lists_ci_rd_rs1_imm_2 DEF ShortDecodes
<1>3. CASE e = For("rv64", CInsn("addiw", 1, 1, {}, <<RdC, RdC, CImm>>))
  BY <1>3, C_addiwDecoded, Lists_ci_rd_rs1_imm DEF ShortDecodes
<1>4. CASE e = CInsn("li", 1, 2, {}, <<RdC, zero, CImm>>)
  BY <1>4, C_liDecoded, Lists_ci_li_rd_rs1_imm DEF ShortDecodes
<1>5. CASE e = CInsn("addi16sp", 1, 3, Field(7, 5, 2), <<sp, sp, CImm16>>)
  BY <1>5, C_addi16spDecoded, Lists_ci_16sp_rd_rs1_imm DEF ShortDecodes
<1>6. CASE e = CInsn("lui", 1, 3, {}, <<RdLui, CImmLui>>)
  BY <1>6, C_luiDecoded, Lists_ci_lui_rd_imm DEF ShortDecodes
<1>7. CASE e = CInsn("srli", 1, 4, {}, <<XC(7), XC(7), CShamt>>)
  BY <1>7, C_srliDecoded, Lists_cb_sh6_rd_rs1_imm DEF ShortDecodes
<1>8. CASE e = CInsn("srai", 1, 4, {10}, <<XC(7), XC(7), CShamt>>)
  BY <1>8, C_sraiDecoded, Lists_cb_sh6_rd_rs1_imm DEF ShortDecodes
<1>9. CASE e = CInsn("andi", 1, 4, {11}, <<XC(7), XC(7), CImm>>)
  BY <1>9, C_andiDecoded, Lists_cb_imm_rd_rs1_imm DEF ShortDecodes
<1>10. CASE e = CInsn("slli", 2, 0, {}, <<RdC, RdC, CShamt>>)
  BY <1>10, C_slliDecoded, Lists_ci_sh6_rd_rs1_imm DEF ShortDecodes
<1>11. CASE e = CInsn("mv", 2, 4, {}, <<RdC, Rs2C, zero>>)
  BY <1>11, C_mvDecoded, Lists_cr_mv_rd_rs1_rs2 DEF ShortDecodes
<1>12. CASE e = CInsn("add", 2, 4, {12}, <<RdC, RdC, Rs2C>>)
  BY <1>12, C_addDecoded, Lists_cr_rd_rs1_rs2 DEF ShortDecodes
<1> QED
  BY <1>1, <1>2, <1>3, <1>4, <1>5, <1>6, <1>7, <1>8, <1>9, <1>10, <1>11, <1>12 DEF CArithmetic

LEMMA CTransfersListed ==
  ASSUME NEW w, NEW isa, NEW marks, NEW v, NEW e \in CTransfers, Carries(w, e, marks, v), isa \in e.isas
  PROVE  Listed(w, isa, e, marks, v)
<1>1. CASE e = CInsn("j", 1, 5, {}, <<zero, CImmJ>>)
  BY <1>1, C_jDecoded, Lists_cj_rd_offset DEF ShortDecodes
<1>2. CASE e = For("rv32", CInsn("jal", 1, 1, {}, <<ra, CImmJ>>))
  BY <1>2, C_jalDecoded, Lists_cj_jal_rd_offset DEF ShortDecodes
<1>3. CASE e = CInsn("beqz", 1, 6, {}, <<XC(7), zero, CImmB>>)
  BY <1>3, C_beqzDecoded, Lists_cb_rs1_rs2_offset DEF ShortDecodes
<1>4. CASE e = CInsn("bnez", 1, 7, {}, <<XC(7), zero, CImmB>>)
  BY <1>4, C_bnezDecoded, Lists_cb_rs1_rs2_offset DEF ShortDecodes
<1>5. CASE e = CInsn("jr", 2, 4, {}, <<zero, RdC, none>>)
  BY <1>5, C_jrDecoded, Lists_cr_jr_rd_rs1_offset DEF ShortDecodes
<1>6. CASE e = CInsn("jalr", 2, 4, {12}, <<ra, RdC, none>>)
  BY <1>6, C_jalrDecoded, Lists_cr_jalr_rd_rs1_offset DEF ShortDecodes
<1>7. CASE e = CInsn("ebreak", 2, 4, {12}, << >>)
  BY <1>7, C_ebreakDecoded, Lists_ci_none_none DEF ShortDecodes
<1> QED
  BY <1>1, <1>2, <1>3, <1>4, <1>5, <1>6, <1>7 DEF CTransfers

LEMMA CAluListed ==
  ASSUME NEW w, NEW isa, NEW marks, NEW v, NEW e \in CAlu, Carries(w, e, marks, v)
  PROVE  Listed(w, isa, e, marks, v)
<1>1. CASE e = CInsn("sub", 1, 4, {10, 11} \cup {}, <<XC(7), XC(7), XC(2)>>)
  BY <1>1, C_subDecoded, Lists_cs_rd_rs1_rs2 DEF ShortDecodes
<1>2. CASE e = CInsn("xor", 1, 4, {10, 11} \cup {5}, <<XC(7), XC(7), XC(2)>>)
  BY <1>2, C_xorDecoded, Lists_cs_rd_rs1_rs2 DEF ShortDecodes
<1>3. CASE e = CInsn("or", 1, 4, {10, 11} \cup {6}, <<XC(7), XC(7), XC(2)>>)
  BY <1>3, C_orDecoded, Lists_cs_rd_rs1_rs2 DEF ShortDecodes
<1>4. CASE e = CInsn("and", 1, 4, {10, 11} \cup {5, 6}, <<XC(7), XC(7), XC(2)>>)
  BY <1>4, C_andDecoded, Lists_cs_rd_rs1_rs2 DEF ShortDecodes
<1>5. CASE e = CInsn("subw", 1, 4, {10, 11} \cup {12}, <<XC(7), XC(7), XC(2)>>)
  BY <1>5, C_subwDecoded, Lists_cs_rd_rs1_rs2 DEF ShortDecodes
<1>6. CASE e = CInsn("addw", 1, 4, {10, 11} \cup {5, 12}, <<XC(7), XC(7), XC(2)>>)
  BY <1>6, C_addwDecoded, Lists_cs_rd_rs1_rs2 DEF ShortDecodes
<1>7. PICK t \in CAluNames : e = CInsn(t[1], 1, 4, {10, 11} \cup t[2], <<XC(7), XC(7), XC(2)>>)
  BY DEF CAlu
<1>8. \/ t[1] = "sub" /\ t[2] = {}
      \/ t[1] = "xor" /\ t[2] = {5}
      \/ t[1] = "or" /\ t[2] = {6}
      \/ t[1] = "and" /\ t[2] = {5, 6}
      \/ t[1] = "subw" /\ t[2] = {12}
      \/ t[1] = "addw" /\ t[2] = {5, 12}
  BY DEF CAluNames
<1> QED
  BY <1>1, <1>2, <1>3, <1>4, <1>5, <1>6, <1>7, <1>8

(* The operands and the marks of a legal word, and its entry.             *)
LEMMA LegalCarries ==
  ASSUME NEW w \in Word, NEW isa, Legal(isa, BitsOf(w))
  PROVE  \E e \in Basic \cup Compressed : \E marks, v : isa \in e.isas /\ Carries(w, e, marks, v)
<1>1. PICK e \in Basic \cup Compressed :
        /\ isa \in e.isas
        /\ \E marks \in SUBSET {"aq", "rl"} : Exactly(e, marks, BitsOf(w))
        /\ \A k \in DOMAIN e.args :
             \E v \in e.args[k].lo .. e.args[k].hi - 1 : Holds(e.args[k], v, BitsOf(w))
  BY DEF Legal
<1>2. PICK marks \in SUBSET {"aq", "rl"} : Exactly(e, marks, BitsOf(w))
  BY <1>1
<1> DEFINE v == [k \in DOMAIN e.args |-> CHOOSE n \in Int : Holds(e.args[k], n, BitsOf(w))]
<1>3. \A k \in DOMAIN e.args : Held(e.args[k], v[k], w)
  BY <1>1 DEF Held
<1>4. DOMAIN v = DOMAIN e.args
  OBVIOUS
<1> HIDE DEF v
<1>5. Carries(w, e, marks, v)
  BY <1>2, <1>3, <1>4 DEF Carries
<1> QED
  BY <1>1, <1>5

LEMMA EntriesListed ==
  ASSUME NEW w, NEW isa, NEW marks, NEW v, NEW e \in Basic \cup Compressed,
         isa \in e.isas, Carries(w, e, marks, v)
  PROVE  Listed(w, isa, e, marks, v)
<1>1. CASE e \in BasicIntegers
  BY <1>1, BasicIntegersListed
<1>2. CASE e \in BasicFloats
  BY <1>2, BasicFloatsListed
<1>3. CASE e \in CLoadsAndStores
  BY <1>3, CLoadsAndStoresListed
<1>4. CASE e \in CArithmetic
  BY <1>4, CArithmeticListed
<1>5. CASE e \in CAlu
  BY <1>5, CAluListed
<1>6. CASE e \in CTransfers
  BY <1>6, CTransfersListed
<1> QED
  BY <1>1, <1>2, <1>3, <1>4, <1>5, <1>6 DEF Basic, Compressed

(* The switches of rv_inst_opcode find every legal word: the op that they  *)
(* return is the name of an entry that the word is of, and the operands    *)
(* that its row in opcode_data cuts out and shows, and the marks, are      *)
(* those that the word holds.                                              *)
THEOREM LegalListed ==
  ASSUME NEW w \in Word, NEW isa, Legal(isa, BitsOf(w))
  PROVE  \E e \in Basic \cup Compressed : \E marks, v :
           Carries(w, e, marks, v) /\ Listed(w, isa, e, marks, v)
<1>1. PICK e \in Basic \cup Compressed :
        \E marks, v : isa \in e.isas /\ Carries(w, e, marks, v)
  BY LegalCarries
<1> QED
  BY <1>1, EntriesListed

-----------------------------------------------------------------------------
(* The entries whose instructions are lifted, by their names.              *)
LEMMA ByFunct3Entry ==
  ASSUME NEW e, NEW opcode, NEW args, NEW T, e \in ByFunct3(opcode, args, T), NEW l, e.name = <<l>>
  PROVE  \E t \in T : t[1] = l /\ e.fixed = Code(opcode, t[2], 0)
<1>1. PICK t \in T : e = Insn(<<t[1]>>, Code(opcode, t[2], 0), args)
  BY DEF ByFunct3
<1> QED
  BY <1>1 DEF Insn

LEMMA ByFunct7Entry ==
  ASSUME NEW e, NEW opcode, NEW args, NEW T, e \in ByFunct7(opcode, args, T), NEW l, e.name = <<l>>
  PROVE  \E t \in T : t[1] = l /\ e.fixed = Code(opcode, t[2], t[3])
<1>1. PICK t \in T : e = Insn(<<t[1]>>, Code(opcode, t[2], t[3]), args)
  BY DEF ByFunct7
<1> QED
  BY <1>1 DEF Insn

(* One name, and not the parts of a name.                                  *)
LEMMA OnePart ==
  ASSUME NEW l
  PROVE  (\A a, b : <<a, b>> # <<l>>) /\ (\A a, b, c : <<a, b, c>> # <<l>>)
OBVIOUS

LiftNames ==
  {"jal", "jalr", "beq", "bne", "blt", "bge", "bltu", "bgeu", "addi", "sltiu", "xori", "addiw",
   "sub", "slt", "sltu", "subw", "csrrw", "csrrs", "csrrwi"}

LiftedNone(e) == \A l \in LiftNames : e.name # <<l>>

LEMMA LoadsNotLifted == \A e \in Loads : LiftedNone(e)
<1> DEFINE T == {<<"lb", 0>>, <<"lh", 1>>, <<"lw", 2>>, <<"ld", 3>>, <<"lbu", 4>>, <<"lhu",
                   5>>, <<"lwu", 6>>, <<"ldu", 7>>}
<1>1. \A t \in T : t[1] \notin LiftNames
  BY DEF LiftNames
<1>2. \A e \in Loads : e \in ByFunct3(0, <<Rd, ImmI, Rs1>>, T)
  BY DEF Loads
<1> HIDE DEF T
<1> QED
  BY <1>1, <1>2, ByFunct3Entry DEF LiftedNone

LEMMA LoadQuadNotLifted == \A e \in LoadQuad : LiftedNone(e)
<1> DEFINE T == {<<"lq", 2>>}
<1>1. \A t \in T : t[1] \notin LiftNames
  BY DEF LiftNames
<1>2. \A e \in LoadQuad : e \in ByFunct3(3, <<Rd, ImmI, Rs1>>, T)
  BY DEF LoadQuad
<1> HIDE DEF T
<1> QED
  BY <1>1, <1>2, ByFunct3Entry DEF LiftedNone

LEMMA StoresNotLifted == \A e \in Stores : LiftedNone(e)
<1> DEFINE T == {<<"sb", 0>>, <<"sh", 1>>, <<"sw", 2>>, <<"sd", 3>>, <<"sq", 4>>}
<1>1. \A t \in T : t[1] \notin LiftNames
  BY DEF LiftNames
<1>2. \A e \in Stores : e \in ByFunct3(8, <<Rs2, ImmS, Rs1>>, T)
  BY DEF Stores
<1> HIDE DEF T
<1> QED
  BY <1>1, <1>2, ByFunct3Entry DEF LiftedNone

LEMMA FloatLoadsNotLifted == \A e \in FloatLoads : LiftedNone(e)
<1> DEFINE T == {<<"flw", 2>>, <<"fld", 3>>, <<"flq", 4>>}
<1>1. \A t \in T : t[1] \notin LiftNames
  BY DEF LiftNames
<1>2. \A e \in FloatLoads : e \in ByFunct3(1, <<Fd, ImmI, Rs1>>, T)
  BY DEF FloatLoads
<1> HIDE DEF T
<1> QED
  BY <1>1, <1>2, ByFunct3Entry DEF LiftedNone

LEMMA FloatStoresNotLifted == \A e \in FloatStores : LiftedNone(e)
<1> DEFINE T == {<<"fsw", 2>>, <<"fsd", 3>>, <<"fsq", 4>>}
<1>1. \A t \in T : t[1] \notin LiftNames
  BY DEF LiftNames
<1>2. \A e \in FloatStores : e \in ByFunct3(9, <<Fs2, ImmS, Rs1>>, T)
  BY DEF FloatStores
<1> HIDE DEF T
<1> QED
  BY <1>1, <1>2, ByFunct3Entry DEF LiftedNone

LEMMA Immediates64NotLifted == \A e \in Immediates64 : LiftedNone(e)
<1> DEFINE T == {<<"addid", 0>>}
<1>1. \A t \in T : t[1] \notin LiftNames
  BY DEF LiftNames
<1>2. \A e \in Immediates64 : e \in ByFunct3(22, <<Rd, Rs1, ImmI>>, T)
  BY DEF Immediates64
<1> HIDE DEF T
<1> QED
  BY <1>1, <1>2, ByFunct3Entry DEF LiftedNone

LEMMA ShiftsNotLifted == \A e \in Shifts : LiftedNone(e)
<1> DEFINE T == {<<"slli", 1, 0>>, <<"srli", 5, 0>>, <<"srai", 5, 32>>}
<1>1. \A t \in T : t[1] \notin LiftNames
  BY DEF LiftNames
<1>2. \A e \in Shifts : e \in ByFunct7(4, <<Rd, Rs1, Sh(6)>>, T)
  BY DEF Shifts
<1> HIDE DEF T
<1> QED
  BY <1>1, <1>2, ByFunct7Entry DEF LiftedNone

LEMMA Shifts32NotLifted == \A e \in Shifts32 : LiftedNone(e)
<1> DEFINE T == {<<"slliw", 1, 0>>, <<"srliw", 5, 0>>, <<"sraiw", 5, 32>>}
<1>1. \A t \in T : t[1] \notin LiftNames
  BY DEF LiftNames
<1>2. \A e \in Shifts32 : e \in ByFunct7(6, <<Rd, Rs1, Sh(5)>>, T)
  BY DEF Shifts32
<1> HIDE DEF T
<1> QED
  BY <1>1, <1>2, ByFunct7Entry DEF LiftedNone

LEMMA Shifts64NotLifted == \A e \in Shifts64 : LiftedNone(e)
<1> DEFINE T == {<<"sllid", 1, 0>>, <<"srlid", 5, 0>>, <<"sraid", 5, 32>>}
<1>1. \A t \in T : t[1] \notin LiftNames
  BY DEF LiftNames
<1>2. \A e \in Shifts64 : e \in ByFunct7(22, <<Rd, Rs1, Sh(6)>>, T)
  BY DEF Shifts64
<1> HIDE DEF T
<1> QED
  BY <1>1, <1>2, ByFunct7Entry DEF LiftedNone

LEMMA Alu64NotLifted == \A e \in Alu64 : LiftedNone(e)
<1> DEFINE T == {<<"addd", 0, 0>>, <<"subd", 0, 32>>, <<"slld", 1, 0>>, <<"srld", 5, 0>>,
                   <<"srad", 5, 32>>, <<"muld", 0, 1>>, <<"divd", 4, 1>>, <<"divud", 5, 1>>,
                   <<"remd", 6, 1>>, <<"remud", 7, 1>>}
<1>1. \A t \in T : t[1] \notin LiftNames
  BY DEF LiftNames
<1>2. \A e \in Alu64 : e \in ByFunct7(30, <<Rd, Rs1, Rs2>>, T)
  BY DEF Alu64
<1> HIDE DEF T
<1> QED
  BY <1>1, <1>2, ByFunct7Entry DEF LiftedNone

LEMMA UppersNotLifted == \A e \in Uppers : LiftedNone(e)
<1>1. \A e \in Uppers : e.name = <<"lui">> \/ e.name = <<"auipc">>
  BY DEF Uppers, Insn
<1> QED
  BY <1>1 DEF LiftedNone, LiftNames

LEMMA SystemNotLifted == \A e \in Environment \cup Fences : LiftedNone(e)
<1>1. ASSUME NEW e \in Environment
      PROVE  LiftedNone(e)
  <2>1. PICK b \in BareNumbers : e.name = <<b[1]>>
    BY <1>1 DEF Environment, Insn
  <2>2. b[1] \in {"ecall", "ebreak", "uret", "sret", "wfi", "hret", "mret", "dret"}
    BY <2>1 DEF BareNumbers
  <2> QED
    BY <2>1, <2>2 DEF LiftedNone, LiftNames
<1>2. ASSUME NEW e \in Fences
      PROVE  LiftedNone(e)
  <2>1. \/ e.name = <<"sfence", "vm">> \/ e.name = <<"sfence", "vma">>
        \/ e.name = <<"fence">> \/ e.name = <<"fence", "i">>
    BY <1>2 DEF Fences, Insn
  <2> QED
    BY <2>1, OnePart DEF LiftedNone, LiftNames
<1> QED
  BY <1>1, <1>2

(* Entries with names of several parts.                                    *)
SeveralParts(e) == (\E a, b : e.name = <<a, b>>) \/ (\E a, b, c : e.name = <<a, b, c>>)

LEMMA SeveralNotLifted ==
  ASSUME NEW e, SeveralParts(e)
  PROVE  LiftedNone(e)
BY OnePart DEF SeveralParts, LiftedNone

LEMMA InsnName == \A name, fixed, args : Insn(name, fixed, args).name = name
BY DEF Insn

LEMMA AtomicsParted == \A e \in Atomics : SeveralParts(e)
<1>1. \A name, width, f5, args : Marked(name, width, f5, args).name = <<name, width[1]>>
  BY InsnName DEF Marked, Insn
<1> QED
  BY <1>1 DEF Atomics, SeveralParts

LEMMA NamedParted ==
  /\ \A a, b, fixed, args : SeveralParts(Insn(<<a, b>>, fixed, args))
  /\ \A a, b, c, fixed, args : SeveralParts(Insn(<<a, b, c>>, fixed, args))
BY InsnName DEF SeveralParts

LEMMA ByPrecisionParted == \A args, T : \A e \in ByPrecision(args, T) : SeveralParts(e)
<1>1. ASSUME NEW args, NEW T, NEW e \in ByPrecision(args, T)
      PROVE  SeveralParts(e)
  <2>1. PICK t \in T, p \in FloatFormats : e = Insn(<<t[1], p[1]>>, FCode(t[2], p, t[3]), args)
    BY <1>1 DEF ByPrecision
  <2> QED
    BY <2>1, NamedParted
<1> QED
  BY <1>1

LEMMA FloatsParted ==
  \A e \in FusedFloats \cup FloatAlu \cup FloatSigns \cup FloatCompares \cup FloatRoots
            \cup FloatClasses \cup FloatMoves \cup FloatToFloat \cup FloatToInt \cup IntToFloat : SeveralParts(e)
<1>1. \A e \in FloatAlu \cup FloatSigns \cup FloatCompares : SeveralParts(e)
  BY ByPrecisionParted DEF FloatAlu, FloatSigns, FloatCompares
<1>2. \A e \in FloatRoots \cup FloatClasses : SeveralParts(e)
  BY ByPrecisionParted DEF FloatRoots, FloatClasses
<1>3. \A e \in FusedFloats \cup FloatMoves : SeveralParts(e)
  <2>1. ASSUME NEW e \in FusedFloats
        PROVE  SeveralParts(e)
    <3>1. PICK t \in FusedNames, p \in FloatFormats :
            e = Insn(<<t[1], p[1]>>, Code(t[2], 0, p[2]), <<Rm, Fd, Fs1, Fs2, Fs3>>)
      BY <2>1 DEF FusedFloats
    <3> QED
      BY <3>1, NamedParted
  <2>2. \A e \in FloatMoves : SeveralParts(e)
    BY NamedParted DEF FloatMoves
  <2> QED
    BY <2>1, <2>2
<1>4. \A to, from, f5, p, k, args : SeveralParts(Conversion(to, from, f5, p, k, args))
  BY InsnName DEF Conversion, SeveralParts
<1>5. \A e \in FloatToFloat \cup FloatToInt \cup IntToFloat : SeveralParts(e)
  BY <1>4 DEF FloatToFloat, FloatToInt, IntToFloat
<1> QED
  BY <1>1, <1>2, <1>3, <1>5

LEMMA CompressedParted == \A e \in Compressed : SeveralParts(e)
<1>1. \A name, q, f3, more, args : SeveralParts(CInsn(name, q, f3, more, args))
  BY InsnName DEF CInsn, SeveralParts
<1>2. \A isa, e : SeveralParts(e) /\ (\E name, q, f3, more, args : e = CInsn(name, q, f3, more, args))
                    => SeveralParts(For(isa, e))
  BY DEF For, CInsn, Insn, SeveralParts
<1>3. \A isa, name, q, f3, more, args : SeveralParts(For(isa, CInsn(name, q, f3, more, args)))
  BY <1>1, <1>2
<1>4. \A e \in CLoadsAndStores : SeveralParts(e)
  BY <1>1, <1>3 DEF CLoadsAndStores
<1>5. \A e \in CArithmetic : SeveralParts(e)
  BY <1>1, <1>3 DEF CArithmetic
<1>6. \A e \in CAlu : SeveralParts(e)
  BY <1>1 DEF CAlu
<1>7. \A e \in CTransfers : SeveralParts(e)
  BY <1>1, <1>3 DEF CTransfers
<1> QED
  BY <1>4, <1>5, <1>6, <1>7 DEF Compressed

LEMMA LiftedFamilies ==
  ASSUME NEW e \in Basic \cup Compressed, ~LiftedNone(e)
  PROVE  e \in Jumps \cup Branches \cup Immediates \cup Immediates32 \cup Alu \cup Alu32
                 \cup Csrs \cup CsrImmediates
<1>1. e \notin Compressed
  BY CompressedParted, SeveralNotLifted
<1>2. e \notin Atomics \cup FusedFloats \cup FloatAlu \cup FloatSigns \cup FloatCompares \cup FloatRoots
                 \cup FloatClasses \cup FloatMoves \cup FloatToFloat \cup FloatToInt \cup IntToFloat
  BY AtomicsParted, FloatsParted, SeveralNotLifted
<1>3. e \notin Loads \cup LoadQuad \cup Stores \cup FloatLoads \cup FloatStores \cup Uppers
                 \cup Environment \cup Fences
  BY LoadsNotLifted, LoadQuadNotLifted, StoresNotLifted, FloatLoadsNotLifted, FloatStoresNotLifted,
     UppersNotLifted, SystemNotLifted
<1>4. e \notin Immediates64 \cup Shifts \cup Shifts32 \cup Shifts64 \cup Alu64
  BY Immediates64NotLifted, ShiftsNotLifted, Shifts32NotLifted, Shifts64NotLifted, Alu64NotLifted
<1> QED
  BY <1>1, <1>2, <1>3, <1>4 DEF Basic, BasicIntegers, BasicFloats

(* The entry of a lifted name.                                             *)
LEMMA BranchesEntry ==
  ASSUME NEW e \in Branches, NEW l, e.name = <<l>>
  PROVE  \E t \in {<<"beq", 0>>, <<"bne", 1>>, <<"blt", 4>>, <<"bge", 5>>, <<"bltu", 6>>,
                  <<"bgeu", 7>>} :
           t[1] = l /\ e.fixed = Code(24, t[2], 0)
BY ByFunct3Entry DEF Branches

LEMMA ImmediatesEntry ==
  ASSUME NEW e \in Immediates, NEW l, e.name = <<l>>
  PROVE  \E t \in {<<"addi", 0>>, <<"slti", 2>>, <<"sltiu", 3>>, <<"xori", 4>>, <<"ori", 6>>,
                  <<"andi", 7>>} :
           t[1] = l /\ e.fixed = Code(4, t[2], 0)
BY ByFunct3Entry DEF Immediates

LEMMA Immediates32Entry ==
  ASSUME NEW e \in Immediates32, NEW l, e.name = <<l>>
  PROVE  \E t \in {<<"addiw", 0>>} :
           t[1] = l /\ e.fixed = Code(6, t[2], 0)
BY ByFunct3Entry DEF Immediates32

LEMMA AluEntry ==
  ASSUME NEW e \in Alu, NEW l, e.name = <<l>>
  PROVE  \E t \in {<<"add", 0, 0>>, <<"sub", 0, 32>>, <<"sll", 1, 0>>, <<"slt", 2, 0>>,
                  <<"sltu", 3, 0>>, <<"xor", 4, 0>>, <<"srl", 5, 0>>, <<"sra", 5, 32>>, <<"or",
                  6, 0>>, <<"and", 7, 0>>, <<"mul", 0, 1>>, <<"mulh", 1, 1>>, <<"mulhsu", 2,
                  1>>, <<"mulhu", 3, 1>>, <<"div", 4, 1>>, <<"divu", 5, 1>>, <<"rem", 6, 1>>,
                  <<"remu", 7, 1>>} :
           t[1] = l /\ e.fixed = Code(12, t[2], t[3])
BY ByFunct7Entry DEF Alu

LEMMA Alu32Entry ==
  ASSUME NEW e \in Alu32, NEW l, e.name = <<l>>
  PROVE  \E t \in {<<"addw", 0, 0>>, <<"subw", 0, 32>>, <<"sllw", 1, 0>>, <<"srlw", 5, 0>>,
                  <<"sraw", 5, 32>>, <<"mulw", 0, 1>>, <<"divw", 4, 1>>, <<"divuw", 5, 1>>,
                  <<"remw", 6, 1>>, <<"remuw", 7, 1>>} :
           t[1] = l /\ e.fixed = Code(14, t[2], t[3])
BY ByFunct7Entry DEF Alu32

LEMMA CsrsEntry ==
  ASSUME NEW e \in Csrs, NEW l, e.name = <<l>>
  PROVE  \E t \in {<<"csrrw", 1>>, <<"csrrs", 2>>, <<"csrrc", 3>>} :
           t[1] = l /\ e.fixed = Code(28, t[2], 0)
BY ByFunct3Entry DEF Csrs

LEMMA CsrImmediatesEntry ==
  ASSUME NEW e \in CsrImmediates, NEW l, e.name = <<l>>
  PROVE  \E t \in {<<"csrrwi", 5>>, <<"csrrsi", 6>>, <<"csrrci", 7>>} :
           t[1] = l /\ e.fixed = Code(28, t[2], 0)
BY ByFunct3Entry DEF CsrImmediates

LEMMA JumpsEntry ==
  ASSUME NEW e \in Jumps, NEW l, e.name = <<l>>
  PROVE  \E t \in {<<"jal", 27>>, <<"jalr", 25>>} : t[1] = l /\ e.fixed = Code(t[2], 0, 0)
<1>1. \/ e.name = <<"jal">> /\ e.fixed = Code(27, 0, 0)
      \/ e.name = <<"jalr">> /\ e.fixed = Code(25, 0, 0)
  BY DEF Jumps, Insn
<1> QED
  BY <1>1

LEMMA EntryFamily ==
  ASSUME NEW e \in Basic \cup Compressed, NEW l \in LiftNames, e.name = <<l>>
  PROVE  /\ l \in {"jal", "jalr"} => e \in Jumps
         /\ l \in {"beq", "bne", "blt", "bge", "bltu", "bgeu"} => e \in Branches
         /\ l \in {"addi", "sltiu", "xori"} => e \in Immediates
         /\ l \in {"addiw"} => e \in Immediates32
         /\ l \in {"sub", "slt", "sltu"} => e \in Alu
         /\ l \in {"subw"} => e \in Alu32
         /\ l \in {"csrrw", "csrrs"} => e \in Csrs
         /\ l \in {"csrrwi"} => e \in CsrImmediates
<1>1. e \in Jumps => l \in {"jal", "jalr"}
  BY JumpsEntry
<1>2. e \in Branches => l \in {"beq", "bne", "blt", "bge", "bltu", "bgeu"}
  BY BranchesEntry
<1>3. e \in Immediates => l \in {"addi", "slti", "sltiu", "xori", "ori", "andi"}
  BY ImmediatesEntry
<1>4. e \in Immediates32 => l \in {"addiw"}
  BY Immediates32Entry
<1>5. e \in Alu => l \in {"add", "sub", "sll", "slt", "sltu", "xor", "srl", "sra", "or", "and", "mul",
              "mulh", "mulhsu", "mulhu", "div", "divu", "rem", "remu"}
  BY AluEntry
<1>6. e \in Alu32 => l \in {"addw", "subw", "sllw", "srlw", "sraw", "mulw", "divw", "divuw", "remw",
              "remuw"}
  BY Alu32Entry
<1>7. e \in Csrs => l \in {"csrrw", "csrrs", "csrrc"}
  BY CsrsEntry
<1>8. e \in CsrImmediates => l \in {"csrrwi", "csrrsi", "csrrci"}
  BY CsrImmediatesEntry
<1>9. e \in Jumps \cup Branches \cup Immediates \cup Immediates32 \cup Alu \cup Alu32
             \cup Csrs \cup CsrImmediates
  BY LiftedFamilies DEF LiftedNone
<1> QED
  BY <1>1, <1>2, <1>3, <1>4, <1>5, <1>6, <1>7, <1>8, <1>9

LEMMA JumpsBases ==
  ASSUME NEW e \in Basic \cup Compressed
  PROVE  /\ e.name = <<"jal">> => e \in Jumps /\ e.fixed = Code(27, 0, 0)
         /\ e.name = <<"jalr">> => e \in Jumps /\ e.fixed = Code(25, 0, 0)
<1>1. ASSUME e.name = <<"jal">>
      PROVE  e \in Jumps /\ e.fixed = Code(27, 0, 0)
  <2>1. "jal" \in LiftNames
    BY DEF LiftNames
  <2>2. e \in Jumps
    BY <1>1, <2>1, EntryFamily
  <2> QED
    BY <1>1, <2>2, JumpsEntry
<1>2. ASSUME e.name = <<"jalr">>
      PROVE  e \in Jumps /\ e.fixed = Code(25, 0, 0)
  <2>1. "jalr" \in LiftNames
    BY DEF LiftNames
  <2>2. e \in Jumps
    BY <1>2, <2>1, EntryFamily
  <2> QED
    BY <1>2, <2>2, JumpsEntry
<1> QED
  BY <1>1, <1>2

LEMMA BranchesBases ==
  ASSUME NEW e \in Basic \cup Compressed
  PROVE  /\ e.name = <<"beq">> => e \in Branches /\ e.fixed = Code(24, 0, 0)
         /\ e.name = <<"bne">> => e \in Branches /\ e.fixed = Code(24, 1, 0)
         /\ e.name = <<"blt">> => e \in Branches /\ e.fixed = Code(24, 4, 0)
         /\ e.name = <<"bge">> => e \in Branches /\ e.fixed = Code(24, 5, 0)
         /\ e.name = <<"bltu">> => e \in Branches /\ e.fixed = Code(24, 6, 0)
         /\ e.name = <<"bgeu">> => e \in Branches /\ e.fixed = Code(24, 7, 0)
<1>1. ASSUME e.name = <<"beq">>
      PROVE  e \in Branches /\ e.fixed = Code(24, 0, 0)
  <2>1. "beq" \in LiftNames
    BY DEF LiftNames
  <2>2. e \in Branches
    BY <1>1, <2>1, EntryFamily
  <2> QED
    BY <1>1, <2>2, BranchesEntry
<1>2. ASSUME e.name = <<"bne">>
      PROVE  e \in Branches /\ e.fixed = Code(24, 1, 0)
  <2>1. "bne" \in LiftNames
    BY DEF LiftNames
  <2>2. e \in Branches
    BY <1>2, <2>1, EntryFamily
  <2> QED
    BY <1>2, <2>2, BranchesEntry
<1>3. ASSUME e.name = <<"blt">>
      PROVE  e \in Branches /\ e.fixed = Code(24, 4, 0)
  <2>1. "blt" \in LiftNames
    BY DEF LiftNames
  <2>2. e \in Branches
    BY <1>3, <2>1, EntryFamily
  <2> QED
    BY <1>3, <2>2, BranchesEntry
<1>4. ASSUME e.name = <<"bge">>
      PROVE  e \in Branches /\ e.fixed = Code(24, 5, 0)
  <2>1. "bge" \in LiftNames
    BY DEF LiftNames
  <2>2. e \in Branches
    BY <1>4, <2>1, EntryFamily
  <2> QED
    BY <1>4, <2>2, BranchesEntry
<1>5. ASSUME e.name = <<"bltu">>
      PROVE  e \in Branches /\ e.fixed = Code(24, 6, 0)
  <2>1. "bltu" \in LiftNames
    BY DEF LiftNames
  <2>2. e \in Branches
    BY <1>5, <2>1, EntryFamily
  <2> QED
    BY <1>5, <2>2, BranchesEntry
<1>6. ASSUME e.name = <<"bgeu">>
      PROVE  e \in Branches /\ e.fixed = Code(24, 7, 0)
  <2>1. "bgeu" \in LiftNames
    BY DEF LiftNames
  <2>2. e \in Branches
    BY <1>6, <2>1, EntryFamily
  <2> QED
    BY <1>6, <2>2, BranchesEntry
<1> QED
  BY <1>1, <1>2, <1>3, <1>4, <1>5, <1>6

LEMMA ImmediatesBases ==
  ASSUME NEW e \in Basic \cup Compressed
  PROVE  /\ e.name = <<"addi">> => e \in Immediates /\ e.fixed = Code(4, 0, 0)
         /\ e.name = <<"sltiu">> => e \in Immediates /\ e.fixed = Code(4, 3, 0)
         /\ e.name = <<"xori">> => e \in Immediates /\ e.fixed = Code(4, 4, 0)
<1>1. ASSUME e.name = <<"addi">>
      PROVE  e \in Immediates /\ e.fixed = Code(4, 0, 0)
  <2>1. "addi" \in LiftNames
    BY DEF LiftNames
  <2>2. e \in Immediates
    BY <1>1, <2>1, EntryFamily
  <2> QED
    BY <1>1, <2>2, ImmediatesEntry
<1>2. ASSUME e.name = <<"sltiu">>
      PROVE  e \in Immediates /\ e.fixed = Code(4, 3, 0)
  <2>1. "sltiu" \in LiftNames
    BY DEF LiftNames
  <2>2. e \in Immediates
    BY <1>2, <2>1, EntryFamily
  <2> QED
    BY <1>2, <2>2, ImmediatesEntry
<1>3. ASSUME e.name = <<"xori">>
      PROVE  e \in Immediates /\ e.fixed = Code(4, 4, 0)
  <2>1. "xori" \in LiftNames
    BY DEF LiftNames
  <2>2. e \in Immediates
    BY <1>3, <2>1, EntryFamily
  <2> QED
    BY <1>3, <2>2, ImmediatesEntry
<1> QED
  BY <1>1, <1>2, <1>3

LEMMA Immediates32Bases ==
  ASSUME NEW e \in Basic \cup Compressed
  PROVE  /\ e.name = <<"addiw">> => e \in Immediates32 /\ e.fixed = Code(6, 0, 0)
<1>1. ASSUME e.name = <<"addiw">>
      PROVE  e \in Immediates32 /\ e.fixed = Code(6, 0, 0)
  <2>1. "addiw" \in LiftNames
    BY DEF LiftNames
  <2>2. e \in Immediates32
    BY <1>1, <2>1, EntryFamily
  <2> QED
    BY <1>1, <2>2, Immediates32Entry
<1> QED
  BY <1>1

LEMMA AluBases ==
  ASSUME NEW e \in Basic \cup Compressed
  PROVE  /\ e.name = <<"sub">> => e \in Alu /\ e.fixed = Code(12, 0, 32)
         /\ e.name = <<"slt">> => e \in Alu /\ e.fixed = Code(12, 2, 0)
         /\ e.name = <<"sltu">> => e \in Alu /\ e.fixed = Code(12, 3, 0)
<1>1. ASSUME e.name = <<"sub">>
      PROVE  e \in Alu /\ e.fixed = Code(12, 0, 32)
  <2>1. "sub" \in LiftNames
    BY DEF LiftNames
  <2>2. e \in Alu
    BY <1>1, <2>1, EntryFamily
  <2> QED
    BY <1>1, <2>2, AluEntry
<1>2. ASSUME e.name = <<"slt">>
      PROVE  e \in Alu /\ e.fixed = Code(12, 2, 0)
  <2>1. "slt" \in LiftNames
    BY DEF LiftNames
  <2>2. e \in Alu
    BY <1>2, <2>1, EntryFamily
  <2> QED
    BY <1>2, <2>2, AluEntry
<1>3. ASSUME e.name = <<"sltu">>
      PROVE  e \in Alu /\ e.fixed = Code(12, 3, 0)
  <2>1. "sltu" \in LiftNames
    BY DEF LiftNames
  <2>2. e \in Alu
    BY <1>3, <2>1, EntryFamily
  <2> QED
    BY <1>3, <2>2, AluEntry
<1> QED
  BY <1>1, <1>2, <1>3

LEMMA Alu32Bases ==
  ASSUME NEW e \in Basic \cup Compressed
  PROVE  /\ e.name = <<"subw">> => e \in Alu32 /\ e.fixed = Code(14, 0, 32)
<1>1. ASSUME e.name = <<"subw">>
      PROVE  e \in Alu32 /\ e.fixed = Code(14, 0, 32)
  <2>1. "subw" \in LiftNames
    BY DEF LiftNames
  <2>2. e \in Alu32
    BY <1>1, <2>1, EntryFamily
  <2> QED
    BY <1>1, <2>2, Alu32Entry
<1> QED
  BY <1>1

LEMMA CsrsBases ==
  ASSUME NEW e \in Basic \cup Compressed
  PROVE  /\ e.name = <<"csrrw">> => e \in Csrs /\ e.fixed = Code(28, 1, 0)
         /\ e.name = <<"csrrs">> => e \in Csrs /\ e.fixed = Code(28, 2, 0)
<1>1. ASSUME e.name = <<"csrrw">>
      PROVE  e \in Csrs /\ e.fixed = Code(28, 1, 0)
  <2>1. "csrrw" \in LiftNames
    BY DEF LiftNames
  <2>2. e \in Csrs
    BY <1>1, <2>1, EntryFamily
  <2> QED
    BY <1>1, <2>2, CsrsEntry
<1>2. ASSUME e.name = <<"csrrs">>
      PROVE  e \in Csrs /\ e.fixed = Code(28, 2, 0)
  <2>1. "csrrs" \in LiftNames
    BY DEF LiftNames
  <2>2. e \in Csrs
    BY <1>2, <2>1, EntryFamily
  <2> QED
    BY <1>2, <2>2, CsrsEntry
<1> QED
  BY <1>1, <1>2

LEMMA CsrImmediatesBases ==
  ASSUME NEW e \in Basic \cup Compressed
  PROVE  /\ e.name = <<"csrrwi">> => e \in CsrImmediates /\ e.fixed = Code(28, 5, 0)
<1>1. ASSUME e.name = <<"csrrwi">>
      PROVE  e \in CsrImmediates /\ e.fixed = Code(28, 5, 0)
  <2>1. "csrrwi" \in LiftNames
    BY DEF LiftNames
  <2>2. e \in CsrImmediates
    BY <1>1, <2>1, EntryFamily
  <2> QED
    BY <1>1, <2>2, CsrImmediatesEntry
<1> QED
  BY <1>1

-----------------------------------------------------------------------------
(***************************************************************************)
(* A lift that keeps the meaning: the line of a word that carries an       *)
(* instruction of r.of still means this word under r.to, although it drops *)
(* operands.                                                               *)
(***************************************************************************)
Lossy(x) ==
  \/ x.op = <<"ret">> /\ x.imm # 0
  \/ \E p \in Precisions : x.op \in {<<"fmv", p>>, <<"fneg", p>>, <<"fabs", p>>}

Ready(w, e, marks, v, d, x) ==
  /\ e \in Basic \cup Compressed /\ Carries(w, e, marks, v)
  /\ Told(e.args, v, opcode_data[e.name].format, d) /\ Same(x, d)

Keeps(r) ==
  \A w, e, marks, v, d, x :
    (/\ Ready(w, e, marks, v, d, x) /\ r.of = e.name /\ check_constraints(d, r.if)
     /\ x.op = r.to /\ ~Lossy(x))
    => Meant(x, opcode_data[x.op].format, w)

LEMMA MetOne ==
  ASSUME NEW d
  PROVE  /\ Meets(d, "rd_eq_x0") => d.rd = 0
         /\ Meets(d, "rs1_eq_x0") => d.rs1 = 0
         /\ Meets(d, "rs2_eq_x0") => d.rs2 = 0
         /\ Meets(d, "rs1_eq_ra") => d.rs1 = 1
         /\ Meets(d, "imm_eq_zero") => d.imm = 0
         /\ Meets(d, "imm_eq_n1") => d.imm = -1
         /\ Meets(d, "imm_eq_p1") => d.imm = 1
BY DEF Meets

LEMMA MetCsr ==
  ASSUME NEW d
  PROVE  /\ Meets(d, "csr_eq_0x001") => d.imm = 1
         /\ Meets(d, "csr_eq_0x002") => d.imm = 2
         /\ Meets(d, "csr_eq_0x003") => d.imm = 3
         /\ Meets(d, "csr_eq_0xc00") => d.imm = 3072
         /\ Meets(d, "csr_eq_0xc01") => d.imm = 3073
         /\ Meets(d, "csr_eq_0xc02") => d.imm = 3074
         /\ Meets(d, "csr_eq_0xc80") => d.imm = 3200
         /\ Meets(d, "csr_eq_0xc81") => d.imm = 3201
         /\ Meets(d, "csr_eq_0xc82") => d.imm = 3202
BY DEF Meets

LEMMA SameTold_Jal ==
  ASSUME NEW v, NEW d, NEW x, Same(x, d), Told(<<Rd, ImmJ>>, v, fmt_rd_offset, d)
  PROVE  Told(<<Rd, ImmJ>>, v, fmt_rd_offset, x)
<1>1. Tells(Rd, v[1], "0", d) /\ Tells(ImmJ, v[2], "o", d)
  BY Slots_fmt_rd_offset DEF Told
<1>2. Tells(Rd, v[1], "0", x) /\ Tells(ImmJ, v[2], "o", x)
  BY <1>1, SameTells DEF Letter
<1> QED
  BY <1>2, Slots_fmt_rd_offset, Told2

LEMMA SameTold_Jalr ==
  ASSUME NEW v, NEW d, NEW x, Same(x, d), Told(<<Rd, Rs1, ImmI>>, v, fmt_rd_rs1_offset, d)
  PROVE  Told(<<Rd, Rs1, ImmI>>, v, fmt_rd_rs1_offset, x)
<1>1. Tells(Rd, v[1], "0", d) /\ Tells(Rs1, v[2], "1", d) /\ Tells(ImmI, v[3], "i", d)
  BY Slots_fmt_rd_rs1_offset DEF Told
<1>2. Tells(Rd, v[1], "0", x) /\ Tells(Rs1, v[2], "1", x) /\ Tells(ImmI, v[3], "i", x)
  BY <1>1, SameTells DEF Letter
<1> QED
  BY <1>2, Slots_fmt_rd_rs1_offset, Told3

LEMMA Kept_jal_j == Keeps(Lift("jal", "j", {"rd_eq_x0"}))
<1> SUFFICES ASSUME NEW w, NEW e, NEW marks, NEW v, NEW d, NEW x, Ready(w, e, marks, v, d, x),
                    e.name = <<"jal">>, check_constraints(d, {"rd_eq_x0"}), x.op = <<"j">>
             PROVE  Meant(x, opcode_data[x.op].format, w)
  BY DEF Keeps, Lift
<1>1. e = Insn(<<"jal">>, Code(27, 0, 0), <<Rd, ImmJ>>)
  BY JumpsBases DEF Ready, Jumps, Insn
<1>2. e.args = <<Rd, ImmJ>> /\ NoMarks(e) /\ Decodes(w, "rv32", e, "uj", fmt_rd_offset)
  BY <1>1, JalDecoded DEF Ready
<1>3. Carries(w, e, marks, v) /\ Told(e.args, v, fmt_rd_offset, d) /\ Same(x, d)
  BY <1>2 DEF Ready, Decodes, InRow
<1>4. d.rd = 0
  BY MetOne DEF check_constraints
<1>5. opcode_data[x.op].format = fmt_offset
  <2> DEFINE names == Plain({"j"})
  <2>1. Row("uj", fmt_offset, names) \in Rows /\ <<"j">> \in names
    BY DEF Rows, PseudoRows, Plain
  <2> HIDE DEF names
  <2> QED
    BY <2>1, RowOfName DEF InRow
<1> DEFINE e2 == Pseudo("j", Code(27, 0, 0), <<ImmJ>>)
<1>6. e2 \in Instructions
  BY DEF Instructions, Wide, PseudoTransfers
<1>7. e2.name = x.op /\ e2.args = <<ImmJ>> /\ e2.fixed = Code(27, 0, 0)
  BY DEF Pseudo, Insn
<1> HIDE DEF e2
<1>8. e.fixed = Code(27, 0, 0)
  BY <1>1 DEF Insn
<1>10. e2.fixed = e.fixed \cup {}
  BY <1>1, <1>7, <1>8
<1>11. Meant(x, fmt_offset, w)
  BY <1>2, <1>3, <1>4, <1>6, <1>7, <1>10, JumpNoRd
<1> QED
  BY <1>5, <1>11

LEMMA Kept_jal_jal == Keeps(Lift("jal", "jal", {"rd_eq_ra"}))
<1> SUFFICES ASSUME NEW w, NEW e, NEW marks, NEW v, NEW d, NEW x, Ready(w, e, marks, v, d, x),
                    e.name = <<"jal">>, check_constraints(d, {"rd_eq_ra"}), x.op = <<"jal">>
             PROVE  Meant(x, opcode_data[x.op].format, w)
  BY DEF Keeps, Lift
<1>1. e = Insn(<<"jal">>, Code(27, 0, 0), <<Rd, ImmJ>>)
  BY JumpsBases DEF Ready, Jumps, Insn
<1>2. e.args = <<Rd, ImmJ>> /\ NoMarks(e) /\ Decodes(w, "rv32", e, "uj", fmt_rd_offset)
  BY <1>1, JalDecoded DEF Ready
<1>3. Carries(w, e, marks, v) /\ Told(e.args, v, fmt_rd_offset, d) /\ Same(x, d)
  BY <1>2 DEF Ready, Decodes, InRow
<1>4. e \in Instructions /\ marks = {}
  BY <1>2, <1>3, Unmarked DEF Ready, Instructions, Wide
<1>5. Told(e.args, v, fmt_rd_offset, x)
  BY <1>2, <1>3, SameTold_Jal
<1>6. LineMarks(x, fmt_rd_offset) = {}
  <2>1. Tabbed(fmt_rd_offset)
    BY DEF Tabbed, fmt_rd_offset
  <2> QED
    BY <2>1, NoLineMarks
<1>7. Meant(x, fmt_rd_offset, w)
  BY <1>3, <1>4, <1>5, <1>6, ToldMeans
<1> QED
  BY <1>2, <1>7 DEF Decodes, InRow

LEMMA Kept_jalr_ret == Keeps(Lift("jalr", "ret", {"rd_eq_x0", "rs1_eq_ra"}))
<1> SUFFICES ASSUME NEW w, NEW e, NEW marks, NEW v, NEW d, NEW x, Ready(w, e, marks, v, d, x),
                    e.name = <<"jalr">>, check_constraints(d, {"rd_eq_x0", "rs1_eq_ra"}), x.op = <<"ret">>, ~Lossy(x)
             PROVE  Meant(x, opcode_data[x.op].format, w)
  BY DEF Keeps, Lift
<1>1. e = Insn(<<"jalr">>, Code(25, 0, 0), <<Rd, Rs1, ImmI>>)
  BY JumpsBases DEF Ready, Jumps, Insn
<1>2. e.args = <<Rd, Rs1, ImmI>> /\ NoMarks(e) /\ Decodes(w, "rv32", e, "i", fmt_rd_rs1_offset)
  BY <1>1, JalrDecoded DEF Ready
<1>3. Carries(w, e, marks, v) /\ Told(e.args, v, fmt_rd_rs1_offset, d) /\ Same(x, d)
  BY <1>2 DEF Ready, Decodes, InRow
<1>4. d.rd = 0 /\ d.rs1 = 1 /\ d.imm = 0
  <2>1. x.imm = 0
    BY DEF Lossy
  <2>2. d.rd = 0 /\ d.rs1 = 1
    BY MetOne DEF check_constraints
  <2> QED
    BY <1>3, <2>1, <2>2 DEF Same
<1>5. opcode_data[x.op].format = fmt_none
  <2> DEFINE names == Plain({"nop", "ret"})
  <2>1. Row("i", fmt_none, names) \in Rows /\ <<"ret">> \in names
    BY DEF Rows, PseudoRows, Plain
  <2> HIDE DEF names
  <2> QED
    BY <2>1, RowOfName DEF InRow
<1> DEFINE e2 == Pseudo("ret", Code(25, 0, 0) \cup Field(15, 5, 1), << >>)
<1>6. e2 \in Instructions
  BY DEF Instructions, Wide, PseudoTransfers
<1>7. e2.name = x.op /\ e2.args = << >> /\ e2.fixed = Code(25, 0, 0) \cup Field(15, 5, 1)
  BY DEF Pseudo, Insn
<1> HIDE DEF e2
<1>8. e.fixed = Code(25, 0, 0)
  BY <1>1 DEF Insn
<1>10. e2.fixed = e.fixed \cup Field(15, 5, 1)
  BY <1>1, <1>7, <1>8
<1>11. Meant(x, fmt_none, w)
  BY <1>2, <1>3, <1>4, <1>6, <1>7, <1>10, JumpReturn
<1> QED
  BY <1>5, <1>11

LEMMA Kept_jalr_jr == Keeps(Lift("jalr", "jr", {"rd_eq_x0", "imm_eq_zero"}))
<1> SUFFICES ASSUME NEW w, NEW e, NEW marks, NEW v, NEW d, NEW x, Ready(w, e, marks, v, d, x),
                    e.name = <<"jalr">>, check_constraints(d, {"rd_eq_x0", "imm_eq_zero"}), x.op = <<"jr">>
             PROVE  Meant(x, opcode_data[x.op].format, w)
  BY DEF Keeps, Lift
<1>1. e = Insn(<<"jalr">>, Code(25, 0, 0), <<Rd, Rs1, ImmI>>)
  BY JumpsBases DEF Ready, Jumps, Insn
<1>2. e.args = <<Rd, Rs1, ImmI>> /\ NoMarks(e) /\ Decodes(w, "rv32", e, "i", fmt_rd_rs1_offset)
  BY <1>1, JalrDecoded DEF Ready
<1>3. Carries(w, e, marks, v) /\ Told(e.args, v, fmt_rd_rs1_offset, d) /\ Same(x, d)
  BY <1>2 DEF Ready, Decodes, InRow
<1>4. d.rd = 0 /\ d.imm = 0
  BY MetOne DEF check_constraints
<1>5. opcode_data[x.op].format = fmt_rs1
  <2> DEFINE names == Plain({"jr"})
  <2>1. Row("i", fmt_rs1, names) \in Rows /\ <<"jr">> \in names
    BY DEF Rows, PseudoRows, Plain
  <2> HIDE DEF names
  <2> QED
    BY <2>1, RowOfName DEF InRow
<1> DEFINE e2 == Pseudo("jr", Code(25, 0, 0), <<Rs1>>)
<1>6. e2 \in Instructions
  BY DEF Instructions, Wide, PseudoTransfers
<1>7. e2.name = x.op /\ e2.args = <<Rs1>> /\ e2.fixed = Code(25, 0, 0)
  BY DEF Pseudo, Insn
<1> HIDE DEF e2
<1>8. e.fixed = Code(25, 0, 0)
  BY <1>1 DEF Insn
<1>10. e2.fixed = e.fixed \cup {}
  BY <1>1, <1>7, <1>8
<1>11. Meant(x, fmt_rs1, w)
  BY <1>2, <1>3, <1>4, <1>6, <1>7, <1>10, JumpRegister
<1> QED
  BY <1>5, <1>11

LEMMA Kept_jalr_jalr == Keeps(Lift("jalr", "jalr", {"rd_eq_ra", "imm_eq_zero"}))
<1> SUFFICES ASSUME NEW w, NEW e, NEW marks, NEW v, NEW d, NEW x, Ready(w, e, marks, v, d, x),
                    e.name = <<"jalr">>, check_constraints(d, {"rd_eq_ra", "imm_eq_zero"}), x.op = <<"jalr">>
             PROVE  Meant(x, opcode_data[x.op].format, w)
  BY DEF Keeps, Lift
<1>1. e = Insn(<<"jalr">>, Code(25, 0, 0), <<Rd, Rs1, ImmI>>)
  BY JumpsBases DEF Ready, Jumps, Insn
<1>2. e.args = <<Rd, Rs1, ImmI>> /\ NoMarks(e) /\ Decodes(w, "rv32", e, "i", fmt_rd_rs1_offset)
  BY <1>1, JalrDecoded DEF Ready
<1>3. Carries(w, e, marks, v) /\ Told(e.args, v, fmt_rd_rs1_offset, d) /\ Same(x, d)
  BY <1>2 DEF Ready, Decodes, InRow
<1>4. e \in Instructions /\ marks = {}
  BY <1>2, <1>3, Unmarked DEF Ready, Instructions, Wide
<1>5. Told(e.args, v, fmt_rd_rs1_offset, x)
  BY <1>2, <1>3, SameTold_Jalr
<1>6. LineMarks(x, fmt_rd_rs1_offset) = {}
  <2>1. Tabbed(fmt_rd_rs1_offset)
    BY DEF Tabbed, fmt_rd_rs1_offset
  <2> QED
    BY <2>1, NoLineMarks
<1>7. Meant(x, fmt_rd_rs1_offset, w)
  BY <1>3, <1>4, <1>5, <1>6, ToldMeans
<1> QED
  BY <1>2, <1>7 DEF Decodes, InRow

LEMMA Kept_beq_beqz == Keeps(Lift("beq", "beqz", {"rs2_eq_x0"}))
<1> SUFFICES ASSUME NEW w, NEW e, NEW marks, NEW v, NEW d, NEW x, Ready(w, e, marks, v, d, x),
                    e.name = <<"beq">>, check_constraints(d, {"rs2_eq_x0"}), x.op = <<"beqz">>
             PROVE  Meant(x, opcode_data[x.op].format, w)
  BY DEF Keeps, Lift
<1>1. e \in Branches /\ e.fixed = Code(24, 0, 0)
  BY BranchesBases DEF Ready
<1>2. e.args = <<Rs1, Rs2, ImmB>> /\ NoMarks(e) /\ Decodes(w, "rv32", e, "sb", fmt_rs1_rs2_offset)
  BY <1>1, BranchesDecoded DEF Ready
<1>3. Carries(w, e, marks, v) /\ Told(e.args, v, fmt_rs1_rs2_offset, d) /\ Same(x, d)
  BY <1>2 DEF Ready, Decodes, InRow
<1>4. d.rs2 = 0
  BY MetOne DEF check_constraints
<1>5. opcode_data[x.op].format = fmt_rs1_offset
  <2> DEFINE names == Plain({"beqz", "bnez", "bgez", "bltz"})
  <2>1. Row("sb", fmt_rs1_offset, names) \in Rows /\ <<"beqz">> \in names
    BY DEF Rows, PseudoRows, Plain
  <2> HIDE DEF names
  <2> QED
    BY <2>1, RowOfName DEF InRow
<1> DEFINE e2 == Pseudo("beqz", Code(24, 0, 0), <<Rs1, ImmB>>)
<1>6. e2 \in Instructions
  BY DEF Instructions, Wide, PseudoTransfers
<1>7. e2.name = x.op /\ e2.args = <<Rs1, ImmB>> /\ e2.fixed = Code(24, 0, 0)
  BY DEF Pseudo, Insn
<1> HIDE DEF e2
<1>10. e2.fixed = e.fixed \cup {}
  BY <1>1, <1>7
<1>11. Meant(x, fmt_rs1_offset, w)
  BY <1>2, <1>3, <1>4, <1>6, <1>7, <1>10, BranchNoRs2
<1> QED
  BY <1>5, <1>11

LEMMA Kept_bne_bnez == Keeps(Lift("bne", "bnez", {"rs2_eq_x0"}))
<1> SUFFICES ASSUME NEW w, NEW e, NEW marks, NEW v, NEW d, NEW x, Ready(w, e, marks, v, d, x),
                    e.name = <<"bne">>, check_constraints(d, {"rs2_eq_x0"}), x.op = <<"bnez">>
             PROVE  Meant(x, opcode_data[x.op].format, w)
  BY DEF Keeps, Lift
<1>1. e \in Branches /\ e.fixed = Code(24, 1, 0)
  BY BranchesBases DEF Ready
<1>2. e.args = <<Rs1, Rs2, ImmB>> /\ NoMarks(e) /\ Decodes(w, "rv32", e, "sb", fmt_rs1_rs2_offset)
  BY <1>1, BranchesDecoded DEF Ready
<1>3. Carries(w, e, marks, v) /\ Told(e.args, v, fmt_rs1_rs2_offset, d) /\ Same(x, d)
  BY <1>2 DEF Ready, Decodes, InRow
<1>4. d.rs2 = 0
  BY MetOne DEF check_constraints
<1>5. opcode_data[x.op].format = fmt_rs1_offset
  <2> DEFINE names == Plain({"beqz", "bnez", "bgez", "bltz"})
  <2>1. Row("sb", fmt_rs1_offset, names) \in Rows /\ <<"bnez">> \in names
    BY DEF Rows, PseudoRows, Plain
  <2> HIDE DEF names
  <2> QED
    BY <2>1, RowOfName DEF InRow
<1> DEFINE e2 == Pseudo("bnez", Code(24, 1, 0), <<Rs1, ImmB>>)
<1>6. e2 \in Instructions
  BY DEF Instructions, Wide, PseudoTransfers
<1>7. e2.name = x.op /\ e2.args = <<Rs1, ImmB>> /\ e2.fixed = Code(24, 1, 0)
  BY DEF Pseudo, Insn
<1> HIDE DEF e2
<1>10. e2.fixed = e.fixed \cup {}
  BY <1>1, <1>7
<1>11. Meant(x, fmt_rs1_offset, w)
  BY <1>2, <1>3, <1>4, <1>6, <1>7, <1>10, BranchNoRs2
<1> QED
  BY <1>5, <1>11

LEMMA Kept_blt_bltz == Keeps(Lift("blt", "bltz", {"rs2_eq_x0"}))
<1> SUFFICES ASSUME NEW w, NEW e, NEW marks, NEW v, NEW d, NEW x, Ready(w, e, marks, v, d, x),
                    e.name = <<"blt">>, check_constraints(d, {"rs2_eq_x0"}), x.op = <<"bltz">>
             PROVE  Meant(x, opcode_data[x.op].format, w)
  BY DEF Keeps, Lift
<1>1. e \in Branches /\ e.fixed = Code(24, 4, 0)
  BY BranchesBases DEF Ready
<1>2. e.args = <<Rs1, Rs2, ImmB>> /\ NoMarks(e) /\ Decodes(w, "rv32", e, "sb", fmt_rs1_rs2_offset)
  BY <1>1, BranchesDecoded DEF Ready
<1>3. Carries(w, e, marks, v) /\ Told(e.args, v, fmt_rs1_rs2_offset, d) /\ Same(x, d)
  BY <1>2 DEF Ready, Decodes, InRow
<1>4. d.rs2 = 0
  BY MetOne DEF check_constraints
<1>5. opcode_data[x.op].format = fmt_rs1_offset
  <2> DEFINE names == Plain({"beqz", "bnez", "bgez", "bltz"})
  <2>1. Row("sb", fmt_rs1_offset, names) \in Rows /\ <<"bltz">> \in names
    BY DEF Rows, PseudoRows, Plain
  <2> HIDE DEF names
  <2> QED
    BY <2>1, RowOfName DEF InRow
<1> DEFINE e2 == Pseudo("bltz", Code(24, 4, 0), <<Rs1, ImmB>>)
<1>6. e2 \in Instructions
  BY DEF Instructions, Wide, PseudoTransfers
<1>7. e2.name = x.op /\ e2.args = <<Rs1, ImmB>> /\ e2.fixed = Code(24, 4, 0)
  BY DEF Pseudo, Insn
<1> HIDE DEF e2
<1>10. e2.fixed = e.fixed \cup {}
  BY <1>1, <1>7
<1>11. Meant(x, fmt_rs1_offset, w)
  BY <1>2, <1>3, <1>4, <1>6, <1>7, <1>10, BranchNoRs2
<1> QED
  BY <1>5, <1>11

LEMMA Kept_blt_bgtz == Keeps(Lift("blt", "bgtz", {"rs1_eq_x0"}))
<1> SUFFICES ASSUME NEW w, NEW e, NEW marks, NEW v, NEW d, NEW x, Ready(w, e, marks, v, d, x),
                    e.name = <<"blt">>, check_constraints(d, {"rs1_eq_x0"}), x.op = <<"bgtz">>
             PROVE  Meant(x, opcode_data[x.op].format, w)
  BY DEF Keeps, Lift
<1>1. e \in Branches /\ e.fixed = Code(24, 4, 0)
  BY BranchesBases DEF Ready
<1>2. e.args = <<Rs1, Rs2, ImmB>> /\ NoMarks(e) /\ Decodes(w, "rv32", e, "sb", fmt_rs1_rs2_offset)
  BY <1>1, BranchesDecoded DEF Ready
<1>3. Carries(w, e, marks, v) /\ Told(e.args, v, fmt_rs1_rs2_offset, d) /\ Same(x, d)
  BY <1>2 DEF Ready, Decodes, InRow
<1>4. d.rs1 = 0
  BY MetOne DEF check_constraints
<1>5. opcode_data[x.op].format = fmt_rs2_offset
  <2> DEFINE names == Plain({"blez", "bgtz"})
  <2>1. Row("sb", fmt_rs2_offset, names) \in Rows /\ <<"bgtz">> \in names
    BY DEF Rows, PseudoRows, Plain
  <2> HIDE DEF names
  <2> QED
    BY <2>1, RowOfName DEF InRow
<1> DEFINE e2 == Pseudo("bgtz", Code(24, 4, 0), <<Rs2, ImmB>>)
<1>6. e2 \in Instructions
  BY DEF Instructions, Wide, PseudoTransfers
<1>7. e2.name = x.op /\ e2.args = <<Rs2, ImmB>> /\ e2.fixed = Code(24, 4, 0)
  BY DEF Pseudo, Insn
<1> HIDE DEF e2
<1>10. e2.fixed = e.fixed \cup {}
  BY <1>1, <1>7
<1>11. Meant(x, fmt_rs2_offset, w)
  BY <1>2, <1>3, <1>4, <1>6, <1>7, <1>10, BranchNoRs1
<1> QED
  BY <1>5, <1>11

LEMMA Kept_blt_bgt == Keeps(Lift("blt", "bgt", {}))
<1> SUFFICES ASSUME NEW w, NEW e, NEW marks, NEW v, NEW d, NEW x, Ready(w, e, marks, v, d, x),
                    e.name = <<"blt">>, check_constraints(d, {}), x.op = <<"bgt">>
             PROVE  Meant(x, opcode_data[x.op].format, w)
  BY DEF Keeps, Lift
<1>1. e \in Branches /\ e.fixed = Code(24, 4, 0)
  BY BranchesBases DEF Ready
<1>2. e.args = <<Rs1, Rs2, ImmB>> /\ NoMarks(e) /\ Decodes(w, "rv32", e, "sb", fmt_rs1_rs2_offset)
  BY <1>1, BranchesDecoded DEF Ready
<1>3. Carries(w, e, marks, v) /\ Told(e.args, v, fmt_rs1_rs2_offset, d) /\ Same(x, d)
  BY <1>2 DEF Ready, Decodes, InRow
<1>5. opcode_data[x.op].format = fmt_rs2_rs1_offset
  <2> DEFINE names == Plain({"ble", "bleu", "bgt", "bgtu"})
  <2>1. Row("sb", fmt_rs2_rs1_offset, names) \in Rows /\ <<"bgt">> \in names
    BY DEF Rows, PseudoRows, Plain
  <2> HIDE DEF names
  <2> QED
    BY <2>1, RowOfName DEF InRow
<1> DEFINE e2 == Pseudo("bgt", Code(24, 4, 0), <<Rs2, Rs1, ImmB>>)
<1>6. e2 \in Instructions
  BY DEF Instructions, Wide, PseudoTransfers
<1>7. e2.name = x.op /\ e2.args = <<Rs2, Rs1, ImmB>> /\ e2.fixed = Code(24, 4, 0)
  BY DEF Pseudo, Insn
<1> HIDE DEF e2
<1>10. e2.fixed = e.fixed \cup {}
  BY <1>1, <1>7
<1>11. Meant(x, fmt_rs2_rs1_offset, w)
  BY <1>2, <1>3, <1>6, <1>7, <1>10, BranchSwapped
<1> QED
  BY <1>5, <1>11

LEMMA Kept_bge_blez == Keeps(Lift("bge", "blez", {"rs1_eq_x0"}))
<1> SUFFICES ASSUME NEW w, NEW e, NEW marks, NEW v, NEW d, NEW x, Ready(w, e, marks, v, d, x),
                    e.name = <<"bge">>, check_constraints(d, {"rs1_eq_x0"}), x.op = <<"blez">>
             PROVE  Meant(x, opcode_data[x.op].format, w)
  BY DEF Keeps, Lift
<1>1. e \in Branches /\ e.fixed = Code(24, 5, 0)
  BY BranchesBases DEF Ready
<1>2. e.args = <<Rs1, Rs2, ImmB>> /\ NoMarks(e) /\ Decodes(w, "rv32", e, "sb", fmt_rs1_rs2_offset)
  BY <1>1, BranchesDecoded DEF Ready
<1>3. Carries(w, e, marks, v) /\ Told(e.args, v, fmt_rs1_rs2_offset, d) /\ Same(x, d)
  BY <1>2 DEF Ready, Decodes, InRow
<1>4. d.rs1 = 0
  BY MetOne DEF check_constraints
<1>5. opcode_data[x.op].format = fmt_rs2_offset
  <2> DEFINE names == Plain({"blez", "bgtz"})
  <2>1. Row("sb", fmt_rs2_offset, names) \in Rows /\ <<"blez">> \in names
    BY DEF Rows, PseudoRows, Plain
  <2> HIDE DEF names
  <2> QED
    BY <2>1, RowOfName DEF InRow
<1> DEFINE e2 == Pseudo("blez", Code(24, 5, 0), <<Rs2, ImmB>>)
<1>6. e2 \in Instructions
  BY DEF Instructions, Wide, PseudoTransfers
<1>7. e2.name = x.op /\ e2.args = <<Rs2, ImmB>> /\ e2.fixed = Code(24, 5, 0)
  BY DEF Pseudo, Insn
<1> HIDE DEF e2
<1>10. e2.fixed = e.fixed \cup {}
  BY <1>1, <1>7
<1>11. Meant(x, fmt_rs2_offset, w)
  BY <1>2, <1>3, <1>4, <1>6, <1>7, <1>10, BranchNoRs1
<1> QED
  BY <1>5, <1>11

LEMMA Kept_bge_bgez == Keeps(Lift("bge", "bgez", {"rs2_eq_x0"}))
<1> SUFFICES ASSUME NEW w, NEW e, NEW marks, NEW v, NEW d, NEW x, Ready(w, e, marks, v, d, x),
                    e.name = <<"bge">>, check_constraints(d, {"rs2_eq_x0"}), x.op = <<"bgez">>
             PROVE  Meant(x, opcode_data[x.op].format, w)
  BY DEF Keeps, Lift
<1>1. e \in Branches /\ e.fixed = Code(24, 5, 0)
  BY BranchesBases DEF Ready
<1>2. e.args = <<Rs1, Rs2, ImmB>> /\ NoMarks(e) /\ Decodes(w, "rv32", e, "sb", fmt_rs1_rs2_offset)
  BY <1>1, BranchesDecoded DEF Ready
<1>3. Carries(w, e, marks, v) /\ Told(e.args, v, fmt_rs1_rs2_offset, d) /\ Same(x, d)
  BY <1>2 DEF Ready, Decodes, InRow
<1>4. d.rs2 = 0
  BY MetOne DEF check_constraints
<1>5. opcode_data[x.op].format = fmt_rs1_offset
  <2> DEFINE names == Plain({"beqz", "bnez", "bgez", "bltz"})
  <2>1. Row("sb", fmt_rs1_offset, names) \in Rows /\ <<"bgez">> \in names
    BY DEF Rows, PseudoRows, Plain
  <2> HIDE DEF names
  <2> QED
    BY <2>1, RowOfName DEF InRow
<1> DEFINE e2 == Pseudo("bgez", Code(24, 5, 0), <<Rs1, ImmB>>)
<1>6. e2 \in Instructions
  BY DEF Instructions, Wide, PseudoTransfers
<1>7. e2.name = x.op /\ e2.args = <<Rs1, ImmB>> /\ e2.fixed = Code(24, 5, 0)
  BY DEF Pseudo, Insn
<1> HIDE DEF e2
<1>10. e2.fixed = e.fixed \cup {}
  BY <1>1, <1>7
<1>11. Meant(x, fmt_rs1_offset, w)
  BY <1>2, <1>3, <1>4, <1>6, <1>7, <1>10, BranchNoRs2
<1> QED
  BY <1>5, <1>11

LEMMA Kept_bge_ble == Keeps(Lift("bge", "ble", {}))
<1> SUFFICES ASSUME NEW w, NEW e, NEW marks, NEW v, NEW d, NEW x, Ready(w, e, marks, v, d, x),
                    e.name = <<"bge">>, check_constraints(d, {}), x.op = <<"ble">>
             PROVE  Meant(x, opcode_data[x.op].format, w)
  BY DEF Keeps, Lift
<1>1. e \in Branches /\ e.fixed = Code(24, 5, 0)
  BY BranchesBases DEF Ready
<1>2. e.args = <<Rs1, Rs2, ImmB>> /\ NoMarks(e) /\ Decodes(w, "rv32", e, "sb", fmt_rs1_rs2_offset)
  BY <1>1, BranchesDecoded DEF Ready
<1>3. Carries(w, e, marks, v) /\ Told(e.args, v, fmt_rs1_rs2_offset, d) /\ Same(x, d)
  BY <1>2 DEF Ready, Decodes, InRow
<1>5. opcode_data[x.op].format = fmt_rs2_rs1_offset
  <2> DEFINE names == Plain({"ble", "bleu", "bgt", "bgtu"})
  <2>1. Row("sb", fmt_rs2_rs1_offset, names) \in Rows /\ <<"ble">> \in names
    BY DEF Rows, PseudoRows, Plain
  <2> HIDE DEF names
  <2> QED
    BY <2>1, RowOfName DEF InRow
<1> DEFINE e2 == Pseudo("ble", Code(24, 5, 0), <<Rs2, Rs1, ImmB>>)
<1>6. e2 \in Instructions
  BY DEF Instructions, Wide, PseudoTransfers
<1>7. e2.name = x.op /\ e2.args = <<Rs2, Rs1, ImmB>> /\ e2.fixed = Code(24, 5, 0)
  BY DEF Pseudo, Insn
<1> HIDE DEF e2
<1>10. e2.fixed = e.fixed \cup {}
  BY <1>1, <1>7
<1>11. Meant(x, fmt_rs2_rs1_offset, w)
  BY <1>2, <1>3, <1>6, <1>7, <1>10, BranchSwapped
<1> QED
  BY <1>5, <1>11

LEMMA Kept_bltu_bgtu == Keeps(Lift("bltu", "bgtu", {}))
<1> SUFFICES ASSUME NEW w, NEW e, NEW marks, NEW v, NEW d, NEW x, Ready(w, e, marks, v, d, x),
                    e.name = <<"bltu">>, check_constraints(d, {}), x.op = <<"bgtu">>
             PROVE  Meant(x, opcode_data[x.op].format, w)
  BY DEF Keeps, Lift
<1>1. e \in Branches /\ e.fixed = Code(24, 6, 0)
  BY BranchesBases DEF Ready
<1>2. e.args = <<Rs1, Rs2, ImmB>> /\ NoMarks(e) /\ Decodes(w, "rv32", e, "sb", fmt_rs1_rs2_offset)
  BY <1>1, BranchesDecoded DEF Ready
<1>3. Carries(w, e, marks, v) /\ Told(e.args, v, fmt_rs1_rs2_offset, d) /\ Same(x, d)
  BY <1>2 DEF Ready, Decodes, InRow
<1>5. opcode_data[x.op].format = fmt_rs2_rs1_offset
  <2> DEFINE names == Plain({"ble", "bleu", "bgt", "bgtu"})
  <2>1. Row("sb", fmt_rs2_rs1_offset, names) \in Rows /\ <<"bgtu">> \in names
    BY DEF Rows, PseudoRows, Plain
  <2> HIDE DEF names
  <2> QED
    BY <2>1, RowOfName DEF InRow
<1> DEFINE e2 == Pseudo("bgtu", Code(24, 6, 0), <<Rs2, Rs1, ImmB>>)
<1>6. e2 \in Instructions
  BY DEF Instructions, Wide, PseudoTransfers
<1>7. e2.name = x.op /\ e2.args = <<Rs2, Rs1, ImmB>> /\ e2.fixed = Code(24, 6, 0)
  BY DEF Pseudo, Insn
<1> HIDE DEF e2
<1>10. e2.fixed = e.fixed \cup {}
  BY <1>1, <1>7
<1>11. Meant(x, fmt_rs2_rs1_offset, w)
  BY <1>2, <1>3, <1>6, <1>7, <1>10, BranchSwapped
<1> QED
  BY <1>5, <1>11

LEMMA Kept_bgeu_bleu == Keeps(Lift("bgeu", "bleu", {}))
<1> SUFFICES ASSUME NEW w, NEW e, NEW marks, NEW v, NEW d, NEW x, Ready(w, e, marks, v, d, x),
                    e.name = <<"bgeu">>, check_constraints(d, {}), x.op = <<"bleu">>
             PROVE  Meant(x, opcode_data[x.op].format, w)
  BY DEF Keeps, Lift
<1>1. e \in Branches /\ e.fixed = Code(24, 7, 0)
  BY BranchesBases DEF Ready
<1>2. e.args = <<Rs1, Rs2, ImmB>> /\ NoMarks(e) /\ Decodes(w, "rv32", e, "sb", fmt_rs1_rs2_offset)
  BY <1>1, BranchesDecoded DEF Ready
<1>3. Carries(w, e, marks, v) /\ Told(e.args, v, fmt_rs1_rs2_offset, d) /\ Same(x, d)
  BY <1>2 DEF Ready, Decodes, InRow
<1>5. opcode_data[x.op].format = fmt_rs2_rs1_offset
  <2> DEFINE names == Plain({"ble", "bleu", "bgt", "bgtu"})
  <2>1. Row("sb", fmt_rs2_rs1_offset, names) \in Rows /\ <<"bleu">> \in names
    BY DEF Rows, PseudoRows, Plain
  <2> HIDE DEF names
  <2> QED
    BY <2>1, RowOfName DEF InRow
<1> DEFINE e2 == Pseudo("bleu", Code(24, 7, 0), <<Rs2, Rs1, ImmB>>)
<1>6. e2 \in Instructions
  BY DEF Instructions, Wide, PseudoTransfers
<1>7. e2.name = x.op /\ e2.args = <<Rs2, Rs1, ImmB>> /\ e2.fixed = Code(24, 7, 0)
  BY DEF Pseudo, Insn
<1> HIDE DEF e2
<1>10. e2.fixed = e.fixed \cup {}
  BY <1>1, <1>7
<1>11. Meant(x, fmt_rs2_rs1_offset, w)
  BY <1>2, <1>3, <1>6, <1>7, <1>10, BranchSwapped
<1> QED
  BY <1>5, <1>11

LEMMA Kept_addi_nop == Keeps(Lift("addi", "nop", {"rd_eq_x0", "rs1_eq_x0", "imm_eq_zero"}))
<1> SUFFICES ASSUME NEW w, NEW e, NEW marks, NEW v, NEW d, NEW x, Ready(w, e, marks, v, d, x),
                    e.name = <<"addi">>, check_constraints(d, {"rd_eq_x0", "rs1_eq_x0", "imm_eq_zero"}), x.op = <<"nop">>
             PROVE  Meant(x, opcode_data[x.op].format, w)
  BY DEF Keeps, Lift
<1>1. e \in Immediates /\ e.fixed = Code(4, 0, 0)
  BY ImmediatesBases DEF Ready
<1>2. e.args = <<Rd, Rs1, ImmI>> /\ NoMarks(e) /\ Decodes(w, "rv32", e, "i", fmt_rd_rs1_imm)
  BY <1>1, ImmediatesDecoded DEF Ready
<1>3. Carries(w, e, marks, v) /\ Told(e.args, v, fmt_rd_rs1_imm, d) /\ Same(x, d)
  BY <1>2 DEF Ready, Decodes, InRow
<1>4. d.rd = 0 /\ d.rs1 = 0 /\ d.imm = 0
  BY MetOne DEF check_constraints
<1>5. opcode_data[x.op].format = fmt_none
  <2> DEFINE names == Plain({"nop", "ret"})
  <2>1. Row("i", fmt_none, names) \in Rows /\ <<"nop">> \in names
    BY DEF Rows, PseudoRows, Plain
  <2> HIDE DEF names
  <2> QED
    BY <2>1, RowOfName DEF InRow
<1> DEFINE e2 == Pseudo("nop", Code(4, 0, 0), << >>)
<1>6. e2 \in Instructions
  BY DEF Instructions, Wide, PseudoAlu
<1>7. e2.name = x.op /\ e2.args = << >> /\ e2.fixed = Code(4, 0, 0)
  BY DEF Pseudo, Insn
<1> HIDE DEF e2
<1>10. e2.fixed = e.fixed \cup {}
  BY <1>1, <1>7
<1>11. Meant(x, fmt_none, w)
  BY <1>2, <1>3, <1>4, <1>6, <1>7, <1>10, AddiNothing
<1> QED
  BY <1>5, <1>11

LEMMA Kept_addi_mv == Keeps(Lift("addi", "mv", {"imm_eq_zero"}))
<1> SUFFICES ASSUME NEW w, NEW e, NEW marks, NEW v, NEW d, NEW x, Ready(w, e, marks, v, d, x),
                    e.name = <<"addi">>, check_constraints(d, {"imm_eq_zero"}), x.op = <<"mv">>
             PROVE  Meant(x, opcode_data[x.op].format, w)
  BY DEF Keeps, Lift
<1>1. e \in Immediates /\ e.fixed = Code(4, 0, 0)
  BY ImmediatesBases DEF Ready
<1>2. e.args = <<Rd, Rs1, ImmI>> /\ NoMarks(e) /\ Decodes(w, "rv32", e, "i", fmt_rd_rs1_imm)
  BY <1>1, ImmediatesDecoded DEF Ready
<1>3. Carries(w, e, marks, v) /\ Told(e.args, v, fmt_rd_rs1_imm, d) /\ Same(x, d)
  BY <1>2 DEF Ready, Decodes, InRow
<1>4. d.imm = 0
  BY MetOne DEF check_constraints
<1>5. opcode_data[x.op].format = fmt_rd_rs1
  <2> DEFINE names == Plain({"mv", "not", "seqz"}) \cup {<<"sext", "w">>}
  <2>1. Row("i", fmt_rd_rs1, names) \in Rows /\ <<"mv">> \in names
    BY DEF Rows, PseudoRows, Plain
  <2> HIDE DEF names
  <2> QED
    BY <2>1, RowOfName DEF InRow
<1> DEFINE e2 == Pseudo("mv", Code(4, 0, 0), <<Rd, Rs1>>)
<1>6. e2 \in Instructions
  BY DEF Instructions, Wide, PseudoAlu
<1>7. e2.name = x.op /\ e2.args = <<Rd, Rs1>> /\ e2.fixed = Code(4, 0, 0)
  BY DEF Pseudo, Insn
<1> HIDE DEF e2
<1>10. e2.fixed = e.fixed \cup Field(20, 12, 0)
  BY <1>1, <1>7, ZeroFields
<1>11. Meant(x, fmt_rd_rs1, w)
  BY <1>2, <1>3, <1>4, <1>6, <1>7, <1>10, ImmediateGiven
<1> QED
  BY <1>5, <1>11

LEMMA Kept_sltiu_seqz == Keeps(Lift("sltiu", "seqz", {"imm_eq_p1"}))
<1> SUFFICES ASSUME NEW w, NEW e, NEW marks, NEW v, NEW d, NEW x, Ready(w, e, marks, v, d, x),
                    e.name = <<"sltiu">>, check_constraints(d, {"imm_eq_p1"}), x.op = <<"seqz">>
             PROVE  Meant(x, opcode_data[x.op].format, w)
  BY DEF Keeps, Lift
<1>1. e \in Immediates /\ e.fixed = Code(4, 3, 0)
  BY ImmediatesBases DEF Ready
<1>2. e.args = <<Rd, Rs1, ImmI>> /\ NoMarks(e) /\ Decodes(w, "rv32", e, "i", fmt_rd_rs1_imm)
  BY <1>1, ImmediatesDecoded DEF Ready
<1>3. Carries(w, e, marks, v) /\ Told(e.args, v, fmt_rd_rs1_imm, d) /\ Same(x, d)
  BY <1>2 DEF Ready, Decodes, InRow
<1>4. d.imm = 1
  BY MetOne DEF check_constraints
<1>5. opcode_data[x.op].format = fmt_rd_rs1
  <2> DEFINE names == Plain({"mv", "not", "seqz"}) \cup {<<"sext", "w">>}
  <2>1. Row("i", fmt_rd_rs1, names) \in Rows /\ <<"seqz">> \in names
    BY DEF Rows, PseudoRows, Plain
  <2> HIDE DEF names
  <2> QED
    BY <2>1, RowOfName DEF InRow
<1> DEFINE e2 == Pseudo("seqz", Code(4, 3, 0) \cup Field(20, 12, 1), <<Rd, Rs1>>)
<1>6. e2 \in Instructions
  BY DEF Instructions, Wide, PseudoAlu
<1>7. e2.name = x.op /\ e2.args = <<Rd, Rs1>> /\ e2.fixed = Code(4, 3, 0) \cup Field(20, 12, 1)
  BY DEF Pseudo, Insn
<1> HIDE DEF e2
<1>10. e2.fixed = e.fixed \cup Field(20, 12, 1)
  BY <1>1, <1>7
<1>11. Meant(x, fmt_rd_rs1, w)
  BY <1>2, <1>3, <1>4, <1>6, <1>7, <1>10, ImmediateGiven
<1> QED
  BY <1>5, <1>11

LEMMA Kept_xori_not == Keeps(Lift("xori", "not", {"imm_eq_n1"}))
<1> SUFFICES ASSUME NEW w, NEW e, NEW marks, NEW v, NEW d, NEW x, Ready(w, e, marks, v, d, x),
                    e.name = <<"xori">>, check_constraints(d, {"imm_eq_n1"}), x.op = <<"not">>
             PROVE  Meant(x, opcode_data[x.op].format, w)
  BY DEF Keeps, Lift
<1>1. e \in Immediates /\ e.fixed = Code(4, 4, 0)
  BY ImmediatesBases DEF Ready
<1>2. e.args = <<Rd, Rs1, ImmI>> /\ NoMarks(e) /\ Decodes(w, "rv32", e, "i", fmt_rd_rs1_imm)
  BY <1>1, ImmediatesDecoded DEF Ready
<1>3. Carries(w, e, marks, v) /\ Told(e.args, v, fmt_rd_rs1_imm, d) /\ Same(x, d)
  BY <1>2 DEF Ready, Decodes, InRow
<1>4. d.imm = -1
  BY MetOne DEF check_constraints
<1>5. opcode_data[x.op].format = fmt_rd_rs1
  <2> DEFINE names == Plain({"mv", "not", "seqz"}) \cup {<<"sext", "w">>}
  <2>1. Row("i", fmt_rd_rs1, names) \in Rows /\ <<"not">> \in names
    BY DEF Rows, PseudoRows, Plain
  <2> HIDE DEF names
  <2> QED
    BY <2>1, RowOfName DEF InRow
<1> DEFINE e2 == Pseudo("not", Code(4, 4, 0) \cup Field(20, 12, 4095), <<Rd, Rs1>>)
<1>6. e2 \in Instructions
  BY DEF Instructions, Wide, PseudoAlu
<1>7. e2.name = x.op /\ e2.args = <<Rd, Rs1>> /\ e2.fixed = Code(4, 4, 0) \cup Field(20, 12, 4095)
  BY DEF Pseudo, Insn
<1> HIDE DEF e2
<1> DEFINE c == -1
<1>9. c \in Int /\ c + 1 = 0 /\ d.imm = c
  BY <1>4
<1> HIDE DEF c
<1>10. e2.fixed = e.fixed \cup Field(20, 12, c)
  BY <1>1, <1>7, <1>9, ZeroFields
<1>11. Meant(x, fmt_rd_rs1, w)
  BY <1>2, <1>3, <1>6, <1>7, <1>9, <1>10, ImmediateGiven
<1> QED
  BY <1>5, <1>11

LEMMA Kept_sub_neg == Keeps(Lift("sub", "neg", {"rs1_eq_x0"}))
<1> SUFFICES ASSUME NEW w, NEW e, NEW marks, NEW v, NEW d, NEW x, Ready(w, e, marks, v, d, x),
                    e.name = <<"sub">>, check_constraints(d, {"rs1_eq_x0"}), x.op = <<"neg">>
             PROVE  Meant(x, opcode_data[x.op].format, w)
  BY DEF Keeps, Lift
<1>1. e \in Alu /\ e.fixed = Code(12, 0, 32)
  BY AluBases DEF Ready
<1>2. e.args = <<Rd, Rs1, Rs2>> /\ NoMarks(e) /\ Decodes(w, "rv32", e, "r", fmt_rd_rs1_rs2)
  BY <1>1, AluDecoded DEF Ready
<1>3. Carries(w, e, marks, v) /\ Told(e.args, v, fmt_rd_rs1_rs2, d) /\ Same(x, d)
  BY <1>2 DEF Ready, Decodes, InRow
<1>4. d.rs1 = 0
  BY MetOne DEF check_constraints
<1>5. opcode_data[x.op].format = fmt_rd_rs2
  <2> DEFINE names == Plain({"neg", "negw", "snez", "sgtz"})
  <2>1. Row("r", fmt_rd_rs2, names) \in Rows /\ <<"neg">> \in names
    BY DEF Rows, PseudoRows, Plain
  <2> HIDE DEF names
  <2> QED
    BY <2>1, RowOfName DEF InRow
<1> DEFINE e2 == Pseudo("neg", Code(12, 0, 32), <<Rd, Rs2>>)
<1>6. e2 \in Instructions
  BY DEF Instructions, Wide, PseudoAlu
<1>7. e2.name = x.op /\ e2.args = <<Rd, Rs2>> /\ e2.fixed = Code(12, 0, 32)
  BY DEF Pseudo, Insn
<1> HIDE DEF e2
<1>10. e2.fixed = e.fixed \cup {}
  BY <1>1, <1>7
<1>11. Meant(x, fmt_rd_rs2, w)
  BY <1>2, <1>3, <1>4, <1>6, <1>7, <1>10, AluNoRs1
<1> QED
  BY <1>5, <1>11

LEMMA Kept_slt_sltz == Keeps(Lift("slt", "sltz", {"rs2_eq_x0"}))
<1> SUFFICES ASSUME NEW w, NEW e, NEW marks, NEW v, NEW d, NEW x, Ready(w, e, marks, v, d, x),
                    e.name = <<"slt">>, check_constraints(d, {"rs2_eq_x0"}), x.op = <<"sltz">>
             PROVE  Meant(x, opcode_data[x.op].format, w)
  BY DEF Keeps, Lift
<1>1. e \in Alu /\ e.fixed = Code(12, 2, 0)
  BY AluBases DEF Ready
<1>2. e.args = <<Rd, Rs1, Rs2>> /\ NoMarks(e) /\ Decodes(w, "rv32", e, "r", fmt_rd_rs1_rs2)
  BY <1>1, AluDecoded DEF Ready
<1>3. Carries(w, e, marks, v) /\ Told(e.args, v, fmt_rd_rs1_rs2, d) /\ Same(x, d)
  BY <1>2 DEF Ready, Decodes, InRow
<1>4. d.rs2 = 0
  BY MetOne DEF check_constraints
<1>5. opcode_data[x.op].format = fmt_rd_rs1
  <2> DEFINE names == Plain({"sltz"}) \cup Dot({"fmv", "fabs", "fneg"}, Precisions)
  <2>1. Row("r", fmt_rd_rs1, names) \in Rows /\ <<"sltz">> \in names
    BY DEF Rows, PseudoRows, Plain
  <2> HIDE DEF names
  <2> QED
    BY <2>1, RowOfName DEF InRow
<1> DEFINE e2 == Pseudo("sltz", Code(12, 2, 0), <<Rd, Rs1>>)
<1>6. e2 \in Instructions
  BY DEF Instructions, Wide, PseudoAlu
<1>7. e2.name = x.op /\ e2.args = <<Rd, Rs1>> /\ e2.fixed = Code(12, 2, 0)
  BY DEF Pseudo, Insn
<1> HIDE DEF e2
<1>10. e2.fixed = e.fixed \cup {}
  BY <1>1, <1>7
<1>11. Meant(x, fmt_rd_rs1, w)
  BY <1>2, <1>3, <1>4, <1>6, <1>7, <1>10, AluNoRs2
<1> QED
  BY <1>5, <1>11

LEMMA Kept_slt_sgtz == Keeps(Lift("slt", "sgtz", {"rs1_eq_x0"}))
<1> SUFFICES ASSUME NEW w, NEW e, NEW marks, NEW v, NEW d, NEW x, Ready(w, e, marks, v, d, x),
                    e.name = <<"slt">>, check_constraints(d, {"rs1_eq_x0"}), x.op = <<"sgtz">>
             PROVE  Meant(x, opcode_data[x.op].format, w)
  BY DEF Keeps, Lift
<1>1. e \in Alu /\ e.fixed = Code(12, 2, 0)
  BY AluBases DEF Ready
<1>2. e.args = <<Rd, Rs1, Rs2>> /\ NoMarks(e) /\ Decodes(w, "rv32", e, "r", fmt_rd_rs1_rs2)
  BY <1>1, AluDecoded DEF Ready
<1>3. Carries(w, e, marks, v) /\ Told(e.args, v, fmt_rd_rs1_rs2, d) /\ Same(x, d)
  BY <1>2 DEF Ready, Decodes, InRow
<1>4. d.rs1 = 0
  BY MetOne DEF check_constraints
<1>5. opcode_data[x.op].format = fmt_rd_rs2
  <2> DEFINE names == Plain({"neg", "negw", "snez", "sgtz"})
  <2>1. Row("r", fmt_rd_rs2, names) \in Rows /\ <<"sgtz">> \in names
    BY DEF Rows, PseudoRows, Plain
  <2> HIDE DEF names
  <2> QED
    BY <2>1, RowOfName DEF InRow
<1> DEFINE e2 == Pseudo("sgtz", Code(12, 2, 0), <<Rd, Rs2>>)
<1>6. e2 \in Instructions
  BY DEF Instructions, Wide, PseudoAlu
<1>7. e2.name = x.op /\ e2.args = <<Rd, Rs2>> /\ e2.fixed = Code(12, 2, 0)
  BY DEF Pseudo, Insn
<1> HIDE DEF e2
<1>10. e2.fixed = e.fixed \cup {}
  BY <1>1, <1>7
<1>11. Meant(x, fmt_rd_rs2, w)
  BY <1>2, <1>3, <1>4, <1>6, <1>7, <1>10, AluNoRs1
<1> QED
  BY <1>5, <1>11

LEMMA Kept_sltu_snez == Keeps(Lift("sltu", "snez", {"rs1_eq_x0"}))
<1> SUFFICES ASSUME NEW w, NEW e, NEW marks, NEW v, NEW d, NEW x, Ready(w, e, marks, v, d, x),
                    e.name = <<"sltu">>, check_constraints(d, {"rs1_eq_x0"}), x.op = <<"snez">>
             PROVE  Meant(x, opcode_data[x.op].format, w)
  BY DEF Keeps, Lift
<1>1. e \in Alu /\ e.fixed = Code(12, 3, 0)
  BY AluBases DEF Ready
<1>2. e.args = <<Rd, Rs1, Rs2>> /\ NoMarks(e) /\ Decodes(w, "rv32", e, "r", fmt_rd_rs1_rs2)
  BY <1>1, AluDecoded DEF Ready
<1>3. Carries(w, e, marks, v) /\ Told(e.args, v, fmt_rd_rs1_rs2, d) /\ Same(x, d)
  BY <1>2 DEF Ready, Decodes, InRow
<1>4. d.rs1 = 0
  BY MetOne DEF check_constraints
<1>5. opcode_data[x.op].format = fmt_rd_rs2
  <2> DEFINE names == Plain({"neg", "negw", "snez", "sgtz"})
  <2>1. Row("r", fmt_rd_rs2, names) \in Rows /\ <<"snez">> \in names
    BY DEF Rows, PseudoRows, Plain
  <2> HIDE DEF names
  <2> QED
    BY <2>1, RowOfName DEF InRow
<1> DEFINE e2 == Pseudo("snez", Code(12, 3, 0), <<Rd, Rs2>>)
<1>6. e2 \in Instructions
  BY DEF Instructions, Wide, PseudoAlu
<1>7. e2.name = x.op /\ e2.args = <<Rd, Rs2>> /\ e2.fixed = Code(12, 3, 0)
  BY DEF Pseudo, Insn
<1> HIDE DEF e2
<1>10. e2.fixed = e.fixed \cup {}
  BY <1>1, <1>7
<1>11. Meant(x, fmt_rd_rs2, w)
  BY <1>2, <1>3, <1>4, <1>6, <1>7, <1>10, AluNoRs1
<1> QED
  BY <1>5, <1>11

LEMMA Kept_addiw_sext_w == Keeps([of |-> <<"addiw">>, to |-> <<"sext", "w">>, if |-> {"imm_eq_zero"}])
<1> SUFFICES ASSUME NEW w, NEW e, NEW marks, NEW v, NEW d, NEW x, Ready(w, e, marks, v, d, x),
                    e.name = <<"addiw">>, check_constraints(d, {"imm_eq_zero"}), x.op = <<"sext", "w">>
             PROVE  Meant(x, opcode_data[x.op].format, w)
  BY DEF Keeps, Lift
<1>1. e \in Immediates32 /\ e.fixed = Code(6, 0, 0)
  BY Immediates32Bases DEF Ready
<1>2. e.args = <<Rd, Rs1, ImmI>> /\ NoMarks(e) /\ Decodes(w, "rv32", e, "i", fmt_rd_rs1_imm)
  BY <1>1, Immediates32Decoded DEF Ready
<1>3. Carries(w, e, marks, v) /\ Told(e.args, v, fmt_rd_rs1_imm, d) /\ Same(x, d)
  BY <1>2 DEF Ready, Decodes, InRow
<1>4. d.imm = 0
  BY MetOne DEF check_constraints
<1>5. opcode_data[x.op].format = fmt_rd_rs1
  <2> DEFINE names == Plain({"mv", "not", "seqz"}) \cup {<<"sext", "w">>}
  <2>1. Row("i", fmt_rd_rs1, names) \in Rows /\ <<"sext", "w">> \in names
    BY DEF Rows, PseudoRows, Plain
  <2> HIDE DEF names
  <2> QED
    BY <2>1, RowOfName DEF InRow
<1> DEFINE e2 == Insn(<<"sext", "w">>, Code(6, 0, 0), <<Rd, Rs1>>)
<1>6. e2 \in Instructions
  BY DEF Instructions, Wide, PseudoAlu
<1>7. e2.name = x.op /\ e2.args = <<Rd, Rs1>> /\ e2.fixed = Code(6, 0, 0)
  BY DEF Pseudo, Insn
<1> HIDE DEF e2
<1>10. e2.fixed = e.fixed \cup Field(20, 12, 0)
  BY <1>1, <1>7, ZeroFields
<1>11. Meant(x, fmt_rd_rs1, w)
  BY <1>2, <1>3, <1>4, <1>6, <1>7, <1>10, ImmediateGiven
<1> QED
  BY <1>5, <1>11

LEMMA Kept_subw_negw == Keeps(Lift("subw", "negw", {"rs1_eq_x0"}))
<1> SUFFICES ASSUME NEW w, NEW e, NEW marks, NEW v, NEW d, NEW x, Ready(w, e, marks, v, d, x),
                    e.name = <<"subw">>, check_constraints(d, {"rs1_eq_x0"}), x.op = <<"negw">>
             PROVE  Meant(x, opcode_data[x.op].format, w)
  BY DEF Keeps, Lift
<1>1. e \in Alu32 /\ e.fixed = Code(14, 0, 32)
  BY Alu32Bases DEF Ready
<1>2. e.args = <<Rd, Rs1, Rs2>> /\ NoMarks(e) /\ Decodes(w, "rv32", e, "r", fmt_rd_rs1_rs2)
  BY <1>1, Alu32Decoded DEF Ready
<1>3. Carries(w, e, marks, v) /\ Told(e.args, v, fmt_rd_rs1_rs2, d) /\ Same(x, d)
  BY <1>2 DEF Ready, Decodes, InRow
<1>4. d.rs1 = 0
  BY MetOne DEF check_constraints
<1>5. opcode_data[x.op].format = fmt_rd_rs2
  <2> DEFINE names == Plain({"neg", "negw", "snez", "sgtz"})
  <2>1. Row("r", fmt_rd_rs2, names) \in Rows /\ <<"negw">> \in names
    BY DEF Rows, PseudoRows, Plain
  <2> HIDE DEF names
  <2> QED
    BY <2>1, RowOfName DEF InRow
<1> DEFINE e2 == Pseudo("negw", Code(14, 0, 32), <<Rd, Rs2>>)
<1>6. e2 \in Instructions
  BY DEF Instructions, Wide, PseudoAlu
<1>7. e2.name = x.op /\ e2.args = <<Rd, Rs2>> /\ e2.fixed = Code(14, 0, 32)
  BY DEF Pseudo, Insn
<1> HIDE DEF e2
<1>10. e2.fixed = e.fixed \cup {}
  BY <1>1, <1>7
<1>11. Meant(x, fmt_rd_rs2, w)
  BY <1>2, <1>3, <1>4, <1>6, <1>7, <1>10, AluNoRs1
<1> QED
  BY <1>5, <1>11

LEMMA Kept_csrrw_fscsr == Keeps(Lift("csrrw", "fscsr", {"csr_eq_0x003"}))
<1> SUFFICES ASSUME NEW w, NEW e, NEW marks, NEW v, NEW d, NEW x, Ready(w, e, marks, v, d, x),
                    e.name = <<"csrrw">>, check_constraints(d, {"csr_eq_0x003"}), x.op = <<"fscsr">>
             PROVE  Meant(x, opcode_data[x.op].format, w)
  BY DEF Keeps, Lift
<1>1. e \in Csrs /\ e.fixed = Code(28, 1, 0)
  BY CsrsBases DEF Ready
<1>2. e.args = <<Rd, Csr, Rs1>> /\ NoMarks(e) /\ Decodes(w, "rv32", e, "i_csr", fmt_rd_csr_rs1)
  BY <1>1, CsrsDecoded DEF Ready
<1>3. Carries(w, e, marks, v) /\ Told(e.args, v, fmt_rd_csr_rs1, d) /\ Same(x, d)
  BY <1>2 DEF Ready, Decodes, InRow
<1>4. d.imm = 3
  BY MetCsr DEF check_constraints
<1>5. opcode_data[x.op].format = fmt_rd_rs1
  <2> DEFINE names == Plain({"fscsr", "fsrm", "fsflags"})
  <2>1. Row("i_csr", fmt_rd_rs1, names) \in Rows /\ <<"fscsr">> \in names
    BY DEF Rows, PseudoRows, Plain
  <2> HIDE DEF names
  <2> QED
    BY <2>1, RowOfName DEF InRow
<1> DEFINE e2 == Pseudo("fscsr", CsrCode(1, 3), <<Rd, Rs1>>)
<1>6. e2 \in Instructions
  BY DEF Instructions, Wide, PseudoCsr
<1>7. e2.name = x.op /\ e2.args = <<Rd, Rs1>> /\ e2.fixed = CsrCode(1, 3)
  BY DEF Pseudo, Insn
<1> HIDE DEF e2
<1>10. e2.fixed = e.fixed \cup Field(20, 12, 3)
  BY <1>1, <1>7 DEF CsrCode
<1>11. Meant(x, fmt_rd_rs1, w)
  BY <1>2, <1>3, <1>4, <1>6, <1>7, <1>10, CsrGiven, SMT DEF CsrNumber
<1> QED
  BY <1>5, <1>11

LEMMA Kept_csrrw_fsrm == Keeps(Lift("csrrw", "fsrm", {"csr_eq_0x002"}))
<1> SUFFICES ASSUME NEW w, NEW e, NEW marks, NEW v, NEW d, NEW x, Ready(w, e, marks, v, d, x),
                    e.name = <<"csrrw">>, check_constraints(d, {"csr_eq_0x002"}), x.op = <<"fsrm">>
             PROVE  Meant(x, opcode_data[x.op].format, w)
  BY DEF Keeps, Lift
<1>1. e \in Csrs /\ e.fixed = Code(28, 1, 0)
  BY CsrsBases DEF Ready
<1>2. e.args = <<Rd, Csr, Rs1>> /\ NoMarks(e) /\ Decodes(w, "rv32", e, "i_csr", fmt_rd_csr_rs1)
  BY <1>1, CsrsDecoded DEF Ready
<1>3. Carries(w, e, marks, v) /\ Told(e.args, v, fmt_rd_csr_rs1, d) /\ Same(x, d)
  BY <1>2 DEF Ready, Decodes, InRow
<1>4. d.imm = 2
  BY MetCsr DEF check_constraints
<1>5. opcode_data[x.op].format = fmt_rd_rs1
  <2> DEFINE names == Plain({"fscsr", "fsrm", "fsflags"})
  <2>1. Row("i_csr", fmt_rd_rs1, names) \in Rows /\ <<"fsrm">> \in names
    BY DEF Rows, PseudoRows, Plain
  <2> HIDE DEF names
  <2> QED
    BY <2>1, RowOfName DEF InRow
<1> DEFINE e2 == Pseudo("fsrm", CsrCode(1, 2), <<Rd, Rs1>>)
<1>6. e2 \in Instructions
  BY DEF Instructions, Wide, PseudoCsr
<1>7. e2.name = x.op /\ e2.args = <<Rd, Rs1>> /\ e2.fixed = CsrCode(1, 2)
  BY DEF Pseudo, Insn
<1> HIDE DEF e2
<1>10. e2.fixed = e.fixed \cup Field(20, 12, 2)
  BY <1>1, <1>7 DEF CsrCode
<1>11. Meant(x, fmt_rd_rs1, w)
  BY <1>2, <1>3, <1>4, <1>6, <1>7, <1>10, CsrGiven, SMT DEF CsrNumber
<1> QED
  BY <1>5, <1>11

LEMMA Kept_csrrw_fsflags == Keeps(Lift("csrrw", "fsflags", {"csr_eq_0x001"}))
<1> SUFFICES ASSUME NEW w, NEW e, NEW marks, NEW v, NEW d, NEW x, Ready(w, e, marks, v, d, x),
                    e.name = <<"csrrw">>, check_constraints(d, {"csr_eq_0x001"}), x.op = <<"fsflags">>
             PROVE  Meant(x, opcode_data[x.op].format, w)
  BY DEF Keeps, Lift
<1>1. e \in Csrs /\ e.fixed = Code(28, 1, 0)
  BY CsrsBases DEF Ready
<1>2. e.args = <<Rd, Csr, Rs1>> /\ NoMarks(e) /\ Decodes(w, "rv32", e, "i_csr", fmt_rd_csr_rs1)
  BY <1>1, CsrsDecoded DEF Ready
<1>3. Carries(w, e, marks, v) /\ Told(e.args, v, fmt_rd_csr_rs1, d) /\ Same(x, d)
  BY <1>2 DEF Ready, Decodes, InRow
<1>4. d.imm = 1
  BY MetCsr DEF check_constraints
<1>5. opcode_data[x.op].format = fmt_rd_rs1
  <2> DEFINE names == Plain({"fscsr", "fsrm", "fsflags"})
  <2>1. Row("i_csr", fmt_rd_rs1, names) \in Rows /\ <<"fsflags">> \in names
    BY DEF Rows, PseudoRows, Plain
  <2> HIDE DEF names
  <2> QED
    BY <2>1, RowOfName DEF InRow
<1> DEFINE e2 == Pseudo("fsflags", CsrCode(1, 1), <<Rd, Rs1>>)
<1>6. e2 \in Instructions
  BY DEF Instructions, Wide, PseudoCsr
<1>7. e2.name = x.op /\ e2.args = <<Rd, Rs1>> /\ e2.fixed = CsrCode(1, 1)
  BY DEF Pseudo, Insn
<1> HIDE DEF e2
<1>10. e2.fixed = e.fixed \cup Field(20, 12, 1)
  BY <1>1, <1>7 DEF CsrCode
<1>11. Meant(x, fmt_rd_rs1, w)
  BY <1>2, <1>3, <1>4, <1>6, <1>7, <1>10, CsrGiven, SMT DEF CsrNumber
<1> QED
  BY <1>5, <1>11

LEMMA Kept_csrrs_rdcycle == Keeps(Lift("csrrs", "rdcycle", {"rs1_eq_x0", "csr_eq_0xc00"}))
<1> SUFFICES ASSUME NEW w, NEW e, NEW marks, NEW v, NEW d, NEW x, Ready(w, e, marks, v, d, x),
                    e.name = <<"csrrs">>, check_constraints(d, {"rs1_eq_x0", "csr_eq_0xc00"}), x.op = <<"rdcycle">>
             PROVE  Meant(x, opcode_data[x.op].format, w)
  BY DEF Keeps, Lift
<1>1. e \in Csrs /\ e.fixed = Code(28, 2, 0)
  BY CsrsBases DEF Ready
<1>2. e.args = <<Rd, Csr, Rs1>> /\ NoMarks(e) /\ Decodes(w, "rv32", e, "i_csr", fmt_rd_csr_rs1)
  BY <1>1, CsrsDecoded DEF Ready
<1>3. Carries(w, e, marks, v) /\ Told(e.args, v, fmt_rd_csr_rs1, d) /\ Same(x, d)
  BY <1>2 DEF Ready, Decodes, InRow
<1>4. d.rs1 = 0 /\ d.imm = 3072
  BY MetOne, MetCsr DEF check_constraints
<1>5. opcode_data[x.op].format = fmt_rd
  <2> DEFINE names == Plain({"rdcycle", "rdtime", "rdinstret", "rdcycleh", "rdtimeh",
                              "rdinstreth", "frcsr", "frrm", "frflags"})
  <2>1. Row("i_csr", fmt_rd, names) \in Rows /\ <<"rdcycle">> \in names
    BY DEF Rows, PseudoRows, Plain
  <2> HIDE DEF names
  <2> QED
    BY <2>1, RowOfName DEF InRow
<1> DEFINE e2 == Pseudo("rdcycle", CsrCode(2, 3072), <<Rd>>)
<1>6. e2 \in Instructions
  BY DEF Instructions, Wide, PseudoCsr
<1>7. e2.name = x.op /\ e2.args = <<Rd>> /\ e2.fixed = CsrCode(2, 3072)
  BY DEF Pseudo, Insn
<1> HIDE DEF e2
<1>10. e2.fixed = e.fixed \cup Field(20, 12, 3072)
  BY <1>1, <1>7 DEF CsrCode
<1>11. Meant(x, fmt_rd, w)
  BY <1>2, <1>3, <1>4, <1>6, <1>7, <1>10, CsrRead, SMT DEF CsrNumber
<1> QED
  BY <1>5, <1>11

LEMMA Kept_csrrs_rdtime == Keeps(Lift("csrrs", "rdtime", {"rs1_eq_x0", "csr_eq_0xc01"}))
<1> SUFFICES ASSUME NEW w, NEW e, NEW marks, NEW v, NEW d, NEW x, Ready(w, e, marks, v, d, x),
                    e.name = <<"csrrs">>, check_constraints(d, {"rs1_eq_x0", "csr_eq_0xc01"}), x.op = <<"rdtime">>
             PROVE  Meant(x, opcode_data[x.op].format, w)
  BY DEF Keeps, Lift
<1>1. e \in Csrs /\ e.fixed = Code(28, 2, 0)
  BY CsrsBases DEF Ready
<1>2. e.args = <<Rd, Csr, Rs1>> /\ NoMarks(e) /\ Decodes(w, "rv32", e, "i_csr", fmt_rd_csr_rs1)
  BY <1>1, CsrsDecoded DEF Ready
<1>3. Carries(w, e, marks, v) /\ Told(e.args, v, fmt_rd_csr_rs1, d) /\ Same(x, d)
  BY <1>2 DEF Ready, Decodes, InRow
<1>4. d.rs1 = 0 /\ d.imm = 3073
  BY MetOne, MetCsr DEF check_constraints
<1>5. opcode_data[x.op].format = fmt_rd
  <2> DEFINE names == Plain({"rdcycle", "rdtime", "rdinstret", "rdcycleh", "rdtimeh",
                              "rdinstreth", "frcsr", "frrm", "frflags"})
  <2>1. Row("i_csr", fmt_rd, names) \in Rows /\ <<"rdtime">> \in names
    BY DEF Rows, PseudoRows, Plain
  <2> HIDE DEF names
  <2> QED
    BY <2>1, RowOfName DEF InRow
<1> DEFINE e2 == Pseudo("rdtime", CsrCode(2, 3073), <<Rd>>)
<1>6. e2 \in Instructions
  BY DEF Instructions, Wide, PseudoCsr
<1>7. e2.name = x.op /\ e2.args = <<Rd>> /\ e2.fixed = CsrCode(2, 3073)
  BY DEF Pseudo, Insn
<1> HIDE DEF e2
<1>10. e2.fixed = e.fixed \cup Field(20, 12, 3073)
  BY <1>1, <1>7 DEF CsrCode
<1>11. Meant(x, fmt_rd, w)
  BY <1>2, <1>3, <1>4, <1>6, <1>7, <1>10, CsrRead, SMT DEF CsrNumber
<1> QED
  BY <1>5, <1>11

LEMMA Kept_csrrs_rdinstret == Keeps(Lift("csrrs", "rdinstret", {"rs1_eq_x0", "csr_eq_0xc02"}))
<1> SUFFICES ASSUME NEW w, NEW e, NEW marks, NEW v, NEW d, NEW x, Ready(w, e, marks, v, d, x),
                    e.name = <<"csrrs">>, check_constraints(d, {"rs1_eq_x0", "csr_eq_0xc02"}), x.op = <<"rdinstret">>
             PROVE  Meant(x, opcode_data[x.op].format, w)
  BY DEF Keeps, Lift
<1>1. e \in Csrs /\ e.fixed = Code(28, 2, 0)
  BY CsrsBases DEF Ready
<1>2. e.args = <<Rd, Csr, Rs1>> /\ NoMarks(e) /\ Decodes(w, "rv32", e, "i_csr", fmt_rd_csr_rs1)
  BY <1>1, CsrsDecoded DEF Ready
<1>3. Carries(w, e, marks, v) /\ Told(e.args, v, fmt_rd_csr_rs1, d) /\ Same(x, d)
  BY <1>2 DEF Ready, Decodes, InRow
<1>4. d.rs1 = 0 /\ d.imm = 3074
  BY MetOne, MetCsr DEF check_constraints
<1>5. opcode_data[x.op].format = fmt_rd
  <2> DEFINE names == Plain({"rdcycle", "rdtime", "rdinstret", "rdcycleh", "rdtimeh",
                              "rdinstreth", "frcsr", "frrm", "frflags"})
  <2>1. Row("i_csr", fmt_rd, names) \in Rows /\ <<"rdinstret">> \in names
    BY DEF Rows, PseudoRows, Plain
  <2> HIDE DEF names
  <2> QED
    BY <2>1, RowOfName DEF InRow
<1> DEFINE e2 == Pseudo("rdinstret", CsrCode(2, 3074), <<Rd>>)
<1>6. e2 \in Instructions
  BY DEF Instructions, Wide, PseudoCsr
<1>7. e2.name = x.op /\ e2.args = <<Rd>> /\ e2.fixed = CsrCode(2, 3074)
  BY DEF Pseudo, Insn
<1> HIDE DEF e2
<1>10. e2.fixed = e.fixed \cup Field(20, 12, 3074)
  BY <1>1, <1>7 DEF CsrCode
<1>11. Meant(x, fmt_rd, w)
  BY <1>2, <1>3, <1>4, <1>6, <1>7, <1>10, CsrRead, SMT DEF CsrNumber
<1> QED
  BY <1>5, <1>11

LEMMA Kept_csrrs_rdcycleh == Keeps(Lift("csrrs", "rdcycleh", {"rs1_eq_x0", "csr_eq_0xc80"}))
<1> SUFFICES ASSUME NEW w, NEW e, NEW marks, NEW v, NEW d, NEW x, Ready(w, e, marks, v, d, x),
                    e.name = <<"csrrs">>, check_constraints(d, {"rs1_eq_x0", "csr_eq_0xc80"}), x.op = <<"rdcycleh">>
             PROVE  Meant(x, opcode_data[x.op].format, w)
  BY DEF Keeps, Lift
<1>1. e \in Csrs /\ e.fixed = Code(28, 2, 0)
  BY CsrsBases DEF Ready
<1>2. e.args = <<Rd, Csr, Rs1>> /\ NoMarks(e) /\ Decodes(w, "rv32", e, "i_csr", fmt_rd_csr_rs1)
  BY <1>1, CsrsDecoded DEF Ready
<1>3. Carries(w, e, marks, v) /\ Told(e.args, v, fmt_rd_csr_rs1, d) /\ Same(x, d)
  BY <1>2 DEF Ready, Decodes, InRow
<1>4. d.rs1 = 0 /\ d.imm = 3200
  BY MetOne, MetCsr DEF check_constraints
<1>5. opcode_data[x.op].format = fmt_rd
  <2> DEFINE names == Plain({"rdcycle", "rdtime", "rdinstret", "rdcycleh", "rdtimeh",
                              "rdinstreth", "frcsr", "frrm", "frflags"})
  <2>1. Row("i_csr", fmt_rd, names) \in Rows /\ <<"rdcycleh">> \in names
    BY DEF Rows, PseudoRows, Plain
  <2> HIDE DEF names
  <2> QED
    BY <2>1, RowOfName DEF InRow
<1> DEFINE e2 == Pseudo("rdcycleh", CsrCode(2, 3200), <<Rd>>)
<1>6. e2 \in Instructions
  BY DEF Instructions, Wide, PseudoCsr
<1>7. e2.name = x.op /\ e2.args = <<Rd>> /\ e2.fixed = CsrCode(2, 3200)
  BY DEF Pseudo, Insn
<1> HIDE DEF e2
<1>10. e2.fixed = e.fixed \cup Field(20, 12, 3200)
  BY <1>1, <1>7 DEF CsrCode
<1>11. Meant(x, fmt_rd, w)
  BY <1>2, <1>3, <1>4, <1>6, <1>7, <1>10, CsrRead, SMT DEF CsrNumber
<1> QED
  BY <1>5, <1>11

LEMMA Kept_csrrs_rdtimeh == Keeps(Lift("csrrs", "rdtimeh", {"rs1_eq_x0", "csr_eq_0xc81"}))
<1> SUFFICES ASSUME NEW w, NEW e, NEW marks, NEW v, NEW d, NEW x, Ready(w, e, marks, v, d, x),
                    e.name = <<"csrrs">>, check_constraints(d, {"rs1_eq_x0", "csr_eq_0xc81"}), x.op = <<"rdtimeh">>
             PROVE  Meant(x, opcode_data[x.op].format, w)
  BY DEF Keeps, Lift
<1>1. e \in Csrs /\ e.fixed = Code(28, 2, 0)
  BY CsrsBases DEF Ready
<1>2. e.args = <<Rd, Csr, Rs1>> /\ NoMarks(e) /\ Decodes(w, "rv32", e, "i_csr", fmt_rd_csr_rs1)
  BY <1>1, CsrsDecoded DEF Ready
<1>3. Carries(w, e, marks, v) /\ Told(e.args, v, fmt_rd_csr_rs1, d) /\ Same(x, d)
  BY <1>2 DEF Ready, Decodes, InRow
<1>4. d.rs1 = 0 /\ d.imm = 3201
  BY MetOne, MetCsr DEF check_constraints
<1>5. opcode_data[x.op].format = fmt_rd
  <2> DEFINE names == Plain({"rdcycle", "rdtime", "rdinstret", "rdcycleh", "rdtimeh",
                              "rdinstreth", "frcsr", "frrm", "frflags"})
  <2>1. Row("i_csr", fmt_rd, names) \in Rows /\ <<"rdtimeh">> \in names
    BY DEF Rows, PseudoRows, Plain
  <2> HIDE DEF names
  <2> QED
    BY <2>1, RowOfName DEF InRow
<1> DEFINE e2 == Pseudo("rdtimeh", CsrCode(2, 3201), <<Rd>>)
<1>6. e2 \in Instructions
  BY DEF Instructions, Wide, PseudoCsr
<1>7. e2.name = x.op /\ e2.args = <<Rd>> /\ e2.fixed = CsrCode(2, 3201)
  BY DEF Pseudo, Insn
<1> HIDE DEF e2
<1>10. e2.fixed = e.fixed \cup Field(20, 12, 3201)
  BY <1>1, <1>7 DEF CsrCode
<1>11. Meant(x, fmt_rd, w)
  BY <1>2, <1>3, <1>4, <1>6, <1>7, <1>10, CsrRead, SMT DEF CsrNumber
<1> QED
  BY <1>5, <1>11

LEMMA Kept_csrrs_rdinstreth == Keeps(Lift("csrrs", "rdinstreth", {"rs1_eq_x0", "csr_eq_0xc82"}))
<1> SUFFICES ASSUME NEW w, NEW e, NEW marks, NEW v, NEW d, NEW x, Ready(w, e, marks, v, d, x),
                    e.name = <<"csrrs">>, check_constraints(d, {"rs1_eq_x0", "csr_eq_0xc82"}), x.op = <<"rdinstreth">>
             PROVE  Meant(x, opcode_data[x.op].format, w)
  BY DEF Keeps, Lift
<1>1. e \in Csrs /\ e.fixed = Code(28, 2, 0)
  BY CsrsBases DEF Ready
<1>2. e.args = <<Rd, Csr, Rs1>> /\ NoMarks(e) /\ Decodes(w, "rv32", e, "i_csr", fmt_rd_csr_rs1)
  BY <1>1, CsrsDecoded DEF Ready
<1>3. Carries(w, e, marks, v) /\ Told(e.args, v, fmt_rd_csr_rs1, d) /\ Same(x, d)
  BY <1>2 DEF Ready, Decodes, InRow
<1>4. d.rs1 = 0 /\ d.imm = 3202
  BY MetOne, MetCsr DEF check_constraints
<1>5. opcode_data[x.op].format = fmt_rd
  <2> DEFINE names == Plain({"rdcycle", "rdtime", "rdinstret", "rdcycleh", "rdtimeh",
                              "rdinstreth", "frcsr", "frrm", "frflags"})
  <2>1. Row("i_csr", fmt_rd, names) \in Rows /\ <<"rdinstreth">> \in names
    BY DEF Rows, PseudoRows, Plain
  <2> HIDE DEF names
  <2> QED
    BY <2>1, RowOfName DEF InRow
<1> DEFINE e2 == Pseudo("rdinstreth", CsrCode(2, 3202), <<Rd>>)
<1>6. e2 \in Instructions
  BY DEF Instructions, Wide, PseudoCsr
<1>7. e2.name = x.op /\ e2.args = <<Rd>> /\ e2.fixed = CsrCode(2, 3202)
  BY DEF Pseudo, Insn
<1> HIDE DEF e2
<1>10. e2.fixed = e.fixed \cup Field(20, 12, 3202)
  BY <1>1, <1>7 DEF CsrCode
<1>11. Meant(x, fmt_rd, w)
  BY <1>2, <1>3, <1>4, <1>6, <1>7, <1>10, CsrRead, SMT DEF CsrNumber
<1> QED
  BY <1>5, <1>11

LEMMA Kept_csrrs_frcsr == Keeps(Lift("csrrs", "frcsr", {"rs1_eq_x0", "csr_eq_0x003"}))
<1> SUFFICES ASSUME NEW w, NEW e, NEW marks, NEW v, NEW d, NEW x, Ready(w, e, marks, v, d, x),
                    e.name = <<"csrrs">>, check_constraints(d, {"rs1_eq_x0", "csr_eq_0x003"}), x.op = <<"frcsr">>
             PROVE  Meant(x, opcode_data[x.op].format, w)
  BY DEF Keeps, Lift
<1>1. e \in Csrs /\ e.fixed = Code(28, 2, 0)
  BY CsrsBases DEF Ready
<1>2. e.args = <<Rd, Csr, Rs1>> /\ NoMarks(e) /\ Decodes(w, "rv32", e, "i_csr", fmt_rd_csr_rs1)
  BY <1>1, CsrsDecoded DEF Ready
<1>3. Carries(w, e, marks, v) /\ Told(e.args, v, fmt_rd_csr_rs1, d) /\ Same(x, d)
  BY <1>2 DEF Ready, Decodes, InRow
<1>4. d.rs1 = 0 /\ d.imm = 3
  BY MetOne, MetCsr DEF check_constraints
<1>5. opcode_data[x.op].format = fmt_rd
  <2> DEFINE names == Plain({"rdcycle", "rdtime", "rdinstret", "rdcycleh", "rdtimeh",
                              "rdinstreth", "frcsr", "frrm", "frflags"})
  <2>1. Row("i_csr", fmt_rd, names) \in Rows /\ <<"frcsr">> \in names
    BY DEF Rows, PseudoRows, Plain
  <2> HIDE DEF names
  <2> QED
    BY <2>1, RowOfName DEF InRow
<1> DEFINE e2 == Pseudo("frcsr", CsrCode(2, 3), <<Rd>>)
<1>6. e2 \in Instructions
  BY DEF Instructions, Wide, PseudoCsr
<1>7. e2.name = x.op /\ e2.args = <<Rd>> /\ e2.fixed = CsrCode(2, 3)
  BY DEF Pseudo, Insn
<1> HIDE DEF e2
<1>10. e2.fixed = e.fixed \cup Field(20, 12, 3)
  BY <1>1, <1>7 DEF CsrCode
<1>11. Meant(x, fmt_rd, w)
  BY <1>2, <1>3, <1>4, <1>6, <1>7, <1>10, CsrRead, SMT DEF CsrNumber
<1> QED
  BY <1>5, <1>11

LEMMA Kept_csrrs_frrm == Keeps(Lift("csrrs", "frrm", {"rs1_eq_x0", "csr_eq_0x002"}))
<1> SUFFICES ASSUME NEW w, NEW e, NEW marks, NEW v, NEW d, NEW x, Ready(w, e, marks, v, d, x),
                    e.name = <<"csrrs">>, check_constraints(d, {"rs1_eq_x0", "csr_eq_0x002"}), x.op = <<"frrm">>
             PROVE  Meant(x, opcode_data[x.op].format, w)
  BY DEF Keeps, Lift
<1>1. e \in Csrs /\ e.fixed = Code(28, 2, 0)
  BY CsrsBases DEF Ready
<1>2. e.args = <<Rd, Csr, Rs1>> /\ NoMarks(e) /\ Decodes(w, "rv32", e, "i_csr", fmt_rd_csr_rs1)
  BY <1>1, CsrsDecoded DEF Ready
<1>3. Carries(w, e, marks, v) /\ Told(e.args, v, fmt_rd_csr_rs1, d) /\ Same(x, d)
  BY <1>2 DEF Ready, Decodes, InRow
<1>4. d.rs1 = 0 /\ d.imm = 2
  BY MetOne, MetCsr DEF check_constraints
<1>5. opcode_data[x.op].format = fmt_rd
  <2> DEFINE names == Plain({"rdcycle", "rdtime", "rdinstret", "rdcycleh", "rdtimeh",
                              "rdinstreth", "frcsr", "frrm", "frflags"})
  <2>1. Row("i_csr", fmt_rd, names) \in Rows /\ <<"frrm">> \in names
    BY DEF Rows, PseudoRows, Plain
  <2> HIDE DEF names
  <2> QED
    BY <2>1, RowOfName DEF InRow
<1> DEFINE e2 == Pseudo("frrm", CsrCode(2, 2), <<Rd>>)
<1>6. e2 \in Instructions
  BY DEF Instructions, Wide, PseudoCsr
<1>7. e2.name = x.op /\ e2.args = <<Rd>> /\ e2.fixed = CsrCode(2, 2)
  BY DEF Pseudo, Insn
<1> HIDE DEF e2
<1>10. e2.fixed = e.fixed \cup Field(20, 12, 2)
  BY <1>1, <1>7 DEF CsrCode
<1>11. Meant(x, fmt_rd, w)
  BY <1>2, <1>3, <1>4, <1>6, <1>7, <1>10, CsrRead, SMT DEF CsrNumber
<1> QED
  BY <1>5, <1>11

LEMMA Kept_csrrs_frflags == Keeps(Lift("csrrs", "frflags", {"rs1_eq_x0", "csr_eq_0x001"}))
<1> SUFFICES ASSUME NEW w, NEW e, NEW marks, NEW v, NEW d, NEW x, Ready(w, e, marks, v, d, x),
                    e.name = <<"csrrs">>, check_constraints(d, {"rs1_eq_x0", "csr_eq_0x001"}), x.op = <<"frflags">>
             PROVE  Meant(x, opcode_data[x.op].format, w)
  BY DEF Keeps, Lift
<1>1. e \in Csrs /\ e.fixed = Code(28, 2, 0)
  BY CsrsBases DEF Ready
<1>2. e.args = <<Rd, Csr, Rs1>> /\ NoMarks(e) /\ Decodes(w, "rv32", e, "i_csr", fmt_rd_csr_rs1)
  BY <1>1, CsrsDecoded DEF Ready
<1>3. Carries(w, e, marks, v) /\ Told(e.args, v, fmt_rd_csr_rs1, d) /\ Same(x, d)
  BY <1>2 DEF Ready, Decodes, InRow
<1>4. d.rs1 = 0 /\ d.imm = 1
  BY MetOne, MetCsr DEF check_constraints
<1>5. opcode_data[x.op].format = fmt_rd
  <2> DEFINE names == Plain({"rdcycle", "rdtime", "rdinstret", "rdcycleh", "rdtimeh",
                              "rdinstreth", "frcsr", "frrm", "frflags"})
  <2>1. Row("i_csr", fmt_rd, names) \in Rows /\ <<"frflags">> \in names
    BY DEF Rows, PseudoRows, Plain
  <2> HIDE DEF names
  <2> QED
    BY <2>1, RowOfName DEF InRow
<1> DEFINE e2 == Pseudo("frflags", CsrCode(2, 1), <<Rd>>)
<1>6. e2 \in Instructions
  BY DEF Instructions, Wide, PseudoCsr
<1>7. e2.name = x.op /\ e2.args = <<Rd>> /\ e2.fixed = CsrCode(2, 1)
  BY DEF Pseudo, Insn
<1> HIDE DEF e2
<1>10. e2.fixed = e.fixed \cup Field(20, 12, 1)
  BY <1>1, <1>7 DEF CsrCode
<1>11. Meant(x, fmt_rd, w)
  BY <1>2, <1>3, <1>4, <1>6, <1>7, <1>10, CsrRead, SMT DEF CsrNumber
<1> QED
  BY <1>5, <1>11

LEMMA Kept_csrrwi_fsrmi == Keeps(Lift("csrrwi", "fsrmi", {"csr_eq_0x002"}))
<1> SUFFICES ASSUME NEW w, NEW e, NEW marks, NEW v, NEW d, NEW x, Ready(w, e, marks, v, d, x),
                    e.name = <<"csrrwi">>, check_constraints(d, {"csr_eq_0x002"}), x.op = <<"fsrmi">>
             PROVE  Meant(x, opcode_data[x.op].format, w)
  BY DEF Keeps, Lift
<1>1. e \in CsrImmediates /\ e.fixed = Code(28, 5, 0)
  BY CsrImmediatesBases DEF Ready
<1>2. e.args = <<Rd, Csr, Zimm>> /\ NoMarks(e) /\ Decodes(w, "rv32", e, "i_csr", fmt_rd_csr_zimm)
  BY <1>1, CsrImmediatesDecoded DEF Ready
<1>3. Carries(w, e, marks, v) /\ Told(e.args, v, fmt_rd_csr_zimm, d) /\ Same(x, d)
  BY <1>2 DEF Ready, Decodes, InRow
<1>4. d.imm = 2
  BY MetCsr DEF check_constraints
<1>5. opcode_data[x.op].format = fmt_rd_zimm
  <2> DEFINE names == Plain({"fsrmi", "fsflagsi"})
  <2>1. Row("i_csr", fmt_rd_zimm, names) \in Rows /\ <<"fsrmi">> \in names
    BY DEF Rows, PseudoRows, Plain
  <2> HIDE DEF names
  <2> QED
    BY <2>1, RowOfName DEF InRow
<1> DEFINE e2 == Pseudo("fsrmi", CsrCode(5, 2), <<Rd, Zimm>>)
<1>6. e2 \in Instructions
  BY DEF Instructions, Wide, PseudoCsr
<1>7. e2.name = x.op /\ e2.args = <<Rd, Zimm>> /\ e2.fixed = CsrCode(5, 2)
  BY DEF Pseudo, Insn
<1> HIDE DEF e2
<1>10. e2.fixed = e.fixed \cup Field(20, 12, 2)
  BY <1>1, <1>7 DEF CsrCode
<1>11. Meant(x, fmt_rd_zimm, w)
  BY <1>2, <1>3, <1>4, <1>6, <1>7, <1>10, CsrImmediateGiven, SMT DEF CsrNumber
<1> QED
  BY <1>5, <1>11

LEMMA Kept_csrrwi_fsflagsi == Keeps(Lift("csrrwi", "fsflagsi", {"csr_eq_0x001"}))
<1> SUFFICES ASSUME NEW w, NEW e, NEW marks, NEW v, NEW d, NEW x, Ready(w, e, marks, v, d, x),
                    e.name = <<"csrrwi">>, check_constraints(d, {"csr_eq_0x001"}), x.op = <<"fsflagsi">>
             PROVE  Meant(x, opcode_data[x.op].format, w)
  BY DEF Keeps, Lift
<1>1. e \in CsrImmediates /\ e.fixed = Code(28, 5, 0)
  BY CsrImmediatesBases DEF Ready
<1>2. e.args = <<Rd, Csr, Zimm>> /\ NoMarks(e) /\ Decodes(w, "rv32", e, "i_csr", fmt_rd_csr_zimm)
  BY <1>1, CsrImmediatesDecoded DEF Ready
<1>3. Carries(w, e, marks, v) /\ Told(e.args, v, fmt_rd_csr_zimm, d) /\ Same(x, d)
  BY <1>2 DEF Ready, Decodes, InRow
<1>4. d.imm = 1
  BY MetCsr DEF check_constraints
<1>5. opcode_data[x.op].format = fmt_rd_zimm
  <2> DEFINE names == Plain({"fsrmi", "fsflagsi"})
  <2>1. Row("i_csr", fmt_rd_zimm, names) \in Rows /\ <<"fsflagsi">> \in names
    BY DEF Rows, PseudoRows, Plain
  <2> HIDE DEF names
  <2> QED
    BY <2>1, RowOfName DEF InRow
<1> DEFINE e2 == Pseudo("fsflagsi", CsrCode(5, 1), <<Rd, Zimm>>)
<1>6. e2 \in Instructions
  BY DEF Instructions, Wide, PseudoCsr
<1>7. e2.name = x.op /\ e2.args = <<Rd, Zimm>> /\ e2.fixed = CsrCode(5, 1)
  BY DEF Pseudo, Insn
<1> HIDE DEF e2
<1>10. e2.fixed = e.fixed \cup Field(20, 12, 1)
  BY <1>1, <1>7 DEF CsrCode
<1>11. Meant(x, fmt_rd_zimm, w)
  BY <1>2, <1>3, <1>4, <1>6, <1>7, <1>10, CsrImmediateGiven, SMT DEF CsrNumber
<1> QED
  BY <1>5, <1>11

LEMMA Kept_floats ==
  \A p \in Precisions : /\ Keeps(FloatLift("fsgnj", "fmv", p))
                        /\ Keeps(FloatLift("fsgnjn", "fneg", p))
                        /\ Keeps(FloatLift("fsgnjx", "fabs", p))
<1>1. ASSUME NEW p \in Precisions, NEW of, NEW to \in {"fmv", "fneg", "fabs"}
      PROVE  Keeps(FloatLift(of, to, p))
  <2>1. FloatLift(of, to, p).to = <<to, p>>
    BY DEF FloatLift
  <2>2. \A x : x.op = <<to, p>> => Lossy(x)
    BY <1>1 DEF Lossy
  <2> QED
    BY <2>1, <2>2 DEF Keeps
<1> QED
  BY <1>1

ListOf(list) == {list[j] : j \in DOMAIN list}

LEMMA BranchLiftsKept == BranchLifts \in Seq(ListOf(BranchLifts)) /\ \A r \in ListOf(BranchLifts) : Keeps(r)
<1>1. BranchLifts \in Seq(ListOf(BranchLifts))
  BY DEF BranchLifts, ListOf
<1>2. \A j \in DOMAIN BranchLifts : Keeps(BranchLifts[j])
  BY Kept_jal_j, Kept_jal_jal, Kept_jalr_ret, Kept_jalr_jr, Kept_jalr_jalr, Kept_beq_beqz,
     Kept_bne_bnez, Kept_blt_bltz, Kept_blt_bgtz, Kept_blt_bgt, Kept_bge_blez, Kept_bge_bgez,
     Kept_bge_ble, Kept_bltu_bgtu, Kept_bgeu_bleu
     DEF BranchLifts
<1> QED
  BY <1>1, <1>2 DEF ListOf

LEMMA ArithmeticLiftsKept == ArithmeticLifts \in Seq(ListOf(ArithmeticLifts)) /\ \A r \in ListOf(ArithmeticLifts) : Keeps(r)
<1>1. ArithmeticLifts \in Seq(ListOf(ArithmeticLifts))
  BY DEF ArithmeticLifts, ListOf
<1>2. \A j \in DOMAIN ArithmeticLifts : Keeps(ArithmeticLifts[j])
  BY Kept_addi_nop, Kept_addi_mv, Kept_sltiu_seqz, Kept_xori_not, Kept_sub_neg, Kept_slt_sltz,
     Kept_slt_sgtz, Kept_sltu_snez, Kept_addiw_sext_w, Kept_subw_negw
     DEF ArithmeticLifts
<1> QED
  BY <1>1, <1>2 DEF ListOf

LEMMA CsrLiftsKept == CsrLifts \in Seq(ListOf(CsrLifts)) /\ \A r \in ListOf(CsrLifts) : Keeps(r)
<1>1. CsrLifts \in Seq(ListOf(CsrLifts))
  BY DEF CsrLifts, ListOf
<1>2. \A j \in DOMAIN CsrLifts : Keeps(CsrLifts[j])
  BY Kept_csrrw_fscsr, Kept_csrrw_fsrm, Kept_csrrw_fsflags, Kept_csrrs_rdcycle,
     Kept_csrrs_rdtime, Kept_csrrs_rdinstret, Kept_csrrs_rdcycleh, Kept_csrrs_rdtimeh,
     Kept_csrrs_rdinstreth, Kept_csrrs_frcsr, Kept_csrrs_frrm, Kept_csrrs_frflags,
     Kept_csrrwi_fsrmi, Kept_csrrwi_fsflagsi
     DEF CsrLifts
<1> QED
  BY <1>1, <1>2 DEF ListOf

LEMMA FloatLiftsKept == FloatLifts \in Seq(ListOf(FloatLifts)) /\ \A r \in ListOf(FloatLifts) : Keeps(r)
<1>1. FloatLifts \in Seq(ListOf(FloatLifts))
  BY DEF FloatLifts, ListOf
<1>2. \A j \in DOMAIN FloatLifts : Keeps(FloatLifts[j])
  BY Kept_floats
     DEF FloatLifts, Precisions
<1> QED
  BY <1>1, <1>2 DEF ListOf

(* Every lift but the two lossy ones.                                      *)
LEMMA LiftsKept == \A k \in DOMAIN rvcp : Keeps(rvcp[k])
<1> DEFINE S == ListOf(BranchLifts) \cup ListOf(ArithmeticLifts) \cup ListOf(CsrLifts) \cup ListOf(FloatLifts)
<1>1. \A r \in S : Keeps(r)
  BY BranchLiftsKept, ArithmeticLiftsKept, CsrLiftsKept, FloatLiftsKept
<1>2. BranchLifts \in Seq(S) /\ ArithmeticLifts \in Seq(S) /\ CsrLifts \in Seq(S) /\ FloatLifts \in Seq(S)
  BY BranchLiftsKept, ArithmeticLiftsKept, CsrLiftsKept, FloatLiftsKept
<1> HIDE DEF S
<1>3. rvcp \in Seq(S)
  BY <1>2, ConcatProperties DEF rvcp
<1>4. \A k \in DOMAIN rvcp : rvcp[k] \in S
  BY <1>3
<1> QED
  BY <1>1, <1>4

-----------------------------------------------------------------------------
(* What is printed: the cut-up word itself, or a lift of it.               *)
LiftOf(x, d) ==
  /\ Same(x, d)
  /\ \E k \in DOMAIN rvcp : /\ rvcp[k].of = d.op /\ check_constraints(d, rvcp[k].if)
                            /\ x.op = rvcp[k].to

(* What rv_inst_pseudo leaves of a legal word still means the word: the    *)
(* name that it has then, with the operands that the format of that name   *)
(* shows, stands for these bits, unless the lift was one of the two that   *)
(* lose an operand or the kind of a register.                              *)
THEOREM LegalMeans ==
  ASSUME NEW w \in Word, NEW isa, Legal(isa, BitsOf(w)), NEW pc, NEW op, op = rv_inst_opcode(w, isa),
         NEW d, d = Cut(w, pc, op, opcode_data[op].type), d.op = op,
         NEW x, x = d \/ LiftOf(x, d), ~Lossy(x)
  PROVE  Meant(x, opcode_data[x.op].format, w)
<1>1. PICK e \in Basic \cup Compressed :
        \E marks, v : Carries(w, e, marks, v) /\ Listed(w, isa, e, marks, v)
  BY LegalListed
<1>2. PICK marks, v : Carries(w, e, marks, v) /\ Listed(w, isa, e, marks, v)
  BY <1>1
<1> DEFINE ft == opcode_data[e.name].format
<1>3. e.name = op
  BY <1>2 DEF Listed
<1>4. Told(e.args, v, ft, d) /\ LineMarks(d, ft) = marks
  BY <1>2, <1>3 DEF Listed
<1> HIDE DEF ft
<1>5. CASE x = d
  <2>1. e \in Instructions
    BY DEF Instructions, Wide
  <2>2. Meant(d, ft, w)
    BY <1>2, <1>3, <1>4, <2>1, ToldMeans
  <2> QED
    BY <1>3, <1>5, <2>2 DEF ft
<1>6. CASE LiftOf(x, d)
  <2>1. Ready(w, e, marks, v, d, x)
    BY <1>2, <1>4, <1>6 DEF Ready, LiftOf, ft
  <2>2. PICK k \in DOMAIN rvcp : /\ rvcp[k].of = d.op /\ check_constraints(d, rvcp[k].if)
                                 /\ x.op = rvcp[k].to
    BY <1>6 DEF LiftOf
  <2>3. Keeps(rvcp[k])
    BY LiftsKept
  <2>4. rvcp[k].of = e.name
    BY <1>3, <2>2
  <2> QED
    BY <2>1, <2>2, <2>3, <2>4 DEF Keeps
<1> QED
  BY <1>5, <1>6
=============================================================================
