--------------------------- MODULE DisassembleInst ---------------------------
(***************************************************************************)
(* disassemble_inst: one instruction word becomes one line.  The program   *)
(* decodes the op, cuts out the operands, lifts to a pseudo-instruction,   *)
(* and appends the parts of the line to an 80-byte buffer.  The steps are  *)
(* these calls, each turn of the loop over the format, and the fprintf.    *)
(* The text itself is abstracted: the buffer holds pieces, each with what  *)
(* it shows and the characters of it that the buffer took.                 *)
(***************************************************************************)
EXTENDS RvDecode, RvPseudo, RvAsm, SequencesExt

CONSTANTS
  Inputs,   \* sets of records [inst, isa, pc], the arguments of a call
  BufLen,   \* sizeof buf, 80
  Tab       \* the column of the operands, 32

(* Room for a mnemonic before column Tab, and for a target, "# 0x" and     *)
(* eleven digits, behind column 2 * Tab.  Were that column not inside the  *)
(* buffer, the padding loop of 'o' would never end.                        *)
ASSUME TabAssumption == Tab \in Nat /\ BufLen \in Nat /\ 32 <= Tab /\ 2 * Tab + 15 < BufLen

(* uint64_t, in halves of sixteen bits from the lowest up: pc is whatever  *)
(* sh_offset the section header has, in the file or not.                   *)
Half    == {h \in Nat : h < 65536}
Address == [1 .. 4 -> Half]

(* disassemble_text_section calls it for these lengths only, with a word   *)
(* fetched at that length.                                                 *)
ASSUME InputAssumption ==
  \A S \in Inputs : \A in \in S :
    /\ inst_length(in.inst) \in {2, 4}
    /\ inst_length(in.inst) = 2 => in.inst >= 0 /\ in.inst < 65536
    /\ in.inst \in Int /\ in.isa \in Isas /\ in.pc \in Address

VARIABLES
  stage,   \* the call that disassemble_inst makes next
  isa,
  dec,     \* rv_instInfo
  fmt,     \* the index in the format of the character to print next
  line     \* buf

vars == <<stage, isa, dec, fmt, line>>

-----------------------------------------------------------------------------
(* The CSR numbers that csr_name knows.                                    *)
UserCsrs       == 0 .. 5 \cup 7 .. 10 \cup {15} \cup 64 .. 70 \cup 72 .. 73
SupervisorCsrs == {256} \cup 258 .. 263 \cup 320 .. 326 \cup 328 .. 329 \cup {384}
HypervisorCsrs == {512} \cup 516 .. 517 \cup 576 .. 580 \cup {640}
MachineCsrs    == 768 .. 775 \cup {784, 800} \cup 803 .. 838 \cup 840 .. 843
                    \cup 928 .. 931 \cup 944 .. 959
DebugCsrs      == {1536} \cup 1538 .. 1543 \cup {1557} \cup 1603 .. 1605 \cup {1610, 1664}
                    \cup 1952 .. 1957 \cup 1960 .. 1962 \cup 1968 .. 1971
MachineCounters == {2816} \cup 2818 .. 2847 \cup {2944} \cup 2946 .. 2975
UserCounters    == 3072 .. 3106 \cup 3200 .. 3231
Identity        == {3602} \cup 3857 .. 3861

csr_name == UserCsrs \cup SupervisorCsrs \cup HypervisorCsrs \cup MachineCsrs \cup DebugCsrs
              \cup MachineCounters \cup UserCounters \cup Identity

-----------------------------------------------------------------------------
(* Characters of each kind of piece.                                       *)
NameWidth(op) == SumFunction([k \in DOMAIN op |-> Len(op[k])]) + Len(op) - 1

(* No name has more letters than addi16sp's "c.addi16sp".                  *)
ASSUME NameAssumption == \A op \in rv_op : NameWidth(op) \in 1 .. 10

(* %d of an int32_t: up to ten digits, and a minus sign.                   *)
Decimal(n) ==
  Min({k \in 1 .. 10 : k = 10 \/ (-(10^k) < n /\ n < 10^k)}) + (IF n < 0 THEN 1 ELSE 0)

(* pc + imm, modulo 2^64: imm is sign-extended, so that a carry or a       *)
(* borrow goes up from half to half.                                       *)
Target(pc, imm) ==
  LET low  == pc[1] + (imm % 65536)
      next == pc[2] + imm \div 65536 + low \div 65536
      high == pc[3] + next \div 65536
      top  == pc[4] + high \div 65536
  IN  <<low % 65536, next % 65536, high % 65536, top % 65536>>

(* %PRIx64: four digits for each half below the highest that is not zero.  *)
Hexadecimal(a) ==
  LET top == Max({k \in 1 .. 4 : k = 1 \/ a[k] > 0})
  IN  4 * (top - 1) + Min({k \in 1 .. 4 : k = 4 \/ a[top] < 16^k})

rv_i_reg_abi_name(r) == CASE r = 0 -> 4 [] r \in {26, 27} -> 3 [] OTHER -> 2
rv_f_reg_abi_name(r) == IF r \in {26, 27, 30, 31} THEN 4 ELSE 3

(* The longest names, mhpmcounter10h and its like, for every named CSR;    *)
(* 0x%03x for the others.                                                  *)
CsrWidth(csr) == IF csr \in csr_name THEN 14 ELSE 5

(* The letters of a fence set, one for each bit.                           *)
Letters(set) == Bits(set, 0, 1) + Bits(set, 1, 1) + Bits(set, 2, 1) + Bits(set, 3, 1)

-----------------------------------------------------------------------------
(***************************************************************************)
(* append: n - s1Len - s2Len - 1 >= 0 compares a size_t and is always      *)
(* true.  strncat copies at most n - s1Len characters and then writes a    *)
(* NUL: `len` is the index of that NUL, and index BufLen is not in buf.    *)
(***************************************************************************)
append(l, kind, value, width) ==
  LET chars == Min({width, BufLen - l.len})
  IN  [len    |-> l.len + chars,
       pieces |-> Append(l.pieces, [kind |-> kind, value |-> value,
                                    width |-> width, chars |-> chars])]

(* Mutant: pads by `column` blanks instead of up to it.                    *)
pad_By(l, column) == append(l, "pad", column, column)

(* while (strlen(buf) < column) append(buf, " ", buflen)                   *)
pad(l, column) == append(l, "pad", column, IF l.len < column THEN column - l.len ELSE 0)

(* Mutant: eight digits, and the fourteen blanks of INST_LEN_2.            *)
Header_Wide(d) ==
  [len |-> 22, pieces |-> << [kind |-> "word", value |-> d.inst, width |-> 22, chars |-> 22] >>]

(* INST_LEN_2 and INST_LEN_4 both give eighteen characters.                *)
Header(d) ==
  [len |-> 18, pieces |-> << [kind |-> "word", value |-> d.inst, width |-> 18, chars |-> 18] >>]

RoundingMode(d) == IF d.rm \in {5, 6} THEN "inv" ELSE d.rm

format_char(l, c, d) ==
  CASE c = "O"  -> append(l, "name", d.op, NameWidth(d.op))
    [] c = "A"  -> IF d.aq = 1 THEN append(l, "mark", "aq", 3) ELSE l
    [] c = "R"  -> IF d.rl = 1 THEN append(l, "mark", "rl", 3) ELSE l
    [] c = "\t" -> pad(l, Tab)
    [] c \in {"(", ",", ")"} -> append(l, "punctuation", c, 1)
    [] c = "0"  -> append(l, "x", d.rd, rv_i_reg_abi_name(d.rd))
    [] c = "1"  -> append(l, "x", d.rs1, rv_i_reg_abi_name(d.rs1))
    [] c = "2"  -> append(l, "x", d.rs2, rv_i_reg_abi_name(d.rs2))
    [] c = "3"  -> append(l, "f", d.rd, rv_f_reg_abi_name(d.rd))
    [] c = "4"  -> append(l, "f", d.rs1, rv_f_reg_abi_name(d.rs1))
    [] c = "5"  -> append(l, "f", d.rs2, rv_f_reg_abi_name(d.rs2))
    [] c = "6"  -> append(l, "f", d.rs3, rv_f_reg_abi_name(d.rs3))
    [] c = "7"  -> append(l, "num", d.rs1, Decimal(d.rs1))
    [] c = "i"  -> append(l, "imm", d.imm, Decimal(d.imm))
    [] c = "o"  -> append(pad(append(l, "imm", d.imm, Decimal(d.imm)), 2 * Tab),
                          "target", Target(d.pc, d.imm), 4 + Hexadecimal(Target(d.pc, d.imm)))
    [] c = "c"  -> append(l, "csr", d.imm % 4096, CsrWidth(d.imm % 4096))
    [] c = "r"  -> append(l, "rm", RoundingMode(d), 3)
    [] c = "p"  -> append(l, "fence", d.pred, Letters(d.pred))
    [] c = "s"  -> append(l, "fence", d.succ, Letters(d.succ))

-----------------------------------------------------------------------------
(* disassemble_inst.  The fields of dec start as zero and buf as empty.    *)
Zeroed(inst, pc) ==
  [pc |-> pc, inst |-> inst, imm |-> 0, op |-> op_illegal, type |-> "illegal",
   rd |-> 0, rs1 |-> 0, rs2 |-> 0, rs3 |-> 0, rm |-> 0, pred |-> 0, succ |-> 0, aq |-> 0, rl |-> 0]

Init ==
  /\ stage = "opcode"
  /\ \E S \in Inputs : \E in \in S : isa = in.isa /\ dec = Zeroed(in.inst, in.pc)
  /\ fmt = 1
  /\ line = [len |-> 0, pieces |-> << >>]

DecodeOpcode ==
  /\ stage = "opcode"
  /\ stage' = "operands"
  /\ dec' = [dec EXCEPT !.op = rv_inst_opcode(dec.inst, isa)]
  /\ UNCHANGED <<isa, fmt, line>>

DecodeOperands ==
  /\ stage = "operands"
  /\ stage' = "pseudo"
  /\ dec' = rv_inst_oprands(dec, opcode_data[dec.op].type)
  /\ UNCHANGED <<isa, fmt, line>>

LiftToPseudo ==
  /\ stage = "pseudo"
  /\ stage' = "format"
  /\ dec' = rv_inst_pseudo(dec)
  /\ UNCHANGED <<isa, fmt, line>>

(* rv_inst_format: the word, and then the format from its start.           *)
FormatWord ==
  /\ stage = "format"
  /\ stage' = "chars"
  /\ line' = Header(dec)
  /\ UNCHANGED <<isa, dec, fmt>>

Format == opcode_data[dec.op].format

FormatChar ==
  /\ stage = "chars" /\ fmt <= Len(Format)
  /\ line' = format_char(line, Format[fmt], dec)
  /\ fmt' = fmt + 1
  /\ UNCHANGED <<stage, isa, dec>>

Formatted == stage = "chars" /\ fmt > Len(Format)

Return ==
  /\ Formatted
  /\ stage' = "returned"
  /\ UNCHANGED <<isa, dec, fmt, line>>

Next ==
  \/ DecodeOpcode \/ DecodeOperands \/ LiftToPseudo
  \/ FormatWord \/ FormatChar \/ Return

Spec == Init /\ [][Next]_vars

-----------------------------------------------------------------------------
(* What the line shows, for its properties.                                *)
Pieces == ToSet(line.pieces)
Name   == (CHOOSE p \in Pieces : p.kind = "name").value
Marks  == {p.value : p \in {q \in Pieces : q.kind = "mark"}}

(* The operands' pieces, and the operands in their order.                  *)
Shown ==
  {i \in DOMAIN line.pieces : line.pieces[i].kind \in {"x", "f", "num", "imm", "csr", "rm", "fence"}}

Args ==
  LET Rank(i) == Cardinality({j \in Shown : j <= i})
      At(k)   == line.pieces[CHOOSE i \in Shown : Rank(i) = k]
  IN  [k \in 1 .. Cardinality(Shown) |-> <<At(k).kind, At(k).value>>]

InstBits == BitsOf(dec.inst)

Reassembles == Means(Name, Marks, Args, InstBits)

(* Two lifts lose part of the word: ret takes any offset, and the sign     *)
(* operations of the float registers name integer registers.               *)
LossyLift ==
  \/ dec.op = <<"ret">> /\ dec.imm # 0
  \/ \E p \in Precisions : dec.op \in {<<"fmv", p>>, <<"fneg", p>>, <<"fabs", p>>}

(* A target at 2^44 or beyond: from there on it has twelve digits or more. *)
FarTarget == \E p \in Pieces : p.kind = "target" /\ (p.value[4] > 0 \/ p.value[3] >= 4096)

-----------------------------------------------------------------------------
(* rv_instInfo: registers are indices of the name tables, and the op has   *)
(* a row in opcode_data.                                                   *)
rv_instInfo ==
  [pc : Address, inst : Int, imm : Int, op : rv_op, type : rv_type,
   rd : 0 .. 31, rs1 : 0 .. 31, rs2 : 0 .. 31, rs3 : 0 .. 31, rm : 0 .. 7,
   pred : 0 .. 15, succ : 0 .. 15, aq : 0 .. 1, rl : 0 .. 1]

(* Each value has its type, of every word, whether an instruction or not;  *)
(* and the NUL is at most one past buf.                                    *)
TypeOK ==
  /\ stage \in {"opcode", "operands", "pseudo", "format", "chars", "returned"}
  /\ isa \in Isas
  /\ dec \in rv_instInfo
  /\ stage \notin {"opcode", "operands"} => dec.type = opcode_data[dec.op].type
  /\ fmt \in 1 .. Len(Format) + 1
  /\ line.len \in 0 .. BufLen

(* The line of a legal instruction says which instruction it was: its      *)
(* mnemonic and its operands, read by the RISC-V instruction formats, give *)
(* back the word, bit for bit, and no two words share a line.  The whole   *)
(* chain is in it: switches, shifts, lists of constraints and formats.     *)
(* The two lossy lifts are excluded here and shown by runs of their own.   *)
LineReassembles == Formatted /\ ~LossyLift => Reassembles

(* A pseudo-instruction is another name of the same instruction ("lift     *)
(* instruction to pseudo-instruction"), so no line may lose a part of it.  *)
LiftKeepsMeaning == Formatted => Reassembles

(* "A null character is written at the end of the characters actually      *)
(* written into the array" (3322), and the array has room for it and for   *)
(* every line uncut, unless the target is at 2^44 or beyond: then the NUL  *)
(* lands at buf[80].  Targets before the file's start are among these,     *)
(* since they wrap around; no file is so long, but sh_offset may say so.   *)
FitsUnlessFarTarget ==
  Formatted /\ ~FarTarget =>
    /\ line.len < BufLen
    /\ \A p \in Pieces : p.chars = p.width \/ p.kind = "pad"

(* A blank parts the mnemonic from the operands, although '\t' only pads   *)
(* up to a column: a mnemonic may reach that column only with both marks.  *)
MnemonicSeparated ==
  Formatted => \/ \A p \in Pieces : p.kind = "pad" /\ p.value = Tab => p.chars > 0
               \/ Marks = {"aq", "rl"}
=============================================================================
