-------------------------------- MODULE RvAsm --------------------------------
(***************************************************************************)
(* What a line of the listing means: the reference that the disassembler   *)
(* is held against, taken from the RISC-V instruction formats and not from *)
(* the program.  A word is the set of its bits that are one.  An entry     *)
(* gives an instruction's fixed bits and, for each operand of its line,    *)
(* the kind, the values it may have and where their bits go.               *)
(***************************************************************************)
EXTENDS Integers, Sequences, FiniteSetsExt

(* Bit 31 is the sign, in 32 bits.                                         *)
BitOf(v, k) == IF k = 31 THEN (IF v < 0 THEN 1 ELSE 0) ELSE (v \div 2^k) % 2

(* The one bits of a word; a 16-bit word has none from bit 16 on.          *)
BitsOf(w) == {k \in 0 .. 31 : BitOf(w, k) = 1}

(* A layout is a set of <<bit of the word, width, bit of the value>>.      *)
Place(v, layout) ==
  UNION {{f[1] + j : j \in {i \in 0 .. f[2] - 1 : BitOf(v, f[3] + i) = 1}} : f \in layout}

Field(lo, width, v) == Place(v, {<<lo, width, 0>>})

(* The int32_t whose bits these are.                                       *)
ToWord(bits) ==
  SumSet({2^k : k \in bits \ {31}}) + IF 31 \in bits THEN (-1073741824) * 2 ELSE 0

-----------------------------------------------------------------------------
(* Operands: values lo, lo + step, ... below hi, but not those in `but`.   *)
Operand(kind, lo, hi, step, layout) ==
  [kind |-> kind, lo |-> lo, hi |-> hi, step |-> step, but |-> {}, layout |-> layout]

X(lo)  == Operand("x", 0, 32, 1, {<<lo, 5, 0>>})
F(lo)  == Operand("f", 0, 32, 1, {<<lo, 5, 0>>})
XC(lo) == Operand("x", 8, 16, 1, {<<lo, 3, 0>>})
FC(lo) == Operand("f", 8, 16, 1, {<<lo, 3, 0>>})

(* An operand that is printed although the instruction implies it.         *)
Only(kind, v) == Operand(kind, v, v + 1, 1, {})

NonZero(o) == [o EXCEPT !.but = {0}]

Rd == X(7)  Rs1 == X(15)  Rs2 == X(20)
Fd == F(7)  Fs1 == F(15)  Fs2 == F(20)  Fs3 == F(27)

Rm      == [Operand("rm", 0, 8, 1, {<<12, 3, 0>>}) EXCEPT !.but = {5, 6}]
Csr     == Operand("csr", 0, 4096, 1, {<<20, 12, 0>>})
Zimm    == Operand("num", 0, 32, 1, {<<15, 5, 0>>})
Pred    == Operand("fence", 0, 16, 1, {<<24, 4, 0>>})
Succ    == Operand("fence", 0, 16, 1, {<<20, 4, 0>>})
Sh(w)   == Operand("imm", 0, 2^w, 1, {<<20, w, 0>>})

SignedImm(width, step, layout) ==
  Operand("imm", -(2^(width - 1)), 2^(width - 1), step, layout)
UnsignedImm(width, step, layout) == Operand("imm", 0, 2^width, step, layout)

ImmI == SignedImm(12, 1, {<<20, 12, 0>>})
ImmS == SignedImm(12, 1, {<<25, 7, 5>>, <<7, 5, 0>>})
ImmB == SignedImm(13, 2, {<<31, 1, 12>>, <<25, 6, 5>>, <<8, 4, 1>>, <<7, 1, 11>>})
ImmJ == SignedImm(21, 2, {<<31, 1, 20>>, <<21, 10, 1>>, <<20, 1, 11>>, <<12, 8, 12>>})
ImmU == Operand("imm", (-1073741824) * 2, 2147479553, 4096, {<<12, 20, 12>>})

CImm    == SignedImm(6, 1, {<<12, 1, 5>>, <<2, 5, 0>>})
CShamt  == NonZero(UnsignedImm(6, 1, {<<12, 1, 5>>, <<2, 5, 0>>}))
CImmLui == NonZero(SignedImm(18, 4096, {<<12, 1, 17>>, <<2, 5, 12>>}))
CImm16  == NonZero(SignedImm(10, 16, {<<12, 1, 9>>, <<6, 1, 4>>, <<5, 1, 6>>, <<3, 2, 7>>, <<2, 1, 5>>}))
CImm4   == NonZero(UnsignedImm(10, 4, {<<11, 2, 4>>, <<7, 4, 6>>, <<6, 1, 2>>, <<5, 1, 3>>}))
CImmJ   == SignedImm(12, 2, {<<12, 1, 11>>, <<11, 1, 4>>, <<9, 2, 8>>, <<8, 1, 10>>,
                             <<7, 1, 6>>, <<6, 1, 7>>, <<3, 3, 1>>, <<2, 1, 5>>})
CImmB   == SignedImm(9, 2, {<<12, 1, 8>>, <<10, 2, 3>>, <<5, 2, 6>>, <<3, 2, 1>>, <<2, 1, 5>>})
CImmW   == UnsignedImm(7, 4, {<<10, 3, 3>>, <<6, 1, 2>>, <<5, 1, 6>>})
CImmD   == UnsignedImm(8, 8, {<<10, 3, 3>>, <<5, 2, 6>>})
CImmQ   == UnsignedImm(9, 16, {<<11, 2, 4>>, <<10, 1, 8>>, <<5, 2, 6>>})
CImmLwsp == UnsignedImm(8, 4, {<<12, 1, 5>>, <<4, 3, 2>>, <<2, 2, 6>>})
CImmLdsp == UnsignedImm(9, 8, {<<12, 1, 5>>, <<5, 2, 3>>, <<2, 3, 6>>})
CImmLqsp == UnsignedImm(10, 16, {<<12, 1, 5>>, <<6, 1, 4>>, <<2, 4, 6>>})
CImmSwsp == UnsignedImm(8, 4, {<<9, 4, 2>>, <<7, 2, 6>>})
CImmSdsp == UnsignedImm(9, 8, {<<10, 3, 3>>, <<7, 3, 6>>})
CImmSqsp == UnsignedImm(10, 16, {<<11, 2, 4>>, <<7, 4, 6>>})

-----------------------------------------------------------------------------
(***************************************************************************)
(* The instructions.  `fixed` are the one bits that no operand places;     *)
(* .aq and .rl are marks on the name that place a bit each.  A compressed  *)
(* instruction may belong to one of the widths only.                       *)
(***************************************************************************)
Insn(name, fixed, args) ==
  [name |-> name, fixed |-> fixed, args |-> args, marked |-> FALSE, isas |-> {"rv32", "rv64"}]

Code(opcode, f3, f7) ==
  {0, 1} \cup Field(2, 5, opcode) \cup Field(12, 3, f3) \cup Field(25, 7, f7)

(* Instructions that share an opcode and their operands: T is a set of     *)
(* <<name, funct3>> or of <<name, funct3, funct7>>.                        *)
ByFunct3(opcode, args, T) == {Insn(<<t[1]>>, Code(opcode, t[2], 0), args) : t \in T}
ByFunct7(opcode, args, T) == {Insn(<<t[1]>>, Code(opcode, t[2], t[3]), args) : t \in T}

Jumps == {Insn(<<"jal">>, Code(27, 0, 0), <<Rd, ImmJ>>), Insn(<<"jalr">>, Code(25, 0, 0), <<Rd, Rs1, ImmI>>)}

Branches ==
  ByFunct3(24, <<Rs1, Rs2, ImmB>>,
    {<<"beq", 0>>, <<"bne", 1>>, <<"blt", 4>>, <<"bge", 5>>, <<"bltu", 6>>, <<"bgeu", 7>>})

Loads ==
  ByFunct3(0, <<Rd, ImmI, Rs1>>,
    {<<"lb", 0>>, <<"lh", 1>>, <<"lw", 2>>, <<"ld", 3>>, <<"lbu", 4>>, <<"lhu", 5>>,
     <<"lwu", 6>>, <<"ldu", 7>>})
LoadQuad    == ByFunct3(3, <<Rd, ImmI, Rs1>>, {<<"lq", 2>>})
Stores      == ByFunct3(8, <<Rs2, ImmS, Rs1>>,
                 {<<"sb", 0>>, <<"sh", 1>>, <<"sw", 2>>, <<"sd", 3>>, <<"sq", 4>>})
FloatLoads  == ByFunct3(1, <<Fd, ImmI, Rs1>>, {<<"flw", 2>>, <<"fld", 3>>, <<"flq", 4>>})
FloatStores == ByFunct3(9, <<Fs2, ImmS, Rs1>>, {<<"fsw", 2>>, <<"fsd", 3>>, <<"fsq", 4>>})

Uppers == {Insn(<<"lui">>, Code(13, 0, 0), <<Rd, ImmU>>), Insn(<<"auipc">>, Code(5, 0, 0), <<Rd, ImmU>>)}

Immediates ==
  ByFunct3(4, <<Rd, Rs1, ImmI>>,
    {<<"addi", 0>>, <<"slti", 2>>, <<"sltiu", 3>>, <<"xori", 4>>, <<"ori", 6>>, <<"andi", 7>>})
Immediates32 == ByFunct3(6, <<Rd, Rs1, ImmI>>, {<<"addiw", 0>>})
Immediates64 == ByFunct3(22, <<Rd, Rs1, ImmI>>, {<<"addid", 0>>})

Shifts   == ByFunct7(4, <<Rd, Rs1, Sh(6)>>, {<<"slli", 1, 0>>, <<"srli", 5, 0>>, <<"srai", 5, 32>>})
Shifts32 == ByFunct7(6, <<Rd, Rs1, Sh(5)>>, {<<"slliw", 1, 0>>, <<"srliw", 5, 0>>, <<"sraiw", 5, 32>>})
Shifts64 == ByFunct7(22, <<Rd, Rs1, Sh(6)>>, {<<"sllid", 1, 0>>, <<"srlid", 5, 0>>, <<"sraid", 5, 32>>})

Alu ==
  ByFunct7(12, <<Rd, Rs1, Rs2>>,
    {<<"add", 0, 0>>, <<"sub", 0, 32>>, <<"sll", 1, 0>>, <<"slt", 2, 0>>, <<"sltu", 3, 0>>,
     <<"xor", 4, 0>>, <<"srl", 5, 0>>, <<"sra", 5, 32>>, <<"or", 6, 0>>, <<"and", 7, 0>>,
     <<"mul", 0, 1>>, <<"mulh", 1, 1>>, <<"mulhsu", 2, 1>>, <<"mulhu", 3, 1>>,
     <<"div", 4, 1>>, <<"divu", 5, 1>>, <<"rem", 6, 1>>, <<"remu", 7, 1>>})
Alu32 ==
  ByFunct7(14, <<Rd, Rs1, Rs2>>,
    {<<"addw", 0, 0>>, <<"subw", 0, 32>>, <<"sllw", 1, 0>>, <<"srlw", 5, 0>>, <<"sraw", 5, 32>>,
     <<"mulw", 0, 1>>, <<"divw", 4, 1>>, <<"divuw", 5, 1>>, <<"remw", 6, 1>>, <<"remuw", 7, 1>>})
Alu64 ==
  ByFunct7(30, <<Rd, Rs1, Rs2>>,
    {<<"addd", 0, 0>>, <<"subd", 0, 32>>, <<"slld", 1, 0>>, <<"srld", 5, 0>>, <<"srad", 5, 32>>,
     <<"muld", 0, 1>>, <<"divd", 4, 1>>, <<"divud", 5, 1>>, <<"remd", 6, 1>>, <<"remud", 7, 1>>})

AtomicNames ==
  {<<"amoadd", 0>>, <<"amoswap", 1>>, <<"sc", 3>>, <<"amoxor", 4>>, <<"amoor", 8>>,
   <<"amoand", 12>>, <<"amomin", 16>>, <<"amomax", 20>>, <<"amominu", 24>>, <<"amomaxu", 28>>}

AtomicWidths == {<<"w", 2>>, <<"d", 3>>, <<"q", 4>>}

Marked(name, width, f5, args) ==
  [Insn(<<name, width[1]>>, Code(11, width[2], f5 * 4), args) EXCEPT !.marked = TRUE]

Atomics ==
  {Marked(a[1], width, a[2], <<Rd, Rs2, Rs1>>) : a \in AtomicNames, width \in AtomicWidths}
  \cup {Marked("lr", width, 2, <<Rd, Rs1>>) : width \in AtomicWidths}

(* ecall and its like are told apart by the twelve bits of the CSR field.  *)
Imm12(v) == Code(28, 0, 0) \cup Field(20, 12, v)

BareNumbers ==
  {<<"ecall", 0>>, <<"ebreak", 1>>, <<"uret", 2>>, <<"sret", 258>>, <<"wfi", 261>>,
   <<"hret", 514>>, <<"mret", 770>>, <<"dret", 1970>>}

Environment == {Insn(<<b[1]>>, Imm12(b[2]), << >>) : b \in BareNumbers}

Fences ==
  {Insn(<<"sfence", "vm">>, Imm12(260), <<Rs1>>), Insn(<<"sfence", "vma">>, Code(28, 0, 9), <<Rs1, Rs2>>),
   Insn(<<"fence">>, Code(3, 0, 0), <<Pred, Succ>>), Insn(<<"fence", "i">>, Code(3, 1, 0), << >>)}

Csrs == ByFunct3(28, <<Rd, Csr, Rs1>>, {<<"csrrw", 1>>, <<"csrrs", 2>>, <<"csrrc", 3>>})
CsrImmediates == ByFunct3(28, <<Rd, Csr, Zimm>>, {<<"csrrwi", 5>>, <<"csrrsi", 6>>, <<"csrrci", 7>>})

-----------------------------------------------------------------------------
(* Float: every instruction exists in three precisions, in bits 25 and 26. *)
FloatFormats == {<<"s", 0>>, <<"d", 1>>, <<"q", 3>>}
IntWidths  == {<<"w", 0>>, <<"wu", 1>>, <<"l", 2>>, <<"lu", 3>>}

FCode(f5, p, f3) == Code(20, f3, f5 * 4 + p[2])

ByPrecision(args, T) ==
  {Insn(<<t[1], p[1]>>, FCode(t[2], p, t[3]), args) : t \in T, p \in FloatFormats}

FusedNames == {<<"fmadd", 16>>, <<"fmsub", 17>>, <<"fnmsub", 18>>, <<"fnmadd", 19>>}

FusedFloats ==
  {Insn(<<t[1], p[1]>>, Code(t[2], 0, p[2]), <<Rm, Fd, Fs1, Fs2, Fs3>>) :
      t \in FusedNames, p \in FloatFormats}
FloatAlu == ByPrecision(<<Rm, Fd, Fs1, Fs2>>,
              {<<"fadd", 0, 0>>, <<"fsub", 1, 0>>, <<"fmul", 2, 0>>, <<"fdiv", 3, 0>>})
FloatSigns == ByPrecision(<<Fd, Fs1, Fs2>>,
                {<<"fsgnj", 4, 0>>, <<"fsgnjn", 4, 1>>, <<"fsgnjx", 4, 2>>, <<"fmin", 5, 0>>, <<"fmax", 5, 1>>})
FloatCompares == ByPrecision(<<Rd, Fs1, Fs2>>, {<<"fle", 20, 0>>, <<"flt", 20, 1>>, <<"feq", 20, 2>>})
FloatRoots    == ByPrecision(<<Rm, Fd, Fs1>>, {<<"fsqrt", 11, 0>>})
FloatClasses  == ByPrecision(<<Rd, Fs1>>, {<<"fclass", 28, 1>>})
FloatMoves ==
  {Insn(<<"fmv", "x", p[1]>>, FCode(28, p, 0), <<Rd, Fs1>>) : p \in FloatFormats}
  \cup {Insn(<<"fmv", p[1], "x">>, FCode(30, p, 0), <<Fd, Rs1>>) : p \in FloatFormats}

(* Conversions, the operand's format in the place of rs2.                  *)
Conversion(to, from, f5, p, k, args) ==
  Insn(<<"fcvt", to, from>>, FCode(f5, p, 0) \cup Field(20, 5, k), args)

FloatToFloat ==
  {Conversion(pq[1][1], pq[2][1], 8, pq[1], pq[2][2], <<Rm, Fd, Fs1>>) :
      pq \in {x \in FloatFormats \X FloatFormats : x[1] # x[2]}}
FloatToInt ==
  {Conversion(i[1], p[1], 24, p, i[2], <<Rm, Rd, Fs1>>) : i \in IntWidths, p \in FloatFormats}
IntToFloat ==
  {Conversion(p[1], i[1], 26, p, i[2], <<Rm, Fd, Rs1>>) : i \in IntWidths, p \in FloatFormats}

-----------------------------------------------------------------------------
(* Pseudo-instructions: another instruction with some operands fixed.      *)
Pseudo(name, fixed, args) == Insn(<<name>>, fixed, args)
CsrCode(f3, csr) == Code(28, f3, 0) \cup Field(20, 12, csr)

PseudoAlu == {
  Pseudo("nop", Code(4, 0, 0), << >>),
  Pseudo("mv", Code(4, 0, 0), <<Rd, Rs1>>),
  Pseudo("seqz", Code(4, 3, 0) \cup Field(20, 12, 1), <<Rd, Rs1>>),
  Pseudo("not", Code(4, 4, 0) \cup Field(20, 12, 4095), <<Rd, Rs1>>),
  Insn(<<"sext", "w">>, Code(6, 0, 0), <<Rd, Rs1>>),
  Pseudo("neg", Code(12, 0, 32), <<Rd, Rs2>>),  Pseudo("negw", Code(14, 0, 32), <<Rd, Rs2>>),
  Pseudo("snez", Code(12, 3, 0), <<Rd, Rs2>>),  Pseudo("sgtz", Code(12, 2, 0), <<Rd, Rs2>>),
  Pseudo("sltz", Code(12, 2, 0), <<Rd, Rs1>>) }

PseudoTransfers == {
  Pseudo("j", Code(27, 0, 0), <<ImmJ>>),
  Pseudo("ret", Code(25, 0, 0) \cup Field(15, 5, 1), << >>),
  Pseudo("jr", Code(25, 0, 0), <<Rs1>>),
  Pseudo("beqz", Code(24, 0, 0), <<Rs1, ImmB>>),  Pseudo("bnez", Code(24, 1, 0), <<Rs1, ImmB>>),
  Pseudo("bltz", Code(24, 4, 0), <<Rs1, ImmB>>),  Pseudo("bgez", Code(24, 5, 0), <<Rs1, ImmB>>),
  Pseudo("bgtz", Code(24, 4, 0), <<Rs2, ImmB>>),  Pseudo("blez", Code(24, 5, 0), <<Rs2, ImmB>>),
  Pseudo("bgt", Code(24, 4, 0), <<Rs2, Rs1, ImmB>>), Pseudo("ble", Code(24, 5, 0), <<Rs2, Rs1, ImmB>>),
  Pseudo("bgtu", Code(24, 6, 0), <<Rs2, Rs1, ImmB>>), Pseudo("bleu", Code(24, 7, 0), <<Rs2, Rs1, ImmB>>) }

PseudoCsr ==
  {Pseudo(t[1], CsrCode(2, t[2]), <<Rd>>) : t \in
     {<<"frflags", 1>>, <<"frrm", 2>>, <<"frcsr", 3>>, <<"rdcycle", 3072>>, <<"rdtime", 3073>>,
      <<"rdinstret", 3074>>, <<"rdcycleh", 3200>>, <<"rdtimeh", 3201>>, <<"rdinstreth", 3202>>}}
  \cup {Pseudo(t[1], CsrCode(1, t[2]), <<Rd, Rs1>>) :
          t \in {<<"fsflags", 1>>, <<"fsrm", 2>>, <<"fscsr", 3>>}}
  \cup {Pseudo(t[1], CsrCode(5, t[2]), <<Rd, Zimm>>) : t \in {<<"fsflagsi", 1>>, <<"fsrmi", 2>>}}

(* A sign operation of a register with itself.                             *)
PseudoFloat ==
  ByPrecision(<<Fd, Operand("f", 0, 32, 1, {<<15, 5, 0>>, <<20, 5, 0>>})>>,
              {<<"fmv", 4, 0>>, <<"fneg", 4, 1>>, <<"fabs", 4, 2>>})

BasicIntegers ==
  Jumps \cup Branches \cup Loads \cup LoadQuad \cup Stores \cup Uppers
  \cup Immediates \cup Immediates32 \cup Immediates64 \cup Shifts \cup Shifts32 \cup Shifts64
  \cup Alu \cup Alu32 \cup Alu64 \cup Atomics \cup Environment \cup Fences \cup Csrs \cup CsrImmediates

BasicFloats ==
  FloatLoads \cup FloatStores \cup FusedFloats \cup FloatAlu \cup FloatSigns \cup FloatCompares
  \cup FloatRoots \cup FloatClasses \cup FloatMoves \cup FloatToFloat \cup FloatToInt \cup IntToFloat

Basic == BasicIntegers \cup BasicFloats

Wide == Basic \cup PseudoAlu \cup PseudoTransfers \cup PseudoCsr \cup PseudoFloat

-----------------------------------------------------------------------------
(* Compressed instructions, by quadrant; their lines also show what the    *)
(* short form implies.                                                     *)
zero == Only("x", 0)  ra == Only("x", 1)  sp == Only("x", 2)  none == Only("imm", 0)

RdC      == NonZero(X(7))
Rs2C     == NonZero(X(2))
RdLui    == [RdC EXCEPT !.but = {0, 2}]
CImmAddi == NonZero(CImm)

CInsn(name, quadrant, f3, more, args) ==
  Insn(<<"c", name>>, Field(0, 2, quadrant) \cup Field(13, 3, f3) \cup more, args)

For(isa, insn) == [insn EXCEPT !.isas = {isa}]

CLoadsAndStores == {
  CInsn("addi4spn", 0, 0, {}, <<XC(2), sp, CImm4>>),
  CInsn("fld", 0, 1, {}, <<FC(2), CImmD, XC(7)>>),    CInsn("lw", 0, 2, {}, <<XC(2), CImmW, XC(7)>>),
  For("rv32", CInsn("flw", 0, 3, {}, <<FC(2), CImmW, XC(7)>>)),
  For("rv64", CInsn("ld", 0, 3, {}, <<XC(2), CImmD, XC(7)>>)),
  CInsn("fsd", 0, 5, {}, <<FC(2), CImmD, XC(7)>>),    CInsn("sw", 0, 6, {}, <<XC(2), CImmW, XC(7)>>),
  For("rv32", CInsn("fsw", 0, 7, {}, <<FC(2), CImmW, XC(7)>>)),
  For("rv64", CInsn("sd", 0, 7, {}, <<XC(2), CImmD, XC(7)>>)),
  CInsn("fldsp", 2, 1, {}, <<F(7), CImmLdsp, sp>>),   CInsn("lwsp", 2, 2, {}, <<RdC, CImmLwsp, sp>>),
  For("rv32", CInsn("flwsp", 2, 3, {}, <<F(7), CImmLwsp, sp>>)),
  For("rv64", CInsn("ldsp", 2, 3, {}, <<RdC, CImmLdsp, sp>>)),
  CInsn("fsdsp", 2, 5, {}, <<F(2), CImmSdsp, sp>>),   CInsn("swsp", 2, 6, {}, <<X(2), CImmSwsp, sp>>),
  For("rv32", CInsn("fswsp", 2, 7, {}, <<F(2), CImmSwsp, sp>>)),
  For("rv64", CInsn("sdsp", 2, 7, {}, <<X(2), CImmSdsp, sp>>)) }

CArithmetic == {
  CInsn("nop", 1, 0, {}, << >>),
  CInsn("addi", 1, 0, {}, <<RdC, RdC, CImmAddi>>),
  For("rv64", CInsn("addiw", 1, 1, {}, <<RdC, RdC, CImm>>)),
  CInsn("li", 1, 2, {}, <<RdC, zero, CImm>>),
  CInsn("addi16sp", 1, 3, Field(7, 5, 2), <<sp, sp, CImm16>>),
  CInsn("lui", 1, 3, {}, <<RdLui, CImmLui>>),
  CInsn("srli", 1, 4, {}, <<XC(7), XC(7), CShamt>>),
  CInsn("srai", 1, 4, {10}, <<XC(7), XC(7), CShamt>>),
  CInsn("andi", 1, 4, {11}, <<XC(7), XC(7), CImm>>),
  CInsn("slli", 2, 0, {}, <<RdC, RdC, CShamt>>),
  CInsn("mv", 2, 4, {}, <<RdC, Rs2C, zero>>),
  CInsn("add", 2, 4, {12}, <<RdC, RdC, Rs2C>>) }

CAluNames ==
  {<<"sub", {}>>, <<"xor", {5}>>, <<"or", {6}>>, <<"and", {5, 6}>>, <<"subw", {12}>>, <<"addw", {5, 12}>>}

CAlu == {CInsn(t[1], 1, 4, {10, 11} \cup t[2], <<XC(7), XC(7), XC(2)>>) : t \in CAluNames}

CTransfers == {
  CInsn("j", 1, 5, {}, <<zero, CImmJ>>),
  For("rv32", CInsn("jal", 1, 1, {}, <<ra, CImmJ>>)),
  CInsn("beqz", 1, 6, {}, <<XC(7), zero, CImmB>>), CInsn("bnez", 1, 7, {}, <<XC(7), zero, CImmB>>),
  CInsn("jr", 2, 4, {}, <<zero, RdC, none>>), CInsn("jalr", 2, 4, {12}, <<ra, RdC, none>>),
  CInsn("ebreak", 2, 4, {12}, << >>) }

Compressed == CLoadsAndStores \cup CArithmetic \cup CAlu \cup CTransfers

-----------------------------------------------------------------------------
(* May the operand o have the value v?                                     *)
Allows(o, v) == o.lo <= v /\ v < o.hi /\ v % o.step = 0 /\ v \notin o.but

Span(layout) == UNION {f[1] .. f[1] + f[2] - 1 : f \in layout}

MarkBits(S) == (IF "aq" \in S THEN {26} ELSE {}) \cup (IF "rl" \in S THEN {25} ELSE {})

Instructions == Wide \cup Compressed

(* Does the word made of these bits hold v where o has its place?          *)
Holds(o, v, bits) == Allows(o, v) /\ Place(v, o.layout) = bits \cap Span(o.layout)

(* Are the bits without a place those of e, with these marks?              *)
Exactly(e, marks, bits) ==
  /\ marks # {} => e.marked
  /\ bits \ UNION {Span(e.args[k].layout) : k \in DOMAIN e.args} = e.fixed \cup MarkBits(marks)

(* Does a line with this name, marks and arguments, a sequence of <<kind,  *)
(* value>>, mean the word made of exactly these bits?                      *)
Means(name, marks, args, bits) ==
  \E e \in Instructions :
    /\ e.name = name /\ Exactly(e, marks, bits)
    /\ DOMAIN args = DOMAIN e.args
    /\ \A k \in DOMAIN args :
         args[k][1] = e.args[k].kind /\ Holds(e.args[k], args[k][2], bits)

(* Is it the word of an instruction of files of this width?  The words of  *)
(* pseudo-instructions are words of other instructions, too.               *)
Legal(isa, bits) ==
  \E e \in Basic \cup Compressed :
    /\ isa \in e.isas
    /\ \E marks \in SUBSET {"aq", "rl"} : Exactly(e, marks, bits)
    /\ \A k \in DOMAIN e.args :
         \E v \in e.args[k].lo .. e.args[k].hi - 1 : Holds(e.args[k], v, bits)

(* The word of an entry whose operands have the values v.                  *)
Encode(e, marks, v) ==
  ToWord(e.fixed \cup MarkBits(marks) \cup UNION {Place(v[k], e.args[k].layout) : k \in DOMAIN v})
=============================================================================
