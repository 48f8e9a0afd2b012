--------------------------- MODULE OperandProofs ----------------------------
(***************************************************************************)
(* Fields of every word.  The program puts each operand together from bit  *)
(* fields by shifts; the formats of the instruction set say which bits of  *)
(* the word are which bits of the operand.  The two agree, the operand     *)
(* that the program reads is the only one with these bits, the operands    *)
(* that a format of the program shows are those of the entry that the word *)
(* is of, and the fields that the switches look at hold what that entry    *)
(* fixes.                                                                  *)
(***************************************************************************)
EXTENDS RvDecode, RvOps, RvAsm, RvPseudo, SequenceTheorems, TLAPS

(* 32-bit words as an int32_t holds them, and 16-bit words.                *)
Word     == {w \in Int : (-1073741824) * 2 <= w /\ w <= 2147483647}
Halfword == {w \in Nat : w <= 65535}

(* The value v is one that the operand o may have, and every field of o in *)
(* the word holds its bits of v.  (Values that an instruction reserves,    *)
(* o.but, are not the extractors' business.)                               *)
Reads(o, v, inst) ==
  /\ o.lo <= v /\ v < o.hi /\ (v - o.lo) % o.step = 0
  /\ \A f \in o.layout : Bits(v, f[3], f[2]) = Bits(inst, f[1], f[2])

-----------------------------------------------------------------------------
(* Immediates of I-type instructions.                                      *)
LEMMA ImmIRead ==
  ASSUME NEW inst \in Word, NEW v \in Int
  PROVE  Reads(ImmI, v, inst) <=> v = operand_imm12(inst)
<1> DEFINE a == Bits(inst, 20, 12)
<1>1. /\ ImmI.lo = -2048 /\ ImmI.hi = 2048 /\ ImmI.step = 1
      /\ ImmI.layout = {<<20, 12, 0>>}
  BY SMT DEF ImmI, SignedImm, Operand
<1>2. Reads(ImmI, v, inst) <=>
        /\ -2048 <= v /\ v < 2048 /\ Bits(v, 0, 12) = a
  BY <1>1, SMT DEF Reads
<1>3. /\ a \in 0 .. 4095
      /\ operand_imm12(inst) = (IF a < 2048 THEN a ELSE a - 4096)
  BY SMT DEF Word, operand_imm12, Bits, SignedFrom
<1> HIDE DEF a
<1>4. ASSUME v = (IF a < 2048 THEN a ELSE a - 4096)
      PROVE  /\ -2048 <= v /\ v < 2048 /\ Bits(v, 0, 12) = a
  <2>1. -2048 <= v
    BY <1>3, <1>4, SMT
  <2>2. v < 2048
    BY <1>3, <1>4, SMT
  <2>3. Bits(v, 0, 12) = a
    BY <1>3, <1>4, SMT DEF Bits
  <2> QED
    BY SMT, <2>1, <2>2, <2>3
<1>5. ASSUME /\ -2048 <= v /\ v < 2048 /\ Bits(v, 0, 12) = a
      PROVE  v = (IF a < 2048 THEN a ELSE a - 4096)
  <2>1. v = IF a < 2048 THEN a ELSE a - 4096
    BY <1>5, SMT DEF Bits
  <2> QED
    BY <1>3, <2>1, SMT
<1> QED
  BY <1>2, <1>3, <1>4, <1>5, SMT

(* Of stores.                                                              *)
LEMMA ImmSRead ==
  ASSUME NEW inst \in Word, NEW v \in Int
  PROVE  Reads(ImmS, v, inst) <=> v = operand_simm12(inst)
<1> DEFINE a == Bits(inst, 25, 7)  b == Bits(inst, 7, 5)
<1>1. /\ ImmS.lo = -2048 /\ ImmS.hi = 2048 /\ ImmS.step = 1
      /\ ImmS.layout = {<<25, 7, 5>>, <<7, 5, 0>>}
  BY SMT DEF ImmS, SignedImm, Operand
<1>2. Reads(ImmS, v, inst) <=>
        /\ -2048 <= v /\ v < 2048 /\ Bits(v, 5, 7) = a /\ Bits(v, 0, 5) = b
  BY <1>1, SMT DEF Reads
<1>3. /\ a \in 0 .. 127 /\ b \in 0 .. 31
      /\ operand_simm12(inst) = (IF a < 64 THEN a ELSE a - 128) * 32 + b
  BY SMT DEF Word, operand_simm12, Bits, SignedFrom
<1> HIDE DEF a, b
<1>4. ASSUME v = (IF a < 64 THEN a ELSE a - 128) * 32 + b
      PROVE  /\ -2048 <= v /\ v < 2048 /\ Bits(v, 5, 7) = a /\ Bits(v, 0, 5) = b
  <2>1. -2048 <= v
    BY <1>3, <1>4, SMT
  <2>2. v < 2048
    BY <1>3, <1>4, SMT
  <2>3. Bits(v, 5, 7) = a
    BY <1>3, <1>4, SMT DEF Bits
  <2>4. Bits(v, 0, 5) = b
    BY <1>3, <1>4, SMT DEF Bits
  <2> QED
    BY SMT, <2>1, <2>2, <2>3, <2>4
<1>5. ASSUME /\ -2048 <= v /\ v < 2048 /\ Bits(v, 5, 7) = a /\ Bits(v, 0, 5) = b
      PROVE  v = (IF a < 64 THEN a ELSE a - 128) * 32 + b
  <2>1. v = b + 32 * (v \div 32)
    BY <1>5, SMT DEF Bits
  <2>2. (v \div 32) = IF a < 64 THEN a ELSE a - 128
    BY <1>5, SMT DEF Bits
  <2> QED
    BY <1>3, <2>1, <2>2, SMT
<1> QED
  BY <1>2, <1>3, <1>4, <1>5, SMT

(* Of branches.                                                            *)
LEMMA ImmBRead ==
  ASSUME NEW inst \in Word, NEW v \in Int
  PROVE  Reads(ImmB, v, inst) <=> v = operand_sbimm12(inst)
<1> DEFINE a == Bits(inst, 31, 1)  b == Bits(inst, 25, 6)  c == Bits(inst, 8, 4)
           d == Bits(inst, 7, 1)
<1>1. /\ ImmB.lo = -4096 /\ ImmB.hi = 4096 /\ ImmB.step = 2
      /\ ImmB.layout = {<<31, 1, 12>>, <<25, 6, 5>>, <<8, 4, 1>>, <<7, 1, 11>>}
  BY SMT DEF ImmB, SignedImm, Operand
<1>2. Reads(ImmB, v, inst) <=>
        /\ -4096 <= v /\ v < 4096 /\ v % 2 = 0 /\ Bits(v, 12, 1) = a /\ Bits(v, 5, 6) = b
        /\ Bits(v, 1, 4) = c /\ Bits(v, 11, 1) = d
  BY <1>1, SMT DEF Reads
<1>3. /\ a \in 0 .. 1 /\ b \in 0 .. 63 /\ c \in 0 .. 15 /\ d \in 0 .. 1
      /\ operand_sbimm12(inst) = (-a) * 4096 + b * 32 + c * 2 + d * 2048
  BY SMT DEF Word, operand_sbimm12, Bits, Sign
<1> HIDE DEF a, b, c, d
<1>4. ASSUME v = (-a) * 4096 + b * 32 + c * 2 + d * 2048
      PROVE  /\ -4096 <= v /\ v < 4096 /\ v % 2 = 0 /\ Bits(v, 12, 1) = a /\ Bits(v, 5, 6) = b
             /\ Bits(v, 1, 4) = c /\ Bits(v, 11, 1) = d
  <2>1. -4096 <= v
    BY <1>3, <1>4, SMT
  <2>2. v < 4096
    BY <1>3, <1>4, SMT
  <2>3. v % 2 = 0
    BY <1>3, <1>4, SMT
  <2>4. Bits(v, 12, 1) = a
    BY <1>3, <1>4, SMT DEF Bits
  <2>5. Bits(v, 5, 6) = b
    BY <1>3, <1>4, SMT DEF Bits
  <2>6. Bits(v, 1, 4) = c
    BY <1>3, <1>4, SMT DEF Bits
  <2>7. Bits(v, 11, 1) = d
    BY <1>3, <1>4, SMT DEF Bits
  <2> QED
    BY SMT, <2>1, <2>2, <2>3, <2>4, <2>5, <2>6, <2>7
<1>5. ASSUME /\ -4096 <= v /\ v < 4096 /\ v % 2 = 0 /\ Bits(v, 12, 1) = a /\ Bits(v, 5, 6) = b
             /\ Bits(v, 1, 4) = c /\ Bits(v, 11, 1) = d
      PROVE  v = (-a) * 4096 + b * 32 + c * 2 + d * 2048
  <2>1. v = 2 * (v \div 2)
    BY <1>5, SMT
  <2>2. (v \div 2) = c + 16 * (v \div 32)
    BY <1>5, SMT DEF Bits
  <2>3. (v \div 32) = b + 64 * (v \div 2048)
    BY <1>5, SMT DEF Bits
  <2>4. (v \div 2048) = d + 2 * (v \div 4096)
    BY <1>5, SMT DEF Bits
  <2>5. v \div 4096 = -a
    BY <1>5, SMT DEF Bits
  <2> QED
    BY <1>3, <2>1, <2>2, <2>3, <2>4, <2>5, SMT
<1> QED
  BY <1>2, <1>3, <1>4, <1>5, SMT

(* Of jal.                                                                 *)
LEMMA ImmJRead ==
  ASSUME NEW inst \in Word, NEW v \in Int
  PROVE  Reads(ImmJ, v, inst) <=> v = operand_jimm20(inst)
<1> DEFINE a == Bits(inst, 31, 1)  b == Bits(inst, 21, 10)  c == Bits(inst, 20, 1)
           d == Bits(inst, 12, 8)
<1>1. /\ ImmJ.lo = -1048576 /\ ImmJ.hi = 1048576 /\ ImmJ.step = 2
      /\ ImmJ.layout = {<<31, 1, 20>>, <<21, 10, 1>>, <<20, 1, 11>>, <<12, 8, 12>>}
  BY SMT DEF ImmJ, SignedImm, Operand
<1>2. Reads(ImmJ, v, inst) <=>
        /\ -1048576 <= v /\ v < 1048576 /\ v % 2 = 0 /\ Bits(v, 20, 1) = a /\ Bits(v, 1, 10) = b
        /\ Bits(v, 11, 1) = c /\ Bits(v, 12, 8) = d
  BY <1>1, SMT DEF Reads
<1>3. /\ a \in 0 .. 1 /\ b \in 0 .. 1023 /\ c \in 0 .. 1 /\ d \in 0 .. 255
      /\ operand_jimm20(inst) = (-a) * 1048576 + b * 2 + c * 2048 + d * 4096
  BY SMT DEF Word, operand_jimm20, Bits, Sign
<1> HIDE DEF a, b, c, d
<1>4. ASSUME v = (-a) * 1048576 + b * 2 + c * 2048 + d * 4096
      PROVE  /\ -1048576 <= v /\ v < 1048576 /\ v % 2 = 0 /\ Bits(v, 20, 1) = a
             /\ Bits(v, 1, 10) = b /\ Bits(v, 11, 1) = c /\ Bits(v, 12, 8) = d
  <2>1. -1048576 <= v
    BY <1>3, <1>4, SMT
  <2>2. v < 1048576
    BY <1>3, <1>4, SMT
  <2>3. v % 2 = 0
    BY <1>3, <1>4, SMT
  <2>4. v \div 2 = (-a) * 524288 + b + c * 1024 + d * 2048
    BY <1>3, <1>4, SMT
  <2>5. v \div 2048 = (-a) * 512 + c + d * 2
    BY <1>3, <1>4, SMT
  <2>6. Bits(v, 20, 1) = a
    BY <1>3, <1>4, SMT DEF Bits
  <2>7. Bits(v, 1, 10) = b
    BY <1>3, <2>4, SMT DEF Bits
  <2>8. Bits(v, 11, 1) = c
    BY <1>3, <2>5, SMT DEF Bits
  <2>9. Bits(v, 12, 8) = d
    BY <1>3, <1>4, SMT DEF Bits
  <2> QED
    BY SMT, <2>1, <2>2, <2>3, <2>4, <2>5, <2>6, <2>7, <2>8, <2>9
<1>5. ASSUME /\ -1048576 <= v /\ v < 1048576 /\ v % 2 = 0 /\ Bits(v, 20, 1) = a
             /\ Bits(v, 1, 10) = b /\ Bits(v, 11, 1) = c /\ Bits(v, 12, 8) = d
      PROVE  v = (-a) * 1048576 + b * 2 + c * 2048 + d * 4096
  <2>1. v = 2 * (v \div 2)
    BY <1>5, SMT
  <2>2. (v \div 2) = b + 1024 * (v \div 2048)
    BY <1>5, SMT DEF Bits
  <2>3. (v \div 2048) = c + 2 * (v \div 4096)
    BY <1>5, SMT DEF Bits
  <2>4. (v \div 4096) = d + 256 * (v \div 1048576)
    BY <1>5, SMT DEF Bits
  <2>5. v \div 1048576 = -a
    BY <1>5, SMT DEF Bits
  <2> QED
    BY <1>3, <2>1, <2>2, <2>3, <2>4, <2>5, SMT
<1> QED
  BY <1>2, <1>3, <1>4, <1>5, SMT

(* Of lui and auipc.                                                       *)
LEMMA ImmURead ==
  ASSUME NEW inst \in Word, NEW v \in Int
  PROVE  Reads(ImmU, v, inst) <=> v = operand_imm20(inst)
<1> DEFINE a == Bits(inst, 12, 20)
<1>1. /\ ImmU.lo = (-1073741824) * 2 /\ ImmU.hi = 2147479553 /\ ImmU.step = 4096
      /\ ImmU.layout = {<<12, 20, 12>>}
  BY SMT DEF ImmU, Operand
<1>2. Reads(ImmU, v, inst) <=>
        /\ (-1073741824) * 2 <= v /\ v < 2147479553 /\ v % 4096 = 0 /\ Bits(v, 12, 20) = a
  BY <1>1, SMT DEF Reads
<1>3. /\ a \in Int /\ 0 <= a /\ a < 1048576
      /\ operand_imm20(inst) = (IF a < 524288 THEN a ELSE a - 1048576) * 4096
  BY SMT DEF Word, operand_imm20, Bits, SignedFrom
<1> HIDE DEF a
<1>4. ASSUME v = (IF a < 524288 THEN a ELSE a - 1048576) * 4096
      PROVE  /\ (-1073741824) * 2 <= v /\ v < 2147479553 /\ v % 4096 = 0 /\ Bits(v, 12, 20) = a
  <2>1. (-1073741824) * 2 <= v
    BY <1>3, <1>4, SMT
  <2>2. v < 2147479553
    BY <1>3, <1>4, SMT
  <2>3. v % 4096 = 0
    BY <1>3, <1>4, SMT
  <2>4. Bits(v, 12, 20) = a
    BY <1>3, <1>4, SMT DEF Bits
  <2> QED
    BY SMT, <2>1, <2>2, <2>3, <2>4
<1>5. ASSUME /\ (-1073741824) * 2 <= v /\ v < 2147479553 /\ v % 4096 = 0 /\ Bits(v, 12, 20) = a
      PROVE  v = (IF a < 524288 THEN a ELSE a - 1048576) * 4096
  <2>1. v = 4096 * (v \div 4096)
    BY <1>5, SMT DEF Bits
  <2>2. (v \div 4096) = IF a < 524288 THEN a ELSE a - 1048576
    BY <1>5, SMT DEF Bits
  <2> QED
    BY <1>3, <2>1, <2>2, SMT
<1> QED
  BY <1>2, <1>3, <1>4, <1>5, SMT

(* Of c.li, c.addi, c.addiw and c.andi.                                    *)
LEMMA CImmRead ==
  ASSUME NEW inst \in Halfword, NEW v \in Int
  PROVE  Reads(CImm, v, inst) <=> v = operand_cimmi(inst)
<1> DEFINE a == Bits(inst, 12, 1)  b == Bits(inst, 2, 5)
<1>1. /\ CImm.lo = -32 /\ CImm.hi = 32 /\ CImm.step = 1
      /\ CImm.layout = {<<12, 1, 5>>, <<2, 5, 0>>}
  BY SMT DEF CImm, SignedImm, Operand
<1>2. Reads(CImm, v, inst) <=>
        /\ -32 <= v /\ v < 32 /\ Bits(v, 5, 1) = a /\ Bits(v, 0, 5) = b
  BY <1>1, SMT DEF Reads
<1>3. /\ a \in 0 .. 1 /\ b \in 0 .. 31
      /\ operand_cimmi(inst) = (-a) * 32 + b
  BY SMT DEF Halfword, operand_cimmi, Bits, MinusBit
<1> HIDE DEF a, b
<1>4. v = (-a) * 32 + b =>
        /\ -32 <= v /\ v < 32 /\ Bits(v, 5, 1) = a /\ Bits(v, 0, 5) = b
  BY <1>3, SMT DEF Bits
<1>5. /\ -32 <= v /\ v < 32 /\ Bits(v, 5, 1) = a /\ Bits(v, 0, 5) = b =>
        v = (-a) * 32 + b
  BY <1>3, SMT DEF Bits
<1> QED
  BY <1>2, <1>3, <1>4, <1>5, SMT

(* Of c.slli, c.srli and c.srai.                                           *)
LEMMA CShamtRead ==
  ASSUME NEW inst \in Halfword, NEW v \in Int
  PROVE  Reads(CShamt, v, inst) <=> v = operand_cimmsh6(inst)
<1> DEFINE a == Bits(inst, 12, 1)  b == Bits(inst, 2, 5)
<1>1. /\ CShamt.lo = 0 /\ CShamt.hi = 64 /\ CShamt.step = 1
      /\ CShamt.layout = {<<12, 1, 5>>, <<2, 5, 0>>}
  BY SMT DEF CShamt, UnsignedImm, Operand, NonZero
<1>2. Reads(CShamt, v, inst) <=>
        /\ 0 <= v /\ v < 64 /\ Bits(v, 5, 1) = a /\ Bits(v, 0, 5) = b
  BY <1>1, SMT DEF Reads
<1>3. /\ a \in 0 .. 1 /\ b \in 0 .. 31
      /\ operand_cimmsh6(inst) = a * 32 + b
  BY SMT DEF Halfword, operand_cimmsh6, Bits
<1> HIDE DEF a, b
<1>4. v = a * 32 + b =>
        /\ 0 <= v /\ v < 64 /\ Bits(v, 5, 1) = a /\ Bits(v, 0, 5) = b
  BY <1>3, SMT DEF Bits
<1>5. /\ 0 <= v /\ v < 64 /\ Bits(v, 5, 1) = a /\ Bits(v, 0, 5) = b =>
        v = a * 32 + b
  BY <1>3, SMT DEF Bits
<1> QED
  BY <1>2, <1>3, <1>4, <1>5, SMT

(* Of c.lui.                                                               *)
LEMMA CImmLuiRead ==
  ASSUME NEW inst \in Halfword, NEW v \in Int
  PROVE  Reads(CImmLui, v, inst) <=> v = operand_cimmui(inst)
<1> DEFINE a == Bits(inst, 12, 1)  b == Bits(inst, 2, 5)
<1>1. /\ CImmLui.lo = -131072 /\ CImmLui.hi = 131072 /\ CImmLui.step = 4096
      /\ CImmLui.layout = {<<12, 1, 17>>, <<2, 5, 12>>}
  BY SMT DEF CImmLui, SignedImm, Operand, NonZero
<1>2. Reads(CImmLui, v, inst) <=>
        /\ -131072 <= v /\ v < 131072 /\ v % 4096 = 0 /\ Bits(v, 17, 1) = a /\ Bits(v, 12, 5) = b
  BY <1>1, SMT DEF Reads
<1>3. /\ a \in 0 .. 1 /\ b \in 0 .. 31
      /\ operand_cimmui(inst) = (-a) * 131072 + b * 4096
  BY SMT DEF Halfword, operand_cimmui, Bits, MinusBit
<1> HIDE DEF a, b
<1>4. ASSUME v = (-a) * 131072 + b * 4096
      PROVE  /\ -131072 <= v /\ v < 131072 /\ v % 4096 = 0 /\ Bits(v, 17, 1) = a
             /\ Bits(v, 12, 5) = b
  <2>1. -131072 <= v
    BY <1>3, <1>4, SMT
  <2>2. v < 131072
    BY <1>3, <1>4, SMT
  <2>3. v % 4096 = 0
    BY <1>3, <1>4, SMT
  <2>4. Bits(v, 17, 1) = a
    BY <1>3, <1>4, SMT DEF Bits
  <2>5. Bits(v, 12, 5) = b
    BY <1>3, <1>4, SMT DEF Bits
  <2> QED
    BY SMT, <2>1, <2>2, <2>3, <2>4, <2>5
<1>5. ASSUME /\ -131072 <= v /\ v < 131072 /\ v % 4096 = 0 /\ Bits(v, 17, 1) = a
             /\ Bits(v, 12, 5) = b
      PROVE  v = (-a) * 131072 + b * 4096
  <2>1. v = 4096 * (v \div 4096)
    BY <1>5, SMT DEF Bits
  <2>2. v \div 131072 = (v \div 4096) \div 32
    BY SMT
  <2>3. (v \div 4096) % 32 = b
    BY <1>5, SMT DEF Bits
  <2>4. (v \div 4096) = b + 32 * (v \div 131072)
    BY <2>2, <2>3, SMT
  <2>5. v \div 131072 = -a
    BY <1>5, SMT DEF Bits
  <2> QED
    BY <1>3, <2>1, <2>2, <2>3, <2>4, <2>5, SMT
<1> QED
  BY <1>2, <1>3, <1>4, <1>5, SMT

(* Of c.addi16sp.                                                          *)
LEMMA CImm16Read ==
  ASSUME NEW inst \in Halfword, NEW v \in Int
  PROVE  Reads(CImm16, v, inst) <=> v = operand_cimm16sp(inst)
<1> DEFINE a == Bits(inst, 12, 1)  b == Bits(inst, 6, 1)  c == Bits(inst, 5, 1)
           d == Bits(inst, 3, 2)  e == Bits(inst, 2, 1)
<1>1. /\ CImm16.lo = -512 /\ CImm16.hi = 512 /\ CImm16.step = 16
      /\ CImm16.layout = {<<12, 1, 9>>, <<6, 1, 4>>, <<5, 1, 6>>, <<3, 2, 7>>, <<2, 1, 5>>}
  BY SMT DEF CImm16, SignedImm, Operand, NonZero
<1>2. Reads(CImm16, v, inst) <=>
        /\ -512 <= v /\ v < 512 /\ v % 16 = 0 /\ Bits(v, 9, 1) = a /\ Bits(v, 4, 1) = b
        /\ Bits(v, 6, 1) = c /\ Bits(v, 7, 2) = d /\ Bits(v, 5, 1) = e
  BY <1>1, SMT DEF Reads
<1>3. /\ a \in 0 .. 1 /\ b \in 0 .. 1 /\ c \in 0 .. 1 /\ d \in 0 .. 3 /\ e \in 0 .. 1
      /\ operand_cimm16sp(inst) = (-a) * 512 + b * 16 + c * 64 + d * 128 + e * 32
  BY SMT DEF Halfword, operand_cimm16sp, Bits, MinusBit
<1> HIDE DEF a, b, c, d, e
<1>4. v = (-a) * 512 + b * 16 + c * 64 + d * 128 + e * 32 =>
        /\ -512 <= v /\ v < 512 /\ v % 16 = 0 /\ Bits(v, 9, 1) = a /\ Bits(v, 4, 1) = b
         /\ Bits(v, 6, 1) = c /\ Bits(v, 7, 2) = d /\ Bits(v, 5, 1) = e
  BY <1>3, SMT DEF Bits
<1>5. /\ -512 <= v /\ v < 512 /\ v % 16 = 0 /\ Bits(v, 9, 1) = a /\ Bits(v, 4, 1) = b
         /\ Bits(v, 6, 1) = c /\ Bits(v, 7, 2) = d /\ Bits(v, 5, 1) = e =>
        v = (-a) * 512 + b * 16 + c * 64 + d * 128 + e * 32
  BY <1>3, SMT DEF Bits
<1> QED
  BY <1>2, <1>3, <1>4, <1>5, SMT

(* Of c.addi4spn.                                                          *)
LEMMA CImm4Read ==
  ASSUME NEW inst \in Halfword, NEW v \in Int
  PROVE  Reads(CImm4, v, inst) <=> v = operand_cimm4spn(inst)
<1> DEFINE a == Bits(inst, 11, 2)  b == Bits(inst, 7, 4)  c == Bits(inst, 6, 1)
           d == Bits(inst, 5, 1)
<1>1. /\ CImm4.lo = 0 /\ CImm4.hi = 1024 /\ CImm4.step = 4
      /\ CImm4.layout = {<<11, 2, 4>>, <<7, 4, 6>>, <<6, 1, 2>>, <<5, 1, 3>>}
  BY SMT DEF CImm4, UnsignedImm, Operand, NonZero
<1>2. Reads(CImm4, v, inst) <=>
        /\ 0 <= v /\ v < 1024 /\ v % 4 = 0 /\ Bits(v, 4, 2) = a /\ Bits(v, 6, 4) = b
        /\ Bits(v, 2, 1) = c /\ Bits(v, 3, 1) = d
  BY <1>1, SMT DEF Reads
<1>3. /\ a \in 0 .. 3 /\ b \in 0 .. 15 /\ c \in 0 .. 1 /\ d \in 0 .. 1
      /\ operand_cimm4spn(inst) = a * 16 + b * 64 + c * 4 + d * 8
  BY SMT DEF Halfword, operand_cimm4spn, Bits
<1> HIDE DEF a, b, c, d
<1>4. v = a * 16 + b * 64 + c * 4 + d * 8 =>
        /\ 0 <= v /\ v < 1024 /\ v % 4 = 0 /\ Bits(v, 4, 2) = a /\ Bits(v, 6, 4) = b
         /\ Bits(v, 2, 1) = c /\ Bits(v, 3, 1) = d
  BY <1>3, SMT DEF Bits
<1>5. /\ 0 <= v /\ v < 1024 /\ v % 4 = 0 /\ Bits(v, 4, 2) = a /\ Bits(v, 6, 4) = b
         /\ Bits(v, 2, 1) = c /\ Bits(v, 3, 1) = d =>
        v = a * 16 + b * 64 + c * 4 + d * 8
  BY <1>3, SMT DEF Bits
<1> QED
  BY <1>2, <1>3, <1>4, <1>5, SMT

(* Of c.j and c.jal.                                                       *)
LEMMA CImmJRead ==
  ASSUME NEW inst \in Halfword, NEW v \in Int
  PROVE  Reads(CImmJ, v, inst) <=> v = operand_cimmj(inst)
<1> DEFINE a == Bits(inst, 12, 1)  b == Bits(inst, 11, 1)  c == Bits(inst, 9, 2)
           d == Bits(inst, 8, 1)  e == Bits(inst, 7, 1)  f == Bits(inst, 6, 1)
           g == Bits(inst, 3, 3)  h == Bits(inst, 2, 1)
<1>1. /\ CImmJ.lo = -2048 /\ CImmJ.hi = 2048 /\ CImmJ.step = 2
      /\ CImmJ.layout = {<<12, 1, 11>>, <<11, 1, 4>>, <<9, 2, 8>>, <<8, 1, 10>>, <<7, 1, 6>>, <<6, 1, 7>>, <<3, 3, 1>>, <<2, 1, 5>>}
  BY SMT DEF CImmJ, SignedImm, Operand
<1>2. Reads(CImmJ, v, inst) <=>
        /\ -2048 <= v /\ v < 2048 /\ v % 2 = 0 /\ Bits(v, 11, 1) = a /\ Bits(v, 4, 1) = b
        /\ Bits(v, 8, 2) = c /\ Bits(v, 10, 1) = d /\ Bits(v, 6, 1) = e /\ Bits(v, 7, 1) = f
        /\ Bits(v, 1, 3) = g /\ Bits(v, 5, 1) = h
  BY <1>1, SMT DEF Reads
<1>3. /\ a \in 0 .. 1 /\ b \in 0 .. 1 /\ c \in 0 .. 3 /\ d \in 0 .. 1 /\ e \in 0 .. 1
         /\ f \in 0 .. 1 /\ g \in 0 .. 7 /\ h \in 0 .. 1
      /\ operand_cimmj(inst) = (-a) * 2048 + b * 16 + c * 256 + d * 1024 + e * 64 + f * 128 + g * 2 + h * 32
  BY SMT DEF Halfword, operand_cimmj, Bits, MinusBit
<1> HIDE DEF a, b, c, d, e, f, g, h
<1>4. ASSUME v = (-a) * 2048 + b * 16 + c * 256 + d * 1024 + e * 64 + f * 128 + g * 2 + h * 32
      PROVE  /\ -2048 <= v /\ v < 2048 /\ v % 2 = 0 /\ Bits(v, 11, 1) = a /\ Bits(v, 4, 1) = b
             /\ Bits(v, 8, 2) = c /\ Bits(v, 10, 1) = d /\ Bits(v, 6, 1) = e
             /\ Bits(v, 7, 1) = f /\ Bits(v, 1, 3) = g /\ Bits(v, 5, 1) = h
  <2>1. -2048 <= v
    BY <1>3, <1>4, SMT
  <2>2. v < 2048
    BY <1>3, <1>4, SMT
  <2>3. v % 2 = 0
    BY <1>3, <1>4, SMT
  <2>4. Bits(v, 11, 1) = a
    BY <1>3, <1>4, SMT DEF Bits
  <2>5. Bits(v, 4, 1) = b
    BY <1>3, <1>4, SMT DEF Bits
  <2>6. Bits(v, 8, 2) = c
    BY <1>3, <1>4, SMT DEF Bits
  <2>7. Bits(v, 10, 1) = d
    BY <1>3, <1>4, SMT DEF Bits
  <2>8. Bits(v, 6, 1) = e
    BY <1>3, <1>4, SMT DEF Bits
  <2>9. Bits(v, 7, 1) = f
    BY <1>3, <1>4, SMT DEF Bits
  <2>10. Bits(v, 1, 3) = g
    BY <1>3, <1>4, SMT DEF Bits
  <2>11. Bits(v, 5, 1) = h
    BY <1>3, <1>4, SMT DEF Bits
  <2> QED
    BY SMT, <2>1, <2>2, <2>3, <2>4, <2>5, <2>6, <2>7, <2>8, <2>9, <2>10, <2>11
<1>5. ASSUME /\ -2048 <= v /\ v < 2048 /\ v % 2 = 0 /\ Bits(v, 11, 1) = a /\ Bits(v, 4, 1) = b
             /\ Bits(v, 8, 2) = c /\ Bits(v, 10, 1) = d /\ Bits(v, 6, 1) = e
             /\ Bits(v, 7, 1) = f /\ Bits(v, 1, 3) = g /\ Bits(v, 5, 1) = h
      PROVE  v = (-a) * 2048 + b * 16 + c * 256 + d * 1024 + e * 64 + f * 128 + g * 2 + h * 32
  <2>1. v = 2 * (v \div 2)
    BY <1>5, SMT
  <2>2. (v \div 2) = g + 8 * (v \div 16)
    BY <1>5, SMT DEF Bits
  <2>3. (v \div 16) = b + 2 * (v \div 32)
    BY <1>5, SMT DEF Bits
  <2>4. (v \div 32) = h + 2 * (v \div 64)
    BY <1>5, SMT DEF Bits
  <2>5. (v \div 64) = e + 2 * (v \div 128)
    BY <1>5, SMT DEF Bits
  <2>6. (v \div 128) = f + 2 * (v \div 256)
    BY <1>5, SMT DEF Bits
  <2>7. (v \div 256) = c + 4 * (v \div 1024)
    BY <1>5, SMT DEF Bits
  <2>8. (v \div 1024) = d + 2 * (v \div 2048)
    BY <1>5, SMT DEF Bits
  <2>9. v \div 2048 = -a
    BY <1>5, SMT DEF Bits
  <2> QED
    BY <1>3, <2>1, <2>2, <2>3, <2>4, <2>5, <2>6, <2>7, <2>8, <2>9, SMT
<1> QED
  BY <1>2, <1>3, <1>4, <1>5, SMT

(* Of c.beqz and c.bnez.                                                   *)
LEMMA CImmBRead ==
  ASSUME NEW inst \in Halfword, NEW v \in Int
  PROVE  Reads(CImmB, v, inst) <=> v = operand_cimmb(inst)
<1> DEFINE a == Bits(inst, 12, 1)  b == Bits(inst, 10, 2)  c == Bits(inst, 5, 2)
           d == Bits(inst, 3, 2)  e == Bits(inst, 2, 1)
<1>1. /\ CImmB.lo = -256 /\ CImmB.hi = 256 /\ CImmB.step = 2
      /\ CImmB.layout = {<<12, 1, 8>>, <<10, 2, 3>>, <<5, 2, 6>>, <<3, 2, 1>>, <<2, 1, 5>>}
  BY SMT DEF CImmB, SignedImm, Operand
<1>2. Reads(CImmB, v, inst) <=>
        /\ -256 <= v /\ v < 256 /\ v % 2 = 0 /\ Bits(v, 8, 1) = a /\ Bits(v, 3, 2) = b
        /\ Bits(v, 6, 2) = c /\ Bits(v, 1, 2) = d /\ Bits(v, 5, 1) = e
  BY <1>1, SMT DEF Reads
<1>3. /\ a \in 0 .. 1 /\ b \in 0 .. 3 /\ c \in 0 .. 3 /\ d \in 0 .. 3 /\ e \in 0 .. 1
      /\ operand_cimmb(inst) = (-a) * 256 + b * 8 + c * 64 + d * 2 + e * 32
  BY SMT DEF Halfword, operand_cimmb, Bits, MinusBit
<1> HIDE DEF a, b, c, d, e
<1>4. v = (-a) * 256 + b * 8 + c * 64 + d * 2 + e * 32 =>
        /\ -256 <= v /\ v < 256 /\ v % 2 = 0 /\ Bits(v, 8, 1) = a /\ Bits(v, 3, 2) = b
         /\ Bits(v, 6, 2) = c /\ Bits(v, 1, 2) = d /\ Bits(v, 5, 1) = e
  BY <1>3, SMT DEF Bits
<1>5. /\ -256 <= v /\ v < 256 /\ v % 2 = 0 /\ Bits(v, 8, 1) = a /\ Bits(v, 3, 2) = b
         /\ Bits(v, 6, 2) = c /\ Bits(v, 1, 2) = d /\ Bits(v, 5, 1) = e =>
        v = (-a) * 256 + b * 8 + c * 64 + d * 2 + e * 32
  BY <1>3, SMT DEF Bits
<1> QED
  BY <1>2, <1>3, <1>4, <1>5, SMT

(* Of word accesses by register.                                           *)
LEMMA CImmWRead ==
  ASSUME NEW inst \in Halfword, NEW v \in Int
  PROVE  Reads(CImmW, v, inst) <=> v = operand_cimmw(inst)
<1> DEFINE a == Bits(inst, 10, 3)  b == Bits(inst, 6, 1)  c == Bits(inst, 5, 1)
<1>1. /\ CImmW.lo = 0 /\ CImmW.hi = 128 /\ CImmW.step = 4
      /\ CImmW.layout = {<<10, 3, 3>>, <<6, 1, 2>>, <<5, 1, 6>>}
  BY SMT DEF CImmW, UnsignedImm, Operand
<1>2. Reads(CImmW, v, inst) <=>
        /\ 0 <= v /\ v < 128 /\ v % 4 = 0 /\ Bits(v, 3, 3) = a /\ Bits(v, 2, 1) = b
        /\ Bits(v, 6, 1) = c
  BY <1>1, SMT DEF Reads
<1>3. /\ a \in 0 .. 7 /\ b \in 0 .. 1 /\ c \in 0 .. 1
      /\ operand_cimmw(inst) = a * 8 + b * 4 + c * 64
  BY SMT DEF Halfword, operand_cimmw, Bits
<1> HIDE DEF a, b, c
<1>4. v = a * 8 + b * 4 + c * 64 =>
        /\ 0 <= v /\ v < 128 /\ v % 4 = 0 /\ Bits(v, 3, 3) = a /\ Bits(v, 2, 1) = b
         /\ Bits(v, 6, 1) = c
  BY <1>3, SMT DEF Bits
<1>5. /\ 0 <= v /\ v < 128 /\ v % 4 = 0 /\ Bits(v, 3, 3) = a /\ Bits(v, 2, 1) = b
         /\ Bits(v, 6, 1) = c =>
        v = a * 8 + b * 4 + c * 64
  BY <1>3, SMT DEF Bits
<1> QED
  BY <1>2, <1>3, <1>4, <1>5, SMT

(* Of doubleword accesses by register.                                     *)
LEMMA CImmDRead ==
  ASSUME NEW inst \in Halfword, NEW v \in Int
  PROVE  Reads(CImmD, v, inst) <=> v = operand_cimmd(inst)
<1> DEFINE a == Bits(inst, 10, 3)  b == Bits(inst, 5, 2)
<1>1. /\ CImmD.lo = 0 /\ CImmD.hi = 256 /\ CImmD.step = 8
      /\ CImmD.layout = {<<10, 3, 3>>, <<5, 2, 6>>}
  BY SMT DEF CImmD, UnsignedImm, Operand
<1>2. Reads(CImmD, v, inst) <=>
        /\ 0 <= v /\ v < 256 /\ v % 8 = 0 /\ Bits(v, 3, 3) = a /\ Bits(v, 6, 2) = b
  BY <1>1, SMT DEF Reads
<1>3. /\ a \in 0 .. 7 /\ b \in 0 .. 3
      /\ operand_cimmd(inst) = a * 8 + b * 64
  BY SMT DEF Halfword, operand_cimmd, Bits
<1> HIDE DEF a, b
<1>4. v = a * 8 + b * 64 =>
        /\ 0 <= v /\ v < 256 /\ v % 8 = 0 /\ Bits(v, 3, 3) = a /\ Bits(v, 6, 2) = b
  BY <1>3, SMT DEF Bits
<1>5. /\ 0 <= v /\ v < 256 /\ v % 8 = 0 /\ Bits(v, 3, 3) = a /\ Bits(v, 6, 2) = b =>
        v = a * 8 + b * 64
  BY <1>3, SMT DEF Bits
<1> QED
  BY <1>2, <1>3, <1>4, <1>5, SMT

(* Of quadword accesses by register.                                       *)
LEMMA CImmQRead ==
  ASSUME NEW inst \in Halfword, NEW v \in Int
  PROVE  Reads(CImmQ, v, inst) <=> v = operand_cimmq(inst)
<1> DEFINE a == Bits(inst, 11, 2)  b == Bits(inst, 10, 1)  c == Bits(inst, 5, 2)
<1>1. /\ CImmQ.lo = 0 /\ CImmQ.hi = 512 /\ CImmQ.step = 16
      /\ CImmQ.layout = {<<11, 2, 4>>, <<10, 1, 8>>, <<5, 2, 6>>}
  BY SMT DEF CImmQ, UnsignedImm, Operand
<1>2. Reads(CImmQ, v, inst) <=>
        /\ 0 <= v /\ v < 512 /\ v % 16 = 0 /\ Bits(v, 4, 2) = a /\ Bits(v, 8, 1) = b
        /\ Bits(v, 6, 2) = c
  BY <1>1, SMT DEF Reads
<1>3. /\ a \in 0 .. 3 /\ b \in 0 .. 1 /\ c \in 0 .. 3
      /\ operand_cimmq(inst) = a * 16 + b * 256 + c * 64
  BY SMT DEF Halfword, operand_cimmq, Bits
<1> HIDE DEF a, b, c
<1>4. v = a * 16 + b * 256 + c * 64 =>
        /\ 0 <= v /\ v < 512 /\ v % 16 = 0 /\ Bits(v, 4, 2) = a /\ Bits(v, 8, 1) = b
         /\ Bits(v, 6, 2) = c
  BY <1>3, SMT DEF Bits
<1>5. /\ 0 <= v /\ v < 512 /\ v % 16 = 0 /\ Bits(v, 4, 2) = a /\ Bits(v, 8, 1) = b
         /\ Bits(v, 6, 2) = c =>
        v = a * 16 + b * 256 + c * 64
  BY <1>3, SMT DEF Bits
<1> QED
  BY <1>2, <1>3, <1>4, <1>5, SMT

(* Of word loads from the stack.                                           *)
LEMMA CImmLwspRead ==
  ASSUME NEW inst \in Halfword, NEW v \in Int
  PROVE  Reads(CImmLwsp, v, inst) <=> v = operand_cimmlwsp(inst)
<1> DEFINE a == Bits(inst, 12, 1)  b == Bits(inst, 4, 3)  c == Bits(inst, 2, 2)
<1>1. /\ CImmLwsp.lo = 0 /\ CImmLwsp.hi = 256 /\ CImmLwsp.step = 4
      /\ CImmLwsp.layout = {<<12, 1, 5>>, <<4, 3, 2>>, <<2, 2, 6>>}
  BY SMT DEF CImmLwsp, UnsignedImm, Operand
<1>2. Reads(CImmLwsp, v, inst) <=>
        /\ 0 <= v /\ v < 256 /\ v % 4 = 0 /\ Bits(v, 5, 1) = a /\ Bits(v, 2, 3) = b
        /\ Bits(v, 6, 2) = c
  BY <1>1, SMT DEF Reads
<1>3. /\ a \in 0 .. 1 /\ b \in 0 .. 7 /\ c \in 0 .. 3
      /\ operand_cimmlwsp(inst) = a * 32 + b * 4 + c * 64
  BY SMT DEF Halfword, operand_cimmlwsp, Bits
<1> HIDE DEF a, b, c
<1>4. v = a * 32 + b * 4 + c * 64 =>
        /\ 0 <= v /\ v < 256 /\ v % 4 = 0 /\ Bits(v, 5, 1) = a /\ Bits(v, 2, 3) = b
         /\ Bits(v, 6, 2) = c
  BY <1>3, SMT DEF Bits
<1>5. /\ 0 <= v /\ v < 256 /\ v % 4 = 0 /\ Bits(v, 5, 1) = a /\ Bits(v, 2, 3) = b
         /\ Bits(v, 6, 2) = c =>
        v = a * 32 + b * 4 + c * 64
  BY <1>3, SMT DEF Bits
<1> QED
  BY <1>2, <1>3, <1>4, <1>5, SMT

(* Of doubleword loads from the stack.                                     *)
LEMMA CImmLdspRead ==
  ASSUME NEW inst \in Halfword, NEW v \in Int
  PROVE  Reads(CImmLdsp, v, inst) <=> v = operand_cimmldsp(inst)
<1> DEFINE a == Bits(inst, 12, 1)  b == Bits(inst, 5, 2)  c == Bits(inst, 2, 3)
<1>1. /\ CImmLdsp.lo = 0 /\ CImmLdsp.hi = 512 /\ CImmLdsp.step = 8
      /\ CImmLdsp.layout = {<<12, 1, 5>>, <<5, 2, 3>>, <<2, 3, 6>>}
  BY SMT DEF CImmLdsp, UnsignedImm, Operand
<1>2. Reads(CImmLdsp, v, inst) <=>
        /\ 0 <= v /\ v < 512 /\ v % 8 = 0 /\ Bits(v, 5, 1) = a /\ Bits(v, 3, 2) = b
        /\ Bits(v, 6, 3) = c
  BY <1>1, SMT DEF Reads
<1>3. /\ a \in 0 .. 1 /\ b \in 0 .. 3 /\ c \in 0 .. 7
      /\ operand_cimmldsp(inst) = a * 32 + b * 8 + c * 64
  BY SMT DEF Halfword, operand_cimmldsp, Bits
<1> HIDE DEF a, b, c
<1>4. v = a * 32 + b * 8 + c * 64 =>
        /\ 0 <= v /\ v < 512 /\ v % 8 = 0 /\ Bits(v, 5, 1) = a /\ Bits(v, 3, 2) = b
         /\ Bits(v, 6, 3) = c
  BY <1>3, SMT DEF Bits
<1>5. /\ 0 <= v /\ v < 512 /\ v % 8 = 0 /\ Bits(v, 5, 1) = a /\ Bits(v, 3, 2) = b
         /\ Bits(v, 6, 3) = c =>
        v = a * 32 + b * 8 + c * 64
  BY <1>3, SMT DEF Bits
<1> QED
  BY <1>2, <1>3, <1>4, <1>5, SMT

(* Of quadword loads from the stack.                                       *)
LEMMA CImmLqspRead ==
  ASSUME NEW inst \in Halfword, NEW v \in Int
  PROVE  Reads(CImmLqsp, v, inst) <=> v = operand_cimmlqsp(inst)
<1> DEFINE a == Bits(inst, 12, 1)  b == Bits(inst, 6, 1)  c == Bits(inst, 2, 4)
<1>1. /\ CImmLqsp.lo = 0 /\ CImmLqsp.hi = 1024 /\ CImmLqsp.step = 16
      /\ CImmLqsp.layout = {<<12, 1, 5>>, <<6, 1, 4>>, <<2, 4, 6>>}
  BY SMT DEF CImmLqsp, UnsignedImm, Operand
<1>2. Reads(CImmLqsp, v, inst) <=>
        /\ 0 <= v /\ v < 1024 /\ v % 16 = 0 /\ Bits(v, 5, 1) = a /\ Bits(v, 4, 1) = b
        /\ Bits(v, 6, 4) = c
  BY <1>1, SMT DEF Reads
<1>3. /\ a \in 0 .. 1 /\ b \in 0 .. 1 /\ c \in 0 .. 15
      /\ operand_cimmlqsp(inst) = a * 32 + b * 16 + c * 64
  BY SMT DEF Halfword, operand_cimmlqsp, Bits
<1> HIDE DEF a, b, c
<1>4. v = a * 32 + b * 16 + c * 64 =>
        /\ 0 <= v /\ v < 1024 /\ v % 16 = 0 /\ Bits(v, 5, 1) = a /\ Bits(v, 4, 1) = b
         /\ Bits(v, 6, 4) = c
  BY <1>3, SMT DEF Bits
<1>5. /\ 0 <= v /\ v < 1024 /\ v % 16 = 0 /\ Bits(v, 5, 1) = a /\ Bits(v, 4, 1) = b
         /\ Bits(v, 6, 4) = c =>
        v = a * 32 + b * 16 + c * 64
  BY <1>3, SMT DEF Bits
<1> QED
  BY <1>2, <1>3, <1>4, <1>5, SMT

(* Of word stores to the stack.                                            *)
LEMMA CImmSwspRead ==
  ASSUME NEW inst \in Halfword, NEW v \in Int
  PROVE  Reads(CImmSwsp, v, inst) <=> v = operand_cimmswsp(inst)
<1> DEFINE a == Bits(inst, 9, 4)  b == Bits(inst, 7, 2)
<1>1. /\ CImmSwsp.lo = 0 /\ CImmSwsp.hi = 256 /\ CImmSwsp.step = 4
      /\ CImmSwsp.layout = {<<9, 4, 2>>, <<7, 2, 6>>}
  BY SMT DEF CImmSwsp, UnsignedImm, Operand
<1>2. Reads(CImmSwsp, v, inst) <=>
        /\ 0 <= v /\ v < 256 /\ v % 4 = 0 /\ Bits(v, 2, 4) = a /\ Bits(v, 6, 2) = b
  BY <1>1, SMT DEF Reads
<1>3. /\ a \in 0 .. 15 /\ b \in 0 .. 3
      /\ operand_cimmswsp(inst) = a * 4 + b * 64
  BY SMT DEF Halfword, operand_cimmswsp, Bits
<1> HIDE DEF a, b
<1>4. v = a * 4 + b * 64 =>
        /\ 0 <= v /\ v < 256 /\ v % 4 = 0 /\ Bits(v, 2, 4) = a /\ Bits(v, 6, 2) = b
  BY <1>3, SMT DEF Bits
<1>5. /\ 0 <= v /\ v < 256 /\ v % 4 = 0 /\ Bits(v, 2, 4) = a /\ Bits(v, 6, 2) = b =>
        v = a * 4 + b * 64
  BY <1>3, SMT DEF Bits
<1> QED
  BY <1>2, <1>3, <1>4, <1>5, SMT

(* Of doubleword stores to the stack.                                      *)
LEMMA CImmSdspRead ==
  ASSUME NEW inst \in Halfword, NEW v \in Int
  PROVE  Reads(CImmSdsp, v, inst) <=> v = operand_cimmsdsp(inst)
<1> DEFINE a == Bits(inst, 10, 3)  b == Bits(inst, 7, 3)
<1>1. /\ CImmSdsp.lo = 0 /\ CImmSdsp.hi = 512 /\ CImmSdsp.step = 8
      /\ CImmSdsp.layout = {<<10, 3, 3>>, <<7, 3, 6>>}
  BY SMT DEF CImmSdsp, UnsignedImm, Operand
<1>2. Reads(CImmSdsp, v, inst) <=>
        /\ 0 <= v /\ v < 512 /\ v % 8 = 0 /\ Bits(v, 3, 3) = a /\ Bits(v, 6, 3) = b
  BY <1>1, SMT DEF Reads
<1>3. /\ a \in 0 .. 7 /\ b \in 0 .. 7
      /\ operand_cimmsdsp(inst) = a * 8 + b * 64
  BY SMT DEF Halfword, operand_cimmsdsp, Bits
<1> HIDE DEF a, b
<1>4. v = a * 8 + b * 64 =>
        /\ 0 <= v /\ v < 512 /\ v % 8 = 0 /\ Bits(v, 3, 3) = a /\ Bits(v, 6, 3) = b
  BY <1>3, SMT DEF Bits
<1>5. /\ 0 <= v /\ v < 512 /\ v % 8 = 0 /\ Bits(v, 3, 3) = a /\ Bits(v, 6, 3) = b =>
        v = a * 8 + b * 64
  BY <1>3, SMT DEF Bits
<1> QED
  BY <1>2, <1>3, <1>4, <1>5, SMT

(* Of quadword stores to the stack.                                        *)
LEMMA CImmSqspRead ==
  ASSUME NEW inst \in Halfword, NEW v \in Int
  PROVE  Reads(CImmSqsp, v, inst) <=> v = operand_cimmsqsp(inst)
<1> DEFINE a == Bits(inst, 11, 2)  b == Bits(inst, 7, 4)
<1>1. /\ CImmSqsp.lo = 0 /\ CImmSqsp.hi = 1024 /\ CImmSqsp.step = 16
      /\ CImmSqsp.layout = {<<11, 2, 4>>, <<7, 4, 6>>}
  BY SMT DEF CImmSqsp, UnsignedImm, Operand
<1>2. Reads(CImmSqsp, v, inst) <=>
        /\ 0 <= v /\ v < 1024 /\ v % 16 = 0 /\ Bits(v, 4, 2) = a /\ Bits(v, 6, 4) = b
  BY <1>1, SMT DEF Reads
<1>3. /\ a \in 0 .. 3 /\ b \in 0 .. 15
      /\ operand_cimmsqsp(inst) = a * 16 + b * 64
  BY SMT DEF Halfword, operand_cimmsqsp, Bits
<1> HIDE DEF a, b
<1>4. v = a * 16 + b * 64 =>
        /\ 0 <= v /\ v < 1024 /\ v % 16 = 0 /\ Bits(v, 4, 2) = a /\ Bits(v, 6, 4) = b
  BY <1>3, SMT DEF Bits
<1>5. /\ 0 <= v /\ v < 1024 /\ v % 16 = 0 /\ Bits(v, 4, 2) = a /\ Bits(v, 6, 4) = b =>
        v = a * 16 + b * 64
  BY <1>3, SMT DEF Bits
<1> QED
  BY <1>2, <1>3, <1>4, <1>5, SMT

-----------------------------------------------------------------------------
(***************************************************************************)
(* Of every 32-bit word, the shifts of operand_imm12, operand_simm12,      *)
(* operand_sbimm12, operand_jimm20 and operand_imm20 read the immediate    *)
(* that the I, S, B, J and U formats place there, sign included, and no    *)
(* other value has these bits.                                             *)
(***************************************************************************)
THEOREM ImmediatesOfWords ==
  \A inst \in Word, v \in Int :
    /\ Reads(ImmI, v, inst) <=> v = operand_imm12(inst)
    /\ Reads(ImmS, v, inst) <=> v = operand_simm12(inst)
    /\ Reads(ImmB, v, inst) <=> v = operand_sbimm12(inst)
    /\ Reads(ImmJ, v, inst) <=> v = operand_jimm20(inst)
    /\ Reads(ImmU, v, inst) <=> v = operand_imm20(inst)
<1> TAKE inst \in Word, v \in Int
<1>1. Reads(ImmI, v, inst) <=> v = operand_imm12(inst)
  BY SMT, ImmIRead
<1>2. Reads(ImmS, v, inst) <=> v = operand_simm12(inst)
  BY SMT, ImmSRead
<1>3. Reads(ImmB, v, inst) <=> v = operand_sbimm12(inst)
  BY SMT, ImmBRead
<1>4. Reads(ImmJ, v, inst) <=> v = operand_jimm20(inst)
  BY SMT, ImmJRead
<1>5. Reads(ImmU, v, inst) <=> v = operand_imm20(inst)
  BY SMT, ImmURead
<1> QED
  BY <1>1, <1>2, <1>3, <1>4, <1>5

(***************************************************************************)
(* Of every 16-bit word, each operand_cimm* reads the immediate of its     *)
(* format, although its bits are scattered over up to eight fields.        *)
(***************************************************************************)
THEOREM ImmediatesOfHalfwords ==
  \A inst \in Halfword, v \in Int :
    /\ Reads(CImm, v, inst) <=> v = operand_cimmi(inst)
    /\ Reads(CShamt, v, inst) <=> v = operand_cimmsh6(inst)
    /\ Reads(CImmLui, v, inst) <=> v = operand_cimmui(inst)
    /\ Reads(CImm16, v, inst) <=> v = operand_cimm16sp(inst)
    /\ Reads(CImm4, v, inst) <=> v = operand_cimm4spn(inst)
    /\ Reads(CImmJ, v, inst) <=> v = operand_cimmj(inst)
    /\ Reads(CImmB, v, inst) <=> v = operand_cimmb(inst)
    /\ Reads(CImmW, v, inst) <=> v = operand_cimmw(inst)
    /\ Reads(CImmD, v, inst) <=> v = operand_cimmd(inst)
    /\ Reads(CImmQ, v, inst) <=> v = operand_cimmq(inst)
    /\ Reads(CImmLwsp, v, inst) <=> v = operand_cimmlwsp(inst)
    /\ Reads(CImmLdsp, v, inst) <=> v = operand_cimmldsp(inst)
    /\ Reads(CImmLqsp, v, inst) <=> v = operand_cimmlqsp(inst)
    /\ Reads(CImmSwsp, v, inst) <=> v = operand_cimmswsp(inst)
    /\ Reads(CImmSdsp, v, inst) <=> v = operand_cimmsdsp(inst)
    /\ Reads(CImmSqsp, v, inst) <=> v = operand_cimmsqsp(inst)
<1> TAKE inst \in Halfword, v \in Int
<1>1. Reads(CImm, v, inst) <=> v = operand_cimmi(inst)
  BY SMT, CImmRead
<1>2. Reads(CShamt, v, inst) <=> v = operand_cimmsh6(inst)
  BY SMT, CShamtRead
<1>3. Reads(CImmLui, v, inst) <=> v = operand_cimmui(inst)
  BY SMT, CImmLuiRead
<1>4. Reads(CImm16, v, inst) <=> v = operand_cimm16sp(inst)
  BY SMT, CImm16Read
<1>5. Reads(CImm4, v, inst) <=> v = operand_cimm4spn(inst)
  BY SMT, CImm4Read
<1>6. Reads(CImmJ, v, inst) <=> v = operand_cimmj(inst)
  BY SMT, CImmJRead
<1>7. Reads(CImmB, v, inst) <=> v = operand_cimmb(inst)
  BY SMT, CImmBRead
<1>8. Reads(CImmW, v, inst) <=> v = operand_cimmw(inst)
  BY SMT, CImmWRead
<1>9. Reads(CImmD, v, inst) <=> v = operand_cimmd(inst)
  BY SMT, CImmDRead
<1>10. Reads(CImmQ, v, inst) <=> v = operand_cimmq(inst)
  BY SMT, CImmQRead
<1>11. Reads(CImmLwsp, v, inst) <=> v = operand_cimmlwsp(inst)
  BY SMT, CImmLwspRead
<1>12. Reads(CImmLdsp, v, inst) <=> v = operand_cimmldsp(inst)
  BY SMT, CImmLdspRead
<1>13. Reads(CImmLqsp, v, inst) <=> v = operand_cimmlqsp(inst)
  BY SMT, CImmLqspRead
<1>14. Reads(CImmSwsp, v, inst) <=> v = operand_cimmswsp(inst)
  BY SMT, CImmSwspRead
<1>15. Reads(CImmSdsp, v, inst) <=> v = operand_cimmsdsp(inst)
  BY SMT, CImmSdspRead
<1>16. Reads(CImmSqsp, v, inst) <=> v = operand_cimmsqsp(inst)
  BY SMT, CImmSqspRead
<1> QED
  BY <1>1, <1>2, <1>3, <1>4, <1>5, <1>6, <1>7, <1>8, <1>9, <1>10, <1>11, <1>12, <1>13, <1>14,
     <1>15, <1>16

-----------------------------------------------------------------------------
(***************************************************************************)
(* Where the bits of an operand are: a field of a word holds the bits of   *)
(* the value that a shift and a mask read of it.                           *)
(***************************************************************************)
LEMMA Doubles == \A k \in 0 .. 30 : 2^k \in Nat /\ 2^k > 0 /\ 2^(k + 1) = 2 * 2^k
<1> SUFFICES ASSUME NEW k \in 0 .. 30
             PROVE  2^k \in Nat /\ 2^k > 0 /\ 2^(k + 1) = 2 * 2^k
  OBVIOUS
<1>0. CASE k = 0
  BY <1>0
<1>1. CASE k = 1
  BY <1>1
<1>2. CASE k = 2
  BY <1>2
<1>3. CASE k = 3
  BY <1>3
<1>4. CASE k = 4
  BY <1>4
<1>5. CASE k = 5
  BY <1>5
<1>6. CASE k = 6
  BY <1>6
<1>7. CASE k = 7
  BY <1>7
<1>8. CASE k = 8
  BY <1>8
<1>9. CASE k = 9
  BY <1>9
<1>10. CASE k = 10
  BY <1>10
<1>11. CASE k = 11
  BY <1>11
<1>12. CASE k = 12
  BY <1>12
<1>13. CASE k = 13
  BY <1>13
<1>14. CASE k = 14
  BY <1>14
<1>15. CASE k = 15
  BY <1>15
<1>16. CASE k = 16
  BY <1>16
<1>17. CASE k = 17
  BY <1>17
<1>18. CASE k = 18
  BY <1>18
<1>19. CASE k = 19
  BY <1>19
<1>20. CASE k = 20
  BY <1>20
<1>21. CASE k = 21
  BY <1>21
<1>22. CASE k = 22
  BY <1>22
<1>23. CASE k = 23
  BY <1>23
<1>24. CASE k = 24
  BY <1>24
<1>25. CASE k = 25
  BY <1>25
<1>26. CASE k = 26
  BY <1>26
<1>27. CASE k = 27
  BY <1>27
<1>28. CASE k = 28
  BY <1>28
<1>29. CASE k = 29
  BY <1>29
<1>30. CASE k = 30
  BY <1>30
<1> QED
  BY <1>0, <1>1, <1>2, <1>3, <1>4, <1>5, <1>6, <1>7, <1>8, <1>9, <1>10, <1>11, <1>12, <1>13, <1>14, <1>15, <1>16, <1>17, <1>18, <1>19, <1>20, <1>21, <1>22, <1>23, <1>24, <1>25, <1>26, <1>27, <1>28, <1>29, <1>30

LEMMA Power == \A k \in 0 .. 31 : 2^k \in Nat /\ 2^k > 0
<1> SUFFICES ASSUME NEW k \in 0 .. 31
             PROVE  2^k \in Nat /\ 2^k > 0
  OBVIOUS
<1>1. CASE k = 31
  BY <1>1
<1>2. CASE k \in 0 .. 30
  BY <1>2, Doubles
<1> QED
  BY <1>1, <1>2

LEMMA DivDiv ==
  ASSUME NEW x \in Int, NEW p \in Nat, NEW q \in Nat, p > 0, q > 0
  PROVE  (x \div p) \div q = x \div (p * q)
BY SMT

LEMMA OneBitMore ==
  ASSUME NEW x \in Int, NEW k \in 0 .. 30
  PROVE  x \div 2^(k + 1) = (x \div 2^k) \div 2
<1> DEFINE p == 2^k
<1>1. p \in Nat /\ p > 0 /\ 2^(k + 1) = 2 * p
  BY Doubles
<1> HIDE DEF p
<1>2. (x \div p) \div 2 = x \div (p * 2)
  BY <1>1, DivDiv
<1>3. p * 2 = 2 * p
  BY <1>1
<1> QED
  BY <1>1, <1>2, <1>3 DEF p


LEMMA Shifted ==
  ASSUME NEW x \in Int, NEW k \in 0 .. 31
  PROVE  x \div 2^k \in Int
<1> DEFINE p == 2^k
<1>1. p \in Nat /\ p > 0
  BY Power
<1> HIDE DEF p
<1>2. x \div p \in Int
  BY <1>1, SMT
<1> QED
  BY <1>2 DEF p

LEMMA ModStep ==
  ASSUME NEW x \in Int, NEW p \in Nat, p > 0
  PROVE  x % (2 * p) = (x % 2) + 2 * ((x \div 2) % p)
<1> DEFINE h == x \div 2  q == h \div p
<1>1. h \in Int /\ q \in Int /\ h = p * q + (h % p) /\ h % p \in 0 .. p - 1
  BY SMT
<1>2. x = 2 * h + (x % 2) /\ x % 2 \in 0 .. 1
  BY SMT
<1> DEFINE r == (x % 2) + 2 * (h % p)
<1>3. r \in 0 .. 2 * p - 1
  BY <1>1, <1>2
<1>4. x = (2 * p) * q + r
  BY <1>1, <1>2, SMT
<1> HIDE DEF h, q, r
<1>5. x % (2 * p) = r
  BY <1>1, <1>3, <1>4, SMT
<1> QED
  BY <1>5 DEF r, h

(* Fields of n bits agree if they do bit by bit.                           *)
SameBits(x, a, y, b, n) == \A i \in Nat : i < n => Bits(x, a + i, 1) = Bits(y, b + i, 1)

Agree(n) ==
  \A x \in Int, y \in Int, a \in Nat, b \in Nat :
    a + n <= 32 /\ b + n <= 32 /\ SameBits(x, a, y, b, n) => Bits(x, a, n) = Bits(y, b, n)

LEMMA Peel ==
  ASSUME NEW x \in Int, NEW a \in 0 .. 30, NEW n \in 0 .. 30
  PROVE  Bits(x, a, n + 1) = Bits(x, a, 1) + 2 * Bits(x, a + 1, n)
<1> DEFINE y == x \div 2^a  p == 2^n
<1>1. p \in Nat /\ p > 0 /\ 2^(n + 1) = 2 * p
  BY Doubles
<1>1a. 2^1 = 2
  OBVIOUS
<1>1b. y \in Int
  <2>1. a \in 0 .. 31
    OBVIOUS
  <2> QED
    BY <2>1, Shifted
<1>2. x \div 2^(a + 1) = y \div 2
  BY OneBitMore
<1> HIDE DEF y, p
<1>3. y % (2 * p) = (y % 2) + 2 * ((y \div 2) % p)
  BY <1>1, <1>1b, ModStep
<1> QED
  BY <1>1, <1>1a, <1>2, <1>3 DEF Bits, y, p

LEMMA AgreeMore ==
  ASSUME NEW n \in 1 .. 30, Agree(n)
  PROVE  Agree(n + 1)
<1> SUFFICES ASSUME NEW x \in Int, NEW y \in Int, NEW a \in Nat, NEW b \in Nat,
                    a + (n + 1) <= 32, b + (n + 1) <= 32,
                    SameBits(x, a, y, b, n + 1)
             PROVE  Bits(x, a, n + 1) = Bits(y, b, n + 1)
  BY DEF Agree
<1>1. a \in 0 .. 30 /\ b \in 0 .. 30 /\ a + 1 \in Nat /\ b + 1 \in Nat
  OBVIOUS
<1>2. Bits(x, a, n + 1) = Bits(x, a, 1) + 2 * Bits(x, a + 1, n)
  BY <1>1, Peel, SMTT(20)
<1>3. Bits(y, b, n + 1) = Bits(y, b, 1) + 2 * Bits(y, b + 1, n)
  BY <1>1, Peel, SMTT(20)
<1>4. Bits(x, a, 1) = Bits(y, b, 1)
  <2>1. 0 \in Nat /\ 0 < n + 1 /\ a + 0 = a /\ b + 0 = b
    OBVIOUS
  <2>2. Bits(x, a + 0, 1) = Bits(y, b + 0, 1)
    BY <2>1 DEF SameBits
  <2> QED
    BY <2>1, <2>2
<1>5. ASSUME NEW i \in Nat, i < n
      PROVE  Bits(x, (a + 1) + i, 1) = Bits(y, (b + 1) + i, 1)
  <2>1. i + 1 \in Nat /\ i + 1 < n + 1 /\ a + (i + 1) = (a + 1) + i /\ b + (i + 1) = (b + 1) + i
    BY <1>5
  <2>2. Bits(x, a + (i + 1), 1) = Bits(y, b + (i + 1), 1)
    BY <2>1 DEF SameBits
  <2> QED
    BY <2>1, <2>2
<1>6. (a + 1) + n <= 32 /\ (b + 1) + n <= 32
  OBVIOUS
<1>7. Bits(x, a + 1, n) = Bits(y, b + 1, n)
  <2>1. SameBits(x, a + 1, y, b + 1, n)
    BY <1>5 DEF SameBits
  <2> QED
    BY <1>1, <1>6, <2>1 DEF Agree
<1> QED
  BY <1>2, <1>3, <1>4, <1>7

LEMMA FieldsAgree == \A n \in 1 .. 20 : Agree(n)
<1>1. Agree(1)
  <2> SUFFICES ASSUME NEW x \in Int, NEW y \in Int, NEW a \in Nat, NEW b \in Nat,
                      SameBits(x, a, y, b, 1)
               PROVE  Bits(x, a, 1) = Bits(y, b, 1)
    BY DEF Agree
  <2>1. 0 \in Nat /\ 0 < 1 /\ a + 0 = a /\ b + 0 = b
    OBVIOUS
  <2>2. Bits(x, a + 0, 1) = Bits(y, b + 0, 1)
    BY <2>1 DEF SameBits
  <2> QED
    BY <2>1, <2>2
<1>2. Agree(2)
  BY <1>1, SMT, AgreeMore
<1>3. Agree(3)
  BY <1>2, SMT, AgreeMore
<1>4. Agree(4)
  BY <1>3, SMT, AgreeMore
<1>5. Agree(5)
  BY <1>4, SMT, AgreeMore
<1>6. Agree(6)
  BY <1>5, SMT, AgreeMore
<1>7. Agree(7)
  BY <1>6, SMT, AgreeMore
<1>8. Agree(8)
  BY <1>7, SMT, AgreeMore
<1>9. Agree(9)
  BY <1>8, SMT, AgreeMore
<1>10. Agree(10)
  BY <1>9, SMT, AgreeMore
<1>11. Agree(11)
  BY <1>10, SMT, AgreeMore
<1>12. Agree(12)
  BY <1>11, SMT, AgreeMore
<1>13. Agree(13)
  BY <1>12, SMT, AgreeMore
<1>14. Agree(14)
  BY <1>13, SMT, AgreeMore
<1>15. Agree(15)
  BY <1>14, SMT, AgreeMore
<1>16. Agree(16)
  BY <1>15, SMT, AgreeMore
<1>17. Agree(17)
  BY <1>16, SMT, AgreeMore
<1>18. Agree(18)
  BY <1>17, SMT, AgreeMore
<1>19. Agree(19)
  BY <1>18, SMT, AgreeMore
<1>20. Agree(20)
  BY <1>19, SMT, AgreeMore
<1> QED
  BY <1>1, <1>2, <1>3, <1>4, <1>5, <1>6, <1>7, <1>8, <1>9, <1>10, <1>11, <1>12, <1>13, <1>14, <1>15, <1>16, <1>17, <1>18, <1>19, <1>20

LEMMA WordBit ==
  ASSUME NEW x \in Word, NEW k \in 0 .. 31
  PROVE  BitOf(x, k) = Bits(x, k, 1) /\ Bits(x, k, 1) \in 0 .. 1
<1>1. 2^1 = 2
  OBVIOUS
<1>2. x \in Int /\ x \div 2^k \in Int
  <2>1. x \in Int
    BY SMT DEF Word
  <2> QED
    BY <2>1, Shifted
<1>3. CASE k = 31
  <2>1. x \div 2147483648 = IF x < 0 THEN -1 ELSE 0
    BY SMT DEF Word
  <2>2. 2^31 = 2147483648
    BY SMT
  <2> QED
    BY <1>1, <1>3, <2>1, <2>2, SMT DEF BitOf, Bits
<1>4. CASE k # 31
  BY <1>1, <1>2, <1>4, SMT DEF BitOf, Bits
<1> QED
  BY <1>3, <1>4, SMT

LEMMA Placed ==
  ASSUME NEW v, NEW layout, NEW k
  PROVE  k \in Place(v, layout) <=>
           \E f \in layout : \E i \in 0 .. f[2] - 1 : k = f[1] + i /\ BitOf(v, f[3] + i) = 1
BY DEF Place

LEMMA Spanned ==
  ASSUME NEW layout, NEW k
  PROVE  k \in Span(layout) <=> \E f \in layout : k \in f[1] .. f[1] + f[2] - 1
BY DEF Span

(* Fields within the word that do not overlap.                             *)
Tidy(layout) ==
  \A f \in layout :
    /\ f[1] \in Nat /\ f[2] \in 1 .. 20 /\ f[3] \in Nat /\ f[1] + f[2] <= 32 /\ f[3] + f[2] <= 32
    /\ \A g \in layout : f = g \/ f[1] + f[2] <= g[1] \/ g[1] + g[2] <= f[1]

LEMMA HeldField ==
  ASSUME NEW w \in Word, NEW v \in Word, NEW layout, Tidy(layout),
         Place(v, layout) = BitsOf(w) \cap Span(layout), NEW f \in layout
  PROVE  Bits(v, f[3], f[2]) = Bits(w, f[1], f[2])
<1>1. /\ f[1] \in Nat /\ f[2] \in 1 .. 20 /\ f[3] \in Nat /\ f[1] + f[2] <= 32 /\ f[3] + f[2] <= 32
  BY DEF Tidy
<1>2. w \in Int /\ v \in Int
  BY SMT DEF Word
<1>3. ASSUME NEW i \in Nat, i < f[2]
      PROVE  Bits(v, f[3] + i, 1) = Bits(w, f[1] + i, 1)
  <2> DEFINE k == f[1] + i
  <2>1. k \in 0 .. 31 /\ f[3] + i \in 0 .. 31 /\ k \in f[1] .. f[1] + f[2] - 1
    BY <1>1, <1>3
  <2>2. k \in Span(layout)
    BY <2>1, Spanned
  <2>3. k \in Place(v, layout) <=> BitOf(w, k) = 1
    BY <2>1, <2>2 DEF BitsOf
  <2>4. k \in Place(v, layout) <=> BitOf(v, f[3] + i) = 1
    <3>1. ASSUME NEW g \in layout, NEW j \in 0 .. g[2] - 1, k = g[1] + j
          PROVE  g = f /\ j = i
      <4>1. g = f \/ f[1] + f[2] <= g[1] \/ g[1] + g[2] <= f[1]
        BY DEF Tidy
      <4>2. g[1] \in Nat /\ g[2] \in 1 .. 20
        BY DEF Tidy
      <4> QED
        BY <1>1, <1>3, <3>1, <4>1, <4>2
    <3>2. i \in 0 .. f[2] - 1
      BY <1>1, <1>3
    <3> QED
      BY <3>1, <3>2, Placed
  <2>5. /\ BitOf(w, k) = Bits(w, k, 1) /\ Bits(w, k, 1) \in 0 .. 1
        /\ BitOf(v, f[3] + i) = Bits(v, f[3] + i, 1) /\ Bits(v, f[3] + i, 1) \in 0 .. 1
    BY <2>1, WordBit
  <2> QED
    BY <2>3, <2>4, <2>5
<1>4. SameBits(v, f[3], w, f[1], f[2])
  BY <1>3 DEF SameBits
<1> QED
  BY <1>1, <1>2, <1>4, FieldsAgree DEF Agree

(* The n bits from lo on belong to no operand, and are those of x.         *)
FixedBits(S, ones, lo, n, x, from) ==
  \A i \in Nat : i < n => lo + i \notin S /\ (lo + i \in ones <=> BitOf(x, from + i) = 1)

Unplaced(w, S, ones) == BitsOf(w) \ S = ones

LEMMA FixedField ==
  ASSUME NEW w \in Word, NEW S, NEW ones, Unplaced(w, S, ones),
         NEW lo \in Nat, NEW n \in 1 .. 20, lo + n <= 32,
         NEW x \in Word, NEW from \in Nat, from + n <= 32,
         FixedBits(S, ones, lo, n, x, from)
  PROVE  Bits(w, lo, n) = Bits(x, from, n)
<1>1. w \in Int /\ x \in Int
  BY SMT DEF Word
<1>2. ASSUME NEW i \in Nat, i < n
      PROVE  Bits(w, lo + i, 1) = Bits(x, from + i, 1)
  <2>1. lo + i \in 0 .. 31 /\ from + i \in 0 .. 31
    BY <1>2
  <2>2. lo + i \notin S /\ (lo + i \in ones <=> BitOf(x, from + i) = 1)
    BY <1>2 DEF FixedBits
  <2>3. BitOf(w, lo + i) = 1 <=> BitOf(x, from + i) = 1
    BY <2>1, <2>2 DEF BitsOf, Unplaced
  <2>4. /\ BitOf(w, lo + i) = Bits(w, lo + i, 1) /\ Bits(w, lo + i, 1) \in 0 .. 1
        /\ BitOf(x, from + i) = Bits(x, from + i, 1) /\ Bits(x, from + i, 1) \in 0 .. 1
    BY <2>1, WordBit
  <2> QED
    BY <2>3, <2>4
<1>3. SameBits(w, lo, x, from, n)
  BY <1>2 DEF SameBits
<1> QED
  BY <1>1, <1>3, FieldsAgree DEF Agree

LEMMA Small == \A v \in Nat : v < 4096 => v \in Word
BY SMT DEF Word

LEMMA InField ==
  ASSUME NEW lo \in Nat, NEW n \in Nat, NEW v, NEW k \in Nat
  PROVE  k \in Field(lo, n, v) <=> lo <= k /\ k < lo + n /\ BitOf(v, k - lo) = 1
<1>1. k \in Field(lo, n, v) <=> \E i \in 0 .. n - 1 : k = lo + i /\ BitOf(v, 0 + i) = 1
  BY DEF Field, Place
<1>2. ASSUME NEW i \in 0 .. n - 1, k = lo + i
      PROVE  0 + i = k - lo /\ lo <= k /\ k < lo + n
  BY <1>2
<1>3. ASSUME lo <= k, k < lo + n
      PROVE  k - lo \in 0 .. n - 1 /\ k = lo + (k - lo) /\ 0 + (k - lo) = k - lo
  BY <1>3
<1> QED
  BY <1>1, <1>2, <1>3

LEMMA InCode ==
  ASSUME NEW opcode, NEW f3, NEW f7, NEW k \in Nat
  PROVE  k \in Code(opcode, f3, f7) <=>
           \/ k \in {0, 1}
           \/ 2 <= k /\ k < 7 /\ BitOf(opcode, k - 2) = 1
           \/ 12 <= k /\ k < 15 /\ BitOf(f3, k - 12) = 1
           \/ 25 <= k /\ k < 32 /\ BitOf(f7, k - 25) = 1
BY InField DEF Code

(* No bit of S is between lo and hi.                                       *)
Off(S, lo, hi) == \A k \in lo .. hi : k \notin S

(* The fixed fields of a 32-bit instruction: the operands' places are S,   *)
(* and R is what is fixed besides the opcode and the functions.            *)
Fixed(w, S, opcode, f3, f7, R) ==
  /\ w \in Word /\ Unplaced(w, S, Code(opcode, f3, f7) \cup R)
  /\ opcode \in 0 .. 31 /\ f3 \in 0 .. 7 /\ f7 \in Nat /\ f7 < 128

LEMMA OpcodeField ==
  ASSUME NEW w, NEW S, NEW opcode, NEW f3, NEW f7, NEW R, Fixed(w, S, opcode, f3, f7, R),
         Off(S \cup R, 0, 6)
  PROVE  w % 4 = 3 /\ Bits(w, 2, 5) = opcode
<1> DEFINE ones == Code(opcode, f3, f7) \cup R
<1>1. w \in Word /\ opcode \in 0 .. 31 /\ Unplaced(w, S, ones)
  BY DEF Fixed
<1>2. opcode \in Nat /\ opcode < 32
  BY <1>1
<1>2a. opcode \in Word
  BY <1>2, Small
<1>2b. Bits(opcode, 0, 5) = opcode
  BY <1>2 DEF Bits
<1>3. ASSUME NEW i \in Nat, i < 5
      PROVE  2 + i \notin S /\ (2 + i \in ones <=> BitOf(opcode, 0 + i) = 1)
  <2>1. 2 + i \in 0 .. 6 /\ 2 + i \in Nat /\ (2 + i) - 2 = 0 + i
    BY <1>3
  <2> QED
    BY <1>3, <2>1, InCode DEF Off
<1>4. 3 \in Word /\ Bits(3, 0, 2) = 3
  BY Small DEF Bits
<1>5. ASSUME NEW i \in Nat, i < 2
      PROVE  0 + i \notin S /\ (0 + i \in ones <=> BitOf(3, 0 + i) = 1)
  <2>1. 0 + i \in 0 .. 6 /\ 0 + i \in Nat /\ 0 + i \in {0, 1}
    BY <1>5
  <2>2. BitOf(3, 0) = 1 /\ BitOf(3, 1) = 1
    BY DEF BitOf
  <2>3. i = 0 \/ i = 1
    BY <1>5
  <2> QED
    BY <2>1, <2>2, <2>3, InCode DEF Off
<1> HIDE DEF ones
<1>6. Bits(w, 2, 5) = Bits(opcode, 0, 5)
  <2>1. FixedBits(S, ones, 2, 5, opcode, 0)
    BY <1>3 DEF FixedBits
  <2> QED
    BY <1>1, <1>2a, <2>1, FixedField
<1>7. Bits(w, 0, 2) = Bits(3, 0, 2)
  <2>1. FixedBits(S, ones, 0, 2, 3, 0)
    BY <1>5 DEF FixedBits
  <2> QED
    BY <1>1, <1>4, <2>1, FixedField
<1>8. Bits(w, 0, 2) = w % 4
  BY <1>1, SMT DEF Bits, Word
<1> QED
  BY <1>2b, <1>4, <1>6, <1>7, <1>8

LEMMA Funct3Field ==
  ASSUME NEW w, NEW S, NEW opcode, NEW f3, NEW f7, NEW R, Fixed(w, S, opcode, f3, f7, R),
         Off(S \cup R, 12, 14)
  PROVE  Bits(w, 12, 3) = f3
<1> DEFINE ones == Code(opcode, f3, f7) \cup R
<1>1. w \in Word /\ f3 \in 0 .. 7 /\ Unplaced(w, S, ones)
  BY DEF Fixed
<1>2. f3 \in Nat /\ f3 < 8
  BY <1>1
<1>2a. f3 \in Word
  BY <1>2, Small
<1>2b. Bits(f3, 0, 3) = f3
  BY <1>2 DEF Bits
<1>3. ASSUME NEW i \in Nat, i < 3
      PROVE  12 + i \notin S /\ (12 + i \in ones <=> BitOf(f3, 0 + i) = 1)
  <2>1. 12 + i \in 12 .. 14 /\ 12 + i \in Nat /\ (12 + i) - 12 = 0 + i
    BY <1>3
  <2> QED
    BY <1>3, <2>1, InCode DEF Off
<1> HIDE DEF ones
<1>6. Bits(w, 12, 3) = Bits(f3, 0, 3)
  <2>1. FixedBits(S, ones, 12, 3, f3, 0)
    BY <1>3 DEF FixedBits
  <2> QED
    BY <1>1, <1>2a, <2>1, FixedField
<1> QED
  BY <1>2b, <1>6

(* Part of funct7, when the rest of it belongs to an operand.              *)
Part7(free, lo, hi, n, j) ==
  /\ lo \in 25 .. 31 /\ hi \in lo .. 31 /\ n = hi - lo + 1 /\ j = lo - 25
  /\ Off(free, lo, hi)

LEMMA Funct7Field ==
  ASSUME NEW w, NEW S, NEW opcode, NEW f3, NEW f7, NEW R, Fixed(w, S, opcode, f3, f7, R),
         NEW lo, NEW hi, NEW n, NEW j, Part7(S \cup R, lo, hi, n, j)
  PROVE  Bits(w, lo, n) = Bits(f7, j, n)
<1>0. j \in Nat /\ n \in 1 .. 7 /\ j + n <= 7 /\ lo = 25 + j /\ hi = 24 + j + n
      /\ Off(S \cup R, lo, hi)
  BY DEF Part7
<1> DEFINE ones == Code(opcode, f3, f7) \cup R
<1>1. w \in Word /\ f7 \in Nat /\ f7 < 128 /\ Unplaced(w, S, ones)
  BY DEF Fixed
<1>2. f7 \in Word
  BY <1>1, Small
<1>3. ASSUME NEW i \in Nat, i < n
      PROVE  (25 + j) + i \notin S /\ ((25 + j) + i \in ones <=> BitOf(f7, j + i) = 1)
  <2>1. (25 + j) + i \in lo .. hi /\ (25 + j) + i \in Nat /\ ((25 + j) + i) - 25 = j + i
        /\ (25 + j) + i >= 25 /\ (25 + j) + i < 32
    BY <1>0, <1>3
  <2> QED
    BY <1>0, <1>3, <2>1, InCode DEF Off
<1> HIDE DEF ones
<1>4. 25 + j \in Nat /\ (25 + j) + n <= 32 /\ n \in 1 .. 20
  BY <1>0
<1>5. FixedBits(S, ones, 25 + j, n, f7, j)
  BY <1>3 DEF FixedBits
<1>6. Bits(w, 25 + j, n) = Bits(f7, j, n)
  BY <1>0, <1>1, <1>2, <1>4, <1>5, FixedField
<1> QED
  BY <1>0, <1>6

(* A field with a number of its own.                                       *)
Number(ones, lo, n, x) == \A k \in lo .. lo + n - 1 : k \in ones <=> BitOf(x, k - lo) = 1

LEMMA NumberField ==
  ASSUME NEW w \in Word, NEW S, NEW ones, Unplaced(w, S, ones), NEW lo \in Nat, NEW n \in 1 .. 20,
         NEW hi \in lo .. 31, hi = lo + n - 1, NEW x \in Nat, x < 4096, Off(S, lo, hi),
         Number(ones, lo, n, x)
  PROVE  Bits(w, lo, n) = Bits(x, 0, n)
<1>1. ASSUME NEW i \in Nat, i < n
      PROVE  lo + i \notin S /\ (lo + i \in ones <=> BitOf(x, 0 + i) = 1)
  <2>1. lo + i \in lo .. lo + n - 1 /\ (lo + i) - lo = 0 + i
    BY <1>1
  <2> QED
    BY <2>1 DEF Off, Number
<1>2. x \in Word
  BY Small
<1>3. FixedBits(S, ones, lo, n, x, 0)
  BY <1>1 DEF FixedBits
<1>4. lo + n <= 32
  OBVIOUS
<1> QED
  BY <1>2, <1>3, <1>4, FixedField

-----------------------------------------------------------------------------
(***************************************************************************)
(* Operands of a word that are shown by one field, and by all of them.     *)
(***************************************************************************)
(* The operand o has the value v in the word w.                            *)
Held(o, v, w) == v \in Int /\ Holds(o, v, BitsOf(w))

(* An operand whose fields do not overlap and whose values fit a word.     *)
Sound(o) ==
  /\ Tidy(o.layout)
  /\ o.lo \in Int /\ o.hi \in Int /\ (-1073741824) * 2 <= o.lo /\ o.hi <= 2147483647
  /\ o.step \in {1, 2, 4, 8, 16, 4096} /\ (o.lo % o.step) = 0

LEMMA HeldRead ==
  ASSUME NEW w \in Word, NEW o, NEW v, Sound(o), Held(o, v, w)
  PROVE  v \in Word /\ Reads(o, v, w) /\ v \notin o.but
<1>1. v \in Int /\ o.lo \in Int /\ o.hi \in Int /\ o.lo <= v /\ v < o.hi /\ v % o.step = 0
      /\ (o.lo % o.step) = 0
      /\ v \notin o.but /\ Place(v, o.layout) = BitsOf(w) \cap Span(o.layout)
  BY DEF Held, Holds, Allows, Sound
<1>2. v \in Word
  BY <1>1, SMT DEF Sound, Word
<1>3. (v - o.lo) % o.step = 0
  <2>1. CASE o.step = 1
    BY <1>1, <2>1
  <2>2. CASE o.step = 2
    BY <1>1, <2>2
  <2>3. CASE o.step = 4
    BY <1>1, <2>3
  <2>4. CASE o.step = 8
    BY <1>1, <2>4
  <2>5. CASE o.step = 16
    BY <1>1, <2>5
  <2>6. CASE o.step = 4096
    BY <1>1, <2>6
  <2> QED
    BY <2>1, <2>2, <2>3, <2>4, <2>5, <2>6 DEF Sound
<1>4. Tidy(o.layout)
  BY DEF Sound
<1>5. \A f \in o.layout : Bits(v, f[3], f[2]) = Bits(w, f[1], f[2])
  BY <1>1, <1>2, <1>4, HeldField
<1> QED
  BY <1>1, <1>2, <1>3, <1>5 DEF Reads

(* Operands in one field of n bits from bit `at` on.                       *)
OneField(o, at, n, hi) ==
  /\ o.lo = 0 /\ o.hi = hi /\ o.step = 1 /\ o.layout = {<<at, n, 0>>}
  /\ at \in 0 .. 29 /\ at + n <= 32
  /\ <<n, hi>> \in {<<3, 8>>, <<4, 16>>, <<5, 32>>, <<6, 64>>, <<12, 4096>>}

LEMMA OneFieldHeld ==
  ASSUME NEW w \in Word, NEW v, NEW o, NEW at, NEW n, NEW hi, Held(o, v, w), OneField(o, at, n, hi)
  PROVE  v = Bits(w, at, n) /\ v \in Nat /\ v < hi /\ v \notin o.but
<1>0. n \in {3, 4, 5, 6, 12} /\ at \in 0 .. 29 /\ at + n <= 32 /\ o.layout = {<<at, n, 0>>}
  BY DEF OneField
<1>1. Sound(o)
  <2>1. Tidy(o.layout)
    BY <1>0 DEF Tidy
  <2> QED
    BY <2>1 DEF Sound, OneField
<1>2. 0 <= v /\ v < hi /\ v \in Int /\ Bits(v, 0, n) = Bits(w, at, n) /\ v \notin o.but
  <2>1. v \in Word /\ Reads(o, v, w) /\ v \notin o.but
    BY <1>1, HeldRead
  <2> QED
    BY <2>1 DEF Reads, Held, OneField
<1>3. Bits(v, 0, n) = v
  <2>1. CASE n = 3
    BY <1>2, <2>1 DEF Bits, OneField
  <2>2. CASE n = 4
    BY <1>2, <2>2 DEF Bits, OneField
  <2>3. CASE n = 5
    BY <1>2, <2>3 DEF Bits, OneField
  <2>4. CASE n = 6
    BY <1>2, <2>4 DEF Bits, OneField
  <2>5. CASE n = 12
    BY <1>2, <2>5 DEF Bits, OneField
  <2> QED
    BY <1>0, <2>1, <2>2, <2>3, <2>4, <2>5
<1> QED
  BY <1>2, <1>3

(* One of the eight registers of a compressed instruction.                 *)
LEMMA ThreeBits ==
  ASSUME NEW w \in Word, NEW v, NEW o, NEW at \in 0 .. 20, Held(o, v, w),
         o.lo = 8, o.hi = 16, o.step = 1, o.layout = {<<at, 3, 0>>}
  PROVE  v = Bits(w, at, 3) + 8
<1>1. Sound(o)
  <2>1. Tidy(o.layout)
    BY DEF Tidy
  <2> QED
    BY <2>1 DEF Sound
<1>2. 8 <= v /\ v < 16 /\ v \in Int /\ Bits(v, 0, 3) = Bits(w, at, 3)
  <2>1. v \in Word /\ Reads(o, v, w)
    BY <1>1, HeldRead
  <2> QED
    BY <2>1 DEF Reads, Held
<1>3. Bits(v, 0, 3) = v - 8
  BY <1>2 DEF Bits
<1>4. v = Bits(v, 0, 3) + 8
  BY <1>2, <1>3
<1> QED
  BY <1>2, <1>4

-----------------------------------------------------------------------------
(* The operands of 32-bit instructions, as the program reads them.         *)
LEMMA RegisterHeld ==
  ASSUME NEW w \in Word, NEW v, NEW lo \in 0 .. 27, Held(X(lo), v, w) \/ Held(F(lo), v, w)
  PROVE  v = Bits(w, lo, 5) /\ v \in 0 .. 31
<1>1. OneField(X(lo), lo, 5, 32) /\ OneField(F(lo), lo, 5, 32)
  BY DEF OneField, X, F, Operand
<1>2. ASSUME Held(X(lo), v, w)
      PROVE  v = Bits(w, lo, 5) /\ v \in Nat /\ v < 32 /\ v \notin X(lo).but
  BY <1>1, <1>2, OneFieldHeld
<1>3. ASSUME Held(F(lo), v, w)
      PROVE  v = Bits(w, lo, 5) /\ v \in Nat /\ v < 32 /\ v \notin F(lo).but
  BY <1>1, <1>3, OneFieldHeld
<1> QED
  BY <1>2, <1>3

LEMMA RdHeld ==
  ASSUME NEW w \in Word, NEW v, Held(Rd, v, w) \/ Held(Fd, v, w)
  PROVE  v = operand_rd(w) /\ v \in 0 .. 31
BY RegisterHeld DEF Rd, Fd, operand_rd

LEMMA Rs1Held ==
  ASSUME NEW w \in Word, NEW v, Held(Rs1, v, w) \/ Held(Fs1, v, w)
  PROVE  v = operand_rs1(w) /\ v \in 0 .. 31
BY RegisterHeld DEF Rs1, Fs1, operand_rs1

LEMMA Rs2Held ==
  ASSUME NEW w \in Word, NEW v, Held(Rs2, v, w) \/ Held(Fs2, v, w)
  PROVE  v = operand_rs2(w) /\ v \in 0 .. 31
BY RegisterHeld DEF Rs2, Fs2, operand_rs2

LEMMA Fs3Held ==
  ASSUME NEW w \in Word, NEW v, Held(Fs3, v, w)
  PROVE  v = operand_rs3(w) /\ v \in 0 .. 31
BY RegisterHeld DEF Fs3, operand_rs3

LEMMA ZimmHeld ==
  ASSUME NEW w \in Word, NEW v, Held(Zimm, v, w)
  PROVE  v = operand_rs1(w)
<1>1. OneField(Zimm, 15, 5, 32)
  BY DEF OneField, Zimm, Operand
<1>2. v = Bits(w, 15, 5) /\ v \in Nat /\ v < 32 /\ v \notin Zimm.but
  BY <1>1, OneFieldHeld
<1> QED
  BY <1>2 DEF operand_rs1

LEMMA RmHeld ==
  ASSUME NEW w \in Word, NEW v, Held(Rm, v, w)
  PROVE  v = operand_rm(w) /\ v \notin {5, 6}
<1>1. OneField(Rm, 12, 3, 8) /\ Rm.but = {5, 6}
  BY DEF OneField, Rm, Operand
<1>2. v = Bits(w, 12, 3) /\ v \in Nat /\ v < 8 /\ v \notin Rm.but
  BY <1>1, OneFieldHeld
<1> QED
  BY <1>1, <1>2 DEF operand_rm

LEMMA CsrHeld ==
  ASSUME NEW w \in Word, NEW v, Held(Csr, v, w)
  PROVE  v = operand_csr12(w) /\ v \in Nat /\ v < 4096
<1>1. OneField(Csr, 20, 12, 4096)
  BY DEF OneField, Csr, Operand
<1>2. v = Bits(w, 20, 12) /\ v \in Nat /\ v < 4096 /\ v \notin Csr.but
  BY <1>1, OneFieldHeld
<1> QED
  BY <1>2 DEF operand_csr12

LEMMA FenceHeld ==
  ASSUME NEW w \in Word, NEW v
  PROVE  /\ Held(Pred, v, w) => v = operand_pred(w)
         /\ Held(Succ, v, w) => v = operand_succ(w)
<1>1. OneField(Pred, 24, 4, 16) /\ OneField(Succ, 20, 4, 16)
  BY DEF OneField, Pred, Succ, Operand
<1>2. ASSUME Held(Pred, v, w)
      PROVE  v = operand_pred(w)
  <2>1. v = Bits(w, 24, 4) /\ v \in Nat /\ v < 16 /\ v \notin Pred.but
    BY <1>1, <1>2, OneFieldHeld
  <2> QED
    BY <2>1 DEF operand_pred
<1>3. ASSUME Held(Succ, v, w)
      PROVE  v = operand_succ(w)
  <2>1. v = Bits(w, 20, 4) /\ v \in Nat /\ v < 16 /\ v \notin Succ.but
    BY <1>1, <1>3, OneFieldHeld
  <2> QED
    BY <2>1 DEF operand_succ
<1> QED
  BY <1>2, <1>3

LEMMA ShamtHeld ==
  ASSUME NEW w \in Word, NEW v
  PROVE  /\ Held(Sh(5), v, w) => v = operand_shamt5(w)
         /\ Held(Sh(6), v, w) => v = operand_shamt6(w)
<1> DEFINE o5 == Sh(5)  o6 == Sh(6)
<1>1. OneField(o5, 20, 5, 32)
  BY DEF OneField, Sh, Operand
<1>2. OneField(o6, 20, 6, 64)
  BY DEF OneField, Sh, Operand
<1> HIDE DEF o5, o6
<1>3. ASSUME Held(o5, v, w)
      PROVE  v = operand_shamt5(w)
  <2>1. v = Bits(w, 20, 5) /\ v \in Nat /\ v < 32 /\ v \notin o5.but
    BY <1>1, <1>3, OneFieldHeld
  <2> QED
    BY <2>1 DEF operand_shamt5
<1>4. ASSUME Held(o6, v, w)
      PROVE  v = operand_shamt6(w)
  <2>1. v = Bits(w, 20, 6) /\ v \in Nat /\ v < 64 /\ v \notin o6.but
    BY <1>2, <1>4, OneFieldHeld
  <2> QED
    BY <2>1 DEF operand_shamt6
<1> QED
  BY <1>3, <1>4 DEF o5, o6

LEMMA ImmediateHeld ==
  ASSUME NEW w \in Word, NEW v
  PROVE  /\ Held(ImmI, v, w) => v = operand_imm12(w)
         /\ Held(ImmS, v, w) => v = operand_simm12(w)
         /\ Held(ImmB, v, w) => v = operand_sbimm12(w)
         /\ Held(ImmJ, v, w) => v = operand_jimm20(w)
         /\ Held(ImmU, v, w) => v = operand_imm20(w)
<1>1. Sound(ImmI)
  BY SMT DEF Sound, Tidy, ImmI, SignedImm, Operand
<1>2. Sound(ImmS)
  BY SMT DEF Sound, Tidy, ImmS, SignedImm, Operand
<1>3. Sound(ImmB)
  BY SMT DEF Sound, Tidy, ImmB, SignedImm, Operand
<1>4. Sound(ImmJ)
  BY SMT DEF Sound, Tidy, ImmJ, SignedImm, Operand
<1>5. Sound(ImmU)
  BY SMT DEF Sound, Tidy, ImmU, Operand
<1>6. \A o : Held(o, v, w) => v \in Int
  BY DEF Held
<1> QED
  BY <1>1, <1>2, <1>3, <1>4, <1>5, <1>6, HeldRead, ImmIRead, ImmSRead, ImmBRead, ImmJRead, ImmURead

-----------------------------------------------------------------------------
(* The operands of 16-bit instructions.                                    *)
LEMMA HalfwordIsWord == \A w \in Halfword : w \in Word
BY SMT DEF Halfword, Word

LEMMA ShortImmediateHeld ==
  ASSUME NEW w \in Halfword, NEW v
  PROVE  /\ Held(CImm, v, w) => v = operand_cimmi(w)
         /\ Held(CShamt, v, w) => v = operand_cimmsh6(w)
         /\ Held(CImmLui, v, w) => v = operand_cimmui(w)
         /\ Held(CImm16, v, w) => v = operand_cimm16sp(w)
         /\ Held(CImm4, v, w) => v = operand_cimm4spn(w)
         /\ Held(CImmJ, v, w) => v = operand_cimmj(w)
         /\ Held(CImmB, v, w) => v = operand_cimmb(w)
         /\ Held(CImmW, v, w) => v = operand_cimmw(w)
         /\ Held(CImmD, v, w) => v = operand_cimmd(w)
         /\ Held(CImmLwsp, v, w) => v = operand_cimmlwsp(w)
         /\ Held(CImmLdsp, v, w) => v = operand_cimmldsp(w)
         /\ Held(CImmSwsp, v, w) => v = operand_cimmswsp(w)
         /\ Held(CImmSdsp, v, w) => v = operand_cimmsdsp(w)
<1>0. w \in Word
  BY HalfwordIsWord
<1>1. ASSUME Held(CImm, v, w)
      PROVE  v = operand_cimmi(w)
  <2>1. Sound(CImm)
    BY SMT DEF Sound, Tidy, CImm, SignedImm, Operand
  <2> QED
    BY <1>0, <1>1, <2>1, HeldRead, CImmRead DEF Held
<1>2. ASSUME Held(CShamt, v, w)
      PROVE  v = operand_cimmsh6(w)
  <2>1. Sound(CShamt)
    BY SMT DEF Sound, Tidy, CShamt, UnsignedImm, NonZero, Operand
  <2> QED
    BY <1>0, <1>2, <2>1, HeldRead, CShamtRead DEF Held
<1>3. ASSUME Held(CImmLui, v, w)
      PROVE  v = operand_cimmui(w)
  <2>1. Sound(CImmLui)
    BY SMT DEF Sound, Tidy, CImmLui, SignedImm, NonZero, Operand
  <2> QED
    BY <1>0, <1>3, <2>1, HeldRead, CImmLuiRead DEF Held
<1>4. ASSUME Held(CImm16, v, w)
      PROVE  v = operand_cimm16sp(w)
  <2>1. Sound(CImm16)
    BY SMT DEF Sound, Tidy, CImm16, SignedImm, NonZero, Operand
  <2> QED
    BY <1>0, <1>4, <2>1, HeldRead, CImm16Read DEF Held
<1>5. ASSUME Held(CImm4, v, w)
      PROVE  v = operand_cimm4spn(w)
  <2>1. Sound(CImm4)
    BY SMT DEF Sound, Tidy, CImm4, UnsignedImm, NonZero, Operand
  <2> QED
    BY <1>0, <1>5, <2>1, HeldRead, CImm4Read DEF Held
<1>6. ASSUME Held(CImmJ, v, w)
      PROVE  v = operand_cimmj(w)
  <2>1. Sound(CImmJ)
    BY SMT DEF Sound, Tidy, CImmJ, SignedImm, Operand
  <2> QED
    BY <1>0, <1>6, <2>1, HeldRead, CImmJRead DEF Held
<1>7. ASSUME Held(CImmB, v, w)
      PROVE  v = operand_cimmb(w)
  <2>1. Sound(CImmB)
    BY SMT DEF Sound, Tidy, CImmB, SignedImm, Operand
  <2> QED
    BY <1>0, <1>7, <2>1, HeldRead, CImmBRead DEF Held
<1>8. ASSUME Held(CImmW, v, w)
      PROVE  v = operand_cimmw(w)
  <2>1. Sound(CImmW)
    BY SMT DEF Sound, Tidy, CImmW, UnsignedImm, Operand
  <2> QED
    BY <1>0, <1>8, <2>1, HeldRead, CImmWRead DEF Held
<1>9. ASSUME Held(CImmD, v, w)
      PROVE  v = operand_cimmd(w)
  <2>1. Sound(CImmD)
    BY SMT DEF Sound, Tidy, CImmD, UnsignedImm, Operand
  <2> QED
    BY <1>0, <1>9, <2>1, HeldRead, CImmDRead DEF Held
<1>10. ASSUME Held(CImmLwsp, v, w)
      PROVE  v = operand_cimmlwsp(w)
  <2>1. Sound(CImmLwsp)
    BY SMT DEF Sound, Tidy, CImmLwsp, UnsignedImm, Operand
  <2> QED
    BY <1>0, <1>10, <2>1, HeldRead, CImmLwspRead DEF Held
<1>11. ASSUME Held(CImmLdsp, v, w)
      PROVE  v = operand_cimmldsp(w)
  <2>1. Sound(CImmLdsp)
    BY SMT DEF Sound, Tidy, CImmLdsp, UnsignedImm, Operand
  <2> QED
    BY <1>0, <1>11, <2>1, HeldRead, CImmLdspRead DEF Held
<1>12. ASSUME Held(CImmSwsp, v, w)
      PROVE  v = operand_cimmswsp(w)
  <2>1. Sound(CImmSwsp)
    BY SMT DEF Sound, Tidy, CImmSwsp, UnsignedImm, Operand
  <2> QED
    BY <1>0, <1>12, <2>1, HeldRead, CImmSwspRead DEF Held
<1>13. ASSUME Held(CImmSdsp, v, w)
      PROVE  v = operand_cimmsdsp(w)
  <2>1. Sound(CImmSdsp)
    BY SMT DEF Sound, Tidy, CImmSdsp, UnsignedImm, Operand
  <2> QED
    BY <1>0, <1>13, <2>1, HeldRead, CImmSdspRead DEF Held
<1> QED
  BY <1>1, <1>2, <1>3, <1>4, <1>5, <1>6, <1>7, <1>8, <1>9, <1>10, <1>11, <1>12, <1>13

LEMMA ShortRegisterHeld ==
  ASSUME NEW w \in Word, NEW v, NEW at \in {2, 7}, Held(XC(at), v, w) \/ Held(FC(at), v, w)
  PROVE  v = Bits(w, at, 3) + 8
<1>1. /\ XC(at).lo = 8 /\ XC(at).hi = 16 /\ XC(at).step = 1 /\ XC(at).layout = {<<at, 3, 0>>}
      /\ FC(at).lo = 8 /\ FC(at).hi = 16 /\ FC(at).step = 1 /\ FC(at).layout = {<<at, 3, 0>>}
  BY DEF XC, FC, Operand
<1> QED
  BY <1>1, ThreeBits

(* Operands with reserved values.                                          *)
LEMMA NonZeroRegisterHeld ==
  ASSUME NEW w \in Word, NEW v, NEW at \in {2, 7}, Held(NonZero(X(at)), v, w)
  PROVE  v = Bits(w, at, 5) /\ v \in 0 .. 31 /\ v # 0
<1> DEFINE o == NonZero(X(at))
<1>1. OneField(o, at, 5, 32) /\ o.but = {0}
  BY DEF OneField, X, Operand, NonZero
<1> HIDE DEF o
<1>2. v = Bits(w, at, 5) /\ v \in Nat /\ v < 32 /\ v \notin o.but
  BY <1>1, OneFieldHeld DEF o
<1> QED
  BY <1>1, <1>2

LEMMA NeitherZeroNorSpHeld ==
  ASSUME NEW w \in Word, NEW v, Held([NonZero(X(7)) EXCEPT !.but = {0, 2}], v, w)
  PROVE  v = Bits(w, 7, 5) /\ v \in 0 .. 31 /\ v # 0 /\ v # 2
<1> DEFINE o == [NonZero(X(7)) EXCEPT !.but = {0, 2}]
<1>1. OneField(o, 7, 5, 32)
  BY DEF OneField, X, Operand, NonZero
<1>2. o.but = {0, 2} /\ Held(o, v, w)
  BY DEF X, Operand, NonZero
<1> HIDE DEF o
<1>3. v = Bits(w, 7, 5) /\ v \in Nat /\ v < 32 /\ v \notin o.but
  BY <1>1, <1>2, OneFieldHeld
<1> QED
  BY <1>2, <1>3

LEMMA NonZeroImmediateHeld ==
  ASSUME NEW w \in Halfword, NEW v, Held(NonZero(CImm), v, w)
  PROVE  v = operand_cimmi(w) /\ v # 0
<1>1. v # 0
  BY DEF Held, Holds, Allows, NonZero, CImm, SignedImm, Operand
<1>2. Held(CImm, v, w)
  BY DEF Held, Holds, Allows, NonZero, CImm, SignedImm, Operand
<1> QED
  BY <1>1, <1>2, ShortImmediateHeld

LEMMA OnlyHeld ==
  ASSUME NEW w \in Word, NEW v, NEW kind, NEW c \in Int, Held(Only(kind, c), v, w)
  PROVE  v = c
BY DEF Held, Holds, Allows, Only, Operand

-----------------------------------------------------------------------------
(* The bits of the word where the operands of a line have their places.    *)
Places(args) == UNION {Span(args[k].layout) : k \in DOMAIN args}

(* The word w is that of the entry e with these marks and operands v.      *)
Carries(w, e, marks, v) ==
  /\ w \in Word /\ marks \subseteq {"aq", "rl"} /\ Exactly(e, marks, BitsOf(w))
  /\ DOMAIN v = DOMAIN e.args
  /\ \A k \in DOMAIN e.args : Held(e.args[k], v[k], w)

LEMMA PlacesOf ==
  /\ Places(<< >>) = {}
  /\ \A a : Places(<<a>>) = Span(a.layout)
  /\ \A a, b : Places(<<a, b>>) = Span(a.layout) \cup Span(b.layout)
  /\ \A a, b, c : Places(<<a, b, c>>) = Span(a.layout) \cup Span(b.layout) \cup Span(c.layout)
  /\ \A a, b, c, d : Places(<<a, b, c, d>>) =
       Span(a.layout) \cup Span(b.layout) \cup Span(c.layout) \cup Span(d.layout)
  /\ \A a, b, c, d, e : Places(<<a, b, c, d, e>>) =
       Span(a.layout) \cup Span(b.layout) \cup Span(c.layout) \cup Span(d.layout) \cup Span(e.layout)
<1>1. Places(<< >>) = {}
  BY DEF Places
<1>2. ASSUME NEW a
      PROVE  Places(<<a>>) = Span(a.layout)
  BY DEF Places
<1>3. ASSUME NEW a, NEW b
      PROVE  Places(<<a, b>>) = Span(a.layout) \cup Span(b.layout)
  BY DEF Places
<1>4. ASSUME NEW a, NEW b, NEW c
      PROVE  Places(<<a, b, c>>) = Span(a.layout) \cup Span(b.layout) \cup Span(c.layout)
  BY DEF Places
<1>5. ASSUME NEW a, NEW b, NEW c, NEW d
      PROVE  Places(<<a, b, c, d>>) =
               Span(a.layout) \cup Span(b.layout) \cup Span(c.layout) \cup Span(d.layout)
  BY DEF Places
<1>6. ASSUME NEW a, NEW b, NEW c, NEW d, NEW e
      PROVE  Places(<<a, b, c, d, e>>) =
               Span(a.layout) \cup Span(b.layout) \cup Span(c.layout) \cup Span(d.layout) \cup Span(e.layout)
  BY DEF Places
<1> QED
  BY <1>1, <1>2, <1>3, <1>4, <1>5, <1>6

(* The places of the operands of 32-bit instructions.                      *)
LEMMA WideSpans ==
  /\ Span(Rd.layout) = 7 .. 11
  /\ Span(Rs1.layout) = 15 .. 19
  /\ Span(Rs2.layout) = 20 .. 24
  /\ Span(Fd.layout) = 7 .. 11
  /\ Span(Fs1.layout) = 15 .. 19
  /\ Span(Fs2.layout) = 20 .. 24
  /\ Span(Fs3.layout) = 27 .. 31
  /\ Span(Rm.layout) = 12 .. 14
  /\ Span(Csr.layout) = 20 .. 31
  /\ Span(Zimm.layout) = 15 .. 19
  /\ Span(Pred.layout) = 24 .. 27
  /\ Span(Succ.layout) = 20 .. 23
  /\ Span(Sh(5).layout) = 20 .. 24
  /\ Span(Sh(6).layout) = 20 .. 25
  /\ Span(ImmI.layout) = 20 .. 31
  /\ Span(ImmU.layout) = 12 .. 31
  /\ Span(ImmS.layout) = 7 .. 11 \cup 25 .. 31
  /\ Span(ImmB.layout) = 7 .. 11 \cup 25 .. 31
  /\ Span(ImmJ.layout) = 12 .. 31
<1>1. Span(Rd.layout) = 7 .. 11
  <2>1. Rd.layout = {<<7, 5, 0>>}
    BY SMT DEF Rd, X, Operand
  <2> QED
    BY <2>1, SMT DEF Span
<1>2. Span(Rs1.layout) = 15 .. 19
  <2>1. Rs1.layout = {<<15, 5, 0>>}
    BY SMT DEF Rs1, X, Operand
  <2> QED
    BY <2>1, SMT DEF Span
<1>3. Span(Rs2.layout) = 20 .. 24
  <2>1. Rs2.layout = {<<20, 5, 0>>}
    BY SMT DEF Rs2, X, Operand
  <2> QED
    BY <2>1, SMT DEF Span
<1>4. Span(Fd.layout) = 7 .. 11
  <2>1. Fd.layout = {<<7, 5, 0>>}
    BY SMT DEF Fd, F, Operand
  <2> QED
    BY <2>1, SMT DEF Span
<1>5. Span(Fs1.layout) = 15 .. 19
  <2>1. Fs1.layout = {<<15, 5, 0>>}
    BY SMT DEF Fs1, F, Operand
  <2> QED
    BY <2>1, SMT DEF Span
<1>6. Span(Fs2.layout) = 20 .. 24
  <2>1. Fs2.layout = {<<20, 5, 0>>}
    BY SMT DEF Fs2, F, Operand
  <2> QED
    BY <2>1, SMT DEF Span
<1>7. Span(Fs3.layout) = 27 .. 31
  <2>1. Fs3.layout = {<<27, 5, 0>>}
    BY SMT DEF Fs3, F, Operand
  <2> QED
    BY <2>1, SMT DEF Span
<1>8. Span(Rm.layout) = 12 .. 14
  <2>1. Rm.layout = {<<12, 3, 0>>}
    BY SMT DEF Rm, Operand
  <2> QED
    BY <2>1, SMT DEF Span
<1>9. Span(Csr.layout) = 20 .. 31
  <2>1. Csr.layout = {<<20, 12, 0>>}
    BY SMT DEF Csr, Operand
  <2> QED
    BY <2>1, SMT DEF Span
<1>10. Span(Zimm.layout) = 15 .. 19
  <2>1. Zimm.layout = {<<15, 5, 0>>}
    BY SMT DEF Zimm, Operand
  <2> QED
    BY <2>1, SMT DEF Span
<1>11. Span(Pred.layout) = 24 .. 27
  <2>1. Pred.layout = {<<24, 4, 0>>}
    BY SMT DEF Pred, Operand
  <2> QED
    BY <2>1, SMT DEF Span
<1>12. Span(Succ.layout) = 20 .. 23
  <2>1. Succ.layout = {<<20, 4, 0>>}
    BY SMT DEF Succ, Operand
  <2> QED
    BY <2>1, SMT DEF Span
<1>13. Span(Sh(5).layout) = 20 .. 24
  <2> DEFINE o == Sh(5)
  <2>1. o.layout = {<<20, 5, 0>>}
    BY SMT DEF Sh, Operand
  <2> HIDE DEF o
  <2>2. Span(o.layout) = 20 .. 24
    BY <2>1, SMT DEF Span
  <2> QED
    BY <2>2 DEF o
<1>14. Span(Sh(6).layout) = 20 .. 25
  <2> DEFINE o == Sh(6)
  <2>1. o.layout = {<<20, 6, 0>>}
    BY SMT DEF Sh, Operand
  <2> HIDE DEF o
  <2>2. Span(o.layout) = 20 .. 25
    BY <2>1, SMT DEF Span
  <2> QED
    BY <2>2 DEF o
<1>15. Span(ImmI.layout) = 20 .. 31
  <2>1. ImmI.layout = {<<20, 12, 0>>}
    BY SMT DEF ImmI, SignedImm, Operand
  <2> QED
    BY <2>1, SMT DEF Span
<1>16. Span(ImmU.layout) = 12 .. 31
  <2>1. ImmU.layout = {<<12, 20, 12>>}
    BY SMT DEF ImmU, Operand
  <2> QED
    BY <2>1, SMT DEF Span
<1>17. Span(ImmS.layout) = 7 .. 11 \cup 25 .. 31
  <2>1. ImmS.layout = {<<25, 7, 5>>, <<7, 5, 0>>}
    BY SMT DEF ImmS, SignedImm, Operand
  <2> QED
    BY <2>1, SMT DEF Span
<1>18. Span(ImmB.layout) = 7 .. 11 \cup 25 .. 31
  <2>1. ImmB.layout = {<<31, 1, 12>>, <<25, 6, 5>>, <<8, 4, 1>>, <<7, 1, 11>>}
    BY SMT DEF ImmB, SignedImm, Operand
  <2> QED
    BY <2>1, SMT DEF Span
<1>19. Span(ImmJ.layout) = 12 .. 31
  <2>1. ImmJ.layout = {<<31, 1, 20>>, <<21, 10, 1>>, <<20, 1, 11>>, <<12, 8, 12>>}
    BY SMT DEF ImmJ, SignedImm, Operand
  <2> QED
    BY <2>1, SMT DEF Span
<1> QED
  BY <1>1, <1>2, <1>3, <1>4, <1>5, <1>6, <1>7, <1>8, <1>9, <1>10, <1>11, <1>12, <1>13, <1>14, <1>15, <1>16, <1>17, <1>18, <1>19

NoMarks(e) == e.marked = FALSE

LEMMA Unmarked ==
  ASSUME NEW w, NEW e, NEW marks, NEW v, Carries(w, e, marks, v), NoMarks(e)
  PROVE  marks = {} /\ MarkBits(marks) = {}
<1>1. marks = {}
  BY DEF Carries, Exactly, NoMarks
<1> QED
  BY <1>1 DEF MarkBits

-----------------------------------------------------------------------------
(***************************************************************************)
(* The operands that a format shows: their characters, the kind of each    *)
(* and the field of rv_instInfo it shows.  Without marks they are at every *)
(* second place from the third on.                                         *)
(***************************************************************************)
Letter == {"0", "1", "2", "3", "4", "5", "6", "7", "i", "o", "c", "r", "p", "s"}

KindOf(c) ==
  CASE c \in {"0", "1", "2"}      -> "x"
    [] c \in {"3", "4", "5", "6"} -> "f"
    [] c = "7"                    -> "num"
    [] c \in {"i", "o"}           -> "imm"
    [] c = "c"                    -> "csr"
    [] c = "r"                    -> "rm"
    [] c \in {"p", "s"}           -> "fence"

ShownRm(d) == IF d.rm \in {5, 6} THEN "inv" ELSE d.rm

ValueOf(c, d) ==
  CASE c \in {"0", "3"}      -> d.rd
    [] c \in {"1", "4", "7"} -> d.rs1
    [] c \in {"2", "5"}      -> d.rs2
    [] c = "6"               -> d.rs3
    [] c \in {"i", "o"}      -> d.imm
    [] c = "c"               -> d.imm % 4096
    [] c = "r"               -> ShownRm(d)
    [] c = "p"               -> d.pred
    [] c = "s"               -> d.succ

Count(ft) == IF ft[2] = "A" THEN (IF Len(ft) = 11 THEN 3 ELSE 2) ELSE (Len(ft) - 1) \div 2

Slot(ft, k) == IF ft[2] = "A" THEN (IF k = 3 THEN 10 ELSE IF k = 2 /\ Len(ft) = 9 THEN 8 ELSE 2 * k + 3)
                              ELSE 2 * k + 1

(* The k-th operand of args is the one the character c shows, and its      *)
(* value the field that c shows.                                           *)
Tells(o, x, c, d) == o.kind = KindOf(c) /\ x = ValueOf(c, d)

Told(args, v, ft, d) ==
  /\ DOMAIN args = 1 .. Count(ft)
  /\ \A k \in 1 .. Count(ft) : Tells(args[k], v[k], ft[Slot(ft, k)], d)

(* The record of a word that is to be cut up.                              *)
Fresh(inst, pc, op) ==
  [pc |-> pc, inst |-> inst, imm |-> 0, op |-> op, type |-> "illegal",
   rd |-> 0, rs1 |-> 0, rs2 |-> 0, rs3 |-> 0, rm |-> 0, pred |-> 0, succ |-> 0, aq |-> 0, rl |-> 0]

Cut(inst, pc, op, type) == rv_inst_oprands(Fresh(inst, pc, op), type)

-----------------------------------------------------------------------------
LEMMA KindsOfOperands ==
  /\ Rd.kind = "x"
  /\ Rs1.kind = "x"
  /\ Rs2.kind = "x"
  /\ Fd.kind = "f"
  /\ Fs1.kind = "f"
  /\ Fs2.kind = "f"
  /\ Fs3.kind = "f"
  /\ Rm.kind = "rm"
  /\ Csr.kind = "csr"
  /\ Zimm.kind = "num"
  /\ Pred.kind = "fence"
  /\ Succ.kind = "fence"
  /\ ImmI.kind = "imm"
  /\ ImmS.kind = "imm"
  /\ ImmB.kind = "imm"
  /\ ImmJ.kind = "imm"
  /\ ImmU.kind = "imm"
  /\ RdC.kind = "x"
  /\ Rs2C.kind = "x"
  /\ RdLui.kind = "x"
  /\ CImm.kind = "imm"
  /\ CShamt.kind = "imm"
  /\ CImmLui.kind = "imm"
  /\ CImm16.kind = "imm"
  /\ CImm4.kind = "imm"
  /\ CImmJ.kind = "imm"
  /\ CImmB.kind = "imm"
  /\ CImmW.kind = "imm"
  /\ CImmD.kind = "imm"
  /\ CImmLwsp.kind = "imm"
  /\ CImmLdsp.kind = "imm"
  /\ CImmSwsp.kind = "imm"
  /\ CImmSdsp.kind = "imm"
  /\ CImmAddi.kind = "imm"
  /\ zero.kind = "x"
  /\ ra.kind = "x"
  /\ sp.kind = "x"
  /\ none.kind = "imm"
  /\ \A n : Sh(n).kind = "imm"
  /\ \A lo : XC(lo).kind = "x" /\ FC(lo).kind = "f" /\ X(lo).kind = "x" /\ F(lo).kind = "f"
<1>1. Rd.kind = "x"
  BY SMT DEF Rd, X, Operand
<1>2. Rs1.kind = "x"
  BY SMT DEF Rs1, X, Operand
<1>3. Rs2.kind = "x"
  BY SMT DEF Rs2, X, Operand
<1>4. Fd.kind = "f"
  BY SMT DEF Fd, F, Operand
<1>5. Fs1.kind = "f"
  BY SMT DEF Fs1, F, Operand
<1>6. Fs2.kind = "f"
  BY SMT DEF Fs2, F, Operand
<1>7. Fs3.kind = "f"
  BY SMT DEF Fs3, F, Operand
<1>8. Rm.kind = "rm"
  BY SMT DEF Rm, Operand
<1>9. Csr.kind = "csr"
  BY SMT DEF Csr, Operand
<1>10. Zimm.kind = "num"
  BY SMT DEF Zimm, Operand
<1>11. Pred.kind = "fence"
  BY SMT DEF Pred, Operand
<1>12. Succ.kind = "fence"
  BY SMT DEF Succ, Operand
<1>13. ImmI.kind = "imm"
  BY SMT DEF ImmI, SignedImm, Operand
<1>14. ImmS.kind = "imm"
  BY SMT DEF ImmS, SignedImm, Operand
<1>15. ImmB.kind = "imm"
  BY SMT DEF ImmB, SignedImm, Operand
<1>16. ImmJ.kind = "imm"
  BY SMT DEF ImmJ, SignedImm, Operand
<1>17. ImmU.kind = "imm"
  BY SMT DEF ImmU, Operand
<1>18. RdC.kind = "x"
  BY SMT DEF RdC, NonZero, X, Operand
<1>19. Rs2C.kind = "x"
  BY SMT DEF Rs2C, NonZero, X, Operand
<1>20. RdLui.kind = "x"
  BY SMT DEF RdLui, RdC, NonZero, X, Operand
<1>21. CImm.kind = "imm"
  BY SMT DEF CImm, SignedImm, Operand
<1>22. CShamt.kind = "imm"
  BY SMT DEF CShamt, NonZero, UnsignedImm, Operand
<1>23. CImmLui.kind = "imm"
  BY SMT DEF CImmLui, NonZero, SignedImm, Operand
<1>24. CImm16.kind = "imm"
  BY SMT DEF CImm16, NonZero, SignedImm, Operand
<1>25. CImm4.kind = "imm"
  BY SMT DEF CImm4, NonZero, UnsignedImm, Operand
<1>26. CImmJ.kind = "imm"
  BY SMT DEF CImmJ, SignedImm, Operand
<1>27. CImmB.kind = "imm"
  BY SMT DEF CImmB, SignedImm, Operand
<1>28. CImmW.kind = "imm"
  BY SMT DEF CImmW, UnsignedImm, Operand
<1>29. CImmD.kind = "imm"
  BY SMT DEF CImmD, UnsignedImm, Operand
<1>30. CImmLwsp.kind = "imm"
  BY SMT DEF CImmLwsp, UnsignedImm, Operand
<1>31. CImmLdsp.kind = "imm"
  BY SMT DEF CImmLdsp, UnsignedImm, Operand
<1>32. CImmSwsp.kind = "imm"
  BY SMT DEF CImmSwsp, UnsignedImm, Operand
<1>33. CImmSdsp.kind = "imm"
  BY SMT DEF CImmSdsp, UnsignedImm, Operand
<1>34. CImmAddi.kind = "imm"
  BY SMT DEF CImmAddi, NonZero, CImm, SignedImm, Operand
<1>35. zero.kind = "x"
  BY SMT DEF zero, Only, Operand
<1>36. ra.kind = "x"
  BY SMT DEF ra, Only, Operand
<1>37. sp.kind = "x"
  BY SMT DEF sp, Only, Operand
<1>38. none.kind = "imm"
  BY SMT DEF none, Only, Operand
<1>39. \A n : Sh(n).kind = "imm"
  BY DEF Sh, Operand
<1>40. \A lo : XC(lo).kind = "x" /\ FC(lo).kind = "f" /\ X(lo).kind = "x" /\ F(lo).kind = "f"
  BY DEF XC, FC, X, F, Operand
<1> QED
  BY <1>1, <1>2, <1>3, <1>4, <1>5, <1>6, <1>7, <1>8, <1>9, <1>10, <1>11, <1>12, <1>13, <1>14, <1>15, <1>16, <1>17, <1>18, <1>19, <1>20, <1>21, <1>22, <1>23, <1>24, <1>25, <1>26, <1>27, <1>28, <1>29, <1>30, <1>31, <1>32, <1>33, <1>34, <1>35, <1>36, <1>37, <1>38, <1>39, <1>40

LEMMA LetterKinds ==
  /\ KindOf("0") = "x"
  /\ KindOf("1") = "x"
  /\ KindOf("2") = "x"
  /\ KindOf("3") = "f"
  /\ KindOf("4") = "f"
  /\ KindOf("5") = "f"
  /\ KindOf("6") = "f"
  /\ KindOf("7") = "num"
  /\ KindOf("i") = "imm"
  /\ KindOf("o") = "imm"
  /\ KindOf("c") = "csr"
  /\ KindOf("r") = "rm"
  /\ KindOf("p") = "fence"
  /\ KindOf("s") = "fence"
BY DEF KindOf

LEMMA LetterValues ==
  \A d :
    /\ ValueOf("0", d) = d.rd
    /\ ValueOf("1", d) = d.rs1
    /\ ValueOf("2", d) = d.rs2
    /\ ValueOf("3", d) = d.rd
    /\ ValueOf("4", d) = d.rs1
    /\ ValueOf("5", d) = d.rs2
    /\ ValueOf("6", d) = d.rs3
    /\ ValueOf("7", d) = d.rs1
    /\ ValueOf("i", d) = d.imm
    /\ ValueOf("o", d) = d.imm
    /\ ValueOf("p", d) = d.pred
    /\ ValueOf("s", d) = d.succ
    /\ ValueOf("c", d) = d.imm % 4096
    /\ ValueOf("r", d) = ShownRm(d)
BY DEF ValueOf

LEMMA Slots_fmt_none ==
  /\ Count(fmt_none) = 0
BY DEF Count, Slot, fmt_none

LEMMA Slots_fmt_rs1 ==
  /\ Count(fmt_rs1) = 1
  /\ fmt_rs1[Slot(fmt_rs1, 1)] = "1"
BY DEF Count, Slot, fmt_rs1

LEMMA Slots_fmt_offset ==
  /\ Count(fmt_offset) = 1
  /\ fmt_offset[Slot(fmt_offset, 1)] = "o"
BY DEF Count, Slot, fmt_offset

LEMMA Slots_fmt_pred_succ ==
  /\ Count(fmt_pred_succ) = 2
  /\ fmt_pred_succ[Slot(fmt_pred_succ, 1)] = "p"
  /\ fmt_pred_succ[Slot(fmt_pred_succ, 2)] = "s"
BY DEF Count, Slot, fmt_pred_succ

LEMMA Slots_fmt_rs1_rs2 ==
  /\ Count(fmt_rs1_rs2) = 2
  /\ fmt_rs1_rs2[Slot(fmt_rs1_rs2, 1)] = "1"
  /\ fmt_rs1_rs2[Slot(fmt_rs1_rs2, 2)] = "2"
BY DEF Count, Slot, fmt_rs1_rs2

LEMMA Slots_fmt_rd_imm ==
  /\ Count(fmt_rd_imm) = 2
  /\ fmt_rd_imm[Slot(fmt_rd_imm, 1)] = "0"
  /\ fmt_rd_imm[Slot(fmt_rd_imm, 2)] = "i"
BY DEF Count, Slot, fmt_rd_imm

LEMMA Slots_fmt_rd_offset ==
  /\ Count(fmt_rd_offset) = 2
  /\ fmt_rd_offset[Slot(fmt_rd_offset, 1)] = "0"
  /\ fmt_rd_offset[Slot(fmt_rd_offset, 2)] = "o"
BY DEF Count, Slot, fmt_rd_offset

LEMMA Slots_fmt_rd_rs1_rs2 ==
  /\ Count(fmt_rd_rs1_rs2) = 3
  /\ fmt_rd_rs1_rs2[Slot(fmt_rd_rs1_rs2, 1)] = "0"
  /\ fmt_rd_rs1_rs2[Slot(fmt_rd_rs1_rs2, 2)] = "1"
  /\ fmt_rd_rs1_rs2[Slot(fmt_rd_rs1_rs2, 3)] = "2"
BY DEF Count, Slot, fmt_rd_rs1_rs2

LEMMA Slots_fmt_frd_rs1 ==
  /\ Count(fmt_frd_rs1) = 2
  /\ fmt_frd_rs1[Slot(fmt_frd_rs1, 1)] = "3"
  /\ fmt_frd_rs1[Slot(fmt_frd_rs1, 2)] = "1"
BY DEF Count, Slot, fmt_frd_rs1

LEMMA Slots_fmt_rd_frs1 ==
  /\ Count(fmt_rd_frs1) = 2
  /\ fmt_rd_frs1[Slot(fmt_rd_frs1, 1)] = "0"
  /\ fmt_rd_frs1[Slot(fmt_rd_frs1, 2)] = "4"
BY DEF Count, Slot, fmt_rd_frs1

LEMMA Slots_fmt_rd_frs1_frs2 ==
  /\ Count(fmt_rd_frs1_frs2) = 3
  /\ fmt_rd_frs1_frs2[Slot(fmt_rd_frs1_frs2, 1)] = "0"
  /\ fmt_rd_frs1_frs2[Slot(fmt_rd_frs1_frs2, 2)] = "4"
  /\ fmt_rd_frs1_frs2[Slot(fmt_rd_frs1_frs2, 3)] = "5"
BY DEF Count, Slot, fmt_rd_frs1_frs2

LEMMA Slots_fmt_frd_frs1_frs2 ==
  /\ Count(fmt_frd_frs1_frs2) = 3
  /\ fmt_frd_frs1_frs2[Slot(fmt_frd_frs1_frs2, 1)] = "3"
  /\ fmt_frd_frs1_frs2[Slot(fmt_frd_frs1_frs2, 2)] = "4"
  /\ fmt_frd_frs1_frs2[Slot(fmt_frd_frs1_frs2, 3)] = "5"
BY DEF Count, Slot, fmt_frd_frs1_frs2

LEMMA Slots_fmt_rm_frd_frs1 ==
  /\ Count(fmt_rm_frd_frs1) = 3
  /\ fmt_rm_frd_frs1[Slot(fmt_rm_frd_frs1, 1)] = "r"
  /\ fmt_rm_frd_frs1[Slot(fmt_rm_frd_frs1, 2)] = "3"
  /\ fmt_rm_frd_frs1[Slot(fmt_rm_frd_frs1, 3)] = "4"
BY DEF Count, Slot, fmt_rm_frd_frs1

LEMMA Slots_fmt_rm_frd_rs1 ==
  /\ Count(fmt_rm_frd_rs1) = 3
  /\ fmt_rm_frd_rs1[Slot(fmt_rm_frd_rs1, 1)] = "r"
  /\ fmt_rm_frd_rs1[Slot(fmt_rm_frd_rs1, 2)] = "3"
  /\ fmt_rm_frd_rs1[Slot(fmt_rm_frd_rs1, 3)] = "1"
BY DEF Count, Slot, fmt_rm_frd_rs1

LEMMA Slots_fmt_rm_rd_frs1 ==
  /\ Count(fmt_rm_rd_frs1) = 3
  /\ fmt_rm_rd_frs1[Slot(fmt_rm_rd_frs1, 1)] = "r"
  /\ fmt_rm_rd_frs1[Slot(fmt_rm_rd_frs1, 2)] = "0"
  /\ fmt_rm_rd_frs1[Slot(fmt_rm_rd_frs1, 3)] = "4"
BY DEF Count, Slot, fmt_rm_rd_frs1

LEMMA Slots_fmt_rm_frd_frs1_frs2 ==
  /\ Count(fmt_rm_frd_frs1_frs2) = 4
  /\ fmt_rm_frd_frs1_frs2[Slot(fmt_rm_frd_frs1_frs2, 1)] = "r"
  /\ fmt_rm_frd_frs1_frs2[Slot(fmt_rm_frd_frs1_frs2, 2)] = "3"
  /\ fmt_rm_frd_frs1_frs2[Slot(fmt_rm_frd_frs1_frs2, 3)] = "4"
  /\ fmt_rm_frd_frs1_frs2[Slot(fmt_rm_frd_frs1_frs2, 4)] = "5"
BY DEF Count, Slot, fmt_rm_frd_frs1_frs2

LEMMA Slots_fmt_rm_frd_frs1_frs2_frs3 ==
  /\ Count(fmt_rm_frd_frs1_frs2_frs3) = 5
  /\ fmt_rm_frd_frs1_frs2_frs3[Slot(fmt_rm_frd_frs1_frs2_frs3, 1)] = "r"
  /\ fmt_rm_frd_frs1_frs2_frs3[Slot(fmt_rm_frd_frs1_frs2_frs3, 2)] = "3"
  /\ fmt_rm_frd_frs1_frs2_frs3[Slot(fmt_rm_frd_frs1_frs2_frs3, 3)] = "4"
  /\ fmt_rm_frd_frs1_frs2_frs3[Slot(fmt_rm_frd_frs1_frs2_frs3, 4)] = "5"
  /\ fmt_rm_frd_frs1_frs2_frs3[Slot(fmt_rm_frd_frs1_frs2_frs3, 5)] = "6"
BY DEF Count, Slot, fmt_rm_frd_frs1_frs2_frs3

LEMMA Slots_fmt_rd_rs1_imm ==
  /\ Count(fmt_rd_rs1_imm) = 3
  /\ fmt_rd_rs1_imm[Slot(fmt_rd_rs1_imm, 1)] = "0"
  /\ fmt_rd_rs1_imm[Slot(fmt_rd_rs1_imm, 2)] = "1"
  /\ fmt_rd_rs1_imm[Slot(fmt_rd_rs1_imm, 3)] = "i"
BY DEF Count, Slot, fmt_rd_rs1_imm

LEMMA Slots_fmt_rd_rs1_offset ==
  /\ Count(fmt_rd_rs1_offset) = 3
  /\ fmt_rd_rs1_offset[Slot(fmt_rd_rs1_offset, 1)] = "0"
  /\ fmt_rd_rs1_offset[Slot(fmt_rd_rs1_offset, 2)] = "1"
  /\ fmt_rd_rs1_offset[Slot(fmt_rd_rs1_offset, 3)] = "i"
BY DEF Count, Slot, fmt_rd_rs1_offset

LEMMA Slots_fmt_rd_offset_rs1 ==
  /\ Count(fmt_rd_offset_rs1) = 3
  /\ fmt_rd_offset_rs1[Slot(fmt_rd_offset_rs1, 1)] = "0"
  /\ fmt_rd_offset_rs1[Slot(fmt_rd_offset_rs1, 2)] = "i"
  /\ fmt_rd_offset_rs1[Slot(fmt_rd_offset_rs1, 3)] = "1"
BY DEF Count, Slot, fmt_rd_offset_rs1

LEMMA Slots_fmt_frd_offset_rs1 ==
  /\ Count(fmt_frd_offset_rs1) = 3
  /\ fmt_frd_offset_rs1[Slot(fmt_frd_offset_rs1, 1)] = "3"
  /\ fmt_frd_offset_rs1[Slot(fmt_frd_offset_rs1, 2)] = "i"
  /\ fmt_frd_offset_rs1[Slot(fmt_frd_offset_rs1, 3)] = "1"
BY DEF Count, Slot, fmt_frd_offset_rs1

LEMMA Slots_fmt_rd_csr_rs1 ==
  /\ Count(fmt_rd_csr_rs1) = 3
  /\ fmt_rd_csr_rs1[Slot(fmt_rd_csr_rs1, 1)] = "0"
  /\ fmt_rd_csr_rs1[Slot(fmt_rd_csr_rs1, 2)] = "c"
  /\ fmt_rd_csr_rs1[Slot(fmt_rd_csr_rs1, 3)] = "1"
BY DEF Count, Slot, fmt_rd_csr_rs1

LEMMA Slots_fmt_rd_csr_zimm ==
  /\ Count(fmt_rd_csr_zimm) = 3
  /\ fmt_rd_csr_zimm[Slot(fmt_rd_csr_zimm, 1)] = "0"
  /\ fmt_rd_csr_zimm[Slot(fmt_rd_csr_zimm, 2)] = "c"
  /\ fmt_rd_csr_zimm[Slot(fmt_rd_csr_zimm, 3)] = "7"
BY DEF Count, Slot, fmt_rd_csr_zimm

LEMMA Slots_fmt_rs2_offset_rs1 ==
  /\ Count(fmt_rs2_offset_rs1) = 3
  /\ fmt_rs2_offset_rs1[Slot(fmt_rs2_offset_rs1, 1)] = "2"
  /\ fmt_rs2_offset_rs1[Slot(fmt_rs2_offset_rs1, 2)] = "i"
  /\ fmt_rs2_offset_rs1[Slot(fmt_rs2_offset_rs1, 3)] = "1"
BY DEF Count, Slot, fmt_rs2_offset_rs1

LEMMA Slots_fmt_frs2_offset_rs1 ==
  /\ Count(fmt_frs2_offset_rs1) = 3
  /\ fmt_frs2_offset_rs1[Slot(fmt_frs2_offset_rs1, 1)] = "5"
  /\ fmt_frs2_offset_rs1[Slot(fmt_frs2_offset_rs1, 2)] = "i"
  /\ fmt_frs2_offset_rs1[Slot(fmt_frs2_offset_rs1, 3)] = "1"
BY DEF Count, Slot, fmt_frs2_offset_rs1

LEMMA Slots_fmt_rs1_rs2_offset ==
  /\ Count(fmt_rs1_rs2_offset) = 3
  /\ fmt_rs1_rs2_offset[Slot(fmt_rs1_rs2_offset, 1)] = "1"
  /\ fmt_rs1_rs2_offset[Slot(fmt_rs1_rs2_offset, 2)] = "2"
  /\ fmt_rs1_rs2_offset[Slot(fmt_rs1_rs2_offset, 3)] = "o"
BY DEF Count, Slot, fmt_rs1_rs2_offset

LEMMA Slots_fmt_rs2_rs1_offset ==
  /\ Count(fmt_rs2_rs1_offset) = 3
  /\ fmt_rs2_rs1_offset[Slot(fmt_rs2_rs1_offset, 1)] = "2"
  /\ fmt_rs2_rs1_offset[Slot(fmt_rs2_rs1_offset, 2)] = "1"
  /\ fmt_rs2_rs1_offset[Slot(fmt_rs2_rs1_offset, 3)] = "o"
BY DEF Count, Slot, fmt_rs2_rs1_offset

LEMMA Slots_fmt_aqrl_rd_rs2_rs1 ==
  /\ Count(fmt_aqrl_rd_rs2_rs1) = 3
  /\ fmt_aqrl_rd_rs2_rs1[Slot(fmt_aqrl_rd_rs2_rs1, 1)] = "0"
  /\ fmt_aqrl_rd_rs2_rs1[Slot(fmt_aqrl_rd_rs2_rs1, 2)] = "2"
  /\ fmt_aqrl_rd_rs2_rs1[Slot(fmt_aqrl_rd_rs2_rs1, 3)] = "1"
BY DEF Count, Slot, fmt_aqrl_rd_rs2_rs1

LEMMA Slots_fmt_aqrl_rd_rs1 ==
  /\ Count(fmt_aqrl_rd_rs1) = 2
  /\ fmt_aqrl_rd_rs1[Slot(fmt_aqrl_rd_rs1, 1)] = "0"
  /\ fmt_aqrl_rd_rs1[Slot(fmt_aqrl_rd_rs1, 2)] = "1"
BY DEF Count, Slot, fmt_aqrl_rd_rs1

LEMMA Slots_fmt_rd ==
  /\ Count(fmt_rd) = 1
  /\ fmt_rd[Slot(fmt_rd, 1)] = "0"
BY DEF Count, Slot, fmt_rd

LEMMA Slots_fmt_rd_zimm ==
  /\ Count(fmt_rd_zimm) = 2
  /\ fmt_rd_zimm[Slot(fmt_rd_zimm, 1)] = "0"
  /\ fmt_rd_zimm[Slot(fmt_rd_zimm, 2)] = "7"
BY DEF Count, Slot, fmt_rd_zimm

LEMMA Slots_fmt_rd_rs1 ==
  /\ Count(fmt_rd_rs1) = 2
  /\ fmt_rd_rs1[Slot(fmt_rd_rs1, 1)] = "0"
  /\ fmt_rd_rs1[Slot(fmt_rd_rs1, 2)] = "1"
BY DEF Count, Slot, fmt_rd_rs1

LEMMA Slots_fmt_rd_rs2 ==
  /\ Count(fmt_rd_rs2) = 2
  /\ fmt_rd_rs2[Slot(fmt_rd_rs2, 1)] = "0"
  /\ fmt_rd_rs2[Slot(fmt_rd_rs2, 2)] = "2"
BY DEF Count, Slot, fmt_rd_rs2

LEMMA Slots_fmt_rs1_offset ==
  /\ Count(fmt_rs1_offset) = 2
  /\ fmt_rs1_offset[Slot(fmt_rs1_offset, 1)] = "1"
  /\ fmt_rs1_offset[Slot(fmt_rs1_offset, 2)] = "o"
BY DEF Count, Slot, fmt_rs1_offset

LEMMA Slots_fmt_rs2_offset ==
  /\ Count(fmt_rs2_offset) = 2
  /\ fmt_rs2_offset[Slot(fmt_rs2_offset, 1)] = "2"
  /\ fmt_rs2_offset[Slot(fmt_rs2_offset, 2)] = "o"
BY DEF Count, Slot, fmt_rs2_offset

LEMMA TypesApart == \A type \in CompressedTypes : type \notin UncompressedTypes
BY DEF CompressedTypes, UncompressedTypes

LEMMA CutUncompressed ==
  \A w, pc, op : \A type \in UncompressedTypes :
    Cut(w, pc, op, type) = UncompressedOperands([Fresh(w, pc, op) EXCEPT !.type = type], type)
BY TypesApart DEF Cut, rv_inst_oprands

LEMMA CutCompressed ==
  \A w, pc, op : \A type \in CompressedTypes :
    Cut(w, pc, op, type) = CompressedOperands([Fresh(w, pc, op) EXCEPT !.type = type], type)
BY TypesApart DEF Cut, rv_inst_oprands

CutFields == {"inst", "op", "rd", "rs1", "rs2", "rs3", "imm", "rm", "aq", "rl", "pred", "succ"}

(* A record that is being cut up: of the word w, with all its fields.      *)
CutOpen(x, w, op) == x.inst = w /\ x.op = op /\ CutFields \subseteq DOMAIN x

LEMMA SetOpen ==
  ASSUME NEW x, NEW w, NEW op, CutOpen(x, w, op),
         NEW rd, NEW rs1, NEW rs2, NEW imm, NEW d, d = Set(x, rd, rs1, rs2, imm)
  PROVE  /\ CutOpen(d, w, op)
         /\ d.rd = rd /\ d.rs1 = rs1 /\ d.rs2 = rs2 /\ d.imm = imm
BY DEF Set, CutOpen, CutFields

LEMMA Cut_none ==
  ASSUME NEW w, NEW pc, NEW op, NEW d, d = Cut(w, pc, op, "none")
  PROVE  /\ d.inst = w /\ d.op = op /\ d.rd = 0 /\ d.rs1 = 0
         /\ d.rs2 = 0 /\ d.imm = 0
<1> DEFINE x == [Fresh(w, pc, op) EXCEPT !.type = "none"]
<1>1. d = UncompressedOperands(x, "none")
  <2>1. "none" \in UncompressedTypes
    BY DEF UncompressedTypes
  <2> QED
    BY <2>1, CutUncompressed
<1>2. CutOpen(x, w, op)
  BY DEF Fresh, CutOpen, CutFields
<1> HIDE DEF x
<1>3. d = Set(x, 0, 0, 0, 0)
  BY <1>1, <1>2 DEF CutOpen, UncompressedOperands
<1> QED
  BY <1>2, <1>3, SetOpen DEF CutOpen

LEMMA Cut_u ==
  ASSUME NEW w, NEW pc, NEW op, NEW d, d = Cut(w, pc, op, "u")
  PROVE  /\ d.inst = w /\ d.op = op /\ d.rd = operand_rd(w) /\ d.rs1 = 0
         /\ d.rs2 = 0 /\ d.imm = operand_imm20(w)
<1> DEFINE x == [Fresh(w, pc, op) EXCEPT !.type = "u"]
<1>1. d = UncompressedOperands(x, "u")
  <2>1. "u" \in UncompressedTypes
    BY DEF UncompressedTypes
  <2> QED
    BY <2>1, CutUncompressed
<1>2. CutOpen(x, w, op)
  BY DEF Fresh, CutOpen, CutFields
<1> HIDE DEF x
<1>3. d = Set(x, operand_rd(w), 0, 0, operand_imm20(w))
  BY <1>1, <1>2 DEF CutOpen, UncompressedOperands
<1> QED
  BY <1>2, <1>3, SetOpen DEF CutOpen

LEMMA Cut_uj ==
  ASSUME NEW w, NEW pc, NEW op, NEW d, d = Cut(w, pc, op, "uj")
  PROVE  /\ d.inst = w /\ d.op = op /\ d.rd = operand_rd(w) /\ d.rs1 = 0
         /\ d.rs2 = 0 /\ d.imm = operand_jimm20(w)
<1> DEFINE x == [Fresh(w, pc, op) EXCEPT !.type = "uj"]
<1>1. d = UncompressedOperands(x, "uj")
  <2>1. "uj" \in UncompressedTypes
    BY DEF UncompressedTypes
  <2> QED
    BY <2>1, CutUncompressed
<1>2. CutOpen(x, w, op)
  BY DEF Fresh, CutOpen, CutFields
<1> HIDE DEF x
<1>3. d = Set(x, operand_rd(w), 0, 0, operand_jimm20(w))
  BY <1>1, <1>2 DEF CutOpen, UncompressedOperands
<1> QED
  BY <1>2, <1>3, SetOpen DEF CutOpen

LEMMA Cut_i ==
  ASSUME NEW w, NEW pc, NEW op, NEW d, d = Cut(w, pc, op, "i")
  PROVE  /\ d.inst = w /\ d.op = op /\ d.rd = operand_rd(w) /\ d.rs1 = operand_rs1(w)
         /\ d.rs2 = 0 /\ d.imm = operand_imm12(w)
<1> DEFINE x == [Fresh(w, pc, op) EXCEPT !.type = "i"]
<1>1. d = UncompressedOperands(x, "i")
  <2>1. "i" \in UncompressedTypes
    BY DEF UncompressedTypes
  <2> QED
    BY <2>1, CutUncompressed
<1>2. CutOpen(x, w, op)
  BY DEF Fresh, CutOpen, CutFields
<1> HIDE DEF x
<1>3. d = Set(x, operand_rd(w), operand_rs1(w), 0, operand_imm12(w))
  BY <1>1, <1>2 DEF CutOpen, UncompressedOperands
<1> QED
  BY <1>2, <1>3, SetOpen DEF CutOpen

LEMMA Cut_i_sh5 ==
  ASSUME NEW w, NEW pc, NEW op, NEW d, d = Cut(w, pc, op, "i_sh5")
  PROVE  /\ d.inst = w /\ d.op = op /\ d.rd = operand_rd(w) /\ d.rs1 = operand_rs1(w)
         /\ d.rs2 = 0 /\ d.imm = operand_shamt5(w)
<1> DEFINE x == [Fresh(w, pc, op) EXCEPT !.type = "i_sh5"]
<1>1. d = UncompressedOperands(x, "i_sh5")
  <2>1. "i_sh5" \in UncompressedTypes
    BY DEF UncompressedTypes
  <2> QED
    BY <2>1, CutUncompressed
<1>2. CutOpen(x, w, op)
  BY DEF Fresh, CutOpen, CutFields
<1> HIDE DEF x
<1>3. d = Set(x, operand_rd(w), operand_rs1(w), 0, operand_shamt5(w))
  BY <1>1, <1>2 DEF CutOpen, UncompressedOperands
<1> QED
  BY <1>2, <1>3, SetOpen DEF CutOpen

LEMMA Cut_i_sh6 ==
  ASSUME NEW w, NEW pc, NEW op, NEW d, d = Cut(w, pc, op, "i_sh6")
  PROVE  /\ d.inst = w /\ d.op = op /\ d.rd = operand_rd(w) /\ d.rs1 = operand_rs1(w)
         /\ d.rs2 = 0 /\ d.imm = operand_shamt6(w)
<1> DEFINE x == [Fresh(w, pc, op) EXCEPT !.type = "i_sh6"]
<1>1. d = UncompressedOperands(x, "i_sh6")
  <2>1. "i_sh6" \in UncompressedTypes
    BY DEF UncompressedTypes
  <2> QED
    BY <2>1, CutUncompressed
<1>2. CutOpen(x, w, op)
  BY DEF Fresh, CutOpen, CutFields
<1> HIDE DEF x
<1>3. d = Set(x, operand_rd(w), operand_rs1(w), 0, operand_shamt6(w))
  BY <1>1, <1>2 DEF CutOpen, UncompressedOperands
<1> QED
  BY <1>2, <1>3, SetOpen DEF CutOpen

LEMMA Cut_i_sh7 ==
  ASSUME NEW w, NEW pc, NEW op, NEW d, d = Cut(w, pc, op, "i_sh7")
  PROVE  /\ d.inst = w /\ d.op = op /\ d.rd = operand_rd(w) /\ d.rs1 = operand_rs1(w)
         /\ d.rs2 = 0 /\ d.imm = operand_shamt7(w)
<1> DEFINE x == [Fresh(w, pc, op) EXCEPT !.type = "i_sh7"]
<1>1. d = UncompressedOperands(x, "i_sh7")
  <2>1. "i_sh7" \in UncompressedTypes
    BY DEF UncompressedTypes
  <2> QED
    BY <2>1, CutUncompressed
<1>2. CutOpen(x, w, op)
  BY DEF Fresh, CutOpen, CutFields
<1> HIDE DEF x
<1>3. d = Set(x, operand_rd(w), operand_rs1(w), 0, operand_shamt7(w))
  BY <1>1, <1>2 DEF CutOpen, UncompressedOperands
<1> QED
  BY <1>2, <1>3, SetOpen DEF CutOpen

LEMMA Cut_i_csr ==
  ASSUME NEW w, NEW pc, NEW op, NEW d, d = Cut(w, pc, op, "i_csr")
  PROVE  /\ d.inst = w /\ d.op = op /\ d.rd = operand_rd(w) /\ d.rs1 = operand_rs1(w)
         /\ d.rs2 = 0 /\ d.imm = operand_csr12(w)
<1> DEFINE x == [Fresh(w, pc, op) EXCEPT !.type = "i_csr"]
<1>1. d = UncompressedOperands(x, "i_csr")
  <2>1. "i_csr" \in UncompressedTypes
    BY DEF UncompressedTypes
  <2> QED
    BY <2>1, CutUncompressed
<1>2. CutOpen(x, w, op)
  BY DEF Fresh, CutOpen, CutFields
<1> HIDE DEF x
<1>3. d = Set(x, operand_rd(w), operand_rs1(w), 0, operand_csr12(w))
  BY <1>1, <1>2 DEF CutOpen, UncompressedOperands
<1> QED
  BY <1>2, <1>3, SetOpen DEF CutOpen

LEMMA Cut_s ==
  ASSUME NEW w, NEW pc, NEW op, NEW d, d = Cut(w, pc, op, "s")
  PROVE  /\ d.inst = w /\ d.op = op /\ d.rd = 0 /\ d.rs1 = operand_rs1(w)
         /\ d.rs2 = operand_rs2(w) /\ d.imm = operand_simm12(w)
<1> DEFINE x == [Fresh(w, pc, op) EXCEPT !.type = "s"]
<1>1. d = UncompressedOperands(x, "s")
  <2>1. "s" \in UncompressedTypes
    BY DEF UncompressedTypes
  <2> QED
    BY <2>1, CutUncompressed
<1>2. CutOpen(x, w, op)
  BY DEF Fresh, CutOpen, CutFields
<1> HIDE DEF x
<1>3. d = Set(x, 0, operand_rs1(w), operand_rs2(w), operand_simm12(w))
  BY <1>1, <1>2 DEF CutOpen, UncompressedOperands
<1> QED
  BY <1>2, <1>3, SetOpen DEF CutOpen

LEMMA Cut_sb ==
  ASSUME NEW w, NEW pc, NEW op, NEW d, d = Cut(w, pc, op, "sb")
  PROVE  /\ d.inst = w /\ d.op = op /\ d.rd = 0 /\ d.rs1 = operand_rs1(w)
         /\ d.rs2 = operand_rs2(w) /\ d.imm = operand_sbimm12(w)
<1> DEFINE x == [Fresh(w, pc, op) EXCEPT !.type = "sb"]
<1>1. d = UncompressedOperands(x, "sb")
  <2>1. "sb" \in UncompressedTypes
    BY DEF UncompressedTypes
  <2> QED
    BY <2>1, CutUncompressed
<1>2. CutOpen(x, w, op)
  BY DEF Fresh, CutOpen, CutFields
<1> HIDE DEF x
<1>3. d = Set(x, 0, operand_rs1(w), operand_rs2(w), operand_sbimm12(w))
  BY <1>1, <1>2 DEF CutOpen, UncompressedOperands
<1> QED
  BY <1>2, <1>3, SetOpen DEF CutOpen

LEMMA Cut_r ==
  ASSUME NEW w, NEW pc, NEW op, NEW d, d = Cut(w, pc, op, "r")
  PROVE  /\ d.inst = w /\ d.op = op /\ d.rd = operand_rd(w) /\ d.rs1 = operand_rs1(w)
         /\ d.rs2 = operand_rs2(w) /\ d.imm = 0
<1> DEFINE x == [Fresh(w, pc, op) EXCEPT !.type = "r"]
<1>1. d = UncompressedOperands(x, "r")
  <2>1. "r" \in UncompressedTypes
    BY DEF UncompressedTypes
  <2> QED
    BY <2>1, CutUncompressed
<1>2. CutOpen(x, w, op)
  BY DEF Fresh, CutOpen, CutFields
<1> HIDE DEF x
<1>3. d = Set(x, operand_rd(w), operand_rs1(w), operand_rs2(w), 0)
  BY <1>1, <1>2 DEF CutOpen, UncompressedOperands
<1> QED
  BY <1>2, <1>3, SetOpen DEF CutOpen

LEMMA Cut_r_m ==
  ASSUME NEW w, NEW pc, NEW op, NEW d, d = Cut(w, pc, op, "r_m")
  PROVE  /\ d.inst = w /\ d.op = op /\ d.rd = operand_rd(w) /\ d.rs1 = operand_rs1(w)
         /\ d.rs2 = operand_rs2(w) /\ d.imm = 0
         /\ d.rm = operand_rm(w)
<1> DEFINE x == [Fresh(w, pc, op) EXCEPT !.type = "r_m"]
<1>1. d = UncompressedOperands(x, "r_m")
  <2>1. "r_m" \in UncompressedTypes
    BY DEF UncompressedTypes
  <2> QED
    BY <2>1, CutUncompressed
<1>2. CutOpen(x, w, op)
  BY DEF Fresh, CutOpen, CutFields
<1> HIDE DEF x
<1> DEFINE y == Set(x, operand_rd(w), operand_rs1(w), operand_rs2(w), 0)
<1>3. d = [y EXCEPT !.rm = operand_rm(w)]
  BY <1>1, <1>2 DEF CutOpen, UncompressedOperands
<1>4. /\ CutOpen(y, w, op) /\ y.rd = operand_rd(w) /\ y.rs1 = operand_rs1(w)
      /\ y.rs2 = operand_rs2(w) /\ y.imm = 0
  BY <1>2, SetOpen
<1> HIDE DEF y
<1> QED
  BY <1>3, <1>4 DEF CutOpen, CutFields

LEMMA Cut_r4_m ==
  ASSUME NEW w, NEW pc, NEW op, NEW d, d = Cut(w, pc, op, "r4_m")
  PROVE  /\ d.inst = w /\ d.op = op /\ d.rd = operand_rd(w) /\ d.rs1 = operand_rs1(w)
         /\ d.rs2 = operand_rs2(w) /\ d.imm = 0
         /\ d.rs3 = operand_rs3(w)
         /\ d.rm = operand_rm(w)
<1> DEFINE x == [Fresh(w, pc, op) EXCEPT !.type = "r4_m"]
<1>1. d = UncompressedOperands(x, "r4_m")
  <2>1. "r4_m" \in UncompressedTypes
    BY DEF UncompressedTypes
  <2> QED
    BY <2>1, CutUncompressed
<1>2. CutOpen(x, w, op)
  BY DEF Fresh, CutOpen, CutFields
<1> HIDE DEF x
<1> DEFINE y == Set(x, operand_rd(w), operand_rs1(w), operand_rs2(w), 0)
<1>3. d = [y EXCEPT !.rs3 = operand_rs3(w), !.rm = operand_rm(w)]
  BY <1>1, <1>2 DEF CutOpen, UncompressedOperands
<1>4. /\ CutOpen(y, w, op) /\ y.rd = operand_rd(w) /\ y.rs1 = operand_rs1(w)
      /\ y.rs2 = operand_rs2(w) /\ y.imm = 0
  BY <1>2, SetOpen
<1> HIDE DEF y
<1> QED
  BY <1>3, <1>4 DEF CutOpen, CutFields

LEMMA Cut_r_a ==
  ASSUME NEW w, NEW pc, NEW op, NEW d, d = Cut(w, pc, op, "r_a")
  PROVE  /\ d.inst = w /\ d.op = op /\ d.rd = operand_rd(w) /\ d.rs1 = operand_rs1(w)
         /\ d.rs2 = operand_rs2(w) /\ d.imm = 0
         /\ d.aq = operand_aq(w)
         /\ d.rl = operand_rl(w)
<1> DEFINE x == [Fresh(w, pc, op) EXCEPT !.type = "r_a"]
<1>1. d = UncompressedOperands(x, "r_a")
  <2>1. "r_a" \in UncompressedTypes
    BY DEF UncompressedTypes
  <2> QED
    BY <2>1, CutUncompressed
<1>2. CutOpen(x, w, op)
  BY DEF Fresh, CutOpen, CutFields
<1> HIDE DEF x
<1> DEFINE y == Set(x, operand_rd(w), operand_rs1(w), operand_rs2(w), 0)
<1>3. d = [y EXCEPT !.aq = operand_aq(w), !.rl = operand_rl(w)]
  BY <1>1, <1>2 DEF CutOpen, UncompressedOperands
<1>4. /\ CutOpen(y, w, op) /\ y.rd = operand_rd(w) /\ y.rs1 = operand_rs1(w)
      /\ y.rs2 = operand_rs2(w) /\ y.imm = 0
  BY <1>2, SetOpen
<1> HIDE DEF y
<1> QED
  BY <1>3, <1>4 DEF CutOpen, CutFields

LEMMA Cut_r_l ==
  ASSUME NEW w, NEW pc, NEW op, NEW d, d = Cut(w, pc, op, "r_l")
  PROVE  /\ d.inst = w /\ d.op = op /\ d.rd = operand_rd(w) /\ d.rs1 = operand_rs1(w)
         /\ d.rs2 = 0 /\ d.imm = 0
         /\ d.aq = operand_aq(w)
         /\ d.rl = operand_rl(w)
<1> DEFINE x == [Fresh(w, pc, op) EXCEPT !.type = "r_l"]
<1>1. d = UncompressedOperands(x, "r_l")
  <2>1. "r_l" \in UncompressedTypes
    BY DEF UncompressedTypes
  <2> QED
    BY <2>1, CutUncompressed
<1>2. CutOpen(x, w, op)
  BY DEF Fresh, CutOpen, CutFields
<1> HIDE DEF x
<1> DEFINE y == Set(x, operand_rd(w), operand_rs1(w), 0, 0)
<1>3. d = [y EXCEPT !.aq = operand_aq(w), !.rl = operand_rl(w)]
  BY <1>1, <1>2 DEF CutOpen, UncompressedOperands
<1>4. /\ CutOpen(y, w, op) /\ y.rd = operand_rd(w) /\ y.rs1 = operand_rs1(w)
      /\ y.rs2 = 0 /\ y.imm = 0
  BY <1>2, SetOpen
<1> HIDE DEF y
<1> QED
  BY <1>3, <1>4 DEF CutOpen, CutFields

LEMMA Cut_r_f ==
  ASSUME NEW w, NEW pc, NEW op, NEW d, d = Cut(w, pc, op, "r_f")
  PROVE  /\ d.inst = w /\ d.op = op /\ d.rd = 0 /\ d.rs1 = 0
         /\ d.rs2 = 0 /\ d.imm = 0
         /\ d.pred = operand_pred(w)
         /\ d.succ = operand_succ(w)
<1> DEFINE x == [Fresh(w, pc, op) EXCEPT !.type = "r_f"]
<1>1. d = UncompressedOperands(x, "r_f")
  <2>1. "r_f" \in UncompressedTypes
    BY DEF UncompressedTypes
  <2> QED
    BY <2>1, CutUncompressed
<1>2. CutOpen(x, w, op)
  BY DEF Fresh, CutOpen, CutFields
<1> HIDE DEF x
<1> DEFINE y == Set(x, 0, 0, 0, 0)
<1>3. d = [y EXCEPT !.pred = operand_pred(w), !.succ = operand_succ(w)]
  BY <1>1, <1>2 DEF CutOpen, UncompressedOperands
<1>4. /\ CutOpen(y, w, op) /\ y.rd = 0 /\ y.rs1 = 0
      /\ y.rs2 = 0 /\ y.imm = 0
  BY <1>2, SetOpen
<1> HIDE DEF y
<1> QED
  BY <1>3, <1>4 DEF CutOpen, CutFields

LEMMA Cut_cb ==
  ASSUME NEW w, NEW pc, NEW op, NEW d, d = Cut(w, pc, op, "cb")
  PROVE  /\ d.inst = w /\ d.op = op /\ d.rd = 0 /\ d.rs1 = Bits(w, 7, 3) + 8
         /\ d.rs2 = 0 /\ d.imm = operand_cimmb(w)
<1> DEFINE x == [Fresh(w, pc, op) EXCEPT !.type = "cb"]
<1>1. d = CompressedOperands(x, "cb")
  <2>1. "cb" \in CompressedTypes
    BY DEF CompressedTypes
  <2> QED
    BY <2>1, CutCompressed
<1>2. CutOpen(x, w, op)
  BY DEF Fresh, CutOpen, CutFields
<1> HIDE DEF x
<1>3. d = Set(x, 0, Bits(w, 7, 3) + 8, 0, operand_cimmb(w))
  BY <1>1, <1>2 DEF CutOpen, CompressedOperands, operand_crs1q
<1> QED
  BY <1>2, <1>3, SetOpen DEF CutOpen

LEMMA Cut_cb_imm ==
  ASSUME NEW w, NEW pc, NEW op, NEW d, d = Cut(w, pc, op, "cb_imm")
  PROVE  /\ d.inst = w /\ d.op = op /\ d.rd = Bits(w, 7, 3) + 8 /\ d.rs1 = Bits(w, 7, 3) + 8
         /\ d.rs2 = 0 /\ d.imm = operand_cimmi(w)
<1> DEFINE x == [Fresh(w, pc, op) EXCEPT !.type = "cb_imm"]
<1>1. d = CompressedOperands(x, "cb_imm")
  <2>1. "cb_imm" \in CompressedTypes
    BY DEF CompressedTypes
  <2> QED
    BY <2>1, CutCompressed
<1>2. CutOpen(x, w, op)
  BY DEF Fresh, CutOpen, CutFields
<1> HIDE DEF x
<1>3. d = Set(x, Bits(w, 7, 3) + 8, Bits(w, 7, 3) + 8, 0, operand_cimmi(w))
  BY <1>1, <1>2 DEF CutOpen, CompressedOperands, operand_crs1rdq
<1> QED
  BY <1>2, <1>3, SetOpen DEF CutOpen

LEMMA Cut_cb_sh6 ==
  ASSUME NEW w, NEW pc, NEW op, NEW d, d = Cut(w, pc, op, "cb_sh6")
  PROVE  /\ d.inst = w /\ d.op = op /\ d.rd = Bits(w, 7, 3) + 8 /\ d.rs1 = Bits(w, 7, 3) + 8
         /\ d.rs2 = 0 /\ d.imm = operand_cimmsh6(w)
<1> DEFINE x == [Fresh(w, pc, op) EXCEPT !.type = "cb_sh6"]
<1>1. d = CompressedOperands(x, "cb_sh6")
  <2>1. "cb_sh6" \in CompressedTypes
    BY DEF CompressedTypes
  <2> QED
    BY <2>1, CutCompressed
<1>2. CutOpen(x, w, op)
  BY DEF Fresh, CutOpen, CutFields
<1> HIDE DEF x
<1>3. d = Set(x, Bits(w, 7, 3) + 8, Bits(w, 7, 3) + 8, 0, operand_cimmsh6(w))
  BY <1>1, <1>2 DEF CutOpen, CompressedOperands, operand_crs1rdq
<1> QED
  BY <1>2, <1>3, SetOpen DEF CutOpen

LEMMA Cut_ci ==
  ASSUME NEW w, NEW pc, NEW op, NEW d, d = Cut(w, pc, op, "ci")
  PROVE  /\ d.inst = w /\ d.op = op /\ d.rd = Bits(w, 7, 5) /\ d.rs1 = Bits(w, 7, 5)
         /\ d.rs2 = 0 /\ d.imm = operand_cimmi(w)
<1> DEFINE x == [Fresh(w, pc, op) EXCEPT !.type = "ci"]
<1>1. d = CompressedOperands(x, "ci")
  <2>1. "ci" \in CompressedTypes
    BY DEF CompressedTypes
  <2> QED
    BY <2>1, CutCompressed
<1>2. CutOpen(x, w, op)
  BY DEF Fresh, CutOpen, CutFields
<1> HIDE DEF x
<1>3. d = Set(x, Bits(w, 7, 5), Bits(w, 7, 5), 0, operand_cimmi(w))
  BY <1>1, <1>2 DEF CutOpen, CompressedOperands, operand_crs1rd
<1> QED
  BY <1>2, <1>3, SetOpen DEF CutOpen

LEMMA Cut_ci_sh6 ==
  ASSUME NEW w, NEW pc, NEW op, NEW d, d = Cut(w, pc, op, "ci_sh6")
  PROVE  /\ d.inst = w /\ d.op = op /\ d.rd = Bits(w, 7, 5) /\ d.rs1 = Bits(w, 7, 5)
         /\ d.rs2 = 0 /\ d.imm = operand_cimmsh6(w)
<1> DEFINE x == [Fresh(w, pc, op) EXCEPT !.type = "ci_sh6"]
<1>1. d = CompressedOperands(x, "ci_sh6")
  <2>1. "ci_sh6" \in CompressedTypes
    BY DEF CompressedTypes
  <2> QED
    BY <2>1, CutCompressed
<1>2. CutOpen(x, w, op)
  BY DEF Fresh, CutOpen, CutFields
<1> HIDE DEF x
<1>3. d = Set(x, Bits(w, 7, 5), Bits(w, 7, 5), 0, operand_cimmsh6(w))
  BY <1>1, <1>2 DEF CutOpen, CompressedOperands, operand_crs1rd
<1> QED
  BY <1>2, <1>3, SetOpen DEF CutOpen

LEMMA Cut_ci_16sp ==
  ASSUME NEW w, NEW pc, NEW op, NEW d, d = Cut(w, pc, op, "ci_16sp")
  PROVE  /\ d.inst = w /\ d.op = op /\ d.rd = 2 /\ d.rs1 = 2
         /\ d.rs2 = 0 /\ d.imm = operand_cimm16sp(w)
<1> DEFINE x == [Fresh(w, pc, op) EXCEPT !.type = "ci_16sp"]
<1>1. d = CompressedOperands(x, "ci_16sp")
  <2>1. "ci_16sp" \in CompressedTypes
    BY DEF CompressedTypes
  <2> QED
    BY <2>1, CutCompressed
<1>2. CutOpen(x, w, op)
  BY DEF Fresh, CutOpen, CutFields
<1> HIDE DEF x
<1>3. d = Set(x, 2, 2, 0, operand_cimm16sp(w))
  BY <1>1, <1>2 DEF CutOpen, CompressedOperands
<1> QED
  BY <1>2, <1>3, SetOpen DEF CutOpen

LEMMA Cut_ci_lwsp ==
  ASSUME NEW w, NEW pc, NEW op, NEW d, d = Cut(w, pc, op, "ci_lwsp")
  PROVE  /\ d.inst = w /\ d.op = op /\ d.rd = Bits(w, 7, 5) /\ d.rs1 = 2
         /\ d.rs2 = 0 /\ d.imm = operand_cimmlwsp(w)
<1> DEFINE x == [Fresh(w, pc, op) EXCEPT !.type = "ci_lwsp"]
<1>1. d = CompressedOperands(x, "ci_lwsp")
  <2>1. "ci_lwsp" \in CompressedTypes
    BY DEF CompressedTypes
  <2> QED
    BY <2>1, CutCompressed
<1>2. CutOpen(x, w, op)
  BY DEF Fresh, CutOpen, CutFields
<1> HIDE DEF x
<1>3. d = Set(x, Bits(w, 7, 5), 2, 0, operand_cimmlwsp(w))
  BY <1>1, <1>2 DEF CutOpen, CompressedOperands, operand_crd
<1> QED
  BY <1>2, <1>3, SetOpen DEF CutOpen

LEMMA Cut_ci_ldsp ==
  ASSUME NEW w, NEW pc, NEW op, NEW d, d = Cut(w, pc, op, "ci_ldsp")
  PROVE  /\ d.inst = w /\ d.op = op /\ d.rd = Bits(w, 7, 5) /\ d.rs1 = 2
         /\ d.rs2 = 0 /\ d.imm = operand_cimmldsp(w)
<1> DEFINE x == [Fresh(w, pc, op) EXCEPT !.type = "ci_ldsp"]
<1>1. d = CompressedOperands(x, "ci_ldsp")
  <2>1. "ci_ldsp" \in CompressedTypes
    BY DEF CompressedTypes
  <2> QED
    BY <2>1, CutCompressed
<1>2. CutOpen(x, w, op)
  BY DEF Fresh, CutOpen, CutFields
<1> HIDE DEF x
<1>3. d = Set(x, Bits(w, 7, 5), 2, 0, operand_cimmldsp(w))
  BY <1>1, <1>2 DEF CutOpen, CompressedOperands, operand_crd
<1> QED
  BY <1>2, <1>3, SetOpen DEF CutOpen

LEMMA Cut_ci_li ==
  ASSUME NEW w, NEW pc, NEW op, NEW d, d = Cut(w, pc, op, "ci_li")
  PROVE  /\ d.inst = w /\ d.op = op /\ d.rd = Bits(w, 7, 5) /\ d.rs1 = 0
         /\ d.rs2 = 0 /\ d.imm = operand_cimmi(w)
<1> DEFINE x == [Fresh(w, pc, op) EXCEPT !.type = "ci_li"]
<1>1. d = CompressedOperands(x, "ci_li")
  <2>1. "ci_li" \in CompressedTypes
    BY DEF CompressedTypes
  <2> QED
    BY <2>1, CutCompressed
<1>2. CutOpen(x, w, op)
  BY DEF Fresh, CutOpen, CutFields
<1> HIDE DEF x
<1>3. d = Set(x, Bits(w, 7, 5), 0, 0, operand_cimmi(w))
  BY <1>1, <1>2 DEF CutOpen, CompressedOperands, operand_crd
<1> QED
  BY <1>2, <1>3, SetOpen DEF CutOpen

LEMMA Cut_ci_lui ==
  ASSUME NEW w, NEW pc, NEW op, NEW d, d = Cut(w, pc, op, "ci_lui")
  PROVE  /\ d.inst = w /\ d.op = op /\ d.rd = Bits(w, 7, 5) /\ d.rs1 = 0
         /\ d.rs2 = 0 /\ d.imm = operand_cimmui(w)
<1> DEFINE x == [Fresh(w, pc, op) EXCEPT !.type = "ci_lui"]
<1>1. d = CompressedOperands(x, "ci_lui")
  <2>1. "ci_lui" \in CompressedTypes
    BY DEF CompressedTypes
  <2> QED
    BY <2>1, CutCompressed
<1>2. CutOpen(x, w, op)
  BY DEF Fresh, CutOpen, CutFields
<1> HIDE DEF x
<1>3. d = Set(x, Bits(w, 7, 5), 0, 0, operand_cimmui(w))
  BY <1>1, <1>2 DEF CutOpen, CompressedOperands, operand_crd
<1> QED
  BY <1>2, <1>3, SetOpen DEF CutOpen

LEMMA Cut_ci_none ==
  ASSUME NEW w, NEW pc, NEW op, NEW d, d = Cut(w, pc, op, "ci_none")
  PROVE  /\ d.inst = w /\ d.op = op /\ d.rd = 0 /\ d.rs1 = 0
         /\ d.rs2 = 0 /\ d.imm = 0
<1> DEFINE x == [Fresh(w, pc, op) EXCEPT !.type = "ci_none"]
<1>1. d = CompressedOperands(x, "ci_none")
  <2>1. "ci_none" \in CompressedTypes
    BY DEF CompressedTypes
  <2> QED
    BY <2>1, CutCompressed
<1>2. CutOpen(x, w, op)
  BY DEF Fresh, CutOpen, CutFields
<1> HIDE DEF x
<1>3. d = Set(x, 0, 0, 0, 0)
  BY <1>1, <1>2 DEF CutOpen, CompressedOperands
<1> QED
  BY <1>2, <1>3, SetOpen DEF CutOpen

LEMMA Cut_ciw_4spn ==
  ASSUME NEW w, NEW pc, NEW op, NEW d, d = Cut(w, pc, op, "ciw_4spn")
  PROVE  /\ d.inst = w /\ d.op = op /\ d.rd = Bits(w, 2, 3) + 8 /\ d.rs1 = 2
         /\ d.rs2 = 0 /\ d.imm = operand_cimm4spn(w)
<1> DEFINE x == [Fresh(w, pc, op) EXCEPT !.type = "ciw_4spn"]
<1>1. d = CompressedOperands(x, "ciw_4spn")
  <2>1. "ciw_4spn" \in CompressedTypes
    BY DEF CompressedTypes
  <2> QED
    BY <2>1, CutCompressed
<1>2. CutOpen(x, w, op)
  BY DEF Fresh, CutOpen, CutFields
<1> HIDE DEF x
<1>3. d = Set(x, Bits(w, 2, 3) + 8, 2, 0, operand_cimm4spn(w))
  BY <1>1, <1>2 DEF CutOpen, CompressedOperands, operand_crdq
<1> QED
  BY <1>2, <1>3, SetOpen DEF CutOpen

LEMMA Cut_cj ==
  ASSUME NEW w, NEW pc, NEW op, NEW d, d = Cut(w, pc, op, "cj")
  PROVE  /\ d.inst = w /\ d.op = op /\ d.rd = 0 /\ d.rs1 = 0
         /\ d.rs2 = 0 /\ d.imm = operand_cimmj(w)
<1> DEFINE x == [Fresh(w, pc, op) EXCEPT !.type = "cj"]
<1>1. d = CompressedOperands(x, "cj")
  <2>1. "cj" \in CompressedTypes
    BY DEF CompressedTypes
  <2> QED
    BY <2>1, CutCompressed
<1>2. CutOpen(x, w, op)
  BY DEF Fresh, CutOpen, CutFields
<1> HIDE DEF x
<1>3. d = Set(x, 0, 0, 0, operand_cimmj(w))
  BY <1>1, <1>2 DEF CutOpen, CompressedOperands
<1> QED
  BY <1>2, <1>3, SetOpen DEF CutOpen

LEMMA Cut_cj_jal ==
  ASSUME NEW w, NEW pc, NEW op, NEW d, d = Cut(w, pc, op, "cj_jal")
  PROVE  /\ d.inst = w /\ d.op = op /\ d.rd = 1 /\ d.rs1 = 0
         /\ d.rs2 = 0 /\ d.imm = operand_cimmj(w)
<1> DEFINE x == [Fresh(w, pc, op) EXCEPT !.type = "cj_jal"]
<1>1. d = CompressedOperands(x, "cj_jal")
  <2>1. "cj_jal" \in CompressedTypes
    BY DEF CompressedTypes
  <2> QED
    BY <2>1, CutCompressed
<1>2. CutOpen(x, w, op)
  BY DEF Fresh, CutOpen, CutFields
<1> HIDE DEF x
<1>3. d = Set(x, 1, 0, 0, operand_cimmj(w))
  BY <1>1, <1>2 DEF CutOpen, CompressedOperands
<1> QED
  BY <1>2, <1>3, SetOpen DEF CutOpen

LEMMA Cut_cl_lw ==
  ASSUME NEW w, NEW pc, NEW op, NEW d, d = Cut(w, pc, op, "cl_lw")
  PROVE  /\ d.inst = w /\ d.op = op /\ d.rd = Bits(w, 2, 3) + 8 /\ d.rs1 = Bits(w, 7, 3) + 8
         /\ d.rs2 = 0 /\ d.imm = operand_cimmw(w)
<1> DEFINE x == [Fresh(w, pc, op) EXCEPT !.type = "cl_lw"]
<1>1. d = CompressedOperands(x, "cl_lw")
  <2>1. "cl_lw" \in CompressedTypes
    BY DEF CompressedTypes
  <2> QED
    BY <2>1, CutCompressed
<1>2. CutOpen(x, w, op)
  BY DEF Fresh, CutOpen, CutFields
<1> HIDE DEF x
<1>3. d = Set(x, Bits(w, 2, 3) + 8, Bits(w, 7, 3) + 8, 0, operand_cimmw(w))
  BY <1>1, <1>2 DEF CutOpen, CompressedOperands, operand_crdq, operand_crs1q
<1> QED
  BY <1>2, <1>3, SetOpen DEF CutOpen

LEMMA Cut_cl_ld ==
  ASSUME NEW w, NEW pc, NEW op, NEW d, d = Cut(w, pc, op, "cl_ld")
  PROVE  /\ d.inst = w /\ d.op = op /\ d.rd = Bits(w, 2, 3) + 8 /\ d.rs1 = Bits(w, 7, 3) + 8
         /\ d.rs2 = 0 /\ d.imm = operand_cimmd(w)
<1> DEFINE x == [Fresh(w, pc, op) EXCEPT !.type = "cl_ld"]
<1>1. d = CompressedOperands(x, "cl_ld")
  <2>1. "cl_ld" \in CompressedTypes
    BY DEF CompressedTypes
  <2> QED
    BY <2>1, CutCompressed
<1>2. CutOpen(x, w, op)
  BY DEF Fresh, CutOpen, CutFields
<1> HIDE DEF x
<1>3. d = Set(x, Bits(w, 2, 3) + 8, Bits(w, 7, 3) + 8, 0, operand_cimmd(w))
  BY <1>1, <1>2 DEF CutOpen, CompressedOperands, operand_crdq, operand_crs1q
<1> QED
  BY <1>2, <1>3, SetOpen DEF CutOpen

LEMMA Cut_cr ==
  ASSUME NEW w, NEW pc, NEW op, NEW d, d = Cut(w, pc, op, "cr")
  PROVE  /\ d.inst = w /\ d.op = op /\ d.rd = Bits(w, 7, 5) /\ d.rs1 = Bits(w, 7, 5)
         /\ d.rs2 = Bits(w, 2, 5) /\ d.imm = 0
<1> DEFINE x == [Fresh(w, pc, op) EXCEPT !.type = "cr"]
<1>1. d = CompressedOperands(x, "cr")
  <2>1. "cr" \in CompressedTypes
    BY DEF CompressedTypes
  <2> QED
    BY <2>1, CutCompressed
<1>2. CutOpen(x, w, op)
  BY DEF Fresh, CutOpen, CutFields
<1> HIDE DEF x
<1>3. d = Set(x, Bits(w, 7, 5), Bits(w, 7, 5), Bits(w, 2, 5), 0)
  BY <1>1, <1>2 DEF CutOpen, CompressedOperands, operand_crs1rd, operand_crs2
<1> QED
  BY <1>2, <1>3, SetOpen DEF CutOpen

LEMMA Cut_cr_mv ==
  ASSUME NEW w, NEW pc, NEW op, NEW d, d = Cut(w, pc, op, "cr_mv")
  PROVE  /\ d.inst = w /\ d.op = op /\ d.rd = Bits(w, 7, 5) /\ d.rs1 = Bits(w, 2, 5)
         /\ d.rs2 = 0 /\ d.imm = 0
<1> DEFINE x == [Fresh(w, pc, op) EXCEPT !.type = "cr_mv"]
<1>1. d = CompressedOperands(x, "cr_mv")
  <2>1. "cr_mv" \in CompressedTypes
    BY DEF CompressedTypes
  <2> QED
    BY <2>1, CutCompressed
<1>2. CutOpen(x, w, op)
  BY DEF Fresh, CutOpen, CutFields
<1> HIDE DEF x
<1>3. d = Set(x, Bits(w, 7, 5), Bits(w, 2, 5), 0, 0)
  BY <1>1, <1>2 DEF CutOpen, CompressedOperands, operand_crd, operand_crs2
<1> QED
  BY <1>2, <1>3, SetOpen DEF CutOpen

LEMMA Cut_cr_jalr ==
  ASSUME NEW w, NEW pc, NEW op, NEW d, d = Cut(w, pc, op, "cr_jalr")
  PROVE  /\ d.inst = w /\ d.op = op /\ d.rd = 1 /\ d.rs1 = Bits(w, 7, 5)
         /\ d.rs2 = 0 /\ d.imm = 0
<1> DEFINE x == [Fresh(w, pc, op) EXCEPT !.type = "cr_jalr"]
<1>1. d = CompressedOperands(x, "cr_jalr")
  <2>1. "cr_jalr" \in CompressedTypes
    BY DEF CompressedTypes
  <2> QED
    BY <2>1, CutCompressed
<1>2. CutOpen(x, w, op)
  BY DEF Fresh, CutOpen, CutFields
<1> HIDE DEF x
<1>3. d = Set(x, 1, Bits(w, 7, 5), 0, 0)
  BY <1>1, <1>2 DEF CutOpen, CompressedOperands, operand_crs1
<1> QED
  BY <1>2, <1>3, SetOpen DEF CutOpen

LEMMA Cut_cr_jr ==
  ASSUME NEW w, NEW pc, NEW op, NEW d, d = Cut(w, pc, op, "cr_jr")
  PROVE  /\ d.inst = w /\ d.op = op /\ d.rd = 0 /\ d.rs1 = Bits(w, 7, 5)
         /\ d.rs2 = 0 /\ d.imm = 0
<1> DEFINE x == [Fresh(w, pc, op) EXCEPT !.type = "cr_jr"]
<1>1. d = CompressedOperands(x, "cr_jr")
  <2>1. "cr_jr" \in CompressedTypes
    BY DEF CompressedTypes
  <2> QED
    BY <2>1, CutCompressed
<1>2. CutOpen(x, w, op)
  BY DEF Fresh, CutOpen, CutFields
<1> HIDE DEF x
<1>3. d = Set(x, 0, Bits(w, 7, 5), 0, 0)
  BY <1>1, <1>2 DEF CutOpen, CompressedOperands, operand_crs1
<1> QED
  BY <1>2, <1>3, SetOpen DEF CutOpen

LEMMA Cut_cs ==
  ASSUME NEW w, NEW pc, NEW op, NEW d, d = Cut(w, pc, op, "cs")
  PROVE  /\ d.inst = w /\ d.op = op /\ d.rd = Bits(w, 7, 3) + 8 /\ d.rs1 = Bits(w, 7, 3) + 8
         /\ d.rs2 = Bits(w, 2, 3) + 8 /\ d.imm = 0
<1> DEFINE x == [Fresh(w, pc, op) EXCEPT !.type = "cs"]
<1>1. d = CompressedOperands(x, "cs")
  <2>1. "cs" \in CompressedTypes
    BY DEF CompressedTypes
  <2> QED
    BY <2>1, CutCompressed
<1>2. CutOpen(x, w, op)
  BY DEF Fresh, CutOpen, CutFields
<1> HIDE DEF x
<1>3. d = Set(x, Bits(w, 7, 3) + 8, Bits(w, 7, 3) + 8, Bits(w, 2, 3) + 8, 0)
  BY <1>1, <1>2 DEF CutOpen, CompressedOperands, operand_crs1rdq, operand_crs2q
<1> QED
  BY <1>2, <1>3, SetOpen DEF CutOpen

LEMMA Cut_cs_sw ==
  ASSUME NEW w, NEW pc, NEW op, NEW d, d = Cut(w, pc, op, "cs_sw")
  PROVE  /\ d.inst = w /\ d.op = op /\ d.rd = 0 /\ d.rs1 = Bits(w, 7, 3) + 8
         /\ d.rs2 = Bits(w, 2, 3) + 8 /\ d.imm = operand_cimmw(w)
<1> DEFINE x == [Fresh(w, pc, op) EXCEPT !.type = "cs_sw"]
<1>1. d = CompressedOperands(x, "cs_sw")
  <2>1. "cs_sw" \in CompressedTypes
    BY DEF CompressedTypes
  <2> QED
    BY <2>1, CutCompressed
<1>2. CutOpen(x, w, op)
  BY DEF Fresh, CutOpen, CutFields
<1> HIDE DEF x
<1>3. d = Set(x, 0, Bits(w, 7, 3) + 8, Bits(w, 2, 3) + 8, operand_cimmw(w))
  BY <1>1, <1>2 DEF CutOpen, CompressedOperands, operand_crs1q, operand_crs2q
<1> QED
  BY <1>2, <1>3, SetOpen DEF CutOpen

LEMMA Cut_cs_sd ==
  ASSUME NEW w, NEW pc, NEW op, NEW d, d = Cut(w, pc, op, "cs_sd")
  PROVE  /\ d.inst = w /\ d.op = op /\ d.rd = 0 /\ d.rs1 = Bits(w, 7, 3) + 8
         /\ d.rs2 = Bits(w, 2, 3) + 8 /\ d.imm = operand_cimmd(w)
<1> DEFINE x == [Fresh(w, pc, op) EXCEPT !.type = "cs_sd"]
<1>1. d = CompressedOperands(x, "cs_sd")
  <2>1. "cs_sd" \in CompressedTypes
    BY DEF CompressedTypes
  <2> QED
    BY <2>1, CutCompressed
<1>2. CutOpen(x, w, op)
  BY DEF Fresh, CutOpen, CutFields
<1> HIDE DEF x
<1>3. d = Set(x, 0, Bits(w, 7, 3) + 8, Bits(w, 2, 3) + 8, operand_cimmd(w))
  BY <1>1, <1>2 DEF CutOpen, CompressedOperands, operand_crs1q, operand_crs2q
<1> QED
  BY <1>2, <1>3, SetOpen DEF CutOpen

LEMMA Cut_css_swsp ==
  ASSUME NEW w, NEW pc, NEW op, NEW d, d = Cut(w, pc, op, "css_swsp")
  PROVE  /\ d.inst = w /\ d.op = op /\ d.rd = 0 /\ d.rs1 = 2
         /\ d.rs2 = Bits(w, 2, 5) /\ d.imm = operand_cimmswsp(w)
<1> DEFINE x == [Fresh(w, pc, op) EXCEPT !.type = "css_swsp"]
<1>1. d = CompressedOperands(x, "css_swsp")
  <2>1. "css_swsp" \in CompressedTypes
    BY DEF CompressedTypes
  <2> QED
    BY <2>1, CutCompressed
<1>2. CutOpen(x, w, op)
  BY DEF Fresh, CutOpen, CutFields
<1> HIDE DEF x
<1>3. d = Set(x, 0, 2, Bits(w, 2, 5), operand_cimmswsp(w))
  BY <1>1, <1>2 DEF CutOpen, CompressedOperands, operand_crs2
<1> QED
  BY <1>2, <1>3, SetOpen DEF CutOpen

LEMMA Cut_css_sdsp ==
  ASSUME NEW w, NEW pc, NEW op, NEW d, d = Cut(w, pc, op, "css_sdsp")
  PROVE  /\ d.inst = w /\ d.op = op /\ d.rd = 0 /\ d.rs1 = 2
         /\ d.rs2 = Bits(w, 2, 5) /\ d.imm = operand_cimmsdsp(w)
<1> DEFINE x == [Fresh(w, pc, op) EXCEPT !.type = "css_sdsp"]
<1>1. d = CompressedOperands(x, "css_sdsp")
  <2>1. "css_sdsp" \in CompressedTypes
    BY DEF CompressedTypes
  <2> QED
    BY <2>1, CutCompressed
<1>2. CutOpen(x, w, op)
  BY DEF Fresh, CutOpen, CutFields
<1> HIDE DEF x
<1>3. d = Set(x, 0, 2, Bits(w, 2, 5), operand_cimmsdsp(w))
  BY <1>1, <1>2 DEF CutOpen, CompressedOperands, operand_crs2
<1> QED
  BY <1>2, <1>3, SetOpen DEF CutOpen

-----------------------------------------------------------------------------
(* Every operand of args is held by the word.                              *)
HeldAll(args, v, w) == \A k \in DOMAIN args : Held(args[k], v[k], w)

LEMMA Shamt7Of6 ==
  ASSUME NEW w \in Word, Bits(w, 26, 6) \in {0, 16}
  PROVE  operand_shamt7(w) = operand_shamt6(w)
<1> DEFINE y == w \div 1048576
           q == w \div 67108864
<1>1. 2^20 = 1048576 /\ 2^26 = 67108864
  BY SMT
<1>2. 2^6 = 64 /\ 2^7 = 128
  BY SMT
<1>3. q % 64 \in {0, 16} /\ operand_shamt6(w) = y % 64 /\ operand_shamt7(w) = y % 128
  BY <1>1, <1>2 DEF Bits, operand_shamt6, operand_shamt7
<1>4. w \in Int /\ y \in Int /\ q \in Int
  BY DEF Word
<1>5. q = y \div 64
  BY <1>4, SMT
<1> HIDE DEF y, q
<1> DEFINE k == q \div 2
<1>6. q = 2 * k /\ k \in Int
  BY <1>3, <1>4, SMT
<1> HIDE DEF k
<1>7. y = 64 * q + (y % 64) /\ y % 64 \in 0 .. 63
  BY <1>4, <1>5
<1>8. y = 128 * k + (y % 64)
  BY <1>6, <1>7
<1>9. y % 128 = y % 64
  BY <1>4, <1>6, <1>7, <1>8, SMT
<1> QED
  BY <1>3, <1>9

LEMMA IntegerTold ==
  ASSUME NEW w \in Word, NEW d, NEW v
  PROVE  /\ Held(Rd, v, w) /\ d.rd = operand_rd(w) => Tells(Rd, v, "0", d)
         /\ Held(Rs1, v, w) /\ d.rs1 = operand_rs1(w) => Tells(Rs1, v, "1", d)
         /\ Held(Rs2, v, w) /\ d.rs2 = operand_rs2(w) => Tells(Rs2, v, "2", d)
         /\ Held(Zimm, v, w) /\ d.rs1 = operand_rs1(w) => Tells(Zimm, v, "7", d)
<1>1. ASSUME Held(Rd, v, w), d.rd = operand_rd(w)
      PROVE  Tells(Rd, v, "0", d)
  <2>1. v = operand_rd(w)
    BY <1>1, RdHeld
  <2>2. Rd.kind = "x"
    BY KindsOfOperands
  <2> QED
    BY <1>1, <2>1, <2>2, LetterKinds, LetterValues DEF Tells
<1>2. ASSUME Held(Rs1, v, w), d.rs1 = operand_rs1(w)
      PROVE  Tells(Rs1, v, "1", d)
  <2>1. v = operand_rs1(w)
    BY <1>2, Rs1Held
  <2>2. Rs1.kind = "x"
    BY KindsOfOperands
  <2> QED
    BY <1>2, <2>1, <2>2, LetterKinds, LetterValues DEF Tells
<1>3. ASSUME Held(Rs2, v, w), d.rs2 = operand_rs2(w)
      PROVE  Tells(Rs2, v, "2", d)
  <2>1. v = operand_rs2(w)
    BY <1>3, Rs2Held
  <2>2. Rs2.kind = "x"
    BY KindsOfOperands
  <2> QED
    BY <1>3, <2>1, <2>2, LetterKinds, LetterValues DEF Tells
<1>4. ASSUME Held(Zimm, v, w), d.rs1 = operand_rs1(w)
      PROVE  Tells(Zimm, v, "7", d)
  <2>1. v = operand_rs1(w)
    BY <1>4, ZimmHeld
  <2>2. Zimm.kind = "num"
    BY KindsOfOperands
  <2> QED
    BY <1>4, <2>1, <2>2, LetterKinds, LetterValues DEF Tells
<1> QED
  BY <1>1, <1>2, <1>3, <1>4

LEMMA FloatTold ==
  ASSUME NEW w \in Word, NEW d, NEW v
  PROVE  /\ Held(Fd, v, w) /\ d.rd = operand_rd(w) => Tells(Fd, v, "3", d)
         /\ Held(Fs1, v, w) /\ d.rs1 = operand_rs1(w) => Tells(Fs1, v, "4", d)
         /\ Held(Fs2, v, w) /\ d.rs2 = operand_rs2(w) => Tells(Fs2, v, "5", d)
         /\ Held(Fs3, v, w) /\ d.rs3 = operand_rs3(w) => Tells(Fs3, v, "6", d)
         /\ Held(Rm, v, w) /\ d.rm = operand_rm(w) => Tells(Rm, v, "r", d)
<1>1. ASSUME Held(Fd, v, w), d.rd = operand_rd(w)
      PROVE  Tells(Fd, v, "3", d)
  <2>1. v = operand_rd(w)
    BY <1>1, RdHeld
  <2>2. Fd.kind = "f"
    BY KindsOfOperands
  <2> QED
    BY <1>1, <2>1, <2>2, LetterKinds, LetterValues DEF Tells
<1>2. ASSUME Held(Fs1, v, w), d.rs1 = operand_rs1(w)
      PROVE  Tells(Fs1, v, "4", d)
  <2>1. v = operand_rs1(w)
    BY <1>2, Rs1Held
  <2>2. Fs1.kind = "f"
    BY KindsOfOperands
  <2> QED
    BY <1>2, <2>1, <2>2, LetterKinds, LetterValues DEF Tells
<1>3. ASSUME Held(Fs2, v, w), d.rs2 = operand_rs2(w)
      PROVE  Tells(Fs2, v, "5", d)
  <2>1. v = operand_rs2(w)
    BY <1>3, Rs2Held
  <2>2. Fs2.kind = "f"
    BY KindsOfOperands
  <2> QED
    BY <1>3, <2>1, <2>2, LetterKinds, LetterValues DEF Tells
<1>4. ASSUME Held(Fs3, v, w), d.rs3 = operand_rs3(w)
      PROVE  Tells(Fs3, v, "6", d)
  <2>1. v = operand_rs3(w)
    BY <1>4, Fs3Held
  <2>2. Fs3.kind = "f"
    BY KindsOfOperands
  <2> QED
    BY <1>4, <2>1, <2>2, LetterKinds, LetterValues DEF Tells
<1>5. ASSUME Held(Rm, v, w), d.rm = operand_rm(w)
      PROVE  Tells(Rm, v, "r", d)
  <2>1. v = operand_rm(w) /\ v \notin {5, 6}
    BY <1>5, RmHeld
  <2>2. Rm.kind = "rm"
    BY KindsOfOperands
  <2> QED
    BY <1>5, <2>1, <2>2, LetterKinds, LetterValues DEF Tells, ShownRm
<1> QED
  BY <1>1, <1>2, <1>3, <1>4, <1>5

LEMMA SystemTold ==
  ASSUME NEW w \in Word, NEW d, NEW v
  PROVE  /\ Held(Csr, v, w) /\ d.imm = operand_csr12(w) => Tells(Csr, v, "c", d)
         /\ Held(Pred, v, w) /\ d.pred = operand_pred(w) => Tells(Pred, v, "p", d)
         /\ Held(Succ, v, w) /\ d.succ = operand_succ(w) => Tells(Succ, v, "s", d)
<1>1. ASSUME Held(Csr, v, w), d.imm = operand_csr12(w)
      PROVE  Tells(Csr, v, "c", d)
  <2>1. v = operand_csr12(w) /\ v \in Nat /\ v < 4096
    BY <1>1, CsrHeld
  <2>2. Csr.kind = "csr"
    BY KindsOfOperands
  <2> QED
    BY <1>1, <2>1, <2>2, LetterKinds, LetterValues DEF Tells
<1>2. ASSUME Held(Pred, v, w), d.pred = operand_pred(w)
      PROVE  Tells(Pred, v, "p", d)
  <2>1. v = operand_pred(w)
    BY <1>2, FenceHeld
  <2>2. Pred.kind = "fence"
    BY KindsOfOperands
  <2> QED
    BY <1>2, <2>1, <2>2, LetterKinds, LetterValues DEF Tells
<1>3. ASSUME Held(Succ, v, w), d.succ = operand_succ(w)
      PROVE  Tells(Succ, v, "s", d)
  <2>1. v = operand_succ(w)
    BY <1>3, FenceHeld
  <2>2. Succ.kind = "fence"
    BY KindsOfOperands
  <2> QED
    BY <1>3, <2>1, <2>2, LetterKinds, LetterValues DEF Tells
<1> QED
  BY <1>1, <1>2, <1>3

LEMMA ShamtTold ==
  ASSUME NEW w \in Word, NEW d, NEW v
  PROVE  /\ Held(Sh(5), v, w) /\ d.imm = operand_shamt5(w) => Tells(Sh(5), v, "i", d)
         /\ Held(Sh(6), v, w) /\ d.imm = operand_shamt6(w) => Tells(Sh(6), v, "i", d)
<1>1. ASSUME Held(Sh(5), v, w), d.imm = operand_shamt5(w)
      PROVE  Tells(Sh(5), v, "i", d)
  <2> DEFINE o == Sh(5)
  <2>1. o.kind = "imm"
    BY KindsOfOperands
  <2>2. v = operand_shamt5(w)
    BY <1>1, ShamtHeld
  <2> HIDE DEF o
  <2>3. Tells(o, v, "i", d)
    BY <1>1, <2>1, <2>2, LetterKinds, LetterValues DEF Tells
  <2> QED
    BY <2>3 DEF o
<1>2. ASSUME Held(Sh(6), v, w), d.imm = operand_shamt6(w)
      PROVE  Tells(Sh(6), v, "i", d)
  <2> DEFINE o == Sh(6)
  <2>1. o.kind = "imm"
    BY KindsOfOperands
  <2>2. v = operand_shamt6(w)
    BY <1>2, ShamtHeld
  <2> HIDE DEF o
  <2>3. Tells(o, v, "i", d)
    BY <1>2, <2>1, <2>2, LetterKinds, LetterValues DEF Tells
  <2> QED
    BY <2>3 DEF o
<1> QED
  BY <1>1, <1>2

LEMMA ImmediateTold ==
  ASSUME NEW w \in Word, NEW d, NEW v
  PROVE  /\ Held(ImmB, v, w) /\ d.imm = operand_sbimm12(w) => Tells(ImmB, v, "o", d)
         /\ Held(ImmI, v, w) /\ d.imm = operand_imm12(w) => Tells(ImmI, v, "i", d)
         /\ Held(ImmJ, v, w) /\ d.imm = operand_jimm20(w) => Tells(ImmJ, v, "o", d)
         /\ Held(ImmS, v, w) /\ d.imm = operand_simm12(w) => Tells(ImmS, v, "i", d)
         /\ Held(ImmU, v, w) /\ d.imm = operand_imm20(w) => Tells(ImmU, v, "i", d) /\ Tells(ImmU, v, "o", d)
<1>1. ASSUME Held(ImmB, v, w), d.imm = operand_sbimm12(w)
      PROVE  Tells(ImmB, v, "o", d)
  <2>1. v = operand_sbimm12(w)
    BY <1>1, ImmediateHeld
  <2>2. ImmB.kind = "imm"
    BY KindsOfOperands
  <2> QED
    BY <1>1, <2>1, <2>2, LetterKinds, LetterValues DEF Tells
<1>2. ASSUME Held(ImmI, v, w), d.imm = operand_imm12(w)
      PROVE  Tells(ImmI, v, "i", d)
  <2>1. v = operand_imm12(w)
    BY <1>2, ImmediateHeld
  <2>2. ImmI.kind = "imm"
    BY KindsOfOperands
  <2> QED
    BY <1>2, <2>1, <2>2, LetterKinds, LetterValues DEF Tells
<1>3. ASSUME Held(ImmJ, v, w), d.imm = operand_jimm20(w)
      PROVE  Tells(ImmJ, v, "o", d)
  <2>1. v = operand_jimm20(w)
    BY <1>3, ImmediateHeld
  <2>2. ImmJ.kind = "imm"
    BY KindsOfOperands
  <2> QED
    BY <1>3, <2>1, <2>2, LetterKinds, LetterValues DEF Tells
<1>4. ASSUME Held(ImmS, v, w), d.imm = operand_simm12(w)
      PROVE  Tells(ImmS, v, "i", d)
  <2>1. v = operand_simm12(w)
    BY <1>4, ImmediateHeld
  <2>2. ImmS.kind = "imm"
    BY KindsOfOperands
  <2> QED
    BY <1>4, <2>1, <2>2, LetterKinds, LetterValues DEF Tells
<1>5. ASSUME Held(ImmU, v, w), d.imm = operand_imm20(w)
      PROVE  Tells(ImmU, v, "i", d) /\ Tells(ImmU, v, "o", d)
  <2>1. v = operand_imm20(w)
    BY <1>5, ImmediateHeld
  <2>2. ImmU.kind = "imm"
    BY KindsOfOperands
  <2> QED
    BY <1>5, <2>1, <2>2, LetterKinds, LetterValues DEF Tells
<1> QED
  BY <1>1, <1>2, <1>3, <1>4, <1>5

LEMMA ShortRegisterTold ==
  ASSUME NEW w \in Halfword, NEW d, NEW v
  PROVE  /\ Held(F(2), v, w) /\ d.rs2 = Bits(w, 2, 5) => Tells(F(2), v, "5", d)
         /\ Held(F(7), v, w) /\ d.rd = Bits(w, 7, 5) => Tells(F(7), v, "3", d)
         /\ Held(FC(2), v, w) /\ d.rd = Bits(w, 2, 3) + 8 => Tells(FC(2), v, "3", d)
         /\ Held(FC(2), v, w) /\ d.rs2 = Bits(w, 2, 3) + 8 => Tells(FC(2), v, "5", d)
         /\ Held(RdC, v, w) /\ d.rd = Bits(w, 7, 5) => Tells(RdC, v, "0", d)
         /\ Held(RdC, v, w) /\ d.rs1 = Bits(w, 7, 5) => Tells(RdC, v, "1", d)
         /\ Held(RdLui, v, w) /\ d.rd = Bits(w, 7, 5) => Tells(RdLui, v, "0", d)
         /\ Held(Rs2C, v, w) /\ d.rs1 = Bits(w, 2, 5) => Tells(Rs2C, v, "1", d)
         /\ Held(Rs2C, v, w) /\ d.rs2 = Bits(w, 2, 5) => Tells(Rs2C, v, "2", d)
         /\ Held(X(2), v, w) /\ d.rs2 = Bits(w, 2, 5) => Tells(X(2), v, "2", d)
         /\ Held(XC(2), v, w) /\ d.rd = Bits(w, 2, 3) + 8 => Tells(XC(2), v, "0", d)
         /\ Held(XC(2), v, w) /\ d.rs2 = Bits(w, 2, 3) + 8 => Tells(XC(2), v, "2", d)
         /\ Held(XC(7), v, w) /\ d.rd = Bits(w, 7, 3) + 8 => Tells(XC(7), v, "0", d)
         /\ Held(XC(7), v, w) /\ d.rs1 = Bits(w, 7, 3) + 8 => Tells(XC(7), v, "1", d)
<1> w \in Word
  BY HalfwordIsWord
<1>1. ASSUME Held(F(2), v, w), d.rs2 = Bits(w, 2, 5)
      PROVE  Tells(F(2), v, "5", d)
  <2>1. v = Bits(w, 2, 5)
    BY <1>1, RegisterHeld
  <2>2. F(2).kind = "f"
    BY KindsOfOperands
  <2> QED
    BY <1>1, <2>1, <2>2, LetterKinds, LetterValues DEF Tells
<1>2. ASSUME Held(F(7), v, w), d.rd = Bits(w, 7, 5)
      PROVE  Tells(F(7), v, "3", d)
  <2>1. v = Bits(w, 7, 5)
    BY <1>2, RegisterHeld
  <2>2. F(7).kind = "f"
    BY KindsOfOperands
  <2> QED
    BY <1>2, <2>1, <2>2, LetterKinds, LetterValues DEF Tells
<1>3. ASSUME Held(FC(2), v, w), d.rd = Bits(w, 2, 3) + 8
      PROVE  Tells(FC(2), v, "3", d)
  <2>1. v = Bits(w, 2, 3) + 8
    BY <1>3, ShortRegisterHeld
  <2>2. FC(2).kind = "f"
    BY KindsOfOperands
  <2> QED
    BY <1>3, <2>1, <2>2, LetterKinds, LetterValues DEF Tells
<1>4. ASSUME Held(FC(2), v, w), d.rs2 = Bits(w, 2, 3) + 8
      PROVE  Tells(FC(2), v, "5", d)
  <2>1. v = Bits(w, 2, 3) + 8
    BY <1>4, ShortRegisterHeld
  <2>2. FC(2).kind = "f"
    BY KindsOfOperands
  <2> QED
    BY <1>4, <2>1, <2>2, LetterKinds, LetterValues DEF Tells
<1>5. ASSUME Held(RdC, v, w), d.rd = Bits(w, 7, 5)
      PROVE  Tells(RdC, v, "0", d)
  <2>1. v = Bits(w, 7, 5)
    BY <1>5, NonZeroRegisterHeld DEF RdC
  <2>2. RdC.kind = "x"
    BY KindsOfOperands
  <2> QED
    BY <1>5, <2>1, <2>2, LetterKinds, LetterValues DEF Tells
<1>6. ASSUME Held(RdC, v, w), d.rs1 = Bits(w, 7, 5)
      PROVE  Tells(RdC, v, "1", d)
  <2>1. v = Bits(w, 7, 5)
    BY <1>6, NonZeroRegisterHeld DEF RdC
  <2>2. RdC.kind = "x"
    BY KindsOfOperands
  <2> QED
    BY <1>6, <2>1, <2>2, LetterKinds, LetterValues DEF Tells
<1>7. ASSUME Held(RdLui, v, w), d.rd = Bits(w, 7, 5)
      PROVE  Tells(RdLui, v, "0", d)
  <2>1. v = Bits(w, 7, 5)
    BY <1>7, NeitherZeroNorSpHeld DEF RdLui, RdC
  <2>2. RdLui.kind = "x"
    BY KindsOfOperands
  <2> QED
    BY <1>7, <2>1, <2>2, LetterKinds, LetterValues DEF Tells
<1>8. ASSUME Held(Rs2C, v, w), d.rs1 = Bits(w, 2, 5)
      PROVE  Tells(Rs2C, v, "1", d)
  <2>1. v = Bits(w, 2, 5)
    BY <1>8, NonZeroRegisterHeld DEF Rs2C
  <2>2. Rs2C.kind = "x"
    BY KindsOfOperands
  <2> QED
    BY <1>8, <2>1, <2>2, LetterKinds, LetterValues DEF Tells
<1>9. ASSUME Held(Rs2C, v, w), d.rs2 = Bits(w, 2, 5)
      PROVE  Tells(Rs2C, v, "2", d)
  <2>1. v = Bits(w, 2, 5)
    BY <1>9, NonZeroRegisterHeld DEF Rs2C
  <2>2. Rs2C.kind = "x"
    BY KindsOfOperands
  <2> QED
    BY <1>9, <2>1, <2>2, LetterKinds, LetterValues DEF Tells
<1>10. ASSUME Held(X(2), v, w), d.rs2 = Bits(w, 2, 5)
      PROVE  Tells(X(2), v, "2", d)
  <2>1. v = Bits(w, 2, 5)
    BY <1>10, RegisterHeld
  <2>2. X(2).kind = "x"
    BY KindsOfOperands
  <2> QED
    BY <1>10, <2>1, <2>2, LetterKinds, LetterValues DEF Tells
<1>11. ASSUME Held(XC(2), v, w), d.rd = Bits(w, 2, 3) + 8
      PROVE  Tells(XC(2), v, "0", d)
  <2>1. v = Bits(w, 2, 3) + 8
    BY <1>11, ShortRegisterHeld
  <2>2. XC(2).kind = "x"
    BY KindsOfOperands
  <2> QED
    BY <1>11, <2>1, <2>2, LetterKinds, LetterValues DEF Tells
<1>12. ASSUME Held(XC(2), v, w), d.rs2 = Bits(w, 2, 3) + 8
      PROVE  Tells(XC(2), v, "2", d)
  <2>1. v = Bits(w, 2, 3) + 8
    BY <1>12, ShortRegisterHeld
  <2>2. XC(2).kind = "x"
    BY KindsOfOperands
  <2> QED
    BY <1>12, <2>1, <2>2, LetterKinds, LetterValues DEF Tells
<1>13. ASSUME Held(XC(7), v, w), d.rd = Bits(w, 7, 3) + 8
      PROVE  Tells(XC(7), v, "0", d)
  <2>1. v = Bits(w, 7, 3) + 8
    BY <1>13, ShortRegisterHeld
  <2>2. XC(7).kind = "x"
    BY KindsOfOperands
  <2> QED
    BY <1>13, <2>1, <2>2, LetterKinds, LetterValues DEF Tells
<1>14. ASSUME Held(XC(7), v, w), d.rs1 = Bits(w, 7, 3) + 8
      PROVE  Tells(XC(7), v, "1", d)
  <2>1. v = Bits(w, 7, 3) + 8
    BY <1>14, ShortRegisterHeld
  <2>2. XC(7).kind = "x"
    BY KindsOfOperands
  <2> QED
    BY <1>14, <2>1, <2>2, LetterKinds, LetterValues DEF Tells
<1> QED
  BY <1>1, <1>2, <1>3, <1>4, <1>5, <1>6, <1>7, <1>8, <1>9, <1>10, <1>11, <1>12, <1>13, <1>14

LEMMA ImpliedTold ==
  ASSUME NEW w \in Word, NEW d, NEW v
  PROVE  /\ Held(none, v, w) /\ d.imm = 0 => Tells(none, v, "i", d)
         /\ Held(ra, v, w) /\ d.rd = 1 => Tells(ra, v, "0", d)
         /\ Held(sp, v, w) /\ d.rd = 2 => Tells(sp, v, "0", d)
         /\ Held(sp, v, w) /\ d.rs1 = 2 => Tells(sp, v, "1", d)
         /\ Held(zero, v, w) /\ d.rd = 0 => Tells(zero, v, "0", d)
         /\ Held(zero, v, w) /\ d.rs1 = 0 => Tells(zero, v, "1", d)
         /\ Held(zero, v, w) /\ d.rs2 = 0 => Tells(zero, v, "2", d)
<1>1. ASSUME Held(none, v, w), d.imm = 0
      PROVE  Tells(none, v, "i", d)
  <2>1. v = 0
    BY <1>1, OnlyHeld DEF none
  <2>2. none.kind = "imm"
    BY KindsOfOperands
  <2> QED
    BY <1>1, <2>1, <2>2, LetterKinds, LetterValues DEF Tells
<1>2. ASSUME Held(ra, v, w), d.rd = 1
      PROVE  Tells(ra, v, "0", d)
  <2>1. v = 1
    BY <1>2, OnlyHeld DEF ra
  <2>2. ra.kind = "x"
    BY KindsOfOperands
  <2> QED
    BY <1>2, <2>1, <2>2, LetterKinds, LetterValues DEF Tells
<1>3. ASSUME Held(sp, v, w), d.rd = 2
      PROVE  Tells(sp, v, "0", d)
  <2>1. v = 2
    BY <1>3, OnlyHeld DEF sp
  <2>2. sp.kind = "x"
    BY KindsOfOperands
  <2> QED
    BY <1>3, <2>1, <2>2, LetterKinds, LetterValues DEF Tells
<1>4. ASSUME Held(sp, v, w), d.rs1 = 2
      PROVE  Tells(sp, v, "1", d)
  <2>1. v = 2
    BY <1>4, OnlyHeld DEF sp
  <2>2. sp.kind = "x"
    BY KindsOfOperands
  <2> QED
    BY <1>4, <2>1, <2>2, LetterKinds, LetterValues DEF Tells
<1>5. ASSUME Held(zero, v, w), d.rd = 0
      PROVE  Tells(zero, v, "0", d)
  <2>1. v = 0
    BY <1>5, OnlyHeld DEF zero
  <2>2. zero.kind = "x"
    BY KindsOfOperands
  <2> QED
    BY <1>5, <2>1, <2>2, LetterKinds, LetterValues DEF Tells
<1>6. ASSUME Held(zero, v, w), d.rs1 = 0
      PROVE  Tells(zero, v, "1", d)
  <2>1. v = 0
    BY <1>6, OnlyHeld DEF zero
  <2>2. zero.kind = "x"
    BY KindsOfOperands
  <2> QED
    BY <1>6, <2>1, <2>2, LetterKinds, LetterValues DEF Tells
<1>7. ASSUME Held(zero, v, w), d.rs2 = 0
      PROVE  Tells(zero, v, "2", d)
  <2>1. v = 0
    BY <1>7, OnlyHeld DEF zero
  <2>2. zero.kind = "x"
    BY KindsOfOperands
  <2> QED
    BY <1>7, <2>1, <2>2, LetterKinds, LetterValues DEF Tells
<1> QED
  BY <1>1, <1>2, <1>3, <1>4, <1>5, <1>6, <1>7

LEMMA ShortImmediateTold ==
  ASSUME NEW w \in Halfword, NEW d, NEW v
  PROVE  /\ Held(CImm, v, w) /\ d.imm = operand_cimmi(w) => Tells(CImm, v, "i", d)
         /\ Held(CImm16, v, w) /\ d.imm = operand_cimm16sp(w) => Tells(CImm16, v, "i", d)
         /\ Held(CImm4, v, w) /\ d.imm = operand_cimm4spn(w) => Tells(CImm4, v, "i", d)
         /\ Held(CImmAddi, v, w) /\ d.imm = operand_cimmi(w) => Tells(CImmAddi, v, "i", d)
         /\ Held(CImmB, v, w) /\ d.imm = operand_cimmb(w) => Tells(CImmB, v, "o", d)
         /\ Held(CImmD, v, w) /\ d.imm = operand_cimmd(w) => Tells(CImmD, v, "i", d)
         /\ Held(CImmJ, v, w) /\ d.imm = operand_cimmj(w) => Tells(CImmJ, v, "o", d)
         /\ Held(CImmLdsp, v, w) /\ d.imm = operand_cimmldsp(w) => Tells(CImmLdsp, v, "i", d)
         /\ Held(CImmLui, v, w) /\ d.imm = operand_cimmui(w) => Tells(CImmLui, v, "i", d)
         /\ Held(CImmLwsp, v, w) /\ d.imm = operand_cimmlwsp(w) => Tells(CImmLwsp, v, "i", d)
         /\ Held(CImmSdsp, v, w) /\ d.imm = operand_cimmsdsp(w) => Tells(CImmSdsp, v, "i", d)
         /\ Held(CImmSwsp, v, w) /\ d.imm = operand_cimmswsp(w) => Tells(CImmSwsp, v, "i", d)
         /\ Held(CImmW, v, w) /\ d.imm = operand_cimmw(w) => Tells(CImmW, v, "i", d)
         /\ Held(CShamt, v, w) /\ d.imm = operand_cimmsh6(w) => Tells(CShamt, v, "i", d)
<1> w \in Word
  BY HalfwordIsWord
<1>1. ASSUME Held(CImm, v, w), d.imm = operand_cimmi(w)
      PROVE  Tells(CImm, v, "i", d)
  <2>1. v = operand_cimmi(w)
    BY <1>1, ShortImmediateHeld
  <2>2. CImm.kind = "imm"
    BY KindsOfOperands
  <2> QED
    BY <1>1, <2>1, <2>2, LetterKinds, LetterValues DEF Tells
<1>2. ASSUME Held(CImm16, v, w), d.imm = operand_cimm16sp(w)
      PROVE  Tells(CImm16, v, "i", d)
  <2>1. v = operand_cimm16sp(w)
    BY <1>2, ShortImmediateHeld
  <2>2. CImm16.kind = "imm"
    BY KindsOfOperands
  <2> QED
    BY <1>2, <2>1, <2>2, LetterKinds, LetterValues DEF Tells
<1>3. ASSUME Held(CImm4, v, w), d.imm = operand_cimm4spn(w)
      PROVE  Tells(CImm4, v, "i", d)
  <2>1. v = operand_cimm4spn(w)
    BY <1>3, ShortImmediateHeld
  <2>2. CImm4.kind = "imm"
    BY KindsOfOperands
  <2> QED
    BY <1>3, <2>1, <2>2, LetterKinds, LetterValues DEF Tells
<1>4. ASSUME Held(CImmAddi, v, w), d.imm = operand_cimmi(w)
      PROVE  Tells(CImmAddi, v, "i", d)
  <2>1. v = operand_cimmi(w)
    BY <1>4, NonZeroImmediateHeld DEF CImmAddi
  <2>2. CImmAddi.kind = "imm"
    BY KindsOfOperands
  <2> QED
    BY <1>4, <2>1, <2>2, LetterKinds, LetterValues DEF Tells
<1>5. ASSUME Held(CImmB, v, w), d.imm = operand_cimmb(w)
      PROVE  Tells(CImmB, v, "o", d)
  <2>1. v = operand_cimmb(w)
    BY <1>5, ShortImmediateHeld
  <2>2. CImmB.kind = "imm"
    BY KindsOfOperands
  <2> QED
    BY <1>5, <2>1, <2>2, LetterKinds, LetterValues DEF Tells
<1>6. ASSUME Held(CImmD, v, w), d.imm = operand_cimmd(w)
      PROVE  Tells(CImmD, v, "i", d)
  <2>1. v = operand_cimmd(w)
    BY <1>6, ShortImmediateHeld
  <2>2. CImmD.kind = "imm"
    BY KindsOfOperands
  <2> QED
    BY <1>6, <2>1, <2>2, LetterKinds, LetterValues DEF Tells
<1>7. ASSUME Held(CImmJ, v, w), d.imm = operand_cimmj(w)
      PROVE  Tells(CImmJ, v, "o", d)
  <2>1. v = operand_cimmj(w)
    BY <1>7, ShortImmediateHeld
  <2>2. CImmJ.kind = "imm"
    BY KindsOfOperands
  <2> QED
    BY <1>7, <2>1, <2>2, LetterKinds, LetterValues DEF Tells
<1>8. ASSUME Held(CImmLdsp, v, w), d.imm = operand_cimmldsp(w)
      PROVE  Tells(CImmLdsp, v, "i", d)
  <2>1. v = operand_cimmldsp(w)
    BY <1>8, ShortImmediateHeld
  <2>2. CImmLdsp.kind = "imm"
    BY KindsOfOperands
  <2> QED
    BY <1>8, <2>1, <2>2, LetterKinds, LetterValues DEF Tells
<1>9. ASSUME Held(CImmLui, v, w), d.imm = operand_cimmui(w)
      PROVE  Tells(CImmLui, v, "i", d)
  <2>1. v = operand_cimmui(w)
    BY <1>9, ShortImmediateHeld
  <2>2. CImmLui.kind = "imm"
    BY KindsOfOperands
  <2> QED
    BY <1>9, <2>1, <2>2, LetterKinds, LetterValues DEF Tells
<1>10. ASSUME Held(CImmLwsp, v, w), d.imm = operand_cimmlwsp(w)
      PROVE  Tells(CImmLwsp, v, "i", d)
  <2>1. v = operand_cimmlwsp(w)
    BY <1>10, ShortImmediateHeld
  <2>2. CImmLwsp.kind = "imm"
    BY KindsOfOperands
  <2> QED
    BY <1>10, <2>1, <2>2, LetterKinds, LetterValues DEF Tells
<1>11. ASSUME Held(CImmSdsp, v, w), d.imm = operand_cimmsdsp(w)
      PROVE  Tells(CImmSdsp, v, "i", d)
  <2>1. v = operand_cimmsdsp(w)
    BY <1>11, ShortImmediateHeld
  <2>2. CImmSdsp.kind = "imm"
    BY KindsOfOperands
  <2> QED
    BY <1>11, <2>1, <2>2, LetterKinds, LetterValues DEF Tells
<1>12. ASSUME Held(CImmSwsp, v, w), d.imm = operand_cimmswsp(w)
      PROVE  Tells(CImmSwsp, v, "i", d)
  <2>1. v = operand_cimmswsp(w)
    BY <1>12, ShortImmediateHeld
  <2>2. CImmSwsp.kind = "imm"
    BY KindsOfOperands
  <2> QED
    BY <1>12, <2>1, <2>2, LetterKinds, LetterValues DEF Tells
<1>13. ASSUME Held(CImmW, v, w), d.imm = operand_cimmw(w)
      PROVE  Tells(CImmW, v, "i", d)
  <2>1. v = operand_cimmw(w)
    BY <1>13, ShortImmediateHeld
  <2>2. CImmW.kind = "imm"
    BY KindsOfOperands
  <2> QED
    BY <1>13, <2>1, <2>2, LetterKinds, LetterValues DEF Tells
<1>14. ASSUME Held(CShamt, v, w), d.imm = operand_cimmsh6(w)
      PROVE  Tells(CShamt, v, "i", d)
  <2>1. v = operand_cimmsh6(w)
    BY <1>14, ShortImmediateHeld
  <2>2. CShamt.kind = "imm"
    BY KindsOfOperands
  <2> QED
    BY <1>14, <2>1, <2>2, LetterKinds, LetterValues DEF Tells
<1> QED
  BY <1>1, <1>2, <1>3, <1>4, <1>5, <1>6, <1>7, <1>8, <1>9, <1>10, <1>11, <1>12, <1>13, <1>14

(* Formats of up to five operands.                                         *)
LEMMA ToldNone ==
  ASSUME NEW v, NEW ft, NEW d, Count(ft) = 0
  PROVE  Told(<< >>, v, ft, d)
BY DEF Told

LEMMA Told1 ==
  ASSUME NEW v, NEW ft, NEW d, Count(ft) = 1, NEW a,
         Tells(a, v[1], ft[Slot(ft, 1)], d)
  PROVE  Told(<<a>>, v, ft, d)
<1> DEFINE args == <<a>>
<1>1. DOMAIN args = 1 .. 1 /\ args[1] = a
  OBVIOUS
<1> HIDE DEF args
<1>2. \A k \in 1 .. 1 : Tells(args[k], v[k], ft[Slot(ft, k)], d)
  BY <1>1
<1>3. Told(args, v, ft, d)
  BY <1>1, <1>2 DEF Told
<1> QED
  BY <1>3 DEF args

LEMMA Told2 ==
  ASSUME NEW v, NEW ft, NEW d, Count(ft) = 2, NEW a, NEW b,
         Tells(a, v[1], ft[Slot(ft, 1)], d), Tells(b, v[2], ft[Slot(ft, 2)], d)
  PROVE  Told(<<a, b>>, v, ft, d)
<1> DEFINE args == <<a, b>>
<1>1. DOMAIN args = 1 .. 2 /\ args[1] = a /\ args[2] = b
  OBVIOUS
<1> HIDE DEF args
<1>2. \A k \in 1 .. 2 : Tells(args[k], v[k], ft[Slot(ft, k)], d)
  BY <1>1
<1>3. Told(args, v, ft, d)
  BY <1>1, <1>2 DEF Told
<1> QED
  BY <1>3 DEF args

LEMMA Told3 ==
  ASSUME NEW v, NEW ft, NEW d, Count(ft) = 3, NEW a, NEW b, NEW c,
         Tells(a, v[1], ft[Slot(ft, 1)], d), Tells(b, v[2], ft[Slot(ft, 2)], d),
         Tells(c, v[3], ft[Slot(ft, 3)], d)
  PROVE  Told(<<a, b, c>>, v, ft, d)
<1> DEFINE args == <<a, b, c>>
<1>1. DOMAIN args = 1 .. 3 /\ args[1] = a /\ args[2] = b /\ args[3] = c
  OBVIOUS
<1> HIDE DEF args
<1>2. \A k \in 1 .. 3 : Tells(args[k], v[k], ft[Slot(ft, k)], d)
  BY <1>1
<1>3. Told(args, v, ft, d)
  BY <1>1, <1>2 DEF Told
<1> QED
  BY <1>3 DEF args

LEMMA Told4 ==
  ASSUME NEW v, NEW ft, NEW d, Count(ft) = 4, NEW a, NEW b, NEW c, NEW e,
         Tells(a, v[1], ft[Slot(ft, 1)], d), Tells(b, v[2], ft[Slot(ft, 2)], d),
         Tells(c, v[3], ft[Slot(ft, 3)], d), Tells(e, v[4], ft[Slot(ft, 4)], d)
  PROVE  Told(<<a, b, c, e>>, v, ft, d)
<1> DEFINE args == <<a, b, c, e>>
<1>1. DOMAIN args = 1 .. 4 /\ args[1] = a /\ args[2] = b /\ args[3] = c /\ args[4] = e
  OBVIOUS
<1> HIDE DEF args
<1>2. \A k \in 1 .. 4 : Tells(args[k], v[k], ft[Slot(ft, k)], d)
  BY <1>1
<1>3. Told(args, v, ft, d)
  BY <1>1, <1>2 DEF Told
<1> QED
  BY <1>3 DEF args

LEMMA Told5 ==
  ASSUME NEW v, NEW ft, NEW d, Count(ft) = 5, NEW a, NEW b, NEW c, NEW e, NEW f,
         Tells(a, v[1], ft[Slot(ft, 1)], d), Tells(b, v[2], ft[Slot(ft, 2)], d),
         Tells(c, v[3], ft[Slot(ft, 3)], d), Tells(e, v[4], ft[Slot(ft, 4)], d),
         Tells(f, v[5], ft[Slot(ft, 5)], d)
  PROVE  Told(<<a, b, c, e, f>>, v, ft, d)
<1> DEFINE args == <<a, b, c, e, f>>
<1>1. DOMAIN args = 1 .. 5 /\ args[1] = a /\ args[2] = b /\ args[3] = c /\ args[4] = e /\ args[5] = f
  OBVIOUS
<1> HIDE DEF args
<1>2. \A k \in 1 .. 5 : Tells(args[k], v[k], ft[Slot(ft, k)], d)
  BY <1>1
<1>3. Told(args, v, ft, d)
  BY <1>1, <1>2 DEF Told
<1> QED
  BY <1>3 DEF args

-----------------------------------------------------------------------------
(* The operands of each kind of row, as its format shows them.             *)
LEMMA Told_sb_rs1_rs2_offset ==
  ASSUME NEW w \in Word, NEW pc, NEW op, NEW v, NEW d, d = Cut(w, pc, op, "sb"),
         HeldAll(<<Rs1, Rs2, ImmB>>, v, w)
  PROVE  Told(<<Rs1, Rs2, ImmB>>, v, fmt_rs1_rs2_offset, d)
<1>1. Held(Rs1, v[1], w) /\ Held(Rs2, v[2], w) /\ Held(ImmB, v[3], w)
  BY DEF HeldAll
<1>2. /\ Tells(Rs1, v[1], "1", d) /\ Tells(Rs2, v[2], "2", d)
      /\ Tells(ImmB, v[3], "o", d)
  BY <1>1, Cut_sb, ImmediateTold, IntegerTold
<1> QED
  BY <1>2, Slots_fmt_rs1_rs2_offset, Told3

LEMMA Told_i_rd_offset_rs1 ==
  ASSUME NEW w \in Word, NEW pc, NEW op, NEW v, NEW d, d = Cut(w, pc, op, "i"),
         HeldAll(<<Rd, ImmI, Rs1>>, v, w)
  PROVE  Told(<<Rd, ImmI, Rs1>>, v, fmt_rd_offset_rs1, d)
<1>1. Held(Rd, v[1], w) /\ Held(ImmI, v[2], w) /\ Held(Rs1, v[3], w)
  BY DEF HeldAll
<1>2. /\ Tells(Rd, v[1], "0", d) /\ Tells(ImmI, v[2], "i", d)
      /\ Tells(Rs1, v[3], "1", d)
  BY <1>1, Cut_i, ImmediateTold, IntegerTold
<1> QED
  BY <1>2, Slots_fmt_rd_offset_rs1, Told3

LEMMA Told_s_rs2_offset_rs1 ==
  ASSUME NEW w \in Word, NEW pc, NEW op, NEW v, NEW d, d = Cut(w, pc, op, "s"),
         HeldAll(<<Rs2, ImmS, Rs1>>, v, w)
  PROVE  Told(<<Rs2, ImmS, Rs1>>, v, fmt_rs2_offset_rs1, d)
<1>1. Held(Rs2, v[1], w) /\ Held(ImmS, v[2], w) /\ Held(Rs1, v[3], w)
  BY DEF HeldAll
<1>2. /\ Tells(Rs2, v[1], "2", d) /\ Tells(ImmS, v[2], "i", d)
      /\ Tells(Rs1, v[3], "1", d)
  BY <1>1, Cut_s, ImmediateTold, IntegerTold
<1> QED
  BY <1>2, Slots_fmt_rs2_offset_rs1, Told3

LEMMA Told_i_frd_offset_rs1 ==
  ASSUME NEW w \in Word, NEW pc, NEW op, NEW v, NEW d, d = Cut(w, pc, op, "i"),
         HeldAll(<<Fd, ImmI, Rs1>>, v, w)
  PROVE  Told(<<Fd, ImmI, Rs1>>, v, fmt_frd_offset_rs1, d)
<1>1. Held(Fd, v[1], w) /\ Held(ImmI, v[2], w) /\ Held(Rs1, v[3], w)
  BY DEF HeldAll
<1>2. /\ Tells(Fd, v[1], "3", d) /\ Tells(ImmI, v[2], "i", d)
      /\ Tells(Rs1, v[3], "1", d)
  BY <1>1, Cut_i, FloatTold, ImmediateTold, IntegerTold
<1> QED
  BY <1>2, Slots_fmt_frd_offset_rs1, Told3

LEMMA Told_s_frs2_offset_rs1 ==
  ASSUME NEW w \in Word, NEW pc, NEW op, NEW v, NEW d, d = Cut(w, pc, op, "s"),
         HeldAll(<<Fs2, ImmS, Rs1>>, v, w)
  PROVE  Told(<<Fs2, ImmS, Rs1>>, v, fmt_frs2_offset_rs1, d)
<1>1. Held(Fs2, v[1], w) /\ Held(ImmS, v[2], w) /\ Held(Rs1, v[3], w)
  BY DEF HeldAll
<1>2. /\ Tells(Fs2, v[1], "5", d) /\ Tells(ImmS, v[2], "i", d)
      /\ Tells(Rs1, v[3], "1", d)
  BY <1>1, Cut_s, FloatTold, ImmediateTold, IntegerTold
<1> QED
  BY <1>2, Slots_fmt_frs2_offset_rs1, Told3

LEMMA Told_i_rd_rs1_imm ==
  ASSUME NEW w \in Word, NEW pc, NEW op, NEW v, NEW d, d = Cut(w, pc, op, "i"),
         HeldAll(<<Rd, Rs1, ImmI>>, v, w)
  PROVE  Told(<<Rd, Rs1, ImmI>>, v, fmt_rd_rs1_imm, d)
<1>1. Held(Rd, v[1], w) /\ Held(Rs1, v[2], w) /\ Held(ImmI, v[3], w)
  BY DEF HeldAll
<1>2. /\ Tells(Rd, v[1], "0", d) /\ Tells(Rs1, v[2], "1", d)
      /\ Tells(ImmI, v[3], "i", d)
  BY <1>1, Cut_i, ImmediateTold, IntegerTold
<1> QED
  BY <1>2, Slots_fmt_rd_rs1_imm, Told3

LEMMA Told_i_sh7_rd_rs1_imm ==
  ASSUME NEW w \in Word, NEW pc, NEW op, NEW v, NEW d, d = Cut(w, pc, op, "i_sh7"),
         HeldAll(<<Rd, Rs1, Sh(6)>>, v, w),
         Bits(w, 26, 6) \in {0, 16}
  PROVE  Told(<<Rd, Rs1, Sh(6)>>, v, fmt_rd_rs1_imm, d)
<1>1. Held(Rd, v[1], w) /\ Held(Rs1, v[2], w) /\ Held(Sh(6), v[3], w)
  BY DEF HeldAll
<1>2. /\ Tells(Rd, v[1], "0", d) /\ Tells(Rs1, v[2], "1", d)
      /\ Tells(Sh(6), v[3], "i", d)
  BY <1>1, Cut_i_sh7, Shamt7Of6, IntegerTold, ShamtTold
<1> QED
  BY <1>2, Slots_fmt_rd_rs1_imm, Told3

LEMMA Told_i_sh5_rd_rs1_imm ==
  ASSUME NEW w \in Word, NEW pc, NEW op, NEW v, NEW d, d = Cut(w, pc, op, "i_sh5"),
         HeldAll(<<Rd, Rs1, Sh(5)>>, v, w)
  PROVE  Told(<<Rd, Rs1, Sh(5)>>, v, fmt_rd_rs1_imm, d)
<1>1. Held(Rd, v[1], w) /\ Held(Rs1, v[2], w) /\ Held(Sh(5), v[3], w)
  BY DEF HeldAll
<1>2. /\ Tells(Rd, v[1], "0", d) /\ Tells(Rs1, v[2], "1", d)
      /\ Tells(Sh(5), v[3], "i", d)
  BY <1>1, Cut_i_sh5, IntegerTold, ShamtTold
<1> QED
  BY <1>2, Slots_fmt_rd_rs1_imm, Told3

LEMMA Told_i_sh6_rd_rs1_imm ==
  ASSUME NEW w \in Word, NEW pc, NEW op, NEW v, NEW d, d = Cut(w, pc, op, "i_sh6"),
         HeldAll(<<Rd, Rs1, Sh(6)>>, v, w)
  PROVE  Told(<<Rd, Rs1, Sh(6)>>, v, fmt_rd_rs1_imm, d)
<1>1. Held(Rd, v[1], w) /\ Held(Rs1, v[2], w) /\ Held(Sh(6), v[3], w)
  BY DEF HeldAll
<1>2. /\ Tells(Rd, v[1], "0", d) /\ Tells(Rs1, v[2], "1", d)
      /\ Tells(Sh(6), v[3], "i", d)
  BY <1>1, Cut_i_sh6, IntegerTold, ShamtTold
<1> QED
  BY <1>2, Slots_fmt_rd_rs1_imm, Told3

LEMMA Told_r_rd_rs1_rs2 ==
  ASSUME NEW w \in Word, NEW pc, NEW op, NEW v, NEW d, d = Cut(w, pc, op, "r"),
         HeldAll(<<Rd, Rs1, Rs2>>, v, w)
  PROVE  Told(<<Rd, Rs1, Rs2>>, v, fmt_rd_rs1_rs2, d)
<1>1. Held(Rd, v[1], w) /\ Held(Rs1, v[2], w) /\ Held(Rs2, v[3], w)
  BY DEF HeldAll
<1>2. /\ Tells(Rd, v[1], "0", d) /\ Tells(Rs1, v[2], "1", d)
      /\ Tells(Rs2, v[3], "2", d)
  BY <1>1, Cut_r, IntegerTold
<1> QED
  BY <1>2, Slots_fmt_rd_rs1_rs2, Told3

LEMMA Told_i_csr_rd_csr_rs1 ==
  ASSUME NEW w \in Word, NEW pc, NEW op, NEW v, NEW d, d = Cut(w, pc, op, "i_csr"),
         HeldAll(<<Rd, Csr, Rs1>>, v, w)
  PROVE  Told(<<Rd, Csr, Rs1>>, v, fmt_rd_csr_rs1, d)
<1>1. Held(Rd, v[1], w) /\ Held(Csr, v[2], w) /\ Held(Rs1, v[3], w)
  BY DEF HeldAll
<1>2. /\ Tells(Rd, v[1], "0", d) /\ Tells(Csr, v[2], "c", d)
      /\ Tells(Rs1, v[3], "1", d)
  BY <1>1, Cut_i_csr, IntegerTold, SystemTold
<1> QED
  BY <1>2, Slots_fmt_rd_csr_rs1, Told3

LEMMA Told_i_csr_rd_csr_zimm ==
  ASSUME NEW w \in Word, NEW pc, NEW op, NEW v, NEW d, d = Cut(w, pc, op, "i_csr"),
         HeldAll(<<Rd, Csr, Zimm>>, v, w)
  PROVE  Told(<<Rd, Csr, Zimm>>, v, fmt_rd_csr_zimm, d)
<1>1. Held(Rd, v[1], w) /\ Held(Csr, v[2], w) /\ Held(Zimm, v[3], w)
  BY DEF HeldAll
<1>2. /\ Tells(Rd, v[1], "0", d) /\ Tells(Csr, v[2], "c", d)
      /\ Tells(Zimm, v[3], "7", d)
  BY <1>1, Cut_i_csr, IntegerTold, SystemTold
<1> QED
  BY <1>2, Slots_fmt_rd_csr_zimm, Told3

LEMMA Told_uj_rd_offset ==
  ASSUME NEW w \in Word, NEW pc, NEW op, NEW v, NEW d, d = Cut(w, pc, op, "uj"),
         HeldAll(<<Rd, ImmJ>>, v, w)
  PROVE  Told(<<Rd, ImmJ>>, v, fmt_rd_offset, d)
<1>1. Held(Rd, v[1], w) /\ Held(ImmJ, v[2], w)
  BY DEF HeldAll
<1>2. Tells(Rd, v[1], "0", d) /\ Tells(ImmJ, v[2], "o", d)
  BY <1>1, Cut_uj, ImmediateTold, IntegerTold
<1> QED
  BY <1>2, Slots_fmt_rd_offset, Told2

LEMMA Told_i_rd_rs1_offset ==
  ASSUME NEW w \in Word, NEW pc, NEW op, NEW v, NEW d, d = Cut(w, pc, op, "i"),
         HeldAll(<<Rd, Rs1, ImmI>>, v, w)
  PROVE  Told(<<Rd, Rs1, ImmI>>, v, fmt_rd_rs1_offset, d)
<1>1. Held(Rd, v[1], w) /\ Held(Rs1, v[2], w) /\ Held(ImmI, v[3], w)
  BY DEF HeldAll
<1>2. /\ Tells(Rd, v[1], "0", d) /\ Tells(Rs1, v[2], "1", d)
      /\ Tells(ImmI, v[3], "i", d)
  BY <1>1, Cut_i, ImmediateTold, IntegerTold
<1> QED
  BY <1>2, Slots_fmt_rd_rs1_offset, Told3

LEMMA Told_u_rd_imm ==
  ASSUME NEW w \in Word, NEW pc, NEW op, NEW v, NEW d, d = Cut(w, pc, op, "u"),
         HeldAll(<<Rd, ImmU>>, v, w)
  PROVE  Told(<<Rd, ImmU>>, v, fmt_rd_imm, d)
<1>1. Held(Rd, v[1], w) /\ Held(ImmU, v[2], w)
  BY DEF HeldAll
<1>2. Tells(Rd, v[1], "0", d) /\ Tells(ImmU, v[2], "i", d)
  BY <1>1, Cut_u, ImmediateTold, IntegerTold
<1> QED
  BY <1>2, Slots_fmt_rd_imm, Told2

LEMMA Told_u_rd_offset ==
  ASSUME NEW w \in Word, NEW pc, NEW op, NEW v, NEW d, d = Cut(w, pc, op, "u"),
         HeldAll(<<Rd, ImmU>>, v, w)
  PROVE  Told(<<Rd, ImmU>>, v, fmt_rd_offset, d)
<1>1. Held(Rd, v[1], w) /\ Held(ImmU, v[2], w)
  BY DEF HeldAll
<1>2. Tells(Rd, v[1], "0", d) /\ Tells(ImmU, v[2], "o", d)
  BY <1>1, Cut_u, ImmediateTold, IntegerTold
<1> QED
  BY <1>2, Slots_fmt_rd_offset, Told2

LEMMA Told_r_f_pred_succ ==
  ASSUME NEW w \in Word, NEW pc, NEW op, NEW v, NEW d, d = Cut(w, pc, op, "r_f"),
         HeldAll(<<Pred, Succ>>, v, w)
  PROVE  Told(<<Pred, Succ>>, v, fmt_pred_succ, d)
<1>1. Held(Pred, v[1], w) /\ Held(Succ, v[2], w)
  BY DEF HeldAll
<1>2. Tells(Pred, v[1], "p", d) /\ Tells(Succ, v[2], "s", d)
  BY <1>1, Cut_r_f, SystemTold
<1> QED
  BY <1>2, Slots_fmt_pred_succ, Told2

LEMMA Told_none_none ==
  ASSUME NEW w \in Word, NEW pc, NEW op, NEW v, NEW d, d = Cut(w, pc, op, "none"),
         HeldAll(<< >>, v, w)
  PROVE  Told(<< >>, v, fmt_none, d)
BY Slots_fmt_none, ToldNone

LEMMA Told_r_rs1_rs2 ==
  ASSUME NEW w \in Word, NEW pc, NEW op, NEW v, NEW d, d = Cut(w, pc, op, "r"),
         HeldAll(<<Rs1, Rs2>>, v, w)
  PROVE  Told(<<Rs1, Rs2>>, v, fmt_rs1_rs2, d)
<1>1. Held(Rs1, v[1], w) /\ Held(Rs2, v[2], w)
  BY DEF HeldAll
<1>2. Tells(Rs1, v[1], "1", d) /\ Tells(Rs2, v[2], "2", d)
  BY <1>1, Cut_r, IntegerTold
<1> QED
  BY <1>2, Slots_fmt_rs1_rs2, Told2

LEMMA Told_r_rs1 ==
  ASSUME NEW w \in Word, NEW pc, NEW op, NEW v, NEW d, d = Cut(w, pc, op, "r"),
         HeldAll(<<Rs1>>, v, w)
  PROVE  Told(<<Rs1>>, v, fmt_rs1, d)
<1>1. Held(Rs1, v[1], w)
  BY DEF HeldAll
<1>2. Tells(Rs1, v[1], "1", d)
  BY <1>1, Cut_r, IntegerTold
<1> QED
  BY <1>2, Slots_fmt_rs1, Told1

LEMMA Told_r_m_rm_frd_frs1_frs2 ==
  ASSUME NEW w \in Word, NEW pc, NEW op, NEW v, NEW d, d = Cut(w, pc, op, "r_m"),
         HeldAll(<<Rm, Fd, Fs1, Fs2>>, v, w)
  PROVE  Told(<<Rm, Fd, Fs1, Fs2>>, v, fmt_rm_frd_frs1_frs2, d)
<1>1. /\ Held(Rm, v[1], w) /\ Held(Fd, v[2], w) /\ Held(Fs1, v[3], w)
      /\ Held(Fs2, v[4], w)
  BY DEF HeldAll
<1>2. /\ Tells(Rm, v[1], "r", d) /\ Tells(Fd, v[2], "3", d)
      /\ Tells(Fs1, v[3], "4", d) /\ Tells(Fs2, v[4], "5", d)
  BY <1>1, Cut_r_m, FloatTold
<1> QED
  BY <1>2, Slots_fmt_rm_frd_frs1_frs2, Told4

LEMMA Told_r_frd_frs1_frs2 ==
  ASSUME NEW w \in Word, NEW pc, NEW op, NEW v, NEW d, d = Cut(w, pc, op, "r"),
         HeldAll(<<Fd, Fs1, Fs2>>, v, w)
  PROVE  Told(<<Fd, Fs1, Fs2>>, v, fmt_frd_frs1_frs2, d)
<1>1. Held(Fd, v[1], w) /\ Held(Fs1, v[2], w) /\ Held(Fs2, v[3], w)
  BY DEF HeldAll
<1>2. /\ Tells(Fd, v[1], "3", d) /\ Tells(Fs1, v[2], "4", d)
      /\ Tells(Fs2, v[3], "5", d)
  BY <1>1, Cut_r, FloatTold
<1> QED
  BY <1>2, Slots_fmt_frd_frs1_frs2, Told3

LEMMA Told_r_rd_frs1_frs2 ==
  ASSUME NEW w \in Word, NEW pc, NEW op, NEW v, NEW d, d = Cut(w, pc, op, "r"),
         HeldAll(<<Rd, Fs1, Fs2>>, v, w)
  PROVE  Told(<<Rd, Fs1, Fs2>>, v, fmt_rd_frs1_frs2, d)
<1>1. Held(Rd, v[1], w) /\ Held(Fs1, v[2], w) /\ Held(Fs2, v[3], w)
  BY DEF HeldAll
<1>2. /\ Tells(Rd, v[1], "0", d) /\ Tells(Fs1, v[2], "4", d)
      /\ Tells(Fs2, v[3], "5", d)
  BY <1>1, Cut_r, FloatTold, IntegerTold
<1> QED
  BY <1>2, Slots_fmt_rd_frs1_frs2, Told3

LEMMA Told_r_m_rm_frd_frs1 ==
  ASSUME NEW w \in Word, NEW pc, NEW op, NEW v, NEW d, d = Cut(w, pc, op, "r_m"),
         HeldAll(<<Rm, Fd, Fs1>>, v, w)
  PROVE  Told(<<Rm, Fd, Fs1>>, v, fmt_rm_frd_frs1, d)
<1>1. Held(Rm, v[1], w) /\ Held(Fd, v[2], w) /\ Held(Fs1, v[3], w)
  BY DEF HeldAll
<1>2. /\ Tells(Rm, v[1], "r", d) /\ Tells(Fd, v[2], "3", d)
      /\ Tells(Fs1, v[3], "4", d)
  BY <1>1, Cut_r_m, FloatTold
<1> QED
  BY <1>2, Slots_fmt_rm_frd_frs1, Told3

LEMMA Told_r_rd_frs1 ==
  ASSUME NEW w \in Word, NEW pc, NEW op, NEW v, NEW d, d = Cut(w, pc, op, "r"),
         HeldAll(<<Rd, Fs1>>, v, w)
  PROVE  Told(<<Rd, Fs1>>, v, fmt_rd_frs1, d)
<1>1. Held(Rd, v[1], w) /\ Held(Fs1, v[2], w)
  BY DEF HeldAll
<1>2. Tells(Rd, v[1], "0", d) /\ Tells(Fs1, v[2], "4", d)
  BY <1>1, Cut_r, FloatTold, IntegerTold
<1> QED
  BY <1>2, Slots_fmt_rd_frs1, Told2

LEMMA Told_r_frd_rs1 ==
  ASSUME NEW w \in Word, NEW pc, NEW op, NEW v, NEW d, d = Cut(w, pc, op, "r"),
         HeldAll(<<Fd, Rs1>>, v, w)
  PROVE  Told(<<Fd, Rs1>>, v, fmt_frd_rs1, d)
<1>1. Held(Fd, v[1], w) /\ Held(Rs1, v[2], w)
  BY DEF HeldAll
<1>2. Tells(Fd, v[1], "3", d) /\ Tells(Rs1, v[2], "1", d)
  BY <1>1, Cut_r, FloatTold, IntegerTold
<1> QED
  BY <1>2, Slots_fmt_frd_rs1, Told2

LEMMA Told_r4_m_rm_frd_frs1_frs2_frs3 ==
  ASSUME NEW w \in Word, NEW pc, NEW op, NEW v, NEW d, d = Cut(w, pc, op, "r4_m"),
         HeldAll(<<Rm, Fd, Fs1, Fs2, Fs3>>, v, w)
  PROVE  Told(<<Rm, Fd, Fs1, Fs2, Fs3>>, v, fmt_rm_frd_frs1_frs2_frs3, d)
<1>1. /\ Held(Rm, v[1], w) /\ Held(Fd, v[2], w) /\ Held(Fs1, v[3], w)
      /\ Held(Fs2, v[4], w) /\ Held(Fs3, v[5], w)
  BY DEF HeldAll
<1>2. /\ Tells(Rm, v[1], "r", d) /\ Tells(Fd, v[2], "3", d)
      /\ Tells(Fs1, v[3], "4", d) /\ Tells(Fs2, v[4], "5", d)
      /\ Tells(Fs3, v[5], "6", d)
  BY <1>1, Cut_r4_m, FloatTold
<1> QED
  BY <1>2, Slots_fmt_rm_frd_frs1_frs2_frs3, Told5

LEMMA Told_r_m_rm_rd_frs1 ==
  ASSUME NEW w \in Word, NEW pc, NEW op, NEW v, NEW d, d = Cut(w, pc, op, "r_m"),
         HeldAll(<<Rm, Rd, Fs1>>, v, w)
  PROVE  Told(<<Rm, Rd, Fs1>>, v, fmt_rm_rd_frs1, d)
<1>1. Held(Rm, v[1], w) /\ Held(Rd, v[2], w) /\ Held(Fs1, v[3], w)
  BY DEF HeldAll
<1>2. /\ Tells(Rm, v[1], "r", d) /\ Tells(Rd, v[2], "0", d)
      /\ Tells(Fs1, v[3], "4", d)
  BY <1>1, Cut_r_m, FloatTold, IntegerTold
<1> QED
  BY <1>2, Slots_fmt_rm_rd_frs1, Told3

LEMMA Told_r_m_rm_frd_rs1 ==
  ASSUME NEW w \in Word, NEW pc, NEW op, NEW v, NEW d, d = Cut(w, pc, op, "r_m"),
         HeldAll(<<Rm, Fd, Rs1>>, v, w)
  PROVE  Told(<<Rm, Fd, Rs1>>, v, fmt_rm_frd_rs1, d)
<1>1. Held(Rm, v[1], w) /\ Held(Fd, v[2], w) /\ Held(Rs1, v[3], w)
  BY DEF HeldAll
<1>2. /\ Tells(Rm, v[1], "r", d) /\ Tells(Fd, v[2], "3", d)
      /\ Tells(Rs1, v[3], "1", d)
  BY <1>1, Cut_r_m, FloatTold, IntegerTold
<1> QED
  BY <1>2, Slots_fmt_rm_frd_rs1, Told3

LEMMA Told_r_a_aqrl_rd_rs2_rs1 ==
  ASSUME NEW w \in Word, NEW pc, NEW op, NEW v, NEW d, d = Cut(w, pc, op, "r_a"),
         HeldAll(<<Rd, Rs2, Rs1>>, v, w)
  PROVE  Told(<<Rd, Rs2, Rs1>>, v, fmt_aqrl_rd_rs2_rs1, d)
<1>1. Held(Rd, v[1], w) /\ Held(Rs2, v[2], w) /\ Held(Rs1, v[3], w)
  BY DEF HeldAll
<1>2. /\ Tells(Rd, v[1], "0", d) /\ Tells(Rs2, v[2], "2", d)
      /\ Tells(Rs1, v[3], "1", d)
  BY <1>1, Cut_r_a, IntegerTold
<1> QED
  BY <1>2, Slots_fmt_aqrl_rd_rs2_rs1, Told3

LEMMA Told_r_l_aqrl_rd_rs1 ==
  ASSUME NEW w \in Word, NEW pc, NEW op, NEW v, NEW d, d = Cut(w, pc, op, "r_l"),
         HeldAll(<<Rd, Rs1>>, v, w)
  PROVE  Told(<<Rd, Rs1>>, v, fmt_aqrl_rd_rs1, d)
<1>1. Held(Rd, v[1], w) /\ Held(Rs1, v[2], w)
  BY DEF HeldAll
<1>2. Tells(Rd, v[1], "0", d) /\ Tells(Rs1, v[2], "1", d)
  BY <1>1, Cut_r_l, IntegerTold
<1> QED
  BY <1>2, Slots_fmt_aqrl_rd_rs1, Told2

LEMMA Told_ciw_4spn_rd_rs1_imm ==
  ASSUME NEW w \in Halfword, NEW pc, NEW op, NEW v, NEW d, d = Cut(w, pc, op, "ciw_4spn"),
         HeldAll(<<XC(2), sp, CImm4>>, v, w)
  PROVE  Told(<<XC(2), sp, CImm4>>, v, fmt_rd_rs1_imm, d)
<1>1. Held(XC(2), v[1], w) /\ Held(sp, v[2], w) /\ Held(CImm4, v[3], w)
  BY DEF HeldAll
<1>2. /\ Tells(XC(2), v[1], "0", d) /\ Tells(sp, v[2], "1", d)
      /\ Tells(CImm4, v[3], "i", d)
  BY <1>1, Cut_ciw_4spn, ImpliedTold, ShortImmediateTold, ShortRegisterTold, HalfwordIsWord
<1> QED
  BY <1>2, Slots_fmt_rd_rs1_imm, Told3

LEMMA Told_cl_ld_frd_offset_rs1 ==
  ASSUME NEW w \in Halfword, NEW pc, NEW op, NEW v, NEW d, d = Cut(w, pc, op, "cl_ld"),
         HeldAll(<<FC(2), CImmD, XC(7)>>, v, w)
  PROVE  Told(<<FC(2), CImmD, XC(7)>>, v, fmt_frd_offset_rs1, d)
<1>1. Held(FC(2), v[1], w) /\ Held(CImmD, v[2], w) /\ Held(XC(7), v[3], w)
  BY DEF HeldAll
<1>2. /\ Tells(FC(2), v[1], "3", d) /\ Tells(CImmD, v[2], "i", d)
      /\ Tells(XC(7), v[3], "1", d)
  BY <1>1, Cut_cl_ld, ShortImmediateTold, ShortRegisterTold
<1> QED
  BY <1>2, Slots_fmt_frd_offset_rs1, Told3

LEMMA Told_cl_lw_rd_offset_rs1 ==
  ASSUME NEW w \in Halfword, NEW pc, NEW op, NEW v, NEW d, d = Cut(w, pc, op, "cl_lw"),
         HeldAll(<<XC(2), CImmW, XC(7)>>, v, w)
  PROVE  Told(<<XC(2), CImmW, XC(7)>>, v, fmt_rd_offset_rs1, d)
<1>1. Held(XC(2), v[1], w) /\ Held(CImmW, v[2], w) /\ Held(XC(7), v[3], w)
  BY DEF HeldAll
<1>2. /\ Tells(XC(2), v[1], "0", d) /\ Tells(CImmW, v[2], "i", d)
      /\ Tells(XC(7), v[3], "1", d)
  BY <1>1, Cut_cl_lw, ShortImmediateTold, ShortRegisterTold
<1> QED
  BY <1>2, Slots_fmt_rd_offset_rs1, Told3

LEMMA Told_cl_lw_frd_offset_rs1 ==
  ASSUME NEW w \in Halfword, NEW pc, NEW op, NEW v, NEW d, d = Cut(w, pc, op, "cl_lw"),
         HeldAll(<<FC(2), CImmW, XC(7)>>, v, w)
  PROVE  Told(<<FC(2), CImmW, XC(7)>>, v, fmt_frd_offset_rs1, d)
<1>1. Held(FC(2), v[1], w) /\ Held(CImmW, v[2], w) /\ Held(XC(7), v[3], w)
  BY DEF HeldAll
<1>2. /\ Tells(FC(2), v[1], "3", d) /\ Tells(CImmW, v[2], "i", d)
      /\ Tells(XC(7), v[3], "1", d)
  BY <1>1, Cut_cl_lw, ShortImmediateTold, ShortRegisterTold
<1> QED
  BY <1>2, Slots_fmt_frd_offset_rs1, Told3

LEMMA Told_cl_ld_rd_offset_rs1 ==
  ASSUME NEW w \in Halfword, NEW pc, NEW op, NEW v, NEW d, d = Cut(w, pc, op, "cl_ld"),
         HeldAll(<<XC(2), CImmD, XC(7)>>, v, w)
  PROVE  Told(<<XC(2), CImmD, XC(7)>>, v, fmt_rd_offset_rs1, d)
<1>1. Held(XC(2), v[1], w) /\ Held(CImmD, v[2], w) /\ Held(XC(7), v[3], w)
  BY DEF HeldAll
<1>2. /\ Tells(XC(2), v[1], "0", d) /\ Tells(CImmD, v[2], "i", d)
      /\ Tells(XC(7), v[3], "1", d)
  BY <1>1, Cut_cl_ld, ShortImmediateTold, ShortRegisterTold
<1> QED
  BY <1>2, Slots_fmt_rd_offset_rs1, Told3

LEMMA Told_cs_sd_frs2_offset_rs1 ==
  ASSUME NEW w \in Halfword, NEW pc, NEW op, NEW v, NEW d, d = Cut(w, pc, op, "cs_sd"),
         HeldAll(<<FC(2), CImmD, XC(7)>>, v, w)
  PROVE  Told(<<FC(2), CImmD, XC(7)>>, v, fmt_frs2_offset_rs1, d)
<1>1. Held(FC(2), v[1], w) /\ Held(CImmD, v[2], w) /\ Held(XC(7), v[3], w)
  BY DEF HeldAll
<1>2. /\ Tells(FC(2), v[1], "5", d) /\ Tells(CImmD, v[2], "i", d)
      /\ Tells(XC(7), v[3], "1", d)
  BY <1>1, Cut_cs_sd, ShortImmediateTold, ShortRegisterTold
<1> QED
  BY <1>2, Slots_fmt_frs2_offset_rs1, Told3

LEMMA Told_cs_sw_rs2_offset_rs1 ==
  ASSUME NEW w \in Halfword, NEW pc, NEW op, NEW v, NEW d, d = Cut(w, pc, op, "cs_sw"),
         HeldAll(<<XC(2), CImmW, XC(7)>>, v, w)
  PROVE  Told(<<XC(2), CImmW, XC(7)>>, v, fmt_rs2_offset_rs1, d)
<1>1. Held(XC(2), v[1], w) /\ Held(CImmW, v[2], w) /\ Held(XC(7), v[3], w)
  BY DEF HeldAll
<1>2. /\ Tells(XC(2), v[1], "2", d) /\ Tells(CImmW, v[2], "i", d)
      /\ Tells(XC(7), v[3], "1", d)
  BY <1>1, Cut_cs_sw, ShortImmediateTold, ShortRegisterTold
<1> QED
  BY <1>2, Slots_fmt_rs2_offset_rs1, Told3

LEMMA Told_cs_sw_frs2_offset_rs1 ==
  ASSUME NEW w \in Halfword, NEW pc, NEW op, NEW v, NEW d, d = Cut(w, pc, op, "cs_sw"),
         HeldAll(<<FC(2), CImmW, XC(7)>>, v, w)
  PROVE  Told(<<FC(2), CImmW, XC(7)>>, v, fmt_frs2_offset_rs1, d)
<1>1. Held(FC(2), v[1], w) /\ Held(CImmW, v[2], w) /\ Held(XC(7), v[3], w)
  BY DEF HeldAll
<1>2. /\ Tells(FC(2), v[1], "5", d) /\ Tells(CImmW, v[2], "i", d)
      /\ Tells(XC(7), v[3], "1", d)
  BY <1>1, Cut_cs_sw, ShortImmediateTold, ShortRegisterTold
<1> QED
  BY <1>2, Slots_fmt_frs2_offset_rs1, Told3

LEMMA Told_cs_sd_rs2_offset_rs1 ==
  ASSUME NEW w \in Halfword, NEW pc, NEW op, NEW v, NEW d, d = Cut(w, pc, op, "cs_sd"),
         HeldAll(<<XC(2), CImmD, XC(7)>>, v, w)
  PROVE  Told(<<XC(2), CImmD, XC(7)>>, v, fmt_rs2_offset_rs1, d)
<1>1. Held(XC(2), v[1], w) /\ Held(CImmD, v[2], w) /\ Held(XC(7), v[3], w)
  BY DEF HeldAll
<1>2. /\ Tells(XC(2), v[1], "2", d) /\ Tells(CImmD, v[2], "i", d)
      /\ Tells(XC(7), v[3], "1", d)
  BY <1>1, Cut_cs_sd, ShortImmediateTold, ShortRegisterTold
<1> QED
  BY <1>2, Slots_fmt_rs2_offset_rs1, Told3

LEMMA Told_ci_ldsp_frd_offset_rs1 ==
  ASSUME NEW w \in Halfword, NEW pc, NEW op, NEW v, NEW d, d = Cut(w, pc, op, "ci_ldsp"),
         HeldAll(<<F(7), CImmLdsp, sp>>, v, w)
  PROVE  Told(<<F(7), CImmLdsp, sp>>, v, fmt_frd_offset_rs1, d)
<1>1. Held(F(7), v[1], w) /\ Held(CImmLdsp, v[2], w) /\ Held(sp, v[3], w)
  BY DEF HeldAll
<1>2. /\ Tells(F(7), v[1], "3", d) /\ Tells(CImmLdsp, v[2], "i", d)
      /\ Tells(sp, v[3], "1", d)
  BY <1>1, Cut_ci_ldsp, ImpliedTold, ShortImmediateTold, ShortRegisterTold, HalfwordIsWord
<1> QED
  BY <1>2, Slots_fmt_frd_offset_rs1, Told3

LEMMA Told_ci_lwsp_rd_offset_rs1 ==
  ASSUME NEW w \in Halfword, NEW pc, NEW op, NEW v, NEW d, d = Cut(w, pc, op, "ci_lwsp"),
         HeldAll(<<RdC, CImmLwsp, sp>>, v, w)
  PROVE  Told(<<RdC, CImmLwsp, sp>>, v, fmt_rd_offset_rs1, d)
<1>1. Held(RdC, v[1], w) /\ Held(CImmLwsp, v[2], w) /\ Held(sp, v[3], w)
  BY DEF HeldAll
<1>2. /\ Tells(RdC, v[1], "0", d) /\ Tells(CImmLwsp, v[2], "i", d)
      /\ Tells(sp, v[3], "1", d)
  BY <1>1, Cut_ci_lwsp, ImpliedTold, ShortImmediateTold, ShortRegisterTold, HalfwordIsWord
<1> QED
  BY <1>2, Slots_fmt_rd_offset_rs1, Told3

LEMMA Told_ci_lwsp_frd_offset_rs1 ==
  ASSUME NEW w \in Halfword, NEW pc, NEW op, NEW v, NEW d, d = Cut(w, pc, op, "ci_lwsp"),
         HeldAll(<<F(7), CImmLwsp, sp>>, v, w)
  PROVE  Told(<<F(7), CImmLwsp, sp>>, v, fmt_frd_offset_rs1, d)
<1>1. Held(F(7), v[1], w) /\ Held(CImmLwsp, v[2], w) /\ Held(sp, v[3], w)
  BY DEF HeldAll
<1>2. /\ Tells(F(7), v[1], "3", d) /\ Tells(CImmLwsp, v[2], "i", d)
      /\ Tells(sp, v[3], "1", d)
  BY <1>1, Cut_ci_lwsp, ImpliedTold, ShortImmediateTold, ShortRegisterTold, HalfwordIsWord
<1> QED
  BY <1>2, Slots_fmt_frd_offset_rs1, Told3

LEMMA Told_ci_ldsp_rd_offset_rs1 ==
  ASSUME NEW w \in Halfword, NEW pc, NEW op, NEW v, NEW d, d = Cut(w, pc, op, "ci_ldsp"),
         HeldAll(<<RdC, CImmLdsp, sp>>, v, w)
  PROVE  Told(<<RdC, CImmLdsp, sp>>, v, fmt_rd_offset_rs1, d)
<1>1. Held(RdC, v[1], w) /\ Held(CImmLdsp, v[2], w) /\ Held(sp, v[3], w)
  BY DEF HeldAll
<1>2. /\ Tells(RdC, v[1], "0", d) /\ Tells(CImmLdsp, v[2], "i", d)
      /\ Tells(sp, v[3], "1", d)
  BY <1>1, Cut_ci_ldsp, ImpliedTold, ShortImmediateTold, ShortRegisterTold, HalfwordIsWord
<1> QED
  BY <1>2, Slots_fmt_rd_offset_rs1, Told3

LEMMA Told_css_sdsp_frs2_offset_rs1 ==
  ASSUME NEW w \in Halfword, NEW pc, NEW op, NEW v, NEW d, d = Cut(w, pc, op, "css_sdsp"),
         HeldAll(<<F(2), CImmSdsp, sp>>, v, w)
  PROVE  Told(<<F(2), CImmSdsp, sp>>, v, fmt_frs2_offset_rs1, d)
<1>1. Held(F(2), v[1], w) /\ Held(CImmSdsp, v[2], w) /\ Held(sp, v[3], w)
  BY DEF HeldAll
<1>2. /\ Tells(F(2), v[1], "5", d) /\ Tells(CImmSdsp, v[2], "i", d)
      /\ Tells(sp, v[3], "1", d)
  BY <1>1, Cut_css_sdsp, ImpliedTold, ShortImmediateTold, ShortRegisterTold, HalfwordIsWord
<1> QED
  BY <1>2, Slots_fmt_frs2_offset_rs1, Told3

LEMMA Told_css_swsp_rs2_offset_rs1 ==
  ASSUME NEW w \in Halfword, NEW pc, NEW op, NEW v, NEW d, d = Cut(w, pc, op, "css_swsp"),
         HeldAll(<<X(2), CImmSwsp, sp>>, v, w)
  PROVE  Told(<<X(2), CImmSwsp, sp>>, v, fmt_rs2_offset_rs1, d)
<1>1. Held(X(2), v[1], w) /\ Held(CImmSwsp, v[2], w) /\ Held(sp, v[3], w)
  BY DEF HeldAll
<1>2. /\ Tells(X(2), v[1], "2", d) /\ Tells(CImmSwsp, v[2], "i", d)
      /\ Tells(sp, v[3], "1", d)
  BY <1>1, Cut_css_swsp, ImpliedTold, ShortImmediateTold, ShortRegisterTold, HalfwordIsWord
<1> QED
  BY <1>2, Slots_fmt_rs2_offset_rs1, Told3

LEMMA Told_css_swsp_frs2_offset_rs1 ==
  ASSUME NEW w \in Halfword, NEW pc, NEW op, NEW v, NEW d, d = Cut(w, pc, op, "css_swsp"),
         HeldAll(<<F(2), CImmSwsp, sp>>, v, w)
  PROVE  Told(<<F(2), CImmSwsp, sp>>, v, fmt_frs2_offset_rs1, d)
<1>1. Held(F(2), v[1], w) /\ Held(CImmSwsp, v[2], w) /\ Held(sp, v[3], w)
  BY DEF HeldAll
<1>2. /\ Tells(F(2), v[1], "5", d) /\ Tells(CImmSwsp, v[2], "i", d)
      /\ Tells(sp, v[3], "1", d)
  BY <1>1, Cut_css_swsp, ImpliedTold, ShortImmediateTold, ShortRegisterTold, HalfwordIsWord
<1> QED
  BY <1>2, Slots_fmt_frs2_offset_rs1, Told3

LEMMA Told_css_sdsp_rs2_offset_rs1 ==
  ASSUME NEW w \in Halfword, NEW pc, NEW op, NEW v, NEW d, d = Cut(w, pc, op, "css_sdsp"),
         HeldAll(<<X(2), CImmSdsp, sp>>, v, w)
  PROVE  Told(<<X(2), CImmSdsp, sp>>, v, fmt_rs2_offset_rs1, d)
<1>1. Held(X(2), v[1], w) /\ Held(CImmSdsp, v[2], w) /\ Held(sp, v[3], w)
  BY DEF HeldAll
<1>2. /\ Tells(X(2), v[1], "2", d) /\ Tells(CImmSdsp, v[2], "i", d)
      /\ Tells(sp, v[3], "1", d)
  BY <1>1, Cut_css_sdsp, ImpliedTold, ShortImmediateTold, ShortRegisterTold, HalfwordIsWord
<1> QED
  BY <1>2, Slots_fmt_rs2_offset_rs1, Told3

LEMMA Told_ci_rd_rs1_imm ==
  ASSUME NEW w \in Halfword, NEW pc, NEW op, NEW v, NEW d, d = Cut(w, pc, op, "ci"),
         HeldAll(<<RdC, RdC, CImm>>, v, w)
  PROVE  Told(<<RdC, RdC, CImm>>, v, fmt_rd_rs1_imm, d)
<1>1. Held(RdC, v[1], w) /\ Held(RdC, v[2], w) /\ Held(CImm, v[3], w)
  BY DEF HeldAll
<1>2. /\ Tells(RdC, v[1], "0", d) /\ Tells(RdC, v[2], "1", d)
      /\ Tells(CImm, v[3], "i", d)
  BY <1>1, Cut_ci, ShortImmediateTold, ShortRegisterTold
<1> QED
  BY <1>2, Slots_fmt_rd_rs1_imm, Told3

LEMMA Told_ci_li_rd_rs1_imm ==
  ASSUME NEW w \in Halfword, NEW pc, NEW op, NEW v, NEW d, d = Cut(w, pc, op, "ci_li"),
         HeldAll(<<RdC, zero, CImm>>, v, w)
  PROVE  Told(<<RdC, zero, CImm>>, v, fmt_rd_rs1_imm, d)
<1>1. Held(RdC, v[1], w) /\ Held(zero, v[2], w) /\ Held(CImm, v[3], w)
  BY DEF HeldAll
<1>2. /\ Tells(RdC, v[1], "0", d) /\ Tells(zero, v[2], "1", d)
      /\ Tells(CImm, v[3], "i", d)
  BY <1>1, Cut_ci_li, ImpliedTold, ShortImmediateTold, ShortRegisterTold, HalfwordIsWord
<1> QED
  BY <1>2, Slots_fmt_rd_rs1_imm, Told3

LEMMA Told_ci_sh6_rd_rs1_imm ==
  ASSUME NEW w \in Halfword, NEW pc, NEW op, NEW v, NEW d, d = Cut(w, pc, op, "ci_sh6"),
         HeldAll(<<RdC, RdC, CShamt>>, v, w)
  PROVE  Told(<<RdC, RdC, CShamt>>, v, fmt_rd_rs1_imm, d)
<1>1. Held(RdC, v[1], w) /\ Held(RdC, v[2], w) /\ Held(CShamt, v[3], w)
  BY DEF HeldAll
<1>2. /\ Tells(RdC, v[1], "0", d) /\ Tells(RdC, v[2], "1", d)
      /\ Tells(CShamt, v[3], "i", d)
  BY <1>1, Cut_ci_sh6, ShortImmediateTold, ShortRegisterTold
<1> QED
  BY <1>2, Slots_fmt_rd_rs1_imm, Told3

LEMMA Told_cj_rd_offset ==
  ASSUME NEW w \in Halfword, NEW pc, NEW op, NEW v, NEW d, d = Cut(w, pc, op, "cj"),
         HeldAll(<<zero, CImmJ>>, v, w)
  PROVE  Told(<<zero, CImmJ>>, v, fmt_rd_offset, d)
<1>1. Held(zero, v[1], w) /\ Held(CImmJ, v[2], w)
  BY DEF HeldAll
<1>2. Tells(zero, v[1], "0", d) /\ Tells(CImmJ, v[2], "o", d)
  BY <1>1, Cut_cj, ImpliedTold, ShortImmediateTold, HalfwordIsWord
<1> QED
  BY <1>2, Slots_fmt_rd_offset, Told2

LEMMA Told_cj_jal_rd_offset ==
  ASSUME NEW w \in Halfword, NEW pc, NEW op, NEW v, NEW d, d = Cut(w, pc, op, "cj_jal"),
         HeldAll(<<ra, CImmJ>>, v, w)
  PROVE  Told(<<ra, CImmJ>>, v, fmt_rd_offset, d)
<1>1. Held(ra, v[1], w) /\ Held(CImmJ, v[2], w)
  BY DEF HeldAll
<1>2. Tells(ra, v[1], "0", d) /\ Tells(CImmJ, v[2], "o", d)
  BY <1>1, Cut_cj_jal, ImpliedTold, ShortImmediateTold, HalfwordIsWord
<1> QED
  BY <1>2, Slots_fmt_rd_offset, Told2

LEMMA Told_cb_rs1_rs2_offset ==
  ASSUME NEW w \in Halfword, NEW pc, NEW op, NEW v, NEW d, d = Cut(w, pc, op, "cb"),
         HeldAll(<<XC(7), zero, CImmB>>, v, w)
  PROVE  Told(<<XC(7), zero, CImmB>>, v, fmt_rs1_rs2_offset, d)
<1>1. Held(XC(7), v[1], w) /\ Held(zero, v[2], w) /\ Held(CImmB, v[3], w)
  BY DEF HeldAll
<1>2. /\ Tells(XC(7), v[1], "1", d) /\ Tells(zero, v[2], "2", d)
      /\ Tells(CImmB, v[3], "o", d)
  BY <1>1, Cut_cb, ImpliedTold, ShortImmediateTold, ShortRegisterTold, HalfwordIsWord
<1> QED
  BY <1>2, Slots_fmt_rs1_rs2_offset, Told3

LEMMA Told_ci_none_none ==
  ASSUME NEW w \in Halfword, NEW pc, NEW op, NEW v, NEW d, d = Cut(w, pc, op, "ci_none"),
         HeldAll(<< >>, v, w)
  PROVE  Told(<< >>, v, fmt_none, d)
BY Slots_fmt_none, ToldNone

LEMMA Told_ci_rd_rs1_imm_2 ==
  ASSUME NEW w \in Halfword, NEW pc, NEW op, NEW v, NEW d, d = Cut(w, pc, op, "ci"),
         HeldAll(<<RdC, RdC, CImmAddi>>, v, w)
  PROVE  Told(<<RdC, RdC, CImmAddi>>, v, fmt_rd_rs1_imm, d)
<1>1. Held(RdC, v[1], w) /\ Held(RdC, v[2], w) /\ Held(CImmAddi, v[3], w)
  BY DEF HeldAll
<1>2. /\ Tells(RdC, v[1], "0", d) /\ Tells(RdC, v[2], "1", d)
      /\ Tells(CImmAddi, v[3], "i", d)
  BY <1>1, Cut_ci, ShortImmediateTold, ShortRegisterTold
<1> QED
  BY <1>2, Slots_fmt_rd_rs1_imm, Told3

LEMMA Told_ci_16sp_rd_rs1_imm ==
  ASSUME NEW w \in Halfword, NEW pc, NEW op, NEW v, NEW d, d = Cut(w, pc, op, "ci_16sp"),
         HeldAll(<<sp, sp, CImm16>>, v, w)
  PROVE  Told(<<sp, sp, CImm16>>, v, fmt_rd_rs1_imm, d)
<1>1. Held(sp, v[1], w) /\ Held(sp, v[2], w) /\ Held(CImm16, v[3], w)
  BY DEF HeldAll
<1>2. /\ Tells(sp, v[1], "0", d) /\ Tells(sp, v[2], "1", d)
      /\ Tells(CImm16, v[3], "i", d)
  BY <1>1, Cut_ci_16sp, ImpliedTold, ShortImmediateTold, HalfwordIsWord
<1> QED
  BY <1>2, Slots_fmt_rd_rs1_imm, Told3

LEMMA Told_ci_lui_rd_imm ==
  ASSUME NEW w \in Halfword, NEW pc, NEW op, NEW v, NEW d, d = Cut(w, pc, op, "ci_lui"),
         HeldAll(<<RdLui, CImmLui>>, v, w)
  PROVE  Told(<<RdLui, CImmLui>>, v, fmt_rd_imm, d)
<1>1. Held(RdLui, v[1], w) /\ Held(CImmLui, v[2], w)
  BY DEF HeldAll
<1>2. Tells(RdLui, v[1], "0", d) /\ Tells(CImmLui, v[2], "i", d)
  BY <1>1, Cut_ci_lui, ShortImmediateTold, ShortRegisterTold
<1> QED
  BY <1>2, Slots_fmt_rd_imm, Told2

LEMMA Told_cb_sh6_rd_rs1_imm ==
  ASSUME NEW w \in Halfword, NEW pc, NEW op, NEW v, NEW d, d = Cut(w, pc, op, "cb_sh6"),
         HeldAll(<<XC(7), XC(7), CShamt>>, v, w)
  PROVE  Told(<<XC(7), XC(7), CShamt>>, v, fmt_rd_rs1_imm, d)
<1>1. Held(XC(7), v[1], w) /\ Held(XC(7), v[2], w) /\ Held(CShamt, v[3], w)
  BY DEF HeldAll
<1>2. /\ Tells(XC(7), v[1], "0", d) /\ Tells(XC(7), v[2], "1", d)
      /\ Tells(CShamt, v[3], "i", d)
  BY <1>1, Cut_cb_sh6, ShortImmediateTold, ShortRegisterTold
<1> QED
  BY <1>2, Slots_fmt_rd_rs1_imm, Told3

LEMMA Told_cb_imm_rd_rs1_imm ==
  ASSUME NEW w \in Halfword, NEW pc, NEW op, NEW v, NEW d, d = Cut(w, pc, op, "cb_imm"),
         HeldAll(<<XC(7), XC(7), CImm>>, v, w)
  PROVE  Told(<<XC(7), XC(7), CImm>>, v, fmt_rd_rs1_imm, d)
<1>1. Held(XC(7), v[1], w) /\ Held(XC(7), v[2], w) /\ Held(CImm, v[3], w)
  BY DEF HeldAll
<1>2. /\ Tells(XC(7), v[1], "0", d) /\ Tells(XC(7), v[2], "1", d)
      /\ Tells(CImm, v[3], "i", d)
  BY <1>1, Cut_cb_imm, ShortImmediateTold, ShortRegisterTold
<1> QED
  BY <1>2, Slots_fmt_rd_rs1_imm, Told3

LEMMA Told_cs_rd_rs1_rs2 ==
  ASSUME NEW w \in Halfword, NEW pc, NEW op, NEW v, NEW d, d = Cut(w, pc, op, "cs"),
         HeldAll(<<XC(7), XC(7), XC(2)>>, v, w)
  PROVE  Told(<<XC(7), XC(7), XC(2)>>, v, fmt_rd_rs1_rs2, d)
<1>1. Held(XC(7), v[1], w) /\ Held(XC(7), v[2], w) /\ Held(XC(2), v[3], w)
  BY DEF HeldAll
<1>2. /\ Tells(XC(7), v[1], "0", d) /\ Tells(XC(7), v[2], "1", d)
      /\ Tells(XC(2), v[3], "2", d)
  BY <1>1, Cut_cs, ShortRegisterTold
<1> QED
  BY <1>2, Slots_fmt_rd_rs1_rs2, Told3

LEMMA Told_cr_jr_rd_rs1_offset ==
  ASSUME NEW w \in Halfword, NEW pc, NEW op, NEW v, NEW d, d = Cut(w, pc, op, "cr_jr"),
         HeldAll(<<zero, RdC, none>>, v, w)
  PROVE  Told(<<zero, RdC, none>>, v, fmt_rd_rs1_offset, d)
<1>1. Held(zero, v[1], w) /\ Held(RdC, v[2], w) /\ Held(none, v[3], w)
  BY DEF HeldAll
<1>2. /\ Tells(zero, v[1], "0", d) /\ Tells(RdC, v[2], "1", d)
      /\ Tells(none, v[3], "i", d)
  BY <1>1, Cut_cr_jr, ImpliedTold, ShortRegisterTold, HalfwordIsWord
<1> QED
  BY <1>2, Slots_fmt_rd_rs1_offset, Told3

LEMMA Told_cr_mv_rd_rs1_rs2 ==
  ASSUME NEW w \in Halfword, NEW pc, NEW op, NEW v, NEW d, d = Cut(w, pc, op, "cr_mv"),
         HeldAll(<<RdC, Rs2C, zero>>, v, w)
  PROVE  Told(<<RdC, Rs2C, zero>>, v, fmt_rd_rs1_rs2, d)
<1>1. Held(RdC, v[1], w) /\ Held(Rs2C, v[2], w) /\ Held(zero, v[3], w)
  BY DEF HeldAll
<1>2. /\ Tells(RdC, v[1], "0", d) /\ Tells(Rs2C, v[2], "1", d)
      /\ Tells(zero, v[3], "2", d)
  BY <1>1, Cut_cr_mv, ImpliedTold, ShortRegisterTold, HalfwordIsWord
<1> QED
  BY <1>2, Slots_fmt_rd_rs1_rs2, Told3

LEMMA Told_cr_rd_rs1_rs2 ==
  ASSUME NEW w \in Halfword, NEW pc, NEW op, NEW v, NEW d, d = Cut(w, pc, op, "cr"),
         HeldAll(<<RdC, RdC, Rs2C>>, v, w)
  PROVE  Told(<<RdC, RdC, Rs2C>>, v, fmt_rd_rs1_rs2, d)
<1>1. Held(RdC, v[1], w) /\ Held(RdC, v[2], w) /\ Held(Rs2C, v[3], w)
  BY DEF HeldAll
<1>2. /\ Tells(RdC, v[1], "0", d) /\ Tells(RdC, v[2], "1", d)
      /\ Tells(Rs2C, v[3], "2", d)
  BY <1>1, Cut_cr, ShortRegisterTold
<1> QED
  BY <1>2, Slots_fmt_rd_rs1_rs2, Told3

LEMMA Told_cr_jalr_rd_rs1_offset ==
  ASSUME NEW w \in Halfword, NEW pc, NEW op, NEW v, NEW d, d = Cut(w, pc, op, "cr_jalr"),
         HeldAll(<<ra, RdC, none>>, v, w)
  PROVE  Told(<<ra, RdC, none>>, v, fmt_rd_rs1_offset, d)
<1>1. Held(ra, v[1], w) /\ Held(RdC, v[2], w) /\ Held(none, v[3], w)
  BY DEF HeldAll
<1>2. /\ Tells(ra, v[1], "0", d) /\ Tells(RdC, v[2], "1", d)
      /\ Tells(none, v[3], "i", d)
  BY <1>1, Cut_cr_jalr, ImpliedTold, ShortRegisterTold, HalfwordIsWord
<1> QED
  BY <1>2, Slots_fmt_rd_rs1_offset, Told3

-----------------------------------------------------------------------------
(* The line of an instruction with this format: its marks and operands.    *)
Tabbed(ft) == ft[2] = "\t"

LineMarks(d, ft) ==
  IF ft[2] = "A" THEN (IF d.aq = 1 THEN {"aq"} ELSE {}) \cup (IF d.rl = 1 THEN {"rl"} ELSE {})
                 ELSE {}

ArgsOf(d, ft) == [k \in 1 .. Count(ft) |-> <<KindOf(ft[Slot(ft, k)]), ValueOf(ft[Slot(ft, k)], d)>>]

Meant(d, ft, w) == Means(d.op, LineMarks(d, ft), ArgsOf(d, ft), BitsOf(w))

LEMMA NoLineMarks ==
  ASSUME NEW d, NEW ft, Tabbed(ft)
  PROVE  LineMarks(d, ft) = {}
BY DEF LineMarks, Tabbed

(* A line that shows an entry's operands means a word that carries it.     *)
LEMMA ToldMeans ==
  ASSUME NEW w, NEW e \in Instructions, NEW marks, NEW v, Carries(w, e, marks, v),
         NEW d, NEW ft, e.name = d.op, LineMarks(d, ft) = marks, Told(e.args, v, ft, d)
  PROVE  Meant(d, ft, w)
<1> DEFINE args == ArgsOf(d, ft)
<1>1. Exactly(e, marks, BitsOf(w)) /\ \A k \in DOMAIN e.args : Held(e.args[k], v[k], w)
  BY DEF Carries
<1>2. DOMAIN args = DOMAIN e.args
  BY DEF Told, ArgsOf
<1>3. ASSUME NEW k \in DOMAIN args
      PROVE  args[k][1] = e.args[k].kind /\ Holds(e.args[k], args[k][2], BitsOf(w))
  <2>1. e.args[k].kind = KindOf(ft[Slot(ft, k)]) /\ v[k] = ValueOf(ft[Slot(ft, k)], d)
    BY <1>3 DEF Told, Tells, ArgsOf
  <2>2. args[k][1] = KindOf(ft[Slot(ft, k)]) /\ args[k][2] = ValueOf(ft[Slot(ft, k)], d)
    BY <1>3 DEF ArgsOf
  <2>3. Holds(e.args[k], v[k], BitsOf(w))
    BY <1>1, <1>2, <1>3 DEF Held
  <2> QED
    BY <2>1, <2>2, <2>3
<1> HIDE DEF args
<1>4. Means(d.op, marks, args, BitsOf(w))
  BY <1>1, <1>2, <1>3 DEF Means
<1> QED
  BY <1>4 DEF Meant, args

LEMMA AllHeld ==
  ASSUME NEW w, NEW e, NEW marks, NEW v, Carries(w, e, marks, v)
  PROVE  w \in Word /\ HeldAll(e.args, v, w)
BY DEF Carries, HeldAll

-----------------------------------------------------------------------------
(* The same operands in two records.                                       *)
Same(x, d) ==
  /\ x.rd = d.rd /\ x.rs1 = d.rs1 /\ x.rs2 = d.rs2 /\ x.rs3 = d.rs3 /\ x.imm = d.imm
  /\ x.rm = d.rm /\ x.pred = d.pred /\ x.succ = d.succ /\ x.aq = d.aq /\ x.rl = d.rl

LEMMA SameTells ==
  ASSUME NEW o, NEW v, NEW c \in Letter, NEW d, NEW x, Same(x, d), Tells(o, v, c, d)
  PROVE  Tells(o, v, c, x)
<1>1. ValueOf(c, x) = ValueOf(c, d)
  BY LetterValues DEF Same, Letter, ShownRm
<1> QED
  BY <1>1 DEF Tells

(* What a register or an immediate leaves in its field.                    *)
LEMMA LeftInField ==
  ASSUME NEW w, NEW v
  PROVE  /\ Held(Rd, v, w) => BitsOf(w) \cap Span(Rd.layout) = Field(7, 5, v)
         /\ Held(Rs1, v, w) => BitsOf(w) \cap Span(Rs1.layout) = Field(15, 5, v)
         /\ Held(Rs2, v, w) => BitsOf(w) \cap Span(Rs2.layout) = Field(20, 5, v)
         /\ Held(ImmI, v, w) => BitsOf(w) \cap Span(ImmI.layout) = Field(20, 12, v)
         /\ Held(Csr, v, w) => BitsOf(w) \cap Span(Csr.layout) = Field(20, 12, v)
<1>1. \A o : Held(o, v, w) => BitsOf(w) \cap Span(o.layout) = Place(v, o.layout)
  BY DEF Held, Holds
<1>2. Rd.layout = {<<7, 5, 0>>} /\ Rs1.layout = {<<15, 5, 0>>} /\ Rs2.layout = {<<20, 5, 0>>}
  BY SMT DEF Rd, Rs1, Rs2, X, Operand
<1>3. ImmI.layout = {<<20, 12, 0>>} /\ Csr.layout = {<<20, 12, 0>>}
  BY SMT DEF ImmI, SignedImm, Csr, Operand
<1> QED
  BY <1>1, <1>2, <1>3 DEF Field

LEMMA BitsOfNumbers ==
  /\ \A j \in 0 .. 11 : BitOf(0, j) = 0 /\ BitOf(4095, j) = 1
  /\ \A m \in Int : m + 1 = 0 => \A j \in 0 .. 11 : BitOf(m, j) = 1
<1>1. /\ BitOf(0, 0) = 0 /\ BitOf(0, 1) = 0 /\ BitOf(0, 2) = 0 /\ BitOf(0, 3) = 0
      /\ BitOf(0, 4) = 0 /\ BitOf(0, 5) = 0 /\ BitOf(0, 6) = 0 /\ BitOf(0, 7) = 0
      /\ BitOf(0, 8) = 0 /\ BitOf(0, 9) = 0 /\ BitOf(0, 10) = 0 /\ BitOf(0, 11) = 0
  BY DEF BitOf
<1>2. /\ BitOf(4095, 0) = 1 /\ BitOf(4095, 1) = 1 /\ BitOf(4095, 2) = 1 /\ BitOf(4095, 3) = 1
      /\ BitOf(4095, 4) = 1 /\ BitOf(4095, 5) = 1 /\ BitOf(4095, 6) = 1 /\ BitOf(4095, 7) = 1
      /\ BitOf(4095, 8) = 1 /\ BitOf(4095, 9) = 1 /\ BitOf(4095, 10) = 1 /\ BitOf(4095, 11) = 1
  BY DEF BitOf
<1>3. ASSUME NEW m \in Int, m + 1 = 0, NEW j \in 0 .. 11
      PROVE  BitOf(m, j) = 1
  <2>1. BitOf(m, 0) = 1
    <3>1. 2^0 = 1
      BY SMT
    <3>2. m \div 1 = m /\ m % 2 = 1
      BY <1>3, SMT
    <3> QED
      BY <3>1, <3>2 DEF BitOf
  <2>2. BitOf(m, 1) = 1
    <3>1. 2^1 = 2
      BY SMT
    <3>2. m \div 2 = m /\ m % 2 = 1
      BY <1>3, SMT
    <3> QED
      BY <3>1, <3>2 DEF BitOf
  <2>3. BitOf(m, 2) = 1
    <3>1. 2^2 = 4
      BY SMT
    <3>2. m \div 4 = m /\ m % 2 = 1
      BY <1>3, SMT
    <3> QED
      BY <3>1, <3>2 DEF BitOf
  <2>4. BitOf(m, 3) = 1
    <3>1. 2^3 = 8
      BY SMT
    <3>2. m \div 8 = m /\ m % 2 = 1
      BY <1>3, SMT
    <3> QED
      BY <3>1, <3>2 DEF BitOf
  <2>5. BitOf(m, 4) = 1
    <3>1. 2^4 = 16
      BY SMT
    <3>2. m \div 16 = m /\ m % 2 = 1
      BY <1>3, SMT
    <3> QED
      BY <3>1, <3>2 DEF BitOf
  <2>6. BitOf(m, 5) = 1
    <3>1. 2^5 = 32
      BY SMT
    <3>2. m \div 32 = m /\ m % 2 = 1
      BY <1>3, SMT
    <3> QED
      BY <3>1, <3>2 DEF BitOf
  <2>7. BitOf(m, 6) = 1
    <3>1. 2^6 = 64
      BY SMT
    <3>2. m \div 64 = m /\ m % 2 = 1
      BY <1>3, SMT
    <3> QED
      BY <3>1, <3>2 DEF BitOf
  <2>8. BitOf(m, 7) = 1
    <3>1. 2^7 = 128
      BY SMT
    <3>2. m \div 128 = m /\ m % 2 = 1
      BY <1>3, SMT
    <3> QED
      BY <3>1, <3>2 DEF BitOf
  <2>9. BitOf(m, 8) = 1
    <3>1. 2^8 = 256
      BY SMT
    <3>2. m \div 256 = m /\ m % 2 = 1
      BY <1>3, SMT
    <3> QED
      BY <3>1, <3>2 DEF BitOf
  <2>10. BitOf(m, 9) = 1
    <3>1. 2^9 = 512
      BY SMT
    <3>2. m \div 512 = m /\ m % 2 = 1
      BY <1>3, SMT
    <3> QED
      BY <3>1, <3>2 DEF BitOf
  <2>11. BitOf(m, 10) = 1
    <3>1. 2^10 = 1024
      BY SMT
    <3>2. m \div 1024 = m /\ m % 2 = 1
      BY <1>3, SMT
    <3> QED
      BY <3>1, <3>2 DEF BitOf
  <2>12. BitOf(m, 11) = 1
    <3>1. 2^11 = 2048
      BY SMT
    <3>2. m \div 2048 = m /\ m % 2 = 1
      BY <1>3, SMT
    <3> QED
      BY <3>1, <3>2 DEF BitOf
  <2> QED
    BY <2>1, <2>2, <2>3, <2>4, <2>5, <2>6, <2>7, <2>8, <2>9, <2>10, <2>11, <2>12
<1> QED
  BY <1>1, <1>2, <1>3

LEMMA ZeroFields ==
  /\ \A lo : Field(lo, 5, 0) = {} /\ Field(lo, 12, 0) = {}
  /\ \A m \in Int : m + 1 = 0 => Field(20, 12, m) = Field(20, 12, 4095)
<1>1. \A lo : Field(lo, 5, 0) = {} /\ Field(lo, 12, 0) = {}
  <2>1. {i \in 0 .. 5 - 1 : BitOf(0, 0 + i) = 1} = {}
    BY BitsOfNumbers
  <2>2. {i \in 0 .. 12 - 1 : BitOf(0, 0 + i) = 1} = {}
    BY BitsOfNumbers
  <2> QED
    BY <2>1, <2>2 DEF Field, Place
<1>2. ASSUME NEW m \in Int, m + 1 = 0
      PROVE  Field(20, 12, m) = Field(20, 12, 4095)
  <2>1. {i \in 0 .. 12 - 1 : BitOf(m, 0 + i) = 1} = {i \in 0 .. 12 - 1 : BitOf(4095, 0 + i) = 1}
    BY <1>2, BitsOfNumbers
  <2> QED
    BY <2>1 DEF Field, Place
<1> QED
  BY <1>1, <1>2

(* Operands that the line drops: the entry e2 has their bits in `fixed`.   *)
Drops(e, e2, gone) ==
  /\ Places(e.args) = Places(e2.args) \cup gone
  /\ Places(e2.args) \cap gone = {}

LEMMA Reline ==
  ASSUME NEW w, NEW e, NEW marks, NEW v, Carries(w, e, marks, v), NoMarks(e),
         NEW e2, NEW v2, NEW gone, NEW R, Drops(e, e2, gone), BitsOf(w) \cap gone = R,
         e2.fixed = e.fixed \cup R, DOMAIN v2 = DOMAIN e2.args, HeldAll(e2.args, v2, w)
  PROVE  Carries(w, e2, {}, v2)
<1>1. marks = {} /\ MarkBits(marks) = {}
  BY Unmarked
<1>2. w \in Word /\ BitsOf(w) \ Places(e.args) = e.fixed \cup MarkBits(marks)
  BY DEF Carries, Exactly, Places
<1>3. BitsOf(w) \ Places(e2.args) = (BitsOf(w) \ Places(e.args)) \cup (BitsOf(w) \cap gone)
  BY DEF Drops
<1>4. BitsOf(w) \ Places(e2.args) = e2.fixed \cup MarkBits({})
  BY <1>1, <1>2, <1>3
<1>5. Exactly(e2, {}, BitsOf(w))
  BY <1>4 DEF Exactly, Places
<1> QED
  BY <1>2, <1>5 DEF Carries, HeldAll

-----------------------------------------------------------------------------
(* Pseudo-instructions by the operands that they drop or swap.             *)
CsrNumber(c) == c \in Nat /\ c < 4096

LEMMA BranchNoRs2 ==
  ASSUME NEW w, NEW e, NEW marks, NEW v, Carries(w, e, marks, v), NoMarks(e), e.args = <<Rs1, Rs2, ImmB>>,
         NEW d, d.rs2 = 0, Told(e.args, v, fmt_rs1_rs2_offset, d), NEW x, Same(x, d),
         NEW e2 \in Instructions, e2.name = x.op, e2.args = <<Rs1, ImmB>>, e2.fixed = e.fixed \cup {}
  PROVE  Meant(x, fmt_rs1_offset, w)
<1> DEFINE v2 == <<v[1], v[3]>>
           gone == Span(Rs2.layout)
           R == {}
<1>0. e2.fixed = e.fixed \cup R
  OBVIOUS
<1>1. Tells(Rs1, v[1], "1", d) /\ Tells(Rs2, v[2], "2", d) /\ Tells(ImmB, v[3], "o", d)
  BY Slots_fmt_rs1_rs2_offset DEF Told
<1>2. Held(Rs1, v[1], w) /\ Held(Rs2, v[2], w) /\ Held(ImmB, v[3], w)
  BY AllHeld DEF HeldAll
<1>3. v[2] = 0
  BY <1>1, LetterValues DEF Tells
<1>4. BitsOf(w) \cap gone = R
  <2>1. BitsOf(w) \cap Span(Rs2.layout) = {}
    BY <1>2, <1>3, LeftInField, ZeroFields
  <2> QED
    BY <2>1
<1>5. Drops(e, e2, gone)
  <2>1. Places(e.args) = Span(Rs1.layout) \cup Span(Rs2.layout) \cup Span(ImmB.layout) /\ Places(e2.args) = Span(Rs1.layout) \cup Span(ImmB.layout)
    BY PlacesOf
  <2> QED
    BY <2>1, WideSpans DEF Drops
<1>6. DOMAIN v2 = DOMAIN e2.args /\ v2[1] = v[1] /\ v2[2] = v[3]
  OBVIOUS
<1> HIDE DEF v2, gone, R
<1>7. HeldAll(e2.args, v2, w)
  BY <1>2, <1>6 DEF HeldAll
<1>8. Tells(Rs1, v2[1], "1", x) /\ Tells(ImmB, v2[2], "o", x)
  BY <1>1, <1>6, SameTells DEF Letter
<1>9. Told(e2.args, v2, fmt_rs1_offset, x)
  BY <1>8, Slots_fmt_rs1_offset, Told2
<1>10. Carries(w, e2, {}, v2)
  BY <1>0, <1>4, <1>5, <1>6, <1>7, Reline
<1>11. LineMarks(x, fmt_rs1_offset) = {}
  <2>1. Tabbed(fmt_rs1_offset)
    BY DEF Tabbed, fmt_rs1_offset
  <2> QED
    BY <2>1, NoLineMarks
<1> QED
  BY <1>9, <1>10, <1>11, ToldMeans

LEMMA BranchNoRs1 ==
  ASSUME NEW w, NEW e, NEW marks, NEW v, Carries(w, e, marks, v), NoMarks(e), e.args = <<Rs1, Rs2, ImmB>>,
         NEW d, d.rs1 = 0, Told(e.args, v, fmt_rs1_rs2_offset, d), NEW x, Same(x, d),
         NEW e2 \in Instructions, e2.name = x.op, e2.args = <<Rs2, ImmB>>, e2.fixed = e.fixed \cup {}
  PROVE  Meant(x, fmt_rs2_offset, w)
<1> DEFINE v2 == <<v[2], v[3]>>
           gone == Span(Rs1.layout)
           R == {}
<1>0. e2.fixed = e.fixed \cup R
  OBVIOUS
<1>1. Tells(Rs1, v[1], "1", d) /\ Tells(Rs2, v[2], "2", d) /\ Tells(ImmB, v[3], "o", d)
  BY Slots_fmt_rs1_rs2_offset DEF Told
<1>2. Held(Rs1, v[1], w) /\ Held(Rs2, v[2], w) /\ Held(ImmB, v[3], w)
  BY AllHeld DEF HeldAll
<1>3. v[1] = 0
  BY <1>1, LetterValues DEF Tells
<1>4. BitsOf(w) \cap gone = R
  <2>1. BitsOf(w) \cap Span(Rs1.layout) = {}
    BY <1>2, <1>3, LeftInField, ZeroFields
  <2> QED
    BY <2>1
<1>5. Drops(e, e2, gone)
  <2>1. Places(e.args) = Span(Rs1.layout) \cup Span(Rs2.layout) \cup Span(ImmB.layout) /\ Places(e2.args) = Span(Rs2.layout) \cup Span(ImmB.layout)
    BY PlacesOf
  <2> QED
    BY <2>1, WideSpans DEF Drops
<1>6. DOMAIN v2 = DOMAIN e2.args /\ v2[1] = v[2] /\ v2[2] = v[3]
  OBVIOUS
<1> HIDE DEF v2, gone, R
<1>7. HeldAll(e2.args, v2, w)
  BY <1>2, <1>6 DEF HeldAll
<1>8. Tells(Rs2, v2[1], "2", x) /\ Tells(ImmB, v2[2], "o", x)
  BY <1>1, <1>6, SameTells DEF Letter
<1>9. Told(e2.args, v2, fmt_rs2_offset, x)
  BY <1>8, Slots_fmt_rs2_offset, Told2
<1>10. Carries(w, e2, {}, v2)
  BY <1>0, <1>4, <1>5, <1>6, <1>7, Reline
<1>11. LineMarks(x, fmt_rs2_offset) = {}
  <2>1. Tabbed(fmt_rs2_offset)
    BY DEF Tabbed, fmt_rs2_offset
  <2> QED
    BY <2>1, NoLineMarks
<1> QED
  BY <1>9, <1>10, <1>11, ToldMeans

LEMMA BranchSwapped ==
  ASSUME NEW w, NEW e, NEW marks, NEW v, Carries(w, e, marks, v), NoMarks(e), e.args = <<Rs1, Rs2, ImmB>>,
         NEW d, Told(e.args, v, fmt_rs1_rs2_offset, d), NEW x, Same(x, d),
         NEW e2 \in Instructions, e2.name = x.op, e2.args = <<Rs2, Rs1, ImmB>>, e2.fixed = e.fixed \cup {}
  PROVE  Meant(x, fmt_rs2_rs1_offset, w)
<1> DEFINE v2 == <<v[2], v[1], v[3]>>
           gone == {}
           R == {}
<1>0. e2.fixed = e.fixed \cup R
  OBVIOUS
<1>1. Tells(Rs1, v[1], "1", d) /\ Tells(Rs2, v[2], "2", d) /\ Tells(ImmB, v[3], "o", d)
  BY Slots_fmt_rs1_rs2_offset DEF Told
<1>2. Held(Rs1, v[1], w) /\ Held(Rs2, v[2], w) /\ Held(ImmB, v[3], w)
  BY AllHeld DEF HeldAll
<1>4. BitsOf(w) \cap gone = R
  OBVIOUS
<1>5. Drops(e, e2, gone)
  <2>1. Places(e.args) = Span(Rs1.layout) \cup Span(Rs2.layout) \cup Span(ImmB.layout) /\ Places(e2.args) = Span(Rs2.layout) \cup Span(Rs1.layout) \cup Span(ImmB.layout)
    BY PlacesOf
  <2> QED
    BY <2>1, WideSpans DEF Drops
<1>6. DOMAIN v2 = DOMAIN e2.args /\ v2[1] = v[2] /\ v2[2] = v[1] /\ v2[3] = v[3]
  OBVIOUS
<1> HIDE DEF v2, gone, R
<1>7. HeldAll(e2.args, v2, w)
  BY <1>2, <1>6 DEF HeldAll
<1>8. Tells(Rs2, v2[1], "2", x) /\ Tells(Rs1, v2[2], "1", x) /\ Tells(ImmB, v2[3], "o", x)
  BY <1>1, <1>6, SameTells DEF Letter
<1>9. Told(e2.args, v2, fmt_rs2_rs1_offset, x)
  BY <1>8, Slots_fmt_rs2_rs1_offset, Told3
<1>10. Carries(w, e2, {}, v2)
  BY <1>0, <1>4, <1>5, <1>6, <1>7, Reline
<1>11. LineMarks(x, fmt_rs2_rs1_offset) = {}
  <2>1. Tabbed(fmt_rs2_rs1_offset)
    BY DEF Tabbed, fmt_rs2_rs1_offset
  <2> QED
    BY <2>1, NoLineMarks
<1> QED
  BY <1>9, <1>10, <1>11, ToldMeans

LEMMA JumpNoRd ==
  ASSUME NEW w, NEW e, NEW marks, NEW v, Carries(w, e, marks, v), NoMarks(e), e.args = <<Rd, ImmJ>>,
         NEW d, d.rd = 0, Told(e.args, v, fmt_rd_offset, d), NEW x, Same(x, d),
         NEW e2 \in Instructions, e2.name = x.op, e2.args = <<ImmJ>>, e2.fixed = e.fixed \cup {}
  PROVE  Meant(x, fmt_offset, w)
<1> DEFINE v2 == <<v[2]>>
           gone == Span(Rd.layout)
           R == {}
<1>0. e2.fixed = e.fixed \cup R
  OBVIOUS
<1>1. Tells(Rd, v[1], "0", d) /\ Tells(ImmJ, v[2], "o", d)
  BY Slots_fmt_rd_offset DEF Told
<1>2. Held(Rd, v[1], w) /\ Held(ImmJ, v[2], w)
  BY AllHeld DEF HeldAll
<1>3. v[1] = 0
  BY <1>1, LetterValues DEF Tells
<1>4. BitsOf(w) \cap gone = R
  <2>1. BitsOf(w) \cap Span(Rd.layout) = {}
    BY <1>2, <1>3, LeftInField, ZeroFields
  <2> QED
    BY <2>1
<1>5. Drops(e, e2, gone)
  <2>1. Places(e.args) = Span(Rd.layout) \cup Span(ImmJ.layout) /\ Places(e2.args) = Span(ImmJ.layout)
    BY PlacesOf
  <2> QED
    BY <2>1, WideSpans DEF Drops
<1>6. DOMAIN v2 = DOMAIN e2.args /\ v2[1] = v[2]
  OBVIOUS
<1> HIDE DEF v2, gone, R
<1>7. HeldAll(e2.args, v2, w)
  BY <1>2, <1>6 DEF HeldAll
<1>8. Tells(ImmJ, v2[1], "o", x)
  BY <1>1, <1>6, SameTells DEF Letter
<1>9. Told(e2.args, v2, fmt_offset, x)
  BY <1>8, Slots_fmt_offset, Told1
<1>10. Carries(w, e2, {}, v2)
  BY <1>0, <1>4, <1>5, <1>6, <1>7, Reline
<1>11. LineMarks(x, fmt_offset) = {}
  <2>1. Tabbed(fmt_offset)
    BY DEF Tabbed, fmt_offset
  <2> QED
    BY <2>1, NoLineMarks
<1> QED
  BY <1>9, <1>10, <1>11, ToldMeans

LEMMA JumpReturn ==
  ASSUME NEW w, NEW e, NEW marks, NEW v, Carries(w, e, marks, v), NoMarks(e), e.args = <<Rd, Rs1, ImmI>>,
         NEW d, d.rd = 0, d.rs1 = 1, d.imm = 0, Told(e.args, v, fmt_rd_rs1_offset, d), NEW x, Same(x, d),
         NEW e2 \in Instructions, e2.name = x.op, e2.args = << >>, e2.fixed = e.fixed \cup Field(15, 5, 1)
  PROVE  Meant(x, fmt_none, w)
<1> DEFINE v2 == << >>
           gone == Span(Rd.layout) \cup Span(Rs1.layout) \cup Span(ImmI.layout)
           R == Field(15, 5, 1)
<1>0. e2.fixed = e.fixed \cup R
  OBVIOUS
<1>1. Tells(Rd, v[1], "0", d) /\ Tells(Rs1, v[2], "1", d) /\ Tells(ImmI, v[3], "i", d)
  BY Slots_fmt_rd_rs1_offset DEF Told
<1>2. Held(Rd, v[1], w) /\ Held(Rs1, v[2], w) /\ Held(ImmI, v[3], w)
  BY AllHeld DEF HeldAll
<1>3. v[1] = 0 /\ v[2] = 1 /\ v[3] = 0
  BY <1>1, LetterValues DEF Tells
<1>4. BitsOf(w) \cap gone = R
  <2>1. BitsOf(w) \cap Span(Rd.layout) = {}
    BY <1>2, <1>3, LeftInField, ZeroFields
  <2>2. BitsOf(w) \cap Span(Rs1.layout) = Field(15, 5, 1)
    BY <1>2, <1>3, LeftInField
  <2>3. BitsOf(w) \cap Span(ImmI.layout) = {}
    BY <1>2, <1>3, LeftInField, ZeroFields
  <2> QED
    BY <2>1, <2>2, <2>3
<1>5. Drops(e, e2, gone)
  <2>1. Places(e.args) = Span(Rd.layout) \cup Span(Rs1.layout) \cup Span(ImmI.layout) /\ Places(e2.args) = {}
    BY PlacesOf
  <2> QED
    BY <2>1, WideSpans DEF Drops
<1>6. DOMAIN v2 = DOMAIN e2.args
  OBVIOUS
<1> HIDE DEF v2, gone, R
<1>7. HeldAll(e2.args, v2, w)
  BY DEF HeldAll
<1>9. Told(e2.args, v2, fmt_none, x)
  BY Slots_fmt_none, ToldNone
<1>10. Carries(w, e2, {}, v2)
  BY <1>0, <1>4, <1>5, <1>6, <1>7, Reline
<1>11. LineMarks(x, fmt_none) = {}
  <2>1. Tabbed(fmt_none)
    BY DEF Tabbed, fmt_none
  <2> QED
    BY <2>1, NoLineMarks
<1> QED
  BY <1>9, <1>10, <1>11, ToldMeans

LEMMA JumpRegister ==
  ASSUME NEW w, NEW e, NEW marks, NEW v, Carries(w, e, marks, v), NoMarks(e), e.args = <<Rd, Rs1, ImmI>>,
         NEW d, d.rd = 0, d.imm = 0, Told(e.args, v, fmt_rd_rs1_offset, d), NEW x, Same(x, d),
         NEW e2 \in Instructions, e2.name = x.op, e2.args = <<Rs1>>, e2.fixed = e.fixed \cup {}
  PROVE  Meant(x, fmt_rs1, w)
<1> DEFINE v2 == <<v[2]>>
           gone == Span(Rd.layout) \cup Span(ImmI.layout)
           R == {}
<1>0. e2.fixed = e.fixed \cup R
  OBVIOUS
<1>1. Tells(Rd, v[1], "0", d) /\ Tells(Rs1, v[2], "1", d) /\ Tells(ImmI, v[3], "i", d)
  BY Slots_fmt_rd_rs1_offset DEF Told
<1>2. Held(Rd, v[1], w) /\ Held(Rs1, v[2], w) /\ Held(ImmI, v[3], w)
  BY AllHeld DEF HeldAll
<1>3. v[1] = 0 /\ v[3] = 0
  BY <1>1, LetterValues DEF Tells
<1>4. BitsOf(w) \cap gone = R
  <2>1. BitsOf(w) \cap Span(Rd.layout) = {}
    BY <1>2, <1>3, LeftInField, ZeroFields
  <2>2. BitsOf(w) \cap Span(ImmI.layout) = {}
    BY <1>2, <1>3, LeftInField, ZeroFields
  <2> QED
    BY <2>1, <2>2
<1>5. Drops(e, e2, gone)
  <2>1. Places(e.args) = Span(Rd.layout) \cup Span(Rs1.layout) \cup Span(ImmI.layout) /\ Places(e2.args) = Span(Rs1.layout)
    BY PlacesOf
  <2> QED
    BY <2>1, WideSpans DEF Drops
<1>6. DOMAIN v2 = DOMAIN e2.args /\ v2[1] = v[2]
  OBVIOUS
<1> HIDE DEF v2, gone, R
<1>7. HeldAll(e2.args, v2, w)
  BY <1>2, <1>6 DEF HeldAll
<1>8. Tells(Rs1, v2[1], "1", x)
  BY <1>1, <1>6, SameTells DEF Letter
<1>9. Told(e2.args, v2, fmt_rs1, x)
  BY <1>8, Slots_fmt_rs1, Told1
<1>10. Carries(w, e2, {}, v2)
  BY <1>0, <1>4, <1>5, <1>6, <1>7, Reline
<1>11. LineMarks(x, fmt_rs1) = {}
  <2>1. Tabbed(fmt_rs1)
    BY DEF Tabbed, fmt_rs1
  <2> QED
    BY <2>1, NoLineMarks
<1> QED
  BY <1>9, <1>10, <1>11, ToldMeans

LEMMA AddiNothing ==
  ASSUME NEW w, NEW e, NEW marks, NEW v, Carries(w, e, marks, v), NoMarks(e), e.args = <<Rd, Rs1, ImmI>>,
         NEW d, d.rd = 0, d.rs1 = 0, d.imm = 0, Told(e.args, v, fmt_rd_rs1_imm, d), NEW x, Same(x, d),
         NEW e2 \in Instructions, e2.name = x.op, e2.args = << >>, e2.fixed = e.fixed \cup {}
  PROVE  Meant(x, fmt_none, w)
<1> DEFINE v2 == << >>
           gone == Span(Rd.layout) \cup Span(Rs1.layout) \cup Span(ImmI.layout)
           R == {}
<1>0. e2.fixed = e.fixed \cup R
  OBVIOUS
<1>1. Tells(Rd, v[1], "0", d) /\ Tells(Rs1, v[2], "1", d) /\ Tells(ImmI, v[3], "i", d)
  BY Slots_fmt_rd_rs1_imm DEF Told
<1>2. Held(Rd, v[1], w) /\ Held(Rs1, v[2], w) /\ Held(ImmI, v[3], w)
  BY AllHeld DEF HeldAll
<1>3. v[1] = 0 /\ v[2] = 0 /\ v[3] = 0
  BY <1>1, LetterValues DEF Tells
<1>4. BitsOf(w) \cap gone = R
  <2>1. BitsOf(w) \cap Span(Rd.layout) = {}
    BY <1>2, <1>3, LeftInField, ZeroFields
  <2>2. BitsOf(w) \cap Span(Rs1.layout) = {}
    BY <1>2, <1>3, LeftInField, ZeroFields
  <2>3. BitsOf(w) \cap Span(ImmI.layout) = {}
    BY <1>2, <1>3, LeftInField, ZeroFields
  <2> QED
    BY <2>1, <2>2, <2>3
<1>5. Drops(e, e2, gone)
  <2>1. Places(e.args) = Span(Rd.layout) \cup Span(Rs1.layout) \cup Span(ImmI.layout) /\ Places(e2.args) = {}
    BY PlacesOf
  <2> QED
    BY <2>1, WideSpans DEF Drops
<1>6. DOMAIN v2 = DOMAIN e2.args
  OBVIOUS
<1> HIDE DEF v2, gone, R
<1>7. HeldAll(e2.args, v2, w)
  BY DEF HeldAll
<1>9. Told(e2.args, v2, fmt_none, x)
  BY Slots_fmt_none, ToldNone
<1>10. Carries(w, e2, {}, v2)
  BY <1>0, <1>4, <1>5, <1>6, <1>7, Reline
<1>11. LineMarks(x, fmt_none) = {}
  <2>1. Tabbed(fmt_none)
    BY DEF Tabbed, fmt_none
  <2> QED
    BY <2>1, NoLineMarks
<1> QED
  BY <1>9, <1>10, <1>11, ToldMeans

LEMMA ImmediateGiven ==
  ASSUME NEW w, NEW e, NEW marks, NEW v, Carries(w, e, marks, v), NoMarks(e), e.args = <<Rd, Rs1, ImmI>>,
         NEW d, NEW c \in Int, d.imm = c, Told(e.args, v, fmt_rd_rs1_imm, d), NEW x, Same(x, d),
         NEW e2 \in Instructions, e2.name = x.op, e2.args = <<Rd, Rs1>>, e2.fixed = e.fixed \cup Field(20, 12, c)
  PROVE  Meant(x, fmt_rd_rs1, w)
<1> DEFINE v2 == <<v[1], v[2]>>
           gone == Span(ImmI.layout)
           R == Field(20, 12, c)
<1>0. e2.fixed = e.fixed \cup R
  OBVIOUS
<1>1. Tells(Rd, v[1], "0", d) /\ Tells(Rs1, v[2], "1", d) /\ Tells(ImmI, v[3], "i", d)
  BY Slots_fmt_rd_rs1_imm DEF Told
<1>2. Held(Rd, v[1], w) /\ Held(Rs1, v[2], w) /\ Held(ImmI, v[3], w)
  BY AllHeld DEF HeldAll
<1>3. v[3] = c
  BY <1>1, LetterValues DEF Tells
<1>4. BitsOf(w) \cap gone = R
  <2>1. BitsOf(w) \cap Span(ImmI.layout) = Field(20, 12, c)
    BY <1>2, <1>3, LeftInField
  <2> QED
    BY <2>1
<1>5. Drops(e, e2, gone)
  <2>1. Places(e.args) = Span(Rd.layout) \cup Span(Rs1.layout) \cup Span(ImmI.layout) /\ Places(e2.args) = Span(Rd.layout) \cup Span(Rs1.layout)
    BY PlacesOf
  <2> QED
    BY <2>1, WideSpans DEF Drops
<1>6. DOMAIN v2 = DOMAIN e2.args /\ v2[1] = v[1] /\ v2[2] = v[2]
  OBVIOUS
<1> HIDE DEF v2, gone, R
<1>7. HeldAll(e2.args, v2, w)
  BY <1>2, <1>6 DEF HeldAll
<1>8. Tells(Rd, v2[1], "0", x) /\ Tells(Rs1, v2[2], "1", x)
  BY <1>1, <1>6, SameTells DEF Letter
<1>9. Told(e2.args, v2, fmt_rd_rs1, x)
  BY <1>8, Slots_fmt_rd_rs1, Told2
<1>10. Carries(w, e2, {}, v2)
  BY <1>0, <1>4, <1>5, <1>6, <1>7, Reline
<1>11. LineMarks(x, fmt_rd_rs1) = {}
  <2>1. Tabbed(fmt_rd_rs1)
    BY DEF Tabbed, fmt_rd_rs1
  <2> QED
    BY <2>1, NoLineMarks
<1> QED
  BY <1>9, <1>10, <1>11, ToldMeans

LEMMA AluNoRs1 ==
  ASSUME NEW w, NEW e, NEW marks, NEW v, Carries(w, e, marks, v), NoMarks(e), e.args = <<Rd, Rs1, Rs2>>,
         NEW d, d.rs1 = 0, Told(e.args, v, fmt_rd_rs1_rs2, d), NEW x, Same(x, d),
         NEW e2 \in Instructions, e2.name = x.op, e2.args = <<Rd, Rs2>>, e2.fixed = e.fixed \cup {}
  PROVE  Meant(x, fmt_rd_rs2, w)
<1> DEFINE v2 == <<v[1], v[3]>>
           gone == Span(Rs1.layout)
           R == {}
<1>0. e2.fixed = e.fixed \cup R
  OBVIOUS
<1>1. Tells(Rd, v[1], "0", d) /\ Tells(Rs1, v[2], "1", d) /\ Tells(Rs2, v[3], "2", d)
  BY Slots_fmt_rd_rs1_rs2 DEF Told
<1>2. Held(Rd, v[1], w) /\ Held(Rs1, v[2], w) /\ Held(Rs2, v[3], w)
  BY AllHeld DEF HeldAll
<1>3. v[2] = 0
  BY <1>1, LetterValues DEF Tells
<1>4. BitsOf(w) \cap gone = R
  <2>1. BitsOf(w) \cap Span(Rs1.layout) = {}
    BY <1>2, <1>3, LeftInField, ZeroFields
  <2> QED
    BY <2>1
<1>5. Drops(e, e2, gone)
  <2>1. Places(e.args) = Span(Rd.layout) \cup Span(Rs1.layout) \cup Span(Rs2.layout) /\ Places(e2.args) = Span(Rd.layout) \cup Span(Rs2.layout)
    BY PlacesOf
  <2> QED
    BY <2>1, WideSpans DEF Drops
<1>6. DOMAIN v2 = DOMAIN e2.args /\ v2[1] = v[1] /\ v2[2] = v[3]
  OBVIOUS
<1> HIDE DEF v2, gone, R
<1>7. HeldAll(e2.args, v2, w)
  BY <1>2, <1>6 DEF HeldAll
<1>8. Tells(Rd, v2[1], "0", x) /\ Tells(Rs2, v2[2], "2", x)
  BY <1>1, <1>6, SameTells DEF Letter
<1>9. Told(e2.args, v2, fmt_rd_rs2, x)
  BY <1>8, Slots_fmt_rd_rs2, Told2
<1>10. Carries(w, e2, {}, v2)
  BY <1>0, <1>4, <1>5, <1>6, <1>7, Reline
<1>11. LineMarks(x, fmt_rd_rs2) = {}
  <2>1. Tabbed(fmt_rd_rs2)
    BY DEF Tabbed, fmt_rd_rs2
  <2> QED
    BY <2>1, NoLineMarks
<1> QED
  BY <1>9, <1>10, <1>11, ToldMeans

LEMMA AluNoRs2 ==
  ASSUME NEW w, NEW e, NEW marks, NEW v, Carries(w, e, marks, v), NoMarks(e), e.args = <<Rd, Rs1, Rs2>>,
         NEW d, d.rs2 = 0, Told(e.args, v, fmt_rd_rs1_rs2, d), NEW x, Same(x, d),
         NEW e2 \in Instructions, e2.name = x.op, e2.args = <<Rd, Rs1>>, e2.fixed = e.fixed \cup {}
  PROVE  Meant(x, fmt_rd_rs1, w)
<1> DEFINE v2 == <<v[1], v[2]>>
           gone == Span(Rs2.layout)
           R == {}
<1>0. e2.fixed = e.fixed \cup R
  OBVIOUS
<1>1. Tells(Rd, v[1], "0", d) /\ Tells(Rs1, v[2], "1", d) /\ Tells(Rs2, v[3], "2", d)
  BY Slots_fmt_rd_rs1_rs2 DEF Told
<1>2. Held(Rd, v[1], w) /\ Held(Rs1, v[2], w) /\ Held(Rs2, v[3], w)
  BY AllHeld DEF HeldAll
<1>3. v[3] = 0
  BY <1>1, LetterValues DEF Tells
<1>4. BitsOf(w) \cap gone = R
  <2>1. BitsOf(w) \cap Span(Rs2.layout) = {}
    BY <1>2, <1>3, LeftInField, ZeroFields
  <2> QED
    BY <2>1
<1>5. Drops(e, e2, gone)
  <2>1. Places(e.args) = Span(Rd.layout) \cup Span(Rs1.layout) \cup Span(Rs2.layout) /\ Places(e2.args) = Span(Rd.layout) \cup Span(Rs1.layout)
    BY PlacesOf
  <2> QED
    BY <2>1, WideSpans DEF Drops
<1>6. DOMAIN v2 = DOMAIN e2.args /\ v2[1] = v[1] /\ v2[2] = v[2]
  OBVIOUS
<1> HIDE DEF v2, gone, R
<1>7. HeldAll(e2.args, v2, w)
  BY <1>2, <1>6 DEF HeldAll
<1>8. Tells(Rd, v2[1], "0", x) /\ Tells(Rs1, v2[2], "1", x)
  BY <1>1, <1>6, SameTells DEF Letter
<1>9. Told(e2.args, v2, fmt_rd_rs1, x)
  BY <1>8, Slots_fmt_rd_rs1, Told2
<1>10. Carries(w, e2, {}, v2)
  BY <1>0, <1>4, <1>5, <1>6, <1>7, Reline
<1>11. LineMarks(x, fmt_rd_rs1) = {}
  <2>1. Tabbed(fmt_rd_rs1)
    BY DEF Tabbed, fmt_rd_rs1
  <2> QED
    BY <2>1, NoLineMarks
<1> QED
  BY <1>9, <1>10, <1>11, ToldMeans

LEMMA CsrGiven ==
  ASSUME NEW w, NEW e, NEW marks, NEW v, Carries(w, e, marks, v), NoMarks(e), e.args = <<Rd, Csr, Rs1>>,
         NEW d, NEW c, CsrNumber(c), d.imm = c, Told(e.args, v, fmt_rd_csr_rs1, d), NEW x, Same(x, d),
         NEW e2 \in Instructions, e2.name = x.op, e2.args = <<Rd, Rs1>>, e2.fixed = e.fixed \cup Field(20, 12, c)
  PROVE  Meant(x, fmt_rd_rs1, w)
<1> DEFINE v2 == <<v[1], v[3]>>
           gone == Span(Csr.layout)
           R == Field(20, 12, c)
<1>0. e2.fixed = e.fixed \cup R
  OBVIOUS
<1>1. Tells(Rd, v[1], "0", d) /\ Tells(Csr, v[2], "c", d) /\ Tells(Rs1, v[3], "1", d)
  BY Slots_fmt_rd_csr_rs1 DEF Told
<1>2. Held(Rd, v[1], w) /\ Held(Csr, v[2], w) /\ Held(Rs1, v[3], w)
  BY AllHeld DEF HeldAll
<1>3. v[2] = c
  <2>1. c % 4096 = c
    BY DEF CsrNumber
  <2>2. v[2] = d.imm % 4096
    BY <1>1, LetterValues DEF Tells
  <2> QED
    BY <2>1, <2>2
<1>4. BitsOf(w) \cap gone = R
  <2>1. BitsOf(w) \cap Span(Csr.layout) = Field(20, 12, c)
    BY <1>2, <1>3, LeftInField
  <2> QED
    BY <2>1
<1>5. Drops(e, e2, gone)
  <2>1. Places(e.args) = Span(Rd.layout) \cup Span(Csr.layout) \cup Span(Rs1.layout) /\ Places(e2.args) = Span(Rd.layout) \cup Span(Rs1.layout)
    BY PlacesOf
  <2> QED
    BY <2>1, WideSpans DEF Drops
<1>6. DOMAIN v2 = DOMAIN e2.args /\ v2[1] = v[1] /\ v2[2] = v[3]
  OBVIOUS
<1> HIDE DEF v2, gone, R
<1>7. HeldAll(e2.args, v2, w)
  BY <1>2, <1>6 DEF HeldAll
<1>8. Tells(Rd, v2[1], "0", x) /\ Tells(Rs1, v2[2], "1", x)
  BY <1>1, <1>6, SameTells DEF Letter
<1>9. Told(e2.args, v2, fmt_rd_rs1, x)
  BY <1>8, Slots_fmt_rd_rs1, Told2
<1>10. Carries(w, e2, {}, v2)
  BY <1>0, <1>4, <1>5, <1>6, <1>7, Reline
<1>11. LineMarks(x, fmt_rd_rs1) = {}
  <2>1. Tabbed(fmt_rd_rs1)
    BY DEF Tabbed, fmt_rd_rs1
  <2> QED
    BY <2>1, NoLineMarks
<1> QED
  BY <1>9, <1>10, <1>11, ToldMeans

LEMMA CsrRead ==
  ASSUME NEW w, NEW e, NEW marks, NEW v, Carries(w, e, marks, v), NoMarks(e), e.args = <<Rd, Csr, Rs1>>,
         NEW d, NEW c, CsrNumber(c), d.imm = c, d.rs1 = 0, Told(e.args, v, fmt_rd_csr_rs1, d), NEW x, Same(x, d),
         NEW e2 \in Instructions, e2.name = x.op, e2.args = <<Rd>>, e2.fixed = e.fixed \cup Field(20, 12, c)
  PROVE  Meant(x, fmt_rd, w)
<1> DEFINE v2 == <<v[1]>>
           gone == Span(Csr.layout) \cup Span(Rs1.layout)
           R == Field(20, 12, c)
<1>0. e2.fixed = e.fixed \cup R
  OBVIOUS
<1>1. Tells(Rd, v[1], "0", d) /\ Tells(Csr, v[2], "c", d) /\ Tells(Rs1, v[3], "1", d)
  BY Slots_fmt_rd_csr_rs1 DEF Told
<1>2. Held(Rd, v[1], w) /\ Held(Csr, v[2], w) /\ Held(Rs1, v[3], w)
  BY AllHeld DEF HeldAll
<1>3. v[2] = c /\ v[3] = 0
  <2>1. c % 4096 = c
    BY DEF CsrNumber
  <2>2. v[2] = d.imm % 4096 /\ v[3] = d.rs1
    BY <1>1, LetterValues DEF Tells
  <2> QED
    BY <2>1, <2>2
<1>4. BitsOf(w) \cap gone = R
  <2>1. BitsOf(w) \cap Span(Csr.layout) = Field(20, 12, c)
    BY <1>2, <1>3, LeftInField
  <2>2. BitsOf(w) \cap Span(Rs1.layout) = {}
    BY <1>2, <1>3, LeftInField, ZeroFields
  <2> QED
    BY <2>1, <2>2
<1>5. Drops(e, e2, gone)
  <2>1. Places(e.args) = Span(Rd.layout) \cup Span(Csr.layout) \cup Span(Rs1.layout) /\ Places(e2.args) = Span(Rd.layout)
    BY PlacesOf
  <2> QED
    BY <2>1, WideSpans DEF Drops
<1>6. DOMAIN v2 = DOMAIN e2.args /\ v2[1] = v[1]
  OBVIOUS
<1> HIDE DEF v2, gone, R
<1>7. HeldAll(e2.args, v2, w)
  BY <1>2, <1>6 DEF HeldAll
<1>8. Tells(Rd, v2[1], "0", x)
  BY <1>1, <1>6, SameTells DEF Letter
<1>9. Told(e2.args, v2, fmt_rd, x)
  BY <1>8, Slots_fmt_rd, Told1
<1>10. Carries(w, e2, {}, v2)
  BY <1>0, <1>4, <1>5, <1>6, <1>7, Reline
<1>11. LineMarks(x, fmt_rd) = {}
  <2>1. Tabbed(fmt_rd)
    BY DEF Tabbed, fmt_rd
  <2> QED
    BY <2>1, NoLineMarks
<1> QED
  BY <1>9, <1>10, <1>11, ToldMeans

LEMMA CsrImmediateGiven ==
  ASSUME NEW w, NEW e, NEW marks, NEW v, Carries(w, e, marks, v), NoMarks(e), e.args = <<Rd, Csr, Zimm>>,
         NEW d, NEW c, CsrNumber(c), d.imm = c, Told(e.args, v, fmt_rd_csr_zimm, d), NEW x, Same(x, d),
         NEW e2 \in Instructions, e2.name = x.op, e2.args = <<Rd, Zimm>>, e2.fixed = e.fixed \cup Field(20, 12, c)
  PROVE  Meant(x, fmt_rd_zimm, w)
<1> DEFINE v2 == <<v[1], v[3]>>
           gone == Span(Csr.layout)
           R == Field(20, 12, c)
<1>0. e2.fixed = e.fixed \cup R
  OBVIOUS
<1>1. Tells(Rd, v[1], "0", d) /\ Tells(Csr, v[2], "c", d) /\ Tells(Zimm, v[3], "7", d)
  BY Slots_fmt_rd_csr_zimm DEF Told
<1>2. Held(Rd, v[1], w) /\ Held(Csr, v[2], w) /\ Held(Zimm, v[3], w)
  BY AllHeld DEF HeldAll
<1>3. v[2] = c
  <2>1. c % 4096 = c
    BY DEF CsrNumber
  <2>2. v[2] = d.imm % 4096
    BY <1>1, LetterValues DEF Tells
  <2> QED
    BY <2>1, <2>2
<1>4. BitsOf(w) \cap gone = R
  <2>1. BitsOf(w) \cap Span(Csr.layout) = Field(20, 12, c)
    BY <1>2, <1>3, LeftInField
  <2> QED
    BY <2>1
<1>5. Drops(e, e2, gone)
  <2>1. Places(e.args) = Span(Rd.layout) \cup Span(Csr.layout) \cup Span(Zimm.layout) /\ Places(e2.args) = Span(Rd.layout) \cup Span(Zimm.layout)
    BY PlacesOf
  <2> QED
    BY <2>1, WideSpans DEF Drops
<1>6. DOMAIN v2 = DOMAIN e2.args /\ v2[1] = v[1] /\ v2[2] = v[3]
  OBVIOUS
<1> HIDE DEF v2, gone, R
<1>7. HeldAll(e2.args, v2, w)
  BY <1>2, <1>6 DEF HeldAll
<1>8. Tells(Rd, v2[1], "0", x) /\ Tells(Zimm, v2[2], "7", x)
  BY <1>1, <1>6, SameTells DEF Letter
<1>9. Told(e2.args, v2, fmt_rd_zimm, x)
  BY <1>8, Slots_fmt_rd_zimm, Told2
<1>10. Carries(w, e2, {}, v2)
  BY <1>0, <1>4, <1>5, <1>6, <1>7, Reline
<1>11. LineMarks(x, fmt_rd_zimm) = {}
  <2>1. Tabbed(fmt_rd_zimm)
    BY DEF Tabbed, fmt_rd_zimm
  <2> QED
    BY <2>1, NoLineMarks
<1> QED
  BY <1>9, <1>10, <1>11, ToldMeans

-----------------------------------------------------------------------------
(***************************************************************************)
(* Names of more than one part, and what the rows list.                    *)
(***************************************************************************)
LEMMA Joined ==
  /\ \A a, b : <<a>> \o <<b>> = <<a, b>>
  /\ \A a, b, c : <<a>> \o <<b>> \o <<c>> = <<a, b, c>>
<1>1. ASSUME NEW a, NEW b
      PROVE  <<a>> \o <<b>> = <<a, b>>
  <2> DEFINE S == {a, b}  s == <<a>>  t == <<b>>  u == <<a, b>>
  <2>1. s \in Seq(S) /\ t \in Seq(S) /\ u \in Seq(S)
    OBVIOUS
  <2>2. Len(s) = 1 /\ Len(t) = 1 /\ Len(u) = 2 /\ s[1] = a /\ t[1] = b /\ u[1] = a /\ u[2] = b
    OBVIOUS
  <2> HIDE DEF S, s, t, u
  <2>3. s \o t \in Seq(S) /\ Len(s \o t) = 2 /\ (s \o t)[1] = a /\ (s \o t)[2] = b
    BY <2>1, <2>2, ConcatProperties
  <2>4. s \o t = u
    BY <2>1, <2>2, <2>3, SeqEqual
  <2> QED
    BY <2>4 DEF s, t, u
<1>2. ASSUME NEW a, NEW b, NEW c
      PROVE  <<a>> \o <<b>> \o <<c>> = <<a, b, c>>
  <2> DEFINE S == {a, b, c}  s == <<a, b>>  t == <<c>>  u == <<a, b, c>>
  <2>1. s \in Seq(S) /\ t \in Seq(S) /\ u \in Seq(S)
    OBVIOUS
  <2>2. /\ Len(s) = 2 /\ s[1] = a /\ s[2] = b /\ Len(t) = 1 /\ t[1] = c
        /\ Len(u) = 3 /\ u[1] = a /\ u[2] = b /\ u[3] = c
    OBVIOUS
  <2> HIDE DEF S, s, t, u
  <2>3. /\ s \o t \in Seq(S) /\ Len(s \o t) = 3
        /\ (s \o t)[1] = a /\ (s \o t)[2] = b /\ (s \o t)[3] = c
    <3>1. /\ s \o t \in Seq(S) /\ Len(s \o t) = Len(s) + Len(t)
          /\ \A i \in 1 .. Len(s) + Len(t) :
               (s \o t)[i] = IF i <= Len(s) THEN s[i] ELSE t[i - Len(s)]
      BY <2>1, ConcatProperties
    <3>2. (s \o t)[1] = s[1] /\ (s \o t)[2] = s[2] /\ (s \o t)[3] = t[1]
      BY <2>2, <3>1
    <3> QED
      BY <2>2, <3>1, <3>2
  <2>4. s \o t = u
    BY <2>1, <2>2, <2>3, SeqEqual
  <2>5. <<a>> \o <<b>> = s
    BY <1>1 DEF s
  <2> QED
    BY <2>4, <2>5 DEF t, u
<1> QED
  BY <1>1, <1>2


(* Ops of one, two and three parts: where the tables may list them.        *)
LEMMA One ==
  \A n : /\ \A S : <<n>> \in Plain(S) <=> n \in S
         /\ \A S, T : <<n>> \notin Dot(S, T)
         /\ \A S, T, U : <<n>> \notin Dots(S, T, U)
         /\ \A S : <<n>> \notin C(S)
BY DEF Plain, Dot, Dots, C

LEMMA Two ==
  \A m, n : /\ \A S : <<m, n>> \notin Plain(S)
            /\ \A S, T : <<m, n>> \in Dot(S, T) <=> m \in S /\ n \in T
            /\ \A S, T, U : <<m, n>> \notin Dots(S, T, U)
            /\ \A S : <<m, n>> \in C(S) <=> m = "c" /\ n \in S
BY DEF Plain, Dot, Dots, C

LEMMA Three ==
  \A l, m, n : /\ \A S : <<l, m, n>> \notin Plain(S)
               /\ \A S, T : <<l, m, n>> \notin Dot(S, T)
               /\ \A S, T, U : <<l, m, n>> \in Dots(S, T, U) <=> l \in S /\ m \in T /\ n \in U
               /\ \A S : <<l, m, n>> \notin C(S)
BY DEF Plain, Dot, Dots, C

(* An op of one part is in one row only.                               *)
LEMMA RowOfOne ==
  ASSUME NEW p \in Rows, NEW q \in Rows, NEW l, <<l>> \in p.ops, <<l>> \in q.ops
  PROVE  p = q
<1>1. \A r \in AtomicRows : <<l>> \notin r.ops
  BY One DEF AtomicRows, Row, op_illegal, Precisions, IntFormats
<1>2. \A r \in CompressedRows : <<l>> \notin r.ops
  BY One DEF CompressedRows, Row, op_illegal, Precisions, IntFormats
<1>3. ASSUME NEW r \in BaseRows, NEW s \in SystemRows, <<l>> \in r.ops, <<l>> \in s.ops
      PROVE  FALSE
  BY <1>3, One DEF BaseRows, SystemRows, Row, op_illegal, Precisions, IntFormats
<1>4. ASSUME NEW r \in BaseRows, NEW s \in FloatRows, <<l>> \in r.ops, <<l>> \in s.ops
      PROVE  FALSE
  BY <1>4, One DEF BaseRows, FloatRows, Row, op_illegal, Precisions, IntFormats
<1>5. ASSUME NEW r \in BaseRows, NEW s \in PseudoRows, <<l>> \in r.ops, <<l>> \in s.ops
      PROVE  FALSE
  BY <1>5, One DEF BaseRows, PseudoRows, Row, op_illegal, Precisions, IntFormats
<1>6. ASSUME NEW r \in SystemRows, NEW s \in FloatRows, <<l>> \in r.ops, <<l>> \in s.ops
      PROVE  FALSE
  BY <1>6, One DEF SystemRows, FloatRows, Row, op_illegal, Precisions, IntFormats
<1>7. ASSUME NEW r \in SystemRows, NEW s \in PseudoRows, <<l>> \in r.ops, <<l>> \in s.ops
      PROVE  FALSE
  BY <1>7, One DEF SystemRows, PseudoRows, Row, op_illegal, Precisions, IntFormats
<1>8. ASSUME NEW r \in FloatRows, NEW s \in PseudoRows, <<l>> \in r.ops, <<l>> \in s.ops
      PROVE  FALSE
  BY <1>8, One DEF FloatRows, PseudoRows, Row, op_illegal, Precisions, IntFormats
<1>9. ASSUME p \in BaseRows, q \in BaseRows
      PROVE  p = q
  <2>1. CASE p = Row("illegal", fmt_none, {op_illegal})
    BY <1>9, <2>1, One DEF BaseRows, Row, op_illegal, Precisions, IntFormats
  <2>2. CASE p = Row("u", fmt_rd_imm, Plain({"lui"}))
    BY <1>9, <2>2, One DEF BaseRows, Row, op_illegal, Precisions, IntFormats
  <2>3. CASE p = Row("u", fmt_rd_offset, Plain({"auipc"}))
    BY <1>9, <2>3, One DEF BaseRows, Row, op_illegal, Precisions, IntFormats
  <2>4. CASE p = Row("uj", fmt_rd_offset, Plain({"jal"}))
    BY <1>9, <2>4, One DEF BaseRows, Row, op_illegal, Precisions, IntFormats
  <2>5. CASE p = Row("i", fmt_rd_rs1_offset, Plain({"jalr"}))
    BY <1>9, <2>5, One DEF BaseRows, Row, op_illegal, Precisions, IntFormats
  <2>6. CASE p = Row("sb", fmt_rs1_rs2_offset, Plain({"beq", "bne", "blt", "bge", "bltu", "bgeu"}))
    BY <1>9, <2>6, One DEF BaseRows, Row, op_illegal, Precisions, IntFormats
  <2>7. CASE p = Row("i", fmt_rd_offset_rs1,
                     Plain({"lb", "lh", "lw", "lbu", "lhu", "lwu", "ld", "ldu", "lq"}))
    BY <1>9, <2>7, One DEF BaseRows, Row, op_illegal, Precisions, IntFormats
  <2>8. CASE p = Row("s", fmt_rs2_offset_rs1, Plain({"sb", "sh", "sw", "sd", "sq"}))
    BY <1>9, <2>8, One DEF BaseRows, Row, op_illegal, Precisions, IntFormats
  <2>9. CASE p = Row("i", fmt_rd_rs1_imm,
                     Plain({"addi", "slti", "sltiu", "xori", "ori", "andi", "addiw", "addid"}))
    BY <1>9, <2>9, One DEF BaseRows, Row, op_illegal, Precisions, IntFormats
  <2>10. CASE p = Row("i_sh7", fmt_rd_rs1_imm, Plain({"slli", "srli", "srai"}))
    BY <1>9, <2>10, One DEF BaseRows, Row, op_illegal, Precisions, IntFormats
  <2>11. CASE p = Row("i_sh5", fmt_rd_rs1_imm, Plain({"slliw", "srliw", "sraiw"}))
    BY <1>9, <2>11, One DEF BaseRows, Row, op_illegal, Precisions, IntFormats
  <2>12. CASE p = Row("i_sh6", fmt_rd_rs1_imm, Plain({"sllid", "srlid", "sraid"}))
    BY <1>9, <2>12, One DEF BaseRows, Row, op_illegal, Precisions, IntFormats
  <2>13. CASE p = Row("r", fmt_rd_rs1_rs2,
                      Plain({"add", "sub", "sll", "slt", "sltu", "xor", "srl", "sra", "or", "and", "addw", "subw",
                      "sllw", "srlw", "sraw", "addd", "subd", "slld", "srld", "srad", "mul",
                      "mulh", "mulhsu", "mulhu", "div", "divu", "rem", "remu", "mulw", "divw",
                      "divuw", "remw", "remuw", "muld", "divd", "divud", "remd", "remud"}))
    BY <1>9, <2>13, One DEF BaseRows, Row, op_illegal, Precisions, IntFormats
  <2>14. CASE p = Row("r_f", fmt_pred_succ, Plain({"fence"}))
    BY <1>9, <2>14, One DEF BaseRows, Row, op_illegal, Precisions, IntFormats
  <2>15. CASE p = Row("none", fmt_none, {<<"fence", "i">>})
    BY <1>9, <2>15, One DEF BaseRows, Row, op_illegal, Precisions, IntFormats
  <2> QED
    BY <1>9, <2>1, <2>2, <2>3, <2>4, <2>5, <2>6, <2>7, <2>8, <2>9, <2>10, <2>11, <2>12, <2>13,
       <2>14, <2>15 DEF BaseRows
<1>10. ASSUME p \in SystemRows, q \in SystemRows
      PROVE  p = q
  BY <1>10, One DEF SystemRows, Row, op_illegal, Precisions, IntFormats
<1>11. ASSUME p \in FloatRows, q \in FloatRows
      PROVE  p = q
  BY <1>11, One DEF FloatRows, Row, op_illegal, Precisions, IntFormats
<1>12. ASSUME p \in PseudoRows, q \in PseudoRows
      PROVE  p = q
  <2>1. CASE p = Row("i", fmt_none, Plain({"nop", "ret"}))
    BY <1>12, <2>1, One DEF PseudoRows, Row, op_illegal, Precisions, IntFormats
  <2>2. CASE p = Row("i", fmt_rd_rs1, Plain({"mv", "not", "seqz"}) \cup {<<"sext", "w">>})
    BY <1>12, <2>2, One DEF PseudoRows, Row, op_illegal, Precisions, IntFormats
  <2>3. CASE p = Row("i", fmt_rs1, Plain({"jr"}))
    BY <1>12, <2>3, One DEF PseudoRows, Row, op_illegal, Precisions, IntFormats
  <2>4. CASE p = Row("r", fmt_rd_rs2, Plain({"neg", "negw", "snez", "sgtz"}))
    BY <1>12, <2>4, One DEF PseudoRows, Row, op_illegal, Precisions, IntFormats
  <2>5. CASE p = Row("r", fmt_rd_rs1, Plain({"sltz"}) \cup Dot({"fmv", "fabs", "fneg"}, Precisions))
    BY <1>12, <2>5, One DEF PseudoRows, Row, op_illegal, Precisions, IntFormats
  <2>6. CASE p = Row("sb", fmt_rs1_offset, Plain({"beqz", "bnez", "bgez", "bltz"}))
    BY <1>12, <2>6, One DEF PseudoRows, Row, op_illegal, Precisions, IntFormats
  <2>7. CASE p = Row("sb", fmt_rs2_offset, Plain({"blez", "bgtz"}))
    BY <1>12, <2>7, One DEF PseudoRows, Row, op_illegal, Precisions, IntFormats
  <2>8. CASE p = Row("sb", fmt_rs2_rs1_offset, Plain({"ble", "bleu", "bgt", "bgtu"}))
    BY <1>12, <2>8, One DEF PseudoRows, Row, op_illegal, Precisions, IntFormats
  <2>9. CASE p = Row("uj", fmt_offset, Plain({"j"}))
    BY <1>12, <2>9, One DEF PseudoRows, Row, op_illegal, Precisions, IntFormats
  <2>10. CASE p = Row("i_csr", fmt_rd,
                      Plain({"rdcycle", "rdtime", "rdinstret", "rdcycleh", "rdtimeh", "rdinstreth", "frcsr", "frrm",
                      "frflags"}))
    BY <1>12, <2>10, One DEF PseudoRows, Row, op_illegal, Precisions, IntFormats
  <2>11. CASE p = Row("i_csr", fmt_rd_rs1, Plain({"fscsr", "fsrm", "fsflags"}))
    BY <1>12, <2>11, One DEF PseudoRows, Row, op_illegal, Precisions, IntFormats
  <2>12. CASE p = Row("i_csr", fmt_rd_zimm, Plain({"fsrmi", "fsflagsi"}))
    BY <1>12, <2>12, One DEF PseudoRows, Row, op_illegal, Precisions, IntFormats
  <2> QED
    BY <1>12, <2>1, <2>2, <2>3, <2>4, <2>5, <2>6, <2>7, <2>8, <2>9, <2>10, <2>11, <2>12 DEF PseudoRows
<1> QED
  BY <1>1, <1>2, <1>3, <1>4, <1>5, <1>6, <1>7, <1>8, <1>9, <1>10, <1>11, <1>12 DEF Rows

(* An op of two parts is in one row only.                               *)
LEMMA RowOfTwo ==
  ASSUME NEW p \in Rows, NEW q \in Rows, NEW l, NEW m, <<l, m>> \in p.ops, <<l, m>> \in q.ops
  PROVE  p = q
<1>1. ASSUME NEW r \in BaseRows, NEW s \in AtomicRows, <<l, m>> \in r.ops, <<l, m>> \in s.ops
      PROVE  FALSE
  BY <1>1, Two DEF BaseRows, AtomicRows, Row, op_illegal, Precisions, IntFormats
<1>2. ASSUME NEW r \in BaseRows, NEW s \in SystemRows, <<l, m>> \in r.ops, <<l, m>> \in s.ops
      PROVE  FALSE
  BY <1>2, Two DEF BaseRows, SystemRows, Row, op_illegal, Precisions, IntFormats
<1>3. ASSUME NEW r \in BaseRows, NEW s \in FloatRows, <<l, m>> \in r.ops, <<l, m>> \in s.ops
      PROVE  FALSE
  BY <1>3, Two DEF BaseRows, FloatRows, Row, op_illegal, Precisions, IntFormats
<1>4. ASSUME NEW r \in BaseRows, NEW s \in CompressedRows, <<l, m>> \in r.ops, <<l, m>> \in s.ops
      PROVE  FALSE
  BY <1>4, Two DEF BaseRows, CompressedRows, Row, op_illegal, Precisions, IntFormats
<1>5. ASSUME NEW r \in BaseRows, NEW s \in PseudoRows, <<l, m>> \in r.ops, <<l, m>> \in s.ops
      PROVE  FALSE
  BY <1>5, Two DEF BaseRows, PseudoRows, Row, op_illegal, Precisions, IntFormats
<1>6. ASSUME NEW r \in AtomicRows, NEW s \in SystemRows, <<l, m>> \in r.ops, <<l, m>> \in s.ops
      PROVE  FALSE
  BY <1>6, Two DEF AtomicRows, SystemRows, Row, op_illegal, Precisions, IntFormats
<1>7. ASSUME NEW r \in AtomicRows, NEW s \in FloatRows, <<l, m>> \in r.ops, <<l, m>> \in s.ops
      PROVE  FALSE
  BY <1>7, Two DEF AtomicRows, FloatRows, Row, op_illegal, Precisions, IntFormats
<1>8. ASSUME NEW r \in AtomicRows, NEW s \in CompressedRows, <<l, m>> \in r.ops, <<l, m>> \in s.ops
      PROVE  FALSE
  BY <1>8, Two DEF AtomicRows, CompressedRows, Row, op_illegal, Precisions, IntFormats
<1>9. ASSUME NEW r \in AtomicRows, NEW s \in PseudoRows, <<l, m>> \in r.ops, <<l, m>> \in s.ops
      PROVE  FALSE
  BY <1>9, Two DEF AtomicRows, PseudoRows, Row, op_illegal, Precisions, IntFormats
<1>10. ASSUME NEW r \in SystemRows, NEW s \in FloatRows, <<l, m>> \in r.ops, <<l, m>> \in s.ops
      PROVE  FALSE
  BY <1>10, Two DEF SystemRows, FloatRows, Row, op_illegal, Precisions, IntFormats
<1>11. ASSUME NEW r \in SystemRows, NEW s \in CompressedRows, <<l, m>> \in r.ops, <<l, m>> \in s.ops
      PROVE  FALSE
  BY <1>11, Two DEF SystemRows, CompressedRows, Row, op_illegal, Precisions, IntFormats
<1>12. ASSUME NEW r \in SystemRows, NEW s \in PseudoRows, <<l, m>> \in r.ops, <<l, m>> \in s.ops
      PROVE  FALSE
  BY <1>12, Two DEF SystemRows, PseudoRows, Row, op_illegal, Precisions, IntFormats
<1>13. ASSUME NEW r \in FloatRows, NEW s \in CompressedRows, <<l, m>> \in r.ops, <<l, m>> \in s.ops
      PROVE  FALSE
  BY <1>13, Two DEF FloatRows, CompressedRows, Row, op_illegal, Precisions, IntFormats
<1>14. ASSUME NEW r \in FloatRows, NEW s \in PseudoRows, <<l, m>> \in r.ops, <<l, m>> \in s.ops
      PROVE  FALSE
  <2>1. l \in {"sext", "fmv", "fabs", "fneg"}
    BY <1>14, Two DEF PseudoRows, Row
  <2> QED
    BY <1>14, <2>1, Two DEF FloatRows, Row, op_illegal, Precisions, IntFormats
<1>15. ASSUME NEW r \in CompressedRows, NEW s \in PseudoRows, <<l, m>> \in r.ops, <<l, m>> \in s.ops
      PROVE  FALSE
  BY <1>15, Two DEF CompressedRows, PseudoRows, Row, op_illegal, Precisions, IntFormats
<1>16. ASSUME p \in BaseRows, q \in BaseRows
      PROVE  p = q
  <2>1. CASE p = Row("illegal", fmt_none, {op_illegal})
    BY <1>16, <2>1, Two DEF BaseRows, Row, op_illegal, Precisions, IntFormats
  <2>2. CASE p = Row("u", fmt_rd_imm, Plain({"lui"}))
    BY <1>16, <2>2, Two DEF BaseRows, Row, op_illegal, Precisions, IntFormats
  <2>3. CASE p = Row("u", fmt_rd_offset, Plain({"auipc"}))
    BY <1>16, <2>3, Two DEF BaseRows, Row, op_illegal, Precisions, IntFormats
  <2>4. CASE p = Row("uj", fmt_rd_offset, Plain({"jal"}))
    BY <1>16, <2>4, Two DEF BaseRows, Row, op_illegal, Precisions, IntFormats
  <2>5. CASE p = Row("i", fmt_rd_rs1_offset, Plain({"jalr"}))
    BY <1>16, <2>5, Two DEF BaseRows, Row, op_illegal, Precisions, IntFormats
  <2>6. CASE p = Row("sb", fmt_rs1_rs2_offset, Plain({"beq", "bne", "blt", "bge", "bltu", "bgeu"}))
    BY <1>16, <2>6, Two DEF BaseRows, Row, op_illegal, Precisions, IntFormats
  <2>7. CASE p = Row("i", fmt_rd_offset_rs1,
                     Plain({"lb", "lh", "lw", "lbu", "lhu", "lwu", "ld", "ldu", "lq"}))
    BY <1>16, <2>7, Two DEF BaseRows, Row, op_illegal, Precisions, IntFormats
  <2>8. CASE p = Row("s", fmt_rs2_offset_rs1, Plain({"sb", "sh", "sw", "sd", "sq"}))
    BY <1>16, <2>8, Two DEF BaseRows, Row, op_illegal, Precisions, IntFormats
  <2>9. CASE p = Row("i", fmt_rd_rs1_imm,
                     Plain({"addi", "slti", "sltiu", "xori", "ori", "andi", "addiw", "addid"}))
    BY <1>16, <2>9, Two DEF BaseRows, Row, op_illegal, Precisions, IntFormats
  <2>10. CASE p = Row("i_sh7", fmt_rd_rs1_imm, Plain({"slli", "srli", "srai"}))
    BY <1>16, <2>10, Two DEF BaseRows, Row, op_illegal, Precisions, IntFormats
  <2>11. CASE p = Row("i_sh5", fmt_rd_rs1_imm, Plain({"slliw", "srliw", "sraiw"}))
    BY <1>16, <2>11, Two DEF BaseRows, Row, op_illegal, Precisions, IntFormats
  <2>12. CASE p = Row("i_sh6", fmt_rd_rs1_imm, Plain({"sllid", "srlid", "sraid"}))
    BY <1>16, <2>12, Two DEF BaseRows, Row, op_illegal, Precisions, IntFormats
  <2>13. CASE p = Row("r", fmt_rd_rs1_rs2,
                      Plain({"add", "sub", "sll", "slt", "sltu", "xor", "srl", "sra", "or", "and", "addw", "subw",
                      "sllw", "srlw", "sraw", "addd", "subd", "slld", "srld", "srad", "mul",
                      "mulh", "mulhsu", "mulhu", "div", "divu", "rem", "remu", "mulw", "divw",
                      "divuw", "remw", "remuw", "muld", "divd", "divud", "remd", "remud"}))
    BY <1>16, <2>13, Two DEF BaseRows, Row, op_illegal, Precisions, IntFormats
  <2>14. CASE p = Row("r_f", fmt_pred_succ, Plain({"fence"}))
    BY <1>16, <2>14, Two DEF BaseRows, Row, op_illegal, Precisions, IntFormats
  <2>15. CASE p = Row("none", fmt_none, {<<"fence", "i">>})
    BY <1>16, <2>15, Two DEF BaseRows, Row, op_illegal, Precisions, IntFormats
  <2> QED
    BY <1>16, <2>1, <2>2, <2>3, <2>4, <2>5, <2>6, <2>7, <2>8, <2>9, <2>10, <2>11, <2>12,
       <2>13, <2>14, <2>15 DEF BaseRows
<1>17. ASSUME p \in AtomicRows, q \in AtomicRows
      PROVE  p = q
  BY <1>17, Two DEF AtomicRows, Row, op_illegal, Precisions, IntFormats
<1>18. ASSUME p \in SystemRows, q \in SystemRows
      PROVE  p = q
  <2>1. CASE p = Row("none", fmt_none,
                     Plain({"ecall", "ebreak", "uret", "sret", "hret", "mret", "dret", "wfi"}))
    BY <1>18, <2>1, Two DEF SystemRows, Row, op_illegal, Precisions, IntFormats
  <2>2. CASE p = Row("r", fmt_rs1, {<<"sfence", "vm">>})
    BY <1>18, <2>2, Two DEF SystemRows, Row, op_illegal, Precisions, IntFormats
  <2>3. CASE p = Row("r", fmt_rs1_rs2, {<<"sfence", "vma">>})
    BY <1>18, <2>3, Two DEF SystemRows, Row, op_illegal, Precisions, IntFormats
  <2>4. CASE p = Row("i_csr", fmt_rd_csr_rs1, Plain({"csrrw", "csrrs", "csrrc"}))
    BY <1>18, <2>4, Two DEF SystemRows, Row, op_illegal, Precisions, IntFormats
  <2>5. CASE p = Row("i_csr", fmt_rd_csr_zimm, Plain({"csrrwi", "csrrsi", "csrrci"}))
    BY <1>18, <2>5, Two DEF SystemRows, Row, op_illegal, Precisions, IntFormats
  <2> QED
    BY <1>18, <2>1, <2>2, <2>3, <2>4, <2>5 DEF SystemRows
<1>19. ASSUME p \in FloatRows, q \in FloatRows
      PROVE  p = q
  <2>1. CASE p = Row("i", fmt_frd_offset_rs1, Plain({"flw", "fld", "flq"}))
    BY <1>19, <2>1, Two DEF FloatRows, Row, op_illegal, Precisions, IntFormats
  <2>2. CASE p = Row("s", fmt_frs2_offset_rs1, Plain({"fsw", "fsd", "fsq"}))
    BY <1>19, <2>2, Two DEF FloatRows, Row, op_illegal, Precisions, IntFormats
  <2>3. CASE p = Row("r4_m", fmt_rm_frd_frs1_frs2_frs3,
                     Dot({"fmadd", "fmsub", "fnmsub", "fnmadd"}, Precisions))
    BY <1>19, <2>3, Two DEF FloatRows, Row, op_illegal, Precisions, IntFormats
  <2>4. CASE p = Row("r_m", fmt_rm_frd_frs1_frs2, Dot({"fadd", "fsub", "fmul", "fdiv"}, Precisions))
    BY <1>19, <2>4, Two DEF FloatRows, Row, op_illegal, Precisions, IntFormats
  <2>5. CASE p = Row("r", fmt_frd_frs1_frs2,
                     Dot({"fsgnj", "fsgnjn", "fsgnjx", "fmin", "fmax"}, Precisions))
    BY <1>19, <2>5, Two DEF FloatRows, Row, op_illegal, Precisions, IntFormats
  <2>6. CASE p = Row("r_m", fmt_rm_frd_frs1,
                     Dot({"fsqrt"}, Precisions) \cup {op \in Dots({"fcvt"}, Precisions, Precisions) : op[2] # op[3]})
    BY <1>19, <2>6, Two DEF FloatRows, Row, op_illegal, Precisions, IntFormats
  <2>7. CASE p = Row("r", fmt_rd_frs1_frs2, Dot({"fle", "flt", "feq"}, Precisions))
    BY <1>19, <2>7, Two DEF FloatRows, Row, op_illegal, Precisions, IntFormats
  <2>8. CASE p = Row("r_m", fmt_rm_rd_frs1, Dots({"fcvt"}, IntFormats, Precisions))
    BY <1>19, <2>8, Two DEF FloatRows, Row, op_illegal, Precisions, IntFormats
  <2>9. CASE p = Row("r_m", fmt_rm_frd_rs1, Dots({"fcvt"}, Precisions, IntFormats))
    BY <1>19, <2>9, Two DEF FloatRows, Row, op_illegal, Precisions, IntFormats
  <2>10. CASE p = Row("r", fmt_rd_frs1,
                      Dot({"fclass"}, Precisions) \cup Dots({"fmv"}, {"x"}, Precisions))
    BY <1>19, <2>10, Two DEF FloatRows, Row, op_illegal, Precisions, IntFormats
  <2>11. CASE p = Row("r", fmt_frd_rs1, Dots({"fmv"}, Precisions, {"x"}))
    BY <1>19, <2>11, Two DEF FloatRows, Row, op_illegal, Precisions, IntFormats
  <2> QED
    BY <1>19, <2>1, <2>2, <2>3, <2>4, <2>5, <2>6, <2>7, <2>8, <2>9, <2>10, <2>11 DEF FloatRows
<1>20. ASSUME p \in CompressedRows, q \in CompressedRows
      PROVE  p = q
  BY <1>20, Two DEF CompressedRows, Row, op_illegal, Precisions, IntFormats
<1>21. ASSUME p \in PseudoRows, q \in PseudoRows
      PROVE  p = q
  <2>1. CASE p = Row("i", fmt_none, Plain({"nop", "ret"}))
    BY <1>21, <2>1, Two DEF PseudoRows, Row, op_illegal, Precisions, IntFormats
  <2>2. CASE p = Row("i", fmt_rd_rs1, Plain({"mv", "not", "seqz"}) \cup {<<"sext", "w">>})
    BY <1>21, <2>2, Two DEF PseudoRows, Row, op_illegal, Precisions, IntFormats
  <2>3. CASE p = Row("i", fmt_rs1, Plain({"jr"}))
    BY <1>21, <2>3, Two DEF PseudoRows, Row, op_illegal, Precisions, IntFormats
  <2>4. CASE p = Row("r", fmt_rd_rs2, Plain({"neg", "negw", "snez", "sgtz"}))
    BY <1>21, <2>4, Two DEF PseudoRows, Row, op_illegal, Precisions, IntFormats
  <2>5. CASE p = Row("r", fmt_rd_rs1, Plain({"sltz"}) \cup Dot({"fmv", "fabs", "fneg"}, Precisions))
    BY <1>21, <2>5, Two DEF PseudoRows, Row, op_illegal, Precisions, IntFormats
  <2>6. CASE p = Row("sb", fmt_rs1_offset, Plain({"beqz", "bnez", "bgez", "bltz"}))
    BY <1>21, <2>6, Two DEF PseudoRows, Row, op_illegal, Precisions, IntFormats
  <2>7. CASE p = Row("sb", fmt_rs2_offset, Plain({"blez", "bgtz"}))
    BY <1>21, <2>7, Two DEF PseudoRows, Row, op_illegal, Precisions, IntFormats
  <2>8. CASE p = Row("sb", fmt_rs2_rs1_offset, Plain({"ble", "bleu", "bgt", "bgtu"}))
    BY <1>21, <2>8, Two DEF PseudoRows, Row, op_illegal, Precisions, IntFormats
  <2>9. CASE p = Row("uj", fmt_offset, Plain({"j"}))
    BY <1>21, <2>9, Two DEF PseudoRows, Row, op_illegal, Precisions, IntFormats
  <2>10. CASE p = Row("i_csr", fmt_rd,
                      Plain({"rdcycle", "rdtime", "rdinstret", "rdcycleh", "rdtimeh", "rdinstreth", "frcsr", "frrm",
                      "frflags"}))
    BY <1>21, <2>10, Two DEF PseudoRows, Row, op_illegal, Precisions, IntFormats
  <2>11. CASE p = Row("i_csr", fmt_rd_rs1, Plain({"fscsr", "fsrm", "fsflags"}))
    BY <1>21, <2>11, Two DEF PseudoRows, Row, op_illegal, Precisions, IntFormats
  <2>12. CASE p = Row("i_csr", fmt_rd_zimm, Plain({"fsrmi", "fsflagsi"}))
    BY <1>21, <2>12, Two DEF PseudoRows, Row, op_illegal, Precisions, IntFormats
  <2> QED
    BY <1>21, <2>1, <2>2, <2>3, <2>4, <2>5, <2>6, <2>7, <2>8, <2>9, <2>10, <2>11, <2>12 DEF PseudoRows
<1> QED
  BY <1>1, <1>2, <1>3, <1>4, <1>5, <1>6, <1>7, <1>8, <1>9, <1>10, <1>11, <1>12, <1>13, <1>14,
     <1>15, <1>16, <1>17, <1>18, <1>19, <1>20, <1>21 DEF Rows

(* An op of three parts is in one row only.                               *)
LEMMA RowOfThree ==
  ASSUME NEW p \in Rows, NEW q \in Rows, NEW l, NEW m, NEW n, <<l, m, n>> \in p.ops, <<l, m, n>> \in q.ops
  PROVE  p = q
<1>1. \A r \in BaseRows : <<l, m, n>> \notin r.ops
  BY Three DEF BaseRows, Row, op_illegal, Precisions, IntFormats
<1>2. \A r \in AtomicRows : <<l, m, n>> \notin r.ops
  BY Three DEF AtomicRows, Row, op_illegal, Precisions, IntFormats
<1>3. \A r \in SystemRows : <<l, m, n>> \notin r.ops
  BY Three DEF SystemRows, Row, op_illegal, Precisions, IntFormats
<1>4. \A r \in CompressedRows : <<l, m, n>> \notin r.ops
  BY Three DEF CompressedRows, Row, op_illegal, Precisions, IntFormats
<1>5. \A r \in PseudoRows : <<l, m, n>> \notin r.ops
  BY Three DEF PseudoRows, Row, op_illegal, Precisions, IntFormats
<1>6. ASSUME p \in FloatRows, q \in FloatRows
      PROVE  p = q
  <2>1. CASE p = Row("i", fmt_frd_offset_rs1, Plain({"flw", "fld", "flq"}))
    BY <1>6, <2>1, Three DEF FloatRows, Row, op_illegal, Precisions, IntFormats
  <2>2. CASE p = Row("s", fmt_frs2_offset_rs1, Plain({"fsw", "fsd", "fsq"}))
    BY <1>6, <2>2, Three DEF FloatRows, Row, op_illegal, Precisions, IntFormats
  <2>3. CASE p = Row("r4_m", fmt_rm_frd_frs1_frs2_frs3,
                     Dot({"fmadd", "fmsub", "fnmsub", "fnmadd"}, Precisions))
    BY <1>6, <2>3, Three DEF FloatRows, Row, op_illegal, Precisions, IntFormats
  <2>4. CASE p = Row("r_m", fmt_rm_frd_frs1_frs2, Dot({"fadd", "fsub", "fmul", "fdiv"}, Precisions))
    BY <1>6, <2>4, Three DEF FloatRows, Row, op_illegal, Precisions, IntFormats
  <2>5. CASE p = Row("r", fmt_frd_frs1_frs2,
                     Dot({"fsgnj", "fsgnjn", "fsgnjx", "fmin", "fmax"}, Precisions))
    BY <1>6, <2>5, Three DEF FloatRows, Row, op_illegal, Precisions, IntFormats
  <2>6. CASE p = Row("r_m", fmt_rm_frd_frs1,
                     Dot({"fsqrt"}, Precisions) \cup {op \in Dots({"fcvt"}, Precisions, Precisions) : op[2] # op[3]})
    BY <1>6, <2>6, Three DEF FloatRows, Row, op_illegal, Precisions, IntFormats
  <2>7. CASE p = Row("r", fmt_rd_frs1_frs2, Dot({"fle", "flt", "feq"}, Precisions))
    BY <1>6, <2>7, Three DEF FloatRows, Row, op_illegal, Precisions, IntFormats
  <2>8. CASE p = Row("r_m", fmt_rm_rd_frs1, Dots({"fcvt"}, IntFormats, Precisions))
    BY <1>6, <2>8, Three DEF FloatRows, Row, op_illegal, Precisions, IntFormats
  <2>9. CASE p = Row("r_m", fmt_rm_frd_rs1, Dots({"fcvt"}, Precisions, IntFormats))
    BY <1>6, <2>9, Three DEF FloatRows, Row, op_illegal, Precisions, IntFormats
  <2>10. CASE p = Row("r", fmt_rd_frs1,
                      Dot({"fclass"}, Precisions) \cup Dots({"fmv"}, {"x"}, Precisions))
    BY <1>6, <2>10, Three DEF FloatRows, Row, op_illegal, Precisions, IntFormats
  <2>11. CASE p = Row("r", fmt_frd_rs1, Dots({"fmv"}, Precisions, {"x"}))
    BY <1>6, <2>11, Three DEF FloatRows, Row, op_illegal, Precisions, IntFormats
  <2> QED
    BY <1>6, <2>1, <2>2, <2>3, <2>4, <2>5, <2>6, <2>7, <2>8, <2>9, <2>10, <2>11 DEF FloatRows
<1> QED
  BY <1>1, <1>2, <1>3, <1>4, <1>5, <1>6 DEF Rows

(* So opcode_data takes an op to the row that lists it.                    *)
LEMMA RowTaken ==
  ASSUME NEW row \in Rows, NEW op \in row.ops,
         \/ \E l : op = <<l>>
         \/ \E l, m : op = <<l, m>>
         \/ \E l, m, n : op = <<l, m, n>>
  PROVE  op \in rv_op /\ opcode_data[op] = row
<1>1. op \in rv_op /\ opcode_data[op] \in Rows /\ op \in opcode_data[op].ops
  BY DEF opcode_data, rv_op
<1>2. \A q \in Rows : op \in q.ops => q = row
  BY RowOfOne, RowOfTwo, RowOfThree
<1> QED
  BY <1>1, <1>2

-----------------------------------------------------------------------------
(***************************************************************************)
(* The fields of a word that an entry fixes.                               *)
(***************************************************************************)
LEMMA EntryFixed ==
  ASSUME NEW w, NEW e, NEW marks, NEW v, Carries(w, e, marks, v),
         NEW opcode \in 0 .. 31, NEW f3 \in 0 .. 7, NEW f7 \in Nat, f7 < 128, NEW R,
         e.fixed = Code(opcode, f3, f7) \cup R
  PROVE  Fixed(w, Places(e.args), opcode, f3, f7, R \cup MarkBits(marks))
BY DEF Carries, Exactly, Places, Fixed, Unplaced

(* The parts of funct7.                                                    *)
LEMMA Parts7 ==
  ASSUME NEW w, NEW S, NEW opcode, NEW f3, NEW f7, NEW R, Fixed(w, S, opcode, f3, f7, R)
  PROVE  /\ Off(S \cup R, 25, 31) => funct7(w) = f7
         /\ Off(S \cup R, 26, 31) => Bits(w, 26, 6) = f7 \div 2
         /\ Off(S \cup R, 27, 31) => funct5(w) = f7 \div 4
         /\ Off(S \cup R, 25, 26) => Bits(w, 25, 2) = f7 % 4
<1>0. f7 \in Nat /\ f7 < 128
  BY DEF Fixed
<1>1. ASSUME Off(S \cup R, 25, 31)
      PROVE  funct7(w) = f7
  <2>1. Part7(S \cup R, 25, 31, 7, 0)
    BY <1>1 DEF Part7
  <2>2. Bits(w, 25, 7) = Bits(f7, 0, 7)
    BY <2>1, Funct7Field
  <2>3. Bits(f7, 0, 7) = f7
    BY <1>0 DEF Bits
  <2> QED
    BY <2>2, <2>3 DEF funct7
<1>2. ASSUME Off(S \cup R, 26, 31)
      PROVE  Bits(w, 26, 6) = f7 \div 2
  <2>1. Part7(S \cup R, 26, 31, 6, 1)
    BY <1>2 DEF Part7
  <2>2. Bits(w, 26, 6) = Bits(f7, 1, 6)
    BY <2>1, Funct7Field
  <2>3. Bits(f7, 1, 6) = f7 \div 2
    BY <1>0 DEF Bits
  <2> QED
    BY <2>2, <2>3
<1>3. ASSUME Off(S \cup R, 27, 31)
      PROVE  funct5(w) = f7 \div 4
  <2>1. Part7(S \cup R, 27, 31, 5, 2)
    BY <1>3 DEF Part7
  <2>2. Bits(w, 27, 5) = Bits(f7, 2, 5)
    BY <2>1, Funct7Field
  <2>3. Bits(f7, 2, 5) = f7 \div 4
    BY <1>0 DEF Bits
  <2> QED
    BY <2>2, <2>3 DEF funct5
<1>4. ASSUME Off(S \cup R, 25, 26)
      PROVE  Bits(w, 25, 2) = f7 % 4
  <2>1. Part7(S \cup R, 25, 26, 2, 0)
    BY <1>4 DEF Part7
  <2>2. Bits(w, 25, 2) = Bits(f7, 0, 2)
    BY <2>1, Funct7Field
  <2>3. Bits(f7, 0, 2) = f7 % 4
    BY <1>0 DEF Bits
  <2> QED
    BY <2>2, <2>3
<1> QED
  BY <1>1, <1>2, <1>3, <1>4

-----------------------------------------------------------------------------
(* What the fixed bits of an entry without marks say of the word's fields, *)
(* where neither its operands nor R have a bit.                            *)
FieldsFixed(w, S, opcode, f3, f7) ==
  /\ Off(S, 0, 6) => w % 4 = 3 /\ Bits(w, 2, 5) = opcode
  /\ Off(S, 12, 14) => funct3(w) = f3
  /\ Off(S, 25, 31) => funct7(w) = f7
  /\ Off(S, 26, 31) => Bits(w, 26, 6) = f7 \div 2
  /\ Off(S, 27, 31) => funct5(w) = f7 \div 4
  /\ Off(S, 25, 26) => Bits(w, 25, 2) = f7 % 4

LEMMA CodeFields ==
  ASSUME NEW w, NEW e, NEW marks, NEW v, Carries(w, e, marks, v),
         NEW opcode \in 0 .. 31, NEW f3 \in 0 .. 7, NEW f7 \in Nat, f7 < 128, NEW R,
         e.fixed = Code(opcode, f3, f7) \cup R,
         NEW S, S = Places(e.args) \cup R \cup MarkBits(marks)
  PROVE  FieldsFixed(w, S, opcode, f3, f7)
<1> DEFINE M == R \cup MarkBits(marks)
<1>1. Fixed(w, Places(e.args), opcode, f3, f7, M)
  BY EntryFixed
<1>2. Places(e.args) \cup M = S
  OBVIOUS
<1> HIDE DEF M
<1>3. Off(S, 0, 6) => w % 4 = 3 /\ Bits(w, 2, 5) = opcode
  BY <1>1, <1>2, OpcodeField
<1>4. Off(S, 12, 14) => funct3(w) = f3
  BY <1>1, <1>2, Funct3Field DEF funct3
<1>5. /\ Off(S, 25, 31) => funct7(w) = f7
      /\ Off(S, 26, 31) => Bits(w, 26, 6) = f7 \div 2
      /\ Off(S, 27, 31) => funct5(w) = f7 \div 4
      /\ Off(S, 25, 26) => Bits(w, 25, 2) = f7 % 4
  <2> DEFINE P == Places(e.args)
  <2> HIDE DEF P
  <2>1. Fixed(w, P, opcode, f3, f7, M)
    BY <1>1 DEF P
  <2>2. P \cup M = S
    BY <1>2 DEF P
  <2>3. /\ Off(P \cup M, 25, 31) => funct7(w) = f7
        /\ Off(P \cup M, 26, 31) => Bits(w, 26, 6) = f7 \div 2
        /\ Off(P \cup M, 27, 31) => funct5(w) = f7 \div 4
        /\ Off(P \cup M, 25, 26) => Bits(w, 25, 2) = f7 % 4
    BY <2>1, Parts7
  <2> QED
    BY <2>2, <2>3
<1> QED
  BY <1>3, <1>4, <1>5 DEF FieldsFixed

(* No operand has a bit between lo and hi.                                 *)
Clear(args, lo, hi) == \A k \in DOMAIN args : Off(Span(args[k].layout), lo, hi)

LEMMA ClearPlaces ==
  ASSUME NEW args, NEW lo, NEW hi, Clear(args, lo, hi)
  PROVE  Off(Places(args), lo, hi)
BY DEF Clear, Off, Places

LEMMA ClearNothing == \A lo, hi : Clear(<< >>, lo, hi)
BY DEF Clear

(* A register's field of which no operand and no fixed bit is part.        *)
LEMMA ZeroField ==
  ASSUME NEW w \in Word, NEW S, NEW ones, Unplaced(w, S, ones), NEW lo \in 0 .. 27,
         Off(S, lo, lo + 4), Off(ones, lo, lo + 4)
  PROVE  Bits(w, lo, 5) = 0
<1> DEFINE hi == lo + 4
<1>1. hi \in lo .. 31 /\ hi = lo + 5 - 1 /\ lo \in Nat /\ 5 \in 1 .. 20 /\ 0 \in Nat /\ 0 < 4096
  OBVIOUS
<1>2. Number(ones, lo, 5, 0)
  <2>1. ASSUME NEW k \in lo .. lo + 5 - 1
        PROVE  k \in ones <=> BitOf(0, k - lo) = 1
    <3>0. lo + 5 - 1 = lo + 4
      OBVIOUS
    <3>1. k \in lo .. lo + 4 /\ k - lo \in 0 .. 4
      BY <2>1, <3>0
    <3>2. \A j \in 0 .. 4 : BitOf(0, j) = 0
      <4>1. BitOf(0, 0) = 0 /\ BitOf(0, 1) = 0 /\ BitOf(0, 2) = 0 /\ BitOf(0, 3) = 0 /\ BitOf(0, 4) = 0
        BY DEF BitOf
      <4> QED
        BY <4>1
    <3>3. BitOf(0, k - lo) = 0
      BY <3>1, <3>2
    <3>4. k \notin ones
      BY <3>1 DEF Off
    <3> QED
      BY <3>3, <3>4
  <2> QED
    BY <2>1 DEF Number
<1>3. Off(S, lo, hi)
  OBVIOUS
<1> HIDE DEF hi
<1>4. Bits(w, lo, 5) = Bits(0, 0, 5)
  BY <1>1, <1>2, <1>3, NumberField
<1>5. Bits(0, 0, 5) = 0
  BY DEF Bits
<1> QED
  BY <1>4, <1>5

(* The entry e is that of an instruction without marks or further bits.    *)
IsInsn(e, name, opcode, f3, f7, args) ==
  /\ e.name = name /\ e.args = args /\ NoMarks(e) /\ e.fixed = Code(opcode, f3, f7)
  /\ opcode \in 0 .. 31 /\ f3 \in 0 .. 7 /\ f7 \in Nat /\ f7 < 128

LEMMA InsnFields ==
  ASSUME NEW w, NEW e, NEW marks, NEW v, Carries(w, e, marks, v),
         NEW name, NEW opcode, NEW f3, NEW f7, NEW args, IsInsn(e, name, opcode, f3, f7, args)
  PROVE  /\ Clear(args, 0, 6) => w % 4 = 3 /\ Bits(w, 2, 5) = opcode
         /\ Clear(args, 12, 14) => funct3(w) = f3
         /\ Clear(args, 25, 31) => funct7(w) = f7
         /\ Clear(args, 26, 31) => Bits(w, 26, 6) = f7 \div 2
         /\ Clear(args, 27, 31) => funct5(w) = f7 \div 4
         /\ Clear(args, 25, 26) => Bits(w, 25, 2) = f7 % 4
<1> DEFINE S == Places(args)
<1>1. e.args = args /\ NoMarks(e) /\ e.fixed = Code(opcode, f3, f7) \cup {}
      /\ opcode \in 0 .. 31 /\ f3 \in 0 .. 7 /\ f7 \in Nat /\ f7 < 128
  BY DEF IsInsn
<1>2. MarkBits(marks) = {}
  BY <1>1, Unmarked
<1>3. S = Places(e.args) \cup {} \cup MarkBits(marks)
  BY <1>1, <1>2
<1>4. FieldsFixed(w, S, opcode, f3, f7)
  BY <1>1, <1>3, CodeFields
<1>5. \A lo, hi : Clear(args, lo, hi) => Off(S, lo, hi)
  BY ClearPlaces
<1> QED
  BY <1>4, <1>5 DEF FieldsFixed

(* No opcode and no function is in the registers' fields.                 *)
LEMMA CodeOff ==
  ASSUME NEW opcode, NEW f3, NEW f7
  PROVE  /\ Off(Code(opcode, f3, f7), 7, 7 + 4)
         /\ Off(Code(opcode, f3, f7), 15, 15 + 4)
         /\ Off(Code(opcode, f3, f7), 20, 20 + 4)
<1>1. ASSUME NEW k \in Nat, k \in 7 .. 11 \cup 15 .. 24
      PROVE  k \notin Code(opcode, f3, f7)
  BY <1>1, InCode
<1> QED
  BY <1>1 DEF Off

LEMMA InsnZeros ==
  ASSUME NEW w, NEW e, NEW marks, NEW v, Carries(w, e, marks, v),
         NEW name, NEW opcode, NEW f3, NEW f7, NEW args, IsInsn(e, name, opcode, f3, f7, args)
  PROVE  /\ Clear(args, 7, 7 + 4) => operand_rd(w) = 0
         /\ Clear(args, 15, 15 + 4) => operand_rs1(w) = 0
         /\ Clear(args, 20, 20 + 4) => operand_rs2(w) = 0
<1> DEFINE S == Places(args)  ones == Code(opcode, f3, f7)
<1>1. e.args = args /\ NoMarks(e) /\ e.fixed = ones
  BY DEF IsInsn
<1>2. MarkBits(marks) = {}
  BY <1>1, Unmarked
<1>3. w \in Word /\ Unplaced(w, S, ones)
  BY <1>1, <1>2 DEF Carries, Exactly, Places, Unplaced
<1>4. \A lo, hi : Clear(args, lo, hi) => Off(S, lo, hi)
  BY ClearPlaces
<1>5. Off(ones, 7, 7 + 4) /\ Off(ones, 15, 15 + 4) /\ Off(ones, 20, 20 + 4)
  BY CodeOff
<1> HIDE DEF S, ones
<1>6. ASSUME Clear(args, 7, 7 + 4)
      PROVE  operand_rd(w) = 0
  <2>1. Off(S, 7, 7 + 4)
    BY <1>4, <1>6
  <2>2. Bits(w, 7, 5) = 0
    BY <1>3, <1>5, <2>1, ZeroField
  <2> QED
    BY <2>2 DEF operand_rd
<1>7. ASSUME Clear(args, 15, 15 + 4)
      PROVE  operand_rs1(w) = 0
  <2>1. Off(S, 15, 15 + 4)
    BY <1>4, <1>7
  <2>2. Bits(w, 15, 5) = 0
    BY <1>3, <1>5, <2>1, ZeroField
  <2> QED
    BY <2>2 DEF operand_rs1
<1>8. ASSUME Clear(args, 20, 20 + 4)
      PROVE  operand_rs2(w) = 0
  <2>1. Off(S, 20, 20 + 4)
    BY <1>4, <1>8
  <2>2. Bits(w, 20, 5) = 0
    BY <1>3, <1>5, <2>1, ZeroField
  <2> QED
    BY <2>2 DEF operand_rs2
<1> QED
  BY <1>6, <1>7, <1>8

(* The word of an instruction e that shares its opcode with others.        *)
Funct3Of(w, e, opcode, f3, f7, args) ==
  /\ e.args = args /\ NoMarks(e) /\ w % 4 = 3 /\ Bits(w, 2, 5) = opcode /\ funct3(w) = f3
  /\ Clear(args, 25, 31) => funct7(w) = f7
  /\ Clear(args, 26, 31) => Bits(w, 26, 6) = f7 \div 2
  /\ Clear(args, 27, 31) => funct5(w) = f7 \div 4

LEMMA ByFunct3Decoded ==
  ASSUME NEW w, NEW e, NEW marks, NEW v, Carries(w, e, marks, v),
         NEW opcode \in 0 .. 31, NEW args, NEW T, e \in ByFunct3(opcode, args, T),
         \A t \in T : t[2] \in 0 .. 7, Clear(args, 0, 6), Clear(args, 12, 14)
  PROVE  \E t \in T : e.name = <<t[1]>> /\ Funct3Of(w, e, opcode, t[2], 0, args)
<1>1. PICK t \in T : e = Insn(<<t[1]>>, Code(opcode, t[2], 0), args)
  BY DEF ByFunct3
<1>2. t[2] \in 0 .. 7 /\ 0 \in Nat /\ 0 < 128
  BY <1>1
<1>3. IsInsn(e, <<t[1]>>, opcode, t[2], 0, args)
  BY <1>1, <1>2 DEF IsInsn, Insn, NoMarks
<1>4. e.name = <<t[1]>> /\ e.args = args /\ NoMarks(e)
  BY <1>3 DEF IsInsn
<1>5. /\ w % 4 = 3 /\ Bits(w, 2, 5) = opcode /\ funct3(w) = t[2]
      /\ Clear(args, 25, 31) => funct7(w) = 0
      /\ Clear(args, 26, 31) => Bits(w, 26, 6) = 0 \div 2
      /\ Clear(args, 27, 31) => funct5(w) = 0 \div 4
  BY <1>3, InsnFields
<1> QED
  BY <1>4, <1>5 DEF Funct3Of

LEMMA ByFunct7Decoded ==
  ASSUME NEW w, NEW e, NEW marks, NEW v, Carries(w, e, marks, v),
         NEW opcode \in 0 .. 31, NEW args, NEW T, e \in ByFunct7(opcode, args, T),
         \A t \in T : t[2] \in 0 .. 7 /\ t[3] \in 0 .. 127, Clear(args, 0, 6), Clear(args, 12, 14)
  PROVE  \E t \in T : e.name = <<t[1]>> /\ Funct3Of(w, e, opcode, t[2], t[3], args)
<1>1. PICK t \in T : e = Insn(<<t[1]>>, Code(opcode, t[2], t[3]), args)
  BY DEF ByFunct7
<1>2. t[2] \in 0 .. 7 /\ t[3] \in Nat /\ t[3] < 128
  BY <1>1
<1>3. IsInsn(e, <<t[1]>>, opcode, t[2], t[3], args)
  BY <1>1, <1>2 DEF IsInsn, Insn, NoMarks
<1>4. e.name = <<t[1]>> /\ e.args = args /\ NoMarks(e)
  BY <1>3 DEF IsInsn
<1>5. /\ w % 4 = 3 /\ Bits(w, 2, 5) = opcode /\ funct3(w) = t[2]
      /\ Clear(args, 25, 31) => funct7(w) = t[3]
      /\ Clear(args, 26, 31) => Bits(w, 26, 6) = t[3] \div 2
      /\ Clear(args, 27, 31) => funct5(w) = t[3] \div 4
  BY <1>3, InsnFields
<1> QED
  BY <1>4, <1>5 DEF Funct3Of

(* The functions are free of these operands' bits.                         *)
LEMMA OpcodeFree ==
  /\ Off(Span(Rd.layout), 0, 6) /\ Off(Span(Rs1.layout), 0, 6) /\ Off(Span(Rs2.layout), 0, 6)
  /\ Off(Span(Fd.layout), 0, 6) /\ Off(Span(Fs1.layout), 0, 6) /\ Off(Span(Fs2.layout), 0, 6)
  /\ Off(Span(Fs3.layout), 0, 6) /\ Off(Span(Rm.layout), 0, 6) /\ Off(Span(Csr.layout), 0, 6)
  /\ Off(Span(Zimm.layout), 0, 6) /\ Off(Span(Pred.layout), 0, 6) /\ Off(Span(Succ.layout), 0, 6)
  /\ Off(Span(Sh(5).layout), 0, 6) /\ Off(Span(Sh(6).layout), 0, 6)
  /\ Off(Span(ImmI.layout), 0, 6) /\ Off(Span(ImmU.layout), 0, 6) /\ Off(Span(ImmS.layout), 0, 6)
  /\ Off(Span(ImmB.layout), 0, 6) /\ Off(Span(ImmJ.layout), 0, 6)
BY WideSpans DEF Off

LEMMA Funct3Free ==
  /\ Off(Span(Rd.layout), 12, 14) /\ Off(Span(Rs1.layout), 12, 14) /\ Off(Span(Rs2.layout), 12, 14)
  /\ Off(Span(Fd.layout), 12, 14) /\ Off(Span(Fs1.layout), 12, 14) /\ Off(Span(Fs2.layout), 12, 14)
  /\ Off(Span(Csr.layout), 12, 14) /\ Off(Span(Zimm.layout), 12, 14)
  /\ Off(Span(Pred.layout), 12, 14) /\ Off(Span(Succ.layout), 12, 14)
  /\ Off(Span(Sh(5).layout), 12, 14) /\ Off(Span(Sh(6).layout), 12, 14)
  /\ Off(Span(ImmI.layout), 12, 14) /\ Off(Span(ImmS.layout), 12, 14) /\ Off(Span(ImmB.layout), 12, 14)
BY WideSpans DEF Off

LEMMA Funct7Free ==
  /\ Off(Span(Rd.layout), 25, 31) /\ Off(Span(Rs1.layout), 25, 31) /\ Off(Span(Rs2.layout), 25, 31)
  /\ Off(Span(Fd.layout), 25, 31) /\ Off(Span(Fs1.layout), 25, 31) /\ Off(Span(Fs2.layout), 25, 31)
  /\ Off(Span(Rm.layout), 25, 31) /\ Off(Span(Sh(5).layout), 25, 31)
BY WideSpans DEF Off

-----------------------------------------------------------------------------
(* The op has a row with this type and format.                             *)
InRow(op, type, format) ==
  op \in rv_op /\ opcode_data[op].type = type /\ opcode_data[op].format = format

LEMMA RowOfName ==
  ASSUME NEW type, NEW format, NEW ops, Row(type, format, ops) \in Rows
  PROVE  /\ \A l : <<l>> \in ops => InRow(<<l>>, type, format)
         /\ \A l, m : <<l, m>> \in ops => InRow(<<l, m>>, type, format)
         /\ \A l, m, n : <<l, m, n>> \in ops => InRow(<<l, m, n>>, type, format)
<1> DEFINE row == Row(type, format, ops)
<1>1. row.type = type /\ row.format = format /\ row.ops = ops /\ row \in Rows
  BY DEF Row
<1> HIDE DEF row
<1>2. ASSUME NEW l, <<l>> \in ops
      PROVE  InRow(<<l>>, type, format)
  BY <1>1, <1>2, RowTaken DEF InRow
<1>3. ASSUME NEW l, NEW m, <<l, m>> \in ops
      PROVE  InRow(<<l, m>>, type, format)
  BY <1>1, <1>3, RowTaken DEF InRow
<1>4. ASSUME NEW l, NEW m, NEW n, <<l, m, n>> \in ops
      PROVE  InRow(<<l, m, n>>, type, format)
  BY <1>1, <1>4, RowTaken DEF InRow
<1> QED
  BY <1>2, <1>3, <1>4

(* The switches find the entry's op, and its row.                          *)
Decodes(w, isa, e, type, format) ==
  rv_inst_opcode(w, isa) = e.name /\ InRow(e.name, type, format)

LEMMA ShiftFree ==
  /\ Off(Span(Rd.layout), 27, 31) /\ Off(Span(Rs1.layout), 27, 31) /\ Off(Span(Sh(6).layout), 27, 31)
  /\ Off(Span(Rd.layout), 26, 31) /\ Off(Span(Rs1.layout), 26, 31) /\ Off(Span(Sh(6).layout), 26, 31)
BY WideSpans DEF Off

LEMMA BranchesDecoded ==
  ASSUME NEW w, NEW isa, NEW marks, NEW v, NEW e \in Branches, Carries(w, e, marks, v)
  PROVE  /\ e.args = <<Rs1, Rs2, ImmB>> /\ NoMarks(e)
         /\ Decodes(w, isa, e, "sb", fmt_rs1_rs2_offset)
<1> DEFINE args == <<Rs1, Rs2, ImmB>>
           T == {<<"beq", 0>>, <<"bne", 1>>, <<"blt", 4>>, <<"bge", 5>>, <<"bltu", 6>>,
                  <<"bgeu", 7>>}
           names == Plain({"beq", "bne", "blt", "bge", "bltu", "bgeu"})
<1>1. \A t \in T : t[2] \in 0 .. 7
  OBVIOUS
<1>2. \A t \in T : Case(<<"beq", "bne", "-", "-", "blt", "bge", "bltu", "bgeu">>, t[2]) = <<t[1]>>
  BY DEF Case, When
<1>3. \A t \in T : <<t[1]>> \in names
  BY DEF Plain
<1>4. Row("sb", fmt_rs1_rs2_offset, names) \in Rows
  BY DEF Rows, BaseRows
<1>5. Clear(args, 0, 6) /\ Clear(args, 12, 14)
  BY OpcodeFree, Funct3Free, Funct7Free DEF Clear
<1>6. e \in ByFunct3(24, args, T)
  BY DEF Branches
<1> HIDE DEF args, T, names
<1>7. PICK t \in T : e.name = <<t[1]>> /\ Funct3Of(w, e, 24, t[2], 0, args)
  BY <1>1, <1>5, <1>6, ByFunct3Decoded
<1>8. e.args = args /\ NoMarks(e)
  BY <1>7 DEF Funct3Of
<1>9. rv_inst_opcode(w, isa) = <<t[1]>>
  BY <1>2, <1>5, <1>7 DEF rv_inst_opcode, Quadrant3, Funct3Of
<1>10. InRow(e.name, "sb", fmt_rs1_rs2_offset)
  BY <1>3, <1>4, <1>7, RowOfName
<1> QED
  BY <1>7, <1>8, <1>9, <1>10 DEF Decodes, args

LEMMA LoadsDecoded ==
  ASSUME NEW w, NEW isa, NEW marks, NEW v, NEW e \in Loads, Carries(w, e, marks, v)
  PROVE  /\ e.args = <<Rd, ImmI, Rs1>> /\ NoMarks(e)
         /\ Decodes(w, isa, e, "i", fmt_rd_offset_rs1)
<1> DEFINE args == <<Rd, ImmI, Rs1>>
           T == {<<"lb", 0>>, <<"lh", 1>>, <<"lw", 2>>, <<"ld", 3>>, <<"lbu", 4>>, <<"lhu",
                  5>>, <<"lwu", 6>>, <<"ldu", 7>>}
           names == Plain({"lb", "lh", "lw", "lbu", "lhu", "lwu", "ld", "ldu", "lq"})
<1>1. \A t \in T : t[2] \in 0 .. 7
  OBVIOUS
<1>2. \A t \in T : Case(<<"lb", "lh", "lw", "ld", "lbu", "lhu", "lwu", "ldu">>, t[2]) = <<t[1]>>
  BY DEF Case, When
<1>3. \A t \in T : <<t[1]>> \in names
  BY DEF Plain
<1>4. Row("i", fmt_rd_offset_rs1, names) \in Rows
  BY DEF Rows, BaseRows
<1>5. Clear(args, 0, 6) /\ Clear(args, 12, 14)
  BY OpcodeFree, Funct3Free, Funct7Free DEF Clear
<1>6. e \in ByFunct3(0, args, T)
  BY DEF Loads
<1> HIDE DEF args, T, names
<1>7. PICK t \in T : e.name = <<t[1]>> /\ Funct3Of(w, e, 0, t[2], 0, args)
  BY <1>1, <1>5, <1>6, ByFunct3Decoded
<1>8. e.args = args /\ NoMarks(e)
  BY <1>7 DEF Funct3Of
<1>9. rv_inst_opcode(w, isa) = <<t[1]>>
  BY <1>2, <1>5, <1>7 DEF rv_inst_opcode, Quadrant3, Funct3Of
<1>10. InRow(e.name, "i", fmt_rd_offset_rs1)
  BY <1>3, <1>4, <1>7, RowOfName
<1> QED
  BY <1>7, <1>8, <1>9, <1>10 DEF Decodes, args

LEMMA LoadQuadDecoded ==
  ASSUME NEW w, NEW isa, NEW marks, NEW v, NEW e \in LoadQuad, Carries(w, e, marks, v)
  PROVE  /\ e.args = <<Rd, ImmI, Rs1>> /\ NoMarks(e)
         /\ Decodes(w, isa, e, "i", fmt_rd_offset_rs1)
<1> DEFINE args == <<Rd, ImmI, Rs1>>
           T == {<<"lq", 2>>}
           names == Plain({"lb", "lh", "lw", "lbu", "lhu", "lwu", "ld", "ldu", "lq"})
<1>1. \A t \in T : t[2] \in 0 .. 7
  OBVIOUS
<1>2. \A t \in T : t[2] # 1 /\ Case(<<"fence", "-", "lq">>, t[2]) = <<t[1]>>
  BY DEF Case, When
<1>3. \A t \in T : <<t[1]>> \in names
  BY DEF Plain
<1>4. Row("i", fmt_rd_offset_rs1, names) \in Rows
  BY DEF Rows, BaseRows
<1>5. Clear(args, 0, 6) /\ Clear(args, 12, 14)
  BY OpcodeFree, Funct3Free, Funct7Free DEF Clear
<1>6. e \in ByFunct3(3, args, T)
  BY DEF LoadQuad
<1> HIDE DEF args, T, names
<1>7. PICK t \in T : e.name = <<t[1]>> /\ Funct3Of(w, e, 3, t[2], 0, args)
  BY <1>1, <1>5, <1>6, ByFunct3Decoded
<1>8. e.args = args /\ NoMarks(e)
  BY <1>7 DEF Funct3Of
<1>9. rv_inst_opcode(w, isa) = <<t[1]>>
  BY <1>2, <1>5, <1>7 DEF rv_inst_opcode, Quadrant3, Funct3Of, MiscMem
<1>10. InRow(e.name, "i", fmt_rd_offset_rs1)
  BY <1>3, <1>4, <1>7, RowOfName
<1> QED
  BY <1>7, <1>8, <1>9, <1>10 DEF Decodes, args

LEMMA StoresDecoded ==
  ASSUME NEW w, NEW isa, NEW marks, NEW v, NEW e \in Stores, Carries(w, e, marks, v)
  PROVE  /\ e.args = <<Rs2, ImmS, Rs1>> /\ NoMarks(e)
         /\ Decodes(w, isa, e, "s", fmt_rs2_offset_rs1)
<1> DEFINE args == <<Rs2, ImmS, Rs1>>
           T == {<<"sb", 0>>, <<"sh", 1>>, <<"sw", 2>>, <<"sd", 3>>, <<"sq", 4>>}
           names == Plain({"sb", "sh", "sw", "sd", "sq"})
<1>1. \A t \in T : t[2] \in 0 .. 7
  OBVIOUS
<1>2. \A t \in T : Case(<<"sb", "sh", "sw", "sd", "sq">>, t[2]) = <<t[1]>>
  BY DEF Case, When
<1>3. \A t \in T : <<t[1]>> \in names
  BY DEF Plain
<1>4. Row("s", fmt_rs2_offset_rs1, names) \in Rows
  BY DEF Rows, BaseRows
<1>5. Clear(args, 0, 6) /\ Clear(args, 12, 14)
  BY OpcodeFree, Funct3Free, Funct7Free DEF Clear
<1>6. e \in ByFunct3(8, args, T)
  BY DEF Stores
<1> HIDE DEF args, T, names
<1>7. PICK t \in T : e.name = <<t[1]>> /\ Funct3Of(w, e, 8, t[2], 0, args)
  BY <1>1, <1>5, <1>6, ByFunct3Decoded
<1>8. e.args = args /\ NoMarks(e)
  BY <1>7 DEF Funct3Of
<1>9. rv_inst_opcode(w, isa) = <<t[1]>>
  BY <1>2, <1>5, <1>7 DEF rv_inst_opcode, Quadrant3, Funct3Of
<1>10. InRow(e.name, "s", fmt_rs2_offset_rs1)
  BY <1>3, <1>4, <1>7, RowOfName
<1> QED
  BY <1>7, <1>8, <1>9, <1>10 DEF Decodes, args

LEMMA FloatLoadsDecoded ==
  ASSUME NEW w, NEW isa, NEW marks, NEW v, NEW e \in FloatLoads, Carries(w, e, marks, v)
  PROVE  /\ e.args = <<Fd, ImmI, Rs1>> /\ NoMarks(e)
         /\ Decodes(w, isa, e, "i", fmt_frd_offset_rs1)
<1> DEFINE args == <<Fd, ImmI, Rs1>>
           T == {<<"flw", 2>>, <<"fld", 3>>, <<"flq", 4>>}
           names == Plain({"flw", "fld", "flq"})
<1>1. \A t \in T : t[2] \in 0 .. 7
  OBVIOUS
<1>2. \A t \in T : Case(<<"-", "-", "flw", "fld", "flq">>, t[2]) = <<t[1]>>
  BY DEF Case, When
<1>3. \A t \in T : <<t[1]>> \in names
  BY DEF Plain
<1>4. Row("i", fmt_frd_offset_rs1, names) \in Rows
  BY DEF Rows, FloatRows
<1>5. Clear(args, 0, 6) /\ Clear(args, 12, 14)
  BY OpcodeFree, Funct3Free, Funct7Free DEF Clear
<1>6. e \in ByFunct3(1, args, T)
  BY DEF FloatLoads
<1> HIDE DEF args, T, names
<1>7. PICK t \in T : e.name = <<t[1]>> /\ Funct3Of(w, e, 1, t[2], 0, args)
  BY <1>1, <1>5, <1>6, ByFunct3Decoded
<1>8. e.args = args /\ NoMarks(e)
  BY <1>7 DEF Funct3Of
<1>9. rv_inst_opcode(w, isa) = <<t[1]>>
  BY <1>2, <1>5, <1>7 DEF rv_inst_opcode, Quadrant3, Funct3Of
<1>10. InRow(e.name, "i", fmt_frd_offset_rs1)
  BY <1>3, <1>4, <1>7, RowOfName
<1> QED
  BY <1>7, <1>8, <1>9, <1>10 DEF Decodes, args

LEMMA FloatStoresDecoded ==
  ASSUME NEW w, NEW isa, NEW marks, NEW v, NEW e \in FloatStores, Carries(w, e, marks, v)
  PROVE  /\ e.args = <<Fs2, ImmS, Rs1>> /\ NoMarks(e)
         /\ Decodes(w, isa, e, "s", fmt_frs2_offset_rs1)
<1> DEFINE args == <<Fs2, ImmS, Rs1>>
           T == {<<"fsw", 2>>, <<"fsd", 3>>, <<"fsq", 4>>}
           names == Plain({"fsw", "fsd", "fsq"})
<1>1. \A t \in T : t[2] \in 0 .. 7
  OBVIOUS
<1>2. \A t \in T : Case(<<"-", "-", "fsw", "fsd", "fsq">>, t[2]) = <<t[1]>>
  BY DEF Case, When
<1>3. \A t \in T : <<t[1]>> \in names
  BY DEF Plain
<1>4. Row("s", fmt_frs2_offset_rs1, names) \in Rows
  BY DEF Rows, FloatRows
<1>5. Clear(args, 0, 6) /\ Clear(args, 12, 14)
  BY OpcodeFree, Funct3Free, Funct7Free DEF Clear
<1>6. e \in ByFunct3(9, args, T)
  BY DEF FloatStores
<1> HIDE DEF args, T, names
<1>7. PICK t \in T : e.name = <<t[1]>> /\ Funct3Of(w, e, 9, t[2], 0, args)
  BY <1>1, <1>5, <1>6, ByFunct3Decoded
<1>8. e.args = args /\ NoMarks(e)
  BY <1>7 DEF Funct3Of
<1>9. rv_inst_opcode(w, isa) = <<t[1]>>
  BY <1>2, <1>5, <1>7 DEF rv_inst_opcode, Quadrant3, Funct3Of
<1>10. InRow(e.name, "s", fmt_frs2_offset_rs1)
  BY <1>3, <1>4, <1>7, RowOfName
<1> QED
  BY <1>7, <1>8, <1>9, <1>10 DEF Decodes, args

LEMMA ImmediatesDecoded ==
  ASSUME NEW w, NEW isa, NEW marks, NEW v, NEW e \in Immediates, Carries(w, e, marks, v)
  PROVE  /\ e.args = <<Rd, Rs1, ImmI>> /\ NoMarks(e)
         /\ Decodes(w, isa, e, "i", fmt_rd_rs1_imm)
<1> DEFINE args == <<Rd, Rs1, ImmI>>
           T == {<<"addi", 0>>, <<"slti", 2>>, <<"sltiu", 3>>, <<"xori", 4>>, <<"ori", 6>>,
                  <<"andi", 7>>}
           names == Plain({"addi", "slti", "sltiu", "xori", "ori", "andi", "addiw", "addid"})
<1>1. \A t \in T : t[2] \in 0 .. 7
  OBVIOUS
<1>2. \A t \in T : t[2] \notin {1, 5} /\ Case(<<"addi", "-", "slti", "sltiu", "xori", "-", "ori", "andi">>, t[2]) = <<t[1]>>
  BY DEF Case, When
<1>3. \A t \in T : <<t[1]>> \in names
  BY DEF Plain
<1>4. Row("i", fmt_rd_rs1_imm, names) \in Rows
  BY DEF Rows, BaseRows
<1>5. Clear(args, 0, 6) /\ Clear(args, 12, 14)
  BY OpcodeFree, Funct3Free, Funct7Free DEF Clear
<1>6. e \in ByFunct3(4, args, T)
  BY DEF Immediates
<1> HIDE DEF args, T, names
<1>7. PICK t \in T : e.name = <<t[1]>> /\ Funct3Of(w, e, 4, t[2], 0, args)
  BY <1>1, <1>5, <1>6, ByFunct3Decoded
<1>8. e.args = args /\ NoMarks(e)
  BY <1>7 DEF Funct3Of
<1>9. rv_inst_opcode(w, isa) = <<t[1]>>
  BY <1>2, <1>5, <1>7 DEF rv_inst_opcode, Quadrant3, Funct3Of, OpImm
<1>10. InRow(e.name, "i", fmt_rd_rs1_imm)
  BY <1>3, <1>4, <1>7, RowOfName
<1> QED
  BY <1>7, <1>8, <1>9, <1>10 DEF Decodes, args

LEMMA Immediates32Decoded ==
  ASSUME NEW w, NEW isa, NEW marks, NEW v, NEW e \in Immediates32, Carries(w, e, marks, v)
  PROVE  /\ e.args = <<Rd, Rs1, ImmI>> /\ NoMarks(e)
         /\ Decodes(w, isa, e, "i", fmt_rd_rs1_imm)
<1> DEFINE args == <<Rd, Rs1, ImmI>>
           T == {<<"addiw", 0>>}
           names == Plain({"addi", "slti", "sltiu", "xori", "ori", "andi", "addiw", "addid"})
<1>1. \A t \in T : t[2] \in 0 .. 7
  OBVIOUS
<1>2. \A t \in T : t = <<"addiw", 0>>
  BY DEF Case, When
<1>3. \A t \in T : <<t[1]>> \in names
  BY DEF Plain
<1>4. Row("i", fmt_rd_rs1_imm, names) \in Rows
  BY DEF Rows, BaseRows
<1>5. Clear(args, 0, 6) /\ Clear(args, 12, 14)
  BY OpcodeFree, Funct3Free, Funct7Free DEF Clear
<1>6. e \in ByFunct3(6, args, T)
  BY DEF Immediates32
<1> HIDE DEF args, T, names
<1>7. PICK t \in T : e.name = <<t[1]>> /\ Funct3Of(w, e, 6, t[2], 0, args)
  BY <1>1, <1>5, <1>6, ByFunct3Decoded
<1>8. e.args = args /\ NoMarks(e)
  BY <1>7 DEF Funct3Of
<1>9. rv_inst_opcode(w, isa) = <<t[1]>>
  BY <1>2, <1>5, <1>7 DEF rv_inst_opcode, Quadrant3, Funct3Of, OpImm32
<1>10. InRow(e.name, "i", fmt_rd_rs1_imm)
  BY <1>3, <1>4, <1>7, RowOfName
<1> QED
  BY <1>7, <1>8, <1>9, <1>10 DEF Decodes, args

LEMMA Immediates64Decoded ==
  ASSUME NEW w, NEW isa, NEW marks, NEW v, NEW e \in Immediates64, Carries(w, e, marks, v)
  PROVE  /\ e.args = <<Rd, Rs1, ImmI>> /\ NoMarks(e)
         /\ Decodes(w, isa, e, "i", fmt_rd_rs1_imm)
<1> DEFINE args == <<Rd, Rs1, ImmI>>
           T == {<<"addid", 0>>}
           names == Plain({"addi", "slti", "sltiu", "xori", "ori", "andi", "addiw", "addid"})
<1>1. \A t \in T : t[2] \in 0 .. 7
  OBVIOUS
<1>2. \A t \in T : t = <<"addid", 0>>
  BY DEF Case, When
<1>3. \A t \in T : <<t[1]>> \in names
  BY DEF Plain
<1>4. Row("i", fmt_rd_rs1_imm, names) \in Rows
  BY DEF Rows, BaseRows
<1>5. Clear(args, 0, 6) /\ Clear(args, 12, 14)
  BY OpcodeFree, Funct3Free, Funct7Free DEF Clear
<1>6. e \in ByFunct3(22, args, T)
  BY DEF Immediates64
<1> HIDE DEF args, T, names
<1>7. PICK t \in T : e.name = <<t[1]>> /\ Funct3Of(w, e, 22, t[2], 0, args)
  BY <1>1, <1>5, <1>6, ByFunct3Decoded
<1>8. e.args = args /\ NoMarks(e)
  BY <1>7 DEF Funct3Of
<1>9. rv_inst_opcode(w, isa) = <<t[1]>>
  BY <1>2, <1>5, <1>7 DEF rv_inst_opcode, Quadrant3, Funct3Of, OpImm64
<1>10. InRow(e.name, "i", fmt_rd_rs1_imm)
  BY <1>3, <1>4, <1>7, RowOfName
<1> QED
  BY <1>7, <1>8, <1>9, <1>10 DEF Decodes, args

LEMMA ShiftsDecoded ==
  ASSUME NEW w, NEW isa, NEW marks, NEW v, NEW e \in Shifts, Carries(w, e, marks, v)
  PROVE  /\ e.args = <<Rd, Rs1, Sh(6)>> /\ NoMarks(e) /\ Bits(w, 26, 6) \in {0, 16}
         /\ Decodes(w, isa, e, "i_sh7", fmt_rd_rs1_imm)
<1> DEFINE args == <<Rd, Rs1, Sh(6)>>
           T == {<<"slli", 1, 0>>, <<"srli", 5, 0>>, <<"srai", 5, 32>>}
           names == Plain({"slli", "srli", "srai"})
<1>1. \A t \in T : t[2] \in 0 .. 7 /\ t[3] \in 0 .. 127
  OBVIOUS
<1>2. \A t \in T : \/ t[2] = 1 /\ t[1] = "slli" /\ t[3] = 0
                   \/ t[2] = 5 /\ Case(<<"srli", "-", "-", "-", "-", "-", "-", "-", "srai">>, t[3] \div 4) = <<t[1]>>
  BY DEF Case, When
<1>3. \A t \in T : <<t[1]>> \in names
  BY DEF Plain
<1>4. Row("i_sh7", fmt_rd_rs1_imm, names) \in Rows
  BY DEF Rows, BaseRows
<1>5. Clear(args, 0, 6) /\ Clear(args, 12, 14) /\ Clear(args, 27, 31)
      /\ Clear(args, 26, 31)
  BY OpcodeFree, Funct3Free, Funct7Free, ShiftFree DEF Clear
<1>6. e \in ByFunct7(4, args, T)
  BY DEF Shifts
<1> HIDE DEF args, T, names
<1>7. PICK t \in T : e.name = <<t[1]>> /\ Funct3Of(w, e, 4, t[2], t[3], args)
  BY <1>1, <1>5, <1>6, ByFunct7Decoded
<1>8. e.args = args /\ NoMarks(e)
  BY <1>7 DEF Funct3Of
<1>9. rv_inst_opcode(w, isa) = <<t[1]>>
  BY <1>2, <1>5, <1>7 DEF rv_inst_opcode, Quadrant3, Funct3Of, OpImm, When
<1>10. InRow(e.name, "i_sh7", fmt_rd_rs1_imm)
  BY <1>3, <1>4, <1>7, RowOfName
<1>11. Bits(w, 26, 6) \in {0, 16}
  <2>1. \A x \in T : x[3] \div 2 \in {0, 16}
    BY DEF T
  <2> QED
    BY <1>5, <1>7, <2>1 DEF Funct3Of
<1> QED
  BY <1>7, <1>8, <1>9, <1>10, <1>11 DEF Decodes, args

LEMMA Shifts32Decoded ==
  ASSUME NEW w, NEW isa, NEW marks, NEW v, NEW e \in Shifts32, Carries(w, e, marks, v)
  PROVE  /\ e.args = <<Rd, Rs1, Sh(5)>> /\ NoMarks(e)
         /\ Decodes(w, isa, e, "i_sh5", fmt_rd_rs1_imm)
<1> DEFINE args == <<Rd, Rs1, Sh(5)>>
           T == {<<"slliw", 1, 0>>, <<"srliw", 5, 0>>, <<"sraiw", 5, 32>>}
           names == Plain({"slliw", "srliw", "sraiw"})
<1>1. \A t \in T : t[2] \in 0 .. 7 /\ t[3] \in 0 .. 127
  OBVIOUS
<1>2. \A t \in T : t \in {<<"slliw", 1, 0>>, <<"srliw", 5, 0>>, <<"sraiw", 5, 32>>}
  BY DEF Case, When
<1>3. \A t \in T : <<t[1]>> \in names
  BY DEF Plain
<1>4. Row("i_sh5", fmt_rd_rs1_imm, names) \in Rows
  BY DEF Rows, BaseRows
<1>5. Clear(args, 0, 6) /\ Clear(args, 12, 14) /\ Clear(args, 25, 31)
  BY OpcodeFree, Funct3Free, Funct7Free DEF Clear
<1>6. e \in ByFunct7(6, args, T)
  BY DEF Shifts32
<1> HIDE DEF args, T, names
<1>7. PICK t \in T : e.name = <<t[1]>> /\ Funct3Of(w, e, 6, t[2], t[3], args)
  BY <1>1, <1>5, <1>6, ByFunct7Decoded
<1>8. e.args = args /\ NoMarks(e)
  BY <1>7 DEF Funct3Of
<1>9. rv_inst_opcode(w, isa) = <<t[1]>>
  BY <1>2, <1>5, <1>7 DEF rv_inst_opcode, Quadrant3, Funct3Of, OpImm32, When
<1>10. InRow(e.name, "i_sh5", fmt_rd_rs1_imm)
  BY <1>3, <1>4, <1>7, RowOfName
<1> QED
  BY <1>7, <1>8, <1>9, <1>10 DEF Decodes, args

LEMMA Shifts64Decoded ==
  ASSUME NEW w, NEW isa, NEW marks, NEW v, NEW e \in Shifts64, Carries(w, e, marks, v)
  PROVE  /\ e.args = <<Rd, Rs1, Sh(6)>> /\ NoMarks(e)
         /\ Decodes(w, isa, e, "i_sh6", fmt_rd_rs1_imm)
<1> DEFINE args == <<Rd, Rs1, Sh(6)>>
           T == {<<"sllid", 1, 0>>, <<"srlid", 5, 0>>, <<"sraid", 5, 32>>}
           names == Plain({"sllid", "srlid", "sraid"})
<1>1. \A t \in T : t[2] \in 0 .. 7 /\ t[3] \in 0 .. 127
  OBVIOUS
<1>2. \A t \in T : t \in {<<"sllid", 1, 0>>, <<"srlid", 5, 0>>, <<"sraid", 5, 32>>}
  BY DEF Case, When
<1>3. \A t \in T : <<t[1]>> \in names
  BY DEF Plain
<1>4. Row("i_sh6", fmt_rd_rs1_imm, names) \in Rows
  BY DEF Rows, BaseRows
<1>5. Clear(args, 0, 6) /\ Clear(args, 12, 14) /\ Clear(args, 26, 31)
  BY OpcodeFree, Funct3Free, Funct7Free, ShiftFree DEF Clear
<1>6. e \in ByFunct7(22, args, T)
  BY DEF Shifts64
<1> HIDE DEF args, T, names
<1>7. PICK t \in T : e.name = <<t[1]>> /\ Funct3Of(w, e, 22, t[2], t[3], args)
  BY <1>1, <1>5, <1>6, ByFunct7Decoded
<1>8. e.args = args /\ NoMarks(e)
  BY <1>7 DEF Funct3Of
<1>9. rv_inst_opcode(w, isa) = <<t[1]>>
  BY <1>2, <1>5, <1>7 DEF rv_inst_opcode, Quadrant3, Funct3Of, OpImm64, When
<1>10. InRow(e.name, "i_sh6", fmt_rd_rs1_imm)
  BY <1>3, <1>4, <1>7, RowOfName
<1> QED
  BY <1>7, <1>8, <1>9, <1>10 DEF Decodes, args

LEMMA AluDecoded ==
  ASSUME NEW w, NEW isa, NEW marks, NEW v, NEW e \in Alu, Carries(w, e, marks, v)
  PROVE  /\ e.args = <<Rd, Rs1, Rs2>> /\ NoMarks(e)
         /\ Decodes(w, isa, e, "r", fmt_rd_rs1_rs2)
<1> DEFINE args == <<Rd, Rs1, Rs2>>
           T == {<<"add", 0, 0>>, <<"sub", 0, 32>>, <<"sll", 1, 0>>, <<"slt", 2, 0>>,
                  <<"sltu", 3, 0>>, <<"xor", 4, 0>>, <<"srl", 5, 0>>, <<"sra", 5, 32>>, <<"or",
                  6, 0>>, <<"and", 7, 0>>, <<"mul", 0, 1>>, <<"mulh", 1, 1>>, <<"mulhsu", 2,
                  1>>, <<"mulhu", 3, 1>>, <<"div", 4, 1>>, <<"divu", 5, 1>>, <<"rem", 6, 1>>,
                  <<"remu", 7, 1>>}
           names == Plain({"add", "sub", "sll", "slt", "sltu", "xor", "srl", "sra", "or", "and",
                    "addw", "subw", "sllw", "srlw", "sraw", "addd", "subd", "slld", "srld",
                    "srad", "mul", "mulh", "mulhsu", "mulhu", "div", "divu", "rem", "remu",
                    "mulw", "divw", "divuw", "remw", "remuw", "muld", "divd", "divud", "remd",
                    "remud"})
<1>1. \A t \in T : t[2] \in 0 .. 7 /\ t[3] \in 0 .. 127
  OBVIOUS
<1>2. \A t \in T : \/ t[3] = 0 /\ Case(<<"add", "sll", "slt", "sltu", "xor", "srl", "or", "and">>, t[2]) = <<t[1]>>
                   \/ t[3] = 1 /\ Case(<<"mul", "mulh", "mulhsu", "mulhu", "div", "divu", "rem", "remu">>, t[2]) = <<t[1]>>
                   \/ t[3] = 32 /\ Case(<<"sub", "-", "-", "-", "-", "sra">>, t[2]) = <<t[1]>>
  BY DEF Case, When
<1>3. \A t \in T : <<t[1]>> \in names
  BY DEF Plain
<1>4. Row("r", fmt_rd_rs1_rs2, names) \in Rows
  BY DEF Rows, BaseRows
<1>5. Clear(args, 0, 6) /\ Clear(args, 12, 14) /\ Clear(args, 25, 31)
  BY OpcodeFree, Funct3Free, Funct7Free DEF Clear
<1>6. e \in ByFunct7(12, args, T)
  BY DEF Alu
<1> HIDE DEF args, T, names
<1>7. PICK t \in T : e.name = <<t[1]>> /\ Funct3Of(w, e, 12, t[2], t[3], args)
  BY <1>1, <1>5, <1>6, ByFunct7Decoded
<1>8. e.args = args /\ NoMarks(e)
  BY <1>7 DEF Funct3Of
<1>9. rv_inst_opcode(w, isa) = <<t[1]>>
  BY <1>2, <1>5, <1>7 DEF rv_inst_opcode, Quadrant3, Funct3Of, Op, Arithmetic
<1>10. InRow(e.name, "r", fmt_rd_rs1_rs2)
  BY <1>3, <1>4, <1>7, RowOfName
<1> QED
  BY <1>7, <1>8, <1>9, <1>10 DEF Decodes, args

LEMMA Alu32Decoded ==
  ASSUME NEW w, NEW isa, NEW marks, NEW v, NEW e \in Alu32, Carries(w, e, marks, v)
  PROVE  /\ e.args = <<Rd, Rs1, Rs2>> /\ NoMarks(e)
         /\ Decodes(w, isa, e, "r", fmt_rd_rs1_rs2)
<1> DEFINE args == <<Rd, Rs1, Rs2>>
           T == {<<"addw", 0, 0>>, <<"subw", 0, 32>>, <<"sllw", 1, 0>>, <<"srlw", 5, 0>>,
                  <<"sraw", 5, 32>>, <<"mulw", 0, 1>>, <<"divw", 4, 1>>, <<"divuw", 5, 1>>,
                  <<"remw", 6, 1>>, <<"remuw", 7, 1>>}
           names == Plain({"add", "sub", "sll", "slt", "sltu", "xor", "srl", "sra", "or", "and",
                    "addw", "subw", "sllw", "srlw", "sraw", "addd", "subd", "slld", "srld",
                    "srad", "mul", "mulh", "mulhsu", "mulhu", "div", "divu", "rem", "remu",
                    "mulw", "divw", "divuw", "remw", "remuw", "muld", "divd", "divud", "remd",
                    "remud"})
<1>1. \A t \in T : t[2] \in 0 .. 7 /\ t[3] \in 0 .. 127
  OBVIOUS
<1>2. \A t \in T : \/ t[3] = 0 /\ Case(<<"addw", "sllw", "-", "-", "-", "srlw">>, t[2]) = <<t[1]>>
                   \/ t[3] = 1 /\ Case(<<"mulw", "-", "-", "-", "divw", "divuw", "remw", "remuw">>, t[2]) = <<t[1]>>
                   \/ t[3] = 32 /\ Case(<<"subw", "-", "-", "-", "-", "sraw">>, t[2]) = <<t[1]>>
  BY DEF Case, When
<1>3. \A t \in T : <<t[1]>> \in names
  BY DEF Plain
<1>4. Row("r", fmt_rd_rs1_rs2, names) \in Rows
  BY DEF Rows, BaseRows
<1>5. Clear(args, 0, 6) /\ Clear(args, 12, 14) /\ Clear(args, 25, 31)
  BY OpcodeFree, Funct3Free, Funct7Free DEF Clear
<1>6. e \in ByFunct7(14, args, T)
  BY DEF Alu32
<1> HIDE DEF args, T, names
<1>7. PICK t \in T : e.name = <<t[1]>> /\ Funct3Of(w, e, 14, t[2], t[3], args)
  BY <1>1, <1>5, <1>6, ByFunct7Decoded
<1>8. e.args = args /\ NoMarks(e)
  BY <1>7 DEF Funct3Of
<1>9. rv_inst_opcode(w, isa) = <<t[1]>>
  BY <1>2, <1>5, <1>7 DEF rv_inst_opcode, Quadrant3, Funct3Of, Op32, Arithmetic
<1>10. InRow(e.name, "r", fmt_rd_rs1_rs2)
  BY <1>3, <1>4, <1>7, RowOfName
<1> QED
  BY <1>7, <1>8, <1>9, <1>10 DEF Decodes, args

LEMMA Alu64Decoded ==
  ASSUME NEW w, NEW isa, NEW marks, NEW v, NEW e \in Alu64, Carries(w, e, marks, v)
  PROVE  /\ e.args = <<Rd, Rs1, Rs2>> /\ NoMarks(e)
         /\ Decodes(w, isa, e, "r", fmt_rd_rs1_rs2)
<1> DEFINE args == <<Rd, Rs1, Rs2>>
           T == {<<"addd", 0, 0>>, <<"subd", 0, 32>>, <<"slld", 1, 0>>, <<"srld", 5, 0>>,
                  <<"srad", 5, 32>>, <<"muld", 0, 1>>, <<"divd", 4, 1>>, <<"divud", 5, 1>>,
                  <<"remd", 6, 1>>, <<"remud", 7, 1>>}
           names == Plain({"add", "sub", "sll", "slt", "sltu", "xor", "srl", "sra", "or", "and",
                    "addw", "subw", "sllw", "srlw", "sraw", "addd", "subd", "slld", "srld",
                    "srad", "mul", "mulh", "mulhsu", "mulhu", "div", "divu", "rem", "remu",
                    "mulw", "divw", "divuw", "remw", "remuw", "muld", "divd", "divud", "remd",
                    "remud"})
<1>1. \A t \in T : t[2] \in 0 .. 7 /\ t[3] \in 0 .. 127
  OBVIOUS
<1>2. \A t \in T : \/ t[3] = 0 /\ Case(<<"addd", "slld", "-", "-", "-", "srld">>, t[2]) = <<t[1]>>
                   \/ t[3] = 1 /\ Case(<<"muld", "-", "-", "-", "divd", "divud", "remd", "remud">>, t[2]) = <<t[1]>>
                   \/ t[3] = 32 /\ Case(<<"subd", "-", "-", "-", "-", "srad">>, t[2]) = <<t[1]>>
  BY DEF Case, When
<1>3. \A t \in T : <<t[1]>> \in names
  BY DEF Plain
<1>4. Row("r", fmt_rd_rs1_rs2, names) \in Rows
  BY DEF Rows, BaseRows
<1>5. Clear(args, 0, 6) /\ Clear(args, 12, 14) /\ Clear(args, 25, 31)
  BY OpcodeFree, Funct3Free, Funct7Free DEF Clear
<1>6. e \in ByFunct7(30, args, T)
  BY DEF Alu64
<1> HIDE DEF args, T, names
<1>7. PICK t \in T : e.name = <<t[1]>> /\ Funct3Of(w, e, 30, t[2], t[3], args)
  BY <1>1, <1>5, <1>6, ByFunct7Decoded
<1>8. e.args = args /\ NoMarks(e)
  BY <1>7 DEF Funct3Of
<1>9. rv_inst_opcode(w, isa) = <<t[1]>>
  BY <1>2, <1>5, <1>7 DEF rv_inst_opcode, Quadrant3, Funct3Of, Op64, Arithmetic
<1>10. InRow(e.name, "r", fmt_rd_rs1_rs2)
  BY <1>3, <1>4, <1>7, RowOfName
<1> QED
  BY <1>7, <1>8, <1>9, <1>10 DEF Decodes, args

LEMMA CsrsDecoded ==
  ASSUME NEW w, NEW isa, NEW marks, NEW v, NEW e \in Csrs, Carries(w, e, marks, v)
  PROVE  /\ e.args = <<Rd, Csr, Rs1>> /\ NoMarks(e)
         /\ Decodes(w, isa, e, "i_csr", fmt_rd_csr_rs1)
<1> DEFINE args == <<Rd, Csr, Rs1>>
           T == {<<"csrrw", 1>>, <<"csrrs", 2>>, <<"csrrc", 3>>}
           names == Plain({"csrrw", "csrrs", "csrrc"})
<1>1. \A t \in T : t[2] \in 0 .. 7
  OBVIOUS
<1>2. \A t \in T : t[2] # 0 /\ Case(<<"-", "csrrw", "csrrs", "csrrc", "-", "csrrwi", "csrrsi", "csrrci">>, t[2]) = <<t[1]>>
  BY DEF Case, When
<1>3. \A t \in T : <<t[1]>> \in names
  BY DEF Plain
<1>4. Row("i_csr", fmt_rd_csr_rs1, names) \in Rows
  BY DEF Rows, SystemRows
<1>5. Clear(args, 0, 6) /\ Clear(args, 12, 14)
  BY OpcodeFree, Funct3Free, Funct7Free DEF Clear
<1>6. e \in ByFunct3(28, args, T)
  BY DEF Csrs
<1> HIDE DEF args, T, names
<1>7. PICK t \in T : e.name = <<t[1]>> /\ Funct3Of(w, e, 28, t[2], 0, args)
  BY <1>1, <1>5, <1>6, ByFunct3Decoded
<1>8. e.args = args /\ NoMarks(e)
  BY <1>7 DEF Funct3Of
<1>9. rv_inst_opcode(w, isa) = <<t[1]>>
  BY <1>2, <1>5, <1>7 DEF rv_inst_opcode, Quadrant3, Funct3Of, System
<1>10. InRow(e.name, "i_csr", fmt_rd_csr_rs1)
  BY <1>3, <1>4, <1>7, RowOfName
<1> QED
  BY <1>7, <1>8, <1>9, <1>10 DEF Decodes, args

LEMMA CsrImmediatesDecoded ==
  ASSUME NEW w, NEW isa, NEW marks, NEW v, NEW e \in CsrImmediates, Carries(w, e, marks, v)
  PROVE  /\ e.args = <<Rd, Csr, Zimm>> /\ NoMarks(e)
         /\ Decodes(w, isa, e, "i_csr", fmt_rd_csr_zimm)
<1> DEFINE args == <<Rd, Csr, Zimm>>
           T == {<<"csrrwi", 5>>, <<"csrrsi", 6>>, <<"csrrci", 7>>}
           names == Plain({"csrrwi", "csrrsi", "csrrci"})
<1>1. \A t \in T : t[2] \in 0 .. 7
  OBVIOUS
<1>2. \A t \in T : t[2] # 0 /\ Case(<<"-", "csrrw", "csrrs", "csrrc", "-", "csrrwi", "csrrsi", "csrrci">>, t[2]) = <<t[1]>>
  BY DEF Case, When
<1>3. \A t \in T : <<t[1]>> \in names
  BY DEF Plain
<1>4. Row("i_csr", fmt_rd_csr_zimm, names) \in Rows
  BY DEF Rows, SystemRows
<1>5. Clear(args, 0, 6) /\ Clear(args, 12, 14)
  BY OpcodeFree, Funct3Free, Funct7Free DEF Clear
<1>6. e \in ByFunct3(28, args, T)
  BY DEF CsrImmediates
<1> HIDE DEF args, T, names
<1>7. PICK t \in T : e.name = <<t[1]>> /\ Funct3Of(w, e, 28, t[2], 0, args)
  BY <1>1, <1>5, <1>6, ByFunct3Decoded
<1>8. e.args = args /\ NoMarks(e)
  BY <1>7 DEF Funct3Of
<1>9. rv_inst_opcode(w, isa) = <<t[1]>>
  BY <1>2, <1>5, <1>7 DEF rv_inst_opcode, Quadrant3, Funct3Of, System
<1>10. InRow(e.name, "i_csr", fmt_rd_csr_zimm)
  BY <1>3, <1>4, <1>7, RowOfName
<1> QED
  BY <1>7, <1>8, <1>9, <1>10 DEF Decodes, args
=============================================================================
