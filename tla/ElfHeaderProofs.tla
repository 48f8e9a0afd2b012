--------------------------- MODULE ElfHeaderProofs ---------------------------
(***************************************************************************)
(* What the stages after the ELF header rely on, for any file.             *)
(***************************************************************************)
EXTENDS ElfHeader, TLAPS

USE HeaderAssumption DEF HeaderAssumption

(* strcpy copies a byte with no NUL before it, and keeps the first NUL.    *)
LEMMA CopiedUpToNUL ==
  ASSUME NEW src \in [0 .. 15 -> Byte], NEW stale \in Byte, NEW k \in 0 .. 15,
         \A j \in 0 .. k - 1 : src[j] # 0
  PROVE  strcpy(src, stale)[k] = src[k]
BY DEF strcpy

(* The file's magic number is right.                                       *)
FileIsElf == \A k \in 0 .. 3 : file.ident[k] = ELFMAG[k + 1]

(* The copy is told to be an ELF identification just when the file's is,   *)
(* and has its class then: the magic number holds no NUL.                  *)
LEMMA CopyKeepsClass ==
  ASSUME NEW src \in [0 .. 15 -> Byte], NEW stale \in Byte
  PROVE  LET copy == strcpy(src, stale)
             Magic(b) == \A k \in 0 .. 3 : b[k] = ELFMAG[k + 1]
         IN  /\ Magic(copy) <=> Magic(src)
             /\ Magic(src) => copy[4] = src[4]
<1> DEFINE copy == strcpy(src, stale)
           Magic(b) == \A k \in 0 .. 3 : b[k] = ELFMAG[k + 1]
<1>1. \A b : Magic(b) <=> b[0] = 127 /\ b[1] = 69 /\ b[2] = 76 /\ b[3] = 70
  BY DEF ELFMAG
<1>2. copy[0] = src[0]
  BY CopiedUpToNUL
<1>3. src[0] # 0 => copy[1] = src[1]
  BY CopiedUpToNUL
<1>4. src[0] # 0 /\ src[1] # 0 => copy[2] = src[2]
  BY CopiedUpToNUL
<1>5. src[0] # 0 /\ src[1] # 0 /\ src[2] # 0 => copy[3] = src[3]
  BY CopiedUpToNUL
<1>6. src[0] # 0 /\ src[1] # 0 /\ src[2] # 0 /\ src[3] # 0 => copy[4] = src[4]
  BY CopiedUpToNUL
<1> HIDE DEF copy, Magic
<1>7. /\ Magic(copy) <=> Magic(src)
      /\ Magic(src) => copy[4] = src[4]
  BY <1>1, <1>2, <1>3, <1>4, <1>5, <1>6
<1> QED
  BY <1>7 DEF copy, Magic
-----------------------------------------------------------------------------
(* The steps before riscvLen is decided, and those after.                  *)
Early == {"read", "decode", "ident"}
Late  == {"type", "machine", "version", "entry", "phoff", "shoff", "flags", "ehsize", "phentsize",
          "phnum", "shentsize", "shnum", "shstrndx", "print", "returned", "aborted", "crashed"}

LEMMA RestIsLate == \A k \in 1 .. Len(Rest) - 1 : Rest[k] \in Late /\ Rest[k + 1] \in Late
<1>1. Len(Rest) = 11
  BY DEF Rest
<1> QED
  BY <1>1 DEF Rest, Late

(* How the class byte comes from the file to riscvLen.                     *)
ClassTravels ==
  /\ file \in FileSet /\ at \in Early \cup Late
  /\ at \in Early => riscvLen = 0
  /\ file.len >= 16 =>
       /\ at = "decode" => a_ehdr.ident = file.ident
       /\ at = "ident" => /\ MagicIsElf <=> FileIsElf
                          /\ FileIsElf => ehdr.ident[4] = file.ident[4]
       /\ at \in Late \ {"aborted", "crashed"} => riscvLen = FileClass

LEMMA FileHasBytes ==
  ASSUME NEW f \in FileSet
  PROVE  f.ident \in [0 .. 15 -> Byte] /\ f.len \in 0 .. 64
<1>1. f.ident \in Idents /\ f.len \in 0 .. 64
  BY DEF FileSet
<1> QED
  BY <1>1 DEF Idents

LEMMA InitClassTravels == Init => ClassTravels
BY DEF Init, ClassTravels, Early, Late

(* What is done to the class byte before riscvLen is set, and how it is.   *)
LEMMA ReadKeepsClass == ClassTravels /\ Read => ClassTravels'
<1> SUFFICES ASSUME ClassTravels, Read
             PROVE  ClassTravels'
  OBVIOUS
<1>1. file' = file /\ at' = "decode" /\ riscvLen' = 0
  BY DEF Read, ClassTravels, Early
<1>2. ASSUME file.len >= 16
      PROVE  a_ehdr'.ident = file.ident
  <2>1. PICK stale \in StaleBytes :
          a_ehdr' = [ident |-> [k \in 0 .. 15 |-> IF k < file.len THEN file.ident[k] ELSE stale],
                     half  |-> [o \in HalfAt |-> IF o + 2 <= file.len THEN file.half[o] ELSE 257 * stale]]
    BY DEF Read
  <2>2. a_ehdr'.ident = [k \in 0 .. 15 |-> IF k < file.len THEN file.ident[k] ELSE stale]
    BY <2>1
  <2>3. file.ident \in [0 .. 15 -> Byte] /\ file.len \in 0 .. 64
    BY FileHasBytes DEF ClassTravels
  <2> QED
    BY <2>2, <2>3, <1>2
<1> QED
  BY <1>1, <1>2 DEF ClassTravels, Early, Late

LEMMA DecodeKeepsClass == ClassTravels /\ Decode => ClassTravels'
<1> SUFFICES ASSUME ClassTravels, Decode
             PROVE  ClassTravels'
  OBVIOUS
<1>1. file' = file /\ at' = "ident" /\ riscvLen' = 0
  BY DEF Decode, ClassTravels, Early
<1>2. ASSUME file.len >= 16
      PROVE  (MagicIsElf' <=> FileIsElf) /\ (FileIsElf => ehdr'.ident[4] = file.ident[4])
  <2>1. a_ehdr.ident = file.ident /\ file.ident \in [0 .. 15 -> Byte]
    BY <1>2, FileHasBytes DEF Decode, ClassTravels
  <2>2. PICK stale \in StaleBytes :
          ehdr' = [ident |-> strcpy(a_ehdr.ident, stale), field |-> Fields(a_ehdr.half, Layout)]
    BY DEF Decode
  <2>3. ehdr'.ident = strcpy(file.ident, stale)
    BY <2>1, <2>2
  <2>4. stale \in Byte
    OBVIOUS
  <2> QED
    BY <2>1, <2>3, <2>4, CopyKeepsClass DEF MagicIsElf, FileIsElf
<1> QED
  BY <1>1, <1>2 DEF ClassTravels, Early, Late, FileIsElf

LEMMA IdentSetsLen == ClassTravels /\ (RefuseClass \/ RefuseForm \/ AcceptIdent) => ClassTravels'
<1> SUFFICES ASSUME ClassTravels, RefuseClass \/ RefuseForm \/ AcceptIdent
             PROVE  ClassTravels'
  OBVIOUS
<1>1. at = "ident" /\ file' = file /\ at' \in {"type", "aborted"} /\ riscvLen = 0
  BY DEF RefuseClass, RefuseForm, AcceptIdent, ClassTravels, Early
<1>2. riscvLen' = IF HasClass THEN ClassLen ELSE 0
  BY <1>1 DEF RefuseClass, RefuseForm, AcceptIdent, HasForm
<1>3. file.len >= 16 => riscvLen' = FileClass
  BY <1>1, <1>2 DEF ClassTravels, FileClass, FileIsElf, HasClass, ClassLen
<1> QED
  BY <1>1, <1>3 DEF ClassTravels, Early, Late, FileClass
(* The steps after: none touches riscvLen or goes back.                    *)
LEMMA LateKeepsClass ==
  ASSUME ClassTravels, at \in Late \ {"returned", "aborted", "crashed"},
         at' \in Late, riscvLen' = riscvLen, file' = file
  PROVE  ClassTravels'
BY DEF ClassTravels, Early, Late, FileClass

LEMMA LaterStep ==
  ASSUME Type \/ Machine \/ ObjectVersion \/ PrintHeader \/ (\E k \in 1 .. Len(Rest) - 1 : CopyField(k))
  PROVE  /\ at \in Late \ {"returned", "aborted", "crashed"} /\ at' \in Late
         /\ riscvLen' = riscvLen /\ file' = file
<1>1. CASE Type \/ Machine \/ ObjectVersion \/ PrintHeader
  BY <1>1 DEF Type, Machine, Check, ObjectVersion, PrintHeader, Late
<1>2. ASSUME NEW k \in 1 .. Len(Rest) - 1, CopyField(k)
      PROVE  /\ at \in Late \ {"returned", "aborted", "crashed"} /\ at' \in Late
             /\ riscvLen' = riscvLen /\ file' = file
  <2>1. at = Rest[k] /\ at' = Rest[k + 1] /\ riscvLen' = riscvLen /\ file' = file
    BY <1>2 DEF CopyField
  <2>2. Rest[k] \notin {"returned", "aborted", "crashed"}
    <3>1. Len(Rest) = 11
      BY DEF Rest
    <3> QED
      BY <3>1 DEF Rest
  <2> QED
    BY <2>1, <2>2, RestIsLate
<1> QED
  BY <1>1, <1>2

LEMMA ClassTravelsNext == ClassTravels /\ [Next]_vars => ClassTravels'
<1> SUFFICES ASSUME ClassTravels, [Next]_vars
             PROVE  ClassTravels'
  OBVIOUS
<1>1. CASE Read
  BY <1>1, ReadKeepsClass
<1>2. CASE Decode
  BY <1>2, DecodeKeepsClass
<1>3. CASE RefuseClass \/ RefuseForm \/ AcceptIdent
  BY <1>3, IdentSetsLen
<1>4. CASE NoFile \/ Overrun \/ PrintCrash
  BY <1>4 DEF NoFile, Overrun, PrintCrash, ClassTravels, Early, Late
<1>5. CASE Type \/ Machine \/ ObjectVersion \/ PrintHeader
            \/ (\E k \in 1 .. Len(Rest) - 1 : CopyField(k))
  BY <1>5, LaterStep, LateKeepsClass
<1>6. CASE UNCHANGED vars
  BY <1>6 DEF vars, ClassTravels, FileClass, FileIsElf, MagicIsElf
<1> QED
  BY <1>1, <1>2, <1>3, <1>4, <1>5, <1>6 DEF Next

(***************************************************************************)
(* riscvLen is that of the file's class whenever the stages after the      *)
(* header run, whatever the stack held: no stale byte decides how          *)
(* instructions are decoded.                                               *)
(***************************************************************************)
THEOREM LenIsThatOfClass == Spec => []LenMatchesClass
<1>1. ClassTravels => LenMatchesClass
  BY DEF ClassTravels, LenMatchesClass, Late
<1> QED
  BY <1>1, InitClassTravels, ClassTravelsNext, PTL DEF Spec
-----------------------------------------------------------------------------
(* A field of the file, by the layout of a 64-bit header.                  *)
FileField(f) == [k \in 1 .. Layout64[f][2] |-> file.half[Layout64[f][1] + 2 * (k - 1)]]

Leading == {"shoff", "shentsize", "shnum", "shstrndx"}

(* The decoder cuts these fields where the layout says.                    *)
LEMMA FieldsCut ==
  ASSUME NEW half
  PROVE  /\ \A f \in Leading : Fields(half, Layout)[f] =
              [k \in 1 .. Layout64[f][2] |-> half[Layout64[f][1] + 2 * (k - 1)]]
         /\ Fields(half, Layout).type[1] = half[16]
         /\ Fields(half, Layout).machine[1] = half[18]
<1>1. \A f \in DOMAIN Layout :
        Fields(half, Layout)[f] = [k \in 1 .. Layout[f][2] |-> half[Layout[f][1] + 2 * (k - 1)]]
  BY DEF Fields
<1>2. Leading \cup {"type", "machine"} \subseteq DOMAIN Layout
  BY DEF Leading, Layout
<1>3. \A f \in Leading : Layout[f] = Layout64[f]
  BY DEF Leading, Layout, Layout64
<1>4. /\ Layout["type"][1] = 16 /\ Layout["type"][2] = 1
      /\ Layout["machine"][1] = 18 /\ Layout["machine"][2] = 1
  BY DEF Layout
<1>5. Fields(half, Layout)["type"][1] = half[16]
  <2>1. Fields(half, Layout)["type"] = [k \in 1 .. 1 |-> half[16 + 2 * (k - 1)]]
    BY <1>1, <1>2, <1>4
  <2> QED
    BY <2>1
<1>6. Fields(half, Layout)["machine"][1] = half[18]
  <2>1. Fields(half, Layout)["machine"] = [k \in 1 .. 1 |-> half[18 + 2 * (k - 1)]]
    BY <1>1, <1>2, <1>4
  <2> QED
    BY <2>1
<1> QED
  BY <1>1, <1>2, <1>3, <1>5, <1>6
(* The steps that come after a field was taken over.                       *)
PastType      == Late \ {"type", "aborted", "crashed"}
PastMachine   == PastType \ {"machine"}
PastShoff     == {"flags", "ehsize", "phentsize", "phnum", "shentsize", "shnum", "shstrndx", "print", "returned"}
PastShentsize == {"shnum", "shstrndx", "print", "returned"}
PastShnum     == {"shstrndx", "print", "returned"}
PastShstrndx  == {"print", "returned"}

(* The decoded fields are the file's, as far as it goes.                   *)
FieldsDecoded ==
  /\ file.len >= 20 => ehdr.field.type[1] = file.half[16] /\ ehdr.field.machine[1] = file.half[18]
  /\ file.len = 64 => \A f \in Leading : ehdr.field[f] = FileField(f)

(* How the fields come from the file to the globals.                       *)
FieldsTravel ==
  /\ file \in FileSet /\ at \in Early \cup Late
  /\ at = "decode" => /\ file.len >= 20 => a_ehdr.half[16] = file.half[16] /\ a_ehdr.half[18] = file.half[18]
                      /\ file.len = 64 => \A o \in HalfAt : a_ehdr.half[o] = file.half[o]
  /\ at \in ({"ident"} \cup Late) \ {"crashed"} => FieldsDecoded
  /\ at \in PastType => ehdr.field["type"] \in Known["type"]
  /\ at \in PastMachine => ehdr.field["machine"] \in Known["machine"]
  /\ at \in PastShoff => shdrAddress = ehdr.field.shoff
  /\ at \in PastShentsize => shdrSize = ehdr.field.shentsize
  /\ at \in PastShnum => shdrNumber = ehdr.field.shnum
  /\ at \in PastShstrndx => shdrStrtabIndex = ehdr.field.shstrndx

LEMMA InitFieldsTravel == Init => FieldsTravel
BY DEF Init, FieldsTravel, Early, Late, PastType, PastMachine, PastShoff, PastShentsize, PastShnum, PastShstrndx

(* The leading fields lie among the halves that were read.                 *)
LEMMA LeadingInHeader ==
  \A f \in Leading : \A k \in 1 .. Layout64[f][2] : Layout64[f][1] + 2 * (k - 1) \in HalfAt
<1>1. \A k \in 1 .. 4 : 40 + 2 * (k - 1) \in {40, 42, 44, 46}
  OBVIOUS
<1>2. {40, 42, 44, 46, 58, 60, 62} \subseteq HalfAt
  <2>1. /\ 40 = 16 + 2 * 12 /\ 42 = 16 + 2 * 13 /\ 44 = 16 + 2 * 14 /\ 46 = 16 + 2 * 15
        /\ 58 = 16 + 2 * 21 /\ 60 = 16 + 2 * 22 /\ 62 = 16 + 2 * 23
    OBVIOUS
  <2> QED
    BY <2>1 DEF HalfAt
<1>3. \A k \in 1 .. 4 : 40 + 2 * (k - 1) \in HalfAt
  BY <1>1, <1>2
<1>4. /\ Layout64["shoff"] = <<40, 4>> /\ Layout64["shentsize"] = <<58, 1>>
      /\ Layout64["shnum"] = <<60, 1>> /\ Layout64["shstrndx"] = <<62, 1>>
  BY DEF Layout64
<1> QED
  BY <1>2, <1>3, <1>4 DEF Leading

LEMMA ReadKeepsFields == FieldsTravel /\ Read => FieldsTravel'
<1> SUFFICES ASSUME FieldsTravel, Read
             PROVE  FieldsTravel'
  OBVIOUS
<1>1. file' = file /\ at' = "decode" /\ file \in FileSet
  BY DEF Read, FieldsTravel
<1>2. PICK stale \in StaleBytes :
        a_ehdr' = [ident |-> [k \in 0 .. 15 |-> IF k < file.len THEN file.ident[k] ELSE stale],
                   half  |-> [o \in HalfAt |-> IF o + 2 <= file.len THEN file.half[o] ELSE 257 * stale]]
  BY DEF Read
<1>3. a_ehdr'.half = [o \in HalfAt |-> IF o + 2 <= file.len THEN file.half[o] ELSE 257 * stale]
  BY <1>2
<1>4. file.len \in Nat
  BY <1>1 DEF FileSet
<1>5. 16 \in HalfAt /\ 18 \in HalfAt /\ \A o \in HalfAt : o \in Nat /\ o + 2 <= 64
  BY DEF HalfAt
<1>6. file.len >= 20 => a_ehdr'.half[16] = file.half[16] /\ a_ehdr'.half[18] = file.half[18]
  BY <1>3, <1>4, <1>5
<1>7. file.len = 64 => \A o \in HalfAt : a_ehdr'.half[o] = file.half[o]
  BY <1>3, <1>5
<1> QED
  BY <1>1, <1>6, <1>7
  DEF FieldsTravel, Early, Late, PastType, PastMachine, PastShoff, PastShentsize, PastShnum, PastShstrndx

LEMMA DecodeKeepsFields == FieldsTravel /\ Decode => FieldsTravel'
<1> SUFFICES ASSUME FieldsTravel, Decode
             PROVE  FieldsTravel'
  OBVIOUS
<1>1. file' = file /\ at = "decode" /\ at' = "ident" /\ ehdr'.field = Fields(a_ehdr.half, Layout)
  BY DEF Decode
<1>2. file.len >= 20 => ehdr'.field.type[1] = file.half[16] /\ ehdr'.field.machine[1] = file.half[18]
  BY <1>1, FieldsCut DEF FieldsTravel
<1>3. ASSUME file.len = 64, NEW f \in Leading
      PROVE  ehdr'.field[f] = FileField(f)
  <2>1. ehdr'.field[f] = [k \in 1 .. Layout64[f][2] |-> a_ehdr.half[Layout64[f][1] + 2 * (k - 1)]]
    BY <1>1, FieldsCut
  <2>2. \A o \in HalfAt : a_ehdr.half[o] = file.half[o]
    BY <1>1, <1>3 DEF FieldsTravel
  <2>3. \A k \in 1 .. Layout64[f][2] :
          a_ehdr.half[Layout64[f][1] + 2 * (k - 1)] = file.half[Layout64[f][1] + 2 * (k - 1)]
    BY <2>2, LeadingInHeader
  <2> QED
    BY <2>1, <2>3 DEF FileField
<1>4. FieldsDecoded'
  BY <1>1, <1>2, <1>3 DEF FieldsDecoded, FileField
<1> QED
  BY <1>1, <1>4
  DEF FieldsTravel, Early, Late, PastType, PastMachine, PastShoff, PastShentsize, PastShnum, PastShstrndx

(* No later step changes the decoded header.                               *)
LEMMA DecodedStays ==
  ASSUME FieldsDecoded, file' = file, ehdr' = ehdr
  PROVE  FieldsDecoded'
BY DEF FieldsDecoded, FileField

LEMMA IdentKeepsFields == FieldsTravel /\ (RefuseClass \/ RefuseForm \/ AcceptIdent) => FieldsTravel'
<1> SUFFICES ASSUME FieldsTravel, RefuseClass \/ RefuseForm \/ AcceptIdent
             PROVE  FieldsTravel'
  OBVIOUS
<1>1. file' = file /\ ehdr' = ehdr /\ at = "ident" /\ at' \in {"type", "aborted"}
  BY DEF RefuseClass, RefuseForm, AcceptIdent
<1>2. FieldsDecoded'
  BY <1>1, DecodedStays DEF FieldsTravel
<1> QED
  BY <1>1, <1>2
  DEF FieldsTravel, Early, Late, PastType, PastMachine, PastShoff, PastShentsize, PastShnum, PastShstrndx

LEMMA CheckKeepsFields == FieldsTravel /\ (Type \/ Machine \/ ObjectVersion) => FieldsTravel'
<1> SUFFICES ASSUME FieldsTravel, Type \/ Machine \/ ObjectVersion
             PROVE  FieldsTravel'
  OBVIOUS
<1>1. file' = file /\ ehdr' = ehdr /\ at \in Late \ {"crashed"} /\ at' \in {"machine", "version", "entry", "aborted"}
  BY DEF Type, Machine, Check, ObjectVersion, Late
<1>2. FieldsDecoded'
  BY <1>1, DecodedStays DEF FieldsTravel
<1>3. at' \in PastType => ehdr'.field["type"] \in Known["type"]
  BY <1>1 DEF Type, Machine, Check, ObjectVersion, FieldsTravel, PastType, Late
<1>4. at' \in PastMachine => ehdr'.field["machine"] \in Known["machine"]
  BY <1>1 DEF Type, Machine, Check, ObjectVersion, FieldsTravel, PastMachine, PastType, Late
<1> QED
  BY <1>1, <1>2, <1>3, <1>4 DEF FieldsTravel, Early, Late, PastShoff, PastShentsize, PastShnum, PastShstrndx
(* A copied field is taken over at its own step and stays.                 *)
LEMMA CopyStep ==
  ASSUME NEW k \in 1 .. Len(Rest) - 1, CopyField(k)
  PROVE  /\ file' = file /\ ehdr' = ehdr
         /\ at \in PastMachine /\ at' \in PastMachine
         /\ at' \in PastShoff => IF at = "shoff" THEN shdrAddress' = ehdr.field.shoff
                                 ELSE at \in PastShoff /\ shdrAddress' = shdrAddress
         /\ at' \in PastShentsize => IF at = "shentsize" THEN shdrSize' = ehdr.field.shentsize
                                     ELSE at \in PastShentsize /\ shdrSize' = shdrSize
         /\ at' \in PastShnum => IF at = "shnum" THEN shdrNumber' = ehdr.field.shnum
                                 ELSE at \in PastShnum /\ shdrNumber' = shdrNumber
         /\ at' \in PastShstrndx => at = "shstrndx" /\ shdrStrtabIndex' = ehdr.field.shstrndx
<1>1. /\ file' = file /\ ehdr' = ehdr /\ at = Rest[k] /\ at' = Rest[k + 1]
      /\ shdrAddress' = IF at = "shoff" THEN ehdr.field.shoff ELSE shdrAddress
      /\ shdrSize' = IF at = "shentsize" THEN ehdr.field.shentsize ELSE shdrSize
      /\ shdrNumber' = IF at = "shnum" THEN ehdr.field.shnum ELSE shdrNumber
      /\ shdrStrtabIndex' = IF at = "shstrndx" THEN ehdr.field.shstrndx ELSE shdrStrtabIndex
  BY DEF CopyField
<1>2. Len(Rest) = 11
  BY DEF Rest
<1>3. <<Rest[k], Rest[k + 1]>> \in
        {<<"entry", "phoff">>, <<"phoff", "shoff">>, <<"shoff", "flags">>, <<"flags", "ehsize">>,
         <<"ehsize", "phentsize">>, <<"phentsize", "phnum">>, <<"phnum", "shentsize">>,
         <<"shentsize", "shnum">>, <<"shnum", "shstrndx">>, <<"shstrndx", "print">>}
  BY <1>2 DEF Rest
<1> QED
  BY <1>1, <1>3
  DEF PastMachine, PastType, Late, PastShoff, PastShentsize, PastShnum, PastShstrndx

LEMMA CopyKeepsFields ==
  ASSUME FieldsTravel, NEW k \in 1 .. Len(Rest) - 1, CopyField(k)
  PROVE  FieldsTravel'
<1>1. /\ file' = file /\ ehdr' = ehdr /\ file \in FileSet
      /\ at \in PastMachine /\ at' \in PastMachine
  BY CopyStep DEF FieldsTravel
<1>2. at \in PastType /\ at' \in PastType /\ at \in Late \ {"crashed"} /\ at' \in Late \ {"crashed"}
  BY <1>1 DEF PastMachine, PastType
<1>3. FieldsDecoded'
  BY <1>1, <1>2, DecodedStays DEF FieldsTravel
<1>4. /\ at' \in PastShoff => shdrAddress' = ehdr.field.shoff
      /\ at' \in PastShentsize => shdrSize' = ehdr.field.shentsize
      /\ at' \in PastShnum => shdrNumber' = ehdr.field.shnum
      /\ at' \in PastShstrndx => shdrStrtabIndex' = ehdr.field.shstrndx
  BY CopyStep DEF FieldsTravel
<1> QED
  BY <1>1, <1>2, <1>3, <1>4 DEF FieldsTravel, Early, Late

LEMMA FieldsTravelNext == FieldsTravel /\ [Next]_vars => FieldsTravel'
<1> SUFFICES ASSUME FieldsTravel, [Next]_vars
             PROVE  FieldsTravel'
  OBVIOUS
<1>1. CASE Read
  BY <1>1, ReadKeepsFields
<1>2. CASE Decode
  BY <1>2, DecodeKeepsFields
<1>3. CASE RefuseClass \/ RefuseForm \/ AcceptIdent
  BY <1>3, IdentKeepsFields
<1>4. CASE Type \/ Machine \/ ObjectVersion
  BY <1>4, CheckKeepsFields
<1>5. CASE \E k \in 1 .. Len(Rest) - 1 : CopyField(k)
  BY <1>5, CopyKeepsFields
<1>6. CASE PrintHeader
  <2>1. /\ file' = file /\ ehdr' = ehdr /\ at = "print" /\ at' = "returned"
        /\ shdrAddress' = shdrAddress /\ shdrSize' = shdrSize
        /\ shdrNumber' = shdrNumber /\ shdrStrtabIndex' = shdrStrtabIndex
    BY <1>6 DEF PrintHeader, globals
  <2>2. FieldsDecoded'
    BY <2>1, DecodedStays DEF FieldsTravel, Late
  <2> QED
    BY <2>1, <2>2
    DEF FieldsTravel, Early, Late, PastType, PastMachine, PastShoff, PastShentsize, PastShnum, PastShstrndx
<1>7. CASE NoFile \/ Overrun \/ PrintCrash
  BY <1>7 DEF NoFile, Overrun, PrintCrash, FieldsTravel, Early, Late, PastType, PastMachine, PastShoff,
              PastShentsize, PastShnum, PastShstrndx
<1>8. CASE UNCHANGED vars
  <2>1. /\ file' = file /\ ehdr' = ehdr /\ at' = at /\ a_ehdr' = a_ehdr
        /\ shdrAddress' = shdrAddress /\ shdrSize' = shdrSize
        /\ shdrNumber' = shdrNumber /\ shdrStrtabIndex' = shdrStrtabIndex
    BY <1>8 DEF vars, globals
  <2>2. FieldsDecoded => FieldsDecoded'
    BY <2>1, DecodedStays
  <2> QED
    BY <2>1, <2>2 DEF FieldsTravel
<1> QED
  BY <1>1, <1>2, <1>3, <1>4, <1>5, <1>6, <1>7, <1>8 DEF Next

LEMMA FieldsArrive == FieldsTravel => GlobalsFromFile
<1> SUFFICES ASSUME FieldsTravel, at = "returned", file.len = 64
             PROVE  globals = TableFields(Layout64)
  BY DEF GlobalsFromFile
<1>1. FieldsDecoded
  BY DEF FieldsTravel, Late
<1>2. \A f \in Leading : ehdr.field[f] = FileField(f)
  BY <1>1 DEF FieldsDecoded
<1>3. /\ shdrAddress = FileField("shoff") /\ shdrSize = FileField("shentsize")
      /\ shdrNumber = FileField("shnum") /\ shdrStrtabIndex = FileField("shstrndx")
  BY <1>2 DEF FieldsTravel, Leading, PastShoff, PastShentsize, PastShnum, PastShstrndx
<1> QED
  BY <1>3 DEF globals, TableFields, FileField

(***************************************************************************)
(* After a complete 64-bit header the globals that lead to the section     *)
(* headers are the file's own fields, for any header.                      *)
(***************************************************************************)
THEOREM GlobalsAreFileFields == Spec => []GlobalsFromFile
BY FieldsArrive, InitFieldsTravel, FieldsTravelNext, PTL DEF Spec

(***************************************************************************)
(* The stages after the header only ever see files for RISC-V, of a known  *)
(* type.                                                                   *)
(***************************************************************************)
THEOREM OnlyKnownFilesGoOn == Spec => []OnlyRiscvGoesOn
<1>1. FieldsTravel => OnlyRiscvGoesOn
  <2> SUFFICES ASSUME FieldsTravel, at = "returned", file.len >= 20
               PROVE  file.half[18] = 243 /\ file.half[16] \in 0 .. 4
    BY DEF OnlyRiscvGoesOn
  <2>1. ehdr.field.type[1] = file.half[16] /\ ehdr.field.machine[1] = file.half[18]
    BY DEF FieldsTravel, FieldsDecoded, Late
  <2>2. ehdr.field.type \in {<<t>> : t \in 0 .. 4} /\ ehdr.field.machine = <<243>>
    BY DEF FieldsTravel, Late, PastType, PastMachine, Known
  <2>3. ehdr.field.type[1] \in 0 .. 4 /\ ehdr.field.machine[1] = 243
    BY <2>2
  <2> QED
    BY <2>1, <2>3
<1> QED
  BY <1>1, InitFieldsTravel, FieldsTravelNext, PTL DEF Spec
-----------------------------------------------------------------------------
(* The identification is one that ehdr_ident accepts, with a version.      *)
FileIdentified ==
  file.len >= 16 /\ FileClass # 0 /\ file.ident[5] \in {1, 2} /\ file.ident[6] # 0

(* A header shows the lines that the file's identification asks for.       *)
Shows(shown) ==
  /\ shown.class = IF file.ident[4] = 1 THEN <<"ELF32">> ELSE <<"ELF64">>
  /\ shown.dataEncodingForm = IF file.ident[5] = 1 THEN <<"little endian">> ELSE <<"big endian">>
  /\ shown.fileVersion = <<file.ident[6]>>
  /\ shown.osAbi = <<file.ident[7]>>

(* How those lines come from the file's bytes to the printed header.       *)
LinesTravel ==
  /\ file \in FileSet /\ at \in Early \cup Late /\ DOMAIN info = InfoFields
  /\ FileIdentified =>
       /\ at = "decode" => a_ehdr.ident = file.ident
       /\ at = "ident" => MagicIsElf /\ \A k \in 4 .. 7 : ehdr.ident[k] = file.ident[k]
       /\ at \in Late \ {"aborted", "crashed"} => Shows(info)
       /\ at = "returned" => Shows(printed)

LEMMA InitLinesTravel == Init => LinesTravel
BY DEF Init, LinesTravel, Early, Late

(* Neither condition nor lines depend on anything but the file.            *)
LEMMA FileStays ==
  ASSUME file' = file
  PROVE  /\ FileIdentified' <=> FileIdentified
         /\ \A shown : Shows(shown) => Shows(shown)'
BY DEF FileIdentified, FileClass, Shows

(* Of such an identification the first eight bytes are not cut off.        *)
LEMMA IdentCopied ==
  ASSUME FileIdentified, file.ident \in [0 .. 15 -> Byte], NEW stale \in Byte
  PROVE  \A k \in 0 .. 7 : strcpy(file.ident, stale)[k] = file.ident[k]
<1>1. /\ file.ident[0] = 127 /\ file.ident[1] = 69 /\ file.ident[2] = 76 /\ file.ident[3] = 70
  BY DEF FileIdentified, FileClass, ELFMAG
<1>2. file.ident[4] \in {1, 2} /\ file.ident[5] \in {1, 2} /\ file.ident[6] # 0
  BY <1>1 DEF FileIdentified, FileClass
<1>3. \A j \in 0 .. 6 : file.ident[j] # 0
  BY <1>1, <1>2
<1> QED
  BY <1>3, CopiedUpToNUL

LEMMA ReadKeepsLines == LinesTravel /\ Read => LinesTravel'
<1> SUFFICES ASSUME LinesTravel, Read
             PROVE  LinesTravel'
  OBVIOUS
<1>1. file' = file /\ at' = "decode" /\ info' = info
  BY DEF Read
<1>2. ASSUME file.len >= 16
      PROVE  a_ehdr'.ident = file.ident
  <2>1. PICK stale \in StaleBytes :
          a_ehdr' = [ident |-> [k \in 0 .. 15 |-> IF k < file.len THEN file.ident[k] ELSE stale],
                     half  |-> [o \in HalfAt |-> IF o + 2 <= file.len THEN file.half[o] ELSE 257 * stale]]
    BY DEF Read
  <2>2. a_ehdr'.ident = [k \in 0 .. 15 |-> IF k < file.len THEN file.ident[k] ELSE stale]
    BY <2>1
  <2>3. file.ident \in [0 .. 15 -> Byte] /\ file.len \in 0 .. 64
    BY FileHasBytes DEF LinesTravel
  <2> QED
    BY <2>2, <2>3, <1>2
<1>3. FileIdentified' => file.len >= 16
  BY <1>1 DEF FileIdentified
<1> QED
  BY <1>1, <1>2, <1>3 DEF LinesTravel, Early, Late

LEMMA DecodeKeepsLines == LinesTravel /\ Decode => LinesTravel'
<1> SUFFICES ASSUME LinesTravel, Decode
             PROVE  LinesTravel'
  OBVIOUS
<1>1. file' = file /\ at = "decode" /\ at' = "ident" /\ info' = info
  BY DEF Decode
<1>2. ASSUME FileIdentified
      PROVE  MagicIsElf' /\ \A k \in 4 .. 7 : ehdr'.ident[k] = file.ident[k]
  <2>1. PICK stale \in StaleBytes :
          ehdr' = [ident |-> strcpy(a_ehdr.ident, stale), field |-> Fields(a_ehdr.half, Layout)]
    BY DEF Decode
  <2>2. ehdr'.ident = strcpy(file.ident, stale)
    BY <1>1, <1>2, <2>1 DEF LinesTravel
  <2>3. stale \in Byte /\ file.ident \in [0 .. 15 -> Byte]
    BY FileHasBytes DEF LinesTravel
  <2>4. \A k \in 0 .. 7 : ehdr'.ident[k] = file.ident[k]
    BY <1>2, <2>2, <2>3, IdentCopied
  <2>5. \A k \in 0 .. 3 : file.ident[k] = ELFMAG[k + 1]
    BY <1>2 DEF FileIdentified, FileClass
  <2> QED
    BY <2>4, <2>5 DEF MagicIsElf
<1>3. FileIdentified' => FileIdentified
  BY <1>1, FileStays
<1> QED
  BY <1>1, <1>2, <1>3 DEF LinesTravel, Early, Late

(* ehdr_ident sets the lines from its copy.                                *)
LEMMA IdentSetsLines == LinesTravel /\ (RefuseClass \/ RefuseForm \/ AcceptIdent) => LinesTravel'
<1> SUFFICES ASSUME LinesTravel, RefuseClass \/ RefuseForm \/ AcceptIdent
             PROVE  LinesTravel'
  OBVIOUS
<1>1. at = "ident" /\ file' = file /\ at' \in {"type", "aborted"} /\ DOMAIN info' = InfoFields
  BY DEF RefuseClass, RefuseForm, AcceptIdent, Identified
<1>2. ASSUME FileIdentified, at' = "type"
      PROVE  Shows(info')
  <2>1. MagicIsElf /\ \A k \in 4 .. 7 : ehdr.ident[k] = file.ident[k]
    BY <1>1, <1>2 DEF LinesTravel
  <2>2. file.ident[4] \in {1, 2} /\ file.ident[5] \in {1, 2}
    BY <1>2 DEF FileIdentified, FileClass
  <2>3. HasForm
    BY <2>1, <2>2 DEF HasForm, HasClass
  <2>4. Identified(DOMAIN Identity)
    BY <1>1, <1>2, <2>3 DEF RefuseClass, RefuseForm, AcceptIdent, HasForm
  <2>5. \A f \in {"class", "dataEncodingForm", "fileVersion", "osAbi"} : info'[f] = Identity[f]
    BY <2>4 DEF Identified, Identity, InfoFields
  <2>6. /\ info'.class = Identity.class /\ info'.dataEncodingForm = Identity.dataEncodingForm
        /\ info'.fileVersion = Identity.fileVersion /\ info'.osAbi = Identity.osAbi
    BY <2>5
  <2>7. /\ Identity.class = IF ehdr.ident[4] = 1 THEN <<"ELF32">> ELSE <<"ELF64">>
        /\ Identity.dataEncodingForm = IF ehdr.ident[5] = 1 THEN <<"little endian">> ELSE <<"big endian">>
        /\ Identity.fileVersion = <<ehdr.ident[6]>> /\ Identity.osAbi = <<ehdr.ident[7]>>
    BY DEF Identity
  <2>8. /\ ehdr.ident[4] = file.ident[4] /\ ehdr.ident[5] = file.ident[5]
        /\ ehdr.ident[6] = file.ident[6] /\ ehdr.ident[7] = file.ident[7]
    BY <2>1
  <2> QED
    BY <2>6, <2>7, <2>8 DEF Shows
<1>3. FileIdentified' => FileIdentified
  BY <1>1, FileStays
<1> QED
  BY <1>1, <1>2, <1>3 DEF LinesTravel, Early, Late, Shows

(* What a later step sets is another line.                                 *)
LEMMA LaterKeepsLines ==
  ASSUME LinesTravel,
         Type \/ Machine \/ ObjectVersion \/ (\E k \in 1 .. Len(Rest) - 1 : CopyField(k))
  PROVE  LinesTravel'
<1> DEFINE Ident == {"class", "dataEncodingForm", "fileVersion", "osAbi"}
<1>1. at \in Late \ {"returned", "aborted", "crashed"} /\ at' \in Late /\ file' = file
  BY LaterStep
<1>2. at' # "returned"
  <2>1. ASSUME NEW k \in 1 .. Len(Rest) - 1, CopyField(k)
        PROVE  at' # "returned"
    <3>1. Len(Rest) = 11
      BY DEF Rest
    <3>2. Rest[k + 1] # "returned"
      BY <3>1 DEF Rest
    <3> QED
      BY <2>1, <3>2 DEF CopyField
  <2> QED
    BY <2>1 DEF Type, Machine, Check, ObjectVersion
<1>3. DOMAIN info' = InfoFields /\ \A f \in Ident : info'[f] = info[f]
  <2>1. CASE Type \/ Machine
    BY <2>1 DEF Type, Machine, Check, LinesTravel, InfoFields
  <2>2. CASE ObjectVersion
    BY <2>2 DEF ObjectVersion, LinesTravel, InfoFields
  <2>3. ASSUME NEW k \in 1 .. Len(Rest) - 1, CopyField(k)
        PROVE  DOMAIN info' = InfoFields /\ \A f \in Ident : info'[f] = info[f]
    <3>1. Len(Rest) = 11
      BY DEF Rest
    <3>2. Rest[k] \notin Ident
      BY <3>1 DEF Rest
    <3> QED
      BY <2>3, <3>2 DEF CopyField, LinesTravel, InfoFields
  <2> QED
    BY <2>1, <2>2, <2>3
<1>4. /\ info'.class = info.class /\ info'.dataEncodingForm = info.dataEncodingForm
      /\ info'.fileVersion = info.fileVersion /\ info'.osAbi = info.osAbi
  BY <1>3
<1>5. FileIdentified' => FileIdentified
  BY <1>1, FileStays
<1> QED
  BY <1>1, <1>2, <1>3, <1>4, <1>5 DEF LinesTravel, Early, Late, Shows

LEMMA PrintShowsLines == LinesTravel /\ PrintHeader => LinesTravel'
<1> SUFFICES ASSUME LinesTravel, PrintHeader
             PROVE  LinesTravel'
  OBVIOUS
<1>1. file' = file /\ at = "print" /\ at' = "returned" /\ info' = info /\ printed' = Lines
  BY DEF PrintHeader
<1>2. \A f \in {"class", "dataEncodingForm", "fileVersion", "osAbi"} : Lines[f] = info[f]
  BY DEF Lines, InfoFields
<1>3. /\ printed'.class = info.class /\ printed'.dataEncodingForm = info.dataEncodingForm
      /\ printed'.fileVersion = info.fileVersion /\ printed'.osAbi = info.osAbi
  BY <1>1, <1>2
<1>4. FileIdentified' => FileIdentified
  BY <1>1, FileStays
<1> QED
  BY <1>1, <1>3, <1>4 DEF LinesTravel, Early, Late, Shows

(***************************************************************************)
(* The class, encoding, version and ABI lines are the file's own for every *)
(* identification that has a version, although it went twice through       *)
(* strcpy and fourteen functions share the structure it is kept in.        *)
(***************************************************************************)
THEOREM IdentLinesAreFileBytes == Spec => []IdentLinesFromFile
<1>1. LinesTravel /\ [Next]_vars => LinesTravel'
  <2> SUFFICES ASSUME LinesTravel, [Next]_vars
               PROVE  LinesTravel'
    OBVIOUS
  <2>1. CASE Read
    BY <2>1, ReadKeepsLines
  <2>2. CASE Decode
    BY <2>2, DecodeKeepsLines
  <2>3. CASE RefuseClass \/ RefuseForm \/ AcceptIdent
    BY <2>3, IdentSetsLines
  <2>4. CASE Type \/ Machine \/ ObjectVersion \/ (\E k \in 1 .. Len(Rest) - 1 : CopyField(k))
    BY <2>4, LaterKeepsLines
  <2>5. CASE PrintHeader
    BY <2>5, PrintShowsLines
  <2>6. CASE NoFile \/ Overrun \/ PrintCrash
    BY <2>6 DEF NoFile, Overrun, PrintCrash, LinesTravel, Early, Late
  <2>7. CASE UNCHANGED vars
    BY <2>7, FileStays DEF vars, LinesTravel, MagicIsElf
  <2> QED
    BY <2>1, <2>2, <2>3, <2>4, <2>5, <2>6, <2>7 DEF Next
<1>2. LinesTravel => IdentLinesFromFile
  BY DEF LinesTravel, IdentLinesFromFile, FileIdentified, Shows, Late
<1> QED
  BY <1>1, <1>2, InitLinesTravel, PTL DEF Spec
-----------------------------------------------------------------------------
(* What fread leaves of bytes and halves are bytes and halves.             *)
LEMMA ReadBytes ==
  ASSUME NEW f \in FileSet, NEW stale \in Byte
  PROVE  [k \in 0 .. 15 |-> IF k < f.len THEN f.ident[k] ELSE stale] \in Idents
<1>1. f.ident \in [0 .. 15 -> Byte]
  BY FileHasBytes
<1>2. \A k \in 0 .. 15 : (IF k < f.len THEN f.ident[k] ELSE stale) \in Byte
  BY <1>1
<1> QED
  BY <1>2 DEF Idents

LEMMA ReadHalves ==
  ASSUME NEW f \in FileSet, NEW stale \in Byte
  PROVE  [o \in HalfAt |-> IF o + 2 <= f.len THEN f.half[o] ELSE 257 * stale] \in HalfSet
<1> DEFINE Half == 0 .. 65535
<1>1. HalfSet = [HalfAt -> Half]
  BY DEF HalfSet
<1>2. 257 * stale \in Half
  BY DEF Byte
<1> HIDE DEF Half
<1>3. f.half \in [HalfAt -> Half]
  BY <1>1 DEF FileSet
<1>4. \A o \in HalfAt : (IF o + 2 <= f.len THEN f.half[o] ELSE 257 * stale) \in Half
  BY <1>2, <1>3
<1> QED
  BY <1>1, <1>4

(* Decoded fields are tuples of as many halves as the layout says.         *)
LEMMA FieldsTyped ==
  \A half \in HalfSet : \A f \in DOMAIN Layout : Fields(half, Layout)[f] \in HalvesOf(Layout, f)
<1> DEFINE Half == 0 .. 65535
<1>1. HalfSet = [HalfAt -> Half]
  BY DEF HalfSet
<1>2. \A f : HalvesOf(Layout, f) = [1 .. Layout[f][2] -> Half]
  BY DEF HalvesOf
<1> HIDE DEF Half
<1> TAKE half \in HalfSet
<1>3. \A f \in DOMAIN Layout : \A k \in 1 .. Layout[f][2] : Layout[f][1] + 2 * (k - 1) \in HalfAt
  <2> DEFINE Cut == {<<16, 1>>, <<18, 1>>, <<20, 2>>, <<24, 4>>, <<32, 4>>, <<40, 4>>, <<48, 2>>,
                     <<52, 1>>, <<54, 1>>, <<56, 1>>, <<58, 1>>, <<60, 1>>, <<62, 1>>}
  <2>1. \A f \in DOMAIN Layout : Layout[f] \in Cut
    BY DEF Layout
  <2>2. \A c \in Cut : \A k \in 1 .. c[2] : c[1] + 2 * (k - 1) \in HalfAt
    <3> SUFFICES ASSUME NEW c \in Cut, NEW k \in 1 .. c[2]
                 PROVE  c[1] + 2 * (k - 1) \in HalfAt
      OBVIOUS
    <3>1. \E n \in 8 .. 31 : c[1] = 2 * n /\ c[2] \in 1 .. 4 /\ n + c[2] <= 32
      OBVIOUS
    <3>2. PICK n \in 8 .. 31 : c[1] = 2 * n /\ c[2] \in 1 .. 4 /\ n + c[2] <= 32
      BY <3>1
    <3>3. c[1] + 2 * (k - 1) = 16 + 2 * (n + k - 9) /\ n + k - 9 \in 0 .. 23
      BY <3>2
    <3> QED
      BY <3>3 DEF HalfAt
  <2> QED
    BY <2>1, <2>2
<1>4. \A f \in DOMAIN Layout :
        Fields(half, Layout)[f] = [k \in 1 .. Layout[f][2] |-> half[Layout[f][1] + 2 * (k - 1)]]
  BY DEF Fields
<1>5. ASSUME NEW f \in DOMAIN Layout
      PROVE  Fields(half, Layout)[f] \in HalvesOf(Layout, f)
  <2>1. \A k \in 1 .. Layout[f][2] : half[Layout[f][1] + 2 * (k - 1)] \in Half
    BY <1>1, <1>3
  <2>2. [k \in 1 .. Layout[f][2] |-> half[Layout[f][1] + 2 * (k - 1)]] \in [1 .. Layout[f][2] -> Half]
    BY <2>1
  <2> QED
    BY <1>2, <1>4, <2>2
<1> QED
  BY <1>5

(* An identification that was copied is one, whatever lies behind its NUL. *)
LEMMA CopyTyped ==
  ASSUME NEW src \in Idents, NEW stale \in Byte
  PROVE  strcpy(src, stale) \in Idents
BY DEF strcpy, Idents

LEMMA RestFields ==
  ASSUME NEW k \in 1 .. Len(Rest) - 1
  PROVE  /\ Rest[k] \in DOMAIN Layout
         /\ Rest[k] \notin {"read", "decode", "ident", "crashed"}
         /\ Rest[k + 1] \in {Rest[j] : j \in 1 .. Len(Rest)}
         /\ Rest[k + 1] \notin {"read", "decode", "ident", "crashed"}
<1>1. Len(Rest) = 11
  BY DEF Rest
<1>2. Rest[k + 1] \in {Rest[j] : j \in 1 .. Len(Rest)}
  BY <1>1
<1> QED
  BY <1>1, <1>2 DEF Rest, Layout

(* The type of what is kept of the header, once it is there.               *)
HeaderRead    == a_ehdr \in [ident : Idents, half : HalfSet]
HeaderDecoded == ehdr.ident \in Idents /\ \A f \in DOMAIN Layout : ehdr.field[f] \in HalvesOf(Layout, f)

LEMMA TuplesOf ==
  ASSUME NEW S, NEW x \in S
  PROVE  <<x>> \in [1 .. 1 -> S] /\ <<x, x, x, x>> \in [1 .. 4 -> S]
OBVIOUS

LEMMA TypeInit == Init => TypeOK
<1> SUFFICES ASSUME Init
             PROVE  TypeOK
  OBVIOUS
<1> DEFINE Half == 0 .. 65535
<1>1. file \in FileSet /\ at = "read" /\ riscvLen = 0
  BY DEF Init
<1>2. HalvesOf(Layout, "shoff") = [1 .. 4 -> Half] /\ HalvesOf(Layout, "shnum") = [1 .. 1 -> Half]
  BY SMTT(30) DEF HalvesOf, Layout
<1>3. 0 \in Half
  OBVIOUS
<1>4. /\ shdrAddress = <<0, 0, 0, 0>> /\ shdrNumber = <<0>> /\ shdrSize = <<0>>
      /\ shdrStrtabIndex = <<0>>
  BY DEF Init
<1> HIDE DEF Half
<1>5. <<0>> \in [1 .. 1 -> Half] /\ <<0, 0, 0, 0>> \in [1 .. 4 -> Half]
  BY <1>3, TuplesOf
<1>6. /\ shdrAddress \in HalvesOf(Layout, "shoff")
      /\ {shdrNumber, shdrSize, shdrStrtabIndex} \subseteq HalvesOf(Layout, "shnum")
  BY <1>2, <1>4, <1>5
<1> QED
  BY <1>1, <1>6 DEF TypeOK

LEMMA TypeNext == TypeOK /\ [Next]_vars => TypeOK'
<1> SUFFICES ASSUME TypeOK, [Next]_vars
             PROVE  TypeOK'
  OBVIOUS
<1>1. CASE Read
  <2>1. PICK stale \in StaleBytes :
          a_ehdr' = [ident |-> [k \in 0 .. 15 |-> IF k < file.len THEN file.ident[k] ELSE stale],
                     half  |-> [o \in HalfAt |-> IF o + 2 <= file.len THEN file.half[o] ELSE 257 * stale]]
    BY <1>1 DEF Read
  <2>2. stale \in Byte /\ file \in FileSet
    BY DEF TypeOK
  <2>3. HeaderRead'
    BY <2>1, <2>2, ReadBytes, ReadHalves DEF HeaderRead
  <2> QED
    BY <1>1, <2>3 DEF Read, TypeOK, HeaderRead, globals
<1>2. CASE Decode
  <2>1. PICK stale \in StaleBytes :
          ehdr' = [ident |-> strcpy(a_ehdr.ident, stale), field |-> Fields(a_ehdr.half, Layout)]
    BY <1>2 DEF Decode
  <2>2. stale \in Byte /\ a_ehdr \in [ident : Idents, half : HalfSet]
    BY <1>2 DEF Decode, TypeOK
  <2>3. a_ehdr.ident \in Idents /\ a_ehdr.half \in HalfSet
    BY <2>2
  <2>4. HeaderDecoded'
    BY <2>1, <2>2, <2>3, CopyTyped, FieldsTyped DEF HeaderDecoded
  <2> QED
    BY <1>2, <2>4 DEF Decode, TypeOK, HeaderDecoded, globals
<1>3. CASE RefuseClass \/ RefuseForm \/ AcceptIdent
  BY <1>3 DEF RefuseClass, RefuseForm, AcceptIdent, ClassLen, TypeOK, globals
<1>4. CASE Type \/ Machine \/ ObjectVersion
  <2>1. "entry" \in {Rest[k] : k \in 1 .. Len(Rest)}
    <3>1. Len(Rest) = 11 /\ Rest[1] = "entry"
      BY DEF Rest
    <3> QED
      BY <3>1
  <2> QED
    BY <1>4, <2>1 DEF Type, Machine, Check, ObjectVersion, TypeOK, globals
<1>5. ASSUME NEW k \in 1 .. Len(Rest) - 1, CopyField(k)
      PROVE  TypeOK'
  <2>1. HeaderRead /\ HeaderDecoded /\ at = Rest[k] /\ at' = Rest[k + 1]
    BY <1>5, RestFields DEF CopyField, TypeOK, HeaderRead, HeaderDecoded
  <2>2. UNCHANGED <<file, a_ehdr, ehdr, riscvLen>>
    BY <1>5 DEF CopyField
  <2>3. /\ shdrAddress' \in HalvesOf(Layout, "shoff")
        /\ {shdrNumber', shdrSize', shdrStrtabIndex'} \subseteq HalvesOf(Layout, "shnum")
    <3>1. /\ shdrAddress' \in {shdrAddress, ehdr.field["shoff"]}
          /\ shdrSize' \in {shdrSize, ehdr.field["shentsize"]}
          /\ shdrNumber' \in {shdrNumber, ehdr.field["shnum"]}
          /\ shdrStrtabIndex' \in {shdrStrtabIndex, ehdr.field["shstrndx"]}
      BY <1>5 DEF CopyField
    <3>2. /\ {"shoff", "shentsize", "shnum", "shstrndx"} \subseteq DOMAIN Layout
          /\ HalvesOf(Layout, "shentsize") = HalvesOf(Layout, "shnum")
          /\ HalvesOf(Layout, "shstrndx") = HalvesOf(Layout, "shnum")
      BY DEF Layout, HalvesOf
    <3> QED
      BY <2>1, <3>1, <3>2 DEF HeaderDecoded, TypeOK
  <2> QED
    BY <2>1, <2>2, <2>3, RestFields DEF TypeOK, HeaderRead, HeaderDecoded
<1>6. CASE NoFile \/ Overrun \/ PrintHeader \/ PrintCrash
  BY <1>6 DEF NoFile, Overrun, PrintHeader, PrintCrash, TypeOK, globals
<1>7. CASE UNCHANGED vars
  BY <1>7 DEF vars, TypeOK, globals
<1> QED
  BY <1>1, <1>2, <1>3, <1>4, <1>5, <1>6, <1>7 DEF Next

(***************************************************************************)
(* Type correctness of the ELF header stage, for any file.                 *)
(***************************************************************************)
THEOREM HeaderTypeCorrect == Spec => []TypeOK
BY TypeInit, TypeNext, PTL DEF Spec
-----------------------------------------------------------------------------
(***************************************************************************)
(* The size of a section header, of which stages after this one make       *)
(* buffers: it is zero or the file's as soon as the file is long enough.   *)
(***************************************************************************)
SizeTravels ==
  /\ file \in FileSet /\ at \in Early \cup Late
  /\ at \in Early => shdrSize[1] = 0
  /\ file.len >= 60 =>
       /\ at = "decode" => a_ehdr.half[58] = file.half[58]
       /\ at \in ({"ident"} \cup Late) \ {"crashed"} => ehdr.field["shentsize"][1] = file.half[58]
       /\ at # "crashed" => shdrSize[1] \in {0, file.half[58]}

LEMMA InitSizeTravels == Init => SizeTravels
BY DEF Init, SizeTravels, Early, Late

LEMMA SizeTravelsNext == SizeTravels /\ [Next]_vars => SizeTravels'
<1> SUFFICES ASSUME SizeTravels, [Next]_vars
             PROVE  SizeTravels'
  OBVIOUS
<1>1. CASE Read
  <2>1. PICK stale \in StaleBytes :
          a_ehdr' = [ident |-> [k \in 0 .. 15 |-> IF k < file.len THEN file.ident[k] ELSE stale],
                     half  |-> [o \in HalfAt |-> IF o + 2 <= file.len THEN file.half[o] ELSE 257 * stale]]
    BY <1>1 DEF Read
  <2>2. a_ehdr'.half = [o \in HalfAt |-> IF o + 2 <= file.len THEN file.half[o] ELSE 257 * stale]
    BY <2>1
  <2>3. 58 \in HalfAt /\ 58 + 2 = 60
    <3>1. 58 = 16 + 2 * 21 /\ 21 \in 0 .. 23
      OBVIOUS
    <3> QED
      BY <3>1 DEF HalfAt
  <2>4. file.len >= 60 => a_ehdr'.half[58] = file.half[58]
    BY <2>2, <2>3
  <2>5. file' = file /\ at' = "decode" /\ shdrSize'[1] = 0
    BY <1>1 DEF Read, SizeTravels, Early, globals
  <2> QED
    BY <2>4, <2>5 DEF SizeTravels, Early, Late
<1>2. CASE Decode
  <2>1. ehdr'.field = Fields(a_ehdr.half, Layout) /\ file' = file /\ at = "decode" /\ at' = "ident"
    BY <1>2 DEF Decode
  <2>2. Fields(a_ehdr.half, Layout)["shentsize"] = [k \in 1 .. 1 |-> a_ehdr.half[58 + 2 * (k - 1)]]
    <3>1. "shentsize" \in DOMAIN Layout /\ Layout["shentsize"][1] = 58 /\ Layout["shentsize"][2] = 1
      BY DEF Layout
    <3> QED
      BY <3>1 DEF Fields
  <2>3. ehdr'.field["shentsize"][1] = a_ehdr.half[58]
    BY <2>1, <2>2
  <2>4. shdrSize'[1] = 0
    BY <1>2 DEF Decode, SizeTravels, Early, globals
  <2> QED
    BY <2>1, <2>3, <2>4 DEF SizeTravels, Early, Late
<1>3. CASE RefuseClass \/ RefuseForm \/ AcceptIdent
  <2>1. /\ file' = file /\ ehdr' = ehdr /\ at = "ident" /\ at' \in {"type", "aborted"}
        /\ shdrSize' = shdrSize
    BY <1>3 DEF RefuseClass, RefuseForm, AcceptIdent, globals
  <2> QED
    BY <2>1 DEF SizeTravels, Early, Late
<1>4. CASE Type \/ Machine \/ ObjectVersion \/ PrintHeader
  <2>1. ehdr' = ehdr /\ shdrSize' = shdrSize
    BY <1>4 DEF Type, Machine, Check, ObjectVersion, PrintHeader, globals
  <2> QED
    BY <1>4, <2>1, LaterStep DEF SizeTravels, Early, Late
<1>5. CASE \E k \in 1 .. Len(Rest) - 1 : CopyField(k)
  <2>1. PICK k \in 1 .. Len(Rest) - 1 : CopyField(k)
    BY <1>5
  <2>2. ehdr' = ehdr /\ shdrSize' \in {shdrSize, ehdr.field["shentsize"]}
    BY <2>1 DEF CopyField
  <2>3. at \in Late \ {"returned", "aborted", "crashed"} /\ at' \in Late /\ file' = file
    BY <1>5, LaterStep
  <2> QED
    BY <2>2, <2>3 DEF SizeTravels, Early, Late
<1>6. CASE NoFile \/ Overrun \/ PrintCrash
  BY <1>6 DEF NoFile, Overrun, PrintCrash, SizeTravels, Early, Late
<1>7. CASE UNCHANGED vars
  BY <1>7 DEF vars, globals, SizeTravels
<1> QED
  BY <1>1, <1>2, <1>3, <1>4, <1>5, <1>6, <1>7 DEF Next
=============================================================================
