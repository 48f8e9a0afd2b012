------------------------------ MODULE ElfHeader ------------------------------
(***************************************************************************)
(* process_elf_header: the first 64 bytes of the file are read, taken      *)
(* apart by the layout of a 64-bit ELF header whatever the file's class,   *)
(* and handed field by field to the ehdr_* functions, which leave four     *)
(* globals and riscvLen for the stages that follow.                        *)
(*                                                                         *)
(* The bytes after e_ident are kept as their 16-bit halves, by file        *)
(* offset, and a field as the tuple of its halves, lowest first: no value  *)
(* is too wide.  What the stack held before is an arbitrary byte.          *)
(***************************************************************************)
EXTENDS Naturals, Sequences

CONSTANTS
  Files,       \* headers: ident and halves, and how many bytes of them exist
  StaleBytes   \* what uninitialised memory may hold

Byte    == 0 .. 255
HalfAt  == {16 + 2 * k : k \in 0 .. 23}
Idents  == [0 .. 15 -> Byte]
HalfSet == [HalfAt -> 0 .. 65535]
FileSet == [ident : Idents, half : HalfSet, len : 0 .. 64]

ASSUME HeaderAssumption == Files \subseteq FileSet /\ StaleBytes \subseteq Byte

VARIABLES
  file,     \* the file's header
  at,       \* the next step, by the field it is about
  a_ehdr,   \* the bytes read
  ehdr,     \* the decoded header
  info,     \* i_ehdr; << >> is a field that was never set
  shdrAddress, shdrNumber, shdrSize, shdrStrtabIndex, riscvLen,  \* globals
  printed   \* what the printed header says, by line

globals == <<shdrAddress, shdrNumber, shdrSize, shdrStrtabIndex>>
vars == <<file, at, a_ehdr, ehdr, info, globals, riscvLen, printed>>

-----------------------------------------------------------------------------
(* Where the fields lie in Elf64_Auxiliary_Ehdr: offset, number of halves. *)
Layout ==
  [type |-> <<16, 1>>, machine |-> <<18, 1>>, version |-> <<20, 2>>, entry |-> <<24, 4>>,
   phoff |-> <<32, 4>>, shoff |-> <<40, 4>>, flags |-> <<48, 2>>, ehsize |-> <<52, 1>>,
   phentsize |-> <<54, 1>>, phnum |-> <<56, 1>>, shentsize |-> <<58, 1>>, shnum |-> <<60, 1>>,
   shstrndx |-> <<62, 1>>]

(* Slip: the last two fields change places.                                *)
Fields_Swapped(half, layout) ==
  [f \in DOMAIN layout |->
     LET g == CASE f = "shnum" -> "shstrndx" [] f = "shstrndx" -> "shnum" [] OTHER -> f
     IN  [k \in 1 .. layout[g][2] |-> half[layout[g][1] + 2 * (k - 1)]]]

(* byte_get_little_endian on each field of the layout.                     *)
Fields(half, layout) ==
  [f \in DOMAIN layout |-> [k \in 1 .. layout[f][2] |-> half[layout[f][1] + 2 * (k - 1)]]]

(* Slip: only the magic number is copied.                                  *)
strcpy_Magic(src, stale) == [k \in 0 .. 15 |-> IF k < 4 THEN src[k] ELSE stale]

(* Slip: the identification is taken for a string of at most seven bytes.  *)
strcpy_Seven(src, stale) ==
  [k \in 0 .. 15 |-> IF k < 7 /\ \A j \in 0 .. k - 1 : src[j] # 0 THEN src[k] ELSE stale]

(* strcpy of the identification: up to its first NUL, and no further.      *)
strcpy(src, stale) ==
  [k \in 0 .. 15 |-> IF \A j \in 0 .. k - 1 : src[j] # 0 THEN src[k] ELSE stale]

Bit(k, half) == (half \div 2^k) % 2

(* ", RVC", ", RVE" and the float ABI, as they are appended to buff.       *)
FlagStatement(flags) ==
  (IF Bit(0, flags[1]) = 1 THEN <<"RVC">> ELSE << >>)
    \o (IF Bit(3, flags[1]) = 1 THEN <<"RVE">> ELSE << >>)
    \o <<CASE (flags[1] \div 2) % 4 = 0 -> "soft" [] (flags[1] \div 2) % 4 = 1 -> "single"
           [] (flags[1] \div 2) % 4 = 2 -> "double" [] (flags[1] \div 2) % 4 = 3 -> "quad">>

ELFMAG == <<127, 69, 76, 70>>

InfoFields ==
  {"ident", "class", "dataEncodingForm", "fileVersion", "osAbi", "abiVersion", "flagStatement"}
    \cup DOMAIN Layout

-----------------------------------------------------------------------------
Init ==
  /\ file \in Files
  /\ at = "read"
  /\ a_ehdr = << >>
  /\ ehdr = << >>
  /\ info = [f \in InfoFields |-> << >>]
  /\ shdrAddress = <<0, 0, 0, 0>>
  /\ shdrNumber = <<0>> /\ shdrSize = <<0>> /\ shdrStrtabIndex = <<0>>
  /\ riscvLen = 0
  /\ printed = << >>

(* fopen, fread, fread, close_file: a short file leaves the rest stale.    *)
Read ==
  /\ at = "read"
  /\ at' = "decode"
  /\ \E stale \in StaleBytes :
       a_ehdr' = [ident |-> [k \in 0 .. 15 |-> IF k < file.len THEN file.ident[k] ELSE stale],
                  half  |-> [o \in HalfAt |-> IF o + 2 <= file.len THEN file.half[o] ELSE 257 * stale]]
  /\ UNCHANGED <<file, ehdr, info, globals, riscvLen, printed>>

(* No such file: fread crashes on the NULL stream.                         *)
NoFile ==
  /\ at = "read"
  /\ at' = "crashed"
  /\ UNCHANGED <<file, a_ehdr, ehdr, info, globals, riscvLen, printed>>

Decode ==
  /\ at = "decode"
  /\ at' = "ident"
  /\ \E stale \in StaleBytes :
       ehdr' = [ident |-> strcpy(a_ehdr.ident, stale), field |-> Fields(a_ehdr.half, Layout)]
  /\ UNCHANGED <<file, a_ehdr, info, globals, riscvLen, printed>>

(* An identification without a NUL is no string: either strcpy runs into   *)
(* the fields behind its target, which are set later, and maybe past them. *)
Overrun ==
  /\ \/ at = "decode" /\ \A k \in 0 .. 15 : a_ehdr.ident[k] # 0
     \/ at = "ident" /\ \A k \in 0 .. 15 : ehdr.ident[k] # 0
  /\ at' = "crashed"
  /\ UNCHANGED <<file, a_ehdr, ehdr, info, globals, riscvLen, printed>>

-----------------------------------------------------------------------------
(* ehdr_ident sets `fields` before it returns.                             *)
Identity ==
  [class |-> IF ehdr.ident[4] = 1 THEN <<"ELF32">> ELSE <<"ELF64">>,
   dataEncodingForm |-> IF ehdr.ident[5] = 1 THEN <<"little endian">> ELSE <<"big endian">>,
   fileVersion |-> <<ehdr.ident[6]>>, osAbi |-> <<ehdr.ident[7]>>, abiVersion |-> <<ehdr.ident[8]>>]

Identified(fields) ==
  \E stale \in StaleBytes :
    info' = [f \in InfoFields |-> IF f = "ident" THEN strcpy(ehdr.ident, stale)
                                  ELSE IF f \in fields THEN Identity[f] ELSE info[f]]

MagicIsElf == \A k \in 0 .. 3 : ehdr.ident[k] = ELFMAG[k + 1]
HasClass   == MagicIsElf /\ ehdr.ident[4] \in {1, 2}
HasForm    == HasClass /\ ehdr.ident[5] \in {1, 2}
KnownAbis  == {0, 1, 2, 3, 6}

(* Slip: the class itself is taken for the length.                         *)
ClassLen_Class == ehdr.ident[4]

ClassLen == IF ehdr.ident[4] = 1 THEN 32 ELSE 64

(* It returns early for what it cannot use; the caller does not look.      *)
RefuseClass ==
  /\ at = "ident" /\ ~HasClass
  /\ at' = "type"
  /\ Identified({})
  /\ UNCHANGED <<file, a_ehdr, ehdr, globals, riscvLen, printed>>

RefuseForm ==
  /\ at = "ident" /\ HasClass /\ ~HasForm
  /\ at' = "type"
  /\ riscvLen' = ClassLen
  /\ Identified({"class"})
  /\ UNCHANGED <<file, a_ehdr, ehdr, globals, printed>>

AcceptIdent ==
  /\ at = "ident" /\ HasForm
  /\ riscvLen' = ClassLen
  /\ IF ehdr.ident[7] \in KnownAbis
     THEN at' = "type" /\ Identified(DOMAIN Identity)
     ELSE at' = "aborted" /\ Identified(DOMAIN Identity \ {"osAbi", "abiVersion"})
  /\ UNCHANGED <<file, a_ehdr, ehdr, globals, printed>>

-----------------------------------------------------------------------------
(* ehdr_type and ehdr_machine take known values only.                      *)
Known == [type |-> {<<t>> : t \in 0 .. 4}, machine |-> {<<243>>}]

(* Slip: an unknown value is reported and the program goes on.             *)
Check_GoesOn(f, next) ==
  /\ at = f
  /\ at' = next
  /\ info' = [info EXCEPT ![f] = ehdr.field[f]]
  /\ UNCHANGED <<file, a_ehdr, ehdr, globals, riscvLen, printed>>

Check(f, next) ==
  /\ at = f
  /\ IF ehdr.field[f] \in Known[f]
     THEN at' = next /\ info' = [info EXCEPT ![f] = ehdr.field[f]]
     ELSE at' = "aborted" /\ UNCHANGED info
  /\ UNCHANGED <<file, a_ehdr, ehdr, globals, riscvLen, printed>>

Type == Check("type", "machine")

Machine == Check("machine", "version")

(* ehdr_object_version: sets nothing if the file's two versions differ.    *)
ObjectVersion ==
  /\ at = "version"
  /\ at' = "entry"
  /\ info' = IF ehdr.field.version = <<ehdr.ident[6], 0>>
             THEN [info EXCEPT !.version = ehdr.field.version] ELSE info
  /\ UNCHANGED <<file, a_ehdr, ehdr, globals, riscvLen, printed>>

(* ehdr_entry to ehdr_shstr_ndx, in the order of their calls.              *)
Rest == <<"entry", "phoff", "shoff", "flags", "ehsize", "phentsize", "phnum", "shentsize",
          "shnum", "shstrndx", "print">>

CopyField(k) ==
  LET f == Rest[k] IN
  /\ at = f
  /\ at' = Rest[k + 1]
  /\ info' = [info EXCEPT ![f] = ehdr.field[f],
                          !.flagStatement = IF f = "flags" THEN FlagStatement(ehdr.field.flags) ELSE @]
  /\ shdrAddress' = IF f = "shoff" THEN ehdr.field.shoff ELSE shdrAddress
  /\ shdrSize' = IF f = "shentsize" THEN ehdr.field.shentsize ELSE shdrSize
  /\ shdrNumber' = IF f = "shnum" THEN ehdr.field.shnum ELSE shdrNumber
  /\ shdrStrtabIndex' = IF f = "shstrndx" THEN ehdr.field.shstrndx ELSE shdrStrtabIndex
  /\ UNCHANGED <<file, a_ehdr, ehdr, riscvLen, printed>>

(* The printed lines; the number of section headers is e_shstrndx + 1.     *)
Lines ==
  [f \in InfoFields \ {"shstrndx"} |-> IF f = "shnum" THEN <<info.shstrndx[1] + 1>> ELSE info[f]]

PrintHeader ==
  /\ at = "print"
  /\ at' = "returned"
  /\ printed' = Lines
  /\ UNCHANGED <<file, a_ehdr, ehdr, info, globals, riscvLen>>

(* %s of a pointer that was never set may crash.                           *)
PrintCrash ==
  /\ at = "print"
  /\ << >> \in {info.class, info.dataEncodingForm, info.osAbi}
  /\ at' = "crashed"
  /\ UNCHANGED <<file, a_ehdr, ehdr, info, globals, riscvLen, printed>>

Next ==
  \/ Read \/ NoFile \/ Decode \/ Overrun
  \/ RefuseClass \/ RefuseForm \/ AcceptIdent
  \/ Type \/ Machine \/ ObjectVersion
  \/ \E k \in 1 .. Len(Rest) - 1 : CopyField(k)
  \/ PrintHeader \/ PrintCrash

Spec == Init /\ [][Next]_vars
-----------------------------------------------------------------------------
(* Each value has its type; a field of n halves is an n-tuple.             *)
HalvesOf(layout, f) == [1 .. layout[f][2] -> 0 .. 65535]

TypeOK ==
  /\ file \in FileSet
  /\ at \in {"read", "decode", "ident", "type", "machine", "version", "print",
             "returned", "aborted", "crashed"} \cup {Rest[k] : k \in 1 .. Len(Rest)}
  /\ at \notin {"read", "crashed"} => a_ehdr \in [ident : Idents, half : HalfSet]
  /\ at \notin {"read", "decode", "crashed"} =>
       /\ ehdr.ident \in Idents
       /\ \A f \in DOMAIN Layout : ehdr.field[f] \in HalvesOf(Layout, f)
  /\ shdrAddress \in HalvesOf(Layout, "shoff")
  /\ {shdrNumber, shdrSize, shdrStrtabIndex} \subseteq HalvesOf(Layout, "shnum")
  /\ riscvLen \in {0, 32, 64}

(***************************************************************************)
(* riscvLen decides how every instruction is decoded.  It follows the      *)
(* file's class byte and is zero without one, although the byte is copied  *)
(* twice as part of a "string" that ends at the first NUL, and although    *)
(* ehdr_ident may give up: no stale byte ever decides it.                  *)
(***************************************************************************)
FileClass ==
  IF \E k \in 0 .. 3 : file.ident[k] # ELFMAG[k + 1] THEN 0
  ELSE CASE file.ident[4] = 1 -> 32 [] file.ident[4] = 2 -> 64 [] OTHER -> 0

LenMatchesClass == at = "returned" /\ file.len >= 16 => riscvLen = FileClass

(***************************************************************************)
(* The class, encoding, version and ABI lines are the file's own if the    *)
(* file's version byte is not zero: up to there the bytes of an accepted   *)
(* identification are not NUL, and strcpy reaches the ABI byte.            *)
(***************************************************************************)
IdentLinesFromFile ==
  at = "returned" /\ file.len >= 16 /\ FileClass # 0 /\ file.ident[5] \in {1, 2} /\ file.ident[6] # 0 =>
    /\ printed.class = IF file.ident[4] = 1 THEN <<"ELF32">> ELSE <<"ELF64">>
    /\ printed.dataEncodingForm = IF file.ident[5] = 1 THEN <<"little endian">> ELSE <<"big endian">>
    /\ printed.fileVersion = <<file.ident[6]>>
    /\ printed.osAbi = <<file.ident[7]>>

(* The file's own section header fields, by a layout.                      *)
TableFields(layout) ==
  LET Of(f) == [k \in 1 .. layout[f][2] |-> file.half[layout[f][1] + 2 * (k - 1)]]
  IN  <<Of("shoff"), Of("shnum"), Of("shentsize"), Of("shstrndx")>>

(***************************************************************************)
(* After a complete 64-bit header the globals that lead to the section     *)
(* headers are its e_shoff, e_shnum, e_shentsize and e_shstrndx: each went *)
(* through four structures and three functions.                            *)
(***************************************************************************)
Layout64 ==
  [shoff |-> <<40, 4>>, shentsize |-> <<58, 1>>, shnum |-> <<60, 1>>, shstrndx |-> <<62, 1>>]

GlobalsFromFile ==
  at = "returned" /\ file.len = 64 /\ FileClass = 64 => globals = TableFields(Layout64)

(***************************************************************************)
(* The rest of the program only ever sees files for RISC-V, of a type that *)
(* it knows.  (Of their class and encoding it may know nothing.)           *)
(***************************************************************************)
OnlyRiscvGoesOn ==
  at = "returned" /\ file.len >= 20 => file.half[18] = 243 /\ file.half[16] \in 0 .. 4

(***************************************************************************)
(* The line "Magic Number" shows i_ident, "Magic number and other info"    *)
(* (elfHeader.h:50), and "ABI Version" its byte 8.  Both copies of the     *)
(* identification stop at its first NUL, which is the ABI byte of a System *)
(* V file: what is shown behind it was never read from the file.           *)
(***************************************************************************)
IdentShown ==
  at = "returned" /\ file.len = 64 /\ FileClass # 0 /\ info.osAbi # << >> =>
    printed.ident = file.ident /\ printed.abiVersion = <<file.ident[8]>>

(***************************************************************************)
(* A 32-bit file has the header of elfHeader.h:11, "ELF Header (32-bit     *)
(* implementations)", and is accepted; the globals should be its fields.   *)
(***************************************************************************)
Layout32 ==
  [shoff |-> <<32, 2>>, shentsize |-> <<46, 1>>, shnum |-> <<48, 1>>, shstrndx |-> <<50, 1>>]

Elf32Understood ==
  at = "returned" /\ file.len = 64 /\ FileClass = 32 =>
    globals = LET t == TableFields(Layout32) IN [t EXCEPT ![1] = @ \o <<0, 0>>]
=============================================================================
