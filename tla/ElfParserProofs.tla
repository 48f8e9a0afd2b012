--------------------------- MODULE ElfParserProofs ---------------------------
(***************************************************************************)
(* What holds across the stages, for any file that ParserAssumption and    *)
(* TablesAssumption leave in: what the header and the section header stage *)
(* prove of themselves carries over to the later ones, and the whole       *)
(* program keeps the promise of Report.                                    *)
(***************************************************************************)
EXTENDS ElfParser, Integers, FiniteSetTheorems, TLAPS

USE HeadersAssumption DEF HeadersAssumption

(* The header stage with its proofs.                                       *)
HP == INSTANCE ElfHeaderProofs WITH
  Files <- {d.header : d \in Disks}, file <- disk.header, at <- ehdrAt, printed <- header

(* What the header stage assumes of its files holds of these.              *)
LEMMA HeaderAssumed == HP!HeaderAssumption
<1>1. H!Idents = HP!Idents
  BY DEF H!Idents, HP!Idents, H!Byte, HP!Byte
<1>2. H!HalfAt = HP!HalfAt
  BY DEF H!HalfAt, HP!HalfAt
<1>3. H!HalfSet = HP!HalfSet
  <2> DEFINE Half == 0 .. 65535
  <2>1. H!HalfSet = [H!HalfAt -> Half] /\ HP!HalfSet = [HP!HalfAt -> Half]
    BY SMTT(30) DEF H!HalfSet, HP!HalfSet
  <2> HIDE DEF Half
  <2> QED
    BY <1>2, <2>1
<1>4. {d.header : d \in Disks} \subseteq HP!FileSet
  BY <1>1, <1>3 DEF H!FileSet, HP!FileSet
<1>5. StaleBytes \subseteq HP!Byte
  BY ParserAssumption DEF ParserAssumption, Byte, HP!Byte
<1> QED
  BY <1>4, <1>5 DEF HP!HeaderAssumption

(* Its proofs are about the stage that the program runs.                   *)
LEMMA HeaderInit == H!Init => HP!Init
BY DEF H!Init, HP!Init, H!InfoFields, HP!InfoFields, H!Layout, HP!Layout

LEMMA HeaderNext == H!Next => HP!Next
BY DEF H!Next, HP!Next, H!Read, HP!Read, H!NoFile, HP!NoFile, H!Decode, HP!Decode,
  H!Overrun, HP!Overrun, H!RefuseClass, HP!RefuseClass, H!RefuseForm, HP!RefuseForm,
  H!AcceptIdent, HP!AcceptIdent, H!Type, HP!Type, H!Machine, HP!Machine, H!ObjectVersion,
  HP!ObjectVersion, H!CopyField, HP!CopyField, H!PrintHeader, HP!PrintHeader, H!PrintCrash,
  HP!PrintCrash, H!globals, HP!globals, H!HalfAt, HP!HalfAt, H!strcpy, HP!strcpy, H!Fields, HP!Fields,
  H!Layout, HP!Layout, H!HasClass, HP!HasClass, H!HasForm, HP!HasForm, H!MagicIsElf, HP!MagicIsElf,
  H!ELFMAG, HP!ELFMAG, H!Identified, HP!Identified, H!Identity, HP!Identity, H!InfoFields, HP!InfoFields,
  H!ClassLen, HP!ClassLen, H!KnownAbis, HP!KnownAbis, H!Check, HP!Check, H!Known, HP!Known,
  H!Rest, HP!Rest, H!FlagStatement, HP!FlagStatement, H!Bit, HP!Bit, H!Lines, HP!Lines

-----------------------------------------------------------------------------
(* A line added is decoded by riscvLen as it is then.                      *)
DecodedAs == IF riscvLen = 64 THEN "rv64" ELSE "rv32"

LEMMA SweepAddsLines ==
  ASSUME X!Next
  PROVE  lines' = lines \/ \E line : line.isa = DecodedAs /\ lines' = Append(lines, line)
<1>1. \A inst, len : X!Line(inst, len).isa = DecodedAs
  BY DEF X!Line, DecodedAs
<1>2. CASE X!Uncompressed \/ X!Compressed
  <2>1. PICK inst, len : lines' = Append(lines, X!Line(inst, len))
    BY <1>2 DEF X!Uncompressed, X!Compressed, X!Emit
  <2> QED
    BY <1>1, <2>1
<1>3. CASE X!Open \/ X!NoTextSection \/ X!LoadText \/ X!LoadCrash \/ X!Unsupported \/ X!Segfault \/ X!Finish
  BY <1>3 DEF X!Open, X!NoTextSection, X!LoadText, X!LoadCrash, X!Unsupported, X!Segfault, X!Finish
<1> QED
  BY <1>2, <1>3 DEF X!Next

(***************************************************************************)
(* LinesByClass.  The header stage has returned before any other starts,   *)
(* no line is there before the sweep, and none of the stages between       *)
(* touches riscvLen.                                                       *)
(***************************************************************************)
ClassReachesLines ==
  /\ call \in 1 .. 10
  /\ IF call = 1 THEN at = "entry" ELSE ehdrAt = "returned"
  /\ HP!ClassTravels
  /\ call < 9 => lines = << >>
  /\ \E S : lines \in Seq(S)
  /\ \A i \in 1 .. Len(lines) : lines[i].isa = DecodedAs

(* What the header stage owns.                                             *)
HeaderPart == <<disk, ehdrGlobals, ehdrLocals>>

LEMMA HeaderPartStays ==
  ASSUME HP!ClassTravels, UNCHANGED HeaderPart
  PROVE  HP!ClassTravels' /\ ehdrAt' = ehdrAt /\ DecodedAs' = DecodedAs
<1>1. UNCHANGED HP!vars
  BY DEF HeaderPart, ehdrGlobals, ehdrLocals, HP!vars, HP!globals
<1>2. HP!ClassTravels'
  BY <1>1, HeaderAssumed, HP!ClassTravelsNext
<1> QED
  BY <1>2 DEF HeaderPart, ehdrGlobals, ehdrLocals, DecodedAs

(* The calls by their numbers.                                             *)
LEMMA CallNumbers ==
  ASSUME call \in 1 .. 10
  PROVE  /\ Len(Calls) = 9
         /\ In("process_elf_header") => call = 1
         /\ In(".text") => call = 9
         /\ call = 1 => ~In("process_section_header") /\ ~In("process_program_header")
                          /\ ~In("parser_debug_frame") /\ \A s \in Strings : ~In(s)
<1>1. Len(Calls) = 9
  BY DEF Calls
<1>2. /\ Calls[1] = "process_elf_header" /\ Calls[2] = "process_section_header"
      /\ Calls[3] = "process_program_header" /\ Calls[4] = ".debug_str" /\ Calls[5] = ".comment"
      /\ Calls[6] = ".riscv.attributes" /\ Calls[7] = ".GCC.command.line"
      /\ Calls[8] = "parser_debug_frame" /\ Calls[9] = ".text"
  BY DEF Calls
<1>3. call \in {1, 2, 3, 4, 5, 6, 7, 8, 9, 10}
  OBVIOUS
<1> QED
  BY <1>1, <1>2, <1>3 DEF In, Strings

LEMMA InitReaches == Init => ClassReachesLines
<1> SUFFICES ASSUME Init
             PROVE  ClassReachesLines
  OBVIOUS
<1>1. HP!ClassTravels
  BY HeaderAssumed, HeaderInit, HP!InitClassTravels DEF Init
<1>2. call = 1 /\ at = "entry" /\ lines = << >>
  BY DEF Init
<1>3. lines \in Seq({})
  BY <1>2
<1> QED
  BY <1>1, <1>2, <1>3 DEF ClassReachesLines

LEMMA NextReaches == ClassReachesLines /\ [Next]_vars => ClassReachesLines'
<1> SUFFICES ASSUME ClassReachesLines, [Next]_vars
             PROVE  ClassReachesLines'
  OBVIOUS
<1>1. CASE process_elf_header
  <2>1. call = 1 /\ call' = call /\ at' = at /\ lines' = lines /\ H!Next
    BY <1>1, CallNumbers DEF ClassReachesLines, process_elf_header, main, textLocals
  <2>2. HP!ClassTravels'
    BY <2>1, HeaderAssumed, HeaderNext, HP!ClassTravelsNext DEF ClassReachesLines
  <2>3. lines' = << >>
    BY <2>1 DEF ClassReachesLines
  <2>4. lines' \in Seq({})
    BY <2>3
  <2> QED
    BY <2>1, <2>2, <2>3, <2>4 DEF ClassReachesLines
<1>2. CASE disassemble_text_section
  <2>1. call = 9 /\ call' = call /\ UNCHANGED HeaderPart /\ X!Next
    BY <1>2, CallNumbers DEF ClassReachesLines, disassemble_text_section, main, HeaderPart
  <2>2. HP!ClassTravels' /\ ehdrAt' = ehdrAt /\ DecodedAs' = DecodedAs
    BY <2>1, HeaderPartStays DEF ClassReachesLines
  <2>3. PICK S : lines \in Seq(S)
    BY DEF ClassReachesLines
  <2>4. CASE lines' = lines
    BY <2>1, <2>2, <2>4 DEF ClassReachesLines
  <2>5. ASSUME NEW line, line.isa = DecodedAs, lines' = Append(lines, line)
        PROVE  ClassReachesLines'
    <3>1. lines \in Seq(S \cup {line})
      BY <2>3
    <3>2. /\ lines' \in Seq(S \cup {line}) /\ Len(lines') = Len(lines) + 1
          /\ \A i \in 1 .. Len(lines') : lines'[i] = IF i <= Len(lines) THEN lines[i] ELSE line
      BY <2>5, <3>1
    <3>3. \A i \in 1 .. Len(lines') : lines'[i].isa = DecodedAs
      BY <2>3, <2>5, <3>2 DEF ClassReachesLines
    <3> QED
      BY <2>1, <2>2, <3>2, <3>3 DEF ClassReachesLines
  <2> QED
    BY <2>1, <2>4, <2>5, SweepAddsLines
<1>3. CASE process_section_header \/ (\E s \in Strings : dump_section(s))
  <2>1. call # 1
    BY <1>3, CallNumbers DEF ClassReachesLines, process_section_header, dump_section
  <2>2. call' = call /\ UNCHANGED HeaderPart /\ lines' = lines
    BY <1>3 DEF process_section_header, dump_section, main, textLocals, HeaderPart
  <2> QED
    BY <2>1, <2>2, HeaderPartStays DEF ClassReachesLines
<1>4. CASE HeaderDone \/ process_program_header \/ parser_debug_frame \/ PartDone
  <2>1. call' = call + 1 /\ call <= 9 /\ UNCHANGED HeaderPart /\ lines' = lines
    BY <1>4, CallNumbers
    DEF ClassReachesLines, HeaderDone, process_program_header, parser_debug_frame, PartDone, Proceed, In, HeaderPart, textLocals
  <2>2. ehdrAt = "returned"
    <3>1. CASE call = 1
      <4>1. HeaderDone /\ ~In("process_section_header")
        BY <1>4, <3>1, CallNumbers
        DEF ClassReachesLines, process_program_header, parser_debug_frame, PartDone
      <4> QED
        BY <4>1 DEF HeaderDone
    <3> QED
      BY <2>1, <3>1 DEF ClassReachesLines
  <2> QED
    BY <2>1, <2>2, HeaderPartStays DEF ClassReachesLines
<1>5. CASE UNCHANGED vars
  <2>1. call' = call /\ at' = at /\ UNCHANGED HeaderPart /\ lines' = lines
    BY <1>5 DEF vars, main, textLocals, HeaderPart
  <2> QED
    BY <2>1, HeaderPartStays DEF ClassReachesLines
<1> QED
  BY <1>1, <1>2, <1>3, <1>4, <1>5
  DEF Next, Strings, dump_debug_str_section, dump_comment_section, dump_riscv_attributes_section,
      dump_GCC_command_line_section

LEMMA ClassShown == ClassReachesLines => LinesByClass
<1> SUFFICES ASSUME ClassReachesLines, disk.header.len >= 16, NEW i \in 1 .. Len(lines)
             PROVE  lines[i].isa = IF H!FileClass = 64 THEN "rv64" ELSE "rv32"
  BY DEF LinesByClass
<1>1. call = 9 \/ call = 10
  BY DEF ClassReachesLines
<1>2. ehdrAt = "returned"
  BY <1>1 DEF ClassReachesLines
<1>3. riscvLen = HP!FileClass
  BY <1>2 DEF ClassReachesLines, HP!ClassTravels, HP!Late
<1>4. HP!FileClass = H!FileClass
  BY DEF HP!FileClass, H!FileClass, HP!ELFMAG, H!ELFMAG
<1> QED
  BY <1>3, <1>4 DEF ClassReachesLines, DecodedAs

(***************************************************************************)
(* Every line is decoded by the class byte of the file, for any number of  *)
(* lines.                                                                  *)
(***************************************************************************)
THEOREM LinesDecodedByClass == Spec => []LinesByClass
BY ClassShown, InitReaches, NextReaches, PTL DEF Spec

-----------------------------------------------------------------------------
(* The section header stage with its proofs.                               *)
TP == INSTANCE SectionTableProofs WITH
  Numbers <- Nat, Indices <- Nat, EntrySizes <- 0 .. 64, Truncated <- TRUE,
  shdrNumber <- Number, shdrSize <- shdrSize[1], shdrStrtabIndex <- shdrStrtabIndex[1],
  table <- Table, present <- Present, seekable <- Seekable, at <- shdrAt

LEMMA TableAssumed == TP!TableAssumption
BY ParserAssumption, TablesAssumption
DEF ParserAssumption, TablesAssumption, TP!TableAssumption, TP!HeaderSet, T!HeaderSet,
    TP!Names, T!Names, TP!Sought, T!Sought

(* Its terms, by both names.                                               *)
LEMMA TableTerms ==
  /\ \A i, bytes, stale : T!Delivered(i, bytes, stale) = TP!Delivered(i, bytes, stale)
  /\ \A i : T!BytesOf(i) = TP!BytesOf(i)
  /\ \A type : T!sh_type(type) = TP!sh_type(type)
  /\ T!StringTables = TP!StringTables /\ T!Names = TP!Names /\ T!Sought = TP!Sought
  /\ \A o : T!NamesAt(o) = TP!NamesAt(o)
<1>1. \A i, bytes, stale : T!Delivered(i, bytes, stale) = TP!Delivered(i, bytes, stale)
  BY DEF T!Delivered, TP!Delivered, T!FieldEnd, TP!FieldEnd
<1>2. \A i : T!BytesOf(i) = TP!BytesOf(i)
  BY DEF T!BytesOf, TP!BytesOf, T!Least, TP!Least
<1>3. \A type : T!sh_type(type) = TP!sh_type(type)
  BY DEF T!sh_type, TP!sh_type, T!ListedTypes, TP!ListedTypes
<1>4. T!StringTables = TP!StringTables
  BY DEF T!StringTables, TP!StringTables
<1>5. T!Sought = TP!Sought
  BY DEF T!Sought, TP!Sought
<1>6. T!Names = TP!Names
  BY <1>5 DEF T!Names, TP!Names
<1>7. \A o : T!NamesAt(o) = TP!NamesAt(o)
  BY <1>6 DEF T!NamesAt, TP!NamesAt
<1> QED
  BY <1>1, <1>2, <1>3, <1>4, <1>5, <1>6, <1>7

LEMMA FlagTerms ==
  /\ \A flags : T!sh_flags(flags) = TP!sh_flags(flags)
  /\ T!FlagString = TP!FlagString
<1>1. \A bit : T!Letter(bit) = TP!Letter(bit)
  BY DEF T!Letter, TP!Letter, T!NUL, TP!NUL
<1>2. \A S : T!Cardinality(S) = TP!Cardinality(S)
  BY DEF T!Cardinality, TP!Cardinality
<1>3. \A flags, k : T!Kth(flags, k) = TP!Kth(flags, k)
  BY <1>2 DEF T!Kth, TP!Kth
<1>4. T!NUL = TP!NUL
  BY DEF T!NUL, TP!NUL
<1>5. ASSUME NEW flags
      PROVE  T!sh_flags(flags) = TP!sh_flags(flags)
  <2>1. \A k : T!Letter(T!Kth(flags, k)) = TP!Letter(TP!Kth(flags, k))
    BY <1>1, <1>3
  <2>2. T!Cardinality(flags) = TP!Cardinality(flags)
    BY <1>2
  <2> QED
    BY <1>4, <2>1, <2>2 DEF T!sh_flags, TP!sh_flags
<1>6. T!FlagString = TP!FlagString
  BY <1>4 DEF T!FlagString, TP!FlagString
<1> QED
  BY <1>5, <1>6

LEMMA TableNext == T!Next => TP!Next
<1>1. T!inputs = TP!inputs /\ (UNCHANGED T!inputs <=> UNCHANGED TP!inputs)
  BY DEF T!inputs, TP!inputs
<1>2. T!ReadHeader => TP!ReadHeader
  BY <1>1, TableTerms, FlagTerms DEF T!ReadHeader, TP!ReadHeader, T!inputs, TP!inputs
<1>3. T!ResolveName => TP!ResolveName
  <2>1. \A name : T!Record(name) <=> TP!Record(name)
    BY TableTerms DEF T!Record, TP!Record
  <2> QED
    BY <2>1, TableTerms DEF T!ResolveName, TP!ResolveName, T!inputs, TP!inputs
<1>4. T!PrintTable => TP!PrintTable
  BY FlagTerms DEF T!PrintTable, TP!PrintTable, T!inputs, TP!inputs
<1>5. T!NameOverrun => TP!NameOverrun
  BY TableTerms DEF T!NameOverrun, TP!NameOverrun, T!inputs, TP!inputs
<1>6. /\ T!Enter => TP!Enter
      /\ T!EnterCrash => TP!EnterCrash
      /\ T!EndHeaders => TP!EndHeaders
      /\ T!NameLost => TP!NameLost
      /\ T!EndNames => TP!EndNames
      /\ T!PrintCrash => TP!PrintCrash
  BY DEF T!Enter, TP!Enter, T!EnterCrash, TP!EnterCrash, T!EndHeaders, TP!EndHeaders, T!NameLost,
    TP!NameLost, T!EndNames, TP!EndNames, T!PrintCrash, TP!PrintCrash, T!inputs, TP!inputs
<1> QED
  BY <1>2, <1>3, <1>4, <1>5, <1>6 DEF T!Next, TP!Next

-----------------------------------------------------------------------------
(* What the globals are once the ELF header has been read.                 *)
HeaderKnown == HP!TypeOK /\ HP!SizeTravels

LEMMA HeaderKnownStays ==
  ASSUME HeaderKnown, UNCHANGED HeaderPart
  PROVE  HeaderKnown'
<1>1. UNCHANGED HP!vars
  BY DEF HeaderPart, ehdrGlobals, ehdrLocals, HP!vars, HP!globals
<1> QED
  BY <1>1, HeaderAssumed, HP!TypeNext, HP!SizeTravelsNext DEF HeaderKnown

(* They suit the section header stage.                                     *)
LEMMA GlobalsSuit ==
  ASSUME HeaderKnown, disk \in Disks, ehdrAt = "returned"
  PROVE  Number \in Nat /\ shdrSize[1] \in 0 .. 64 /\ shdrStrtabIndex[1] \in Nat
<1>1. /\ shdrNumber \in HP!HalvesOf(HP!Layout, "shnum") /\ shdrSize \in HP!HalvesOf(HP!Layout, "shnum")
      /\ shdrStrtabIndex \in HP!HalvesOf(HP!Layout, "shnum")
  BY DEF HeaderKnown, HP!TypeOK
<1>2. HP!Layout["shnum"][2] = 1
  BY DEF HP!Layout
<1> DEFINE Half == 0 .. 65535
<1>3. HP!HalvesOf(HP!Layout, "shnum") = [1 .. 1 -> Half]
  BY <1>2 DEF HP!HalvesOf
<1>4. shdrNumber[1] \in Nat /\ shdrSize[1] \in Nat /\ shdrStrtabIndex[1] \in Nat
  <2>1. \A h \in Half : h \in Nat
    BY SMT
  <2> HIDE DEF Half
  <2>2. 1 \in 1 .. 1
    OBVIOUS
  <2>3. shdrNumber[1] \in Half /\ shdrSize[1] \in Half /\ shdrStrtabIndex[1] \in Half
    BY <1>1, <1>3, <2>2
  <2> QED
    BY <2>1, <2>3
<1>5. shdrSize[1] \in {0, disk.header.half[58]}
  BY TablesAssumption DEF TablesAssumption, HeaderKnown, HP!SizeTravels
<1>6. shdrSize[1] <= 64
  BY <1>5, TablesAssumption DEF TablesAssumption
<1> QED
  BY <1>4, <1>6 DEF Number

(* There is no more of the table than it has entries.                      *)
LEMMA LessTimes ==
  ASSUME NEW a \in Nat, NEW b \in Nat, NEW c \in Nat, a <= b
  PROVE  a * c \in 0 .. b * c
<1>1. PICK d \in Nat : b = a + d
  <2>1. b - a \in Nat /\ b = a + (b - a)
    OBVIOUS
  <2> QED
    BY <2>1
<1>2. b * c = a * c + d * c
  BY <1>1
<1>3. a * c \in Nat /\ d * c \in Nat
  OBVIOUS
<1> QED
  BY <1>2, <1>3

(* Each stage's part of the state, before and while it runs.               *)
Fresh ==
  /\ shdrAt = "entry" /\ shdrIndex = 0 /\ rows = << >>
  /\ secOff = [s \in T!Sought |-> 0] /\ secSize = [s \in T!Sought |-> 0]

Running ==
  /\ TP!NamesInv
  /\ shdrAt \in {"print", "returned"} => shdrIndex = Number

LEMMA FreshRuns ==
  ASSUME Fresh, HeaderKnown, disk \in Disks, ehdrAt = "returned"
  PROVE  Running
<1>1. Number \in Nat /\ shdrSize[1] \in 0 .. 64 /\ shdrStrtabIndex[1] \in Nat
  BY GlobalsSuit
<1>2. disk.table \in Seq(Headers) /\ Headers # {}
  BY ParserAssumption DEF ParserAssumption
<1>3. Table \in [0 .. Number - 1 -> Headers]
  <2>1. \A i \in 0 .. Number - 1 :
          (IF i < Len(disk.table) THEN disk.table[i + 1] ELSE CHOOSE h \in Headers : TRUE) \in Headers
    BY <1>1, <1>2
  <2> QED
    BY <2>1 DEF Table
<1>4. Present \in 0 .. Number * shdrSize[1]
  <2>1. Least(Len(disk.table), Number) \in Nat /\ Least(Len(disk.table), Number) <= Number
    BY <1>1, <1>2 DEF Least
  <2>2. Least(Len(disk.table), Number) * shdrSize[1] \in 0 .. Number * shdrSize[1]
    <3> DEFINE present == Least(Len(disk.table), Number)
    <3>1. Number \in Nat /\ shdrSize[1] \in Nat
      BY <1>1
    <3>2. present \in Nat /\ present <= Number
      BY <2>1, Zenon
    <3> HIDE DEF present
    <3>3. present * shdrSize[1] \in 0 .. Number * shdrSize[1]
      BY <3>1, <3>2, LessTimes, Zenon
    <3> QED
      BY <3>3 DEF present
  <2>3. 0 \in 0 .. Number * shdrSize[1]
    BY <1>1, LessTimes
  <2> QED
    BY <2>2, <2>3 DEF Present
<1>5. Seekable \in BOOLEAN
  BY DEF Seekable
<1>6. T!Sought = TP!Sought
  BY DEF T!Sought, TP!Sought
<1>7. TP!TypeOK
  <2>1. Len(rows) = 0
    BY DEF Fresh
  <2>2. secOff \in [TP!Sought -> Nat] /\ secSize \in [TP!Sought -> Nat]
    BY <1>6 DEF Fresh
  <2> QED
    BY <1>1, <1>3, <1>4, <1>5, <2>1, <2>2 DEF Fresh, TP!TypeOK
<1>8. TP!Unnamed /\ TP!LastNamesake
  BY <1>6 DEF Fresh, TP!Unnamed, TP!LastNamesake
<1> QED
  BY <1>7, <1>8 DEF Running, TP!NamesInv, Fresh

LEMMA RunningNext ==
  ASSUME Running, T!Next \/ UNCHANGED TP!vars
  PROVE  Running'
<1>1. [TP!Next]_(TP!vars)
  BY TableNext
<1>2. TP!NamesInv'
  BY <1>1, TableAssumed, TP!TypeNext, TP!UnnamedNext, TP!LastNamesakeNext DEF Running, TP!NamesInv
<1>3. shdrAt' \in {"print", "returned"} => shdrIndex' = Number'
  BY <1>1 DEF Running, TP!vars, TP!inputs, TP!Next, TP!Enter, TP!EnterCrash, TP!ReadHeader, TP!EndHeaders,
    TP!ResolveName, TP!NameLost, TP!NameOverrun, TP!EndNames, TP!PrintTable, TP!PrintCrash
<1> QED
  BY <1>2, <1>3 DEF Running

-----------------------------------------------------------------------------
(***************************************************************************)
(* PairsAsShown and LeftOpen.  The pairs are zero until the section header *)
(* stage starts, which then keeps its own invariant; the later stages only *)
(* move the text section's pair, by as much as `pos`, which is zero before *)
(* the sweep.  A function that returns with an open handle found zero.     *)
(***************************************************************************)
ByCall ==
  /\ call \in 1 .. 10 /\ disk \in Disks /\ HeaderKnown
  /\ call \in {1, 2, 3, 8} => at = "entry"
  /\ IF call = 1 THEN Fresh ELSE ehdrAt = "returned"
  /\ call = 2 => Running

Moved ==
  /\ pos \in Nat
  /\ call < 9 \/ (call = 9 /\ at \in {"entry", "opened"}) => pos = 0
  /\ call > 2 => secOff \in [T!Sought -> Nat]

HandlesLeft ==
  /\ left \subseteq T!Sought
  /\ call < 4 => left = {}
  /\ \A s \in left : Start(s) = 0
  /\ at = "returned" /\ fileHandle = "open" => Start(Mine) = 0

PairsHold == ByCall /\ Moved /\ PairsAsShown /\ HandlesLeft

(* The functions of the last five parts, and the pairs that are theirs.    *)
LEMMA PartNumbers ==
  ASSUME call \in 1 .. 10
  PROVE  /\ In("process_section_header") => call = 2
         /\ In("process_program_header") => call = 3
         /\ In("parser_debug_frame") => call = 8
         /\ \A s \in Strings : In(s) => call \in 4 .. 7 /\ Mine = s
         /\ In(".text") => call = 9 /\ Mine = ".text"
         /\ call \in 4 .. 7 \cup {9} => Calls[call] = Mine
         /\ Mine \in T!Sought
<1>1. Len(Calls) = 9
  BY DEF Calls
<1>2. /\ Calls[1] = "process_elf_header" /\ Calls[2] = "process_section_header"
      /\ Calls[3] = "process_program_header" /\ Calls[4] = ".debug_str" /\ Calls[5] = ".comment"
      /\ Calls[6] = ".riscv.attributes" /\ Calls[7] = ".GCC.command.line"
      /\ Calls[8] = "parser_debug_frame" /\ Calls[9] = ".text"
  BY DEF Calls
<1>3. call \in {1, 2, 3, 4, 5, 6, 7, 8, 9, 10}
  OBVIOUS
<1> QED
  BY <1>1, <1>2, <1>3 DEF In, Strings, Mine, T!Sought

(* Once the table is printed nothing of it changes.                        *)
TablePart == <<ehdrGlobals, secSize, shdrLocals>>

LEMMA PairsStay ==
  ASSUME UNCHANGED TablePart, \A s \in T!Sought : Start(s)' = Start(s)
  PROVE  \A s \in T!Sought : AsShown(s) => AsShown(s)'
BY DEF TablePart, AsShown, T!Namesakes, Number, ehdrGlobals, shdrLocals

LEMMA PairsFromTable ==
  ASSUME Running, shdrAt = "returned", pos = 0
  PROVE  /\ secOff \in [T!Sought -> Nat]
         /\ \A s \in T!Sought : AsShown(s)
<1>1. T!Sought = TP!Sought
  BY TableTerms
<1>2. secOff \in [T!Sought -> Nat]
  BY <1>1 DEF Running, TP!NamesInv, TP!TypeOK
<1>3. ASSUME NEW s \in T!Sought
      PROVE  AsShown(s)
  <2>1. TP!LastOf(s, TP!Namesakes(s, Number), shdr)
    BY <1>1 DEF Running, TP!NamesInv, TP!LastNamesake
  <2>2. TP!Namesakes(s, Number) = T!Namesakes(s, Number)
    BY DEF TP!Namesakes, T!Namesakes
  <2>3. secOff[s] \in Nat
    BY <1>2
  <2>4. Start(s) = secOff[s]
    BY <2>3 DEF Start
  <2> QED
    BY <2>1, <2>2, <2>4 DEF TP!LastOf, AsShown
<1> QED
  BY <1>2, <1>3

LEMMA PairsInit == Init => PairsHold
<1> SUFFICES ASSUME Init
             PROVE  PairsHold
  OBVIOUS
<1>1. HeaderKnown
  BY HeaderAssumed, HeaderInit, HP!TypeInit, HP!InitSizeTravels DEF Init, HeaderKnown
<1>2. /\ call = 1 /\ disk \in Disks /\ at = "entry" /\ left = {} /\ pos = 0
      /\ shdrAt = "entry" /\ shdrIndex = 0 /\ rows = << >>
      /\ secOff = [s \in T!Sought |-> 0] /\ secSize = [s \in T!Sought |-> 0]
  BY DEF Init
<1> QED
  BY <1>1, <1>2 DEF PairsHold, ByCall, Moved, PairsAsShown, HandlesLeft, Fresh

(* A step of the sweep moves the pair and the pointer alike; a handle is   *)
(* open at its end only if there is no section.                            *)
LEMMA SweepMoves ==
  ASSUME X!Next, pos \in Nat, secOff \in [T!Sought -> Nat],
         \E n \in {0, 2, 4} : secOff' = [secOff EXCEPT ![".text"] = @ + n]
  PROVE  /\ pos' \in Nat /\ secOff' \in [T!Sought -> Nat]
         /\ \A s \in T!Sought : Start(s)' = Start(s)
         /\ at' \in {"entry", "opened"} => pos' = pos /\ at = "entry"
         /\ at' = "returned" /\ fileHandle' = "open" => secOff[".text"] = 0 /\ pos' = pos /\ at = "opened"
<1>1. ".text" \in T!Sought
  BY DEF T!Sought
<1>2. /\ secOff' \in [T!Sought -> Nat]
      /\ \A s \in T!Sought \ {".text"} : secOff'[s] = secOff[s]
      /\ secOff[".text"] \in Nat /\ secOff'[".text"] \in Nat
  BY <1>1
<1>3. CASE X!Uncompressed \/ X!Compressed
  <2>1. at = "sweep" /\ \E inst : X!Emit(inst, 2) \/ X!Emit(inst, 4)
    BY <1>3 DEF X!Uncompressed, X!Compressed, X!Iterating
  <2>2. PICK len \in {2, 4} :
          pos' = pos + len /\ secOff'[".text"] = secOff[".text"] + len /\ at' = at
    BY <2>1 DEF X!Emit
  <2> QED
    BY <1>2, <2>1, <2>2 DEF Start
<1>4. CASE X!Open \/ X!NoTextSection \/ X!LoadText \/ X!LoadCrash \/ X!Unsupported \/ X!Segfault \/ X!Finish
  <2>1. pos' = pos /\ secOff'[".text"] = secOff[".text"]
    BY <1>4 DEF X!Open, X!NoTextSection, X!LoadText, X!LoadCrash, X!Unsupported, X!Segfault, X!Finish
  <2>2. /\ at' \in {"entry", "opened"} => at = "entry"
        /\ at' = "returned" /\ fileHandle' = "open" => secOff[".text"] = 0 /\ at = "opened"
    BY <1>4 DEF X!Open, X!NoTextSection, X!LoadText, X!LoadCrash, X!Unsupported, X!Segfault, X!Finish, X!Iterating
  <2> QED
    BY <1>2, <2>1, <2>2 DEF Start
<1> QED
  BY <1>3, <1>4 DEF X!Next

LEMMA PairsNext == PairsHold /\ [Next]_vars => PairsHold'
<1> SUFFICES ASSUME PairsHold, [Next]_vars
             PROVE  PairsHold'
  OBVIOUS
<1>0. ByCall /\ Moved /\ PairsAsShown /\ HandlesLeft /\ call \in 1 .. 10
  BY DEF PairsHold, ByCall
<1>1. CASE process_elf_header
  <2>1. /\ call = 1 /\ call' = 1 /\ H!Next /\ UNCHANGED <<disk, secOff, secSize, left, at, pos>>
        /\ UNCHANGED <<shdrAt, shdrIndex, rows>> /\ fileHandle' = fileHandle
    BY <1>0, <1>1, CallNumbers DEF process_elf_header, main, shdrLocals, textLocals
  <2>2. HeaderKnown'
    BY <1>0, <2>1, HeaderAssumed, HeaderNext, HP!TypeNext, HP!SizeTravelsNext DEF ByCall, HeaderKnown
  <2>3. ByCall'
    BY <1>0, <2>1, <2>2 DEF ByCall, Fresh
  <2>4. Moved' /\ PairsAsShown'
    BY <1>0, <2>1 DEF Moved, PairsAsShown
  <2>5. HandlesLeft'
    BY <1>0, <2>1, <2>3 DEF HandlesLeft, ByCall
  <2> QED
    BY <2>3, <2>4, <2>5 DEF PairsHold
<1>2. CASE process_section_header
  <2>1. /\ call = 2 /\ call' = 2 /\ T!Next /\ UNCHANGED HeaderPart /\ UNCHANGED <<left, at, pos>>
        /\ fileHandle' = fileHandle
    BY <1>0, <1>2, PartNumbers DEF process_section_header, main, textLocals, HeaderPart
  <2>2. HeaderKnown' /\ Running' /\ disk' = disk /\ ehdrAt' = ehdrAt
    BY <1>0, <2>1, HeaderKnownStays, RunningNext DEF ByCall, HeaderPart, ehdrLocals
  <2>3. ByCall'
    BY <1>0, <2>1, <2>2 DEF ByCall
  <2>4. Moved' /\ PairsAsShown' /\ HandlesLeft'
    BY <1>0, <2>1, <2>3 DEF Moved, PairsAsShown, HandlesLeft, ByCall
  <2> QED
    BY <2>3, <2>4 DEF PairsHold
<1>3. CASE HeaderDone \/ process_program_header \/ parser_debug_frame
  <2>1. /\ Proceed /\ call' = call + 1 /\ call \in {1, 2, 3, 8} /\ UNCHANGED HeaderPart
        /\ UNCHANGED <<secOff, secSize, shdrLocals, left, at, fileHandle, pos>>
    BY <1>0, <1>3, CallNumbers, PartNumbers
    DEF HeaderDone, process_program_header, parser_debug_frame, Proceed, HeaderPart, textLocals
  <2>2. HeaderKnown' /\ disk' = disk /\ ehdrAt' = ehdrAt
    BY <1>0, <2>1, HeaderKnownStays DEF ByCall, HeaderPart, ehdrLocals
  <2>3. /\ at = "entry" /\ at' = "entry" /\ pos' = 0 /\ pos = 0
    BY <1>0, <2>1 DEF ByCall, Moved
  <2>4. CASE call = 1
    <3>1. ehdrAt = "returned"
      BY <1>3, <2>4, <1>0, PartNumbers DEF HeaderDone, process_program_header, parser_debug_frame
    <3>2. Running
      BY <1>0, <2>4, <3>1, FreshRuns DEF ByCall
    <3>3. UNCHANGED TP!vars
      BY <2>1 DEF HeaderPart, ehdrGlobals, shdrLocals, TP!vars, TP!inputs, Table, Present, Seekable, Number
    <3>4. Running'
      BY <3>2, <3>3, RunningNext
    <3> QED
      BY <1>0, <2>1, <2>2, <2>3, <2>4, <3>1, <3>4
      DEF PairsHold, ByCall, Moved, PairsAsShown, HandlesLeft
  <2>5. CASE call = 2
    <3>1. shdrAt = "returned" /\ Running
      BY <1>3, <2>5, <1>0, PartNumbers, CallNumbers
      DEF HeaderDone, process_program_header, parser_debug_frame, ByCall
    <3>2. secOff \in [T!Sought -> Nat] /\ \A s \in T!Sought : AsShown(s)
      BY <2>3, <3>1, PairsFromTable
    <3>3. \A s \in T!Sought : AsShown(s)'
      <4>1. UNCHANGED TablePart /\ \A s \in T!Sought : Start(s)' = Start(s)
        BY <2>1 DEF TablePart, HeaderPart, Start
      <4> QED
        BY <3>2, <4>1, PairsStay
    <3> QED
      BY <1>0, <2>1, <2>2, <2>3, <2>5, <3>2, <3>3
      DEF PairsHold, ByCall, Moved, PairsAsShown, HandlesLeft
  <2>6. CASE call \in {3, 8}
    <3>1. UNCHANGED TablePart /\ \A s : Start(s)' = Start(s)
      BY <2>1 DEF TablePart, HeaderPart, Start
    <3>2. PairsAsShown'
      BY <1>0, <2>1, <2>6, <3>1, PairsStay DEF PairsAsShown
    <3>3. ByCall' /\ Moved'
      BY <1>0, <2>1, <2>2, <2>3, <2>6 DEF ByCall, Moved
    <3>4. HandlesLeft'
      BY <1>0, <2>1, <2>3, <2>6, <3>1 DEF HandlesLeft
    <3> QED
      BY <3>2, <3>3, <3>4 DEF PairsHold
  <2> QED
    BY <2>1, <2>4, <2>5, <2>6
<1>4. ASSUME NEW s \in Strings, dump_section(s)
      PROVE  PairsHold'
  <2>1. /\ call \in 4 .. 7 /\ call' = call /\ D!Next /\ UNCHANGED HeaderPart
        /\ UNCHANGED <<secOff, secSize, shdrLocals, left, pos>> /\ Mine' = Mine
        /\ Mine = s /\ s # ".text"
    BY <1>0, <1>4, PartNumbers DEF dump_section, main, textLocals, HeaderPart, Mine, Strings
  <2>2. HeaderKnown' /\ disk' = disk /\ ehdrAt' = ehdrAt
    BY <1>0, <2>1, HeaderKnownStays DEF ByCall, HeaderPart, ehdrLocals
  <2>3. UNCHANGED TablePart /\ \A t : Start(t)' = Start(t)
    BY <2>1 DEF TablePart, HeaderPart, Start
  <2>4. at' = "returned" /\ fileHandle' = "open" => Start(Mine) = 0
    BY <1>0, <2>1 DEF D!Next, D!Open, D!NoSection, D!Load, D!LoadCrash, D!PrintChar, D!EndLoop, D!Close, Start
  <2>5. ByCall' /\ Moved'
    BY <1>0, <2>1, <2>2 DEF ByCall, Moved
  <2>6. PairsAsShown' /\ HandlesLeft'
    BY <1>0, <2>1, <2>3, <2>4, PairsStay DEF PairsAsShown, HandlesLeft
  <2> QED
    BY <2>5, <2>6 DEF PairsHold
<1>5. CASE disassemble_text_section
  <2>1. /\ call = 9 /\ call' = call /\ X!Next /\ UNCHANGED HeaderPart
        /\ UNCHANGED <<secSize, shdrLocals, left>> /\ Mine' = Mine /\ Mine = ".text"
        /\ \E n \in {0, 2, 4} : secOff' = [secOff EXCEPT ![".text"] = @ + n]
    BY <1>0, <1>5, PartNumbers DEF disassemble_text_section, main, HeaderPart, Mine
  <2>2. HeaderKnown' /\ disk' = disk /\ ehdrAt' = ehdrAt
    BY <1>0, <2>1, HeaderKnownStays DEF ByCall, HeaderPart, ehdrLocals
  <2>3. /\ pos' \in Nat /\ secOff' \in [T!Sought -> Nat]
        /\ \A s \in T!Sought : Start(s)' = Start(s)
        /\ at' \in {"entry", "opened"} => pos' = pos /\ at = "entry"
        /\ at' = "returned" /\ fileHandle' = "open" => secOff[".text"] = 0 /\ pos' = pos /\ at = "opened"
    <3>1. pos \in Nat /\ secOff \in [T!Sought -> Nat]
      BY <1>0, <2>1 DEF Moved
    <3> QED
      BY <2>1, <3>1, SweepMoves
  <2>4. UNCHANGED TablePart
    BY <2>1 DEF TablePart, HeaderPart
  <2>5. ByCall' /\ Moved'
    BY <1>0, <2>1, <2>2, <2>3 DEF ByCall, Moved
  <2>6. PairsAsShown'
    BY <1>0, <2>1, <2>3, <2>4, PairsStay DEF PairsAsShown
  <2>7. at' = "returned" /\ fileHandle' = "open" => Start(".text") = 0
    BY <1>0, <2>1, <2>3 DEF Moved, Start
  <2>8. HandlesLeft'
    BY <1>0, <2>1, <2>3, <2>7, PartNumbers DEF HandlesLeft
  <2> QED
    BY <2>5, <2>6, <2>8 DEF PairsHold
<1>6. CASE PartDone
  <2>1. /\ call' = call + 1 /\ call \in 4 .. 7 \cup {9} /\ at = "returned" /\ at' = "entry"
        /\ fileHandle' = "none" /\ UNCHANGED HeaderPart /\ UNCHANGED <<secOff, secSize, shdrLocals, pos>>
        /\ left' = IF fileHandle = "open" THEN left \cup {Mine} ELSE left
    <3>1. call <= 9 /\ at = "returned"
      BY <1>0, <1>6, CallNumbers DEF PartDone
    <3>2. call \notin {1, 2, 3, 8}
      BY <1>0, <3>1 DEF ByCall
    <3>3. call \in 4 .. 7 \cup {9}
      BY <1>0, <3>1, <3>2
    <3>4. Calls[call] = Mine
      BY <1>0, <3>3, PartNumbers
    <3>5. UNCHANGED HeaderPart /\ UNCHANGED <<secOff, secSize, shdrLocals, pos>>
      BY <1>6 DEF PartDone, HeaderPart, textLocals
    <3> QED
      BY <1>6, <3>1, <3>3, <3>4, <3>5 DEF PartDone
  <2>2. HeaderKnown' /\ disk' = disk /\ ehdrAt' = ehdrAt
    BY <1>0, <2>1, HeaderKnownStays DEF ByCall, HeaderPart, ehdrLocals
  <2>3. UNCHANGED TablePart /\ \A t : Start(t)' = Start(t)
    BY <2>1 DEF TablePart, HeaderPart, Start
  <2>4. ByCall' /\ Moved'
    BY <1>0, <2>1, <2>2 DEF ByCall, Moved
  <2>5. PairsAsShown'
    BY <1>0, <2>1, <2>3, PairsStay DEF PairsAsShown
  <2>6. HandlesLeft'
    BY <1>0, <2>1, <2>3, PartNumbers DEF HandlesLeft
  <2> QED
    BY <2>4, <2>5, <2>6 DEF PairsHold
<1>7. CASE UNCHANGED vars
  <2>1. UNCHANGED <<main, HeaderPart, secOff, secSize, shdrLocals, at, fileHandle, pos>>
    BY <1>7 DEF vars, HeaderPart, textLocals, main
  <2>2. HeaderKnown' /\ call' = call /\ left' = left /\ disk' = disk /\ ehdrAt' = ehdrAt /\ Mine' = Mine
    BY <1>0, <2>1, HeaderKnownStays DEF ByCall, HeaderPart, ehdrLocals, main, Mine
  <2>3. call = 2 => Running'
    <3>1. UNCHANGED TP!vars
      BY <2>1 DEF HeaderPart, ehdrGlobals, shdrLocals, TP!vars, TP!inputs, Table, Present, Seekable, Number
    <3> QED
      BY <1>0, <3>1, RunningNext DEF ByCall
  <2>4. UNCHANGED TablePart /\ \A t : Start(t)' = Start(t)
    BY <2>1 DEF TablePart, HeaderPart, Start
  <2>5. ByCall' /\ Moved'
    BY <1>0, <2>1, <2>2, <2>3 DEF ByCall, Moved, Fresh, shdrLocals
  <2>6. PairsAsShown' /\ HandlesLeft'
    BY <1>0, <2>1, <2>2, <2>4, PairsStay DEF PairsAsShown, HandlesLeft
  <2> QED
    BY <2>5, <2>6 DEF PairsHold
<1> QED
  BY <1>1, <1>2, <1>3, <1>4, <1>5, <1>6, <1>7
  DEF Next, Strings, dump_debug_str_section, dump_comment_section, dump_riscv_attributes_section,
      dump_GCC_command_line_section

(***************************************************************************)
(* PairsAsShown.  What is dumped and disassembled are the sections that    *)
(* the table shows, for any number of sections, however damaged.  Headers  *)
(* that end early and entries of more than 64 bytes are left out.          *)
(***************************************************************************)
THEOREM PairsOfTableShown == Spec => []PairsAsShown
<1>1. PairsHold => PairsAsShown
  BY DEF PairsHold
<1> QED
  BY <1>1, PairsInit, PairsNext, PTL DEF Spec

(***************************************************************************)
(* LeftOpen.  A handle stays open only for a section that the table does   *)
(* not show, or shows at offset zero.                                      *)
(***************************************************************************)
THEOREM LeftOpenOnlyIfAbsent == Spec => []LeftOpen
<1>1. PairsHold => LeftOpen
  <2> SUFFICES ASSUME PairsHold, NEW s \in left, NEW k \in T!Namesakes(s, Number),
                      \A j \in T!Namesakes(s, Number) : j <= k
               PROVE  shdr[k].offset = 0
    BY DEF LeftOpen
  <2>1. s \in T!Sought /\ Start(s) = 0 /\ call > 2 /\ AsShown(s)
    BY DEF PairsHold, HandlesLeft, PairsAsShown, ByCall
  <2>2. PICK m \in T!Namesakes(s, Number) :
          (\A j \in T!Namesakes(s, Number) : j <= m) /\ Start(s) = shdr[m].offset
    BY <2>1 DEF AsShown
  <2>3. m = k
    <3>1. m \in Int /\ k \in Int
      BY DEF T!Namesakes
    <3> QED
      BY <2>2, <3>1
  <2> QED
    BY <2>1, <2>2, <2>3
<1> QED
  BY <1>1, PairsInit, PairsNext, PTL DEF Spec

-----------------------------------------------------------------------------
(***************************************************************************)
(* The whole program keeps the promise of Report: for ordinary files with  *)
(* any number of sections, of any contents and sizes.  The invariants that *)
(* the stages' own proofs rest on are carried through the nine calls, each *)
(* with what ties it to the file: the globals of the header stage to the   *)
(* section headers, the pairs to the file's own directory, the characters  *)
(* and lines to the bytes at the place the directory names.                *)
(***************************************************************************)
(* A dump with its proofs, on the pair of the function called.             *)
DP == INSTANCE StringDumpProofs WITH
  Offs <- Nat, Sizes <- Nat, Chars <- Units, NUL <- 0, Blank <- 32, Truncated <- TRUE,
  off <- secOff[Mine], size <- secSize[Mine], contents <- InFile(secOff[Mine], secSize[Mine])

(* The sweep with its proofs.                                              *)
XP == INSTANCE TextSweepProofs WITH
  TextOffs <- Nat, Sizes <- Nat, RiscvLens <- {0, 32, 64}, WellFormedOnly <- FALSE,
  Truncated <- TRUE, shdrTextOff <- secOff[".text"], shdrTextSize <- secSize[".text"],
  text <- InFile(textOff, secSize[".text"])

LEMMA DumpAssumed == DP!DumpAssumption
BY ParserAssumption DEF ParserAssumption, DP!DumpAssumption

LEMMA SweepAssumed == XP!SweepAssumption
BY ParserAssumption DEF ParserAssumption, XP!SweepAssumption, Byte, XP!Byte

(* Their proofs are about the functions that the program runs.             *)
LEMMA DumpNext == D!Next => DP!Next
BY DEF D!Next, DP!Next, D!Open, DP!Open, D!NoSection, DP!NoSection, D!Load, DP!Load, D!LoadCrash,
  DP!LoadCrash, D!PrintChar, DP!PrintChar, D!EndLoop, DP!EndLoop, D!Close, DP!Close,
  D!section, DP!section, D!Visible, DP!Visible

LEMMA SweepNext == X!Next => XP!Next
<1>1. /\ \A w : X!inst_length(w) = XP!inst_length(w)
      /\ \A b : X!get2(b) = XP!get2(b) /\ X!get4(b) = XP!get4(b)
  BY DEF X!inst_length, XP!inst_length, X!get2, XP!get2, X!get4, XP!get4, X!int8, XP!int8
<1>2. /\ \A o, n : X!Behind(o, n) = XP!Behind(o, n)
      /\ \A o, n, heap : X!Fetch(o, n, heap) = XP!Fetch(o, n, heap)
      /\ \A a, b : X!MaxOf(a, b) = XP!MaxOf(a, b)
  BY DEF X!Behind, XP!Behind, X!Fetch, XP!Fetch, X!MaxOf, XP!MaxOf
<1>3. \A inst, len : X!Emit(inst, len) <=> XP!Emit(inst, len)
  BY DEF X!Emit, XP!Emit, X!Line, XP!Line, X!globals, XP!globals, X!loaded, XP!loaded
<1>4. X!Iterating <=> XP!Iterating
  BY DEF X!Iterating, XP!Iterating
<1>5. X!Uncompressed => XP!Uncompressed
  BY <1>1, <1>2, <1>3, <1>4 DEF X!Uncompressed, XP!Uncompressed
<1>6. X!Compressed => XP!Compressed
  BY <1>1, <1>2, <1>3, <1>4 DEF X!Compressed, XP!Compressed
<1>7. X!Unsupported => XP!Unsupported
  BY <1>1, <1>2, <1>4 DEF X!Unsupported, XP!Unsupported, X!globals, XP!globals, X!loaded, XP!loaded
<1>8. /\ X!Open => XP!Open
      /\ X!NoTextSection => XP!NoTextSection
      /\ X!LoadText => XP!LoadText
      /\ X!LoadCrash => XP!LoadCrash
      /\ X!Segfault => XP!Segfault
      /\ X!Finish => XP!Finish
  BY DEF X!Open, XP!Open, X!NoTextSection, XP!NoTextSection, X!LoadText, XP!LoadText, X!LoadCrash,
    XP!LoadCrash, X!Segfault, XP!Segfault, X!Finish, XP!Finish, X!globals, XP!globals, X!loaded, XP!loaded
<1> QED
  BY <1>5, <1>6, <1>7, <1>8 DEF X!Next, XP!Next

-----------------------------------------------------------------------------
(***************************************************************************)
(* The invariant, beside PairsHold and ClassReachesLines.  First, what the *)
(* first two stages leave: the fields of the header, and a table whose     *)
(* entries are the file's.                                                 *)
(***************************************************************************)
TableStands ==
  /\ HP!FieldsTravel
  /\ call > 1 => TP!CopiedSoFar /\ TP!NamedByFile
  /\ call > 2 => shdrAt = "returned" /\ TP!TypeOK

(* What has been reported when.                                            *)
Reported == CASE call < 4 -> 0 [] call \in 4 .. 8 -> call - 4 [] call > 8 -> call - 5

ReportGrows ==
  /\ \E S : report \in Seq(S)
  /\ Len(report) = Reported

(* Each function starts with locals of its own.                            *)
LocalsFresh ==
  /\ at = "entry" => /\ fileHandle = "none" /\ got = 0
                     /\ strBuffer = << >> /\ charIndex = 0 /\ printed = << >>
  /\ call < 9 => /\ instBuffer = << >> /\ pos = 0 /\ reach = 0
                 /\ lines = << >> /\ complained = FALSE

(* A dump, and what it has of the file.                                    *)
DumpFromFile ==
  call \in 4 .. 7 =>
    /\ DP!TypeOK /\ DP!Placed /\ DP!EndReached
    /\ at \in {"print", "close"} \/ (at = "returned" /\ secOff[Mine] # 0) =>
         got = Available(secOff[Mine], secSize[Mine])

(* The sweep: `textOff` is where it started.                               *)
SweepFromFile ==
  call = 9 =>
    /\ XP!TypeInv /\ XP!Progress /\ XP!Consecutive
    /\ XP!FrontFromFile /\ XP!WordsFromFile /\ XP!UnitsListed
    /\ textOff = Start(".text")
    /\ at = "sweep" \/ fileHandle = "closed" => got = Available(textOff, secSize[".text"])
    /\ at = "returned" /\ fileHandle # "closed" => lines = << >> /\ textOff = 0

Stages == PairsHold /\ ClassReachesLines

ReportInv == TableStands /\ ReportGrows /\ LocalsFresh /\ DumpFromFile /\ SweepFromFile

-----------------------------------------------------------------------------
(* The steps of the program, by the call they belong to.                   *)
Entering == call \in {1, 2, 3, 8} /\ Proceed

LEMMA StepKinds ==
  ASSUME Stages, [Next]_vars
  PROVE  \/ call = 1 /\ process_elf_header
         \/ call = 2 /\ process_section_header
         \/ Entering /\ (call = 2 => shdrAt = "returned")
         \/ call \in 4 .. 7 /\ \E s \in Strings : Mine = s /\ dump_section(s)
         \/ call = 9 /\ Mine = ".text" /\ disassemble_text_section
         \/ call \in 4 .. 7 \cup {9} /\ PartDone
         \/ UNCHANGED vars
<1>0. call \in 1 .. 10 /\ ByCall
  BY DEF Stages, PairsHold, ByCall
<1>1. CASE process_elf_header
  BY <1>0, <1>1, CallNumbers DEF process_elf_header
<1>2. CASE process_section_header
  BY <1>0, <1>2, PartNumbers DEF process_section_header
<1>3. CASE HeaderDone \/ process_program_header \/ parser_debug_frame
  BY <1>0, <1>3, CallNumbers, PartNumbers
  DEF HeaderDone, process_program_header, parser_debug_frame, Entering
<1>4. ASSUME NEW s \in Strings, dump_section(s)
      PROVE  call \in 4 .. 7 /\ Mine = s
  BY <1>0, <1>4, PartNumbers DEF dump_section
<1>5. CASE disassemble_text_section
  BY <1>0, <1>5, PartNumbers DEF disassemble_text_section
<1>6. CASE PartDone
  <2>1. call <= 9 /\ at = "returned"
    BY <1>0, <1>6, CallNumbers DEF PartDone
  <2>2. call \notin {1, 2, 3, 8}
    BY <1>0, <2>1 DEF ByCall
  <2> QED
    BY <1>0, <1>6, <2>1, <2>2
<1> QED
  BY <1>1, <1>2, <1>3, <1>4, <1>5, <1>6
  DEF Next, Strings, dump_debug_str_section, dump_comment_section, dump_riscv_attributes_section,
      dump_GCC_command_line_section

-----------------------------------------------------------------------------
(* TableStands.                                                            *)
LEMMA FieldsStay ==
  ASSUME HP!FieldsTravel, UNCHANGED HeaderPart
  PROVE  HP!FieldsTravel'
<1>1. UNCHANGED HP!vars
  BY DEF HeaderPart, ehdrGlobals, ehdrLocals, HP!vars, HP!globals
<1> QED
  BY <1>1, HeaderAssumed, HP!FieldsTravelNext

(* No stage after the second touches the table; the sweep counts in a pair.*)
LEMMA TableKept ==
  ASSUME TableStands, UNCHANGED <<HeaderPart, shdrLocals, secSize>>,
         call \in 3 .. 10, secOff' \in [T!Sought -> Nat]
  PROVE  TableStands'
<1>1. UNCHANGED TP!inputs /\ UNCHANGED shdrLocals
  BY DEF HeaderPart, ehdrGlobals, TP!inputs, Table, Present, Seekable, Number
<1>2. TP!CopiedSoFar' /\ TP!NamedByFile'
  <2>1. UNCHANGED <<TP!inputs, shdrAt, shdrIndex, shdr, i_shdr>>
    BY <1>1 DEF shdrLocals
  <2>2. (TP!Intact' <=> TP!Intact) /\ \A k : TP!FileName(k)' = TP!FileName(k)
    BY <2>1 DEF TP!Intact, TP!FileName, TP!inputs
  <2>3. \A k : TP!Same(k)' <=> TP!Same(k)
    BY <2>1 DEF TP!Same, TP!inputs
  <2>4. Number' = Number
    BY <2>1 DEF TP!inputs
  <2>5. TP!CopiedSoFar /\ TP!NamedByFile
    BY DEF TableStands
  <2>6. TP!CopiedSoFar'
    BY <2>1, <2>2, <2>3, <2>4, <2>5 DEF TP!CopiedSoFar
  <2>7. TP!NamedByFile'
    BY <2>1, <2>2, <2>4, <2>5 DEF TP!NamedByFile
  <2> QED
    BY <2>6, <2>7
<1>3. shdrAt' = "returned" /\ TP!TypeOK'
  <2>1. UNCHANGED <<TP!inputs, shdrAt, shdrIndex, shdr, i_shdr, rows, secSize>>
    BY <1>1 DEF shdrLocals
  <2>2. secOff' \in [TP!Sought -> Nat] /\ TP!TypeOK
    BY TableTerms DEF TableStands
  <2>3. TP!Shown' = TP!Shown
    BY DEF TP!Shown
  <2> QED
    BY <2>1, <2>2, <2>3 DEF TableStands, TP!TypeOK, TP!inputs
<1>4. HP!FieldsTravel'
  BY FieldsStay DEF TableStands
<1> QED
  BY <1>2, <1>3, <1>4 DEF TableStands

LEMMA TableStandsInit == Init => TableStands
<1> SUFFICES ASSUME Init
             PROVE  TableStands
  OBVIOUS
<1>1. HP!FieldsTravel
  BY HeaderAssumed, HeaderInit, HP!InitFieldsTravel DEF Init
<1>2. call = 1
  BY DEF Init
<1> QED
  BY <1>1, <1>2 DEF TableStands

LEMMA TableStandsNext == Stages /\ Stages' /\ TableStands /\ [Next]_vars => TableStands'
<1> SUFFICES ASSUME Stages, Stages', TableStands, [Next]_vars
             PROVE  TableStands'
  OBVIOUS
<1>0. call \in 1 .. 10 /\ ByCall /\ Moved /\ Moved'
  BY DEF Stages, PairsHold, ByCall
<1>1. CASE call = 1 /\ process_elf_header
  <2>1. call' = 1 /\ H!Next
    BY <1>1 DEF process_elf_header, main
  <2>2. HP!FieldsTravel'
    BY <2>1, HeaderAssumed, HeaderNext, HP!FieldsTravelNext DEF TableStands
  <2> QED
    BY <2>1, <2>2 DEF TableStands
<1>2. CASE call = 2 /\ process_section_header
  <2>1. call' = 2 /\ T!Next /\ UNCHANGED HeaderPart
    BY <1>2 DEF process_section_header, main, HeaderPart
  <2>2. HP!FieldsTravel'
    BY <2>1, FieldsStay DEF TableStands
  <2>3. TP!TypeOK /\ TP!Unnamed /\ TP!CopiedSoFar /\ TP!NamedByFile
    BY <1>0, <1>2 DEF ByCall, Running, TP!NamesInv, TableStands
  <2>4. TP!CopiedSoFar' /\ TP!NamedByFile'
    BY <2>1, <2>3, TableAssumed, TableNext, TP!CopiedNext, TP!NamedNext
  <2> QED
    BY <2>1, <2>2, <2>4 DEF TableStands
<1>3. CASE Entering /\ (call = 2 => shdrAt = "returned")
  <2>1. call' = call + 1 /\ UNCHANGED <<HeaderPart, shdrLocals, secSize, secOff>>
    BY <1>3 DEF Entering, Proceed, HeaderPart
  <2>2. HP!FieldsTravel'
    BY <2>1, FieldsStay DEF TableStands
  <2>3. CASE call = 1
    <3>1. shdrAt' = "entry" /\ shdrIndex' = 0
      BY <1>0, <2>1, <2>3 DEF ByCall, Fresh, shdrLocals
    <3>2. TP!CopiedSoFar' /\ TP!NamedByFile'
      BY <3>1 DEF TP!CopiedSoFar, TP!NamedByFile
    <3> QED
      BY <2>1, <2>2, <2>3, <3>2 DEF TableStands
  <2>4. CASE call = 2
    <3>1. shdrAt = "returned" /\ TP!TypeOK /\ TP!CopiedSoFar /\ TP!NamedByFile /\ TP!Unnamed
      BY <1>0, <1>3, <2>4 DEF ByCall, Running, TP!NamesInv, TableStands
    <3>2. UNCHANGED TP!vars
      BY <2>1 DEF HeaderPart, ehdrGlobals, shdrLocals, TP!vars, TP!inputs, Table, Present, Seekable, Number
    <3>3. TP!TypeOK' /\ TP!CopiedSoFar' /\ TP!NamedByFile'
      BY <3>1, <3>2, TableAssumed, TP!TypeNext, TP!CopiedNext, TP!NamedNext
    <3>4. shdrAt' = "returned"
      BY <2>1, <3>1 DEF shdrLocals
    <3> QED
      BY <2>1, <2>2, <2>4, <3>3, <3>4 DEF TableStands
  <2>5. CASE call > 2
    BY <1>0, <2>1, <2>5, TableKept DEF Moved
  <2> QED
    BY <1>3, <2>3, <2>4, <2>5 DEF Entering
<1>4. CASE call \in 4 .. 7 /\ \E s \in Strings : Mine = s /\ dump_section(s)
  <2>1. UNCHANGED <<HeaderPart, shdrLocals, secSize>> /\ call' = call
    BY <1>4 DEF dump_section, main, HeaderPart
  <2> QED
    BY <1>0, <1>4, <2>1, TableKept DEF Moved
<1>5. CASE call = 9 /\ Mine = ".text" /\ disassemble_text_section
  <2>1. UNCHANGED <<HeaderPart, shdrLocals, secSize>> /\ call' = call
    BY <1>5 DEF disassemble_text_section, main, HeaderPart
  <2> QED
    BY <1>0, <1>5, <2>1, TableKept DEF Moved
<1>6. CASE call \in 4 .. 7 \cup {9} /\ PartDone
  <2>1. UNCHANGED <<HeaderPart, shdrLocals, secSize>> /\ call' = call + 1
    BY <1>6 DEF PartDone, HeaderPart
  <2> QED
    BY <1>0, <1>6, <2>1, TableKept DEF Moved
<1>7. CASE UNCHANGED vars
  <2>1. call' = call /\ UNCHANGED <<HeaderPart, shdrLocals, secSize, secOff>>
    BY <1>7 DEF vars, main, HeaderPart
  <2>2. UNCHANGED TP!vars /\ HP!FieldsTravel'
    BY <2>1, FieldsStay
    DEF TableStands, HeaderPart, ehdrGlobals, shdrLocals, TP!vars, TP!inputs, Table, Present, Seekable, Number
  <2>3. CASE call <= 2
    <3>1. ASSUME call = 2
          PROVE  TP!CopiedSoFar' /\ TP!NamedByFile'
      <4>1. TP!TypeOK /\ TP!Unnamed /\ TP!CopiedSoFar /\ TP!NamedByFile
        BY <1>0, <3>1 DEF ByCall, Running, TP!NamesInv, TableStands
      <4> QED
        BY <2>2, <4>1, TableAssumed, TP!CopiedNext, TP!NamedNext
    <3> QED
      BY <1>0, <2>1, <2>2, <2>3, <3>1 DEF TableStands
  <2>4. CASE call > 2
    BY <1>0, <2>1, <2>4, TableKept DEF Moved
  <2> QED
    BY <1>0, <2>3, <2>4
<1> QED
  BY <1>1, <1>2, <1>3, <1>4, <1>5, <1>6, <1>7, StepKinds

-----------------------------------------------------------------------------
(* ReportGrows and LocalsFresh.                                            *)
LEMMA ReportInit == Init => ReportGrows /\ LocalsFresh
<1> SUFFICES ASSUME Init
             PROVE  ReportGrows /\ LocalsFresh
  OBVIOUS
<1>1. call = 1 /\ report = << >> /\ report \in Seq({}) /\ Len(report) = 0
  BY DEF Init
<1>2. LocalsFresh
  BY DEF Init, LocalsFresh
<1> QED
  BY <1>1, <1>2 DEF ReportGrows, Reported

LEMMA ReportAppended ==
  ASSUME ReportGrows, NEW part, report' = Append(report, part)
  PROVE  /\ \E S : report' \in Seq(S)
         /\ Len(report') = Len(report) + 1
         /\ report'[Len(report')] = part
<1>1. PICK S : report \in Seq(S)
  BY DEF ReportGrows
<1>2. report \in Seq(S \cup {part})
  BY <1>1
<1> QED
  BY <1>2

LEMMA ReportNext == Stages /\ ReportGrows /\ LocalsFresh /\ [Next]_vars => (ReportGrows /\ LocalsFresh)'
<1> SUFFICES ASSUME Stages, ReportGrows, LocalsFresh, [Next]_vars
             PROVE  ReportGrows' /\ LocalsFresh'
  OBVIOUS
<1>0. call \in 1 .. 10 /\ (call \in {1, 2, 3, 8} => at = "entry")
  BY DEF Stages, PairsHold, ByCall
<1>1. CASE (call = 1 /\ process_elf_header) \/ (call = 2 /\ process_section_header) \/ UNCHANGED vars
  <2>1. UNCHANGED <<call, report, at, fileHandle, got, dumpLocals, textLocals>>
    BY <1>1 DEF process_elf_header, process_section_header, main, vars
  <2>2. LocalsFresh'
    BY <2>1 DEF LocalsFresh, dumpLocals, textLocals
  <2> QED
    BY <2>1, <2>2 DEF ReportGrows, Reported
<1>2. CASE Entering
  <2>1. UNCHANGED <<report, at, fileHandle, got, dumpLocals, textLocals>> /\ call' = call + 1
    BY <1>2 DEF Entering, Proceed
  <2>2. LocalsFresh'
    BY <1>0, <2>1 DEF LocalsFresh, dumpLocals, textLocals
  <2>3. Reported' = Reported
    BY <1>2, <2>1 DEF Entering, Reported
  <2> QED
    BY <2>1, <2>2, <2>3 DEF ReportGrows
<1>3. CASE call \in 4 .. 7 /\ \E s \in Strings : Mine = s /\ dump_section(s)
  <2>1. UNCHANGED <<call, report, textLocals>> /\ at' # "entry"
    BY <1>3 DEF dump_section, main, Delivers
  <2>2. LocalsFresh'
    BY <1>3, <2>1 DEF LocalsFresh, textLocals
  <2> QED
    BY <2>1, <2>2 DEF ReportGrows, Reported
<1>4. CASE call = 9 /\ Mine = ".text" /\ disassemble_text_section
  <2>1. UNCHANGED <<call, report>> /\ at' # "entry"
    BY <1>4 DEF disassemble_text_section, main, Delivers
  <2>2. LocalsFresh'
    BY <1>4, <2>1 DEF LocalsFresh
  <2> QED
    BY <2>1, <2>2 DEF ReportGrows, Reported
<1>5. CASE call \in 4 .. 7 \cup {9} /\ PartDone
  <2>1. /\ call' = call + 1 /\ UNCHANGED textLocals
        /\ fileHandle' = "none" /\ got' = 0
        /\ strBuffer' = << >> /\ charIndex' = 0 /\ printed' = << >>
        /\ \E part : report' = Append(report, part)
    BY <1>5 DEF PartDone
  <2>2. LocalsFresh'
    BY <1>5, <2>1 DEF LocalsFresh, textLocals
  <2>3. (\E S : report' \in Seq(S)) /\ Len(report') = Len(report) + 1
    BY <2>1, ReportAppended
  <2>4. Reported' = Reported + 1 /\ Reported \in Int
    BY <1>5, <2>1 DEF Reported
  <2>5. ReportGrows'
    BY <2>3, <2>4 DEF ReportGrows
  <2> QED
    BY <2>2, <2>5
<1> QED
  BY <1>1, <1>2, <1>3, <1>4, <1>5, StepKinds

-----------------------------------------------------------------------------
(* What fread delivers has the type of the characters and bytes.           *)
LEMMA InFileTyped ==
  ASSUME disk \in Disks, NEW offset, NEW n
  PROVE  InFile(offset, n) \in [0 .. n - 1 -> Units]
<1>1. 0 \in Units /\ \A o \in DOMAIN disk.bytes : disk.bytes[o] \in Units
  BY ParserAssumption DEF ParserAssumption
<1> QED
  BY <1>1 DEF InFile

(* The pairs have theirs.                                                  *)
LEMMA PairsTyped ==
  ASSUME Stages, TableStands, call > 2
  PROVE  /\ secOff \in [T!Sought -> Nat] /\ secSize \in [T!Sought -> Nat]
         /\ Mine \in T!Sought /\ ".text" \in T!Sought
<1>1. call \in 1 .. 10 /\ secOff \in [T!Sought -> Nat]
  BY DEF Stages, PairsHold, ByCall, Moved
<1>2. secSize \in [T!Sought -> Nat]
  BY TableTerms DEF TableStands, TP!TypeOK
<1>3. Mine \in T!Sought
  BY <1>1, PartNumbers
<1> QED
  BY <1>1, <1>2, <1>3 DEF T!Sought

-----------------------------------------------------------------------------
(* DumpFromFile.  A function starts in a state that its own proofs start   *)
(* from.                                                                   *)
LEMMA DumpStarts ==
  Stages /\ TableStands /\ LocalsFresh /\ at = "entry" /\ call \in 4 .. 7
    => DP!TypeOK /\ DP!Placed /\ DP!EndReached
<1> SUFFICES ASSUME Stages, TableStands, LocalsFresh, at = "entry", call \in 4 .. 7
             PROVE  DP!TypeOK /\ DP!Placed /\ DP!EndReached
  OBVIOUS
<1>1. disk \in Disks /\ secOff[Mine] \in Nat /\ secSize[Mine] \in Nat
  BY PairsTyped DEF Stages, PairsHold, ByCall
<1>2. /\ fileHandle = "none" /\ got = 0 /\ strBuffer = << >> /\ charIndex = 0 /\ printed = << >>
  BY DEF LocalsFresh
<1>3. InFile(secOff[Mine], secSize[Mine]) \in [0 .. secSize[Mine] - 1 -> Units]
  BY <1>1, InFileTyped
<1>4. printed \in Seq(Units) /\ Len(printed) = 0
  BY <1>2
<1>5. DP!TypeOK
  BY <1>1, <1>2, <1>3, <1>4 DEF DP!TypeOK
<1>6. DP!Placed
  BY <1>1, <1>2, <1>4 DEF DP!Placed, DP!BufferFromFile, DP!PlacedAsInFile
<1> QED
  BY <1>5, <1>6 DEF DP!EndReached

LEMMA DumpStartsNext ==
  Stages' /\ TableStands' /\ LocalsFresh' /\ (at = "entry")' /\ (call \in 4 .. 7)'
    => DP!TypeOK' /\ DP!Placed' /\ DP!EndReached'
BY DumpStarts, PTL

LEMMA DumpFromFileInit == Init => DumpFromFile
BY DEF Init, DumpFromFile

LEMMA DumpFromFileNext ==
  Stages /\ Stages' /\ TableStands' /\ LocalsFresh' /\ DumpFromFile /\ [Next]_vars => DumpFromFile'
<1> SUFFICES ASSUME Stages, Stages', TableStands', LocalsFresh', DumpFromFile, [Next]_vars, call' \in 4 .. 7
             PROVE  DumpFromFile'
  BY DEF DumpFromFile
<1>0. call \in 1 .. 10
  BY DEF Stages, PairsHold, ByCall
<1>1. CASE call \in 4 .. 7 /\ \E s \in Strings : Mine = s /\ dump_section(s)
  <2>1. D!Next /\ Delivers /\ UNCHANGED <<call, disk, secOff, secSize>> /\ Mine' = Mine
    BY <1>1 DEF dump_section, main, Mine
  <2>2. DP!TypeOK /\ DP!Placed /\ DP!EndReached
    BY <1>1 DEF DumpFromFile
  <2>3. DP!TypeOK' /\ DP!Placed' /\ DP!EndReached'
    BY <2>1, <2>2, DumpAssumed, DumpNext, DP!TypeNext, DP!PlacedNext, DP!EndNext
  <2>4. Available(secOff[Mine], secSize[Mine])' = Available(secOff[Mine], secSize[Mine])
    BY <2>1 DEF Available
  <2>5. ASSUME at' \in {"print", "close"} \/ (at' = "returned" /\ secOff[Mine] # 0)
        PROVE  got' = Available(secOff[Mine], secSize[Mine])
    <3>1. CASE at = "opened"
      <4>1. at' = "print"
        BY <2>1, <2>5, <3>1 DEF D!Next, D!Open, D!NoSection, D!Load, D!LoadCrash, D!PrintChar, D!EndLoop, D!Close
      <4> QED
        BY <2>1, <3>1, <4>1 DEF Delivers
    <3>2. CASE at # "opened"
      <4>1. got' = got
        BY <2>1, <3>2 DEF Delivers
      <4>2. at \in {"print", "close"}
        BY <2>1, <2>5, <3>2 DEF D!Next, D!Open, D!NoSection, D!Load, D!LoadCrash, D!PrintChar, D!EndLoop, D!Close
      <4> QED
        BY <1>1, <4>1, <4>2 DEF DumpFromFile
    <3> QED
      BY <3>1, <3>2
  <2> QED
    BY <2>1, <2>3, <2>4, <2>5 DEF DumpFromFile
<1>2. CASE Entering \/ (call \in 4 .. 7 \cup {9} /\ PartDone)
  <2>1. at' = "entry"
    BY <1>2 DEF Entering, Proceed, PartDone, Stages, PairsHold, ByCall
  <2>2. DP!TypeOK' /\ DP!Placed' /\ DP!EndReached'
    BY <2>1, DumpStartsNext
  <2> QED
    BY <2>1, <2>2 DEF DumpFromFile
<1>3. CASE UNCHANGED vars
  <2>1. UNCHANGED <<call, disk, secOff, secSize, at, fileHandle, got, dumpLocals>> /\ Mine' = Mine
    BY <1>3 DEF vars, main, Mine
  <2>2. UNCHANGED DP!vars
    BY <2>1 DEF DP!vars, dumpLocals, InFile
  <2>3. DP!TypeOK /\ DP!Placed /\ DP!EndReached
    BY <2>1 DEF DumpFromFile
  <2>4. DP!TypeOK' /\ DP!Placed' /\ DP!EndReached'
    BY <2>2, <2>3, DumpAssumed, DP!TypeNext, DP!PlacedNext, DP!EndNext
  <2>5. Available(secOff[Mine], secSize[Mine])' = Available(secOff[Mine], secSize[Mine])
    BY <2>1 DEF Available
  <2> QED
    BY <2>1, <2>4, <2>5 DEF DumpFromFile
<1>4. CASE (call = 1 /\ process_elf_header) \/ (call = 2 /\ process_section_header)
           \/ (call = 9 /\ disassemble_text_section)
  <2>1. call' = call
    BY <1>4 DEF process_elf_header, process_section_header, disassemble_text_section, main
  <2> QED
    BY <1>4, <2>1
<1> QED
  BY <1>1, <1>2, <1>3, <1>4, StepKinds

-----------------------------------------------------------------------------
(* SweepFromFile.                                                          *)
SweepFresh ==
  /\ at = "entry" /\ fileHandle = "none" /\ got = 0
  /\ instBuffer = << >> /\ pos = 0 /\ reach = 0 /\ lines = << >> /\ complained = FALSE

SweepInv ==
  /\ XP!TypeInv /\ XP!Progress /\ XP!Consecutive
  /\ XP!FrontFromFile /\ XP!WordsFromFile /\ XP!UnitsListed

LEMMA SweepStarts == Stages /\ TableStands /\ SweepFresh /\ call = 9 => SweepInv
<1> SUFFICES ASSUME Stages, TableStands, SweepFresh, call = 9
             PROVE  SweepInv
  OBVIOUS
<1>1. disk \in Disks /\ secOff[".text"] \in Nat /\ secSize[".text"] \in Nat
  BY PairsTyped DEF Stages, PairsHold, ByCall
<1>2. riscvLen \in {0, 32, 64}
  BY DEF Stages, PairsHold, ByCall, HeaderKnown, HP!TypeOK
<1>3. InFile(textOff, secSize[".text"]) \in [0 .. secSize[".text"] - 1 -> Units]
  BY <1>1, InFileTyped
<1>4. lines \in Seq(XP!LineSet) /\ Len(lines) = 0
  BY DEF SweepFresh
<1>5. XP!TypeInv
  <2>1. at = "entry" /\ fileHandle = "none" /\ instBuffer = << >> /\ complained = FALSE
    BY DEF SweepFresh
  <2>2. pos \in Nat /\ reach \in Nat /\ got \in 0 .. secSize[".text"]
    BY <1>1 DEF SweepFresh
  <2>3. XP!TypeOK
    BY <1>1, <1>2, <1>3, <1>4, <2>1, <2>2 DEF XP!TypeOK
  <2> QED
    BY <2>1, <2>3 DEF XP!TypeInv, XP!BufferIsLoaded
<1>6. XP!Progress /\ XP!FrontFromFile
  BY DEF SweepFresh, XP!Progress, XP!FrontFromFile, XP!Loaded
<1>7. XP!Consecutive
  BY <1>1, <1>4 DEF SweepFresh, XP!Consecutive, XP!Base
<1>8. XP!WordsFromFile /\ XP!UnitsListed
  BY <1>4 DEF XP!WordsFromFile, XP!UnitsListed
<1> QED
  BY <1>5, <1>6, <1>7, <1>8 DEF SweepInv

LEMMA SweepStartsNext == Stages' /\ TableStands' /\ SweepFresh' /\ (call = 9)' => SweepInv'
BY SweepStarts, PTL

LEMMA SweepInvNext == SweepInv /\ [XP!Next]_XP!vars => SweepInv'
BY SweepAssumed, XP!TypeInvNext, XP!ProgressNext, XP!ConsecutiveNext, XP!FrontFromFileNext,
   XP!WordsFromFileNext, XP!UnitsListedNext
DEF SweepInv

LEMMA SweepFromFileInit == Init => SweepFromFile
BY DEF Init, SweepFromFile

LEMMA SweepFromFileNext ==
  Stages /\ Stages' /\ TableStands' /\ LocalsFresh /\ SweepFromFile /\ [Next]_vars => SweepFromFile'
<1> SUFFICES ASSUME Stages, Stages', TableStands', LocalsFresh, SweepFromFile, [Next]_vars, call' = 9
             PROVE  SweepFromFile'
  BY DEF SweepFromFile
<1>0. call \in 1 .. 10 /\ ByCall /\ Moved
  BY DEF Stages, PairsHold, ByCall
<1>1. CASE call = 9 /\ Mine = ".text" /\ disassemble_text_section
  <2>1. X!Next /\ Delivers /\ UNCHANGED <<call, disk, textOff, secSize>>
    BY <1>1 DEF disassemble_text_section, main
  <2>2. SweepInv /\ textOff = Start(".text")
    BY <1>1 DEF SweepFromFile, SweepInv
  <2>3. SweepInv'
    BY <2>1, <2>2, SweepNext, SweepInvNext
  <2>4. pos \in Nat /\ secOff \in [T!Sought -> Nat] /\ ".text" \in T!Sought
    BY <1>0, <1>1 DEF Moved, T!Sought
  <2>5. Start(".text")' = Start(".text")
    BY <1>1, <2>1, <2>4, SweepMoves DEF disassemble_text_section
  <2>6. Available(textOff, secSize[".text"])' = Available(textOff, secSize[".text"])
    BY <2>1 DEF Available
  <2>7. at \in {"entry", "opened"} => /\ pos = 0 /\ lines = << >> /\ fileHandle # "closed"
                                      /\ textOff = secOff[".text"]
    BY <2>2, <2>4 DEF SweepInv, XP!Progress, Start
  <2>8. ASSUME at' = "sweep" \/ fileHandle' = "closed"
        PROVE  got' = Available(textOff, secSize[".text"])
    <3>1. CASE at \in {"entry", "opened"}
      <4>1. at = "opened" /\ at' = "sweep"
        BY <2>1, <2>7, <2>8, <3>1
        DEF X!Next, X!Open, X!NoTextSection, X!LoadText, X!LoadCrash, X!Uncompressed, X!Compressed, X!Iterating,
            X!Unsupported, X!Segfault, X!Finish, X!loaded
      <4> QED
        BY <1>1, <2>1, <2>7, <4>1 DEF Delivers
    <3>2. CASE at \notin {"entry", "opened"}
      <4>1. at = "sweep"
        BY <2>1, <3>2
        DEF X!Next, X!Open, X!NoTextSection, X!LoadText, X!LoadCrash, X!Uncompressed, X!Compressed, X!Iterating,
            X!Unsupported, X!Segfault, X!Finish
      <4>2. got' = got
        BY <2>1, <4>1 DEF Delivers
      <4> QED
        BY <1>1, <4>1, <4>2 DEF SweepFromFile
    <3> QED
      BY <3>1, <3>2
  <2>9. ASSUME at' = "returned", fileHandle' # "closed"
        PROVE  lines' = << >> /\ textOff = 0
    <3>1. at = "opened" /\ secOff[".text"] = 0 /\ lines' = lines
      BY <2>1, <2>9
      DEF X!Next, X!Open, X!NoTextSection, X!LoadText, X!LoadCrash, X!Uncompressed, X!Compressed, X!Iterating,
          X!Emit, X!Unsupported, X!Segfault, X!Finish
    <3> QED
      BY <2>7, <3>1
  <2> QED
    BY <2>1, <2>2, <2>3, <2>5, <2>6, <2>8, <2>9 DEF SweepFromFile, SweepInv
<1>2. CASE call = 8 /\ Entering
  <2>1. /\ UNCHANGED <<at, fileHandle, got, textLocals, secOff>> /\ at = "entry" /\ textOff' = secOff[".text"]
    BY <1>0, <1>2 DEF Entering, Proceed, ByCall
  <2>2. SweepFresh'
    BY <1>2, <2>1 DEF LocalsFresh, SweepFresh, textLocals
  <2>3. SweepInv'
    BY <2>2, SweepStartsNext
  <2>4. textOff' = Start(".text")'
    <3>1. secOff[".text"] \in Nat
      BY <1>0, <1>2 DEF Moved, T!Sought
    <3> QED
      BY <2>1, <2>2, <3>1 DEF Start, SweepFresh
  <2> QED
    BY <2>2, <2>3, <2>4 DEF SweepFromFile, SweepInv, SweepFresh
<1>3. CASE UNCHANGED vars
  <2>1. UNCHANGED <<call, disk, textOff, secOff, secSize, riscvLen, at, fileHandle, got, textLocals>>
    BY <1>3 DEF vars, main, ehdrGlobals
  <2>2. UNCHANGED XP!vars
    BY <2>1 DEF XP!vars, textLocals, InFile
  <2>3. SweepInv
    BY <2>1 DEF SweepFromFile, SweepInv
  <2>4. SweepInv'
    BY <2>2, <2>3, SweepInvNext
  <2>5. Available(textOff, secSize[".text"])' = Available(textOff, secSize[".text"]) /\ Start(".text")' = Start(".text")
    BY <2>1 DEF Available, Start, textLocals
  <2> QED
    BY <2>1, <2>4, <2>5 DEF SweepFromFile, SweepInv, textLocals
<1>4. CASE (call = 1 /\ process_elf_header) \/ (call = 2 /\ process_section_header)
           \/ (call \in 4 .. 7 /\ \E s \in Strings : Mine = s /\ dump_section(s))
  <2>1. call' = call
    BY <1>4 DEF process_elf_header, process_section_header, dump_section, main
  <2> QED
    BY <1>4, <2>1
<1>5. CASE (Entering /\ call # 8) \/ (call \in 4 .. 7 \cup {9} /\ PartDone)
  <2>1. call' = call + 1 /\ call # 8
    BY <1>5 DEF Entering, Proceed, PartDone
  <2> QED
    BY <1>0, <2>1
<1> QED
  BY <1>1, <1>2, <1>3, <1>4, <1>5, StepKinds
-----------------------------------------------------------------------------
(* An ordinary file has a whole header.                                    *)
LEMMA OrdinaryLength == Promise!Ordinary => disk.header.len = 64
BY DEF Promise!Ordinary

(* Of an ordinary file the header stage leaves what leads to its table.    *)
LEMMA OrdinaryGlobals ==
  Promise!Ordinary /\ Stages /\ TableStands /\ call > 1 =>
    /\ shdrAddress = disk.tableAt /\ Number = Len(disk.table)
    /\ shdrSize[1] = 64 /\ shdrStrtabIndex[1] = Promise!Half(62)
    /\ H!FileClass = 64
<1> SUFFICES ASSUME Promise!Ordinary, Stages, TableStands, call > 1
             PROVE  /\ shdrAddress = disk.tableAt /\ Number = Len(disk.table)
                    /\ shdrSize[1] = 64 /\ shdrStrtabIndex[1] = Promise!Half(62)
                    /\ H!FileClass = 64
  OBVIOUS
<1> DEFINE half == disk.header.half
<1>1. /\ disk.header.len = 64
      /\ \A k \in 0 .. 3 : disk.header.ident[k] = <<127, 69, 76, 70>>[k + 1]
      /\ disk.header.ident[4] = 2
      /\ <<half[40], half[42], half[44], half[46]>> = disk.tableAt
      /\ half[58] = 64 /\ half[60] = Len(disk.table)
  BY DEF Promise!Ordinary, Promise!Half
<1>2. HP!FileClass = 64 /\ H!FileClass = 64
  BY <1>1 DEF HP!FileClass, HP!ELFMAG, H!FileClass, H!ELFMAG
<1>3. ehdrAt = "returned" /\ HP!GlobalsFromFile
  <2>1. call \in 1 .. 10 /\ ehdrAt = "returned"
    BY DEF Stages, PairsHold, ByCall
  <2> QED
    BY <2>1, HeaderAssumed, HP!FieldsArrive DEF TableStands
<1>4. HP!globals = HP!TableFields(HP!Layout64)
  BY <1>1, <1>2, <1>3 DEF HP!GlobalsFromFile
<1>5. /\ HP!Layout64["shoff"] = <<40, 4>> /\ HP!Layout64["shentsize"] = <<58, 1>>
      /\ HP!Layout64["shnum"] = <<60, 1>> /\ HP!Layout64["shstrndx"] = <<62, 1>>
  BY DEF HP!Layout64
<1>6. /\ shdrAddress = [k \in 1 .. 4 |-> half[40 + 2 * (k - 1)]]
      /\ shdrNumber = [k \in 1 .. 1 |-> half[60 + 2 * (k - 1)]]
      /\ shdrSize = [k \in 1 .. 1 |-> half[58 + 2 * (k - 1)]]
      /\ shdrStrtabIndex = [k \in 1 .. 1 |-> half[62 + 2 * (k - 1)]]
  BY <1>4, <1>5 DEF HP!globals, HP!TableFields
<1>7. shdrAddress = <<half[40], half[42], half[44], half[46]>>
  BY <1>6
<1>8. shdrNumber[1] = half[60] /\ shdrSize[1] = half[58] /\ shdrStrtabIndex[1] = half[62]
  BY <1>6
<1> QED
  BY <1>1, <1>2, <1>7, <1>8 DEF Number, Promise!Half

(* That table is intact, and its names are the file's.                     *)
LEMMA OrdinaryIsIntact ==
  ASSUME Promise!Ordinary, Stages, TableStands, call > 1
  PROVE  /\ TP!Intact
         /\ \A k \in 0 .. Number - 1 : /\ Table[k] = disk.table[k + 1]
                                      /\ TP!FileName(k) = NameAt[Promise!NameIn(k + 1)]
<1> DEFINE n == Len(disk.table)  strtab == Promise!Half(62)
<1>1. /\ shdrAddress = disk.tableAt /\ Number = n
      /\ shdrSize[1] = 64 /\ shdrStrtabIndex[1] = strtab
  BY OrdinaryGlobals
<1>2. disk \in Disks /\ HeaderKnown /\ ehdrAt = "returned"
  <2>1. call \in 1 .. 10
    BY DEF Stages, PairsHold, ByCall
  <2> QED
    BY <2>1 DEF Stages, PairsHold, ByCall
<1>3. disk.tableAt[4] < 32768 /\ disk.table \in Seq(Headers)
  BY <1>2, ParserAssumption DEF ParserAssumption
<1>4. n \in Nat /\ DOMAIN disk.table = 1 .. n /\ strtab \in Nat
  BY <1>1, <1>2, <1>3, GlobalsSuit
<1>5. strtab < n /\ \A k \in 1 .. n : Promise!NameIn(k) \in DOMAIN NameAt
  BY <1>4 DEF Promise!Ordinary
<1>6. \A k \in 0 .. n - 1 : Table[k] = disk.table[k + 1]
  BY <1>1, <1>4 DEF Table
<1>7. strtab \in 0 .. n - 1
  BY <1>4, <1>5
<1>8. \A k \in 0 .. n - 1 : Table[strtab].offset + Table[k].name = Promise!NameIn(k + 1)
  BY <1>6, <1>7 DEF Promise!NameIn
<1>9. Present = n * 64
  BY <1>1, <1>4 DEF Present, Least
<1>10. \A k \in 0 .. n - 1 : Promise!NameIn(k + 1) \in DOMAIN NameAt
  BY <1>4, <1>5
<1>11. TP!Intact
  BY <1>1, <1>3, <1>5, <1>8, <1>9, <1>10 DEF TP!Intact, Seekable
<1>12. \A k \in 0 .. n - 1 : TP!FileName(k) = NameAt[Promise!NameIn(k + 1)]
  BY <1>1, <1>8 DEF TP!FileName
<1> QED
  BY <1>1, <1>6, <1>11, <1>12

(* A pair is then that of the section that the file promises.              *)
LEMMA FoundInFile ==
  ASSUME Promise!Ordinary, Stages, TableStands, call > 2, NEW s \in T!Sought
  PROVE  LET h == Promise!SectionOf(s, Lost)
         IN  /\ Start(s) = h.offset /\ secSize[s] = h.size
             /\ (h.offset = 0 /\ h.size = 0) \/ Promise!Printable(h, s)
<1> DEFINE K == T!Namesakes(s, Number)  N == Promise!Named(s, Lost)
<1>1. call \in 1 .. 10 /\ AsShown(s) /\ disk \in Disks
  BY DEF Stages, PairsHold, ByCall, PairsAsShown
<1>2. Number = Len(disk.table) /\ Len(disk.table) \in Nat /\ DOMAIN disk.table = 1 .. Number
  BY <1>1, OrdinaryGlobals, ParserAssumption DEF ParserAssumption
<1>3. TP!Intact /\ \A k \in 0 .. Number - 1 : /\ Table[k] = disk.table[k + 1]
                                             /\ TP!FileName(k) = NameAt[Promise!NameIn(k + 1)]
  BY <1>1, OrdinaryIsIntact
<1>4. /\ \A k \in 0 .. Number - 1 : TP!Same(k) /\ i_shdr[k].name \in {"stray", TP!FileName(k)}
      /\ i_shdr \in [0 .. Number - 1 -> TP!Shown]
  BY <1>1, <1>3 DEF TableStands, TP!CopiedSoFar, TP!NamedByFile, TP!TypeOK
<1>5. s # "stray" /\ \E i \in 1 .. Len(Promise!Parts) : s = Promise!Parts[i]
  BY DEF T!Sought, Promise!Parts
<1>6. \A k \in 0 .. Number - 1 : k + 1 \in Lost <=> i_shdr[k].name = "stray"
  BY <1>2, <1>4 DEF Lost
<1>7. \A k \in 0 .. Number - 1 : k \in K <=> k + 1 \in N
  <2> TAKE k \in 0 .. Number - 1
  <2>1. k \in K <=> i_shdr[k].name = s
    BY DEF T!Namesakes
  <2>2. k + 1 \in N <=> i_shdr[k].name # "stray" /\ TP!FileName(k) = s
    BY <1>2, <1>3, <1>6 DEF Promise!Named
  <2> QED
    BY <1>4, <1>5, <2>1, <2>2
<1>8. K \subseteq 0 .. Number - 1 /\ N \subseteq 1 .. Number
  BY <1>2 DEF T!Namesakes, Promise!Named
<1>9. \A j \in N : j - 1 \in K
  <2> TAKE j \in N
  <2>1. j \in 1 .. Number /\ j - 1 \in 0 .. Number - 1 /\ (j - 1) + 1 = j
    BY <1>2, <1>8
  <2> QED
    BY <1>7, <2>1
<1>10. CASE K = {}
  <2>1. N = {}
    BY <1>9, <1>10
  <2>2. Promise!SectionOf(s, Lost) = [offset |-> 0, size |-> 0]
    BY <2>1 DEF Promise!SectionOf
  <2> QED
    BY <1>1, <1>10, <2>2 DEF AsShown
<1>11. CASE K # {}
  <2>1. PICK k \in K : /\ \A j \in K : j <= k
                       /\ Start(s) = shdr[k].offset /\ secSize[s] = shdr[k].size
    BY <1>1, <1>11 DEF AsShown
  <2>2. k \in 0 .. Number - 1 /\ k + 1 \in N
    BY <1>7, <1>8
  <2>3. \A j \in N : j <= k + 1
    <3> TAKE j \in N
    <3>1. j \in Int /\ k \in Int /\ j - 1 <= k
      BY <1>8, <1>9, <2>1, <2>2
    <3> QED
      BY <3>1
  <2> DEFINE m == CHOOSE m \in N : \A j \in N : j <= m
  <2>4. m \in N /\ \A j \in N : j <= m
    BY <2>2, <2>3
  <2>5. m = k + 1
    <3>1. m \in Int /\ k \in Int /\ m <= k + 1 /\ k + 1 <= m
      BY <1>8, <2>2, <2>3, <2>4
    <3> HIDE DEF m
    <3> QED
      BY <3>1
  <2>6. Promise!SectionOf(s, Lost) = disk.table[k + 1]
    BY <2>2, <2>5 DEF Promise!SectionOf
  <2>7. Start(s) = disk.table[k + 1].offset /\ secSize[s] = disk.table[k + 1].size
    BY <1>3, <1>4, <2>1, <2>2 DEF TP!Same
  <2>8. Promise!Printable(disk.table[k + 1], s)
    <3>1. k + 1 \in Promise!Named(s, {})
      BY <2>2 DEF Promise!Named
    <3> QED
      BY <1>5, <3>1 DEF Promise!Ordinary
  <2> QED
    BY <2>6, <2>7, <2>8
<1> QED
  BY <1>10, <1>11

(* What lies in the file is delivered as a whole.                          *)
LEMMA AvailableWhole ==
  ASSUME NEW offset \in Nat, NEW n \in Nat, offset .. offset + n - 1 \subseteq DOMAIN disk.bytes
  PROVE  /\ Available(offset, n) = n
         /\ InFile(offset, n) = [i \in 0 .. n - 1 |-> disk.bytes[offset + i]]
<1>1. \A i \in 0 .. n - 1 : offset + i \in DOMAIN disk.bytes
  <2> TAKE i \in 0 .. n - 1
  <2>1. offset + i \in offset .. offset + n - 1
    OBVIOUS
  <2> QED
    BY <2>1
<1>2. {k \in 0 .. n - 1 : \A i \in 0 .. k : offset + i \in DOMAIN disk.bytes} = 0 .. n - 1
  BY <1>1
<1>3. Cardinality(0 .. n - 1) = n
  BY FS_Interval
<1> QED
  BY <1>1, <1>2, <1>3 DEF Available, InFile
-----------------------------------------------------------------------------
(* A dump that returns has printed its part.                               *)
LEMMA DumpIsPart ==
  ASSUME Promise!Ordinary, Stages, TableStands, DumpFromFile, call \in 4 .. 7, at = "returned"
  PROVE  Promise!IsPart(Mine, printed)
<1> DEFINE h == Promise!SectionOf(Mine, Lost)  off == secOff[Mine]  size == secSize[Mine]
<1>1. Mine # ".text" /\ Mine \in T!Sought
  <2>1. call \in {4, 5, 6, 7}
    OBVIOUS
  <2> QED
    BY <2>1 DEF Mine, Calls, Strings, T!Sought
<1>2. /\ off = h.offset /\ size = h.size
      /\ (h.offset = 0 /\ h.size = 0) \/ Promise!Printable(h, Mine)
  BY <1>1, FoundInFile DEF Start
<1>3. off \in Nat /\ size \in Nat /\ IntMax \in Nat
  BY <1>1, PairsTyped, ParserAssumption DEF ParserAssumption
<1>4. DP!TypeOK /\ DP!Placed /\ DP!EndReached
  BY DEF DumpFromFile
<1>5. printed \in Seq(Units)
  BY <1>4 DEF DP!TypeOK
<1>6. /\ Len(printed) = size
      /\ \A i \in 1 .. size : printed[i] = IF disk.bytes[off + i - 1] = 0 THEN 32 ELSE disk.bytes[off + i - 1]
  <2>1. CASE off = 0
    <3>1. size = 0
      BY <1>2, <2>1 DEF Promise!Printable
    <3>2. printed = << >>
      BY <1>4, <2>1 DEF DP!EndReached
    <3> QED
      BY <3>1, <3>2
  <2>2. CASE off # 0
    <3>1. off .. off + size - 1 \subseteq DOMAIN disk.bytes /\ size <= IntMax
      BY <1>1, <1>2, <2>2 DEF Promise!Printable
    <3>2. Len(printed) = size
      BY <1>3, <1>4, <2>2, <3>1 DEF DP!EndReached, DP!Whole
    <3>3. /\ got = size
          /\ InFile(off, size) = [i \in 0 .. size - 1 |-> disk.bytes[off + i]]
      BY <1>3, <2>2, <3>1, AvailableWhole DEF DumpFromFile
    <3>4. ASSUME NEW i \in 1 .. size
          PROVE  printed[i] = IF disk.bytes[off + i - 1] = 0 THEN 32 ELSE disk.bytes[off + i - 1]
      <4>1. printed[i] = DP!Visible(InFile(off, size)[i - 1])
        BY <1>3, <1>4, <3>2, <3>3 DEF DP!Placed, DP!PlacedAsInFile
      <4>2. i - 1 \in 0 .. size - 1 /\ off + (i - 1) = off + i - 1
        BY <1>3
      <4>3. InFile(off, size)[i - 1] = disk.bytes[off + i - 1]
        BY <3>3, <4>2
      <4> QED
        BY <4>1, <4>3 DEF DP!Visible
    <3> QED
      BY <3>2, <3>4
  <2> QED
    BY <2>1, <2>2
<1>7. printed = [i \in 1 .. size |-> printed[i]]
  BY <1>5, <1>6
<1>8. printed = Promise!Text(Mine)
  <2>1. Promise!Text(Mine) = [i \in 1 .. size |-> IF disk.bytes[off + i - 1] = 0 THEN 32 ELSE disk.bytes[off + i - 1]]
    BY <1>2 DEF Promise!Text
  <2> HIDE DEF h, off, size
  <2> QED
    BY <1>6, <1>7, <2>1
<1> QED
  BY <1>1, <1>8 DEF Promise!IsPart

(* A word of n bytes t at o, by the operators of the sweep and the promise.*)
LEMMA SameUnits ==
  /\ \A w : XP!inst_length(w) = Promise!inst_length(w)
  /\ \A b : XP!get2(b) = Promise!get2(b) /\ XP!get4(b) = Promise!get4(b)
BY DEF XP!inst_length, Promise!inst_length, XP!get2, Promise!get2, XP!get4, Promise!get4, XP!int8, Promise!int8

(* So has the sweep.                                                       *)
LEMMA SweepIsPart ==
  ASSUME Promise!Ordinary, Stages, TableStands, SweepFromFile, call = 9, at = "returned"
  PROVE  Promise!IsPart(".text", lines)
<1> DEFINE h == Promise!SectionOf(".text", Lost)  size == secSize[".text"]
           t == Promise!BytesAt(h.offset, h.size)
<1>1. ".text" \in T!Sought
  BY DEF T!Sought
<1>2. /\ textOff = h.offset /\ size = h.size
      /\ (h.offset = 0 /\ h.size = 0) \/ Promise!Printable(h, ".text")
  BY <1>1, FoundInFile DEF SweepFromFile
<1>3. /\ secOff[".text"] \in Nat /\ size \in Nat /\ pos \in Nat
      /\ textOff = secOff[".text"] - pos /\ lines \in Seq(XP!LineSet)
  BY <1>1, PairsTyped DEF SweepFromFile, Start, XP!TypeInv, XP!TypeOK
<1>4. XP!Consecutive /\ XP!WordsFromFile /\ XP!UnitsListed /\ XP!Progress
  BY DEF SweepFromFile
<1>5. CASE fileHandle = "closed"
  <2> DEFINE n == Len(lines)
  <2>0. n \in Nat /\ \A i \in 1 .. n : lines[i] \in XP!LineSet
    BY <1>3
  <2>1. \A i \in 1 .. n : /\ lines[i].pc \in Nat /\ lines[i].len \in {2, 4}
                          /\ lines[i] = [pc |-> lines[i].pc, inst |-> lines[i].inst,
                                         len |-> lines[i].len, isa |-> lines[i].isa]
    BY <2>0 DEF XP!LineSet
  <2>2. XP!Base \in Nat
    <3>1. lines # << >> => 1 \in 1 .. n
      BY <1>3
    <3> QED
      BY <1>3, <2>1, <3>1 DEF XP!Base
  <2>3. pos = size /\ XP!Base = textOff /\ secOff[".text"] = textOff + size
    BY <1>3, <1>4, <1>5, <2>2 DEF XP!Progress, XP!Consecutive
  <2>4. got = size /\ InFile(textOff, size) = t
    <3>1. textOff \in Nat
      BY <2>2, <2>3
    <3>2. textOff .. textOff + size - 1 \subseteq DOMAIN disk.bytes
      <4>1. CASE size = 0
        BY <3>1, <4>1
      <4>2. CASE size # 0
        BY <1>2, <4>2 DEF Promise!Printable
      <4> QED
        BY <4>1, <4>2
    <3>3. Available(textOff, size) = size
          /\ InFile(textOff, size) = [i \in 0 .. size - 1 |-> disk.bytes[textOff + i]]
      BY <1>3, <3>1, <3>2, AvailableWhole
    <3> QED
      BY <1>2, <1>5, <3>3 DEF SweepFromFile, Promise!BytesAt
  <2>5. Promise!Reaches(lines, n, textOff) = textOff + size
    BY <1>3, <1>4, <2>0, <2>3 DEF Promise!Reaches, XP!Consecutive, XP!Base
  <2>6. \A i \in 1 .. n : lines[i].pc = Promise!Reaches(lines, i - 1, textOff)
    <3> TAKE i \in 1 .. n
    <3>1. CASE i = 1
      BY <1>3, <2>3, <3>1 DEF Promise!Reaches, XP!Base
    <3>2. CASE i # 1
      <4>1. i - 1 \in 1 .. n /\ i - 1 # n /\ (i - 1) + 1 = i /\ i - 1 # 0
        BY <2>0, <3>2
      <4> QED
        BY <1>4, <4>1 DEF Promise!Reaches, XP!Consecutive
    <3> QED
      BY <3>1, <3>2
  <2>7. H!FileClass = 64
    BY OrdinaryGlobals
  <2>8. ASSUME NEW i \in 1 .. n
        PROVE  lines[i] = Promise!UnitAt(t, lines[i].pc - textOff, textOff)
    <3> DEFINE o == lines[i].pc - textOff  len == lines[i].len  b == [k \in 0 .. len - 1 |-> t[o + k]]
    <3>0. o = lines[i].pc - XP!Base
      BY <2>3
    <3>1. o \in Nat /\ o + len <= got /\ textOff + o = lines[i].pc
      <4>1. o \in Nat /\ o + len <= pos
        BY <1>4, <3>0 DEF XP!UnitsListed
      <4>2. got = pos
        BY <2>3, <2>4
      <4>3. textOff \in Nat /\ lines[i].pc \in Nat
        BY <2>1, <2>2, <2>3
      <4>4. textOff + o = lines[i].pc
        BY <4>3
      <4> QED
        BY <4>1, <4>2, <4>4
    <3>2. len = XP!inst_length(t[o]) /\ lines[i].inst = XP!WordOf(o, len)
      BY <1>4, <2>4, <3>0, <3>1 DEF XP!UnitsListed, XP!WordsFromFile
    <3>3. lines[i].inst = IF len = 2 THEN XP!get2(b) ELSE XP!get4(b)
      BY <2>4, <3>2 DEF XP!WordOf
    <3>4. lines[i].isa = "rv64"
      <4>1. H!FileClass = 64 /\ disk.header.len >= 16
        <5>1. H!FileClass = 64
          BY <2>7
        <5>2. disk.header.len = 64
          BY OrdinaryLength
        <5> QED
          BY <5>1, <5>2
      <4>2. LinesByClass
        BY ClassShown DEF Stages
      <4> QED
        BY <4>1, <4>2 DEF LinesByClass
    <3>5. len = Promise!inst_length(t[o]) /\ lines[i].inst = IF len = 2 THEN Promise!get2(b) ELSE Promise!get4(b)
      BY <3>2, <3>3, SameUnits
    <3>6. Promise!UnitAt(t, o, textOff) = [pc |-> textOff + o, inst |-> lines[i].inst, len |-> len, isa |-> "rv64"]
      BY <3>5 DEF Promise!UnitAt
    <3> HIDE DEF o, len, b
    <3> QED
      BY <2>1, <3>1, <3>4, <3>6 DEF o, len
  <2>9. Promise!IsListing(lines, t, size, textOff)
    BY <2>1, <2>5, <2>6, <2>8 DEF Promise!IsListing
  <2> QED
    BY <1>2, <2>9 DEF Promise!IsPart
<1>6. CASE fileHandle # "closed"
  <2>1. lines = << >> /\ h.offset = 0
    BY <1>2, <1>6 DEF SweepFromFile
  <2>2. h.size = 0
    BY <1>2, <2>1 DEF Promise!Printable
  <2>3. Promise!IsListing(lines, t, 0, 0)
    BY <2>1 DEF Promise!IsListing, Promise!Reaches
  <2> QED
    BY <2>1, <2>2, <2>3 DEF Promise!IsPart
<1> QED
  BY <1>5, <1>6
-----------------------------------------------------------------------------
(* The steps of the program, one by one, as steps of the promise.          *)
LEMMA NoneLost == Init => Promise!Init
<1> SUFFICES ASSUME Init
             PROVE  Promise!Init
  OBVIOUS
<1>1. report = << >> /\ i_shdr = << >>
  BY DEF Init
<1>2. Lost = {}
  BY <1>1 DEF Lost
<1> QED
  BY <1>1, <1>2 DEF Promise!Init

(* The section header stage may lose names, before anything is reported.   *)
LEMMA LooksUp ==
  ASSUME Promise!Ordinary, Stages, Stages', TableStands, ReportGrows, call = 2, process_section_header
  PROVE  Promise!LookUp \/ UNCHANGED Promise!vars
<1>1. UNCHANGED <<disk, report>> /\ call' = 2 /\ T!Next
  BY DEF process_section_header, main
<1>2. report = << >>
  <2>1. Len(report) = 0 /\ \E S : report \in Seq(S)
    BY DEF ReportGrows, Reported
  <2> QED
    BY <2>1
<1>3. CASE shdrAt' = "crashed"
  <2>1. i_shdr' = i_shdr
    BY <1>1, <1>3
    DEF T!Next, T!Enter, T!EnterCrash, T!ReadHeader, T!EndHeaders, T!ResolveName, T!NameLost,
        T!NameOverrun, T!EndNames, T!PrintTable, T!PrintCrash
  <2> QED
    BY <1>1, <2>1 DEF Lost, Promise!vars
<1>4. CASE shdrAt' # "crashed"
  <2>1. shdrAt' \in {"headers", "names", "print", "returned"}
    BY <1>1, <1>4
    DEF T!Next, T!Enter, T!EnterCrash, T!ReadHeader, T!EndHeaders, T!ResolveName, T!NameLost,
        T!NameOverrun, T!EndNames, T!PrintTable, T!PrintCrash
  <2>2. disk \in Disks /\ Number' = Number
    BY DEF Stages, PairsHold, ByCall, process_section_header, ehdrGlobals, Number
  <2>3. Number' = Len(disk.table) /\ Len(disk.table) \in Nat /\ DOMAIN disk.table = 1 .. Len(disk.table)
    <3>1. disk.table \in Seq(Headers)
      BY <2>2, ParserAssumption DEF ParserAssumption
    <3> QED
      BY <2>2, <3>1, OrdinaryGlobals
  <2>4. i_shdr' \in [0 .. Number' - 1 -> TP!Shown]
    BY <1>1, <2>1 DEF Stages, PairsHold, ByCall, Running, TP!NamesInv, TP!TypeOK
  <2>5. Lost' \subseteq DOMAIN disk.table
    <3>1. DOMAIN i_shdr' = 0 .. Len(disk.table) - 1
      BY <2>3, <2>4
    <3> QED
      BY <2>3, <3>1 DEF Lost
  <2> QED
    BY <1>1, <1>2, <2>5 DEF Promise!LookUp
<1> QED
  BY <1>3, <1>4

(* Each part is printed in its turn.                                       *)
LEMMA PrintsPart ==
  ASSUME Promise!Ordinary, Stages, TableStands, ReportGrows, DumpFromFile, SweepFromFile,
         call \in 4 .. 7 \cup {9}, PartDone
  PROVE  Promise!PrintPart
<1> DEFINE part == IF call = 9 THEN lines ELSE printed
<1>0. call \in 1 .. 10 /\ at = "returned" /\ UNCHANGED <<disk, shdrLocals>>
  BY DEF PartDone
<1>1. report' = Append(report, part)
  <2>1. In(".text") <=> call = 9
    BY <1>0, PartNumbers DEF In, Calls
  <2> QED
    BY <2>1 DEF PartDone
<1>2. Len(report) = Reported /\ Len(report') = Len(report) + 1 /\ report'[Len(report')] = part
  BY <1>1, ReportAppended DEF ReportGrows
<1>3. Reported \in 0 .. 4 /\ Promise!Parts[Reported + 1] = Mine /\ (call = 9 => Mine = ".text")
  <2>1. call \in {4, 5, 6, 7, 9}
    OBVIOUS
  <2> QED
    BY <2>1 DEF Reported, Promise!Parts, Mine, Calls, Strings
<1>4. Promise!IsPart(Mine, part)
  BY <1>0, <1>3, DumpIsPart, SweepIsPart
<1>5. Lost' = Lost
  BY <1>0 DEF Lost, shdrLocals
<1>6. Len(Promise!Parts) = 5
  BY DEF Promise!Parts
<1> HIDE DEF part
<1> QED
  BY <1>0, <1>1, <1>2, <1>3, <1>4, <1>5, <1>6 DEF Promise!PrintPart

LEMMA StepKeepsPromise ==
  Stages /\ Stages' /\ ReportInv /\ ReportInv' /\ [Next]_vars => [Promise!Next]_(Promise!vars)
<1> SUFFICES ASSUME Stages, Stages', ReportInv, ReportInv', [Next]_vars
             PROVE  [Promise!Next]_(Promise!vars)
  OBVIOUS
<1>0. TableStands /\ ReportGrows /\ DumpFromFile /\ SweepFromFile
  BY DEF ReportInv
<1>1. CASE ~Promise!Ordinary
  <2>1. disk' = disk
    BY StepKinds
    DEF process_elf_header, process_section_header, Entering, Proceed, dump_section, disassemble_text_section,
        PartDone, vars, main
  <2> QED
    BY <1>1, <2>1 DEF Promise!Next, Promise!Anything
<1>2. CASE Promise!Ordinary /\ call = 2 /\ process_section_header
  BY <1>0, <1>2, LooksUp DEF Promise!Next
<1>3. CASE Promise!Ordinary /\ call \in 4 .. 7 \cup {9} /\ PartDone
  BY <1>0, <1>3, PrintsPart DEF Promise!Next
<1>4. CASE \/ process_elf_header \/ Entering \/ (\E s \in Strings : dump_section(s))
           \/ disassemble_text_section \/ UNCHANGED vars
  <2>1. UNCHANGED <<disk, report, shdrLocals>>
    BY <1>4
    DEF process_elf_header, Entering, Proceed, dump_section, disassemble_text_section, vars, main
  <2> QED
    BY <2>1 DEF Lost, shdrLocals, Promise!vars
<1> QED
  BY <1>1, <1>2, <1>3, <1>4, StepKinds

-----------------------------------------------------------------------------
(* The invariant holds throughout.                                         *)
LEMMA ReportInvInit == Init => Stages /\ ReportInv
BY PairsInit, InitReaches, TableStandsInit, ReportInit, DumpFromFileInit, SweepFromFileInit
DEF Stages, ReportInv

LEMMA ReportInvNext == Stages /\ ReportInv /\ [Next]_vars => Stages' /\ ReportInv'
<1> SUFFICES ASSUME Stages, ReportInv, [Next]_vars
             PROVE  Stages' /\ ReportInv'
  OBVIOUS
<1>1. Stages'
  BY PairsNext, NextReaches DEF Stages
<1>2. TableStands'
  BY <1>1, TableStandsNext DEF ReportInv
<1>3. ReportGrows' /\ LocalsFresh'
  BY ReportNext DEF ReportInv
<1> QED
  BY <1>1, <1>2, <1>3, DumpFromFileNext, SweepFromFileNext DEF ReportInv

(***************************************************************************)
(* ImplementsReport.  On any ordinary file, whatever its sections, main    *)
(* prints the file's own sections, whole and in order, and a listing of    *)
(* its code; on any other file it only keeps the file as it is.            *)
(***************************************************************************)
THEOREM ProgramKeepsPromise == Spec => ImplementsReport
<1>1. Spec => [](Stages /\ ReportInv)
  BY ReportInvInit, ReportInvNext, PTL DEF Spec
<1> QED
  BY <1>1, NoneLost, StepKeepsPromise, PTL DEF Spec, ImplementsReport, Promise!Spec
-----------------------------------------------------------------------------
(* Types, by both names of each stage.                                     *)
LEMMA HeaderTypes == HP!TypeOK => H!TypeOK
<1> DEFINE Half == 0 .. 65535
<1>1. H!HalfSet = [H!HalfAt -> Half] /\ HP!HalfSet = [HP!HalfAt -> Half]
  BY SMTT(30) DEF H!HalfSet, HP!HalfSet
<1>2. \A layout, f : /\ H!HalvesOf(layout, f) = [1 .. layout[f][2] -> Half]
                     /\ HP!HalvesOf(layout, f) = [1 .. layout[f][2] -> Half]
  BY SMTT(30) DEF H!HalvesOf, HP!HalvesOf
<1> HIDE DEF Half
<1>3. H!HalfSet = HP!HalfSet /\ \A layout, f : H!HalvesOf(layout, f) = HP!HalvesOf(layout, f)
  BY <1>1, <1>2 DEF H!HalfAt, HP!HalfAt
<1>4. H!Idents = HP!Idents
  BY DEF H!Idents, HP!Idents, H!Byte, HP!Byte
<1>5. H!FileSet = HP!FileSet
  BY <1>3, <1>4 DEF H!FileSet, HP!FileSet
<1>6. H!Layout = HP!Layout /\ H!Rest = HP!Rest
  BY DEF H!Layout, HP!Layout, H!Rest, HP!Rest
<1> QED
  BY <1>3, <1>4, <1>5, <1>6 DEF H!TypeOK, HP!TypeOK

LEMMA TableTypes == TP!TypeOK => T!TypeOK
<1>1. T!Sought = TP!Sought /\ T!Names = TP!Names
  BY TableTerms
<1>2. T!Shown = TP!Shown /\ T!HeaderSet = TP!HeaderSet
  BY <1>1 DEF T!Shown, TP!Shown, T!HeaderSet, TP!HeaderSet
<1> QED
  BY <1>1, <1>2 DEF T!TypeOK, TP!TypeOK

LEMMA PartTypes == (DP!TypeOK => D!TypeOK) /\ (XP!TypeOK => X!TypeOK)
<1>1. X!LineSet = XP!LineSet
  BY DEF X!LineSet, XP!LineSet
<1> QED
  BY <1>1 DEF DP!TypeOK, D!TypeOK, XP!TypeOK, X!TypeOK

(***************************************************************************)
(* Types.  Each function runs on globals and locals of the types that its  *)
(* own module gives them, whatever the stages before it have left.         *)
(***************************************************************************)
THEOREM ProgramTypeCorrect == Spec => []TypeOK
<1>1. Stages /\ ReportInv => TypeOK
  <2> SUFFICES ASSUME Stages, ReportInv
               PROVE  TypeOK
    OBVIOUS
  <2>1. /\ call \in 1 .. 10 /\ Len(Calls) = 9 /\ disk \in Disks /\ HP!TypeOK /\ left \subseteq T!Sought
    BY CallNumbers DEF Stages, PairsHold, ByCall, HeaderKnown, HandlesLeft
  <2>2. Len(report) <= 5
    BY <2>1 DEF ReportInv, ReportGrows, Reported
  <2>3. call > 2 => shdrAt = "returned" /\ T!TypeOK
    BY TableTypes DEF ReportInv, TableStands
  <2>4. Mine # ".text" => D!TypeOK
    <3>1. ASSUME Mine # ".text"
          PROVE  call \in 4 .. 7
      <4>1. call \in {1, 2, 3, 4, 5, 6, 7, 8, 9, 10}
        BY <2>1
      <4> QED
        BY <3>1, <4>1 DEF Mine, Calls, Strings
    <3> QED
      BY <3>1, PartTypes DEF ReportInv, DumpFromFile
  <2>5. call = 9 => X!TypeOK
    BY PartTypes DEF ReportInv, SweepFromFile, XP!TypeInv
  <2> QED
    BY <2>1, <2>2, <2>3, <2>4, <2>5, HeaderTypes DEF TypeOK
<1> QED
  BY <1>1, ReportInvInit, ReportInvNext, PTL DEF Spec
=============================================================================
