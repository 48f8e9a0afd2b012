------------------------------ MODULE ElfParser ------------------------------
(***************************************************************************)
(* main: nine functions are called in a fixed order, each on the name of   *)
(* the file.  Their modules are instantiated here over one set of globals, *)
(* each with the locals of its own function, so that what one stage leaves *)
(* behind is what the next one works on.  The results of the calls are not *)
(* looked at: only exit, abort or a crash ends the program early.          *)
(*                                                                         *)
(* The file is a record: its header, the section headers at `tableAt`, and *)
(* its bytes.  String tables are known by the names in them (NameAt).      *)
(***************************************************************************)
EXTENDS Naturals, Sequences, FiniteSets

CONSTANTS
  Disks,       \* the files
  Headers,     \* section headers that occur in files, or on the stack
  StaleBytes,  \* what uninitialised memory may hold, in the ELF header,
  Units,       \* and behind it; the latter occur in files, too
  NameAt, LongNames, StackRoom, FlagSlots,   \* see SectionTable
  IntMax,      \* see StringDump
  Slack        \* see TextSweep

Byte == 0 .. 255

ASSUME ParserAssumption ==
  /\ StaleBytes \subseteq Byte /\ {0, 32} \subseteq Units /\ Units \subseteq Byte
  /\ Headers # {}
  /\ \A d \in Disks : /\ d.table \in Seq(Headers) /\ d.tableAt[4] < 32768
                      /\ \A o \in DOMAIN d.bytes : d.bytes[o] \in Units
  /\ StackRoom \in Nat /\ FlagSlots \in Nat /\ IntMax \in Nat /\ Slack \in Nat

VARIABLES
  disk,
  call,     \* index of the function that main is in, or has to call next
  report,   \* what the functions printed of the file's sections, in order
  left,     \* the sections whose function returned without closing its handle
  textOff,  \* ghost: shdrTextOff before the sweep counted addresses in it
  shdrAddress, shdrNumber, shdrSize, shdrStrtabIndex, riscvLen,  \* globals
  secOff, secSize,                                               \* globals
  ehdrAt, a_ehdr, ehdr, info, header,                \* of process_elf_header
  shdrAt, shdrIndex, shdr, i_shdr, flagBuffer, rows, \* of process_section_header
  at, fileHandle, got,                               \* of the function called
  strBuffer, charIndex, printed,                     \* of the dump functions
  instBuffer, pos, reach, lines, complained          \* of disassemble_text_section

ehdrGlobals == <<shdrAddress, shdrNumber, shdrSize, shdrStrtabIndex, riscvLen>>
ehdrLocals  == <<ehdrAt, a_ehdr, ehdr, info, header>>
shdrLocals  == <<shdrAt, shdrIndex, shdr, i_shdr, flagBuffer, rows>>
dumpLocals  == <<strBuffer, charIndex, printed>>
textLocals  == <<instBuffer, pos, reach, lines, complained>>
main        == <<disk, call, report, left, textOff>>
vars == <<main, ehdrGlobals, secOff, secSize, ehdrLocals, shdrLocals, at, fileHandle, got,
          dumpLocals, textLocals>>

Calls == <<"process_elf_header", "process_section_header", "process_program_header",
           ".debug_str", ".comment", ".riscv.attributes", ".GCC.command.line",
           "parser_debug_frame", ".text">>

Strings == {".debug_str", ".comment", ".riscv.attributes", ".GCC.command.line"}

In(f) == call <= Len(Calls) /\ Calls[call] = f

(* Slip: dump_GCC_command_line_section still has the globals it was copied *)
(* with.                                                                   *)
Mine_Copied ==
  IF call <= Len(Calls) /\ Calls[call] \in Strings
  THEN IF Calls[call] = ".GCC.command.line" THEN ".comment" ELSE Calls[call]
  ELSE ".text"

(* The pair of globals that the function called works on.                  *)
Mine == IF call <= Len(Calls) /\ Calls[call] \in Strings THEN Calls[call] ELSE ".text"

Least(a, b) == IF a < b THEN a ELSE b

-----------------------------------------------------------------------------
(* The section headers in the file, those that shdrAddress leads to, how   *)
(* much of them there is, and whether the address is one for fseek.        *)
Number == shdrNumber[1]

Table ==
  [i \in 0 .. Number - 1 |-> IF i < Len(disk.table) THEN disk.table[i + 1]
                             ELSE CHOOSE h \in Headers : TRUE]

Present ==
  IF shdrAddress = disk.tableAt THEN Least(Len(disk.table), Number) * shdrSize[1] ELSE 0

Seekable == shdrAddress[4] < 32768

(* Of n bytes at an offset, what is in the file; 0 stands for the others.  *)
InFile(offset, n) ==
  [i \in 0 .. n - 1 |-> IF offset + i \in DOMAIN disk.bytes THEN disk.bytes[offset + i] ELSE 0]

Available(offset, n) ==
  Cardinality({k \in 0 .. n - 1 : \A i \in 0 .. k : offset + i \in DOMAIN disk.bytes})

H == INSTANCE ElfHeader WITH
  Files <- {d.header : d \in Disks}, file <- disk.header, at <- ehdrAt, printed <- header

ASSUME HeadersAssumption == \A d \in Disks : d.header \in H!FileSet

T == INSTANCE SectionTable WITH
  Numbers <- Nat, Indices <- Nat, EntrySizes <- 0 .. 64, Truncated <- TRUE,
  shdrNumber <- Number, shdrSize <- shdrSize[1], shdrStrtabIndex <- shdrStrtabIndex[1],
  table <- Table, present <- Present, seekable <- Seekable, at <- shdrAt

(* As SectionTable does, files whose section headers were larger than its  *)
(* structure are left out, and with them files that end before their size. *)
ASSUME TablesAssumption ==
  /\ Headers \subseteq T!HeaderSet
  /\ \A o \in DOMAIN NameAt : o \in Nat /\ NameAt[o] \in T!Names
  /\ LongNames \subseteq Nat
  /\ \A d \in Disks : d.header.len >= 60 /\ d.header.half[58] <= 64

D == INSTANCE StringDump WITH
  Offs <- Nat, Sizes <- Nat, Chars <- Units, NUL <- 0, Blank <- 32, Truncated <- TRUE,
  off <- secOff[Mine], size <- secSize[Mine], contents <- InFile(secOff[Mine], secSize[Mine])

X == INSTANCE TextSweep WITH
  TextOffs <- Nat, Sizes <- Nat, RiscvLens <- {0, 32, 64}, WellFormedOnly <- FALSE,
  Truncated <- TRUE, shdrTextOff <- secOff[".text"], shdrTextSize <- secSize[".text"],
  text <- InFile(textOff, secSize[".text"])

-----------------------------------------------------------------------------
Init ==
  /\ disk \in Disks
  /\ call = 1 /\ report = << >> /\ left = {} /\ textOff = 0
  /\ H!Init
  /\ shdrAt = "entry" /\ shdrIndex = 0 /\ shdr = << >> /\ i_shdr = << >>
  /\ flagBuffer = [k \in 0 .. FlagSlots - 1 |-> T!NUL] /\ rows = << >>
  /\ secOff = [s \in T!Sought |-> 0] /\ secSize = [s \in T!Sought |-> 0]
  /\ at = "entry" /\ fileHandle = "none" /\ got = 0
  /\ strBuffer = << >> /\ charIndex = 0 /\ printed = << >>
  /\ instBuffer = << >> /\ pos = 0 /\ reach = 0 /\ lines = << >> /\ complained = FALSE

process_elf_header ==
  /\ In("process_elf_header")
  /\ UNCHANGED <<main, secOff, secSize, shdrLocals, at, fileHandle, got,
                 dumpLocals, textLocals>>
  /\ H!Next

process_section_header ==
  /\ In("process_section_header")
  /\ UNCHANGED <<main, ehdrGlobals, ehdrLocals, at, fileHandle, got, dumpLocals, textLocals>>
  /\ T!Next

(* A dump or the sweep goes to `at`; fread delivers what the file has.     *)
Delivers ==
  /\ at' \in {"opened", "print", "sweep", "close", "returned", "crashed"}
  /\ got' = IF at = "opened" /\ at' \in {"print", "sweep"}
            THEN Available(secOff[Mine], secSize[Mine]) ELSE got

dump_section(s) ==
  /\ In(s)
  /\ UNCHANGED <<main, ehdrGlobals, secOff, secSize, ehdrLocals, shdrLocals, textLocals>>
  /\ Delivers
  /\ D!Next

dump_debug_str_section        == dump_section(".debug_str")
dump_comment_section          == dump_section(".comment")
dump_riscv_attributes_section == dump_section(".riscv.attributes")
dump_GCC_command_line_section == dump_section(".GCC.command.line")

disassemble_text_section ==
  /\ In(".text")
  /\ UNCHANGED <<main, ehdrGlobals, secSize, ehdrLocals, shdrLocals, dumpLocals>>
  /\ \E n \in {0, 2, 4} : secOff' = [secOff EXCEPT ![".text"] = @ + n]
  /\ Delivers
  /\ X!Next

-----------------------------------------------------------------------------
(* main goes on to its next call.                                          *)
Proceed ==
  /\ call' = call + 1
  /\ textOff' = secOff[".text"]
  /\ UNCHANGED <<disk, report, left, ehdrGlobals, secOff, secSize, ehdrLocals, shdrLocals,
                 at, fileHandle, got, dumpLocals, textLocals>>

HeaderDone ==
  /\ \/ In("process_elf_header") /\ ehdrAt = "returned"
     \/ In("process_section_header") /\ shdrAt = "returned"
  /\ Proceed

(* Two functions only return 0.                                            *)
process_program_header == In("process_program_header") /\ Proceed
parser_debug_frame     == In("parser_debug_frame") /\ Proceed

(* A part has been printed: the next function starts with locals of its    *)
(* own.  A handle that is open now stays so.                               *)
PartDone ==
  /\ call <= Len(Calls) /\ at = "returned"
  /\ call' = call + 1
  /\ report' = Append(report, IF In(".text") THEN lines ELSE printed)
  /\ left' = IF fileHandle = "open" THEN left \cup {Calls[call]} ELSE left
  /\ at' = "entry" /\ fileHandle' = "none" /\ got' = 0
  /\ strBuffer' = << >> /\ charIndex' = 0 /\ printed' = << >>
  /\ UNCHANGED <<disk, textOff, ehdrGlobals, secOff, secSize, ehdrLocals, shdrLocals, textLocals>>

Next ==
  \/ process_elf_header \/ process_section_header \/ HeaderDone
  \/ process_program_header \/ parser_debug_frame
  \/ dump_debug_str_section \/ dump_comment_section
  \/ dump_riscv_attributes_section \/ dump_GCC_command_line_section
  \/ disassemble_text_section \/ PartDone

(* A single thread that nothing blocks keeps executing.                    *)
Spec == Init /\ [][Next]_vars /\ WF_vars(Next)
-----------------------------------------------------------------------------
(* Each value has its type, in its function's terms.                       *)
TypeOK ==
  /\ disk \in Disks
  /\ call \in 1 .. Len(Calls) + 1
  /\ Len(report) <= 5 /\ left \subseteq T!Sought
  /\ H!TypeOK
  /\ call > 2 => shdrAt = "returned" /\ T!TypeOK
  /\ Mine # ".text" => D!TypeOK
  /\ call = Len(Calls) => X!TypeOK

(* The file's promise, on any of its files.                                *)
Lost == {k + 1 : k \in {k \in DOMAIN i_shdr : i_shdr[k].name = "stray"}}

Promise == INSTANCE Report WITH Longest <- IntMax, lost <- Lost

(***************************************************************************)
(* The whole program keeps its promise on ordinary files: what it prints   *)
(* under a section's name is that section, found over four globals and two *)
(* globals more, by functions that each open the file anew.                *)
(***************************************************************************)
ImplementsReport == Promise!Spec

(* Where a pair of globals says that its section starts: the sweep has     *)
(* counted `pos` in that of the text section.                              *)
Start(s) == IF s = ".text" THEN secOff[s] - pos ELSE secOff[s]

(* The pair of s is that of the last section shown by that name.           *)
AsShown(s) ==
  LET K == T!Namesakes(s, Number)
  IN  IF K = {} THEN Start(s) = 0 /\ secSize[s] = 0
      ELSE \E k \in K : /\ \A j \in K : j <= k
                         /\ Start(s) = shdr[k].offset /\ secSize[s] = shdr[k].size

(***************************************************************************)
(* Of damaged files, too, what is dumped and disassembled are the sections *)
(* that the table shows: from the name loop to the last line, a pair of    *)
(* globals is that of the last section shown with that name, even though   *)
(* the sweep counts addresses in one of them.                              *)
(***************************************************************************)
PairsAsShown == call > 2 => \A s \in T!Sought : AsShown(s)

(***************************************************************************)
(* A line is decoded by the class byte of the file, unless the file has    *)
(* none: two stages and a global lie between them.                         *)
(***************************************************************************)
LinesByClass ==
  disk.header.len >= 16 =>
    \A i \in 1 .. Len(lines) : lines[i].isa = IF H!FileClass = 64 THEN "rv64" ELSE "rv32"

(***************************************************************************)
(* Of the handles that the last five functions get, those stay open whose  *)
(* section the table does not show, or shows at offset zero, and no        *)
(* others: no handle is lost for a part that is printed.                   *)
(***************************************************************************)
LeftOpen ==
  \A s \in left : \A k \in T!Namesakes(s, Number) :
    (\A j \in T!Namesakes(s, Number) : j <= k) => shdr[k].offset = 0

(***************************************************************************)
(* main comes to an end, or the program dies on the way, unless an unit of *)
(* an unsupported length stops the sweep; and that only in a file that is  *)
(* not ordinary.                                                           *)
(***************************************************************************)
Ended == call > Len(Calls) \/ "crashed" \in {ehdrAt, shdrAt, at} \/ ehdrAt = "aborted"

EndsUnlessStuck == <>(Ended \/ (complained /\ ~Promise!Ordinary))
=============================================================================
