# Verification of the RISC-V ELF disassembler

The program (`src/src/elfParser`) takes an ELF file, prints its ELF header, its
section headers, the contents of four string sections, and a disassembly of
`.text`. It is sequential, keeps no state between runs, and reads one file,
which each stage opens again by name. This directory holds TLA+ models of it,
the TLC configurations that check them on small instances, and proofs about
them for every instance.

## Inventory

| part | source | state it keeps | operations | what makes it correct |
|---|---|---|---|---|
| main program | `elfParser.c` | none | calls nine functions in order, whatever they return | what is printed under a section's name is that section of the file; the program ends |
| ELF header | `DumpElfHeader.c` | `shdrAddress`, `shdrNumber`, `shdrSize`, `shdrStrtabIndex`, `riscvLen` | read 64 bytes, decode 14 fields, print | the globals and the printed values are those of the file; only RISC-V files go on |
| section headers | `sectionHeader.c` | five offset/size pairs of globals, the static `flagBuffer` | read every header, resolve names, print | an offset and its size come from one section of that name; each row shows its own section |
| string dumps | `dump*Section.c` | none | read a section, print it with blanks for NULs | what is printed is the section's contents |
| text sweep | `disassembleTextSection.c` 3504-3548 | heap buffer, walking pointer, `shdrTextOff` as address counter | read `.text`, cut it into units, print each | every unit is listed once, at its address, with its bytes, and the loop ends |
| instruction decoder | `disassembleTextSection.c` 26-3502 | `rv_instInfo`, an 80-byte line | op, operands, pseudo-instruction, line | the line tells the instruction, completely, and fits |
| little-endian reads | `dataOperate.c` | none | bytes to integers | |
| program header, debug frame | `programHeader.c`, `dumpDebugFrameSection.c` | none | return 0 | main goes on |

The stages interact only through the globals in the table and through the file.
Nothing is concurrent and nothing is persisted, so what is hard here is of
another kind: loops that end on an equality, unchecked library calls, buffers of
fixed size, globals and static buffers used twice, tables of several hundred
rows, and shifts of single bits. `PROJECT.json` lists these hazards line by line.

## Modules

| module | models |
|---|---|
| `RvWord` | bytes to words (`byte_get_little_endian`), `inst_length` |
| `LinearSweep` | abstract: what a listing of `.text` is, without saying how it is produced |
| `TextSweep` | `disassemble_text_section`, one action per call or branch of its loop |
| `TextSweepProofs` | theorems about `TextSweep`, which implements `LinearSweep` |
| `RvOps` | `opcode_data`: each op with its operand type and line format |
| `RvOperands` | the `operand_*` extractors and `rv_inst_oprands` |
| `RvPseudo` | constraint lists, `check_constraints`, `rv_inst_pseudo` |
| `RvDecode` | `rv_inst_opcode` |
| `RvAsm` | abstract: the RISC-V instruction formats, as an assembler would read a line |
| `DisassembleInst` | `disassemble_inst`, one action per call it makes and per character of the format |
| `OperandProofs` | the extractors read the fields of `RvAsm`'s formats, and the formats of `opcode_data` show them |
| `DecodeProofs` | the switches find every legal word, and lifts keep its meaning |
| `DisassembleInstProofs` | theorems about `DisassembleInst`, for every word |
| `ElfHeader` | `process_elf_header` and the `ehdr_*` functions |
| `ElfHeaderProofs` | theorems about `ElfHeader` |
| `SectionTable` | `process_section_header`: both loops and the printed table |
| `SectionTableProofs` | theorems about `SectionTable` |
| `StringDump` | the four `dump_*_section` functions, which are one |
| `StringDumpProofs` | theorems about `StringDump` |
| `Report` | abstract: what the program promises to print of an ordinary file |
| `ElfParser` | `main`: the four stage modules over one set of globals and one file |
| `ElfParserProofs` | theorems about `ElfParser` from the proofs of its stages; it implements `Report` |
| `MCTextSweep`, `MCDisassembleInst`, `MCCompressed`, `MCElfHeader`, `MCSectionTable`, `MCStringDump`, `MCElfParser` | instances for TLC |

### TextSweep

The variables are the globals and locals of the function: `shdrTextOff` (which
the code advances as the address it prints), `shdrTextSize`, `riscvLen`, the
file handle, the heap buffer, and the walking pointer as its offset `pos`.
`text` is the section in the file; `lines` records the calls of
`disassemble_inst`, `reach` how far the buffer was read, and `complained`
whether "instruction length is error!" was printed.

`Open` may yield NULL and nobody looks; `LoadText` may deliver fewer bytes than
the section has, the rest staying what malloc gave; `LoadCrash` is a call on a
NULL stream or a NULL buffer. Each iteration is one of `Uncompressed`,
`Compressed`, `Unsupported`. A fetch may reach behind the buffer: bytes there
are chosen anew by each step. The loop tests `!=`, so `pos` may pass the end and
runs on until `Slack` bytes behind it, where `Segfault` ends the program;
`Slack` is a bound of the model only.

### DisassembleInst

`dec` is the `rv_instInfo` structure. The first three calls of the function are
three actions, each applying the translated function to it. Of the fourth,
`rv_inst_format`, `FormatWord` is the `snprintf` of the word and `FormatChar` one
turn of the loop over the format, with `fmt` for the pointer into it. The line is
abstracted to its pieces: what each shows (a register number, an immediate, a
mnemonic) and how many characters of it the buffer took. CSR names are kept as a
width. Mnemonics are sequences of their dotted parts, so that `fmv.x.w` is
`<<"fmv", "x", "w">>`. Formats are those of the source, character by character.

Three assumptions bound the line. `TabAssumption` asks for the room that the
column 32 and the 80 bytes of the code leave; `NameAssumption`, that no name has
more than ten characters, is a fact about `opcode_data` that TLC evaluates;
`InputAssumption` names the words and offsets that the sweep hands over.

`pc` is `shdrTextOff`, which comes unchecked from a section header and need not lie
in the file, so `Address` has every 64-bit value, as four halves of sixteen bits that
TLC can hold. `Target` adds the sign-extended immediate modulo 2^64, with the carry or
borrow from half to half, and `Hexadecimal` counts the digits that `PRIx64` prints.

The tables of switches in `RvDecode` keep the order of the cases. S, D and Q
forms of a float instruction share a table and differ in `Precision`.

The reference in `RvAsm` is written from the instruction formats of the ISA,
as bit positions of each field: it shares no definition with the extractors,
which work by shifting. `Means` says that a mnemonic, marks and operands are
those of a word, and `Legal` that a word is an instruction at all: its bits without
a place are those of an entry, and each operand has a value there. `Basic` are the
32-bit entries that a processor knows; the pseudo-instructions of `Wide` only name
some of their words.

### ElfHeader

`file` is the file's header: its identification byte by byte, and the rest as
16-bit halves by offset, so that no field is too wide for TLC. `a_ehdr` is what
`fread` gave, stale where the file ends early; `Decode` makes `ehdr` of it, by
the Elf64 layout whatever the class. Both copies of the identification are by
`strcpy` and stop at its first NUL. Each `ehdr_*` call is a step, its refusals
(an early return that nobody looks at, or `abort`) are alternatives. A field of
`info` that was never set is `<< >>`; printing one with `%s` may crash. An
identification without any NUL makes `strcpy` overrun: it may crash
(`Overrun`), or spoil only fields that are set later.

### SectionTable

The state is the function's: `shdr`, `i_shdr`, the static `flagBuffer`, the loop
index, and the five pairs of globals as two functions of the section's name.
`ReadHeader` is one turn of the first loop with all the `sh_*` functions it
calls. Flags are sets of bit numbers, so that "the lowest bit set" is a minimum.
The file may end within a header (`present`); what is not delivered is stale.
`ResolveName` is one turn of the second loop; an index of the string table
outside the table reads an arbitrary header, an offset behind the file an
arbitrary name, and a failed `malloc` is only complained of. `StackRoom` is a
bound of the model: the largest table that the stack holds.

### StringDump

One turn of the loop is `PrintChar`. The `int` index overflows behind `IntMax`:
there it may go on or turn negative, which ends the loop.

### ElfParser

`main` calls nine functions in a fixed order and looks at none of their results.
The module instantiates `ElfHeader`, `SectionTable`, `StringDump` and
`TextSweep` over shared globals, which are the program's: `shdrAddress` to
`riscvLen` go from the header to the table, and the pairs `secOff`, `secSize`
from the table to the dumps and the sweep. Each function has its own locals; the
five that come last run one after another, so that they share the names of
theirs, and `PartDone` clears them. `call` is the function that `main` is in.
A call that returned is followed by `HeaderDone`, by `PartDone`, which notes what
was printed (`report`) and whether the handle was closed (`left`), or, for the
two functions that only return 0, by a step of `main` itself. A stage that
exits, aborts or crashes leaves no next step.

The file is one record, `disk`: its header, the section headers at `tableAt`,
and its bytes. What a stage finds there follows from the globals it was left:
`Table` and `Present` from `shdrAddress`, `shdrNumber` and `shdrSize`, `InFile`
and `Available` from a pair. So a wrong address leads to stale headers, and a
section that the file does not hold to a short read, as in the code. Each dump
works on its own pair (`Mine`); that these are four copies of one function with
different globals is what makes a forgotten change possible
(`Mine_Copied`).

The sweep counts addresses in `shdrTextOff` itself, so the section's contents
are taken at `textOff`, a ghost that keeps what the global was before.

`Report` says what `main` promises, from the file alone: an ordinary file (a
complete 64-bit header, headers of 64 bytes, names that are there, sections that
lie in it, code of 2- and 4-byte units) yields five parts, each being the last
section with its name. It does not know of globals, indices or loops, nor of how a
listing is made: the part for `.text` is any sequence of lines that starts at the
section, ends at its end, and has each unit of its bytes at its place
(`IsListing`). Names lost for want of memory count as sections that are not there. Of other files nothing
is promised there; `PairsAsShown` says what still holds of them.

## Runs

| run | question | bounds |
|---|---|---|
| `sweep_any` | do addresses and pointer stay together, does the loop return exactly on well-formed sections, do foreign bytes reach a line | sections of 0, 2, 3, 4 bytes, one byte value for a two-byte, a four-byte and a longer unit, every truncation, two bytes of slack: a fetch is four bytes, so that every way a unit may lie at the end occurs |
| `sweep_wf` | does the sweep implement `LinearSweep`, does it end, how far does it read | sections up to 8 bytes, that is every mixture of up to four units |
| `sweep_long` (violation) | are 6- and 8-byte units supported | one six-byte unit |
| `inst_all` | does the line give back the word, fit unless its target has twelve digits, and stay readable | 32-bit: every instruction, each operand taking its bounds and every single bit while the others are lowest or highest (an extractor is a disjunction of shifted fields, so that single bits reach all of it); 16-bit: all legal words, for RV32 and RV64. Offset 2 KiB, and for jumps, branches, `auipc` also 2^32 - 2, 2^44 - 2 and 2^64 - 2: targets before the start of the file, on both sides of the bound of `FitsUnlessFarTarget`, and sums that carry or wrap |
| `inst_lift` (violation) | does the pseudo-instruction keep the meaning | words of `jalr` and of the sign transfers of float registers |
| `header_any` | do the globals come from the file, and `riscvLen` from its class | a 64-bit header with any two identification bytes or any one field changed, a 32-bit one with any byte changed, and every truncation |
| `header_ident` (violation) | is the printed identification the file's | one ordinary header |
| `header_elf32` (violation) | are 32-bit headers understood | one ordinary header |
| `table_any` | does each offset and size come from one section, and from the right one | tables of 0, 1 and 3 sections over a string table and two namesakes, every order, intact or cut short at every field, short entries, any stack contents, an index outside the table: three sections are needed to have the string table before, between and after namesakes |
| `table_flags` (violation) | does each row show its own flags | two sections |
| `dump` | is what is printed at its place, and does the dump end | sections up to 5 characters, every truncation, `IntMax` 3, so that the index passes it |
| `parser` | does the program keep its promise on ordinary files, do the parts agree with the table and with the class on any, which handles stay open, does it end | twelve files of up to four sections: orders of the string table, the code and two of the dumps (one of them with no section, so that a pair stays zero), two sections named `.text`, code with a unit of unsupported length and none at all, another machine, a 32-bit file, an address that cannot be sought, an index outside the table, a short header, a file that ends within its code; `Slack` 0, since how far a stray pointer gets is the business of `sweep_any`. Four sections need every global of the chain; the tables of each stage in all their variety are in its own run |

Deadlock is not checked (`CHECK_DEADLOCK FALSE`) since the program ends: at
"returned" or "crashed" there is no next step.

Fairness: `Spec` of `TextSweep`, `StringDump` and `ElfParser` has `WF_vars(Next)`. The
functions are a single thread that waits for nobody, so it keeps executing while
it has a next step.
Nothing more is assumed; on a section with an unsupported unit, the step it
keeps executing is `Unsupported`, which is a stutter after its first time.

## Proofs

`TextSweepProofs` proves, from `SweepAssumption` alone (sizes and offsets are
naturals, byte values are bytes), for sections of any length and contents:

- `TypeCorrect`, `AddressesConsecutive`: type and the agreement of printed
  addresses with the pointer.
- `SweepNeverStrays`, `OverreadIsBounded`, `SweepReturnsOnlyIfParsed`. These
  rest on the invariant `OnBoundary`: for *every* set of unit boundaries that
  parses the buffer, the pointer is one of its members. It is needed since
  neither property is inductive: that the pointer does not pass the end follows
  only from where it came from. The converse, that a normal return parses the
  section, keeps the offsets visited so far as the set.
- `ListedWordsFromFile`: every listed word is the file's, although it is cut
  from a fetch that may reach behind the buffer. The lemma
  `LengthIsInFirstByte` (the length depends on the first byte only) is what
  makes foreign bytes harmless.

It also proves `SweepIsListing`: under `WholeSections` (sections are
chains of 2- and 4-byte units that the file holds to their end) every step of
the sweep is a step of `LinearSweep` or a stutter. That takes the agreement of
addresses and pointer (`Consecutive`), that the pointer is on a unit boundary
(`OnBoundary`), and that the buffer is the section as far as it was delivered;
`ListingInv` is their conjunction. The fairness of `LinearSweep` is left to TLC.

`LinesReassemble` is the theorem that the decoder is there for: the line of every
legal word gives back the word, bit for bit, unless the lift was one of the two that
lose a part. Its hypothesis `LegalInputs` says that what the sweep hands over are
instructions of the file (`Legal`); `MCDisassembleInst` has TLC evaluate that a word of
each entry is one. `inst_all` tries single bits and bounds of each field; the theorem
covers every value of all operands together. Legal is what `RvAsm` has an entry for:
of other words, which the program may show under any name, only the type, the room
and the columns of the line are proved. It takes three modules, which follow the
word through the calls:

1. `OperandProofs`, about bits. `ImmediatesOfWords` and `ImmediatesOfHalfwords`: for
   each immediate and every word, the value that the extractor puts together by
   shifts has its bits where the format of `RvAsm` places them, and no other value
   in the operand's range has. Each lemma writes the extractor as a sum of fields,
   and takes the value apart from its lowest field up. The same of registers,
   rounding modes, CSRs, shift amounts and fence sets (`Held`). With that, a format
   of `opcode_data` tells the operands of an entry (`Told`): each character at its
   place in the format stands for the field of `rv_instInfo` that the operand is in.
   The other way round, a word that carries an entry has the entry's numbers in the
   fields that the switches look at (`InsnFields`), and no two rows list one name
   (`RowTaken`).
2. `DecodeProofs`, about the switches and lists. For each entry, or group of entries
   with the same opcode: the path through the nested switches that its fixed bits
   and the bounds of its operands force ends at its name (`JalDecoded` and so on).
   The compressed ones need most: that a register is not zero, or an immediate not,
   is what tells two instructions with the same fixed bits apart. `LegalListed` puts
   them together: the op returned is the name of an entry that the word is of, and
   its row tells the operands and shows the marks (`Listed`). `LegalMeans` adds the
   pseudo-instructions: each of the constraint lists implies what the new name
   leaves out (`Keeps`), but for the two `Lossy` ones.
3. `DisassembleInstProofs`, about the line. `DecInv` says what each call left in
   `rv_instInfo`; it is needed since `LineReassembles` speaks of the end, when the op
   may be that of a lift. `SaysInv` is the loop invariant of the formatting: the
   pieces so far are those that the characters so far ask for (`Says`), one for each
   operand and mark (`Slotted`, a fact about all 35 formats). At the end the pieces are
   the operands that the format shows, in their order (`ShownArgs`), and
   `LegalMeans` says that they are those of the word.

`DisassembleInstProofs` also proves `TypeCorrect`, `LineFits` and `MnemonicParted` from
`TabAssumption`, `InputAssumption` and `NameAssumption`, for every word of two or
four bytes, an instruction or not, at every 64-bit address; `inst_all` visits legal
words only. The argument goes along the calls:

- Each of the nested switches of `rv_inst_opcode` chooses an op that has a row in
  `opcode_data` (`OpInTable`, from a lemma for each group of rows and each
  switch), and each pseudo-instruction has one too (`PseudoTyped`).
- Whatever the word, the operands that `rv_inst_oprands` cuts out of it index their
  tables of names (`OperandsTyped`).
- Every format has a certain shape (`Shaped`, `RowFormats`): the name, then marks,
  then the tab; at most one operand is long (an immediate, a CSR); a target is
  the last part.
- The loop invariant `LineOk` says how much of the buffer is filled at each place
  of a format: before the name, before the tab, among the operands, behind a
  target. `CharStep` is its step. That a target below 2^44 has at most eleven digits
  is `HexadecimalWidth`. Neither `FitsUnlessFarTarget` nor `MnemonicSeparated` is inductive, since both speak of the end of the loop, and
  what a part adds is harmless only where the format can have it.

`ElfHeaderProofs`, from `HeaderAssumption` (fields are bytes and halves), for
any header, however short, and any stack contents:

- `LenIsThatOfClass`, along `ClassTravels`: which fact about the class byte
  holds at which step. The lemma `CopyKeepsClass` is the core: the magic number
  has no NUL, so that `strcpy` copies the class exactly if the file is ELF.
- `GlobalsAreFileFields` and `OnlyKnownFilesGoOn`, along `FieldsTravel`: each
  global equals the file's field from the step on that sets it.
- `IdentLinesAreFileBytes`, along `LinesTravel`: of an identification with a
  version the first eight bytes survive both copies, and the four lines that
  `ehdr_ident` sets from them survive the steps that set others.
- `HeaderTypeCorrect`.

`ElfParserProofs`, from `ParserAssumption`, `HeadersAssumption` and
`TablesAssumption`, proves three properties of the whole program. It instantiates
the proofs of the first two stages, whose invariants it carries through `main`:

- `LinesDecodedByClass`, along `ClassReachesLines`: `ClassTravels` of the header
  stage, that no other stage starts before the header's returned, that no line is
  there before the sweep, and that nothing between the two writes `riscvLen`.
- `PairsOfTableShown`, along `PairsHold`: the pairs are zero until the section
  header stage starts; while it runs its own `NamesInv` holds, which needs
  globals of the right range (`HeaderTypeCorrect`, and `SizeTravels` for the
  size of an entry) and `shdrIndex` at the end of the table once it is printed;
  afterwards only the text section's pair moves, by as much as `pos`.
- `LeftOpenOnlyIfAbsent`, along the same invariant: a function that returns with
  an open handle found a zero offset in its pair (`HandlesLeft`).

These theorems are not about every file: `TablesAssumption` leaves out the files that
claim entries of more than 64 bytes, as `SectionTable` does, and those whose header
ends before that claim. `ParserAssumption` says too that no section table lies at 2^63 or beyond: `fseek`
cannot go there, and no file reaches it.

From the same assumptions it proves of the whole program
`ProgramTypeCorrect` and `ProgramKeepsPromise`: every step of `main` is a step
of `Report` or a stutter. The invariant joins those above with
`ReportInv`, which says of an ordinary file how far each stage has come:

- `TableStands`: the header's globals are the file's (`FieldsTravel`), the
  headers read so far too (`CopiedSoFar`), and a pair is that of the last section
  whose name was found (`NamedByFile`). The lemmas `OrdinaryIsIntact` and
  `FoundInFile` take it from the globals back to the file.
- `DumpFromFile`: a dump stands where its index is, and one that returned reached
  the end of what was read (`Placed`, `EndReached`); with a section that the file
  holds, that is the section (`DumpIsPart`).
- `SweepFromFile`: addresses, words and units of the lines are those of the file
  (`Consecutive`, `WordsFromFile`, `UnitsListed`), so that a sweep that returned
  is a listing (`SweepIsPart`), decoded by the file's class (`ClassShown`).
- `ReportGrows` and `LocalsFresh`: parts come in the order of `main`, and each
  function starts from cleared locals.

No names are lost at first (`NoneLost`); after that the step that looks up names
(`LooksUp`) and the one that prints a part (`PrintsPart`) are those of `Report`, and
all else stutters. Since
`Report` is a relation, no step needs the number of units of a section.

`SectionTableProofs`, from `TableAssumption`, for tables of any length:

- `TableTypeCorrect`.
- `PairsFromLastNamesake`: it needs to know that a name not looked up yet is
  not one of those sought (`Unnamed`), so that a turn of the loop adds at most
  one section to the namesakes.
- `PairsFromFile`: needs besides that the headers read so far are the file's
  (`CopiedSoFar`), and that the loop over names starts when all are.

`StringDumpProofs`, from `DumpAssumption`: `DumpTypeCorrect`, and
`DumpPlacedAsInFile` along `BufferFromFile`, that the buffer begins with what
the file delivered. `DumpReturnsWhole`, along `EndReached`, is the safety half of
`EndsWhole`: a dump that returned, and found a section, has printed all of it
unless an `int` cannot count its characters.

Only model-checked: `Completes`, `EndsWhole`, `EndsUnlessStuck` and
`LongUnitsSupported` (liveness, which the prover cannot treat), and the liveness
part of `ImplementsListing`. Every invariant of a passing run is a theorem.

## Findings

- An instruction longer than four bytes makes the sweep loop for ever
  (`sweep_long`).
- `jalr zero, imm(ra)` is shown as `ret` for every `imm` (`inst_lift`).
- `fmv.s`, `fneg.s`, `fabs.s` and their double and quad forms are shown with the
  names of integer registers (`inst_lift`, which stops at the first of the two).
- The identification is copied as a string, so that the magic number line and
  the ABI version of every System V file show stack bytes (`header_ident`).
- 32-bit files are accepted and read by the 64-bit layout (`header_elf32`).
- All rows of the section table show the same flags (`table_flags`).

Stated as the bounds of properties that hold:

- A line is decoded by the class of its file (`LinesByClass`). Since the headers
  of a 32-bit file are misread, RV32 lines are of whatever the fields taken for
  its section table lead to; they agree with the table that is shown
  (`PairsAsShown`), and `Report` promises nothing of them.
- The five functions that come last leave the file open when their section is
  not there, or at offset zero, and only then (`LeftOpen`).
- The sweep reads up to two bytes behind its buffer (`OverreadAtMostTwo`).
- A target of twelve or more hexadecimal digits, 2^44 and beyond, fills the line and
  its NUL lands one past the buffer (`FitsUnlessFarTarget`, and the bound of
  `line.len` in `TypeOK`). No file is that long, but a branch to before the start of
  the file wraps to sixteen digits, and `sh_offset` is not compared with anything.

Seen on the way: the "Number of section headers" printed is `e_shstrndx + 1`,
not `e_shnum` (`Lines` in `ElfHeader`); it is right only when the string table
is the last section.

## Plan

1. (done) `TextSweep` with `LinearSweep`, and its proofs; the decoder.
2. (done) `ElfHeader`, `SectionTable`, `StringDump`, and their proofs.
3. (done) `ElfParser` with `Report`, the composition over the shared globals.
4. (done) Proofs: every invariant and action property of the passing runs, and both
   refinements but for their fairness.

## Not modelled

- `decompress`, `inst_fetch` and `byte_put_little_endian`, which nothing calls.
- The text of register and CSR names and of the printed layout beyond its width.
- Section header entries larger than 64 bytes (`EntrySizes`): the last one would
  be read past the end of its table on the stack.
- The header file of ELF constants, whose values stand in the modules that use
  them; the Makefiles and `hex.sh`.
