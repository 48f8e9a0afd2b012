----------------------------- MODULE SectionTable -----------------------------
(***************************************************************************)
(* process_section_header: a loop reads the section headers, a second loop *)
(* looks up their names and notes where five sections are, and the table   *)
(* is printed.  The names need a loop of their own, since the string table *)
(* is itself one of the sections.                                          *)
(*                                                                         *)
(* Of a header are kept the fields that decide something or of which a     *)
(* property tells; address, link, info, alignment and entry size are only  *)
(* copied and printed.  Flags are the set of their bit numbers.  What the  *)
(* stack or the heap held before is an arbitrary header or name.           *)
(***************************************************************************)
EXTENDS Naturals, FiniteSets, Sequences

CONSTANTS
  Headers,     \* headers that occur in files, or on the stack
  Numbers,     \* values of shdrNumber
  Indices,     \* values of shdrStrtabIndex
  EntrySizes,  \* values of shdrSize
  NameAt,      \* the name that fscanf reads, at each offset of the file
  LongNames,   \* offsets that no white space follows for 1023 characters
  StackRoom,   \* the largest shdrNumber whose three tables the stack holds
  FlagSlots,   \* length of flagBuffer, 1024
  Truncated    \* TRUE: the file may end before the table does

(* The sections that the rest of the program works on.                     *)
Sought == {".debug_str", ".comment", ".riscv.attributes", ".GCC.command.line", ".text"}

Names == Sought \cup {"other"}

HeaderSet == [name : Nat, type : Nat, flags : SUBSET (0 .. 63), offset : Nat, size : Nat]

(* Were an entry larger than Elf64_Auxiliary_Shdr, the last one would be   *)
(* read past the end of its table; these sizes are left out.               *)
ASSUME TableAssumption ==
  /\ Headers \subseteq HeaderSet
  /\ Numbers \subseteq Nat /\ Indices \subseteq Nat
  /\ EntrySizes \subseteq 0 .. 64
  /\ DOMAIN NameAt \subseteq Nat /\ \A o \in DOMAIN NameAt : NameAt[o] \in Names
  /\ LongNames \subseteq Nat /\ StackRoom \in Nat /\ FlagSlots \in Nat
  /\ Truncated \in BOOLEAN

VARIABLES
  shdrNumber, shdrSize, shdrStrtabIndex,   \* globals, set by the ELF header
  table,       \* the headers in the file, at shdrAddress
  present,     \* bytes that the file has from shdrAddress on
  seekable,    \* fseek takes shdrAddress
  at,          \* where the function is
  shdrIndex,
  shdr,        \* the decoded headers
  i_shdr,      \* name and type, for printing
  flagBuffer,  \* static
  secOff, secSize,  \* the five pairs of globals shdr...Off, shdr...Size
  rows         \* the printed table

inputs == <<shdrNumber, shdrSize, shdrStrtabIndex, table, present, seekable>>
vars == <<inputs, at, shdrIndex, shdr, i_shdr, flagBuffer, secOff, secSize, rows>>

-----------------------------------------------------------------------------
NUL == ""

(* The section types with a name.                                          *)
ListedTypes == 0 .. 4 \cup 7 .. 9 \cup {11} \cup 17 .. 19 \cup {1879048195}

Letter(bit) ==
  CASE bit = 0 -> "W"  [] bit = 1 -> "A"  [] bit = 2 -> "X"  [] bit = 4 -> "M"
    [] bit = 5 -> "S"  [] bit = 6 -> "I"  [] bit = 7 -> "L"  [] bit = 8 -> "O"
    [] bit = 9 -> "G"  [] bit = 10 -> "T" [] bit = 11 -> "C" [] bit = 31 -> "E"
    [] OTHER -> NUL

(* The bit of a flag word that has k lower ones set.                       *)
Kth(flags, k) == CHOOSE b \in flags : Cardinality({c \in flags : c < b}) = k

(* Each flag has a place in the buffer.  One without a letter keeps what   *)
(* was there, and so do the places behind the last flag.                   *)
sh_flags(flags) ==
  [k \in DOMAIN flagBuffer |->
     IF k < Cardinality(flags) /\ Letter(Kth(flags, k)) # NUL
     THEN Letter(Kth(flags, k)) ELSE flagBuffer[k]]

(* An unlisted type leaves i_sh_type as it was on the stack, which is the  *)
(* null pointer, shown as "unknown", or a stray one.                       *)
sh_type(type) == IF type \in ListedTypes THEN {"listed"} ELSE {"unknown", "stray"}

(* Where each field ends in Elf64_Auxiliary_Shdr.                          *)
FieldEnd == [name |-> 4, type |-> 8, flags |-> 16, offset |-> 32, size |-> 40]

(* The header at index i, of which fread delivered `bytes` bytes.          *)
Delivered(i, bytes, stale) ==
  LET Field(f) == IF FieldEnd[f] <= bytes THEN table[i][f] ELSE stale[f]
  IN  [name |-> Field("name"), type |-> Field("type"), flags |-> Field("flags"),
       offset |-> Field("offset"), size |-> Field("size")]

Least(a, b) == IF a < b THEN a ELSE b

BytesOf(i) == IF present < i * shdrSize THEN 0 ELSE Least(shdrSize, present - i * shdrSize)

(* Where a file may end: within a header, the ends of fields matter.       *)
Ends ==
  {i * shdrSize + c : i \in 0 .. shdrNumber, c \in {0} \cup {FieldEnd[f] : f \in DOMAIN FieldEnd}}
    \cap 0 .. shdrNumber * shdrSize

-----------------------------------------------------------------------------
Init ==
  /\ shdrNumber \in Numbers
  /\ shdrSize \in EntrySizes
  /\ shdrStrtabIndex \in Indices
  /\ table \in [0 .. shdrNumber - 1 -> Headers]
  /\ present \in IF Truncated THEN Ends ELSE {shdrNumber * shdrSize}
  /\ seekable \in BOOLEAN
  /\ at = "entry"
  /\ shdrIndex = 0
  /\ shdr = << >>
  /\ i_shdr = << >>
  /\ flagBuffer = [k \in 0 .. FlagSlots - 1 |-> NUL]
  /\ secOff = [s \in Sought |-> 0]
  /\ secSize = [s \in Sought |-> 0]
  /\ rows = << >>

(* fopen, the three tables on the stack, and fseek.                        *)
Enter ==
  /\ at = "entry"
  /\ shdrNumber <= StackRoom
  /\ at' = IF seekable THEN "headers" ELSE "names"
  /\ shdr' \in [0 .. shdrNumber - 1 -> Headers]
  /\ i_shdr' = [i \in 0 .. shdrNumber - 1 |-> [name |-> "stray", type |-> "stray"]]
  /\ UNCHANGED <<inputs, shdrIndex, flagBuffer, secOff, secSize, rows>>

(* The file is not there, or the tables do not fit.                        *)
EnterCrash ==
  /\ at = "entry"
  /\ at' = "crashed"
  /\ UNCHANGED <<inputs, shdrIndex, shdr, i_shdr, flagBuffer, secOff, secSize, rows>>

(* Slip: the loop runs to shdrIndex <= shdrNumber.                         *)
ReadHeader_OnePast ==
  /\ at = "headers"
  /\ shdrIndex <= shdrNumber
  /\ shdrIndex' = shdrIndex + 1
  /\ UNCHANGED <<inputs, at, shdr, i_shdr, flagBuffer, secOff, secSize, rows>>

ReadHeader ==
  /\ at = "headers"
  /\ shdrIndex < shdrNumber
  /\ \E stale \in Headers :
       LET h == Delivered(shdrIndex, BytesOf(shdrIndex), stale)
       IN  /\ shdr' = [shdr EXCEPT ![shdrIndex] = [h EXCEPT !.flags = {}]]
           /\ \E type \in sh_type(h.type) : i_shdr' = [i_shdr EXCEPT ![shdrIndex].type = type]
           /\ flagBuffer' = sh_flags(h.flags)
  /\ shdrIndex' = shdrIndex + 1
  /\ UNCHANGED <<inputs, at, secOff, secSize, rows>>

EndHeaders ==
  /\ at = "headers"
  /\ shdrIndex = shdrNumber
  /\ at' = "names"
  /\ shdrIndex' = 0
  /\ UNCHANGED <<inputs, shdr, i_shdr, flagBuffer, secOff, secSize, rows>>

-----------------------------------------------------------------------------
(* Slip: the name is looked up in the section itself.                      *)
StringTables_OwnSection == {shdr[shdrIndex].offset}

(* Where the string table is said to be: with an index outside the table,  *)
(* what lies on the stack there says it.                                   *)
StringTables ==
  IF shdrStrtabIndex < shdrNumber THEN {shdr[shdrStrtabIndex].offset}
  ELSE {h.offset : h \in Headers}

(* Behind the end of the file fscanf leaves what malloc gave.              *)
NamesAt(o) == IF o \in DOMAIN NameAt THEN {NameAt[o]} ELSE Names

(* Slip: a name that was seen before is not noted again.                   *)
Record_First(name) ==
  /\ i_shdr' = [i_shdr EXCEPT ![shdrIndex].name = name]
  /\ secOff' = [s \in Sought |-> IF s = name /\ secOff[s] = 0 THEN shdr[shdrIndex].offset ELSE secOff[s]]
  /\ secSize' = [s \in Sought |-> IF s = name /\ secOff[s] = 0 THEN shdr[shdrIndex].size ELSE secSize[s]]

(* sh_name_str at shdrIndex, once the name is in strBuffer.                *)
Record(name) ==
  /\ i_shdr' = [i_shdr EXCEPT ![shdrIndex].name = name]
  /\ secOff' = [s \in Sought |-> IF s = name THEN shdr[shdrIndex].offset ELSE secOff[s]]
  /\ secSize' = [s \in Sought |-> IF s = name THEN shdr[shdrIndex].size ELSE secSize[s]]

ResolveName ==
  /\ at = "names"
  /\ shdrIndex < shdrNumber
  /\ \E strtab \in StringTables :
       \E name \in NamesAt(strtab + shdr[shdrIndex].name) : Record(name)
  /\ shdrIndex' = shdrIndex + 1
  /\ UNCHANGED <<inputs, at, shdr, flagBuffer, rows>>

(* malloc fails: the complaint is not looked at.                           *)
NameLost ==
  /\ at = "names"
  /\ shdrIndex < shdrNumber
  /\ shdrIndex' = shdrIndex + 1
  /\ UNCHANGED <<inputs, at, shdr, i_shdr, flagBuffer, secOff, secSize, rows>>

(* fscanf stops at white space, not at a NUL, and may overrun strBuffer.   *)
NameOverrun ==
  /\ at = "names"
  /\ shdrIndex < shdrNumber
  /\ \E strtab \in StringTables : strtab + shdr[shdrIndex].name \in LongNames
  /\ at' = "crashed"
  /\ UNCHANGED <<inputs, shdrIndex, shdr, i_shdr, flagBuffer, secOff, secSize, rows>>

EndNames ==
  /\ at = "names"
  /\ shdrIndex = shdrNumber
  /\ at' = "print"
  /\ UNCHANGED <<inputs, shdrIndex, shdr, i_shdr, flagBuffer, secOff, secSize, rows>>

-----------------------------------------------------------------------------
(* The letters of flagBuffer up to its first NUL.                          *)
FlagString ==
  LET n == CHOOSE n \in 0 .. FlagSlots :
             /\ \A k \in 0 .. n - 1 : flagBuffer[k] # NUL
             /\ n = FlagSlots \/ flagBuffer[n] = NUL
  IN  [k \in 1 .. n |-> flagBuffer[k - 1]]

(* Each row's flags are the one buffer, once sh_flags has pointed to it.   *)
PrintTable ==
  /\ at = "print"
  /\ rows' = [k \in 1 .. shdrNumber |->
                [name |-> i_shdr[k - 1].name, type |-> i_shdr[k - 1].type,
                 flags |-> IF seekable THEN FlagString ELSE <<"stray">>]]
  /\ at' = "returned"
  /\ UNCHANGED <<inputs, shdrIndex, shdr, i_shdr, flagBuffer, secOff, secSize>>

(* %s of a stray pointer may crash.                                        *)
PrintCrash ==
  /\ at = "print"
  /\ \E k \in DOMAIN i_shdr : "stray" \in {i_shdr[k].name, i_shdr[k].type}
  /\ at' = "crashed"
  /\ UNCHANGED <<inputs, shdrIndex, shdr, i_shdr, flagBuffer, secOff, secSize, rows>>

Next ==
  \/ Enter \/ EnterCrash \/ ReadHeader \/ EndHeaders
  \/ ResolveName \/ NameLost \/ NameOverrun \/ EndNames \/ PrintTable \/ PrintCrash

Spec == Init /\ [][Next]_vars
-----------------------------------------------------------------------------
(* Each value has its type; the index stays in the tables.                 *)
Shown == [name : Names \cup {"stray"}, type : {"listed", "unknown", "stray"}]

TypeOK ==
  /\ shdrNumber \in Numbers /\ shdrSize \in EntrySizes /\ shdrStrtabIndex \in Indices
  /\ table \in [0 .. shdrNumber - 1 -> Headers]
  /\ present \in 0 .. shdrNumber * shdrSize
  /\ seekable \in BOOLEAN
  /\ at \in {"entry", "headers", "names", "print", "returned", "crashed"}
  /\ shdrIndex \in 0 .. shdrNumber
  /\ at \in {"headers", "names", "print", "returned"} =>
       /\ shdr \in [0 .. shdrNumber - 1 -> HeaderSet]
       /\ i_shdr \in [0 .. shdrNumber - 1 -> Shown]
  /\ secOff \in [Sought -> Nat] /\ secSize \in [Sought -> Nat]
  /\ Len(rows) = IF at = "returned" THEN shdrNumber ELSE 0

(* The sections before index n, as decoded, that are shown with the name s.*)
Namesakes(s, n) == {k \in 0 .. n - 1 : i_shdr[k].name = s}

(* A pair is that of the last of these sections, and zero if there is none.*)
LastOf(s, K, headers) ==
  IF K = {} THEN secOff[s] = 0 /\ secSize[s] = 0
  ELSE \E k \in K : /\ \A j \in K : j <= k
                     /\ secOff[s] = headers[k].offset
                     /\ secSize[s] = headers[k].size

(***************************************************************************)
(* The rest of the program trusts these pairs.  At any point of the name   *)
(* loop, and whatever was read from the stack or the heap, the offset and  *)
(* the size are those of one section, the last so far that the table shows *)
(* under that name: what the program dumps and what it lists agree.        *)
(***************************************************************************)
LastNamesake ==
  at \in {"names", "print", "returned"} =>
    \A s \in Sought : LastOf(s, Namesakes(s, shdrIndex), shdr)

(* The table is in the file as a whole, with headers of the right size.    *)
Intact ==
  /\ seekable /\ shdrSize = 64 /\ present = shdrNumber * shdrSize
  /\ shdrStrtabIndex < shdrNumber
  /\ \A k \in 0 .. shdrNumber - 1 : table[shdrStrtabIndex].offset + table[k].name \in DOMAIN NameAt

FileName(k) == NameAt[table[shdrStrtabIndex].offset + table[k].name]

(***************************************************************************)
(* Of an intact file, unless memory ran out, the pairs are those of the    *)
(* file's own directory.  That takes both loops in their order: the string *)
(* table's header is needed for names of sections before it.               *)
(***************************************************************************)
DirectoryOfFile ==
  /\ at \in {"print", "returned"}
  /\ Intact
  /\ \A k \in 0 .. shdrNumber - 1 : i_shdr[k].name # "stray"
  => \A s \in Sought : LastOf(s, {k \in 0 .. shdrNumber - 1 : FileName(k) = s}, table)

(***************************************************************************)
(* The column "Flags" (sectionHeader.c:40) should show each section's own  *)
(* flags, the "Section flags" of elf.h:158.  All rows share the one static *)
(* flagBuffer, which no section clears.                                    *)
(***************************************************************************)
LettersOf(flags) ==
  LET lettered == {b \in flags : Letter(b) # NUL}
  IN  [k \in 1 .. Cardinality(lettered) |-> Letter(Kth(lettered, k - 1))]

RowsShowOwnFlags ==
  at = "returned" /\ Intact => \A k \in 1 .. Len(rows) : rows[k].flags = LettersOf(table[k - 1].flags)
=============================================================================
