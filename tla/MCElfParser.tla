----------------------------- MODULE MCElfParser -----------------------------
(***************************************************************************)
(* Files with up to four sections in 20 bytes behind the ELF header.  Each *)
(* string table is said to lie at 200.                                     *)
(***************************************************************************)
EXTENDS ElfParser

(* An ELF header with these fields; all others are zero.                   *)
Elf(class, machine, shoff, shentsize, shnum, shstrndx, len) ==
  [ident |-> [k \in 0 .. 15 |-> IF k < 4 THEN <<127, 69, 76, 70>>[k + 1]
                                ELSE IF k = 4 THEN class ELSE IF k \in {5, 6} THEN 1 ELSE 0],
   half  |-> [o \in {16 + 2 * k : k \in 0 .. 23} |->
                CASE o = 16 -> 2 [] o = 18 -> machine [] o \in {40, 42, 44, 46} -> shoff[(o - 38) \div 2]
                  [] o = 58 -> shentsize [] o = 60 -> shnum [] o = 62 -> shstrndx [] OTHER -> 0],
   len   |-> len]

Section(name, flags, offset, size) ==
  [name |-> name, type |-> 1, flags |-> flags, offset |-> offset, size |-> size]

StringTable == Section(0, {}, 200, 2)
Code        == Section(1, {1, 2}, 64, 8)
Comment     == Section(2, {4, 5}, 72, 4)
CommandLine == Section(5, {}, 76, 3)
LongCode    == Section(1, {1, 2}, 79, 5)
NoCode      == Section(1, {}, 0, 8)

AllHeaders == {StringTable, Code, Comment, CommandLine, LongCode, NoCode}

SectionNames ==
  [o \in 200 .. 205 |-> <<"other", ".text", ".comment", ".debug_str", ".riscv.attributes",
                          ".GCC.command.line">>[o - 199]]

(* Code is units of 4, 2 and 2 bytes, and LongCode starts with one of 6.   *)
Contents == <<147, 32, 0, 147, 32, 147, 0, 0,  32, 0, 147, 0,  147, 147, 0,  31, 0,  0, 31, 147>>

Table0 == <<100, 0, 0, 0>>

File(head, table, end) ==
  [header |-> head, tableAt |-> Table0, table |-> table, bytes |-> [o \in 64 .. end - 1 |-> Contents[o - 63]]]

Good(table) == File(Elf(2, 243, Table0, 64, Len(table), 0, 64), table, 84)

(* A file of another machine, one of 32 bits, one whose section headers    *)
(* cannot be sought, one with no string table, one whose ELF header is cut *)
(* short, and one that ends within its code.                               *)
Poor ==
  LET table == <<StringTable, Code>>
  IN  {File(Elf(2, 62, Table0, 64, 2, 0, 64), table, 84),
       File(Elf(1, 243, <<52, 32, 1, 40>>, 40, 1, 0, 64), table, 84),
       File(Elf(2, 243, <<0, 0, 0, 40000>>, 64, 1, 0, 64), table, 84),
       File(Elf(2, 243, Table0, 64, 1, 1, 64), <<Code>>, 84),
       File(Elf(2, 243, Table0, 64, 1, 0, 62), table, 84),
       File(Elf(2, 243, Table0, 64, 2, 0, 64), table, 71)}

AllDisks ==
  Poor \cup {Good(<<StringTable, Code, Comment, CommandLine>>),
            Good(<<StringTable, Comment, Code>>),
            Good(<<StringTable>>),
            Good(<<StringTable, LongCode, Code>>), Good(<<StringTable, LongCode>>),
            Good(<<StringTable, NoCode>>)}
=============================================================================
