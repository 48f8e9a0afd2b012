-------------------------------- MODULE Report --------------------------------
(***************************************************************************)
(* What the program promises of an ordinary 64-bit file, without saying    *)
(* how: after the two headers it prints the contents of four string        *)
(* sections and a listing of .text, in this order.  Each part is that of   *)
(* the last section which has its name, or is empty if there is none; each *)
(* unit of .text is listed at its offset, as RV64.  A section whose name   *)
(* was lost for want of memory counts as not there.                        *)
(***************************************************************************)
EXTENDS RvWord, Sequences

CONSTANTS
  NameAt,   \* the name at each offset of the file
  Longest   \* the longest string section that is printed whole

VARIABLES
  disk,     \* the file
  lost,     \* the sections whose names were lost
  report    \* the parts printed after the headers

vars == <<disk, lost, report>>

Parts == <<".debug_str", ".comment", ".riscv.attributes", ".GCC.command.line", ".text">>

(* The sections are numbered from one here.                                *)
Half(o) == disk.header.half[o]

NameIn(k) == disk.table[Half(62) + 1].offset + disk.table[k].name

Named(s, without) == {k \in DOMAIN disk.table \ without : NameAt[NameIn(k)] = s}

(* The header of the part s, one of no bytes if there is none.             *)
SectionOf(s, without) ==
  LET K == Named(s, without)
  IN  IF K = {} THEN [offset |-> 0, size |-> 0]
      ELSE disk.table[CHOOSE k \in K : \A j \in K : j <= k]

BytesAt(offset, size) == [i \in 0 .. size - 1 |-> disk.bytes[offset + i]]

(* Blanks stand for the NULs between strings.                              *)
Text(s) ==
  LET h == SectionOf(s, lost)
  IN  [i \in 1 .. h.size |-> IF disk.bytes[h.offset + i - 1] = 0 THEN 32
                             ELSE disk.bytes[h.offset + i - 1]]

(* The unit of the bytes t at o; the first of them lies at `base`.         *)
UnitAt(t, o, base) ==
  LET len == inst_length(t[o])
      b   == [k \in 0 .. len - 1 |-> t[o + k]]
  IN  [pc |-> base + o, inst |-> IF len = 2 THEN get2(b) ELSE get4(b),
       len |-> len, isa |-> "rv64"]

(* Where the first i units of the listing p end.                           *)
Reaches(p, i, base) == IF i = 0 THEN base ELSE p[i].pc + p[i].len

(* p lists n bytes t from `base` on unit by unit, each of 2 or 4 bytes.    *)
IsListing(p, t, n, base) ==
  /\ Reaches(p, Len(p), base) = base + n
  /\ \A i \in 1 .. Len(p) :
       p[i].pc = Reaches(p, i - 1, base) /\ p[i].len \in {2, 4}
  /\ \A i \in 1 .. Len(p) : p[i] = UnitAt(t, p[i].pc - base, base)

IsPart(s, p) ==
  IF s = ".text"
  THEN LET h == SectionOf(s, lost)
       IN  IsListing(p, BytesAt(h.offset, h.size), h.size, h.offset)
  ELSE p = Text(s)

-----------------------------------------------------------------------------
(* n bytes t are a chain of 2- and 4-byte units.                           *)
Chain(t, n) ==
  \E B \in SUBSET (0 .. n) :
    /\ {0, n} \subseteq B
    /\ \A b \in B \ {n} : inst_length(t[b]) \in {2, 4} /\ b + inst_length(t[b]) \in B

(* A part that is to be printed lies in the file, at an offset not zero.   *)
Printable(h, s) ==
  /\ h.offset # 0
  /\ h.offset .. h.offset + h.size - 1 \subseteq DOMAIN disk.bytes
  /\ IF s = ".text" THEN Chain(BytesAt(h.offset, h.size), h.size) ELSE h.size <= Longest

(* An ordinary file: its header says where the table is, and the table     *)
(* where the names and the parts are.                                      *)
Ordinary ==
  /\ disk.header.len = 64
  /\ \A k \in 0 .. 3 : disk.header.ident[k] = <<127, 69, 76, 70>>[k + 1]
  /\ disk.header.ident[4] = 2
  /\ <<Half(40), Half(42), Half(44), Half(46)>> = disk.tableAt
  /\ Half(58) = 64 /\ Half(60) = Len(disk.table) /\ Half(62) < Len(disk.table)
  /\ \A k \in DOMAIN disk.table : NameIn(k) \in DOMAIN NameAt
  /\ \A s \in {Parts[i] : i \in 1 .. Len(Parts)} :
       \A k \in Named(s, {}) : Printable(disk.table[k], s)

Init ==
  /\ lost = {}
  /\ report = << >>

(* Names are looked up before anything is printed.                         *)
LookUp ==
  /\ Ordinary /\ report = << >>
  /\ lost' \in SUBSET DOMAIN disk.table
  /\ UNCHANGED <<disk, report>>

PrintPart ==
  /\ Ordinary /\ Len(report) < Len(Parts)
  /\ Len(report') = Len(report) + 1
  /\ LET n == Len(report')
     IN  report' = Append(report, report'[n]) /\ IsPart(Parts[n], report'[n])
  /\ UNCHANGED <<disk, lost>>

(* Of other files nothing is promised.                                     *)
Anything ==
  /\ ~Ordinary
  /\ UNCHANGED disk

Next == LookUp \/ PrintPart \/ Anything

Spec == Init /\ [][Next]_vars
=============================================================================
