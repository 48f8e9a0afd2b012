------------------------------ MODULE TextSweep ------------------------------
(***************************************************************************)
(* disassemble_text_section: the file is opened, the .text section is read *)
(* into a heap buffer, and a loop walks the buffer, printing one line per  *)
(* instruction and advancing by the length that its low bits encode, until *)
(* the walking pointer equals the end pointer.                             *)
(*                                                                         *)
(* instBuffer is kept as its distance `pos` from the start of the buffer   *)
(* and instBufferEnd as shdrTextSize.  The loop tests the pointers for     *)
(* inequality, not order, so `pos` may pass the end; what lies behind the  *)
(* buffer is then read, and is an arbitrary choice of bytes in each step.  *)
(***************************************************************************)
EXTENDS RvWord, Sequences

CONSTANTS
  TextOffs,        \* values of shdrTextOff left by the section header pass
  Sizes,           \* values of shdrTextSize
  Units,           \* byte values that occur in the section and in the heap
  RiscvLens,       \* values of riscvLen left by the ELF header pass
  WellFormedOnly,  \* TRUE: the section is a chain of 2- and 4-byte units
  Truncated,       \* TRUE: the file may end before the section does
  Slack            \* readable bytes behind the buffer; a bound of the model

ASSUME SweepAssumption ==
  /\ TextOffs \subseteq Nat /\ Sizes \subseteq Nat /\ Units \subseteq Byte
  /\ WellFormedOnly \in BOOLEAN /\ Truncated \in BOOLEAN
  /\ Slack \in Nat

VARIABLES
  shdrTextOff,   \* global: section offset, then the address printed next
  shdrTextSize,  \* global
  riscvLen,      \* global
  text,          \* the section's bytes in the file
  fileHandle,    \* "none", "null", "open" or "closed"
  at,            \* where the function is
  got,           \* bytes that fread delivered
  instBuffer,    \* contents of the heap buffer
  pos,           \* the walking pointer, as an offset into instBuffer
  reach,         \* one past the highest buffer offset read so far
  lines,         \* lines handed to disassemble_inst, in order
  complained     \* the "instruction length is error!" line was printed

vars == <<shdrTextOff, shdrTextSize, riscvLen, text, fileHandle, at, got,
          instBuffer, pos, reach, lines, complained>>

globals == <<shdrTextSize, riscvLen, text>>
loaded  == <<got, instBuffer, fileHandle>>

(***************************************************************************)
(* B is the set of unit boundaries of the n bytes t: it starts at 0, ends  *)
(* at n, and from each boundary a unit of one of the given lengths leads   *)
(* to the next.  A well-formed section is a chain of 2- and 4-byte units.  *)
(***************************************************************************)
IsParse(B, t, n, lengths) ==
  /\ 0 \in B /\ n \in B
  /\ \A b \in B \ {n} : /\ inst_length(t[b]) \in lengths
                        /\ b + inst_length(t[b]) \in B

Parses(t, n, lengths) == \E B \in SUBSET (0 .. n) : IsParse(B, t, n, lengths)

WellFormed(t, n) == Parses(t, n, {2, 4})

-----------------------------------------------------------------------------
Init ==
  /\ shdrTextOff \in TextOffs
  /\ shdrTextSize \in Sizes
  /\ riscvLen \in RiscvLens
  /\ text \in [0 .. shdrTextSize - 1 -> Units]
  /\ WellFormedOnly => WellFormed(text, shdrTextSize)
  /\ fileHandle = "none"
  /\ at = "entry"
  /\ got = 0
  /\ instBuffer = << >>
  /\ pos = 0
  /\ reach = 0
  /\ lines = << >>
  /\ complained = FALSE

(* fopen; its result is not tested.                                        *)
Open ==
  /\ at = "entry"
  /\ at' = "opened"
  /\ fileHandle' \in {"open", "null"}
  /\ UNCHANGED <<shdrTextOff, got, instBuffer, pos, reach, lines, complained, globals>>

(* A zero offset means no .text was seen: return, leaving the file open.   *)
NoTextSection ==
  /\ at = "opened"
  /\ shdrTextOff = 0
  /\ at' = "returned"
  /\ UNCHANGED <<shdrTextOff, loaded, pos, reach, lines, complained, globals>>

(***************************************************************************)
(* malloc, fseek and fread.  None of their results is tested: a failed     *)
(* seek or a short file leaves the rest of the buffer as malloc gave it.   *)
(***************************************************************************)
LoadText ==
  /\ at = "opened"
  /\ shdrTextOff # 0
  /\ fileHandle = "open"
  /\ at' = "sweep"
  /\ got' \in IF Truncated THEN 0 .. shdrTextSize ELSE {shdrTextSize}
  /\ \E stale \in [got' .. shdrTextSize - 1 -> Units] :
       instBuffer' = [o \in 0 .. shdrTextSize - 1 |->
                        IF o < got' THEN text[o] ELSE stale[o]]
  /\ UNCHANGED <<shdrTextOff, fileHandle, pos, reach, lines, complained, globals>>

(* fseek on a NULL stream, or fread into the NULL of a failed malloc.      *)
LoadCrash ==
  /\ at = "opened"
  /\ shdrTextOff # 0
  /\ fileHandle = "null" \/ shdrTextSize > 0
  /\ at' = "crashed"
  /\ UNCHANGED <<shdrTextOff, loaded, pos, reach, lines, complained, globals>>

-----------------------------------------------------------------------------
(* Of n bytes from offset o on, those that lie behind the buffer.          *)
Behind(o, n) == {k \in 0 .. n - 1 : o + k >= shdrTextSize}

(* The n bytes at offset o, `heap` supplying the ones behind the buffer.   *)
Fetch(o, n, heap) ==
  [k \in 0 .. n - 1 |-> IF o + k < shdrTextSize THEN instBuffer[o + k] ELSE heap[k]]

Line(inst, len) == [pc |-> shdrTextOff, inst |-> inst, len |-> len,
                    isa |-> IF riscvLen = 64 THEN "rv64" ELSE "rv32"]

(* Slip: the loop also runs on the end pointer.                            *)
Iterating_Inclusive == at = "sweep" /\ pos <= shdrTextSize + Slack

Iterating == at = "sweep" /\ pos # shdrTextSize /\ pos <= shdrTextSize + Slack

MaxOf(a, b) == IF a < b THEN b ELSE a

(* Slip: both branches advance by uncompressionInstLen.                    *)
Emit_FixedStep(inst, len) ==
  /\ lines' = Append(lines, Line(inst, len))
  /\ pos' = pos + 4
  /\ shdrTextOff' = shdrTextOff + 4
  /\ UNCHANGED <<globals, at, loaded, complained>>

(* Slip: the address is advanced by uncompressionInstLen in both branches. *)
Emit_FixedAddress(inst, len) ==
  /\ lines' = Append(lines, Line(inst, len))
  /\ pos' = pos + len
  /\ shdrTextOff' = shdrTextOff + 4
  /\ UNCHANGED <<globals, at, loaded, complained>>

(* Slip: the address is advanced before the line is printed.               *)
Emit_AdvancesFirst(inst, len) ==
  /\ shdrTextOff' = shdrTextOff + len
  /\ lines' = Append(lines, [Line(inst, len) EXCEPT !.pc = shdrTextOff'])
  /\ pos' = pos + len
  /\ UNCHANGED <<globals, at, loaded, complained>>

Emit(inst, len) ==
  /\ lines' = Append(lines, Line(inst, len))
  /\ pos' = pos + len
  /\ shdrTextOff' = shdrTextOff + len
  /\ UNCHANGED <<globals, at, loaded, complained>>

(* Every iteration fetches four bytes and looks at the length they encode. *)
Uncompressed ==
  /\ Iterating
  /\ \E heap \in [Behind(pos, 4) -> Units] :
       LET inst == get4(Fetch(pos, 4, heap))
       IN  inst_length(inst) = 4 /\ Emit(inst, 4)
  /\ reach' = MaxOf(reach, pos + 4)

(* Slip: the four bytes fetched to find the length are disassembled.       *)
Compressed_NoRefetch ==
  /\ Iterating
  /\ \E heap \in [Behind(pos, 4) -> Units] :
       LET inst == get4(Fetch(pos, 4, heap))
       IN  inst_length(inst) = 2 /\ Emit(inst, 2)
  /\ reach' = MaxOf(reach, pos + 4)

(* A compressed unit is fetched again, now as two bytes.                   *)
Compressed ==
  /\ Iterating
  /\ \E heap \in [Behind(pos, 4) -> Units] :
       /\ inst_length(get4(Fetch(pos, 4, heap))) = 2
       /\ Emit(get2(Fetch(pos, 2, heap)), 2)
  /\ reach' = MaxOf(reach, pos + 4)

(* Slip: after the complaint the smallest unit is skipped.                 *)
Unsupported_Skips ==
  /\ Iterating
  /\ \E heap \in [Behind(pos, 4) -> Units] :
       inst_length(get4(Fetch(pos, 4, heap))) \notin {2, 4}
  /\ complained' = TRUE
  /\ pos' = pos + 2
  /\ shdrTextOff' = shdrTextOff + 2
  /\ reach' = MaxOf(reach, pos + 4)
  /\ UNCHANGED <<globals, at, loaded, lines>>

(* Slip: a unit of any length is listed.                                   *)
Unsupported_Listed ==
  /\ Iterating
  /\ \E heap \in [Behind(pos, 4) -> Units] :
       LET inst == get4(Fetch(pos, 4, heap))
       IN  inst_length(inst) \notin {2, 4} /\ Emit(inst, inst_length(inst))
  /\ reach' = MaxOf(reach, pos + 4)

(* Any other length prints a complaint and advances nothing.               *)
Unsupported ==
  /\ Iterating
  /\ \E heap \in [Behind(pos, 4) -> Units] :
       inst_length(get4(Fetch(pos, 4, heap))) \notin {2, 4}
  /\ complained' = TRUE
  /\ reach' = MaxOf(reach, pos + 4)
  /\ UNCHANGED <<shdrTextOff, at, loaded, pos, lines, globals>>

(* Far enough behind the buffer no page is mapped.                         *)
Segfault ==
  /\ at = "sweep"
  /\ pos > shdrTextSize + Slack
  /\ at' = "crashed"
  /\ UNCHANGED <<shdrTextOff, loaded, pos, reach, lines, complained, globals>>

(* The pointers are equal: close_file, and return.                         *)
Finish ==
  /\ at = "sweep"
  /\ pos = shdrTextSize
  /\ fileHandle' = "closed"
  /\ at' = "returned"
  /\ UNCHANGED <<shdrTextOff, got, instBuffer, pos, reach, lines, complained, globals>>

Next ==
  \/ Open \/ NoTextSection \/ LoadText \/ LoadCrash
  \/ Uncompressed \/ Compressed \/ Unsupported \/ Segfault \/ Finish

(* A single thread that nothing blocks keeps executing.                    *)
Spec == Init /\ [][Next]_vars /\ WF_vars(Next)
-----------------------------------------------------------------------------
(***************************************************************************)
(* Type invariant: every variable holds a value the program can hold.      *)
(***************************************************************************)
LineSet == [pc : Nat, inst : Int, len : {2, 4}, isa : {"rv32", "rv64"}]

TypeOK ==
  /\ shdrTextOff \in Nat
  /\ shdrTextSize \in Sizes
  /\ riscvLen \in RiscvLens
  /\ text \in [0 .. shdrTextSize - 1 -> Units]
  /\ fileHandle \in {"none", "null", "open", "closed"}
  /\ at \in {"entry", "opened", "sweep", "returned", "crashed"}
  /\ got \in 0 .. shdrTextSize
  /\ instBuffer \in {<< >>} \cup [0 .. shdrTextSize - 1 -> Units]
  /\ pos \in Nat
  /\ reach \in Nat
  /\ lines \in Seq(LineSet)
  /\ complained \in BOOLEAN

(* The file offset at which the section starts.                            *)
Base == IF lines = << >> THEN shdrTextOff ELSE lines[1].pc

(***************************************************************************)
(* The printed addresses and the walking pointer are advanced by separate  *)
(* assignments on each path of the loop and never drift apart: each line   *)
(* starts where the line before it ended, and the next one starts at the   *)
(* pointer.                                                                *)
(***************************************************************************)
Consecutive ==
  /\ shdrTextOff = Base + pos
  /\ \A i \in 1 .. Len(lines) :
       lines[i].pc + lines[i].len =
         IF i = Len(lines) THEN shdrTextOff ELSE lines[i + 1].pc

(***************************************************************************)
(* The buffer was read and is a chain of 2- and 4-byte units.              *)
(***************************************************************************)
Loaded == at = "sweep" \/ fileHandle = "closed" \/ lines # << >>

WellFormedBuffer == Loaded /\ WellFormed(instBuffer, shdrTextSize)

(***************************************************************************)
(* The loop ends on `!=`, so it must land exactly on the end pointer.  On  *)
(* a well-formed section it does: the pointer never passes the end, no     *)
(* unit is refused, and nothing crashes once the section is read.          *)
(***************************************************************************)
NeverStrays ==
  WellFormedBuffer => /\ pos <= shdrTextSize
                      /\ ~complained
                      /\ at # "crashed"

(***************************************************************************)
(* The only way for the loop to end normally is that the section is        *)
(* well-formed: no other contents make it stop on the end pointer.         *)
(***************************************************************************)
ReturnsOnlyIfParsed ==
  fileHandle = "closed" => WellFormed(instBuffer, shdrTextSize)

(***************************************************************************)
(* Whatever lies behind the buffer, and however short the file is, a line  *)
(* whose bytes were all delivered by fread shows those bytes of the file.  *)
(* In particular the four-byte fetch of a two-byte unit at the end of the  *)
(* buffer does not let foreign bytes into the line.                        *)
(***************************************************************************)
WordOf(o, len) ==
  LET b == [k \in 0 .. len - 1 |-> text[o + k]]
  IN  IF len = 2 THEN get2(b) ELSE get4(b)

WordsFromFile ==
  \A i \in 1 .. Len(lines) :
    LET o == lines[i].pc - Base
    IN  o + lines[i].len <= got => lines[i].inst = WordOf(o, lines[i].len)

(***************************************************************************)
(* On a well-formed section the four-byte fetch reads at most two bytes    *)
(* behind the buffer, however long the section is.                         *)
(***************************************************************************)
OverreadAtMostTwo == WellFormedBuffer => reach <= shdrTextSize + 2

(***************************************************************************)
(* A well-formed section, once read, is listed to its end and the function *)
(* returns.                                                                *)
(***************************************************************************)
Completes == WellFormedBuffer ~> at = "returned"

(***************************************************************************)
(* disassembleTextSection.c:1042: "supports maximum instruction size of    *)
(* 64-bits".  A section of 2- to 8-byte units should be listed to its end; *)
(* the loop never gets past a 6- or 8-byte unit.                           *)
(***************************************************************************)
LongUnitsSupported ==
  (at = "sweep" /\ Parses(instBuffer, shdrTextSize, {2, 4, 6, 8}))
    ~> at = "returned"

(***************************************************************************)
(* On well-formed sections the sweep implements the abstract listing.      *)
(***************************************************************************)
Stage ==
  CASE at \in {"entry", "opened"} -> "idle"
    [] at = "sweep"               -> "listing"
    [] at = "returned"            -> "done"
    [] at = "crashed"             -> "failed"

Listing == [i \in 1 .. Len(lines) |->
              [pc |-> lines[i].pc, len |-> lines[i].len, inst |-> lines[i].inst]]

Abstract == INSTANCE LinearSweep WITH
  section <- text, size <- shdrTextSize, base <- Base,
  listing <- Listing, stage <- Stage

ImplementsListing == Abstract!Spec
=============================================================================
