------------------------------ MODULE StringDump ------------------------------
(***************************************************************************)
(* dump_debug_str_section, dump_comment_section,                           *)
(* dump_riscv_attributes_section and dump_GCC_command_line_section: one    *)
(* function under four names, each with its own pair of globals.  The      *)
(* section is read into a heap buffer and printed character by character,  *)
(* a blank for each NUL.                                                   *)
(***************************************************************************)
EXTENDS Naturals, Sequences

CONSTANTS
  Offs,      \* values of shdr...Off
  Sizes,     \* values of shdr...Size
  Chars,     \* characters in the file and in the heap
  NUL,       \* one of them
  Blank,     \* another
  IntMax,    \* INT_MAX, where charIndex overflows
  Truncated  \* TRUE: the file may end before the section does

ASSUME DumpAssumption ==
  /\ Offs \subseteq Nat /\ Sizes \subseteq Nat /\ IntMax \in Nat
  /\ NUL \in Chars /\ Blank \in Chars /\ NUL # Blank
  /\ Truncated \in BOOLEAN

VARIABLES
  off, size,    \* the globals
  contents,     \* the section in the file
  fileHandle,
  at,
  got,          \* characters that fread delivered
  strBuffer,
  charIndex,    \* an int, compared with a uint64_t
  printed

vars == <<off, size, contents, fileHandle, at, got, strBuffer, charIndex, printed>>

section == <<off, size, contents>>

Init ==
  /\ off \in Offs
  /\ size \in Sizes
  /\ contents \in [0 .. size - 1 -> Chars]
  /\ fileHandle = "none"
  /\ at = "entry"
  /\ got = 0
  /\ strBuffer = << >>
  /\ charIndex = 0
  /\ printed = << >>

(* fopen, whose result is not tested, and the heading.                     *)
Open ==
  /\ at = "entry"
  /\ at' = "opened"
  /\ fileHandle' \in {"open", "null"}
  /\ UNCHANGED <<section, got, strBuffer, charIndex, printed>>

(* The return leaves the file open.                                        *)
NoSection ==
  /\ at = "opened" /\ off = 0
  /\ at' = "returned"
  /\ UNCHANGED <<section, fileHandle, got, strBuffer, charIndex, printed>>

(* malloc, fseek and fread; a short file leaves what malloc gave.          *)
Load ==
  /\ at = "opened" /\ off # 0 /\ fileHandle = "open"
  /\ at' = "print"
  /\ got' \in IF Truncated THEN 0 .. size ELSE {size}
  /\ \E stale \in Chars :
       strBuffer' = [i \in 0 .. size - 1 |-> IF i < got' THEN contents[i] ELSE stale]
  /\ UNCHANGED <<section, fileHandle, charIndex, printed>>

(* A NULL stream, or the NULL of a failed malloc.                          *)
LoadCrash ==
  /\ at = "opened" /\ off # 0
  /\ fileHandle = "null" \/ size > 0
  /\ at' = "crashed"
  /\ UNCHANGED <<section, fileHandle, got, strBuffer, charIndex, printed>>

Visible(c) == IF c = NUL THEN Blank ELSE c

(* Slip: the characters are printed as they are up to the first NUL.       *)
PrintChar_Skips ==
  /\ at = "print" /\ charIndex < size
  /\ printed' = IF strBuffer[charIndex] = NUL THEN printed ELSE Append(printed, strBuffer[charIndex])
  /\ charIndex' = charIndex + 1
  /\ UNCHANGED <<section, fileHandle, at, got, strBuffer>>

(***************************************************************************)
(* One turn of the loop.  Past INT_MAX the increment is undefined: the     *)
(* index may go on, in a wider register, or wrap to a negative value,      *)
(* which as a uint64_t is larger than any size and ends the loop.          *)
(***************************************************************************)
PrintChar ==
  /\ at = "print" /\ charIndex < size
  /\ printed' = Append(printed, Visible(strBuffer[charIndex]))
  /\ charIndex' = charIndex + 1
  /\ at' \in {"print"} \cup IF charIndex >= IntMax THEN {"close"} ELSE {}
  /\ UNCHANGED <<section, fileHandle, got, strBuffer>>

(* Slip: the loop stops one character short.                               *)
EndLoop_Short ==
  /\ at = "print" /\ charIndex + 1 >= size
  /\ at' = "close"
  /\ UNCHANGED <<section, fileHandle, got, strBuffer, charIndex, printed>>

(* Slip: the loop looks for the NUL that ends a string.                    *)
EndLoop_AtNUL ==
  /\ at = "print" /\ charIndex >= size
  /\ size > 0 => strBuffer[size - 1] = NUL
  /\ at' = "close"
  /\ UNCHANGED <<section, fileHandle, got, strBuffer, charIndex, printed>>

EndLoop ==
  /\ at = "print" /\ charIndex >= size
  /\ at' = "close"
  /\ UNCHANGED <<section, fileHandle, got, strBuffer, charIndex, printed>>

(* Slip: the file is not closed.                                           *)
Close_Forgotten ==
  /\ at = "close"
  /\ at' = "returned"
  /\ UNCHANGED <<section, fileHandle, got, strBuffer, charIndex, printed>>

Close ==
  /\ at = "close"
  /\ at' = "returned"
  /\ fileHandle' = "closed"
  /\ UNCHANGED <<section, got, strBuffer, charIndex, printed>>

Next ==
  \/ Open \/ NoSection \/ Load \/ LoadCrash
  \/ PrintChar \/ EndLoop \/ Close

(* A single thread that waits for nobody.                                  *)
Spec == Init /\ [][Next]_vars /\ WF_vars(Next)
-----------------------------------------------------------------------------
(* Each value has its type; the index counts the characters printed.       *)
TypeOK ==
  /\ off \in Offs /\ size \in Sizes
  /\ contents \in [0 .. size - 1 -> Chars]
  /\ fileHandle \in {"none", "open", "null", "closed"}
  /\ at \in {"entry", "opened", "print", "close", "returned", "crashed"}
  /\ got \in 0 .. size
  /\ at \in {"print", "close"} => strBuffer \in [0 .. size - 1 -> Chars]
  /\ charIndex \in 0 .. size
  /\ printed \in Seq(Chars)
  /\ Len(printed) = charIndex

(***************************************************************************)
(* Each character stands where it stands in the file, however short the    *)
(* file: none is dropped or moved by the translation of NULs, and what is  *)
(* not the file's stands behind all that is.                               *)
(***************************************************************************)
PlacedAsInFile ==
  /\ Len(printed) <= size
  /\ \A i \in 1 .. Len(printed) : i <= got => printed[i] = Visible(contents[i - 1])

(***************************************************************************)
(* A dump that was opened and read ends, and has then printed the whole    *)
(* section if an int can count its characters.                             *)
(***************************************************************************)
Whole == Len(printed) = size \/ (size > IntMax + 1 /\ Len(printed) > IntMax)

EndsWhole == at = "print" ~> (at = "returned" /\ Whole)
=============================================================================
