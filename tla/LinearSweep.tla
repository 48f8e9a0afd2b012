----------------------------- MODULE LinearSweep -----------------------------
(***************************************************************************)
(* What a listing of a .text section promises, without saying how it is    *)
(* produced: the section is cut, from its first byte to its last, into     *)
(* consecutive 2- and 4-byte units, each unit is listed once, in order,    *)
(* with its own bytes as its word, and the listing ends at the section's   *)
(* last byte.  A program without .text, or whose file cannot be read,      *)
(* lists nothing.                                                          *)
(***************************************************************************)
EXTENDS RvWord, Sequences

VARIABLES
  section,   \* the bytes of the section, at offsets 0 .. size - 1
  size,      \* how many there are
  base,      \* where the section starts in the file
  listing,   \* the units listed so far
  stage      \* "idle", "listing", "done" or "failed"

vars == <<section, size, base, listing, stage>>

(* Where the next unit begins: the listed units are consecutive.           *)
Covered ==
  IF listing = << >> THEN 0
  ELSE LET last == listing[Len(listing)] IN last.pc - base + last.len

UnitAt(off) ==
  LET len == inst_length(section[off])
      b   == [k \in 0 .. len - 1 |-> section[off + k]]
  IN  [pc |-> base + off, len |-> len, inst |-> IF len = 2 THEN get2(b) ELSE get4(b)]

Init ==
  /\ size \in Nat
  /\ section \in [0 .. size - 1 -> Byte]
  /\ base \in Nat
  /\ listing = << >>
  /\ stage = "idle"

Begin ==
  /\ stage = "idle"
  /\ stage' = "listing"
  /\ UNCHANGED <<section, size, base, listing>>

GiveUp ==
  /\ stage = "idle"
  /\ stage' \in {"done", "failed"}
  /\ UNCHANGED <<section, size, base, listing>>

ListUnit ==
  /\ stage = "listing"
  /\ Covered < size
  /\ inst_length(section[Covered]) \in {2, 4}
  /\ Covered + inst_length(section[Covered]) <= size
  /\ listing' = Append(listing, UnitAt(Covered))
  /\ UNCHANGED <<section, size, base, stage>>

End ==
  /\ stage = "listing"
  /\ Covered = size
  /\ stage' = "done"
  /\ UNCHANGED <<section, size, base, listing>>

Next == Begin \/ GiveUp \/ ListUnit \/ End

Spec == Init /\ [][Next]_vars /\ WF_vars(Next)
=============================================================================
