----------------------------- MODULE MCElfHeader -----------------------------
(***************************************************************************)
(* ELF headers: a 64-bit and a 32-bit RISC-V one, each with one thing      *)
(* changed at a time, and the 64-bit one cut short.  The values of the     *)
(* fields differ from one another.                                         *)
(***************************************************************************)
EXTENDS ElfHeader

Identification(class) ==
  [k \in 0 .. 15 |-> CASE k < 4 -> ELFMAG[k + 1] [] k = 4 -> class [] k \in {5, 6} -> 1 [] OTHER -> 0]

(* Halves from a list of <<offset, value>> pairs, zero elsewhere.          *)
Halves(pairs) ==
  [o \in HalfAt |-> IF \E p \in pairs : p[1] = o THEN (CHOOSE p \in pairs : p[1] = o)[2] ELSE 0]

Elf64 ==
  [ident |-> Identification(2), len |-> 64,
   half  |-> Halves({<<16, 2>>, <<18, 243>>, <<20, 1>>, <<24, 4096>>, <<26, 1>>, <<32, 64>>,
                     <<40, 9000>>, <<42, 3>>, <<48, 5>>, <<52, 64>>, <<54, 56>>, <<56, 2>>,
                     <<58, 40>>, <<60, 9>>, <<62, 8>>})]

Elf32 ==
  [ident |-> Identification(1), len |-> 64,
   half  |-> Halves({<<16, 2>>, <<18, 243>>, <<20, 1>>, <<24, 4096>>, <<26, 1>>, <<28, 52>>,
                     <<32, 9000>>, <<34, 3>>, <<36, 5>>, <<40, 52>>, <<42, 32>>, <<44, 2>>,
                     <<46, 40>>, <<48, 9>>, <<50, 8>>})]

OtherIdents(f) == {[f EXCEPT !.ident[k] = b] : k \in 0 .. 9, b \in {0, 1, 2, 3, 4, 127}}

OtherHalves(f) == {[f EXCEPT !.half[o] = h] : o \in HalfAt, h \in {0, 1, 8, 65535}}

(* Two bytes of the identification changed, so that a NUL may stand before *)
(* a byte of interest.                                                     *)
TwoIdents(f) == UNION {OtherIdents(g) : g \in OtherIdents(f)}

CutShort(f) == {[f EXCEPT !.len = n] : n \in 0 .. 64}

OnlyElf64 == {Elf64}
OnlyElf32 == {Elf32}

AllFiles == TwoIdents(Elf64) \cup OtherHalves(Elf64) \cup OtherIdents(Elf32) \cup CutShort(Elf64)
=============================================================================
