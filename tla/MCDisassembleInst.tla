------------------------- MODULE MCDisassembleInst -------------------------
(***************************************************************************)
(* Words for DisassembleInst: samples of the 32-bit ones, and the 16-bit   *)
(* ones of MCCompressed.  They are assembled with the tables of RvAsm, so  *)
(* that each is a legal instruction.                                       *)
(***************************************************************************)
EXTENDS MCCompressed

Powers == {2^k : k \in 0 .. 20}

(* Values of an operand: its bounds, and one bit at a time.                *)
Sample(o) ==
  LET Candidates == {o.lo, o.lo + o.step, 0, 2, o.hi - o.step} \cup Powers \cup {-p : p \in Powers}
  IN  {v \in Candidates : Allows(o, v)}

(* Operand values of an entry: one operand takes every sample while the    *)
(* others are at their lowest or at their highest.                         *)
Vary(e, Base(_)) ==
  LET base == [k \in DOMAIN e.args |-> Base(Sample(e.args[k]))]
  IN  {base} \cup UNION {{[base EXCEPT ![k] = v] : v \in Sample(e.args[k])} : k \in DOMAIN e.args}

Markings(e) == IF e.marked THEN SUBSET {"aq", "rl"} ELSE {{}}

Words(e) == {Encode(e, m, v) : m \in Markings(e), v \in Vary(e, Min) \cup Vary(e, Max)}

FileIsas == {"rv32", "rv64"}

InFilesAt(words, isas, pcs) == {[inst |-> w, isa |-> i, pc |-> pc] : w \in words, i \in isas, pc \in pcs}

(* The words in files of these ISAs, 2 KiB into them: a branch may lead to *)
(* before the file's start.                                                *)
InFiles(words, isas) == InFilesAt(words, isas, {<<2048, 0, 0, 0>>})

(* Jumps and branches besides at offsets that a damaged header may have:   *)
(* just below 2^32, where a carry goes up, below 2^44, where a target gets *)
(* its twelfth digit, and at the end of the address space, where it wraps. *)
FarOffsets ==
  {<<65534, 65535, 0, 0>>, <<65534, 65535, 4095, 0>>, <<65534, 65535, 65535, 65535>>}

Relative == Jumps \cup Branches \cup Uppers \cup PseudoTransfers

AllInputs ==
  {InFiles(Words(e), FileIsas) : e \in Wide}
    \cup {InFilesAt(Words(e), FileIsas, FarOffsets) : e \in Relative}
    \cup {InFiles(words, FileIsas) : words \in InBoth}
    \cup {InFiles(words, {"rv32"}) : words \in OnlyRv32}

(* The theorem about the lines takes every word of Inputs to be legal.     *)
(* Such words there are: one of each entry, its operands at their lowest.  *)
LowestWord(e) == Encode(e, {}, [k \in DOMAIN e.args |-> Min(Sample(e.args[k]))])

IsLegal(w, isas) == \A i \in isas : Legal(i, BitsOf(w))

ASSUME LegalSamples ==
  /\ \A e \in Wide : IsLegal(LowestWord(e), FileIsas)
  /\ \A e \in Compressed : IsLegal(Min(WordsOf(e)), FileIsas \cap e.isas)

(* jalr zero, imm(ra), with and without an offset, and the float sign      *)
(* transfers.                                                              *)
LiftInputs ==
  LET jalr == CHOOSE e \in Jumps : e.name = <<"jalr">>
  IN  {InFiles({Encode(jalr, {}, <<0, 1, imm>>) : imm \in Sample(ImmI)}, FileIsas)}
        \cup {InFiles(Words(e), FileIsas) : e \in {x \in FloatSigns : x.name[1] = "fsgnj"} \cup PseudoFloat}
=============================================================================
