---------------------------- MODULE MCCompressed ----------------------------
(***************************************************************************)
(* All legal 16-bit instruction words, one set for each entry of the tables *)
(* of RvAsm, which they are assembled with.                                *)
(***************************************************************************)
EXTENDS DisassembleInst

(* What an operand adds to the word, for each value it may have.           *)
Additions(o) == {ToWord(Place(v, o.layout)) : v \in {x \in o.lo .. o.hi - 1 : Allows(o, x)}}

(* Of two operands in the same place, one register printed twice, only one *)
(* adds to the word.                                                       *)
AdditionsOf(e, k) ==
  IF \/ k > Len(e.args)
     \/ k = 2 /\ e.args[1].layout = e.args[2].layout
  THEN {0} ELSE Additions(e.args[k])

WordsOf(e) ==
  LET fixed == ToWord(e.fixed)
  IN  {fixed + a + b + c : a \in AdditionsOf(e, 1), b \in AdditionsOf(e, 2), c \in AdditionsOf(e, 3)}

(* The instructions of the 64-bit files are words of the 32-bit files too, *)
(* as other instructions; these have c.jal and c.flwsp with rd zero        *)
(* besides.                                                                *)
InBoth == {WordsOf(e) : e \in {x \in Compressed : "rv64" \in x.isas}}

OnlyRv32 ==
  {{w \in WordsOf(e) : (w \div 128) % 32 = 0} : e \in {x \in Compressed : x.name[2] \in {"jal", "flwsp"}}}
=============================================================================
