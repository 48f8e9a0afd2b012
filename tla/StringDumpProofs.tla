--------------------------- MODULE StringDumpProofs ---------------------------
(***************************************************************************)
(* StringDump for sections of any size and contents, however little of     *)
(* them the file has.                                                      *)
(***************************************************************************)
EXTENDS StringDump, TLAPS

USE DumpAssumption DEF DumpAssumption

(* Types: the index counts the characters printed and stays in the buffer. *)
LEMMA TypeInit == Init => TypeOK
BY DEF Init, TypeOK

LEMMA TypeNext == TypeOK /\ [Next]_vars => TypeOK'
<1> SUFFICES ASSUME TypeOK, [Next]_vars
             PROVE  TypeOK'
  OBVIOUS
<1>0. off \in Nat /\ size \in Nat
  BY DEF TypeOK
<1>1. CASE Open
  BY <1>1, <1>0 DEF Open, TypeOK, section
<1>2. CASE NoSection
  BY <1>2, <1>0 DEF NoSection, TypeOK, section
<1>3. CASE Load
  <2>1. got' \in 0 .. size
    BY <1>3, <1>0 DEF Load
  <2>2. strBuffer' \in [0 .. size - 1 -> Chars]
    <3>1. PICK stale \in Chars :
            strBuffer' = [i \in 0 .. size - 1 |-> IF i < got' THEN contents[i] ELSE stale]
      BY <1>3 DEF Load
    <3> QED
      BY <3>1 DEF TypeOK
  <2> QED
    BY <1>3, <2>1, <2>2 DEF Load, TypeOK, section
<1>4. CASE LoadCrash
  BY <1>4, <1>0 DEF LoadCrash, TypeOK, section
<1>5. CASE PrintChar
  <2>1. strBuffer[charIndex] \in Chars
    BY <1>5, <1>0 DEF PrintChar, TypeOK
  <2>2. Visible(strBuffer[charIndex]) \in Chars
    BY <2>1 DEF Visible
  <2>3. /\ printed' \in Seq(Chars)
        /\ Len(printed') = charIndex + 1
    BY <1>5, <2>2 DEF PrintChar, TypeOK
  <2>4. charIndex' \in 0 .. size
    BY <1>5, <1>0 DEF PrintChar, TypeOK
  <2>5. at' \in {"print", "close"}
    BY <1>5 DEF PrintChar
  <2> QED
    BY <1>5, <2>3, <2>4, <2>5 DEF PrintChar, TypeOK, section
<1>6. CASE EndLoop
  BY <1>6, <1>0 DEF EndLoop, TypeOK, section
<1>7. CASE Close
  BY <1>7, <1>0 DEF Close, TypeOK, section
<1>8. CASE UNCHANGED vars
  BY <1>8 DEF vars, TypeOK
<1> QED
  BY <1>1, <1>2, <1>3, <1>4, <1>5, <1>6, <1>7, <1>8 DEF Next

(* Every variable keeps its type, for any section.                         *)
THEOREM DumpTypeCorrect == Spec => []TypeOK
BY TypeInit, TypeNext, PTL DEF Spec

-----------------------------------------------------------------------------
(* What the loop relies on: until it ends, the buffer begins with the      *)
(* characters that fread delivered, and before it starts none is printed.  *)
BufferFromFile ==
  /\ at \in {"entry", "opened"} => printed = << >>
  /\ at = "print" => \A i \in 0 .. size - 1 : i < got => strBuffer[i] = contents[i]

Placed == BufferFromFile /\ PlacedAsInFile

LEMMA PlacedInit == TypeOK /\ Init => Placed
BY DEF Init, Placed, BufferFromFile, PlacedAsInFile, TypeOK

LEMMA PlacedNext == TypeOK /\ Placed /\ [Next]_vars => Placed'
<1> SUFFICES ASSUME TypeOK, TypeOK', BufferFromFile, PlacedAsInFile, [Next]_vars
             PROVE  (BufferFromFile /\ PlacedAsInFile)'
  BY TypeNext DEF Placed
<1>0. size \in Nat /\ got \in 0 .. size /\ charIndex \in 0 .. size
  BY DEF TypeOK
<1>1. CASE Open
  BY <1>1 DEF Open, section, BufferFromFile, PlacedAsInFile
<1>2. CASE NoSection
  BY <1>2 DEF NoSection, section, BufferFromFile, PlacedAsInFile
<1>3. CASE Load
  <2>1. BufferFromFile'
    BY <1>3, <1>0 DEF Load, section, BufferFromFile
  <2>2. printed' = << >>
    BY <1>3 DEF Load, BufferFromFile
  <2>3. PlacedAsInFile'
    BY <2>2, <1>0, <1>3 DEF Load, section, PlacedAsInFile
  <2> QED
    BY <2>1, <2>3
<1>4. CASE LoadCrash
  BY <1>4 DEF LoadCrash, section, BufferFromFile, PlacedAsInFile
<1>5. CASE PrintChar
  <2>1. BufferFromFile'
    BY <1>5 DEF PrintChar, section, BufferFromFile
  <2>2. /\ Len(printed') = charIndex + 1
        /\ printed' \in Seq(Chars)
        /\ \A i \in 1 .. charIndex : printed'[i] = printed[i]
        /\ printed'[charIndex + 1] = Visible(strBuffer[charIndex])
    BY <1>5, <1>0 DEF PrintChar, TypeOK
  <2>3. charIndex < got => strBuffer[charIndex] = contents[charIndex]
    BY <1>5, <1>0 DEF PrintChar, BufferFromFile
  <2>4. charIndex + 1 <= got => printed'[charIndex + 1] = Visible(contents[charIndex])
    BY <2>2, <2>3, <1>0
  <2>5. ASSUME NEW i \in 1 .. charIndex + 1, i <= got
        PROVE  printed'[i] = Visible(contents[i - 1])
    <3>1. CASE i = charIndex + 1
      BY <3>1, <2>4, <2>5, <1>0
    <3>2. CASE i # charIndex + 1
      <4>1. i \in 1 .. charIndex /\ i \in 1 .. Len(printed)
        BY <3>2, <1>0 DEF TypeOK
      <4> QED
        BY <4>1, <2>2, <2>5 DEF PlacedAsInFile
    <3> QED
      BY <3>1, <3>2
  <2>6. PlacedAsInFile'
    BY <2>2, <2>5, <1>5, <1>0 DEF PrintChar, section, PlacedAsInFile
  <2> QED
    BY <2>1, <2>6
<1>6. CASE EndLoop
  BY <1>6 DEF EndLoop, section, BufferFromFile, PlacedAsInFile
<1>7. CASE Close
  BY <1>7 DEF Close, section, BufferFromFile, PlacedAsInFile
<1>8. CASE UNCHANGED vars
  BY <1>8 DEF vars, BufferFromFile, PlacedAsInFile
<1> QED
  BY <1>1, <1>2, <1>3, <1>4, <1>5, <1>6, <1>7, <1>8 DEF Next

(* However short the file, each of its characters is printed at its place. *)
THEOREM DumpPlacedAsInFile == Spec => []PlacedAsInFile
<1>1. Placed => PlacedAsInFile
  BY DEF Placed
<1> QED
  BY <1>1, TypeInit, TypeNext, PlacedInit, PlacedNext, PTL DEF Spec

-----------------------------------------------------------------------------
(* The loop is left with the section printed, or with more characters than *)
(* an int can count.                                                       *)
EndReached ==
  /\ at \in {"print", "close"} => off # 0
  /\ at = "close" => Whole
  /\ at = "returned" => IF off = 0 THEN printed = << >> ELSE Whole

LEMMA EndInit == Init => EndReached
BY DEF Init, EndReached

LEMMA EndNext == TypeOK /\ Placed /\ EndReached /\ [Next]_vars => EndReached'
<1> SUFFICES ASSUME TypeOK, BufferFromFile, EndReached, [Next]_vars
             PROVE  EndReached'
  BY DEF Placed
<1>0. size \in Nat /\ charIndex \in 0 .. size /\ Len(printed) = charIndex
  BY DEF TypeOK
<1>1. CASE Open \/ Load \/ LoadCrash
  BY <1>1 DEF Open, Load, LoadCrash, section, EndReached
<1>2. CASE NoSection
  BY <1>2 DEF NoSection, section, EndReached, BufferFromFile
<1>3. CASE PrintChar
  <2>1. at = "print" /\ at' \in {"print", "close"} /\ off' = off /\ size' = size
    BY <1>3 DEF PrintChar, section
  <2>2. at' = "close" => charIndex >= IntMax
    BY <1>3 DEF PrintChar
  <2>3. Len(printed') = charIndex + 1 /\ charIndex < size
    <3>1. printed \in Seq(Chars)
      BY DEF TypeOK
    <3> QED
      BY <1>0, <1>3, <3>1 DEF PrintChar
  <2>4. at' = "close" => Whole'
    BY <1>0, <2>1, <2>2, <2>3 DEF Whole
  <2> QED
    BY <2>1, <2>4 DEF EndReached
<1>4. CASE EndLoop
  BY <1>0, <1>4 DEF EndLoop, section, EndReached, Whole
<1>5. CASE Close
  BY <1>5 DEF Close, section, EndReached, Whole
<1>6. CASE UNCHANGED vars
  BY <1>6 DEF vars, EndReached, Whole
<1> QED
  BY <1>1, <1>2, <1>3, <1>4, <1>5, <1>6 DEF Next

(***************************************************************************)
(* The safety half of EndsWhole: a dump that returns, and did not return   *)
(* for want of a section, has printed all of it if an int can count its    *)
(* characters, and never less than an int can count.                       *)
(***************************************************************************)
THEOREM DumpReturnsWhole == Spec => [](at = "returned" => off = 0 \/ Whole)
<1>1. EndReached => (at = "returned" => off = 0 \/ Whole)
  BY DEF EndReached
<1> QED
  BY <1>1, TypeInit, TypeNext, PlacedInit, PlacedNext, EndInit, EndNext, PTL DEF Spec
=============================================================================
