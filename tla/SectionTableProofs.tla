-------------------------- MODULE SectionTableProofs --------------------------
(***************************************************************************)
(* Proofs about SectionTable, for section tables of any length, files that *)
(* end anywhere, and whatever the stack and the heap hold.                 *)
(***************************************************************************)
EXTENDS SectionTable, TLAPS

USE TableAssumption DEF TableAssumption

-----------------------------------------------------------------------------
(* Whatever part of a header is delivered, the result is a header.         *)
LEMMA DeliveredIsHeader ==
  ASSUME NEW i, table[i] \in Headers, NEW stale \in Headers, NEW bytes
  PROVE  Delivered(i, bytes, stale) \in HeaderSet
<1>1. table[i] \in HeaderSet /\ stale \in HeaderSet
  OBVIOUS
<1> QED
  BY <1>1 DEF Delivered, HeaderSet

(* A header read to its end is the file's.                                 *)
LEMMA DeliveredWhole ==
  ASSUME NEW i, table[i] \in Headers, NEW stale
  PROVE  /\ Delivered(i, 64, stale).name = table[i].name
         /\ Delivered(i, 64, stale).offset = table[i].offset
         /\ Delivered(i, 64, stale).size = table[i].size
BY DEF Delivered, FieldEnd

(* The functions of a step keep their types.                               *)
LEMMA NamesAreNames == \A o : NamesAt(o) \subseteq Names
BY DEF NamesAt

-----------------------------------------------------------------------------
(* Type correctness: an invariant of every step.                           *)
LEMMA TypeInit == Init => TypeOK
<1> SUFFICES ASSUME Init
             PROVE  TypeOK
  OBVIOUS
<1>1. shdrNumber \in Nat /\ shdrSize \in Nat
  BY DEF Init
<1>2. shdrNumber * shdrSize \in Nat
  BY <1>1
<1>3. present \in 0 .. shdrNumber * shdrSize
  <2>1. Ends \subseteq 0 .. shdrNumber * shdrSize
    BY DEF Ends
  <2> QED
    BY <1>2, <2>1 DEF Init
<1>4. /\ Len(rows) = 0
      /\ secOff \in [Sought -> Nat] /\ secSize \in [Sought -> Nat]
  BY DEF Init
<1> QED
  BY <1>1, <1>3, <1>4 DEF Init, TypeOK

LEMMA TypeNext == TypeOK /\ [Next]_vars => TypeOK'
<1> SUFFICES ASSUME TypeOK, [Next]_vars
             PROVE  TypeOK'
  OBVIOUS
<1>0. shdrNumber \in Nat /\ shdrIndex \in 0 .. shdrNumber
  BY DEF TypeOK
<1>1. CASE Enter
  <2>1. shdr' \in [0 .. shdrNumber - 1 -> HeaderSet]
    BY <1>1 DEF Enter
  <2>2. i_shdr' \in [0 .. shdrNumber - 1 -> Shown]
    BY <1>1 DEF Enter, Shown
  <2> QED
    BY <1>1, <2>1, <2>2 DEF Enter, TypeOK, inputs
<1>2. CASE EnterCrash
  BY <1>2 DEF EnterCrash, TypeOK, inputs
<1>3. CASE ReadHeader
  <2>0. shdrIndex \in 0 .. shdrNumber - 1 /\ table[shdrIndex] \in Headers
    BY <1>0, <1>3 DEF ReadHeader, TypeOK
  <2>1. PICK stale \in Headers :
          LET h == Delivered(shdrIndex, BytesOf(shdrIndex), stale)
          IN  /\ shdr' = [shdr EXCEPT ![shdrIndex] = [h EXCEPT !.flags = {}]]
              /\ \E type \in sh_type(h.type) : i_shdr' = [i_shdr EXCEPT ![shdrIndex].type = type]
    BY <1>3 DEF ReadHeader
  <2> DEFINE h == Delivered(shdrIndex, BytesOf(shdrIndex), stale)
  <2>2. h \in HeaderSet
    BY <2>0, DeliveredIsHeader
  <2>3. [h EXCEPT !.flags = {}] \in HeaderSet
    BY <2>2 DEF HeaderSet
  <2>4. shdr \in [0 .. shdrNumber - 1 -> HeaderSet] /\ i_shdr \in [0 .. shdrNumber - 1 -> Shown]
    BY <1>3 DEF ReadHeader, TypeOK
  <2>5. shdr' \in [0 .. shdrNumber - 1 -> HeaderSet]
    BY <2>1, <2>3, <2>4
  <2>6. i_shdr' \in [0 .. shdrNumber - 1 -> Shown]
    <3>1. PICK type \in sh_type(h.type) : i_shdr' = [i_shdr EXCEPT ![shdrIndex].type = type]
      BY <2>1
    <3>2. type \in {"listed", "unknown", "stray"}
      BY DEF sh_type
    <3> QED
      BY <3>1, <3>2, <2>4 DEF Shown
  <2> QED
    BY <1>0, <1>3, <2>0, <2>5, <2>6 DEF ReadHeader, TypeOK, inputs
<1>4. CASE EndHeaders
  BY <1>0, <1>4 DEF EndHeaders, TypeOK, inputs
<1>5. CASE ResolveName
  <2>0. shdrIndex \in 0 .. shdrNumber - 1 /\ shdrIndex' \in 0 .. shdrNumber
    BY <1>0, <1>5 DEF ResolveName
  <2>1. shdr \in [0 .. shdrNumber - 1 -> HeaderSet] /\ i_shdr \in [0 .. shdrNumber - 1 -> Shown]
    BY <1>5 DEF ResolveName, TypeOK
  <2>2. PICK name \in Names : Record(name)
    BY <1>5, NamesAreNames DEF ResolveName
  <2>3. i_shdr' \in [0 .. shdrNumber - 1 -> Shown]
    BY <2>1, <2>2 DEF Record, Shown
  <2>4. shdr[shdrIndex].offset \in Nat /\ shdr[shdrIndex].size \in Nat
    BY <2>0, <2>1 DEF HeaderSet
  <2>5. secOff' \in [Sought -> Nat] /\ secSize' \in [Sought -> Nat]
    BY <2>2, <2>4 DEF Record, TypeOK
  <2> QED
    BY <1>5, <2>0, <2>1, <2>3, <2>5 DEF ResolveName, TypeOK, inputs
<1>6. CASE NameLost
  BY <1>0, <1>6 DEF NameLost, TypeOK, inputs
<1>7. CASE NameOverrun
  BY <1>7 DEF NameOverrun, TypeOK, inputs
<1>8. CASE EndNames
  BY <1>8 DEF EndNames, TypeOK, inputs
<1>9. CASE PrintTable
  <2>1. Len(rows') = shdrNumber
    BY <1>0, <1>9 DEF PrintTable
  <2> QED
    BY <1>9, <2>1 DEF PrintTable, TypeOK, inputs
<1>10. CASE PrintCrash
  BY <1>10 DEF PrintCrash, TypeOK, inputs
<1>11. CASE UNCHANGED vars
  BY <1>11 DEF vars, TypeOK, inputs, Shown
<1> QED
  BY <1>1, <1>2, <1>3, <1>4, <1>5, <1>6, <1>7, <1>8, <1>9, <1>10, <1>11 DEF Next

(***************************************************************************)
(* Every variable keeps its type, and the loops stay inside their tables.  *)
(***************************************************************************)
THEOREM TableTypeCorrect == Spec => []TypeOK
<1> QED
  BY TypeInit, TypeNext, PTL DEF Spec

-----------------------------------------------------------------------------
(***************************************************************************)
(* LastNamesake.  It needs to know that the globals are still zero, and    *)
(* the headers still without names, when the name loop starts, and that a  *)
(* header gets its name in its own turn of the loop.                       *)
(***************************************************************************)
Unnamed ==
  /\ at \in {"entry", "headers"} => \A s \in Sought : secOff[s] = 0 /\ secSize[s] = 0
  /\ at \in {"headers", "names"} =>
       \A k \in 0 .. shdrNumber - 1 :
         at = "headers" \/ k >= shdrIndex => i_shdr[k].name = "stray"

NamesInv == TypeOK /\ Unnamed /\ LastNamesake

LEMMA StrayIsNotSought == "stray" \notin Sought
BY DEF Sought

LEMMA UnnamedInit == Init => Unnamed
BY DEF Init, Unnamed

LEMMA UnnamedNext == TypeOK /\ Unnamed /\ [Next]_vars => Unnamed'
<1> SUFFICES ASSUME TypeOK, Unnamed, [Next]_vars
             PROVE  Unnamed'
  OBVIOUS
<1>0. shdrNumber \in Nat /\ shdrIndex \in 0 .. shdrNumber
  BY DEF TypeOK
<1>1. CASE Enter
  BY <1>1 DEF Enter, Unnamed, inputs
<1>2. CASE ReadHeader
  <2>1. PICK type : i_shdr' = [i_shdr EXCEPT ![shdrIndex].type = type]
    BY <1>2 DEF ReadHeader
  <2>2. i_shdr \in [0 .. shdrNumber - 1 -> Shown]
    BY <1>2 DEF ReadHeader, TypeOK
  <2>3. \A k \in 0 .. shdrNumber - 1 : i_shdr'[k].name = i_shdr[k].name
    BY <2>1, <2>2 DEF Shown
  <2>4. at = "headers" /\ at' = at /\ shdrNumber' = shdrNumber /\ secOff' = secOff /\ secSize' = secSize
    BY <1>2 DEF ReadHeader, inputs
  <2> QED
    BY <2>3, <2>4 DEF Unnamed
<1>3. CASE EndHeaders
  BY <1>3 DEF EndHeaders, Unnamed, inputs
<1>4. CASE ResolveName
  <2>1. PICK name : i_shdr' = [i_shdr EXCEPT ![shdrIndex].name = name]
    BY <1>4 DEF ResolveName, Record
  <2>2. i_shdr \in [0 .. shdrNumber - 1 -> Shown]
    BY <1>4 DEF ResolveName, TypeOK
  <2>3. \A k \in 0 .. shdrNumber - 1 : k # shdrIndex => i_shdr'[k].name = i_shdr[k].name
    BY <2>1, <2>2 DEF Shown
  <2>4. at = "names" /\ at' = at /\ shdrNumber' = shdrNumber /\ shdrIndex' = shdrIndex + 1
    BY <1>4 DEF ResolveName, inputs
  <2> QED
    BY <1>0, <2>3, <2>4 DEF Unnamed
<1>5. CASE NameLost
  BY <1>0, <1>5 DEF NameLost, Unnamed, inputs
<1>6. CASE EnterCrash \/ NameOverrun \/ EndNames \/ PrintTable \/ PrintCrash
  BY <1>6 DEF EnterCrash, NameOverrun, EndNames, PrintTable, PrintCrash, Unnamed
<1>7. CASE UNCHANGED vars
  BY <1>7 DEF vars, inputs, Unnamed
<1> QED
  BY <1>1, <1>2, <1>3, <1>4, <1>5, <1>6, <1>7 DEF Next

LEMMA LastNamesakeInit == Init => LastNamesake
BY DEF Init, LastNamesake

(* When the name loop starts no section has been named.                    *)
LEMMA NoNamesakesYet == \A s : Namesakes(s, 0) = {}
BY DEF Namesakes

LEMMA ResolveKeepsLast ==
  ASSUME TypeOK, LastNamesake, ResolveName
  PROVE  LastNamesake'
<1>0. /\ shdrNumber \in Nat /\ shdrIndex \in 0 .. shdrNumber - 1 /\ shdrIndex' = shdrIndex + 1
      /\ at = "names" /\ at' = "names" /\ shdr' = shdr
  BY DEF ResolveName, TypeOK
<1>1. PICK name \in Names : Record(name)
  BY NamesAreNames DEF ResolveName
<1>2. i_shdr \in [0 .. shdrNumber - 1 -> Shown]
  BY <1>0 DEF TypeOK
<1>3. /\ i_shdr'[shdrIndex].name = name
      /\ \A k \in 0 .. shdrIndex - 1 : i_shdr'[k].name = i_shdr[k].name
  BY <1>0, <1>1, <1>2 DEF Record, Shown
<1>4. ASSUME NEW s \in Sought
      PROVE  LastOf(s, Namesakes(s, shdrIndex), shdr)'
  <2>1. CASE s = name
    <3>1. shdrIndex \in Namesakes(s, shdrIndex)' /\ \A j \in Namesakes(s, shdrIndex)' : j <= shdrIndex
      BY <1>0, <1>3, <2>1 DEF Namesakes
    <3>2. secOff'[s] = shdr[shdrIndex].offset /\ secSize'[s] = shdr[shdrIndex].size
      BY <1>1, <2>1 DEF Record
    <3> QED
      BY <1>0, <3>1, <3>2 DEF LastOf
  <2>2. CASE s # name
    <3>1. Namesakes(s, shdrIndex)' = Namesakes(s, shdrIndex)
      BY <1>0, <1>3, <2>2 DEF Namesakes
    <3>2. secOff'[s] = secOff[s] /\ secSize'[s] = secSize[s]
      BY <1>1, <2>2 DEF Record
    <3>3. LastOf(s, Namesakes(s, shdrIndex), shdr)
      BY <1>0 DEF LastNamesake
    <3> QED
      BY <1>0, <3>1, <3>2, <3>3 DEF LastOf
  <2> QED
    BY <2>1, <2>2
<1> QED
  BY <1>4 DEF LastNamesake

LEMMA LostKeepsLast ==
  ASSUME TypeOK, Unnamed, LastNamesake, NameLost
  PROVE  LastNamesake'
<1>0. /\ shdrNumber \in Nat /\ shdrIndex \in 0 .. shdrNumber - 1 /\ shdrIndex' = shdrIndex + 1
      /\ at = "names" /\ at' = "names"
      /\ shdr' = shdr /\ i_shdr' = i_shdr /\ secOff' = secOff /\ secSize' = secSize
  BY DEF NameLost, TypeOK
<1>1. i_shdr[shdrIndex].name = "stray"
  BY <1>0 DEF Unnamed
<1>2. ASSUME NEW s \in Sought
      PROVE  LastOf(s, Namesakes(s, shdrIndex), shdr)'
  <2>1. Namesakes(s, shdrIndex)' = Namesakes(s, shdrIndex)
    BY <1>0, <1>1, StrayIsNotSought DEF Namesakes
  <2>2. LastOf(s, Namesakes(s, shdrIndex), shdr)
    BY <1>0 DEF LastNamesake
  <2> QED
    BY <1>0, <2>1, <2>2 DEF LastOf
<1> QED
  BY <1>2 DEF LastNamesake

LEMMA LastNamesakeNext == NamesInv /\ [Next]_vars => LastNamesake'
<1> SUFFICES ASSUME TypeOK, Unnamed, LastNamesake, [Next]_vars
             PROVE  LastNamesake'
  BY DEF NamesInv
<1>1. CASE Enter
  <2>1. /\ at' \in {"headers", "names"} /\ secOff' = secOff /\ secSize' = secSize
        /\ shdrIndex' = shdrIndex /\ at = "entry" /\ shdrNumber' = shdrNumber
        /\ \A k \in 0 .. shdrNumber - 1 : i_shdr'[k].name = "stray"
    BY <1>1 DEF Enter, inputs
  <2>2. shdrNumber \in Nat /\ shdrIndex \in 0 .. shdrNumber
    BY DEF TypeOK
  <2>3. ASSUME NEW s \in Sought
        PROVE  Namesakes(s, shdrIndex)' = {}
    <3>1. \A k \in 0 .. shdrIndex - 1 : k \in 0 .. shdrNumber - 1
      BY <2>2
    <3>2. \A k \in 0 .. shdrIndex - 1 : i_shdr'[k].name # s
      BY <2>1, <3>1, StrayIsNotSought
    <3> QED
      BY <2>1, <3>2 DEF Namesakes
  <2> QED
    BY <2>1, <2>3 DEF LastNamesake, LastOf, Unnamed
<1>2. CASE EndHeaders
  <2>1. \A s \in Sought : Namesakes(s, shdrIndex)' = {}
    BY <1>2, NoNamesakesYet DEF EndHeaders, Namesakes
  <2> QED
    BY <1>2, <2>1 DEF EndHeaders, LastNamesake, LastOf, Unnamed
<1>3. CASE ResolveName
  BY <1>3, ResolveKeepsLast
<1>4. CASE NameLost
  BY <1>4, LostKeepsLast
<1>5. CASE EndNames \/ PrintTable
  <2>1. /\ at \in {"names", "print"} /\ shdrIndex' = shdrIndex /\ i_shdr' = i_shdr
        /\ shdr' = shdr /\ secOff' = secOff /\ secSize' = secSize
    BY <1>5 DEF EndNames, PrintTable
  <2> QED
    BY <2>1 DEF LastNamesake, LastOf, Namesakes
<1>6. CASE ReadHeader \/ EnterCrash \/ NameOverrun \/ PrintCrash
  BY <1>6 DEF ReadHeader, EnterCrash, NameOverrun, PrintCrash, LastNamesake
<1>7. CASE UNCHANGED vars
  BY <1>7 DEF vars, inputs, LastNamesake, LastOf, Namesakes
<1> QED
  BY <1>1, <1>2, <1>3, <1>4, <1>5, <1>6, <1>7 DEF Next

(***************************************************************************)
(* Each pair of globals is that of the last section shown by that name,    *)
(* for any number of sections and whatever was read.                       *)
(***************************************************************************)
THEOREM PairsFromLastNamesake == Spec => []LastNamesake
<1>1. Init => NamesInv
  BY TypeInit, UnnamedInit, LastNamesakeInit DEF NamesInv
<1>2. NamesInv /\ [Next]_vars => NamesInv'
  BY TypeNext, UnnamedNext, LastNamesakeNext DEF NamesInv
<1>3. NamesInv => LastNamesake
  BY DEF NamesInv
<1> QED
  BY <1>1, <1>2, <1>3, PTL DEF Spec

-----------------------------------------------------------------------------
(***************************************************************************)
(* DirectoryOfFile.  The header loop makes shdr a copy of the file's table *)
(* before any name is read; the name loop then names by the file.          *)
(***************************************************************************)
Same(k) ==
  /\ shdr[k].name = table[k].name
  /\ shdr[k].offset = table[k].offset
  /\ shdr[k].size = table[k].size

CopiedSoFar ==
  Intact =>
    /\ at = "entry" => shdrIndex = 0
    /\ at = "headers" => \A k \in 0 .. shdrIndex - 1 : Same(k)
    /\ at \in {"names", "print", "returned"} => \A k \in 0 .. shdrNumber - 1 : Same(k)

NamedByFile ==
  /\ Intact /\ at \in {"names", "print", "returned"} =>
       \A k \in 0 .. shdrNumber - 1 : i_shdr[k].name \in {"stray", FileName(k)}
  /\ at \in {"print", "returned"} => shdrIndex = shdrNumber

DirectoryInv == NamesInv /\ CopiedSoFar /\ NamedByFile

LEMMA IntactIsConstant == [Next]_vars => UNCHANGED inputs
BY DEF Next, Enter, EnterCrash, ReadHeader, EndHeaders, ResolveName, NameLost, NameOverrun,
       EndNames, PrintTable, PrintCrash, vars, inputs

LEMMA WholeEntry ==
  ASSUME TypeOK, Intact, NEW i \in 0 .. shdrNumber - 1
  PROVE  BytesOf(i) = 64
<1>1. shdrNumber \in Nat /\ shdrSize = 64 /\ present = shdrNumber * 64
  BY DEF TypeOK, Intact
<1> QED
  BY <1>1 DEF BytesOf, Least

LEMMA CopiedNext == TypeOK /\ CopiedSoFar /\ [Next]_vars => CopiedSoFar'
<1> SUFFICES ASSUME TypeOK, CopiedSoFar, [Next]_vars, Intact'
             PROVE  CopiedSoFar'
  BY DEF CopiedSoFar
<1>0. Intact /\ table' = table /\ shdrNumber' = shdrNumber
  BY IntactIsConstant DEF Intact, inputs
<1>1. shdrNumber \in Nat /\ shdrIndex \in 0 .. shdrNumber
  BY DEF TypeOK
<1>2. CASE Enter
  <2>1. at' = "headers" /\ shdrIndex' = shdrIndex /\ at = "entry"
    BY <1>0, <1>2 DEF Enter, Intact
  <2>2. shdrIndex = 0
    BY <1>0, <2>1 DEF CopiedSoFar
  <2> QED
    BY <2>1, <2>2 DEF CopiedSoFar
<1>3. CASE ReadHeader
  <2>1. /\ at = "headers" /\ at' = "headers" /\ shdrIndex' = shdrIndex + 1
        /\ shdrIndex \in 0 .. shdrNumber - 1
    BY <1>1, <1>3 DEF ReadHeader
  <2>2. shdr \in [0 .. shdrNumber - 1 -> HeaderSet] /\ table[shdrIndex] \in Headers
    BY <2>1 DEF TypeOK
  <2>3. PICK stale \in Headers :
          shdr' = [shdr EXCEPT ![shdrIndex] = [Delivered(shdrIndex, 64, stale) EXCEPT !.flags = {}]]
    BY <1>0, <1>3, <2>1, WholeEntry DEF ReadHeader
  <2>4. Delivered(shdrIndex, 64, stale) \in HeaderSet
    BY <2>2, DeliveredIsHeader
  <2>5. ASSUME NEW k \in 0 .. shdrIndex
        PROVE  Same(k)'
    <3>1. CASE k = shdrIndex
      <4>1. /\ shdr'[k].name = Delivered(shdrIndex, 64, stale).name
            /\ shdr'[k].offset = Delivered(shdrIndex, 64, stale).offset
            /\ shdr'[k].size = Delivered(shdrIndex, 64, stale).size
        BY <2>1, <2>2, <2>3, <2>4, <3>1 DEF HeaderSet
      <4> QED
        BY <1>0, <2>2, <3>1, <4>1, DeliveredWhole DEF Same
    <3>2. CASE k # shdrIndex
      <4>1. shdr'[k] = shdr[k] /\ k \in 0 .. shdrIndex - 1
        BY <1>1, <2>1, <2>2, <2>3, <3>2
      <4> QED
        BY <1>0, <2>1, <4>1 DEF Same, CopiedSoFar
    <3> QED
      BY <3>1, <3>2
  <2> QED
    BY <1>1, <2>1, <2>5 DEF CopiedSoFar
<1>4. CASE EndHeaders
  BY <1>0, <1>4 DEF EndHeaders, CopiedSoFar, Same
<1>5. CASE ResolveName \/ NameLost \/ EndNames \/ PrintTable
  BY <1>0, <1>5 DEF ResolveName, NameLost, EndNames, PrintTable, CopiedSoFar, Same
<1>6. CASE EnterCrash \/ NameOverrun \/ PrintCrash
  BY <1>6 DEF EnterCrash, NameOverrun, PrintCrash, CopiedSoFar
<1>7. CASE UNCHANGED vars
  BY <1>0, <1>7 DEF vars, CopiedSoFar, Same
<1> QED
  BY <1>2, <1>3, <1>4, <1>5, <1>6, <1>7 DEF Next

LEMMA NamedNext ==
  TypeOK /\ Unnamed /\ CopiedSoFar /\ NamedByFile /\ [Next]_vars => NamedByFile'
<1> SUFFICES ASSUME TypeOK, Unnamed, CopiedSoFar, NamedByFile, [Next]_vars
             PROVE  NamedByFile'
  OBVIOUS
<1>0. UNCHANGED inputs /\ (Intact' <=> Intact) /\ \A k : FileName(k)' = FileName(k)
  BY IntactIsConstant DEF Intact, FileName, inputs
<1>1. shdrNumber \in Nat /\ shdrIndex \in 0 .. shdrNumber
  BY DEF TypeOK
<1>2. CASE Enter
  BY <1>0, <1>2 DEF Enter, NamedByFile, Intact, inputs
<1>3. CASE EndHeaders
  BY <1>0, <1>3 DEF EndHeaders, NamedByFile, Unnamed, inputs
<1>4. CASE ResolveName
  <2>1. /\ at = "names" /\ at' = "names" /\ shdrNumber' = shdrNumber
        /\ shdrIndex \in 0 .. shdrNumber - 1
    BY <1>0, <1>1, <1>4 DEF ResolveName, inputs
  <2>2. i_shdr \in [0 .. shdrNumber - 1 -> Shown]
    BY <2>1 DEF TypeOK
  <2>3. PICK name \in Names :
          /\ i_shdr' = [i_shdr EXCEPT ![shdrIndex].name = name]
          /\ Intact => name = FileName(shdrIndex)
    <3>0. PICK strtab \in StringTables :
            \E name \in NamesAt(strtab + shdr[shdrIndex].name) : Record(name)
      BY <1>4 DEF ResolveName
    <3>1. PICK name \in NamesAt(strtab + shdr[shdrIndex].name) :
            i_shdr' = [i_shdr EXCEPT ![shdrIndex].name = name]
      BY <3>0 DEF Record
    <3>2. ASSUME Intact
          PROVE  name = FileName(shdrIndex)
      <4>1. shdrStrtabIndex \in 0 .. shdrNumber - 1
        BY <1>1, <3>2 DEF Intact, TypeOK
      <4>2. Same(shdrStrtabIndex) /\ Same(shdrIndex)
        BY <2>1, <3>2, <4>1 DEF CopiedSoFar
      <4>3. strtab + shdr[shdrIndex].name = table[shdrStrtabIndex].offset + table[shdrIndex].name
        BY <1>1, <3>0, <4>1, <4>2 DEF StringTables, Same
      <4> QED
        BY <2>1, <3>1, <3>2, <4>3 DEF Intact, NamesAt, FileName
    <3> QED
      BY <3>1, <3>2, NamesAreNames
  <2>4. \A k \in 0 .. shdrNumber - 1 :
          i_shdr'[k].name = IF k = shdrIndex THEN name ELSE i_shdr[k].name
    BY <2>1, <2>2, <2>3 DEF Shown
  <2> QED
    BY <1>0, <2>1, <2>3, <2>4 DEF NamedByFile
<1>5. CASE NameLost \/ EndNames \/ PrintTable
  BY <1>0, <1>5 DEF NameLost, EndNames, PrintTable, NamedByFile, inputs
<1>6. CASE ReadHeader \/ EnterCrash \/ NameOverrun \/ PrintCrash
  BY <1>6 DEF ReadHeader, EnterCrash, NameOverrun, PrintCrash, NamedByFile
<1>7. CASE UNCHANGED vars
  BY <1>0, <1>7 DEF vars, NamedByFile, inputs
<1> QED
  BY <1>2, <1>3, <1>4, <1>5, <1>6, <1>7 DEF Next

LEMMA DirectoryInvImplies == DirectoryInv => DirectoryOfFile
<1> SUFFICES ASSUME DirectoryInv, at \in {"print", "returned"}, Intact,
                    \A k \in 0 .. shdrNumber - 1 : i_shdr[k].name # "stray",
                    NEW s \in Sought
             PROVE  LastOf(s, {k \in 0 .. shdrNumber - 1 : FileName(k) = s}, table)
  BY DEF DirectoryOfFile
<1>1. \A k \in 0 .. shdrNumber - 1 : i_shdr[k].name = FileName(k) /\ Same(k)
  BY DEF DirectoryInv, NamedByFile, CopiedSoFar
<1>2. Namesakes(s, shdrIndex) = {k \in 0 .. shdrNumber - 1 : FileName(k) = s}
  BY <1>1 DEF DirectoryInv, NamedByFile, Namesakes
<1>3. LastOf(s, Namesakes(s, shdrIndex), shdr)
  BY DEF DirectoryInv, NamesInv, LastNamesake
<1> QED
  BY <1>1, <1>2, <1>3 DEF LastOf, Same

(***************************************************************************)
(* Of an intact file the pairs are those of its own directory, however     *)
(* many sections it has and in whatever order they stand.                  *)
(***************************************************************************)
THEOREM PairsFromFile == Spec => []DirectoryOfFile
<1>1. Init => DirectoryInv
  <2>1. Init => NamesInv
    BY TypeInit, UnnamedInit, LastNamesakeInit DEF NamesInv
  <2>2. Init => CopiedSoFar /\ NamedByFile
    BY DEF Init, CopiedSoFar, NamedByFile
  <2> QED
    BY <2>1, <2>2 DEF DirectoryInv
<1>2. DirectoryInv /\ [Next]_vars => DirectoryInv'
  BY TypeNext, UnnamedNext, LastNamesakeNext, CopiedNext, NamedNext DEF DirectoryInv, NamesInv
<1> QED
  BY <1>1, <1>2, DirectoryInvImplies, PTL DEF Spec
=============================================================================
