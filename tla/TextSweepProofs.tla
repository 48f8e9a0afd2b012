--------------------------- MODULE TextSweepProofs ---------------------------
(***************************************************************************)
(* Proofs about TextSweep, for every section, size, offset and heap.       *)
(***************************************************************************)
EXTENDS TextSweep, TLAPS

(***************************************************************************)
(* A word is an integer, and its length is encoded in its first byte: the  *)
(* bytes fetched behind that one cannot change how far the loop advances.  *)
(***************************************************************************)
LEMMA BytesAreIntegers == \A b \in Byte : b \in Int /\ int8(b) \in Int
BY DEF int8, Byte

LEMMA WordsAreIntegers ==
  ASSUME NEW b, b[0] \in Byte, b[1] \in Byte
  PROVE  /\ get2(b) \in Int
         /\ b[2] \in Byte /\ b[3] \in Byte => get4(b) \in Int
<1>1. b[0] \in Int /\ b[1] \in Int
  BY BytesAreIntegers
<1>2. get2(b) \in Int
  BY <1>1 DEF get2
<1>3. ASSUME b[2] \in Byte, b[3] \in Byte
      PROVE  get4(b) \in Int
  <2>1. b[2] \in Int /\ int8(b[3]) \in Int
    BY <1>3, BytesAreIntegers
  <2> QED
    BY <1>2, <2>1 DEF get4
<1> QED
  BY <1>2, <1>3

LEMMA LengthOfLowByte ==
  ASSUME NEW x \in Int, NEW k \in Int
  PROVE  inst_length(x + 256 * k) = inst_length(x)
<1>1. (x + 256 * k) % 4 = x % 4
  OBVIOUS
<1>2. (x + 256 * k) % 32 = x % 32
  OBVIOUS
<1>3. (x + 256 * k) % 64 = x % 64
  OBVIOUS
<1>4. (x + 256 * k) % 128 = x % 128
  OBVIOUS
<1> QED
  BY <1>1, <1>2, <1>3, <1>4 DEF inst_length

LEMMA LengthIsInFirstByte ==
  ASSUME NEW b, \A k \in 0 .. 3 : b[k] \in Byte
  PROVE  inst_length(get4(b)) = inst_length(b[0])
<1> DEFINE rest == b[1] + 256 * (b[2] + 256 * int8(b[3]))
<1>1. b[0] \in Int /\ b[1] \in Int /\ b[2] \in Int /\ int8(b[3]) \in Int
  BY BytesAreIntegers
<1>2. rest \in Int
  BY <1>1
<1>3. get4(b) = b[0] + 256 * rest
  BY <1>1 DEF get4, get2
<1> HIDE DEF rest
<1> QED
  BY <1>1, <1>2, <1>3, LengthOfLowByte

(***************************************************************************)
(* What the fetch sees at a pointer inside the buffer: bytes, the first of *)
(* them the buffer's own.                                                  *)
(***************************************************************************)
LEMMA FetchGivesBytes ==
  ASSUME shdrTextSize \in Nat, pos \in Nat, NEW n \in {2, 4},
         instBuffer \in [0 .. shdrTextSize - 1 -> Units],
         NEW heap \in [Behind(pos, 4) -> Units]
  PROVE  /\ \A k \in 0 .. n - 1 : Fetch(pos, n, heap)[k] \in Byte
         /\ pos < shdrTextSize => Fetch(pos, n, heap)[0] = instBuffer[pos]
<1>1. Units \subseteq Byte
  BY SweepAssumption DEF SweepAssumption
<1>2. ASSUME NEW k \in 0 .. n - 1
      PROVE  Fetch(pos, n, heap)[k] \in Byte
  <2>1. CASE pos + k < shdrTextSize
    BY <1>1, <2>1 DEF Fetch
  <2>2. CASE ~(pos + k < shdrTextSize)
    <3>1. k \in Behind(pos, 4)
      BY <2>2 DEF Behind
    <3> QED
      BY <1>1, <2>2, <3>1 DEF Fetch
  <2> QED
    BY <2>1, <2>2
<1> QED
  BY <1>2 DEF Fetch

LEMMA FetchedWordIsInteger ==
  ASSUME shdrTextSize \in Nat, pos \in Nat,
         instBuffer \in [0 .. shdrTextSize - 1 -> Units],
         NEW heap \in [Behind(pos, 4) -> Units]
  PROVE  /\ get4(Fetch(pos, 4, heap)) \in Int
         /\ get2(Fetch(pos, 2, heap)) \in Int
<1> DEFINE w == Fetch(pos, 4, heap)  h == Fetch(pos, 2, heap)
<1>1. w[0] \in Byte /\ w[1] \in Byte /\ w[2] \in Byte /\ w[3] \in Byte
  BY FetchGivesBytes
<1>2. h[0] \in Byte /\ h[1] \in Byte
  BY FetchGivesBytes
<1> HIDE DEF w, h
<1> QED
  BY <1>1, <1>2, WordsAreIntegers DEF w, h

-----------------------------------------------------------------------------
(***************************************************************************)
(* While the function runs the buffer is a full one, so that what is       *)
(* fetched from it are bytes.                                              *)
(***************************************************************************)
BufferIsLoaded == at = "sweep" => instBuffer \in [0 .. shdrTextSize - 1 -> Units]

TypeInv == TypeOK /\ BufferIsLoaded

LEMMA TypeInvInit == Init => TypeInv
<1> SUFFICES ASSUME Init
             PROVE  TypeInv
  OBVIOUS
<1>1. shdrTextOff \in Nat /\ shdrTextSize \in Nat
  BY SweepAssumption DEF Init, SweepAssumption
<1>2. lines \in Seq(LineSet) /\ got \in 0 .. shdrTextSize
  BY <1>1 DEF Init
<1> QED
  BY <1>1, <1>2 DEF Init, TypeInv, TypeOK, BufferIsLoaded

LEMMA PrintKeepsType ==
  ASSUME TypeInv, NEW inst \in Int, NEW len \in {2, 4}, Emit(inst, len),
         reach' \in Nat
  PROVE  TypeInv'
<1>1. Line(inst, len) \in LineSet
  BY DEF TypeInv, TypeOK, Line, LineSet
<1>2. lines' \in Seq(LineSet)
  BY <1>1 DEF TypeInv, TypeOK, Emit
<1> QED
  BY <1>2 DEF TypeInv, TypeOK, BufferIsLoaded, Emit, globals, loaded

LEMMA TypeInvNext == TypeInv /\ [Next]_vars => TypeInv'
<1> SUFFICES ASSUME TypeInv, [Next]_vars
             PROVE  TypeInv'
  OBVIOUS
<1> USE DEF TypeInv
<1>0. shdrTextSize \in Nat /\ pos \in Nat /\ reach \in Nat
  BY SweepAssumption DEF TypeOK, SweepAssumption
<1>a. MaxOf(reach, pos + 4) \in Nat
  BY <1>0 DEF MaxOf
<1>1. CASE Open
  BY <1>1 DEF TypeOK, BufferIsLoaded, Open, globals
<1>2. CASE NoTextSection
  BY <1>2 DEF TypeOK, BufferIsLoaded, NoTextSection, globals, loaded
<1>3. CASE LoadText
  <2>1. got' \in 0 .. shdrTextSize
    BY <1>0, <1>3 DEF LoadText
  <2>2. instBuffer' \in [0 .. shdrTextSize - 1 -> Units]
    BY <1>0, <1>3, <2>1 DEF LoadText, TypeOK
  <2> QED
    BY <1>3, <2>1, <2>2 DEF TypeOK, BufferIsLoaded, LoadText, globals
<1>4. CASE LoadCrash
  BY <1>4 DEF TypeOK, BufferIsLoaded, LoadCrash, globals, loaded
<1>5. CASE Uncompressed
  <2>1. PICK heap \in [Behind(pos, 4) -> Units] :
          Emit(get4(Fetch(pos, 4, heap)), 4)
    BY <1>5 DEF Uncompressed
  <2>2. get4(Fetch(pos, 4, heap)) \in Int
    BY <1>0, <1>5, FetchedWordIsInteger DEF Uncompressed, Iterating, BufferIsLoaded
  <2> QED
    BY <1>5, <1>a, <2>1, <2>2, PrintKeepsType DEF Uncompressed
<1>6. CASE Compressed
  <2>1. PICK heap \in [Behind(pos, 4) -> Units] :
          Emit(get2(Fetch(pos, 2, heap)), 2)
    BY <1>6 DEF Compressed
  <2>2. get2(Fetch(pos, 2, heap)) \in Int
    BY <1>0, <1>6, FetchedWordIsInteger DEF Compressed, Iterating, BufferIsLoaded
  <2> QED
    BY <1>6, <1>a, <2>1, <2>2, PrintKeepsType DEF Compressed
<1>7. CASE Unsupported
  BY <1>7, <1>a DEF TypeOK, BufferIsLoaded, Unsupported, globals, loaded
<1>8. CASE Segfault
  BY <1>8 DEF TypeOK, BufferIsLoaded, Segfault, globals, loaded
<1>9. CASE Finish
  BY <1>9 DEF TypeOK, BufferIsLoaded, Finish, globals
<1>10. CASE UNCHANGED vars
  BY <1>10 DEF TypeOK, BufferIsLoaded, vars, globals, loaded
<1> QED
  BY <1>1, <1>2, <1>3, <1>4, <1>5, <1>6, <1>7, <1>8, <1>9, <1>10 DEF Next

(***************************************************************************)
(* Every variable of the sweep keeps its type: addresses and pointers stay *)
(* natural numbers and every listed line is a line.                        *)
(***************************************************************************)
THEOREM TypeCorrect == Spec => []TypeOK
<1>1. TypeInv => TypeOK
  BY DEF TypeInv
<1> QED
  BY <1>1, TypeInvInit, TypeInvNext, PTL DEF Spec

-----------------------------------------------------------------------------
(***************************************************************************)
(* How far the function is tells what is set up: until the sweep starts    *)
(* nothing has been walked or listed, and the file is closed only on the   *)
(* regular return, with the pointer on the end.                            *)
(***************************************************************************)
Progress ==
  /\ at \in {"entry", "opened"} => /\ fileHandle # "closed"
                                   /\ pos = 0 /\ reach = 0
                                   /\ lines = << >> /\ ~complained
  /\ fileHandle = "closed" => at = "returned" /\ pos = shdrTextSize
  /\ Loaded => instBuffer \in [0 .. shdrTextSize - 1 -> Units]
  /\ at \in {"returned", "crashed"} /\ fileHandle # "closed" =>
       lines = << >> \/ pos > shdrTextSize

LEMMA ProgressInit == Init => Progress
BY DEF Init, Progress, Loaded

LEMMA PrintedIsNotEmpty ==
  ASSUME TypeInv, NEW l
  PROVE  Append(lines, l) # << >>
BY DEF TypeInv, TypeOK

LEMMA ProgressNext == TypeInv /\ Progress /\ [Next]_vars => Progress'
<1> SUFFICES ASSUME TypeInv, Progress, [Next]_vars
             PROVE  Progress'
  OBVIOUS
<1>0. shdrTextSize \in Nat /\ pos \in Nat /\ Slack \in Nat
  BY SweepAssumption DEF TypeInv, TypeOK, SweepAssumption
<1>1. CASE Open
  BY <1>1 DEF Progress, Loaded, Open, globals
<1>2. CASE NoTextSection
  BY <1>2 DEF Progress, Loaded, NoTextSection, globals, loaded
<1>3. CASE LoadText
  <2>1. got' \in 0 .. shdrTextSize
    BY <1>0, <1>3 DEF LoadText
  <2>2. instBuffer' \in [0 .. shdrTextSize - 1 -> Units]
    BY <1>0, <1>3, <2>1 DEF LoadText, TypeInv, TypeOK
  <2> QED
    BY <1>3, <2>2 DEF Progress, Loaded, LoadText, globals
<1>4. CASE LoadCrash
  BY <1>4 DEF Progress, Loaded, LoadCrash, globals, loaded
<1>5. CASE Uncompressed
  BY <1>5, PrintedIsNotEmpty
     DEF Progress, Loaded, Uncompressed, Iterating, Emit, globals, loaded
<1>6. CASE Compressed
  BY <1>6, PrintedIsNotEmpty
     DEF Progress, Loaded, Compressed, Iterating, Emit, globals, loaded
<1>7. CASE Unsupported
  BY <1>7 DEF Progress, Loaded, Unsupported, Iterating, globals, loaded
<1>8. CASE Segfault
  BY <1>0, <1>8 DEF Progress, Loaded, Segfault, globals, loaded
<1>9. CASE Finish
  BY <1>9 DEF Progress, Loaded, Finish, globals
<1>10. CASE UNCHANGED vars
  BY <1>10 DEF Progress, Loaded, vars, globals, loaded
<1> QED
  BY <1>1, <1>2, <1>3, <1>4, <1>5, <1>6, <1>7, <1>8, <1>9, <1>10 DEF Next

(***************************************************************************)
(* One iteration at a pointer inside the buffer advances it by the length  *)
(* that the byte under it encodes.                                         *)
(***************************************************************************)
LEMMA AdvanceByLength ==
  ASSUME TypeInv, pos < shdrTextSize, Uncompressed \/ Compressed
  PROVE  /\ inst_length(instBuffer[pos]) \in {2, 4}
         /\ pos' = pos + inst_length(instBuffer[pos])
         /\ reach' = MaxOf(reach, pos + 4)
         /\ UNCHANGED <<instBuffer, shdrTextSize, at, fileHandle, complained>>
<1>0. shdrTextSize \in Nat /\ pos \in Nat
  BY SweepAssumption DEF TypeInv, TypeOK, SweepAssumption
<1>1. instBuffer \in [0 .. shdrTextSize - 1 -> Units]
  BY DEF TypeInv, BufferIsLoaded, Uncompressed, Compressed, Iterating
<1>2. ASSUME NEW heap \in [Behind(pos, 4) -> Units]
      PROVE  inst_length(get4(Fetch(pos, 4, heap))) = inst_length(instBuffer[pos])
  BY <1>0, <1>1, FetchGivesBytes, LengthIsInFirstByte
<1>3. CASE Uncompressed
  <2>1. PICK heap \in [Behind(pos, 4) -> Units] :
          inst_length(get4(Fetch(pos, 4, heap))) = 4 /\ Emit(get4(Fetch(pos, 4, heap)), 4)
    BY <1>3 DEF Uncompressed
  <2> QED
    BY <1>2, <1>3, <2>1 DEF Uncompressed, Emit, globals, loaded
<1>4. CASE Compressed
  <2>1. PICK heap \in [Behind(pos, 4) -> Units] :
          inst_length(get4(Fetch(pos, 4, heap))) = 2 /\ Emit(get2(Fetch(pos, 2, heap)), 2)
    BY <1>4 DEF Compressed
  <2> QED
    BY <1>2, <1>4, <2>1 DEF Compressed, Emit, globals, loaded
<1> QED
  BY <1>3, <1>4

LEMMA UnsupportedLength ==
  ASSUME TypeInv, pos < shdrTextSize, Unsupported
  PROVE  inst_length(instBuffer[pos]) \notin {2, 4}
<1>0. shdrTextSize \in Nat /\ pos \in Nat
  BY SweepAssumption DEF TypeInv, TypeOK, SweepAssumption
<1>1. instBuffer \in [0 .. shdrTextSize - 1 -> Units]
  BY DEF TypeInv, BufferIsLoaded, Unsupported, Iterating
<1>2. PICK heap \in [Behind(pos, 4) -> Units] :
        inst_length(get4(Fetch(pos, 4, heap))) \notin {2, 4}
  BY DEF Unsupported
<1>3. inst_length(get4(Fetch(pos, 4, heap))) = inst_length(instBuffer[pos])
  BY <1>0, <1>1, FetchGivesBytes, LengthIsInFirstByte
<1> QED
  BY <1>2, <1>3

-----------------------------------------------------------------------------
(***************************************************************************)
(* The inductive invariant behind NeverStrays and OverreadAtMostTwo: in    *)
(* every parse of the buffer the walking pointer stands on a boundary.     *)
(* NeverStrays alone is not inductive: a pointer inside the buffer but off *)
(* the boundaries could step over the end.                                 *)
(***************************************************************************)
OnBoundary ==
  Loaded => \A B \in SUBSET (0 .. shdrTextSize) :
              IsParse(B, instBuffer, shdrTextSize, {2, 4}) =>
                /\ pos \in B
                /\ reach <= shdrTextSize + 2
                /\ ~complained
                /\ at # "crashed"

LEMMA OnBoundaryInit == Init => OnBoundary
BY DEF Init, OnBoundary, Loaded

LEMMA OnBoundaryNext ==
  TypeInv /\ Progress /\ OnBoundary /\ [Next]_vars => OnBoundary'
<1> SUFFICES ASSUME TypeInv, Progress, OnBoundary, [Next]_vars, Loaded',
                    NEW B \in SUBSET (0 .. shdrTextSize'),
                    IsParse(B, instBuffer', shdrTextSize', {2, 4})
             PROVE  /\ pos' \in B
                    /\ reach' <= shdrTextSize' + 2
                    /\ ~complained'
                    /\ at' # "crashed"
  BY DEF OnBoundary, Loaded
<1>0. shdrTextSize \in Nat /\ pos \in Nat /\ reach \in Nat /\ Slack \in Nat
  BY SweepAssumption DEF TypeInv, TypeOK, SweepAssumption
<1>a. ASSUME at = "sweep", UNCHANGED <<instBuffer, shdrTextSize>>
      PROVE  /\ pos \in B /\ pos <= shdrTextSize
             /\ reach <= shdrTextSize + 2 /\ ~complained
  <2>1. Loaded /\ IsParse(B, instBuffer, shdrTextSize, {2, 4}) /\ B \in SUBSET (0 .. shdrTextSize)
    BY <1>a DEF Loaded, IsParse
  <2> QED
    BY <1>0, <2>1 DEF OnBoundary
<1>b. ASSUME at = "sweep", pos # shdrTextSize, UNCHANGED <<instBuffer, shdrTextSize>>
      PROVE  /\ pos < shdrTextSize
             /\ inst_length(instBuffer[pos]) \in {2, 4}
             /\ pos + inst_length(instBuffer[pos]) \in B
  BY <1>0, <1>a, <1>b DEF IsParse
<1>1. CASE Open
  BY <1>1 DEF Progress, Loaded, Open, globals
<1>2. CASE NoTextSection
  BY <1>2 DEF Progress, Loaded, NoTextSection, globals, loaded
<1>3. CASE LoadText
  BY <1>0, <1>3 DEF Progress, LoadText, globals, IsParse
<1>4. CASE LoadCrash
  BY <1>4 DEF Progress, Loaded, LoadCrash, globals, loaded
<1>5. CASE Uncompressed \/ Compressed
  <2>1. /\ at = "sweep" /\ pos # shdrTextSize
        /\ UNCHANGED <<instBuffer, shdrTextSize>>
    BY <1>5 DEF Uncompressed, Compressed, Iterating, Emit, globals, loaded
  <2>2. /\ pos' = pos + inst_length(instBuffer[pos])
        /\ reach' = MaxOf(reach, pos + 4)
        /\ UNCHANGED <<at, complained>>
    BY <1>5, <1>b, <2>1, AdvanceByLength
  <2>3. pos' \in B /\ pos' <= shdrTextSize
    BY <1>0, <1>b, <2>1, <2>2
  <2>4. pos + 4 <= shdrTextSize + 2
    BY <1>0, <1>b, <2>1, <2>2, <2>3
  <2> QED
    BY <1>0, <1>a, <2>1, <2>2, <2>3, <2>4 DEF MaxOf
<1>6. CASE Unsupported
  <2>1. /\ at = "sweep" /\ pos # shdrTextSize
        /\ UNCHANGED <<instBuffer, shdrTextSize>>
    BY <1>6 DEF Unsupported, Iterating, globals, loaded
  <2> QED
    BY <1>6, <1>b, <2>1, UnsupportedLength
<1>7. CASE Segfault
  BY <1>0, <1>7, <1>a DEF Segfault, globals, loaded
<1>8. CASE Finish
  BY <1>8, <1>a DEF Finish, globals
<1>9. CASE UNCHANGED vars
  BY <1>9 DEF OnBoundary, Loaded, vars, globals, loaded, IsParse
<1> QED
  BY <1>1, <1>2, <1>3, <1>4, <1>5, <1>6, <1>7, <1>8, <1>9 DEF Next

LEMMA OnBoundaryImplies ==
  TypeInv /\ OnBoundary => NeverStrays /\ OverreadAtMostTwo
<1> SUFFICES ASSUME TypeInv, OnBoundary, WellFormedBuffer
             PROVE  /\ pos <= shdrTextSize /\ ~complained /\ at # "crashed"
                    /\ reach <= shdrTextSize + 2
  BY DEF NeverStrays, OverreadAtMostTwo
<1>1. PICK B \in SUBSET (0 .. shdrTextSize) : IsParse(B, instBuffer, shdrTextSize, {2, 4})
  BY DEF WellFormedBuffer, WellFormed, Parses
<1>2. shdrTextSize \in Nat
  BY SweepAssumption DEF TypeInv, TypeOK, SweepAssumption
<1>3. pos \in B /\ reach <= shdrTextSize + 2 /\ ~complained /\ at # "crashed"
  BY <1>1 DEF OnBoundary, WellFormedBuffer
<1>4. pos \in 0 .. shdrTextSize
  BY <1>1, <1>3
<1> QED
  BY <1>2, <1>3, <1>4

(***************************************************************************)
(* On every section that is a chain of 2- and 4-byte units, of any size    *)
(* and with any bytes behind it, the sweep stays inside the section,       *)
(* refuses nothing and does not crash.                                     *)
(***************************************************************************)
THEOREM SweepNeverStrays == Spec => []NeverStrays
<1> QED
  BY TypeInvInit, TypeInvNext, ProgressInit, ProgressNext, OnBoundaryInit,
     OnBoundaryNext, OnBoundaryImplies, PTL DEF Spec

(***************************************************************************)
(* On such a section no read ever goes more than two bytes behind it.      *)
(***************************************************************************)
THEOREM OverreadIsBounded == Spec => []OverreadAtMostTwo
<1> QED
  BY TypeInvInit, TypeInvNext, ProgressInit, ProgressNext, OnBoundaryInit,
     OnBoundaryNext, OnBoundaryImplies, PTL DEF Spec

-----------------------------------------------------------------------------
(***************************************************************************)
(* The converse: as long as the pointer has not passed the end, the bytes  *)
(* before it have been cut into 2- and 4-byte units.                       *)
(***************************************************************************)
ParsedSoFar ==
  Loaded /\ pos <= shdrTextSize => Parses(instBuffer, pos, {2, 4})

LEMMA ParseGrows ==
  ASSUME NEW t, NEW n \in Nat, NEW len \in {2, 4}, inst_length(t[n]) = len,
         Parses(t, n, {2, 4})
  PROVE  Parses(t, n + len, {2, 4})
<1>1. PICK B \in SUBSET (0 .. n) : IsParse(B, t, n, {2, 4})
  BY DEF Parses
<1> DEFINE C == B \cup {n + len}
<1>2. C \in SUBSET (0 .. n + len) /\ 0 \in C /\ n + len \in C
  BY <1>1 DEF IsParse
<1>3. ASSUME NEW b \in C \ {n + len}
      PROVE  inst_length(t[b]) \in {2, 4} /\ b + inst_length(t[b]) \in C
  BY <1>1, <1>3 DEF IsParse
<1>4. IsParse(C, t, n + len, {2, 4})
  BY <1>2, <1>3 DEF IsParse
<1> QED
  BY <1>2, <1>4 DEF Parses

LEMMA ParsedSoFarInit == Init => ParsedSoFar
BY DEF Init, ParsedSoFar, Loaded

LEMMA ParsedSoFarNext ==
  TypeInv /\ Progress /\ ParsedSoFar /\ [Next]_vars => ParsedSoFar'
<1> SUFFICES ASSUME TypeInv, Progress, ParsedSoFar, [Next]_vars
             PROVE  ParsedSoFar'
  OBVIOUS
<1>0. shdrTextSize \in Nat /\ pos \in Nat
  BY SweepAssumption DEF TypeInv, TypeOK, SweepAssumption
<1>1. CASE Open
  BY <1>1 DEF Progress, ParsedSoFar, Loaded, Open, globals
<1>2. CASE NoTextSection
  BY <1>2 DEF Progress, ParsedSoFar, Loaded, NoTextSection, globals, loaded
<1>3. CASE LoadText
  <2>1. pos' = 0
    BY <1>3 DEF Progress, LoadText
  <2>2. IsParse({0}, instBuffer', 0, {2, 4}) /\ {0} \in SUBSET (0 .. 0)
    BY DEF IsParse
  <2> QED
    BY <2>1, <2>2 DEF ParsedSoFar, Parses
<1>4. CASE LoadCrash
  BY <1>4 DEF Progress, ParsedSoFar, Loaded, LoadCrash, globals, loaded
<1>5. CASE Uncompressed \/ Compressed
  <2>1. at = "sweep" /\ pos # shdrTextSize /\ pos' \in {pos + 2, pos + 4} /\ shdrTextSize' = shdrTextSize
    BY <1>5 DEF Uncompressed, Compressed, Iterating, Emit, globals, loaded
  <2>2. CASE pos < shdrTextSize
    <3>1. /\ inst_length(instBuffer[pos]) \in {2, 4}
          /\ pos' = pos + inst_length(instBuffer[pos])
          /\ UNCHANGED instBuffer
      BY <1>5, <2>2, AdvanceByLength
    <3>2. Parses(instBuffer, pos, {2, 4})
      BY <1>0, <2>1, <2>2 DEF ParsedSoFar, Loaded
    <3>3. Parses(instBuffer, pos', {2, 4})
      BY <1>0, <3>1, <3>2, ParseGrows
    <3> QED
      BY <3>1, <3>3 DEF ParsedSoFar
  <2>3. CASE ~(pos < shdrTextSize)
    BY <1>0, <2>1, <2>3 DEF ParsedSoFar
  <2> QED
    BY <2>2, <2>3
<1>6. CASE Unsupported
  BY <1>6 DEF ParsedSoFar, Loaded, Unsupported, Iterating, globals, loaded
<1>7. CASE Segfault
  BY <1>7 DEF ParsedSoFar, Loaded, Segfault, globals, loaded
<1>8. CASE Finish
  BY <1>8 DEF ParsedSoFar, Loaded, Finish, globals
<1>9. CASE UNCHANGED vars
  BY <1>9 DEF ParsedSoFar, Loaded, vars, globals, loaded
<1> QED
  BY <1>1, <1>2, <1>3, <1>4, <1>5, <1>6, <1>7, <1>8, <1>9 DEF Next

(***************************************************************************)
(* The loop stops on the end pointer only if the buffer is a chain of 2-   *)
(* and 4-byte units: with SweepNeverStrays, exactly those sections are     *)
(* listed to their end.                                                    *)
(***************************************************************************)
THEOREM SweepReturnsOnlyIfParsed == Spec => []ReturnsOnlyIfParsed
<1>1. TypeInv /\ Progress /\ ParsedSoFar => ReturnsOnlyIfParsed
  <2> SUFFICES ASSUME TypeInv, Progress, ParsedSoFar, fileHandle = "closed"
               PROVE  WellFormed(instBuffer, shdrTextSize)
    BY DEF ReturnsOnlyIfParsed
  <2>1. pos = shdrTextSize /\ shdrTextSize \in Nat
    BY SweepAssumption DEF Progress, TypeInv, TypeOK, SweepAssumption
  <2> QED
    BY <2>1 DEF ParsedSoFar, Loaded, WellFormed
<1> QED
  BY <1>1, TypeInvInit, TypeInvNext, ProgressInit, ProgressNext,
     ParsedSoFarInit, ParsedSoFarNext, PTL DEF Spec

-----------------------------------------------------------------------------
(***************************************************************************)
(* What appending a line does to Base and Consecutive.                     *)
(***************************************************************************)
LEMMA PrintedLines ==
  ASSUME TypeInv, Consecutive, NEW inst, NEW len \in {2, 4}, Emit(inst, len)
  PROVE  /\ Len(lines') = Len(lines) + 1
         /\ \A i \in 1 .. Len(lines) : lines'[i] = lines[i]
         /\ lines'[Len(lines) + 1] = Line(inst, len)
         /\ Base' = Base
         /\ Base \in Nat
<1>1. lines \in Seq(LineSet) /\ shdrTextOff \in Nat /\ Len(lines) \in Nat
  BY DEF TypeInv, TypeOK
<1>2. /\ Len(lines') = Len(lines) + 1
      /\ \A i \in 1 .. Len(lines) : lines'[i] = lines[i]
      /\ lines'[Len(lines) + 1] = Line(inst, len)
  BY <1>1 DEF Emit
<1>3. CASE lines = << >>
  <2>1. lines' # << >> /\ lines'[1] = Line(inst, len)
    BY <1>2, <1>3
  <2> QED
    BY <1>1, <1>2, <1>3, <2>1 DEF Base, Line
<1>4. CASE lines # << >>
  <2>1. Len(lines) >= 1 /\ lines' # << >> /\ lines[1] \in LineSet
    BY <1>1, <1>2, <1>4
  <2>2. lines'[1] = lines[1]
    BY <1>1, <1>2, <2>1
  <2> QED
    BY <1>2, <1>4, <2>1, <2>2 DEF Base, LineSet
<1> QED
  BY <1>3, <1>4

LEMMA PrintKeepsConsecutive ==
  ASSUME TypeInv, Consecutive, NEW inst, NEW len \in {2, 4}, Emit(inst, len)
  PROVE  Consecutive'
<1>1. Len(lines) \in Nat /\ pos \in Nat /\ shdrTextOff \in Nat
  BY DEF TypeInv, TypeOK
<1>2. pos' = pos + len /\ shdrTextOff' = shdrTextOff + len
  BY DEF Emit
<1>p. /\ Len(lines') = Len(lines) + 1
      /\ \A i \in 1 .. Len(lines) : lines'[i] = lines[i]
      /\ lines'[Len(lines) + 1] = Line(inst, len)
      /\ Base' = Base /\ Base \in Nat
  BY PrintedLines
<1>q. lines'[Len(lines) + 1].pc = shdrTextOff /\ lines'[Len(lines) + 1].len = len
  BY <1>p DEF Line
<1>0. shdrTextOff = Base + pos
  BY DEF Consecutive
<1>3. shdrTextOff' = Base' + pos'
  BY <1>0, <1>1, <1>2, <1>p
<1>4. ASSUME NEW i \in 1 .. Len(lines')
      PROVE  lines'[i].pc + lines'[i].len =
               IF i = Len(lines') THEN shdrTextOff' ELSE lines'[i + 1].pc
  <2>1. CASE i = Len(lines) + 1
    BY <1>1, <1>2, <1>p, <1>q, <2>1
  <2>2. CASE i = Len(lines) /\ i >= 1
    <3>1. lines'[i] = lines[i] /\ i # Len(lines') /\ i + 1 = Len(lines) + 1
      BY <1>1, <1>p, <2>2
    <3>2. lines[i].pc + lines[i].len = shdrTextOff
      BY <1>1, <2>2 DEF Consecutive
    <3> QED
      BY <1>q, <3>1, <3>2
  <2>3. CASE i \in 1 .. Len(lines) - 1
    <3>1. i \in 1 .. Len(lines) /\ i + 1 \in 1 .. Len(lines) /\ i # Len(lines)
      BY <1>1, <2>3
    <3>2. lines'[i] = lines[i] /\ lines'[i + 1] = lines[i + 1] /\ i # Len(lines')
      BY <1>1, <1>p, <3>1
    <3> QED
      BY <3>1, <3>2 DEF Consecutive
  <2> QED
    BY <1>1, <1>p, <2>1, <2>2, <2>3
<1> QED
  BY <1>3, <1>4 DEF Consecutive

LEMMA ConsecutiveInit == TypeInv /\ Init => Consecutive
BY DEF TypeInv, TypeOK, Init, Consecutive, Base

LEMMA ConsecutiveNext == TypeInv /\ Consecutive /\ [Next]_vars => Consecutive'
<1> SUFFICES ASSUME TypeInv, Consecutive, [Next]_vars
             PROVE  Consecutive'
  OBVIOUS
<1>1. ASSUME UNCHANGED <<shdrTextOff, pos, lines>>
      PROVE  Consecutive'
  BY <1>1 DEF Consecutive, Base
<1>2. CASE Uncompressed \/ Compressed
  BY <1>2, PrintKeepsConsecutive DEF Uncompressed, Compressed
<1>3. CASE ~(Uncompressed \/ Compressed)
  BY <1>1, <1>3 DEF Next, Open, NoTextSection, LoadText, LoadCrash, Unsupported,
                    Segfault, Finish, vars
<1> QED
  BY <1>2, <1>3

(***************************************************************************)
(* The printed addresses never drift from the walking pointer, whatever    *)
(* the section holds.                                                      *)
(***************************************************************************)
THEOREM AddressesConsecutive == Spec => []Consecutive
<1> QED
  BY TypeInvInit, TypeInvNext, ConsecutiveInit, ConsecutiveNext, PTL DEF Spec

-----------------------------------------------------------------------------
(***************************************************************************)
(* What fread delivered is the front of the section, in order; the words   *)
(* of the listed units that lie in it are the file's.                      *)
(***************************************************************************)
FrontFromFile == Loaded => \A o \in 0 .. got - 1 : instBuffer[o] = text[o]

LEMMA FrontFromFileInit == Init => FrontFromFile
BY DEF Init, FrontFromFile, Loaded

LEMMA FrontFromFileNext ==
  TypeInv /\ Progress /\ FrontFromFile /\ [Next]_vars => FrontFromFile'
<1> SUFFICES ASSUME TypeInv, Progress, FrontFromFile, [Next]_vars
             PROVE  FrontFromFile'
  OBVIOUS
<1>1. CASE LoadText
  <2>1. shdrTextSize \in Nat
    BY SweepAssumption DEF TypeInv, TypeOK, SweepAssumption
  <2>2. got' \in 0 .. shdrTextSize
    BY <1>1, <2>1 DEF LoadText
  <2> QED
    BY <1>1, <2>1, <2>2 DEF FrontFromFile, LoadText, globals
<1>2. CASE Open \/ NoTextSection \/ LoadCrash
  BY <1>2 DEF Open, NoTextSection, LoadCrash, Progress, FrontFromFile, Loaded, globals, loaded
<1>3. CASE Uncompressed \/ Compressed \/ Unsupported
  BY <1>3 DEF Uncompressed, Compressed, Unsupported, Iterating, Emit,
              FrontFromFile, Loaded, globals, loaded
<1>4. CASE Segfault \/ Finish
  BY <1>4 DEF Segfault, Finish, FrontFromFile, Loaded, globals, loaded
<1>5. CASE UNCHANGED vars
  BY <1>5 DEF FrontFromFile, Loaded, vars
<1> QED
  BY <1>1, <1>2, <1>3, <1>4, <1>5 DEF Next

(***************************************************************************)
(* Only the bytes at 0 .. len - 1 enter a word.                            *)
(***************************************************************************)
LEMMA WordsOfEqualBytes ==
  ASSUME NEW b, NEW c
  PROVE  /\ (b[0] = c[0] /\ b[1] = c[1]) => get2(b) = get2(c)
         /\ (\A k \in 0 .. 3 : b[k] = c[k]) => get4(b) = get4(c)
BY DEF get2, get4, int8

LEMMA FetchedFromFile ==
  ASSUME TypeInv, FrontFromFile, at = "sweep",
         NEW len \in {2, 4}, NEW heap, pos + len <= got
  PROVE  (IF len = 2 THEN get2(Fetch(pos, len, heap)) ELSE get4(Fetch(pos, len, heap)))
           = WordOf(pos, len)
<1>0. shdrTextSize \in Nat /\ pos \in Nat /\ got \in 0 .. shdrTextSize
  BY SweepAssumption DEF TypeInv, TypeOK, SweepAssumption
<1> DEFINE b == Fetch(pos, len, heap)
           c == [k \in 0 .. len - 1 |-> text[pos + k]]
<1>1. ASSUME NEW k \in 0 .. len - 1
      PROVE  b[k] = c[k]
  <2>1. pos + k \in 0 .. got - 1 /\ pos + k < shdrTextSize
    BY <1>0
  <2>2. instBuffer[pos + k] = text[pos + k]
    BY <2>1 DEF FrontFromFile, Loaded
  <2> QED
    BY <2>1, <2>2 DEF Fetch
<1> HIDE DEF b, c
<1>2. CASE len = 2
  <2>1. b[0] = c[0] /\ b[1] = c[1]
    BY <1>1, <1>2
  <2>2. get2(b) = get2(c)
    BY <2>1, WordsOfEqualBytes
  <2> QED
    BY <1>2, <2>2 DEF b, c, WordOf
<1>3. CASE len = 4
  <2>1. \A k \in 0 .. 3 : b[k] = c[k]
    BY <1>1, <1>3
  <2>2. get4(b) = get4(c)
    BY <2>1, WordsOfEqualBytes
  <2> QED
    BY <1>3, <2>2 DEF b, c, WordOf
<1> QED
  BY <1>2, <1>3

LEMMA PrintKeepsWords ==
  ASSUME TypeInv, Consecutive, WordsFromFile, NEW inst, NEW len \in {2, 4},
         Emit(inst, len), pos + len <= got => inst = WordOf(pos, len)
  PROVE  WordsFromFile'
<1>0. Len(lines) \in Nat /\ pos \in Nat /\ shdrTextOff = Base + pos
  BY DEF TypeInv, TypeOK, Consecutive
<1>p. /\ Len(lines') = Len(lines) + 1
      /\ \A i \in 1 .. Len(lines) : lines'[i] = lines[i]
      /\ lines'[Len(lines) + 1] = Line(inst, len)
      /\ Base' = Base /\ Base \in Nat
  BY PrintedLines
<1>1. got' = got /\ text' = text /\ Base' = Base
  BY <1>p DEF Emit, globals, loaded
<1> SUFFICES ASSUME NEW i \in 1 .. Len(lines'),
                    (lines'[i].pc - Base) + lines'[i].len <= got
             PROVE  lines'[i].inst = WordOf(lines'[i].pc - Base, lines'[i].len)
  BY <1>1 DEF WordsFromFile, WordOf
<1>2. CASE i = Len(lines) + 1
  <2>1. lines'[i] = Line(inst, len)
    BY <1>2, <1>p
  <2>2. lines'[i].pc = shdrTextOff /\ lines'[i].len = len /\ lines'[i].inst = inst
    BY <2>1 DEF Line
  <2>3. lines'[i].pc - Base = pos
    BY <1>0, <1>p, <2>2
  <2> QED
    BY <2>2, <2>3
<1>3. CASE i \in 1 .. Len(lines)
  BY <1>3, <1>p DEF WordsFromFile
<1> QED
  BY <1>0, <1>2, <1>3, <1>p

LEMMA WordsFromFileNext ==
  TypeInv /\ Progress /\ Consecutive /\ FrontFromFile /\ WordsFromFile /\ [Next]_vars
    => WordsFromFile'
<1> SUFFICES ASSUME TypeInv, Progress, Consecutive, FrontFromFile, WordsFromFile, [Next]_vars
             PROVE  WordsFromFile'
  OBVIOUS
<1>1. CASE Uncompressed
  <2>1. PICK heap \in [Behind(pos, 4) -> Units] : Emit(get4(Fetch(pos, 4, heap)), 4)
    BY <1>1 DEF Uncompressed
  <2>2. pos + 4 <= got => get4(Fetch(pos, 4, heap)) = WordOf(pos, 4)
    BY <1>1, FetchedFromFile DEF Uncompressed, Iterating
  <2> QED
    BY <2>1, <2>2, PrintKeepsWords
<1>2. CASE Compressed
  <2>1. PICK heap \in [Behind(pos, 4) -> Units] : Emit(get2(Fetch(pos, 2, heap)), 2)
    BY <1>2 DEF Compressed
  <2>2. pos + 2 <= got => get2(Fetch(pos, 2, heap)) = WordOf(pos, 2)
    BY <1>2, FetchedFromFile DEF Compressed, Iterating
  <2> QED
    BY <2>1, <2>2, PrintKeepsWords
<1>3. CASE UNCHANGED <<lines, got, text, shdrTextOff>>
  BY <1>3 DEF WordsFromFile, WordOf, Base
<1>4. CASE LoadText
  <2>1. lines' = << >>
    BY <1>4 DEF LoadText, Progress
  <2> QED
    BY <2>1 DEF WordsFromFile
<1> QED
  BY <1>1, <1>2, <1>3, <1>4 DEF Next, Open, NoTextSection, LoadCrash, Unsupported,
     Segfault, Finish, vars, globals, loaded

LEMMA WordsFromFileInit == Init => WordsFromFile
BY DEF Init, WordsFromFile

(***************************************************************************)
(* Whatever follows the buffer in memory and however much of the section   *)
(* the file holds, a unit whose bytes were all read shows the file's bytes.*)
(***************************************************************************)
THEOREM ListedWordsFromFile == Spec => []WordsFromFile
<1> QED
  BY TypeInvInit, TypeInvNext, ProgressInit, ProgressNext, ConsecutiveInit,
     ConsecutiveNext, FrontFromFileInit, FrontFromFileNext, WordsFromFileInit,
     WordsFromFileNext, PTL DEF Spec

-----------------------------------------------------------------------------
(***************************************************************************)
(* Where a line says it starts, a unit of its length starts in the file.   *)
(***************************************************************************)
UnitsListed ==
  \A i \in 1 .. Len(lines) :
    LET o == lines[i].pc - Base
    IN  /\ o \in Nat /\ o + lines[i].len <= pos
        /\ o + lines[i].len <= got => lines[i].len = inst_length(text[o])

LEMMA UnitsListedInit == Init => UnitsListed
BY DEF Init, UnitsListed

LEMMA PrintKeepsUnits ==
  ASSUME TypeInv, Consecutive, UnitsListed, NEW inst, NEW len \in {2, 4},
         Emit(inst, len), pos + len <= got => len = inst_length(text[pos])
  PROVE  UnitsListed'
<1>0. Len(lines) \in Nat /\ pos \in Nat /\ shdrTextOff = Base + pos /\ pos' = pos + len
  BY DEF TypeInv, TypeOK, Consecutive, Emit
<1>p. /\ Len(lines') = Len(lines) + 1
      /\ \A i \in 1 .. Len(lines) : lines'[i] = lines[i]
      /\ lines'[Len(lines) + 1] = Line(inst, len)
      /\ Base' = Base /\ Base \in Nat
  BY PrintedLines
<1>1. got' = got /\ text' = text /\ Base' = Base
  BY <1>p DEF Emit, globals, loaded
<1>2. ASSUME NEW i \in 1 .. Len(lines')
      PROVE  LET o == lines'[i].pc - Base
             IN  /\ o \in Nat /\ o + lines'[i].len <= pos'
                 /\ o + lines'[i].len <= got => lines'[i].len = inst_length(text[o])
  <2>1. CASE i = Len(lines) + 1
    <3>1. lines'[i].pc = shdrTextOff /\ lines'[i].len = len
      BY <2>1, <1>p DEF Line
    <3>2. lines'[i].pc - Base = pos
      BY <1>0, <1>p, <3>1
    <3> QED
      BY <1>0, <3>1, <3>2
  <2>2. CASE i \in 1 .. Len(lines)
    <3>1. lines'[i] = lines[i] /\ lines[i].len \in {2, 4} /\ lines[i].pc \in Nat
      <4>1. lines \in Seq(LineSet)
        BY DEF TypeInv, TypeOK
      <4>2. lines[i] \in LineSet
        BY <2>2, <4>1
      <4> QED
        BY <2>2, <1>p, <4>2 DEF LineSet
    <3> DEFINE o == lines[i].pc - Base
    <3>2. /\ o \in Nat /\ o + lines[i].len <= pos
          /\ o + lines[i].len <= got => lines[i].len = inst_length(text[o])
      BY <2>2 DEF UnitsListed
    <3>3. lines'[i].pc - Base = o /\ lines'[i].len = lines[i].len
      BY <3>1
    <3> HIDE DEF o
    <3>4. o + lines[i].len <= pos'
      BY <1>0, <3>1, <3>2
    <3> QED
      BY <3>2, <3>3, <3>4
  <2> QED
    BY <1>0, <1>p, <2>1, <2>2
<1> QED
  BY <1>1, <1>2 DEF UnitsListed

LEMMA UnitsListedNext ==
  TypeInv /\ Progress /\ Consecutive /\ FrontFromFile /\ UnitsListed /\ [Next]_vars
    => UnitsListed'
<1> SUFFICES ASSUME TypeInv, Progress, Consecutive, FrontFromFile, UnitsListed, [Next]_vars
             PROVE  UnitsListed'
  OBVIOUS
<1>0. shdrTextSize \in Nat /\ pos \in Nat /\ got \in 0 .. shdrTextSize
  BY SweepAssumption DEF TypeInv, TypeOK, SweepAssumption
<1>1. CASE Uncompressed \/ Compressed
  <2>0. PICK len \in {2, 4} : \E inst : Emit(inst, len)
    BY <1>1 DEF Uncompressed, Compressed
  <2>1. PICK inst : Emit(inst, len)
    BY <2>0
  <2>2. ASSUME pos + len <= got
        PROVE  len = inst_length(text[pos])
    <3>1. pos < shdrTextSize /\ pos \in 0 .. got - 1
      BY <1>0, <2>2
    <3>2. pos' = pos + inst_length(instBuffer[pos]) /\ inst_length(instBuffer[pos]) \in {2, 4}
      BY <1>1, <3>1, AdvanceByLength
    <3>3. pos' = pos + len
      BY <2>1 DEF Emit
    <3>4. at = "sweep"
      BY <1>1 DEF Uncompressed, Compressed, Iterating
    <3>5. instBuffer[pos] = text[pos]
      BY <3>1, <3>4 DEF FrontFromFile, Loaded
    <3> QED
      BY <1>0, <3>2, <3>3, <3>5
  <2> QED
    BY <2>1, <2>2, PrintKeepsUnits
<1>2. CASE UNCHANGED <<lines, got, text, shdrTextOff, pos>>
  BY <1>2 DEF UnitsListed, Base
<1>3. CASE LoadText
  <2>1. lines' = << >>
    BY <1>3 DEF LoadText, Progress
  <2> QED
    BY <2>1 DEF UnitsListed
<1> QED
  BY <1>1, <1>2, <1>3 DEF Next, Open, NoTextSection, LoadCrash, Unsupported,
     Segfault, Finish, vars, globals, loaded

-----------------------------------------------------------------------------
(***************************************************************************)
(* The sweep of a well-formed section that the file holds as a whole       *)
(* implements the abstract listing, for every such section.                *)
(***************************************************************************)
(* What is assumed of the file: the section is a chain of 2- and 4-byte    *)
(* units, and the file does not end within it.                             *)
WholeSections == WellFormedOnly /\ ~Truncated

(***************************************************************************)
(* The section stays what it was, and what was loaded is all of it.        *)
(***************************************************************************)
SectionLoaded ==
  /\ text \in [0 .. shdrTextSize - 1 -> Units]
  /\ WellFormed(text, shdrTextSize)
  /\ Loaded => got = shdrTextSize

ListingInv ==
  TypeInv /\ Progress /\ OnBoundary /\ Consecutive /\ FrontFromFile /\ SectionLoaded

LEMMA SectionLoadedNext ==
  ASSUME WholeSections, TypeInv, Progress, SectionLoaded, [Next]_vars
  PROVE  SectionLoaded'
<1>1. text' = text /\ shdrTextSize' = shdrTextSize
  BY DEF Next, Open, NoTextSection, LoadText, LoadCrash, Uncompressed, Compressed, Emit,
         Unsupported, Segfault, Finish, vars, globals
<1>2. CASE LoadText
  BY <1>1, <1>2 DEF SectionLoaded, LoadText, WholeSections
<1>3. CASE Open \/ NoTextSection \/ LoadCrash
  BY <1>1, <1>3 DEF SectionLoaded, Loaded, Progress, Open, NoTextSection, LoadCrash, loaded
<1>4. CASE Uncompressed \/ Compressed \/ Unsupported
  BY <1>1, <1>4 DEF SectionLoaded, Loaded, Uncompressed, Compressed, Unsupported, Iterating, Emit, loaded
<1>5. CASE Segfault \/ Finish
  BY <1>1, <1>5 DEF SectionLoaded, Loaded, Segfault, Finish, loaded
<1>6. CASE UNCHANGED vars
  BY <1>1, <1>6 DEF SectionLoaded, Loaded, vars
<1> QED
  BY <1>2, <1>3, <1>4, <1>5, <1>6 DEF Next

LEMMA ListingInvInit ==
  ASSUME WholeSections, Init
  PROVE  ListingInv
<1>1. TypeInv /\ Progress /\ OnBoundary /\ FrontFromFile
  BY TypeInvInit, ProgressInit, OnBoundaryInit, FrontFromFileInit
<1>2. Consecutive
  BY <1>1, ConsecutiveInit
<1>3. SectionLoaded
  BY DEF Init, SectionLoaded, Loaded, WholeSections
<1> QED
  BY <1>1, <1>2, <1>3 DEF ListingInv

LEMMA ListingInvNext ==
  ASSUME WholeSections, ListingInv, [Next]_vars
  PROVE  ListingInv'
BY TypeInvNext, ProgressNext, OnBoundaryNext, ConsecutiveNext, FrontFromFileNext, SectionLoadedNext
   DEF ListingInv

-----------------------------------------------------------------------------
(* The loaded buffer is the section, and is well-formed.                   *)
LEMMA BufferIsSection ==
  ASSUME ListingInv, Loaded
  PROVE  /\ \A o \in 0 .. shdrTextSize - 1 : instBuffer[o] = text[o]
         /\ WellFormedBuffer
<1>1. \A o \in 0 .. shdrTextSize - 1 : instBuffer[o] = text[o]
  BY DEF ListingInv, SectionLoaded, FrontFromFile
<1>2. shdrTextSize \in Nat
  BY SweepAssumption DEF ListingInv, TypeInv, TypeOK, SweepAssumption
<1>3. PICK B \in SUBSET (0 .. shdrTextSize) : IsParse(B, text, shdrTextSize, {2, 4})
  BY DEF ListingInv, SectionLoaded, WellFormed, Parses
<1>4. \A b \in B \ {shdrTextSize} : instBuffer[b] = text[b]
  <2>1. \A b \in B \ {shdrTextSize} : b \in 0 .. shdrTextSize - 1
    BY <1>2, <1>3
  <2> QED
    BY <1>1, <2>1
<1>5. IsParse(B, instBuffer, shdrTextSize, {2, 4})
  BY <1>3, <1>4 DEF IsParse
<1> QED
  BY <1>1, <1>5 DEF WellFormedBuffer, WellFormed, Parses

(* The abstract listing has got as far as the pointer.                     *)
LEMMA CoveredIsPos ==
  ASSUME ListingInv
  PROVE  Abstract!Covered = pos
<1>1. lines \in Seq(LineSet) /\ pos \in Nat /\ shdrTextOff \in Nat /\ Len(lines) \in Nat
  BY DEF ListingInv, TypeInv, TypeOK
<1>2. shdrTextOff = Base + pos
  BY DEF ListingInv, Consecutive
<1>3. CASE lines = << >>
  <2>1. Listing = << >> /\ pos = 0
    BY <1>1, <1>2, <1>3 DEF Listing, Base
  <2> QED
    BY <2>1 DEF Abstract!Covered
<1>4. CASE lines # << >>
  <2>1. Len(lines) >= 1 /\ lines[1] \in LineSet
    BY <1>1, <1>4
  <2>2. Base \in Nat
    BY <1>4, <2>1 DEF Base, LineSet
  <2>3. Listing \in Seq({Listing[i] : i \in 1 .. Len(lines)}) /\ Len(Listing) = Len(lines)
    BY <1>1 DEF Listing
  <2>4. Listing # << >>
    BY <1>1, <2>1, <2>3
  <2>5. lines[Len(lines)] \in LineSet
    BY <1>1, <2>1
  <2>6. lines[Len(lines)].pc + lines[Len(lines)].len = shdrTextOff
    BY <1>1, <2>1 DEF ListingInv, Consecutive
  <2>7. /\ Listing[Len(Listing)].pc = lines[Len(lines)].pc
        /\ Listing[Len(Listing)].len = lines[Len(lines)].len
    BY <1>1, <2>1, <2>3 DEF Listing
  <2>8. Abstract!Covered = Listing[Len(Listing)].pc - Base + Listing[Len(Listing)].len
    BY <2>4 DEF Abstract!Covered
  <2>9. lines[Len(lines)].pc \in Nat /\ lines[Len(lines)].len \in Nat
    BY <2>5 DEF LineSet
  <2>10. Abstract!Covered = lines[Len(lines)].pc - Base + lines[Len(lines)].len
    BY <2>7, <2>8
  <2>11. ASSUME NEW p \in Nat, NEW l \in Nat, NEW b \in Nat, p + l = b + pos
         PROVE  p - b + l = pos
    BY <1>1, <2>11
  <2> QED
    BY <1>2, <2>2, <2>6, <2>9, <2>10, <2>11
<1> QED
  BY <1>3, <1>4

(* The abstract specification reads words as the sweep does.               *)
LEMMA SameReading ==
  ASSUME NEW b
  PROVE  /\ Abstract!inst_length(b) = inst_length(b)
         /\ Abstract!get2(b) = get2(b)
         /\ Abstract!get4(b) = get4(b)
BY DEF Abstract!inst_length, inst_length, Abstract!get2, get2, Abstract!get4, get4,
       Abstract!int8, int8

(* A printed line is one more unit of the abstract listing.                *)
LEMMA PrintedIsListed ==
  ASSUME ListingInv, NEW inst, NEW len \in {2, 4}, Emit(inst, len),
         at = "sweep", pos < shdrTextSize,
         inst_length(text[pos]) = len, pos + len <= shdrTextSize,
         inst = WordOf(pos, len)
  PROVE  Abstract!ListUnit
<1>1. lines \in Seq(LineSet) /\ Len(lines) \in Nat /\ pos \in Nat /\ shdrTextSize \in Nat
  BY SweepAssumption DEF ListingInv, TypeInv, TypeOK, SweepAssumption
<1>2. /\ Len(lines') = Len(lines) + 1
      /\ \A i \in 1 .. Len(lines) : lines'[i] = lines[i]
      /\ lines'[Len(lines) + 1] = Line(inst, len)
      /\ Base' = Base /\ Base \in Nat
  BY PrintedLines DEF ListingInv
<1>3. shdrTextOff = Base + pos
  BY DEF ListingInv, Consecutive
<1> DEFINE u == [pc |-> Base + pos, len |-> len, inst |-> inst]
<1>4. Abstract!UnitAt(pos) = u
  <2>1. Abstract!inst_length(text[pos]) = len
    BY SameReading
  <2>2. Abstract!UnitAt(pos) =
          [pc |-> Base + pos, len |-> len,
           inst |-> IF len = 2 THEN Abstract!get2([k \in 0 .. len - 1 |-> text[pos + k]])
                    ELSE Abstract!get4([k \in 0 .. len - 1 |-> text[pos + k]])]
    BY <2>1 DEF Abstract!UnitAt
  <2> QED
    BY <2>2, SameReading DEF WordOf
<1>5. Len(Listing) = Len(lines) /\ \A i \in 1 .. Len(lines) :
        Listing[i] = [pc |-> lines[i].pc, len |-> lines[i].len, inst |-> lines[i].inst]
  BY <1>1 DEF Listing
<1>6. Listing' = [i \in 1 .. Len(lines) + 1 |->
                    [pc |-> lines'[i].pc, len |-> lines'[i].len, inst |-> lines'[i].inst]]
  BY <1>2 DEF Listing
<1>7. \A i \in 1 .. Len(lines) + 1 :
        [pc |-> lines'[i].pc, len |-> lines'[i].len, inst |-> lines'[i].inst]
          = IF i <= Len(lines) THEN Listing[i] ELSE u
  BY <1>1, <1>2, <1>3, <1>5 DEF Line
<1>8. Listing' = [i \in 1 .. Len(lines) + 1 |-> IF i <= Len(lines) THEN Listing[i] ELSE u]
  BY <1>6, <1>7
<1>9. Listing' = Append(Listing, u)
  BY <1>1, <1>5, <1>8
<1>10. Stage = "listing" /\ Stage' = Stage /\ text' = text /\ shdrTextSize' = shdrTextSize
  BY DEF Emit, Stage, globals
<1>11. Abstract!Covered = pos
  BY CoveredIsPos
<1>12. Abstract!inst_length(text[pos]) = len
  BY SameReading
<1> QED
  BY <1>1, <1>2, <1>4, <1>9, <1>10, <1>11, <1>12 DEF Abstract!ListUnit

(***************************************************************************)
(* Both branches of the loop that print list the unit at the pointer: on   *)
(* such a section it has one of the two lengths and lies within the        *)
(* section, and its bytes were all delivered by fread.                     *)
(***************************************************************************)
LEMMA LoopListsUnit ==
  ASSUME WholeSections, ListingInv, ListingInv', Uncompressed \/ Compressed
  PROVE  Abstract!ListUnit
<1>1. at = "sweep" /\ at' = at /\ pos # shdrTextSize
  BY DEF Uncompressed, Compressed, Iterating, Emit
<1>2. WellFormedBuffer /\ \A o \in 0 .. shdrTextSize - 1 : instBuffer[o] = text[o]
  BY <1>1, BufferIsSection DEF Loaded
<1>3. shdrTextSize \in Nat /\ pos \in Nat /\ pos' \in Nat
  BY SweepAssumption DEF ListingInv, TypeInv, TypeOK, SweepAssumption
<1>4. pos < shdrTextSize
  BY <1>1, <1>2, <1>3, OnBoundaryImplies DEF ListingInv, NeverStrays
<1>5. /\ inst_length(instBuffer[pos]) \in {2, 4}
      /\ pos' = pos + inst_length(instBuffer[pos])
      /\ UNCHANGED <<instBuffer, shdrTextSize, at, fileHandle>>
  BY <1>4, AdvanceByLength DEF ListingInv
<1>6. WellFormedBuffer'
  BY <1>1, <1>2, <1>5 DEF WellFormedBuffer, Loaded
<1>7. pos' <= shdrTextSize
  <2>1. NeverStrays'
    BY OnBoundaryImplies, PTL DEF ListingInv
  <2> QED
    BY <1>5, <1>6, <2>1 DEF NeverStrays
<1>8. inst_length(text[pos]) = inst_length(instBuffer[pos])
  BY <1>2, <1>3, <1>4
<1>9. got = shdrTextSize
  BY <1>1 DEF ListingInv, SectionLoaded, Loaded
<1>10. CASE Uncompressed
  <2>1. PICK heap : Emit(get4(Fetch(pos, 4, heap)), 4)
    BY <1>10 DEF Uncompressed
  <2>2. pos' = pos + 4
    BY <2>1 DEF Emit
  <2>3. inst_length(text[pos]) = 4 /\ pos + 4 <= got
    BY <1>3, <1>5, <1>7, <1>8, <1>9, <2>2
  <2>4. get4(Fetch(pos, 4, heap)) = WordOf(pos, 4)
    BY <1>1, <2>3, FetchedFromFile DEF ListingInv
  <2> QED
    BY <1>1, <1>4, <1>9, <2>1, <2>3, <2>4, PrintedIsListed
<1>11. CASE Compressed
  <2>1. PICK heap : Emit(get2(Fetch(pos, 2, heap)), 2)
    BY <1>11 DEF Compressed
  <2>2. pos' = pos + 2
    BY <2>1 DEF Emit
  <2>3. inst_length(text[pos]) = 2 /\ pos + 2 <= got
    BY <1>3, <1>5, <1>7, <1>8, <1>9, <2>2
  <2>4. get2(Fetch(pos, 2, heap)) = WordOf(pos, 2)
    BY <1>1, <2>3, FetchedFromFile DEF ListingInv
  <2> QED
    BY <1>1, <1>4, <1>9, <2>1, <2>3, <2>4, PrintedIsListed
<1> QED
  BY <1>10, <1>11

(* What the abstract specification sees of a step that prints nothing.     *)
LEMMA ListingUnchanged ==
  ASSUME UNCHANGED <<shdrTextOff, lines>>
  PROVE  Base' = Base /\ Listing' = Listing
BY DEF Base, Listing

(***************************************************************************)
(* Every step of the function is a step of the listing or leaves it as it  *)
(* is: fopen is invisible, the early return and the crash give up, reading *)
(* the section begins, each printed line lists a unit, closing ends.  The  *)
(* complaint and the segmentation fault do not occur.                      *)
(***************************************************************************)
LEMMA StepSimulated ==
  ASSUME WholeSections, ListingInv, ListingInv', [Next]_vars
  PROVE  [Abstract!Next]_(Abstract!vars)
<1> USE DEF Abstract!Next, Abstract!vars
<1>1. CASE Open \/ UNCHANGED vars
  <2>1. UNCHANGED <<shdrTextOff, lines, text, shdrTextSize>> /\ Stage' = Stage
    BY <1>1 DEF Open, vars, globals, Stage
  <2> QED
    BY <2>1, ListingUnchanged
<1>2. CASE NoTextSection \/ LoadCrash
  <2>1. /\ UNCHANGED <<shdrTextOff, lines, text, shdrTextSize>>
        /\ Stage = "idle" /\ Stage' \in {"done", "failed"}
    BY <1>2 DEF NoTextSection, LoadCrash, globals, Stage
  <2> QED
    BY <2>1, ListingUnchanged DEF Abstract!GiveUp
<1>3. CASE LoadText
  <2>1. /\ UNCHANGED <<shdrTextOff, lines, text, shdrTextSize>>
        /\ Stage = "idle" /\ Stage' = "listing"
    BY <1>3 DEF LoadText, globals, Stage
  <2> QED
    BY <2>1, ListingUnchanged DEF Abstract!Begin
<1>4. CASE Uncompressed \/ Compressed
  BY <1>4, LoopListsUnit
<1>5. CASE Unsupported
  <2>1. WellFormedBuffer'
    <3>1. Loaded'
      BY <1>5 DEF Unsupported, Iterating, Loaded
    <3> QED
      BY <3>1, BufferIsSection, PTL
  <2>2. complained'
    BY <1>5 DEF Unsupported
  <2>3. NeverStrays'
    BY OnBoundaryImplies, PTL DEF ListingInv
  <2> QED
    BY <2>1, <2>2, <2>3 DEF NeverStrays
<1>6. CASE Segfault
  <2>1. WellFormedBuffer
    BY <1>6, BufferIsSection DEF Segfault, Loaded
  <2>2. pos <= shdrTextSize
    BY <2>1, OnBoundaryImplies DEF ListingInv, NeverStrays
  <2>3. shdrTextSize \in Nat /\ pos \in Nat /\ Slack \in Nat
    BY SweepAssumption DEF ListingInv, TypeInv, TypeOK, SweepAssumption
  <2> QED
    BY <1>6, <2>2, <2>3 DEF Segfault
<1>7. CASE Finish
  <2>1. UNCHANGED <<shdrTextOff, lines, text, shdrTextSize>> /\ pos = shdrTextSize
    BY <1>7 DEF Finish, globals
  <2>2. Stage = "listing" /\ Stage' = "done"
    BY <1>7, Zenon DEF Finish, Stage
  <2> QED
    BY <2>1, <2>2, ListingUnchanged, CoveredIsPos DEF Abstract!End
<1> QED
  BY <1>1, <1>2, <1>3, <1>4, <1>5, <1>6, <1>7 DEF Next

-----------------------------------------------------------------------------
LEMMA AbstractInit ==
  ASSUME Init
  PROVE  Abstract!Init
<1>1. /\ shdrTextOff \in Nat /\ shdrTextSize \in Nat /\ Units \subseteq Byte
      /\ text \in [0 .. shdrTextSize - 1 -> Units]
      /\ at = "entry" /\ lines = << >>
  BY SweepAssumption DEF Init, SweepAssumption
<1>2. text \in [0 .. shdrTextSize - 1 -> Byte]
  BY <1>1
<1>3. Base \in Nat
  BY <1>1 DEF Base
<1>4. Listing = << >>
  BY <1>1 DEF Listing
<1>5. Stage = "idle"
  BY <1>1, Zenon DEF Stage
<1> QED
  BY <1>1, <1>2, <1>3, <1>4, <1>5 DEF Abstract!Init, Abstract!Byte, Byte

(***************************************************************************)
(* disassemble_text_section implements the abstract listing in its safety  *)
(* part: of every well-formed section that the file holds as a whole, of   *)
(* whatever size, what it lists at every moment is the section cut into    *)
(* its units from the first byte on, each once and with its own bytes, and *)
(* it returns after the last byte only.                                    *)
(***************************************************************************)
THEOREM SweepIsListing ==
  ASSUME WholeSections
  PROVE  Spec => Abstract!Init /\ [][Abstract!Next]_(Abstract!vars)
<1>1. Init => ListingInv /\ Abstract!Init
  BY ListingInvInit, AbstractInit
<1>2. ListingInv /\ [Next]_vars => ListingInv'
  BY ListingInvNext
<1>3. ListingInv /\ ListingInv' /\ [Next]_vars => [Abstract!Next]_(Abstract!vars)
  BY StepSimulated
<1> QED
  BY <1>1, <1>2, <1>3, PTL DEF Spec
=============================================================================
