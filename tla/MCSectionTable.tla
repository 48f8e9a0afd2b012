---------------------------- MODULE MCSectionTable ----------------------------
(***************************************************************************)
(* Small section tables.  The string table lies at 200, with its own name  *)
(* and ".text" in it; the file ends 230 bytes in.                          *)
(***************************************************************************)
EXTENDS SectionTable

Header(name, type, flags, offset, size) ==
  [name |-> name, type |-> type, flags |-> flags, offset |-> offset, size |-> size]

Strings == Header(1, 3, {}, 200, 30)
Text    == Header(11, 1, {1, 2}, 64, 8)

(* Another section of that name, of an unlisted type; one of its flags has *)
(* no letter.                                                              *)
Text2   == Header(11, 14, {0, 1, 21}, 80, 12)

ThreeHeaders == {Strings, Text, Text2}

InFile == [o \in 0 .. 229 |-> IF o = 211 THEN ".text" ELSE "other"]
=============================================================================
