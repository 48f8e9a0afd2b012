----------------------------- MODULE MCStringDump -----------------------------
(***************************************************************************)
(* Sections of up to five characters, NULs among them, and a limit of the  *)
(* index below, at and above their sizes.                                  *)
(***************************************************************************)
EXTENDS StringDump
=============================================================================
