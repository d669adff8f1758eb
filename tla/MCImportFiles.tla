--------------------------- MODULE MCImportFiles ---------------------------
(***************************************************************************)
(* Small instances of ImportFiles.                                         *)
(***************************************************************************)
EXTENDS ImportFiles

CONSTANTS d1, d2, p1
============================================================================
