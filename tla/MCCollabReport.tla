--------------------------- MODULE MCCollabReport ---------------------------
(***************************************************************************)
(* A small instance of CollabReport.  author writes the report and may     *)
(* approve; lead may approve, delete and unlock; specialist may write and  *)
(* be named as specialist, and cannot approve even when listed.            *)
(***************************************************************************)
EXTENDS CollabReport

CONSTANTS author, lead, specialist

MCUsers       == {author, lead, specialist}
MCWriters     == {author, specialist}
MCManagers    == {author, lead}
MCLeads       == {lead}
MCSpecialists == {specialist}
=============================================================================
