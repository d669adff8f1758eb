-------------------------- MODULE MCActivityReport --------------------------
(***************************************************************************)
(* Small instances of ActivityReport.  author writes the report and may    *)
(* approve; lead may approve, be a collaborator, delete and unlock; a      *)
(* third user, manager, may only approve.                                  *)
(***************************************************************************)
EXTENDS ActivityReport

CONSTANTS author, lead, manager

MCTwo   == {author, lead}
MCThree == {author, lead, manager}
MCLeads == {lead}
=============================================================================
