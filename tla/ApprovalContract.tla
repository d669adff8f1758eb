-------------------------- MODULE ApprovalContract --------------------------
(***************************************************************************)
(* What the approval workflow promises, without hooks, rows or handlers:   *)
(* a report has a list of approvers, every user has at most one standing   *)
(* ballot, and the status shown of a submitted report is the outcome of    *)
(* the ballots of the users listed.  A ballot is cast by its user alone;   *)
(* others can only take ballots back or, on unlocking, turn them all into  *)
(* requests for changes.                                                   *)
(***************************************************************************)
CONSTANTS
  Users,
  Submittable,    \* the lists of approvers a report may be submitted to
  KeepsRequests,  \* submitting to a new approver may leave requests standing
  DefersOutcome   \* submitting to the same approvers may show "submitted" first

VARIABLES
  stage,   \* where the author has taken the report
  listed,  \* the approvers asked
  ballot,  \* the standing ballot of every user, listed or not
  status   \* what is shown

cvars == <<stage, listed, ballot, status>>

Ballots == {"pending", "approved", "needs_action"}

Outcome(l, b) ==
  IF l # {} /\ \A u \in l : b[u] = "approved" THEN "approved"
  ELSE IF \E u \in l : b[u] = "needs_action" THEN "needs_action"
  ELSE "submitted"

Shown(s, l, b) == IF s = "submitted" THEN Outcome(l, b) ELSE s

CInit ==
  /\ stage = "none"
  /\ listed = {}
  /\ ballot = [u \in Users |-> "pending"]
  /\ status = "none"

Open == stage \in {"draft", "submitted"}

\* The status follows stage, list and ballots.
Follows == status' = Shown(stage', listed', ballot')

Create(l) ==
  /\ stage = "none"
  /\ stage' = "draft" /\ listed' = l
  /\ UNCHANGED ballot
  /\ Follows

EditApprovers(l) ==
  /\ Open /\ status # "approved"
  /\ listed' = l
  /\ UNCHANGED <<stage, ballot>>
  /\ Follows

\* Submitting settles the requests for changes of the approvers asked.
Submit(l) ==
  /\ Open /\ status # "approved" /\ l \in Submittable
  /\ stage' = "submitted" /\ listed' = l
  /\ \/ ballot' = [u \in Users |-> IF u \in l /\ ballot[u] = "needs_action"
                                   THEN "pending" ELSE ballot[u]]
     \/ KeepsRequests /\ ~(l \subseteq listed) /\ UNCHANGED ballot
  /\ \/ Follows
     \/ DefersOutcome /\ l = listed /\ status' = "submitted"

Cast(u, b) ==
  /\ Open /\ u \in listed
  /\ ballot' = [ballot EXCEPT ![u] = b]
  /\ UNCHANGED <<stage, listed>>
  /\ Follows

\* Back to draft, with the ballots kept or with those of the listed taken back.
Withdraw ==
  /\ Open
  /\ stage' = "draft"
  /\ \/ ballot' = [u \in Users |-> IF u \in listed THEN "pending" ELSE ballot[u]]
     \/ status = "submitted" /\ UNCHANGED ballot
  /\ UNCHANGED listed
  /\ Follows

Unlock ==
  /\ status = "approved"
  /\ ballot' = [u \in Users |-> IF u \in listed THEN "needs_action" ELSE ballot[u]]
  /\ UNCHANGED <<stage, listed>>
  /\ Follows

Delete ==
  /\ Open /\ status # "approved"
  /\ stage' = "deleted"
  /\ UNCHANGED <<listed, ballot>>
  /\ Follows

CNext ==
  \/ \E l \in SUBSET Users : Create(l) \/ EditApprovers(l) \/ Submit(l)
  \/ \E u \in Users : Cast(u, "approved") \/ Cast(u, "needs_action")
  \/ Withdraw \/ Unlock \/ Delete

ContractSpec == CInit /\ [][CNext]_cvars
=============================================================================
