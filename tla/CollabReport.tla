---------------------------- MODULE CollabReport ----------------------------
(***************************************************************************)
(* The approval workflow of one collaboration report: the handlers of      *)
(* routes/collaborationReports/handlers.ts with the policy, services and   *)
(* hooks they call.  It grew out of the activity report's and shares its   *)
(* rules for the approvers' outcome (ReportHooks), but not its handlers:   *)
(* there is no way back to draft, submitting writes the calculated status  *)
(* itself, a submission may come without approvers, one that adds an       *)
(* approver keeps the requests for changes, and the hook of the approvers  *)
(* does look at the submission status.  A handler is one transaction and   *)
(* one step.                                                               *)
(***************************************************************************)
EXTENDS ReportHooks

CONSTANTS
  Author,         \* the user who creates the report
  Writers,        \* users with READ_WRITE_REPORTS in the report's region
  Managers,       \* users with APPROVE_REPORTS in the region
  Admins,         \* users with the ADMIN scope
  UnlockAdmins,   \* users with UNLOCK_APPROVED_REPORTS
  SpecialistPool  \* users that may be named as collaborating specialists

ASSUME CollabAssumption ==
  /\ Author \in Users
  /\ Writers \subseteq Users /\ Managers \subseteq Users
  /\ Admins \subseteq Users /\ UnlockAdmins \subseteq Users
  /\ SpecialistPool \subseteq Users

VARIABLES
  report,      \* the CollabReports row
  approvers,   \* its CollabReportApprovers rows, one per user
  specialists  \* the users of its CollabReportSpecialists rows

vars == <<report, approvers, specialists>>

\* complete says whether the fields validateSubmission requires are filled in;
\* a deleted report is a row with deletedAt, outside every query.
CollabReports == [submissionStatus : {NONE, DRAFT, SUBMITTED},
                  calculatedStatus : {NONE, DRAFT, SUBMITTED} \union Verdicts,
                  complete : BOOLEAN, deleted : BOOLEAN]

Init ==
  /\ report = [submissionStatus |-> NONE, calculatedStatus |-> NONE,
               complete |-> FALSE, deleted |-> FALSE]
  /\ approvers = [u \in Users |-> NoRow]
  /\ specialists = {}

Db == [report |-> report, approvers |-> approvers, ok |-> TRUE]

\* collabReportById
Found == report.submissionStatus # NONE /\ ~report.deleted

Commit(db) ==
  /\ db.ok
  /\ report' = db.report
  /\ approvers' = db.approvers

-----------------------------------------------------------------------------
\* hooks/collabReport.js and hooks/collabReportApprover.ts

\* report.update, with validateSubmission.
UpdateReport(db, new) ==
  [db EXCEPT !.report = new,
             !.ok = @ /\ (db.report.submissionStatus # SUBMITTED
                            /\ new.submissionStatus = SUBMITTED => new.complete)]

\* updateReportStatus: only a submitted report is found and recalculated.
Recalculate(db, own) ==
  LET calc      == CalculateReportStatus(own, db.approvers)
      approving == calc = APPROVED /\ db.report.calculatedStatus # APPROVED
  IN IF db.report.submissionStatus # SUBMITTED THEN db
     ELSE [db EXCEPT !.report.calculatedStatus = calc,
                     !.approvers = IF approving THEN ClearNotes(@) ELSE @]

\* Mutant: the hook of removed approvers is missing.
IgnoreRemoval(db) == db

\* afterDestroy
RecalculateAfterDestroy(db) ==
  IF db.report.submissionStatus # SUBMITTED THEN db
  ELSE [db EXCEPT
         !.report.calculatedStatus = CalculateReportStatusFromApprovals(db.approvers)]

\* CollabReportApprover.update with individual hooks.
SetStatuses(db, us, status) ==
  IF us = {} THEN db
  ELSE Recalculate([db EXCEPT !.approvers =
         [u \in Users |-> IF u \in us THEN [@[u] EXCEPT !.status = status] ELSE @[u]]],
         status)

-----------------------------------------------------------------------------
\* services/collabReportApprovers.ts: the phases of syncCRApprovers.

\* Mutant: every row of a removed approver goes for good.
RemoveForGood(db, ids) ==
  LET gone == Live(db.approvers) \ ids
  IN IF gone = {} THEN db
     ELSE RecalculateAfterDestroy([db EXCEPT !.approvers =
            [u \in Users |-> IF u \in gone THEN NoRow ELSE @[u]]])

RemoveUnlisted(db, ids) ==
  LET gone == Live(db.approvers) \ ids
      Removed(row) == IF row.status = PENDING /\ ~row.note
                      THEN NoRow ELSE [row EXCEPT !.state = "deleted"]
  IN IF gone = {} THEN db
     ELSE RecalculateAfterDestroy([db EXCEPT !.approvers =
            [u \in Users |-> IF u \in gone THEN Removed(@[u]) ELSE @[u]]])

\* upsertApprover: a deleted row is saved, with its hook, before its restoration.
UpsertListed(db, ids) ==
  LET a       == [u \in Users |-> IF u \in ids /\ db.approvers[u].state = "absent"
                                  THEN [NoRow EXCEPT !.state = "live"]
                                  ELSE db.approvers[u]]
      asking  == {u \in ids : a[u].state = "deleted" /\ a[u].status = NEEDS_ACTION}
      saved   == [db EXCEPT !.approvers = a]
      settled == IF ids \ asking = {} THEN saved ELSE Recalculate(saved, PENDING)
  IN IF asking = {} THEN settled ELSE Recalculate(settled, NEEDS_ACTION)

\* Mutant: the restoration of a row runs no hook.
RestoreQuietly(db, ids) ==
  [db EXCEPT !.approvers = [u \in Users |-> IF u \in ids /\ @[u].state = "deleted"
                                            THEN [@[u] EXCEPT !.state = "live"] ELSE @[u]]]

RestoreListed(db, ids) ==
  LET back == {u \in ids : db.approvers[u].state = "deleted"}
  IN IF back = {} THEN db
     ELSE Recalculate([db EXCEPT !.approvers =
            [u \in Users |-> IF u \in back THEN [@[u] EXCEPT !.state = "live"] ELSE @[u]]],
            PENDING)

SyncCRApprovers(db, ids) ==
  RestoreListed(UpsertListed(RemoveUnlisted(db, ids), ids), ids)

-----------------------------------------------------------------------------
\* policies/collabReport.js
IsAuthor(u)           == u = Author
IsCollaborator(u)     == u \in specialists
IsApprovingManager(u) == u \in Live(approvers)

CanReview(u) == IsApprovingManager(u) /\ u \in Managers

\* Mutant: the status is not looked at.
AlwaysEditable == TRUE

ReportHasEditableStatus ==
  \/ report.submissionStatus = DRAFT
  \/ report.calculatedStatus \in {DRAFT, NEEDS_ACTION}

CanUpdate(u) ==
  \/ (IsAuthor(u) \/ IsCollaborator(u)) /\ u \in Writers /\ ReportHasEditableStatus
  \/ CanReview(u) /\ report.calculatedStatus \in {SUBMITTED, NEEDS_ACTION}

CanDelete(u) ==
  /\ u \in Admins \/ IsAuthor(u) \/ IsCollaborator(u)
  /\ report.calculatedStatus # APPROVED

CanUnlock(u) == u \in UnlockAdmins /\ report.calculatedStatus = APPROVED

-----------------------------------------------------------------------------
\* The approvers in a body: a list, or nothing.
Lists == [given : {TRUE}, ids : SUBSET Users]
Omitted == [given |-> FALSE, ids |-> {}]

\* createOrUpdateReport: the row, then the approvers, unless they are undefined.
CreateOrUpdateReport(db, new, choice) ==
  LET saved == IF db.report.submissionStatus = NONE THEN [db EXCEPT !.report = new]
                                                    ELSE UpdateReport(db, new)
  IN IF choice.given THEN SyncCRApprovers(saved, choice.ids) ELSE saved

\* createReport; the form sends calculatedStatus "draft" and a list.
CreateReport(complete, specs, choice) ==
  /\ report.submissionStatus = NONE
  /\ Author \in Writers
  /\ Commit(CreateOrUpdateReport(Db,
       [report EXCEPT !.submissionStatus = DRAFT, !.calculatedStatus = DRAFT,
                      !.complete = complete],
       choice))
  /\ specialists' = specs

\* saveReport writes what the body has; without approvers in it those of the
\* report just read are synchronised, so that their hooks run all the same.
SaveReport(u, complete, specs, choice) ==
  /\ Found
  /\ CanUpdate(u)
  /\ Commit(CreateOrUpdateReport(Db, [report EXCEPT !.complete = complete],
       [given |-> TRUE, ids |-> IF choice.given THEN choice.ids ELSE Live(approvers)]))
  /\ specialists' = specs

\* Mutant: the requests for changes stay.
KeepNeedsAction(db) == db

\* Mutant: the approvers get a report status.
ResetToSubmitted(db) ==
  SetStatuses(db, {u \in Live(db.approvers) : db.approvers[u].status = NEEDS_ACTION}, SUBMITTED)

ResetNeedsAction(db) ==
  SetStatuses(db, {u \in Live(db.approvers) : db.approvers[u].status = NEEDS_ACTION}, PENDING)

\* submitReport writes both statuses and synchronises the approvers of the
\* body, if there are any; the requests for changes go back to pending unless
\* an approver is new.
SubmitReport(u, choice) ==
  /\ Found
  /\ CanUpdate(u)
  /\ LET saved == CreateOrUpdateReport(Db,
                    [report EXCEPT !.submissionStatus = SUBMITTED,
                                   !.calculatedStatus = SUBMITTED], choice)
     IN Commit(IF choice.ids \subseteq Live(approvers) THEN ResetNeedsAction(saved) ELSE saved)
  /\ UNCHANGED specialists

\* reviewReport
ReviewReport(u, verdict, note) ==
  /\ Found
  /\ CanReview(u)
  /\ Commit(SetStatuses([Db EXCEPT !.approvers[u].note = @ \/ note], {u}, verdict))
  /\ UNCHANGED specialists

\* unlockReport
UnlockReport(u) ==
  /\ Found
  /\ CanUnlock(u)
  /\ Commit(SetStatuses(Db, Live(approvers), NEEDS_ACTION))
  /\ UNCHANGED specialists

\* softDeleteReport: the row gets its deletedAt; nothing related is touched.
SoftDeleteReport(u) ==
  /\ Found
  /\ CanDelete(u)
  /\ report' = [report EXCEPT !.deleted = TRUE]
  /\ UNCHANGED <<approvers, specialists>>

Next ==
  \/ \E complete \in BOOLEAN, specs \in SUBSET SpecialistPool, c \in Lists :
       CreateReport(complete, specs, c)
  \/ \E u \in Users, complete \in BOOLEAN, specs \in SUBSET SpecialistPool,
        c \in Lists \union {Omitted} : SaveReport(u, complete, specs, c)
  \/ \E u \in Users, c \in Lists \union {Omitted} : SubmitReport(u, c)
  \/ \E u \in Users, verdict \in Verdicts, note \in BOOLEAN : ReviewReport(u, verdict, note)
  \/ \E u \in Users : UnlockReport(u)
  \/ \E u \in Users : SoftDeleteReport(u)

Spec == Init /\ [][Next]_vars

-----------------------------------------------------------------------------
\* The columns of the report and of its approver rows keep their types.
TypeOK ==
  /\ report \in CollabReports
  /\ approvers \in [Users -> Rows]
  /\ specialists \subseteq SpecialistPool

\* A verdict shown on the report is the one its current approvers give, through
\* every removal, restoration and resubmission, and none shows on a draft:
\* "calculated status should only exist for submitted reports" (the comment in
\* updateReportStatus), although drafts are reviewed as well.
VerdictBacked ==
  /\ report.calculatedStatus \in Verdicts =>
       report.calculatedStatus = CalculateReportStatusFromApprovals(approvers)
  /\ report.submissionStatus = DRAFT => report.calculatedStatus = DRAFT

\* The status of a submitted report is the outcome of its approvers' verdicts
\* after every step but a submission that names no approvers, which overwrites
\* it and runs no hook of theirs; the next step that is not a deletion mends it.
OutcomeShown ==
  [][report'.submissionStatus = SUBMITTED /\ ~report'.deleted
       => \/ report'.calculatedStatus = CalculateReportStatusFromApprovals(approvers')
          \/ \E u \in Users : SubmitReport(u, Omitted)]_vars

\* Submitting to no new approver leaves the report with no request for changes,
\* whatever was said before and whoever comes back or goes.
ResubmissionSettlesRequests ==
  [][\A u \in Users, c \in Lists \union {Omitted} :
       c.ids \subseteq Live(approvers) /\ SubmitReport(u, c)
         => /\ report'.calculatedStatus # NEEDS_ACTION
            /\ \A v \in Live(approvers)' : approvers'[v].status # NEEDS_ACTION]_vars

\* An approver taken off the list who had given a verdict keeps the row, its
\* status and its note, and no later step erases them while they are off it.
ReviewsOutliveRemoval ==
  [][\A u \in Users :
       approvers[u].status # PENDING /\ approvers'[u].state # "live"
         => /\ approvers'[u].state = "deleted"
            /\ approvers'[u].status = approvers[u].status
            /\ approvers'[u].note = approvers[u].note]_vars

Contract == INSTANCE ApprovalContract WITH
  Submittable   <- SUBSET Users,
  KeepsRequests <- TRUE,
  DefersOutcome <- TRUE,
  stage  <- IF report.deleted THEN "deleted" ELSE report.submissionStatus,
  listed <- Live(approvers),
  ballot <- [u \in Users |-> approvers[u].status],
  status <- IF report.deleted THEN "deleted" ELSE report.calculatedStatus

\* Every request is one step of ApprovalContract or none: nothing else changes a
\* verdict, an approved report stays as it is until a review or an unlock, and
\* only a submission to the approvers it has may leave the outcome for later.
ImplementsContract == Contract!ContractSpec
=============================================================================
