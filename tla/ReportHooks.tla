----------------------------- MODULE ReportHooks -----------------------------
(***************************************************************************)
(* The status rules of one activity report, as the Sequelize model hooks   *)
(* apply them: hooks/activityReport.js (before a report is written) and    *)
(* hooks/activityReportApprover.js (after an approver row is written).     *)
(*                                                                         *)
(* A "db" is what one transaction sees: [report, approvers, ok].  ok turns *)
(* FALSE when a hook throws; the request that called it is then rolled     *)
(* back by routes/transactionWrapper.js, so no handler commits such a db.  *)
(* Every operator here is a pure function on a db.                         *)
(***************************************************************************)

CONSTANT Users      \* the users that may be approvers of the report

\* REPORT_STATUSES of @ttahub/common; "none" is a report not created yet.
NONE         == "none"
DRAFT        == "draft"
SUBMITTED    == "submitted"
NEEDS_ACTION == "needs_action"
APPROVED     == "approved"
DELETED      == "deleted"

\* The status of an approver who has not reviewed (a null column).
PENDING == "pending"

Verdicts           == {APPROVED, NEEDS_ACTION}
ApproverStatuses   == Verdicts \union {PENDING}
SubmissionStatuses == {NONE, DRAFT, SUBMITTED, DELETED}
CalculatedStatuses == SubmissionStatuses \union Verdicts

(***************************************************************************)
(* The columns of an ActivityReport row that the workflow reads or writes. *)
(* Dates and texts are abstracted to whether they are set; valid says      *)
(* whether the row passes activityReportSchema.                            *)
(***************************************************************************)
Reports == [submissionStatus   : SubmissionStatuses,
            calculatedStatus   : CalculatedStatuses,
            approvedAt         : BOOLEAN,
            approvedAtTimezone : BOOLEAN,
            submittedDate      : BOOLEAN,
            additionalNotes    : BOOLEAN,
            valid              : BOOLEAN]

\* An ActivityReportApprover row: the table is paranoid, a removed approver
\* who had reviewed stays as a "deleted" row with its status and note.
Rows == [state : {"absent", "live", "deleted"}, status : ApproverStatuses, note : BOOLEAN]

NoRow == [state |-> "absent", status |-> PENDING, note |-> FALSE]

Live(approvers) == {u \in Users : approvers[u].state = "live"}

Dbs == [report : Reports, approvers : [Users -> Rows], ok : BOOLEAN]

-----------------------------------------------------------------------------
\* calculateReportStatusFromApprovals: the status the live approvers give.
CalculateReportStatusFromApprovals(approvers) ==
  IF Live(approvers) # {} /\ \A u \in Live(approvers) : approvers[u].status = APPROVED
  THEN APPROVED
  ELSE IF \E u \in Live(approvers) : approvers[u].status = NEEDS_ACTION
       THEN NEEDS_ACTION
       ELSE SUBMITTED

\* calculateReportStatus: a request for changes of the row being written wins.
CalculateReportStatus(own, approvers) ==
  IF own = NEEDS_ACTION THEN NEEDS_ACTION
                        ELSE CalculateReportStatusFromApprovals(approvers)

\* copyStatus: a draft or deleted report has the same calculated status.
CopyStatus(r) ==
  IF r.submissionStatus \in {DRAFT, DELETED} THEN r.submissionStatus ELSE r.calculatedStatus

\* Mutant: the date is not erased in draft.
SetSubmittedDateForGood(before, calc, date) ==
  \/ before # SUBMITTED /\ calc = SUBMITTED
  \/ date

\* setSubmittedDate: stamped on entering submitted, erased in draft.
SetSubmittedDate(before, calc, date) ==
  \/ before # SUBMITTED /\ calc = SUBMITTED
  \/ calc # DRAFT /\ date

\* clearAdditionalNotes: erased on entering approved.
ClearAdditionalNotes(before, calc, notes) ==
  notes /\ ~(before # APPROVED /\ calc = APPROVED)

\* beforeUpdate of ActivityReport: what is stored when row r is written as new.
ReportBeforeUpdate(r, new) ==
  LET calc == CopyStatus(new)
  IN [new EXCEPT
        !.calculatedStatus = calc,
        !.submittedDate    = SetSubmittedDate(r.calculatedStatus, calc, @),
        !.additionalNotes  = ClearAdditionalNotes(r.calculatedStatus, calc, @)]

\* Mutant: only a submission is validated.
PassesSubmissionValidation(r, new) ==
  \/ new.valid
  \/ ~(r.submissionStatus # SUBMITTED /\ new.submissionStatus = SUBMITTED)

\* validateForSubmission and validateForApproval: the write throws when the
\* report enters submission or approval and does not pass the schema.  Both
\* look at the values asked for, before copyStatus changes them.
PassesValidation(r, new) ==
  \/ new.valid
  \/ /\ ~(r.submissionStatus # SUBMITTED /\ new.submissionStatus = SUBMITTED)
     /\ ~(r.calculatedStatus # APPROVED /\ new.calculatedStatus = APPROVED)

\* ActivityReport.update with individual hooks, or report.update.
WriteReport(db, new) ==
  [db EXCEPT !.report = ReportBeforeUpdate(db.report, new),
             !.ok     = @ /\ PassesValidation(db.report, new)]

ClearNotes(approvers) ==
  [u \in Users |-> IF approvers[u].state = "live" THEN [approvers[u] EXCEPT !.note = FALSE]
                                                  ELSE approvers[u]]

\* Mutant: the approval date is set, and never taken back.
UpdateReportStatusKeepingDate(db, own) ==
  LET calc      == CalculateReportStatus(own, db.approvers)
      approving == calc = APPROVED /\ db.report.calculatedStatus # APPROVED
      cleared   == [db EXCEPT !.approvers = IF approving THEN ClearNotes(@) ELSE @]
  IN WriteReport(cleared,
       [db.report EXCEPT !.calculatedStatus = calc,
                         !.approvedAt       = @ \/ calc = APPROVED])

(***************************************************************************)
(* updateReportStatus, run after an approver row of status own is created, *)
(* restored or updated.  The query's where clause on submissionStatus is   *)
(* replaced by the primary key in findByPk, so a draft is handled as well: *)
(* copyStatus then keeps its status, and approvedAt is written.            *)
(***************************************************************************)
UpdateReportStatus(db, own) ==
  LET calc      == CalculateReportStatus(own, db.approvers)
      approving == calc = APPROVED /\ db.report.calculatedStatus # APPROVED
      cleared   == [db EXCEPT !.approvers = IF approving THEN ClearNotes(@) ELSE @]
  IN WriteReport(cleared,
       [db.report EXCEPT !.calculatedStatus   = calc,
                         !.approvedAt         = (calc = APPROVED),
                         !.approvedAtTimezone = @ /\ calc = APPROVED])

\* Mutant: the hook of removed approvers is missing.
AfterDestroyIgnored(db) == db

\* afterDestroy: only a submitted report is recalculated, and only its status.
AfterDestroy(db) ==
  IF db.report.submissionStatus = SUBMITTED
  THEN WriteReport(db, [db.report EXCEPT
         !.calculatedStatus = CalculateReportStatusFromApprovals(db.approvers)])
  ELSE db

-----------------------------------------------------------------------------
(***************************************************************************)
(* ActivityReportApprover.update with individual hooks: every live row of  *)
(* us gets the status, all rows are written before the first hook runs,    *)
(* and the hooks of one status compute the same report, so one stands for  *)
(* them all.                                                               *)
(***************************************************************************)
SetApproverStatuses(db, us, status) ==
  IF us = {} THEN db
  ELSE UpdateReportStatus(
         [db EXCEPT !.approvers = [u \in Users |-> IF u \in us
                                                   THEN [@[u] EXCEPT !.status = status]
                                                   ELSE @[u]]],
         status)

\* Mutant: every row of a removed approver goes for good.
DestroyApproversForGood(db, ids) ==
  LET gone == Live(db.approvers) \ ids
  IN IF gone = {} THEN db
     ELSE AfterDestroy([db EXCEPT !.approvers =
            [u \in Users |-> IF u \in gone THEN NoRow ELSE @[u]]])

\* The first half of syncApprovers: rows of approvers no longer listed go;
\* a row with a verdict or a note is kept as a deleted one.
DestroyApprovers(db, ids) ==
  LET gone == Live(db.approvers) \ ids
      Removed(row) == IF row.status = PENDING /\ ~row.note
                      THEN NoRow ELSE [row EXCEPT !.state = "deleted"]
  IN IF gone = {} THEN db
     ELSE AfterDestroy([db EXCEPT !.approvers =
            [u \in Users |-> IF u \in gone THEN Removed(@[u]) ELSE @[u]]])

\* upsertApprover for the listed users: live rows are touched and missing ones
\* created, then the hooks run; a deleted row is saved, with its hook, while
\* it is still deleted.
TouchApprovers(db, ids) ==
  LET a       == [u \in Users |-> IF u \in ids /\ db.approvers[u].state = "absent"
                                  THEN [NoRow EXCEPT !.state = "live"]
                                  ELSE db.approvers[u]]
      asking  == {u \in ids : a[u].state = "deleted" /\ a[u].status = NEEDS_ACTION}
      saved   == [db EXCEPT !.approvers = a]
      settled == IF ids \ asking = {} THEN saved ELSE UpdateReportStatus(saved, PENDING)
  IN IF asking = {} THEN settled ELSE UpdateReportStatus(settled, NEEDS_ACTION)

\* ... and the deleted rows are restored, again with the hook.
RestoreApprovers(db, ids) ==
  LET restored == {u \in ids : db.approvers[u].state = "deleted"}
      a == [u \in Users |-> IF u \in restored THEN [db.approvers[u] EXCEPT !.state = "live"]
                                              ELSE db.approvers[u]]
  IN IF restored = {} THEN db ELSE UpdateReportStatus([db EXCEPT !.approvers = a], PENDING)

\* syncApprovers: the three phases, each awaited before the next one.
SyncApprovers(db, ids) ==
  RestoreApprovers(TouchApprovers(DestroyApprovers(db, ids), ids), ids)
=============================================================================
