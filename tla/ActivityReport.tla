--------------------------- MODULE ActivityReport ---------------------------
(***************************************************************************)
(* The approval workflow of one activity report: the request handlers of   *)
(* routes/activityReports/handlers.js with the policy, services and hooks  *)
(* they call.  A handler runs in one database transaction; here requests   *)
(* run one after the other, so a handler is one step.  ReportTransactions  *)
(* models what their interleaving adds.                                    *)
(***************************************************************************)
EXTENDS ReportHooks

CONSTANTS
  Author,          \* the user who creates the report
  Writers,         \* users with READ_WRITE_REPORTS in the report's region
  Managers,        \* users with APPROVE_REPORTS in the region
  Admins,          \* users with the ADMIN scope
  UnlockAdmins,    \* users with UNLOCK_APPROVED_REPORTS
  CollaboratorPool \* users the author may name as collaborators

ASSUME UsersAssumption ==
  /\ Author \in Users
  /\ Writers \subseteq Users
  /\ Managers \subseteq Users
  /\ Admins \subseteq Users
  /\ UnlockAdmins \subseteq Users
  /\ CollaboratorPool \subseteq Users

VARIABLES
  report,        \* the ActivityReports row
  approvers,     \* its ActivityReportApprovers rows, one per user
  collaborators  \* the users of its ActivityReportCollaborators rows

vars == <<report, approvers, collaborators>>

NoReport == [submissionStatus |-> NONE, calculatedStatus |-> NONE,
             approvedAt |-> FALSE, approvedAtTimezone |-> FALSE,
             submittedDate |-> FALSE, additionalNotes |-> FALSE, valid |-> FALSE]

Init ==
  /\ report = NoReport
  /\ approvers = [u \in Users |-> NoRow]
  /\ collaborators = {}

\* What a handler reads: a deleted report is outside the model's default scope.
Db == [report |-> report, approvers |-> approvers, ok |-> TRUE]
Found == report.submissionStatus \in {DRAFT, SUBMITTED}

Commit(db) ==
  /\ db.ok
  /\ report' = db.report
  /\ approvers' = db.approvers

-----------------------------------------------------------------------------
\* policies/activityReport.js
IsAuthor(u)           == u = Author
IsCollaborator(u)     == u \in collaborators
IsApprovingManager(u) == u \in Live(approvers)
IsApproverAndCreator(u) == IsApprovingManager(u) /\ IsAuthor(u)

CanReview(u) == IsApprovingManager(u) /\ u \in Managers

ReportHasEditableStatus ==
  \/ report.submissionStatus = DRAFT
  \/ report.calculatedStatus \in {DRAFT, NEEDS_ACTION}

CanUpdate(u) ==
  \/ (IsAuthor(u) \/ IsCollaborator(u)) /\ u \in Writers /\ ReportHasEditableStatus
  \/ CanReview(u) /\ report.calculatedStatus \in {SUBMITTED, NEEDS_ACTION}

CanReset(u) == (IsAuthor(u) \/ IsCollaborator(u)) /\ report.calculatedStatus = SUBMITTED

\* Mutant: an approved report can be deleted.
CanDeleteApproved(u) == u \in Admins \/ IsAuthor(u)

CanDelete(u) == (u \in Admins \/ IsAuthor(u)) /\ report.calculatedStatus # APPROVED

CanUnlock(u) == u \in UnlockAdmins /\ report.calculatedStatus = APPROVED

-----------------------------------------------------------------------------
\* A request may leave the approvers out of its body, or list some; the save
\* service keeps those who may approve in the region.
ApproverChoices == {[given |-> FALSE, ids |-> {}]}
                     \union [given : {TRUE}, ids : SUBSET Managers]

\* createOrUpdate: the row is created or written, then the approvers given, if
\* any are given, are synchronised.
CreateOrUpdate(db, new, choice) ==
  LET saved == IF db.report.submissionStatus = NONE THEN [db EXCEPT !.report = new]
                                                    ELSE WriteReport(db, new)
  IN IF choice.given THEN SyncApprovers(saved, choice.ids) ELSE saved

\* createReport: the author stores a draft, with or without approvers.
CreateReport(valid, notes, collabs, choice) ==
  /\ report.submissionStatus = NONE
  /\ Author \in Writers
  /\ Commit(CreateOrUpdate(Db,
       [NoReport EXCEPT !.submissionStatus = DRAFT, !.calculatedStatus = DRAFT,
                        !.additionalNotes = notes, !.valid = valid],
       choice))
  /\ collaborators' = collabs

\* saveReport: the body is merged into the row just read, every column is
\* written back, then the approvers are synchronised.
SaveReport(u, valid, notes, collabs, choice) ==
  /\ Found
  /\ CanUpdate(u)
  /\ Commit(CreateOrUpdate(Db,
       [report EXCEPT !.additionalNotes = notes, !.valid = valid], choice))
  /\ collaborators' = collabs

\* Mutant: the requests for changes stay.
ResetNothing(db) == db

\* Mutant: the approvers get a report status.
ResetToSubmitted(db) ==
  SetApproverStatuses(db,
    {u \in Live(db.approvers) : db.approvers[u].status = NEEDS_ACTION}, SUBMITTED)

\* Resubmitting returns the requests for changes to pending.
ResetNeedsAction(db) ==
  SetApproverStatuses(db,
    {u \in Live(db.approvers) : db.approvers[u].status = NEEDS_ACTION}, PENDING)

\* submitReport: the approvers come from the body unfiltered, at least one.
SubmitReport(u, notes, ids) ==
  /\ Found
  /\ CanUpdate(u)
  /\ Commit(ResetNeedsAction(SyncApprovers(
       WriteReport(Db, [report EXCEPT !.submissionStatus = SUBMITTED,
                                      !.additionalNotes = notes]),
       ids)))
  /\ UNCHANGED collaborators

\* The approval just given stamps the reviewer's time zone.
StampTimezone(db) ==
  [db EXCEPT !.report.approvedAtTimezone = @ \/ db.report.calculatedStatus = APPROVED]

\* reviewReport: an approver's verdict; an empty note keeps the earlier one.
ReviewReport(u, verdict, note) ==
  /\ Found
  /\ CanReview(u)
  /\ Commit(StampTimezone(SetApproverStatuses(
       [Db EXCEPT !.approvers[u].note = @ \/ note], {u}, verdict)))
  /\ UNCHANGED collaborators

\* resetToDraft: an approver who is the author also takes every verdict back,
\* whatever the status of the report; setStatus writes on the row first read.
ResetToDraft(u) ==
  /\ Found
  /\ IsApproverAndCreator(u) \/ CanReset(u)
  /\ LET db == IF IsApproverAndCreator(u)
               THEN SetApproverStatuses(Db, Live(approvers), PENDING)
               ELSE Db
     IN Commit(WriteReport(db, [db.report EXCEPT !.submissionStatus = DRAFT]))
  /\ UNCHANGED collaborators

\* softDeleteReport, through handleSoftDeleteReport and setStatus.
SoftDeleteReport(u) ==
  /\ Found
  /\ CanDelete(u)
  /\ Commit(WriteReport(Db, [report EXCEPT !.submissionStatus = DELETED]))
  /\ UNCHANGED collaborators

\* unlockReport: every approver's verdict becomes a request for changes.
UnlockReport(u) ==
  /\ Found
  /\ CanUnlock(u)
  /\ Commit(SetApproverStatuses(Db, Live(approvers), NEEDS_ACTION))
  /\ UNCHANGED collaborators

Next ==
  \/ \E valid, notes \in BOOLEAN, collabs \in SUBSET CollaboratorPool, c \in ApproverChoices :
       CreateReport(valid, notes, collabs, c)
  \/ \E u \in Users, valid, notes \in BOOLEAN, collabs \in SUBSET CollaboratorPool,
        c \in ApproverChoices : SaveReport(u, valid, notes, collabs, c)
  \/ \E u \in Users, notes \in BOOLEAN, ids \in (SUBSET Users) \ {{}} : SubmitReport(u, notes, ids)
  \/ \E u \in Users, verdict \in Verdicts, note \in BOOLEAN : ReviewReport(u, verdict, note)
  \/ \E u \in Users : ResetToDraft(u)
  \/ \E u \in Users : SoftDeleteReport(u)
  \/ \E u \in Users : UnlockReport(u)

Spec == Init /\ [][Next]_vars

-----------------------------------------------------------------------------
\* The columns of the report and of its approver rows keep their types.
TypeOK ==
  /\ report \in Reports
  /\ approvers \in [Users -> Rows]
  /\ collaborators \subseteq CollaboratorPool

\* The status of a submitted report is always the one its current approvers'
\* verdicts give, although no handler computes it from scratch: it is the last
\* value the approver hooks left (updateReportStatus, afterDestroy).
StatusDerivedFromApprovers ==
  report.submissionStatus = SUBMITTED =>
    report.calculatedStatus = CalculateReportStatusFromApprovals(approvers)

\* The approval date is set exactly while a submitted report is approved, and a
\* time zone only with it, although afterDestroy approves a report without
\* writing the date.
ApprovalStamped ==
  report.submissionStatus = SUBMITTED =>
    /\ report.approvedAt <=> report.calculatedStatus = APPROVED
    /\ report.approvedAtTimezone => report.approvedAt

\* However the approval came about (a review, a removed approver, a restored
\* one), an approved report passes the report schema, also when it was edited
\* into an invalid one between submission and approval, and has lost the
\* additional notes, "data we don't want to retain after approval".
ApprovedIsValid ==
  report.calculatedStatus = APPROVED => report.valid /\ ~report.additionalNotes

\* A report waiting for its approvers has a submission date, and a draft has
\* none, whatever path of submissions, reviews and resets led there.
SubmittedDateKept ==
  /\ report.calculatedStatus = SUBMITTED => report.submittedDate
  /\ report.calculatedStatus = DRAFT => ~report.submittedDate

\* Submitting a draft leaves no request for changes standing, not even one cast
\* on the draft or coming back with a restored approver, so the report does not
\* return to its author without a new review (submitReport's last update).
SubmissionClearsRequests ==
  [][report.submissionStatus = DRAFT /\ report'.submissionStatus = SUBMITTED
       => \A u \in Live(approvers)' : approvers'[u].status # NEEDS_ACTION]_vars

\* An approver taken off the list who had given a verdict keeps the row, its
\* status and its note, for the report's page still shows them (syncApprovers),
\* and no later step erases a verdict of a removed approver.
ReviewsOutliveRemoval ==
  [][\A u \in Users :
       approvers[u].status # PENDING /\ approvers'[u].state # "live"
         => /\ approvers'[u].state = "deleted"
            /\ approvers'[u].status = approvers[u].status
            /\ approvers'[u].note = approvers[u].note]_vars

\* The handlers implement the contract of the approval workflow.
Contract == INSTANCE ApprovalContract WITH
  Submittable   <- (SUBSET Users) \ {{}},
  KeepsRequests <- FALSE,
  DefersOutcome <- FALSE,
  stage  <- report.submissionStatus,
  listed <- Live(approvers),
  ballot <- [u \in Users |-> approvers[u].status],
  status <- report.calculatedStatus

\* Every request, with all its hooks, is one step of ApprovalContract or none.
ImplementsContract == Contract!ContractSpec
=============================================================================
