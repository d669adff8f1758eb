------------------------ MODULE ActivityReport_proofs ------------------------
(***************************************************************************)
(* Proofs about ActivityReport, for every set of users and every choice of *)
(* permissions.  The lemmas follow a db through the hooks and the phases   *)
(* of syncApprovers; the theorems put the handlers together: the status    *)
(* and the dates are right after any request, the handlers implement       *)
(* ApprovalContract, and no review of a removed approver is erased.        *)
(***************************************************************************)
EXTENDS ActivityReport, ReportHooks_proofs

USE DEF NONE, DRAFT, SUBMITTED, NEEDS_ACTION, APPROVED, DELETED, PENDING

\* The status of a submitted report is the outcome of its approvers.
Derived(db) ==
  db.report.submissionStatus = SUBMITTED =>
    db.report.calculatedStatus = CalculateReportStatusFromApprovals(db.approvers)

-----------------------------------------------------------------------------
\* Writing a report leaves the approvers alone.
LEMMA WriteReportType ==
  ASSUME NEW db \in Dbs, NEW new \in Reports
  PROVE  /\ WriteReport(db, new) \in Dbs
         /\ WriteReport(db, new).approvers = db.approvers
         /\ WriteReport(db, new).report.submissionStatus = new.submissionStatus
         /\ new.submissionStatus = SUBMITTED
              => WriteReport(db, new).report.calculatedStatus = new.calculatedStatus
<1>1. db.report \in Reports /\ db.ok \in BOOLEAN /\ db.approvers \in [Users -> Rows]
  BY DEF Dbs
<1>2. (db.ok /\ PassesValidation(db.report, new)) \in BOOLEAN
  OBVIOUS
<1>3. WriteReport(db, new) \in Dbs
  BY <1>1, <1>2, BeforeUpdateType DEF WriteReport, Dbs
<1>4. WriteReport(db, new).report = ReportBeforeUpdate(db.report, new)
  BY <1>1 DEF WriteReport, Dbs
<1> QED BY <1>1, <1>3, <1>4, BeforeUpdateType DEF WriteReport, Dbs

\* What a step of a request does to the report's own facts: it stays in its
\* submission, and votes change only as the step says.
SameSubmission(db, after) ==
  after.report.submissionStatus = db.report.submissionStatus

\* A hook writes the report only, notes aside; when the outcome it computes is
\* the one of the rows, a submitted report ends with a derived status.
LEMMA HookType ==
  ASSUME NEW db \in Dbs, NEW own \in ApproverStatuses
  PROVE  LET after == UpdateReportStatus(db, own)
         IN /\ after \in Dbs
            /\ SameSubmission(db, after)
            /\ SameVotes(db.approvers, after.approvers)
            /\ (own = NEEDS_ACTION => \E u \in Live(db.approvers) : db.approvers[u].status = NEEDS_ACTION)
                 => Derived(after)
<1> DEFINE calc    == CalculateReportStatus(own, db.approvers)
           rows    == IF calc = APPROVED /\ db.report.calculatedStatus # APPROVED
                      THEN ClearNotes(db.approvers) ELSE db.approvers
           cleared == [db EXCEPT !.approvers = rows]
           new     == [db.report EXCEPT !.calculatedStatus   = calc,
                                        !.approvedAt         = (calc = APPROVED),
                                        !.approvedAtTimezone = @ /\ calc = APPROVED]
           after   == UpdateReportStatus(db, own)
<1>1. db.report \in Reports /\ db.approvers \in [Users -> Rows] /\ db.ok \in BOOLEAN
  BY DEF Dbs
<1>2. calc \in {SUBMITTED, NEEDS_ACTION, APPROVED}
  BY OutcomeRange DEF CalculateReportStatus
<1>3. rows \in [Users -> Rows] /\ SameVotes(db.approvers, rows)
  BY <1>1, ClearNotesType DEF SameVotes
<1>4. cleared \in Dbs /\ cleared.approvers = rows /\ cleared.report = db.report
  BY <1>1, <1>3 DEF Dbs
<1>5. new \in Reports
  <2>1. calc \in CalculatedStatuses
    BY <1>2 DEF CalculatedStatuses, Verdicts, SubmissionStatuses
  <2>2. (calc = APPROVED) \in BOOLEAN /\ (db.report.approvedAtTimezone /\ calc = APPROVED) \in BOOLEAN
    OBVIOUS
  <2> HIDE DEF calc
  <2> QED BY <1>1, <2>1, <2>2 DEF Reports
<1>6. new.submissionStatus = db.report.submissionStatus /\ new.calculatedStatus = calc
  <2> HIDE DEF calc
  <2> QED BY <1>1 DEF Reports
<1>7. after = WriteReport(cleared, new)
  BY <1>1, <1>4 DEF UpdateReportStatus
<1> HIDE DEF after, new, cleared, rows
<1>8. after \in Dbs /\ SameSubmission(db, after) /\ SameVotes(db.approvers, after.approvers)
  BY <1>3, <1>4, <1>5, <1>6, <1>7, WriteReportType DEF SameSubmission
<1>9. ASSUME own = NEEDS_ACTION => \E u \in Live(db.approvers) : db.approvers[u].status = NEEDS_ACTION
      PROVE  Derived(after)
  <2>1. calc = CalculateReportStatusFromApprovals(db.approvers)
    BY <1>9 DEF CalculateReportStatus, CalculateReportStatusFromApprovals
  <2>2. CalculateReportStatusFromApprovals(after.approvers) = CalculateReportStatusFromApprovals(db.approvers)
    BY <1>8, OutcomeIgnoresNotes
  <2>3. after.report.submissionStatus = SUBMITTED => after.report.calculatedStatus = calc
    BY <1>4, <1>5, <1>6, <1>7, WriteReportType
  <2> QED BY <2>1, <2>2, <2>3 DEF Derived
<1> QED BY <1>8, <1>9 DEF after

\* afterDestroy leaves a submitted report with a derived status.
LEMMA AfterDestroyType ==
  ASSUME NEW db \in Dbs
  PROVE  /\ AfterDestroy(db) \in Dbs
         /\ SameSubmission(db, AfterDestroy(db))
         /\ AfterDestroy(db).approvers = db.approvers
         /\ Derived(AfterDestroy(db))
<1> DEFINE calc == CalculateReportStatusFromApprovals(db.approvers)
           new  == [db.report EXCEPT !.calculatedStatus = calc]
<1>1. db.report \in Reports
  BY DEF Dbs
<1>2. calc \in CalculatedStatuses
  BY OutcomeRange DEF CalculatedStatuses, Verdicts, SubmissionStatuses
<1> HIDE DEF calc
<1>3. /\ new \in Reports
      /\ new.submissionStatus = db.report.submissionStatus
      /\ new.calculatedStatus = calc
  BY <1>1, <1>2 DEF Reports
<1>4. CASE db.report.submissionStatus = SUBMITTED
  <2>1. AfterDestroy(db) = WriteReport(db, new)
    BY <1>4 DEF AfterDestroy, calc
  <2> HIDE DEF new
  <2> QED BY <1>3, <1>4, <2>1, WriteReportType DEF SameSubmission, Derived, calc
<1>5. CASE db.report.submissionStatus # SUBMITTED
  BY <1>5 DEF AfterDestroy, SameSubmission, Derived
<1> QED BY <1>4, <1>5

-----------------------------------------------------------------------------
\* Setting the same status on live rows leaves a derived status, unless there
\* is no row to set.
LEMMA SetApproverStatusesType ==
  ASSUME NEW db \in Dbs, NEW us \in SUBSET Live(db.approvers), NEW status \in ApproverStatuses
  PROVE  LET after == SetApproverStatuses(db, us, status)
         IN /\ after \in Dbs
            /\ SameSubmission(db, after)
            /\ Derived(db) \/ us # {} => Derived(after)
<1> DEFINE rows == [u \in Users |-> IF u \in us THEN [db.approvers[u] EXCEPT !.status = status]
                                                ELSE db.approvers[u]]
           set  == [db EXCEPT !.approvers = rows]
<1>1. CASE us = {}
  BY <1>1 DEF SetApproverStatuses, SameSubmission
<1>2. CASE us # {}
  <2>1. db.approvers \in [Users -> Rows]
    BY DEF Dbs
  <2>2. rows \in [Users -> Rows]
    BY <2>1 DEF Rows
  <2>3. set \in Dbs /\ set.approvers = rows /\ set.report = db.report
    BY <2>2 DEF Dbs
  <2>4. SetApproverStatuses(db, us, status) = UpdateReportStatus(set, status)
    BY <1>2 DEF SetApproverStatuses, Dbs
  <2>5. status = NEEDS_ACTION => \E u \in Live(rows) : rows[u].status = NEEDS_ACTION
    <3>1. PICK u \in us : TRUE
      BY <1>2
    <3>2. u \in Users /\ db.approvers[u].state = "live" /\ db.approvers[u] \in Rows
      BY <2>1, <3>1 DEF Live
    <3>3. rows[u].state = "live" /\ rows[u].status = status
      BY <3>1, <3>2 DEF Rows
    <3> QED BY <3>2, <3>3 DEF Live
  <2> HIDE DEF set, rows
  <2> QED BY <2>3, <2>4, <2>5, HookType DEF SameSubmission
<1> QED BY <1>1, <1>2

\* Removing the approvers not listed keeps a derived status derived.
LEMMA DestroyApproversType ==
  ASSUME NEW db \in Dbs, NEW ids \in SUBSET Users
  PROVE  LET after == DestroyApprovers(db, ids)
         IN /\ after \in Dbs
            /\ SameSubmission(db, after)
            /\ Derived(db) => Derived(after)
            /\ Live(after.approvers) \subseteq ids
<1> DEFINE gone == Live(db.approvers) \ ids
           Removed(row) == IF row.status = PENDING /\ ~row.note
                           THEN NoRow ELSE [row EXCEPT !.state = "deleted"]
           rows == [u \in Users |-> IF u \in gone THEN Removed(db.approvers[u])
                                                  ELSE db.approvers[u]]
           left == [db EXCEPT !.approvers = rows]
<1>0. db.approvers \in [Users -> Rows]
  BY DEF Dbs
<1>1. CASE gone = {}
  BY <1>1 DEF DestroyApprovers, SameSubmission
<1>2. CASE gone # {}
  <2>1. \A row \in Rows : Removed(row) \in Rows /\ Removed(row).state # "live"
    BY DEF Rows, NoRow, ApproverStatuses, Verdicts
  <2>2. rows \in [Users -> Rows]
    BY <1>0, <2>1
  <2>3. Live(rows) \subseteq ids
    BY <1>0, <2>1 DEF Live
  <2>4. left \in Dbs /\ left.approvers = rows /\ left.report = db.report
    BY <2>2 DEF Dbs
  <2>5. DestroyApprovers(db, ids) = AfterDestroy(left)
    BY <1>2 DEF DestroyApprovers, Dbs
  <2> HIDE DEF left, rows
  <2> QED BY <2>3, <2>4, <2>5, AfterDestroyType DEF SameSubmission
<1> QED BY <1>1, <1>2

\* Deleted rows of listed users that ask for changes: their hook may leave a
\* status that is not derived until they are restored.
Asking(db, ids) ==
  {u \in ids : TouchedRows(db.approvers, ids)[u].state = "deleted"
                 /\ TouchedRows(db.approvers, ids)[u].status = NEEDS_ACTION}

\* Touching the listed approvers leaves a derived status, unless a deleted row
\* that asks for changes is among them: its hook counts it too early.
LEMMA TouchApproversType ==
  ASSUME NEW db \in Dbs, NEW ids \in SUBSET Users
  PROVE  LET after == TouchApprovers(db, ids)
         IN /\ after \in Dbs
            /\ SameSubmission(db, after)
            /\ SameVotes(TouchedRows(db.approvers, ids), after.approvers)
            /\ Asking(db, ids) = {} /\ (Derived(db) \/ ids # {}) => Derived(after)
<1> DEFINE rows    == TouchedRows(db.approvers, ids)
           asking  == Asking(db, ids)
           saved   == [db EXCEPT !.approvers = rows]
           settled == IF ids \ asking = {} THEN saved ELSE UpdateReportStatus(saved, PENDING)
           after   == TouchApprovers(db, ids)
<1>1. rows \in [Users -> Rows]
  BY DEF TouchedRows, Dbs, Rows, NoRow, ApproverStatuses
<1>2. saved \in Dbs /\ saved.approvers = rows /\ saved.report = db.report
  BY <1>1 DEF Dbs
<1>3. after = IF asking = {} THEN settled ELSE UpdateReportStatus(settled, NEEDS_ACTION)
  BY DEF TouchApprovers, TouchedRows, Asking
<1>4. PENDING \in ApproverStatuses /\ NEEDS_ACTION \in ApproverStatuses
  BY DEF ApproverStatuses, Verdicts
<1> HIDE DEF saved, rows, asking
<1>5. /\ settled \in Dbs
      /\ SameSubmission(db, settled)
      /\ SameVotes(rows, settled.approvers)
      /\ ids \ asking # {} => Derived(settled)
  BY <1>2, <1>4, HookType DEF SameSubmission, SameVotes
<1>6. ids = {} => rows = db.approvers
  BY DEF rows, TouchedRows, Dbs
<1>7. CASE asking = {}
  <2>1. after = settled
    BY <1>3, <1>7
  <2>2. ASSUME Derived(db), ids = {}
        PROVE  Derived(settled)
    BY <1>2, <1>6, <2>2 DEF Derived
  <2> QED BY <1>5, <1>7, <2>1, <2>2 DEF rows, asking
<1>8. CASE asking # {}
  <2>1. after = UpdateReportStatus(settled, NEEDS_ACTION)
    BY <1>3, <1>8
  <2> HIDE DEF settled, after
  <2>2. /\ after \in Dbs
        /\ SameSubmission(settled, after)
        /\ SameVotes(settled.approvers, after.approvers)
    BY <1>4, <1>5, <2>1, HookType
  <2> QED BY <1>5, <1>8, <2>2 DEF SameSubmission, SameVotes, rows, asking, after
<1> QED BY <1>7, <1>8

\* Restoring at least one row derives the status again.
LEMMA RestoreApproversType ==
  ASSUME NEW db \in Dbs, NEW ids \in SUBSET Users
  PROVE  LET after == RestoreApprovers(db, ids)
         IN /\ after \in Dbs
            /\ SameSubmission(db, after)
            /\ Derived(db) \/ (\E u \in ids : db.approvers[u].state = "deleted")
                 => Derived(after)
<1> DEFINE restored == {u \in ids : db.approvers[u].state = "deleted"}
           rows == [u \in Users |-> IF u \in restored
                                    THEN [db.approvers[u] EXCEPT !.state = "live"]
                                    ELSE db.approvers[u]]
           set  == [db EXCEPT !.approvers = rows]
<1>1. CASE restored = {}
  BY <1>1 DEF RestoreApprovers, SameSubmission
<1>2. CASE restored # {}
  <2>1. rows \in [Users -> Rows]
    BY DEF Dbs, Rows
  <2>2. set \in Dbs /\ set.report = db.report
    BY <2>1 DEF Dbs
  <2>3. RestoreApprovers(db, ids) = UpdateReportStatus(set, PENDING)
    BY <1>2 DEF RestoreApprovers
  <2>4. PENDING \in ApproverStatuses /\ PENDING # NEEDS_ACTION
    BY DEF ApproverStatuses, Verdicts
  <2> HIDE DEF set, rows, restored
  <2> QED BY <2>2, <2>3, <2>4, HookType DEF SameSubmission
<1> QED BY <1>1, <1>2

\* syncApprovers leaves a derived status whenever it lists somebody.
LEMMA SyncApproversType ==
  ASSUME NEW db \in Dbs, NEW ids \in SUBSET Users
  PROVE  LET after == SyncApprovers(db, ids)
         IN /\ after \in Dbs
            /\ SameSubmission(db, after)
            /\ Derived(db) \/ ids # {} => Derived(after)
<1> DEFINE d == DestroyApprovers(db, ids)
           t == TouchApprovers(d, ids)
           r == RestoreApprovers(t, ids)
<1>1. d \in Dbs /\ SameSubmission(db, d) /\ (Derived(db) => Derived(d))
  BY DestroyApproversType
<1> HIDE DEF d
<1>2. /\ t \in Dbs
      /\ SameSubmission(d, t)
      /\ SameVotes(TouchedRows(d.approvers, ids), t.approvers)
      /\ Asking(d, ids) = {} /\ (Derived(d) \/ ids # {}) => Derived(t)
  BY <1>1, TouchApproversType
<1> HIDE DEF t
<1>3. /\ r \in Dbs
      /\ SameSubmission(t, r)
      /\ Derived(t) \/ (\E u \in ids : t.approvers[u].state = "deleted") => Derived(r)
  BY <1>2, RestoreApproversType
<1>4. Asking(d, ids) # {} => \E u \in ids : t.approvers[u].state = "deleted"
  BY <1>2 DEF Asking, SameVotes
<1>5. SyncApprovers(db, ids) = r
  BY DEF SyncApprovers, r, t, d
<1> HIDE DEF r
<1> QED BY <1>1, <1>2, <1>3, <1>4, <1>5 DEF SameSubmission

-----------------------------------------------------------------------------
\* The inductive invariant: a derived status needs nothing but the types.
Inv == TypeOK /\ StatusDerivedFromApprovers

\* The db a handler starts from is well typed, and derived when the state is.
LEMMA DbOfState ==
  ASSUME TypeOK
  PROVE  Db \in Dbs /\ (StatusDerivedFromApprovers <=> Derived(Db))
BY DEF TypeOK, Db, Dbs, Derived, StatusDerivedFromApprovers

\* What a handler has to show of the db it commits.
LEMMA CommitKeepsInv ==
  ASSUME NEW db \in Dbs, Commit(db), collaborators' \subseteq CollaboratorPool
  PROVE  TypeOK' /\ (Derived(db) => StatusDerivedFromApprovers')
<1>1. report' \in Reports /\ approvers' \in [Users -> Rows]
  BY DEF Commit, Dbs
<1>2. Derived(db) => StatusDerivedFromApprovers'
  BY DEF Commit, Derived, StatusDerivedFromApprovers
<1> QED BY <1>1, <1>2 DEF TypeOK

\* A row that is created as a draft, or written with the statuses it had, keeps
\* a derived status, with or without a list of approvers to synchronise.
LEMMA CreateOrUpdateType ==
  ASSUME NEW db \in Dbs, NEW new \in Reports, NEW c \in ApproverChoices,
         \/ db.report.submissionStatus = NONE /\ new.submissionStatus = DRAFT
         \/ /\ db.report.submissionStatus # NONE /\ Derived(db)
            /\ new.submissionStatus = db.report.submissionStatus
            /\ new.calculatedStatus = db.report.calculatedStatus
  PROVE  CreateOrUpdate(db, new, c) \in Dbs /\ Derived(CreateOrUpdate(db, new, c))
<1> DEFINE saved == IF db.report.submissionStatus = NONE THEN [db EXCEPT !.report = new]
                                                         ELSE WriteReport(db, new)
<1>1. c.ids \in SUBSET Users
  <2>1. CASE c = [given |-> FALSE, ids |-> {}]
    <3>1. c.ids = {}
      BY <2>1
    <3> QED BY <3>1
  <2>2. CASE c \in [given : {TRUE}, ids : SUBSET Managers]
    <3>1. c.ids \in SUBSET Managers
      BY <2>2
    <3> QED BY <3>1, UsersAssumption
  <2> QED BY <2>1, <2>2 DEF ApproverChoices
<1>2. saved \in Dbs /\ Derived(saved)
  <2>1. CASE db.report.submissionStatus = NONE
    <3>1. saved = [db EXCEPT !.report = new] /\ new.submissionStatus = DRAFT
      BY <2>1
    <3>2. saved \in Dbs /\ saved.report = new
      BY <3>1 DEF Dbs
    <3> QED BY <3>1, <3>2 DEF Derived
  <2>2. CASE db.report.submissionStatus # NONE
    <3>1. saved = WriteReport(db, new)
      BY <2>2
    <3> HIDE DEF saved
    <3> QED BY <2>2, <3>1, WriteReportType DEF Derived
  <2> QED BY <2>1, <2>2
<1>3. CreateOrUpdate(db, new, c) = IF c.given THEN SyncApprovers(saved, c.ids) ELSE saved
  BY DEF CreateOrUpdate
<1> HIDE DEF saved
<1> QED BY <1>1, <1>2, <1>3, SyncApproversType

\* createReport stores a draft, of which nothing is derived.
LEMMA CreateReportKeepsInv ==
  ASSUME NEW valid \in BOOLEAN, NEW notes \in BOOLEAN,
         NEW collabs \in SUBSET CollaboratorPool, NEW c \in ApproverChoices,
         Inv, CreateReport(valid, notes, collabs, c)
  PROVE  Inv'
<1> DEFINE new == [NoReport EXCEPT !.submissionStatus = DRAFT, !.calculatedStatus = DRAFT,
                                   !.additionalNotes = notes, !.valid = valid]
<1>1. new \in Reports /\ new.submissionStatus = DRAFT
  BY DEF NoReport, Reports, SubmissionStatuses, CalculatedStatuses
<1>2. Db \in Dbs /\ Db.report = report
  BY DbOfState DEF Inv, Db
<1>3. report.submissionStatus = NONE /\ collaborators' = collabs
  BY DEF CreateReport
<1>4. Commit(CreateOrUpdate(Db, new, c))
  BY DEF CreateReport
<1> HIDE DEF new
<1> QED BY <1>1, <1>2, <1>3, <1>4, CreateOrUpdateType, CommitKeepsInv DEF Inv

\* saveReport keeps the submission status and the votes before it synchronises.
LEMMA SaveReportKeepsInv ==
  ASSUME NEW u \in Users, NEW valid \in BOOLEAN, NEW notes \in BOOLEAN,
         NEW collabs \in SUBSET CollaboratorPool, NEW c \in ApproverChoices,
         Inv, SaveReport(u, valid, notes, collabs, c)
  PROVE  Inv'
<1> DEFINE new == [report EXCEPT !.additionalNotes = notes, !.valid = valid]
<1>1. /\ new \in Reports
      /\ new.submissionStatus = report.submissionStatus
      /\ new.calculatedStatus = report.calculatedStatus
  BY DEF Inv, TypeOK, Reports
<1>2. Db \in Dbs /\ Derived(Db) /\ Db.report = report
  BY DbOfState DEF Inv, Db
<1>3. report.submissionStatus # NONE /\ collaborators' = collabs
  BY DEF SaveReport, Found, NONE, DRAFT, SUBMITTED
<1>4. Commit(CreateOrUpdate(Db, new, c))
  BY DEF SaveReport
<1> HIDE DEF new
<1> QED BY <1>1, <1>2, <1>3, <1>4, CreateOrUpdateType, CommitKeepsInv DEF Inv

\* submitReport lists at least one approver, so the hooks derive the status.
LEMMA SubmitReportKeepsInv ==
  ASSUME NEW u \in Users, NEW notes \in BOOLEAN, NEW ids \in (SUBSET Users) \ {{}},
         Inv, SubmitReport(u, notes, ids)
  PROVE  Inv'
<1> DEFINE new    == [report EXCEPT !.submissionStatus = SUBMITTED, !.additionalNotes = notes]
           db     == WriteReport(Db, new)
           synced == SyncApprovers(db, ids)
           reset  == ResetNeedsAction(synced)
<1>1. new \in Reports
  BY DEF Inv, TypeOK, Reports, SubmissionStatuses
<1>2. Db \in Dbs
  BY DbOfState DEF Inv
<1> HIDE DEF new
<1>3. db \in Dbs
  BY <1>1, <1>2, WriteReportType
<1>4. Commit(reset) /\ collaborators' = collaborators
  BY DEF SubmitReport, new
<1> HIDE DEF db
<1>5. synced \in Dbs /\ Derived(synced)
  BY <1>3, SyncApproversType
<1> HIDE DEF synced
<1>6. reset \in Dbs /\ Derived(reset)
  BY <1>5, SetApproverStatusesType DEF ResetNeedsAction, ApproverStatuses
<1> HIDE DEF reset
<1> QED BY <1>4, <1>6, CommitKeepsInv DEF Inv, TypeOK

\* reviewReport writes the row of its own reviewer, who is live.
LEMMA ReviewReportKeepsInv ==
  ASSUME NEW u \in Users, NEW verdict \in Verdicts, NEW note \in BOOLEAN,
         Inv, ReviewReport(u, verdict, note)
  PROVE  Inv'
<1> DEFINE noted   == [Db EXCEPT !.approvers[u].note = @ \/ note]
           voted   == SetApproverStatuses(noted, {u}, verdict)
           stamped == StampTimezone(voted)
<1>1. Db \in Dbs /\ Db.approvers = approvers /\ u \in Live(approvers)
  BY DbOfState DEF Inv, Db, ReviewReport, CanReview, IsApprovingManager
<1>2. noted \in Dbs /\ {u} \in SUBSET Live(noted.approvers)
  <2> DEFINE rows == [approvers EXCEPT ![u].note = @ \/ note]
  <2>1. rows \in [Users -> Rows] /\ u \in Live(rows)
    BY <1>1 DEF Inv, TypeOK, Rows, Live
  <2>2. noted = [Db EXCEPT !.approvers = rows]
    BY <1>1 DEF Db
  <2> HIDE DEF rows
  <2> QED BY <1>1, <2>1, <2>2 DEF Dbs
<1>3. Commit(stamped) /\ collaborators' = collaborators
  BY DEF ReviewReport
<1> HIDE DEF noted
<1>4. voted \in Dbs /\ Derived(voted)
  BY <1>2, SetApproverStatusesType DEF ApproverStatuses
<1> HIDE DEF voted
<1>5. stamped \in Dbs /\ Derived(stamped)
  <2>1. (voted.report.approvedAtTimezone \/ voted.report.calculatedStatus = APPROVED) \in BOOLEAN
    OBVIOUS
  <2> QED BY <1>4, <2>1 DEF StampTimezone, Dbs, Reports, Derived
<1> HIDE DEF stamped
<1> QED BY <1>3, <1>5, CommitKeepsInv DEF Inv, TypeOK

\* resetToDraft ends in a draft, of which nothing is derived.
LEMMA ResetToDraftKeepsInv ==
  ASSUME NEW u \in Users, Inv, ResetToDraft(u)
  PROVE  Inv'
<1> DEFINE db  == IF IsApproverAndCreator(u)
                  THEN SetApproverStatuses(Db, Live(approvers), PENDING) ELSE Db
           new == [db.report EXCEPT !.submissionStatus = DRAFT]
<1>1. Db \in Dbs /\ Db.approvers = approvers
  BY DbOfState DEF Inv, Db
<1>2. db \in Dbs
  BY <1>1, SetApproverStatusesType DEF ApproverStatuses
<1>3. Commit(WriteReport(db, new)) /\ collaborators' = collaborators
  BY DEF ResetToDraft
<1> HIDE DEF db
<1>4. new \in Reports /\ new.submissionStatus = DRAFT
  BY <1>2 DEF Dbs, Reports, SubmissionStatuses
<1> HIDE DEF new
<1>5. WriteReport(db, new) \in Dbs /\ Derived(WriteReport(db, new))
  BY <1>2, <1>4, WriteReportType DEF Derived
<1> QED BY <1>3, <1>5, CommitKeepsInv DEF Inv, TypeOK

\* softDeleteReport ends in a deleted report, of which nothing is derived.
LEMMA SoftDeleteReportKeepsInv ==
  ASSUME NEW u \in Users, Inv, SoftDeleteReport(u)
  PROVE  Inv'
<1> DEFINE new == [report EXCEPT !.submissionStatus = DELETED]
<1>1. Db \in Dbs
  BY DbOfState DEF Inv
<1>2. new \in Reports /\ new.submissionStatus = DELETED
  BY DEF Inv, TypeOK, Reports, SubmissionStatuses
<1>3. Commit(WriteReport(Db, new)) /\ collaborators' = collaborators
  BY DEF SoftDeleteReport
<1> HIDE DEF new
<1>4. WriteReport(Db, new) \in Dbs /\ Derived(WriteReport(Db, new))
  BY <1>1, <1>2, WriteReportType DEF Derived
<1> QED BY <1>3, <1>4, CommitKeepsInv DEF Inv, TypeOK

\* unlockReport sets every live row, and nothing when there is none.
LEMMA UnlockReportKeepsInv ==
  ASSUME NEW u \in Users, Inv, UnlockReport(u)
  PROVE  Inv'
<1> DEFINE db == SetApproverStatuses(Db, Live(approvers), NEEDS_ACTION)
<1>1. Db \in Dbs /\ Derived(Db) /\ Db.approvers = approvers
  BY DbOfState DEF Inv, Db
<1>2. db \in Dbs /\ Derived(db)
  BY <1>1, SetApproverStatusesType DEF ApproverStatuses, Verdicts
<1>3. Commit(db) /\ collaborators' = collaborators
  BY DEF UnlockReport
<1> HIDE DEF db
<1> QED BY <1>2, <1>3, CommitKeepsInv DEF Inv, TypeOK

\* Before the report is created both parts of the invariant hold.
LEMMA InitInv == Init => Inv
BY DEF Init, Inv, TypeOK, StatusDerivedFromApprovers, NoReport, NoRow, Reports, Rows,
       SubmissionStatuses, CalculatedStatuses, ApproverStatuses

\* Every handler, and a step that changes nothing, keeps the invariant.
LEMMA StepKeepsInv == Inv /\ [Next]_vars => Inv'
<1> SUFFICES ASSUME Inv, [Next]_vars PROVE Inv'
  OBVIOUS
<1>1. CASE \E valid, notes \in BOOLEAN, collabs \in SUBSET CollaboratorPool, c \in ApproverChoices :
             CreateReport(valid, notes, collabs, c)
  BY <1>1, CreateReportKeepsInv
<1>2. CASE \E u \in Users, valid, notes \in BOOLEAN, collabs \in SUBSET CollaboratorPool,
              c \in ApproverChoices : SaveReport(u, valid, notes, collabs, c)
  BY <1>2, SaveReportKeepsInv
<1>3. CASE \E u \in Users, notes \in BOOLEAN, ids \in (SUBSET Users) \ {{}} : SubmitReport(u, notes, ids)
  BY <1>3, SubmitReportKeepsInv
<1>4. CASE \E u \in Users, verdict \in Verdicts, note \in BOOLEAN : ReviewReport(u, verdict, note)
  BY <1>4, ReviewReportKeepsInv
<1>5. CASE \E u \in Users : ResetToDraft(u)
  BY <1>5, ResetToDraftKeepsInv
<1>6. CASE \E u \in Users : SoftDeleteReport(u)
  BY <1>6, SoftDeleteReportKeepsInv
<1>7. CASE \E u \in Users : UnlockReport(u)
  BY <1>7, UnlockReportKeepsInv
<1>8. CASE UNCHANGED vars
  BY <1>8 DEF vars, Inv, TypeOK, StatusDerivedFromApprovers
<1> QED BY <1>1, <1>2, <1>3, <1>4, <1>5, <1>6, <1>7, <1>8 DEF Next

\* Every column keeps its type under any sequence of requests.
THEOREM TypeCorrect == Spec => []TypeOK
<1>1. Inv => TypeOK
  BY DEF Inv
<1> QED BY <1>1, InitInv, StepKeepsInv, PTL DEF Spec

\* The status of a submitted report is always the outcome of its current
\* approvers, for any users, permissions and sequence of requests.
THEOREM StatusAlwaysDerived == Spec => []StatusDerivedFromApprovers
<1>1. Inv => StatusDerivedFromApprovers
  BY DEF Inv
<1> QED BY <1>1, InitInv, StepKeepsInv, PTL DEF Spec

-----------------------------------------------------------------------------
(***************************************************************************)
(* The dates and the validity of what is approved.  A request is followed  *)
(* through the same hooks and phases, with what each of them does to these *)
(* columns.                                                                *)
(***************************************************************************)
\* What every write of a report keeps, if its hooks do not throw.
Facts(r) ==
  /\ r.submissionStatus = DRAFT => r.calculatedStatus = DRAFT
  /\ r.calculatedStatus = APPROVED => r.valid /\ ~r.additionalNotes
  /\ r.calculatedStatus = SUBMITTED => r.submittedDate
  /\ r.calculatedStatus = DRAFT => ~r.submittedDate

Kept(db) == db.ok => Facts(db.report)

\* What only the hooks of an approver row establish.
Stamped(db) ==
  db.report.submissionStatus = SUBMITTED =>
    /\ db.report.approvedAt <=> db.report.calculatedStatus = APPROVED
    /\ db.report.approvedAtTimezone => db.report.approvedAt

\* A write that leaves the submission date alone, and the text of an approved
\* report.
Careful(r, new) ==
  /\ new.submittedDate = r.submittedDate
  /\ r.calculatedStatus = APPROVED => new.valid = r.valid /\ new.additionalNotes = r.additionalNotes

-----------------------------------------------------------------------------
\* beforeUpdate stamps and clears what the facts ask for, and validation throws
\* when an invalid report would become approved.
LEMMA WriteReportFacts ==
  ASSUME NEW db \in Dbs, NEW new \in Reports, Kept(db), Careful(db.report, new)
  PROVE  /\ Kept(WriteReport(db, new))
         /\ WriteReport(db, new).report.approvedAt = new.approvedAt
         /\ WriteReport(db, new).report.approvedAtTimezone = new.approvedAtTimezone
<1> DEFINE r == ReportBeforeUpdate(db.report, new)
<1>1. db.report \in Reports
  BY DEF Dbs
<1>2. /\ WriteReport(db, new).report = r
      /\ WriteReport(db, new).ok = (db.ok /\ PassesValidation(db.report, new))
  BY <1>1 DEF WriteReport, Dbs
<1>3. /\ r.submissionStatus = new.submissionStatus /\ r.calculatedStatus = CopyStatus(new)
      /\ r.valid = new.valid
      /\ r.approvedAt = new.approvedAt /\ r.approvedAtTimezone = new.approvedAtTimezone
      /\ r.submittedDate = SetSubmittedDate(db.report.calculatedStatus, CopyStatus(new), new.submittedDate)
      /\ r.additionalNotes = ClearAdditionalNotes(db.report.calculatedStatus, CopyStatus(new), new.additionalNotes)
  BY DEF ReportBeforeUpdate, Reports
<1> HIDE DEF r
<1>4. ASSUME db.ok, PassesValidation(db.report, new)
      PROVE  Facts(r)
  <2>1. Facts(db.report)
    BY <1>4 DEF Kept
  <2>2. r.submissionStatus = DRAFT => r.calculatedStatus = DRAFT
    BY <1>3 DEF CopyStatus
  <2>3. r.calculatedStatus = APPROVED => r.valid /\ ~r.additionalNotes
    BY <1>1, <1>3, <1>4, <2>1 DEF Facts, Careful, CopyStatus, PassesValidation, ClearAdditionalNotes
  <2>4. r.calculatedStatus = SUBMITTED => r.submittedDate
    BY <1>3, <2>1 DEF Facts, Careful, SetSubmittedDate
  <2>5. r.calculatedStatus = DRAFT => ~r.submittedDate
    BY <1>3 DEF SetSubmittedDate
  <2> QED BY <2>2, <2>3, <2>4, <2>5 DEF Facts
<1> QED BY <1>2, <1>3, <1>4 DEF Kept

\* An approver's hook keeps the facts and stamps the report.
LEMMA HookFacts ==
  ASSUME NEW db \in Dbs, NEW own \in ApproverStatuses, Kept(db)
  PROVE  Kept(UpdateReportStatus(db, own)) /\ Stamped(UpdateReportStatus(db, own))
<1> DEFINE calc    == CalculateReportStatus(own, db.approvers)
           rows    == IF calc = APPROVED /\ db.report.calculatedStatus # APPROVED
                      THEN ClearNotes(db.approvers) ELSE db.approvers
           cleared == [db EXCEPT !.approvers = rows]
           new     == [db.report EXCEPT !.calculatedStatus   = calc,
                                        !.approvedAt         = (calc = APPROVED),
                                        !.approvedAtTimezone = @ /\ calc = APPROVED]
           after   == UpdateReportStatus(db, own)
<1>1. db.report \in Reports /\ db.approvers \in [Users -> Rows] /\ db.ok \in BOOLEAN
  BY DEF Dbs
<1>2. calc \in {SUBMITTED, NEEDS_ACTION, APPROVED}
  BY OutcomeRange DEF CalculateReportStatus
<1>3. rows \in [Users -> Rows]
  BY <1>1, ClearNotesType
<1>4. cleared \in Dbs /\ cleared.report = db.report /\ cleared.ok = db.ok
  <2> HIDE DEF rows
  <2> QED BY <1>1, <1>3 DEF Dbs
<1>5. after = WriteReport(cleared, new)
  BY <1>1, <1>4 DEF UpdateReportStatus
<1> HIDE DEF calc
<1>6. /\ new \in Reports
      /\ Careful(db.report, new)
      /\ new.submissionStatus = db.report.submissionStatus
      /\ new.calculatedStatus = calc
      /\ new.approvedAt = (calc = APPROVED)
      /\ new.approvedAtTimezone => new.approvedAt
  <2>1. calc \in CalculatedStatuses
    BY <1>2 DEF CalculatedStatuses, Verdicts, SubmissionStatuses
  <2>2. (calc = APPROVED) \in BOOLEAN /\ (db.report.approvedAtTimezone /\ calc = APPROVED) \in BOOLEAN
    OBVIOUS
  <2> QED BY <1>1, <2>1, <2>2 DEF Reports, Careful
<1> HIDE DEF after, new, cleared, rows
<1>7. Kept(cleared)
  BY <1>4 DEF Kept
<1>8. /\ Kept(after)
      /\ after.report.approvedAt = new.approvedAt
      /\ after.report.approvedAtTimezone = new.approvedAtTimezone
  BY <1>4, <1>5, <1>6, <1>7, WriteReportFacts
<1>9. /\ after.report.submissionStatus = new.submissionStatus
      /\ new.submissionStatus = SUBMITTED => after.report.calculatedStatus = calc
  BY <1>4, <1>5, <1>6, WriteReportType
<1> QED BY <1>6, <1>8, <1>9 DEF Stamped, after

\* afterDestroy keeps the facts; the stamp it keeps when nobody is left.
LEMMA AfterDestroyFacts ==
  ASSUME NEW db \in Dbs, Kept(db)
  PROVE  /\ Kept(AfterDestroy(db))
         /\ Stamped(db) /\ db.report.calculatedStatus # APPROVED /\ Live(db.approvers) = {}
              => Stamped(AfterDestroy(db))
<1> DEFINE calc == CalculateReportStatusFromApprovals(db.approvers)
           new  == [db.report EXCEPT !.calculatedStatus = calc]
<1>1. db.report \in Reports
  BY DEF Dbs
<1>2. calc \in CalculatedStatuses /\ (Live(db.approvers) = {} => calc = SUBMITTED)
  BY OutcomeRange DEF CalculatedStatuses, Verdicts, SubmissionStatuses, CalculateReportStatusFromApprovals
<1>3. CASE db.report.submissionStatus = SUBMITTED
  <2>1. AfterDestroy(db) = WriteReport(db, new)
    BY <1>3 DEF AfterDestroy
  <2> HIDE DEF calc
  <2>2. /\ new \in Reports /\ Careful(db.report, new)
        /\ new.submissionStatus = SUBMITTED /\ new.calculatedStatus = calc
        /\ new.approvedAt = db.report.approvedAt
        /\ new.approvedAtTimezone = db.report.approvedAtTimezone
    BY <1>1, <1>2, <1>3 DEF Reports, Careful
  <2> HIDE DEF new
  <2>3. /\ Kept(WriteReport(db, new))
        /\ WriteReport(db, new).report.approvedAt = new.approvedAt
        /\ WriteReport(db, new).report.approvedAtTimezone = new.approvedAtTimezone
        /\ WriteReport(db, new).report.calculatedStatus = calc
    BY <2>2, WriteReportFacts, WriteReportType
  <2>4. ASSUME Stamped(db), db.report.calculatedStatus # APPROVED, Live(db.approvers) = {}
        PROVE  Stamped(WriteReport(db, new))
    BY <1>2, <1>3, <2>2, <2>3, <2>4 DEF Stamped
  <2> QED BY <2>1, <2>3, <2>4
<1>4. CASE db.report.submissionStatus # SUBMITTED
  <2>1. AfterDestroy(db) = db
    BY <1>4 DEF AfterDestroy
  <2> QED BY <2>1
<1> QED BY <1>3, <1>4

-----------------------------------------------------------------------------
\* A db that differs in its rows only.
LEMMA RowsFacts ==
  ASSUME NEW db \in Dbs, NEW rows \in [Users -> Rows]
  PROVE  LET set == [db EXCEPT !.approvers = rows]
         IN /\ set \in Dbs /\ set.approvers = rows /\ set.report = db.report
            /\ Kept(db) => Kept(set)
            /\ Stamped(db) => Stamped(set)
<1> DEFINE set == [db EXCEPT !.approvers = rows]
<1>1. set \in Dbs /\ set.approvers = rows /\ set.report = db.report /\ set.ok = db.ok
  BY DEF Dbs
<1> HIDE DEF set
<1>2. (Kept(db) => Kept(set)) /\ (Stamped(db) => Stamped(set))
  BY <1>1 DEF Kept, Stamped
<1> QED BY <1>1, <1>2 DEF set

LEMMA SetApproverStatusesFacts ==
  ASSUME NEW db \in Dbs, NEW us \in SUBSET Users, NEW status \in ApproverStatuses, Kept(db)
  PROVE  LET after == SetApproverStatuses(db, us, status)
         IN Kept(after) /\ (Stamped(db) \/ us # {} => Stamped(after))
<1> DEFINE rows == [u \in Users |-> IF u \in us THEN [db.approvers[u] EXCEPT !.status = status]
                                                ELSE db.approvers[u]]
           set  == [db EXCEPT !.approvers = rows]
<1>1. CASE us = {}
  BY <1>1 DEF SetApproverStatuses
<1>2. CASE us # {}
  <2>1. SetApproverStatuses(db, us, status) = UpdateReportStatus(set, status)
    BY <1>2 DEF SetApproverStatuses, Dbs
  <2>2. rows \in [Users -> Rows]
    BY DEF Dbs, Rows
  <2> HIDE DEF rows
  <2>3. set \in Dbs /\ Kept(set)
    BY <2>2, RowsFacts
  <2> HIDE DEF set
  <2> QED BY <2>1, <2>3, HookFacts
<1> QED BY <1>1, <1>2

LEMMA DestroyApproversFacts ==
  ASSUME NEW db \in Dbs, NEW ids \in SUBSET Users, Kept(db)
  PROVE  LET after == DestroyApprovers(db, ids)
         IN /\ Kept(after)
            /\ Stamped(db) /\ db.report.calculatedStatus # APPROVED /\ ids = {}
                 => Stamped(after)
<1> DEFINE gone == Live(db.approvers) \ ids
           Removed(row) == IF row.status = PENDING /\ ~row.note
                           THEN NoRow ELSE [row EXCEPT !.state = "deleted"]
           rows == [u \in Users |-> IF u \in gone THEN Removed(db.approvers[u])
                                                  ELSE db.approvers[u]]
           left == [db EXCEPT !.approvers = rows]
<1>1. CASE gone = {}
  BY <1>1 DEF DestroyApprovers
<1>2. CASE gone # {}
  <2>1. \A row \in Rows : Removed(row) \in Rows /\ Removed(row).state # "live"
    BY DEF Rows, NoRow, ApproverStatuses, Verdicts
  <2>2. rows \in [Users -> Rows]
    BY <2>1 DEF Dbs
  <2>3. ids = {} => Live(rows) = {}
    BY <2>1 DEF Live, Dbs
  <2>4. DestroyApprovers(db, ids) = AfterDestroy(left)
    BY <1>2 DEF DestroyApprovers, Dbs
  <2> HIDE DEF rows
  <2>5. /\ left \in Dbs /\ left.approvers = rows /\ left.report = db.report
        /\ Kept(left) /\ (Stamped(db) => Stamped(left))
    BY <2>2, RowsFacts
  <2> HIDE DEF left
  <2> QED BY <2>3, <2>4, <2>5, AfterDestroyFacts
<1> QED BY <1>1, <1>2

LEMMA TouchApproversFacts ==
  ASSUME NEW db \in Dbs, NEW ids \in SUBSET Users, Kept(db)
  PROVE  LET after == TouchApprovers(db, ids)
         IN Kept(after) /\ (Stamped(db) \/ ids # {} => Stamped(after))
<1> DEFINE rows    == TouchedRows(db.approvers, ids)
           asking  == Asking(db, ids)
           saved   == [db EXCEPT !.approvers = rows]
           settled == IF ids \ asking = {} THEN saved ELSE UpdateReportStatus(saved, PENDING)
<1>1. TouchApprovers(db, ids) = IF asking = {} THEN settled ELSE UpdateReportStatus(settled, NEEDS_ACTION)
  BY DEF TouchApprovers, TouchedRows, Asking
<1>2. PENDING \in ApproverStatuses /\ NEEDS_ACTION \in ApproverStatuses
  BY DEF ApproverStatuses, Verdicts
<1>3. rows \in [Users -> Rows]
  BY DEF TouchedRows, Dbs, Rows, NoRow, ApproverStatuses
<1> HIDE DEF rows, asking
<1>4. saved \in Dbs /\ Kept(saved) /\ (Stamped(db) => Stamped(saved))
  BY <1>3, RowsFacts
<1> HIDE DEF saved
<1>5. settled \in Dbs /\ Kept(settled) /\ (Stamped(db) \/ ids \ asking # {} => Stamped(settled))
  BY <1>2, <1>4, HookType, HookFacts
<1> HIDE DEF settled
<1> QED BY <1>1, <1>2, <1>5, HookFacts

LEMMA RestoreApproversFacts ==
  ASSUME NEW db \in Dbs, NEW ids \in SUBSET Users, Kept(db)
  PROVE  LET after == RestoreApprovers(db, ids)
         IN Kept(after) /\ (Stamped(db) => Stamped(after))
<1> DEFINE restored == {u \in ids : db.approvers[u].state = "deleted"}
           rows == [u \in Users |-> IF u \in restored
                                    THEN [db.approvers[u] EXCEPT !.state = "live"]
                                    ELSE db.approvers[u]]
           set  == [db EXCEPT !.approvers = rows]
<1>1. CASE restored = {}
  BY <1>1 DEF RestoreApprovers
<1>2. CASE restored # {}
  <2>1. rows \in [Users -> Rows]
    BY DEF Dbs, Rows
  <2>2. RestoreApprovers(db, ids) = UpdateReportStatus(set, PENDING)
    BY <1>2 DEF RestoreApprovers
  <2> HIDE DEF rows
  <2>3. set \in Dbs /\ Kept(set)
    BY <2>1, RowsFacts
  <2>4. PENDING \in ApproverStatuses
    BY DEF ApproverStatuses
  <2> HIDE DEF set
  <2> QED BY <2>2, <2>3, <2>4, HookFacts
<1> QED BY <1>1, <1>2

\* syncApprovers stamps the report whenever it lists somebody, and an empty list
\* cannot approve.
LEMMA SyncApproversFacts ==
  ASSUME NEW db \in Dbs, NEW ids \in SUBSET Users, Kept(db)
  PROVE  LET after == SyncApprovers(db, ids)
         IN /\ Kept(after)
            /\ ids # {} \/ (Stamped(db) /\ db.report.calculatedStatus # APPROVED) => Stamped(after)
<1> DEFINE d == DestroyApprovers(db, ids)
           t == TouchApprovers(d, ids)
<1>1. SyncApprovers(db, ids) = RestoreApprovers(t, ids)
  BY DEF SyncApprovers
<1>2. d \in Dbs /\ Kept(d)
      /\ (Stamped(db) /\ db.report.calculatedStatus # APPROVED /\ ids = {} => Stamped(d))
  BY DestroyApproversType, DestroyApproversFacts
<1> HIDE DEF d
<1>3. t \in Dbs /\ Kept(t) /\ (Stamped(d) \/ ids # {} => Stamped(t))
  BY <1>2, TouchApproversType, TouchApproversFacts
<1> HIDE DEF t
<1> QED BY <1>1, <1>2, <1>3, RestoreApproversFacts

-----------------------------------------------------------------------------
\* The inductive invariant.
DatesInv == Inv /\ Facts(report) /\ Stamped(Db)

\* What a handler starts from, and what it has to show of the db it commits.
LEMMA DbFacts ==
  ASSUME DatesInv
  PROVE  /\ Db \in Dbs /\ Db.report = report /\ Db.approvers = approvers /\ report \in Reports
         /\ Kept(Db) /\ Stamped(Db)
BY DbOfState DEF DatesInv, Inv, Db, Kept, TypeOK

LEMMA CommitFacts ==
  ASSUME NEW db \in Dbs, Commit(db), Kept(db), Stamped(db)
  PROVE  Facts(report)' /\ Stamped(Db)'
BY DEF Commit, Kept, Stamped, Db, Facts

\* A request that may write the text of a report finds it not approved.
LEMMA EditableNotApproved ==
  ASSUME NEW u \in Users, DatesInv, CanUpdate(u)
  PROVE  report.calculatedStatus # APPROVED
BY DEF CanUpdate, ReportHasEditableStatus, DatesInv, Facts

LEMMA ChoiceIds ==
  ASSUME NEW c \in ApproverChoices
  PROVE  c.ids \in SUBSET Users
<1>1. CASE c = [given |-> FALSE, ids |-> {}]
  <2>1. c.ids = {}
    BY <1>1
  <2> QED BY <2>1
<1>2. CASE c \in [given : {TRUE}, ids : SUBSET Managers]
  <2>1. c.ids \in SUBSET Managers
    BY <1>2
  <2> QED BY <2>1, UsersAssumption
<1> QED BY <1>1, <1>2 DEF ApproverChoices

LEMMA CreateReportFacts ==
  ASSUME NEW valid \in BOOLEAN, NEW notes \in BOOLEAN,
         NEW collabs \in SUBSET CollaboratorPool, NEW c \in ApproverChoices,
         DatesInv, CreateReport(valid, notes, collabs, c)
  PROVE  Facts(report)' /\ Stamped(Db)'
<1> DEFINE new == [NoReport EXCEPT !.submissionStatus = DRAFT, !.calculatedStatus = DRAFT,
                                   !.additionalNotes = notes, !.valid = valid]
           saved == [Db EXCEPT !.report = new]
           after == CreateOrUpdate(Db, new, c)
<1>1. /\ new \in Reports
      /\ new.submissionStatus = DRAFT /\ new.calculatedStatus = DRAFT /\ ~new.submittedDate
  BY DEF NoReport, Reports, SubmissionStatuses, CalculatedStatuses
<1>2. Db \in Dbs /\ Db.report.submissionStatus = NONE /\ Commit(after)
  BY DbFacts DEF CreateReport
<1> HIDE DEF new
<1>3. saved \in Dbs /\ saved.report = new
  BY <1>1, <1>2 DEF Dbs
<1>4. after = IF c.given THEN SyncApprovers(saved, c.ids) ELSE saved
  BY <1>2 DEF CreateOrUpdate
<1> HIDE DEF saved, after
<1>5. Kept(saved) /\ Stamped(saved) /\ saved.report.calculatedStatus # APPROVED
  BY <1>1, <1>3 DEF Kept, Stamped, Facts
<1>6. after \in Dbs /\ Kept(after) /\ Stamped(after)
  BY <1>3, <1>4, <1>5, ChoiceIds, SyncApproversType, SyncApproversFacts
<1> QED BY <1>2, <1>6, CommitFacts

LEMMA SaveReportFacts ==
  ASSUME NEW u \in Users, NEW valid \in BOOLEAN, NEW notes \in BOOLEAN,
         NEW collabs \in SUBSET CollaboratorPool, NEW c \in ApproverChoices,
         DatesInv, SaveReport(u, valid, notes, collabs, c)
  PROVE  Facts(report)' /\ Stamped(Db)'
<1> DEFINE new == [report EXCEPT !.additionalNotes = notes, !.valid = valid]
           saved == WriteReport(Db, new)
           after == CreateOrUpdate(Db, new, c)
<1>1. /\ Db \in Dbs /\ Db.report = report /\ report \in Reports /\ Kept(Db) /\ Stamped(Db)
      /\ report.calculatedStatus # APPROVED
  BY DbFacts, EditableNotApproved DEF SaveReport
<1>2. /\ new \in Reports /\ Careful(report, new)
      /\ new.submissionStatus = report.submissionStatus
      /\ new.calculatedStatus = report.calculatedStatus
      /\ new.approvedAt = report.approvedAt /\ new.approvedAtTimezone = report.approvedAtTimezone
  BY <1>1 DEF Reports, Careful
<1>3. Commit(after) /\ report.submissionStatus # NONE
  BY DEF SaveReport, Found
<1> HIDE DEF new
<1>4. after = IF c.given THEN SyncApprovers(saved, c.ids) ELSE saved
  BY <1>1, <1>3 DEF CreateOrUpdate
<1>5. /\ saved \in Dbs /\ Kept(saved)
      /\ saved.report.approvedAt = report.approvedAt
      /\ saved.report.approvedAtTimezone = report.approvedAtTimezone
      /\ saved.report.submissionStatus = report.submissionStatus
      /\ report.submissionStatus = SUBMITTED
           => saved.report.calculatedStatus = report.calculatedStatus
  BY <1>1, <1>2, WriteReportType, WriteReportFacts
<1> HIDE DEF saved, after
<1>6. Stamped(saved)
  BY <1>1, <1>5 DEF Stamped
<1>7. /\ after \in Dbs /\ Kept(after)
      /\ report.submissionStatus = SUBMITTED => Stamped(after)
  BY <1>1, <1>4, <1>5, <1>6, ChoiceIds, SyncApproversType, SyncApproversFacts
<1>8. report.submissionStatus # SUBMITTED => Stamped(after)
  BY <1>4, <1>5, ChoiceIds, SyncApproversType DEF Stamped, SameSubmission
<1> QED BY <1>3, <1>7, <1>8, CommitFacts

LEMMA SubmitReportFacts ==
  ASSUME NEW u \in Users, NEW notes \in BOOLEAN, NEW ids \in (SUBSET Users) \ {{}},
         DatesInv, SubmitReport(u, notes, ids)
  PROVE  Facts(report)' /\ Stamped(Db)'
<1> DEFINE new    == [report EXCEPT !.submissionStatus = SUBMITTED, !.additionalNotes = notes]
           db     == WriteReport(Db, new)
           synced == SyncApprovers(db, ids)
           reset  == ResetNeedsAction(synced)
<1>1. /\ Db \in Dbs /\ Db.report = report /\ report \in Reports /\ Kept(Db)
      /\ report.calculatedStatus # APPROVED
  BY DbFacts, EditableNotApproved DEF SubmitReport
<1>2. new \in Reports /\ Careful(report, new)
  BY <1>1 DEF Reports, Careful, SubmissionStatuses
<1>3. Commit(reset)
  BY DEF SubmitReport
<1> HIDE DEF new
<1>4. db \in Dbs /\ Kept(db)
  BY <1>1, <1>2, WriteReportType, WriteReportFacts
<1> HIDE DEF db
<1>5. synced \in Dbs /\ Kept(synced) /\ Stamped(synced)
  BY <1>4, SyncApproversType, SyncApproversFacts
<1> HIDE DEF synced
<1>6. {v \in Live(synced.approvers) : synced.approvers[v].status = NEEDS_ACTION} \subseteq Users
  BY DEF Live
<1>7. reset \in Dbs /\ Kept(reset) /\ Stamped(reset)
  BY <1>5, <1>6, SetApproverStatusesType, SetApproverStatusesFacts DEF ResetNeedsAction, ApproverStatuses
<1> HIDE DEF reset
<1> QED BY <1>3, <1>7, CommitFacts

LEMMA ReviewReportFacts ==
  ASSUME NEW u \in Users, NEW verdict \in Verdicts, NEW note \in BOOLEAN,
         DatesInv, ReviewReport(u, verdict, note)
  PROVE  Facts(report)' /\ Stamped(Db)'
<1> DEFINE rows    == [approvers EXCEPT ![u].note = @ \/ note]
           noted   == [Db EXCEPT !.approvers = rows]
           voted   == SetApproverStatuses(noted, {u}, verdict)
           stamped == StampTimezone(voted)
<1>1. Db \in Dbs /\ Db.approvers = approvers /\ Kept(Db) /\ u \in Live(approvers)
  BY DbFacts DEF ReviewReport, CanReview, IsApprovingManager
<1>2. Commit(stamped)
  BY <1>1 DEF ReviewReport, Db
<1>3. rows \in [Users -> Rows] /\ u \in Live(rows)
  BY <1>1 DEF DatesInv, Inv, TypeOK, Rows, Live
<1> HIDE DEF rows
<1>4. noted \in Dbs /\ Kept(noted) /\ noted.approvers = rows
  BY <1>1, <1>3, RowsFacts
<1> HIDE DEF noted
<1>5. voted \in Dbs /\ Kept(voted) /\ Stamped(voted)
  BY <1>3, <1>4, SetApproverStatusesType, SetApproverStatusesFacts DEF ApproverStatuses
<1> HIDE DEF voted
<1>6. stamped \in Dbs /\ Kept(stamped) /\ Stamped(stamped)
  <2>1. /\ voted.report \in Reports /\ voted.ok \in BOOLEAN
        /\ (voted.report.approvedAtTimezone \/ voted.report.calculatedStatus = APPROVED) \in BOOLEAN
    BY <1>5 DEF Dbs
  <2> DEFINE r == [voted.report EXCEPT !.approvedAtTimezone =
                     voted.report.approvedAtTimezone \/ voted.report.calculatedStatus = APPROVED]
  <2>2. stamped = [voted EXCEPT !.report = r]
    BY <1>5 DEF StampTimezone, Dbs
  <2>3. /\ r \in Reports
        /\ r.submissionStatus = voted.report.submissionStatus
        /\ r.calculatedStatus = voted.report.calculatedStatus
        /\ r.valid = voted.report.valid /\ r.additionalNotes = voted.report.additionalNotes
        /\ r.submittedDate = voted.report.submittedDate /\ r.approvedAt = voted.report.approvedAt
        /\ r.approvedAtTimezone
             = (voted.report.approvedAtTimezone \/ voted.report.calculatedStatus = APPROVED)
    BY <2>1 DEF Reports
  <2> HIDE DEF r, stamped
  <2>4. stamped \in Dbs /\ stamped.report = r /\ stamped.ok = voted.ok
    BY <1>5, <2>2, <2>3 DEF Dbs
  <2> QED BY <1>5, <2>3, <2>4 DEF Kept, Stamped, Facts
<1> HIDE DEF stamped
<1> QED BY <1>2, <1>6, CommitFacts

LEMMA ResetToDraftFacts ==
  ASSUME NEW u \in Users, DatesInv, ResetToDraft(u)
  PROVE  Facts(report)' /\ Stamped(Db)'
<1> DEFINE db  == IF IsApproverAndCreator(u)
                  THEN SetApproverStatuses(Db, Live(approvers), PENDING) ELSE Db
           new == [db.report EXCEPT !.submissionStatus = DRAFT]
<1>1. Db \in Dbs /\ Db.approvers = approvers /\ Kept(Db)
  BY DbFacts
<1>2. Live(approvers) \in SUBSET Users
  BY DEF Live
<1>3. db \in Dbs /\ Kept(db)
  BY <1>1, <1>2, SetApproverStatusesType, SetApproverStatusesFacts DEF ApproverStatuses
<1>4. Commit(WriteReport(db, new))
  BY DEF ResetToDraft
<1> HIDE DEF db
<1>5. new \in Reports /\ new.submissionStatus = DRAFT /\ Careful(db.report, new)
  BY <1>3 DEF Dbs, Reports, SubmissionStatuses, Careful
<1> HIDE DEF new
<1>6. WriteReport(db, new) \in Dbs /\ Kept(WriteReport(db, new)) /\ Stamped(WriteReport(db, new))
  BY <1>3, <1>5, WriteReportType, WriteReportFacts DEF Stamped
<1> QED BY <1>4, <1>6, CommitFacts

LEMMA SoftDeleteReportFacts ==
  ASSUME NEW u \in Users, DatesInv, SoftDeleteReport(u)
  PROVE  Facts(report)' /\ Stamped(Db)'
<1> DEFINE new == [report EXCEPT !.submissionStatus = DELETED]
<1>1. Db \in Dbs /\ Db.report = report /\ report \in Reports /\ Kept(Db)
  BY DbFacts
<1>2. new \in Reports /\ new.submissionStatus = DELETED /\ Careful(report, new)
  BY <1>1 DEF Reports, SubmissionStatuses, Careful
<1>3. Commit(WriteReport(Db, new))
  BY DEF SoftDeleteReport
<1> HIDE DEF new
<1>4. WriteReport(Db, new) \in Dbs /\ Kept(WriteReport(Db, new)) /\ Stamped(WriteReport(Db, new))
  BY <1>1, <1>2, WriteReportType, WriteReportFacts DEF Stamped
<1> QED BY <1>3, <1>4, CommitFacts

LEMMA UnlockReportFacts ==
  ASSUME NEW u \in Users, DatesInv, UnlockReport(u)
  PROVE  Facts(report)' /\ Stamped(Db)'
<1> DEFINE db == SetApproverStatuses(Db, Live(approvers), NEEDS_ACTION)
<1>1. Db \in Dbs /\ Db.approvers = approvers /\ Kept(Db) /\ Stamped(Db)
  BY DbFacts
<1>2. Live(approvers) \in SUBSET Users
  BY DEF Live
<1>3. db \in Dbs /\ Kept(db) /\ Stamped(db)
  BY <1>1, <1>2, SetApproverStatusesType, SetApproverStatusesFacts DEF ApproverStatuses, Verdicts
<1>4. Commit(db)
  BY DEF UnlockReport
<1> HIDE DEF db
<1> QED BY <1>3, <1>4, CommitFacts

-----------------------------------------------------------------------------
LEMMA InitDates == Init => DatesInv
BY InitInv DEF Init, DatesInv, Facts, Stamped, Db, NoReport

LEMMA StepKeepsDates == DatesInv /\ [Next]_vars => DatesInv'
<1> SUFFICES ASSUME DatesInv, [Next]_vars PROVE Facts(report)' /\ Stamped(Db)'
  BY StepKeepsInv DEF DatesInv
<1>1. CASE \E valid, notes \in BOOLEAN, collabs \in SUBSET CollaboratorPool, c \in ApproverChoices :
             CreateReport(valid, notes, collabs, c)
  BY <1>1, CreateReportFacts
<1>2. CASE \E u \in Users, valid, notes \in BOOLEAN, collabs \in SUBSET CollaboratorPool,
              c \in ApproverChoices : SaveReport(u, valid, notes, collabs, c)
  BY <1>2, SaveReportFacts
<1>3. CASE \E u \in Users, notes \in BOOLEAN, ids \in (SUBSET Users) \ {{}} : SubmitReport(u, notes, ids)
  BY <1>3, SubmitReportFacts
<1>4. CASE \E u \in Users, verdict \in Verdicts, note \in BOOLEAN : ReviewReport(u, verdict, note)
  BY <1>4, ReviewReportFacts
<1>5. CASE \E u \in Users : ResetToDraft(u)
  BY <1>5, ResetToDraftFacts
<1>6. CASE \E u \in Users : SoftDeleteReport(u)
  BY <1>6, SoftDeleteReportFacts
<1>7. CASE \E u \in Users : UnlockReport(u)
  BY <1>7, UnlockReportFacts
<1>8. CASE UNCHANGED vars
  BY <1>8 DEF vars, DatesInv, Facts, Stamped, Db
<1> QED BY <1>1, <1>2, <1>3, <1>4, <1>5, <1>6, <1>7, <1>8 DEF Next

\* For any users, permissions and requests, the approval date is set exactly
\* while the approvers' verdicts approve the submitted report.
THEOREM ApprovalAlwaysStamped == Spec => []ApprovalStamped
<1>1. DatesInv => ApprovalStamped
  BY DEF DatesInv, Stamped, Db, ApprovalStamped
<1> QED BY <1>1, InitDates, StepKeepsDates, PTL DEF Spec

\* Nothing invalid is ever approved, by whichever hook.
THEOREM ApprovedAlwaysValid == Spec => []ApprovedIsValid
<1>1. DatesInv => ApprovedIsValid
  BY DEF DatesInv, Facts, ApprovedIsValid
<1> QED BY <1>1, InitDates, StepKeepsDates, PTL DEF Spec

\* The submission date follows the calculated status.
THEOREM SubmittedDateAlwaysKept == Spec => []SubmittedDateKept
<1>1. DatesInv => SubmittedDateKept
  BY DEF DatesInv, Facts, SubmittedDateKept
<1> QED BY <1>1, InitDates, StepKeepsDates, PTL DEF Spec

-----------------------------------------------------------------------------
\* The handlers implement ApprovalContract.

\* What happens to the rows in the phases of a request.
LEMMA HookKeepsRows ==
  ASSUME NEW db \in Dbs, NEW own
  PROVE  HookRows(db.approvers, UpdateReportStatus(db, own).approvers)
BY DEF Dbs, UpdateReportStatus, WriteReport, HookRows

LEMMA WriteKeepsRows ==
  ASSUME NEW db \in Dbs, NEW new
  PROVE  WriteReport(db, new).approvers = db.approvers
BY DEF Dbs, WriteReport

LEMMA SetApproverStatusesRows ==
  ASSUME NEW db \in Dbs, NEW us, us \subseteq Live(db.approvers), NEW status \in ApproverStatuses,
         NEW b, b = SetApproverStatuses(db, us, status).approvers
  PROVE  /\ b \in [Users -> Rows]
         /\ NobodyLeaves(db.approvers, b) /\ Live(b) = Live(db.approvers)
         /\ \A u \in us : b[u].status = status
         /\ \A u \in Users \ us : b[u].status = db.approvers[u].status
<1> DEFINE rows == MarkedRows(db.approvers, us, status)
           set  == [db EXCEPT !.approvers = rows]
<1>1. db.approvers \in [Users -> Rows] /\ us \subseteq Users
  BY DEF Dbs, Live
<1>2. CASE us = {}
  BY <1>1, <1>2 DEF SetApproverStatuses, NobodyLeaves
<1>3. CASE us # {}
  <2>1. SetApproverStatuses(db, us, status) = UpdateReportStatus(set, status)
    BY <1>3 DEF SetApproverStatuses, Dbs, MarkedRows
  <2>2. /\ rows \in [Users -> Rows]
        /\ NobodyLeaves(db.approvers, rows) /\ Live(rows) = Live(db.approvers)
        /\ \A u \in us : rows[u].status = status
        /\ \A u \in Users \ us : rows[u].status = db.approvers[u].status
    BY <1>1 DEF MarkedRows, NobodyLeaves, Live, Rows
  <2> HIDE DEF rows
  <2>3. set \in Dbs /\ set.approvers = rows
    BY <2>2, RowsFacts
  <2> HIDE DEF set
  <2>4. HookRows(rows, b)
    BY <2>1, <2>3, HookKeepsRows
  <2>5. /\ b \in [Users -> Rows] /\ NobodyLeaves(rows, b) /\ SameVotes(rows, b) /\ Live(b) = Live(rows)
    BY <2>2, <2>4, HookRowsType
  <2>6. NobodyLeaves(db.approvers, b)
    BY <1>1, <2>2, <2>5, NobodyTwice
  <2>7. \A u \in Users : b[u].status = rows[u].status
    BY <2>5 DEF SameVotes
  <2> QED BY <1>1, <2>2, <2>5, <2>6, <2>7
<1> QED BY <1>2, <1>3

LEMMA SyncApproversRows ==
  ASSUME NEW db \in Dbs, NEW ids \in SUBSET Users, Clean(db.approvers)
  PROVE  LET b == SyncApprovers(db, ids).approvers
         IN /\ b \in [Users -> Rows]
            /\ MayLeave(db.approvers, b) /\ SameBallots(db.approvers, b) /\ Live(b) = ids
<1> DEFINE d == DestroyApprovers(db, ids)
           t == TouchApprovers(d, ids)
           r == RestoreApprovers(t, ids)
<1>1. db.approvers \in [Users -> Rows]
  BY DEF Dbs
<1>2. d \in Dbs /\ t \in Dbs
  BY DestroyApproversType, TouchApproversType
<1>3. HookRows(ListedRows(db.approvers, ids), d.approvers)
  <2> DEFINE gone == Live(db.approvers) \ ids
             left == [db EXCEPT !.approvers = ListedRows(db.approvers, ids)]
  <2>1. CASE gone = {}
    BY <1>1, <2>1 DEF DestroyApprovers, ListedRows, HookRows
  <2>2. CASE gone # {}
    <3>1. d = AfterDestroy(left)
      BY <2>2 DEF DestroyApprovers, ListedRows, RemovedRow, Dbs
    <3>2. left \in Dbs /\ left.approvers = ListedRows(db.approvers, ids)
      BY <1>1, ListedRowsType, RowsFacts
    <3> HIDE DEF left, d
    <3> QED BY <3>1, <3>2, AfterDestroyType DEF HookRows
  <2> QED BY <2>1, <2>2
<1> HIDE DEF d
<1>4. \E s : HookRows(TouchedRows(d.approvers, ids), s) /\ HookRows(s, t.approvers)
  <2> DEFINE asking  == Asking(d, ids)
             rows    == TouchedRows(d.approvers, ids)
             saved   == [d EXCEPT !.approvers = rows]
             settled == IF ids \ asking = {} THEN saved ELSE UpdateReportStatus(saved, PENDING)
  <2>1. t = IF asking = {} THEN settled ELSE UpdateReportStatus(settled, NEEDS_ACTION)
    BY DEF TouchApprovers, TouchedRows, Asking
  <2>2. rows \in [Users -> Rows]
    BY <1>2 DEF TouchedRows, Dbs, Rows, NoRow, ApproverStatuses
  <2>3. PENDING \in ApproverStatuses
    BY DEF ApproverStatuses
  <2> HIDE DEF rows, asking, t
  <2>4. saved \in Dbs /\ saved.approvers = rows
    BY <1>2, <2>2, RowsFacts
  <2> HIDE DEF saved
  <2>5. settled \in Dbs /\ HookRows(rows, settled.approvers)
    BY <2>3, <2>4, HookType, HookKeepsRows DEF HookRows
  <2> HIDE DEF settled
  <2>6. HookRows(settled.approvers, t.approvers)
    BY <2>1, <2>5, HookKeepsRows DEF HookRows
  <2> QED BY <2>5, <2>6 DEF rows
<1> HIDE DEF t
<1>5. HookRows(RestoredRows(t.approvers, ids), r.approvers)
  <2> DEFINE back == {u \in ids : t.approvers[u].state = "deleted"}
             rows == RestoredRows(t.approvers, ids)
             set  == [t EXCEPT !.approvers = rows]
  <2>0. t.approvers \in [Users -> Rows]
    BY <1>2 DEF Dbs
  <2>1. CASE back = {}
    BY <2>0, <2>1 DEF RestoreApprovers, RestoredRows, HookRows
  <2>2. CASE back # {}
    <3>1. r = UpdateReportStatus(set, PENDING)
      BY <2>2 DEF RestoreApprovers, RestoredRows
    <3>2. rows \in [Users -> Rows]
      BY <2>0, RestoredRowsType
    <3> HIDE DEF rows, r
    <3>3. set \in Dbs /\ set.approvers = rows
      BY <1>2, <3>2, RowsFacts
    <3> HIDE DEF set
    <3> QED BY <3>1, <3>3, HookKeepsRows DEF rows
  <2> QED BY <2>1, <2>2
<1>6. SyncApprovers(db, ids) = r
  BY DEF SyncApprovers, d, t
<1> HIDE DEF r
<1> QED BY <1>1, <1>3, <1>4, <1>5, <1>6, SyncRows

-----------------------------------------------------------------------------
\* The invariant of the mapping, and the votes of a set of rows.
ContractInv == DatesInv /\ Clean(approvers)

Ballots(a) == [u \in Users |-> a[u].status]

\* The contract computes the outcome that the hooks compute.
LEMMA SameOutcome ==
  ASSUME NEW a \in [Users -> Rows]
  PROVE  Contract!Outcome(Live(a), Ballots(a)) = CalculateReportStatusFromApprovals(a)
BY DEF Contract!Outcome, CalculateReportStatusFromApprovals, Ballots, Live

\* Wherever the invariant holds, what is shown follows stage, list and ballots.
LEMMA StatusFollows ==
  ASSUME DatesInv', report'.submissionStatus \in {DRAFT, SUBMITTED}
  PROVE  Contract!Follows
<1>1. approvers' \in [Users -> Rows]
  BY DEF DatesInv, Inv, TypeOK
<1>2. CASE report'.submissionStatus = SUBMITTED
  <2>1. report'.calculatedStatus = CalculateReportStatusFromApprovals(approvers')
    BY <1>2 DEF DatesInv, Inv, StatusDerivedFromApprovers
  <2>2. Contract!Outcome(Live(approvers'), Ballots(approvers')) = report'.calculatedStatus
    BY <1>1, <2>1, SameOutcome
  <2> QED BY <1>2, <2>2 DEF Contract!Follows, Contract!Shown, Ballots
<1>3. CASE report'.submissionStatus = DRAFT
  BY <1>3 DEF DatesInv, Facts, Contract!Follows, Contract!Shown
<1> QED BY <1>2, <1>3

\* What a handler finds.
LEMMA StateFacts ==
  ASSUME ContractInv
  PROVE  /\ Db \in Dbs /\ Db.report = report /\ Db.approvers = approvers
         /\ report \in Reports /\ approvers \in [Users -> Rows] /\ Clean(approvers)
         /\ Found => Contract!Open
BY DbFacts DEF ContractInv, DatesInv, Inv, TypeOK, Found, Contract!Open

LEMMA CreateReportContract ==
  ASSUME NEW valid \in BOOLEAN, NEW notes \in BOOLEAN,
         NEW collabs \in SUBSET CollaboratorPool, NEW c \in ApproverChoices,
         ContractInv, DatesInv', CreateReport(valid, notes, collabs, c)
  PROVE  MayLeave(approvers, approvers') /\ \E l \in SUBSET Users : Contract!Create(l)
<1> DEFINE new == [NoReport EXCEPT !.submissionStatus = DRAFT, !.calculatedStatus = DRAFT,
                                   !.additionalNotes = notes, !.valid = valid]
           saved == [Db EXCEPT !.report = new]
           after == CreateOrUpdate(Db, new, c)
<1>1. new \in Reports /\ new.submissionStatus = DRAFT
  BY DEF NoReport, Reports, SubmissionStatuses, CalculatedStatuses
<1>2. /\ Db \in Dbs /\ Db.report.submissionStatus = NONE /\ Db.approvers = approvers
      /\ Clean(approvers) /\ Commit(after)
  BY StateFacts DEF CreateReport
<1> HIDE DEF new
<1>3. saved \in Dbs /\ saved.report = new /\ saved.approvers = approvers
  BY <1>1, <1>2 DEF Dbs
<1>4. after = IF c.given THEN SyncApprovers(saved, c.ids) ELSE saved
  BY <1>2 DEF CreateOrUpdate
<1> HIDE DEF saved, after
<1>5. /\ MayLeave(approvers, after.approvers) /\ SameBallots(approvers, after.approvers)
      /\ after.report.submissionStatus = DRAFT
  BY <1>1, <1>2, <1>3, <1>4, ChoiceIds, SyncApproversRows, SyncApproversType
     DEF MayLeave, SameBallots, SameSubmission
<1>6. approvers' = after.approvers /\ report'.submissionStatus = DRAFT
  BY <1>2, <1>5 DEF Commit
<1>7. Ballots(approvers') = Ballots(approvers)
  BY <1>5, <1>6 DEF Ballots, SameBallots
<1>8. Contract!Follows /\ report.submissionStatus = NONE
  BY <1>6, StatusFollows DEF CreateReport
<1>9. Contract!Create(Live(approvers'))
  <2>1. [u \in Users |-> approvers'[u].status] = [u \in Users |-> approvers[u].status]
    BY <1>7 DEF Ballots
  <2> QED BY <1>6, <1>8, <2>1 DEF Contract!Create
<1>10. Live(approvers') \in SUBSET Users
  BY DEF Live
<1>11. MayLeave(approvers, approvers')
  BY <1>5, <1>6
<1> QED BY <1>9, <1>10, <1>11

LEMMA SaveReportContract ==
  ASSUME NEW u \in Users, NEW valid \in BOOLEAN, NEW notes \in BOOLEAN,
         NEW collabs \in SUBSET CollaboratorPool, NEW c \in ApproverChoices,
         ContractInv, DatesInv', SaveReport(u, valid, notes, collabs, c)
  PROVE  MayLeave(approvers, approvers') /\ \E l \in SUBSET Users : Contract!EditApprovers(l)
<1> DEFINE new == [report EXCEPT !.additionalNotes = notes, !.valid = valid]
           saved == WriteReport(Db, new)
           after == CreateOrUpdate(Db, new, c)
<1>1. /\ Db \in Dbs /\ Db.report = report /\ Db.approvers = approvers
      /\ report \in Reports /\ Clean(approvers)
      /\ Found /\ Contract!Open /\ report.calculatedStatus # APPROVED
  BY StateFacts, EditableNotApproved DEF SaveReport, ContractInv
<1>2. new \in Reports /\ new.submissionStatus = report.submissionStatus
  BY <1>1 DEF Reports
<1>3. Commit(after) /\ report.submissionStatus \in {DRAFT, SUBMITTED}
  BY DEF SaveReport, Found
<1> HIDE DEF new
<1>4. after = IF c.given THEN SyncApprovers(saved, c.ids) ELSE saved
  BY <1>1, <1>3 DEF CreateOrUpdate
<1>5. /\ saved \in Dbs /\ saved.approvers = approvers
      /\ saved.report.submissionStatus = report.submissionStatus
  BY <1>1, <1>2, WriteReportType
<1> HIDE DEF saved, after
<1>6. /\ MayLeave(approvers, after.approvers) /\ SameBallots(approvers, after.approvers)
      /\ after.report.submissionStatus = report.submissionStatus
  BY <1>1, <1>4, <1>5, ChoiceIds, SyncApproversRows, SyncApproversType
     DEF MayLeave, SameBallots, SameSubmission
<1>7. approvers' = after.approvers /\ report'.submissionStatus = report.submissionStatus
  BY <1>3, <1>6 DEF Commit
<1>8. Ballots(approvers') = Ballots(approvers)
  BY <1>6, <1>7 DEF Ballots, SameBallots
<1>9. Contract!Follows
  BY <1>3, <1>7, StatusFollows
<1>10. Contract!EditApprovers(Live(approvers'))
  <2>1. [v \in Users |-> approvers'[v].status] = [v \in Users |-> approvers[v].status]
    BY <1>8 DEF Ballots
  <2> QED BY <1>1, <1>7, <1>9, <2>1 DEF Contract!EditApprovers
<1>11. Live(approvers') \in SUBSET Users
  BY DEF Live
<1>12. MayLeave(approvers, approvers')
  BY <1>6, <1>7
<1> QED BY <1>10, <1>11, <1>12

LEMMA SubmitReportContract ==
  ASSUME NEW u \in Users, NEW notes \in BOOLEAN, NEW ids \in (SUBSET Users) \ {{}},
         ContractInv, DatesInv', SubmitReport(u, notes, ids)
  PROVE  MayLeave(approvers, approvers') /\ \E l \in SUBSET Users : Contract!Submit(l)
<1> DEFINE new    == [report EXCEPT !.submissionStatus = SUBMITTED, !.additionalNotes = notes]
           db     == WriteReport(Db, new)
           synced == SyncApprovers(db, ids)
           asking == {v \in Live(synced.approvers) : synced.approvers[v].status = NEEDS_ACTION}
           reset  == ResetNeedsAction(synced)
<1>1. /\ Db \in Dbs /\ Db.report = report /\ Db.approvers = approvers
      /\ report \in Reports /\ approvers \in [Users -> Rows] /\ Clean(approvers)
      /\ Contract!Open /\ report.calculatedStatus # APPROVED
  BY StateFacts, EditableNotApproved DEF SubmitReport, ContractInv
<1>2. new \in Reports /\ new.submissionStatus = SUBMITTED
  BY <1>1 DEF Reports, SubmissionStatuses
<1>3. Commit(reset)
  BY DEF SubmitReport
<1> HIDE DEF new
<1>4. db \in Dbs /\ db.approvers = approvers /\ db.report.submissionStatus = SUBMITTED
  BY <1>1, <1>2, WriteReportType
<1> HIDE DEF db
<1>5. /\ synced \in Dbs /\ synced.approvers \in [Users -> Rows]
      /\ MayLeave(approvers, synced.approvers) /\ SameBallots(approvers, synced.approvers)
      /\ Live(synced.approvers) = ids /\ synced.report.submissionStatus = SUBMITTED
  BY <1>1, <1>4, SyncApproversType, SyncApproversRows DEF SameSubmission
<1> HIDE DEF synced
<1>6. reset = SetApproverStatuses(synced, asking, PENDING) /\ asking \in SUBSET Live(synced.approvers)
      /\ PENDING \in ApproverStatuses
  BY DEF ResetNeedsAction, ApproverStatuses
<1>7. asking = {v \in ids : approvers[v].status = NEEDS_ACTION}
  BY <1>5 DEF SameBallots
<1> HIDE DEF asking, reset
<1>8. /\ reset \in Dbs /\ reset.approvers \in [Users -> Rows]
      /\ NobodyLeaves(synced.approvers, reset.approvers) /\ Live(reset.approvers) = ids
      /\ \A v \in asking : reset.approvers[v].status = PENDING
      /\ \A v \in Users \ asking : reset.approvers[v].status = synced.approvers[v].status
      /\ reset.report.submissionStatus = SUBMITTED
  BY <1>5, <1>6, SetApproverStatusesType, SetApproverStatusesRows DEF SameSubmission
<1>9. approvers' = reset.approvers /\ report'.submissionStatus = SUBMITTED
  BY <1>3, <1>8 DEF Commit
<1>10. MayLeave(approvers, approvers')
  BY <1>1, <1>5, <1>8, <1>9, LeavingThenNot
<1>11. Ballots(approvers') = [v \in Users |-> IF v \in ids /\ Ballots(approvers)[v] = NEEDS_ACTION
                                              THEN PENDING ELSE Ballots(approvers)[v]]
  BY <1>5, <1>7, <1>8, <1>9 DEF Ballots, SameBallots
<1>12. Contract!Submit(ids)
  BY <1>1, <1>8, <1>9, <1>11, StatusFollows DEF Contract!Submit, Ballots
<1> QED BY <1>10, <1>12

LEMMA ReviewReportContract ==
  ASSUME NEW u \in Users, NEW verdict \in Verdicts, NEW note \in BOOLEAN,
         ContractInv, DatesInv', ReviewReport(u, verdict, note)
  PROVE  MayLeave(approvers, approvers') /\ Contract!Cast(u, verdict)
<1> DEFINE rows    == [approvers EXCEPT ![u].note = @ \/ note]
           noted   == [Db EXCEPT !.approvers = rows]
           voted   == SetApproverStatuses(noted, {u}, verdict)
           stamped == StampTimezone(voted)
<1>1. /\ Db \in Dbs /\ Db.report = report /\ Db.approvers = approvers
      /\ approvers \in [Users -> Rows] /\ u \in Live(approvers)
      /\ Contract!Open /\ report.submissionStatus \in {DRAFT, SUBMITTED}
  BY StateFacts DEF ReviewReport, CanReview, IsApprovingManager, Found
<1>2. Commit(stamped)
  BY <1>1 DEF ReviewReport, Db
<1>3. /\ rows \in [Users -> Rows] /\ NobodyLeaves(approvers, rows) /\ Live(rows) = Live(approvers)
      /\ SameBallots(approvers, rows)
  BY <1>1 DEF Rows, Live, NobodyLeaves, SameBallots
<1> HIDE DEF rows
<1>4. noted \in Dbs /\ noted.approvers = rows /\ noted.report = report
  BY <1>1, <1>3, RowsFacts
<1> HIDE DEF noted
<1>5. /\ voted \in Dbs /\ voted.approvers \in [Users -> Rows]
      /\ NobodyLeaves(rows, voted.approvers) /\ Live(voted.approvers) = Live(rows)
      /\ voted.approvers[u].status = verdict
      /\ \A v \in Users \ {u} : voted.approvers[v].status = rows[v].status
      /\ voted.report.submissionStatus = report.submissionStatus
  <2>1. {u} \subseteq Live(noted.approvers) /\ verdict \in ApproverStatuses
    BY <1>1, <1>3, <1>4 DEF ApproverStatuses
  <2>2. voted \in Dbs /\ voted.report.submissionStatus = report.submissionStatus
    BY <1>4, <2>1, SetApproverStatusesType DEF SameSubmission
  <2> DEFINE us == {u}
             b  == voted.approvers
  <2>3. us \subseteq Live(noted.approvers) /\ b = SetApproverStatuses(noted, us, verdict).approvers
    BY <2>1
  <2>4. u \in us /\ Users \ {u} = Users \ us
    OBVIOUS
  <2> HIDE DEF us, b
  <2>5. /\ b \in [Users -> Rows] /\ NobodyLeaves(rows, b) /\ Live(b) = Live(rows)
        /\ \A v \in us : b[v].status = verdict
        /\ \A v \in Users \ us : b[v].status = rows[v].status
    BY <1>4, <2>1, <2>3, SetApproverStatusesRows
  <2> QED BY <2>2, <2>4, <2>5 DEF b
<1> HIDE DEF voted
<1>6. stamped.approvers = voted.approvers
      /\ stamped.report.submissionStatus = voted.report.submissionStatus
  BY <1>5 DEF StampTimezone, Dbs, Reports
<1> HIDE DEF stamped
<1>7. approvers' = voted.approvers /\ report'.submissionStatus = report.submissionStatus
  BY <1>2, <1>5, <1>6 DEF Commit
<1>8. MayLeave(approvers, approvers')
  BY <1>1, <1>3, <1>5, <1>7, NobodyTwice, NobodyIsSome
<1>9. Ballots(approvers') = [Ballots(approvers) EXCEPT ![u] = verdict]
  BY <1>3, <1>5, <1>7 DEF Ballots, SameBallots
<1>10. Live(approvers') = Live(approvers)
  BY <1>3, <1>5, <1>7
<1>11. Contract!Cast(u, verdict)
  BY <1>1, <1>7, <1>9, <1>10, StatusFollows DEF Contract!Cast, Ballots
<1> QED BY <1>8, <1>11

LEMMA ResetToDraftContract ==
  ASSUME NEW u \in Users, ContractInv, DatesInv', ResetToDraft(u)
  PROVE  MayLeave(approvers, approvers') /\ Contract!Withdraw
<1> DEFINE db  == IF IsApproverAndCreator(u)
                  THEN SetApproverStatuses(Db, Live(approvers), PENDING) ELSE Db
           new == [db.report EXCEPT !.submissionStatus = DRAFT]
<1>1. /\ Db \in Dbs /\ Db.approvers = approvers /\ approvers \in [Users -> Rows]
      /\ Contract!Open
  BY StateFacts DEF ResetToDraft
<1>2. /\ db \in Dbs
      /\ NobodyLeaves(approvers, db.approvers) /\ Live(db.approvers) = Live(approvers)
      /\ IF IsApproverAndCreator(u)
         THEN /\ \A v \in Live(approvers) : db.approvers[v].status = PENDING
              /\ \A v \in Users \ Live(approvers) : db.approvers[v].status = approvers[v].status
         ELSE db.approvers = approvers
  <2>1. CASE IsApproverAndCreator(u)
    BY <1>1, <2>1, SetApproverStatusesType, SetApproverStatusesRows DEF ApproverStatuses
  <2>2. CASE ~IsApproverAndCreator(u)
    BY <1>1, <2>2 DEF NobodyLeaves
  <2> QED BY <2>1, <2>2
<1>3. Commit(WriteReport(db, new))
  BY DEF ResetToDraft
<1> HIDE DEF db
<1>4. new \in Reports /\ new.submissionStatus = DRAFT
  BY <1>2 DEF Dbs, Reports, SubmissionStatuses
<1> HIDE DEF new
<1>5. approvers' = db.approvers /\ report'.submissionStatus = DRAFT
  BY <1>2, <1>3, <1>4, WriteReportType DEF Commit
<1>6. MayLeave(approvers, approvers')
  BY <1>2, <1>5 DEF MayLeave, NobodyLeaves
<1>7. Live(approvers') = Live(approvers)
  BY <1>2, <1>5
<1>8. \/ Ballots(approvers') = [v \in Users |-> IF v \in Live(approvers) THEN PENDING
                                                ELSE Ballots(approvers)[v]]
      \/ report.calculatedStatus = SUBMITTED /\ Ballots(approvers') = Ballots(approvers)
  BY <1>2, <1>5 DEF Ballots, ResetToDraft, CanReset
<1>9. Contract!Follows
  BY <1>5, StatusFollows
<1>10. Contract!Withdraw
  BY <1>1, <1>5, <1>7, <1>8, <1>9 DEF Contract!Withdraw, Ballots
<1> QED BY <1>6, <1>10

LEMMA SoftDeleteReportContract ==
  ASSUME NEW u \in Users, ContractInv, SoftDeleteReport(u)
  PROVE  MayLeave(approvers, approvers') /\ Contract!Delete
<1> DEFINE new == [report EXCEPT !.submissionStatus = DELETED]
<1>1. Db \in Dbs /\ Db.report = report /\ Db.approvers = approvers /\ report \in Reports
      /\ Contract!Open
  BY StateFacts DEF SoftDeleteReport
<1>2. new.submissionStatus = DELETED /\ new \in Reports
  BY <1>1 DEF Reports, SubmissionStatuses
<1>3. Commit(WriteReport(Db, new)) /\ report.calculatedStatus # APPROVED
  BY DEF SoftDeleteReport, CanDelete
<1> HIDE DEF new
<1>4. /\ WriteReport(Db, new).approvers = approvers
      /\ WriteReport(Db, new).report = ReportBeforeUpdate(report, new)
  BY <1>1 DEF WriteReport, Dbs
<1>5. ReportBeforeUpdate(report, new).submissionStatus = DELETED
      /\ ReportBeforeUpdate(report, new).calculatedStatus = DELETED
  BY <1>2 DEF ReportBeforeUpdate, CopyStatus, Reports
<1>6. approvers' = approvers /\ report'.submissionStatus = DELETED /\ report'.calculatedStatus = DELETED
  BY <1>3, <1>4, <1>5 DEF Commit
<1>7. Contract!Delete
  BY <1>1, <1>3, <1>6 DEF Contract!Delete, Contract!Follows, Contract!Shown
<1> QED BY <1>6, <1>7 DEF MayLeave

LEMMA UnlockReportContract ==
  ASSUME NEW u \in Users, ContractInv, DatesInv', UnlockReport(u)
  PROVE  MayLeave(approvers, approvers') /\ Contract!Unlock
<1> DEFINE db == SetApproverStatuses(Db, Live(approvers), NEEDS_ACTION)
<1>1. /\ Db \in Dbs /\ Db.report = report /\ Db.approvers = approvers
      /\ approvers \in [Users -> Rows]
      /\ report.submissionStatus \in {DRAFT, SUBMITTED} /\ report.calculatedStatus = APPROVED
  BY StateFacts DEF UnlockReport, Found, CanUnlock
<1>2. /\ db \in Dbs /\ db.report.submissionStatus = report.submissionStatus
      /\ NobodyLeaves(approvers, db.approvers) /\ Live(db.approvers) = Live(approvers)
      /\ \A v \in Live(approvers) : db.approvers[v].status = NEEDS_ACTION
      /\ \A v \in Users \ Live(approvers) : db.approvers[v].status = approvers[v].status
  BY <1>1, SetApproverStatusesType, SetApproverStatusesRows
     DEF ApproverStatuses, Verdicts, SameSubmission
<1>3. Commit(db)
  BY DEF UnlockReport
<1> HIDE DEF db
<1>4. approvers' = db.approvers /\ report'.submissionStatus = report.submissionStatus
  BY <1>2, <1>3 DEF Commit
<1>5. MayLeave(approvers, approvers')
  BY <1>2, <1>4 DEF MayLeave, NobodyLeaves
<1>6. Ballots(approvers') = [v \in Users |-> IF v \in Live(approvers) THEN NEEDS_ACTION
                                             ELSE Ballots(approvers)[v]]
  BY <1>2, <1>4 DEF Ballots
<1>7. Live(approvers') = Live(approvers)
  BY <1>2, <1>4
<1>8. Contract!Follows
  BY <1>1, <1>4, StatusFollows
<1>9. Contract!Unlock
  BY <1>1, <1>4, <1>6, <1>7, <1>8 DEF Contract!Unlock, Ballots
<1> QED BY <1>5, <1>9

-----------------------------------------------------------------------------
LEMMA InitContract == Init => ContractInv /\ Contract!CInit
<1> SUFFICES ASSUME Init PROVE Clean(approvers) /\ Contract!CInit
  BY InitDates DEF ContractInv
<1>1. Clean(approvers)
  BY DEF Init, Clean, NoRow
<1>2. Live(approvers) = {} /\ Ballots(approvers) = [u \in Users |-> PENDING]
  BY DEF Init, Live, NoRow, Ballots
<1> QED BY <1>1, <1>2 DEF Init, Contract!CInit, NoReport, Ballots

\* Every request is a step of the contract, and at most takes users off the list.
LEMMA StepIsContract ==
  ContractInv /\ [Next]_vars => ContractInv' /\ MayLeave(approvers, approvers')
                                 /\ [Contract!CNext]_Contract!cvars
<1> SUFFICES ASSUME ContractInv, [Next]_vars
             PROVE  ContractInv' /\ MayLeave(approvers, approvers')
                    /\ [Contract!CNext]_Contract!cvars
  OBVIOUS
<1>0. DatesInv'
  BY StepKeepsDates DEF ContractInv
<1>1. MayLeave(approvers, approvers') /\ [Contract!CNext]_Contract!cvars
  <2>1. CASE \E valid, notes \in BOOLEAN, collabs \in SUBSET CollaboratorPool, c \in ApproverChoices :
               CreateReport(valid, notes, collabs, c)
    BY <1>0, <2>1, CreateReportContract DEF Contract!CNext
  <2>2. CASE \E u \in Users, valid, notes \in BOOLEAN, collabs \in SUBSET CollaboratorPool,
                c \in ApproverChoices : SaveReport(u, valid, notes, collabs, c)
    BY <1>0, <2>2, SaveReportContract DEF Contract!CNext
  <2>3. CASE \E u \in Users, notes \in BOOLEAN, ids \in (SUBSET Users) \ {{}} : SubmitReport(u, notes, ids)
    BY <1>0, <2>3, SubmitReportContract DEF Contract!CNext
  <2>4. CASE \E u \in Users, verdict \in Verdicts, note \in BOOLEAN : ReviewReport(u, verdict, note)
    BY <1>0, <2>4, ReviewReportContract DEF Contract!CNext, Verdicts
  <2>5. CASE \E u \in Users : ResetToDraft(u)
    BY <1>0, <2>5, ResetToDraftContract DEF Contract!CNext
  <2>6. CASE \E u \in Users : SoftDeleteReport(u)
    BY <2>6, SoftDeleteReportContract DEF Contract!CNext
  <2>7. CASE \E u \in Users : UnlockReport(u)
    BY <1>0, <2>7, UnlockReportContract DEF Contract!CNext
  <2>8. CASE UNCHANGED vars
    BY <2>8 DEF vars, MayLeave, Contract!cvars, Live
  <2> QED BY <2>1, <2>2, <2>3, <2>4, <2>5, <2>6, <2>7, <2>8 DEF Next
<1>2. Clean(approvers)'
  <2>1. approvers \in [Users -> Rows] /\ approvers' \in [Users -> Rows] /\ Clean(approvers)
    BY <1>0 DEF ContractInv, DatesInv, Inv, TypeOK
  <2> QED BY <1>1, <2>1, LeavingKeepsClean
<1> QED BY <1>0, <1>1, <1>2 DEF ContractInv

\* The handlers with all their hooks implement the contract, for any users,
\* permissions and requests: the status shown is the outcome of standing votes
\* that only their users cast.
THEOREM ContractImplemented == Spec => ImplementsContract
BY InitContract, StepIsContract, PTL DEF Spec, ImplementsContract, Contract!ContractSpec

\* No request erases the review of an approver who is off the list.
THEOREM ReviewsNeverLost == Spec => ReviewsOutliveRemoval
<1> DEFINE ReviewsKept == \A u \in Users :
       approvers[u].status # PENDING /\ approvers'[u].state # "live"
         => /\ approvers'[u].state = "deleted"
            /\ approvers'[u].status = approvers[u].status
            /\ approvers'[u].note = approvers[u].note
<1>1. ContractInv /\ [Next]_vars => [ReviewsKept]_vars
  <2> SUFFICES ASSUME ContractInv, [Next]_vars PROVE ReviewsKept
    OBVIOUS
  <2>1. ContractInv' /\ MayLeave(approvers, approvers')
    BY StepIsContract
  <2>2. approvers \in [Users -> Rows] /\ approvers' \in [Users -> Rows] /\ Clean(approvers)
    BY <2>1 DEF ContractInv, DatesInv, Inv, TypeOK
  <2> QED BY <2>1, <2>2, LeavingKeepsReviews
<1>2. ContractInv /\ [Next]_vars => ContractInv'
  BY StepIsContract
<1> QED BY <1>1, <1>2, InitContract, PTL DEF Spec, ReviewsOutliveRemoval

\* A submission of a draft leaves no request for changes: it is a step of the
\* contract, and of those only Submit leads from a draft to a submitted report.
THEOREM SubmissionsClear == Spec => SubmissionClearsRequests
<1> DEFINE Cleared == report.submissionStatus = DRAFT /\ report'.submissionStatus = SUBMITTED
                        => \A u \in Live(approvers)' : approvers'[u].status # NEEDS_ACTION
<1>1. ContractInv /\ [Next]_vars => [Cleared]_vars
  <2> SUFFICES ASSUME ContractInv, [Next]_vars,
                      report.submissionStatus = DRAFT, report'.submissionStatus = SUBMITTED,
                      NEW u \in Live(approvers)'
               PROVE  approvers'[u].status # NEEDS_ACTION
    OBVIOUS
  <2>1. [Contract!CNext]_Contract!cvars
    BY StepIsContract
  <2>2. PICK l \in SUBSET Users : Contract!Submit(l)
    BY <2>1 DEF Contract!CNext, Contract!cvars, Contract!Create, Contract!EditApprovers,
                Contract!Cast, Contract!Withdraw, Contract!Unlock, Contract!Delete
  <2>3. u \in l /\ u \in Users
    BY <2>2 DEF Contract!Submit
  <2>4. Ballots(approvers')[u] # NEEDS_ACTION
    BY <2>2, <2>3 DEF Contract!Submit, Ballots
  <2> QED BY <2>3, <2>4 DEF Ballots
<1>2. ContractInv /\ [Next]_vars => ContractInv'
  BY StepIsContract
<1> QED BY <1>1, <1>2, InitContract, PTL DEF Spec, SubmissionClearsRequests

-----------------------------------------------------------------------------
\* What is shown follows stage, list and ballots in every state of the contract.
Followed ==
  report.calculatedStatus
    = Contract!Shown(report.submissionStatus, Live(approvers), Ballots(approvers))

\* The moves of the status: GoalLifecycle has a request for each, and for no other.
Moves ==
  {<<NONE, DRAFT>>}
    \union ({DRAFT} \X {SUBMITTED, APPROVED, DELETED})
    \union ({SUBMITTED} \X {NEEDS_ACTION, APPROVED, DRAFT, DELETED})
    \union ({NEEDS_ACTION} \X {SUBMITTED, APPROVED, DRAFT, DELETED})
    \union ({APPROVED} \X {NEEDS_ACTION, DRAFT})

Moved ==
  \/ report'.calculatedStatus = report.calculatedStatus
  \/ <<report.calculatedStatus, report'.calculatedStatus>> \in Moves

\* Of the contract's steps: a submission leaves no request for changes, so it ends
\* submitted or approved; a ballot that ends an approval asks for changes.
LEMMA StepMoves ==
  ASSUME TypeOK, Followed, [Contract!CNext]_Contract!cvars
  PROVE  Followed' /\ Moved
<1> DEFINE stage == report.submissionStatus
           status == report.calculatedStatus
           l == Live(approvers)
           b == Ballots(approvers)
<1>0. /\ status = Contract!Shown(stage, l, b)
      /\ Contract!Open => stage \in {DRAFT, SUBMITTED}
      /\ Contract!Follows <=> Followed'
      /\ \A k, c : Contract!Outcome(k, c) \in {SUBMITTED, NEEDS_ACTION, APPROVED}
  BY DEF Followed, Contract!Open, Contract!Follows, Ballots, Contract!Outcome
<1>1. CASE UNCHANGED Contract!cvars
  BY <1>1 DEF Contract!cvars, Followed, Moved, Ballots
<1>2. ASSUME NEW k \in SUBSET Users, Contract!Create(k) PROVE Followed' /\ Moved
  BY <1>0, <1>2 DEF Contract!Create, Followed, Moved, Moves, Contract!Shown
<1>3. ASSUME NEW k \in SUBSET Users, Contract!EditApprovers(k) PROVE Followed' /\ Moved
  BY <1>0, <1>3 DEF Contract!EditApprovers, Followed, Moved, Moves, Contract!Shown
<1>4. ASSUME NEW k \in SUBSET Users, Contract!Submit(k) PROVE Followed' /\ Moved
  <2>1. /\ Followed' /\ status # APPROVED /\ stage \in {DRAFT, SUBMITTED}
        /\ stage' = SUBMITTED /\ l' = k
        /\ b' = [u \in Users |-> IF u \in k /\ b[u] = NEEDS_ACTION THEN PENDING ELSE b[u]]
    BY <1>0, <1>4 DEF Contract!Submit, Ballots
  <2>2. \A u \in k : b'[u] # NEEDS_ACTION
    BY <2>1
  <2>3. status' \in {SUBMITTED, APPROVED}
    BY <2>1, <2>2 DEF Followed, Contract!Shown, Contract!Outcome
  <2> QED BY <1>0, <2>1, <2>3 DEF Moved, Moves, Contract!Shown
<1>5. ASSUME NEW u \in Users, NEW c \in {APPROVED, NEEDS_ACTION}, Contract!Cast(u, c)
      PROVE  Followed' /\ Moved
  <2>1. /\ Followed' /\ stage \in {DRAFT, SUBMITTED} /\ u \in l
        /\ stage' = stage /\ l' = l /\ b' = [b EXCEPT ![u] = c]
    BY <1>0, <1>5 DEF Contract!Cast, Ballots
  <2>2. CASE stage = DRAFT
    BY <1>0, <2>1, <2>2 DEF Moved, Followed, Contract!Shown
  <2>3. CASE stage = SUBMITTED
    <3>1. status = Contract!Outcome(l, b) /\ status' = Contract!Outcome(l, b')
      BY <1>0, <2>1, <2>3 DEF Followed, Contract!Shown
    <3>2. CASE status # APPROVED
      <4>1. /\ status \in {SUBMITTED, NEEDS_ACTION}
            /\ status' \in {SUBMITTED, NEEDS_ACTION, APPROVED}
        BY <3>1, <3>2 DEF Contract!Outcome
      <4> QED BY <2>1, <4>1 DEF Moved, Moves
    <3>3. CASE status = APPROVED
      <4>1. \A v \in l : b[v] = APPROVED
        BY <3>1, <3>3 DEF Contract!Outcome
      <4>2. l \subseteq Users
        BY DEF Live
      <4>3. \A v \in l : b'[v] = IF v = u THEN c ELSE APPROVED
        BY <2>1, <4>1, <4>2 DEF Ballots
      <4>4. status' \in {APPROVED, NEEDS_ACTION}
        BY <2>1, <3>1, <4>3 DEF Contract!Outcome
      <4> QED BY <2>1, <3>3, <4>4 DEF Moved, Moves
    <3> QED BY <3>2, <3>3
  <2> QED BY <2>1, <2>2, <2>3
<1>6. CASE Contract!Withdraw
  BY <1>0, <1>6 DEF Contract!Withdraw, Followed, Moved, Moves, Contract!Shown
<1>7. CASE Contract!Unlock
  <2>1. /\ Followed' /\ status = APPROVED /\ stage' = stage /\ l' = l
        /\ b' = [u \in Users |-> IF u \in l THEN NEEDS_ACTION ELSE b[u]]
    BY <1>0, <1>7 DEF Contract!Unlock, Ballots
  <2>2. \A u \in l : b'[u] = NEEDS_ACTION
    BY <2>1 DEF Live
  <2>3. status' \in {status, NEEDS_ACTION}
    BY <1>0, <2>1, <2>2 DEF Followed, Contract!Shown, Contract!Outcome
  <2> QED BY <2>1, <2>3 DEF Moved, Moves
<1>8. CASE Contract!Delete
  BY <1>0, <1>8 DEF Contract!Delete, Followed, Moved, Moves, Contract!Shown
<1> QED BY <1>1, <1>2, <1>3, <1>4, <1>5, <1>6, <1>7, <1>8 DEF Contract!CNext

\* Whatever requests, permissions and hooks there are, a step leaves the status or
\* makes one of these moves: an approved report is neither deleted nor submitted
\* again, and a deleted one does not come back.
THEOREM StatusMoves == Spec => [][Moved]_vars
<1>1. Init => ContractInv /\ Followed
  BY InitContract DEF Init, NoReport, Followed, Contract!Shown
<1>2. ContractInv /\ Followed /\ [Next]_vars => (ContractInv /\ Followed)' /\ Moved
  BY StepIsContract, StepMoves DEF ContractInv, DatesInv, Inv
<1> QED BY <1>1, <1>2, PTL DEF Spec
=============================================================================
