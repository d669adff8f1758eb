------------------------- MODULE CollabReport_proofs -------------------------
(***************************************************************************)
(* The collaboration report keeps its types and its verdicts backed, shows *)
(* the outcome after every request but one, erases no review, and          *)
(* implements ApprovalContract.                                            *)
(***************************************************************************)
EXTENDS CollabReport, ReportHooks_proofs

USE DEF NONE, DRAFT, SUBMITTED, NEEDS_ACTION, APPROVED, DELETED, PENDING

-----------------------------------------------------------------------------
\* What one transaction sees of the collaboration report.
CollabDbs == [report : CollabReports, approvers : [Users -> Rows], ok : BOOLEAN]

\* A hook or a phase of a request: it changes at most the calculated status, and
\* nothing of a report that is not submitted.
Phase(db, d) ==
  /\ d \in CollabDbs
  /\ d.ok = db.ok
  /\ d.report.submissionStatus = db.report.submissionStatus
  /\ d.report.complete = db.report.complete
  /\ d.report.deleted = db.report.deleted
  /\ db.report.submissionStatus # SUBMITTED => d.report = db.report

\* The status of a submitted report is the outcome of its approvers.
Derived(db) ==
  db.report.submissionStatus = SUBMITTED =>
    db.report.calculatedStatus = CalculateReportStatusFromApprovals(db.approvers)

LEMMA PhaseTwice ==
  ASSUME NEW a, NEW b, NEW c, Phase(a, b), Phase(b, c)
  PROVE  Phase(a, c)
BY DEF Phase

LEMMA CollabRowsFacts ==
  ASSUME NEW db \in CollabDbs, NEW rows \in [Users -> Rows],
         NEW d, d = [db EXCEPT !.approvers = rows]
  PROVE  d.approvers = rows /\ d.report = db.report /\ Phase(db, d)
BY DEF CollabDbs, Phase

-----------------------------------------------------------------------------
\* The hook after a write of a row.
LEMMA RecalculatePhase ==
  ASSUME NEW db \in CollabDbs, NEW own, NEW d, d = Recalculate(db, own)
  PROVE  /\ Phase(db, d)
         /\ HookRows(db.approvers, d.approvers)
         /\ db.report.submissionStatus = SUBMITTED
              => d.report.calculatedStatus = CalculateReportStatus(own, db.approvers)
<1> DEFINE calc      == CalculateReportStatus(own, db.approvers)
           approving == calc = APPROVED /\ db.report.calculatedStatus # APPROVED
<1>1. calc \in {SUBMITTED, NEEDS_ACTION, APPROVED}
  BY OutcomeRange DEF CalculateReportStatus
<1>2. ClearNotes(db.approvers) \in [Users -> Rows]
  BY ClearNotesType DEF CollabDbs
<1>3. CASE db.report.submissionStatus # SUBMITTED
  BY <1>3 DEF Recalculate, Phase, HookRows
<1>4. CASE db.report.submissionStatus = SUBMITTED
  <2>1. d = [db EXCEPT !.report.calculatedStatus = calc,
                       !.approvers = IF approving THEN ClearNotes(@) ELSE @]
    BY <1>4 DEF Recalculate
  <2> HIDE DEF calc
  <2>2. d = [report    |-> [db.report EXCEPT !.calculatedStatus = calc],
             approvers |-> IF approving THEN ClearNotes(db.approvers) ELSE db.approvers,
             ok        |-> db.ok]
    BY <2>1 DEF CollabDbs
  <2> HIDE DEF approving
  <2>3. HookRows(db.approvers, d.approvers) /\ d.approvers \in [Users -> Rows]
    BY <1>2, <2>2 DEF HookRows, CollabDbs
  <2>4. Phase(db, d) /\ d.report.calculatedStatus = calc
    BY <1>1, <1>4, <2>2, <2>3 DEF Phase, CollabDbs, CollabReports, Verdicts
  <2> QED BY <2>3, <2>4 DEF calc
<1> QED BY <1>3, <1>4

\* Unless the row asks for changes it is derived.
LEMMA RecalculateDerives ==
  ASSUME NEW db \in CollabDbs, NEW own,
         own = NEEDS_ACTION => CalculateReportStatusFromApprovals(db.approvers) = NEEDS_ACTION,
         NEW d, d = Recalculate(db, own)
  PROVE  Derived(d)
<1>1. /\ Phase(db, d) /\ HookRows(db.approvers, d.approvers)
      /\ db.report.submissionStatus = SUBMITTED
           => d.report.calculatedStatus = CalculateReportStatus(own, db.approvers)
  BY RecalculatePhase
<1>2. db.approvers \in [Users -> Rows]
  BY DEF CollabDbs
<1>3. CalculateReportStatusFromApprovals(d.approvers) = CalculateReportStatusFromApprovals(db.approvers)
  <2>1. SameVotes(db.approvers, d.approvers)
    BY <1>1, <1>2, HookRowsType
  <2> QED BY <2>1, OutcomeIgnoresNotes
<1> QED BY <1>1, <1>3 DEF Derived, Phase, CalculateReportStatus

\* The hook after the removal of rows.
LEMMA AfterDestroyPhase ==
  ASSUME NEW db \in CollabDbs, NEW d, d = RecalculateAfterDestroy(db)
  PROVE  Phase(db, d) /\ Derived(d) /\ d.approvers = db.approvers
<1>1. CalculateReportStatusFromApprovals(db.approvers) \in {SUBMITTED, NEEDS_ACTION, APPROVED}
  BY OutcomeRange
<1> QED
  BY <1>1 DEF RecalculateAfterDestroy, Phase, Derived, CollabDbs, CollabReports, Verdicts

-----------------------------------------------------------------------------
\* A status given to some of the listed.
Marked(db, us, status, d) ==
  /\ Phase(db, d)
  /\ NobodyLeaves(db.approvers, d.approvers) /\ Live(d.approvers) = Live(db.approvers)
  /\ \A u \in us : d.approvers[u].status = status
  /\ \A u \in Users \ us : d.approvers[u].status = db.approvers[u].status
  /\ us # {} => Derived(d)
  /\ us = {} => d = db

LEMMA SetStatusesFacts ==
  ASSUME NEW db \in CollabDbs, NEW us, us \subseteq Live(db.approvers), NEW status \in ApproverStatuses,
         NEW d, d = SetStatuses(db, us, status)
  PROVE  Marked(db, us, status, d)
<1> DEFINE rows == MarkedRows(db.approvers, us, status)
           set  == [db EXCEPT !.approvers = rows]
<1>1. db.approvers \in [Users -> Rows] /\ us \subseteq Users
  BY DEF CollabDbs, Live
<1>2. CASE us = {}
  BY <1>1, <1>2 DEF SetStatuses, NobodyLeaves, Phase, Marked
<1>3. CASE us # {}
  <2>1. d = Recalculate(set, status)
    BY <1>3 DEF SetStatuses, CollabDbs, MarkedRows
  <2>2. /\ rows \in [Users -> Rows]
        /\ NobodyLeaves(db.approvers, rows) /\ Live(rows) = Live(db.approvers)
        /\ \A u \in us : rows[u].status = status
        /\ \A u \in Users \ us : rows[u].status = db.approvers[u].status
    BY <1>1 DEF MarkedRows, NobodyLeaves, Live, Rows
  <2> HIDE DEF rows
  <2>3. set \in CollabDbs /\ set.approvers = rows /\ Phase(db, set)
    BY <2>2, CollabRowsFacts DEF Phase
  <2> HIDE DEF set
  <2>4. Phase(set, d) /\ HookRows(rows, d.approvers)
    BY <2>1, <2>3, RecalculatePhase
  <2>5. /\ d.approvers \in [Users -> Rows] /\ NobodyLeaves(rows, d.approvers)
        /\ SameVotes(rows, d.approvers) /\ Live(d.approvers) = Live(rows)
    BY <2>2, <2>4, HookRowsType
  <2>6. NobodyLeaves(db.approvers, d.approvers)
    BY <1>1, <2>2, <2>5, NobodyTwice
  <2>7. \A u \in Users : d.approvers[u].status = rows[u].status
    BY <2>5 DEF SameVotes
  <2>8. status = NEEDS_ACTION => CalculateReportStatusFromApprovals(rows) = NEEDS_ACTION
    BY <1>3, <2>2 DEF CalculateReportStatusFromApprovals
  <2>9. Derived(d)
    BY <2>1, <2>3, <2>8, RecalculateDerives
  <2>10. Phase(db, d)
    BY <2>3, <2>4, PhaseTwice
  <2> QED BY <1>1, <1>3, <2>2, <2>5, <2>6, <2>7, <2>9, <2>10 DEF Marked
<1> QED BY <1>2, <1>3

-----------------------------------------------------------------------------
\* The phases of a synchronisation, with their hooks.
LEMMA RemovePhase ==
  ASSUME NEW db \in CollabDbs, NEW ids \in SUBSET Users, NEW d, d = RemoveUnlisted(db, ids)
  PROVE  /\ Phase(db, d)
         /\ HookRows(ListedRows(db.approvers, ids), d.approvers)
         /\ IF Live(db.approvers) \ ids = {} THEN d = db ELSE Derived(d)
<1> DEFINE gone == Live(db.approvers) \ ids
           left == [db EXCEPT !.approvers = ListedRows(db.approvers, ids)]
<1>1. db.approvers \in [Users -> Rows]
  BY DEF CollabDbs
<1>2. CASE gone = {}
  BY <1>1, <1>2 DEF RemoveUnlisted, ListedRows, HookRows, Phase
<1>3. CASE gone # {}
  <2>1. d = RecalculateAfterDestroy(left)
    BY <1>3 DEF RemoveUnlisted, ListedRows, RemovedRow, CollabDbs
  <2>2. left \in CollabDbs /\ left.approvers = ListedRows(db.approvers, ids) /\ Phase(db, left)
    BY <1>1, ListedRowsType, CollabRowsFacts DEF Phase
  <2> HIDE DEF left
  <2>3. Phase(left, d) /\ Derived(d) /\ d.approvers = left.approvers
    BY <2>1, <2>2, AfterDestroyPhase
  <2> QED BY <1>3, <2>2, <2>3, PhaseTwice DEF HookRows
<1> QED BY <1>2, <1>3

\* Rows that are still deleted may leave a request for changes in the status.
LEMMA UpsertPhase ==
  ASSUME NEW db \in CollabDbs, NEW ids \in SUBSET Users, Clean(db.approvers),
         NEW d, d = UpsertListed(db, ids)
  PROVE  /\ Phase(db, d)
         /\ \E s : HookRows(TouchedRows(db.approvers, ids), s) /\ HookRows(s, d.approvers)
         /\ ids = {} => d.approvers = db.approvers /\ d.report = db.report
         /\ ids # {} => Derived(d) \/ \E u \in ids : d.approvers[u].state = "deleted"
<1> DEFINE rows    == TouchedRows(db.approvers, ids)
           asking  == {u \in ids : rows[u].state = "deleted" /\ rows[u].status = NEEDS_ACTION}
           saved   == [db EXCEPT !.approvers = rows]
           settled == IF ids \ asking = {} THEN saved ELSE Recalculate(saved, PENDING)
<1>1. d = IF asking = {} THEN settled ELSE Recalculate(settled, NEEDS_ACTION)
  BY DEF UpsertListed, TouchedRows
<1>2. rows \in [Users -> Rows] /\ db.approvers \in [Users -> Rows]
  BY TouchedRowsType DEF CollabDbs
<1>3. ids = {} => rows = db.approvers
  BY <1>2 DEF TouchedRows
<1>4. asking \subseteq ids /\ \A u \in asking : rows[u].state = "deleted"
  OBVIOUS
<1> HIDE DEF rows, asking
<1>5. saved \in CollabDbs /\ saved.approvers = rows /\ saved.report = db.report /\ Phase(db, saved)
  BY <1>2, CollabRowsFacts DEF Phase
<1> HIDE DEF saved
<1>6. /\ settled \in CollabDbs /\ Phase(db, settled) /\ HookRows(rows, settled.approvers)
      /\ ids \ asking # {} => Derived(settled)
      /\ ids \ asking = {} => settled = saved
  <2>1. CASE ids \ asking = {}
    BY <1>5, <2>1 DEF HookRows
  <2>2. CASE ids \ asking # {}
    BY <1>5, <2>2, RecalculatePhase, RecalculateDerives, PhaseTwice DEF Phase
  <2> QED BY <2>1, <2>2
<1> HIDE DEF settled
<1>7. /\ Phase(db, d) /\ HookRows(settled.approvers, d.approvers)
      /\ asking = {} => d = settled
  <2>1. CASE asking = {}
    BY <1>1, <1>6, <2>1 DEF HookRows
  <2>2. CASE asking # {}
    BY <1>1, <1>6, <2>2, RecalculatePhase, PhaseTwice
  <2> QED BY <2>1, <2>2
<1>8. SameVotes(rows, settled.approvers) /\ SameVotes(settled.approvers, d.approvers)
  BY <1>2, <1>6, <1>7, HookRowsType DEF CollabDbs
<1>9. \A u \in asking : d.approvers[u].state = "deleted"
  BY <1>4, <1>8 DEF SameVotes
<1>10. \E s : HookRows(rows, s) /\ HookRows(s, d.approvers)
  BY <1>6, <1>7
<1> QED BY <1>3, <1>4, <1>5, <1>6, <1>7, <1>9, <1>10 DEF rows

LEMMA RestorePhase ==
  ASSUME NEW db \in CollabDbs, NEW ids \in SUBSET Users, NEW d, d = RestoreListed(db, ids)
  PROVE  /\ Phase(db, d)
         /\ HookRows(RestoredRows(db.approvers, ids), d.approvers)
         /\ IF \E u \in ids : db.approvers[u].state = "deleted" THEN Derived(d) ELSE d = db
<1> DEFINE back == {u \in ids : db.approvers[u].state = "deleted"}
           rows == RestoredRows(db.approvers, ids)
           set  == [db EXCEPT !.approvers = rows]
<1>1. db.approvers \in [Users -> Rows]
  BY DEF CollabDbs
<1>2. CASE back = {}
  BY <1>1, <1>2 DEF RestoreListed, RestoredRows, HookRows, Phase
<1>3. CASE back # {}
  <2>1. d = Recalculate(set, PENDING)
    BY <1>3 DEF RestoreListed, RestoredRows, CollabDbs
  <2>2. rows \in [Users -> Rows]
    BY <1>1, RestoredRowsType
  <2> HIDE DEF rows
  <2>3. set \in CollabDbs /\ set.approvers = rows /\ Phase(db, set)
    BY <2>2, CollabRowsFacts DEF Phase
  <2> HIDE DEF set
  <2>4. Phase(set, d) /\ HookRows(rows, d.approvers) /\ Derived(d)
    BY <2>1, <2>3, RecalculatePhase, RecalculateDerives
  <2> QED BY <1>3, <2>3, <2>4, PhaseTwice DEF rows
<1> QED BY <1>2, <1>3

\* A synchronisation sets the list, moves no vote, and derives the status of a
\* submitted report, unless nobody is or was listed: no hook runs then.
LEMMA SyncFacts ==
  ASSUME NEW db \in CollabDbs, NEW ids \in SUBSET Users, Clean(db.approvers),
         NEW d, d = SyncCRApprovers(db, ids)
  PROVE  /\ Phase(db, d)
         /\ MayLeave(db.approvers, d.approvers) /\ SameBallots(db.approvers, d.approvers)
         /\ Live(d.approvers) = ids
         /\ ids # {} \/ Live(db.approvers) # {} => Derived(d)
         /\ ids = {} /\ Live(db.approvers) = {} => d.report = db.report
<1> DEFINE a == RemoveUnlisted(db, ids)
           b == UpsertListed(a, ids)
<1>0. d = RestoreListed(b, ids) /\ db.approvers \in [Users -> Rows]
  BY DEF SyncCRApprovers, CollabDbs
<1>1. /\ Phase(db, a) /\ HookRows(ListedRows(db.approvers, ids), a.approvers)
      /\ IF Live(db.approvers) \ ids = {} THEN a = db ELSE Derived(a)
  BY RemovePhase
<1> HIDE DEF a
<1>2. a \in CollabDbs /\ Clean(a.approvers)
  <2>1. /\ ListedRows(db.approvers, ids) \in [Users -> Rows]
        /\ MayLeave(db.approvers, ListedRows(db.approvers, ids))
    BY <1>0, ListedRowsType
  <2>2. a.approvers \in [Users -> Rows] /\ NobodyLeaves(ListedRows(db.approvers, ids), a.approvers)
    BY <1>1, <2>1, HookRowsType
  <2>3. MayLeave(db.approvers, a.approvers)
    BY <1>0, <2>1, <2>2, LeavingThenNot
  <2> QED BY <1>0, <1>1, <2>2, <2>3, LeavingKeepsClean DEF Phase
<1>3. /\ Phase(a, b)
      /\ \E s : HookRows(TouchedRows(a.approvers, ids), s) /\ HookRows(s, b.approvers)
      /\ ids = {} => b.approvers = a.approvers /\ b.report = a.report
      /\ ids # {} => Derived(b) \/ \E u \in ids : b.approvers[u].state = "deleted"
  BY <1>2, UpsertPhase
<1> HIDE DEF b
<1>4. /\ Phase(b, d) /\ HookRows(RestoredRows(b.approvers, ids), d.approvers)
      /\ IF \E u \in ids : b.approvers[u].state = "deleted" THEN Derived(d) ELSE d = b
  BY <1>0, <1>3, RestorePhase DEF Phase
<1>5. /\ MayLeave(db.approvers, d.approvers) /\ SameBallots(db.approvers, d.approvers)
      /\ Live(d.approvers) = ids
  BY <1>0, <1>1, <1>3, <1>4, SyncRows
<1>6. Phase(db, d)
  BY <1>1, <1>3, <1>4, PhaseTwice
<1>7. CASE ids # {}
  BY <1>3, <1>4, <1>5, <1>6, <1>7
<1>8. CASE ids = {}
  BY <1>1, <1>3, <1>4, <1>5, <1>6, <1>8 DEF Derived
<1> QED BY <1>7, <1>8

-----------------------------------------------------------------------------
\* The invariant: beside the types and the verdicts, a report is submitted before
\* it has a verdict, one not created is not deleted, and a missing row is empty.
CollabInv ==
  /\ TypeOK
  /\ VerdictBacked
  /\ Clean(approvers)
  /\ report.submissionStatus = NONE => report.calculatedStatus = NONE /\ ~report.deleted
  /\ report.submissionStatus = SUBMITTED => report.calculatedStatus \in Verdicts \union {SUBMITTED}

Ballots(a) == [u \in Users |-> a[u].status]

LEMMA CollabFacts ==
  ASSUME CollabInv
  PROVE  /\ Db \in CollabDbs /\ Db.report = report /\ Db.approvers = approvers /\ Db.ok = TRUE
         /\ report \in CollabReports /\ approvers \in [Users -> Rows] /\ Clean(approvers)
         /\ Found => Contract!Open
BY DEF CollabInv, TypeOK, Db, CollabDbs, Found, Contract!Open, CollabReports

\* Who may edit does not edit an approved report.
LEMMA UpdatableNotApproved ==
  ASSUME CollabInv, NEW u, CanUpdate(u)
  PROVE  report.calculatedStatus # APPROVED
BY DEF CollabInv, CanUpdate, VerdictBacked, ReportHasEditableStatus

LEMMA SameOutcome ==
  ASSUME NEW a \in [Users -> Rows]
  PROVE  Contract!Outcome(Live(a), Ballots(a)) = CalculateReportStatusFromApprovals(a)
BY DEF Contract!Outcome, CalculateReportStatusFromApprovals, Ballots, Live

\* What a step that is not a deletion leaves behind.
Sound ==
  /\ report' \in CollabReports /\ approvers' \in [Users -> Rows]
  /\ ~report'.deleted
  /\ MayLeave(approvers, approvers')
  /\ specialists' \subseteq SpecialistPool
  /\ \/ report'.submissionStatus = DRAFT /\ report'.calculatedStatus = DRAFT
     \/ report'.submissionStatus = SUBMITTED
        /\ report'.calculatedStatus = CalculateReportStatusFromApprovals(approvers')
     \/ report'.submissionStatus = SUBMITTED /\ report'.calculatedStatus = SUBMITTED

\* ... and what every such step but one leaves behind.
DerivedNext ==
  report'.submissionStatus = SUBMITTED =>
    report'.calculatedStatus = CalculateReportStatusFromApprovals(approvers')

LEMMA SoundInv ==
  ASSUME CollabInv, Sound
  PROVE  CollabInv'
<1>1. TypeOK'
  BY DEF Sound, TypeOK
<1>2. Clean(approvers')
  BY LeavingKeepsClean DEF Sound, CollabInv, TypeOK
<1>3. CalculateReportStatusFromApprovals(approvers') \in {SUBMITTED, NEEDS_ACTION, APPROVED}
  BY OutcomeRange
<1> QED BY <1>1, <1>2, <1>3 DEF Sound, CollabInv, VerdictBacked, Verdicts

\* A report shows its stage in draft and the outcome once submitted.
LEMMA StatusFollows ==
  ASSUME approvers' \in [Users -> Rows], ~report'.deleted,
         \/ report'.submissionStatus = DRAFT /\ report'.calculatedStatus = DRAFT
         \/ report'.submissionStatus = SUBMITTED
            /\ report'.calculatedStatus = CalculateReportStatusFromApprovals(approvers')
  PROVE  Contract!Follows
<1>1. Contract!Outcome(Live(approvers'), Ballots(approvers'))
        = CalculateReportStatusFromApprovals(approvers')
  BY SameOutcome
<1> QED BY <1>1 DEF Contract!Follows, Contract!Shown, Ballots

-----------------------------------------------------------------------------
LEMMA CreateReportSound ==
  ASSUME NEW complete \in BOOLEAN, NEW specs \in SUBSET SpecialistPool, NEW c \in Lists,
         CollabInv, CreateReport(complete, specs, c)
  PROVE  Sound /\ report'.submissionStatus = DRAFT /\ \E l \in SUBSET Users : Contract!Create(l)
<1> DEFINE new   == [report EXCEPT !.submissionStatus = DRAFT, !.calculatedStatus = DRAFT,
                                   !.complete = complete]
           saved == [Db EXCEPT !.report = new]
           after == SyncCRApprovers(saved, c.ids)
<1>1. /\ Db \in CollabDbs /\ Db.report = report /\ Db.approvers = approvers
      /\ report \in CollabReports /\ approvers \in [Users -> Rows] /\ Clean(approvers)
      /\ report.submissionStatus = NONE /\ ~report.deleted
  BY CollabFacts DEF CreateReport, CollabInv
<1>2. Commit(after) /\ c.ids \in SUBSET Users /\ specialists' \subseteq SpecialistPool
  BY <1>1 DEF CreateReport, CreateOrUpdateReport, Lists
<1>3. /\ new \in CollabReports /\ new.submissionStatus = DRAFT /\ new.calculatedStatus = DRAFT
      /\ ~new.deleted
  BY <1>1 DEF CollabReports
<1> HIDE DEF new
<1>4. saved \in CollabDbs /\ saved.report = new /\ saved.approvers = approvers
  BY <1>1, <1>3 DEF CollabDbs
<1> HIDE DEF saved
<1>5. /\ Phase(saved, after) /\ MayLeave(approvers, after.approvers)
      /\ SameBallots(approvers, after.approvers) /\ Live(after.approvers) = c.ids
  BY <1>1, <1>2, <1>4, SyncFacts
<1> HIDE DEF after
<1>6. report' = new /\ approvers' = after.approvers /\ approvers' \in [Users -> Rows]
  BY <1>2, <1>3, <1>4, <1>5 DEF Commit, Phase, CollabDbs
<1>7. Sound
  BY <1>2, <1>3, <1>5, <1>6 DEF Sound
<1>8. Ballots(approvers') = Ballots(approvers)
  BY <1>5, <1>6 DEF Ballots, SameBallots
<1>9. Contract!Follows
  BY <1>3, <1>6, StatusFollows
<1>10. Contract!Create(c.ids)
  BY <1>1, <1>3, <1>5, <1>6, <1>8, <1>9 DEF Contract!Create, Ballots
<1> QED BY <1>2, <1>3, <1>6, <1>7, <1>10

LEMMA SaveReportSound ==
  ASSUME NEW u \in Users, NEW complete \in BOOLEAN, NEW specs \in SUBSET SpecialistPool,
         NEW c \in Lists \union {Omitted},
         CollabInv, SaveReport(u, complete, specs, c)
  PROVE  /\ Sound /\ DerivedNext
         /\ \E l \in SUBSET Users : Contract!EditApprovers(l)
<1> DEFINE new   == [report EXCEPT !.complete = complete]
           ids   == IF c.given THEN c.ids ELSE Live(approvers)
           saved == UpdateReport(Db, new)
           after == SyncCRApprovers(saved, ids)
<1>1. /\ Db \in CollabDbs /\ Db.report = report /\ Db.approvers = approvers
      /\ report \in CollabReports /\ approvers \in [Users -> Rows] /\ Clean(approvers)
      /\ report.submissionStatus \in {DRAFT, SUBMITTED} /\ ~report.deleted /\ Contract!Open
      /\ report.calculatedStatus # APPROVED
  BY CollabFacts, UpdatableNotApproved DEF SaveReport, Found, CollabReports
<1>2. Commit(after) /\ specialists' \subseteq SpecialistPool
  BY <1>1 DEF SaveReport, CreateOrUpdateReport
<1>3. ids \in SUBSET Users
  <2>1. CASE c \in Lists
    BY <2>1 DEF Lists, Live
  <2>2. CASE c = Omitted
    BY <2>2 DEF Omitted, Live
  <2> QED BY <2>1, <2>2
<1> HIDE DEF ids
<1>4. /\ new \in CollabReports /\ new.submissionStatus = report.submissionStatus
      /\ new.calculatedStatus = report.calculatedStatus /\ new.deleted = report.deleted
  BY <1>1 DEF CollabReports
<1> HIDE DEF new
<1>5. saved \in CollabDbs /\ saved.report = new /\ saved.approvers = approvers
  BY <1>1, <1>4 DEF CollabDbs, UpdateReport
<1> HIDE DEF saved
<1>6. /\ Phase(saved, after) /\ MayLeave(approvers, after.approvers)
      /\ SameBallots(approvers, after.approvers) /\ Live(after.approvers) = ids
      /\ ids # {} \/ Live(approvers) # {} => Derived(after)
      /\ ids = {} /\ Live(approvers) = {} => after.report = new
  BY <1>1, <1>3, <1>5, SyncFacts
<1> HIDE DEF after
<1>7. /\ report' = after.report /\ approvers' = after.approvers
      /\ approvers' \in [Users -> Rows] /\ report' \in CollabReports
      /\ report'.submissionStatus = report.submissionStatus /\ ~report'.deleted
  BY <1>1, <1>2, <1>4, <1>5, <1>6 DEF Commit, Phase, CollabDbs
<1>8. ASSUME report.submissionStatus = DRAFT
      PROVE  Contract!Follows /\ Sound /\ DerivedNext
  <2>1. report' = new /\ report'.calculatedStatus = DRAFT
    BY <1>4, <1>5, <1>6, <1>7, <1>8 DEF Phase, CollabInv, VerdictBacked
  <2>2. Sound
    BY <1>2, <1>6, <1>7, <1>8, <2>1 DEF Sound
  <2>3. Contract!Follows
    BY <1>7, <1>8, <2>1, StatusFollows
  <2> QED BY <1>7, <1>8, <2>1, <2>2, <2>3 DEF DerivedNext
<1>9. ASSUME report.submissionStatus = SUBMITTED
      PROVE  Contract!Follows /\ Sound /\ DerivedNext
  <2>1. report'.calculatedStatus = CalculateReportStatusFromApprovals(approvers')
    <3>1. CASE ids # {} \/ Live(approvers) # {}
      BY <1>6, <1>7, <1>9, <3>1 DEF Derived
    <3>2. CASE ids = {} /\ Live(approvers) = {}
      <4>1. /\ CalculateReportStatusFromApprovals(approvers) = SUBMITTED
            /\ CalculateReportStatusFromApprovals(approvers') = SUBMITTED
        BY <1>6, <1>7, <3>2 DEF CalculateReportStatusFromApprovals
      <4>2. report.calculatedStatus = SUBMITTED
        BY <1>9, <4>1 DEF CollabInv, VerdictBacked, Verdicts
      <4> QED BY <1>4, <1>6, <1>7, <3>2, <4>1, <4>2
    <3> QED BY <3>1, <3>2
  <2>2. Sound
    BY <1>2, <1>6, <1>7, <1>9, <2>1 DEF Sound
  <2>3. Contract!Follows
    BY <1>7, <1>9, <2>1, StatusFollows
  <2> QED BY <1>7, <1>9, <2>1, <2>2, <2>3 DEF DerivedNext
<1>10. Ballots(approvers') = Ballots(approvers)
  BY <1>6, <1>7 DEF Ballots, SameBallots
<1>11. Contract!Follows /\ Sound /\ DerivedNext
  BY <1>1, <1>8, <1>9
<1>12. Contract!EditApprovers(ids)
  BY <1>1, <1>6, <1>7, <1>10, <1>11 DEF Contract!EditApprovers, Ballots
<1> QED BY <1>3, <1>11, <1>12

\* A submission: the step is sound, and settles the requests of the old approvers.
LEMMA SubmitReportSound ==
  ASSUME NEW u \in Users, NEW c \in Lists \union {Omitted}, CollabInv, SubmitReport(u, c)
  PROVE  /\ Sound
         /\ c # Omitted => DerivedNext
         /\ c.ids \subseteq Live(approvers)
              => /\ report'.calculatedStatus # NEEDS_ACTION
                 /\ \A v \in Live(approvers') : approvers'[v].status # NEEDS_ACTION
         /\ \E l \in SUBSET Users : Contract!Submit(l)
<1> DEFINE new    == [report EXCEPT !.submissionStatus = SUBMITTED, !.calculatedStatus = SUBMITTED]
           ids    == IF c.given THEN c.ids ELSE Live(approvers)
           saved  == UpdateReport(Db, new)
           synced == IF c.given THEN SyncCRApprovers(saved, c.ids) ELSE saved
           asking == {v \in Live(synced.approvers) : synced.approvers[v].status = NEEDS_ACTION}
           reset  == SetStatuses(synced, asking, PENDING)
           after  == IF c.ids \subseteq Live(approvers) THEN reset ELSE synced
<1>1. /\ Db \in CollabDbs /\ Db.report = report /\ Db.approvers = approvers
      /\ report \in CollabReports /\ approvers \in [Users -> Rows] /\ Clean(approvers)
      /\ report.submissionStatus \in {DRAFT, SUBMITTED} /\ ~report.deleted /\ Contract!Open
      /\ report.calculatedStatus # APPROVED
  BY CollabFacts, UpdatableNotApproved DEF SubmitReport, Found, CollabReports
<1>2. Commit(after)
  BY <1>1 DEF SubmitReport, CreateOrUpdateReport, ResetNeedsAction
<1>3. specialists' \subseteq SpecialistPool
  BY DEF SubmitReport, CollabInv, TypeOK
<1>4. /\ c.given => c.ids \in SUBSET Users
      /\ ~c.given => c.ids = {}
      /\ c # Omitted => c.given
  <2>1. CASE c \in Lists
    BY <2>1 DEF Lists
  <2>2. CASE c = Omitted
    BY <2>2 DEF Omitted
  <2> QED BY <2>1, <2>2
<1>5. /\ new \in CollabReports /\ new.submissionStatus = SUBMITTED
      /\ new.calculatedStatus = SUBMITTED /\ new.deleted = report.deleted
  BY <1>1 DEF CollabReports
<1> HIDE DEF new
<1>6. saved \in CollabDbs /\ saved.report = new /\ saved.approvers = approvers
  BY <1>1, <1>5 DEF CollabDbs, UpdateReport
<1> HIDE DEF saved
<1>7. /\ Phase(saved, synced) /\ MayLeave(approvers, synced.approvers)
      /\ SameBallots(approvers, synced.approvers) /\ Live(synced.approvers) = ids
      /\ c.given => Derived(synced)
      /\ ~c.given => synced = saved
  <2>1. CASE c.given
    <3>1. /\ Phase(saved, synced) /\ MayLeave(approvers, synced.approvers)
          /\ SameBallots(approvers, synced.approvers) /\ Live(synced.approvers) = c.ids
          /\ c.ids # {} \/ Live(approvers) # {} => Derived(synced)
          /\ c.ids = {} /\ Live(approvers) = {} => synced.report = saved.report
      BY <1>1, <1>4, <1>6, <2>1, SyncFacts
    <3>2. c.ids = {} => CalculateReportStatusFromApprovals(synced.approvers) = SUBMITTED
      BY <3>1 DEF CalculateReportStatusFromApprovals
    <3>3. Derived(synced)
      BY <1>5, <1>6, <3>1, <3>2 DEF Derived
    <3> QED BY <2>1, <3>1, <3>3
  <2>2. CASE ~c.given
    BY <1>1, <1>6, <2>2 DEF Phase, MayLeave, SameBallots
  <2> QED BY <2>1, <2>2
<1>8. ids \in SUBSET Users
  BY <1>4 DEF Live
<1> HIDE DEF synced, ids
<1>9. synced \in CollabDbs /\ synced.approvers \in [Users -> Rows]
      /\ synced.report.submissionStatus = SUBMITTED /\ ~synced.report.deleted
  BY <1>1, <1>5, <1>6, <1>7 DEF Phase, CollabDbs
<1>10. /\ asking \subseteq Live(synced.approvers) /\ PENDING \in ApproverStatuses
       /\ \A v \in ids \ asking : synced.approvers[v].status # NEEDS_ACTION
       /\ asking = {v \in ids : approvers[v].status = NEEDS_ACTION}
  BY <1>7, <1>8 DEF ApproverStatuses, SameBallots
<1> HIDE DEF asking
<1>0. reset = SetStatuses(synced, asking, PENDING)
  OBVIOUS
<1> HIDE DEF reset
<1>11. /\ Phase(synced, reset)
       /\ NobodyLeaves(synced.approvers, reset.approvers) /\ Live(reset.approvers) = ids
       /\ \A v \in asking : reset.approvers[v].status = PENDING
       /\ \A v \in Users \ asking : reset.approvers[v].status = synced.approvers[v].status
       /\ asking # {} => Derived(reset)
       /\ asking = {} => reset = synced
  <2>1. Marked(synced, asking, PENDING, reset)
    BY <1>0, <1>9, <1>10, SetStatusesFacts
  <2> QED BY <1>7, <2>1 DEF Marked
<1>12. reset.approvers \in [Users -> Rows]
       /\ reset.report.submissionStatus = SUBMITTED /\ ~reset.report.deleted
  BY <1>9, <1>11 DEF Phase, CollabDbs
<1>13. \/ Derived(reset)
       \/ ~c.given /\ reset = saved
  BY <1>7, <1>11
<1>14. CASE c.ids \subseteq Live(approvers)
  <2>1. report' = reset.report /\ approvers' = reset.approvers
    BY <1>2, <1>14 DEF Commit
  <2>2. MayLeave(approvers, approvers')
    BY <1>1, <1>7, <1>9, <1>11, <1>12, <2>1, LeavingThenNot
  <2>3. report' \in CollabReports
    BY <1>11, <2>1 DEF Phase, CollabDbs
  <2>4. \/ report'.calculatedStatus = CalculateReportStatusFromApprovals(approvers')
        \/ ~c.given /\ report'.calculatedStatus = SUBMITTED /\ ids = Live(approvers)
    BY <1>5, <1>6, <1>12, <1>13, <2>1 DEF Derived, ids
  <2>5. Sound
    BY <1>3, <1>12, <2>1, <2>2, <2>3, <2>4 DEF Sound
  <2>6. \A v \in Live(approvers') : approvers'[v].status # NEEDS_ACTION
    <3> SUFFICES ASSUME NEW v \in ids PROVE reset.approvers[v].status # NEEDS_ACTION
      BY <1>11, <2>1
    <3>1. CASE v \in asking
      BY <1>11, <3>1
    <3>2. CASE v \notin asking
      BY <1>8, <1>10, <1>11, <3>2
    <3> QED BY <3>1, <3>2
  <2>7. report'.calculatedStatus # NEEDS_ACTION
    BY <2>4, <2>6 DEF CalculateReportStatusFromApprovals
  <2>8. c # Omitted => DerivedNext
    BY <1>4, <2>4 DEF DerivedNext
  <2>9. Ballots(approvers') = [v \in Users |-> IF v \in ids /\ Ballots(approvers)[v] = NEEDS_ACTION
                                               THEN PENDING ELSE Ballots(approvers)[v]]
    BY <1>7, <1>8, <1>10, <1>11, <2>1 DEF Ballots, SameBallots
  <2>10. \/ Contract!Follows
         \/ ids = Live(approvers) /\ report'.calculatedStatus = SUBMITTED
    BY <1>12, <2>1, <2>4, StatusFollows
  <2>11. PICK l \in SUBSET Users : l = ids
    BY <1>8
  <2>12. Contract!Submit(l)
    BY <1>1, <1>11, <1>12, <2>1, <2>9, <2>10, <2>11 DEF Contract!Submit, Ballots
  <2> QED BY <2>5, <2>6, <2>7, <2>8, <2>12
<1>15. CASE ~(c.ids \subseteq Live(approvers))
  <2>1. report' = synced.report /\ approvers' = synced.approvers
    BY <1>2, <1>15 DEF Commit
  <2>2. c.given
    BY <1>4, <1>15
  <2>3. report'.calculatedStatus = CalculateReportStatusFromApprovals(approvers')
    BY <1>7, <1>9, <2>1, <2>2 DEF Derived
  <2>4. Sound
    BY <1>3, <1>7, <1>9, <2>1, <2>3 DEF Sound, CollabDbs
  <2>5. Ballots(approvers') = Ballots(approvers)
    BY <1>7, <2>1 DEF Ballots, SameBallots
  <2>6. Contract!Follows
    BY <1>9, <2>1, <2>3, StatusFollows
  <2>7. ~(ids \subseteq Live(approvers))
    BY <1>15, <2>2 DEF ids
  <2>8. PICK l \in SUBSET Users : l = ids
    BY <1>8
  <2>9. DerivedNext
    BY <2>3 DEF DerivedNext
  <2>10. Contract!Submit(l)
    BY <1>1, <1>7, <1>9, <2>1, <2>5, <2>6, <2>7, <2>8 DEF Contract!Submit, Ballots
  <2> QED BY <1>15, <2>4, <2>9, <2>10
<1> QED BY <1>14, <1>15

LEMMA ReviewReportSound ==
  ASSUME NEW u \in Users, NEW verdict \in Verdicts, NEW note \in BOOLEAN,
         CollabInv, ReviewReport(u, verdict, note)
  PROVE  Sound /\ DerivedNext /\ Contract!Cast(u, verdict)
<1> DEFINE us    == {u}
           rows  == [approvers EXCEPT ![u].note = @ \/ note]
           noted == [Db EXCEPT !.approvers = rows]
           after == SetStatuses(noted, us, verdict)
<1>1. /\ Db \in CollabDbs /\ Db.report = report /\ Db.approvers = approvers
      /\ report \in CollabReports /\ approvers \in [Users -> Rows]
      /\ report.submissionStatus \in {DRAFT, SUBMITTED} /\ ~report.deleted /\ Contract!Open
      /\ u \in Live(approvers)
  BY CollabFacts DEF ReviewReport, Found, CollabReports, CanReview, IsApprovingManager
<1>2. Commit(after) /\ specialists' \subseteq SpecialistPool
  BY <1>1 DEF ReviewReport, CollabInv, TypeOK, Db
<1>3. /\ rows \in [Users -> Rows] /\ NobodyLeaves(approvers, rows) /\ Live(rows) = Live(approvers)
      /\ SameBallots(approvers, rows)
  BY <1>1 DEF Rows, Live, NobodyLeaves, SameBallots
<1> HIDE DEF rows
<1>4. noted \in CollabDbs /\ noted.approvers = rows /\ noted.report = report
  BY <1>1, <1>3, CollabRowsFacts DEF Phase
<1> HIDE DEF noted
<1>5. us \subseteq Live(noted.approvers) /\ verdict \in ApproverStatuses
      /\ us # {} /\ u \in us /\ Users \ us = Users \ {u}
  BY <1>1, <1>3, <1>4 DEF ApproverStatuses
<1>0. after = SetStatuses(noted, us, verdict)
  OBVIOUS
<1> HIDE DEF us, after
<1>6. /\ Phase(noted, after) /\ NobodyLeaves(rows, after.approvers)
      /\ Live(after.approvers) = Live(rows)
      /\ \A v \in us : after.approvers[v].status = verdict
      /\ \A v \in Users \ us : after.approvers[v].status = rows[v].status
      /\ Derived(after)
  <2>1. Marked(noted, us, verdict, after)
    BY <1>0, <1>4, <1>5, SetStatusesFacts
  <2> QED BY <1>4, <1>5, <2>1 DEF Marked
<1>7. /\ report' = after.report /\ approvers' = after.approvers
      /\ approvers' \in [Users -> Rows] /\ report' \in CollabReports
      /\ report'.submissionStatus = report.submissionStatus /\ ~report'.deleted
      /\ report.submissionStatus # SUBMITTED => report' = report
  BY <1>1, <1>2, <1>4, <1>6 DEF Commit, Phase, CollabDbs
<1>8. report'.submissionStatus = DRAFT => report'.calculatedStatus = DRAFT
  BY <1>7 DEF CollabInv, VerdictBacked
<1>9. DerivedNext
  BY <1>6, <1>7 DEF Derived, DerivedNext
<1>10. MayLeave(approvers, approvers')
  <2>1. NobodyLeaves(approvers, approvers')
    BY <1>1, <1>3, <1>6, <1>7, NobodyTwice
  <2> QED BY <1>1, <1>7, <2>1, NobodyIsSome
<1>11. Sound
  BY <1>1, <1>2, <1>7, <1>8, <1>9, <1>10 DEF Sound, DerivedNext
<1>12. Ballots(approvers') = [Ballots(approvers) EXCEPT ![u] = verdict]
  BY <1>3, <1>5, <1>6, <1>7 DEF Ballots, SameBallots
<1>13. Contract!Follows
  BY <1>1, <1>7, <1>8, <1>9, StatusFollows DEF DerivedNext
<1>14. Contract!Cast(u, verdict)
  BY <1>1, <1>3, <1>6, <1>7, <1>12, <1>13 DEF Contract!Cast, Ballots
<1> QED BY <1>9, <1>11, <1>14

LEMMA UnlockReportSound ==
  ASSUME NEW u \in Users, CollabInv, UnlockReport(u)
  PROVE  Sound /\ DerivedNext /\ Contract!Unlock
<1> DEFINE us    == Live(approvers)
           after == SetStatuses(Db, us, NEEDS_ACTION)
<1>1. /\ Db \in CollabDbs /\ Db.report = report /\ Db.approvers = approvers
      /\ report \in CollabReports /\ approvers \in [Users -> Rows]
      /\ report.submissionStatus = SUBMITTED /\ ~report.deleted
      /\ report.calculatedStatus = APPROVED
  BY CollabFacts DEF UnlockReport, Found, CanUnlock, CollabReports, CollabInv, VerdictBacked
<1>2. us # {} /\ us \subseteq Live(Db.approvers) /\ NEEDS_ACTION \in ApproverStatuses
  BY <1>1 DEF CollabInv, VerdictBacked, Verdicts, ApproverStatuses, CalculateReportStatusFromApprovals
<1>3. Commit(after) /\ specialists' \subseteq SpecialistPool
  BY DEF UnlockReport, CollabInv, TypeOK
<1>0. after = SetStatuses(Db, us, NEEDS_ACTION)
  OBVIOUS
<1> HIDE DEF us, after
<1>4. /\ Phase(Db, after) /\ NobodyLeaves(approvers, after.approvers)
      /\ Live(after.approvers) = Live(approvers)
      /\ \A v \in us : after.approvers[v].status = NEEDS_ACTION
      /\ \A v \in Users \ us : after.approvers[v].status = approvers[v].status
      /\ Derived(after)
  <2>1. Marked(Db, us, NEEDS_ACTION, after)
    BY <1>0, <1>1, <1>2, SetStatusesFacts
  <2> QED BY <1>1, <1>2, <2>1 DEF Marked, us
<1>5. /\ report' = after.report /\ approvers' = after.approvers
      /\ approvers' \in [Users -> Rows] /\ report' \in CollabReports
      /\ report'.submissionStatus = SUBMITTED /\ ~report'.deleted
  BY <1>1, <1>3, <1>4 DEF Commit, Phase, CollabDbs
<1>6. DerivedNext
  BY <1>4, <1>5 DEF Derived, DerivedNext
<1>7. Sound
  BY <1>1, <1>3, <1>4, <1>5, <1>6, NobodyIsSome DEF Sound, DerivedNext
<1>8. Ballots(approvers') = [v \in Users |-> IF v \in Live(approvers) THEN NEEDS_ACTION
                                             ELSE Ballots(approvers)[v]]
  BY <1>4, <1>5 DEF Ballots, us
<1>9. Contract!Follows
  BY <1>5, <1>6, StatusFollows DEF DerivedNext
<1>10. Contract!Unlock
  BY <1>1, <1>4, <1>5, <1>8, <1>9 DEF Contract!Unlock, Ballots
<1> QED BY <1>6, <1>7, <1>10

LEMMA SoftDeleteReportContract ==
  ASSUME NEW u \in Users, CollabInv, SoftDeleteReport(u)
  PROVE  CollabInv' /\ report'.deleted /\ approvers' = approvers /\ Contract!Delete
<1>1. /\ report \in CollabReports /\ report.submissionStatus \in {DRAFT, SUBMITTED}
      /\ ~report.deleted /\ report.calculatedStatus # APPROVED /\ Contract!Open
  BY CollabFacts DEF SoftDeleteReport, CanDelete, Found, CollabReports
<1>2. /\ report' \in CollabReports /\ report'.deleted /\ approvers' = approvers
      /\ report'.submissionStatus = report.submissionStatus
      /\ report'.calculatedStatus = report.calculatedStatus /\ specialists' = specialists
  BY <1>1 DEF SoftDeleteReport, CollabReports
<1>3. CollabInv'
  BY <1>1, <1>2 DEF CollabInv, TypeOK, VerdictBacked
<1>4. Contract!Delete
  BY <1>1, <1>2 DEF Contract!Delete, Contract!Follows, Contract!Shown
<1> QED BY <1>2, <1>3, <1>4

-----------------------------------------------------------------------------
LEMMA InitCollab == Init => CollabInv /\ Contract!CInit
<1> SUFFICES ASSUME Init PROVE CollabInv /\ Contract!CInit
  OBVIOUS
<1>1. approvers \in [Users -> Rows] /\ Clean(approvers) /\ Live(approvers) = {}
      /\ Ballots(approvers) = [u \in Users |-> PENDING]
  BY DEF Init, NoRow, Rows, ApproverStatuses, Clean, Live, Ballots
<1>2. CollabInv
  BY <1>1 DEF Init, CollabInv, TypeOK, VerdictBacked, CollabReports, Verdicts
<1> QED BY <1>1, <1>2 DEF Init, Contract!CInit, Ballots

\* What the properties say of one step.
Shows ==
  report'.submissionStatus = SUBMITTED /\ ~report'.deleted
    => \/ report'.calculatedStatus = CalculateReportStatusFromApprovals(approvers')
       \/ \E u \in Users : SubmitReport(u, Omitted)

Settles ==
  \A u \in Users, c \in Lists \union {Omitted} :
    c.ids \subseteq Live(approvers) /\ SubmitReport(u, c)
      => /\ report'.calculatedStatus # NEEDS_ACTION
         /\ \A v \in Live(approvers)' : approvers'[v].status # NEEDS_ACTION

ReviewsKept ==
  \A u \in Users :
    approvers[u].status # PENDING /\ approvers'[u].state # "live"
      => /\ approvers'[u].state = "deleted"
         /\ approvers'[u].status = approvers[u].status
         /\ approvers'[u].note = approvers[u].note

\* A request is sound or deletes the report, and is a step of the contract.
LEMMA RequestIsSound ==
  ASSUME CollabInv, Next
  PROVE  /\ CollabInv' /\ MayLeave(approvers, approvers') /\ Shows
         /\ Contract!CNext
<1>1. CASE \E complete \in BOOLEAN, specs \in SUBSET SpecialistPool, c \in Lists :
             CreateReport(complete, specs, c)
  BY <1>1, CreateReportSound, SoundInv DEF Contract!CNext, Shows, Sound
<1>2. CASE \E u \in Users, complete \in BOOLEAN, specs \in SUBSET SpecialistPool,
              c \in Lists \union {Omitted} : SaveReport(u, complete, specs, c)
  BY <1>2, SaveReportSound, SoundInv DEF Contract!CNext, Shows, Sound, DerivedNext
<1>3. CASE \E u \in Users, c \in Lists \union {Omitted} : SubmitReport(u, c)
  <2>1. PICK u \in Users, c \in Lists \union {Omitted} : SubmitReport(u, c)
    BY <1>3
  <2>2. Sound /\ (c # Omitted => DerivedNext) /\ \E l \in SUBSET Users : Contract!Submit(l)
    BY <2>1, SubmitReportSound
  <2>3. Shows
    BY <2>1, <2>2 DEF Shows, DerivedNext
  <2>4. CollabInv' /\ MayLeave(approvers, approvers')
    BY <2>2, SoundInv DEF Sound
  <2> QED BY <2>2, <2>3, <2>4 DEF Contract!CNext
<1>4. CASE \E u \in Users, verdict \in Verdicts, note \in BOOLEAN : ReviewReport(u, verdict, note)
  BY <1>4, ReviewReportSound, SoundInv DEF Contract!CNext, Shows, Sound, DerivedNext, Verdicts
<1>5. CASE \E u \in Users : UnlockReport(u)
  BY <1>5, UnlockReportSound, SoundInv DEF Contract!CNext, Shows, Sound, DerivedNext
<1>6. CASE \E u \in Users : SoftDeleteReport(u)
  BY <1>6, SoftDeleteReportContract DEF Contract!CNext, Shows, MayLeave
<1> QED BY <1>1, <1>2, <1>3, <1>4, <1>5, <1>6 DEF Next

LEMMA StepIsSound == CollabInv /\ [Next]_vars => CollabInv'
<1> SUFFICES ASSUME CollabInv, UNCHANGED vars PROVE CollabInv'
  BY RequestIsSound
<1> QED BY DEF vars, CollabInv, TypeOK, VerdictBacked

\* The columns of the report and of its approvers keep their types.
THEOREM TypeCorrect == Spec => []TypeOK
<1>1. CollabInv => TypeOK
  BY DEF CollabInv
<1> QED BY <1>1, InitCollab, StepIsSound, PTL DEF Spec

\* A verdict shown is always the one the current approvers give.
THEOREM VerdictsBacked == Spec => []VerdictBacked
<1>1. CollabInv => VerdictBacked
  BY DEF CollabInv
<1> QED BY <1>1, InitCollab, StepIsSound, PTL DEF Spec

\* Every request but a submission without approvers leaves the outcome shown.
THEOREM OutcomeAlwaysShown == Spec => OutcomeShown
<1>1. CollabInv /\ [Next]_vars => [Shows]_vars
  BY RequestIsSound
<1> QED BY <1>1, InitCollab, StepIsSound, PTL DEF Spec, OutcomeShown, Shows

\* A submission to no new approver settles every request for changes.
THEOREM ResubmissionSettles == Spec => ResubmissionSettlesRequests
<1>1. CollabInv => Settles
  <2> SUFFICES ASSUME CollabInv, NEW u \in Users, NEW c \in Lists \union {Omitted},
                      c.ids \subseteq Live(approvers), SubmitReport(u, c)
               PROVE  /\ report'.calculatedStatus # NEEDS_ACTION
                      /\ \A v \in Live(approvers)' : approvers'[v].status # NEEDS_ACTION
    BY DEF Settles
  <2>1. Live(approvers)' = Live(approvers')
    BY DEF Live
  <2> QED BY <2>1, SubmitReportSound
<1> QED BY <1>1, InitCollab, StepIsSound, PTL DEF Spec, ResubmissionSettlesRequests, Settles

\* No request erases the review of an approver who is off the list.
THEOREM ReviewsNeverLost == Spec => ReviewsOutliveRemoval
<1>1. CollabInv /\ [Next]_vars => [ReviewsKept]_vars
  <2> SUFFICES ASSUME CollabInv, Next PROVE ReviewsKept
    OBVIOUS
  <2>1. CollabInv' /\ MayLeave(approvers, approvers')
    BY RequestIsSound
  <2>2. approvers \in [Users -> Rows] /\ approvers' \in [Users -> Rows] /\ Clean(approvers)
    BY <2>1 DEF CollabInv, TypeOK
  <2> QED BY <2>1, <2>2, LeavingKeepsReviews DEF ReviewsKept
<1> QED BY <1>1, InitCollab, StepIsSound, PTL DEF Spec, ReviewsOutliveRemoval, ReviewsKept

\* The handlers with all their hooks implement the contract, for any users,
\* permissions and requests.
THEOREM ContractImplemented == Spec => ImplementsContract
<1>1. CollabInv /\ [Next]_vars => [Contract!CNext]_Contract!cvars
  <2> SUFFICES ASSUME CollabInv, [Next]_vars PROVE [Contract!CNext]_Contract!cvars
    OBVIOUS
  <2>1. CASE Next
    BY <2>1, RequestIsSound
  <2>2. CASE UNCHANGED vars
    BY <2>2 DEF vars, Contract!cvars, Live
  <2> QED BY <2>1, <2>2
<1> QED BY <1>1, InitCollab, StepIsSound, PTL DEF Spec, ImplementsContract, Contract!ContractSpec
=============================================================================
