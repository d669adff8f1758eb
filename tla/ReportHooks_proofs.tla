-------------------------- MODULE ReportHooks_proofs --------------------------
(***************************************************************************)
(* Lemmas about the rules that both kinds of report share: the outcome of  *)
(* the approvers, and what may happen to their rows.                       *)
(***************************************************************************)
EXTENDS ReportHooks, TLAPS

USE DEF NONE, DRAFT, SUBMITTED, NEEDS_ACTION, APPROVED, DELETED, PENDING

\* Two sets of rows that differ at most in their notes.
SameVotes(a, b) ==
  \A u \in Users : a[u].state = b[u].state /\ a[u].status = b[u].status

\* The outcome of the approvers is one of the three statuses of a submission.
LEMMA OutcomeRange ==
  ASSUME NEW a
  PROVE  CalculateReportStatusFromApprovals(a) \in {SUBMITTED, NEEDS_ACTION, APPROVED}
BY DEF CalculateReportStatusFromApprovals

\* The outcome does not depend on the notes.
LEMMA OutcomeIgnoresNotes ==
  ASSUME NEW a, NEW b, SameVotes(a, b)
  PROVE  CalculateReportStatusFromApprovals(a) = CalculateReportStatusFromApprovals(b)
<1>1. Live(a) = Live(b)
  BY DEF Live, SameVotes
<1>2. \A u \in Live(a) : a[u].status = b[u].status
  BY DEF Live, SameVotes
<1> QED BY <1>1, <1>2 DEF CalculateReportStatusFromApprovals

\* Clearing the notes of the approvers changes no vote.
LEMMA ClearNotesType ==
  ASSUME NEW a \in [Users -> Rows]
  PROVE  ClearNotes(a) \in [Users -> Rows] /\ SameVotes(a, ClearNotes(a))
BY DEF ClearNotes, Rows, SameVotes

-----------------------------------------------------------------------------
\* A missing row has nothing in it.
Clean(a) == \A u \in Users : a[u].state = "absent" => a[u] = NoRow

\* Every user has the vote they had, listed or not.
SameBallots(a, b) == \A u \in Users : b[u].status = a[u].status

\* Who is off the list in b was so in a, with the same row.
NobodyLeaves(a, b) == \A u \in Users : b[u].state # "live" => b[u] = a[u]

\* Somebody may have left the list: without a row if there was nothing in it.
MayLeave(a, b) ==
  \A u \in Users : b[u].state # "live" =>
    \/ b[u] = a[u]
    \/ a[u].state = "live" /\ a[u].status = PENDING /\ b[u] = NoRow
    \/ b[u] = [a[u] EXCEPT !.state = "deleted"]

\* What a request may do to the rows is composed of its phases.
LEMMA LeavingThenNot ==
  ASSUME NEW a \in [Users -> Rows], NEW b \in [Users -> Rows], NEW c \in [Users -> Rows],
         MayLeave(a, b), NobodyLeaves(b, c)
  PROVE  MayLeave(a, c)
BY DEF MayLeave, NobodyLeaves

LEMMA NobodyTwice ==
  ASSUME NEW a \in [Users -> Rows], NEW b \in [Users -> Rows], NEW c \in [Users -> Rows],
         NobodyLeaves(a, b), NobodyLeaves(b, c)
  PROVE  NobodyLeaves(a, c)
BY DEF NobodyLeaves

LEMMA NobodyIsSome ==
  ASSUME NEW a \in [Users -> Rows], NEW b \in [Users -> Rows], NobodyLeaves(a, b)
  PROVE  MayLeave(a, b)
BY DEF MayLeave, NobodyLeaves

LEMMA LeavingKeepsClean ==
  ASSUME NEW a \in [Users -> Rows], NEW b \in [Users -> Rows], Clean(a), MayLeave(a, b)
  PROVE  Clean(b)
BY DEF Clean, MayLeave, Rows

\* A review outlives the removal of its author from the list.
LEMMA LeavingKeepsReviews ==
  ASSUME NEW a \in [Users -> Rows], NEW b \in [Users -> Rows], Clean(a), MayLeave(a, b),
         NEW u \in Users, a[u].status # PENDING, b[u].state # "live"
  PROVE  b[u].state = "deleted" /\ b[u].status = a[u].status /\ b[u].note = a[u].note
<1>1. a[u] \in Rows /\ b[u] \in Rows
  OBVIOUS
<1>2. CASE b[u] = a[u]
  BY <1>1, <1>2 DEF Clean, Rows, NoRow
<1>3. CASE b[u] = [a[u] EXCEPT !.state = "deleted"]
  BY <1>1, <1>3 DEF Rows
<1> QED BY <1>2, <1>3 DEF MayLeave

\* What a hook may do to the rows.
HookRows(a, b) == b = a \/ b = ClearNotes(a)

LEMMA HookRowsType ==
  ASSUME NEW a \in [Users -> Rows], NEW b, HookRows(a, b)
  PROVE  /\ b \in [Users -> Rows]
         /\ NobodyLeaves(a, b) /\ SameVotes(a, b) /\ SameBallots(a, b) /\ Live(b) = Live(a)
BY DEF HookRows, ClearNotes, NobodyLeaves, SameVotes, SameBallots, Live, Rows

-----------------------------------------------------------------------------
\* The rows in the phases of a request: a status given, the unlisted removed, the
\* listed touched, and restored.
MarkedRows(a, us, status) ==
  [u \in Users |-> IF u \in us THEN [a[u] EXCEPT !.status = status] ELSE a[u]]

RemovedRow(row) ==
  IF row.status = PENDING /\ ~row.note THEN NoRow ELSE [row EXCEPT !.state = "deleted"]

ListedRows(a, ids) ==
  [u \in Users |-> IF u \in Live(a) \ ids THEN RemovedRow(a[u]) ELSE a[u]]

TouchedRows(a, ids) ==
  [u \in Users |-> IF u \in ids /\ a[u].state = "absent"
                   THEN [NoRow EXCEPT !.state = "live"] ELSE a[u]]

RestoredRows(a, ids) ==
  [u \in Users |-> IF u \in ids /\ a[u].state = "deleted"
                   THEN [a[u] EXCEPT !.state = "live"] ELSE a[u]]

LEMMA MarkedRowsType ==
  ASSUME NEW a \in [Users -> Rows], NEW us, us \subseteq Live(a), NEW status \in ApproverStatuses,
         NEW b, b = MarkedRows(a, us, status)
  PROVE  /\ b \in [Users -> Rows]
         /\ NobodyLeaves(a, b) /\ Live(b) = Live(a)
         /\ \A u \in us : b[u].status = status
         /\ \A u \in Users \ us : b[u].status = a[u].status
BY DEF MarkedRows, NobodyLeaves, Live, Rows

LEMMA ListedRowsType ==
  ASSUME NEW a \in [Users -> Rows], NEW ids \in SUBSET Users
  PROVE  LET b == ListedRows(a, ids)
         IN /\ b \in [Users -> Rows]
            /\ MayLeave(a, b) /\ SameBallots(a, b) /\ Live(b) = Live(a) \intersect ids
<1>1. ASSUME NEW row \in Rows
      PROVE  RemovedRow(row) \in Rows /\ RemovedRow(row).state # "live"
             /\ RemovedRow(row).status = row.status
  BY DEF RemovedRow, Rows, NoRow, ApproverStatuses
<1>2. ListedRows(a, ids) \in [Users -> Rows]
  BY <1>1 DEF ListedRows
<1>3. SameBallots(a, ListedRows(a, ids))
  BY <1>1 DEF ListedRows, SameBallots
<1>4. Live(ListedRows(a, ids)) = Live(a) \intersect ids
  BY <1>1 DEF ListedRows, Live
<1>5. MayLeave(a, ListedRows(a, ids))
  BY DEF ListedRows, RemovedRow, MayLeave, Live
<1> QED BY <1>2, <1>3, <1>4, <1>5

LEMMA TouchedRowsType ==
  ASSUME NEW a \in [Users -> Rows], NEW ids \in SUBSET Users, Clean(a)
  PROVE  LET b == TouchedRows(a, ids)
         IN /\ b \in [Users -> Rows]
            /\ NobodyLeaves(a, b) /\ SameBallots(a, b)
            /\ Live(b) = Live(a) \union {u \in ids : a[u].state = "absent"}
            /\ \A u \in Users : b[u].state = "deleted" <=> a[u].state = "deleted"
<1>1. NoRow \in Rows /\ [NoRow EXCEPT !.state = "live"] \in Rows
      /\ NoRow.status = PENDING /\ [NoRow EXCEPT !.state = "live"].status = PENDING
      /\ [NoRow EXCEPT !.state = "live"].state = "live"
  BY DEF NoRow, Rows, ApproverStatuses
<1> QED BY <1>1 DEF TouchedRows, NobodyLeaves, SameBallots, Live, Clean

LEMMA RestoredRowsType ==
  ASSUME NEW a \in [Users -> Rows], NEW ids \in SUBSET Users
  PROVE  LET b == RestoredRows(a, ids)
         IN /\ b \in [Users -> Rows]
            /\ NobodyLeaves(a, b) /\ SameBallots(a, b)
            /\ Live(b) = Live(a) \union {u \in ids : a[u].state = "deleted"}
<1>1. RestoredRows(a, ids) \in [Users -> Rows]
  BY DEF RestoredRows, Rows
<1>2. NobodyLeaves(a, RestoredRows(a, ids)) /\ SameBallots(a, RestoredRows(a, ids))
  BY DEF RestoredRows, NobodyLeaves, SameBallots, Rows
<1>3. Live(RestoredRows(a, ids)) = Live(a) \union {u \in ids : a[u].state = "deleted"}
  BY DEF RestoredRows, Live, Rows
<1> QED BY <1>1, <1>2, <1>3

-----------------------------------------------------------------------------
\* A synchronisation: whatever the hooks between its phases do to notes, the list
\* becomes the one given and nobody's vote changes.
LEMMA SyncRows ==
  ASSUME NEW a \in [Users -> Rows], NEW ids \in SUBSET Users, Clean(a),
         NEW b, NEW c, NEW d,
         HookRows(ListedRows(a, ids), b),
         \E t : HookRows(TouchedRows(b, ids), t) /\ HookRows(t, c),
         HookRows(RestoredRows(c, ids), d)
  PROVE  d \in [Users -> Rows] /\ MayLeave(a, d) /\ SameBallots(a, d) /\ Live(d) = ids
<1>1. /\ b \in [Users -> Rows] /\ MayLeave(a, b) /\ SameBallots(a, b)
      /\ Live(b) = Live(a) \intersect ids
  BY ListedRowsType, HookRowsType, LeavingThenNot DEF SameBallots
<1>2. Clean(b)
  BY <1>1, LeavingKeepsClean
<1>3. PICK t : HookRows(TouchedRows(b, ids), t) /\ HookRows(t, c)
  OBVIOUS
<1>4. /\ c \in [Users -> Rows] /\ NobodyLeaves(b, c) /\ SameBallots(b, c)
      /\ Live(c) = Live(b) \union {u \in ids : b[u].state = "absent"}
      /\ \A u \in Users : c[u].state = "deleted" <=> b[u].state = "deleted"
  <2> DEFINE touched == TouchedRows(b, ids)
  <2>1. /\ touched \in [Users -> Rows] /\ NobodyLeaves(b, touched) /\ SameBallots(b, touched)
        /\ Live(touched) = Live(b) \union {u \in ids : b[u].state = "absent"}
        /\ \A u \in Users : touched[u].state = "deleted" <=> b[u].state = "deleted"
    BY <1>1, <1>2, TouchedRowsType
  <2>2. HookRows(touched, t)
    BY <1>3
  <2> HIDE DEF touched
  <2>3. /\ t \in [Users -> Rows] /\ NobodyLeaves(touched, t) /\ SameVotes(touched, t)
        /\ SameBallots(touched, t) /\ Live(t) = Live(touched)
    BY <2>1, <2>2, HookRowsType
  <2>4. /\ c \in [Users -> Rows] /\ NobodyLeaves(t, c) /\ SameVotes(t, c)
        /\ SameBallots(t, c) /\ Live(c) = Live(t)
    BY <1>3, <2>3, HookRowsType
  <2>5. NobodyLeaves(b, c)
    <3>1. NobodyLeaves(b, t)
      BY <1>1, <2>1, <2>3, NobodyTwice
    <3> QED BY <1>1, <2>3, <2>4, <3>1, NobodyTwice
  <2>6. SameBallots(b, c)
    BY <2>1, <2>3, <2>4 DEF SameBallots
  <2>7. \A u \in Users : c[u].state = "deleted" <=> b[u].state = "deleted"
    BY <2>1, <2>3, <2>4 DEF SameVotes
  <2> QED BY <2>1, <2>3, <2>4, <2>5, <2>6, <2>7
<1>5. /\ d \in [Users -> Rows] /\ NobodyLeaves(c, d) /\ SameBallots(c, d)
      /\ Live(d) = Live(c) \union {u \in ids : c[u].state = "deleted"}
  BY <1>4, RestoredRowsType, HookRowsType, NobodyTwice DEF SameBallots
<1>6. Live(d) = ids
  <2>1. \A u \in Users : b[u].state \in {"absent", "live", "deleted"}
    BY <1>1 DEF Rows
  <2> QED BY <1>1, <1>4, <1>5, <2>1 DEF Live
<1>7. MayLeave(a, d)
  BY <1>1, <1>4, <1>5, LeavingThenNot
<1>8. SameBallots(a, d)
  BY <1>1, <1>4, <1>5 DEF SameBallots
<1> QED BY <1>5, <1>6, <1>7, <1>8

-----------------------------------------------------------------------------
\* beforeUpdate stores a report, of the submission status asked for; of a
\* submitted one it keeps the calculated status and the approval stamp.
LEMMA BeforeUpdateType ==
  ASSUME NEW r \in Reports, NEW new \in Reports
  PROVE  /\ ReportBeforeUpdate(r, new) \in Reports
         /\ ReportBeforeUpdate(r, new).submissionStatus = new.submissionStatus
         /\ new.submissionStatus = SUBMITTED
              => ReportBeforeUpdate(r, new).calculatedStatus = new.calculatedStatus
<1>1. CopyStatus(new) \in CalculatedStatuses
  BY DEF CopyStatus, Reports, CalculatedStatuses, SubmissionStatuses, Verdicts
<1>2. SetSubmittedDate(r.calculatedStatus, CopyStatus(new), new.submittedDate) \in BOOLEAN
  BY DEF SetSubmittedDate, Reports
<1>3. ClearAdditionalNotes(r.calculatedStatus, CopyStatus(new), new.additionalNotes) \in BOOLEAN
  BY DEF ClearAdditionalNotes, Reports
<1>4. ReportBeforeUpdate(r, new) \in Reports
  BY <1>1, <1>2, <1>3 DEF ReportBeforeUpdate, Reports
<1> QED BY <1>4 DEF ReportBeforeUpdate, CopyStatus, Reports
=============================================================================
