---------------------- MODULE ReportTransactions_proofs ----------------------
(***************************************************************************)
(* Any number of requests at once on one report, with any number of        *)
(* approvers: rows keep their types and no verdict is lost; and one at a   *)
(* time they leave the status their verdicts give.                         *)
(***************************************************************************)
EXTENDS ReportTransactions, ReportHooks_proofs, FiniteSetTheorems

USE DEF NONE, DRAFT, SUBMITTED, NEEDS_ACTION, APPROVED, DELETED, PENDING

-----------------------------------------------------------------------------
\* What is stored for a request, a version of the rows, and their locks.
Steps == {"idle", "report", "load", "rows", "hook", "notes", "find", "write", "commit"}

Txs == [op : Ops \union {NoOp}, pc : Steps, seen : Reports,
        loaded : [Users -> ApproverStatuses], todo : SUBSET Users,
        calc : CalculatedStatuses, pass : {1, 2}]

Versions == [report : Reports, approvers : [Users -> Rows]]

Locks == [report : Requests \union {Free}, approvers : [Users -> Requests \union {Free}]]

Shapes ==
  /\ report \in Reports /\ approvers \in [Users -> Rows]
  /\ rows \in Versions
  /\ lock \in Locks
  /\ tx \in [Requests -> Txs]
  /\ width \in 1..MaxActive

\* An unlocked row has no version of its own.
FreeRowsCommitted ==
  /\ lock.report = Free => rows.report = report
  /\ \A u \in Users : lock.approvers[u] = Free => rows.approvers[u] = approvers[u]

\* A slot without a request holds nothing.
IdleHoldsNothing ==
  \A r \in Requests : tx[r].pc = "idle"
    => lock.report # r /\ \A u \in Users : lock.approvers[u] # r

\* A review is of its user's row, and only a submission goes through the rows twice.
RowsTargeted ==
  \A r \in Requests :
    /\ tx[r].pc = "report" => tx[r].op.kind \notin {"review", "unlock"} /\ tx[r].pass = 1
    /\ tx[r].pc = "load" => tx[r].op.kind # "unlock" /\ tx[r].pass = 1
    /\ tx[r].pc \in {"load", "rows"} /\ tx[r].op.kind = "review"
         => tx[r].todo \subseteq {tx[r].op.user}
    /\ tx[r].pc = "rows" /\ tx[r].pass = 2 => tx[r].op.kind = "submit"

\* A review that has saved its row keeps it locked, with its verdict, unless that
\* is the one it had found there.
Saved == {"hook", "notes", "find", "write", "commit"}

ReviewsSaved ==
  \A r \in Requests : tx[r].pc \in Saved /\ tx[r].op.kind = "review"
    => LET u == tx[r].op.user
       IN /\ lock.approvers[u] = r
          /\ rows.approvers[u].status = tx[r].op.verdict \/ tx[r].loaded[u] = tx[r].op.verdict

\* What a request has made of an approver's status, and may commit.
Explained(op, old, new, u) ==
  \/ new = old
  \/ op.kind = "review" /\ op.user = u /\ new = op.verdict
  \/ op.kind = "unlock"
  \/ op.kind = "submit" /\ old = NEEDS_ACTION

VersionsExplained ==
  \A r \in Requests, u \in Users : lock.approvers[u] = r
    => Explained(tx[r].op, approvers[u].status, rows.approvers[u].status, u)

TxInv ==
  /\ Shapes
  /\ FreeRowsCommitted
  /\ IdleHoldsNothing
  /\ RowsTargeted
  /\ VersionsExplained
  /\ ReviewsSaved

LEMMA TxInvType == TxInv => TypeOK
BY DEF TxInv, Shapes, FreeRowsCommitted, TypeOK, Versions, Locks, Txs, Steps

-----------------------------------------------------------------------------
\* What a statement reads has its type.
LEMMA SeenType ==
  ASSUME Shapes, NEW r \in Requests
  PROVE  SeenReport(r) \in Reports /\ SeenApprovers(r) \in [Users -> Rows]
BY DEF Shapes, SeenReport, SeenApprovers, Versions

\* An UPDATE of the changed columns stores a report.
LEMMA ChangedOnlyType ==
  ASSUME NEW base \in Reports, NEW seen \in Reports, NEW new \in Reports
  PROVE  ChangedOnly(base, seen, new) \in Reports
BY DEF ChangedOnly, Reports

\* The request goes on to another step with its call kept.
LEMMA AfterHookType ==
  ASSUME NEW t \in Txs, NEW asking \in SUBSET Users, NEW n, n = AfterHook(t, asking)
  PROVE  /\ n \in Txs /\ n.op = t.op /\ n.loaded = t.loaded
         /\ n.pc \in {"rows", "commit"}
         /\ n.pc = "rows" => t.op.kind = "submit"
BY DEF AfterHook, Txs, Steps

\* A request that goes on, with locks taken, and no approver's status changed.
LEMMA OtherStep ==
  ASSUME TxInv, NEW r \in Requests, Shapes',
         tx' = [tx EXCEPT ![r] = tx'[r]],
         tx'[r].op = tx[r].op, tx[r].pc # "idle",
         tx'[r].pc \notin {"idle", "report"},
         tx'[r].pc \in {"load", "rows"}
           => \/ tx'[r].pc = "rows" /\ tx'[r].op.kind = "submit"
              \/ /\ tx'[r].op.kind # "unlock" /\ tx'[r].pass = 1
                 /\ tx'[r].op.kind = "review" => tx'[r].todo \subseteq {tx'[r].op.user},
         tx'[r].pc \in Saved => \/ tx[r].op.kind # "review"
                                \/ tx[r].pc \in Saved /\ tx'[r].loaded = tx[r].loaded,
         UNCHANGED <<report, approvers>>,
         FreeRowsCommitted',
         lock'.report \in {lock.report, r},
         \A u \in Users : lock'.approvers[u] \in {lock.approvers[u], r},
         \A u \in Users : lock'.approvers[u] # lock.approvers[u] => lock.approvers[u] = Free,
         \A u \in Users : rows'.approvers[u].status = rows.approvers[u].status
  PROVE  TxInv'
<1>1. tx \in [Requests -> Txs] /\ Free \notin Requests
  BY RequestsAssumption DEF TxInv, Shapes
<1>2. \A s \in Requests \ {r} : tx'[s] = tx[s]
  BY <1>1
<1>3. IdleHoldsNothing'
  BY <1>1, <1>2 DEF TxInv, IdleHoldsNothing
<1>4. RowsTargeted'
  BY <1>1, <1>2 DEF TxInv, RowsTargeted
<1>5. VersionsExplained'
  <2> SUFFICES ASSUME NEW s \in Requests, NEW u \in Users, lock'.approvers[u] = s
               PROVE  Explained(tx'[s].op, approvers'[u].status, rows'.approvers[u].status, u)
    BY DEF VersionsExplained
  <2>1. tx'[s].op = tx[s].op
    BY <1>2
  <2>2. CASE lock.approvers[u] = s
    BY <2>1, <2>2 DEF TxInv, VersionsExplained
  <2>3. CASE lock.approvers[u] # s
    BY <2>3 DEF TxInv, FreeRowsCommitted, Explained
  <2> QED BY <2>2, <2>3
<1>6. ReviewsSaved'
  <2> SUFFICES ASSUME NEW s \in Requests, tx'[s].pc \in Saved, tx'[s].op.kind = "review",
                      NEW u, u = tx'[s].op.user
               PROVE  /\ lock'.approvers[u] = s
                      /\ \/ rows'.approvers[u].status = tx'[s].op.verdict
                         \/ tx'[s].loaded[u] = tx'[s].op.verdict
    BY DEF ReviewsSaved
  <2>1. tx[s].pc \in Saved /\ tx'[s].op = tx[s].op /\ tx'[s].loaded = tx[s].loaded
    BY <1>2
  <2>2. tx[s].op \in Ops \union {NoOp}
    BY <1>1 DEF Txs
  <2>3. u \in Users
    BY <2>1, <2>2 DEF Ops, NoOp
  <2>4. /\ lock.approvers[u] = s
        /\ rows.approvers[u].status = tx[s].op.verdict \/ tx[s].loaded[u] = tx[s].op.verdict
    BY <2>1 DEF TxInv, ReviewsSaved
  <2> QED BY <1>1, <2>1, <2>3, <2>4
<1> QED BY <1>3, <1>4, <1>5, <1>6 DEF TxInv

-----------------------------------------------------------------------------
LEMMA BeginInv ==
  ASSUME TxInv, NEW r \in Requests, NEW op \in Ops, Begin(r, op)
  PROVE  TxInv'
<1>1. tx \in [Requests -> Txs] /\ Free \notin Requests
  BY RequestsAssumption DEF TxInv, Shapes
<1> DEFINE t == [Idle EXCEPT !.op = op, !.seen = report,
                             !.pc = CASE op.kind = "review" -> "load"
                                      [] op.kind = "unlock" -> "rows"
                                      [] OTHER -> "report",
                             !.todo = Targets(op)]
<1>2. op.kind = "review" => op.user \in Users
  BY DEF Ops
<1>3. t \in Txs /\ t.op = op /\ t.pass = 1 /\ (op.kind = "review" => t.todo = {op.user})
  BY <1>2 DEF Idle, NotLoaded, Targets, Txs, Steps, SubmittedReport, Reports,
         CalculatedStatuses, SubmissionStatuses, ApproverStatuses, TxInv, Shapes
<1>4. t.pc = (CASE op.kind = "review" -> "load" [] op.kind = "unlock" -> "rows"
                [] OTHER -> "report")
  BY DEF Idle
<1>5. tx' = [tx EXCEPT ![r] = t] /\ tx[r].pc = "idle"
      /\ UNCHANGED <<report, approvers, rows, lock, width>>
  BY DEF Begin
<1> HIDE DEF t
<1>6. Shapes' /\ FreeRowsCommitted' /\ IdleHoldsNothing' /\ RowsTargeted'
  BY <1>1, <1>3, <1>4, <1>5 DEF TxInv, Shapes, FreeRowsCommitted, IdleHoldsNothing, RowsTargeted
<1>7. VersionsExplained'
  <2> SUFFICES ASSUME NEW s \in Requests, NEW u \in Users, lock.approvers[u] = s
               PROVE  Explained(tx'[s].op, approvers[u].status, rows.approvers[u].status, u)
    BY <1>5 DEF VersionsExplained
  <2>1. s # r
    BY <1>5 DEF TxInv, IdleHoldsNothing
  <2> QED BY <1>1, <1>5, <2>1 DEF TxInv, VersionsExplained
<1>8. ReviewsSaved'
  <2>1. tx'[r].pc \notin Saved
    BY <1>1, <1>4, <1>5 DEF Saved
  <2>2. \A s \in Requests \ {r} : tx'[s] = tx[s]
    BY <1>1, <1>5
  <2> QED BY <1>5, <2>1, <2>2 DEF TxInv, ReviewsSaved
<1> QED BY <1>6, <1>7, <1>8 DEF TxInv

LEMMA UpdateReportRowInv ==
  ASSUME TxInv, NEW r \in Requests, UpdateReportRow(r)
  PROVE  TxInv'
<1>1. tx \in [Requests -> Txs] /\ tx[r] \in Txs /\ Free \notin Requests /\ lock \in Locks
      /\ rows \in Versions /\ report \in Reports /\ approvers \in [Users -> Rows]
  BY RequestsAssumption DEF TxInv, Shapes
<1> DEFINE kind == tx[r].op.kind
           seen == tx[r].seen
           asked == [seen EXCEPT !.submissionStatus =
                       CASE kind = "submit" -> SUBMITTED
                         [] kind = "reset"  -> DRAFT
                         [] kind = "delete" -> DELETED
                         [] OTHER           -> @]
           new  == ReportBeforeUpdate(seen, asked)
           stored == CASE kind \in {"save", "saveApprovers"} -> new
                       [] kind = "submit" -> [rows.report EXCEPT
                            !.submissionStatus = new.submissionStatus,
                            !.submittedDate = new.submittedDate]
                       [] OTHER -> [ChangedOnly(rows.report, seen, new) EXCEPT
                            !.submittedDate = new.submittedDate]
<1>2. seen \in Reports /\ rows.report \in Reports
  BY <1>1 DEF Txs, Versions
<1>3. rows' = [rows EXCEPT !.report = stored]
  BY DEF UpdateReportRow
<1> HIDE DEF kind
<1>4. asked \in Reports
  BY <1>2 DEF Reports, SubmissionStatuses
<1> HIDE DEF asked
<1>5. new \in Reports
  BY <1>2, <1>4, BeforeUpdateType
<1> HIDE DEF new
<1>6. stored \in Reports
  <2> DEFINE changed == ChangedOnly(rows.report, seen, new)
  <2>1. changed \in Reports
    BY <1>2, <1>5, ChangedOnlyType
  <2> HIDE DEF changed
  <2>2. [changed EXCEPT !.submittedDate = new.submittedDate] \in Reports
        /\ [rows.report EXCEPT !.submissionStatus = new.submissionStatus,
                               !.submittedDate = new.submittedDate] \in Reports
    BY <1>2, <1>5, <2>1 DEF Reports
  <2> QED BY <1>5, <2>2 DEF changed
<1> HIDE DEF stored
<1>7. rows' \in Versions /\ rows'.approvers = rows.approvers
  BY <1>1, <1>3, <1>6 DEF Versions
<1>8. lock' \in Locks /\ lock'.report = r /\ lock'.approvers = lock.approvers
      /\ UNCHANGED <<report, approvers, width>> /\ tx[r].pc = "report"
  BY <1>1 DEF UpdateReportRow, LockReport, Locks
<1>9. /\ tx' = [tx EXCEPT ![r] = tx'[r]] /\ tx'[r] \in Txs
      /\ tx'[r].op = tx[r].op /\ tx'[r].pass = tx[r].pass
      /\ tx'[r].pc = IF kind \in {"saveApprovers", "submit"} THEN "load" ELSE "commit"
  BY <1>1 DEF UpdateReportRow, Goto, Txs, Steps, kind
<1>10. Shapes' /\ FreeRowsCommitted'
  BY <1>1, <1>7, <1>8, <1>9 DEF Shapes, FreeRowsCommitted, TxInv
<1>11. /\ tx[r].op.kind \notin {"review", "unlock"} /\ tx'[r].pass = 1
       /\ tx'[r].op.kind \notin {"review", "unlock"} /\ tx'[r].pc \in {"load", "commit"}
  BY <1>8, <1>9 DEF TxInv, RowsTargeted
<1>12. /\ tx' = [tx EXCEPT ![r] = tx'[r]] /\ tx'[r].op = tx[r].op /\ tx[r].pc # "idle"
       /\ tx'[r].pc \notin {"idle", "report"} /\ UNCHANGED <<report, approvers>>
  BY <1>8, <1>9, <1>11
<1>13. /\ lock'.report \in {lock.report, r} /\ lock'.approvers = lock.approvers
       /\ \A u \in Users : rows'.approvers[u].status = rows.approvers[u].status
  BY <1>7, <1>8
<1> QED BY <1>10, <1>11, <1>12, <1>13, OtherStep

LEMMA FindApproverInv ==
  ASSUME TxInv, NEW r \in Requests, NEW u \in Users, FindApprover(r, u)
  PROVE  TxInv'
<1>1. /\ tx \in [Requests -> Txs] /\ tx[r] \in Txs /\ lock \in Locks
      /\ SeenApprovers(r) \in [Users -> Rows]
  BY SeenType DEF TxInv, Shapes
<1> DEFINE rest == tx[r].todo \ {u}
           found == [tx[r] EXCEPT !.loaded[u] = SeenApprovers(r)[u].status,
                                  !.pc = IF rest = {} THEN "rows" ELSE @,
                                  !.todo = IF rest = {} THEN Targets(tx[r].op) ELSE rest]
<1>2. /\ tx[r].pc = "load" /\ UNCHANGED <<report, approvers, rows, lock, width>>
      /\ tx' = [tx EXCEPT ![r] = found]
  BY <1>1 DEF FindApprover
<1>3. /\ tx[r].op.kind # "unlock" /\ tx[r].pass = 1
      /\ tx[r].op.kind = "review" => tx[r].todo \subseteq {tx[r].op.user}
  BY <1>2 DEF TxInv, RowsTargeted
<1>4. SeenApprovers(r)[u].status \in ApproverStatuses
  BY <1>1 DEF Rows
<1>5. tx[r].op \in Ops \union {NoOp} /\ (tx[r].op.kind = "review" => tx[r].op.user \in Users)
  BY <1>1 DEF Txs, Ops, NoOp
<1>6. /\ Targets(tx[r].op) \subseteq Users
      /\ tx[r].op.kind = "review" => Targets(tx[r].op) = {tx[r].op.user}
  BY <1>5 DEF Targets
<1>7. /\ found \in Txs /\ found.op = tx[r].op /\ found.pass = 1
      /\ found.pc \in {"load", "rows"}
      /\ tx[r].op.kind = "review" => found.todo \subseteq {tx[r].op.user}
  BY <1>1, <1>2, <1>3, <1>4, <1>6 DEF Txs, Steps
<1> HIDE DEF found
<1>8. tx'[r] = found /\ tx' = [tx EXCEPT ![r] = tx'[r]]
  BY <1>1, <1>2
<1>9. Shapes' /\ FreeRowsCommitted'
  BY <1>1, <1>2, <1>7 DEF TxInv, Shapes, FreeRowsCommitted
<1> QED BY <1>2, <1>3, <1>7, <1>8, <1>9, OtherStep DEF Saved

\* A status is written as the call says, over the row's last version.
LEMMA UpdateApproverRowInv ==
  ASSUME TxInv, NEW r \in Requests, NEW u \in Users, UpdateApproverRow(r, u)
  PROVE  TxInv'
<1>1. tx \in [Requests -> Txs] /\ tx[r] \in Txs /\ Free \notin Requests /\ lock \in Locks
      /\ rows \in Versions /\ report \in Reports /\ approvers \in [Users -> Rows]
  BY RequestsAssumption DEF TxInv, Shapes
<1> DEFINE old == rows.approvers[u].status
           new == NewStatus(tx[r], u, old)
<1>2. /\ tx[r].pc = "rows" /\ u \in tx[r].todo
      /\ lock.approvers[u] \in {Free, r}
      /\ lock' = [lock EXCEPT !.approvers[u] = r]
      /\ rows' = [rows EXCEPT !.approvers[u].status = new]
      /\ UNCHANGED <<report, approvers, width>>
  BY DEF UpdateApproverRow, LockApprover, MayLock
<1>3. new \in ApproverStatuses
  <2>1. old \in ApproverStatuses
    BY <1>1 DEF Versions, Rows
  <2>2. tx[r].op.kind = "review" => tx[r].op.verdict \in ApproverStatuses
    BY <1>1 DEF Txs, Ops, NoOp, ApproverStatuses
  <2> QED BY <2>1, <2>2 DEF NewStatus, ApproverStatuses, Verdicts
<1>4. Explained(tx[r].op, approvers[u].status, new, u)
  <2>1. Explained(tx[r].op, approvers[u].status, old, u)
    BY <1>2 DEF TxInv, FreeRowsCommitted, VersionsExplained, Explained
  <2>2. tx[r].op.kind = "review" => tx[r].op.user = u
    BY <1>2 DEF TxInv, RowsTargeted
  <2>3. tx[r].pass = 2 => tx[r].op.kind = "submit"
    BY <1>2 DEF TxInv, RowsTargeted
  <2> QED BY <2>1, <2>2, <2>3 DEF Explained, NewStatus
<1> HIDE DEF new, old
<1>5. /\ rows' \in Versions /\ rows'.report = rows.report
      /\ rows'.approvers[u].status = new
      /\ \A v \in Users \ {u} : rows'.approvers[v] = rows.approvers[v]
  BY <1>1, <1>2, <1>3 DEF Versions, Rows
<1>6. /\ lock' \in Locks /\ lock'.report = lock.report
      /\ lock'.approvers[u] = r
      /\ \A v \in Users \ {u} : lock'.approvers[v] = lock.approvers[v]
  BY <1>1, <1>2 DEF Locks
<1>7. /\ tx'[r] \in Txs /\ tx' = [tx EXCEPT ![r] = tx'[r]]
      /\ tx'[r].op = tx[r].op /\ tx'[r].pass = tx[r].pass
      /\ tx'[r].loaded = tx[r].loaded
      /\ tx'[r].todo \subseteq tx[r].todo /\ tx'[r].pc \in {"rows", "hook"}
  BY <1>1, <1>2 DEF UpdateApproverRow, Txs, Steps
<1>8. \A s \in Requests \ {r} : tx'[s] = tx[s]
  BY <1>1, <1>7
<1>9. Shapes' /\ FreeRowsCommitted' /\ IdleHoldsNothing'
  BY <1>1, <1>2, <1>5, <1>6, <1>7, <1>8
     DEF TxInv, Shapes, FreeRowsCommitted, IdleHoldsNothing
<1>10. RowsTargeted'
  BY <1>2, <1>7, <1>8 DEF TxInv, RowsTargeted
<1>11. VersionsExplained'
  <2> SUFFICES ASSUME NEW s \in Requests, NEW v \in Users, lock'.approvers[v] = s
               PROVE  Explained(tx'[s].op, approvers[v].status, rows'.approvers[v].status, v)
    BY <1>2 DEF VersionsExplained
  <2>1. tx'[s].op = tx[s].op
    BY <1>7, <1>8
  <2>2. CASE v = u
    BY <1>4, <1>5, <1>6, <2>1, <2>2
  <2>3. CASE v # u
    BY <1>5, <1>6, <2>1, <2>3 DEF TxInv, VersionsExplained
  <2> QED BY <2>2, <2>3
<1>12. ReviewsSaved'
  <2> SUFFICES ASSUME NEW s \in Requests, tx'[s].pc \in Saved, tx'[s].op.kind = "review",
                      NEW v, v = tx'[s].op.user
               PROVE  /\ lock'.approvers[v] = s
                      /\ \/ rows'.approvers[v].status = tx'[s].op.verdict
                         \/ tx'[s].loaded[v] = tx'[s].op.verdict
    BY DEF ReviewsSaved
  <2>1. CASE s = r
    <3>1. v = u /\ tx[r].op.kind = "review"
      BY <1>2, <1>7, <2>1 DEF TxInv, RowsTargeted
    <3>2. new = tx[r].op.verdict \/ tx[r].loaded[u] = tx[r].op.verdict
      BY <1>2, <3>1 DEF new, NewStatus, TxInv, RowsTargeted
    <3> QED BY <1>5, <1>6, <1>7, <2>1, <3>1, <3>2
  <2>2. CASE s # r
    <3>1. tx'[s] = tx[s] /\ tx[s].op \in Ops \union {NoOp}
      BY <1>1, <1>8, <2>2 DEF Txs
    <3>2. v \in Users
      BY <3>1 DEF Ops, NoOp
    <3>3. /\ lock.approvers[v] = s
          /\ rows.approvers[v].status = tx[s].op.verdict \/ tx[s].loaded[v] = tx[s].op.verdict
      BY <3>1 DEF TxInv, ReviewsSaved
    <3>4. v # u
      BY <1>1, <1>2, <2>2, <3>3
    <3> QED BY <1>5, <1>6, <3>1, <3>2, <3>3, <3>4
  <2> QED BY <2>1, <2>2
<1> QED BY <1>9, <1>10, <1>11, <1>12 DEF TxInv

LEMMA RunHookInv ==
  ASSUME TxInv, NEW r \in Requests, RunHook(r)
  PROVE  TxInv'
<1>1. tx \in [Requests -> Txs] /\ tx[r] \in Txs /\ Asking(r) \in SUBSET Users
  BY DEF TxInv, Shapes, Asking
<1>2. PICK own \in InstanceStatuses(tx[r]) :
        LET calc == CalculateReportStatus(own, SeenApprovers(r))
            approving == calc = APPROVED /\ SeenReport(r).calculatedStatus # APPROVED
        IN tx' = [tx EXCEPT ![r] =
             IF SeenReport(r).submissionStatus = DELETED THEN AfterHook(@, Asking(r))
             ELSE [@ EXCEPT !.calc = calc,
                            !.pc   = IF approving THEN "notes" ELSE "find",
                            !.todo = IF approving THEN Users ELSE {}]]
  BY DEF RunHook
<1> DEFINE calc == CalculateReportStatus(own, SeenApprovers(r))
           approving == calc = APPROVED /\ SeenReport(r).calculatedStatus # APPROVED
           going == [tx[r] EXCEPT !.calc = calc,
                                  !.pc   = IF approving THEN "notes" ELSE "find",
                                  !.todo = IF approving THEN Users ELSE {}]
           after == AfterHook(tx[r], Asking(r))
<1>3. /\ tx[r].pc = "hook" /\ UNCHANGED <<report, approvers, rows, lock, width>>
      /\ tx' = [tx EXCEPT ![r] = tx'[r]]
      /\ tx'[r] = after \/ tx'[r] = going
  BY <1>1, <1>2 DEF RunHook
<1>4. calc \in CalculatedStatuses
  BY OutcomeRange DEF CalculateReportStatus, CalculatedStatuses, SubmissionStatuses, Verdicts
<1> HIDE DEF calc
<1>5. /\ going \in Txs /\ going.op = tx[r].op /\ going.loaded = tx[r].loaded
      /\ going.pc \in {"notes", "find"}
  BY <1>1, <1>4 DEF Txs, Steps
<1>6. /\ after \in Txs /\ after.op = tx[r].op /\ after.loaded = tx[r].loaded
      /\ after.pc \in {"rows", "commit"} /\ (after.pc = "rows" => tx[r].op.kind = "submit")
  BY <1>1, AfterHookType
<1> HIDE DEF going, after
<1>7. /\ tx'[r] \in Txs /\ tx'[r].op = tx[r].op /\ tx'[r].loaded = tx[r].loaded
      /\ tx'[r].pc \in {"rows", "notes", "find", "commit"}
      /\ tx'[r].pc = "rows" => tx'[r].op.kind = "submit"
  BY <1>3, <1>5, <1>6
<1>8. Shapes' /\ FreeRowsCommitted'
  BY <1>1, <1>3, <1>7 DEF TxInv, Shapes, FreeRowsCommitted
<1> QED BY <1>3, <1>7, <1>8, OtherStep DEF Saved

LEMMA ClearApproverNoteInv ==
  ASSUME TxInv, NEW r \in Requests, NEW u \in Users, ClearApproverNote(r, u)
  PROVE  TxInv'
<1>1. tx \in [Requests -> Txs] /\ tx[r] \in Txs /\ lock \in Locks /\ Free \notin Requests
  BY RequestsAssumption DEF TxInv, Shapes
<1>2. /\ tx[r].pc = "notes" /\ lock.approvers[u] \in {Free, r}
      /\ lock' = [lock EXCEPT !.approvers[u] = r]
      /\ UNCHANGED <<report, approvers, rows, width>>
  BY DEF ClearApproverNote, LockApprover, MayLock
<1>3. /\ tx' = [tx EXCEPT ![r] = tx'[r]] /\ tx'[r] \in Txs
      /\ tx'[r].op = tx[r].op /\ tx'[r].loaded = tx[r].loaded
      /\ tx'[r].pc \in {"notes", "find"}
  BY <1>1, <1>2 DEF ClearApproverNote, Txs, Steps
<1>4. /\ lock' \in Locks /\ lock'.report = lock.report /\ lock'.approvers[u] = r
      /\ \A v \in Users \ {u} : lock'.approvers[v] = lock.approvers[v]
  BY <1>1, <1>2 DEF Locks
<1>5. Shapes' /\ FreeRowsCommitted'
  BY <1>1, <1>2, <1>3, <1>4 DEF TxInv, Shapes, FreeRowsCommitted
<1>6. /\ \A v \in Users : lock'.approvers[v] \in {lock.approvers[v], r}
      /\ \A v \in Users : lock'.approvers[v] # lock.approvers[v] => lock.approvers[v] = Free
  BY <1>2, <1>4
<1> QED BY <1>2, <1>3, <1>4, <1>5, <1>6, OtherStep DEF Saved

LEMMA FindReportInv ==
  ASSUME TxInv, NEW r \in Requests, FindReport(r)
  PROVE  TxInv'
<1>1. /\ tx \in [Requests -> Txs] /\ tx[r] \in Txs /\ Asking(r) \in SUBSET Users
      /\ SeenReport(r) \in Reports
  BY SeenType DEF TxInv, Shapes, Asking
<1> DEFINE after == AfterHook(tx[r], Asking(r))
           found == [tx[r] EXCEPT !.seen = SeenReport(r), !.pc = "write"]
<1>2. /\ tx[r].pc = "find" /\ UNCHANGED <<report, approvers, rows, lock, width>>
      /\ tx' = [tx EXCEPT ![r] = tx'[r]]
      /\ tx'[r] = after \/ tx'[r] = found
  BY <1>1 DEF FindReport
<1>3. found \in Txs /\ found.op = tx[r].op /\ found.loaded = tx[r].loaded
      /\ found.pc = "write"
  BY <1>1 DEF Txs, Steps
<1>4. after \in Txs /\ after.op = tx[r].op /\ after.loaded = tx[r].loaded
      /\ after.pc \in {"rows", "commit"}
      /\ (after.pc = "rows" => tx[r].op.kind = "submit")
  BY <1>1, AfterHookType
<1> HIDE DEF found, after
<1>5. /\ tx'[r] \in Txs /\ tx'[r].op = tx[r].op /\ tx'[r].loaded = tx[r].loaded
      /\ tx'[r].pc \in {"rows", "write", "commit"}
      /\ tx'[r].pc = "rows" => tx'[r].op.kind = "submit"
  BY <1>2, <1>3, <1>4
<1>6. Shapes' /\ FreeRowsCommitted'
  BY <1>1, <1>2, <1>5 DEF TxInv, Shapes, FreeRowsCommitted
<1> QED BY <1>2, <1>5, <1>6, OtherStep DEF Saved

LEMMA WriteCalculatedStatusInv ==
  ASSUME TxInv, NEW r \in Requests, WriteCalculatedStatus(r)
  PROVE  TxInv'
<1>1. /\ tx \in [Requests -> Txs] /\ tx[r] \in Txs /\ Asking(r) \in SUBSET Users
      /\ lock \in Locks /\ rows \in Versions /\ rows.report \in Reports /\ Free \notin Requests
  BY RequestsAssumption DEF TxInv, Shapes, Asking, Versions
<1> DEFINE seen  == tx[r].seen
           calc  == tx[r].calc
           asked == [seen EXCEPT !.calculatedStatus = calc, !.approvedAt = (calc = APPROVED),
                                 !.approvedAtTimezone = @ /\ calc = APPROVED]
           new   == ReportBeforeUpdate(seen, asked)
           after == AfterHook(tx[r], Asking(r))
<1>2. seen \in Reports /\ calc \in CalculatedStatuses
  BY <1>1 DEF Txs
<1>3. /\ tx[r].pc = "write" /\ UNCHANGED <<report, approvers, width>>
      /\ tx' = [tx EXCEPT ![r] = after]
      /\ lock' = [lock EXCEPT !.report = r]
      /\ rows' = rows \/ rows' = [rows EXCEPT !.report = ChangedOnly(@, seen, new)]
  BY DEF WriteCalculatedStatus, LockReport
<1> HIDE DEF seen, calc
<1>4. asked \in Reports
  <2>1. (calc = APPROVED) \in BOOLEAN /\ (seen.approvedAtTimezone /\ calc = APPROVED) \in BOOLEAN
    OBVIOUS
  <2> QED BY <1>2, <2>1 DEF Reports
<1> HIDE DEF asked
<1>5. new \in Reports
  BY <1>2, <1>4, BeforeUpdateType
<1> HIDE DEF new
<1>6. ChangedOnly(rows.report, seen, new) \in Reports
  BY <1>1, <1>2, <1>5, ChangedOnlyType
<1>7. rows' \in Versions /\ rows'.approvers = rows.approvers
  BY <1>1, <1>3, <1>6 DEF Versions
<1>8. after \in Txs /\ after.op = tx[r].op /\ after.loaded = tx[r].loaded
      /\ after.pc \in {"rows", "commit"}
      /\ (after.pc = "rows" => tx[r].op.kind = "submit")
  BY <1>1, AfterHookType
<1> HIDE DEF after
<1>9. tx' = [tx EXCEPT ![r] = tx'[r]] /\ tx'[r] = after
  BY <1>1, <1>3
<1>10. lock' \in Locks /\ lock'.report = r /\ lock'.approvers = lock.approvers
  BY <1>1, <1>3 DEF Locks
<1>11. Shapes' /\ FreeRowsCommitted'
  BY <1>1, <1>3, <1>7, <1>8, <1>10 DEF TxInv, Shapes, FreeRowsCommitted
<1> QED BY <1>3, <1>7, <1>8, <1>9, <1>10, <1>11, OtherStep DEF Saved

-----------------------------------------------------------------------------
\* What the end of a transaction leaves of the locks.
LEMMA ReleaseFacts ==
  ASSUME Shapes, NEW r \in Requests, Release(r)
  PROVE  /\ lock' \in Locks
         /\ lock'.report = IF lock.report = r THEN Free ELSE lock.report
         /\ \A u \in Users : lock'.approvers[u] = IF lock.approvers[u] = r THEN Free
                                                  ELSE lock.approvers[u]
         /\ tx' \in [Requests -> Txs]
         /\ tx'[r] = Idle /\ Idle.pc = "idle"
         /\ \A s \in Requests \ {r} : tx'[s] = tx[s]
<1>1. Idle \in Txs /\ Idle.pc = "idle"
  BY DEF Idle, NotLoaded, Txs, Steps, SubmittedReport, Reports, CalculatedStatuses,
         SubmissionStatuses, ApproverStatuses
<1>2. /\ lock' \in Locks
      /\ lock'.report = IF lock.report = r THEN Free ELSE lock.report
      /\ \A u \in Users : lock'.approvers[u] = IF lock.approvers[u] = r THEN Free
                                               ELSE lock.approvers[u]
  BY DEF Release, Held, Shapes, Locks
<1>3. tx' = [tx EXCEPT ![r] = Idle] /\ tx \in [Requests -> Txs]
  BY DEF Release, Shapes
<1> QED BY <1>1, <1>2, <1>3

LEMMA CommitInv ==
  ASSUME TxInv, NEW r \in Requests, CommitRequest(r)
  PROVE  TxInv'
<1>1. Shapes /\ Free \notin Requests
  BY RequestsAssumption DEF TxInv
<1>2. /\ report' = (IF lock.report = r THEN rows.report ELSE report) /\ report' \in Reports
      /\ approvers' \in [Users -> Rows]
      /\ \A u \in Users : approvers'[u] = IF lock.approvers[u] = r THEN rows.approvers[u]
                                          ELSE approvers[u]
      /\ Release(r) /\ rows' = rows /\ width' = width
  BY <1>1, SeenType DEF CommitRequest, SeenReport, SeenApprovers
<1>3. /\ lock' \in Locks
      /\ lock'.report = IF lock.report = r THEN Free ELSE lock.report
      /\ \A u \in Users : lock'.approvers[u] = IF lock.approvers[u] = r THEN Free
                                               ELSE lock.approvers[u]
      /\ tx' \in [Requests -> Txs] /\ tx'[r] = Idle /\ Idle.pc = "idle"
      /\ \A s \in Requests \ {r} : tx'[s] = tx[s]
  BY <1>1, <1>2, ReleaseFacts
<1>4. Shapes' /\ FreeRowsCommitted'
  BY <1>1, <1>2, <1>3 DEF TxInv, Shapes, FreeRowsCommitted
<1>5. IdleHoldsNothing'
  BY <1>1, <1>3 DEF TxInv, IdleHoldsNothing
<1>6. RowsTargeted'
  BY <1>3 DEF TxInv, RowsTargeted
<1>7. VersionsExplained'
  <2> SUFFICES ASSUME NEW s \in Requests, NEW u \in Users, lock'.approvers[u] = s
               PROVE  Explained(tx'[s].op, approvers'[u].status, rows.approvers[u].status, u)
    BY <1>2 DEF VersionsExplained
  <2>1. s # r /\ lock.approvers[u] = s
    BY <1>1, <1>3
  <2> QED BY <1>2, <1>3, <2>1 DEF TxInv, VersionsExplained
<1>8. ReviewsSaved'
  <2> SUFFICES ASSUME NEW s \in Requests, tx'[s].pc \in Saved, tx'[s].op.kind = "review",
                      NEW u, u = tx'[s].op.user
               PROVE  /\ lock'.approvers[u] = s
                      /\ \/ rows'.approvers[u].status = tx'[s].op.verdict
                         \/ tx'[s].loaded[u] = tx'[s].op.verdict
    BY DEF ReviewsSaved
  <2>1. s # r /\ tx'[s] = tx[s]
    BY <1>3 DEF Saved
  <2>2. tx[s].op \in Ops \union {NoOp}
    BY <1>1 DEF Shapes, Txs
  <2>3. u \in Users
    BY <2>1, <2>2 DEF Ops, NoOp
  <2>4. /\ lock.approvers[u] = s
        /\ rows.approvers[u].status = tx[s].op.verdict \/ tx[s].loaded[u] = tx[s].op.verdict
    BY <2>1 DEF TxInv, ReviewsSaved
  <2> QED BY <1>2, <1>3, <2>1, <2>3, <2>4
<1> QED BY <1>4, <1>5, <1>6, <1>7, <1>8 DEF TxInv

\* What a request that ends otherwise leaves: the versions that were committed.
LEMMA RollbackInv ==
  ASSUME TxInv, NEW r \in Requests, Rollback(r)
  PROVE  TxInv'
<1>1. Shapes /\ Free \notin Requests
  BY RequestsAssumption DEF TxInv
<1>2. /\ rows' \in Versions
      /\ rows'.report = IF lock.report = r THEN report ELSE rows.report
      /\ \A u \in Users : rows'.approvers[u] = IF lock.approvers[u] = r THEN approvers[u]
                                               ELSE rows.approvers[u]
      /\ Release(r) /\ UNCHANGED <<report, approvers, width>>
  BY <1>1 DEF Rollback, Held, Shapes, Versions
<1>3. /\ lock' \in Locks
      /\ lock'.report = IF lock.report = r THEN Free ELSE lock.report
      /\ \A u \in Users : lock'.approvers[u] = IF lock.approvers[u] = r THEN Free
                                               ELSE lock.approvers[u]
      /\ tx' \in [Requests -> Txs] /\ tx'[r] = Idle /\ Idle.pc = "idle"
      /\ \A s \in Requests \ {r} : tx'[s] = tx[s]
  BY <1>1, <1>2, ReleaseFacts
<1>4. Shapes' /\ FreeRowsCommitted'
  BY <1>1, <1>2, <1>3 DEF TxInv, Shapes, FreeRowsCommitted
<1>5. IdleHoldsNothing'
  BY <1>1, <1>3 DEF TxInv, IdleHoldsNothing
<1>6. RowsTargeted'
  BY <1>3 DEF TxInv, RowsTargeted
<1>7. VersionsExplained'
  <2> SUFFICES ASSUME NEW s \in Requests, NEW u \in Users, lock'.approvers[u] = s
               PROVE  Explained(tx'[s].op, approvers[u].status, rows'.approvers[u].status, u)
    BY <1>2 DEF VersionsExplained
  <2>1. s # r /\ lock.approvers[u] = s
    BY <1>1, <1>3
  <2> QED BY <1>2, <1>3, <2>1 DEF TxInv, VersionsExplained
<1>8. ReviewsSaved'
  <2> SUFFICES ASSUME NEW s \in Requests, tx'[s].pc \in Saved, tx'[s].op.kind = "review",
                      NEW u, u = tx'[s].op.user
               PROVE  /\ lock'.approvers[u] = s
                      /\ \/ rows'.approvers[u].status = tx'[s].op.verdict
                         \/ tx'[s].loaded[u] = tx'[s].op.verdict
    BY DEF ReviewsSaved
  <2>1. s # r /\ tx'[s] = tx[s]
    BY <1>3 DEF Saved
  <2>2. tx[s].op \in Ops \union {NoOp}
    BY <1>1 DEF Shapes, Txs
  <2>3. u \in Users
    BY <2>1, <2>2 DEF Ops, NoOp
  <2>4. /\ lock.approvers[u] = s
        /\ rows.approvers[u].status = tx[s].op.verdict \/ tx[s].loaded[u] = tx[s].op.verdict
    BY <2>1 DEF TxInv, ReviewsSaved
  <2> QED BY <1>2, <1>3, <2>1, <2>3, <2>4
<1> QED BY <1>4, <1>5, <1>6, <1>7, <1>8 DEF TxInv

-----------------------------------------------------------------------------
LEMMA InitTx == Init => TxInv
<1> SUFFICES ASSUME Init PROVE TxInv
  OBVIOUS
<1>1. SubmittedReport \in Reports /\ Idle \in Txs /\ Idle.pc = "idle"
  BY DEF Idle, NotLoaded, Txs, Steps, SubmittedReport, Reports, CalculatedStatuses,
         SubmissionStatuses, ApproverStatuses
<1>2. [NoRow EXCEPT !.state = "live"] \in Rows
  BY DEF NoRow, Rows, ApproverStatuses
<1>3. Shapes
  BY <1>1, <1>2 DEF Init, Shapes, Versions, Locks
<1>4. FreeRowsCommitted /\ IdleHoldsNothing /\ RowsTargeted /\ VersionsExplained /\ ReviewsSaved
  BY <1>1, RequestsAssumption
     DEF Init, FreeRowsCommitted, IdleHoldsNothing, RowsTargeted, VersionsExplained,
         ReviewsSaved, Saved
<1> QED BY <1>3, <1>4 DEF TxInv

LEMMA StepTx == TxInv /\ [Next]_vars => TxInv'
<1> SUFFICES ASSUME TxInv, [Next]_vars PROVE TxInv'
  OBVIOUS
<1>1. ASSUME NEW r \in Requests, \E op \in Ops : Begin(r, op) PROVE TxInv'
  BY <1>1, BeginInv
<1>2. ASSUME NEW r \in Requests, Fail(r) \/ AbortDeadlocked(r) PROVE TxInv'
  BY <1>2, RollbackInv DEF Fail, AbortDeadlocked
<1>3. ASSUME NEW r \in Requests, Step(r) PROVE TxInv'
  BY <1>2, <1>3, UpdateReportRowInv, FindApproverInv, UpdateApproverRowInv, RunHookInv,
     ClearApproverNoteInv, FindReportInv, WriteCalculatedStatusInv, CommitInv DEF Step
<1>4. CASE UNCHANGED vars
  BY <1>4 DEF vars, TxInv, Shapes, FreeRowsCommitted, IdleHoldsNothing, RowsTargeted,
         VersionsExplained, ReviewsSaved
<1> QED BY <1>1, <1>2, <1>3, <1>4 DEF Next

\* Rows, locks and requests keep their types, whatever runs at once.
THEOREM TypeCorrect == Spec => []TypeOK
BY InitTx, StepTx, TxInvType, PTL DEF Spec

\* A committed verdict changes only with a request that ran to its end, and a
\* review leaves its own: for any number of requests, whatever order their finds,
\* saves and rollbacks come in.
THEOREM VerdictsNeverLost == Spec => VerdictsNotLost
<1> DEFINE Kept == \A u \in Users : approvers'[u].status # approvers[u].status =>
             \E r \in Requests :
               /\ tx[r].pc = "commit"
               /\ \/ tx[r].op.kind = "review" /\ tx[r].op.user = u
                       /\ approvers'[u].status = tx[r].op.verdict
                  \/ tx[r].op.kind = "unlock"
                  \/ tx[r].op.kind = "submit" /\ approvers[u].status = NEEDS_ACTION
           Left == \A r \in Requests : CommitRequest(r) /\ tx[r].op.kind = "review" =>
             LET u == tx[r].op.user
             IN approvers'[u].status = tx[r].op.verdict \/ tx[r].loaded[u] = tx[r].op.verdict
<1>1. TxInv /\ [Next]_vars => [Kept]_vars
  <2> SUFFICES ASSUME TxInv, Next, NEW u \in Users, approvers'[u].status # approvers[u].status
               PROVE  \E r \in Requests :
                        /\ tx[r].pc = "commit"
                        /\ \/ tx[r].op.kind = "review" /\ tx[r].op.user = u
                                /\ approvers'[u].status = tx[r].op.verdict
                           \/ tx[r].op.kind = "unlock"
                           \/ tx[r].op.kind = "submit" /\ approvers[u].status = NEEDS_ACTION
    OBVIOUS
  <2>1. PICK r \in Requests : CommitRequest(r)
    BY DEF Next, Step, Begin, UpdateReportRow, FindApprover, UpdateApproverRow, RunHook,
           ClearApproverNote, FindReport, WriteCalculatedStatus, AbortDeadlocked, Fail, Rollback
  <2>2. approvers'[u] = IF lock.approvers[u] = r THEN rows.approvers[u] ELSE approvers[u]
    BY <2>1 DEF CommitRequest, SeenApprovers
  <2>3. Explained(tx[r].op, approvers[u].status, approvers'[u].status, u)
    BY <2>2 DEF TxInv, VersionsExplained
  <2> QED BY <2>1, <2>3 DEF Explained, CommitRequest
<1>2. TxInv /\ [Next]_vars => [Left]_vars
  <2> SUFFICES ASSUME TxInv, NEW r \in Requests, CommitRequest(r), tx[r].op.kind = "review",
                      NEW u, u = tx[r].op.user
               PROVE  \/ approvers'[u].status = tx[r].op.verdict
                      \/ tx[r].loaded[u] = tx[r].op.verdict
    OBVIOUS
  <2>1. tx[r].pc = "commit" /\ approvers' = SeenApprovers(r)
    BY DEF CommitRequest
  <2>2. /\ lock.approvers[u] = r
        /\ rows.approvers[u].status = tx[r].op.verdict \/ tx[r].loaded[u] = tx[r].op.verdict
    BY <2>1 DEF TxInv, ReviewsSaved, Saved
  <2>3. tx[r].op \in Ops \union {NoOp}
    BY DEF TxInv, Shapes, Txs
  <2>4. u \in Users
    BY <2>3 DEF Ops, NoOp
  <2> QED BY <2>1, <2>2, <2>4 DEF SeenApprovers
<1>3. TxInv /\ [Next]_vars => [Kept /\ Left]_vars
  BY <1>1, <1>2
<1> QED BY <1>3, InitTx, StepTx, PTL DEF Spec, VerdictsNotLost

\* A step that neither commits nor aborts leaves its request open, and no step
\* touches another request.
GoesOn(r) ==
  \/ UpdateReportRow(r)
  \/ \E u \in Users : FindApprover(r, u)
  \/ \E u \in Users : UpdateApproverRow(r, u)
  \/ RunHook(r)
  \/ \E u \in Users : ClearApproverNote(r, u)
  \/ FindReport(r)
  \/ WriteCalculatedStatus(r)

LEMMA GoesOnKeepsOpen ==
  ASSUME Shapes, NEW r \in Requests, GoesOn(r)
  PROVE  tx'[r].pc # "idle" /\ \A s \in Requests \ {r} : tx'[s] = tx[s]
<1>1. /\ tx \in [Requests -> Txs] /\ tx[r] \in Txs /\ Asking(r) \in SUBSET Users
      /\ AfterHook(tx[r], Asking(r)).pc # "idle"
  <2>1. tx \in [Requests -> Txs] /\ tx[r] \in Txs /\ Asking(r) \in SUBSET Users
    BY DEF Shapes, Asking
  <2> QED BY <2>1, AfterHookType
<1>2. ASSUME NEW pc, pc # "idle", tx' = [tx EXCEPT ![r].pc = pc]
      PROVE  tx'[r].pc # "idle" /\ \A s \in Requests \ {r} : tx'[s] = tx[s]
  BY <1>1, <1>2 DEF Txs
<1>3. ASSUME NEW t, t.pc # "idle", tx' = [tx EXCEPT ![r] = t]
      PROVE  tx'[r].pc # "idle" /\ \A s \in Requests \ {r} : tx'[s] = tx[s]
  BY <1>1, <1>3
<1>4. CASE UpdateReportRow(r)
  <2>1. \E pc : pc # "idle" /\ tx' = [tx EXCEPT ![r].pc = pc]
    BY <1>4 DEF UpdateReportRow, Goto
  <2> QED BY <1>2, <2>1
<1>5. CASE \E u \in Users : UpdateApproverRow(r, u)
  BY <1>1, <1>5 DEF UpdateApproverRow, Txs
<1>10. CASE \E u \in Users : FindApprover(r, u)
  <2>1. PICK u \in Users : FindApprover(r, u)
    BY <1>10
  <2> DEFINE rest == tx[r].todo \ {u}
             found == [tx[r] EXCEPT !.loaded[u] = SeenApprovers(r)[u].status,
                                    !.pc = IF rest = {} THEN "rows" ELSE @,
                                    !.todo = IF rest = {} THEN Targets(tx[r].op) ELSE rest]
  <2>2. tx[r].pc = "load" /\ tx' = [tx EXCEPT ![r] = found]
    BY <1>1, <2>1 DEF FindApprover
  <2>3. found.pc # "idle"
    BY <1>1, <2>2 DEF Txs
  <2> HIDE DEF found
  <2> QED BY <1>3, <2>2, <2>3
<1>6. CASE RunHook(r)
  <2>3. PICK own \in InstanceStatuses(tx[r]) :
          LET calc == CalculateReportStatus(own, SeenApprovers(r))
              approving == calc = APPROVED /\ SeenReport(r).calculatedStatus # APPROVED
          IN tx' = [tx EXCEPT ![r] =
               IF SeenReport(r).submissionStatus = DELETED THEN AfterHook(@, Asking(r))
               ELSE [@ EXCEPT !.calc = calc,
                              !.pc   = IF approving THEN "notes" ELSE "find",
                              !.todo = IF approving THEN Users ELSE {}]]
    BY <1>6 DEF RunHook
  <2> DEFINE calc == CalculateReportStatus(own, SeenApprovers(r))
             approving == calc = APPROVED /\ SeenReport(r).calculatedStatus # APPROVED
             going == [tx[r] EXCEPT !.calc = calc,
                                    !.pc   = IF approving THEN "notes" ELSE "find",
                                    !.todo = IF approving THEN Users ELSE {}]
  <2>1. \/ tx' = [tx EXCEPT ![r] = AfterHook(tx[r], Asking(r))]
        \/ tx' = [tx EXCEPT ![r] = going]
    BY <1>1, <2>3
  <2> HIDE DEF calc, approving
  <2>2. going.pc # "idle"
    BY <1>1 DEF Txs
  <2> HIDE DEF going
  <2> QED BY <1>1, <1>3, <2>1, <2>2
<1>7. CASE \E u \in Users : ClearApproverNote(r, u)
  BY <1>1, <1>7 DEF ClearApproverNote, Txs
<1>8. CASE FindReport(r)
  BY <1>1, <1>8 DEF FindReport, Txs
<1>9. CASE WriteCalculatedStatus(r)
  BY <1>1, <1>9 DEF WriteCalculatedStatus
<1> QED BY <1>4, <1>5, <1>6, <1>7, <1>8, <1>9, <1>10 DEF GoesOn

-----------------------------------------------------------------------------
\* Requests one after the other.  The status of a submitted report is the outcome
\* of the rows ...
Derived(rep, rowsOf) ==
  rep.submissionStatus = SUBMITTED
    => rep.calculatedStatus = CalculateReportStatusFromApprovals(rowsOf)

\* ... and what the request that is open knows at each statement: the approvers it
\* has found are as it found them, and a request for changes that a hook is told of
\* is in the rows.
OnTheWay(t) ==
  /\ t.pc \in {"report", "write"} => t.seen = rows.report
  /\ t.pc \in {"report", "commit"} => Derived(rows.report, rows.approvers)
  /\ t.pc \in {"report", "load", "rows"} /\ t.pass = 1 /\ t.op.kind # "unlock"
       => \A u \in Users : t.loaded[u] \in {PENDING, rows.approvers[u].status}
  /\ t.pc = "hook" /\ NEEDS_ACTION \in InstanceStatuses(t)
       => \E u \in Users : rows.approvers[u].status = NEEDS_ACTION
  /\ t.pc \in {"notes", "find", "write"}
       => t.calc = CalculateReportStatusFromApprovals(rows.approvers)

OneRequest == \A r, s \in Requests : tx[r].pc # "idle" /\ tx[s].pc # "idle" => r = s

AllListed ==
  \A u \in Users : rows.approvers[u].state = "live" /\ approvers[u].state = "live"

SerialInv ==
  /\ OneRequest
  /\ \A r \in Requests : OnTheWay(tx[r])
  /\ AllListed
  /\ Derived(report, approvers)

\* The only request that is open reads the newest rows and waits for nobody.
LEMMA Alone ==
  ASSUME TxInv, OneRequest, NEW r \in Requests, tx[r].pc # "idle"
  PROVE  /\ \A s \in Requests \ {r} : tx[s].pc = "idle"
         /\ SeenReport(r) = rows.report
         /\ SeenApprovers(r) = rows.approvers
         /\ WaitsFor(r) = {}
<1>1. \A s \in Requests \ {r} : tx[s].pc = "idle"
  BY DEF OneRequest
<1>2. /\ lock \in Locks /\ rows \in Versions /\ approvers \in [Users -> Rows]
      /\ Free \notin Requests
  BY RequestsAssumption DEF TxInv, Shapes
<1>3. lock.report \in {Free, r} /\ \A u \in Users : lock.approvers[u] \in {Free, r}
  BY <1>1, <1>2 DEF TxInv, IdleHoldsNothing, Locks
<1>4. SeenReport(r) = rows.report
  BY <1>3 DEF SeenReport, TxInv, FreeRowsCommitted
<1>5. SeenApprovers(r) = rows.approvers
  <2>1. \A u \in Users : SeenApprovers(r)[u] = rows.approvers[u]
    BY <1>3 DEF SeenApprovers, TxInv, FreeRowsCommitted
  <2>2. SeenApprovers(r) \in [Users -> Rows] /\ rows.approvers \in [Users -> Rows]
    BY <1>2, SeenType DEF TxInv, Versions
  <2> QED BY <2>1, <2>2
<1>6. tx[r].todo \subseteq Users
  BY DEF TxInv, Shapes, Txs
<1>7. WaitsFor(r) = {}
  BY <1>3, <1>6 DEF WaitsFor
<1> QED BY <1>1, <1>4, <1>5, <1>7

\* While no request is open there is one version of every row.
LEMMA QuietIsCommitted ==
  ASSUME TxInv, \A r \in Requests : tx[r].pc = "idle"
  PROVE  rows.report = report /\ rows.approvers = approvers
<1>1. /\ lock \in Locks /\ rows \in Versions /\ approvers \in [Users -> Rows]
  BY DEF TxInv, Shapes
<1>2. lock.report = Free /\ \A u \in Users : lock.approvers[u] = Free
  BY <1>1 DEF TxInv, IdleHoldsNothing, Locks
<1>3. rows.approvers \in [Users -> Rows] /\ \A u \in Users : rows.approvers[u] = approvers[u]
  BY <1>1, <1>2 DEF TxInv, FreeRowsCommitted, Versions
<1> QED BY <1>1, <1>2, <1>3 DEF TxInv, FreeRowsCommitted

\* With one slot in use at most, a request that begins finds no other.
LEMMA BeginsAlone ==
  ASSUME width = 1, TxInv, NEW r \in Requests, NEW op \in Ops, Begin(r, op)
  PROVE  \A s \in Requests : tx[s].pc = "idle"
<1> DEFINE open == {s \in Requests : tx[s].pc # "idle"}
<1>1. IsFiniteSet(open)
  BY RequestsAssumption, FS_Subset
<1>2. Cardinality(open) \in Nat /\ Cardinality(open) < 1
  BY <1>1, FS_CardinalityType DEF Begin
<1>3. open = {}
  BY <1>1, <1>2, FS_EmptySet
<1> QED BY <1>3

\* A request for changes that the hook is told of is in the rows, so the status
\* it computes is the outcome of all of them.
LEMMA OwnIsAmongRows ==
  ASSUME NEW a, NEW own, \A u \in Users : a[u].state = "live",
         own = NEEDS_ACTION => \E u \in Users : a[u].status = NEEDS_ACTION
  PROVE  CalculateReportStatus(own, a) = CalculateReportStatusFromApprovals(a)
<1>1. Live(a) = Users
  BY DEF Live
<1> QED BY <1>1 DEF CalculateReportStatus, CalculateReportStatusFromApprovals

\* After a hook a request commits, with the status as the rows say, or it goes on
\* with the second pass of a submission.
LEMMA AfterHookOnTheWay ==
  ASSUME NEW t \in Txs, NEW asking \in SUBSET Users, NEW n, n = AfterHook(t, asking),
         Derived(rows.report, rows.approvers)'
  PROVE  OnTheWay(n)'
<1>1. n.pc \in {"rows", "commit"}
  BY AfterHookType
<1>2. n.pass = 2
  BY DEF AfterHook, Txs
<1> QED BY <1>1, <1>2 DEF OnTheWay

\* Nothing has changed since the instance was loaded: the columns that differ
\* from it are all that differ from the row.
LEMMA ChangedAll ==
  ASSUME NEW seen \in Reports, NEW new \in Reports
  PROVE  ChangedOnly(seen, seen, new) = new
<1>1. DOMAIN seen = DOMAIN new
  BY DEF Reports
<1>2. ChangedOnly(seen, seen, new) = [f \in DOMAIN new |-> new[f]]
  BY <1>1 DEF ChangedOnly
<1>3. new = [f \in DOMAIN new |-> new[f]]
  BY DEF Reports
<1> QED BY <1>2, <1>3

\* A request that goes on does so alone.
LEMMA GoesOnSerially ==
  ASSUME TxInv, SerialInv, NEW r \in Requests, GoesOn(r), tx[r].pc # "idle",
         UNCHANGED <<report, approvers>>, OnTheWay(tx[r])', AllListed'
  PROVE  SerialInv'
<1>1. \A s \in Requests \ {r} : tx[s].pc = "idle" /\ tx'[s] = tx[s]
  BY Alone, GoesOnKeepsOpen DEF SerialInv, TxInv
<1>2. OneRequest'
  BY <1>1 DEF OneRequest
<1>3. ASSUME NEW s \in Requests PROVE OnTheWay(tx[s])'
  <2>1. CASE s = r
    BY <2>1
  <2>2. CASE s # r
    <3>1. tx'[s].pc = "idle"
      BY <1>1, <2>2
    <3> QED BY <3>1 DEF OnTheWay
  <2> QED BY <2>1, <2>2
<1>4. Derived(report, approvers)'
  BY DEF SerialInv, Derived
<1> QED BY <1>2, <1>3, <1>4 DEF SerialInv

LEMMA BeginSerially ==
  ASSUME width = 1, TxInv, SerialInv, NEW r \in Requests, NEW op \in Ops, Begin(r, op)
  PROVE  SerialInv'
<1>1. \A s \in Requests : tx[s].pc = "idle"
  BY BeginsAlone
<1>2. rows.report = report /\ rows.approvers = approvers
  BY <1>1, QuietIsCommitted
<1>3. /\ UNCHANGED <<report, approvers, rows>> /\ tx \in [Requests -> Txs]
      /\ tx' = [tx EXCEPT ![r] = tx'[r]]
      /\ tx'[r].pc \in {"load", "rows", "report"} /\ tx'[r].seen = report
      /\ \A u \in Users : tx'[r].loaded[u] = PENDING
  BY DEF Begin, Idle, NotLoaded, TxInv, Shapes
<1>4. \A s \in Requests \ {r} : tx'[s].pc = "idle"
  BY <1>1, <1>3
<1>5. OneRequest'
  BY <1>4 DEF OneRequest
<1>6. OnTheWay(tx[r])'
  BY <1>2, <1>3 DEF OnTheWay, SerialInv, Derived
<1>7. \A s \in Requests \ {r} : OnTheWay(tx[s])'
  BY <1>4 DEF OnTheWay
<1>8. AllListed' /\ Derived(report, approvers)'
  BY <1>3 DEF SerialInv, AllListed, Derived
<1> QED BY <1>5, <1>6, <1>7, <1>8 DEF SerialInv

LEMMA UpdateReportRowSerially ==
  ASSUME TxInv, SerialInv, NEW r \in Requests, UpdateReportRow(r)
  PROVE  SerialInv'
<1>1. /\ tx \in [Requests -> Txs] /\ tx[r] \in Txs /\ rows \in Versions
      /\ rows.report \in Reports
  BY DEF TxInv, Shapes, Versions
<1> DEFINE kind == tx[r].op.kind
           seen == tx[r].seen
           asked == [seen EXCEPT !.submissionStatus =
                       CASE kind = "submit" -> SUBMITTED
                         [] kind = "reset"  -> DRAFT
                         [] kind = "delete" -> DELETED
                         [] OTHER           -> @]
           new  == ReportBeforeUpdate(seen, asked)
           changed == ChangedOnly(rows.report, seen, new)
           stored == CASE kind \in {"save", "saveApprovers"} -> new
                       [] kind = "submit" -> [rows.report EXCEPT
                            !.submissionStatus = new.submissionStatus,
                            !.submittedDate = new.submittedDate]
                       [] OTHER -> [changed EXCEPT !.submittedDate = new.submittedDate]
<1>2. /\ tx[r].pc = "report" /\ UNCHANGED <<report, approvers>>
      /\ rows' = [rows EXCEPT !.report = stored]
      /\ tx' = [tx EXCEPT ![r].pc = IF kind \in {"saveApprovers", "submit"} THEN "load"
                                    ELSE "commit"]
  BY DEF UpdateReportRow, Goto
<1>3. /\ seen = rows.report /\ Derived(seen, rows.approvers)
      /\ tx[r].op.kind # "unlock" /\ tx[r].pass = 1
      /\ \A u \in Users : tx[r].loaded[u] \in {PENDING, rows.approvers[u].status}
  BY <1>2 DEF SerialInv, OnTheWay, TxInv, RowsTargeted
<1> HIDE DEF kind, seen
<1>4. /\ asked \in Reports
      /\ asked.submissionStatus \in {seen.submissionStatus, SUBMITTED, DRAFT, DELETED}
      /\ asked.submissionStatus = SUBMITTED /\ kind # "submit"
           => asked.submissionStatus = seen.submissionStatus
      /\ asked.calculatedStatus = seen.calculatedStatus
  BY <1>1, <1>3 DEF Reports, SubmissionStatuses
<1> HIDE DEF asked
<1>5. /\ new \in Reports /\ new.submissionStatus = asked.submissionStatus
      /\ new.submissionStatus = SUBMITTED => new.calculatedStatus = asked.calculatedStatus
  BY <1>1, <1>3, <1>4, BeforeUpdateType
<1> HIDE DEF new
<1>6. changed = new
  BY <1>1, <1>3, <1>5, ChangedAll
<1> HIDE DEF changed
<1>7. kind # "submit" => /\ stored.submissionStatus = new.submissionStatus
                         /\ stored.calculatedStatus = new.calculatedStatus
  BY <1>5, <1>6 DEF Reports
<1> HIDE DEF stored
<1>8. kind # "submit" => Derived(stored, rows.approvers)
  BY <1>3, <1>4, <1>5, <1>7 DEF Derived
<1>9. rows'.report = stored /\ rows'.approvers = rows.approvers
  BY <1>1, <1>2 DEF Versions
<1>10. /\ tx'[r].pc = IF kind \in {"saveApprovers", "submit"} THEN "load" ELSE "commit"
       /\ tx'[r].loaded = tx[r].loaded
  BY <1>1, <1>2 DEF Txs
<1>11. OnTheWay(tx[r])' /\ AllListed'
  BY <1>2, <1>3, <1>8, <1>9, <1>10 DEF OnTheWay, AllListed, SerialInv, Derived
<1> QED BY <1>2, <1>11, GoesOnSerially DEF GoesOn

LEMMA FindApproverSerially ==
  ASSUME TxInv, SerialInv, NEW r \in Requests, NEW u \in Users, FindApprover(r, u)
  PROVE  SerialInv'
<1>1. /\ tx \in [Requests -> Txs] /\ tx[r] \in Txs
  BY DEF TxInv, Shapes
<1> DEFINE rest == tx[r].todo \ {u}
           found == [tx[r] EXCEPT !.loaded[u] = SeenApprovers(r)[u].status,
                                  !.pc = IF rest = {} THEN "rows" ELSE @,
                                  !.todo = IF rest = {} THEN Targets(tx[r].op) ELSE rest]
<1>2. /\ tx[r].pc = "load" /\ UNCHANGED <<report, approvers, rows>>
      /\ tx' = [tx EXCEPT ![r] = found]
  BY <1>1 DEF FindApprover
<1>3. SeenApprovers(r) = rows.approvers
  BY <1>2, Alone DEF SerialInv
<1>4. /\ tx[r].op.kind # "unlock" /\ tx[r].pass = 1
      /\ \A v \in Users : tx[r].loaded[v] \in {PENDING, rows.approvers[v].status}
  BY <1>2 DEF SerialInv, OnTheWay, TxInv, RowsTargeted
<1>5. /\ found.pc \in {"load", "rows"} /\ found.loaded[u] = rows.approvers[u].status
      /\ \A v \in Users \ {u} : found.loaded[v] = tx[r].loaded[v]
  BY <1>1, <1>2, <1>3 DEF Txs
<1> HIDE DEF found
<1>6. tx'[r] = found
  BY <1>1, <1>2
<1>7. OnTheWay(tx[r])' /\ AllListed'
  BY <1>2, <1>4, <1>5, <1>6 DEF OnTheWay, AllListed, SerialInv
<1> QED BY <1>2, <1>7, GoesOnSerially DEF GoesOn

LEMMA UpdateApproverRowSerially ==
  ASSUME TxInv, SerialInv, NEW r \in Requests, NEW u \in Users, UpdateApproverRow(r, u)
  PROVE  SerialInv'
<1>1. /\ tx \in [Requests -> Txs] /\ tx[r] \in Txs /\ rows \in Versions
      /\ rows.approvers \in [Users -> Rows]
  BY DEF TxInv, Shapes, Versions
<1> DEFINE t == tx[r]
           new == NewStatus(t, u, rows.approvers[u].status)
<1>2. /\ t.pc = "rows" /\ u \in t.todo /\ UNCHANGED <<report, approvers>>
      /\ rows' = [rows EXCEPT !.approvers[u].status = new]
  BY DEF UpdateApproverRow
<1>3. /\ tx'[r].op = t.op /\ tx'[r].pc \in {"rows", "hook"}
      /\ tx'[r].loaded = t.loaded /\ tx'[r].pass = t.pass
      /\ t.todo = {u} => tx'[r].pc = "hook"
  BY <1>1, <1>2 DEF UpdateApproverRow, Txs
<1>4. /\ t.pass = 2 => t.op.kind = "submit"
      /\ t.op.kind = "review" => t.op.user = u /\ t.todo = {u}
      /\ t.pass \in {1, 2}
  BY <1>1, <1>2 DEF TxInv, RowsTargeted, Txs
<1>5. t.op.kind # "unlock" /\ t.pass = 1
        => \A v \in Users : t.loaded[v] \in {PENDING, rows.approvers[v].status}
  BY <1>2 DEF SerialInv, OnTheWay
<1> HIDE DEF t
<1>6. t.op.kind \notin {"review", "unlock"} /\ t.pass = 1 => new = rows.approvers[u].status
  BY DEF NewStatus
<1>7. t.op.kind = "review" /\ t.op.verdict = NEEDS_ACTION => new = NEEDS_ACTION
  BY <1>4, <1>5 DEF NewStatus
<1>8. t.op.kind = "unlock" => new = NEEDS_ACTION
  BY <1>4 DEF NewStatus
<1> HIDE DEF new
<1>9. /\ rows'.approvers[u].status = new
      /\ \A v \in Users \ {u} : rows'.approvers[v] = rows.approvers[v]
      /\ \A v \in Users : rows'.approvers[v].state = rows.approvers[v].state
  BY <1>1, <1>2 DEF Versions, Rows
<1>10. ASSUME tx'[r].pc = "rows", t.op.kind # "unlock", t.pass = 1, NEW v \in Users
       PROVE  t.loaded[v] \in {PENDING, rows'.approvers[v].status}
  BY <1>3, <1>4, <1>5, <1>6, <1>9, <1>10
<1>11. ASSUME NEEDS_ACTION \in InstanceStatuses(t)
       PROVE  \E v \in Users : rows'.approvers[v].status = NEEDS_ACTION
  <2>1. CASE t.op.kind \in {"review", "unlock"}
    BY <1>7, <1>8, <1>9, <1>11, <2>1 DEF InstanceStatuses
  <2>2. CASE t.op.kind \notin {"review", "unlock"}
    <3>1. t.pass = 1 /\ \E v \in Users : t.loaded[v] = NEEDS_ACTION
      BY <1>4, <1>11, <2>2 DEF InstanceStatuses
    <3>2. PICK v \in Users : rows.approvers[v].status = NEEDS_ACTION
      BY <1>5, <2>2, <3>1
    <3> QED BY <1>6, <1>9, <2>2, <3>1, <3>2
  <2> QED BY <2>1, <2>2
<1>12. InstanceStatuses(tx'[r]) = InstanceStatuses(t)
  BY <1>3 DEF InstanceStatuses
<1>13. OnTheWay(tx[r])' /\ AllListed'
  <2>1. AllListed'
    BY <1>2, <1>9 DEF AllListed, SerialInv
  <2>2. OnTheWay(tx[r])'
    BY <1>3, <1>10, <1>11, <1>12 DEF OnTheWay, InstanceStatuses
  <2> QED BY <2>1, <2>2
<1> QED BY <1>2, <1>13, GoesOnSerially DEF GoesOn, t

LEMMA RunHookSerially ==
  ASSUME TxInv, SerialInv, NEW r \in Requests, RunHook(r)
  PROVE  SerialInv'
<1>1. /\ tx \in [Requests -> Txs] /\ tx[r] \in Txs /\ Asking(r) \in SUBSET Users
  BY DEF TxInv, Shapes, Asking
<1>2. tx[r].pc = "hook" /\ UNCHANGED <<report, approvers, rows, lock>>
  BY DEF RunHook
<1>3. SeenReport(r) = rows.report /\ SeenApprovers(r) = rows.approvers
  BY <1>2, Alone DEF SerialInv
<1>4. PICK own \in InstanceStatuses(tx[r]) :
        LET calc == CalculateReportStatus(own, rows.approvers)
            approving == calc = APPROVED /\ rows.report.calculatedStatus # APPROVED
        IN tx' = [tx EXCEPT ![r] =
             IF rows.report.submissionStatus = DELETED THEN AfterHook(@, Asking(r))
             ELSE [@ EXCEPT !.calc = calc,
                            !.pc   = IF approving THEN "notes" ELSE "find",
                            !.todo = IF approving THEN Users ELSE {}]]
  BY <1>3 DEF RunHook
<1> DEFINE calc == CalculateReportStatus(own, rows.approvers)
           approving == calc = APPROVED /\ rows.report.calculatedStatus # APPROVED
           going == [tx[r] EXCEPT !.calc = calc,
                                  !.pc   = IF approving THEN "notes" ELSE "find",
                                  !.todo = IF approving THEN Users ELSE {}]
<1>5. tx'[r] = IF rows.report.submissionStatus = DELETED
               THEN AfterHook(tx[r], Asking(r)) ELSE going
  BY <1>1, <1>4
<1>6. calc = CalculateReportStatusFromApprovals(rows.approvers)
  BY <1>2, OwnIsAmongRows DEF SerialInv, AllListed, OnTheWay
<1> HIDE DEF calc
<1>7. going.calc = calc /\ going.pc \in {"notes", "find"}
  BY <1>1 DEF Txs
<1> HIDE DEF going
<1>8. OnTheWay(tx[r])'
  <2>1. CASE rows.report.submissionStatus = DELETED
    <3>1. Derived(rows.report, rows.approvers)'
      BY <1>2, <2>1 DEF Derived
    <3> QED BY <1>1, <1>5, <2>1, <3>1, AfterHookOnTheWay
  <2>2. CASE rows.report.submissionStatus # DELETED
    BY <1>2, <1>5, <1>6, <1>7, <2>2 DEF OnTheWay
  <2> QED BY <2>1, <2>2
<1>9. AllListed'
  BY <1>2 DEF SerialInv, AllListed
<1> QED BY <1>2, <1>8, <1>9, GoesOnSerially DEF GoesOn

LEMMA ClearApproverNoteSerially ==
  ASSUME TxInv, SerialInv, NEW r \in Requests, NEW u \in Users, ClearApproverNote(r, u)
  PROVE  SerialInv'
<1>1. tx \in [Requests -> Txs] /\ tx[r] \in Txs
  BY DEF TxInv, Shapes
<1>2. /\ tx[r].pc = "notes" /\ UNCHANGED <<report, approvers, rows>>
      /\ tx'[r].calc = tx[r].calc /\ tx'[r].pc \in {"notes", "find"}
  BY <1>1 DEF ClearApproverNote, Txs
<1>3. OnTheWay(tx[r])' /\ AllListed'
  BY <1>2 DEF OnTheWay, AllListed, SerialInv
<1> QED BY <1>2, <1>3, GoesOnSerially DEF GoesOn

LEMMA FindReportSerially ==
  ASSUME TxInv, SerialInv, NEW r \in Requests, FindReport(r)
  PROVE  SerialInv'
<1>1. /\ tx \in [Requests -> Txs] /\ tx[r] \in Txs /\ Asking(r) \in SUBSET Users
  BY DEF TxInv, Shapes, Asking
<1>2. tx[r].pc = "find" /\ UNCHANGED <<report, approvers, rows, lock>>
  BY DEF FindReport
<1>3. SeenReport(r) = rows.report
  BY <1>2, Alone DEF SerialInv
<1> DEFINE found == [tx[r] EXCEPT !.seen = rows.report, !.pc = "write"]
<1>4. tx' = [tx EXCEPT ![r] = IF rows.report.submissionStatus = DELETED
                              THEN AfterHook(tx[r], Asking(r)) ELSE found]
  BY <1>1, <1>3 DEF FindReport
<1>5. found.calc = tx[r].calc /\ found.pc = "write" /\ found.seen = rows.report
  BY <1>1 DEF Txs
<1> HIDE DEF found
<1>6. OnTheWay(tx[r])'
  <2>1. CASE rows.report.submissionStatus = DELETED
    <3>1. Derived(rows.report, rows.approvers)'
      BY <1>2, <2>1 DEF Derived
    <3>2. tx'[r] = AfterHook(tx[r], Asking(r))
      BY <1>1, <1>4, <2>1
    <3> QED BY <1>1, <3>1, <3>2, AfterHookOnTheWay
  <2>2. CASE rows.report.submissionStatus # DELETED
    <3>1. tx'[r] = found
      BY <1>1, <1>4, <2>2
    <3> QED BY <1>2, <1>5, <3>1 DEF OnTheWay, SerialInv
  <2> QED BY <2>1, <2>2
<1>7. AllListed'
  BY <1>2 DEF SerialInv, AllListed
<1> QED BY <1>2, <1>6, <1>7, GoesOnSerially DEF GoesOn

LEMMA WriteCalculatedStatusSerially ==
  ASSUME TxInv, SerialInv, NEW r \in Requests, WriteCalculatedStatus(r)
  PROVE  SerialInv'
<1>1. /\ tx \in [Requests -> Txs] /\ tx[r] \in Txs /\ Asking(r) \in SUBSET Users
      /\ rows \in Versions /\ rows.report \in Reports
  BY DEF TxInv, Shapes, Asking, Versions
<1> DEFINE seen  == tx[r].seen
           calc  == tx[r].calc
           asked == [seen EXCEPT !.calculatedStatus = calc, !.approvedAt = (calc = APPROVED),
                                 !.approvedAtTimezone = @ /\ calc = APPROVED]
           new   == ReportBeforeUpdate(seen, asked)
<1>2. /\ tx[r].pc = "write" /\ UNCHANGED <<report, approvers>>
      /\ tx' = [tx EXCEPT ![r] = AfterHook(tx[r], Asking(r))]
      /\ rows' = IF rows.report.submissionStatus = DELETED THEN rows
                 ELSE [rows EXCEPT !.report = ChangedOnly(@, seen, new)]
  BY DEF WriteCalculatedStatus
<1>3. /\ seen = rows.report /\ calc = CalculateReportStatusFromApprovals(rows.approvers)
      /\ calc \in CalculatedStatuses
  BY <1>1, <1>2 DEF SerialInv, OnTheWay, Txs
<1> HIDE DEF seen, calc
<1>4. /\ asked \in Reports /\ asked.submissionStatus = seen.submissionStatus
      /\ asked.calculatedStatus = calc
  <2>1. (calc = APPROVED) \in BOOLEAN /\ (seen.approvedAtTimezone /\ calc = APPROVED) \in BOOLEAN
    OBVIOUS
  <2> QED BY <1>1, <1>3, <2>1 DEF Reports
<1> HIDE DEF asked
<1>5. /\ new \in Reports /\ new.submissionStatus = seen.submissionStatus
      /\ new.submissionStatus = SUBMITTED => new.calculatedStatus = calc
  BY <1>1, <1>3, <1>4, BeforeUpdateType
<1> HIDE DEF new
<1>6. ChangedOnly(rows.report, seen, new) = new
  BY <1>1, <1>3, <1>5, ChangedAll
<1>7. /\ rows'.approvers = rows.approvers
      /\ rows'.report = IF rows.report.submissionStatus = DELETED THEN rows.report ELSE new
  BY <1>1, <1>2, <1>6 DEF Versions
<1>8. Derived(rows.report, rows.approvers)'
  BY <1>3, <1>5, <1>7 DEF Derived
<1>9. tx'[r] = AfterHook(tx[r], Asking(r))
  BY <1>1, <1>2
<1>10. OnTheWay(tx[r])'
  BY <1>1, <1>8, <1>9, AfterHookOnTheWay
<1>11. AllListed'
  BY <1>2, <1>7 DEF SerialInv, AllListed
<1> QED BY <1>2, <1>10, <1>11, GoesOnSerially DEF GoesOn

LEMMA CommitSerially ==
  ASSUME TxInv, SerialInv, NEW r \in Requests, CommitRequest(r)
  PROVE  SerialInv'
<1>1. /\ tx[r].pc = "commit" /\ rows' = rows /\ Release(r)
      /\ report' = SeenReport(r) /\ approvers' = SeenApprovers(r)
  BY DEF CommitRequest
<1>2. /\ \A s \in Requests \ {r} : tx[s].pc = "idle"
      /\ report' = rows.report /\ approvers' = rows.approvers
  BY <1>1, Alone DEF SerialInv
<1>3. \A s \in Requests : tx'[s].pc = "idle"
  BY <1>1, <1>2, ReleaseFacts DEF TxInv
<1>4. OneRequest' /\ (\A s \in Requests : OnTheWay(tx[s]))'
  BY <1>3 DEF OneRequest, OnTheWay
<1>5. AllListed' /\ Derived(report, approvers)'
  BY <1>1, <1>2 DEF SerialInv, AllListed, OnTheWay, Derived
<1> QED BY <1>4, <1>5 DEF SerialInv

\* A request that fails leaves everything as it was before.
LEMMA RollbackSerially ==
  ASSUME TxInv, SerialInv, NEW r \in Requests, Rollback(r), tx[r].pc # "idle"
  PROVE  SerialInv'
<1>1. /\ UNCHANGED <<report, approvers>> /\ Release(r)
      /\ \A s \in Requests \ {r} : tx[s].pc = "idle"
  BY Alone DEF Rollback, SerialInv
<1>2. \A s \in Requests : tx'[s].pc = "idle"
  BY <1>1, ReleaseFacts DEF TxInv
<1>3. OneRequest' /\ (\A s \in Requests : OnTheWay(tx[s]))'
  BY <1>2 DEF OneRequest, OnTheWay
<1>4. \A u \in Users : rows'.approvers[u] \in {rows.approvers[u], approvers[u]}
  BY DEF Rollback
<1>5. AllListed' /\ Derived(report, approvers)'
  BY <1>1, <1>4 DEF SerialInv, AllListed, Derived
<1> QED BY <1>3, <1>5 DEF SerialInv

LEMMA InitSerial == Init => SerialInv
<1> SUFFICES ASSUME Init PROVE SerialInv
  OBVIOUS
<1>1. \A r \in Requests : tx[r].pc = "idle"
  BY DEF Init, Idle
<1>2. OneRequest /\ \A r \in Requests : OnTheWay(tx[r])
  BY <1>1 DEF OneRequest, OnTheWay
<1>3. \A u \in Users : approvers[u].state = "live" /\ approvers[u].status = PENDING
  BY DEF Init, NoRow
<1>4. AllListed
  BY <1>3 DEF Init, AllListed
<1>5. CalculateReportStatusFromApprovals(approvers) = SUBMITTED
  BY <1>3 DEF CalculateReportStatusFromApprovals, Live
<1>6. Derived(report, approvers)
  BY <1>5 DEF Init, SubmittedReport, Derived
<1> QED BY <1>2, <1>4, <1>6 DEF SerialInv

LEMMA StepSerial ==
  ASSUME TxInv, width = 1 => SerialInv, [Next]_vars
  PROVE  width' = 1 => SerialInv'
<1>1. width' = width
  BY DEF vars, Next, Step, Begin, UpdateReportRow, FindApprover, UpdateApproverRow, RunHook,
         ClearApproverNote, FindReport, WriteCalculatedStatus, CommitRequest, AbortDeadlocked,
         Fail, Rollback
<1> SUFFICES ASSUME width = 1 PROVE SerialInv'
  BY <1>1
<1>2. ASSUME NEW r \in Requests, \E op \in Ops : Begin(r, op) PROVE SerialInv'
  BY <1>2, BeginSerially
<1>3. ASSUME NEW r \in Requests, Fail(r) PROVE SerialInv'
  BY <1>3, RollbackSerially DEF Fail
<1>4. ASSUME NEW r \in Requests, AbortDeadlocked(r) PROVE FALSE
  <2>1. WaitsFor(r) # {}
    BY <1>4 DEF AbortDeadlocked, Blocked
  <2>2. tx[r].pc # "idle"
    BY <2>1 DEF WaitsFor
  <2> QED BY <2>1, <2>2, Alone DEF SerialInv
<1>5. ASSUME NEW r \in Requests, Step(r) PROVE SerialInv'
  BY <1>4, <1>5, UpdateReportRowSerially, FindApproverSerially, UpdateApproverRowSerially,
     RunHookSerially, ClearApproverNoteSerially, FindReportSerially,
     WriteCalculatedStatusSerially, CommitSerially DEF Step
<1>6. CASE UNCHANGED vars
  BY <1>6 DEF vars, SerialInv, OneRequest, OnTheWay, AllListed, Derived, InstanceStatuses
<1> QED BY <1>2, <1>3, <1>5, <1>6 DEF Next

\* Requests that run one after the other always leave a submitted report with the
\* status its approvers' verdicts give, whichever statement of theirs throws: what
\* two reviews at once can break is broken by their interleaving, and by nothing in
\* the statements of one.
THEOREM RightOneAtATime == Spec => []StatusDerivedOneAtATime
<1> DEFINE Serially == width = 1 => SerialInv
<1>1. Init => Serially
  BY InitSerial
<1>2. TxInv /\ Serially /\ [Next]_vars => Serially'
  BY StepSerial
<1>3. Serially => StatusDerivedOneAtATime
  BY DEF SerialInv, Derived, StatusDerivedWhenQuiet, StatusDerivedOneAtATime
<1> QED BY <1>1, <1>2, <1>3, InitTx, StepTx, PTL DEF Spec
=============================================================================
