------------------------- MODULE ReportTransactions -------------------------
(***************************************************************************)
(* Requests on one submitted report that run at the same time, statement   *)
(* by statement.  routes/transactionWrapper.js gives each request one      *)
(* PostgreSQL transaction of the default isolation level, READ COMMITTED:  *)
(* a statement reads what is committed plus the transaction's own writes,  *)
(* an UPDATE locks its row until the end, a writer of a locked row waits   *)
(* and then writes over what was committed meanwhile, and the database     *)
(* aborts one of the transactions that wait for each other.                *)
(*                                                                         *)
(* The list of approvers is fixed here (all users), so the rows are only   *)
(* updated; ActivityReport models their coming and going.  What a request  *)
(* finds it keeps in memory: when it saves an instance, other requests may *)
(* have changed the row since.                                             *)
(***************************************************************************)
EXTENDS ReportHooks, Integers, FiniteSets

CONSTANTS
  Requests,    \* request slots: how many requests may be open at once
  MaxActive,   \* bound on the requests open at the same time
  Kinds,       \* the handlers that are called
  Free         \* no holder of a lock

AllKinds == {"review", "save", "saveApprovers", "submit", "reset", "unlock", "delete"}

ASSUME RequestsAssumption ==
  /\ IsFiniteSet(Requests)
  /\ Free \notin Requests
  /\ Kinds \subseteq AllKinds
  /\ MaxActive \in 1..Cardinality(Requests)

VARIABLES
  report,      \* the committed report row
  approvers,   \* the committed approver rows
  rows,        \* the newest version of every row: [report, approvers]
  lock,        \* who holds each row: [report, approvers]
  tx,          \* what each request is doing
  width        \* how many requests are open at once at most: 1..MaxActive

vars == <<report, approvers, rows, lock, tx, width>>

\* The calls a client can make.
Ops == [kind : Kinds \ {"review"}, user : {Free}, verdict : {PENDING}]
         \union [kind : Kinds \intersect {"review"}, user : Users, verdict : Verdicts]

NoOp == [kind |-> "none", user |-> Free, verdict |-> PENDING]

SubmittedReport ==
  [submissionStatus |-> SUBMITTED, calculatedStatus |-> SUBMITTED, approvedAt |-> FALSE,
   approvedAtTimezone |-> FALSE, submittedDate |-> TRUE, additionalNotes |-> FALSE,
   valid |-> TRUE]

\* pc names the statement to run next; seen is the report instance in memory,
\* loaded the statuses of the approver instances, todo the rows the statement has
\* still to reach, calc the outcome a hook computed, pass counts the hook runs of
\* a submission.
NotLoaded == [u \in Users |-> PENDING]

Idle == [op |-> NoOp, pc |-> "idle", seen |-> SubmittedReport, loaded |-> NotLoaded,
         todo |-> {}, calc |-> SUBMITTED, pass |-> 1]

Init ==
  /\ report = SubmittedReport
  /\ approvers = [u \in Users |-> [NoRow EXCEPT !.state = "live"]]
  /\ rows = [report |-> report, approvers |-> approvers]
  /\ lock = [report |-> Free, approvers |-> [u \in Users |-> Free]]
  /\ tx = [r \in Requests |-> Idle]
  /\ width \in 1..MaxActive

-----------------------------------------------------------------------------
\* What a statement of r reads.
SeenReport(r) == IF lock.report = r THEN rows.report ELSE report
SeenApprovers(r) ==
  [u \in Users |-> IF lock.approvers[u] = r THEN rows.approvers[u] ELSE approvers[u]]

Goto(r, pc) == tx' = [tx EXCEPT ![r].pc = pc]

\* The request asks to write the report row, or an approver's row.
MayLock(r, holder) == holder \in {Free, r}

\* Mutant: the report row is written without its lock.
LockNoReport(r) == MayLock(r, lock.report) /\ UNCHANGED lock

LockReport(r) == MayLock(r, lock.report) /\ lock' = [lock EXCEPT !.report = r]

LockApprover(r, u) == MayLock(r, lock.approvers[u]) /\ lock' = [lock EXCEPT !.approvers[u] = r]

\* UPDATE of the columns that differ from the instance in memory.
ChangedOnly(base, seen, new) ==
  [f \in DOMAIN base |-> IF new[f] # seen[f] THEN new[f] ELSE base[f]]

Permitted(op, seen) ==
  LET calc == seen.calculatedStatus IN
  CASE op.kind = "review"  -> TRUE
    [] op.kind \in {"save", "saveApprovers", "submit"} -> calc \in {DRAFT, SUBMITTED, NEEDS_ACTION}
    [] op.kind = "reset"   -> calc = SUBMITTED
    [] op.kind = "unlock"  -> calc = APPROVED
    [] op.kind = "delete"  -> calc # APPROVED

\* The approver rows a request writes: the reviewer's, or all of them.
Targets(op) == IF op.kind = "review" THEN {op.user} ELSE Users

\* A request arrives; activityReportAndRecipientsById reads the report and the
\* policy decides on what was read.
Begin(r, op) ==
  /\ tx[r].pc = "idle"
  /\ Cardinality({s \in Requests : tx[s].pc # "idle"}) < width
  /\ report.submissionStatus # DELETED
  /\ Permitted(op, report)
  /\ tx' = [tx EXCEPT ![r] =
       [Idle EXCEPT !.op = op, !.seen = report,
                    !.pc = CASE op.kind = "review" -> "load"
                             [] op.kind = "unlock" -> "rows"
                             [] OTHER -> "report",
                    !.todo = Targets(op)]]
  /\ UNCHANGED <<report, approvers, rows, lock, width>>

\* The first UPDATE of the report row: saveReport writes every column of the
\* instance read, submitReport those it names, setStatus those it changed.
UpdateReportRow(r) ==
  /\ tx[r].pc = "report"
  /\ LockReport(r)
  /\ LET kind == tx[r].op.kind
         seen == tx[r].seen
         new  == ReportBeforeUpdate(seen,
                   [seen EXCEPT !.submissionStatus =
                      CASE kind = "submit" -> SUBMITTED
                        [] kind = "reset"  -> DRAFT
                        [] kind = "delete" -> DELETED
                        [] OTHER           -> @])
         stored == CASE kind \in {"save", "saveApprovers"} -> new
                     [] kind = "submit" -> [rows.report EXCEPT
                          !.submissionStatus = new.submissionStatus,
                          !.submittedDate = new.submittedDate]
                     [] OTHER -> [ChangedOnly(rows.report, seen, new) EXCEPT
                          !.submittedDate = new.submittedDate]
     IN rows' = [rows EXCEPT !.report = stored]
  /\ Goto(r, IF tx[r].op.kind \in {"saveApprovers", "submit"} THEN "load" ELSE "commit")
  /\ UNCHANGED <<report, approvers, width>>

\* upsertApprover finds the approver; syncApprovers starts all its finds at once,
\* so they come before the first save.
FindApprover(r, u) ==
  /\ tx[r].pc = "load"
  /\ u \in tx[r].todo
  /\ LET rest == tx[r].todo \ {u}
     IN tx' = [tx EXCEPT ![r].loaded[u] = SeenApprovers(r)[u].status,
                         ![r].pc = IF rest = {} THEN "rows" ELSE @,
                         ![r].todo = IF rest = {} THEN Targets(tx[r].op) ELSE rest]
  /\ UNCHANGED <<report, approvers, rows, lock, width>>

\* Mutant: a review writes only over the status it found.
NewStatusIfUnchanged(t, u, status) ==
  CASE t.op.kind = "review" -> IF status = t.loaded[u] THEN t.op.verdict ELSE status
    [] t.op.kind = "unlock" -> NEEDS_ACTION
    [] t.pass = 2 /\ status = NEEDS_ACTION -> PENDING
    [] OTHER -> status

\* UPDATE of an approver row.  upsertApprover saves the columns it has changed in
\* the instance it found: a verdict, unless it is the one it found, or only the
\* date (syncApprovers).  The others name the status: a request for changes on
\* unlocking, and the reset of a request for changes, whose where clause is
\* evaluated again on the row that is locked.
NewStatus(t, u, status) ==
  CASE t.op.kind = "review" -> IF t.op.verdict # t.loaded[u] THEN t.op.verdict ELSE status
    [] t.op.kind = "unlock" -> NEEDS_ACTION
    [] t.pass = 2 /\ status = NEEDS_ACTION -> PENDING
    [] OTHER -> status

UpdateApproverRow(r, u) ==
  /\ tx[r].pc = "rows"
  /\ u \in tx[r].todo
  /\ LockApprover(r, u)
  /\ rows' = [rows EXCEPT !.approvers[u].status = NewStatus(tx[r], u, @)]
  /\ tx' = [tx EXCEPT ![r].todo = @ \ {u},
                      ![r].pc = IF tx[r].todo = {u} THEN "hook" ELSE @]
  /\ UNCHANGED <<report, approvers, width>>

\* After a hook a submission goes on, once, with the requests for changes that
\* it can see; everything else commits.
AfterHook(t, asking) ==
  LET again == t.op.kind = "submit" /\ t.pass = 1 /\ asking # {}
  IN [t EXCEPT !.pc   = IF again THEN "rows" ELSE "commit",
               !.pass = 2,
               !.todo = IF again THEN asking ELSE {}]

Asking(r) == {u \in Users : SeenApprovers(r)[u].status = NEEDS_ACTION}

\* The status of the instances a hook is run for: what the statement has set, or
\* what syncApprovers had found.
InstanceStatuses(t) ==
  CASE t.op.kind = "review" -> {t.op.verdict}
    [] t.op.kind = "unlock" -> {NEEDS_ACTION}
    [] t.pass = 2 -> {PENDING}
    [] OTHER -> {t.loaded[u] : u \in Users}

\* The hooks of the rows written read the report, give up on a deleted one, and
\* read the approvers' statuses; the last one to write, that of any row, stands
\* for all.
RunHook(r) ==
  /\ tx[r].pc = "hook"
  /\ \E own \in InstanceStatuses(tx[r]) :
       LET calc == CalculateReportStatus(own, SeenApprovers(r))
           approving == calc = APPROVED /\ SeenReport(r).calculatedStatus # APPROVED
       IN tx' = [tx EXCEPT ![r] =
            IF SeenReport(r).submissionStatus = DELETED THEN AfterHook(@, Asking(r))
            ELSE [@ EXCEPT !.calc = calc,
                           !.pc   = IF approving THEN "notes" ELSE "find",
                           !.todo = IF approving THEN Users ELSE {}]]
  /\ UNCHANGED <<report, approvers, rows, lock, width>>

\* On approval the notes of all approvers are cleared: every row gets locked.
ClearApproverNote(r, u) ==
  /\ tx[r].pc = "notes"
  /\ u \in tx[r].todo
  /\ LockApprover(r, u)
  /\ tx' = [tx EXCEPT ![r].todo = @ \ {u},
                      ![r].pc = IF tx[r].todo = {u} THEN "find" ELSE @]
  /\ UNCHANGED <<report, approvers, rows, width>>

\* ActivityReport.update with individual hooks first loads the report, if it
\* is in the default scope ...
FindReport(r) ==
  /\ tx[r].pc = "find"
  /\ tx' = [tx EXCEPT ![r] = IF SeenReport(r).submissionStatus = DELETED
                             THEN AfterHook(@, Asking(r))
                             ELSE [@ EXCEPT !.seen = SeenReport(r), !.pc = "write"]]
  /\ UNCHANGED <<report, approvers, rows, lock, width>>

\* ... and then writes what the hooks changed in the instance loaded, still
\* within the scope.
WriteCalculatedStatus(r) ==
  /\ tx[r].pc = "write"
  /\ LockReport(r)
  /\ LET seen == tx[r].seen
         calc == tx[r].calc
         new  == ReportBeforeUpdate(seen,
                   [seen EXCEPT !.calculatedStatus = calc, !.approvedAt = (calc = APPROVED),
                                !.approvedAtTimezone = @ /\ calc = APPROVED])
     IN rows' = IF rows.report.submissionStatus = DELETED THEN rows
                ELSE [rows EXCEPT !.report = ChangedOnly(@, seen, new)]
  /\ tx' = [tx EXCEPT ![r] = AfterHook(@, Asking(r))]
  /\ UNCHANGED <<report, approvers, width>>

\* The approver rows a request has locked.
Held(r) == {u \in Users : lock.approvers[u] = r}

\* Mutant: the transaction is left open.
ReleaseReport(r) ==
  /\ lock' = [lock EXCEPT !.report = IF @ = r THEN Free ELSE @]
  /\ tx' = [tx EXCEPT ![r] = Idle]

\* The end of a transaction releases its rows.
Release(r) ==
  /\ lock' = [report |-> IF lock.report = r THEN Free ELSE lock.report,
              approvers |-> [u \in Users |-> IF u \in Held(r) THEN Free ELSE lock.approvers[u]]]
  /\ tx' = [tx EXCEPT ![r] = Idle]

CommitRequest(r) ==
  /\ tx[r].pc = "commit"
  /\ report' = SeenReport(r)
  /\ approvers' = SeenApprovers(r)
  /\ Release(r)
  /\ UNCHANGED <<rows, width>>

\* Mutant: handleErrors answers the request although it runs in the wrapper, so
\* the transaction commits what was written before the error.
FailAnswered(r) ==
  /\ tx[r].pc # "idle"
  /\ report' = SeenReport(r)
  /\ approvers' = SeenApprovers(r)
  /\ Release(r)
  /\ UNCHANGED <<rows, width>>

\* The wrapper rolls back: the versions of the rows r wrote are gone.
Rollback(r) ==
  /\ rows' = [report |-> IF lock.report = r THEN report ELSE rows.report,
              approvers |-> [u \in Users |-> IF u \in Held(r) THEN approvers[u]
                                                              ELSE rows.approvers[u]]]
  /\ Release(r)
  /\ UNCHANGED <<report, approvers, width>>

\* Something the handler awaits throws; handleErrors throws it again inside the
\* wrapper.
Fail(r) == tx[r].pc # "idle" /\ Rollback(r)

\* The rows a request asks for that another one has.
WaitsFor(r) ==
  IF tx[r].pc \in {"report", "write"} THEN {lock.report} \ {Free, r}
  ELSE IF tx[r].pc \in {"rows", "notes"}
       THEN {lock.approvers[u] : u \in tx[r].todo} \ {Free, r}
       ELSE {}

\* A request that could still lock another row of its list is not waiting yet.
Blocked(r) ==
  /\ WaitsFor(r) # {}
  /\ tx[r].pc \in {"rows", "notes"}
       => \A u \in tx[r].todo : ~MayLock(r, lock.approvers[u])

\* The database aborts a request in a cycle of waiting ones.
AbortDeadlocked(r) ==
  /\ Blocked(r)
  /\ \E s \in WaitsFor(r) : Blocked(s) /\ r \in WaitsFor(s)
  /\ Rollback(r)

Step(r) ==
  \/ UpdateReportRow(r)
  \/ \E u \in Users : FindApprover(r, u)
  \/ \E u \in Users : UpdateApproverRow(r, u)
  \/ RunHook(r)
  \/ \E u \in Users : ClearApproverNote(r, u)
  \/ FindReport(r)
  \/ WriteCalculatedStatus(r)
  \/ CommitRequest(r)
  \/ AbortDeadlocked(r)

Next == \E r \in Requests : (\E op \in Ops : Begin(r, op)) \/ Step(r) \/ Fail(r)

\* The server and the database go on with a request they have begun.  The
\* fairness is strong because a row that is held and released again and again
\* goes to its waiters in the order they came (the database's lock queue).
Fairness == \A r \in Requests : SF_vars(Step(r))

Spec == Init /\ [][Next]_vars /\ Fairness

-----------------------------------------------------------------------------
Quiet == \A r \in Requests : tx[r].pc = "idle"

\* The variables keep their types; an unlocked row has no version of its own.
TypeOK ==
  /\ report \in Reports
  /\ approvers \in [Users -> Rows]
  /\ rows.report \in Reports /\ rows.approvers \in [Users -> Rows]
  /\ lock.report \in Requests \union {Free}
  /\ lock.approvers \in [Users -> Requests \union {Free}]
  /\ \A r \in Requests :
       /\ tx[r].op \in Ops \union {NoOp}
       /\ tx[r].pc \in {"idle", "report", "load", "rows", "hook", "notes", "find", "write",
                        "commit"}
       /\ tx[r].seen \in Reports
       /\ tx[r].loaded \in [Users -> ApproverStatuses]
       /\ tx[r].todo \subseteq Users
       /\ tx[r].calc \in CalculatedStatuses
  /\ width \in 1..MaxActive
  /\ lock.report = Free => rows.report = report
  /\ \A u \in Users : lock.approvers[u] = Free => rows.approvers[u] = approvers[u]

\* When no request is open, the status of a submitted report is the outcome of
\* its approvers' verdicts: calculatedStatus is "approved" if all approvers
\* approve (the tests of services/activityReportApprovers.js).
StatusDerivedWhenQuiet ==
  Quiet /\ report.submissionStatus = SUBMITTED
    => report.calculatedStatus = CalculateReportStatusFromApprovals(approvers)

\* As long as requests come one at a time it is: whichever statement of a request
\* throws, the rows are never committed without the status they give.
StatusDerivedOneAtATime == width = 1 => StatusDerivedWhenQuiet

\* No verdict is lost between requests.  Once committed it changes only when a
\* request that ran to its end commits: a review by that approver, an unlock, or a
\* submission that finds it asking for changes.  And a review that commits leaves
\* its verdict on the row, whatever happened to the row after upsertApprover found
\* it; only one that repeats the verdict found there may write nothing.
VerdictsNotLost ==
  [][/\ \A u \in Users : approvers'[u].status # approvers[u].status =>
          \E r \in Requests :
            /\ tx[r].pc = "commit"
            /\ \/ tx[r].op.kind = "review" /\ tx[r].op.user = u
                    /\ approvers'[u].status = tx[r].op.verdict
               \/ tx[r].op.kind = "unlock"
               \/ tx[r].op.kind = "submit" /\ approvers[u].status = NEEDS_ACTION
     /\ \A r \in Requests : CommitRequest(r) /\ tx[r].op.kind = "review" =>
          LET u == tx[r].op.user
          IN approvers'[u].status = tx[r].op.verdict \/ tx[r].loaded[u] = tx[r].op.verdict]_vars

\* Every request that was begun ends: requests that wait for each other's rows
\* are told apart by the database's deadlock detection.
RequestsEnd == \A r \in Requests : tx[r].pc # "idle" ~> tx[r].pc = "idle"
=============================================================================
