# TTADP: models and proofs

The TTA Smart Hub (TTADP) lets specialists of the Office of Head Start write reports
on the training they give, have them approved, and follow goals; behind it, workers
import monitoring data and scan uploaded files. This directory holds TLA+ models of
the parts in which the order of events decides whether the data stays right, the TLC
configurations that check them on small instances, and TLAPS proofs of the properties
that matter most. Server code is in `src/` of the repository (Express handlers,
Sequelize models and hooks on PostgreSQL, Bull queues on Redis); all paths below are
relative to it.

Contents: [Inventory](#inventory) - [Modules](#modules) - [How the code is
read](#how-the-code-is-read) - [Runs](#runs) - [Fairness](#fairness) -
[Proofs](#proofs) - [What the code does otherwise](#what-the-code-does-otherwise)
- [Not modelled](#not-modelled) - [Plan](#plan)

## Inventory

| Component | State | Operations | Talks to | What is hard | What makes it right |
|---|---|---|---|---|---|
| Activity report workflow (`routes/activityReports`, `policies/activityReport.js`, `services/activityReportApprovers.js`, `models/hooks/activityReportApprover.js`) | submission and calculated status, dates, notes, approver rows, collaborators | create, save, submit, review, reset, unlock, delete | model hooks, save service, notifications | the status is never computed in one place: it is what the last hook left | the status shown is the outcome of the approvers' verdicts; dates and notes go with it |
| Activity report hooks and save service (`models/hooks/activityReport.js`, `services/activityReports.js`) | the report row, goals and objectives of the report | before/after create and update, `createOrUpdate` | goals, objectives, resources | hooks decide on old and new values of one instance | validation at submission and approval; goals follow the approval |
| Request transactions (`routes/transactionWrapper.js`, `lib/apiErrorHandler.js`) | the open transactions and their row locks | begin, commit, roll back | all handlers | READ COMMITTED, no row is read with a lock | no update is lost, a failed request leaves nothing |
| Collaboration report workflow (`routes/collaborationReports`, `policies/collabReport.js`, `services/collabReport*.ts`, `models/hooks/collabReport*`) | as the activity report, with specialists | create, save, submit, review, unlock, delete | hooks, save service | a younger copy of the same workflow with other rules for drafts and resubmission | as above |
| Lock manager (`lib/lockManager.ts`) | one key in Redis, a renewal timer and connection per process | acquire, compare, renew, release, close | import processing | lease against timer, crash, late renewal, unconditional delete | one holder at a time; no key stays for ever |
| Import system (`lib/importSystem`, `lib/maintenance/import.ts`) | `ImportFiles` rows with status, attempts, hash; files in S3 | download, process, follow-up jobs | SFTP, S3, lock manager, maintenance queue | jobs of two kinds at once, each one long transaction, with wake-ups sent before commit | every file is collected and processed, in order, with bounded attempts |
| Maintenance queue (`lib/maintenance/common.js`, `workers/transactionWrapper.ts`) | jobs in Redis, `MaintenanceLogs` | enqueue, run in a transaction, log | all maintenance jobs | a job's enqueues are visible before it commits | a failed job leaves nothing and is tried again |
| Files: upload, scan and storage queues (`routes/files`, `workers/files.js`, `workers/s3.js`, `services/scanQueue.js`, `services/s3Queue.js`, `services/files.js`, the file hooks) | the `Files` row with its status, the object in S3, jobs in Redis | upload, scan with retries, delete by four paths, delete the object | S3, scanner, report hooks | the scan is queued before the row is committed; a failure is written and rolled back; the object is deleted before or after the row | no half-finished status is shown; a verdict is final; every scan ends |
| Goals and objectives (`goalServices`, `services/standardGoals.ts`, `services/goals/*`, `services/objectives.ts`, `models/hooks/goal*.js`, `activityReportGoal.js`, `activityReportObjective.js`, `objective.js`) | goals with status, their objectives, links of reports to both, cached flags | save with a report, follow its submission, approval, unlock and deletion; create, edit, close, suspend, reopen, delete from the recipient's page | activity reports | a closed goal ends a cycle and the next use of its template starts another; four clean-ups delete what "nobody uses"; flags are cached by hooks of four models | a report stays on one cycle; nothing in use is deleted; closed cycles get no new work; the flags are true |
| Training reports (`services/event.ts`, `services/sessionReports.ts`, `models/hooks/eventReportPilot.js`, `sessionReportPilot.js`) | event and session status in JSON | create, edit, submit, review, complete | notifications | the server stores what the forms send | a complete event has complete sessions |
| In-app notifications (`services/notifications`) | notification rows | create, archive | workflows | created and archived by separate requests | no open notification for a settled matter |
| Mailer, semaphore, programmatic transactions, groups, communication logs, dashboards, frontend, migrations | small or none | - | - | see [Not modelled](#not-modelled) | - |

`PROJECT.json` lists every component with its status, and under `hazards` the
places in this code where something can go wrong that a test would hardly reach,
with the properties that would notice.

## Modules

| Module | Models | Variables | Actions |
|---|---|---|---|
| `ReportHooks` | the Sequelize hooks of a report and its approvers, as operators on a "db" (what one transaction sees) | - | - |
| `ActivityReport` | one activity report, one request after the other | `report`, `approvers`, `collaborators` | one per handler: `CreateReport`, `SaveReport`, `SubmitReport`, `ReviewReport`, `ResetToDraft`, `SoftDeleteReport`, `UnlockReport` |
| `CollabReport` | one collaboration report, with its own hooks and services, and `ReportHooks`' outcome rule | `report`, `approvers`, `specialists` | one per handler |
| `ApprovalContract` | what both workflows promise: ballots, a list, an outcome; no hooks, rows or phases | `stage`, `listed`, `ballot`, `status` | `Create`, `EditApprovers`, `Submit`, `Cast`, `Withdraw`, `Unlock`, `Delete` |
| `ReportTransactions` | requests on one submitted report, statement by statement, with row locks and the instances they hold in memory | committed `report` and `approvers`, newest `rows`, `lock`, `tx`, `width` | `Begin`, then one per statement, `CommitRequest`, `Fail`, `AbortDeadlocked` |
| `LockManager` | the lease of any number of worker processes | `key`, `pc`, `timer`, `hold`, `dropping`, `open`, `threw`, and bounds | one per Redis command, one per error path of a command that throws, plus callback, timer, crash, restart, `Tick` |
| `ImportFiles` | the monitoring import's jobs on the files of one import | `server`, committed `rows`, `draft`, `lock`, `mutex`, `queue`, `run` | one per locking query or visible effect of a job, plus crash, lease expiry, server and schedule |
| `FileScan` | uploaded files from the first byte to the deleted object, with the queues and their workers | `row`, `version`, `holder`, `file`, `object`, `upload`, `job`, `scan`, `delete`, `s3jobs`, `faults` | one per statement or queue operation of an upload, a scan, a deletion and a storage job; retries, stalled jobs, failures |
| `GoalLifecycle` | the cycles of one goal template of one grant, with the reports that use it, one request after the other | `goals`, `objectives`, `reports`, `args`, `aros` (the link tables), `selectedBefore` | one per request: the report's save, removal of its recipient, submission, review, unlock, reset, deletion; the recipient's page; the administrators' new goals, new reports and closing; the goals' API |
| `*_proofs` | theorems about the module of that name (`ActivityReport_proofs` also about the contract) | - | - |
| `MC*` | instances for TLC | - | - |

`ReportHooks` is shared by three modules: a correction of a hook's model reaches
all of them. `ActivityReport` and `CollabReport` each instantiate
`ApprovalContract` with a refinement mapping (`ImplementsContract`); where the
two workflows differ, the contract has a constant (`Submittable`,
`KeepsRequests`, `DefersOutcome`), so that the differences are written down in
one place. Definitions called "Mutant: ..." are plausible mistakes in the
definition that follows them; each breaks the property `PROJECT.json` pairs it
with, which shows that the property depends on that piece of code.

How they fit together: `ActivityReport` says when a report's calculated status
changes; `GoalLifecycle` takes that change as given (its `reports`) and says what
the report's `afterUpdate` hook does to goals. `ReportTransactions` repeats a part
of `ActivityReport` with the statements of two requests interleaved.
`ImportFiles` uses the mutex as `LockManager` provides it to punctual workers whose
commands do not throw: a lease ends with its owner's job or after its owner's death.
`FileScan` starts a deletion where a report's hook or a handler starts one.

## How the code is read

**Reports, one request at a time** (`ActivityReport`, `CollabReport`). A handler
runs in one transaction, and an error rolls it back: `handleErrors` throws again
inside the wrapper (`lib/apiErrorHandler.js:130`). A db carries `ok`, which turns
`FALSE` where a hook throws; `Commit` requires it. Dates and texts are reduced to
whether they are set, validity against the report schema to one Boolean. Bodies
are what the forms send: only changed fields and never a status column.
`services/activityReports.js` filters the approvers of a save by permission; a
submission's approvers are not filtered. Permissions are constant. The hooks
that run for several rows of one update compute the same report, so one stands
for all. `syncApprovers` keeps its three phases (remove, touch or create,
restore), each with its hooks: a report's status can go through all its values
in one save.

Two facts of Sequelize shape the hooks' model. `findByPk(id, { where })` drops
the `where`, so `updateReportStatus` of the activity report runs on drafts as
well (`models/hooks/activityReportApprover.js:104-117`; the collaboration report's
uses `findOne` and does not). And `Model.update` with individual hooks loads
the rows, runs the hooks on the instances and writes only the columns that
differ from what was loaded, while `instance.update` with `fields` writes every
column it is given.

**Requests at the same time** (`ReportTransactions`). A statement reads what is
committed plus its own transaction's writes; a write locks its row until the end; a
waiting writer continues with the newest version. Finding a row and saving it are two
statements (`upsertApprover`, `services/activityReportApprovers.js:11` and `:34`),
between which others may write and commit; what was found is kept in `tx` (`seen`,
`loaded`), and an approver that is saved writes the columns in which it differs from
what was found, and no other (`saveReport` names all of the report's). `syncApprovers`
starts all its finds before its first save. Any statement may throw at any time
(`Fail`): the error leaves the handler through `handleErrors`, which throws it again,
and the wrapper rolls back. The approvers are fixed, rows are only updated. A
transaction that waits in a cycle is aborted; cycles of two are enough for two
requests. The author is no approver. `width` is how many requests a behaviour lets in
at once, so that one specification has the serial behaviours and the concurrent ones.

**Lease** (`LockManager`). Time passes in halves of the time to live, as the
renewal timer does. A command and the handling of its reply are one step, and the
commands of one worker run in the order it sends them, so that two of them are never
under way together. Any command may throw, before or after Redis has run it, with
the catch that the code has for it: a renewal that throws stops the renewals,
deletes the key and closes the manager (`lockManager.ts:173-176`), before the
callback (`StartRenewalThrows`, `StopFailedStart`) or while it runs (`RenewThrows`,
`DropLock`), and the callback goes on without the lock in either case; an error that
nobody catches ends the process (`processHandler.js`). `threw` remembers a renewal
of the call that threw.
`late` counts the ticks at which a command that was due had not run; properties
that only hold with punctual renewals say `late = 0`, because no lease can do
better.

**Import** (`ImportFiles`). A job is one READ COMMITTED transaction.
`lock: true` is `SELECT ... FOR UPDATE`: the rows the snapshot showed are waited
for, and each is looked at again when its lock is got. What a job puts into
Redis is visible before its commit, and the mutex is released before it.
Uploading and processing succeed or fail freely. An SFTP error is caught and the
job commits; an SQL error fails the job, because the maintenance log cannot be
written in an aborted transaction either, and Bull may try it again. Waiting
jobs of one kind count as one. Files appear in the order of their names.
Recording and collecting are one step, since all rows are locked in between.
Bull's time-outs for follow-up jobs (6000 and 4500, commented as minutes) are
milliseconds; a second run beside the first is one more download or processing
job, which the environment may queue at any time. The query that marks hung jobs
(`record.ts:163-180`) finds nothing, as `PROCESSING` is never committed.

**Files** (`FileScan`). An upload, a scan and a deletion are transactions whose
statements interleave; a write holds the row until commit or rollback. A `kind`
says what the file was uploaded for, because that decides how it is deleted: the
links of reports and logs queue the storage deletion in a hook before the commit
(logs also delete the object directly, after the row), attachments delete the
object before the row, and objectives and sessions delete rows without individual
hooks, so that the object stays. A scan job is tried `Attempts` times (5 in the
code) and again when its worker stalls (`MaxStalled`, Bull's default 1); S3, Redis
and the scanner fail at most `MaxFaults` times. `QUEUEING_FAILED` does not occur,
because `addToScanQueue` is not awaited, and `updateStatus` swallows its errors.
Files share nothing, hence one file per instance; theorems are for any number.

**Goals** (`GoalLifecycle`). One grant and one template: goals of other templates
share no row with them. Requests run one after the other, each in its transaction;
`ok` is as in the reports' modules. Goals are numbered as they are created
(`MaxCycles` is the model's bound), an objective is a title in a goal, because the
services find objectives by their titles. `args` and `aros` are `ActivityReportGoals`
and `ActivityReportObjectives`; of a link the status is kept, as approval writes it to
the objective. `selectedBefore` has the links to goals that are older than a recorded
closing of the goal (`GoalStatusChange`): by them a report's template is resolved to a
closed goal (`findClosedGoalIdsSelectedBeforeClosure`). The date at which an objective
was first started is not kept: when it matters (approval of a suspended objective),
both cases are tried (`begun`). A page can name a status that is no longer the goal's
(`ShownStatuses`: the status of a new goal, or the current one). `EndDate` tells which
approved report is the latest; all its values differ. Saving the goals of a report
again (`checkForNewGoalCycleOnApproval`) counts several goals of a template as one
with the same grant named several times, as `reduceGoals` does; when no goal is open,
the second creation fails on the index and with it the request.
`CreateReportFromAdmin` takes a draft without links for the new report that the
administrators' page makes. `CreateOrUpdateGoal` is `POST /api/goals`: nothing in the
frontend calls it, but the route is there. It saves the status it is given without a
transition check, a validation or a `GoalStatusChange`. The status of a report moves
as `ActivityReport` says it can (`StatusMoves`): a report whose approvals all stand is
approved on submission. Within one request the status may pass through a value it does
not keep: replacing the last pending approver approves the report until the new
approver's hook runs. What that does to goals equals an approval, an unlock and a
submission one after the other, which the model has.

## Runs

| Run | Instance | Shows |
|---|---|---|
| `approval` | 3 approvers: the author, one who also deletes and unlocks, one more; no collaborators; 28569 states | status, dates, notes, verdicts consistent; the contract implemented |
| `collab` | author and a colleague who may approve, a specialist who can be listed but not approve; 3889 states | the same for the collaboration report |
| `transactions_concurrent` | 2 approvers, 2 requests of all 7 kinds, each may throw at any statement, symmetric; 1656070 states | no verdict is overwritten or lost to an old instance; one at a time, failing ones included, requests leave the status the verdicts give |
| `transactions_progress` | 2 approvers, 2 requests that review or submit; 150336 states | every request ends; no deadlock |
| `write_skew` | 2 requests that review | violation: see below |
| `lock` | 2 workers, holding or not, 2 late ticks, 2 commands that throw, 2 crashes; 357787 states | exclusion but for a renewal that threw, safe deletes, no prolonged lost lease, every key freed; no deadlock |
| `import_concurrent` | 2 files, 2 downloads, 1 processing job, 1 failure, file 2 may vanish; 1283864 states | no file overtaken, given up for good, attempts never lost; no deadlock |
| `import_progress` | 2 files, 1 download, 1 processing job, 1 failure; 20354 states | every file collected or given up, every collected file processed; no deadlock |
| `files` | 1 file, 3 tries, 1 stall, 4 faults; 15418 states | no unfinished or failed scan is committed, verdicts are final, every queued scan ends |
| `file_unscanned` | 1 file, 2 tries, no fault; 442 states | violation: see below |
| `goal_cycles` | 2 reports, 1 title, given on reports only, 2 cycles; users set `Complete` and `Closed`; 186880 states | a report with objectives is on one cycle, nothing in use is deleted, no report is submitted or approved on a closed goal it had not selected before |
| `goal_flags` | 2 reports, 1 title, given on reports and pages, 1 cycle; users set `Not Started` and `Suspended`; 149646 states | `onAR` and `onApprovedAR` are true, no objective of a report is left behind |

*Bounds.* The approval rules distinguish "all approve", "some ask for changes" and
"else", and what happens to a removed approver's row: three users give a removed, a
dissenting and an agreeing approver at once. A collaborator has the author's rights
except deletion and the reset of an approving author, so the three-user run does
without. Lost updates and deadlocks need two transactions and two rows. The lease
needs an owner, a contender and a process that is gone; two late ticks let a lease
lapse before its owner acts; two errors are a renewal that throws and one more, of its
DEL or of another worker. Overtaking needs two files; two downloads give stale
listings; `MaxAttempts` is 1 instead of 5 to reach "given up" in two attempts, and 2
where a file must fail without being given up. A file's three tries are a first one, a
retry and one more after a stall; four faults are enough to exhaust them and to fail
the storage job too. For goals, a second report is what makes "somebody else uses it"
differ from "nobody does", and a second cycle is where links to the old one could be
mixed with links to the new one; more titles only add independent objectives. The two
goal runs split the space: one has cycles with the statuses that end them, the other
one cycle with objectives of either origin (`PageTitles`), suspension and reopening.
The given statuses are what users choose from a list; the others come as well, from
approvals, suspension, edits, reopening and the administrators' closing. With two
cycles, a report on several goals of which none is open has no number left for a new
goal, so that its submission fails by the bound as well as by the code; a run of the
first instance with three cycles (807959 states with the reports symmetric), one of it
with page titles (1972564 states) and one of the second with all statuses but `In
Progress` for objectives and `Suspended` and `Closed` for goals (216843 states) found
no violation either, and the theorems have no bound.

The approval and collab runs, the transaction runs that can delete the report, the
file runs and the goal runs do not check for deadlock: a deleted report or
file, or a goal whose reports are gone, is an end. The others do.

*What the properties say.* `StatusDerivedFromApprovers`, `ApprovalStamped`,
`ApprovedIsValid` and `SubmittedDateKept` relate
the report row to its approvers after any history; `SubmissionClearsRequests`
and `ReviewsOutliveRemoval` bind single steps. In `CollabReport` the status can
lag after a submission without approvers, which `OutcomeShown` allows in exactly
that step, while `VerdictBacked` holds always. `VerdictsNotLost` says which
request may change a committed verdict, and that a review that commits leaves its
verdict on the row whatever happened to the row after `upsertApprover` found it; the
one exception, a review that repeats the verdict it found, is real (see below).
`StatusDerivedOneAtATime` is `StatusDerivedWhenQuiet`, which the `write_skew` run
refutes for two requests, for behaviours in which requests come one at a time, with
an error at any statement: rows written before the error are never committed without
the status they give. `MutualExclusion` and `OnlyOwnLockDeleted` are claimed
until the first late renewal, `LostLeaseNotProlonged` and `LockFreed` always.
`MutualExclusion` does not say that there is one worker inside, because the code
does not keep that: of two, one has lost its lock to a renewal that threw. It says
that no release, lapse, held lock, crash or other error lets a second one in.
`NoFileOvertaken` speaks of first collections (a hash): a stale download may
collect an old file again. `OnlySettledStatusesShown` is about committed rows:
inside a scan's transaction the row does say `SCANNING`. `SettledForGood` also
holds when a job that was done runs again. `OneCyclePerReport` joins the two link
tables, which different services write; only a draft without objectives, as an
administrator made it, may be on several cycles. `UsedRowsKept` binds all clean-ups at
once. `NoNewWorkOnClosedGoals` has two parts. A report in work comes to be on a closed
goal only by being unlocked, by the administrators' new report or by a goal that the
goals' API closes under it. And no report at all becomes submitted or approved on a
closed goal, unless it was on that goal before a recorded change closed it.
`ApprovedFlagTrue` is an equivalence for objectives and an implication for goals,
whose flag may stay set without an approved report (see below).

## Fairness

- `ReportTransactions`: strong fairness of every open request. The server and
  the database go on with a request; a row released again and again goes to its
  waiters in queue order (PostgreSQL), so a waiter gets it although it is often
  taken in between. Clients need not send anything, and nothing need fail.
- `LockManager`: weak fairness of time, of a worker's calls and of its timers.
  Starting, crashing, restarting and errors are not fair, and a callback ends.
- `ImportFiles`: weak fairness of the schedule (cron), of lease expiry and of
  each job; strong fairness of statements that wait for rows (lock queue), and
  of the abort of a deadlocked download: PostgreSQL ends whichever transaction's
  detector fires first, which is not the processing job every time. Uploads and
  processing are not assumed to succeed, SFTP is not assumed to fail.
- `FileScan`: weak fairness of an upload's steps (the request goes on; users need
  not upload) and of storage jobs; strong fairness of scans and deletions, which
  wait for the row's lock in PostgreSQL's queue. Faults need not happen, and are
  bounded, as Bull's tries are.
- The report and goal modules, one request at a time, claim no liveness: nothing
  obliges users to act.

## Proofs

Every theorem is about the specification that TLC checks, with no bound on users,
requests, workers, files, reports, titles or cycles, and no assumption other than
the `ASSUME`s of the modules, which TLC evaluates for every instance
(`StatusDerivedOneAtATime`, about requests one at a time, says so in its statement).

| Module | Theorems (`Spec => []...` or `Spec => ...` of) |
|---|---|
| `ReportHooks_proofs` | lemmas on the hooks: what `updateReportStatus`, `beforeUpdate`, `afterDestroy` do to any db |
| `ActivityReport_proofs` | `TypeOK`, `StatusDerivedFromApprovers`, `ApprovalStamped`, `ApprovedIsValid`, `SubmittedDateKept`, `ReviewsOutliveRemoval`, `SubmissionClearsRequests`, `ImplementsContract`; `StatusMoves`: the status changes only along `Moves` |
| `CollabReport_proofs` | `TypeOK`, `VerdictBacked`, `OutcomeShown`, `ResubmissionSettlesRequests`, `ReviewsOutliveRemoval`, `ImplementsContract` |
| `ReportTransactions_proofs` | `TypeOK`, `VerdictsNotLost`, `StatusDerivedOneAtATime` |
| `LockManager_proofs` | `TypeOK`, `MutualExclusion`, `OnlyOwnLockDeleted`, `LostLeaseNotProlonged` |
| `ImportFiles_proofs` | `TypeOK`, `NoFileOvertaken`, `GivenUpForGood`, `AttemptsNotLost` |
| `FileScan_proofs` | `TypeOK`, `OnlySettledStatusesShown`, `SettledForGood` |
| `GoalLifecycle_proofs` | `TypeOK`, `OneCyclePerReport`, `UsedRowsKept`, `OnARFlagTrue`, `NoNewWorkOnClosedGoals`, `ApprovedFlagTrue`, `NoAbandonedObjectives` |

*Activity report.* The first invariant is `TypeOK` with
`StatusDerivedFromApprovers`. The work is in lemmas on the hooks, which say of a db
what the invariant says of a state (`Derived`): `updateReportStatus` makes any db
derived whose report is submitted, provided the status passed as its own is not a
request for changes that no live approver made; `afterDestroy` makes it derived as
well; `syncApprovers` starts with a derived db and each phase leaves one. The case
that needs care is a removed approver who comes back: the row is saved while still
deleted, with a hook that may say "needs action" too early; the hook of its
restoration settles it. Dates and validity are a second layer (`DatesInv`), because
they are not inductive without the derived status: a report is stamped by a hook
that sees it become approved. The refinement needs one more fact, that a deleted
approver's row is clean in what the contract does not know (`ContractInv`); each
handler then is one step of `ApprovalContract` or a stutter. `SubmissionClearsRequests`
is read off the contract: of its steps only `Submit` leads to a submitted report.
`StatusMoves` is read off it too: what is shown follows stage, list and ballots, and
each step of the contract moves it along `Moves`. It joins two modules:
`GoalLifecycle`, which takes a report's status as given, has a request for each move
and for no other.

*Collaboration report.* `StatusDerivedFromApprovers` fails here (a submission
without approvers defers the outcome), so the invariant is weaker, that a shown
verdict is one the approvers give and that a removed row is clean; each handler is
proved to leave the outcome (`Sound`, `Derived`) except the one that may defer it.

*Transactions.* The invariant says what locks mean: a row nobody has locked has no
version of its own, an idle request holds nothing, each open request's versions come
from its own statements (`VersionsExplained`), and a review that has saved holds the
row, with its verdict on it or with nothing to write (`ReviewsSaved`). An old instance
cannot do harm because a save writes what the request has changed and no more: a
synchronisation saves a date, and the reset of requests for changes names the status
in its where clause, which is evaluated again on the locked row. `RightOneAtATime` is
the other half of the `write_skew` run. `SerialInv` adds to the invariant that one
request is open when `width` is 1, that what it reads is the newest version of every
row and it waits for nobody (`Alone`), and what it knows at each statement
(`OnTheWay`): the instances it loaded are the rows, the status its hook computed is
the outcome of the rows. A statement that throws rolls back to the committed rows,
which are right. So no statement of a request is wrong by itself, and only an
interleaving leaves a report submitted that all have approved.

*Lease.* `MutualExclusion` is not inductive: that two workers are not inside must
follow from the key, and that the key is still there from the timers. The
strengthening `Punctual` says that while nothing was late, a worker with a renewal
interval running on an open connection owns the key and its remaining time is the
timer's plus one half; that a worker in its callback either has that interval, or has
still to give up the lock after a renewal that threw, and owns it, or has closed after
such a renewal. Two workers inside with open managers would both own the key.
`OnlyOwnLockDeleted` follows from the same invariant, as a worker that deletes after
an error owned the key until then. `LostLeaseNotProlonged` needs the types only: each
command that writes the key compares its owner, sets it when it is free, or deletes
it.

*Import.* `NoFileOvertaken` speaks of committed rows, while jobs work on listings
made earlier. The invariant says that a row, once settled (collected or given up),
stays so (`Grows`), that every draft is at least as far as the committed row, and
that what a job saw as its list is complete with respect to the rows it goes by
(`ListsComplete`).

*Files.* The invariant ties a row to the requests that hold its lock: an unfinished
upload means there is no committed row, and a scan that has judged holds the lock and
its version is the file's verdict; and it counts a job's tries.

*Goals.* `UsedRowsKept` is not inductive alone. A clean-up decides by links and by
cached flags; that its decision is safe needs that the flags count the links, that links
of deleted reports are gone from objectives (`Sound`), and that no report has an
objective of a goal it does not have, and only a draft without objectives has several
goals (`OneCycle`), as the deletion of a goal takes its
objectives along without asking for their reports. `Proper` is the two together.
`ApprovedFlagTrue` and `NoAbandonedObjectives` need more (`Marks`): an objective is
marked exactly when an approved report links it, and then its goal is marked
(`Marked`); what a report made, a report links (`Used`); and no two cycles are open
(`OneOpen`). The last is what makes a save safe: saving a report's goals again must
choose the cycle the report is on, or objectives would be left on the other one.
`NoNewWorkOnClosedGoals` needs `Recorded`: an approved report with objectives that is
on a closed goal selected it before a recorded change closed it, so that its unlocking
finds that goal again. `GoalInv` is `Proper`, `Marks` and `Recorded`.
Services are followed as relations on a db that compose: `Keeps` (neither links nor
existence of rows change), `OnlyLinksOf` (the links of one report only), `Saved`,
`Advances` (no goal is closed). The deletion of a report passes through a db in which
its own links point to nothing; there only the half of the invariant that is about
objectives is carried (`CleanedUp`).

*Only model-checked.* Liveness under fairness and `ENABLED` are outside the
prover's reach: `RequestsEnd`, `LockFreed`, `EveryFileCollected`,
`CollectedIsProcessed`, `ScansEnd`. Every other property that a passing run checks is
a theorem. The two violations are traces; there is nothing to prove about them.

## What the code does otherwise

Runs that end in a violation, each against a sentence of the repository:

- `write_skew`. "calculatedStatus is approved if all approvers approve" (test);
  two approvals at the same time each miss the other, and the report stays
  submitted. The collaboration report's hook reads in the same way.
- `file_unscanned`. All user-uploaded files pass the scanner (ADR 12); the scan
  job is queued before the upload commits, a worker that is faster finds no file,
  the job counts as done, and the file is never scanned.

Seen while modelling, behaviour of the models without a run of its own:

- Activity reports. A report approved by removing its last dissenting approver goes
  through `afterDestroy`, which does not clear the approvers' notes
  (`models/hooks/activityReportApprover.js:186`, against the comment at line 132); the
  collaboration report's hook has the same gap. A review whose hook had loaded the
  report before a reset committed stores its outcome in the draft
  (`activityReportApprover.js:160`, against the comment on `copyStatus`,
  `models/hooks/activityReport.js:38`). `saveReport` writes back every column it read,
  over what others committed meanwhile. A review that repeats the verdict it found
  writes nothing (Sequelize saves changed columns only): if a submission resets that
  request for changes in between, it stays reset, while the review's hook, which goes
  by its own instance, may show the report as one that needs action. A review cast on
  a draft writes the approval date of the draft; verdicts of approval survive an
  author's reset.
- Lease. When the lease lapses before the first renewal, the renewal notices and the
  callback runs all the same (`lib/lockManager.ts:120`, against
  `lockManager.test.js:79`). A renewal that throws gives up the lock and closes the
  manager while the callback goes on (`lib/lockManager.ts:173-176`; tested at
  `lockManager.test.js:132`), so that another worker enters: the lock excludes others
  only while renewals neither come late nor throw. The interval that is set after a
  first renewal that threw then ends the process. `releaseLock` deletes the key
  without comparing.
- Import. A failed second download behind a newer processed file is never listed
  again (`record.ts:34`, against `docs/monitoring-technical-reference.md:20`); a stale
  download may have an older file processed after a newer one;
  `importHasMoreToProcess` does not count a collected file with 5 failed attempts,
  which waits for another file's job, and its attempts may pass the documented
  maximum; a recorded file that vanished after a failed download keeps queueing
  follow-up downloads; an error in one data file is caught and the archive counts
  as processed (`processFilesFromZip.ts:116`).
- Files. `deleteOnlyFile` (`routes/files/handlers.js:78`) always throws, because
  `getFileById` loads no `objectiveFiles` (the tests mock it). Files of sessions and
  objectives leave their object in S3. A rollback after the object was deleted, or
  its deletion queued, leaves a row without object; a rolled back upload leaves an
  object without row. When Redis fails, or the tries are used up, the status stays
  `SCANNING_QUEUED`: the failure is written in the transaction that the same error
  rolls back (`workers/files.js:66`). A failed storage deletion is not tried again.
- Goals and objectives. `updateStatus` of objectives never applies its exceptions for
  objectives on approved reports, because `getObjectiveRegionAndGoalStatusByIds`
  (`services/objectives.ts:26`) does not select `onApprovedAR` (the tests mock it): an
  approved objective in progress can return to `Not Started`. Unlocking a report while
  another approved one shares an objective gives a closed goal's complete objective
  that report's status. A report unlocked after its goal was closed is submitted and
  approved on the closed goal. The administrators' new report is linked to every goal
  the grant has of the name, whatever its status (`goalServices/goals.js:1272-1287`,
  `1376-1387`): a draft is then on several cycles and on closed goals. Its next save,
  or its submission, puts it on one goal; a submission with several linked goals of
  which none is open fails on the unique index. `POST /api/goals` sets a goal's status
  as it is told, `Closed` included, without validation or `GoalStatusChange`
  (`goalServices/goals.js:528-529`), under reports in work too; a report on a goal
  closed in that way is moved to the next cycle when it is saved or submitted, as no
  recorded closing is found. Its only client function
  (`frontend/src/fetchers/goals.js:12`) has no caller. `canDelete` of goals never
  finds an approved report, since its query loads reports without their status
  (`goalServices/goals.js:396-402`); `destroyGoal` looks for reports itself. A goal's
  `onApprovedAR` can stay set without approved report. Removing a recipient destroys
  objectives created on the recipient's page as well (`removeRemovedRecipientsGoals`);
  deleting a report counts deleted reports' links to a goal, so that a goal two
  deleted reports used stays. A page that shows an old status can take a closed goal
  out of `Closed`, since the check is on the status the page names
  (`goalServices/goals.js:974`). Two requests at once (not modelled): closing checks
  before it writes (`validateGoalStatusChange.ts:47`, `goalStatusChange.js:13`),
  `onAR` is recalculated from a count read before, concurrent status changes record
  the same old status, and the error of the unique index on open goals, caught in
  `checkForNewGoalCycleOnApproval`, leaves PostgreSQL's transaction aborted.
- Training reports (not modelled). `destroySession` passes `individualHooks` where
  `destroy` ignores it, so the hook that protects a completed event's sessions does not
  run. In the national centers' flow a collaborator's or contact's save from a page
  loaded earlier takes the owner's submission back (the form drops only its own
  completion flags), and an owner's save does the same to the collaborator's.
  `updateEvent` stores the status the client sends: an old page can reopen a completed
  event or complete one with unfinished sessions; `setAssociatedEventToInProgress`
  writes back the whole JSON it read.
- Notifications (not modelled). Found by a query and then created, without a unique
  key; `deleteNotificationsByEntityAndType` has no caller in the workflows.

## Not modelled

- What the report handlers do besides workflow and goals: recipients other than
  their removal, next steps, resources, mails, notifications; the objective
  support-type check at submission; a change of the report's kind of recipient.
- Of goals: topics, resources, citations, prompts, responses, cached texts and the
  merging of similar goals, none of which any status depends on; the status cached in
  `ActivityReportGoals`; two requests on one goal at once: requests are atomic here,
  so the properties are about every order of them and not about their statements.
  Goals with a name that is not their template's, or with no template, and the legacy
  status `Draft`, which `POST /api/goals` gives when it is told none. New titles for
  objectives. The link between report and objective that an upload of a file creates
  (`routes/files/handlers.js:278`), with the hooks that a save has.
- Of files: links between a file and its owner, and permissions.
- Training reports. The server checks next to nothing: it stores what the forms send,
  statuses included, from pages of any age, so an invariant would be about the forms.
  What was seen is listed above.
- Notifications, mailer and digests: rows and mails that nothing in the workflows
  reads. The in-process semaphore: thirty lines without an await between test and
  change, around the creation of links and resources, which have no status.
- The contents of an import archive and post-processing: a data transformation.
  An archive succeeds or fails as a whole.
- Queues, cron, SFTP and S3 clients, PostgreSQL, Redis: external, modelled by how
  the code uses them.
- Dashboards, widgets, scopes, searches and exports: queries without effect.
  Groups, communication logs, settings: single-row edits. The frontend's own state,
  migrations and seeders, which are most of the repository's lines: no state of a
  running workflow is in them.
- Mutual waits of three or more transactions, and the snapshot comparison of the
  read-only transaction wrapper.

## Plan

Done, in this order: `ReportHooks`, `ActivityReport`, `ApprovalContract`;
`ReportTransactions`; `LockManager`; `CollabReport`; `ImportFiles`; `GoalLifecycle`;
`FileScan`; proofs about all of them.

What would add most now:

1. `GoalLifecycle` statement by statement, as `ReportTransactions` does for reports:
   the close checks and the recalculated flags are the candidates for a lost update.
2. `CollabReport` statement by statement; its hook is `ActivityReport`'s with another
   read.
3. `TrainingReport`, when the server checks what it stores.
