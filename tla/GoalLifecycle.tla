---------------------------- MODULE GoalLifecycle ----------------------------
(***************************************************************************)
(* The goals that one grant has under one standard goal template, their    *)
(* objectives, and the activity reports that use them: the goal services,  *)
(* the recipient's page ("RTR"), and what the hooks of an activity report  *)
(* do to goals when its status changes.  A closed goal is a finished       *)
(* cycle; the next use of the template starts a new goal.                  *)
(*                                                                         *)
(* Requests run one after the other, each in its transaction.  A "db" is   *)
(* what a transaction sees; ok turns FALSE when a service throws, and the  *)
(* request is then rolled back.                                            *)
(***************************************************************************)
EXTENDS Integers

CONSTANTS
  Reports,    \* activity reports whose recipient is the grant
  EndDate,    \* the end date of each report
  Titles,     \* titles of objectives; a goal has at most one of each
  PageTitles, \* bound: those that are given to objectives other than on reports
  GivenObjectiveStatuses, \* bound: the objective statuses that users choose from
  GivenGoalStatuses,      \* bound: the goal statuses that users choose from
  MaxCycles               \* bound: how many goals are ever created

ASSUME EndDateAssumption ==
  /\ EndDate \in [Reports -> Int]
  /\ \A r, s \in Reports : EndDate[r] = EndDate[s] => r = s
  /\ \A S \in SUBSET Reports :   \* as there are finitely many
       S # {} => \E r \in S : \A s \in S : EndDate[s] <= EndDate[r]
ASSUME TitlesAssumption == PageTitles \subseteq Titles
ASSUME MaxCyclesAssumption == MaxCycles \in Nat

\* GOAL_STATUS and OBJECTIVE_STATUS, without the legacy Draft.
NOT_STARTED == "Not Started"
IN_PROGRESS == "In Progress"
SUSPENDED   == "Suspended"
CLOSED      == "Closed"
COMPLETE    == "Complete"
ABSENT      == "absent"    \* no such row yet
GONE        == "deleted"   \* a goal row with deletedAt set

GoalStatuses      == {NOT_STARTED, IN_PROGRESS, SUSPENDED, CLOSED}
ObjectiveStatuses == {NOT_STARTED, IN_PROGRESS, SUSPENDED, COMPLETE}

ASSUME GivenStatusesAssumption ==
  /\ GivenObjectiveStatuses \subseteq ObjectiveStatuses
  /\ GivenGoalStatuses \subseteq GoalStatuses

\* The calculated status of a report, of @ttahub/common.
DRAFT        == "draft"
SUBMITTED    == "submitted"
NEEDS_ACTION == "needs_action"
APPROVED     == "approved"
DELETED      == "deleted"

ReportStatuses == {DRAFT, SUBMITTED, NEEDS_ACTION, APPROVED, DELETED}
Active         == {DRAFT, SUBMITTED, NEEDS_ACTION}

Goals      == 1..MaxCycles
Objectives == Goals \X Titles

NoLink == "no"
Links  == ObjectiveStatuses \union {NoLink}

GoalRows == [status : GoalStatuses \union {ABSENT, GONE},
             via : {"rtr", "activityReport", "admin"},
             onAR : BOOLEAN, onApprovedAR : BOOLEAN]

ObjectiveRows == [status : ObjectiveStatuses \union {ABSENT}, via : {"rtr", "activityReport"},
                  onAR : BOOLEAN, onApprovedAR : BOOLEAN]

NoGoal == [status |-> ABSENT, via |-> "rtr", onAR |-> FALSE, onApprovedAR |-> FALSE]
NoObjective == [status |-> ABSENT, via |-> "rtr", onAR |-> FALSE, onApprovedAR |-> FALSE]

VARIABLES
  goals,       \* the Goals rows, numbered as they are created
  objectives,  \* the Objectives rows
  reports,     \* the calculated status of each report
  args,        \* the ActivityReportGoals rows
  selectedBefore, \* ... and those older than a GoalStatusChange that closed their goal
  aros         \* the status in each ActivityReportObjectives row

vars == <<goals, objectives, reports, args, selectedBefore, aros>>

Init ==
  /\ goals = [g \in Goals |-> NoGoal]
  /\ objectives = [o \in Objectives |-> NoObjective]
  /\ reports = [r \in Reports |-> DRAFT]
  /\ args = {}
  /\ selectedBefore = {}
  /\ aros = [r \in Reports |-> [o \in Objectives |-> NoLink]]

Db == [goals |-> goals, objectives |-> objectives, reports |-> reports,
       args |-> args, selectedBefore |-> selectedBefore, aros |-> aros, ok |-> TRUE]

Commit(db) ==
  /\ db.ok
  /\ goals' = db.goals
  /\ objectives' = db.objectives
  /\ reports' = db.reports
  /\ args' = db.args
  /\ selectedBefore' = db.selectedBefore
  /\ aros' = db.aros

-----------------------------------------------------------------------------
\* Rows a paranoid model finds.
LiveGoals(db)         == {g \in Goals : db.goals[g].status \in GoalStatuses}
GoalsNotClosed(db)    == {g \in LiveGoals(db) : db.goals[g].status # CLOSED}
LiveObjectives(db)    == {o \in Objectives : db.objectives[o].status # ABSENT}
ObjectivesOf(db, g)   == {o \in LiveObjectives(db) : o[1] = g}
ReportGoals(db, r)      == {g \in LiveGoals(db) : <<r, g>> \in db.args}
ReportObjectives(db, r) == {o \in LiveObjectives(db) : db.aros[r][o] # NoLink}

\* Reports of a status in set S that have a link to the goal, or the objective.
GoalReports(db, g, S)      == {r \in Reports : db.reports[r] \in S /\ <<r, g>> \in db.args}
ObjectiveReports(db, o, S) == {r \in Reports : db.reports[r] \in S /\ db.aros[r][o] # NoLink}

NotDeleted == ReportStatuses \ {DELETED}

SetObjectives(db, os, f) ==
  [db EXCEPT !.objectives = [o \in Objectives |-> IF o \in os THEN f[o] ELSE @[o]]]

SetStatus(db, os, status) ==
  SetObjectives(db, os, [o \in os |-> [db.objectives[o] EXCEPT !.status = status]])

DestroyObjectives(db, os) == SetObjectives(db, os, [o \in os |-> NoObjective])

DestroyGoals(db, gs) ==
  [db EXCEPT !.goals = [g \in Goals |-> IF g \in gs THEN [NoGoal EXCEPT !.status = GONE] ELSE @[g]]]

\* recalculateOnAR of ActivityReportGoal: deleted reports count as well.
DestroyARGs(db, r, gs) ==
  LET left == db.args \ ({r} \X gs)
      touched == {g \in gs : <<r, g>> \in db.args}
  IN [db EXCEPT !.args = left,
                !.selectedBefore = @ \ ({r} \X gs),
                !.goals = [g \in Goals |->
                  IF g \in touched THEN [@[g] EXCEPT !.onAR = \E s \in Reports : <<s, g>> \in left]
                                   ELSE @[g]]]

\* Mutant: the flag is cleared whoever else uses the objective.
DestroyAROsClearing(db, r, os) ==
  LET left == [db EXCEPT !.aros[r] = [o \in Objectives |-> IF o \in os THEN NoLink ELSE @[o]]]
  IN SetObjectives(left, os \intersect ReportObjectives(db, r),
       [o \in Objectives |-> [db.objectives[o] EXCEPT !.onAR = FALSE]])

\* recalculateOnAR of ActivityReportObjective.
DestroyAROs(db, r, os) ==
  LET left == [db EXCEPT !.aros[r] = [o \in Objectives |-> IF o \in os THEN NoLink ELSE @[o]]]
  IN SetObjectives(left, os \intersect ReportObjectives(db, r),
       [o \in Objectives |-> [db.objectives[o] EXCEPT
          !.onAR = ObjectiveReports(left, o, ReportStatuses) # {}]])

\* A new goal, refused by the index on open goals of a grant and template.
CreateGoal(db, g, via) ==
  [db EXCEPT
     !.goals[g] = [NoGoal EXCEPT !.status = NOT_STARTED, !.via = via],
     !.ok = @ /\ GoalsNotClosed(db) = {}]

\* The number of the next goal; a model bound stops when there is none.
NextGoal(db) == {g \in Goals : db.goals[g].status = ABSENT
                               /\ \A h \in 1..(g - 1) : db.goals[h].status # ABSENT}

CreateObjectives(db, os, via) ==
  SetObjectives(db, os, [o \in os |-> [NoObjective EXCEPT !.status = NOT_STARTED, !.via = via]])

-----------------------------------------------------------------------------
\* saveStandardGoalsForReport and its helpers.

\* findClosedGoalIdsSelectedBeforeClosure.
ClosedGoalsSelectedBeforeClosure(db, r) ==
  {g \in ReportGoals(db, r) : db.goals[g].status = CLOSED /\ <<r, g>> \in db.selectedBefore}

\* statusForActivityReportObjective: "Not Started" does not go behind the status.
StatusForActivityReportObjective(saved, submitted) ==
  IF submitted = NOT_STARTED THEN saved ELSE submitted

CacheGoalMetadata(db, r, g) == [db EXCEPT !.args = @ \union {<<r, g>>}, !.goals[g].onAR = TRUE]

\* Mutant: the status of a new objective is read before it is created.
SaveObjectivesReadEarly(db, r, g, want) ==
  LET os    == {o \in {g} \X Titles : want[o[2]] # NoLink}
      saved == CreateObjectives(db, os \ LiveObjectives(db), "activityReport")
  IN [SetObjectives(saved, os, [o \in os |-> [saved.objectives[o] EXCEPT !.onAR = TRUE]])
      EXCEPT !.aros[r] = [o \in Objectives |->
        IF o \in os
        THEN StatusForActivityReportObjective(db.objectives[o].status, want[o[2]])
        ELSE @[o]]]

\* createObjectivesForGoal and cacheObjectiveMetadata: want gives a status to
\* each title on the report.
SaveObjectives(db, r, g, want) ==
  LET os    == {o \in {g} \X Titles : want[o[2]] # NoLink}
      saved == CreateObjectives(db, os \ LiveObjectives(db), "activityReport")
  IN [SetObjectives(saved, os, [o \in os |-> [saved.objectives[o] EXCEPT !.onAR = TRUE]])
      EXCEPT !.aros[r] = [o \in Objectives |->
        IF o \in os
        THEN StatusForActivityReportObjective(saved.objectives[o].status, want[o[2]])
        ELSE @[o]]]

\* Mutant: other reports are not looked at.
RemoveObjectivesInUse(db, os, r) ==
  DestroyObjectives(db, {o \in os \intersect LiveObjectives(db) :
    /\ db.objectives[o].via = "activityReport"
    /\ ~db.objectives[o].onApprovedAR})

\* removeObjectivesFromReport: objectives made by reports and no longer used.
RemoveObjectivesFromReport(db, os, r) ==
  DestroyObjectives(db, {o \in os \intersect LiveObjectives(db) :
    /\ db.objectives[o].via = "activityReport"
    /\ ~db.objectives[o].onApprovedAR
    /\ ObjectiveReports(db, o, NotDeleted) \ {r} = {}})

\* removeUnusedGoalsObjectivesFromReport: links that are not current go, and
\* then the objectives nobody uses.
RemoveUnusedObjectives(db, r, current) ==
  LET gone == ReportObjectives(db, r) \ current
  IN RemoveObjectivesFromReport(DestroyAROs(db, r, gone), gone, r)

RemoveUnusedGoalsCreatedViaAr(db, gs, r) ==
  DestroyGoals(db, {g \in gs \intersect LiveGoals(db) :
    /\ db.goals[g].via = "activityReport"
    /\ ~db.goals[g].onApprovedAR
    /\ GoalReports(db, g, NotDeleted) \ {r} = {}
    /\ ObjectivesOf(db, g) = {}})

\* Mutant: the objectives of the goals that go stay on the report.
KeepTheirObjectives(db, r, gs, os) ==
  LET removed == {g \in Goals : <<r, g>> \in db.args} \ gs
  IN RemoveUnusedGoalsCreatedViaAr(DestroyARGs(db, r, removed), removed, r)

\* What is left on the report: the goals gs with the objectives os.
KeepOnReport(db, r, gs, os) ==
  LET removed == {g \in Goals : <<r, g>> \in db.args} \ gs
  IN RemoveUnusedGoalsCreatedViaAr(
       RemoveUnusedObjectives(DestroyARGs(db, r, removed), r, os), removed, r)

\* The goal a report's template stands for: a closed one it had selected, or
\* else the open one.
GoalForReport(db, r) ==
  IF ClosedGoalsSelectedBeforeClosure(db, r) # {}
  THEN ClosedGoalsSelectedBeforeClosure(db, r)
  ELSE GoalsNotClosed(db)

\* saveStandardGoalsForReport with the template on the report, as goal g.
SaveGoal(db, r, g, want) ==
  LET created == IF g \in LiveGoals(db) THEN db ELSE CreateGoal(db, g, "activityReport")
      saved   == SaveObjectives(CacheGoalMetadata(created, r, g), r, g, want)
  IN KeepOnReport(saved, r, {g}, {o \in {g} \X Titles : want[o[2]] # NoLink})

\* ... and without: every link of the report goes.
SaveNoGoal(db, r) == KeepOnReport(db, r, {}, {})

\* The goals a save may take: the one there is, or a new one.
GoalChoices(db, r) == IF GoalForReport(db, r) # {} THEN GoalForReport(db, r) ELSE NextGoal(db)

-----------------------------------------------------------------------------
\* changeGoalStatus and the hooks of GoalStatusChange.

\* Mutant: reports at work on the goal do not block it.
MayCloseInUse(db, g, approvedCount) ==
  \A o \in ObjectivesOf(db, g) :
    \/ db.objectives[o].status = COMPLETE
    \/ approvedCount /\ db.objectives[o].onApprovedAR

\* validateGoalStatusChange: active reports and open objectives block closing.
MayClose(db, g, approvedCount) ==
  /\ GoalReports(db, g, Active) = {}
  /\ \A o \in ObjectivesOf(db, g) :
       \/ db.objectives[o].status = COMPLETE
       \/ approvedCount /\ db.objectives[o].onApprovedAR

\* preventCloseIfObjectivesOpen: objectives on no report or on an approved one.
CloseHookPasses(db, g) ==
  \A o \in ObjectivesOf(db, g) :
    \/ db.objectives[o].status = COMPLETE
    \/ /\ ObjectiveReports(db, o, ReportStatuses) # {}
       /\ ObjectiveReports(db, o, {APPROVED}) = {}

\* The status change row with its hooks: nothing when the status is the same,
\* an error when the index finds another open goal, and a suspended goal takes
\* its objectives along.  A closing is later than the links there are.
ChangeGoal(db, g, status) ==
  LET changed == [db EXCEPT
        !.goals[g].status = status,
        !.selectedBefore =
          IF status = CLOSED THEN @ \union {link \in db.args : link[2] = g} ELSE @,
        !.ok = /\ @
               /\ status = CLOSED => CloseHookPasses(db, g)
               /\ status # CLOSED => GoalsNotClosed(db) \subseteq {g}]
      suspended == {o \in ObjectivesOf(db, g) :
                      db.objectives[o].status \in {NOT_STARTED, IN_PROGRESS}}
  IN IF db.goals[g].status = status THEN db
     ELSE IF status # SUSPENDED THEN changed
     ELSE SetObjectives(changed, suspended,
            [o \in suspended |-> [db.objectives[o] EXCEPT !.status = SUSPENDED]])

\* The old status a request may name: the one its page shows, which is the goal's
\* or (bound) the one it had when it was new and the page was loaded.
ShownStatuses(g) == {NOT_STARTED, goals[g].status}

\* verifyAllowedGoalStatusTransition, of the old status the request names: a
\* suspended goal may return to any status of its history.
AllowedTransition(old, new) ==
  \/ old \in {NOT_STARTED, IN_PROGRESS} /\ new \in {CLOSED, SUSPENDED}
  \/ old = SUSPENDED

\* updateGoalStatusById.
UpdateGoalStatusById(db, g, old, new) ==
  [ChangeGoal(db, g, new) EXCEPT
     !.ok = /\ @
            /\ AllowedTransition(old, new)
            /\ new = CLOSED => MayClose(db, g, FALSE)]

-----------------------------------------------------------------------------
\* What the hooks of ActivityReport do to goals (afterUpdate).

\* checkForNewGoalCycleOnApproval: the goals of the report are saved again with
\* the statuses of its objectives.  Several goals of a template are one goal with
\* its grant named as often (reduceGoals), for which the grant's goal is saved as
\* often: one that is missing would be made twice, which the index refuses.
ResaveGoals(db, r) ==
  LET linked  == ReportGoals(db, r)
      several == \E g, h \in linked : g # h
      h       == CHOOSE g \in linked : TRUE
      g       == CHOOSE g \in GoalChoices(db, r) : TRUE
  IN IF linked = {} THEN db
     ELSE IF GoalChoices(db, r) = {} \/ (several /\ GoalForReport(db, r) = {})
     THEN [db EXCEPT !.ok = FALSE]
     ELSE SaveGoal(db, r, g, [t \in Titles |-> db.aros[r][<<h, t>>]])

Latest(rs) == CHOOSE r \in rs : \A s \in rs : EndDate[s] <= EndDate[r]

\* The status an approved report's link gives to an objective: "Not Started"
\* does not undo a start.  The date of a suspended objective's first start is not
\* kept: begun is the set of those that have one.
StatusFromReport(current, status, begun) ==
  CASE status # NOT_STARTED                -> status
    [] current = NOT_STARTED               -> NOT_STARTED
    [] current \in {IN_PROGRESS, COMPLETE} -> IN_PROGRESS
    [] current = SUSPENDED                 -> IF begun THEN IN_PROGRESS ELSE SUSPENDED

\* determineObjectiveStatus: of the approved reports that use an objective the
\* latest decides; when an unlock leaves none for the whole report, the
\* objectives of goals that are not closed start over.
DetermineObjectiveStatus(db, r, unlocked, begun) ==
  LET os   == ReportObjectives(db, r)
      used == {o \in os : ObjectiveReports(db, o, {APPROVED}) # {}}
      Given(o) == db.aros[Latest(ObjectiveReports(db, o, {APPROVED}))][o]
  IN IF unlocked /\ used = {}
     THEN SetStatus(db, {o \in os : o[1] \in GoalsNotClosed(db)}, NOT_STARTED)
     ELSE SetObjectives(db, used, [o \in used |-> [db.objectives[o] EXCEPT
            !.status = StatusFromReport(@, Given(o), o \in begun)]])

SetOnApprovedAR(db, os, flag) ==
  SetObjectives(db, os, [o \in os |-> [db.objectives[o] EXCEPT !.onApprovedAR = flag]])

SetGoalsOnApprovedAR(db, gs, flag) ==
  [db EXCEPT !.goals = [g \in Goals |-> IF g \in gs THEN [@[g] EXCEPT !.onApprovedAR = flag]
                                                    ELSE @[g]]]

GoalsOf(db, os) == {g \in LiveGoals(db) : \E o \in os : o[1] = g}

\* propagateApprovedStatus, when the report leaves the status.
LeaveApproved(db, r, begun) ==
  LET os         == ReportObjectives(db, r)
      unused     == {o \in os : ObjectiveReports(db, o, {APPROVED}) = {}}
      unapproved == SetOnApprovedAR(db, unused, FALSE)
      settled    == DetermineObjectiveStatus(unapproved, r, TRUE, begun)
  IN SetGoalsOnApprovedAR(settled,
       {g \in GoalsOf(settled, os) : GoalReports(settled, g, {APPROVED}) = {}}, FALSE)

\* Mutant: only the objectives that the report's approval completes are marked.
EnterApprovedComplete(db, r, begun) ==
  LET os == ReportObjectives(db, r)
  IN SetGoalsOnApprovedAR(
       DetermineObjectiveStatus(
         SetOnApprovedAR(db, {o \in os : db.aros[r][o] = COMPLETE}, TRUE), r, FALSE, begun),
       GoalsOf(db, os), TRUE)

\* propagateApprovedStatus, when the report enters it.
EnterApproved(db, r, begun) ==
  LET os == ReportObjectives(db, r)
  IN SetGoalsOnApprovedAR(
       DetermineObjectiveStatus(SetOnApprovedAR(db, os, TRUE), r, FALSE, begun),
       GoalsOf(db, os), TRUE)

\* automaticStatusChangeOnApprovalForGoals and automaticUnsuspendGoalOnApproval:
\* a report that was saved again has one goal of a template.
StartGoal(db, r) ==
  LET waiting == {g \in ReportGoals(db, r) : db.goals[g].status \in {NOT_STARTED, SUSPENDED}}
  IN IF waiting = {} THEN db ELSE ChangeGoal(db, CHOOSE g \in waiting : TRUE, IN_PROGRESS)

\* The report's calculated status is written, and afterUpdate runs.
WriteReport(db, r, status, begun) ==
  LET before  == db.reports[r]
      entering == before # APPROVED /\ status = APPROVED
      leaving  == before = APPROVED /\ status # APPROVED
      resaved == \/ entering
                 \/ leaving /\ status = NEEDS_ACTION
                 \/ before # SUBMITTED /\ status = SUBMITTED
      written == [db EXCEPT !.reports[r] = status]
      current == IF resaved THEN ResaveGoals(written, r) ELSE written
  IN CASE entering -> StartGoal(EnterApproved(current, r, begun), r)
       [] leaving  -> LeaveApproved(current, r, begun)
       [] OTHER    -> current

-----------------------------------------------------------------------------
\* Requests on an activity report.

\* saveReport, createGoalsForReport: the author's goals page, with the template.
SaveReportGoal(r, g, want) ==
  /\ reports[r] \in Active
  /\ g \in GoalChoices(Db, r)
  /\ Commit(SaveGoal(Db, r, g, want))

\* ... and without it.
SaveReportWithoutGoal(r) ==
  /\ reports[r] \in Active
  /\ Commit(SaveNoGoal(Db, r))

\* removeRemovedRecipientsGoals: the recipient is taken off the report.  A goal
\* or objective on no other report goes, unless it is on an approved one.
RemoveRecipient(r) ==
  LET gs == ReportGoals(Db, r)
      os == {o \in ReportObjectives(Db, r) : o[1] \in gs}
      unlinked == DestroyAROs(DestroyARGs(Db, r, gs), r, os)
      unused   == {o \in os : /\ ObjectiveReports(Db, o, ReportStatuses) = {r}
                              /\ ~objectives[o].onApprovedAR}
  IN /\ reports[r] \in Active
     /\ Commit(DestroyGoals(DestroyObjectives(unlinked, unused),
          {g \in gs : /\ GoalReports(Db, g, ReportStatuses) = {r}
                      /\ goals[g].via = "activityReport"
                      /\ ~goals[g].onApprovedAR}))

\* submitReport, and an approver taking a request for changes back: approvals
\* given earlier stand, and may be all that is wanted.
SubmitReport(r, outcome, begun) ==
  /\ reports[r] \in {DRAFT, NEEDS_ACTION}
  /\ Commit(WriteReport(Db, r, outcome, begun))

\* reviewReport, with the outcome of all verdicts, or an approver taken off.
ReviewReport(r, outcome, begun) ==
  /\ reports[r] \in {SUBMITTED, NEEDS_ACTION}
  /\ outcome # reports[r]
  /\ Commit(WriteReport(Db, r, outcome, begun))

\* unlockReport, and a request for changes by an approver of an approved report.
UnlockReport(r, begun) ==
  /\ reports[r] = APPROVED
  /\ Commit(WriteReport(Db, r, NEEDS_ACTION, begun))

\* resetToDraft: the verdicts are taken back first, which makes the report
\* submitted.
ResetToDraft(r, begun) ==
  /\ reports[r] \in {SUBMITTED, NEEDS_ACTION, APPROVED}
  /\ Commit(WriteReport(WriteReport(Db, r, SUBMITTED, begun), r, DRAFT, {}))

\* Mutant: the objectives of the report are not cleaned up.
CleanupOnlyAROs(db, r) == DestroyAROs(db, r, ReportObjectives(db, r))

\* cleanupOrphanedObjectivesAndAROs.
CleanupOrphanedObjectivesAndAROs(db, r) ==
  LET os   == ReportObjectives(db, r)
      left == DestroyAROs(db, r, os)
  IN DestroyObjectives(left, {o \in os : /\ ObjectiveReports(left, o, NotDeleted) = {}
                                         /\ left.objectives[o].via = "activityReport"})

\* softDeleteReport, through handleSoftDeleteReport: goals made by reports and
\* linked by no other one, deleted reports included, go with their objectives.
SoftDeleteReport(r) ==
  LET gs == {g \in ReportGoals(Db, r) : /\ goals[g].via = "activityReport"
                                        /\ GoalReports(Db, g, ReportStatuses) = {r}}
      os == {o \in LiveObjectives(Db) : o[1] \in gs}
      cleaned == DestroyGoals(DestroyObjectives(Db, os), gs)
      unlinked == [cleaned EXCEPT !.aros[r] =
                    [o \in Objectives |-> IF o \in os THEN NoLink ELSE @[o]]]
  IN /\ reports[r] \in Active
     /\ Commit(WriteReport(CleanupOrphanedObjectivesAndAROs(unlinked, r), r, DELETED, {}))

-----------------------------------------------------------------------------
\* Requests from the recipient's page and the administrators' page.

\* newStandardGoal, with some objectives.
NewStandardGoal(g, ts) ==
  /\ GoalsNotClosed(Db) = {}
  /\ g \in NextGoal(Db)
  /\ Commit(CreateObjectives(CreateGoal(Db, g, "rtr"), {g} \X ts, "rtr"))

\* The objectives an edit of goal g that lists these titles deletes.
RemovedByEdit(g, listed) ==
  {o \in ObjectivesOf(Db, g) : o[2] \notin listed /\ ~objectives[o].onAR}

\* updateExistingStandardGoal: objectives listed by a template keep their status,
\* other listed ones that were complete or suspended go on, new ones start.
UpdateStandardGoal(g, listed, fromTemplate) ==
  LET kept    == {o \in ObjectivesOf(Db, g) : o[2] \in listed}
      renewed == {o \in kept : /\ o[2] \notin fromTemplate
                               /\ objectives[o].status \in {COMPLETE, SUSPENDED}}
      added   == ({g} \X listed) \ kept
  IN /\ g \in LiveGoals(Db)
     /\ goals[g].status \in {NOT_STARTED, IN_PROGRESS}
     /\ Commit(CreateObjectives(
          DestroyObjectives(SetStatus(Db, renewed, IN_PROGRESS), RemovedByEdit(g, listed)),
          added, "rtr"))

\* changeGoalStatus: the page names the status it shows as the old one.
\* Suspending first suspends the objectives in progress.
ChangeGoalStatus(g, old, new) ==
  LET running == {o \in ObjectivesOf(Db, g) : objectives[o].status = IN_PROGRESS}
  IN /\ g \in LiveGoals(Db)
     /\ Commit(UpdateGoalStatusById(
          IF new = SUSPENDED THEN SetStatus(Db, running, SUSPENDED) ELSE Db, g, old, new))

\* reopenGoal: no transition is checked.
ReopenGoal(g) ==
  /\ g \in LiveGoals(Db)
  /\ goals[g].status # IN_PROGRESS
  /\ Commit(ChangeGoal(Db, g, IN_PROGRESS))

\* deleteGoal, with destroyGoal.  (canDelete looks for approved reports by a status
\* that its query leaves out, so it never refuses for one.)
DeleteGoal(g) ==
  /\ g \in LiveGoals(Db)
  /\ GoalReports(Db, g, NotDeleted) = {}
  /\ Commit(DestroyGoals(DestroyObjectives(Db, ObjectivesOf(Db, g)), {g}))

\* closeMultiRecipientGoalsFromAdmin: objectives on approved reports are
\* completed, then the goal is closed.
CloseGoalFromAdmin(g, old) ==
  LET done == {o \in ObjectivesOf(Db, g) : objectives[o].onApprovedAR}
  IN /\ g \in LiveGoals(Db)
     /\ MayClose(Db, g, TRUE)
     /\ Commit(UpdateGoalStatusById(SetStatus(Db, done, COMPLETE), g, old, CLOSED))

\* updateStatus of objectives.  The query it reads them with leaves onApprovedAR
\* out, so the exceptions for objectives on approved reports never apply.
UpdateObjectiveStatus(o, status) ==
  /\ o \in LiveObjectives(Db)
  /\ o[1] \in GoalsNotClosed(Db)
  /\ ~(objectives[o].status = COMPLETE /\ status = NOT_STARTED)
  /\ Commit(SetStatus(Db, {o}, status))

\* createMultiRecipientGoalsFromAdmin, for a grant that has no goal of the name
\* (bound: goals have the name of their template).
CreateGoalFromAdmin(g) ==
  /\ LiveGoals(Db) = {}
  /\ g \in NextGoal(Db)
  /\ Commit(CreateGoal(Db, g, "admin"))

LinkGoals(db, r, gs) ==
  [db EXCEPT !.args = @ \union ({r} \X gs),
             !.goals = [g \in Goals |-> IF g \in gs THEN [@[g] EXCEPT !.onAR = TRUE] ELSE @[g]]]

\* ... with a new report (a draft without links stands for it), on every goal the
\* grant has of the name, whatever its status.
CreateReportFromAdmin(r, g) ==
  LET made == IF LiveGoals(Db) = {} THEN CreateGoal(Db, g, "admin") ELSE Db
  IN /\ reports[r] = DRAFT
     /\ ReportGoals(Db, r) = {} /\ ReportObjectives(Db, r) = {}
     /\ g \in (IF LiveGoals(Db) = {} THEN NextGoal(Db) ELSE LiveGoals(Db))
     /\ Commit(LinkGoals(made, r, LiveGoals(made)))

\* The goal that createOrUpdateGoals saves, with the status of the request unless
\* the goal is on an approved report: no GoalStatusChange validates or records it.
SaveGivenGoal(db, g, status) ==
  LET row == IF g \in LiveGoals(db) THEN db.goals[g] ELSE NoGoal
  IN IF row.onApprovedAR THEN db
     ELSE [db EXCEPT !.goals[g] = [row EXCEPT !.status = status],
                     !.ok = @ /\ (status # CLOSED => GoalsNotClosed(db) \subseteq {g})]

\* createGoals of the goals' API: an open goal that the request names, or a new
\* one; new objectives get the status of the request, and unless the request skips
\* it the objectives it does not list go when no report uses them.  (Bound: the
\* request names a status, the template, and the objectives there are.)
CreateOrUpdateGoal(g, status, listed, objectiveStatus, skipCleanup) ==
  LET added    == ({g} \X listed) \ LiveObjectives(Db)
      saved    == CreateObjectives(SaveGivenGoal(Db, g, status), added, "rtr")
      unlisted == {o \in ObjectivesOf(Db, g) :
                     o[2] \notin listed /\ ObjectiveReports(Db, o, NotDeleted) = {}}
  IN /\ g \in GoalsNotClosed(Db) \union NextGoal(Db)
     /\ Commit(DestroyObjectives(SetStatus(saved, added, objectiveStatus),
          IF skipCleanup THEN {} ELSE unlisted))

GoalIsGiven(g, status) ==
  \E listed \in SUBSET PageTitles, objectiveStatus \in GivenObjectiveStatuses,
     skipCleanup \in BOOLEAN :
    CreateOrUpdateGoal(g, status, listed, objectiveStatus, skipCleanup)

\* Objectives of which a request may find that they have been started before.
SuspendedObjectives == {o \in Objectives : objectives[o].status = SUSPENDED}

Next ==
  \/ \E r \in Reports, g \in Goals, want \in [Titles -> GivenObjectiveStatuses \union {NoLink}] :
       SaveReportGoal(r, g, want)
  \/ \E r \in Reports : SaveReportWithoutGoal(r)
  \/ \E r \in Reports : RemoveRecipient(r)
  \/ \E r \in Reports, outcome \in {SUBMITTED, APPROVED}, begun \in SUBSET SuspendedObjectives :
       SubmitReport(r, outcome, begun)
  \/ \E r \in Reports, outcome \in {APPROVED, NEEDS_ACTION}, begun \in SUBSET SuspendedObjectives :
       ReviewReport(r, outcome, begun)
  \/ \E r \in Reports, begun \in SUBSET SuspendedObjectives : UnlockReport(r, begun)
  \/ \E r \in Reports, begun \in SUBSET SuspendedObjectives : ResetToDraft(r, begun)
  \/ \E r \in Reports : SoftDeleteReport(r)
  \/ \E g \in Goals, ts \in SUBSET PageTitles : NewStandardGoal(g, ts)
  \/ \E g \in Goals, listed \in SUBSET PageTitles : \E fromTemplate \in SUBSET listed :
       UpdateStandardGoal(g, listed, fromTemplate)
  \/ \E g \in Goals, new \in GivenGoalStatuses : \E old \in ShownStatuses(g) :
       ChangeGoalStatus(g, old, new)
  \/ \E g \in Goals : ReopenGoal(g)
  \/ \E g \in Goals : DeleteGoal(g)
  \/ \E g \in Goals : \E old \in ShownStatuses(g) : CloseGoalFromAdmin(g, old)
  \/ \E o \in Objectives, status \in GivenObjectiveStatuses : UpdateObjectiveStatus(o, status)
  \/ \E g \in Goals : CreateGoalFromAdmin(g)
  \/ \E r \in Reports, g \in Goals : CreateReportFromAdmin(r, g)
  \/ \E g \in Goals, status \in GivenGoalStatuses : GoalIsGiven(g, status)

Spec == Init /\ [][Next]_vars

-----------------------------------------------------------------------------
\* The rows keep their types.
TypeOK ==
  /\ goals \in [Goals -> GoalRows]
  /\ objectives \in [Objectives -> ObjectiveRows]
  /\ reports \in [Reports -> ReportStatuses]
  /\ args \subseteq Reports \X Goals
  /\ selectedBefore \subseteq Reports \X Goals
  /\ aros \in [Reports -> [Objectives -> Links]]

\* A report that is not deleted uses one cycle of a goal, and links objectives of
\* that goal only, although links to goals and to objectives are written and
\* removed by different services, also after a cycle was closed and another one
\* started.  Only a draft as an administrator made it, on every cycle the grant has
\* had, is on several, without objectives: its first save or submission settles it.
OneCyclePerReport ==
  \A r \in Reports : reports[r] # DELETED =>
    /\ \A g, h \in Goals : <<r, g>> \in args /\ <<r, h>> \in args /\ g # h =>
         reports[r] = DRAFT /\ \A o \in Objectives : aros[r][o] = NoLink
    /\ \A o \in Objectives : aros[r][o] # NoLink => <<r, o[1]>> \in args

\* No clean-up, of another report, of a deleted one or from the recipient's
\* page, deletes a goal or an objective that a report still uses.
UsedRowsKept ==
  \A r \in Reports : reports[r] # DELETED =>
    /\ \A g \in Goals : <<r, g>> \in args => goals[g].status \in GoalStatuses
    /\ \A o \in Objectives : aros[r][o] # NoLink => objectives[o].status # ABSENT

\* The cached flag of an objective, by which titles are frozen and deletion is
\* refused, says whether an approved report uses it, and a goal has the flag when
\* one of its objectives has it.  (The goal's flag may stay set without: an
\* unlocked report finds its goals by its objectives only.)
ApprovedFlagTrue ==
  \A o \in LiveObjectives(Db) :
    /\ objectives[o].onApprovedAR <=> ObjectiveReports(Db, o, {APPROVED}) # {}
    /\ objectives[o].onApprovedAR /\ o[1] \in LiveGoals(Db) => goals[o[1]].onApprovedAR

\* The cached flag by which the recipient's page decides what it may delete says
\* whether a report uses the row.
OnARFlagTrue ==
  /\ \A o \in LiveObjectives(Db) :
       objectives[o].onAR <=> ObjectiveReports(Db, o, ReportStatuses) # {}
  /\ \A g \in LiveGoals(Db) : goals[g].onAR <=> GoalReports(Db, g, ReportStatuses) # {}

\* An objective written on a report does not outlive its last use: it is removed
\* when the last report drops or loses it.
NoAbandonedObjectives ==
  \A o \in LiveObjectives(Db) :
    objectives[o].via = "activityReport" => ObjectiveReports(Db, o, NotDeleted) # {}

\* A report in work is on a closed goal only if it was on that goal when it was
\* closed, as an approved one that has been unlocked since: nobody starts work on
\* a finished cycle, and no cycle ends under a report in work.  Two requests do not
\* ask: the administrators' for a new report, and the goals' API, which closes a
\* goal as it is told.  But then no report is submitted or approved on such a goal:
\* only on one that it had selected before a recorded change closed it.
NoNewWorkOnClosedGoals ==
  [][\A r \in Reports, g \in Goals :
       <<r, g>> \in args' /\ goals'[g].status = CLOSED =>
         /\ \/ reports'[r] \notin Active
            \/ <<r, g>> \in args /\ goals[g].status = CLOSED
            \/ \E h \in Goals : CreateReportFromAdmin(r, h)
            \/ GoalIsGiven(g, CLOSED)
         /\ \/ reports'[r] \notin {SUBMITTED, APPROVED} \/ reports'[r] = reports[r]
            \/ <<r, g>> \in selectedBefore]_vars
=============================================================================
